----------------------------- MODULE TelegramProofs -----------------------------
(* Theorems about Telegram, for every value of its constants. *)
EXTENDS Telegram, FiniteSetTheorems, TLAPS

-----------------------------------------------------------------------------
(* The inductive invariants *)

Settings == [token : Token, admins : SUBSET Chats]
SaveState == [pc : {"none", "token", "admins", "live", "cancel", "start"},
              keep : BOOLEAN, token : Token, admins : SUBSET Chats]
LoopState ==
    {b \in [pc : {"none", "new", "poll", "batch"}, token : Token, cancelled : BOOLEAN,
            offset : 0 .. MaxUpdates + 1, batch : SUBSET Updates] :
        /\ b.pc = "batch" <=> b.batch # {}
        /\ \A u \in b.batch : u >= b.offset
        /\ b.pc # "none" => b.token \in Tokens}

\* The loop that botCancel stops has not been cancelled; a bot is started with a
\* token only.
TypeInv ==
    /\ stored \in [token : Token \cup {Unset}, admins : {Unset} \cup SUBSET Chats]
    /\ live \in Settings
    /\ save \in [Saves -> SaveState]
    /\ \A h \in Saves : save[h].pc = "start" => save[h].token \in Tokens
    /\ bot \in [Loops -> LoopState]
    /\ botCancel \in Running \cup {0}
    /\ botCancel # 0 => ~bot[botCancel].cancelled
    /\ inbox \in [Tokens -> SUBSET Updates]
    /\ executed \in [Updates -> Nat]
    /\ answered \subseteq Updates /\ amid \subseteq Updates
    /\ disturbed \in BOOLEAN
    /\ spent \in [Kinds -> Nat]

\* Where a save is tells what it has stored; without an overlap it is the only one.
StoredInv == ~disturbed =>
    /\ \A g, h \in Saves : g # h => save[g].pc = "none" \/ save[h].pc = "none"
    /\ (\A h \in Saves : save[h].pc \notin {"admins", "live"}) => live = Effective
    /\ \A h \in Saves :
          /\ save[h].pc = "token" => ~save[h].keep
          /\ save[h].pc = "admins" =>
                /\ Effective = [token |-> save[h].token, admins |-> live.admins]
                /\ save[h].keep => live = Effective
          /\ save[h].pc = "live" =>
                Effective = [token |-> save[h].token, admins |-> save[h].admins]

Pollers(t) == {l \in Running : bot[l].token = t}

\* Telegram and the loops hold commands that were sent, to the bot they were sent to.
SentInv ==
    /\ \A t \in Tokens : \A u \in inbox[t] : To[u] = t /\ u <= spent["update"]
    /\ \A l \in Running : \A u \in bot[l].batch : To[u] = bot[l].token /\ u <= spent["update"]
    /\ \A u \in Updates : u > spent["update"] => executed[u] = 0

\* A command not in amid that was executed is behind every loop that could meet it
\* again, and until Telegram drops it at most one loop can.
OnceSafe(u) ==
    u \notin amid =>
        /\ executed[u] <= 1
        /\ u \in inbox[To[u]] => \A k, l \in Pollers(To[u]) : k = l
        /\ \A l \in Pollers(To[u]) :
              /\ u \in bot[l].batch => u \in inbox[To[u]] /\ executed[u] = 0
              /\ u \in inbox[To[u]] /\ executed[u] > 0 => bot[l].offset > u

OnceInv == SentInv /\ \A u \in Updates : OnceSafe(u)

-----------------------------------------------------------------------------
(* What the helpers return *)

\* TypeInv is at least the type invariant.
LEMMA TypeImplies == TypeInv => TypeOK
<1> SUFFICES ASSUME TypeInv
             PROVE  TypeOK
    OBVIOUS
<1>1. \A l \in Loops : /\ bot[l] \in LoopState
                       /\ bot[l] \in [pc : {"none", "new", "poll", "batch"}, token : Token,
                                      cancelled : BOOLEAN, offset : 0 .. MaxUpdates + 1,
                                      batch : SUBSET Updates]
    BY DEF LoopState, TypeInv
<1>2. \A l \in Loops : /\ bot[l].pc = "batch" <=> bot[l].batch # {}
                       /\ \A u \in bot[l].batch : u >= bot[l].offset
    BY DEF LoopState, TypeInv
<1>3. bot \in [Loops -> [pc : {"none", "new", "poll", "batch"}, token : Token, cancelled : BOOLEAN,
                         offset : 0 .. MaxUpdates + 1, batch : SUBSET Updates]]
    BY <1>1 DEF TypeInv
<1>4. Running \subseteq Loops
    BY DEF Running
<1> QED
    BY <1>2, <1>3, <1>4 DEF TypeInv, TypeOK, Settings, SaveState

\* A loop that ended, or starts.
LEMMA LoopType ==
    /\ NoLoop \in LoopState
    /\ \A t \in Tokens : NewLoop(t) \in LoopState
    /\ \A t : NewLoop(t).pc = "new" /\ NewLoop(t).token = t /\ ~NewLoop(t).cancelled
             /\ NewLoop(t).offset = 0 /\ NewLoop(t).batch = {}
<1>1. 0 \in 0 .. MaxUpdates + 1
    BY TelegramAssumption
<1>2. NoToken \in Token
    BY DEF Token
<1>3. NoLoop \in LoopState
    BY <1>1, <1>2 DEF NoLoop, LoopState
<1>4. \A t \in Tokens : NewLoop(t) \in LoopState
    BY <1>1 DEF NewLoop, LoopState, Token
<1> QED
    BY <1>3, <1>4 DEF NewLoop

\* A loop that goes round.
LEMMA RoundType ==
    ASSUME TypeInv, NEW l \in Running
    PROVE  /\ Round(l) \in LoopState
           /\ Round(l).batch = {}
           /\ Round(l).pc = "none" <=> bot[l].cancelled
           /\ Round(l).pc # "none" => /\ Round(l).token = bot[l].token
                                      /\ Round(l).offset = bot[l].offset
                                      /\ ~Round(l).cancelled
<1>1. l \in Loops /\ bot[l] \in LoopState /\ bot[l].pc # "none"
    BY DEF TypeInv, Running
<1>2. CASE bot[l].cancelled
    BY <1>2, LoopType DEF Round, NoLoop
<1>3. CASE ~bot[l].cancelled
    BY <1>1, <1>3 DEF Round, LoopState
<1> QED
    BY <1>2, <1>3

\* A loop that has handled the next update of its batch.
LEMMA HandledType ==
    ASSUME TypeInv, NEW l \in Running, NEW u \in bot[l].batch, \A v \in bot[l].batch : u <= v
    PROVE  /\ Handled(l, u) \in LoopState
           /\ Handled(l, u).batch = bot[l].batch \ {u} \/ Handled(l, u).batch = {}
           /\ Handled(l, u).pc = "none" => bot[l].cancelled
           /\ Handled(l, u).pc # "none" => /\ Handled(l, u).token = bot[l].token
                                           /\ Handled(l, u).offset = u + 1
                                           /\ Handled(l, u).cancelled = bot[l].cancelled
<1>1. l \in Loops /\ bot[l] \in LoopState /\ bot[l].pc = "batch"
    BY DEF TypeInv, Running, LoopState
<1>2. u \in Updates /\ u \in Nat /\ u + 1 \in 0 .. MaxUpdates + 1
    BY <1>1, TelegramAssumption DEF LoopState, Updates
<1>3. CASE bot[l].batch = {u} /\ bot[l].cancelled
    <2>1. Handled(l, u) = NoLoop
        BY <1>3 DEF Handled, Round, NoLoop
    <2> QED
        BY <1>3, <2>1, LoopType DEF NoLoop
<1>4. CASE bot[l].batch = {u} /\ ~bot[l].cancelled
    BY <1>1, <1>2, <1>4 DEF Handled, Round, LoopState
<1>5. CASE bot[l].batch # {u}
    <2>1. \A v \in bot[l].batch \ {u} : v >= u + 1
        BY <1>1, <1>2 DEF LoopState, Updates
    <2>2. bot[l].batch \ {u} # {}
        BY <1>5
    <2> QED
        BY <1>1, <1>2, <1>5, <2>1, <2>2 DEF Handled, LoopState
<1> QED
    BY <1>3, <1>4, <1>5

\* The settings Run reads are settings.
LEMMA EffectiveType ==
    ASSUME TypeInv
    PROVE  Effective \in Settings
BY TelegramAssumption DEF TypeInv, Effective, Settings, Token

\* The loops of a panel that starts.
LEMMA BootedType ==
    ASSUME NEW t \in Token
    PROVE  /\ Booted(t) \in [Loops -> LoopState]
           /\ 1 \in Loops
           /\ t # NoToken => Booted(t)[1] = NewLoop(t)
           /\ \A l \in Loops : l # 1 \/ t = NoToken => Booted(t)[l] = NoLoop
<1>1. 1 \in Loops
    BY TelegramAssumption DEF Loops
<1>2. t # NoToken => t \in Tokens
    BY DEF Token
<1> QED
    BY <1>1, <1>2, LoopType DEF Booted

\* Spending leaves the budgets numbers, and the update it is spent on is one.
LEMMA SpendType ==
    ASSUME spent \in [Kinds -> Nat], NEW K, SpendAll(K)
    PROVE  /\ spent' \in [Kinds -> Nat]
           /\ "update" \notin K => spent'["update"] = spent["update"]
           /\ "update" \in K => spent'["update"] = spent["update"] + 1
                                /\ spent["update"] + 1 \in Updates
<1>1. /\ spent' \in [Kinds -> Nat]
      /\ "update" \notin K => spent'["update"] = spent["update"]
      /\ "update" \in K => spent'["update"] = spent["update"] + 1
    BY DEF SpendAll, Kinds
<1>2. spent'["update"] <= MaxUpdates
    BY DEF SpendAll, Within, Budget, Kinds
<1>3. spent["update"] \in Nat
    BY DEF Kinds
<1> QED
    BY <1>1, <1>2, <1>3, TelegramAssumption DEF Updates

-----------------------------------------------------------------------------
(* Types *)

\* The initial state is well typed.
LEMMA InitType == Init => TypeInv
<1> SUFFICES ASSUME Init
             PROVE  TypeInv
    OBVIOUS
<1>1. NoSave \in SaveState /\ NoSave.pc # "start"
    BY DEF NoSave, SaveState, Token
<1>2. Env \in Settings
    BY TelegramAssumption DEF Settings, Token
<1>3. Env.token \in Token
    BY <1>2 DEF Settings
<1>4. /\ bot \in [Loops -> LoopState]
      /\ 1 \in Loops
      /\ botCancel # 0 => botCancel = 1 /\ bot[1] = NewLoop(Env.token)
    BY <1>3, BootedType DEF Init
<1>5. botCancel # 0 => bot[botCancel].pc = "new" /\ ~bot[botCancel].cancelled
    BY <1>4, LoopType
<1>6. botCancel \in Running \cup {0}
    BY <1>4, <1>5 DEF Running
<1>7. save \in [Saves -> SaveState] /\ \A h \in Saves : save[h].pc # "start"
    BY <1>1 DEF Init
<1> QED
    BY <1>2, <1>4, <1>5, <1>6, <1>7 DEF Init, TypeInv

\* The steps of a save that leave the bot alone.
LEMMA SaveType ==
    ASSUME TypeInv, NEW h \in Saves, SaveBegin(h) \/ SaveToken(h) \/ SaveAdmins(h) \/ SetTelegram(h)
    PROVE  /\ stored' \in [token : Token \cup {Unset}, admins : {Unset} \cup SUBSET Chats]
           /\ live' \in Settings
           /\ save' \in [Saves -> SaveState]
           /\ \A g \in Saves : save'[g].pc = "start" => save'[g].token \in Tokens
           /\ disturbed' \in BOOLEAN
           /\ spent' \in [Kinds -> Nat]
<1> USE DEF TypeInv
<1>1. save[h] \in SaveState /\ live.token \in Token /\ NoSave \in SaveState /\ NoSave.pc = "none"
    BY DEF Settings, NoSave, SaveState, Token
<1>2. CASE SaveBegin(h)
    <2>1. PICK q \in Requests : save' = [save EXCEPT ![h] =
              [pc |-> IF q.token = Unset THEN "admins" ELSE "token", keep |-> q.token = Unset,
               token |-> IF q.token = Unset THEN live.token ELSE q.token, admins |-> q.admins]]
        BY <1>2 DEF SaveBegin
    <2>2. q.token \in Token \cup {Unset} /\ q.admins \in SUBSET Chats
        BY TelegramAssumption DEF Token
    <2> DEFINE r == [pc |-> IF q.token = Unset THEN "admins" ELSE "token", keep |-> q.token = Unset,
                     token |-> IF q.token = Unset THEN live.token ELSE q.token, admins |-> q.admins]
    <2>3. r \in SaveState /\ r.pc # "start"
        BY <1>1, <2>2 DEF SaveState
    <2> HIDE DEF r
    <2>4. save' = [save EXCEPT ![h] = r]
        BY <2>1 DEF r
    <2>5. spent' \in [Kinds -> Nat]
        BY <1>2, SpendType DEF SaveBegin
    <2> QED
        BY <1>2, <2>3, <2>4, <2>5 DEF SaveBegin
<1>3. ASSUME NEW pc \in {"admins", "live", "cancel"}
      PROVE  [save[h] EXCEPT !.pc = pc] \in SaveState /\ [save[h] EXCEPT !.pc = pc].pc # "start"
    BY <1>1 DEF SaveState
<1>4. ASSUME NEW r \in SaveState, r.pc # "start", save' = [save EXCEPT ![h] = r]
      PROVE  /\ save' \in [Saves -> SaveState]
             /\ \A g \in Saves : save'[g].pc = "start" => save'[g].token \in Tokens
    BY <1>4
<1>5. ASSUME NEW pc \in {"admins", "live", "cancel"}, Goto(h, pc)
      PROVE  /\ save' \in [Saves -> SaveState]
             /\ \A g \in Saves : save'[g].pc = "start" => save'[g].token \in Tokens
    <2>1. save' = [save EXCEPT ![h] = [save[h] EXCEPT !.pc = pc]]
        BY <1>5 DEF Goto
    <2> QED
        BY <1>3, <1>4, <2>1
<1>6. ASSUME Done(h)
      PROVE  /\ save' \in [Saves -> SaveState]
             /\ \A g \in Saves : save'[g].pc = "start" => save'[g].token \in Tokens
    BY <1>1, <1>4, <1>6 DEF Done
<1>7. save[h].token \in Token /\ save[h].admins \in SUBSET Chats
    BY <1>1 DEF SaveState
<1>8. CASE SaveToken(h)
    <2>1. CASE stored' = [stored EXCEPT !.token = save[h].token] /\ Goto(h, "admins") /\ UNCHANGED spent
        BY <1>5, <1>7, <1>8, <2>1 DEF SaveToken
    <2>2. CASE Spend("db") /\ Done(h) /\ UNCHANGED stored
        BY <1>6, <1>8, <2>2, SpendType DEF SaveToken, Spend
    <2> QED
        BY <1>8, <2>1, <2>2 DEF SaveToken
<1>9. CASE SaveAdmins(h)
    <2>1. CASE stored' = [stored EXCEPT !.admins = save[h].admins] /\ Goto(h, "live")
               /\ UNCHANGED <<disturbed, spent>>
        BY <1>5, <1>7, <1>9, <2>1 DEF SaveAdmins
    <2>2. CASE Spend("db") /\ Done(h) /\ disturbed' = (disturbed \/ ~save[h].keep) /\ UNCHANGED stored
        BY <1>6, <1>9, <2>2, SpendType DEF SaveAdmins, Spend
    <2> QED
        BY <1>9, <2>1, <2>2 DEF SaveAdmins
<1>10. CASE SetTelegram(h)
    BY <1>5, <1>7, <1>10 DEF SetTelegram, Settings
<1> QED
    BY <1>2, <1>8, <1>9, <1>10

\* A step of a loop.
LEMMA LoopStepType ==
    ASSUME TypeInv, NEW l \in Running, NEW b \in LoopState,
           bot' = [bot EXCEPT ![l] = b], botCancel' = botCancel,
           b.pc = "none" => bot[l].cancelled,
           b.pc # "none" => (b.cancelled <=> bot[l].cancelled)
    PROVE  /\ bot' \in [Loops -> LoopState]
           /\ botCancel' \in Running' \cup {0}
           /\ botCancel' # 0 => ~bot'[botCancel'].cancelled
<1>1. l \in Loops /\ l # 0
    BY DEF Running, Loops
<1>2. bot' \in [Loops -> LoopState]
    BY <1>1 DEF TypeInv
<1>3. CASE botCancel = 0
    BY <1>2, <1>3
<1>4. CASE botCancel = l
    <2>1. bot'[l] = b /\ ~bot[l].cancelled
        BY <1>1, <1>4 DEF TypeInv
    <2> QED
        BY <1>1, <1>2, <1>4, <2>1 DEF Running
<1>5. CASE botCancel # l /\ botCancel # 0
    <2>1. botCancel \in Loops /\ bot[botCancel].pc # "none" /\ ~bot[botCancel].cancelled
        BY <1>5 DEF TypeInv, Running
    <2>2. bot'[botCancel] = bot[botCancel]
        BY <1>5, <2>1 DEF TypeInv
    <2> QED
        BY <1>2, <2>1, <2>2 DEF Running
<1> QED
    BY <1>3, <1>4, <1>5

\* A loop that begins a round stays well formed, and the loop to cancel runs.
LEMMA RoundStepType ==
    ASSUME TypeInv, NEW l \in Running, bot' = [bot EXCEPT ![l] = Round(l)], botCancel' = botCancel
    PROVE  /\ bot' \in [Loops -> LoopState]
           /\ botCancel' \in Running' \cup {0}
           /\ botCancel' # 0 => ~bot'[botCancel'].cancelled
<1>1. Round(l).pc # "none" => (Round(l).cancelled <=> bot[l].cancelled)
    BY RoundType
<1> QED
    BY <1>1, RoundType, LoopStepType

\* What a loop polls with and for is well formed.
LEMMA PollType ==
    ASSUME TypeInv, NEW l \in Running
    PROVE  /\ bot[l].token \in Tokens
           /\ Answer(l) \subseteq Updates
           /\ Answer(l) = {u \in inbox[bot[l].token] : u >= bot[l].offset}
           /\ Confirmed(l) \in [Tokens -> SUBSET Updates]
           /\ Confirmed(l) = [inbox EXCEPT ![bot[l].token] = Answer(l)]
<1>1. bot[l] \in LoopState /\ bot[l].pc # "none"
    BY DEF TypeInv, Running
<1>2. bot[l].token \in Tokens
    BY <1>1 DEF LoopState
<1>3. Answer(l) \subseteq Updates
    BY <1>2 DEF TypeInv, Answer
<1> QED
    BY <1>2, <1>3 DEF TypeInv, Confirmed, Answer

\* Every step keeps TypeInv.
LEMMA NextType == TypeInv /\ [Next]_vars => TypeInv'
<1> SUFFICES ASSUME TypeInv, [Next]_vars
             PROVE  TypeInv'
    OBVIOUS
<1> DEFINE SaveOK == /\ save' \in [Saves -> SaveState]
                     /\ \A h \in Saves : save'[h].pc = "start" => save'[h].token \in Tokens
           BotOK == /\ bot' \in [Loops -> LoopState]
                    /\ botCancel' \in Running' \cup {0}
                    /\ botCancel' # 0 => ~bot'[botCancel'].cancelled
<1>b. UNCHANGED <<bot, botCancel>> => BotOK
    BY DEF TypeInv, Running
<1>s. UNCHANGED save => SaveOK
    BY DEF TypeInv
<1>1. ASSUME NEW h \in Saves, SaveBegin(h) \/ SaveToken(h) \/ SaveAdmins(h) \/ SetTelegram(h)
      PROVE  TypeInv'
    <2>1. UNCHANGED <<botVars, history>>
        BY <1>1 DEF SaveBegin, SaveToken, SaveAdmins, SetTelegram
    <2> QED
        BY <1>1, <1>b, <2>1, SaveType DEF TypeInv, botVars, history
<1>2. ASSUME NEW h \in Saves, StopBot(h)
      PROVE  TypeInv'
    <2>1. \A l \in Loops : bot[l] \in LoopState => [bot[l] EXCEPT !.cancelled = TRUE] \in LoopState
        BY DEF LoopState
    <2>2. BotOK
        BY <1>2, <2>1 DEF StopBot, TypeInv, Loops
    <2>3. save[h] \in SaveState /\ live.token \in Token
        BY DEF TypeInv, Settings
    <2> DEFINE r == IF live.token = NoToken THEN NoSave
                    ELSE [save[h] EXCEPT !.pc = "start", !.token = live.token]
    <2>4. NoSave \in SaveState /\ NoSave.pc = "none"
        BY DEF NoSave, SaveState, Token
    <2>5. r \in SaveState /\ (r.pc = "start" => r.token \in Tokens)
        BY <2>3, <2>4 DEF SaveState, Token
    <2>6. save' = [save EXCEPT ![h] = r]
        BY <1>2 DEF StopBot
    <2> HIDE DEF r
    <2>7. SaveOK
        BY <2>5, <2>6 DEF TypeInv
    <2> QED
        BY <1>2, <2>2, <2>7 DEF StopBot, TypeInv, history
<1>3. ASSUME NEW h \in Saves, StartBot(h)
      PROVE  TypeInv'
    <2>1. save[h].token \in Tokens
        BY <1>3 DEF StartBot, TypeInv
    <2>2. NewLoop(save[h].token) \in LoopState
        BY <2>1, LoopType
    <2>3. PICK l \in Loops : bot' = [bot EXCEPT ![l] = NewLoop(save[h].token)] /\ botCancel' = l
        BY <1>3 DEF StartBot
    <2>4. bot' \in [Loops -> LoopState] /\ bot'[l] = NewLoop(save[h].token)
        BY <2>2, <2>3 DEF TypeInv
    <2>5. bot'[l].pc = "new" /\ ~bot'[l].cancelled
        BY <2>4, LoopType
    <2>6. BotOK
        BY <2>3, <2>4, <2>5 DEF Running
    <2>7. NoSave \in SaveState /\ NoSave.pc = "none"
        BY DEF NoSave, SaveState, Token
    <2>8. SaveOK
        BY <1>3, <2>7 DEF StartBot, Done, TypeInv
    <2>9. Waiting(save[h].token) \subseteq Updates
        BY <2>1 DEF Waiting, TypeInv
    <2>10. amid' \subseteq Updates
        BY <1>3, <2>9 DEF StartBot, TypeInv
    <2> QED
        BY <1>3, <2>6, <2>8, <2>10 DEF StartBot, TypeInv
<1>4. ASSUME NEW l \in Loops, Enter(l)
      PROVE  TypeInv'
    <2>1. l \in Running
        BY <1>4 DEF Enter, Running
    <2>2. BotOK
        BY <1>4, <2>1, RoundStepType DEF Enter
    <2> QED
        BY <1>4, <1>s, <2>2 DEF Enter, TypeInv, history
<1>5. ASSUME NEW l \in Loops, Poll(l)
      PROVE  TypeInv'
    <2>1. l \in Running
        BY <1>5 DEF Poll, Running
    <2>2. CASE Answer(l) = {}
        <3>1. bot' = [bot EXCEPT ![l] = Round(l)] /\ UNCHANGED botCancel
            BY <1>5, <2>2 DEF Poll
        <3>2. BotOK
            BY <2>1, <3>1, RoundStepType
        <3> QED
            BY <1>5, <2>1, <3>2, PollType, <1>s DEF Poll, TypeInv, history
    <2>3. CASE Answer(l) # {}
        <3>1. bot[l] \in LoopState
            BY DEF TypeInv
        <3>2. \A u \in Answer(l) : u >= bot[l].offset
            BY DEF Answer
        <3> DEFINE b == [bot[l] EXCEPT !.pc = "batch", !.batch = Answer(l)]
        <3>3. b \in LoopState /\ b.pc = "batch" /\ b.cancelled = bot[l].cancelled
            BY <2>1, <2>3, <3>1, <3>2, PollType DEF LoopState
        <3>4. bot' = [bot EXCEPT ![l] = b] /\ UNCHANGED botCancel
            BY <1>5, <2>3 DEF Poll
        <3> HIDE DEF b
        <3>5. BotOK
            BY <2>1, <3>3, <3>4, LoopStepType
        <3> QED
            BY <1>5, <2>1, <3>5, PollType, <1>s DEF Poll, TypeInv, history
    <2> QED
        BY <2>2, <2>3
<1>6. ASSUME NEW l \in Loops, PollFails(l)
      PROVE  TypeInv'
    <2>1. l \in Running
        BY <1>6 DEF PollFails, Running
    <2>2. BotOK
        BY <1>6, <2>1, RoundStepType DEF PollFails
    <2>3. inbox' \in [Tokens -> SUBSET Updates]
        BY <1>6, <2>1, PollType DEF PollFails, TypeInv
    <2>4. spent' \in [Kinds -> Nat]
        BY <1>6, SpendType DEF PollFails, Spend, TypeInv
    <2> QED
        BY <1>6, <1>s, <2>2, <2>3, <2>4 DEF PollFails, TypeInv, history
<1>7. ASSUME NEW l \in Loops, Handle(l)
      PROVE  TypeInv'
    <2>1. l \in Running /\ bot[l] \in LoopState
        BY <1>7 DEF Handle, Running, TypeInv
    <2>2. PICK u \in bot[l].batch :
             /\ \A v \in bot[l].batch : u <= v
             /\ bot' = [bot EXCEPT ![l] = Handled(l, u)]
             /\ executed' = [executed EXCEPT ![u] = IF From[u] \in live.admins THEN @ + 1 ELSE @]
             /\ answered' = answered \cup {u}
        BY <1>7 DEF Handle
    <2>3. u \in Updates
        BY <2>1 DEF LoopState
    <2>4. BotOK
        BY <1>7, <2>1, <2>2, LoopStepType, HandledType DEF Handle
    <2>5. executed' \in [Updates -> Nat] /\ answered' \subseteq Updates
        BY <2>2, <2>3 DEF TypeInv
    <2> QED
        BY <1>7, <1>s, <2>4, <2>5 DEF Handle, TypeInv
<1>8. CASE Send
    <2>1. spent["update"] + 1 \in Updates /\ spent' \in [Kinds -> Nat]
        BY <1>8, SpendType DEF Send, Spend, TypeInv
    <2>2. inbox' \in [Tokens -> SUBSET Updates] /\ amid' \subseteq Updates
        BY <1>8, <2>1 DEF Send, TypeInv
    <2> QED
        BY <1>8, <1>b, <1>s, <2>1, <2>2 DEF Send, TypeInv
<1>9. CASE PanelRestart
    <2>1. spent' \in [Kinds -> Nat] /\ disturbed' \in BOOLEAN
        BY <1>9, SpendType DEF PanelRestart, Spend, TypeInv
    <2>2. live' \in Settings
        BY <1>9, EffectiveType, TelegramAssumption DEF PanelRestart, Settings, Token
    <2>3. live'.token \in Token
        BY <2>2 DEF Settings
    <2>4. /\ bot' \in [Loops -> LoopState]
          /\ 1 \in Loops
          /\ botCancel' # 0 => botCancel' = 1 /\ bot'[1] = NewLoop(live'.token)
        BY <1>9, <2>3, BootedType DEF PanelRestart
    <2>5. botCancel' # 0 => bot'[botCancel'].pc = "new" /\ ~bot'[botCancel'].cancelled
        BY <2>4, LoopType
    <2>6. BotOK
        BY <2>4, <2>5 DEF Running
    <2>7. NoSave \in SaveState /\ NoSave.pc = "none"
        BY DEF NoSave, SaveState, Token
    <2>8. SaveOK
        BY <1>9, <2>7 DEF PanelRestart
    <2>9. amid' \subseteq Updates
        BY <1>9, <2>3 DEF PanelRestart, Waiting, TypeInv, Token
    <2> QED
        BY <1>9, <2>1, <2>2, <2>6, <2>8, <2>9 DEF PanelRestart, TypeInv
<1>10. CASE UNCHANGED vars
    BY <1>10, <1>b, <1>s DEF vars, botVars, history, TypeInv
<1> QED
    BY <1>1, <1>2, <1>3, <1>4, <1>5, <1>6, <1>7, <1>8, <1>9, <1>10 DEF Next, SaveStep, LoopStep

\* TypeInv holds in every reachable state.
LEMMA TypeInvariant == Spec => []TypeInv
BY InitType, NextType, PTL DEF Spec

\* Every variable keeps its type: a bot loop has updates in hand exactly while it
\* handles a batch, and botCancel stops a loop that runs.
THEOREM TypeCorrect == Spec => []TypeOK
BY TypeInvariant, TypeImplies, PTL

-----------------------------------------------------------------------------
(* StoredIsLive *)

Alone(h) == \A g \in Saves : g # h => save[g].pc = "none"

\* The step of the only save, from what it makes of the save and the settings.
LEMMA StoredStep ==
    ASSUME TypeInv, NEW h \in Saves, Alone(h), NEW r \in SaveState, save' = [save EXCEPT ![h] = r],
           r.pc \notin {"admins", "live"} => live' = Effective',
           r.pc = "token" => ~r.keep,
           r.pc = "admins" => /\ Effective' = [token |-> r.token, admins |-> live'.admins]
                              /\ r.keep => live' = Effective',
           r.pc = "live" => Effective' = [token |-> r.token, admins |-> r.admins]
    PROVE  StoredInv'
<1>1. \A g \in Saves : save'[g] = IF g = h THEN r ELSE save[g]
    BY DEF TypeInv
<1>2. \A g \in Saves : g # h => save'[g].pc = "none"
    BY <1>1 DEF Alone
<1>3. save'[h] = r
    BY <1>1
<1> QED
    BY <1>2, <1>3 DEF StoredInv

\* Every step keeps StoredInv.
LEMMA NextStored == TypeInv /\ StoredInv /\ [Next]_vars => StoredInv'
<1> SUFFICES ASSUME TypeInv, StoredInv, [Next]_vars, ~disturbed'
             PROVE  StoredInv'
    BY DEF StoredInv
<1>n. NoSave \in SaveState /\ NoSave.pc = "none"
    BY DEF NoSave, SaveState, Token
<1>u. Unset \notin Token /\ \A a \in SUBSET Chats : Unset # a
    BY TelegramAssumption DEF Token
<1>r. \A h \in Saves : /\ save[h] \in SaveState
                       /\ save[h].token \in Token /\ save[h].admins \in SUBSET Chats
    BY DEF TypeInv, SaveState
<1>e. Effective \in Settings /\ live \in Settings
    BY EffectiveType DEF TypeInv
\* What a step of a save that is not its first finds.
<1>a. ASSUME NEW h \in Saves, ~disturbed, save[h].pc # "none"
      PROVE  /\ Alone(h)
             /\ save[h].pc \notin {"admins", "live"} => live = Effective
    BY <1>a DEF StoredInv, Alone
<1>g. ASSUME NEW h \in Saves, NEW pc \in {"admins", "live", "cancel"}
      PROVE  LET r == [save[h] EXCEPT !.pc = pc] IN
             /\ r \in SaveState /\ r.pc = pc
             /\ r.keep = save[h].keep /\ r.token = save[h].token /\ r.admins = save[h].admins
    BY <1>r DEF SaveState
<1>1. ASSUME NEW h \in Saves, SaveBegin(h)
      PROVE  StoredInv'
    <2>1. Idle /\ ~disturbed
        BY <1>1 DEF SaveBegin
    <2>2. Alone(h) /\ live = Effective
        BY <2>1 DEF Idle, Alone, StoredInv
    <2>3. UNCHANGED <<live, Effective>>
        BY <1>1 DEF SaveBegin, Effective
    <2>4. PICK q \in Requests : save' = [save EXCEPT ![h] =
              [pc |-> IF q.token = Unset THEN "admins" ELSE "token", keep |-> q.token = Unset,
               token |-> IF q.token = Unset THEN live.token ELSE q.token, admins |-> q.admins]]
        BY <1>1 DEF SaveBegin
    <2>5. q.token \in Token \cup {Unset} /\ q.admins \in SUBSET Chats /\ live.token \in Token
        BY <1>e, TelegramAssumption DEF Token, Settings
    <2>6. CASE q.token = Unset
        <3> DEFINE r == [pc |-> "admins", keep |-> TRUE, token |-> live.token, admins |-> q.admins]
        <3>1. r \in SaveState
            BY <2>5 DEF SaveState
        <3>2. save' = [save EXCEPT ![h] = r]
            BY <2>4, <2>6
        <3>3. Effective' = [token |-> live'.token, admins |-> live'.admins]
            BY <1>e, <2>2, <2>3 DEF Settings
        <3>4. r.pc = "admins" /\ r.token = live.token
            OBVIOUS
        <3> HIDE DEF r
        <3> QED
            BY <2>2, <2>3, <3>1, <3>2, <3>3, <3>4, StoredStep
    <2>7. CASE q.token # Unset
        <3> DEFINE r == [pc |-> "token", keep |-> FALSE, token |-> q.token, admins |-> q.admins]
        <3>1. r \in SaveState /\ r.pc = "token" /\ ~r.keep
            BY <2>5, <2>7 DEF SaveState
        <3>2. save' = [save EXCEPT ![h] = r]
            BY <2>4, <2>7
        <3> HIDE DEF r
        <3> QED
            BY <2>2, <2>3, <3>1, <3>2, StoredStep
    <2> QED
        BY <2>6, <2>7
<1>2. ASSUME NEW h \in Saves, SaveToken(h)
      PROVE  StoredInv'
    <2>1. ~disturbed /\ save[h].pc = "token" /\ UNCHANGED live
        BY <1>2 DEF SaveToken
    <2>2. Alone(h) /\ live = Effective /\ ~save[h].keep
        BY <1>a, <2>1 DEF StoredInv
    <2>3. CASE stored' = [stored EXCEPT !.token = save[h].token] /\ Goto(h, "admins")
        <3> DEFINE r == [save[h] EXCEPT !.pc = "admins"]
        <3>1. save' = [save EXCEPT ![h] = r]
            BY <2>3 DEF Goto
        <3>2. r \in SaveState /\ r.pc = "admins" /\ r.keep = save[h].keep /\ r.token = save[h].token
            BY <1>g
        <3>3. stored'.token = save[h].token /\ stored'.admins = stored.admins
            BY <2>3 DEF TypeInv
        <3>4. Effective' = [token |-> save[h].token, admins |-> Effective.admins]
            BY <1>r, <1>u, <3>3 DEF Effective
        <3> HIDE DEF r
        <3> QED
            BY <2>1, <2>2, <3>1, <3>2, <3>4, StoredStep
    <2>4. CASE Done(h) /\ UNCHANGED stored
        BY <1>n, <2>1, <2>2, <2>4, StoredStep DEF Done, Effective
    <2> QED
        BY <1>2, <2>3, <2>4 DEF SaveToken
<1>3. ASSUME NEW h \in Saves, SaveAdmins(h)
      PROVE  StoredInv'
    <2>1. ~disturbed /\ save[h].pc = "admins" /\ UNCHANGED live
        <3>1. disturbed \in BOOLEAN /\ save[h].keep \in BOOLEAN
            BY <1>r DEF TypeInv, SaveState
        <3>2. disturbed' = disturbed \/ disturbed' = (disturbed \/ ~save[h].keep)
            BY <1>3 DEF SaveAdmins
        <3>3. ~disturbed
            BY <3>1, <3>2
        <3> QED
            BY <1>3, <3>3 DEF SaveAdmins
    <2>2. /\ Alone(h)
          /\ Effective = [token |-> save[h].token, admins |-> live.admins]
          /\ save[h].keep => live = Effective
        BY <1>a, <2>1 DEF StoredInv
    <2>3. CASE stored' = [stored EXCEPT !.admins = save[h].admins] /\ Goto(h, "live")
        <3> DEFINE r == [save[h] EXCEPT !.pc = "live"]
        <3>1. save' = [save EXCEPT ![h] = r]
            BY <2>3 DEF Goto
        <3>2. r \in SaveState /\ r.pc = "live" /\ r.token = save[h].token /\ r.admins = save[h].admins
            BY <1>g
        <3>3. stored'.token = stored.token /\ stored'.admins = save[h].admins
            BY <2>3 DEF TypeInv
        <3>4. Effective' = [token |-> Effective.token, admins |-> save[h].admins]
            BY <1>r, <1>u, <3>3 DEF Effective
        <3> HIDE DEF r
        <3> QED
            BY <2>1, <2>2, <3>1, <3>2, <3>4, StoredStep
    <2>4. CASE Done(h) /\ disturbed' = (disturbed \/ ~save[h].keep) /\ UNCHANGED stored
        <3>1. live' = Effective'
            BY <2>1, <2>2, <2>4 DEF Effective
        <3> QED
            BY <1>n, <2>2, <2>4, <3>1, StoredStep DEF Done
    <2> QED
        BY <1>3, <2>3, <2>4 DEF SaveAdmins
<1>4. ASSUME NEW h \in Saves, SetTelegram(h)
      PROVE  StoredInv'
    <2>1. ~disturbed /\ save[h].pc = "live" /\ UNCHANGED stored /\ Goto(h, "cancel")
          /\ live' = [token |-> save[h].token, admins |-> save[h].admins]
        BY <1>4 DEF SetTelegram
    <2>2. Alone(h) /\ Effective = [token |-> save[h].token, admins |-> save[h].admins]
        BY <1>a, <2>1 DEF StoredInv
    <2>3. live' = Effective'
        BY <2>1, <2>2 DEF Effective
    <2> DEFINE r == [save[h] EXCEPT !.pc = "cancel"]
    <2>4. r \in SaveState /\ r.pc = "cancel" /\ save' = [save EXCEPT ![h] = r]
        BY <1>g, <2>1 DEF Goto
    <2> HIDE DEF r
    <2> QED
        BY <2>2, <2>3, <2>4, StoredStep
<1>5. ASSUME NEW h \in Saves, StopBot(h)
      PROVE  StoredInv'
    <2>1. ~disturbed /\ save[h].pc = "cancel" /\ UNCHANGED <<stored, live>>
        BY <1>5 DEF StopBot
    <2>2. Alone(h) /\ live' = Effective'
        BY <1>a, <2>1 DEF Effective
    <2> DEFINE r == IF live.token = NoToken THEN NoSave
                    ELSE [save[h] EXCEPT !.pc = "start", !.token = live.token]
    <2>3. save' = [save EXCEPT ![h] = r]
        BY <1>5 DEF StopBot
    <2>4. r \in SaveState /\ r.pc \in {"none", "start"}
        BY <1>e, <1>n, <1>r DEF SaveState, Settings
    <2> HIDE DEF r
    <2> QED
        BY <2>2, <2>3, <2>4, StoredStep
<1>6. ASSUME NEW h \in Saves, StartBot(h)
      PROVE  StoredInv'
    <2>1. ~disturbed /\ save[h].pc = "start" /\ UNCHANGED <<stored, live>> /\ Done(h)
        BY <1>6 DEF StartBot
    <2>2. Alone(h) /\ live' = Effective'
        BY <1>a, <2>1 DEF Effective
    <2> QED
        BY <1>n, <2>1, <2>2, StoredStep DEF Done
<1>7. CASE PanelRestart
    <2>1. live' = Effective /\ UNCHANGED stored /\ save' = [h \in Saves |-> NoSave]
        BY <1>7 DEF PanelRestart
    <2>2. live' = Effective'
        BY <2>1 DEF Effective
    <2> QED
        BY <1>n, <2>1, <2>2 DEF StoredInv
<1>8. CASE UNCHANGED <<stored, live, save, disturbed>>
    BY <1>8 DEF StoredInv, Effective
<1>9. (\E l \in Loops : LoopStep(l) \/ PollFails(l)) \/ Send \/ UNCHANGED vars
      => UNCHANGED <<stored, live, save, disturbed>>
    BY DEF LoopStep, Enter, Poll, Handle, PollFails, Send, vars
<1> QED
    BY <1>1, <1>2, <1>3, <1>4, <1>5, <1>6, <1>7, <1>8, <1>9 DEF Next, SaveStep

\* StoredInv holds initially: no save is under way.
LEMMA InitStored == Init => StoredInv
<1>1. Env \in [token : Token, admins : SUBSET Chats]
    BY TelegramAssumption DEF Token
<1>2. Init => live = Effective
    BY <1>1 DEF Init, Effective
<1>3. Init => \A h \in Saves : save[h].pc = "none"
    BY DEF Init, NoSave
<1> QED
    BY <1>2, <1>3 DEF StoredInv

\* Between saves the panel runs with the settings it would read after a restart,
\* wherever it died before.
THEOREM StoredCorrect == Spec => []StoredIsLive
<1>1. Spec => []StoredInv
    BY InitStored, NextStored, TypeInvariant, PTL DEF Spec
<1>2. StoredInv => StoredIsLive
    BY DEF StoredInv, StoredIsLive, Idle
<1> QED
    BY <1>1, <1>2, PTL

-----------------------------------------------------------------------------
(* ExecutedOnce *)

\* The loops as they were, or cancelled.
LEMMA OnceSteady ==
    ASSUME TypeInv, OnceInv, UNCHANGED <<inbox, executed, amid>>,
           spent'["update"] = spent["update"],
           \A l \in Loops : /\ bot'[l].pc = bot[l].pc /\ bot'[l].token = bot[l].token
                            /\ bot'[l].offset = bot[l].offset /\ bot'[l].batch = bot[l].batch
    PROVE  OnceInv'
<1>1. Running' = Running
    BY DEF Running
<1>2. SentInv'
    BY <1>1 DEF OnceInv, SentInv, Running
<1>3. \A t : Pollers(t)' = Pollers(t)
    BY <1>1 DEF Pollers, Running
<1>4. ASSUME NEW u \in Updates
      PROVE  OnceSafe(u)'
    <2>1. OnceSafe(u)
        BY DEF OnceInv
    <2>2. Pollers(To[u])' = Pollers(To[u])
        BY <1>3
    <2>3. Pollers(To[u]) \subseteq Loops
        BY DEF Pollers, Running
    <2> QED
        BY <2>1, <2>2, <2>3 DEF OnceSafe
<1> QED
    BY <1>2, <1>4 DEF OnceInv

\* A loop without a batch ends, goes on or gets one from Telegram.
LEMMA OncePolled ==
    ASSUME TypeInv, OnceInv, UNCHANGED <<executed, amid>>, spent'["update"] = spent["update"],
           NEW l \in Running, bot[l].batch = {}, NEW b \in LoopState,
           bot' = [bot EXCEPT ![l] = b],
           inbox' \in {inbox, Confirmed(l)},
           b.pc # "none" => b.token = bot[l].token /\ b.offset = bot[l].offset,
           b.batch = {} \/ (b.batch = Answer(l) /\ inbox' = Confirmed(l))
    PROVE  OnceInv'
<1> DEFINE t == bot[l].token
<1>t. /\ t \in Tokens /\ Answer(l) \subseteq Updates
      /\ Answer(l) = {u \in inbox[t] : u >= bot[l].offset}
      /\ Confirmed(l) = [inbox EXCEPT ![t] = Answer(l)]
    BY PollType
<1>1. /\ l \in Loops
      /\ \A k \in Loops : bot'[k] = IF k = l THEN b ELSE bot[k]
    BY DEF TypeInv, Running
<1>2. \A s \in Tokens : inbox'[s] \subseteq inbox[s] /\ (s # t => inbox'[s] = inbox[s])
    BY <1>t DEF TypeInv
<1>3. inbox' = Confirmed(l) => inbox'[t] = Answer(l)
    BY <1>t DEF TypeInv
<1>4. b.batch # {} => b.batch = inbox'[t] /\ b.batch = Answer(l)
    BY <1>3
<1>5. \A u \in b.batch : u \in inbox[t] /\ u >= bot[l].offset /\ u \in inbox'[t]
    BY <1>4, <1>t
<1>6. Running' \subseteq Running
    BY <1>1 DEF Running
<1>b. b.batch # {} => b.pc # "none"
    BY DEF LoopState
<1> HIDE DEF t
<1>7. SentInv'
    <2>1. \A s \in Tokens : \A u \in inbox'[s] : To[u] = s /\ u <= spent'["update"]
        BY <1>2 DEF OnceInv, SentInv
    <2>2. ASSUME NEW k \in Running', NEW u \in bot'[k].batch
          PROVE  To[u] = bot'[k].token /\ u <= spent'["update"]
        <3>1. k \in Running /\ k \in Loops
            BY <1>6 DEF Running
        <3>2. CASE k = l
            <4>1. bot'[k] = b /\ u \in inbox[t] /\ b.token = t
                BY <1>1, <1>5, <1>b, <2>2, <3>2 DEF t
            <4> QED
                BY <1>t, <4>1 DEF OnceInv, SentInv
        <3>3. CASE k # l
            <4>1. bot'[k] = bot[k]
                BY <1>1, <3>1, <3>3
            <4> QED
                BY <2>2, <3>1, <4>1 DEF OnceInv, SentInv
        <3> QED
            BY <3>2, <3>3
    <2> QED
        BY <2>1, <2>2 DEF SentInv, OnceInv
<1>8. ASSUME NEW u \in Updates, u \notin amid
      PROVE  OnceSafe(u)'
    <2> DEFINE s == To[u]
    <2>1. /\ executed[u] <= 1
          /\ u \in inbox[s] => \A j, k \in Pollers(s) : j = k
          /\ \A k \in Pollers(s) :
                /\ u \in bot[k].batch => u \in inbox[s] /\ executed[u] = 0
                /\ u \in inbox[s] /\ executed[u] > 0 => bot[k].offset > u
        BY <1>8 DEF OnceInv, OnceSafe
    <2>2. s \in Tokens /\ executed[u] \in Nat /\ u \in Nat
        <3>1. s \in Tokens
            BY TelegramAssumption DEF Updates
        <3>2. executed[u] \in Nat /\ u \in Nat
            BY DEF TypeInv, Updates
        <3> QED
            BY <3>1, <3>2
    <2>3. u \in inbox'[s] => u \in inbox[s]
        BY <1>2, <2>2
    <2>4. \A k \in Pollers(s)' : k \in Pollers(s)
        BY <1>1, <1>6 DEF Pollers, Running
    <2> HIDE DEF s
    <2>5. ASSUME NEW k \in Pollers(s)'
          PROVE  /\ u \in bot'[k].batch => u \in inbox'[s] /\ executed'[u] = 0
                 /\ u \in inbox'[s] /\ executed'[u] > 0 => bot'[k].offset > u
        <3>1. k \in Pollers(s) /\ k \in Loops
            BY <2>4 DEF Pollers, Running
        <3>2. CASE k = l
            <4>1. bot'[k] = b /\ b.pc # "none" /\ b.token = s
                BY <1>1, <2>5, <3>1, <3>2 DEF Pollers, Running
            <4>2. s = t /\ b.offset = bot[l].offset
                BY <4>1 DEF t
            <4>3. bot[l].offset \in Nat
                BY <1>1, TelegramAssumption DEF TypeInv, LoopState
            <4>4. u \in b.batch => u \in inbox'[s] /\ executed[u] = 0
                BY <1>5, <2>1, <2>2, <3>1, <3>2, <4>2, <4>3
            <4> QED
                BY <2>1, <2>3, <3>1, <3>2, <4>1, <4>2, <4>4
        <3>3. CASE k # l
            <4>1. bot'[k] = bot[k]
                BY <1>1, <3>1, <3>3
            <4>2. u \in bot[k].batch => s # t
                <5>1. SUFFICES ASSUME u \in bot[k].batch, s = t
                               PROVE  FALSE
                    OBVIOUS
                <5>2. l \in Pollers(s)
                    BY <5>1 DEF Pollers, t
                <5> QED
                    BY <2>1, <3>1, <3>3, <5>1, <5>2
            <4> QED
                BY <1>2, <2>1, <2>2, <2>3, <3>1, <4>1, <4>2
        <3> QED
            BY <3>2, <3>3
    <2>6. executed'[u] <= 1 /\ (u \in inbox'[s] => \A j, k \in Pollers(s)' : j = k)
        BY <2>1, <2>3, <2>4
    <2> QED
        BY <2>5, <2>6 DEF OnceSafe, s
<1>9. \A u \in Updates : u \in amid => OnceSafe(u)'
    BY DEF OnceSafe
<1> QED
    BY <1>7, <1>8, <1>9 DEF OnceInv

\* A command is handled: it is behind the loop from now on.
LEMMA OnceHandled ==
    ASSUME TypeInv, OnceInv, NEW l \in Running, Handle(l)
    PROVE  OnceInv'
<1>1. /\ l \in Loops /\ bot[l] \in LoopState /\ bot[l].token \in Tokens
      /\ UNCHANGED <<inbox, amid, spent>>
    BY DEF Handle, Running, TypeInv, LoopState
<1>2. PICK v \in bot[l].batch :
         /\ \A w \in bot[l].batch : v <= w
         /\ bot' = [bot EXCEPT ![l] = Handled(l, v)]
         /\ executed' = [executed EXCEPT ![v] = IF From[v] \in live.admins THEN @ + 1 ELSE @]
    BY DEF Handle
<1> DEFINE b == Handled(l, v)
<1>3. /\ b \in LoopState
      /\ b.batch \subseteq bot[l].batch \ {v}
      /\ b.pc # "none" => b.token = bot[l].token /\ b.offset = v + 1
    BY <1>2, HandledType
<1>4. v \in Updates /\ v >= bot[l].offset /\ To[v] = bot[l].token /\ v <= spent["update"]
    BY <1>1 DEF LoopState, OnceInv, SentInv
<1>5. /\ \A u \in Updates : u # v => executed'[u] = executed[u]
      /\ executed'[v] = executed[v] \/ executed'[v] = executed[v] + 1
    BY <1>2, <1>4 DEF TypeInv
<1>n. /\ \A u \in Updates : executed[u] \in Nat /\ u \in Nat
      /\ spent["update"] \in Nat /\ bot[l].offset \in Nat
    <2>1. \A u \in Updates : executed[u] \in Nat /\ u \in Nat
        BY DEF TypeInv, Updates
    <2>2. spent["update"] \in Nat
        BY DEF TypeInv, Kinds
    <2>3. bot[l].offset \in Nat
        BY <1>1, TelegramAssumption DEF LoopState
    <2> QED
        BY <2>1, <2>2, <2>3
<1>6. \A k \in Loops : bot'[k] = IF k = l THEN b ELSE bot[k]
    BY <1>1, <1>2 DEF TypeInv
<1> HIDE DEF b
<1>7. \A k \in Running' : k \in Running /\ k \in Loops /\ bot'[k].token = bot[k].token
                          /\ bot'[k].batch \subseteq bot[k].batch
    BY <1>1, <1>3, <1>6 DEF Running
<1>8. SentInv'
    <2>1. \A t \in Tokens : \A u \in inbox'[t] : To[u] = t /\ u <= spent'["update"]
        BY <1>1 DEF OnceInv, SentInv
    <2>2. \A k \in Running' : \A u \in bot'[k].batch :
             To[u] = bot'[k].token /\ u <= spent'["update"]
        BY <1>1, <1>7 DEF OnceInv, SentInv
    <2>3. \A u \in Updates : u > spent'["update"] => executed'[u] = 0
        BY <1>1, <1>4, <1>5, <1>n DEF OnceInv, SentInv
    <2> QED
        BY <2>1, <2>2, <2>3 DEF SentInv
<1>9. ASSUME NEW u \in Updates, u \notin amid
      PROVE  OnceSafe(u)'
    <2> DEFINE s == To[u]
    <2>1. /\ executed[u] <= 1
          /\ u \in inbox[s] => \A j, k \in Pollers(s) : j = k
          /\ \A k \in Pollers(s) :
                /\ u \in bot[k].batch => u \in inbox[s] /\ executed[u] = 0
                /\ u \in inbox[s] /\ executed[u] > 0 => bot[k].offset > u
        BY <1>9 DEF OnceInv, OnceSafe
    <2> HIDE DEF s
    <2>2. \A k \in Pollers(s)' : k \in Pollers(s) /\ k \in Loops
        BY <1>7 DEF Pollers
    <2>3. u \in inbox'[s] => \A j, k \in Pollers(s)' : j = k
        BY <1>1, <2>1, <2>2
    <2>4. CASE u = v
        <3>1. l \in Pollers(s)
            BY <1>4, <2>4 DEF Pollers, s
        <3>2. u \in inbox[s] /\ executed[u] = 0
            BY <2>1, <2>4, <3>1
        <3>3. \A k \in Pollers(s)' : k = l
            BY <2>1, <2>2, <3>1, <3>2
        <3>4. \A k \in Pollers(s)' : bot'[k].offset = v + 1 /\ u \notin bot'[k].batch
            <4>1. ASSUME NEW k \in Pollers(s)'
                  PROVE  k = l /\ bot'[k] = b /\ b.pc # "none"
                BY <1>1, <1>6, <3>3 DEF Pollers, Running
            <4> QED
                BY <1>3, <2>4, <4>1
        <3>5. executed'[u] <= 1
            BY <1>5, <2>4, <3>2
        <3> QED
            BY <1>n, <2>3, <2>4, <3>4, <3>5 DEF OnceSafe, s
    <2>5. CASE u # v
        <3>1. executed'[u] = executed[u]
            BY <1>5, <2>5
        <3>2. ASSUME NEW k \in Pollers(s)'
              PROVE  /\ u \in bot'[k].batch => u \in inbox[s] /\ executed[u] = 0
                     /\ u \in inbox[s] /\ executed[u] > 0 => bot'[k].offset > u
            <4>1. k \in Pollers(s) /\ k \in Running' /\ k \in Loops
                BY <2>2 DEF Pollers
            <4>2. u \in bot'[k].batch => u \in inbox[s] /\ executed[u] = 0
                BY <1>7, <2>1, <4>1
            <4>3. CASE k = l
                <5>1. bot'[k] = b /\ b.offset = v + 1
                    BY <1>1, <1>3, <1>6, <4>1, <4>3 DEF Running
                <5> QED
                    BY <1>4, <1>n, <2>1, <4>1, <4>2, <4>3, <5>1
            <4>4. CASE k # l
                BY <1>6, <2>1, <4>1, <4>4
            <4> QED
                BY <4>3, <4>4
        <3> QED
            BY <1>1, <2>1, <2>3, <3>1, <3>2 DEF OnceSafe, s
    <2> QED
        BY <2>4, <2>5
<1>10. \A u \in Updates : u \in amid => OnceSafe(u)'
    BY <1>1 DEF OnceSafe
<1> QED
    BY <1>8, <1>9, <1>10 DEF OnceInv

\* A command is sent: no loop has met it.
LEMMA OnceSent ==
    ASSUME TypeInv, OnceInv, Send
    PROVE  OnceInv'
<1> DEFINE v == spent["update"] + 1
<1>1. v \in Updates /\ spent'["update"] = v /\ spent["update"] \in Nat
    BY SpendType DEF Send, Spend, TypeInv, Kinds
<1>2. /\ UNCHANGED <<bot, executed>>
      /\ inbox' = [inbox EXCEPT ![To[v]] = @ \cup {v}]
      /\ amid' = IF Cardinality(Pollers(To[v])) > 1 THEN amid \cup {v} ELSE amid
    BY DEF Send, Pollers
<1> HIDE DEF v
<1>n. /\ \A u \in Updates : executed[u] \in Nat /\ u \in Nat /\ To[u] \in Tokens
      /\ v = spent["update"] + 1
    BY TelegramAssumption DEF TypeInv, Updates, v
<1>3. \A t \in Tokens : inbox'[t] = IF t = To[v] THEN inbox[t] \cup {v} ELSE inbox[t]
    BY <1>1, <1>2, <1>n DEF TypeInv
<1>4. UNCHANGED Running /\ \A t : UNCHANGED Pollers(t)
    BY <1>2 DEF Running, Pollers
<1>5. SentInv'
    <2>1. ASSUME NEW t \in Tokens, NEW u \in inbox'[t]
          PROVE  To[u] = t /\ u <= spent'["update"]
        <3>1. CASE u = v
            <4>1. v \notin inbox[t]
                BY <1>1, <1>n DEF OnceInv, SentInv
            <4>2. t = To[v]
                BY <1>3, <2>1, <3>1, <4>1
            <4> QED
                BY <1>1, <1>n, <3>1, <4>2
        <3>2. CASE u # v
            <4>1. u \in inbox[t]
                BY <1>3, <2>1, <3>2
            <4>2. To[u] = t /\ u <= spent["update"] /\ u \in Nat
                BY <1>n, <4>1 DEF OnceInv, SentInv, TypeInv
            <4> QED
                BY <1>1, <1>n, <4>2
        <3> QED
            BY <3>1, <3>2
    <2>2. ASSUME NEW k \in Running', NEW u \in bot'[k].batch
          PROVE  To[u] = bot'[k].token /\ u <= spent'["update"]
        <3>1. k \in Running /\ bot'[k] = bot[k]
            BY <1>2, <1>4
        <3>2. u \in Updates
            BY <2>2, <3>1 DEF TypeInv, LoopState, Running
        <3>3. To[u] = bot[k].token /\ u <= spent["update"]
            BY <2>2, <3>1 DEF OnceInv, SentInv
        <3> QED
            BY <1>1, <1>n, <3>1, <3>2, <3>3
    <2>3. \A u \in Updates : u > spent'["update"] => executed'[u] = 0
        BY <1>1, <1>2, <1>n DEF OnceInv, SentInv
    <2> QED
        BY <2>1, <2>2, <2>3 DEF SentInv
<1>6. ASSUME NEW u \in Updates, u \notin amid'
      PROVE  OnceSafe(u)'
    <2> DEFINE s == To[u]
    <2>1. u \notin amid
        BY <1>2, <1>6
    <2>2. /\ executed[u] <= 1
          /\ u \in inbox[s] => \A j, k \in Pollers(s) : j = k
          /\ \A k \in Pollers(s) :
                /\ u \in bot[k].batch => u \in inbox[s] /\ executed[u] = 0
                /\ u \in inbox[s] /\ executed[u] > 0 => bot[k].offset > u
        BY <2>1 DEF OnceInv, OnceSafe
    <2>3. s \in Tokens
        BY <1>n
    <2>s. s = To[u]
        OBVIOUS
    <2> HIDE DEF s
    <2>4. CASE u # v
        <3>1. u \in inbox'[s] <=> u \in inbox[s]
            BY <1>3, <2>3, <2>4
        <3> QED
            BY <1>2, <1>4, <2>2, <3>1 DEF OnceSafe, s
    <2>5. CASE u = v
        <3>1. executed[u] = 0
            BY <1>1, <1>n, <2>5 DEF OnceInv, SentInv
        <3>2. u \in inbox'[s]
            BY <1>3, <2>3, <2>5, <2>s
        <3>3. ~(Cardinality(Pollers(s)) > 1)
            BY <1>2, <1>6, <2>5, <2>s
        <3>4. IsFiniteSet(Pollers(s))
            <4>1. Pollers(s) \subseteq 1 .. MaxSaves + 1 /\ MaxSaves + 1 \in Int
                BY TelegramAssumption DEF Pollers, Running, Loops
            <4>2. IsFiniteSet(1 .. MaxSaves + 1)
                BY <4>1, FS_Interval
            <4> QED
                BY <4>1, <4>2, FS_Subset
        <3>5. Cardinality(Pollers(s)) = 0 \/ Cardinality(Pollers(s)) = 1
            BY <3>3, <3>4, FS_CardinalityType
        <3>6. \A j, k \in Pollers(s) : j = k
            BY <3>4, <3>5, FS_EmptySet, FS_Singleton
        <3> QED
            BY <1>2, <1>4, <2>2, <3>1, <3>2, <3>6 DEF OnceSafe, s
    <2> QED
        BY <2>4, <2>5
<1>7. \A u \in Updates : u \in amid' => OnceSafe(u)'
    BY DEF OnceSafe
<1> QED
    BY <1>5, <1>6, <1>7 DEF OnceInv

\* The panel starts a loop: what was waiting is in amid.
LEMMA OnceStarted ==
    ASSUME TypeInv, OnceInv, UNCHANGED <<inbox, executed>>, spent'["update"] = spent["update"],
           NEW t \in Token, amid' = amid \cup Waiting(t),
           \A k \in Running' : \/ k \in Running /\ bot'[k] = bot[k]
                               \/ bot'[k] = NewLoop(t),
           t = NoToken => \A k \in Running' : bot'[k] # NewLoop(t)
    PROVE  OnceInv'
<1>1. \A k \in Running' : bot'[k] = NewLoop(t) =>
         t \in Tokens /\ bot'[k].token = t /\ bot'[k].batch = {} /\ Waiting(t) = inbox[t]
    BY LoopType DEF Token, Waiting
<1>2. SentInv'
    BY <1>1 DEF OnceInv, SentInv
<1>3. ASSUME NEW u \in Updates, u \notin amid'
      PROVE  OnceSafe(u)'
    <2> DEFINE s == To[u]
    <2>1. /\ executed[u] <= 1
          /\ u \in inbox[s] => \A j, k \in Pollers(s) : j = k
          /\ \A k \in Pollers(s) :
                /\ u \in bot[k].batch => u \in inbox[s] /\ executed[u] = 0
                /\ u \in inbox[s] /\ executed[u] > 0 => bot[k].offset > u
        BY <1>3 DEF OnceInv, OnceSafe
    <2>2. ASSUME NEW k \in Pollers(s)', bot'[k] = NewLoop(t)
          PROVE  s = t /\ u \notin inbox[s] /\ bot'[k].batch = {}
        BY <1>1, <1>3, <2>2 DEF Pollers
    <2>3. ASSUME NEW k \in Pollers(s)', bot'[k] # NewLoop(t)
          PROVE  k \in Pollers(s) /\ bot'[k] = bot[k]
        BY <2>3 DEF Pollers
    <2> HIDE DEF s
    <2> QED
        BY <2>1, <2>2, <2>3 DEF OnceSafe, s
<1>4. \A u \in Updates : u \in amid' => OnceSafe(u)'
    BY DEF OnceSafe
<1> QED
    BY <1>2, <1>3, <1>4 DEF OnceInv

\* A loop without a batch goes round.
LEMMA OnceRound ==
    ASSUME TypeInv, OnceInv, UNCHANGED <<executed, amid>>, spent'["update"] = spent["update"],
           NEW l \in Running, bot[l].batch = {}, bot' = [bot EXCEPT ![l] = Round(l)],
           inbox' \in {inbox, Confirmed(l)}
    PROVE  OnceInv'
<1> DEFINE b == Round(l)
<1>1. /\ b \in LoopState /\ b.batch = {}
      /\ b.pc # "none" => b.token = bot[l].token /\ b.offset = bot[l].offset
    BY RoundType
<1>2. bot' = [bot EXCEPT ![l] = b]
    OBVIOUS
<1> HIDE DEF b
<1> QED
    BY <1>1, <1>2, OncePolled

\* Every step keeps OnceInv.
LEMMA NextOnce == TypeInv /\ OnceInv /\ [Next]_vars => OnceInv'
<1> SUFFICES ASSUME TypeInv, OnceInv, [Next]_vars
             PROVE  OnceInv'
    OBVIOUS
<1>s. spent \in [Kinds -> Nat]
    BY DEF TypeInv
<1>l. ASSUME NEW l \in Running
      PROVE  l \in Loops /\ bot[l] \in LoopState
    BY DEF Running, TypeInv
<1>1. ASSUME NEW h \in Saves, SaveBegin(h) \/ SaveToken(h) \/ SaveAdmins(h) \/ SetTelegram(h)
      PROVE  OnceInv'
    <2>1. spent'["update"] = spent["update"]
        BY <1>1, <1>s, SpendType DEF SaveBegin, SaveToken, SaveAdmins, SetTelegram, Spend
    <2>2. UNCHANGED <<bot, inbox, executed, amid>>
        BY <1>1 DEF SaveBegin, SaveToken, SaveAdmins, SetTelegram, botVars, history
    <2> QED
        BY <2>1, <2>2, OnceSteady
<1>2. ASSUME NEW h \in Saves, StopBot(h)
      PROVE  OnceInv'
    <2>1. \A l \in Loops : bot[l] \in LoopState
        BY DEF TypeInv
    <2>2. \A l \in Loops : LET b == [bot[l] EXCEPT !.cancelled = TRUE] IN
             b.pc = bot[l].pc /\ b.token = bot[l].token /\ b.offset = bot[l].offset
             /\ b.batch = bot[l].batch
        BY <2>1 DEF LoopState
    <2>3. \A l \in Loops : /\ bot'[l].pc = bot[l].pc /\ bot'[l].token = bot[l].token
                           /\ bot'[l].offset = bot[l].offset /\ bot'[l].batch = bot[l].batch
        BY <1>2, <2>2 DEF StopBot
    <2>4. UNCHANGED <<inbox, executed, amid, spent>>
        BY <1>2 DEF StopBot, history
    <2> QED
        BY <2>3, <2>4, OnceSteady
<1>3. ASSUME NEW h \in Saves, StartBot(h)
      PROVE  OnceInv'
    <2> DEFINE t == save[h].token
    <2>1. t \in Tokens /\ t \in Token /\ t # NoToken
        BY <1>3, TelegramAssumption DEF StartBot, TypeInv, Token
    <2>2. PICK l \in Loops \ Running : bot' = [bot EXCEPT ![l] = NewLoop(t)]
        BY <1>3 DEF StartBot
    <2>3. \A k \in Loops : bot'[k] = IF k = l THEN NewLoop(t) ELSE bot[k]
        BY <2>2 DEF TypeInv
    <2>4. UNCHANGED <<inbox, executed, spent>> /\ amid' = amid \cup Waiting(t)
        BY <1>3 DEF StartBot
    <2> HIDE DEF t
    <2>5. ASSUME NEW k \in Running'
          PROVE  bot'[k] = NewLoop(t) \/ (k \in Running /\ bot'[k] = bot[k])
        <3>1. k \in Loops /\ bot'[k].pc # "none"
            BY DEF Running
        <3> QED
            BY <2>3, <3>1 DEF Running
    <2> QED
        BY <2>1, <2>4, <2>5, OnceStarted
<1>4. ASSUME NEW l \in Loops, Enter(l)
      PROVE  OnceInv'
    <2>1. l \in Running /\ bot[l].batch = {}
        BY <1>4 DEF Enter, Running, TypeInv, LoopState
    <2>2. UNCHANGED <<inbox, executed, amid, spent>> /\ bot' = [bot EXCEPT ![l] = Round(l)]
        BY <1>4 DEF Enter, history
    <2> QED
        BY <2>1, <2>2, OnceRound
<1>5. ASSUME NEW l \in Loops, Poll(l)
      PROVE  OnceInv'
    <2>1. l \in Running /\ bot[l].batch = {} /\ bot[l] \in LoopState
        BY <1>5 DEF Poll, Running, TypeInv, LoopState
    <2>2. UNCHANGED <<executed, amid, spent>> /\ inbox' = Confirmed(l)
        BY <1>5 DEF Poll, history
    <2>3. CASE Answer(l) = {}
        <3>1. bot' = [bot EXCEPT ![l] = Round(l)]
            BY <1>5, <2>3 DEF Poll
        <3> QED
            BY <2>1, <2>2, <3>1, OnceRound
    <2>4. CASE Answer(l) # {}
        <3> DEFINE b == [bot[l] EXCEPT !.pc = "batch", !.batch = Answer(l)]
        <3>1. bot' = [bot EXCEPT ![l] = b]
            BY <1>5, <2>4 DEF Poll
        <3>2. \A u \in Answer(l) : u >= bot[l].offset
            BY DEF Answer
        <3>3. /\ b \in LoopState /\ b.batch = Answer(l)
              /\ b.token = bot[l].token /\ b.offset = bot[l].offset
            BY <2>1, <2>4, <3>2, PollType DEF LoopState
        <3> HIDE DEF b
        <3> QED
            BY <2>1, <2>2, <3>1, <3>3, OncePolled
    <2> QED
        BY <2>3, <2>4
<1>6. ASSUME NEW l \in Loops, PollFails(l)
      PROVE  OnceInv'
    <2>1. l \in Running /\ bot[l].batch = {}
        BY <1>6 DEF PollFails, Running, TypeInv, LoopState
    <2>2. /\ UNCHANGED <<executed, amid>> /\ inbox' \in {inbox, Confirmed(l)}
          /\ bot' = [bot EXCEPT ![l] = Round(l)]
        BY <1>6 DEF PollFails, history
    <2>3. spent'["update"] = spent["update"]
        BY <1>6, <1>s, SpendType DEF PollFails, Spend
    <2> QED
        BY <2>1, <2>2, <2>3, OnceRound
<1>7. ASSUME NEW l \in Loops, Handle(l)
      PROVE  OnceInv'
    <2>1. l \in Running
        BY <1>7 DEF Handle, Running
    <2> QED
        BY <1>7, <2>1, OnceHandled
<1>8. CASE PanelRestart
    <2>1. spent'["update"] = spent["update"]
        BY <1>8, <1>s, SpendType DEF PanelRestart, Spend
    <2>2. live' \in Settings
        BY <1>8, EffectiveType, TelegramAssumption DEF PanelRestart, Settings, Token
    <2> DEFINE t == live'.token
    <2>3. t \in Token
        BY <2>2 DEF Settings
    <2>4. UNCHANGED <<inbox, executed>> /\ amid' = amid \cup Waiting(t) /\ bot' = Booted(t)
        BY <1>8 DEF PanelRestart
    <2> HIDE DEF t
    <2>5. \A k \in Running' : k = 1 /\ t # NoToken /\ bot'[k] = NewLoop(t)
        BY <2>3, <2>4, BootedType DEF Running, NoLoop
    <2> QED
        BY <2>1, <2>3, <2>4, <2>5, OnceStarted
<1>9. CASE UNCHANGED vars
    BY <1>9, OnceSteady DEF vars, botVars, history
<1> QED
    BY <1>1, <1>2, <1>3, <1>4, <1>5, <1>6, <1>7, <1>8, <1>9, OnceSent DEF Next, SaveStep, LoopStep

\* OnceInv holds initially: no command was sent.
LEMMA InitOnce == Init => OnceInv
<1> SUFFICES ASSUME Init
             PROVE  OnceInv
    OBVIOUS
<1>1. Env.token \in Token
    BY TelegramAssumption DEF Token
<1>2. \A l \in Running : l = 1 /\ bot[l] = NewLoop(Env.token)
    BY <1>1, BootedType DEF Init, Running, NoLoop
<1>3. \A l \in Running : bot[l].batch = {}
    BY <1>2, LoopType
<1>4. \A u \in Updates : To[u] \in Tokens
    BY TelegramAssumption DEF Updates
<1>5. SentInv
    BY <1>3 DEF Init, SentInv
<1>6. \A u \in Updates : OnceSafe(u)
    BY <1>2, <1>3, <1>4 DEF Init, OnceSafe, Pollers
<1> QED
    BY <1>5, <1>6 DEF OnceInv

\* A command is executed at most once unless it waited while a loop started or came
\* while two loops polled for it.
THEOREM OnceCorrect == Spec => []ExecutedOnce
<1>1. Spec => []OnceInv
    BY InitOnce, NextOnce, TypeInvariant, PTL DEF Spec
<1>2. TypeInv /\ OnceInv => ExecutedOnce
    BY DEF TypeInv, OnceInv, OnceSafe, ExecutedOnce
<1> QED
    BY <1>1, <1>2, TypeInvariant, PTL
=============================================================================
