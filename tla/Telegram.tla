------------------------------- MODULE Telegram -------------------------------
(***************************************************************************)
(* The panel's Telegram configuration and its bot: handleNotifySettings    *)
(* (internal/panel/notify.go) stores the token and the administrators'     *)
(* chats, makes them live and restarts the bot (app.go); the bot's loop    *)
(* (bot.go) long-polls Telegram and executes the commands it is sent.      *)
(* Run reads the stored values when the panel starts.                      *)
(*                                                                         *)
(* Telegram keeps the updates of a bot until a getUpdates asks for a later *)
(* offset.  What a command does is in module Quota.                        *)
(***************************************************************************)
EXTENDS Naturals, FiniteSets, Functions

CONSTANTS
    Tokens,      \* bot tokens
    NoToken,     \* the empty token: Telegram is off
    Unset,       \* the settings table has no such key, a request keeps the token
    Chats,       \* chats that message the bots
    From,        \* who sends a command ...
    To,          \* ... and to which bot
    Env,         \* TELEGRAM_BOT_TOKEN and TELEGRAM_ADMIN_IDS
    Requests,    \* the bodies handleNotifySettings gets
    Saves,       \* slots for it
    MaxUpdates,  \* commands sent
    MaxSaves,    \* settings saved
    MaxRestarts, \* panel restarts
    MaxDBErrors, \* failed reads and writes of the settings
    MaxNetErrors,\* lost requests and responses of getUpdates
    MaxOverlaps, \* saves begun while another is under way
    MaxEvents    \* the last four together

ASSUME TelegramAssumption ==
    /\ NoToken \notin Tokens /\ Unset \notin Tokens \cup {NoToken}
    /\ Env \in [token : Tokens \cup {NoToken}, admins : SUBSET Chats]
    /\ \A a \in SUBSET Chats : Unset # a
    /\ Requests \subseteq [token : Tokens \cup {NoToken, Unset}, admins : SUBSET Chats]
    /\ From \in [1 .. MaxUpdates -> Chats] /\ To \in [1 .. MaxUpdates -> Tokens]
    /\ {MaxUpdates, MaxSaves, MaxRestarts, MaxDBErrors, MaxNetErrors, MaxOverlaps,
        MaxEvents} \subseteq Nat

VARIABLES
    stored,     \* settings table
    live,       \* App.tgToken, App.tgAdmins
    save,       \* where a handleNotifySettings is, and what it is to store
    bot,        \* the bot loops, by the order they were started in
    botCancel,  \* the loop App.botCancel stops, 0 for none
    inbox,      \* updates Telegram keeps for each token
    executed,   \* history: how often an update was executed
    answered,   \* history: updates a loop has handled
    amid,       \* history: updates that were waiting when a loop started, or came while two
                \* loops polled for them
    disturbed,  \* history: since the panel started two saves overlapped, one stored only
                \* the token, or Run could not read the settings
    spent       \* budgets used up

botVars == <<bot, botCancel, inbox>>
history == <<executed, answered, amid>>
vars == <<stored, live, save, botVars, history, disturbed, spent>>

Updates == 1 .. MaxUpdates
Loops == 1 .. MaxSaves + 1
Token == Tokens \cup {NoToken}
Kinds == {"update", "save", "restart", "db", "net", "overlap"}
Budget == [update |-> MaxUpdates, save |-> MaxSaves, restart |-> MaxRestarts,
           db |-> MaxDBErrors, net |-> MaxNetErrors, overlap |-> MaxOverlaps]

NoLoop == [pc |-> "none", token |-> NoToken, cancelled |-> FALSE, offset |-> 0, batch |-> {}]
NoSave == [pc |-> "none", keep |-> FALSE, token |-> NoToken, admins |-> {}]

Running == {l \in Loops : bot[l].pc # "none"}

TypeOK ==
    /\ stored \in [token : Token \cup {Unset}, admins : {Unset} \cup SUBSET Chats]
    /\ live \in [token : Token, admins : SUBSET Chats]
    /\ save \in [Saves -> [pc : {"none", "token", "admins", "live", "cancel", "start"},
                           keep : BOOLEAN, token : Token, admins : SUBSET Chats]]
    /\ bot \in [Loops -> [pc : {"none", "new", "poll", "batch"}, token : Token, cancelled : BOOLEAN,
                          offset : 0 .. MaxUpdates + 1, batch : SUBSET Updates]]
    /\ \A l \in Loops : bot[l].pc = "batch" <=> bot[l].batch # {}
    /\ \A l \in Running : \A u \in bot[l].batch : u >= bot[l].offset
    /\ botCancel \in Running \cup {0}
    /\ inbox \in [Tokens -> SUBSET Updates]
    /\ executed \in [Updates -> Nat]
    /\ answered \subseteq Updates /\ amid \subseteq Updates
    /\ disturbed \in BOOLEAN
    /\ spent \in [Kinds -> Nat]

\* The settings as Run reads them: what is stored overrides the environment.
Effective == [token  |-> IF stored.token = Unset THEN Env.token ELSE stored.token,
              admins |-> IF stored.admins = Unset THEN Env.admins ELSE stored.admins]

NewLoop(t) == [pc |-> "new", token |-> t, cancelled |-> FALSE, offset |-> 0, batch |-> {}]
Waiting(t) == IF t = NoToken THEN {} ELSE inbox[t]

\* The bot's loops of a panel that starts with token t.
Booted(t) == [l \in Loops |-> IF l = 1 /\ t # NoToken THEN NewLoop(t) ELSE NoLoop]

Init ==
    /\ stored = [token |-> Unset, admins |-> Unset]
    /\ live = Env
    /\ save = [h \in Saves |-> NoSave]
    /\ bot = Booted(Env.token)
    /\ botCancel = IF Env.token = NoToken THEN 0 ELSE 1
    /\ inbox = [t \in Tokens |-> {}]
    /\ executed = [u \in Updates |-> 0]
    /\ answered = {} /\ amid = {}
    /\ disturbed = FALSE
    /\ spent = [k \in Kinds |-> 0]

-----------------------------------------------------------------------------
\* "update" and "save" are inputs, the rest are events.
Within(b) ==
    /\ \A k \in Kinds : b[k] <= Budget[k]
    /\ SumFunction(b) - b["update"] - b["save"] <= MaxEvents
SpendAll(ks) ==
    /\ spent' = [k \in Kinds |-> IF k \in ks THEN spent[k] + 1 ELSE spent[k]]
    /\ Within(spent')
Spend(k) == SpendAll({k})

(* handleNotifySettings *)

Idle == \A h \in Saves : save[h].pc = "none"
Goto(h, pc) == save' = [save EXCEPT ![h].pc = pc]
Done(h) == save' = [save EXCEPT ![h] = NoSave]

\* A request has a token, an empty one to turn Telegram off, or none to keep the
\* live one, which is read now.
SaveBegin(h) ==
    /\ save[h].pc = "none"
    /\ SpendAll({"save"} \cup IF Idle THEN {} ELSE {"overlap"})
    /\ \E q \in Requests :
          LET keep == q.token = Unset IN
          save' = [save EXCEPT ![h] = [pc |-> IF keep THEN "admins" ELSE "token", keep |-> keep,
                                       token |-> IF keep THEN live.token ELSE q.token,
                                       admins |-> q.admins]]
    /\ disturbed' = (disturbed \/ ~Idle)
    /\ UNCHANGED <<stored, live, botVars, history>>

\* Mutant of SaveToken: a failed write is ignored.
SaveTokenIgnores(h) ==
    /\ save[h].pc = "token"
    /\ \/ stored' = [stored EXCEPT !.token = save[h].token] /\ UNCHANGED spent
       \/ Spend("db") /\ UNCHANGED stored
    /\ Goto(h, "admins")
    /\ UNCHANGED <<live, botVars, history, disturbed>>

\* SetSecretSetting; on an error the request ends.
SaveToken(h) ==
    /\ save[h].pc = "token"
    /\ \/ /\ stored' = [stored EXCEPT !.token = save[h].token]
          /\ Goto(h, "admins")
          /\ UNCHANGED spent
       \/ /\ Spend("db")
          /\ Done(h)
          /\ UNCHANGED stored
    /\ UNCHANGED <<live, botVars, history, disturbed>>

\* SetSetting; on an error the request ends with the token stored already.
SaveAdmins(h) ==
    /\ save[h].pc = "admins"
    /\ \/ /\ stored' = [stored EXCEPT !.admins = save[h].admins]
          /\ Goto(h, "live")
          /\ UNCHANGED <<disturbed, spent>>
       \/ /\ Spend("db")
          /\ Done(h)
          /\ disturbed' = (disturbed \/ ~save[h].keep)
          /\ UNCHANGED stored
    /\ UNCHANGED <<live, botVars, history>>

SetTelegram(h) ==
    /\ save[h].pc = "live"
    /\ live' = [token |-> save[h].token, admins |-> save[h].admins]
    /\ Goto(h, "cancel")
    /\ UNCHANGED <<stored, botVars, history, disturbed, spent>>

\* Mutant of StopBot: the running loop is forgotten, not cancelled.
StopBotForgets(h) ==
    /\ save[h].pc = "cancel"
    /\ botCancel' = 0
    /\ save' = [save EXCEPT ![h] = IF live.token = NoToken THEN NoSave
                                   ELSE [@ EXCEPT !.pc = "start", !.token = live.token]]
    /\ UNCHANGED <<stored, live, bot, inbox, history, disturbed, spent>>

\* Mutant of StopBot: botCancel is not cleared.
StopBotKeeps(h) ==
    /\ save[h].pc = "cancel"
    /\ bot' = [l \in Loops |-> IF l = botCancel THEN [bot[l] EXCEPT !.cancelled = TRUE] ELSE bot[l]]
    /\ save' = [save EXCEPT ![h] = IF live.token = NoToken THEN NoSave
                                   ELSE [@ EXCEPT !.pc = "start", !.token = live.token]]
    /\ UNCHANGED <<stored, live, botCancel, inbox, history, disturbed, spent>>

\* restartBot, its first section of tgMu: cancel the loop and read the token.
StopBot(h) ==
    /\ save[h].pc = "cancel"
    /\ bot' = [l \in Loops |-> IF l = botCancel THEN [bot[l] EXCEPT !.cancelled = TRUE] ELSE bot[l]]
    /\ botCancel' = 0
    /\ save' = [save EXCEPT ![h] = IF live.token = NoToken THEN NoSave
                                   ELSE [@ EXCEPT !.pc = "start", !.token = live.token]]
    /\ UNCHANGED <<stored, live, inbox, history, disturbed, spent>>

\* Mutant of StartBot: a token that did not change starts no loop.
StartBotOnce(h) ==
    /\ save[h].pc = "start"
    /\ \E l \in Loops \ Running :
          /\ \A k \in Loops \ Running : l <= k
          /\ IF \E k \in Running : bot[k].token = save[h].token
             THEN UNCHANGED <<bot, botCancel, amid>>
             ELSE /\ bot' = [bot EXCEPT ![l] = NewLoop(save[h].token)]
                  /\ botCancel' = l
                  /\ amid' = amid \cup Waiting(save[h].token)
    /\ Done(h)
    /\ UNCHANGED <<stored, live, inbox, executed, answered, disturbed, spent>>

\* ... and its second section: the new loop's cancel function is stored, over one
\* that another restartBot may have stored meanwhile.
StartBot(h) ==
    /\ save[h].pc = "start"
    /\ \E l \in Loops \ Running :
          /\ \A k \in Loops \ Running : l <= k
          /\ bot' = [bot EXCEPT ![l] = NewLoop(save[h].token)]
          /\ botCancel' = l
    /\ amid' = amid \cup Waiting(save[h].token)
    /\ Done(h)
    /\ UNCHANGED <<stored, live, inbox, executed, answered, disturbed, spent>>

-----------------------------------------------------------------------------
(* startBot *)

\* The loop goes round: it ends when it was cancelled.
Round(l) == IF bot[l].cancelled THEN NoLoop ELSE [bot[l] EXCEPT !.pc = "poll", !.batch = {}]

Enter(l) ==
    /\ bot[l].pc = "new"
    /\ bot' = [bot EXCEPT ![l] = Round(l)]
    /\ UNCHANGED <<stored, live, save, botCancel, inbox, history, disturbed, spent>>

\* Telegram drops the updates below the offset and returns the others.
Answer(l) == {u \in inbox[bot[l].token] : u >= bot[l].offset}
Confirmed(l) == [inbox EXCEPT ![bot[l].token] = Answer(l)]

\* getUpdates, whose request outlives a cancelled loop; with nothing to return it
\* comes back empty after 30 s.
Poll(l) ==
    /\ bot[l].pc = "poll"
    /\ Answer(l) # {} \/ bot[l].cancelled \/ Confirmed(l) # inbox
    /\ inbox' = Confirmed(l)
    /\ bot' = [bot EXCEPT ![l] = IF Answer(l) = {} THEN Round(l)
                                 ELSE [@ EXCEPT !.pc = "batch", !.batch = Answer(l)]]
    /\ UNCHANGED <<stored, live, save, botCancel, history, disturbed, spent>>

\* The request or its response is lost.
PollFails(l) ==
    /\ bot[l].pc = "poll"
    /\ Spend("net")
    /\ inbox' \in {inbox, Confirmed(l)}
    /\ bot' = [bot EXCEPT ![l] = Round(l)]
    /\ UNCHANGED <<stored, live, save, botCancel, history, disturbed>>

\* Mutant of Handled: the offset stays at the update itself.
HandledStays(l, u) ==
    IF bot[l].batch = {u} THEN [Round(l) EXCEPT !.offset = IF bot[l].cancelled THEN 0 ELSE u]
    ELSE [bot[l] EXCEPT !.offset = u, !.batch = @ \ {u}]

\* The loop after update u: the offset is past it, and after the last update of the
\* batch the loop goes round.
Handled(l, u) ==
    IF bot[l].batch = {u} THEN [Round(l) EXCEPT !.offset = IF bot[l].cancelled THEN 0 ELSE u + 1]
    ELSE [bot[l] EXCEPT !.offset = u + 1, !.batch = @ \ {u}]

\* botHandle, for the next update of the batch: a command of an administrator of now
\* is executed, others are told that they are not authorized.
Handle(l) ==
    /\ bot[l].pc = "batch"
    /\ \E u \in bot[l].batch :
       /\ \A v \in bot[l].batch : u <= v
       /\ bot' = [bot EXCEPT ![l] = Handled(l, u)]
       /\ executed' = [executed EXCEPT ![u] = IF From[u] \in live.admins THEN @ + 1 ELSE @]
       /\ answered' = answered \cup {u}
    /\ UNCHANGED <<stored, live, save, botCancel, inbox, amid, disturbed, spent>>

-----------------------------------------------------------------------------
(* The rest of the system *)

\* A chat messages one of the bots.
Send ==
    /\ Spend("update")
    /\ LET u == spent["update"] + 1 IN
       /\ inbox' = [inbox EXCEPT ![To[u]] = @ \cup {u}]
       /\ amid' = IF Cardinality({l \in Running : bot[l].token = To[u]}) > 1
                  THEN amid \cup {u} ELSE amid
    /\ UNCHANGED <<stored, live, save, bot, botCancel, executed, answered, disturbed>>

\* The panel dies and Run starts it again; a setting it cannot read falls back to
\* the environment.
PanelRestart ==
    /\ \/ /\ Spend("restart")
          /\ live' = Effective
          /\ disturbed' = FALSE
       \/ /\ SpendAll({"restart", "db"})
          /\ live' \in {[Effective EXCEPT !.token = Env.token], [Effective EXCEPT !.admins = Env.admins]}
          /\ disturbed' = TRUE
    /\ save' = [h \in Saves |-> NoSave]
    /\ bot' = Booted(live'.token)
    /\ botCancel' = IF live'.token = NoToken THEN 0 ELSE 1
    /\ amid' = amid \cup Waiting(live'.token)
    /\ UNCHANGED <<stored, inbox, executed, answered>>

SaveStep(h) == \/ SaveToken(h) \/ SaveAdmins(h) \/ SetTelegram(h)
               \/ StopBot(h) \/ StartBot(h)
LoopStep(l) == Enter(l) \/ Poll(l) \/ Handle(l)

Next ==
    \/ \E h \in Saves : SaveBegin(h) \/ SaveStep(h)
    \/ \E l \in Loops : LoopStep(l) \/ PollFails(l)
    \/ Send \/ PanelRestart

Spec == Init /\ [][Next]_vars

\* Requests and loops go on: a request to Telegram ends within the client's 60 s.
Progress == (\E h \in Saves : SaveStep(h)) \/ (\E l \in Loops : LoopStep(l))
FairSpec == Spec /\ WF_vars(Progress)

-----------------------------------------------------------------------------
(* Properties *)

\* docs/telegram.md: a save "takes effect immediately" and the settings "survive
\* restarts".  Between saves the live configuration is the stored one, whatever the
\* panel died between, unless saves overlapped or the second write of one failed.
StoredIsLive == (Idle /\ ~disturbed) => live = Effective

\* bot.go: commands are executed in order and Telegram gives back the last batch to
\* a loop that starts at offset 0.  A command is executed more than once only when
\* a loop was started while it waited, or when it came while a cancelled loop was
\* still in its last request, however requests were lost.
ExecutedOnce == \A u \in Updates : executed[u] > 1 => u \in amid

\* app.go:90-91, restartBot: "stops any running bot loop and starts a fresh one for
\* the current token".  Unless saves overlap, in the end exactly the loop of the
\* live token runs; a loop caught in getUpdates ends after its batch.
BotFollowsSettings ==
    <>[](disturbed \/ \E l \in Loops \cup {0} :
            /\ Running = {l} \ {0}
            /\ live.token = IF l = 0 THEN NoToken ELSE bot[l].token)

\* docs/telegram.md: a command sent to the bot is acted on: Telegram holds it
\* across restarts of the bot and the panel until a loop of its token handled it.
CommandsHandled ==
    <>[](\A u \in Waiting(live.token) : u \in answered)
=============================================================================
