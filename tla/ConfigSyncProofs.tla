-------------------------- MODULE ConfigSyncProofs --------------------------
(* Theorems about ConfigSync, for every value of its constants. *)
EXTENDS ConfigSync, SequenceTheorems, TLAPS

\* The part of TypeOK about running syncs.
ThreadsOK(f) ==
    /\ f \in [Threads -> Thread]
    /\ \A t \in Threads :
          /\ f[t].pc \in {"node", "users", "send", "store"} => f[t].conn # NoConn
          /\ f[t].pc \in {"users", "send", "store"} => f[t].cfg # NoConfig

\* An idle call is a well-formed one.
LEMMA IdleThread == Idle \in Thread /\ Idle.pc = "idle"
BY DEF Idle, Thread, Steps

\* A call that moves on with the values its step needs is well typed.
LEMMA GotoType ==
    ASSUME ThreadsOK(thread), NEW t \in Threads, NEW pc \in Steps,
           NEW sig \in SUBSET Users, NEW conn \in Conns \cup {NoConn},
           NEW cfg \in Config \cup {NoConfig}, Goto(t, pc, sig, conn, cfg),
           pc \in {"node", "users", "send", "store"} => conn # NoConn,
           pc \in {"users", "send", "store"} => cfg # NoConfig
    PROVE  ThreadsOK(thread')
<1> DEFINE r == [pc |-> pc, op |-> thread[t].op, sig |-> sig, conn |-> conn,
                 cfg |-> cfg]
<1>1. thread[t].op \in {"sync", "force"}
    BY DEF ThreadsOK, Thread
<1>2. r \in Thread /\ r.pc = pc /\ r.conn = conn /\ r.cfg = cfg
    BY <1>1 DEF Thread
<1>3. thread' = [thread EXCEPT ![t] = r]
    BY DEF Goto
<1> QED
    BY <1>2, <1>3 DEF ThreadsOK

\* A call that returns leaves the calls well formed.
LEMMA ReturnType ==
    ASSUME ThreadsOK(thread), NEW t \in Threads, Return(t)
    PROVE  ThreadsOK(thread')
BY IdleThread DEF ThreadsOK, Return

\* So does one that gives up on a database error.
LEMMA FailedType ==
    ASSUME ThreadsOK(thread), NEW t \in Threads, Failed(t)
    PROVE  ThreadsOK(thread')
<1>1. CASE Return(t)
    BY <1>1, ReturnType
<1>2. CASE Goto(t, "forget", {}, NoConn, NoConfig)
    BY <1>2, GotoType DEF Steps
<1> QED
    BY <1>1, <1>2 DEF Failed

\* So does one that starts.
LEMMA BeginType ==
    ASSUME ThreadsOK(thread), NEW t \in Threads, NEW op \in {"sync", "force"},
           Begin(t, op)
    PROVE  ThreadsOK(thread')
<1> DEFINE r == [pc |-> "sig", op |-> op, sig |-> {}, conn |-> NoConn,
                 cfg |-> NoConfig]
<1>1. r \in Thread /\ r.pc = "sig"
    BY DEF Thread, Steps
<1>2. thread' = [thread EXCEPT ![t] = r]
    BY DEF Begin
<1> QED
    BY <1>1, <1>2 DEF ThreadsOK

\* Using up a bound keeps the bounds well typed.
LEMMA SpendType ==
    ASSUME spent \in [Bounds -> Nat], NEW B, Spend(B)
    PROVE  spent' \in [Bounds -> Nat]
BY DEF Spend

\* Everything TypeOK says except of running syncs and of the bounds used up.
RestOK ==
    /\ users \in SUBSET Users
    /\ settings \in Settings
    /\ cache \in {{}} \cup {{sig} : sig \in SUBSET Users}
    /\ registered \in Conns \cup {NoConn}
    /\ open \in [Conns -> BOOLEAN]
    /\ queue \in [Conns -> Seq(Config)]
    /\ tip \in [Conns -> Config \cup {NoConfig}]
    /\ handler \in [Conns -> {"none", "reg", "serve", "mute", "leave"}]
    /\ link \in [Conns -> BOOLEAN]
    /\ sess \in Conns \cup {NoConn}
    /\ node \in Config \cup {NoConfig}

\* What is proved inductive is the type invariant.
LEMMA TypeParts ==
    TypeOK <=> RestOK /\ ThreadsOK(thread) /\ spent \in [Bounds -> Nat]
BY DEF TypeOK, RestOK, ThreadsOK

\* The initial state is well typed.
LEMMA TypeInit == Init => TypeOK
<1> SUFFICES ASSUME Init PROVE TypeOK
    OBVIOUS
<1>1. ThreadsOK(thread)
    BY IdleThread DEF Init, ThreadsOK
<1>2. spent \in [Bounds -> Nat]
    BY DEF Init
<1>3. /\ open \in [Conns -> BOOLEAN] /\ link \in [Conns -> BOOLEAN]
      /\ queue \in [Conns -> Seq(Config)]
      /\ tip \in [Conns -> Config \cup {NoConfig}]
      /\ handler \in [Conns -> {"none", "reg", "serve", "mute", "leave"}]
    BY EmptySeq DEF Init
<1>4. RestOK
    BY <1>3, SyncAssumption DEF Init, RestOK
<1> QED
    BY <1>1, <1>2, <1>4, TypeParts

\* Every step keeps the state well typed.
LEMMA TypeStep == TypeOK /\ [Next]_vars => TypeOK'
<1> SUFFICES ASSUME TypeOK, [Next]_vars PROVE TypeOK'
    OBVIOUS
<1> USE DEF hubVars
<1>0. /\ RestOK /\ ThreadsOK(thread) /\ spent \in [Bounds -> Nat]
      /\ \A B : Spend(B) => spent' \in [Bounds -> Nat]
      /\ \A t \in Threads : thread[t] \in Thread /\ thread[t].sig \in SUBSET Users
      /\ NoConn \notin Conns /\ NoConfig \notin Config
    BY TypeParts, SpendType, SyncAssumption DEF ThreadsOK, Thread
<1>00. TypeOK' <=> RestOK' /\ ThreadsOK(thread') /\ spent' \in [Bounds -> Nat]
    BY DEF TypeOK, RestOK, ThreadsOK
<1>1. ASSUME NEW w \in Workers, NEW u \in Users, ChangeUsers(w, u) PROVE TypeOK'
    <2>1. ThreadsOK(thread')
        BY <1>0, <1>1, BeginType DEF ChangeUsers, Threads
    <2>2. RestOK'
        BY <1>0, <1>1 DEF ChangeUsers, RestOK
    <2> QED
        BY <1>0, <1>00, <1>1, <2>1, <2>2 DEF ChangeUsers, Change
<1>2. ASSUME NEW u \in Users, Expire(u) PROVE TypeOK'
    <2>1. RestOK'
        BY <1>0, <1>2 DEF Expire, RestOK
    <2> QED
        BY <1>0, <1>00, <1>2, <2>1 DEF Expire, Change
<1>3. ASSUME NEW w \in Workers, NEW s \in Settings, ChangeSettings(w, s) PROVE TypeOK'
    <2>1. ThreadsOK(thread')
        BY <1>0, <1>3, BeginType DEF ChangeSettings, Threads
    <2>2. RestOK'
        BY <1>0, <1>3 DEF ChangeSettings, RestOK
    <2> QED
        BY <1>0, <1>00, <1>3, <2>1, <2>2 DEF ChangeSettings, Change
<1>4. ASSUME NEW w \in Workers, Enforce(w) PROVE TypeOK'
    <2>1. ThreadsOK(thread')
        BY <1>0, <1>4, BeginType DEF Enforce, Threads
    <2>2. RestOK'
        BY <1>0, <1>4 DEF Enforce, RestOK
    <2> QED
        BY <1>0, <1>00, <1>4, <2>1, <2>2 DEF Enforce
<1>5. ASSUME NEW t \in Threads, SyncStep(t) PROVE TypeOK'
    <2>1. CASE ReadSig(t)
        <3>1. ThreadsOK(thread')
            BY <1>0, <2>1, GotoType, ReturnType DEF ReadSig, Steps, RestOK
        <3>2. RestOK'
            BY <1>0, <2>1 DEF ReadSig, RestOK
        <3> QED
            BY <1>0, <1>00, <2>1, <3>1, <3>2 DEF ReadSig
    <2>2. CASE CheckCache(t)
        <3>1. ThreadsOK(thread')
            BY <1>0, <2>2, GotoType, ReturnType DEF CheckCache, Steps
        <3>2. RestOK'
            BY <1>0, <2>2 DEF CheckCache, RestOK
        <3> QED
            BY <1>0, <1>00, <2>2, <3>1, <3>2 DEF CheckCache
    <2>3. CASE PickConn(t)
        <3>1. ThreadsOK(thread')
            BY <1>0, <2>3, GotoType, FailedType DEF PickConn, Steps, RestOK
        <3>2. RestOK'
            BY <1>0, <2>3 DEF PickConn, RestOK
        <3> QED
            BY <1>0, <1>00, <2>3, <3>1, <3>2 DEF PickConn
    <2>4. CASE LoadNode(t)
        <3>1. thread[t].conn \in Conns \cup {NoConn} /\ thread[t].conn # NoConn
            BY <1>0, <2>4 DEF LoadNode, ThreadsOK, Thread
        <3>2. [users |-> {}, settings |-> settings] \in Config
            BY <1>0 DEF Config, RestOK
        <3>3. ThreadsOK(thread')
            BY <1>0, <2>4, <3>1, <3>2, GotoType, FailedType DEF LoadNode, Steps
        <3>4. RestOK'
            BY <1>0, <2>4 DEF LoadNode, RestOK
        <3> QED
            BY <1>0, <1>00, <2>4, <3>3, <3>4 DEF LoadNode
    <2>5. CASE LoadUsers(t)
        <3>1. /\ thread[t].conn \in Conns \cup {NoConn} /\ thread[t].conn # NoConn
              /\ thread[t].cfg \in Config
            BY <1>0, <2>5 DEF LoadUsers, ThreadsOK, Thread
        <3>2. [users |-> users, settings |-> thread[t].cfg.settings] \in Config
            BY <1>0, <3>1 DEF Config, RestOK
        <3>3. ThreadsOK(thread')
            BY <1>0, <2>5, <3>1, <3>2, GotoType, FailedType DEF LoadUsers, Steps
        <3>4. RestOK'
            BY <1>0, <2>5 DEF LoadUsers, RestOK
        <3> QED
            BY <1>0, <1>00, <2>5, <3>3, <3>4 DEF LoadUsers
    <2>6. CASE TrySend(t)
        <3>1. thread[t].conn \in Conns /\ thread[t].cfg \in Config
            BY <1>0, <2>6 DEF TrySend, ThreadsOK, Thread
        <3>2. ThreadsOK(thread')
            BY <1>0, <2>6, <3>1, GotoType, FailedType DEF TrySend, Steps
        <3>3. Append(queue[thread[t].conn], thread[t].cfg) \in Seq(Config)
            BY <1>0, <3>1, AppendProperties DEF RestOK
        <3>4. RestOK'
            BY <1>0, <2>6, <3>1, <3>3 DEF TrySend, RestOK
        <3> QED
            BY <1>0, <1>00, <2>6, <3>2, <3>4 DEF TrySend
    <2>7. CASE StoreSig(t)
        <3>1. ThreadsOK(thread')
            BY <1>0, <2>7, ReturnType DEF StoreSig
        <3>2. RestOK'
            BY <1>0, <2>7 DEF StoreSig, RestOK
        <3> QED
            BY <1>0, <1>00, <2>7, <3>1, <3>2 DEF StoreSig
    <2>8. CASE ForgetSig(t)
        <3>1. ThreadsOK(thread')
            BY <1>0, <2>8, ReturnType DEF ForgetSig
        <3>2. RestOK'
            BY <1>0, <2>8 DEF ForgetSig, RestOK
        <3> QED
            BY <1>0, <1>00, <2>8, <3>1, <3>2 DEF ForgetSig
    <2> QED
        BY <1>5, <2>1, <2>2, <2>3, <2>4, <2>5, <2>6, <2>7, <2>8 DEF SyncStep
<1>6. ASSUME NEW c \in Conns, Dial(c) PROVE TypeOK'
    <2>1. RestOK'
        BY <1>0, <1>6 DEF Dial, RestOK
    <2> QED
        BY <1>0, <1>00, <1>6, <2>1 DEF Dial
<1>7. ASSUME NEW c \in Conns, Register(c) PROVE TypeOK'
    <2>1. ThreadsOK(thread')
        BY <1>0, <1>7, BeginType DEF Register, Threads
    <2>2. /\ open' \in [Conns -> BOOLEAN] /\ link' \in [Conns -> BOOLEAN]
          /\ queue' \in [Conns -> Seq(Config)]
        BY <1>0, <1>7, EmptySeq DEF Register, RestOK
    <2>3. RestOK'
        BY <1>0, <1>7, <2>2 DEF Register, RestOK
    <2> QED
        BY <1>0, <1>00, <1>7, <2>1, <2>3 DEF Register
<1>8. ASSUME NEW c \in Conns, Deliver(c) PROVE TypeOK'
    <2>1. Head(queue[c]) \in Config /\ Tail(queue[c]) \in Seq(Config)
        BY <1>0, <1>8, HeadTailProperties DEF Deliver, RestOK
    <2>2. RestOK'
        BY <1>0, <1>8, <2>1 DEF Deliver, RestOK
    <2> QED
        BY <1>0, <1>00, <1>8, <2>2 DEF Deliver
<1>9. ASSUME NEW c \in Conns, Drop(c) PROVE TypeOK'
    <2>1. RestOK'
        BY <1>0, <1>9 DEF Drop, RestOK
    <2> QED
        BY <1>0, <1>00, <1>9, <2>1 DEF Drop
<1>10. ASSUME NEW c \in Conns, SessionEnd(c) PROVE TypeOK'
    <2>1. RestOK'
        BY <1>0, <1>10 DEF SessionEnd, RestOK
    <2> QED
        BY <1>0, <1>00, <1>10, <2>1 DEF SessionEnd
<1>11. ASSUME NEW c \in Conns, Unregister(c) PROVE TypeOK'
    <2>1. RestOK'
        BY <1>0, <1>11 DEF Unregister, RestOK
    <2> QED
        BY <1>0, <1>00, <1>11, <2>1 DEF Unregister
<1>16. ASSUME NEW c \in Conns, Close(c) PROVE TypeOK'
    <2>1. RestOK'
        BY <1>0, <1>16, EmptySeq DEF Close, RestOK
    <2> QED
        BY <1>0, <1>00, <1>16, <2>1 DEF Close
<1>12. ASSUME NEW c \in Conns, Abandon(c) PROVE TypeOK'
    <2>1. RestOK'
        BY <1>0, <1>12 DEF Abandon, RestOK
    <2> QED
        BY <1>0, <1>00, <1>12, <2>1 DEF Abandon
<1>13. ASSUME NEW c \in Conns, WriteFail(c) PROVE TypeOK'
    <2>0. queue[c] \in Seq(Config)
        BY <1>0 DEF RestOK
    <2>1. queue[c] # <<>> => Tail(queue[c]) \in Seq(Config)
        BY <2>0, HeadTailProperties
    <2>2. queue' \in [Conns -> Seq(Config)]
        BY <1>0, <1>13, <2>1 DEF WriteFail, RestOK
    <2>3. handler' \in [Conns -> {"none", "reg", "serve", "mute", "leave"}]
        BY <1>0, <1>13 DEF WriteFail, RestOK
    <2>4. RestOK'
        BY <1>0, <1>13, <2>2, <2>3 DEF WriteFail, RestOK
    <2> QED
        BY <1>0, <1>00, <1>13, <2>4 DEF WriteFail
<1>14. CASE PanelRestart
    <2>1. ThreadsOK(thread')
        BY <1>0, <1>14, IdleThread DEF PanelRestart, ThreadsOK
    <2>2. RestOK'
        BY <1>0, <1>14, EmptySeq DEF PanelRestart, RestOK
    <2> QED
        BY <1>0, <1>00, <1>14, <2>1, <2>2 DEF PanelRestart
<1>15. CASE UNCHANGED vars
    BY <1>15 DEF vars, TypeOK
<1> QED
    BY <1>1, <1>2, <1>3, <1>4, <1>5, <1>6, <1>7, <1>8, <1>9, <1>10, <1>11, <1>12,
       <1>13, <1>14, <1>15, <1>16 DEF Next

\* Every variable of the hub, the syncs and the sessions stays in its type; a sync
\* past PushConfig's lookup holds a connection and, once built, a configuration.
THEOREM TypeCorrect == Spec => []TypeOK
<1>1. Init => TypeOK
    BY TypeInit
<1>2. TypeOK /\ [Next]_vars => TypeOK'
    BY TypeStep
<1> QED
    BY <1>1, <1>2, PTL DEF Spec

-----------------------------------------------------------------------------
(* The hub *)

\* Only the connections' own actions touch the hub.
LEMMA OpenStep == TypeOK /\ OpenIsRegistered /\ [Next]_vars => OpenIsRegistered'
<1> SUFFICES ASSUME TypeOK, OpenIsRegistered, [Next]_vars PROVE OpenIsRegistered'
    OBVIOUS
<1> USE DEF hubVars
<1>0. /\ registered \in Conns \cup {NoConn} /\ NoConn \notin Conns
      /\ open \in [Conns -> BOOLEAN]
      /\ handler \in [Conns -> {"none", "reg", "serve", "mute", "leave"}]
    BY SyncAssumption DEF TypeOK
<1>1. CASE UNCHANGED hubVars
    BY <1>1 DEF OpenIsRegistered
<1>2. ASSUME NEW c \in Conns, Register(c) PROVE OpenIsRegistered'
    <2>1. /\ registered' = c /\ open'[c] /\ handler'[c] = "serve"
          /\ \A d \in Conns \ {c} : handler'[d] = handler[d]
                                    /\ open'[d] = (open[d] /\ d # registered)
        BY <1>0, <1>2 DEF Register
    <2> QED
        BY <1>0, <2>1 DEF OpenIsRegistered
<1>3. ASSUME NEW c \in Conns, Unregister(c) PROVE OpenIsRegistered'
    <2>1. /\ open' = open /\ handler'[c] = "leave"
          /\ \A d \in Conns \ {c} : handler'[d] = handler[d]
          /\ registered' = IF registered = c THEN NoConn ELSE registered
        BY <1>0, <1>3 DEF Unregister
    <2> QED
        BY <1>0, <2>1 DEF OpenIsRegistered
<1>4. ASSUME NEW c \in Conns, Close(c) PROVE OpenIsRegistered'
    <2>1. /\ handler[c] = "leave" /\ registered' = registered /\ ~open'[c]
          /\ \A d \in Conns \ {c} : handler'[d] = handler[d] /\ open'[d] = open[d]
        BY <1>0, <1>4 DEF Close
    <2> QED
        BY <2>1 DEF OpenIsRegistered
<1>5. ASSUME NEW c \in Conns, Dial(c) \/ Abandon(c) \/ WriteFail(c) PROVE OpenIsRegistered'
    <2>1. /\ UNCHANGED <<registered, open>>
          /\ \A d \in Conns \ {c} : handler'[d] = handler[d]
          /\ \/ handler[c] = "serve" /\ handler'[c] = "mute"
             \/ handler[c] \in {"none", "reg"} /\ handler'[c] \in {"none", "reg"}
        BY <1>0, <1>5 DEF Dial, Free, Abandon, WriteFail
    <2> QED
        BY <2>1 DEF OpenIsRegistered
<1>6. CASE PanelRestart
    BY <1>0, <1>6 DEF PanelRestart, OpenIsRegistered
<1>7. ASSUME NEW t \in Threads, SyncStep(t) PROVE UNCHANGED hubVars
    BY <1>7 DEF SyncStep, ReadSig, CheckCache, PickConn, LoadNode, LoadUsers, TrySend,
               StoreSig, ForgetSig
<1> QED
    BY <1>1, <1>2, <1>3, <1>4, <1>5, <1>6, <1>7
    DEF Next, vars, ChangeUsers, Expire, ChangeSettings, Enforce, Deliver, Drop, SessionEnd

\* However sessions overlap and late the old handler's unregister runs, the registered
\* connection is open and served, and an open one is the one PushConfig and
\* OnlineNodeIDs see, or between the unlock and the close of unregister (hub.go).
THEOREM OpenCorrect == Spec => []OpenIsRegistered
<1>1. Init => OpenIsRegistered
    BY SyncAssumption DEF Init, OpenIsRegistered
<1>2. TypeOK /\ OpenIsRegistered /\ [Next]_vars => OpenIsRegistered'
    BY OpenStep
<1> QED
    BY <1>1, <1>2, TypeCorrect, PTL DEF Spec

-----------------------------------------------------------------------------
(* The signature cache *)

Undisturbed == spent["race"] = 0 /\ spent["db"] = 0

\* handleWS: the goroutine of a connection forces a push, on that connection as long
\* as it is the registered one; the registered connection is open.
ConnInv ==
    /\ \A t \in Threads : thread[t].pc = "cache" => thread[t].op = "sync"
    /\ \A c \in Conns :
          /\ thread[c].pc # "idle" => thread[c].op = "force" /\ handler[c] \in {"serve", "mute"}
          /\ registered = c => /\ handler[c] \in {"serve", "mute"} /\ open[c]
                               /\ thread[c].conn \in {NoConn, c}

\* What a call has read is still what the database holds.
ReadInv == \A t \in Threads :
    /\ thread[t].pc \in {"cache", "conn", "node", "users", "send", "store"}
          => thread[t].sig = users
    /\ thread[t].pc = "users" => thread[t].cfg.settings = settings
    /\ thread[t].pc \in {"send", "store"} => thread[t].cfg = Current

Sent == \E t \in Threads : thread[t].pc = "store"

\* A call still holds a connection that is not c: one that was registered before c.
Stale(c) == \E t \in Threads : /\ thread[t].pc \in {"node", "users", "send"}
                               /\ thread[t].conn # c

\* What the registered connection was handed before the calls that pushed to it, or to
\* the one before it, return.
PushInv == \A c \in Conns : registered = c =>
    /\ thread[c].pc # "idle" /\ queue[c] # <<>> => tip[c] = Current
    /\ thread[c].pc \in {"store", "forget"} => tip[c] = Current
    /\ thread[c].pc = "idle" /\ (Sent \/ Stale(c)) => tip[c] = Current

\* A signature in the cache is the one of what the registered connection was handed
\* last, up to a newer configuration whose signature is about to be stored.
CacheInv == \A c \in Conns : registered = c /\ (\A t \in Running : thread[t].op = "sync") =>
    \A sig \in cache : \/ tip[c] = [users |-> sig, settings |-> settings]
                       \/ tip[c] = Current /\ Sent

SyncInv == ConnInv /\ (Undisturbed => ReadInv /\ PushInv /\ CacheInv)

\* How a call's record changes.
LEMMA GotoMoves ==
    ASSUME TypeOK, NEW t \in Threads, NEW pc \in Steps, NEW sig \in SUBSET Users,
           NEW conn \in Conns \cup {NoConn}, NEW cfg \in Config \cup {NoConfig},
           Goto(t, pc, sig, conn, cfg)
    PROVE  /\ thread'[t].pc = pc /\ thread'[t].op = thread[t].op
           /\ thread'[t].sig = sig /\ thread'[t].conn = conn /\ thread'[t].cfg = cfg
           /\ \A u \in Threads \ {t} : thread'[u] = thread[u]
<1> DEFINE r == [pc |-> pc, op |-> thread[t].op, sig |-> sig, conn |-> conn,
                 cfg |-> cfg]
<1>1. thread' = [thread EXCEPT ![t] = r] /\ DOMAIN thread = Threads
    BY DEF Goto, TypeOK
<1>2. r.pc = pc /\ r.op = thread[t].op /\ r.sig = sig /\ r.conn = conn /\ r.cfg = cfg
    OBVIOUS
<1> HIDE DEF r
<1> QED
    BY <1>1, <1>2

\* The values a call hands to its next step.
LEMMA CallValues ==
    ASSUME TypeOK, NEW t \in Threads
    PROVE  /\ thread[t].pc \in Steps /\ thread[t].op \in {"sync", "force"}
           /\ thread[t].sig \in SUBSET Users /\ users \in SUBSET Users
           /\ thread[t].conn \in Conns \cup {NoConn}
           /\ thread[t].cfg \in Config \cup {NoConfig}
           /\ registered \in Conns \cup {NoConn}
           /\ [users |-> {}, settings |-> settings] \in Config
           /\ thread[t].pc = "users" =>
                 [users |-> users, settings |-> thread[t].cfg.settings] \in Config
<1>1. thread[t] \in Thread /\ users \in SUBSET Users /\ settings \in Settings
    BY DEF TypeOK
<1>2. thread[t].pc = "users" => thread[t].cfg \in Config
    BY <1>1 DEF TypeOK, Thread
<1> QED
    BY <1>1, <1>2 DEF TypeOK, Thread, Config

\* A return touches one call, and leaves it idle.
LEMMA ReturnMoves ==
    ASSUME TypeOK, NEW t \in Threads, Return(t)
    PROVE  /\ thread'[t].pc = "idle" /\ thread'[t].conn = NoConn
           /\ \A u \in Threads \ {t} : thread'[u] = thread[u]
BY DEF TypeOK, Return, Idle

\* A failed call is over, except that forceSyncNode still forgets the signature.
LEMMA FailedMoves ==
    ASSUME TypeOK, NEW t \in Threads, Failed(t)
    PROVE  /\ \/ thread[t].op = "sync" /\ thread'[t].pc = "idle"
              \/ /\ thread[t].op = "force" /\ thread'[t].op = "force"
                 /\ thread'[t].pc = "forget"
           /\ thread'[t].conn = NoConn
           /\ \A u \in Threads \ {t} : thread'[u] = thread[u]
<1>1. CASE thread[t].op = "sync" /\ Return(t)
    BY <1>1, ReturnMoves
<1>2. CASE thread[t].op = "force" /\ Goto(t, "forget", {}, NoConn, NoConfig)
    <2>1. "forget" \in Steps /\ {} \in SUBSET Users
          /\ NoConn \in Conns \cup {NoConn} /\ NoConfig \in Config \cup {NoConfig}
        BY DEF Steps
    <2>2. /\ thread'[t].pc = "forget" /\ thread'[t].op = thread[t].op /\ thread'[t].conn = NoConn
          /\ \A u \in Threads \ {t} : thread'[u] = thread[u]
        BY <1>2, <2>1, GotoMoves
    <2> QED
        BY <1>2, <2>2
<1> QED
    BY <1>1, <1>2 DEF Failed

\* A call starts with nothing read.
LEMMA BeginMoves ==
    ASSUME TypeOK, NEW t \in Threads, NEW op \in {"sync", "force"}, Begin(t, op)
    PROVE  /\ thread'[t].pc = "sig" /\ thread'[t].op = op /\ thread'[t].conn = NoConn
           /\ \A u \in Threads \ {t} : thread'[u] = thread[u]
<1> DEFINE r == [pc |-> "sig", op |-> op, sig |-> {}, conn |-> NoConn, cfg |-> NoConfig]
<1>1. thread' = [thread EXCEPT ![t] = r] /\ DOMAIN thread = Threads
    BY DEF Begin, TypeOK
<1>2. r.pc = "sig" /\ r.op = op /\ r.conn = NoConn
    OBVIOUS
<1> HIDE DEF r
<1> QED
    BY <1>1, <1>2

\* A race or a database error, once spent, is never forgotten.
LEMMA Disturbs ==
    ASSUME TypeOK, NEW B, Spend(B)
    PROVE  /\ Undisturbed' => Undisturbed
           /\ "race" \in B \/ "db" \in B => ~Undisturbed'
<1>1. \A b \in Bounds : spent[b] \in Nat /\ spent'[b] = IF b \in B THEN spent[b] + 1 ELSE spent[b]
    BY DEF TypeOK, Spend
<1>2. "race" \in Bounds /\ "db" \in Bounds
    BY DEF Bounds
<1> QED
    BY <1>1, <1>2 DEF Undisturbed

\* A change of the database in an undisturbed behaviour finds no call running.
LEMMA ChangeAlone ==
    ASSUME TypeOK, Change, Undisturbed'
    PROVE  Undisturbed /\ \A t \in Threads : thread[t].pc = "idle"
<1>1. CASE Running = {}
    BY <1>1, Disturbs DEF Change, Running
<1>2. CASE Running # {}
    BY <1>2, Disturbs DEF Change
<1> QED
    BY <1>1, <1>2

\* A step of a connection that is neither registered nor unregistered by it.
LEMMA QuietStep ==
    ASSUME SyncInv, UNCHANGED <<thread, users, settings, cache, registered, open, tip>>,
           Undisturbed' => Undisturbed,
           \A c \in Conns : handler[c] \in {"serve", "mute"} => handler'[c] \in {"serve", "mute"},
           \A c \in Conns : queue'[c] # <<>> => queue[c] # <<>>
    PROVE  SyncInv'
<1>1. ConnInv'
    BY DEF SyncInv, ConnInv
<1>2. Undisturbed' => ReadInv'
    BY DEF SyncInv, ReadInv, Current
<1>3. Undisturbed' => PushInv'
    BY DEF SyncInv, PushInv, Current, Sent, Stale
<1>4. Undisturbed' => CacheInv'
    BY DEF SyncInv, CacheInv, Current, Sent, Running
<1> QED
    BY <1>1, <1>2, <1>3, <1>4 DEF SyncInv

-----------------------------------------------------------------------------
\* What every step of a call has in common.
LEMMA CallStep ==
    ASSUME TypeOK, NEW t \in Threads, SyncStep(t)
    PROVE  /\ thread[t].pc # "idle"
           /\ \A u \in Threads \ {t} : thread'[u] = thread[u]
           /\ thread'[t].pc # "idle" => thread'[t].op = thread[t].op
           /\ thread'[t].pc = "cache" => thread[t].op = "sync"
           /\ thread'[t].conn \in {NoConn, thread[t].conn, registered}
           /\ UNCHANGED <<users, settings, registered, open, handler>>
           /\ Undisturbed' => Undisturbed
<1> USE DEF hubVars
<1>0. /\ {"cache", "conn", "node", "users", "send", "store"} \subseteq Steps
      /\ {} \in SUBSET Users /\ NoConn \in Conns \cup {NoConn}
      /\ NoConfig \in Config \cup {NoConfig}
    BY DEF Steps
<1>v. /\ thread[t].sig \in SUBSET Users /\ users \in SUBSET Users
      /\ thread[t].conn \in Conns \cup {NoConn} /\ registered \in Conns \cup {NoConn}
      /\ thread[t].cfg \in Config \cup {NoConfig}
      /\ [users |-> {}, settings |-> settings] \in Config
      /\ thread[t].pc = "users" =>
            [users |-> users, settings |-> thread[t].cfg.settings] \in Config
    BY CallValues
<1>d. thread \in [Threads -> Thread]
    BY DEF TypeOK
<1>1. CASE ReadSig(t)
    <2>1. CASE Return(t) /\ Spend({"db"})
        BY <1>1, <2>1, ReturnMoves, Disturbs DEF ReadSig
    <2>2. CASE Goto(t, IF thread[t].op = "sync" THEN "cache" ELSE "conn", users, NoConn, NoConfig)
               /\ UNCHANGED spent
        <3> DEFINE pc == IF thread[t].op = "sync" THEN "cache" ELSE "conn"
        <3>1. pc \in Steps
            BY <1>0
        <3>2. /\ thread'[t].pc = pc /\ thread'[t].op = thread[t].op /\ thread'[t].conn = NoConn
              /\ \A u \in Threads \ {t} : thread'[u] = thread[u]
            BY <1>0, <1>v, <2>2, <3>1, GotoMoves
        <3>3. thread'[t].pc = "cache" => thread[t].op = "sync"
            BY <3>2
        <3> QED
            BY <1>1, <2>2, <3>2, <3>3 DEF ReadSig, Undisturbed
    <2> QED
        BY <1>1, <2>1, <2>2 DEF ReadSig
<1>2. CASE CheckCache(t)
    <2>1. CASE Return(t)
        BY <1>2, <2>1, ReturnMoves DEF CheckCache, Undisturbed
    <2>2. CASE Goto(t, "conn", thread[t].sig, NoConn, NoConfig)
        <3>1. /\ thread'[t].pc = "conn" /\ thread'[t].op = thread[t].op /\ thread'[t].conn = NoConn
              /\ \A u \in Threads \ {t} : thread'[u] = thread[u]
            BY <1>0, <1>v, <2>2, GotoMoves
        <3> QED
            BY <1>2, <3>1 DEF CheckCache, Undisturbed
    <2> QED
        BY <1>2, <2>1, <2>2 DEF CheckCache
<1>3. CASE PickConn(t)
    <2>1. CASE Failed(t)
        BY <1>3, <2>1, FailedMoves DEF PickConn, Undisturbed
    <2>2. CASE Goto(t, "node", thread[t].sig, registered, NoConfig)
        <3>1. /\ thread'[t].pc = "node" /\ thread'[t].op = thread[t].op
              /\ thread'[t].conn = registered
              /\ \A u \in Threads \ {t} : thread'[u] = thread[u]
            BY <1>0, <1>v, <2>2, GotoMoves
        <3> QED
            BY <1>3, <3>1 DEF PickConn, Undisturbed
    <2> QED
        BY <1>3, <2>1, <2>2 DEF PickConn
<1>4. CASE LoadNode(t)
    <2>1. CASE Failed(t) /\ Spend({"db"})
        BY <1>4, <2>1, FailedMoves, Disturbs DEF LoadNode
    <2>2. CASE UNCHANGED spent /\ Goto(t, "users", thread[t].sig, thread[t].conn,
                                       [users |-> {}, settings |-> settings])
        <3>1. /\ thread'[t].pc = "users" /\ thread'[t].op = thread[t].op
              /\ thread'[t].conn = thread[t].conn
              /\ \A u \in Threads \ {t} : thread'[u] = thread[u]
            BY <1>d, <2>2 DEF Goto
        <3> QED
            BY <1>4, <2>2, <3>1 DEF LoadNode, Undisturbed
    <2> QED
        BY <1>4, <2>1, <2>2 DEF LoadNode
<1>5. CASE LoadUsers(t)
    <2>1. CASE Failed(t) /\ Spend({"db"})
        BY <1>5, <2>1, FailedMoves, Disturbs DEF LoadUsers
    <2>2. CASE UNCHANGED spent /\ Goto(t, "send", thread[t].sig, thread[t].conn,
                                       [users |-> users, settings |-> thread[t].cfg.settings])
        <3>1. /\ thread'[t].pc = "send" /\ thread'[t].op = thread[t].op
              /\ thread'[t].conn = thread[t].conn
              /\ \A u \in Threads \ {t} : thread'[u] = thread[u]
            BY <1>d, <2>2 DEF Goto
        <3> QED
            BY <1>5, <2>2, <3>1 DEF LoadUsers, Undisturbed
    <2> QED
        BY <1>5, <2>1, <2>2 DEF LoadUsers
<1>6. CASE TrySend(t)
    <2>1. CASE Failed(t)
        BY <1>6, <2>1, FailedMoves DEF TrySend, Undisturbed
    <2>2. CASE Goto(t, "store", thread[t].sig, thread[t].conn, thread[t].cfg)
        <3>1. /\ thread'[t].pc = "store" /\ thread'[t].op = thread[t].op
              /\ thread'[t].conn = thread[t].conn
              /\ \A u \in Threads \ {t} : thread'[u] = thread[u]
            BY <1>d, <2>2 DEF Goto
        <3> QED
            BY <1>6, <3>1 DEF TrySend, Undisturbed
    <2> QED
        BY <1>6, <2>1, <2>2 DEF TrySend
<1>7. CASE StoreSig(t)
    BY <1>7, ReturnMoves DEF StoreSig, Undisturbed
<1>8. CASE ForgetSig(t)
    BY <1>8, ReturnMoves DEF ForgetSig, Undisturbed
<1> QED
    BY <1>1, <1>2, <1>3, <1>4, <1>5, <1>6, <1>7, <1>8 DEF SyncStep

\* The steps of a call keep the connections as ConnInv has them.
LEMMA ConnCall ==
    ASSUME TypeOK, SyncInv, NEW t \in Threads, SyncStep(t)
    PROVE  ConnInv'
<1>1. /\ thread[t].pc # "idle"
      /\ \A u \in Threads \ {t} : thread'[u] = thread[u]
      /\ thread'[t].pc # "idle" => thread'[t].op = thread[t].op
      /\ thread'[t].pc = "cache" => thread[t].op = "sync"
      /\ thread'[t].conn \in {NoConn, thread[t].conn, registered}
      /\ UNCHANGED <<registered, open, handler>>
    BY CallStep
<1>2. ConnInv /\ Conns \subseteq Threads
    BY DEF SyncInv, Threads
<1>3. ASSUME NEW c \in Conns
      PROVE  /\ thread'[c].pc # "idle" => /\ thread'[c].op = "force"
                                          /\ handler[c] \in {"serve", "mute"}
             /\ registered = c => /\ handler[c] \in {"serve", "mute"} /\ open[c]
                                  /\ thread'[c].conn \in {NoConn, c}
    <2>1. CASE c = t
        BY <1>1, <1>2, <2>1 DEF ConnInv
    <2>2. CASE c # t
        BY <1>1, <1>2, <2>2 DEF ConnInv
    <2> QED
        BY <2>1, <2>2
<1>4. \A u \in Threads : thread'[u].pc = "cache" => thread'[u].op = "sync"
    BY <1>1, <1>2 DEF ConnInv
<1> QED
    BY <1>1, <1>3, <1>4 DEF ConnInv

\* No read of a call fails in an undisturbed behaviour.
LEMMA NoReadFails ==
    ASSUME TypeOK, Undisturbed'
    PROVE  ~Spend({"db"})
BY Disturbs

\* What a call has read stays current while nothing races with it.
LEMMA ReadCall ==
    ASSUME TypeOK, SyncInv, NEW t \in Threads, SyncStep(t), Undisturbed'
    PROVE  ReadInv'
<1>1. /\ \A u \in Threads \ {t} : thread'[u] = thread[u]
      /\ UNCHANGED <<users, settings>> /\ Undisturbed
    BY CallStep
<1>2. ReadInv /\ thread \in [Threads -> Thread] /\ thread[t].op \in {"sync", "force"}
    BY <1>1, CallValues DEF SyncInv, TypeOK
<1> SUFFICES /\ thread'[t].pc \in {"cache", "conn", "node", "users", "send", "store"}
                   => thread'[t].sig = users
             /\ thread'[t].pc = "users" => thread'[t].cfg.settings = settings
             /\ thread'[t].pc \in {"send", "store"} => thread'[t].cfg = Current
    BY <1>1, <1>2 DEF ReadInv, Current
<1>3. CASE thread'[t].pc \in {"idle", "forget"}
    BY <1>3
<1>f. Failed(t) \/ Return(t) => thread'[t].pc \in {"idle", "forget"}
    BY FailedMoves, ReturnMoves
<1>4. CASE ReadSig(t)
    BY <1>2, <1>3, <1>4, <1>f, NoReadFails DEF ReadSig, Goto
<1>5. CASE CheckCache(t)
    BY <1>2, <1>3, <1>5, <1>f DEF CheckCache, Goto, ReadInv
<1>6. CASE PickConn(t)
    BY <1>2, <1>3, <1>6, <1>f DEF PickConn, Goto, ReadInv
<1>7. CASE LoadNode(t)
    <2>1. CASE Failed(t)
        BY <1>3, <1>f, <2>1
    <2>2. CASE Goto(t, "users", thread[t].sig, thread[t].conn,
                    [users |-> {}, settings |-> settings])
        BY <1>2, <1>7, <2>2 DEF LoadNode, Goto, ReadInv
    <2> QED
        BY <1>7, <2>1, <2>2 DEF LoadNode
<1>8. CASE LoadUsers(t)
    <2>1. CASE Failed(t)
        BY <1>3, <1>f, <2>1
    <2>2. CASE Goto(t, "send", thread[t].sig, thread[t].conn,
                    [users |-> users, settings |-> thread[t].cfg.settings])
        BY <1>2, <1>8, <2>2 DEF LoadUsers, Goto, ReadInv, Current
    <2> QED
        BY <1>8, <2>1, <2>2 DEF LoadUsers
<1>9. CASE TrySend(t)
    <2>1. CASE Failed(t)
        BY <1>3, <1>f, <2>1
    <2>2. CASE Goto(t, "store", thread[t].sig, thread[t].conn, thread[t].cfg)
        BY <1>2, <1>9, <2>2 DEF TrySend, Goto, ReadInv
    <2> QED
        BY <1>9, <2>1, <2>2 DEF TrySend
<1>10. CASE StoreSig(t) \/ ForgetSig(t)
    BY <1>3, <1>10, <1>f DEF StoreSig, ForgetSig
<1> QED
    BY <1>4, <1>5, <1>6, <1>7, <1>8, <1>9, <1>10 DEF SyncStep

-----------------------------------------------------------------------------
\* A step of a call that hands nothing over and stores no signature.
LEMMA PlainCall ==
    ASSUME TypeOK, SyncInv, NEW t \in Threads, SyncStep(t), Undisturbed',
           UNCHANGED <<tip, queue, cache>>,
           thread[t].pc # "store", thread'[t].pc # "store",
           thread'[t].pc = "idle" => thread[t].op = "sync",
           thread'[t].pc \in {"node", "users", "send"} =>
              \/ thread'[t].conn = registered
              \/ thread[t].pc \in {"node", "users"} /\ thread'[t].conn = thread[t].conn,
           t \in Conns /\ registered = t /\ thread'[t].pc = "forget" => tip[t] = Current
    PROVE  PushInv' /\ CacheInv'
<1>1. /\ thread[t].pc # "idle"
      /\ \A u \in Threads \ {t} : thread'[u] = thread[u]
      /\ thread'[t].pc # "idle" => thread'[t].op = thread[t].op
      /\ UNCHANGED <<users, settings, registered>> /\ Undisturbed
    BY CallStep
<1>2. /\ ConnInv /\ PushInv /\ CacheInv /\ Conns \subseteq Threads
      /\ thread[t].op \in {"sync", "force"}
    BY <1>1, CallValues DEF SyncInv, Threads
<1>3. (Sent' <=> Sent) /\ \A c \in Conns : registered = c /\ Stale(c)' => Stale(c)
    BY <1>1 DEF Sent, Stale
<1>4. PushInv'
    <2> SUFFICES ASSUME NEW c \in Conns, registered = c
                 PROVE  /\ thread'[c].pc # "idle" /\ queue[c] # <<>> => tip[c] = Current
                        /\ thread'[c].pc \in {"store", "forget"} => tip[c] = Current
                        /\ thread'[c].pc = "idle" /\ (Sent \/ Stale(c)) => tip[c] = Current
        BY <1>1, <1>3 DEF PushInv, Current
    <2>1. CASE c = t
        <3>1. thread[c].op = "force"
            BY <1>1, <1>2, <2>1 DEF ConnInv
        <3> QED
            BY <1>1, <1>2, <2>1, <3>1 DEF PushInv
    <2>2. CASE c # t
        BY <1>1, <1>2, <2>2 DEF PushInv
    <2> QED
        BY <2>1, <2>2
<1>5. ASSUME \A u \in Running' : thread'[u].op = "sync"
      PROVE  \A u \in Running : thread[u].op = "sync"
    BY <1>1, <1>2, <1>5 DEF Running
<1>6. CacheInv'
    BY <1>1, <1>2, <1>3, <1>5 DEF CacheInv, Current
<1> QED
    BY <1>4, <1>6

\* TrySend hands the current configuration to the registered connection, or finds its
\* channel full of configurations that end in the current one.
LEMMA SendCall ==
    ASSUME TypeOK, OpenIsRegistered, SyncInv, NEW t \in Threads, TrySend(t), Undisturbed'
    PROVE  PushInv' /\ CacheInv'
<1>1. /\ thread[t].pc = "send" /\ Undisturbed
      /\ \A u \in Threads \ {t} : thread'[u] = thread[u]
      /\ thread'[t].pc # "idle" => thread'[t].op = thread[t].op
      /\ UNCHANGED <<users, settings, registered, cache>>
      /\ SyncStep(t)
    BY CallStep DEF SyncStep, TrySend
<1>2. /\ ConnInv /\ PushInv /\ CacheInv /\ ReadInv /\ Conns \subseteq Threads
      /\ thread[t].conn \in Conns /\ thread[t].cfg = Current
      /\ thread \in [Threads -> Thread] /\ tip \in [Conns -> Config \cup {NoConfig}]
    BY <1>1, CallValues DEF SyncInv, Threads, TypeOK, ReadInv
<1> DEFINE c0 == thread[t].conn
<1>3. CASE open[c0] /\ Len(queue[c0]) < QueueCap
    <2>1. /\ tip' = [tip EXCEPT ![c0] = thread[t].cfg]
          /\ Goto(t, "store", thread[t].sig, c0, thread[t].cfg)
        BY <1>3 DEF TrySend
    <2>2. tip'[c0] = Current' /\ Current' = Current
        BY <1>1, <1>2, <2>1 DEF Current
    <2>3. Sent' /\ thread'[t].pc = "store"
        BY <1>2, <2>1 DEF Goto, Sent
    <2>4. CASE registered = c0
        BY <1>1, <2>2, <2>3, <2>4 DEF PushInv, CacheInv
    <2>5. CASE registered # c0
        <3> SUFFICES ASSUME NEW c \in Conns, registered = c
                     PROVE  /\ thread'[c].pc # "idle" /\ queue'[c] # <<>> => tip'[c] = Current
                            /\ thread'[c].pc \in {"store", "forget"} => tip'[c] = Current
                            /\ thread'[c].pc = "idle" => tip'[c] = Current
                            /\ (\A u \in Running' : thread'[u].op = "sync")
                                  => tip'[c] = Current
            BY <1>1, <2>2, <2>3 DEF PushInv, CacheInv
        <3>1. c # t
            BY <1>1, <1>2, <2>5, SyncAssumption DEF ConnInv
        <3>2. thread'[c] = thread[c] /\ tip'[c] = tip[c] /\ queue'[c] = queue[c]
            BY <1>1, <1>2, <1>3, <2>1, <2>5, <3>1 DEF TrySend, TypeOK
        <3>3. Stale(c)
            BY <1>1, <2>5 DEF Stale
        <3>4. (\A u \in Running' : thread'[u].op = "sync") => thread[c].pc = "idle"
            BY <1>2, <3>2 DEF Running, ConnInv
        <3> QED
            BY <1>2, <3>2, <3>3, <3>4 DEF PushInv
    <2> QED
        BY <2>4, <2>5
<1>4. CASE ~(open[c0] /\ Len(queue[c0]) < QueueCap)
    <2>1. Failed(t) /\ UNCHANGED <<queue, tip>>
        BY <1>4 DEF TrySend
    <2>2. /\ thread'[t].pc \in {"idle", "forget"}
          /\ thread'[t].pc = "idle" => thread[t].op = "sync"
        BY <2>1, FailedMoves
    <2>3. ASSUME registered = t, t \in Conns
          PROVE  tip[t] = Current
        <3>1. c0 = t /\ open[t]
            BY <1>2, <2>3, SyncAssumption DEF ConnInv, TypeOK
        <3>2. Len(queue[t]) >= QueueCap
            BY <1>4, <3>1, SyncAssumption, LenProperties DEF TypeOK
        <3>3. queue[t] # <<>>
            BY <3>2, SyncAssumption
        <3> QED
            BY <1>1, <1>2, <2>3, <3>1, <3>3 DEF PushInv
    <2> QED
        BY <1>1, <2>1, <2>2, <2>3, PlainCall
<1> QED
    BY <1>3, <1>4

\* The signature stored is the one of the current configuration, which the registered
\* connection was handed.
LEMMA StoreCall ==
    ASSUME TypeOK, SyncInv, NEW t \in Threads, StoreSig(t) \/ ForgetSig(t), Undisturbed'
    PROVE  PushInv' /\ CacheInv'
<1>1. /\ thread[t].pc \in {"store", "forget"} /\ thread'[t].pc = "idle" /\ Undisturbed
      /\ \A u \in Threads \ {t} : thread'[u] = thread[u]
      /\ UNCHANGED <<users, settings, registered, queue, tip>>
      /\ StoreSig(t) => thread[t].pc = "store" /\ cache' = {thread[t].sig}
      /\ ForgetSig(t) => thread[t].pc = "forget" /\ cache' = {}
    BY CallStep, ReturnMoves DEF SyncStep, StoreSig, ForgetSig
<1>2. ConnInv /\ PushInv /\ ReadInv /\ Conns \subseteq Threads
    BY <1>1 DEF SyncInv, Threads
<1>3. (Sent' => Sent) /\ \A c \in Conns : Stale(c)' => Stale(c)
    BY <1>1 DEF Sent, Stale
<1>4. PushInv'
    <2> SUFFICES ASSUME NEW c \in Conns, registered = c
                 PROVE  /\ thread'[c].pc # "idle" /\ queue[c] # <<>> => tip[c] = Current
                        /\ thread'[c].pc \in {"store", "forget"} => tip[c] = Current
                        /\ thread'[c].pc = "idle" /\ (Sent \/ Stale(c)) => tip[c] = Current
        BY <1>1, <1>3 DEF PushInv, Current
    <2>1. CASE c = t
        BY <1>1, <1>2, <1>3, <2>1 DEF PushInv
    <2>2. CASE c # t
        BY <1>1, <1>2, <1>3, <2>2 DEF PushInv
    <2> QED
        BY <2>1, <2>2
<1>5. CASE ForgetSig(t)
    <2>1. cache' = {}
        BY <1>5 DEF ForgetSig
    <2> QED
        BY <1>4, <2>1 DEF CacheInv
<1>6. CASE StoreSig(t)
    <2>0. cache' = {users}
        BY <1>1, <1>2, <1>6 DEF StoreSig, ReadInv
    <2> SUFFICES ASSUME NEW c \in Conns, registered = c,
                        \A u \in Running' : thread'[u].op = "sync"
                 PROVE  tip[c] = [users |-> users, settings |-> settings]
        BY <1>1, <1>4, <2>0 DEF CacheInv
    <2>1. CASE c = t
        BY <1>1, <1>2, <2>1 DEF PushInv, Current
    <2>2. CASE c # t
        <3>1. thread[c].pc = "idle"
            BY <1>1, <1>2, <2>2 DEF ConnInv, Running
        <3>2. Sent
            BY <1>1, <1>6 DEF Sent
        <3> QED
            BY <1>2, <3>1, <3>2 DEF PushInv, Current
    <2> QED
        BY <2>1, <2>2
<1> QED
    BY <1>4, <1>5, <1>6

\* The steps of a call keep SyncInv.
LEMMA SyncCall ==
    ASSUME TypeOK, OpenIsRegistered, SyncInv, NEW t \in Threads, SyncStep(t)
    PROVE  SyncInv'
<1> SUFFICES ASSUME Undisturbed' PROVE PushInv' /\ CacheInv'
    BY ConnCall, ReadCall DEF SyncInv
<1>0. thread \in [Threads -> Thread]
    BY DEF TypeOK
<1>1. CASE TrySend(t)
    BY <1>1, SendCall
<1>2. CASE StoreSig(t) \/ ForgetSig(t)
    BY <1>2, StoreCall
<1>3. CASE ReadSig(t)
    <2>1. thread[t].pc = "sig" /\ UNCHANGED <<tip, queue, cache>>
          /\ thread'[t].pc \in {"cache", "conn"}
        BY <1>0, <1>3, NoReadFails DEF ReadSig, Goto
    <2> QED
        BY <2>1, PlainCall
<1>4. CASE CheckCache(t)
    <2>1. /\ thread[t].pc = "cache" /\ UNCHANGED <<tip, queue, cache>>
          /\ thread'[t].pc \in {"idle", "conn"}
        BY <1>0, <1>4, ReturnMoves DEF CheckCache, Goto
    <2>2. thread'[t].pc = "idle" => thread[t].op = "sync"
        BY <2>1 DEF SyncInv, ConnInv
    <2> QED
        BY <2>1, <2>2, PlainCall
<1>5. CASE PickConn(t)
    <2>1. CASE registered = NoConn /\ Failed(t)
        <3>1. /\ thread[t].pc = "conn" /\ UNCHANGED <<tip, queue, cache>>
              /\ thread'[t].pc \in {"idle", "forget"}
              /\ thread'[t].pc = "idle" => thread[t].op = "sync"
            BY <1>5, <2>1, FailedMoves DEF PickConn
        <3>2. t \in Conns => registered # t
            BY <2>1, SyncAssumption
        <3> QED
            BY <3>1, <3>2, PlainCall
    <2>2. CASE Goto(t, "node", thread[t].sig, registered, NoConfig)
        <3>1. /\ thread[t].pc = "conn" /\ UNCHANGED <<tip, queue, cache>>
              /\ thread'[t].pc = "node" /\ thread'[t].conn = registered
            BY <1>0, <1>5, <2>2 DEF PickConn, Goto
        <3> QED
            BY <3>1, PlainCall
    <2> QED
        BY <1>5, <2>1, <2>2 DEF PickConn
<1>6. CASE LoadNode(t) \/ LoadUsers(t)
    <2>1. /\ thread[t].pc \in {"node", "users"} /\ UNCHANGED <<tip, queue, cache>>
          /\ thread'[t].pc \in {"users", "send"} /\ thread'[t].conn = thread[t].conn
        BY <1>0, <1>6, NoReadFails DEF LoadNode, LoadUsers, Goto
    <2> QED
        BY <2>1, PlainCall
<1> QED
    BY <1>1, <1>2, <1>3, <1>4, <1>5, <1>6 DEF SyncStep

-----------------------------------------------------------------------------
\* register keeps SyncInv: the new connection starts with an empty channel.
LEMMA RegisterKeeps ==
    ASSUME TypeOK, SyncInv, NEW c \in Conns, Register(c)
    PROVE  SyncInv'
<1>1. /\ handler[c] = "reg" /\ handler' = [handler EXCEPT ![c] = "serve"]
      /\ registered' = c /\ open' = [d \in Conns |-> (d = c) \/ (open[d] /\ d # registered)]
      /\ queue' = [d \in Conns |-> IF d = c \/ d = registered THEN <<>> ELSE queue[d]]
      /\ UNCHANGED <<users, settings, cache, spent>> /\ c \in Threads
    BY DEF Register, Threads
<1>2. /\ thread'[c].pc = "sig" /\ thread'[c].op = "force" /\ thread'[c].conn = NoConn
      /\ \A u \in Threads \ {c} : thread'[u] = thread[u]
    <2>1. Begin(c, "force")
        BY DEF Register
    <2> QED
        BY <1>1, <2>1, BeginMoves
<1>3. /\ ConnInv /\ Conns \subseteq Threads
      /\ handler \in [Conns -> {"none", "reg", "serve", "mute", "leave"}]
    BY DEF SyncInv, TypeOK, Threads
<1>4. ConnInv'
    <2>1. \A t \in Threads : thread'[t].pc = "cache" => thread'[t].op = "sync"
        BY <1>2, <1>3 DEF ConnInv
    <2>2. ASSUME NEW d \in Conns
          PROVE  /\ thread'[d].pc # "idle" => /\ thread'[d].op = "force"
                                              /\ handler'[d] \in {"serve", "mute"}
                 /\ registered' = d => /\ handler'[d] \in {"serve", "mute"} /\ open'[d]
                                       /\ thread'[d].conn \in {NoConn, d}
        <3>1. CASE d = c
            BY <1>1, <1>2, <1>3, <3>1
        <3>2. CASE d # c
            BY <1>1, <1>2, <1>3, <3>2 DEF ConnInv
        <3> QED
            BY <3>1, <3>2
    <2> QED
        BY <2>1, <2>2 DEF ConnInv
<1> SUFFICES ASSUME Undisturbed' PROVE ReadInv' /\ PushInv' /\ CacheInv'
    BY <1>4 DEF SyncInv
<1>5. ReadInv
    BY <1>1 DEF SyncInv, Undisturbed
<1>6. ReadInv'
    BY <1>1, <1>2, <1>5 DEF ReadInv, Current
<1>7. PushInv'
    BY <1>1, <1>2 DEF PushInv
<1>8. c \in Running' /\ thread'[c].op # "sync"
    BY <1>1, <1>2 DEF Running
<1>9. CacheInv'
    BY <1>1, <1>8 DEF CacheInv
<1> QED
    BY <1>6, <1>7, <1>9

\* unregister keeps SyncInv: the entry goes first, the connection closes later.
LEMMA UnregisterKeeps ==
    ASSUME TypeOK, SyncInv, NEW c \in Conns, Unregister(c)
    PROVE  SyncInv'
<1>1. /\ thread[c].pc = "idle" /\ handler' = [handler EXCEPT ![c] = "leave"]
      /\ registered' = IF registered = c THEN NoConn ELSE registered
      /\ UNCHANGED <<users, settings, cache, thread, spent, open, queue, tip>>
    BY DEF Unregister
<1>2. /\ \A d \in Conns : registered' = d => registered = d /\ d # c
      /\ \A d \in Conns \ {c} : handler'[d] = handler[d]
      /\ Undisturbed' = Undisturbed
    BY <1>1, SyncAssumption DEF TypeOK, Undisturbed
<1>3. ConnInv'
    BY <1>1, <1>2 DEF SyncInv, ConnInv
<1>4. Undisturbed' => ReadInv'
    BY <1>1, <1>2 DEF SyncInv, ReadInv, Current
<1>5. Undisturbed' => PushInv'
    BY <1>1, <1>2 DEF SyncInv, PushInv, Current, Sent, Stale
<1>6. Undisturbed' => CacheInv'
    BY <1>1, <1>2 DEF SyncInv, CacheInv, Current, Running, Sent
<1> QED
    BY <1>3, <1>4, <1>5, <1>6 DEF SyncInv

\* The connection it closes is registered no more.
LEMMA CloseKeeps ==
    ASSUME TypeOK, SyncInv, NEW c \in Conns, Close(c)
    PROVE  SyncInv'
<1>1. /\ handler[c] = "leave" /\ handler' = [handler EXCEPT ![c] = "none"]
      /\ open' = [open EXCEPT ![c] = FALSE]
      /\ queue' = [queue EXCEPT ![c] = <<>>] /\ tip' = [tip EXCEPT ![c] = NoConfig]
      /\ UNCHANGED <<users, settings, cache, thread, spent, registered>>
    BY DEF Close
<1>2. /\ registered # c /\ thread[c].pc = "idle"
      /\ \A d \in Conns \ {c} : /\ handler'[d] = handler[d] /\ open'[d] = open[d]
                                /\ queue'[d] = queue[d] /\ tip'[d] = tip[d]
      /\ Undisturbed' = Undisturbed
    BY <1>1 DEF SyncInv, ConnInv, TypeOK, Undisturbed
<1>3. ConnInv'
    BY <1>1, <1>2 DEF SyncInv, ConnInv
<1>4. Undisturbed' => ReadInv'
    BY <1>1, <1>2 DEF SyncInv, ReadInv, Current
<1>5. Undisturbed' => PushInv'
    BY <1>1, <1>2 DEF SyncInv, PushInv, Current, Sent, Stale
<1>6. Undisturbed' => CacheInv'
    BY <1>1, <1>2 DEF SyncInv, CacheInv, Current, Running, Sent
<1> QED
    BY <1>3, <1>4, <1>5, <1>6 DEF SyncInv

\* A call begins: nothing was read, and nothing else changes for the calls under way.
LEMMA BeginKeeps ==
    ASSUME TypeOK, SyncInv, NEW w \in Workers, NEW op \in {"sync", "force"}, Begin(w, op),
           thread[w].pc = "idle",
           UNCHANGED <<cache, registered, open, handler, queue, tip>>,
           Undisturbed' => Undisturbed,
           \/ UNCHANGED <<users, settings>>
           \/ Undisturbed' => /\ \A t \in Threads : thread[t].pc = "idle"
                              /\ op = "sync" => settings' = settings
    PROVE  SyncInv'
<1>1. /\ thread'[w].pc = "sig" /\ thread'[w].op = op
      /\ \A u \in Threads \ {w} : thread'[u] = thread[u]
      /\ w \in Threads /\ Conns \subseteq Threads /\ w \notin Conns
    <2>1. w \in Threads /\ Conns \subseteq Threads /\ w \notin Conns
        BY SyncAssumption DEF Threads
    <2> QED
        BY <2>1, BeginMoves
<1>2. ConnInv'
    <2>1. \A c \in Conns : thread'[c] = thread[c]
        BY <1>1
    <2> QED
        BY <1>1, <2>1 DEF SyncInv, ConnInv
<1> SUFFICES ASSUME Undisturbed' PROVE ReadInv' /\ PushInv' /\ CacheInv'
    BY <1>2 DEF SyncInv
<1>3. ReadInv /\ PushInv /\ CacheInv
    BY DEF SyncInv
<1>4. /\ Sent' <=> Sent
      /\ \A c \in Conns : (Stale(c)' <=> Stale(c)) /\ thread'[c] = thread[c]
    BY <1>1 DEF Sent, Stale
<1>5. (\A u \in Running' : thread'[u].op = "sync")
         => op = "sync" /\ \A u \in Running : thread[u].op = "sync"
    BY <1>1 DEF Running
<1>6. CASE UNCHANGED <<users, settings>>
    <2>1. ReadInv'
        BY <1>1, <1>3, <1>6 DEF ReadInv, Current
    <2>2. PushInv'
        BY <1>3, <1>4, <1>6 DEF PushInv, Current
    <2>3. CacheInv'
        BY <1>3, <1>4, <1>5, <1>6 DEF CacheInv, Current
    <2> QED
        BY <2>1, <2>2, <2>3
<1>7. CASE /\ \A t \in Threads : thread[t].pc = "idle"
           /\ op = "sync" => settings' = settings
    <2>1. ReadInv'
        BY <1>1, <1>7 DEF ReadInv
    <2>2. ~Sent /\ ~Sent' /\ \A c \in Conns : ~Stale(c)'
        BY <1>4, <1>7 DEF Sent, Stale
    <2>3. PushInv'
        BY <1>1, <1>4, <1>7, <2>2 DEF PushInv
    <2>4. CacheInv'
        BY <1>3, <1>5, <1>7, <2>2 DEF CacheInv
    <2> QED
        BY <2>1, <2>3, <2>4
<1> QED
    BY <1>6, <1>7

\* A user expires: in an undisturbed behaviour no call is under way.
LEMMA ExpireKeeps ==
    ASSUME TypeOK, SyncInv, NEW u \in Users, Expire(u)
    PROVE  SyncInv'
<1>1. UNCHANGED <<settings, cache, registered, open, handler, queue, tip, thread>>
    BY DEF Expire, hubVars
<1>2. Undisturbed' => Undisturbed /\ \A t \in Threads : thread[t].pc = "idle"
    BY ChangeAlone DEF Expire
<1>3. ConnInv'
    BY <1>1 DEF SyncInv, ConnInv
<1> SUFFICES ASSUME Undisturbed' PROVE ReadInv' /\ PushInv' /\ CacheInv'
    BY <1>3 DEF SyncInv
<1>4. ReadInv'
    BY <1>1, <1>2 DEF ReadInv
<1>5. /\ ~Sent /\ ~Sent' /\ Running' = Running
      /\ \A c \in Conns : ~Stale(c)'
    BY <1>1, <1>2 DEF Sent, Running, Stale
<1>6. PushInv'
    <2>1. Conns \subseteq Threads
        BY DEF Threads
    <2> QED
        BY <1>1, <1>2, <1>5, <2>1 DEF PushInv
<1>7. CacheInv'
    BY <1>1, <1>2, <1>5 DEF SyncInv, CacheInv
<1> QED
    BY <1>4, <1>6, <1>7

\* Every step keeps SyncInv.
LEMMA SyncNext ==
    ASSUME TypeOK, OpenIsRegistered, SyncInv, [Next]_vars
    PROVE  SyncInv'
<1> USE DEF hubVars
<1>1. ASSUME NEW w \in Workers, NEW u \in Users, ChangeUsers(w, u) PROVE SyncInv'
    <2>1. /\ thread[w].pc = "idle" /\ Begin(w, "sync") /\ settings' = settings
          /\ UNCHANGED <<cache, registered, open, handler, queue, tip>>
        BY <1>1 DEF ChangeUsers
    <2>2. Undisturbed' => Undisturbed /\ \A t \in Threads : thread[t].pc = "idle"
        BY <1>1, ChangeAlone DEF ChangeUsers
    <2> QED
        BY <2>1, <2>2, BeginKeeps
<1>2. ASSUME NEW u \in Users, Expire(u) PROVE SyncInv'
    BY <1>2, ExpireKeeps
<1>3. ASSUME NEW w \in Workers, NEW s \in Settings, ChangeSettings(w, s) PROVE SyncInv'
    <2>1. /\ thread[w].pc = "idle" /\ Begin(w, "force")
          /\ UNCHANGED <<cache, registered, open, handler, queue, tip>>
        BY <1>3 DEF ChangeSettings
    <2>2. Undisturbed' => Undisturbed /\ \A t \in Threads : thread[t].pc = "idle"
        BY <1>3, ChangeAlone DEF ChangeSettings
    <2> QED
        BY <2>1, <2>2, BeginKeeps
<1>4. ASSUME NEW w \in Workers, Enforce(w) PROVE SyncInv'
    <2>1. /\ thread[w].pc = "idle" /\ Begin(w, "sync") /\ Undisturbed' = Undisturbed
          /\ UNCHANGED <<cache, registered, open, handler, queue, tip, users, settings>>
        BY <1>4 DEF Enforce, Undisturbed
    <2> QED
        BY <2>1, BeginKeeps
<1>5. ASSUME NEW t \in Threads, SyncStep(t) PROVE SyncInv'
    BY <1>5, SyncCall
<1>6. ASSUME NEW c \in Conns, Dial(c) \/ Abandon(c) PROVE SyncInv'
    <2>1. /\ handler[c] \in {"none", "reg"} /\ Undisturbed' = Undisturbed
          /\ UNCHANGED <<thread, users, settings, cache, registered, open, tip, queue>>
          /\ \A d \in Conns \ {c} : handler'[d] = handler[d]
        BY <1>6 DEF Dial, Abandon, Free, Undisturbed, TypeOK
    <2> QED
        BY <2>1, QuietStep
<1>7. ASSUME NEW c \in Conns, Register(c) PROVE SyncInv'
    BY <1>7, RegisterKeeps
<1>8. ASSUME NEW c \in Conns, Deliver(c) PROVE SyncInv'
    <2>1. /\ queue[c] # <<>> /\ queue' = [queue EXCEPT ![c] = Tail(queue[c])]
          /\ UNCHANGED <<thread, users, settings, cache, registered, open, tip, handler>>
          /\ Undisturbed' = Undisturbed
        BY <1>8 DEF Deliver, Undisturbed
    <2>2. \A d \in Conns : queue'[d] # <<>> => queue[d] # <<>>
        BY <2>1 DEF TypeOK
    <2> QED
        BY <2>1, <2>2, QuietStep
<1>9. ASSUME NEW c \in Conns, Drop(c) PROVE SyncInv'
    BY <1>9, Disturbs, QuietStep DEF Drop
<1>10. ASSUME NEW c \in Conns, WriteFail(c) PROVE SyncInv'
    <2>1. /\ handler' = [handler EXCEPT ![c] = "mute"]
          /\ queue' = queue \/ (queue[c] # <<>> /\ queue' = [queue EXCEPT ![c] = Tail(queue[c])])
          /\ UNCHANGED <<thread, users, settings, cache, registered, open, tip>>
        BY <1>10 DEF WriteFail
    <2>2. \A d \in Conns : queue'[d] # <<>> => queue[d] # <<>>
        BY <2>1 DEF TypeOK
    <2>3. \A d \in Conns : handler[d] \in {"serve", "mute"} => handler'[d] \in {"serve", "mute"}
        BY <2>1 DEF TypeOK
    <2>4. Undisturbed' => Undisturbed
        BY <1>10, Disturbs DEF WriteFail
    <2> QED
        BY <2>1, <2>2, <2>3, <2>4, QuietStep
<1>11. ASSUME NEW c \in Conns, SessionEnd(c) PROVE SyncInv'
    BY <1>11, QuietStep DEF SessionEnd, Undisturbed
<1>12. ASSUME NEW c \in Conns, Unregister(c) PROVE SyncInv'
    BY <1>12, UnregisterKeeps
<1>15. ASSUME NEW c \in Conns, Close(c) PROVE SyncInv'
    BY <1>15, CloseKeeps
<1>13. CASE PanelRestart
    <2>1. /\ \A t \in Threads : thread'[t] = Idle
          /\ registered' = NoConn
        BY <1>13 DEF PanelRestart
    <2>2. Idle.pc = "idle" /\ NoConn \notin Conns /\ Conns \subseteq Threads
        BY SyncAssumption DEF Idle, Threads
    <2>3. ConnInv'
        BY <2>1, <2>2 DEF ConnInv
    <2>4. ReadInv' /\ PushInv' /\ CacheInv'
        BY <2>1, <2>2 DEF ReadInv, PushInv, CacheInv
    <2> QED
        BY <2>3, <2>4 DEF SyncInv
<1>14. CASE UNCHANGED vars
    BY <1>14, QuietStep DEF vars, Undisturbed
<1> QED
    BY <1>1, <1>2, <1>3, <1>4, <1>5, <1>6, <1>7, <1>8, <1>9, <1>10, <1>11, <1>12,
       <1>13, <1>14, <1>15 DEF Next

\* SyncInv holds initially: nothing is cached, read or queued.
LEMMA SyncInit == Init => SyncInv
<1> SUFFICES ASSUME Init PROVE SyncInv
    OBVIOUS
<1>1. /\ \A t \in Threads : thread[t] = Idle
      /\ registered = NoConn
    BY DEF Init
<1>2. Idle.pc = "idle" /\ NoConn \notin Conns /\ Conns \subseteq Threads
    BY SyncAssumption DEF Idle, Threads
<1>3. ConnInv
    BY <1>1, <1>2 DEF ConnInv
<1>4. ReadInv /\ PushInv /\ CacheInv
    BY <1>1, <1>2 DEF ReadInv, PushInv, CacheInv
<1> QED
    BY <1>3, <1>4 DEF SyncInv

\* activeCache tells the truth (traffic.go): in a behaviour without failed reads and
\* without changes in the middle of a sync, a signature that makes syncNode return early
\* means that the registered connection was handed the current configuration last,
\* whatever syncs, reconnects, full channels, lost writes and restarts overlapped.
THEOREM SyncedCorrect == Spec => []SyncedMeansSent
<1>1. TypeOK /\ OpenIsRegistered /\ SyncInv /\ [Next]_vars => SyncInv'
    BY SyncNext
<1>2. SyncInv => SyncedMeansSent
    <2> SUFFICES ASSUME SyncInv, Undisturbed, NEW c \in Conns, registered = c,
                        \A t \in Running : thread[t].op = "sync", cache = {users}
                 PROVE  tip[c] = Current
        BY DEF SyncedMeansSent, Undisturbed
    <2> QED
        BY DEF SyncInv, CacheInv, Current
<1> QED
    BY <1>1, <1>2, SyncInit, TypeCorrect, OpenCorrect, PTL DEF Spec
=============================================================================
