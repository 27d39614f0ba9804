------------------------------ MODULE QuotaProofs ------------------------------
(* Theorems about Quota, for every value of its constants. *)
EXTENDS Quota, FiniteSetTheorems, TLAPS

-----------------------------------------------------------------------------
(* The inductive invariants *)

ColsOrNone == Cols \cup {NoCols}
BotOps == {"enable", "disable", "delete", "reset"}
ThreadState ==
    {r \in [pc : {"idle", "find", "write", "reload"}, op : Ops, cols : ColsOrNone,
            nodes : SUBSET Nodes, todo : SUBSET Nodes] :
        /\ r.pc = "write" /\ r.op = "update" => r.cols \in Cols
        /\ r.pc = "find" => r.op \in BotOps}
AutoState == [pc : {"idle", "reset", "mark"}, at : 0 .. MaxTime, todo : SUBSET Nodes]
SyncState ==
    {r \in [todo : SUBSET Nodes, pc : {"read", "push", "store"}, node : Nodes \cup {NoNode},
            sig : Nat] : r.pc # "read" => r.node \in Nodes}

\* A live user has columns, and so has a row that a handler writes back; the bot
\* updates through its commands only.
TypeInv ==
    /\ now \in Month .. MaxTime
    /\ state \in {"none", "live", "gone"}
    /\ cols \in ColsOrNone
    /\ state = "live" => cols \in Cols
    /\ used \in Nat /\ lastReset \in Nat /\ uuid \in Nat
    /\ assigned \subseteq Nodes /\ fleet \subseteq Nodes
    /\ breakdown \in [Nodes -> Nat] /\ served \in [Nodes -> Nat]
    /\ cached \in [Nodes -> Nat \cup {-1}] /\ torn \in [Nodes -> BOOLEAN]
    /\ sync \in [Callers -> SyncState]
    /\ thread \in [Threads -> ThreadState]
    /\ auto \in AutoState
    /\ ingest \in [Nodes -> {"idle", "add"}]
    /\ resetIn \in -1 .. MaxTime /\ again \in BOOLEAN /\ moved \in BOOLEAN
    /\ spent \in [Kinds -> Nat]

\* Instant t is past the reset day of its month, and that month is m.
PastReset(t, m) == t \div Month = m /\ t >= ResetInstant(t, cols.resetDay)

\* autoResetLoop is about to reset a month it has not reset, or has recorded the
\* last one it did, or is about to.
ResetInv == (spent["restart"] = 0 /\ spent["db"] = 0 /\ ~moved) =>
    /\ ~again
    /\ state = "none" => resetIn = -1 /\ auto.pc = "idle"
    /\ auto.pc = "reset" => /\ auto.at \div Month # resetIn
                            /\ state = "live" => PastReset(auto.at, auto.at \div Month)
    /\ auto.pc = "mark" => /\ auto.at \div Month = resetIn
                           /\ state = "live" => PastReset(auto.at, resetIn)
    /\ auto.pc = "idle" /\ resetIn # -1 /\ state = "live" =>
          PastReset(lastReset, resetIn)

-----------------------------------------------------------------------------
(* What the helpers return *)

\* Idle handlers and loops are well formed.
LEMMA IdleType == Idle \in ThreadState /\ AutoIdle \in AutoState /\ AutoIdle.pc = "idle"
<1>1. 0 \in 0 .. MaxTime
    BY QuotaAssumption
<1> QED
    BY <1>1 DEF Idle, AutoIdle, ThreadState, AutoState, ColsOrNone, Ops

\* A handler with its row.
LEMMA LoadedType ==
    ASSUME TypeInv, NEW op \in Ops, NEW c \in ColsOrNone, NEW S \in SUBSET Nodes,
           op = "update" => c \in Cols
    PROVE  Loaded(op, c, S) \in ThreadState
BY DEF Loaded, ThreadState, TypeInv

\* A handler that looks for its row, or for the nodes to sync.
LEMMA LookingType ==
    /\ [Idle EXCEPT !.pc = "reload"] \in ThreadState
    /\ \A op \in BotOps : [Idle EXCEPT !.pc = "find", !.op = op] \in ThreadState
BY DEF Idle, ThreadState, ColsOrNone, Ops, BotOps

\* A caller of syncNode with its nodes ahead of it.
LEMMA CallsType == \A S \in SUBSET Nodes : Calls(S) \in SyncState
BY DEF Calls, SyncState

\* A caller that comes to its loop keeps its type.
LEMMA SyncsType ==
    ASSUME TypeInv, NEW k \in Callers, NEW S \in SUBSET Nodes, Syncs(k, S)
    PROVE  sync' \in [Callers -> SyncState]
BY CallsType DEF Syncs, TypeInv

\* Using up a bound keeps the bounds well typed and changes no other.
LEMMA SpendType ==
    ASSUME spent \in [Kinds -> Nat], NEW k \in Kinds, Spend(k)
    PROVE  /\ spent' \in [Kinds -> Nat]
           /\ \A j \in Kinds : spent'[j] = IF j = k THEN spent[j] + 1 ELSE spent[j]
BY DEF Spend

\* The first read of a call leaves the call well formed.
LEMMA ReadSigType ==
    ASSUME TypeInv, NEW k \in Callers, NEW n \in Nodes, NEW S \in SUBSET Nodes,
           ReadSig(k, n, S)
    PROVE  sync' \in [Callers -> SyncState] /\ spent' \in [Kinds -> Nat]
<1> DEFINE c == [todo |-> S, pc |-> "push", node |-> n, sig |-> Should(n)]
<1>1. Should(n) \in Nat
    BY DEF Should, TypeInv
<1>2. c \in SyncState /\ Calls(S) \in SyncState
    BY <1>1, CallsType DEF SyncState
<1>3. "db" \in Kinds
    BY DEF Kinds
<1>4. CASE sync' = [sync EXCEPT ![k] = IF cached[n] = Should(n) THEN Calls(S) ELSE c]
           /\ UNCHANGED spent
    BY <1>2, <1>4 DEF TypeInv
<1>5. CASE Spend("db") /\ sync' = [sync EXCEPT ![k] = Calls(S)]
    BY <1>2, <1>3, <1>5, SpendType DEF TypeInv
<1> QED
    BY <1>4, <1>5 DEF ReadSig

\* The month of an instant is a number.
LEMMA MonthType ==
    \A t \in 0 .. MaxTime : t \div Month \in 0 .. MaxTime
<1>1. Month \in Nat \ {0} /\ MaxTime \in Nat
    BY QuotaAssumption
<1>2. ASSUME NEW t \in Nat
      PROVE  t \div Month \in Nat /\ t \div Month <= t
    BY <1>1
<1> QED
    BY <1>1, <1>2

\* TypeInv is at least the type invariant.
LEMMA TypeImplies == TypeInv => TypeOK
<1> SUFFICES ASSUME TypeInv
             PROVE  TypeOK
    OBVIOUS
<1>1. thread \in [Threads -> [pc : {"idle", "find", "write", "reload"},
                              op : Ops, cols : Cols \cup {NoCols},
                              nodes : SUBSET Nodes, todo : SUBSET Nodes]]
    BY DEF TypeInv, ThreadState, ColsOrNone
<1>2. /\ sync \in [Callers -> [todo : SUBSET Nodes, pc : {"read", "push", "store"},
                              node : Nodes \cup {NoNode}, sig : Nat]]
      /\ \A k \in Callers : sync[k].pc # "read" => sync[k].node \in Nodes
    BY DEF TypeInv, SyncState
<1> QED
    BY <1>1, <1>2 DEF TypeInv, TypeOK, AutoState, ColsOrNone

-----------------------------------------------------------------------------
(* Types *)

\* The initial state is well typed.
LEMMA InitType == Init => TypeInv
<1> SUFFICES ASSUME Init
             PROVE  TypeInv
    OBVIOUS
<1>1. now \in Month .. MaxTime /\ -1 \in -1 .. MaxTime
    BY QuotaAssumption DEF Init
<1>2. thread \in [Threads -> ThreadState] /\ auto \in AutoState
    BY IdleType DEF Init
<1>3. sync \in [Callers -> SyncState]
    BY CallsType DEF Init
<1>4. /\ cols \in ColsOrNone /\ (state = "live" => cols \in Cols)
      /\ uuid \in Nat /\ assigned \subseteq Nodes /\ state \in {"none", "live", "gone"}
    BY DEF Init, ColsOrNone
<1>5. cached \in [Nodes -> Nat \cup {-1}] /\ torn \in [Nodes -> BOOLEAN]
    BY DEF Init
<1> QED
    BY <1>1, <1>2, <1>3, <1>4, <1>5 DEF Init, TypeInv

\* Every step keeps TypeInv.
LEMMA NextType == TypeInv /\ [Next]_vars => TypeInv'
<1> SUFFICES ASSUME TypeInv, [Next]_vars
             PROVE  TypeInv'
    OBVIOUS
<1> USE DEF TypeInv, row, nodeVars
<1>k. {"op", "traffic", "restart", "db", "node"} \subseteq Kinds
    BY DEF Kinds
<1>b. Bot \in Threads
    BY DEF Threads
<1>c. /\ ResetLoop \in Callers /\ EnforceLoop \in Callers
      /\ \A t \in Threads : t \in Callers
      /\ \A n \in Nodes : n \in Callers
    BY DEF Callers
<1>o. {"create", "update", "enable", "disable", "nodes", "uuid", "delete", "reset"} \subseteq Ops
    BY DEF Ops
<1>n. NoCols \in ColsOrNone /\ Cols \subseteq ColsOrNone
    BY DEF ColsOrNone
<1>s. ASSUME NEW t \in Threads, NEW r \in ThreadState, Start(t, r)
      PROVE  thread' \in [Threads -> ThreadState] /\ spent' \in [Kinds -> Nat]
    BY <1>s, <1>k, SpendType DEF Start
<1>m. ASSUME NEW t \in Threads, NEW r \in ThreadState, Become(t, r)
      PROVE  thread' \in [Threads -> ThreadState]
    BY <1>m DEF Become
<1>t. ASSUME NEW t \in Threads
      PROVE  /\ thread[t].todo \in SUBSET Nodes /\ thread[t].nodes \in SUBSET Nodes
             /\ thread[t].pc = "write" /\ thread[t].op = "update" => thread[t].cols \in Cols
    BY DEF ThreadState
<1>y. ASSUME NEW t \in Threads, NEW S \in SUBSET Nodes, Ends(t, S)
      PROVE  thread' \in [Threads -> ThreadState] /\ sync' \in [Callers -> SyncState]
    BY <1>c, <1>m, <1>y, IdleType, SyncsType DEF Ends
<1>r. ASSUME Restarted, spent' \in [Kinds -> Nat]
      PROVE  TypeInv'
    BY <1>r, IdleType, CallsType DEF Restarted
<1>1. ASSUME NEW t \in Threads, NEW c \in Cols, NEW S \in SUBSET Nodes, CreateUser(t, c, S)
      PROVE  TypeInv'
    <2> DEFINE r == [pc |-> "write", op |-> "create", cols |-> NoCols, nodes |-> S, todo |-> S]
    <2>1. r \in ThreadState
        BY <1>n, <1>o DEF ThreadState
    <2>2. PICK q \in {Idle, r} : Start(t, q)
        BY <1>1 DEF CreateUser
    <2>3. thread' \in [Threads -> ThreadState] /\ spent' \in [Kinds -> Nat]
        BY <1>s, <2>1, <2>2, IdleType
    <2> QED
        BY <1>1, <1>n, <2>3 DEF CreateUser, InsertUser
<1>2. ASSUME NEW t \in Threads, LoadUser(t)
      PROVE  TypeInv'
    <2>1. PICK op \in Ops, c \in ColsOrNone, S \in SUBSET Nodes :
             (op = "update" => c \in Cols) /\ Start(t, Loaded(op, c, S))
        <3>1. CASE \E c \in Cols : Start(t, Loaded("update", c, {}))
            BY <1>n, <1>o, <3>1
        <3>2. CASE \E S \in SUBSET Nodes : Start(t, Loaded("nodes", NoCols, S))
            BY <1>n, <1>o, <3>2
        <3>3. CASE \E op \in {"uuid", "delete"} : Start(t, Loaded(op, NoCols, {}))
            BY <1>n, <1>o, <3>3
        <3> QED
            BY <1>2, <3>1, <3>2, <3>3 DEF LoadUser
    <2>2. thread' \in [Threads -> ThreadState] /\ spent' \in [Kinds -> Nat]
        BY <1>s, <2>1, LoadedType
    <2> QED
        BY <1>2, <2>2 DEF LoadUser
<1>3. CASE FindUser
    <2>1. PICK op \in BotOps : Start(Bot, [Idle EXCEPT !.pc = "find", !.op = op])
        BY <1>3 DEF FindUser, BotOps
    <2>2. thread' \in [Threads -> ThreadState] /\ spent' \in [Kinds -> Nat]
        BY <1>b, <1>s, <2>1, LookingType
    <2> QED
        BY <1>3, <2>2 DEF FindUser
<1>4. CASE BotLoad
    <2>1. cols \in Cols /\ thread[Bot].op \in BotOps
        BY <1>4, <1>b DEF BotLoad, ThreadState
    <2>2. \A e \in BOOLEAN : [cols EXCEPT !.enabled = e] \in Cols
        BY <2>1 DEF Cols
    <2>3. PICK op \in Ops, c \in ColsOrNone :
             (op = "update" => c \in Cols) /\ Become(Bot, Loaded(op, c, {}))
        <3>1. CASE thread[Bot].op \in {"enable", "disable"}
            <4>1. Become(Bot, Loaded("update",
                                     [cols EXCEPT !.enabled = (thread[Bot].op = "enable")], {}))
                BY <1>4, <3>1 DEF BotLoad
            <4>2. (thread[Bot].op = "enable") \in BOOLEAN
                OBVIOUS
            <4>3. [cols EXCEPT !.enabled = (thread[Bot].op = "enable")] \in Cols
                BY <2>2, <4>2
            <4> QED
                BY <1>n, <1>o, <4>1, <4>3
        <3>2. CASE thread[Bot].op \notin {"enable", "disable"}
            <4>1. Become(Bot, Loaded(thread[Bot].op, NoCols, {}))
                BY <1>4, <3>2 DEF BotLoad
            <4>2. thread[Bot].op # "update" /\ thread[Bot].op \in Ops
                BY <2>1 DEF BotOps, Ops
            <4> QED
                BY <1>n, <4>1, <4>2
        <3> QED
            BY <3>1, <3>2
    <2>4. thread' \in [Threads -> ThreadState]
        BY <1>b, <1>m, <2>3, LoadedType
    <2> QED
        BY <1>4, <2>4 DEF BotLoad
<1>5. CASE BotPanics
    <2>1. spent' \in [Kinds -> Nat]
        BY <1>5, <1>k DEF BotPanics
    <2> QED
        BY <1>5, <1>r, <2>1 DEF BotPanics
<1>6. ASSUME NEW t \in Threads, UpdateUser(t)
      PROVE  TypeInv'
    <2>1. thread[t].cols \in Cols
        BY <1>6, <1>t DEF UpdateUser
    <2>2. thread' \in [Threads -> ThreadState] /\ sync' \in [Callers -> SyncState]
        BY <1>6, <1>t, <1>y DEF UpdateUser
    <2>3. CASE state = "live"
        BY <1>6, <1>n, <2>1, <2>2, <2>3 DEF UpdateUser
    <2>4. CASE state # "live"
        BY <1>6, <2>2, <2>4 DEF UpdateUser
    <2> QED
        BY <2>3, <2>4
<1>7. ASSUME NEW t \in Threads, SetUserNodes(t) \/ SetUserUUID(t) \/ DeleteUser(t)
      PROVE  TypeInv'
    <2>1. thread' \in [Threads -> ThreadState] /\ sync' \in [Callers -> SyncState]
        BY <1>7, <1>t, <1>y DEF SetUserNodes, SetUserUUID, DeleteUser
    <2>2. CASE SetUserNodes(t)
        BY <1>t, <2>1, <2>2 DEF SetUserNodes
    <2>3. CASE SetUserUUID(t)
        BY <2>1, <2>3 DEF SetUserUUID
    <2>4. CASE DeleteUser(t)
        BY <1>n, <2>1, <2>4 DEF DeleteUser
    <2> QED
        BY <1>7, <2>2, <2>3, <2>4
<1>8. ASSUME NEW t \in Threads, ResetUserTraffic(t)
      PROVE  TypeInv'
    <2>1. CASE Start(t, [Idle EXCEPT !.pc = "reload"]) /\ UNCHANGED sync
        BY <1>8, <1>s, <2>1, LookingType DEF ResetUserTraffic, ClearTraffic
    <2>2. CASE Ends(t, thread[t].todo) /\ UNCHANGED spent
        BY <1>8, <1>t, <1>y, <2>2 DEF ResetUserTraffic, ClearTraffic
    <2> QED
        BY <1>8, <2>1, <2>2 DEF ResetUserTraffic
<1>9. ASSUME NEW t \in Threads, ReloadUser(t)
      PROVE  TypeInv'
    <2> DEFINE S == IF state = "live" THEN assigned ELSE {}
    <2>1. S \in SUBSET Nodes
        OBVIOUS
    <2>2. Ends(t, S)
        BY <1>9 DEF ReloadUser
    <2>3. thread' \in [Threads -> ThreadState] /\ sync' \in [Callers -> SyncState]
        BY <1>y, <2>1, <2>2
    <2> QED
        BY <1>9, <2>3 DEF ReloadUser
<1>10. ASSUME NEW k \in Callers, SyncStep(k)
       PROVE  TypeInv'
    <2>1. /\ sync[k].todo \in SUBSET Nodes /\ sync[k].sig \in Nat
          /\ sync[k].pc # "read" => sync[k].node \in Nodes
        BY DEF SyncState
    <2>2. ASSUME NEW n \in Nodes, SyncNode(k, n)
          PROVE  TypeInv'
        <3>1. sync' \in [Callers -> SyncState] /\ spent' \in [Kinds -> Nat]
            BY <2>1, <2>2, ReadSigType DEF SyncNode
        <3> QED
            BY <2>2, <3>1 DEF SyncNode, ReadSig
    <2>3. Returns(k) => sync' \in [Callers -> SyncState]
        BY <2>1, CallsType DEF Returns
    <2>4. CASE PushConfig(k)
        <3>1. sync[k].node \in Nodes
            BY <2>1, <2>4 DEF PushConfig
        <3>2. Should(sync[k].node) \in Nat
            BY <3>1 DEF Should
        <3>3. CASE served' = [served EXCEPT ![sync[k].node] = Should(sync[k].node)]
                   /\ sync' = [sync EXCEPT ![k].pc = "store"] /\ UNCHANGED spent
            <4>1. [sync[k] EXCEPT !.pc = "store"] \in SyncState
                BY <3>1 DEF SyncState
            <4>2. sync' \in [Callers -> SyncState]
                BY <3>3, <4>1
            <4> QED
                BY <2>4, <3>2, <3>3, <4>2 DEF PushConfig
        <3>4. CASE Returns(k) /\ UNCHANGED served /\ (Spend("db") \/ UNCHANGED spent)
            BY <1>k, <2>3, <2>4, <3>4, SpendType DEF PushConfig
        <3> QED
            BY <2>4, <3>3, <3>4 DEF PushConfig
    <2>5. CASE StoreSig(k)
        <3>1. sync' \in [Callers -> SyncState]
            BY <2>3, <2>5 DEF StoreSig
        <3>2. cached' \in [Nodes -> Nat \cup {-1}]
            BY <2>1, <2>5 DEF StoreSig
        <3>3. torn' \in [Nodes -> BOOLEAN]
            BY <2>1, <2>5 DEF StoreSig
        <3> QED
            BY <2>5, <3>1, <3>2, <3>3 DEF StoreSig
    <2> QED
        BY <1>10, <2>2, <2>4, <2>5 DEF SyncStep
<1>11. ASSUME NEW n \in Nodes, DeleteNode(n)
       PROVE  TypeInv'
    BY <1>11, <1>k, SpendType DEF DeleteNode
<1>12. CASE AutoList
    <2>1. now \in 0 .. MaxTime
        BY QuotaAssumption
    <2>2. auto' \in AutoState
        BY <1>12, <2>1 DEF AutoList, AutoState
    <2> QED
        BY <1>12, <2>2 DEF AutoList
<1>13. CASE AutoReset
    <2>1. CASE ClearTraffic /\ auto' = [auto EXCEPT !.pc = "mark"] /\ resetIn' = auto.at \div Month
               /\ again' = (again \/ resetIn' = resetIn) /\ UNCHANGED spent
        <3>1. auto' \in AutoState /\ auto.at \in 0 .. MaxTime
            BY <2>1 DEF AutoState
        <3>2. resetIn' \in -1 .. MaxTime
            BY <2>1, <3>1, MonthType
        <3>3. again' \in BOOLEAN
            BY <2>1
        <3> QED
            BY <1>13, <2>1, <3>1, <3>2, <3>3 DEF AutoReset, ClearTraffic
    <2>2. CASE Spend("db") /\ auto' = AutoIdle /\ UNCHANGED <<used, breakdown, resetIn, again>>
        BY <1>13, <1>k, <2>2, SpendType, IdleType DEF AutoReset
    <2> QED
        BY <1>13, <2>1, <2>2 DEF AutoReset
<1>14. CASE AutoMark
    <2>1. auto.todo \in SUBSET Nodes /\ auto.at \in Nat
        BY QuotaAssumption DEF AutoState
    <2>2. auto' \in AutoState
        BY <1>14, IdleType DEF AutoMark
    <2>4. sync' \in [Callers -> SyncState]
        <3>1. Syncs(ResetLoop, auto.todo)
            BY <1>14 DEF AutoMark
        <3> QED
            BY <1>c, <2>1, <3>1, SyncsType
    <2>3. lastReset' \in Nat /\ spent' \in [Kinds -> Nat]
        BY <1>14, <1>k, <2>1, SpendType DEF AutoMark
    <2> QED
        BY <1>14, <2>2, <2>3, <2>4 DEF AutoMark
<1>15. ASSUME NEW n \in Nodes, IngestStart(n)
       PROVE  TypeInv'
    BY <1>15, <1>k, SpendType DEF IngestStart
<1>16. ASSUME NEW n \in Nodes, AddTraffic(n)
       PROVE  TypeInv'
    <2>1. sync' \in [Callers -> SyncState]
        BY <1>16, <1>c, SyncsType DEF AddTraffic
    <2> QED
        BY <1>16, <2>1 DEF AddTraffic
<1>17. ASSUME NEW n \in Nodes, Enforce(n)
       PROVE  TypeInv'
    <2>1. sync' \in [Callers -> SyncState] /\ spent' \in [Kinds -> Nat]
        BY <1>17, <1>c, ReadSigType DEF Enforce
    <2> QED
        BY <1>17, <2>1 DEF Enforce, ReadSig
<1>18. CASE PanelRestart
    BY <1>18, <1>k, <1>r, SpendType DEF PanelRestart
<1>19. CASE Tick
    <2>1. now' \in Month .. MaxTime
        BY <1>19, QuotaAssumption DEF Tick
    <2> QED
        BY <1>19, <2>1 DEF Tick
<1>20. CASE UNCHANGED vars
    BY <1>20 DEF vars
<1> QED
    BY <1>1, <1>2, <1>3, <1>4, <1>5, <1>6, <1>7, <1>8, <1>9, <1>10, <1>11, <1>12, <1>13, <1>14,
       <1>15, <1>16, <1>17, <1>18, <1>19, <1>20 DEF Next, HandlerStep, AutoStep

\* TypeInv holds in every reachable state.
LEMMA TypeInvariant == Spec => []TypeInv
BY InitType, NextType, PTL DEF Spec

\* Every variable keeps its type; a reset loop's instant is one of the clock.
THEOREM TypeCorrect == Spec => []TypeOK
BY TypeInvariant, TypeImplies, PTL

-----------------------------------------------------------------------------
(* ResetOncePerMonth *)

\* What counts for the reset stays as it is.
LEMMA ResetSteady ==
    ASSUME ResetInv, spent'["restart"] = spent["restart"], spent'["db"] = spent["db"],
           moved' = moved \/ ~moved, UNCHANGED <<auto, resetIn, again>>,
           state' = state \/ state' = "gone",
           state' = "live" => cols'.resetDay = cols.resetDay /\ lastReset' = lastReset
    PROVE  ResetInv'
BY DEF ResetInv, PastReset

\* Every step keeps ResetInv.
LEMMA NextReset == TypeInv /\ ResetInv /\ [Next]_vars => ResetInv'
<1> SUFFICES ASSUME TypeInv, ResetInv, [Next]_vars,
                    spent'["restart"] = 0, spent'["db"] = 0, ~moved'
             PROVE  ResetInv'
    BY DEF ResetInv
<1> DEFINE Calm == spent["restart"] = 0 /\ spent["db"] = 0 /\ ~moved
           Same == spent'["restart"] = spent["restart"] /\ spent'["db"] = spent["db"]
<1>t. /\ spent \in [Kinds -> Nat] /\ moved \in BOOLEAN /\ again \in BOOLEAN /\ now \in Nat
      /\ auto \in AutoState /\ auto.at \in Nat /\ lastReset \in Nat
      /\ {"op", "traffic", "restart", "db", "node"} \subseteq Kinds
    BY QuotaAssumption DEF TypeInv, AutoState, Kinds
<1>s. ASSUME NEW k \in {"op", "traffic", "node"}, Spend(k)
      PROVE  Same
    BY <1>s, <1>t, SpendType
<1>1. ASSUME NEW t \in Threads, NEW c \in Cols, NEW S \in SUBSET Nodes, CreateUser(t, c, S)
      PROVE  ResetInv'
    <2>1. Same
        BY <1>1, <1>s DEF CreateUser, Start
    <2>2. state = "none" /\ UNCHANGED <<auto, resetIn, again, moved>>
        BY <1>1 DEF CreateUser
    <2>3. resetIn = -1 /\ auto.pc = "idle" /\ ~again
        BY <2>1, <2>2 DEF ResetInv
    <2> QED
        BY <2>2, <2>3 DEF ResetInv
<1>2. ASSUME NEW t \in Threads, LoadUser(t) \/ ResetUserTraffic(t) \/ ReloadUser(t)
      PROVE  ResetInv'
    <2>1. Same
        BY <1>2, <1>s DEF LoadUser, ResetUserTraffic, ReloadUser, Start
    <2>2. UNCHANGED <<auto, resetIn, again, moved, lastReset, state, cols>>
        BY <1>2 DEF LoadUser, ResetUserTraffic, ReloadUser, row
    <2> QED
        BY <2>1, <2>2, ResetSteady
<1>3. CASE FindUser \/ BotLoad
    <2>1. Same
        BY <1>3, <1>s DEF FindUser, BotLoad, Start
    <2>2. UNCHANGED <<auto, resetIn, again, moved, lastReset, state, cols>>
        BY <1>3 DEF FindUser, BotLoad, row
    <2> QED
        BY <2>1, <2>2, ResetSteady
<1>4. ~BotPanics /\ ~PanelRestart
    <2>1. SUFFICES ASSUME BotPanics \/ PanelRestart
                   PROVE  spent'["restart"] = spent["restart"] + 1
        BY <1>t
    <2> QED
        BY <1>t, <2>1, SpendType DEF BotPanics, PanelRestart
<1>5. ASSUME NEW t \in Threads, UpdateUser(t)
      PROVE  ResetInv'
    <2>1. UNCHANGED <<auto, resetIn, again, lastReset, state, spent>>
        BY <1>5 DEF UpdateUser
    <2>2. CASE state = "live"
        <3>1. moved' = (moved \/ cols'.resetDay # cols.resetDay)
            BY <1>5, <2>2 DEF UpdateUser
        <3>2. ~moved /\ cols'.resetDay = cols.resetDay
            BY <1>t, <3>1
        <3> QED
            BY <2>1, <3>2, ResetSteady
    <2>3. CASE state # "live"
        BY <1>5, <2>1, <2>3, ResetSteady DEF UpdateUser
    <2> QED
        BY <2>2, <2>3
<1>6. ASSUME NEW t \in Threads, SetUserNodes(t) \/ SetUserUUID(t) \/ DeleteUser(t)
      PROVE  ResetInv'
    <2>1. /\ UNCHANGED <<auto, resetIn, again, moved, spent>>
          /\ state' = state \/ state' = "gone"
          /\ state' = "live" => UNCHANGED <<lastReset, cols>>
        BY <1>6 DEF SetUserNodes, SetUserUUID, DeleteUser
    <2> QED
        BY <2>1, ResetSteady
<1>7. ASSUME NEW n \in Nodes, IngestStart(n) \/ AddTraffic(n) \/ DeleteNode(n)
      PROVE  ResetInv'
    <2>1. Same
        BY <1>7, <1>s DEF IngestStart, AddTraffic, DeleteNode
    <2>2. UNCHANGED <<auto, resetIn, again, moved, lastReset, state, cols>>
        BY <1>7 DEF IngestStart, AddTraffic, DeleteNode, row
    <2> QED
        BY <2>1, <2>2, ResetSteady
<1>11. ASSUME (\E k \in Callers : SyncStep(k)) \/ (\E n \in Nodes : Enforce(n))
       PROVE  ResetInv'
    <2>1. spent' = spent \/ Spend("db")
        BY <1>11 DEF SyncStep, SyncNode, PushConfig, StoreSig, Enforce, ReadSig
    <2>2. Same
        BY <1>t, <2>1, SpendType
    <2>3. UNCHANGED <<auto, resetIn, again, moved, lastReset, state, cols>>
        BY <1>11 DEF SyncStep, SyncNode, PushConfig, StoreSig, Enforce, ReadSig, row
    <2> QED
        BY <2>2, <2>3, ResetSteady
<1>8. CASE AutoList
    <2>1. /\ auto.pc = "idle" /\ state = "live" /\ monthlyResetDue(now, cols.resetDay, lastReset)
          /\ auto' = [pc |-> "reset", at |-> now, todo |-> assigned]
          /\ UNCHANGED <<resetIn, again, moved, lastReset, state, cols, spent>>
        BY <1>8 DEF AutoList, row
    <2>2. now \div Month # resetIn
        <3>1. CASE resetIn = -1
            BY <1>t, <3>1, QuotaAssumption
        <3>2. CASE resetIn # -1
            <4>1. PastReset(lastReset, resetIn)
                BY <2>1, <3>2 DEF ResetInv
            <4>2. now \div Month = resetIn =>
                     ResetInstant(now, cols.resetDay) = ResetInstant(lastReset, cols.resetDay)
                BY <4>1 DEF PastReset, ResetInstant
            <4>3. lastReset < ResetInstant(now, cols.resetDay)
                BY <2>1 DEF monthlyResetDue
            <4>4. lastReset >= ResetInstant(lastReset, cols.resetDay)
                BY <4>1 DEF PastReset
            <4>5. ResetInstant(now, cols.resetDay) \in Int
                <5>1. now \div Month \in Int
                    BY <1>t, QuotaAssumption
                <5>2. cols \in Cols
                    BY <2>1 DEF TypeInv
                <5>3. cols.resetDay \in ResetDays
                    BY <5>2 DEF Cols
                <5>4. Month \in Int /\ ResetDays \subseteq 0 .. Month
                    BY QuotaAssumption
                <5>5. cols.resetDay \in 0 .. Month
                    BY <5>3, <5>4
                <5>6. cols.resetDay \in Int
                    BY <5>4, <5>5
                <5> QED
                    BY <5>1, <5>4, <5>6 DEF ResetInstant
            <4> QED
                BY <1>t, <4>2, <4>3, <4>4, <4>5
        <3> QED
            BY <3>1, <3>2
    <2>3. PastReset(now, now \div Month)
        BY <2>1 DEF PastReset, monthlyResetDue
    <2>4. PastReset(auto.at, auto.at \div Month)'
        BY <2>1, <2>3 DEF PastReset, ResetInstant
    <2>5. ~again
        BY <2>1 DEF ResetInv
    <2> QED
        BY <2>1, <2>2, <2>4, <2>5 DEF ResetInv
<1>9. CASE AutoReset
    <2>1. UNCHANGED spent
        BY <1>9, <1>t, SpendType DEF AutoReset
    <2>2. /\ auto.pc = "reset" /\ auto'.pc = "mark" /\ auto'.at = auto.at
          /\ resetIn' = auto.at \div Month /\ again' = (again \/ resetIn' = resetIn)
          /\ UNCHANGED <<moved, lastReset, state, cols>>
        <3>1. ~Spend("db")
            BY <1>t, <2>1, SpendType
        <3> QED
            BY <1>9, <1>t, <3>1 DEF AutoReset, AutoState
    <2>3. /\ ~again /\ resetIn' # resetIn /\ state # "none"
          /\ state = "live" => PastReset(auto.at, auto.at \div Month)
        BY <2>1, <2>2 DEF ResetInv
    <2>4. state' = "live" => PastReset(auto.at, resetIn)'
        BY <2>2, <2>3 DEF PastReset, ResetInstant
    <2>5. ~again'
        BY <1>t, <2>2, <2>3
    <2> QED
        BY <2>2, <2>3, <2>4, <2>5 DEF ResetInv
<1>10. CASE AutoMark
    <2>1. ~Spend("db")
        BY <1>t, SpendType
    <2>2. /\ auto.pc = "mark" /\ auto'.pc = "idle"
          /\ lastReset' = IF state = "live" THEN auto.at ELSE lastReset
          /\ UNCHANGED <<resetIn, again, moved, state, cols, spent>>
        BY <1>10, <2>1, IdleType DEF AutoMark
    <2>3. /\ ~again /\ state # "none"
          /\ state = "live" => PastReset(auto.at, resetIn)
        BY <2>2 DEF ResetInv
    <2>4. state' = "live" => PastReset(lastReset, resetIn)'
        BY <2>2, <2>3 DEF PastReset, ResetInstant
    <2> QED
        BY <2>2, <2>3, <2>4 DEF ResetInv
<1>12. CASE Tick \/ UNCHANGED vars
    <2>1. UNCHANGED <<auto, resetIn, again, moved, lastReset, state, cols, spent>>
        BY <1>12 DEF Tick, vars, row
    <2> QED
        BY <2>1, ResetSteady
<1> QED
    BY <1>1, <1>2, <1>3, <1>4, <1>5, <1>6, <1>7, <1>8, <1>9, <1>10, <1>11, <1>12
    DEF Next, HandlerStep, AutoStep

\* ResetInv holds initially: no reset is under way.
LEMMA InitReset == Init => ResetInv
BY DEF Init, ResetInv, AutoIdle

\* While the panel does not restart between the two writes of a reset, the second one
\* does not fail and nobody moves the reset day, autoResetLoop resets a month once,
\* whatever handlers, bot commands and ingest do in between.
THEOREM ResetOnceCorrect == Spec => []ResetOncePerMonth
<1>1. Spec => []ResetInv
    BY InitReset, NextReset, TypeInvariant, PTL DEF Spec
<1>2. ResetInv => ResetOncePerMonth
    BY DEF ResetInv, ResetOncePerMonth
<1> QED
    BY <1>1, <1>2, PTL

-----------------------------------------------------------------------------
(* BreakdownAddsUp *)

\* A user that does not exist yet has no traffic and none on its way; a live one has
\* what the rows of its nodes, deleted nodes apart, add up to.
AddUpInv ==
    /\ IsFiniteSet(Recorded)
    /\ BreakdownAddsUp
    /\ state = "none" => /\ used = 0 /\ Recorded = {}
                         /\ \A n \in Nodes : ingest[n] # "add"

\* A recorded unit, as node and number.
LEMMA RecordedUnits ==
    /\ \A x : x \in Recorded <=> \E n \in Nodes : \E i \in 1 .. breakdown[n] : x = <<n, i>>
    /\ \A x : x \in Recorded' <=> \E n \in Nodes : \E i \in 1 .. breakdown'[n] : x = <<n, i>>
BY DEF Recorded

\* Clearing node_traffic leaves no unit.
LEMMA RecordedCleared ==
    ASSUME breakdown' = [n \in Nodes |-> 0]
    PROVE  Recorded' = {} /\ IsFiniteSet(Recorded)' /\ Cardinality(Recorded)' = 0
<1>1. \A n \in Nodes : 1 .. breakdown'[n] = {}
    OBVIOUS
<1>2. Recorded' = {}
    BY <1>1, RecordedUnits
<1> QED
    BY <1>2, FS_EmptySet

\* AddTraffic records one unit more.
LEMMA RecordedOneMore ==
    ASSUME breakdown \in [Nodes -> Nat], NEW n \in Nodes,
           breakdown' = [breakdown EXCEPT ![n] = @ + 1], IsFiniteSet(Recorded)
    PROVE  /\ IsFiniteSet(Recorded)'
           /\ Cardinality(Recorded)' = Cardinality(Recorded) + 1
<1>1. \A m \in Nodes : breakdown[m] \in Nat
                      /\ breakdown'[m] = IF m = n THEN breakdown[n] + 1 ELSE breakdown[m]
    OBVIOUS
<1>2. \A m \in Nodes : \A i : i \in 1 .. breakdown'[m]
                                <=> i \in 1 .. breakdown[m] \/ (m = n /\ i = breakdown[n] + 1)
    BY <1>1
<1>3. Recorded' = Recorded \cup {<<n, breakdown[n] + 1>>}
    BY <1>2, RecordedUnits
<1>4. <<n, breakdown[n] + 1>> \notin Recorded
    <2>1. breakdown[n] + 1 \notin 1 .. breakdown[n]
        BY <1>1
    <2> QED
        BY <2>1, RecordedUnits
<1> QED
    BY <1>3, <1>4, FS_AddElement

\* Deleting a node deletes its units.
LEMMA RecordedLess ==
    ASSUME breakdown \in [Nodes -> Nat], NEW n \in Nodes,
           breakdown' = [breakdown EXCEPT ![n] = 0], IsFiniteSet(Recorded)
    PROVE  /\ IsFiniteSet(Recorded)' /\ Cardinality(Recorded)' <= Cardinality(Recorded)
           /\ Recorded' \subseteq Recorded
           /\ Cardinality(Recorded) \in Nat /\ Cardinality(Recorded)' \in Nat
<1>1. \A m \in Nodes : breakdown[m] \in Nat
                      /\ breakdown'[m] = IF m = n THEN 0 ELSE breakdown[m]
    OBVIOUS
<1>2. \A m \in Nodes : \A i : i \in 1 .. breakdown'[m] => i \in 1 .. breakdown[m]
    BY <1>1
<1>3. Recorded' \subseteq Recorded
    BY <1>2, RecordedUnits
<1> QED
    BY <1>3, FS_Subset, FS_CardinalityType

\* Steps that leave the tables and ingest's open transactions alone.
LEMMA AddUpSteady ==
    ASSUME AddUpInv, UNCHANGED <<used, breakdown, fleet>>,
           state' # "live" => state' = state \/ state' = "gone",
           state' = "live" => state \in {"none", "live"},
           state' = "live" /\ state = "none" => used = 0,
           \A n \in Nodes : ingest'[n] = "add" => ingest[n] = "add" \/ state' # "none"
    PROVE  AddUpInv'
<1>1. Recorded' = Recorded
    BY DEF Recorded
<1>2. state = "none" => Cardinality(Recorded) = 0
    BY FS_EmptySet DEF AddUpInv
<1> QED
    BY <1>1, <1>2 DEF AddUpInv, BreakdownAddsUp

\* Every step keeps the rows and the aggregate together.
LEMMA NextAddUp ==
    ASSUME TypeInv, AddUpInv, [Next]_vars
    PROVE  AddUpInv'
<1>t. /\ breakdown \in [Nodes -> Nat] /\ used \in Nat /\ fleet \subseteq Nodes
      /\ ingest \in [Nodes -> {"idle", "add"}]
      /\ state \in {"none", "live", "gone"}
    BY DEF TypeInv
<1>1. ASSUME NEW t \in Threads, NEW c \in Cols, NEW S \in SUBSET Nodes, CreateUser(t, c, S)
      PROVE  AddUpInv'
    <2>1. state = "none" /\ state' = "live" /\ UNCHANGED <<used, breakdown, fleet, ingest>>
        BY <1>1 DEF CreateUser, InsertUser
    <2> QED
        BY <2>1, AddUpSteady DEF AddUpInv
<1>2. ASSUME ClearTraffic, state' = state, ingest' = ingest
      PROVE  AddUpInv'
    <2>1. used' = 0 /\ Recorded' = {} /\ IsFiniteSet(Recorded)' /\ Cardinality(Recorded)' = 0
        BY <1>2, RecordedCleared DEF ClearTraffic
    <2> QED
        BY <1>2, <2>1 DEF AddUpInv, BreakdownAddsUp
<1>3. ASSUME NEW t \in Threads, ResetUserTraffic(t)
      PROVE  AddUpInv'
    BY <1>2, <1>3 DEF ResetUserTraffic
<1>4. CASE AutoReset
    <2>1. CASE ClearTraffic
        BY <1>2, <1>4, <2>1 DEF AutoReset
    <2>2. CASE UNCHANGED <<used, breakdown>>
        BY <1>4, <1>t, <2>2, AddUpSteady DEF AutoReset
    <2> QED
        BY <1>4, <2>1, <2>2 DEF AutoReset
<1>5. ASSUME NEW t \in Threads, DeleteUser(t)
      PROVE  AddUpInv'
    <2>1. state' = "gone" /\ breakdown' = [n \in Nodes |-> 0]
        BY <1>5 DEF DeleteUser
    <2> QED
        BY <2>1, RecordedCleared DEF AddUpInv, BreakdownAddsUp
<1>6. ASSUME NEW n \in Nodes, DeleteNode(n)
      PROVE  AddUpInv'
    <2>1. /\ n \in fleet /\ fleet' = fleet \ {n} /\ breakdown' = [breakdown EXCEPT ![n] = 0]
          /\ UNCHANGED <<state, used, ingest>>
        BY <1>6 DEF DeleteNode
    <2>2. IsFiniteSet(Recorded)
        BY DEF AddUpInv
    <2>3. /\ IsFiniteSet(Recorded)' /\ Cardinality(Recorded)' <= Cardinality(Recorded)
          /\ Recorded' \subseteq Recorded
          /\ Cardinality(Recorded) \in Nat /\ Cardinality(Recorded)' \in Nat
        BY <1>t, <2>1, <2>2, RecordedLess
    <2>4. fleet' # Nodes
        BY <2>1
    <2>5. state' = "live" => Cardinality(Recorded)' <= used'
        BY <1>t, <2>1, <2>3 DEF AddUpInv, BreakdownAddsUp
    <2> QED
        BY <2>1, <2>3, <2>4, <2>5 DEF AddUpInv, BreakdownAddsUp
<1>7. ASSUME NEW n \in Nodes, AddTraffic(n)
      PROVE  AddUpInv'
    <2>1. /\ ingest[n] = "add" /\ breakdown' = [breakdown EXCEPT ![n] = @ + 1]
          /\ used' = (IF state = "live" THEN used + 1 ELSE used)
          /\ UNCHANGED <<state, fleet>>
        BY <1>7 DEF AddTraffic
    <2>2. IsFiniteSet(Recorded) /\ Cardinality(Recorded) \in Nat /\ state # "none"
        BY <2>1, FS_CardinalityType DEF AddUpInv
    <2>3. IsFiniteSet(Recorded)' /\ Cardinality(Recorded)' = Cardinality(Recorded) + 1
        BY <1>t, <2>1, <2>2, RecordedOneMore
    <2>4. BreakdownAddsUp'
        BY <1>t, <2>1, <2>2, <2>3 DEF AddUpInv, BreakdownAddsUp
    <2> QED
        BY <2>1, <2>2, <2>3, <2>4 DEF AddUpInv
<1>8. ASSUME NEW n \in Nodes, IngestStart(n)
      PROVE  AddUpInv'
    <2>1. /\ UNCHANGED <<used, breakdown, fleet, state>>
          /\ \A m \in Nodes : ingest'[m] = "add" => ingest[m] = "add" \/ state' # "none"
        BY <1>8, <1>t DEF IngestStart, row
    <2> QED
        BY <1>t, <2>1, AddUpSteady
<1>9. ASSUME UNCHANGED <<used, breakdown, fleet, state>>,
             ingest' = ingest \/ ingest' = [n \in Nodes |-> "idle"]
      PROVE  AddUpInv'
    BY <1>9, <1>t, AddUpSteady
<1>10. ASSUME NEW t \in Threads,
              \/ LoadUser(t) \/ UpdateUser(t) \/ SetUserNodes(t) \/ SetUserUUID(t)
              \/ ReloadUser(t)
       PROVE  AddUpInv'
    BY <1>9, <1>10 DEF LoadUser, UpdateUser, SetUserNodes, SetUserUUID, ReloadUser, row
<1>11. CASE FindUser \/ BotLoad \/ BotPanics \/ PanelRestart \/ Tick \/ UNCHANGED vars
    BY <1>9, <1>11 DEF FindUser, BotLoad, BotPanics, PanelRestart, Restarted, Tick, row, vars
<1>12. CASE AutoList \/ AutoMark \/ (\E n \in Nodes : Enforce(n)) \/ \E k \in Callers : SyncStep(k)
    BY <1>9, <1>12 DEF AutoList, AutoMark, Enforce, SyncStep, SyncNode, PushConfig, StoreSig,
                       ReadSig, row
<1> QED
    BY <1>1, <1>3, <1>4, <1>5, <1>6, <1>7, <1>8, <1>10, <1>11, <1>12
    DEF Next, HandlerStep, AutoStep

\* No traffic before the user is created.
LEMMA InitAddUp == Init => AddUpInv
<1> SUFFICES ASSUME Init PROVE AddUpInv
    OBVIOUS
<1>1. \A n \in Nodes : 1 .. breakdown[n] = {}
    BY DEF Init
<1>2. Recorded = {}
    BY <1>1, RecordedUnits
<1> QED
    BY <1>2, FS_EmptySet DEF Init, AddUpInv, BreakdownAddsUp

\* Whatever handlers, bot commands, resets, restarts and deletions of nodes run between the
\* transactions of AddTraffic and ResetUserTraffic, the rows of node_traffic add up to
\* data_used, and never to more once a node's rows have been deleted with it.
THEOREM BreakdownCorrect == Spec => []BreakdownAddsUp
<1>1. Spec => []AddUpInv
    BY InitAddUp, NextAddUp, TypeInvariant, PTL DEF Spec
<1>2. AddUpInv => BreakdownAddsUp
    BY DEF AddUpInv
<1> QED
    BY <1>1, <1>2, PTL
=============================================================================
