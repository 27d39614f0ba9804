---------------------------- MODULE StandaloneProofs ----------------------------
(* Theorems about Standalone, for every value of its constants. *)
EXTENDS Standalone, TLAPS

-----------------------------------------------------------------------------
(* The inductive invariants *)

\* No list of clients, whoever holds it, has two accounts of one name; the live path
\* has a baseline to start from.
ListsInv ==
    /\ \A c \in {file, saved} : c # NoConfig => Distinct(c)
    /\ \A p \in Procs :
          /\ Distinct(proc[p].db) /\ proc[p].db \subseteq used
          /\ Distinct(proc[p].conf)
          /\ proc[p].mem # NoConfig => Distinct(proc[p].mem)
          /\ At(p, "live") => proc[p].mem # NoConfig

TypeInv == TypeOK /\ ListsInv

\* What p writes to users.json, had the others' saves been atomic.
Atomic(p) == IF proc[p].op = "rm" THEN kept \ Named(proc[p].name, kept)
                                  ELSE kept \cup Named(proc[p].name, proc[p].db)

\* As long as no two commands saved at the same time, the one that does is about
\* to write what an atomic step would, and users.json is empty once truncated.
SaveInv == ~raced =>
    /\ \A p, q \in Procs : Saving(p) /\ Saving(q) => p = q
    /\ \A p \in Procs : Saving(p) => proc[p].db = Atomic(p)
    /\ \A p \in Procs : At(p, "write") => users = {}
    /\ (\A p \in Procs : ~At(p, "write")) => users = kept

\* Between applies a recorded baseline that matches config.json is what Xray runs.
\* When no apply has stopped halfway or lost its baseline it matches, and after a successful one
\* Xray runs the users of users.json.
RestInv ==
    /\ (\A p \in Procs : ~Applying(p)) =>
          /\ saved = file /\ saved # NoConfig /\ xray.up => xray.clients = saved
          /\ ~halfway => saved = file
    /\ fresh /\ (\A p \in Procs : At(p, "none") \/ At(p, "load")) =>
          xray.up /\ xray.clients = users /\ file = users

\* What an apply of p knows at each of its points.
ApplyInv(p) ==
    /\ proc[p].pc \in {"open", "config", "live", "restart", "record"} => proc[p].conf = users
    /\ ~At(p, "none") /\ ~Applying(p) => proc[p].mem = Seeded
    /\ Applying(p) =>
          /\ proc[p].mem # NoConfig => proc[p].mem = saved
          /\ ~halfway => proc[p].mem = saved
    /\ At(p, "config") =>
          /\ file = NoConfig
          /\ proc[p].mem # NoConfig /\ xray.up => xray.clients = proc[p].mem
    /\ proc[p].pc \in {"live", "restart", "record"} => file = proc[p].conf
    /\ At(p, "live") /\ xray.up => xray.clients \in {proc[p].mem, proc[p].conf}
    /\ At(p, "restart") /\ proc[p].mem = proc[p].conf /\ xray.up =>
          xray.clients = proc[p].conf
    /\ At(p, "record") => xray.up /\ xray.clients = proc[p].conf

Alone == \A p, q \in Procs : p # q => At(p, "none") \/ At(q, "none")

\* All of it holds unless, since Xray was restarted last, processes overlapped, or an
\* apply stopped halfway right after one that did or that lost its baseline.
AppliedInv == ~astray => Alone /\ RestInv /\ \A p \in Procs : ApplyInv(p)

-----------------------------------------------------------------------------
(* What the helpers return *)

State == [pc : {"none", "load", "truncate", "write", "reload", "open",
                "config", "live", "restart", "record"},
          op : {"add", "rm", "apply"}, name : Names \cup {NoConfig},
          db : SUBSET Accounts, conf : SUBSET Accounts, mem : Config]
Xray == {x \in [up : BOOLEAN, clients : SUBSET Accounts] : Distinct(x.clients)}

\* Spending leaves the budgets numbers.
LEMMA SpendType ==
    ASSUME spent \in [Kinds -> Nat], NEW K, SpendAll(K)
    PROVE  spent' \in [Kinds -> Nat]
BY DEF SpendAll, Kinds

\* A process that is gone, and the container's when it starts, are processes.
LEMMA GoneType ==
    ASSUME {file, saved} \subseteq Config
    PROVE  Gone \in State /\ Started \in State /\ Seeded \in Config
BY DEF Gone, Started, Seeded, State, Config

\* Fewer accounts of distinct names have distinct names.
LEMMA DistinctSub ==
    ASSUME NEW c, NEW d \in SUBSET c, Distinct(c)
    PROVE  Distinct(d)
BY DEF Distinct

\* Xray after a restart is an Xray.
LEMMA LoadedType ==
    ASSUME TypeInv
    PROVE  Loaded \in Xray
<1>1. xray \in Xray /\ file \in Config
    BY DEF TypeInv, TypeOK, Xray
<1>2. CASE file = NoConfig
    BY <1>1, <1>2 DEF Loaded, Xray
<1>3. CASE file # NoConfig
    <2>1. file \in SUBSET Accounts /\ Distinct(file)
        BY <1>1, <1>3 DEF Config, TypeInv, ListsInv
    <2> QED
        BY <2>1, <1>3 DEF Loaded, Xray
<1> QED
    BY <1>2, <1>3

\* So is what a live update that stops midway leaves ...
LEMMA PartlyType ==
    ASSUME TypeInv, NEW p \in Procs
    PROVE  Partly(p) \subseteq Xray
BY DEF Partly, Xray

\* ... and Xray after one that Xray accepted.
LEMMA LiveType ==
    ASSUME TypeInv, NEW p \in Procs, Live(p)
    PROVE  xray' \in Xray
<1> DEFINE stay == {a \in xray.clients : \A b \in Removed(p) : Name[a] # Name[b]}
<1>1. xray \in [up : BOOLEAN, clients : SUBSET Accounts] /\ Distinct(xray.clients)
    BY DEF TypeInv, TypeOK
<1>2. xray' = [up |-> xray.up, clients |-> stay \cup Added(p)]
    BY <1>1 DEF Live
<1>3. Added(p) \subseteq Accounts /\ Distinct(Added(p))
    BY DEF Added, TypeInv, TypeOK, ListsInv, Distinct
<1>4. \A a \in stay, b \in Added(p) : Name[a] # Name[b]
    BY DEF Live, Accepts
<1>5. Distinct(stay \cup Added(p))
    BY <1>1, <1>3, <1>4 DEF Distinct
<1> QED
    BY <1>1, <1>2, <1>3, <1>5 DEF Xray

-----------------------------------------------------------------------------
(* Type correctness *)

\* The initial state is well typed.
LEMMA InitType == Init => TypeInv
<1> SUFFICES ASSUME Init PROVE TypeInv
    OBVIOUS
<1>1. {file, saved} \subseteq Config
    BY DEF Init, Config
<1>2. proc \in [Procs -> State]
    BY <1>1, GoneType DEF Init, Gone, State
<1>3. TypeOK
    BY <1>2 DEF Init, TypeOK, State, Config, Distinct, Kinds
<1>4. ListsInv
    BY DEF Init, ListsInv, Gone, Distinct, At, Procs
<1> QED
    BY <1>3, <1>4 DEF TypeInv

\* A process that ends with an error.
LEMMA StopType ==
    ASSUME TypeInv, NEW p \in Procs, Stop(p), UNCHANGED <<users, file, saved, used, raced>>,
           spent' \in [Kinds -> Nat]
    PROVE  TypeInv'
<1>1. xray' \in Xray
    <2>1. xray \in Xray
        BY DEF TypeInv, TypeOK, Xray
    <2>2. Ended(p) \subseteq Procs
        BY DEF Ended
    <2>3. UNION {Partly(q) : q \in {r \in Ended(p) : At(r, "live")}} \subseteq Xray
        BY <2>2, PartlyType
    <2> QED
        BY <2>1, <2>3 DEF Stop, Leave
<1>2. proc \in [Procs -> State] /\ {file, saved} \subseteq Config
    BY DEF TypeInv, TypeOK, State
<1>3. \A q \in Procs : proc'[q] \in {proc[q], Started, Gone}
    BY DEF Stop
<1>4. proc' \in [Procs -> State]
    BY <1>2, <1>3, GoneType DEF Stop
<1>5. kept' \in SUBSET used /\ {booted', fresh', halfway', astray'} \subseteq BOOLEAN
    BY DEF Stop, Leave, TypeInv, TypeOK
<1>6. TypeOK'
    BY <1>1, <1>4, <1>5 DEF TypeInv, TypeOK, Xray, State, Config, Distinct
<1>7. ListsInv'
    <2>1. \A c \in {file, saved} : c # NoConfig => Distinct(c)
        BY DEF TypeInv, ListsInv
    <2>2. Seeded # NoConfig => Distinct(Seeded)
        BY <2>1 DEF Seeded
    <2> SUFFICES ASSUME NEW q \in Procs
                 PROVE  /\ Distinct(proc'[q].db) /\ proc'[q].db \subseteq used
                        /\ Distinct(proc'[q].conf)
                        /\ proc'[q].mem # NoConfig => Distinct(proc'[q].mem)
                        /\ proc'[q].pc = "live" => proc'[q].mem # NoConfig
        BY <2>1 DEF ListsInv, At, Distinct
    <2>3. CASE proc'[q] = proc[q]
        BY <2>3 DEF TypeInv, ListsInv, At
    <2>4. CASE proc'[q] = Gone
        BY <2>4 DEF Gone, Distinct
    <2>5. CASE proc'[q] = Started
        BY <2>5, <2>2 DEF Gone, Started, Distinct
    <2> QED
        BY <1>3, <2>3, <2>4, <2>5
<1> QED
    BY <1>6, <1>7 DEF TypeInv

\* One that changes only where it is, and not to the live path.
LEMMA GotoType ==
    ASSUME TypeInv, NEW p \in Procs, NEW pc, Goto(p, pc),
           pc \in {"load", "truncate", "write", "reload", "open", "config", "live", "restart", "record"},
           pc = "live" => proc[p].mem # NoConfig
    PROVE  /\ proc' \in [Procs -> State]
           /\ \A q \in Procs : /\ proc'[q].db = proc[q].db
                               /\ proc'[q].conf = proc[q].conf
                               /\ proc'[q].mem = proc[q].mem
                               /\ proc'[q].pc = "live" => proc'[q].mem # NoConfig
BY DEF Goto, TypeInv, TypeOK, ListsInv, State, At

\* One that ends.
LEMMA DoneType ==
    ASSUME TypeInv, NEW p \in Procs, proc' = [proc EXCEPT ![p] = Gone]
    PROVE  /\ proc' \in [Procs -> State]
           /\ \A q \in Procs : /\ Distinct(proc'[q].db) /\ proc'[q].db \subseteq used
                               /\ Distinct(proc'[q].conf)
                               /\ proc'[q].mem # NoConfig => Distinct(proc'[q].mem)
                               /\ proc'[q].pc = "live" => proc'[q].mem # NoConfig
<1>1. proc \in [Procs -> State] /\ Gone \in State
    BY GoneType DEF TypeInv, TypeOK, State
<1>2. Distinct(Gone.db) /\ Gone.db = {} /\ Distinct(Gone.conf) /\ Gone.mem = NoConfig /\ Gone.pc = "none"
    BY DEF Gone, Distinct
<1>3. \A q \in Procs : proc'[q] = IF q = p THEN Gone ELSE proc[q]
    BY <1>1
<1> QED
    BY <1>1, <1>2, <1>3 DEF TypeInv, ListsInv, At

\* Every step keeps TypeInv.
LEMMA NextType == TypeInv /\ [Next]_vars => TypeInv'
<1> SUFFICES ASSUME TypeInv, [Next]_vars
             PROVE  TypeInv'
    OBVIOUS
<1> DEFINE ProcsInv == \A q \in Procs : /\ Distinct(proc'[q].db) /\ proc'[q].db \subseteq used'
                                        /\ Distinct(proc'[q].conf)
                                        /\ proc'[q].mem # NoConfig => Distinct(proc'[q].mem)
                                        /\ proc'[q].pc = "live" => proc'[q].mem # NoConfig
<1>t. /\ users \in SUBSET Accounts /\ Distinct(users)
      /\ file \in Config /\ saved \in Config
      /\ xray \in Xray
      /\ proc \in [Procs -> State]
      /\ used \in SUBSET Accounts /\ users \subseteq used /\ kept \in SUBSET used
      /\ {booted, raced, fresh, halfway, astray} \subseteq BOOLEAN
      /\ spent \in [Kinds -> Nat]
    BY DEF TypeInv, TypeOK, State, Xray
<1>f. /\ file # NoConfig => Distinct(file)
      /\ saved # NoConfig => Distinct(saved)
    BY DEF TypeInv, ListsInv
<1>p. \A q \in Procs : /\ Distinct(proc[q].db) /\ proc[q].db \subseteq used
                       /\ Distinct(proc[q].conf)
                       /\ proc[q].mem # NoConfig => Distinct(proc[q].mem)
                       /\ proc[q].pc = "live" => proc[q].mem # NoConfig
    BY DEF TypeInv, ListsInv, At
<1>s. {file, saved} \subseteq Config
    BY <1>t
<1>c. Distinct(Seeded) \/ Seeded = NoConfig
    BY <1>f DEF Seeded
<1>e. Distinct({})
    BY DEF Distinct
\* Both halves of TypeInv', from what an action says of each variable.
<1>q. ASSUME users' \in SUBSET Accounts, Distinct(users'),
             file' \in Config, saved' \in Config,
             file' # NoConfig => Distinct(file'), saved' # NoConfig => Distinct(saved'),
             xray' \in Xray, proc' \in [Procs -> State], ProcsInv,
             used' \in SUBSET Accounts, users' \subseteq used', kept' \in SUBSET used',
             {booted', raced', fresh', halfway', astray'} \subseteq BOOLEAN,
             spent' \in [Kinds -> Nat]
      PROVE  TypeInv'
    <2>1. TypeOK'
        BY <1>q DEF TypeOK, State, Xray, Config, Distinct
    <2>2. ListsInv'
        BY <1>q DEF ListsInv, At, Distinct
    <2> QED
        BY <2>1, <2>2 DEF TypeInv
<1>1. ASSUME NEW p \in Procs, Start(p)
      PROVE  TypeInv'
    <2>1. PICK op \in {"add", "rm", "apply"}, n \in Names \cup {NoConfig}, pc \in {"reload", "load"} :
             proc' = [proc EXCEPT ![p] = [Gone EXCEPT !.op = op, !.name = n, !.mem = Seeded, !.pc = pc]]
        BY <1>1 DEF Start
    <2> DEFINE r == [Gone EXCEPT !.op = op, !.name = n, !.mem = Seeded, !.pc = pc]
    <2>2. r \in State /\ r.db = {} /\ r.conf = {} /\ r.mem = Seeded /\ r.pc # "live"
        BY <1>s, GoneType DEF Gone, State
    <2>3. \A q \in Procs : proc'[q] = IF q = p THEN r ELSE proc[q]
        BY <2>1, <1>t
    <2> HIDE DEF r
    <2>4. proc' \in [Procs -> State]
        BY <2>1, <2>2, <1>t DEF r
    <2>5. UNCHANGED <<users, file, saved, xray, booted, used, kept, raced, fresh, halfway>>
        BY <1>1 DEF Start
    <2>6. ProcsInv
        BY <2>2, <2>3, <2>5, <1>p, <1>c, <1>e
    <2>7. astray' \in BOOLEAN /\ spent' \in [Kinds -> Nat]
        BY <1>1, <1>t, SpendType DEF Start, AllRest
    <2> QED
        BY <2>4, <2>5, <2>6, <2>7, <1>t, <1>f, <1>q
<1>2. ASSUME NEW p \in Procs, Load(p)
      PROVE  TypeInv'
    <2>1. UNCHANGED <<users, file, saved, xray, booted, kept, fresh, halfway, astray, spent>>
          /\ raced' \in BOOLEAN
        BY <1>2, <1>t DEF Load
    <2>2. CASE proc' = [proc EXCEPT ![p] = Gone] /\ UNCHANGED used
        BY <2>1, <2>2, <1>t, <1>f, <1>q, DoneType
    <2>3. ASSUME NEW d \in SUBSET used', Distinct(d), used' \in SUBSET Accounts, used \subseteq used',
                 proc' = [proc EXCEPT ![p].db = d, ![p].pc = "truncate"]
          PROVE  TypeInv'
        <3> DEFINE r == [proc[p] EXCEPT !.db = d, !.pc = "truncate"]
        <3>r. r \in State /\ r.db = d /\ r.conf = proc[p].conf /\ r.mem = proc[p].mem /\ r.pc = "truncate"
            <4>1. d \in SUBSET Accounts
                BY <2>3
            <4> QED
                BY <4>1, <1>t DEF State
        <3>s. \A q \in Procs : proc'[q] = IF q = p THEN r ELSE proc[q]
            BY <2>3, <1>t DEF State
        <3> HIDE DEF r
        <3>1. proc' \in [Procs -> State]
            BY <2>3, <3>r, <3>s, <1>t
        <3>2. ProcsInv
            BY <2>3, <3>r, <3>s, <1>p
        <3> QED
            BY <3>1, <3>2, <2>1, <2>3, <1>t, <1>f, <1>q
    <2>4. ASSUME NEW a \in Named(proc[p].name, Accounts \ used), Mine(p) = {},
                 used' = used \cup {a},
                 proc' = [proc EXCEPT ![p].db = users \cup {a}, ![p].pc = "truncate"]
          PROVE  TypeInv'
        <3>1. Distinct(users \cup {a})
            BY <2>4, <1>t DEF Distinct, Mine, Named
        <3>2. users \cup {a} \subseteq used' /\ used' \subseteq Accounts
            BY <2>4, <1>t DEF Named
        <3> QED
            BY <2>3, <2>4, <3>1, <3>2
    <2>5. ASSUME proc' = [proc EXCEPT ![p].db = Without(p), ![p].pc = "truncate"], UNCHANGED used
          PROVE  TypeInv'
        <3>1. Without(p) \in SUBSET used' /\ Distinct(Without(p))
            BY <2>5, <1>t, DistinctSub DEF Without
        <3> QED
            BY <2>3, <2>5, <3>1, <1>t
    <2> QED
        BY <1>2, <2>2, <2>4, <2>5 DEF Load
<1>3. ASSUME NEW p \in Procs, Truncate(p)
      PROVE  TypeInv'
    BY <1>3, <1>t, <1>f, <1>p, <1>e, <1>q, GotoType DEF Truncate
<1>4. ASSUME NEW p \in Procs, Write(p)
      PROVE  TypeInv'
    <2>1. users' \in SUBSET Accounts /\ Distinct(users') /\ users' \subseteq used'
        BY <1>4, <1>t, <1>p DEF Write
    <2>2. kept' \in SUBSET used'
        BY <1>4, <1>t, <1>p DEF Write, Named
    <2> QED
        BY <1>4, <2>1, <2>2, <1>t, <1>f, <1>p, <1>q, GotoType DEF Write
<1>5. ASSUME NEW p \in Procs, Reload(p)
      PROVE  TypeInv'
    <2> DEFINE r == [proc[p] EXCEPT !.conf = users, !.pc = "open"]
    <2>r. r \in State /\ r.db = proc[p].db /\ r.conf = users /\ r.mem = proc[p].mem /\ r.pc = "open"
        BY <1>t DEF State
    <2>s. \A q \in Procs : proc'[q] = IF q = p THEN r ELSE proc[q]
        BY <1>5, <1>t DEF Reload, State
    <2> HIDE DEF r
    <2>1. proc' \in [Procs -> State]
        BY <1>5, <2>r, <2>s, <1>t DEF Reload
    <2>2. ProcsInv
        BY <1>5, <2>r, <2>s, <1>t, <1>p DEF Reload
    <2> QED
        BY <1>5, <2>1, <2>2, <1>t, <1>f, <1>q DEF Reload
<1>6. ASSUME NEW p \in Procs, OpenConfig(p)
      PROVE  TypeInv'
    BY <1>6, <1>t, <1>f, <1>p, <1>q, GotoType DEF OpenConfig, Config
<1>7. ASSUME NEW p \in Procs, WriteConfig(p)
      PROVE  TypeInv'
    <2>1. file' \in Config /\ Distinct(file')
        BY <1>7, <1>t, <1>p DEF WriteConfig, State, Config
    <2> QED
        BY <1>7, <2>1, <1>t, <1>f, <1>p, <1>q, GotoType DEF WriteConfig
<1>8. ASSUME NEW p \in Procs, Live(p)
      PROVE  TypeInv'
    <2>1. xray' \in Xray
        BY <1>8, LiveType
    <2> QED
        BY <1>8, <2>1, <1>t, <1>f, <1>p, <1>q, GotoType DEF Live
<1>9. ASSUME NEW p \in Procs, LiveFails(p)
      PROVE  TypeInv'
    <2>1. xray' \in Xray
        BY <1>9, <1>t, PartlyType DEF LiveFails
    <2>2. spent' \in [Kinds -> Nat]
        BY <1>9, <1>t, SpendType DEF LiveFails, Spend
    <2> QED
        BY <1>9, <2>1, <2>2, <1>t, <1>f, <1>p, <1>q, GotoType DEF LiveFails
<1>10. ASSUME NEW p \in Procs, Restart(p)
       PROVE  TypeInv'
    <2>1. CASE xray' = Loaded /\ Goto(p, "record") /\ UNCHANGED <<booted, kept, fresh, halfway, astray, spent>>
        BY <1>10, <2>1, <1>t, <1>f, <1>p, <1>q, GotoType, LoadedType DEF Restart
    <2>2. CASE Spend("docker") /\ Stop(p)
        BY <1>10, <2>2, <1>t, SpendType, StopType DEF Restart, Spend
    <2> QED
        BY <1>10, <2>1, <2>2 DEF Restart
<1>11. ASSUME NEW p \in Procs, Record(p)
      PROVE  TypeInv'
    <2>1. proc[p].conf \in SUBSET Accounts /\ Distinct(proc[p].conf)
        BY <1>t, <1>p DEF State
    <2>2. /\ saved' \in Config /\ (saved' # NoConfig => Distinct(saved'))
          /\ halfway' \in BOOLEAN
        BY <1>11, <2>1, <1>t, <1>f DEF Record, Config
    <2>3. spent' \in [Kinds -> Nat]
        BY <1>11, <1>t, SpendType DEF Record, Spend
    <2>4. /\ UNCHANGED <<users, file, xray, used, kept, raced, astray>> /\ fresh' = TRUE
          /\ proc' = [proc EXCEPT ![p] = Gone] /\ booted' = (booted \/ p = Boot)
        BY <1>11 DEF Record, Done
    <2>5. proc' \in [Procs -> State] /\ ProcsInv
        BY <2>4, <1>t, DoneType
    <2>6. {booted', fresh', halfway'} \subseteq BOOLEAN
        BY <2>2, <2>4, <1>t
    <2> QED
        BY <2>2, <2>3, <2>4, <2>5, <2>6, <1>t, <1>f, <1>q
<1>12. ASSUME NEW p \in Procs, Kill(p)
       PROVE  TypeInv'
    BY <1>12, <1>t, SpendType, StopType DEF Kill, Spend
<1>13. CASE XrayRestart
    <2>1. {fresh', halfway', astray'} \subseteq BOOLEAN /\ spent' \in [Kinds -> Nat]
        BY <1>13, <1>t, SpendType DEF XrayRestart, Spend, AllRest
    <2> QED
        BY <1>13, <2>1, <1>t, <1>f, <1>p, <1>q, LoadedType DEF XrayRestart
<1>14. CASE XrayRetry
    BY <1>14, <1>t, <1>f, <1>p, <1>q, LoadedType DEF XrayRetry
<1>15. CASE UNCHANGED vars
    BY <1>15, <1>t, <1>f, <1>p, <1>q DEF vars
<1> QED
    BY <1>1, <1>2, <1>3, <1>4, <1>5, <1>6, <1>7, <1>8, <1>9, <1>10, <1>11, <1>12,
       <1>13, <1>14, <1>15 DEF Next, ProcStep

\* TypeInv holds in every reachable state.
LEMMA TypeInvariant == Spec => []TypeInv
<1> QED
    BY InitType, NextType, PTL DEF Spec

\* The processes, the files and Xray are what the code keeps, and the client lists
\* Xray is ever given have one account a name.
THEOREM TypeCorrect == Spec => []TypeOK
<1>1. TypeInv => TypeOK
    BY DEF TypeInv
<1> QED
    BY <1>1, TypeInvariant, PTL

-----------------------------------------------------------------------------
(* No update is lost *)

\* A step that leaves the files of the saving commands, and these, alone.
LEMMA SaveSteady ==
    ASSUME SaveInv, UNCHANGED <<users, kept>>, raced' = raced,
           \A q \in Procs : Saving(q) \/ proc'[q].pc \in {"truncate", "write"} => proc'[q] = proc[q]
    PROVE  SaveInv'
<1> SUFFICES ASSUME ~raced'
             PROVE  SaveInv'
    BY DEF SaveInv
<1>1. \A q \in Procs : Saving(q)' <=> Saving(q)
    BY DEF Saving, At
<1>2. \A q \in Procs : At(q, "write")' <=> At(q, "write")
    BY DEF Saving, At
<1>3. \A q \in Procs : Saving(q) => proc'[q].db = proc[q].db /\ Atomic(q)' = Atomic(q)
    BY DEF Atomic, Named
<1> QED
    BY <1>1, <1>2, <1>3 DEF SaveInv

\* One that changes a single process, outside of its save.
LEMMA SaveOther ==
    ASSUME TypeInv, SaveInv, NEW p \in Procs, UNCHANGED <<users, kept, raced>>, ~Saving(p),
           \A q \in Procs \ {p} : proc'[q] = proc[q],
           proc'[p].pc \notin {"truncate", "write"}
    PROVE  SaveInv'
BY SaveSteady

\* One that makes a command dead.
LEMMA SaveStop ==
    ASSUME TypeInv, SaveInv, NEW p \in Procs, Stop(p), UNCHANGED <<users, raced>>
    PROVE  SaveInv'
<1> SUFFICES ASSUME ~raced
             PROVE  SaveInv'
    BY DEF SaveInv
<1>1. \A q \in Procs : proc'[q] = IF q \notin Ended(p) THEN proc[q] ELSE IF q = Boot THEN Started ELSE Gone
    BY DEF Stop
<1>g. Gone.pc = "none" /\ Started.pc = "reload"
    BY DEF Gone, Started
<1>2. \A q \in Procs : Saving(q)' => q \notin Ended(p) /\ Saving(q)
    BY <1>1, <1>g DEF Saving, At
<1>3. CASE \E q \in Ended(p) : At(q, "write")
    <2>1. PICK w \in Procs : w \in Ended(p) /\ At(w, "write")
        BY <1>3 DEF Ended
    <2>2. users = {} /\ kept' = {}
        BY <2>1 DEF Stop, Leave, SaveInv
    <2>3. \A q \in Procs : ~Saving(q)'
        BY <1>2, <2>1 DEF SaveInv, Saving
    <2> QED
        BY <2>2, <2>3 DEF SaveInv, Saving
<1>4. CASE ~\E q \in Ended(p) : At(q, "write")
    <2>1. kept' = kept
        BY <1>4 DEF Stop, Leave
    <2>2. \A q \in Procs : Saving(q)' => proc'[q] = proc[q] /\ Atomic(q)' = Atomic(q)
        BY <1>1, <1>2, <2>1 DEF Atomic, Named
    <2>3. \A q \in Procs : At(q, "write") => At(q, "write")'
        BY <1>1, <1>4 DEF At
    <2>4. \A q \in Procs : At(q, "write")' => At(q, "write")
        BY <1>2, <2>2 DEF At, Saving
    <2> QED
        BY <1>2, <2>1, <2>2, <2>3, <2>4 DEF SaveInv
<1> QED
    BY <1>3, <1>4

\* Every step keeps SaveInv.
LEMMA NextSave == TypeInv /\ SaveInv /\ [Next]_vars => SaveInv'
<1> SUFFICES ASSUME TypeInv, SaveInv, [Next]_vars
             PROVE  SaveInv'
    OBVIOUS
<1>t. proc \in [Procs -> State] /\ users \in SUBSET Accounts
    BY DEF TypeInv, TypeOK, State
<1>1. ASSUME NEW p \in Procs, Start(p)
      PROVE  SaveInv'
    BY <1>1, <1>t, SaveOther DEF Start, Gone, State, Saving, At
<1>2. ASSUME NEW p \in Procs, Load(p)
      PROVE  SaveInv'
    <2>1. CASE proc' = [proc EXCEPT ![p] = Gone]
        <3> SUFFICES ASSUME ~raced'
                     PROVE  SaveInv'
            BY DEF SaveInv
        <3>1. UNCHANGED <<users, kept>> /\ ~raced /\ ~Saving(p)
            BY <1>2 DEF Load, Saving, At
        <3>b. raced \in BOOLEAN /\ raced' \in BOOLEAN
            BY <1>2 DEF Load, TypeInv, TypeOK
        <3>2. UNCHANGED raced
            BY <3>1, <3>b
        <3>3. Gone.pc = "none"
            BY DEF Gone
        <3>4. proc'[p].pc = "none" /\ \A q \in Procs \ {p} : proc'[q] = proc[q]
            BY <2>1, <3>3, <1>t
        <3> QED
            BY <3>1, <3>2, <3>4, SaveOther
    <2>2. ASSUME NEW d, proc' = [proc EXCEPT ![p].db = d, ![p].pc = "truncate"],
                 ~raced => (users = kept => d = IF proc[p].op = "rm" THEN kept \ Named(proc[p].name, kept)
                                                ELSE kept \cup Named(proc[p].name, d))
          PROVE  SaveInv'
        <3> SUFFICES ASSUME ~raced'
                     PROVE  SaveInv'
            BY DEF SaveInv
        <3>1. ~raced /\ (\A q \in Procs \ {p} : ~Saving(q)) /\ UNCHANGED <<users, kept>> /\ At(p, "load")
            BY <1>2 DEF Load
        <3>2. \A q \in Procs : ~At(q, "write")
            BY <3>1 DEF Saving, At
        <3>3. users = kept
            BY <3>1, <3>2 DEF SaveInv
        <3>4. /\ proc'[p].db = d /\ proc'[p].op = proc[p].op /\ proc'[p].name = proc[p].name
              /\ proc'[p].pc = "truncate"
              /\ \A q \in Procs \ {p} : proc'[q] = proc[q]
            BY <2>2, <1>t DEF State
        <3>5. \A q \in Procs : Saving(q)' => q = p
            BY <3>1, <3>4 DEF Saving, At
        <3>6. proc'[p].db = Atomic(p)'
            BY <2>2, <3>1, <3>3, <3>4 DEF Atomic, Named
        <3> QED
            BY <3>1, <3>2, <3>3, <3>4, <3>5, <3>6 DEF SaveInv, Saving, At
    <2>3. ASSUME proc[p].op = "add", NEW a \in Named(proc[p].name, Accounts \ used), Mine(p) = {},
                 proc' = [proc EXCEPT ![p].db = users \cup {a}, ![p].pc = "truncate"]
          PROVE  SaveInv'
        <3>1. Named(proc[p].name, users \cup {a}) = {a}
            BY <2>3 DEF Named, Mine
        <3> QED
            BY <2>2, <2>3, <3>1
    <2>4. ASSUME proc[p].op = "rm", proc' = [proc EXCEPT ![p].db = Without(p), ![p].pc = "truncate"]
          PROVE  SaveInv'
        BY <2>2, <2>4 DEF Without, Mine
    <2> QED
        BY <1>2, <2>1, <2>3, <2>4 DEF Load
<1>3. ASSUME NEW p \in Procs, Truncate(p)
      PROVE  SaveInv'
    <2> SUFFICES ASSUME ~raced
                 PROVE  SaveInv'
        BY <1>3 DEF SaveInv, Truncate
    <2>1. Saving(p) /\ At(p, "truncate") /\ users' = {} /\ UNCHANGED <<kept, raced>>
        BY <1>3 DEF Truncate, Saving
    <2>2. /\ proc'[p].pc = "write" /\ proc'[p].db = proc[p].db
          /\ proc'[p].op = proc[p].op /\ proc'[p].name = proc[p].name
          /\ \A q \in Procs \ {p} : proc'[q] = proc[q]
        BY <1>3, <1>t DEF Truncate, Goto, State
    <2>3. \A q \in Procs : Saving(q)' => q = p
        BY <2>1, <2>2 DEF SaveInv, Saving, At
    <2>4. Atomic(p)' = Atomic(p)
        BY <2>1, <2>2 DEF Atomic, Named
    <2> QED
        BY <2>1, <2>2, <2>3, <2>4 DEF SaveInv, At
<1>4. ASSUME NEW p \in Procs, Write(p)
      PROVE  SaveInv'
    <2> SUFFICES ASSUME ~raced
                 PROVE  SaveInv'
        BY <1>4 DEF SaveInv, Write
    <2>1. Saving(p) /\ users' = proc[p].db /\ kept' = Atomic(p) /\ UNCHANGED raced
        BY <1>4 DEF Write, Saving, Atomic
    <2>2. users' = kept'
        BY <2>1 DEF SaveInv
    <2>3. proc'[p].pc = "reload" /\ \A q \in Procs \ {p} : proc'[q] = proc[q]
        BY <1>4, <1>t DEF Write, Goto, State
    <2>4. \A q \in Procs : ~Saving(q)'
        BY <2>1, <2>3 DEF SaveInv, Saving, At
    <2> QED
        BY <2>1, <2>2, <2>4 DEF SaveInv, Saving
<1>5. ASSUME NEW p \in Procs, Reload(p) \/ OpenConfig(p) \/ WriteConfig(p) \/ Live(p) \/ LiveFails(p)
      PROVE  SaveInv'
    <2>1. /\ UNCHANGED <<users, kept, raced>> /\ ~Saving(p)
          /\ \A q \in Procs \ {p} : proc'[q] = proc[q]
          /\ proc'[p].pc \notin {"truncate", "write"}
        BY <1>5, <1>t DEF Reload, OpenConfig, WriteConfig, Live, LiveFails, Goto, Saving, At, State
    <2> QED
        BY <2>1, SaveOther
<1>6. ASSUME NEW p \in Procs, Restart(p)
      PROVE  SaveInv'
    <2>1. CASE Goto(p, "record") /\ UNCHANGED kept
        BY <1>6, <2>1, <1>t, SaveOther DEF Restart, Goto, Saving, At, State
    <2>2. CASE Stop(p)
        BY <1>6, <2>2, SaveStop DEF Restart
    <2> QED
        BY <1>6, <2>1, <2>2 DEF Restart
<1>7. ASSUME NEW p \in Procs, Record(p)
      PROVE  SaveInv'
    BY <1>7, <1>t, SaveOther DEF Record, Done, Saving, At, Gone
<1>8. ASSUME NEW p \in Procs, Kill(p)
      PROVE  SaveInv'
    BY <1>8, SaveStop DEF Kill
<1>9. CASE XrayRestart \/ XrayRetry \/ UNCHANGED vars
    BY <1>9, SaveSteady DEF XrayRestart, XrayRetry, vars
<1> QED
    BY <1>1, <1>2, <1>3, <1>4, <1>5, <1>6, <1>7, <1>8, <1>9 DEF Next, ProcStep

\* Commands that change users.json lose nothing to the applies that overlap them.
THEOREM NoLostUpdateCorrect == Spec => []NoLostUpdate
<1>1. Init => SaveInv
    BY DEF Init, SaveInv, Saving, At, Gone
<1>2. SaveInv => NoLostUpdate
    BY DEF SaveInv, NoLostUpdate
<1> QED
    BY <1>1, <1>2, NextSave, TypeInvariant, PTL DEF Spec

-----------------------------------------------------------------------------
(* What Xray runs *)

\* With nobody else running, only the process that moved matters.
LEMMA OneProcess ==
    ASSUME NEW p \in Procs, \A q \in Procs \ {p} : At(q, "none")', RestInv', ApplyInv(p)'
    PROVE  AppliedInv'
<1>1. Alone'
    BY DEF Alone
<1>2. \A q \in Procs \ {p} : ApplyInv(q)'
    BY DEF ApplyInv, At, Applying
<1> QED
    BY <1>1, <1>2 DEF AppliedInv

\* A live update that Xray accepts takes it from the baseline, or from a restart
\* with the new config.json, to the new clients.
LEMMA LiveResult ==
    ASSUME TypeInv, NEW p \in Procs, Live(p), ApplyInv(p)
    PROVE  xray'.up /\ xray'.clients = proc[p].conf
<1> DEFINE m == proc[p].mem
           n == proc[p].conf
           c == xray.clients
           res == {a \in c : \A b \in m \ n : Name[a] # Name[b]} \cup (n \ m)
<1>1. xray \in [up : BOOLEAN, clients : SUBSET Accounts] /\ xray.up
    BY DEF TypeInv, TypeOK, Live, Accepts
<1>2. xray'.up /\ xray'.clients = res
    BY <1>1 DEF Live, Added, Removed
<1>3. c = m \/ c = n
    BY <1>1 DEF ApplyInv, Live
<1>4. m # NoConfig /\ Distinct(m)
    BY DEF Live, TypeInv, ListsInv
<1>5. \A a \in m \cap n, b \in m \ n : Name[a] # Name[b]
    BY <1>4 DEF Distinct
<1> HIDE DEF m, n, c
<1>6. res = n
    BY <1>3, <1>5
<1> QED
    BY <1>2, <1>6 DEF n

\* One that stops midway changes nothing when there was nothing to change.
LEMMA PartlyNothing ==
    ASSUME TypeInv, NEW p \in Procs, proc[p].mem = proc[p].conf
    PROVE  \A x \in Partly(p) : x = xray
<1> SUFFICES ASSUME NEW x \in Partly(p)
             PROVE  x = xray
    OBVIOUS
<1>1. x \in [up : {TRUE}, clients : SUBSET Accounts] /\ xray \in [up : BOOLEAN, clients : SUBSET Accounts]
    BY DEF Partly, TypeInv, TypeOK
<1>2. xray.up /\ x.clients = xray.clients
    BY DEF Partly, Removed, Added
<1>3. x.up = TRUE /\ xray.up = TRUE
    BY <1>1, <1>2
<1>4. x = [up |-> x.up, clients |-> x.clients] /\ xray = [up |-> xray.up, clients |-> xray.clients]
    BY <1>1
<1> QED
    BY <1>2, <1>3, <1>4

\* A process that ends with an error, the first in a row to do so in mid-apply.
LEMMA StopApplied ==
    ASSUME TypeInv, AppliedInv, NEW p \in Procs, Stop(p), UNCHANGED <<users, file, saved>>,
           p = Boot \/ ~At(p, "none")
    PROVE  AppliedInv'
<1> SUFFICES ASSUME ~astray'
             PROVE  AppliedInv'
    BY DEF AppliedInv
<1>1. ~astray /\ Alone /\ RestInv /\ \A q \in Procs : ApplyInv(q)
    BY DEF AppliedInv, Stop, Leave
<1>2. Seeded' = Seeded /\ ~fresh'
    BY DEF Seeded, Stop, Leave
<1>g. Gone.pc = "none" /\ Started.pc = "reload" /\ Started.mem = Seeded
    BY DEF Gone, Started
<1>3. \A q \in Procs : proc'[q] = IF q \notin Ended(p) THEN proc[q] ELSE IF q = Boot THEN Started ELSE Gone
    BY DEF Stop
<1>4. \A q \in Procs : At(q, "none") \/ q \in Ended(p)
    BY <1>1 DEF Alone, Ended, At
<1>5. \A q \in Procs : At(q, "none")' \/ (p = Boot /\ q = Boot /\ proc'[q] = Started)
    BY <1>3, <1>4, <1>g DEF At, Ended
<1>6. \A q \in Procs : ApplyInv(q)'
    <2> SUFFICES ASSUME NEW q \in Procs
                 PROVE  ApplyInv(q)'
        OBVIOUS
    <2>1. CASE At(q, "none")'
        BY <2>1 DEF ApplyInv, At, Applying
    <2>2. CASE proc'[q] = Started
        BY <2>2, <1>2, <1>g DEF ApplyInv, At, Applying
    <2> QED
        BY <1>5, <2>1, <2>2
<1>7. Alone'
    BY <1>5 DEF Alone
<1>8. CASE \A q \in Procs : ~Applying(q)
    <2>1. \A q \in Procs : ~At(q, "live")
        BY <1>8 DEF Applying, At
    <2>2. Ended(p) \subseteq Procs
        BY DEF Ended
    <2>3. {r \in Ended(p) : At(r, "live")} = {}
        BY <2>1, <2>2
    <2>4. xray' \in {xray} \cup UNION {Partly(q) : q \in {}}
        BY <2>3 DEF Stop, Leave
    <2>5. xray' = xray
        BY <2>4
    <2>6. halfway' <=> halfway
        BY <1>8, <2>2 DEF Stop, Leave
    <2>7. RestInv'
        BY <1>1, <1>2, <1>8, <2>5, <2>6 DEF RestInv
    <2> QED
        BY <1>6, <1>7, <2>7 DEF AppliedInv
<1>9. ASSUME NEW q \in Procs, Applying(q)
      PROVE  AppliedInv'
    <2>1. q \in Ended(p) /\ \A r \in Ended(p) : Applying(r) => r = q
        BY <1>1, <1>4, <1>9 DEF Applying, At, Alone, Ended
    <2>2. ~halfway /\ halfway'
        BY <1>9, <2>1 DEF Stop, Leave
    <2>3. proc[q].mem = saved
        BY <1>1, <1>9, <2>2 DEF ApplyInv
    <2>4. saved = file /\ saved # NoConfig /\ xray'.up => xray'.clients = saved
        <3> SUFFICES ASSUME saved = file, saved # NoConfig, xray'.up
                     PROVE  xray'.clients = saved
            OBVIOUS
        <3>1. ~At(q, "config")
            BY <1>1 DEF ApplyInv
        <3>2. file = proc[q].conf
            BY <1>1, <1>9, <3>1 DEF ApplyInv, Applying, At
        <3>3. proc[q].mem = proc[q].conf
            BY <2>3, <3>2
        <3>4. xray' = xray
            <4>1. {r \in Ended(p) : At(r, "live")} \subseteq {q}
                BY <2>1 DEF Applying, At
            <4>2. xray' = xray \/ xray' \in Partly(q)
                BY <4>1 DEF Stop, Leave
            <4> QED
                BY <4>2, <3>3, PartlyNothing
        <3> QED
            BY <1>1, <1>9, <3>1, <3>2, <3>3, <3>4 DEF ApplyInv, Applying, At
    <2>5. RestInv'
        BY <1>2, <2>2, <2>4 DEF RestInv
    <2> QED
        BY <1>6, <1>7, <2>5 DEF AppliedInv
<1> QED
    BY <1>8, <1>9

\* Xray restarting by itself, for whatever reason, lands on config.json.
LEMMA ReloadApplied ==
    ASSUME TypeInv, RestInv, \A q \in Procs : ApplyInv(q), xray' = Loaded,
           UNCHANGED <<users, file, saved, proc, halfway, fresh>>, NEW q \in Procs
    PROVE  RestInv' /\ ApplyInv(q)'
<1>1. xray'.up => file # NoConfig /\ xray'.clients = file
    BY DEF Loaded
<1>2. file # NoConfig => xray'.up
    BY DEF Loaded
<1>3. users # NoConfig
    BY StandaloneAssumption DEF TypeInv, TypeOK
<1>4. RestInv'
    BY <1>1, <1>2, <1>3 DEF RestInv, Applying, At
<1>5. proc[q].conf # NoConfig
    BY StandaloneAssumption DEF TypeInv, TypeOK
<1>6. ApplyInv(q)'
    BY <1>1, <1>2, <1>5 DEF ApplyInv, Applying, At, Seeded
<1> QED
    BY <1>4, <1>6

\* Every step keeps AppliedInv.
LEMMA NextApplied == TypeInv /\ AppliedInv /\ [Next]_vars => AppliedInv'
<1> SUFFICES ASSUME TypeInv, AppliedInv, [Next]_vars, ~astray'
             PROVE  AppliedInv'
    BY DEF AppliedInv
<1>t. /\ proc \in [Procs -> State] /\ users \in SUBSET Accounts
      /\ \A q \in Procs : proc[q].conf # NoConfig
    BY StandaloneAssumption DEF TypeInv, TypeOK, State
<1>g. Gone.pc = "none"
    BY DEF Gone
\* A step of a running process: nobody else runs.
<1>s. ASSUME NEW p \in Procs, ~At(p, "none"), ~astray
      PROVE  /\ \A q \in Procs \ {p} : At(q, "none")
             /\ ApplyInv(p) /\ RestInv
             /\ \A q \in Procs \ {p} : ~Applying(q)
    BY <1>s DEF AppliedInv, Alone, At, Applying
<1>1. ASSUME NEW p \in Procs, Start(p)
      PROVE  AppliedInv'
    <2>1. ~astray /\ AllRest /\ RestInv
        BY <1>1 DEF Start, AppliedInv
    <2>2. PICK op \in {"add", "rm", "apply"}, n \in Names \cup {NoConfig}, pc \in {"reload", "load"} :
             proc' = [proc EXCEPT ![p] = [Gone EXCEPT !.op = op, !.name = n, !.mem = Seeded, !.pc = pc]]
        BY <1>1 DEF Start
    <2>3. /\ proc'[p].mem = Seeded /\ proc'[p].pc \in {"reload", "load"}
          /\ \A q \in Procs \ {p} : proc'[q] = proc[q]
        BY <2>2, <1>t DEF Gone
    <2>4. UNCHANGED <<users, file, saved, xray, fresh, halfway>> /\ Seeded' = Seeded
        BY <1>1 DEF Start, Seeded
    <2>5. \A q \in Procs : ~Applying(q)
        BY <2>1 DEF AllRest, Applying, At
    <2>6. RestInv'
        BY <2>1, <2>3, <2>4, <2>5 DEF RestInv, AllRest, Applying, At
    <2>7. ApplyInv(p)'
        BY <2>3, <2>4 DEF ApplyInv, Applying, At
    <2> QED
        BY <2>1, <2>3, <2>6, <2>7, OneProcess DEF AllRest, At
<1>2. ASSUME NEW p \in Procs, Load(p)
      PROVE  AppliedInv'
    <2>1. ~astray /\ At(p, "load") /\ ~At(p, "none")
          /\ UNCHANGED <<users, file, saved, xray, fresh, halfway>> /\ Seeded' = Seeded
        BY <1>2 DEF Load, Seeded, At
    <2>2. /\ \A q \in Procs \ {p} : At(q, "none") /\ ~Applying(q)
          /\ ApplyInv(p) /\ RestInv
        BY <2>1, <1>s
    <2>3. /\ \A q \in Procs \ {p} : proc'[q] = proc[q]
          /\ \/ proc'[p].pc = "none"
             \/ proc'[p].pc = "truncate" /\ proc'[p].mem = proc[p].mem
        <3>1. \/ \E D \in {users \cup {a} : a \in Accounts} \cup {Without(p)} :
                    proc' = [proc EXCEPT ![p].db = D, ![p].pc = "truncate"]
              \/ proc' = [proc EXCEPT ![p] = Gone]
            BY <1>2 DEF Load, Named
        <3>2. ASSUME NEW D, proc' = [proc EXCEPT ![p].db = D, ![p].pc = "truncate"]
              PROVE  /\ \A q \in Procs \ {p} : proc'[q] = proc[q]
                     /\ proc'[p].pc = "truncate" /\ proc'[p].mem = proc[p].mem
            BY <1>t, <3>2 DEF State
        <3>3. CASE proc' = [proc EXCEPT ![p] = Gone]
            BY <1>t, <1>g, <3>3
        <3> QED
            BY <3>1, <3>2, <3>3
    <2>4. ApplyInv(p)'
        BY <2>1, <2>2, <2>3 DEF ApplyInv, Applying, At
    <2>5. (\A q \in Procs : ~Applying(q)) /\ \A q \in Procs : At(q, "none") \/ At(q, "load")
        BY <2>1, <2>2 DEF Applying, At
    <2>6. RestInv'
        BY <2>1, <2>2, <2>5 DEF RestInv
    <2> QED
        BY <2>2, <2>3, <2>4, <2>6, OneProcess DEF At
<1>3. ASSUME NEW p \in Procs, Truncate(p) \/ Write(p) \/ Reload(p)
      PROVE  AppliedInv'
    <2>1. /\ ~astray /\ ~At(p, "none") /\ ~Applying(p)
          /\ UNCHANGED <<file, saved, xray, fresh, halfway>> /\ Seeded' = Seeded
        BY <1>3 DEF Truncate, Write, Reload, Seeded, At, Applying
    <2>2. /\ \A q \in Procs \ {p} : At(q, "none") /\ ~Applying(q)
          /\ ApplyInv(p) /\ RestInv
        BY <2>1, <1>s
    <2>3. /\ \A q \in Procs \ {p} : proc'[q] = proc[q]
          /\ proc'[p].pc \in {"write", "reload", "open"} /\ proc'[p].mem = proc[p].mem
          /\ proc'[p].pc = "open" => proc'[p].conf = users /\ users' = users
        BY <1>3, <1>t DEF Truncate, Write, Reload, Goto, State
    <2>4. ApplyInv(p)'
        BY <2>1, <2>2, <2>3 DEF ApplyInv, Applying, At
    <2>5. \A q \in Procs : ~Applying(q)
        BY <2>1, <2>2
    <2>6. ~(At(p, "none") \/ At(p, "load"))'
        BY <2>3 DEF At
    <2>7. RestInv'
        BY <2>1, <2>2, <2>5, <2>6 DEF RestInv
    <2> QED
        BY <2>2, <2>3, <2>4, <2>7, OneProcess DEF At
<1>4. ASSUME NEW p \in Procs, OpenConfig(p) \/ WriteConfig(p) \/ Live(p) \/ LiveFails(p)
                              \/ (Restart(p) /\ ~Stop(p))
      PROVE  AppliedInv'
    <2>1. ~astray /\ ~At(p, "none") /\ UNCHANGED <<users, saved, halfway>>
        BY <1>4 DEF OpenConfig, WriteConfig, Live, LiveFails, Restart, At
    <2>2. /\ \A q \in Procs \ {p} : At(q, "none") /\ ~Applying(q)
          /\ ApplyInv(p) /\ RestInv
        BY <2>1, <1>s
    <2>3. /\ \A q \in Procs \ {p} : proc'[q] = proc[q]
          /\ proc'[p].pc \in {"config", "live", "restart", "record"}
          /\ proc'[p].mem = proc[p].mem /\ proc'[p].conf = proc[p].conf
        BY <1>4, <1>t DEF OpenConfig, WriteConfig, Live, LiveFails, Restart, Goto, State
    <2>4. RestInv'
        BY <2>3 DEF RestInv, Applying, At
    <2>5. ASSUME OpenConfig(p)
          PROVE  ApplyInv(p)'
        <3>1. /\ At(p, "open") /\ file' = NoConfig /\ proc'[p].pc = "config" /\ UNCHANGED xray
              /\ ~Applying(p)
            BY <2>5, <1>t DEF OpenConfig, Goto, State, At, Applying
        <3>2. proc[p].mem = Seeded /\ proc[p].conf = users
            BY <2>2, <3>1, <2>1 DEF ApplyInv, At
        <3>3. \A q \in Procs : ~Applying(q)
            BY <2>2, <3>1
        <3>4. /\ ~halfway => proc[p].mem = saved
              /\ proc[p].mem # NoConfig => proc[p].mem = saved /\ saved = file
            BY <2>2, <3>2, <3>3 DEF RestInv, Seeded
        <3>5. proc[p].mem # NoConfig /\ xray.up => xray.clients = proc[p].mem
            BY <2>2, <3>3, <3>4 DEF RestInv
        <3> QED
            BY <2>1, <2>3, <3>1, <3>2, <3>4, <3>5 DEF ApplyInv, Applying, At
    <2>6. ASSUME WriteConfig(p)
          PROVE  ApplyInv(p)'
        <3>1. /\ At(p, "config") /\ file' = proc[p].conf /\ UNCHANGED xray
              /\ proc'[p].pc = IF proc[p].mem = NoConfig THEN "restart" ELSE "live"
            BY <2>6, <1>t DEF WriteConfig, Goto, State
        <3> QED
            BY <1>t, <2>1, <2>2, <2>3, <3>1 DEF ApplyInv, Applying, At
    <2>7. ASSUME Live(p)
          PROVE  ApplyInv(p)'
        <3>1. At(p, "live") /\ proc'[p].pc = "record" /\ UNCHANGED file
            BY <2>7, <1>t DEF Live, Goto, State
        <3>2. xray'.up /\ xray'.clients = proc[p].conf
            BY <2>2, <2>7, LiveResult
        <3> QED
            BY <2>1, <2>2, <2>3, <3>1, <3>2 DEF ApplyInv, Applying, At
    <2>8. ASSUME LiveFails(p)
          PROVE  ApplyInv(p)'
        <3>1. At(p, "live") /\ proc'[p].pc = "restart" /\ UNCHANGED file
            BY <2>8, <1>t DEF LiveFails, Goto, State
        <3>2. proc[p].mem = proc[p].conf => xray' = xray
            BY <2>8, PartlyNothing DEF LiveFails
        <3> QED
            BY <2>1, <2>2, <2>3, <3>1, <3>2 DEF ApplyInv, Applying, At
    <2>9. ASSUME Restart(p), ~Stop(p)
          PROVE  ApplyInv(p)'
        <3>1. At(p, "restart") /\ proc'[p].pc = "record" /\ UNCHANGED file /\ xray' = Loaded
            BY <2>9, <1>t DEF Restart, Goto, State
        <3>2. file = proc[p].conf
            BY <2>2, <3>1 DEF ApplyInv, At
        <3>3. xray'.up /\ xray'.clients = proc[p].conf
            BY <1>t, <3>1, <3>2 DEF Loaded
        <3> QED
            BY <2>1, <2>2, <2>3, <3>1, <3>3 DEF ApplyInv, Applying, At
    <2>10. ApplyInv(p)'
        BY <1>4, <2>5, <2>6, <2>7, <2>8, <2>9
    <2> QED
        BY <2>2, <2>3, <2>4, <2>10, OneProcess DEF At
<1>5. ASSUME NEW p \in Procs, Record(p)
      PROVE  AppliedInv'
    <2>1. /\ ~astray /\ At(p, "record") /\ ~At(p, "none")
          /\ UNCHANGED <<users, file, xray>>
          /\ saved' = proc[p].conf \/ (saved' = saved /\ halfway')
        BY <1>5, <1>t DEF Record, Done, At
    <2>2. /\ \A q \in Procs \ {p} : At(q, "none")
          /\ ApplyInv(p)
        BY <2>1, <1>s
    <2>3. proc'[p].pc = "none" /\ \A q \in Procs \ {p} : proc'[q] = proc[q]
        BY <1>5, <1>t, <1>g DEF Record, Done
    <2>4. /\ xray.up /\ xray.clients = users /\ file = users
          /\ saved' = users \/ halfway'
        BY <2>1, <2>2 DEF ApplyInv, At
    <2>5. RestInv'
        BY <2>1, <2>4 DEF RestInv
    <2>6. ApplyInv(p)'
        BY <2>3 DEF ApplyInv, Applying, At
    <2> QED
        BY <2>2, <2>3, <2>5, <2>6, OneProcess DEF At
<1>6. ASSUME NEW p \in Procs, Kill(p) \/ (Restart(p) /\ Stop(p))
      PROVE  AppliedInv'
    BY <1>6, StopApplied DEF Kill, Restart, At
<1>7. CASE XrayRestart
    <2>1. xray' = Loaded /\ UNCHANGED <<users, file, saved, proc>>
        BY <1>7 DEF XrayRestart
    <2>2. CASE ~astray
        <3>1. UNCHANGED <<halfway, fresh>>
            BY <1>7, <2>2 DEF XrayRestart, TypeInv, TypeOK
        <3>2. RestInv /\ Alone /\ \A q \in Procs : ApplyInv(q)
            BY <2>2 DEF AppliedInv
        <3>3. \A q \in Procs : RestInv' /\ ApplyInv(q)'
            BY <2>1, <3>1, <3>2, ReloadApplied
        <3>4. RestInv'
            BY <3>3 DEF Procs
        <3> QED
            BY <2>1, <3>2, <3>3, <3>4 DEF AppliedInv, Alone, At
    <2>3. CASE astray
        <3>1. AllRest /\ halfway' /\ ~fresh'
            BY <1>7, <2>3 DEF XrayRestart
        <3>2. file # NoConfig /\ xray'.up => xray'.clients = file
            BY <2>1 DEF Loaded
        <3>3. RestInv'
            BY <2>1, <3>1, <3>2 DEF RestInv
        <3>4. \A q \in Procs : At(q, "none")'
            BY <2>1, <3>1 DEF AllRest, At
        <3>5. \A q \in Procs : ApplyInv(q)'
            BY <3>4 DEF ApplyInv, Applying, At
        <3> QED
            BY <3>3, <3>4, <3>5 DEF AppliedInv, Alone
    <2> QED
        BY <2>2, <2>3
<1>8. CASE XrayRetry
    <2>1. xray' = Loaded /\ UNCHANGED <<users, file, saved, proc, halfway, fresh, astray>>
        BY <1>8 DEF XrayRetry
    <2>2. RestInv /\ Alone /\ \A q \in Procs : ApplyInv(q)
        BY <2>1 DEF AppliedInv
    <2>3. \A q \in Procs : RestInv' /\ ApplyInv(q)'
        BY <2>1, <2>2, ReloadApplied
    <2>4. RestInv'
        BY <2>3 DEF Procs
    <2> QED
        BY <2>1, <2>2, <2>3, <2>4 DEF AppliedInv, Alone, At
<1>9. CASE UNCHANGED vars
    <2>1. RestInv /\ Alone /\ \A q \in Procs : ApplyInv(q)
        BY <1>9 DEF AppliedInv, vars
    <2> QED
        BY <1>9, <2>1 DEF AppliedInv, Alone, RestInv, ApplyInv, Applying, At, Seeded, vars
<1>10. \A p \in Procs : ProcStep(p) =>
          \/ Load(p) \/ Truncate(p) \/ Write(p) \/ Reload(p)
          \/ OpenConfig(p) \/ WriteConfig(p) \/ Live(p) \/ LiveFails(p)
          \/ (Restart(p) /\ ~Stop(p)) \/ (Restart(p) /\ Stop(p)) \/ Record(p)
    BY DEF ProcStep
<1> QED
    BY <1>1, <1>2, <1>3, <1>4, <1>5, <1>6, <1>7, <1>8, <1>9, <1>10 DEF Next

\* AppliedInv holds initially.
LEMMA InitApplied == Init => AppliedInv
<1> SUFFICES ASSUME Init
             PROVE  AppliedInv
    OBVIOUS
<1>g. Gone.pc = "none" /\ Gone.mem = NoConfig /\ Gone.conf = {}
    BY DEF Gone
<1>b. /\ [Gone EXCEPT !.pc = "reload"].pc = "reload"
      /\ [Gone EXCEPT !.pc = "reload"].mem = NoConfig
    BY DEF Gone
<1>1. \A q \in Procs : proc[q].mem = NoConfig /\ proc[q].pc = IF q = Boot THEN "reload" ELSE "none"
    BY <1>g, <1>b DEF Init
<1>2. saved = NoConfig /\ file = NoConfig /\ Seeded = NoConfig /\ ~fresh
    BY DEF Init, Seeded
<1>3. Alone
    BY <1>1 DEF Alone, At
<1>4. RestInv
    BY <1>2 DEF RestInv
<1>5. \A q \in Procs : ApplyInv(q)
    BY <1>1, <1>2 DEF ApplyInv, Applying, At
<1> QED
    BY <1>3, <1>4, <1>5 DEF AppliedInv

\* AppliedInv holds in every reachable state.
LEMMA AppliedInvariant == Spec => []AppliedInv
<1> QED
    BY InitApplied, NextApplied, TypeInvariant, PTL DEF Spec

\* After a command that succeeded Xray runs exactly the users of users.json, however
\* many processes ran before, wherever they died and whether or not they could save
\* the baseline, except after an overlap or a failure upon a failure (~astray).
THEOREM AppliedCorrect == Spec => []AppliedAtRest
<1>1. AppliedInv => AppliedAtRest
    BY DEF AppliedInv, RestInv, AppliedAtRest, Quiet, AllRest
<1> QED
    BY <1>1, AppliedInvariant, PTL

\* A recorded baseline whose hash matches describes the running Xray, also an old one
\* that later applies could not replace, with the same exceptions.
THEOREM BaselineCorrect == Spec => []BaselineTrue
<1>1. AppliedInv => BaselineTrue
    BY DEF AppliedInv, RestInv, BaselineTrue, Quiet, AllRest, Applying, At
<1> QED
    BY <1>1, AppliedInvariant, PTL
=============================================================================
