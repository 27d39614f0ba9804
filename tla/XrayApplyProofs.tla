-------------------------- MODULE XrayApplyProofs --------------------------
(* Theorems about XrayApply, for every value of its constants. *)
EXTENDS XrayApply, TLAPS

-----------------------------------------------------------------------------
(* What the helpers return *)

\* The client lists Xray is given are client lists.
LEMMA ClientsType ==
    ASSUME NEW c \in Config
    PROVE  ClientsOf(c) \in [Tags -> ClientSet]
BY DEF ClientsOf, NoClients, Config, ClientSet

\* stripTLSIfNoCert returns a configuration.
LEMMA StripType ==
    ASSUME NEW c \in Config
    PROVE  Strip(c) \in Config
BY DEF Strip, Config

\* Xray after a restart is an Xray.
LEMMA LoadedType ==
    ASSUME file \in Config \cup {NoConfig}, xray \in Xray
    PROVE  Loaded \in Xray
<1>1. CASE file = NoConfig
    BY <1>1 DEF Loaded, Xray
<1>2. CASE file # NoConfig
    <2>1. file \in Config /\ ClientsOf(file) \in [Tags -> ClientSet]
        BY <1>2, ClientsType
    <2> QED
        BY <1>2, <2>1 DEF Loaded, Xray, Config
<1> QED
    BY <1>1, <1>2

\* So is Xray after a gRPC call.
LEMMA AlteredType ==
    ASSUME xray \in Xray, conf \in Config, NEW op \in Op
    PROVE  Altered(op) \in Xray
<1>1. \A u \in Users : conf.clients[u] \in Ids \cup {NoId}
    BY DEF Config, ClientSet
<1>2. \A t \in Tags, u \in Users : xray.clients[t][u] \in Ids \cup {NoId}
    BY DEF Xray, ClientSet
<1> QED
    BY <1>1, <1>2 DEF Altered, Xray, ClientSet

\* Delta consists of operations, one for every client whose ids differ.
LEMMA DeltaFacts ==
    ASSUME NEW b \in Config, NEW c \in Config
    PROVE  /\ Delta(b, c) \in SUBSET Op
           /\ \A op \in Delta(b, c) :
                 op.kind = "remove" <=> ClientsOf(c)[op.tag][op.user] = NoId
           /\ \A t \in Tags, u \in Users :
                 (\A op \in Delta(b, c) : op.tag # t \/ op.user # u)
                     => ClientsOf(b)[t][u] = ClientsOf(c)[t][u]
           /\ b = c => Delta(b, c) = {}
<1> DEFINE B == ClientsOf(b)
           C == ClientsOf(c)
           Ks == {"add", "replace", "remove"}
           In(k, t, u) ==
               \/ k = "add" /\ B[t][u] = NoId /\ C[t][u] # NoId
               \/ k = "replace" /\ B[t][u] # NoId /\ C[t][u] # NoId /\ B[t][u] # C[t][u]
               \/ k = "remove" /\ B[t][u] # NoId /\ C[t][u] = NoId
<1>1. \A op \in Delta(b, c) :
         /\ op \in Op
         /\ op.kind \in Ks
         /\ In(op.kind, op.tag, op.user)
    BY DEF Delta, Ops, Op
<1>2. \A t \in Tags, u \in Users, k \in Ks :
         In(k, t, u) => [kind |-> k, tag |-> t, user |-> u] \in Delta(b, c)
    <2> SUFFICES ASSUME NEW t \in Tags, NEW u \in Users, NEW k \in Ks, In(k, t, u)
                 PROVE  [kind |-> k, tag |-> t, user |-> u] \in Delta(b, c)
        OBVIOUS
    <2> DEFINE q == <<t, u>>
    <2>1. q \in Tags \X Users /\ q[1] = t /\ q[2] = u
        OBVIOUS
    <2>2. CASE k = "add"
        BY <2>1, <2>2 DEF Delta, Ops
    <2>3. CASE k = "replace"
        BY <2>1, <2>3 DEF Delta, Ops
    <2>4. CASE k = "remove"
        BY <2>1, <2>4 DEF Delta, Ops
    <2> QED
        BY <2>2, <2>3, <2>4
<1>3. \A op \in Delta(b, c) : op.kind = "remove" <=> C[op.tag][op.user] = NoId
    BY <1>1
<1>4. ASSUME NEW t \in Tags, NEW u \in Users,
             \A op \in Delta(b, c) : op.tag # t \/ op.user # u
      PROVE  B[t][u] = C[t][u]
    <2> SUFFICES ASSUME B[t][u] # C[t][u] PROVE FALSE
        OBVIOUS
    <2>1. PICK k \in Ks : In(k, t, u)
        OBVIOUS
    <2>2. [kind |-> k, tag |-> t, user |-> u] \in Delta(b, c)
        BY <1>2, <2>1
    <2> QED
        BY <1>4, <2>2
<1>5. b = c => Delta(b, c) = {}
    BY <1>1
<1> QED
    BY <1>1, <1>3, <1>4, <1>5

\* A bound is used up by one, the others are left alone.
LEMMA FaultFacts ==
    ASSUME spent \in [Kinds -> Nat], NEW k \in Kinds, Fault(k)
    PROVE  /\ spent' \in [Kinds -> Nat]
           /\ spent'[k] = spent[k] + 1
           /\ \A j \in Kinds : j # k => spent'[j] = spent[j]
BY DEF Fault

-----------------------------------------------------------------------------
(* Type correctness *)

\* Init establishes TypeOK.
LEMMA TypeInit == Init => TypeOK
<1> SUFFICES ASSUME Init PROVE TypeOK
    OBVIOUS
<1>1. NoClients \in ClientSet
    BY DEF NoClients, ClientSet
<1>2. xray \in Xray
    BY <1>1 DEF Init, Xray
<1>3. spent \in [Kinds -> Nat]
    BY DEF Init
<1>4. call \in [Callers -> Config \cup {NoConfig}]
    BY DEF Init
<1>5. cert \in Nat /\ seen \in Nat
    BY DEF Init
<1>6. delivered \in BOOLEAN /\ watch \in BOOLEAN /\ desired \in Config
    BY DEF Init
<1>7. /\ holder = "none" /\ pc = "idle" /\ conf = NoConfig /\ todo = {}
      /\ {last, mem, saved, file} = {NoConfig} /\ {nginxFile, nginx} = {NoConfig}
    BY DEF Init
<1> QED
    BY <1>2, <1>3, <1>4, <1>5, <1>6, <1>7 DEF TypeOK

\* The pieces that several actions share keep the types.
LEMMA UnlockType ==
    ASSUME TypeOK, Unlock
    PROVE  /\ call' \in [Callers -> Config \cup {NoConfig}]
           /\ holder' = "none" /\ pc' = "idle" /\ conf' = NoConfig /\ todo' = {}
BY DEF TypeOK, Unlock

\* Recording a configuration as the baseline keeps the types.
LEMMA BaselineType ==
    ASSUME TypeOK, conf # NoConfig, SetBaseline(conf)
    PROVE  /\ mem' = conf /\ conf \in Config
           /\ {mem', saved'} \subseteq Config \cup {NoConfig}
           /\ spent' \in [Kinds -> Nat]
<1>1. spent' \in [Kinds -> Nat]
    BY FaultFacts DEF TypeOK, SetBaseline, Kinds
<1> QED
    BY <1>1 DEF TypeOK, SetBaseline

\* So does writing and reloading nginx.
LEMMA NginxType ==
    ASSUME TypeOK, NEW sni \in Settings \cup {NoConfig}, ApplyNginx(sni)
    PROVE  /\ {nginxFile', nginx'} \subseteq Settings \cup {NoConfig}
           /\ spent' \in [Kinds -> Nat]
<1>1. spent' \in [Kinds -> Nat]
    BY FaultFacts DEF TypeOK, ApplyNginx, Kinds
<1> QED
    BY <1>1 DEF TypeOK, ApplyNginx

\* Every step preserves TypeOK.
LEMMA TypeStep == TypeOK /\ [Next]_vars => TypeOK'
<1> SUFFICES ASSUME TypeOK, [Next]_vars PROVE TypeOK'
    OBVIOUS
<1> USE DEF agentVars
<1>0. /\ Loaded \in Xray
      /\ \A k \in Kinds : Fault(k) => spent' \in [Kinds -> Nat]
      /\ NoConfig \notin Config
    BY LoadedType, FaultFacts, ApplyAssumption DEF TypeOK
<1>1. ASSUME NEW c \in Config, PanelChange(c) PROVE TypeOK'
    BY <1>0, <1>1 DEF PanelChange, TypeOK, Kinds
<1>2. CASE CertChange
    BY <1>0, <1>2 DEF CertChange, TypeOK, Kinds
<1>3. CASE XrayRestart
    BY <1>0, <1>3 DEF XrayRestart, TypeOK, Kinds
<1>4. CASE Receive
    BY <1>4 DEF Receive, TypeOK, Callers
<1>5. CASE WatchTick
    BY <1>5 DEF WatchTick, TypeOK, Callers
<1>6. CASE WatchRestart
    BY <1>0, <1>6 DEF WatchRestart, TypeOK, Kinds
<1>7. ASSUME NEW c \in Callers, Lock(c) PROVE TypeOK'
    <2>1. call[c] \in Config
        BY <1>7 DEF Lock, TypeOK
    <2>2. Strip(call[c]) \in Config
        BY <2>1, StripType
    <2> QED
        BY <1>0, <1>7, <2>1, <2>2 DEF Lock, TypeOK, Callers
<1>8. CASE OpenFile
    BY <1>0, <1>8, UnlockType DEF OpenFile, TypeOK, Kinds
<1>9. CASE WriteFile
    BY <1>0, <1>9, UnlockType DEF WriteFile, TypeOK, Kinds
<1>10. CASE ChoosePath
    <2>1. conf \in Config /\ conf.set \in Settings
        BY <1>0, <1>10 DEF ChoosePath, TypeOK, Config
    <2>2. /\ {nginxFile', nginx'} \subseteq Settings \cup {NoConfig}
          /\ spent' \in [Kinds -> Nat]
        BY <1>10, <2>1, NginxType DEF ChoosePath
    <2>3. todo' \in SUBSET Op
        BY <1>10, <2>1, DeltaFacts DEF ChoosePath, TypeOK
    <2> QED
        BY <1>10, <2>2, <2>3 DEF ChoosePath, TypeOK
<1>11. ASSUME NEW op \in todo, LiveCall(op) PROVE TypeOK'
    <2>1. conf \in Config /\ op \in Op
        BY <1>0, <1>11 DEF LiveCall, TypeOK
    <2>2. xray' \in Xray
        BY <1>11, <2>1, AlteredType DEF LiveCall, TypeOK
    <2>3. todo' \in SUBSET Op
        BY <1>11, <2>1 DEF LiveCall, TypeOK, Op, Readd
    <2>4. spent' \in [Kinds -> Nat]
        BY <1>0, <1>11 DEF LiveCall, TypeOK, Kinds
    <2> QED
        BY <1>11, <2>2, <2>3, <2>4 DEF LiveCall, TypeOK
<1>12. CASE LiveDone
    BY <1>12, UnlockType, BaselineType DEF LiveDone, TypeOK
<1>13. CASE DockerRestart
    BY <1>0, <1>13, UnlockType DEF DockerRestart, TypeOK, Kinds
<1>14. CASE Record
    BY <1>14, UnlockType, BaselineType DEF Record, TypeOK
<1>15. CASE AgentRestart
    BY <1>0, <1>15 DEF AgentRestart, TypeOK, Kinds, Callers
<1>16. CASE Boot
    BY <1>16, NginxType DEF Boot, TypeOK
<1>17. CASE UNCHANGED vars
    BY <1>17 DEF vars, TypeOK
<1> QED
    BY <1>1, <1>2, <1>3, <1>4, <1>5, <1>6, <1>7, <1>8, <1>9, <1>10, <1>11, <1>12,
       <1>13, <1>14, <1>15, <1>16, <1>17 DEF Next, Apply

\* applyConfig, the watcher, crashes and Xray's own restarts keep every variable in
\* its type: the mutex is held exactly while applyConfig has a configuration.
THEOREM TypeCorrect == Spec => []TypeOK
<1>1. Init => TypeOK
    BY TypeInit
<1>2. TypeOK /\ [Next]_vars => TypeOK'
    BY TypeStep
<1> QED
    BY <1>1, <1>2, PTL DEF Spec

-----------------------------------------------------------------------------
(* What is recorded is running *)

\* After a restart Xray runs the file, or is down.
LEMMA LoadedRuns ==
    ASSUME TypeOK, Loaded.up
    PROVE  file \in Config /\ Runs(Loaded, file)
<1>1. file # NoConfig
    BY DEF Loaded
<1> QED
    BY <1>1 DEF Loaded, Runs, Skeleton, TypeOK

\* An action that leaves the application in progress and Xray alone.
LEMMA RecordFrame ==
    ASSUME RecordInv, UNCHANGED <<pc, conf, todo, file, xray>>
    PROVE  RecordInv'
BY DEF RecordInv, FileInv, OpsInv, RecordedIsRunning, Serves

\* An action that ends applyConfig.
LEMMA RecordUnlock ==
    ASSUME Unlock
    PROVE  RecordInv'
BY DEF Unlock, RecordInv, FileInv, OpsInv, RecordedIsRunning

\* A restart of Xray at any moment.
LEMMA RecordLoad ==
    ASSUME TypeOK, RecordInv, xray' = Loaded, UNCHANGED <<pc, conf, todo, file>>
    PROVE  RecordInv'
<1>1. FileInv' /\ OpsInv'
    BY DEF RecordInv, FileInv, OpsInv
<1>2. RecordedIsRunning'
    BY LoadedRuns DEF RecordInv, FileInv, RecordedIsRunning, Serves
<1> QED
    BY <1>1, <1>2 DEF RecordInv

\* Every step keeps RecordInv.
LEMMA RecordStep == TypeOK /\ RecordInv /\ [Next]_vars => RecordInv'
<1> SUFFICES ASSUME TypeOK, RecordInv, [Next]_vars PROVE RecordInv'
    OBVIOUS
<1> USE DEF agentVars
<1>1. ASSUME NEW c \in Config, PanelChange(c) PROVE RecordInv'
    BY <1>1, RecordFrame DEF PanelChange
<1>2. CASE CertChange
    BY <1>2, RecordFrame DEF CertChange
<1>3. CASE XrayRestart
    BY <1>3, RecordLoad DEF XrayRestart
<1>4. CASE Receive
    BY <1>4, RecordFrame DEF Receive
<1>5. CASE WatchTick
    BY <1>5, RecordFrame DEF WatchTick
<1>6. CASE WatchRestart
    BY <1>6, RecordFrame, RecordLoad DEF WatchRestart
<1>7. ASSUME NEW c \in Callers, Lock(c) PROVE RecordInv'
    <2>1. pc' = "open" /\ todo' = todo /\ todo = {}
        BY <1>7 DEF Lock, RecordInv, OpsInv
    <2> QED
        BY <2>1 DEF RecordInv, FileInv, OpsInv, RecordedIsRunning
<1>8. CASE OpenFile
    <2>1. CASE pc' = "write" /\ file' = NoConfig /\ todo' = todo
        BY <1>8, <2>1 DEF OpenFile, RecordInv, FileInv, OpsInv, RecordedIsRunning
    <2> QED
        BY <1>8, <2>1, RecordUnlock DEF OpenFile
<1>9. CASE WriteFile
    <2>1. CASE pc' = "nginx" /\ file' = conf /\ UNCHANGED <<conf, todo>>
        BY <1>9, <2>1 DEF WriteFile, RecordInv, FileInv, OpsInv, RecordedIsRunning
    <2> QED
        BY <1>9, <2>1, RecordUnlock DEF WriteFile
<1>10. CASE ChoosePath
    <2>1. conf \in Config /\ todo = {} /\ file = conf
        BY <1>10 DEF ChoosePath, TypeOK, RecordInv, OpsInv, FileInv
    <2>2. CASE pc' = "live" /\ mem # NoConfig /\ todo' = Delta(mem, conf)
        <3>1. mem \in Config
            BY <2>2 DEF TypeOK
        <3>2. \A op \in todo' :
                 op.kind = "remove" <=> ClientsOf(conf)[op.tag][op.user] = NoId
            BY <2>1, <2>2, <3>1, DeltaFacts
        <3>3. UNCHANGED <<conf, file>>
            BY <1>10 DEF ChoosePath
        <3>4. FileInv' /\ RecordedIsRunning'
            BY <2>1, <2>2, <3>3 DEF FileInv, RecordedIsRunning
        <3>5. OpsInv'
            BY <2>2, <3>2, <3>3 DEF OpsInv, ClientsOf
        <3> QED
            BY <3>4, <3>5 DEF RecordInv
    <2>3. CASE pc' = "restart" /\ todo' = todo
        BY <1>10, <2>1, <2>3 DEF ChoosePath, RecordInv, FileInv, OpsInv, RecordedIsRunning
    <2> QED
        BY <1>10, <2>2, <2>3 DEF ChoosePath
<1>11. ASSUME NEW op \in todo, LiveCall(op) PROVE RecordInv'
    <2>1. UNCHANGED <<conf, file>> /\ file = conf /\ pc' \in {"live", "restart"}
        BY <1>11 DEF LiveCall, RecordInv, FileInv
    <2>2. FileInv' /\ RecordedIsRunning'
        BY <2>1 DEF FileInv, RecordedIsRunning
    <2>3. CASE todo' = {}
        BY <2>2, <2>3 DEF RecordInv, OpsInv
    <2>4. CASE pc' = pc /\ todo' = (todo \ {op}) \cup
                 (IF op.kind = "replace" THEN {Readd(op)} ELSE {})
        <3>1. \A o \in todo' : o.kind = "remove"
                                <=> ClientsOf(conf)[o.tag][o.user] = NoId
            BY <2>4 DEF RecordInv, OpsInv, Readd
        <3>2. pc' = "live"
            BY <1>11, <2>4 DEF LiveCall
        <3>3. OpsInv'
            BY <2>1, <3>1, <3>2 DEF OpsInv, ClientsOf
        <3> QED
            BY <2>2, <3>3 DEF RecordInv
    <2> QED
        BY <1>11, <2>3, <2>4 DEF LiveCall
<1>12. CASE LiveDone
    BY <1>12, RecordUnlock DEF LiveDone
<1>13. CASE DockerRestart
    <2>1. CASE xray' = Loaded /\ pc' = "record" /\ UNCHANGED <<conf, todo, file>>
        <3>1. file = conf /\ todo = {}
            BY <1>13 DEF DockerRestart, RecordInv, FileInv, OpsInv
        <3>2. RecordedIsRunning'
            BY <2>1, <3>1, LoadedRuns DEF RecordedIsRunning, Serves
        <3> QED
            BY <2>1, <3>1, <3>2 DEF RecordInv, FileInv, OpsInv
    <2> QED
        BY <1>13, <2>1, RecordUnlock DEF DockerRestart
<1>14. CASE Record
    BY <1>14, RecordUnlock DEF Record
<1>15. CASE AgentRestart
    BY <1>15 DEF AgentRestart, RecordInv, FileInv, OpsInv, RecordedIsRunning
<1>16. CASE Boot
    BY <1>16 DEF Boot, RecordInv, FileInv, OpsInv, RecordedIsRunning
<1>17. CASE UNCHANGED vars
    BY <1>17, RecordFrame DEF vars
<1> QED
    BY <1>1, <1>2, <1>3, <1>4, <1>5, <1>6, <1>7, <1>8, <1>9, <1>10, <1>11, <1>12,
       <1>13, <1>14, <1>15, <1>16, <1>17 DEF Next, Apply

\* RecordInv holds in every reachable state.
LEMMA RecordInvCorrect == Spec => []RecordInv
<1>1. Init => RecordInv
    BY DEF Init, RecordInv, FileInv, OpsInv, RecordedIsRunning
<1>2. TypeOK /\ RecordInv /\ [Next]_vars => RecordInv'
    BY RecordStep
<1> QED
    BY <1>1, <1>2, TypeCorrect, PTL DEF Spec

\* Whatever fails, crashes or restarts before, live.set after a docker restart that
\* succeeded records the configuration Xray runs (xray.go, baseline.go).
THEOREM RecordedCorrect == Spec => []RecordedIsRunning
<1>1. RecordInv => RecordedIsRunning
    BY DEF RecordInv
<1> QED
    BY <1>1, RecordInvCorrect, PTL

-----------------------------------------------------------------------------
(* The baseline tells the truth *)

\* Faults are never forgotten; those Calm excludes end it, and a crash is the first.
LEMMA CalmFacts ==
    ASSUME TypeOK, NEW k \in Kinds, Fault(k), Calm'
    PROVE  /\ Calm
           /\ k \notin {"docker", "write", "persist"}
           /\ k = "crash" => spent["crash"] = 0
           /\ spent'["crash"] = 0 => spent["crash"] = 0
<1>1. /\ spent \in [Kinds -> Nat] /\ spent' \in [Kinds -> Nat]
      /\ spent'[k] = spent[k] + 1
      /\ \A j \in Kinds : j # k => spent'[j] = spent[j]
    BY FaultFacts DEF TypeOK
<1>2. \A j \in Kinds : spent[j] \in Nat /\ spent[j] <= spent'[j]
    BY <1>1
<1> QED
    BY <1>1, <1>2 DEF Calm, Kinds

\* A step that uses up at most a bound Calm does not mind.
Mild == UNCHANGED spent \/ \E k \in Kinds : Fault(k)

\* Such a step was taken in a calm state.
LEMMA MildFacts ==
    ASSUME TypeOK, Mild, Calm'
    PROVE  Calm /\ (spent'["crash"] = 0 => spent["crash"] = 0)
<1>1. CASE UNCHANGED spent
    BY <1>1 DEF Calm
<1>2. CASE \E k \in Kinds : Fault(k)
    BY <1>2, CalmFacts
<1> QED
    BY <1>1, <1>2 DEF Mild

\* A step that changes neither the application in progress nor Xray.
LEMMA IFrame ==
    ASSUME TypeOK, IInv, Mild, UNCHANGED <<pc, conf, todo, file, xray, mem, saved>>
    PROVE  IInv'
<1> SUFFICES ASSUME Calm' PROVE BaselineInv' /\ XrayInv'
    BY DEF IInv
<1>1. BaselineInv /\ XrayInv /\ (spent'["crash"] = 0 => spent["crash"] = 0)
    BY MildFacts DEF IInv
<1>2. BaselineInv'
    BY <1>1 DEF BaselineInv
<1>3. XrayInv'
    BY <1>1 DEF XrayInv, Serves, Runs, ClientsOf, Skeleton, Untouched
<1> QED
    BY <1>2, <1>3

\* Xray restarts at any moment of applyConfig.
LEMMA ILoad ==
    ASSUME TypeOK, RecordInv, IInv, Mild, xray' = Loaded,
           UNCHANGED <<pc, conf, todo, file, mem, saved>>
    PROVE  IInv'
<1> SUFFICES ASSUME Calm' PROVE BaselineInv' /\ XrayInv'
    BY DEF IInv
<1>1. BaselineInv /\ (spent'["crash"] = 0 => spent["crash"] = 0)
    BY MildFacts DEF IInv
<1>2. BaselineInv'
    BY <1>1 DEF BaselineInv
<1>3. XrayInv'
    <2> SUFFICES ASSUME xray'.up PROVE XrayInv'
        BY DEF XrayInv
    <2>1. file \in Config /\ file # NoConfig /\ Runs(xray', file)
        BY LoadedRuns, ApplyAssumption
    <2>2. CASE pc \in {"boot", "idle", "open"}
        BY <1>1, <2>1, <2>2 DEF XrayInv, BaselineInv, Serves
    <2>3. CASE pc = "write"
        BY <2>1, <2>3 DEF RecordInv, FileInv
    <2>4. CASE pc \in {"nginx", "restart", "record"}
        BY <2>1, <2>4 DEF XrayInv, RecordInv, FileInv, Serves
    <2>5. CASE pc = "live"
        <3>1. file = conf
            BY <2>5 DEF RecordInv, FileInv
        <3> QED
            BY <2>1, <2>5, <3>1 DEF XrayInv, Runs, ClientsOf, Skeleton
    <2> QED
        BY <2>2, <2>3, <2>4, <2>5 DEF TypeOK
<1> QED
    BY <1>2, <1>3

\* applyConfig ends with conf in Xray, in the file and in the baseline.
LEMMA IRecorded ==
    ASSUME TypeOK, RecordInv, IInv, conf # NoConfig, file = conf,
           Calm => (xray.up => Serves(conf)),
           SetBaseline(conf), Unlock, UNCHANGED <<file, xray>>
    PROVE  IInv'
<1> SUFFICES ASSUME Calm' PROVE BaselineInv' /\ XrayInv'
    BY DEF IInv
<1>1. UNCHANGED spent /\ saved' = conf /\ mem' = conf
    BY CalmFacts DEF SetBaseline, Kinds
<1>2. pc' = "idle" /\ file' = mem' /\ Calm
    BY <1>1 DEF Unlock, Calm
<1>3. BaselineInv'
    BY <1>1, <1>2 DEF BaselineInv
<1>4. xray.up => Runs(xray, conf)
    BY <1>2 DEF Serves
<1>5. XrayInv'
    BY <1>1, <1>2, <1>4 DEF XrayInv, Serves
<1> QED
    BY <1>3, <1>5

\* With nothing left to issue, Xray has every client of the configuration.
LEMMA LiveComplete ==
    ASSUME TypeOK, XrayInv, pc = "live", todo = {}, xray.up
    PROVE  Serves(conf)
<1>1. conf \in Config
    BY DEF TypeOK
<1>2. \A t \in Tags, u \in Users : xray.clients[t][u] = ClientsOf(conf)[t][u]
    BY DEF XrayInv, Untouched
<1>3. xray.clients \in [Tags -> ClientSet] /\ ClientsOf(conf) \in [Tags -> ClientSet]
    BY <1>1, ClientsType DEF TypeOK, Xray
<1>4. \A t \in Tags : xray.clients[t] = ClientsOf(conf)[t]
    BY <1>2, <1>3 DEF ClientSet
<1>5. xray.clients = ClientsOf(conf)
    BY <1>3, <1>4
<1> QED
    BY <1>5 DEF XrayInv, Serves, Runs

\* Whenever config.json is the baseline, Xray serves it: so may a new process find it.
LEMMA FileServed ==
    ASSUME TypeOK, RecordInv, BaselineInv, XrayInv, xray.up, mem = file, mem # NoConfig
    PROVE  Serves(mem)
<1>1. CASE pc \in {"boot", "idle", "open"}
    BY <1>1 DEF XrayInv
<1>2. CASE pc = "write"
    BY <1>2 DEF RecordInv, FileInv
<1>3. CASE pc = "nginx"
    BY <1>3 DEF XrayInv, RecordInv, FileInv
<1>4. CASE pc \in {"live", "restart"}
    <2>1. mem = conf
        BY <1>4 DEF RecordInv, FileInv
    <2>2. pc = "live" /\ todo = {}
        BY <1>4, <2>1 DEF BaselineInv
    <2> QED
        BY <2>1, <2>2, LiveComplete
<1>5. CASE pc = "record"
    BY <1>5 DEF RecordInv, FileInv, RecordedIsRunning
<1> QED
    BY <1>1, <1>2, <1>3, <1>4, <1>5 DEF TypeOK

\* One accepted gRPC call.
LEMMA AcceptedStep ==
    ASSUME TypeOK, RecordInv, XrayInv, pc = "live", NEW op \in todo,
           xray' = Altered(op), UNCHANGED <<pc, conf>>,
           todo' = (todo \ {op}) \cup
                     (IF op.kind = "replace" THEN {Readd(op)} ELSE {})
    PROVE  XrayInv'
<1> SUFFICES ASSUME xray.up PROVE XrayInv'
    BY DEF XrayInv, Altered
<1>1. conf \in Config /\ op \in Op /\ op.tag \in Tags /\ op.user \in Users
    BY DEF TypeOK, Op
<1>2. op.kind = "remove" <=> ClientsOf(conf)[op.tag][op.user] = NoId
    BY DEF RecordInv, OpsInv
<1>3. ASSUME NEW t \in Tags, NEW u \in Users, Untouched(t, u)'
      PROVE  xray'.clients[t][u] = ClientsOf(conf)[t][u]
    <2>1. CASE t = op.tag /\ u = op.user
        <3>1. op.kind # "replace"
            <4> SUFFICES ASSUME op.kind = "replace" PROVE FALSE
                OBVIOUS
            <4>1. Readd(op) \in todo'
                OBVIOUS
            <4>2. Readd(op).tag = t /\ Readd(op).user = u
                BY <2>1 DEF Readd
            <4>3. \A o \in todo' : o.tag # t \/ o.user # u
                BY <1>3 DEF Untouched
            <4> QED
                BY <4>1, <4>2, <4>3
        <3>2. xray'.clients[t][u] = IF Adds(op) THEN conf.clients[u] ELSE NoId
            BY <2>1 DEF Altered
        <3>3. CASE Adds(op)
            BY <1>2, <2>1, <3>2, <3>3 DEF Adds, ClientsOf, NoClients
        <3>4. CASE ~Adds(op)
            BY <1>1, <1>2, <2>1, <3>1, <3>2, <3>4 DEF Adds, Op
        <3> QED
            BY <3>3, <3>4
    <2>2. CASE t # op.tag \/ u # op.user
        <3>1. Untouched(t, u)
            BY <1>3, <2>2 DEF Untouched
        <3>2. xray'.clients[t][u] = xray.clients[t][u]
            BY <2>2 DEF Altered
        <3> QED
            BY <3>1, <3>2 DEF XrayInv
    <2> QED
        BY <2>1, <2>2
<1>4. <<xray'.set, xray'.tls>> = Skeleton(conf)
    BY DEF XrayInv, Altered
<1>5. \A t \in Tags, u \in Users :
         Untouched(t, u)' => xray'.clients[t][u] = ClientsOf(conf)[t][u]
    BY <1>3
<1>6. pc' = "live" /\ conf' = conf
    OBVIOUS
<1> QED
    BY <1>4, <1>5, <1>6 DEF XrayInv, Skeleton, ClientsOf

\* Every step keeps IInv.
LEMMA IStep == TypeOK /\ RecordInv /\ IInv /\ [Next]_vars => IInv'
<1> SUFFICES ASSUME TypeOK, RecordInv, IInv, [Next]_vars PROVE IInv'
    OBVIOUS
<1> USE DEF agentVars
<1>0. NoConfig \notin Config
    BY ApplyAssumption
<1>1. ASSUME NEW c \in Config, PanelChange(c) PROVE IInv'
    BY <1>1, IFrame DEF PanelChange, Mild, Kinds
<1>2. CASE CertChange
    BY <1>2, IFrame DEF CertChange, Mild, Kinds
<1>3. CASE XrayRestart
    BY <1>3, ILoad DEF XrayRestart, Mild, Kinds
<1>4. CASE Receive
    BY <1>4, IFrame DEF Receive, Mild
<1>5. CASE WatchTick
    BY <1>5, IFrame DEF WatchTick, Mild
<1>6. CASE WatchRestart
    BY <1>6, IFrame, ILoad DEF WatchRestart, Mild, Kinds
<1>7. ASSUME NEW c \in Callers, Lock(c) PROVE IInv'
    <2> SUFFICES ASSUME Calm' PROVE BaselineInv' /\ XrayInv'
        BY DEF IInv
    <2>1. Calm /\ pc = "idle" /\ pc' = "open" /\ UNCHANGED <<spent, mem, saved, file, xray>>
        BY <1>7 DEF Lock, Calm
    <2>2. BaselineInv'
        BY <2>1 DEF IInv, BaselineInv
    <2>3. XrayInv'
        BY <2>1 DEF IInv, XrayInv, Serves
    <2> QED
        BY <2>2, <2>3
<1>8. CASE OpenFile
    <2> SUFFICES ASSUME Calm' PROVE BaselineInv' /\ XrayInv'
        BY DEF IInv
    <2>1. ~Fault("write")
        BY CalmFacts DEF Kinds
    <2>2. pc = "open" /\ pc' = "write" /\ UNCHANGED <<spent, mem, saved, xray>>
        BY <1>8, <2>1 DEF OpenFile
    <2>3. BaselineInv /\ XrayInv
        BY <2>2 DEF IInv, Calm
    <2>4. BaselineInv'
        BY <2>2, <2>3 DEF BaselineInv
    <2>5. XrayInv'
        BY <2>2, <2>3 DEF XrayInv, Serves
    <2> QED
        BY <2>4, <2>5
<1>9. CASE WriteFile
    <2> SUFFICES ASSUME Calm' PROVE BaselineInv' /\ XrayInv'
        BY DEF IInv
    <2>1. ~Fault("write")
        BY CalmFacts DEF Kinds
    <2>2. pc = "write" /\ pc' = "nginx" /\ UNCHANGED <<spent, mem, saved, xray>>
        BY <1>9, <2>1 DEF WriteFile
    <2>3. BaselineInv /\ XrayInv
        BY <2>2 DEF IInv, Calm
    <2>4. BaselineInv'
        BY <2>2, <2>3 DEF BaselineInv
    <2>5. XrayInv'
        BY <2>2, <2>3 DEF XrayInv, Serves
    <2> QED
        BY <2>4, <2>5
<1>10. CASE ChoosePath
    <2> SUFFICES ASSUME Calm' PROVE BaselineInv' /\ XrayInv'
        BY DEF IInv
    <2>1. ~Fault("docker")
        BY CalmFacts DEF Kinds
    <2>2. pc = "nginx" /\ UNCHANGED <<spent, mem, saved, xray, conf>>
        BY <1>10, <2>1 DEF ChoosePath, ApplyNginx
    <2>3. BaselineInv /\ XrayInv /\ conf \in Config
        BY <2>2 DEF IInv, Calm, TypeOK
    <2>4. CASE mem # NoConfig /\ Skeleton(mem) = Skeleton(conf)
        <3>1. pc' = "live" /\ todo' = Delta(mem, conf) /\ mem \in Config
            BY <1>10, <2>4 DEF ChoosePath, TypeOK
        <3>2. mem = conf => todo' = {}
            BY <2>3, <3>1, DeltaFacts
        <3>3. BaselineInv'
            BY <2>2, <2>3, <3>1, <3>2 DEF BaselineInv
        <3>4. ASSUME xray.up, NEW t \in Tags, NEW u \in Users, Untouched(t, u)'
              PROVE  xray.clients[t][u] = ClientsOf(conf)[t][u]
            <4>1. ClientsOf(mem)[t][u] = ClientsOf(conf)[t][u]
                BY <2>3, <3>1, <3>4, DeltaFacts DEF Untouched
            <4>2. xray.clients = ClientsOf(mem) \/ xray.clients = ClientsOf(conf)
                BY <2>2, <2>3, <2>4, <3>4 DEF XrayInv, Serves, Runs
            <4> QED
                BY <4>1, <4>2
        <3>5. xray.up => <<xray.set, xray.tls>> = Skeleton(conf)
            BY <2>2, <2>3, <2>4 DEF XrayInv, Serves, Runs
        <3>6. xray.up => \A t \in Tags, u \in Users :
                 Untouched(t, u)' => xray.clients[t][u] = ClientsOf(conf)[t][u]
            BY <3>4
        <3>7. XrayInv'
            BY <2>2, <3>1, <3>5, <3>6 DEF XrayInv, Skeleton, ClientsOf
        <3> QED
            BY <3>3, <3>7
    <2>5. CASE ~(mem # NoConfig /\ Skeleton(mem) = Skeleton(conf))
        <3>1. pc' = "restart" /\ mem # conf
            BY <1>0, <1>10, <2>3, <2>5 DEF ChoosePath
        <3>2. BaselineInv'
            BY <2>2, <2>3, <3>1 DEF BaselineInv
        <3> QED
            BY <3>1, <3>2 DEF XrayInv
    <2> QED
        BY <2>4, <2>5
<1>11. ASSUME NEW op \in todo, LiveCall(op) PROVE IInv'
    <2> SUFFICES ASSUME Calm' PROVE BaselineInv' /\ XrayInv'
        BY DEF IInv
    <2>1. Mild /\ pc = "live" /\ UNCHANGED <<mem, saved, conf>>
        BY <1>11 DEF LiveCall, Mild, Kinds
    <2>2. BaselineInv /\ XrayInv /\ (spent'["crash"] = 0 => spent["crash"] = 0)
        BY <2>1, MildFacts DEF IInv
    <2>3. mem # conf
        BY <2>1, <2>2 DEF BaselineInv
    <2>4. pc' \in {"live", "restart"}
        BY <1>11 DEF LiveCall
    <2>5. BaselineInv'
        BY <2>1, <2>2, <2>3, <2>4 DEF BaselineInv
    <2>6. CASE pc' = "restart"
        BY <2>5, <2>6 DEF XrayInv
    <2>7. CASE pc' # "restart"
        <3>1. /\ xray' = Altered(op) /\ pc' = pc
              /\ todo' = (todo \ {op}) \cup
                           (IF op.kind = "replace" THEN {Readd(op)} ELSE {})
            BY <1>11, <2>7 DEF LiveCall
        <3> QED
            BY <2>1, <2>2, <2>5, <3>1, AcceptedStep
    <2> QED
        BY <2>5, <2>6, <2>7
<1>12. CASE LiveDone
    <2>1. conf # NoConfig /\ file = conf /\ pc = "live" /\ todo = {}
        BY <1>12 DEF LiveDone, TypeOK, RecordInv, FileInv
    <2>2. Calm => (xray.up => Serves(conf))
        BY <2>1, LiveComplete DEF IInv
    <2> QED
        BY <1>12, <2>1, <2>2, IRecorded DEF LiveDone
<1>13. CASE DockerRestart
    <2> SUFFICES ASSUME Calm' PROVE BaselineInv' /\ XrayInv'
        BY DEF IInv
    <2>1. ~Fault("docker")
        BY CalmFacts DEF Kinds
    <2>2. pc' = "record" /\ UNCHANGED <<spent, mem, saved>>
        BY <1>13, <2>1 DEF DockerRestart
    <2>3. BaselineInv
        BY <2>2 DEF IInv, Calm
    <2> QED
        BY <2>2, <2>3 DEF BaselineInv, XrayInv
<1>14. CASE Record
    <2>1. conf # NoConfig /\ file = conf /\ (xray.up => Serves(conf))
        BY <1>14 DEF Record, TypeOK, RecordInv, FileInv, RecordedIsRunning
    <2> QED
        BY <1>14, <2>1, IRecorded DEF Record
<1>15. CASE AgentRestart
    <2> SUFFICES ASSUME Calm' PROVE BaselineInv' /\ XrayInv'
        BY DEF IInv
    <2>1. Calm /\ spent["crash"] = 0 /\ spent'["crash"] = 1
        <3>1. Fault("crash") /\ "crash" \in Kinds
            BY <1>15 DEF AgentRestart, Kinds
        <3>2. Calm /\ spent["crash"] = 0
            BY <3>1, CalmFacts
        <3> QED
            BY <3>1, <3>2, FaultFacts DEF TypeOK
    <2>2. BaselineInv /\ XrayInv /\ saved = mem
        BY <2>1 DEF IInv, BaselineInv
    <2>3. /\ pc' = "boot" /\ UNCHANGED <<file, saved, xray>>
          /\ mem' = IF mem = file THEN mem ELSE NoConfig
        BY <1>15, <2>2 DEF AgentRestart
    <2>4. BaselineInv'
        BY <2>1, <2>3 DEF BaselineInv
    <2>5. xray.up /\ mem = file /\ mem # NoConfig => Serves(mem)
        BY <2>2, FileServed
    <2>6. XrayInv'
        BY <2>3, <2>5 DEF XrayInv, Serves
    <2> QED
        BY <2>4, <2>6
<1>16. CASE Boot
    <2> SUFFICES ASSUME Calm' PROVE BaselineInv' /\ XrayInv'
        BY DEF IInv
    <2>1. ~Fault("docker")
        BY CalmFacts DEF Kinds
    <2>2. pc = "boot" /\ pc' = "idle" /\ UNCHANGED <<spent, mem, saved, file, xray>>
        BY <1>16, <2>1 DEF Boot, ApplyNginx
    <2>3. BaselineInv /\ XrayInv
        BY <2>2 DEF IInv, Calm
    <2>4. BaselineInv'
        BY <2>2, <2>3 DEF BaselineInv
    <2>5. XrayInv'
        BY <2>2, <2>3 DEF XrayInv, Serves
    <2> QED
        BY <2>4, <2>5
<1>17. CASE UNCHANGED vars
    BY <1>17, IFrame DEF vars, Mild
<1> QED
    BY <1>1, <1>2, <1>3, <1>4, <1>5, <1>6, <1>7, <1>8, <1>9, <1>10, <1>11, <1>12,
       <1>13, <1>14, <1>15, <1>16, <1>17 DEF Next, Apply

\* IInv holds in every reachable state.
LEMMA IInvCorrect == Spec => []IInv
<1>1. Init => IInv
    BY DEF Init, IInv, BaselineInv, XrayInv
<1>2. TypeOK /\ RecordInv /\ IInv /\ [Next]_vars => IInv'
    BY IStep
<1> QED
    BY <1>1, <1>2, TypeCorrect, RecordInvCorrect, PTL DEF Spec

\* As long as the agent crashed at most once and docker and the disk did not fail,
\* the baseline that liveApply diffs against is what Xray runs whenever no
\* application is in progress, for any users, settings and number of pushes.
THEOREM BaselineCorrect == Spec => []BaselineTrue
<1>1. TypeOK /\ IInv => BaselineTrue
    BY DEF TypeOK, IInv, XrayInv, BaselineTrue
<1> QED
    BY <1>1, TypeCorrect, IInvCorrect, PTL

-----------------------------------------------------------------------------
(* Users are applied live *)

\* What UsersApplyLive asks of a run: pushes, and one stop of the agent at most.
Quiet == /\ \A k \in Kinds \ {"change", "crash"} : spent[k] = 0
         /\ spent["crash"] <= 1

\* The certificate stays as it is, so the watcher has nothing to do.
WatcherInv == cert = seen /\ ~watch

\* Xray is up from the first recorded baseline on.
UpInv == /\ mem # NoConfig \/ saved # NoConfig => xray.up
         /\ pc = "live" => mem # NoConfig
         /\ pc = "record" => xray.up

\* Until the path is chosen Xray runs the baseline.
ServedInv == pc \in {"boot", "idle", "open", "write", "nginx"} /\ mem # NoConfig => Serves(mem)

\* Xray accepts every call that liveApply still has to issue, one per client.
AcceptInv == pc = "live" => /\ \A op \in todo : Accepts(op)
                            /\ \A p, q \in todo : p.tag = q.tag /\ p.user = q.user => p = q

LiveInv == Quiet => /\ WatcherInv /\ UpInv /\ ServedInv /\ AcceptInv
                    /\ pc = "restart" /\ mem # NoConfig => Skeleton(mem) # Skeleton(conf)

\* A fault in such a run is a push or the first crash.
LEMMA QuietFacts ==
    ASSUME TypeOK, NEW k \in Kinds, Fault(k), Quiet'
    PROVE  /\ Quiet /\ k \in {"change", "crash"}
           /\ k = "crash" => spent["crash"] = 0
<1>1. /\ spent \in [Kinds -> Nat] /\ spent' \in [Kinds -> Nat]
      /\ spent'[k] = spent[k] + 1
      /\ \A j \in Kinds : j # k => spent'[j] = spent[j]
    BY FaultFacts DEF TypeOK
<1>2. \A j \in Kinds : spent[j] \in Nat /\ spent[j] <= spent'[j]
    BY <1>1
<1> QED
    BY <1>1, <1>2 DEF Quiet, Kinds

\* A quiet run is a calm one.
LEMMA QuietCalm ==
    ASSUME Quiet
    PROVE  Calm
BY DEF Quiet, Calm, Kinds

\* Xray, which runs the baseline, accepts what Delta makes of it.
LEMMA DeltaAccepted ==
    ASSUME mem \in Config, conf \in Config, Serves(mem), Skeleton(mem) = Skeleton(conf)
    PROVE  /\ \A op \in Delta(mem, conf) : Accepts(op)
           /\ \A p, q \in Delta(mem, conf) : p.tag = q.tag /\ p.user = q.user => p = q
<1> DEFINE B == ClientsOf(mem)
           C == ClientsOf(conf)
<1>1. \A op \in Delta(mem, conf) :
         /\ op = [kind |-> op.kind, tag |-> op.tag, user |-> op.user]
         /\ op.tag \in Tags /\ op.user \in Users
         /\ \/ op.kind = "add" /\ B[op.tag][op.user] = NoId /\ C[op.tag][op.user] # NoId
            \/ /\ op.kind = "replace" /\ B[op.tag][op.user] # NoId
               /\ C[op.tag][op.user] # NoId
            \/ op.kind = "remove" /\ B[op.tag][op.user] # NoId /\ C[op.tag][op.user] = NoId
    BY DEF Delta, Ops
<1>2. ASSUME NEW op \in Delta(mem, conf), op.tag = "tls" PROVE mem.tls
    <2> SUFFICES ASSUME ~mem.tls PROVE FALSE
        OBVIOUS
    <2>1. ~conf.tls
        BY DEF Skeleton, Config
    <2>2. B[op.tag][op.user] = NoId /\ C[op.tag][op.user] = NoId
        BY <1>1, <1>2, <2>1 DEF ClientsOf, NoClients
    <2> QED
        BY <1>1, <2>2
<1>3. xray.up /\ xray.tls = mem.tls /\ xray.clients = B
    BY DEF Serves, Runs, Skeleton
<1>4. ASSUME NEW op \in Delta(mem, conf) PROVE Accepts(op)
    <2>1. Adds(op) <=> B[op.tag][op.user] = NoId
        BY <1>1 DEF Adds
    <2> QED
        BY <1>2, <1>3, <2>1 DEF Accepts
<1>5. ASSUME NEW p \in Delta(mem, conf), NEW q \in Delta(mem, conf),
             p.tag = q.tag, p.user = q.user
      PROVE  p = q
    <2>1. p.kind = q.kind
        BY <1>1, <1>5
    <2> QED
        BY <1>1, <1>5, <2>1
<1> QED
    BY <1>4, <1>5

\* After an accepted call Xray accepts the others, and the second half of a uuid change.
LEMMA AcceptedCall ==
    ASSUME TypeOK, pc = "live", AcceptInv, NEW op \in todo,
           xray' = Altered(op), UNCHANGED <<pc, conf>>,
           todo' = (todo \ {op}) \cup
                     (IF op.kind = "replace" THEN {Readd(op)} ELSE {})
    PROVE  AcceptInv' /\ xray'.up
<1>1. \A o \in todo : Accepts(o) /\ o.tag \in Tags /\ o.user \in Users
    BY DEF AcceptInv, TypeOK, Op
<1>2. /\ xray'.up = xray.up /\ xray'.tls = xray.tls
      /\ \A t \in Tags, u \in Users : xray'.clients[t][u] =
            IF t # op.tag \/ u # op.user THEN xray.clients[t][u]
            ELSE IF Adds(op) THEN conf.clients[u] ELSE NoId
    BY DEF Altered
<1>3. \A o \in todo \ {op} : o.tag # op.tag \/ o.user # op.user
    BY DEF AcceptInv
<1>4. ASSUME NEW o \in todo, o # op PROVE Accepts(o)'
    <2>1. xray'.clients[o.tag][o.user] = xray.clients[o.tag][o.user]
        BY <1>1, <1>2, <1>3, <1>4
    <2> QED
        BY <1>1, <1>2, <2>1 DEF Accepts, Adds
<1>5. CASE op.kind = "replace"
    <2>1. /\ Readd(op).kind = "readd" /\ Readd(op).tag = op.tag /\ Readd(op).user = op.user
        BY DEF Readd
    <2>2. xray'.clients[op.tag][op.user] = NoId /\ xray'.up /\ (op.tag = "tls" => xray'.tls)
        BY <1>1, <1>2, <1>5 DEF Adds, Accepts
    <2>3. Accepts(Readd(op))'
        BY <2>1, <2>2 DEF Accepts, Adds, Readd
    <2>4. \A o \in todo' : Accepts(o)'
        BY <1>4, <1>5, <2>3
    <2>5. \A p, q \in todo' : p.tag = q.tag /\ p.user = q.user => p = q
        BY <1>3, <1>5, <2>1 DEF AcceptInv
    <2> QED
        BY <2>2, <2>4, <2>5 DEF AcceptInv
<1>6. CASE op.kind # "replace"
    <2>1. \A o \in todo' : Accepts(o)'
        BY <1>4, <1>6
    <2>2. \A p, q \in todo' : p.tag = q.tag /\ p.user = q.user => p = q
        BY <1>6 DEF AcceptInv
    <2>3. xray'.up
        BY <1>1, <1>2 DEF Accepts
    <2> QED
        BY <2>1, <2>2, <2>3 DEF AcceptInv
<1> QED
    BY <1>5, <1>6

\* A step that concerns neither Xray nor the baseline nor the operations.
LEMMA LiveFrame ==
    ASSUME WatcherInv', UpInv, ServedInv, AcceptInv,
           pc = "restart" /\ mem # NoConfig => Skeleton(mem) # Skeleton(conf),
           UNCHANGED <<xray, mem, saved, conf, todo>>,
           \/ pc' = pc
           \/ /\ pc \in {"boot", "idle", "open", "write"}
              /\ pc' \in {"idle", "open", "write", "nginx"}
    PROVE  /\ UpInv' /\ ServedInv' /\ AcceptInv'
           /\ pc' = "restart" /\ mem' # NoConfig => Skeleton(mem') # Skeleton(conf')
<1>1. UpInv' /\ ServedInv'
    BY DEF UpInv, ServedInv, Serves
<1>2. AcceptInv'
    BY DEF AcceptInv, Accepts
<1> QED
    BY <1>1, <1>2

\* Every step keeps LiveInv.
LEMMA LiveStep == TypeOK /\ RecordInv /\ IInv /\ LiveInv /\ [Next]_vars => LiveInv'
<1> DEFINE PathInv == pc = "restart" /\ mem # NoConfig => Skeleton(mem) # Skeleton(conf)
           All == WatcherInv /\ UpInv /\ ServedInv /\ AcceptInv /\ PathInv
<1> SUFFICES ASSUME TypeOK, RecordInv, IInv, LiveInv, [Next]_vars, Quiet' PROVE All'
    BY DEF LiveInv, Skeleton
<1> USE DEF agentVars
<1>k. \A k \in Kinds \ {"change", "crash"} : ~Fault(k)
    BY QuietFacts
<1>c. NoConfig \notin Config
    BY ApplyAssumption
<1>s. UNCHANGED spent => Quiet
    BY DEF Quiet
<1>q. Quiet => All /\ BaselineInv /\ XrayInv
    BY QuietCalm DEF LiveInv, IInv, Skeleton
<1>1. ASSUME NEW c \in Config, PanelChange(c) PROVE All'
    <2>1. Quiet
        BY <1>1, QuietFacts DEF PanelChange, Kinds
    <2>2. WatcherInv' /\ All
        BY <1>1, <1>q, <2>1 DEF PanelChange, WatcherInv
    <2> QED
        BY <1>1, <2>2, LiveFrame DEF PanelChange
<1>2. CASE CertChange
    BY <1>2, <1>k DEF CertChange, Kinds
<1>3. CASE XrayRestart
    <2>1. ~xray.up /\ file # NoConfig /\ UNCHANGED spent /\ xray' = Loaded
        BY <1>3, <1>k DEF XrayRestart, Kinds
    <2>2. All
        BY <1>s, <1>q, <2>1
    <2>3. xray'.up /\ mem = NoConfig /\ pc # "live" /\ pc # "record"
        BY <2>1, <2>2 DEF Loaded, UpInv
    <2>4. UNCHANGED <<pc, mem, saved, conf, todo, cert, seen, watch>>
        BY <1>3 DEF XrayRestart
    <2> QED
        BY <2>2, <2>3, <2>4 DEF WatcherInv, UpInv, ServedInv, AcceptInv
<1>4. CASE Receive
    <2>1. All
        BY <1>4, <1>s, <1>q DEF Receive
    <2>2. WatcherInv'
        BY <1>4, <2>1 DEF Receive, WatcherInv
    <2> QED
        BY <1>4, <2>1, <2>2, LiveFrame DEF Receive
<1>5. CASE WatchTick
    BY <1>5, <1>s, <1>q DEF WatchTick, WatcherInv
<1>6. CASE WatchRestart
    <2>1. UNCHANGED spent
        BY <1>6, <1>k DEF WatchRestart, Kinds
    <2> QED
        BY <1>6, <1>s, <1>q, <2>1 DEF WatchRestart, WatcherInv
<1>7. ASSUME NEW c \in Callers, Lock(c) PROVE All'
    <2>1. All /\ WatcherInv'
        BY <1>7, <1>s, <1>q DEF Lock, WatcherInv
    <2>2. UpInv' /\ ServedInv' /\ AcceptInv' /\ PathInv'
        BY <1>7, <2>1 DEF Lock, UpInv, ServedInv, AcceptInv, Serves
    <2> QED
        BY <2>1, <2>2
<1>8. CASE OpenFile
    <2>1. ~Fault("write")
        BY <1>k DEF Kinds
    <2>2. All /\ WatcherInv'
        BY <1>8, <1>s, <1>q, <2>1 DEF OpenFile, WatcherInv
    <2> QED
        BY <1>8, <2>1, <2>2, LiveFrame DEF OpenFile
<1>9. CASE WriteFile
    <2>1. ~Fault("write")
        BY <1>k DEF Kinds
    <2>2. All /\ WatcherInv'
        BY <1>9, <1>s, <1>q, <2>1 DEF WriteFile, WatcherInv
    <2> QED
        BY <1>9, <2>1, <2>2, LiveFrame DEF WriteFile
<1>10. CASE ChoosePath
    <2>1. ~Fault("docker")
        BY <1>k DEF Kinds
    <2>2. /\ pc = "nginx" /\ UNCHANGED <<spent, mem, saved, conf, xray, cert, seen, watch>>
        BY <1>10, <2>1 DEF ChoosePath, ApplyNginx
    <2>3. All /\ conf \in Config
        BY <1>s, <1>q, <2>2 DEF TypeOK
    <2>4. CASE mem # NoConfig /\ Skeleton(mem) = Skeleton(conf)
        <3>1. pc' = "live" /\ todo' = Delta(mem, conf) /\ mem \in Config
            BY <1>10, <2>4 DEF ChoosePath, TypeOK
        <3>2. Serves(mem) /\ xray.up
            BY <2>2, <2>3, <2>4 DEF ServedInv, UpInv
        <3>3. AcceptInv'
            BY <2>2, <2>3, <2>4, <3>1, <3>2, DeltaAccepted DEF AcceptInv, Accepts
        <3> QED
            BY <2>2, <2>3, <2>4, <3>1, <3>3 DEF WatcherInv, UpInv, ServedInv
    <2>5. CASE ~(mem # NoConfig /\ Skeleton(mem) = Skeleton(conf))
        <3>1. pc' = "restart"
            BY <1>10, <2>5 DEF ChoosePath
        <3> QED
            BY <2>2, <2>3, <2>5, <3>1 DEF WatcherInv, UpInv, ServedInv, AcceptInv, Skeleton
    <2> QED
        BY <2>4, <2>5
<1>11. ASSUME NEW op \in todo, LiveCall(op) PROVE All'
    <2>1. ~Fault("grpc")
        BY <1>k DEF Kinds
    <2>2. /\ pc = "live" /\ UNCHANGED <<spent, conf, mem, saved, cert, seen, watch>>
        BY <1>11, <2>1 DEF LiveCall
    <2>3. All /\ Accepts(op)
        BY <1>s, <1>q, <2>2 DEF AcceptInv
    <2>4. /\ xray' = Altered(op) /\ pc' = pc
          /\ todo' = (todo \ {op}) \cup
                       (IF op.kind = "replace" THEN {Readd(op)} ELSE {})
        BY <1>11, <2>1, <2>3 DEF LiveCall
    <2>5. AcceptInv' /\ xray'.up
        BY <2>2, <2>3, <2>4, AcceptedCall
    <2> QED
        BY <2>2, <2>3, <2>4, <2>5 DEF WatcherInv, UpInv, ServedInv
<1>12. CASE LiveDone
    <2>1. ~Fault("persist")
        BY <1>k DEF Kinds
    <2>2. /\ pc = "live" /\ todo = {} /\ mem' = conf /\ saved' = conf /\ pc' = "idle"
          /\ UNCHANGED <<spent, xray, cert, seen, watch>>
        BY <1>12, <2>1 DEF LiveDone, SetBaseline, Unlock
    <2>3. All /\ XrayInv
        BY <1>s, <1>q, <2>2
    <2>4. xray.up /\ Runs(xray, conf)
        BY <2>2, <2>3, LiveComplete DEF UpInv, Serves
    <2> QED
        BY <2>2, <2>3, <2>4 DEF WatcherInv, UpInv, ServedInv, AcceptInv, Serves
<1>13. CASE DockerRestart
    <2>1. ~Fault("docker")
        BY <1>k DEF Kinds
    <2>2. /\ pc = "restart" /\ pc' = "record" /\ xray' = Loaded
          /\ UNCHANGED <<spent, mem, saved, conf, todo, cert, seen, watch>>
        BY <1>13, <2>1 DEF DockerRestart
    <2>3. All /\ file = conf /\ conf # NoConfig
        BY <1>s, <1>q, <2>2 DEF TypeOK, RecordInv, FileInv
    <2>4. xray'.up
        BY <2>2, <2>3 DEF Loaded
    <2> QED
        BY <2>2, <2>3, <2>4 DEF WatcherInv, UpInv, ServedInv, AcceptInv
<1>14. CASE Record
    <2>1. ~Fault("persist")
        BY <1>k DEF Kinds
    <2>2. /\ pc = "record" /\ mem' = conf /\ saved' = conf /\ pc' = "idle"
          /\ UNCHANGED <<spent, xray, cert, seen, watch>>
        BY <1>14, <2>1 DEF Record, SetBaseline, Unlock
    <2>3. All
        BY <1>s, <1>q, <2>2
    <2>4. xray.up /\ Runs(xray, conf)
        BY <2>2, <2>3 DEF UpInv, RecordInv, RecordedIsRunning, Serves
    <2> QED
        BY <2>2, <2>3, <2>4 DEF WatcherInv, UpInv, ServedInv, AcceptInv, Serves
<1>15. CASE AgentRestart
    <2>1. Quiet /\ spent["crash"] = 0
        BY <1>15, QuietFacts DEF AgentRestart, Kinds
    <2>2. All /\ BaselineInv /\ XrayInv /\ saved = mem
        BY <1>q, <2>1 DEF BaselineInv
    <2>3. /\ pc' = "boot" /\ ~watch' /\ UNCHANGED <<saved, xray, cert, seen>>
          /\ mem' = IF mem = file THEN mem ELSE NoConfig
        BY <1>15, <2>2 DEF AgentRestart
    <2>4. mem' # NoConfig => xray.up /\ Serves(mem)
        BY <2>2, <2>3, FileServed DEF UpInv
    <2> QED
        BY <2>2, <2>3, <2>4 DEF WatcherInv, UpInv, ServedInv, AcceptInv, Serves
<1>16. CASE Boot
    <2>1. ~Fault("docker")
        BY <1>k DEF Kinds
    <2>2. All /\ WatcherInv'
        BY <1>16, <1>s, <1>q, <2>1 DEF Boot, ApplyNginx, WatcherInv
    <2> QED
        BY <1>16, <2>2, LiveFrame DEF Boot
<1>17. CASE UNCHANGED vars
    <2>1. All /\ WatcherInv'
        BY <1>17, <1>s, <1>q DEF vars, WatcherInv
    <2> QED
        BY <1>17, <2>1, LiveFrame DEF vars
<1> QED
    BY <1>1, <1>2, <1>3, <1>4, <1>5, <1>6, <1>7, <1>8, <1>9, <1>10, <1>11, <1>12,
       <1>13, <1>14, <1>15, <1>16, <1>17 DEF Next, Apply

\* Only a new skeleton restarts Xray (live_grpc.go, baseline.go): with a baseline in
\* hand every call liveApply issues is accepted, for any users, settings and number of
\* pushes, also after the agent stopped at any point, unless gRPC, docker, the disk or
\* Xray itself failed or the certificate changed.
THEOREM AppliedLiveCorrect == Spec => []UsersApplyLive
<1>1. Init => LiveInv
    BY DEF Init, LiveInv, WatcherInv, UpInv, ServedInv, AcceptInv
<1>2. TypeOK /\ RecordInv /\ IInv /\ LiveInv /\ [Next]_vars => LiveInv'
    BY LiveStep
<1>3. LiveInv => UsersApplyLive
    BY DEF LiveInv, Quiet, UsersApplyLive
<1> QED
    BY <1>1, <1>2, <1>3, TypeCorrect, RecordInvCorrect, IInvCorrect, PTL DEF Spec
=============================================================================
