------------------------------ MODULE Standalone ------------------------------
(***************************************************************************)
(* A node without a panel (internal/agent/standalone.go, localstore.go):   *)
(* the container's own process applies the local users when it starts, and *)
(* every `agent user add|rm` and `agent apply` is a process of its own in  *)
(* the same container.  They share users.json, config.json, the recorded   *)
(* baseline and Xray; the mutexes of applyConfig, in each process's memory,*)
(* keep none of them apart.                                                *)
(*                                                                         *)
(* os.WriteFile truncates the file, then writes it: a users.json read in   *)
(* between is empty, which loadLocalDB takes for no users, and such a      *)
(* config.json does not parse.  All settings but the users come from the   *)
(* environment and stay the same.  XrayApply has the detail of one apply.  *)
(***************************************************************************)
EXTENDS Naturals, FiniteSets, Functions

CONSTANTS
    Commands,    \* slots for CLI processes
    Boot,        \* the container's own process
    Names,       \* user names, the emails of Xray
    Accounts,    \* a name with the uuid an add gave it
    Name,        \* [Accounts -> Names]
    NoConfig,    \* a file that is missing, or does not parse
    MaxCommands, \* commands run
    MaxKills,    \* processes, or the container, that die midway
    MaxDockers,  \* failed docker restarts
    MaxGrpcs,    \* failed gRPC calls
    MaxXrays,    \* restarts of Xray by itself
    MaxPersists, \* baselines that could not be saved
    MaxOverlaps, \* commands started while another process runs
    MaxEvents    \* all but the commands together

ASSUME StandaloneAssumption ==
    /\ Boot \notin Commands
    /\ Name \in [Accounts -> Names]
    /\ NoConfig \notin Names /\ \A c \in SUBSET Accounts : NoConfig # c
    /\ {MaxCommands, MaxKills, MaxDockers, MaxGrpcs, MaxXrays, MaxPersists, MaxOverlaps,
        MaxEvents} \subseteq Nat

VARIABLES
    users,     \* users.json
    file,      \* config.json: its clients
    saved,     \* xray-baseline.json: the config.json it was recorded for
    xray,      \* whether Xray runs, and with which clients
    proc,      \* the processes
    booted,    \* the container's process has applied since it started
    used,      \* history: accounts generated
    kept,      \* history: the users, had every save been one atomic step
    raced,     \* history: two commands read and saved users.json at the same time
    fresh,     \* history: the last process to end had applied successfully
    halfway,   \* history: since an apply succeeded and was recorded, one stopped halfway
               \* or could not save its baseline
    astray,    \* history: since Xray restarted last two processes ran at the same time,
               \* or an apply stopped halfway when halfway held
    spent      \* budgets used up

vars == <<users, file, saved, xray, proc, booted, used, kept, raced, fresh, halfway, astray, spent>>

Procs == Commands \cup {Boot}
Kinds == {"command", "kill", "docker", "grpc", "xray", "persist", "overlap"}
Budget == [command |-> MaxCommands, kill |-> MaxKills, docker |-> MaxDockers,
           grpc |-> MaxGrpcs, xray |-> MaxXrays, persist |-> MaxPersists,
           overlap |-> MaxOverlaps]
Config == {NoConfig} \cup SUBSET Accounts

Gone == [pc |-> "none", op |-> "apply", name |-> NoConfig, db |-> {}, conf |-> {}, mem |-> NoConfig]

Distinct(c) == \A a, b \in c : Name[a] = Name[b] => a = b

TypeOK ==
    /\ users \in SUBSET Accounts /\ Distinct(users)
    /\ {file, saved} \subseteq Config
    /\ xray \in [up : BOOLEAN, clients : SUBSET Accounts] /\ Distinct(xray.clients)
    /\ proc \in [Procs -> [pc : {"none", "load", "truncate", "write", "reload", "open",
                                 "config", "live", "restart", "record"},
                           op : {"add", "rm", "apply"}, name : Names \cup {NoConfig},
                           db : SUBSET Accounts, conf : SUBSET Accounts, mem : Config]]
    /\ used \in SUBSET Accounts /\ users \subseteq used /\ kept \in SUBSET used
    /\ {booted, raced, fresh, halfway, astray} \subseteq BOOLEAN
    /\ spent \in [Kinds -> Nat]

\* A container that was just installed.
Init ==
    /\ users = {} /\ file = NoConfig /\ saved = NoConfig
    /\ xray = [up |-> FALSE, clients |-> {}]
    /\ proc = [p \in Procs |-> IF p = Boot THEN [Gone EXCEPT !.pc = "reload"] ELSE Gone]
    /\ booted = FALSE /\ used = {} /\ kept = {}
    /\ raced = FALSE /\ fresh = FALSE /\ halfway = FALSE /\ astray = FALSE
    /\ spent = [k \in Kinds |-> 0]

-----------------------------------------------------------------------------
Within(b) ==
    /\ \A k \in Kinds : b[k] <= Budget[k]
    /\ SumFunction(b) - b["command"] <= MaxEvents
SpendAll(ks) ==
    /\ spent' = [k \in Kinds |-> IF k \in ks THEN spent[k] + 1 ELSE spent[k]]
    /\ Within(spent')
Spend(k) == SpendAll({k})

At(p, pc) == proc[p].pc = pc
Goto(p, pc) == proc' = [proc EXCEPT ![p].pc = pc]
AllRest == \A p \in Procs : At(p, "none")

\* Process p ends without an error.
Done(p) == /\ proc' = [proc EXCEPT ![p] = Gone]
           /\ fresh' = TRUE
           /\ booted' = (booted \/ p = Boot)

\* Mutant of Seeded: the hash of config.json is not compared.
SeededAlways == saved

\* liveState.seed: a baseline counts only with the hash of config.json as it is.
Seeded == IF saved = file THEN saved ELSE NoConfig

\* The container's process when it starts.
Started == [Gone EXCEPT !.pc = "reload", !.mem = Seeded]

Added(p) == proc[p].conf \ proc[p].mem
Removed(p) == proc[p].mem \ proc[p].conf

\* Xray when some of p's calls, and only these, took effect.
Partly(p) ==
    {x \in [up : {TRUE}, clients : SUBSET Accounts] :
        /\ xray.up /\ Distinct(x.clients)
        /\ xray.clients \ Removed(p) \subseteq x.clients
        /\ x.clients \subseteq xray.clients \cup Added(p)}

\* p has truncated config.json and not yet recorded the baseline.
Applying(p) == proc[p].pc \in {"config", "live", "restart", "record"}

\* The container's process ends the container, and everything in it, with itself.
Ended(p) == IF p = Boot THEN Procs ELSE {p}

\* What p leaves behind when it ends with an error.
Leave(p) ==
    /\ xray' \in {xray} \cup UNION {Partly(q) : q \in {r \in Ended(p) : At(r, "live")}}
    /\ kept' = IF \E q \in Ended(p) : At(q, "write") THEN {} ELSE kept
    /\ fresh' = FALSE
    /\ halfway' = (halfway \/ \E q \in Ended(p) : Applying(q))
    /\ astray' = (astray \/ (halfway /\ \E q \in Ended(p) : Applying(q)))

\* Mutant of Stop: the container's process only logs its error and idles on.
StopIdles(p) ==
    /\ proc' = [proc EXCEPT ![p] = Gone]
    /\ Leave(p)
    /\ UNCHANGED booted

\* p ends with an error; Docker starts the container again.
Stop(p) ==
    /\ proc' = [q \in Procs |-> IF q \notin Ended(p) THEN proc[q]
                                ELSE IF q = Boot THEN Started ELSE Gone]
    /\ Leave(p)
    /\ booted' = (booted /\ p # Boot)

\* Xray reads config.json when it starts and exits when it cannot parse it.
Loaded == IF file = NoConfig THEN [up |-> FALSE, clients |-> xray.clients]
                             ELSE [up |-> TRUE, clients |-> file]

-----------------------------------------------------------------------------
(* RunCLI *)

\* ConfigFromEnv seeds the baseline of the new process.
Start(p) ==
    /\ At(p, "none") /\ p # Boot
    /\ SpendAll({"command"} \cup IF AllRest THEN {} ELSE {"overlap"})
    /\ \E op \in {"add", "rm", "apply"} : \E n \in IF op = "apply" THEN {NoConfig} ELSE Names :
          proc' = [proc EXCEPT ![p] = [Gone EXCEPT !.op = op, !.name = n, !.mem = Seeded,
                                           !.pc = IF op = "apply" THEN "reload" ELSE "load"]]
    /\ astray' = (astray \/ ~AllRest)
    /\ UNCHANGED <<users, file, saved, xray, booted, used, kept, raced, fresh, halfway>>

Named(n, c) == {a \in c : Name[a] = n}
Mine(p) == Named(proc[p].name, users)
Saving(p) == At(p, "truncate") \/ At(p, "write")

\* Mutant of Without: the users after the removed one are lost with it.
WithoutRest(p) == {}

\* The users without the one to remove.
Without(p) == users \ Mine(p)

\* Mutant of Load: a name that exists is added again.
LoadUnchecked(p) ==
    /\ At(p, "load")
    /\ \/ /\ proc[p].op = "add"
          /\ \E a \in Named(proc[p].name, Accounts \ used) :
                /\ used' = used \cup {a}
                /\ proc' = [proc EXCEPT ![p].db = users \cup {a}, ![p].pc = "truncate"]
       \/ /\ proc[p].op = "rm" /\ Mine(p) # {}
          /\ proc' = [proc EXCEPT ![p].db = Without(p), ![p].pc = "truncate"]
          /\ UNCHANGED used
       \/ /\ proc[p].op = "rm" /\ Mine(p) = {}
          /\ proc' = [proc EXCEPT ![p] = Gone]
          /\ UNCHANGED used
    /\ raced' = (raced \/ \E q \in Procs \ {p} : Saving(q))
    /\ UNCHANGED <<users, file, saved, xray, booted, kept, fresh, halfway, astray, spent>>

\* loadLocalDB; the command ends when the name to add is there, or the name to
\* remove is not.
Load(p) ==
    /\ At(p, "load")
    /\ \/ /\ proc[p].op = "add" /\ Mine(p) = {}
          /\ \E a \in Named(proc[p].name, Accounts \ used) :
                /\ used' = used \cup {a}
                /\ proc' = [proc EXCEPT ![p].db = users \cup {a}, ![p].pc = "truncate"]
       \/ /\ proc[p].op = "rm" /\ Mine(p) # {}
          /\ proc' = [proc EXCEPT ![p].db = Without(p), ![p].pc = "truncate"]
          /\ UNCHANGED used
       \/ /\ proc[p].op = "rm" <=> Mine(p) = {}
          /\ proc' = [proc EXCEPT ![p] = Gone]
          /\ UNCHANGED used
    /\ raced' = (raced \/ \E q \in Procs \ {p} : Saving(q))
    /\ UNCHANGED <<users, file, saved, xray, booted, kept, fresh, halfway, astray, spent>>

\* saveLocalDB: os.WriteFile opens users.json, truncating it ...
Truncate(p) ==
    /\ At(p, "truncate")
    /\ users' = {}
    /\ Goto(p, "write")
    /\ UNCHANGED <<file, saved, xray, booted, used, kept, raced, fresh, halfway, astray, spent>>

\* ... and writes it.
Write(p) ==
    /\ At(p, "write")
    /\ users' = proc[p].db
    /\ kept' = IF proc[p].op = "rm" THEN kept \ Named(proc[p].name, kept)
                                    ELSE kept \cup Named(proc[p].name, proc[p].db)
    /\ Goto(p, "reload")
    /\ UNCHANGED <<file, saved, xray, booted, used, raced, fresh, halfway, astray, spent>>

-----------------------------------------------------------------------------
(* applyStandalone, from a command or from RunStandalone *)

\* The users are read again.
Reload(p) ==
    /\ At(p, "reload")
    /\ proc' = [proc EXCEPT ![p].conf = users, ![p].pc = "open"]
    /\ UNCHANGED <<users, file, saved, xray, booted, used, kept, raced, fresh, halfway, astray, spent>>

\* writeConfig truncates config.json ...
OpenConfig(p) ==
    /\ At(p, "open")
    /\ file' = NoConfig
    /\ Goto(p, "config")
    /\ UNCHANGED <<users, saved, xray, booted, used, kept, raced, fresh, halfway, astray, spent>>

\* ... and writes it; with a baseline in memory the live path is tried.
WriteConfig(p) ==
    /\ At(p, "config")
    /\ file' = proc[p].conf
    /\ Goto(p, IF proc[p].mem = NoConfig THEN "restart" ELSE "live")
    /\ UNCHANGED <<users, saved, xray, booted, used, kept, raced, fresh, halfway, astray, spent>>

\* AlterInbound refuses to add an email Xray has and to remove one it has not.
Accepts(p) ==
    LET names == {Name[a] : a \in xray.clients}
        off   == {Name[a] : a \in Removed(p)}
    IN  xray.up /\ off \subseteq names /\ {Name[a] : a \in Added(p)} \cap (names \ off) = {}

\* liveApply succeeded.
Live(p) ==
    /\ At(p, "live") /\ Accepts(p)
    /\ xray' = [xray EXCEPT !.clients =
                   {a \in @ : \A b \in Removed(p) : Name[a] # Name[b]} \cup Added(p)]
    /\ Goto(p, "record")
    /\ UNCHANGED <<users, file, saved, booted, used, kept, raced, fresh, halfway, astray, spent>>

\* One of its calls failed, after some of the others took effect.
LiveFails(p) ==
    /\ At(p, "live")
    /\ IF Accepts(p) THEN Spend("grpc") ELSE UNCHANGED spent
    /\ xray' \in {xray} \cup Partly(p)
    /\ Goto(p, "restart")
    /\ UNCHANGED <<users, file, saved, booted, used, kept, raced, fresh, halfway, astray>>

\* Mutant of Restart: the error of docker restart is ignored.
RestartIgnores(p) ==
    /\ At(p, "restart")
    /\ \/ xray' = Loaded /\ UNCHANGED spent
       \/ Spend("docker") /\ UNCHANGED xray
    /\ Goto(p, "record")
    /\ UNCHANGED <<users, file, saved, booted, used, kept, raced, fresh, halfway, astray>>

\* docker restart; when it fails applyConfig returns the error.
Restart(p) ==
    /\ At(p, "restart")
    /\ \/ /\ xray' = Loaded
          /\ Goto(p, "record")
          /\ UNCHANGED <<booted, kept, fresh, halfway, astray, spent>>
       \/ /\ Spend("docker")
          /\ Stop(p)
    /\ UNCHANGED <<users, file, saved, used, raced>>

\* The baseline is recorded, and the process has succeeded; persist ignores that it
\* could not write or rename the file, and leaves the old one.
Record(p) ==
    /\ At(p, "record")
    /\ \/ saved' = proc[p].conf /\ halfway' = FALSE /\ UNCHANGED spent
       \/ UNCHANGED saved /\ halfway' = TRUE /\ Spend("persist")
    /\ Done(p)
    /\ UNCHANGED <<users, file, xray, used, kept, raced, astray>>

-----------------------------------------------------------------------------
(* The rest of the system *)

\* A command is interrupted or a write of its fails; the container is stopped.
Kill(p) ==
    /\ p = Boot \/ ~At(p, "none")
    /\ Spend("kill")
    /\ Stop(p)
    /\ UNCHANGED <<users, file, saved, used, raced>>

\* Xray restarts by itself.  Between commands it then runs config.json, whatever
\* the recorded baseline says.
XrayRestart ==
    /\ xray.up
    /\ Spend("xray")
    /\ xray' = Loaded
    /\ astray' = (astray /\ ~AllRest)
    /\ halfway' = (halfway \/ astray)
    /\ fresh' = (fresh /\ ~astray)
    /\ UNCHANGED <<users, file, saved, proc, booted, used, kept, raced>>

\* restart: always
XrayRetry ==
    /\ ~xray.up /\ file # NoConfig
    /\ xray' = Loaded
    /\ UNCHANGED <<users, file, saved, proc, booted, used, kept, raced, fresh, halfway, astray, spent>>

ProcStep(p) ==
    \/ Load(p) \/ Truncate(p) \/ Write(p)
    \/ Reload(p) \/ OpenConfig(p) \/ WriteConfig(p)
    \/ Live(p) \/ LiveFails(p) \/ Restart(p) \/ Record(p)

Next ==
    \/ \E p \in Procs : Start(p) \/ ProcStep(p) \/ Kill(p)
    \/ XrayRestart \/ XrayRetry

Spec == Init /\ [][Next]_vars

\* Processes go on, and Docker keeps starting an Xray that exited; commands are
\* run by the operator, or not.
FairSpec == Spec /\ WF_vars(XrayRetry \/ \E p \in Procs : ProcStep(p))

-----------------------------------------------------------------------------
(* Properties *)

\* Nothing runs, and neither an overlap nor a failure after a failure led Xray astray.
Quiet == AllRest /\ ~astray

\* standalone.go:112, cliAddUser and cliRemoveUser: read, change and save of
\* users.json amount to one step, whatever applies overlap them, unless two of
\* them overlap.  A command that dies while saving loses every user.
NoLostUpdate == (~raced /\ \A p \in Procs : ~At(p, "write")) => users = kept

\* docs/deployment.md:142-147: the users are those the node lets in.  When nothing
\* runs and the last command succeeded, Xray runs exactly the users of users.json,
\* whatever died or failed before, unless since Xray was restarted last processes
\* overlapped, or an apply stopped halfway after another one had, or after one whose
\* baseline could not be saved.
AppliedAtRest == (Quiet /\ fresh) => (xray.up /\ xray.clients = users /\ file = users)

\* baseline.go:60-63: across processes too a baseline whose hash matches
\* config.json describes the running Xray, with the same exceptions.
BaselineTrue == (Quiet /\ saved = file /\ saved # NoConfig) => (~xray.up \/ xray.clients = saved)

\* RunStandalone gives up when it cannot apply and is started again: every start
\* of the container leads to an apply that succeeds, and Xray stays up from some
\* point on, unless a killed command left half a config.json.
BootApplies == <>[](booted /\ (xray.up \/ file = NoConfig))
=============================================================================
