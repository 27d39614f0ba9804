------------------------------ MODULE XrayApply ------------------------------
(***************************************************************************)
(* How a node's agent makes Xray run a pushed configuration: applyConfig   *)
(* (internal/agent/xray.go) with its live gRPC path (live_grpc.go), the    *)
(* durable baseline that lets a restarted agent keep using it              *)
(* (baseline.go), the certificate watcher that re-applies the last         *)
(* configuration (certwatch.go), and nginx's SNI routing (nginx.go).       *)
(*                                                                         *)
(* A configuration is its non-user settings, whether it has the TLS        *)
(* inbound, and the id of each user.  Its bytes, its SHA-256 and its       *)
(* (skeleton, clients) split are functions of it, so a baseline record is  *)
(* the configuration it was taken from.                                    *)
(***************************************************************************)
EXTENDS Naturals, FiniteSets

CONSTANTS
    Users,            \* emails
    Ids,              \* uuids
    NoId,             \* the user is not in the client list
    Settings,         \* non-user settings, REALITY serverName included
    NoConfig,         \* no configuration, or a file that does not parse
    MaxChanges,       \* configurations the panel pushes after the first
    MaxCerts,         \* times the certificate file changes
    MaxGrpcFaults,    \* gRPC calls that fail for no fault of their own
    MaxDockerFaults,  \* failed docker commands
    MaxWriteErrors,   \* failed writes of config.json
    MaxPersistErrors, \* failed writes of xray-baseline.json
    MaxCrashes,       \* agent restarts
    MaxXrayRestarts,  \* restarts of Xray by itself
    MaxKinds          \* kinds of the above that meet in one behaviour

Kinds == {"change", "cert", "grpc", "docker", "write", "persist", "crash", "xray"}
Bound == [change |-> MaxChanges, cert |-> MaxCerts, grpc |-> MaxGrpcFaults,
          docker |-> MaxDockerFaults, write |-> MaxWriteErrors,
          persist |-> MaxPersistErrors, crash |-> MaxCrashes,
          xray |-> MaxXrayRestarts]

ClientSet == [Users -> Ids \cup {NoId}]
Config    == [set : Settings, tls : BOOLEAN, clients : ClientSet]

ASSUME ApplyAssumption ==
    /\ NoId \notin Ids /\ NoConfig \notin Config /\ NoConfig \notin Settings
    /\ Bound \in [Kinds -> Nat]

VARIABLES
    desired,    \* the panel's current configuration for the node
    delivered,  \* it has reached the agent's session
    call,       \* [Callers -> argument of a pending applyConfig, or NoConfig]
    holder,     \* the caller inside apply.mu, or "none"
    pc,         \* where that caller is in applyConfig
    conf,       \* the configuration it applies, after stripTLSIfNoCert
    todo,       \* gRPC operations liveApply still has to issue
    last,       \* applyState.last
    mem,        \* liveState in memory, NoConfig when its skeleton is ""
    saved,      \* xray-baseline.json
    file,       \* config.json
    nginxFile,  \* serverName routed by nginx.conf, NoConfig when TLS only
    nginx,      \* serverName routed by the running nginx
    xray,       \* what Xray runs
    cert,       \* version of the certificate file, 0 when absent
    seen,       \* version the watcher saw last
    watch,      \* the watcher is about to run a plain docker restart
    spent       \* [Kinds -> Nat]: how much of each bound is used up

agentVars == <<call, holder, pc, conf, todo, last, mem, seen, watch>>
vars == <<desired, delivered, agentVars, saved, file, nginxFile, nginx, xray,
          cert, spent>>

Callers == {"session", "watcher"}
Tags    == {"tls", "reality"}
Op      == [kind : {"replace", "readd", "add", "remove"}, tag : Tags, user : Users]
Xray    == [up : BOOLEAN, set : Settings, tls : BOOLEAN,
            clients : [Tags -> ClientSet]]

TypeOK ==
    /\ desired \in Config
    /\ delivered \in BOOLEAN
    /\ call \in [Callers -> Config \cup {NoConfig}]
    /\ holder \in Callers \cup {"none"}
    /\ pc \in {"boot", "idle", "open", "write", "nginx", "live", "restart", "record"}
    /\ holder = "none" <=> pc \in {"boot", "idle"}
    /\ conf \in Config \cup {NoConfig} /\ (conf = NoConfig <=> holder = "none")
    /\ todo \in SUBSET Op
    /\ {last, mem, saved, file} \subseteq Config \cup {NoConfig}
    /\ {nginxFile, nginx} \subseteq Settings \cup {NoConfig}
    /\ xray \in Xray
    /\ cert \in Nat /\ seen \in Nat
    /\ watch \in BOOLEAN
    /\ spent \in [Kinds -> Nat]

NoClients == [u \in Users |-> NoId]

\* A node just installed: the agent is up, Xray has nothing it can run.
Init ==
    /\ desired \in Config
    /\ delivered = FALSE
    /\ call = [c \in Callers |-> NoConfig]
    /\ holder = "none" /\ pc = "idle"
    /\ conf = NoConfig /\ todo = {} /\ last = NoConfig
    /\ mem = NoConfig /\ saved = NoConfig /\ file = NoConfig
    /\ nginxFile = NoConfig /\ nginx = NoConfig
    /\ \E s \in Settings :
          xray = [up |-> FALSE, set |-> s, tls |-> FALSE,
                  clients |-> [t \in Tags |-> NoClients]]
    /\ cert \in 0..1 /\ seen = cert
    /\ watch = FALSE
    /\ spent = [k \in Kinds |-> 0]

-----------------------------------------------------------------------------
Fault(k) ==
    /\ spent[k] < Bound[k]
    /\ Cardinality({j \in Kinds \ {k} : spent[j] > 0}) < MaxKinds
    /\ spent' = [spent EXCEPT ![k] = @ + 1]

\* stripTLSIfNoCert
Strip(c) == IF cert = 0 THEN [set |-> c.set, tls |-> FALSE, clients |-> c.clients]
                        ELSE c

\* parseClients: what decides between the live path and a restart, and the
\* client list of each inbound.
Skeleton(c) == <<c.set, c.tls>>
ClientsOf(c) == [t \in Tags |-> IF t = "reality" \/ c.tls THEN c.clients ELSE NoClients]

\* Xray after it read config.json; it exits on a file it cannot parse.
Loaded == IF file = NoConfig
          THEN [up |-> FALSE, set |-> xray.set, tls |-> xray.tls,
                clients |-> xray.clients]
          ELSE [up |-> TRUE, set |-> file.set, tls |-> file.tls,
                clients |-> ClientsOf(file)]

\* Xray x is up and runs exactly c.
Runs(x, c) == /\ x.up
              /\ <<x.set, x.tls>> = Skeleton(c)
              /\ x.clients = ClientsOf(c)
Serves(c) == Runs(xray, c)

\* The operations of one kind: the clients whose ids in b and in c satisfy P.
Ops(kind, b, c, P(_, _)) ==
    {[kind |-> kind, tag |-> q[1], user |-> q[2]] :
        q \in {r \in Tags \X Users : P(ClientsOf(b)[r[1]][r[2]],
                                       ClientsOf(c)[r[1]][r[2]])}}


\* Mutant of Delta: users Xray already has are added again.
DeltaAddsAll(b, c) ==
    Ops("add", b, c, LAMBDA o, n : n # NoId)
      \cup Ops("remove", b, c, LAMBDA o, n : o # NoId /\ n = NoId)

\* The operations that turn baseline b into c.
Delta(b, c) ==
    Ops("add", b, c, LAMBDA o, n : o = NoId /\ n # NoId)
      \cup Ops("replace", b, c, LAMBDA o, n : o # NoId /\ n # NoId /\ o # n)
      \cup Ops("remove", b, c, LAMBDA o, n : o # NoId /\ n = NoId)

\* Program order: one tag after the other, a half-done replacement first,
\* removals last, and map order (any) within a loop.
Rank(op) == (IF op.tag = "tls" THEN 0 ELSE 3)
              + (CASE op.kind = "readd" -> 0
                   [] op.kind \in {"add", "replace"} -> 1
                   [] op.kind = "remove" -> 2)

\* AlterInbound: Xray refuses an unknown tag, an email it has, one it has not.
Adds(op) == op.kind \in {"add", "readd"}
Accepts(op) == /\ xray.up
               /\ op.tag = "tls" => xray.tls
               /\ Adds(op) <=> xray.clients[op.tag][op.user] = NoId
Altered(op) ==
    [up |-> xray.up, set |-> xray.set, tls |-> xray.tls,
     clients |-> [t \in Tags |-> [u \in Users |->
         IF t # op.tag \/ u # op.user THEN xray.clients[t][u]
         ELSE IF Adds(op) THEN conf.clients[u] ELSE NoId]]]

\* Mutant of Unlock: the mutex is not released.
UnlockKeepsHolder == /\ call' = [call EXCEPT ![holder] = NoConfig]
                     /\ pc' = "idle" /\ conf' = NoConfig /\ todo' = {}
                     /\ UNCHANGED holder

\* applyConfig returns.
Unlock == /\ call' = [call EXCEPT ![holder] = NoConfig]
          /\ holder' = "none" /\ pc' = "idle" /\ conf' = NoConfig /\ todo' = {}

\* liveState.set, or the end of liveApply: memory, then the file, whose write
\* errors are ignored.
SetBaseline(c) ==
    /\ mem' = c
    /\ \/ saved' = c /\ UNCHANGED spent
       \/ Fault("persist") /\ UNCHANGED saved

\* applyNginx: rewrite and restart nginx only when the file changes; a failed
\* restart is logged.
ApplyNginx(sni) ==
    /\ nginxFile' = sni
    /\ \/ (nginx' = IF sni = nginxFile THEN nginx ELSE sni) /\ UNCHANGED spent
       \/ sni # nginxFile /\ Fault("docker") /\ UNCHANGED nginx

-----------------------------------------------------------------------------
(* The environment *)

\* The panel has a new configuration for the node.
PanelChange(c) ==
    /\ c # desired
    /\ Fault("change")
    /\ desired' = c
    /\ delivered' = FALSE
    /\ UNCHANGED <<agentVars, saved, file, nginxFile, nginx, xray, cert>>

\* The certificate is issued or renewed.
CertChange ==
    /\ Fault("cert")
    /\ cert' = cert + 1
    /\ UNCHANGED <<desired, delivered, agentVars, saved, file, nginxFile, nginx, xray>>

\* Xray exits, or is down, and docker's "restart: always" starts it.
XrayRestart ==
    /\ \/ xray.up /\ Fault("xray")
       \/ ~xray.up /\ file # NoConfig /\ UNCHANGED spent
    /\ xray' = Loaded
    /\ UNCHANGED <<desired, delivered, agentVars, saved, file, nginxFile, nginx, cert>>

-----------------------------------------------------------------------------
(* Callers of applyConfig *)

\* session's read loop gets the config message and calls applyConfig.
Receive ==
    /\ pc # "boot"
    /\ ~delivered /\ call["session"] = NoConfig
    /\ delivered' = TRUE
    /\ call' = [call EXCEPT !["session"] = desired]
    /\ UNCHANGED <<desired, holder, pc, conf, todo, last, mem, seen, watch, saved,
                   file, nginxFile, nginx, xray, cert, spent>>

\* watchCert's tick: a changed file means applyConfig of the last configuration,
\* read before the lock is taken, or a plain restart when there is none yet.
WatchTick ==
    /\ pc # "boot"
    /\ call["watcher"] = NoConfig /\ ~watch
    /\ cert # seen
    /\ seen' = cert
    /\ call' = [call EXCEPT !["watcher"] = last]
    /\ watch' = (last = NoConfig)
    /\ UNCHANGED <<desired, delivered, holder, pc, conf, todo, last, mem, saved,
                   file, nginxFile, nginx, xray, cert, spent>>

\* The watcher's plain docker restart; its error is only logged.
WatchRestart ==
    /\ watch
    /\ watch' = FALSE
    /\ \/ xray' = Loaded /\ UNCHANGED spent
       \/ Fault("docker") /\ UNCHANGED xray
    /\ UNCHANGED <<desired, delivered, call, holder, pc, conf, todo, last, mem, seen,
                   saved, file, nginxFile, nginx, cert>>

-----------------------------------------------------------------------------
(* applyConfig, one effect at a time *)

\* Take apply.mu, remember the configuration, drop TLS if there is no cert.
Lock(c) ==
    /\ pc = "idle" /\ call[c] # NoConfig
    /\ holder' = c /\ pc' = "open"
    /\ last' = call[c]
    /\ conf' = Strip(call[c])
    /\ UNCHANGED <<desired, delivered, call, todo, mem, seen, watch, saved, file,
                   nginxFile, nginx, xray, cert, spent>>

\* writeConfig truncates config.json in place; failing to ends the call.
OpenFile ==
    /\ pc = "open"
    /\ \/ /\ file' = NoConfig /\ pc' = "write"
          /\ UNCHANGED <<call, holder, conf, todo, spent>>
       \/ Fault("write") /\ Unlock /\ UNCHANGED file
    /\ UNCHANGED <<desired, delivered, last, mem, seen, watch, saved, nginxFile,
                   nginx, xray, cert>>

\* writeConfig writes the bytes; a full disk leaves the truncated file.
WriteFile ==
    /\ pc = "write"
    /\ \/ /\ file' = conf /\ pc' = "nginx"
          /\ UNCHANGED <<call, holder, conf, todo, spent>>
       \/ Fault("write") /\ Unlock /\ UNCHANGED file
    /\ UNCHANGED <<desired, delivered, last, mem, seen, watch, saved, nginxFile,
                   nginx, xray, cert>>

\* Route the serverName, then choose the live path when only users differ from
\* the baseline.
ChoosePath ==
    /\ pc = "nginx"
    /\ ApplyNginx(conf.set)
    /\ IF mem # NoConfig /\ Skeleton(mem) = Skeleton(conf)
       THEN pc' = "live" /\ todo' = Delta(mem, conf)
       ELSE pc' = "restart" /\ UNCHANGED todo
    /\ UNCHANGED <<desired, delivered, call, holder, conf, last, mem, seen, watch,
                   saved, file, xray, cert>>

\* The second half of a uuid change.
Readd(op) == [kind |-> "readd", tag |-> op.tag, user |-> op.user]

\* One addUser or removeUser; an error, even one whose request took effect,
\* makes liveApply ask for a restart.
LiveCall(op) ==
    /\ pc = "live"
    /\ op \in todo /\ \A o \in todo : Rank(op) <= Rank(o)
    /\ \/ /\ Accepts(op)
          /\ xray' = Altered(op)
          /\ todo' = (todo \ {op}) \cup
                       (IF op.kind = "replace" THEN {Readd(op)} ELSE {})
          /\ UNCHANGED <<pc, spent>>
       \/ /\ ~Accepts(op)
          /\ pc' = "restart" /\ todo' = {}
          /\ UNCHANGED <<xray, spent>>
       \/ /\ Fault("grpc")
          /\ pc' = "restart" /\ todo' = {}
          /\ xray' = xray \/ (Accepts(op) /\ xray' = Altered(op))
    /\ UNCHANGED <<desired, delivered, call, holder, conf, last, mem, seen, watch,
                   saved, file, nginxFile, nginx, cert>>

\* Every call succeeded: the new configuration is the baseline.
LiveDone ==
    /\ pc = "live" /\ todo = {}
    /\ SetBaseline(conf)
    /\ Unlock
    /\ UNCHANGED <<desired, delivered, last, seen, watch, file, nginxFile, nginx,
                   xray, cert>>

\* Mutant of DockerRestart: the error is ignored.
DockerRestartIgnored ==
    /\ pc = "restart"
    /\ pc' = "record"
    /\ \/ xray' = Loaded /\ UNCHANGED spent
       \/ Fault("docker") /\ UNCHANGED xray
    /\ UNCHANGED <<desired, delivered, call, holder, conf, todo, last, mem, seen,
                   watch, saved, file, nginxFile, nginx, cert>>

\* docker restart xray; on an error (Xray restarted or not) applyConfig returns
\* and the baseline stays as it was.
DockerRestart ==
    /\ pc = "restart"
    /\ \/ /\ xray' = Loaded /\ pc' = "record"
          /\ UNCHANGED <<call, holder, conf, todo, spent>>
       \/ /\ Fault("docker")
          /\ xray' = xray \/ xray' = Loaded
          /\ Unlock
    /\ UNCHANGED <<desired, delivered, last, mem, seen, watch, saved, file,
                   nginxFile, nginx, cert>>

\* live.set after the restart.
Record ==
    /\ pc = "record"
    /\ SetBaseline(conf)
    /\ Unlock
    /\ UNCHANGED <<desired, delivered, last, seen, watch, file, nginxFile, nginx,
                   xray, cert>>

-----------------------------------------------------------------------------
\* Mutant of AgentRestart: seed does not compare the hashes.
AgentRestartTrusts ==
    /\ Fault("crash")
    /\ mem' = saved
    /\ pc' = "boot"
    /\ call' = [c \in Callers |-> NoConfig]
    /\ holder' = "none" /\ conf' = NoConfig /\ todo' = {} /\ last' = NoConfig
    /\ watch' = FALSE
    /\ delivered' = FALSE
    /\ UNCHANGED <<desired, seen, saved, file, nginxFile, nginx, xray, cert>>

\* The agent stops anywhere and starts: seed trusts the saved baseline iff its
\* hash is the file's.  On reconnect the panel will push again.
AgentRestart ==
    /\ Fault("crash")
    /\ mem' = IF saved = file THEN saved ELSE NoConfig
    /\ pc' = "boot"
    /\ call' = [c \in Callers |-> NoConfig]
    /\ holder' = "none" /\ conf' = NoConfig /\ todo' = {} /\ last' = NoConfig
    /\ watch' = FALSE
    /\ delivered' = FALSE
    /\ UNCHANGED <<desired, seen, saved, file, nginxFile, nginx, xray, cert>>

\* RunManaged: write the TLS-only nginx.conf, then start the watcher, which
\* takes the present certificate for known, and the sessions.
Boot ==
    /\ pc = "boot"
    /\ ApplyNginx(NoConfig)
    /\ seen' = cert
    /\ pc' = "idle"
    /\ UNCHANGED <<desired, delivered, call, holder, conf, todo, last, mem, watch,
                   saved, file, xray, cert>>

-----------------------------------------------------------------------------
Apply ==
    \/ \E c \in Callers : Lock(c)
    \/ OpenFile \/ WriteFile \/ ChoosePath
    \/ \E op \in todo : LiveCall(op)
    \/ LiveDone \/ DockerRestart \/ Record \/ Boot

Next ==
    \/ \E c \in Config : PanelChange(c)
    \/ CertChange \/ XrayRestart
    \/ Receive \/ WatchTick \/ WatchRestart
    \/ Apply
    \/ AgentRestart

Spec == Init /\ [][Next]_vars

\* Goroutines and mutexes make progress, the watcher ticks, sessions deliver
\* (module ConfigSync), and docker restarts a container that is down.
Fairness ==
    /\ WF_vars(Apply) /\ WF_vars(Receive)
    /\ WF_vars(WatchTick) /\ WF_vars(WatchRestart)
    /\ WF_vars(~xray.up /\ XrayRestart)
    /\ \A c \in Callers : SF_vars(Lock(c))

FairSpec == Spec /\ Fairness

-----------------------------------------------------------------------------
(* Properties *)

\* The agent stopped at most once, and docker and the disk did not fail it.
Calm == spent["crash"] <= 1
          /\ \A k \in {"docker", "write", "persist"} : spent[k] = 0

\* The baseline tells the truth: whenever no applyConfig is running and the
\* agent has a baseline, Xray runs exactly those settings and users, across
\* failed or half-acknowledged gRPC calls, restarts of Xray at any moment, a
\* certificate that appears at any moment, and one agent crash anywhere.
BaselineTrue ==
    Calm => (holder = "none" /\ mem # NoConfig /\ xray.up => Serves(mem))

\* Whatever failed before, a restart that docker reported as done leaves Xray with
\* the very configuration the agent is about to record as its baseline.
RecordedIsRunning == pc = "record" /\ xray.up => Serves(conf)

\* Only a change that needs it restarts Xray: with a baseline in hand and no
\* failure of gRPC, docker, disk or Xray, applyConfig comes to the restart only
\* for a new skeleton, also after an agent restart at any point.
UsersApplyLive ==
    (/\ \A k \in Kinds \ {"change", "crash"} : spent[k] = 0
     /\ spent["crash"] <= 1) =>
        (pc = "restart" /\ mem # NoConfig => Skeleton(mem) # Skeleton(conf))

\* The node ends up serving the panel's last configuration, and the serverName
\* nginx routes is Xray's, whatever gRPC calls failed and whoever restarted on
\* the way, unless docker or the disk failed the agent, or a push and a changed
\* certificate met (the watcher may then put an older configuration back).
Undisturbed ==
    /\ \A k \in {"docker", "write"} : spent[k] = 0
    /\ spent["change"] = 0 \/ spent["cert"] = 0

-----------------------------------------------------------------------------
(* The inductive invariants behind RecordedIsRunning and BaselineTrue *)

\* Past writeConfig the file is the configuration being applied.
FileInv == /\ pc = "write" => file = NoConfig
           /\ pc \in {"nginx", "live", "restart", "record"} => file = conf

\* An operation still to be issued agrees with the configuration.
OpsInv == \A op \in todo :
    /\ pc = "live"
    /\ op.kind = "remove" <=> ClientsOf(conf)[op.tag][op.user] = NoId

RecordInv == FileInv /\ OpsInv /\ RecordedIsRunning

\* Between applications the file is the baseline; a crash may find either.
BaselineInv ==
    /\ pc \in {"boot", "idle", "open"} /\ mem # NoConfig => file = mem
    /\ spent["crash"] = 0 => saved = mem
    /\ pc \in {"live", "restart"} /\ mem = conf => pc = "live" /\ todo = {}

\* What Xray runs at each point of applyConfig.
Untouched(t, u) == \A op \in todo : op.tag # t \/ op.user # u
XrayInv ==
    xray.up =>
        /\ pc \in {"boot", "idle", "open", "write"} /\ mem # NoConfig => Serves(mem)
        /\ pc = "nginx" /\ mem # NoConfig => Serves(mem) \/ Serves(conf)
        /\ pc = "live" =>
              /\ <<xray.set, xray.tls>> = Skeleton(conf)
              /\ \A t \in Tags, u \in Users :
                    Untouched(t, u) => xray.clients[t][u] = ClientsOf(conf)[t][u]

IInv == Calm => BaselineInv /\ XrayInv

-----------------------------------------------------------------------------
(* What the documentation says of any run *)

\* docs/PROTOCOL.md: the restored baseline "is what makes agent updates
\* seamless": restarting the agent leaves the node routing to what Xray runs.
UpdateSeamless ==
    pc = "idle" /\ holder = "none" /\ xray.up /\ mem # NoConfig => nginx = xray.set
=============================================================================
