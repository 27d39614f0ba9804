----------------------------- MODULE ConfigSync -----------------------------
(***************************************************************************)
(* How the panel keeps one node's configuration in step with its database: *)
(* the hub of agent connections (internal/panel/hub.go), syncNode and      *)
(* forceSyncNode with their signature cache (internal/panel/traffic.go),   *)
(* the API handlers and loops that call them, and the agent's sessions.    *)
(*                                                                         *)
(* A configuration is the node's settings plus its active users; the       *)
(* signature activeSignature hashes the active users only.  Database reads *)
(* and cache accesses are separate steps, so callers interleave anywhere.  *)
(***************************************************************************)
EXTENDS Naturals, Sequences, FiniteSets

CONSTANTS
    Users,            \* users that may be active on the node
    Settings,         \* values of the node's own settings (REALITY, domain)
    Workers,          \* goroutines that sync: API handlers, loops, ingest
    Conns,            \* connection slots, reused once both ends are done
    NoConn,           \* not a connection
    NoConfig,         \* nothing sent yet
    QueueCap,         \* capacity of a send channel (8 in hub.go)
    MaxChanges,       \* database changes
    MaxRaces,         \* database changes made while some sync is running
    MaxDrops,         \* network failures of a live connection
    MaxDBErrors,      \* failed database reads
    MaxRestarts,      \* panel restarts
    MaxStalls,        \* writes that fail on a link that works again
    MaxKinds          \* kinds of the above, races aside, in one behaviour

Config == [users : SUBSET Users, settings : Settings]

ASSUME SyncAssumption ==
    /\ NoConn \notin Conns /\ Workers \cap Conns = {}
    /\ NoConfig \notin Config /\ Settings # {}
    /\ QueueCap \in Nat \ {0}
    /\ {MaxChanges, MaxRaces, MaxDrops, MaxDBErrors, MaxRestarts, MaxStalls}
          \subseteq Nat

VARIABLES
    users,      \* active users of the node in the database
    settings,   \* the node's row in the database
    cache,      \* activeCache[node]: at most one signature
    registered, \* Hub.conns[node]
    open,       \* [Conns -> BOOLEAN]: nodeConn registered once and not closed
    queue,      \* [Conns -> Seq(Config)]: send channel and wire
    tip,        \* [Conns -> last configuration queued on the connection]
    handler,    \* [Conns -> where handleWS is; "mute" once its writeLoop returned,
                \* "leave" between the unlock and the close of unregister]
    thread,     \* [Workers \cup Conns -> a call of syncNode or forceSyncNode]
    link,       \* [Conns -> BOOLEAN]: the TCP link works
    sess,       \* the connection the agent reads, or NoConn
    node,       \* the configuration the agent received last
    spent       \* how much of each bound is used up

hubVars == <<registered, open, handler>>
vars == <<users, settings, cache, hubVars, queue, tip, thread, link, sess, node,
          spent>>

Threads == Workers \cup Conns
Current == [users |-> users, settings |-> settings]

Steps == {"idle", "sig", "cache", "conn", "node", "users", "send", "store",
          "forget"}
Thread == [pc : Steps, op : {"sync", "force"}, sig : SUBSET Users,
           conn : Conns \cup {NoConn}, cfg : Config \cup {NoConfig}]
Idle == [pc |-> "idle", op |-> "sync", sig |-> {}, conn |-> NoConn,
         cfg |-> NoConfig]

Bounds == {"change", "race", "drop", "db", "restart", "stall"}
Bound == [change |-> MaxChanges, race |-> MaxRaces, drop |-> MaxDrops,
          db |-> MaxDBErrors, restart |-> MaxRestarts, stall |-> MaxStalls]

TypeOK ==
    /\ users \in SUBSET Users
    /\ settings \in Settings
    /\ cache \in {{}} \cup {{sig} : sig \in SUBSET Users}
    /\ registered \in Conns \cup {NoConn}
    /\ open \in [Conns -> BOOLEAN]
    /\ queue \in [Conns -> Seq(Config)]
    /\ tip \in [Conns -> Config \cup {NoConfig}]
    /\ handler \in [Conns -> {"none", "reg", "serve", "mute", "leave"}]
    /\ thread \in [Threads -> Thread]
    /\ \A t \in Threads :
          /\ thread[t].pc \in {"node", "users", "send", "store"} => thread[t].conn # NoConn
          /\ thread[t].pc \in {"users", "send", "store"} => thread[t].cfg # NoConfig
    /\ link \in [Conns -> BOOLEAN]
    /\ sess \in Conns \cup {NoConn}
    /\ node \in Config \cup {NoConfig}
    /\ spent \in [Bounds -> Nat]

\* Nothing tells one setting from another, so any one of them will do to begin with.
Init ==
    /\ users \in SUBSET Users
    /\ settings = CHOOSE s \in Settings : TRUE
    /\ cache = {}
    /\ registered = NoConn
    /\ open = [c \in Conns |-> FALSE]
    /\ queue = [c \in Conns |-> <<>>]
    /\ tip = [c \in Conns |-> NoConfig]
    /\ handler = [c \in Conns |-> "none"]
    /\ thread = [t \in Threads |-> Idle]
    /\ link = [c \in Conns |-> FALSE]
    /\ sess = NoConn
    /\ node = NoConfig
    /\ spent = [b \in Bounds |-> 0]

-----------------------------------------------------------------------------
Spend(B) ==
    /\ \A b \in B : spent[b] < Bound[b]
    /\ Cardinality({b \in Bounds \ {"race"} : b \in B \/ spent[b] > 0}) <= MaxKinds
    /\ spent' = [b \in Bounds |-> IF b \in B THEN spent[b] + 1 ELSE spent[b]]

Running == {t \in Threads : thread[t].pc # "idle"}

\* A change that lands while a sync is running is a race.
Change == Spend(IF Running = {} THEN {"change"} ELSE {"change", "race"})

\* A call of syncNode ("sync") or forceSyncNode ("force") begins.
Begin(t, op) ==
    thread' = [thread EXCEPT ![t] = [pc |-> "sig", op |-> op, sig |-> {},
                                     conn |-> NoConn, cfg |-> NoConfig]]

\* The call of t moves on, or returns.
Goto(t, pc, sig, conn, cfg) ==
    thread' = [thread EXCEPT ![t] = [pc |-> pc, op |-> thread[t].op, sig |-> sig,
                                     conn |-> conn, cfg |-> cfg]]
Return(t) == thread' = [thread EXCEPT ![t] = Idle]

\* PushConfig returned false: syncNode gives up, forceSyncNode forgets.
Failed(t) ==
    \/ thread[t].op = "sync" /\ Return(t)
    \/ thread[t].op = "force" /\ Goto(t, "forget", {}, NoConn, NoConfig)

-----------------------------------------------------------------------------
(* Who changes the database and who calls sync *)

\* An API handler, the bot, an auto-reset or a batch of traffic changes which
\* users are active, then syncs the node.
ChangeUsers(w, u) ==
    /\ thread[w].pc = "idle"
    /\ Change
    /\ users' = IF u \in users THEN users \ {u} ELSE users \cup {u}
    /\ Begin(w, "sync")
    /\ UNCHANGED <<settings, cache, hubVars, queue, tip, link, sess, node>>

\* A user's expiry date passes; nobody syncs for it.
Expire(u) ==
    /\ u \in users
    /\ Change
    /\ users' = users \ {u}
    /\ UNCHANGED <<settings, cache, hubVars, queue, tip, thread, link, sess, node>>

\* handleUpdateNode stores new settings and forces a push.
ChangeSettings(w, s) ==
    /\ thread[w].pc = "idle"
    /\ s # settings
    /\ Change
    /\ settings' = s
    /\ Begin(w, "force")
    /\ UNCHANGED <<users, cache, hubVars, queue, tip, link, sess, node>>

\* The enforcement loop syncs every online node; ingestTraffic ends with a sync.
Enforce(w) ==
    /\ thread[w].pc = "idle"
    /\ registered # NoConn
    /\ Begin(w, "sync")
    /\ UNCHANGED <<users, settings, cache, hubVars, queue, tip, link, sess, node,
                   spent>>

-----------------------------------------------------------------------------
(* syncNode, forceSyncNode and PushConfig, one access at a time *)

\* UsersForNode and activeSignature; both functions return on an error.
ReadSig(t) ==
    /\ thread[t].pc = "sig"
    /\ \/ /\ Goto(t, IF thread[t].op = "sync" THEN "cache" ELSE "conn", users,
                  NoConn, NoConfig)
          /\ UNCHANGED spent
       \/ Spend({"db"}) /\ Return(t)
    /\ UNCHANGED <<users, settings, cache, hubVars, queue, tip, link, sess, node>>

\* Mutant of CheckCache: the signature is recorded before anything was sent.
CheckCacheEager(t) ==
    /\ thread[t].pc = "cache"
    /\ IF cache = {thread[t].sig}
       THEN Return(t)
       ELSE Goto(t, "conn", thread[t].sig, NoConn, NoConfig)
    /\ cache' = {thread[t].sig}
    /\ UNCHANGED <<users, settings, hubVars, queue, tip, link, sess, node, spent>>

\* syncNode returns if the cached signature is the one just computed.
CheckCache(t) ==
    /\ thread[t].pc = "cache"
    /\ IF cache = {thread[t].sig}
       THEN Return(t)
       ELSE Goto(t, "conn", thread[t].sig, NoConn, NoConfig)
    /\ UNCHANGED <<users, settings, cache, hubVars, queue, tip, link, sess, node,
                   spent>>

\* PushConfig looks the connection up.
PickConn(t) ==
    /\ thread[t].pc = "conn"
    /\ IF registered = NoConn
       THEN Failed(t)
       ELSE Goto(t, "node", thread[t].sig, registered, NoConfig)
    /\ UNCHANGED <<users, settings, cache, hubVars, queue, tip, link, sess, node,
                   spent>>

\* PushConfig reads the node's row.
LoadNode(t) ==
    /\ thread[t].pc = "node"
    /\ \/ /\ Goto(t, "users", thread[t].sig, thread[t].conn,
                  [users |-> {}, settings |-> settings])
          /\ UNCHANGED spent
       \/ Spend({"db"}) /\ Failed(t)
    /\ UNCHANGED <<users, settings, cache, hubVars, queue, tip, link, sess, node>>

\* PushConfig reads the users a second time and builds the configuration.
LoadUsers(t) ==
    /\ thread[t].pc = "users"
    /\ \/ /\ Goto(t, "send", thread[t].sig, thread[t].conn,
                  [users |-> users, settings |-> thread[t].cfg.settings])
          /\ UNCHANGED spent
       \/ Spend({"db"}) /\ Failed(t)
    /\ UNCHANGED <<users, settings, cache, hubVars, queue, tip, link, sess, node>>

\* trySend: false when the channel is closed or full.
TrySend(t) ==
    /\ thread[t].pc = "send"
    /\ LET c == thread[t].conn IN
       IF open[c] /\ Len(queue[c]) < QueueCap
       THEN /\ queue' = [queue EXCEPT ![c] = Append(@, thread[t].cfg)]
            /\ tip' = [tip EXCEPT ![c] = thread[t].cfg]
            /\ Goto(t, "store", thread[t].sig, c, thread[t].cfg)
       ELSE Failed(t) /\ UNCHANGED <<queue, tip>>
    /\ UNCHANGED <<users, settings, cache, hubVars, link, sess, node, spent>>

\* Mutant of StoreSig: the old signature is kept beside the new one.
StoreSigAdds(t) ==
    /\ thread[t].pc = "store"
    /\ cache' = cache \cup {thread[t].sig}
    /\ Return(t)
    /\ UNCHANGED <<users, settings, hubVars, queue, tip, link, sess, node, spent>>

\* Delivered: record the signature read at the start.
StoreSig(t) ==
    /\ thread[t].pc = "store"
    /\ cache' = {thread[t].sig}
    /\ Return(t)
    /\ UNCHANGED <<users, settings, hubVars, queue, tip, link, sess, node, spent>>

\* Mutant of ForgetSig: the cache is left alone.
ForgetSigNot(t) ==
    /\ thread[t].pc = "forget"
    /\ Return(t)
    /\ UNCHANGED <<users, settings, cache, hubVars, queue, tip, link, sess, node,
                   spent>>

\* forceSyncNode after a failed push.
ForgetSig(t) ==
    /\ thread[t].pc = "forget"
    /\ cache' = {}
    /\ Return(t)
    /\ UNCHANGED <<users, settings, hubVars, queue, tip, link, sess, node, spent>>

SyncStep(t) ==
    \/ ReadSig(t) \/ CheckCache(t) \/ PickConn(t) \/ LoadNode(t) \/ LoadUsers(t)
    \/ TrySend(t) \/ StoreSig(t) \/ ForgetSig(t)

-----------------------------------------------------------------------------
(* Connections *)

Free(c) == handler[c] = "none" /\ \A t \in Threads : thread[t].conn # c

\* The agent dials and sends its register frame.
Dial(c) ==
    /\ sess = NoConn
    /\ Free(c)
    /\ sess' = c
    /\ link' = [link EXCEPT ![c] = TRUE]
    /\ handler' = [handler EXCEPT ![c] = "reg"]
    /\ UNCHANGED <<users, settings, cache, registered, open, queue, tip, thread,
                   node, spent>>

\* register(): close the connection it replaces; handleWS then forces a push.
Register(c) ==
    /\ handler[c] = "reg"
    /\ handler' = [handler EXCEPT ![c] = "serve"]
    /\ registered' = c
    /\ open' = [d \in Conns |-> (d = c) \/ (open[d] /\ d # registered)]
    /\ link' = [d \in Conns |-> link[d] /\ (d = c \/ d # registered)]
    /\ queue' = [d \in Conns |-> IF d = c \/ d = registered THEN <<>> ELSE queue[d]]
    /\ tip' = [d \in Conns |-> IF d = c \/ d = registered THEN NoConfig ELSE tip[d]]
    /\ Begin(c, "force")
    /\ UNCHANGED <<users, settings, cache, sess, node, spent>>

\* writeLoop sends, the agent receives.
Deliver(c) ==
    /\ sess = c /\ link[c]
    /\ handler[c] # "mute"
    /\ queue[c] # <<>>
    /\ node' = Head(queue[c])
    /\ queue' = [queue EXCEPT ![c] = Tail(@)]
    /\ UNCHANGED <<users, settings, cache, hubVars, tip, thread, link, sess, spent>>

\* The link breaks; the panel keeps queueing on it until it notices.
Drop(c) ==
    /\ link[c]
    /\ Spend({"drop"})
    /\ link' = [link EXCEPT ![c] = FALSE]
    /\ UNCHANGED <<users, settings, cache, hubVars, queue, tip, thread, sess, node>>

\* A write (of a message, which is lost, or of a ping) misses its deadline: the
\* writeLoop returns and nothing else, also when the link works again.
WriteFail(c) ==
    /\ handler[c] = "serve" /\ link[c]
    /\ Spend({"stall"})
    /\ handler' = [handler EXCEPT ![c] = "mute"]
    /\ \/ queue[c] # <<>> /\ queue' = [queue EXCEPT ![c] = Tail(@)]
       \/ UNCHANGED queue
    /\ UNCHANGED <<users, settings, cache, registered, open, tip, thread, link, sess,
                   node>>

\* The agent's read loop fails.
SessionEnd(c) ==
    /\ sess = c /\ ~link[c]
    /\ sess' = NoConn
    /\ UNCHANGED <<users, settings, cache, hubVars, queue, tip, thread, link, node,
                   spent>>

\* Mutant of Unregister: no check that the entry is still this connection.
UnregisterAlways(c) ==
    /\ handler[c] \in {"serve", "mute"} /\ thread[c].pc = "idle"
    /\ ~link[c]
    /\ registered' = NoConn
    /\ handler' = [handler EXCEPT ![c] = "leave"]
    /\ UNCHANGED <<users, settings, cache, open, queue, tip, thread, link, sess, node,
                   spent>>

\* readLoop fails: unregister deletes the entry, unless a newer connection took the
\* place, and unlocks; the connection is still open.
Unregister(c) ==
    /\ handler[c] \in {"serve", "mute"} /\ thread[c].pc = "idle"
    /\ ~link[c]
    /\ registered' = IF registered = c THEN NoConn ELSE registered
    /\ handler' = [handler EXCEPT ![c] = "leave"]
    /\ UNCHANGED <<users, settings, cache, open, queue, tip, thread, link, sess, node,
                   spent>>

\* Then it closes the connection, outside the lock.
Close(c) ==
    /\ handler[c] = "leave"
    /\ open' = [open EXCEPT ![c] = FALSE]
    /\ queue' = [queue EXCEPT ![c] = <<>>]
    /\ tip' = [tip EXCEPT ![c] = NoConfig]
    /\ handler' = [handler EXCEPT ![c] = "none"]
    /\ UNCHANGED <<users, settings, cache, registered, thread, link, sess, node, spent>>

\* The register frame never arrives.
Abandon(c) ==
    /\ handler[c] = "reg" /\ ~link[c]
    /\ handler' = [handler EXCEPT ![c] = "none"]
    /\ UNCHANGED <<users, settings, cache, registered, open, queue, tip, thread,
                   link, sess, node, spent>>

\* The panel restarts with an empty cache and no connection.
PanelRestart ==
    /\ Spend({"restart"})
    /\ cache' = {}
    /\ registered' = NoConn
    /\ open' = [c \in Conns |-> FALSE]
    /\ queue' = [c \in Conns |-> <<>>]
    /\ tip' = [c \in Conns |-> NoConfig]
    /\ handler' = [c \in Conns |-> "none"]
    /\ thread' = [t \in Threads |-> Idle]
    /\ link' = [c \in Conns |-> FALSE]
    /\ UNCHANGED <<users, settings, sess, node>>

-----------------------------------------------------------------------------
Next ==
    \/ \E w \in Workers, u \in Users : ChangeUsers(w, u)
    \/ \E u \in Users : Expire(u)
    \/ \E w \in Workers, s \in Settings : ChangeSettings(w, s)
    \/ \E w \in Workers : Enforce(w)
    \/ \E t \in Threads : SyncStep(t)
    \/ \E c \in Conns : \/ Dial(c) \/ Register(c) \/ Deliver(c) \/ Drop(c) \/ WriteFail(c)
                        \/ SessionEnd(c) \/ Unregister(c) \/ Close(c) \/ Abandon(c)
    \/ PanelRestart

Spec == Init /\ [][Next]_vars

\* Goroutines run, the enforcement ticker ticks for ever, the agent redials for
\* ever, writeLoop drains a working link and a broken link is noticed.
Fairness ==
    /\ \A t \in Threads : WF_vars(SyncStep(t))
    /\ WF_vars(\E w \in Workers : Enforce(w))
    /\ WF_vars(\E c \in Conns : Dial(c))
    /\ \A c \in Conns :
          /\ WF_vars(Register(c)) /\ WF_vars(Deliver(c)) /\ WF_vars(SessionEnd(c))
          /\ WF_vars(Unregister(c)) /\ WF_vars(Close(c)) /\ WF_vars(Abandon(c))

FairSpec == Spec /\ Fairness

-----------------------------------------------------------------------------
(* Properties *)

\* Hub.conns and the connections agree: the registered connection is open, and one
\* that is open is the one PushConfig finds, unless its handler is on its way out
\* between unregister's unlock and its close.  So a late unregister of an old
\* connection never takes the newer one out of Hub.conns, PushConfig never picks a
\* connection that was replaced, and of two open connections one is leaving.
OpenIsRegistered ==
    \A c \in Conns :
        /\ registered = c => open[c] /\ handler[c] \in {"serve", "mute"}
        /\ open[c] /\ handler[c] # "leave" => registered = c

\* The signature cache tells the truth: as long as no database change landed in
\* the middle of a sync and no database read failed, a cached signature equal
\* to the current one means that the registered connection was handed exactly
\* the current configuration last, whatever syncs, reconnects, full queues and
\* panel restarts overlapped.
SyncedMeansSent ==
    (spent["race"] = 0 /\ spent["db"] = 0) =>
        \A c \in Conns :
            /\ registered = c
            /\ \A t \in Running : thread[t].op = "sync"
            /\ cache = {users}
            => tip[c] = Current

\* docs/PROTOCOL.md: "the node is eventually consistent with Panel state": once
\* the database stays put, the node ends up with what is in it and keeps it.  A
\* working connection whose writeLoop is gone holds this up until it breaks (what
\* was queued on it is then sent anew); a failed read may hold it up for good.
EventuallyConsistent ==
    <>[](\/ node = Current
         \/ spent["db"] > 0
         \/ \E c \in Conns : handler[c] = "mute" /\ link[c])
=============================================================================
