------------------------------- MODULE Quota -------------------------------
(***************************************************************************)
(* One user's life in the panel's database: the rows of users, user_nodes  *)
(* and node_traffic, the API and bot handlers that edit them, ingest, the  *)
(* monthly reset and the enforcement loop.  Every database call is one     *)
(* step (the store is serialised), and a handler may be overtaken between  *)
(* two of them.  Whoever changed something calls syncNode, which compares  *)
(* a signature with its cache, reads the users again for the node and      *)
(* stores the signature.  The connections it pushes on are in ConfigSync:  *)
(* here what is read for a node reaches it in the same step.               *)
(* Time is counted in ticks, Month of them to a month.                     *)
(***************************************************************************)
EXTENDS Integers, FiniteSets, Functions

CONSTANTS
    Nodes,          \* nodes with an agent connected to the panel
    Handlers,       \* HTTP handlers running at the same time
    Bot,            \* the Telegram bot's goroutine: one command at a time
    ResetLoop,      \* autoResetLoop as a caller of syncNode
    EnforceLoop,    \* enforcementLoop as a caller of syncNode
    NoNode,         \* no node
    Month,          \* ticks per month
    Limits,         \* values of data_limit, 0 for none
    Expiries,       \* values of expire_at, 0 for never
    ResetDays,      \* values of reset_day, 0 for never
    MaxTime,        \* the clock stops here
    MaxTraffic,     \* units of traffic ingested
    MaxOps,         \* handlers and commands started
    MaxRestarts,    \* panel restarts
    MaxDBErrors,    \* failed writes of a reset, and reads of a sync
    MaxNodeDeletes, \* nodes deleted while their agent is connected
    MaxEvents,      \* all of these together
    MaxSyncs        \* callers of syncNode that are not through with their nodes

ASSUME QuotaAssumption ==
    /\ Month \in Nat \ {0} /\ MaxTime >= Month
    /\ Limits \subseteq Nat /\ Expiries \subseteq Nat
    /\ ResetDays \subseteq 0 .. Month
    /\ {MaxTime, MaxTraffic, MaxOps, MaxRestarts, MaxDBErrors, MaxSyncs,
        MaxNodeDeletes, MaxEvents} \subseteq Nat
    /\ Bot \notin Handlers /\ NoNode \notin Nodes
    /\ ResetLoop # EnforceLoop
    /\ {ResetLoop, EnforceLoop} \cap (Handlers \cup {Bot} \cup Nodes) = {}
    /\ Nodes \cap (Handlers \cup {Bot}) = {}

VARIABLES
    now,        \* the clock; it starts in month 1, so that last_reset 0 is the past
    state,      \* the users row: not created yet, live, or deleted
    cols,       \* its columns that UpdateUser writes
    used,       \* data_used
    lastReset,  \* last_reset
    uuid,       \* number of the current UUID
    assigned,   \* user_nodes
    breakdown,  \* node_traffic
    fleet,      \* nodes that have a row
    served,     \* the UUID each node serves the user under, 0 for none
    cached,     \* activeCache: the same as a signature, -1 for no entry
    sync,       \* the calls of syncNode: nodes to do, and where the call in progress is
    thread,     \* the handlers and the bot
    auto,       \* autoResetLoop
    ingest,     \* ingestTraffic on each node's connection
    resetIn,    \* history: the last month reset by autoResetLoop, -1 for none
    again,      \* history: a month has been reset twice
    moved,      \* history: reset_day was changed
    torn,       \* history: the signature stored last is not of what the node served
    spent       \* budgets used up

row == <<state, cols, used, lastReset, uuid, assigned, breakdown>>
nodeVars == <<served, cached, torn>>
vars == <<now, row, fleet, nodeVars, sync, thread, auto, ingest, resetIn, again, moved, spent>>

Threads == Handlers \cup {Bot}
Callers == Threads \cup Nodes \cup {ResetLoop, EnforceLoop}
Cols == [limit : Limits, expire : Expiries, enabled : BOOLEAN, resetDay : ResetDays]
NoCols == [limit |-> 0, expire |-> 0, enabled |-> FALSE, resetDay |-> 0]
Ops == {"create", "update", "enable", "disable", "nodes", "uuid", "delete", "reset"}
Kinds == {"op", "traffic", "restart", "db", "node"}
Budget == [op |-> MaxOps, traffic |-> MaxTraffic, restart |-> MaxRestarts,
           db |-> MaxDBErrors, node |-> MaxNodeDeletes]

\* A handler: what it does, the row and the assignment it will write, and the
\* nodes it will sync at its end.
Idle == [pc |-> "idle", op |-> "reset", cols |-> NoCols, nodes |-> {}, todo |-> {}]
AutoIdle == [pc |-> "idle", at |-> 0, todo |-> {}]
Calls(S) == [todo |-> S, pc |-> "read", node |-> NoNode, sig |-> 0]

TypeOK ==
    /\ now \in Month .. MaxTime
    /\ state \in {"none", "live", "gone"}
    /\ cols \in Cols \cup {NoCols}
    /\ used \in Nat /\ lastReset \in Nat /\ uuid \in Nat
    /\ assigned \subseteq Nodes /\ fleet \subseteq Nodes
    /\ breakdown \in [Nodes -> Nat] /\ served \in [Nodes -> Nat]
    /\ cached \in [Nodes -> Nat \cup {-1}] /\ torn \in [Nodes -> BOOLEAN]
    /\ sync \in [Callers -> [todo : SUBSET Nodes, pc : {"read", "push", "store"},
                             node : Nodes \cup {NoNode}, sig : Nat]]
    /\ \A k \in Callers : sync[k].pc # "read" => sync[k].node \in Nodes
    /\ thread \in [Threads -> [pc : {"idle", "find", "write", "reload"},
                               op : Ops, cols : Cols \cup {NoCols},
                               nodes : SUBSET Nodes, todo : SUBSET Nodes]]
    /\ auto \in [pc : {"idle", "reset", "mark"}, at : 0 .. MaxTime,
                 todo : SUBSET Nodes]
    /\ ingest \in [Nodes -> {"idle", "add"}]
    /\ resetIn \in -1 .. MaxTime /\ again \in BOOLEAN /\ moved \in BOOLEAN
    /\ spent \in [Kinds -> Nat]

\* The panel starts with no user, or with one that has been created before.
Init ==
    /\ now = Month
    /\ \/ state = "none" /\ cols = NoCols /\ uuid = 0 /\ assigned = {}
       \/ state = "live" /\ cols \in Cols /\ uuid = 1 /\ assigned \in SUBSET Nodes
    /\ used = 0 /\ lastReset = 0 /\ fleet = Nodes
    /\ breakdown = [n \in Nodes |-> 0] /\ served = [n \in Nodes |-> 0]
    /\ cached = [n \in Nodes |-> -1] /\ torn = [n \in Nodes |-> FALSE]
    /\ sync = [k \in Callers |-> Calls({})]
    /\ thread = [t \in Threads |-> Idle]
    /\ auto = AutoIdle
    /\ ingest = [n \in Nodes |-> "idle"]
    /\ resetIn = -1 /\ again = FALSE /\ moved = FALSE
    /\ spent = [k \in Kinds |-> 0]

Spend(k) == /\ spent[k] < Budget[k]
            /\ SumFunction(spent) < MaxEvents
            /\ spent' = [spent EXCEPT ![k] = @ + 1]

-----------------------------------------------------------------------------
(* Pure parts *)

\* User.active
active(c, u, t) == /\ c.enabled
                   /\ c.expire > 0 => t < c.expire
                   /\ c.limit > 0 => u < c.limit

\* The instant of this month's reset, resetDay clamped to the month's length.
ResetInstant(t, day) ==
    (t \div Month) * Month + (IF day > Month THEN Month ELSE day) - 1

\* Mutant of monthlyResetDue: due on the day itself only.
monthlyResetDueOnTheDay(t, day, last) ==
    /\ day >= 1
    /\ t = ResetInstant(t, day)
    /\ last < ResetInstant(t, day)

\* Mutant of monthlyResetDue: a reset at the very instant is not recognised.
monthlyResetDueAgain(t, day, last) ==
    /\ day >= 1
    /\ t >= ResetInstant(t, day)
    /\ last <= ResetInstant(t, day)

monthlyResetDue(t, day, last) ==
    /\ day >= 1
    /\ t >= ResetInstant(t, day)
    /\ last < ResetInstant(t, day)

\* What node n ought to serve: the users active and assigned to it.
Should(n) == IF state = "live" /\ n \in assigned /\ active(cols, used, now)
             THEN uuid ELSE 0

-----------------------------------------------------------------------------
(* syncNode: every caller has a loop over the nodes it has to sync *)

AtRest(k) == sync[k].pc = "read" /\ sync[k].todo = {}

\* The call of k in progress returns.
Returns(k) == sync' = [sync EXCEPT ![k] = Calls(@.todo)]

\* At most MaxSyncs callers are in their loops at a time.
MaySync == Cardinality({k \in Callers : ~AtRest(k)}) < MaxSyncs

\* k has come to its loop over the nodes in S.
Syncs(k, S) == MaySync /\ sync' = [sync EXCEPT ![k] = Calls(S)]

\* Mutant of ReadSig: the signature is recorded before the push.
ReadSigEager(k, n, S) ==
    /\ \/ /\ sync' = [sync EXCEPT ![k] = IF cached[n] = Should(n) THEN Calls(S)
                       ELSE [todo |-> S, pc |-> "push", node |-> n, sig |-> Should(n)]]
          /\ cached' = [cached EXCEPT ![n] = Should(n)]
          /\ UNCHANGED spent
       \/ /\ Spend("db")
          /\ sync' = [sync EXCEPT ![k] = Calls(S)]
          /\ UNCHANGED cached
    /\ UNCHANGED <<now, row, fleet, served, torn, thread, auto, ingest, resetIn, again, moved>>

\* UsersForNode, activeSignature and the look in the cache, with S left to do.
ReadSig(k, n, S) ==
    /\ \/ /\ sync' = [sync EXCEPT ![k] = IF cached[n] = Should(n) THEN Calls(S)
                       ELSE [todo |-> S, pc |-> "push", node |-> n, sig |-> Should(n)]]
          /\ UNCHANGED spent
       \/ Spend("db") /\ sync' = [sync EXCEPT ![k] = Calls(S)]
    /\ UNCHANGED <<now, row, fleet, nodeVars, thread, auto, ingest, resetIn, again, moved>>

SyncNode(k, n) ==
    /\ sync[k].pc = "read" /\ n \in sync[k].todo
    /\ ReadSig(k, n, sync[k].todo \ {n})

\* PushConfig: what the node gets is read anew.  GetNode fails for a node that has
\* no row any more.
PushConfig(k) ==
    /\ sync[k].pc = "push"
    /\ LET n == sync[k].node IN
       \/ /\ n \in fleet
          /\ served' = [served EXCEPT ![n] = Should(n)]
          /\ sync' = [sync EXCEPT ![k].pc = "store"]
          /\ UNCHANGED spent
       \/ /\ IF n \in fleet THEN Spend("db") ELSE UNCHANGED spent
          /\ Returns(k)
          /\ UNCHANGED served
    /\ UNCHANGED <<now, row, fleet, cached, torn, thread, auto, ingest, resetIn, again, moved>>

\* Delivered: the signature read first is recorded.
StoreSig(k) ==
    /\ sync[k].pc = "store"
    /\ LET n == sync[k].node IN
       /\ cached' = [cached EXCEPT ![n] = sync[k].sig]
       /\ torn' = [torn EXCEPT ![n] = served[n] # sync[k].sig]
    /\ Returns(k)
    /\ UNCHANGED <<now, row, fleet, served, thread, auto, ingest, resetIn, again, moved, spent>>

SyncStep(k) == PushConfig(k) \/ StoreSig(k) \/ \E n \in Nodes : SyncNode(k, n)

-----------------------------------------------------------------------------
(* HTTP handlers and bot commands *)

Start(t, r) == /\ thread[t] = Idle /\ AtRest(t)
               /\ Spend("op")
               /\ thread' = [thread EXCEPT ![t] = r]

Become(t, r) == thread' = [thread EXCEPT ![t] = r]

\* The handler is done but for the nodes it has to sync.
Ends(t, S) == Become(t, Idle) /\ Syncs(t, S)

\* A handler that has loaded the row and its assignment.
Loaded(op, c, S) == [pc |-> "write", op |-> op, cols |-> c, nodes |-> S,
                     todo |-> assigned \cup S]

\* The insert of a user's row.
InsertUser(c) == state' = "live" /\ cols' = c /\ uuid' = 1

\* botAddUser: enabled, no reset day, on all nodes.
BotAdds(c, S) == c.enabled /\ c.resetDay = 0 /\ S = fleet

\* handleCreateUser, botAddUser: insert the row; the assignment is a second write.
CreateUser(t, c, S) ==
    /\ state = "none"
    /\ t = Bot => BotAdds(c, S)
    /\ InsertUser(c)
    /\ Start(t, IF S = {} THEN Idle
                ELSE [pc |-> "write", op |-> "create", cols |-> NoCols, nodes |-> S,
                      todo |-> S])
    /\ UNCHANGED <<now, used, lastReset, assigned, breakdown, fleet, nodeVars, sync, auto,
                   ingest, resetIn, again, moved>>

\* GetUser in handleUpdateUser (with one column changed), handleSetUserNodes,
\* handleRotateUUID, handleDeleteUser.
LoadUser(t) ==
    /\ t # Bot
    /\ state = "live"
    /\ \/ \E c \in Cols :
             /\ \/ \E v \in Limits : c = [cols EXCEPT !.limit = v]
                \/ \E v \in Expiries : c = [cols EXCEPT !.expire = v]
                \/ \E v \in ResetDays : c = [cols EXCEPT !.resetDay = v]
                \/ \E v \in BOOLEAN : c = [cols EXCEPT !.enabled = v]
             /\ c # cols
             /\ Start(t, Loaded("update", c, {}))
       \/ \E S \in SUBSET Nodes : Start(t, Loaded("nodes", NoCols, S))
       \/ \E op \in {"uuid", "delete"} : Start(t, Loaded(op, NoCols, {}))
    /\ UNCHANGED <<now, row, fleet, nodeVars, sync, auto, ingest, resetIn, again, moved>>

\* botMutateUser: GetUserByName.
FindUser ==
    /\ state = "live"
    /\ \E op \in {"enable", "disable", "delete", "reset"} :
          Start(Bot, [Idle EXCEPT !.pc = "find", !.op = op])
    /\ UNCHANGED <<now, row, fleet, nodeVars, sync, auto, ingest, resetIn, again, moved>>

\* Mutant of BotLoad: the record found by name is written back without its columns.
BotLoadPartial ==
    /\ thread[Bot].pc = "find"
    /\ state = "live"
    /\ LET op == thread[Bot].op IN
          Become(Bot, IF op \in {"enable", "disable"}
                      THEN Loaded("update", [NoCols EXCEPT !.enabled = (op = "enable")], {})
                      ELSE Loaded(op, NoCols, {}))
    /\ UNCHANGED <<now, row, fleet, nodeVars, sync, auto, ingest, resetIn, again, moved, spent>>

\* botMutateUser: GetUser, whose error is ignored.
BotLoad ==
    /\ thread[Bot].pc = "find"
    /\ state = "live"
    /\ LET op == thread[Bot].op IN
          Become(Bot, IF op \in {"enable", "disable"}
                      THEN Loaded("update", [cols EXCEPT !.enabled = (op = "enable")], {})
                      ELSE Loaded(op, NoCols, {}))
    /\ UNCHANGED <<now, row, fleet, nodeVars, sync, auto, ingest, resetIn, again, moved, spent>>

\* The panel process starts again with nothing but its database.
Restarted ==
    /\ thread' = [t \in Threads |-> Idle]
    /\ auto' = AutoIdle
    /\ ingest' = [n \in Nodes |-> "idle"]
    /\ sync' = [k \in Callers |-> Calls({})]
    /\ cached' = [n \in Nodes |-> -1] /\ torn' = [n \in Nodes |-> FALSE]
    /\ UNCHANGED <<now, row, fleet, served, resetIn, again, moved>>

\* GetUser found no row: botMutateUser dereferences a nil user, in a goroutine
\* that does not recover.
BotPanics ==
    /\ thread[Bot].pc = "find"
    /\ state = "gone"
    /\ spent' = [spent EXCEPT !["restart"] = @ + 1]
    /\ Restarted

\* UpdateUser: all the columns, as loaded but for the one that was edited.
UpdateUser(t) ==
    /\ thread[t].pc = "write" /\ thread[t].op = "update"
    /\ Ends(t, thread[t].todo)
    /\ IF state = "live"
       THEN /\ cols' = thread[t].cols
            /\ moved' = (moved \/ cols'.resetDay # cols.resetDay)
       ELSE UNCHANGED <<cols, moved>>
    /\ UNCHANGED <<now, state, used, lastReset, uuid, assigned, breakdown, fleet, nodeVars,
                   auto, ingest, resetIn, again, spent>>

\* SetUserNodes: replaces the rows of user_nodes, of a deleted user too.
SetUserNodes(t) ==
    /\ thread[t].pc = "write" /\ thread[t].op \in {"create", "nodes"}
    /\ Ends(t, thread[t].todo)
    /\ assigned' = thread[t].nodes
    /\ UNCHANGED <<now, state, cols, used, lastReset, uuid, breakdown, fleet, nodeVars, auto,
                   ingest, resetIn, again, moved, spent>>

\* SetUserUUID
SetUserUUID(t) ==
    /\ thread[t].pc = "write" /\ thread[t].op = "uuid"
    /\ Ends(t, thread[t].todo)
    /\ uuid' = IF state = "live" THEN uuid + 1 ELSE uuid
    /\ UNCHANGED <<now, state, cols, used, lastReset, assigned, breakdown, fleet, nodeVars,
                   auto, ingest, resetIn, again, moved, spent>>

\* DeleteUser: one transaction; the row is gone with its columns.
DeleteUser(t) ==
    /\ thread[t].pc = "write" /\ thread[t].op = "delete"
    /\ Ends(t, thread[t].todo)
    /\ state' = "gone" /\ cols' = NoCols /\ used' = 0 /\ lastReset' = 0 /\ uuid' = 0
    /\ assigned' = {}
    /\ breakdown' = [n \in Nodes |-> 0]
    /\ UNCHANGED <<now, fleet, nodeVars, auto, ingest, resetIn,
                   again, moved, spent>>

\* Mutant of ClearTraffic: the rows of node_traffic are kept.
ClearTrafficKeepsBreakdown == used' = 0 /\ UNCHANGED breakdown

\* ResetUserTraffic: one transaction.
ClearTraffic == used' = 0 /\ breakdown' = [n \in Nodes |-> 0]

\* handleResetUserTraffic resets first and loads the assignment afterwards; the
\* bot does it the other way round.
ResetUserTraffic(t) ==
    /\ \/ /\ t # Bot /\ state = "live"
          /\ Start(t, [Idle EXCEPT !.pc = "reload"])
          /\ UNCHANGED sync
       \/ /\ thread[t].pc = "write" /\ thread[t].op = "reset"
          /\ Ends(t, thread[t].todo)
          /\ UNCHANGED spent
    /\ ClearTraffic
    /\ UNCHANGED <<now, state, cols, lastReset, uuid, assigned, fleet, nodeVars, auto, ingest,
                   resetIn, again, moved>>

ReloadUser(t) ==
    /\ thread[t].pc = "reload"
    /\ Ends(t, IF state = "live" THEN assigned ELSE {})
    /\ UNCHANGED <<now, row, fleet, nodeVars, auto, ingest, resetIn, again, moved, spent>>

\* handleDeleteNode: the agent stays connected.
DeleteNode(n) ==
    /\ n \in fleet
    /\ Spend("node")
    /\ fleet' = fleet \ {n}
    /\ assigned' = assigned \ {n}
    /\ breakdown' = [breakdown EXCEPT ![n] = 0]
    /\ UNCHANGED <<now, state, cols, used, lastReset, uuid, nodeVars, sync, thread, auto, ingest,
                   resetIn, again, moved>>

-----------------------------------------------------------------------------
(* Loops *)

\* autoResetLoop's check: ListUsers, then monthlyResetDue with the time read once.
AutoList ==
    /\ auto.pc = "idle" /\ AtRest(ResetLoop)
    /\ state = "live"
    /\ monthlyResetDue(now, cols.resetDay, lastReset)
    /\ auto' = [pc |-> "reset", at |-> now, todo |-> assigned]
    /\ UNCHANGED <<now, row, fleet, nodeVars, sync, thread, ingest, resetIn, again, moved, spent>>

\* autoResetLoop: ResetUserTraffic; an error leaves the rest to the next check.
AutoReset ==
    /\ auto.pc = "reset"
    /\ \/ /\ ClearTraffic
          /\ auto' = [auto EXCEPT !.pc = "mark"]
          /\ resetIn' = auto.at \div Month
          /\ again' = (again \/ resetIn' = resetIn)
          /\ UNCHANGED spent
       \/ /\ Spend("db")
          /\ auto' = AutoIdle
          /\ UNCHANGED <<used, breakdown, resetIn, again>>
    /\ UNCHANGED <<now, state, cols, lastReset, uuid, assigned, fleet, nodeVars, sync, thread,
                   ingest, moved>>

\* autoResetLoop: SetUserLastReset, whose error is ignored.
AutoMark ==
    /\ auto.pc = "mark"
    /\ auto' = AutoIdle
    /\ Syncs(ResetLoop, auto.todo)
    /\ \/ /\ lastReset' = IF state = "live" THEN auto.at ELSE lastReset
          /\ UNCHANGED spent
       \/ Spend("db") /\ UNCHANGED lastReset
    /\ UNCHANGED <<now, state, cols, used, uuid, assigned, breakdown, fleet, nodeVars, thread,
                   ingest, resetIn, again, moved>>

\* ingestTraffic on node n's connection, a batch with traffic of the user: the
\* node has a row (NodeTrafficSeq) and the user is assigned (UsersForNode).
IngestStart(n) ==
    /\ ingest[n] = "idle" /\ AtRest(n)
    /\ n \in fleet /\ state = "live" /\ n \in assigned
    /\ Spend("traffic")
    /\ ingest' = [ingest EXCEPT ![n] = "add"]
    /\ UNCHANGED <<now, row, fleet, nodeVars, sync, thread, auto, resetIn, again, moved>>

\* AddTraffic: data_used and the row of node_traffic, in one transaction; the
\* user or the node may have been deleted meanwhile.  ingestTraffic ends with a sync.
AddTraffic(n) ==
    /\ ingest[n] = "add"
    /\ ingest' = [ingest EXCEPT ![n] = "idle"]
    /\ Syncs(n, {n})
    /\ used' = IF state = "live" THEN used + 1 ELSE used
    /\ breakdown' = [breakdown EXCEPT ![n] = @ + 1]
    /\ UNCHANGED <<now, state, cols, lastReset, uuid, assigned, fleet, nodeVars, thread, auto,
                   resetIn, again, moved, spent>>

\* enforcementLoop syncs every connected node, round after round; rounds that find the
\* signature in the cache, or no row to push, are left out.
Enforce(n) ==
    /\ AtRest(EnforceLoop) /\ MaySync
    /\ n \in fleet /\ cached[n] # Should(n)
    /\ ReadSig(EnforceLoop, n, {})

PanelRestart == Spend("restart") /\ Restarted

Tick ==
    /\ now < MaxTime
    /\ now' = now + 1
    /\ UNCHANGED <<row, fleet, nodeVars, sync, thread, auto, ingest, resetIn, again, moved, spent>>

HandlerStep(t) ==
    \/ UpdateUser(t) \/ SetUserNodes(t) \/ SetUserUUID(t) \/ DeleteUser(t)
    \/ ReloadUser(t)

AutoStep == AutoList \/ AutoReset \/ AutoMark

Next ==
    \/ \E t \in Threads, c \in Cols, S \in SUBSET Nodes : CreateUser(t, c, S)
    \/ \E t \in Threads : LoadUser(t) \/ ResetUserTraffic(t) \/ HandlerStep(t)
    \/ FindUser \/ BotLoad \/ BotPanics
    \/ AutoStep
    \/ \E n \in Nodes : DeleteNode(n) \/ Enforce(n) \/ IngestStart(n) \/ AddTraffic(n)
    \/ \E k \in Callers : SyncStep(k)
    \/ PanelRestart \/ Tick

Spec == Init /\ [][Next]_vars

\* A handler or command once begun, the reset loop, ingest and the enforcement loop
\* keep running; nobody has to start an operation, and the clock may stop.
GoOn(t) == \/ HandlerStep(t)
           \/ thread[t].pc = "write" /\ ResetUserTraffic(t)
           \/ t = Bot /\ (BotLoad \/ BotPanics)

Progress ==
    \/ \E k \in Callers : SyncStep(k)
    \/ AutoStep
    \/ \E n \in Nodes : Enforce(n) \/ AddTraffic(n)
    \/ \E t \in Threads : GoOn(t)

FairSpec == Spec /\ WF_vars(Progress)

-----------------------------------------------------------------------------
(* Properties *)

\* The rows of node_traffic, unit by unit.
Recorded == UNION {{n} \X (1 .. breakdown[n]) : n \in Nodes}

\* The comment on ResetUserTraffic: the aggregate and the per-node breakdown are
\* kept consistent.  Whatever edits, resets, reassignments and restarts run
\* between the transactions, the rows of node_traffic add up to data_used, and
\* never to more once a node's rows have been deleted with it.
BreakdownAddsUp ==
    state = "live" => /\ Cardinality(Recorded) <= used
                      /\ fleet = Nodes => Cardinality(Recorded) = used

\* docs/users.md: data_used is auto-reset "once per month".  It is as long as the
\* panel does not stop between the two writes of a reset, the second write does
\* not fail, and nobody moves the reset day.
ResetOncePerMonth == (spent["restart"] = 0 /\ spent["db"] = 0 /\ ~moved) => ~again

\* docs/users.md: when a user stops or starts being active, the enforcement loop
\* updates the affected nodes.  Once the database and the clock rest, every node that
\* has a row serves what the database says, whatever the handlers, syncs of assignments
\* already replaced, failed reads and restarts before, unless the last signature was
\* stored when the node served something else: a change had landed between the reads
\* of a sync, or between its push and its store.
Enforced ==
    <>[](\A n \in fleet : served[n] = Should(n) \/ torn[n])

\* A reset that fell due is made, however late autoResetLoop looks: once the
\* clock rests past this month's reset day the reset is on record.
ResetHappens ==
    <>[](state = "live" /\ cols.resetDay > 0 =>
            LET due == ResetInstant(now, cols.resetDay) IN now >= due => lastReset >= due)
=============================================================================
