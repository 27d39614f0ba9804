------------------------------ MODULE Devices ------------------------------
(***************************************************************************)
(* Client devices of one node: the agent tails Xray's access log from a    *)
(* durable offset (internal/agent/devices.go) and sends what it found, once *)
(* and without an ack (internal/agent/agent.go); the panel adds it to the  *)
(* user_devices rows (internal/panel/traffic.go, store.go) and expires     *)
(* rows by a daily sweep.                                                  *)
(*                                                                         *)
(* A device is a user and a source address.  A log line occupies two units *)
(* of the file, its text and its newline.  The inbound kind and first_seen *)
(* columns are left out.  Both processes read one clock; the stamps Xray   *)
(* writes are Skew ahead of it.                                            *)
(***************************************************************************)
EXTENDS Naturals, Sequences, FiniteSets, FiniteSetsExt

CONSTANTS
    Users,        \* usernames (the email of a log line)
    IPs,          \* source addresses
    Inodes,       \* inode numbers; a rotated log may get a used one again
    Conns,        \* connection slots
    NoConn,       \* not a connection
    Skew,         \* how far Xray's stamps are ahead of the agent's clock
    Active,       \* window of "active clients" (300 s)
    Retention,    \* deviceRetention (30 days)
    MaxTime,      \* bound on the clock
    UpCap,        \* bound on unread frames of one connection
    MaxLines,     \* bound on the log's length
    MaxWrites,    \* bound on the lines ever written
    Budget,       \* [Kinds -> Nat]: bound on each kind of event
    MaxEvents     \* bound on all of them together

Kinds == {"drop", "timeout", "agent", "panel", "db", "save", "torn",
          "rotate", "truncate", "race", "edit", "delete"}

ASSUME ConstAssumption ==
    /\ NoConn \notin Conns
    /\ Inodes # {}
    /\ Skew \in Nat /\ Active \in Nat /\ Retention \in Nat
    /\ Active <= Retention
    /\ UpCap \in Nat \ {0}
    /\ MaxTime \in Nat /\ MaxLines \in Nat /\ MaxWrites \in Nat
    /\ Budget \in [Kinds -> Nat] /\ MaxEvents \in Nat

VARIABLES
    now,      \* the clock
    log,      \* the access log: inode, lines, whether the last one lacks its newline
    w,        \* accessWatcher: seeded, offset, inode
    saved,    \* access-offset.json; seeded is FALSE when there is none
    tick,     \* [Conns -> ticker goroutine of that session]
    sess,     \* the session the agent's read loop serves, or NoConn
    live,     \* [Conns -> BOOLEAN]: the TCP link works
    up,       \* [Conns -> Seq(SUBSET Item)]: device frames not yet read
    reader,   \* [Conns -> panel handler goroutine of that connection]
    rows,     \* [Devs -> Row]: user_devices
    exists,   \* users in the database
    assigned, \* users assigned to this node
    sweep,    \* cutoff of a sweep under way, 0 when there is none
    logged,   \* [Devs -> Nat]: lines logged since the read position exists
    lastAt,   \* [Devs -> Nat]: when the device last connected
    writes,   \* lines written so far
    events    \* [Kinds -> Nat]: events so far

agentVars == <<w, saved, tick, sess>>
netVars   == <<live, up, reader>>
dbVars    == <<rows, exists, assigned, sweep>>
history   == <<logged, lastAt, writes>>
vars == <<now, log, agentVars, netVars, dbVars, history, events>>

Devs     == Users \X IPs
Line     == [dev : Devs, stamp : Nat]
LogFile  == [ino : Inodes, lines : Seq(Line), torn : BOOLEAN]
Position == [seeded : BOOLEAN, offset : Nat, ino : Inodes]
Item     == [dev : Devs, conns : Nat, last : Nat]
Row      == [conns : Nat, last : Nat]
Ticker   == [pc : {"off", "idle", "read", "save", "send"}, items : SUBSET Item]
Reader   == [pc : {"none", "idle", "apply"}, todo : SUBSET Item]

NoRow      == [conns |-> 0, last |-> 0]
TickerOff  == [pc |-> "off", items |-> {}]
TickerIdle == [pc |-> "idle", items |-> {}]
NoReader   == [pc |-> "none", todo |-> {}]
ReaderIdle == [pc |-> "idle", todo |-> {}]

TypeOK ==
    /\ now \in Nat
    /\ log \in LogFile
    /\ w \in Position
    /\ saved \in Position
    /\ tick \in [Conns -> Ticker]
    /\ sess \in Conns \cup {NoConn}
    /\ live \in [Conns -> BOOLEAN]
    /\ up \in [Conns -> Seq(SUBSET Item)]
    /\ reader \in [Conns -> Reader]
    /\ rows \in [Devs -> Row]
    /\ exists \in SUBSET Users
    /\ assigned \in SUBSET Users
    /\ sweep \in Nat
    /\ logged \in [Devs -> Nat]
    /\ lastAt \in [Devs -> Nat]
    /\ writes \in Nat
    /\ events \in [Kinds -> Nat]

\* The agent is new on a node whose log may already hold a line.
Init ==
    /\ now = 1
    /\ w = [seeded |-> FALSE, offset |-> 0, ino |-> CHOOSE i \in Inodes : TRUE]
    /\ \E old \in {<<>>} \cup {<<[dev |-> d, stamp |-> 1 + Skew]>> : d \in Devs} :
          /\ log = [ino |-> w.ino, lines |-> old, torn |-> FALSE]
          /\ lastAt = [d \in Devs |-> IF \E l \in 1..Len(old) : old[l].dev = d
                                      THEN 1 ELSE 0]
    /\ saved = w
    /\ tick = [c \in Conns |-> TickerOff]
    /\ sess = NoConn
    /\ live = [c \in Conns |-> FALSE]
    /\ up = [c \in Conns |-> <<>>]
    /\ reader = [c \in Conns |-> NoReader]
    /\ rows = [d \in Devs |-> NoRow]
    /\ exists = Users
    /\ assigned = Users
    /\ sweep = 0
    /\ logged = [d \in Devs |-> 0]
    /\ writes = 0
    /\ events = [k \in Kinds |-> 0]

Total == MapThenSumSet(LAMBDA k : events[k], Kinds)

Event(k) ==
    /\ events[k] < Budget[k]
    /\ Total < MaxEvents
    /\ events' = [events EXCEPT ![k] = @ + 1]

-----------------------------------------------------------------------------
(* The environment: the clock, Xray writing its log, rotation *)

Tick ==
    /\ now < MaxTime
    /\ now' = now + 1
    /\ UNCHANGED <<log, agentVars, netVars, dbVars, history, events>>

\* Xray logs a connection; a torn line still lacks its newline.
WriteLine(d, torn) ==
    /\ ~log.torn
    /\ Len(log.lines) < MaxLines
    /\ writes < MaxWrites
    /\ log' = [log EXCEPT !.lines = @ \o <<[dev |-> d, stamp |-> now + Skew]>>,
                          !.torn = torn]
    /\ lastAt' = [lastAt EXCEPT ![d] = now]
    /\ logged' = IF w.seeded THEN [logged EXCEPT ![d] = @ + 1] ELSE logged
    /\ writes' = writes + 1
    /\ UNCHANGED <<now, agentVars, netVars, dbVars>>

XrayLogs ==
    \E d \in Devs :
        \/ WriteLine(d, FALSE) /\ UNCHANGED events
        \/ WriteLine(d, TRUE) /\ Event("torn")

NewlineArrives ==
    /\ log.torn
    /\ log' = [log EXCEPT !.torn = FALSE]
    /\ UNCHANGED <<now, agentVars, netVars, dbVars, history, events>>

\* An empty file takes the log's place; with the inode number of the old one it
\* is as if that was truncated in place.  "race": between the Stat and the Open
\* of collect.
Rotate ==
    /\ \E i \in Inodes :
          /\ log' = [ino |-> i, lines |-> <<>>, torn |-> FALSE]
          /\ Event(IF \E c \in Conns : tick[c].pc = "read" THEN "race"
                   ELSE IF i = log.ino THEN "truncate" ELSE "rotate")
    /\ UNCHANGED <<now, agentVars, netVars, dbVars, history>>

-----------------------------------------------------------------------------
(* The agent: accessWatcher.collect under w.mu, then the send *)

Size == 2 * Len(log.lines) - (IF log.torn THEN 1 ELSE 0)

\* saveOffset ignores its errors.
saveOffset(p) ==
    \/ saved' = p /\ UNCHANGED events
    \/ saved' = saved /\ Event("save")

\* w.mu is held from the Stat to the saved offset.
Unlocked == \A c \in Conns : tick[c].pc \notin {"read", "save"}

\* Mutant of Resume: a file that shrank is read on from the old offset.
ResumeUnlessTruncated ==
    [seeded |-> TRUE, offset |-> IF log.ino # w.ino THEN 0 ELSE w.offset, ino |-> log.ino]

\* The read position for the file Stat describes: 0 for another file or one
\* that shrank.
Resume ==
    LET same == IF log.ino # w.ino THEN 0 ELSE w.offset
    IN  [seeded |-> TRUE, offset |-> IF Size < same THEN 0 ELSE same,
         ino |-> log.ino]

\* Mutant of Seed: the last line of the history is left to be read.
SeedOneLineBack(c) ==
    /\ tick[c].pc = "idle"
    /\ Unlocked
    /\ ~w.seeded
    /\ w' = [seeded |-> TRUE, offset |-> Size - 2, ino |-> log.ino]
    /\ saveOffset(w')
    /\ UNCHANGED <<now, log, tick, sess, netVars, dbVars, history>>

\* The first collect only establishes a read position, at the end of the log.
Seed(c) ==
    /\ tick[c].pc = "idle"
    /\ Unlocked
    /\ ~w.seeded
    /\ w' = [seeded |-> TRUE, offset |-> Size, ino |-> log.ino]
    /\ saveOffset(w')
    /\ UNCHANGED <<now, log, tick, sess, netVars, dbVars, history>>

Stat(c) ==
    /\ tick[c].pc = "idle"
    /\ Unlocked
    /\ w.seeded
    /\ w' = Resume
    /\ tick' = IF Size = Resume.offset
               THEN tick ELSE [tick EXCEPT ![c].pc = "read"]
    /\ UNCHANGED <<now, log, saved, sess, netVars, dbVars, history, events>>

\* Mutant of lineTime: a line is dated when it is collected.
lineTimeIsNow(stamp) == now

lineTime(stamp) == IF stamp <= now THEN stamp ELSE now

\* The lines the scanner meets from the offset on, the torn one included.
Unread == {i \in 1..Len(log.lines) : 2 * (i - 1) >= w.offset}

\* One item per device: its lines, and the latest of their times.
Aggregate(ls) ==
    {[dev |-> d, conns |-> Cardinality({i \in ls : log.lines[i].dev = d}),
      last |-> Max({lineTime(log.lines[i].stamp) : i \in {j \in ls : log.lines[j].dev = d}})]
        : d \in {log.lines[i].dev : i \in ls}}

\* Each token counts len + 1, also a last one that had no newline.
BytesRead ==
    IF w.offset >= Size THEN 0
    ELSE Size - w.offset + (IF log.torn THEN 1 ELSE 0)

Read(c) ==
    /\ tick[c].pc = "read"
    /\ tick' = [tick EXCEPT ![c] = [pc |-> "save", items |->
                    IF w.offset >= Size THEN {} ELSE Aggregate(Unread)]]
    /\ w' = [w EXCEPT !.offset = @ + BytesRead]
    /\ UNCHANGED <<now, log, saved, sess, netVars, dbVars, history, events>>

Save(c) ==
    /\ tick[c].pc = "save"
    /\ saveOffset(w)
    /\ tick' = [tick EXCEPT ![c] = IF @.items = {} THEN TickerIdle
                                   ELSE [@ EXCEPT !.pc = "send"]]
    /\ UNCHANGED <<now, log, w, sess, netVars, dbVars, history>>

\* A send that fails ends the ticker and the observations with it.
Send(c) ==
    /\ tick[c].pc = "send"
    /\ \/ /\ live[c] /\ Len(up[c]) < UpCap
          /\ up' = [up EXCEPT ![c] = Append(@, tick[c].items)]
          /\ tick' = [tick EXCEPT ![c] = TickerIdle]
          /\ UNCHANGED events
       \/ /\ ~live[c]
          /\ tick' = [tick EXCEPT ![c] = TickerOff]
          /\ UNCHANGED <<up, events>>
       \/ /\ live[c]
          /\ Event("timeout")
          /\ tick' = [tick EXCEPT ![c] = TickerOff]
          /\ UNCHANGED up
    /\ UNCHANGED <<now, log, w, saved, sess, live, reader, dbVars, history>>

TickerStop(c) ==
    /\ tick[c].pc = "idle" /\ sess # c
    /\ tick' = [tick EXCEPT ![c] = TickerOff]
    /\ UNCHANGED <<now, log, w, saved, sess, netVars, dbVars, history, events>>

\* The agent's read loop fails; RunManaged dials again.
ReadError ==
    /\ sess \in Conns /\ ~live[sess]
    /\ sess' = NoConn
    /\ UNCHANGED <<now, log, w, saved, tick, netVars, dbVars, history, events>>

\* Connection slots are interchangeable: any free one will do.
Free == {c \in Conns : tick[c].pc = "off" /\ reader[c].pc = "none"}

\* The registration of the new connection closes the older one, whose handler
\* may go on with what it had buffered.
Connect(c) ==
    /\ sess = NoConn
    /\ Free # {} /\ c = CHOOSE o \in Free : TRUE
    /\ sess' = c
    /\ live' = [o \in Conns |-> o = c]
    /\ \E n \in 0..UpCap :
          up' = [o \in Conns |-> IF o = c THEN <<>>
                                 ELSE IF n < Len(up[o]) THEN SubSeq(up[o], 1, n)
                                      ELSE up[o]]
    /\ tick' = [tick EXCEPT ![c] = TickerIdle]
    /\ reader' = [reader EXCEPT ![c] = ReaderIdle]
    /\ UNCHANGED <<now, log, w, saved, dbVars, history, events>>

\* Mutant of AgentRestart: the offset was kept in memory only.
AgentRestartAtStart ==
    /\ Event("agent")
    /\ w' = [saved EXCEPT !.offset = 0]
    /\ tick' = [c \in Conns |-> TickerOff]
    /\ sess' = NoConn
    /\ live' = [c \in Conns |-> FALSE]
    /\ UNCHANGED <<now, log, saved, up, reader, dbVars, history>>

AgentRestart ==
    /\ Event("agent")
    /\ w' = saved
    /\ tick' = [c \in Conns |-> TickerOff]
    /\ sess' = NoConn
    /\ live' = [c \in Conns |-> FALSE]
    /\ UNCHANGED <<now, log, saved, up, reader, dbVars, history>>

Drop(c) ==
    /\ live[c]
    /\ Event("drop")
    /\ live' = [live EXCEPT ![c] = FALSE]
    /\ \E n \in 0..Len(up[c]) : up' = [up EXCEPT ![c] = SubSeq(@, 1, n)]
    /\ UNCHANGED <<now, log, agentVars, reader, dbVars, history>>

-----------------------------------------------------------------------------
(* The panel: ingestDevices, one upsert at a time, the sweep, administration *)

UsersForNode == assigned \cap exists

Applying(todo) == [pc |-> IF todo = {} THEN "idle" ELSE "apply", todo |-> todo]

\* ingestDevices up to its loop; a failed query drops the frame.
Ingest(c) ==
    /\ reader[c].pc = "idle" /\ up[c] # <<>>
    /\ up' = [up EXCEPT ![c] = Tail(@)]
    /\ \/ /\ reader' = [reader EXCEPT ![c] =
                Applying({it \in Head(up[c]) : it.dev[1] \in UsersForNode})]
          /\ UNCHANGED events
       \/ Event("db") /\ UNCHANGED reader
    /\ UNCHANGED <<now, log, agentVars, live, dbVars, history>>

\* A replayed log raises conns without end: the model stops counting at MaxConns,
\* more than the lines ever written.
MaxConns == MaxWrites + 1

\* An older agent sends no last_seen.
Seen(it) == IF it.last = 0 THEN now ELSE it.last

UpsertDevice(it) ==
    rows' = [rows EXCEPT ![it.dev] = 
        [conns |-> Min({@.conns + it.conns, MaxConns}), last |-> Seen(it)]]

Upsert(c) ==
    /\ reader[c].pc = "apply"
    /\ \E it \in reader[c].todo :
          /\ \/ UpsertDevice(it) /\ UNCHANGED events
             \/ Event("db") /\ UNCHANGED rows
          /\ reader' = [reader EXCEPT ![c] = Applying(@.todo \ {it})]
    /\ UNCHANGED <<now, log, agentVars, live, up, exists, assigned, sweep, history>>

HandlerEnd(c) ==
    /\ reader[c].pc = "idle" /\ ~live[c] /\ up[c] = <<>>
    /\ reader' = [reader EXCEPT ![c] = NoReader]
    /\ UNCHANGED <<now, log, agentVars, live, up, dbVars, history, events>>

\* deviceCleanupLoop: the cutoff is computed, then the statement runs.
SweepBegin ==
    /\ sweep = 0 /\ now > Retention
    /\ sweep' = now - Retention
    /\ UNCHANGED <<now, log, agentVars, netVars, rows, exists, assigned, history, events>>

\* Mutant of PurgeDevices: a row last seen at the cutoff goes too.
PurgeDevicesAtCutoff ==
    /\ sweep # 0
    /\ rows' = [d \in Devs |-> IF rows[d].last <= sweep THEN NoRow ELSE rows[d]]
    /\ sweep' = 0
    /\ UNCHANGED <<now, log, agentVars, netVars, exists, assigned, history, events>>

PurgeDevices ==
    /\ sweep # 0
    /\ rows' = [d \in Devs |-> IF rows[d].last < sweep THEN NoRow ELSE rows[d]]
    /\ sweep' = 0
    /\ UNCHANGED <<now, log, agentVars, netVars, exists, assigned, history, events>>

PanelRestart ==
    /\ Event("panel")
    /\ live' = [c \in Conns |-> FALSE]
    /\ up' = [c \in Conns |-> <<>>]
    /\ reader' = [c \in Conns |-> NoReader]
    /\ sweep' = 0
    /\ UNCHANGED <<now, log, agentVars, rows, exists, assigned, history>>

DeleteUser(u) ==
    /\ u \in exists
    /\ Event("delete")
    /\ exists' = exists \ {u}
    /\ rows' = [d \in Devs |-> IF d[1] = u THEN NoRow ELSE rows[d]]
    /\ UNCHANGED <<now, log, agentVars, netVars, assigned, sweep, history>>

SetUserNodes(u) ==
    /\ u \in exists
    /\ Event("edit")
    /\ assigned' = IF u \in assigned THEN assigned \ {u} ELSE assigned \cup {u}
    /\ UNCHANGED <<now, log, agentVars, netVars, rows, exists, sweep, history>>

-----------------------------------------------------------------------------
Collect(c) == Seed(c) \/ Stat(c) \/ Read(c) \/ Save(c) \/ Send(c)
Handle(c)  == Ingest(c) \/ Upsert(c) \/ HandlerEnd(c)

Next ==
    \/ Tick \/ XrayLogs \/ NewlineArrives \/ Rotate
    \/ \E c \in Conns : \/ Collect(c) \/ TickerStop(c) \/ Connect(c) \/ Drop(c)
                        \/ Handle(c)
    \/ ReadError \/ AgentRestart
    \/ SweepBegin \/ PurgeDevices \/ PanelRestart
    \/ \E u \in Users : DeleteUser(u) \/ SetUserNodes(u)

Spec == Init /\ [][Next]_vars

\* Both processes run and RunManaged dials again.  Neither the clock nor Xray
\* has to go on, and no event of Kinds has to happen.
FairSpec ==
    /\ Spec
    /\ \A c \in Conns : WF_vars(Collect(c)) /\ WF_vars(Handle(c)) /\ WF_vars(TickerStop(c))
    /\ WF_vars(\E c \in Conns : Connect(c))
    /\ WF_vars(ReadError)

-----------------------------------------------------------------------------
(* What administrators read *)

\* The addresses NodeClientCounts counts for the node.
NodeClients(since) == {d[2] : d \in {e \in Devs : rows[e].conns > 0 /\ rows[e].last >= since}}

\* The addresses DeviceCounts counts for a user.
UserDevices(u, since) == {d[2] : d \in {e \in Devs :
    e[1] = u /\ rows[e].conns > 0 /\ rows[e].last >= since}}

\* The list of nodes shows the active clients, the list of users the devices of
\* 30 days.
ActiveClients == IF now > Active THEN NodeClients(now - Active) ELSE NodeClients(0)

RecentDevices(u) == IF now > Retention THEN UserDevices(u, now - Retention)
                                       ELSE UserDevices(u, 0)

-----------------------------------------------------------------------------
(* Properties *)

\* No connection is counted twice, and nothing of the log's history before the
\* agent's first run is counted: through restarts of the agent at any point of
\* collect, rotations, drops and overlapping handlers.  Excluded: a lost write of
\* access-offset.json, a line without its newline at the end of the log, and a
\* rotation between Stat and Open.
AtMostOnce ==
    events["save"] + events["torn"] + events["race"] = 0
        => \A d \in Devs : rows[d].conns <= logged[d]

\* A client shown as active did connect within the window, however late its
\* lines were read, and no row lies in the future.
NoGhostClients ==
    /\ ActiveClients \subseteq
          {d[2] : d \in {e \in Devs : lastAt[e] > 0 /\ lastAt[e] + Skew + Active >= now}}
    /\ \A d \in Devs : rows[d].last <= now

\* The sweep removes nothing the 30-day device count of the users list shows,
\* although its cutoff is older than the moment the rows are deleted.
SweepHidesNothing ==
    [][PurgeDevices => \A u \in Users : RecentDevices(u)' = RecentDevices(u)]_vars

\* Where reading has to go on: a file that is another or shrank is all new.
Start == IF log.ino # w.ino \/ Size < w.offset THEN 0 ELSE w.offset

\* A line of device d is still to be read.
Waiting(d) ==
    /\ w.seeded /\ d[1] \in UsersForNode
    /\ \E i \in 1..Len(log.lines) : log.lines[i].dev = d /\ 2 * (i - 1) >= Start

\* No goroutine of the agent works for a connection that is gone, and the
\* session has its ticker.
SoundSessions ==
    /\ \A c \in Conns : tick[c].pc # "off" => live[c]
    /\ sess # NoConn => tick[sess].pc # "off"

\* A truncated log that reaches the old offset is not told from one that grew:
\* lines written until then are never read.
Outgrown ==
    /\ events["truncate"] + events["race"] > 0
    /\ log.ino = w.ino /\ Size >= w.offset

\* While nothing fails or is changed, the panel catches up with the lines still
\* to be read, whatever happened before: the row shows the latest connection.
Reported ==
    \A d \in Devs, n \in 0..MaxEvents :
        (Waiting(d) /\ SoundSessions /\ Total = n)
            ~> \/ rows[d].last >= lastAt[d] \/ now > lastAt[d] + Retention
               \/ Outgrown \/ Total # n
=============================================================================
