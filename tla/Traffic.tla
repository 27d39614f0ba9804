------------------------------ MODULE Traffic ------------------------------
(***************************************************************************)
(* The traffic accounting protocol of one node: Xray's read-and-reset      *)
(* counters, the agent's durable buffer (internal/agent/pending.go), the   *)
(* WebSocket sessions that carry batches up and acks down                  *)
(* (internal/agent/agent.go, internal/panel/hub.go), and the panel's       *)
(* non-atomic ingest of a batch (internal/panel/traffic.go).               *)
(*                                                                         *)
(* A byte count is abstracted to the set of "chunks" it is the sum of: a   *)
(* chunk is one indivisible amount of traffic of one user.  Adding counts  *)
(* is union, and a chunk counted twice is traffic accounted twice.         *)
(*                                                                         *)
(* A connection is a slot of Conns, reused once both ends are done with    *)
(* it, so |Conns| bounds how many sessions overlap, not how many there are.*)
(***************************************************************************)
EXTENDS Naturals, Sequences, FiniteSets

CONSTANTS
    Chunks,            \* the amounts of traffic users may cause
    Users,             \* the users (emails) known to the panel
    Owner,             \* [Chunks -> Users]: whose traffic a chunk is
    Conns,             \* connection slots
    NoConn,            \* not a connection
    UpCap,             \* bound on unread frames of one connection
    DownCap,           \* capacity of a connection's send channel (8 in hub.go)
    MaxDrops,          \* network failures of a live connection
    MaxOverlaps,       \* dials while an older handler still has frames to apply
    MaxTimeouts,       \* sends of the agent that fail on a connection whose link is fine
    MaxStalls,         \* writes of the panel that fail on a connection whose link is fine
    MaxAgentRestarts,  \* agent restarts with no collected traffic in hand
    MaxMidCollect,     \* agent restarts between reading the counters and saving
    MaxWipes,          \* agent restarts that find no pending-traffic.json
    MaxSaveErrors,     \* failed writes of pending-traffic.json
    MaxCounterLosses,  \* counters zeroed without being read
    MaxPanelRestarts,  \* panel restarts
    MaxDBErrors,       \* failed database calls of ingestTraffic
    MaxReassigns,      \* changes of the node's assigned users
    MaxKinds           \* kinds of fault that meet in one behaviour, stalls aside

ASSUME ConstAssumption ==
    /\ Owner \in [Chunks -> Users]
    /\ NoConn \notin Conns
    /\ UpCap \in Nat \ {0}
    /\ DownCap \in Nat \ {0}

FaultKinds == {"drop", "timeout", "stall", "agent", "midcollect", "wipe",
               "save", "counters", "panel", "db", "reassign"}

Budget == [drop |-> MaxDrops, timeout |-> MaxTimeouts, stall |-> MaxStalls,
           agent |-> MaxAgentRestarts,
           midcollect |-> MaxMidCollect, wipe |-> MaxWipes,
           save |-> MaxSaveErrors, counters |-> MaxCounterLosses,
           panel |-> MaxPanelRestarts, db |-> MaxDBErrors,
           reassign |-> MaxReassigns]

ASSUME BudgetAssumption ==
    Budget \in [FaultKinds -> Nat] /\ MaxOverlaps \in Nat

VARIABLES
    produced,   \* every chunk users have caused so far
    xray,       \* chunks in Xray's per-user counters
    buf,        \* the agent's pendingTraffic, in memory
    disk,       \* pending-traffic.json
    tick,       \* [Conns -> ticker goroutine of that session]
    sess,       \* the session the agent's read loop serves, or NoConn
    live,       \* [Conns -> BOOLEAN]: the TCP link works
    up,         \* [Conns -> Seq(Frame)]: traffic frames not yet read
    down,       \* [Conns -> Seq(Nat)]: acks queued or on the wire
    reader,     \* [Conns -> panel handler goroutine of that connection]
    registered, \* Hub.conns of this node
    mute,       \* [Conns -> BOOLEAN]: its writeLoop has returned, and nothing else
    last,       \* nodes.traffic_seq in the database
    counted,    \* [Chunks -> Nat]: times a chunk was added to data_used
    ignored,    \* chunks skipped because their user is not on this node
    assigned,   \* users assigned to this node
    faults,     \* [FaultKinds -> Nat]: faults so far
    overlaps    \* dials so far that met an unfinished older handler

agentVars == <<xray, buf, disk, tick, sess>>
netVars   == <<live, up, down>>
panelVars == <<reader, registered>>
dbVars    == <<last, counted, ignored, assigned>>
vars == <<produced, agentVars, netVars, panelVars, mute, dbVars, faults, overlaps>>

Buffer == [seq : Nat, flight : SUBSET Chunks, flightAt : BOOLEAN,
           pend : SUBSET Chunks]
Frame  == [seq : Nat, items : SUBSET Chunks]
Ticker == [pc : {"off", "idle", "send"}, got : {{}}]
              \cup [pc : {"got"}, got : SUBSET Chunks]
Reader == [pc : {"none", "reg", "idle", "users", "apply", "ack"},
           seq : Nat, todo : SUBSET Chunks]

EmptyBuffer == [seq |-> 0, flight |-> {}, flightAt |-> FALSE, pend |-> {}]
TickerOff   == [pc |-> "off", got |-> {}]
TickerIdle  == [pc |-> "idle", got |-> {}]
NoReader    == [pc |-> "none", seq |-> 0, todo |-> {}]

TypeOK ==
    /\ produced \in SUBSET Chunks
    /\ xray \in SUBSET Chunks
    /\ buf \in Buffer
    /\ disk \in Buffer
    /\ tick \in [Conns -> Ticker]
    /\ sess \in Conns \cup {NoConn}
    /\ live \in [Conns -> BOOLEAN]
    /\ up \in [Conns -> Seq(Frame)]
    /\ down \in [Conns -> Seq(Nat)]
    /\ reader \in [Conns -> Reader]
    /\ registered \in Conns \cup {NoConn}
    /\ mute \in [Conns -> BOOLEAN]
    /\ last \in Nat
    /\ counted \in [Chunks -> Nat]
    /\ ignored \in SUBSET Chunks
    /\ assigned \in SUBSET Users
    /\ faults \in [FaultKinds -> Nat]
    /\ overlaps \in Nat

Init ==
    /\ produced = {}
    /\ xray = {}
    /\ buf = EmptyBuffer
    /\ disk = EmptyBuffer
    /\ tick = [c \in Conns |-> TickerOff]
    /\ sess = NoConn
    /\ live = [c \in Conns |-> FALSE]
    /\ up = [c \in Conns |-> <<>>]
    /\ down = [c \in Conns |-> <<>>]
    /\ reader = [c \in Conns |-> NoReader]
    /\ registered = NoConn
    /\ mute = [c \in Conns |-> FALSE]
    /\ last = 0
    /\ counted = [ch \in Chunks |-> 0]
    /\ ignored = {}
    /\ assigned = Users
    /\ faults = [k \in FaultKinds |-> 0]
    /\ overlaps = 0

-----------------------------------------------------------------------------
(* Helpers *)

Fault(k) ==
    /\ faults[k] < Budget[k]
    /\ Cardinality(({k} \cup {j \in FaultKinds : faults[j] > 0}) \ {"stall"}) <= MaxKinds
    /\ faults' = [faults EXCEPT ![k] = @ + 1]

\* The handler of c moves on with the batch it has read.
Goto(c, pc, todo) ==
    reader' = [reader EXCEPT ![c] = [pc |-> pc, seq |-> reader[c].seq,
                                     todo |-> todo]]

Prefix(s, n) == SubSeq(s, 1, n)

\* The chunks of the traffic item a batch carries for user u.
ItemOf(u, S) == {ch \in S : Owner[ch] = u}

\* What the panel has accounted for, rightly or by design.
Settled == {ch \in Chunks : counted[ch] > 0} \cup ignored

\* Traffic that some part of the node still holds.
Held == xray \cup buf.pend \cup buf.flight \cup UNION {tick[c].got : c \in Conns}

\* A handler with a frame to read or a batch half applied.
Unfinished(c) == up[c] # <<>> \/ reader[c].pc \in {"users", "apply"}

-----------------------------------------------------------------------------
(* pendingTraffic: the pure part of pending.go *)

\* Mutant of Collected: the new delta replaces what was waiting.
CollectedOverwrites(b, S) == [b EXCEPT !.pend = S]

\* collect: merge a freshly read delta.
Collected(b, S) == [b EXCEPT !.pend = @ \cup S]

\* Mutant of Batched: the new batch reuses the old seq.
BatchedSameSeq(b) ==
    IF ~b.flightAt /\ b.pend # {}
    THEN [b EXCEPT !.flight = b.pend, !.flightAt = TRUE, !.pend = {}]
    ELSE b

\* batch: promote pend under a new seq unless a batch is in flight.
Batched(b) ==
    IF ~b.flightAt /\ b.pend # {}
    THEN [seq |-> b.seq + 1, flight |-> b.pend, flightAt |-> TRUE, pend |-> {}]
    ELSE b

BatchFrame(b) == [seq |-> b.seq, items |-> b.flight]

\* The frames a new session starts with.
Flush(b) == IF b.flight # {} THEN <<BatchFrame(b)>> ELSE <<>>

\* Mutant of Acked: any ack clears the batch in flight.
AckedAnySeq(b, s) ==
    IF b.flightAt THEN [b EXCEPT !.flight = {}, !.flightAt = FALSE] ELSE b

\* ack: clear the batch in flight if the panel named it.
Acked(b, s) ==
    IF b.flightAt /\ s = b.seq
    THEN [b EXCEPT !.flight = {}, !.flightAt = FALSE]
    ELSE b

\* Update the buffer; save() runs iff something changed, and its errors are
\* ignored, leaving the old file.
SetBuf(b) ==
    /\ buf' = b
    /\ \/ b = buf /\ UNCHANGED <<disk, faults>>
       \/ b # buf /\ disk' = b /\ UNCHANGED faults
       \/ b # buf /\ Fault("save") /\ UNCHANGED disk

-----------------------------------------------------------------------------
(* Xray *)

\* A user causes traffic.
Produce(ch) ==
    /\ ch \notin produced
    /\ produced' = produced \cup {ch}
    /\ xray' = xray \cup {ch}
    /\ UNCHANGED <<overlaps, mute, buf, disk, tick, sess, netVars, panelVars, dbVars,
                   faults>>

\* Xray restarts, or zeroes the counters for a query whose reply is lost.
LoseCounters ==
    /\ xray # {}
    /\ Fault("counters")
    /\ xray' = {}
    /\ UNCHANGED <<overlaps, mute, produced, buf, disk, tick, sess, netVars, panelVars, dbVars>>

-----------------------------------------------------------------------------
(* Agent: session() and its ticker goroutine *)

\* Dial, register, flush the buffered batch, start the ticker.
Dial(c) ==
    /\ sess = NoConn
    /\ reader[c].pc = "none" /\ tick[c].pc = "off"
    /\ IF \E o \in Conns : Unfinished(o)
       THEN overlaps < MaxOverlaps /\ overlaps' = overlaps + 1
       ELSE UNCHANGED overlaps
    /\ sess' = c
    /\ live' = [live EXCEPT ![c] = TRUE]
    /\ SetBuf(Batched(buf))
    /\ up' = [up EXCEPT ![c] = Flush(Batched(buf))]
    /\ down' = [down EXCEPT ![c] = <<>>]
    /\ tick' = [tick EXCEPT ![c] = TickerIdle]
    /\ reader' = [reader EXCEPT ![c] = [pc |-> "reg", seq |-> 0, todo |-> {}]]
    /\ UNCHANGED <<produced, xray, registered, mute, dbVars>>

\* Stats tick: collectTraffic reads and resets Xray's counters.
ReadCounters(c) ==
    /\ tick[c].pc = "idle"
    /\ tick' = [tick EXCEPT ![c] = [pc |-> "got", got |-> xray]]
    /\ xray' = {}
    /\ UNCHANGED <<overlaps, mute, produced, buf, disk, sess, netVars, panelVars, dbVars, faults>>

\* Mutant of Collect: the delta stays in hand after it was merged.
CollectKeepsDelta(c) ==
    /\ tick[c].pc = "got"
    /\ SetBuf(Collected(buf, tick[c].got))
    /\ tick' = [tick EXCEPT ![c] = [pc |-> "send", got |-> tick[c].got]]
    /\ UNCHANGED <<overlaps, mute, produced, xray, sess, netVars, panelVars, dbVars>>

\* The same tick: pend.collect makes the delta durable.
Collect(c) ==
    /\ tick[c].pc = "got"
    /\ SetBuf(Collected(buf, tick[c].got))
    /\ tick' = [tick EXCEPT ![c] = [pc |-> "send", got |-> {}]]
    /\ UNCHANGED <<overlaps, mute, produced, xray, sess, netVars, panelVars, dbVars>>

\* The same tick: pend.batch, then send.  A write on a dead link fails, and the
\* write deadline may expire on a working one; either ends the ticker.
SendBatch(c) ==
    /\ tick[c].pc = "send"
    /\ \/ /\ Batched(buf).flight = {}
          /\ tick' = [tick EXCEPT ![c] = TickerIdle]
          /\ UNCHANGED <<buf, disk, faults, up>>
       \/ /\ Batched(buf).flight # {} /\ live[c] /\ Len(up[c]) < UpCap
          /\ SetBuf(Batched(buf))
          /\ up' = [up EXCEPT ![c] = Append(@, BatchFrame(buf'))]
          /\ tick' = [tick EXCEPT ![c] = TickerIdle]
       \/ /\ Batched(buf).flight # {} /\ ~live[c]
          /\ SetBuf(Batched(buf))
          /\ tick' = [tick EXCEPT ![c] = TickerOff]
          /\ UNCHANGED up
    /\ UNCHANGED <<overlaps, mute, produced, xray, sess, live, down, panelVars, dbVars>>

\* A heartbeat or batch write fails although the link works: the ticker ends and
\* the session lives on until its read loop meets an error.
WriteTimeout(c) ==
    /\ sess = c /\ live[c]
    /\ tick[c].pc = "idle"
    /\ Fault("timeout")
    /\ tick' = [tick EXCEPT ![c] = TickerOff]
    /\ UNCHANGED <<overlaps, mute, produced, xray, buf, disk, sess, netVars, panelVars, dbVars>>

\* The ticker sees stop, or its heartbeat fails on a dead link.
TickerStop(c) ==
    /\ tick[c].pc = "idle"
    /\ sess # c \/ ~live[c]
    /\ tick' = [tick EXCEPT ![c] = TickerOff]
    /\ UNCHANGED <<overlaps, mute, produced, xray, buf, disk, sess, netVars, panelVars, dbVars,
                   faults>>

\* The read loop gets an ack.
ReadAck(c) ==
    /\ sess = c
    /\ down[c] # <<>>
    /\ SetBuf(Acked(buf, Head(down[c])))
    /\ down' = [down EXCEPT ![c] = Tail(@)]
    /\ UNCHANGED <<overlaps, mute, produced, xray, tick, sess, live, up, panelVars, dbVars>>

\* The read loop fails: the link is dead and drained, or the pong to the
\* panel's ping (from its writeLoop) hit the write error that ended the ticker.
\* The session closes its socket; what it already sent still reaches the panel (a link that loses
\* it is Drop).
ReadError(c) ==
    /\ sess = c
    /\ (~live[c] /\ down[c] = <<>>) \/ (live[c] /\ tick[c].pc = "off" /\ ~mute[c])
    /\ sess' = NoConn
    /\ live' = [live EXCEPT ![c] = FALSE]
    /\ down' = [down EXCEPT ![c] = <<>>]
    /\ UNCHANGED <<overlaps, mute, produced, xray, buf, disk, tick, up, panelVars, dbVars, faults>>

\* The process exits (SIGTERM included: os.Exit) and comes back with the file.
AgentRestart ==
    /\ \/ (\E c \in Conns : tick[c].got # {}) /\ Fault("midcollect")
            /\ buf' = disk /\ UNCHANGED disk
       \/ (\A c \in Conns : tick[c].got = {}) /\ Fault("agent")
            /\ buf' = disk /\ UNCHANGED disk
       \/ Fault("wipe") /\ buf' = EmptyBuffer /\ disk' = EmptyBuffer
    /\ tick' = [c \in Conns |-> TickerOff]
    /\ sess' = NoConn
    /\ live' = [c \in Conns |-> IF c = sess THEN FALSE ELSE live[c]]
    /\ \E n \in 0..UpCap :
          up' = [c \in Conns |-> IF c = sess /\ n < Len(up[c])
                                 THEN Prefix(up[c], n) ELSE up[c]]
    /\ down' = [c \in Conns |-> IF c = sess THEN <<>> ELSE down[c]]
    /\ UNCHANGED <<overlaps, mute, produced, xray, panelVars, dbVars>>

-----------------------------------------------------------------------------
(* Network *)

\* The link breaks: each direction still delivers some prefix.
Drop(c) ==
    /\ live[c]
    /\ Fault("drop")
    /\ live' = [live EXCEPT ![c] = FALSE]
    /\ \E n \in 0..Len(up[c]) : up' = [up EXCEPT ![c] = Prefix(@, n)]
    /\ \E n \in 0..Len(down[c]) : down' = [down EXCEPT ![c] = Prefix(@, n)]
    /\ UNCHANGED <<overlaps, mute, produced, agentVars, panelVars, dbVars>>

-----------------------------------------------------------------------------
(* Panel: handleWS, readLoop and ingestTraffic *)

\* handleWS reads the register frame; register() closes the connection it
\* replaces, which keeps only the frames already buffered in its reader.
Register(c) ==
    /\ reader[c].pc = "reg"
    /\ Goto(c, "idle", {})
    /\ registered' = c
    /\ LET o == registered IN
       IF o \in Conns
       THEN /\ live' = [live EXCEPT ![o] = FALSE]
            /\ \E n \in 0..Len(up[o]) : up' = [up EXCEPT ![o] = Prefix(@, n)]
            /\ \E n \in 0..Len(down[o]) : down' = [down EXCEPT ![o] = Prefix(@, n)]
       ELSE UNCHANGED netVars
    /\ UNCHANGED <<overlaps, mute, produced, agentVars, dbVars, faults>>

\* Mutant of ReadFrame: traffic_seq is stored before the batch is applied.
ReadFrameSeqFirst(c) ==
    /\ reader[c].pc = "idle"
    /\ up[c] # <<>>
    /\ LET f == Head(up[c]) IN
       /\ reader' = [reader EXCEPT ![c] =
                       IF f.seq = last THEN [pc |-> "ack", seq |-> f.seq, todo |-> {}]
                       ELSE [pc |-> "users", seq |-> f.seq, todo |-> f.items]]
       /\ last' = f.seq
    /\ up' = [up EXCEPT ![c] = Tail(@)]
    /\ UNCHANGED <<overlaps, mute, produced, agentVars, live, down, registered, counted,
                   ignored, assigned, faults>>

\* readLoop takes a frame; ingestTraffic reads traffic_seq and skips a repeat.
ReadFrame(c) ==
    /\ reader[c].pc = "idle"
    /\ up[c] # <<>>
    /\ LET f == Head(up[c])
           Take(pc, todo) == reader' = [reader EXCEPT ![c] =
                                          [pc |-> pc, seq |-> f.seq, todo |-> todo]]
       IN \/ Fault("db") /\ Take("ack", {})
          \/ f.seq = last /\ Take("ack", {}) /\ UNCHANGED faults
          \/ f.seq # last /\ Take("users", f.items) /\ UNCHANGED faults
    /\ up' = [up EXCEPT ![c] = Tail(@)]
    /\ UNCHANGED <<overlaps, mute, produced, agentVars, live, down, registered, dbVars>>

\* UsersForNode: items of users not on this node are ignored.
GetUsers(c) ==
    /\ reader[c].pc = "users"
    /\ LET rest == {ch \in reader[c].todo : Owner[ch] \notin assigned} IN
       \/ /\ Goto(c, "apply", reader[c].todo \ rest)
          /\ ignored' = ignored \cup rest
          /\ UNCHANGED faults
       \/ /\ Fault("db")
          /\ Goto(c, "ack", {})
          /\ UNCHANGED ignored
    /\ UNCHANGED <<overlaps, mute, produced, agentVars, netVars, registered, last, counted, assigned>>

\* AddTraffic for one item; an error is logged and the loop goes on.
AddTraffic(c, u) ==
    LET item == ItemOf(u, reader[c].todo) IN
    /\ reader[c].pc = "apply"
    /\ item # {}
    /\ \/ /\ counted' = [ch \in Chunks |->
                           IF ch \in item THEN counted[ch] + 1 ELSE counted[ch]]
          /\ UNCHANGED faults
       \/ Fault("db") /\ UNCHANGED counted
    /\ Goto(c, "apply", reader[c].todo \ item)
    /\ UNCHANGED <<overlaps, mute, produced, agentVars, netVars, registered, last, ignored, assigned>>

\* Mutant of SetSeq: the seq is not stored.
SetSeqForgotten(c) ==
    /\ reader[c].pc = "apply"
    /\ reader[c].todo = {}
    /\ Goto(c, "ack", {})
    /\ UNCHANGED <<overlaps, mute, produced, agentVars, netVars, registered, dbVars, faults>>

\* The loop is over: SetNodeTrafficSeq, whose error is only logged.
SetSeq(c) ==
    /\ reader[c].pc = "apply"
    /\ reader[c].todo = {}
    /\ \/ last' = reader[c].seq /\ UNCHANGED faults
       \/ Fault("db") /\ UNCHANGED last
    /\ Goto(c, "ack", {})
    /\ UNCHANGED <<overlaps, mute, produced, agentVars, netVars, registered, counted, ignored, assigned>>

\* A write of an ack, or of a ping, misses its deadline: writeLoop returns and
\* nothing else.  The connection stays registered and its readLoop reads on; acks
\* are queued for nobody, those not yet on the wire included.
WriterStop(c) ==
    /\ reader[c].pc \notin {"none", "reg"} /\ ~mute[c]
    /\ live[c]
    /\ Fault("stall")
    /\ mute' = [mute EXCEPT ![c] = TRUE]
    /\ \E n \in 0..Len(down[c]) : down' = [down EXCEPT ![c] = Prefix(@, n)]
    /\ UNCHANGED <<overlaps, produced, agentVars, live, up, panelVars, dbVars>>

\* readLoop acks whatever ingestTraffic did; a full or closed queue drops it, and
\* one that no writeLoop drains keeps it.
SendAck(c) ==
    /\ reader[c].pc = "ack"
    /\ down' = IF live[c] /\ ~mute[c] /\ Len(down[c]) < DownCap
               THEN [down EXCEPT ![c] = Append(@, reader[c].seq)]
               ELSE down
    /\ reader' = [reader EXCEPT ![c] = [pc |-> "idle", seq |-> 0, todo |-> {}]]
    /\ UNCHANGED <<overlaps, mute, produced, agentVars, live, up, registered, dbVars, faults>>

\* ReadJSON fails (or the register frame never comes): unregister and close.
Disconnect(c) ==
    /\ reader[c].pc = "reg" \/ (reader[c].pc = "idle" /\ up[c] = <<>>)
    /\ ~live[c]
    /\ reader' = [reader EXCEPT ![c] = NoReader]
    /\ registered' = IF registered = c THEN NoConn ELSE registered
    /\ up' = [up EXCEPT ![c] = <<>>]
    /\ mute' = [mute EXCEPT ![c] = FALSE]
    /\ UNCHANGED <<overlaps, produced, agentVars, live, down, dbVars, faults>>

\* The panel process stops and starts: handlers and sockets go, the database
\* stays; acks already on the wire may still arrive.
PanelRestart ==
    /\ Fault("panel")
    /\ reader' = [c \in Conns |-> NoReader]
    /\ registered' = NoConn
    /\ live' = [c \in Conns |-> FALSE]
    /\ up' = [c \in Conns |-> <<>>]
    /\ \E n \in 0..DownCap :
          down' = [c \in Conns |-> IF n < Len(down[c]) THEN Prefix(down[c], n)
                                                       ELSE down[c]]
    /\ mute' = [c \in Conns |-> FALSE]
    /\ UNCHANGED <<overlaps, produced, agentVars, dbVars>>

\* An administrator assigns or unassigns a user.
Reassign(u) ==
    /\ Fault("reassign")
    /\ assigned' = IF u \in assigned THEN assigned \ {u} ELSE assigned \cup {u}
    /\ UNCHANGED <<overlaps, mute, produced, agentVars, netVars, panelVars, last, counted, ignored>>

-----------------------------------------------------------------------------
AgentStep(c) ==
    \/ Dial(c) \/ ReadCounters(c) \/ Collect(c) \/ SendBatch(c)
    \/ WriteTimeout(c) \/ TickerStop(c) \/ ReadAck(c) \/ ReadError(c)

PanelStep(c) ==
    \/ Register(c) \/ ReadFrame(c) \/ GetUsers(c)
    \/ \E u \in Users : AddTraffic(c, u)
    \/ SetSeq(c) \/ SendAck(c) \/ Disconnect(c)

Next ==
    \/ \E ch \in Chunks : Produce(ch)
    \/ LoseCounters
    \/ \E c \in Conns : AgentStep(c) \/ PanelStep(c) \/ Drop(c) \/ WriterStop(c)
    \/ AgentRestart
    \/ PanelRestart
    \/ \E u \in Users : Reassign(u)

Spec == Init /\ [][Next]_vars

\* Goroutines run, the ticker keeps ticking, RunManaged redials forever, a broken
\* link surfaces as a read error.  The ticker picks stop among ready cases at
\* random, so it is only promised after infinitely many chances.
Fairness ==
    /\ WF_vars(\E c \in Conns : Dial(c))
    /\ \A c \in Conns :
          /\ WF_vars(ReadCounters(c)) /\ WF_vars(Collect(c))
          /\ WF_vars(SendBatch(c)) /\ SF_vars(TickerStop(c))
          /\ WF_vars(ReadAck(c)) /\ WF_vars(ReadError(c))
          /\ WF_vars(PanelStep(c))

FairSpec == Spec /\ Fairness

-----------------------------------------------------------------------------
(* Properties *)

\* The faults that may lose traffic for good.
LossFaults == {"midcollect", "wipe", "save", "counters", "db"}

NoLossFault == \A k \in LossFaults : faults[k] = 0

Lost == produced \ (Held \cup Settled)

\* Conservation across dropped, overlapping and half-dead sessions, lost acks
\* and restarts of either process: as long as none of the LossFaults happened,
\* every chunk ever produced is still in Xray, in the agent's hands or buffer,
\* or settled in the panel's database.  (pending.go clears a batch only on the
\* ack of its seq; hub.go acks only after ingestTraffic.)
NoLoss == NoLossFault => Lost = {}

\* A batch that ingestTraffic skips as a repeat (seq = traffic_seq) really was
\* applied: a seq names one batch across agent restarts and sessions.
DuplicateIsSettled ==
    NoLossFault =>
        \A c \in Conns :
            reader[c].pc = "idle" /\ up[c] # <<>> /\ Head(up[c]).seq = last
                => Head(up[c]).items \subseteq Settled

\* No chunk is added to data_used twice, as long as no loss fault happened, the
\* panel was not restarted and no session was dialled while an older handler
\* still had frames to apply: deduplication by the last seq alone is enough for
\* resends within a session, lost acks and agent restarts.
AtMostOnce ==
    (NoLossFault /\ faults["panel"] = 0 /\ overlaps = 0)
        => \A ch \in Chunks : counted[ch] <= 1

\* Whatever sessions break and processes restart, traffic that was produced is
\* settled in the end: batches are resent until acked, the agent redials, lost
\* acks are repeated, and no handler waits for ever.  A working connection whose
\* writeLoop is gone holds up what comes after the batch in flight, since neither
\* side sets a deadline for reading, until it breaks.
Delivered ==
    <>[](produced \subseteq Settled \/ \E c \in Conns : mute[c] /\ live[c])

\* What TrafficLedger promises, for a node whose traffic is whatever it still
\* holds: at-least-once accounting.
Ledger == INSTANCE TrafficLedger WITH owed <- Held, settled <- Settled

\* The protocol implements the ledger when no loss fault can happen.
ImplementsLedger == Ledger!Spec

-----------------------------------------------------------------------------
(* The inductive invariant behind NoLoss and DuplicateIsSettled *)

Elems(s) == {s[i] : i \in 1..Len(s)}

\* Seq s may be acked: it is not the batch in flight, or that batch is settled.
Ackable(s) ==
    /\ s <= buf.seq
    /\ s = buf.seq /\ buf.flightAt => buf.flight \subseteq Settled

\* A frame repeats the batch in flight or carries settled traffic.
FrameOK(f) ==
    /\ f.seq <= buf.seq
    /\ IF f.seq = buf.seq /\ buf.flightAt THEN f.items = buf.flight
                                          ELSE f.items \subseteq Settled

\* A handler on the batch in flight has settled what it no longer has to do.
ReaderOK(r) ==
    /\ r.seq <= buf.seq
    /\ r.seq = buf.seq /\ buf.flightAt =>
          /\ r.pc = "users" => r.todo = buf.flight
          /\ r.pc = "apply" => buf.flight \subseteq Settled \cup r.todo
          /\ r.pc = "ack" => buf.flight \subseteq Settled

BufferInv == disk = buf /\ (~buf.flightAt => buf.flight = {})
SeqInv    == Ackable(last)
FrameInv  == \A c \in Conns : \A f \in Elems(up[c]) : FrameOK(f)
AckInv    == \A c \in Conns : \A a \in Elems(down[c]) : Ackable(a)
ReaderInv == \A c \in Conns : ReaderOK(reader[c])
Conserved == produced \subseteq Held \cup Settled

IInv == NoLossFault => /\ BufferInv /\ SeqInv /\ FrameInv
                       /\ AckInv /\ ReaderInv /\ Conserved

-----------------------------------------------------------------------------
(* What the documentation says of any run *)

\* docs/users.md: "a dropped connection or a restart on either side does not
\* lose or double-count a window", second half.
NoDoubleCount == \A ch \in Chunks : counted[ch] <= 1
=============================================================================
