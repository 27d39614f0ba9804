--------------------------- MODULE TrafficProofs ---------------------------
(* Theorems about Traffic, for every value of its constants: types, no loss, the ledger *)
(* refinement, at most once.                                                          *)
EXTENDS Traffic, SequenceTheorems, TLAPS

-----------------------------------------------------------------------------
(* Channels *)

\* A prefix of a channel's content carries nothing new.
LEMMA PrefixFacts ==
    ASSUME NEW S, NEW s \in Seq(S), NEW n \in 0..Len(s)
    PROVE  Prefix(s, n) \in Seq(S) /\ Elems(Prefix(s, n)) \subseteq Elems(s)
<1>1. \A i \in 1..n : s[i] \in S
    BY LenProperties
<1>2. /\ SubSeq(s, 1, n) \in Seq(S)
      /\ Len(SubSeq(s, 1, n)) = IF 1 <= n THEN n - 1 + 1 ELSE 0
      /\ \A i \in 1..(n - 1 + 1) : SubSeq(s, 1, n)[i] = s[1 + i - 1]
    BY <1>1, SubSeqProperties
<1> QED
    BY <1>2 DEF Prefix, Elems

\* Reading the head of a channel leaves nothing new in it.
LEMMA TailFacts ==
    ASSUME NEW S, NEW s \in Seq(S), s # <<>>
    PROVE  /\ Head(s) \in S /\ Head(s) \in Elems(s)
           /\ Tail(s) \in Seq(S) /\ Elems(Tail(s)) \subseteq Elems(s)
<1>1. /\ Head(s) \in S
      /\ Tail(s) \in Seq(S)
      /\ Len(Tail(s)) = Len(s) - 1
      /\ \A i \in 1..Len(Tail(s)) : Tail(s)[i] = s[i + 1]
    BY HeadTailProperties
<1>2. Len(s) \in Nat /\ Len(s) # 0 /\ Head(s) = s[1]
    BY EmptySeq, LenProperties
<1> QED
    BY <1>1, <1>2 DEF Elems

\* Sending adds one message to a channel.
LEMMA AppendFacts ==
    ASSUME NEW S, NEW s \in Seq(S), NEW e \in S
    PROVE  Append(s, e) \in Seq(S) /\ Elems(Append(s, e)) = Elems(s) \cup {e}
<1>1. /\ Append(s, e) \in Seq(S)
      /\ Len(Append(s, e)) = Len(s) + 1
      /\ \A i \in 1..Len(s) : Append(s, e)[i] = s[i]
      /\ Append(s, e)[Len(s) + 1] = e
    BY AppendProperties
<1>2. Len(s) \in Nat
    BY LenProperties
<1> QED
    BY <1>1, <1>2 DEF Elems

\* The frames of a fresh connection.
LEMMA FlushFacts ==
    ASSUME NEW b \in Buffer
    PROVE  /\ Flush(b) \in Seq(Frame)
           /\ Elems(Flush(b)) \subseteq {BatchFrame(b)}
           /\ Elems(<<>>) = {}
<1>1. BatchFrame(b) \in Frame
    BY DEF BatchFrame, Buffer, Frame
<1> QED
    BY <1>1 DEF Flush, Elems

-----------------------------------------------------------------------------
(* Type correctness *)

\* The pure operations of pending.go keep the buffer well formed.
LEMMA BufferOps ==
    ASSUME NEW b \in Buffer
    PROVE  /\ Batched(b) \in Buffer
           /\ \A S \in SUBSET Chunks : Collected(b, S) \in Buffer
           /\ \A s : Acked(b, s) \in Buffer
<1>1. Batched(b) \in Buffer
    BY DEF Batched, Buffer
<1>2. \A S \in SUBSET Chunks : Collected(b, S) \in Buffer
    BY DEF Collected, Buffer
<1>3. \A s : Acked(b, s) \in Buffer
    BY DEF Acked, Buffer
<1> QED
    BY <1>1, <1>2, <1>3

\* A fault leaves the fault counters well formed.
LEMMA FaultType ==
    ASSUME NEW k \in FaultKinds, faults \in [FaultKinds -> Nat], Fault(k)
    PROVE  faults' \in [FaultKinds -> Nat]
BY DEF Fault

\* Updating and saving the buffer keeps it and its file well formed.
LEMMA SetBufType ==
    ASSUME NEW b \in Buffer, TypeOK, SetBuf(b)
    PROVE  buf' \in Buffer /\ disk' \in Buffer /\ faults' \in [FaultKinds -> Nat]
<1>1. "save" \in FaultKinds
    BY DEF FaultKinds
<1> QED
    BY <1>1, FaultType DEF SetBuf, TypeOK

\* The initial state is well typed.
LEMMA InitType == Init => TypeOK
BY ConstAssumption, EmptySeq
   DEF Init, TypeOK, EmptyBuffer, Buffer, TickerOff, Ticker, NoReader, Reader

\* Every step of the agent keeps the state well typed.
LEMMA AgentType ==
    ASSUME TypeOK, NEW c \in Conns, AgentStep(c)
    PROVE  TypeOK'
<1> USE DEF agentVars, netVars, panelVars, dbVars
<1>0. /\ TickerIdle \in Ticker /\ TickerOff \in Ticker
      /\ [pc |-> "reg", seq |-> 0, todo |-> {}] \in Reader
    BY DEF TickerIdle, TickerOff, Ticker, Reader
<1>1. CASE Dial(c)
    <2>1. Batched(buf) \in Buffer
        BY BufferOps DEF TypeOK
    <2>2. buf' \in Buffer /\ disk' \in Buffer /\ faults' \in [FaultKinds -> Nat]
        BY <1>1, <2>1, SetBufType DEF Dial
    <2>3. up' \in [Conns -> Seq(Frame)]
        BY <1>1, <2>1, FlushFacts DEF Dial, TypeOK
    <2>4. down' \in [Conns -> Seq(Nat)]
        BY <1>1, EmptySeq DEF Dial, TypeOK
    <2>5. overlaps' \in Nat
        BY <1>1, BudgetAssumption DEF Dial, TypeOK
    <2> QED
        BY <1>0, <1>1, <2>2, <2>3, <2>4, <2>5 DEF Dial, TypeOK
<1>2. CASE ReadCounters(c)
    BY <1>2 DEF ReadCounters, TypeOK, Ticker
<1>3. CASE Collect(c)
    <2>1. Collected(buf, tick[c].got) \in Buffer
        BY BufferOps DEF TypeOK, Ticker
    <2>2. buf' \in Buffer /\ disk' \in Buffer /\ faults' \in [FaultKinds -> Nat]
        BY <1>3, <2>1, SetBufType DEF Collect
    <2> QED
        BY <1>3, <2>2 DEF Collect, TypeOK, Ticker
<1>4. CASE SendBatch(c)
    <2>1. Batched(buf) \in Buffer
        BY BufferOps DEF TypeOK
    <2>2. buf' \in Buffer /\ disk' \in Buffer /\ faults' \in [FaultKinds -> Nat]
        BY <1>4, <2>1, SetBufType DEF SendBatch, TypeOK
    <2>3. BatchFrame(buf') \in Frame
        BY <2>2 DEF BatchFrame, Buffer, Frame
    <2>4. Append(up[c], BatchFrame(buf')) \in Seq(Frame)
        BY <2>3, AppendFacts DEF TypeOK
    <2>5. up' \in [Conns -> Seq(Frame)]
        BY <1>4, <2>4 DEF SendBatch, TypeOK
    <2>6. tick' \in [Conns -> Ticker]
        BY <1>0, <1>4 DEF SendBatch, TypeOK
    <2> QED
        BY <1>4, <2>2, <2>5, <2>6 DEF SendBatch, TypeOK
<1>5. CASE WriteTimeout(c)
    <2>1. "timeout" \in FaultKinds
        BY DEF FaultKinds
    <2> QED
        BY <1>0, <1>5, <2>1, FaultType DEF WriteTimeout, TypeOK
<1>6. CASE TickerStop(c)
    BY <1>0, <1>6 DEF TickerStop, TypeOK
<1>7. CASE ReadAck(c)
    <2>1. Acked(buf, Head(down[c])) \in Buffer
        BY BufferOps DEF TypeOK
    <2>2. buf' \in Buffer /\ disk' \in Buffer /\ faults' \in [FaultKinds -> Nat]
        BY <1>7, <2>1, SetBufType DEF ReadAck
    <2>3. Tail(down[c]) \in Seq(Nat)
        BY <1>7, TailFacts DEF ReadAck, TypeOK
    <2> QED
        BY <1>7, <2>2, <2>3 DEF ReadAck, TypeOK
<1>8. CASE ReadError(c)
    BY <1>8, EmptySeq DEF ReadError, TypeOK
<1> QED
    BY <1>1, <1>2, <1>3, <1>4, <1>5, <1>6, <1>7, <1>8 DEF AgentStep

\* A handler's record is well formed, and so is the handler map it goes into.
LEMMA ReaderUpdate ==
    ASSUME NEW c, NEW s \in Nat, NEW t \in SUBSET Chunks, NEW pc,
           pc \in {"none", "reg", "idle", "users", "apply", "ack"},
           reader \in [Conns -> Reader],
           reader' = [reader EXCEPT ![c] = [pc |-> pc, seq |-> s, todo |-> t]]
    PROVE  reader' \in [Conns -> Reader]
BY DEF Reader

\* Every prefix of what a link carries is well typed.
LEMMA PrefixTypes ==
    ASSUME TypeOK, NEW c \in Conns
    PROVE  /\ \A n \in 0..Len(up[c]) : Prefix(up[c], n) \in Seq(Frame)
           /\ \A n \in 0..Len(down[c]) : Prefix(down[c], n) \in Seq(Nat)
BY PrefixFacts DEF TypeOK

\* Every step of a panel handler keeps the state well typed.
LEMMA PanelType ==
    ASSUME TypeOK, NEW c \in Conns, PanelStep(c)
    PROVE  TypeOK'
<1> USE DEF agentVars, netVars, panelVars, dbVars, Goto
<1>0. "db" \in FaultKinds
    BY DEF FaultKinds
<1>r. /\ reader \in [Conns -> Reader]
      /\ reader[c].seq \in Nat /\ reader[c].todo \in SUBSET Chunks
    BY DEF TypeOK, Reader
<1>1. CASE Register(c)
    <2>1. reader' \in [Conns -> Reader]
        BY <1>1, <1>r, ReaderUpdate DEF Register
    <2>2. live' \in [Conns -> BOOLEAN]
        BY <1>1 DEF Register, TypeOK
    <2>3. up' \in [Conns -> Seq(Frame)] /\ down' \in [Conns -> Seq(Nat)]
        <3>1. CASE registered \in Conns
            <4>1. PICK m \in 0..Len(up[registered]) :
                      up' = [up EXCEPT ![registered] = Prefix(up[registered], m)]
                BY <1>1, <3>1 DEF Register
            <4>2. PICK n \in 0..Len(down[registered]) :
                      down' = [down EXCEPT ![registered] = Prefix(down[registered], n)]
                BY <1>1, <3>1 DEF Register
            <4>3. /\ Prefix(up[registered], m) \in Seq(Frame)
                  /\ Prefix(down[registered], n) \in Seq(Nat)
                BY <3>1, <4>1, <4>2, PrefixTypes
            <4> QED
                BY <4>1, <4>2, <4>3 DEF TypeOK
        <3>2. CASE registered \notin Conns
            BY <1>1, <3>2 DEF Register, TypeOK
        <3> QED
            BY <3>1, <3>2
    <2> QED
        BY <1>1, <2>1, <2>2, <2>3 DEF Register, TypeOK
<1>2. CASE ReadFrame(c)
    <2>1. Head(up[c]) \in Frame /\ Tail(up[c]) \in Seq(Frame)
        BY <1>2, TailFacts DEF ReadFrame, TypeOK
    <2>2. reader' \in [Conns -> Reader]
        BY <1>2, <1>r, <2>1, ReaderUpdate DEF ReadFrame, Frame
    <2>3. faults' \in [FaultKinds -> Nat]
        BY <1>0, <1>2, FaultType DEF ReadFrame, TypeOK
    <2> QED
        BY <1>2, <2>1, <2>2, <2>3 DEF ReadFrame, TypeOK
<1>3. CASE GetUsers(c)
    <2>0. ignored' \in SUBSET Chunks
        BY <1>3, <1>r DEF GetUsers, TypeOK
    <2>1. reader' \in [Conns -> Reader]
        <3> DEFINE rest == {ch \in reader[c].todo : Owner[ch] \notin assigned}
        <3>1. Goto(c, "apply", reader[c].todo \ rest) \/ Goto(c, "ack", {})
            BY <1>3 DEF GetUsers
        <3>2. reader[c].todo \ rest \in SUBSET Chunks
            BY <1>r
        <3> HIDE DEF rest
        <3> QED
            BY <1>r, <3>1, <3>2, ReaderUpdate
    <2>2. faults' \in [FaultKinds -> Nat]
        BY <1>0, <1>3, FaultType DEF GetUsers, TypeOK
    <2> QED
        BY <1>3, <2>0, <2>1, <2>2 DEF GetUsers, TypeOK
<1>4. ASSUME NEW u \in Users, AddTraffic(c, u)
      PROVE  TypeOK'
    <2>0. counted' \in [Chunks -> Nat]
        <3>1. counted \in [Chunks -> Nat]
            BY DEF TypeOK
        <3>2. \/ counted' = counted
              \/ counted' = [ch \in Chunks |-> IF ch \in ItemOf(u, reader[c].todo)
                                             THEN counted[ch] + 1 ELSE counted[ch]]
            BY <1>4 DEF AddTraffic
        <3> QED
            BY <3>1, <3>2
    <2>1. reader' \in [Conns -> Reader]
        BY <1>4, <1>r, ReaderUpdate DEF AddTraffic
    <2>2. faults' \in [FaultKinds -> Nat]
        BY <1>0, <1>4, FaultType DEF AddTraffic, TypeOK
    <2> QED
        BY <1>4, <2>0, <2>1, <2>2 DEF AddTraffic, TypeOK
<1>5. CASE SetSeq(c)
    <2>1. reader' \in [Conns -> Reader] /\ last' \in Nat
        BY <1>5, <1>r, ReaderUpdate DEF SetSeq, TypeOK
    <2>2. faults' \in [FaultKinds -> Nat]
        BY <1>0, <1>5, FaultType DEF SetSeq, TypeOK
    <2> QED
        BY <1>5, <2>1, <2>2 DEF SetSeq, TypeOK
<1>6. CASE SendAck(c)
    <2>1. reader' \in [Conns -> Reader] /\ reader[c].seq \in Nat
        BY <1>6 DEF SendAck, TypeOK, Reader, NoReader
    <2>2. down' \in [Conns -> Seq(Nat)]
        BY <1>6, <2>1, AppendFacts DEF SendAck, TypeOK
    <2> QED
        BY <1>6, <2>1, <2>2 DEF SendAck, TypeOK
<1>7. CASE Disconnect(c)
    <2>1. reader' \in [Conns -> Reader] /\ up' \in [Conns -> Seq(Frame)]
        BY <1>7, EmptySeq DEF Disconnect, TypeOK, Reader, NoReader
    <2> QED
        BY <1>7, <2>1 DEF Disconnect, TypeOK
<1> QED
    BY <1>1, <1>2, <1>3, <1>4, <1>5, <1>6, <1>7 DEF PanelStep

\* So do traffic, restarts, link failures and reassignments.
LEMMA WorldType ==
    ASSUME TypeOK,
           \/ \E ch \in Chunks : Produce(ch)
           \/ LoseCounters
           \/ \E c \in Conns : Drop(c) \/ WriterStop(c)
           \/ AgentRestart
           \/ PanelRestart
           \/ \E u \in Users : Reassign(u)
    PROVE  TypeOK'
<1> USE DEF agentVars, netVars, panelVars, dbVars
<1>0. {"counters", "drop", "stall", "midcollect", "agent", "wipe", "panel", "reassign"}
          \subseteq FaultKinds
    BY DEF FaultKinds
<1>1. ASSUME NEW ch \in Chunks, Produce(ch) PROVE TypeOK'
    BY <1>1 DEF Produce, TypeOK
<1>2. CASE LoseCounters
    BY <1>0, <1>2, FaultType DEF LoseCounters, TypeOK
<1>3. ASSUME NEW c \in Conns, Drop(c) PROVE TypeOK'
    <2>1. up' \in [Conns -> Seq(Frame)] /\ down' \in [Conns -> Seq(Nat)]
        BY <1>3, PrefixFacts DEF Drop, TypeOK
    <2>2. faults' \in [FaultKinds -> Nat]
        BY <1>0, <1>3, FaultType DEF Drop, TypeOK
    <2> QED
        BY <1>3, <2>1, <2>2 DEF Drop, TypeOK
<1>w. ASSUME NEW c \in Conns, WriterStop(c) PROVE TypeOK'
    <2>1. down' \in [Conns -> Seq(Nat)]
        BY <1>w, PrefixFacts DEF WriterStop, TypeOK
    <2>2. faults' \in [FaultKinds -> Nat]
        BY <1>0, <1>w, FaultType DEF WriterStop, TypeOK
    <2> QED
        BY <1>w, <2>1, <2>2 DEF WriterStop, TypeOK
<1>4. CASE AgentRestart
    <2>0. EmptyBuffer \in Buffer
        BY DEF EmptyBuffer, Buffer
    <2>1. buf' \in Buffer /\ disk' \in Buffer
        BY <1>4, <2>0 DEF AgentRestart, TypeOK
    <2>2. faults' \in [FaultKinds -> Nat]
        BY <1>0, <1>4, FaultType DEF AgentRestart, TypeOK
    <2>3. tick' \in [Conns -> Ticker]
        BY <1>4 DEF AgentRestart, TickerOff, Ticker
    <2>4. up' \in [Conns -> Seq(Frame)]
        <3>1. PICK n \in 0..UpCap :
                  up' = [d \in Conns |-> IF d = sess /\ n < Len(up[d])
                                         THEN Prefix(up[d], n) ELSE up[d]]
            BY <1>4 DEF AgentRestart
        <3>2. ASSUME NEW d \in Conns, n < Len(up[d])
              PROVE  Prefix(up[d], n) \in Seq(Frame)
            <4>1. up[d] \in Seq(Frame) /\ n \in 0..Len(up[d])
                BY <3>2, LenProperties DEF TypeOK
            <4> QED
                BY <4>1, PrefixFacts
        <3> QED
            BY <3>1, <3>2 DEF TypeOK
    <2>5. down' \in [Conns -> Seq(Nat)]
        BY <1>4, EmptySeq DEF AgentRestart, TypeOK
    <2> QED
        BY <1>4, <2>1, <2>2, <2>3, <2>4, <2>5 DEF AgentRestart, TypeOK
<1>5. CASE PanelRestart
    <2>1. faults' \in [FaultKinds -> Nat]
        BY <1>0, <1>5, FaultType DEF PanelRestart, TypeOK
    <2>2. reader' \in [Conns -> Reader] /\ up' \in [Conns -> Seq(Frame)]
        BY <1>5, EmptySeq DEF PanelRestart, NoReader, Reader
    <2>3. down' \in [Conns -> Seq(Nat)]
        <3>1. PICK n \in 0..DownCap :
                  down' = [d \in Conns |-> IF n < Len(down[d])
                                           THEN Prefix(down[d], n) ELSE down[d]]
            BY <1>5 DEF PanelRestart
        <3>2. ASSUME NEW d \in Conns, n < Len(down[d])
              PROVE  Prefix(down[d], n) \in Seq(Nat)
            <4>1. down[d] \in Seq(Nat) /\ n \in 0..Len(down[d])
                BY <3>2, LenProperties DEF TypeOK
            <4> QED
                BY <4>1, PrefixFacts
        <3> QED
            BY <3>1, <3>2 DEF TypeOK
    <2> QED
        BY <1>5, <2>1, <2>2, <2>3 DEF PanelRestart, TypeOK
<1>6. ASSUME NEW u \in Users, Reassign(u) PROVE TypeOK'
    BY <1>0, <1>6, FaultType DEF Reassign, TypeOK
<1> QED
    BY <1>1, <1>2, <1>3, <1>4, <1>5, <1>6, <1>w

\* Every step keeps the state well typed.
LEMMA NextType ==
    ASSUME TypeOK, [Next]_vars
    PROVE  TypeOK'
<1>1. CASE Next
    BY <1>1, AgentType, PanelType, WorldType DEF Next
<1>2. CASE UNCHANGED vars
    BY <1>2 DEF vars, agentVars, netVars, panelVars, dbVars, TypeOK
<1> QED
    BY <1>1, <1>2

\* Type correctness of the whole accounting protocol: agent, links and panel.
THEOREM TypeCorrect == Spec => []TypeOK
<1>1. TypeOK /\ [Next]_vars => TypeOK'
    BY NextType
<1> QED
    BY <1>1, InitType, PTL DEF Spec

-----------------------------------------------------------------------------
(* No loss: the inductive invariant *)

Parts == BufferInv /\ SeqInv /\ FrameInv /\ AckInv /\ ReaderInv /\ Conserved

\* What a step must do for the messages and handlers it leaves alone.
Carries ==
    /\ \A s \in Nat : Ackable(s) => Ackable(s)'
    /\ \A f \in Frame : FrameOK(f) => FrameOK(f)'
    /\ \A r \in Reader : ReaderOK(r) => ReaderOK(r)'

\* Faults are never forgotten, and a loss fault rules its kind out.
LEMMA FaultFacts ==
    ASSUME TypeOK, NEW k \in FaultKinds, Fault(k)
    PROVE  /\ NoLossFault' => NoLossFault
           /\ k \in LossFaults => ~NoLossFault'
<1>1. faults' = [faults EXCEPT ![k] = faults[k] + 1] /\ faults \in [FaultKinds -> Nat]
    BY DEF Fault, TypeOK
<1>2. LossFaults \subseteq FaultKinds
    BY DEF LossFaults, FaultKinds
<1>3. \A j \in FaultKinds : faults[j] \in Nat /\ faults'[j] >= faults[j]
    BY <1>1
<1>4. faults'[k] # 0
    BY <1>1
<1> QED
    BY <1>2, <1>3, <1>4 DEF NoLossFault

\* Without a save error the buffer and its file move together.
LEMMA SetBufFacts ==
    ASSUME TypeOK, NEW b, SetBuf(b), NoLossFault', NoLossFault => BufferInv
    PROVE  NoLossFault /\ buf' = b /\ disk' = b
<1>1. "save" \in FaultKinds /\ "save" \in LossFaults
    BY DEF FaultKinds, LossFaults
<1>2. CASE b = buf /\ UNCHANGED <<disk, faults>>
    BY <1>2 DEF SetBuf, NoLossFault, BufferInv
<1>3. CASE b # buf /\ disk' = b /\ UNCHANGED faults
    BY <1>3 DEF SetBuf, NoLossFault
<1>4. CASE Fault("save")
    BY <1>1, <1>4, FaultFacts
<1> QED
    BY <1>2, <1>3, <1>4 DEF SetBuf

\* Settling more traffic, with the buffer as it is, carries everything over.
LEMMA CarryQuiet ==
    ASSUME buf' = buf, Settled \subseteq Settled'
    PROVE  Carries
BY DEF Carries, Ackable, FrameOK, ReaderOK

\* What is settled depends on two database columns only.
LEMMA SettledSame ==
    ASSUME UNCHANGED <<counted, ignored>>
    PROVE  Settled' = Settled
BY DEF Settled

\* Merging a delta into pend carries everything over.
LEMMA CarryCollected ==
    ASSUME buf \in Buffer, NEW S \in SUBSET Chunks,
           buf' = Collected(buf, S), Settled' = Settled
    PROVE  /\ Carries
           /\ buf'.pend = buf.pend \cup S
           /\ buf'.flight = buf.flight /\ buf'.flightAt = buf.flightAt
<1>1. /\ buf'.seq = buf.seq /\ buf'.flight = buf.flight
      /\ buf'.flightAt = buf.flightAt /\ buf'.pend = buf.pend \cup S
    BY DEF Collected, Buffer
<1> QED
    BY <1>1 DEF Carries, Ackable, FrameOK, ReaderOK

\* Promoting pend under a new seq carries everything over: what is on the way
\* has an older seq and, nothing being in flight, carries settled traffic.
LEMMA CarryBatched ==
    ASSUME buf \in Buffer, ~buf.flightAt => buf.flight = {},
           buf' = Batched(buf), Settled' = Settled
    PROVE  /\ Carries
           /\ buf'.pend \cup buf'.flight = buf.pend \cup buf.flight
           /\ ~buf'.flightAt => buf'.flight = {}
           /\ buf'.flight # {} => FrameOK(BatchFrame(buf))'
<1>1. CASE ~buf.flightAt /\ buf.pend # {}
    <2>1. /\ buf'.seq = buf.seq + 1 /\ buf'.flight = buf.pend
          /\ buf'.flightAt = TRUE /\ buf'.pend = {}
        BY <1>1 DEF Batched
    <2>2. buf.seq \in Nat
        BY DEF Buffer
    <2>3. \A s \in Nat : Ackable(s) => Ackable(s)'
        BY <2>1, <2>2 DEF Ackable
    <2>4. \A f \in Frame : FrameOK(f) => FrameOK(f)'
        BY <1>1, <2>1, <2>2 DEF FrameOK, Frame
    <2>5. \A r \in Reader : ReaderOK(r) => ReaderOK(r)'
        BY <2>1, <2>2 DEF ReaderOK, Reader
    <2>6. FrameOK(BatchFrame(buf))'
        BY <2>1, <2>2 DEF FrameOK, BatchFrame
    <2> QED
        BY <1>1, <2>1, <2>3, <2>4, <2>5, <2>6 DEF Carries
<1>2. CASE ~(~buf.flightAt /\ buf.pend # {})
    <2>1. buf' = buf
        BY <1>2 DEF Batched
    <2>2. buf.seq \in Nat
        BY DEF Buffer
    <2>3. buf'.flight # {} => FrameOK(BatchFrame(buf))'
        BY <2>1, <2>2 DEF FrameOK, BatchFrame
    <2> QED
        BY <2>1, <2>3, CarryQuiet
<1> QED
    BY <1>1, <1>2

\* Clearing the batch on an ack that may be believed carries everything over.
LEMMA CarryAcked ==
    ASSUME buf \in Buffer, ~buf.flightAt => buf.flight = {},
           NEW a \in Nat, Ackable(a),
           buf' = Acked(buf, a), Settled' = Settled
    PROVE  /\ Carries
           /\ buf'.pend = buf.pend
           /\ buf.flight \subseteq buf'.flight \cup Settled
           /\ ~buf'.flightAt => buf'.flight = {}
<1>1. CASE buf.flightAt /\ a = buf.seq
    <2>1. /\ buf'.seq = buf.seq /\ buf'.flight = {}
          /\ buf'.flightAt = FALSE /\ buf'.pend = buf.pend
        BY <1>1 DEF Acked, Buffer
    <2>2. buf.flight \subseteq Settled
        BY <1>1 DEF Ackable
    <2> QED
        BY <1>1, <2>1, <2>2 DEF Carries, Ackable, FrameOK, ReaderOK
<1>2. CASE ~(buf.flightAt /\ a = buf.seq)
    <2>1. buf' = buf
        BY <1>2 DEF Acked
    <2> QED
        BY <2>1, CarryQuiet
<1> QED
    BY <1>1, <1>2

\* What the node holds, element by element, before and after a step.
LEMMA HeldElements ==
    /\ \A x : x \in Held <=> \/ x \in xray \/ x \in buf.pend \/ x \in buf.flight
                             \/ \E c \in Conns : x \in tick[c].got
    /\ \A x : x \in Held' <=> \/ x \in xray' \/ x \in buf'.pend \/ x \in buf'.flight
                              \/ \E c \in Conns : x \in tick'[c].got
BY DEF Held

\* The invariant on links follows once every message is old or in order.
LEMMA LinksCarry ==
    ASSUME TypeOK, FrameInv, AckInv, Carries,
           \A c \in Conns : \A f \in Elems(up'[c]) : f \in Elems(up[c]) \/ FrameOK(f)',
           \A c \in Conns : \A a \in Elems(down'[c]) :
               a \in Elems(down[c]) \/ Ackable(a)'
    PROVE  FrameInv' /\ AckInv'
<1>1. \A c \in Conns : Elems(up[c]) \subseteq Frame /\ Elems(down[c]) \subseteq Nat
    BY LenProperties, ElementOfSeq DEF Elems, TypeOK
<1>2. FrameInv'
    BY <1>1 DEF FrameInv, Carries
<1>3. AckInv'
    BY <1>1 DEF AckInv, Carries
<1> QED
    BY <1>2, <1>3

\* The invariant on handlers follows once the one that moved is in order.
LEMMA ReadersCarry ==
    ASSUME TypeOK, ReaderInv, Carries,
           \A c \in Conns : reader'[c] = reader[c] \/ ReaderOK(reader[c])'
    PROVE  ReaderInv'
<1>1. \A c \in Conns : reader[c] \in Reader
    BY DEF TypeOK
<1>2. \A c \in Conns : \A r \in Reader : r = reader[c] => ReaderOK(r)'
    BY DEF ReaderInv, Carries
<1>3. ASSUME NEW c \in Conns, reader'[c] = reader[c]
      PROVE  ReaderOK(reader[c])'
    <2>1. PICK r \in Reader : r = reader[c]
        BY <1>1
    <2>2. ReaderOK(r)' /\ reader'[c] = r
        BY <1>2, <1>3, <2>1
    <2> QED
        BY <2>2 DEF ReaderOK
<1> QED
    BY <1>3 DEF ReaderInv

\* The initial state satisfies the invariant.
LEMMA InitParts == Init => IInv
<1> SUFFICES ASSUME Init PROVE Parts
    BY DEF IInv, Parts
<1>1. BufferInv /\ SeqInv /\ ReaderInv
    BY DEF Init, BufferInv, SeqInv, Ackable, ReaderInv, ReaderOK, NoReader, EmptyBuffer
<1>2. FrameInv /\ AckInv
    <2>1. Elems(<<>>) = {}
        BY DEF Elems
    <2> QED
        BY <2>1 DEF Init, FrameInv, AckInv
<1>3. Conserved
    BY DEF Init, Conserved
<1> QED
    BY <1>1, <1>2, <1>3 DEF Parts

\* The invariant on traffic_seq follows if the column did not change.
LEMMA SeqCarry ==
    ASSUME TypeOK, SeqInv, Carries, last' = last
    PROVE  SeqInv'
<1>1. PICK s \in Nat : s = last
    BY DEF TypeOK
<1>2. Ackable(s)' /\ last' = s
    BY <1>1 DEF SeqInv, Carries
<1> QED
    BY <1>2 DEF SeqInv, Ackable

\* Every step of the agent preserves the invariant.
LEMMA AgentParts ==
    ASSUME TypeOK, IInv, NoLossFault', NEW c \in Conns, AgentStep(c)
    PROVE  Parts'
<1> USE DEF agentVars, netVars, panelVars, dbVars
<1>t. buf \in Buffer /\ tick \in [Conns -> Ticker] /\ up \in [Conns -> Seq(Frame)]
      /\ down \in [Conns -> Seq(Nat)]
    BY DEF TypeOK
<1>i. NoLossFault => Parts /\ BufferInv
    BY DEF IInv, Parts
<1>e. Elems(<<>>) = {}
    BY DEF Elems
<1>1. CASE Dial(c)
    <2>1. NoLossFault /\ buf' = Batched(buf) /\ disk' = buf'
        BY <1>1, <1>i, SetBufFacts DEF Dial
    <2>2. Parts
        BY <1>i, <2>1
    <2>3. Settled' = Settled
        BY <1>1, SettledSame DEF Dial
    <2>4. /\ Carries
          /\ buf'.pend \cup buf'.flight = buf.pend \cup buf.flight
          /\ ~buf'.flightAt => buf'.flight = {}
          /\ buf'.flight # {} => FrameOK(BatchFrame(buf))'
        BY <1>t, <2>1, <2>2, <2>3, CarryBatched DEF Parts, BufferInv
    <2>5. \A d \in Conns : \A f \in Elems(up'[d]) : f \in Elems(up[d]) \/ FrameOK(f)'
        <3>1. /\ up'[c] = Flush(Batched(buf))
              /\ \A d \in Conns \ {c} : up'[d] = up[d]
            BY <1>1, <1>t DEF Dial
        <3>2. up'[c] = IF buf'.flight # {} THEN <<BatchFrame(buf')>> ELSE <<>>
            BY <2>1, <3>1 DEF Flush
        <3>3. ASSUME NEW f \in Elems(up'[c])
              PROVE  FrameOK(f)'
            <4>1. buf'.flight # {} /\ f = BatchFrame(buf')
                BY <1>e, <3>2, <3>3 DEF Elems
            <4> QED
                BY <2>4, <4>1
        <3> QED
            BY <3>1, <3>3
    <2>6. \A d \in Conns : \A a \in Elems(down'[d]) : a \in Elems(down[d])
        BY <1>1, <1>t, <1>e DEF Dial
    <2>7. FrameInv' /\ AckInv'
        BY <2>2, <2>4, <2>5, <2>6, LinksCarry DEF Parts
    <2>8. ReaderInv'
        <3>1. \A d \in Conns : reader'[d] = reader[d] \/ ReaderOK(reader[d])'
            <4>1. reader'[c] = [pc |-> "reg", seq |-> 0, todo |-> {}]
                BY <1>1 DEF Dial, TypeOK
            <4>2. buf'.seq \in Nat
                BY <1>t, <2>1, BufferOps DEF Buffer
            <4>3. ReaderOK(reader[c])'
                BY <4>1, <4>2 DEF ReaderOK
            <4>4. \A d \in Conns \ {c} : reader'[d] = reader[d]
                BY <1>1 DEF Dial, TypeOK
            <4> QED
                BY <4>3, <4>4
        <3> QED
            BY <2>2, <2>4, <3>1, ReadersCarry DEF Parts
    <2>9. SeqInv'
        BY <1>1, <2>2, <2>4, SeqCarry DEF Dial, Parts
    <2>10. Conserved'
        <3>1. \A d \in Conns : tick[d].got \subseteq tick'[d].got
            BY <1>1, <1>t DEF Dial, TickerIdle, Ticker
        <3>2. Held \subseteq Held'
            BY <1>1, <2>4, <3>1, HeldElements DEF Dial
        <3> QED
            BY <1>1, <2>2, <2>3, <3>2 DEF Dial, Parts, Conserved
    <2> QED
        BY <2>1, <2>4, <2>7, <2>8, <2>9, <2>10 DEF Parts, BufferInv
<1>2. CASE ReadCounters(c)
    <2>1. NoLossFault /\ Parts
        BY <1>2, <1>i DEF ReadCounters, NoLossFault
    <2>2. Settled' = Settled /\ Carries
        BY <1>2, SettledSame, CarryQuiet DEF ReadCounters
    <2>3. FrameInv' /\ AckInv' /\ ReaderInv' /\ SeqInv'
        BY <1>2, <2>1, <2>2, LinksCarry, ReadersCarry, SeqCarry DEF ReadCounters, Parts
    <2>4. Held \subseteq Held'
        <3>1. tick'[c].got = xray /\ \A d \in Conns \ {c} : tick'[d] = tick[d]
            BY <1>2, <1>t DEF ReadCounters
        <3>2. tick[c].got = {}
            BY <1>2, <1>t DEF ReadCounters, Ticker
        <3> QED
            BY <1>2, <3>1, <3>2, HeldElements DEF ReadCounters
    <2> QED
        BY <1>2, <2>1, <2>2, <2>3, <2>4 DEF ReadCounters, Parts, BufferInv, Conserved
<1>3. CASE Collect(c)
    <2>0. tick[c].got \in SUBSET Chunks
        BY <1>t DEF Ticker
    <2>1. NoLossFault /\ buf' = Collected(buf, tick[c].got) /\ disk' = buf'
        BY <1>3, <1>i, SetBufFacts DEF Collect
    <2>2. Parts
        BY <1>i, <2>1
    <2>3. Settled' = Settled
        BY <1>3, SettledSame DEF Collect
    <2>4. /\ Carries
          /\ buf'.pend = buf.pend \cup tick[c].got
          /\ buf'.flight = buf.flight /\ buf'.flightAt = buf.flightAt
        BY <1>t, <2>0, <2>1, <2>3, CarryCollected
    <2>5. FrameInv' /\ AckInv' /\ ReaderInv' /\ SeqInv'
        BY <1>3, <2>2, <2>4, LinksCarry, ReadersCarry, SeqCarry DEF Collect, Parts
    <2>6. Held \subseteq Held'
        <3>1. \A d \in Conns \ {c} : tick'[d] = tick[d]
            BY <1>3, <1>t DEF Collect
        <3> QED
            BY <1>3, <2>4, <3>1, HeldElements DEF Collect
    <2> QED
        BY <1>3, <2>1, <2>2, <2>3, <2>4, <2>5, <2>6
           DEF Collect, Parts, BufferInv, Conserved
<1>4. CASE SendBatch(c)
    <2>1. NoLossFault /\ buf' = Batched(buf) /\ disk' = buf'
        <3>1. CASE SetBuf(Batched(buf))
            BY <3>1, <1>i, SetBufFacts
        <3>2. CASE UNCHANGED <<buf, disk, faults>> /\ Batched(buf).flight = {}
            <4>1. NoLossFault /\ disk = buf /\ (~buf.flightAt => buf.flight = {})
                BY <3>2, <1>i DEF NoLossFault, BufferInv
            <4>2. Batched(buf) = buf
                BY <3>2 DEF Batched
            <4> QED
                BY <3>2, <4>1, <4>2
        <3> QED
            BY <1>4, <3>1, <3>2 DEF SendBatch
    <2>2. Parts
        BY <1>i, <2>1
    <2>3. Settled' = Settled
        BY <1>4, SettledSame DEF SendBatch
    <2>4. /\ Carries
          /\ buf'.pend \cup buf'.flight = buf.pend \cup buf.flight
          /\ ~buf'.flightAt => buf'.flight = {}
          /\ buf'.flight # {} => FrameOK(BatchFrame(buf))'
        BY <1>t, <2>1, <2>2, <2>3, CarryBatched DEF Parts, BufferInv
    <2>5. \A d \in Conns : \A f \in Elems(up'[d]) : f \in Elems(up[d]) \/ FrameOK(f)'
        <3>1. CASE UNCHANGED up
            BY <3>1
        <3>2. CASE /\ up' = [up EXCEPT ![c] = Append(up[c], BatchFrame(buf'))]
                   /\ buf'.flight # {}
            <4>1. BatchFrame(buf') \in Frame
                BY <1>t, <2>1, BufferOps DEF BatchFrame, Buffer, Frame
            <4>2. Elems(Append(up[c], BatchFrame(buf'))) = Elems(up[c]) \cup {BatchFrame(buf')}
                BY <1>t, <4>1, AppendFacts
            <4>3. up'[c] = Append(up[c], BatchFrame(buf'))
                  /\ \A d \in Conns \ {c} : up'[d] = up[d]
                BY <1>t, <3>2
            <4>4. ASSUME NEW f \in Elems(up'[c])
                  PROVE  f \in Elems(up[c]) \/ FrameOK(f)'
                BY <2>4, <3>2, <4>2, <4>3, <4>4
            <4> QED
                BY <4>3, <4>4
        <3> QED
            BY <1>4, <2>1, <3>1, <3>2 DEF SendBatch
    <2>6. FrameInv' /\ AckInv'
        BY <1>4, <2>2, <2>4, <2>5, LinksCarry DEF SendBatch, Parts
    <2>7. ReaderInv' /\ SeqInv'
        BY <1>4, <2>2, <2>4, ReadersCarry, SeqCarry DEF SendBatch, Parts
    <2>8. Held \subseteq Held'
        <3>1. \A d \in Conns : tick[d].got \subseteq tick'[d].got
            <4>1. tick[c].got = {}
                BY <1>4, <1>t DEF SendBatch, Ticker
            <4>2. \A d \in Conns \ {c} : tick'[d] = tick[d]
                BY <1>4, <1>t DEF SendBatch
            <4> QED
                BY <4>1, <4>2
        <3> QED
            BY <1>4, <2>4, <3>1, HeldElements DEF SendBatch
    <2> QED
        BY <1>4, <2>1, <2>2, <2>3, <2>4, <2>6, <2>7, <2>8
           DEF SendBatch, Parts, BufferInv, Conserved
<1>5. CASE WriteTimeout(c) \/ TickerStop(c)
    <2>1. NoLossFault /\ Parts
        <3>1. "timeout" \in FaultKinds
            BY DEF FaultKinds
        <3> QED
            BY <1>5, <1>i, <3>1, FaultFacts DEF WriteTimeout, TickerStop, NoLossFault
    <2>2. Settled' = Settled /\ Carries
        BY <1>5, SettledSame, CarryQuiet DEF WriteTimeout, TickerStop
    <2>3. FrameInv' /\ AckInv' /\ ReaderInv' /\ SeqInv'
        BY <1>5, <2>1, <2>2, LinksCarry, ReadersCarry, SeqCarry
           DEF WriteTimeout, TickerStop, Parts
    <2>4. Held \subseteq Held'
        <3>1. tick[c].got = {} /\ \A d \in Conns \ {c} : tick'[d] = tick[d]
            BY <1>5, <1>t DEF WriteTimeout, TickerStop, Ticker
        <3> QED
            BY <1>5, <3>1, HeldElements DEF WriteTimeout, TickerStop
    <2> QED
        BY <1>5, <2>1, <2>2, <2>3, <2>4
           DEF WriteTimeout, TickerStop, Parts, BufferInv, Conserved
<1>6. CASE ReadAck(c)
    <2>1. NoLossFault /\ buf' = Acked(buf, Head(down[c])) /\ disk' = buf'
        BY <1>6, <1>i, SetBufFacts DEF ReadAck
    <2>2. Parts
        BY <1>i, <2>1
    <2>3. Settled' = Settled
        BY <1>6, SettledSame DEF ReadAck
    <2>4. /\ Head(down[c]) \in Nat /\ Head(down[c]) \in Elems(down[c])
          /\ Elems(Tail(down[c])) \subseteq Elems(down[c])
        BY <1>6, <1>t, TailFacts DEF ReadAck
    <2>5. Ackable(Head(down[c]))
        BY <2>2, <2>4 DEF Parts, AckInv
    <2>6. /\ Carries
          /\ buf'.pend = buf.pend
          /\ buf.flight \subseteq buf'.flight \cup Settled
          /\ ~buf'.flightAt => buf'.flight = {}
        BY <1>t, <2>1, <2>2, <2>3, <2>4, <2>5, CarryAcked DEF Parts, BufferInv
    <2>7. \A d \in Conns : \A a \in Elems(down'[d]) : a \in Elems(down[d])
        BY <1>6, <1>t, <2>4 DEF ReadAck
    <2>8. FrameInv' /\ AckInv'
        BY <1>6, <2>2, <2>6, <2>7, LinksCarry DEF ReadAck, Parts
    <2>9. ReaderInv' /\ SeqInv'
        BY <1>6, <2>2, <2>6, ReadersCarry, SeqCarry DEF ReadAck, Parts
    <2>10. Held \subseteq Held' \cup Settled
        BY <1>6, <2>6, HeldElements DEF ReadAck
    <2> QED
        BY <1>6, <2>1, <2>2, <2>3, <2>6, <2>8, <2>9, <2>10
           DEF ReadAck, Parts, BufferInv, Conserved
<1>7. CASE ReadError(c)
    <2>1. NoLossFault /\ Parts
        BY <1>7, <1>i DEF ReadError, NoLossFault
    <2>2. Settled' = Settled /\ Carries /\ Held' = Held
        BY <1>7, SettledSame, CarryQuiet DEF ReadError, Held
    <2>3. \A d \in Conns : \A a \in Elems(down'[d]) : a \in Elems(down[d])
        BY <1>7, <1>t, <1>e DEF ReadError
    <2>4. FrameInv' /\ AckInv'
        BY <1>7, <2>1, <2>2, <2>3, LinksCarry DEF ReadError, Parts
    <2>5. ReaderInv' /\ SeqInv'
        BY <1>7, <2>1, <2>2, ReadersCarry, SeqCarry DEF ReadError, Parts
    <2> QED
        BY <1>7, <2>1, <2>2, <2>4, <2>5 DEF ReadError, Parts, BufferInv, Conserved
<1> QED
    BY <1>1, <1>2, <1>3, <1>4, <1>5, <1>6, <1>7 DEF AgentStep

\* Cutting links keeps only messages that were on them.
LEMMA PrefixElems ==
    ASSUME TypeOK, NEW c \in Conns
    PROVE  /\ \A n \in 0..Len(up[c]) : Elems(Prefix(up[c], n)) \subseteq Elems(up[c])
           /\ \A n \in 0..Len(down[c]) :
                 Elems(Prefix(down[c], n)) \subseteq Elems(down[c])
<1>1. up[c] \in Seq(Frame) /\ down[c] \in Seq(Nat)
    BY DEF TypeOK
<1> QED
    BY <1>1, PrefixFacts

\* Every step of a panel handler preserves the invariant.
LEMMA PanelParts ==
    ASSUME TypeOK, IInv, NoLossFault', NEW c \in Conns, PanelStep(c)
    PROVE  Parts'
<1> USE DEF agentVars, netVars, panelVars, dbVars, Goto
<1>t. /\ buf.seq \in Nat /\ reader \in [Conns -> Reader] /\ reader[c] \in Reader
      /\ up \in [Conns -> Seq(Frame)] /\ down \in [Conns -> Seq(Nat)]
      /\ counted \in [Chunks -> Nat]
    BY DEF TypeOK, Buffer
<1>d. "db" \in FaultKinds /\ "db" \in LossFaults
    BY DEF FaultKinds, LossFaults
<1>f. ~Fault("db")
    BY <1>d, FaultFacts
<1>e. Elems(<<>>) = {}
    BY DEF Elems
<1>i. NoLossFault => Parts
    BY DEF IInv, Parts
<1>1. CASE Register(c)
    <2>1. NoLossFault /\ Parts
        BY <1>1, <1>i DEF Register, NoLossFault
    <2>2. Settled' = Settled /\ Carries /\ Held' = Held
        BY <1>1, SettledSame, CarryQuiet DEF Register, Held
    <2>3. \A d \in Conns : Elems(up'[d]) \subseteq Elems(up[d])
                         /\ Elems(down'[d]) \subseteq Elems(down[d])
        <3>1. CASE registered \in Conns
            <4>1. PICK m \in 0..Len(up[registered]) :
                      up' = [up EXCEPT ![registered] = Prefix(up[registered], m)]
                BY <1>1, <3>1 DEF Register
            <4>2. PICK n \in 0..Len(down[registered]) :
                      down' = [down EXCEPT ![registered] = Prefix(down[registered], n)]
                BY <1>1, <3>1 DEF Register
            <4>3. /\ Elems(Prefix(up[registered], m)) \subseteq Elems(up[registered])
                  /\ Elems(Prefix(down[registered], n)) \subseteq Elems(down[registered])
                BY <3>1, <4>1, <4>2, PrefixElems
            <4> QED
                BY <1>t, <4>1, <4>2, <4>3
        <3>2. CASE registered \notin Conns
            BY <1>1, <3>2 DEF Register
        <3> QED
            BY <3>1, <3>2
    <2>4. FrameInv' /\ AckInv'
        BY <2>1, <2>2, <2>3, LinksCarry DEF Parts
    <2>5. ReaderInv'
        <3>1. reader'[c].seq = reader[c].seq /\ reader'[c].pc = "idle"
              /\ \A d \in Conns \ {c} : reader'[d] = reader[d]
            BY <1>1, <1>t DEF Register
        <3>2. buf' = buf /\ ReaderOK(reader[c])
            BY <1>1, <2>1 DEF Register, Parts, ReaderInv
        <3>3. ReaderOK(reader[c])'
            BY <3>1, <3>2 DEF ReaderOK
        <3> QED
            BY <2>1, <2>2, <3>1, <3>3, ReadersCarry DEF Parts
    <2>6. SeqInv'
        BY <1>1, <2>1, <2>2, SeqCarry DEF Register, Parts
    <2> QED
        BY <1>1, <2>1, <2>2, <2>4, <2>5, <2>6 DEF Register, Parts, BufferInv, Conserved
<1>2. CASE ReadFrame(c)
    <2>1. NoLossFault /\ Parts
        BY <1>2, <1>f, <1>i DEF ReadFrame, NoLossFault
    <2>2. Settled' = Settled /\ Carries /\ Held' = Held
        BY <1>2, SettledSame, CarryQuiet DEF ReadFrame, Held
    <2>3. /\ Head(up[c]) \in Frame /\ Head(up[c]) \in Elems(up[c])
          /\ Elems(Tail(up[c])) \subseteq Elems(up[c])
        BY <1>2, <1>t, TailFacts DEF ReadFrame
    <2>4. \A d \in Conns : Elems(up'[d]) \subseteq Elems(up[d])
        BY <1>2, <1>t, <2>3 DEF ReadFrame
    <2>5. FrameInv' /\ AckInv'
        BY <1>2, <2>1, <2>2, <2>4, LinksCarry DEF ReadFrame, Parts
    <2>6. ReaderInv'
        <3> DEFINE f == Head(up[c])
        <3>1. /\ \A d \in Conns \ {c} : reader'[d] = reader[d]
              /\ \/ f.seq = last /\ reader'[c] = [pc |-> "ack", seq |-> f.seq, todo |-> {}]
                 \/ reader'[c] = [pc |-> "users", seq |-> f.seq, todo |-> f.items]
            BY <1>2, <1>t, <1>f DEF ReadFrame
        <3>2. FrameOK(f) /\ Ackable(last)
            BY <2>1, <2>3 DEF Parts, FrameInv, SeqInv
        <3>3. ReaderOK(reader[c])'
            BY <1>2, <2>2, <3>1, <3>2 DEF ReadFrame, ReaderOK, FrameOK, Ackable
        <3> QED
            BY <2>1, <2>2, <3>1, <3>3, ReadersCarry DEF Parts
    <2>7. SeqInv'
        BY <1>2, <2>1, <2>2, SeqCarry DEF ReadFrame, Parts
    <2> QED
        BY <1>2, <2>1, <2>2, <2>5, <2>6, <2>7 DEF ReadFrame, Parts, BufferInv, Conserved
<1>3. CASE GetUsers(c)
    <2> DEFINE rest == {ch \in reader[c].todo : Owner[ch] \notin assigned}
    <2>0. /\ NoLossFault' <=> NoLossFault
          /\ reader' = [reader EXCEPT ![c] = [pc |-> "apply", seq |-> reader[c].seq,
                                              todo |-> reader[c].todo \ rest]]
          /\ ignored' = ignored \cup rest
        BY <1>3, <1>f DEF GetUsers, NoLossFault
    <2> HIDE DEF rest
    <2>1. NoLossFault /\ Parts
        BY <1>i, <2>0
    <2>2. Settled' = Settled \cup rest
        BY <1>3, <2>0 DEF GetUsers, Settled
    <2>3. Carries /\ Held' = Held
        BY <1>3, <2>2, CarryQuiet DEF GetUsers, Held
    <2>4. FrameInv' /\ AckInv' /\ SeqInv'
        BY <1>3, <2>1, <2>3, LinksCarry, SeqCarry DEF GetUsers, Parts
    <2>5. ReaderInv'
        <3>1. /\ reader'[c] = [pc |-> "apply", seq |-> reader[c].seq,
                               todo |-> reader[c].todo \ rest]
              /\ \A d \in Conns \ {c} : reader'[d] = reader[d]
            BY <1>t, <2>0
        <3>2. ReaderOK(reader[c]) /\ reader[c].pc = "users" /\ buf' = buf
            BY <1>3, <2>1 DEF GetUsers, Parts, ReaderInv
        <3>3. ReaderOK(reader[c])'
            BY <2>2, <3>1, <3>2 DEF ReaderOK
        <3> QED
            BY <2>1, <2>3, <3>1, <3>3, ReadersCarry DEF Parts
    <2> QED
        BY <1>3, <2>1, <2>2, <2>3, <2>4, <2>5 DEF GetUsers, Parts, BufferInv, Conserved
<1>4. ASSUME NEW u \in Users, AddTraffic(c, u)
      PROVE  Parts'
    <2> DEFINE item == ItemOf(u, reader[c].todo)
    <2>0. /\ NoLossFault' <=> NoLossFault
          /\ reader' = [reader EXCEPT ![c] = [pc |-> "apply", seq |-> reader[c].seq,
                                              todo |-> reader[c].todo \ item]]
          /\ counted' = [ch \in Chunks |->
                           IF ch \in item THEN counted[ch] + 1 ELSE counted[ch]]
        BY <1>4, <1>f DEF AddTraffic, NoLossFault
    <2>s. item \subseteq Chunks
        BY <1>t DEF ItemOf, Reader
    <2> HIDE DEF item
    <2>1. NoLossFault /\ Parts
        BY <1>i, <2>0
    <2>2. Settled' = Settled \cup item
        <3>1. \A ch \in Chunks : counted[ch] \in Nat
            BY <1>t
        <3>2. \A ch \in Chunks : counted'[ch] > 0 <=> counted[ch] > 0 \/ ch \in item
            BY <2>0, <3>1
        <3>3. ignored' = ignored
            BY <1>4 DEF AddTraffic
        <3> QED
            BY <2>s, <3>2, <3>3 DEF Settled
    <2>3. Carries /\ Held' = Held
        BY <1>4, <2>2, CarryQuiet DEF AddTraffic, Held
    <2>4. FrameInv' /\ AckInv' /\ SeqInv'
        BY <1>4, <2>1, <2>3, LinksCarry, SeqCarry DEF AddTraffic, Parts
    <2>5. ReaderInv'
        <3>1. /\ reader'[c] = [pc |-> "apply", seq |-> reader[c].seq,
                               todo |-> reader[c].todo \ item]
              /\ \A d \in Conns \ {c} : reader'[d] = reader[d]
            BY <1>t, <2>0
        <3>2. ReaderOK(reader[c]) /\ reader[c].pc = "apply" /\ buf' = buf
            BY <1>4, <2>1 DEF AddTraffic, Parts, ReaderInv
        <3>3. ReaderOK(reader[c])'
            BY <2>2, <3>1, <3>2 DEF ReaderOK
        <3> QED
            BY <2>1, <2>3, <3>1, <3>3, ReadersCarry DEF Parts
    <2> QED
        BY <1>4, <2>1, <2>2, <2>3, <2>4, <2>5 DEF AddTraffic, Parts, BufferInv, Conserved
<1>5. CASE SetSeq(c)
    <2>1. NoLossFault /\ Parts
        BY <1>5, <1>f, <1>i DEF SetSeq, NoLossFault
    <2>2. Settled' = Settled /\ Carries /\ Held' = Held
        BY <1>5, SettledSame, CarryQuiet DEF SetSeq, Held
    <2>3. FrameInv' /\ AckInv'
        BY <1>5, <2>1, <2>2, LinksCarry DEF SetSeq, Parts
    <2>4. ReaderOK(reader[c]) /\ reader[c].pc = "apply" /\ reader[c].todo = {} /\ buf' = buf
        BY <1>5, <2>1 DEF SetSeq, Parts, ReaderInv
    <2>5. SeqInv'
        BY <1>5, <1>f, <2>2, <2>4 DEF SetSeq, SeqInv, Ackable, ReaderOK
    <2>6. ReaderInv'
        <3>1. /\ reader'[c] = [pc |-> "ack", seq |-> reader[c].seq, todo |-> {}]
              /\ \A d \in Conns \ {c} : reader'[d] = reader[d]
            BY <1>5, <1>t DEF SetSeq
        <3>2. ReaderOK(reader[c])'
            BY <2>2, <2>4, <3>1 DEF ReaderOK
        <3> QED
            BY <2>1, <2>2, <3>1, <3>2, ReadersCarry DEF Parts
    <2> QED
        BY <1>5, <2>1, <2>2, <2>3, <2>5, <2>6 DEF SetSeq, Parts, BufferInv, Conserved
<1>6. CASE SendAck(c)
    <2>1. NoLossFault /\ Parts
        BY <1>6, <1>i DEF SendAck, NoLossFault
    <2>2. Settled' = Settled /\ Carries /\ Held' = Held /\ buf' = buf
        BY <1>6, SettledSame, CarryQuiet DEF SendAck, Held
    <2>3. reader[c].seq \in Nat /\ Ackable(reader[c].seq)
        <3>1. ReaderOK(reader[c]) /\ reader[c].pc = "ack"
            BY <1>6, <2>1 DEF SendAck, Parts, ReaderInv
        <3> QED
            BY <1>t, <3>1 DEF ReaderOK, Ackable, Reader
    <2>4. \A d \in Conns : \A a \in Elems(down'[d]) : a \in Elems(down[d]) \/ Ackable(a)'
        <3>1. CASE down' = down
            BY <3>1
        <3>2. CASE down' = [down EXCEPT ![c] = Append(down[c], reader[c].seq)]
            <4>0. down[c] \in Seq(Nat) /\ reader[c].seq \in Nat
                BY <1>t, <2>3
            <4>1. Elems(Append(down[c], reader[c].seq))
                      = Elems(down[c]) \cup {reader[c].seq}
                BY ONLY <4>0, AppendFacts
            <4>2. /\ down'[c] = Append(down[c], reader[c].seq)
                  /\ \A d \in Conns \ {c} : down'[d] = down[d]
                BY <1>t, <3>2
            <4>3. \A a \in Nat : a = reader[c].seq => Ackable(a)'
                BY <2>2, <2>3 DEF Ackable
            <4>4. ASSUME NEW a \in Elems(down'[c]), a \notin Elems(down[c])
                  PROVE  Ackable(a)'
                <5>1. a \in Nat /\ a = reader[c].seq
                    BY <2>3, <4>1, <4>2, <4>4
                <5> QED
                    BY <4>3, <5>1
            <4> QED
                BY <4>2, <4>4
        <3> QED
            BY <1>6, <3>1, <3>2 DEF SendAck
    <2>5. FrameInv' /\ AckInv'
        BY <1>6, <2>1, <2>2, <2>4, LinksCarry DEF SendAck, Parts
    <2>6. ReaderInv'
        <3>1. /\ reader'[c] = [pc |-> "idle", seq |-> 0, todo |-> {}]
              /\ \A d \in Conns \ {c} : reader'[d] = reader[d]
            BY <1>6, <1>t DEF SendAck
        <3>2. ReaderOK(reader[c])'
            BY <1>t, <2>2, <3>1 DEF ReaderOK
        <3> QED
            BY <2>1, <2>2, <3>1, <3>2, ReadersCarry DEF Parts
    <2>7. SeqInv'
        BY <1>6, <2>1, <2>2, SeqCarry DEF SendAck, Parts
    <2> QED
        BY <1>6, <2>1, <2>2, <2>5, <2>6, <2>7 DEF SendAck, Parts, BufferInv, Conserved
<1>7. CASE Disconnect(c)
    <2>1. NoLossFault /\ Parts
        BY <1>7, <1>i DEF Disconnect, NoLossFault
    <2>2. Settled' = Settled /\ Carries /\ Held' = Held /\ buf' = buf
        BY <1>7, SettledSame, CarryQuiet DEF Disconnect, Held
    <2>3. \A d \in Conns : Elems(up'[d]) \subseteq Elems(up[d])
        BY <1>7, <1>t, <1>e DEF Disconnect
    <2>4. FrameInv' /\ AckInv'
        BY <1>7, <2>1, <2>2, <2>3, LinksCarry DEF Disconnect, Parts
    <2>5. ReaderInv'
        <3>1. reader'[c] = NoReader /\ \A d \in Conns \ {c} : reader'[d] = reader[d]
            BY <1>7, <1>t DEF Disconnect
        <3>2. ReaderOK(reader[c])'
            BY <1>t, <2>2, <3>1 DEF ReaderOK, NoReader
        <3> QED
            BY <2>1, <2>2, <3>1, <3>2, ReadersCarry DEF Parts
    <2>6. SeqInv'
        BY <1>7, <2>1, <2>2, SeqCarry DEF Disconnect, Parts
    <2> QED
        BY <1>7, <2>1, <2>2, <2>4, <2>5, <2>6 DEF Disconnect, Parts, BufferInv, Conserved
<1> QED
    BY <1>1, <1>2, <1>3, <1>4, <1>5, <1>6, <1>7 DEF PanelStep

\* Traffic, link failures, restarts and reassignments preserve the invariant.
LEMMA WorldParts ==
    ASSUME TypeOK, IInv, NoLossFault',
           \/ \E ch \in Chunks : Produce(ch)
           \/ LoseCounters
           \/ \E c \in Conns : Drop(c) \/ WriterStop(c)
           \/ AgentRestart
           \/ PanelRestart
           \/ \E u \in Users : Reassign(u)
    PROVE  Parts'
<1> USE DEF agentVars, netVars, panelVars, dbVars
<1>t. /\ buf.seq \in Nat /\ reader \in [Conns -> Reader]
      /\ up \in [Conns -> Seq(Frame)] /\ down \in [Conns -> Seq(Nat)]
    BY DEF TypeOK, Buffer
<1>e. Elems(<<>>) = {}
    BY DEF Elems
<1>k. {"counters", "drop", "stall", "midcollect", "agent", "wipe", "panel", "reassign"}
          \subseteq FaultKinds
    BY DEF FaultKinds
<1>f. ~Fault("counters") /\ ~Fault("midcollect") /\ ~Fault("wipe")
    BY <1>k, FaultFacts DEF LossFaults
<1>n. (\E k \in FaultKinds : Fault(k)) \/ UNCHANGED faults => NoLossFault
    BY FaultFacts DEF NoLossFault
<1>i. NoLossFault => Parts
    BY DEF IInv, Parts
<1>1. ASSUME NEW ch \in Chunks, Produce(ch) PROVE Parts'
    <2>1. NoLossFault /\ Parts
        BY <1>1, <1>n, <1>i DEF Produce
    <2>2. Settled' = Settled /\ Carries /\ Held' = Held \cup {ch}
        BY <1>1, SettledSame, CarryQuiet DEF Produce, Held
    <2>3. FrameInv' /\ AckInv' /\ ReaderInv' /\ SeqInv'
        BY <1>1, <2>1, <2>2, LinksCarry, ReadersCarry, SeqCarry DEF Produce, Parts
    <2> QED
        BY <1>1, <2>1, <2>2, <2>3 DEF Produce, Parts, BufferInv, Conserved
<1>2. CASE LoseCounters
    BY <1>2, <1>f DEF LoseCounters
<1>3. ASSUME NEW c \in Conns, Drop(c) PROVE Parts'
    <2>1. NoLossFault /\ Parts
        BY <1>3, <1>k, <1>n, <1>i DEF Drop
    <2>2. Settled' = Settled /\ Carries /\ Held' = Held
        BY <1>3, SettledSame, CarryQuiet DEF Drop, Held
    <2>3. \A d \in Conns : Elems(up'[d]) \subseteq Elems(up[d])
                         /\ Elems(down'[d]) \subseteq Elems(down[d])
        <3>1. PICK m \in 0..Len(up[c]) : up' = [up EXCEPT ![c] = Prefix(up[c], m)]
            BY <1>3 DEF Drop
        <3>2. PICK n \in 0..Len(down[c]) : down' = [down EXCEPT ![c] = Prefix(down[c], n)]
            BY <1>3 DEF Drop
        <3>3. /\ Elems(Prefix(up[c], m)) \subseteq Elems(up[c])
              /\ Elems(Prefix(down[c], n)) \subseteq Elems(down[c])
            BY <3>1, <3>2, PrefixElems
        <3> QED
            BY <1>t, <3>1, <3>2, <3>3
    <2>4. FrameInv' /\ AckInv'
        BY <2>1, <2>2, <2>3, LinksCarry DEF Parts
    <2>5. ReaderInv' /\ SeqInv'
        BY <1>3, <2>1, <2>2, ReadersCarry, SeqCarry DEF Drop, Parts
    <2> QED
        BY <1>3, <2>1, <2>2, <2>4, <2>5 DEF Drop, Parts, BufferInv, Conserved
<1>w. ASSUME NEW c \in Conns, WriterStop(c) PROVE Parts'
    <2>1. NoLossFault /\ Parts
        BY <1>w, <1>k, <1>n, <1>i DEF WriterStop
    <2>2. Settled' = Settled /\ Carries /\ Held' = Held
        BY <1>w, SettledSame, CarryQuiet DEF WriterStop, Held
    <2>3. \A d \in Conns : Elems(down'[d]) \subseteq Elems(down[d])
        <3>1. PICK n \in 0..Len(down[c]) : down' = [down EXCEPT ![c] = Prefix(down[c], n)]
            BY <1>w DEF WriterStop
        <3>2. Elems(Prefix(down[c], n)) \subseteq Elems(down[c])
            BY <3>1, PrefixElems
        <3> QED
            BY <1>t, <3>1, <3>2
    <2>4. FrameInv' /\ AckInv'
        BY <1>w, <2>1, <2>2, <2>3, LinksCarry DEF WriterStop, Parts
    <2>5. ReaderInv' /\ SeqInv'
        BY <1>w, <2>1, <2>2, ReadersCarry, SeqCarry DEF WriterStop, Parts
    <2> QED
        BY <1>w, <2>1, <2>2, <2>4, <2>5 DEF WriterStop, Parts, BufferInv, Conserved
<1>4. CASE AgentRestart
    <2>0. /\ \A d \in Conns : tick[d].got = {}
          /\ Fault("agent") /\ buf' = disk /\ UNCHANGED disk
        BY <1>4, <1>f DEF AgentRestart
    <2>1. NoLossFault /\ Parts
        BY <1>k, <1>n, <1>i, <2>0
    <2>2. buf' = buf /\ disk' = disk
        BY <2>0, <2>1 DEF Parts, BufferInv
    <2>3. Settled' = Settled /\ Carries
        BY <1>4, <2>2, SettledSame, CarryQuiet DEF AgentRestart
    <2>4. Held \subseteq Held'
        BY <1>4, <2>0, <2>2, HeldElements DEF AgentRestart
    <2>5. \A d \in Conns : Elems(up'[d]) \subseteq Elems(up[d])
        <3>1. PICK n \in 0..UpCap :
                  up' = [d \in Conns |-> IF d = sess /\ n < Len(up[d])
                                         THEN Prefix(up[d], n) ELSE up[d]]
            BY <1>4 DEF AgentRestart
        <3>2. ASSUME NEW d \in Conns, n < Len(up[d])
              PROVE  Elems(Prefix(up[d], n)) \subseteq Elems(up[d])
            <4>1. n \in 0..Len(up[d])
                BY <1>t, <3>2, LenProperties
            <4> QED
                BY <4>1, PrefixElems
        <3> QED
            BY <3>1, <3>2
    <2>6. \A d \in Conns : Elems(down'[d]) \subseteq Elems(down[d])
        BY <1>4, <1>e DEF AgentRestart
    <2>7. FrameInv' /\ AckInv'
        BY <2>1, <2>3, <2>5, <2>6, LinksCarry DEF Parts
    <2>8. ReaderInv' /\ SeqInv'
        BY <1>4, <2>1, <2>3, ReadersCarry, SeqCarry DEF AgentRestart, Parts
    <2> QED
        BY <1>4, <2>1, <2>2, <2>3, <2>4, <2>7, <2>8
           DEF AgentRestart, Parts, BufferInv, Conserved
<1>5. CASE PanelRestart
    <2>1. NoLossFault /\ Parts
        BY <1>5, <1>k, <1>n, <1>i DEF PanelRestart
    <2>2. Settled' = Settled /\ Carries /\ Held' = Held /\ buf' = buf
        BY <1>5, SettledSame, CarryQuiet DEF PanelRestart, Held
    <2>3. \A d \in Conns : Elems(up'[d]) \subseteq Elems(up[d])
        BY <1>5, <1>e DEF PanelRestart
    <2>4. \A d \in Conns : Elems(down'[d]) \subseteq Elems(down[d])
        <3>1. PICK n \in 0..DownCap :
                  down' = [d \in Conns |-> IF n < Len(down[d])
                                           THEN Prefix(down[d], n) ELSE down[d]]
            BY <1>5 DEF PanelRestart
        <3>2. ASSUME NEW d \in Conns, n < Len(down[d])
              PROVE  Elems(Prefix(down[d], n)) \subseteq Elems(down[d])
            <4>1. n \in 0..Len(down[d])
                BY <1>t, <3>2, LenProperties
            <4> QED
                BY <4>1, PrefixElems
        <3> QED
            BY <3>1, <3>2
    <2>5. FrameInv' /\ AckInv'
        BY <2>1, <2>2, <2>3, <2>4, LinksCarry DEF Parts
    <2>6. ReaderInv'
        <3>1. \A d \in Conns : reader'[d] = NoReader
            BY <1>5 DEF PanelRestart
        <3> QED
            BY <1>t, <2>2, <3>1 DEF ReaderInv, ReaderOK, NoReader
    <2>7. SeqInv'
        BY <1>5, <2>1, <2>2, SeqCarry DEF PanelRestart, Parts
    <2> QED
        BY <1>5, <2>1, <2>2, <2>5, <2>6, <2>7 DEF PanelRestart, Parts, BufferInv, Conserved
<1>6. ASSUME NEW u \in Users, Reassign(u) PROVE Parts'
    <2>1. NoLossFault /\ Parts
        BY <1>6, <1>k, <1>n, <1>i DEF Reassign
    <2>2. Settled' = Settled /\ Carries /\ Held' = Held
        BY <1>6, SettledSame, CarryQuiet DEF Reassign, Held
    <2>3. FrameInv' /\ AckInv' /\ ReaderInv' /\ SeqInv'
        BY <1>6, <2>1, <2>2, LinksCarry, ReadersCarry, SeqCarry DEF Reassign, Parts
    <2> QED
        BY <1>6, <2>1, <2>2, <2>3 DEF Reassign, Parts, BufferInv, Conserved
<1> QED
    BY <1>1, <1>2, <1>3, <1>4, <1>5, <1>6, <1>w

\* Every step preserves the invariant.
LEMMA NextIInv ==
    ASSUME TypeOK, IInv, [Next]_vars
    PROVE  IInv'
<1> SUFFICES ASSUME NoLossFault' PROVE Parts'
    BY DEF IInv, Parts
<1>1. CASE Next
    BY <1>1, AgentParts, PanelParts, WorldParts DEF Next
<1>2. CASE UNCHANGED vars
    <2>1. Parts
        BY <1>2 DEF vars, IInv, Parts, NoLossFault
    <2>2. Settled' = Settled /\ Held' = Held /\ Carries
        BY <1>2, CarryQuiet DEF vars, agentVars, dbVars, Settled, Held
    <2>3. FrameInv' /\ AckInv' /\ ReaderInv' /\ SeqInv'
        BY <1>2, <2>1, <2>2, LinksCarry, ReadersCarry, SeqCarry
           DEF vars, netVars, panelVars, dbVars, Parts
    <2> QED
        BY <1>2, <2>1, <2>2, <2>3 DEF vars, agentVars, Parts, BufferInv, Conserved
<1> QED
    BY <1>1, <1>2

\* The invariant holds in every reachable state.
LEMMA InvCorrect == Spec => []IInv
<1>1. TypeOK /\ IInv /\ [Next]_vars => IInv'
    BY NextIInv
<1> QED
    BY <1>1, InitParts, TypeCorrect, PTL DEF Spec

\* No loss, for any number of users, chunks, sessions, restarts and drops: unless
\* one of the five loss faults happened, all traffic ever produced is still in
\* Xray, in the agent's buffer or hands, or accounted for by the panel.
THEOREM NoLossCorrect == Spec => []NoLoss
<1>1. IInv => NoLoss
    BY DEF IInv, NoLoss, Conserved, Lost
<1> QED
    BY <1>1, InvCorrect, PTL

\* Deduplication never swallows a batch: what ingestTraffic skips because its seq
\* equals traffic_seq has been accounted for.
THEOREM DuplicateCorrect == Spec => []DuplicateIsSettled
<1>1. TypeOK /\ IInv => DuplicateIsSettled
    <2> SUFFICES ASSUME TypeOK, IInv, NoLossFault, NEW c \in Conns,
                        up[c] # <<>>, Head(up[c]).seq = last
                 PROVE  Head(up[c]).items \subseteq Settled
        BY DEF DuplicateIsSettled
    <2>1. Head(up[c]) \in Elems(up[c])
        BY TailFacts DEF TypeOK
    <2>2. FrameOK(Head(up[c])) /\ Ackable(last)
        BY <2>1 DEF IInv, FrameInv, SeqInv
    <2> QED
        BY <2>2 DEF FrameOK, Ackable
<1> QED
    BY <1>1, TypeCorrect, InvCorrect, PTL

-----------------------------------------------------------------------------
(* The ledger: nothing is settled or held that was not produced *)

KnownBuffer(b) == b.pend \subseteq produced /\ b.flight \subseteq produced

KnownFrames(c) == \A f \in Elems(up[c]) : f.items \subseteq produced

\* Whatever faults there were: what any part of the node or the panel knows of
\* was produced.
KnownInv ==
    /\ xray \subseteq produced
    /\ KnownBuffer(buf) /\ KnownBuffer(disk)
    /\ \A c \in Conns : /\ tick[c].got \subseteq produced
                        /\ reader[c].todo \subseteq produced
                        /\ KnownFrames(c)
    /\ Settled \subseteq produced

\* The operations of pending.go invent no traffic.
LEMMA KnownOps ==
    ASSUME NEW b \in Buffer, KnownBuffer(b)
    PROVE  /\ KnownBuffer(Batched(b))
           /\ \A S \in SUBSET Chunks : S \subseteq produced => KnownBuffer(Collected(b, S))
           /\ \A s : KnownBuffer(Acked(b, s))
<1>1. KnownBuffer(Batched(b))
    BY DEF Batched, Buffer, KnownBuffer
<1>2. \A S \in SUBSET Chunks : S \subseteq produced => KnownBuffer(Collected(b, S))
    BY DEF Collected, Buffer, KnownBuffer
<1>3. \A s : KnownBuffer(Acked(b, s))
    BY DEF Acked, Buffer, KnownBuffer
<1> QED
    BY <1>1, <1>2, <1>3

\* Nor does saving one.
LEMMA KnownSet ==
    ASSUME NEW b, KnownBuffer(b), SetBuf(b), KnownInv, produced' = produced
    PROVE  KnownBuffer(buf)' /\ KnownBuffer(disk)'
<1>1. buf' = b /\ (disk' = disk \/ disk' = b)
    BY DEF SetBuf
<1> QED
    BY <1>1 DEF KnownInv, KnownBuffer

\* Links that lose frames bring up nothing unknown.
LEMMA KnownLinks ==
    ASSUME KnownInv, produced \subseteq produced',
           \A d \in Conns : Elems(up'[d]) \subseteq Elems(up[d])
    PROVE  \A d \in Conns : KnownFrames(d)'
BY DEF KnownInv, KnownFrames

\* What is known carries over when the panel and the buffers stay.
LEMMA KnownFrame ==
    ASSUME KnownInv, produced \subseteq produced', xray' \subseteq produced',
           KnownBuffer(buf)' /\ KnownBuffer(disk)',
           UNCHANGED <<counted, ignored>>,
           \A d \in Conns : /\ tick'[d].got \subseteq produced'
                            /\ reader'[d].todo \subseteq reader[d].todo
                            /\ KnownFrames(d)'
    PROVE  KnownInv'
<1>1. Settled' = Settled
    BY SettledSame
<1> QED
    BY <1>1 DEF KnownInv

\* A session's steps move known traffic only.
LEMMA KnownAgent ==
    ASSUME TypeOK, KnownInv, NEW c \in Conns, AgentStep(c)
    PROVE  KnownInv'
<1> USE DEF agentVars, netVars, panelVars, dbVars
<1>t. /\ buf \in Buffer /\ tick \in [Conns -> Ticker] /\ up \in [Conns -> Seq(Frame)]
      /\ reader \in [Conns -> Reader]
    BY DEF TypeOK
<1>k. /\ KnownBuffer(buf) /\ KnownBuffer(disk) /\ xray \subseteq produced
      /\ \A d \in Conns : tick[d].got \subseteq produced /\ KnownFrames(d)
    BY DEF KnownInv
<1>c. produced' = produced /\ UNCHANGED <<counted, ignored>>
    BY DEF AgentStep, Dial, ReadCounters, Collect, SendBatch, WriteTimeout, TickerStop,
           ReadAck, ReadError
<1>b. KnownBuffer(Batched(buf))
    BY <1>t, <1>k, KnownOps
<1>s. UNCHANGED <<buf, disk>> => KnownBuffer(buf)' /\ KnownBuffer(disk)'
    BY <1>c, <1>k DEF KnownBuffer
<1>u. UNCHANGED up => \A d \in Conns : KnownFrames(d)'
    BY <1>c, KnownLinks
<1>1. CASE Dial(c)
    <2>1. KnownBuffer(buf)' /\ KnownBuffer(disk)'
        BY <1>1, <1>b, <1>c, KnownSet DEF Dial
    <2>2. \A d \in Conns : KnownFrames(d)'
        <3>1. /\ up'[c] = Flush(Batched(buf))
              /\ \A d \in Conns \ {c} : up'[d] = up[d]
            BY <1>1, <1>t DEF Dial
        <3>2. KnownFrames(c)'
            BY <1>b, <1>c, <3>1 DEF Flush, BatchFrame, Elems, KnownFrames, KnownBuffer
        <3> QED
            BY <1>c, <1>k, <3>1, <3>2 DEF KnownFrames
    <2>3. \A d \in Conns : /\ tick'[d].got \subseteq produced'
                           /\ reader'[d].todo \subseteq reader[d].todo
        BY <1>1, <1>c, <1>k, <1>t DEF Dial, TickerIdle
    <2>4. xray' \subseteq produced'
        BY <1>1, <1>c, <1>k DEF Dial
    <2> QED
        BY <1>c, <2>1, <2>2, <2>3, <2>4, KnownFrame
<1>2. CASE ReadCounters(c)
    <2>1. \A d \in Conns : tick'[d].got \subseteq produced'
        BY <1>2, <1>c, <1>k, <1>t DEF ReadCounters
    <2>2. xray' = {} /\ UNCHANGED <<buf, disk, up, reader>>
        BY <1>2 DEF ReadCounters
    <2> QED
        BY <1>c, <1>s, <1>u, <2>1, <2>2, KnownFrame
<1>3. CASE Collect(c)
    <2>0. tick[c].got \in SUBSET Chunks
        BY <1>t DEF Ticker
    <2>1. KnownBuffer(Collected(buf, tick[c].got))
        BY <1>k, <1>t, <2>0, KnownOps
    <2>2. KnownBuffer(buf)' /\ KnownBuffer(disk)'
        BY <1>3, <1>c, <2>1, KnownSet DEF Collect
    <2>3. \A d \in Conns : tick'[d].got \subseteq produced'
        BY <1>3, <1>c, <1>k, <1>t DEF Collect
    <2>4. xray' \subseteq produced' /\ UNCHANGED <<up, reader>>
        BY <1>3, <1>c, <1>k DEF Collect
    <2> QED
        BY <1>c, <1>u, <2>2, <2>3, <2>4, KnownFrame
<1>4. CASE SendBatch(c)
    <2>1. KnownBuffer(buf)' /\ KnownBuffer(disk)'
        <3>1. SetBuf(Batched(buf)) \/ UNCHANGED <<buf, disk>>
            BY <1>4 DEF SendBatch
        <3> QED
            BY <1>b, <1>c, <1>s, <3>1, KnownSet
    <2>2. \A d \in Conns : KnownFrames(d)'
        <3>1. CASE UNCHANGED up
            BY <1>u, <3>1
        <3>2. CASE up' = [up EXCEPT ![c] = Append(up[c], BatchFrame(buf'))] /\ SetBuf(Batched(buf))
            <4>1. BatchFrame(buf') \in Frame /\ BatchFrame(buf').items = buf'.flight
                BY <1>t, <3>2, BufferOps DEF BatchFrame, Buffer, Frame, SetBuf
            <4>2. Elems(Append(up[c], BatchFrame(buf'))) = Elems(up[c]) \cup {BatchFrame(buf')}
                BY <1>t, <4>1, AppendFacts
            <4>3. up'[c] = Append(up[c], BatchFrame(buf'))
                  /\ \A d \in Conns \ {c} : up'[d] = up[d]
                BY <1>t, <3>2
            <4>4. ASSUME NEW f \in Elems(up'[c]) PROVE f.items \subseteq produced'
                <5>1. f \in Elems(up[c]) \/ f = BatchFrame(buf')
                    BY <4>2, <4>3, <4>4
                <5> QED
                    BY <1>c, <1>k, <2>1, <4>1, <5>1 DEF KnownFrames, KnownBuffer
            <4> QED
                BY <1>c, <1>k, <4>3, <4>4 DEF KnownFrames
        <3> QED
            BY <1>4, <3>1, <3>2 DEF SendBatch
    <2>3. \A d \in Conns : tick'[d].got \subseteq produced'
        BY <1>4, <1>c, <1>k, <1>t DEF SendBatch, TickerIdle, TickerOff
    <2>4. xray' \subseteq produced' /\ UNCHANGED reader
        BY <1>4, <1>c, <1>k DEF SendBatch
    <2> QED
        BY <1>c, <2>1, <2>2, <2>3, <2>4, KnownFrame
<1>5. CASE WriteTimeout(c) \/ TickerStop(c)
    <2>1. \A d \in Conns : tick'[d].got \subseteq produced'
        <3>1. /\ tick'[c].got = {}
              /\ \A d \in Conns \ {c} : tick'[d] = tick[d]
            BY <1>5, <1>t DEF WriteTimeout, TickerStop, TickerOff
        <3> QED
            BY <1>c, <1>k, <3>1
    <2>2. xray' \subseteq produced' /\ UNCHANGED <<buf, disk, up, reader>>
        BY <1>5, <1>c, <1>k DEF WriteTimeout, TickerStop
    <2> QED
        BY <1>c, <1>s, <1>u, <2>1, <2>2, KnownFrame
<1>6. CASE ReadAck(c)
    <2>1. KnownBuffer(Acked(buf, Head(down[c])))
        BY <1>k, <1>t, KnownOps
    <2>2. KnownBuffer(buf)' /\ KnownBuffer(disk)'
        BY <1>6, <1>c, <2>1, KnownSet DEF ReadAck
    <2>3. \A d \in Conns : tick'[d].got \subseteq produced'
        BY <1>6, <1>c, <1>k DEF ReadAck
    <2>4. xray' \subseteq produced' /\ UNCHANGED <<up, reader>>
        BY <1>6, <1>c, <1>k DEF ReadAck
    <2> QED
        BY <1>c, <1>u, <2>2, <2>3, <2>4, KnownFrame
<1>7. CASE ReadError(c)
    <2>1. \A d \in Conns : tick'[d].got \subseteq produced'
        BY <1>7, <1>c, <1>k DEF ReadError
    <2>2. xray' \subseteq produced' /\ UNCHANGED <<buf, disk, up, reader>>
        BY <1>7, <1>c, <1>k DEF ReadError
    <2> QED
        BY <1>c, <1>s, <1>u, <2>1, <2>2, KnownFrame
<1> QED
    BY <1>1, <1>2, <1>3, <1>4, <1>5, <1>6, <1>7 DEF AgentStep

\* So do the steps of its handler: what it settles came in a frame.
LEMMA KnownPanel ==
    ASSUME TypeOK, KnownInv, NEW c \in Conns, PanelStep(c)
    PROVE  KnownInv' /\ Settled \subseteq Settled' /\ UNCHANGED <<produced, agentVars>>
<1>t. /\ up \in [Conns -> Seq(Frame)] /\ reader \in [Conns -> Reader]
      /\ counted \in [Chunks -> Nat] /\ reader[c].todo \in SUBSET Chunks
    BY DEF TypeOK, Reader
<1>k. /\ KnownBuffer(buf) /\ KnownBuffer(disk) /\ xray \subseteq produced
      /\ \A d \in Conns : tick[d].got \subseteq produced /\ reader[d].todo \subseteq produced
      /\ \A d \in Conns : KnownFrames(d)
      /\ Settled \subseteq produced
    BY DEF KnownInv
<1>a. UNCHANGED <<produced, agentVars>>
    BY DEF PanelStep, Register, ReadFrame, GetUsers, AddTraffic, SetSeq, SendAck, Disconnect
<1>b. KnownBuffer(buf)' /\ KnownBuffer(disk)' /\ xray' \subseteq produced'
      /\ \A d \in Conns : tick'[d].got \subseteq produced'
    BY <1>a, <1>k DEF agentVars, KnownBuffer
<1>q. ASSUME \A d \in Conns : reader'[d].todo \subseteq produced /\ KnownFrames(d)',
             Settled \subseteq Settled', Settled' \subseteq produced
      PROVE  KnownInv' /\ Settled \subseteq Settled' /\ UNCHANGED <<produced, agentVars>>
    BY <1>a, <1>b, <1>q DEF KnownInv
<1>1. CASE Register(c)
    <2>1. \A d \in Conns : reader'[d].todo \subseteq produced
        BY <1>1, <1>k, <1>t DEF Register, Goto
    <2>2. \A d \in Conns : Elems(up'[d]) \subseteq Elems(up[d])
        <3>1. CASE registered \in Conns
            <4>1. PICK m \in 0..Len(up[registered]) :
                      up' = [up EXCEPT ![registered] = Prefix(up[registered], m)]
                BY <1>1, <3>1 DEF Register
            <4>2. Elems(Prefix(up[registered], m)) \subseteq Elems(up[registered])
                BY <3>1, PrefixElems
            <4> QED
                BY <1>t, <4>1, <4>2
        <3>2. CASE registered \notin Conns
            BY <1>1, <3>2 DEF Register, netVars
        <3> QED
            BY <3>1, <3>2
    <2>3. Settled' = Settled
        BY <1>1, SettledSame DEF Register, dbVars
    <2> QED
        BY <1>a, <1>k, <1>q, <2>1, <2>2, <2>3, KnownLinks
<1>2. CASE ReadFrame(c)
    <2>1. /\ Head(up[c]) \in Elems(up[c]) /\ Elems(Tail(up[c])) \subseteq Elems(up[c])
          /\ up'[c] = Tail(up[c]) /\ \A d \in Conns \ {c} : up'[d] = up[d]
        BY <1>2, <1>t, TailFacts DEF ReadFrame
    <2>2. \A d \in Conns : KnownFrames(d)'
        BY <1>a, <2>1, KnownLinks
    <2>3. \A d \in Conns : reader'[d].todo \subseteq produced
        <3>1. Head(up[c]).items \subseteq produced
            BY <1>k, <2>1 DEF KnownFrames
        <3>2. reader'[c].todo = {} \/ reader'[c].todo = Head(up[c]).items
            BY <1>2, <1>t DEF ReadFrame
        <3>3. \A d \in Conns \ {c} : reader'[d] = reader[d]
            BY <1>2, <1>t DEF ReadFrame
        <3> QED
            BY <1>k, <3>1, <3>2, <3>3
    <2>4. Settled' = Settled
        BY <1>2, SettledSame DEF ReadFrame, dbVars
    <2> QED
        BY <1>k, <1>q, <2>2, <2>3, <2>4
<1>3. CASE GetUsers(c)
    <2>1. \A d \in Conns : reader'[d].todo \subseteq reader[d].todo
        <3>1. \A d \in Conns \ {c} : reader'[d] = reader[d]
            BY <1>3, <1>t DEF GetUsers, Goto
        <3>2. reader'[c].todo \subseteq reader[c].todo
            BY <1>3, <1>t DEF GetUsers, Goto
        <3> QED
            BY <3>1, <3>2
    <2>2. /\ counted' = counted /\ ignored \subseteq ignored'
          /\ ignored' \subseteq ignored \cup reader[c].todo
        BY <1>3 DEF GetUsers
    <2>3. Settled \subseteq Settled' /\ Settled' \subseteq Settled \cup reader[c].todo
        BY <2>2 DEF Settled
    <2>4. \A d \in Conns : KnownFrames(d)'
        BY <1>3, <1>a, KnownLinks DEF GetUsers, netVars
    <2> QED
        BY <1>k, <1>q, <2>1, <2>3, <2>4
<1>4. ASSUME NEW u \in Users, AddTraffic(c, u)
      PROVE  KnownInv' /\ Settled \subseteq Settled' /\ UNCHANGED <<produced, agentVars>>
    <2> DEFINE item == ItemOf(u, reader[c].todo)
    <2>0. item \subseteq reader[c].todo
        BY DEF ItemOf
    <2>1. \A d \in Conns : reader'[d].todo \subseteq reader[d].todo
        <3>1. \A d \in Conns \ {c} : reader'[d] = reader[d]
            BY <1>4, <1>t DEF AddTraffic, Goto
        <3>2. reader'[c].todo \subseteq reader[c].todo
            BY <1>4, <1>t DEF AddTraffic, Goto
        <3> QED
            BY <3>1, <3>2
    <2>2. /\ ignored' = ignored
          /\ \/ counted' = counted
             \/ counted' = [ch \in Chunks |->
                              IF ch \in item THEN counted[ch] + 1 ELSE counted[ch]]
        BY <1>4 DEF AddTraffic
    <2> HIDE DEF item
    <2>3. Settled \subseteq Settled' /\ Settled' \subseteq Settled \cup item
        <3>1. \A ch \in Chunks : counted[ch] \in Nat
            BY <1>t
        <3>2. \A ch \in Chunks : /\ counted[ch] > 0 => counted'[ch] > 0
                                 /\ counted'[ch] > 0 => counted[ch] > 0 \/ ch \in item
            BY <2>2, <3>1
        <3> QED
            BY <2>2, <3>2 DEF Settled
    <2>4. \A d \in Conns : KnownFrames(d)'
        BY <1>4, <1>a, KnownLinks DEF AddTraffic, netVars
    <2> QED
        BY <1>k, <1>q, <2>0, <2>1, <2>3, <2>4
<1>5. CASE SetSeq(c) \/ SendAck(c) \/ Disconnect(c)
    <2>1. \A d \in Conns : reader'[d].todo \subseteq produced
        <3>1. /\ reader'[c].todo = {}
              /\ \A d \in Conns \ {c} : reader'[d] = reader[d]
            BY <1>5, <1>t DEF SetSeq, SendAck, Disconnect, Goto, NoReader
        <3> QED
            BY <1>k, <3>1
    <2>2. Elems(<<>>) = {}
        BY DEF Elems
    <2>3. \A d \in Conns : Elems(up'[d]) \subseteq Elems(up[d])
        BY <1>5, <1>t, <2>2 DEF SetSeq, SendAck, Disconnect, netVars
    <2>4. Settled' = Settled
        BY <1>5, SettledSame DEF SetSeq, SendAck, Disconnect, dbVars
    <2> QED
        BY <1>a, <1>k, <1>q, <2>1, <2>3, <2>4, KnownLinks
<1> QED
    BY <1>1, <1>2, <1>3, <1>4, <1>5 DEF PanelStep

\* And traffic itself, failures and restarts.
LEMMA KnownWorld ==
    ASSUME TypeOK, KnownInv,
           \/ \E ch \in Chunks : Produce(ch)
           \/ LoseCounters
           \/ \E c \in Conns : Drop(c) \/ WriterStop(c)
           \/ AgentRestart
           \/ PanelRestart
           \/ \E u \in Users : Reassign(u)
    PROVE  KnownInv' /\ Settled' = Settled
<1> USE DEF agentVars, netVars, panelVars, dbVars
<1>t. up \in [Conns -> Seq(Frame)]
    BY DEF TypeOK
<1>k. /\ KnownBuffer(buf) /\ KnownBuffer(disk) /\ xray \subseteq produced
      /\ \A d \in Conns : tick[d].got \subseteq produced /\ KnownFrames(d)
    BY DEF KnownInv
<1>c. UNCHANGED <<counted, ignored>> /\ produced \subseteq produced'
    BY DEF Produce, LoseCounters, Drop, WriterStop, AgentRestart, PanelRestart, Reassign
<1>s. Settled' = Settled
    BY <1>c, SettledSame
<1>e. Elems(<<>>) = {}
    BY DEF Elems
<1>q. ASSUME UNCHANGED <<buf, disk, tick>>, xray' \subseteq produced',
             \A d \in Conns : /\ Elems(up'[d]) \subseteq Elems(up[d])
                              /\ reader'[d].todo \subseteq reader[d].todo
      PROVE  KnownInv'
    <2>1. KnownBuffer(buf)' /\ KnownBuffer(disk)'
        BY <1>c, <1>k, <1>q DEF KnownBuffer
    <2>2. \A d \in Conns : tick'[d].got \subseteq produced'
        BY <1>c, <1>k, <1>q
    <2>3. \A d \in Conns : KnownFrames(d)'
        BY <1>c, <1>q, KnownLinks
    <2> QED
        BY <1>c, <1>q, <2>1, <2>2, <2>3, KnownFrame
<1>1. ASSUME NEW ch \in Chunks, Produce(ch) PROVE KnownInv'
    BY <1>1, <1>k, <1>q DEF Produce
<1>2. CASE LoseCounters
    BY <1>2, <1>q, <1>s DEF LoseCounters
<1>3. ASSUME NEW c \in Conns, Drop(c) PROVE KnownInv'
    <2>1. PICK m \in 0..Len(up[c]) : up' = [up EXCEPT ![c] = Prefix(up[c], m)]
        BY <1>3 DEF Drop
    <2>2. Elems(Prefix(up[c], m)) \subseteq Elems(up[c])
        BY <2>1, PrefixElems
    <2>3. \A d \in Conns : Elems(up'[d]) \subseteq Elems(up[d])
        BY <1>t, <2>1, <2>2
    <2> QED
        BY <1>3, <1>k, <1>q, <2>3 DEF Drop
<1>w. ASSUME NEW c \in Conns, WriterStop(c) PROVE KnownInv'
    BY <1>w, <1>k, <1>q DEF WriterStop
<1>4. CASE AgentRestart
    <2>1. KnownBuffer(buf)' /\ KnownBuffer(disk)'
        BY <1>4, <1>c, <1>k DEF AgentRestart, KnownBuffer, EmptyBuffer
    <2>2. \A d \in Conns : tick'[d].got \subseteq produced'
        BY <1>4 DEF AgentRestart, TickerOff
    <2>3. \A d \in Conns : Elems(up'[d]) \subseteq Elems(up[d])
        <3>1. PICK n \in 0..UpCap :
                  up' = [d \in Conns |-> IF d = sess /\ n < Len(up[d])
                                         THEN Prefix(up[d], n) ELSE up[d]]
            BY <1>4 DEF AgentRestart
        <3>2. ASSUME NEW d \in Conns, n < Len(up[d])
              PROVE  Elems(Prefix(up[d], n)) \subseteq Elems(up[d])
            <4>1. n \in 0..Len(up[d])
                BY <1>t, <3>2, LenProperties
            <4> QED
                BY <4>1, PrefixElems
        <3> QED
            BY <3>1, <3>2
    <2>4. xray' \subseteq produced' /\ UNCHANGED reader
        BY <1>4, <1>k DEF AgentRestart
    <2> QED
        BY <1>c, <1>s, <2>1, <2>2, <2>3, <2>4, KnownLinks, KnownFrame
<1>5. CASE PanelRestart
    BY <1>5, <1>e, <1>k, <1>q, <1>s DEF PanelRestart, NoReader
<1>6. ASSUME NEW u \in Users, Reassign(u) PROVE KnownInv'
    BY <1>6, <1>k, <1>q DEF Reassign
<1> QED
    BY <1>s, <1>1, <1>2, <1>3, <1>4, <1>5, <1>6, <1>w

\* What is known was produced, in every reachable state.
LEMMA KnownCorrect == Spec => []KnownInv
<1>1. Init => KnownInv
    <2> SUFFICES ASSUME Init PROVE KnownInv
        OBVIOUS
    <2>1. Elems(<<>>) = {} /\ Settled = {}
        BY DEF Elems, Settled, Init
    <2> QED
        BY <2>1 DEF Init, KnownInv, KnownBuffer, KnownFrames, EmptyBuffer, TickerOff, NoReader
<1>2. TypeOK /\ KnownInv /\ [Next]_vars => KnownInv'
    <2> SUFFICES ASSUME TypeOK, KnownInv, [Next]_vars PROVE KnownInv'
        OBVIOUS
    <2>1. CASE UNCHANGED vars
        BY <2>1 DEF vars, agentVars, netVars, panelVars, dbVars, KnownInv, KnownBuffer,
                    KnownFrames, Settled
    <2> QED
        BY <2>1, KnownAgent, KnownPanel, KnownWorld DEF Next
<1> QED
    BY <1>1, <1>2, TypeCorrect, PTL DEF Spec

-----------------------------------------------------------------------------
(* The ledger: every step without a loss is one of its steps *)

\* A step that produces nothing and forgets only what is settled is the ledger's.
LEMMA LedgerStep ==
    ASSUME KnownInv', produced' = produced, Settled \subseteq Settled',
           \/ Held' = Held
           \/ Settled' = Settled /\ Held' \subseteq Held /\ Held \ Held' \subseteq Settled
    PROVE  [Ledger!Next]_(Ledger!vars)
<1>1. CASE Held' = Held
    <2>1. Settled' \in SUBSET produced /\ Settled' = Settled \cup Settled'
        BY DEF KnownInv
    <2>2. Ledger!Settle(Settled')
        BY <1>1, <2>1 DEF Ledger!Settle
    <2> QED
        BY <2>1, <2>2 DEF Ledger!Next
<1>2. CASE Settled' = Settled /\ Held' \subseteq Held /\ Held \ Held' \subseteq Settled
    <2>1. Held \ Held' \in SUBSET Held /\ Held' = Held \ (Held \ Held')
        BY <1>2
    <2>2. Ledger!Release(Held \ Held')
        BY <1>2, <2>1 DEF Ledger!Release
    <2> QED
        BY <2>1, <2>2 DEF Ledger!Next
<1> QED
    BY <1>1, <1>2

\* A session moves traffic from hand to hand and drops a batch once it is settled.
LEMMA LedgerAgent ==
    ASSUME TypeOK, IInv, KnownInv, NoLossFault', NEW c \in Conns, AgentStep(c)
    PROVE  [Ledger!Next]_(Ledger!vars)
<1> USE DEF agentVars, netVars, panelVars, dbVars
<1>t. buf \in Buffer /\ tick \in [Conns -> Ticker] /\ down \in [Conns -> Seq(Nat)]
    BY DEF TypeOK
<1>i. NoLossFault => BufferInv /\ AckInv
    BY DEF IInv
<1>k. KnownInv'
    BY KnownAgent
<1>c. produced' = produced /\ UNCHANGED <<counted, ignored>>
    BY DEF AgentStep, Dial, ReadCounters, Collect, SendBatch, WriteTimeout, TickerStop,
           ReadAck, ReadError
<1>s. Settled' = Settled
    BY <1>c, SettledSame
<1>q. ASSUME Held' = Held PROVE [Ledger!Next]_(Ledger!vars)
    BY <1>c, <1>k, <1>q, <1>s, LedgerStep
<1>b. ASSUME buf' = Batched(buf), NoLossFault
      PROVE  buf'.pend \cup buf'.flight = buf.pend \cup buf.flight
    BY <1>b, <1>i, <1>s, <1>t, CarryBatched DEF BufferInv
<1>1. CASE Dial(c)
    <2>1. buf'.pend \cup buf'.flight = buf.pend \cup buf.flight
        BY <1>1, <1>b, <1>i, SetBufFacts DEF Dial
    <2>2. \A d \in Conns : tick'[d].got = tick[d].got
        BY <1>1, <1>t DEF Dial, TickerIdle, Ticker
    <2>3. Held' = Held
        BY <1>1, <2>1, <2>2, HeldElements DEF Dial
    <2> QED
        BY <1>q, <2>3
<1>2. CASE ReadCounters(c)
    <2>1. tick'[c].got = xray /\ \A d \in Conns \ {c} : tick'[d] = tick[d]
        BY <1>2, <1>t DEF ReadCounters
    <2>2. tick[c].got = {}
        BY <1>2, <1>t DEF ReadCounters, Ticker
    <2>3. Held' = Held
        BY <1>2, <2>1, <2>2, HeldElements DEF ReadCounters
    <2> QED
        BY <1>q, <2>3
<1>3. CASE Collect(c)
    <2>0. tick[c].got \in SUBSET Chunks
        BY <1>t DEF Ticker
    <2>1. buf' = Collected(buf, tick[c].got)
        BY <1>3, <1>i, SetBufFacts DEF Collect
    <2>2. buf'.pend = buf.pend \cup tick[c].got /\ buf'.flight = buf.flight
        BY <1>s, <1>t, <2>0, <2>1, CarryCollected
    <2>3. tick'[c].got = {} /\ \A d \in Conns \ {c} : tick'[d] = tick[d]
        BY <1>3, <1>t DEF Collect
    <2>4. Held' = Held
        <3>1. xray' = xray
            BY <1>3 DEF Collect
        <3>2. \A x : (\E d \in Conns : x \in tick[d].got)
                     <=> \/ x \in tick[c].got
                         \/ \E d \in Conns : x \in tick'[d].got
            BY ONLY <2>3, c \in Conns
        <3>3. \A x : x \in Held' <=> x \in Held
            BY ONLY <2>2, <3>1, <3>2, HeldElements
        <3> QED
            BY <3>3
    <2> QED
        BY <1>q, <2>4
<1>4. CASE SendBatch(c)
    <2>1. buf'.pend \cup buf'.flight = buf.pend \cup buf.flight
        <3>1. CASE SetBuf(Batched(buf))
            BY <1>b, <1>i, <3>1, SetBufFacts
        <3>2. CASE UNCHANGED buf
            BY <3>2
        <3> QED
            BY <1>4, <3>1, <3>2 DEF SendBatch
    <2>2. \A d \in Conns : tick'[d].got = tick[d].got
        <3>1. tick[c].got = {} /\ tick'[c].got = {}
              /\ \A d \in Conns \ {c} : tick'[d] = tick[d]
            BY <1>4, <1>t DEF SendBatch, TickerIdle, TickerOff, Ticker
        <3> QED
            BY <3>1
    <2>3. Held' = Held
        BY <1>4, <2>1, <2>2, HeldElements DEF SendBatch
    <2> QED
        BY <1>q, <2>3
<1>5. CASE WriteTimeout(c) \/ TickerStop(c)
    <2>1. \A d \in Conns : tick'[d].got = tick[d].got
        <3>1. tick[c].got = {} /\ tick'[c].got = {}
              /\ \A d \in Conns \ {c} : tick'[d] = tick[d]
            BY <1>5, <1>t DEF WriteTimeout, TickerStop, TickerOff, Ticker
        <3> QED
            BY <3>1
    <2>2. Held' = Held
        BY <1>5, <2>1, HeldElements DEF WriteTimeout, TickerStop
    <2> QED
        BY <1>q, <2>2
<1>6. CASE ReadAck(c)
    <2>1. NoLossFault /\ buf' = Acked(buf, Head(down[c]))
        BY <1>6, <1>i, SetBufFacts DEF ReadAck
    <2>2. Head(down[c]) \in Nat /\ Head(down[c]) \in Elems(down[c])
        BY <1>6, <1>t, TailFacts DEF ReadAck
    <2>3. Ackable(Head(down[c]))
        BY <1>i, <2>1, <2>2 DEF AckInv
    <2>4. /\ buf'.pend = buf.pend
          /\ buf.flight \subseteq buf'.flight \cup Settled
        BY <1>i, <1>s, <1>t, <2>1, <2>2, <2>3, CarryAcked DEF BufferInv
    <2>5. buf'.flight \subseteq buf.flight
        BY <1>t, <2>1 DEF Acked, Buffer
    <2>6. Held' \subseteq Held /\ Held \ Held' \subseteq Settled
        BY <1>6, <2>4, <2>5, HeldElements DEF ReadAck
    <2> QED
        BY <1>c, <1>k, <1>s, <2>6, LedgerStep
<1>7. CASE ReadError(c)
    BY <1>7, <1>q, HeldElements DEF ReadError
<1> QED
    BY <1>1, <1>2, <1>3, <1>4, <1>5, <1>6, <1>7 DEF AgentStep

\* Until the first loss fault every step of the protocol is a step of the ledger.
LEMMA LedgerNext ==
    ASSUME TypeOK, IInv, KnownInv, NoLossFault', [Next]_vars
    PROVE  [Ledger!Next]_(Ledger!vars)
<1> USE DEF agentVars, netVars, panelVars, dbVars
<1>k. {"midcollect", "wipe", "counters"} \subseteq FaultKinds \cap LossFaults
    BY DEF FaultKinds, LossFaults
<1>f. ~Fault("counters") /\ ~Fault("midcollect") /\ ~Fault("wipe")
    BY <1>k, FaultFacts
<1>1. ASSUME NEW ch \in Chunks, Produce(ch) PROVE [Ledger!Next]_(Ledger!vars)
    <2>1. Settled' = Settled
        BY <1>1, SettledSame DEF Produce
    <2>2. Held' = Held \cup {ch}
        BY <1>1 DEF Produce, Held
    <2>3. Ledger!Produce(ch)
        BY <1>1, <2>1, <2>2 DEF Produce, Ledger!Produce
    <2> QED
        BY <2>3 DEF Ledger!Next
<1>2. ~LoseCounters
    BY <1>f DEF LoseCounters
<1>3. ASSUME NEW c \in Conns, PanelStep(c) PROVE [Ledger!Next]_(Ledger!vars)
    <2>1. KnownInv' /\ Settled \subseteq Settled' /\ UNCHANGED <<produced, agentVars>>
        BY <1>3, KnownPanel
    <2>2. Held' = Held
        BY <2>1 DEF Held
    <2> QED
        BY <2>1, <2>2, LedgerStep
<1>4. CASE \/ \E c \in Conns : Drop(c) \/ WriterStop(c)
           \/ PanelRestart
           \/ \E u \in Users : Reassign(u)
    <2>1. KnownInv' /\ Settled' = Settled
        BY <1>4, KnownWorld
    <2>2. produced' = produced /\ Held' = Held
        BY <1>4, HeldElements DEF Drop, WriterStop, PanelRestart, Reassign
    <2> QED
        BY <2>1, <2>2, LedgerStep
<1>5. CASE AgentRestart
    <2>1. KnownInv' /\ Settled' = Settled
        BY <1>5, KnownWorld
    <2>2. /\ \A d \in Conns : tick[d].got = {}
          /\ Fault("agent") /\ buf' = disk
        BY <1>5, <1>f DEF AgentRestart
    <2>3. buf' = buf
        <3>1. "agent" \in FaultKinds
            BY DEF FaultKinds
        <3>2. NoLossFault
            BY <2>2, <3>1, FaultFacts
        <3> QED
            BY <2>2, <3>2 DEF IInv, BufferInv
    <2>4. produced' = produced /\ Held' = Held
        BY <1>5, <2>2, <2>3, HeldElements DEF AgentRestart, TickerOff
    <2> QED
        BY <2>1, <2>4, LedgerStep
<1>6. CASE UNCHANGED vars
    <2>1. Ledger!vars' = Ledger!vars
        BY <1>6 DEF vars, Ledger!vars, Held, Settled
    <2> QED
        BY <2>1
<1> QED
    BY <1>1, <1>2, <1>3, <1>4, <1>5, <1>6, LedgerAgent DEF Next

\* A step meets one fault at most.
LEMMA FaultStep ==
    ASSUME [Next]_vars
    PROVE  faults' = faults \/ \E k \in FaultKinds : Fault(k)
<1>f. FaultKinds = {"drop", "timeout", "stall", "agent", "midcollect", "wipe",
                    "save", "counters", "panel", "db", "reassign"}
    BY DEF FaultKinds
<1>1. ASSUME NEW b, SetBuf(b) PROVE faults' = faults \/ Fault("save")
    BY <1>1 DEF SetBuf
<1>2. ASSUME NEW c \in Conns, AgentStep(c)
      PROVE  faults' = faults \/ \E k \in FaultKinds : Fault(k)
    BY <1>f, <1>1, <1>2 DEF AgentStep, Dial, ReadCounters, Collect, SendBatch, WriteTimeout,
                            TickerStop, ReadAck, ReadError
<1>3. ASSUME NEW c \in Conns, PanelStep(c)
      PROVE  faults' = faults \/ \E k \in FaultKinds : Fault(k)
    BY <1>f, <1>3 DEF PanelStep, Register, ReadFrame, GetUsers, AddTraffic, SetSeq, SendAck,
                      Disconnect
<1>4. (\E ch \in Chunks : Produce(ch)) => faults' = faults
    BY DEF Produce
<1>5. LoseCounters \/ (\E c \in Conns : Drop(c) \/ WriterStop(c)) \/ AgentRestart \/ PanelRestart
          \/ (\E u \in Users : Reassign(u)) => \E k \in FaultKinds : Fault(k)
    BY <1>f DEF LoseCounters, Drop, WriterStop, AgentRestart, PanelRestart, Reassign
<1>6. UNCHANGED vars => faults' = faults
    BY DEF vars
<1> QED
    BY <1>2, <1>3, <1>4, <1>5, <1>6 DEF Next

\* The protocol starts where the ledger does: nothing produced, owed or settled.
LEMMA LedgerInit == Init => Ledger!Init
BY DEF Init, Ledger!Init, Held, Settled, EmptyBuffer, TickerOff

\* Whatever the budgets, as long as no loss fault happened every step of agent, link and
\* panel is a step of the ledger: it produces traffic, settles traffic that was produced
\* or lets the node forget traffic that is settled.
THEOREM LedgerSteps ==
    Spec => Ledger!Init /\ [][NoLossFault' => [Ledger!Next]_(Ledger!vars)]_vars
<1>1. TypeOK /\ IInv /\ KnownInv /\ [Next]_vars
         => [NoLossFault' => [Ledger!Next]_(Ledger!vars)]_vars
    BY LedgerNext
<1> QED
    BY <1>1, LedgerInit, TypeCorrect, InvCorrect, KnownCorrect, PTL DEF Spec

\* Where the loss faults cannot happen the protocol implements the ledger: pending.go keeps
\* a batch until ingestTraffic has accounted for it, whatever sessions break and whichever
\* side restarts.
THEOREM LedgerCorrect ==
    ASSUME \A k \in LossFaults : Budget[k] = 0
    PROVE  Spec => ImplementsLedger
<1>1. LossFaults \subseteq FaultKinds
    BY DEF LossFaults, FaultKinds
<1>2. Init => NoLossFault
    BY <1>1 DEF Init, NoLossFault
<1>3. TypeOK /\ NoLossFault /\ [Next]_vars => NoLossFault'
    <2> SUFFICES ASSUME TypeOK, NoLossFault, [Next]_vars, NEW j \in LossFaults
                 PROVE  faults'[j] = 0
        BY DEF NoLossFault
    <2>1. j \in FaultKinds /\ faults[j] = 0 /\ ~(faults[j] < Budget[j])
        BY <1>1 DEF NoLossFault
    <2>2. CASE faults' = faults
        BY <2>1, <2>2
    <2>3. ASSUME NEW k \in FaultKinds, Fault(k) PROVE faults'[j] = 0
        <3>1. k # j /\ faults' = [faults EXCEPT ![k] = faults[k] + 1]
            BY <2>1, <2>3 DEF Fault
        <3> QED
            BY <2>1, <3>1 DEF TypeOK
    <2> QED
        BY <2>2, <2>3, FaultStep
<1>4. TypeOK /\ IInv /\ KnownInv /\ NoLossFault' /\ [Next]_vars
         => [Ledger!Next]_(Ledger!vars)
    BY LedgerNext
<1> QED
    BY <1>2, <1>3, <1>4, LedgerInit, TypeCorrect, InvCorrect, KnownCorrect, PTL
       DEF Spec, ImplementsLedger, Ledger!Spec

-----------------------------------------------------------------------------
(* At most once: the inductive invariant *)

Calm == NoLossFault /\ faults["panel"] = 0 /\ overlaps = 0

Applying(c) == reader[c].pc \in {"users", "apply"}

Sorted(s) == \A i, j \in 1..Len(s) : i <= j => s[i].seq <= s[j].seq

\* Only the current session's link works, and one connection at most carries frames.
SessionInv ==
    /\ \A c \in Conns : live[c] => sess = c
    /\ \A c \in Conns : Unfinished(c) => /\ sess # NoConn => sess = c
                                         /\ \A d \in Conns : Unfinished(d) => d = c

\* traffic_seq is the seq of the newest batch or, until that is stored, the one before.
StoredInv ==
    /\ last <= buf.seq /\ buf.seq <= last + 1
    /\ ~buf.flightAt => last = buf.seq
    /\ \A c \in Conns : /\ reader[c].pc = "ack" => reader[c].seq <= last
                        /\ \A a \in Elems(down[c]) : a <= last

\* Frames arrive in the order of their seqs, none older than traffic_seq.
OrderInv == \A c \in Conns : /\ \A f \in Elems(up[c]) : f.seq >= last
                             /\ Sorted(up[c])

\* Only the batch in flight is applied, and what is still to be applied was not counted.
ApplyInv == \A c \in Conns : Applying(c) =>
    /\ reader[c].seq = buf.seq /\ last # buf.seq
    /\ reader[c].todo \subseteq buf.flight
    /\ \A ch \in reader[c].todo : counted[ch] = 0
    /\ \A f \in Elems(up[c]) : f.seq = buf.seq

\* A chunk is in one place of the node only.
ApartInv ==
    /\ \A ch \in xray : ch \notin buf.pend /\ ch \notin buf.flight
    /\ \A ch \in buf.pend : ch \notin buf.flight
    /\ \A c \in Conns : \A ch \in tick[c].got :
          /\ ch \notin xray /\ ch \notin buf.pend /\ ch \notin buf.flight
          /\ \A d \in Conns : ch \in tick[d].got => d = c

\* What the panel has counted left the node's hands, but for the batch in flight, of
\* which it counts what the handler that applies it is through with.
CountInv ==
    /\ Held \subseteq produced
    /\ \A ch \in Chunks : counted[ch] <= 1
    /\ \A ch \in Chunks : counted[ch] > 0 =>
          /\ ch \in produced /\ ch \notin xray /\ ch \notin buf.pend
          /\ \A c \in Conns : ch \notin tick[c].got
          /\ ch \in buf.flight /\ last # buf.seq =>
                \E c \in Conns : reader[c].pc = "apply" /\ ch \notin reader[c].todo

Once == SessionInv /\ StoredInv /\ OrderInv /\ ApplyInv /\ ApartInv /\ CountInv
OnceInv == Calm => Once

-----------------------------------------------------------------------------
(* Channels *)

\* A prefix of a sorted channel is sorted.
LEMMA SortedPrefix ==
    ASSUME NEW s \in Seq(Frame), Sorted(s), NEW n \in 0..Len(s)
    PROVE  Sorted(Prefix(s, n))
<1>1. \A i \in 1..n : s[i] \in Frame
    BY LenProperties
<1>2. /\ Len(SubSeq(s, 1, n)) = IF 1 <= n THEN n - 1 + 1 ELSE 0
      /\ \A i \in 1..(n - 1 + 1) : SubSeq(s, 1, n)[i] = s[1 + i - 1]
    BY <1>1, SubSeqProperties
<1>3. Len(s) \in Nat
    BY LenProperties
<1>4. Len(Prefix(s, n)) = n /\ \A i \in 1..n : Prefix(s, n)[i] = s[i]
    BY <1>2, <1>3 DEF Prefix
<1> QED
    BY <1>3, <1>4 DEF Sorted

\* So is its tail, none of which is older than its head.
LEMMA SortedTail ==
    ASSUME NEW s \in Seq(Frame), s # <<>>, Sorted(s)
    PROVE  Sorted(Tail(s)) /\ \A f \in Elems(Tail(s)) : Head(s).seq <= f.seq
<1>1. /\ Len(Tail(s)) = Len(s) - 1
      /\ \A i \in 1..Len(Tail(s)) : Tail(s)[i] = s[i + 1]
      /\ Len(s) \in Nat /\ Len(s) # 0 /\ Head(s) = s[1]
    BY HeadTailProperties, EmptySeq, LenProperties
<1> QED
    BY <1>1 DEF Sorted, Elems

\* So is a channel that gets a frame no older than those in it.
LEMMA SortedAppend ==
    ASSUME NEW s \in Seq(Frame), Sorted(s), NEW e \in Frame,
           \A f \in Elems(s) : f.seq <= e.seq
    PROVE  Sorted(Append(s, e))
<1>1. /\ Len(Append(s, e)) = Len(s) + 1
      /\ \A i \in 1..Len(s) : Append(s, e)[i] = s[i]
      /\ Append(s, e)[Len(s) + 1] = e
      /\ Len(s) \in Nat
    BY AppendProperties, LenProperties
<1>2. \A i \in 1..Len(s) : s[i].seq <= e.seq
    BY DEF Elems
<1>3. e.seq <= e.seq
    BY DEF Frame
<1> QED
    BY <1>1, <1>2, <1>3 DEF Sorted

\* What a link loses, it loses from the end.
LEMMA LoseTail ==
    ASSUME NEW s \in Seq(Frame), NEW n \in 0..Len(s), Sorted(s)
    PROVE  /\ Elems(Prefix(s, n)) \subseteq Elems(s) /\ Sorted(Prefix(s, n))
           /\ Prefix(s, n) # <<>> => s # <<>>
<1>1. Prefix(s, n) # <<>> => s # <<>>
    <2> SUFFICES ASSUME s = <<>> PROVE Prefix(s, n) = <<>>
        OBVIOUS
    <2>1. n = 0
        BY EmptySeq
    <2> QED
        BY <2>1 DEF Prefix
<1> QED
    BY <1>1, PrefixFacts, SortedPrefix

-----------------------------------------------------------------------------
(* Faults *)

\* A fault in a calm run is none of those that end the calm.
LEMMA CalmFault ==
    ASSUME TypeOK, NEW k \in FaultKinds, Fault(k), Calm', overlaps' = overlaps
    PROVE  Calm /\ k \notin LossFaults /\ k # "panel"
<1>1. /\ faults' = [faults EXCEPT ![k] = faults[k] + 1] /\ faults \in [FaultKinds -> Nat]
      /\ "panel" \in FaultKinds
    BY DEF Fault, TypeOK, FaultKinds
<1>2. k # "panel" /\ faults["panel"] = 0
    BY <1>1 DEF Calm
<1> QED
    BY <1>2, FaultFacts DEF Calm

\* A step without a fault leaves the run as calm as it was.
LEMMA CalmSame ==
    ASSUME Calm', UNCHANGED faults, overlaps' = overlaps \/ overlaps = 0
    PROVE  Calm
BY DEF Calm, NoLossFault

\* In a calm run the buffer that is saved is the one in memory.
LEMMA CalmSetBuf ==
    ASSUME TypeOK, IInv, NEW b, SetBuf(b), Calm', overlaps' = overlaps \/ overlaps = 0
    PROVE  Calm /\ buf' = b
<1>1. buf' = b /\ NoLossFault
    BY SetBufFacts DEF Calm, IInv
<1>2. "save" \in FaultKinds /\ "save" \in LossFaults
    BY DEF FaultKinds, LossFaults
<1>3. ~Fault("save")
    BY <1>2, FaultFacts DEF Calm
<1>4. UNCHANGED faults
    BY <1>3 DEF SetBuf
<1> QED
    BY <1>1, <1>4, CalmSame

-----------------------------------------------------------------------------
(* Steps that move nothing forward *)

\* Links break and lose frames, sessions end, handlers and tickers stop.
LEMMA QuietOnce ==
    ASSUME Once,
           \A d \in Conns : /\ Elems(up'[d]) \subseteq Elems(up[d])
                            /\ up'[d] # <<>> => up[d] # <<>>
                            /\ Sorted(up'[d])
                            /\ Elems(down'[d]) \subseteq Elems(down[d])
                            /\ live'[d] => live[d]
                            /\ tick'[d].got = tick[d].got,
           \A d \in Conns : \/ reader'[d] = reader[d]
                            \/ /\ reader'[d].pc \notin {"users", "apply", "ack"}
                               /\ reader[d].pc # "apply",
           UNCHANGED <<last, buf, counted, produced, xray>>,
           sess' = sess \/ (sess' = NoConn /\ \A d \in Conns : ~live'[d])
    PROVE  Once'
<1> USE DEF Once
<1>1. \A d \in Conns : Unfinished(d)' => Unfinished(d)
    BY DEF Unfinished
<1>2. SessionInv'
    BY <1>1 DEF SessionInv
<1>3. StoredInv'
    BY DEF StoredInv
<1>4. OrderInv'
    BY DEF OrderInv
<1>5. ApplyInv'
    BY DEF ApplyInv, Applying
<1>6. ApartInv'
    BY DEF ApartInv
<1>7. CountInv'
    <2>1. Held' = Held
        BY DEF Held
    <2> QED
        BY <2>1 DEF CountInv
<1> QED
    BY <1>2, <1>3, <1>4, <1>5, <1>6, <1>7

-----------------------------------------------------------------------------
(* Steps of Xray and the agent *)

\* New traffic is in no other place and was never counted.
LEMMA ProduceOnce ==
    ASSUME TypeOK, Once, NEW ch \in Chunks, Produce(ch)
    PROVE  Once'
<1> USE DEF Once
<1>1. /\ ch \notin produced /\ produced' = produced \cup {ch} /\ xray' = xray \cup {ch}
      /\ UNCHANGED <<buf, tick, sess, live, up, down, reader, last, counted>>
    BY DEF Produce, netVars, panelVars, dbVars
<1>2. /\ ch \notin buf.pend /\ ch \notin buf.flight
      /\ \A c \in Conns : ch \notin tick[c].got
    BY <1>1, HeldElements DEF CountInv
<1>3. ~(counted[ch] > 0)
    BY <1>1 DEF CountInv
<1>4. SessionInv' /\ StoredInv' /\ OrderInv' /\ ApplyInv'
    BY <1>1 DEF SessionInv, StoredInv, OrderInv, ApplyInv, Applying, Unfinished
<1>5. ApartInv'
    BY <1>1, <1>2 DEF ApartInv
<1>6. Held' \subseteq produced'
    BY <1>1, HeldElements DEF CountInv
<1>7. CountInv'
    BY <1>1, <1>3, <1>6 DEF CountInv
<1> QED
    BY <1>4, <1>5, <1>7

\* The delta moves from Xray to the hand of the ticker.
LEMMA ReadCountersOnce ==
    ASSUME TypeOK, Once, NEW c \in Conns, ReadCounters(c)
    PROVE  Once'
<1> USE DEF Once
<1>1. /\ xray' = {} /\ tick'[c].got = xray /\ tick[c].got = {}
      /\ \A d \in Conns \ {c} : tick'[d] = tick[d]
      /\ UNCHANGED <<produced, buf, sess, live, up, down, reader, last, counted>>
    BY DEF ReadCounters, netVars, panelVars, dbVars, TypeOK, Ticker
<1>2. SessionInv' /\ StoredInv' /\ OrderInv' /\ ApplyInv'
    BY <1>1 DEF SessionInv, StoredInv, OrderInv, ApplyInv, Applying, Unfinished
<1>3. ApartInv'
    <2>1. ASSUME NEW d \in Conns, NEW ch \in tick'[d].got
          PROVE  /\ ch \notin xray' /\ ch \notin buf'.pend /\ ch \notin buf'.flight
                 /\ \A e \in Conns : ch \in tick'[e].got => e = d
        <3>1. CASE d = c
            BY <1>1, <2>1, <3>1 DEF ApartInv
        <3>2. CASE d # c
            BY <1>1, <2>1, <3>2 DEF ApartInv
        <3> QED
            BY <3>1, <3>2
    <2> QED
        BY <1>1, <2>1 DEF ApartInv
<1>4. Held' \subseteq produced'
    BY <1>1, HeldElements DEF CountInv
<1>5. CountInv'
    BY <1>1, <1>4 DEF CountInv
<1> QED
    BY <1>2, <1>3, <1>5

\* It moves on from there into the buffer's pend.
LEMMA CollectOnce ==
    ASSUME TypeOK, Once, NEW c \in Conns, Collect(c), buf' = Collected(buf, tick[c].got)
    PROVE  Once'
<1> USE DEF Once
<1>1. /\ tick'[c].got = {} /\ \A d \in Conns \ {c} : tick'[d] = tick[d]
      /\ UNCHANGED <<produced, xray, sess, live, up, down, reader, last, counted>>
    BY DEF Collect, netVars, panelVars, dbVars, TypeOK
<1>2. /\ buf'.seq = buf.seq /\ buf'.flight = buf.flight /\ buf'.flightAt = buf.flightAt
      /\ buf'.pend = buf.pend \cup tick[c].got
    BY DEF Collected, TypeOK, Buffer
<1>3. SessionInv' /\ StoredInv' /\ OrderInv' /\ ApplyInv'
    BY <1>1, <1>2 DEF SessionInv, StoredInv, OrderInv, ApplyInv, Applying, Unfinished
<1>4. ApartInv'
    BY <1>1, <1>2 DEF ApartInv
<1>5. Held' \subseteq produced'
    BY <1>1, <1>2, HeldElements DEF CountInv
<1>6. CountInv'
    BY <1>1, <1>2, <1>5 DEF CountInv
<1> QED
    BY <1>3, <1>4, <1>6

\* Promoting pend under a new seq: the batch before is stored, so no handler is busy.
LEMMA BatchOnce ==
    ASSUME TypeOK, Once, BufferInv, buf' = Batched(buf),
           UNCHANGED <<last, counted, xray, produced>>,
           \A d \in Conns : /\ tick'[d].got = tick[d].got
                            /\ reader[d].pc \in {"users", "apply", "ack"}
                                \/ reader'[d].pc \in {"users", "apply", "ack"}
                                   => reader'[d] = reader[d]
                            /\ Elems(down'[d]) \subseteq Elems(down[d])
    PROVE  /\ StoredInv' /\ ApartInv' /\ CountInv'
           /\ buf'.seq \in Nat /\ buf'.seq >= last /\ buf'.seq >= buf.seq
           /\ \A d \in Conns : Applying(d) => buf' = buf
<1> USE DEF Once
<1>1. last \in Nat /\ buf.seq \in Nat
    BY DEF TypeOK, Buffer
<1>2. CASE ~buf.flightAt /\ buf.pend # {}
    <2>1. /\ buf'.seq = buf.seq + 1 /\ buf'.flight = buf.pend
          /\ buf'.flightAt = TRUE /\ buf'.pend = {}
        BY <1>2 DEF Batched
    <2>2. last = buf.seq /\ \A d \in Conns : ~Applying(d)
        BY <1>2 DEF StoredInv, ApplyInv
    <2>3. StoredInv'
        <3>1. \A d \in Conns : /\ reader'[d].pc = "ack" => reader'[d].seq <= last
                               /\ \A a \in Elems(down'[d]) : a <= last
            BY DEF StoredInv
        <3> QED
            BY <1>1, <2>1, <2>2, <3>1 DEF StoredInv
    <2>4. ApartInv'
        BY <1>2, <2>1 DEF ApartInv, BufferInv
    <2>5. Held' \subseteq produced'
        BY <2>1, HeldElements DEF CountInv
    <2>6. CountInv'
        BY <2>1, <2>5 DEF CountInv
    <2> QED
        BY <1>1, <2>1, <2>2, <2>3, <2>4, <2>6
<1>3. CASE ~(~buf.flightAt /\ buf.pend # {})
    <2>1. buf' = buf
        BY <1>3 DEF Batched
    <2>2. StoredInv'
        BY <2>1 DEF StoredInv
    <2>3. ApartInv'
        BY <2>1 DEF ApartInv
    <2>4. Held' \subseteq produced'
        BY <2>1, HeldElements DEF CountInv
    <2>5. CountInv'
        BY <2>1, <2>4 DEF CountInv
    <2> QED
        BY <1>1, <2>1, <2>2, <2>3, <2>5 DEF StoredInv
<1> QED
    BY <1>2, <1>3

\* A session that is dialled when no handler is busy carries the only frames.
LEMMA DialOnce ==
    ASSUME TypeOK, Once, BufferInv, NEW c \in Conns, Dial(c), buf' = Batched(buf), Calm'
    PROVE  Once'
<1> USE DEF Once
<1>1. /\ sess = NoConn /\ sess' = c /\ reader[c].pc = "none" /\ tick[c].pc = "off"
      /\ live' = [live EXCEPT ![c] = TRUE] /\ down' = [down EXCEPT ![c] = <<>>]
      /\ up' = [up EXCEPT ![c] = Flush(Batched(buf))]
      /\ tick' = [tick EXCEPT ![c] = TickerIdle]
      /\ reader' = [reader EXCEPT ![c] = [pc |-> "reg", seq |-> 0, todo |-> {}]]
      /\ UNCHANGED <<produced, xray, last, counted>>
    BY DEF Dial, dbVars
<1>2. \A o \in Conns : ~Unfinished(o)
    <2> SUFFICES ASSUME \E o \in Conns : Unfinished(o) PROVE FALSE
        OBVIOUS
    <2>1. overlaps' = overlaps + 1
        BY DEF Dial
    <2> QED
        BY <2>1 DEF Calm, TypeOK
<1>3. /\ reader'[c].pc = "reg" /\ live'[c] /\ down'[c] = <<>>
      /\ up'[c] = Flush(buf') /\ tick'[c].got = {} /\ tick[c].got = {}
      /\ \A d \in Conns \ {c} : /\ reader'[d] = reader[d] /\ live'[d] = live[d]
                                /\ up'[d] = up[d] /\ down'[d] = down[d] /\ tick'[d] = tick[d]
    BY <1>1 DEF TypeOK, Ticker, TickerIdle
<1>4. Elems(<<>>) = {}
    BY DEF Elems
<1>5. /\ \A d \in Conns : /\ tick'[d].got = tick[d].got
                          /\ Elems(down'[d]) \subseteq Elems(down[d])
      /\ \A d \in Conns : reader[d].pc \in {"users", "apply", "ack"}
                          \/ reader'[d].pc \in {"users", "apply", "ack"}
                             => reader'[d] = reader[d]
    BY <1>1, <1>3, <1>4
<1>6. /\ StoredInv' /\ ApartInv' /\ CountInv'
      /\ buf'.seq \in Nat /\ buf'.seq >= last /\ buf'.seq >= buf.seq
    BY <1>1, <1>5, BatchOnce
<1>7. SessionInv'
    <2>1. \A d \in Conns : Unfinished(d)' => d = c
        BY <1>2, <1>3 DEF Unfinished
    <2>2. \A d \in Conns : live'[d] => d = c
        BY <1>1, <1>3, ConstAssumption DEF SessionInv
    <2> QED
        BY <1>1, <2>1, <2>2 DEF SessionInv
<1>8. OrderInv'
    <2>1. \A f \in Elems(up'[c]) : f.seq = buf'.seq
        BY <1>3, <1>4 DEF Flush, BatchFrame, Elems
    <2>2. \A i \in 1..Len(up'[c]) : up'[c][i] \in Elems(up'[c])
        BY DEF Elems
    <2>3. Sorted(up'[c])
        BY <1>6, <2>1, <2>2 DEF Sorted
    <2> QED
        BY <1>1, <1>3, <1>6, <2>1, <2>3 DEF OrderInv
<1>9. ApplyInv'
    BY <1>2, <1>3 DEF ApplyInv, Applying, Unfinished
<1> QED
    BY <1>6, <1>7, <1>8, <1>9

\* A batch that is sent is the newest, or repeats it.
LEMMA SendBatchOnce ==
    ASSUME TypeOK, Once, BufferInv, FrameInv, NEW c \in Conns, SendBatch(c),
           buf' = Batched(buf) \/ (UNCHANGED <<buf, up>> /\ Batched(buf).flight = {})
    PROVE  Once'
<1> USE DEF Once
<1>1. /\ tick[c].pc = "send"
      /\ UNCHANGED <<produced, xray, sess, live, down, reader, last, counted>>
      /\ \A d \in Conns : tick'[d].got = tick[d].got
    <2>1. /\ tick[c].pc = "send" /\ tick' \in {[tick EXCEPT ![c] = TickerIdle],
                                                 [tick EXCEPT ![c] = TickerOff]}
          /\ UNCHANGED <<produced, xray, sess, live, down, reader, last, counted>>
        BY DEF SendBatch, panelVars, dbVars
    <2>2. TickerIdle.got = {} /\ TickerOff.got = {} /\ tick[c].got = {}
        BY <2>1 DEF TypeOK, Ticker, TickerIdle, TickerOff
    <2> QED
        BY <2>1, <2>2 DEF TypeOK
<1>2. CASE UNCHANGED <<buf, up>>
    BY <1>1, <1>2, QuietOnce DEF OrderInv
<1>3. CASE buf' = Batched(buf)
    <2>1. /\ StoredInv' /\ ApartInv' /\ CountInv'
          /\ buf'.seq \in Nat /\ buf'.seq >= last /\ buf'.seq >= buf.seq
          /\ \A d \in Conns : Applying(d) => buf' = buf
        BY <1>1, <1>3, BatchOnce
    <2>2. CASE UNCHANGED up
        <3>1. SessionInv' /\ OrderInv'
            BY <1>1, <2>2 DEF SessionInv, OrderInv, Unfinished
        <3>2. ApplyInv'
            BY <1>1, <2>1, <2>2 DEF ApplyInv, Applying
        <3> QED
            BY <2>1, <3>1, <3>2
    <2>3. CASE live[c] /\ up' = [up EXCEPT ![c] = Append(up[c], BatchFrame(buf'))]
        <3>1. /\ sess = c /\ up'[c] = Append(up[c], BatchFrame(buf'))
              /\ \A d \in Conns \ {c} : up'[d] = up[d]
              /\ up[c] \in Seq(Frame) /\ BatchFrame(buf') \in Frame
              /\ BatchFrame(buf').seq = buf'.seq
            <4>1. buf' \in Buffer
                BY <1>3, BufferOps DEF TypeOK
            <4> QED
                BY <2>3, <4>1 DEF SessionInv, TypeOK, BatchFrame, Frame, Buffer
        <3>2. Elems(up'[c]) = Elems(up[c]) \cup {BatchFrame(buf')}
            BY <3>1, AppendFacts
        <3>3. SessionInv'
            <4>1. \A d \in Conns : Unfinished(d)' => d = c
                BY <1>1, <3>1, ConstAssumption DEF SessionInv, Unfinished
            <4> QED
                BY <1>1, <3>1, <4>1 DEF SessionInv
        <3>4. \A f \in Elems(up[c]) : f \in Frame /\ f.seq <= buf.seq
            BY <3>1, LenProperties, ElementOfSeq DEF FrameInv, FrameOK, Elems
        <3>5. \A f \in Elems(up[c]) : f.seq <= BatchFrame(buf').seq
            BY <2>1, <3>1, <3>4 DEF Frame, TypeOK, Buffer
        <3>6. Sorted(up'[c])
            BY <3>1, <3>5, SortedAppend DEF OrderInv
        <3>7. OrderInv'
            BY <1>1, <2>1, <3>1, <3>2, <3>6 DEF OrderInv
        <3>8. ApplyInv'
            BY <1>1, <2>1, <3>1, <3>2 DEF ApplyInv, Applying
        <3> QED
            BY <2>1, <3>3, <3>7, <3>8
    <2> QED
        BY <1>1, <1>2, <2>2, <2>3 DEF SendBatch
<1> QED
    BY <1>2, <1>3

\* An ack of the batch in flight comes after that batch was stored.
LEMMA ReadAckOnce ==
    ASSUME TypeOK, Once, NEW c \in Conns, ReadAck(c), buf' = Acked(buf, Head(down[c]))
    PROVE  Once'
<1> USE DEF Once
<1>1. /\ down[c] # <<>> /\ down'[c] = Tail(down[c])
      /\ \A d \in Conns \ {c} : down'[d] = down[d]
      /\ UNCHANGED <<produced, xray, tick, sess, live, up, reader, last, counted>>
      /\ down[c] \in Seq(Nat)
    BY DEF ReadAck, panelVars, dbVars, TypeOK
<1>2. /\ Head(down[c]) <= last /\ Head(down[c]) \in Nat
      /\ \A d \in Conns : Elems(down'[d]) \subseteq Elems(down[d])
    BY <1>1, TailFacts DEF StoredInv
<1>3. CASE buf.flightAt /\ Head(down[c]) = buf.seq
    <2>1. /\ buf'.seq = buf.seq /\ buf'.flight = {}
          /\ buf'.flightAt = FALSE /\ buf'.pend = buf.pend
        BY <1>3 DEF Acked, TypeOK, Buffer
    <2>2. last = buf.seq
        BY <1>2, <1>3 DEF StoredInv, TypeOK, Buffer
    <2>3. SessionInv' /\ OrderInv'
        BY <1>1 DEF SessionInv, OrderInv, Unfinished
    <2>4. StoredInv'
        BY <1>1, <1>2, <2>1, <2>2 DEF StoredInv, TypeOK, Buffer
    <2>5. ApplyInv'
        BY <1>1, <2>2 DEF ApplyInv, Applying
    <2>6. ApartInv'
        BY <1>1, <2>1 DEF ApartInv
    <2>7. Held' \subseteq produced'
        BY <1>1, <2>1, HeldElements DEF CountInv
    <2>8. CountInv'
        BY <1>1, <2>1, <2>7 DEF CountInv
    <2> QED
        BY <2>3, <2>4, <2>5, <2>6, <2>8
<1>4. CASE ~(buf.flightAt /\ Head(down[c]) = buf.seq)
    <2>1. buf' = buf
        BY <1>4 DEF Acked
    <2> QED
        BY <1>1, <1>2, <2>1, QuietOnce DEF OrderInv
<1> QED
    BY <1>3, <1>4

-----------------------------------------------------------------------------
(* Steps of the panel *)

\* A frame that is taken to be applied is the batch in flight, not yet stored or counted.
LEMMA ReadFrameOnce ==
    ASSUME TypeOK, Once, FrameInv, NEW c \in Conns, ReadFrame(c), ~Fault("db")
    PROVE  Once'
<1> USE DEF Once
<1> DEFINE f == Head(up[c])
<1>1. /\ reader[c].pc = "idle" /\ up[c] # <<>> /\ up'[c] = Tail(up[c])
      /\ \A d \in Conns \ {c} : up'[d] = up[d] /\ reader'[d] = reader[d]
      /\ UNCHANGED <<produced, xray, buf, tick, sess, live, down, last, counted>>
      /\ up[c] \in Seq(Frame)
    BY DEF ReadFrame, agentVars, dbVars, TypeOK
<1>2. /\ f \in Frame /\ f \in Elems(up[c]) /\ Elems(Tail(up[c])) \subseteq Elems(up[c])
      /\ Sorted(Tail(up[c])) /\ \A g \in Elems(Tail(up[c])) : f.seq <= g.seq
    BY <1>1, TailFacts, SortedTail DEF OrderInv
<1>3. \A d \in Conns : Unfinished(d) => d = c
    BY <1>1 DEF SessionInv, Unfinished
<1>4. /\ StoredInv' \/ reader'[c].pc = "ack"
      /\ OrderInv' /\ ApartInv'
    <2>1. OrderInv'
        BY <1>1, <1>2 DEF OrderInv
    <2>2. ApartInv'
        BY <1>1 DEF ApartInv
    <2>3. StoredInv' \/ reader'[c].pc = "ack"
        BY <1>1 DEF StoredInv
    <2> QED
        BY <2>1, <2>2, <2>3
<1>5. SessionInv'
    <2>1. \A d \in Conns : Unfinished(d)' => Unfinished(d)
        BY <1>1, <1>3 DEF Unfinished
    <2> QED
        BY <1>1, <2>1 DEF SessionInv
<1>6. \A d \in Conns : Applying(d)' => d = c /\ reader'[c].pc # "ack"
    BY <1>1, <1>3 DEF Applying, Unfinished
<1>7. reader'[c].pc # "apply" => CountInv'
    <2> SUFFICES ASSUME reader'[c].pc # "apply" PROVE CountInv'
        OBVIOUS
    <2>1. Held' = Held
        BY <1>1 DEF Held
    <2>2. \A d \in Conns : reader[d].pc = "apply" => reader'[d] = reader[d]
        BY <1>1
    <2> QED
        BY <1>1, <2>1, <2>2 DEF CountInv
<1>8. CASE f.seq = last /\ reader' = [reader EXCEPT ![c] = [pc |-> "ack", seq |-> f.seq, todo |-> {}]]
    <2>1. reader'[c].pc = "ack" /\ reader'[c].seq = last
        BY <1>8 DEF TypeOK
    <2>2. StoredInv'
        <3>1. ASSUME NEW d \in Conns
              PROVE  /\ reader'[d].pc = "ack" => reader'[d].seq <= last
                     /\ \A a \in Elems(down[d]) : a <= last
            <4>1. CASE d = c
                BY <2>1, <4>1 DEF StoredInv, TypeOK
            <4>2. CASE d # c
                BY <1>1, <4>2 DEF StoredInv
            <4> QED
                BY <4>1, <4>2
        <3>2. last <= buf.seq /\ buf.seq <= last + 1 /\ (~buf.flightAt => last = buf.seq)
            BY DEF StoredInv
        <3> QED
            BY <1>1, <3>1, <3>2 DEF StoredInv
    <2>3. ApplyInv'
        BY <1>6, <2>1 DEF ApplyInv
    <2> QED
        BY <1>4, <1>5, <1>7, <2>1, <2>2, <2>3
<1>9. CASE f.seq # last
           /\ reader' = [reader EXCEPT ![c] = [pc |-> "users", seq |-> f.seq, todo |-> f.items]]
    <2>1. reader'[c].pc = "users" /\ reader'[c].seq = f.seq /\ reader'[c].todo = f.items
        BY <1>9 DEF TypeOK
    <2>2. f.seq = buf.seq /\ last # buf.seq /\ buf.flightAt /\ f.items = buf.flight
        <3>1. f.seq >= last /\ FrameOK(f)
            BY <1>2 DEF OrderInv, FrameInv
        <3>2. f.seq \in Nat /\ last \in Nat /\ buf.seq \in Nat
            BY <1>2 DEF Frame, TypeOK, Buffer
        <3>3. f.seq = buf.seq /\ last # buf.seq
            BY <1>9, <3>1, <3>2 DEF StoredInv, FrameOK
        <3> QED
            BY <3>1, <3>3 DEF StoredInv, FrameOK
    <2>3. \A ch \in f.items : counted[ch] = 0
        <3>1. \A ch \in f.items : ch \in Chunks /\ counted[ch] \in Nat
            BY <1>2 DEF Frame, TypeOK
        <3>2. \A d \in Conns : reader[d].pc # "apply"
            BY <1>1, <1>3 DEF Unfinished
        <3>3. \A ch \in f.items : ~(counted[ch] > 0)
            BY <2>2, <3>1, <3>2 DEF CountInv
        <3> QED
            BY <3>1, <3>3
    <2>4. \A g \in Elems(Tail(up[c])) : g.seq = buf.seq
        <3>1. \A g \in Elems(Tail(up[c])) : g \in Elems(up[c]) /\ g \in Frame
            BY <1>1, <1>2, LenProperties, ElementOfSeq DEF Elems
        <3>2. \A g \in Elems(Tail(up[c])) : g.seq <= buf.seq /\ buf.seq <= g.seq
            BY <1>2, <2>2, <3>1 DEF FrameInv, FrameOK
        <3> QED
            BY <3>1, <3>2 DEF Frame, TypeOK, Buffer
    <2>5. ApplyInv'
        BY <1>1, <1>6, <2>1, <2>2, <2>3, <2>4 DEF ApplyInv
    <2> QED
        BY <1>4, <1>5, <1>7, <2>1, <2>5
<1> QED
    BY <1>8, <1>9 DEF ReadFrame

\* The handler drops the items it is to ignore.
LEMMA GetUsersOnce ==
    ASSUME TypeOK, Once, NEW c \in Conns, GetUsers(c), ~Fault("db")
    PROVE  Once'
<1> USE DEF Once
<1>1. /\ reader[c].pc = "users" /\ reader'[c].pc = "apply" /\ reader'[c].seq = reader[c].seq
      /\ reader'[c].todo \subseteq reader[c].todo
      /\ \A d \in Conns \ {c} : reader'[d] = reader[d]
      /\ UNCHANGED <<produced, xray, buf, tick, sess, live, up, down, last, counted>>
    BY DEF GetUsers, Goto, agentVars, netVars, TypeOK
<1>2. \A d \in Conns : (Unfinished(d)' <=> Unfinished(d)) /\ (Applying(d)' <=> Applying(d))
    BY <1>1 DEF Unfinished, Applying
<1>3. SessionInv'
    BY <1>1, <1>2 DEF SessionInv
<1>4. StoredInv' /\ OrderInv' /\ ApartInv'
    BY <1>1 DEF StoredInv, OrderInv, ApartInv
<1>5. ApplyInv'
    BY <1>1, <1>2 DEF ApplyInv
<1>6. CountInv'
    <2>1. Held' = Held
        BY <1>1 DEF Held
    <2>2. \A d \in Conns : reader[d].pc = "apply" => reader'[d] = reader[d]
        BY <1>1
    <2> QED
        BY <1>1, <2>1, <2>2 DEF CountInv
<1> QED
    BY <1>3, <1>4, <1>5, <1>6

\* An item is counted and leaves what is still to be applied.
LEMMA AddTrafficOnce ==
    ASSUME TypeOK, Once, NEW c \in Conns, NEW u \in Users, AddTraffic(c, u), ~Fault("db")
    PROVE  Once'
<1> USE DEF Once
<1> DEFINE item == ItemOf(u, reader[c].todo)
<1>1. /\ reader[c].pc = "apply" /\ reader'[c].pc = "apply" /\ reader'[c].seq = reader[c].seq
      /\ reader'[c].todo = reader[c].todo \ item
      /\ \A d \in Conns \ {c} : reader'[d] = reader[d]
      /\ counted' = [ch \in Chunks |-> IF ch \in item THEN counted[ch] + 1 ELSE counted[ch]]
      /\ UNCHANGED <<produced, xray, buf, tick, sess, live, up, down, last>>
    BY DEF AddTraffic, Goto, agentVars, netVars, TypeOK
<1>2. item \subseteq reader[c].todo
    BY DEF ItemOf
<1>3. \A d \in Conns : (Unfinished(d)' <=> Unfinished(d)) /\ (Applying(d)' <=> Applying(d))
    BY <1>1 DEF Unfinished, Applying
<1>4. \A d \in Conns : Applying(d) => d = c
    BY <1>1 DEF SessionInv, Unfinished, Applying
<1>5. /\ reader[c].todo \subseteq buf.flight
      /\ \A ch \in reader[c].todo : counted[ch] = 0
      /\ reader[c].seq = buf.seq /\ last # buf.seq
      /\ \A g \in Elems(up[c]) : g.seq = buf.seq
    BY <1>1 DEF ApplyInv, Applying
<1>6. \A ch \in Chunks : counted'[ch] = IF ch \in item THEN 1 ELSE counted[ch]
    BY <1>1, <1>2, <1>5
<1>7. SessionInv'
    BY <1>1, <1>3 DEF SessionInv
<1>8. StoredInv' /\ OrderInv' /\ ApartInv'
    BY <1>1 DEF StoredInv, OrderInv, ApartInv
<1>9. ApplyInv'
    <2>1. reader[c].todo \subseteq Chunks
        BY DEF TypeOK, Reader
    <2> HIDE DEF item
    <2>2. \A ch \in reader'[c].todo : counted'[ch] = 0
        BY <1>1, <1>5, <1>6, <2>1
    <2> QED
        BY <1>1, <1>3, <1>4, <1>5, <2>2 DEF ApplyInv
<1>10. CountInv'
    <2> HIDE DEF item
    <2>1. Held' = Held /\ Held \subseteq produced
        BY <1>1 DEF Held, CountInv
    <2>2. ASSUME NEW ch \in Chunks, ch \in item
          PROVE  /\ ch \in produced /\ ch \notin xray /\ ch \notin buf.pend
                 /\ \A d \in Conns : ch \notin tick[d].got
                 /\ reader'[c].pc = "apply" /\ ch \notin reader'[c].todo
        <3>1. ch \in buf.flight
            BY <1>2, <1>5, <2>2
        <3> QED
            BY <1>1, <2>1, <2>2, <3>1, HeldElements DEF ApartInv
    <2>3. ASSUME NEW ch \in Chunks, ch \notin item, counted[ch] > 0
          PROVE  /\ ch \in produced /\ ch \notin xray /\ ch \notin buf.pend
                 /\ \A d \in Conns : ch \notin tick[d].got
                 /\ ch \in buf.flight /\ last # buf.seq =>
                      \E d \in Conns : reader'[d].pc = "apply" /\ ch \notin reader'[d].todo
        <3>1. ASSUME NEW d \in Conns, reader[d].pc = "apply", ch \notin reader[d].todo
              PROVE  reader'[d].pc = "apply" /\ ch \notin reader'[d].todo
            BY <1>1, <3>1
        <3> QED
            BY <2>3, <3>1 DEF CountInv
    <2>4. \A ch \in Chunks : counted'[ch] <= 1
        BY <1>6 DEF CountInv
    <2> QED
        BY <1>1, <1>6, <2>1, <2>2, <2>3, <2>4 DEF CountInv
<1> QED
    BY <1>7, <1>8, <1>9, <1>10

\* The batch is stored when all of it was applied.
LEMMA SetSeqOnce ==
    ASSUME TypeOK, Once, NEW c \in Conns, SetSeq(c), ~Fault("db")
    PROVE  Once'
<1> USE DEF Once
<1>1. /\ reader[c].pc = "apply" /\ reader'[c].pc = "ack" /\ reader'[c].seq = reader[c].seq
      /\ last' = reader[c].seq
      /\ \A d \in Conns \ {c} : reader'[d] = reader[d]
      /\ UNCHANGED <<produced, xray, buf, tick, sess, live, up, down, counted>>
    BY DEF SetSeq, Goto, agentVars, netVars, TypeOK
<1>2. last' = buf.seq /\ \A g \in Elems(up[c]) : g.seq = buf.seq
    BY <1>1 DEF ApplyInv, Applying
<1>3. \A d \in Conns : Unfinished(d) => d = c
    BY <1>1 DEF SessionInv, Unfinished
<1>4. \A d \in Conns : ~Applying(d)' /\ (Unfinished(d)' => Unfinished(d))
    BY <1>1, <1>3 DEF Unfinished, Applying
<1>5. last \in Nat /\ buf.seq \in Nat /\ last <= buf.seq
    BY DEF TypeOK, Buffer, StoredInv
<1>6. SessionInv'
    BY <1>1, <1>4 DEF SessionInv
<1>7. StoredInv'
    <2>1. \A d \in Conns : \A a \in Elems(down[d]) : a <= buf.seq
        <3>1. \A d \in Conns : Elems(down[d]) \subseteq Nat
            BY LenProperties, ElementOfSeq DEF Elems, TypeOK
        <3> QED
            BY <1>5, <3>1 DEF StoredInv
    <2>2. \A d \in Conns : reader'[d].pc = "ack" => reader'[d].seq <= buf.seq
        <3>1. \A d \in Conns : reader[d].seq \in Nat
            BY DEF TypeOK, Reader
        <3> QED
            BY <1>1, <1>2, <1>5, <3>1 DEF StoredInv
    <2> QED
        BY <1>1, <1>2, <1>5, <2>1, <2>2 DEF StoredInv
<1>8. OrderInv'
    <2>1. \A d \in Conns \ {c} : Elems(up[d]) = {}
        <3>1. \A d \in Conns \ {c} : up[d] = <<>>
            BY <1>3 DEF Unfinished
        <3> QED
            BY <3>1 DEF Elems
    <2> QED
        BY <1>1, <1>2, <1>5, <2>1 DEF OrderInv
<1>9. ApplyInv' /\ ApartInv'
    BY <1>1, <1>4 DEF ApplyInv, ApartInv
<1>10. CountInv'
    <2>1. Held' = Held
        BY <1>1 DEF Held
    <2> QED
        BY <1>1, <1>2, <2>1 DEF CountInv
<1> QED
    BY <1>6, <1>7, <1>8, <1>9, <1>10

\* What is acked is stored, or older.
LEMMA SendAckOnce ==
    ASSUME TypeOK, Once, NEW c \in Conns, SendAck(c)
    PROVE  Once'
<1> USE DEF Once
<1>1. /\ reader[c].pc = "ack" /\ reader'[c].pc = "idle"
      /\ \A d \in Conns \ {c} : reader'[d] = reader[d] /\ down'[d] = down[d]
      /\ down'[c] = down[c] \/ down'[c] = Append(down[c], reader[c].seq)
      /\ UNCHANGED <<produced, xray, buf, tick, sess, live, up, last, counted>>
      /\ down[c] \in Seq(Nat) /\ reader[c].seq \in Nat
    BY DEF SendAck, agentVars, dbVars, TypeOK, Reader
<1>2. Elems(down'[c]) \subseteq Elems(down[c]) \cup {reader[c].seq}
    <2>1. Elems(Append(down[c], reader[c].seq)) = Elems(down[c]) \cup {reader[c].seq}
        BY <1>1, AppendFacts
    <2>2. CASE down'[c] = down[c]
        BY <2>2
    <2>3. CASE down'[c] = Append(down[c], reader[c].seq)
        BY <2>1, <2>3
    <2> QED
        BY <1>1, <2>2, <2>3
<1>3. StoredInv'
    BY <1>1, <1>2 DEF StoredInv
<1>4. \A d \in Conns : (Unfinished(d)' <=> Unfinished(d)) /\ (Applying(d)' <=> Applying(d))
    BY <1>1 DEF Unfinished, Applying
<1>5. SessionInv' /\ OrderInv' /\ ApartInv'
    BY <1>1, <1>4 DEF SessionInv, OrderInv, ApartInv
<1>6. ApplyInv'
    BY <1>1, <1>4 DEF ApplyInv, Applying
<1>7. CountInv'
    <2>1. Held' = Held
        BY <1>1 DEF Held
    <2>2. \A d \in Conns : reader[d].pc = "apply" => reader'[d] = reader[d]
        BY <1>1
    <2> QED
        BY <1>1, <2>1, <2>2 DEF CountInv
<1> QED
    BY <1>3, <1>5, <1>6, <1>7

-----------------------------------------------------------------------------
(* Sessions that end, and the other steps of the world *)

\* Tickers and sessions end.
LEMMA StopOnce ==
    ASSUME TypeOK, Once, NEW c \in Conns, WriteTimeout(c) \/ TickerStop(c) \/ ReadError(c)
    PROVE  Once'
<1>1. /\ UNCHANGED <<last, buf, counted, produced, xray, reader, up>>
      /\ \A d \in Conns : /\ tick'[d].got = tick[d].got
                          /\ live'[d] => live[d]
                          /\ down'[d] = down[d] \/ down'[d] = <<>>
    <2>1. CASE WriteTimeout(c) \/ TickerStop(c)
        <3>1. tick[c].pc = "idle" /\ tick' = [tick EXCEPT ![c] = TickerOff]
            BY <2>1 DEF WriteTimeout, TickerStop
        <3>2. tick[c].got = {} /\ \A d \in Conns : tick'[d].got = tick[d].got
            BY <3>1 DEF TypeOK, Ticker, TickerOff
        <3> QED
            BY <2>1, <3>2 DEF WriteTimeout, TickerStop, netVars, panelVars, dbVars
    <2>2. CASE ReadError(c)
        BY <2>2 DEF ReadError, panelVars, dbVars, TypeOK
    <2> QED
        BY <2>1, <2>2
<1>2. \A d \in Conns : Elems(down'[d]) \subseteq Elems(down[d])
    <2>1. Elems(<<>>) = {}
        BY EmptySeq DEF Elems
    <2> QED
        BY <1>1, <2>1
<1>3. sess' = sess \/ (sess' = NoConn /\ \A d \in Conns : ~live'[d])
    <2>1. CASE ReadError(c)
        <3>1. sess' = NoConn /\ sess = c /\ ~live'[c] /\ \A d \in Conns \ {c} : live'[d] = live[d]
            BY <2>1 DEF ReadError, TypeOK
        <3> QED
            BY <3>1 DEF Once, SessionInv
    <2> QED
        BY <2>1 DEF WriteTimeout, TickerStop
<1>4. \A d \in Conns : Sorted(up[d])
    BY DEF Once, OrderInv
<1> QED
    BY <1>1, <1>2, <1>3, <1>4, QuietOnce

\* A link breaks and loses the end of what it carries.
LEMMA DropOnce ==
    ASSUME TypeOK, Once, NEW c \in Conns, Drop(c)
    PROVE  Once'
<1>1. /\ UNCHANGED <<last, buf, counted, produced, xray, reader, tick, sess>>
      /\ \A d \in Conns : live'[d] => live[d]
    BY DEF Drop, agentVars, panelVars, dbVars, TypeOK
<1>2. PICK n \in 0..Len(up[c]) : up' = [up EXCEPT ![c] = Prefix(up[c], n)]
    BY DEF Drop
<1>3. PICK m \in 0..Len(down[c]) : down' = [down EXCEPT ![c] = Prefix(down[c], m)]
    BY DEF Drop
<1>4. up[c] \in Seq(Frame) /\ \A d \in Conns : Sorted(up[d])
    BY DEF TypeOK, Once, OrderInv
<1>5. /\ Elems(Prefix(up[c], n)) \subseteq Elems(up[c]) /\ Sorted(Prefix(up[c], n))
      /\ Prefix(up[c], n) # <<>> => up[c] # <<>>
    BY <1>4, LoseTail
<1>6. Elems(Prefix(down[c], m)) \subseteq Elems(down[c])
    BY PrefixElems
<1>7. \A d \in Conns : /\ up'[d] = IF d = c THEN Prefix(up[c], n) ELSE up[d]
                       /\ down'[d] = IF d = c THEN Prefix(down[c], m) ELSE down[d]
    BY <1>2, <1>3 DEF TypeOK
<1>8. \A d \in Conns : /\ Elems(up'[d]) \subseteq Elems(up[d])
                       /\ up'[d] # <<>> => up[d] # <<>>
                       /\ Sorted(up'[d])
                       /\ Elems(down'[d]) \subseteq Elems(down[d])
    BY <1>4, <1>5, <1>6, <1>7
<1> QED
    BY <1>1, <1>8, QuietOnce

\* A writer that stops only loses acks.
LEMMA WriterStopOnce ==
    ASSUME TypeOK, Once, NEW c \in Conns, WriterStop(c)
    PROVE  Once'
<1>1. UNCHANGED <<last, buf, counted, produced, xray, reader, tick, sess, up, live>>
    BY DEF WriterStop, agentVars, panelVars, dbVars
<1>2. PICK n \in 0..Len(down[c]) : down' = [down EXCEPT ![c] = Prefix(down[c], n)]
    BY DEF WriterStop
<1>3. Elems(Prefix(down[c], n)) \subseteq Elems(down[c])
    BY PrefixElems
<1>4. \A d \in Conns : Sorted(up[d]) /\ Elems(down'[d]) \subseteq Elems(down[d])
    BY <1>2, <1>3 DEF TypeOK, Once, OrderInv
<1> QED
    BY <1>1, <1>4, QuietOnce

\* The session's socket goes with the process; its buffer is read back from the file.
LEMMA AgentRestartOnce ==
    ASSUME TypeOK, Once, BufferInv, AgentRestart, buf' = disk,
           \A d \in Conns : tick[d].got = {}
    PROVE  Once'
<1>1. /\ UNCHANGED <<last, buf, counted, produced, xray, reader>> /\ sess' = NoConn
      /\ \A d \in Conns : live'[d] = IF d = sess THEN FALSE ELSE live[d]
      /\ \A d \in Conns : tick'[d].got = tick[d].got
      /\ \A d \in Conns : down'[d] = IF d = sess THEN <<>> ELSE down[d]
    BY DEF AgentRestart, TickerOff, panelVars, dbVars, BufferInv
<1>2. PICK n \in 0..UpCap : up' = [d \in Conns |-> IF d = sess /\ n < Len(up[d])
                                                   THEN Prefix(up[d], n) ELSE up[d]]
    BY DEF AgentRestart
<1>3. ASSUME NEW d \in Conns
      PROVE  /\ Elems(up'[d]) \subseteq Elems(up[d])
             /\ up'[d] # <<>> => up[d] # <<>>
             /\ Sorted(up'[d])
    <2>1. up[d] \in Seq(Frame) /\ Sorted(up[d])
        BY DEF TypeOK, Once, OrderInv
    <2>2. CASE n < Len(up[d])
        <3>1. n \in 0..Len(up[d])
            BY <2>1, <2>2, LenProperties
        <3>2. up'[d] = Prefix(up[d], n) \/ up'[d] = up[d]
            BY <1>2
        <3> QED
            BY <2>1, <3>1, <3>2, LoseTail
    <2>3. CASE ~(n < Len(up[d]))
        BY <1>2, <2>1, <2>3
    <2> QED
        BY <2>2, <2>3
<1>4. \A d \in Conns : Elems(down'[d]) \subseteq Elems(down[d])
    <2>1. Elems(<<>>) = {}
        BY EmptySeq DEF Elems
    <2> QED
        BY <1>1, <2>1
<1>5. \A d \in Conns : ~live'[d]
    BY <1>1 DEF Once, SessionInv
<1>6. \A d \in Conns : live'[d] => live[d]
    BY <1>5
<1> QED
    BY <1>1, <1>3, <1>4, <1>5, <1>6, QuietOnce

\* Registering breaks the link of the connection it replaces.
LEMMA RegisterOnce ==
    ASSUME TypeOK, Once, NEW c \in Conns, Register(c)
    PROVE  Once'
<1>1. /\ UNCHANGED <<last, buf, counted, produced, xray, tick, sess>>
      /\ reader[c].pc = "reg" /\ reader'[c].pc = "idle"
      /\ \A d \in Conns \ {c} : reader'[d] = reader[d]
    BY DEF Register, Goto, agentVars, dbVars, TypeOK
<1>2. \A d \in Conns : \/ reader'[d] = reader[d]
                       \/ /\ reader'[d].pc \notin {"users", "apply", "ack"}
                          /\ reader[d].pc # "apply"
    BY <1>1
<1>3. \A d \in Conns : up[d] \in Seq(Frame) /\ Sorted(up[d])
    BY DEF TypeOK, Once, OrderInv
<1>4. ASSUME NEW d \in Conns
      PROVE  /\ live'[d] => live[d]
             /\ Elems(up'[d]) \subseteq Elems(up[d])
             /\ up'[d] # <<>> => up[d] # <<>>
             /\ Sorted(up'[d])
             /\ Elems(down'[d]) \subseteq Elems(down[d])
    <2>1. CASE registered \in Conns
        <3> DEFINE o == registered
        <3>1. PICK n \in 0..Len(up[o]) : up' = [up EXCEPT ![o] = Prefix(up[o], n)]
            BY <2>1 DEF Register
        <3>2. PICK m \in 0..Len(down[o]) : down' = [down EXCEPT ![o] = Prefix(down[o], m)]
            BY <2>1 DEF Register
        <3>3. /\ Elems(Prefix(up[o], n)) \subseteq Elems(up[o]) /\ Sorted(Prefix(up[o], n))
              /\ Prefix(up[o], n) # <<>> => up[o] # <<>>
            BY <1>3, <2>1, LoseTail
        <3>4. Elems(Prefix(down[o], m)) \subseteq Elems(down[o])
            BY <2>1, PrefixElems
        <3>5. /\ up'[d] = IF d = o THEN Prefix(up[o], n) ELSE up[d]
              /\ down'[d] = IF d = o THEN Prefix(down[o], m) ELSE down[d]
            BY <3>1, <3>2 DEF TypeOK
        <3>6. live'[d] => live[d]
            BY <2>1 DEF Register, TypeOK
        <3> HIDE DEF o
        <3> QED
            BY <1>3, <3>3, <3>4, <3>5, <3>6
    <2>2. CASE registered \notin Conns
        BY <1>3, <2>2 DEF Register, netVars
    <2> QED
        BY <2>1, <2>2
<1> QED
    BY <1>1, <1>2, <1>4, QuietOnce

\* A handler ends with nothing left to read.
LEMMA DisconnectOnce ==
    ASSUME TypeOK, Once, NEW c \in Conns, Disconnect(c)
    PROVE  Once'
<1>1. /\ UNCHANGED <<last, buf, counted, produced, xray, tick, sess, live, down>>
      /\ reader[c].pc # "apply" /\ reader'[c].pc = "none" /\ up'[c] = <<>>
      /\ \A d \in Conns \ {c} : reader'[d] = reader[d] /\ up'[d] = up[d]
    BY DEF Disconnect, NoReader, agentVars, dbVars, TypeOK
<1>2. \A d \in Conns : \/ reader'[d] = reader[d]
                       \/ /\ reader'[d].pc \notin {"users", "apply", "ack"}
                          /\ reader[d].pc # "apply"
    BY <1>1
<1>3. Elems(<<>>) = {} /\ Sorted(<<>>)
    BY EmptySeq DEF Elems, Sorted
<1>4. \A d \in Conns : /\ Elems(up'[d]) \subseteq Elems(up[d])
                       /\ up'[d] # <<>> => up[d] # <<>>
                       /\ Sorted(up'[d])
    BY <1>1, <1>3 DEF Once, OrderInv
<1> QED
    BY <1>1, <1>2, <1>4, QuietOnce

\* Assignments and steps that change nothing here.
LEMMA StutterOnce ==
    ASSUME Once, UNCHANGED <<produced, agentVars, netVars, panelVars, last, counted>>
    PROVE  Once'
<1>1. \A d \in Conns : Sorted(up[d])
    BY DEF Once, OrderInv
<1> QED
    BY <1>1, QuietOnce DEF agentVars, netVars, panelVars

-----------------------------------------------------------------------------
(* The invariant and the theorem *)

\* OnceInv holds initially: nothing was produced.
LEMMA InitOnce == Init => OnceInv
<1> SUFFICES ASSUME Init PROVE Once
    BY DEF OnceInv
<1>1. Elems(<<>>) = {} /\ Sorted(<<>>)
    BY EmptySeq DEF Elems, Sorted
<1>2. SessionInv /\ StoredInv /\ OrderInv /\ ApplyInv /\ ApartInv
    BY <1>1 DEF Init, SessionInv, Unfinished, StoredInv, OrderInv, ApplyInv, Applying,
                ApartInv, EmptyBuffer, NoReader, TickerOff
<1>3. Held = {}
    BY HeldElements DEF Init, EmptyBuffer, TickerOff
<1>4. CountInv
    BY <1>3 DEF Init, CountInv
<1> QED
    BY <1>2, <1>4 DEF Once

\* The steps of a session keep Once in a calm run.
LEMMA AgentOnce ==
    ASSUME TypeOK, IInv, OnceInv, Calm', NEW c \in Conns, AgentStep(c)
    PROVE  Once'
<1>f. "timeout" \in FaultKinds
    BY DEF FaultKinds
<1>1. CASE Dial(c)
    <2>0. overlaps \in Nat /\ overlaps' = 0
        BY DEF TypeOK, Calm
    <2>1. overlaps' = overlaps /\ SetBuf(Batched(buf))
        BY <1>1, <2>0 DEF Dial
    <2>2. Calm /\ buf' = Batched(buf)
        BY <2>1, CalmSetBuf
    <2>3. Once /\ BufferInv
        BY <2>2 DEF OnceInv, IInv, Calm
    <2> QED
        BY <1>1, <2>1, <2>2, <2>3, DialOnce
<1>2. CASE ReadCounters(c)
    <2>1. Calm
        BY <1>2, CalmSame DEF ReadCounters
    <2> QED
        BY <1>2, <2>1, ReadCountersOnce DEF OnceInv
<1>3. CASE Collect(c)
    <2>1. Calm /\ buf' = Collected(buf, tick[c].got)
        BY <1>3, CalmSetBuf DEF Collect
    <2> QED
        BY <1>3, <2>1, CollectOnce DEF OnceInv
<1>4. CASE SendBatch(c)
    <2>1. overlaps' = overlaps
        BY <1>4 DEF SendBatch
    <2>2. CASE SetBuf(Batched(buf))
        <3>1. Calm /\ buf' = Batched(buf)
            BY <2>1, <2>2, CalmSetBuf
        <3> QED
            BY <1>4, <3>1, SendBatchOnce DEF OnceInv, IInv, Calm
    <2>3. CASE UNCHANGED <<buf, faults, up>> /\ Batched(buf).flight = {}
        <3>1. Calm
            BY <2>1, <2>3, CalmSame
        <3> QED
            BY <1>4, <2>3, <3>1, SendBatchOnce DEF OnceInv, IInv, Calm
    <2> QED
        BY <1>4, <2>2, <2>3 DEF SendBatch
<1>5. CASE WriteTimeout(c)
    <2>1. Calm
        BY <1>5, <1>f, CalmFault DEF WriteTimeout
    <2> QED
        BY <1>5, <2>1, StopOnce DEF OnceInv
<1>6. CASE TickerStop(c) \/ ReadError(c)
    <2>1. Calm
        BY <1>6, CalmSame DEF TickerStop, ReadError
    <2> QED
        BY <1>6, <2>1, StopOnce DEF OnceInv
<1>7. CASE ReadAck(c)
    <2>1. Calm /\ buf' = Acked(buf, Head(down[c]))
        BY <1>7, CalmSetBuf DEF ReadAck
    <2> QED
        BY <1>7, <2>1, ReadAckOnce DEF OnceInv, IInv, Calm
<1> QED
    BY <1>1, <1>2, <1>3, <1>4, <1>5, <1>6, <1>7 DEF AgentStep

\* So do the steps of its handler.
LEMMA PanelOnce ==
    ASSUME TypeOK, IInv, OnceInv, Calm', NEW c \in Conns, PanelStep(c)
    PROVE  Once'
<1>1. overlaps' = overlaps
    BY DEF PanelStep, Register, ReadFrame, GetUsers, AddTraffic, SetSeq, SendAck, Disconnect
<1>2. ~Fault("db")
    <2>1. "db" \in FaultKinds /\ "db" \in LossFaults
        BY DEF FaultKinds, LossFaults
    <2> QED
        BY <1>1, <2>1, CalmFault
<1>3. UNCHANGED faults
    BY <1>2 DEF PanelStep, Register, ReadFrame, GetUsers, AddTraffic, SetSeq, SendAck, Disconnect
<1>4. Once /\ FrameInv
    <2>1. Calm
        BY <1>1, <1>3, CalmSame
    <2> QED
        BY <2>1 DEF OnceInv, IInv, Calm
<1> QED
    BY <1>2, <1>4, RegisterOnce, ReadFrameOnce, GetUsersOnce, AddTrafficOnce, SetSeqOnce,
       SendAckOnce, DisconnectOnce DEF PanelStep

\* Every step keeps OnceInv.
LEMMA NextOnce ==
    ASSUME TypeOK, IInv, OnceInv, [Next]_vars
    PROVE  OnceInv'
<1> SUFFICES ASSUME Calm' PROVE Once'
    BY DEF OnceInv
<1>f. /\ {"drop", "stall", "midcollect", "agent", "wipe", "panel", "reassign", "counters"}
             \subseteq FaultKinds
      /\ {"midcollect", "wipe", "counters"} \subseteq LossFaults
    BY DEF FaultKinds, LossFaults
<1>1. ASSUME NEW ch \in Chunks, Produce(ch) PROVE Once'
    <2>1. Calm
        BY <1>1, CalmSame DEF Produce
    <2> QED
        BY <1>1, <2>1, ProduceOnce DEF OnceInv
<1>2. ~LoseCounters
    <2>1. LoseCounters => Fault("counters") /\ overlaps' = overlaps
        BY DEF LoseCounters
    <2> QED
        BY <1>f, <2>1, CalmFault
<1>3. ASSUME NEW c \in Conns, Drop(c) PROVE Once'
    <2>1. Calm
        BY <1>3, <1>f, CalmFault DEF Drop
    <2> QED
        BY <1>3, <2>1, DropOnce DEF OnceInv
<1>w. ASSUME NEW c \in Conns, WriterStop(c) PROVE Once'
    <2>1. Calm
        BY <1>w, <1>f, CalmFault DEF WriterStop
    <2> QED
        BY <1>w, <2>1, WriterStopOnce DEF OnceInv
<1>4. CASE AgentRestart
    <2>0. overlaps' = overlaps
        BY <1>4 DEF AgentRestart
    <2>1. ~Fault("midcollect") /\ ~Fault("wipe")
        BY <1>f, <2>0, CalmFault
    <2>2. (\A d \in Conns : tick[d].got = {}) /\ Fault("agent") /\ buf' = disk
        BY <1>4, <2>1 DEF AgentRestart
    <2>3. Calm
        BY <1>f, <2>0, <2>2, CalmFault
    <2> QED
        BY <1>4, <2>2, <2>3, AgentRestartOnce DEF OnceInv, IInv, Calm
<1>5. ~PanelRestart
    <2>1. PanelRestart => Fault("panel") /\ overlaps' = overlaps
        BY DEF PanelRestart
    <2> QED
        BY <1>f, <2>1, CalmFault
<1>6. ASSUME NEW u \in Users, Reassign(u) PROVE Once'
    <2>1. Calm
        BY <1>6, <1>f, CalmFault DEF Reassign
    <2>2. UNCHANGED <<produced, agentVars, netVars, panelVars, last, counted>>
        BY <1>6 DEF Reassign
    <2> QED
        BY <2>1, <2>2, StutterOnce DEF OnceInv
<1>7. CASE UNCHANGED vars
    <2>1. Calm /\ UNCHANGED <<produced, agentVars, netVars, panelVars, last, counted>>
        BY <1>7, CalmSame DEF vars, dbVars
    <2> QED
        BY <2>1, StutterOnce DEF OnceInv
<1> QED
    BY <1>1, <1>2, <1>3, <1>4, <1>5, <1>6, <1>7, <1>w, AgentOnce, PanelOnce DEF Next

\* No double counting, for any number of users, chunks, sessions, restarts of the
\* agent and drops: unless a loss fault happened, the panel restarted or a session
\* was dialled over unread frames, UserStore.AddTraffic adds each chunk at most once.
THEOREM AtMostOnceCorrect == Spec => []AtMostOnce
<1>1. TypeOK /\ IInv /\ OnceInv /\ [Next]_vars => OnceInv'
    BY NextOnce
<1>2. OnceInv => AtMostOnce
    BY DEF OnceInv, Calm, Once, CountInv, AtMostOnce
<1> QED
    BY <1>1, <1>2, InitOnce, TypeCorrect, InvCorrect, PTL DEF Spec
=============================================================================
