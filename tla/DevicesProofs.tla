---------------------------- MODULE DevicesProofs ----------------------------
(* Theorems about Devices, for every value of its constants. *)
EXTENDS Devices, SequenceTheorems, FiniteSetTheorems, TLAPS

-----------------------------------------------------------------------------
(* Largest and smallest numbers *)

\* A set of numbers that is finite and not empty has a largest one.
LEMMA MaxFacts ==
    ASSUME NEW S \in SUBSET Nat, IsFiniteSet(S), S # {}
    PROVE  Max(S) \in S /\ \A y \in S : y <= Max(S)
<1> DEFINE Above(x) == {y \in S : y >= x}
           T == {Above(x) : x \in S}
<1>0. /\ \A x \in S : x \in Nat /\ Above(x) \subseteq S
      /\ \A x, y \in S : y \in Above(x) <=> y >= x
    OBVIOUS
<1>1. T \subseteq FiniteSubsetsOf(S) /\ T # {}
    <2>1. FiniteSubsetsOf(S) = SUBSET S
        BY FS_FiniteSubsetsOfFinite
    <2>2. \A x \in S : Above(x) \in SUBSET S
        BY <1>0
    <2>3. T \subseteq SUBSET S
        BY <2>2, Zenon
    <2>4. T # {}
        BY Zenon
    <2> HIDE DEF T
    <2> QED
        BY <2>1, <2>3, <2>4
<1>2. \E A \in T : \A B \in T : <<B, A>> \notin StrictSubsetOrdering(S)
    <2> HIDE DEF T
    <2> QED
        BY <1>1, WFMin, FS_StrictSubsetOrderingWellFounded
<1>3. PICK x \in S : \A y \in S : <<Above(y), Above(x)>> \notin StrictSubsetOrdering(S)
    BY <1>2
<1>4. ASSUME NEW y \in S, ~(y <= x) PROVE FALSE
    <2> HIDE DEF Above
    <2>1. x \in Nat /\ y \in Nat /\ \A z \in S : z \in Nat
        BY <1>0
    <2>2. x \in Above(x) /\ x \notin Above(y)
        BY <1>0, <1>4, <2>1
    <2>3. \A z \in S : z >= y => z >= x
        BY <1>4, <2>1
    <2>4. Above(y) \subseteq Above(x)
        BY <1>0, <2>3
    <2>5. <<Above(y), Above(x)>> \in (SUBSET S) \X (SUBSET S)
        BY <1>0
    <2> QED
        BY <1>3, <2>2, <2>4, <2>5 DEF StrictSubsetOrdering
<1>5. \E m \in S : \A y \in S : m >= y
    BY <1>0, <1>4
<1>6. Max(S) \in S /\ \A y \in S : Max(S) >= y
    BY <1>5 DEF Max
<1> QED
    BY <1>0, <1>6

\* The smaller of two numbers.
LEMMA MinFacts ==
    ASSUME NEW a \in Nat, NEW b \in Nat
    PROVE  Min({a, b}) \in Nat /\ Min({a, b}) <= a /\ Min({a, b}) <= b
<1>1. \E m \in {a, b} : \A y \in {a, b} : m =< y
    OBVIOUS
<1>2. Min({a, b}) \in {a, b} /\ \A y \in {a, b} : Min({a, b}) <= y
    BY <1>1 DEF Min
<1> QED
    BY <1>2

-----------------------------------------------------------------------------
(* Types *)

\* An event leaves the counters of events well formed.
LEMMA EventType ==
    ASSUME NEW k \in Kinds, events \in [Kinds -> Nat], Event(k)
    PROVE  events' \in [Kinds -> Nat]
BY DEF Event

\* Every kind an action names is one.
LEMMA KindsFacts ==
    {"drop", "timeout", "agent", "panel", "db", "save", "torn",
     "rotate", "truncate", "race", "edit", "delete"} = Kinds
BY DEF Kinds

\* The lines of the log.
LEMMA LineFacts ==
    ASSUME TypeOK
    PROVE  /\ log.lines \in Seq(Line) /\ Len(log.lines) \in Nat /\ now \in Nat
           /\ \A i \in 1 .. Len(log.lines) : /\ log.lines[i] \in Line
                                              /\ log.lines[i].dev \in Devs
                                              /\ log.lines[i].stamp \in Nat
<1>1. log.lines \in Seq(Line) /\ now \in Nat
    BY DEF TypeOK, LogFile
<1>2. Len(log.lines) \in Nat /\ \A i \in 1 .. Len(log.lines) : log.lines[i] \in Line
    BY <1>1, LenProperties, ElementOfSeq
<1> QED
    BY <1>1, <1>2 DEF Line

\* What the scanner reports of a stretch of the log: an item per device that has a line
\* there, with the number of its lines and the time of one of them.
LEMMA AggregateFacts ==
    ASSUME TypeOK, NEW ls \in SUBSET (1 .. Len(log.lines)), NEW it \in Aggregate(ls)
    PROVE  /\ it \in Item
           /\ it.conns = Cardinality({i \in ls : log.lines[i].dev = it.dev})
           /\ \E i \in ls : log.lines[i].dev = it.dev /\ it.last = lineTime(log.lines[i].stamp)
<1>1. /\ Len(log.lines) \in Nat /\ now \in Nat
      /\ \A i \in 1 .. Len(log.lines) : /\ log.lines[i].dev \in Devs
                                         /\ log.lines[i].stamp \in Nat
    BY LineFacts
<1>2. PICK d \in {log.lines[i].dev : i \in ls} :
          it = [dev |-> d, conns |-> Cardinality({i \in ls : log.lines[i].dev = d}),
                last |-> Max({lineTime(log.lines[i].stamp) :
                                i \in {j \in ls : log.lines[j].dev = d}})]
    BY DEF Aggregate
<1> DEFINE A == {i \in ls : log.lines[i].dev = d}
           T == {lineTime(log.lines[i].stamp) : i \in A}
<1>3. Cardinality(A) \in Nat
    <2>1. IsFiniteSet(1 .. Len(log.lines))
        BY <1>1, FS_Interval
    <2>2. A \in SUBSET (1 .. Len(log.lines))
        OBVIOUS
    <2> HIDE DEF A
    <2> QED
        BY <2>1, <2>2, FS_Subset, FS_CardinalityType
<1>4. Max(T) \in T /\ \A t \in T : t \in Nat
    <2>1. T # {}
        BY <1>2
    <2>2. T \in SUBSET Nat /\ \A t \in T : t <= now
        BY <1>1 DEF lineTime
    <2> HIDE DEF T
    <2>3. IsFiniteSet(T)
        BY <1>1, <2>2, FS_BoundedSetOfNaturals
    <2> QED
        BY <2>1, <2>2, <2>3, MaxFacts
<1>5. d \in Devs
    BY <1>1, <1>2
<1>6. it.dev = d /\ it.conns = Cardinality(A) /\ it.last = Max(T)
    BY <1>2
<1>7. \E i \in ls : log.lines[i].dev = d /\ Max(T) = lineTime(log.lines[i].stamp)
    BY <1>4
<1>8. it \in Item
    <2>1. it = [dev |-> d, conns |-> Cardinality(A), last |-> Max(T)]
        BY <1>2
    <2> HIDE DEF A, T
    <2> QED
        BY <1>3, <1>4, <1>5, <2>1 DEF Item
<1> QED
    BY <1>6, <1>7, <1>8

\* A prefix of what is on a link.
LEMMA UpPrefix ==
    ASSUME NEW s \in Seq(SUBSET Item), NEW n \in 0 .. Len(s)
    PROVE  /\ SubSeq(s, 1, n) \in Seq(SUBSET Item) /\ Len(SubSeq(s, 1, n)) = n
           /\ \A i \in 1 .. n : SubSeq(s, 1, n)[i] = s[i]
<1>1. \A i \in 1 .. n : s[i] \in SUBSET Item
    BY LenProperties, ElementOfSeq
<1>2. n \in Nat
    BY LenProperties
<1>3. /\ SubSeq(s, 1, n) \in Seq(SUBSET Item)
      /\ Len(SubSeq(s, 1, n)) = IF 1 <= n THEN n - 1 + 1 ELSE 0
      /\ \A i \in 1 .. (n - 1 + 1) : SubSeq(s, 1, n)[i] = s[1 + i - 1]
    BY <1>1, <1>2, SubSeqProperties
<1> QED
    BY <1>2, <1>3

\* The initial state is well typed.
LEMMA InitType == Init => TypeOK
<1> SUFFICES ASSUME Init PROVE TypeOK
    OBVIOUS
<1>1. w \in Position /\ w.ino \in Inodes
    BY ConstAssumption DEF Init, Position
<1>2. PICK old \in {<<>>} \cup {<<[dev |-> d, stamp |-> 1 + Skew]>> : d \in Devs} :
          /\ log = [ino |-> w.ino, lines |-> old, torn |-> FALSE]
          /\ lastAt = [d \in Devs |-> IF \E l \in 1..Len(old) : old[l].dev = d
                                      THEN 1 ELSE 0]
    BY DEF Init
<1>3. old \in Seq(Line)
    <2>1. ASSUME NEW d \in Devs PROVE <<[dev |-> d, stamp |-> 1 + Skew]>> \in Seq(Line)
        <3>1. [dev |-> d, stamp |-> 1 + Skew] \in Line
            BY ConstAssumption DEF Line
        <3> QED
            BY <3>1
    <2>2. <<>> \in Seq(Line)
        OBVIOUS
    <2> QED
        BY <2>1, <2>2
<1>4. log \in LogFile /\ lastAt \in [Devs -> Nat]
    BY <1>1, <1>2, <1>3 DEF LogFile
<1> QED
    BY <1>1, <1>4, ConstAssumption
       DEF Init, TypeOK, Ticker, TickerOff, Reader, NoReader, Row, NoRow

\* Xray, the clock and the file system keep the state well typed.
LEMMA WorldType ==
    ASSUME TypeOK, Tick \/ XrayLogs \/ NewlineArrives \/ Rotate
    PROVE  TypeOK'
<1> USE DEF agentVars, netVars, dbVars, history
<1>1. CASE Tick
    BY <1>1 DEF Tick, TypeOK
<1>2. CASE XrayLogs
    <2>1. PICK d \in Devs, torn \in BOOLEAN :
              WriteLine(d, torn) /\ (UNCHANGED events \/ Event("torn"))
        BY <1>2 DEF XrayLogs
    <2>2. events' \in [Kinds -> Nat]
        BY <2>1, EventType, KindsFacts DEF TypeOK
    <2>3. log' \in LogFile
        <3> DEFINE l == [dev |-> d, stamp |-> now + Skew]
        <3>1. l \in Line
            BY ConstAssumption DEF Line, TypeOK
        <3>2. log.lines \o <<l>> \in Seq(Line)
            BY <3>1 DEF TypeOK, LogFile
        <3>3. log' = [log EXCEPT !.lines = log.lines \o <<l>>, !.torn = torn]
            BY <2>1 DEF WriteLine
        <3> HIDE DEF l
        <3> QED
            BY <3>2, <3>3 DEF TypeOK, LogFile
    <2>4. logged' \in [Devs -> Nat] /\ lastAt' \in [Devs -> Nat] /\ writes' \in Nat
        BY <2>1 DEF WriteLine, TypeOK
    <2> QED
        BY <2>1, <2>2, <2>3, <2>4 DEF WriteLine, TypeOK
<1>3. CASE NewlineArrives
    BY <1>3 DEF NewlineArrives, TypeOK, LogFile
<1>4. CASE Rotate
    <2>1. log' \in LogFile
        BY <1>4 DEF Rotate, LogFile
    <2>2. Event("race") \/ Event("truncate") \/ Event("rotate")
        BY <1>4 DEF Rotate
    <2>3. events' \in [Kinds -> Nat]
        BY <2>2, EventType, KindsFacts DEF TypeOK
    <2> QED
        BY <1>4, <2>1, <2>3 DEF Rotate, TypeOK
<1> QED
    BY <1>1, <1>2, <1>3, <1>4

\* Size of the log and the read position for it.
LEMMA SizeType ==
    ASSUME TypeOK
    PROVE  /\ Len(log.lines) \in Nat /\ Size \in Int /\ (~log.torn => Size = 2 * Len(log.lines))
           /\ (log.torn => Size = 2 * Len(log.lines) - 1)
           /\ Resume \in Position /\ Resume.ino = log.ino /\ Resume.seeded
           /\ Resume.offset = Start
<1>1. Len(log.lines) \in Nat /\ log.torn \in BOOLEAN /\ log.ino \in Inodes
    BY LenProperties DEF TypeOK, LogFile
<1>2. w.offset \in Nat
    BY DEF TypeOK, Position
<1> QED
    <2>1. (~log.torn => Size = 2 * Len(log.lines)) /\ (log.torn => Size = 2 * Len(log.lines) - 1)
        <3> DEFINE n == Len(log.lines)
        <3>1. Size = 2 * n - (IF log.torn THEN 1 ELSE 0)
            BY DEF Size
        <3>2. n \in Nat
            BY <1>1
        <3> HIDE DEF n
        <3>3. ASSUME log.torn PROVE Size = 2 * n - 1
            <4>1. (IF log.torn THEN 1 ELSE 0) = 1
                BY <3>3, Zenon
            <4> QED
                BY <3>1, <4>1
        <3>4. ASSUME ~log.torn PROVE Size = 2 * n
            <4>1. (IF log.torn THEN 1 ELSE 0) = 0
                BY <3>4, Zenon
            <4> QED
                BY <3>1, <3>2, <4>1
        <3> QED
            BY <3>3, <3>4 DEF n
    <2>2. Size \in Int
        BY <1>1, <2>1
    <2>3. Resume = [seeded |-> TRUE, offset |-> Start, ino |-> log.ino] /\ Start \in Nat
        <3> HIDE DEF Size
        <3> QED
            BY <1>2, <2>2 DEF Resume, Start
    <2> QED
        BY <1>1, <2>1, <2>2, <2>3 DEF Position


\* A torn line is a line.
TornInv == log.torn => log.lines # <<>>

TypeInv == TypeOK /\ TornInv

\* The agent's collect, step by step, keeps the state well typed.
LEMMA CollectType ==
    ASSUME TypeInv, NEW c \in Conns, Collect(c) \/ TickerStop(c)
    PROVE  TypeOK'
<1> USE DEF agentVars, netVars, dbVars, history
<1>t. /\ TypeOK /\ w \in Position /\ saved \in Position /\ tick \in [Conns -> Ticker]
      /\ up \in [Conns -> Seq(SUBSET Item)] /\ events \in [Kinds -> Nat]
      /\ log.ino \in Inodes /\ w.offset \in Nat /\ tick[c] \in Ticker
    BY DEF TypeInv, TypeOK, Position, LogFile
<1>s. /\ Size \in Nat
      /\ Resume \in Position
    <2>1. /\ Len(log.lines) \in Nat /\ (~log.torn => Size = 2 * Len(log.lines))
          /\ (log.torn => Size = 2 * Len(log.lines) - 1) /\ Resume \in Position
        BY <1>t, SizeType
    <2>2. log.torn => Len(log.lines) # 0
        BY EmptySeq, LineFacts DEF TypeInv, TornInv
    <2> HIDE DEF TypeInv
    <2> QED
        BY <2>1, <2>2
<1>v. ASSUME NEW p \in Position, saveOffset(p)
      PROVE  saved' \in Position /\ events' \in [Kinds -> Nat]
    BY <1>t, <1>v, EventType, KindsFacts DEF saveOffset
<1>i. TickerIdle \in Ticker /\ TickerOff \in Ticker
    BY DEF TickerIdle, TickerOff, Ticker
<1>1. CASE Seed(c)
    <2>1. w' \in Position /\ saveOffset(w')
        BY <1>1, <1>s, <1>t DEF Seed, Position
    <2>2. saved' \in Position /\ events' \in [Kinds -> Nat]
        BY <1>v, <2>1
    <2> QED
        BY <1>1, <1>t, <2>1, <2>2 DEF Seed, TypeOK
<1>2. CASE Stat(c)
    <2>1. tick' \in [Conns -> Ticker]
        BY <1>2, <1>t DEF Stat, Ticker
    <2> QED
        BY <1>2, <1>s, <1>t, <2>1 DEF Stat, TypeOK
<1>3. CASE Read(c)
    <2>1. BytesRead \in Nat
        <3>1. (IF log.torn THEN 1 ELSE 0) \in Nat
            OBVIOUS
        <3> DEFINE t == IF log.torn THEN 1 ELSE 0
        <3>2. BytesRead = IF w.offset >= Size THEN 0 ELSE Size - w.offset + t
            BY DEF BytesRead
        <3> HIDE DEF t, TypeInv
        <3>3. t \in Nat
            BY <3>1 DEF t
        <3> QED
            BY <3>2, <3>3, <1>s, <1>t
    <2>2. w' \in Position
        <3>1. w' = [w EXCEPT !.offset = w.offset + BytesRead]
            BY <1>3 DEF Read
        <3>2. w.offset + BytesRead \in Nat
            BY <1>t, <2>1
        <3> QED
            BY <1>t, <3>1, <3>2 DEF Position
    <2>3. Unread \in SUBSET (1 .. Len(log.lines))
        BY DEF Unread
    <2>4. Aggregate(Unread) \in SUBSET Item
        BY <1>t, <2>3, AggregateFacts
    <2>5. tick' \in [Conns -> Ticker]
        BY <1>3, <1>t, <2>4 DEF Read, Ticker
    <2> QED
        BY <1>3, <1>t, <2>2, <2>5 DEF Read, TypeOK
<1>4. CASE Save(c)
    <2>1. saved' \in Position /\ events' \in [Kinds -> Nat]
        BY <1>4, <1>t, <1>v DEF Save
    <2>2. tick' \in [Conns -> Ticker]
        BY <1>4, <1>i, <1>t DEF Save, Ticker
    <2> QED
        BY <1>4, <1>t, <2>1, <2>2 DEF Save, TypeOK
<1>5. CASE Send(c)
    <2>1. up' \in [Conns -> Seq(SUBSET Item)]
        <3>1. tick[c].items \in SUBSET Item
            BY <1>t DEF Ticker
        <3>2. Append(up[c], tick[c].items) \in Seq(SUBSET Item)
            BY <1>t, <3>1, AppendProperties
        <3> QED
            BY <1>5, <1>t, <3>2 DEF Send
    <2>2. tick' \in [Conns -> Ticker]
        BY <1>5, <1>i, <1>t DEF Send
    <2>3. events' \in [Kinds -> Nat]
        BY <1>5, <1>t, EventType, KindsFacts DEF Send
    <2> QED
        BY <1>5, <1>t, <2>1, <2>2, <2>3 DEF Send, TypeOK
<1>6. CASE TickerStop(c)
    BY <1>6, <1>i, <1>t DEF TickerStop, TypeOK
<1> QED
    BY <1>1, <1>2, <1>3, <1>4, <1>5, <1>6 DEF Collect

\* Sessions and links.
LEMMA SessionType ==
    ASSUME TypeOK,
           ReadError \/ AgentRestart \/ \E c \in Conns : Connect(c) \/ Drop(c)
    PROVE  TypeOK'
<1> USE DEF agentVars, netVars, dbVars, history
<1>t. up \in [Conns -> Seq(SUBSET Item)] /\ events \in [Kinds -> Nat]
    BY DEF TypeOK
<1>i. TickerIdle \in Ticker /\ TickerOff \in Ticker /\ ReaderIdle \in Reader
    BY DEF TickerIdle, TickerOff, Ticker, ReaderIdle, Reader
<1>1. CASE ReadError
    BY <1>1 DEF ReadError, TypeOK
<1>2. CASE AgentRestart
    <2>1. events' \in [Kinds -> Nat]
        BY <1>2, <1>t, EventType, KindsFacts DEF AgentRestart
    <2> QED
        BY <1>2, <1>i, <2>1 DEF AgentRestart, TypeOK
<1>3. ASSUME NEW c \in Conns, Connect(c)
      PROVE  TypeOK'
    <2>1. PICK n \in 0 .. UpCap :
              up' = [o \in Conns |-> IF o = c THEN <<>>
                                     ELSE IF n < Len(up[o]) THEN SubSeq(up[o], 1, n)
                                          ELSE up[o]]
        BY <1>3 DEF Connect
    <2>2. ASSUME NEW o \in Conns PROVE up'[o] \in Seq(SUBSET Item)
        <3>1. Len(up[o]) \in Nat
            BY <1>t, LenProperties
        <3>2. CASE n < Len(up[o])
            <4>1. n \in 0 .. Len(up[o])
                BY <3>1, <3>2
            <4>2. SubSeq(up[o], 1, n) \in Seq(SUBSET Item)
                BY <1>t, <4>1, UpPrefix
            <4> QED
                BY <2>1, <3>2, <4>2, EmptySeq
        <3>3. CASE ~(n < Len(up[o]))
            BY <1>t, <2>1, <3>3, EmptySeq
        <3> QED
            BY <3>2, <3>3
    <2>3. up' \in [Conns -> Seq(SUBSET Item)]
        BY <2>1, <2>2
    <2> QED
        BY <1>3, <1>i, <2>3 DEF Connect, TypeOK
<1>4. ASSUME NEW c \in Conns, Drop(c)
      PROVE  TypeOK'
    <2>1. PICK n \in 0 .. Len(up[c]) : up' = [up EXCEPT ![c] = SubSeq(up[c], 1, n)]
        BY <1>4 DEF Drop
    <2>2. SubSeq(up[c], 1, n) \in Seq(SUBSET Item)
        BY <1>t, <2>1, UpPrefix
    <2>3. events' \in [Kinds -> Nat]
        BY <1>4, <1>t, EventType, KindsFacts DEF Drop
    <2> QED
        BY <1>4, <2>1, <2>2, <2>3 DEF Drop, TypeOK
<1> QED
    BY <1>1, <1>2, <1>3, <1>4

\* A handler's frame.
LEMMA ApplyingType ==
    ASSUME NEW todo \in SUBSET Item
    PROVE  Applying(todo) \in Reader
BY DEF Applying, Reader

\* The row an upsert leaves.
LEMMA UpsertType ==
    ASSUME TypeOK, NEW it \in Item, UpsertDevice(it)
    PROVE  /\ rows' \in [Devs -> Row]
           /\ rows'[it.dev].conns <= rows[it.dev].conns + it.conns
           /\ rows'[it.dev].last = Seen(it)
           /\ \A d \in Devs \ {it.dev} : rows'[d] = rows[d]
<1>1. /\ it.dev \in Devs /\ it.conns \in Nat /\ Seen(it) \in Nat
      /\ rows[it.dev].conns \in Nat /\ MaxConns \in Nat
    BY ConstAssumption DEF TypeOK, Item, Seen, Row, MaxConns
<1> DEFINE m == Min({rows[it.dev].conns + it.conns, MaxConns})
<1>2. m \in Nat /\ m <= rows[it.dev].conns + it.conns
    BY <1>1, MinFacts
<1>3. rows' = [rows EXCEPT ![it.dev] = [conns |-> m, last |-> Seen(it)]]
    BY DEF UpsertDevice
<1> HIDE DEF m
<1> QED
    BY <1>1, <1>2, <1>3 DEF TypeOK, Row

\* The panel keeps the state well typed.
LEMMA PanelType ==
    ASSUME TypeOK,
           \/ \E c \in Conns : Handle(c)
           \/ SweepBegin \/ PurgeDevices \/ PanelRestart
           \/ \E u \in Users : DeleteUser(u) \/ SetUserNodes(u)
    PROVE  TypeOK'
<1> USE DEF agentVars, netVars, dbVars, history
<1>t. /\ up \in [Conns -> Seq(SUBSET Item)] /\ events \in [Kinds -> Nat]
      /\ reader \in [Conns -> Reader] /\ now \in Nat /\ NoRow \in Row
    BY DEF TypeOK, NoRow, Row
<1>1. ASSUME NEW c \in Conns, Ingest(c)
      PROVE  TypeOK'
    <2>1. Head(up[c]) \in SUBSET Item /\ Tail(up[c]) \in Seq(SUBSET Item)
        BY <1>1, <1>t, HeadTailProperties DEF Ingest
    <2>2. Applying({it \in Head(up[c]) : it.dev[1] \in UsersForNode}) \in Reader
        BY <2>1, ApplyingType
    <2>3. reader' \in [Conns -> Reader] /\ up' \in [Conns -> Seq(SUBSET Item)]
        BY <1>1, <1>t, <2>1, <2>2 DEF Ingest
    <2>4. events' \in [Kinds -> Nat]
        BY <1>1, <1>t, EventType, KindsFacts DEF Ingest
    <2> QED
        BY <1>1, <2>3, <2>4 DEF Ingest, TypeOK
<1>2. ASSUME NEW c \in Conns, Upsert(c)
      PROVE  TypeOK'
    <2>1. PICK it \in reader[c].todo :
              /\ UpsertDevice(it) \/ UNCHANGED rows
              /\ reader' = [reader EXCEPT ![c] = Applying(reader[c].todo \ {it})]
        BY <1>2 DEF Upsert
    <2>2. it \in Item /\ reader[c].todo \ {it} \in SUBSET Item
        BY <1>t, <2>1 DEF Reader
    <2>3. rows' \in [Devs -> Row]
        BY <2>1, <2>2, UpsertType DEF TypeOK
    <2>4. reader' \in [Conns -> Reader]
        BY <1>t, <2>1, <2>2, ApplyingType
    <2>5. events' \in [Kinds -> Nat]
        BY <1>2, <1>t, EventType, KindsFacts DEF Upsert
    <2> QED
        BY <1>2, <2>3, <2>4, <2>5 DEF Upsert, TypeOK
<1>3. ASSUME NEW c \in Conns, HandlerEnd(c)
      PROVE  TypeOK'
    BY <1>3 DEF HandlerEnd, NoReader, Reader, TypeOK
<1>4. CASE SweepBegin
    BY <1>4, <1>t, ConstAssumption DEF SweepBegin, TypeOK
<1>5. CASE PurgeDevices
    BY <1>5, <1>t DEF PurgeDevices, TypeOK
<1>6. CASE PanelRestart
    <2>1. events' \in [Kinds -> Nat]
        BY <1>6, <1>t, EventType, KindsFacts DEF PanelRestart
    <2>2. NoReader \in Reader /\ <<>> \in Seq(SUBSET Item)
        BY EmptySeq DEF NoReader, Reader
    <2> QED
        BY <1>6, <2>1, <2>2 DEF PanelRestart, TypeOK
<1>7. ASSUME NEW u \in Users, DeleteUser(u) \/ SetUserNodes(u)
      PROVE  TypeOK'
    <2>1. events' \in [Kinds -> Nat]
        BY <1>7, <1>t, EventType, KindsFacts DEF DeleteUser, SetUserNodes
    <2>2. CASE DeleteUser(u)
        BY <1>t, <2>1, <2>2 DEF DeleteUser, TypeOK
    <2>3. CASE SetUserNodes(u)
        <3>1. assigned' \in SUBSET Users
            BY <2>3 DEF SetUserNodes, TypeOK
        <3> QED
            BY <2>1, <2>3, <3>1 DEF SetUserNodes, TypeOK
    <2> QED
        BY <1>7, <2>2, <2>3
<1> QED
    BY <1>1, <1>2, <1>3, <1>4, <1>5, <1>6, <1>7 DEF Handle

\* A line is torn only while it is the last of a log that is not empty.
LEMMA TornNext ==
    ASSUME TypeInv, [Next]_vars
    PROVE  TornInv'
<1>1. CASE XrayLogs
    <2>1. PICK d \in Devs, torn \in BOOLEAN : WriteLine(d, torn)
        BY <1>1 DEF XrayLogs
    <2> DEFINE l == [dev |-> d, stamp |-> now + Skew]
    <2>2. log.lines \in Seq(Line) /\ l \in Line /\ log \in LogFile
        BY ConstAssumption DEF TypeInv, TypeOK, LogFile, Line
    <2>3. log'.lines = log.lines \o <<l>>
        BY <2>1, <2>2 DEF WriteLine, LogFile
    <2> HIDE DEF l
    <2>4. log.lines \o <<l>> # <<>>
        BY <2>2
    <2> QED
        BY <2>3, <2>4 DEF TornInv
<1>2. CASE NewlineArrives \/ Rotate
    BY <1>2 DEF NewlineArrives, Rotate, TornInv, TypeInv, TypeOK, LogFile
<1>3. ASSUME UNCHANGED log PROVE TornInv'
    BY <1>3 DEF TypeInv, TornInv
<1>4. ASSUME NEW c \in Conns, Collect(c) \/ TickerStop(c) \/ Connect(c) \/ Drop(c) \/ Handle(c)
      PROVE  TornInv'
    BY <1>3, <1>4 DEF Collect, Seed, Stat, Read, Save, Send, TickerStop, Connect, Drop, Handle,
                      Ingest, Upsert, HandlerEnd
<1>5. ASSUME NEW u \in Users, DeleteUser(u) \/ SetUserNodes(u)
      PROVE  TornInv'
    BY <1>3, <1>5 DEF DeleteUser, SetUserNodes
<1>6. CASE Tick \/ ReadError \/ AgentRestart \/ SweepBegin \/ PurgeDevices \/ PanelRestart
          \/ UNCHANGED vars
    BY <1>3, <1>6 DEF Tick, ReadError, AgentRestart, SweepBegin, PurgeDevices, PanelRestart, vars
<1> QED
    BY <1>1, <1>2, <1>4, <1>5, <1>6 DEF Next

\* Every step keeps the state well typed.
LEMMA NextType ==
    ASSUME TypeInv, [Next]_vars
    PROVE  TypeInv'
<1>1. TypeOK
    BY DEF TypeInv
<1>2. CASE Next
    BY <1>1, <1>2, CollectType, SessionType, PanelType, WorldType, TornNext DEF Next, TypeInv
<1>3. CASE UNCHANGED vars
    BY <1>1, <1>3, TornNext DEF vars, agentVars, netVars, dbVars, history, TypeOK, TypeInv
<1> QED
    BY <1>2, <1>3

\* The type invariant with what it needs.
LEMMA TypeInvariant == Spec => []TypeInv
<1>1. Init => TypeInv
    <2> SUFFICES ASSUME Init PROVE TypeInv
        OBVIOUS
    <2>1. PICK old : log = [ino |-> w.ino, lines |-> old, torn |-> FALSE]
        BY DEF Init
    <2>2. log.torn = FALSE
        BY <2>1
    <2> QED
        BY <2>2, InitType DEF TypeInv, TornInv
<1> QED
    BY <1>1, NextType, PTL DEF Spec

\* Type correctness of the log, the agent's read position, the links and the panel's tables.
THEOREM TypeCorrect == Spec => []TypeOK
BY TypeInvariant, PTL DEF TypeInv

-----------------------------------------------------------------------------
(* The sweep *)

\* The cutoff of a sweep under way is older than the retention.
SweepInv == sweep # 0 => now > Retention /\ sweep <= now - Retention

\* The clock only moves on, and a sweep under way keeps its cutoff.
LEMMA SweepNext ==
    ASSUME TypeInv, SweepInv, [Next]_vars
    PROVE  SweepInv'
<1> USE DEF agentVars, netVars, dbVars, history
<1>t. /\ now \in Nat /\ sweep \in Nat /\ Retention \in Nat
      /\ sweep # 0 => now > Retention /\ sweep <= now - Retention
    BY ConstAssumption DEF TypeInv, TypeOK, SweepInv
<1>1. ASSUME UNCHANGED <<now, sweep>> PROVE SweepInv'
    BY <1>1 DEF SweepInv
<1>2. CASE Tick
    <2>1. now' = now + 1 /\ sweep' = sweep
        BY <1>2 DEF Tick
    <2> QED
        BY <1>t, <2>1 DEF SweepInv
<1>3. CASE SweepBegin
    BY <1>3, <1>t DEF SweepBegin, SweepInv
<1>4. CASE PurgeDevices \/ PanelRestart
    BY <1>4 DEF PurgeDevices, PanelRestart, SweepInv
<1>5. CASE XrayLogs \/ NewlineArrives \/ Rotate \/ ReadError \/ AgentRestart \/ UNCHANGED vars
    BY <1>1, <1>5 DEF XrayLogs, WriteLine, NewlineArrives, Rotate, ReadError, AgentRestart, vars
<1>6. ASSUME NEW c \in Conns, Collect(c) \/ TickerStop(c) \/ Connect(c) \/ Drop(c) \/ Handle(c)
      PROVE  SweepInv'
    BY <1>1, <1>6 DEF Collect, Seed, Stat, Read, Save, Send, TickerStop, Connect, Drop, Handle,
                      Ingest, Upsert, HandlerEnd
<1>7. ASSUME NEW u \in Users, DeleteUser(u) \/ SetUserNodes(u)
      PROVE  SweepInv'
    BY <1>1, <1>7 DEF DeleteUser, SetUserNodes
<1> QED
    BY <1>2, <1>3, <1>4, <1>5, <1>6, <1>7 DEF Next

\* A row older than the cutoff is outside the 30-day count.
LEMMA PurgeKeepsCounts ==
    ASSUME TypeInv, SweepInv, PurgeDevices
    PROVE  \A u \in Users : RecentDevices(u)' = RecentDevices(u)
<1>1. /\ now' = now /\ sweep # 0 /\ now > Retention /\ sweep <= now - Retention
      /\ now \in Nat /\ Retention \in Nat /\ sweep \in Nat
    BY ConstAssumption DEF PurgeDevices, SweepInv, TypeInv, TypeOK
<1>2. \A e \in Devs : rows[e].last \in Nat /\ rows[e].conns \in Nat
    BY DEF TypeInv, TypeOK, Row
<1>3. ASSUME NEW e \in Devs
      PROVE  (rows'[e].conns > 0 /\ rows'[e].last >= now - Retention)
                 <=> (rows[e].conns > 0 /\ rows[e].last >= now - Retention)
    <2>1. rows'[e] = IF rows[e].last < sweep THEN NoRow ELSE rows[e]
        BY DEF PurgeDevices
    <2>2. CASE rows[e].last < sweep
        <3>1. rows'[e].conns = 0
            BY <2>1, <2>2 DEF NoRow
        <3>2. ~(rows[e].last >= now - Retention)
            BY <1>1, <1>2, <2>2
        <3> QED
            BY <3>1, <3>2
    <2>3. CASE ~(rows[e].last < sweep)
        BY <2>1, <2>3
    <2> QED
        BY <2>2, <2>3
<1>4. ASSUME NEW u \in Users
      PROVE  RecentDevices(u)' = RecentDevices(u)
    <2>1. RecentDevices(u) = UserDevices(u, now - Retention)
        BY <1>1 DEF RecentDevices
    <2>2. RecentDevices(u)' = {d[2] : d \in {e \in Devs :
              e[1] = u /\ rows'[e].conns > 0 /\ rows'[e].last >= now - Retention}}
        BY <1>1 DEF RecentDevices, UserDevices
    <2>3. {e \in Devs : e[1] = u /\ rows'[e].conns > 0 /\ rows'[e].last >= now - Retention}
            = {e \in Devs : e[1] = u /\ rows[e].conns > 0 /\ rows[e].last >= now - Retention}
        BY <1>3
    <2> QED
        BY <2>1, <2>2, <2>3 DEF UserDevices
<1> QED
    BY <1>4

\* The sweep takes no device away that the list of users still counts, although rows are
\* deleted with a cutoff computed earlier (Store.PurgeDevices, App.handleListUsers).
THEOREM SweepCorrect == Spec => SweepHidesNothing
<1>1. Init => SweepInv
    BY DEF Init, SweepInv
<1>2. TypeInv /\ SweepInv /\ [Next]_vars => SweepInv'
    BY SweepNext
<1>3. TypeInv /\ SweepInv =>
          [PurgeDevices => \A u \in Users : RecentDevices(u)' = RecentDevices(u)]_vars
    BY PurgeKeepsCounts
<1> QED
    BY <1>1, <1>2, <1>3, TypeInvariant, PTL DEF Spec, SweepHidesNothing

-----------------------------------------------------------------------------
(* Where observations are, between the log and the rows *)

\* An observation waits with a ticker, on a link or with a panel handler.
Places == {"tick", "up", "reader"} \X Conns \X Nat

\* What lies at a place, of the tickers only in the steps T of collect.
CarriedIn(tk, us, rs, T) ==
    [p \in Places |->
        IF p[1] = "tick" THEN IF p[3] = 0 /\ tk[p[2]].pc \in T THEN tk[p[2]].items ELSE {}
        ELSE IF p[1] = "reader" THEN IF p[3] = 0 THEN rs[p[2]].todo ELSE {}
        ELSE IF p[3] \in 1 .. Len(us[p[2]]) THEN us[p[2]][p[3]] ELSE {}]

Carried(T) == CarriedIn(tick, up, reader, T)

\* Nothing of D was not in C, and no place of C went to two places of D.
Moved(C, D) ==
    \E f \in [Places -> Places] :
        /\ \A p \in Places : D[p] \subseteq C[f[p]]
        /\ \A p, q \in Places : D[p] # {} /\ D[q] # {} /\ f[p] = f[q] => p = q

\* Places, by their kind.
LEMMA PlaceKinds ==
    ASSUME NEW p \in Places
    PROVE  /\ p[2] \in Conns /\ p[3] \in Nat
           /\ \/ p = <<"tick", p[2], p[3]>>
              \/ p = <<"up", p[2], p[3]>>
              \/ p = <<"reader", p[2], p[3]>>
BY DEF Places

\* What lies at the places of one connection, by its ticker, link and handler.
HeldAt(C, tk, us, rs, T, c) ==
    /\ C[<<"tick", c, 0>>] = IF tk.pc \in T THEN tk.items ELSE {}
    /\ C[<<"reader", c, 0>>] = rs.todo
    /\ \A n \in Nat \ {0} : C[<<"tick", c, n>>] = {} /\ C[<<"reader", c, n>>] = {}
    /\ \A n \in Nat : C[<<"up", c, n>>] = IF n \in 1 .. Len(us) THEN us[n] ELSE {}

\* What lies at each kind of place.
LEMMA CarriedAt ==
    ASSUME NEW tk \in [Conns -> Ticker], NEW us \in [Conns -> Seq(SUBSET Item)],
           NEW rs \in [Conns -> Reader], NEW T, NEW c \in Conns
    PROVE  HeldAt(CarriedIn(tk, us, rs, T), tk[c], us[c], rs[c], T, c)
<1>1. \A n \in Nat : <<"tick", c, n>> \in Places /\ <<"reader", c, n>> \in Places
                     /\ <<"up", c, n>> \in Places
    BY DEF Places
<1>2. <<"tick", c, 0>> \in Places /\ <<"reader", c, 0>> \in Places
    BY <1>1
<1> QED
    BY <1>1, <1>2 DEF CarriedIn, HeldAt

\* What lies at a place is a set of observations.
LEMMA CarriedType ==
    ASSUME NEW tk \in [Conns -> Ticker], NEW us \in [Conns -> Seq(SUBSET Item)],
           NEW rs \in [Conns -> Reader], NEW T
    PROVE  CarriedIn(tk, us, rs, T) \in [Places -> SUBSET Item]
<1>1. ASSUME NEW p \in Places PROVE CarriedIn(tk, us, rs, T)[p] \in SUBSET Item
    <2>1. p[2] \in Conns /\ tk[p[2]].items \in SUBSET Item /\ rs[p[2]].todo \in SUBSET Item
        BY PlaceKinds DEF Ticker, Reader
    <2>2. \A n \in 1 .. Len(us[p[2]]) : us[p[2]][n] \in SUBSET Item
        BY <2>1, ElementOfSeq
    <2> QED
        BY <2>1, <2>2 DEF CarriedIn
<1> QED
    BY <1>1 DEF CarriedIn

\* When every ticker, link and handler holds no more than before, nothing moved.
LEMMA FewerMoved ==
    ASSUME NEW t1 \in [Conns -> Ticker], NEW u1 \in [Conns -> Seq(SUBSET Item)],
           NEW r1 \in [Conns -> Reader],
           NEW t2 \in [Conns -> Ticker], NEW u2 \in [Conns -> Seq(SUBSET Item)],
           NEW r2 \in [Conns -> Reader], NEW T1, NEW T2,
           \A c \in Conns :
               /\ t2[c].pc \in T2 =>
                        t2[c].items = {} \/ (t1[c].pc \in T1 /\ t2[c].items \subseteq t1[c].items)
               /\ Len(u2[c]) <= Len(u1[c])
               /\ \A i \in 1 .. Len(u2[c]) : u2[c][i] \subseteq u1[c][i]
               /\ r2[c].todo \subseteq r1[c].todo
    PROVE  Moved(CarriedIn(t1, u1, r1, T1), CarriedIn(t2, u2, r2, T2))
<1> DEFINE C == CarriedIn(t1, u1, r1, T1)
           D == CarriedIn(t2, u2, r2, T2)
           f == [p \in Places |-> p]
<1>1. ASSUME NEW p \in Places PROVE D[p] \subseteq C[f[p]]
    <2>1. PICK c \in Conns, n \in Nat :
              p = <<"tick", c, n>> \/ p = <<"up", c, n>> \/ p = <<"reader", c, n>>
        BY PlaceKinds
    <2>2. Len(u1[c]) \in Nat /\ Len(u2[c]) \in Nat
        BY LenProperties
    <2>3. f[p] = p
        OBVIOUS
    <2>7. HeldAt(C, t1[c], u1[c], r1[c], T1, c) /\ HeldAt(D, t2[c], u2[c], r2[c], T2, c)
        BY CarriedAt
    <2> HIDE DEF f, C, D
    <2>4. CASE p = <<"tick", c, n>>
        <3>1. CASE n = 0
            <4>1. D[p] = IF t2[c].pc \in T2 THEN t2[c].items ELSE {}
                BY <2>4, <3>1, <2>7 DEF HeldAt
            <4>2. C[p] = IF t1[c].pc \in T1 THEN t1[c].items ELSE {}
                BY <2>4, <3>1, <2>7 DEF HeldAt
            <4> QED
                BY <2>3, <4>1, <4>2
        <3>2. CASE n # 0
            <4>1. D[p] = {}
                BY <2>4, <3>2, <2>7 DEF HeldAt
            <4> QED
                BY <4>1
        <3> QED
            BY <3>1, <3>2
    <2>5. CASE p = <<"reader", c, n>>
        <3>1. CASE n = 0
            <4>1. D[p] = r2[c].todo /\ C[p] = r1[c].todo
                BY <2>5, <3>1, <2>7 DEF HeldAt
            <4> QED
                BY <2>3, <4>1
        <3>2. CASE n # 0
            <4>1. D[p] = {}
                BY <2>5, <3>2, <2>7 DEF HeldAt
            <4> QED
                BY <4>1
        <3> QED
            BY <3>1, <3>2
    <2>6. CASE p = <<"up", c, n>>
        <3>1. D[p] = IF n \in 1 .. Len(u2[c]) THEN u2[c][n] ELSE {}
            BY <2>6, <2>7 DEF HeldAt
        <3>2. C[p] = IF n \in 1 .. Len(u1[c]) THEN u1[c][n] ELSE {}
            BY <2>6, <2>7 DEF HeldAt
        <3> QED
            BY <2>2, <2>3, <3>1, <3>2
    <2> QED
        BY <2>1, <2>4, <2>5, <2>6
<1>2. f \in [Places -> Places] /\ \A p, q \in Places : f[p] = f[q] => p = q
    OBVIOUS
<1> HIDE DEF f, C, D
<1>3. Moved(C, D)
    BY <1>1, <1>2 DEF Moved
<1> QED
    BY <1>3 DEF C, D

\* The tickers in the steps T2 hold no more than they did in the steps T1.
FewerTicks(t1, T1, t2, T2) ==
    \A c \in Conns : t2[c].pc \in T2 =>
        t2[c].items = {} \/ (t1[c].pc \in T1 /\ t2[c].items \subseteq t1[c].items)

\* Links and handlers hold no more than they did.
FewerUp(u1, u2) ==
    \A c \in Conns : /\ Len(u2[c]) <= Len(u1[c])
                     /\ \A i \in 1 .. Len(u2[c]) : u2[c][i] \subseteq u1[c][i]

FewerTodo(r1, r2) == \A c \in Conns : r2[c].todo \subseteq r1[c].todo

\* FewerMoved for a step.
LEMMA FewerStep ==
    ASSUME TypeOK, TypeOK', NEW T1, NEW T2,
           FewerTicks(tick, T1, tick', T2), FewerUp(up, up'), FewerTodo(reader, reader')
    PROVE  Moved(Carried(T1), Carried(T2)')
<1>1. /\ tick \in [Conns -> Ticker] /\ tick' \in [Conns -> Ticker]
      /\ up \in [Conns -> Seq(SUBSET Item)] /\ up' \in [Conns -> Seq(SUBSET Item)]
      /\ reader \in [Conns -> Reader] /\ reader' \in [Conns -> Reader]
    BY DEF TypeOK
<1>2. Moved(CarriedIn(tick, up, reader, T1), CarriedIn(tick', up', reader', T2))
    BY <1>1, FewerMoved DEF FewerTicks, FewerUp, FewerTodo
<1> QED
    BY <1>2 DEF Carried

\* What did not change is no more than it was.
LEMMA FewerSame ==
    ASSUME TypeOK
    PROVE  /\ \A T : FewerTicks(tick, T, tick, T)
           /\ FewerUp(up, up) /\ FewerTodo(reader, reader)
<1>1. \A c \in Conns : Len(up[c]) \in Nat
    BY LenProperties DEF TypeOK
<1> QED
    BY <1>1 DEF FewerTicks, FewerUp, FewerTodo

\* Dropped frames are the last of a link.
LEMMA FewerPrefix ==
    ASSUME NEW s \in Seq(SUBSET Item), NEW n \in 0 .. Len(s)
    PROVE  /\ Len(SubSeq(s, 1, n)) <= Len(s)
           /\ \A i \in 1 .. Len(SubSeq(s, 1, n)) : SubSeq(s, 1, n)[i] \subseteq s[i]
<1>1. Len(s) \in Nat
    BY LenProperties
<1>2. Len(SubSeq(s, 1, n)) = n /\ \A i \in 1 .. n : SubSeq(s, 1, n)[i] = s[i]
    BY UpPrefix
<1> QED
    BY <1>1, <1>2

\* The steps of collect the proofs below count observations in.
Counting == {{"save", "send"}, {"send"}}

\* Saving the offset moves the observations on to be sent.
LEMMA SaveMoved ==
    ASSUME TypeOK, TypeOK', NEW c \in Conns, Save(c), NEW T \in Counting
    PROVE  Moved(Carried({"save", "send"}), Carried(T)')
<1>1. up' = up /\ reader' = reader
    BY DEF Save, netVars
<1>2. tick' = [tick EXCEPT ![c] = IF tick[c].items = {} THEN TickerIdle
                                  ELSE [tick[c] EXCEPT !.pc = "send"]]
    BY DEF Save
<1>3. tick[c].pc = "save" /\ tick \in [Conns -> Ticker]
    BY DEF Save, TypeOK
<1>4. tick'[c].items \subseteq tick[c].items /\ \A o \in Conns \ {c} : tick'[o] = tick[o]
    BY <1>2, <1>3 DEF Ticker, TickerIdle
<1>5. FewerTicks(tick, {"save", "send"}, tick', T)
    BY <1>3, <1>4 DEF FewerTicks, Counting
<1> QED
    BY <1>1, <1>5, FewerSame, FewerStep

\* Steps of the agent other than reading, saving and sending move nothing.
LEMMA AgentMoved ==
    ASSUME TypeOK, TypeOK', NEW T \in Counting,
           \/ \E c \in Conns : Seed(c) \/ Stat(c) \/ TickerStop(c) \/ Connect(c)
           \/ ReadError \/ AgentRestart
    PROVE  Moved(Carried(T), Carried(T)')
<1>t. tick \in [Conns -> Ticker] /\ up \in [Conns -> Seq(SUBSET Item)]
      /\ reader \in [Conns -> Reader]
    BY DEF TypeOK
<1>T. {"idle", "off", "read"} \cap T = {}
    BY DEF Counting
<1>s. \A X : FewerTicks(tick, X, tick, X)
    BY FewerSame
<1>u. FewerUp(up, up) /\ FewerTodo(reader, reader)
    BY FewerSame
<1>1. ASSUME NEW c \in Conns, Stat(c) PROVE FewerTicks(tick, T, tick', T)
    <2>1. tick' = tick \/ tick' = [tick EXCEPT ![c].pc = "read"]
        BY <1>1 DEF Stat
    <2>2. CASE tick' = [tick EXCEPT ![c].pc = "read"]
        <3>1. tick'[c].pc = "read" /\ \A o \in Conns \ {c} : tick'[o] = tick[o]
            BY <1>t, <2>2 DEF Ticker
        <3> QED
            BY <1>T, <3>1 DEF FewerTicks
    <2> QED
        BY <1>s, <2>1, <2>2
<1>2. ASSUME NEW c \in Conns, TickerStop(c) \/ Connect(c) PROVE FewerTicks(tick, T, tick', T)
    <2>1. tick'[c].items = {} /\ \A o \in Conns \ {c} : tick'[o] = tick[o]
        BY <1>2, <1>t DEF TickerStop, Connect, TickerOff, TickerIdle
    <2> QED
        BY <2>1 DEF FewerTicks
<1>3. ASSUME NEW c \in Conns, Connect(c) PROVE FewerUp(up, up') /\ FewerTodo(reader, reader')
    <2>1. PICK n \in 0 .. UpCap :
              up' = [o \in Conns |-> IF o = c THEN <<>>
                                     ELSE IF n < Len(up[o]) THEN SubSeq(up[o], 1, n)
                                          ELSE up[o]]
        BY <1>3 DEF Connect
    <2>2. ASSUME NEW o \in Conns
          PROVE  /\ Len(up'[o]) <= Len(up[o])
                 /\ \A i \in 1 .. Len(up'[o]) : up'[o][i] \subseteq up[o][i]
        <3>1. Len(up[o]) \in Nat
            BY <1>t, LenProperties
        <3>2. CASE o = c
            <4>1. up'[o] = <<>>
                BY <2>1, <3>2
            <4>2. Len(up'[o]) = 0
                BY <4>1
            <4> QED
                BY <3>1, <4>2
        <3>3. CASE o # c /\ n < Len(up[o])
            <4>1. up'[o] = SubSeq(up[o], 1, n) /\ n \in 0 .. Len(up[o])
                BY <2>1, <3>1, <3>3
            <4> QED
                BY <1>t, <4>1, FewerPrefix
        <3>4. CASE o # c /\ ~(n < Len(up[o]))
            <4>1. up'[o] = up[o]
                BY <2>1, <3>4
            <4> QED
                BY <3>1, <4>1
        <3> QED
            BY <3>2, <3>3, <3>4
    <2>3. reader'[c].todo = {} /\ \A o \in Conns \ {c} : reader'[o] = reader[o]
        BY <1>3, <1>t DEF Connect, ReaderIdle
    <2> QED
        BY <2>2, <2>3 DEF FewerUp, FewerTodo
<1>4. ASSUME AgentRestart PROVE FewerTicks(tick, T, tick', T)
    BY <1>4 DEF AgentRestart, TickerOff, FewerTicks
<1>5. CASE \E c \in Conns : Seed(c) \/ Stat(c) \/ TickerStop(c) \/ Connect(c)
    <2>1. PICK c \in Conns : Seed(c) \/ Stat(c) \/ TickerStop(c) \/ Connect(c)
        BY <1>5
    <2>2. FewerTicks(tick, T, tick', T)
        BY <1>1, <1>2, <1>s, <2>1 DEF Seed
    <2>3. FewerUp(up, up') /\ FewerTodo(reader, reader')
        BY <1>3, <1>u, <2>1 DEF Seed, Stat, TickerStop, netVars
    <2> QED
        BY <2>2, <2>3, FewerStep
<1>6. CASE ReadError
    BY <1>6, <1>s, <1>u, FewerStep DEF ReadError, netVars
<1>7. CASE AgentRestart
    <2>1. up' = up /\ reader' = reader
        BY <1>7 DEF AgentRestart
    <2> QED
        BY <1>4, <1>7, <1>u, <2>1, FewerStep
<1> QED
    BY <1>5, <1>6, <1>7

\* Lost links and the panel's steps, apart from taking a frame, move nothing.
LEMMA PanelMoved ==
    ASSUME TypeOK, TypeOK', NEW T \in Counting,
           \/ \E c \in Conns : Drop(c) \/ Upsert(c) \/ HandlerEnd(c)
           \/ PanelRestart
    PROVE  Moved(Carried(T), Carried(T)')
<1> USE DEF agentVars
<1>t. tick \in [Conns -> Ticker] /\ up \in [Conns -> Seq(SUBSET Item)]
      /\ reader \in [Conns -> Reader]
    BY DEF TypeOK
<1>s. FewerTicks(tick, T, tick, T) /\ FewerUp(up, up) /\ FewerTodo(reader, reader)
    BY FewerSame
<1>1. ASSUME NEW c \in Conns, Drop(c) PROVE FewerUp(up, up')
    <2>1. PICK n \in 0 .. Len(up[c]) : up' = [up EXCEPT ![c] = SubSeq(up[c], 1, n)]
        BY <1>1 DEF Drop
    <2>2. up'[c] = SubSeq(up[c], 1, n) /\ \A o \in Conns \ {c} : up'[o] = up[o]
        BY <1>t, <2>1
    <2>3. /\ Len(SubSeq(up[c], 1, n)) <= Len(up[c])
          /\ \A i \in 1 .. Len(SubSeq(up[c], 1, n)) : SubSeq(up[c], 1, n)[i] \subseteq up[c][i]
        BY <1>t, FewerPrefix
    <2> QED
        BY <1>s, <2>2, <2>3 DEF FewerUp
<1>2. ASSUME NEW c \in Conns, Upsert(c) PROVE FewerTodo(reader, reader')
    <2>1. PICK it \in reader[c].todo :
              reader' = [reader EXCEPT ![c] = Applying(reader[c].todo \ {it})]
        BY <1>2 DEF Upsert
    <2> QED
        BY <1>t, <2>1 DEF Applying, FewerTodo
<1>3. ASSUME NEW c \in Conns, HandlerEnd(c) PROVE FewerTodo(reader, reader')
    BY <1>3, <1>t DEF HandlerEnd, NoReader, FewerTodo
<1>4. CASE \E c \in Conns : Drop(c) \/ Upsert(c) \/ HandlerEnd(c)
    <2>1. PICK c \in Conns : Drop(c) \/ Upsert(c) \/ HandlerEnd(c)
        BY <1>4
    <2>2. tick' = tick
        BY <2>1 DEF Drop, Upsert, HandlerEnd
    <2>3. FewerUp(up, up') /\ FewerTodo(reader, reader')
        BY <1>1, <1>2, <1>3, <1>s, <2>1 DEF Drop, Upsert, HandlerEnd
    <2> QED
        BY <1>s, <2>2, <2>3, FewerStep
<1>5. CASE PanelRestart
    <2>1. FewerUp(up, up')
        <3>1. \A c \in Conns : Len(up[c]) \in Nat
            BY <1>t, LenProperties
        <3>2. \A c \in Conns : up'[c] = <<>>
            BY <1>5 DEF PanelRestart
        <3>3. \A c \in Conns : Len(up'[c]) = 0
            BY <3>2
        <3> QED
            BY <3>1, <3>3 DEF FewerUp
    <2>2. FewerTodo(reader, reader')
        BY <1>5 DEF PanelRestart, NoReader, FewerTodo
    <2>3. tick' = tick
        BY <1>5 DEF PanelRestart
    <2> QED
        BY <1>s, <2>1, <2>2, <2>3, FewerStep
<1> QED
    BY <1>4, <1>5

\* A frame sent goes to the end of the link; one that is not goes nowhere.
LEMMA SendMoved ==
    ASSUME TypeOK, TypeOK', NEW T \in Counting, NEW c \in Conns, Send(c)
    PROVE  Moved(Carried(T), Carried(T)')
<1>t. /\ tick \in [Conns -> Ticker] /\ up \in [Conns -> Seq(SUBSET Item)]
      /\ reader \in [Conns -> Reader]
      /\ tick' \in [Conns -> Ticker] /\ up' \in [Conns -> Seq(SUBSET Item)]
      /\ reader' \in [Conns -> Reader]
    BY DEF TypeOK
<1>s. FewerUp(up, up) /\ FewerTodo(reader, reader)
    BY FewerSame
<1>n. reader' = reader /\ tick[c].pc = "send" /\ "send" \in T
    BY DEF Send, Counting
<1>1. CASE up' = up
    <2>1. tick'[c].items = {} /\ \A o \in Conns \ {c} : tick'[o] = tick[o]
        BY <1>t DEF Send, TickerOff, TickerIdle
    <2>2. FewerTicks(tick, T, tick', T)
        BY <2>1 DEF FewerTicks
    <2> QED
        BY <1>1, <1>n, <1>s, <2>2, FewerStep
<1>2. CASE up' # up
    <2> DEFINE n == Len(up[c]) + 1
               from == <<"tick", c, 0>>
               to == <<"up", c, n>>
               f == [p \in Places |-> IF p = to THEN from ELSE p]
               C == CarriedIn(tick, up, reader, T)
               D == CarriedIn(tick', up', reader', T)
    <2>1. /\ up' = [up EXCEPT ![c] = Append(up[c], tick[c].items)]
          /\ tick' = [tick EXCEPT ![c] = TickerIdle]
        BY <1>2 DEF Send
    <2>2. /\ \A o \in Conns \ {c} : tick'[o] = tick[o] /\ up'[o] = up[o]
          /\ tick'[c].items = {} /\ up'[c] = Append(up[c], tick[c].items)
        BY <1>t, <2>1 DEF TickerIdle
    <2>3. /\ Len(up[c]) \in Nat /\ Len(up'[c]) = n /\ up'[c][n] = tick[c].items
          /\ \A i \in 1 .. Len(up[c]) : up'[c][i] = up[c][i]
        <3>1. up[c] \in Seq(SUBSET Item) /\ tick[c].items \in SUBSET Item
            BY <1>t DEF Ticker
        <3>2. Len(up[c]) \in Nat
            BY <3>1, LenProperties
        <3> QED
            BY <2>2, <3>1, <3>2, AppendProperties
    <2>4. from \in Places /\ to \in Places
        BY <2>3 DEF Places
    <2>5. \A o \in Conns : /\ HeldAt(C, tick[o], up[o], reader[o], T, o)
                           /\ HeldAt(D, tick'[o], up'[o], reader'[o], T, o)
        BY <1>t, CarriedAt
    <2>6. C[from] = tick[c].items /\ D[from] = {} /\ D[to] = tick[c].items
        <3>1. HeldAt(C, tick[c], up[c], reader[c], T, c)
              /\ HeldAt(D, tick'[c], up'[c], reader'[c], T, c)
            BY <2>5
        <3>2. n \in Nat /\ n \in 1 .. Len(up'[c])
            BY <2>3
        <3> HIDE DEF C, D, n
        <3>3. D[to] = up'[c][n]
            BY <3>1, <3>2 DEF HeldAt
        <3> QED
            BY <1>n, <2>2, <2>3, <3>1, <3>3 DEF HeldAt
    <2>7. ASSUME NEW p \in Places, p # to PROVE D[p] \subseteq C[p]
        <3>1. PICK o \in Conns, m \in Nat :
                  p = <<"tick", o, m>> \/ p = <<"up", o, m>> \/ p = <<"reader", o, m>>
            BY PlaceKinds
        <3>2. /\ HeldAt(C, tick[o], up[o], reader[o], T, o)
              /\ HeldAt(D, tick'[o], up'[o], reader'[o], T, o)
            BY <2>5
        <3> HIDE DEF C, D
        <3>3. CASE p = <<"tick", o, m>>
            <4>1. CASE m = 0
                BY <2>2, <3>2, <3>3, <4>1 DEF HeldAt
            <4>2. CASE m # 0
                <5>1. D[p] = {}
                    BY <3>2, <3>3, <4>2 DEF HeldAt
                <5> QED
                    BY <5>1
            <4> QED
                BY <4>1, <4>2
        <3>4. CASE p = <<"reader", o, m>>
            <4>1. CASE m = 0
                BY <1>n, <3>2, <3>4, <4>1 DEF HeldAt
            <4>2. CASE m # 0
                <5>1. D[p] = {}
                    BY <3>2, <3>4, <4>2 DEF HeldAt
                <5> QED
                    BY <5>1
            <4> QED
                BY <4>1, <4>2
        <3>5. CASE p = <<"up", o, m>>
            <4>1. D[p] = (IF m \in 1 .. Len(up'[o]) THEN up'[o][m] ELSE {})
                  /\ C[p] = (IF m \in 1 .. Len(up[o]) THEN up[o][m] ELSE {})
                BY <3>2, <3>5 DEF HeldAt
            <4>2. CASE o # c
                BY <2>2, <4>1, <4>2
            <4>3. CASE o = c
                <5>1. m # n
                    BY <2>7, <3>5, <4>3
                <5>2. m \in 1 .. Len(up'[c]) => m \in 1 .. Len(up[c])
                    BY <2>3, <5>1
                <5> QED
                    BY <2>3, <4>1, <4>3, <5>2
            <4> QED
                BY <4>2, <4>3
        <3> QED
            BY <3>1, <3>3, <3>4, <3>5
    <2>8. f \in [Places -> Places] /\ \A p \in Places : f[p] = IF p = to THEN from ELSE p
        BY <2>4
    <2> HIDE DEF f, C, D, from, to
    <2>9. \A p \in Places : D[p] \subseteq C[f[p]]
        BY <2>6, <2>7, <2>8
    <2>10. \A p, q \in Places : D[p] # {} /\ D[q] # {} /\ f[p] = f[q] => p = q
        BY <2>6, <2>8
    <2>11. Moved(C, D)
        BY <2>8, <2>9, <2>10 DEF Moved
    <2> QED
        BY <2>11 DEF C, D, Carried
<1> QED
    BY <1>1, <1>2

\* A frame taken from the link is with the handler, or gone, and the rest moves up.
LEMMA IngestMoved ==
    ASSUME TypeOK, TypeOK', NEW T \in Counting, NEW c \in Conns, Ingest(c)
    PROVE  Moved(Carried(T), Carried(T)')
<1>t. /\ tick \in [Conns -> Ticker] /\ up \in [Conns -> Seq(SUBSET Item)]
      /\ reader \in [Conns -> Reader]
      /\ tick' \in [Conns -> Ticker] /\ up' \in [Conns -> Seq(SUBSET Item)]
      /\ reader' \in [Conns -> Reader]
    BY DEF TypeOK
<1> DEFINE hand == <<"reader", c, 0>>
           first == <<"up", c, 1>>
           taken == reader' # reader
           shifted(p) == p[1] = "up" /\ p[2] = c
           f == [p \in Places |-> IF p = hand /\ taken THEN first
                                  ELSE IF shifted(p) THEN <<"up", c, p[3] + 1>> ELSE p]
           C == CarriedIn(tick, up, reader, T)
           D == CarriedIn(tick', up', reader', T)
<1>1. /\ tick' = tick
      /\ up[c] # <<>> /\ up' = [up EXCEPT ![c] = Tail(up[c])]
      /\ taken => reader' = [reader EXCEPT ![c] =
                      Applying({it \in Head(up[c]) : it.dev[1] \in UsersForNode})]
    BY DEF Ingest, agentVars
<1>2. /\ up[c] \in Seq(SUBSET Item) /\ Len(up[c]) \in Nat /\ Len(up[c]) >= 1 /\ Head(up[c]) = up[c][1]
      /\ Len(up'[c]) = Len(up[c]) - 1
      /\ \A i \in 1 .. Len(up'[c]) : up'[c][i] = up[c][i + 1]
    <2>1. up[c] \in Seq(SUBSET Item) /\ up'[c] = Tail(up[c])
        BY <1>t, <1>1
    <2>2. Len(up[c]) \in Nat /\ Len(up[c]) # 0
        BY <1>1, <2>1, LenProperties, EmptySeq
    <2>3. /\ Head(up[c]) = up[c][1] /\ Len(Tail(up[c])) = Len(up[c]) - 1
          /\ \A i \in 1 .. Len(Tail(up[c])) : Tail(up[c])[i] = up[c][i + 1]
        BY <1>1, <2>1, HeadTailProperties
    <2> QED
        BY <2>1, <2>2, <2>3
<1>3. \A o \in Conns \ {c} : up'[o] = up[o] /\ reader'[o] = reader[o]
    <2>1. \A o \in Conns \ {c} : up'[o] = up[o]
        BY <1>t, <1>1
    <2>2. \A o \in Conns \ {c} : reader'[o] = reader[o]
        BY <1>t, <1>1
    <2> QED
        BY <2>1, <2>2
<1>4. taken => reader'[c].todo \subseteq up[c][1]
    BY <1>t, <1>1, <1>2 DEF Applying
<1>5. \A o \in Conns : /\ HeldAt(C, tick[o], up[o], reader[o], T, o)
                       /\ HeldAt(D, tick'[o], up'[o], reader'[o], T, o)
    BY <1>t, CarriedAt
<1>6. hand \in Places /\ first \in Places
      /\ \A p \in Places : shifted(p) => <<"up", c, p[3] + 1>> \in Places
    BY DEF Places
<1>7. /\ f \in [Places -> Places]
      /\ \A p \in Places : f[p] = IF p = hand /\ taken THEN first
                                  ELSE IF shifted(p) THEN <<"up", c, p[3] + 1>> ELSE p
    <2> HIDE DEF hand, first, taken, shifted
    <2> QED
        BY <1>6
<1>8. D[<<"up", c, 0>>] = {}
    <2>1. HeldAt(D, tick'[c], up'[c], reader'[c], T, c)
        BY <1>5
    <2> HIDE DEF D
    <2> QED
        BY <2>1, <1>2 DEF HeldAt
<1>9. ASSUME NEW p \in Places PROVE D[p] \subseteq C[f[p]]
    <2>1. PICK o \in Conns, m \in Nat :
              p = <<"tick", o, m>> \/ p = <<"up", o, m>> \/ p = <<"reader", o, m>>
        BY PlaceKinds
    <2>2. /\ HeldAt(C, tick[o], up[o], reader[o], T, o)
          /\ HeldAt(D, tick'[o], up'[o], reader'[o], T, o)
          /\ HeldAt(C, tick[c], up[c], reader[c], T, c)
        BY <1>5
    <2> HIDE DEF C, D, f
    <2>3. CASE p = <<"tick", o, m>>
        <3>1. f[p] = p
            BY <1>7, <2>3
        <3>2. CASE m = 0
            BY <1>1, <2>2, <2>3, <3>1, <3>2 DEF HeldAt
        <3>3. CASE m # 0
            <4>1. D[p] = {}
                BY <2>2, <2>3, <3>3 DEF HeldAt
            <4> QED
                BY <4>1
        <3> QED
            BY <3>2, <3>3
    <2>4. CASE p = <<"reader", o, m>>
        <3>1. CASE m # 0
            <4>1. D[p] = {}
                BY <2>2, <2>4, <3>1 DEF HeldAt
            <4> QED
                BY <4>1
        <3>2. CASE m = 0 /\ o = c /\ taken
            <4>1. p = hand /\ f[p] = first
                BY <1>7, <2>4, <3>2
            <4>2. D[p] = reader'[c].todo
                BY <2>2, <2>4, <3>2 DEF HeldAt
            <4>3. C[first] = up[c][1]
                <5>1. 1 \in 1 .. Len(up[c]) /\ 1 \in Nat
                    BY <1>2
                <5> QED
                    BY <2>2, <5>1 DEF HeldAt
            <4> QED
                BY <1>4, <3>2, <4>1, <4>2, <4>3
        <3>3. CASE m = 0 /\ ~(o = c /\ taken)
            <4>1. f[p] = p
                BY <1>7, <2>4, <3>3
            <4>2. D[p] = reader'[o].todo /\ C[p] = reader[o].todo
                BY <2>2, <2>4, <3>3 DEF HeldAt
            <4>3. reader'[o] = reader[o]
                BY <1>3, <3>3
            <4> QED
                BY <4>1, <4>2, <4>3
        <3> QED
            BY <3>1, <3>2, <3>3
    <2>5. CASE p = <<"up", o, m>>
        <3>1. D[p] = (IF m \in 1 .. Len(up'[o]) THEN up'[o][m] ELSE {})
            BY <2>2, <2>5 DEF HeldAt
        <3>2. CASE o = c
            <4>1. f[p] = <<"up", c, m + 1>>
                BY <1>7, <2>5, <3>2
            <4>2. m + 1 \in Nat /\ (m \in 1 .. Len(up'[c]) => m + 1 \in 1 .. Len(up[c]))
                BY <1>2
            <4>3. C[<<"up", c, m + 1>>] = IF m + 1 \in 1 .. Len(up[c]) THEN up[c][m + 1] ELSE {}
                BY <2>2, <4>2 DEF HeldAt
            <4> QED
                BY <1>2, <3>1, <3>2, <4>1, <4>2, <4>3
        <3>3. CASE o # c
            <4>1. f[p] = p
                BY <1>7, <2>5, <3>3
            <4>2. C[p] = (IF m \in 1 .. Len(up[o]) THEN up[o][m] ELSE {})
                BY <2>2, <2>5 DEF HeldAt
            <4> QED
                BY <1>3, <3>1, <3>3, <4>1, <4>2
        <3> QED
            BY <3>2, <3>3
    <2> QED
        BY <2>1, <2>3, <2>4, <2>5
<1>10. ASSUME NEW p \in Places, NEW q \in Places, D[p] # {}, D[q] # {}, f[p] = f[q]
       PROVE  p = q
    <2>1. /\ p[3] \in Nat /\ (p = <<"tick", p[2], p[3]>> \/ p = <<"up", p[2], p[3]>>
                              \/ p = <<"reader", p[2], p[3]>>)
          /\ q[3] \in Nat /\ (q = <<"tick", q[2], q[3]>> \/ q = <<"up", q[2], q[3]>>
                              \/ q = <<"reader", q[2], q[3]>>)
        BY PlaceKinds
    <2>2. p # <<"up", c, 0>> /\ q # <<"up", c, 0>>
        BY <1>8, <1>10
    <2> HIDE DEF D, f, taken
    <2>3. f[p] = (IF p = hand /\ taken THEN first
                  ELSE IF shifted(p) THEN <<"up", c, p[3] + 1>> ELSE p)
          /\ f[q] = (IF q = hand /\ taken THEN first
                     ELSE IF shifted(q) THEN <<"up", c, q[3] + 1>> ELSE q)
        BY <1>7
    <2>4. ~(p = hand /\ taken) => f[p] # first
        BY <2>1, <2>2, <2>3
    <2>5. ~(q = hand /\ taken) => f[q] # first
        BY <2>1, <2>2, <2>3
    <2>6. CASE (p = hand /\ taken) \/ (q = hand /\ taken)
        BY <1>10, <2>3, <2>4, <2>5, <2>6
    <2>7. CASE ~(p = hand /\ taken) /\ ~(q = hand /\ taken)
        <3>1. /\ f[p] = IF shifted(p) THEN <<"up", c, p[3] + 1>> ELSE p
              /\ f[q] = IF shifted(q) THEN <<"up", c, q[3] + 1>> ELSE q
            BY <2>3, <2>7
        <3>2. /\ shifted(p) => p = <<"up", c, p[3]>>
              /\ shifted(q) => q = <<"up", c, q[3]>>
            BY <2>1
        <3>6. shifted(p) => shifted(q)
            <4> SUFFICES ASSUME shifted(p), ~shifted(q) PROVE FALSE
                OBVIOUS
            <4>1. q = <<"up", c, p[3] + 1>>
                BY <1>10, <3>1
            <4> QED
                BY <4>1
        <3>7. shifted(q) => shifted(p)
            <4> SUFFICES ASSUME shifted(q), ~shifted(p) PROVE FALSE
                OBVIOUS
            <4>1. p = <<"up", c, q[3] + 1>>
                BY <1>10, <3>1
            <4> QED
                BY <4>1
        <3>3. CASE shifted(p)
            <4>1. <<"up", c, p[3] + 1>> = <<"up", c, q[3] + 1>>
                BY <1>10, <3>1, <3>3, <3>6
            <4>2. p[3] = q[3]
                BY <2>1, <4>1
            <4> QED
                BY <3>2, <3>3, <3>6, <4>2
        <3>4. CASE ~shifted(p)
            BY <1>10, <3>1, <3>4, <3>7
        <3> QED
            BY <3>3, <3>4
    <2> QED
        BY <2>6, <2>7
<1> HIDE DEF f, C, D
<1>11. Moved(C, D)
    BY <1>7, <1>9, <1>10 DEF Moved
<1> QED
    BY <1>11 DEF C, D, Carried

\* Apart from reading, which finds observations, and from saving, which passes them on, no
\* step adds any.
LEMMA StepMoved ==
    ASSUME TypeOK, TypeOK', [Next]_vars, NEW T \in Counting,
           \A c \in Conns : ~Read(c) /\ ~Save(c)
    PROVE  Moved(Carried(T), Carried(T)')
<1> USE DEF agentVars, netVars, dbVars, history
<1>1. ASSUME UNCHANGED <<tick, up, reader>> PROVE Moved(Carried(T), Carried(T)')
    BY <1>1, FewerSame, FewerStep
<1>2. CASE Tick \/ XrayLogs \/ NewlineArrives \/ Rotate \/ SweepBegin \/ PurgeDevices
          \/ UNCHANGED vars
    BY <1>1, <1>2 DEF Tick, XrayLogs, WriteLine, NewlineArrives, Rotate, SweepBegin, PurgeDevices,
                      vars
<1>3. ASSUME NEW u \in Users, DeleteUser(u) \/ SetUserNodes(u)
      PROVE  Moved(Carried(T), Carried(T)')
    BY <1>1, <1>3 DEF DeleteUser, SetUserNodes
<1>4. ASSUME NEW c \in Conns, Collect(c) \/ TickerStop(c) \/ Connect(c) \/ Drop(c) \/ Handle(c)
      PROVE  Moved(Carried(T), Carried(T)')
    BY <1>4, AgentMoved, PanelMoved, SendMoved, IngestMoved DEF Collect, Handle
<1>5. CASE ReadError \/ AgentRestart \/ PanelRestart
    BY <1>5, AgentMoved, PanelMoved
<1> QED
    BY <1>2, <1>3, <1>4, <1>5 DEF Next

-----------------------------------------------------------------------------
(* No ghost clients *)

\* Device d connected at this stamp of Xray's or later.
Dated(d, stamp) == lastAt[d] > 0 /\ stamp <= lastAt[d] + Skew

\* No device connected in the future.
PastInv == now >= 1 /\ \A d \in Devs : lastAt[d] <= now

\* A line's stamp is that of a connection.
LogDated ==
    \A i \in 1 .. Len(log.lines) : log.lines[i].stamp > 0 /\ Dated(log.lines[i].dev, log.lines[i].stamp)

\* An observation is of the past, and of a connection.
Told(it) == it.last > 0 /\ it.last <= now /\ Dated(it.dev, it.last)

ItemsTold == \A p \in Places : \A it \in Carried({"save", "send"})[p] : Told(it)

\* A row is of the past, and one that counts is of a connection.
RowTold(d) == rows[d].last <= now /\ (rows[d].conns > 0 => Dated(d, rows[d].last))

RowsTold == \A d \in Devs : RowTold(d)

GhostInv == PastInv /\ LogDated /\ ItemsTold /\ RowsTold

\* Connections are the clock's, and neither goes back.
LEMMA ClockStep ==
    ASSUME TypeInv, PastInv, [Next]_vars
    PROVE  /\ now <= now' /\ PastInv'
           /\ \A d \in Devs : lastAt[d] <= lastAt'[d]
<1> USE DEF agentVars, netVars, dbVars, history
<1>t. /\ now \in Nat /\ lastAt \in [Devs -> Nat] /\ now >= 1
      /\ \A d \in Devs : lastAt[d] \in Nat /\ lastAt[d] <= now
    BY DEF TypeInv, TypeOK, PastInv
<1> DEFINE Goal == now <= now' /\ PastInv' /\ \A d \in Devs : lastAt[d] <= lastAt'[d]
<1>1. ASSUME now' = now, lastAt' = lastAt PROVE Goal
    BY <1>1, <1>t DEF PastInv
<1>2. CASE Tick
    <2>1. now' = now + 1 /\ lastAt' = lastAt
        BY <1>2 DEF Tick
    <2> QED
        BY <1>t, <2>1 DEF PastInv
<1>3. CASE XrayLogs
    <2>1. PICK d \in Devs, torn \in BOOLEAN : WriteLine(d, torn)
        BY <1>3 DEF XrayLogs
    <2>2. now' = now /\ lastAt' = [lastAt EXCEPT ![d] = now]
        BY <2>1 DEF WriteLine
    <2> QED
        BY <1>t, <2>2 DEF PastInv
<1>4. CASE NewlineArrives \/ Rotate \/ ReadError \/ AgentRestart \/ SweepBegin \/ PurgeDevices
          \/ PanelRestart \/ UNCHANGED vars
    BY <1>1, <1>4 DEF NewlineArrives, Rotate, ReadError, AgentRestart, SweepBegin, PurgeDevices,
                      PanelRestart, vars
<1>5. ASSUME NEW c \in Conns, Collect(c) \/ TickerStop(c) \/ Connect(c) \/ Drop(c) \/ Handle(c)
      PROVE  Goal
    BY <1>1, <1>5 DEF Collect, Seed, Stat, Read, Save, Send, TickerStop, Connect, Drop, Handle,
                      Ingest, Upsert, HandlerEnd
<1>6. ASSUME NEW u \in Users, DeleteUser(u) \/ SetUserNodes(u)
      PROVE  Goal
    BY <1>1, <1>6 DEF DeleteUser, SetUserNodes
<1> QED
    BY <1>2, <1>3, <1>4, <1>5, <1>6 DEF Next

\* What is told of a connection stays true.
LEMMA DatedStays ==
    ASSUME TypeInv, PastInv, TypeOK', [Next]_vars, NEW d \in Devs, NEW stamp \in Nat, Dated(d, stamp)
    PROVE  Dated(d, stamp)'
<1>1. lastAt[d] \in Nat /\ lastAt'[d] \in Nat /\ lastAt[d] <= lastAt'[d] /\ Skew \in Nat
    BY ClockStep, ConstAssumption DEF TypeInv, TypeOK
<1> QED
    BY <1>1 DEF Dated

\* A new line has the stamp of the connection it tells of.
LEMMA LogDatedNext ==
    ASSUME TypeInv, PastInv, LogDated, TypeOK', [Next]_vars
    PROVE  LogDated'
<1> USE DEF agentVars, netVars, dbVars, history
<1>l. /\ log.lines \in Seq(Line) /\ Len(log.lines) \in Nat /\ now \in Nat
      /\ \A i \in 1 .. Len(log.lines) : /\ log.lines[i].dev \in Devs
                                         /\ log.lines[i].stamp \in Nat
    BY LineFacts DEF TypeInv
<1>1. ASSUME log'.lines = log.lines PROVE LogDated'
    BY <1>1, <1>l, DatedStays DEF LogDated
<1>2. CASE XrayLogs
    <2>1. PICK d \in Devs, torn \in BOOLEAN : WriteLine(d, torn)
        BY <1>2 DEF XrayLogs
    <2> DEFINE l == [dev |-> d, stamp |-> now + Skew]
    <2>2. l \in Line /\ log \in LogFile /\ l.dev = d /\ l.stamp = now + Skew
        BY <1>l, ConstAssumption DEF TypeInv, TypeOK, Line
    <2>3. log'.lines = log.lines \o <<l>>
        BY <2>1, <2>2 DEF WriteLine, LogFile
    <2>4. lastAt'[d] = now /\ now >= 1 /\ Skew \in Nat
        BY <2>1, ConstAssumption DEF WriteLine, PastInv, TypeInv, TypeOK
    <2> HIDE DEF l
    <2>5. /\ Len(log'.lines) = Len(log.lines) + 1 /\ log'.lines[Len(log.lines) + 1] = l
          /\ \A i \in 1 .. Len(log.lines) : log'.lines[i] = log.lines[i]
        BY <1>l, <2>2, <2>3
    <2>6. ASSUME NEW i \in 1 .. Len(log'.lines)
          PROVE  /\ log'.lines[i].stamp > 0 /\ lastAt'[log'.lines[i].dev] > 0
                 /\ log'.lines[i].stamp <= lastAt'[log'.lines[i].dev] + Skew
        <3>1. CASE i = Len(log.lines) + 1
            <4>1. log'.lines[i] = l
                BY <2>5, <3>1
            <4> QED
                BY <1>l, <2>2, <2>4, <4>1
        <3>2. CASE i # Len(log.lines) + 1
            <4>1. i \in 1 .. Len(log.lines)
                BY <1>l, <2>5, <3>2
            <4>2. log'.lines[i] = log.lines[i]
                BY <2>5, <4>1
            <4>3. log.lines[i].stamp > 0 /\ Dated(log.lines[i].dev, log.lines[i].stamp)
                BY <4>1 DEF LogDated
            <4>4. log.lines[i].dev \in Devs /\ log.lines[i].stamp \in Nat
                BY <1>l, <4>1
            <4>5. ASSUME NEW e \in Devs, NEW s \in Nat, Dated(e, s)
                  PROVE  lastAt'[e] > 0 /\ s <= lastAt'[e] + Skew
                BY <4>5, DatedStays DEF Dated
            <4>6. lastAt'[log.lines[i].dev] > 0
                  /\ log.lines[i].stamp <= lastAt'[log.lines[i].dev] + Skew
                BY <4>3, <4>4, <4>5
            <4> QED
                BY <4>2, <4>3, <4>6
        <3> QED
            BY <3>1, <3>2
    <2> QED
        BY <2>6 DEF LogDated, Dated
<1>3. CASE Rotate
    <2>1. log'.lines = <<>>
        BY <1>3 DEF Rotate
    <2>2. Len(log'.lines) = 0
        BY <2>1
    <2> QED
        BY <2>2 DEF LogDated
<1>4. CASE NewlineArrives
    <2>1. log'.lines = log.lines
        BY <1>4 DEF NewlineArrives, TypeInv, TypeOK, LogFile
    <2> QED
        BY <1>1, <2>1
<1>5. CASE Tick \/ ReadError \/ AgentRestart \/ SweepBegin \/ PurgeDevices \/ PanelRestart
          \/ UNCHANGED vars
    BY <1>1, <1>5 DEF Tick, ReadError, AgentRestart, SweepBegin, PurgeDevices, PanelRestart, vars
<1>6. ASSUME NEW c \in Conns, Collect(c) \/ TickerStop(c) \/ Connect(c) \/ Drop(c) \/ Handle(c)
      PROVE  LogDated'
    BY <1>1, <1>6 DEF Collect, Seed, Stat, Read, Save, Send, TickerStop, Connect, Drop, Handle,
                      Ingest, Upsert, HandlerEnd
<1>7. ASSUME NEW u \in Users, DeleteUser(u) \/ SetUserNodes(u)
      PROVE  LogDated'
    BY <1>1, <1>7 DEF DeleteUser, SetUserNodes
<1> QED
    BY <1>2, <1>3, <1>4, <1>5, <1>6, <1>7 DEF Next

\* Reading leaves what it found with the ticker, and nothing else changes.
LEMMA ReadCarried ==
    ASSUME TypeInv, TypeOK', NEW T \in Counting, NEW c \in Conns, Read(c)
    PROVE  /\ Carried(T) \in [Places -> SUBSET Item] /\ Carried(T)' \in [Places -> SUBSET Item]
           /\ <<"tick", c, 0>> \in Places /\ Carried(T)[<<"tick", c, 0>>] = {}
           /\ Carried(T)'[<<"tick", c, 0>>] =
                  IF "save" \in T /\ ~(w.offset >= Size) THEN Aggregate(Unread) ELSE {}
           /\ \A p \in Places \ {<<"tick", c, 0>>} : Carried(T)'[p] = Carried(T)[p]
<1>t. /\ tick \in [Conns -> Ticker] /\ up \in [Conns -> Seq(SUBSET Item)]
      /\ reader \in [Conns -> Reader]
      /\ tick' \in [Conns -> Ticker] /\ up' \in [Conns -> Seq(SUBSET Item)]
      /\ reader' \in [Conns -> Reader]
    BY DEF TypeInv, TypeOK
<1> DEFINE C == CarriedIn(tick, up, reader, T)
           D == CarriedIn(tick', up', reader', T)
<1>1. C \in [Places -> SUBSET Item] /\ D \in [Places -> SUBSET Item]
    BY <1>t, CarriedType
<1>2. \A o \in Conns : /\ HeldAt(C, tick[o], up[o], reader[o], T, o)
                       /\ HeldAt(D, tick'[o], up'[o], reader'[o], T, o)
    BY <1>t, CarriedAt
<1>3. /\ up' = up /\ reader' = reader /\ tick[c].pc = "read"
      /\ tick'[c].pc = "save" /\ tick'[c].items = IF w.offset >= Size THEN {} ELSE Aggregate(Unread)
      /\ \A o \in Conns \ {c} : tick'[o] = tick[o]
    BY <1>t DEF Read, netVars
<1>4. <<"tick", c, 0>> \in Places
    BY DEF Places
<1>5. "read" \notin T
    BY DEF Counting
<1> HIDE DEF C, D
<1>6. HeldAt(C, tick[c], up[c], reader[c], T, c) /\ HeldAt(D, tick'[c], up'[c], reader'[c], T, c)
    BY <1>2
<1>7. C[<<"tick", c, 0>>] = {}
    BY <1>3, <1>5, <1>6 DEF HeldAt
<1>8. D[<<"tick", c, 0>>] = IF "save" \in T /\ ~(w.offset >= Size) THEN Aggregate(Unread) ELSE {}
    BY <1>3, <1>6 DEF HeldAt
<1>9. ASSUME NEW p \in Places, p # <<"tick", c, 0>> PROVE D[p] = C[p]
    <2>1. PICK o \in Conns, m \in Nat :
              p = <<"tick", o, m>> \/ p = <<"up", o, m>> \/ p = <<"reader", o, m>>
        BY PlaceKinds
    <2>2. HeldAt(C, tick[o], up[o], reader[o], T, o)
          /\ HeldAt(D, tick'[o], up'[o], reader'[o], T, o)
        BY <1>2
    <2>3. CASE m = 0 /\ p = <<"tick", o, m>>
        <3>1. o # c
            BY <1>9, <2>3
        <3> QED
            BY <1>3, <2>2, <2>3, <3>1 DEF HeldAt
    <2>4. CASE m = 0 /\ p = <<"reader", o, m>>
        BY <1>3, <2>2, <2>4 DEF HeldAt
    <2>5. CASE m # 0 /\ (p = <<"tick", o, m>> \/ p = <<"reader", o, m>>)
        <3>1. C[p] = {} /\ D[p] = {}
            BY <2>2, <2>5 DEF HeldAt
        <3> QED
            BY <3>1
    <2>6. CASE p = <<"up", o, m>>
        BY <1>3, <2>2, <2>6 DEF HeldAt
    <2> QED
        BY <2>1, <2>3, <2>4, <2>5, <2>6
<1>10. Carried(T) = C /\ Carried(T)' = D
    BY DEF Carried, C, D
<1> QED
    BY <1>1, <1>4, <1>7, <1>8, <1>9, <1>10

\* What is told of an observation stays true.
LEMMA ToldStays ==
    ASSUME TypeInv, PastInv, TypeOK', [Next]_vars, NEW it \in Item, Told(it)
    PROVE  Told(it)'
<1>1. it.dev \in Devs /\ it.last \in Nat /\ Dated(it.dev, it.last) /\ it.last > 0 /\ it.last <= now
    BY DEF Item, Told
<1>2. now \in Nat /\ now' \in Nat /\ now <= now'
    BY ClockStep DEF TypeInv, TypeOK
<1>3. lastAt[it.dev] \in Nat /\ lastAt'[it.dev] \in Nat
      /\ lastAt[it.dev] <= lastAt'[it.dev] /\ Skew \in Nat
    BY <1>1, ClockStep, ConstAssumption DEF TypeInv, TypeOK
<1> QED
    BY <1>1, <1>2, <1>3 DEF Told, Dated

\* Only reading adds observations: of lines, dated no later than the agent's clock.
LEMMA ItemsNext ==
    ASSUME TypeInv, PastInv, LogDated, ItemsTold, TypeOK', [Next]_vars
    PROVE  ItemsTold'
<1> DEFINE T == {"save", "send"}
<1>t. /\ tick \in [Conns -> Ticker] /\ up \in [Conns -> Seq(SUBSET Item)]
      /\ reader \in [Conns -> Reader]
      /\ T \in Counting /\ TypeOK
    BY DEF TypeInv, TypeOK, Counting
<1>c. Carried(T) \in [Places -> SUBSET Item]
    BY <1>t, CarriedType DEF Carried
<1>1. ASSUME Moved(Carried(T), Carried(T)') PROVE ItemsTold'
    <2>1. PICK f \in [Places -> Places] : \A p \in Places : Carried(T)'[p] \subseteq Carried(T)[f[p]]
        BY <1>1 DEF Moved
    <2>2. ASSUME NEW p \in Places, NEW it \in Carried(T)'[p]
          PROVE  Told(it)'
        <3>1. f[p] \in Places /\ it \in Carried(T)[f[p]]
            BY <2>1
        <3>2. it \in Item /\ Told(it)
            BY <1>c, <3>1 DEF ItemsTold
        <3> QED
            BY <3>2, ToldStays
    <2> QED
        BY <2>2 DEF ItemsTold
<1>2. ASSUME NEW c \in Conns, Read(c)
      PROVE  ItemsTold'
    <2>1. /\ Carried(T)'[<<"tick", c, 0>>] = {} \/ Carried(T)'[<<"tick", c, 0>>] = Aggregate(Unread)
          /\ \A p \in Places \ {<<"tick", c, 0>>} : Carried(T)'[p] = Carried(T)[p]
        BY <1>2, <1>t, ReadCarried
    <2>2. ASSUME NEW it \in Aggregate(Unread)
          PROVE  it \in Item /\ Told(it)
        <3>1. Unread \in SUBSET (1 .. Len(log.lines))
            BY DEF Unread
        <3>2. it \in Item /\ \E i \in Unread : log.lines[i].dev = it.dev
                                               /\ it.last = lineTime(log.lines[i].stamp)
            BY <1>t, <3>1, AggregateFacts
        <3>3. PICK i \in Unread : log.lines[i].dev = it.dev /\ it.last = lineTime(log.lines[i].stamp)
            BY <3>2
        <3>4. i \in 1 .. Len(log.lines)
            BY <3>1
        <3>5. log.lines[i].stamp > 0 /\ Dated(it.dev, log.lines[i].stamp)
            BY <3>3, <3>4 DEF LogDated
        <3>6. /\ log.lines[i].stamp \in Nat /\ now \in Nat /\ now >= 1 /\ it.dev \in Devs
              /\ lastAt[it.dev] \in Nat /\ Skew \in Nat
            BY <1>t, <3>2, <3>4, LineFacts, ConstAssumption DEF PastInv, TypeInv, TypeOK, Item
        <3>7. it.last > 0 /\ it.last <= now /\ it.last <= log.lines[i].stamp /\ it.last \in Nat
            BY <3>3, <3>5, <3>6 DEF lineTime
        <3> QED
            BY <3>2, <3>5, <3>6, <3>7 DEF Told, Dated
    <2>3. ASSUME NEW p \in Places, NEW it \in Carried(T)'[p]
          PROVE  it \in Item /\ Told(it)
        <3>1. CASE p = <<"tick", c, 0>>
            BY <2>1, <2>2, <2>3, <3>1
        <3>2. CASE p # <<"tick", c, 0>>
            BY <1>c, <2>1, <2>3, <3>2 DEF ItemsTold
        <3> QED
            BY <3>1, <3>2
    <2>4. ASSUME NEW p \in Places, NEW it \in Carried(T)'[p]
          PROVE  Told(it)'
        BY <2>3, <2>4, ToldStays
    <2> QED
        BY <2>4 DEF ItemsTold
<1>3. ASSUME NEW c \in Conns, Save(c)
      PROVE  ItemsTold'
    BY <1>1, <1>3, <1>t, SaveMoved
<1>4. CASE \A c \in Conns : ~Read(c) /\ ~Save(c)
    BY <1>1, <1>4, <1>t, StepMoved
<1> QED
    BY <1>2, <1>3, <1>4

\* The panel writes down what it was told; a sweep and a deletion clear rows.
LEMMA RowsNext ==
    ASSUME TypeInv, GhostInv, TypeOK', [Next]_vars
    PROVE  RowsTold'
<1> USE DEF agentVars, netVars, dbVars, history
<1>t. /\ PastInv /\ RowsTold /\ TypeOK /\ now \in Nat /\ now' \in Nat /\ now <= now' /\ Skew \in Nat
      /\ \A d \in Devs : /\ lastAt[d] \in Nat /\ lastAt'[d] \in Nat /\ lastAt[d] <= lastAt'[d]
                         /\ rows[d].last \in Nat /\ rows[d].conns \in Nat
    BY ClockStep, ConstAssumption DEF GhostInv, TypeInv, TypeOK, Row
<1>r. ASSUME \A d \in Devs : rows'[d] = rows[d] \/ rows'[d] = NoRow PROVE RowsTold'
    <2>1. ASSUME NEW d \in Devs
          PROVE  /\ rows'[d].last <= now'
                 /\ rows'[d].conns > 0 => /\ lastAt'[d] > 0 /\ rows'[d].last <= lastAt'[d] + Skew
        <3>1. CASE rows'[d] = rows[d]
            <4>1. rows[d].last <= now
                  /\ (rows[d].conns > 0 => lastAt[d] > 0 /\ rows[d].last <= lastAt[d] + Skew)
                BY <1>t DEF RowsTold, RowTold, Dated
            <4> QED
                BY <1>t, <3>1, <4>1
        <3>2. CASE rows'[d] = NoRow
            BY <1>t, <3>2 DEF NoRow
        <3> QED
            BY <1>r, <3>1, <3>2
    <2> QED
        BY <2>1 DEF RowsTold, RowTold, Dated
<1>1. ASSUME NEW c \in Conns, Upsert(c)
      PROVE  RowsTold'
    <2>1. PICK it \in reader[c].todo : UpsertDevice(it) \/ UNCHANGED rows
        BY <1>1 DEF Upsert
    <2>2. it \in Item /\ Told(it)
        <3>1. /\ tick \in [Conns -> Ticker] /\ up \in [Conns -> Seq(SUBSET Item)]
              /\ reader \in [Conns -> Reader]
            BY DEF TypeInv, TypeOK
        <3>2. HeldAt(Carried({"save", "send"}), tick[c], up[c], reader[c], {"save", "send"}, c)
            BY <3>1, CarriedAt DEF Carried
        <3>3. <<"reader", c, 0>> \in Places /\ it \in Carried({"save", "send"})[<<"reader", c, 0>>]
            BY <2>1, <3>2 DEF HeldAt, Places
        <3>4. Told(it)
            BY <3>3 DEF GhostInv, ItemsTold
        <3> QED
            BY <2>1, <3>1, <3>4 DEF Reader
    <2>3. CASE UpsertDevice(it)
        <3>1. rows'[it.dev].last = Seen(it) /\ \A d \in Devs \ {it.dev} : rows'[d] = rows[d]
            BY <1>t, <2>2, <2>3, UpsertType
        <3>2. /\ Seen(it) = it.last /\ it.dev \in Devs /\ it.last \in Nat
              /\ it.last <= now /\ lastAt[it.dev] > 0 /\ it.last <= lastAt[it.dev] + Skew
            BY <2>2 DEF Seen, Told, Dated, Item
        <3>3. ASSUME NEW d \in Devs
              PROVE  /\ rows'[d].last <= now'
                     /\ rows'[d].conns > 0 => lastAt'[d] > 0 /\ rows'[d].last <= lastAt'[d] + Skew
            <4>1. CASE d = it.dev
                <5>1. rows'[d].last = it.last
                    BY <3>1, <3>2, <4>1
                <5> QED
                    BY <1>t, <3>2, <4>1, <5>1
            <4>2. CASE d # it.dev
                <5>1. rows[d].last <= now
                      /\ (rows[d].conns > 0 => lastAt[d] > 0 /\ rows[d].last <= lastAt[d] + Skew)
                    BY <1>t DEF RowsTold, RowTold, Dated
                <5> QED
                    BY <1>t, <3>1, <4>2, <5>1
            <4> QED
                BY <4>1, <4>2
        <3> QED
            BY <3>3 DEF RowsTold, RowTold, Dated
    <2> QED
        BY <1>r, <2>1, <2>3
<1>2. ASSUME NEW c \in Conns, Collect(c) \/ TickerStop(c) \/ Connect(c) \/ Drop(c) \/ Ingest(c)
                               \/ HandlerEnd(c)
      PROVE  RowsTold'
    BY <1>2, <1>r DEF Collect, Seed, Stat, Read, Save, Send, TickerStop, Connect, Drop,
                      Ingest, HandlerEnd
<1>3. CASE Tick \/ XrayLogs \/ NewlineArrives \/ Rotate \/ ReadError \/ AgentRestart \/ SweepBegin
          \/ PanelRestart \/ UNCHANGED vars
    BY <1>3, <1>r DEF Tick, XrayLogs, WriteLine, NewlineArrives, Rotate, ReadError, AgentRestart,
                      SweepBegin, PanelRestart, vars
<1>4. CASE PurgeDevices
    BY <1>4, <1>r DEF PurgeDevices
<1>5. ASSUME NEW u \in Users, DeleteUser(u) \/ SetUserNodes(u)
      PROVE  RowsTold'
    BY <1>5, <1>r DEF DeleteUser, SetUserNodes
<1> QED
    BY <1>1, <1>2, <1>3, <1>4, <1>5 DEF Next, Handle

\* The log of a node the agent is new on may hold a line; nothing is on its way yet.
LEMMA GhostInit == Init => GhostInv
<1> SUFFICES ASSUME Init PROVE GhostInv
    OBVIOUS
<1>1. PICK old \in {<<>>} \cup {<<[dev |-> d, stamp |-> 1 + Skew]>> : d \in Devs} :
          /\ log = [ino |-> w.ino, lines |-> old, torn |-> FALSE]
          /\ lastAt = [d \in Devs |-> IF \E l \in 1..Len(old) : old[l].dev = d
                                      THEN 1 ELSE 0]
    BY DEF Init
<1>2. now = 1 /\ rows = [d \in Devs |-> NoRow] /\ Skew \in Nat
    BY ConstAssumption DEF Init
<1>3. PastInv
    BY <1>1, <1>2 DEF PastInv
<1>4. LogDated
    <2>1. log.lines = old
        BY <1>1
    <2>2. CASE old = <<>>
        BY <2>1, <2>2 DEF LogDated
    <2>3. ASSUME NEW d \in Devs, old = <<[dev |-> d, stamp |-> 1 + Skew]>>
          PROVE  LogDated
        <3>1. Len(old) = 1 /\ old[1].dev = d /\ old[1].stamp = 1 + Skew
            BY <2>3
        <3>2. lastAt[d] = 1
            BY <1>1, <3>1
        <3> QED
            BY <1>2, <2>1, <3>1, <3>2 DEF LogDated, Dated
    <2> QED
        BY <2>2, <2>3
<1>5. ItemsTold
    <2>1. /\ tick \in [Conns -> Ticker] /\ up \in [Conns -> Seq(SUBSET Item)]
          /\ reader \in [Conns -> Reader]
        BY InitType DEF TypeOK
    <2>2. tick = [c \in Conns |-> TickerOff] /\ up = [c \in Conns |-> <<>>]
          /\ reader = [c \in Conns |-> NoReader]
        BY DEF Init
    <2>3. ASSUME NEW p \in Places PROVE Carried({"save", "send"})[p] = {}
        <3>1. p[2] \in Conns
            BY PlaceKinds
        <3>2. tick[p[2]].items = {} /\ Len(up[p[2]]) = 0 /\ reader[p[2]].todo = {}
            BY <2>2, <3>1 DEF TickerOff, NoReader
        <3> QED
            BY <3>2 DEF Carried, CarriedIn
    <2> QED
        BY <2>3 DEF ItemsTold
<1>6. RowsTold
    BY <1>2 DEF RowsTold, RowTold, NoRow
<1> QED
    BY <1>3, <1>4, <1>5, <1>6 DEF GhostInv

\* A row within the window is of a client that was there.
LEMMA GhostEnough == TypeInv /\ GhostInv => NoGhostClients
<1> SUFFICES ASSUME TypeInv, GhostInv PROVE NoGhostClients
    OBVIOUS
<1>t. /\ now \in Nat /\ Skew \in Nat /\ Active \in Nat
      /\ \A d \in Devs : lastAt[d] \in Nat /\ rows[d].last \in Nat
    BY ConstAssumption DEF TypeInv, TypeOK, Row
<1>r. \A d \in Devs : /\ rows[d].last <= now
                      /\ rows[d].conns > 0 => lastAt[d] > 0 /\ rows[d].last <= lastAt[d] + Skew
    BY DEF GhostInv, RowsTold, RowTold, Dated
<1>1. PICK since \in Nat : ActiveClients = NodeClients(since) /\ since + Active >= now
    <2>1. CASE now > Active
        BY <1>t, <2>1 DEF ActiveClients
    <2>2. CASE ~(now > Active)
        BY <1>t, <2>2 DEF ActiveClients
    <2> QED
        BY <2>1, <2>2
<1>2. ASSUME NEW e \in Devs, rows[e].conns > 0, rows[e].last >= since
      PROVE  lastAt[e] > 0 /\ lastAt[e] + Skew + Active >= now
    BY <1>1, <1>2, <1>r, <1>t
<1>3. {e \in Devs : rows[e].conns > 0 /\ rows[e].last >= since}
          \subseteq {e \in Devs : lastAt[e] > 0 /\ lastAt[e] + Skew + Active >= now}
    BY <1>2
<1>4. ActiveClients \subseteq
          {d[2] : d \in {e \in Devs : lastAt[e] > 0 /\ lastAt[e] + Skew + Active >= now}}
    BY <1>1, <1>3 DEF NodeClients
<1> QED
    BY <1>4, <1>r DEF NoGhostClients

\* A client shown as active connected within the window, whatever was lost, replayed or late
\* between the log and the row (accessWatcher.collect, lineTime, App.ingestDevices).
THEOREM GhostCorrect == Spec => []NoGhostClients
<1>1. Init => GhostInv
    BY GhostInit
<1>2. TypeInv /\ TypeInv' /\ GhostInv /\ [Next]_vars => GhostInv'
    <2> SUFFICES ASSUME TypeInv, TypeInv', GhostInv, [Next]_vars PROVE GhostInv'
        OBVIOUS
    <2>1. TypeOK' /\ PastInv /\ LogDated /\ ItemsTold
        BY DEF TypeInv, GhostInv
    <2>2. PastInv' /\ LogDated' /\ ItemsTold' /\ RowsTold'
        BY <2>1, ClockStep, LogDatedNext, ItemsNext, RowsNext
    <2> QED
        BY <2>2 DEF GhostInv
<1>3. TypeInv /\ GhostInv => NoGhostClients
    BY GhostEnough
<1> QED
    BY <1>1, <1>2, <1>3, TypeInvariant, PTL DEF Spec

-----------------------------------------------------------------------------
(* Counting connections *)

\* The connections of device d in C, one by one.
UnitsOf(C, d) ==
    {u \in Places \X Item \X Nat : u[2] \in C[u[1]] /\ u[2].dev = d /\ u[3] \in 1 .. u[2].conns}

\* Those of one observation.
ItemUnits(p, it) == {<<p, it, k>> : k \in 1 .. it.conns}

\* Moving observations adds no connection.
LEMMA UnitsMoved ==
    ASSUME NEW C \in [Places -> SUBSET Item], NEW D \in [Places -> SUBSET Item], Moved(C, D),
           NEW d, IsFiniteSet(UnitsOf(C, d))
    PROVE  /\ IsFiniteSet(UnitsOf(D, d)) /\ Cardinality(UnitsOf(D, d)) \in Nat
           /\ Cardinality(UnitsOf(C, d)) \in Nat
           /\ Cardinality(UnitsOf(D, d)) <= Cardinality(UnitsOf(C, d))
<1>1. PICK f \in [Places -> Places] :
          /\ \A p \in Places : D[p] \subseteq C[f[p]]
          /\ \A p, q \in Places : D[p] # {} /\ D[q] # {} /\ f[p] = f[q] => p = q
    BY DEF Moved
<1> DEFINE S == UnitsOf(D, d)
           T == UnitsOf(C, d)
           g == [u \in S |-> <<f[u[1]], u[2], u[3]>>]
<1>2. ASSUME NEW u \in S PROVE <<f[u[1]], u[2], u[3]>> \in T
    <2>1. u[1] \in Places /\ u[2] \in D[u[1]] /\ u[2] \in Item /\ u[3] \in Nat
          /\ u[2].dev = d /\ u[3] \in 1 .. u[2].conns
        BY DEF UnitsOf
    <2>2. f[u[1]] \in Places /\ u[2] \in C[f[u[1]]]
        BY <1>1, <2>1
    <2> QED
        BY <2>1, <2>2 DEF UnitsOf
<1>3. ASSUME NEW u \in S, NEW v \in S, <<f[u[1]], u[2], u[3]>> = <<f[v[1]], v[2], v[3]>>
      PROVE  u = v
    <2>1. /\ u[1] \in Places /\ u[2] \in D[u[1]] /\ u = <<u[1], u[2], u[3]>>
          /\ v[1] \in Places /\ v[2] \in D[v[1]] /\ v = <<v[1], v[2], v[3]>>
        BY DEF UnitsOf
    <2>2. f[u[1]] = f[v[1]] /\ u[2] = v[2] /\ u[3] = v[3]
        BY <1>3
    <2>3. u[1] = v[1]
        BY <1>1, <2>1, <2>2
    <2> QED
        BY <2>1, <2>2, <2>3
<1>4. g \in [S -> T] /\ \A u, v \in S : g[u] = g[v] => u = v
    <2> HIDE DEF S, T
    <2> QED
        BY <1>2, <1>3
<1> HIDE DEF S, T, g
<1>5. g \in Injection(S, T)
    BY <1>4 DEF Injection, IsInjective
<1>6. IsFiniteSet(T)
    BY DEF T
<1>7. IsFiniteSet(S) /\ Cardinality(S) <= Cardinality(T)
    BY <1>5, <1>6, FS_Injection
<1> QED
    BY <1>6, <1>7, FS_CardinalityType DEF S, T

\* An observation stands for as many connections as it says.
LEMMA ItemUnitsCount ==
    ASSUME NEW p \in Places, NEW it \in Item
    PROVE  IsFiniteSet(ItemUnits(p, it)) /\ Cardinality(ItemUnits(p, it)) = it.conns
<1> DEFINE S == 1 .. it.conns
           T == ItemUnits(p, it)
           g == [k \in S |-> <<p, it, k>>]
<1>1. it.conns \in Nat
    BY DEF Item
<1>2. IsFiniteSet(S) /\ Cardinality(S) = it.conns
    BY <1>1, FS_Interval
<1>3. \A k \in S : <<p, it, k>> \in T
    BY DEF ItemUnits
<1>4. \A t \in T : \E k \in S : t = <<p, it, k>>
    BY DEF ItemUnits
<1> HIDE DEF S, T
<1>5. g \in [S -> T] /\ \A k \in S : g[k] = <<p, it, k>>
    BY <1>3
<1> HIDE DEF g
<1>6. \A j, k \in S : g[j] = g[k] => j = k
    BY <1>5
<1>7. \A t \in T : \E k \in S : g[k] = t
    BY <1>4, <1>5
<1>8. g \in Bijection(S, T)
    BY <1>5, <1>6, <1>7 DEF Bijection, Injection, IsInjective, Surjection
<1>9. ExistsBijection(S, T)
    BY <1>8 DEF ExistsBijection
<1>10. IsFiniteSet(T) /\ Cardinality(T) = Cardinality(S)
    BY <1>2, <1>9, FS_Bijection
<1> QED
    BY <1>2, <1>10 DEF T

\* Taking an observation out takes its connections.
LEMMA UnitsRemoved ==
    ASSUME NEW C \in [Places -> SUBSET Item], NEW D \in [Places -> SUBSET Item],
           NEW p \in Places, NEW it \in C[p], it \notin D[p],
           \A q \in Places : D[q] \subseteq C[q],
           IsFiniteSet(UnitsOf(C, it.dev))
    PROVE  /\ IsFiniteSet(UnitsOf(D, it.dev)) /\ Cardinality(UnitsOf(D, it.dev)) \in Nat
           /\ Cardinality(UnitsOf(C, it.dev)) \in Nat
           /\ Cardinality(UnitsOf(D, it.dev)) + it.conns <= Cardinality(UnitsOf(C, it.dev))
<1> DEFINE S == UnitsOf(D, it.dev)
           T == UnitsOf(C, it.dev)
           I == ItemUnits(p, it)
<1>1. it \in Item /\ it.conns \in Nat
    BY DEF Item
<1>2. I \subseteq T
    <2>1. ASSUME NEW k \in 1 .. it.conns PROVE <<p, it, k>> \in T
        BY <1>1, <2>1 DEF UnitsOf
    <2> QED
        BY <2>1 DEF ItemUnits
<1>3. S \subseteq T
    BY DEF UnitsOf
<1>4. S \cap I = {}
    BY DEF UnitsOf, ItemUnits
<1>5. IsFiniteSet(I) /\ Cardinality(I) = it.conns
    BY <1>1, ItemUnitsCount
<1> HIDE DEF S, T, I
<1>6. IsFiniteSet(T)
    BY DEF T
<1>7. IsFiniteSet(S)
    BY <1>3, <1>6, FS_Subset
<1>8. Cardinality(S \cup I) <= Cardinality(T)
    BY <1>2, <1>3, <1>6, FS_Subset
<1>9. Cardinality(S \cup I) = Cardinality(S) + Cardinality(I) - Cardinality({})
    BY <1>4, <1>5, <1>7, FS_Union
<1>10. Cardinality(S) \in Nat /\ Cardinality(T) \in Nat /\ Cardinality({}) = 0
    BY <1>6, <1>7, FS_CardinalityType, FS_EmptySet
<1>11. Cardinality(S) + it.conns <= Cardinality(T)
    BY <1>1, <1>5, <1>8, <1>9, <1>10
<1> QED
    BY <1>7, <1>10, <1>11 DEF S, T

\* Observations put where none was bring the connections of the one that is the device's.
LEMMA UnitsAdded ==
    ASSUME NEW C \in [Places -> SUBSET Item], NEW D \in [Places -> SUBSET Item],
           NEW p \in Places, \A q \in Places \ {p} : D[q] = C[q], C[p] = {},
           NEW d, NEW n \in Nat,
           \A it \in D[p] : it.dev = d => it.conns = n,
           \A a, b \in D[p] : a.dev = b.dev => a = b,
           IsFiniteSet(UnitsOf(C, d))
    PROVE  /\ IsFiniteSet(UnitsOf(D, d)) /\ Cardinality(UnitsOf(D, d)) \in Nat
           /\ Cardinality(UnitsOf(C, d)) \in Nat
           /\ Cardinality(UnitsOf(D, d)) <= Cardinality(UnitsOf(C, d)) + n
<1> DEFINE S == UnitsOf(D, d)
           T == UnitsOf(C, d)
<1>1. IsFiniteSet(T) /\ Cardinality(T) \in Nat
    BY FS_CardinalityType
<1>2. CASE \A it \in D[p] : it.dev # d
    <2>1. S \subseteq T
        BY <1>2 DEF UnitsOf
    <2> HIDE DEF S, T
    <2>2. IsFiniteSet(S) /\ Cardinality(S) <= Cardinality(T) /\ Cardinality(S) \in Nat
        BY <1>1, <2>1, FS_Subset, FS_CardinalityType
    <2>3. Cardinality(S) <= Cardinality(T) + n
        BY <1>1, <2>2
    <2> QED
        BY <1>1, <2>2, <2>3 DEF S, T
<1>3. ASSUME NEW it \in D[p], it.dev = d
      PROVE  /\ IsFiniteSet(S) /\ Cardinality(S) \in Nat
             /\ Cardinality(S) <= Cardinality(T) + n
    <2> DEFINE I == ItemUnits(p, it)
    <2>1. it \in Item
        OBVIOUS
    <2>2. IsFiniteSet(I) /\ Cardinality(I) = n
        BY <1>3, <2>1, ItemUnitsCount
    <2>3. ASSUME NEW u \in S, u \notin T PROVE u \in I
        <3>1. /\ u = <<u[1], u[2], u[3]>> /\ u[1] \in Places /\ u[2] \in Item /\ u[3] \in Nat
              /\ u[2] \in D[u[1]] /\ u[2].dev = d /\ u[3] \in 1 .. u[2].conns
            BY DEF UnitsOf
        <3>2. u[1] = p
            <4> SUFFICES ASSUME u[1] # p PROVE FALSE
                OBVIOUS
            <4>1. u[2] \in C[u[1]]
                BY <3>1
            <4> QED
                BY <2>3, <3>1, <4>1 DEF UnitsOf
        <3>3. u[2] = it
            BY <1>3, <3>1, <3>2
        <3>4. u = <<p, it, u[3]>> /\ u[3] \in 1 .. it.conns
            BY <3>1, <3>2, <3>3
        <3> QED
            BY <3>4 DEF ItemUnits
    <2> HIDE DEF S, T, I
    <2>4. S \subseteq T \cup I
        BY <2>3
    <2>5. IsFiniteSet(T \cup I)
          /\ Cardinality(T \cup I) = Cardinality(T) + Cardinality(I) - Cardinality(T \cap I)
        BY <1>1, <2>2, FS_Union
    <2>6. Cardinality(T \cap I) \in Nat
        BY <1>1, FS_Intersection, FS_CardinalityType
    <2>7. IsFiniteSet(S) /\ Cardinality(S) <= Cardinality(T \cup I) /\ Cardinality(S) \in Nat
        BY <2>4, <2>5, FS_Subset, FS_CardinalityType
    <2> QED
        BY <1>1, <2>2, <2>5, <2>6, <2>7
<1> QED
    BY <1>1, <1>2, <1>3

-----------------------------------------------------------------------------
(* At most once *)

\* Where reading goes on in the log lg from the read position p.
StartIn(lg, p) == IF lg.ino # p.ino \/ 2 * Len(lg.lines) < p.offset THEN 0 ELSE p.offset

\* The lines of device d still to be read from there.
UnreadIn(lg, p, d) ==
    {i \in 1 .. Len(lg.lines) : /\ p.seeded /\ lg.lines[i].dev = d
                                /\ 2 * (i - 1) >= StartIn(lg, p)}

\* The row of a device, the observations on their way and the lines to be read make up no
\* more connections than Xray logged.
Balance(C, lg, p, rw, lo) ==
    \A d \in Devs :
        /\ IsFiniteSet(UnitsOf(C, d))
        /\ rw[d].conns + Cardinality(UnitsOf(C, d)) + Cardinality(UnreadIn(lg, p, d)) <= lo[d]

\* The lines to be read are some of the log's.
LEMMA UnreadCount ==
    ASSUME NEW lg \in LogFile, NEW p, NEW d
    PROVE  /\ IsFiniteSet(UnreadIn(lg, p, d)) /\ Cardinality(UnreadIn(lg, p, d)) \in Nat
           /\ Len(lg.lines) \in Nat
<1>1. Len(lg.lines) \in Nat
    BY LenProperties DEF LogFile
<1>2. IsFiniteSet(1 .. Len(lg.lines))
    BY <1>1, FS_Interval
<1>3. UnreadIn(lg, p, d) \in SUBSET (1 .. Len(lg.lines))
    BY DEF UnreadIn
<1> QED
    BY <1>1, <1>2, <1>3, FS_Subset, FS_CardinalityType

\* The balance holds after a step that moves observations, lowers rows, and adds no line to
\* be read that was not logged.
LEMMA BalanceMoved ==
    ASSUME NEW C \in [Places -> SUBSET Item], NEW D \in [Places -> SUBSET Item], Moved(C, D),
           NEW l1 \in LogFile, NEW l2 \in LogFile, NEW p, NEW q,
           NEW rw1 \in [Devs -> Row], NEW rw2 \in [Devs -> Row],
           NEW lo1 \in [Devs -> Nat], NEW lo2 \in [Devs -> Nat],
           Balance(C, l1, p, rw1, lo1),
           \A d \in Devs :
               /\ rw2[d].conns <= rw1[d].conns
               /\ Cardinality(UnreadIn(l2, q, d)) + lo1[d] <= Cardinality(UnreadIn(l1, p, d)) + lo2[d]
    PROVE  Balance(D, l2, q, rw2, lo2)
<1>1. ASSUME NEW d \in Devs
      PROVE  /\ IsFiniteSet(UnitsOf(D, d))
             /\ rw2[d].conns + Cardinality(UnitsOf(D, d)) + Cardinality(UnreadIn(l2, q, d)) <= lo2[d]
    <2>1. /\ IsFiniteSet(UnitsOf(C, d))
          /\ rw1[d].conns + Cardinality(UnitsOf(C, d)) + Cardinality(UnreadIn(l1, p, d)) <= lo1[d]
        BY DEF Balance
    <2>2. /\ IsFiniteSet(UnitsOf(D, d)) /\ Cardinality(UnitsOf(D, d)) \in Nat
          /\ Cardinality(UnitsOf(C, d)) \in Nat
          /\ Cardinality(UnitsOf(D, d)) <= Cardinality(UnitsOf(C, d))
        BY <2>1, UnitsMoved
    <2>3. Cardinality(UnreadIn(l1, p, d)) \in Nat /\ Cardinality(UnreadIn(l2, q, d)) \in Nat
        BY UnreadCount
    <2>4. /\ rw1[d].conns \in Nat /\ rw2[d].conns \in Nat /\ lo1[d] \in Nat /\ lo2[d] \in Nat
          /\ rw2[d].conns <= rw1[d].conns
        BY DEF Row
    <2> QED
        BY <2>1, <2>2, <2>3, <2>4
<1> QED
    BY <1>1 DEF Balance

\* What AtMostOnce excludes has not happened.
Calm == events["save"] + events["torn"] + events["race"] = 0

\* One collect holds w.mu, has seeded the watcher, and reads the file it looked at.
CollectInv ==
    /\ \A c, o \in Conns : tick[c].pc \in {"read", "save"} /\ tick[o].pc \in {"read", "save"} => c = o
    /\ \A c \in Conns : tick[c].pc \in {"read", "save"} => w.seeded
    /\ \A c \in Conns : tick[c].pc = "read" => log.ino = w.ino /\ 2 * Len(log.lines) >= w.offset

\* The log has whole lines, and the saved position exists when the watcher's does.
QuietInv == ~log.torn /\ (w.seeded <=> saved.seeded) /\ CollectInv

\* Counted from the position in memory, observations not saved yet are on their way; counted
\* from the saved one, to which a restart returns, their lines are still to be read.
CountInv ==
    /\ Balance(Carried({"save", "send"}), log, w, rows, logged)
    /\ Balance(Carried({"send"}), log, saved, rows, logged)

OnceInv == Calm => QuietInv /\ CountInv

\* Events are counted and never taken back.
LEMMA CalmStep ==
    ASSUME TypeOK, TypeOK', [Next]_vars, Calm'
    PROVE  /\ Calm
           /\ ~Event("save") /\ ~Event("torn") /\ ~Event("race")
<1> USE DEF agentVars, netVars, dbVars, history
<1>t. events \in [Kinds -> Nat] /\ events' \in [Kinds -> Nat]
    BY DEF TypeOK
<1>k. "save" \in Kinds /\ "torn" \in Kinds /\ "race" \in Kinds
    BY DEF Kinds
<1>0. events'["save"] = 0 /\ events'["torn"] = 0 /\ events'["race"] = 0
    BY <1>k, <1>t DEF Calm
<1>1. ASSUME NEW k \in Kinds, Event(k)
      PROVE  events'[k] # 0 /\ \A j \in Kinds : events[j] <= events'[j]
    BY <1>1, <1>t DEF Event
<1>2. UNCHANGED events \/ \E k \in Kinds : Event(k)
    <2>1. CASE Tick \/ NewlineArrives \/ ReadError \/ SweepBegin \/ PurgeDevices \/ UNCHANGED vars
        BY <2>1 DEF Tick, NewlineArrives, ReadError, SweepBegin, PurgeDevices, vars
    <2>2. CASE XrayLogs \/ Rotate \/ AgentRestart \/ PanelRestart
        BY <2>2, KindsFacts DEF XrayLogs, Rotate, AgentRestart, PanelRestart
    <2>3. ASSUME NEW c \in Conns, Collect(c) \/ TickerStop(c) \/ Connect(c) \/ Drop(c) \/ Handle(c)
          PROVE  UNCHANGED events \/ \E k \in Kinds : Event(k)
        BY <2>3, KindsFacts DEF Collect, Seed, Stat, Read, Save, Send, TickerStop, Connect, Drop,
                                Handle, Ingest, Upsert, HandlerEnd, saveOffset
    <2>4. ASSUME NEW u \in Users, DeleteUser(u) \/ SetUserNodes(u)
          PROVE  UNCHANGED events \/ \E k \in Kinds : Event(k)
        BY <2>4, KindsFacts DEF DeleteUser, SetUserNodes
    <2> QED
        BY <2>1, <2>2, <2>3, <2>4 DEF Next
<1>3. \A j \in Kinds : events[j] <= events'[j]
    BY <1>1, <1>2, <1>t
<1>4. events["save"] = 0 /\ events["torn"] = 0 /\ events["race"] = 0
    BY <1>0, <1>3, <1>k, <1>t
<1> QED
    BY <1>0, <1>1, <1>4, <1>k DEF Calm

\* A quiet collect: its mutual exclusion, and the file it looked at.
LEMMA QuietNext ==
    ASSUME TypeInv, QuietInv, TypeOK', [Next]_vars, Calm'
    PROVE  QuietInv'
<1> USE DEF agentVars, netVars, dbVars, history
<1>t. /\ TypeOK /\ tick \in [Conns -> Ticker] /\ Len(log.lines) \in Nat
      /\ log \in LogFile /\ w \in Position /\ saved \in Position /\ w.offset \in Nat
    BY LenProperties DEF TypeInv, TypeOK, LogFile, Position
<1>c. ~Event("save") /\ ~Event("torn") /\ ~Event("race")
    BY <1>t, CalmStep
<1>z. Size = 2 * Len(log.lines) /\ Resume.seeded /\ Resume.ino = log.ino /\ Resume.offset = Start
    BY <1>t, SizeType DEF QuietInv
<1>1. ASSUME UNCHANGED <<log, w, saved>>,
             \A o \in Conns : tick'[o] = tick[o] \/ tick'[o].pc \in {"off", "idle", "send"}
      PROVE  QuietInv'
    BY <1>1 DEF QuietInv, CollectInv
<1>2. CASE XrayLogs
    <2>1. PICK d \in Devs : WriteLine(d, FALSE)
        BY <1>2, <1>c DEF XrayLogs
    <2>2. log' = [log EXCEPT !.lines = @ \o <<[dev |-> d, stamp |-> now + Skew]>>, !.torn = FALSE]
        BY <2>1 DEF WriteLine
    <2>3. log'.ino = log.ino /\ log'.torn = FALSE
          /\ log'.lines = log.lines \o <<[dev |-> d, stamp |-> now + Skew]>>
        BY <1>t, <2>2 DEF LogFile
    <2>4. Len(log'.lines) = Len(log.lines) + 1
        <3> DEFINE l == [dev |-> d, stamp |-> now + Skew]
        <3>1. log.lines \in Seq(Line) /\ l \in Line
            BY <1>t, ConstAssumption DEF LogFile, Line, TypeOK
        <3>2. log'.lines = log.lines \o <<l>>
            BY <2>3
        <3> HIDE DEF l
        <3> QED
            BY <3>1, <3>2
    <2>5. w' = w /\ saved' = saved /\ tick' = tick
        BY <2>1 DEF WriteLine
    <2>6. \A c \in Conns : tick[c].pc = "read" => log'.ino = w.ino /\ 2 * Len(log'.lines) >= w.offset
        BY <1>t, <2>3, <2>4 DEF QuietInv, CollectInv
    <2> QED
        BY <2>3, <2>5, <2>6 DEF QuietInv, CollectInv
<1>3. CASE NewlineArrives
    BY <1>3 DEF NewlineArrives, QuietInv
<1>4. CASE Rotate
    <2>1. log'.torn = FALSE /\ w' = w /\ saved' = saved /\ tick' = tick
        BY <1>4 DEF Rotate
    <2>2. ~(\E c \in Conns : tick[c].pc = "read")
        BY <1>4, <1>c DEF Rotate
    <2> QED
        BY <2>1, <2>2 DEF QuietInv, CollectInv
<1>5. ASSUME NEW c \in Conns, Seed(c) PROVE QuietInv'
    <2>1. w'.seeded /\ saved' = w' /\ log' = log /\ tick' = tick
        BY <1>5, <1>c DEF Seed, saveOffset
    <2>2. \A o \in Conns : tick[o].pc \notin {"read", "save"}
        BY <1>5 DEF Seed, Unlocked
    <2> QED
        BY <2>1, <2>2 DEF QuietInv, CollectInv
<1>6. ASSUME NEW c \in Conns, Stat(c) PROVE QuietInv'
    <2>1. w' = Resume /\ w.seeded /\ saved' = saved /\ log' = log
          /\ (tick' = tick \/ (Size # Resume.offset /\ tick' = [tick EXCEPT ![c].pc = "read"]))
        BY <1>6 DEF Stat
    <2>2. \A o \in Conns : tick[o].pc \notin {"read", "save"}
        BY <1>6 DEF Stat, Unlocked
    <2>3. \A o \in Conns : tick'[o].pc \in {"read", "save"} => o = c
        BY <1>t, <2>1, <2>2
    <2>4. w'.seeded /\ log'.ino = w'.ino /\ 2 * Len(log'.lines) >= w'.offset
        <3>1. Start = 0 \/ (~(Size < w.offset) /\ Start = w.offset)
            BY DEF Start
        <3>2. 2 * Len(log.lines) >= Start
            BY <1>t, <1>z, <3>1
        <3> QED
            BY <1>z, <2>1, <3>2
    <2> QED
        BY <2>1, <2>3, <2>4 DEF QuietInv, CollectInv
<1>7. ASSUME NEW c \in Conns, Read(c) PROVE QuietInv'
    <2>1. tick[c].pc = "read" /\ saved' = saved /\ log' = log
          /\ w' = [w EXCEPT !.offset = w.offset + BytesRead]
        BY <1>7 DEF Read
    <2>2. tick'[c].pc = "save" /\ \A o \in Conns \ {c} : tick'[o] = tick[o]
        BY <1>7, <1>t DEF Read
    <2>3. w'.seeded = w.seeded
        BY <1>t, <2>1 DEF Position
    <2>4. \A o \in Conns \ {c} : tick'[o].pc \notin {"read", "save"}
        BY <2>1, <2>2 DEF QuietInv, CollectInv
    <2> QED
        BY <2>1, <2>2, <2>3, <2>4 DEF QuietInv, CollectInv
<1>8. ASSUME NEW c \in Conns, Save(c) PROVE QuietInv'
    <2>1. tick[c].pc = "save" /\ saved' = w /\ w' = w /\ log' = log
        BY <1>8, <1>c DEF Save, saveOffset
    <2>2. tick' = [tick EXCEPT ![c] = IF tick[c].items = {} THEN TickerIdle
                                      ELSE [tick[c] EXCEPT !.pc = "send"]]
        BY <1>8 DEF Save
    <2>3. tick'[c].pc \in {"idle", "send"} /\ \A o \in Conns \ {c} : tick'[o] = tick[o]
        BY <1>t, <2>2 DEF TickerIdle, Ticker
    <2> QED
        BY <2>1, <2>3 DEF QuietInv, CollectInv
<1>9. ASSUME NEW c \in Conns, Send(c) \/ TickerStop(c) \/ Connect(c) PROVE QuietInv'
    <2>1. UNCHANGED <<log, w, saved>>
        BY <1>9 DEF Send, TickerStop, Connect
    <2>2. \A o \in Conns : tick'[o] = tick[o] \/ tick'[o].pc \in {"off", "idle", "send"}
        BY <1>9, <1>t DEF Send, TickerStop, Connect, TickerOff, TickerIdle
    <2> QED
        BY <1>1, <2>1, <2>2
<1>10. ASSUME NEW c \in Conns, Drop(c) \/ Handle(c) PROVE QuietInv'
    BY <1>1, <1>10 DEF Drop, Handle, Ingest, Upsert, HandlerEnd
<1>11. CASE AgentRestart
    <2>1. w' = saved /\ saved' = saved /\ log' = log /\ \A o \in Conns : tick'[o].pc = "off"
        BY <1>11 DEF AgentRestart, TickerOff
    <2> QED
        BY <2>1 DEF QuietInv, CollectInv
<1>12. CASE Tick \/ ReadError \/ SweepBegin \/ PurgeDevices \/ PanelRestart \/ UNCHANGED vars
    BY <1>1, <1>12 DEF Tick, ReadError, SweepBegin, PurgeDevices, PanelRestart, vars
<1>13. ASSUME NEW u \in Users, DeleteUser(u) \/ SetUserNodes(u) PROVE QuietInv'
    BY <1>1, <1>13 DEF DeleteUser, SetUserNodes
<1> QED
    BY <1>2, <1>3, <1>4, <1>5, <1>6, <1>7, <1>8, <1>9, <1>10, <1>11, <1>12, <1>13 DEF Next, Collect

\* A new line is one line more to be read, once reading has begun.
LEMMA UnreadWritten ==
    ASSUME NEW lg \in LogFile, NEW l2 \in LogFile, NEW l \in Line,
           l2.ino = lg.ino, l2.lines = lg.lines \o <<l>>, NEW p \in Position, NEW d
    PROVE  Cardinality(UnreadIn(l2, p, d))
               <= Cardinality(UnreadIn(lg, p, d)) + (IF p.seeded /\ d = l.dev THEN 1 ELSE 0)
<1> DEFINE n == Len(lg.lines)
           S == UnreadIn(lg, p, d)
           T == UnreadIn(l2, p, d)
<1>1. /\ n \in Nat /\ p.offset \in Nat /\ lg.lines \in Seq(Line)
      /\ IsFiniteSet(S) /\ Cardinality(S) \in Nat /\ Cardinality(T) \in Nat
    BY UnreadCount DEF LogFile, Position
<1>2. /\ Len(l2.lines) = n + 1 /\ l2.lines[n + 1] = l
      /\ \A i \in 1 .. n : l2.lines[i] = lg.lines[i]
    BY <1>1
<1>3. StartIn(lg, p) <= StartIn(l2, p) /\ StartIn(lg, p) \in Nat /\ StartIn(l2, p) \in Nat
    <2> HIDE DEF n
    <2>1. /\ StartIn(lg, p) = IF lg.ino # p.ino \/ 2 * n < p.offset THEN 0 ELSE p.offset
          /\ StartIn(l2, p) = IF lg.ino # p.ino \/ 2 * (n + 1) < p.offset THEN 0 ELSE p.offset
        BY <1>2 DEF StartIn, n
    <2> QED
        BY <1>1, <2>1
<1>4. ASSUME NEW i \in T, i # n + 1 PROVE i \in S
    <2>1. i \in 1 .. Len(l2.lines) /\ p.seeded /\ l2.lines[i].dev = d /\ 2 * (i - 1) >= StartIn(l2, p)
        BY DEF UnreadIn
    <2>2. i \in 1 .. n /\ lg.lines[i].dev = d
        BY <1>1, <1>2, <1>4, <2>1
    <2>3. 2 * (i - 1) >= StartIn(lg, p)
        BY <1>1, <1>3, <2>1, <2>2
    <2> QED
        BY <2>1, <2>2, <2>3 DEF UnreadIn
<1>5. n + 1 \in T => p.seeded /\ d = l.dev
    BY <1>2 DEF UnreadIn
<1> HIDE DEF S, T, n
<1>6. CASE p.seeded /\ d = l.dev
    <2>1. T \subseteq S \cup {n + 1}
        BY <1>4
    <2>2. IsFiniteSet(S \cup {n + 1}) /\ Cardinality(S \cup {n + 1}) <= Cardinality(S) + 1
        <3> DEFINE x == n + 1
        <3> HIDE DEF x
        <3>1. /\ IsFiniteSet(S \cup {x})
              /\ Cardinality(S \cup {x}) = IF x \in S THEN Cardinality(S) ELSE Cardinality(S) + 1
            BY <1>1, FS_AddElement
        <3>2. Cardinality(S \cup {x}) <= Cardinality(S) + 1
            BY <1>1, <3>1
        <3> QED
            BY <3>1, <3>2 DEF x
    <2>3. Cardinality(T) <= Cardinality(S \cup {n + 1})
        BY <2>1, <2>2, FS_Subset
    <2>4. Cardinality(S \cup {n + 1}) \in Nat
        BY <2>2, FS_CardinalityType
    <2>5. Cardinality(T) <= Cardinality(S) + 1
        BY <1>1, <2>2, <2>3, <2>4
    <2> QED
        BY <1>6, <2>5 DEF S, T
<1>7. CASE ~(p.seeded /\ d = l.dev)
    <2>1. T \subseteq S
        BY <1>4, <1>5, <1>7
    <2>2. Cardinality(T) <= Cardinality(S)
        BY <1>1, <2>1, FS_Subset
    <2>3. Cardinality(T) <= Cardinality(S) + 0
        BY <1>1, <2>2
    <2> QED
        BY <1>7, <2>3 DEF S, T
<1> QED
    BY <1>6, <1>7

\* Nothing is to be read of an empty log, nor from the end of one.
LEMMA UnreadNone ==
    ASSUME NEW lg \in LogFile, NEW p, NEW d,
           lg.lines = <<>> \/ (p.ino = lg.ino /\ p.offset = 2 * Len(lg.lines))
    PROVE  Cardinality(UnreadIn(lg, p, d)) = 0
<1>1. Len(lg.lines) \in Nat
    BY UnreadCount
<1>2. CASE lg.lines = <<>>
    <2>1. Len(lg.lines) = 0
        BY <1>2
    <2>2. UnreadIn(lg, p, d) = {}
        BY <2>1 DEF UnreadIn
    <2> QED
        BY <2>2, FS_EmptySet
<1>3. CASE p.ino = lg.ino /\ p.offset = 2 * Len(lg.lines)
    <2> DEFINE n == Len(lg.lines)
    <2>1. StartIn(lg, p) = 2 * n
        BY <1>1, <1>3 DEF StartIn
    <2>2. UnreadIn(lg, p, d) \subseteq {i \in 1 .. n : 2 * (i - 1) >= 2 * n}
        BY <2>1 DEF UnreadIn
    <2> HIDE DEF n
    <2>3. n \in Nat
        BY <1>1 DEF n
    <2>4. {i \in 1 .. n : 2 * (i - 1) >= 2 * n} = {}
        BY <2>3
    <2>5. UnreadIn(lg, p, d) = {}
        BY <2>2, <2>4
    <2> QED
        BY <2>5, FS_EmptySet
<1> QED
    BY <1>2, <1>3

\* The shape of the variables the balance is about.
LEMMA CountType ==
    ASSUME TypeOK
    PROVE  /\ \A T : Carried(T) \in [Places -> SUBSET Item]
           /\ log \in LogFile /\ w \in Position /\ saved \in Position
           /\ rows \in [Devs -> Row] /\ logged \in [Devs -> Nat]
           /\ \A d \in Devs : rows[d].conns \in Nat /\ logged[d] \in Nat
BY CarriedType DEF TypeOK, Carried, Row

\* Steps that touch neither the log nor the read positions, and raise no row.
LEMMA CountSteady ==
    ASSUME TypeOK, TypeOK', CountInv, UNCHANGED <<log, w, saved, logged>>,
           \A d \in Devs : rows'[d].conns <= rows[d].conns,
           \A T \in Counting : Moved(Carried(T), Carried(T)')
    PROVE  CountInv'
<1>1. /\ \A T : Carried(T) \in [Places -> SUBSET Item]
      /\ \A T : Carried(T)' \in [Places -> SUBSET Item]
      /\ log \in LogFile /\ rows \in [Devs -> Row] /\ rows' \in [Devs -> Row]
      /\ logged \in [Devs -> Nat] /\ \A d \in Devs : logged[d] \in Nat
    BY CountType, CarriedType DEF TypeOK, Carried
<1>2. ASSUME NEW T \in Counting, NEW p, Balance(Carried(T), log, p, rows, logged)
      PROVE  Balance(Carried(T)', log, p, rows', logged)
    <2>1. Moved(Carried(T), Carried(T)')
        OBVIOUS
    <2>2. \A d \in Devs : /\ rows'[d].conns <= rows[d].conns
                          /\ Cardinality(UnreadIn(log, p, d)) + logged[d]
                                 <= Cardinality(UnreadIn(log, p, d)) + logged[d]
        BY <1>1, UnreadCount
    <2> QED
        BY <1>1, <1>2, <2>1, <2>2, BalanceMoved
<1>3. {"save", "send"} \in Counting /\ {"send"} \in Counting
    BY DEF Counting
<1> QED
    BY <1>2, <1>3 DEF CountInv

\* Xray, rotation and the clock.
LEMMA WorldCount ==
    ASSUME TypeInv, TypeOK', [Next]_vars, Calm', QuietInv, CountInv, XrayLogs \/ Rotate
    PROVE  CountInv'
<1> USE DEF agentVars, netVars, dbVars, history
<1>t. /\ TypeOK
      /\ \A T : Carried(T) \in [Places -> SUBSET Item]
      /\ log \in LogFile /\ log' \in LogFile /\ w \in Position /\ saved \in Position
      /\ rows \in [Devs -> Row] /\ logged \in [Devs -> Nat] /\ logged' \in [Devs -> Nat]
      /\ \A d \in Devs : rows[d].conns \in Nat /\ logged[d] \in Nat /\ logged'[d] \in Nat
    BY CountType DEF TypeInv, TypeOK
<1>c. ~Event("torn")
    BY <1>t, CalmStep
<1>v. UNCHANGED <<w, saved, rows, tick, up, reader>>
    BY DEF XrayLogs, WriteLine, Rotate
<1>m. \A T : Carried(T)' = Carried(T) /\ Moved(Carried(T), Carried(T))
    <2>1. \A T : Carried(T)' = Carried(T)
        BY <1>v DEF Carried
    <2>2. ASSUME NEW T PROVE Moved(Carried(T), Carried(T)')
        <3>1. FewerTicks(tick, T, tick', T) /\ FewerUp(up, up') /\ FewerTodo(reader, reader')
            BY <1>t, <1>v, FewerSame
        <3> QED
            BY <1>t, <3>1, FewerStep
    <2> QED
        BY <2>1, <2>2
<1>g. ASSUME NEW p \in {w, saved}, NEW T, Balance(Carried(T), log, p, rows, logged),
             \A d \in Devs : Cardinality(UnreadIn(log', p, d)) + logged[d]
                                 <= Cardinality(UnreadIn(log, p, d)) + logged'[d]
      PROVE  Balance(Carried(T), log', p, rows, logged')
    <2>1. \A d \in Devs :
              /\ rows[d].conns <= rows[d].conns
              /\ Cardinality(UnreadIn(log', p, d)) + logged[d]
                     <= Cardinality(UnreadIn(log, p, d)) + logged'[d]
        BY <1>g, <1>t
    <2>2. Moved(Carried(T), Carried(T)) /\ Carried(T) \in [Places -> SUBSET Item]
        BY <1>m, <1>t
    <2> QED
        BY <1>g, <1>t, <2>1, <2>2, BalanceMoved
<1>1. ASSUME NEW p \in {w, saved}, NEW d \in Devs
      PROVE  Cardinality(UnreadIn(log', p, d)) + logged[d]
                 <= Cardinality(UnreadIn(log, p, d)) + logged'[d]
    <2>1. Cardinality(UnreadIn(log, p, d)) \in Nat /\ Cardinality(UnreadIn(log', p, d)) \in Nat
        BY <1>t, UnreadCount
    <2>2. CASE Rotate
        <3>1. log'.lines = <<>> /\ logged' = logged
            BY <2>2 DEF Rotate
        <3>2. Cardinality(UnreadIn(log', p, d)) = 0
            BY <1>t, <3>1, UnreadNone
        <3> QED
            BY <1>t, <2>1, <3>1, <3>2
    <2>3. CASE XrayLogs
        <3>1. PICK e \in Devs : WriteLine(e, FALSE)
            BY <1>c, <2>3 DEF XrayLogs
        <3> DEFINE l == [dev |-> e, stamp |-> now + Skew]
        <3>2. l \in Line /\ l.dev = e
            BY ConstAssumption DEF TypeInv, TypeOK, Line
        <3>3. log' = [log EXCEPT !.lines = log.lines \o <<l>>, !.torn = FALSE]
            BY <3>1 DEF WriteLine
        <3> HIDE DEF l
        <3>4. log'.ino = log.ino /\ log'.lines = log.lines \o <<l>>
            BY <1>t, <3>3 DEF LogFile
        <3>5. p \in Position /\ (p.seeded <=> w.seeded)
            BY <1>t DEF QuietInv
        <3>6. Cardinality(UnreadIn(log', p, d))
                  <= Cardinality(UnreadIn(log, p, d)) + (IF p.seeded /\ d = l.dev THEN 1 ELSE 0)
            BY <1>t, <3>2, <3>4, <3>5, UnreadWritten
        <3>7. logged' = IF w.seeded THEN [logged EXCEPT ![e] = logged[e] + 1] ELSE logged
            BY <3>1 DEF WriteLine
        <3>8. CASE w.seeded /\ d = e
            <4>1. logged'[d] = logged[d] + 1
                BY <1>t, <3>7, <3>8
            <4>2. Cardinality(UnreadIn(log', p, d)) <= Cardinality(UnreadIn(log, p, d)) + 1
                BY <3>2, <3>5, <3>6, <3>8
            <4> QED
                BY <1>t, <2>1, <4>1, <4>2
        <3>9. CASE ~(w.seeded /\ d = e)
            <4>1. logged'[d] = logged[d]
                BY <1>t, <3>7, <3>9
            <4>2. ~(p.seeded /\ d = l.dev)
                BY <3>2, <3>5, <3>9
            <4>3. Cardinality(UnreadIn(log', p, d)) <= Cardinality(UnreadIn(log, p, d)) + 0
                BY <3>6, <4>2
            <4> QED
                BY <1>t, <2>1, <4>1, <4>3
        <3> QED
            BY <3>8, <3>9
    <2> QED
        BY <2>2, <2>3
<1>2. /\ Balance(Carried({"save", "send"}), log, w, rows, logged)
      /\ Balance(Carried({"send"}), log, saved, rows, logged)
    BY DEF CountInv
<1>3. /\ Balance(Carried({"save", "send"}), log', w, rows, logged')
      /\ Balance(Carried({"send"}), log', saved, rows, logged')
    BY <1>1, <1>2, <1>g
<1> QED
    BY <1>3, <1>m, <1>v DEF CountInv

\* The first look at the log, and every later one, leave no line of before to be read.
LEMMA LookCount ==
    ASSUME TypeInv, TypeOK', [Next]_vars, Calm', QuietInv, CountInv,
           NEW c \in Conns, Seed(c) \/ Stat(c)
    PROVE  CountInv'
<1>t. /\ TypeOK
      /\ \A T : Carried(T) \in [Places -> SUBSET Item]
      /\ \A T : Carried(T)' \in [Places -> SUBSET Item]
      /\ log \in LogFile /\ w \in Position /\ saved \in Position /\ w' \in Position /\ saved' \in Position
      /\ rows \in [Devs -> Row] /\ logged \in [Devs -> Nat]
      /\ \A d \in Devs : rows[d].conns \in Nat /\ logged[d] \in Nat
    BY CountType, CarriedType DEF TypeInv, TypeOK, Carried
<1>z. Size = 2 * Len(log.lines) /\ Len(log.lines) \in Nat /\ Resume.ino = log.ino
      /\ Resume.offset = Start /\ Resume.seeded
    BY <1>t, SizeType DEF QuietInv
<1>c. ~Event("save")
    BY <1>t, CalmStep
<1>v. log' = log /\ rows' = rows /\ logged' = logged
    BY DEF Seed, Stat, dbVars, history
<1>m. \A T \in Counting : Moved(Carried(T), Carried(T)')
    BY <1>t, AgentMoved
<1>g. ASSUME NEW p \in Position, NEW q \in Position, NEW T \in Counting,
             Balance(Carried(T), log, p, rows, logged),
             \A d \in Devs : Cardinality(UnreadIn(log, q, d)) <= Cardinality(UnreadIn(log, p, d))
      PROVE  Balance(Carried(T)', log, q, rows, logged)
    <2>1. \A d \in Devs :
              /\ rows[d].conns <= rows[d].conns
              /\ Cardinality(UnreadIn(log, q, d)) + logged[d]
                     <= Cardinality(UnreadIn(log, p, d)) + logged[d]
        BY <1>g, <1>t, UnreadCount
    <2>2. Moved(Carried(T), Carried(T)')
        BY <1>m
    <2> QED
        BY <1>g, <1>t, <2>1, <2>2, BalanceMoved
<1>s. {"save", "send"} \in Counting /\ {"send"} \in Counting
    BY DEF Counting
<1>b. /\ Balance(Carried({"save", "send"}), log, w, rows, logged)
      /\ Balance(Carried({"send"}), log, saved, rows, logged)
    BY DEF CountInv
<1>1. CASE Seed(c)
    <2>1. w'.ino = log.ino /\ w'.offset = 2 * Len(log.lines) /\ saved' = w'
        BY <1>1, <1>c, <1>z DEF Seed, saveOffset
    <2>2. \A d \in Devs : Cardinality(UnreadIn(log, w', d)) = 0
        BY <1>t, <2>1, UnreadNone
    <2>3. \A d \in Devs : /\ Cardinality(UnreadIn(log, w', d)) <= Cardinality(UnreadIn(log, w, d))
                          /\ Cardinality(UnreadIn(log, w', d)) <= Cardinality(UnreadIn(log, saved, d))
        BY <1>t, <2>2, UnreadCount
    <2>4. /\ Balance(Carried({"save", "send"})', log, w', rows, logged)
          /\ Balance(Carried({"send"})', log, w', rows, logged)
        BY <1>b, <1>g, <1>s, <1>t, <2>3
    <2> QED
        BY <1>v, <2>1, <2>4 DEF CountInv
<1>2. CASE Stat(c)
    <2>1. w' = Resume /\ w.seeded /\ saved' = saved
        BY <1>2 DEF Stat
    <2>2. StartIn(log, w') = StartIn(log, w)
        <3>1. StartIn(log, w) = Start
            BY <1>z DEF StartIn, Start
        <3>2. Start = 0 \/ (~(Size < w.offset) /\ Start = w.offset)
            BY DEF Start
        <3>3. Start \in Nat /\ ~(2 * Len(log.lines) < Start)
            BY <1>t, <1>z, <3>2 DEF Position
        <3>4. StartIn(log, w') = Start
            BY <1>z, <2>1, <3>3 DEF StartIn
        <3> QED
            BY <3>1, <3>4
    <2>3. \A d \in Devs : UnreadIn(log, w', d) = UnreadIn(log, w, d)
        BY <1>z, <2>1, <2>2 DEF UnreadIn
    <2>4. \A d \in Devs : /\ Cardinality(UnreadIn(log, w', d)) <= Cardinality(UnreadIn(log, w, d))
                          /\ Cardinality(UnreadIn(log, saved, d)) <= Cardinality(UnreadIn(log, saved, d))
        BY <1>t, <2>3, UnreadCount
    <2>5. Balance(Carried({"save", "send"})', log, w', rows, logged)
        BY <1>b, <1>g, <1>s, <1>t, <2>4
    <2>6. Balance(Carried({"send"})', log, saved, rows, logged)
        BY <1>b, <1>g, <1>s, <1>t, <2>4
    <2> QED
        BY <1>v, <2>1, <2>5, <2>6 DEF CountInv
<1> QED
    BY <1>1, <1>2

\* Reading turns the lines to be read into observations with the ticker.
LEMMA ReadCount ==
    ASSUME TypeInv, TypeOK', QuietInv, CountInv, NEW c \in Conns, Read(c)
    PROVE  CountInv'
<1> DEFINE T == {"save", "send"}
           place == <<"tick", c, 0>>
<1>t. /\ TypeOK /\ log \in LogFile /\ w \in Position /\ saved \in Position
      /\ rows \in [Devs -> Row] /\ logged \in [Devs -> Nat]
      /\ \A d \in Devs : rows[d].conns \in Nat /\ logged[d] \in Nat
    BY CountType DEF TypeInv
<1>z. Size = 2 * Len(log.lines) /\ Len(log.lines) \in Nat /\ w.offset \in Nat
    BY <1>t, SizeType DEF QuietInv, Position
<1>v. UNCHANGED <<log, saved, rows, logged, up, reader>>
    BY DEF Read, netVars, dbVars, history
<1>p. tick[c].pc = "read" /\ log.ino = w.ino /\ 2 * Len(log.lines) >= w.offset /\ w.seeded
    BY DEF Read, QuietInv, CollectInv
<1>s. T \in Counting /\ {"send"} \in Counting
    BY DEF Counting
<1>b. /\ Balance(Carried(T), log, w, rows, logged)
      /\ Balance(Carried({"send"}), log, saved, rows, logged)
    BY DEF CountInv
<1>1. Balance(Carried({"send"})', log, saved, rows, logged)
    <2>1. tick'[c].pc = "save" /\ \A o \in Conns \ {c} : tick'[o] = tick[o]
        BY <1>t DEF Read, TypeOK
    <2>2. FewerTicks(tick, {"send"}, tick', {"send"})
        BY <2>1 DEF FewerTicks
    <2>3. Moved(Carried({"send"}), Carried({"send"})')
        BY <1>t, <1>v, <2>2, FewerSame, FewerStep
    <2>4. \A d \in Devs : /\ rows[d].conns <= rows[d].conns
                          /\ Cardinality(UnreadIn(log, saved, d)) + logged[d]
                                 <= Cardinality(UnreadIn(log, saved, d)) + logged[d]
        BY <1>t, UnreadCount
    <2>5. Carried({"send"}) \in [Places -> SUBSET Item] /\ Carried({"send"})' \in [Places -> SUBSET Item]
        BY <1>s, <1>t, ReadCarried
    <2> QED
        BY <1>b, <1>t, <2>3, <2>4, <2>5, BalanceMoved
<1>2. /\ Carried(T) \in [Places -> SUBSET Item] /\ Carried(T)' \in [Places -> SUBSET Item]
      /\ place \in Places /\ Carried(T)[place] = {}
      /\ Carried(T)'[place] = IF ~(w.offset >= Size) THEN Aggregate(Unread) ELSE {}
      /\ \A p \in Places \ {place} : Carried(T)'[p] = Carried(T)[p]
    <2>1. "save" \in T
        OBVIOUS
    <2> QED
        BY <1>s, <2>1, ReadCarried
<1>3. StartIn(log, w) = w.offset
    BY <1>p, <1>z DEF StartIn
<1>4. \A d : UnreadIn(log, w, d) = {i \in Unread : log.lines[i].dev = d}
    BY <1>3, <1>p DEF UnreadIn, Unread
<1>5. /\ w' = [w EXCEPT !.offset = w.offset + BytesRead]
      /\ BytesRead = IF w.offset >= Size THEN 0 ELSE Size - w.offset
    <2>1. (IF log.torn THEN 1 ELSE 0) = 0
        BY Zenon DEF QuietInv
    <2>2. BytesRead = IF w.offset >= Size THEN 0 ELSE Size - w.offset + (IF log.torn THEN 1 ELSE 0)
        BY DEF BytesRead
    <2>3. BytesRead = IF w.offset >= Size THEN 0 ELSE Size - w.offset + 0
        BY <2>1, <2>2
    <2>4. Size \in Int
        BY <1>z
    <2> HIDE DEF T, place
    <2> QED
        BY <1>z, <2>3, <2>4 DEF Read
<1> HIDE DEF T, place
<1>6. ASSUME NEW d \in Devs
      PROVE  /\ IsFiniteSet(UnitsOf(Carried(T)', d))
             /\ rows[d].conns + Cardinality(UnitsOf(Carried(T)', d)) + Cardinality(UnreadIn(log, w', d))
                    <= logged[d]
    <2> DEFINE n == Cardinality(UnreadIn(log, w, d))
               m == Cardinality(UnreadIn(log, w', d))
    <2>1. n \in Nat /\ m \in Nat
        BY <1>t, UnreadCount
    <2>2. /\ IsFiniteSet(UnitsOf(Carried(T), d))
          /\ rows[d].conns + Cardinality(UnitsOf(Carried(T), d)) + n <= logged[d]
        BY <1>b DEF Balance
    <2>3. CASE w.offset >= Size
        <3>1. Carried(T)'[place] = {}
            BY <1>2, <2>3
        <3>2. /\ \A it \in Carried(T)'[place] : it.dev = d => it.conns = 0
              /\ \A a, b \in Carried(T)'[place] : a.dev = b.dev => a = b
            BY <3>1
        <3>3. /\ IsFiniteSet(UnitsOf(Carried(T)', d)) /\ Cardinality(UnitsOf(Carried(T)', d)) \in Nat
              /\ Cardinality(UnitsOf(Carried(T), d)) \in Nat
              /\ Cardinality(UnitsOf(Carried(T)', d)) <= Cardinality(UnitsOf(Carried(T), d)) + 0
            BY <1>2, <2>2, <3>2, UnitsAdded
        <3>4. w' = w
            <4>1. w.offset + BytesRead = w.offset
                BY <1>5, <1>z, <2>3
            <4> QED
                BY <1>5, <1>t, <4>1 DEF Position
        <3>5. m = n
            BY <3>4
        <3> HIDE DEF m, n
        <3> QED
            BY <1>t, <2>1, <2>2, <3>3, <3>5 DEF m
    <2>4. CASE ~(w.offset >= Size)
        <3>1. Carried(T)'[place] = Aggregate(Unread)
            BY <1>2, <2>4
        <3>2. Unread \in SUBSET (1 .. Len(log.lines))
            BY DEF Unread
        <3>3. ASSUME NEW it \in Aggregate(Unread), it.dev = d PROVE it.conns = n
            <4>1. it.conns = Cardinality({i \in Unread : log.lines[i].dev = it.dev})
                BY <1>t, <3>2, AggregateFacts
            <4> QED
                BY <1>4, <3>3, <4>1
        <3>4. \A a, b \in Aggregate(Unread) : a.dev = b.dev => a = b
            <4> DEFINE item(e) ==
                    [dev |-> e, conns |-> Cardinality({i \in Unread : log.lines[i].dev = e}),
                     last |-> Max({lineTime(log.lines[i].stamp) :
                                      i \in {j \in Unread : log.lines[j].dev = e}})]
            <4>1. \A a \in Aggregate(Unread) : \E e : a = item(e)
                BY Zenon DEF Aggregate
            <4>2. \A e : item(e).dev = e
                OBVIOUS
            <4> HIDE DEF item
            <4> QED
                BY <4>1, <4>2
        <3> HIDE DEF n
        <3>5. /\ IsFiniteSet(UnitsOf(Carried(T)', d)) /\ Cardinality(UnitsOf(Carried(T)', d)) \in Nat
              /\ Cardinality(UnitsOf(Carried(T), d)) \in Nat
              /\ Cardinality(UnitsOf(Carried(T)', d)) <= Cardinality(UnitsOf(Carried(T), d)) + n
            BY <1>2, <2>1, <2>2, <3>1, <3>3, <3>4, UnitsAdded
        <3>6. w'.offset = 2 * Len(log.lines) /\ w'.ino = log.ino
            <4>1. w.offset + BytesRead = 2 * Len(log.lines)
                BY <1>5, <1>z, <2>4
            <4> QED
                BY <1>5, <1>p, <1>t, <4>1 DEF Position
        <3>7. m = 0
            BY <1>t, <3>6, UnreadNone
        <3> HIDE DEF m
        <3> QED
            BY <1>t, <2>1, <2>2, <3>5, <3>7 DEF m
    <2> QED
        BY <2>3, <2>4
<1>7. Balance(Carried(T)', log, w', rows, logged)
    BY <1>6 DEF Balance
<1> QED
    BY <1>1, <1>7, <1>v DEF CountInv, T

\* Saving the position and going back to it.
LEMMA SaveCount ==
    ASSUME TypeInv, TypeOK', [Next]_vars, Calm', QuietInv, CountInv,
           AgentRestart \/ \E c \in Conns : Save(c)
    PROVE  CountInv'
<1>t. /\ TypeOK
      /\ \A T : Carried(T) \in [Places -> SUBSET Item]
      /\ \A T : Carried(T)' \in [Places -> SUBSET Item]
      /\ log \in LogFile /\ w \in Position /\ saved \in Position
      /\ rows \in [Devs -> Row] /\ logged \in [Devs -> Nat]
      /\ \A d \in Devs : rows[d].conns \in Nat /\ logged[d] \in Nat
    BY CountType, CarriedType DEF TypeInv, TypeOK, Carried
<1>c. ~Event("save")
    BY <1>t, CalmStep
<1>v. UNCHANGED <<log, rows, logged>>
    BY DEF AgentRestart, Save, dbVars, history
<1>g. ASSUME NEW p, NEW T, NEW U, Balance(Carried(T), log, p, rows, logged),
             Moved(Carried(T), Carried(U)')
      PROVE  Balance(Carried(U)', log, p, rows, logged)
    <2>1. \A d \in Devs : /\ rows[d].conns <= rows[d].conns
                          /\ Cardinality(UnreadIn(log, p, d)) + logged[d]
                                 <= Cardinality(UnreadIn(log, p, d)) + logged[d]
        BY <1>t, UnreadCount
    <2> QED
        BY <1>g, <1>t, <2>1, BalanceMoved
<1>b. /\ Balance(Carried({"save", "send"}), log, w, rows, logged)
      /\ Balance(Carried({"send"}), log, saved, rows, logged)
    BY DEF CountInv
<1>s. {"save", "send"} \in Counting /\ {"send"} \in Counting
    BY DEF Counting
<1>1. CASE AgentRestart
    <2>1. w' = saved /\ saved' = saved /\ up' = up /\ reader' = reader
          /\ \A c \in Conns : tick'[c].pc = "off"
        BY <1>1 DEF AgentRestart, TickerOff
    <2>2. ASSUME NEW T \in Counting PROVE Moved(Carried({"send"}), Carried(T)')
        <3>1. "off" \notin T
            BY DEF Counting
        <3>2. FewerTicks(tick, {"send"}, tick', T)
            BY <2>1, <3>1 DEF FewerTicks
        <3> QED
            BY <1>t, <2>1, <3>2, FewerSame, FewerStep
    <2>3. \A T \in Counting : Balance(Carried(T)', log, saved, rows, logged)
        BY <1>b, <1>g, <2>2
    <2> QED
        BY <1>s, <1>v, <2>1, <2>3 DEF CountInv
<1>2. ASSUME NEW c \in Conns, Save(c) PROVE CountInv'
    <2>1. w' = w /\ saved' = w
        BY <1>2, <1>c DEF Save, saveOffset
    <2>2. \A T \in Counting : Moved(Carried({"save", "send"}), Carried(T)')
        BY <1>2, <1>t, SaveMoved
    <2>3. \A T \in Counting : Balance(Carried(T)', log, w, rows, logged)
        BY <1>b, <1>g, <2>2
    <2> QED
        BY <1>s, <1>v, <2>1, <2>3 DEF CountInv
<1> QED
    BY <1>1, <1>2

\* An upsert turns the observation it takes into what the row gains.
LEMMA UpsertCount ==
    ASSUME TypeInv, TypeOK', CountInv, NEW c \in Conns, Upsert(c)
    PROVE  CountInv'
<1>t. /\ TypeOK /\ log \in LogFile
      /\ rows \in [Devs -> Row] /\ rows' \in [Devs -> Row] /\ logged \in [Devs -> Nat]
      /\ \A d \in Devs : rows[d].conns \in Nat /\ rows'[d].conns \in Nat /\ logged[d] \in Nat
      /\ tick \in [Conns -> Ticker] /\ up \in [Conns -> Seq(SUBSET Item)]
      /\ reader \in [Conns -> Reader]
      /\ tick' \in [Conns -> Ticker] /\ up' \in [Conns -> Seq(SUBSET Item)]
      /\ reader' \in [Conns -> Reader]
    BY CountType DEF TypeInv, TypeOK, Row
<1>v. UNCHANGED <<log, w, saved, logged, tick, up>>
    BY DEF Upsert, agentVars, history
<1>m. \A T \in Counting : Moved(Carried(T), Carried(T)')
    BY <1>t, PanelMoved
<1>1. PICK it \in reader[c].todo :
          /\ UpsertDevice(it) \/ UNCHANGED rows
          /\ reader' = [reader EXCEPT ![c] = Applying(reader[c].todo \ {it})]
    BY DEF Upsert
<1>2. it \in Item /\ it.dev \in Devs /\ it.conns \in Nat
    BY <1>1, <1>t DEF Reader, Item
<1>3. CASE UNCHANGED rows
    <2>1. \A d \in Devs : rows'[d].conns <= rows[d].conns
        BY <1>3, <1>t
    <2> QED
        BY <1>m, <1>t, <1>v, <2>1, CountSteady
<1>4. CASE UpsertDevice(it)
    <2>1. /\ rows'[it.dev].conns <= rows[it.dev].conns + it.conns
          /\ \A d \in Devs \ {it.dev} : rows'[d] = rows[d]
        BY <1>2, <1>4, <1>t, UpsertType
    <2>2. reader'[c].todo = reader[c].todo \ {it} /\ \A o \in Conns \ {c} : reader'[o] = reader[o]
        BY <1>1, <1>t DEF Applying
    <2>3. ASSUME NEW T \in Counting, NEW p, Balance(Carried(T), log, p, rows, logged)
          PROVE  Balance(Carried(T)', log, p, rows', logged)
        <3> DEFINE C == CarriedIn(tick, up, reader, T)
                   D == CarriedIn(tick', up', reader', T)
                   hand == <<"reader", c, 0>>
        <3>1. C \in [Places -> SUBSET Item] /\ D \in [Places -> SUBSET Item]
            BY <1>t, CarriedType
        <3>2. C = Carried(T) /\ D = Carried(T)'
            BY DEF Carried
        <3>3. HeldAt(C, tick[c], up[c], reader[c], T, c)
              /\ HeldAt(D, tick'[c], up'[c], reader'[c], T, c)
            BY <1>t, CarriedAt
        <3>4. \A q \in Places : D[q] \subseteq C[q]
            <4>1. \A o \in Conns : reader'[o].todo \subseteq reader[o].todo
                BY <2>2
            <4>2. \A q \in Places : q[2] \in Conns
                BY PlaceKinds
            <4> QED
                BY <1>v, <4>1, <4>2 DEF CarriedIn
        <3>5. hand \in Places
            BY DEF Places
        <3> HIDE DEF C, D, hand
        <3>6. it \in C[hand] /\ it \notin D[hand]
            BY <1>1, <2>2, <3>3 DEF HeldAt, hand
        <3>7. Moved(C, D)
            BY <1>m, <3>2
        <3>8. ASSUME NEW d \in Devs
              PROVE  /\ IsFiniteSet(UnitsOf(D, d))
                     /\ rows'[d].conns + Cardinality(UnitsOf(D, d)) + Cardinality(UnreadIn(log, p, d))
                            <= logged[d]
            <4>1. /\ IsFiniteSet(UnitsOf(C, d))
                  /\ rows[d].conns + Cardinality(UnitsOf(C, d)) + Cardinality(UnreadIn(log, p, d))
                         <= logged[d]
                BY <2>3, <3>2 DEF Balance
            <4>2. Cardinality(UnreadIn(log, p, d)) \in Nat
                BY <1>t, UnreadCount
            <4>3. CASE d = it.dev
                <5>1. /\ IsFiniteSet(UnitsOf(D, it.dev)) /\ Cardinality(UnitsOf(D, it.dev)) \in Nat
                      /\ Cardinality(UnitsOf(C, it.dev)) \in Nat
                      /\ Cardinality(UnitsOf(D, it.dev)) + it.conns <= Cardinality(UnitsOf(C, it.dev))
                    BY <3>1, <3>4, <3>5, <3>6, <4>1, <4>3, UnitsRemoved
                <5> QED
                    BY <1>2, <1>t, <2>1, <4>1, <4>2, <4>3, <5>1
            <4>4. CASE d # it.dev
                <5>1. /\ IsFiniteSet(UnitsOf(D, d)) /\ Cardinality(UnitsOf(D, d)) \in Nat
                      /\ Cardinality(UnitsOf(C, d)) \in Nat
                      /\ Cardinality(UnitsOf(D, d)) <= Cardinality(UnitsOf(C, d))
                    BY <3>1, <3>7, <4>1, UnitsMoved
                <5>2. rows'[d].conns = rows[d].conns
                    BY <2>1, <4>4
                <5> QED
                    BY <1>t, <4>1, <4>2, <5>1, <5>2
            <4> QED
                BY <4>3, <4>4
        <3>9. Balance(D, log, p, rows', logged)
            BY <3>8 DEF Balance
        <3> QED
            BY <3>2, <3>9
    <2>4. {"save", "send"} \in Counting /\ {"send"} \in Counting
        BY DEF Counting
    <2> QED
        BY <1>v, <2>3, <2>4 DEF CountInv
<1> QED
    BY <1>1, <1>3, <1>4

\* Every step keeps the count.
LEMMA CountNext ==
    ASSUME TypeInv, TypeOK', [Next]_vars, Calm', QuietInv, CountInv
    PROVE  CountInv'
<1> USE DEF agentVars, netVars, dbVars, history
<1>t. TypeOK /\ \A d \in Devs : rows[d].conns \in Nat
    BY CountType DEF TypeInv
<1>g. ASSUME UNCHANGED <<log, w, saved, logged>>, \A c \in Conns : ~Read(c) /\ ~Save(c),
             \A d \in Devs : rows'[d] = rows[d] \/ rows'[d] = NoRow
      PROVE  CountInv'
    <2>1. \A d \in Devs : rows'[d].conns <= rows[d].conns
        BY <1>g, <1>t DEF NoRow
    <2>2. \A T \in Counting : Moved(Carried(T), Carried(T)')
        BY <1>g, <1>t, StepMoved
    <2> QED
        BY <1>g, <1>t, <2>1, <2>2, CountSteady
<1>s. ASSUME UNCHANGED <<log, w, saved, logged, tick, up, reader>>,
             \A d \in Devs : rows'[d] = rows[d] \/ rows'[d] = NoRow
      PROVE  CountInv'
    <2>1. \A d \in Devs : rows'[d].conns <= rows[d].conns
        BY <1>s, <1>t DEF NoRow
    <2>2. \A T \in Counting : Moved(Carried(T), Carried(T)')
        BY <1>s, <1>t, FewerSame, FewerStep
    <2> QED
        BY <1>s, <1>t, <2>1, <2>2, CountSteady
<1>1. CASE XrayLogs \/ Rotate
    BY <1>1, WorldCount
<1>2. CASE NewlineArrives
    BY <1>2 DEF NewlineArrives, QuietInv
<1>3. CASE Tick \/ SweepBegin \/ PurgeDevices \/ UNCHANGED vars
    BY <1>3, <1>s DEF Tick, SweepBegin, PurgeDevices, vars
<1>4. ASSUME NEW u \in Users, DeleteUser(u) \/ SetUserNodes(u) PROVE CountInv'
    BY <1>4, <1>s DEF DeleteUser, SetUserNodes
<1>5. CASE ReadError \/ PanelRestart
    <2>1. UNCHANGED <<log, w, saved, logged, rows>>
        BY <1>5 DEF ReadError, PanelRestart
    <2>2. \A T \in Counting : Moved(Carried(T), Carried(T)')
        BY <1>5, <1>t, AgentMoved, PanelMoved
    <2>3. \A d \in Devs : rows'[d].conns <= rows[d].conns
        BY <1>t, <2>1
    <2> QED
        BY <1>t, <2>1, <2>2, <2>3, CountSteady
<1>6. CASE AgentRestart
    BY <1>6, SaveCount
<1>7. ASSUME NEW c \in Conns, Seed(c) \/ Stat(c) PROVE CountInv'
    BY <1>7, LookCount
<1>8. ASSUME NEW c \in Conns, Read(c) PROVE CountInv'
    BY <1>8, ReadCount
<1>9. ASSUME NEW c \in Conns, Save(c) PROVE CountInv'
    BY <1>9, SaveCount
<1>10. ASSUME NEW c \in Conns, Upsert(c) PROVE CountInv'
    BY <1>10, UpsertCount
<1>11. ASSUME NEW c \in Conns,
              Send(c) \/ TickerStop(c) \/ Connect(c) \/ Drop(c) \/ Ingest(c) \/ HandlerEnd(c)
       PROVE  CountInv'
    <2>1. UNCHANGED <<log, w, saved, logged, rows>>
        BY <1>11 DEF Send, TickerStop, Connect, Drop, Ingest, HandlerEnd
    <2>2. \A T \in Counting : Moved(Carried(T), Carried(T)')
        BY <1>11, <1>t, AgentMoved, PanelMoved, SendMoved, IngestMoved
    <2>3. \A d \in Devs : rows'[d].conns <= rows[d].conns
        BY <1>t, <2>1
    <2> QED
        BY <1>t, <2>1, <2>2, <2>3, CountSteady
<1> QED
    BY <1>1, <1>2, <1>3, <1>4, <1>5, <1>6, <1>7, <1>8, <1>9, <1>10, <1>11
       DEF Next, Collect, Handle

\* At the start nothing was logged since a position exists, and nothing is on its way.
LEMMA OnceInit == Init => OnceInv
<1> SUFFICES ASSUME Init PROVE OnceInv
    OBVIOUS
<1>1. TypeOK
    BY InitType
<1>2. /\ w = [seeded |-> FALSE, offset |-> 0, ino |-> CHOOSE i \in Inodes : TRUE] /\ saved = w
      /\ tick = [c \in Conns |-> TickerOff] /\ up = [c \in Conns |-> <<>>]
      /\ reader = [c \in Conns |-> NoReader]
      /\ rows = [d \in Devs |-> NoRow] /\ logged = [d \in Devs |-> 0]
    BY DEF Init
<1>3. PICK old : log = [ino |-> w.ino, lines |-> old, torn |-> FALSE]
    BY DEF Init
<1>4. QuietInv
    <2>1. log.torn = FALSE
        BY <1>3
    <2>2. \A c \in Conns : tick[c].pc = "off"
        BY <1>2 DEF TickerOff
    <2> QED
        BY <1>2, <2>1, <2>2 DEF QuietInv, CollectInv
<1>5. ASSUME NEW T PROVE Balance(Carried(T), log, w, rows, logged)
    <2>1. ASSUME NEW p \in Places PROVE Carried(T)[p] = {}
        <3>1. p[2] \in Conns
            BY PlaceKinds
        <3>2. tick[p[2]].items = {} /\ Len(up[p[2]]) = 0 /\ reader[p[2]].todo = {}
            BY <1>2, <3>1 DEF TickerOff, NoReader
        <3> QED
            BY <3>2 DEF Carried, CarriedIn
    <2>2. ASSUME NEW d \in Devs
          PROVE  /\ UnitsOf(Carried(T), d) = {} /\ UnreadIn(log, w, d) = {}
                 /\ rows[d].conns = 0 /\ logged[d] = 0
        <3>1. UnitsOf(Carried(T), d) = {}
            BY <2>1 DEF UnitsOf
        <3>2. UnreadIn(log, w, d) = {}
            <4>1. w.seeded = FALSE
                BY <1>2
            <4> QED
                BY <4>1 DEF UnreadIn
        <3> QED
            BY <1>2, <3>1, <3>2 DEF NoRow
    <2> QED
        BY <2>2, FS_EmptySet DEF Balance
<1>6. CountInv
    BY <1>2, <1>5 DEF CountInv
<1> QED
    BY <1>4, <1>6 DEF OnceInv

\* What is counted of a device was logged.
LEMMA OnceEnough == TypeInv /\ OnceInv => AtMostOnce
<1> SUFFICES ASSUME TypeInv, OnceInv, Calm, NEW d \in Devs
             PROVE  rows[d].conns <= logged[d]
    BY DEF AtMostOnce, Calm
<1>1. /\ IsFiniteSet(UnitsOf(Carried({"save", "send"}), d))
      /\ rows[d].conns + Cardinality(UnitsOf(Carried({"save", "send"}), d))
             + Cardinality(UnreadIn(log, w, d)) <= logged[d]
    BY DEF OnceInv, CountInv, Balance
<1>2. /\ rows[d].conns \in Nat /\ logged[d] \in Nat
      /\ Cardinality(UnitsOf(Carried({"save", "send"}), d)) \in Nat
      /\ Cardinality(UnreadIn(log, w, d)) \in Nat
    BY <1>1, CountType, UnreadCount, FS_CardinalityType DEF TypeInv
<1> QED
    BY <1>1, <1>2

\* No connection of the access log is counted twice, through restarts of the agent at any
\* point of collect, rotations, lost links and overlapping handlers, unless a write of the
\* offset was lost, a line was torn or the log rotated under collect (accessWatcher.collect,
\* saveOffset, App.ingestDevices).
THEOREM DevicesCountedOnce == Spec => []AtMostOnce
<1>1. Init => OnceInv
    BY OnceInit
<1>2. TypeInv /\ TypeInv' /\ OnceInv /\ [Next]_vars => OnceInv'
    <2> SUFFICES ASSUME TypeInv, TypeInv', OnceInv, [Next]_vars, Calm'
                 PROVE  QuietInv' /\ CountInv'
        BY DEF OnceInv
    <2>1. TypeOK /\ TypeOK'
        BY DEF TypeInv
    <2>2. QuietInv /\ CountInv
        BY <2>1, CalmStep DEF OnceInv
    <2> QED
        BY <2>1, <2>2, QuietNext, CountNext
<1>3. TypeInv /\ OnceInv => AtMostOnce
    BY OnceEnough
<1> QED
    BY <1>1, <1>2, <1>3, TypeInvariant, PTL DEF Spec


=============================================================================
