----------------------------- MODULE NotifyProofs -----------------------------
(* Theorems about Notify, for every value of its constants. *)
EXTENDS Notify, TLAPS

-----------------------------------------------------------------------------
(* The inductive invariant of Debounced *)

Busy(t) == timer[t].pc # "none"
Past(t) == timer[t].pc \in {"node", "mark", "send"}

\* At most one timer is under way, the one of the last disconnect; it waits until the
\* grace period is over, and the notice it sends is the first of the outage.
TimerInv == (~flapped /\ ~raced) =>
    /\ ~early /\ alerts <= 1
    /\ \A t, v \in Timers : Busy(t) /\ Busy(v) => t = v
    /\ \A t \in Timers : timer[t].pc = "wait" => since + timer[t].left = Grace
    /\ \A t \in Timers : Past(t) => registered = NoConn /\ since >= Grace
    /\ \A t \in Timers : Busy(t) => alerts = 0
    /\ registered # NoConn => alerts = 0

-----------------------------------------------------------------------------
(* Types *)

TimerState == [pc : {"none", "wait", "node", "mark", "send"}, left : 0 .. Grace]
CheckState == [pc : {"idle", "lock", "send"}, todo : SUBSET Users,
               snap : [Users -> {"active", "inactive", "none"}]]

\* The states of a timer and of a check that the steps build.
LEMMA RecordTypes ==
    /\ NoTimer \in TimerState /\ NoTimer.pc = "none" /\ NoTimer.left = 0
    /\ [pc |-> "wait", left |-> Grace] \in TimerState
    /\ \A pc \in {"node", "mark", "send"} : [pc |-> pc, left |-> 0] \in TimerState
    /\ Rest \in CheckState /\ Rest.pc = "idle"
<1>1. 0 \in 0 .. Grace /\ Grace \in 0 .. Grace
    BY NotifyAssumption
<1> QED
    BY <1>1 DEF NoTimer, TimerState, Rest, CheckState

\* Using up a bound keeps the bounds well typed.
LEMMA SpendType ==
    ASSUME spent \in [Kinds -> Nat], NEW k \in Kinds, Spend(k)
    PROVE  spent' \in [Kinds -> Nat]
BY DEF Spend

\* A timer's step.
LEMMA TimingType ==
    ASSUME TypeOK, NEW t \in Timers, NEW pc \in {"none", "node", "mark", "send"}, Timing(t, pc)
    PROVE  /\ timer' \in [Timers -> TimerState]
           /\ timer'[t].pc = pc /\ timer'[t].left = 0
           /\ \A v \in Timers \ {t} : timer'[v] = timer[v]
<1> DEFINE r == IF pc = "none" THEN NoTimer ELSE [pc |-> pc, left |-> 0]
<1>1. r \in TimerState /\ r.pc = pc /\ r.left = 0
    BY RecordTypes
<1>2. timer' = [timer EXCEPT ![t] = r] /\ timer \in [Timers -> TimerState]
    BY DEF Timing, TypeOK, TimerState
<1> HIDE DEF r
<1> QED
    BY <1>1, <1>2

\* What a disconnect makes of the timers.
LEMMA FreshType ==
    ASSUME TypeOK, timer' = [timer EXCEPT ![Fresh] = [pc |-> "wait", left |-> Grace]]
    PROVE  /\ timer' \in [Timers -> TimerState]
           /\ \A v \in Timers : timer'[v] = IF v = Fresh THEN [pc |-> "wait", left |-> Grace]
                                            ELSE timer[v]
<1>1. timer \in [Timers -> TimerState]
    BY DEF TypeOK, TimerState
<1> QED
    BY <1>1, RecordTypes

\* A tick.
LEMMA TickType ==
    ASSUME TypeOK, Tick
    PROVE  /\ timer' \in [Timers -> TimerState]
           /\ \A t \in Timers : /\ timer'[t].pc = timer[t].pc
                                /\ timer[t].pc = "wait" => timer'[t].left = timer[t].left - 1
                                                           /\ timer[t].left \in 1 .. Grace
<1>1. ASSUME NEW t \in Timers
      PROVE  /\ timer'[t] \in TimerState
             /\ timer'[t].pc = timer[t].pc
             /\ timer[t].pc = "wait" => timer'[t].left = timer[t].left - 1
                                        /\ timer[t].left \in 1 .. Grace
    <2>1. timer[t] \in TimerState /\ Grace \in Nat
        BY NotifyAssumption DEF TypeOK, TimerState
    <2>2. timer'[t] = IF timer[t].left > 0 THEN [timer[t] EXCEPT !.left = @ - 1] ELSE timer[t]
        BY DEF Tick
    <2>3. CASE timer[t].left > 0
        <3>1. timer[t].left - 1 \in 0 .. Grace /\ timer[t].left \in 1 .. Grace
            BY <2>1, <2>3 DEF TimerState
        <3> QED
            BY <2>1, <2>2, <2>3, <3>1 DEF TimerState
    <2>4. CASE ~(timer[t].left > 0)
        <3>1. timer[t].left = 0
            BY <2>1, <2>4 DEF TimerState
        <3>2. timer[t].pc # "wait"
            <4>1. SUFFICES ASSUME timer[t].pc = "wait"
                           PROVE  timer[t] = [pc |-> "wait", left |-> 0]
                BY DEF Tick
            <4> QED
                BY <2>1, <3>1, <4>1 DEF TimerState
        <3> QED
            BY <2>1, <2>2, <2>4, <3>2
    <2> QED
        BY <2>3, <2>4
<1>2. DOMAIN timer' = Timers /\ timer' = [t \in Timers |-> timer'[t]]
    BY DEF Tick
<1> QED
    BY <1>1, <1>2

\* The initial state is well typed.
LEMMA InitType == Init => TypeOK
<1> SUFFICES ASSUME Init
             PROVE  TypeOK
    OBVIOUS
<1>1. timer \in [Timers -> TimerState] /\ check \in CheckState /\ check.pc = "idle"
    BY RecordTypes DEF Init
<1>2. since \in 0 .. Grace + 1
    BY NotifyAssumption DEF Init
<1> QED
    BY <1>1, <1>2 DEF Init, TypeOK, TimerState, CheckState

\* Every step keeps the state well typed.
LEMMA NextType == TypeOK /\ [Next]_vars => TypeOK'
<1> SUFFICES ASSUME TypeOK, [Next]_vars
             PROVE  TypeOK'
    OBVIOUS
<1> USE DEF TypeOK, nodeVars, userVars
<1>t. timer \in [Timers -> TimerState] /\ check \in CheckState
    BY DEF TimerState, CheckState
<1>1. ASSUME NEW c \in Conns, Register(c)
      PROVE  TypeOK'
    BY <1>1, SpendType DEF Register, Handling, Kinds
<1>2. ASSUME NEW c \in Conns, NoticeOnline(c) \/ SendOnline(c)
      PROVE  TypeOK'
    <2>1. PICK pc \in {"send", "serve"} : Handling(c, pc)
        BY <1>2 DEF NoticeOnline, SendOnline
    <2>2. /\ handler' \in [Conns -> {"none", "notice", "send", "serve"}]
          /\ registered # NoConn => handler'[registered] # "none"
        BY <2>1 DEF Handling
    <2>3. CASE NoticeOnline(c)
        BY <2>2, <2>3 DEF NoticeOnline
    <2>4. CASE SendOnline(c)
        BY <2>2, <2>4 DEF SendOnline
    <2> QED
        BY <1>2, <2>3, <2>4
<1>3. ASSUME NEW c \in Conns, Unregister(c)
      PROVE  TypeOK'
    <2>1. CASE registered = c
        <3>1. timer' \in [Timers -> TimerState]
            BY <1>3, <2>1, FreshType DEF Unregister
        <3>2. since' \in 0 .. Grace + 1
            BY <1>3, <2>1, NotifyAssumption DEF Unregister
        <3>3. flapped' \in BOOLEAN
            BY <1>3, <2>1 DEF Unregister
        <3> QED
            BY <1>3, <2>1, <3>1, <3>2, <3>3 DEF Unregister, Handling, TimerState
    <2>2. CASE registered # c
        BY <1>3, <2>2 DEF Unregister, Handling
    <2> QED
        BY <2>1, <2>2
<1>4. ASSUME NEW t \in Timers, TimerStep(t)
      PROVE  TypeOK'
    <2>1. PICK pc \in {"none", "node", "mark", "send"} : Timing(t, pc)
        BY <1>4 DEF TimerStep, TimerFires, TimerLoads, TimerMarks, TimerSends
    <2>2. timer' \in [Timers -> TimerState]
        BY <2>1, TimingType
    <2>3. CASE TimerFires(t)
        <3>1. early' \in BOOLEAN /\ raced' \in BOOLEAN
            BY <2>3 DEF TimerFires
        <3> QED
            BY <2>2, <2>3, <3>1 DEF TimerFires, TimerState
    <2>4. CASE TimerLoads(t)
        <3>1. spent' \in [Kinds -> Nat]
            BY <2>4, SpendType DEF TimerLoads, Kinds
        <3> QED
            BY <2>2, <2>4, <3>1 DEF TimerLoads, TimerState
    <2>5. CASE TimerMarks(t)
        BY <2>2, <2>5 DEF TimerMarks, TimerState
    <2>6. CASE TimerSends(t)
        BY <2>2, <2>6 DEF TimerSends, TimerState
    <2> QED
        BY <1>4, <2>3, <2>4, <2>5, <2>6 DEF TimerStep
<1>5. CASE Tick
    <2>1. timer' \in [Timers -> TimerState]
        BY <1>5, TickType
    <2>2. since' \in 0 .. Grace + 1
        BY <1>5, NotifyAssumption DEF Tick
    <2> QED
        BY <1>5, <2>1, <2>2 DEF Tick, TimerState
<1>6. CASE CheckLists
    <2>1. check' \in CheckState /\ check'.pc = "lock"
        BY <1>6 DEF CheckLists, CheckState
    <2>2. ~mu
        BY <1>6 DEF CheckLists
    <2> QED
        BY <1>6, <2>1, <2>2 DEF CheckLists, CheckState
<1>7. CASE CheckRuns
    <2>1. Lapsed \in SUBSET Users
        BY DEF Lapsed
    <2>2. /\ check' \in CheckState
          /\ check'.pc = IF Lapsed = {} THEN "idle" ELSE "send"
        <3>1. [Rest EXCEPT !.pc = "send", !.todo = Lapsed] \in CheckState
              /\ [Rest EXCEPT !.pc = "send", !.todo = Lapsed].pc = "send"
            BY <2>1 DEF Rest, CheckState
        <3> QED
            BY <1>7, <3>1, RecordTypes DEF CheckRuns
    <2>3. mu' \in BOOLEAN /\ (mu' <=> Lapsed # {})
        BY <1>7 DEF CheckRuns
    <2>4. \A u \in Users : Now(u) \in {"unseen", "active", "inactive"}
        BY <1>t DEF Now, CheckState
    <2>5. userActive' \in [Users -> {"unseen", "active", "inactive"}] /\ owed' \subseteq Users
        BY <1>7, <2>4 DEF CheckRuns
    <2> QED
        BY <1>7, <2>2, <2>3, <2>5 DEF CheckRuns, CheckState
<1>8. ASSUME NEW u \in Users, CheckSends(u)
      PROVE  TypeOK'
    <2>1. /\ check' \in CheckState
          /\ check'.pc = IF check.todo = {u} THEN "idle" ELSE "send"
        <3>1. [check EXCEPT !.todo = @ \ {u}] \in CheckState
              /\ [check EXCEPT !.todo = @ \ {u}].pc = check.pc
            BY <1>t DEF CheckState
        <3> QED
            BY <1>8, <3>1, RecordTypes DEF CheckSends
    <2>2. mu' \in BOOLEAN /\ (mu' <=> check.todo # {u}) /\ owed' \subseteq Users
        BY <1>8 DEF CheckSends
    <2> QED
        BY <1>8, <2>1, <2>2 DEF CheckSends, CheckState
<1>9. ASSUME NEW u \in Users, Flip(u)
      PROVE  TypeOK'
    BY <1>9, SpendType DEF Flip, Kinds
<1>10. CASE PanelRestart
    <2>1. timer' \in [Timers -> TimerState] /\ check' \in CheckState /\ check'.pc = "idle"
        BY <1>10, RecordTypes DEF PanelRestart
    <2>2. since' \in 0 .. Grace + 1 /\ spent' \in [Kinds -> Nat]
        BY <1>10, NotifyAssumption, SpendType DEF PanelRestart, Kinds
    <2> QED
        BY <1>10, <2>1, <2>2 DEF PanelRestart, TimerState, CheckState
<1>11. CASE UNCHANGED vars
    BY <1>11 DEF vars
<1> QED
    BY <1>1, <1>2, <1>3, <1>4, <1>5, <1>6, <1>7, <1>8, <1>9, <1>10, <1>11 DEF Next

\* Every variable keeps its type: the connection in Hub.conns is served by a handler,
\* and notifyMu is held exactly while checkUserTransitions sends.
THEOREM TypeCorrect == Spec => []TypeOK
BY InitType, NextType, PTL DEF Spec

-----------------------------------------------------------------------------
(* Debounced *)

\* A step that starts no timer, lets no time pass and sends no notice.
LEMMA TimerSteady ==
    ASSUME TypeOK, TimerInv, UNCHANGED <<timer, since, alerts, registered, early, flapped, raced>>
    PROVE  TimerInv'
<1>1. \A t \in Timers : (Busy(t)' <=> Busy(t)) /\ (Past(t)' <=> Past(t))
    BY DEF Busy, Past
<1> QED
    BY <1>1 DEF TimerInv

\* Every step keeps TimerInv.
LEMMA NextTimer == TypeOK /\ TimerInv /\ [Next]_vars => TimerInv'
<1> SUFFICES ASSUME TypeOK, TimerInv, [Next]_vars, ~flapped', ~raced'
             PROVE  TimerInv'
    BY DEF TimerInv
<1> DEFINE Calm == /\ ~flapped /\ ~raced /\ ~early /\ alerts <= 1
                   /\ \A t, v \in Timers : Busy(t) /\ Busy(v) => t = v
                   /\ \A t \in Timers : timer[t].pc = "wait" => since + timer[t].left = Grace
                   /\ \A t \in Timers : Past(t) => registered = NoConn /\ since >= Grace
                   /\ \A t \in Timers : Busy(t) => alerts = 0
                   /\ registered # NoConn => alerts = 0
<1>t. /\ flapped \in BOOLEAN /\ raced \in BOOLEAN /\ early \in BOOLEAN /\ alerts \in Nat
      /\ since \in Nat /\ Grace \in Nat \ {0}
      /\ \A t \in Timers : timer[t].pc \in {"none", "wait", "node", "mark", "send"}
                           /\ timer[t].left \in Nat /\ timer[t] \in TimerState
    BY NotifyAssumption DEF TypeOK, TimerState
<1>c. ~flapped /\ ~raced => Calm
    BY DEF TimerInv
\* A timer that goes on or ends: nothing else changes.
<1>g. ASSUME NEW t \in Timers, Calm, Busy(t),
             \A v \in Timers \ {t} : timer'[v] = timer[v],
             timer'[t].pc \in {"none", "node", "mark", "send"},
             UNCHANGED <<since, registered>>, early' = FALSE,
             alerts' <= 1, timer'[t].pc # "none" => alerts' = 0,
             Past(t)' => registered = NoConn /\ since >= Grace,
             registered # NoConn => alerts' = 0
      PROVE  TimerInv'
    <2>1. \A v \in Timers : Busy(v)' => v = t
        BY <1>g DEF Busy
    <2>2. \A v \in Timers : timer'[v].pc # "wait"
        BY <1>g, <2>1 DEF Busy
    <2>3. \A v \in Timers : Past(v)' => v = t
        BY <2>1 DEF Busy, Past
    <2>4. \A v \in Timers : Busy(v)' => alerts' = 0
        BY <1>g, <2>1 DEF Busy
    <2> QED
        BY <1>g, <2>1, <2>2, <2>3, <2>4 DEF TimerInv
<1>1. ASSUME NEW c \in Conns, Register(c)
      PROVE  TimerInv'
    <2>1. ~raced /\ \A t \in Timers : ~Past(t)
        <3>1. raced' = (raced \/ \E t \in Timers : Past(t))
            BY <1>1 DEF Register, Past
        <3> QED
            BY <1>t, <3>1
    <2>2. alerts' = 0 /\ UNCHANGED <<timer, since, early, flapped>>
        BY <1>1 DEF Register
    <2>3. Calm
        BY <1>c, <2>1, <2>2
    <2>4. \A t \in Timers : (Busy(t)' <=> Busy(t)) /\ ~Past(t)'
        BY <2>1, <2>2 DEF Busy, Past
    <2> QED
        BY <2>2, <2>3, <2>4 DEF TimerInv
<1>2. ASSUME NEW c \in Conns, NoticeOnline(c) \/ SendOnline(c)
      PROVE  TimerInv'
    BY <1>2, TimerSteady DEF NoticeOnline, SendOnline
<1>3. ASSUME NEW c \in Conns, Unregister(c)
      PROVE  TimerInv'
    <2>1. CASE registered = c
        <3>1. /\ registered' = NoConn /\ since' = 0
              /\ timer' = [timer EXCEPT ![Fresh] = [pc |-> "wait", left |-> Grace]]
              /\ flapped' = (flapped \/ since <= Grace)
              /\ UNCHANGED <<alerts, early, raced>>
            BY <1>3, <2>1 DEF Unregister
        <3>2. ~flapped /\ since > Grace
            <4>1. ~flapped /\ ~(since <= Grace)
                BY <3>1, Zenon
            <4> QED
                BY <1>t, <4>1
        <3>3. Calm /\ registered # NoConn
            BY <1>c, <2>1, <3>1, <3>2, NotifyAssumption
        <3>4. \A t \in Timers : ~Busy(t)
            BY <1>t, <3>2, <3>3 DEF Busy, Past
        <3>5. \A t \in Timers : timer'[t] = IF t = Fresh THEN [pc |-> "wait", left |-> Grace]
                                            ELSE timer[t]
            BY <3>1, FreshType
        <3>6. \A t \in Timers : Busy(t)' => t = Fresh /\ timer'[t].pc = "wait"
                                            /\ timer'[t].left = Grace
            BY <3>4, <3>5 DEF Busy
        <3>7. \A t \in Timers : ~Past(t)'
            BY <3>6 DEF Busy, Past
        <3>8. \A t \in Timers : timer'[t].pc = "wait" => since' + timer'[t].left = Grace
            BY <1>t, <3>1, <3>6 DEF Busy
        <3> QED
            BY <3>1, <3>3, <3>6, <3>7, <3>8 DEF TimerInv
    <2>2. CASE registered # c
        BY <1>3, <2>2, TimerSteady DEF Unregister
    <2> QED
        BY <2>1, <2>2
<1>4. ASSUME NEW t \in Timers, TimerFires(t)
      PROVE  TimerInv'
    <2>1. /\ timer[t] = [pc |-> "wait", left |-> 0] /\ UNCHANGED <<since, registered, alerts, flapped>>
          /\ Timing(t, IF registered # NoConn THEN "none" ELSE "node")
          /\ early' = (early \/ (registered = NoConn /\ since < Grace))
          /\ raced' = (raced \/ (registered = NoConn /\ \E c \in Conns : handler[c] \in {"notice", "send"}))
        BY <1>4 DEF TimerFires
    <2>2. Calm
        BY <1>c, <1>t, <2>1
    <2>3. Busy(t) /\ since = Grace /\ alerts = 0
        BY <1>t, <2>1, <2>2 DEF Busy
    <2>4. /\ \A v \in Timers \ {t} : timer'[v] = timer[v]
          /\ timer'[t].pc = IF registered # NoConn THEN "none" ELSE "node"
        BY <2>1, TimingType
    <2>5. early' = FALSE
        BY <1>t, <2>1, <2>2, <2>3
    <2>6. /\ timer'[t].pc \in {"none", "node", "mark", "send"}
          /\ alerts' <= 1 /\ alerts' = 0
          /\ UNCHANGED <<since, registered>>
        BY <2>1, <2>3, <2>4
    <2>7. Past(t)' => registered = NoConn /\ since >= Grace
        BY <1>t, <2>3, <2>4 DEF Past
    <2> HIDE DEF Calm
    <2> QED
        BY <1>g, <2>2, <2>3, <2>4, <2>5, <2>6, <2>7
<1>5. ASSUME NEW t \in Timers, TimerLoads(t) \/ TimerMarks(t) \/ TimerSends(t)
      PROVE  TimerInv'
    <2>1. /\ Past(t) /\ Busy(t) /\ UNCHANGED <<since, registered, early, flapped, raced>>
          /\ alerts' = alerts \/ (TimerSends(t) /\ alerts' = alerts + 1)
        BY <1>5 DEF TimerLoads, TimerMarks, TimerSends, Past, Busy
    <2>2. Calm /\ registered = NoConn /\ since >= Grace /\ alerts = 0 /\ early' = FALSE
        BY <1>c, <1>t, <2>1
    <2>3. PICK pc \in {"none", "mark", "send"} : Timing(t, pc) /\ (TimerSends(t) => pc = "none")
        BY <1>5 DEF TimerLoads, TimerMarks, TimerSends
    <2>4. /\ \A v \in Timers \ {t} : timer'[v] = timer[v]
          /\ timer'[t].pc = pc
        BY <2>3, TimingType
    <2>5. alerts' = 0 \/ (TimerSends(t) /\ alerts' = 1)
        BY <2>1, <2>2
    <2>6. /\ timer'[t].pc \in {"none", "node", "mark", "send"}
          /\ alerts' <= 1
          /\ timer'[t].pc # "none" => alerts' = 0
          /\ registered # NoConn => alerts' = 0
        BY <2>2, <2>3, <2>4, <2>5
    <2>7. UNCHANGED <<since, registered>> /\ Busy(t)
        BY <2>1
    <2> HIDE DEF Calm
    <2> QED
        BY <1>g, <2>2, <2>4, <2>6, <2>7
<1>6. CASE Tick
    <2>1. /\ \A t \in Timers : timer'[t].pc = timer[t].pc
          /\ \A t \in Timers : timer[t].pc = "wait" => timer'[t].left = timer[t].left - 1
          /\ since' = since + 1 /\ UNCHANGED <<alerts, registered, early, flapped, raced>>
        BY <1>6, TickType DEF Tick
    <2>2. Calm
        BY <1>c, <2>1
    <2>3. \A t \in Timers : (Busy(t)' <=> Busy(t)) /\ (Past(t)' <=> Past(t))
        BY <2>1 DEF Busy, Past
    <2>4. \A t \in Timers : timer'[t].pc = "wait" => since' + timer'[t].left = Grace
        BY <1>t, <2>1, <2>2
    <2>5. \A t \in Timers : Past(t)' => registered' = NoConn /\ since' >= Grace
        BY <1>t, <2>1, <2>2, <2>3
    <2> QED
        BY <2>1, <2>2, <2>3, <2>4, <2>5 DEF TimerInv
<1>7. CASE PanelRestart
    <2>1. /\ \A t \in Timers : timer'[t].pc = "none"
          /\ alerts' = 0 /\ early' = FALSE /\ registered' = NoConn
        BY <1>7, RecordTypes DEF PanelRestart
    <2> QED
        BY <2>1 DEF TimerInv, Busy, Past
<1>8. ASSUME CheckLists \/ CheckRuns \/ (\E u \in Users : CheckSends(u) \/ Flip(u)) \/ UNCHANGED vars
      PROVE  TimerInv'
    <2>1. UNCHANGED nodeVars
        BY <1>8 DEF CheckLists, CheckRuns, CheckSends, Flip, vars
    <2> QED
        BY <2>1, TimerSteady DEF nodeVars
<1> QED
    BY <1>1, <1>2, <1>3, <1>4, <1>5, <1>6, <1>7, <1>8 DEF Next, TimerStep

\* TimerInv holds initially: no timer is under way.
LEMMA InitTimer == Init => TimerInv
<1>1. Init => \A t \in Timers : timer[t].pc = "none"
    BY RecordTypes DEF Init
<1> QED
    BY <1>1 DEF Init, TimerInv, Busy, Past

\* Routine restarts stay quiet: while the connection does not end twice within the
\* grace period and no timer meets a reconnect, a notice comes after the grace period
\* and once per outage, though no timer is ever cancelled.
THEOREM DebouncedCorrect == Spec => []Debounced
<1>1. Spec => []TimerInv
    BY InitTimer, NextTimer, TypeCorrect, PTL DEF Spec
<1>2. TimerInv => Debounced
    BY DEF TimerInv, Debounced
<1> QED
    BY <1>1, <1>2, PTL
=============================================================================
