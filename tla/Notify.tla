------------------------------- MODULE Notify -------------------------------
(***************************************************************************)
(* The notices the panel sends its administrators (internal/panel/         *)
(* notify.go): a node went offline or is back, driven by the hub's         *)
(* connections (hub.go) and by timers that nothing cancels, and a user     *)
(* became inactive, found by the enforcement loop.  One node; ConfigSync   *)
(* has the rest of the hub.  Telegram delivers what is sent to it.         *)
(***************************************************************************)
EXTENDS Naturals, Functions

CONSTANTS
    Conns,        \* connection slots
    NoConn,       \* not a connection
    Users,        \* users
    Grace,        \* ticks of the 90 s after which a timer fires
    MaxConnects,  \* times the node connects
    MaxRestarts,  \* panel restarts
    MaxDBErrors,  \* failed or empty reads of the node
    MaxFlips,     \* changes of a user's state
    MaxEvents     \* restarts, failed reads and changes together

ASSUME NotifyAssumption ==
    /\ NoConn \notin Conns
    /\ Grace \in Nat \ {0}
    /\ {MaxConnects, MaxRestarts, MaxDBErrors, MaxFlips, MaxEvents} \subseteq Nat

VARIABLES
    registered,      \* Hub.conns[node]
    handler,         \* where the connection's handleWS is
    timer,           \* one per disconnect: what it does next, and the ticks left
    offlineNotified, \* App.offlineNotified[node]
    mu,              \* notifyMu is held by checkUserTransitions
    check,           \* checkUserTransitions in the enforcement loop
    state,           \* a user in the database: active, inactive, or no row
    userActive,      \* App.userActive
    since,           \* ticks since the node's connection ended last, up to Grace + 1
    told,            \* history: the last notice this panel process sent about the node
    alerts,          \* history: offline notices sent since the node was last online
    gone,            \* history: this panel process saw the connection end
    early,           \* history: a timer found an outage shorter than Grace
    flapped,         \* history: the connection ended twice within Grace
    raced,           \* history: a timer that was past its check and a handler that had not
                     \* sent its notice were under way together
    owed,            \* history: users seen active and not reported inactive since
    spent            \* budgets used up

nodeVars == <<registered, handler, timer, offlineNotified, since, told, alerts,
              gone, early, flapped, raced>>
userVars == <<mu, check, state, userActive, owed>>
vars == <<nodeVars, userVars, spent>>

Timers == 1 .. MaxConnects
Kinds == {"connect", "restart", "db", "flip"}
Budget == [connect |-> MaxConnects, restart |-> MaxRestarts,
           db |-> MaxDBErrors, flip |-> MaxFlips]

NoTimer == [pc |-> "none", left |-> 0]
Rest == [pc |-> "idle", snap |-> [u \in Users |-> "none"], todo |-> {}]

TypeOK ==
    /\ registered \in Conns \cup {NoConn}
    /\ handler \in [Conns -> {"none", "notice", "send", "serve"}]
    /\ registered # NoConn => handler[registered] # "none"
    /\ timer \in [Timers -> [pc : {"none", "wait", "node", "mark", "send"}, left : 0 .. Grace]]
    /\ offlineNotified \in BOOLEAN /\ mu \in BOOLEAN
    /\ check \in [pc : {"idle", "lock", "send"}, todo : SUBSET Users,
                  snap : [Users -> {"active", "inactive", "none"}]]
    /\ mu <=> check.pc = "send"
    /\ state \in [Users -> {"active", "inactive", "none"}]
    /\ userActive \in [Users -> {"unseen", "active", "inactive"}]
    /\ since \in 0 .. Grace + 1
    /\ told \in {"none", "down", "up"}
    /\ alerts \in Nat
    /\ {gone, early, flapped, raced} \subseteq BOOLEAN
    /\ owed \subseteq Users
    /\ spent \in [Kinds -> Nat]

Init ==
    /\ registered = NoConn
    /\ handler = [c \in Conns |-> "none"]
    /\ timer = [t \in Timers |-> NoTimer]
    /\ offlineNotified = FALSE /\ mu = FALSE
    /\ check = Rest
    /\ state = [u \in Users |-> "active"]
    /\ userActive = [u \in Users |-> "unseen"]
    /\ since = Grace + 1
    /\ told = "none" /\ alerts = 0
    /\ gone = FALSE /\ early = FALSE /\ flapped = FALSE /\ raced = FALSE
    /\ owed = {}
    /\ spent = [k \in Kinds |-> 0]

-----------------------------------------------------------------------------
Spend(k) ==
    /\ spent[k] < Budget[k]
    /\ k # "connect" => SumFunction(spent) - spent["connect"] < MaxEvents
    /\ spent' = [spent EXCEPT ![k] = @ + 1]

Handling(c, pc) == handler' = [handler EXCEPT ![c] = pc]

Fresh == CHOOSE t \in Timers : timer[t].pc = "none"

(* handleWS *)

\* GetNodeByToken found the node; register() closes the connection it replaces.
Register(c) ==
    /\ handler[c] = "none"
    /\ Spend("connect")
    /\ Handling(c, "notice")
    /\ registered' = c
    /\ alerts' = 0
    /\ raced' = (raced \/ \E t \in Timers : timer[t].pc \in {"node", "mark", "send"})
    /\ UNCHANGED <<timer, offlineNotified, since, told, gone, early, flapped,
                   userVars>>

\* Mutant of NoticeOnline: the mark is cleared, the notice forgotten.
NoticeOnlineSilent(c) ==
    /\ handler[c] = "notice" /\ ~mu
    /\ Handling(c, "serve")
    /\ offlineNotified' = FALSE
    /\ UNCHANGED <<registered, timer, since, told, alerts, gone, early, flapped,
                   raced, userVars, spent>>

\* noticeOnline, under notifyMu.
NoticeOnline(c) ==
    /\ handler[c] = "notice" /\ ~mu
    /\ Handling(c, IF offlineNotified THEN "send" ELSE "serve")
    /\ offlineNotified' = FALSE
    /\ UNCHANGED <<registered, timer, since, told, alerts, gone, early, flapped,
                   raced, userVars, spent>>

\* notifyAdmins, after notifyMu was released.
SendOnline(c) ==
    /\ handler[c] = "send"
    /\ Handling(c, "serve")
    /\ told' = "up"
    /\ UNCHANGED <<registered, timer, offlineNotified, since, alerts, gone, early,
                   flapped, raced, userVars, spent>>

\* Mutant of Unregister: a replaced connection starts a timer as well.
UnregisterAlways(c) ==
    /\ handler[c] = "serve"
    /\ Handling(c, "none")
    /\ timer' = [timer EXCEPT ![Fresh] = [pc |-> "wait", left |-> Grace]]
    /\ gone' = TRUE
    /\ IF registered = c
       THEN registered' = NoConn /\ flapped' = (flapped \/ since <= Grace) /\ since' = 0
       ELSE UNCHANGED <<registered, since, flapped>>
    /\ UNCHANGED <<offlineNotified, told, alerts, early, raced, userVars, spent>>

\* Mutant of Unregister: the connection stays in Hub.conns.
UnregisterKeeps(c) ==
    /\ handler[c] = "serve"
    /\ Handling(c, "none")
    /\ IF registered = c
       THEN /\ timer' = [timer EXCEPT ![Fresh] = [pc |-> "wait", left |-> Grace]]
            /\ flapped' = (flapped \/ since <= Grace)
            /\ since' = 0
            /\ gone' = TRUE
       ELSE UNCHANGED <<timer, since, flapped, gone>>
    /\ UNCHANGED <<registered, offlineNotified, told, alerts, early, raced,
                   userVars, spent>>

\* The read loop fails and unregister() takes the node out of Hub.conns and
\* starts a timer, unless a newer connection took the place.
Unregister(c) ==
    /\ handler[c] = "serve"
    /\ Handling(c, "none")
    /\ IF registered = c
       THEN /\ registered' = NoConn
            /\ timer' = [timer EXCEPT ![Fresh] = [pc |-> "wait", left |-> Grace]]
            /\ flapped' = (flapped \/ since <= Grace)
            /\ since' = 0
            /\ gone' = TRUE
       ELSE UNCHANGED <<registered, timer, since, flapped, gone>>
    /\ UNCHANGED <<offlineNotified, told, alerts, early, raced, userVars, spent>>

-----------------------------------------------------------------------------
(* The function a timer runs: scheduleOfflineNotice *)

Timing(t, pc) == timer' = [timer EXCEPT ![t] = IF pc = "none" THEN NoTimer
                                              ELSE [pc |-> pc, left |-> 0]]

\* Is the node in Hub.conns?
TimerFires(t) ==
    /\ timer[t] = [pc |-> "wait", left |-> 0]
    /\ Timing(t, IF registered # NoConn THEN "none" ELSE "node")
    /\ early' = (early \/ (registered = NoConn /\ since < Grace))
    /\ raced' = (raced \/ (registered = NoConn /\ \E c \in Conns : handler[c] \in {"notice", "send"}))
    /\ UNCHANGED <<registered, handler, offlineNotified, since, told, alerts, gone,
                   flapped, userVars, spent>>

\* GetNode fails on a read error, and when the node was deleted meanwhile.
TimerLoads(t) ==
    /\ timer[t].pc = "node"
    /\ \/ Timing(t, "mark") /\ UNCHANGED spent
       \/ Timing(t, "none") /\ Spend("db")
    /\ UNCHANGED <<registered, handler, offlineNotified, since, told, alerts, gone,
                   early, flapped, raced, userVars>>

\* Mutant of TimerMarks: no notice when the mark is set already.
TimerMarksOnce(t) ==
    /\ timer[t].pc = "mark" /\ ~mu
    /\ offlineNotified' = TRUE
    /\ Timing(t, IF told = "none" THEN "send" ELSE "none")
    /\ UNCHANGED <<registered, handler, since, told, alerts, gone, early, flapped,
                   raced, userVars, spent>>

\* offlineNotified is set under notifyMu.
TimerMarks(t) ==
    /\ timer[t].pc = "mark" /\ ~mu
    /\ offlineNotified' = TRUE
    /\ Timing(t, "send")
    /\ UNCHANGED <<registered, handler, since, told, alerts, gone, early, flapped,
                   raced, userVars, spent>>

\* notifyAdmins, whether or not the node is still offline.
TimerSends(t) ==
    /\ timer[t].pc = "send"
    /\ Timing(t, "none")
    /\ told' = "down"
    /\ alerts' = IF registered = NoConn THEN alerts + 1 ELSE alerts
    /\ UNCHANGED <<registered, handler, offlineNotified, since, gone, early, flapped,
                   raced, userVars, spent>>

\* A tick passes; a timer that is due fires before the next one.
Tick ==
    /\ since <= Grace
    /\ \A t \in Timers : timer[t] # [pc |-> "wait", left |-> 0]
    /\ since' = since + 1
    /\ timer' = [t \in Timers |-> IF timer[t].left > 0 THEN [timer[t] EXCEPT !.left = @ - 1]
                                                      ELSE timer[t]]
    /\ UNCHANGED <<registered, handler, offlineNotified, told, alerts, gone, early,
                   flapped, raced, userVars, spent>>

-----------------------------------------------------------------------------
(* checkUserTransitions, every 30 s *)

\* ListUsers; a check whose ListUsers fails changes nothing.
CheckLists ==
    /\ check.pc = "idle"
    /\ check' = [pc |-> "lock", snap |-> state, todo |-> {}]
    /\ UNCHANGED <<nodeVars, mu, state, userActive, owed, spent>>

\* What the check makes of user u, deleted users aside.
Now(u) == IF check.snap[u] = "none" THEN userActive[u] ELSE check.snap[u]
Lapsed == {u \in Users : userActive[u] = "active" /\ Now(u) = "inactive"}

\* Mutant of CheckRuns: users met for the first time are not remembered.
CheckRunsNoFirst ==
    /\ check.pc = "lock" /\ ~mu
    /\ userActive' = [u \in Users |-> IF userActive[u] = "unseen" THEN "unseen" ELSE Now(u)]
    /\ owed' = owed \cup {u \in Users : check.snap[u] = "active"}
    /\ mu' = (Lapsed # {})
    /\ check' = IF Lapsed = {} THEN Rest ELSE [Rest EXCEPT !.pc = "send", !.todo = Lapsed]
    /\ UNCHANGED <<nodeVars, state, spent>>

\* Under notifyMu: userActive is brought up to date, and notices are due.
CheckRuns ==
    /\ check.pc = "lock" /\ ~mu
    /\ userActive' = [u \in Users |-> Now(u)]
    /\ owed' = owed \cup {u \in Users : check.snap[u] = "active"}
    /\ mu' = (Lapsed # {})
    /\ check' = IF Lapsed = {} THEN Rest ELSE [Rest EXCEPT !.pc = "send", !.todo = Lapsed]
    /\ UNCHANGED <<nodeVars, state, spent>>

\* notifyAdmins, with notifyMu held until the last notice is sent.
CheckSends(u) ==
    /\ check.pc = "send" /\ u \in check.todo
    /\ owed' = owed \ {u}
    /\ check' = IF check.todo = {u} THEN Rest ELSE [check EXCEPT !.todo = @ \ {u}]
    /\ mu' = (check.todo # {u})
    /\ UNCHANGED <<nodeVars, state, userActive, spent>>

-----------------------------------------------------------------------------
(* The rest of the system *)

\* A user is edited, expires, uses up the quota, is reset, or deleted.
Flip(u) ==
    /\ state[u] # "none"
    /\ Spend("flip")
    /\ \E s \in {"active", "inactive", "none"} \ {state[u]} : state' = [state EXCEPT ![u] = s]
    /\ UNCHANGED <<nodeVars, mu, check, userActive, owed>>

\* The panel starts again: no connection, no timer, empty maps.
PanelRestart ==
    /\ Spend("restart")
    /\ registered' = NoConn
    /\ handler' = [c \in Conns |-> "none"]
    /\ timer' = [t \in Timers |-> NoTimer]
    /\ offlineNotified' = FALSE /\ mu' = FALSE /\ check' = Rest
    /\ userActive' = [u \in Users |-> "unseen"]
    /\ since' = Grace + 1 /\ gone' = FALSE /\ owed' = {} /\ told' = "none" /\ alerts' = 0
    /\ early' = FALSE /\ flapped' = FALSE /\ raced' = FALSE
    /\ UNCHANGED state

TimerStep(t) == TimerFires(t) \/ TimerLoads(t) \/ TimerMarks(t) \/ TimerSends(t)

Next ==
    \/ \E c \in Conns : Register(c) \/ NoticeOnline(c) \/ SendOnline(c) \/ Unregister(c)
    \/ \E t \in Timers : TimerStep(t)
    \/ Tick
    \/ CheckLists \/ CheckRuns
    \/ \E u \in Users : CheckSends(u) \/ Flip(u)
    \/ PanelRestart

Spec == Init /\ [][Next]_vars

\* Handlers and timers go on and time passes: a request to Telegram ends within
\* its 15 s.  Connections are bounded, so this is finite work.
Progress ==
    \/ \E c \in Conns : NoticeOnline(c) \/ SendOnline(c)
    \/ \E t \in Timers : TimerStep(t)
    \/ Tick

\* The enforcement loop runs for ever, except that it may find ListUsers failing.
Checking == CheckLists \/ CheckRuns \/ \E u \in Users : CheckSends(u)

\* A connection need not come or end.
FairSpec == Spec /\ WF_vars(Progress) /\ WF_vars(Checking)

-----------------------------------------------------------------------------
(* Properties *)

\* docs/telegram.md: the offline notice is debounced, "so routine restarts stay
\* quiet".  Timers are never cancelled, yet as long as the connection does not end
\* twice within the grace period and no timer and reconnect overlap, a node
\* is reported only once it has been away for the grace period, and once per outage.
Debounced == (~flapped /\ ~raced) => (~early /\ alerts <= 1)

\* docs/telegram.md: a node that stays away is reported (unless the node cannot be read or the
\* panel, which does not know of nodes it never saw, was restarted), also when
\* connections replaced one another before it went.
OutageReported ==
    <>[](registered = NoConn /\ gone /\ spent["db"] = 0 => alerts > 0)

\* docs/telegram.md: a recovery is reported when a node reported offline is back.
\* A node that stays connected is not left reported as offline by this panel process,
\* unless a timer and a reconnect overlapped.
RecoveryReported ==
    <>[](registered # NoConn /\ ~raced => told # "down")

\* docs/telegram.md: "a user flips from active to inactive": a user this panel
\* process saw active and who is inactive for good has been reported.
LapseReported == \A u \in Users : <>[](state[u] = "inactive" => u \notin owed)
=============================================================================
