--------------------------- MODULE TrafficLedger ---------------------------
(***************************************************************************)
(* What traffic accounting promises, with no word on how: every chunk a    *)
(* node's users produce is owed by the node until it is settled by the     *)
(* panel; the node may forget it only then.  A chunk may be settled again  *)
(* (at-least-once).                                                        *)
(***************************************************************************)
CONSTANT Chunks

VARIABLES produced, owed, settled
vars == <<produced, owed, settled>>

Init == produced = {} /\ owed = {} /\ settled = {}

Produce(ch) ==
    /\ ch \notin produced
    /\ produced' = produced \cup {ch}
    /\ owed' = owed \cup {ch}
    /\ UNCHANGED settled

Settle(S) ==
    /\ settled' = settled \cup S
    /\ UNCHANGED <<produced, owed>>

Release(S) ==
    /\ S \subseteq settled
    /\ owed' = owed \ S
    /\ UNCHANGED <<produced, settled>>

Next ==
    \/ \E ch \in Chunks : Produce(ch)
    \/ \E S \in SUBSET produced : Settle(S)
    \/ \E S \in SUBSET owed : Release(S)

Spec == Init /\ [][Next]_vars
=============================================================================
