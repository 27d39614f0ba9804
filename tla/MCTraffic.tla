----------------------------- MODULE MCTraffic -----------------------------
(* Instances of Traffic for TLC. *)
EXTENDS Traffic, TLC

CONSTANTS ch1, ch2, alice, bob, k1, k2

MCChunks == {ch1, ch2}
MCUsers == {alice, bob}
MCOwner == [ch \in Chunks |-> IF ch = ch1 THEN alice ELSE bob]
MCConns == {k1, k2}

\* The two users and their chunks may be exchanged together: Owner maps the one
\* exchange to the other.
Exchange == [x \in Chunks \cup Users |-> CASE x = ch1 -> ch2 [] x = ch2 -> ch1
                                          [] x = alice -> bob [] x = bob -> alice]
Symmetry == Permutations(Conns) \cup {Exchange}
=============================================================================
