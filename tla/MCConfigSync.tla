---------------------------- MODULE MCConfigSync ----------------------------
(* Instances of ConfigSync for TLC. *)
EXTENDS ConfigSync

CONSTANTS alice, w1, w2, k1, k2, s1, s2

MCUsers == {alice}
MCSettings == {s1, s2}
MCOneSetting == {s1}
MCWorkers == {w1, w2}
MCOneWorker == {w1}
MCConns == {k1, k2}
MCOneConn == {k1}
=============================================================================
