------------------------------ MODULE MCNotify ------------------------------
(* Instances of Notify for TLC. *)
EXTENDS Notify

CONSTANTS alice, c1, c2

MCUsers == {alice}
MCConns == {c1, c2}
=============================================================================
