---------------------------- MODULE MCStandalone ----------------------------
(* Instances of Standalone for TLC. *)
EXTENDS Standalone

CONSTANTS alice, bob, a1, a2, b1, p1, p2

MCNames == {alice, bob}
MCAccounts == {a1, a2, b1}
MCName == [a \in Accounts |-> IF a = b1 THEN bob ELSE alice]
MCCommands == {p1, p2}
=============================================================================
