----------------------------- MODULE MCDevices -----------------------------
(* Instances of Devices for TLC. *)
EXTENDS Devices

CONSTANTS alice, ip, i1, i2, c1, c2

MCUsers == {alice}
MCIPs == {ip}
MCInodes == {i1, i2}
MCConns == {c1, c2}
MCBudget == [k \in Kinds |-> 1]
=============================================================================
