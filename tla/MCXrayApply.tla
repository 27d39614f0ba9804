---------------------------- MODULE MCXrayApply ----------------------------
(* Instances of XrayApply for TLC. *)
EXTENDS XrayApply

CONSTANTS alice, i1, i2, s1, s2

MCUsers == {alice}
MCIds == {i1, i2}
MCOneId == {i1}
MCSettings == {s1, s2}
MCOneSetting == {s1}
=============================================================================
