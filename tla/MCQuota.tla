------------------------------ MODULE MCQuota ------------------------------
(* Instances of Quota for TLC. *)
EXTENDS Quota

CONSTANTS n1, h1

MCOneNode == {n1}
MCLimits == {1}
MCExpiries == {3}
MCResetDays == {0, 1}
MCOneHandler == {h1}
=============================================================================
