----------------------------- MODULE MCTelegram -----------------------------
(* Instances of Telegram for TLC. *)
EXTENDS Telegram

CONSTANTS botA, botB, admin, h1, h2

MCTokens == {botA, botB}
MCChats == {admin}
MCFrom == [u \in Updates |-> admin]
MCTo == [u \in Updates |-> botA]
MCEnv == [token |-> botA, admins |-> {admin}]
MCRequests == {[token |-> t, admins |-> {admin}] : t \in {botB, NoToken, Unset}}
              \cup {[token |-> botA, admins |-> {}]}
MCSaves == {h1, h2}
=============================================================================
