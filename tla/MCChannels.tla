------------------------------ MODULE MCChannels ------------------------------
(* The gateway starts without a channel or with both.  The configuration   *)
(* saved later has another section for one and disables the other.         *)
EXTENDS Channels, TLC

CONSTANTS x, y, n1, n2

MCBoots == {[n \in Names |-> Off], [n \in Names |-> x]}
MCSaves == {[n \in Names |-> IF n = n1 THEN y ELSE Off]}
=============================================================================
