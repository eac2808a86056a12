---------------------------- MODULE MCWebuiChat ----------------------------
(* Instances of WebuiChat for TLC. *)
EXTENDS WebuiChat, TLC

CONSTANTS t1, t2, k1, k2

TabSymmetry == Permutations(Tabs)

=============================================================================
