------------------------------- MODULE MCMemory -------------------------------
(* Two sessions; the fact of message 2 is personal.                        *)
EXTENDS Memory, TLC

MCPersonal == {2}

=============================================================================
