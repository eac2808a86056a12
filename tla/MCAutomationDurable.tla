------------------------ MODULE MCAutomationDurable ------------------------
(* Instances of AutomationDurable for TLC. *)
EXTENDS AutomationDurable, TLC

CONSTANTS a, b

MCSchedules == {[kind |-> "at", t |-> 2], [kind |-> "every", t |-> 1], [kind |-> "cron", t |-> 0]}
MCTimed == {[kind |-> "every", t |-> 1]}
MCCronTimes == {2, 3}

JobSymmetry == Permutations(Jobs)

=============================================================================
