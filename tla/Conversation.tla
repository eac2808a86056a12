---------------------------- MODULE Conversation ----------------------------
(***************************************************************************)
(* What the web interface promises about the messages a user writes, with  *)
(* no tabs, queues, jobs or connections: a message waits, is then worked   *)
(* on, and ends in exactly one way; the agent takes at most one turn for   *)
(* it; and it is answered only by what that turn, when it was done, said.  *)
(* A halted message is not promised to be left alone: its turn goes on.    *)
(* WebuiChat implements this specification.                                *)
(***************************************************************************)
EXTENDS Naturals

CONSTANT MaxMsgs   \* bound: the messages of a behaviour

VARIABLES
  fate,   \* of each message: how far the interface has brought it
  turn    \* of each message: how far the agent has brought its turn

vars == <<fate, turn>>

Messages == 1 .. MaxMsgs
Waiting == {"pending", "working"}
Settled == {"answered", "empty", "failed", "stopped", "steered", "dropped", "stuck"}

TypeOK ==
  /\ fate \in [Messages -> {"unsent"} \cup Waiting \cup Settled]
  /\ turn \in [Messages -> {"none", "running", "done", "broken"}]

Init ==
  /\ fate = [m \in Messages |-> "unsent"]
  /\ turn = [m \in Messages |-> "none"]

\* One message goes one step along its way.
Goes(m, from, to) ==
  /\ fate[m] = from
  /\ fate' = [fate EXCEPT ![m] = to]

Sent(m)    == Goes(m, "unsent", "pending") /\ UNCHANGED turn
Taken(m)   == Goes(m, "pending", "working") /\ UNCHANGED turn
\* A steering message becomes part of the turn it interrupts.
Steered(m) == Goes(m, "pending", "steered") /\ UNCHANGED turn
\* It is kept waiting, then thrown away or left to a job that never ran.
Lost(m)    == (Goes(m, "pending", "dropped") \/ Goes(m, "pending", "stuck")) /\ UNCHANGED turn

Answered(m) ==
  /\ turn[m] = "done"
  /\ Goes(m, "working", "answered") /\ UNCHANGED turn

\* An error, a blank reply (the turn was cancelled, or the connection ended
\* before it), or a halt: whatever became of the turn.
GivenUp(m) ==
  /\ \E end \in {"failed", "empty", "stopped"} : Goes(m, "working", end)
  /\ UNCHANGED turn

\* The agent takes a message that somebody worked on, once.
TurnStarts(m) ==
  /\ fate[m] \in {"working", "failed", "stopped"}
  /\ turn[m] = "none" /\ turn' = [turn EXCEPT ![m] = "running"]
  /\ UNCHANGED fate

TurnEnds(m) ==
  /\ turn[m] = "running"
  /\ \E end \in {"done", "broken"} : turn' = [turn EXCEPT ![m] = end]
  /\ UNCHANGED fate

\* /stop throws away all that waits in the queue of a session at once.
Cleared ==
  /\ \E some \in SUBSET {m \in Messages : fate[m] = "pending"} :
       fate' = [m \in Messages |-> IF m \in some THEN "dropped" ELSE fate[m]]
  /\ UNCHANGED turn

\* The agent's process dies with all its turns.
AllTurnsBreak ==
  /\ turn' = [m \in Messages |-> IF turn[m] = "running" THEN "broken" ELSE turn[m]]
  /\ UNCHANGED fate

Next ==
  \/ \E m \in Messages :
       \/ Sent(m) \/ Taken(m) \/ Steered(m) \/ Lost(m) \/ Answered(m)
       \/ GivenUp(m) \/ TurnStarts(m) \/ TurnEnds(m)
  \/ Cleared
  \/ AllTurnsBreak

Spec == Init /\ [][Next]_vars

=============================================================================
