---------------------------------- MODULE Email ----------------------------------
(***************************************************************************)
(* integrations/email.py: a thread polls the mailbox (timer), twice if the *)
(* connection went stale the first time (route); then what it collected    *)
(* (held) is published.  Answers go out by SMTP.                           *)
(***************************************************************************)
EXTENDS Adapter

Start == Enters("new", "up")

\* The thread goes on, and nobody takes what it collects.
StartCancelled ==
    /\ phase = "up" /\ Act /\ phase' = "down" /\ timer' = FALSE
    /\ at' = Places({"held"}, "lost")
    /\ UNCHANGED <<adapter, link, seen, typing, route, outbound>>

-----------------------------------------------------------------------------

PollStarts ==
    /\ phase = "up" /\ ~timer /\ timer' = TRUE /\ route' = TRUE
    /\ \E d \in Deliveries : at[d] = "due"
    /\ UNCHANGED <<life, at, seen, typing, outbound, acts>>

\* An unread mail is collected and remembered, then marked as seen.
Collect(d) ==
    /\ timer /\ at[d] = "due" /\ Remembers(d, "held")
    /\ UNCHANGED <<life, timer, typing, route, outbound, acts>>

\* An error: the first stale one is tried again with what was collected, any other
\* ends the poll, and what it collected stays remembered.
PollFails ==
    /\ timer /\ Act
    /\ \/ route /\ route' = FALSE /\ UNCHANGED <<at, timer>>
       \/ timer' = FALSE /\ at' = Places({"held"}, "lost") /\ UNCHANGED route
    /\ UNCHANGED <<life, seen, typing, outbound>>

PollEnds ==
    /\ timer /\ timer' = FALSE /\ at' = Places({"held"}, "done")
    /\ UNCHANGED <<life, seen, typing, route, outbound, acts>>

-----------------------------------------------------------------------------

Send(o) ==
    /\ Hands /\ Begins(o, "smtp")
    /\ UNCHANGED <<life, inbound, typing, route, posts, tracked, sent, swallowed, answered>>

Mailed ==
    /\ Awaits("smtp") /\ Returns
    /\ Posts(IF sending.kind = "progress" THEN 0 ELSE 1)
    /\ UNCHANGED <<Aside, typing, tracked, swallowed, acts>>

Fails ==
    /\ Awaits("smtp") /\ Act /\ Raises
    /\ UNCHANGED <<Aside, typing, posts, tracked, swallowed>>

-----------------------------------------------------------------------------

Handlers == PollEnds

Next ==
    \/ Start \/ StartCancelled
    \/ \E m \in Messages : Said(m, "due") \/ Again(m)
    \/ PollStarts \/ PollFails \/ Handlers
    \/ \E d \in Deliveries : Collect(d)
    \/ \E o \in Orders({1}, {FALSE}) : Send(o) \/ NotSent(o)     \* replies may be disabled
    \/ Mailed \/ Fails
=============================================================================
