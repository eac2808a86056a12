--------------------------------- MODULE Wecom ---------------------------------
(***************************************************************************)
(* integrations/wecom.py: a long connection the SDK keeps, a task for each *)
(* message, and answers that need the frame (route) of a message of the    *)
(* chat that came before.                                                  *)
(***************************************************************************)
EXTENDS Adapter

Start ==
    /\ phase = "new" /\ phase' = "up" /\ link' = TRUE
    /\ UNCHANGED <<adapter, inbound, typing, route, outbound, acts>>

StartCancelled == phase = "up" /\ Act /\ phase' = "left" /\ UNCHANGED <<adapter, link, inbound, typing, route, outbound>>

Stop ==
    /\ phase = "left" /\ phase' = "down" /\ link' = FALSE
    /\ UNCHANGED <<adapter, inbound, typing, route, outbound, acts>>

-----------------------------------------------------------------------------

Deliver(d) ==
    /\ link /\ at[d] = "due" /\ Remembers(d, "held")
    /\ UNCHANGED <<life, timer, typing, route, outbound, acts>>

\* The file is there, or named as failed; the frame is kept for the answer.
Downloaded(d) ==
    /\ at[d] = "held" /\ Moves(d, "done") /\ route' = TRUE
    /\ UNCHANGED <<life, seen, timer, typing, outbound, acts>>

-----------------------------------------------------------------------------

\* Without a frame nothing is sent, as after a restart.
CanSend == phase # "new" /\ route

Send(o) ==
    /\ CanSend /\ Hands /\ Begins(o, "reply")
    /\ UNCHANGED <<life, inbound, typing, route, posts, tracked, sent, swallowed, answered>>

Replied ==
    /\ Awaits("reply") /\ Returns
    /\ Posts(IF sending.kind = "progress" THEN 0 ELSE 1)
    /\ UNCHANGED <<Aside, typing, tracked, swallowed, acts>>

Fails == Awaits("reply") /\ Act /\ Swallows /\ UNCHANGED <<Aside, typing, posts, tracked>>

-----------------------------------------------------------------------------

Handlers == \E d \in Deliveries : Downloaded(d)

Next ==
    \/ Start \/ StartCancelled \/ Stop
    \/ \E m \in Messages : Said(m, "due") \/ Again(m)
    \/ \E d \in Deliveries : Deliver(d)
    \/ Handlers
    \/ \E o \in Orders({1}, {FALSE}) : Send(o) \/ (~CanSend /\ NotSent(o))
    \/ Replied \/ Fails
=============================================================================
