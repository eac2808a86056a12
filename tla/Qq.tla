----------------------------------- MODULE Qq -----------------------------------
(***************************************************************************)
(* integrations/qq.py: a connection that start() opens again after five    *)
(* seconds, and messages that are published without waiting for anything.  *)
(***************************************************************************)
EXTENDS Adapter

Start == Enters("new", "up")

Connects ==
    /\ phase = "up" /\ ~link /\ link' = TRUE
    /\ UNCHANGED <<adapter, phase, inbound, typing, route, outbound, acts>>

\* The platform may forget what it could not deliver.
Breaks ==
    /\ link /\ Act /\ link' = FALSE
    /\ at' \in {at, Places({"due"}, "lost")}
    /\ UNCHANGED <<adapter, phase, seen, timer, typing, route, outbound>>

StartCancelled ==
    /\ phase = "up" /\ Act /\ phase' = "left"
    /\ UNCHANGED <<adapter, link, inbound, typing, route, outbound>>

Stop ==
    /\ phase = "left" /\ phase' = "down" /\ link' = FALSE
    /\ UNCHANGED <<adapter, inbound, typing, route, outbound, acts>>

-----------------------------------------------------------------------------

Deliver(d) ==
    /\ link /\ at[d] = "due" /\ Remembers(d, "done")
    /\ UNCHANGED <<life, timer, typing, route, outbound, acts>>

-----------------------------------------------------------------------------

Client == phase # "new"

Send(o) ==
    /\ Client /\ Hands /\ Begins(o, "post")
    /\ UNCHANGED <<life, inbound, typing, route, posts, tracked, sent, swallowed, answered>>

Posted ==
    /\ Awaits("post") /\ Returns
    /\ Posts(IF sending.kind = "progress" THEN 0 ELSE 1)
    /\ UNCHANGED <<Aside, typing, tracked, swallowed, acts>>

Fails == Awaits("post") /\ Act /\ Swallows /\ UNCHANGED <<Aside, typing, posts, tracked>>

-----------------------------------------------------------------------------

Next ==
    \/ Start \/ Connects \/ Breaks \/ StartCancelled \/ Stop
    \/ \E m \in Messages : Said(m, "due") \/ Again(m)
    \/ \E d \in Deliveries : Deliver(d)
    \/ \E o \in Orders({1}, {FALSE}) : Send(o) \/ (~Client /\ NotSent(o))
    \/ Posted \/ Fails
=============================================================================
