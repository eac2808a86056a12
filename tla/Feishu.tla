-------------------------------- MODULE Feishu --------------------------------
(***************************************************************************)
(* integrations/feishu.py: a thread keeps the long connection and gives    *)
(* each message a task of its own, for as long as the process lives: stop()*)
(* only ends start().  The first post of an answer is a reply, and errors  *)
(* of a post are logged.                                                   *)
(***************************************************************************)
EXTENDS Adapter

Client == phase # "new"

Start ==
    /\ phase = "new" /\ phase' = "up" /\ link' = TRUE
    /\ UNCHANGED <<adapter, inbound, typing, route, outbound, acts>>

Stop ==
    /\ phase = "up" /\ Act /\ phase' = "down"
    /\ UNCHANGED <<adapter, link, inbound, typing, route, outbound>>

-----------------------------------------------------------------------------

\* A variant: the id is remembered after the reaction.
DeliverLate(d) ==
    /\ link /\ at[d] = "due"
    /\ Moves(d, IF d[1] \in seen THEN "dropped" ELSE "held")
    /\ UNCHANGED <<life, seen, timer, typing, route, outbound, acts>>

Deliver(d) ==
    /\ link /\ at[d] = "due" /\ Remembers(d, "held")
    /\ UNCHANGED <<life, timer, typing, route, outbound, acts>>

\* The reaction is added, then files and the quoted message are fetched.
Reacted(d) ==
    /\ at[d] = "held" /\ Moves(d, "ready") /\ seen' = seen \cup {d[1]}
    /\ UNCHANGED <<life, timer, typing, route, outbound, acts>>

\* An exception is logged, and the message was seen all the same.
Fetched(d) ==
    /\ at[d] = "ready"
    /\ \/ Moves(d, "done") /\ UNCHANGED acts
       \/ Moves(d, "lost") /\ Act
    /\ UNCHANGED <<life, seen, timer, typing, route, outbound>>

-----------------------------------------------------------------------------

Send(o) ==
    /\ Client /\ Hands
    /\ Begins(o, IF o.file THEN "file" ELSE IF o.kind = "answer" THEN "reply" ELSE "post")
    /\ UNCHANGED <<life, inbound, typing, route, posts, tracked, sent, swallowed, answered>>

\* A file takes the reply with it, when its upload works.
FileDone ==
    /\ Awaits("file")
    /\ IF sending.size = 0 THEN Returns
       ELSE (\E rung \in {"reply", "post"} : GoesOn(rung)) /\ UNCHANGED <<sent, answered>>
    /\ UNCHANGED <<Aside, typing, posts, tracked, swallowed, acts>>

Succeeds ==
    /\ Awaits("reply") \/ Awaits("post")
    /\ Posts(IF sending.kind = "progress" THEN 0 ELSE sending.shown + 1)
    /\ NextPiece("post")
    /\ UNCHANGED <<Aside, typing, tracked, swallowed, acts>>

\* A reply that fails is posted instead; a post that fails is left out.
Fails ==
    /\ Act
    /\ \/ Awaits("reply") /\ GoesOn("post") /\ UNCHANGED <<sent, swallowed, answered>>
       \/ Awaits("post") /\ swallowed' = swallowed \cup {sending.n} /\ NextPiece("post")
    /\ UNCHANGED <<Aside, typing, posts, tracked>>

-----------------------------------------------------------------------------

Handlers == \E d \in Deliveries : Reacted(d) \/ Fetched(d)

Next ==
    \/ Start \/ Stop
    \/ \E m \in Messages : Said(m, "due") \/ Again(m)
    \/ \E d \in Deliveries : Deliver(d)
    \/ Handlers
    \/ \E o \in Orders({0, 2}, BOOLEAN) : Send(o) \/ (~Client /\ NotSent(o))
    \/ FileDone \/ Succeeds \/ Fails
=============================================================================
