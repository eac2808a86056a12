--------------------------------- MODULE Slack ---------------------------------
(***************************************************************************)
(* integrations/slack.py: Socket Mode.  A mention reaches the bot as two   *)
(* events, here the two deliveries of a message: app_mention, and message, *)
(* which is left out if the bot knows its own id (route).                  *)
(***************************************************************************)
EXTENDS Adapter

Client == phase # "new"

\* auth.test tells the id of the bot, or fails; then the socket is opened.
Start ==
    /\ phase = "new" /\ phase' = "up" /\ link' = TRUE
    /\ route' \in BOOLEAN /\ (~route' => Act) /\ (route' => UNCHANGED acts)
    /\ UNCHANGED <<adapter, inbound, typing, outbound>>

\* start() ends and the socket is closed; what handlers hold goes on.
Stop ==
    /\ phase = "up" /\ Act /\ phase' = "down" /\ link' = FALSE
    /\ UNCHANGED <<adapter, inbound, typing, route, outbound>>

-----------------------------------------------------------------------------

\* A message, or a mention in a channel.
Write(m) ==
    /\ link /\ at[<<m, 1>>] = "none" /\ Act
    /\ at' = [at EXCEPT ![<<m, 1>>] = "due", ![<<m, 2>>] = IF m \in Mentions THEN "due" ELSE @]
    /\ UNCHANGED <<life, seen, timer, typing, route, outbound>>

\* A request is acknowledged first; if that fails, Slack sends it again.
Deliver(d) ==
    /\ link /\ at[d] = "due" /\ Moves(d, "held")
    /\ UNCHANGED <<life, seen, timer, typing, route, outbound, acts>>

Twin(d) == d[2] = 2 /\ route

Acknowledged(d) ==
    /\ at[d] = "held" /\ Moves(d, IF Twin(d) THEN "dropped" ELSE "ready")
    /\ UNCHANGED <<life, seen, timer, typing, route, outbound, acts>>

AckFails(d) ==
    /\ at[d] = "held" /\ Act /\ Moves(d, "due")
    /\ UNCHANGED <<life, seen, timer, typing, route, outbound>>

\* The reaction is added, or not.
Reacted(d) ==
    /\ at[d] = "ready" /\ Moves(d, "done")
    /\ UNCHANGED <<life, seen, timer, typing, route, outbound, acts>>

-----------------------------------------------------------------------------

Send(o) ==
    /\ Client /\ Hands /\ Begins(o, IF o.size = 0 THEN "file" ELSE "text")
    /\ UNCHANGED <<life, inbound, typing, route, posts, tracked, sent, swallowed, answered>>

\* The text, then the files and the reactions, whose errors are logged.
TextSent ==
    /\ Awaits("text") /\ Posts(IF sending.kind = "progress" THEN 0 ELSE 1)
    /\ IF sending.kind = "progress" THEN Returns ELSE GoesOn("file") /\ UNCHANGED <<sent, answered>>
    /\ UNCHANGED <<Aside, typing, tracked, swallowed, acts>>

FileDone == Awaits("file") /\ Returns /\ UNCHANGED <<Aside, typing, posts, tracked, swallowed, acts>>

Fails == Awaits("text") /\ Act /\ Swallows /\ UNCHANGED <<Aside, typing, posts, tracked>>

-----------------------------------------------------------------------------

Handlers == \E d \in Deliveries : Acknowledged(d) \/ Reacted(d)

Next ==
    \/ Start \/ Stop
    \/ \E m \in Messages : Write(m)
    \/ \E d \in Deliveries : Deliver(d) \/ AckFails(d)
    \/ Handlers
    \/ \E o \in Orders({0, 1}, BOOLEAN) : Send(o) \/ (~Client /\ NotSent(o))
    \/ TextSent \/ FileDone \/ Fails
=============================================================================
