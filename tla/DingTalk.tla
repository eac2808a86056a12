------------------------------- MODULE DingTalk -------------------------------
(***************************************************************************)
(* integrations/dingtalk.py: the stream SDK runs a handler for each        *)
(* message, which fetches its files and leaves the rest to a task; sending *)
(* takes an access token (route), and a picture has several ways to go.    *)
(***************************************************************************)
EXTENDS Adapter

Client == phase = "up"

Start ==
    /\ phase = "new" /\ phase' = "up" /\ link' = TRUE
    /\ UNCHANGED <<adapter, inbound, typing, route, outbound, acts>>

\* The stream ends, and is opened again after five seconds while start() runs.
Breaks == link /\ Act /\ link' = FALSE /\ UNCHANGED <<adapter, phase, inbound, typing, route, outbound>>
Reconnects ==
    /\ phase = "up" /\ ~link /\ link' = TRUE
    /\ UNCHANGED <<adapter, phase, inbound, typing, route, outbound, acts>>

\* start() is cancelled and stop() closes the client, then cancels the tasks.
Stop ==
    /\ phase = "up" /\ Act /\ phase' = "stopping" /\ link' = FALSE
    /\ UNCHANGED <<adapter, inbound, typing, route, outbound>>

Stopped ==
    /\ phase = "stopping" /\ phase' = "down" /\ at' = Places({"ready"}, "lost")
    /\ UNCHANGED <<adapter, link, seen, timer, typing, route, outbound, acts>>

-----------------------------------------------------------------------------

Deliver(d) ==
    /\ link /\ at[d] = "due" /\ Moves(d, "held")
    /\ UNCHANGED <<life, seen, timer, typing, route, outbound, acts>>

\* The handler acknowledges whatever happened: a message that is only a file that
\* could not be fetched, or an error, is gone.
Handled(d) ==
    /\ at[d] = "held"
    /\ \/ Moves(d, "ready") /\ UNCHANGED acts
       \/ Moves(d, "lost") /\ Act
    /\ UNCHANGED <<life, seen, timer, typing, route, outbound>>

Published(d) ==
    /\ at[d] = "ready" /\ Moves(d, "done")
    /\ UNCHANGED <<life, seen, timer, typing, route, outbound, acts>>

-----------------------------------------------------------------------------

Send(o) ==
    /\ Hands /\ Begins(o, "token")
    /\ UNCHANGED <<life, inbound, typing, route, posts, tracked, sent, swallowed, answered>>

\* Text first, then the file: a picture by its address, uploaded, or as a file.
AfterToken == IF sending.size = 0 THEN "url" ELSE "text"

Token ==
    /\ Awaits("token") /\ (Client \/ route) /\ GoesOn(AfterToken) /\ route' = TRUE
    /\ UNCHANGED <<life, inbound, typing, posts, tracked, sent, swallowed, answered, handed, acts>>

TokenExpires ==
    /\ route /\ Act /\ route' = FALSE
    /\ UNCHANGED <<life, inbound, typing, outbound>>

NoToken ==
    /\ Awaits("token") /\ ~route /\ (Client => Act) /\ (~Client => UNCHANGED acts)
    /\ Swallows /\ UNCHANGED <<Aside, typing, posts, tracked>>

TextDone ==
    /\ Awaits("text")
    /\ \/ /\ Client /\ Posts(IF sending.kind = "progress" THEN 0 ELSE 1)
          /\ UNCHANGED <<swallowed, acts>>
       \/ /\ (Client => Act) /\ (~Client => UNCHANGED acts)
          /\ swallowed' = swallowed \cup {sending.n} /\ UNCHANGED posts
    /\ \/ Returns
       \/ sending.kind = "answer" /\ GoesOn("url") /\ UNCHANGED <<sent, answered>>
    /\ UNCHANGED <<Aside, typing, tracked>>

\* When every way failed, a text says so.
FileSent ==
    /\ Awaits("url") \/ Awaits("upload") \/ Awaits("image") \/ Awaits("asfile") \/ Awaits("notice")
    /\ Client
    /\ IF Awaits("upload") THEN GoesOn("image") /\ UNCHANGED <<sent, answered>> ELSE Returns
    /\ UNCHANGED <<Aside, typing, posts, tracked, swallowed, acts>>

FileFails ==
    /\ (Client => Act) /\ (~Client => UNCHANGED acts)
    /\ \/ \E r \in {<<"url", "upload">>, <<"upload", "notice">>, <<"image", "asfile">>, <<"asfile", "notice">>} :
            Awaits(r[1]) /\ GoesOn(r[2]) /\ UNCHANGED <<sent, swallowed, answered>>
       \/ Awaits("notice") /\ Swallows
    /\ UNCHANGED <<Aside, typing, posts, tracked>>

-----------------------------------------------------------------------------

Handlers == \E d \in Deliveries : Handled(d) \/ Published(d)

Next ==
    \/ Start \/ Breaks \/ Reconnects \/ Stop \/ Stopped
    \/ \E m \in Messages : Said(m, "due")
    \/ \E d \in Deliveries : Deliver(d)
    \/ Handlers
    \/ \E o \in Orders({0, 1}, BOOLEAN) : Send(o)
    \/ Token \/ TokenExpires \/ NoToken \/ TextDone \/ FileSent \/ FileFails
=============================================================================
