-------------------------------- MODULE WhatsApp --------------------------------
(***************************************************************************)
(* The WhatsApp plugin (channel.py) and its bridge (server.ts, whatsapp.ts)*)
(* joined by a socket: the bridge takes messages from WhatsApp, fetches    *)
(* their files (kept) and broadcasts them to the clients there are, and    *)
(* reports whether it is connected (route), which the plugin believes      *)
(* (timer) before it sends.                                                *)
(***************************************************************************)
EXTENDS Adapter

Start == Enters("new", "up")

\* A new socket counts as connected, whatever the bridge is.
Connects ==
    /\ phase = "up" /\ ~link /\ link' = TRUE /\ timer' = TRUE
    /\ UNCHANGED <<adapter, phase, at, seen, typing, route, outbound, acts>>

\* What is on its way is gone with the socket; after an error, not after a close,
\* the plugin knows that it is not connected.
Breaks ==
    /\ link /\ Act /\ link' = FALSE /\ timer' \in {timer, FALSE}
    /\ at' = Places({"due"}, "lost")
    /\ UNCHANGED <<adapter, phase, seen, typing, route, outbound>>

\* The bridge connects to WhatsApp and loses it, and says so.
StatusChanges ==
    /\ Act /\ route' = ~route
    /\ timer' = IF link THEN route' ELSE timer
    /\ UNCHANGED <<life, at, seen, typing, outbound>>

StartCancelled ==
    /\ phase = "up" /\ Act /\ phase' = "left" /\ link' = FALSE
    /\ at' = Places({"due"}, "lost")
    /\ UNCHANGED <<adapter, seen, timer, typing, route, outbound>>

Stop ==
    /\ phase = "left" /\ phase' = "down" /\ timer' = FALSE
    /\ UNCHANGED <<adapter, link, at, seen, typing, route, outbound, acts>>

-----------------------------------------------------------------------------

\* The bridge has fetched the file, or left it out, and broadcasts the message.
Broadcast(d) ==
    /\ at[d] = "kept" /\ Moves(d, IF link THEN "due" ELSE "lost")
    /\ UNCHANGED <<life, seen, timer, typing, route, outbound, acts>>

Deliver(d) ==
    /\ link /\ at[d] = "due" /\ Remembers(d, "done")
    /\ UNCHANGED <<life, timer, typing, route, outbound, acts>>

\* WhatsApp tells the bridge of a message a second time.
ToldAgain(m) ==
    /\ at[<<m, 1>>] \notin {"none", "kept"} /\ at[<<m, 2>>] = "none" /\ route /\ Act
    /\ Moves(<<m, 2>>, "kept")
    /\ UNCHANGED <<life, seen, timer, typing, route, outbound>>

-----------------------------------------------------------------------------

Send(o) ==
    /\ timer /\ Hands /\ Begins(o, "bridge")
    /\ UNCHANGED <<life, inbound, typing, route, posts, tracked, sent, swallowed, answered>>

\* The command is written to the socket; the bridge may still fail to send it,
\* and its error is logged only.
Passed ==
    /\ Awaits("bridge") /\ link /\ route /\ Returns
    /\ Posts(IF sending.kind = "progress" THEN 0 ELSE 1)
    /\ UNCHANGED <<Aside, typing, tracked, swallowed, acts>>

Fails ==
    /\ Awaits("bridge") /\ (link /\ route => Act) /\ (~(link /\ route) => UNCHANGED acts)
    /\ Swallows /\ UNCHANGED <<Aside, typing, posts, tracked>>

-----------------------------------------------------------------------------

Handlers == \E d \in Deliveries : Broadcast(d)

Next ==
    \/ Start \/ Connects \/ Breaks \/ StatusChanges \/ StartCancelled \/ Stop
    \/ \E m \in Messages : (route /\ Said(m, "kept")) \/ ToldAgain(m)
    \/ Handlers
    \/ \E d \in Deliveries : Deliver(d)
    \/ \E o \in Orders({1}, {FALSE}) : Send(o) \/ (~timer /\ NotSent(o))
    \/ Passed \/ Fails
=============================================================================
