-------------------------------- MODULE Discord --------------------------------
(***************************************************************************)
(* integrations/discord.py: the gateway socket, whose loop handles one     *)
(* message after the other and reconnects without resuming, and REST calls *)
(* that are made up to three times.  Progress is streamed into one post,   *)
(* and the answer begins by editing it.                                    *)
(***************************************************************************)
EXTENDS Adapter

Client == phase \in {"starting", "up", "left", "stopping"}

-----------------------------------------------------------------------------
(* Life                                                                    *)

Start == Enters("new", "starting")

\* What was said while there was no socket is not told again.
Connects ==
    /\ phase \in {"starting", "up"} /\ ~link /\ \A d \in Deliveries : at[d] # "held"
    /\ phase' = "up" /\ link' = TRUE /\ at' = Places({"due"}, "lost")
    /\ UNCHANGED <<adapter, seen, timer, typing, route, outbound, acts>>

\* A break, a reconnect request or an invalid session; what the socket holds
\* already may still be read.
Breaks ==
    /\ link /\ Act /\ link' = FALSE
    /\ UNCHANGED <<adapter, phase, inbound, typing, route, outbound>>

StartCancelled ==
    /\ phase \in {"starting", "up"} /\ Act
    /\ phase' = "left" /\ link' = FALSE /\ at' = Places({"due", "held"}, "lost")
    /\ UNCHANGED <<adapter, seen, timer, typing, route, outbound>>

\* Typing and streamed posts are forgotten, then the client is closed.
Stop ==
    /\ phase = "left" /\ phase' = "stopping" /\ typing' = FALSE /\ tracked' = 0
    /\ UNCHANGED <<adapter, link, inbound, route, sending, posts, sent, swallowed, answered, handed, acts>>

Stopped == Enters("stopping", "down")

-----------------------------------------------------------------------------
(* Messages                                                                *)

Deliver(d) ==
    /\ phase = "up" /\ at[d] = "due" /\ \A e \in Deliveries : at[e] # "held"
    /\ Moves(d, "held")
    /\ UNCHANGED <<life, seen, timer, typing, route, outbound, acts>>

\* The attachments are there, or named as failed.
Downloaded(d) ==
    /\ at[d] = "held" /\ Moves(d, "done") /\ typing' = TRUE
    /\ UNCHANGED <<life, seen, timer, route, outbound, acts>>

\* The indicator ends when its call fails.
TypingFails ==
    /\ typing /\ typing' = FALSE /\ Act
    /\ UNCHANGED <<life, inbound, route, outbound>>

-----------------------------------------------------------------------------
(* send()                                                                  *)

\* An answer takes the streamed post away before it edits it.
TakenNever == tracked
Taken == 0

\* After its files: the text starts in the streamed post, or in a new one.
TextBegins(post, size) ==
    IF post = 0 THEN "post" ELSE IF size > 0 THEN "editanswer" ELSE "delete"

Send(o) ==
    /\ Client /\ Hands
    /\ \/ /\ o.kind = "progress" /\ UNCHANGED tracked
          /\ \/ Begins(o, IF tracked = 0 THEN "post" ELSE "edit")
             \/ tracked # 0 /\ UNCHANGED sending      \* too soon, or the same text
       \/ o.file /\ Begins(o, "file") /\ UNCHANGED tracked
       \/ /\ o.kind = "answer" /\ ~o.file
          /\ Begins(o, TextBegins(tracked, o.size)) /\ tracked' = Taken
    /\ UNCHANGED <<life, inbound, typing, route, posts, sent, swallowed, answered>>

TypingStops == typing' = (typing /\ sending.kind = "progress")

\* An exception or a rate limit: the call is made again, three times in all.
TriesAgain ==
    /\ sending # Idle /\ sending.tries + 1 < Retries /\ Act /\ Tries
    /\ UNCHANGED <<Aside, typing, posts, tracked, sent, swallowed, answered>>

\* A file that could not be sent is named only if there is nothing else to say.
FileDone ==
    /\ Awaits("file")
    /\ \E size \in {sending.size} \cup (IF sending.size = 0 THEN {1} ELSE {}) :
         /\ IF tracked = 0 /\ size = 0
              THEN Returns /\ TypingStops
              ELSE /\ sending' = [sending EXCEPT !.size = size, !.post = tracked, !.tries = 0,
                                                 !.rung = TextBegins(tracked, size)]
                   /\ UNCHANGED <<sent, answered, typing>>
         /\ tracked' = Taken
    /\ UNCHANGED <<Aside, posts, swallowed, acts>>

Fails ==
    /\ sending # Idle /\ (Client => Act) /\ (~Client => UNCHANGED acts)
    /\ \/ Awaits("editanswer") /\ GoesOn("post") /\ UNCHANGED <<sent, swallowed, answered, typing>>
       \/ Awaits("post") /\ Swallows /\ TypingStops
       \/ (Awaits("edit") \/ Awaits("delete")) /\ Returns /\ TypingStops /\ UNCHANGED swallowed
    /\ UNCHANGED <<Aside, posts, tracked>>

Succeeds ==
    /\ sending # Idle /\ Client
    /\ \/ Awaits("edit") /\ Edits(sending.post, 0) /\ Returns /\ UNCHANGED tracked
       \/ Awaits("delete") /\ Edits(sending.post, 0) /\ Returns /\ UNCHANGED tracked
       \/ /\ Awaits("post") /\ sending.kind = "progress"
          /\ Posts(0) /\ tracked' = Len(posts') /\ Returns
       \/ /\ sending.kind = "answer" /\ (Awaits("editanswer") \/ Awaits("post"))
          /\ IF Awaits("post") THEN Posts(sending.shown + 1) ELSE Edits(sending.post, 1)
          /\ NextPiece("post") /\ UNCHANGED tracked
    /\ typing' = (typing /\ (sending.kind = "progress" \/ sending' # Idle))
    /\ UNCHANGED <<Aside, swallowed, acts>>

-----------------------------------------------------------------------------

Handlers == \E d \in Deliveries : Downloaded(d)

Next ==
    \/ Start \/ Connects \/ Breaks \/ StartCancelled \/ Stop \/ Stopped
    \/ \E m \in Messages : Said(m, IF link THEN "due" ELSE "lost")
    \/ \E d \in Deliveries : Deliver(d)
    \/ Handlers \/ TypingFails
    \/ \E o \in Orders({0, 2}, BOOLEAN) : Send(o) \/ (~Client /\ NotSent(o))
    \/ TriesAgain \/ FileDone \/ Fails \/ Succeeds
=============================================================================
