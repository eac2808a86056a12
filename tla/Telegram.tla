------------------------------- MODULE Telegram -------------------------------
(***************************************************************************)
(* integrations/telegram.py: long polling (one update at a time), photos   *)
(* of one album gathered for 0.6 s, progress written into one post that    *)
(* the end of the answer lets go of, HTML with plain text behind it.       *)
(***************************************************************************)
EXTENDS Adapter

App == phase \in {"starting", "up", "left", "stopping"}

-----------------------------------------------------------------------------
(* Life                                                                    *)

Start == Enters("new", "starting")

\* Polling begins, and what people wrote before is dropped.
StartPolls ==
    /\ phase = "starting" /\ phase' = "up" /\ link' = TRUE
    /\ at' = Places({"due"}, "lost")
    /\ UNCHANGED <<adapter, seen, timer, typing, route, outbound, acts>>

\* start() is cancelled, or leaves its loop as another process polls; the updates
\* already fetched are still handled.
Leaves ==
    /\ phase \in {"starting", "up"} /\ Act /\ phase' = "left"
    /\ link' \in {link, FALSE}
    /\ UNCHANGED <<adapter, inbound, typing, route, outbound>>

Stop ==
    /\ phase = "left" /\ phase' = "stopping"
    /\ typing' = FALSE /\ timer' = FALSE /\ at' = Places({"kept"}, "lost")
    /\ UNCHANGED <<adapter, link, seen, route, outbound, acts>>

\* The application has stopped, which waits for the update being handled; without
\* it nobody is shown to be typing.
Stopped ==
    /\ phase = "stopping" /\ phase' = "down" /\ link' = FALSE /\ typing' = FALSE
    /\ \A d \in Deliveries : at[d] # "held"
    /\ UNCHANGED <<adapter, inbound, route, outbound, acts>>

-----------------------------------------------------------------------------
(* Messages                                                                *)

Deliver(d) ==
    /\ link /\ at[d] = "due" /\ \A e \in Deliveries : at[e] # "held"
    /\ Moves(d, "held")
    /\ UNCHANGED <<life, seen, timer, typing, route, outbound, acts>>

\* A variant: the task that flushed an album stays in the table of tasks.
KeepsOnly(d) ==
    /\ d[1] \in Albums /\ Moves(d, "kept") /\ typing' = TRUE
    /\ timer' = (\A e \in Deliveries : e[1] \in Albums => at[e] # "done")

\* The files are there, or left out.  A photo of an album is kept for the others:
\* the first starts the timer, also after a flush that took those before it.
Keeps(d) ==
    /\ d[1] \in Albums /\ Moves(d, "kept") /\ timer' = TRUE
    /\ typing' = (typing \/ \A e \in Deliveries : at[e] # "kept")

Downloaded(d) ==
    /\ at[d] = "held"
    /\ \/ Keeps(d)
       \/ d[1] \notin Albums /\ Moves(d, "done") /\ typing' = TRUE /\ UNCHANGED timer
    /\ UNCHANGED <<life, seen, route, outbound, acts>>

Flush ==
    /\ timer /\ timer' = FALSE /\ at' = Places({"kept"}, "done")
    /\ UNCHANGED <<life, seen, typing, route, outbound, acts>>

\* The loop ends after four minutes, with an error, or with the application.
TypingEnds ==
    /\ typing /\ typing' = FALSE /\ Act
    /\ UNCHANGED <<life, inbound, route, outbound>>

-----------------------------------------------------------------------------
(* send()                                                                  *)

Send(o) ==
    /\ App /\ Hands
    /\ Begins(o, CASE o.kind = "progress" -> IF tracked # 0 THEN "edit" ELSE "html"
                   [] o.file -> "file" [] OTHER -> "html")
    /\ typing' = (typing /\ o.kind = "progress")
    /\ UNCHANGED <<life, inbound, route, posts, tracked, sent, swallowed, answered>>

\* A call that timed out is made again, but for the notice of a file.
TimedOut ==
    /\ sending # Idle /\ ~Awaits("notice") /\ sending.tries + 1 < Retries /\ Act /\ Tries
    /\ UNCHANGED <<Aside, typing, posts, tracked, sent, swallowed, answered>>

\* The next rung, when there is one; the post an edit failed on is let go.
Fails ==
    /\ sending # Idle
    /\ IF App THEN Act ELSE UNCHANGED acts
    /\ \/ \E r \in {<<"file", "notice">>, <<"edit", "editplain">>, <<"editplain", "html">>,
                    <<"html", "plain">>} :
            /\ Awaits(r[1]) /\ GoesOn(r[2])
            /\ tracked' = IF Awaits("editplain") THEN 0 ELSE tracked
            /\ UNCHANGED <<sent, answered>>
       \/ /\ Awaits("notice") \/ Awaits("plain")
          /\ Raises /\ UNCHANGED tracked
    /\ UNCHANGED <<Aside, typing, posts, swallowed>>

\* The end of an answer with text forgets the progress post.
Cleared == 0

Succeeds ==
    /\ sending # Idle /\ App
    /\ \/ /\ Awaits("file") \/ Awaits("notice")
          /\ IF sending.size = 0 THEN Returns ELSE GoesOn("html") /\ UNCHANGED <<sent, answered>>
          /\ UNCHANGED <<posts, tracked>>
       \/ /\ Awaits("edit") \/ Awaits("editplain")
          /\ Edits(tracked, 0) /\ Returns /\ UNCHANGED tracked
       \/ /\ Awaits("html") \/ Awaits("plain")
          /\ sending.kind = "progress"
          /\ Posts(0) /\ tracked' = Len(posts') /\ Returns
       \/ /\ Awaits("html") \/ Awaits("plain")
          /\ sending.kind = "answer" /\ Posts(sending.shown + 1)
          /\ NextPiece("html") /\ tracked' = IF Last THEN Cleared ELSE tracked
    /\ UNCHANGED <<Aside, typing, swallowed, acts>>

-----------------------------------------------------------------------------

Handlers == (\E d \in Deliveries : Downloaded(d)) \/ Flush

Next ==
    \/ Start \/ StartPolls \/ Leaves \/ Stop \/ Stopped
    \/ \E m \in Messages : Said(m, "due")
    \/ \E d \in Deliveries : Deliver(d)
    \/ Handlers \/ TypingEnds
    \/ \E o \in Orders({0, 2}, BOOLEAN) : Send(o) \/ (~App /\ NotSent(o))
    \/ TimedOut \/ Fails \/ Succeeds
=============================================================================
