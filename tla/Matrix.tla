-------------------------------- MODULE Matrix --------------------------------
(***************************************************************************)
(* integrations/matrix.py: a sync task that hands over one event after the *)
(* other and catches up after a break, so that a break is only a delay; a  *)
(* typing indicator that a task (timer) keeps alive; one message an answer.*)
(***************************************************************************)
EXTENDS Adapter

Client == phase # "new"

-----------------------------------------------------------------------------
(* Life                                                                    *)

Start ==
    /\ phase = "new" /\ phase' = "up" /\ link' = TRUE
    /\ UNCHANGED <<adapter, inbound, typing, route, outbound, acts>>

\* Typing is no longer kept alive, and the sync task may finish its batch ...
Stop ==
    /\ phase = "up" /\ Act /\ phase' = "stopping" /\ timer' = FALSE
    /\ UNCHANGED <<adapter, link, at, seen, typing, route, outbound>>

\* ... or is cancelled after a grace period.
Stopped ==
    /\ phase = "stopping" /\ phase' = "down" /\ link' = FALSE
    /\ at' = Places({"held", "ready"}, "lost")
    /\ UNCHANGED <<adapter, seen, timer, typing, route, outbound, acts>>

-----------------------------------------------------------------------------
(* Messages                                                                *)

\* A file is fetched first; then typing is shown, for which the task that kept it
\* alive is replaced.
Deliver(d) ==
    /\ link /\ at[d] = "due" /\ \A e \in Deliveries : at[e] \notin {"held", "ready"}
    /\ \/ Moves(d, "held") /\ UNCHANGED timer
       \/ Moves(d, "ready") /\ timer' = FALSE
    /\ UNCHANGED <<life, seen, typing, route, outbound, acts>>

Fetched(d) ==
    /\ at[d] = "held" /\ Moves(d, "ready") /\ timer' = FALSE
    /\ UNCHANGED <<life, seen, typing, route, outbound, acts>>

\* The call is over, with or without effect: the message is published.
TypingCalled(d) ==
    /\ at[d] = "ready" /\ Moves(d, "done")
    /\ typing' \in {typing, TRUE} /\ timer' = (phase = "up")
    /\ UNCHANGED <<life, seen, route, outbound, acts>>

KeptAlive ==
    /\ timer /\ ~typing /\ typing' = TRUE
    /\ UNCHANGED <<life, inbound, route, outbound, acts>>

\* The homeserver forgets an indicator nobody renews.
TimesOut ==
    /\ typing /\ ~timer /\ typing' = FALSE
    /\ UNCHANGED <<life, inbound, route, outbound, acts>>

-----------------------------------------------------------------------------
(* send()                                                                  *)

Send(o) ==
    /\ Client /\ Hands /\ Begins(o, IF o.file THEN "file" ELSE "text")
    /\ UNCHANGED <<life, inbound, typing, route, posts, tracked, sent, swallowed, answered>>

\* The finally clause of an answer: the task is cancelled, then the indicator cleared.
KeepsTyping == UNCHANGED timer
StopsKeepalive == timer' = FALSE

Finally(rung) ==
    IF sending.kind = "progress"
      THEN (IF rung = "raise" THEN Raises ELSE Returns) /\ UNCHANGED timer
      ELSE GoesOn(rung) /\ StopsKeepalive /\ UNCHANGED <<sent, answered>>

\* A file that fails is named in the text.
FileDone ==
    /\ Awaits("file")
    /\ \/ sending.size = 0 /\ Finally("clear")
       \/ /\ sending' = [sending EXCEPT !.size = 1, !.rung = "text"]
          /\ UNCHANGED <<timer, sent, answered>>
    /\ UNCHANGED <<life, at, seen, typing, route, posts, tracked, swallowed, handed, acts>>

TextSent ==
    /\ Awaits("text") /\ phase # "down"
    /\ Posts(IF sending.kind = "progress" THEN 0 ELSE 1) /\ Finally("clear")
    /\ UNCHANGED <<life, at, seen, typing, route, tracked, swallowed, handed, acts>>

\* An exception is raised after the clause; an error response is only logged.
TextFails ==
    /\ Awaits("text") /\ IF phase = "down" THEN UNCHANGED acts ELSE Act
    /\ \/ Finally("raise") /\ UNCHANGED swallowed
       \/ Finally("clear") /\ swallowed' = swallowed \cup {sending.n}
    /\ UNCHANGED <<life, at, seen, typing, route, posts, tracked, handed>>

Clears ==
    /\ Awaits("clear") \/ Awaits("raise")
    /\ typing' = FALSE
    /\ IF Awaits("raise") THEN Raises ELSE Returns
    /\ UNCHANGED <<Aside, posts, tracked, swallowed, acts>>

-----------------------------------------------------------------------------

Handlers == \E d \in Deliveries : Fetched(d) \/ TypingCalled(d)

Next ==
    \/ Start \/ Stop \/ Stopped
    \/ \E m \in Messages : Said(m, "due")
    \/ \E d \in Deliveries : Deliver(d)
    \/ Handlers \/ KeptAlive \/ TimesOut
    \/ \E o \in Orders({0, 1}, BOOLEAN) : Send(o) \/ (~Client /\ NotSent(o))
    \/ FileDone \/ TextSent \/ TextFails \/ Clears
=============================================================================
