-------------------------------- MODULE Adapter --------------------------------
(***************************************************************************)
(* What the chat channels of KageClaw have in common: a BaseChannel        *)
(* (integrations/base.py) that takes messages from a platform, forwards    *)
(* them to the bus, and shows the outbound messages the channel manager    *)
(* hands to it, one at a time.  Each platform has a module of its own that *)
(* extends this one; Adapters puts them together.                          *)
(*                                                                         *)
(* One object of one channel, and one chat.  A message of the platform may *)
(* reach the object twice: a delivery is <<message, 1 or 2>>, in one of    *)
(* these places:                                                           *)
(*   none, due       not said yet; on its way from the platform            *)
(*   held, ready     in a handler, before its first and its second await   *)
(*   kept            in a buffer until a timer flushes it                  *)
(*   done            published on the bus                                  *)
(*   dropped, lost   a duplicate; gone with a fault or a stop              *)
(* The senders are allowed ones, and the texts are left out.               *)
(***************************************************************************)
EXTENDS Naturals, Sequences, FiniteSets

CONSTANTS
    Messages,   \* messages people send
    Albums,     \* those that are photos of one album
    Mentions,   \* those that mention the bot in a channel
    Retries,    \* how often a call that times out is made
    MaxSends,   \* bound: outbound messages handed to the channel
    MaxActs     \* bound: messages said and sent, faults and stops, in one behaviour

ASSUME AdapterAssumption ==
    /\ Albums \cup Mentions \subseteq Messages /\ IsFiniteSet(Messages)
    /\ Retries \in Nat \ {0} /\ MaxSends \in Nat /\ MaxActs \in Nat

VARIABLES
    adapter,    \* the channel this object belongs to
    phase,      \* its life: new, starting, up, left (start() is over), stopping, down
    link,       \* the platform can reach it
    at,         \* where each delivery is
    seen,       \* its cache of message ids
    timer,      \* a task that flushes the buffer is armed
    typing,     \* a typing indicator, or a sign that work is under way
    route,      \* it knows what it needs to answer the chat
    sending,    \* the send() under way
    posts,      \* what the chat shows: [of, chunk] of an answer, chunk 0 for progress
    tracked,    \* the post that progress is written to, 0 for none
    sent,       \* history: answers (number and size) send() returned from without an error
    swallowed,  \* history: answers of which send() only logged an error
    answered,   \* history: messages that were answered
    handed,     \* outbound messages handed over
    acts        \* what happened so far (bound only)

life == <<adapter, phase, link>>
inbound == <<at, seen, timer>>
outbound == <<sending, posts, tracked, sent, swallowed, answered, handed>>
vars == <<life, inbound, typing, route, outbound, acts>>

-----------------------------------------------------------------------------

Deliveries == Messages \X {1, 2}
Inside == {"held", "ready", "kept"}

\* The send() under way: which pieces of which answer are shown, the messages
\* it answers, the call it awaits (rung) and the post it may edit.
Idle == [kind |-> "none", n |-> 0, size |-> 0, shown |-> 0, to |-> {},
         rung |-> "", tries |-> 0, post |-> 0]

Init ==
    /\ phase = "new" /\ link = FALSE
    /\ at = [d \in Deliveries |-> "none"] /\ seen = {} /\ timer = FALSE
    /\ typing = FALSE /\ route = FALSE
    /\ sending = Idle /\ posts = <<>> /\ tracked = 0 /\ handed = 0
    /\ sent = {} /\ swallowed = {} /\ answered = {} /\ acts = 0

\* Something happens that the program does not decide.
Act == acts < MaxActs /\ acts' = acts + 1

Moves(d, place) == at' = [at EXCEPT ![d] = place]
Places(from, to) == [d \in Deliveries |-> IF at[d] \in from THEN to ELSE at[d]]

\* A step of start() or stop() that changes nothing else.
Enters(from, to) ==
    /\ phase = from /\ phase' = to
    /\ UNCHANGED <<adapter, link, inbound, typing, route, outbound, acts>>

-----------------------------------------------------------------------------
(* The platform                                                            *)

\* Someone writes; place tells whether the platform keeps it for the channel.
Said(m, place) ==
    /\ at[<<m, 1>>] = "none" /\ Act
    /\ Moves(<<m, 1>>, place)
    /\ UNCHANGED <<life, seen, timer, typing, route, outbound>>

\* The platform did not hear that the message arrived, and sends it again.
Again(m) ==
    /\ at[<<m, 1>>] \notin {"none", "due"} /\ at[<<m, 2>>] = "none" /\ Act
    /\ Moves(<<m, 2>>, "due")
    /\ UNCHANGED <<life, seen, timer, typing, route, outbound>>

\* The id is looked up and remembered before anything is awaited.
Remembers(d, place) ==
    IF d[1] \in seen THEN Moves(d, "dropped") /\ UNCHANGED seen
                     ELSE Moves(d, place) /\ seen' = seen \cup {d[1]}

-----------------------------------------------------------------------------
(* send()                                                                  *)

\* Messages on the bus nobody has answered: an outbound message answers some of
\* them, or none (progress, a tool, an automation).
Open == {m \in Messages : (\E k \in {1, 2} : at[<<m, k>>] = "done") /\ m \notin answered}

Hands == sending = Idle /\ handed < MaxSends /\ Act /\ handed' = handed + 1

\* An answer has so many pieces of text, and may begin with a file.
Begins(o, rung) ==
    sending' = [Idle EXCEPT !.kind = o.kind, !.n = handed + 1, !.size = o.size,
                            !.to = o.to, !.rung = rung, !.post = tracked]

Awaits(rung) == sending.rung = rung
GoesOn(rung) == sending' = [sending EXCEPT !.rung = rung, !.tries = 0]
Tries == sending' = [sending EXCEPT !.tries = @ + 1]

Piece(c) == [of |-> sending.n, chunk |-> c]
Posts(c) == posts' = Append(posts, Piece(c))
Edits(i, c) == posts' = [posts EXCEPT ![i] = Piece(c)]

Last == sending.shown + 1 = sending.size

\* send() returns, or raises and the manager tells the user.
Returns ==
    /\ sending' = Idle /\ answered' = answered \cup sending.to
    /\ sent' = IF sending.kind = "answer" THEN sent \cup {<<sending.n, sending.size>>} ELSE sent
Raises == sending' = Idle /\ answered' = answered \cup sending.to /\ UNCHANGED sent

\* The error is only logged: the manager takes the answer for delivered.
Swallows == Returns /\ swallowed' = swallowed \cup {sending.n}

\* One piece more is shown; the next one starts on this rung.
NextPiece(rung) ==
    IF Last THEN Returns
            ELSE /\ sending' = [sending EXCEPT !.shown = @ + 1, !.rung = rung, !.tries = 0]
                 /\ UNCHANGED <<sent, answered>>

\* What may be handed over: progress, or an answer of so many pieces (none, if it
\* is only a file).
Orders(sizes, files) ==
    {[kind |-> "progress", size |-> 1, to |-> {}, file |-> FALSE]} \cup
    {o \in [kind : {"answer"}, size : sizes, to : {{}, Open}, file : files] : o.size = 0 => o.file}

\* It is handed over when nothing can be sent: an error, or nothing at all.
NotSent(o) ==
    /\ Hands /\ answered' = answered \cup o.to
    /\ UNCHANGED <<life, inbound, typing, route, sending, posts, tracked, sent, swallowed>>

\* Nothing but the calls of send().
Aside == <<life, inbound, route, handed>>

-----------------------------------------------------------------------------
(* Properties                                                              *)

\* A message is published on the bus once, whatever the platform delivers twice,
\* while handlers await downloads (the checks for duplicates of each channel; slack.py
\* has one for mentions, if it knows its own id).
ForwardedOnce ==
    (adapter = "slack" => route) => \A m \in Messages : ~(at[<<m, 1>>] = "done" /\ at[<<m, 2>>] = "done")

\* What a handler or a buffer took is published, or gone with a stop, a cancelled
\* task or an error: nothing stays inside the channel (the handlers, and
\* _flush_media_group of telegram.py).
HeldIsSettled == \A d \in Deliveries : at[d] \in Inside ~> at[d] \notin Inside

\* An answer that send() reported as sent stays in the chat, every piece of it, no
\* progress is written over it, and the progress of the next turn is not written
\* to a post above it (_progress_messages, _stream_bufs).
AnswersStand ==
    /\ \A s \in sent : s[1] \notin swallowed =>
         \A c \in 1 .. s[2] : \E i \in DOMAIN posts : posts[i] = [of |-> s[1], chunk |-> c]
    /\ sending = Idle /\ tracked # 0 =>
         \A i \in tracked + 1 .. Len(posts) : \A s \in sent : posts[i] # [of |-> s[1], chunk |-> s[2]]

\* While the chat shows that somebody types, a message is being taken or waits for
\* its answer (_start_typing and _stop_typing, and the reactions of slack.py).
TypingIsHonest ==
    typing => Open # {} \/ \E d \in Deliveries : at[d] \in Inside
=============================================================================
