--------------------------- MODULE WebuiChatProofs ---------------------------
(* What holds of the way of a message through the WebUI, the gateway client *)
(* and the gateway, for any tabs, sessions and bounds; and that it is the   *)
(* conversation of module Conversation.                                     *)
EXTENDS WebuiChat, SequenceTheorems, FiniteSetTheorems, TLAPS

-----------------------------------------------------------------------------
(* The invariants.                                                         *)

Waits(t) == tabs[t].at \in {"ack", "steer", "orphan"}

\* A message that a tab's handler holds is held by no other, and what a queue
\* has is queued there once.
Places ==
  /\ \A t \in Tabs : Waits(t) =>
       /\ tabs[t].msg \in Known
       /\ msgs[tabs[t].msg].stage = "held" /\ msgs[tabs[t].msg].key = tabs[t].key
  /\ \A t, u \in Tabs : Waits(t) /\ Waits(u) /\ tabs[t].msg = tabs[u].msg => t = u
  /\ \A k \in Keys : \A i \in DOMAIN queue[k] :
       /\ queue[k][i] \in Known
       /\ msgs[queue[k][i]].stage = "queued" /\ msgs[queue[k][i]].key = k
  /\ \A k \in Keys : \A i, j \in DOMAIN queue[k] : queue[k][i] = queue[k][j] => i = j
  /\ \A k \in Keys : task[k] # NoMsg => task[k] \in Known

UpAt(n, i, frame) ==
  n \in DOMAIN wires /\ i \in DOMAIN wires[n].up /\ wires[n].up[i] = frame
Up(what, m) == \E n \in DOMAIN wires : \E i \in DOMAIN wires[n].up : UpAt(n, i, <<what, m>>)

Down(what, m) ==
  \E n \in DOMAIN wires : \E i \in DOMAIN wires[n].down : wires[n].down[i] = <<what, m>>

\* A chat or a steering request is sent once.
SentOnce ==
  \A m \in MsgIds : \A what \in {"chat", "steer"} : \A n, p \in DOMAIN wires :
    \A i \in DOMAIN wires[n].up, j \in DOMAIN wires[p].up :
      UpAt(n, i, <<what, m>>) /\ UpAt(p, j, <<what, m>>) => n = p /\ i = j

\* Nobody has worked on message m yet, or never did.
Untouched(m) ==
  \/ m \notin Known
  \/ msgs[m].stage \in {"held", "queued", "created"}
  \/ msgs[m].stage = "over" /\ msgs[m].end \in {"steered", "dropped", "stuck"}

\* The job of message m streams over the connection, or has given it up.
Streamed(m) ==
  /\ m \in Known
  /\ \/ msgs[m].stage = "stream"
     \/ msgs[m].stage = "emit" /\ msgs[m].end = "failed"
     \/ msgs[m].stage = "over" /\ msgs[m].end \in {"failed", "stopped"}

Heard(what, m) ==
  \/ Down(what, m)
  \/ m \in Known /\ Contains(msgs[m].items, what)

\* A turn is asked for once, by a job at work, and it is answered by its end.
Talk(m) ==
  /\ Untouched(m) => chats[m].stage = "none"
  /\ Up("chat", m) => chats[m].stage = "none"
  /\ Up("chat", m) \/ chats[m].stage = "created" => Streamed(m)
  /\ Up("steer", m) => m \in Known
  /\ chats[m].stage # "over" => chats[m].end = "none"
  /\ Heard("answer", m) => chats[m].end = "done"
  /\ Heard("cancelled", m) => chats[m].stage = "over"
  /\ m \in Known /\ msgs[m].stage = "emit" =>
       /\ msgs[m].end \in {"answered", "empty", "failed"}
       /\ msgs[m].end = "answered" => chats[m].end = "done"

Talks == SentOnce /\ \A m \in MsgIds : Talk(m)

Alone(k, js, as) ==
  \/ /\ k \notin proc /\ js = {} /\ as = {} /\ task[k] = NoMsg
  \/ /\ k \in proc /\ js = {} /\ task[k] = NoMsg /\ \E t \in Tabs : as = {t}
  \/ /\ k \in proc /\ as = {} /\ task[k] # NoMsg /\ js = {task[k]}

OneJob ==
  /\ \A k \in Keys \ early : Alone(k, Jobs(k), Acks(k))
  /\ \A k \in Keys : task[k] # NoMsg => msgs[task[k]].key = k
  /\ \A m \in Known : msgs[m].doomed => msgs[m].stage \in Active
  /\ \A m \in Known : msgs[m].stage = "created" /\ msgs[m].doomed => msgs[m].key \in early

\* Message m was offered to the gateway as steering and is not forgotten there.
Offered(m) == Up("steer", m) \/ m \in heard \/ Down("refused", m)

Steering(m) ==
  /\ Up("steer", m) => m \notin heard /\ ~Down("refused", m)
  /\ Down("refused", m) => m \notin heard
  /\ Down("injected", m) => m \in heard
  /\ Offered(m) => m \in Known /\ \A t \in Tabs : tabs[t].at = "ack" => tabs[t].msg # m
  /\ Up("steer", m) => m \in unanswered \/ msgs[m].stage = "held"
  /\ m \in heard =>
       \/ m \in unanswered
       \/ msgs[m].stage = "held"
       \/ msgs[m].stage = "over" /\ msgs[m].end = "steered"

Steerings == \A m \in MsgIds : Steering(m)

-----------------------------------------------------------------------------
(* Sequences.                                                              *)

LEMMA FunctionIsSeq ==
  ASSUME NEW S, NEW n \in Nat, NEW f \in [1 .. n -> S]
  PROVE  f \in Seq(S) /\ Len(f) = n
  OBVIOUS

LEMMA SeqIsFunction ==
  ASSUME NEW S, NEW f \in Seq(S)
  PROVE  Len(f) \in Nat /\ DOMAIN f = 1 .. Len(f) /\ f \in [1 .. Len(f) -> S]
  OBVIOUS

LEMMA ElementsOf == ASSUME NEW S, NEW s \in Seq(S), NEW i \in DOMAIN s PROVE s[i] \in S
  BY SeqIsFunction

LEMMA ContainsIs ==
  ASSUME NEW S, NEW s \in Seq(S), NEW e
  PROVE  Contains(s, e) <=> \E i \in DOMAIN s : s[i] = e
  BY SeqIsFunction DEF Contains

LEMMA Replaced ==
  ASSUME NEW S, NEW s \in Seq(S), NEW i \in DOMAIN s, NEW e \in S
  PROVE  LET x == [s EXCEPT ![i] = e] IN
         /\ x \in Seq(S) /\ Len(x) = Len(s) /\ DOMAIN x = DOMAIN s
         /\ x[i] = e /\ \A j \in DOMAIN s : j # i => x[j] = s[j]
  BY SeqIsFunction, FunctionIsSeq

LEMMA AppendIs ==
  ASSUME NEW S, NEW s \in Seq(S), NEW e \in S
  PROVE  /\ Append(s, e) \in Seq(S) /\ Len(Append(s, e)) = Len(s) + 1
         /\ DOMAIN Append(s, e) = DOMAIN s \cup {Len(s) + 1} /\ Len(s) + 1 \notin DOMAIN s
         /\ Append(s, e)[Len(s) + 1] = e /\ \A j \in DOMAIN s : Append(s, e)[j] = s[j]
<1>1. /\ Append(s, e) \in Seq(S) /\ Len(Append(s, e)) = Len(s) + 1
      /\ Append(s, e)[Len(s) + 1] = e /\ \A j \in 1 .. Len(s) : Append(s, e)[j] = s[j]
  BY AppendProperties
<1>2. DOMAIN Append(s, e) = 1 .. Len(s) + 1 /\ DOMAIN s = 1 .. Len(s) /\ Len(s) \in Nat
  BY <1>1, SeqIsFunction
<1>3. QED  BY <1>1, <1>2

LEMMA TailIs ==
  ASSUME NEW S, NEW s \in Seq(S), s # <<>>
  PROVE  /\ Head(s) \in S /\ Head(s) = s[1] /\ 1 \in DOMAIN s
         /\ Tail(s) \in Seq(S) /\ Len(Tail(s)) = Len(s) - 1
         /\ DOMAIN Tail(s) = {i \in DOMAIN s : i + 1 \in DOMAIN s}
         /\ \A i \in DOMAIN Tail(s) : Tail(s)[i] = s[i + 1]
<1>1. /\ Head(s) \in S /\ Tail(s) \in Seq(S) /\ Len(Tail(s)) = Len(s) - 1
      /\ \A i \in 1 .. Len(Tail(s)) : Tail(s)[i] = s[i + 1]
  BY HeadTailProperties
<1>2. Head(s) = s[1]
  OBVIOUS
<1>3. DOMAIN Tail(s) = 1 .. Len(Tail(s)) /\ DOMAIN s = 1 .. Len(s) /\ Len(s) \in Nat \ {0}
  BY <1>1, SeqIsFunction, EmptySeq
<1>4. QED  BY <1>1, <1>2, <1>3

LEMMA PrefixIs ==
  ASSUME NEW S, NEW s \in Seq(S), NEW n \in 0 .. Len(s)
  PROVE  /\ SubSeq(s, 1, n) \in Seq(S) /\ DOMAIN SubSeq(s, 1, n) = 1 .. n
         /\ \A i \in 1 .. n : i \in DOMAIN s /\ SubSeq(s, 1, n)[i] = s[i]
<1>1. DOMAIN s = 1 .. Len(s) /\ Len(s) \in Nat /\ \A i \in 1 .. Len(s) : s[i] \in S
  BY SeqIsFunction
<1>2. /\ SubSeq(s, 1, n) \in Seq(S) /\ Len(SubSeq(s, 1, n)) = n
      /\ \A i \in 1 .. n : SubSeq(s, 1, n)[i] = s[i]
  BY <1>1, SubSeqProperties
<1>3. QED  BY <1>1, <1>2, SeqIsFunction

LEMMA EmptyIs ==
  ASSUME NEW S PROVE <<>> \in Seq(S) /\ DOMAIN <<>> = {} /\ Len(<<>>) = 0
  OBVIOUS

-----------------------------------------------------------------------------
(* What the steps make of a message.                                       *)

StagesOf == {"held", "queued", "over"} \cup Active
EndsOf == {"none", "answered", "empty", "failed", "stopped", "steered", "dropped", "stuck"}

\* The sequence x is the messages s, but for message m.
ButFor(s, x, m) ==
  /\ x \in Seq(Msg) /\ Len(x) = Len(s) /\ DOMAIN x = DOMAIN s
  /\ \A q \in DOMAIN s : q # m => x[q] = s[q]
  /\ x[m].key = s[m].key

\* The changes of one field.
WithStage(s, m, stage) == [s EXCEPT ![m].stage = stage]
WithItems(s, m, items) == [s EXCEPT ![m].items = items]
WithDoom(s, m)         == [s EXCEPT ![m].doomed = TRUE]

LEMMA FieldsOf ==
  ASSUME NEW s \in Seq(Msg), NEW m \in DOMAIN s
  PROVE  /\ s[m] \in Msg /\ s[m].key \in Keys /\ s[m].stage \in StagesOf
         /\ s[m].end \in EndsOf /\ s[m].items \in Seq(Events) /\ s[m].doomed \in BOOLEAN
<1>1. s[m] \in Msg
  BY ElementsOf
<1>2. QED  BY <1>1 DEF Msg, StagesOf, EndsOf

\* What is done to its fields.
LEMMA StageSet ==
  ASSUME NEW c \in Msg, NEW stage \in StagesOf
  PROVE  LET x == [c EXCEPT !.stage = stage] IN
         /\ x \in Msg /\ x.key = c.key /\ x.stage = stage /\ x.end = c.end
         /\ x.items = c.items /\ x.doomed = c.doomed
  BY EmptyIs DEF Msg, StagesOf, EndsOf, Active

LEMMA ItemsSet ==
  ASSUME NEW c \in Msg, NEW items \in Seq(Events)
  PROVE  LET x == [c EXCEPT !.items = items] IN
         /\ x \in Msg /\ x.key = c.key /\ x.stage = c.stage /\ x.end = c.end
         /\ x.items = items /\ x.doomed = c.doomed
  BY EmptyIs DEF Msg, StagesOf, EndsOf, Active

LEMMA DoomSet ==
  ASSUME NEW c \in Msg
  PROVE  LET x == [c EXCEPT !.doomed = TRUE] IN
         /\ x \in Msg /\ x.key = c.key /\ x.stage = c.stage /\ x.end = c.end
         /\ x.items = c.items /\ x.doomed = TRUE
  BY EmptyIs DEF Msg, StagesOf, EndsOf, Active

LEMMA OutcomeSet ==
  ASSUME NEW c \in Msg, NEW end \in EndsOf
  PROVE  LET x == [c EXCEPT !.stage = "emit", !.end = end, !.items = <<>>] IN
         /\ x \in Msg /\ x.key = c.key /\ x.stage = "emit" /\ x.end = end
         /\ x.items = <<>> /\ x.doomed = c.doomed
  BY EmptyIs DEF Msg, StagesOf, EndsOf, Active

LEMMA EndSet ==
  ASSUME NEW c \in Msg, NEW end \in EndsOf
  PROVE  LET x == [c EXCEPT !.stage = "over", !.end = end, !.items = <<>>, !.doomed = FALSE] IN
         /\ x \in Msg /\ x.key = c.key /\ x.stage = "over" /\ x.end = end
         /\ x.items = <<>> /\ x.doomed = FALSE
  BY EmptyIs DEF Msg, StagesOf, EndsOf, Active

LEMMA Staged ==
  ASSUME NEW s \in Seq(Msg), NEW m \in DOMAIN s, NEW stage \in StagesOf
  PROVE  LET x == WithStage(s, m, stage) IN
         /\ ButFor(s, x, m) /\ x[m].stage = stage /\ x[m].end = s[m].end
         /\ x[m].items = s[m].items /\ x[m].doomed = s[m].doomed
<1> DEFINE c == [s[m] EXCEPT !.stage = stage]
           y == WithStage(s, m, stage)
<1>1. s[m] \in Msg
  BY FieldsOf
<1>2. /\ c \in Msg /\ c.stage = stage /\ c.key = s[m].key /\ c.end = s[m].end
      /\ c.items = s[m].items /\ c.doomed = s[m].doomed
  BY <1>1, StageSet
<1>3. y = [s EXCEPT ![m] = c]
  BY DEF Ended, Emits, WithStage, WithItems, WithDoom
<1> HIDE DEF c, y
<1>4. ButFor(s, y, m) /\ y[m] = c
  BY <1>2, <1>3, Replaced DEF ButFor, Known
<1>5. QED  BY <1>2, <1>4 DEF y

LEMMA Itemed ==
  ASSUME NEW s \in Seq(Msg), NEW m \in DOMAIN s, NEW items \in Seq(Events)
  PROVE  LET x == WithItems(s, m, items) IN
         /\ ButFor(s, x, m) /\ x[m].stage = s[m].stage /\ x[m].end = s[m].end
         /\ x[m].items = items /\ x[m].doomed = s[m].doomed
<1> DEFINE c == [s[m] EXCEPT !.items = items]
           y == WithItems(s, m, items)
<1>1. s[m] \in Msg
  BY FieldsOf
<1>2. /\ c \in Msg /\ c.stage = s[m].stage /\ c.key = s[m].key /\ c.end = s[m].end
      /\ c.items = items /\ c.doomed = s[m].doomed
  BY <1>1, ItemsSet
<1>3. y = [s EXCEPT ![m] = c]
  BY DEF Ended, Emits, WithStage, WithItems, WithDoom
<1> HIDE DEF c, y
<1>4. ButFor(s, y, m) /\ y[m] = c
  BY <1>2, <1>3, Replaced DEF ButFor, Known
<1>5. QED  BY <1>2, <1>4 DEF y

LEMMA Dooming ==
  ASSUME NEW s \in Seq(Msg), NEW m \in DOMAIN s
  PROVE  LET x == WithDoom(s, m) IN
         /\ ButFor(s, x, m) /\ x[m].stage = s[m].stage /\ x[m].end = s[m].end
         /\ x[m].items = s[m].items /\ x[m].doomed = TRUE
<1> DEFINE c == [s[m] EXCEPT !.doomed = TRUE]
           y == WithDoom(s, m)
<1>1. s[m] \in Msg
  BY FieldsOf
<1>2. /\ c \in Msg /\ c.stage = s[m].stage /\ c.key = s[m].key /\ c.end = s[m].end
      /\ c.items = s[m].items /\ c.doomed = TRUE
  BY <1>1, DoomSet
<1>3. y = [s EXCEPT ![m] = c]
  BY DEF Ended, Emits, WithStage, WithItems, WithDoom
<1> HIDE DEF c, y
<1>4. ButFor(s, y, m) /\ y[m] = c
  BY <1>2, <1>3, Replaced DEF ButFor, Known
<1>5. QED  BY <1>2, <1>4 DEF y

LEMMA EndedIs ==
  ASSUME msgs \in Seq(Msg), NEW m \in Known, NEW end \in EndsOf
  PROVE  LET x == Ended(m, end) IN
         /\ ButFor(msgs, x, m) /\ x[m].stage = "over" /\ x[m].end = end
         /\ x[m].items = <<>> /\ x[m].doomed = FALSE
<1> DEFINE c == [msgs[m] EXCEPT !.stage = "over", !.end = end, !.items = <<>>, !.doomed = FALSE]
           y == Ended(m, end)
<1>1. msgs[m] \in Msg /\ "over" \in StagesOf /\ "emit" \in StagesOf /\ <<>> \in Seq(Events)
  BY FieldsOf, EmptyIs DEF StagesOf, Active, Known
<1>2. /\ c \in Msg /\ c.stage = "over" /\ c.key = msgs[m].key /\ c.end = end
      /\ c.items = <<>> /\ c.doomed = FALSE
  BY ZenonT(60), <1>1, EndSet
<1>3. y = [msgs EXCEPT ![m] = c]
  BY DEF Ended, Emits, WithStage, WithItems, WithDoom
<1> HIDE DEF c, y
<1>4. ButFor(msgs, y, m) /\ y[m] = c
  BY <1>2, <1>3, Replaced DEF ButFor, Known
<1>5. QED  BY <1>2, <1>4 DEF y

LEMMA EmitsIs ==
  ASSUME msgs \in Seq(Msg), NEW m \in Known, NEW end \in EndsOf
  PROVE  LET x == Emits(m, end) IN
         /\ ButFor(msgs, x, m) /\ x[m].stage = "emit" /\ x[m].end = end
         /\ x[m].items = <<>> /\ x[m].doomed = msgs[m].doomed
<1> DEFINE c == [msgs[m] EXCEPT !.stage = "emit", !.end = end, !.items = <<>>]
           y == Emits(m, end)
<1>1. msgs[m] \in Msg /\ "over" \in StagesOf /\ "emit" \in StagesOf /\ <<>> \in Seq(Events)
  BY FieldsOf, EmptyIs DEF StagesOf, Active, Known
<1>2. /\ c \in Msg /\ c.stage = "emit" /\ c.key = msgs[m].key /\ c.end = end
      /\ c.items = <<>> /\ c.doomed = msgs[m].doomed
  BY <1>1, OutcomeSet
<1>3. y = [msgs EXCEPT ![m] = c]
  BY DEF Ended, Emits, WithStage, WithItems, WithDoom
<1> HIDE DEF c, y
<1>4. ButFor(msgs, y, m) /\ y[m] = c
  BY <1>2, <1>3, Replaced DEF ButFor, Known
<1>5. QED  BY <1>2, <1>4 DEF y

LEMMA PutIs ==
  ASSUME NEW items \in Seq(Events), NEW item \in Events
  PROVE  /\ Put(items, item) \in Seq(Events)
         /\ Len(items) <= QueueMax => Len(Put(items, item)) <= QueueMax
         /\ \A what : Contains(Put(items, item), what) => Contains(items, what) \/ what = item
         /\ \/ item = "progress" /\ Put(items, item) = items
            \/ Put(items, item) # <<>> /\ Last(Put(items, item)) = item
<1>1. QueueMax \in Nat /\ QueueMax > 1 /\ Len(items) \in Nat
  BY ConstantsAreSane, SeqIsFunction
<1>2. CASE Len(items) < QueueMax
  <2> DEFINE x == Append(items, item)
  <2>1. Put(items, item) = x
    BY <1>2 DEF Put
  <2>2. /\ x \in Seq(Events) /\ Len(x) = Len(items) + 1 /\ x[Len(x)] = item
        /\ DOMAIN x = DOMAIN items \cup {Len(items) + 1}
        /\ \A j \in DOMAIN items : x[j] = items[j]
    BY AppendIs
  <2>3. x # <<>>
    BY <1>1, <2>2, EmptyIs
  <2>4. ASSUME NEW what, Contains(x, what) PROVE Contains(items, what) \/ what = item
    <3> HIDE DEF x
    <3>1. PICK i \in DOMAIN x : x[i] = what
      BY <2>2, <2>4, ContainsIs
    <3>2. QED  BY <2>2, <3>1, ContainsIs
  <2> HIDE DEF x
  <2>5. Len(x) <= QueueMax
    BY <1>1, <1>2, <2>2
  <2>6. QED  BY <2>1, <2>2, <2>3, <2>4, <2>5 DEF Last
<1>3. CASE ~(Len(items) < QueueMax) /\ item = "progress"
  <2>1. Put(items, item) = items
    BY <1>3 DEF Put
  <2>2. QED  BY <1>3, <2>1
<1>4. CASE ~(Len(items) < QueueMax) /\ item # "progress"
  <2> DEFINE r == Tail(items)
             x == Append(r, item)
  <2>1. Put(items, item) = x
    BY <1>4 DEF Put
  <2>2. items # <<>>
    BY <1>1, <1>4, EmptyIs
  <2>3. /\ r \in Seq(Events) /\ Len(r) = Len(items) - 1
        /\ DOMAIN r = {i \in DOMAIN items : i + 1 \in DOMAIN items}
        /\ \A i \in DOMAIN r : r[i] = items[i + 1]
    BY <2>2, TailIs
  <2> HIDE DEF r
  <2>4. /\ x \in Seq(Events) /\ Len(x) = Len(r) + 1 /\ x[Len(x)] = item
        /\ DOMAIN x = DOMAIN r \cup {Len(r) + 1}
        /\ \A j \in DOMAIN r : x[j] = r[j]
    BY <2>3, AppendIs
  <2>5. x # <<>>
    BY <2>3, <2>4, <1>1, EmptyIs
  <2> HIDE DEF x
  <2>6. ASSUME NEW what, Contains(x, what) PROVE Contains(items, what) \/ what = item
    <3>1. PICK i \in DOMAIN x : x[i] = what
      BY <2>4, <2>6, ContainsIs
    <3>2. CASE i \in DOMAIN r
      <4>1. i + 1 \in DOMAIN items /\ items[i + 1] = what
        BY <2>3, <2>4, <3>1, <3>2
      <4>2. QED  BY <4>1, ContainsIs
    <3>3. QED  BY <2>4, <3>1, <3>2
  <2>7. Len(items) <= QueueMax => Len(x) <= QueueMax
    BY <1>1, <2>3, <2>4
  <2>8. QED  BY <2>1, <2>4, <2>5, <2>6, <2>7 DEF Last
<1>5. QED  BY <1>2, <1>3, <1>4

LEMMA ItemsAppended ==
  ASSUME NEW items \in Seq(Events), NEW item \in Events
  PROVE  /\ Append(items, item) \in Seq(Events)
         /\ \A what : Contains(Append(items, item), what) => Contains(items, what) \/ what = item
<1> DEFINE x == Append(items, item)
<1>1. /\ x \in Seq(Events) /\ DOMAIN x = DOMAIN items \cup {Len(items) + 1}
      /\ x[Len(items) + 1] = item /\ \A j \in DOMAIN items : x[j] = items[j]
  BY AppendIs
<1> HIDE DEF x
<1>2. ASSUME NEW what, Contains(x, what) PROVE Contains(items, what) \/ what = item
  <2>1. PICK i \in DOMAIN x : x[i] = what
    BY <1>1, <1>2, ContainsIs
  <2>2. QED  BY <1>1, <2>1, ContainsIs
<1>3. QED  BY <1>1, <1>2 DEF x

-----------------------------------------------------------------------------
(* What the steps make of a connection.                                    *)

ToGateway == {"chat", "steer", "cancel"}
ToClient == Events \cup {"injected", "refused", "heeded"}
UpFrames == ToGateway \X MsgIds
DownFrames == ToClient \X MsgIds

\* The sequence x is the connections s, but for connection n.
WireButFor(s, x, n) ==
  /\ x \in Seq(Wire) /\ Len(x) = Len(s) /\ DOMAIN x = DOMAIN s
  /\ \A p \in DOMAIN s : p # n => x[p] = s[p]

WithUp(s, n, u)   == [s EXCEPT ![n].up = u]
WithDown(s, n, d) == [s EXCEPT ![n].down = d]
Closed(s, n, u)   == [s EXCEPT ![n].open = FALSE, ![n].up = u]

LEMMA WireFields ==
  ASSUME NEW s \in Seq(Wire), NEW n \in DOMAIN s
  PROVE  /\ s[n] \in Wire /\ s[n].open \in BOOLEAN
         /\ s[n].up \in Seq(UpFrames) /\ s[n].down \in Seq(DownFrames)
<1>1. s[n] \in Wire
  BY ElementsOf
<1>2. QED  BY <1>1 DEF Wire, UpFrames, DownFrames, ToGateway, ToClient

LEMMA UpSet ==
  ASSUME NEW c \in Wire, NEW u \in Seq(UpFrames)
  PROVE  LET x == [c EXCEPT !.up = u] IN
         x \in Wire /\ x.open = c.open /\ x.up = u /\ x.down = c.down
  BY DEF Wire, UpFrames, ToGateway

LEMMA DownSet ==
  ASSUME NEW c \in Wire, NEW d \in Seq(DownFrames)
  PROVE  LET x == [c EXCEPT !.down = d] IN
         x \in Wire /\ x.open = c.open /\ x.up = c.up /\ x.down = d
  BY DEF Wire, DownFrames, ToClient

LEMMA ClosedSet ==
  ASSUME NEW c \in Wire, NEW u \in Seq(UpFrames)
  PROVE  LET x == [c EXCEPT !.open = FALSE, !.up = u] IN
         x \in Wire /\ x.open = FALSE /\ x.up = u /\ x.down = c.down
  BY DEF Wire, UpFrames, ToGateway

LEMMA UpIs ==
  ASSUME NEW s \in Seq(Wire), NEW n \in DOMAIN s, NEW u \in Seq(UpFrames)
  PROVE  LET x == WithUp(s, n, u) IN
         /\ WireButFor(s, x, n) /\ x[n].open = s[n].open
         /\ x[n].up = u /\ x[n].down = s[n].down
<1> DEFINE c == [s[n] EXCEPT !.up = u]
           y == WithUp(s, n, u)
<1>1. c \in Wire /\ c.open = s[n].open /\ c.up = u /\ c.down = s[n].down
  BY WireFields, UpSet
<1>2. y = [s EXCEPT ![n] = c]
  BY DEF WithUp, WithDown, Closed
<1> HIDE DEF c, y
<1>3. WireButFor(s, y, n) /\ y[n] = c
  BY <1>1, <1>2, Replaced DEF WireButFor
<1>4. QED  BY <1>1, <1>3 DEF y

LEMMA DownIs ==
  ASSUME NEW s \in Seq(Wire), NEW n \in DOMAIN s, NEW d \in Seq(DownFrames)
  PROVE  LET x == WithDown(s, n, d) IN
         /\ WireButFor(s, x, n) /\ x[n].open = s[n].open
         /\ x[n].up = s[n].up /\ x[n].down = d
<1> DEFINE c == [s[n] EXCEPT !.down = d]
           y == WithDown(s, n, d)
<1>1. c \in Wire /\ c.open = s[n].open /\ c.up = s[n].up /\ c.down = d
  BY WireFields, DownSet
<1>2. y = [s EXCEPT ![n] = c]
  BY DEF WithUp, WithDown, Closed
<1> HIDE DEF c, y
<1>3. WireButFor(s, y, n) /\ y[n] = c
  BY <1>1, <1>2, Replaced DEF WireButFor
<1>4. QED  BY <1>1, <1>3 DEF y

LEMMA ClosedIs ==
  ASSUME NEW s \in Seq(Wire), NEW n \in DOMAIN s, NEW u \in Seq(UpFrames)
  PROVE  LET x == Closed(s, n, u) IN
         /\ WireButFor(s, x, n) /\ x[n].open = FALSE
         /\ x[n].up = u /\ x[n].down = s[n].down
<1> DEFINE c == [s[n] EXCEPT !.open = FALSE, !.up = u]
           y == Closed(s, n, u)
<1>1. c \in Wire /\ c.open = FALSE /\ c.up = u /\ c.down = s[n].down
  BY WireFields, ClosedSet
<1>2. y = [s EXCEPT ![n] = c]
  BY DEF WithUp, WithDown, Closed
<1> HIDE DEF c, y
<1>3. WireButFor(s, y, n) /\ y[n] = c
  BY <1>1, <1>2, Replaced DEF WireButFor
<1>4. QED  BY <1>1, <1>3 DEF y

\* What is said goes to the end of an open connection.
LEMMA SaidIs ==
  ASSUME NEW s \in Seq(Wire), NEW n \in Nat, NEW what \in ToClient, NEW m \in MsgIds
  PROVE  LET x == Said(s, n, what, m) IN
         /\ x \in Seq(Wire) /\ Len(x) = Len(s) /\ DOMAIN x = DOMAIN s
         /\ \A p \in DOMAIN s :
              /\ x[p].open = s[p].open /\ x[p].up = s[p].up
              /\ x[p].down = IF p = n /\ s[p].open THEN Append(s[p].down, <<what, m>>)
                                                   ELSE s[p].down
<1> DEFINE x == Said(s, n, what, m)
<1>1. CASE n \in DOMAIN s /\ s[n].open
  <2> DEFINE d == Append(s[n].down, <<what, m>>)
  <2>0. 0 \notin DOMAIN s
    BY SeqIsFunction
  <2>1. x = WithDown(s, n, d)
    BY <1>1, <2>0 DEF Said, WithDown
  <2>2. n \in DOMAIN s /\ <<what, m>> \in DownFrames
    BY <1>1 DEF DownFrames
  <2>3. d \in Seq(DownFrames)
    BY <2>2, WireFields, AppendIs
  <2> HIDE DEF d, x
  <2>4. /\ WireButFor(s, x, n) /\ x[n].open = s[n].open
        /\ x[n].up = s[n].up /\ x[n].down = d
    BY <2>1, <2>2, <2>3, DownIs
  <2>5. QED  BY <1>1, <2>4 DEF WireButFor, d, x
<1>2. CASE ~(n \in DOMAIN s /\ s[n].open)
  <2>1. s \in [1 .. Len(s) -> Wire] /\ DOMAIN s = 1 .. Len(s)
    BY SeqIsFunction
  <2>2. x = s
    <3>1. CASE n \in DOMAIN s
      BY <1>2, <3>1 DEF Said
    <3>2. CASE n \notin DOMAIN s
      <4>1. [s EXCEPT ![n].down = Append(@, <<what, m>>)] = s
        BY <2>1, <3>2
      <4>2. QED  BY <4>1 DEF Said
    <3>3. QED  BY <3>1, <3>2
  <2>3. QED  BY <1>2, <2>2
<1>3. QED  BY <1>1, <1>2

-----------------------------------------------------------------------------
(* Every variable has its type.                                            *)

HandlerTypes ==
  /\ tabs \in [Tabs -> Tab] /\ subs \in [Keys -> SUBSET Tabs]
  /\ proc \subseteq Keys /\ task \in [Keys -> 0 .. MaxMsgs]
  /\ queue \in [Keys -> Seq(MsgIds)]
MsgTypes ==
  /\ msgs \in Seq(Msg) /\ Len(msgs) <= MaxMsgs
  /\ \A m \in Known :
       \/ msgs[m].items = <<>>
       \/ msgs[m].stage = "http"
       \/ msgs[m].stage = "stream" /\ Len(msgs[m].items) <= QueueMax
WireTypes ==
  /\ conn \in 0 .. Len(wires) /\ pending \subseteq Requests
  /\ wires \in Seq(Wire) /\ Len(wires) <= MaxConns
ChatTypes == chats \in [MsgIds -> Chat] /\ steerable \subseteq Keys
PastTypes ==
  /\ used \in [{"acts", "progress"} -> Nat]
  /\ early \subseteq Keys /\ heard \cup unanswered \subseteq MsgIds

Base == TypeOK /\ Places

LEMMA Parts == TypeOK <=> HandlerTypes /\ MsgTypes /\ WireTypes /\ ChatTypes /\ PastTypes
  BY DEF TypeOK, HandlerTypes, MsgTypes, WireTypes, ChatTypes, PastTypes

LEMMA PartsNext ==
  HandlerTypes' /\ MsgTypes' /\ WireTypes' /\ ChatTypes' /\ PastTypes' => TypeOK'
  BY DEF TypeOK, HandlerTypes, MsgTypes, WireTypes, ChatTypes, PastTypes

LEMMA Bounds ==
  /\ QueueMax \in Nat /\ MaxMsgs \in Nat /\ MaxConns \in Nat /\ MaxProgress \in Nat
  /\ MaxActs \in Nat /\ QueueMax > 1 /\ Start \in Keys
  BY ConstantsAreSane

LEMMA KnownIs == ASSUME MsgTypes PROVE Len(msgs) \in Nat /\ Known = 1 .. Len(msgs) /\ Known \subseteq MsgIds
  BY SeqIsFunction, Bounds DEF MsgTypes, Known, MsgIds

LEMMA WiresAre ==
  ASSUME WireTypes
  PROVE  /\ Len(wires) \in Nat /\ DOMAIN wires = 1 .. Len(wires) /\ 0 \notin DOMAIN wires
         /\ DOMAIN wires \subseteq 1 .. MaxConns /\ conn \in {0} \cup DOMAIN wires
  BY SeqIsFunction, Bounds DEF WireTypes

LEMMA HandlerStays == ASSUME HandlerTypes, UNCHANGED <<tabs, subs, proc, queue, task>> PROVE HandlerTypes'
  BY DEF HandlerTypes
LEMMA MsgsStay == ASSUME MsgTypes, UNCHANGED msgs PROVE MsgTypes'
  BY DEF MsgTypes, Known
LEMMA WiresStay == ASSUME WireTypes, UNCHANGED <<conn, pending, wires>> PROVE WireTypes'
  BY DEF WireTypes
LEMMA ChatsStay == ASSUME ChatTypes, UNCHANGED <<chats, steerable>> PROVE ChatTypes'
  BY DEF ChatTypes
LEMMA PastStays == ASSUME PastTypes, UNCHANGED <<used, early, heard, unanswered>> PROVE PastTypes'
  BY DEF PastTypes

\* A step that changes one message.
Only(m) == ButFor(msgs, msgs', m)

LEMMA OneMsg ==
  ASSUME MsgTypes, NEW m \in Known, Only(m),
         \/ msgs'[m].items = <<>> \/ msgs'[m].stage = "http"
         \/ msgs'[m].stage = "stream" /\ Len(msgs'[m].items) <= QueueMax
  PROVE  MsgTypes' /\ Known' = Known /\ \A q \in Known : msgs'[q].key = msgs[q].key
<1>1. /\ msgs' \in Seq(Msg) /\ Len(msgs') <= MaxMsgs /\ Known' = Known
      /\ \A q \in Known : q # m => msgs'[q] = msgs[q]
      /\ msgs'[m].key = msgs[m].key
  BY DEF MsgTypes, Only, ButFor, Known
<1>2. ASSUME NEW q \in Known
      PROVE  \/ msgs'[q].items = <<>> \/ msgs'[q].stage = "http"
             \/ msgs'[q].stage = "stream" /\ Len(msgs'[q].items) <= QueueMax
  <2>1. CASE q = m
    BY <2>1
  <2>2. CASE q # m
    BY <1>1, <2>2 DEF MsgTypes
  <2>3. QED  BY <2>1, <2>2
<1>3. \A q \in Known : msgs'[q].key = msgs[q].key
  BY <1>1
<1>4. QED  BY <1>1, <1>2, <1>3 DEF MsgTypes

WithTab(t, a, m) == [tabs EXCEPT ![t].at = a, ![t].msg = m]

LEMMA TabIs ==
  ASSUME HandlerTypes, NEW t \in Tabs, NEW m \in 0 .. MaxMsgs,
         NEW a \in {"idle", "ack", "steer", "orphan", "cancel", "off"}
  PROVE  LET x == WithTab(t, a, m) IN
         /\ x \in [Tabs -> Tab] /\ x[t].key = tabs[t].key /\ x[t].at = a /\ x[t].msg = m
         /\ \A u \in Tabs : u # t => x[u] = tabs[u]
<1> DEFINE c == [tabs[t] EXCEPT !.at = a, !.msg = m]
           y == WithTab(t, a, m)
<1>1. tabs \in [Tabs -> Tab] /\ tabs[t] \in Tab
  BY DEF HandlerTypes
<1>2. c \in Tab /\ c.key = tabs[t].key /\ c.at = a /\ c.msg = m
  BY <1>1 DEF Tab
<1>3. y = [tabs EXCEPT ![t] = c]
  BY DEF WithTab
<1> HIDE DEF c, y
<1>4. y \in [Tabs -> Tab] /\ y[t] = c /\ \A u \in Tabs : u # t => y[u] = tabs[u]
  BY <1>1, <1>2, <1>3
<1>5. QED  BY <1>2, <1>4 DEF y

LEMMA IdleIs ==
  ASSUME HandlerTypes, NEW t \in Tabs
  PROVE  LET x == Idle(t) IN
         /\ x \in [Tabs -> Tab] /\ x[t].key = tabs[t].key /\ x[t].at = "idle"
         /\ x[t].msg = NoMsg /\ \A u \in Tabs : u # t => x[u] = tabs[u]
<1>1. NoMsg \in 0 .. MaxMsgs
  BY Bounds DEF NoMsg
<1>2. Idle(t) = WithTab(t, "idle", NoMsg)
  BY DEF Idle, WithTab
<1>3. QED  BY <1>1, <1>2, TabIs

\* What a tab's handler holds.
LEMMA HeldIs ==
  ASSUME Base, NEW t \in Tabs, Waits(t)
  PROVE  LET m == tabs[t].msg IN
         /\ m \in Known /\ m \in MsgIds /\ m # NoMsg
         /\ msgs[m].stage = "held" /\ msgs[m].key = tabs[t].key /\ msgs[m].key \in Keys
         /\ msgs[m].items = <<>>
<1> DEFINE m == tabs[t].msg
<1>1. MsgTypes /\ HandlerTypes
  BY Parts DEF Base
<1>2. m \in Known /\ msgs[m].stage = "held" /\ msgs[m].key = tabs[t].key
  BY DEF Base, Places
<1>3. m \in MsgIds /\ m # NoMsg
  BY <1>1, <1>2, KnownIs DEF MsgIds, NoMsg
<1>4. msgs[m].key \in Keys
  BY <1>1, <1>2, FieldsOf DEF MsgTypes, Known
<1>5. msgs[m].items = <<>>
  BY <1>1, <1>2 DEF MsgTypes
<1>6. QED  BY <1>2, <1>3, <1>4, <1>5

LEMMA QueueGets ==
  ASSUME HandlerTypes, NEW k \in Keys, NEW m \in MsgIds
  PROVE  LET x == [queue EXCEPT ![k] = Append(@, m)] IN
         /\ x \in [Keys -> Seq(MsgIds)]
         /\ x[k] = Append(queue[k], m) /\ \A j \in Keys : j # k => x[j] = queue[j]
  BY AppendIs DEF HandlerTypes

\* A held message leaves its tab for the queue, or is thrown away.
LEMMA Queues ==
  ASSUME Base, NEW t \in Tabs, tabs[t].at \in {"steer", "orphan"},
         NEW m, m = tabs[t].msg, PutInQueue(t, m)
  PROVE  /\ MsgTypes' /\ queue' \in [Keys -> Seq(MsgIds)]
         /\ m \in Known /\ msgs[m].stage = "held" /\ msgs[m].key \in Keys
         /\ Only(m)
         /\ \/ msgs'[m].stage = "over" /\ msgs'[m].end = "dropped" /\ UNCHANGED queue
            \/ /\ tabs[t].at = "steer"
               /\ msgs'[m].stage = "queued"
               /\ queue' = [queue EXCEPT ![msgs[m].key] = Append(@, m)]
         /\ \A what : Contains(msgs'[m].items, what) => Contains(msgs[m].items, what)
         /\ msgs'[m].doomed => msgs[m].doomed
<1>1. MsgTypes /\ HandlerTypes /\ msgs \in Seq(Msg)
  BY Parts DEF Base, MsgTypes
<1>2. /\ m \in Known /\ m \in MsgIds /\ msgs[m].stage = "held" /\ msgs[m].key \in Keys
      /\ msgs[m].items = <<>>
  BY HeldIs DEF Waits
<1>3. CASE tabs[t].at = "orphan"
  <2>1. msgs' = Ended(m, "dropped") /\ queue' = queue
    BY <1>3 DEF PutInQueue
  <2>2. "dropped" \in EndsOf
    BY DEF EndsOf
  <2>3. /\ Only(m) /\ msgs'[m].stage = "over" /\ msgs'[m].end = "dropped"
        /\ msgs'[m].items = <<>> /\ ~msgs'[m].doomed
    BY <1>1, <1>2, <2>1, <2>2, EndedIs DEF Only
  <2>4. MsgTypes'
    BY <1>1, <1>2, <2>3, OneMsg
  <2>5. \A what : ~Contains(msgs'[m].items, what)
    BY <2>3, EmptyIs DEF Contains
  <2>6. QED  BY <1>1, <1>2, <2>1, <2>3, <2>4, <2>5 DEF HandlerTypes
<1>4. CASE tabs[t].at = "steer"
  <2>1. /\ msgs' = WithStage(msgs, m, "queued")
        /\ queue' = [queue EXCEPT ![msgs[m].key] = Append(@, m)]
    BY <1>4 DEF PutInQueue, WithStage
  <2>2. "queued" \in StagesOf /\ m \in DOMAIN msgs
    BY <1>2 DEF StagesOf, Known
  <2>3. /\ Only(m) /\ msgs'[m].stage = "queued" /\ msgs'[m].items = msgs[m].items
        /\ msgs'[m].doomed = msgs[m].doomed
    BY <1>1, <2>1, <2>2, Staged DEF Only
  <2>4. MsgTypes'
    BY <1>1, <1>2, <2>3, OneMsg
  <2>5. queue' \in [Keys -> Seq(MsgIds)]
    BY <1>1, <1>2, <2>1, QueueGets
  <2>6. QED  BY <1>2, <1>4, <2>1, <2>3, <2>4, <2>5
<1>5. QED  BY <1>3, <1>4

\* The connections stay, but for what is under way on them.
SameWires == wires' \in Seq(Wire) /\ Len(wires') = Len(wires) /\ DOMAIN wires' = DOMAIN wires

LEMMA SendsIs ==
  ASSUME WireTypes, conn # 0, NEW what \in ToGateway, NEW m \in MsgIds, Sends(<<what, m>>)
  PROVE  /\ SameWires /\ conn \in DOMAIN wires
         /\ \A n \in DOMAIN wires :
              /\ wires'[n].open = wires[n].open /\ wires'[n].down = wires[n].down
              /\ wires'[n].up = IF n = conn /\ wires[n].open
                                THEN Append(wires[n].up, <<what, m>>) ELSE wires[n].up
<1> DEFINE frame == <<what, m>>
           u == Append(wires[conn].up, frame)
<1>1. wires \in Seq(Wire) /\ conn \in DOMAIN wires
  BY WiresAre DEF WireTypes
<1>2. CASE wires[conn].open
  <2>1. wires' = WithUp(wires, conn, u)
    BY <1>2 DEF Sends, WithUp
  <2>2. frame \in UpFrames
    BY DEF UpFrames
  <2>3. u \in Seq(UpFrames)
    <3> HIDE DEF frame
    <3> QED  BY <1>1, <2>2, WireFields, AppendIs
  <2> HIDE DEF u
  <2>4. /\ WireButFor(wires, wires', conn) /\ wires'[conn].open = wires[conn].open
        /\ wires'[conn].up = u /\ wires'[conn].down = wires[conn].down
    BY <1>1, <2>1, <2>3, UpIs
  <2>5. QED  BY <1>1, <1>2, <2>4 DEF WireButFor, SameWires, u
<1>3. CASE ~wires[conn].open
  <2>1. wires' = wires
    BY <1>3 DEF Sends
  <2>2. QED  BY <1>1, <1>3, <2>1 DEF SameWires
<1>4. QED  BY <1>2, <1>3

LEMMA RequestedIs ==
  ASSUME Base, NEW t \in Tabs, NEW what \in {"steer", "cancel"}, NEW m \in MsgIds,
         Requested(t, what, m), UNCHANGED conn
  PROVE  /\ WireTypes' /\ SameWires /\ conn \in DOMAIN wires
         /\ tabs' = WithTab(t, what, m) /\ tabs' \in [Tabs -> Tab]
         /\ tabs'[t].key = tabs[t].key /\ tabs'[t].at = what /\ tabs'[t].msg = m
         /\ \A u \in Tabs : u # t => tabs'[u] = tabs[u]
         /\ \A n \in DOMAIN wires :
              /\ wires'[n].open = wires[n].open /\ wires'[n].down = wires[n].down
              /\ wires'[n].up = IF n = conn /\ wires[n].open
                                THEN Append(wires[n].up, <<what, m>>) ELSE wires[n].up
<1>1. WireTypes /\ HandlerTypes
  BY Parts DEF Base
<1>2. conn # 0 /\ what \in ToGateway /\ Sends(<<what, m>>)
  BY DEF Requested, ToGateway
<1>3. /\ SameWires /\ conn \in DOMAIN wires
      /\ \A n \in DOMAIN wires :
           /\ wires'[n].open = wires[n].open /\ wires'[n].down = wires[n].down
           /\ wires'[n].up = IF n = conn /\ wires[n].open
                             THEN Append(wires[n].up, <<what, m>>) ELSE wires[n].up
  BY <1>1, <1>2, SendsIs
<1>4. pending' \subseteq Requests
  BY <1>1 DEF Requested, Requests, WireTypes
<1>5. WireTypes'
  BY <1>1, <1>3, <1>4 DEF WireTypes, SameWires
<1>6. /\ what \in {"idle", "ack", "steer", "orphan", "cancel", "off"} /\ m \in 0 .. MaxMsgs
      /\ tabs' = WithTab(t, what, m)
  BY DEF Requested, WithTab, MsgIds
<1>7. /\ tabs' \in [Tabs -> Tab]
      /\ tabs'[t].key = tabs[t].key /\ tabs'[t].at = what /\ tabs'[t].msg = m
      /\ \A u \in Tabs : u # t => tabs'[u] = tabs[u]
  BY <1>1, <1>6, TabIs
<1>8. QED  BY <1>3, <1>5, <1>6, <1>7

\* The message that Send makes.
NewMsg(k, stage) == [key |-> k, stage |-> stage, doomed |-> FALSE, items |-> <<>>, end |-> "none"]

LEMMA Appends ==
  ASSUME MsgTypes, NEW k \in Keys, NEW stage \in {"held", "queued"}, Len(msgs) + 1 <= MaxMsgs,
         msgs' = Append(msgs, NewMsg(k, stage))
  PROVE  LET m == Len(msgs) + 1 IN
         /\ MsgTypes' /\ m \in MsgIds /\ m \notin Known /\ Known' = Known \cup {m}
         /\ \A q \in Known : msgs'[q] = msgs[q]
         /\ msgs'[m].key = k /\ msgs'[m].stage = stage /\ msgs'[m].items = <<>>
         /\ msgs'[m].doomed = FALSE
<1> DEFINE x == NewMsg(k, stage)
           m == Len(msgs) + 1
<1>1. /\ x \in Msg /\ x.key = k /\ x.stage = stage /\ x.items = <<>> /\ x.doomed = FALSE
      /\ x.stage # "stream"
  BY EmptyIs DEF NewMsg, Msg, Active
<1>2. msgs \in Seq(Msg) /\ msgs' = Append(msgs, x) /\ Len(msgs) \in Nat
  BY KnownIs DEF MsgTypes
<1> HIDE DEF x
<1>3. /\ msgs' \in Seq(Msg) /\ Len(msgs') = m /\ Known' = Known \cup {m} /\ m \notin Known
      /\ msgs'[m] = x /\ \A q \in Known : msgs'[q] = msgs[q]
  BY <1>1, <1>2, AppendIs DEF Known
<1>4. m \in MsgIds
  BY <1>2 DEF MsgIds
<1>5. MsgTypes'
  <2>1. ASSUME NEW q \in Known'
        PROVE  \/ msgs'[q].items = <<>> \/ msgs'[q].stage = "http"
               \/ msgs'[q].stage = "stream" /\ Len(msgs'[q].items) <= QueueMax
    <3>1. CASE q = m
      BY <1>1, <1>3, <3>1
    <3>2. CASE q \in Known
      BY <1>3, <3>2 DEF MsgTypes
    <3>3. QED  BY <1>3, <3>1, <3>2
  <2>2. QED  BY <1>3, <2>1 DEF MsgTypes
<1>6. QED  BY <1>1, <1>3, <1>4, <1>5

Untold == UNCHANGED <<chats, steerable, used, early, heard, unanswered>>

LEMMA SendIs ==
  ASSUME Base, NEW t \in Tabs, Send(t)
  PROVE  LET m == Len(msgs) + 1
             k == tabs[t].key IN
         /\ TypeOK' /\ Untold /\ UNCHANGED <<subs, task, conn>>
         /\ k \in Keys /\ tabs[t].at = "idle"
         /\ m \in MsgIds /\ m \notin Known /\ Known' = Known \cup {m}
         /\ \A q \in Known : msgs'[q] = msgs[q]
         /\ msgs'[m].key = k /\ msgs'[m].items = <<>> /\ msgs'[m].doomed = FALSE
         /\ tabs'[t].key = k /\ \A u \in Tabs : u # t => tabs'[u] = tabs[u]
         /\ \/ /\ k \notin proc /\ proc' = proc \cup {k} /\ msgs'[m].stage = "held"
               /\ tabs'[t].at = "ack" /\ tabs'[t].msg = m
               /\ UNCHANGED <<queue, pending, wires>>
            \/ /\ k \in proc /\ Requested(t, "steer", m) /\ msgs'[m].stage = "held"
               /\ tabs'[t].at = "steer" /\ tabs'[t].msg = m
               /\ UNCHANGED <<proc, queue>>
            \/ /\ k \in proc /\ msgs'[m].stage = "queued"
               /\ queue' = [queue EXCEPT ![k] = Append(@, m)]
               /\ UNCHANGED <<proc, tabs, pending, wires>>
<1> DEFINE m == Len(msgs) + 1
           k == tabs[t].key
<1>1. HandlerTypes /\ MsgTypes /\ WireTypes /\ ChatTypes /\ PastTypes /\ k \in Keys
  BY Parts DEF Base, HandlerTypes, Tab
<1>2. /\ tabs[t].at = "idle" /\ m <= MaxMsgs /\ Untold /\ UNCHANGED <<subs, task, conn>>
  BY DEF Send, Untold, gateway, history
<1>3. ChatTypes' /\ PastTypes'
  BY <1>1, <1>2, ChatsStay, PastStays DEF Untold
<1>4. ASSUME NEW stage \in {"held", "queued"}, msgs' = Append(msgs, NewMsg(k, stage))
      PROVE  /\ MsgTypes' /\ m \in MsgIds /\ m \notin Known /\ Known' = Known \cup {m}
             /\ \A q \in Known : msgs'[q] = msgs[q]
             /\ msgs'[m].key = k /\ msgs'[m].stage = stage /\ msgs'[m].items = <<>>
             /\ msgs'[m].doomed = FALSE
  BY <1>1, <1>2, <1>4, Appends
<1>5. CASE /\ k \notin proc /\ Processing(k) /\ msgs' = Append(msgs, NewMsg(k, "held"))
           /\ tabs' = WithTab(t, "ack", m) /\ UNCHANGED <<queue, pending, wires>>
  <2>1. m \in 0 .. MaxMsgs /\ m \in MsgIds
    BY <1>4, <1>5 DEF MsgIds
  <2>2. /\ tabs' \in [Tabs -> Tab] /\ tabs'[t].key = k /\ tabs'[t].at = "ack" /\ tabs'[t].msg = m
        /\ \A u \in Tabs : u # t => tabs'[u] = tabs[u]
    BY <1>1, <1>5, <2>1, TabIs
  <2>3. HandlerTypes' /\ WireTypes'
    BY <1>1, <1>2, <1>5, <2>2 DEF HandlerTypes, WireTypes, Processing
  <2>4. QED  BY <1>1, <1>2, <1>3, <1>4, <1>5, <2>2, <2>3, PartsNext DEF Processing
<1>6. CASE /\ k \in proc /\ Requested(t, "steer", m) /\ msgs' = Append(msgs, NewMsg(k, "held"))
           /\ UNCHANGED <<proc, queue>>
  <2>1. m \in MsgIds
    BY <1>4, <1>6
  <2>2. /\ WireTypes' /\ tabs' \in [Tabs -> Tab]
        /\ tabs'[t].key = k /\ tabs'[t].at = "steer" /\ tabs'[t].msg = m
        /\ \A u \in Tabs : u # t => tabs'[u] = tabs[u]
    BY <1>2, <1>6, <2>1, RequestedIs
  <2>3. HandlerTypes'
    BY <1>1, <1>2, <1>6, <2>2 DEF HandlerTypes
  <2>4. QED  BY <1>1, <1>2, <1>3, <1>4, <1>6, <2>2, <2>3, PartsNext
<1>7. CASE /\ k \in proc /\ msgs' = Append(msgs, NewMsg(k, "queued"))
           /\ queue' = [queue EXCEPT ![k] = Append(@, m)]
           /\ UNCHANGED <<proc, tabs, pending, wires>>
  <2>1. m \in MsgIds
    BY <1>4, <1>7
  <2>2. queue' \in [Keys -> Seq(MsgIds)]
    BY <1>1, <1>7, <2>1, QueueGets
  <2>3. HandlerTypes' /\ WireTypes'
    BY <1>1, <1>2, <1>7, <2>2 DEF HandlerTypes, WireTypes
  <2>4. QED  BY <1>1, <1>2, <1>3, <1>4, <1>7, <2>3, PartsNext
<1>8. QED  BY <1>5, <1>6, <1>7 DEF Send, NewMsg, WithTab

\* Neither the connections nor the gateway know.
Inside == UNCHANGED <<conn, pending, wires, chats, steerable>>

LEMMA AckDoneIs ==
  ASSUME Base, NEW t \in Tabs, AckDone(t)
  PROVE  LET m == tabs[t].msg IN
         /\ TypeOK' /\ Inside /\ Untold /\ UNCHANGED <<subs, proc, queue>>
         /\ m \in Known /\ msgs[m].stage = "held" /\ msgs[m].key = tabs[t].key
         /\ tabs[t].at = "ack" /\ tabs'[t].at = "idle" /\ tabs'[t].key = tabs[t].key
         /\ \A u \in Tabs : u # t => tabs'[u] = tabs[u]
         /\ Only(m) /\ Known' = Known /\ msgs'[m].stage = "created"
         /\ msgs'[m].items = msgs[m].items /\ msgs'[m].doomed = msgs[m].doomed
         /\ task' = [task EXCEPT ![tabs[t].key] = m]
<1> DEFINE m == tabs[t].msg
<1>1. HandlerTypes /\ MsgTypes /\ WireTypes /\ ChatTypes /\ PastTypes /\ msgs \in Seq(Msg)
  BY Parts DEF Base, MsgTypes
<1>2. /\ m \in Known /\ m \in MsgIds /\ msgs[m].stage = "held" /\ msgs[m].key = tabs[t].key
      /\ tabs[t].at = "ack" /\ msgs[m].items = <<>>
  BY HeldIs DEF AckDone, Waits
<1>3. /\ Inside /\ Untold /\ UNCHANGED <<subs, proc, queue>>
      /\ tabs' = Idle(t) /\ task' = [task EXCEPT ![msgs[m].key] = m]
      /\ msgs' = WithStage(msgs, m, "created")
  BY DEF AckDone, Inside, Untold, client, gateway, history, WithStage
<1>4. /\ tabs' \in [Tabs -> Tab] /\ tabs'[t].key = tabs[t].key /\ tabs'[t].at = "idle"
      /\ \A u \in Tabs : u # t => tabs'[u] = tabs[u]
  BY <1>1, <1>3, IdleIs
<1>5. "created" \in StagesOf /\ m \in DOMAIN msgs
  BY <1>2 DEF StagesOf, Active, Known
<1>6. /\ Only(m) /\ msgs'[m].stage = "created"
      /\ msgs'[m].items = msgs[m].items /\ msgs'[m].doomed = msgs[m].doomed
  BY <1>1, <1>3, <1>5, Staged DEF Only
<1>7. MsgTypes' /\ Known' = Known
  BY <1>1, <1>2, <1>6, OneMsg
<1>8. HandlerTypes'
  <2>1. task' \in [Keys -> 0 .. MaxMsgs]
    <3>1. m \in 0 .. MaxMsgs /\ task \in [Keys -> 0 .. MaxMsgs]
      BY <1>1, <1>2 DEF HandlerTypes, MsgIds
    <3>2. task' = [task EXCEPT ![msgs[m].key] = m]
      BY <1>3
    <3> HIDE DEF m
    <3> QED  BY ONLY <3>1, <3>2
  <2>2. QED  BY <1>1, <1>3, <1>4, <2>1 DEF HandlerTypes
<1>9. WireTypes' /\ ChatTypes' /\ PastTypes'
  BY <1>1, <1>3, WiresStay, ChatsStay, PastStays DEF Inside, Untold
<1>10. QED  BY <1>2, <1>3, <1>4, <1>6, <1>7, <1>8, <1>9, PartsNext

LEMMA SteerUnansweredIs ==
  ASSUME Base, NEW t \in Tabs, SteerUnanswered(t)
  PROVE  LET m == tabs[t].msg IN
         /\ TypeOK' /\ UNCHANGED <<subs, proc, task, conn, wires, chats, steerable, used, early, heard>>
         /\ m \in Known /\ msgs[m].stage = "held" /\ msgs[m].key = tabs[t].key
         /\ tabs[t].at \in {"steer", "orphan"} /\ PutInQueue(t, m)
         /\ tabs'[t].at = "idle" /\ tabs'[t].key = tabs[t].key
         /\ \A u \in Tabs : u # t => tabs'[u] = tabs[u]
         /\ pending' = pending \ {<<"steer", m>>} /\ unanswered' = unanswered \cup {m}
<1> DEFINE m == tabs[t].msg
<1>1. HandlerTypes /\ MsgTypes /\ WireTypes /\ ChatTypes /\ PastTypes
  BY Parts DEF Base
<1>2. /\ UNCHANGED <<subs, proc, task, conn, wires, chats, steerable, used, early, heard>>
      /\ tabs[t].at \in {"steer", "orphan"} /\ PutInQueue(t, m) /\ tabs' = Idle(t)
      /\ pending' = pending \ {<<"steer", m>>} /\ unanswered' = unanswered \cup {m}
  BY DEF SteerUnanswered, gateway
<1>3. m \in Known /\ m \in MsgIds /\ msgs[m].stage = "held" /\ msgs[m].key = tabs[t].key
  BY <1>2, HeldIs DEF Waits
<1>4. MsgTypes' /\ queue' \in [Keys -> Seq(MsgIds)]
  BY <1>2, Queues
<1>5. /\ tabs' \in [Tabs -> Tab] /\ tabs'[t].key = tabs[t].key /\ tabs'[t].at = "idle"
      /\ \A u \in Tabs : u # t => tabs'[u] = tabs[u]
  BY <1>1, <1>2, IdleIs
<1>6. HandlerTypes' /\ WireTypes' /\ ChatTypes' /\ PastTypes'
  BY <1>1, <1>2, <1>3, <1>4, <1>5 DEF HandlerTypes, WireTypes, ChatTypes, PastTypes
<1>7. QED  BY <1>2, <1>3, <1>4, <1>5, <1>6, PartsNext

LEMMA CancelUnansweredIs ==
  ASSUME Base, NEW t \in Tabs, CancelUnanswered(t)
  PROVE  /\ TypeOK' /\ Untold /\ UNCHANGED <<subs, proc, queue, task, msgs, conn, wires>>
         /\ tabs[t].at = "cancel" /\ tabs'[t].at = "idle" /\ tabs'[t].key = tabs[t].key
         /\ \A u \in Tabs : u # t => tabs'[u] = tabs[u]
         /\ pending' \subseteq pending
<1>1. HandlerTypes /\ MsgTypes /\ WireTypes /\ ChatTypes /\ PastTypes
  BY Parts DEF Base
<1>2. /\ Untold /\ UNCHANGED <<subs, proc, queue, task, msgs, conn, wires>>
      /\ tabs[t].at = "cancel" /\ tabs' = Idle(t) /\ pending' \subseteq pending
  BY DEF CancelUnanswered, gateway, history, Untold
<1>3. /\ tabs' \in [Tabs -> Tab] /\ tabs'[t].key = tabs[t].key /\ tabs'[t].at = "idle"
      /\ \A u \in Tabs : u # t => tabs'[u] = tabs[u]
  BY <1>1, <1>2, IdleIs
<1>4. HandlerTypes' /\ WireTypes'
  BY <1>1, <1>2, <1>3 DEF HandlerTypes, WireTypes
<1>5. MsgTypes' /\ ChatTypes' /\ PastTypes'
  BY <1>1, <1>2, MsgsStay, ChatsStay, PastStays DEF Untold
<1>6. QED  BY <1>2, <1>3, <1>4, <1>5, PartsNext

LEMMA ActsIs == ASSUME PastTypes, Acts PROVE used' \in [{"acts", "progress"} -> Nat]
  BY DEF PastTypes, Acts

LEMMA CancelIs ==
  ASSUME Base, NEW t \in Tabs, NEW m \in Known, Cancel(t, m)
  PROVE  /\ TypeOK' /\ UNCHANGED <<subs, proc, queue, task, msgs, conn, chats, steerable>>
         /\ UNCHANGED <<early, heard, unanswered>>
         /\ m \in MsgIds /\ Requested(t, "cancel", m)
         /\ tabs[t].at = "idle" /\ tabs'[t].at = "cancel" /\ tabs'[t].key = tabs[t].key
         /\ \A u \in Tabs : u # t => tabs'[u] = tabs[u]
<1>1. HandlerTypes /\ MsgTypes /\ WireTypes /\ ChatTypes /\ PastTypes /\ m \in MsgIds
  BY Parts, KnownIs DEF Base
<1>2. /\ UNCHANGED <<subs, proc, queue, task, msgs, conn, chats, steerable>>
      /\ UNCHANGED <<early, heard, unanswered>>
      /\ tabs[t].at = "idle" /\ Acts /\ Requested(t, "cancel", m)
  BY DEF Cancel, gateway
<1>3. /\ WireTypes' /\ tabs' \in [Tabs -> Tab]
      /\ tabs'[t].key = tabs[t].key /\ tabs'[t].at = "cancel"
      /\ \A u \in Tabs : u # t => tabs'[u] = tabs[u]
  BY <1>1, <1>2, RequestedIs
<1>4. HandlerTypes' /\ MsgTypes' /\ ChatTypes'
  BY <1>1, <1>2, <1>3, MsgsStay, ChatsStay DEF HandlerTypes
<1>5. PastTypes'
  BY <1>1, <1>2, ActsIs DEF PastTypes
<1>6. QED  BY <1>1, <1>2, <1>3, <1>4, <1>5, PartsNext

LEMMA MoveIs ==
  ASSUME Base, NEW t \in Tabs, NEW k \in Keys, Move(t, k)
  PROVE  /\ TypeOK' /\ Inside /\ UNCHANGED <<proc, queue, task, msgs, early, heard, unanswered>>
         /\ tabs[t].at = "idle" /\ tabs'[t].at = "idle"
         /\ \A u \in Tabs : u # t => tabs'[u] = tabs[u]
<1>1. HandlerTypes /\ MsgTypes /\ WireTypes /\ ChatTypes /\ PastTypes
  BY Parts DEF Base
<1>2. /\ Inside /\ UNCHANGED <<proc, queue, task, msgs, early, heard, unanswered>>
      /\ tabs[t].at = "idle" /\ Acts /\ tabs' = [tabs EXCEPT ![t].key = k] /\ Subscribe(t, k)
  BY DEF Move, client, gateway, Inside
<1>3. ASSUME NEW c \in Tab PROVE [c EXCEPT !.key = k] \in Tab /\ [c EXCEPT !.key = k].at = c.at
  BY DEF Tab
<1> DEFINE x == [tabs[t] EXCEPT !.key = k]
<1>4. x \in Tab /\ x.at = "idle"
  BY <1>1, <1>2, <1>3 DEF HandlerTypes
<1>5. tabs' = [tabs EXCEPT ![t] = x]
  BY <1>2
<1> HIDE DEF x
<1>6. tabs' \in [Tabs -> Tab] /\ tabs'[t].at = "idle" /\ \A u \in Tabs : u # t => tabs'[u] = tabs[u]
  BY <1>1, <1>4, <1>5 DEF HandlerTypes
<1>7. HandlerTypes'
  BY <1>1, <1>2, <1>6 DEF HandlerTypes, Subscribe
<1>8. MsgTypes' /\ WireTypes' /\ ChatTypes' /\ PastTypes'
  BY <1>1, <1>2, MsgsStay, WiresStay, ChatsStay, ActsIs DEF Inside, PastTypes
<1>9. QED  BY <1>2, <1>6, <1>7, <1>8, PartsNext

LEMMA CloseIs ==
  ASSUME Base, NEW t \in Tabs, Close(t)
  PROVE  /\ TypeOK' /\ Inside /\ UNCHANGED <<proc, queue, task, msgs, early, heard, unanswered>>
         /\ tabs[t].at = "idle" /\ tabs'[t].at = "off"
         /\ \A u \in Tabs : u # t => tabs'[u] = tabs[u]
<1>1. HandlerTypes /\ MsgTypes /\ WireTypes /\ ChatTypes /\ PastTypes
  BY Parts DEF Base
<1>2. /\ Inside /\ UNCHANGED <<proc, queue, task, msgs, early, heard, unanswered>>
      /\ tabs[t].at = "idle" /\ Acts /\ tabs' = [tabs EXCEPT ![t].at = "off"]
      /\ subs' = [subs EXCEPT ![tabs[t].key] = @ \ {t}]
  BY DEF Close, client, gateway, Inside
<1>3. ASSUME NEW c \in Tab PROVE [c EXCEPT !.at = "off"] \in Tab /\ [c EXCEPT !.at = "off"].at = "off"
  BY DEF Tab
<1> DEFINE x == [tabs[t] EXCEPT !.at = "off"]
<1>4. x \in Tab /\ x.at = "off"
  BY <1>1, <1>2, <1>3 DEF HandlerTypes
<1>5. tabs' = [tabs EXCEPT ![t] = x]
  BY <1>2
<1> HIDE DEF x
<1>6. tabs' \in [Tabs -> Tab] /\ tabs'[t].at = "off" /\ \A u \in Tabs : u # t => tabs'[u] = tabs[u]
  BY <1>1, <1>4, <1>5 DEF HandlerTypes
<1>7. HandlerTypes'
  BY <1>1, <1>2, <1>6 DEF HandlerTypes
<1>8. MsgTypes' /\ WireTypes' /\ ChatTypes' /\ PastTypes'
  BY <1>1, <1>2, MsgsStay, WiresStay, ChatsStay, ActsIs DEF Inside, PastTypes
<1>9. QED  BY <1>2, <1>6, <1>7, <1>8, PartsNext

\* Stop drops what the queue has and dooms the job; nothing else changes.
LEMMA StopIs ==
  ASSUME Base, NEW t \in Tabs, Stop(t)
  PROVE  LET k == tabs[t].key
             m == task[k]
             Thrown == {q \in Known : Contains(queue[k], q)}
         IN
         /\ TypeOK' /\ Inside /\ UNCHANGED <<subs, task, heard, unanswered>>
         /\ k \in Keys /\ queue' = [queue EXCEPT ![k] = <<>>] /\ Known' = Known
         /\ \A q \in Known : msgs'[q].key = msgs[q].key
         /\ \A q \in Thrown :
              /\ msgs[q].stage = "queued" /\ msgs[q].key = k
              /\ msgs'[q].stage = "over" /\ msgs'[q].end = "dropped" /\ msgs'[q].items = <<>>
              /\ ~msgs'[q].doomed
         /\ \A q \in Known \ Thrown :
              /\ msgs'[q].stage = msgs[q].stage /\ msgs'[q].end = msgs[q].end
              /\ msgs'[q].items = msgs[q].items
              /\ \/ msgs'[q].doomed = msgs[q].doomed
                 \/ q = m /\ m # NoMsg /\ msgs[q].stage \in Active
         /\ \A u \in Tabs :
              /\ tabs'[u].key = tabs[u].key /\ tabs'[u].msg = tabs[u].msg
              /\ tabs'[u].at = IF tabs[u].at = "steer" /\ tabs[u].key = k
                               THEN "orphan" ELSE tabs[u].at
         /\ \/ /\ m # NoMsg /\ early' = early \cup {q \in {k} : msgs[m].stage = "created"}
               /\ proc' = proc
            \/ /\ m = NoMsg /\ early' = early \cup {q \in {k} : k \in proc}
               /\ proc' = proc \ {k}
<1> DEFINE k == tabs[t].key
           m == task[k]
           Thrown == {q \in Known : Contains(queue[k], q)}
           cut == [q \in Known |-> IF q \in Thrown THEN Ended(q, "dropped")[q] ELSE msgs[q]]
<1>1. /\ HandlerTypes /\ MsgTypes /\ WireTypes /\ ChatTypes /\ PastTypes /\ Places
      /\ msgs \in Seq(Msg) /\ k \in Keys
  BY Parts DEF Base, MsgTypes, HandlerTypes, Tab
<1>2. /\ Inside /\ UNCHANGED <<subs, task, heard, unanswered>> /\ Acts
      /\ queue' = [queue EXCEPT ![k] = <<>>]
      /\ tabs' = [u \in Tabs |-> IF tabs[u].at = "steer" /\ tabs[u].key = k
                                 THEN [tabs[u] EXCEPT !.at = "orphan"] ELSE tabs[u]]
  BY DEF Stop, Inside, client, gateway
<1>3. \/ /\ m # NoMsg /\ early' = early \cup {q \in {k} : msgs[m].stage = "created"}
         /\ proc' = proc
         /\ msgs' = IF cut[m].stage \in Active THEN WithDoom(cut, m) ELSE cut
      \/ /\ m = NoMsg /\ early' = early \cup {q \in {k} : k \in proc}
         /\ proc' = proc \ {k} /\ msgs' = cut
  BY DEF Stop, WithDoom
<1>4. m # NoMsg => m \in Known
  BY <1>1 DEF Places
<1>5. ASSUME NEW q \in Thrown PROVE msgs[q].stage = "queued" /\ msgs[q].key = k
  <2>1. PICK i \in DOMAIN queue[k] : queue[k][i] = q
    BY <1>1, <1>5, ContainsIs DEF HandlerTypes
  <2>2. QED  BY <1>1, <2>1 DEF Places
<1>6. Len(msgs) \in Nat /\ Known = 1 .. Len(msgs) /\ Len(msgs) <= MaxMsgs
  BY <1>1, KnownIs DEF MsgTypes
<1>7. ASSUME NEW q \in Thrown
      PROVE  /\ cut[q] \in Msg /\ cut[q].key = msgs[q].key /\ cut[q].stage = "over"
             /\ cut[q].end = "dropped" /\ cut[q].items = <<>> /\ cut[q].doomed = FALSE
  <2> DEFINE x == Ended(q, "dropped")
  <2>1. q \in Known /\ "dropped" \in EndsOf /\ cut[q] = x[q]
    BY DEF EndsOf
  <2> HIDE DEF x, cut
  <2>2. /\ ButFor(msgs, x, q) /\ x[q].stage = "over" /\ x[q].end = "dropped"
        /\ x[q].items = <<>> /\ x[q].doomed = FALSE
    BY <1>1, <2>1, EndedIs DEF x
  <2>3. x[q] \in Msg
    BY <2>1, <2>2, ElementsOf DEF ButFor, Known
  <2>4. QED  BY <2>1, <2>2, <2>3 DEF ButFor
<1>8. ASSUME NEW q \in Known \ Thrown PROVE cut[q] = msgs[q] /\ cut[q] \in Msg
  BY <1>1, FieldsOf DEF Known
<1>9. DOMAIN cut = Known
  OBVIOUS
<1>10. cut \in Seq(Msg) /\ Len(cut) = Len(msgs)
  <2>1. cut \in [1 .. Len(msgs) -> Msg]
    BY <1>6, <1>7, <1>8
  <2> HIDE DEF cut
  <2>2. QED  BY <1>6, <2>1, FunctionIsSeq
<1> HIDE DEF cut, Thrown
<1>11. Thrown \subseteq Known
  BY DEF Thrown
<1>12. /\ msgs' \in Seq(Msg) /\ Len(msgs') = Len(msgs) /\ Known' = Known
       /\ \A q \in Known :
            /\ msgs'[q].key = cut[q].key /\ msgs'[q].stage = cut[q].stage
            /\ msgs'[q].end = cut[q].end /\ msgs'[q].items = cut[q].items
            /\ \/ msgs'[q].doomed = cut[q].doomed
               \/ q = m /\ m # NoMsg /\ cut[q].stage \in Active
  <2>1. CASE msgs' = cut
    BY <1>9, <1>10, <2>1 DEF Known
  <2>2. CASE m # NoMsg /\ cut[m].stage \in Active /\ msgs' = WithDoom(cut, m)
    <3>1. m \in DOMAIN cut
      BY <1>4, <1>9, <2>2
    <3> HIDE DEF m
    <3>2. /\ ButFor(cut, msgs', m) /\ msgs'[m].stage = cut[m].stage /\ msgs'[m].end = cut[m].end
          /\ msgs'[m].items = cut[m].items
      BY <1>10, <2>2, <3>1, Dooming
    <3>3. QED  BY <1>9, <1>10, <2>2, <3>2 DEF ButFor, Known
  <2>3. QED  BY <1>3, <2>1, <2>2
<1>13. \A q \in Thrown :
         /\ msgs'[q].key = msgs[q].key
         /\ msgs'[q].stage = "over" /\ msgs'[q].end = "dropped" /\ msgs'[q].items = <<>>
         /\ ~msgs'[q].doomed
  BY ZenonT(60), <1>7, <1>11, <1>12 DEF Active
<1>14. \A q \in Known \ Thrown :
         /\ msgs'[q].key = msgs[q].key
         /\ msgs'[q].stage = msgs[q].stage /\ msgs'[q].end = msgs[q].end
         /\ msgs'[q].items = msgs[q].items
         /\ \/ msgs'[q].doomed = msgs[q].doomed
            \/ q = m /\ m # NoMsg /\ msgs[q].stage \in Active
  BY <1>8, <1>12
<1>15. MsgTypes'
  <2>1. ASSUME NEW q \in Known'
        PROVE  \/ msgs'[q].items = <<>> \/ msgs'[q].stage = "http"
               \/ msgs'[q].stage = "stream" /\ Len(msgs'[q].items) <= QueueMax
    <3>1. CASE q \in Thrown
      BY <1>13, <3>1
    <3>2. CASE q \in Known \ Thrown
      BY <1>1, <1>14, <3>2 DEF MsgTypes
    <3>3. QED  BY <1>12, <3>1, <3>2
  <2>2. QED  BY <1>6, <1>12, <2>1 DEF MsgTypes
<1>16. ASSUME NEW c \in Tab
       PROVE  LET x == [c EXCEPT !.at = "orphan"] IN
              x \in Tab /\ x.key = c.key /\ x.msg = c.msg /\ x.at = "orphan"
  BY DEF Tab
<1>17. /\ tabs' \in [Tabs -> Tab]
       /\ \A u \in Tabs :
            /\ tabs'[u].key = tabs[u].key /\ tabs'[u].msg = tabs[u].msg
            /\ tabs'[u].at = IF tabs[u].at = "steer" /\ tabs[u].key = k
                             THEN "orphan" ELSE tabs[u].at
  <2> HIDE DEF k
  <2>1. \A u \in Tabs : tabs[u] \in Tab
    BY <1>1 DEF HandlerTypes
  <2>2. QED  BY <1>2, <1>16, <2>1
<1>18. HandlerTypes'
  BY <1>1, <1>2, <1>3, <1>17, EmptyIs DEF HandlerTypes
<1>19. PastTypes'
  BY <1>1, <1>2, <1>3, ActsIs DEF PastTypes
<1>20. WireTypes' /\ ChatTypes'
  BY <1>1, <1>2, WiresStay, ChatsStay DEF Inside
<1>21. TypeOK'
  BY <1>15, <1>18, <1>19, <1>20, PartsNext
<1>22. \A q \in Known : msgs'[q].key = msgs[q].key
  BY <1>13, <1>14
<1>23. QED  BY <1>1, <1>2, <1>3, <1>5, <1>12, <1>13, <1>14, <1>17, <1>21, <1>22 DEF Thrown

LEMMA JobStartsIs ==
  ASSUME Base, NEW m \in Known, JobStarts(m)
  PROVE  /\ TypeOK' /\ Untold /\ UNCHANGED <<tabs, subs, queue, task, conn, pending>>
         /\ m \in MsgIds /\ msgs[m].stage = "created" /\ ~msgs[m].doomed
         /\ proc' = proc \cup {msgs[m].key} /\ msgs[m].key \in Keys
         /\ Only(m) /\ Known' = Known /\ msgs'[m].items = <<>> /\ ~msgs'[m].doomed
         /\ \/ conn # 0 /\ Sends(<<"chat", m>>) /\ msgs'[m].stage = "stream"
            \/ msgs'[m].stage = "emit" /\ msgs'[m].end = "failed" /\ UNCHANGED wires
            \/ conn = 0 /\ msgs'[m].stage = "http" /\ UNCHANGED wires
<1>1. HandlerTypes /\ MsgTypes /\ WireTypes /\ ChatTypes /\ PastTypes /\ msgs \in Seq(Msg)
  BY Parts DEF Base, MsgTypes
<1>2. /\ Untold /\ UNCHANGED <<tabs, subs, queue, task, conn, pending>>
      /\ msgs[m].stage = "created" /\ ~msgs[m].doomed /\ proc' = proc \cup {msgs[m].key}
  BY DEF JobStarts, Untold, client, gateway, history
<1>3. m \in MsgIds /\ m \in DOMAIN msgs /\ msgs[m].items = <<>> /\ msgs[m].key \in Keys
  BY <1>1, <1>2, KnownIs, FieldsOf DEF MsgTypes, Known
<1>4. HandlerTypes' /\ ChatTypes' /\ PastTypes'
  BY <1>1, <1>2, <1>3, ChatsStay, PastStays DEF HandlerTypes, Untold
<1>5. Len(<<>>) <= QueueMax
  BY Bounds, EmptyIs
<1>6. CASE conn # 0 /\ Sends(<<"chat", m>>) /\ msgs' = WithStage(msgs, m, "stream")
  <2>1. "stream" \in StagesOf /\ "chat" \in ToGateway
    BY DEF StagesOf, Active, ToGateway
  <2>2. /\ Only(m) /\ msgs'[m].stage = "stream" /\ msgs'[m].items = <<>>
        /\ msgs'[m].doomed = msgs[m].doomed
    BY <1>1, <1>3, <1>6, <2>1, Staged DEF Only
  <2>3. MsgTypes' /\ Known' = Known
    BY <1>1, <2>2, OneMsg
  <2>4. SameWires
    BY <1>1, <1>3, <1>6, <2>1, SendsIs
  <2>5. WireTypes'
    BY <1>1, <1>2, <2>4 DEF WireTypes, SameWires
  <2>6. QED  BY <1>2, <1>3, <1>4, <1>6, <2>2, <2>3, <2>5, PartsNext
<1>7. CASE msgs' = Emits(m, "failed") /\ UNCHANGED wires
  <2>1. "failed" \in EndsOf
    BY DEF EndsOf
  <2>2. /\ Only(m) /\ msgs'[m].stage = "emit" /\ msgs'[m].end = "failed"
        /\ msgs'[m].items = <<>> /\ msgs'[m].doomed = msgs[m].doomed
    BY <1>1, <1>7, <2>1, EmitsIs DEF Only
  <2>3. MsgTypes' /\ Known' = Known
    BY <1>1, <2>2, OneMsg
  <2>4. WireTypes'
    BY <1>1, <1>2, <1>7, WiresStay
  <2>5. QED  BY <1>2, <1>3, <1>4, <1>7, <2>2, <2>3, <2>4, PartsNext
<1>8. CASE conn = 0 /\ msgs' = WithStage(msgs, m, "http") /\ UNCHANGED wires
  <2>1. "http" \in StagesOf
    BY DEF StagesOf, Active
  <2>2. /\ Only(m) /\ msgs'[m].stage = "http" /\ msgs'[m].items = <<>>
        /\ msgs'[m].doomed = msgs[m].doomed
    BY <1>1, <1>3, <1>8, <2>1, Staged DEF Only
  <2>3. MsgTypes' /\ Known' = Known
    BY <1>1, <2>2, OneMsg
  <2>4. WireTypes'
    BY <1>1, <1>2, <1>8, WiresStay
  <2>5. QED  BY <1>2, <1>3, <1>4, <1>8, <2>2, <2>3, <2>4, PartsNext
<1>9. QED  BY <1>6, <1>7, <1>8 DEF JobStarts, WithStage

\* A job that streams takes an item, or gives up.
LEMMA StreamsIs ==
  ASSUME Base, NEW m \in Known, StreamItem(m) \/ StreamTimesOut(m)
  PROVE  /\ TypeOK' /\ Inside /\ Untold /\ UNCHANGED <<tabs, subs, proc, queue, task>>
         /\ m \in MsgIds /\ msgs[m].stage \in {"stream", "http"} /\ ~msgs[m].doomed
         /\ msgs[m].items \in Seq(Events)
         /\ Only(m) /\ Known' = Known /\ ~msgs'[m].doomed
         /\ \/ /\ msgs'[m].stage = msgs[m].stage /\ msgs'[m].end = msgs[m].end
               /\ msgs[m].items # <<>> /\ Head(msgs[m].items) = "progress"
               /\ msgs'[m].items = Tail(msgs[m].items)
            \/ /\ msgs'[m].stage = "emit" /\ msgs'[m].items = <<>>
               /\ msgs[m].items # <<>>
               /\ msgs'[m].end = Outcome(Head(msgs[m].items), msgs[m].stage)
               /\ msgs'[m].end \in {"answered", "empty", "failed"}
            \/ msgs'[m].stage = "emit" /\ msgs'[m].items = <<>> /\ msgs'[m].end = "failed"
<1>1. HandlerTypes /\ MsgTypes /\ WireTypes /\ ChatTypes /\ PastTypes /\ msgs \in Seq(Msg)
  BY Parts DEF Base, MsgTypes
<1>2. /\ Inside /\ Untold /\ UNCHANGED <<tabs, subs, proc, queue, task>>
      /\ msgs[m].stage \in {"stream", "http"} /\ ~msgs[m].doomed
  BY DEF StreamItem, StreamTimesOut, Inside, Untold, client, gateway, history
<1>3. m \in MsgIds /\ m \in DOMAIN msgs /\ msgs[m].items \in Seq(Events)
  BY <1>1, KnownIs, FieldsOf DEF Known
<1>4. HandlerTypes' /\ WireTypes' /\ ChatTypes' /\ PastTypes'
  BY <1>1, <1>2, HandlerStays, WiresStay, ChatsStay, PastStays DEF Inside, Untold
<1>5. CASE /\ msgs[m].items # <<>> /\ Head(msgs[m].items) = "progress"
           /\ msgs' = WithItems(msgs, m, Tail(msgs[m].items))
  <2> DEFINE rest == Tail(msgs[m].items)
  <2>1. rest \in Seq(Events) /\ Len(rest) = Len(msgs[m].items) - 1 /\ Len(msgs[m].items) \in Nat
    BY <1>3, <1>5, TailIs, SeqIsFunction
  <2>2. msgs' = WithItems(msgs, m, rest)
    BY <1>5
  <2> HIDE DEF rest
  <2>3. /\ Only(m) /\ msgs'[m].stage = msgs[m].stage /\ msgs'[m].end = msgs[m].end
        /\ msgs'[m].items = rest /\ msgs'[m].doomed = msgs[m].doomed
    BY <1>1, <1>3, <2>1, <2>2, Itemed DEF Only
  <2>4. \/ msgs'[m].items = <<>> \/ msgs'[m].stage = "http"
        \/ msgs'[m].stage = "stream" /\ Len(msgs'[m].items) <= QueueMax
    BY <1>1, <1>2, <1>5, <2>1, <2>3, Bounds DEF MsgTypes
  <2>5. MsgTypes' /\ Known' = Known
    BY <1>1, <2>3, <2>4, OneMsg
  <2>6. QED  BY <1>2, <1>3, <1>4, <1>5, <2>3, <2>5, PartsNext DEF rest
<1>6. ASSUME NEW end \in {"answered", "empty", "failed"}, msgs' = Emits(m, end)
      PROVE  /\ Only(m) /\ Known' = Known /\ MsgTypes' /\ ~msgs'[m].doomed
             /\ msgs'[m].stage = "emit" /\ msgs'[m].items = <<>> /\ msgs'[m].end = end
  <2>1. end \in EndsOf
    BY DEF EndsOf
  <2>2. /\ Only(m) /\ msgs'[m].stage = "emit" /\ msgs'[m].end = end
        /\ msgs'[m].items = <<>> /\ msgs'[m].doomed = msgs[m].doomed
    BY <1>1, <1>6, <2>1, EmitsIs DEF Only
  <2>3. MsgTypes' /\ Known' = Known
    BY <1>1, <2>2, OneMsg
  <2>4. QED  BY <1>2, <2>2, <2>3
<1>7. CASE /\ msgs[m].items # <<>>
           /\ msgs' = Emits(m, Outcome(Head(msgs[m].items), msgs[m].stage))
  <2> DEFINE end == Outcome(Head(msgs[m].items), msgs[m].stage)
  <2>1. end \in {"answered", "empty", "failed"}
    BY DEF Outcome
  <2>2. msgs' = Emits(m, end)
    BY <1>7
  <2> HIDE DEF end
  <2>3. /\ Only(m) /\ Known' = Known /\ MsgTypes' /\ ~msgs'[m].doomed
        /\ msgs'[m].stage = "emit" /\ msgs'[m].items = <<>> /\ msgs'[m].end = end
    BY <1>6, <2>1, <2>2
  <2>4. QED  BY <1>2, <1>3, <1>4, <1>7, <2>1, <2>3, PartsNext DEF end
<1>8. CASE msgs' = Emits(m, "failed")
  BY <1>2, <1>3, <1>4, <1>6, <1>8, PartsNext
<1>9. QED  BY <1>5, <1>7, <1>8 DEF StreamItem, StreamTimesOut, WithItems

LEMMA JobNeverRunsIs ==
  ASSUME Base, NEW m \in Known, JobNeverRuns(m)
  PROVE  /\ TypeOK' /\ Inside /\ Untold /\ UNCHANGED <<tabs, subs, proc, queue, task>>
         /\ m \in MsgIds /\ msgs[m].stage = "created" /\ msgs[m].doomed
         /\ Only(m) /\ Known' = Known /\ msgs'[m].items = <<>> /\ ~msgs'[m].doomed
         /\ msgs'[m].stage = "over" /\ msgs'[m].end = "stuck"
<1>1. HandlerTypes /\ MsgTypes /\ WireTypes /\ ChatTypes /\ PastTypes /\ msgs \in Seq(Msg)
  BY Parts DEF Base, MsgTypes
<1>2. /\ Inside /\ Untold /\ UNCHANGED <<tabs, subs, proc, queue, task>>
      /\ msgs[m].stage = "created" /\ msgs[m].doomed /\ msgs' = Ended(m, "stuck")
  BY DEF JobNeverRuns, Inside, Untold, client, gateway, history
<1>3. m \in MsgIds /\ "stuck" \in EndsOf
  BY <1>1, KnownIs DEF EndsOf
<1>4. HandlerTypes' /\ WireTypes' /\ ChatTypes' /\ PastTypes'
  BY <1>1, <1>2, HandlerStays, WiresStay, ChatsStay, PastStays DEF Inside, Untold
<1>5. /\ Only(m) /\ msgs'[m].stage = "over" /\ msgs'[m].end = "stuck"
      /\ msgs'[m].items = <<>> /\ msgs'[m].doomed = FALSE
  BY <1>1, <1>2, <1>3, EndedIs DEF Only
<1>6. MsgTypes' /\ Known' = Known
  BY <1>1, <1>5, OneMsg
<1>7. QED  BY <1>2, <1>3, <1>4, <1>5, <1>6, PartsNext

\* What the finally clause leaves: the next message has a job, or none does.
LEMMA JobOverIs ==
  ASSUME Base, NEW m \in Known, JobEnds(m) \/ JobIsStopped(m)
  PROVE  LET k == msgs[m].key
             h == Head(queue[k])
         IN
         /\ TypeOK' /\ Inside /\ Untold /\ UNCHANGED <<tabs, subs>>
         /\ m \in MsgIds /\ k \in Keys /\ msgs[m].stage \in {"stream", "http", "emit"}
         /\ Known' = Known /\ \A q \in Known : msgs'[q].key = msgs[q].key
         /\ msgs'[m].stage = "over" /\ msgs'[m].items = <<>> /\ ~msgs'[m].doomed
         /\ \/ msgs[m].stage = "emit" /\ msgs'[m].end = msgs[m].end
            \/ msgs'[m].end = "stopped"
         /\ \/ /\ queue[k] # <<>> /\ h \in Known /\ h # m /\ h # NoMsg
               /\ msgs[h].stage = "queued" /\ msgs[h].key = k
               /\ msgs'[h].stage = "created" /\ msgs'[h].end = msgs[h].end
               /\ msgs'[h].doomed = msgs[h].doomed /\ msgs'[h].items = msgs[h].items
               /\ \A q \in Known : q # m /\ q # h => msgs'[q] = msgs[q]
               /\ task' = [task EXCEPT ![k] = h]
               /\ queue' = [queue EXCEPT ![k] = Tail(queue[k])]
               /\ proc' = proc
            \/ /\ queue[k] = <<>>
               /\ \A q \in Known : q # m => msgs'[q] = msgs[q]
               /\ task' = [task EXCEPT ![k] = NoMsg] /\ proc' = proc \ {k} /\ queue' = queue
<1> DEFINE k == msgs[m].key
           h == Head(queue[k])
<1>1. /\ HandlerTypes /\ MsgTypes /\ WireTypes /\ ChatTypes /\ PastTypes /\ Places
      /\ msgs \in Seq(Msg)
  BY Parts DEF Base, MsgTypes
<1>2. /\ Inside /\ Untold /\ UNCHANGED <<tabs, subs>>
      /\ msgs[m].stage \in {"stream", "http", "emit"}
      /\ \E end : /\ Finally(m, end)
                  /\ (msgs[m].stage = "emit" /\ end = msgs[m].end) \/ end = "stopped"
  BY DEF JobEnds, JobIsStopped, Inside, Untold, client, gateway, history
<1>3. PICK end : /\ Finally(m, end)
                 /\ (msgs[m].stage = "emit" /\ end = msgs[m].end) \/ end = "stopped"
  BY <1>2
<1>4. m \in MsgIds /\ m \in DOMAIN msgs /\ k \in Keys /\ end \in EndsOf
  BY <1>1, <1>3, KnownIs, FieldsOf DEF Known, EndsOf
<1>5. WireTypes' /\ ChatTypes' /\ PastTypes'
  BY <1>1, <1>2, WiresStay, ChatsStay, PastStays DEF Inside, Untold
<1> DEFINE x == Ended(m, end)
<1>6. /\ ButFor(msgs, x, m) /\ x[m].stage = "over" /\ x[m].end = end
      /\ x[m].items = <<>> /\ x[m].doomed = FALSE
  BY <1>1, <1>4, EndedIs
<1>7. Known = DOMAIN msgs
  BY DEF Known
<1>8. CASE queue[k] # <<>>
  <2>1. /\ msgs' = WithStage(x, h, "created") /\ task' = [task EXCEPT ![k] = h]
        /\ queue' = [queue EXCEPT ![k] = Tail(queue[k])] /\ proc' = proc
    BY <1>3, <1>8 DEF Finally, WithStage
  <2>2. queue[k] \in Seq(MsgIds)
    BY <1>1, <1>4 DEF HandlerTypes
  <2>3. h = queue[k][1] /\ 1 \in DOMAIN queue[k] /\ Tail(queue[k]) \in Seq(MsgIds) /\ h \in MsgIds
    BY <1>8, <2>2, TailIs
  <2>4. h \in Known /\ msgs[h].stage = "queued" /\ msgs[h].key = k
    BY <1>1, <1>4, <2>3 DEF Places
  <2>5. h # m /\ h # NoMsg /\ h \in 0 .. MaxMsgs
    BY <1>2, <2>3, <2>4 DEF MsgIds, NoMsg
  <2> HIDE DEF x, h, k
  <2>6. x \in Seq(Msg) /\ h \in DOMAIN x /\ "created" \in StagesOf
    BY <1>6, <1>7, <2>4 DEF ButFor, StagesOf, Active
  <2>7. /\ ButFor(x, msgs', h) /\ msgs'[h].stage = "created" /\ msgs'[h].end = x[h].end
        /\ msgs'[h].items = x[h].items /\ msgs'[h].doomed = x[h].doomed
    BY <2>1, <2>6, Staged
  <2>8. /\ msgs' \in Seq(Msg) /\ Len(msgs') = Len(msgs) /\ Known' = Known
        /\ x[h] = msgs[h] /\ msgs'[m] = x[m]
        /\ \A q \in Known : q # m /\ q # h => msgs'[q] = msgs[q]
    BY <1>6, <1>7, <2>4, <2>5, <2>7 DEF ButFor, Known
  <2>9. msgs'[m].key = msgs[m].key /\ msgs'[h].key = msgs[h].key
    BY <1>6, <2>7, <2>8 DEF ButFor
  <2>10. msgs'[h].items = <<>>
    BY <1>1, <2>4, <2>7, <2>8 DEF MsgTypes
  <2>11. MsgTypes'
    <3>1. ASSUME NEW q \in Known'
          PROVE  \/ msgs'[q].items = <<>>
                 \/ msgs'[q].stage = "http"
                 \/ msgs'[q].stage = "stream" /\ Len(msgs'[q].items) <= QueueMax
      <4>1. CASE q = m
        BY <1>6, <2>8, <4>1
      <4>2. CASE q = h
        BY <2>10, <4>2
      <4>3. CASE q # m /\ q # h
        BY <1>1, <2>8, <4>3 DEF MsgTypes
      <4>4. QED  BY <4>1, <4>2, <4>3
    <3>2. QED  BY <1>1, <2>8, <3>1 DEF MsgTypes
  <2>12. HandlerTypes'
    BY <1>1, <1>2, <1>4, <2>1, <2>3, <2>5 DEF HandlerTypes
  <2>13. TypeOK'
    BY <1>5, <2>11, <2>12, PartsNext
  <2>14. \A q \in Known : msgs'[q].key = msgs[q].key
    BY <2>8, <2>9
  <2>15. /\ msgs'[m].stage = "over" /\ msgs'[m].items = <<>> /\ ~msgs'[m].doomed
         /\ (msgs[m].stage = "emit" /\ msgs'[m].end = msgs[m].end) \/ msgs'[m].end = "stopped"
    BY <1>3, <1>6, <2>8
  <2>16. QED
    BY <1>2, <1>4, <1>8, <2>1, <2>4, <2>5, <2>7, <2>8, <2>13, <2>14, <2>15 DEF h, k
<1>9. CASE queue[k] = <<>>
  <2>1. /\ msgs' = x /\ task' = [task EXCEPT ![k] = NoMsg] /\ queue' = queue /\ proc' = proc \ {k}
    BY <1>3, <1>9 DEF Finally
  <2>2. Only(m)
    BY <1>6, <2>1 DEF Only
  <2>3. MsgTypes' /\ Known' = Known /\ \A q \in Known : msgs'[q].key = msgs[q].key
    BY <1>1, <1>6, <2>1, <2>2, OneMsg
  <2>4. NoMsg \in 0 .. MaxMsgs
    BY Bounds DEF NoMsg
  <2>5. HandlerTypes'
    BY <1>1, <1>2, <2>1, <2>4 DEF HandlerTypes
  <2>6. TypeOK'
    BY <1>5, <2>3, <2>5, PartsNext
  <2> HIDE DEF x
  <2>7. /\ msgs'[m].stage = "over" /\ msgs'[m].items = <<>> /\ ~msgs'[m].doomed
        /\ (msgs[m].stage = "emit" /\ msgs'[m].end = msgs[m].end) \/ msgs'[m].end = "stopped"
        /\ \A q \in Known : q # m => msgs'[q] = msgs[q]
    BY <1>3, <1>6, <1>7, <2>1 DEF ButFor
  <2>8. QED  BY <1>2, <1>4, <1>9, <2>1, <2>3, <2>6, <2>7
<1>10. QED  BY <1>8, <1>9

\* What the steps make of a turn.
InStage(m, stage) == [chats EXCEPT ![m].stage = stage]
OnWire(m, n)      == [chats EXCEPT ![m].stage = "created", ![m].wire = n]
WithChatDoom(m)   == [chats EXCEPT ![m].doomed = TRUE]

ChatStages == {"none", "created", "running", "loop", "over"}

\* The turns are x, but for that of message m.
ChatButFor(x, m) == x \in [MsgIds -> Chat] /\ \A q \in MsgIds : q # m => x[q] = chats[q]

LEMMA ChatFields ==
  ASSUME ChatTypes, NEW m \in MsgIds
  PROVE  /\ chats[m] \in Chat /\ chats[m].stage \in ChatStages /\ chats[m].wire \in Nat
         /\ chats[m].end \in {"none", "done", "broken", "unrun"}
<1>1. chats[m] \in Chat
  BY DEF ChatTypes
<1>2. QED  BY <1>1 DEF Chat, ChatStages

LEMMA ChatReplaced ==
  ASSUME ChatTypes, NEW m \in MsgIds, NEW c \in Chat
  PROVE  LET x == [chats EXCEPT ![m] = c] IN ChatButFor(x, m) /\ x[m] = c
  BY DEF ChatTypes, ChatButFor

LEMMA InStageIs ==
  ASSUME ChatTypes, NEW m \in MsgIds, NEW stage \in ChatStages
  PROVE  LET x == InStage(m, stage) IN
         /\ ChatButFor(x, m) /\ x[m].stage = stage /\ x[m].end = chats[m].end
         /\ x[m].wire = chats[m].wire
<1> DEFINE c == [chats[m] EXCEPT !.stage = stage]
           y == InStage(m, stage)
<1>1. chats[m] \in Chat
  BY ChatFields
<1>2. c \in Chat /\ c.stage = stage /\ c.end = chats[m].end /\ c.wire = chats[m].wire
  BY <1>1 DEF Chat, ChatStages
<1>3. y = [chats EXCEPT ![m] = c]
  BY DEF InStage
<1> HIDE DEF c, y
<1>4. ChatButFor(y, m) /\ y[m] = c
  BY <1>2, <1>3, ChatReplaced
<1>5. QED  BY <1>2, <1>4 DEF y

LEMMA OnWireIs ==
  ASSUME ChatTypes, NEW m \in MsgIds, NEW n \in 1 .. MaxConns
  PROVE  LET x == OnWire(m, n) IN
         /\ ChatButFor(x, m) /\ x[m].stage = "created" /\ x[m].end = chats[m].end
         /\ x[m].wire = n
<1> DEFINE c == [chats[m] EXCEPT !.stage = "created", !.wire = n]
           y == OnWire(m, n)
<1>1. chats[m] \in Chat /\ n \in 0 .. MaxConns
  BY ChatFields
<1>2. c \in Chat /\ c.stage = "created" /\ c.end = chats[m].end /\ c.wire = n
  BY <1>1 DEF Chat
<1>3. y = [chats EXCEPT ![m] = c]
  BY DEF OnWire
<1> HIDE DEF c, y
<1>4. ChatButFor(y, m) /\ y[m] = c
  BY <1>2, <1>3, ChatReplaced
<1>5. QED  BY <1>2, <1>4 DEF y

LEMMA ChatDoomIs ==
  ASSUME ChatTypes, NEW m \in MsgIds
  PROVE  LET x == WithChatDoom(m) IN
         /\ ChatButFor(x, m) /\ x[m].stage = chats[m].stage /\ x[m].end = chats[m].end
         /\ x[m].wire = chats[m].wire
<1> DEFINE c == [chats[m] EXCEPT !.doomed = TRUE]
           y == WithChatDoom(m)
<1>1. chats[m] \in Chat
  BY ChatFields
<1>2. c \in Chat /\ c.stage = chats[m].stage /\ c.end = chats[m].end /\ c.wire = chats[m].wire
  BY <1>1 DEF Chat
<1>3. y = [chats EXCEPT ![m] = c]
  BY DEF WithChatDoom
<1> HIDE DEF c, y
<1>4. ChatButFor(y, m) /\ y[m] = c
  BY <1>2, <1>3, ChatReplaced
<1>5. QED  BY <1>2, <1>4 DEF y

LEMMA OverSet ==
  ASSUME NEW c \in Chat, NEW end \in {"done", "broken", "unrun"}
  PROVE  LET x == [c EXCEPT !.stage = "over", !.end = end, !.wire = 0, !.doomed = FALSE] IN
         x \in Chat /\ x.stage = "over" /\ x.end = end
<1>1. 0 \in 0 .. MaxConns
  BY Bounds
<1>2. QED  BY <1>1 DEF Chat

LEMMA ChatOverIs ==
  ASSUME ChatTypes, NEW m \in MsgIds, NEW end \in {"done", "broken", "unrun"}
  PROVE  LET x == ChatOver(m, end) IN
         ChatButFor(x, m) /\ x[m].stage = "over" /\ x[m].end = end
<1> DEFINE c == [chats[m] EXCEPT !.stage = "over", !.end = end, !.wire = 0, !.doomed = FALSE]
           y == ChatOver(m, end)
<1>1. chats[m] \in Chat
  BY ChatFields
<1>2. c \in Chat /\ c.stage = "over" /\ c.end = end
  BY <1>1, OverSet
<1>3. y = [chats EXCEPT ![m] = c]
  BY DEF ChatOver
<1> HIDE DEF c, y
<1>4. ChatButFor(y, m) /\ y[m] = c
  BY <1>2, <1>3, ChatReplaced
<1>5. QED  BY <1>2, <1>4 DEF y

\* What a turn tells goes to its connection, or to the stream that reads it.
Told(m, what) ==
  \/ /\ UNCHANGED msgs /\ SameWires
     /\ \A n \in DOMAIN wires :
          /\ wires'[n].open = wires[n].open /\ wires'[n].up = wires[n].up
          /\ wires'[n].down = IF n = chats[m].wire /\ wires[n].open
                              THEN Append(wires[n].down, <<what, m>>) ELSE wires[n].down
  \/ /\ chats[m].wire = 0 /\ UNCHANGED wires
     /\ msgs[m].stage = "http" /\ Only(m) /\ msgs'[m].stage = "http" /\ ~msgs'[m].doomed
     /\ msgs'[m].end = msgs[m].end /\ ~msgs[m].doomed
     /\ \A e : Contains(msgs'[m].items, e) => Contains(msgs[m].items, e) \/ e = what

LEMMA TellsIs ==
  ASSUME Base, NEW m \in Known, NEW what \in Events, Tells(m, what), UNCHANGED <<conn, pending>>
  PROVE  /\ MsgTypes' /\ WireTypes' /\ Known' = Known /\ Told(m, what)
         /\ \A q \in Known : msgs'[q].key = msgs[q].key
<1>1. MsgTypes /\ WireTypes /\ ChatTypes /\ msgs \in Seq(Msg) /\ m \in MsgIds /\ wires \in Seq(Wire)
  BY Parts, KnownIs DEF Base, MsgTypes, WireTypes
<1>2. what \in ToClient /\ chats[m].wire \in Nat
  BY <1>1, ChatFields DEF ToClient
<1>3. CASE chats[m].wire # 0
  <2> DEFINE w == chats[m].wire
  <2>1. wires' = Said(wires, w, what, m) /\ UNCHANGED msgs
    BY <1>3 DEF Tells
  <2>2. /\ SameWires
        /\ \A n \in DOMAIN wires :
             /\ wires'[n].open = wires[n].open /\ wires'[n].up = wires[n].up
             /\ wires'[n].down = IF n = w /\ wires[n].open
                                 THEN Append(wires[n].down, <<what, m>>) ELSE wires[n].down
    <3>1. w \in Nat
      BY <1>2
    <3> HIDE DEF w
    <3>2. m \in MsgIds /\ what \in ToClient /\ wires \in Seq(Wire)
      BY <1>1, <1>2
    <3> DEFINE x == Said(wires, w, what, m)
    <3>3. /\ x \in Seq(Wire) /\ Len(x) = Len(wires) /\ DOMAIN x = DOMAIN wires
          /\ \A p \in DOMAIN wires :
               /\ x[p].open = wires[p].open /\ x[p].up = wires[p].up
               /\ x[p].down = IF p = w /\ wires[p].open
                              THEN Append(wires[p].down, <<what, m>>) ELSE wires[p].down
      BY ONLY <3>1, <3>2, SaidIs
    <3>4. wires' = x
      BY <2>1
    <3> HIDE DEF x
    <3>5. QED  BY <3>3, <3>4 DEF SameWires
  <2>3. WireTypes'
    BY <1>1, <2>2 DEF WireTypes, SameWires
  <2>4. QED  BY <1>1, <2>1, <2>2, <2>3, MsgsStay DEF Told, Known
<1>4. CASE chats[m].wire = 0 /\ msgs[m].stage = "http" /\ ~msgs[m].doomed
  <2> DEFINE items == Append(msgs[m].items, what)
  <2>1. msgs' = WithItems(msgs, m, items) /\ UNCHANGED wires
    BY <1>4 DEF Tells, WithItems
  <2>2. /\ items \in Seq(Events)
        /\ \A e : Contains(items, e) => Contains(msgs[m].items, e) \/ e = what
    BY <1>1, FieldsOf, ItemsAppended DEF Known
  <2> HIDE DEF items
  <2>3. m \in DOMAIN msgs
    BY DEF Known
  <2>4. /\ Only(m) /\ msgs'[m].stage = "http" /\ msgs'[m].end = msgs[m].end
        /\ msgs'[m].items = items /\ ~msgs'[m].doomed
    BY <1>1, <1>4, <2>1, <2>2, <2>3, Itemed DEF Only
  <2>5. MsgTypes' /\ Known' = Known /\ \A q \in Known : msgs'[q].key = msgs[q].key
    BY <1>1, <2>4, OneMsg
  <2>6. QED  BY <1>1, <1>4, <2>1, <2>2, <2>4, <2>5, WiresStay DEF Told
<1>5. CASE chats[m].wire = 0 /\ ~(msgs[m].stage = "http" /\ ~msgs[m].doomed)
  <2>1. UNCHANGED msgs /\ UNCHANGED wires
    BY <1>5 DEF Tells
  <2>2. 0 \notin DOMAIN wires
    BY <1>1, WiresAre
  <2>3. Told(m, what)
    BY <1>1, <1>5, <2>1, <2>2 DEF Told, SameWires
  <2>4. QED  BY <1>1, <2>1, <2>3, MsgsStay, WiresStay DEF Known
<1>6. QED  BY <1>3, <1>4, <1>5

NewWire == [open |-> TRUE, up |-> <<>>, down |-> <<>>]

LEMMA ConnectIs ==
  ASSUME Base, Connect
  PROVE  LET n == Len(wires) + 1 IN
         /\ TypeOK' /\ Untold /\ UNCHANGED <<tabs, subs, proc, queue, task, msgs, pending>>
         /\ conn = 0 /\ conn' = n /\ n \notin DOMAIN wires /\ DOMAIN wires' = DOMAIN wires \cup {n}
         /\ wires'[n] = NewWire /\ \A p \in DOMAIN wires : wires'[p] = wires[p]
<1> DEFINE n == Len(wires) + 1
<1>1. HandlerTypes /\ MsgTypes /\ WireTypes /\ ChatTypes /\ PastTypes /\ wires \in Seq(Wire)
  BY Parts DEF Base, WireTypes
<1>2. /\ Untold /\ UNCHANGED <<tabs, subs, proc, queue, task, msgs, pending>>
      /\ conn = 0 /\ conn' = n /\ Len(wires) < MaxConns /\ wires' = Append(wires, NewWire)
  BY DEF Connect, handler, gateway, history, Untold, NewWire
<1>3. NewWire \in Wire
  BY EmptyIs DEF NewWire, Wire
<1>4. /\ wires' \in Seq(Wire) /\ Len(wires') = n /\ n \notin DOMAIN wires
      /\ DOMAIN wires' = DOMAIN wires \cup {n}
      /\ wires'[n] = NewWire /\ \A p \in DOMAIN wires : wires'[p] = wires[p]
  BY <1>1, <1>2, <1>3, AppendIs
<1>5. Len(wires) \in Nat
  BY <1>1, WiresAre
<1>6. WireTypes'
  BY <1>1, <1>2, <1>4, <1>5, Bounds DEF WireTypes
<1>7. HandlerTypes' /\ MsgTypes' /\ ChatTypes' /\ PastTypes'
  BY <1>1, <1>2, HandlerStays, MsgsStay, ChatsStay, PastStays DEF Untold
<1>8. QED  BY <1>2, <1>4, <1>6, <1>7, PartsNext

\* The end of the connection: the streams that wait on it learn of it.
LEMMA ClientNoticesIs ==
  ASSUME Base, ClientNotices
  PROVE  /\ TypeOK' /\ Untold /\ UNCHANGED <<tabs, subs, proc, queue, task>>
         /\ conn \in DOMAIN wires /\ conn' = 0 /\ pending' = {}
         /\ SameWires
         /\ \A n \in DOMAIN wires :
              /\ wires'[n].open = wires[n].open /\ wires'[n].up = wires[n].up
              /\ wires'[n].down = IF n = conn THEN <<>> ELSE wires[n].down
         /\ Known' = Known
         /\ \A q \in Known :
              /\ msgs'[q].key = msgs[q].key /\ msgs'[q].stage = msgs[q].stage
              /\ msgs'[q].end = msgs[q].end /\ msgs'[q].doomed = msgs[q].doomed
              /\ IF Registered(q) THEN msgs'[q].items = Put(msgs[q].items, "lost")
                 ELSE msgs'[q].items = msgs[q].items
<1>1. /\ HandlerTypes /\ MsgTypes /\ WireTypes /\ ChatTypes /\ PastTypes
      /\ wires \in Seq(Wire) /\ msgs \in Seq(Msg)
  BY Parts DEF Base, WireTypes, MsgTypes
<1>2. /\ Untold /\ UNCHANGED <<tabs, subs, proc, queue, task>>
      /\ conn # 0 /\ conn' = 0 /\ pending' = {} /\ wires' = WithDown(wires, conn, <<>>)
      /\ msgs' = [m \in Known |->
           IF Registered(m) THEN [msgs[m] EXCEPT !.items = Put(@, "lost")] ELSE msgs[m]]
  BY DEF ClientNotices, gateway, history, Untold, WithDown
<1>3. conn \in DOMAIN wires /\ <<>> \in Seq(DownFrames)
  BY <1>1, <1>2, WiresAre, EmptyIs
<1>4. /\ WireButFor(wires, wires', conn) /\ wires'[conn].open = wires[conn].open
      /\ wires'[conn].up = wires[conn].up /\ wires'[conn].down = <<>>
  BY <1>1, <1>2, <1>3, DownIs
<1>5. /\ SameWires
      /\ \A n \in DOMAIN wires :
           /\ wires'[n].open = wires[n].open /\ wires'[n].up = wires[n].up
           /\ wires'[n].down = IF n = conn THEN <<>> ELSE wires[n].down
  BY <1>4 DEF WireButFor, SameWires
<1>6. WireTypes'
  <2>1. 0 \in 0 .. Len(wires') /\ {} \subseteq Requests
    BY <1>1, <1>5, WiresAre DEF SameWires
  <2>2. QED  BY <1>1, <1>2, <1>5, <2>1 DEF WireTypes, SameWires
<1>7. Known = 1 .. Len(msgs) /\ Len(msgs) \in Nat /\ Known = DOMAIN msgs
  BY <1>1, KnownIs DEF Known
<1> DEFINE put(q) == Put(msgs[q].items, "lost")
           new(q) == [msgs[q] EXCEPT !.items = put(q)]
<1>8. ASSUME NEW q \in Known, Registered(q)
      PROVE  /\ new(q) \in Msg /\ new(q).key = msgs[q].key /\ new(q).stage = msgs[q].stage
             /\ new(q).end = msgs[q].end /\ new(q).items = put(q)
             /\ new(q).doomed = msgs[q].doomed
             /\ msgs[q].stage = "stream" /\ Len(put(q)) <= QueueMax
  <2>1. msgs[q] \in Msg /\ msgs[q].items \in Seq(Events) /\ "lost" \in Events
    BY <1>1, <1>7, FieldsOf DEF Events
  <2>2. put(q) \in Seq(Events) /\ (Len(msgs[q].items) <= QueueMax => Len(put(q)) <= QueueMax)
    BY <2>1, PutIs
  <2>3. msgs[q].stage = "stream" /\ Len(msgs[q].items) <= QueueMax
    BY <1>1, <1>8, Bounds, EmptyIs DEF Registered, MsgTypes
  <2> HIDE DEF put
  <2>4. QED  BY <2>1, <2>2, <2>3, ItemsSet
<1>9. /\ DOMAIN msgs' = Known
      /\ \A q \in Known : msgs'[q] = IF Registered(q) THEN new(q) ELSE msgs[q]
  BY <1>2
<1> HIDE DEF new, put
<1>10. ASSUME NEW q \in Known
       PROVE  /\ msgs'[q] \in Msg
              /\ msgs'[q].key = msgs[q].key /\ msgs'[q].stage = msgs[q].stage
              /\ msgs'[q].end = msgs[q].end /\ msgs'[q].doomed = msgs[q].doomed
              /\ msgs'[q].items = IF Registered(q) THEN put(q) ELSE msgs[q].items
  BY <1>1, <1>7, <1>8, <1>9, FieldsOf
<1>11. msgs' \in Seq(Msg) /\ Len(msgs') = Len(msgs)
  <2>1. msgs' \in [1 .. Len(msgs) -> Msg]
    <3>1. \E f : msgs' = [q \in Known |-> f[q]]
      <4>1. msgs' = [q \in Known |-> msgs'[q]]
        BY <1>2
      <4>2. QED  BY <4>1
    <3>2. QED  BY <1>7, <1>9, <1>10, <3>1
  <2>2. QED  BY <1>7, <2>1, FunctionIsSeq
<1>12. Known' = Known
  BY <1>9 DEF Known
<1>13. MsgTypes'
  <2>1. ASSUME NEW q \in Known
        PROVE  \/ msgs'[q].items = <<>>
               \/ msgs'[q].stage = "http"
               \/ msgs'[q].stage = "stream" /\ Len(msgs'[q].items) <= QueueMax
    <3>1. CASE Registered(q)
      BY <1>8, <1>10, <3>1
    <3>2. CASE ~Registered(q)
      BY <1>1, <1>10, <3>2 DEF MsgTypes
    <3>3. QED  BY <3>1, <3>2
  <2>2. QED  BY <1>1, <1>11, <1>12, <2>1 DEF MsgTypes
<1>14. HandlerTypes' /\ ChatTypes' /\ PastTypes'
  BY <1>1, <1>2, HandlerStays, ChatsStay, PastStays DEF Untold
<1>15. TypeOK'
  BY <1>6, <1>13, <1>14, PartsNext
<1>16. QED  BY <1>2, <1>3, <1>5, <1>10, <1>12, <1>15 DEF put

LEMMA ChatStays == ASSUME ChatTypes, NEW x, NEW m \in MsgIds, ChatButFor(x, m), chats' = x,
                          steerable' \subseteq Keys
                   PROVE  ChatTypes'
  BY DEF ChatTypes, ChatButFor

LEMMA HttpAcceptedIs ==
  ASSUME Base, NEW m \in Known, HttpAccepted(m)
  PROVE  /\ TypeOK' /\ m \in MsgIds
         /\ UNCHANGED <<tabs, subs, proc, queue, task, conn, pending, wires, steerable>>
         /\ UNCHANGED <<used, early, heard, unanswered>>
         /\ msgs[m].stage = "http" /\ ~msgs[m].doomed /\ chats[m].stage = "none"
         /\ Known' = Known
         /\ \/ /\ ChatButFor(chats', m) /\ chats'[m].stage = "running"
               /\ chats'[m].end = chats[m].end /\ chats'[m].wire = chats[m].wire
               /\ UNCHANGED msgs
            \/ /\ Only(m) /\ msgs'[m].stage = "http" /\ msgs'[m].end = msgs[m].end
               /\ ~msgs'[m].doomed /\ msgs'[m].items = <<"lost">> /\ UNCHANGED chats
<1>1. /\ HandlerTypes /\ MsgTypes /\ WireTypes /\ ChatTypes /\ PastTypes
      /\ msgs \in Seq(Msg) /\ m \in MsgIds /\ m \in DOMAIN msgs
  BY Parts, KnownIs DEF Base, MsgTypes, Known
<1>2. /\ UNCHANGED <<tabs, subs, proc, queue, task, conn, pending, wires, steerable>>
      /\ UNCHANGED <<used, early, heard, unanswered>>
      /\ msgs[m].stage = "http" /\ ~msgs[m].doomed /\ chats[m].stage = "none"
  BY DEF HttpAccepted, client, history
<1>3. HandlerTypes' /\ WireTypes' /\ PastTypes'
  BY <1>1, <1>2, HandlerStays, WiresStay, PastStays
<1>4. CASE chats' = InStage(m, "running") /\ UNCHANGED msgs
  <2>1. "running" \in ChatStages
    BY DEF ChatStages
  <2>2. /\ ChatButFor(chats', m) /\ chats'[m].stage = "running" /\ chats'[m].end = chats[m].end
        /\ chats'[m].wire = chats[m].wire
    BY <1>1, <1>4, <2>1, InStageIs
  <2>3. ChatTypes' /\ MsgTypes' /\ Known' = Known
    BY <1>1, <1>2, <1>4, <2>2, MsgsStay DEF ChatTypes, ChatButFor, Known
  <2>4. QED  BY <1>1, <1>2, <1>3, <1>4, <2>2, <2>3, PartsNext
<1>5. CASE msgs' = WithItems(msgs, m, <<"lost">>) /\ UNCHANGED chats
  <2>1. <<"lost">> \in Seq(Events)
    BY DEF Events
  <2>2. /\ Only(m) /\ msgs'[m].stage = "http" /\ msgs'[m].end = msgs[m].end
        /\ ~msgs'[m].doomed /\ msgs'[m].items = <<"lost">>
    BY ZenonT(60), <1>1, <1>2, <1>5, <2>1, Itemed DEF Only
  <2>3. MsgTypes' /\ Known' = Known
    BY <1>1, <2>2, OneMsg
  <2>4. ChatTypes'
    BY <1>1, <1>2, <1>5, ChatsStay
  <2>5. QED  BY <1>1, <1>2, <1>3, <1>5, <2>2, <2>3, <2>4, PartsNext
<1>6. QED  BY <1>4, <1>5 DEF HttpAccepted, InStage, WithItems

\* A turn goes on: it starts, or never runs, or enters the loop.
LEMMA ChatGoesIs ==
  ASSUME Base, NEW m \in Known, ChatStarts(m) \/ ChatEntersLoop(m)
  PROVE  /\ TypeOK' /\ m \in MsgIds /\ ChatButFor(chats', m)
         /\ UNCHANGED <<tabs, subs, proc, queue, task, msgs, conn, pending, wires>>
         /\ UNCHANGED <<used, early, heard, unanswered>>
         /\ \/ /\ chats[m].stage = "created"
               /\ chats'[m].stage = "over" /\ chats'[m].end = "unrun"
            \/ /\ chats[m].stage = "created"
               /\ chats'[m].stage = "running" /\ chats'[m].end = chats[m].end
               /\ chats'[m].wire = chats[m].wire
            \/ /\ chats[m].stage = "running"
               /\ chats'[m].stage = "loop" /\ chats'[m].end = chats[m].end
               /\ chats'[m].wire = chats[m].wire
<1>1. /\ HandlerTypes /\ MsgTypes /\ WireTypes /\ ChatTypes /\ PastTypes
      /\ m \in MsgIds /\ msgs[m].key \in Keys
  BY Parts, KnownIs, FieldsOf DEF Base, MsgTypes, Known
<1>2. /\ UNCHANGED <<tabs, subs, proc, queue, task, msgs, conn, pending, wires>>
      /\ UNCHANGED <<used, early, heard, unanswered>>
      /\ steerable' = steerable \/ steerable' = steerable \cup {msgs[m].key}
  BY DEF ChatStarts, ChatEntersLoop, handler, client, history
<1>3. HandlerTypes' /\ MsgTypes' /\ WireTypes' /\ PastTypes' /\ steerable' \subseteq Keys
  BY <1>1, <1>2, HandlerStays, MsgsStay, WiresStay, PastStays DEF ChatTypes
<1>4. "running" \in ChatStages /\ "loop" \in ChatStages
  BY DEF ChatStages
<1>5. CASE chats[m].stage = "created" /\ chats' = ChatOver(m, "unrun")
  <2>1. ChatButFor(chats', m) /\ chats'[m].stage = "over" /\ chats'[m].end = "unrun"
    BY <1>1, <1>5, ChatOverIs
  <2>2. ChatTypes'
    BY <1>1, <1>3, <2>1, ChatStays
  <2>3. QED  BY <1>1, <1>2, <1>3, <1>5, <2>1, <2>2, PartsNext
<1>6. CASE chats[m].stage = "created" /\ chats' = InStage(m, "running")
  <2>1. /\ ChatButFor(chats', m) /\ chats'[m].stage = "running"
        /\ chats'[m].end = chats[m].end /\ chats'[m].wire = chats[m].wire
    BY <1>1, <1>4, <1>6, InStageIs
  <2>2. ChatTypes'
    BY <1>1, <1>3, <2>1, ChatStays
  <2>3. QED  BY <1>1, <1>2, <1>3, <1>6, <2>1, <2>2, PartsNext
<1>7. CASE chats[m].stage = "running" /\ chats' = InStage(m, "loop")
  <2>1. /\ ChatButFor(chats', m) /\ chats'[m].stage = "loop"
        /\ chats'[m].end = chats[m].end /\ chats'[m].wire = chats[m].wire
    BY <1>1, <1>4, <1>7, InStageIs
  <2>2. ChatTypes'
    BY <1>1, <1>3, <2>1, ChatStays
  <2>3. QED  BY <1>1, <1>2, <1>3, <1>7, <2>1, <2>2, PartsNext
<1>8. QED  BY <1>5, <1>6, <1>7 DEF ChatStarts, ChatEntersLoop, InStage

\* A turn says something, and goes on or is over.
LEMMA ChatSaysIs ==
  ASSUME Base, NEW m \in Known, ChatProgress(m) \/ ChatAnswers(m) \/ ChatFails(m)
  PROVE  /\ TypeOK' /\ m \in MsgIds /\ Known' = Known
         /\ UNCHANGED <<tabs, subs, proc, queue, task, conn, pending>>
         /\ UNCHANGED <<early, heard, unanswered>>
         /\ \A q \in Known : msgs'[q].key = msgs[q].key
         /\ chats[m].stage \in {"running", "loop"}
         /\ \/ Told(m, "progress") /\ UNCHANGED <<chats, steerable>>
            \/ /\ Told(m, "answer") /\ ChatButFor(chats', m)
               /\ chats'[m].stage = "over" /\ chats'[m].end = "done"
            \/ /\ Told(m, "cancelled") \/ Told(m, "failed")
               /\ ChatButFor(chats', m)
               /\ chats'[m].stage = "over" /\ chats'[m].end = "broken"
<1>1. /\ HandlerTypes /\ MsgTypes /\ WireTypes /\ ChatTypes /\ PastTypes /\ m \in MsgIds
  BY Parts, KnownIs DEF Base
<1>2. /\ UNCHANGED <<tabs, subs, proc, queue, task, conn, pending>>
      /\ UNCHANGED <<early, heard, unanswered>> /\ chats[m].stage \in {"running", "loop"}
      /\ steerable' \subseteq steerable
  BY DEF ChatProgress, ChatAnswers, ChatFails, client, history, gateway
<1>3. PastTypes'
  BY <1>1, <1>2 DEF ChatProgress, ChatAnswers, ChatFails, history, PastTypes
<1>4. HandlerTypes' /\ steerable' \subseteq Keys
  BY <1>1, <1>2, HandlerStays DEF ChatTypes
<1>5. {"progress", "answer", "cancelled", "failed"} \subseteq Events
  BY DEF Events
<1>6. CASE ChatProgress(m)
  <2>1. Tells(m, "progress") /\ UNCHANGED <<chats, steerable>>
    BY <1>6 DEF ChatProgress, gateway
  <2>2. /\ MsgTypes' /\ WireTypes' /\ Known' = Known /\ Told(m, "progress")
        /\ \A q \in Known : msgs'[q].key = msgs[q].key
    BY <1>2, <1>5, <2>1, TellsIs
  <2>3. ChatTypes'
    BY <1>1, <2>1, ChatsStay
  <2>4. QED  BY <1>1, <1>2, <1>3, <1>4, <2>1, <2>2, <2>3, PartsNext
<1>7. CASE ChatAnswers(m)
  <2>1. Tells(m, "answer") /\ chats' = ChatOver(m, "done")
    BY <1>7 DEF ChatAnswers
  <2>2. /\ MsgTypes' /\ WireTypes' /\ Known' = Known /\ Told(m, "answer")
        /\ \A q \in Known : msgs'[q].key = msgs[q].key
    BY <1>2, <1>5, <2>1, TellsIs
  <2>3. ChatButFor(chats', m) /\ chats'[m].stage = "over" /\ chats'[m].end = "done"
    BY <1>1, <2>1, ChatOverIs
  <2>4. ChatTypes'
    BY <1>1, <1>4, <2>3, ChatStays
  <2>5. QED  BY <1>1, <1>2, <1>3, <1>4, <2>2, <2>3, <2>4, PartsNext
<1>8. CASE ChatFails(m)
  <2>1. /\ Tells(m, "cancelled") \/ Tells(m, "failed")
        /\ chats' = ChatOver(m, "broken")
    BY <1>8 DEF ChatFails
  <2>2. /\ MsgTypes' /\ WireTypes' /\ Known' = Known
        /\ Told(m, "cancelled") \/ Told(m, "failed")
        /\ \A q \in Known : msgs'[q].key = msgs[q].key
    BY <1>2, <1>5, <2>1, TellsIs
  <2>3. ChatButFor(chats', m) /\ chats'[m].stage = "over" /\ chats'[m].end = "broken"
    BY <1>1, <2>1, ChatOverIs
  <2>4. ChatTypes'
    BY <1>1, <1>4, <2>3, ChatStays
  <2>5. QED  BY <1>1, <1>2, <1>3, <1>4, <2>2, <2>3, <2>4, PartsNext
<1>9. QED  BY <1>6, <1>7, <1>8

\* Message m's frame goes down connection n, and nothing else does.
SaysOn(n, what, m) ==
  \A p \in DOMAIN wires :
    wires'[p].down = IF p = n /\ wires[p].open THEN Append(wires[p].down, <<what, m>>)
                                               ELSE wires[p].down

DownsStay == \A p \in DOMAIN wires : wires'[p].down = wires[p].down

LEMMA GatewayTakesIs ==
  ASSUME Base, NEW n \in DOMAIN wires, GatewayTakes(n)
  PROVE  LET frame == wires[n].up[1]
             m == frame[2]
         IN
         /\ TypeOK' /\ UNCHANGED <<tabs, subs, proc, queue, task, msgs, conn, pending>>
         /\ UNCHANGED <<steerable, used, early, unanswered>>
         /\ 1 \in DOMAIN wires[n].up /\ wires[n].up # <<>> /\ m \in MsgIds /\ SameWires
         /\ \A p \in DOMAIN wires :
              /\ wires'[p].open = wires[p].open
              /\ wires'[p].up = IF p = n THEN Tail(wires[n].up) ELSE wires[p].up
         /\ \/ /\ frame = <<"chat", m>> /\ DownsStay /\ UNCHANGED heard
               /\ ChatButFor(chats', m) /\ chats'[m].stage = "created"
               /\ chats'[m].end = chats[m].end /\ chats'[m].wire = n
            \/ frame = <<"chat", m>> /\ SaysOn(n, "failed", m) /\ UNCHANGED <<chats, heard>>
            \/ /\ frame = <<"steer", m>> /\ UNCHANGED chats
               /\ SaysOn(n, "injected", m) /\ heard' = heard \cup {m}
            \/ /\ frame = <<"steer", m>> /\ UNCHANGED chats
               /\ SaysOn(n, "refused", m) /\ heard' = heard
            \/ /\ frame = <<"cancel", m>> /\ SaysOn(n, "heeded", m) /\ UNCHANGED heard
               /\ ChatButFor(chats', m) /\ chats'[m].stage = chats[m].stage
               /\ chats'[m].end = chats[m].end /\ chats'[m].wire = chats[m].wire
<1> DEFINE frame == wires[n].up[1]
           what == frame[1]
           m == frame[2]
           rest == WithUp(wires, n, Tail(wires[n].up))
<1>1. /\ HandlerTypes /\ MsgTypes /\ WireTypes /\ ChatTypes /\ PastTypes /\ wires \in Seq(Wire)
  BY Parts DEF Base, WireTypes
<1>2. /\ UNCHANGED <<tabs, subs, proc, queue, task, msgs, conn, pending>>
      /\ UNCHANGED <<steerable, used, early, unanswered>> /\ wires[n].up # <<>>
  BY DEF GatewayTakes, handler, client
<1>3. /\ wires[n].up \in Seq(UpFrames) /\ Head(wires[n].up) = frame /\ 1 \in DOMAIN wires[n].up
      /\ frame \in UpFrames /\ Tail(wires[n].up) \in Seq(UpFrames)
  BY <1>1, <1>2, WireFields, TailIs
<1>4. m \in MsgIds /\ what \in ToGateway /\ frame = <<what, m>>
  <2> HIDE DEF frame
  <2>1. QED  BY <1>3 DEF UpFrames
<1>5. /\ WireButFor(wires, rest, n) /\ rest[n].open = wires[n].open
      /\ rest[n].up = Tail(wires[n].up) /\ rest[n].down = wires[n].down
  <2> DEFINE u == Tail(wires[n].up)
  <2>1. u \in Seq(UpFrames)
    BY <1>3
  <2> HIDE DEF u
  <2>2. QED  BY <1>1, <2>1, UpIs DEF u
<1>6. /\ rest \in Seq(Wire) /\ Len(rest) = Len(wires) /\ DOMAIN rest = DOMAIN wires
      /\ \A p \in DOMAIN wires :
           /\ rest[p].open = wires[p].open /\ rest[p].down = wires[p].down
           /\ rest[p].up = IF p = n THEN Tail(wires[n].up) ELSE wires[p].up
  <2> HIDE DEF rest
  <2>1. QED  BY <1>5 DEF WireButFor
<1>7. n \in 1 .. MaxConns /\ n \in Nat /\ Len(wires) \in Nat
  BY <1>1, WiresAre
<1>8. \/ what = "chat" /\ chats' = OnWire(m, n) /\ wires' = rest /\ UNCHANGED heard
      \/ what = "chat" /\ wires' = Said(rest, n, "failed", m) /\ UNCHANGED <<chats, heard>>
      \/ /\ what = "steer" /\ UNCHANGED chats /\ wires' = Said(rest, n, "injected", m)
         /\ heard' = heard \cup {m}
      \/ /\ what = "steer" /\ UNCHANGED chats /\ wires' = Said(rest, n, "refused", m)
         /\ heard' = heard
      \/ /\ what = "cancel" /\ wires' = Said(rest, n, "heeded", m) /\ UNCHANGED heard
         /\ chats' = chats \/ chats' = WithChatDoom(m)
  <2>1. Head(wires[n].up) = frame
    BY <1>3
  <2>2. QED  BY <2>1 DEF GatewayTakes, OnWire, WithChatDoom, WithUp
<1> HIDE DEF rest, frame, m, what
<1>9. ASSUME NEW reply \in ToClient, wires' = Said(rest, n, reply, m)
      PROVE  /\ SameWires /\ SaysOn(n, reply, m)
             /\ \A p \in DOMAIN wires :
                  /\ wires'[p].open = wires[p].open
                  /\ wires'[p].up = IF p = n THEN Tail(wires[n].up) ELSE wires[p].up
  <2> DEFINE x == Said(rest, n, reply, m)
  <2>1. /\ x \in Seq(Wire) /\ Len(x) = Len(rest) /\ DOMAIN x = DOMAIN rest
        /\ \A p \in DOMAIN rest :
             /\ x[p].open = rest[p].open /\ x[p].up = rest[p].up
             /\ x[p].down = IF p = n /\ rest[p].open THEN Append(rest[p].down, <<reply, m>>)
                            ELSE rest[p].down
    <3>1. rest \in Seq(Wire) /\ m \in MsgIds /\ n \in Nat
      BY <1>4, <1>6, <1>7
    <3>2. QED  BY ONLY <3>1, SaidIs, reply \in ToClient
  <2>2. wires' = x
    BY <1>9
  <2> HIDE DEF x
  <2>3. QED  BY <1>6, <2>1, <2>2 DEF SameWires, SaysOn
<1>10. {"failed", "injected", "refused", "heeded"} \subseteq ToClient
  BY DEF ToClient, Events
<1>11. /\ SameWires
       /\ \A p \in DOMAIN wires :
            /\ wires'[p].open = wires[p].open
            /\ wires'[p].up = IF p = n THEN Tail(wires[n].up) ELSE wires[p].up
  <2>1. CASE wires' = rest
    BY <1>6, <2>1 DEF SameWires
  <2>2. QED  BY <1>8, <1>9, <1>10, <2>1
<1>12. \/ /\ frame = <<"chat", m>> /\ DownsStay /\ UNCHANGED heard
          /\ ChatButFor(chats', m) /\ chats'[m].stage = "created"
          /\ chats'[m].end = chats[m].end /\ chats'[m].wire = n
       \/ frame = <<"chat", m>> /\ SaysOn(n, "failed", m) /\ UNCHANGED <<chats, heard>>
       \/ /\ frame = <<"steer", m>> /\ UNCHANGED chats
          /\ SaysOn(n, "injected", m) /\ heard' = heard \cup {m}
       \/ /\ frame = <<"steer", m>> /\ UNCHANGED chats
          /\ SaysOn(n, "refused", m) /\ heard' = heard
       \/ /\ frame = <<"cancel", m>> /\ SaysOn(n, "heeded", m) /\ UNCHANGED heard
          /\ ChatButFor(chats', m) /\ chats'[m].stage = chats[m].stage
          /\ chats'[m].end = chats[m].end /\ chats'[m].wire = chats[m].wire
  <2>1. CASE what = "chat" /\ chats' = OnWire(m, n) /\ wires' = rest /\ UNCHANGED heard
    <3>1. /\ ChatButFor(chats', m) /\ chats'[m].stage = "created"
          /\ chats'[m].end = chats[m].end /\ chats'[m].wire = n
      BY <1>1, <1>4, <1>7, <2>1, OnWireIs
    <3>2. DownsStay
      BY <1>6, <2>1 DEF DownsStay
    <3>3. QED  BY <1>4, <2>1, <3>1, <3>2
  <2>2. CASE what = "chat" /\ wires' = Said(rest, n, "failed", m) /\ UNCHANGED <<chats, heard>>
    BY <1>4, <1>9, <1>10, <2>2
  <2>3. CASE /\ what = "steer" /\ UNCHANGED chats /\ wires' = Said(rest, n, "injected", m)
             /\ heard' = heard \cup {m}
    BY <1>4, <1>9, <1>10, <2>3
  <2>4. CASE /\ what = "steer" /\ UNCHANGED chats /\ wires' = Said(rest, n, "refused", m)
             /\ heard' = heard
    BY <1>4, <1>9, <1>10, <2>4
  <2>5. CASE /\ what = "cancel" /\ wires' = Said(rest, n, "heeded", m) /\ UNCHANGED heard
             /\ chats' = chats \/ chats' = WithChatDoom(m)
    <3>1. /\ ChatButFor(chats', m) /\ chats'[m].stage = chats[m].stage
          /\ chats'[m].end = chats[m].end /\ chats'[m].wire = chats[m].wire
      <4>1. CASE chats' = chats
        BY <1>1, <4>1 DEF ChatButFor, ChatTypes
      <4>2. CASE chats' = WithChatDoom(m)
        BY <1>1, <1>4, <4>2, ChatDoomIs
      <4>3. QED  BY <2>5, <4>1, <4>2
    <3>2. QED  BY <1>4, <1>9, <1>10, <2>5, <3>1
  <2>6. QED  BY <1>8, <2>1, <2>2, <2>3, <2>4, <2>5
<1>13. HandlerTypes' /\ MsgTypes'
  BY <1>1, <1>2, HandlerStays, MsgsStay
<1>14. WireTypes' /\ ChatTypes' /\ PastTypes'
  BY <1>1, <1>2, <1>4, <1>11, <1>12 DEF WireTypes, ChatTypes, PastTypes, SameWires, ChatButFor
<1>15. TypeOK'
  BY <1>13, <1>14, PartsNext
<1>16. QED  BY <1>2, <1>3, <1>4, <1>11, <1>12, <1>15 DEF frame, m

LEMMA BreakIs ==
  ASSUME Base, Break
  PROVE  /\ TypeOK' /\ Untold /\ UNCHANGED <<tabs, subs, proc, queue, task, msgs, conn, pending>>
         /\ SameWires /\ DownsStay
         /\ \E n \in DOMAIN wires : \E i \in 0 .. Len(wires[n].up) :
              /\ ~wires'[n].open /\ wires'[n].up = SubSeq(wires[n].up, 1, i)
              /\ \A p \in DOMAIN wires : p # n =>
                   wires'[p].open = wires[p].open /\ wires'[p].up = wires[p].up
<1>1. /\ HandlerTypes /\ MsgTypes /\ WireTypes /\ ChatTypes /\ PastTypes /\ wires \in Seq(Wire)
  BY Parts DEF Base, WireTypes
<1>2. Untold /\ UNCHANGED <<tabs, subs, proc, queue, task, msgs, conn, pending>>
  BY DEF Break, handler, client, gateway, history, Untold
<1>3. PICK n \in DOMAIN wires : \E i \in 0 .. Len(wires[n].up) :
        wires' = Closed(wires, n, SubSeq(wires[n].up, 1, i))
  BY DEF Break, Closed
<1>4. PICK i \in 0 .. Len(wires[n].up) : wires' = Closed(wires, n, SubSeq(wires[n].up, 1, i))
  BY <1>3
<1> DEFINE u == SubSeq(wires[n].up, 1, i)
<1>5. u \in Seq(UpFrames)
  BY <1>1, WireFields, PrefixIs
<1>6. wires' = Closed(wires, n, u)
  BY <1>4
<1> HIDE DEF u
<1>7. /\ WireButFor(wires, wires', n) /\ wires'[n].open = FALSE
      /\ wires'[n].up = u /\ wires'[n].down = wires[n].down
  BY <1>1, <1>5, <1>6, ClosedIs
<1>8. SameWires /\ DownsStay
  BY <1>7 DEF WireButFor, SameWires, DownsStay
<1>9. WireTypes'
  BY <1>1, <1>2, <1>8 DEF WireTypes, SameWires
<1>10. HandlerTypes' /\ MsgTypes' /\ ChatTypes' /\ PastTypes'
  BY <1>1, <1>2, HandlerStays, MsgsStay, ChatsStay, PastStays DEF Untold
<1>11. \A p \in DOMAIN wires : p # n => wires'[p].open = wires[p].open /\ wires'[p].up = wires[p].up
  BY <1>7 DEF WireButFor
<1>12. QED  BY <1>2, <1>7, <1>8, <1>9, <1>10, <1>11, PartsNext DEF u

LEMMA RestartIs ==
  ASSUME Base, GatewayRestarts
  PROVE  /\ TypeOK' /\ UNCHANGED <<tabs, subs, proc, queue, task, conn, pending>>
         /\ UNCHANGED <<used, early, heard, unanswered>>
         /\ SameWires /\ DownsStay
         /\ \A p \in DOMAIN wires : ~wires'[p].open /\ wires'[p].up = <<>>
         /\ Known' = Known
         /\ \A q \in Known :
              /\ msgs'[q].key = msgs[q].key /\ msgs'[q].stage = msgs[q].stage
              /\ msgs'[q].end = msgs[q].end /\ msgs'[q].doomed = msgs[q].doomed
              /\ \A e : Contains(msgs'[q].items, e) => Contains(msgs[q].items, e) \/ e = "lost"
              /\ msgs[q].stage # "http" => msgs'[q].items = msgs[q].items
         /\ \A m \in MsgIds :
              IF chats[m].stage \in {"created", "running", "loop"}
              THEN /\ chats'[m].stage = "over"
                   /\ chats'[m].end = IF chats[m].stage = "created" THEN "unrun" ELSE "broken"
              ELSE chats'[m] = chats[m]
<1>1. /\ HandlerTypes /\ MsgTypes /\ WireTypes /\ ChatTypes /\ PastTypes
      /\ wires \in Seq(Wire) /\ msgs \in Seq(Msg)
  BY Parts DEF Base, WireTypes, MsgTypes
<1>2. /\ UNCHANGED <<tabs, subs, proc, queue, task, conn, pending>>
      /\ UNCHANGED <<used, early, heard, unanswered>> /\ steerable' = {}
      /\ wires' = [n \in DOMAIN wires |-> [wires[n] EXCEPT !.open = FALSE, !.up = <<>>]]
  BY DEF GatewayRestarts, client, history
<1>3. DOMAIN wires = 1 .. Len(wires) /\ Len(wires) \in Nat
  BY <1>1, WiresAre
<1> DEFINE shut(n) == [wires[n] EXCEPT !.open = FALSE, !.up = <<>>]
<1>4. ASSUME NEW n \in DOMAIN wires
      PROVE  /\ shut(n) \in Wire /\ shut(n).open = FALSE /\ shut(n).up = <<>>
             /\ shut(n).down = wires[n].down
  <2>1. wires[n] \in Wire /\ <<>> \in Seq(UpFrames)
    BY <1>1, WireFields, EmptyIs
  <2>2. QED  BY <2>1, ClosedSet
<1>5. wires' = [n \in 1 .. Len(wires) |-> shut(n)]
  BY <1>2, <1>3
<1> HIDE DEF shut
<1>6. wires' \in [1 .. Len(wires) -> Wire] /\ \A n \in DOMAIN wires : wires'[n] = shut(n)
  BY <1>3, <1>4, <1>5
<1>7. SameWires
  BY <1>3, <1>6, FunctionIsSeq, SeqIsFunction DEF SameWires
<1>8. DownsStay /\ \A p \in DOMAIN wires : ~wires'[p].open /\ wires'[p].up = <<>>
  BY <1>4, <1>6 DEF DownsStay
<1>9. WireTypes'
  BY <1>1, <1>2, <1>7 DEF WireTypes, SameWires
<1>10. ASSUME NEW m \in MsgIds
       PROVE  /\ chats'[m] \in Chat
              /\ IF chats[m].stage \in {"created", "running", "loop"}
                 THEN /\ chats'[m].stage = "over"
                      /\ chats'[m].end = IF chats[m].stage = "created" THEN "unrun" ELSE "broken"
                 ELSE chats'[m] = chats[m]
  <2>1. chats'[m] = CASE chats[m].stage = "created" -> ChatOver(m, "unrun")[m]
                      [] chats[m].stage \in {"running", "loop"} -> ChatOver(m, "broken")[m]
                      [] OTHER -> chats[m]
    BY DEF GatewayRestarts
  <2>2. ASSUME NEW end \in {"done", "broken", "unrun"}
        PROVE  /\ ChatOver(m, end)[m] \in Chat /\ ChatOver(m, end)[m].stage = "over"
               /\ ChatOver(m, end)[m].end = end
    BY <1>1, ChatOverIs DEF ChatButFor
  <2>3. CASE chats[m].stage = "created"
    <3>1. chats'[m] = ChatOver(m, "unrun")[m]
      BY <2>1, <2>3
    <3>2. QED  BY <2>2, <2>3, <3>1
  <2>4. CASE chats[m].stage \in {"running", "loop"}
    <3>1. chats'[m] = ChatOver(m, "broken")[m]
      BY <2>1, <2>4
    <3>2. QED  BY <2>2, <2>4, <3>1
  <2>5. CASE chats[m].stage \notin {"created", "running", "loop"}
    <3>1. chats'[m] = chats[m]
      BY <2>1, <2>5
    <3>2. QED  BY <1>1, <2>5, <3>1, ChatFields
  <2>6. QED  BY <2>3, <2>4, <2>5
<1>11. ChatTypes'
  <2>1. chats' = [m \in MsgIds |-> chats'[m]]
    BY DEF GatewayRestarts
  <2>2. QED  BY <1>2, <1>10, <2>1 DEF ChatTypes
<1>12. Known = 1 .. Len(msgs) /\ Len(msgs) \in Nat /\ Known = DOMAIN msgs
  BY <1>1, KnownIs DEF Known
<1> DEFINE ends(q) == msgs[q].stage = "http" /\ chats[q].stage \in {"running", "loop"}
           more(q) == Append(msgs[q].items, "lost")
           new(q)  == [msgs[q] EXCEPT !.items = more(q)]
<1>13. /\ DOMAIN msgs' = Known /\ msgs' = [q \in Known |-> msgs'[q]]
       /\ \A q \in Known : msgs'[q] = IF ends(q) THEN new(q) ELSE msgs[q]
  <2>1. msgs' = [m \in Known |->
                IF msgs[m].stage = "http" /\ chats[m].stage \in {"running", "loop"}
                THEN [msgs[m] EXCEPT !.items = Append(@, "lost")] ELSE msgs[m]]
    BY DEF GatewayRestarts
  <2>2. QED  BY <2>1
<1>14. ASSUME NEW q \in Known
       PROVE  /\ new(q) \in Msg /\ new(q).key = msgs[q].key /\ new(q).stage = msgs[q].stage
              /\ new(q).end = msgs[q].end /\ new(q).items = more(q)
              /\ new(q).doomed = msgs[q].doomed /\ msgs[q] \in Msg
              /\ \A e : Contains(more(q), e) => Contains(msgs[q].items, e) \/ e = "lost"
  <2>1. msgs[q] \in Msg /\ msgs[q].items \in Seq(Events) /\ "lost" \in Events
    BY <1>1, <1>12, FieldsOf DEF Events
  <2>2. /\ more(q) \in Seq(Events)
        /\ \A e : Contains(more(q), e) => Contains(msgs[q].items, e) \/ e = "lost"
    BY <2>1, ItemsAppended
  <2> HIDE DEF more
  <2>3. QED  BY <2>1, <2>2, ItemsSet
<1> HIDE DEF new
<1>15. ASSUME NEW q \in Known
       PROVE  /\ msgs'[q] \in Msg
              /\ msgs'[q].key = msgs[q].key /\ msgs'[q].stage = msgs[q].stage
              /\ msgs'[q].end = msgs[q].end /\ msgs'[q].doomed = msgs[q].doomed
              /\ \A e : Contains(msgs'[q].items, e) => Contains(msgs[q].items, e) \/ e = "lost"
              /\ msgs[q].stage # "http" => msgs'[q].items = msgs[q].items
  <2>1. CASE ends(q)
    <3> HIDE DEF more
    <3>1. msgs'[q] = new(q) /\ msgs[q].stage = "http"
      BY <1>13, <2>1
    <3>2. QED  BY <1>14, <3>1
  <2>2. CASE ~ends(q)
    <3>1. msgs'[q] = msgs[q]
      BY <1>13, <2>2
    <3>2. QED  BY <1>14, <3>1
  <2>3. QED  BY <2>1, <2>2
<1>16. msgs' \in Seq(Msg) /\ Len(msgs') = Len(msgs)
  <2>1. msgs' \in [1 .. Len(msgs) -> Msg]
    BY <1>12, <1>13, <1>15
  <2>2. QED  BY <1>12, <2>1, FunctionIsSeq
<1>17. Known' = Known
  BY <1>13 DEF Known
<1>18. MsgTypes'
  <2>1. ASSUME NEW q \in Known
        PROVE  \/ msgs'[q].items = <<>>
               \/ msgs'[q].stage = "http"
               \/ msgs'[q].stage = "stream" /\ Len(msgs'[q].items) <= QueueMax
    BY <1>1, <1>15 DEF MsgTypes
  <2>2. QED  BY <1>1, <1>16, <1>17, <2>1 DEF MsgTypes
<1>19. HandlerTypes' /\ PastTypes'
  BY <1>1, <1>2, HandlerStays, PastStays
<1>20. QED  BY <1>2, <1>7, <1>8, <1>9, <1>10, <1>11, <1>15, <1>17, <1>18, <1>19, PartsNext

\* What the client makes of the frame that arrived: an item of a stream, the
\* answer that a tab waits for, or nothing.
LEMMA ReceiveIs ==
  ASSUME Base, Receive
  PROVE  LET frame == wires[conn].down[1]
             what == frame[1]
             m == frame[2]
         IN
         /\ TypeOK' /\ UNCHANGED <<subs, proc, task, conn, chats, steerable>>
         /\ UNCHANGED <<used, early, heard, unanswered>>
         /\ conn \in DOMAIN wires /\ conn # 0 /\ wires[conn].down # <<>>
         /\ wires[conn].down \in Seq(DownFrames)
         /\ frame = <<what, m>> /\ m \in MsgIds /\ 1 \in DOMAIN wires[conn].down
         /\ SameWires /\ Known' = Known
         /\ \A p \in DOMAIN wires :
              /\ wires'[p].open = wires[p].open /\ wires'[p].up = wires[p].up
              /\ wires'[p].down = IF p = conn THEN Tail(wires[conn].down) ELSE wires[p].down
         /\ \/ /\ what \in Events /\ m \in Known /\ Registered(m) /\ Only(m)
               /\ msgs'[m].stage = "stream" /\ msgs'[m].end = msgs[m].end
               /\ msgs'[m].doomed = msgs[m].doomed /\ msgs'[m].items = Put(msgs[m].items, what)
               /\ UNCHANGED <<tabs, queue, pending>>
            \/ /\ what \in {"injected", "refused"} /\ <<"steer", m>> \in pending
               /\ pending' = pending \ {<<"steer", m>>}
               /\ \E t \in Tabs :
                    /\ tabs[t].at \in {"steer", "orphan"} /\ tabs[t].msg = m
                    /\ tabs'[t].at = "idle" /\ tabs'[t].key = tabs[t].key
                    /\ \A u \in Tabs : u # t => tabs'[u] = tabs[u]
                    /\ m \in Known /\ msgs[m].stage = "held"
                    /\ \/ /\ what = "injected" /\ Only(m) /\ UNCHANGED queue
                          /\ msgs'[m].stage = "over" /\ msgs'[m].end = "steered"
                          /\ msgs'[m].items = <<>> /\ ~msgs'[m].doomed
                       \/ what = "refused" /\ PutInQueue(t, m)
            \/ /\ what = "heeded" /\ UNCHANGED <<msgs, queue>>
               /\ pending' = pending \ {<<"cancel", m>>}
               /\ \E t \in Tabs :
                    /\ tabs[t].at = "cancel" /\ tabs'[t].at = "idle"
                    /\ tabs'[t].key = tabs[t].key
                    /\ \A u \in Tabs : u # t => tabs'[u] = tabs[u]
            \/ /\ UNCHANGED <<tabs, msgs, queue, pending>>
               /\ what \in Events /\ m \in Known => ~Registered(m)
               /\ what \in {"injected", "refused"} => <<"steer", m>> \notin pending
               /\ what = "heeded" => <<"cancel", m>> \notin pending
<1> DEFINE frame == wires[conn].down[1]
           what == frame[1]
           m == frame[2]
<1>1. /\ HandlerTypes /\ MsgTypes /\ WireTypes /\ ChatTypes /\ PastTypes
      /\ wires \in Seq(Wire) /\ msgs \in Seq(Msg)
  BY Parts DEF Base, WireTypes, MsgTypes
<1>2. /\ UNCHANGED <<subs, proc, task, conn, chats, steerable>>
      /\ UNCHANGED <<used, early, heard, unanswered>>
      /\ conn # 0 /\ wires[conn].down # <<>>
      /\ wires' = WithDown(wires, conn, Tail(wires[conn].down))
  BY DEF Receive, gateway, history, WithDown
<1>3. conn \in DOMAIN wires
  BY <1>1, <1>2, WiresAre
<1>4. /\ wires[conn].down \in Seq(DownFrames) /\ Head(wires[conn].down) = frame
      /\ 1 \in DOMAIN wires[conn].down
      /\ frame \in DownFrames /\ Tail(wires[conn].down) \in Seq(DownFrames)
  BY <1>1, <1>2, <1>3, WireFields, TailIs
<1>5. m \in MsgIds /\ what \in ToClient /\ frame = <<what, m>>
  <2> HIDE DEF frame
  <2>1. QED  BY <1>4 DEF DownFrames
<1>6. /\ SameWires
      /\ \A p \in DOMAIN wires :
           /\ wires'[p].open = wires[p].open /\ wires'[p].up = wires[p].up
           /\ wires'[p].down = IF p = conn THEN Tail(wires[conn].down) ELSE wires[p].down
  <2> DEFINE d == Tail(wires[conn].down)
  <2>1. d \in Seq(DownFrames) /\ wires' = WithDown(wires, conn, d)
    BY <1>2, <1>4
  <2> HIDE DEF d
  <2>2. /\ WireButFor(wires, wires', conn) /\ wires'[conn].open = wires[conn].open
        /\ wires'[conn].up = wires[conn].up /\ wires'[conn].down = d
    BY <1>1, <1>3, <2>1, DownIs
  <2>3. QED  BY <2>2 DEF WireButFor, SameWires, d
<1>7. \/ what \in Events /\ Registered(m) /\ Deliver(m, what) /\ UNCHANGED <<tabs, queue, pending>>
      \/ /\ what \in {"injected", "refused"} /\ <<"steer", m>> \in pending
         /\ pending' = pending \ {<<"steer", m>>}
         /\ \E t \in Tabs :
              /\ tabs[t].at \in {"steer", "orphan"} /\ tabs[t].msg = m
              /\ tabs' = Idle(t)
              /\ SteerAnswered(t, m, what = "injected")
      \/ /\ what = "heeded" /\ <<"cancel", m>> \in pending
         /\ pending' = pending \ {<<"cancel", m>>}
         /\ \E t \in Tabs : tabs[t].at = "cancel" /\ tabs[t].msg = m /\ tabs' = Idle(t)
         /\ UNCHANGED <<msgs, queue>>
      \/ /\ what \in Events => ~Registered(m)
         /\ what \in {"injected", "refused"} => <<"steer", m>> \notin pending
         /\ what = "heeded" => <<"cancel", m>> \notin pending
         /\ UNCHANGED <<tabs, msgs, queue, pending>>
  <2>1. Head(wires[conn].down) = frame
    BY <1>4
  <2>2. QED  BY <2>1 DEF Receive
<1> HIDE DEF frame, m, what
<1>8. ChatTypes' /\ PastTypes'
  BY <1>1, <1>2, ChatsStay, PastStays
<1>9. pending' \subseteq Requests => WireTypes'
  BY <1>1, <1>2, <1>6 DEF WireTypes, SameWires
<1>10. Known = DOMAIN msgs
  BY DEF Known
<1>11. CASE /\ what \in Events /\ m \in Known /\ Registered(m) /\ Deliver(m, what)
            /\ UNCHANGED <<tabs, queue, pending>>
  <2> DEFINE items == Put(msgs[m].items, what)
  <2>1. msgs' = WithItems(msgs, m, items)
    BY <1>11 DEF Deliver, WithItems
  <2>2. msgs[m].items \in Seq(Events)
    BY <1>1, <1>10, <1>11, FieldsOf
  <2>3. items \in Seq(Events) /\ (Len(msgs[m].items) <= QueueMax => Len(items) <= QueueMax)
    BY <1>11, <2>2, PutIs
  <2>4. msgs[m].stage = "stream" /\ Len(msgs[m].items) <= QueueMax
    BY <1>1, <1>11, Bounds, EmptyIs DEF Registered, MsgTypes
  <2> HIDE DEF items
  <2>5. /\ Only(m) /\ msgs'[m].stage = msgs[m].stage /\ msgs'[m].end = msgs[m].end
        /\ msgs'[m].items = items /\ msgs'[m].doomed = msgs[m].doomed
    BY <1>1, <1>10, <1>11, <2>1, <2>3, Itemed DEF Only
  <2>6. MsgTypes' /\ Known' = Known
    BY <1>1, <1>11, <2>3, <2>4, <2>5, OneMsg
  <2>7. TypeOK'
    <3>1. HandlerTypes' /\ WireTypes'
      BY <1>1, <1>2, <1>9, <1>11, HandlerStays DEF WireTypes
    <3>2. QED  BY <1>8, <2>6, <3>1, PartsNext
  <2>8. QED
    BY <1>2, <1>3, <1>4, <1>5, <1>6, <1>11, <2>4, <2>5, <2>6, <2>7 DEF frame, m, what, items
<1>12. CASE /\ what \in {"injected", "refused"} /\ <<"steer", m>> \in pending
            /\ pending' = pending \ {<<"steer", m>>}
            /\ \E t \in Tabs :
                 /\ tabs[t].at \in {"steer", "orphan"} /\ tabs[t].msg = m
                 /\ tabs' = Idle(t)
                 /\ SteerAnswered(t, m, what = "injected")
  <2>1. PICK t \in Tabs :
          /\ tabs[t].at \in {"steer", "orphan"} /\ tabs[t].msg = m
          /\ tabs' = Idle(t)
          /\ SteerAnswered(t, m, what = "injected")
    BY <1>12
  <2>2. m \in Known /\ msgs[m].stage = "held"
    BY <2>1, HeldIs DEF Waits
  <2>3. /\ tabs' \in [Tabs -> Tab] /\ tabs'[t].key = tabs[t].key /\ tabs'[t].at = "idle"
        /\ \A u \in Tabs : u # t => tabs'[u] = tabs[u]
    BY <1>1, <2>1, IdleIs
  <2>4. /\ MsgTypes' /\ Known' = Known /\ queue' \in [Keys -> Seq(MsgIds)]
        /\ \/ /\ what = "injected" /\ Only(m) /\ UNCHANGED queue
              /\ msgs'[m].stage = "over" /\ msgs'[m].end = "steered" /\ msgs'[m].items = <<>>
              /\ ~msgs'[m].doomed
           \/ what = "refused" /\ PutInQueue(t, m)
    <3>1. CASE what = "injected" /\ msgs' = Ended(m, "steered") /\ queue' = queue
      <4>1. "steered" \in EndsOf
        BY DEF EndsOf
      <4>2. /\ Only(m) /\ msgs'[m].stage = "over" /\ msgs'[m].end = "steered"
            /\ msgs'[m].items = <<>> /\ ~msgs'[m].doomed
        BY <1>1, <2>2, <3>1, <4>1, EndedIs DEF Only
      <4>3. MsgTypes' /\ Known' = Known
        BY <1>1, <2>2, <4>2, OneMsg
      <4>4. QED  BY <1>1, <3>1, <4>2, <4>3 DEF HandlerTypes
    <3>2. CASE what = "refused" /\ PutInQueue(t, m)
      <4>1. MsgTypes' /\ queue' \in [Keys -> Seq(MsgIds)] /\ Only(m)
        BY <2>1, <3>2, Queues
      <4>2. QED  BY <3>2, <4>1 DEF Only, ButFor, Known
    <3>3. QED  BY <1>12, <2>1, <3>1, <3>2 DEF SteerAnswered
  <2>5. HandlerTypes' /\ WireTypes'
    BY <1>1, <1>2, <1>9, <1>12, <2>3, <2>4 DEF HandlerTypes, WireTypes
  <2>6. TypeOK'
    BY <1>8, <2>4, <2>5, PartsNext
  <2>7. QED
    BY <1>2, <1>3, <1>4, <1>5, <1>6, <1>12, <2>1, <2>2, <2>3, <2>4, <2>6 DEF frame, m, what
<1>13. CASE /\ what = "heeded" /\ pending' = pending \ {<<"cancel", m>>}
            /\ \E t \in Tabs : tabs[t].at = "cancel" /\ tabs[t].msg = m /\ tabs' = Idle(t)
            /\ UNCHANGED <<msgs, queue>>
  <2>1. PICK t \in Tabs : tabs[t].at = "cancel" /\ tabs[t].msg = m /\ tabs' = Idle(t)
    BY <1>13
  <2>2. /\ tabs' \in [Tabs -> Tab] /\ tabs'[t].key = tabs[t].key /\ tabs'[t].at = "idle"
        /\ \A u \in Tabs : u # t => tabs'[u] = tabs[u]
    BY <1>1, <2>1, IdleIs
  <2>3. HandlerTypes' /\ WireTypes'
    BY <1>1, <1>2, <1>9, <1>13, <2>2 DEF HandlerTypes, WireTypes
  <2>4. MsgTypes' /\ Known' = Known
    BY <1>1, <1>13, MsgsStay DEF Known
  <2>5. TypeOK'
    BY <1>8, <2>3, <2>4, PartsNext
  <2>6. QED
    BY <1>2, <1>3, <1>4, <1>5, <1>6, <1>13, <2>1, <2>2, <2>4, <2>5 DEF frame, m, what
<1>14. CASE /\ UNCHANGED <<tabs, msgs, queue, pending>>
            /\ what \in Events /\ m \in Known => ~Registered(m)
            /\ what \in {"injected", "refused"} => <<"steer", m>> \notin pending
            /\ what = "heeded" => <<"cancel", m>> \notin pending
  <2>1. HandlerTypes' /\ WireTypes' /\ MsgTypes' /\ Known' = Known
    BY <1>1, <1>2, <1>9, <1>14, HandlerStays, MsgsStay DEF WireTypes, Known
  <2>2. TypeOK'
    BY <1>8, <2>1, PartsNext
  <2>3. QED  BY <1>2, <1>3, <1>4, <1>5, <1>6, <1>14, <2>1, <2>2 DEF frame, m, what
<1>15. CASE /\ what \in Events /\ m \notin Known /\ Deliver(m, what)
            /\ UNCHANGED <<tabs, queue, pending>>
  <2>1. msgs \in [1 .. Len(msgs) -> Msg] /\ DOMAIN msgs = 1 .. Len(msgs)
    BY <1>1, SeqIsFunction
  <2>2. msgs' = msgs
    BY <1>10, <1>15, <2>1 DEF Deliver
  <2>3. what \notin {"injected", "refused", "heeded"}
    BY <1>15 DEF Events
  <2>4. QED  BY <1>14, <1>15, <2>2, <2>3
<1>16. QED  BY <1>7, <1>11, <1>12, <1>13, <1>14, <1>15

-----------------------------------------------------------------------------
(* Every message is in one place.                                          *)

\* No message moves between the tabs, the queues and the jobs.
MsgsKeep ==
  /\ Known \subseteq Known'
  /\ \A q \in Known :
       /\ msgs'[q].key = msgs[q].key
       /\ msgs[q].stage \in {"held", "queued"} => msgs'[q].stage = msgs[q].stage
TabsKeep ==
  \A t \in Tabs : Waits(t)' =>
    Waits(t) /\ tabs'[t].msg = tabs[t].msg /\ tabs'[t].key = tabs[t].key

LEMMA PlacesStay == ASSUME Base, MsgsKeep, TabsKeep, UNCHANGED <<queue, task>> PROVE Places'
<1>1. ASSUME NEW t \in Tabs, Waits(t)'
      PROVE  /\ tabs'[t].msg \in Known'
             /\ msgs'[tabs'[t].msg].stage = "held" /\ msgs'[tabs'[t].msg].key = tabs'[t].key
  BY <1>1 DEF Base, Places, MsgsKeep, TabsKeep
<1>2. \A t, u \in Tabs : Waits(t)' /\ Waits(u)' /\ tabs'[t].msg = tabs'[u].msg => t = u
  BY DEF Base, Places, TabsKeep
<1>3. ASSUME NEW k \in Keys, NEW i \in DOMAIN queue'[k]
      PROVE  /\ queue'[k][i] \in Known'
             /\ msgs'[queue'[k][i]].stage = "queued" /\ msgs'[queue'[k][i]].key = k
  BY DEF Base, Places, MsgsKeep
<1>4. \A k \in Keys : \A i, j \in DOMAIN queue'[k] : queue'[k][i] = queue'[k][j] => i = j
  BY DEF Base, Places
<1>5. \A k \in Keys : task'[k] # NoMsg => task'[k] \in Known'
  BY DEF Base, Places, MsgsKeep
<1>6. QED  BY <1>1, <1>2, <1>3, <1>4, <1>5 DEF Places

\* The message that a handler holds, or that is new, joins its session's queue.
LEMMA PlacesQueued ==
  ASSUME Base, NEW m \in MsgIds, NEW k \in Keys,
         \A j \in Keys : \A i \in DOMAIN queue[j] : queue[j][i] # m,
         queue' = [queue EXCEPT ![k] = Append(@, m)], UNCHANGED task,
         Known' = Known \cup {m}, msgs'[m].key = k, msgs'[m].stage = "queued",
         \A q \in Known : q # m => msgs'[q] = msgs[q],
         \A t \in Tabs : Waits(t)' =>
            Waits(t) /\ tabs'[t] = tabs[t] /\ tabs[t].msg # m
  PROVE  Places'
<1>1. HandlerTypes
  BY Parts DEF Base
<1>2. /\ queue'[k] = Append(queue[k], m) /\ \A j \in Keys : j # k => queue'[j] = queue[j]
  BY <1>1 DEF HandlerTypes
<1>3. queue[k] \in Seq(MsgIds)
  BY <1>1 DEF HandlerTypes
<1>4. /\ DOMAIN queue'[k] = DOMAIN queue[k] \cup {Len(queue[k]) + 1}
      /\ queue'[k][Len(queue[k]) + 1] = m
      /\ \A i \in DOMAIN queue[k] : queue'[k][i] = queue[k][i]
  BY <1>2, <1>3, AppendIs
<1>5. ASSUME NEW t \in Tabs, Waits(t)'
      PROVE  /\ tabs'[t].msg \in Known'
             /\ msgs'[tabs'[t].msg].stage = "held" /\ msgs'[tabs'[t].msg].key = tabs'[t].key
  BY <1>5 DEF Base, Places
<1>6. \A t, u \in Tabs : Waits(t)' /\ Waits(u)' /\ tabs'[t].msg = tabs'[u].msg => t = u
  BY DEF Base, Places
<1>7. ASSUME NEW j \in Keys, NEW i \in DOMAIN queue'[j]
      PROVE  /\ queue'[j][i] \in Known'
             /\ msgs'[queue'[j][i]].stage = "queued" /\ msgs'[queue'[j][i]].key = j
  <2>1. CASE j = k /\ i = Len(queue[k]) + 1
    BY <1>4, <2>1
  <2>2. CASE i \in DOMAIN queue[j] /\ queue'[j][i] = queue[j][i]
    BY <2>2 DEF Base, Places
  <2>3. QED  BY <1>2, <1>4, <2>1, <2>2
<1>8. ASSUME NEW j \in Keys, NEW a \in DOMAIN queue'[j], NEW b \in DOMAIN queue'[j],
             queue'[j][a] = queue'[j][b]
      PROVE  a = b
  <2>1. CASE j # k
    BY <1>2, <1>8, <2>1 DEF Base, Places
  <2>2. CASE j = k
    BY <1>4, <1>8, <2>2 DEF Base, Places
  <2>3. QED  BY <2>1, <2>2
<1>9. \A j \in Keys : task'[j] # NoMsg => task'[j] \in Known'
  BY DEF Base, Places
<1>10. QED  BY <1>5, <1>6, <1>7, <1>8, <1>9 DEF Places

\* A handler is done with its message.
LEMMA PlacesLeave ==
  ASSUME Base, NEW t \in Tabs, Waits(t), NEW m, m = tabs[t].msg, UNCHANGED queue,
         Known' = Known, \A q \in Known : q # m => msgs'[q] = msgs[q],
         \A u \in Tabs : Waits(u)' => u # t /\ tabs'[u] = tabs[u],
         \A k \in Keys : task'[k] \in {task[k], m}
  PROVE  Places'
<1>1. m \in Known /\ msgs[m].stage = "held"
  BY HeldIs
<1>2. ASSUME NEW u \in Tabs, Waits(u)' PROVE Waits(u) /\ tabs[u].msg # m
  BY <1>2 DEF Waits, Base, Places
<1>3. ASSUME NEW u \in Tabs, Waits(u)'
      PROVE  /\ tabs'[u].msg \in Known'
             /\ msgs'[tabs'[u].msg].stage = "held" /\ msgs'[tabs'[u].msg].key = tabs'[u].key
  BY <1>2, <1>3 DEF Base, Places
<1>4. \A u, v \in Tabs : Waits(u)' /\ Waits(v)' /\ tabs'[u].msg = tabs'[v].msg => u = v
  BY <1>2 DEF Base, Places
<1>5. ASSUME NEW k \in Keys, NEW i \in DOMAIN queue'[k]
      PROVE  /\ queue'[k][i] \in Known'
             /\ msgs'[queue'[k][i]].stage = "queued" /\ msgs'[queue'[k][i]].key = k
  BY <1>1 DEF Base, Places
<1>6. \A k \in Keys : \A i, j \in DOMAIN queue'[k] : queue'[k][i] = queue'[k][j] => i = j
  BY DEF Base, Places
<1>7. \A k \in Keys : task'[k] # NoMsg => task'[k] \in Known'
  BY <1>1 DEF Base, Places
<1>8. QED  BY <1>3, <1>4, <1>5, <1>6, <1>7 DEF Places

LEMMA PlacesPutInQueue ==
  ASSUME Base, NEW t \in Tabs, tabs[t].at \in {"steer", "orphan"},
         NEW m, m = tabs[t].msg, PutInQueue(t, m), UNCHANGED task,
         tabs'[t].at = "idle", \A u \in Tabs : u # t => tabs'[u] = tabs[u]
  PROVE  Places'
<1>1. /\ m \in Known /\ msgs[m].stage = "held" /\ Waits(t) /\ Only(m) /\ m \in MsgIds
      /\ \/ UNCHANGED queue
         \/ /\ msgs'[m].stage = "queued"
            /\ queue' = [queue EXCEPT ![msgs[m].key] = Append(@, m)]
      /\ msgs[m].key \in Keys
  BY Queues, HeldIs DEF Waits
<1>2. /\ Known' = Known /\ \A q \in Known : q # m => msgs'[q] = msgs[q]
      /\ msgs'[m].key = msgs[m].key
  BY <1>1 DEF Only, ButFor, Known
<1>3. \A u \in Tabs : Waits(u)' => u # t /\ tabs'[u] = tabs[u] /\ Waits(u) /\ tabs[u].msg # m
  <2> SUFFICES ASSUME NEW u \in Tabs, Waits(u)'
               PROVE  u # t /\ tabs'[u] = tabs[u] /\ Waits(u) /\ tabs[u].msg # m
    OBVIOUS
  <2>1. u # t
    BY DEF Waits
  <2>2. tabs'[u] = tabs[u] /\ Waits(u)
    BY <2>1 DEF Waits
  <2>3. QED  BY <1>1, <2>1, <2>2 DEF Base, Places
<1>4. CASE UNCHANGED queue
  <2>1. \A k \in Keys : task'[k] \in {task[k], m}
    OBVIOUS
  <2>2. QED  BY <1>1, <1>2, <1>3, <1>4, <2>1, PlacesLeave
<1>5. CASE /\ msgs'[m].stage = "queued"
           /\ queue' = [queue EXCEPT ![msgs[m].key] = Append(@, m)]
  <2>1. \A j \in Keys : \A i \in DOMAIN queue[j] : queue[j][i] # m
    <3> SUFFICES ASSUME NEW j \in Keys, NEW i \in DOMAIN queue[j], queue[j][i] = m PROVE FALSE
      OBVIOUS
    <3>1. msgs[queue[j][i]].stage = "queued"
      BY DEF Base, Places
    <3>2. QED  BY <3>1, <1>1
  <2>2. Known' = Known \cup {m}
    BY <1>1, <1>2
  <2>3. QED  BY ZenonT(60), <1>1, <1>2, <1>3, <1>5, <2>1, <2>2, PlacesQueued
<1>6. QED  BY <1>1, <1>4, <1>5

LEMMA PlacesSend == ASSUME Base, NEW t \in Tabs, Send(t) PROVE Places'
<1> DEFINE m == Len(msgs) + 1
           k == tabs[t].key
<1>1. /\ k \in Keys /\ tabs[t].at = "idle" /\ UNCHANGED task
      /\ m \in MsgIds /\ m \notin Known /\ Known' = Known \cup {m}
      /\ \A q \in Known : msgs'[q] = msgs[q]
      /\ msgs'[m].key = k
      /\ tabs'[t].key = k /\ \A u \in Tabs : u # t => tabs'[u] = tabs[u]
      /\ \/ /\ msgs'[m].stage = "held" /\ tabs'[t].msg = m /\ UNCHANGED queue
         \/ /\ msgs'[m].stage = "queued" /\ UNCHANGED tabs
            /\ queue' = [queue EXCEPT ![k] = Append(@, m)]
  BY SendIs
<1> HIDE DEF m, k
<1>2. CASE msgs'[m].stage = "held" /\ tabs'[t].msg = m /\ UNCHANGED queue
  <2>1. ASSUME NEW u \in Tabs, Waits(u)', u # t
        PROVE  Waits(u) /\ tabs'[u] = tabs[u] /\ tabs[u].msg \in Known /\ tabs[u].msg # m
    BY <1>1, <2>1 DEF Waits, Base, Places
  <2>2. ASSUME NEW u \in Tabs, Waits(u)'
        PROVE  /\ tabs'[u].msg \in Known'
               /\ msgs'[tabs'[u].msg].stage = "held" /\ msgs'[tabs'[u].msg].key = tabs'[u].key
    <3>1. CASE u = t
      BY <1>1, <1>2, <3>1
    <3>2. CASE u # t
      BY <1>1, <2>1, <2>2, <3>2 DEF Base, Places
    <3>3. QED  BY <3>1, <3>2
  <2>3. \A u, v \in Tabs : Waits(u)' /\ Waits(v)' /\ tabs'[u].msg = tabs'[v].msg => u = v
    BY <1>2, <2>1 DEF Base, Places
  <2>4. ASSUME NEW j \in Keys, NEW i \in DOMAIN queue'[j]
        PROVE  /\ queue'[j][i] \in Known'
               /\ msgs'[queue'[j][i]].stage = "queued" /\ msgs'[queue'[j][i]].key = j
    BY <1>1, <1>2 DEF Base, Places
  <2>5. \A j \in Keys : \A a, b \in DOMAIN queue'[j] : queue'[j][a] = queue'[j][b] => a = b
    BY <1>2 DEF Base, Places
  <2>6. \A j \in Keys : task'[j] # NoMsg => task'[j] \in Known'
    BY <1>1 DEF Base, Places
  <2>7. QED  BY <2>2, <2>3, <2>4, <2>5, <2>6 DEF Places
<1>3. CASE /\ msgs'[m].stage = "queued" /\ UNCHANGED tabs
           /\ queue' = [queue EXCEPT ![k] = Append(@, m)]
  <2>1. \A j \in Keys : \A i \in DOMAIN queue[j] : queue[j][i] # m
    BY <1>1 DEF Base, Places
  <2>2. \A u \in Tabs : Waits(u)' => Waits(u) /\ tabs'[u] = tabs[u] /\ tabs[u].msg # m
    BY <1>1, <1>3 DEF Waits, Base, Places
  <2>3. QED  BY <1>1, <1>3, <2>1, <2>2, PlacesQueued
<1>4. QED  BY <1>1, <1>2, <1>3

LEMMA PlacesJobOver ==
  ASSUME Base, NEW m \in Known, JobEnds(m) \/ JobIsStopped(m) PROVE Places'
<1> DEFINE k == msgs[m].key
           h == Head(queue[k])
<1>1. /\ UNCHANGED tabs /\ k \in Keys /\ msgs[m].stage \in {"stream", "http", "emit"}
      /\ Known' = Known /\ \A q \in Known : msgs'[q].key = msgs[q].key
      /\ \/ /\ queue[k] # <<>> /\ h \in Known /\ h # m
            /\ msgs[h].stage = "queued"
            /\ \A q \in Known : q # m /\ q # h => msgs'[q] = msgs[q]
            /\ task' = [task EXCEPT ![k] = h]
            /\ queue' = [queue EXCEPT ![k] = Tail(queue[k])]
         \/ /\ \A q \in Known : q # m => msgs'[q] = msgs[q]
            /\ task' = [task EXCEPT ![k] = NoMsg] /\ queue' = queue
  BY JobOverIs DEF Inside
<1>2. HandlerTypes
  BY Parts DEF Base
<1>3. queue[k] \in Seq(MsgIds)
  BY <1>1, <1>2 DEF HandlerTypes
<1>4. \A u \in Tabs : Waits(u)' => Waits(u) /\ tabs'[u] = tabs[u]
  BY <1>1 DEF Waits
<1>5. \A u, v \in Tabs : Waits(u)' /\ Waits(v)' /\ tabs'[u].msg = tabs'[v].msg => u = v
  BY <1>4 DEF Base, Places
<1> HIDE DEF h, k
<1>6. CASE /\ queue[k] # <<>> /\ h \in Known /\ h # m
           /\ msgs[h].stage = "queued"
           /\ \A q \in Known : q # m /\ q # h => msgs'[q] = msgs[q]
           /\ task' = [task EXCEPT ![k] = h]
           /\ queue' = [queue EXCEPT ![k] = Tail(queue[k])]
  <2>1. /\ h = queue[k][1] /\ 1 \in DOMAIN queue[k] /\ DOMAIN queue[k] \subseteq Nat \ {0}
        /\ DOMAIN Tail(queue[k]) = {i \in DOMAIN queue[k] : i + 1 \in DOMAIN queue[k]}
        /\ \A i \in DOMAIN Tail(queue[k]) : Tail(queue[k])[i] = queue[k][i + 1]
    BY <1>3, <1>6, TailIs, SeqIsFunction DEF h
  <2>2. queue'[k] = Tail(queue[k]) /\ \A j \in Keys : j # k => queue'[j] = queue[j]
    BY <1>1, <1>2, <1>6 DEF HandlerTypes
  <2>3. ASSUME NEW u \in Tabs, Waits(u)'
        PROVE  /\ tabs'[u].msg \in Known'
               /\ msgs'[tabs'[u].msg].stage = "held" /\ msgs'[tabs'[u].msg].key = tabs'[u].key
    BY <1>1, <1>4, <1>6, <2>3 DEF Base, Places
  <2>4. ASSUME NEW j \in Keys, NEW i \in DOMAIN queue'[j]
        PROVE  /\ queue'[j][i] \in Known'
               /\ msgs'[queue'[j][i]].stage = "queued" /\ msgs'[queue'[j][i]].key = j
    <3>1. PICK a \in DOMAIN queue[j] : queue'[j][i] = queue[j][a] /\ (j = k => a = i + 1)
      BY <2>1, <2>2
    <3>2. queue[j][a] \in Known /\ msgs[queue[j][a]].stage = "queued" /\ msgs[queue[j][a]].key = j
      BY DEF Base, Places
    <3>3. queue[j][a] # m
      BY <1>1, <3>2
    <3>4. queue[j][a] # h
      <4>1. CASE j = k
        <5>1. i \in Nat \ {0}
          BY <2>1, <2>2, <4>1
        <5>2. a # 1
          BY <3>1, <4>1, <5>1
        <5>3. QED  BY <2>1, <4>1, <5>2 DEF Base, Places
      <4>2. CASE j # k
        <5>1. msgs[h].key = k
          BY <1>1, <2>1 DEF Base, Places
        <5>2. QED  BY <3>2, <4>2, <5>1
      <4>3. QED  BY <4>1, <4>2
    <3>5. QED  BY <1>1, <1>6, <3>1, <3>2, <3>3, <3>4
  <2>5. ASSUME NEW j \in Keys, NEW a \in DOMAIN queue'[j], NEW b \in DOMAIN queue'[j],
               queue'[j][a] = queue'[j][b]
        PROVE  a = b
    <3>1. CASE j # k
      BY <2>2, <2>5, <3>1 DEF Base, Places
    <3>2. CASE j = k
      <4>1. /\ a \in Nat /\ b \in Nat /\ a + 1 \in DOMAIN queue[k] /\ b + 1 \in DOMAIN queue[k]
            /\ queue[k][a + 1] = queue[k][b + 1]
        BY <2>1, <2>2, <2>5, <3>2
      <4>2. a + 1 = b + 1
        BY <1>1, <4>1 DEF Base, Places
      <4>3. QED  BY <4>1, <4>2
    <3>3. QED  BY <3>1, <3>2
  <2>6. \A j \in Keys : task'[j] # NoMsg => task'[j] \in Known'
    BY <1>1, <1>2, <1>6 DEF Base, Places, HandlerTypes
  <2>7. QED  BY <1>5, <2>3, <2>4, <2>5, <2>6 DEF Places
<1>7. CASE /\ \A q \in Known : q # m => msgs'[q] = msgs[q]
           /\ task' = [task EXCEPT ![k] = NoMsg] /\ queue' = queue
  <2>1. ASSUME NEW u \in Tabs, Waits(u)'
        PROVE  /\ tabs'[u].msg \in Known'
               /\ msgs'[tabs'[u].msg].stage = "held" /\ msgs'[tabs'[u].msg].key = tabs'[u].key
    BY <1>1, <1>4, <1>7, <2>1 DEF Base, Places
  <2>2. ASSUME NEW j \in Keys, NEW i \in DOMAIN queue'[j]
        PROVE  /\ queue'[j][i] \in Known'
               /\ msgs'[queue'[j][i]].stage = "queued" /\ msgs'[queue'[j][i]].key = j
    BY <1>1, <1>7 DEF Base, Places
  <2>3. \A j \in Keys : \A a, b \in DOMAIN queue'[j] : queue'[j][a] = queue'[j][b] => a = b
    BY <1>7 DEF Base, Places
  <2>4. \A j \in Keys : task'[j] # NoMsg => task'[j] \in Known'
    BY <1>1, <1>2, <1>7 DEF Base, Places, HandlerTypes
  <2>5. QED  BY <1>5, <2>1, <2>2, <2>3, <2>4 DEF Places
<1>8. QED  BY <1>1, <1>6, <1>7

LEMMA PlacesStop == ASSUME Base, NEW t \in Tabs, Stop(t) PROVE Places'
<1> DEFINE k == tabs[t].key
           Thrown == {q \in Known : Contains(queue[k], q)}
<1>1. /\ UNCHANGED task /\ k \in Keys /\ queue' = [queue EXCEPT ![k] = <<>>] /\ Known' = Known
      /\ \A q \in Known : msgs'[q].key = msgs[q].key
      /\ \A q \in Thrown : msgs[q].stage = "queued" /\ msgs[q].key = k
      /\ \A q \in Known \ Thrown : msgs'[q].stage = msgs[q].stage
      /\ \A u \in Tabs :
           /\ tabs'[u].key = tabs[u].key /\ tabs'[u].msg = tabs[u].msg
           /\ tabs'[u].at = IF tabs[u].at = "steer" /\ tabs[u].key = k
                            THEN "orphan" ELSE tabs[u].at
  BY StopIs
<1> HIDE DEF k, Thrown
<1>2. HandlerTypes
  BY Parts DEF Base
<1>3. queue'[k] = <<>> /\ \A j \in Keys : j # k => queue'[j] = queue[j]
  BY <1>1, <1>2 DEF HandlerTypes
<1>4. DOMAIN queue'[k] = {}
  BY <1>3, EmptyIs
<1>5. \A u \in Tabs : Waits(u)' => Waits(u)
  BY <1>1 DEF Waits
<1>6. ASSUME NEW u \in Tabs, Waits(u)'
      PROVE  /\ tabs'[u].msg \in Known'
             /\ msgs'[tabs'[u].msg].stage = "held" /\ msgs'[tabs'[u].msg].key = tabs'[u].key
  <2>1. tabs[u].msg \in Known /\ msgs[tabs[u].msg].stage = "held" /\ msgs[tabs[u].msg].key = tabs[u].key
    BY <1>5, <1>6 DEF Base, Places
  <2>2. tabs[u].msg \in Known \ Thrown
    BY <1>1, <2>1
  <2>3. QED  BY <1>1, <2>1, <2>2
<1>7. \A u, v \in Tabs : Waits(u)' /\ Waits(v)' /\ tabs'[u].msg = tabs'[v].msg => u = v
  BY <1>1, <1>5 DEF Base, Places
<1>8. ASSUME NEW j \in Keys, NEW i \in DOMAIN queue'[j]
      PROVE  /\ queue'[j][i] \in Known'
             /\ msgs'[queue'[j][i]].stage = "queued" /\ msgs'[queue'[j][i]].key = j
  <2>1. j # k /\ queue'[j] = queue[j]
    BY <1>3, <1>4
  <2>2. queue[j][i] \in Known /\ msgs[queue[j][i]].stage = "queued" /\ msgs[queue[j][i]].key = j
    BY <2>1 DEF Base, Places
  <2>3. queue[j][i] \in Known \ Thrown
    BY <1>1, <2>1, <2>2
  <2>4. QED  BY <1>1, <2>1, <2>2, <2>3
<1>9. \A j \in Keys : \A a, b \in DOMAIN queue'[j] : queue'[j][a] = queue'[j][b] => a = b
  BY <1>3, <1>4 DEF Base, Places
<1>10. \A j \in Keys : task'[j] # NoMsg => task'[j] \in Known'
  BY <1>1 DEF Base, Places
<1>11. QED  BY <1>6, <1>7, <1>8, <1>9, <1>10 DEF Places

\* A step that changes one message, which waits nowhere.
LEMMA PlacesOnly ==
  ASSUME Base, NEW m \in Known, msgs[m].stage \notin {"held", "queued"}, Only(m),
         TabsKeep, UNCHANGED <<queue, task>>
  PROVE  Places'
<1>1. MsgsKeep
  BY DEF MsgsKeep, Only, ButFor, Known
<1>2. QED  BY <1>1, PlacesStay

LEMMA TabsStay == ASSUME UNCHANGED tabs PROVE TabsKeep
  BY DEF TabsKeep, Waits

\* A turn that is told of changes no place.
LEMMA ToldKeeps == ASSUME Base, NEW m \in Known, NEW what, Told(m, what), Known' = Known PROVE MsgsKeep
<1>1. CASE UNCHANGED msgs
  BY <1>1 DEF MsgsKeep
<1>2. CASE msgs[m].stage = "http" /\ Only(m)
  BY <1>2 DEF MsgsKeep, Only, ButFor, Known
<1>3. QED  BY <1>1, <1>2 DEF Told

LEMMA BaseInit == Init => Base
<1> SUFFICES ASSUME Init PROVE Base
  OBVIOUS
<1> USE DEF Init
<1>1. NoMsg \in 0 .. MaxMsgs /\ Start \in Keys
  BY Bounds DEF NoMsg
<1>2. HandlerTypes
  BY <1>1, EmptyIs DEF HandlerTypes, Tab
<1>3. Known = {}
  BY EmptyIs DEF Known
<1>4. MsgTypes
  BY <1>3, Bounds, EmptyIs DEF MsgTypes
<1>5. WireTypes
  BY Bounds, EmptyIs DEF WireTypes
<1>6. NoChat \in Chat
  BY Bounds DEF NoChat, Chat
<1>7. ChatTypes /\ PastTypes
  BY <1>6 DEF ChatTypes, PastTypes
<1>8. \A t \in Tabs : ~Waits(t)
  BY DEF Waits
<1>9. Places
  BY <1>8, EmptyIs DEF Places
<1>10. QED  BY <1>2, <1>4, <1>5, <1>7, <1>9, Parts DEF Base

LEMMA BaseNext == Base /\ [Next]_vars => Base'
<1> SUFFICES ASSUME Base, [Next]_vars PROVE Base'
  OBVIOUS
<1>1. ASSUME NEW t \in Tabs, Send(t) PROVE Base'
  BY <1>1, SendIs, PlacesSend DEF Base
<1>2. ASSUME NEW t \in Tabs, Stop(t) PROVE Base'
  BY <1>2, StopIs, PlacesStop DEF Base
<1>3. ASSUME NEW t \in Tabs, Close(t) PROVE Base'
  <2>1. /\ TypeOK' /\ UNCHANGED <<queue, task, msgs>> /\ tabs'[t].at = "off"
        /\ \A u \in Tabs : u # t => tabs'[u] = tabs[u]
    BY <1>3, CloseIs
  <2>2. TabsKeep /\ MsgsKeep
    BY <2>1 DEF TabsKeep, Waits, MsgsKeep, Known
  <2>3. QED  BY <2>1, <2>2, PlacesStay DEF Base
<1>4. ASSUME NEW t \in Tabs, NEW m \in Known, Cancel(t, m) PROVE Base'
  <2>1. /\ TypeOK' /\ UNCHANGED <<queue, task, msgs>> /\ tabs'[t].at = "cancel"
        /\ \A u \in Tabs : u # t => tabs'[u] = tabs[u]
    BY <1>4, CancelIs
  <2>2. TabsKeep /\ MsgsKeep
    BY <2>1 DEF TabsKeep, Waits, MsgsKeep, Known
  <2>3. QED  BY <2>1, <2>2, PlacesStay DEF Base
<1>5. ASSUME NEW t \in Tabs, NEW k \in Keys, Move(t, k) PROVE Base'
  <2>1. /\ TypeOK' /\ UNCHANGED <<queue, task, msgs>> /\ tabs'[t].at = "idle"
        /\ \A u \in Tabs : u # t => tabs'[u] = tabs[u]
    BY <1>5, MoveIs
  <2>2. TabsKeep /\ MsgsKeep
    BY <2>1 DEF TabsKeep, Waits, MsgsKeep, Known
  <2>3. QED  BY <2>1, <2>2, PlacesStay DEF Base
<1>6. ASSUME NEW t \in Tabs, AckDone(t) PROVE Base'
  <2> DEFINE m == tabs[t].msg
  <2>1. /\ TypeOK' /\ UNCHANGED queue /\ Waits(t) /\ Only(m) /\ Known' = Known
        /\ tabs'[t].at = "idle" /\ \A u \in Tabs : u # t => tabs'[u] = tabs[u]
        /\ task' = [task EXCEPT ![tabs[t].key] = m]
    BY <1>6, AckDoneIs DEF Waits
  <2>2. \A q \in Known : q # m => msgs'[q] = msgs[q]
    BY <2>1 DEF Only, ButFor, Known
  <2>3. \A u \in Tabs : Waits(u)' => u # t /\ tabs'[u] = tabs[u]
    BY <2>1 DEF Waits
  <2>4. \A k \in Keys : task'[k] \in {task[k], m}
    BY <2>1, Parts DEF Base, HandlerTypes
  <2>5. Places'
    BY <2>1, <2>2, <2>3, <2>4, PlacesLeave
  <2>6. QED  BY <2>1, <2>5 DEF Base
<1>7. ASSUME NEW t \in Tabs, SteerUnanswered(t) PROVE Base'
  <2>1. Places'
    BY <1>7, SteerUnansweredIs, PlacesPutInQueue
  <2>2. QED  BY <1>7, <2>1, SteerUnansweredIs DEF Base
<1>8. ASSUME NEW t \in Tabs, CancelUnanswered(t) PROVE Base'
  <2>1. /\ TypeOK' /\ UNCHANGED <<queue, task, msgs>> /\ tabs'[t].at = "idle"
        /\ \A u \in Tabs : u # t => tabs'[u] = tabs[u]
    BY <1>8, CancelUnansweredIs
  <2>2. TabsKeep /\ MsgsKeep
    BY <2>1 DEF TabsKeep, Waits, MsgsKeep, Known
  <2>3. QED  BY <2>1, <2>2, PlacesStay DEF Base
<1>9. ASSUME NEW m \in Known, JobStarts(m) PROVE Base'
  <2>1. TypeOK' /\ UNCHANGED <<tabs, queue, task>> /\ msgs[m].stage = "created" /\ Only(m)
    BY <1>9, JobStartsIs
  <2>2. QED  BY <2>1, TabsStay, PlacesOnly DEF Base
<1>10. ASSUME NEW m \in Known, StreamItem(m) \/ StreamTimesOut(m) PROVE Base'
  <2>1. /\ TypeOK' /\ UNCHANGED <<tabs, queue, task>> /\ Only(m)
        /\ msgs[m].stage \in {"stream", "http"}
    BY <1>10, StreamsIs
  <2>2. QED  BY <2>1, TabsStay, PlacesOnly DEF Base
<1>11. ASSUME NEW m \in Known, JobEnds(m) \/ JobIsStopped(m) PROVE Base'
  <2>1. TypeOK'
    BY <1>11, JobOverIs
  <2>2. QED  BY <1>11, <2>1, PlacesJobOver DEF Base
<1>12. ASSUME NEW m \in Known, JobNeverRuns(m) PROVE Base'
  <2>1. TypeOK' /\ UNCHANGED <<tabs, queue, task>> /\ msgs[m].stage = "created" /\ Only(m)
    BY <1>12, JobNeverRunsIs
  <2>2. QED  BY <2>1, TabsStay, PlacesOnly DEF Base
<1>13. ASSUME Connect PROVE Base'
  <2>1. TypeOK' /\ UNCHANGED <<tabs, queue, task, msgs>>
    BY <1>13, ConnectIs
  <2>2. MsgsKeep
    BY <2>1 DEF MsgsKeep, Known
  <2>3. QED  BY <2>1, <2>2, TabsStay, PlacesStay DEF Base
<1>14. ASSUME ClientNotices PROVE Base'
  <2>1. /\ TypeOK' /\ UNCHANGED <<tabs, queue, task>> /\ Known' = Known
        /\ \A q \in Known : msgs'[q].key = msgs[q].key /\ msgs'[q].stage = msgs[q].stage
    BY <1>14, ClientNoticesIs
  <2>2. MsgsKeep
    BY <2>1 DEF MsgsKeep
  <2>3. QED  BY <2>1, <2>2, TabsStay, PlacesStay DEF Base
<1>15. ASSUME Receive PROVE Base'
  <2> DEFINE frame == wires[conn].down[1]
             what == frame[1]
             m == frame[2]
  <2>1. /\ TypeOK' /\ UNCHANGED task /\ Known' = Known
        /\ \/ /\ m \in Known /\ Registered(m) /\ Only(m) /\ UNCHANGED <<tabs, queue>>
           \/ \E t \in Tabs :
                /\ tabs[t].at \in {"steer", "orphan"} /\ tabs[t].msg = m
                /\ tabs'[t].at = "idle"
                /\ \A u \in Tabs : u # t => tabs'[u] = tabs[u]
                /\ m \in Known
                /\ \/ Only(m) /\ UNCHANGED queue
                   \/ PutInQueue(t, m)
           \/ /\ UNCHANGED <<msgs, queue>>
              /\ \E t \in Tabs :
                   /\ tabs'[t].at = "idle"
                   /\ \A u \in Tabs : u # t => tabs'[u] = tabs[u]
           \/ UNCHANGED <<tabs, msgs, queue>>
    <3> HIDE DEF frame, what, m
    <3>1. QED  BY <1>15, ReceiveIs DEF frame, what, m
  <2> HIDE DEF frame, what, m
  <2>2. CASE m \in Known /\ Registered(m) /\ Only(m) /\ UNCHANGED <<tabs, queue>>
    <3>1. msgs[m].stage = "stream"
      BY <2>2 DEF Registered
    <3>2. QED  BY <2>1, <2>2, <3>1, TabsStay, PlacesOnly DEF Base
  <2>3. ASSUME NEW t \in Tabs,
               tabs[t].at \in {"steer", "orphan"}, tabs[t].msg = m, tabs'[t].at = "idle",
               \A u \in Tabs : u # t => tabs'[u] = tabs[u],
               Only(m) /\ UNCHANGED queue
        PROVE  Base'
    <3>1. Waits(t) /\ \A u \in Tabs : Waits(u)' => u # t /\ tabs'[u] = tabs[u]
      BY <2>3 DEF Waits
    <3>2. \A q \in Known : q # m => msgs'[q] = msgs[q]
      BY <2>3 DEF Only, ButFor, Known
    <3>3. \A k \in Keys : task'[k] \in {task[k], m}
      BY <2>1
    <3>4. Places'
      BY <2>1, <2>3, <3>1, <3>2, <3>3, PlacesLeave
    <3>5. QED  BY <2>1, <3>4 DEF Base
  <2>4. ASSUME NEW t \in Tabs,
               tabs[t].at \in {"steer", "orphan"}, tabs[t].msg = m, tabs'[t].at = "idle",
               \A u \in Tabs : u # t => tabs'[u] = tabs[u],
               PutInQueue(t, m)
        PROVE  Base'
    BY <2>1, <2>4, PlacesPutInQueue DEF Base
  <2>5. ASSUME UNCHANGED <<msgs, queue>>, NEW t \in Tabs, tabs'[t].at = "idle",
               \A u \in Tabs : u # t => tabs'[u] = tabs[u]
        PROVE  Base'
    <3>1. TabsKeep /\ MsgsKeep
      BY <2>1, <2>5 DEF TabsKeep, Waits, MsgsKeep
    <3>2. QED  BY <2>1, <2>5, <3>1, PlacesStay DEF Base
  <2>6. CASE UNCHANGED <<tabs, msgs, queue>>
    <3>1. MsgsKeep
      BY <2>1, <2>6 DEF MsgsKeep
    <3>2. QED  BY <2>1, <2>6, <3>1, TabsStay, PlacesStay DEF Base
  <2>7. QED  BY <2>1, <2>2, <2>3, <2>4, <2>5, <2>6
<1>16. ASSUME NEW n \in DOMAIN wires, GatewayTakes(n) PROVE Base'
  <2>1. TypeOK' /\ UNCHANGED <<tabs, queue, task, msgs>>
    BY <1>16, GatewayTakesIs
  <2>2. MsgsKeep
    BY <2>1 DEF MsgsKeep, Known
  <2>3. QED  BY <2>1, <2>2, TabsStay, PlacesStay DEF Base
<1>17. ASSUME NEW m \in Known, HttpAccepted(m) PROVE Base'
  <2>1. /\ TypeOK' /\ UNCHANGED <<tabs, queue, task>> /\ msgs[m].stage = "http"
        /\ Only(m) \/ UNCHANGED msgs
    BY <1>17, HttpAcceptedIs
  <2>2. CASE Only(m)
    BY <2>1, <2>2, TabsStay, PlacesOnly DEF Base
  <2>3. CASE UNCHANGED msgs
    <3>1. MsgsKeep
      BY <2>3 DEF MsgsKeep, Known
    <3>2. QED  BY <2>1, <3>1, TabsStay, PlacesStay DEF Base
  <2>4. QED  BY <2>1, <2>2, <2>3
<1>18. ASSUME NEW m \in Known, ChatStarts(m) \/ ChatEntersLoop(m) PROVE Base'
  <2>1. TypeOK' /\ UNCHANGED <<tabs, queue, task, msgs>>
    BY <1>18, ChatGoesIs
  <2>2. MsgsKeep
    BY <2>1 DEF MsgsKeep, Known
  <2>3. QED  BY <2>1, <2>2, TabsStay, PlacesStay DEF Base
<1>19. ASSUME NEW m \in Known, ChatProgress(m) \/ ChatAnswers(m) \/ ChatFails(m) PROVE Base'
  <2>1. /\ TypeOK' /\ UNCHANGED <<tabs, queue, task>> /\ Known' = Known
        /\ \E what : Told(m, what)
    BY <1>19, ChatSaysIs
  <2>2. MsgsKeep
    BY <2>1, ToldKeeps
  <2>3. QED  BY <2>1, <2>2, TabsStay, PlacesStay DEF Base
<1>20. ASSUME Break PROVE Base'
  <2>1. TypeOK' /\ UNCHANGED <<tabs, queue, task, msgs>>
    BY <1>20, BreakIs
  <2>2. MsgsKeep
    BY <2>1 DEF MsgsKeep, Known
  <2>3. QED  BY <2>1, <2>2, TabsStay, PlacesStay DEF Base
<1>21. ASSUME GatewayRestarts PROVE Base'
  <2>1. /\ TypeOK' /\ UNCHANGED <<tabs, queue, task>> /\ Known' = Known
        /\ \A q \in Known : msgs'[q].key = msgs[q].key /\ msgs'[q].stage = msgs[q].stage
    BY <1>21, RestartIs
  <2>2. MsgsKeep
    BY <2>1 DEF MsgsKeep
  <2>3. QED  BY <2>1, <2>2, TabsStay, PlacesStay DEF Base
<1>22. CASE UNCHANGED vars
  <2>1. /\ UNCHANGED <<tabs, subs, proc, queue, task, msgs, conn, pending, wires, chats>>
        /\ UNCHANGED <<steerable, used, early, heard, unanswered>>
    BY <1>22 DEF vars, handler, client, gateway, history
  <2>2. TypeOK'
    BY <2>1, Parts, PartsNext, HandlerStays, MsgsStay, WiresStay, ChatsStay, PastStays DEF Base
  <2>3. MsgsKeep
    BY <2>1 DEF MsgsKeep, Known
  <2>4. QED  BY <2>1, <2>2, <2>3, TabsStay, PlacesStay DEF Base
<1>23. QED
  BY <1>1, <1>2, <1>3, <1>4, <1>5, <1>6, <1>7, <1>8, <1>9, <1>10, <1>11, <1>12, <1>13, <1>14,
     <1>15, <1>16, <1>17, <1>18, <1>19, <1>20, <1>21, <1>22
  DEF Next, UserActs, HandlerSteps, ClientSteps, GatewaySteps, Faults

\* Types, and what each place may hold.
THEOREM WebuiTypes == Spec => []TypeOK
<1>1. Base => TypeOK
  BY DEF Base
<1>2. QED  BY <1>1, BaseInit, BaseNext, PTL DEF Spec

-----------------------------------------------------------------------------
(* What is under way on the connections, after a step.                     *)

UpsFewer ==
  \A n \in DOMAIN wires' : \A i \in DOMAIN wires'[n].up :
    n \in DOMAIN wires /\ i \in DOMAIN wires[n].up /\ wires'[n].up[i] = wires[n].up[i]
DownsFewer ==
  \A n \in DOMAIN wires' : \A i \in DOMAIN wires'[n].down :
    n \in DOMAIN wires /\ \E j \in DOMAIN wires[n].down : wires[n].down[j] = wires'[n].down[i]

LEMMA FewerUps ==
  ASSUME UpsFewer
  PROVE  /\ \A what, m : Up(what, m)' => Up(what, m)
         /\ SentOnce => SentOnce'
<1>1. \A n, i, f : UpAt(n, i, f)' => UpAt(n, i, f)
  BY DEF UpsFewer, UpAt
<1>2. ASSUME NEW what, NEW m, Up(what, m)' PROVE Up(what, m)
  BY <1>1, <1>2 DEF Up, UpAt
<1>3. ASSUME SentOnce PROVE SentOnce'
  <2> SUFFICES ASSUME NEW m \in MsgIds, NEW what \in {"chat", "steer"},
                      NEW n \in DOMAIN wires', NEW p \in DOMAIN wires',
                      NEW i \in DOMAIN wires'[n].up, NEW j \in DOMAIN wires'[p].up,
                      UpAt(n, i, <<what, m>>)', UpAt(p, j, <<what, m>>)'
               PROVE  n = p /\ i = j
    BY ZenonT(60) DEF SentOnce
  <2>1. UpAt(n, i, <<what, m>>) /\ UpAt(p, j, <<what, m>>)
    BY <1>1
  <2>2. QED  BY <1>3, <2>1 DEF SentOnce, UpAt
<1>4. QED  BY <1>2, <1>3

LEMMA FewerDowns == ASSUME DownsFewer PROVE \A what, m : Down(what, m)' => Down(what, m)
  BY DEF DownsFewer, Down

LEMMA SameUps == ASSUME UNCHANGED wires PROVE UpsFewer /\ DownsFewer
  BY DEF UpsFewer, DownsFewer

\* A frame joins what is under way to the gateway.
LEMMA MoreUps ==
  ASSUME WireTypes, conn # 0, NEW what \in ToGateway, NEW m \in MsgIds, Sends(<<what, m>>)
  PROVE  /\ \A w, q : Up(w, q)' => Up(w, q) \/ <<w, q>> = <<what, m>>
         /\ SentOnce /\ (what = "cancel" \/ ~Up(what, m)) => SentOnce'
         /\ DownsFewer
<1>1. /\ SameWires /\ conn \in DOMAIN wires
      /\ \A n \in DOMAIN wires :
           /\ wires'[n].open = wires[n].open /\ wires'[n].down = wires[n].down
           /\ wires'[n].up = IF n = conn /\ wires[n].open
                             THEN Append(wires[n].up, <<what, m>>) ELSE wires[n].up
  BY SendsIs
<1>2. DownsFewer
  BY <1>1 DEF DownsFewer, SameWires
<1> DEFINE u == wires[conn].up
           f == <<what, m>>
           l == Len(u) + 1
<1>3. u \in Seq(UpFrames) /\ f \in UpFrames
  BY <1>1, WireFields DEF WireTypes, UpFrames
<1>4. /\ DOMAIN Append(u, f) = DOMAIN u \cup {l} /\ l \notin DOMAIN u
      /\ Append(u, f)[l] = f /\ \A j \in DOMAIN u : Append(u, f)[j] = u[j]
  BY <1>3, AppendIs
<1> HIDE DEF l
<1>5. ASSUME NEW n, NEW i, NEW g, UpAt(n, i, g)'
      PROVE  (n = conn /\ i = l /\ g = f) \/ UpAt(n, i, g)
  <2>1. n \in DOMAIN wires /\ i \in DOMAIN wires'[n].up /\ wires'[n].up[i] = g
    BY <1>1, <1>5 DEF UpAt, SameWires
  <2>2. CASE n = conn /\ wires[n].open
    BY <1>1, <1>4, <2>1, <2>2 DEF UpAt
  <2>3. CASE ~(n = conn /\ wires[n].open)
    BY <1>1, <2>1, <2>3 DEF UpAt
  <2>4. QED  BY <2>2, <2>3
<1>6. ASSUME NEW w, NEW q, Up(w, q)' PROVE Up(w, q) \/ <<w, q>> = f
  BY <1>5, <1>6 DEF Up, UpAt
<1>7. ASSUME SentOnce, what = "cancel" \/ ~Up(what, m) PROVE SentOnce'
  <2> SUFFICES ASSUME NEW q \in MsgIds, NEW w \in {"chat", "steer"},
                      NEW n \in DOMAIN wires', NEW p \in DOMAIN wires',
                      NEW i \in DOMAIN wires'[n].up, NEW j \in DOMAIN wires'[p].up,
                      UpAt(n, i, <<w, q>>)', UpAt(p, j, <<w, q>>)'
               PROVE  n = p /\ i = j
    BY ZenonT(60) DEF SentOnce
  <2>1. CASE <<w, q>> = f
    <3>1. ~Up(w, q)
      BY <1>7, <2>1
    <3>2. QED  BY <1>5, <3>1 DEF Up, UpAt
  <2>2. CASE <<w, q>> # f
    <3>1. UpAt(n, i, <<w, q>>) /\ UpAt(p, j, <<w, q>>)
      BY <1>5, <2>2
    <3>2. QED  BY <1>7, <3>1 DEF SentOnce, UpAt
  <2>3. QED  BY <2>1, <2>2
<1>8. QED  BY <1>2, <1>6, <1>7

\* The gateway takes the oldest frame.
LEMMA UpTaken ==
  ASSUME WireTypes, NEW n \in DOMAIN wires, SameWires, wires[n].up # <<>>,
         \A p \in DOMAIN wires :
           wires'[p].up = IF p = n THEN Tail(wires[n].up) ELSE wires[p].up
  PROVE  /\ \A w, q : Up(w, q)' => Up(w, q)
         /\ SentOnce => SentOnce'
         /\ \A w \in {"chat", "steer"}, q \in MsgIds :
              SentOnce /\ wires[n].up[1] = <<w, q>> => Up(w, q) /\ ~Up(w, q)'
<1> DEFINE u == wires[n].up
           At(p, i) == IF p = n THEN i + 1 ELSE i
<1>1. /\ 1 \in DOMAIN u /\ DOMAIN u = 1 .. Len(u) /\ Len(u) \in Nat
      /\ DOMAIN Tail(u) = {i \in DOMAIN u : i + 1 \in DOMAIN u}
      /\ \A i \in DOMAIN Tail(u) : Tail(u)[i] = u[i + 1]
  BY WireFields, TailIs, SeqIsFunction DEF WireTypes
<1>2. ASSUME NEW p, NEW i, NEW f, UpAt(p, i, f)'
      PROVE  /\ UpAt(p, At(p, i), f) /\ p = n => i \in 1 .. Len(u)
             /\ p = n => UpAt(n, i + 1, f)
             /\ p # n => UpAt(p, i, f)
  <2>1. p \in DOMAIN wires /\ i \in DOMAIN wires'[p].up /\ wires'[p].up[i] = f
    BY <1>2 DEF UpAt, SameWires
  <2>2. CASE p = n
    BY <1>1, <2>1, <2>2 DEF UpAt
  <2>3. CASE p # n
    BY <2>1, <2>3 DEF UpAt
  <2>4. QED  BY <2>2, <2>3
<1>3. ASSUME NEW w, NEW q, Up(w, q)' PROVE Up(w, q)
  BY <1>2, <1>3 DEF Up, UpAt
<1>4. ASSUME SentOnce PROVE SentOnce'
  <2> SUFFICES ASSUME NEW q \in MsgIds, NEW w \in {"chat", "steer"},
                      NEW o \in DOMAIN wires', NEW p \in DOMAIN wires',
                      NEW i \in DOMAIN wires'[o].up, NEW j \in DOMAIN wires'[p].up,
                      UpAt(o, i, <<w, q>>)', UpAt(p, j, <<w, q>>)'
               PROVE  o = p /\ i = j
    BY ZenonT(60) DEF SentOnce
  <2>1. UpAt(o, At(o, i), <<w, q>>) /\ UpAt(p, At(p, j), <<w, q>>)
    BY <1>2
  <2>2. o = p /\ At(o, i) = At(p, j)
    <3> HIDE DEF At
    <3>1. QED  BY <1>4, <2>1 DEF SentOnce, UpAt
  <2>3. o = n => i \in Int /\ j \in Int
    BY <1>2, <2>2, <1>1
  <2>4. QED  BY <2>2, <2>3
<1>5. ASSUME NEW w \in {"chat", "steer"}, NEW q \in MsgIds, SentOnce, u[1] = <<w, q>>
      PROVE  Up(w, q) /\ ~Up(w, q)'
  <2>1. UpAt(n, 1, <<w, q>>)
    BY <1>1, <1>5 DEF UpAt
  <2>2. ASSUME Up(w, q)' PROVE FALSE
    <3>1. PICK p, i : UpAt(p, i, <<w, q>>)'
      BY <2>2 DEF Up
    <3>2. UpAt(p, At(p, i), <<w, q>>)
      BY <1>2, <3>1
    <3>3. p = n /\ At(p, i) = 1
      <4> HIDE DEF At
      <4>1. QED  BY <1>5, <2>1, <3>2 DEF SentOnce, UpAt
    <3>4. i \in 1 .. Len(u)
      BY <1>2, <3>1, <3>3
    <3>5. QED  BY <1>1, <3>3, <3>4
  <2>3. QED  BY <1>1, <2>1, <2>2 DEF Up
<1>6. QED  BY <1>3, <1>4, <1>5

\* A frame joins what is under way to the client.
LEMMA MoreDowns ==
  ASSUME WireTypes, SameWires, NEW n, NEW what \in ToClient, NEW m \in MsgIds, SaysOn(n, what, m)
  PROVE  \A w, q : Down(w, q)' => Down(w, q) \/ <<w, q>> = <<what, m>>
<1> SUFFICES ASSUME NEW w, NEW q, NEW p \in DOMAIN wires', NEW i \in DOMAIN wires'[p].down,
                    wires'[p].down[i] = <<w, q>>
             PROVE  Down(w, q) \/ <<w, q>> = <<what, m>>
  BY DEF Down
<1> DEFINE d == wires[p].down
           f == <<what, m>>
<1>1. p \in DOMAIN wires /\ d \in Seq(DownFrames) /\ f \in DownFrames
  BY WireFields DEF WireTypes, SameWires, DownFrames
<1>2. CASE p = n /\ wires[p].open
  <2>1. wires'[p].down = Append(d, f)
    BY <1>1, <1>2 DEF SaysOn
  <2>2. /\ DOMAIN Append(d, f) = DOMAIN d \cup {Len(d) + 1}
        /\ Append(d, f)[Len(d) + 1] = f /\ \A j \in DOMAIN d : Append(d, f)[j] = d[j]
    BY <1>1, AppendIs
  <2>3. QED  BY <1>1, <2>1, <2>2 DEF Down
<1>3. CASE ~(p = n /\ wires[p].open)
  BY <1>1, <1>3 DEF SaysOn, Down
<1>4. QED  BY <1>2, <1>3

LEMMA ToldDowns ==
  ASSUME Base, NEW m \in Known, NEW what \in Events, Told(m, what)
  PROVE  /\ UpsFewer
         /\ \A w, q : Down(w, q)' => Down(w, q) \/ <<w, q>> = <<what, m>>
<1>1. WireTypes /\ m \in MsgIds
  BY Parts, KnownIs DEF Base
<1>2. CASE UNCHANGED wires
  BY <1>2, SameUps, FewerDowns
<1>3. CASE ~ UNCHANGED wires
  <2>1. SameWires /\ SaysOn(chats[m].wire, what, m)
    BY <1>3 DEF Told, SaysOn
  <2>2. UpsFewer
    BY <1>3 DEF Told, UpsFewer, SameWires
  <2>3. what \in ToClient
    BY DEF ToClient
  <2>4. QED  BY <1>1, <2>1, <2>2, <2>3, MoreDowns
<1>4. QED  BY <1>2, <1>3

-----------------------------------------------------------------------------
(* What jobs and turns know of each other.                                 *)

\* As far as its turn can tell, message m stays where it is.
Bears(m) ==
  /\ m \in Known => m \in Known'
  /\ Untouched(m)' => Untouched(m)
  /\ Streamed(m) => Streamed(m)'
  /\ m \in Known' /\ msgs'[m].stage = "emit" =>
       m \in Known /\ msgs[m].stage = "emit" /\ msgs'[m].end = msgs[m].end
  /\ \A e \in {"answer", "cancelled"} :
       m \in Known' /\ Contains(msgs'[m].items, e) => Heard(e, m)

\* Nothing is sent that tells of it, and its turn stays.
Silent(m) ==
  /\ Up("chat", m)' => Up("chat", m)
  /\ Up("steer", m)' => Up("steer", m) \/ m \in Known'
  /\ \A e \in {"answer", "cancelled"} : Down(e, m)' => Down(e, m)
SameTurn(m) == chats'[m].stage = chats[m].stage /\ chats'[m].end = chats[m].end

LEMMA TalkKept ==
  ASSUME NEW m \in MsgIds, Talk(m), Bears(m), Silent(m), SameTurn(m) PROVE Talk(m)'
<1>1. Heard("answer", m)' => Heard("answer", m)
  BY DEF Heard, Bears, Silent
<1>2. Heard("cancelled", m)' => Heard("cancelled", m)
  BY DEF Heard, Bears, Silent
<1>3. Untouched(m)' => chats'[m].stage = "none"
  BY DEF Talk, Bears, SameTurn
<1>4. Up("chat", m)' => chats'[m].stage = "none"
  BY DEF Talk, Silent, SameTurn
<1>5. Up("chat", m)' \/ chats'[m].stage = "created" => Streamed(m)'
  BY DEF Talk, Silent, Bears, SameTurn
<1>6. Up("steer", m)' => m \in Known'
  BY DEF Talk, Silent, Bears
<1>7. chats'[m].stage # "over" => chats'[m].end = "none"
  BY DEF Talk, SameTurn
<1>8. m \in Known' /\ msgs'[m].stage = "emit" =>
        /\ msgs'[m].end \in {"answered", "empty", "failed"}
        /\ msgs'[m].end = "answered" => chats'[m].end = "done"
  BY DEF Talk, Bears, SameTurn
<1>9. QED  BY <1>1, <1>2, <1>3, <1>4, <1>5, <1>6, <1>7, <1>8 DEF Talk, SameTurn

\* What the other messages' changes leave alone.
LEMMA BearsSame ==
  ASSUME NEW m, m \in Known <=> m \in Known',
         m \in Known => /\ msgs'[m].stage = msgs[m].stage /\ msgs'[m].end = msgs[m].end
                        /\ \A e \in {"answer", "cancelled"} :
                             Contains(msgs'[m].items, e) => Contains(msgs[m].items, e)
  PROVE  Bears(m)
  BY DEF Bears, Untouched, Streamed, Heard

\* What nobody works on before, or after, tells nothing.
LEMMA BearsUntouched ==
  ASSUME NEW m, Untouched(m), m \in Known', msgs'[m].stage # "emit",
         \A e : Contains(msgs'[m].items, e) => m \in Known /\ Contains(msgs[m].items, e)
  PROVE  Bears(m)
  BY DEF Bears, Streamed, Untouched, Heard

LEMMA NothingIn == \A e : ~Contains(<<>>, e)
  BY ContainsIs, EmptyIs

\* Nothing has been said of a message that nobody has worked on.
LEMMA NothingSaid ==
  ASSUME NEW m \in MsgIds, Talk(m), chats[m].stage # "over"
  PROVE  ~Heard("answer", m) /\ ~Heard("cancelled", m)
  BY DEF Talk

LEMMA SilentFew == ASSUME NEW m, UpsFewer, DownsFewer PROVE Silent(m)
  BY FewerUps, FewerDowns DEF Silent

\* A step that neither sends nor says anything and moves nothing.
LEMMA TalksStay ==
  ASSUME Talks, UpsFewer, DownsFewer, \A m \in MsgIds : Bears(m) /\ SameTurn(m)
  PROVE  Talks'
<1>1. SentOnce'
  BY FewerUps DEF Talks
<1>2. \A m \in MsgIds : Talk(m)'
  BY TalkKept, SilentFew DEF Talks
<1>3. QED  BY <1>1, <1>2 DEF Talks

LEMMA TalksSend ==
  ASSUME Base, Talks, NEW t \in Tabs, Send(t), NEW m, m = Len(msgs) + 1 PROVE Talks'
<1>1. /\ WireTypes /\ Untold /\ UNCHANGED conn /\ m \in MsgIds /\ m \notin Known /\ Known' = Known \cup {m}
      /\ \A q \in Known : msgs'[q] = msgs[q]
      /\ msgs'[m].items = <<>> /\ msgs'[m].stage \in {"held", "queued"}
      /\ UNCHANGED wires \/ Requested(t, "steer", m)
  BY SendIs, Parts DEF Base
<1>2. Talk(m)
  BY <1>1 DEF Talks
<1>3. ~Up("steer", m) /\ ~Up("chat", m)
  BY <1>1, <1>2 DEF Talk, Streamed
<1>4. SentOnce' /\ \A q \in MsgIds : Silent(q)
  <2>1. CASE UNCHANGED wires
    BY <2>1, SameUps, FewerUps, SilentFew DEF Talks
  <2>2. CASE Requested(t, "steer", m)
    <3>1. conn # 0 /\ Sends(<<"steer", m>>) /\ "steer" \in ToGateway
      BY <2>2 DEF Requested, ToGateway
    <3>2. /\ \A w, q : Up(w, q)' => Up(w, q) \/ <<w, q>> = <<"steer", m>>
          /\ SentOnce' /\ DownsFewer
      BY <1>1, <1>3, <3>1, MoreUps DEF Talks
    <3>3. QED  BY <1>1, <3>2, FewerDowns DEF Silent
  <2>3. QED  BY <1>1, <2>1, <2>2
<1>5. ASSUME NEW q \in MsgIds PROVE Talk(q)'
  <2>1. CASE q = m
    <3>1. Bears(m)
      <4>1. Untouched(m) /\ m \in Known' /\ msgs'[m].stage # "emit"
        BY <1>1 DEF Untouched
      <4>2. QED  BY <1>1, <4>1, NothingIn, BearsUntouched
    <3>2. QED  BY <1>1, <1>2, <1>4, <2>1, <3>1, TalkKept DEF SameTurn, Untold
  <2>2. CASE q # m
    <3>1. Bears(q)
      BY <1>1, <2>2, BearsSame
    <3>2. QED  BY <1>1, <1>4, <3>1, TalkKept DEF Talks, SameTurn, Untold
  <2>3. QED  BY <2>1, <2>2
<1>6. QED  BY <1>4, <1>5 DEF Talks

LEMMA BearsOther ==
  ASSUME NEW m, Only(m), Known' = Known, NEW q, q # m PROVE Bears(q)
<1>1. q \in Known => msgs'[q] = msgs[q]
  BY DEF Only, ButFor, Known
<1>2. QED  BY <1>1, BearsSame

\* A step that moves one message, whose turn can bear it.
LEMMA TalksOnly ==
  ASSUME Talks, NEW m, Only(m), Known' = Known, Bears(m), UpsFewer, DownsFewer,
         UNCHANGED chats
  PROVE  Talks'
<1>1. \A q \in MsgIds : Bears(q) /\ SameTurn(q)
  BY BearsOther DEF SameTurn
<1>2. QED  BY <1>1, TalksStay

LEMMA TalksUnmoved ==
  ASSUME Talks, UNCHANGED <<msgs, chats>>, UpsFewer, DownsFewer PROVE Talks'
<1>1. \A q \in MsgIds : Bears(q) /\ SameTurn(q)
  BY BearsSame DEF SameTurn, Known
<1>2. QED  BY <1>1, TalksStay

\* A held message is queued, or thrown away.
LEMMA TalksQueues ==
  ASSUME Base, Talks, NEW t \in Tabs, tabs[t].at \in {"steer", "orphan"},
         NEW m, m = tabs[t].msg, PutInQueue(t, m),
         Known' = Known, UpsFewer, DownsFewer, UNCHANGED chats
  PROVE  Talks'
<1>1. /\ m \in Known /\ msgs[m].stage = "held" /\ Only(m)
      /\ \/ msgs'[m].stage = "over" /\ msgs'[m].end = "dropped"
         \/ msgs'[m].stage = "queued"
      /\ \A what : Contains(msgs'[m].items, what) => Contains(msgs[m].items, what)
  BY Queues
<1>2. Untouched(m) /\ msgs'[m].stage # "emit"
  BY <1>1 DEF Untouched
<1>3. Bears(m)
  BY <1>1, <1>2, BearsUntouched
<1>4. QED  BY <1>1, <1>3, TalksOnly

LEMMA TalksAckDone ==
  ASSUME Base, Talks, NEW t \in Tabs, AckDone(t), NEW m, m = tabs[t].msg PROVE Talks'
<1>1. /\ Inside /\ m \in Known /\ msgs[m].stage = "held" /\ Only(m) /\ Known' = Known
      /\ msgs'[m].stage = "created" /\ msgs'[m].items = msgs[m].items
  BY AckDoneIs
<1>2. Untouched(m) /\ msgs'[m].stage # "emit"
  BY <1>1 DEF Untouched
<1>3. Bears(m)
  BY <1>1, <1>2, BearsUntouched
<1>4. QED  BY <1>1, <1>3, SameUps, TalksOnly DEF Inside

LEMMA TalksStop == ASSUME Base, Talks, NEW t \in Tabs, Stop(t) PROVE Talks'
<1> DEFINE Thrown == {q \in Known : Contains(queue[tabs[t].key], q)}
<1>1. /\ Inside /\ Known' = Known
      /\ \A q \in Thrown :
           /\ msgs[q].stage = "queued" /\ msgs'[q].stage = "over" /\ msgs'[q].items = <<>>
      /\ \A q \in Known \ Thrown :
           /\ msgs'[q].stage = msgs[q].stage /\ msgs'[q].end = msgs[q].end
           /\ msgs'[q].items = msgs[q].items
  BY StopIs
<1>2. Thrown \subseteq Known
  OBVIOUS
<1> HIDE DEF Thrown
<1>3. ASSUME NEW q PROVE Bears(q)
  <2>1. CASE q \in Thrown
    <3>1. Untouched(q) /\ q \in Known' /\ msgs'[q].stage # "emit"
      BY <1>1, <1>2, <2>1 DEF Untouched
    <3>2. QED  BY <1>1, <2>1, <3>1, NothingIn, BearsUntouched
  <2>2. CASE q \notin Thrown
    BY <1>1, <2>2, BearsSame
  <2>3. QED  BY <2>1, <2>2
<1>4. QED  BY <1>1, <1>3, SameUps, TalksStay DEF Inside, SameTurn

LEMMA TalksCancel == ASSUME Base, Talks, NEW t \in Tabs, NEW m \in Known, Cancel(t, m) PROVE Talks'
<1>1. /\ UNCHANGED <<msgs, chats>> /\ m \in MsgIds /\ conn # 0 /\ Sends(<<"cancel", m>>)
      /\ WireTypes /\ "cancel" \in ToGateway
  BY CancelIs, Parts DEF Requested, ToGateway, Base
<1>2. /\ \A w, q : Up(w, q)' => Up(w, q) \/ <<w, q>> = <<"cancel", m>>
      /\ SentOnce' /\ DownsFewer
  BY <1>1, MoreUps DEF Talks
<1>3. ASSUME NEW q \in MsgIds PROVE Talk(q)'
  <2>1. Silent(q)
    BY <1>2, FewerDowns DEF Silent
  <2>2. Bears(q) /\ SameTurn(q)
    BY <1>1, BearsSame DEF SameTurn, Known
  <2>3. QED  BY <2>1, <2>2, TalkKept DEF Talks
<1>4. QED  BY <1>2, <1>3 DEF Talks

\* The job of message m sends its chat, or cannot.
LEMMA TalksJobStarts == ASSUME Base, Talks, NEW m \in Known, JobStarts(m) PROVE Talks'
<1>1. /\ WireTypes /\ Untold /\ UNCHANGED conn /\ m \in MsgIds /\ msgs[m].stage = "created"
      /\ Only(m) /\ Known' = Known /\ msgs'[m].items = <<>>
      /\ \/ conn # 0 /\ Sends(<<"chat", m>>) /\ msgs'[m].stage = "stream"
         \/ msgs'[m].stage = "emit" /\ msgs'[m].end = "failed" /\ UNCHANGED wires
         \/ conn = 0 /\ msgs'[m].stage = "http" /\ UNCHANGED wires
  BY JobStartsIs, Parts DEF Base
<1>2. Untouched(m) /\ Talk(m)
  BY <1>1 DEF Untouched, Talks
<1>3. ~Up("chat", m) /\ ~Heard("answer", m) /\ ~Heard("cancelled", m)
  BY <1>2 DEF Talk, Streamed, Untouched
<1>4. CASE conn # 0 /\ Sends(<<"chat", m>>) /\ msgs'[m].stage = "stream"
  <2>1. "chat" \in ToGateway
    BY DEF ToGateway
  <2>2. /\ \A w, q : Up(w, q)' => Up(w, q) \/ <<w, q>> = <<"chat", m>>
        /\ SentOnce' /\ DownsFewer
    BY <1>1, <1>3, <1>4, <2>1, MoreUps DEF Talks
  <2>3. ASSUME NEW q \in MsgIds, q # m PROVE Talk(q)'
    <3>1. Silent(q)
      BY <2>2, <2>3, FewerDowns DEF Silent
    <3>2. Bears(q) /\ SameTurn(q)
      BY <1>1, <2>3, BearsOther DEF SameTurn, Untold
    <3>3. QED  BY <3>1, <3>2, TalkKept DEF Talks
  <2>4. Talk(m)'
    <3>1. Streamed(m)' /\ ~Untouched(m)' /\ m \in Known'
      BY <1>1, <1>4 DEF Streamed, Untouched
    <3>2. ~Heard("answer", m)' /\ ~Heard("cancelled", m)'
      BY <1>1, <1>3, <2>2, FewerDowns, NothingIn DEF Heard
    <3>3. chats'[m].stage = "none" /\ chats'[m].end = "none"
      BY <1>1, <1>2 DEF Talk, Untold
    <3>4. QED  BY <1>4, <3>1, <3>2, <3>3 DEF Talk
  <2>5. QED  BY <2>2, <2>3, <2>4 DEF Talks
<1>5. CASE UNCHANGED wires /\ msgs'[m].stage \in {"emit", "http"} /\ (msgs'[m].stage = "emit" => msgs'[m].end = "failed")
  <2>1. SentOnce' /\ UpsFewer /\ DownsFewer
    BY <1>5, SameUps, FewerUps DEF Talks
  <2>2. ASSUME NEW q \in MsgIds, q # m PROVE Talk(q)'
    BY <1>1, <2>1, <2>2, BearsOther, SilentFew, TalkKept DEF Talks, SameTurn, Untold
  <2>3. Talk(m)'
    <3>1. ~Untouched(m)' /\ m \in Known'
      BY <1>1, <1>5 DEF Untouched
    <3>2. ~Heard("answer", m)' /\ ~Heard("cancelled", m)' /\ ~Up("chat", m)'
      BY <1>1, <1>3, <2>1, FewerDowns, FewerUps, NothingIn DEF Heard
    <3>3. chats'[m].stage = "none" /\ chats'[m].end = "none"
      BY <1>1, <1>2 DEF Talk, Untold
    <3>4. QED  BY <1>5, <3>1, <3>2, <3>3 DEF Talk
  <2>4. QED  BY <2>1, <2>2, <2>3 DEF Talks
<1>6. QED  BY <1>1, <1>4, <1>5

\* What ends a stream is what the stream has heard.
LEMMA TalksStreams ==
  ASSUME Base, Talks, NEW m \in Known, StreamItem(m) \/ StreamTimesOut(m) PROVE Talks'
<1>1. /\ Inside /\ Untold /\ m \in MsgIds /\ msgs[m].stage \in {"stream", "http"}
      /\ msgs[m].items \in Seq(Events) /\ Only(m) /\ Known' = Known
      /\ \/ /\ msgs'[m].stage = msgs[m].stage /\ msgs'[m].end = msgs[m].end
            /\ msgs[m].items # <<>> /\ msgs'[m].items = Tail(msgs[m].items)
         \/ /\ msgs'[m].stage = "emit" /\ msgs'[m].items = <<>>
            /\ msgs[m].items # <<>>
            /\ msgs'[m].end = Outcome(Head(msgs[m].items), msgs[m].stage)
            /\ msgs'[m].end \in {"answered", "empty", "failed"}
         \/ msgs'[m].stage = "emit" /\ msgs'[m].items = <<>> /\ msgs'[m].end = "failed"
  BY StreamsIs
<1>2. Talk(m)
  BY <1>1 DEF Talks
<1>3. CASE msgs'[m].stage = msgs[m].stage
  <2>1. ASSUME NEW e, Contains(msgs'[m].items, e) PROVE Contains(msgs[m].items, e)
    <3> DEFINE s == msgs[m].items
    <3>1. /\ s \in Seq(Events) /\ s # <<>> /\ msgs'[m].items = Tail(s)
      BY <1>1, <1>3
    <3> HIDE DEF s
    <3>2. /\ Tail(s) \in Seq(Events) /\ DOMAIN Tail(s) = {i \in DOMAIN s : i + 1 \in DOMAIN s}
          /\ \A i \in DOMAIN Tail(s) : Tail(s)[i] = s[i + 1]
      BY <3>1, TailIs
    <3>3. PICK i \in DOMAIN Tail(s) : Tail(s)[i] = e
      BY <2>1, <3>1, <3>2, ContainsIs
    <3>4. Contains(s, e)
      BY <3>1, <3>2, <3>3, ContainsIs
    <3>5. QED  BY <3>4 DEF s
  <2>2. Bears(m)
    BY <1>1, <1>3, <2>1, BearsSame
  <2>3. QED  BY <1>1, <2>2, SameUps, TalksOnly DEF Inside
<1>4. CASE msgs'[m].stage = "emit"
  <2> DEFINE item == Head(msgs[m].items)
             end == msgs'[m].end
  <2>1. msgs'[m].items = <<>> /\ end \in {"answered", "empty", "failed"}
    BY <1>1, <1>4
  <2>2. ASSUME end # "failed"
        PROVE  /\ end = "answered" => chats[m].end = "done"
               /\ ~(Up("chat", m) \/ chats[m].stage = "created")
    <3>1. msgs[m].items # <<>> /\ end = Outcome(item, msgs[m].stage)
      BY <1>1, <2>2, <1>4
    <3>2. Contains(msgs[m].items, item)
      BY <1>1, <3>1, TailIs, ContainsIs
    <3> HIDE DEF item
    <3>3. /\ end = "answered" => item = "answer"
          /\ end = "empty" => item = "cancelled" \/ msgs[m].stage = "http"
      BY <3>1 DEF Outcome
    <3>4. end = "answered" => chats[m].end = "done"
      BY <1>2, <3>2, <3>3 DEF Talk, Heard
    <3>5. ~(Up("chat", m) \/ chats[m].stage = "created")
      <4>1. CASE end = "answered"
        BY <1>2, <3>4, <4>1 DEF Talk
      <4>2. CASE end = "empty" /\ item = "cancelled"
        BY <1>2, <3>2, <4>2 DEF Talk, Heard
      <4>3. CASE end = "empty" /\ msgs[m].stage = "http"
        BY <1>2, <4>3 DEF Talk, Streamed
      <4>4. QED  BY <2>1, <2>2, <3>3, <4>1, <4>2, <4>3
    <3>6. QED  BY <3>4, <3>5
  <2>3. /\ end = "answered" => chats[m].end = "done"
        /\ Up("chat", m) \/ chats[m].stage = "created" => end = "failed"
    BY <2>2
  <2>4. SentOnce' /\ UpsFewer /\ DownsFewer
    BY <1>1, SameUps, FewerUps DEF Talks, Inside
  <2>5. ASSUME NEW q \in MsgIds, q # m PROVE Talk(q)'
    BY <1>1, <2>4, <2>5, BearsOther, SilentFew, TalkKept DEF Talks, SameTurn, Inside
  <2>6. Talk(m)'
    <3>1. ~Untouched(m)' /\ m \in Known'
      BY <1>1, <1>4 DEF Untouched
    <3>2. /\ Heard("answer", m)' => Heard("answer", m)
          /\ Heard("cancelled", m)' => Heard("cancelled", m)
          /\ Up("chat", m)' => Up("chat", m)
      BY <1>1, <2>1, <2>4, FewerDowns, FewerUps, NothingIn DEF Heard
    <3>3. end = "failed" => Streamed(m)'
      BY <1>1, <1>4 DEF Streamed
    <3>4. UNCHANGED chats
      BY <1>1 DEF Inside
    <3> HIDE DEF end, item
    <3>5. Up("chat", m)' \/ chats'[m].stage = "created" => Streamed(m)'
      BY <2>3, <3>2, <3>3, <3>4
    <3>6. QED  BY <1>2, <1>4, <2>1, <2>3, <3>1, <3>2, <3>4, <3>5 DEF Talk, end
  <2>7. QED  BY <2>4, <2>5, <2>6 DEF Talks
<1>5. QED  BY <1>1, <1>3, <1>4

LEMMA TalksJobOver ==
  ASSUME Base, Talks, NEW m \in Known, JobEnds(m) \/ JobIsStopped(m) PROVE Talks'
<1> DEFINE k == msgs[m].key
           h == Head(queue[k])
<1>1. /\ Inside /\ m \in MsgIds /\ msgs[m].stage \in {"stream", "http", "emit"}
      /\ Known' = Known /\ msgs'[m].stage = "over" /\ msgs'[m].items = <<>>
      /\ \/ msgs[m].stage = "emit" /\ msgs'[m].end = msgs[m].end
         \/ msgs'[m].end = "stopped"
      /\ \/ /\ h \in Known /\ h # m /\ msgs[h].stage = "queued"
            /\ msgs'[h].stage = "created" /\ msgs'[h].items = msgs[h].items
            /\ \A q \in Known : q # m /\ q # h => msgs'[q] = msgs[q]
         \/ \A q \in Known : q # m => msgs'[q] = msgs[q]
  BY JobOverIs
<1> HIDE DEF k, h
<1>2. Talk(m)
  BY <1>1 DEF Talks
<1>3. Bears(m)
  <2>1. ~Untouched(m)'
    BY <1>1, <1>2 DEF Untouched, Talk
  <2>2. Streamed(m) => Streamed(m)'
    BY <1>1 DEF Streamed
  <2>3. QED  BY <1>1, <2>1, <2>2, NothingIn DEF Bears
<1>4. ASSUME NEW q, q # m PROVE Bears(q)
  <2>1. CASE q \in Known /\ msgs[q].stage = "queued" /\ msgs'[q].stage = "created" /\ msgs'[q].items = msgs[q].items
    <3>1. Untouched(q) /\ q \in Known' /\ msgs'[q].stage # "emit"
      BY <1>1, <2>1 DEF Untouched
    <3>2. QED  BY <1>1, <2>1, <3>1, BearsUntouched
  <2>2. CASE q \in Known => msgs'[q] = msgs[q]
    BY <1>1, <2>2, BearsSame
  <2>3. QED  BY <1>1, <1>4, <2>1, <2>2
<1>5. QED  BY <1>1, <1>3, <1>4, SameUps, TalksStay DEF Inside, SameTurn

LEMMA TalksJobNeverRuns == ASSUME Base, Talks, NEW m \in Known, JobNeverRuns(m) PROVE Talks'
<1>1. /\ Inside /\ msgs[m].stage = "created" /\ Only(m) /\ Known' = Known
      /\ msgs'[m].items = <<>> /\ msgs'[m].stage = "over"
  BY JobNeverRunsIs
<1>2. Untouched(m) /\ msgs'[m].stage # "emit"
  BY <1>1 DEF Untouched
<1>3. Bears(m)
  BY <1>1, <1>2, NothingIn, BearsUntouched
<1>4. QED  BY <1>1, <1>3, SameUps, TalksOnly DEF Inside

LEMMA TalksClientNotices == ASSUME Base, Talks, ClientNotices PROVE Talks'
<1>1. /\ Untold /\ SameWires /\ Known' = Known /\ MsgTypes
      /\ \A n \in DOMAIN wires :
           /\ wires'[n].up = wires[n].up
           /\ wires'[n].down = IF n = conn THEN <<>> ELSE wires[n].down
      /\ \A q \in Known :
           /\ msgs'[q].stage = msgs[q].stage /\ msgs'[q].end = msgs[q].end
           /\ IF Registered(q) THEN msgs'[q].items = Put(msgs[q].items, "lost")
              ELSE msgs'[q].items = msgs[q].items
  BY ClientNoticesIs, Parts DEF Base
<1>2. UpsFewer /\ DownsFewer
  BY <1>1, EmptyIs DEF UpsFewer, DownsFewer, SameWires
<1>3. ASSUME NEW q PROVE Bears(q)
  <2>1. ASSUME q \in Known, NEW e \in {"answer", "cancelled"}, Contains(msgs'[q].items, e)
        PROVE  Contains(msgs[q].items, e)
    <3>1. msgs[q].items \in Seq(Events) /\ "lost" \in Events
      BY <1>1, <2>1, FieldsOf DEF MsgTypes, Events, Known
    <3>2. QED  BY ZenonT(60), <1>1, <2>1, <3>1, PutIs
  <2>2. QED  BY <1>1, <2>1, BearsSame
<1>4. QED  BY <1>1, <1>2, <1>3, TalksStay DEF Untold, SameTurn

LEMMA TalksConnect == ASSUME Base, Talks, Connect PROVE Talks'
<1> DEFINE n == Len(wires) + 1
<1>1. /\ Untold /\ UNCHANGED msgs /\ DOMAIN wires' = DOMAIN wires \cup {n}
      /\ wires'[n] = NewWire /\ \A p \in DOMAIN wires : wires'[p] = wires[p]
  BY ConnectIs
<1> HIDE DEF n
<1>2. DOMAIN wires'[n].up = {} /\ DOMAIN wires'[n].down = {}
  BY <1>1, EmptyIs DEF NewWire
<1>3. UpsFewer /\ DownsFewer
  BY <1>1, <1>2 DEF UpsFewer, DownsFewer
<1>4. QED  BY <1>1, <1>3, TalksUnmoved DEF Untold

LEMMA TalksBreak == ASSUME Base, Talks, Break PROVE Talks'
<1>1. Untold /\ UNCHANGED msgs /\ SameWires /\ DownsStay /\ WireTypes
  BY BreakIs, Parts DEF Base
<1>2. PICK n \in DOMAIN wires : \E i \in 0 .. Len(wires[n].up) :
        /\ wires'[n].up = SubSeq(wires[n].up, 1, i)
        /\ \A p \in DOMAIN wires : p # n => wires'[p].up = wires[p].up
  BY BreakIs
<1>3. PICK i \in 0 .. Len(wires[n].up) :
        /\ wires'[n].up = SubSeq(wires[n].up, 1, i)
        /\ \A p \in DOMAIN wires : p # n => wires'[p].up = wires[p].up
  BY <1>2
<1>4. /\ DOMAIN wires'[n].up = 1 .. i
      /\ \A j \in 1 .. i : j \in DOMAIN wires[n].up /\ wires'[n].up[j] = wires[n].up[j]
  BY <1>1, <1>3, WireFields, PrefixIs DEF WireTypes
<1>5. UpsFewer /\ DownsFewer
  BY <1>1, <1>3, <1>4 DEF UpsFewer, DownsFewer, SameWires, DownsStay
<1>6. QED  BY <1>1, <1>5, TalksUnmoved DEF Untold

\* What arrives has been on its way.
LEMMA TalksReceive ==
  ASSUME Base, Talks, Receive, NEW what, NEW m,
         what = wires[conn].down[1][1], m = wires[conn].down[1][2]
  PROVE  Talks'
<1>1. /\ UNCHANGED chats /\ conn \in DOMAIN wires /\ wires[conn].down # <<>>
      /\ wires[conn].down \in Seq(DownFrames) /\ wires[conn].down[1] = <<what, m>> /\ m \in MsgIds
      /\ 1 \in DOMAIN wires[conn].down /\ SameWires /\ Known' = Known
      /\ \A p \in DOMAIN wires :
           /\ wires'[p].up = wires[p].up
           /\ wires'[p].down = IF p = conn THEN Tail(wires[conn].down) ELSE wires[p].down
  BY ReceiveIs
<1>2. \/ /\ what \in Events /\ m \in Known /\ Registered(m) /\ Only(m)
         /\ msgs'[m].stage = "stream" /\ msgs'[m].end = msgs[m].end
         /\ msgs'[m].items = Put(msgs[m].items, what)
      \/ \E t \in Tabs :
           /\ tabs[t].at \in {"steer", "orphan"} /\ tabs[t].msg = m
           /\ m \in Known /\ msgs[m].stage = "held"
           /\ \/ Only(m) /\ msgs'[m].stage = "over" /\ msgs'[m].items = <<>>
              \/ PutInQueue(t, m)
      \/ UNCHANGED msgs
  BY ReceiveIs
<1>3. Down(what, m)
  BY <1>1 DEF Down
<1>4. UpsFewer
  BY <1>1 DEF UpsFewer, SameWires
<1>5. DownsFewer
  <2> DEFINE d == wires[conn].down
  <2>1. /\ DOMAIN Tail(d) = {i \in DOMAIN d : i + 1 \in DOMAIN d}
        /\ \A i \in DOMAIN Tail(d) : Tail(d)[i] = d[i + 1]
    BY <1>1, TailIs
  <2>2. QED  BY <1>1, <2>1 DEF DownsFewer, SameWires
<1>6. CASE /\ what \in Events /\ m \in Known /\ Registered(m) /\ Only(m)
           /\ msgs'[m].stage = "stream" /\ msgs'[m].end = msgs[m].end
           /\ msgs'[m].items = Put(msgs[m].items, what)
  <2>1. MsgTypes
    BY Parts DEF Base
  <2>2. msgs[m].items \in Seq(Events) /\ msgs[m].stage = "stream"
    BY <1>6, <2>1, FieldsOf DEF MsgTypes, Registered, Known
  <2>3. ASSUME NEW e, Contains(msgs'[m].items, e) PROVE Heard(e, m)
    <3>1. Contains(Put(msgs[m].items, what), e) /\ what \in Events /\ m \in Known
      BY <1>6, <2>3
    <3>2. Contains(msgs[m].items, e) \/ e = what
      BY <2>2, <3>1, PutIs
    <3>3. QED  BY <1>3, <3>1, <3>2 DEF Heard
  <2>4. Bears(m)
    BY <1>1, <1>6, <2>2, <2>3 DEF Bears, Untouched, Streamed
  <2>5. QED  BY <1>1, <1>4, <1>5, <1>6, <2>4, TalksOnly
<1>7. ASSUME m \in Known, msgs[m].stage = "held", Only(m), msgs'[m].stage = "over",
             msgs'[m].items = <<>>
      PROVE  Talks'
  <2>1. Untouched(m) /\ m \in Known' /\ msgs'[m].stage # "emit"
    BY <1>1, <1>7 DEF Untouched
  <2>2. Bears(m)
    BY <1>7, <2>1, NothingIn, BearsUntouched
  <2>3. QED  BY <1>1, <1>4, <1>5, <1>7, <2>2, TalksOnly
<1>8. ASSUME NEW t \in Tabs, tabs[t].at \in {"steer", "orphan"}, tabs[t].msg = m, PutInQueue(t, m)
      PROVE  Talks'
  BY <1>1, <1>4, <1>5, <1>8, TalksQueues
<1>9. CASE UNCHANGED msgs
  BY <1>1, <1>4, <1>5, <1>9, TalksUnmoved
<1>10. QED  BY <1>2, <1>6, <1>7, <1>8, <1>9

\* The gateway takes a chat only of a job at work, and once.
LEMMA TalksGatewayTakes ==
  ASSUME Base, Talks, NEW n \in DOMAIN wires, GatewayTakes(n),
         NEW frame, NEW m, frame = wires[n].up[1], m = frame[2]
  PROVE  Talks'
<1>1. /\ UNCHANGED msgs /\ 1 \in DOMAIN wires[n].up /\ wires[n].up # <<>> /\ m \in MsgIds
      /\ SameWires /\ WireTypes
      /\ \A p \in DOMAIN wires :
           wires'[p].up = IF p = n THEN Tail(wires[n].up) ELSE wires[p].up
      /\ \/ /\ frame = <<"chat", m>> /\ DownsStay
            /\ ChatButFor(chats', m) /\ chats'[m].stage = "created"
            /\ chats'[m].end = chats[m].end
         \/ /\ ChatButFor(chats', m) \/ UNCHANGED chats
            /\ chats'[m].stage = chats[m].stage /\ chats'[m].end = chats[m].end
            /\ \E what \in {"failed", "injected", "refused", "heeded"} : SaysOn(n, what, m)
  BY GatewayTakesIs, Parts DEF Base
<1>2. /\ \A w, q : Up(w, q)' => Up(w, q)
      /\ SentOnce'
      /\ frame = <<"chat", m>> => Up("chat", m) /\ ~Up("chat", m)'
  BY <1>1, UpTaken DEF Talks
<1>3. \A q, e : e \in {"answer", "cancelled"} /\ Down(e, q)' => Down(e, q)
  <2>1. CASE DownsStay
    <3>1. DownsFewer
      BY <1>1, <2>1 DEF DownsStay, DownsFewer, SameWires
    <3>2. QED  BY <3>1, FewerDowns
  <2>2. ASSUME NEW what \in {"failed", "injected", "refused", "heeded"}, SaysOn(n, what, m)
        PROVE  \A q, e : e \in {"answer", "cancelled"} /\ Down(e, q)' => Down(e, q)
    <3>1. what \in ToClient
      BY DEF ToClient, Events
    <3>2. \A w, q : Down(w, q)' => Down(w, q) \/ <<w, q>> = <<what, m>>
      BY <1>1, <2>2, <3>1, MoreDowns
    <3>3. QED  BY <3>2
  <2>3. QED  BY <1>1, <2>1, <2>2
<1>4. ASSUME NEW q \in MsgIds PROVE Silent(q) /\ Bears(q)
  BY <1>1, <1>2, <1>3, BearsSame DEF Silent, Known
<1>5. ASSUME NEW q \in MsgIds, SameTurn(q) PROVE Talk(q)'
  BY <1>4, <1>5, TalkKept DEF Talks
<1>6. \A q \in MsgIds : q # m => SameTurn(q)
  BY <1>1 DEF SameTurn, ChatButFor
<1>7. CASE SameTurn(m)
  BY <1>2, <1>5, <1>6, <1>7 DEF Talks
<1>8. CASE frame = <<"chat", m>> /\ chats'[m].stage = "created" /\ chats'[m].end = chats[m].end
  <2>1. Talk(m) /\ Up("chat", m) /\ ~Up("chat", m)'
    BY <1>1, <1>2, <1>8 DEF Talks
  <2>2. chats[m].stage = "none" /\ chats'[m].end = "none" /\ Streamed(m)
    BY <1>8, <2>1 DEF Talk
  <2>3. Streamed(m)' /\ ~Untouched(m)' /\ m \in Known'
    BY <1>1, <2>2 DEF Streamed, Untouched, Known
  <2>4. ~Heard("answer", m)' /\ ~Heard("cancelled", m)'
    BY <1>1, <1>3, <2>1, <2>2 DEF Talk, Heard, Known
  <2>5. m \in Known' /\ msgs'[m].stage = "emit" =>
          /\ msgs'[m].end \in {"answered", "empty", "failed"}
          /\ msgs'[m].end # "answered"
    BY <1>1, <2>1, <2>2 DEF Talk, Known
  <2>6. Talk(m)'
    BY <1>8, <2>1, <2>2, <2>3, <2>4, <2>5 DEF Talk
  <2>7. QED  BY <1>2, <1>5, <1>6, <2>6 DEF Talks
<1>9. QED  BY <1>1, <1>7, <1>8 DEF SameTurn

LEMMA TalksHttpAccepted == ASSUME Base, Talks, NEW m \in Known, HttpAccepted(m) PROVE Talks'
<1>1. /\ m \in MsgIds /\ UNCHANGED wires /\ msgs[m].stage = "http" /\ chats[m].stage = "none"
      /\ Known' = Known
      /\ \/ /\ ChatButFor(chats', m) /\ chats'[m].stage = "running"
            /\ chats'[m].end = chats[m].end /\ UNCHANGED msgs
         \/ /\ Only(m) /\ msgs'[m].stage = "http" /\ msgs'[m].end = msgs[m].end
            /\ msgs'[m].items = <<"lost">> /\ UNCHANGED chats
  BY HttpAcceptedIs
<1>2. SentOnce' /\ UpsFewer /\ DownsFewer
  BY <1>1, SameUps, FewerUps DEF Talks
<1>3. CASE /\ ChatButFor(chats', m) /\ chats'[m].stage = "running"
           /\ chats'[m].end = chats[m].end /\ UNCHANGED msgs
  <2>1. Talk(m)
    BY <1>1 DEF Talks
  <2>2. ASSUME NEW q \in MsgIds, q # m PROVE Talk(q)'
    BY <1>2, <1>3, <2>2, BearsSame, SilentFew, TalkKept DEF Talks, SameTurn, ChatButFor, Known
  <2>3. ~Up("chat", m)' /\ ~Untouched(m)'
    BY <1>1, <1>2, <1>3, <2>1, FewerUps DEF Talk, Streamed, Untouched, Known
  <2>4. chats[m].end = "none" /\ ~Heard("answer", m)' /\ ~Heard("cancelled", m)'
    BY <1>1, <1>2, <1>3, <2>1, FewerDowns DEF Talk, Heard, Known
  <2>5. (Up("steer", m)' => m \in Known') /\ msgs'[m].stage # "emit"
    BY <1>1, <1>3
  <2>6. Talk(m)'
    BY <1>3, <2>3, <2>4, <2>5 DEF Talk
  <2>7. QED  BY <1>2, <2>2, <2>6 DEF Talks
<1>4. CASE /\ Only(m) /\ msgs'[m].stage = "http" /\ msgs'[m].end = msgs[m].end
           /\ msgs'[m].items = <<"lost">> /\ UNCHANGED chats
  <2>1. <<"lost">> \in Seq(Events) /\ DOMAIN <<"lost">> = {1} /\ <<"lost">>[1] = "lost"
    BY DEF Events
  <2>2. \A e \in {"answer", "cancelled"} : ~Contains(<<"lost">>, e)
    BY ZenonT(60), <2>1, ContainsIs
  <2>3. Bears(m)
    BY <1>1, <1>4, <2>2, BearsSame
  <2>4. QED  BY <1>1, <1>2, <1>4, <2>3, TalksOnly
<1>5. QED  BY <1>1, <1>3, <1>4

\* A turn goes on that nothing has been heard of.
LEMMA TalksChatGoes ==
  ASSUME Base, Talks, NEW m \in Known, ChatStarts(m) \/ ChatEntersLoop(m) PROVE Talks'
<1>1. /\ m \in MsgIds /\ ChatButFor(chats', m) /\ UNCHANGED <<msgs, wires>>
      /\ chats[m].stage \in {"created", "running"}
      /\ \/ chats'[m].stage = "over" /\ chats'[m].end = "unrun"
         \/ chats'[m].stage \in {"running", "loop"} /\ chats'[m].end = chats[m].end
  BY ChatGoesIs
<1>2. SentOnce' /\ UpsFewer /\ DownsFewer /\ Talk(m)
  BY <1>1, SameUps, FewerUps DEF Talks
<1>3. ASSUME NEW q \in MsgIds, q # m PROVE Talk(q)'
  BY <1>1, <1>2, <1>3, BearsSame, SilentFew, TalkKept DEF Talks, SameTurn, ChatButFor, Known
<1>4. ~Up("chat", m)' /\ ~Untouched(m)'
  BY <1>1, <1>2, FewerUps DEF Talk, Untouched, Known
<1>5. chats[m].end = "none" /\ ~Heard("answer", m)' /\ ~Heard("cancelled", m)'
  BY <1>1, <1>2, FewerDowns DEF Talk, Heard, Known
<1>6. /\ Up("steer", m)' => m \in Known'
      /\ m \in Known' /\ msgs'[m].stage = "emit" =>
           msgs'[m].end \in {"answered", "empty", "failed"} /\ msgs'[m].end # "answered"
  BY <1>1, <1>2, <1>5 DEF Talk, Known
<1>7. Talk(m)'
  BY <1>1, <1>4, <1>5, <1>6 DEF Talk
<1>8. QED  BY <1>2, <1>3, <1>7 DEF Talks

\* Only a turn that is done answers, and only one that is over was cancelled.
LEMMA TalksChatSays ==
  ASSUME Base, Talks, NEW m \in Known, ChatProgress(m) \/ ChatAnswers(m) \/ ChatFails(m)
  PROVE  Talks'
<1>1. PICK what \in Events :
        /\ Told(m, what) /\ m \in MsgIds /\ Known' = Known
        /\ chats[m].stage \in {"running", "loop"}
        /\ \/ what = "progress" /\ UNCHANGED chats
           \/ /\ what # "progress" /\ ChatButFor(chats', m) /\ chats'[m].stage = "over"
              /\ what = "answer" => chats'[m].end = "done"
  <2>1. {"progress", "answer", "cancelled", "failed"} \subseteq Events
    BY DEF Events
  <2>2. QED  BY <2>1, ChatSaysIs
<1>2. /\ UpsFewer /\ SentOnce' /\ Talk(m)
      /\ \A w, q : Down(w, q)' => Down(w, q) \/ <<w, q>> = <<what, m>>
  BY <1>1, ToldDowns, FewerUps DEF Talks
<1>3. /\ \A q \in Known : msgs'[q].stage = msgs[q].stage /\ msgs'[q].end = msgs[q].end
      /\ \A q \in Known : \A e : Contains(msgs'[q].items, e) =>
           Contains(msgs[q].items, e) \/ (q = m /\ e = what)
  <2>1. CASE UNCHANGED msgs
    BY <2>1
  <2>2. CASE ~ UNCHANGED msgs
    BY <1>1, <2>2 DEF Told, Only, ButFor, Known
  <2>3. QED  BY <2>1, <2>2
<1>4. ASSUME NEW q \in MsgIds, q # m \/ what = "progress" PROVE Talk(q)'
  <2>1. Bears(q)
    BY <1>1, <1>3, <1>4, BearsSame
  <2>2. Silent(q)
    BY <1>2, <1>4, FewerUps DEF Silent
  <2>3. CASE SameTurn(q)
    BY <2>1, <2>2, <2>3, TalkKept DEF Talks
  <2>4. CASE q # m
    BY <1>1, <2>3, <2>4 DEF SameTurn, ChatButFor
  <2>5. CASE q = m /\ UNCHANGED chats
    BY <2>3, <2>5 DEF SameTurn
  <2>6. QED  BY <1>1, <1>4, <2>4, <2>5
<1>5. CASE what # "progress"
  <2>1. ChatButFor(chats', m) /\ chats'[m].stage = "over" /\ (what = "answer" => chats'[m].end = "done")
    BY <1>1, <1>5
  <2>2. ~Up("chat", m)' /\ ~Untouched(m)' /\ (Up("steer", m)' => m \in Known')
    BY <1>1, <1>2, <1>3, FewerUps DEF Talk, Untouched
  <2>3. chats[m].end = "none" /\ ~Heard("answer", m)
    BY <1>1, <1>2 DEF Talk
  <2>4. Heard("answer", m)' => chats'[m].end = "done"
    BY <1>1, <1>2, <1>3, <2>1, <2>3 DEF Heard
  <2>5. m \in Known' /\ msgs'[m].stage = "emit" =>
          msgs'[m].end \in {"answered", "empty", "failed"} /\ msgs'[m].end # "answered"
    BY <1>1, <1>2, <1>3, <2>3 DEF Talk
  <2>6. Talk(m)'
    BY <2>1, <2>2, <2>4, <2>5 DEF Talk
  <2>7. QED  BY <1>2, <1>4, <2>6 DEF Talks
<1>6. QED  BY <1>2, <1>4, <1>5 DEF Talks

LEMMA TalksRestart == ASSUME Base, Talks, GatewayRestarts PROVE Talks'
<1>1. /\ SameWires /\ DownsStay /\ Known' = Known
      /\ \A p \in DOMAIN wires : wires'[p].up = <<>>
      /\ \A q \in Known :
           /\ msgs'[q].stage = msgs[q].stage /\ msgs'[q].end = msgs[q].end
           /\ \A e : Contains(msgs'[q].items, e) => Contains(msgs[q].items, e) \/ e = "lost"
      /\ \A m \in MsgIds :
           IF chats[m].stage \in {"created", "running", "loop"}
           THEN chats'[m].stage = "over"
           ELSE chats'[m] = chats[m]
  BY RestartIs
<1>2. UpsFewer /\ DownsFewer
  BY <1>1, EmptyIs DEF UpsFewer, DownsFewer, SameWires, DownsStay
<1>3. SentOnce'
  BY <1>2, FewerUps DEF Talks
<1>4. ASSUME NEW m \in MsgIds PROVE Talk(m)'
  <2>1. Talk(m)
    BY DEF Talks
  <2>2. CASE chats[m].stage \in {"created", "running", "loop"}
    <3>1. chats'[m].stage = "over" /\ chats[m].end = "none"
      BY <1>1, <2>1, <2>2 DEF Talk
    <3>2. ~Up("chat", m)' /\ ~Untouched(m)' /\ (Up("steer", m)' => m \in Known')
      BY <1>1, <1>2, <2>1, <2>2, FewerUps DEF Talk, Untouched
    <3>3. ~Heard("answer", m)'
      BY <1>1, <1>2, <2>1, <3>1, FewerDowns DEF Talk, Heard
    <3>4. m \in Known' /\ msgs'[m].stage = "emit" =>
            msgs'[m].end \in {"answered", "empty", "failed"} /\ msgs'[m].end # "answered"
      BY <1>1, <2>1, <3>1 DEF Talk
    <3>5. QED  BY <3>1, <3>2, <3>3, <3>4 DEF Talk
  <2>3. CASE chats[m].stage \notin {"created", "running", "loop"}
    <3>1. Bears(m) /\ SameTurn(m)
      BY <1>1, <2>3, BearsSame DEF SameTurn
    <3>2. QED  BY <1>2, <2>1, <3>1, SilentFew, TalkKept
  <2>4. QED  BY <2>2, <2>3
<1>5. QED  BY <1>3, <1>4 DEF Talks

LEMMA TalksInit == Init => Talks
<1> SUFFICES ASSUME Init PROVE Talks
  OBVIOUS
<1>1. DOMAIN wires = {} /\ Known = {}
  BY EmptyIs DEF Init, Known
<1>2. \A w, m : ~Up(w, m) /\ ~Down(w, m)
  BY <1>1 DEF Up, Down
<1>3. SentOnce
  BY <1>1 DEF SentOnce
<1>4. \A m \in MsgIds : chats[m].stage = "none" /\ chats[m].end = "none"
  BY DEF Init, NoChat
<1>5. ASSUME NEW m \in MsgIds PROVE Talk(m)
  BY <1>1, <1>2, <1>4 DEF Talk, Heard
<1>6. QED  BY <1>3, <1>5 DEF Talks

LEMMA TalksNext == Base /\ Talks /\ [Next]_vars => Talks'
<1> SUFFICES ASSUME Base, Talks, [Next]_vars PROVE Talks'
  OBVIOUS
<1>1. ASSUME NEW t \in Tabs, Send(t) PROVE Talks'
  BY <1>1, TalksSend
<1>2. ASSUME NEW t \in Tabs, Stop(t) PROVE Talks'
  BY <1>2, TalksStop
<1>3. ASSUME NEW t \in Tabs, Close(t) PROVE Talks'
  <2>1. Inside /\ UNCHANGED msgs
    BY <1>3, CloseIs
  <2>2. QED  BY <2>1, SameUps, TalksUnmoved DEF Inside
<1>4. ASSUME NEW t \in Tabs, NEW m \in Known, Cancel(t, m) PROVE Talks'
  BY <1>4, TalksCancel
<1>5. ASSUME NEW t \in Tabs, NEW k \in Keys, Move(t, k) PROVE Talks'
  <2>1. Inside /\ UNCHANGED msgs
    BY <1>5, MoveIs
  <2>2. QED  BY <2>1, SameUps, TalksUnmoved DEF Inside
<1>6. ASSUME NEW t \in Tabs, AckDone(t) PROVE Talks'
  BY <1>6, TalksAckDone
<1>7. ASSUME NEW t \in Tabs, SteerUnanswered(t) PROVE Talks'
  <2>1. /\ UNCHANGED <<wires, chats>> /\ tabs[t].at \in {"steer", "orphan"}
        /\ PutInQueue(t, tabs[t].msg)
    BY <1>7, SteerUnansweredIs
  <2>2. Known' = Known
    BY <2>1, Queues DEF Only, ButFor, Known
  <2>3. QED  BY <2>1, <2>2, SameUps, TalksQueues
<1>8. ASSUME NEW t \in Tabs, CancelUnanswered(t) PROVE Talks'
  <2>1. Untold /\ UNCHANGED <<msgs, wires>>
    BY <1>8, CancelUnansweredIs
  <2>2. QED  BY <2>1, SameUps, TalksUnmoved DEF Untold
<1>9. ASSUME NEW m \in Known, JobStarts(m) PROVE Talks'
  BY <1>9, TalksJobStarts
<1>10. ASSUME NEW m \in Known, StreamItem(m) \/ StreamTimesOut(m) PROVE Talks'
  BY <1>10, TalksStreams
<1>11. ASSUME NEW m \in Known, JobEnds(m) \/ JobIsStopped(m) PROVE Talks'
  BY <1>11, TalksJobOver
<1>12. ASSUME NEW m \in Known, JobNeverRuns(m) PROVE Talks'
  BY <1>12, TalksJobNeverRuns
<1>13. ASSUME Connect PROVE Talks'
  BY <1>13, TalksConnect
<1>14. ASSUME ClientNotices PROVE Talks'
  BY <1>14, TalksClientNotices
<1>15. ASSUME Receive PROVE Talks'
  BY <1>15, TalksReceive
<1>16. ASSUME NEW n \in DOMAIN wires, GatewayTakes(n) PROVE Talks'
  BY <1>16, TalksGatewayTakes
<1>17. ASSUME NEW m \in Known, HttpAccepted(m) PROVE Talks'
  BY <1>17, TalksHttpAccepted
<1>18. ASSUME NEW m \in Known, ChatStarts(m) \/ ChatEntersLoop(m) PROVE Talks'
  BY <1>18, TalksChatGoes
<1>19. ASSUME NEW m \in Known, ChatProgress(m) \/ ChatAnswers(m) \/ ChatFails(m) PROVE Talks'
  BY <1>19, TalksChatSays
<1>20. ASSUME Break PROVE Talks'
  BY <1>20, TalksBreak
<1>21. ASSUME GatewayRestarts PROVE Talks'
  BY <1>21, TalksRestart
<1>22. CASE UNCHANGED vars
  <2>1. UNCHANGED <<msgs, wires, chats>>
    BY <1>22 DEF vars, handler, gateway
  <2>2. QED  BY <2>1, SameUps, TalksUnmoved
<1>23. QED
  BY <1>1, <1>2, <1>3, <1>4, <1>5, <1>6, <1>7, <1>8, <1>9, <1>10, <1>11, <1>12, <1>13, <1>14,
     <1>15, <1>16, <1>17, <1>18, <1>19, <1>20, <1>21, <1>22
  DEF Next, UserActs, HandlerSteps, ClientSteps, GatewaySteps, Faults

-----------------------------------------------------------------------------
(* The three programs implement the conversation.                          *)

FateStays(m) == Fate(m)' = Fate(m)
TurnStays(m) == TurnOf(m)' = TurnOf(m)
FatesStay    == \A m \in MsgIds : FateStays(m)
TurnsStay    == \A m \in MsgIds : TurnStays(m)
FateGoes(m, from, to) ==
  Fate(m) = from /\ Fate(m)' = to /\ \A q \in MsgIds : q # m => FateStays(q)

Follows == [Promise!Next]_(Promise!vars)

LEMMA SameFate ==
  ASSUME NEW q, q \in Known <=> q \in Known',
         q \in Known => msgs'[q].stage = msgs[q].stage /\ msgs'[q].end = msgs[q].end
  PROVE  FateStays(q)
  BY DEF FateStays, Fate

LEMMA SameTurnStays == ASSUME NEW q, SameTurn(q) PROVE TurnStays(q)
  BY DEF SameTurn, TurnStays, TurnOf

LEMMA OthersFates == ASSUME NEW m, Only(m), Known' = Known PROVE \A q \in MsgIds : q # m => FateStays(q)
<1>1. \A q \in Known : q # m => msgs'[q] = msgs[q]
  BY DEF Only, ButFor, Known
<1>2. QED  BY <1>1, SameFate

LEMMA FatesUnmoved == ASSUME UNCHANGED msgs PROVE FatesStay
  BY SameFate DEF FatesStay, Known

LEMMA TurnsUnmoved == ASSUME UNCHANGED chats PROVE TurnsStay
  BY SameTurnStays DEF TurnsStay, SameTurn

LEMMA Stutters == ASSUME FatesStay, TurnsStay PROVE Follows
<1>1. [m \in MsgIds |-> Fate(m)]' = [m \in MsgIds |-> Fate(m)]
  BY DEF FatesStay, FateStays
<1>2. [m \in MsgIds |-> TurnOf(m)]' = [m \in MsgIds |-> TurnOf(m)]
  BY DEF TurnsStay, TurnStays
<1>3. QED  BY <1>1, <1>2 DEF Follows, Promise!vars

LEMMA Goes ==
  ASSUME NEW m \in MsgIds, NEW from, NEW to, FateGoes(m, from, to), TurnsStay
  PROVE  Promise!Goes(m, from, to) /\ UNCHANGED [q \in MsgIds |-> TurnOf(q)]
<1>1. [q \in MsgIds |-> Fate(q)]' = [[q \in MsgIds |-> Fate(q)] EXCEPT ![m] = to]
  BY DEF FateGoes, FateStays
<1>2. Fate(m) = from
  BY DEF FateGoes
<1>3. UNCHANGED [q \in MsgIds |-> TurnOf(q)]
  BY DEF TurnsStay, TurnStays
<1>4. QED  BY <1>1, <1>2, <1>3 DEF Promise!Goes

LEMMA GoesOn ==
  ASSUME NEW m \in MsgIds, TurnsStay,
         \/ FateGoes(m, "unsent", "pending")
         \/ FateGoes(m, "pending", "working")
         \/ \E end \in {"steered", "dropped", "stuck"} : FateGoes(m, "pending", end)
         \/ \E end \in {"failed", "empty", "stopped"} : FateGoes(m, "working", end)
         \/ TurnOf(m) = "done" /\ FateGoes(m, "working", "answered")
  PROVE  Follows
<1>1. m \in Promise!Messages
  BY DEF Promise!Messages, MsgIds
<1>2. CASE FateGoes(m, "unsent", "pending")
  BY <1>1, <1>2, Goes DEF Follows, Promise!Next, Promise!Sent
<1>3. CASE FateGoes(m, "pending", "working")
  BY <1>1, <1>3, Goes DEF Follows, Promise!Next, Promise!Taken
<1>4. CASE FateGoes(m, "pending", "steered")
  BY <1>1, <1>4, Goes DEF Follows, Promise!Next, Promise!Steered
<1>5. CASE FateGoes(m, "pending", "dropped") \/ FateGoes(m, "pending", "stuck")
  BY <1>1, <1>5, Goes DEF Follows, Promise!Next, Promise!Lost
<1>6. CASE \E end \in {"failed", "empty", "stopped"} : FateGoes(m, "working", end)
  BY <1>1, <1>6, Goes DEF Follows, Promise!Next, Promise!GivenUp
<1>7. CASE TurnOf(m) = "done" /\ FateGoes(m, "working", "answered")
  BY <1>1, <1>7, Goes DEF Follows, Promise!Next, Promise!Answered
<1>8. QED  BY <1>2, <1>3, <1>4, <1>5, <1>6, <1>7

LEMMA Turns ==
  ASSUME NEW m \in MsgIds, FatesStay, \A q \in MsgIds : q # m => TurnStays(q),
         \/ /\ Fate(m) \in {"working", "failed", "stopped"}
            /\ TurnOf(m) = "none" /\ TurnOf(m)' = "running"
         \/ TurnOf(m) = "running" /\ TurnOf(m)' \in {"done", "broken"}
  PROVE  Follows
<1>1. m \in Promise!Messages
  BY DEF Promise!Messages, MsgIds
<1>2. [q \in MsgIds |-> TurnOf(q)]' = [[q \in MsgIds |-> TurnOf(q)] EXCEPT ![m] = TurnOf(m)']
  BY DEF TurnStays
<1>3. UNCHANGED [q \in MsgIds |-> Fate(q)]
  BY DEF FatesStay, FateStays
<1>4. CASE /\ Fate(m) \in {"working", "failed", "stopped"}
           /\ TurnOf(m) = "none" /\ TurnOf(m)' = "running"
  <2>1. Promise!TurnStarts(m)
    BY <1>2, <1>3, <1>4 DEF Promise!TurnStarts
  <2>2. QED  BY <1>1, <2>1 DEF Follows, Promise!Next
<1>5. CASE TurnOf(m) = "running" /\ TurnOf(m)' \in {"done", "broken"}
  <2>1. Promise!TurnEnds(m)
    BY <1>2, <1>3, <1>5 DEF Promise!TurnEnds
  <2>2. QED  BY <1>1, <2>1 DEF Follows, Promise!Next
<1>6. QED  BY <1>4, <1>5

LEMMA FollowsSend == ASSUME Base, NEW t \in Tabs, Send(t), NEW m, m = Len(msgs) + 1 PROVE Follows
<1>1. /\ Untold /\ m \in MsgIds /\ m \notin Known /\ Known' = Known \cup {m}
      /\ \A q \in Known : msgs'[q] = msgs[q]
      /\ msgs'[m].stage \in {"held", "queued"}
  BY SendIs
<1>2. FateGoes(m, "unsent", "pending")
  <2>1. Fate(m) = "unsent" /\ Fate(m)' = "pending"
    BY <1>1 DEF Fate
  <2>2. \A q \in MsgIds : q # m => FateStays(q)
    BY <1>1, SameFate
  <2>3. QED  BY <2>1, <2>2 DEF FateGoes
<1>3. QED  BY <1>1, <1>2, TurnsUnmoved, GoesOn DEF Untold

LEMMA FollowsStop == ASSUME Base, NEW t \in Tabs, Stop(t) PROVE Follows
<1> DEFINE Thrown == {q \in Known : Contains(queue[tabs[t].key], q)}
<1>1. PICK some : some = Thrown
  OBVIOUS
<1>2. /\ Inside /\ Known' = Known /\ some \subseteq Known
      /\ \A q \in some :
           msgs[q].stage = "queued" /\ msgs'[q].stage = "over" /\ msgs'[q].end = "dropped"
      /\ \A q \in Known \ some : msgs'[q].stage = msgs[q].stage /\ msgs'[q].end = msgs[q].end
  BY <1>1, StopIs
<1>3. Known \subseteq MsgIds
  BY Parts, KnownIs DEF Base
<1>4. \A q \in some : Fate(q) = "pending" /\ Fate(q)' = "dropped"
  BY <1>2 DEF Fate
<1>5. \A q \in MsgIds \ some : Fate(q)' = Fate(q)
  BY <1>2, SameFate DEF FateStays
<1>6. some \in SUBSET {m \in MsgIds : [q \in MsgIds |-> Fate(q)][m] = "pending"}
  BY <1>2, <1>3, <1>4
<1>7. [q \in MsgIds |-> Fate(q)]'
        = [m \in MsgIds |-> IF m \in some THEN "dropped" ELSE [q \in MsgIds |-> Fate(q)][m]]
  BY <1>4, <1>5
<1>8. UNCHANGED [q \in MsgIds |-> TurnOf(q)]
  BY <1>2, TurnsUnmoved DEF Inside, TurnsStay, TurnStays
<1>9. Promise!Cleared
  BY <1>6, <1>7, <1>8 DEF Promise!Cleared, Promise!Messages, MsgIds
<1>10. QED  BY <1>9 DEF Follows, Promise!Next

\* One message changes, and no turn does.
LEMMA FollowsOnly ==
  ASSUME NEW m \in Known, m \in MsgIds, Only(m), Known' = Known, UNCHANGED chats,
         \/ Fate(m)' = Fate(m)
         \/ Fate(m) = "pending" /\ Fate(m)' \in {"working", "steered", "dropped", "stuck"}
         \/ Fate(m) = "working" /\ Fate(m)' \in {"failed", "empty", "stopped"}
         \/ Fate(m) = "working" /\ Fate(m)' = "answered" /\ TurnOf(m) = "done"
  PROVE  Follows
<1>1. TurnsStay /\ \A q \in MsgIds : q # m => FateStays(q)
  BY TurnsUnmoved, OthersFates
<1>2. CASE Fate(m)' = Fate(m)
  BY <1>1, <1>2, Stutters DEF FatesStay, FateStays
<1>3. CASE Fate(m)' # Fate(m)
  BY <1>1, <1>3, GoesOn DEF FateGoes
<1>4. QED  BY <1>2, <1>3

LEMMA FollowsQueues ==
  ASSUME Base, NEW t \in Tabs, tabs[t].at \in {"steer", "orphan"}, NEW m, m = tabs[t].msg,
         PutInQueue(t, m), UNCHANGED chats
  PROVE  Follows
<1>1. /\ m \in Known /\ msgs[m].stage = "held" /\ Only(m) /\ MsgTypes
      /\ \/ msgs'[m].stage = "over" /\ msgs'[m].end = "dropped"
         \/ msgs'[m].stage = "queued"
  BY Queues, Parts DEF Base
<1>2. Known' = Known /\ m \in MsgIds
  BY <1>1, KnownIs DEF Only, ButFor, Known
<1>3. Fate(m) = "pending" /\ Fate(m)' \in {"pending", "dropped"}
  BY <1>1, <1>2 DEF Fate
<1>4. QED  BY <1>1, <1>2, <1>3, FollowsOnly

LEMMA FollowsAckDone ==
  ASSUME Base, NEW t \in Tabs, AckDone(t), NEW m, m = tabs[t].msg PROVE Follows
<1>1. /\ Inside /\ m \in Known /\ m \in MsgIds /\ msgs[m].stage = "held" /\ Only(m) /\ Known' = Known
      /\ msgs'[m].stage = "created"
  BY AckDoneIs, Parts, KnownIs DEF Base
<1>2. Fate(m)' = Fate(m)
  BY <1>1 DEF Fate
<1>3. QED  BY <1>1, <1>2, FollowsOnly DEF Inside

LEMMA FollowsJobs ==
  ASSUME Base, NEW m \in Known, JobStarts(m) \/ StreamItem(m) \/ StreamTimesOut(m) \/ JobNeverRuns(m)
  PROVE  Follows
<1>1. m \in MsgIds
  BY Parts, KnownIs DEF Base
<1>2. CASE JobStarts(m)
  <2>1. /\ UNCHANGED chats /\ msgs[m].stage = "created" /\ Only(m) /\ Known' = Known
        /\ msgs'[m].stage \in {"stream", "http", "emit"}
    BY <1>2, JobStartsIs DEF Untold
  <2>2. Fate(m) = "pending" /\ Fate(m)' = "working"
    BY <2>1 DEF Fate
  <2>3. QED  BY <1>1, <2>1, <2>2, FollowsOnly
<1>3. CASE StreamItem(m) \/ StreamTimesOut(m)
  <2>1. /\ UNCHANGED chats /\ msgs[m].stage \in {"stream", "http"} /\ Only(m) /\ Known' = Known
        /\ msgs'[m].stage \in {"stream", "http", "emit"}
    BY <1>3, StreamsIs DEF Untold
  <2>2. Fate(m)' = Fate(m)
    BY <2>1 DEF Fate
  <2>3. QED  BY <1>1, <2>1, <2>2, FollowsOnly
<1>4. CASE JobNeverRuns(m)
  <2>1. /\ UNCHANGED chats /\ msgs[m].stage = "created" /\ Only(m) /\ Known' = Known
        /\ msgs'[m].stage = "over" /\ msgs'[m].end = "stuck"
    BY <1>4, JobNeverRunsIs DEF Untold
  <2>2. Fate(m) = "pending" /\ Fate(m)' = "stuck"
    BY <2>1 DEF Fate
  <2>3. QED  BY <1>1, <2>1, <2>2, FollowsOnly
<1>5. QED  BY <1>2, <1>3, <1>4

\* What a job emits as an answer, its turn has said.
LEMMA FollowsJobOver ==
  ASSUME Base, Talks, NEW m \in Known, JobEnds(m) \/ JobIsStopped(m) PROVE Follows
<1> DEFINE k == msgs[m].key
           h == Head(queue[k])
<1>1. /\ Inside /\ m \in MsgIds /\ msgs[m].stage \in {"stream", "http", "emit"}
      /\ Known' = Known /\ msgs'[m].stage = "over"
      /\ \/ msgs[m].stage = "emit" /\ msgs'[m].end = msgs[m].end
         \/ msgs'[m].end = "stopped"
      /\ \/ /\ h \in Known /\ h # m /\ msgs[h].stage = "queued" /\ msgs'[h].stage = "created"
            /\ \A q \in Known : q # m /\ q # h => msgs'[q] = msgs[q]
         \/ \A q \in Known : q # m => msgs'[q] = msgs[q]
  BY JobOverIs
<1> HIDE DEF k, h
<1>2. Talk(m) /\ TurnsStay
  BY <1>1, TurnsUnmoved DEF Talks, Inside
<1>3. ASSUME NEW q \in MsgIds, q # m PROVE FateStays(q)
  <2>1. CASE q \in Known => msgs'[q] = msgs[q]
    BY <1>1, <2>1, SameFate
  <2>2. CASE q \in Known /\ msgs[q].stage = "queued" /\ msgs'[q].stage = "created"
    BY <1>1, <2>2 DEF FateStays, Fate
  <2>3. QED  BY <1>1, <1>3, <2>1, <2>2
<1>4. Fate(m) = "working" /\ Fate(m)' = msgs'[m].end
  BY <1>1 DEF Fate
<1>5. CASE msgs'[m].end = "stopped"
  BY <1>1, <1>2, <1>3, <1>4, <1>5, GoesOn DEF FateGoes
<1>6. CASE msgs[m].stage = "emit" /\ msgs'[m].end = msgs[m].end
  <2>1. /\ msgs[m].end \in {"answered", "empty", "failed"}
        /\ msgs[m].end = "answered" => TurnOf(m) = "done"
    BY <1>2, <1>6 DEF Talk, TurnOf
  <2>2. QED  BY <1>1, <1>2, <1>3, <1>4, <1>6, <2>1, GoesOn DEF FateGoes
<1>7. QED  BY <1>1, <1>5, <1>6

LEMMA FollowsReceive ==
  ASSUME Base, Receive, NEW m, m = wires[conn].down[1][2] PROVE Follows
<1>1. /\ UNCHANGED chats /\ Known' = Known /\ m \in MsgIds
      /\ \/ /\ m \in Known /\ Registered(m) /\ Only(m)
            /\ msgs'[m].stage = "stream" /\ msgs'[m].end = msgs[m].end
         \/ \E t \in Tabs :
              /\ tabs[t].at \in {"steer", "orphan"} /\ tabs[t].msg = m
              /\ m \in Known /\ msgs[m].stage = "held"
              /\ \/ Only(m) /\ msgs'[m].stage = "over" /\ msgs'[m].end = "steered"
                 \/ PutInQueue(t, m)
         \/ UNCHANGED msgs
  BY ReceiveIs
<1>2. CASE /\ m \in Known /\ Registered(m) /\ Only(m)
           /\ msgs'[m].stage = "stream" /\ msgs'[m].end = msgs[m].end
  <2>1. Fate(m)' = Fate(m)
    BY <1>1, <1>2 DEF Fate, Registered
  <2>2. QED  BY <1>1, <1>2, <2>1, FollowsOnly
<1>3. CASE /\ m \in Known /\ msgs[m].stage = "held"
           /\ Only(m) /\ msgs'[m].stage = "over" /\ msgs'[m].end = "steered"
  <2>1. Fate(m) = "pending" /\ Fate(m)' = "steered"
    BY <1>1, <1>3 DEF Fate
  <2>2. QED  BY <1>1, <1>3, <2>1, FollowsOnly
<1>4. ASSUME NEW t \in Tabs, tabs[t].at \in {"steer", "orphan"}, tabs[t].msg = m, PutInQueue(t, m)
      PROVE  Follows
  BY <1>1, <1>4, FollowsQueues
<1>5. CASE UNCHANGED msgs
  BY <1>1, <1>5, FatesUnmoved, TurnsUnmoved, Stutters
<1>6. QED  BY <1>1, <1>2, <1>3, <1>4, <1>5

\* A chat that the gateway takes has no turn yet.
LEMMA FollowsGatewayTakes ==
  ASSUME Base, Talks, NEW n \in DOMAIN wires, GatewayTakes(n),
         NEW frame, NEW m, frame = wires[n].up[1], m = frame[2]
  PROVE  Follows
<1>1. /\ UNCHANGED msgs /\ 1 \in DOMAIN wires[n].up /\ m \in MsgIds
      /\ \/ /\ frame = <<"chat", m>>
            /\ ChatButFor(chats', m) /\ chats'[m].stage = "created"
            /\ chats'[m].end = chats[m].end
         \/ /\ ChatButFor(chats', m) \/ UNCHANGED chats
            /\ chats'[m].stage = chats[m].stage /\ chats'[m].end = chats[m].end
  BY GatewayTakesIs
<1>2. \A q \in MsgIds : q # m => TurnStays(q)
  BY <1>1, SameTurnStays DEF SameTurn, ChatButFor
<1>3. TurnStays(m)
  <2>1. CASE SameTurn(m)
    BY <2>1, SameTurnStays
  <2>2. CASE frame = <<"chat", m>> /\ chats'[m].stage = "created" /\ chats'[m].end = chats[m].end
    <3>1. Up("chat", m) /\ Talk(m)
      BY <1>1, <2>2 DEF Up, UpAt, Talks
    <3>2. chats[m].stage = "none"
      BY <3>1 DEF Talk
    <3>3. QED  BY <2>2, <3>2 DEF TurnStays, TurnOf
  <2>3. QED  BY <1>1, <2>1, <2>2 DEF SameTurn
<1>4. TurnsStay
  BY <1>2, <1>3 DEF TurnsStay
<1>5. QED  BY <1>1, <1>4, FatesUnmoved, Stutters

\* A turn starts only for a message that somebody worked on, and once.
LEMMA FollowsHttpAccepted ==
  ASSUME Base, Talks, NEW m \in Known, HttpAccepted(m) PROVE Follows
<1>1. /\ m \in MsgIds /\ msgs[m].stage = "http" /\ chats[m].stage = "none" /\ Known' = Known
      /\ \/ /\ ChatButFor(chats', m) /\ chats'[m].stage = "running"
            /\ chats'[m].end = chats[m].end /\ UNCHANGED msgs
         \/ /\ Only(m) /\ msgs'[m].stage = "http" /\ msgs'[m].end = msgs[m].end
            /\ UNCHANGED chats
  BY HttpAcceptedIs
<1>2. CASE /\ ChatButFor(chats', m) /\ chats'[m].stage = "running"
           /\ chats'[m].end = chats[m].end /\ UNCHANGED msgs
  <2>1. Talk(m)
    BY <1>1 DEF Talks
  <2>2. Fate(m) = "working"
    BY <1>1 DEF Fate
  <2>3. TurnOf(m) = "none" /\ TurnOf(m)' = "running"
    BY <1>1, <1>2, <2>1 DEF Talk, TurnOf
  <2>4. \A q \in MsgIds : q # m => TurnStays(q)
    BY <1>2, SameTurnStays DEF SameTurn, ChatButFor
  <2>5. QED  BY <1>1, <1>2, <2>2, <2>3, <2>4, FatesUnmoved, Turns
<1>3. CASE /\ Only(m) /\ msgs'[m].stage = "http" /\ msgs'[m].end = msgs[m].end
           /\ UNCHANGED chats
  <2>1. Fate(m)' = Fate(m)
    BY <1>1, <1>3 DEF Fate
  <2>2. QED  BY <1>1, <1>3, <2>1, FollowsOnly
<1>4. QED  BY <1>1, <1>2, <1>3

LEMMA FollowsChatGoes ==
  ASSUME Base, Talks, NEW m \in Known, ChatStarts(m) \/ ChatEntersLoop(m) PROVE Follows
<1>1. /\ m \in MsgIds /\ ChatButFor(chats', m) /\ UNCHANGED msgs
      /\ \/ /\ chats[m].stage = "created" /\ chats'[m].stage = "over" /\ chats'[m].end = "unrun"
         \/ /\ chats[m].stage = "created" /\ chats'[m].stage = "running"
            /\ chats'[m].end = chats[m].end
         \/ /\ chats[m].stage = "running" /\ chats'[m].stage = "loop"
            /\ chats'[m].end = chats[m].end
  BY ChatGoesIs
<1>2. FatesStay /\ \A q \in MsgIds : q # m => TurnStays(q)
  BY <1>1, FatesUnmoved, SameTurnStays DEF SameTurn, ChatButFor
<1>3. Talk(m)
  BY <1>1 DEF Talks
<1>4. CASE /\ chats[m].stage = "created" /\ chats'[m].stage = "running"
           /\ chats'[m].end = chats[m].end
  <2>1. Streamed(m)
    BY <1>3, <1>4 DEF Talk
  <2>2. Fate(m) \in {"working", "failed", "stopped"}
    BY <2>1 DEF Streamed, Fate
  <2>3. TurnOf(m) = "none" /\ TurnOf(m)' = "running"
    BY <1>3, <1>4 DEF Talk, TurnOf
  <2>4. QED  BY <1>1, <1>2, <2>2, <2>3, Turns
<1>5. CASE ~(chats[m].stage = "created" /\ chats'[m].stage = "running")
  <2>1. TurnStays(m)
    BY <1>1, <1>3, <1>5 DEF Talk, TurnStays, TurnOf
  <2>2. QED  BY <1>2, <2>1, Stutters DEF TurnsStay
<1>6. QED  BY <1>1, <1>4, <1>5

LEMMA FollowsChatSays ==
  ASSUME Base, Talks, NEW m \in Known, ChatProgress(m) \/ ChatAnswers(m) \/ ChatFails(m)
  PROVE  Follows
<1>1. /\ m \in MsgIds /\ Known' = Known /\ \E what : Told(m, what)
      /\ chats[m].stage \in {"running", "loop"}
      /\ \/ UNCHANGED chats
         \/ /\ ChatButFor(chats', m) /\ chats'[m].stage = "over"
            /\ chats'[m].end \in {"done", "broken"}
  BY ChatSaysIs
<1>2. chats[m].end = "none"
  BY <1>1 DEF Talks, Talk
<1>3. FatesStay
  <2>1. CASE UNCHANGED msgs
    BY <2>1, FatesUnmoved
  <2>2. CASE ~ UNCHANGED msgs
    <3>1. /\ Only(m) /\ msgs'[m].stage = msgs[m].stage /\ msgs'[m].end = msgs[m].end
      BY <1>1, <2>2 DEF Told
    <3>2. QED  BY <1>1, <3>1, OthersFates, SameFate DEF FatesStay
  <2>3. QED  BY <2>1, <2>2
<1>4. CASE UNCHANGED chats
  BY <1>3, <1>4, TurnsUnmoved, Stutters
<1>5. CASE /\ ChatButFor(chats', m) /\ chats'[m].stage = "over"
           /\ chats'[m].end \in {"done", "broken"}
  <2>1. TurnOf(m) = "running" /\ TurnOf(m)' \in {"done", "broken"}
    BY <1>2, <1>1, <1>5 DEF TurnOf
  <2>2. \A q \in MsgIds : q # m => TurnStays(q)
    BY <1>5, SameTurnStays DEF SameTurn, ChatButFor
  <2>3. QED  BY <1>1, <1>3, <2>1, <2>2, Turns
<1>6. QED  BY <1>1, <1>4, <1>5

LEMMA FollowsRestart == ASSUME Base, Talks, GatewayRestarts PROVE Follows
<1>1. /\ Known' = Known
      /\ \A q \in Known : msgs'[q].stage = msgs[q].stage /\ msgs'[q].end = msgs[q].end
      /\ \A m \in MsgIds :
           IF chats[m].stage \in {"created", "running", "loop"}
           THEN /\ chats'[m].stage = "over"
                /\ chats'[m].end = IF chats[m].stage = "created" THEN "unrun" ELSE "broken"
           ELSE chats'[m] = chats[m]
  BY RestartIs
<1>2. FatesStay
  BY <1>1, SameFate DEF FatesStay
<1>3. ASSUME NEW m \in MsgIds
      PROVE  TurnOf(m)' = IF TurnOf(m) = "running" THEN "broken" ELSE TurnOf(m)
  <2>1. Talk(m)
    BY DEF Talks
  <2>2. CASE chats[m].stage = "created"
    <3>1. chats'[m].stage = "over" /\ chats'[m].end = "unrun" /\ chats[m].end = "none"
      BY <1>1, <2>1, <2>2 DEF Talk
    <3>2. QED  BY <2>2, <3>1 DEF TurnOf
  <2>3. CASE chats[m].stage \in {"running", "loop"}
    <3>1. chats'[m].stage = "over" /\ chats'[m].end = "broken" /\ chats[m].end = "none"
      BY <1>1, <2>1, <2>3 DEF Talk
    <3>2. QED  BY <2>3, <3>1 DEF TurnOf
  <2>4. CASE chats[m].stage \notin {"created", "running", "loop"}
    <3>1. chats'[m] = chats[m]
      BY <1>1, <2>4
    <3>2. TurnOf(m) # "running"
      BY <2>4 DEF TurnOf
    <3>3. QED  BY <3>1, <3>2 DEF TurnOf
  <2>5. QED  BY <2>2, <2>3, <2>4
<1>4. [q \in MsgIds |-> TurnOf(q)]'
        = [m \in MsgIds |-> IF [q \in MsgIds |-> TurnOf(q)][m] = "running" THEN "broken"
                            ELSE [q \in MsgIds |-> TurnOf(q)][m]]
  BY <1>3
<1>5. UNCHANGED [q \in MsgIds |-> Fate(q)]
  BY <1>2 DEF FatesStay, FateStays
<1>6. Promise!AllTurnsBreak
  BY <1>4, <1>5 DEF Promise!AllTurnsBreak, Promise!Messages, MsgIds
<1>7. QED  BY <1>6 DEF Follows, Promise!Next

LEMMA FollowsInit == Init => Promise!Init
<1> SUFFICES ASSUME Init PROVE Promise!Init
  OBVIOUS
<1>1. Known = {}
  BY EmptyIs DEF Init, Known
<1>2. \A m \in MsgIds : Fate(m) = "unsent" /\ TurnOf(m) = "none"
  BY <1>1 DEF Init, NoChat, Fate, TurnOf
<1>3. QED  BY <1>2 DEF Promise!Init, Promise!Messages, MsgIds

LEMMA FollowsNext == Base /\ Talks /\ [Next]_vars => [Promise!Next]_(Promise!vars)
<1> SUFFICES ASSUME Base, Talks, [Next]_vars PROVE Follows
  BY DEF Follows
<1>1. ASSUME UNCHANGED <<msgs, chats>> PROVE Follows
  BY <1>1, FatesUnmoved, TurnsUnmoved, Stutters
<1>2. ASSUME NEW t \in Tabs, Send(t) PROVE Follows
  BY <1>2, FollowsSend
<1>3. ASSUME NEW t \in Tabs, Stop(t) PROVE Follows
  BY <1>3, FollowsStop
<1>4. ASSUME NEW t \in Tabs, Close(t) \/ CancelUnanswered(t) PROVE Follows
  BY <1>1, <1>4, CloseIs, CancelUnansweredIs DEF Inside, Untold
<1>5. ASSUME NEW t \in Tabs, NEW m \in Known, Cancel(t, m) PROVE Follows
  BY <1>1, <1>5, CancelIs
<1>6. ASSUME NEW t \in Tabs, NEW k \in Keys, Move(t, k) PROVE Follows
  BY <1>1, <1>6, MoveIs DEF Inside
<1>7. ASSUME NEW t \in Tabs, AckDone(t) PROVE Follows
  BY <1>7, FollowsAckDone
<1>8. ASSUME NEW t \in Tabs, SteerUnanswered(t) PROVE Follows
  <2>1. /\ UNCHANGED chats /\ tabs[t].at \in {"steer", "orphan"}
        /\ PutInQueue(t, tabs[t].msg)
    BY <1>8, SteerUnansweredIs
  <2>2. QED  BY <2>1, FollowsQueues
<1>9. ASSUME NEW m \in Known, JobStarts(m) \/ StreamItem(m) \/ StreamTimesOut(m) \/ JobNeverRuns(m)
      PROVE  Follows
  BY <1>9, FollowsJobs
<1>10. ASSUME NEW m \in Known, JobEnds(m) \/ JobIsStopped(m) PROVE Follows
  BY <1>10, FollowsJobOver
<1>11. ASSUME Connect PROVE Follows
  BY <1>1, <1>11, ConnectIs DEF Untold
<1>12. ASSUME ClientNotices PROVE Follows
  <2>1. /\ UNCHANGED chats /\ Known' = Known
        /\ \A q \in Known : msgs'[q].stage = msgs[q].stage /\ msgs'[q].end = msgs[q].end
    BY <1>12, ClientNoticesIs DEF Untold
  <2>2. FatesStay
    BY <2>1, SameFate DEF FatesStay
  <2>3. QED  BY <2>1, <2>2, TurnsUnmoved, Stutters
<1>13. ASSUME Receive PROVE Follows
  BY <1>13, FollowsReceive
<1>14. ASSUME NEW n \in DOMAIN wires, GatewayTakes(n) PROVE Follows
  BY <1>14, FollowsGatewayTakes
<1>15. ASSUME NEW m \in Known, HttpAccepted(m) PROVE Follows
  BY <1>15, FollowsHttpAccepted
<1>16. ASSUME NEW m \in Known, ChatStarts(m) \/ ChatEntersLoop(m) PROVE Follows
  BY <1>16, FollowsChatGoes
<1>17. ASSUME NEW m \in Known, ChatProgress(m) \/ ChatAnswers(m) \/ ChatFails(m) PROVE Follows
  BY <1>17, FollowsChatSays
<1>18. ASSUME Break PROVE Follows
  BY <1>1, <1>18, BreakIs DEF Untold
<1>19. ASSUME GatewayRestarts PROVE Follows
  BY <1>19, FollowsRestart
<1>20. CASE UNCHANGED vars
  BY <1>1, <1>20 DEF vars, handler, gateway
<1>21. QED
  BY <1>2, <1>3, <1>4, <1>5, <1>6, <1>7, <1>8, <1>9, <1>10, <1>11, <1>12, <1>13, <1>14,
     <1>15, <1>16, <1>17, <1>18, <1>19, <1>20
  DEF Next, UserActs, HandlerSteps, ClientSteps, GatewaySteps, Faults

\* The conversation handler, the client and the gateway keep the promise of
\* module Conversation, whatever breaks between them: a message has one fate,
\* the agent takes at most one turn for it, and what it is answered with is
\* what its turn said.
THEOREM ThePromiseIsKept == Spec => KeepsPromise
<1>1. Spec => []Base
  BY BaseInit, BaseNext, PTL DEF Spec
<1>2. Spec => []Talks
  BY <1>1, TalksInit, TalksNext, PTL DEF Spec
<1>3. QED  BY <1>1, <1>2, FollowsInit, FollowsNext, PTL DEF Spec, KeepsPromise, Promise!Spec

-----------------------------------------------------------------------------
(* One job at a time.                                                      *)

\* The jobs stay the jobs, and none is doomed.
JobsSame ==
  /\ Known \subseteq Known' /\ \A q \in Known : msgs'[q].key = msgs[q].key
  /\ \A q \in Known' :
       /\ msgs'[q].stage \in Active <=> q \in Known /\ msgs[q].stage \in Active
       /\ msgs'[q].doomed => /\ q \in Known /\ msgs[q].doomed
                             /\ msgs'[q].stage = "created" => msgs[q].stage = "created"
AcksSame ==
  \A t \in Tabs : /\ tabs'[t].at = "ack" <=> tabs[t].at = "ack"
                  /\ tabs[t].at = "ack" => tabs'[t].key = tabs[t].key

LEMMA JobsAre == ASSUME JobsSame, NEW k PROVE Jobs(k)' = Jobs(k)
  BY DEF JobsSame, Jobs

LEMMA AcksAre == ASSUME AcksSame, NEW k PROVE Acks(k)' = Acks(k)
  BY DEF AcksSame, Acks

LEMMA DoomedKept ==
  ASSUME OneJob, JobsSame, early \subseteq early'
  PROVE  /\ \A q \in Known' : msgs'[q].doomed => msgs'[q].stage \in Active
         /\ \A q \in Known' : msgs'[q].stage = "created" /\ msgs'[q].doomed => msgs'[q].key \in early'
  BY DEF OneJob, JobsSame

LEMMA TasksKept ==
  ASSUME Base, OneJob, Known \subseteq Known', \A q \in Known : msgs'[q].key = msgs[q].key,
         NEW k \in Keys, task'[k] = task[k], task'[k] # NoMsg
  PROVE  msgs'[task'[k]].key = k
  BY DEF OneJob, Base, Places

LEMMA OneJobStays ==
  ASSUME Base, OneJob, JobsSame, AcksSame, UNCHANGED task, UNCHANGED early,
         \A k \in Keys \ early : k \in proc' <=> k \in proc
  PROVE  OneJob'
<1>1. ASSUME NEW k \in Keys \ early' PROVE Alone(k, Jobs(k), Acks(k))'
  <2>1. Alone(k, Jobs(k), Acks(k))
    BY DEF OneJob
  <2>2. Jobs(k)' = Jobs(k) /\ Acks(k)' = Acks(k)
    BY JobsAre, AcksAre
  <2>3. QED  BY <2>1, <2>2 DEF Alone
<1>2. \A k \in Keys : task'[k] # NoMsg => msgs'[task'[k]].key = k
  BY TasksKept DEF JobsSame
<1>3. QED  BY <1>1, <1>2, DoomedKept DEF OneJob

LEMMA JobsUnmoved == ASSUME UNCHANGED msgs PROVE JobsSame
  BY DEF JobsSame, Known
LEMMA AcksUnmoved == ASSUME UNCHANGED tabs PROVE AcksSame
  BY DEF AcksSame

LEMMA JobsOnly ==
  ASSUME NEW m \in Known, Only(m), Known' = Known,
         msgs'[m].stage \in Active <=> msgs[m].stage \in Active,
         msgs'[m].doomed => msgs[m].doomed /\ msgs'[m].stage # "created"
  PROVE  JobsSame
<1>1. /\ \A q \in Known : q # m => msgs'[q] = msgs[q]
      /\ msgs'[m].key = msgs[m].key
  BY DEF Only, ButFor, Known
<1>2. QED  BY <1>1 DEF JobsSame

\* The handler of one tab goes on, which neither did nor does acknowledge.
LEMMA AcksOthers ==
  ASSUME NEW t \in Tabs, tabs[t].at # "ack", tabs'[t].at # "ack",
         \A u \in Tabs : u # t => tabs'[u] = tabs[u]
  PROVE  AcksSame
  BY DEF AcksSame

LEMMA OneJobSend ==
  ASSUME Base, OneJob, NEW t \in Tabs, Send(t), NEW m, m = Len(msgs) + 1, NEW k, k = tabs[t].key
  PROVE  OneJob'
<1>1. /\ Untold /\ UNCHANGED task /\ k \in Keys /\ tabs[t].at = "idle"
      /\ m \notin Known /\ Known' = Known \cup {m} /\ \A q \in Known : msgs'[q] = msgs[q]
      /\ msgs'[m].stage \in {"held", "queued"} /\ msgs'[m].doomed = FALSE
      /\ tabs'[t].key = k /\ \A u \in Tabs : u # t => tabs'[u] = tabs[u]
      /\ \/ k \notin proc /\ proc' = proc \cup {k} /\ tabs'[t].at = "ack"
         \/ UNCHANGED proc /\ tabs'[t].at \in {"steer", "idle"}
  BY SendIs
<1>2. JobsSame
  BY <1>1 DEF JobsSame, Active
<1>3. CASE k \notin proc /\ proc' = proc \cup {k} /\ tabs'[t].at = "ack"
  <2>1. ASSUME NEW j \in Keys \ early' PROVE Alone(j, Jobs(j), Acks(j))'
    <3>1. Alone(j, Jobs(j), Acks(j)) /\ Jobs(j)' = Jobs(j)
      BY <1>1, <1>2, JobsAre DEF OneJob, Untold
    <3>2. CASE j = k
      <4>1. Acks(j) = {} /\ Jobs(j) = {} /\ task[j] = NoMsg
        BY <1>3, <3>1, <3>2 DEF Alone
      <4>2. Acks(j)' = {t}
        BY <1>1, <1>3, <3>2, <4>1 DEF Acks
      <4>3. QED  BY <1>1, <1>3, <3>1, <3>2, <4>1, <4>2 DEF Alone
    <3>3. CASE j # k
      <4>1. Acks(j)' = Acks(j)
        BY <1>1, <3>3 DEF Acks
      <4>2. QED  BY <1>1, <1>3, <3>1, <3>3, <4>1 DEF Alone
    <3>4. QED  BY <3>2, <3>3
  <2>2. \A j \in Keys : task'[j] # NoMsg => msgs'[task'[j]].key = j
    BY <1>1, <1>2, TasksKept DEF JobsSame
  <2>3. QED  BY <1>1, <1>2, <2>1, <2>2, DoomedKept DEF OneJob, Untold
<1>4. CASE UNCHANGED proc /\ tabs'[t].at \in {"steer", "idle"}
  <2>1. AcksSame
    BY <1>1, <1>4, AcksOthers
  <2>2. QED  BY <1>1, <1>2, <1>4, <2>1, OneJobStays DEF Untold
<1>5. QED  BY <1>1, <1>3, <1>4

LEMMA OneJobAckDone ==
  ASSUME Base, OneJob, NEW t \in Tabs, AckDone(t), NEW m, m = tabs[t].msg, NEW k, k = tabs[t].key
  PROVE  OneJob'
<1>1. /\ Untold /\ UNCHANGED proc /\ m \in Known /\ m # NoMsg /\ k \in Keys
      /\ msgs[m].stage = "held" /\ msgs[m].key = k
      /\ tabs[t].at = "ack" /\ tabs'[t].at = "idle"
      /\ \A u \in Tabs : u # t => tabs'[u] = tabs[u]
      /\ Only(m) /\ Known' = Known /\ msgs'[m].stage = "created"
      /\ msgs'[m].doomed = msgs[m].doomed
      /\ task' = [task EXCEPT ![k] = m] /\ task \in [Keys -> 0 .. MaxMsgs]
  BY AckDoneIs, HeldIs, Parts DEF Waits, Base, HandlerTypes
<1>2. /\ \A q \in Known : q # m => msgs'[q] = msgs[q]
      /\ msgs'[m].key = k
  BY <1>1 DEF Only, ButFor, Known
<1>3. task'[k] = m /\ \A j \in Keys : j # k => task'[j] = task[j]
  BY <1>1
<1>4. ~msgs'[m].doomed
  BY <1>1 DEF OneJob, Active
<1>5. ASSUME NEW j \in Keys \ early' PROVE Alone(j, Jobs(j), Acks(j))'
  <2>1. Alone(j, Jobs(j), Acks(j))
    BY <1>1 DEF OneJob, Untold
  <2>2. CASE j = k
    <3>1. t \in Acks(j)
      BY <1>1, <2>2 DEF Acks
    <3>2. k \in proc /\ Jobs(j) = {} /\ Acks(j) = {t}
      BY <2>1, <2>2, <3>1 DEF Alone
    <3>3. Jobs(j)' = {m}
      BY <1>1, <1>2, <2>2, <3>2 DEF Jobs, Active
    <3>4. Acks(j)' = {}
      BY <1>1, <3>2 DEF Acks
    <3>5. QED  BY <1>1, <1>3, <2>2, <3>2, <3>3, <3>4 DEF Alone
  <2>3. CASE j # k
    <3>1. Jobs(j)' = Jobs(j)
      BY <1>1, <1>2, <2>3 DEF Jobs
    <3>2. Acks(j)' = Acks(j)
      BY <1>1, <2>3 DEF Acks
    <3>3. QED  BY <1>1, <1>3, <2>1, <2>3, <3>1, <3>2 DEF Alone
  <2>4. QED  BY <2>2, <2>3
<1>6. ASSUME NEW j \in Keys, task'[j] # NoMsg PROVE msgs'[task'[j]].key = j
  <2>1. CASE j = k
    BY <1>2, <1>3, <2>1
  <2>2. CASE j # k
    <3>1. \A q \in Known : msgs'[q].key = msgs[q].key
      BY <1>1, <1>2
    <3>2. QED  BY <1>1, <1>3, <1>6, <2>2, <3>1, TasksKept
  <2>3. QED  BY <2>1, <2>2
<1>7. /\ \A q \in Known' : msgs'[q].doomed => msgs'[q].stage \in Active
      /\ \A q \in Known' : msgs'[q].stage = "created" /\ msgs'[q].doomed => msgs'[q].key \in early'
  BY <1>1, <1>2, <1>4 DEF OneJob, Untold
<1>8. QED  BY <1>5, <1>6, <1>7 DEF OneJob

\* A stop dooms the session's own job, and one that has not begun is early.
LEMMA OneJobStop ==
  ASSUME Base, OneJob, NEW t \in Tabs, Stop(t),
         NEW k, k = tabs[t].key, NEW m, m = task[k],
         NEW some, some = {q \in Known : Contains(queue[k], q)}
  PROVE  OneJob'
<1>1. /\ UNCHANGED task /\ k \in Keys /\ Known' = Known /\ some \subseteq Known
      /\ \A q \in Known : msgs'[q].key = msgs[q].key
      /\ \A q \in some : msgs[q].stage = "queued" /\ msgs'[q].stage = "over" /\ ~msgs'[q].doomed
      /\ \A q \in Known \ some :
           /\ msgs'[q].stage = msgs[q].stage
           /\ \/ msgs'[q].doomed = msgs[q].doomed
              \/ q = m /\ m # NoMsg /\ msgs[q].stage \in Active
      /\ \A u \in Tabs :
           /\ tabs'[u].key = tabs[u].key
           /\ tabs'[u].at = IF tabs[u].at = "steer" /\ tabs[u].key = k
                            THEN "orphan" ELSE tabs[u].at
      /\ \/ /\ m # NoMsg /\ early' = early \cup {q \in {k} : msgs[m].stage = "created"}
            /\ proc' = proc
         \/ /\ m = NoMsg /\ early' = early \cup {q \in {k} : k \in proc}
            /\ proc' = proc \ {k}
  BY StopIs
<1>2. AcksSame
  BY <1>1 DEF AcksSame
<1>3. \A q \in Known : msgs'[q].stage \in Active <=> msgs[q].stage \in Active
  BY <1>1 DEF Active
<1>4. ASSUME NEW j \in Keys \ early' PROVE Alone(j, Jobs(j), Acks(j))'
  <2>1. Alone(j, Jobs(j), Acks(j)) /\ Acks(j)' = Acks(j)
    BY <1>1, <1>2, AcksAre DEF OneJob
  <2>2. Jobs(j)' = Jobs(j)
    BY <1>1, <1>3 DEF Jobs
  <2>3. j \in proc' <=> j \in proc
    BY <1>1
  <2>4. QED  BY <1>1, <2>1, <2>2, <2>3 DEF Alone
<1>5. \A j \in Keys : task'[j] # NoMsg => msgs'[task'[j]].key = j
  BY <1>1, TasksKept
<1>6. ASSUME NEW q \in Known', msgs'[q].doomed PROVE msgs'[q].stage \in Active
  BY <1>1, <1>3, <1>6 DEF OneJob
<1>7. ASSUME NEW q \in Known', msgs'[q].stage = "created", msgs'[q].doomed
      PROVE  msgs'[q].key \in early'
  <2>1. q \in Known \ some /\ msgs[q].stage = "created"
    BY <1>1, <1>7
  <2>2. CASE msgs[q].doomed
    BY <1>1, <2>1, <2>2 DEF OneJob
  <2>3. CASE q = m /\ m # NoMsg
    <3>1. msgs'[q].key = k
      BY <1>1, <2>1, <2>3 DEF OneJob
    <3>2. QED  BY <1>1, <2>1, <2>3, <3>1
  <2>4. QED  BY <1>1, <1>7, <2>1, <2>2, <2>3
<1>8. QED  BY <1>4, <1>5, <1>6, <1>7 DEF OneJob

LEMMA OneJobJobStarts == ASSUME Base, OneJob, NEW m \in Known, JobStarts(m) PROVE OneJob'
<1>1. /\ Untold /\ UNCHANGED <<tabs, task>> /\ msgs[m].stage = "created"
      /\ proc' = proc \cup {msgs[m].key} /\ Only(m) /\ Known' = Known /\ ~msgs'[m].doomed
      /\ msgs'[m].stage \in {"stream", "emit", "http"}
  BY JobStartsIs
<1>2. msgs[m].stage \in Active /\ msgs'[m].stage \in Active
  BY <1>1 DEF Active
<1>3. ASSUME NEW k \in Keys \ early PROVE k \in proc' <=> k \in proc
  <2>1. Alone(k, Jobs(k), Acks(k))
    BY DEF OneJob
  <2>2. msgs[m].key = k => m \in Jobs(k)
    BY <1>2 DEF Jobs
  <2>3. QED  BY <1>1, <2>1, <2>2 DEF Alone
<1>4. QED  BY <1>1, <1>2, <1>3, JobsOnly, AcksUnmoved, OneJobStays DEF Untold

LEMMA OneJobStreams ==
  ASSUME Base, OneJob, NEW m \in Known, StreamItem(m) \/ StreamTimesOut(m) PROVE OneJob'
<1>1. /\ Untold /\ UNCHANGED <<tabs, proc, task>> /\ msgs[m].stage \in {"stream", "http"}
      /\ Only(m) /\ Known' = Known /\ ~msgs'[m].doomed
      /\ msgs'[m].stage \in {"stream", "http", "emit"}
  BY StreamsIs
<1>2. msgs[m].stage \in Active /\ msgs'[m].stage \in Active
  BY <1>1 DEF Active
<1>3. QED  BY <1>1, <1>2, JobsOnly, AcksUnmoved, OneJobStays DEF Untold

\* Only a job that was stopped too early never runs.
LEMMA OneJobNeverRuns == ASSUME Base, OneJob, NEW m \in Known, JobNeverRuns(m) PROVE OneJob'
<1>1. /\ Untold /\ UNCHANGED <<tabs, proc, task>> /\ msgs[m].stage = "created" /\ msgs[m].doomed
      /\ Only(m) /\ Known' = Known /\ ~msgs'[m].doomed /\ msgs'[m].stage = "over"
  BY JobNeverRunsIs
<1>2. /\ \A q \in Known : q # m => msgs'[q] = msgs[q]
      /\ msgs'[m].key = msgs[m].key
  BY <1>1 DEF Only, ButFor, Known
<1>3. msgs[m].key \in early
  BY <1>1 DEF OneJob
<1>4. ASSUME NEW k \in Keys \ early' PROVE Alone(k, Jobs(k), Acks(k))'
  <2>1. Alone(k, Jobs(k), Acks(k)) /\ Acks(k)' = Acks(k) /\ k # msgs[m].key
    BY <1>1, <1>3, AcksUnmoved, AcksAre DEF OneJob, Untold
  <2>2. Jobs(k)' = Jobs(k)
    BY <1>1, <1>2, <2>1 DEF Jobs
  <2>3. QED  BY <1>1, <2>1, <2>2 DEF Alone
<1>5. \A k \in Keys : task'[k] # NoMsg => msgs'[task'[k]].key = k
  BY <1>1, <1>2, TasksKept
<1>6. /\ \A q \in Known' : msgs'[q].doomed => msgs'[q].stage \in Active
      /\ \A q \in Known' : msgs'[q].stage = "created" /\ msgs'[q].doomed => msgs'[q].key \in early'
  BY <1>1, <1>2 DEF OneJob, Untold
<1>7. QED  BY <1>4, <1>5, <1>6 DEF OneJob

LEMMA OneJobOver ==
  ASSUME Base, OneJob, NEW m \in Known, JobEnds(m) \/ JobIsStopped(m),
         NEW k, k = msgs[m].key, NEW h, h = Head(queue[k])
  PROVE  OneJob'
<1>1. /\ Untold /\ UNCHANGED tabs /\ k \in Keys /\ msgs[m].stage \in {"stream", "http", "emit"}
      /\ Known' = Known /\ \A q \in Known : msgs'[q].key = msgs[q].key
      /\ msgs'[m].stage = "over" /\ ~msgs'[m].doomed
      /\ \/ /\ h \in Known /\ h # m /\ h # NoMsg
            /\ msgs[h].stage = "queued" /\ msgs[h].key = k
            /\ msgs'[h].stage = "created" /\ msgs'[h].doomed = msgs[h].doomed
            /\ \A q \in Known : q # m /\ q # h => msgs'[q] = msgs[q]
            /\ task' = [task EXCEPT ![k] = h] /\ proc' = proc
         \/ /\ \A q \in Known : q # m => msgs'[q] = msgs[q]
            /\ task' = [task EXCEPT ![k] = NoMsg] /\ proc' = proc \ {k}
  BY JobOverIs
<1>2. task \in [Keys -> 0 .. MaxMsgs]
  BY Parts DEF Base, HandlerTypes
<1>3. \A j \in Keys : Acks(j)' = Acks(j)
  BY <1>1, AcksUnmoved, AcksAre
<1>4. ASSUME k \notin early PROVE k \in proc /\ Acks(k) = {} /\ Jobs(k) = {m}
  <2>1. Alone(k, Jobs(k), Acks(k))
    BY <1>1, <1>4 DEF OneJob
  <2>2. m \in Jobs(k)
    BY <1>1 DEF Jobs, Active
  <2>3. QED  BY <2>1, <2>2 DEF Alone
<1>5. CASE /\ h \in Known /\ h # m /\ h # NoMsg
           /\ msgs[h].stage = "queued" /\ msgs[h].key = k
           /\ msgs'[h].stage = "created" /\ msgs'[h].doomed = msgs[h].doomed
           /\ \A q \in Known : q # m /\ q # h => msgs'[q] = msgs[q]
           /\ task' = [task EXCEPT ![k] = h] /\ proc' = proc
  <2>1. task'[k] = h /\ \A j \in Keys : j # k => task'[j] = task[j]
    BY <1>1, <1>2, <1>5
  <2>2. ~msgs'[h].doomed
    BY <1>5 DEF OneJob, Active
  <2>3. ASSUME NEW j \in Keys \ early' PROVE Alone(j, Jobs(j), Acks(j))'
    <3>1. Alone(j, Jobs(j), Acks(j)) /\ early' = early
      BY <1>1 DEF OneJob, Untold
    <3>2. CASE j = k
      <4>1. Jobs(k) = {m}
        BY <1>4, <3>1, <3>2
      <4>2. \A q \in Known : q # m /\ q # h => ~(msgs'[q].key = k /\ msgs'[q].stage \in Active)
        BY <4>1, <1>5 DEF Jobs
      <4>3. ~(msgs'[m].stage \in Active) /\ msgs'[h].stage \in Active /\ msgs'[h].key = k
        BY <1>1, <1>5 DEF Active
      <4>4. \A q \in Known : msgs'[q].key = k /\ msgs'[q].stage \in Active <=> q = h
        BY <4>2, <4>3, <1>5
      <4>5. Jobs(j)' = {h}
        BY <4>4, <1>1, <1>5, <3>2 DEF Jobs
      <4>6. QED  BY <1>3, <1>4, <1>5, <2>1, <3>1, <3>2, <4>5 DEF Alone
    <3>3. CASE j # k
      <4>1. Jobs(j)' = Jobs(j)
        BY ZenonT(60), <1>1, <1>5, <3>3 DEF Jobs
      <4>2. QED  BY <1>3, <1>5, <2>1, <3>1, <3>3, <4>1 DEF Alone
    <3>4. QED  BY <3>2, <3>3
  <2>4. ASSUME NEW j \in Keys, task'[j] # NoMsg PROVE msgs'[task'[j]].key = j
    <3>1. CASE j = k
      <4>1. msgs'[h].key = k
        BY <1>1, <1>5
      <4>2. QED  BY <2>1, <3>1, <4>1
    <3>2. CASE j # k
      BY <1>1, <2>1, <2>4, <3>2, TasksKept
    <3>3. QED  BY <3>1, <3>2
  <2>5. /\ \A q \in Known' : msgs'[q].doomed => msgs'[q].stage \in Active
        /\ \A q \in Known' : msgs'[q].stage = "created" /\ msgs'[q].doomed => msgs'[q].key \in early'
    BY <1>1, <1>5, <2>2 DEF OneJob, Untold
  <2>6. QED  BY <2>3, <2>4, <2>5 DEF OneJob
<1>6. CASE /\ \A q \in Known : q # m => msgs'[q] = msgs[q]
           /\ task' = [task EXCEPT ![k] = NoMsg] /\ proc' = proc \ {k}
  <2>1. task'[k] = NoMsg /\ \A j \in Keys : j # k => task'[j] = task[j]
    BY <1>1, <1>2, <1>6
  <2>2. ASSUME NEW j \in Keys \ early' PROVE Alone(j, Jobs(j), Acks(j))'
    <3>1. Alone(j, Jobs(j), Acks(j)) /\ early' = early
      BY <1>1 DEF OneJob, Untold
    <3>2. CASE j = k
      <4>1. Jobs(j)' = {}
        BY ZenonT(60), <1>1, <1>4, <1>6, <3>1, <3>2 DEF Jobs, Active
      <4>2. QED  BY <1>3, <1>4, <1>6, <2>1, <3>1, <3>2, <4>1 DEF Alone
    <3>3. CASE j # k
      <4>1. Jobs(j)' = Jobs(j)
        BY <1>1, <1>6, <3>3 DEF Jobs
      <4>2. QED  BY <1>3, <1>6, <2>1, <3>1, <3>3, <4>1 DEF Alone
    <3>4. QED  BY <3>2, <3>3
  <2>3. \A j \in Keys : task'[j] # NoMsg => msgs'[task'[j]].key = j
    BY <1>1, <2>1, TasksKept
  <2>4. /\ \A q \in Known' : msgs'[q].doomed => msgs'[q].stage \in Active
        /\ \A q \in Known' : msgs'[q].stage = "created" /\ msgs'[q].doomed => msgs'[q].key \in early'
    BY <1>1, <1>6 DEF OneJob, Untold
  <2>5. QED  BY <2>2, <2>3, <2>4 DEF OneJob
<1>7. QED  BY <1>1, <1>5, <1>6

LEMMA OneJobQueues ==
  ASSUME Base, OneJob, NEW t \in Tabs, tabs[t].at \in {"steer", "orphan"}, NEW m, m = tabs[t].msg,
         PutInQueue(t, m), tabs'[t].at = "idle", \A u \in Tabs : u # t => tabs'[u] = tabs[u],
         UNCHANGED <<proc, task, early>>
  PROVE  OneJob'
<1>1. /\ m \in Known /\ msgs[m].stage = "held" /\ Only(m)
      /\ msgs'[m].stage \in {"over", "queued"} /\ (msgs'[m].doomed => msgs[m].doomed)
  BY Queues
<1>2. Known' = Known
  BY <1>1 DEF Only, ButFor, Known
<1>3. JobsSame
  BY <1>1, <1>2, JobsOnly DEF Active
<1>4. AcksSame
  BY AcksOthers
<1>5. QED  BY <1>3, <1>4, OneJobStays

LEMMA OneJobReceive ==
  ASSUME Base, OneJob, Receive, NEW m, m = wires[conn].down[1][2] PROVE OneJob'
<1>1. /\ UNCHANGED <<proc, task, early>> /\ Known' = Known
      /\ \/ /\ m \in Known /\ Registered(m) /\ Only(m) /\ UNCHANGED tabs
            /\ msgs'[m].stage = "stream" /\ msgs'[m].doomed = msgs[m].doomed
         \/ \E t \in Tabs :
              /\ tabs[t].at \in {"steer", "orphan"} /\ tabs[t].msg = m
              /\ tabs'[t].at = "idle" /\ \A u \in Tabs : u # t => tabs'[u] = tabs[u]
              /\ m \in Known /\ msgs[m].stage = "held"
              /\ \/ Only(m) /\ msgs'[m].stage = "over" /\ ~msgs'[m].doomed
                 \/ PutInQueue(t, m)
         \/ /\ UNCHANGED msgs
            /\ \E t \in Tabs :
                 /\ tabs[t].at = "cancel" /\ tabs'[t].at = "idle"
                 /\ \A u \in Tabs : u # t => tabs'[u] = tabs[u]
         \/ UNCHANGED <<tabs, msgs>>
  BY ReceiveIs
<1>2. CASE /\ m \in Known /\ Registered(m) /\ Only(m) /\ UNCHANGED tabs
           /\ msgs'[m].stage = "stream" /\ msgs'[m].doomed = msgs[m].doomed
  <2>1. JobsSame
    BY <1>1, <1>2, JobsOnly DEF Registered, Active
  <2>2. QED  BY <1>1, <1>2, <2>1, AcksUnmoved, OneJobStays
<1>3. ASSUME NEW t \in Tabs,
             tabs[t].at \in {"steer", "orphan"}, tabs[t].msg = m, tabs'[t].at = "idle",
             \A u \in Tabs : u # t => tabs'[u] = tabs[u],
             m \in Known, msgs[m].stage = "held",
             Only(m) /\ msgs'[m].stage = "over" /\ ~msgs'[m].doomed
      PROVE  OneJob'
  <2>1. JobsSame
    BY <1>1, <1>3, JobsOnly DEF Active
  <2>2. QED  BY <1>1, <1>3, <2>1, AcksOthers, OneJobStays
<1>4. ASSUME NEW t \in Tabs,
             tabs[t].at \in {"steer", "orphan"}, tabs[t].msg = m, tabs'[t].at = "idle",
             \A u \in Tabs : u # t => tabs'[u] = tabs[u], PutInQueue(t, m)
      PROVE  OneJob'
  BY <1>1, <1>4, OneJobQueues
<1>5. ASSUME UNCHANGED msgs, NEW t \in Tabs, tabs[t].at = "cancel", tabs'[t].at = "idle",
             \A u \in Tabs : u # t => tabs'[u] = tabs[u]
      PROVE  OneJob'
  BY <1>1, <1>5, JobsUnmoved, AcksOthers, OneJobStays
<1>6. CASE UNCHANGED <<tabs, msgs>>
  BY <1>1, <1>6, JobsUnmoved, AcksUnmoved, OneJobStays
<1>7. QED  BY <1>1, <1>2, <1>3, <1>4, <1>5, <1>6

LEMMA OneJobInit == Init => OneJob
<1> SUFFICES ASSUME Init PROVE OneJob
  OBVIOUS
<1>1. Known = {} /\ \A k \in Keys : task[k] = NoMsg
  BY EmptyIs DEF Init, Known
<1>2. \A k \in Keys : Jobs(k) = {} /\ Acks(k) = {} /\ k \notin proc
  BY <1>1 DEF Init, Jobs, Acks
<1>3. QED  BY <1>1, <1>2 DEF OneJob, Alone

LEMMA OneJobNext == Base /\ OneJob /\ [Next]_vars => OneJob'
<1> SUFFICES ASSUME Base, OneJob, [Next]_vars PROVE OneJob'
  OBVIOUS
\* A step of which neither the jobs nor the tabs' handlers learn.
<1>1. ASSUME JobsSame, UNCHANGED <<tabs, proc, task, early>> PROVE OneJob'
  BY <1>1, AcksUnmoved, OneJobStays
\* A step of a tab that does not acknowledge.
<1>2. ASSUME NEW t \in Tabs, tabs[t].at # "ack", tabs'[t].at # "ack",
             \A u \in Tabs : u # t => tabs'[u] = tabs[u], UNCHANGED <<msgs, proc, task, early>>
      PROVE  OneJob'
  BY <1>2, JobsUnmoved, AcksOthers, OneJobStays
<1>3. ASSUME NEW t \in Tabs, Send(t) PROVE OneJob'
  BY <1>3, OneJobSend
<1>4. ASSUME NEW t \in Tabs, Stop(t) PROVE OneJob'
  BY <1>4, OneJobStop
<1>5. ASSUME NEW t \in Tabs, Close(t) \/ CancelUnanswered(t) PROVE OneJob'
  <2>1. /\ tabs[t].at # "ack" /\ tabs'[t].at # "ack" /\ UNCHANGED <<msgs, proc, task, early>>
        /\ \A u \in Tabs : u # t => tabs'[u] = tabs[u]
    BY <1>5, CloseIs, CancelUnansweredIs DEF Untold
  <2>2. QED  BY <1>2, <2>1
<1>6. ASSUME NEW t \in Tabs, NEW m \in Known, Cancel(t, m) PROVE OneJob'
  <2>1. /\ tabs[t].at # "ack" /\ tabs'[t].at # "ack" /\ UNCHANGED <<msgs, proc, task, early>>
        /\ \A u \in Tabs : u # t => tabs'[u] = tabs[u]
    BY <1>6, CancelIs
  <2>2. QED  BY <1>2, <2>1
<1>7. ASSUME NEW t \in Tabs, NEW k \in Keys, Move(t, k) PROVE OneJob'
  <2>1. /\ tabs[t].at # "ack" /\ tabs'[t].at # "ack" /\ UNCHANGED <<msgs, proc, task, early>>
        /\ \A u \in Tabs : u # t => tabs'[u] = tabs[u]
    BY <1>7, MoveIs
  <2>2. QED  BY <1>2, <2>1
<1>8. ASSUME NEW t \in Tabs, AckDone(t) PROVE OneJob'
  BY <1>8, OneJobAckDone
<1>9. ASSUME NEW t \in Tabs, SteerUnanswered(t) PROVE OneJob'
  <2>1. /\ tabs[t].at \in {"steer", "orphan"} /\ PutInQueue(t, tabs[t].msg) /\ tabs'[t].at = "idle"
        /\ \A u \in Tabs : u # t => tabs'[u] = tabs[u]
        /\ UNCHANGED <<proc, task, early>>
    BY <1>9, SteerUnansweredIs
  <2>2. QED  BY <2>1, OneJobQueues
<1>10. ASSUME NEW m \in Known, JobStarts(m) PROVE OneJob'
  BY <1>10, OneJobJobStarts
<1>11. ASSUME NEW m \in Known, StreamItem(m) \/ StreamTimesOut(m) PROVE OneJob'
  BY <1>11, OneJobStreams
<1>12. ASSUME NEW m \in Known, JobEnds(m) \/ JobIsStopped(m) PROVE OneJob'
  BY <1>12, OneJobOver
<1>13. ASSUME NEW m \in Known, JobNeverRuns(m) PROVE OneJob'
  BY <1>13, OneJobNeverRuns
<1>14. ASSUME Connect \/ Break PROVE OneJob'
  <2>1. UNCHANGED <<tabs, proc, task, early, msgs>>
    BY <1>14, ConnectIs, BreakIs DEF Untold
  <2>2. QED  BY <1>1, <2>1, JobsUnmoved
<1>15. ASSUME ClientNotices PROVE OneJob'
  <2>1. /\ UNCHANGED <<tabs, proc, task, early>> /\ Known' = Known
        /\ \A q \in Known :
             /\ msgs'[q].key = msgs[q].key /\ msgs'[q].stage = msgs[q].stage
             /\ msgs'[q].doomed = msgs[q].doomed
    BY <1>15, ClientNoticesIs DEF Untold
  <2>2. QED  BY <1>1, <2>1 DEF JobsSame
<1>16. ASSUME Receive PROVE OneJob'
  BY <1>16, OneJobReceive
<1>17. ASSUME NEW n \in DOMAIN wires, GatewayTakes(n) PROVE OneJob'
  <2>1. UNCHANGED <<tabs, proc, task, early, msgs>>
    BY <1>17, GatewayTakesIs
  <2>2. QED  BY <1>1, <2>1, JobsUnmoved
<1>18. ASSUME NEW m \in Known, HttpAccepted(m) PROVE OneJob'
  <2>1. /\ UNCHANGED <<tabs, proc, task, early>> /\ Known' = Known
        /\ \/ UNCHANGED msgs
           \/ /\ Only(m) /\ msgs[m].stage = "http" /\ msgs'[m].stage = "http"
              /\ ~msgs'[m].doomed
    BY <1>18, HttpAcceptedIs
  <2>2. JobsSame
    BY <2>1, JobsUnmoved, JobsOnly
  <2>3. QED  BY <1>1, <2>1, <2>2
<1>19. ASSUME NEW m \in Known, ChatStarts(m) \/ ChatEntersLoop(m) PROVE OneJob'
  <2>1. UNCHANGED <<tabs, proc, task, early, msgs>>
    BY <1>19, ChatGoesIs
  <2>2. QED  BY <1>1, <2>1, JobsUnmoved
<1>20. ASSUME NEW m \in Known, ChatProgress(m) \/ ChatAnswers(m) \/ ChatFails(m) PROVE OneJob'
  <2>1. /\ UNCHANGED <<tabs, proc, task, early>> /\ Known' = Known
        /\ \/ UNCHANGED msgs
           \/ /\ Only(m) /\ msgs[m].stage = "http" /\ msgs'[m].stage = "http"
              /\ ~msgs'[m].doomed
    BY <1>20, ChatSaysIs DEF Told
  <2>2. JobsSame
    BY <2>1, JobsUnmoved, JobsOnly
  <2>3. QED  BY <1>1, <2>1, <2>2
<1>21. ASSUME GatewayRestarts PROVE OneJob'
  <2>1. /\ UNCHANGED <<tabs, proc, task, early>> /\ Known' = Known
        /\ \A q \in Known :
             /\ msgs'[q].key = msgs[q].key /\ msgs'[q].stage = msgs[q].stage
             /\ msgs'[q].doomed = msgs[q].doomed
    BY <1>21, RestartIs
  <2>2. QED  BY <1>1, <2>1 DEF JobsSame
<1>22. CASE UNCHANGED vars
  <2>1. UNCHANGED <<tabs, proc, task, early, msgs>>
    BY <1>22 DEF vars, handler, history
  <2>2. QED  BY <1>1, <2>1, JobsUnmoved
<1>23. QED
  BY <1>3, <1>4, <1>5, <1>6, <1>7, <1>8, <1>9, <1>10, <1>11, <1>12, <1>13, <1>14,
     <1>15, <1>16, <1>17, <1>18, <1>19, <1>20, <1>21, <1>22
  DEF Next, UserActs, HandlerSteps, ClientSteps, GatewaySteps, Faults

LEMMA AloneIsOne == OneJob => OneJobAtATime
<1> SUFFICES ASSUME OneJob, NEW k \in Keys \ early
             PROVE  /\ Cardinality(Jobs(k)) + Cardinality(Acks(k)) = IF k \in proc THEN 1 ELSE 0
                    /\ task[k] = IF Jobs(k) = {} THEN NoMsg ELSE CHOOSE m \in Jobs(k) : TRUE
  BY DEF OneJobAtATime
<1>1. Alone(k, Jobs(k), Acks(k))
  BY DEF OneJob
<1>2. Cardinality({}) = 0 /\ \A x : Cardinality({x}) = 1
  BY FS_EmptySet, FS_Singleton
<1>3. CASE k \notin proc /\ Jobs(k) = {} /\ Acks(k) = {} /\ task[k] = NoMsg
  BY <1>2, <1>3
<1>4. CASE k \in proc /\ Jobs(k) = {} /\ task[k] = NoMsg /\ \E t \in Tabs : Acks(k) = {t}
  <2> HIDE DEF Jobs, Acks
  <2>1. PICK t \in Tabs : Acks(k) = {t}
    BY <1>4
  <2>2. Cardinality(Jobs(k)) = 0
    BY <1>2, <1>4
  <2>3. Cardinality(Acks(k)) = 1
    BY <1>2, <2>1
  <2>4. Cardinality(Jobs(k)) + Cardinality(Acks(k)) = 1
    BY <2>2, <2>3
  <2>5. QED  BY <1>4, <2>4
<1>5. CASE k \in proc /\ Acks(k) = {} /\ task[k] # NoMsg /\ Jobs(k) = {task[k]}
  <2>1. (CHOOSE m \in Jobs(k) : TRUE) = task[k]
    BY <1>5
  <2>2. Jobs(k) # {}
    BY <1>5
  <2>3. Cardinality(Jobs(k)) = 1
    BY <1>2, <1>5
  <2>4. Cardinality(Acks(k)) = 0
    BY <1>2, <1>5
  <2>5. Cardinality(Jobs(k)) + Cardinality(Acks(k)) = IF k \in proc THEN 1 ELSE 0
    <3> HIDE DEF Jobs, Acks
    <3>1. QED  BY <1>5, <2>3, <2>4
  <2>6. task[k] = IF Jobs(k) = {} THEN NoMsg ELSE CHOOSE m \in Jobs(k) : TRUE
    BY <2>1, <2>2
  <2>7. QED  BY <2>5, <2>6
<1>6. QED  BY <1>1, <1>3, <1>4, <1>5 DEF Alone

\* A session has one job at a time, whatever its tabs send and stop, and the
\* task that a stop would cancel is that job's; unless a stop came before a
\* job's first step.
THEOREM OneJobAtOnce == Spec => []OneJobAtATime
<1>1. Spec => []Base
  BY BaseInit, BaseNext, PTL DEF Spec
<1>2. Spec => []OneJob
  BY <1>1, OneJobInit, OneJobNext, PTL DEF Spec
<1>3. QED  BY <1>2, AloneIsOne, PTL

-----------------------------------------------------------------------------
(* A message is steering or a turn.                                        *)

\* Nothing more is said of steering with message m.
NoMoreSaid(m) ==
  /\ Up("steer", m)' => Up("steer", m)
  /\ Down("refused", m)' => Down("refused", m)
  /\ Down("injected", m)' => Down("injected", m)
  /\ m \in heard' <=> m \in heard

\* What was held is held, or its request has ended; what was steered is over.
Keeps(m) ==
  /\ m \in Known => m \in Known'
  /\ m \in Known /\ msgs[m].stage = "held" =>
       m \in unanswered' \/ msgs'[m].stage = "held"
  /\ m \in Known /\ msgs[m].stage = "over" /\ msgs[m].end = "steered" =>
       msgs'[m].stage = "over" /\ msgs'[m].end = "steered"

NoMoreAcks(m) ==
  \A t \in Tabs : tabs'[t].at = "ack" /\ tabs'[t].msg = m =>
    tabs[t].at = "ack" /\ tabs[t].msg = m

LEMMA SteeringKept ==
  ASSUME NEW m \in MsgIds, Steering(m), NoMoreSaid(m), Offered(m) => Keeps(m), NoMoreAcks(m),
         unanswered \subseteq unanswered'
  PROVE  Steering(m)'
<1>1. Offered(m)' => Offered(m)
  BY DEF NoMoreSaid, Offered
<1>2. Offered(m)' => m \in Known' /\ \A t \in Tabs : tabs'[t].at = "ack" => tabs'[t].msg # m
  BY <1>1 DEF Steering, Keeps, NoMoreAcks
<1>3. Up("steer", m)' => m \in unanswered' \/ msgs'[m].stage = "held"
  BY DEF Steering, Keeps, NoMoreSaid, Offered
<1>4. m \in heard' =>
       \/ m \in unanswered'
       \/ msgs'[m].stage = "held"
       \/ msgs'[m].stage = "over" /\ msgs'[m].end = "steered"
  BY DEF Steering, Keeps, NoMoreSaid, Offered
<1>5. /\ Up("steer", m)' => m \notin heard' /\ ~Down("refused", m)'
      /\ Down("refused", m)' => m \notin heard'
      /\ Down("injected", m)' => m \in heard'
  BY DEF Steering, NoMoreSaid
<1>6. QED  BY <1>2, <1>3, <1>4, <1>5 DEF Steering

LEMMA NothingMoreSaid ==
  ASSUME UpsFewer, DownsFewer, UNCHANGED heard, NEW m PROVE NoMoreSaid(m)
  BY FewerUps, FewerDowns DEF NoMoreSaid

LEMMA KeepsSame ==
  ASSUME NEW m, Known' = Known,
         m \in Known => msgs'[m].stage = msgs[m].stage /\ msgs'[m].end = msgs[m].end
  PROVE  Keeps(m)
  BY DEF Keeps

\* A step that is not about message m.
LEMMA KeepsOnly ==
  ASSUME NEW m, Only(m), Known' = Known, msgs[m].stage \notin {"held", "over"}
  PROVE  \A q : Keeps(q)
<1>1. \A q \in Known : q # m => msgs'[q] = msgs[q]
  BY DEF Only, ButFor, Known
<1>2. QED  BY <1>1 DEF Keeps

LEMMA SteeringsStay ==
  ASSUME Steerings, UpsFewer, DownsFewer, UNCHANGED <<heard, unanswered>>,
         \A m : Keeps(m) /\ NoMoreAcks(m)
  PROVE  Steerings'
<1>1. \A m \in MsgIds : NoMoreSaid(m)
  BY NothingMoreSaid
<1>2. QED  BY <1>1, SteeringKept DEF Steerings

LEMMA TabsNoMoreAcks == ASSUME UNCHANGED tabs PROVE \A m : NoMoreAcks(m)
<1> SUFFICES ASSUME NEW m, NEW u \in Tabs, tabs'[u].at = "ack", tabs'[u].msg = m
             PROVE  tabs[u].at = "ack" /\ tabs[u].msg = m
  BY DEF NoMoreAcks
<1>1. tabs'[u] = tabs[u]
  OBVIOUS
<1>2. QED  BY <1>1

LEMMA AcksLeave ==
  ASSUME NEW t \in Tabs, tabs'[t].at # "ack", \A u \in Tabs : u # t => tabs'[u] = tabs[u]
  PROVE  \A m : NoMoreAcks(m)
<1> SUFFICES ASSUME NEW m, NEW u \in Tabs, tabs'[u].at = "ack", tabs'[u].msg = m
             PROVE  tabs[u].at = "ack" /\ tabs[u].msg = m
  BY DEF NoMoreAcks
<1>1. tabs'[u] = tabs[u]
  OBVIOUS
<1>2. QED  BY <1>1

LEMMA KeepsUnmoved == ASSUME UNCHANGED msgs PROVE Known' = Known /\ \A m : Keeps(m)
  BY DEF Keeps, Known

LEMMA SteeringsSend ==
  ASSUME Base, Steerings, NEW t \in Tabs, Send(t), NEW m, m = Len(msgs) + 1 PROVE Steerings'
<1>1. /\ WireTypes /\ Untold /\ UNCHANGED conn /\ m \in MsgIds /\ m \notin Known
      /\ Known' = Known \cup {m}
      /\ \A q \in Known : msgs'[q] = msgs[q]
      /\ tabs[t].at = "idle" /\ \A u \in Tabs : u # t => tabs'[u] = tabs[u]
      /\ \/ tabs'[t].at = "ack" /\ tabs'[t].msg = m /\ UNCHANGED wires
         \/ /\ Requested(t, "steer", m) /\ msgs'[m].stage = "held"
            /\ tabs'[t].at = "steer"
         \/ UNCHANGED <<tabs, wires>>
  BY SendIs, Parts DEF Base
<1>2. Steering(m) /\ ~Offered(m)
  BY <1>1 DEF Steerings, Steering
<1>3. /\ ~Up("steer", m) /\ m \notin heard /\ ~Down("refused", m) /\ ~Down("injected", m)
  BY <1>2 DEF Steering, Offered
<1>4. ASSUME NEW q PROVE Keeps(q)
  BY <1>1 DEF Keeps
<1>5. ASSUME NEW q \in MsgIds, q # m \/ UNCHANGED tabs \/ tabs'[t].at = "steer" PROVE NoMoreAcks(q)
  BY <1>1, <1>5 DEF NoMoreAcks
<1>6. CASE UNCHANGED wires
  <2>1. UpsFewer /\ DownsFewer
    BY <1>6, SameUps
  <2>2. ASSUME NEW q \in MsgIds PROVE NoMoreSaid(q)
    BY <1>1, <2>1, NothingMoreSaid DEF Untold
  <2>3. ASSUME NEW q \in MsgIds, q # m PROVE Steering(q)'
    BY <1>1, <1>4, <1>5, <2>2, <2>3, SteeringKept DEF Steerings, Untold
  <2>4. Steering(m)'
    <3>1. ~Up("steer", m)' /\ m \notin heard' /\ ~Down("refused", m)' /\ ~Down("injected", m)'
      BY <1>1, <1>3, <2>2 DEF NoMoreSaid
    <3>2. QED  BY <3>1 DEF Steering, Offered
  <2>5. QED  BY <2>3, <2>4 DEF Steerings
<1>7. CASE Requested(t, "steer", m) /\ msgs'[m].stage = "held" /\ tabs'[t].at = "steer"
  <2>1. conn # 0 /\ Sends(<<"steer", m>>) /\ "steer" \in ToGateway
    BY <1>7 DEF Requested, ToGateway
  <2>2. /\ \A w, q : Up(w, q)' => Up(w, q) \/ <<w, q>> = <<"steer", m>>
        /\ DownsFewer
    BY <1>1, <2>1, MoreUps
  <2>3. ASSUME NEW q \in MsgIds, q # m PROVE Steering(q)'
    <3>1. NoMoreSaid(q)
      BY <1>1, <2>2, <2>3, FewerDowns DEF NoMoreSaid, Untold
    <3>2. QED  BY <1>1, <1>4, <1>5, <2>3, <3>1, SteeringKept DEF Steerings, Untold
  <2>4. Steering(m)'
    <3>1. m \notin heard' /\ ~Down("refused", m)' /\ ~Down("injected", m)'
      BY <1>1, <1>3, <2>2, FewerDowns DEF Untold
    <3>2. ASSUME NEW u \in Tabs, tabs'[u].at = "ack" PROVE tabs'[u].msg # m
      <4>1. tabs[u].at = "ack" /\ tabs'[u].msg = tabs[u].msg
        BY <1>1, <1>7, <3>2
      <4>2. tabs[u].msg \in Known
        BY <4>1, HeldIs DEF Waits
      <4>3. QED  BY <1>1, <4>1, <4>2
    <3>3. QED  BY <1>1, <1>7, <3>1, <3>2 DEF Steering, Offered
  <2>5. QED  BY <2>3, <2>4 DEF Steerings
<1>8. QED  BY <1>1, <1>6, <1>7

\* What the handler holds to acknowledge was not offered.
LEMMA SteeringsAckDone ==
  ASSUME Base, Steerings, NEW t \in Tabs, AckDone(t), NEW m, m = tabs[t].msg PROVE Steerings'
<1>1. /\ Inside /\ Untold /\ m \in Known /\ m \in MsgIds /\ tabs[t].at = "ack"
      /\ tabs'[t].at = "idle" /\ \A u \in Tabs : u # t => tabs'[u] = tabs[u]
      /\ Only(m) /\ Known' = Known
  BY AckDoneIs, KnownIs, Parts DEF Base
<1>2. \A q : NoMoreAcks(q)
  BY <1>1, AcksLeave
<1>3. ~Offered(m)
  BY <1>1 DEF Steerings, Steering
<1>4. \A q : q # m => Keeps(q)
  BY <1>1 DEF Only, ButFor, Keeps, Known
<1>5. \A q : NoMoreSaid(q)
  BY <1>1, SameUps, NothingMoreSaid DEF Inside, Untold
<1>6. ASSUME NEW q \in MsgIds PROVE Steering(q)'
  BY <1>1, <1>2, <1>3, <1>4, <1>5, SteeringKept DEF Steerings, Untold
<1>7. QED  BY <1>6 DEF Steerings

\* The handler does not wait any longer for the answer about message m.
LEMMA SteeringsUnanswered ==
  ASSUME Base, Steerings, NEW t \in Tabs, SteerUnanswered(t), NEW m, m = tabs[t].msg
  PROVE  Steerings'
<1>1. /\ UNCHANGED <<wires, heard>> /\ unanswered' = unanswered \cup {m}
      /\ tabs[t].at \in {"steer", "orphan"} /\ PutInQueue(t, m) /\ tabs'[t].at = "idle"
      /\ \A u \in Tabs : u # t => tabs'[u] = tabs[u]
  BY SteerUnansweredIs
<1>2. m \in Known /\ msgs[m].stage = "held" /\ Only(m)
  BY <1>1, Queues
<1>3. \A q : NoMoreAcks(q)
  BY <1>1, AcksLeave
<1>4. \A q : Keeps(q)
  BY <1>1, <1>2 DEF Only, ButFor, Keeps, Known
<1>5. \A q : NoMoreSaid(q)
  BY <1>1, SameUps, NothingMoreSaid
<1>6. unanswered \subseteq unanswered'
  BY <1>1
<1>7. QED  BY <1>3, <1>4, <1>5, <1>6, SteeringKept DEF Steerings

LEMMA SteeringsStop == ASSUME Base, Steerings, NEW t \in Tabs, Stop(t) PROVE Steerings'
<1>1. /\ Inside /\ UNCHANGED <<heard, unanswered>> /\ Known' = Known
      /\ \A u \in Tabs :
           /\ tabs'[u].msg = tabs[u].msg
           /\ tabs'[u].at = IF tabs[u].at = "steer" /\ tabs[u].key = tabs[t].key
                            THEN "orphan" ELSE tabs[u].at
  BY StopIs
<1> DEFINE Thrown == {q \in Known : Contains(queue[tabs[t].key], q)}
<1>2. /\ \A q \in Thrown : msgs[q].stage = "queued"
      /\ \A q \in Known \ Thrown :
           msgs'[q].stage = msgs[q].stage /\ msgs'[q].end = msgs[q].end
  BY StopIs
<1> HIDE DEF Thrown
<1>3. \A q : Keeps(q)
  BY <1>1, <1>2 DEF Keeps
<1>4. \A q : NoMoreAcks(q)
  BY <1>1 DEF NoMoreAcks
<1>5. QED  BY <1>1, <1>3, <1>4, SameUps, SteeringsStay DEF Inside

\* A frame that is not about steering is sent.
LEMMA SteeringsSends ==
  ASSUME WireTypes, Steerings, conn # 0, NEW what \in {"chat", "cancel"}, NEW m \in MsgIds,
         Sends(<<what, m>>), UNCHANGED <<heard, unanswered>>,
         \A q : Keeps(q) /\ NoMoreAcks(q)
  PROVE  Steerings'
<1>1. what \in ToGateway
  BY DEF ToGateway
<1>2. /\ \A w, q : Up(w, q)' => Up(w, q) \/ <<w, q>> = <<what, m>>
      /\ DownsFewer
  BY <1>1, MoreUps
<1>3. \A q : NoMoreSaid(q)
  BY <1>2, FewerDowns DEF NoMoreSaid
<1>4. QED  BY <1>3, SteeringKept DEF Steerings

LEMMA SteeringsJobOver ==
  ASSUME Base, Steerings, NEW m \in Known, JobEnds(m) \/ JobIsStopped(m) PROVE Steerings'
<1>1. /\ Inside /\ Untold /\ UNCHANGED tabs /\ Known' = Known
      /\ msgs[m].stage \in {"stream", "http", "emit"}
      /\ \/ \E h : /\ msgs[h].stage = "queued"
                   /\ \A q \in Known : q # m /\ q # h => msgs'[q] = msgs[q]
         \/ \A q \in Known : q # m => msgs'[q] = msgs[q]
  BY JobOverIs
<1>2. \A q : Keeps(q)
  BY <1>1 DEF Keeps
<1>3. UpsFewer /\ DownsFewer /\ UNCHANGED <<heard, unanswered>> /\ \A q : NoMoreAcks(q)
  <2>1. UNCHANGED tabs /\ UNCHANGED wires
    BY <1>1 DEF Inside
  <2>2. QED  BY <1>1, <2>1, TabsNoMoreAcks, SameUps DEF Untold
<1>4. QED  BY <1>2, <1>3, SteeringsStay

\* A step of one job, over no connection.
LEMMA SteeringsOnly ==
  ASSUME Steerings, NEW m, Only(m), Known' = Known, msgs[m].stage \notin {"held", "over"},
         UNCHANGED <<tabs, heard, unanswered>>, UpsFewer, DownsFewer
  PROVE  Steerings'
<1>1. \A q : Keeps(q)
  BY KeepsOnly
<1>2. \A q : NoMoreAcks(q)
  <2>1. UNCHANGED tabs
    OBVIOUS
  <2>2. QED  BY <2>1, TabsNoMoreAcks
<1>3. QED  BY <1>1, <1>2, SteeringsStay

\* A step that moves no message.
LEMMA SteeringsUnmoved ==
  ASSUME Steerings, UNCHANGED <<msgs, heard, unanswered>>, UpsFewer, DownsFewer,
         \A m : NoMoreAcks(m)
  PROVE  Steerings'
  BY KeepsUnmoved, SteeringsStay

LEMMA SteeringsClientNotices == ASSUME Base, Steerings, ClientNotices PROVE Steerings'
<1>1. /\ UNCHANGED <<tabs, heard, unanswered>> /\ SameWires /\ Known' = Known
      /\ \A n \in DOMAIN wires :
           /\ wires'[n].up = wires[n].up
           /\ wires'[n].down = IF n = conn THEN <<>> ELSE wires[n].down
      /\ \A q \in Known : msgs'[q].stage = msgs[q].stage /\ msgs'[q].end = msgs[q].end
  BY ClientNoticesIs DEF Untold
<1>2. UpsFewer /\ DownsFewer
  BY <1>1, EmptyIs DEF UpsFewer, DownsFewer, SameWires
<1>3. \A q : Keeps(q)
  BY <1>1, KeepsSame
<1>4. \A q : NoMoreAcks(q)
  BY <1>1, TabsNoMoreAcks
<1>5. QED  BY <1>1, <1>2, <1>3, <1>4, SteeringsStay

LEMMA SteeringsConnect == ASSUME Base, Steerings, Connect PROVE Steerings'
<1> DEFINE n == Len(wires) + 1
<1>1. /\ Untold /\ UNCHANGED <<tabs, msgs>> /\ DOMAIN wires' = DOMAIN wires \cup {n}
      /\ wires'[n] = NewWire /\ \A p \in DOMAIN wires : wires'[p] = wires[p]
  BY ConnectIs
<1> HIDE DEF n
<1>2. DOMAIN wires'[n].up = {} /\ DOMAIN wires'[n].down = {}
  BY <1>1, EmptyIs DEF NewWire
<1>3. UpsFewer /\ DownsFewer
  BY <1>1, <1>2 DEF UpsFewer, DownsFewer
<1>4. \A q : NoMoreAcks(q)
  BY <1>1, TabsNoMoreAcks
<1>5. QED  BY <1>1, <1>3, <1>4, SteeringsUnmoved DEF Untold

LEMMA SteeringsBreak == ASSUME Base, Steerings, Break PROVE Steerings'
<1>1. Untold /\ UNCHANGED <<tabs, msgs>> /\ SameWires /\ DownsStay /\ WireTypes
  BY BreakIs, Parts DEF Base
<1>2. PICK n \in DOMAIN wires : \E i \in 0 .. Len(wires[n].up) :
        /\ wires'[n].up = SubSeq(wires[n].up, 1, i)
        /\ \A p \in DOMAIN wires : p # n => wires'[p].up = wires[p].up
  BY BreakIs
<1>3. PICK i \in 0 .. Len(wires[n].up) :
        /\ wires'[n].up = SubSeq(wires[n].up, 1, i)
        /\ \A p \in DOMAIN wires : p # n => wires'[p].up = wires[p].up
  BY <1>2
<1>4. /\ DOMAIN wires'[n].up = 1 .. i
      /\ \A j \in 1 .. i : j \in DOMAIN wires[n].up /\ wires'[n].up[j] = wires[n].up[j]
  BY <1>1, <1>3, WireFields, PrefixIs DEF WireTypes
<1>5. UpsFewer /\ DownsFewer
  BY <1>1, <1>3, <1>4 DEF UpsFewer, DownsFewer, SameWires, DownsStay
<1>6. \A q : NoMoreAcks(q)
  BY <1>1, TabsNoMoreAcks
<1>7. QED  BY <1>1, <1>5, <1>6, SteeringsUnmoved DEF Untold

LEMMA SteeringsRestart == ASSUME Base, Steerings, GatewayRestarts PROVE Steerings'
<1>1. /\ UNCHANGED <<tabs, heard, unanswered>> /\ SameWires /\ DownsStay /\ Known' = Known
      /\ \A p \in DOMAIN wires : wires'[p].up = <<>>
      /\ \A q \in Known : msgs'[q].stage = msgs[q].stage /\ msgs'[q].end = msgs[q].end
  BY RestartIs
<1>2. UpsFewer /\ DownsFewer
  BY <1>1, EmptyIs DEF UpsFewer, DownsFewer, SameWires, DownsStay
<1>3. \A q : Keeps(q)
  BY <1>1, KeepsSame
<1>4. \A q : NoMoreAcks(q)
  BY <1>1, TabsNoMoreAcks
<1>5. QED  BY <1>1, <1>2, <1>3, <1>4, SteeringsStay

\* A refused message was not heard; one that was taken is over.
LEMMA SteeringsReceive ==
  ASSUME Base, Steerings, Receive, NEW what, NEW m,
         what = wires[conn].down[1][1], m = wires[conn].down[1][2]
  PROVE  Steerings'
<1>1. /\ UNCHANGED <<heard, unanswered>> /\ conn \in DOMAIN wires /\ wires[conn].down # <<>>
      /\ wires[conn].down \in Seq(DownFrames) /\ wires[conn].down[1] = <<what, m>> /\ m \in MsgIds
      /\ 1 \in DOMAIN wires[conn].down /\ SameWires /\ Known' = Known
      /\ \A p \in DOMAIN wires :
           /\ wires'[p].up = wires[p].up
           /\ wires'[p].down = IF p = conn THEN Tail(wires[conn].down) ELSE wires[p].down
  BY ReceiveIs
<1>2. \/ UNCHANGED tabs
      \/ \E t \in Tabs : tabs'[t].at = "idle" /\ \A u \in Tabs : u # t => tabs'[u] = tabs[u]
  BY ReceiveIs
<1>3. \/ Registered(m) /\ Only(m)
      \/ /\ m \in Known /\ Only(m) /\ msgs[m].stage = "held" /\ what = "injected"
         /\ msgs'[m].stage = "over" /\ msgs'[m].end = "steered"
      \/ /\ what = "refused"
         /\ \E t \in Tabs : tabs[t].at \in {"steer", "orphan"} /\ tabs[t].msg = m /\ PutInQueue(t, m)
      \/ UNCHANGED msgs
  BY ReceiveIs
<1>4. Down(what, m)
  BY <1>1 DEF Down
<1>5. UpsFewer
  BY <1>1 DEF UpsFewer, SameWires
<1>6. DownsFewer
  <2> DEFINE d == wires[conn].down
  <2>1. /\ DOMAIN Tail(d) = {i \in DOMAIN d : i + 1 \in DOMAIN d}
        /\ \A i \in DOMAIN Tail(d) : Tail(d)[i] = d[i + 1]
    BY <1>1, TailIs
  <2>2. QED  BY <1>1, <2>1 DEF DownsFewer, SameWires
<1>7. \A q : NoMoreSaid(q) /\ NoMoreAcks(q)
  <2>1. \A q : NoMoreAcks(q)
    BY <1>2, TabsNoMoreAcks, AcksLeave
  <2>2. QED  BY <1>1, <1>5, <1>6, <2>1, NothingMoreSaid
<1>8. Steering(m)
  BY <1>1 DEF Steerings
<1>9. CASE UNCHANGED msgs
  BY <1>1, <1>5, <1>6, <1>7, <1>9, SteeringsUnmoved
<1>10. CASE Registered(m) /\ Only(m)
  <2>1. msgs[m].stage \notin {"held", "over"}
    BY <1>10 DEF Registered
  <2>2. \A q : Keeps(q)
    BY <1>1, <1>10, <2>1, KeepsOnly
  <2>3. QED  BY <1>1, <1>5, <1>6, <1>7, <2>2, SteeringsStay
<1>11. ASSUME m \in Known, Only(m), msgs[m].stage = "held", what = "injected",
              msgs'[m].stage = "over", msgs'[m].end = "steered"
       PROVE  Steerings'
  <2>1. m \in heard /\ ~Up("steer", m) /\ ~Down("refused", m)
    BY <1>4, <1>8, <1>11 DEF Steering
  <2>2. Steering(m)'
    <3>1. /\ ~Up("steer", m)' /\ ~Down("refused", m)' /\ m \in heard'
      BY <1>7, <2>1 DEF NoMoreSaid
    <3>2. m \in Known' /\ \A t \in Tabs : tabs'[t].at = "ack" => tabs'[t].msg # m
      BY <1>1, <1>7, <1>8, <1>11, <2>1 DEF Steering, Offered, NoMoreAcks
    <3>3. QED  BY <1>11, <3>1, <3>2 DEF Steering
  <2>3. ASSUME NEW q \in MsgIds, q # m PROVE Steering(q)'
    <3>1. Keeps(q)
      BY <1>1, <1>11, <2>3 DEF Only, ButFor, Keeps, Known
    <3>2. QED  BY <1>1, <1>7, <3>1, SteeringKept DEF Steerings
  <2>4. QED  BY <2>2, <2>3 DEF Steerings
<1>12. ASSUME what = "refused", NEW t \in Tabs, tabs[t].at \in {"steer", "orphan"},
              tabs[t].msg = m, PutInQueue(t, m)
       PROVE  Steerings'
  <2>1. m \notin heard /\ ~Up("steer", m) /\ Down("refused", m)
    BY <1>4, <1>8, <1>12 DEF Steering
  <2>2. m \in Known /\ Only(m)
    BY <1>12, Queues
  <2>3. Steering(m)'
    <3>1. /\ ~Up("steer", m)' /\ m \notin heard' /\ ~Down("injected", m)'
      BY <1>7, <1>8, <2>1 DEF NoMoreSaid, Steering
    <3>2. m \in Known' /\ \A u \in Tabs : tabs'[u].at = "ack" => tabs'[u].msg # m
      BY <1>1, <1>7, <1>8, <2>1, <2>2 DEF Steering, Offered, NoMoreAcks
    <3>3. QED  BY <3>1, <3>2 DEF Steering
  <2>4. ASSUME NEW q \in MsgIds, q # m PROVE Steering(q)'
    <3>1. Keeps(q)
      BY <1>1, <2>2, <2>4 DEF Only, ButFor, Keeps, Known
    <3>2. QED  BY <1>1, <1>7, <3>1, SteeringKept DEF Steerings
  <2>5. QED  BY <2>3, <2>4 DEF Steerings
<1>13. QED  BY <1>3, <1>9, <1>10, <1>11, <1>12

\* The gateway takes a steering request once, and answers as it did.
LEMMA SteeringsGatewayTakes ==
  ASSUME Base, Talks, Steerings, NEW n \in DOMAIN wires, GatewayTakes(n),
         NEW frame, NEW m, frame = wires[n].up[1], m = frame[2]
  PROVE  Steerings'
<1>1. /\ UNCHANGED <<tabs, msgs, unanswered>> /\ wires[n].up # <<>> /\ m \in MsgIds
      /\ SameWires /\ WireTypes
      /\ \A p \in DOMAIN wires :
           wires'[p].up = IF p = n THEN Tail(wires[n].up) ELSE wires[p].up
      /\ \/ DownsStay /\ UNCHANGED heard
         \/ UNCHANGED heard /\ \E what \in {"failed", "heeded"} : SaysOn(n, what, m)
         \/ frame = <<"steer", m>> /\ SaysOn(n, "injected", m) /\ heard' = heard \cup {m}
         \/ frame = <<"steer", m>> /\ SaysOn(n, "refused", m) /\ UNCHANGED heard
  BY GatewayTakesIs, Parts DEF Base
<1>2. /\ \A w, q : Up(w, q)' => Up(w, q)
      /\ frame = <<"steer", m>> => Up("steer", m) /\ ~Up("steer", m)'
  BY <1>1, UpTaken DEF Talks
<1>3. \A q : Keeps(q) /\ NoMoreAcks(q)
  BY <1>1, KeepsUnmoved, TabsNoMoreAcks
<1>4. ASSUME NEW q \in MsgIds, NoMoreSaid(q) PROVE Steering(q)'
  BY <1>1, <1>3, <1>4, SteeringKept DEF Steerings
<1>5. CASE DownsStay /\ UNCHANGED heard
  <2>1. DownsFewer
    BY <1>1, <1>5 DEF DownsStay, DownsFewer, SameWires
  <2>2. \A q : NoMoreSaid(q)
    BY <1>2, <1>5, <2>1, FewerDowns DEF NoMoreSaid
  <2>3. QED  BY <1>4, <2>2 DEF Steerings
<1>6. ASSUME UNCHANGED heard, NEW what \in {"failed", "heeded"}, SaysOn(n, what, m)
      PROVE  Steerings'
  <2>1. what \in ToClient
    BY DEF ToClient, Events
  <2>2. \A w, q : Down(w, q)' => Down(w, q) \/ <<w, q>> = <<what, m>>
    BY <1>1, <1>6, <2>1, MoreDowns
  <2>3. \A q : NoMoreSaid(q)
    BY <1>2, <1>6, <2>2 DEF NoMoreSaid
  <2>4. QED  BY <1>4, <2>3 DEF Steerings
<1>7. ASSUME NEW what \in {"injected", "refused"}, frame = <<"steer", m>>, SaysOn(n, what, m),
             heard' = IF what = "injected" THEN heard \cup {m} ELSE heard
      PROVE  Steerings'
  <2>1. what \in ToClient
    BY DEF ToClient
  <2>2. \A w, q : Down(w, q)' => Down(w, q) \/ <<w, q>> = <<what, m>>
    BY ZenonT(60), <1>1, <1>7, <2>1, MoreDowns
  <2>3. Steering(m) /\ Up("steer", m) /\ ~Up("steer", m)'
    BY <1>1, <1>2, <1>7 DEF Steerings
  <2>4. m \notin heard /\ ~Down("refused", m) /\ ~Down("injected", m)
    BY <2>3 DEF Steering
  <2>5. /\ Down("refused", m)' => what = "refused"
        /\ Down("injected", m)' => what = "injected"
    BY <2>2, <2>4
  <2>6. m \in heard' <=> what = "injected"
    BY <1>7, <2>4
  <2>7. m \in Known' /\ \A u \in Tabs : tabs'[u].at = "ack" => tabs'[u].msg # m
    BY <1>3, <2>3 DEF Steering, Offered, NoMoreAcks, Keeps
  <2>8. m \in unanswered' \/ msgs'[m].stage = "held"
    BY <1>1, <2>3 DEF Steering
  <2>9. Steering(m)'
    BY <2>3, <2>5, <2>6, <2>7, <2>8 DEF Steering
  <2>10. ASSUME NEW q \in MsgIds, q # m PROVE Steering(q)'
    <3>1. NoMoreSaid(q)
      BY <1>2, <1>7, <2>2, <2>10 DEF NoMoreSaid
    <3>2. QED  BY <1>4, <3>1
  <2>11. QED  BY <2>9, <2>10 DEF Steerings
<1>8. QED  BY <1>1, <1>5, <1>6, <1>7

LEMMA SteeringsChatSays ==
  ASSUME Base, Steerings, NEW m \in Known, ChatProgress(m) \/ ChatAnswers(m) \/ ChatFails(m)
  PROVE  Steerings'
<1>1. PICK what \in {"progress", "answer", "cancelled", "failed"} :
        /\ Told(m, what) /\ UNCHANGED <<tabs, heard, unanswered>> /\ Known' = Known
  BY ChatSaysIs
<1>2. what \in Events
  BY DEF Events
<1>3. UpsFewer /\ \A w, q : Down(w, q)' => Down(w, q) \/ <<w, q>> = <<what, m>>
  BY <1>1, <1>2, ToldDowns
<1>4. \A q : NoMoreSaid(q)
  BY <1>1, <1>3, FewerUps DEF NoMoreSaid
<1>5. \A q : Keeps(q)
  <2>1. CASE UNCHANGED msgs
    BY <2>1, KeepsUnmoved
  <2>2. CASE ~ UNCHANGED msgs
    BY <1>1, <2>2, KeepsOnly DEF Told
  <2>3. QED  BY <2>1, <2>2
<1>6. \A q : NoMoreAcks(q)
  BY <1>1, TabsNoMoreAcks
<1>7. QED  BY <1>1, <1>4, <1>5, <1>6, SteeringKept DEF Steerings

LEMMA SteeringsInit == Init => Steerings
<1> SUFFICES ASSUME Init PROVE Steerings
  OBVIOUS
<1>1. DOMAIN wires = {} /\ heard = {}
  BY EmptyIs DEF Init
<1>2. \A w, m : ~Up(w, m) /\ ~Down(w, m)
  BY <1>1 DEF Up, Down
<1>3. QED  BY <1>1, <1>2 DEF Steerings, Steering, Offered

LEMMA SteeringsNext == Base /\ Talks /\ Steerings /\ [Next]_vars => Steerings'
<1> SUFFICES ASSUME Base, Talks, Steerings, [Next]_vars PROVE Steerings'
  OBVIOUS
<1>1. ASSUME NEW t \in Tabs, Send(t) PROVE Steerings'
  BY <1>1, SteeringsSend
<1>2. ASSUME NEW t \in Tabs, Stop(t) PROVE Steerings'
  BY <1>2, SteeringsStop
<1>3. ASSUME NEW t \in Tabs, Close(t) PROVE Steerings'
  <2>1. /\ Inside /\ UNCHANGED <<msgs, heard, unanswered>> /\ tabs'[t].at # "ack"
        /\ \A u \in Tabs : u # t => tabs'[u] = tabs[u]
    BY <1>3, CloseIs
  <2>2. UpsFewer /\ DownsFewer
    BY <2>1, SameUps DEF Inside
  <2>3. QED  BY <2>1, <2>2, AcksLeave, SteeringsUnmoved
<1>4. ASSUME NEW t \in Tabs, NEW m \in Known, Cancel(t, m) PROVE Steerings'
  <2>1. /\ UNCHANGED <<msgs, heard, unanswered>> /\ tabs'[t].at # "ack"
        /\ m \in MsgIds /\ Requested(t, "cancel", m) /\ WireTypes
        /\ \A u \in Tabs : u # t => tabs'[u] = tabs[u]
    BY <1>4, CancelIs, Parts DEF Base
  <2>2. conn # 0 /\ Sends(<<"cancel", m>>)
    BY <2>1 DEF Requested
  <2>3. QED  BY <2>1, <2>2, AcksLeave, KeepsUnmoved, SteeringsSends
<1>5. ASSUME NEW t \in Tabs, NEW k \in Keys, Move(t, k) PROVE Steerings'
  <2>1. /\ Inside /\ UNCHANGED <<msgs, heard, unanswered>> /\ tabs'[t].at # "ack"
        /\ \A u \in Tabs : u # t => tabs'[u] = tabs[u]
    BY <1>5, MoveIs
  <2>2. UpsFewer /\ DownsFewer
    BY <2>1, SameUps DEF Inside
  <2>3. QED  BY <2>1, <2>2, AcksLeave, SteeringsUnmoved
<1>6. ASSUME NEW t \in Tabs, AckDone(t) PROVE Steerings'
  BY <1>6, SteeringsAckDone
<1>7. ASSUME NEW t \in Tabs, SteerUnanswered(t) PROVE Steerings'
  BY <1>7, SteeringsUnanswered
<1>8. ASSUME NEW t \in Tabs, CancelUnanswered(t) PROVE Steerings'
  <2>1. /\ UNCHANGED <<wires, msgs, heard, unanswered>> /\ tabs'[t].at # "ack"
        /\ \A u \in Tabs : u # t => tabs'[u] = tabs[u]
    BY <1>8, CancelUnansweredIs DEF Untold
  <2>2. UpsFewer /\ DownsFewer
    BY <2>1, SameUps
  <2>3. QED  BY <2>1, <2>2, AcksLeave, SteeringsUnmoved
<1>9. ASSUME NEW m \in Known, JobStarts(m) PROVE Steerings'
  <2>1. /\ Untold /\ UNCHANGED tabs /\ WireTypes /\ m \in MsgIds /\ Only(m) /\ Known' = Known
        /\ msgs[m].stage \notin {"held", "over"}
        /\ (conn # 0 /\ Sends(<<"chat", m>>)) \/ UNCHANGED wires
    BY <1>9, JobStartsIs, Parts DEF Base
  <2>2. \A q : Keeps(q) /\ NoMoreAcks(q)
    BY <2>1, KeepsOnly, TabsNoMoreAcks
  <2>3. CASE UNCHANGED wires
    BY <2>1, <2>2, <2>3, SameUps, SteeringsStay DEF Untold
  <2>4. CASE conn # 0 /\ Sends(<<"chat", m>>)
    BY <2>1, <2>2, <2>4, SteeringsSends DEF Untold
  <2>5. QED  BY <2>1, <2>3, <2>4
<1>10. ASSUME NEW m \in Known, StreamItem(m) \/ StreamTimesOut(m) \/ JobNeverRuns(m)
       PROVE  Steerings'
  <2>1. /\ Inside /\ Untold /\ UNCHANGED tabs /\ Only(m) /\ Known' = Known
        /\ msgs[m].stage \notin {"held", "over"}
    BY <1>10, StreamsIs, JobNeverRunsIs
  <2>2. UpsFewer /\ DownsFewer
    BY <2>1, SameUps DEF Inside
  <2>3. QED  BY <2>1, <2>2, SteeringsOnly DEF Untold
<1>11. ASSUME NEW m \in Known, JobEnds(m) \/ JobIsStopped(m) PROVE Steerings'
  BY <1>11, SteeringsJobOver
<1>12. ASSUME Connect PROVE Steerings'
  BY <1>12, SteeringsConnect
<1>13. ASSUME ClientNotices PROVE Steerings'
  BY <1>13, SteeringsClientNotices
<1>14. ASSUME Receive PROVE Steerings'
  BY <1>14, SteeringsReceive
<1>15. ASSUME NEW n \in DOMAIN wires, GatewayTakes(n) PROVE Steerings'
  BY <1>15, SteeringsGatewayTakes
<1>16. ASSUME NEW m \in Known, HttpAccepted(m) PROVE Steerings'
  <2>1. /\ UNCHANGED <<tabs, wires, heard, unanswered>> /\ Known' = Known
        /\ (msgs[m].stage \notin {"held", "over"} /\ Only(m)) \/ UNCHANGED msgs
    BY <1>16, HttpAcceptedIs
  <2>2. UpsFewer /\ DownsFewer
    BY <2>1, SameUps
  <2>3. CASE UNCHANGED msgs
    BY <2>1, <2>2, <2>3, TabsNoMoreAcks, SteeringsUnmoved
  <2>4. CASE Only(m) /\ msgs[m].stage \notin {"held", "over"}
    BY <2>1, <2>2, <2>4, SteeringsOnly
  <2>5. QED  BY <2>1, <2>3, <2>4
<1>17. ASSUME NEW m \in Known, ChatStarts(m) \/ ChatEntersLoop(m) PROVE Steerings'
  <2>1. UNCHANGED <<tabs, wires, msgs, heard, unanswered>>
    BY <1>17, ChatGoesIs
  <2>2. QED  BY <2>1, SameUps, TabsNoMoreAcks, SteeringsUnmoved
<1>18. ASSUME NEW m \in Known, ChatProgress(m) \/ ChatAnswers(m) \/ ChatFails(m)
       PROVE  Steerings'
  BY <1>18, SteeringsChatSays
<1>19. ASSUME Break PROVE Steerings'
  BY <1>19, SteeringsBreak
<1>20. ASSUME GatewayRestarts PROVE Steerings'
  BY <1>20, SteeringsRestart
<1>21. CASE UNCHANGED vars
  <2>1. UNCHANGED <<tabs, wires, msgs, heard, unanswered>>
    BY <1>21 DEF vars, handler, history
  <2>2. QED  BY <2>1, SameUps, TabsNoMoreAcks, SteeringsUnmoved
<1>22. QED
  BY <1>1, <1>2, <1>3, <1>4, <1>5, <1>6, <1>7, <1>8, <1>9, <1>10, <1>11, <1>12, <1>13, <1>14,
     <1>15, <1>16, <1>17, <1>18, <1>19, <1>20, <1>21
  DEF Next, UserActs, HandlerSteps, ClientSteps, GatewaySteps, Faults

\* A message that the gateway took as steering never gets a turn of its own,
\* unless its request went unanswered.
THEOREM SteeredOnly == Spec => []SteeredOrQueued
<1>1. Spec => []Base
  BY BaseInit, BaseNext, PTL DEF Spec
<1>2. Spec => []Talks
  BY <1>1, TalksInit, TalksNext, PTL DEF Spec
<1>3. Spec => []Steerings
  BY <1>1, <1>2, SteeringsInit, SteeringsNext, PTL DEF Spec
<1>4. Base /\ Talks /\ Steerings => SteeredOrQueued
  <2> SUFFICES ASSUME Base, Talks, Steerings, NEW m \in heard \ unanswered, m \in Known
               PROVE  msgs[m].stage \in {"held", "over"} /\ chats[m].stage = "none"
    BY DEF SteeredOrQueued
  <2>1. m \in MsgIds
    BY KnownIs, Parts DEF Base
  <2>2. \/ msgs[m].stage = "held"
        \/ msgs[m].stage = "over" /\ msgs[m].end = "steered"
    BY <2>1 DEF Steerings, Steering
  <2>3. Untouched(m)
    BY <2>2 DEF Untouched
  <2>4. QED  BY <2>1, <2>2, <2>3 DEF Talks, Talk
<1>5. QED  BY <1>1, <1>2, <1>3, <1>4, PTL

-----------------------------------------------------------------------------
(* Nobody waits for nothing: what is under way on each connection.         *)

LEMMA Extending ==
  ASSUME NEW S, NEW s \in Seq(S), NEW e \in S
  PROVE  LET x == Append(s, e) IN
         /\ \A i \in DOMAIN s : i \in DOMAIN x /\ x[i] = s[i]
         /\ \E i \in DOMAIN x : x[i] = e
         /\ \A i \in DOMAIN x : i \in DOMAIN s \/ x[i] = e
         /\ \A i, j \in DOMAIN x : i < j => i \in DOMAIN s
<1>1. /\ DOMAIN Append(s, e) = DOMAIN s \cup {Len(s) + 1}
      /\ Append(s, e)[Len(s) + 1] = e /\ \A j \in DOMAIN s : Append(s, e)[j] = s[j]
  BY AppendIs
<1>2. DOMAIN s = 1 .. Len(s) /\ Len(s) \in Nat
  BY SeqIsFunction
<1>3. QED  BY <1>1, <1>2

LEMMA Dropping ==
  ASSUME NEW S, NEW s \in Seq(S), s # <<>>
  PROVE  LET x == Tail(s) IN
         /\ \A i \in DOMAIN x : i + 1 \in DOMAIN s /\ s[i + 1] = x[i] /\ 1 < i + 1
         /\ \A i, j \in DOMAIN x : i < j => i + 1 < j + 1
         /\ \A i \in DOMAIN s : i = 1 \/ (i - 1 \in DOMAIN x /\ x[i - 1] = s[i])
         /\ 1 \in DOMAIN s
<1>1. /\ 1 \in DOMAIN s
      /\ DOMAIN Tail(s) = {i \in DOMAIN s : i + 1 \in DOMAIN s}
      /\ \A i \in DOMAIN Tail(s) : Tail(s)[i] = s[i + 1]
  BY TailIs
<1>2. DOMAIN s = 1 .. Len(s) /\ Len(s) \in Nat
  BY SeqIsFunction
<1>3. QED  BY <1>1, <1>2

UpOn(n, f)   == n \in DOMAIN wires /\ \E i \in DOMAIN wires[n].up : wires[n].up[i] = f
DownOn(n, f) == n \in DOMAIN wires /\ \E i \in DOMAIN wires[n].down : wires[n].down[i] = f

\* Frame g comes after frame f on connection n.
After(n, f, g) ==
  /\ n \in DOMAIN wires
  /\ \E i, j \in DOMAIN wires[n].down : i < j /\ wires[n].down[i] = f /\ wires[n].down[j] = g

UpsKept      == \A n, f : UpOn(n, f) => UpOn(n, f)'
DownsKept    == \A n, f : DownOn(n, f) => DownOn(n, f)'
NothingAdded == \A n, f, g : /\ DownOn(n, f)' => DownOn(n, f)
                             /\ After(n, f, g)' => After(n, f, g)
OpenKept     == \A n \in DOMAIN wires : n \in DOMAIN wires' /\ (wires'[n].open => wires[n].open)

LEMMA WiresKept == ASSUME UNCHANGED wires PROVE UpsKept /\ DownsKept /\ NothingAdded /\ OpenKept
  BY DEF UpsKept, DownsKept, NothingAdded, OpenKept, UpOn, DownOn, After

LEMMA FrameSent ==
  ASSUME WireTypes, NEW c, c = conn, c # 0, NEW what \in ToGateway, NEW m \in MsgIds, Sends(<<what, m>>)
  PROVE  /\ UpsKept /\ DownsKept /\ NothingAdded /\ OpenKept /\ c \in DOMAIN wires
         /\ wires[c].open => UpOn(c, <<what, m>>)'
<1> DEFINE f == <<what, m>>
           u == wires[c].up
<1>1. /\ SameWires /\ c \in DOMAIN wires
      /\ \A n \in DOMAIN wires :
           /\ wires'[n].open = wires[n].open /\ wires'[n].down = wires[n].down
           /\ wires'[n].up = IF n = c /\ wires[n].open THEN Append(wires[n].up, f) ELSE wires[n].up
  BY SendsIs
<1>2. u \in Seq(UpFrames) /\ f \in UpFrames
  BY <1>1, WireFields DEF WireTypes, UpFrames
<1> HIDE DEF f, u
<1>3. /\ \A i \in DOMAIN u : i \in DOMAIN Append(u, f) /\ Append(u, f)[i] = u[i]
      /\ \E i \in DOMAIN Append(u, f) : Append(u, f)[i] = f
  BY <1>2, Extending
<1>4. ASSUME NEW n, NEW g, UpOn(n, g) PROVE UpOn(n, g)'
  <2>1. CASE n = c /\ wires[n].open
    BY ZenonT(60), <1>1, <1>3, <1>4, <2>1 DEF UpOn, SameWires, u
  <2>2. CASE ~(n = c /\ wires[n].open)
    BY <1>1, <1>4, <2>2 DEF UpOn, SameWires, u
  <2>3. QED  BY <2>1, <2>2
<1>5. ASSUME wires[c].open PROVE UpOn(c, f)'
  BY <1>1, <1>3, <1>5 DEF UpOn, SameWires, u
<1>6. DownsKept /\ NothingAdded /\ OpenKept
  BY <1>1 DEF DownsKept, NothingAdded, OpenKept, DownOn, After, SameWires
<1>7. QED  BY <1>1, <1>4, <1>5, <1>6 DEF UpsKept, f

\* Only frame f0 is added, at the end of connection n0.
OneAdded(n0, f0) ==
  /\ \A n, f : DownOn(n, f)' => DownOn(n, f) \/ (n = n0 /\ f = f0)
  /\ \A n, f, g : After(n, f, g)' => After(n, f, g) \/ (n = n0 /\ g = f0 /\ DownOn(n, f))
  /\ n0 \in DOMAIN wires /\ wires[n0].open => DownOn(n0, f0)'

LEMMA FrameSaid ==
  ASSUME WireTypes, SameWires, NEW n0, NEW what \in ToClient, NEW m \in MsgIds, SaysOn(n0, what, m)
  PROVE  DownsKept /\ OneAdded(n0, <<what, m>>)
<1> DEFINE f0 == <<what, m>>
<1>1. f0 \in DownFrames
  BY DEF DownFrames
<1> HIDE DEF f0
<1>2. ASSUME NEW n \in DOMAIN wires
      PROVE  /\ n \in DOMAIN wires'
             /\ \A i \in DOMAIN wires[n].down :
                  i \in DOMAIN wires'[n].down /\ wires'[n].down[i] = wires[n].down[i]
             /\ \A i \in DOMAIN wires'[n].down :
                  i \in DOMAIN wires[n].down \/ (n = n0 /\ wires'[n].down[i] = f0)
             /\ \A i, j \in DOMAIN wires'[n].down : i < j =>
                  i \in DOMAIN wires[n].down
             /\ n = n0 /\ wires[n].open => \E i \in DOMAIN wires'[n].down : wires'[n].down[i] = f0
  <2>1. CASE n = n0 /\ wires[n].open
    <3> DEFINE d == wires[n].down
    <3>1. d \in Seq(DownFrames) /\ wires'[n].down = Append(d, f0)
      BY <2>1, WireFields DEF WireTypes, SaysOn, f0
    <3> HIDE DEF d
    <3>2. LET x == Append(d, f0) IN
          /\ \A i \in DOMAIN d : i \in DOMAIN x /\ x[i] = d[i]
          /\ \E i \in DOMAIN x : x[i] = f0
          /\ \A i \in DOMAIN x : i \in DOMAIN d \/ x[i] = f0
          /\ \A i, j \in DOMAIN x : i < j => i \in DOMAIN d
      BY <1>1, <3>1, Extending
    <3>3. QED  BY <2>1, <3>1, <3>2 DEF d, SameWires
  <2>2. CASE ~(n = n0 /\ wires[n].open)
    BY <2>2 DEF SaysOn, SameWires
  <2>3. QED  BY <2>1, <2>2
<1>3. DownsKept
  BY <1>2 DEF DownsKept, DownOn
<1>4. ASSUME NEW n, NEW f, DownOn(n, f)' PROVE DownOn(n, f) \/ (n = n0 /\ f = f0)
  BY <1>2, <1>4 DEF DownOn, SameWires
<1>5. ASSUME NEW n, NEW f, NEW g, After(n, f, g)'
      PROVE  After(n, f, g) \/ (n = n0 /\ g = f0 /\ DownOn(n, f))
  <2>1. n \in DOMAIN wires
    BY <1>5 DEF After, SameWires
  <2>2. PICK i \in DOMAIN wires'[n].down :
          \E j \in DOMAIN wires'[n].down : i < j /\ wires'[n].down[i] = f /\ wires'[n].down[j] = g
    BY <1>5 DEF After
  <2>3. PICK j \in DOMAIN wires'[n].down : i < j /\ wires'[n].down[i] = f /\ wires'[n].down[j] = g
    BY <2>2
  <2>4. i \in DOMAIN wires[n].down /\ wires[n].down[i] = f
    BY <1>2, <2>1, <2>3
  <2>5. (j \in DOMAIN wires[n].down /\ wires[n].down[j] = g) \/ (n = n0 /\ g = f0)
    BY <1>2, <2>1, <2>3
  <2>6. QED  BY <2>1, <2>3, <2>4, <2>5 DEF After, DownOn
<1>6. ASSUME n0 \in DOMAIN wires, wires[n0].open PROVE DownOn(n0, f0)'
  BY <1>2, <1>6 DEF DownOn
<1>7. QED  BY <1>3, <1>4, <1>5, <1>6 DEF OneAdded, f0

\* The gateway's oldest frame of connection n0 goes.
LEMMA FrameTaken ==
  ASSUME WireTypes, NEW n0 \in DOMAIN wires, SameWires, wires[n0].up # <<>>,
         \A p \in DOMAIN wires : wires'[p].up = IF p = n0 THEN Tail(wires[n0].up) ELSE wires[p].up
  PROVE  \A n, f : UpOn(n, f) => UpOn(n, f)' \/ (n = n0 /\ f = wires[n0].up[1])
<1> SUFFICES ASSUME NEW n, NEW f, UpOn(n, f), f # wires[n0].up[1] \/ n # n0 PROVE UpOn(n, f)'
  OBVIOUS
<1>1. CASE n = n0
  <2> DEFINE u == wires[n0].up
  <2>1. u \in Seq(UpFrames)
    BY WireFields DEF WireTypes
  <2>2. \A i \in DOMAIN u : i = 1 \/ (i - 1 \in DOMAIN Tail(u) /\ Tail(u)[i - 1] = u[i])
    BY <2>1, Dropping
  <2>3. QED  BY <1>1, <2>2 DEF UpOn, SameWires
<1>2. CASE n # n0
  BY <1>2 DEF UpOn, SameWires
<1>3. QED  BY <1>1, <1>2

\* The client's oldest frame goes.
LEMMA FrameReceived ==
  ASSUME WireTypes, NEW c, c = conn, c \in DOMAIN wires, SameWires, wires[c].down # <<>>,
         \A p \in DOMAIN wires :
           wires'[p].down = IF p = c THEN Tail(wires[c].down) ELSE wires[p].down
  PROVE  /\ NothingAdded
         /\ \A n, f : DownOn(n, f) => DownOn(n, f)' \/ (n = c /\ f = wires[c].down[1])
         /\ \A f : DownOn(c, f)' => After(c, wires[c].down[1], f)
<1> DEFINE d == wires[c].down
<1>1. d \in Seq(DownFrames)
  BY WireFields DEF WireTypes
<1>2. /\ \A i \in DOMAIN Tail(d) : i + 1 \in DOMAIN d /\ d[i + 1] = Tail(d)[i] /\ 1 < i + 1
      /\ \A i, j \in DOMAIN Tail(d) : i < j => i + 1 < j + 1
      /\ \A i \in DOMAIN d : i = 1 \/ (i - 1 \in DOMAIN Tail(d) /\ Tail(d)[i - 1] = d[i])
      /\ 1 \in DOMAIN d
  BY <1>1, Dropping
<1>3. wires'[c].down = Tail(d) /\ DOMAIN wires' = DOMAIN wires
  BY DEF SameWires
<1> HIDE DEF d
<1>4. ASSUME NEW n, NEW f, NEW g, After(n, f, g)' PROVE After(n, f, g)
  <2>1. CASE n = c
    <3> DEFINE e == Tail(d)
    <3>5. wires'[n].down = e
      BY <1>3, <2>1
    <3>6. \E i, j \in DOMAIN e : i < j /\ e[i] = f /\ e[j] = g
      <4> HIDE DEF e
      <4>1. QED  BY <1>4, <3>5 DEF After
    <3>1. PICK i \in DOMAIN Tail(d) : \E j \in DOMAIN Tail(d) : i < j /\ Tail(d)[i] = f /\ Tail(d)[j] = g
      BY <3>6
    <3>2. PICK j \in DOMAIN Tail(d) : i < j /\ Tail(d)[i] = f /\ Tail(d)[j] = g
      BY <3>1
    <3>3. /\ i + 1 \in DOMAIN d /\ j + 1 \in DOMAIN d /\ i + 1 < j + 1
          /\ d[i + 1] = f /\ d[j + 1] = g
      BY <1>2, <3>2
    <3>4. QED  BY <2>1, <3>3 DEF After, d
  <2>2. CASE n # c
    BY <1>4, <2>2 DEF After, SameWires
  <2>3. QED  BY <2>1, <2>2
<1>5. ASSUME NEW n, NEW f, DownOn(n, f)' PROVE DownOn(n, f)
  <2>1. CASE n = c
    <3>1. PICK i \in DOMAIN Tail(d) : Tail(d)[i] = f
      BY <1>3, <1>5, <2>1 DEF DownOn
    <3>2. i + 1 \in DOMAIN d /\ d[i + 1] = f
      BY <1>2, <3>1
    <3>3. QED  BY <2>1, <3>2 DEF DownOn, d
  <2>2. CASE n # c
    BY <1>5, <2>2 DEF DownOn, SameWires
  <2>3. QED  BY <2>1, <2>2
<1>6. ASSUME NEW n, NEW f, DownOn(n, f) PROVE DownOn(n, f)' \/ (n = c /\ f = d[1])
  <2>1. CASE n = c
    <3>1. PICK i \in DOMAIN d : d[i] = f
      BY <1>6, <2>1 DEF DownOn, d
    <3>2. i = 1 \/ (i - 1 \in DOMAIN Tail(d) /\ Tail(d)[i - 1] = f)
      BY <1>2, <3>1
    <3>3. QED  BY <1>3, <2>1, <3>1, <3>2 DEF DownOn
  <2>2. CASE n # c
    BY <1>6, <2>2 DEF DownOn, SameWires
  <2>3. QED  BY <2>1, <2>2
<1>7. ASSUME NEW f, DownOn(c, f)' PROVE After(c, d[1], f)
  BY <1>2, <1>3, <1>7 DEF DownOn, After, d
<1>8. QED  BY <1>4, <1>5, <1>6, <1>7 DEF NothingAdded, d

-----------------------------------------------------------------------------
(* The last word about a message is its last.                              *)

Final == {"answer", "cancelled", "failed"}

\* The turn of message m may still speak on its connection.
Carried(m) ==
  \/ Up("chat", m)
  \/ chats[m].stage \in {"created", "running", "loop"} /\ chats[m].wire # 0

Has(m, e)    == m \in Known /\ Contains(msgs[m].items, e)
Concluded(m) == m \in Known /\ msgs[m].items # <<>> /\ Last(msgs[m].items) # "progress"

\* No progress of m follows its last word, which comes when the turn is over.
Order(m) ==
  /\ \A n \in DOMAIN wires : \A e \in Final : ~After(n, <<e, m>>, <<"progress", m>>)
  /\ m \in Known /\ Registered(m) /\ (\E e \in Final : Has(m, e)) =>
       ~DownOn(conn, <<"progress", m>>)
  /\ Carried(m) => \A e \in Final : ~Has(m, e) /\ \A n \in DOMAIN wires : ~DownOn(n, <<e, m>>)
  /\ Untouched(m) => \A e \in Final : \A n \in DOMAIN wires : ~DownOn(n, <<e, m>>)
  /\ chats[m].stage = "none" => chats[m].wire = 0

\* What a registered stream waits for is on its way.
Awaited(m) ==
  m \in Known /\ Registered(m) =>
    /\ conn # 0
    /\ \/ ~wires[conn].open
       \/ UpOn(conn, <<"chat", m>>)
       \/ \E e \in Final : DownOn(conn, <<e, m>>)
       \/ chats[m].wire = conn /\ chats[m].stage \in {"created", "running", "loop"}
       \/ chats[m].end = "unrun"
       \/ Concluded(m)

Replies(what) == IF what = "steer" THEN {"injected", "refused"} ELSE {"heeded"}

\* And so is what a pending request waits for.
Coming(r) ==
  /\ conn # 0
  /\ \/ ~wires[conn].open
     \/ UpOn(conn, r)
     \/ \E a \in Replies(r[1]) : DownOn(conn, <<a, r[2]>>)

Awaits ==
  /\ \A m \in MsgIds : Order(m) /\ Awaited(m)
  /\ \A r \in pending : Coming(r)

-----------------------------------------------------------------------------
(* How the steps keep it.                                                  *)

\* Message m registers no stream, hears no last word and is not begun anew.
Calm(m) ==
  /\ m \in Known' /\ Registered(m)' => m \in Known /\ Registered(m) /\ conn' = conn
  /\ \A e \in Final : Has(m, e)' => Has(m, e)
  /\ Untouched(m)' => Untouched(m)

\* Nothing is said of message m that its stream would read.
Quiet(m) ==
  \A n : \A w, v \in Events :
    /\ DownOn(n, <<w, m>>)' => DownOn(n, <<w, m>>)
    /\ After(n, <<w, m>>, <<v, m>>)' => After(n, <<w, m>>, <<v, m>>)

\* No turn of message m begins.
NotBegun(m) ==
  /\ Carried(m)' => Carried(m)
  /\ chats'[m].stage = "none" => chats[m].stage = "none" /\ chats'[m].wire = chats[m].wire

LEMMA OrderKept ==
  ASSUME NEW m, Order(m), Calm(m), Quiet(m), NotBegun(m)
  PROVE  Order(m)'
<1>1. Final \subseteq Events /\ "progress" \in Events
  BY DEF Final, Events
<1>2. \A n : \A e \in Final : DownOn(n, <<e, m>>)' => n \in DOMAIN wires /\ DownOn(n, <<e, m>>)
  BY <1>1 DEF Quiet, DownOn
<1>3. \A n \in DOMAIN wires' : \A e \in Final : ~After(n, <<e, m>>, <<"progress", m>>)'
  <2> SUFFICES ASSUME NEW n, NEW e \in Final, After(n, <<e, m>>, <<"progress", m>>)' PROVE FALSE
    OBVIOUS
  <2>1. After(n, <<e, m>>, <<"progress", m>>)
    BY <1>1 DEF Quiet
  <2>2. n \in DOMAIN wires
    BY <2>1 DEF After
  <2>3. QED  BY <2>1, <2>2 DEF Order
<1>4. ASSUME m \in Known', Registered(m)', NEW e \in Final, Has(m, e)'
      PROVE  ~DownOn(conn, <<"progress", m>>)'
  <2>1. m \in Known /\ Registered(m) /\ conn' = conn /\ Has(m, e)
    BY <1>4 DEF Calm
  <2>2. ~DownOn(conn, <<"progress", m>>)
    BY <2>1 DEF Order
  <2>3. ASSUME NEW c, c = conn PROVE ~DownOn(c, <<"progress", m>>)'
    BY <1>1, <2>2, <2>3 DEF Quiet
  <2>4. QED  BY <2>1, <2>3 DEF DownOn
<1>5. ASSUME Carried(m)', NEW e \in Final
      PROVE  ~Has(m, e)' /\ \A n \in DOMAIN wires' : ~DownOn(n, <<e, m>>)'
  BY <1>2, <1>5 DEF Order, Calm, NotBegun
<1>6. ASSUME Untouched(m)', NEW e \in Final PROVE \A n \in DOMAIN wires' : ~DownOn(n, <<e, m>>)'
  BY <1>2, <1>6 DEF Order, Calm
<1>7. chats'[m].stage = "none" => chats'[m].wire = 0
  BY DEF Order, NotBegun
<1>8. QED  BY <1>3, <1>4, <1>5, <1>6, <1>7 DEF Order

\* Its turn goes on, or never ran.
TurnKept(m) ==
  /\ chats[m].stage \in {"created", "running", "loop"} =>
       \/ chats'[m].stage \in {"created", "running", "loop"} /\ chats'[m].wire = chats[m].wire
       \/ chats'[m].end = "unrun"
  /\ chats[m].end = "unrun" => chats'[m].end = "unrun"

LEMMA AwaitedKept ==
  ASSUME Base, NEW m, Awaited(m), Calm(m), OpenKept, TurnKept(m),
         NEW c, c = conn, UpOn(c, <<"chat", m>>) => UpOn(c, <<"chat", m>>)',
         \A e \in Final : DownOn(c, <<e, m>>) => DownOn(c, <<e, m>>)',
         m \in Known' /\ Registered(m)' /\ Concluded(m) => Concluded(m)'
  PROVE  Awaited(m)'
<1> SUFFICES ASSUME m \in Known', Registered(m)' PROVE
      /\ conn' # 0
      /\ \/ ~wires'[conn'].open
         \/ UpOn(conn, <<"chat", m>>)'
         \/ \E e \in Final : DownOn(conn, <<e, m>>)'
         \/ chats'[m].wire = conn' /\ chats'[m].stage \in {"created", "running", "loop"}
         \/ chats'[m].end = "unrun"
         \/ Concluded(m)'
  BY DEF Awaited
<1>1. m \in Known /\ Registered(m) /\ conn' = c
  BY DEF Calm
<1>2. c # 0 /\ c \in DOMAIN wires
  BY <1>1, WiresAre, Parts DEF Awaited, Base
<1>3. \/ ~wires[c].open
      \/ UpOn(c, <<"chat", m>>)
      \/ \E e \in Final : DownOn(c, <<e, m>>)
      \/ chats[m].wire = c /\ chats[m].stage \in {"created", "running", "loop"}
      \/ chats[m].end = "unrun"
      \/ Concluded(m)
  BY <1>1 DEF Awaited
<1>4. \/ ~wires'[c].open
      \/ UpOn(c, <<"chat", m>>)'
      \/ \E e \in Final : DownOn(c, <<e, m>>)'
      \/ chats'[m].wire = c /\ chats'[m].stage \in {"created", "running", "loop"}
      \/ chats'[m].end = "unrun"
      \/ Concluded(m)'
  BY <1>2, <1>3 DEF OpenKept, TurnKept
<1>5. QED  BY <1>1, <1>2, <1>4 DEF UpOn, DownOn

LEMMA ComingKept ==
  ASSUME Base, NEW r, Coming(r), OpenKept, NEW c, c = conn, conn' = conn,
         UpOn(c, r) => UpOn(c, r)',
         \A a \in Replies(r[1]) : DownOn(c, <<a, r[2]>>) => DownOn(c, <<a, r[2]>>)'
  PROVE  Coming(r)'
<1>1. c # 0 /\ c \in DOMAIN wires
  BY WiresAre, Parts DEF Coming, Base
<1>2. \/ ~wires[c].open
      \/ UpOn(c, r)
      \/ \E a \in Replies(r[1]) : DownOn(c, <<a, r[2]>>)
  BY DEF Coming
<1>3. \/ ~wires'[c].open
      \/ UpOn(c, r)'
      \/ \E a \in Replies(r[1]) : DownOn(c, <<a, r[2]>>)'
  BY <1>1, <1>2 DEF OpenKept
<1>4. QED  BY <1>1, <1>3 DEF Coming, UpOn, DownOn

\* Message m stays where it is, or where nobody waits for it.
Rests(m) ==
  /\ Calm(m)
  /\ m \in Known' /\ Registered(m)' /\ Concluded(m) => Concluded(m)'

LEMMA RestsSame ==
  ASSUME NEW m, conn' = conn, m \in Known' <=> m \in Known,
         m \in Known => /\ msgs'[m].stage = msgs[m].stage /\ msgs'[m].end = msgs[m].end
                        /\ msgs'[m].items = msgs[m].items
  PROVE  Rests(m)
  BY DEF Rests, Calm, Registered, Has, Untouched, Concluded

LEMMA RestsAside ==
  ASSUME NEW m, m \in Known', msgs'[m].stage # "stream", Untouched(m)' => Untouched(m),
         \A e \in Final : Contains(msgs'[m].items, e) => m \in Known /\ Contains(msgs[m].items, e)
  PROVE  Rests(m)
  BY DEF Rests, Calm, Registered, Has

LEMMA RestsOther ==
  ASSUME NEW m, Only(m), Known' = Known, conn' = conn, NEW q, q # m PROVE Rests(q)
<1>1. q \in Known => msgs'[q] = msgs[q]
  BY DEF Only, ButFor, Known
<1>2. QED  BY <1>1, RestsSame

LEMMA RestsUnmoved == ASSUME UNCHANGED <<msgs, conn>> PROVE \A m : Rests(m)
<1>1. Known' = Known /\ conn' = conn /\ msgs' = msgs
  BY DEF Known
<1>2. QED  BY <1>1, RestsSame

LEMMA NothingIsQuiet == ASSUME NothingAdded, NEW m PROVE Quiet(m)
  BY DEF NothingAdded, Quiet

LEMMA TurnsKept == ASSUME UNCHANGED chats, NEW m PROVE TurnKept(m)
  BY DEF TurnKept

LEMMA NotBegunIs ==
  ASSUME NEW m, chats'[m].stage = chats[m].stage, chats'[m].wire = chats[m].wire,
         Up("chat", m)' => Up("chat", m)
  PROVE  NotBegun(m)
  BY DEF Carried, NotBegun

\* What is on its way stays on its way.
LEMMA AwaitsKept ==
  ASSUME Base, Awaits, conn' = conn, OpenKept, UpsKept, DownsKept,
         \A m \in MsgIds : Order(m)' /\ Rests(m) /\ TurnKept(m),
         \A r \in pending' : r \in pending \/ Coming(r)'
  PROVE  Awaits'
<1> DEFINE c == conn
<1>1. ASSUME NEW m \in MsgIds PROVE Awaited(m)'
  BY <1>1, AwaitedKept DEF Awaits, UpsKept, DownsKept, Rests
<1>2. ASSUME NEW r \in pending PROVE Coming(r)'
  BY <1>2, ComingKept DEF Awaits, UpsKept, DownsKept
<1>3. QED  BY <1>1, <1>2 DEF Awaits

LEMMA AwaitsStay ==
  ASSUME Base, Awaits, UNCHANGED <<conn, wires, chats>>, pending' \subseteq pending,
         \A m \in MsgIds : Rests(m)
  PROVE  Awaits'
<1>1. OpenKept /\ UpsKept /\ DownsKept /\ NothingAdded
  BY WiresKept
<1>2. UpsFewer
  BY SameUps
<1>3. ASSUME NEW m \in MsgIds PROVE Order(m)' /\ TurnKept(m)
  <2>1. TurnKept(m)
    BY TurnsKept
  <2>2. NotBegun(m)
    BY <1>2, FewerUps, NotBegunIs
  <2>3. Quiet(m)
    BY <1>1, NothingIsQuiet
  <2>4. QED  BY <2>1, <2>2, <2>3, OrderKept DEF Awaits, Rests
<1>4. \A r \in pending' : r \in pending
  OBVIOUS
<1>5. conn' = conn
  OBVIOUS
<1>6. QED  BY <1>1, <1>3, <1>4, <1>5, AwaitsKept

\* A request is sent, and waits for its response.
LEMMA AwaitsRequest ==
  ASSUME Base, Awaits, NEW t, NEW what \in {"steer", "cancel"}, NEW m \in MsgIds,
         Requested(t, what, m), UNCHANGED <<conn, chats>>, \A q \in MsgIds : Rests(q)
  PROVE  Awaits'
<1>1. WireTypes /\ conn # 0 /\ Sends(<<what, m>>) /\ pending' = pending \cup {<<what, m>>}
      /\ what \in ToGateway
  BY Parts DEF Base, Requested, ToGateway
<1>2. ASSUME NEW c, c = conn
      PROVE  /\ UpsKept /\ DownsKept /\ NothingAdded /\ OpenKept /\ c \in DOMAIN wires
             /\ wires[c].open => UpOn(c, <<what, m>>)'
  BY <1>1, <1>2, FrameSent
<1>3. \A w, q : Up(w, q)' => Up(w, q) \/ <<w, q>> = <<what, m>>
  BY <1>1, MoreUps
<1>4. ASSUME NEW q \in MsgIds PROVE Order(q)' /\ TurnKept(q)
  <2>1. TurnKept(q)
    BY TurnsKept
  <2>2. NotBegun(q)
    BY <1>3, NotBegunIs
  <2>3. Quiet(q)
    BY <1>2, NothingIsQuiet
  <2>4. QED  BY <2>1, <2>2, <2>3, OrderKept DEF Awaits, Rests
<1>5. Coming(<<what, m>>)'
  <2>1. ASSUME NEW c, c = conn PROVE ~wires'[c].open \/ UpOn(c, <<what, m>>)'
    BY <1>2, <2>1 DEF OpenKept
  <2>2. conn' = conn
    OBVIOUS
  <2>3. QED  BY <1>1, <2>1, <2>2 DEF Coming, UpOn
<1>6. OpenKept /\ UpsKept /\ DownsKept
  BY <1>2
<1>7. conn' = conn
  OBVIOUS
<1>8. QED  BY <1>1, <1>4, <1>5, <1>6, <1>7, AwaitsKept

\* A step that moves one message, where nobody waits for it.
LEMMA AwaitsOnly ==
  ASSUME Base, Awaits, UNCHANGED <<conn, wires, chats>>, pending' \subseteq pending,
         NEW m, Only(m), Known' = Known, Rests(m)
  PROVE  Awaits'
<1>1. conn' = conn
  OBVIOUS
<1>2. \A q : Rests(q)
  BY <1>1, RestsOther
<1>3. QED  BY <1>2, AwaitsStay

LEMMA AwaitsUnmoved ==
  ASSUME Base, Awaits, UNCHANGED <<conn, wires, chats, msgs>>, pending' \subseteq pending
  PROVE  Awaits'
<1>1. \A q : Rests(q)
  BY RestsUnmoved
<1>2. QED  BY <1>1, AwaitsStay

LEMMA AwaitsSend ==
  ASSUME Base, Awaits, NEW t \in Tabs, Send(t), NEW m, m = Len(msgs) + 1 PROVE Awaits'
<1>1. /\ UNCHANGED <<conn, chats>> /\ m \in MsgIds /\ m \notin Known /\ Known' = Known \cup {m}
      /\ \A q \in Known : msgs'[q] = msgs[q]
      /\ msgs'[m].items = <<>> /\ msgs'[m].stage \in {"held", "queued"}
      /\ UNCHANGED <<wires, pending>> \/ Requested(t, "steer", m)
  BY SendIs DEF Untold
<1>2. ASSUME NEW q \in MsgIds PROVE Rests(q)
  <2>1. CASE q = m
    <3>1. Untouched(m) /\ msgs'[m].stage # "stream" /\ m \in Known'
      BY <1>1 DEF Untouched
    <3>2. QED  BY <1>1, <2>1, <3>1, NothingIn, RestsAside
  <2>2. CASE q # m
    BY <1>1, <2>2, RestsSame
  <2>3. QED  BY <2>1, <2>2
<1>3. CASE UNCHANGED <<wires, pending>>
  BY <1>1, <1>2, <1>3, AwaitsStay
<1>4. CASE Requested(t, "steer", m)
  BY <1>1, <1>2, <1>4, AwaitsRequest
<1>5. QED  BY <1>1, <1>3, <1>4

LEMMA AwaitsAckDone ==
  ASSUME Base, Awaits, NEW t \in Tabs, AckDone(t), NEW m, m = tabs[t].msg PROVE Awaits'
<1>1. /\ Inside /\ m \in Known /\ msgs[m].stage = "held" /\ Only(m) /\ Known' = Known
      /\ msgs'[m].stage = "created" /\ msgs'[m].items = msgs[m].items
  BY AckDoneIs
<1>2. Untouched(m) /\ m \in Known' /\ msgs'[m].stage # "stream"
  BY <1>1 DEF Untouched
<1>3. Rests(m)
  BY <1>1, <1>2, RestsAside
<1>4. QED  BY <1>1, <1>3, AwaitsOnly DEF Inside

\* A held message is queued, or thrown away.
LEMMA RestsQueues ==
  ASSUME Base, NEW t \in Tabs, tabs[t].at \in {"steer", "orphan"},
         NEW m, m = tabs[t].msg, PutInQueue(t, m)
  PROVE  Only(m) /\ Known' = Known /\ Rests(m)
<1>1. /\ m \in Known /\ msgs[m].stage = "held" /\ Only(m)
      /\ msgs'[m].stage \in {"over", "queued"}
      /\ \A what : Contains(msgs'[m].items, what) => Contains(msgs[m].items, what)
  BY Queues
<1>2. Known' = Known
  BY <1>1 DEF Only, ButFor, Known
<1>3. Untouched(m) /\ msgs'[m].stage # "stream"
  BY <1>1 DEF Untouched
<1>4. QED  BY <1>1, <1>2, <1>3, RestsAside

LEMMA AwaitsUnanswered ==
  ASSUME Base, Awaits, NEW t \in Tabs, SteerUnanswered(t), NEW m, m = tabs[t].msg PROVE Awaits'
<1>1. /\ UNCHANGED <<conn, wires, chats>> /\ pending' = pending \ {<<"steer", m>>}
      /\ tabs[t].at \in {"steer", "orphan"} /\ PutInQueue(t, m)
  BY SteerUnansweredIs
<1>2. Only(m) /\ Known' = Known /\ Rests(m)
  BY <1>1, RestsQueues
<1>3. pending' \subseteq pending
  BY <1>1
<1>4. QED  BY <1>1, <1>2, <1>3, AwaitsOnly

LEMMA AwaitsStop == ASSUME Base, Awaits, NEW t \in Tabs, Stop(t) PROVE Awaits'
<1> DEFINE Thrown == {q \in Known : Contains(queue[tabs[t].key], q)}
<1>1. /\ Inside /\ Known' = Known
      /\ \A q \in Thrown : /\ msgs[q].stage = "queued" /\ msgs'[q].stage = "over"
                            /\ msgs'[q].items = <<>>
      /\ \A q \in Known \ Thrown :
           /\ msgs'[q].stage = msgs[q].stage /\ msgs'[q].end = msgs[q].end
           /\ msgs'[q].items = msgs[q].items
  BY StopIs
<1>2. Thrown \subseteq Known
  OBVIOUS
<1> HIDE DEF Thrown
<1>3. ASSUME NEW q \in MsgIds PROVE Rests(q)
  <2>1. CASE q \in Thrown
    <3>1. Untouched(q) /\ msgs'[q].stage # "stream" /\ q \in Known'
      BY <1>1, <1>2, <2>1 DEF Untouched
    <3>2. QED  BY <1>1, <2>1, <3>1, NothingIn, RestsAside
  <2>2. CASE q \notin Thrown
    BY <1>1, <2>2, RestsSame DEF Inside
  <2>3. QED  BY <2>1, <2>2
<1>4. QED  BY <1>1, <1>3, AwaitsStay DEF Inside

LEMMA AwaitsJobOver ==
  ASSUME Base, Talks, Awaits, NEW m \in Known, JobEnds(m) \/ JobIsStopped(m),
         NEW h, h = Head(queue[msgs[m].key])
  PROVE  Awaits'
<1>1. /\ Inside /\ Known' = Known /\ msgs[m].stage \in {"stream", "http", "emit"}
      /\ msgs'[m].stage = "over" /\ msgs'[m].items = <<>>
      /\ \/ msgs[m].stage = "emit" /\ msgs'[m].end = msgs[m].end
         \/ msgs'[m].end = "stopped"
      /\ \/ /\ h \in Known /\ h # m /\ msgs[h].stage = "queued" /\ msgs'[h].stage = "created"
            /\ msgs'[h].items = msgs[h].items
            /\ \A q \in Known : q # m /\ q # h => msgs'[q] = msgs[q]
         \/ \A q \in Known : q # m => msgs'[q] = msgs[q]
  BY JobOverIs
<1>2. Rests(m)
  <2>1. m \in MsgIds
    BY KnownIs, Parts DEF Base
  <2>2. msgs'[m].stage # "stream" /\ m \in Known'
    BY <1>1
  <2>3. Untouched(m)' => Untouched(m)
    BY <1>1, <2>1 DEF Untouched, Talks, Talk
  <2>4. QED  BY <1>1, <2>2, <2>3, NothingIn, RestsAside
<1>3. ASSUME NEW q \in MsgIds, q # m PROVE Rests(q)
  <2>1. CASE q \in Known => msgs'[q] = msgs[q]
    BY <1>1, <2>1, RestsSame DEF Inside
  <2>2. CASE ~(q \in Known => msgs'[q] = msgs[q])
    <3>1. q = h /\ q \in Known /\ msgs[q].stage = "queued" /\ msgs'[q].stage = "created" /\ msgs'[q].items = msgs[q].items
      BY <1>1, <1>3, <2>2
    <3>2. Untouched(q) /\ msgs'[q].stage # "stream" /\ q \in Known'
      BY <1>1, <3>1 DEF Untouched
    <3>3. QED  BY <3>1, <3>2, RestsAside
  <2>3. QED  BY <2>1, <2>2
<1>4. QED  BY <1>1, <1>2, <1>3, AwaitsStay DEF Inside

LEMMA AwaitsJobNeverRuns == ASSUME Base, Awaits, NEW m \in Known, JobNeverRuns(m) PROVE Awaits'
<1>1. /\ Inside /\ msgs[m].stage = "created" /\ Only(m) /\ Known' = Known /\ msgs'[m].items = <<>>
      /\ msgs'[m].stage = "over"
  BY JobNeverRunsIs
<1>2. Untouched(m) /\ m \in Known' /\ msgs'[m].stage # "stream"
  BY <1>1 DEF Untouched
<1>3. Rests(m)
  BY <1>1, <1>2, NothingIn, RestsAside
<1>4. QED  BY <1>1, <1>3, AwaitsOnly DEF Inside

\* A stream takes its next item, or gives up.
LEMMA AwaitsStreams ==
  ASSUME Base, Awaits, NEW m \in Known, StreamItem(m) \/ StreamTimesOut(m) PROVE Awaits'
<1> DEFINE s == msgs[m].items
<1>1. /\ Inside /\ msgs[m].stage \in {"stream", "http"} /\ s \in Seq(Events)
      /\ Only(m) /\ Known' = Known
      /\ \/ /\ msgs'[m].stage = msgs[m].stage /\ msgs'[m].end = msgs[m].end
            /\ s # <<>> /\ Head(s) = "progress" /\ msgs'[m].items = Tail(s)
         \/ msgs'[m].stage = "emit" /\ msgs'[m].items = <<>>
  BY StreamsIs
<1> HIDE DEF s
<1>2. CASE msgs'[m].stage = "emit" /\ msgs'[m].items = <<>>
  <2>1. ~Untouched(m)' /\ m \in Known' /\ msgs'[m].stage # "stream"
    BY <1>1, <1>2 DEF Untouched
  <2>2. Rests(m)
    BY <1>2, <2>1, NothingIn, RestsAside
  <2>3. QED  BY <1>1, <2>2, AwaitsOnly DEF Inside
<1>3. CASE /\ msgs'[m].stage = msgs[m].stage /\ msgs'[m].end = msgs[m].end
           /\ s # <<>> /\ Head(s) = "progress" /\ msgs'[m].items = Tail(s)
  <2>1. /\ Head(s) = s[1] /\ Tail(s) \in Seq(Events) /\ Len(Tail(s)) = Len(s) - 1
        /\ DOMAIN Tail(s) = {i \in DOMAIN s : i + 1 \in DOMAIN s}
        /\ \A i \in DOMAIN Tail(s) : Tail(s)[i] = s[i + 1]
        /\ Len(s) \in Nat /\ DOMAIN s = 1 .. Len(s)
    BY <1>1, <1>3, TailIs, SeqIsFunction
  <2>2. \A e : Contains(Tail(s), e) => Contains(s, e)
    <3> SUFFICES ASSUME NEW e, Contains(Tail(s), e) PROVE Contains(s, e)
      OBVIOUS
    <3>1. PICK i \in DOMAIN Tail(s) : Tail(s)[i] = e
      BY ZenonT(60), <2>1, ContainsIs
    <3>2. i + 1 \in DOMAIN s /\ s[i + 1] = e
      BY <2>1, <3>1
    <3>3. QED  BY <1>1, <3>2, ContainsIs
  <2>3. ASSUME NEW e, e # "progress", Contains(s, e) PROVE Contains(Tail(s), e)
    <3>1. PICK i \in DOMAIN s : s[i] = e
      BY <1>1, <2>3, ContainsIs
    <3>2. i # 1 /\ i - 1 \in DOMAIN Tail(s) /\ Tail(s)[i - 1] = e
      BY <1>3, <2>1, <2>3, <3>1
    <3>3. QED  BY <2>1, <3>2, ContainsIs
  <2>4. ASSUME Last(s) # "progress" PROVE Tail(s) # <<>> /\ Last(Tail(s)) # "progress"
    <3>1. Len(s) # 1
      BY <1>3, <2>1, <2>4 DEF Last
    <3>2. Len(s) > 1
      BY <1>1, <1>3, <2>1, <3>1, EmptySeq
    <3>3. Len(Tail(s)) \in DOMAIN Tail(s) /\ Tail(s)[Len(Tail(s))] = s[Len(s)]
      BY <2>1, <3>2
    <3>4. Tail(s) # <<>>
      BY <3>3, EmptyIs
    <3>5. QED  BY <2>4, <3>3, <3>4 DEF Last
  <2>5. Calm(m)
    <3>1. Untouched(m)' => Untouched(m)
      BY <1>1, <1>3 DEF Untouched
    <3>2. m \in Known' /\ Registered(m)' => Registered(m)
      BY <1>1, <1>3, <2>3 DEF Registered, s
    <3>3. \A e : Has(m, e)' => Has(m, e)
      BY <1>1, <1>3, <2>2 DEF Has, s
    <3>4. QED  BY <1>1, <3>1, <3>2, <3>3 DEF Calm, Inside
  <2>6. Concluded(m) => Concluded(m)'
    BY <1>1, <1>3, <2>4 DEF Concluded, s
  <2>7. QED  BY <1>1, <2>5, <2>6, AwaitsOnly DEF Rests, Inside
<1>4. QED  BY <1>1, <1>2, <1>3

\* The job of message m sends its chat and waits, or cannot send it.
LEMMA AwaitsJobStarts ==
  ASSUME Base, Talks, Awaits, NEW m \in Known, JobStarts(m) PROVE Awaits'
<1>1. /\ WireTypes /\ UNCHANGED <<conn, pending, chats>> /\ m \in MsgIds /\ msgs[m].stage = "created"
      /\ Only(m) /\ Known' = Known /\ msgs'[m].items = <<>>
      /\ \/ conn # 0 /\ Sends(<<"chat", m>>) /\ msgs'[m].stage = "stream"
         \/ msgs'[m].stage \in {"emit", "http"} /\ UNCHANGED wires
  BY JobStartsIs, Parts DEF Base, Untold
<1>2. Untouched(m) /\ m \in Known'
  BY <1>1 DEF Untouched
<1>3. CASE msgs'[m].stage \in {"emit", "http"} /\ UNCHANGED wires
  <2>1. Rests(m)
    BY <1>1, <1>2, <1>3, NothingIn, RestsAside
  <2>2. pending' \subseteq pending
    BY <1>1
  <2>3. QED  BY <1>1, <1>3, <2>1, <2>2, AwaitsOnly
<1>4. CASE conn # 0 /\ Sends(<<"chat", m>>) /\ msgs'[m].stage = "stream"
  <2>1. "chat" \in ToGateway /\ conn' = conn
    BY <1>1 DEF ToGateway
  <2>2. ASSUME NEW c, c = conn
        PROVE  /\ UpsKept /\ DownsKept /\ NothingAdded /\ OpenKept /\ c \in DOMAIN wires
               /\ wires[c].open => UpOn(c, <<"chat", m>>)'
    BY <1>1, <1>4, <2>1, <2>2, FrameSent
  <2>3. \A w, q : Up(w, q)' => Up(w, q) \/ <<w, q>> = <<"chat", m>>
    BY <1>1, <1>4, <2>1, MoreUps
  <2>4. OpenKept /\ UpsKept /\ DownsKept /\ NothingAdded
    BY <2>2
  <2>5. \A r \in pending' : Coming(r)'
    <3>1. ASSUME NEW r \in pending PROVE Coming(r)'
      BY <2>1, <2>4, <3>1, ComingKept DEF Awaits, UpsKept, DownsKept
    <3>2. QED  BY <1>1, <3>1
  <2>6. ASSUME NEW q \in MsgIds, q # m PROVE Order(q)' /\ Awaited(q)'
    <3>1. Rests(q)
      BY <1>1, <2>1, <2>6, RestsOther
    <3>2. NotBegun(q)
      BY <1>1, <2>3, <2>6, NotBegunIs
    <3>3. Order(q)'
      BY <2>4, <3>1, <3>2, NothingIsQuiet, OrderKept DEF Awaits, Rests
    <3>4. Awaited(q)'
      BY <1>1, <2>4, <3>1, TurnsKept, AwaitedKept DEF Awaits, UpsKept, DownsKept, Rests
    <3>5. QED  BY <3>3, <3>4
  <2>7. Order(m)'
    <3>1. \A e : ~Has(m, e)'
      BY <1>1, NothingIn DEF Has
    <3>2. \A n : \A e \in Final : ~DownOn(n, <<e, m>>)'
      <4> SUFFICES ASSUME NEW n, NEW e \in Final, DownOn(n, <<e, m>>)' PROVE FALSE
        OBVIOUS
      <4>1. DownOn(n, <<e, m>>)
        BY <2>4 DEF NothingAdded
      <4>2. n \in DOMAIN wires
        BY <4>1 DEF DownOn
      <4>3. QED  BY <1>1, <1>2, <4>1, <4>2 DEF Awaits, Order
    <3>3. \A n \in DOMAIN wires' : \A e \in Final : ~After(n, <<e, m>>, <<"progress", m>>)'
      BY <3>2 DEF After, DownOn
    <3>4. chats'[m].stage = "none" => chats'[m].wire = 0
      BY <1>1 DEF Awaits, Order
    <3>5. QED  BY <3>1, <3>2, <3>3, <3>4 DEF Order
  <2>8. Awaited(m)'
    <3>1. ASSUME NEW c, c = conn PROVE ~wires'[c].open \/ UpOn(c, <<"chat", m>>)'
      BY <2>2, <3>1 DEF OpenKept
    <3>2. QED  BY <1>4, <2>1, <3>1 DEF Awaited, UpOn
  <2>9. QED  BY <2>5, <2>6, <2>7, <2>8 DEF Awaits
<1>5. QED  BY <1>1, <1>3, <1>4

\* Whoever waits on a connection that is gone will notice.
LEMMA NobodyOnClosed ==
  ASSUME conn' # 0, ~wires'[conn'].open
  PROVE  (\A m : Awaited(m)') /\ \A r : Coming(r)'
  BY DEF Awaited, Coming

LEMMA NobodyUnconnected ==
  ASSUME Awaits, conn = 0
  PROVE  pending = {} /\ \A m \in MsgIds : ~(m \in Known /\ Registered(m))
  BY DEF Awaits, Awaited, Coming

LEMMA DownsUnmoved == ASSUME SameWires, DownsStay PROVE DownsKept /\ NothingAdded
<1>1. DOMAIN wires' = DOMAIN wires
  BY DEF SameWires
<1>2. DownsKept
  BY <1>1 DEF DownsStay, DownsKept, DownOn
<1>3. NothingAdded
  BY <1>1 DEF DownsStay, NothingAdded, DownOn, After
<1>4. QED  BY <1>2, <1>3

LEMMA AwaitsConnect == ASSUME Base, Awaits, Connect PROVE Awaits'
<1> DEFINE n == Len(wires) + 1
<1>1. /\ UNCHANGED <<chats, msgs, pending>> /\ DOMAIN wires' = DOMAIN wires \cup {n} /\ conn = 0
      /\ wires'[n] = NewWire /\ \A p \in DOMAIN wires : wires'[p] = wires[p]
  BY ConnectIs DEF Untold
<1> HIDE DEF n
<1>2. DOMAIN wires'[n].up = {} /\ DOMAIN wires'[n].down = {}
  BY <1>1, EmptyIs DEF NewWire
<1>3. UpsFewer
  BY <1>1, <1>2 DEF UpsFewer
<1>4. NothingAdded
  BY <1>1, <1>2 DEF NothingAdded, DownOn, After
<1>5. Known' = Known /\ pending' = {} /\ \A m \in MsgIds : ~(m \in Known' /\ Registered(m)')
  BY <1>1, NobodyUnconnected DEF Known, Registered
<1>6. ASSUME NEW m \in MsgIds PROVE Order(m)'
  <2>1. Calm(m)
    BY <1>1, <1>5 DEF Calm, Has, Untouched
  <2>2. NotBegun(m)
    BY <1>1, <1>3, FewerUps, NotBegunIs
  <2>3. QED  BY <1>4, <2>1, <2>2, NothingIsQuiet, OrderKept DEF Awaits
<1>7. ASSUME NEW m \in MsgIds PROVE Awaited(m)'
  BY <1>5, <1>7 DEF Awaited
<1>8. QED  BY <1>5, <1>6, <1>7 DEF Awaits

LEMMA AwaitsClientNotices == ASSUME Base, Awaits, ClientNotices PROVE Awaits'
<1>1. /\ Untold /\ SameWires /\ Known' = Known /\ MsgTypes /\ pending' = {}
      /\ \A n \in DOMAIN wires :
           /\ wires'[n].up = wires[n].up
           /\ wires'[n].down = IF n = conn THEN <<>> ELSE wires[n].down
      /\ \A q \in Known :
           /\ msgs'[q].stage = msgs[q].stage /\ msgs'[q].end = msgs[q].end
           /\ IF Registered(q) THEN msgs'[q].items = Put(msgs[q].items, "lost")
              ELSE msgs'[q].items = msgs[q].items
  BY ClientNoticesIs, Parts DEF Base
<1>2. UpsFewer
  BY <1>1 DEF UpsFewer, SameWires
<1>3. NothingAdded
  BY <1>1, EmptyIs DEF NothingAdded, DownOn, After, SameWires
<1>4. ASSUME NEW q \in Known
      PROVE  ~Registered(q)' /\ \A e \in Final : Has(q, e)' => Has(q, e)
  <2>1. CASE Registered(q)
    <3> DEFINE s == Put(msgs[q].items, "lost")
    <3>1. msgs[q].items \in Seq(Events) /\ "lost" \in Events
      BY <1>1, <1>4, FieldsOf DEF MsgTypes, Events, Known
    <3>2. /\ s \in Seq(Events) /\ s # <<>> /\ Last(s) = "lost"
          /\ \A e : Contains(s, e) => Contains(msgs[q].items, e) \/ e = "lost"
      BY <3>1, PutIs
    <3>3. msgs'[q].items = s
      BY <1>1, <2>1
    <3> HIDE DEF s
    <3>4. Len(s) \in DOMAIN s /\ s[Len(s)] = "lost"
      BY <3>2, SeqIsFunction, EmptySeq DEF Last
    <3>5. Contains(s, "lost")
      BY <3>2, <3>4, ContainsIs
    <3>6. "lost" \notin Final
      BY DEF Final
    <3>7. QED  BY <1>1, <3>2, <3>3, <3>5, <3>6 DEF Registered, Has
  <2>2. CASE ~Registered(q)
    BY <1>1, <2>2 DEF Registered, Has
  <2>3. QED  BY <2>1, <2>2
<1>5. ASSUME NEW m \in MsgIds PROVE Order(m)'
  <2>1. Calm(m)
    <3>1. \A e \in Final : Has(m, e)' => Has(m, e)
      BY <1>1, <1>4 DEF Has
    <3>2. Untouched(m)' => Untouched(m)
      BY <1>1 DEF Untouched
    <3>3. QED  BY <1>1, <1>4, <3>1, <3>2 DEF Calm
  <2>2. NotBegun(m)
    BY <1>1, <1>2, FewerUps, NotBegunIs DEF Untold
  <2>3. QED  BY <1>3, <2>1, <2>2, NothingIsQuiet, OrderKept DEF Awaits
<1>6. ASSUME NEW m \in MsgIds PROVE Awaited(m)'
  BY <1>1, <1>4 DEF Awaited
<1>7. QED  BY <1>1, <1>5, <1>6 DEF Awaits

LEMMA AwaitsBreak == ASSUME Base, Awaits, Break PROVE Awaits'
<1>1. /\ Untold /\ UNCHANGED <<msgs, conn, pending>> /\ SameWires /\ DownsStay /\ WireTypes
  BY BreakIs, Parts DEF Base
<1>2. PICK n \in DOMAIN wires : \E i \in 0 .. Len(wires[n].up) :
        /\ ~wires'[n].open /\ wires'[n].up = SubSeq(wires[n].up, 1, i)
        /\ \A p \in DOMAIN wires : p # n =>
             wires'[p].open = wires[p].open /\ wires'[p].up = wires[p].up
  BY BreakIs
<1>3. PICK i \in 0 .. Len(wires[n].up) :
        /\ ~wires'[n].open /\ wires'[n].up = SubSeq(wires[n].up, 1, i)
        /\ \A p \in DOMAIN wires : p # n =>
             wires'[p].open = wires[p].open /\ wires'[p].up = wires[p].up
  BY <1>2
<1>4. /\ DOMAIN wires'[n].up = 1 .. i
      /\ \A j \in 1 .. i : j \in DOMAIN wires[n].up /\ wires'[n].up[j] = wires[n].up[j]
  BY <1>1, <1>3, WireFields, PrefixIs DEF WireTypes
<1>5. UpsFewer
  BY <1>1, <1>3, <1>4 DEF UpsFewer, SameWires
<1>6. DownsKept /\ NothingAdded
  BY <1>1, DownsUnmoved
<1>7. OpenKept
  BY <1>1, <1>3 DEF OpenKept, SameWires
<1>8. ASSUME NEW m \in MsgIds PROVE Order(m)' /\ Rests(m) /\ TurnKept(m)
  <2>1. Rests(m) /\ TurnKept(m)
    BY <1>1, RestsUnmoved, TurnsKept DEF Untold
  <2>2. NotBegun(m)
    BY <1>1, <1>5, FewerUps, NotBegunIs DEF Untold
  <2>3. QED  BY <1>6, <2>1, <2>2, NothingIsQuiet, OrderKept DEF Awaits, Rests
<1>9. CASE conn = n
  <2>1. n # 0
    BY <1>1, <1>3, WiresAre
  <2>2. conn' # 0 /\ ~wires'[conn'].open
    BY <1>1, <1>3, <1>9, <2>1
  <2>3. QED  BY <1>8, <2>2, NobodyOnClosed DEF Awaits
<1>10. CASE conn # n
  <2>1. ASSUME NEW c, c = conn, NEW f, UpOn(c, f) PROVE UpOn(c, f)'
    BY <1>1, <1>3, <1>10, <2>1 DEF UpOn, SameWires
  <2>2. ASSUME NEW m \in MsgIds PROVE Awaited(m)'
    BY <1>6, <1>7, <1>8, <2>1, <2>2, AwaitedKept DEF Awaits, DownsKept, Rests
  <2>3. ASSUME NEW r \in pending PROVE Coming(r)'
    BY <1>1, <1>6, <1>7, <2>1, <2>3, ComingKept DEF Awaits, DownsKept
  <2>4. QED  BY <1>1, <1>8, <2>2, <2>3 DEF Awaits
<1>11. QED  BY <1>9, <1>10

LEMMA AwaitsRestart == ASSUME Base, Awaits, GatewayRestarts PROVE Awaits'
<1>1. /\ UNCHANGED <<conn, pending>> /\ SameWires /\ DownsStay /\ Known' = Known /\ WireTypes
      /\ \A p \in DOMAIN wires : ~wires'[p].open /\ wires'[p].up = <<>>
      /\ \A q \in Known :
           /\ msgs'[q].stage = msgs[q].stage /\ msgs'[q].end = msgs[q].end
           /\ \A e : Contains(msgs'[q].items, e) => Contains(msgs[q].items, e) \/ e = "lost"
           /\ msgs[q].stage # "http" => msgs'[q].items = msgs[q].items
  BY RestartIs, Parts DEF Base
<1>2. \A m \in MsgIds :
        IF chats[m].stage \in {"created", "running", "loop"}
        THEN chats'[m].stage = "over" ELSE chats'[m] = chats[m]
  BY RestartIs
<1>3. NothingAdded
  BY <1>1, DownsUnmoved
<1>4. \A q \in Known : Registered(q)' => Registered(q)
  BY <1>1 DEF Registered
<1>5. ASSUME NEW m \in MsgIds PROVE Order(m)'
  <2>1. Calm(m)
    <3>1. \A e \in Final : Has(m, e)' => Has(m, e)
      BY <1>1 DEF Has, Final
    <3>2. Untouched(m)' => Untouched(m)
      BY <1>1 DEF Untouched
    <3>3. QED  BY <1>1, <1>4, <3>1, <3>2 DEF Calm
  <2>2. NotBegun(m)
    <3>1. ~Up("chat", m)'
      BY <1>1, EmptyIs DEF Up, UpAt, SameWires
    <3>2. ~Carried(m)'
      BY <1>2, <3>1 DEF Carried
    <3>3. QED  BY <1>2, <3>2 DEF NotBegun
  <2>3. QED  BY <1>3, <2>1, <2>2, NothingIsQuiet, OrderKept DEF Awaits
<1>6. CASE conn = 0
  <2>1. pending' = {} /\ \A m \in MsgIds : ~(m \in Known' /\ Registered(m)')
    BY <1>1, <1>4, <1>6, NobodyUnconnected
  <2>2. \A m \in MsgIds : Awaited(m)'
    BY <2>1 DEF Awaited
  <2>3. QED  BY <1>5, <2>1, <2>2 DEF Awaits
<1>7. CASE conn # 0
  <2>1. conn \in DOMAIN wires
    BY <1>1, <1>7, WiresAre
  <2>2. conn' # 0 /\ ~wires'[conn'].open
    BY <1>1, <1>7, <2>1
  <2>3. QED  BY <1>5, <2>2, NobodyOnClosed DEF Awaits
<1>8. QED  BY <1>6, <1>7

\* What is said of one message is not heard of another.
LEMMA QuietSaid ==
  ASSUME NEW n, NEW what, NEW m, OneAdded(n, <<what, m>>), NEW q, q # m \/ what \notin Events
  PROVE  Quiet(q)
  BY DEF OneAdded, Quiet

\* A turn that is carried may still report.
LEMMA OrderProgress ==
  ASSUME NEW m, Order(m), Calm(m), Carried(m), NotBegun(m),
         NEW n, OneAdded(n, <<"progress", m>>)
  PROVE  Order(m)'
<1>1. \A p : \A e \in Final : ~DownOn(p, <<e, m>>)
  BY DEF Order, DownOn
<1>2. \A p : \A e \in Final : ~DownOn(p, <<e, m>>)'
  <2> SUFFICES ASSUME NEW p, NEW e \in Final, DownOn(p, <<e, m>>)' PROVE FALSE
    OBVIOUS
  <2>1. <<e, m>> # <<"progress", m>>
    BY DEF Final
  <2>2. QED  BY <1>1, <2>1 DEF OneAdded
<1>3. \A p : \A e \in Final : ~After(p, <<e, m>>, <<"progress", m>>)'
  BY <1>2 DEF After, DownOn
<1>4. \A e \in Final : ~Has(m, e)'
  BY DEF Order, Calm
<1>5. chats'[m].stage = "none" => chats'[m].wire = 0
  BY DEF Order, NotBegun
<1>6. QED  BY <1>2, <1>3, <1>4, <1>5 DEF Order

\* A turn that is over has had its last word.
LEMMA OrderSaid ==
  ASSUME NEW m, Order(m), Calm(m), NEW n, NEW e \in Final, OneAdded(n, <<e, m>>),
         ~Carried(m)', ~Untouched(m)', chats'[m].stage = "none" => chats'[m].wire = 0
  PROVE  Order(m)'
<1>1. <<"progress", m>> # <<e, m>>
  BY DEF Final
<1>2. ASSUME NEW p, NEW f, After(p, f, <<"progress", m>>)' PROVE After(p, f, <<"progress", m>>)
  BY <1>1, <1>2 DEF OneAdded
<1>3. \A p \in DOMAIN wires' : \A f \in Final : ~After(p, <<f, m>>, <<"progress", m>>)'
  <2> SUFFICES ASSUME NEW p, NEW f \in Final, After(p, <<f, m>>, <<"progress", m>>)' PROVE FALSE
    OBVIOUS
  <2>1. After(p, <<f, m>>, <<"progress", m>>) /\ p \in DOMAIN wires
    BY <1>2 DEF After
  <2>2. QED  BY <2>1 DEF Order
<1>4. ASSUME m \in Known', Registered(m)', NEW f \in Final, Has(m, f)'
      PROVE  ~DownOn(conn, <<"progress", m>>)'
  <2>1. m \in Known /\ Registered(m) /\ conn' = conn /\ Has(m, f)
    BY <1>4 DEF Calm
  <2>2. ~DownOn(conn, <<"progress", m>>)
    BY <2>1 DEF Order
  <2>3. ASSUME NEW c, c = conn PROVE ~DownOn(c, <<"progress", m>>)'
    BY <1>1, <2>2, <2>3 DEF OneAdded
  <2>4. QED  BY <2>1, <2>3 DEF DownOn
<1>5. QED  BY <1>3, <1>4 DEF Order

\* Message m's stream is told the last word about it, if the connection is open.
LEMMA AwaitedSaid ==
  ASSUME Base, NEW m, Awaited(m), Rests(m), OpenKept, DownsKept,
         NEW n, NEW e \in Final, OneAdded(n, <<e, m>>), NEW c, c = conn, conn' = conn,
         chats[m].end # "unrun",
         UpOn(c, <<"chat", m>>) => UpOn(c, <<"chat", m>>)' \/ n = c,
         chats[m].wire = c /\ c # 0 /\ chats[m].stage \in {"created", "running", "loop"} => n = c
  PROVE  Awaited(m)'
<1> SUFFICES ASSUME m \in Known', Registered(m)' PROVE
      /\ conn' # 0
      /\ \/ ~wires'[conn'].open
         \/ UpOn(conn, <<"chat", m>>)'
         \/ \E f \in Final : DownOn(conn, <<f, m>>)'
         \/ Concluded(m)'
  BY DEF Awaited
<1>1. m \in Known /\ Registered(m)
  BY DEF Rests, Calm
<1>2. c # 0 /\ c \in DOMAIN wires
  BY <1>1, WiresAre, Parts DEF Awaited, Base
<1>3. \/ ~wires[c].open
      \/ UpOn(c, <<"chat", m>>)
      \/ \E f \in Final : DownOn(c, <<f, m>>)
      \/ chats[m].wire = c /\ chats[m].stage \in {"created", "running", "loop"}
      \/ Concluded(m)
  BY <1>1 DEF Awaited
<1>4. n = c /\ wires[c].open => DownOn(c, <<e, m>>)'
  BY <1>2 DEF OneAdded
<1>5. \/ ~wires'[c].open
      \/ UpOn(c, <<"chat", m>>)'
      \/ \E f \in Final : DownOn(c, <<f, m>>)'
      \/ Concluded(m)'
  BY <1>2, <1>3, <1>4 DEF OpenKept, DownsKept, Rests
<1>6. QED  BY <1>2, <1>5 DEF UpOn, DownOn

LEMMA AwaitsHttpAccepted == ASSUME Base, Talks, Awaits, NEW m \in Known, HttpAccepted(m) PROVE Awaits'
<1>1. /\ UNCHANGED <<conn, pending, wires>> /\ msgs[m].stage = "http" /\ chats[m].stage = "none"
      /\ Known' = Known /\ m \in MsgIds
      /\ \/ /\ ChatButFor(chats', m) /\ chats'[m].stage = "running"
            /\ chats'[m].end = chats[m].end /\ chats'[m].wire = chats[m].wire
            /\ UNCHANGED msgs
         \/ /\ Only(m) /\ msgs'[m].stage = "http" /\ msgs'[m].items = <<"lost">> /\ UNCHANGED chats
  BY HttpAcceptedIs
<1>2. CASE /\ ChatButFor(chats', m) /\ chats'[m].stage = "running"
           /\ chats'[m].end = chats[m].end /\ chats'[m].wire = chats[m].wire
           /\ UNCHANGED msgs
  <2>1. OpenKept /\ UpsKept /\ DownsKept /\ NothingAdded /\ UpsFewer
    BY <1>1, WiresKept, SameUps
  <2>2. ASSUME NEW q \in MsgIds PROVE Order(q)' /\ Rests(q) /\ TurnKept(q)
    <3>1. Rests(q)
      BY <1>1, <1>2, RestsUnmoved
    <3>2. TurnKept(q)
      BY <1>1, <1>2, <2>2 DEF TurnKept, ChatButFor
    <3>3. NotBegun(q)
      <4>1. CASE q = m
        <5>1. chats'[m].wire = 0
          BY <1>1, <1>2 DEF Awaits, Order
        <5>2. Up("chat", m)' => Up("chat", m)
          BY <2>1, FewerUps
        <5>3. QED  BY <1>2, <4>1, <5>1, <5>2 DEF NotBegun, Carried
      <4>2. CASE q # m
        <5>1. chats'[q] = chats[q]
          BY <1>2, <2>2, <4>2 DEF ChatButFor
        <5>2. QED  BY <2>1, <5>1, FewerUps, NotBegunIs
      <4>3. QED  BY <4>1, <4>2
    <3>4. QED  BY <2>1, <3>1, <3>2, <3>3, NothingIsQuiet, OrderKept DEF Awaits, Rests
  <2>3. conn' = conn /\ pending' = pending
    BY <1>1
  <2>4. QED  BY <2>1, <2>2, <2>3, AwaitsKept
<1>3. CASE Only(m) /\ msgs'[m].stage = "http" /\ msgs'[m].items = <<"lost">> /\ UNCHANGED chats
  <2>1. \A e \in Final : ~Contains(<<"lost">>, e)
    BY DEF Final, Contains
  <2>2. ~Untouched(m)' /\ m \in Known' /\ msgs'[m].stage # "stream"
    BY <1>1, <1>3 DEF Untouched
  <2>3. Rests(m)
    BY <1>3, <2>1, <2>2, RestsAside
  <2>4. pending' \subseteq pending
    BY <1>1
  <2>5. QED  BY <1>1, <1>3, <2>3, <2>4, AwaitsOnly
<1>4. QED  BY <1>1, <1>2, <1>3

LEMMA AwaitsChatGoes ==
  ASSUME Base, Talks, Awaits, NEW m \in Known, ChatStarts(m) \/ ChatEntersLoop(m) PROVE Awaits'
<1>1. /\ ChatButFor(chats', m) /\ UNCHANGED <<msgs, conn, pending, wires>> /\ m \in MsgIds
      /\ chats[m].stage \in {"created", "running"}
      /\ \/ chats'[m].stage = "over" /\ chats'[m].end = "unrun"
         \/ /\ chats'[m].stage \in {"running", "loop"} /\ chats'[m].end = chats[m].end
            /\ chats'[m].wire = chats[m].wire
  BY ChatGoesIs
<1>2. OpenKept /\ UpsKept /\ DownsKept /\ NothingAdded /\ UpsFewer
  BY <1>1, WiresKept, SameUps
<1>3. ASSUME NEW q \in MsgIds PROVE Order(q)' /\ Rests(q) /\ TurnKept(q)
  <2>1. Rests(q)
    BY <1>1, RestsUnmoved
  <2>2. TurnKept(q)
    BY <1>1, <1>3 DEF TurnKept, ChatButFor
  <2>3. NotBegun(q)
    <3>1. Up("chat", q)' => Up("chat", q)
      BY <1>2, FewerUps
    <3>2. CASE q = m
      BY <1>1, <3>1, <3>2 DEF NotBegun, Carried
    <3>3. CASE q # m
      <4>1. chats'[q] = chats[q]
        BY <1>1, <1>3, <3>3 DEF ChatButFor
      <4>2. QED  BY <3>1, <4>1, NotBegunIs
    <3>4. QED  BY <3>2, <3>3
  <2>4. QED  BY <1>2, <2>1, <2>2, <2>3, NothingIsQuiet, OrderKept DEF Awaits, Rests
<1>4. conn' = conn /\ pending' = pending
  BY <1>1
<1>5. QED  BY <1>2, <1>3, <1>4, AwaitsKept

LEMMA AwaitsChatSays ==
  ASSUME Base, Talks, Awaits, NEW m \in Known, ChatProgress(m) \/ ChatAnswers(m) \/ ChatFails(m),
         NEW w, w = chats[m].wire
  PROVE  Awaits'
<1>1. /\ m \in MsgIds /\ Known' = Known /\ UNCHANGED <<conn, pending>> /\ WireTypes
      /\ chats[m].stage \in {"running", "loop"}
      /\ \/ Told(m, "progress") /\ UNCHANGED chats
         \/ \E e \in Final : /\ Told(m, e) /\ ChatButFor(chats', m)
                             /\ chats'[m].stage = "over"
  BY ChatSaysIs, Parts DEF Base, Final
<1>2. Final \subseteq Events /\ "progress" \in Events /\ Events \subseteq ToClient
  BY DEF Final, Events, ToClient
<1>3. PICK what \in Events :
        /\ Told(m, what)
        /\ \/ what = "progress" /\ UNCHANGED chats
           \/ what \in Final /\ ChatButFor(chats', m) /\ chats'[m].stage = "over"
  BY <1>1, <1>2
<1>4. ~Up("chat", m) /\ ~Untouched(m) /\ chats[m].end = "none"
  BY <1>1 DEF Talks, Talk
<1>5. UpsFewer
  BY <1>3, ToldDowns
<1>6. \A q : Up("chat", q)' => Up("chat", q)
  BY <1>5, FewerUps
<1>7. \A q \in MsgIds : q # m => chats'[q] = chats[q]
  BY <1>3 DEF ChatButFor
<1>8. chats'[m].stage # "none"
  BY <1>1, <1>3
<1>9. ASSUME NEW q \in MsgIds, q # m PROVE NotBegun(q) /\ TurnKept(q)
  <2>1. chats'[q] = chats[q]
    BY <1>7, <1>9
  <2>2. QED  BY <1>6, <2>1, NotBegunIs DEF TurnKept
<1>10. ASSUME w = 0, UNCHANGED wires, Only(m), msgs'[m].stage = "http" PROVE Awaits'
  <2>1. OpenKept /\ UpsKept /\ DownsKept /\ NothingAdded
    BY <1>10, WiresKept
  <2>2. ASSUME NEW q \in MsgIds, q # m PROVE Order(q)' /\ Awaited(q)'
    <3>1. Rests(q)
      BY <1>1, <1>10, <2>2, RestsOther
    <3>2. Order(q)'
      BY <1>9, <2>1, <2>2, <3>1, NothingIsQuiet, OrderKept DEF Awaits, Rests
    <3>3. Awaited(q)'
      BY <1>9, <2>1, <2>2, <3>1, AwaitedKept DEF Awaits, UpsKept, DownsKept, Rests
    <3>4. QED  BY <3>2, <3>3
  <2>3. ~Registered(m)' /\ ~Untouched(m)'
    BY <1>1, <1>10 DEF Registered, Untouched
  <2>4. ~Carried(m)'
    BY <1>3, <1>4, <1>6, <1>10 DEF Carried
  <2>5. \A n \in DOMAIN wires' : \A e \in Final : ~After(n, <<e, m>>, <<"progress", m>>)'
    BY <1>1, <1>10 DEF Awaits, Order, After
  <2>6. Order(m)' /\ Awaited(m)'
    BY <1>8, <2>3, <2>4, <2>5 DEF Order, Awaited
  <2>7. \A r \in pending' : Coming(r)'
    BY <1>1, <2>1, ComingKept DEF Awaits, UpsKept, DownsKept
  <2>8. QED  BY <2>2, <2>6, <2>7 DEF Awaits
<1>11. ASSUME UNCHANGED msgs, SameWires, SaysOn(w, what, m),
              \A n \in DOMAIN wires : wires'[n].open = wires[n].open /\ wires'[n].up = wires[n].up
       PROVE  Awaits'
  <2>1. DownsKept /\ OneAdded(w, <<what, m>>)
    BY <1>1, <1>2, <1>11, FrameSaid
  <2>2. OpenKept /\ UpsKept
    BY <1>11 DEF OpenKept, UpsKept, UpOn, SameWires
  <2>3. \A q : Rests(q)
    BY <1>1, <1>11, RestsUnmoved
  <2>4. ASSUME NEW q \in MsgIds, q # m PROVE Order(q)' /\ Awaited(q)'
    <3>1. Order(q)'
      BY <1>9, <2>1, <2>3, <2>4, QuietSaid, OrderKept DEF Awaits, Rests
    <3>2. Awaited(q)'
      BY <1>9, <2>1, <2>2, <2>3, <2>4, AwaitedKept DEF Awaits, UpsKept, DownsKept, Rests
    <3>3. QED  BY <3>1, <3>2
  <2>5. \A r \in pending' : Coming(r)'
    BY <1>1, <2>1, <2>2, ComingKept DEF Awaits, UpsKept, DownsKept
  <2>6. CASE what = "progress" /\ UNCHANGED chats
    <3>1. NotBegun(m) /\ TurnKept(m)
      BY <1>6, <2>6, NotBegunIs DEF TurnKept
    <3>2. Order(m)'
      <4>1. CASE w = 0
        <5>1. DownsStay
          BY <1>1, <1>11, <4>1, WiresAre DEF SaysOn, DownsStay
        <5>2. NothingAdded
          BY <1>11, <5>1, DownsUnmoved
        <5>3. QED  BY <1>1, <2>3, <3>1, <5>2, NothingIsQuiet, OrderKept DEF Awaits, Rests
      <4>2. CASE w # 0
        <5>1. Carried(m)
          BY <1>1, <4>2 DEF Carried
        <5>2. QED  BY <1>1, <2>1, <2>3, <2>6, <3>1, <5>1, OrderProgress DEF Awaits, Rests
      <4>3. QED  BY <4>1, <4>2
    <3>3. Awaited(m)'
      BY <1>1, <2>1, <2>2, <2>3, <3>1, AwaitedKept DEF Awaits, UpsKept, DownsKept, Rests
    <3>4. QED  BY <2>4, <2>5, <3>2, <3>3 DEF Awaits
  <2>7. CASE what \in Final /\ chats'[m].stage = "over"
    <3>1. ~Carried(m)' /\ ~Untouched(m)'
      BY <1>1, <1>4, <1>6, <1>11, <2>7 DEF Carried, Untouched
    <3>2. Order(m)'
      BY <1>1, <1>8, <2>1, <2>3, <2>7, <3>1, OrderSaid DEF Awaits, Rests
    <3>3. Awaited(m)'
      BY <1>1, <1>4, <2>1, <2>2, <2>3, <2>7, AwaitedSaid DEF Awaits, UpsKept
    <3>4. QED  BY <2>4, <2>5, <3>2, <3>3 DEF Awaits
  <2>8. QED  BY <1>3, <2>6, <2>7
<1>12. QED  BY <1>3, <1>10, <1>11 DEF Told, SaysOn

\* The gateway takes the oldest frame of connection n, which is about message m.
LEMMA AwaitsGatewayTakes ==
  ASSUME Base, Talks, Awaits, NEW n \in DOMAIN wires, GatewayTakes(n),
         NEW frame, NEW m, frame = wires[n].up[1], m = frame[2]
  PROVE  Awaits'
<1>1. /\ UNCHANGED <<msgs, conn, pending>> /\ wires[n].up # <<>> /\ m \in MsgIds
      /\ SameWires /\ WireTypes
      /\ \A p \in DOMAIN wires :
           /\ wires'[p].open = wires[p].open
           /\ wires'[p].up = IF p = n THEN Tail(wires[n].up) ELSE wires[p].up
      /\ \/ /\ frame = <<"chat", m>> /\ DownsStay
            /\ ChatButFor(chats', m) /\ chats'[m].stage = "created" /\ chats'[m].wire = n
         \/ frame = <<"chat", m>> /\ SaysOn(n, "failed", m) /\ UNCHANGED chats
         \/ /\ \E what \in {"steer", "cancel"} : \E a \in Replies(what) :
                 frame = <<what, m>> /\ SaysOn(n, a, m)
            /\ ChatButFor(chats', m) \/ UNCHANGED chats
            /\ chats'[m].stage = chats[m].stage
            /\ chats'[m].end = chats[m].end /\ chats'[m].wire = chats[m].wire
  BY GatewayTakesIs, Parts DEF Base, Replies
<1>2. /\ \A w, q : Up(w, q)' => Up(w, q)
      /\ frame = <<"chat", m>> => Up("chat", m) /\ ~Up("chat", m)'
  BY <1>1, UpTaken DEF Talks
<1>3. \A p, f : UpOn(p, f) => UpOn(p, f)' \/ (p = n /\ f = frame)
  BY <1>1, FrameTaken
<1>4. OpenKept
  BY <1>1 DEF OpenKept, SameWires
<1>5. \A q : Rests(q)
  BY <1>1, RestsUnmoved
<1>6. ASSUME NEW q \in MsgIds, q # m PROVE NotBegun(q) /\ TurnKept(q)
  <2>1. chats'[q] = chats[q]
    BY <1>1, <1>6 DEF ChatButFor
  <2>2. QED  BY <1>2, <2>1, NotBegunIs DEF TurnKept
<1>7. pending \subseteq Requests
  BY <1>1 DEF WireTypes
<1>8. ASSUME frame = <<"chat", m>>, DownsKept PROVE \A r \in pending' : Coming(r)'
  <2>1. ASSUME NEW r \in pending PROVE Coming(r)'
    <3>1. r # frame
      BY <1>7, <1>8, <2>1 DEF Requests
    <3>2. QED  BY <1>1, <1>3, <1>4, <1>8, <2>1, <3>1, ComingKept DEF Awaits, DownsKept
  <2>2. QED  BY <1>1, <2>1
<1>9. ASSUME NEW q \in MsgIds, q # m, DownsKept PROVE Awaited(q)'
  <2>1. <<"chat", q>> # frame
    BY <1>9
  <2>2. QED  BY <1>3, <1>4, <1>5, <1>6, <1>9, <2>1, AwaitedKept DEF Awaits, DownsKept, Rests
<1>10. CASE /\ frame = <<"chat", m>> /\ DownsStay
            /\ ChatButFor(chats', m) /\ chats'[m].stage = "created" /\ chats'[m].wire = n
  <2>1. DownsKept /\ NothingAdded
    BY <1>1, <1>10, DownsUnmoved
  <2>2. Up("chat", m) /\ chats[m].stage = "none" /\ chats[m].end # "unrun"
    BY <1>1, <1>2, <1>10 DEF Talks, Talk
  <2>3. NotBegun(m)
    BY <1>10, <2>2 DEF NotBegun, Carried
  <2>4. ASSUME NEW q \in MsgIds PROVE Order(q)'
    BY <1>5, <1>6, <2>1, <2>3, <2>4, NothingIsQuiet, OrderKept DEF Awaits, Rests
  <2>5. Awaited(m)'
    <3> SUFFICES ASSUME m \in Known', Registered(m)' PROVE
          /\ conn' # 0
          /\ \/ ~wires'[conn'].open
             \/ UpOn(conn, <<"chat", m>>)'
             \/ \E e \in Final : DownOn(conn, <<e, m>>)'
             \/ chats'[m].wire = conn' /\ chats'[m].stage \in {"created", "running", "loop"}
             \/ Concluded(m)'
      BY DEF Awaited
    <3>1. m \in Known /\ Registered(m) /\ conn # 0 /\ conn \in DOMAIN wires
      BY <1>1, <1>5, WiresAre DEF Rests, Calm, Awaits, Awaited
    <3>2. ASSUME NEW c, c = conn
          PROVE  \/ ~wires'[c].open
                 \/ UpOn(c, <<"chat", m>>)'
                 \/ \E e \in Final : DownOn(c, <<e, m>>)'
                 \/ chats'[m].wire = c /\ chats'[m].stage \in {"created", "running", "loop"}
                 \/ Concluded(m)'
      <4>1. \/ ~wires[c].open
            \/ UpOn(c, <<"chat", m>>)
            \/ \E e \in Final : DownOn(c, <<e, m>>)
            \/ Concluded(m)
        BY <1>1, <2>2, <3>1, <3>2 DEF Awaits, Awaited
      <4>2. UpOn(c, <<"chat", m>>) => UpOn(c, <<"chat", m>>)' \/ c = n
        BY <1>3
      <4>3. QED  BY <1>1, <1>4, <1>5, <1>10, <2>1, <3>1, <3>2, <4>1, <4>2 DEF OpenKept, DownsKept, Rests
    <3>3. QED  BY <1>1, <3>1, <3>2 DEF UpOn, DownOn
  <2>6. QED  BY <1>8, <1>9, <1>10, <2>1, <2>4, <2>5 DEF Awaits
<1>11. CASE frame = <<"chat", m>> /\ SaysOn(n, "failed", m) /\ UNCHANGED chats
  <2>1. "failed" \in Final /\ "failed" \in ToClient
    BY DEF Final, ToClient, Events
  <2>2. DownsKept /\ OneAdded(n, <<"failed", m>>)
    BY <1>1, <1>11, <2>1, FrameSaid
  <2>3. /\ Up("chat", m) /\ ~Up("chat", m)' /\ Streamed(m)
        /\ chats[m].stage = "none" /\ chats[m].end = "none"
    BY <1>1, <1>2, <1>11 DEF Talks, Talk
  <2>4. ~Carried(m)' /\ ~Untouched(m)'
    BY <1>1, <1>11, <2>3 DEF Carried, Untouched, Streamed, Known
  <2>5. Order(m)'
    BY <1>1, <1>5, <1>11, <2>1, <2>2, <2>4, OrderSaid DEF Awaits, Order, Rests
  <2>6. ASSUME NEW q \in MsgIds, q # m PROVE Order(q)'
    BY <1>5, <1>6, <2>2, <2>6, QuietSaid, OrderKept DEF Awaits, Rests
  <2>7. Awaited(m)'
    <3>1. ASSUME NEW c, c = conn PROVE UpOn(c, <<"chat", m>>) => UpOn(c, <<"chat", m>>)' \/ n = c
      BY <1>3
    <3>2. QED  BY <1>1, <1>4, <1>5, <2>1, <2>2, <2>3, <3>1, AwaitedSaid DEF Awaits
  <2>8. QED  BY <1>8, <1>9, <1>11, <2>2, <2>5, <2>6, <2>7 DEF Awaits
<1>12. ASSUME NEW what \in {"steer", "cancel"}, NEW a \in Replies(what),
              frame = <<what, m>>, SaysOn(n, a, m),
              chats'[m].stage = chats[m].stage,
              chats'[m].end = chats[m].end, chats'[m].wire = chats[m].wire
       PROVE  Awaits'
  <2>1. a \in ToClient /\ a \notin Events
    BY <1>12 DEF Replies, ToClient, Events
  <2>2. DownsKept /\ OneAdded(n, <<a, m>>)
    BY <1>1, <1>12, <2>1, FrameSaid
  <2>3. ASSUME NEW q \in MsgIds PROVE NotBegun(q) /\ TurnKept(q)
    <3>1. CASE q = m
      BY <1>2, <1>12, <3>1, NotBegunIs DEF TurnKept
    <3>2. QED  BY <1>6, <2>3, <3>1
  <2>4. ASSUME NEW q \in MsgIds PROVE Order(q)'
    BY <1>5, <2>1, <2>2, <2>3, <2>4, QuietSaid, OrderKept DEF Awaits, Rests
  <2>5. ASSUME NEW q \in MsgIds PROVE Awaited(q)'
    <3>1. <<"chat", q>> # frame
      BY <1>12
    <3>2. QED  BY <1>3, <1>4, <1>5, <2>2, <2>3, <2>5, <3>1, AwaitedKept DEF Awaits, DownsKept, Rests
  <2>6. ASSUME NEW r \in pending PROVE Coming(r)'
    <3>1. conn # 0 /\ conn \in DOMAIN wires /\ conn' = conn
      BY <1>1, <2>6, WiresAre DEF Awaits, Coming
    <3>2. ASSUME NEW c, c = conn
          PROVE  \/ ~wires'[c].open
                 \/ UpOn(c, r)'
                 \/ \E b \in Replies(r[1]) : DownOn(c, <<b, r[2]>>)'
      <4>1. \/ ~wires[c].open
            \/ UpOn(c, r)
            \/ \E b \in Replies(r[1]) : DownOn(c, <<b, r[2]>>)
        BY <2>6, <3>2 DEF Awaits, Coming
      <4>2. CASE c = n /\ r = frame
        <5>1. wires[c].open => DownOn(c, <<a, m>>)'
          BY <2>2, <3>1, <3>2, <4>2 DEF OneAdded
        <5>2. r[1] = what /\ r[2] = m
          BY <1>12, <4>2
        <5>3. QED  BY <1>4, <1>12, <3>1, <3>2, <5>1, <5>2 DEF OpenKept
      <4>3. CASE ~(c = n /\ r = frame)
        <5>1. UpOn(c, r) => UpOn(c, r)'
          BY <1>3, <4>3
        <5>2. QED  BY <1>4, <2>2, <3>1, <3>2, <4>1, <5>1 DEF OpenKept, DownsKept
      <4>4. QED  BY <4>2, <4>3
    <3>3. QED  BY <3>1, <3>2 DEF Coming, UpOn, DownOn
  <2>7. QED  BY <1>1, <2>4, <2>5, <2>6 DEF Awaits
<1>13. QED  BY <1>1, <1>10, <1>11, <1>12

\* The client takes the oldest frame of its connection, which nobody waits for
\* any more.
LEMMA AwaitsTaken ==
  ASSUME Base, Awaits, UNCHANGED <<conn, chats>>, OpenKept, UpsKept, UpsFewer, NothingAdded,
         NEW c, c = conn, NEW what, NEW m,
         \A n, f : DownOn(n, f) => DownOn(n, f)' \/ (n = c /\ f = <<what, m>>),
         \A q \in MsgIds : Rests(q), what \in Final => ~(m \in Known' /\ Registered(m)'),
         \A r \in pending' : r \in pending /\ ~(what \in Replies(r[1]) /\ r[2] = m)
  PROVE  Awaits'
<1>1. ASSUME NEW q \in MsgIds PROVE Order(q)'
  <2>1. NotBegun(q)
    BY FewerUps, NotBegunIs
  <2>2. QED  BY <1>1, <2>1, NothingIsQuiet, OrderKept DEF Awaits, Rests
<1>2. ASSUME NEW q \in MsgIds PROVE Awaited(q)'
  <2>1. CASE what \in Final /\ q = m
    BY <2>1 DEF Awaited
  <2>2. CASE ~(what \in Final /\ q = m)
    <3>1. \A e \in Final : DownOn(c, <<e, q>>) => DownOn(c, <<e, q>>)'
      BY <2>2
    <3>2. TurnKept(q)
      BY TurnsKept
    <3>3. QED  BY <1>2, <3>1, <3>2, AwaitedKept DEF Awaits, UpsKept, Rests
  <2>3. QED  BY <2>1, <2>2
<1>3. ASSUME NEW r \in pending' PROVE Coming(r)'
  <2>1. r \in pending
    BY <1>3
  <2>2. ASSUME NEW a \in Replies(r[1]), DownOn(c, <<a, r[2]>>) PROVE DownOn(c, <<a, r[2]>>)'
    <3>1. <<a, r[2]>> # <<what, m>>
      BY <1>3, <2>2
    <3>2. QED  BY <2>2, <3>1
  <2>3. conn' = conn
    OBVIOUS
  <2>4. QED  BY <2>1, <2>2, <2>3, ComingKept DEF Awaits, UpsKept
<1>4. QED  BY <1>1, <1>2, <1>3 DEF Awaits

\* An event reaches the stream of message m.
LEMMA AwaitsHears ==
  ASSUME Base, Awaits, UNCHANGED <<conn, chats, pending>>, Known' = Known,
         OpenKept, UpsKept, UpsFewer, NothingAdded,
         NEW c, c = conn, c \in DOMAIN wires, NEW what \in Events, NEW m \in MsgIds,
         DownOn(c, <<what, m>>),
         \A n, f : DownOn(n, f) => DownOn(n, f)' \/ (n = c /\ f = <<what, m>>),
         \A f : DownOn(c, f)' => After(c, <<what, m>>, f),
         m \in Known, Registered(m), Only(m), msgs'[m].stage = "stream",
         NEW s, s = msgs[m].items, msgs'[m].items = Put(s, what)
  PROVE  Awaits'
<1> DEFINE x == Put(s, what)
<1>1. s \in Seq(Events) /\ msgs[m].stage = "stream" /\ ~Contains(s, "lost")
  BY Parts, FieldsOf DEF Base, MsgTypes, Known, Registered
<1>2. /\ \A e : Contains(x, e) => Contains(s, e) \/ e = what
      /\ \/ what = "progress" /\ x = s
         \/ x # <<>> /\ Last(x) = what
  BY <1>1, PutIs
<1>3. msgs'[m].items = x
  OBVIOUS
<1> HIDE DEF x
<1>4. \A q \in MsgIds : NotBegun(q) /\ TurnKept(q) /\ Quiet(q)
  BY FewerUps, NotBegunIs, TurnsKept, NothingIsQuiet
<1>5. ASSUME NEW q \in MsgIds, q # m PROVE Order(q)' /\ Awaited(q)'
  <2>1. Rests(q)
    BY <1>5, RestsOther
  <2>2. Order(q)'
    BY <1>4, <2>1, OrderKept DEF Awaits, Rests
  <2>3. \A e \in Final : DownOn(c, <<e, q>>) => DownOn(c, <<e, q>>)'
    BY <1>5
  <2>4. Awaited(q)'
    BY <1>4, <1>5, <2>1, <2>3, AwaitedKept DEF Awaits, UpsKept, Rests
  <2>5. QED  BY <2>2, <2>4
<1>6. Order(m)
  BY DEF Awaits
<1>7. \A e \in Final : Has(m, e)' => Has(m, e) \/ e = what
  BY <1>2, <1>3 DEF Has
<1>8. \A n : \A e \in Final : ~After(n, <<e, m>>, <<"progress", m>>)
  BY <1>6 DEF Order, After
<1>9. Order(m)'
  <2>1. \A n \in DOMAIN wires' : \A e \in Final : ~After(n, <<e, m>>, <<"progress", m>>)'
    BY <1>8 DEF NothingAdded
  <2>2. ASSUME NEW e \in Final, Has(m, e)' PROVE ~DownOn(conn, <<"progress", m>>)'
    <3>1. CASE Has(m, e)
      <4>1. ~DownOn(c, <<"progress", m>>)
        BY <1>6, <2>2, <3>1 DEF Order
      <4>2. ~DownOn(c, <<"progress", m>>)'
        BY <4>1 DEF NothingAdded
      <4>3. QED  BY <4>2 DEF DownOn
    <3>2. CASE e = what
      <4>1. ~DownOn(c, <<"progress", m>>)'
        BY <1>8, <2>2, <3>2
      <4>2. QED  BY <4>1 DEF DownOn
    <3>3. QED  BY <1>7, <2>2, <3>1, <3>2
  <2>3. ASSUME Carried(m)', NEW e \in Final
        PROVE  ~Has(m, e)' /\ \A n \in DOMAIN wires' : ~DownOn(n, <<e, m>>)'
    <3>1. Carried(m)
      BY <1>4, <2>3 DEF NotBegun
    <3>2. ~Has(m, e) /\ \A n : ~DownOn(n, <<e, m>>)
      BY <1>6, <2>3, <3>1 DEF Order, DownOn
    <3>3. e # what
      BY <3>2
    <3>4. QED  BY <1>7, <3>2, <3>3 DEF NothingAdded
  <2>4. ~Untouched(m)'
    BY DEF Untouched
  <2>5. chats'[m].stage = "none" => chats'[m].wire = 0
    BY <1>6 DEF Order
  <2>6. QED  BY <2>1, <2>2, <2>3, <2>4, <2>5 DEF Order
<1>10. Awaited(m)'
  <2>1. c # 0
    BY WiresAre, Parts DEF Base
  <2>2. CASE x # <<>> /\ Last(x) = what /\ what # "progress"
    BY <1>3, <2>1, <2>2 DEF Awaited, Concluded
  <2>3. CASE what = "progress"
    <3>1. ~Concluded(m)
      <4> SUFFICES ASSUME s # <<>>, Last(s) # "progress" PROVE FALSE
        BY DEF Concluded
      <4>1. Len(s) \in DOMAIN s /\ s[Len(s)] = Last(s) /\ Last(s) \in Events
        BY <1>1, SeqIsFunction, EmptySeq DEF Last
      <4>2. Contains(s, Last(s))
        BY <1>1, <4>1, ContainsIs
      <4>3. Last(s) \in Final /\ Has(m, Last(s))
        BY <1>1, <4>1, <4>2 DEF Events, Final, Has
      <4>4. QED  BY <1>6, <2>3, <4>3 DEF Order
    <3>2. \/ ~wires[c].open
          \/ UpOn(c, <<"chat", m>>)
          \/ \E e \in Final : DownOn(c, <<e, m>>)
          \/ chats[m].wire = c /\ chats[m].stage \in {"created", "running", "loop"}
          \/ chats[m].end = "unrun"
      BY <3>1 DEF Awaits, Awaited
    <3>3. \A e \in Final : <<e, m>> # <<what, m>>
      BY <2>3 DEF Final
    <3>4. \/ ~wires'[c].open
          \/ UpOn(c, <<"chat", m>>)'
          \/ \E e \in Final : DownOn(c, <<e, m>>)'
          \/ chats'[m].wire = c /\ chats'[m].stage \in {"created", "running", "loop"}
          \/ chats'[m].end = "unrun"
      BY <3>2, <3>3 DEF OpenKept, UpsKept
    <3>5. conn' = c
      OBVIOUS
    <3>6. QED  BY <2>1, <3>4, <3>5 DEF Awaited, UpOn, DownOn
  <2>4. QED  BY <1>2, <2>2, <2>3
<1>11. ASSUME NEW r \in pending PROVE Coming(r)'
  <2>1. \A a \in Replies(r[1]) : DownOn(c, <<a, r[2]>>) => DownOn(c, <<a, r[2]>>)'
    <3>1. \A a \in Replies(r[1]) : a # what
      BY DEF Replies, Events
    <3>2. QED  BY <3>1
  <2>2. conn' = conn
    OBVIOUS
  <2>3. QED  BY <1>11, <2>1, <2>2, ComingKept DEF Awaits, UpsKept
<1>12. QED  BY <1>5, <1>9, <1>10, <1>11 DEF Awaits

LEMMA AwaitsReceive ==
  ASSUME Base, Awaits, Receive, NEW c, c = conn, NEW what, NEW m,
         what = wires[c].down[1][1], m = wires[c].down[1][2]
  PROVE  Awaits'
<1>1. /\ UNCHANGED <<conn, chats>> /\ c \in DOMAIN wires /\ wires[c].down # <<>> /\ WireTypes
      /\ wires[c].down[1] = <<what, m>> /\ m \in MsgIds
      /\ 1 \in DOMAIN wires[c].down /\ SameWires /\ Known' = Known
      /\ \A p \in DOMAIN wires :
           /\ wires'[p].open = wires[p].open /\ wires'[p].up = wires[p].up
           /\ wires'[p].down = IF p = c THEN Tail(wires[c].down) ELSE wires[p].down
  BY ReceiveIs, Parts DEF Base
<1>2. \/ /\ what \in Events /\ m \in Known /\ Registered(m) /\ Only(m)
         /\ msgs'[m].stage = "stream" /\ msgs'[m].items = Put(msgs[m].items, what)
         /\ UNCHANGED pending
      \/ /\ what \in {"injected", "refused"} /\ pending' = pending \ {<<"steer", m>>}
         /\ \E t \in Tabs :
              /\ tabs[t].at \in {"steer", "orphan"} /\ tabs[t].msg = m
              /\ m \in Known /\ msgs[m].stage = "held"
              /\ \/ /\ Only(m) /\ msgs'[m].stage = "over" /\ msgs'[m].end = "steered"
                    /\ msgs'[m].items = <<>>
                 \/ PutInQueue(t, m)
      \/ what = "heeded" /\ UNCHANGED msgs /\ pending' = pending \ {<<"cancel", m>>}
      \/ /\ UNCHANGED <<msgs, pending>>
         /\ what \in Events /\ m \in Known => ~Registered(m)
         /\ what \in {"injected", "refused"} => <<"steer", m>> \notin pending
         /\ what = "heeded" => <<"cancel", m>> \notin pending
  BY ReceiveIs
<1>3. /\ NothingAdded
      /\ \A n, f : DownOn(n, f) => DownOn(n, f)' \/ (n = c /\ f = <<what, m>>)
      /\ \A f : DownOn(c, f)' => After(c, <<what, m>>, f)
  BY <1>1, FrameReceived
<1>4. OpenKept /\ UpsKept /\ UpsFewer
  BY <1>1 DEF OpenKept, UpsKept, UpsFewer, UpOn, SameWires
<1>5. DownOn(c, <<what, m>>)
  BY <1>1 DEF DownOn
<1>6. CASE /\ what \in Events /\ m \in Known /\ Registered(m) /\ Only(m)
           /\ msgs'[m].stage = "stream" /\ msgs'[m].items = Put(msgs[m].items, what)
           /\ UNCHANGED pending
  <2>1. UNCHANGED <<conn, chats, pending>>
    BY <1>1, <1>6
  <2>2. QED  BY <1>1, <1>3, <1>4, <1>5, <1>6, <2>1, AwaitsHears
<1>7. \A r \in pending : r \in {<<"steer", r[2]>>, <<"cancel", r[2]>>} /\ r = <<r[1], r[2]>>
  BY <1>1 DEF WireTypes, Requests
<1>8. ASSUME NEW r \in pending, what \in Replies(r[1]), r[2] = m
      PROVE  \/ what \in {"injected", "refused"} /\ r = <<"steer", m>>
             \/ what = "heeded" /\ r = <<"cancel", m>>
  BY <1>7, <1>8 DEF Replies
<1>9. what \in {"injected", "refused", "heeded"} => what \notin Final
  BY DEF Final
<1>10. ASSUME \A q \in MsgIds : Rests(q), what \in Final => ~(m \in Known' /\ Registered(m)'),
              pending' \subseteq pending,
              what \in {"injected", "refused"} => <<"steer", m>> \notin pending',
              what = "heeded" => <<"cancel", m>> \notin pending'
       PROVE  Awaits'
  <2>1. \A r \in pending' : r \in pending /\ ~(what \in Replies(r[1]) /\ r[2] = m)
    BY <1>8, <1>10
  <2>2. UNCHANGED <<conn, chats>>
    BY <1>1
  <2>3. \A n, f : DownOn(n, f) => DownOn(n, f)' \/ (n = c /\ f = <<what, m>>)
    BY <1>3
  <2>4. (\A q \in MsgIds : Rests(q)) /\ (what \in Final => ~(m \in Known' /\ Registered(m)'))
    BY <1>10
  <2>5. QED  BY <1>3, <1>4, <2>1, <2>2, <2>3, <2>4, AwaitsTaken
<1>11. ASSUME what \in {"injected", "refused"}, pending' = pending \ {<<"steer", m>>},
              NEW t \in Tabs, tabs[t].at \in {"steer", "orphan"}, tabs[t].msg = m,
              m \in Known, msgs[m].stage = "held",
              \/ Only(m) /\ msgs'[m].stage = "over" /\ msgs'[m].end = "steered" /\ msgs'[m].items = <<>>
              \/ PutInQueue(t, m)
       PROVE  Awaits'
  <2>1. Only(m) /\ Rests(m)
    <3>1. CASE PutInQueue(t, m)
      BY <1>11, <3>1, RestsQueues
    <3>2. CASE Only(m) /\ msgs'[m].stage = "over" /\ msgs'[m].items = <<>>
      <4>1. Untouched(m) /\ m \in Known' /\ msgs'[m].stage # "stream"
        BY <1>1, <1>11, <3>2 DEF Untouched
      <4>2. QED  BY <3>2, <4>1, NothingIn, RestsAside
    <3>3. QED  BY <1>11, <3>1, <3>2
  <2>2. \A q \in MsgIds : Rests(q)
    BY <1>1, <2>1, RestsOther
  <2>3. QED  BY <1>9, <1>10, <1>11, <2>2
<1>12. CASE UNCHANGED msgs /\ pending' \subseteq pending
  <2>1. \A q \in MsgIds : Rests(q)
    BY <1>1, <1>12, RestsUnmoved
  <2>2. Registered(m)' => Registered(m)
    BY <1>12 DEF Registered
  <2>3. "heeded" \notin Events /\ Final \subseteq Events
    BY DEF Events, Final
  <2>4. CASE what = "heeded" /\ pending' = pending \ {<<"cancel", m>>}
    BY <1>9, <1>10, <1>12, <2>1, <2>4
  <2>5. CASE /\ UNCHANGED pending
             /\ what \in Events /\ m \in Known => ~Registered(m)
             /\ what \in {"injected", "refused"} => <<"steer", m>> \notin pending
             /\ what = "heeded" => <<"cancel", m>> \notin pending
    BY <1>1, <1>10, <1>12, <2>1, <2>2, <2>3, <2>5
  <2>6. CASE what \in {"injected", "refused"} /\ pending' = pending \ {<<"steer", m>>}
    BY <1>9, <1>10, <1>12, <2>1, <2>6
  <2>7. QED  BY <1>2, <1>6, <1>12, <2>4, <2>5, <2>6
<1>13. QED  BY <1>2, <1>6, <1>11, <1>12

LEMMA AwaitsInit == Init => Awaits
<1> SUFFICES ASSUME Init PROVE Awaits
  OBVIOUS
<1>1. DOMAIN wires = {} /\ Known = {} /\ pending = {}
  BY EmptyIs DEF Init, Known
<1>2. \A m \in MsgIds : chats[m].stage = "none" /\ chats[m].wire = 0
  BY DEF Init, NoChat
<1>3. QED  BY <1>1, <1>2 DEF Awaits, Order, Awaited, Carried, Up

LEMMA AwaitsNext == Base /\ Talks /\ Awaits /\ [Next]_vars => Awaits'
<1> SUFFICES ASSUME Base, Talks, Awaits, [Next]_vars PROVE Awaits'
  OBVIOUS
<1>1. ASSUME NEW t \in Tabs, Send(t) PROVE Awaits'
  BY <1>1, AwaitsSend
<1>2. ASSUME NEW t \in Tabs, Stop(t) PROVE Awaits'
  BY <1>2, AwaitsStop
<1>3. ASSUME NEW t \in Tabs, Close(t) PROVE Awaits'
  <2>1. Inside /\ UNCHANGED msgs
    BY <1>3, CloseIs
  <2>2. QED  BY <2>1, AwaitsUnmoved DEF Inside
<1>4. ASSUME NEW t \in Tabs, NEW m \in Known, Cancel(t, m) PROVE Awaits'
  <2>1. /\ UNCHANGED <<msgs, conn, chats>> /\ m \in MsgIds /\ Requested(t, "cancel", m)
    BY <1>4, CancelIs DEF Untold
  <2>2. \A q \in MsgIds : Rests(q)
    BY <2>1, RestsUnmoved
  <2>3. QED  BY <2>1, <2>2, AwaitsRequest
<1>5. ASSUME NEW t \in Tabs, NEW k \in Keys, Move(t, k) PROVE Awaits'
  <2>1. Inside /\ UNCHANGED msgs
    BY <1>5, MoveIs
  <2>2. QED  BY <2>1, AwaitsUnmoved DEF Inside
<1>6. ASSUME NEW t \in Tabs, AckDone(t) PROVE Awaits'
  BY <1>6, AwaitsAckDone DEF Inside
<1>7. ASSUME NEW t \in Tabs, SteerUnanswered(t) PROVE Awaits'
  BY <1>7, AwaitsUnanswered
<1>8. ASSUME NEW t \in Tabs, CancelUnanswered(t) PROVE Awaits'
  <2>1. UNCHANGED <<conn, wires, chats, msgs>>
    BY <1>8, CancelUnansweredIs DEF Untold
  <2>2. pending' \subseteq pending
    BY <1>8 DEF CancelUnanswered
  <2>3. QED  BY <2>1, <2>2, AwaitsUnmoved
<1>9. ASSUME NEW m \in Known, JobStarts(m) PROVE Awaits'
  BY <1>9, AwaitsJobStarts
<1>10. ASSUME NEW m \in Known, StreamItem(m) \/ StreamTimesOut(m) PROVE Awaits'
  BY <1>10, AwaitsStreams
<1>11. ASSUME NEW m \in Known, JobEnds(m) \/ JobIsStopped(m) PROVE Awaits'
  BY <1>11, AwaitsJobOver
<1>12. ASSUME NEW m \in Known, JobNeverRuns(m) PROVE Awaits'
  BY <1>12, AwaitsJobNeverRuns
<1>13. ASSUME Connect PROVE Awaits'
  BY <1>13, AwaitsConnect
<1>14. ASSUME ClientNotices PROVE Awaits'
  BY <1>14, AwaitsClientNotices
<1>15. ASSUME Receive PROVE Awaits'
  BY <1>15, AwaitsReceive
<1>16. ASSUME NEW n \in DOMAIN wires, GatewayTakes(n) PROVE Awaits'
  BY <1>16, AwaitsGatewayTakes
<1>17. ASSUME NEW m \in Known, HttpAccepted(m) PROVE Awaits'
  BY <1>17, AwaitsHttpAccepted
<1>18. ASSUME NEW m \in Known, ChatStarts(m) \/ ChatEntersLoop(m) PROVE Awaits'
  BY <1>18, AwaitsChatGoes
<1>19. ASSUME NEW m \in Known, ChatProgress(m) \/ ChatAnswers(m) \/ ChatFails(m) PROVE Awaits'
  BY <1>19, AwaitsChatSays
<1>20. ASSUME Break PROVE Awaits'
  BY <1>20, AwaitsBreak
<1>21. ASSUME GatewayRestarts PROVE Awaits'
  BY <1>21, AwaitsRestart
<1>22. CASE UNCHANGED vars
  <2>1. UNCHANGED <<conn, wires, chats, msgs>> /\ pending' \subseteq pending
    BY <1>22 DEF vars, handler, client, gateway
  <2>2. QED  BY <2>1, AwaitsUnmoved
<1>23. QED
  BY <1>1, <1>2, <1>3, <1>4, <1>5, <1>6, <1>7, <1>8, <1>9, <1>10, <1>11, <1>12, <1>13, <1>14,
     <1>15, <1>16, <1>17, <1>18, <1>19, <1>20, <1>21, <1>22
  DEF Next, UserActs, HandlerSteps, ClientSteps, GatewaySteps, Faults

\* What a registered stream or a pending request waits for is on its way on the
\* connection in use, or the connection has broken and its end will be noticed.
THEOREM NobodyWaitsInVain == Spec => []NobodyWaitsForNothing
<1>1. Spec => []Base
  BY BaseInit, BaseNext, PTL DEF Spec
<1>2. Spec => []Talks
  BY <1>1, TalksInit, TalksNext, PTL DEF Spec
<1>3. Spec => []Awaits
  BY <1>1, <1>2, AwaitsInit, AwaitsNext, PTL DEF Spec
<1>4. Base /\ Awaits => NobodyWaitsForNothing
  <2> SUFFICES ASSUME Base, Awaits PROVE NobodyWaitsForNothing
    OBVIOUS
  <2>1. WireTypes
    BY Parts DEF Base
  <2>2. conn # 0 => conn \in DOMAIN wires
    BY <2>1, WiresAre
  <2>3. \A f : /\ UpOn(conn, f) => Contains(wires[conn].up, f)
               /\ DownOn(conn, f) => Contains(wires[conn].down, f)
    BY <2>1, WireFields, ContainsIs DEF WireTypes, UpOn, DownOn
  <2>4. ASSUME NEW m \in Known, Registered(m)
        PROVE  /\ conn # 0
               /\ \/ OnItsWay(m, "chat", Events \ {"progress"})
                  \/ chats[m].wire = conn /\ chats[m].stage \in {"created", "running", "loop"}
                  \/ chats[m].end = "unrun"
                  \/ msgs[m].items # <<>> /\ Last(msgs[m].items) # "progress"
    <3>1. m \in MsgIds /\ Final \subseteq Events \ {"progress"}
      BY KnownIs, Parts DEF Base, Final, Events
    <3>2. QED  BY <2>3, <2>4, <3>1 DEF Awaits, Awaited, OnItsWay, Concluded
  <2>5. ASSUME NEW r \in pending
        PROVE  /\ conn # 0
               /\ OnItsWay(r[2], r[1],
                           IF r[1] = "steer" THEN {"injected", "refused"} ELSE {"heeded"})
    <3>1. r = <<r[1], r[2]>>
      BY <2>1, <2>5 DEF WireTypes, Requests
    <3>2. QED  BY <2>3, <2>5, <3>1 DEF Awaits, Coming, OnItsWay, Replies
  <2>6. QED  BY <2>4, <2>5 DEF NobodyWaitsForNothing
<1>5. QED  BY <1>1, <1>3, <1>4, PTL
=============================================================================
