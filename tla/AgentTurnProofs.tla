-------------------------- MODULE AgentTurnProofs --------------------------
(***************************************************************************)
(* Proofs about the agent's turns, for any number of chats, messages,      *)
(* tools and subagents: the dispatch loop never lets a message overtake    *)
(* another of its key, a /stop that was confirmed left nothing behind, a   *)
(* turn that is alone answers exactly once, and the steering queues follow *)
(* the turns.                                                              *)
(***************************************************************************)
EXTENDS AgentTurn, SequenceTheorems, TLAPS

\* Arrival numbers in the order of arrival.
Ordered(s) == \A i, j \in DOMAIN s : i < j => s[i] < s[j]

AtWork == {"line", "prep", "llm", "tool"}
Inside == {"llm", "tool"}

\* What a turn by itself never is.
Sane(turn) ==
  /\ turn.due => turn.stage = "tool"
  /\ turn.stage = "inbound" => turn.way = "bus" /\ ~turn.doomed
  /\ turn.stage = "line" => turn.way = "bus"
  /\ turn.kind = "stop" => turn.way = "bus" /\ turn.stage \in {"inbound", "over"}
  /\ turn.end = "none" <=> turn.stage # "over"
  /\ turn.stage \in {"inbound", "line", "prep"} => ~turn.told /\ turn.mixed = {}

SaneTurn == {turn \in Turn : Sane(turn)}

\* The context of the tools is some turn's from the first agent loop on.
CtxSet == InLoop # {} => ctx.home \in Chats /\ ctx.sess \in Chats

Types == TypeOK /\ turns \in Seq(SaneTurn) /\ CtxSet

\* The inbound queue holds what nobody has taken, in order of arrival.
InboundHolds ==
  /\ Ordered(inbound)
  /\ ToSet(inbound) = {t \in DOMAIN turns : turns[t].stage = "inbound" /\ t # halting}

HaltingIsStop ==
  halting # 0 => /\ halting \in DOMAIN turns
                 /\ turns[halting].kind = "stop" /\ turns[halting].stage = "inbound"

\* What is still queued arrived after everything that was taken.
TakenInOrder ==
  \A t \in DOMAIN turns : \A u \in ToSet(inbound) :
    turns[t].way = "bus" /\ t \notin ToSet(inbound) => t < u

\* The line of a key holds its messages that are at work, in the same order.
LinesHold ==
  \A k \in Chats :
    /\ Ordered(line[k])
    /\ ToSet(line[k]) = {t \in DOMAIN turns : /\ turns[t].way = "bus" /\ turns[t].key = k
                                              /\ turns[t].stage \in AtWork}

Queues == InboundHolds /\ HaltingIsStop /\ TakenInOrder /\ LinesHold

\* Of two turns inside their loops each knows of the other, and what a turn
\* met keeps its session.
Mixing ==
  \A t \in DOMAIN turns :
    /\ turns[t].mixed \subseteq {u \in DOMAIN turns : turns[u].stage \in {"llm", "tool", "over"}}
    /\ t \in InLoop => InLoop \ {t} \subseteq turns[t].mixed

\* A turn that met no other finds its own context in the tools.
Alone ==
  \A t \in InLoop :
    turns[t].mixed = {} => ctx.home = turns[t].home /\ ctx.sent = turns[t].told

Loops == Mixing /\ Alone

-----------------------------------------------------------------------------
(* Sequences of arrival numbers. *)

LEMMA AppendOrdered ==
  ASSUME NEW s \in Seq(Nat), Ordered(s), NEW n \in Nat, \A x \in ToSet(s) : x < n
  PROVE  Ordered(Append(s, n)) /\ ToSet(Append(s, n)) = ToSet(s) \cup {n}
<1>1. /\ Len(Append(s, n)) = Len(s) + 1
      /\ \A i \in 1 .. Len(s) : Append(s, n)[i] = s[i]
      /\ Append(s, n)[Len(s) + 1] = n
      /\ DOMAIN s = 1 .. Len(s) /\ Len(s) \in Nat
      /\ DOMAIN Append(s, n) = 1 .. Len(s) + 1
  BY AppendProperties
<1>2. \A i \in DOMAIN s : s[i] \in ToSet(s)
  BY DEF ToSet
<1>3. ASSUME NEW i \in DOMAIN Append(s, n), NEW j \in DOMAIN Append(s, n), i < j
      PROVE  Append(s, n)[i] < Append(s, n)[j]
  <2>1. i \in 1 .. Len(s)
    BY <1>1, <1>3
  <2>2. CASE j = Len(s) + 1
    BY <2>1, <2>2, <1>1, <1>2
  <2>3. CASE j \in 1 .. Len(s)
    BY <2>1, <2>3, <1>1, <1>3 DEF Ordered
  <2>4. QED  BY <2>2, <2>3, <1>1
<1>4. Ordered(Append(s, n))
  BY <1>3 DEF Ordered
<1>5. ToSet(Append(s, n)) = ToSet(s) \cup {n}
  <2>1. \A x \in ToSet(Append(s, n)) : x \in ToSet(s) \cup {n}
    BY <1>1 DEF ToSet
  <2>2. \A x \in ToSet(s) \cup {n} : x \in ToSet(Append(s, n))
    BY <1>1 DEF ToSet
  <2>3. QED  BY <2>1, <2>2
<1>6. QED  BY <1>4, <1>5

LEMMA HeadIsLeast ==
  ASSUME NEW s \in Seq(Nat), Ordered(s), s # <<>>
  PROVE  /\ Head(s) \in ToSet(s)
         /\ \A x \in ToSet(s) : x # Head(s) => Head(s) < x
         /\ Ordered(Tail(s)) /\ ToSet(Tail(s)) = ToSet(s) \ {Head(s)}
<1>1. /\ Head(s) = s[1] /\ 1 \in DOMAIN s
      /\ DOMAIN s = 1 .. Len(s) /\ Len(s) \in Nat
      /\ DOMAIN Tail(s) = 1 .. Len(s) - 1
      /\ \A i \in 1 .. Len(s) - 1 : Tail(s)[i] = s[i + 1]
  BY HeadTailProperties, LenProperties, EmptySeq
<1>2. \A i \in DOMAIN s : i # 1 => s[1] < s[i]
  BY <1>1 DEF Ordered
<1>3. \A i \in DOMAIN s : s[i] \in Nat
  BY ElementOfSeq
<1>4. Ordered(Tail(s))
  BY <1>1 DEF Ordered
<1>5. ASSUME NEW x \in ToSet(Tail(s)) PROVE x \in ToSet(s) \ {Head(s)}
  <2>1. PICK i \in 1 .. Len(s) - 1 : x = s[i + 1]
    BY <1>1 DEF ToSet
  <2>2. i + 1 \in DOMAIN s /\ i + 1 # 1
    BY <1>1
  <2>3. QED  BY <2>1, <2>2, <1>1, <1>2, <1>3 DEF ToSet
<1>6. ASSUME NEW x \in ToSet(s) \ {Head(s)} PROVE x \in ToSet(Tail(s))
  <2>1. PICK i \in 1 .. Len(s) : x = s[i] /\ i # 1
    BY <1>1 DEF ToSet
  <2>2. i - 1 \in 1 .. Len(s) - 1 /\ (i - 1) + 1 = i
    BY <2>1, <1>1
  <2>3. x = Tail(s)[i - 1]
    BY <2>1, <2>2, <1>1
  <2>4. QED  BY <2>2, <2>3, <1>1 DEF ToSet
<1>7. Head(s) \in ToSet(s) /\ \A x \in ToSet(s) : x # Head(s) => Head(s) < x
  BY <1>1, <1>2 DEF ToSet
<1>8. QED  BY <1>4, <1>5, <1>6, <1>7

LEMMA RemoveShifts ==
  ASSUME NEW s \in Seq(Nat), NEW n \in Nat, n = Len(s), NEW i \in 1 .. n
  PROVE  /\ DOMAIN RemoveAt(s, i) = 1 .. n - 1
         /\ \A j \in 1 .. n - 1 : RemoveAt(s, i)[j] = IF j < i THEN s[j] ELSE s[j + 1]
<1>1. \A j \in 1 .. n : s[j] \in Nat
  BY ElementOfSeq
<1>2. PICK u : u = SubSeq(s, 1, i - 1)
  OBVIOUS
<1>3. PICK v : v = SubSeq(s, i + 1, n)
  OBVIOUS
<1>4. u \in Seq(Nat) /\ Len(u) = i - 1 /\ \A j \in 1 .. i - 1 : u[j] = s[j]
  <2>1. i \in Int /\ i - 1 \in Int /\ \A j \in 1 .. i - 1 : s[j] \in Nat
    BY <1>1
  <2>2. /\ u \in Seq(Nat) /\ Len(u) = IF 1 <= i - 1 THEN (i - 1) - 1 + 1 ELSE 0
        /\ \A j \in 1 .. (i - 1) - 1 + 1 : u[j] = s[1 + j - 1]
    BY ONLY <2>1, <1>2, SubSeqProperties
  <2>3. QED  BY <2>2, <2>1
<1>5. v \in Seq(Nat) /\ Len(v) = n - i /\ \A j \in 1 .. n - i : v[j] = s[i + j]
  <2>1. i + 1 \in Int /\ n \in Int /\ \A j \in i + 1 .. n : s[j] \in Nat
    BY <1>1
  <2>2. /\ v \in Seq(Nat) /\ Len(v) = IF i + 1 <= n THEN n - (i + 1) + 1 ELSE 0
        /\ \A j \in 1 .. n - (i + 1) + 1 : v[j] = s[(i + 1) + j - 1]
    BY ONLY <2>1, <1>3, SubSeqProperties
  <2>3. n - (i + 1) + 1 = n - i /\ (i + 1 <= n \/ n - i = 0)
    OBVIOUS
  <2>4. \A j \in 1 .. n - i : (i + 1) + j - 1 = i + j
    OBVIOUS
  <2>5. QED  BY <2>2, <2>3, <2>4
<1>6. PICK w : w = u \o v
  OBVIOUS
<1>7. /\ Len(w) = (i - 1) + (n - i) /\ w \in Seq(Nat)
      /\ \A j \in 1 .. (i - 1) + (n - i) :
           w[j] = IF j <= i - 1 THEN u[j] ELSE v[j - (i - 1)]
  <2>1. /\ u \o v \in Seq(Nat) /\ Len(u \o v) = Len(u) + Len(v)
        /\ \A j \in 1 .. Len(u) + Len(v) :
             (u \o v)[j] = IF j <= Len(u) THEN u[j] ELSE v[j - Len(u)]
    BY <1>4, <1>5, ConcatProperties
  <2>2. Len(u) = i - 1 /\ Len(v) = n - i
    BY <1>4, <1>5
  <2>3. QED  BY <2>1, <2>2, <1>6
<1>8. (i - 1) + (n - i) = n - 1
  OBVIOUS
<1>9. DOMAIN w = 1 .. n - 1
  BY <1>7, <1>8, LenProperties
<1>10. ASSUME NEW j \in 1 .. n - 1 PROVE w[j] = IF j < i THEN s[j] ELSE s[j + 1]
  <2>0. w[j] = IF j <= i - 1 THEN u[j] ELSE v[j - (i - 1)]
    BY <1>7, <1>8
  <2>1. CASE j < i
    <3>1. j <= i - 1 /\ j \in 1 .. i - 1
      BY <2>1
    <3>2. u[j] = s[j]
      BY <3>1, <1>4
    <3>3. QED  BY <2>0, <2>1, <3>1, <3>2
  <2>2. CASE ~(j < i)
    <3>1. j - (i - 1) \in 1 .. n - i /\ i + (j - (i - 1)) = j + 1 /\ ~(j <= i - 1)
      BY <2>2
    <3>2. v[j - (i - 1)] = s[j + 1]
      BY <3>1, <1>5
    <3>3. QED  BY <2>0, <2>2, <3>1, <3>2
  <2>3. QED  BY <2>1, <2>2
<1>11. RemoveAt(s, i) = w
  BY <1>2, <1>3, <1>6 DEF RemoveAt
<1>12. QED  BY <1>9, <1>10, <1>11

LEMMA RemoveOrdered ==
  ASSUME NEW s \in Seq(Nat), Ordered(s), NEW i \in DOMAIN s
  PROVE  Ordered(RemoveAt(s, i)) /\ ToSet(RemoveAt(s, i)) = ToSet(s) \ {s[i]}
<1>1. PICK n \in Nat : n = Len(s) /\ DOMAIN s = 1 .. n /\ i \in 1 .. n
  BY LenProperties
<1>2. PICK r : r = RemoveAt(s, i)
  OBVIOUS
<1>5. /\ DOMAIN r = 1 .. n - 1
      /\ \A j \in 1 .. n - 1 : r[j] = IF j < i THEN s[j] ELSE s[j + 1]
  BY <1>1, <1>2, RemoveShifts
<1>6. \A j \in DOMAIN s : s[j] \in Nat
  BY ElementOfSeq
<1>7. Ordered(r)
  <2> SUFFICES ASSUME NEW j \in 1 .. n - 1, NEW k \in 1 .. n - 1, j < k PROVE r[j] < r[k]
    BY <1>5 DEF Ordered
  <2>1. CASE j < i /\ k < i
    <3>1. j \in 1 .. n /\ k \in 1 .. n
      OBVIOUS
    <3>2. QED  BY <3>1, <2>1, <1>1, <1>5 DEF Ordered
  <2>2. CASE j < i /\ ~(k < i)
    <3>1. j \in 1 .. n /\ k + 1 \in 1 .. n /\ j < k + 1
      OBVIOUS
    <3>2. QED  BY <3>1, <2>2, <1>1, <1>5 DEF Ordered
  <2>3. CASE ~(j < i) /\ ~(k < i)
    <3>1. j + 1 \in 1 .. n /\ k + 1 \in 1 .. n /\ j + 1 < k + 1
      OBVIOUS
    <3>2. QED  BY <3>1, <2>3, <1>1, <1>5 DEF Ordered
  <2>4. QED  BY <2>1, <2>2, <2>3
<1>8. \A j \in DOMAIN s : j # i => s[j] # s[i]
  <2> TAKE j \in DOMAIN s
  <2>1. j # i => j < i \/ i < j
    BY <1>1
  <2>2. s[j] \in Nat /\ s[i] \in Nat
    BY <1>6
  <2>3. QED  BY <2>1, <2>2 DEF Ordered
<1>9. ASSUME NEW x \in ToSet(r) PROVE x \in ToSet(s) \ {s[i]}
  <2>1. PICK j \in 1 .. n - 1 : x = r[j]
    BY <1>5 DEF ToSet
  <2>2. PICK m \in 1 .. n : x = s[m] /\ m # i
    <3> i \in 1 .. n
      BY <1>1
    <3>1. CASE j < i
      <4>1. j \in 1 .. n /\ j # i
        BY <3>1, <1>1
      <4>2. QED  BY <4>1, <3>1, <2>1, <1>5
    <3>2. CASE ~(j < i)
      <4>1. j + 1 \in 1 .. n /\ j + 1 # i
        BY <3>2
      <4>2. QED  BY <4>1, <3>2, <2>1, <1>5
    <3>3. QED  BY <3>1, <3>2
  <2>3. QED  BY <2>2, <1>1, <1>8 DEF ToSet
<1>10. ASSUME NEW x \in ToSet(s) \ {s[i]} PROVE x \in ToSet(r)
  <2>1. PICK j \in 1 .. n : x = s[j] /\ j # i
    BY <1>1 DEF ToSet
  <2>2. CASE j < i
    <3>1. j \in 1 .. n - 1
      BY <1>1, <2>2
    <3>2. QED  BY <3>1, <2>1, <2>2, <1>5 DEF ToSet
  <2>3. CASE j > i
    <3>1. j - 1 \in 1 .. n - 1 /\ (j - 1) + 1 = j /\ ~(j - 1 < i)
      BY <2>3
    <3>2. r[j - 1] = x
      BY <3>1, <2>1, <1>5
    <3>3. QED  BY <3>1, <3>2, <1>5 DEF ToSet
  <2>4. QED  BY <2>1, <2>2, <2>3
<1>11. QED  BY <1>2, <1>7, <1>9, <1>10

\* A slice of a sequence over a set is one.
LEMMA RemoveIsSeq ==
  ASSUME NEW S, NEW s \in Seq(S), NEW i \in DOMAIN s
  PROVE  RemoveAt(s, i) \in Seq(S)
<1>1. PICK n \in Nat : n = Len(s) /\ DOMAIN s = 1 .. n /\ i \in 1 .. n
  BY LenProperties
<1>2. \A j \in 1 .. n : s[j] \in S
  BY <1>1, ElementOfSeq
<1>3. /\ 1 \in Int /\ i - 1 \in Int /\ i + 1 \in Int /\ n \in Int
      /\ \A j \in 1 .. i - 1 : s[j] \in S
      /\ \A j \in i + 1 .. n : s[j] \in S
  BY <1>2
<1>4. SubSeq(s, 1, i - 1) \in Seq(S) /\ SubSeq(s, i + 1, n) \in Seq(S)
  BY ONLY <1>3, SubSeqProperties
<1>5. QED  BY <1>1, <1>4, ConcatProperties DEF RemoveAt

LEMMA FunctionIsSeq ==
  ASSUME NEW S, NEW n \in Nat, NEW f \in [1 .. n -> S]
  PROVE  f \in Seq(S) /\ Len(f) = n /\ DOMAIN f = 1 .. n
OBVIOUS

-----------------------------------------------------------------------------
(* Types. *)

LEMMA TurnsHere ==
  ASSUME Types
  PROVE  /\ turns \in [1 .. Len(turns) -> SaneTurn]
         /\ DOMAIN turns = 1 .. Len(turns) /\ Len(turns) \in Nat
         /\ DOMAIN turns \subseteq Ids
         /\ \A t \in DOMAIN turns : turns[t] \in Turn /\ Sane(turns[t]) /\ t \in Nat
<1>1. turns \in Seq(SaneTurn) /\ Len(turns) <= MaxTurns /\ MaxTurns \in Nat
  BY ConstantsAreSane DEF Types, TypeOK
<1>2. /\ turns \in [1 .. Len(turns) -> SaneTurn]
      /\ DOMAIN turns = 1 .. Len(turns) /\ Len(turns) \in Nat
  BY <1>1, LenProperties
<1>3. QED  BY <1>1, <1>2 DEF Ids, SaneTurn

\* One turn changes, and stays what a turn can be.
Becomes(t, x) == turns' = [turns EXCEPT ![t] = x]

LEMMA OneTurn ==
  ASSUME Types, NEW t \in DOMAIN turns, NEW x \in SaneTurn, Becomes(t, x)
  PROVE  /\ turns' \in Seq(SaneTurn) /\ turns' \in Seq(Turn)
         /\ Len(turns') = Len(turns) /\ Len(turns') <= MaxTurns
         /\ DOMAIN turns' = DOMAIN turns /\ turns'[t] = x
         /\ \A u \in DOMAIN turns : u # t => turns'[u] = turns[u]
<1>1. turns' \in [1 .. Len(turns) -> SaneTurn] /\ turns' \in [1 .. Len(turns) -> Turn]
  BY TurnsHere DEF Becomes, SaneTurn
<1>2. Len(turns) \in Nat /\ Len(turns) <= MaxTurns
  BY TurnsHere DEF Types, TypeOK
<1>3. /\ turns' \in Seq(SaneTurn) /\ turns' \in Seq(Turn) /\ Len(turns') = Len(turns)
  BY <1>1, <1>2, FunctionIsSeq
<1>4. /\ DOMAIN turns' = DOMAIN turns /\ turns'[t] = x
      /\ \A u \in DOMAIN turns : u # t => turns'[u] = turns[u]
  BY TurnsHere DEF Becomes
<1>5. QED  BY <1>2, <1>3, <1>4

\* A new turn comes last.
LEMMA OneMore ==
  ASSUME Types, NEW x \in SaneTurn, Len(turns) < MaxTurns, turns' = Append(turns, x)
  PROVE  /\ turns' \in Seq(SaneTurn) /\ turns' \in Seq(Turn)
         /\ Len(turns') = Len(turns) + 1 /\ Len(turns') <= MaxTurns
         /\ DOMAIN turns' = DOMAIN turns \cup {Len(turns) + 1}
         /\ turns'[Len(turns) + 1] = x
         /\ \A u \in DOMAIN turns : turns'[u] = turns[u]
         /\ Len(turns) + 1 \in Ids
         /\ \A u \in DOMAIN turns : u < Len(turns) + 1
<1>1. /\ turns \in Seq(SaneTurn) /\ turns \in Seq(Turn) /\ x \in Turn
      /\ Len(turns) \in Nat /\ MaxTurns \in Nat /\ DOMAIN turns = 1 .. Len(turns)
  BY TurnsHere, ConstantsAreSane DEF Types, TypeOK, SaneTurn
<1>2. /\ turns' \in Seq(SaneTurn) /\ turns' \in Seq(Turn)
      /\ Len(turns') = Len(turns) + 1 /\ turns'[Len(turns) + 1] = x
      /\ \A u \in 1 .. Len(turns) : turns'[u] = turns[u]
  BY <1>1, AppendProperties
<1>3. DOMAIN turns' = 1 .. Len(turns')
  BY <1>2, LenProperties
<1>4. DOMAIN turns' = DOMAIN turns \cup {Len(turns) + 1}
  BY <1>1, <1>2, <1>3
<1>5. QED  BY <1>1, <1>2, <1>4 DEF Ids

LEMMA FreshSane ==
  ASSUME NEW kind \in Kinds, NEW c \in Chats, NEW k \in Chats
  PROVE  /\ Fresh(kind, "bus", c, k) \in SaneTurn
         /\ \A s \in Chats :
              [Fresh("ask", "direct", c, k) EXCEPT !.sess = s, !.stage = "prep"] \in SaneTurn
<1>1. 0 \in 0 .. MaxCalls /\ 0 \in 0 .. MaxTools
  BY ConstantsAreSane
<1>2. QED  BY <1>1 DEF Fresh, SaneTurn, Sane, Turn, Kinds, Stages, Ends

LEMMA OverSane ==
  ASSUME NEW x \in SaneTurn, NEW end \in Ends \ {"none"}, ~x.due
  PROVE  /\ Over(x, end) \in SaneTurn
         /\ Over(x, end).stage = "over" /\ Over(x, end).end = end
         /\ Over(x, end).kind = x.kind /\ Over(x, end).way = x.way
         /\ Over(x, end).key = x.key /\ Over(x, end).home = x.home
         /\ Over(x, end).sess = x.sess /\ Over(x, end).told = x.told
         /\ Over(x, end).mixed = x.mixed /\ Over(x, end).due = x.due
<1>1. 0 \in 0 .. MaxCalls /\ 0 \in 0 .. MaxTools
  BY ConstantsAreSane
<1>2. x \in Turn /\ Sane(x)
  BY DEF SaneTurn
<1>3. Over(x, end) \in Turn
  BY <1>1, <1>2 DEF Over, Turn, Stages
<1>4. /\ Over(x, end).stage = "over" /\ Over(x, end).end = end
      /\ Over(x, end).kind = x.kind /\ Over(x, end).way = x.way
      /\ Over(x, end).key = x.key /\ Over(x, end).home = x.home
      /\ Over(x, end).sess = x.sess /\ Over(x, end).told = x.told
      /\ Over(x, end).mixed = x.mixed /\ Over(x, end).due = x.due
  BY <1>2 DEF Over, Turn
<1>5. Sane(Over(x, end))
  BY <1>2, <1>4 DEF Sane
<1>6. QED  BY <1>3, <1>4, <1>5 DEF SaneTurn

Settled == ctx.home \in Chats /\ ctx.sess \in Chats

Rest == /\ line \in [Chats -> Seq(Ids)]
        /\ steering \in [Chats -> [open : BOOLEAN, waiting : 0 .. MaxSteers]]
        /\ ctx \in [home : Chats \cup {NoChat}, sess : Chats \cup {NoChat}, sent : BOOLEAN]
        /\ links \in [Chats -> Chats \cup {NoChat}]
        /\ subs \in Seq(Sub) /\ Len(subs) <= MaxSubs

LEMMA TypesOfTurn ==
  ASSUME Types, NEW t \in DOMAIN turns, NEW x \in SaneTurn, Becomes(t, x),
         UNCHANGED <<inbound, halting>>, Rest',
         Settled => Settled', x.stage \in Inside => turns[t].stage \in Inside
  PROVE  Types'
<1>1. TypeOK'
  BY OneTurn DEF Types, TypeOK, Rest
<1>2. CtxSet'
  <2>1. InLoop' # {} => InLoop # {}
    BY OneTurn DEF InLoop, Inside
  <2>2. QED  BY <2>1 DEF Types, CtxSet, Settled
<1>3. QED  BY <1>1, <1>2, OneTurn DEF Types

LEMMA RestKept == ASSUME Types PROVE Rest
BY DEF Types, TypeOK, Rest

LEMMA LeaveTypes ==
  ASSUME Types, NEW t \in DOMAIN turns, Leave(t)
  PROVE  line' \in [Chats -> Seq(Ids)]
<1>1. line \in [Chats -> Seq(Ids)] /\ turns[t].key \in Chats
  BY TurnsHere DEF Types, TypeOK, Turn
<1>2. CASE line' = line
  BY <1>1, <1>2
<1>3. CASE \E i \in DOMAIN line[turns[t].key] :
             line' = [line EXCEPT ![turns[t].key] = RemoveAt(line[turns[t].key], i)]
  <2>1. PICK i \in DOMAIN line[turns[t].key] :
             line' = [line EXCEPT ![turns[t].key] = RemoveAt(line[turns[t].key], i)]
    BY <1>3
  <2>2. RemoveAt(line[turns[t].key], i) \in Seq(Ids)
    BY <1>1, RemoveIsSeq
  <2>3. QED  BY <1>1, <2>1, <2>2
<1>4. QED  BY <1>2, <1>3 DEF Leave

LEMMA ResolveTypes ==
  ASSUME Types, NEW c, NEW s, Resolve(c, s)
  PROVE  links' \in [Chats -> Chats \cup {NoChat}]
BY DEF Types, TypeOK, Resolve

LEMMA TypesTurnStarts ==
  ASSUME Types, NEW t, TurnStarts(t)
  PROVE  Types' /\ \E s \in Chats : Becomes(t, [turns[t] EXCEPT !.stage = "prep", !.sess = s])
<1>1. t \in DOMAIN turns /\ turns[t].stage = "line" /\ turns[t] \in Turn /\ Sane(turns[t])
  BY TurnsHere DEF TurnStarts, Live, AtHead
<1>2. PICK s \in Chats :
        /\ Resolve(turns[t].key, s)
        /\ turns' = [turns EXCEPT ![t].stage = "prep", ![t].sess = s]
  BY DEF TurnStarts
<1> DEFINE x == [turns[t] EXCEPT !.stage = "prep", !.sess = s]
<1>3. x \in SaneTurn /\ x.stage = "prep"
  BY <1>1 DEF SaneTurn, Sane, Turn, Stages
<1>4. Becomes(t, x)
  BY <1>1, <1>2 DEF Becomes
<1>5. Rest' /\ UNCHANGED <<inbound, halting, ctx>>
  BY <1>2, RestKept, ResolveTypes DEF TurnStarts, Rest
<1> HIDE DEF x
<1>6. Types'
  BY <1>1, <1>3, <1>4, <1>5, TypesOfTurn DEF Settled, Inside
<1>7. QED  BY <1>4, <1>6 DEF x

LEMMA TypesOverLeaving ==
  ASSUME Types, NEW t \in DOMAIN turns, NEW end \in Ends \ {"none"}, ~turns[t].due,
         Becomes(t, Over(turns[t], end)), Leave(t),
         UNCHANGED <<inbound, halting, ctx, links, subs>>,
         steering' \in [Chats -> [open : BOOLEAN, waiting : 0 .. MaxSteers]]
  PROVE  Types'
<1>1. turns[t] \in SaneTurn
  BY TurnsHere DEF SaneTurn
<1>2. Over(turns[t], end) \in SaneTurn /\ Over(turns[t], end).stage \notin Inside
  BY <1>1, OverSane DEF Inside
<1>3. Rest'
  BY RestKept, LeaveTypes DEF Rest
<1>4. QED  BY <1>2, <1>3, TypesOfTurn DEF Settled

LEMMA TypesTurnAnswersCommand ==
  ASSUME Types, NEW t, TurnAnswersCommand(t)
  PROVE  Types' /\ \E s \in Chats : Becomes(t, Over([turns[t] EXCEPT !.sess = s], "replied"))
<1>1. t \in DOMAIN turns /\ turns[t].stage = "line" /\ turns[t] \in Turn /\ Sane(turns[t])
  BY TurnsHere DEF TurnAnswersCommand, Live, AtHead
<1>2. PICK s \in Chats :
        /\ Resolve(turns[t].key, s)
        /\ turns' = [turns EXCEPT ![t] = Over([@ EXCEPT !.sess = s], "replied")]
  BY DEF TurnAnswersCommand
<1> DEFINE y == [turns[t] EXCEPT !.sess = s]
<1>3. y \in SaneTurn /\ ~y.due
  BY <1>1 DEF SaneTurn, Sane, Turn, Stages
<1>4. Becomes(t, Over(y, "replied"))
  BY <1>1, <1>2 DEF Becomes
<1>5. "replied" \in Ends \ {"none"}
  BY DEF Ends
<1> HIDE DEF y
<1>6. Over(y, "replied") \in SaneTurn /\ Over(y, "replied").stage \notin Inside
  BY <1>3, <1>5, OverSane DEF Inside
<1>7. Rest' /\ UNCHANGED <<inbound, halting, ctx>>
  BY <1>1, <1>2, RestKept, ResolveTypes, LeaveTypes DEF TurnAnswersCommand, Rest
<1>8. Types'
  BY <1>1, <1>4, <1>6, <1>7, TypesOfTurn DEF Settled
<1>9. QED  BY <1>4, <1>8 DEF y

\* A turn goes on while the others inside their loops take note of it.
Meets(t, x) ==
  turns' = [u \in DOMAIN turns |->
              CASE u = t       -> x
                [] u \in InLoop -> [turns[u] EXCEPT !.mixed = @ \cup {t}]
                [] OTHER        -> turns[u]]

LEMMA MetTurns ==
  ASSUME Types, NEW t \in DOMAIN turns, turns[t].stage = "prep", NEW x \in SaneTurn, Meets(t, x)
  PROVE  /\ turns' \in Seq(SaneTurn) /\ turns' \in Seq(Turn)
         /\ Len(turns') = Len(turns) /\ Len(turns') <= MaxTurns
         /\ DOMAIN turns' = DOMAIN turns /\ turns'[t] = x
         /\ \A u \in InLoop : /\ u # t /\ u \in DOMAIN turns
                              /\ turns'[u] = [turns[u] EXCEPT !.mixed = @ \cup {t}]
         /\ \A u \in DOMAIN turns \ InLoop : u # t => turns'[u] = turns[u]
<1>1. t \notin InLoop /\ InLoop \subseteq DOMAIN turns
  BY DEF InLoop
<1>2. /\ DOMAIN turns' = DOMAIN turns /\ turns'[t] = x
      /\ \A u \in InLoop : /\ u # t /\ u \in DOMAIN turns
                           /\ turns'[u] = [turns[u] EXCEPT !.mixed = @ \cup {t}]
      /\ \A u \in DOMAIN turns \ InLoop : u # t => turns'[u] = turns[u]
  BY <1>1 DEF Meets
<1>3. ASSUME NEW u \in DOMAIN turns PROVE turns'[u] \in SaneTurn
  <2>1. turns[u] \in Turn /\ Sane(turns[u]) /\ t \in Ids
    BY TurnsHere
  <2>2. CASE u \in InLoop
    <3>1. turns[u].stage \in {"llm", "tool"}
      BY <2>2 DEF InLoop
    <3> DEFINE y == [turns[u] EXCEPT !.mixed = @ \cup {t}]
    <3>2. y \in Turn
      BY <2>1 DEF Turn
    <3>3. Sane(y)
      BY <2>1, <3>1 DEF Turn, Sane
    <3>4. QED  BY <2>2, <1>2, <3>2, <3>3 DEF SaneTurn
  <2>3. CASE u \notin InLoop
    BY <2>1, <2>3, <1>2 DEF SaneTurn
  <2>4. QED  BY <2>2, <2>3
<1>4. turns' = [u \in DOMAIN turns |-> turns'[u]]
  BY DEF Meets
<1>5. DOMAIN turns = 1 .. Len(turns) /\ Len(turns) \in Nat /\ Len(turns) <= MaxTurns
  BY TurnsHere DEF Types, TypeOK
<1>6. turns' \in [1 .. Len(turns) -> SaneTurn] /\ turns' \in [1 .. Len(turns) -> Turn]
  BY <1>2, <1>3, <1>4, <1>5 DEF SaneTurn
<1>7. turns' \in Seq(SaneTurn) /\ turns' \in Seq(Turn) /\ Len(turns') = Len(turns)
  BY <1>5, <1>6, FunctionIsSeq
<1>8. QED  BY <1>2, <1>5, <1>7

LEMMA ContextTypes ==
  ASSUME Types, NEW t \in DOMAIN turns, SetContext(t)
  PROVE  /\ ctx' \in [home : Chats \cup {NoChat}, sess : Chats \cup {NoChat}, sent : BOOLEAN]
         /\ Settled'
         /\ ctx'.home = turns[t].home /\ ctx'.sess = turns[t].sess /\ ctx'.sent = FALSE
<1>1. turns[t].home \in Chats /\ turns[t].sess \in Chats
  BY TurnsHere DEF Turn
<1>2. QED  BY <1>1 DEF SetContext, Settled

\* What TurnEnters makes of its turn.
Entered(t) == [turns[t] EXCEPT !.stage = "llm", !.calls = 1, !.mixed = InLoop]

LEMMA TypesTurnEnters ==
  ASSUME Types, NEW t, TurnEnters(t)
  PROVE  Types' /\ Meets(t, Entered(t)) /\ Entered(t) \in SaneTurn /\ t \in DOMAIN turns
<1>1. /\ t \in DOMAIN turns /\ turns[t].stage = "prep" /\ turns[t].kind = "ask"
      /\ turns[t] \in Turn /\ Sane(turns[t]) /\ SetContext(t)
  BY TurnsHere DEF TurnEnters, Live
<1>2. Meets(t, Entered(t))
  BY <1>1 DEF TurnEnters, Meets, Entered
<1>3. 1 \in 0 .. MaxCalls /\ InLoop \subseteq Ids
  BY ConstantsAreSane, TurnsHere DEF InLoop
<1>4. Entered(t) \in Turn
  BY <1>1, <1>3 DEF Turn, Entered, Stages
<1>5. Sane(Entered(t))
  BY <1>1, <1>3 DEF Turn, Sane, Entered
<1>6. Entered(t) \in SaneTurn
  BY <1>4, <1>5 DEF SaneTurn
<1>7. steering' \in [Chats -> [open : BOOLEAN, waiting : 0 .. MaxSteers]]
  <2>1. steering \in [Chats -> [open : BOOLEAN, waiting : 0 .. MaxSteers]]
    BY DEF Types, TypeOK
  <2>2. Queue(0) \in [open : BOOLEAN, waiting : 0 .. MaxSteers]
    BY ConstantsAreSane DEF Queue
  <2>3. steering' = [steering EXCEPT ![turns[t].sess] = Queue(0)]
    BY DEF TurnEnters
  <2>4. QED  BY <2>1, <2>2, <2>3
<1>8. TypeOK'
  <2>1. UNCHANGED <<inbound, halting, line, links, subs>>
    BY DEF TurnEnters
  <2>2. QED  BY <2>1, <1>1, <1>2, <1>6, <1>7, MetTurns, ContextTypes DEF Types, TypeOK
<1>9. CtxSet'
  BY <1>1, ContextTypes DEF CtxSet, Settled
<1>10. QED  BY <1>1, <1>2, <1>6, <1>8, <1>9, MetTurns DEF Types

Shortly(t) == Over(turns[t], IF turns[t].kind = "note" THEN "noted" ELSE "replied")

LEMMA TypesTurnIsShort ==
  ASSUME Types, NEW t, TurnIsShort(t)
  PROVE  Types' /\ Meets(t, Shortly(t)) /\ Shortly(t) \in SaneTurn /\ t \in DOMAIN turns
<1>1. /\ t \in DOMAIN turns /\ turns[t].stage = "prep" /\ turns[t] \in SaneTurn
      /\ Sane(turns[t]) /\ SetContext(t) /\ Leave(t)
  BY TurnsHere DEF TurnIsShort, Live, SaneTurn
<1>2. Meets(t, Shortly(t))
  BY <1>1 DEF TurnIsShort, Meets, Shortly
<1>3. Shortly(t) \in SaneTurn
  <2>1. /\ "noted" \in Ends \ {"none"} /\ "replied" \in Ends \ {"none"}
        /\ ~turns[t].due
    BY <1>1 DEF Ends, Sane
  <2>2. QED  BY <2>1, <1>1, OverSane DEF Shortly
<1>4. TypeOK'
  <2>1. UNCHANGED <<inbound, halting, steering, links, subs>>
    BY DEF TurnIsShort
  <2>2. QED  BY <2>1, <1>1, <1>2, <1>3, MetTurns, ContextTypes, LeaveTypes DEF Types, TypeOK
<1>5. CtxSet'
  BY <1>1, ContextTypes DEF CtxSet, Settled
<1>6. QED  BY <1>1, <1>2, <1>3, <1>4, <1>5, MetTurns DEF Types

Quietly == UNCHANGED <<inbound, halting, line, steering, ctx, links, subs>>

\* Steps of a turn inside its loop, and of its tools: which turn they make.
CallsTool(t) == [turns[t] EXCEPT !.stage = "tool", !.tools = @ + 1, !.due = TRUE]
CallsNext(t) == [turns[t] EXCEPT !.stage = "llm", !.calls = @ + 1]
Done(t)      == [turns[t] EXCEPT !.due = FALSE]
Told(t, c)   == [turns[t] EXCEPT !.due = FALSE, !.told = @ \/ c = turns[t].home]

LEMMA TypesTool ==
  ASSUME Types, NEW t, LlmCallsTools(t) \/ NextTool(t)
  PROVE  /\ Types' /\ t \in DOMAIN turns /\ CallsTool(t) \in SaneTurn
         /\ turns[t].stage \in Inside /\ Becomes(t, CallsTool(t))
<1>1. /\ t \in DOMAIN turns /\ turns[t].stage \in Inside /\ turns[t].tools < MaxTools
      /\ turns[t] \in Turn /\ Sane(turns[t])
  BY TurnsHere DEF LlmCallsTools, NextTool, ToolReturned, Live, Inside
<1>2. turns[t].tools + 1 \in 0 .. MaxTools
  BY <1>1, ConstantsAreSane DEF Turn
<1>3. CallsTool(t) \in Turn
  BY <1>1, <1>2 DEF Turn, CallsTool, Stages
<1>4. CallsTool(t) \in SaneTurn
  BY <1>1, <1>3 DEF SaneTurn, Sane, CallsTool, Turn, Inside
<1>5. Becomes(t, CallsTool(t))
  <2>1. CASE LlmCallsTools(t)
    BY <2>1, <1>1 DEF LlmCallsTools, Becomes, CallsTool
  <2>2. CASE NextTool(t)
    <3>1. turns[t].stage = "tool"
      BY <2>2 DEF NextTool, ToolReturned
    <3>2. [turns[t] EXCEPT !.tools = @ + 1, !.due = TRUE] = CallsTool(t)
      BY <3>1, <1>1 DEF CallsTool, Turn
    <3>3. turns' = [turns EXCEPT ![t] = [turns[t] EXCEPT !.tools = @ + 1, !.due = TRUE]]
      BY <2>2, <1>1 DEF NextTool
    <3>4. QED  BY <3>2, <3>3 DEF Becomes
  <2>3. QED  BY <2>1, <2>2
<1>6. Quietly
  BY DEF LlmCallsTools, NextTool, Quietly
<1>7. Rest' /\ (Settled => Settled')
  BY <1>6, RestKept DEF Rest, Settled, Quietly
<1>8. Types'
  BY <1>1, <1>4, <1>5, <1>6, <1>7, TypesOfTurn DEF Quietly
<1>9. QED  BY <1>1, <1>4, <1>5, <1>8

LEMMA TypesNextCall ==
  ASSUME Types, NEW t, NextCall(t)
  PROVE  /\ Types' /\ t \in DOMAIN turns /\ CallsNext(t) \in SaneTurn
         /\ turns[t].stage \in Inside /\ Becomes(t, CallsNext(t))
<1>1. /\ t \in DOMAIN turns /\ turns[t].stage = "tool" /\ turns[t].calls < MaxCalls
      /\ turns[t] \in Turn /\ Sane(turns[t]) /\ ~turns[t].due
  BY TurnsHere DEF NextCall, ToolReturned, Live
<1>2. turns[t].calls + 1 \in 0 .. MaxCalls
  BY <1>1, ConstantsAreSane DEF Turn
<1>3. CallsNext(t) \in Turn
  BY <1>1, <1>2 DEF Turn, CallsNext, Stages
<1>4. CallsNext(t) \in SaneTurn
  BY <1>1, <1>3 DEF SaneTurn, Sane, CallsNext, Turn
<1>5. Becomes(t, CallsNext(t))
  BY <1>1 DEF NextCall, Becomes, CallsNext
<1>6. steering' \in [Chats -> [open : BOOLEAN, waiting : 0 .. MaxSteers]]
  <2>1. /\ steering \in [Chats -> [open : BOOLEAN, waiting : 0 .. MaxSteers]]
        /\ 0 \in 0 .. MaxSteers
    BY ConstantsAreSane DEF Types, TypeOK
  <2>2. steering' = [steering EXCEPT ![turns[t].sess].waiting = 0]
    BY DEF NextCall
  <2>3. QED  BY <2>1, <2>2
<1>7. Rest' /\ UNCHANGED <<inbound, halting>> /\ (Settled => Settled')
  BY <1>6, RestKept DEF Rest, Settled, NextCall
<1>8. Types'
  BY <1>1, <1>4, <1>5, <1>7, TypesOfTurn DEF Inside
<1>9. QED  BY <1>1, <1>4, <1>5, <1>8 DEF Inside

LEMMA NoQueueTypes ==
  ASSUME Types, NEW c
  PROVE  [steering EXCEPT ![c] = NoQueue] \in [Chats -> [open : BOOLEAN, waiting : 0 .. MaxSteers]]
<1>1. /\ steering \in [Chats -> [open : BOOLEAN, waiting : 0 .. MaxSteers]]
      /\ NoQueue \in [open : BOOLEAN, waiting : 0 .. MaxSteers]
  BY ConstantsAreSane DEF Types, TypeOK, NoQueue
<1>2. QED  BY <1>1

\* A turn ends by its answer, ...
LEMMA TypesAnswer ==
  ASSUME Types, NEW t, TurnAnswers(t) \/ WallTimeout(t)
  PROVE  /\ Types' /\ t \in DOMAIN turns /\ turns[t].stage \in Inside /\ ~turns[t].due
         /\ Becomes(t, Over(turns[t], IF ctx.sent THEN "quiet" ELSE "replied"))
<1>1. /\ t \in DOMAIN turns /\ turns[t].stage \in Inside /\ ~turns[t].due /\ Answer(t)
  BY TurnsHere DEF TurnAnswers, WallTimeout, ToolReturned, Live, Inside, Sane
<1> DEFINE end == IF ctx.sent THEN "quiet" ELSE "replied"
<1>2. end \in Ends \ {"none"}
  BY DEF Ends
<1>3. Becomes(t, Over(turns[t], end)) /\ Leave(t)
  BY <1>1 DEF Answer, Becomes
<1>4. /\ UNCHANGED <<inbound, halting, ctx, links, subs>>
      /\ steering' = [steering EXCEPT ![turns[t].sess] = NoQueue]
  BY DEF TurnAnswers, WallTimeout
<1> HIDE DEF end
<1>5. Types'
  BY <1>1, <1>2, <1>3, <1>4, TypesOverLeaving, NoQueueTypes
<1>6. QED  BY <1>1, <1>3, <1>5 DEF end

\* ... by an exception or by its cancellation.
LEMMA TypesEnd ==
  ASSUME Types, NEW t, NEW end, \/ TurnFails(t) /\ end = "failed"
                                \/ TurnIsCancelled(t) /\ end = "cancelled"
  PROVE  /\ Types' /\ t \in DOMAIN turns /\ turns[t].stage \in {"line", "prep", "llm", "tool"}
         /\ ~turns[t].due /\ Leave(t) /\ Becomes(t, Over(turns[t], end))
         /\ UNCHANGED <<inbound, halting, steering, ctx, links, subs>>
         /\ end = "failed" => turns[t].stage # "line"
<1>1. t \in DOMAIN turns
  BY DEF TurnFails, TurnIsCancelled, ToolReturned, Live
<1>2. turns[t] \in Turn /\ Sane(turns[t])
  BY <1>1, TurnsHere
<1>3. /\ turns[t].stage \in {"line", "prep", "llm", "tool"}
      /\ end = "failed" => turns[t].stage # "line"
      /\ ~turns[t].due
  <2>1. CASE TurnFails(t) /\ end = "failed"
    BY <2>1, <1>2 DEF TurnFails, ToolReturned, Sane
  <2>2. CASE TurnIsCancelled(t) /\ end = "cancelled"
    BY <2>2, <1>2 DEF TurnIsCancelled, Sane, Turn, Stages
  <2>3. QED  BY <2>1, <2>2
<1>4. end \in Ends \ {"none"}
  BY DEF Ends
<1>5. Becomes(t, Over(turns[t], end)) /\ Leave(t)
  BY <1>1 DEF TurnFails, TurnIsCancelled, Becomes
<1>6. UNCHANGED <<inbound, halting, steering, ctx, links, subs>>
  BY DEF TurnFails, TurnIsCancelled
<1>7. Types'
  BY <1>1, <1>3, <1>4, <1>5, <1>6, TypesOverLeaving DEF Types, TypeOK
<1>8. QED  BY <1>1, <1>3, <1>5, <1>6, <1>7

LEMMA TypesToolSends ==
  ASSUME Types, NEW t, NEW c \in Chats, ToolSendsMessage(t, c)
  PROVE  /\ Types' /\ t \in DOMAIN turns /\ turns[t].stage = "tool"
         /\ Told(t, c) \in SaneTurn /\ Becomes(t, Told(t, c))
<1>1. /\ t \in DOMAIN turns /\ turns[t].due /\ turns[t].stage = "tool"
      /\ turns[t] \in Turn /\ Sane(turns[t])
  BY TurnsHere DEF ToolSendsMessage, Due, Sane
<1>2. Told(t, c) \in Turn
  BY <1>1 DEF Told, Turn
<1>3. Told(t, c) \in SaneTurn
  BY <1>1, <1>2 DEF SaneTurn, Sane, Told, Turn
<1>4. Becomes(t, Told(t, c))
  <2>1. turns' = [turns EXCEPT ![t].due = FALSE, ![t].told = @ \/ c = turns[t].home]
    BY DEF ToolSendsMessage
  <2>2. QED  BY <2>1, <1>1 DEF Becomes, Told
<1>5. /\ Rest' /\ UNCHANGED <<inbound, halting>> /\ (Settled => Settled')
  <2>1. /\ ctx \in [home : Chats \cup {NoChat}, sess : Chats \cup {NoChat}, sent : BOOLEAN]
        /\ links \in [Chats -> Chats \cup {NoChat}]
    BY DEF Types, TypeOK
  <2>2. CASE c = ctx.home
    <3>1. ctx' = [ctx EXCEPT !.sent = TRUE] /\ links' = links
      BY <2>2 DEF ToolSendsMessage
    <3>2. /\ ctx' \in [home : Chats \cup {NoChat}, sess : Chats \cup {NoChat}, sent : BOOLEAN]
          /\ ctx'.home = ctx.home /\ ctx'.sess = ctx.sess
      BY <3>1, <2>1
    <3>3. QED  BY <3>1, <3>2, RestKept DEF ToolSendsMessage, Rest, Settled
  <2>3. CASE c # ctx.home
    <3>1. ctx' = ctx /\ links' = [links EXCEPT ![c] = ctx.home]
      BY <2>3 DEF ToolSendsMessage
    <3>2. links' \in [Chats -> Chats \cup {NoChat}]
      BY <3>1, <2>1
    <3>3. QED  BY <3>1, <3>2, RestKept DEF ToolSendsMessage, Rest, Settled
  <2>4. QED  BY <2>2, <2>3
<1>6. turns[t].stage \in Inside
  BY <1>1 DEF Inside
<1>7. Types'
  BY <1>1, <1>3, <1>4, <1>5, <1>6, TypesOfTurn
<1>8. QED  BY <1>1, <1>3, <1>4, <1>7

LEMMA TypesToolEnds ==
  ASSUME Types, NEW t, ToolSpawns(t) \/ ToolReturns(t)
  PROVE  /\ Types' /\ t \in DOMAIN turns /\ turns[t].stage = "tool"
         /\ Done(t) \in SaneTurn /\ Becomes(t, Done(t))
<1>1. /\ t \in DOMAIN turns /\ turns[t].due /\ turns[t].stage = "tool" /\ t \in Ids
      /\ turns[t] \in Turn /\ Sane(turns[t])
  BY TurnsHere DEF ToolSpawns, ToolReturns, Due, Sane
<1>2. Done(t) \in SaneTurn
  BY <1>1 DEF Done, Turn, SaneTurn, Sane
<1>3. Becomes(t, Done(t))
  BY <1>1 DEF Becomes, Done, ToolSpawns, ToolReturns
<1>4. turns[t].stage \in Inside
  BY <1>1 DEF Inside
<1>5. Settled
  BY <1>1 DEF Types, CtxSet, InLoop, Settled
<1>6. subs' \in Seq(Sub) /\ Len(subs') <= MaxSubs
  <2>1. subs \in Seq(Sub) /\ Len(subs) <= MaxSubs /\ MaxSubs \in Nat
    BY ConstantsAreSane DEF Types, TypeOK
  <2>2. CASE ToolReturns(t)
    BY <2>1, <2>2 DEF ToolReturns
  <2>3. CASE ToolSpawns(t)
    <3>1. [by |-> t, home |-> ctx.home, sess |-> ctx.sess, running |-> TRUE] \in Sub
      BY <1>1, <1>5 DEF Sub, Settled
    <3>2. /\ Len(subs) < MaxSubs
          /\ subs' = Append(subs, [by |-> t, home |-> ctx.home, sess |-> ctx.sess,
                                   running |-> TRUE])
      BY <2>3 DEF ToolSpawns
    <3>3. QED  BY <3>1, <3>2, <2>1, AppendProperties
  <2>4. QED  BY <2>2, <2>3
<1>7. Rest' /\ UNCHANGED <<inbound, halting>> /\ (Settled => Settled')
  BY <1>6, RestKept DEF ToolSpawns, ToolReturns, Rest, Settled
<1>8. Types'
  BY <1>1, <1>2, <1>3, <1>4, <1>7, TypesOfTurn
<1>9. QED  BY <1>1, <1>2, <1>3, <1>8

\* A message is queued.
LEMMA TypesPost ==
  ASSUME Types, NEW kind \in Kinds, NEW c \in Chats, NEW k \in Chats, Post(kind, c, k),
         UNCHANGED <<halting, line, steering, ctx, links>>,
         subs' \in Seq(Sub), Len(subs') <= MaxSubs
  PROVE  Types'
<1>1. /\ Len(turns) < MaxTurns /\ turns' = Append(turns, Fresh(kind, "bus", c, k))
      /\ inbound' = Append(inbound, Len(turns) + 1)
      /\ Fresh(kind, "bus", c, k) \in SaneTurn
  BY FreshSane DEF Post
<1>2. inbound' \in Seq(Ids)
  BY <1>1, OneMore, AppendProperties DEF Types, TypeOK
<1>3. TypeOK'
  BY <1>1, <1>2, OneMore DEF Types, TypeOK
<1>4. InLoop' = InLoop
  <2>1. Fresh(kind, "bus", c, k).stage = "inbound"
    BY DEF Fresh
  <2>2. QED  BY <1>1, <2>1, OneMore DEF InLoop
<1>5. CtxSet'
  BY <1>4 DEF Types, CtxSet
<1>6. QED  BY <1>1, <1>3, <1>5, OneMore DEF Types

LEMMA TypesDirect ==
  ASSUME Types, NEW c \in Chats, NEW k \in Chats, Direct(c, k)
  PROVE  /\ Types'
         /\ \E s \in Chats :
              /\ turns' = Append(turns, [Fresh("ask", "direct", c, k)
                                           EXCEPT !.sess = s, !.stage = "prep"])
              /\ [Fresh("ask", "direct", c, k) EXCEPT !.sess = s, !.stage = "prep"] \in SaneTurn
<1>1. PICK s \in Chats :
        /\ Resolve(k, s)
        /\ turns' = Append(turns, [Fresh("ask", "direct", c, k)
                                     EXCEPT !.sess = s, !.stage = "prep"])
  BY DEF Direct
<1> DEFINE x == [Fresh("ask", "direct", c, k) EXCEPT !.sess = s, !.stage = "prep"]
<1>2. x \in SaneTurn /\ x.stage = "prep"
  <2>1. "ask" \in Kinds
    BY DEF Kinds
  <2>2. x \in SaneTurn
    BY <2>1, FreshSane
  <2>3. x.stage = "prep"
    BY DEF Fresh
  <2>4. QED  BY <2>2, <2>3
<1>3. turns' = Append(turns, x) /\ Len(turns) < MaxTurns
  BY <1>1 DEF Direct
<1> HIDE DEF x
<1>4. TypeOK'
  <2>1. links' \in [Chats -> Chats \cup {NoChat}]
    BY <1>1, ResolveTypes
  <2>2. UNCHANGED <<inbound, halting, line, steering, ctx, subs>>
    BY DEF Direct
  <2>3. QED  BY <2>1, <2>2, <1>2, <1>3, OneMore DEF Types, TypeOK
<1>5. InLoop' = InLoop /\ ctx' = ctx
  BY <1>2, <1>3, OneMore DEF InLoop, Direct
<1>6. CtxSet'
  BY <1>5 DEF Types, CtxSet
<1>7. Types'
  BY <1>2, <1>3, <1>4, <1>6, OneMore DEF Types
<1>8. QED  BY <1>1, <1>2, <1>7 DEF x

LEMMA TypesSteer ==
  ASSUME Types, NEW c \in Chats, Steer(c)
  PROVE  Types'
<1>1. /\ steering \in [Chats -> [open : BOOLEAN, waiting : 0 .. MaxSteers]]
      /\ steering[c].waiting < MaxSteers /\ MaxSteers \in Nat
      /\ steering' = [steering EXCEPT ![c].waiting = @ + 1]
  BY ConstantsAreSane DEF Types, TypeOK, Steer
<1>2. [steering[c] EXCEPT !.waiting = @ + 1] \in [open : BOOLEAN, waiting : 0 .. MaxSteers]
  BY <1>1
<1>3. steering' \in [Chats -> [open : BOOLEAN, waiting : 0 .. MaxSteers]]
  BY <1>1, <1>2
<1>4. QED  BY <1>3 DEF Steer, Types, TypeOK, CtxSet, InLoop

Doomed(t) == [turns[t] EXCEPT !.doomed = TRUE]

LEMMA TypesCancelDirect ==
  ASSUME Types, NEW t \in DOMAIN turns, CancelDirect(t)
  PROVE  Types' /\ Doomed(t) \in SaneTurn /\ Becomes(t, Doomed(t))
<1>1. turns[t] \in Turn /\ Sane(turns[t]) /\ turns[t].way = "direct"
  BY TurnsHere DEF CancelDirect
<1>2. Doomed(t) \in SaneTurn
  BY <1>1 DEF Doomed, Turn, SaneTurn, Sane
<1>3. Becomes(t, Doomed(t))
  BY DEF Becomes, Doomed, CancelDirect
<1>4. Doomed(t).stage = turns[t].stage
  BY <1>1 DEF Doomed, Turn
<1>5. Rest' /\ UNCHANGED <<inbound, halting>> /\ (Settled => Settled')
  BY RestKept DEF CancelDirect, Rest, Settled
<1>6. Types'
  BY <1>2, <1>3, <1>4, <1>5, TypesOfTurn
<1>7. QED  BY <1>2, <1>3, <1>6

\* The subagents keep who started them and for which session.
SameSubs ==
  /\ DOMAIN subs' = DOMAIN subs /\ subs' \in Seq(Sub) /\ Len(subs') <= MaxSubs
  /\ \A i \in DOMAIN subs :
       /\ subs'[i].by = subs[i].by /\ subs'[i].sess = subs[i].sess
       /\ subs'[i].running => subs[i].running

LEMMA SubsHere ==
  ASSUME Types
  PROVE  /\ subs \in [1 .. Len(subs) -> Sub] /\ DOMAIN subs = 1 .. Len(subs)
         /\ Len(subs) \in Nat /\ Len(subs) <= MaxSubs
         /\ \A i \in DOMAIN subs : subs[i] \in Sub
<1>1. subs \in Seq(Sub) /\ Len(subs) <= MaxSubs
  BY DEF Types, TypeOK
<1>2. QED  BY <1>1, LenProperties

LEMMA SubsCancelled ==
  ASSUME Types, NEW k, subs' = Cancelled(k)
  PROVE  SameSubs /\ \A i \in DOMAIN subs : subs[i].sess = k => ~subs'[i].running
<1>1. DOMAIN subs' = DOMAIN subs
  BY DEF Cancelled
<1>2. ASSUME NEW i \in DOMAIN subs
      PROVE  /\ subs'[i] \in Sub
             /\ subs'[i].by = subs[i].by /\ subs'[i].sess = subs[i].sess
             /\ subs'[i].running => subs[i].running
             /\ subs[i].sess = k => ~subs'[i].running
  <2>1. subs[i] \in Sub
    BY SubsHere
  <2>2. subs'[i] = IF subs[i].sess = k THEN [subs[i] EXCEPT !.running = FALSE] ELSE subs[i]
    BY DEF Cancelled
  <2>3. QED  BY <2>1, <2>2 DEF Sub
<1>3. subs' = [i \in DOMAIN subs |-> subs'[i]]
  BY DEF Cancelled
<1>4. subs' \in [1 .. Len(subs) -> Sub]
  BY <1>2, <1>3, SubsHere
<1>5. subs' \in Seq(Sub) /\ Len(subs') = Len(subs)
  BY <1>4, SubsHere, FunctionIsSeq
<1>6. QED  BY <1>1, <1>2, <1>5, SubsHere DEF SameSubs

LEMMA SubsEnd ==
  ASSUME Types, NEW i, SubEnds(i)
  PROVE  SameSubs /\ i \in DOMAIN subs /\ subs[i] \in Sub
<1>1. i \in DOMAIN subs /\ subs[i] \in Sub /\ subs' = [subs EXCEPT ![i].running = FALSE]
  BY SubsHere DEF SubEnds
<1>2. subs' \in [1 .. Len(subs) -> Sub]
  BY <1>1, SubsHere DEF Sub
<1>3. subs' \in Seq(Sub) /\ Len(subs') = Len(subs)
  BY <1>2, SubsHere, FunctionIsSeq
<1>4. \A j \in DOMAIN subs :
        /\ subs'[j].by = subs[j].by /\ subs'[j].sess = subs[j].sess
        /\ subs'[j].running => subs[j].running
  BY <1>1, SubsHere DEF Sub
<1>5. QED  BY <1>1, <1>2, <1>3, <1>4, SubsHere DEF SameSubs

\* Of a subagent's end the bus learns by a message or not at all.
Silent == UNCHANGED <<turns, inbound>>

LEMMA TypesSubEnds ==
  ASSUME Types, NEW i, SubEnds(i)
  PROVE  /\ Types'
         /\ Silent \/ \E c \in Chats, k \in Chats : Post("ask", c, k)
<1>1. /\ SameSubs /\ subs[i].home \in Chats /\ subs[i].sess \in Chats /\ "ask" \in Kinds
      /\ UNCHANGED <<halting, line, steering, ctx, links>>
  BY SubsEnd DEF Sub, Kinds, SubEnds
<1>2. CASE Post("ask", subs[i].home, subs[i].sess)
  BY <1>1, <1>2, TypesPost DEF SameSubs
<1>3. CASE Silent
  BY <1>1, <1>3 DEF Types, TypeOK, CtxSet, InLoop, SameSubs, Silent
<1>4. QED  BY <1>1, <1>2, <1>3 DEF SubEnds, Announced, Silent

LEMMA IdsAreNumbers == ASSUME NEW s \in Seq(Ids) PROVE s \in Seq(Nat)
<1>1. s \in [1 .. Len(s) -> Ids] /\ Len(s) \in Nat
  BY LenProperties
<1>2. s \in [1 .. Len(s) -> Nat]
  BY <1>1 DEF Ids
<1>3. QED  BY <1>1, <1>2, FunctionIsSeq

\* The loop's two steps need to know where the turns are.
LEMMA QueuedHere ==
  ASSUME Types, Queues, inbound # <<>>
  PROVE  /\ Head(inbound) \in DOMAIN turns /\ turns[Head(inbound)].stage = "inbound"
         /\ Head(inbound) # halting /\ Head(inbound) \in ToSet(inbound)
         /\ Tail(inbound) \in Seq(Ids) /\ Ordered(Tail(inbound))
         /\ ToSet(Tail(inbound)) = ToSet(inbound) \ {Head(inbound)}
         /\ \A u \in ToSet(inbound) : u # Head(inbound) => Head(inbound) < u
<1>1. inbound \in Seq(Ids)
  BY DEF Types, TypeOK
<1>2. inbound \in Seq(Nat) /\ Tail(inbound) \in Seq(Ids)
  BY <1>1, IdsAreNumbers, HeadTailProperties
<1>3. Ordered(inbound)
  BY DEF Queues, InboundHolds
<1>4. /\ Head(inbound) \in ToSet(inbound)
      /\ Ordered(Tail(inbound)) /\ ToSet(Tail(inbound)) = ToSet(inbound) \ {Head(inbound)}
      /\ \A u \in ToSet(inbound) : u # Head(inbound) => Head(inbound) < u
  BY <1>2, <1>3, HeadIsLeast
<1>5. QED  BY <1>2, <1>4 DEF Queues, InboundHolds

\* The loop makes a task of a message ...
LoopDispatches ==
  LET t == Head(inbound)
      k == turns[t].key
  IN /\ halting = 0 /\ inbound # <<>> /\ turns[t].kind # "stop"
     /\ inbound' = Tail(inbound)
     /\ turns' = [turns EXCEPT ![t].stage = "line"]
     /\ line' = [line EXCEPT ![k] = Append(@, t)]
     /\ UNCHANGED <<halting, steering, ctx, links, subs>>

\* ... or cancels the tasks of its key.
LoopStops ==
  LET t == Head(inbound)
      k == turns[t].key
  IN /\ halting = 0 /\ inbound # <<>> /\ turns[t].kind = "stop"
     /\ inbound' = Tail(inbound) /\ halting' = t
     /\ turns' = [u \in DOMAIN turns |->
                    IF u \in ToSet(line[k])
                    THEN [turns[u] EXCEPT !.doomed = TRUE] ELSE turns[u]]
     /\ UNCHANGED <<line, steering, ctx, links, subs>>

LEMMA LoopCases == LoopTakes => LoopDispatches \/ LoopStops
BY DEF LoopTakes, LoopDispatches, LoopStops

Lined(t) == [turns[t] EXCEPT !.stage = "line"]

LEMMA TypesLoopDispatches ==
  ASSUME Types, Queues, LoopDispatches
  PROVE  Types' /\ Lined(Head(inbound)) \in SaneTurn
         /\ Becomes(Head(inbound), Lined(Head(inbound)))
<1>1. PICK t : t = Head(inbound)
  OBVIOUS
<1>2. /\ t \in DOMAIN turns /\ turns[t].stage = "inbound" /\ turns[t].kind # "stop"
      /\ turns[t] \in Turn /\ Sane(turns[t]) /\ t \in Ids
      /\ inbound' = Tail(inbound) /\ inbound' \in Seq(Ids)
  BY <1>1, QueuedHere, TurnsHere DEF LoopDispatches
<1>3. Lined(t) \in SaneTurn
  BY <1>2 DEF Lined, SaneTurn, Sane, Turn, Stages
<1>4. Becomes(t, Lined(t))
  BY <1>1 DEF LoopDispatches, Becomes, Lined
<1>5. line' \in [Chats -> Seq(Ids)]
  <2>1. line \in [Chats -> Seq(Ids)] /\ turns[t].key \in Chats
    BY <1>2 DEF Types, TypeOK, Turn
  <2>2. line' = [line EXCEPT ![turns[t].key] = Append(line[turns[t].key], t)]
    BY <1>1 DEF LoopDispatches
  <2>3. Append(line[turns[t].key], t) \in Seq(Ids)
    BY <2>1, <1>2, AppendProperties
  <2>4. QED  BY <2>1, <2>2, <2>3
<1>6. TypeOK'
  BY <1>2, <1>3, <1>4, <1>5, OneTurn DEF LoopDispatches, Types, TypeOK
<1>7. CtxSet'
  <2>1. InLoop' \subseteq InLoop
    <3>1. Lined(t).stage = "line"
      BY <1>2 DEF Lined, Turn
    <3>2. QED  BY <3>1, <1>2, <1>3, <1>4, OneTurn DEF InLoop
  <2>2. ctx' = ctx
    BY DEF LoopDispatches
  <2>3. QED  BY <2>1, <2>2 DEF Types, CtxSet
<1>8. QED  BY <1>1, <1>2, <1>3, <1>4, <1>6, <1>7, OneTurn DEF Types

\* A /stop changes nothing of a turn but that its task is cancelled.
StaysAs(u) ==
  /\ u \in DOMAIN turns'
  /\ \/ turns'[u] = turns[u]
     \/ turns'[u] = [turns[u] EXCEPT !.doomed = TRUE]

LEMMA TypesLoopStops ==
  ASSUME Types, Queues, LoopStops
  PROVE  /\ Types' /\ DOMAIN turns' = DOMAIN turns
         /\ \A u \in DOMAIN turns : StaysAs(u)
<1>1. PICK t : t = Head(inbound)
  OBVIOUS
<1>2. PICK k : k = turns[t].key
  OBVIOUS
<1>3. /\ t \in DOMAIN turns /\ turns[t] \in Turn /\ t \in Ids /\ k \in Chats
      /\ inbound' = Tail(inbound) /\ inbound' \in Seq(Ids)
  BY <1>1, <1>2, QueuedHere, TurnsHere DEF LoopStops, Turn
<1>4. turns' = [u \in DOMAIN turns |->
                  IF u \in ToSet(line[k])
                  THEN [turns[u] EXCEPT !.doomed = TRUE] ELSE turns[u]]
  BY <1>1, <1>2 DEF LoopStops
<1>5. DOMAIN turns' = DOMAIN turns /\ \A u \in DOMAIN turns : StaysAs(u)
  BY <1>4 DEF StaysAs
<1>6. ASSUME NEW u \in DOMAIN turns PROVE turns'[u] \in SaneTurn /\ turns'[u].stage = turns[u].stage
  <2>1. turns[u] \in Turn /\ Sane(turns[u])
    BY TurnsHere
  <2>2. CASE u \in ToSet(line[k])
    <3>1. turns[u].stage \in AtWork
      BY <2>2, <1>3 DEF Queues, LinesHold
    <3>2. turns'[u] = [turns[u] EXCEPT !.doomed = TRUE]
      BY <2>2, <1>4
    <3>3. QED  BY <2>1, <3>1, <3>2 DEF Turn, SaneTurn, Sane, AtWork
  <2>3. CASE u \notin ToSet(line[k])
    BY <2>1, <2>3, <1>4 DEF SaneTurn
  <2>4. QED  BY <2>2, <2>3
<1>7. DOMAIN turns = 1 .. Len(turns) /\ Len(turns) \in Nat /\ Len(turns) <= MaxTurns
  BY TurnsHere DEF Types, TypeOK
<1>8. turns' \in [1 .. Len(turns) -> SaneTurn] /\ turns' \in [1 .. Len(turns) -> Turn]
  <2>1. turns' = [u \in DOMAIN turns |-> turns'[u]]
    BY <1>4
  <2>2. QED  BY <2>1, <1>6, <1>7 DEF SaneTurn
<1>9. turns' \in Seq(SaneTurn) /\ turns' \in Seq(Turn) /\ Len(turns') = Len(turns)
  BY <1>7, <1>8, FunctionIsSeq
<1>10. TypeOK'
  <2>1. halting' \in 0 .. MaxTurns
    BY <1>1, <1>3 DEF LoopStops, Ids
  <2>2. QED  BY <2>1, <1>3, <1>7, <1>9 DEF LoopStops, Types, TypeOK
<1>11. CtxSet'
  <2>1. InLoop' = InLoop /\ ctx' = ctx
    BY <1>5, <1>6 DEF InLoop, LoopStops
  <2>2. QED  BY <2>1 DEF Types, CtxSet
<1>12. QED  BY <1>5, <1>9, <1>10, <1>11 DEF Types

Halted(s) == Over(turns[s], "halted")

LEMMA TypesStopDone ==
  ASSUME Types, Queues, StopDone
  PROVE  /\ Types' /\ halting \in DOMAIN turns /\ turns[halting] \in Turn
         /\ Halted(halting) \in SaneTurn /\ Becomes(halting, Halted(halting))
         /\ SameSubs
         /\ \A i \in DOMAIN subs : subs[i].sess = turns[halting].key => ~subs'[i].running
<1>1. /\ halting \in DOMAIN turns /\ turns[halting].stage = "inbound"
      /\ turns[halting] \in Turn /\ Sane(turns[halting])
  BY TurnsHere DEF StopDone, Queues, HaltingIsStop
<1>2. Halted(halting) \in SaneTurn /\ Halted(halting).stage = "over"
  <2>1. turns[halting] \in SaneTurn /\ "halted" \in Ends \ {"none"} /\ ~turns[halting].due
    BY <1>1 DEF SaneTurn, Sane, Ends
  <2>2. QED  BY <2>1, OverSane DEF Halted
<1>3. Becomes(halting, Halted(halting))
  BY DEF StopDone, Becomes, Halted
<1>4. /\ SameSubs
      /\ \A i \in DOMAIN subs : subs[i].sess = turns[halting].key => ~subs'[i].running
  BY SubsCancelled DEF StopDone
<1>5. TypeOK'
  <2>1. halting' \in 0 .. MaxTurns
    BY ConstantsAreSane DEF StopDone
  <2>2. QED  BY <2>1, <1>1, <1>2, <1>3, <1>4, OneTurn DEF StopDone, Types, TypeOK, SameSubs
<1>6. CtxSet'
  <2>1. InLoop' \subseteq InLoop
    BY <1>1, <1>2, <1>3, OneTurn DEF InLoop
  <2>2. ctx' = ctx
    BY DEF StopDone
  <2>3. QED  BY <2>1, <2>2 DEF Types, CtxSet
<1>7. QED  BY <1>1, <1>2, <1>3, <1>4, <1>5, <1>6, OneTurn DEF Types

-----------------------------------------------------------------------------
(* Where the turns are. *)

Same(u) == /\ turns'[u].kind = turns[u].kind /\ turns'[u].way = turns[u].way
           /\ turns'[u].key = turns[u].key
Still(u) == Same(u) /\ turns'[u].stage = turns[u].stage /\ turns'[u].end = turns[u].end

\* A turn that has been taken goes on or ends, the others stay where they are;
\* only the first of a line gets past it, unless it is cancelled there.
Works(t) ==
  /\ t \in DOMAIN turns /\ turns[t].stage \in AtWork
  /\ DOMAIN turns' = DOMAIN turns
  /\ Same(t) /\ \A u \in DOMAIN turns : u # t => Still(u)
  /\ \/ turns'[t].stage \in AtWork /\ line' = line
     \/ turns'[t].stage = "over" /\ Leave(t)
  /\ turns[t].stage = "line" => AtHead(t) \/ turns'[t].end = "cancelled"
  /\ turns[t].stage # "line" => turns'[t].stage # "line"
  /\ UNCHANGED <<inbound, halting>>

\* Nothing moves.
Stands ==
  /\ DOMAIN turns' = DOMAIN turns /\ \A u \in DOMAIN turns : Still(u)
  /\ UNCHANGED <<inbound, halting, line>>

LEMMA TypesWorks ==
  ASSUME Types, NEW t, TurnSteps(t) \/ ToolSteps(t)
  PROVE  Types' /\ Works(t)
<1> DEFINE Made(x) == /\ t \in DOMAIN turns /\ x \in SaneTurn /\ Becomes(t, x)
                      /\ x.kind = turns[t].kind /\ x.way = turns[t].way
                      /\ x.key = turns[t].key /\ turns[t].stage \in AtWork
                      /\ UNCHANGED <<inbound, halting>>
<1>1. ASSUME NEW x, Made(x), x.stage \in AtWork, line' = line,
             turns[t].stage = "line" => AtHead(t),
             turns[t].stage # "line" => x.stage # "line"
      PROVE  Works(t)
  BY <1>1, OneTurn DEF Works, Same, Still
<1>2. ASSUME NEW x, Made(x), x.stage = "over", Leave(t),
             turns[t].stage = "line" => AtHead(t) \/ x.end = "cancelled"
      PROVE  Works(t)
  BY <1>2, OneTurn DEF Works, Same, Still
<1>q. ASSUME t \in DOMAIN turns PROVE turns[t] \in Turn /\ Sane(turns[t]) /\ turns[t] \in SaneTurn
  BY <1>q, TurnsHere DEF SaneTurn
<1>3. CASE TurnStarts(t)
  <2>1. PICK s \in Chats : Becomes(t, [turns[t] EXCEPT !.stage = "prep", !.sess = s])
    BY <1>3, TypesTurnStarts
  <2>2. /\ t \in DOMAIN turns /\ AtHead(t) /\ turns[t].stage = "line"
        /\ UNCHANGED <<inbound, halting, line>>
    BY <1>3 DEF TurnStarts, Live, AtHead
  <2> DEFINE x == [turns[t] EXCEPT !.stage = "prep", !.sess = s]
  <2>3. /\ x \in SaneTurn /\ x.stage = "prep" /\ x.kind = turns[t].kind
        /\ x.way = turns[t].way /\ x.key = turns[t].key
    BY <2>2, <1>q DEF SaneTurn, Sane, Turn, Stages
  <2> HIDE DEF x
  <2>4. Becomes(t, x)
    BY <2>1 DEF x
  <2>5. Made(x)
    BY <2>2, <2>3, <2>4 DEF AtWork
  <2>6. Works(t)
    BY <1>1, <2>5, <2>2, <2>3 DEF AtWork
  <2>7. QED  BY <2>6, <1>3, TypesTurnStarts
<1>4. CASE TurnAnswersCommand(t)
  <2>1. PICK s \in Chats : Becomes(t, Over([turns[t] EXCEPT !.sess = s], "replied"))
    BY <1>4, TypesTurnAnswersCommand
  <2>2. /\ t \in DOMAIN turns /\ AtHead(t) /\ turns[t].stage = "line" /\ Leave(t)
        /\ UNCHANGED <<inbound, halting>>
    BY <1>4 DEF TurnAnswersCommand, Live, AtHead
  <2> DEFINE y == [turns[t] EXCEPT !.sess = s]
             x == Over(y, "replied")
  <2>3. /\ y \in SaneTurn /\ ~y.due /\ y.kind = turns[t].kind
        /\ y.way = turns[t].way /\ y.key = turns[t].key /\ "replied" \in Ends \ {"none"}
    BY <2>2, <1>q DEF SaneTurn, Sane, Turn, Stages, Ends
  <2>4. Becomes(t, x)
    BY <2>1
  <2> HIDE DEF y
  <2>5. /\ x \in SaneTurn /\ x.stage = "over" /\ x.kind = y.kind /\ x.way = y.way
        /\ x.key = y.key
    BY <2>3, OverSane
  <2> HIDE DEF x
  <2>6. Made(x)
    BY <2>2, <2>3, <2>4, <2>5 DEF AtWork
  <2>7. Works(t)
    BY <1>2, <2>6, <2>5, <2>2
  <2>8. QED  BY <2>7, <1>4, TypesTurnAnswersCommand
<1>5. CASE TurnEnters(t)
  <2>1. /\ Types' /\ Meets(t, Entered(t)) /\ Entered(t) \in SaneTurn /\ t \in DOMAIN turns
        /\ turns[t].stage = "prep" /\ UNCHANGED <<inbound, halting, line>>
    BY <1>5, TypesTurnEnters DEF TurnEnters
  <2>2. /\ Entered(t).stage = "llm" /\ Entered(t).kind = turns[t].kind
        /\ Entered(t).way = turns[t].way /\ Entered(t).key = turns[t].key
    BY <2>1, <1>q DEF Entered, Turn
  <2>3. ASSUME NEW u \in DOMAIN turns, u # t PROVE Still(u)
    <3>1. turns'[u] = turns[u] \/ turns'[u] = [turns[u] EXCEPT !.mixed = @ \cup {t}]
      BY <2>1, <2>3, MetTurns
    <3>2. turns[u] \in Turn
      BY TurnsHere
    <3>3. QED  BY <3>1, <3>2 DEF Still, Same, Turn
  <2>4. DOMAIN turns' = DOMAIN turns /\ turns'[t] = Entered(t)
    BY <2>1, MetTurns
  <2>5. QED  BY <2>1, <2>2, <2>3, <2>4 DEF Works, Same, AtWork
<1>6. CASE TurnIsShort(t)
  <2>1. /\ Types' /\ Meets(t, Shortly(t)) /\ Shortly(t) \in SaneTurn /\ t \in DOMAIN turns
        /\ turns[t].stage = "prep" /\ Leave(t) /\ UNCHANGED <<inbound, halting>>
    BY <1>6, TypesTurnIsShort DEF TurnIsShort
  <2>2. /\ Shortly(t).stage = "over" /\ Shortly(t).kind = turns[t].kind
        /\ Shortly(t).way = turns[t].way /\ Shortly(t).key = turns[t].key
    BY <2>1, <1>q DEF Shortly, Over, Turn
  <2>3. ASSUME NEW u \in DOMAIN turns, u # t PROVE Still(u)
    <3>1. turns'[u] = turns[u] \/ turns'[u] = [turns[u] EXCEPT !.mixed = @ \cup {t}]
      BY <2>1, <2>3, MetTurns
    <3>2. turns[u] \in Turn
      BY TurnsHere
    <3>3. QED  BY <3>1, <3>2 DEF Still, Same, Turn
  <2>4. DOMAIN turns' = DOMAIN turns /\ turns'[t] = Shortly(t)
    BY <2>1, MetTurns
  <2>5. QED  BY <2>1, <2>2, <2>3, <2>4 DEF Works, Same, AtWork
<1>7. CASE LlmCallsTools(t) \/ NextTool(t)
  <2>1. /\ Types' /\ t \in DOMAIN turns /\ CallsTool(t) \in SaneTurn
        /\ turns[t].stage \in {"llm", "tool"} /\ Becomes(t, CallsTool(t))
        /\ UNCHANGED <<inbound, halting, line>>
    BY <1>7, TypesTool DEF LlmCallsTools, NextTool, Inside
  <2>2. /\ CallsTool(t).stage = "tool" /\ CallsTool(t).kind = turns[t].kind
        /\ CallsTool(t).way = turns[t].way /\ CallsTool(t).key = turns[t].key
    BY <2>1, <1>q DEF CallsTool, Turn
  <2>3. Made(CallsTool(t))
    BY <2>1, <2>2 DEF AtWork
  <2>4. QED  BY <2>1, <2>2, <2>3, <1>1 DEF AtWork
<1>8. CASE TurnAnswers(t) \/ WallTimeout(t)
  <2> DEFINE end == IF ctx.sent THEN "quiet" ELSE "replied"
             x == Over(turns[t], end)
  <2>1. /\ Types' /\ t \in DOMAIN turns /\ ~turns[t].due /\ Becomes(t, x)
        /\ turns[t].stage \in {"llm", "tool"} /\ Leave(t) /\ UNCHANGED <<inbound, halting>>
    BY <1>8, TypesAnswer DEF TurnAnswers, WallTimeout, Answer, Inside
  <2>2. end \in Ends \ {"none"}
    BY DEF Ends
  <2> HIDE DEF end
  <2>3. /\ x \in SaneTurn /\ x.stage = "over" /\ x.kind = turns[t].kind
        /\ x.way = turns[t].way /\ x.key = turns[t].key
    BY <2>1, <2>2, <1>q, OverSane
  <2> HIDE DEF x
  <2>4. Made(x)
    BY <2>1, <2>3 DEF AtWork
  <2>5. QED  BY <2>1, <2>3, <2>4, <1>2
<1>9. CASE NextCall(t)
  <2>1. /\ Types' /\ t \in DOMAIN turns /\ CallsNext(t) \in SaneTurn
        /\ turns[t].stage \in {"llm", "tool"} /\ Becomes(t, CallsNext(t))
        /\ UNCHANGED <<inbound, halting, line>>
    BY <1>9, TypesNextCall DEF NextCall, Inside
  <2>2. /\ CallsNext(t).stage = "llm" /\ CallsNext(t).kind = turns[t].kind
        /\ CallsNext(t).way = turns[t].way /\ CallsNext(t).key = turns[t].key
    BY <2>1, <1>q DEF CallsNext, Turn
  <2>3. Made(CallsNext(t))
    BY <2>1, <2>2 DEF AtWork
  <2>4. QED  BY <2>1, <2>2, <2>3, <1>1 DEF AtWork
<1>10. ASSUME NEW end, \/ TurnFails(t) /\ end = "failed"
                       \/ TurnIsCancelled(t) /\ end = "cancelled"
       PROVE  Types' /\ Works(t)
  <2>1. /\ Types' /\ t \in DOMAIN turns /\ turns[t].stage \in AtWork
        /\ ~turns[t].due /\ Leave(t) /\ Becomes(t, Over(turns[t], end))
        /\ UNCHANGED <<inbound, halting>>
        /\ end = "failed" => turns[t].stage # "line"
    BY <1>10, TypesEnd DEF AtWork
  <2>2. end \in Ends \ {"none"} /\ end \in {"failed", "cancelled"}
    BY <1>10 DEF Ends
  <2> DEFINE x == Over(turns[t], end)
  <2>3. /\ x \in SaneTurn /\ x.stage = "over" /\ x.kind = turns[t].kind
        /\ x.way = turns[t].way /\ x.key = turns[t].key /\ x.end = end
    BY <2>1, <2>2, <1>q, OverSane
  <2> HIDE DEF x
  <2>4. Made(x)
    BY <2>1, <2>3 DEF x
  <2>5. QED  BY <2>1, <2>2, <2>3, <2>4, <1>2
<1>11. ASSUME NEW c \in Chats, ToolSendsMessage(t, c) PROVE Types' /\ Works(t)
  <2>1. /\ Types' /\ t \in DOMAIN turns /\ Told(t, c) \in SaneTurn
        /\ turns[t].stage = "tool" /\ Becomes(t, Told(t, c))
        /\ UNCHANGED <<inbound, halting, line>>
    BY <1>11, TypesToolSends DEF ToolSendsMessage
  <2>2. /\ Told(t, c).stage = "tool" /\ Told(t, c).kind = turns[t].kind
        /\ Told(t, c).way = turns[t].way /\ Told(t, c).key = turns[t].key
    BY <2>1, <1>q DEF Told, Turn
  <2>3. Made(Told(t, c))
    BY <2>1, <2>2 DEF AtWork
  <2>4. QED  BY <2>1, <2>2, <2>3, <1>1 DEF AtWork
<1>12. CASE ToolSpawns(t) \/ ToolReturns(t)
  <2>1. /\ Types' /\ t \in DOMAIN turns /\ Done(t) \in SaneTurn
        /\ turns[t].stage = "tool" /\ Becomes(t, Done(t))
        /\ UNCHANGED <<inbound, halting, line>>
    BY <1>12, TypesToolEnds DEF ToolSpawns, ToolReturns
  <2>2. /\ Done(t).stage = "tool" /\ Done(t).kind = turns[t].kind
        /\ Done(t).way = turns[t].way /\ Done(t).key = turns[t].key
    BY <2>1, <1>q DEF Done, Turn
  <2>3. Made(Done(t))
    BY <2>1, <2>2 DEF AtWork
  <2>4. QED  BY <2>1, <2>2, <2>3, <1>1 DEF AtWork
<1>13. QED
  BY <1>3, <1>4, <1>5, <1>6, <1>7, <1>8, <1>9, <1>10, <1>11, <1>12 DEF TurnSteps, ToolSteps

AtWorkOf(k) == {t \in DOMAIN turns : /\ turns[t].way = "bus" /\ turns[t].key = k
                                     /\ turns[t].stage \in AtWork}
Queued == {t \in DOMAIN turns : turns[t].stage = "inbound" /\ t # halting}

LEMMA LinesHere ==
  ASSUME Types, Queues, NEW k \in Chats
  PROVE  /\ line[k] \in Seq(Ids) /\ line[k] \in Seq(Nat) /\ Ordered(line[k])
         /\ ToSet(line[k]) = AtWorkOf(k)
<1>1. line[k] \in Seq(Ids)
  BY DEF Types, TypeOK
<1>2. QED  BY <1>1, IdsAreNumbers DEF Queues, LinesHold, AtWorkOf

\* Leaving takes a turn out of its line, if it is in one, and no other.
LEMMA LeaveLines ==
  ASSUME Types, Queues, NEW t \in DOMAIN turns, Leave(t)
  PROVE  \A k \in Chats : Ordered(line'[k]) /\ ToSet(line'[k]) = AtWorkOf(k) \ {t}
<1>1. line \in [Chats -> Seq(Ids)] /\ turns[t].key \in Chats
  BY TurnsHere DEF Types, TypeOK, Turn
<1> TAKE k \in Chats
<1>2. /\ line[k] \in Seq(Nat) /\ Ordered(line[k]) /\ ToSet(line[k]) = AtWorkOf(k)
  BY LinesHere
<1>3. CASE t \notin ToSet(line[turns[t].key]) /\ line' = line
  <2>1. t \notin AtWorkOf(k)
    BY <1>1, <1>2, <1>3, LinesHere DEF AtWorkOf
  <2>2. QED  BY <2>1, <1>2, <1>3
<1>4. CASE \E i \in DOMAIN line[turns[t].key] :
             /\ line[turns[t].key][i] = t
             /\ line' = [line EXCEPT ![turns[t].key] = RemoveAt(line[turns[t].key], i)]
  <2>1. PICK i \in DOMAIN line[turns[t].key] :
             /\ line[turns[t].key][i] = t
             /\ line' = [line EXCEPT ![turns[t].key] = RemoveAt(line[turns[t].key], i)]
    BY <1>4
  <2>2. CASE k = turns[t].key
    <3>1. line'[k] = RemoveAt(line[k], i) /\ i \in DOMAIN line[k] /\ line[k][i] = t
      BY <2>1, <2>2, <1>1
    <3>2. QED  BY <3>1, <1>2, RemoveOrdered
  <2>3. CASE k # turns[t].key
    <3>1. line'[k] = line[k]
      BY <2>1, <2>3, <1>1
    <3>2. t \notin AtWorkOf(k)
      BY <2>3 DEF AtWorkOf
    <3>3. QED  BY <3>1, <3>2, <1>2
  <2>4. QED  BY <2>2, <2>3
<1>5. QED  BY <1>3, <1>4 DEF Leave

LEMMA QueuesWorks ==
  ASSUME Types, Queues, NEW t, Works(t)
  PROVE  Queues'
<1>1. /\ t \in DOMAIN turns /\ DOMAIN turns' = DOMAIN turns
      /\ inbound' = inbound /\ halting' = halting
      /\ \A u \in DOMAIN turns : Same(u)
      /\ \A u \in DOMAIN turns : u # t => Still(u)
      /\ turns[t].stage \in AtWork /\ turns'[t].stage \in AtWork \cup {"over"}
  BY DEF Works, Still
<1>2. InboundHolds'
  <2>1. \A u \in DOMAIN turns : turns'[u].stage = "inbound" <=> turns[u].stage = "inbound"
    BY <1>1 DEF Still, AtWork
  <2>2. {u \in DOMAIN turns' : turns'[u].stage = "inbound" /\ u # halting'} = Queued
    BY <1>1, <2>1 DEF Queued
  <2>3. QED  BY <1>1, <2>2 DEF Queues, InboundHolds, Queued
<1>3. HaltingIsStop'
  <2>1. halting # 0 => halting # t
    BY <1>1 DEF Queues, HaltingIsStop, AtWork
  <2>2. QED  BY <1>1, <2>1 DEF Queues, HaltingIsStop, Still, Same
<1>4. TakenInOrder'
  BY <1>1 DEF Queues, TakenInOrder, Same
<1>5. LinesHold'
  <2> SUFFICES ASSUME NEW k \in Chats PROVE Ordered(line'[k]) /\ ToSet(line'[k]) = AtWorkOf(k)'
    BY DEF LinesHold, AtWorkOf
  <2>1. Ordered(line[k]) /\ ToSet(line[k]) = AtWorkOf(k)
    BY LinesHere
  <2>2. CASE turns'[t].stage \in AtWork /\ line' = line
    <3>1. AtWorkOf(k)' = AtWorkOf(k)
      <4>1. \A u \in DOMAIN turns : turns'[u].stage \in AtWork <=> turns[u].stage \in AtWork
        BY <1>1, <2>2 DEF Still
      <4>2. QED  BY <4>1, <1>1 DEF AtWorkOf, Same
    <3>2. QED  BY <3>1, <2>1, <2>2
  <2>3. CASE turns'[t].stage = "over" /\ Leave(t)
    <3>1. AtWorkOf(k)' = AtWorkOf(k) \ {t}
      <4>1. \A u \in DOMAIN turns :
              turns'[u].stage \in AtWork <=> turns[u].stage \in AtWork /\ u # t
        BY <1>1, <2>3 DEF Still, AtWork
      <4>2. QED  BY <4>1, <1>1 DEF AtWorkOf, Same
    <3>2. QED  BY <3>1, <2>3, <1>1, LeaveLines
  <2>4. QED  BY <2>2, <2>3 DEF Works
<1>6. QED  BY <1>2, <1>3, <1>4, <1>5 DEF Queues

LEMMA QueuesStands ==
  ASSUME Types, Queues, Stands
  PROVE  Queues'
<1>1. /\ DOMAIN turns' = DOMAIN turns /\ \A u \in DOMAIN turns : Still(u)
      /\ inbound' = inbound /\ halting' = halting /\ line' = line
  BY DEF Stands
<1>2. Queued' = Queued /\ \A k \in Chats : AtWorkOf(k)' = AtWorkOf(k)
  BY <1>1 DEF Queued, AtWorkOf, Still, Same
<1>3. InboundHolds' /\ LinesHold'
  BY <1>1, <1>2 DEF Queues, InboundHolds, LinesHold, Queued, AtWorkOf
<1>4. HaltingIsStop' /\ TakenInOrder'
  BY <1>1 DEF Queues, HaltingIsStop, TakenInOrder, Still, Same
<1>5. QED  BY <1>3, <1>4 DEF Queues

\* A new turn: a message at the end of the queue, or a direct call.
LEMMA QueuesPost ==
  ASSUME Types, Queues, NEW kind \in Kinds, NEW c \in Chats, NEW k \in Chats,
         Post(kind, c, k), UNCHANGED <<halting, line>>
  PROVE  Queues'
<1> DEFINE n == Len(turns) + 1
           x == Fresh(kind, "bus", c, k)
<1>1. /\ x \in SaneTurn /\ x.stage = "inbound" /\ x.way = "bus"
  BY FreshSane DEF Fresh
<1>2. turns' = Append(turns, x) /\ inbound' = Append(inbound, n) /\ Len(turns) < MaxTurns
  BY DEF Post
<1> HIDE DEF x
<1>3. /\ DOMAIN turns' = DOMAIN turns \cup {n} /\ turns'[n] = x
      /\ \A u \in DOMAIN turns : turns'[u] = turns[u]
      /\ \A u \in DOMAIN turns : u < n
      /\ n \in Nat
  BY <1>1, <1>2, OneMore, TurnsHere
<1>4. n \notin DOMAIN turns
  BY TurnsHere
<1>5. /\ inbound \in Seq(Nat) /\ Ordered(inbound) /\ ToSet(inbound) = Queued
  BY IdsAreNumbers DEF Types, TypeOK, Queues, InboundHolds, Queued
<1>6. Queued \subseteq DOMAIN turns
  BY DEF Queued
<1> HIDE DEF n
<1>7. Ordered(inbound') /\ ToSet(inbound') = Queued \cup {n}
  <2>1. \A u \in ToSet(inbound) : u < n
    BY <1>3, <1>5, <1>6
  <2>2. QED  BY <2>1, <1>2, <1>3, <1>5, AppendOrdered
<1>8. n # halting
  BY <1>3, <1>4, ConstantsAreSane DEF n, Types, TypeOK, Queues, HaltingIsStop, Ids
<1>9. Queued' = Queued \cup {n}
  BY <1>1, <1>3, <1>4, <1>8 DEF Queued
<1>10. \A j \in Chats : AtWorkOf(j)' = AtWorkOf(j)
  BY <1>1, <1>3, <1>4 DEF AtWorkOf, AtWork
<1>11. InboundHolds' /\ LinesHold'
  BY <1>7, <1>9, <1>10 DEF InboundHolds, Queued, LinesHold, Queues, AtWorkOf
<1>12. HaltingIsStop'
  BY <1>3 DEF HaltingIsStop, Queues
<1>13. TakenInOrder'
  <2> SUFFICES ASSUME NEW t \in DOMAIN turns', NEW u \in ToSet(inbound'),
                      turns'[t].way = "bus", t \notin ToSet(inbound')
               PROVE  t < u
    BY DEF TakenInOrder
  <2>1. t \in DOMAIN turns /\ t \notin ToSet(inbound) /\ turns[t].way = "bus"
    BY <1>3, <1>5, <1>7
  <2>2. CASE u = n
    BY <2>1, <2>2, <1>3
  <2>3. CASE u \in ToSet(inbound)
    BY <2>1, <2>3 DEF Queues, TakenInOrder
  <2>4. QED  BY <2>2, <2>3, <1>5, <1>7
<1>14. QED  BY <1>11, <1>12, <1>13 DEF Queues

LEMMA QueuesDirect ==
  ASSUME Types, Queues, NEW c \in Chats, NEW k \in Chats, Direct(c, k)
  PROVE  Queues'
<1> DEFINE n == Len(turns) + 1
<1>1. PICK s \in Chats :
        /\ turns' = Append(turns, [Fresh("ask", "direct", c, k)
                                     EXCEPT !.sess = s, !.stage = "prep"])
        /\ [Fresh("ask", "direct", c, k) EXCEPT !.sess = s, !.stage = "prep"] \in SaneTurn
  BY TypesDirect
<1> DEFINE x == [Fresh("ask", "direct", c, k) EXCEPT !.sess = s, !.stage = "prep"]
<1>2. /\ x \in SaneTurn /\ x.stage = "prep" /\ x.way = "direct"
  BY <1>1 DEF Fresh
<1>3. /\ turns' = Append(turns, x) /\ Len(turns) < MaxTurns
      /\ UNCHANGED <<inbound, halting, line>>
  BY <1>1 DEF Direct
<1> HIDE DEF x
<1>4. /\ DOMAIN turns' = DOMAIN turns \cup {n} /\ turns'[n] = x
      /\ \A u \in DOMAIN turns : turns'[u] = turns[u]
      /\ n \notin DOMAIN turns
  BY <1>2, <1>3, OneMore, TurnsHere
<1> HIDE DEF n
<1>5. Queued' = Queued /\ \A j \in Chats : AtWorkOf(j)' = AtWorkOf(j)
  BY <1>2, <1>3, <1>4 DEF Queued, AtWorkOf
<1>6. InboundHolds' /\ LinesHold'
  BY <1>3, <1>5 DEF InboundHolds, Queued, LinesHold, Queues, AtWorkOf
<1>7. HaltingIsStop' /\ TakenInOrder'
  BY <1>2, <1>3, <1>4 DEF HaltingIsStop, TakenInOrder, Queues
<1>8. QED  BY <1>6, <1>7 DEF Queues

\* The queue's head is the next to be taken, in order.
LEMMA HeadTaken ==
  ASSUME Types, Queues, inbound # <<>>, inbound' = Tail(inbound),
         DOMAIN turns' = DOMAIN turns, \A u \in DOMAIN turns : turns'[u].way = turns[u].way
  PROVE  /\ Ordered(inbound') /\ ToSet(inbound') = Queued \ {Head(inbound)}
         /\ TakenInOrder'
<1>1. /\ Ordered(inbound') /\ ToSet(inbound') = Queued \ {Head(inbound)}
  BY QueuedHere DEF Queues, InboundHolds, Queued
<1>2. TakenInOrder'
  <2> SUFFICES ASSUME NEW t \in DOMAIN turns, NEW u \in ToSet(inbound'),
                      turns[t].way = "bus", t \notin ToSet(inbound')
               PROVE  t < u
    BY DEF TakenInOrder
  <2>1. u \in ToSet(inbound) /\ u # Head(inbound)
    BY QueuedHere
  <2>2. CASE t = Head(inbound)
    BY <2>1, <2>2, QueuedHere
  <2>3. CASE t # Head(inbound)
    BY <2>1, <2>3, QueuedHere DEF Queues, TakenInOrder
  <2>4. QED  BY <2>2, <2>3
<1>3. QED  BY <1>1, <1>2

LEMMA QueuesLoopDispatches ==
  ASSUME Types, Queues, LoopDispatches
  PROVE  /\ Queues' /\ DOMAIN turns' = DOMAIN turns
         /\ turns[Head(inbound)].stage = "inbound" /\ turns'[Head(inbound)].stage = "line"
         /\ \A u \in DOMAIN turns : Same(u) /\ turns'[u].end = turns[u].end
         /\ \A u \in DOMAIN turns : u # Head(inbound) => Still(u)
<1>1. PICK t : t = Head(inbound)
  OBVIOUS
<1>2. /\ t \in DOMAIN turns /\ turns[t].stage = "inbound" /\ t \in ToSet(inbound)
      /\ turns[t] \in Turn /\ Sane(turns[t]) /\ t \in Nat /\ t # halting
      /\ inbound # <<>> /\ inbound' = Tail(inbound) /\ halting' = halting
  BY <1>1, QueuedHere, TurnsHere DEF LoopDispatches
<1>3. /\ DOMAIN turns' = DOMAIN turns /\ turns'[t] = Lined(t)
      /\ \A u \in DOMAIN turns : u # t => turns'[u] = turns[u]
  BY <1>1, <1>2, TypesLoopDispatches, OneTurn
<1>4. /\ Lined(t).stage = "line" /\ Lined(t).kind = turns[t].kind
      /\ Lined(t).way = turns[t].way /\ Lined(t).key = turns[t].key
      /\ Lined(t).end = turns[t].end
  BY <1>2 DEF Lined, Turn
<1>5. /\ \A u \in DOMAIN turns : Same(u) /\ turns'[u].end = turns[u].end
      /\ \A u \in DOMAIN turns : u # t => Still(u)
  BY <1>3, <1>4 DEF Same, Still
<1>6. TakenInOrder' /\ Ordered(inbound') /\ ToSet(inbound') = Queued \ {t}
  BY <1>1, <1>2, <1>3, <1>5, HeadTaken DEF Same
<1>7. Queued' = Queued \ {t}
  BY <1>2, <1>3, <1>4 DEF Queued
<1>8. InboundHolds'
  BY <1>6, <1>7 DEF InboundHolds, Queued
<1>9. HaltingIsStop'
  BY <1>2, <1>3 DEF HaltingIsStop, Queues
<1>10. LinesHold'
  <2> SUFFICES ASSUME NEW k \in Chats PROVE Ordered(line'[k]) /\ ToSet(line'[k]) = AtWorkOf(k)'
    BY DEF LinesHold, AtWorkOf
  <2>1. line[k] \in Seq(Nat) /\ Ordered(line[k]) /\ ToSet(line[k]) = AtWorkOf(k)
    BY LinesHere
  <2>2. /\ line' = [line EXCEPT ![turns[t].key] = Append(line[turns[t].key], t)]
        /\ line \in [Chats -> Seq(Ids)]
    BY <1>1 DEF LoopDispatches, Types, TypeOK
  <2>3. CASE k = turns[t].key
    <3>1. line'[k] = Append(line[k], t)
      BY <2>2, <2>3
    <3>2. \A u \in ToSet(line[k]) : u < t
      <4> TAKE u \in ToSet(line[k])
      <4>1. u \in DOMAIN turns /\ turns[u].way = "bus" /\ turns[u].stage \in AtWork
        BY <2>1 DEF AtWorkOf
      <4>2. u \notin ToSet(inbound)
        BY <4>1 DEF Queues, InboundHolds, AtWork
      <4>3. QED  BY <4>1, <4>2, <1>2 DEF Queues, TakenInOrder
    <3>3. Ordered(line'[k]) /\ ToSet(line'[k]) = AtWorkOf(k) \cup {t}
      BY <3>1, <3>2, <2>1, <1>2, AppendOrdered
    <3>4. AtWorkOf(k)' = AtWorkOf(k) \cup {t}
      BY <1>2, <1>3, <1>4, <2>3 DEF AtWorkOf, AtWork, Sane
    <3>5. QED  BY <3>3, <3>4
  <2>4. CASE k # turns[t].key
    <3>1. line'[k] = line[k]
      BY <2>2, <2>4
    <3>2. AtWorkOf(k)' = AtWorkOf(k)
      BY <1>2, <1>3, <1>4, <2>4 DEF AtWorkOf, AtWork
    <3>3. QED  BY <3>1, <3>2, <2>1
  <2>5. QED  BY <2>3, <2>4
<1>11. QED  BY <1>1, <1>2, <1>3, <1>4, <1>5, <1>6, <1>8, <1>9, <1>10 DEF Queues

LEMMA QueuesLoopStops ==
  ASSUME Types, Queues, LoopStops
  PROVE  /\ Queues' /\ DOMAIN turns' = DOMAIN turns
         /\ \A u \in DOMAIN turns : Still(u)
<1>1. PICK t : t = Head(inbound)
  OBVIOUS
<1>2. /\ t \in DOMAIN turns /\ turns[t].stage = "inbound" /\ turns[t].kind = "stop"
      /\ inbound # <<>> /\ inbound' = Tail(inbound) /\ halting = 0 /\ halting' = t
      /\ line' = line
  BY <1>1, QueuedHere DEF LoopStops
<1>3. DOMAIN turns' = DOMAIN turns /\ \A u \in DOMAIN turns : StaysAs(u)
  BY TypesLoopStops
<1>4. \A u \in DOMAIN turns : Still(u)
  <2> TAKE u \in DOMAIN turns
  <2>1. turns[u] \in Turn
    BY TurnsHere
  <2>2. turns'[u] = turns[u] \/ turns'[u] = [turns[u] EXCEPT !.doomed = TRUE]
    BY <1>3 DEF StaysAs
  <2>3. QED  BY <2>1, <2>2 DEF Still, Same, Turn
<1>5. TakenInOrder' /\ Ordered(inbound') /\ ToSet(inbound') = Queued \ {t}
  BY <1>1, <1>2, <1>3, <1>4, HeadTaken DEF Still, Same
<1>6. Queued' = Queued \ {t}
  <2>1. 0 \notin DOMAIN turns
    BY TurnsHere
  <2>2. QED  BY <2>1, <1>2, <1>3, <1>4 DEF Queued, Still
<1>7. InboundHolds'
  BY <1>5, <1>6 DEF InboundHolds, Queued
<1>8. HaltingIsStop'
  BY <1>2, <1>3, <1>4 DEF HaltingIsStop, Still, Same
<1>9. \A k \in Chats : AtWorkOf(k)' = AtWorkOf(k)
  BY <1>3, <1>4 DEF AtWorkOf, Still, Same
<1>10. LinesHold'
  BY <1>2, <1>9 DEF LinesHold, AtWorkOf, Queues
<1>11. QED  BY <1>3, <1>4, <1>5, <1>7, <1>8, <1>10 DEF Queues

LEMMA QueuesStopDone ==
  ASSUME Types, Queues, StopDone
  PROVE  /\ Queues' /\ DOMAIN turns' = DOMAIN turns
         /\ \A u \in DOMAIN turns : Same(u)
         /\ \A u \in DOMAIN turns : u # halting => Still(u)
         /\ turns'[halting].stage = "over" /\ turns'[halting].end = "halted"
<1>1. /\ halting \in DOMAIN turns /\ turns[halting] \in Turn
      /\ turns[halting].stage = "inbound" /\ halting # 0
      /\ DOMAIN turns' = DOMAIN turns /\ turns'[halting] = Halted(halting)
      /\ \A u \in DOMAIN turns : u # halting => turns'[u] = turns[u]
  BY TypesStopDone, OneTurn DEF Queues, HaltingIsStop, StopDone
<1>2. /\ Halted(halting).stage = "over" /\ Halted(halting).kind = turns[halting].kind
      /\ Halted(halting).way = turns[halting].way /\ Halted(halting).key = turns[halting].key
      /\ Halted(halting).end = "halted"
  BY <1>1 DEF Halted, Over, Turn
<1>3. /\ \A u \in DOMAIN turns : Same(u)
      /\ \A u \in DOMAIN turns : u # halting => Still(u)
  BY <1>1, <1>2 DEF Same, Still
<1>4. inbound' = inbound /\ halting' = 0 /\ line' = line /\ 0 \notin DOMAIN turns
  BY TurnsHere DEF StopDone
<1>5. Queued' = Queued
  BY <1>1, <1>2, <1>4 DEF Queued
<1>6. \A k \in Chats : AtWorkOf(k)' = AtWorkOf(k)
  BY <1>1, <1>2 DEF AtWorkOf, AtWork
<1>7. InboundHolds' /\ LinesHold'
  BY <1>4, <1>5, <1>6 DEF InboundHolds, Queued, LinesHold, AtWorkOf, Queues
<1>8. HaltingIsStop'
  BY <1>4 DEF HaltingIsStop
<1>9. TakenInOrder'
  BY <1>1, <1>3, <1>4 DEF TakenInOrder, Queues, Same
<1>10. QED  BY <1>1, <1>2, <1>3, <1>7, <1>8, <1>9 DEF Queues

Base == Types /\ Queues

LEMMA BaseInit == Init => Base
<1> SUFFICES ASSUME Init PROVE Base
  OBVIOUS
<1>1. TypeOK
  <2>1. NoQueue \in [open : BOOLEAN, waiting : 0 .. MaxSteers] /\ 0 \in 0 .. MaxTurns
    BY ConstantsAreSane DEF NoQueue
  <2>2. <<>> \in Seq(Turn) /\ <<>> \in Seq(Ids) /\ <<>> \in Seq(Sub) /\ Len(<<>>) = 0
    BY EmptySeq
  <2>3. 0 <= MaxTurns /\ 0 <= MaxSubs
    BY ConstantsAreSane
  <2>4. /\ turns \in Seq(Turn) /\ Len(turns) <= MaxTurns
        /\ inbound \in Seq(Ids) /\ halting \in 0 .. MaxTurns
    BY <2>1, <2>2, <2>3 DEF Init
  <2>5. subs \in Seq(Sub) /\ Len(subs) <= MaxSubs
    BY <2>2, <2>3 DEF Init
  <2>6. line \in [Chats -> Seq(Ids)]
    BY <2>2 DEF Init
  <2>7. steering \in [Chats -> [open : BOOLEAN, waiting : 0 .. MaxSteers]]
    BY <2>1 DEF Init
  <2>8. /\ ctx \in [home : Chats \cup {NoChat}, sess : Chats \cup {NoChat}, sent : BOOLEAN]
        /\ links \in [Chats -> Chats \cup {NoChat}]
    BY DEF Init
  <2>9. QED  BY <2>4, <2>5, <2>6, <2>7, <2>8 DEF TypeOK
<1>2. turns \in Seq(SaneTurn) /\ DOMAIN turns = {}
  BY DEF Init
<1>3. CtxSet
  BY <1>2 DEF CtxSet, InLoop
<1>4. ToSet(<<>>) = {} /\ DOMAIN <<>> = {}
  BY DEF ToSet
<1>5. inbound = <<>> /\ halting = 0 /\ \A k \in Chats : line[k] = <<>>
  BY DEF Init
<1>6. Queues
  BY <1>2, <1>4, <1>5
  DEF Queues, InboundHolds, HaltingIsStop, TakenInOrder, LinesHold, Ordered
<1>7. QED  BY <1>1, <1>2, <1>3, <1>6 DEF Base, Types

LEMMA StillAll ==
  ASSUME Types, UNCHANGED <<turns, inbound, halting, line>>
  PROVE  Stands
BY DEF Stands, Still, Same

\* Every step is of one of these kinds.
Kind(t) ==
  \/ Works(t)
  \/ Stands
  \/ \E kind \in Kinds, c \in Chats, k \in Chats :
       Post(kind, c, k) /\ UNCHANGED <<halting, line>>
  \/ \E c \in Chats, k \in Chats : Direct(c, k)
  \/ LoopDispatches \/ LoopStops \/ StopDone

LEMMA ArriveIsPost ==
  ASSUME NEW p \in Posts, Arrive(p[1], p[2])
  PROVE  /\ p[1] \in Chats /\ p[2] \in Kinds /\ Post(p[2], p[1], p[1])
         /\ UNCHANGED <<halting, line, steering, ctx, links, subs>>
BY ConstantsAreSane DEF Arrive, Kinds

LEMMA BaseKinds ==
  ASSUME Base, [Next]_vars
  PROVE  Types' /\ \E t : Kind(t)
<1> USE DEF Base
<1>1. ASSUME NEW t \in Ids, TurnSteps(t) \/ ToolSteps(t) PROVE Types' /\ Kind(t)
  BY <1>1, TypesWorks DEF Kind
<1>2. CASE LoopTakes
  BY <1>2, LoopCases, TypesLoopDispatches, TypesLoopStops DEF Kind
<1>3. CASE StopDone
  BY <1>3, TypesStopDone DEF Kind
<1>4. ASSUME NEW p \in Posts, Arrive(p[1], p[2]) PROVE Types' /\ Kind(0)
  <2>1. subs' \in Seq(Sub) /\ Len(subs') <= MaxSubs
    BY <1>4, ArriveIsPost DEF Types, TypeOK
  <2>2. Types'
    BY <2>1, <1>4, ArriveIsPost, TypesPost
  <2>3. QED  BY <2>2, <1>4, ArriveIsPost DEF Kind
<1>5. ASSUME NEW p \in Calls, Direct(p[1], p[2]) PROVE Types' /\ Kind(0)
  <2>1. p[1] \in Chats /\ p[2] \in Chats
    BY ConstantsAreSane
  <2>2. QED  BY <2>1, <1>5, TypesDirect DEF Kind
<1>6. ASSUME NEW c \in Chats, Steer(c) PROVE Types' /\ Kind(0)
  BY <1>6, TypesSteer, StillAll DEF Steer, Kind
<1>7. ASSUME NEW t \in DOMAIN turns, CancelDirect(t) PROVE Types' /\ Kind(0)
  <2>1. Types' /\ Doomed(t) \in SaneTurn /\ Becomes(t, Doomed(t))
    BY <1>7, TypesCancelDirect
  <2>2. turns[t] \in Turn
    BY TurnsHere
  <2>3. Stands
    <3>1. /\ Doomed(t).kind = turns[t].kind /\ Doomed(t).way = turns[t].way
          /\ Doomed(t).key = turns[t].key /\ Doomed(t).stage = turns[t].stage
          /\ Doomed(t).end = turns[t].end
      BY <2>2 DEF Doomed, Turn
    <3>2. turns'[t] = Doomed(t) /\ \A u \in DOMAIN turns : u # t => turns'[u] = turns[u]
      BY <2>1, OneTurn
    <3>3. \A u \in DOMAIN turns : Still(u)
      BY <3>1, <3>2 DEF Still, Same
    <3>4. DOMAIN turns' = DOMAIN turns /\ UNCHANGED <<inbound, halting, line>>
      BY <1>7, <2>1, OneTurn DEF CancelDirect
    <3>5. QED  BY <3>3, <3>4 DEF Stands
  <2>4. QED  BY <2>1, <2>3 DEF Kind
<1>8. ASSUME NEW i, SubEnds(i) PROVE Types' /\ Kind(0)
  <2>1. UNCHANGED <<halting, line>> /\ "ask" \in Kinds
    BY <1>8 DEF SubEnds, Kinds
  <2>2. Types' /\ (Silent \/ \E c \in Chats, k \in Chats : Post("ask", c, k))
    BY <1>8, TypesSubEnds
  <2>3. CASE Silent
    BY <2>1, <2>2, <2>3, StillAll DEF Silent, Kind
  <2>4. QED  BY <2>1, <2>2, <2>3 DEF Kind
<1>9. CASE UNCHANGED vars
  <2>1. Types'
    BY <1>9 DEF vars, Types, TypeOK, CtxSet, InLoop
  <2>2. QED  BY <2>1, <1>9, StillAll DEF vars, Kind
<1>10. QED
  BY <1>1, <1>2, <1>3, <1>4, <1>5, <1>6, <1>7, <1>8, <1>9 DEF Next, Tasks, Outside

LEMMA BaseStep == Base /\ [Next]_vars => Base'
<1> SUFFICES ASSUME Base, [Next]_vars PROVE Types' /\ Queues'
  BY DEF Base
<1>1. PICK t : Kind(t)
  BY BaseKinds
<1>2. Queues'
  <2>1. CASE Works(t)
    BY <2>1, QueuesWorks DEF Base
  <2>2. CASE Stands
    BY <2>2, QueuesStands DEF Base
  <2>3. ASSUME NEW kind \in Kinds, NEW c \in Chats, NEW k \in Chats,
               Post(kind, c, k), UNCHANGED <<halting, line>>
        PROVE  Queues'
    BY <2>3, QueuesPost DEF Base
  <2>4. ASSUME NEW c \in Chats, NEW k \in Chats, Direct(c, k) PROVE Queues'
    BY <2>4, QueuesDirect DEF Base
  <2>5. CASE LoopDispatches \/ LoopStops \/ StopDone
    BY <2>5, QueuesLoopDispatches, QueuesLoopStops, QueuesStopDone DEF Base
  <2>6. QED  BY <1>1, <2>1, <2>2, <2>3, <2>4, <2>5 DEF Kind
<1>3. QED  BY <1>2, BaseKinds

\* What the agent's variables hold, for any number of chats, turns and calls.
THEOREM AgentTypes == Spec => []TypeOK
<1>1. Init => Base
  BY BaseInit
<1>2. Base /\ [Next]_vars => Base'
  BY BaseStep
<1>3. Base => TypeOK
  BY DEF Base, Types
<1>4. QED  BY <1>1, <1>2, <1>3, PTL DEF Spec

-----------------------------------------------------------------------------
(* The order of a key's turns, and what a /stop has stopped. *)

\* Everything of the key that came before the first of its line has ended.
LEMMA FirstInLine ==
  ASSUME Base, NEW t \in DOMAIN turns, NEW u \in DOMAIN turns, AtHead(u),
         t < u, turns[t].way = "bus", turns[t].kind # "stop", turns[t].key = turns[u].key
  PROVE  turns[t].stage = "over"
<1>1. /\ turns[t].stage \in Stages /\ turns[u].key \in Chats /\ turns[u].stage = "line"
      /\ turns[u].way = "bus" /\ t \in Nat /\ u \in Nat
  BY TurnsHere DEF Base, Turn, Sane, AtHead
<1>2. turns[t].stage # "inbound"
  <2> SUFFICES ASSUME turns[t].stage = "inbound" PROVE FALSE
    OBVIOUS
  <2>1. t # halting
    BY <1>1, TurnsHere DEF Base, Queues, HaltingIsStop
  <2>2. t \in ToSet(inbound) /\ u \notin ToSet(inbound)
    BY <2>1, <1>1 DEF Base, Queues, InboundHolds
  <2>3. u < t
    BY <2>2, <1>1 DEF Base, Queues, TakenInOrder
  <2>4. QED  BY <2>3, <1>1
<1>3. turns[t].stage \notin AtWork
  <2> SUFFICES ASSUME turns[t].stage \in AtWork PROVE FALSE
    OBVIOUS
  <2> DEFINE q == line[turns[u].key]
  <2>1. q \in Seq(Nat) /\ Ordered(q) /\ ToSet(q) = AtWorkOf(turns[u].key)
    BY <1>1, LinesHere DEF Base
  <2>2. t \in ToSet(q)
    BY <2>1 DEF AtWorkOf
  <2>3. q # <<>> /\ Head(q) = u
    <3>1. ToSet(<<>>) = {}
      BY DEF ToSet
    <3>2. QED  BY <3>1, <2>2 DEF AtHead
  <2> HIDE DEF q
  <2>4. t = u \/ u < t
    BY <2>1, <2>2, <2>3, HeadIsLeast
  <2>5. QED  BY <2>4, <1>1
<1>4. QED  BY <1>1, <1>2, <1>3 DEF Stages, AtWork

\* What a step does to the turns, as far as their order goes.
Orderly ==
  /\ DOMAIN turns \subseteq DOMAIN turns'
  /\ \A u \in DOMAIN turns :
       /\ Same(u)
       /\ turns[u].stage = "over" => turns'[u].stage = "over"
       /\ Ran(u)' => Ran(u) \/ AtHead(u)
  /\ \A u \in DOMAIN turns' \ DOMAIN turns :
       /\ \A t \in DOMAIN turns : t < u
       /\ turns'[u].stage # "over"
       /\ turns'[u].way = "bus" => turns'[u].stage = "inbound"

LEMMA NewcomerOrderly ==
  ASSUME Base, NEW x \in SaneTurn, Len(turns) < MaxTurns, turns' = Append(turns, x),
         x.stage # "over", x.way = "bus" => x.stage = "inbound"
  PROVE  Orderly
<1>1. /\ DOMAIN turns' = DOMAIN turns \cup {Len(turns) + 1} /\ turns'[Len(turns) + 1] = x
      /\ \A u \in DOMAIN turns : turns'[u] = turns[u] /\ u < Len(turns) + 1
  BY OneMore DEF Base
<1>2. QED  BY <1>1 DEF Orderly, Same, Ran

LEMMA WorksOrderly ==
  ASSUME Base, Types', NEW t, Works(t)
  PROVE  Orderly
<1>1. /\ DOMAIN turns' = DOMAIN turns /\ t \in DOMAIN turns
      /\ \A u \in DOMAIN turns : Same(u) /\ (u # t => Still(u))
      /\ turns[t].stage \in AtWork
  BY DEF Works, Still
<1>2. Ran(t)' => Ran(t) \/ AtHead(t)
  <2> SUFFICES ASSUME Ran(t)', ~Ran(t) PROVE AtHead(t)
    OBVIOUS
  <2>1. turns[t].stage = "line"
    BY <1>1 DEF Ran, AtWork
  <2>2. AtHead(t) \/ turns'[t].end = "cancelled"
    BY <2>1 DEF Works
  <2>3. turns'[t].end = "cancelled" => turns'[t].stage = "over"
    <3>1. turns' \in Seq(SaneTurn) /\ t \in 1 .. Len(turns')
      BY <1>1, LenProperties DEF Types
    <3>2. turns'[t] \in SaneTurn
      BY <3>1, ElementOfSeq
    <3>3. QED  BY <3>2 DEF SaneTurn, Sane
  <2>4. QED  BY <2>2, <2>3 DEF Ran
<1>3. ASSUME NEW u \in DOMAIN turns
      PROVE  /\ turns[u].stage = "over" => turns'[u].stage = "over"
             /\ Ran(u)' => Ran(u) \/ AtHead(u)
  <2>1. CASE u = t
    BY <2>1, <1>1, <1>2 DEF AtWork
  <2>2. CASE u # t
    BY <2>2, <1>1 DEF Still, Ran
  <2>3. QED  BY <2>1, <2>2
<1>4. QED  BY <1>1, <1>3 DEF Orderly

LEMMA KindOrderly ==
  ASSUME Base, Types', NEW t, Kind(t)
  PROVE  Orderly
<1>1. CASE Works(t)
  BY <1>1, WorksOrderly
<1>2. CASE Stands
  BY <1>2 DEF Stands, Still, Orderly, Ran
<1>3. ASSUME NEW kind \in Kinds, NEW c \in Chats, NEW k \in Chats, Post(kind, c, k)
      PROVE  Orderly
  <2>1. /\ Fresh(kind, "bus", c, k) \in SaneTurn /\ Len(turns) < MaxTurns
        /\ turns' = Append(turns, Fresh(kind, "bus", c, k))
        /\ Fresh(kind, "bus", c, k).stage = "inbound"
    BY <1>3, FreshSane DEF Post, Fresh
  <2>2. QED  BY <2>1, NewcomerOrderly
<1>4. ASSUME NEW c \in Chats, NEW k \in Chats, Direct(c, k) PROVE Orderly
  <2>1. PICK s \in Chats :
          /\ turns' = Append(turns, [Fresh("ask", "direct", c, k)
                                       EXCEPT !.sess = s, !.stage = "prep"])
          /\ [Fresh("ask", "direct", c, k) EXCEPT !.sess = s, !.stage = "prep"] \in SaneTurn
    BY <1>4, TypesDirect DEF Base
  <2> DEFINE x == [Fresh("ask", "direct", c, k) EXCEPT !.sess = s, !.stage = "prep"]
  <2>2. x \in SaneTurn /\ x.stage = "prep" /\ x.way = "direct" /\ Len(turns) < MaxTurns
    BY <1>4, <2>1 DEF Fresh, Direct
  <2> HIDE DEF x
  <2>3. turns' = Append(turns, x)
    BY <2>1 DEF x
  <2>4. QED  BY <2>2, <2>3, NewcomerOrderly
<1>5. CASE LoopDispatches
  <2>1. /\ DOMAIN turns' = DOMAIN turns
        /\ turns[Head(inbound)].stage = "inbound" /\ turns'[Head(inbound)].stage = "line"
        /\ \A u \in DOMAIN turns : Same(u) /\ (u # Head(inbound) => Still(u))
    BY <1>5, QueuesLoopDispatches DEF Base
  <2>2. QED  BY <2>1 DEF Orderly, Still, Ran
<1>6. CASE LoopStops
  BY <1>6, QueuesLoopStops DEF Base, Orderly, Still, Ran
<1>7. CASE StopDone
  <2>1. /\ DOMAIN turns' = DOMAIN turns
        /\ turns'[halting].stage = "over" /\ turns'[halting].end = "halted"
        /\ \A u \in DOMAIN turns : Same(u) /\ (u # halting => Still(u))
    BY <1>7, QueuesStopDone DEF Base
  <2>2. QED  BY <2>1 DEF Orderly, Still, Ran
<1>8. QED  BY <1>1, <1>2, <1>3, <1>4, <1>5, <1>6, <1>7 DEF Kind

LEMMA OrderKept ==
  ASSUME Base, Types', NoOvertaking, NEW t, Kind(t)
  PROVE  NoOvertaking'
<1>1. Orderly
  BY KindOrderly
<1> SUFFICES ASSUME NEW e \in DOMAIN turns', NEW u \in DOMAIN turns', e < u, Ran(u)',
                    turns'[e].way = "bus", turns'[u].way = "bus",
                    turns'[e].key = turns'[u].key, turns'[e].kind # "stop"
             PROVE  turns'[e].stage = "over"
  BY DEF NoOvertaking
<1>2. u \in DOMAIN turns
  <2> SUFFICES ASSUME u \notin DOMAIN turns PROVE FALSE
    OBVIOUS
  <2>1. turns'[u].stage = "inbound"
    BY <1>1 DEF Orderly
  <2>2. QED  BY <2>1 DEF Ran
<1>3. e \in DOMAIN turns
  <2> SUFFICES ASSUME e \notin DOMAIN turns PROVE FALSE
    OBVIOUS
  <2>1. u < e
    BY <1>1, <1>2 DEF Orderly
  <2>2. e \in Nat /\ u \in Nat
    <3>1. DOMAIN turns' = 1 .. Len(turns') /\ Len(turns') \in Nat
      BY LenProperties DEF Types
    <3>2. QED  BY <3>1
  <2>3. QED  BY <2>1, <2>2
<1>4. /\ turns[e].way = "bus" /\ turns[u].way = "bus" /\ turns[e].kind # "stop"
      /\ turns[e].key = turns[u].key
  BY <1>1, <1>2, <1>3 DEF Orderly, Same
<1>5. turns[e].stage = "over"
  <2>1. CASE Ran(u)
    BY <2>1, <1>2, <1>3, <1>4 DEF NoOvertaking
  <2>2. CASE AtHead(u)
    BY <2>2, <1>2, <1>3, <1>4, FirstInLine
  <2>3. QED  BY <2>1, <2>2, <1>1, <1>2 DEF Orderly
<1>6. QED  BY <1>1, <1>3, <1>5 DEF Orderly

\* The messages of one key are processed one at a time, in the order of their
\* arrival, for any number of chats, messages and direct calls.
THEOREM MessagesKeepTheirOrder == Spec => []NoOvertaking
<1>1. Init => Base /\ NoOvertaking
  BY BaseInit DEF Init, NoOvertaking
<1>2. Base /\ NoOvertaking /\ [Next]_vars => Base' /\ NoOvertaking'
  <2> SUFFICES ASSUME Base, NoOvertaking, [Next]_vars PROVE Base' /\ NoOvertaking'
    OBVIOUS
  <2>1. PICK t : Kind(t)
    BY BaseKinds
  <2>2. QED  BY <2>1, BaseStep, OrderKept DEF Base
<1>3. QED  BY <1>1, <1>2, PTL DEF Spec

\* Subagents keep to themselves; one that is new was started by a tool.
SubsFollow ==
  \A i \in DOMAIN subs' :
    \/ /\ i \in DOMAIN subs
       /\ subs'[i].by = subs[i].by /\ subs'[i].sess = subs[i].sess
       /\ subs'[i].running => subs[i].running
    \/ subs'[i].by \in DOMAIN turns /\ turns[subs'[i].by].stage = "tool"

LEMMA SubsStep ==
  ASSUME Base, [Next]_vars
  PROVE  SubsFollow
<1>1. ASSUME NEW t, ToolSpawns(t) PROVE SubsFollow
  <2>1. t \in DOMAIN turns /\ turns[t].stage = "tool"
    BY <1>1, TypesToolEnds DEF Base
  <2> DEFINE x == [by |-> t, home |-> ctx.home, sess |-> ctx.sess, running |-> TRUE]
  <2>2. subs' = Append(subs, x) /\ subs \in Seq(Sub) /\ x.by = t
    BY <1>1 DEF ToolSpawns, Base, Types, TypeOK
  <2>3. DOMAIN subs = 1 .. Len(subs) /\ Len(subs) \in Nat
    BY SubsHere DEF Base
  <2> HIDE DEF x
  <2>4. /\ DOMAIN subs' = 1 .. Len(subs) + 1
        /\ \A i \in 1 .. Len(subs) : subs'[i] = subs[i]
        /\ subs'[Len(subs) + 1] = x
    BY <2>2, <2>3, AppendProperties
  <2>5. QED  BY <2>1, <2>2, <2>3, <2>4 DEF SubsFollow
<1>2. ASSUME SameSubs PROVE SubsFollow
  BY <1>2 DEF SameSubs, SubsFollow
<1>3. ASSUME UNCHANGED subs PROVE SubsFollow
  BY <1>3 DEF SubsFollow
<1>4. CASE StopDone
  BY <1>2, <1>4, TypesStopDone DEF Base
<1>5. ASSUME NEW i, SubEnds(i) PROVE SubsFollow
  BY <1>2, <1>5, SubsEnd DEF Base
<1>6. ASSUME NEW t, TurnSteps(t) PROVE SubsFollow
  <2>1. UNCHANGED subs
    BY <1>6 DEF TurnSteps, TurnStarts, TurnAnswersCommand, TurnEnters, TurnIsShort,
         LlmCallsTools, TurnAnswers, NextTool, NextCall, WallTimeout, TurnFails,
         TurnIsCancelled
  <2>2. QED  BY <1>3, <2>1
<1>7. ASSUME NEW t, ToolSteps(t) PROVE SubsFollow
  <2>1. ToolSpawns(t) \/ UNCHANGED subs
    BY <1>7 DEF ToolSteps, ToolSendsMessage, ToolReturns
  <2>2. QED  BY <1>1, <1>3, <2>1
<1>8. CASE Outside /\ ~(\E i \in 1 .. MaxSubs : SubEnds(i))
  <2>1. UNCHANGED subs
    BY <1>8 DEF Outside, Arrive, Direct, Steer, CancelDirect
  <2>2. QED  BY <1>3, <2>1
<1>9. CASE LoopTakes \/ UNCHANGED vars
  BY <1>3, <1>9 DEF LoopTakes, vars
<1>10. QED
  BY <1>4, <1>5, <1>6, <1>7, <1>8, <1>9 DEF Next, Tasks, Outside

\* When a /stop is over, everything that came before it with its key is.
LEMMA StopFinds ==
  ASSUME Base, StopDone, NEW t \in DOMAIN turns, t < halting, turns[t].way = "bus",
         turns[t].key = turns[halting].key
  PROVE  turns[t].stage = "over"
<1>1. /\ halting \in DOMAIN turns /\ turns[halting].stage = "inbound"
      /\ turns[halting].key \in Chats /\ turns[halting].way = "bus"
      /\ turns[t].stage \in Stages /\ t \in Nat /\ halting \in Nat
      /\ line[turns[halting].key] = <<>>
  BY TurnsHere DEF StopDone, Base, Queues, HaltingIsStop, Turn, Sane
<1>2. turns[t].stage \notin AtWork
  <2>1. ToSet(line[turns[halting].key]) = {}
    BY <1>1 DEF ToSet
  <2>2. QED  BY <2>1, <1>1, LinesHere DEF Base, AtWorkOf
<1>3. turns[t].stage # "inbound"
  <2> SUFFICES ASSUME turns[t].stage = "inbound" PROVE FALSE
    OBVIOUS
  <2>1. t \in ToSet(inbound) /\ halting \notin ToSet(inbound)
    BY <1>1 DEF Base, Queues, InboundHolds
  <2>2. halting < t
    BY <2>1, <1>1 DEF Base, Queues, TakenInOrder
  <2>3. QED  BY <2>2, <1>1
<1>4. QED  BY <1>1, <1>2, <1>3 DEF Stages, AtWork

\* A stop is over because it was, or because the loop has just confirmed it.
LEMMA StopEnds ==
  ASSUME Base, NEW t, Kind(t), NEW s \in DOMAIN turns', turns'[s].kind = "stop",
         turns'[s].stage = "over"
  PROVE  /\ s \in DOMAIN turns /\ turns[s].kind = "stop"
         /\ turns[s].stage = "over" \/ (StopDone /\ s = halting)
<1>1. CASE Works(t)
  <2>1. /\ s \in DOMAIN turns /\ turns[s].kind = "stop" /\ (s # t => turns[s].stage = "over")
        /\ turns[t].stage \in AtWork
    BY <1>1 DEF Works, Still, Same
  <2>2. s # t
    BY <2>1, TurnsHere DEF Base, Sane, AtWork
  <2>3. QED  BY <2>1, <2>2
<1>2. CASE Stands
  BY <1>2 DEF Stands, Still, Same
<1>3. ASSUME NEW kind \in Kinds, NEW c \in Chats, NEW k \in Chats, Post(kind, c, k)
      PROVE  s \in DOMAIN turns /\ turns[s].kind = "stop" /\ turns[s].stage = "over"
  <2>1. /\ Fresh(kind, "bus", c, k) \in SaneTurn /\ Len(turns) < MaxTurns
        /\ turns' = Append(turns, Fresh(kind, "bus", c, k))
        /\ Fresh(kind, "bus", c, k).stage = "inbound"
    BY <1>3, FreshSane DEF Post, Fresh
  <2>2. QED  BY <2>1, OneMore DEF Base
<1>4. ASSUME NEW c \in Chats, NEW k \in Chats, Direct(c, k)
      PROVE  s \in DOMAIN turns /\ turns[s].kind = "stop" /\ turns[s].stage = "over"
  <2>1. PICK r \in Chats :
          /\ turns' = Append(turns, [Fresh("ask", "direct", c, k)
                                       EXCEPT !.sess = r, !.stage = "prep"])
          /\ [Fresh("ask", "direct", c, k) EXCEPT !.sess = r, !.stage = "prep"] \in SaneTurn
    BY <1>4, TypesDirect DEF Base
  <2> DEFINE x == [Fresh("ask", "direct", c, k) EXCEPT !.sess = r, !.stage = "prep"]
  <2>2. x \in SaneTurn /\ x.stage = "prep" /\ Len(turns) < MaxTurns
    BY <1>4, <2>1 DEF Fresh, Direct
  <2> HIDE DEF x
  <2>3. turns' = Append(turns, x)
    BY <2>1 DEF x
  <2>4. QED  BY <2>2, <2>3, OneMore DEF Base
<1>5. CASE LoopDispatches
  <2>1. /\ DOMAIN turns' = DOMAIN turns /\ turns'[Head(inbound)].stage = "line"
        /\ \A u \in DOMAIN turns : Same(u) /\ (u # Head(inbound) => Still(u))
    BY <1>5, QueuesLoopDispatches DEF Base
  <2>2. QED  BY <2>1 DEF Still, Same
<1>6. CASE LoopStops
  BY <1>6, QueuesLoopStops DEF Base, Still, Same
<1>7. CASE StopDone
  BY <1>7, QueuesStopDone DEF Base, Still, Same
<1>8. QED  BY <1>1, <1>2, <1>3, <1>4, <1>5, <1>6, <1>7 DEF Kind

LEMMA StopKept ==
  ASSUME Base, Types', [Next]_vars, StopIsComplete
  PROVE  StopIsComplete'
<1>1. PICK w : Kind(w)
  BY BaseKinds
<1>2. Orderly /\ SubsFollow
  BY <1>1, KindOrderly, SubsStep
<1> SUFFICES ASSUME NEW s \in DOMAIN turns', turns'[s].kind = "stop", turns'[s].stage = "over",
                    NEW t \in DOMAIN turns', t < s, turns'[t].way = "bus",
                    turns'[t].key = turns'[s].key
             PROVE  /\ turns'[t].stage = "over"
                    /\ \A i \in DOMAIN subs' :
                         subs'[i].by = t /\ subs'[i].sess = turns'[s].key => ~subs'[i].running
  BY DEF StopIsComplete
<1>3. /\ s \in DOMAIN turns /\ turns[s].kind = "stop"
      /\ turns[s].stage = "over" \/ (StopDone /\ s = halting)
  BY <1>1, StopEnds
<1>4. t \in DOMAIN turns
  <2> SUFFICES ASSUME t \notin DOMAIN turns PROVE FALSE
    OBVIOUS
  <2>1. s < t
    BY <1>2, <1>3 DEF Orderly
  <2>2. DOMAIN turns' = 1 .. Len(turns') /\ Len(turns') \in Nat
    BY LenProperties DEF Types
  <2>3. QED  BY <2>1, <2>2
<1>5. turns[t].way = "bus" /\ turns[t].key = turns[s].key /\ turns'[s].key = turns[s].key
  BY <1>2, <1>3, <1>4 DEF Orderly, Same
<1>6. turns[t].stage = "over"
  <2>1. CASE turns[s].stage = "over"
    BY <2>1, <1>3, <1>4, <1>5 DEF StopIsComplete
  <2>2. CASE StopDone /\ s = halting
    BY <2>2, <1>4, <1>5, StopFinds
  <2>3. QED  BY <2>1, <2>2, <1>3
<1>7. ASSUME NEW i \in DOMAIN subs', subs'[i].by = t, subs'[i].sess = turns[s].key
      PROVE  ~subs'[i].running
  <2>1. /\ i \in DOMAIN subs /\ subs[i].by = t /\ subs[i].sess = turns[s].key
        /\ subs'[i].running => subs[i].running
    BY <1>2, <1>6, <1>7 DEF SubsFollow
  <2>2. CASE turns[s].stage = "over"
    BY <2>1, <2>2, <1>3, <1>4, <1>5 DEF StopIsComplete
  <2>3. CASE StopDone /\ s = halting
    BY <2>1, <2>3, TypesStopDone DEF Base
  <2>4. QED  BY <2>2, <2>3, <1>3
<1>8. turns'[t].stage = "over"
  BY <1>2, <1>4, <1>6 DEF Orderly
<1>9. QED  BY <1>5, <1>7, <1>8

\* A /stop that was confirmed left no turn and no subagent of those before it.
THEOREM NothingSurvivesStop == Spec => []StopIsComplete
<1>1. Init => Base /\ StopIsComplete
  BY BaseInit DEF Init, StopIsComplete
<1>2. Base /\ StopIsComplete /\ [Next]_vars => Base' /\ StopIsComplete'
  BY BaseStep, StopKept DEF Base
<1>3. QED  BY <1>1, <1>2, PTL DEF Spec

-----------------------------------------------------------------------------
(* What turns that share the tools' context do to each other. *)

LEMMA SaneNext ==
  ASSUME Types'
  PROVE  \A u \in DOMAIN turns' : turns'[u] \in Turn /\ Sane(turns'[u])
<1> TAKE u \in DOMAIN turns'
<1>1. turns' \in Seq(SaneTurn) /\ u \in 1 .. Len(turns')
  BY LenProperties DEF Types
<1>2. turns'[u] \in SaneTurn
  BY <1>1, ElementOfSeq
<1>3. QED  BY <1>2 DEF SaneTurn

\* A turn that has entered or ended has settled on its session.
SettledAt(turn) == turn.stage \in {"llm", "tool", "over"}

Like(u) ==
  /\ turns'[u].mixed = turns[u].mixed /\ turns'[u].end = turns[u].end
  /\ turns'[u].home = turns[u].home
  /\ turns'[u].stage \in Inside <=> turns[u].stage \in Inside
  /\ turns'[u].stage = "over" <=> turns[u].stage = "over"
  /\ SettledAt(turns[u]) => turns'[u].sess = turns[u].sess

SameOpen == \A c \in Chats : steering'[c].open = steering[c].open

\* Nobody enters or leaves a loop.
Calm ==
  /\ DOMAIN turns \subseteq DOMAIN turns'
  /\ \A u \in DOMAIN turns : Like(u)
  /\ \A u \in DOMAIN turns' \ DOMAIN turns : ~SettledAt(turns'[u])
  /\ SameOpen

\* Nobody says anything.
Mute == ctx' = ctx /\ \A u \in DOMAIN turns : turns'[u].told = turns[u].told

\* One turn ends.
EndsWith(t, e) ==
  /\ t \in DOMAIN turns /\ turns[t].stage # "over"
  /\ DOMAIN turns' = DOMAIN turns
  /\ \A u \in DOMAIN turns : u # t => Like(u)
  /\ turns'[t].stage = "over" /\ turns'[t].end = e /\ turns'[t].mixed = turns[t].mixed
  /\ SettledAt(turns[t]) => turns'[t].sess = turns[t].sess
  /\ \/ SameOpen /\ (turns[t].stage \in Inside => e \in {"failed", "cancelled"})
     \/ /\ turns[t].stage \in Inside
        /\ steering' = [steering EXCEPT ![turns[t].sess] = NoQueue]
  /\ e \in {"replied", "quiet"} =>
       IF turns[t].stage \in Inside THEN e = (IF ctx.sent THEN "quiet" ELSE "replied")
                                    ELSE e = "replied"
  /\ Mute

Shared == Base /\ Mixing /\ Alone /\ AnsweredAlone /\ QueuesFollowTurns

LEMMA CalmKeeps ==
  ASSUME Shared, Types', Calm
  PROVE  Mixing' /\ QueuesFollowTurns'
<1>1. /\ \A u \in DOMAIN turns : u \in DOMAIN turns' /\ Like(u)
      /\ \A u \in DOMAIN turns' \ DOMAIN turns : ~SettledAt(turns'[u])
      /\ \A u \in DOMAIN turns' : turns'[u] \in Turn /\ Sane(turns'[u])
      /\ \A u \in DOMAIN turns : turns[u] \in Turn /\ Sane(turns[u])
      /\ SameOpen
  BY SaneNext, TurnsHere DEF Calm, Shared, Base
<1>2. InLoop' = InLoop
  BY <1>1 DEF InLoop, Inside, Like, SettledAt
<1>3. Mixing'
  <2> SUFFICES ASSUME NEW t \in DOMAIN turns'
               PROVE  /\ turns'[t].mixed \subseteq
                           {u \in DOMAIN turns' : turns'[u].stage \in {"llm", "tool", "over"}}
                      /\ t \in InLoop' => InLoop' \ {t} \subseteq turns'[t].mixed
    BY DEF Mixing
  <2>1. CASE t \in DOMAIN turns
    <3>1. /\ turns'[t].mixed = turns[t].mixed
          /\ turns[t].mixed \subseteq {u \in DOMAIN turns : SettledAt(turns[u])}
          /\ t \in InLoop => InLoop \ {t} \subseteq turns[t].mixed
      BY <2>1, <1>1 DEF Shared, Mixing, SettledAt, Like
    <3>2. \A u \in DOMAIN turns : SettledAt(turns[u]) => SettledAt(turns'[u])
      BY <1>1 DEF Like, SettledAt, Inside
    <3>3. QED  BY <3>1, <3>2, <1>1, <1>2 DEF SettledAt
  <2>2. CASE t \notin DOMAIN turns
    <3>1. ~SettledAt(turns'[t]) /\ turns'[t] \in Turn /\ Sane(turns'[t])
      BY <2>2, <1>1
    <3>2. turns'[t].mixed = {} /\ t \notin InLoop'
      BY <3>1, <2>2, <1>2 DEF Sane, SettledAt, Turn, Stages, InLoop
    <3>3. QED  BY <3>2
  <2>3. QED  BY <2>1, <2>2
<1>4. ASSUME NEW t \in InLoop',
             \A u \in turns'[t].mixed : turns'[u].sess # turns'[t].sess
      PROVE  steering'[turns'[t].sess].open
  <2>1. t \in DOMAIN turns /\ t \in InLoop /\ Like(t) /\ SettledAt(turns[t])
    BY <1>1, <1>2 DEF InLoop, SettledAt
  <2>2. turns'[t].sess = turns[t].sess /\ turns[t].sess \in Chats
    BY <2>1, <1>1 DEF Like, Turn
  <2>3. \A u \in turns[t].mixed : turns[u].sess # turns[t].sess
    <3> TAKE u \in turns[t].mixed
    <3>1. u \in DOMAIN turns /\ SettledAt(turns[u]) /\ u \in turns'[t].mixed
      BY <2>1 DEF Shared, Mixing, SettledAt, Like
    <3>2. turns'[u].sess = turns[u].sess
      BY <3>1, <1>1 DEF Like
    <3>3. QED  BY <3>1, <3>2, <2>2, <1>4
  <2>4. steering[turns[t].sess].open
    BY <2>1, <2>3 DEF Shared, QueuesFollowTurns
  <2>5. QED  BY <2>2, <2>4, <1>1 DEF SameOpen
<1>5. ASSUME NEW c \in Chats, steering'[c].open
      PROVE  \E t \in DOMAIN turns' :
               /\ turns'[t].sess = c
               /\ t \in InLoop' \/ turns'[t].end \in {"failed", "cancelled"}
  <2>1. steering[c].open
    BY <1>5, <1>1 DEF SameOpen
  <2>2. PICK t \in DOMAIN turns : /\ turns[t].sess = c
                                  /\ t \in InLoop \/ turns[t].end \in {"failed", "cancelled"}
    BY <2>1 DEF Shared, QueuesFollowTurns
  <2>3. SettledAt(turns[t])
    BY <2>2, <1>1 DEF SettledAt, InLoop, Sane
  <2>4. /\ t \in DOMAIN turns' /\ turns'[t].sess = c
        /\ t \in InLoop' \/ turns'[t].end \in {"failed", "cancelled"}
    BY <2>2, <2>3, <1>1, <1>2 DEF Like
  <2>5. QED  BY <2>4
<1>6. QED  BY <1>3, <1>4, <1>5 DEF QueuesFollowTurns

LEMMA MuteKeeps ==
  ASSUME Shared, Base', Calm, Mute
  PROVE  Shared'
<1>t. Types'
  BY DEF Base
<1>1. /\ \A u \in DOMAIN turns : u \in DOMAIN turns' /\ Like(u)
      /\ \A u \in DOMAIN turns' \ DOMAIN turns : ~SettledAt(turns'[u])
      /\ \A u \in DOMAIN turns' : turns'[u] \in Turn /\ Sane(turns'[u])
      /\ ctx' = ctx /\ \A u \in DOMAIN turns : turns'[u].told = turns[u].told
  BY <1>t, SaneNext DEF Calm, Mute
<1>2. InLoop' = InLoop
  BY <1>1 DEF InLoop, Inside, Like, SettledAt
<1>3. Alone'
  <2> SUFFICES ASSUME NEW t \in InLoop', turns'[t].mixed = {}
               PROVE  ctx'.home = turns'[t].home /\ ctx'.sent = turns'[t].told
    BY DEF Alone
  <2>1. t \in InLoop /\ t \in DOMAIN turns /\ turns[t].mixed = {}
    BY <1>1, <1>2 DEF InLoop, Like
  <2>2. ctx.home = turns[t].home /\ ctx.sent = turns[t].told
    BY <2>1 DEF Shared, Alone
  <2>3. QED  BY <2>1, <2>2, <1>1 DEF Like
<1>4. AnsweredAlone'
  <2> SUFFICES ASSUME NEW t \in DOMAIN turns', turns'[t].end \in {"replied", "quiet"},
                      turns'[t].mixed = {}
               PROVE  (turns'[t].end = "replied") # turns'[t].told
    BY DEF AnsweredAlone
  <2>1. t \in DOMAIN turns
    BY <1>1 DEF Sane, SettledAt
  <2>2. QED  BY <2>1, <1>1 DEF Like, Shared, AnsweredAlone
<1>5. QED  BY <1>t, <1>3, <1>4, CalmKeeps DEF Shared

LEMMA EndKeeps ==
  ASSUME Shared, Base', NEW t, NEW e, EndsWith(t, e)
  PROVE  Shared'
<1>t. Types'
  BY DEF Base
<1>1. /\ t \in DOMAIN turns /\ turns[t].stage # "over" /\ DOMAIN turns' = DOMAIN turns
      /\ \A u \in DOMAIN turns : u # t => Like(u)
      /\ turns'[t].stage = "over" /\ turns'[t].end = e /\ turns'[t].mixed = turns[t].mixed
      /\ SettledAt(turns[t]) => turns'[t].sess = turns[t].sess
      /\ ctx' = ctx /\ \A u \in DOMAIN turns : turns'[u].told = turns[u].told
  BY DEF EndsWith, Mute
<1>2. /\ \A u \in DOMAIN turns : turns[u] \in Turn /\ Sane(turns[u])
      /\ steering \in [Chats -> [open : BOOLEAN, waiting : 0 .. MaxSteers]]
  BY TurnsHere DEF Shared, Base, Types, TypeOK
<1>3. InLoop' = InLoop \ {t}
  BY <1>1 DEF InLoop, Inside, Like
<1>4. \A u \in DOMAIN turns :
        SettledAt(turns[u]) => SettledAt(turns'[u]) /\ turns'[u].sess = turns[u].sess
  BY <1>1 DEF Like, SettledAt, Inside
<1>5. Mixing'
  <2> SUFFICES ASSUME NEW u \in DOMAIN turns
               PROVE  /\ turns'[u].mixed \subseteq
                           {w \in DOMAIN turns : turns'[w].stage \in {"llm", "tool", "over"}}
                      /\ u \in InLoop' => InLoop' \ {u} \subseteq turns'[u].mixed
    BY <1>1 DEF Mixing
  <2>1. turns'[u].mixed = turns[u].mixed
    BY <1>1 DEF Like
  <2>2. /\ turns[u].mixed \subseteq {w \in DOMAIN turns : SettledAt(turns[w])}
        /\ u \in InLoop => InLoop \ {u} \subseteq turns[u].mixed
    BY DEF Shared, Mixing, SettledAt
  <2>3. QED  BY <2>1, <2>2, <1>3, <1>4 DEF SettledAt
<1>6. Alone'
  <2> SUFFICES ASSUME NEW u \in InLoop', turns'[u].mixed = {}
               PROVE  ctx'.home = turns'[u].home /\ ctx'.sent = turns'[u].told
    BY DEF Alone
  <2>1. u \in InLoop /\ u # t /\ u \in DOMAIN turns
    BY <1>3 DEF InLoop
  <2>2. Like(u) /\ turns[u].mixed = {}
    BY <2>1, <1>1 DEF Like
  <2>3. ctx.home = turns[u].home /\ ctx.sent = turns[u].told
    BY <2>1, <2>2 DEF Shared, Alone
  <2>4. QED  BY <2>1, <2>2, <2>3, <1>1 DEF Like
<1>7. AnsweredAlone'
  <2> SUFFICES ASSUME NEW u \in DOMAIN turns, turns'[u].end \in {"replied", "quiet"},
                      turns'[u].mixed = {}
               PROVE  (turns'[u].end = "replied") # turns'[u].told
    BY <1>1 DEF AnsweredAlone
  <2>1. CASE u # t
    BY <2>1, <1>1 DEF Like, Shared, AnsweredAlone
  <2>2. CASE u = t
    <3>1. e \in {"replied", "quiet"} /\ turns[t].mixed = {}
      BY <2>2, <1>1
    <3>2. CASE turns[t].stage \in Inside
      <4>1. ctx.sent = turns[t].told
        BY <3>1, <3>2, <1>1 DEF Shared, Alone, InLoop, Inside
      <4>2. e = IF ctx.sent THEN "quiet" ELSE "replied"
        BY <3>1, <3>2 DEF EndsWith
      <4>3. turns[t].told \in BOOLEAN
        BY <1>1, <1>2 DEF Turn
      <4>4. QED  BY <4>1, <4>2, <4>3, <2>2, <1>1
    <3>3. CASE turns[t].stage \notin Inside
      <4>1. e = "replied"
        BY <3>1, <3>3 DEF EndsWith
      <4>2. turns[t].told = FALSE
        BY <1>1, <1>2, <3>3 DEF Turn, Stages, Sane, Inside
      <4>3. QED  BY <4>1, <4>2, <2>2, <1>1
    <3>4. QED  BY <3>2, <3>3
  <2>3. QED  BY <2>1, <2>2
<1>8. \A c \in Chats :
        steering'[c].open =
          (steering[c].open /\ (SameOpen \/ turns[t].stage \notin Inside \/ c # turns[t].sess))
  <2> TAKE c \in Chats
  <2>1. CASE SameOpen
    BY <2>1, <1>2 DEF SameOpen
  <2>2. CASE turns[t].stage \in Inside /\ steering' = [steering EXCEPT ![turns[t].sess] = NoQueue]
    BY <2>2, <1>2 DEF NoQueue, SameOpen
  <2>3. QED  BY <2>1, <2>2 DEF EndsWith
<1>9. ASSUME NEW u \in InLoop',
             \A w \in turns'[u].mixed : turns'[w].sess # turns'[u].sess
      PROVE  steering'[turns'[u].sess].open
  <2>1. u \in InLoop /\ u # t /\ u \in DOMAIN turns /\ SettledAt(turns[u])
    BY <1>3 DEF InLoop, SettledAt
  <2>2. /\ turns'[u].sess = turns[u].sess /\ turns[u].sess \in Chats
        /\ turns'[u].mixed = turns[u].mixed
    BY <2>1, <1>1, <1>2, <1>4 DEF Turn, Like
  <2>3. \A w \in turns[u].mixed : turns[w].sess # turns[u].sess
    <3> TAKE w \in turns[u].mixed
    <3>1. w \in DOMAIN turns /\ SettledAt(turns[w])
      BY <2>1 DEF Shared, Mixing, SettledAt
    <3>2. turns'[w].sess = turns[w].sess
      BY <3>1, <1>4
    <3>3. QED  BY <3>2, <2>2, <1>9
  <2>4. steering[turns[u].sess].open
    BY <2>1, <2>3 DEF Shared, QueuesFollowTurns
  <2>5. turns[t].stage \in Inside => turns[u].sess # turns[t].sess
    <3>1. turns[t].stage \in Inside => t \in turns[u].mixed
      BY <2>1, <1>1 DEF Shared, Mixing, InLoop, Inside
    <3>2. QED  BY <3>1, <2>3
  <2>6. QED  BY <2>2, <2>4, <2>5, <1>8
<1>10. ASSUME NEW c \in Chats, steering'[c].open
      PROVE  \E w \in DOMAIN turns' :
               /\ turns'[w].sess = c
               /\ w \in InLoop' \/ turns'[w].end \in {"failed", "cancelled"}
  <2>1. steering[c].open /\ (SameOpen \/ turns[t].stage \notin Inside \/ c # turns[t].sess)
    BY <1>8, <1>10
  <2>2. PICK w \in DOMAIN turns : /\ turns[w].sess = c
                                  /\ w \in InLoop \/ turns[w].end \in {"failed", "cancelled"}
    BY <2>1 DEF Shared, QueuesFollowTurns
  <2>3. SettledAt(turns[w])
    BY <2>2, <1>2 DEF SettledAt, InLoop, Sane
  <2>4. turns'[w].sess = c
    BY <2>2, <2>3, <1>4
  <2>5. w \in InLoop' \/ turns'[w].end \in {"failed", "cancelled"}
    <3>1. CASE w # t
      BY <3>1, <2>2, <1>1, <1>3 DEF Like
    <3>2. CASE w = t
      <4>1. turns[t].end = "none"
        BY <1>1, <1>2 DEF Sane
      <4>2. turns[t].stage \in Inside
        BY <4>1, <3>2, <2>2 DEF InLoop, Inside
      <4>3. SameOpen
        BY <4>2, <3>2, <2>1, <2>2
      <4>4. e \in {"failed", "cancelled"} \/ ~steering'[turns[t].sess].open
        BY <4>2, <1>2 DEF EndsWith, NoQueue, Turn
      <4>5. QED  BY <4>4, <3>2, <2>2, <1>1, <1>10
    <3>3. QED  BY <3>1, <3>2
  <2>6. QED  BY <2>4, <2>5, <1>1
<1>11. QED  BY <1>t, <1>5, <1>6, <1>7, <1>9, <1>10 DEF Shared, QueuesFollowTurns

LEMMA MetOthers ==
  ASSUME Types, NEW t \in DOMAIN turns, turns[t].stage = "prep", NEW x \in SaneTurn,
         Meets(t, x), NEW u \in DOMAIN turns, u # t
  PROVE  /\ turns'[u].stage = turns[u].stage /\ turns'[u].sess = turns[u].sess
         /\ turns'[u].home = turns[u].home /\ turns'[u].end = turns[u].end
         /\ turns'[u].told = turns[u].told
         /\ turns'[u].mixed = IF u \in InLoop THEN turns[u].mixed \cup {t} ELSE turns[u].mixed
<1>1. turns[u] \in Turn
  BY TurnsHere
<1>2. CASE u \in InLoop
  <2>1. turns'[u] = [turns[u] EXCEPT !.mixed = @ \cup {t}]
    BY <1>2, MetTurns
  <2>2. QED  BY <2>1, <1>1, <1>2 DEF Turn
<1>3. CASE u \notin InLoop
  <2>1. turns'[u] = turns[u]
    BY <1>3, MetTurns
  <2>2. QED  BY <2>1, <1>3
<1>4. QED  BY <1>2, <1>3

\* A turn enters its loop: the others inside are told of it, and it of them.
LEMMA EnterKeeps ==
  ASSUME Shared, Base', NEW t, TurnEnters(t)
  PROVE  Shared'
<1>1. /\ t \in DOMAIN turns /\ turns[t].stage = "prep" /\ Meets(t, Entered(t))
      /\ Entered(t) \in SaneTurn /\ SetContext(t)
      /\ steering' = [steering EXCEPT ![turns[t].sess] = Queue(0)]
  BY TypesTurnEnters DEF Shared, Base, TurnEnters
<1>2. /\ \A u \in DOMAIN turns : turns[u] \in Turn /\ Sane(turns[u])
      /\ steering \in [Chats -> [open : BOOLEAN, waiting : 0 .. MaxSteers]]
  BY TurnsHere DEF Shared, Base, Types, TypeOK
<1>3. /\ Entered(t).stage = "llm" /\ Entered(t).mixed = InLoop /\ Entered(t).told = FALSE
      /\ Entered(t).sess = turns[t].sess /\ Entered(t).home = turns[t].home
      /\ Entered(t).end = "none"
  BY <1>1, <1>2 DEF Entered, Turn, Sane
<1>4. /\ DOMAIN turns' = DOMAIN turns /\ turns'[t] = Entered(t)
      /\ \A u \in InLoop : /\ u # t /\ u \in DOMAIN turns
                           /\ turns'[u] = [turns[u] EXCEPT !.mixed = @ \cup {t}]
      /\ \A u \in DOMAIN turns \ InLoop : u # t => turns'[u] = turns[u]
  BY <1>1, MetTurns DEF Shared, Base
<1>5. ASSUME NEW u \in DOMAIN turns, u # t
      PROVE  /\ turns'[u].stage = turns[u].stage /\ turns'[u].sess = turns[u].sess
             /\ turns'[u].home = turns[u].home /\ turns'[u].end = turns[u].end
             /\ turns'[u].told = turns[u].told
             /\ turns'[u].mixed = IF u \in InLoop THEN turns[u].mixed \cup {t} ELSE turns[u].mixed
  BY <1>1, <1>5, MetOthers DEF Shared, Base
<1>6. InLoop' = InLoop \cup {t} /\ t \notin InLoop
  <2>1. \A u \in DOMAIN turns : u # t => turns'[u].stage = turns[u].stage
    BY <1>5
  <2>2. QED  BY <2>1, <1>1, <1>3, <1>4 DEF InLoop
<1>7. \A u \in DOMAIN turns :
        SettledAt(turns[u]) => u # t /\ SettledAt(turns'[u]) /\ turns'[u].sess = turns[u].sess
  BY <1>1, <1>5 DEF SettledAt
<1>8. Mixing'
  <2> SUFFICES ASSUME NEW u \in DOMAIN turns
               PROVE  /\ turns'[u].mixed \subseteq
                           {w \in DOMAIN turns : turns'[w].stage \in {"llm", "tool", "over"}}
                      /\ u \in InLoop' => InLoop' \ {u} \subseteq turns'[u].mixed
    BY <1>4 DEF Mixing
  <2>1. /\ turns[u].mixed \subseteq {w \in DOMAIN turns : SettledAt(turns[w])}
        /\ u \in InLoop => InLoop \ {u} \subseteq turns[u].mixed
    BY DEF Shared, Mixing, SettledAt
  <2>2. InLoop \subseteq {w \in DOMAIN turns : SettledAt(turns[w])}
    BY DEF InLoop, SettledAt
  <2>3. SettledAt(turns'[t])
    BY <1>3, <1>4 DEF SettledAt
  <2>4. CASE u = t
    <3>1. turns'[u].mixed = InLoop
      BY <2>4, <1>3, <1>4
    <3>2. QED  BY <3>1, <2>2, <2>4, <1>6, <1>7 DEF SettledAt
  <2>5. CASE u # t
    <3>1. turns'[u].mixed \subseteq turns[u].mixed \cup {t}
      BY <2>5, <1>5
    <3>2. turns'[u].mixed \subseteq {w \in DOMAIN turns : SettledAt(turns'[w])}
      BY <3>1, <2>1, <2>3, <1>1, <1>7
    <3>3. u \in InLoop' => InLoop' \ {u} \subseteq turns'[u].mixed
      BY <2>5, <2>1, <1>5, <1>6
    <3>4. QED  BY <3>2, <3>3 DEF SettledAt
  <2>6. QED  BY <2>4, <2>5
<1>9. Alone'
  <2> SUFFICES ASSUME NEW u \in InLoop', turns'[u].mixed = {}
               PROVE  ctx'.home = turns'[u].home /\ ctx'.sent = turns'[u].told
    BY DEF Alone
  <2>1. u = t
    <3>1. u \in InLoop => t \in turns'[u].mixed
      BY <1>5, <1>4
    <3>2. QED  BY <3>1, <1>6
  <2>2. ctx'.home = turns[t].home /\ ctx'.sent = FALSE
    BY <1>1, ContextTypes DEF Shared, Base
  <2>3. QED  BY <2>1, <2>2, <1>3, <1>4
<1>10. AnsweredAlone'
  <2> SUFFICES ASSUME NEW u \in DOMAIN turns, turns'[u].end \in {"replied", "quiet"},
                      turns'[u].mixed = {}
               PROVE  (turns'[u].end = "replied") # turns'[u].told
    BY <1>4 DEF AnsweredAlone
  <2>1. u # t
    <3>1. turns'[t].end = "none"
      BY <1>3, <1>4
    <3>2. QED  BY <3>1
  <2>3. u \notin InLoop
    BY <2>1, <1>2, <1>5 DEF InLoop, Sane
  <2>2. QED  BY <2>1, <2>3, <1>5 DEF Shared, AnsweredAlone
<1>11. /\ steering'[turns[t].sess].open /\ turns[t].sess \in Chats
       /\ \A c \in Chats : c # turns[t].sess => steering'[c] = steering[c]
  <2>1. turns[t].sess \in Chats
    BY <1>1, <1>2 DEF Turn
  <2>2. Queue(0).open
    BY DEF Queue
  <2>3. QED  BY <2>1, <2>2, <1>1, <1>2
<1>12. ASSUME NEW u \in InLoop',
              \A w \in turns'[u].mixed : turns'[w].sess # turns'[u].sess
       PROVE  steering'[turns'[u].sess].open
  <2>1. CASE u = t
    BY <2>1, <1>3, <1>4, <1>11
  <2>2. CASE u # t
    <3>1. /\ u \in InLoop /\ u \in DOMAIN turns /\ turns'[u].sess = turns[u].sess
          /\ turns[u].mixed \subseteq turns'[u].mixed /\ turns[u].sess \in Chats
      BY <2>2, <1>2, <1>5, <1>6 DEF InLoop, Turn
    <3>2. \A w \in turns[u].mixed : turns[w].sess # turns[u].sess
      <4> TAKE w \in turns[u].mixed
      <4>1. w \in DOMAIN turns /\ SettledAt(turns[w])
        BY <3>1 DEF Shared, Mixing, SettledAt
      <4>2. turns'[w].sess = turns[w].sess
        BY <4>1, <1>7
      <4>3. QED  BY <4>2, <3>1, <1>12
    <3>3. steering[turns[u].sess].open
      BY <3>1, <3>2 DEF Shared, QueuesFollowTurns
    <3>4. QED  BY <3>1, <3>3, <1>11
  <2>3. QED  BY <2>1, <2>2
<1>13. ASSUME NEW c \in Chats, steering'[c].open
       PROVE  \E w \in DOMAIN turns' :
                /\ turns'[w].sess = c
                /\ w \in InLoop' \/ turns'[w].end \in {"failed", "cancelled"}
  <2>1. CASE c = turns[t].sess
    BY <2>1, <1>1, <1>3, <1>4, <1>6
  <2>2. CASE c # turns[t].sess
    <3>1. steering[c].open
      BY <2>2, <1>11, <1>13
    <3>2. PICK w \in DOMAIN turns : /\ turns[w].sess = c
                                    /\ w \in InLoop \/ turns[w].end \in {"failed", "cancelled"}
      BY <3>1 DEF Shared, QueuesFollowTurns
    <3>3. w # t
      BY <2>2, <3>2
    <3>4. QED  BY <3>2, <3>3, <1>4, <1>5, <1>6
  <2>3. QED  BY <2>1, <2>2
<1>14. QED  BY <1>8, <1>9, <1>10, <1>12, <1>13 DEF Shared, QueuesFollowTurns

\* A short turn takes the context over without entering a loop.
LEMMA ShortKeeps ==
  ASSUME Shared, Base', NEW t, TurnIsShort(t)
  PROVE  Shared'
<1>1. /\ t \in DOMAIN turns /\ turns[t].stage = "prep" /\ Meets(t, Shortly(t))
      /\ Shortly(t) \in SaneTurn /\ steering' = steering
  BY TypesTurnIsShort DEF Shared, Base, TurnIsShort
<1>2. /\ \A u \in DOMAIN turns : turns[u] \in Turn /\ Sane(turns[u])
  BY TurnsHere DEF Shared, Base
<1>3. /\ Shortly(t).stage = "over" /\ Shortly(t).mixed = {} /\ Shortly(t).told = FALSE
      /\ Shortly(t).end \in {"noted", "replied"}
  BY <1>1, <1>2 DEF Shortly, Over, Turn, Sane
<1>4. /\ DOMAIN turns' = DOMAIN turns /\ turns'[t] = Shortly(t)
      /\ \A u \in InLoop : /\ u # t /\ u \in DOMAIN turns
                           /\ turns'[u] = [turns[u] EXCEPT !.mixed = @ \cup {t}]
      /\ \A u \in DOMAIN turns \ InLoop : u # t => turns'[u] = turns[u]
  BY <1>1, MetTurns DEF Shared, Base
<1>5. ASSUME NEW u \in DOMAIN turns, u # t
      PROVE  /\ turns'[u].stage = turns[u].stage /\ turns'[u].sess = turns[u].sess
             /\ turns'[u].home = turns[u].home /\ turns'[u].end = turns[u].end
             /\ turns'[u].told = turns[u].told
             /\ turns'[u].mixed = IF u \in InLoop THEN turns[u].mixed \cup {t} ELSE turns[u].mixed
  BY <1>1, <1>5, MetOthers DEF Shared, Base
<1>6. InLoop' = InLoop /\ t \notin InLoop
  BY <1>1, <1>3, <1>4, <1>5 DEF InLoop
<1>7. \A u \in DOMAIN turns :
        SettledAt(turns[u]) => u # t /\ SettledAt(turns'[u]) /\ turns'[u].sess = turns[u].sess
  BY <1>1, <1>5 DEF SettledAt
<1>8. Mixing'
  <2> SUFFICES ASSUME NEW u \in DOMAIN turns
               PROVE  /\ turns'[u].mixed \subseteq
                           {w \in DOMAIN turns : turns'[w].stage \in {"llm", "tool", "over"}}
                      /\ u \in InLoop' => InLoop' \ {u} \subseteq turns'[u].mixed
    BY <1>4 DEF Mixing
  <2>1. /\ turns[u].mixed \subseteq {w \in DOMAIN turns : SettledAt(turns[w])}
        /\ u \in InLoop => InLoop \ {u} \subseteq turns[u].mixed
    BY DEF Shared, Mixing, SettledAt
  <2>2. SettledAt(turns'[t])
    BY <1>3, <1>4 DEF SettledAt
  <2>3. CASE u = t
    BY <2>3, <1>3, <1>4, <1>6
  <2>4. CASE u # t
    <3>1. turns'[u].mixed \subseteq turns[u].mixed \cup {t}
      BY <2>4, <1>5
    <3>2. turns'[u].mixed \subseteq {w \in DOMAIN turns : SettledAt(turns'[w])}
      BY <3>1, <2>1, <2>2, <1>1, <1>7
    <3>3. u \in InLoop' => InLoop' \ {u} \subseteq turns'[u].mixed
      BY <2>4, <2>1, <1>5, <1>6
    <3>4. QED  BY <3>2, <3>3 DEF SettledAt
  <2>5. QED  BY <2>3, <2>4
<1>9. \A u \in InLoop' : turns'[u].mixed # {}
  BY <1>4, <1>5, <1>6
<1>10. AnsweredAlone'
  <2> SUFFICES ASSUME NEW u \in DOMAIN turns, turns'[u].end \in {"replied", "quiet"},
                      turns'[u].mixed = {}
               PROVE  (turns'[u].end = "replied") # turns'[u].told
    BY <1>4 DEF AnsweredAlone
  <2>1. CASE u = t
    BY <2>1, <1>3, <1>4
  <2>2. CASE u # t
    <3>1. u \notin InLoop
      BY <1>6, <1>9
    <3>2. QED  BY <2>2, <3>1, <1>5 DEF Shared, AnsweredAlone
  <2>3. QED  BY <2>1, <2>2
<1>11. ASSUME NEW u \in InLoop',
              \A w \in turns'[u].mixed : turns'[w].sess # turns'[u].sess
       PROVE  steering'[turns'[u].sess].open
  <2>1. /\ u \in InLoop /\ u \in DOMAIN turns /\ turns'[u].sess = turns[u].sess
        /\ turns[u].mixed \subseteq turns'[u].mixed
    BY <1>5, <1>6 DEF InLoop
  <2>2. \A w \in turns[u].mixed : turns[w].sess # turns[u].sess
    <3> TAKE w \in turns[u].mixed
    <3>1. w \in DOMAIN turns /\ SettledAt(turns[w])
      BY <2>1 DEF Shared, Mixing, SettledAt
    <3>2. turns'[w].sess = turns[w].sess
      BY <3>1, <1>7
    <3>3. QED  BY <3>2, <2>1, <1>11
  <2>3. steering[turns[u].sess].open
    BY <2>1, <2>2 DEF Shared, QueuesFollowTurns
  <2>4. QED  BY <2>1, <2>3, <1>1
<1>12. ASSUME NEW c \in Chats, steering'[c].open
       PROVE  \E w \in DOMAIN turns' :
                /\ turns'[w].sess = c
                /\ w \in InLoop' \/ turns'[w].end \in {"failed", "cancelled"}
  <2>1. PICK w \in DOMAIN turns : /\ turns[w].sess = c
                                  /\ w \in InLoop \/ turns[w].end \in {"failed", "cancelled"}
    BY <1>1, <1>12 DEF Shared, QueuesFollowTurns
  <2>2. w # t
    BY <2>1, <1>1, <1>2, <1>6 DEF Sane
  <2>3. QED  BY <2>1, <2>2, <1>4, <1>5, <1>6
<1>13. QED  BY <1>8, <1>9, <1>10, <1>11, <1>12 DEF Shared, QueuesFollowTurns, Alone

\* The message tool: a turn that is alone writes where its own context points.
LEMMA SendKeeps ==
  ASSUME Shared, Base', NEW t, NEW c \in Chats, ToolSendsMessage(t, c)
  PROVE  Shared'
<1>t. Types'
  BY DEF Base
<1>1. /\ t \in DOMAIN turns /\ turns[t].stage = "tool" /\ Told(t, c) \in SaneTurn
      /\ Becomes(t, Told(t, c)) /\ turns[t] \in Turn /\ Sane(turns[t])
      /\ steering' = steering
  BY TypesToolSends, TurnsHere DEF Shared, Base, ToolSendsMessage
<1>2. /\ Told(t, c).stage = "tool" /\ Told(t, c).mixed = turns[t].mixed
      /\ Told(t, c).end = turns[t].end /\ Told(t, c).home = turns[t].home
      /\ Told(t, c).sess = turns[t].sess
      /\ Told(t, c).told = (turns[t].told \/ c = turns[t].home)
  BY <1>1 DEF Told, Turn
<1>3. /\ DOMAIN turns' = DOMAIN turns /\ turns'[t] = Told(t, c)
      /\ \A u \in DOMAIN turns : u # t => turns'[u] = turns[u]
  BY <1>1, OneTurn DEF Shared, Base
<1>4. Calm
  BY <1>1, <1>2, <1>3 DEF Calm, Like, SameOpen
<1>5. Mixing' /\ QueuesFollowTurns'
  BY <1>t, <1>4, CalmKeeps
<1>6. InLoop' = InLoop /\ t \in InLoop
  BY <1>1, <1>2, <1>3 DEF InLoop
<1>7. Alone'
  <2> SUFFICES ASSUME NEW u \in InLoop', turns'[u].mixed = {}
               PROVE  ctx'.home = turns'[u].home /\ ctx'.sent = turns'[u].told
    BY DEF Alone
  <2>1. u \in DOMAIN turns /\ turns[u].mixed = {} /\ u \in InLoop
    BY <1>2, <1>3, <1>6 DEF InLoop
  <2>2. u = t
    BY <2>1, <1>6 DEF Shared, Mixing
  <2>3. ctx.home = turns[t].home /\ ctx.sent = turns[t].told
    BY <2>1, <2>2 DEF Shared, Alone
  <2>4. CASE c = ctx.home
    <3>1. ctx' = [ctx EXCEPT !.sent = TRUE]
      BY <2>4 DEF ToolSendsMessage
    <3>2. ctx \in [home : Chats \cup {NoChat}, sess : Chats \cup {NoChat}, sent : BOOLEAN]
      BY DEF Shared, Base, Types, TypeOK
    <3>3. ctx'.home = ctx.home /\ ctx'.sent = TRUE
      BY <3>1, <3>2
    <3>4. QED  BY <3>3, <2>2, <2>3, <2>4, <1>2, <1>3
  <2>5. CASE c # ctx.home
    <3>1. ctx' = ctx
      BY <2>5 DEF ToolSendsMessage
    <3>2. turns[t].told \in BOOLEAN
      BY <1>1 DEF Turn
    <3>3. Told(t, c).told = turns[t].told
      BY <3>2, <2>3, <2>5, <1>2
    <3>4. QED  BY <3>1, <3>3, <2>2, <2>3, <1>2, <1>3
  <2>6. QED  BY <2>4, <2>5
<1>8. AnsweredAlone'
  <2> SUFFICES ASSUME NEW u \in DOMAIN turns, turns'[u].end \in {"replied", "quiet"},
                      turns'[u].mixed = {}
               PROVE  (turns'[u].end = "replied") # turns'[u].told
    BY <1>3 DEF AnsweredAlone
  <2>1. u # t
    BY <1>1, <1>2, <1>3 DEF Sane
  <2>2. QED  BY <2>1, <1>3 DEF Shared, AnsweredAlone
<1>9. QED  BY <1>5, <1>7, <1>8 DEF Shared

LEMMA OneCalm ==
  ASSUME Types, NEW t \in DOMAIN turns, NEW x \in SaneTurn, Becomes(t, x),
         x.mixed = turns[t].mixed, x.end = turns[t].end, x.home = turns[t].home,
         x.told = turns[t].told, x.stage \in Inside <=> turns[t].stage \in Inside,
         x.stage = "over" <=> turns[t].stage = "over",
         SettledAt(turns[t]) => x.sess = turns[t].sess,
         ctx' = ctx, SameOpen
  PROVE  Calm /\ Mute
<1>1. /\ DOMAIN turns' = DOMAIN turns /\ turns'[t] = x
      /\ \A u \in DOMAIN turns : u # t => turns'[u] = turns[u]
  BY OneTurn
<1>2. QED  BY <1>1 DEF Calm, Mute, Like

LEMMA NewcomerCalm ==
  ASSUME Types, NEW x \in SaneTurn, Len(turns) < MaxTurns, turns' = Append(turns, x),
         ~SettledAt(x), ctx' = ctx, SameOpen
  PROVE  Calm /\ Mute
<1>1. /\ DOMAIN turns' = DOMAIN turns \cup {Len(turns) + 1} /\ turns'[Len(turns) + 1] = x
      /\ \A u \in DOMAIN turns : turns'[u] = turns[u]
  BY OneMore
<1>2. QED  BY <1>1 DEF Calm, Mute, Like

LEMMA PostCalm ==
  ASSUME Types, NEW kind \in Kinds, NEW c \in Chats, NEW k \in Chats, Post(kind, c, k),
         ctx' = ctx, steering' = steering
  PROVE  Calm /\ Mute
<1>1. /\ Fresh(kind, "bus", c, k) \in SaneTurn /\ Len(turns) < MaxTurns
      /\ turns' = Append(turns, Fresh(kind, "bus", c, k))
      /\ Fresh(kind, "bus", c, k).stage = "inbound"
  BY FreshSane DEF Post, Fresh
<1>2. QED  BY <1>1, NewcomerCalm DEF SettledAt, SameOpen

\* x is what becomes of t when it ends.
LEMMA OneEnds ==
  ASSUME Types, NEW t \in DOMAIN turns, NEW y \in SaneTurn, ~y.due, turns[t].stage # "over",
         NEW e \in Ends \ {"none"}, Becomes(t, Over(y, e)),
         y.mixed = turns[t].mixed, y.told = turns[t].told,
         SettledAt(turns[t]) => y.sess = turns[t].sess,
         ctx' = ctx,
         \/ steering' = steering /\ (turns[t].stage \in Inside => e \in {"failed", "cancelled"})
         \/ /\ turns[t].stage \in Inside
            /\ steering' = [steering EXCEPT ![turns[t].sess] = NoQueue],
         e \in {"replied", "quiet"} =>
           IF turns[t].stage \in Inside THEN e = (IF ctx.sent THEN "quiet" ELSE "replied")
                                        ELSE e = "replied"
  PROVE  EndsWith(t, e)
<1>1. PICK x : x = Over(y, e)
  OBVIOUS
<1>2. /\ x \in SaneTurn /\ x.stage = "over" /\ x.end = e /\ x.mixed = turns[t].mixed
      /\ x.told = turns[t].told /\ x.sess = y.sess
  BY <1>1, OverSane
<1>3. /\ DOMAIN turns' = DOMAIN turns /\ turns'[t] = x
      /\ \A u \in DOMAIN turns : u # t => turns'[u] = turns[u]
  BY <1>1, <1>2, OneTurn
<1>4. /\ \A u \in DOMAIN turns : u # t => Like(u)
      /\ Mute
  BY <1>2, <1>3 DEF Like, Mute
<1>5. steering' = steering => SameOpen
  BY DEF SameOpen
<1>6. QED  BY <1>2, <1>3, <1>4, <1>5 DEF EndsWith

LEMMA SharedTurn ==
  ASSUME Shared, Base', NEW t, TurnSteps(t)
  PROVE  Shared'
<1>t. Types
  BY DEF Shared, Base
<1>q. ASSUME t \in DOMAIN turns PROVE turns[t] \in Turn /\ Sane(turns[t]) /\ turns[t] \in SaneTurn
  BY <1>q, <1>t, TurnsHere DEF SaneTurn
<1>1. CASE TurnStarts(t)
  <2>1. PICK s \in Chats : Becomes(t, [turns[t] EXCEPT !.stage = "prep", !.sess = s])
    BY <1>1, <1>t, TypesTurnStarts
  <2>2. /\ t \in DOMAIN turns /\ turns[t].stage = "line" /\ ctx' = ctx /\ SameOpen
    BY <1>1 DEF TurnStarts, Live, AtHead, SameOpen
  <2> DEFINE x == [turns[t] EXCEPT !.stage = "prep", !.sess = s]
  <2>3. /\ x \in SaneTurn /\ x.stage = "prep" /\ x.mixed = turns[t].mixed
        /\ x.end = turns[t].end /\ x.home = turns[t].home /\ x.told = turns[t].told
    BY <2>2, <1>q DEF SaneTurn, Sane, Turn, Stages
  <2> HIDE DEF x
  <2>4. Becomes(t, x)
    BY <2>1 DEF x
  <2>5. Calm /\ Mute
    BY <1>t, <2>2, <2>3, <2>4, OneCalm DEF SettledAt, Inside
  <2>6. QED  BY <2>5, MuteKeeps
<1>2. CASE TurnAnswersCommand(t)
  <2>1. PICK s \in Chats : Becomes(t, Over([turns[t] EXCEPT !.sess = s], "replied"))
    BY <1>2, <1>t, TypesTurnAnswersCommand
  <2>2. /\ t \in DOMAIN turns /\ turns[t].stage = "line" /\ ctx' = ctx /\ steering' = steering
    BY <1>2 DEF TurnAnswersCommand, Live, AtHead
  <2> DEFINE y == [turns[t] EXCEPT !.sess = s]
  <2>3. /\ y \in SaneTurn /\ ~y.due /\ y.mixed = turns[t].mixed
        /\ y.told = turns[t].told /\ "replied" \in Ends \ {"none"}
    BY <2>2, <1>q DEF SaneTurn, Sane, Turn, Stages, Ends
  <2>4. Becomes(t, Over(y, "replied"))
    BY <2>1
  <2> HIDE DEF y
  <2>5. EndsWith(t, "replied")
    BY <1>t, <2>2, <2>3, <2>4, OneEnds DEF SettledAt, Inside
  <2>6. QED  BY <2>5, EndKeeps
<1>3. CASE LlmCallsTools(t) \/ NextTool(t)
  <2>1. /\ t \in DOMAIN turns /\ CallsTool(t) \in SaneTurn /\ turns[t].stage \in Inside
        /\ Becomes(t, CallsTool(t)) /\ ctx' = ctx /\ SameOpen
    BY <1>3, <1>t, TypesTool DEF LlmCallsTools, NextTool, SameOpen
  <2>2. /\ CallsTool(t).stage = "tool" /\ CallsTool(t).mixed = turns[t].mixed
        /\ CallsTool(t).end = turns[t].end /\ CallsTool(t).home = turns[t].home
        /\ CallsTool(t).told = turns[t].told /\ CallsTool(t).sess = turns[t].sess
    BY <2>1, <1>q DEF CallsTool, Turn
  <2>3. Calm /\ Mute
    BY <1>t, <2>1, <2>2, OneCalm DEF Inside
  <2>4. QED  BY <2>3, MuteKeeps
<1>4. CASE NextCall(t)
  <2>1. /\ t \in DOMAIN turns /\ CallsNext(t) \in SaneTurn /\ turns[t].stage \in Inside
        /\ Becomes(t, CallsNext(t)) /\ ctx' = ctx
    BY <1>4, <1>t, TypesNextCall DEF NextCall
  <2>2. /\ CallsNext(t).stage = "llm" /\ CallsNext(t).mixed = turns[t].mixed
        /\ CallsNext(t).end = turns[t].end /\ CallsNext(t).home = turns[t].home
        /\ CallsNext(t).told = turns[t].told /\ CallsNext(t).sess = turns[t].sess
    BY <2>1, <1>q DEF CallsNext, Turn
  <2>3. SameOpen
    <3>1. /\ steering \in [Chats -> [open : BOOLEAN, waiting : 0 .. MaxSteers]]
          /\ steering' = [steering EXCEPT ![turns[t].sess].waiting = 0]
      BY <1>4, <1>t DEF NextCall, Types, TypeOK
    <3>2. QED  BY <3>1 DEF SameOpen
  <2>4. Calm /\ Mute
    BY <1>t, <2>1, <2>2, <2>3, OneCalm DEF Inside
  <2>5. QED  BY <2>4, MuteKeeps
<1>5. CASE TurnAnswers(t) \/ WallTimeout(t)
  <2> DEFINE e == IF ctx.sent THEN "quiet" ELSE "replied"
  <2>1. /\ t \in DOMAIN turns /\ ~turns[t].due /\ Becomes(t, Over(turns[t], e))
        /\ turns[t].stage \in Inside /\ ctx' = ctx
        /\ steering' = [steering EXCEPT ![turns[t].sess] = NoQueue]
    BY <1>5, <1>t, TypesAnswer DEF TurnAnswers, WallTimeout
  <2>2. e \in Ends \ {"none"} /\ e = (IF ctx.sent THEN "quiet" ELSE "replied")
    BY DEF Ends
  <2> HIDE DEF e
  <2>3. turns[t] \in SaneTurn /\ turns[t].stage # "over"
    BY <2>1, <1>q DEF Inside
  <2>4. EndsWith(t, e)
    BY <1>t, <2>1, <2>2, <2>3, OneEnds
  <2>5. QED  BY <2>4, EndKeeps
<1>6. ASSUME NEW e, \/ TurnFails(t) /\ e = "failed"
                    \/ TurnIsCancelled(t) /\ e = "cancelled"
      PROVE  Shared'
  <2>1. /\ t \in DOMAIN turns /\ turns[t].stage # "over" /\ ~turns[t].due
        /\ Becomes(t, Over(turns[t], e)) /\ ctx' = ctx /\ steering' = steering
    BY <1>6, <1>t, TypesEnd
  <2>2. e \in Ends \ {"none"} /\ e \in {"failed", "cancelled"}
    BY <1>6 DEF Ends
  <2>3. turns[t] \in SaneTurn
    BY <2>1, <1>q
  <2>4. EndsWith(t, e)
    BY <1>t, <2>1, <2>2, <2>3, OneEnds
  <2>5. QED  BY <2>4, EndKeeps
<1>7. CASE TurnEnters(t) \/ TurnIsShort(t)
  BY <1>7, EnterKeeps, ShortKeeps
<1>8. QED
  BY <1>1, <1>2, <1>3, <1>4, <1>5, <1>6, <1>7 DEF TurnSteps

LEMMA SharedTool ==
  ASSUME Shared, Base', NEW t, ToolSteps(t)
  PROVE  Shared'
<1>t. Types
  BY DEF Shared, Base
<1>1. CASE ToolSpawns(t) \/ ToolReturns(t)
  <2>1. /\ t \in DOMAIN turns /\ Done(t) \in SaneTurn /\ turns[t].stage = "tool"
        /\ Becomes(t, Done(t)) /\ ctx' = ctx /\ SameOpen
    BY <1>1, <1>t, TypesToolEnds DEF ToolSpawns, ToolReturns, SameOpen
  <2>2. turns[t] \in Turn
    BY <2>1, <1>t, TurnsHere
  <2>3. /\ Done(t).stage = "tool" /\ Done(t).mixed = turns[t].mixed
        /\ Done(t).end = turns[t].end /\ Done(t).home = turns[t].home
        /\ Done(t).told = turns[t].told /\ Done(t).sess = turns[t].sess
    BY <2>1, <2>2 DEF Done, Turn
  <2>4. Calm /\ Mute
    BY <1>t, <2>1, <2>3, OneCalm
  <2>5. QED  BY <2>4, MuteKeeps
<1>2. ASSUME NEW c \in Chats, ToolSendsMessage(t, c) PROVE Shared'
  BY <1>2, SendKeeps
<1>3. QED  BY <1>1, <1>2 DEF ToolSteps

LEMMA SharedStep == Shared /\ Base' /\ [Next]_vars => Shared'
<1> SUFFICES ASSUME Shared, Base', [Next]_vars PROVE Shared'
  OBVIOUS
<1>t. Types /\ Queues /\ Base
  BY DEF Shared, Base
<1>q. \A u \in DOMAIN turns : turns[u] \in Turn
  BY <1>t, TurnsHere
<1>1. ASSUME UNCHANGED <<turns, ctx, steering>> PROVE Shared'
  <2>1. Calm /\ Mute
    BY <1>1 DEF Calm, Mute, Like, SameOpen
  <2>2. QED  BY <2>1, MuteKeeps
<1>2. CASE LoopTakes
  <2>1. CASE LoopDispatches
    <3> DEFINE h == Head(inbound)
    <3>1. /\ h \in DOMAIN turns /\ Lined(h) \in SaneTurn /\ Becomes(h, Lined(h))
          /\ turns[h].stage = "inbound" /\ ctx' = ctx /\ SameOpen
      BY <2>1, <1>t, TypesLoopDispatches, QueuedHere DEF LoopDispatches, SameOpen
    <3> HIDE DEF h
    <3>2. /\ Lined(h).stage = "line" /\ Lined(h).mixed = turns[h].mixed
          /\ Lined(h).end = turns[h].end /\ Lined(h).home = turns[h].home
          /\ Lined(h).told = turns[h].told /\ Lined(h).sess = turns[h].sess
      BY <3>1, <1>q DEF Lined, Turn
    <3>3. Calm /\ Mute
      BY <1>t, <3>1, <3>2, OneCalm DEF Inside
    <3>4. QED  BY <3>3, MuteKeeps
  <2>2. CASE LoopStops
    <3>1. /\ DOMAIN turns' = DOMAIN turns /\ ctx' = ctx /\ SameOpen
          /\ \A u \in DOMAIN turns : StaysAs(u)
      BY <2>2, <1>t, TypesLoopStops DEF LoopStops, SameOpen
    <3>2. ASSUME NEW u \in DOMAIN turns PROVE Like(u) /\ turns'[u].told = turns[u].told
      <4>1. turns'[u] = turns[u] \/ turns'[u] = [turns[u] EXCEPT !.doomed = TRUE]
        BY <3>1 DEF StaysAs
      <4>2. turns[u] \in Turn
        BY <1>q
      <4>3. QED  BY <4>1, <4>2 DEF Like, Turn
    <3>3. Calm /\ Mute
      BY <3>1, <3>2 DEF Calm, Mute
    <3>4. QED  BY <3>3, MuteKeeps
  <2>3. QED  BY <1>2, <2>1, <2>2, LoopCases
<1>3. CASE StopDone
  <2>1. /\ halting \in DOMAIN turns /\ Becomes(halting, Over(turns[halting], "halted"))
        /\ turns[halting].stage = "inbound" /\ ctx' = ctx /\ steering' = steering
    BY <1>3, <1>t, TypesStopDone DEF Halted, StopDone, Queues, HaltingIsStop
  <2>2. /\ turns[halting] \in SaneTurn /\ ~turns[halting].due /\ "halted" \in Ends \ {"none"}
    BY <2>1, <1>t, TurnsHere DEF SaneTurn, Sane, Ends
  <2>3. EndsWith(halting, "halted")
    BY <1>t, <2>1, <2>2, OneEnds DEF Inside
  <2>4. QED  BY <2>3, EndKeeps
<1>4. ASSUME NEW t, TurnSteps(t) \/ ToolSteps(t) PROVE Shared'
  BY <1>4, SharedTurn, SharedTool
<1>5. ASSUME NEW p \in Posts, Arrive(p[1], p[2]) PROVE Shared'
  <2>1. Calm /\ Mute
    BY <1>5, <1>t, ArriveIsPost, PostCalm
  <2>2. QED  BY <2>1, MuteKeeps
<1>6. ASSUME NEW p \in Calls, Direct(p[1], p[2]) PROVE Shared'
  <2>1. p[1] \in Chats /\ p[2] \in Chats
    BY ConstantsAreSane
  <2>2. PICK s \in Chats :
          /\ turns' = Append(turns, [Fresh("ask", "direct", p[1], p[2])
                                       EXCEPT !.sess = s, !.stage = "prep"])
          /\ [Fresh("ask", "direct", p[1], p[2]) EXCEPT !.sess = s, !.stage = "prep"] \in SaneTurn
    BY <2>1, <1>6, <1>t, TypesDirect
  <2> DEFINE x == [Fresh("ask", "direct", p[1], p[2]) EXCEPT !.sess = s, !.stage = "prep"]
  <2>3. x \in SaneTurn /\ x.stage = "prep" /\ Len(turns) < MaxTurns /\ ctx' = ctx /\ SameOpen
    BY <1>6, <2>2 DEF Fresh, Direct, SameOpen
  <2> HIDE DEF x
  <2>4. turns' = Append(turns, x)
    BY <2>2 DEF x
  <2>5. Calm /\ Mute
    BY <1>t, <2>3, <2>4, NewcomerCalm DEF SettledAt
  <2>6. QED  BY <2>5, MuteKeeps
<1>7. ASSUME NEW c \in Chats, Steer(c) PROVE Shared'
  <2>1. SameOpen
    <3>1. /\ steering \in [Chats -> [open : BOOLEAN, waiting : 0 .. MaxSteers]]
          /\ steering' = [steering EXCEPT ![c].waiting = @ + 1]
      BY <1>7, <1>t DEF Steer, Types, TypeOK
    <3>2. QED  BY <3>1 DEF SameOpen
  <2>2. Calm /\ Mute
    BY <1>7, <2>1 DEF Steer, Calm, Mute, Like
  <2>3. QED  BY <2>2, MuteKeeps
<1>8. ASSUME NEW t \in DOMAIN turns, CancelDirect(t) PROVE Shared'
  <2>1. /\ Doomed(t) \in SaneTurn /\ Becomes(t, Doomed(t)) /\ ctx' = ctx /\ SameOpen
    BY <1>8, <1>t, TypesCancelDirect DEF CancelDirect, SameOpen
  <2>2. /\ Doomed(t).stage = turns[t].stage /\ Doomed(t).mixed = turns[t].mixed
        /\ Doomed(t).end = turns[t].end /\ Doomed(t).home = turns[t].home
        /\ Doomed(t).told = turns[t].told /\ Doomed(t).sess = turns[t].sess
    BY <1>q DEF Doomed, Turn
  <2>3. Calm /\ Mute
    BY <1>t, <2>1, <2>2, OneCalm
  <2>4. QED  BY <2>3, MuteKeeps
<1>9. ASSUME NEW i, SubEnds(i) PROVE Shared'
  <2>1. ctx' = ctx /\ steering' = steering /\ "ask" \in Kinds
    BY <1>9 DEF SubEnds, Kinds
  <2>2. CASE Silent
    BY <2>1, <2>2, <1>1 DEF Silent
  <2>3. ASSUME NEW c \in Chats, NEW k \in Chats, Post("ask", c, k) PROVE Shared'
    <3>1. Calm /\ Mute
      BY <1>t, <2>1, <2>3, PostCalm
    <3>2. QED  BY <3>1, MuteKeeps
  <2>4. QED  BY <2>2, <2>3, <1>9, <1>t, TypesSubEnds
<1>10. CASE UNCHANGED vars
  BY <1>1, <1>10 DEF vars
<1>11. QED
  BY <1>2, <1>3, <1>4, <1>5, <1>6, <1>7, <1>8, <1>9, <1>10 DEF Next, Tasks, Outside

LEMMA SharedInvariant == Spec => []Shared
<1>1. Init => Base /\ Shared
  BY BaseInit
  DEF Init, Shared, Mixing, Alone, AnsweredAlone, QueuesFollowTurns, InLoop, NoQueue
<1>2. Base /\ Shared /\ [Next]_vars => Base' /\ Shared'
  BY BaseStep, SharedStep
<1>3. QED  BY <1>1, <1>2, PTL DEF Spec

\* A turn that met no other inside its loop answered its chat exactly once.
THEOREM OneAnswerEach == Spec => []AnsweredAlone
BY SharedInvariant, PTL DEF Shared

\* Steering queues are there while their turn is the only one of its session,
\* and only failed or cancelled turns leave one behind.
THEOREM SteeringFollows == Spec => []QueuesFollowTurns
BY SharedInvariant, PTL DEF Shared
=============================================================================
