---------------------------- MODULE MemoryProofs ----------------------------
(***************************************************************************)
(* Proofs about the long-term memory (module Memory): no message is        *)
(* forgotten or archived twice and no fact overwritten, but for the causes *)
(* that the ghosts name, for any number of calls, conversations, messages  *)
(* and faults and any threshold of failures.                               *)
(***************************************************************************)
EXTENDS Memory, TLAPS

-----------------------------------------------------------------------------
(* Calls.                                                                  *)

LEMMA FreeIsCall ==
    /\ Free \in Call
    /\ Free.kind = "none" /\ Free.sess = NoSession /\ Free.about = {}
    /\ Free.tries = 0 /\ Free.attempt = 0
<1>1. Retries \in Nat /\ MaxFailures - 1 \in Nat
  BY MemoryAssumption
<1>2. Free \in Call
  BY <1>1 DEF Free, Call
<1> QED
  BY <1>2 DEF Free

LEMMA BeganIsCall ==
    ASSUME TypeOK, NEW kind \in {"chunk", "snapshot", "learn"},
           NEW s \in Sessions \cup {NoSession}, NEW about \in SUBSET Messages
    PROVE  /\ Began(kind, s, about) \in Call
           /\ Began(kind, s, about).kind = kind
           /\ Began(kind, s, about).sess = s
           /\ Began(kind, s, about).about = about
           /\ Began(kind, s, about).tries = 0
<1>1. memory \in SUBSET Messages /\ user \in SUBSET Messages
  BY DEF TypeOK
<1>2. Began(kind, s, about) \in Call
  BY <1>1, FreeIsCall DEF Began, Call
<1>3. /\ Began(kind, s, about).kind = kind
      /\ Began(kind, s, about).sess = s
      /\ Began(kind, s, about).about = about
      /\ Began(kind, s, about).tries = 0
  BY DEF Began, Free
<1> QED
  BY <1>2, <1>3

\* A call that compacts MEMORY.md is about no message and holds no lock.
Compacting == [Free EXCEPT !.kind = "compact", !.memory = memory']

LEMMA CompactingIsCall ==
    ASSUME memory' \subseteq Messages
    PROVE  /\ Compacting \in Call
           /\ Compacting.kind = "compact"
           /\ Compacting.sess = NoSession
           /\ Compacting.about = {}
<1>1. memory' \in SUBSET Messages
  OBVIOUS
<1>2. /\ Compacting.kind = "compact" /\ Compacting.sess = NoSession
      /\ Compacting.about = {}
  BY DEF Compacting, Free
<1>3. Compacting \in Call
  BY <1>1, FreeIsCall DEF Compacting, Call
<1> QED
  BY <1>2, <1>3

\* What call t goes on as leaves the other calls as they are, but for the
\* mark that the counter was set back.
LEMMA BecomesOthers ==
    ASSUME TypeOK, NEW t \in Calls, NEW next \in Call, NEW reset \in BOOLEAN,
           Becomes(t, next, reset)
    PROVE  /\ calls' \in [Calls -> Call]
           /\ calls'[t] = next
           /\ \A u \in Calls \ {t} :
                /\ calls'[u].kind = calls[u].kind
                /\ calls'[u].sess = calls[u].sess
                /\ calls'[u].about = calls[u].about
                /\ calls'[u].tries = calls[u].tries
                /\ calls'[u].crossed = (calls[u].crossed \/ (reset /\ calls[u].tries > 0))
<1>1. /\ calls \in [Calls -> Call]
      /\ calls' = [u \in Calls |->
            IF u = t THEN next
            ELSE [calls[u] EXCEPT !.crossed = @ \/ (reset /\ calls[u].tries > 0)]]
  BY DEF TypeOK, Becomes
<1>2. \A u \in Calls : calls[u] \in Call
  BY <1>1
<1> DEFINE marked(c, b) == [c EXCEPT !.crossed = b]
           mark(u) == calls[u].crossed \/ (reset /\ calls[u].tries > 0)
<1>3. ASSUME NEW c \in Call, NEW b \in BOOLEAN
      PROVE  /\ marked(c, b) \in Call
             /\ marked(c, b).kind = c.kind
             /\ marked(c, b).sess = c.sess
             /\ marked(c, b).about = c.about
             /\ marked(c, b).tries = c.tries
             /\ marked(c, b).crossed = b
  BY DEF Call
<1>4. \A u \in Calls : calls'[u] = IF u = t THEN next ELSE marked(calls[u], mark(u))
  BY <1>1
<1>5. \A u \in Calls : mark(u) \in BOOLEAN
  OBVIOUS
<1> HIDE DEF marked, mark
<1>6. ASSUME NEW u \in Calls \ {t}
      PROVE  /\ calls'[u] \in Call
             /\ calls'[u].kind = calls[u].kind
             /\ calls'[u].sess = calls[u].sess
             /\ calls'[u].about = calls[u].about
             /\ calls'[u].tries = calls[u].tries
             /\ calls'[u].crossed = mark(u)
  <2>1. calls'[u] = marked(calls[u], mark(u)) /\ calls[u] \in Call /\ mark(u) \in BOOLEAN
    BY <1>2, <1>4, <1>5
  <2> QED
    BY <2>1, <1>3
<1>7. calls'[t] = next /\ calls' \in [Calls -> Call]
  BY <1>1, <1>4, <1>6
<1> QED
  BY <1>6, <1>7 DEF mark

\* A call that has archived its messages is over, or compacts.
LEMMA ArchivedEnds ==
    ASSUME TypeOK, NEW t \in Calls, memory' \subseteq Messages, Archived(t)
    PROVE  /\ calls' \in [Calls -> Call]
           /\ calls'[t].kind \in {"none", "compact"}
           /\ calls'[t].sess = NoSession
           /\ \A u \in Calls \ {t} :
                /\ calls'[u].kind = calls[u].kind
                /\ calls'[u].sess = calls[u].sess
                /\ calls'[u].about = calls[u].about
                /\ calls'[u].tries = calls[u].tries
                /\ calls'[u].crossed = (calls[u].crossed \/ calls[u].tries > 0)
           /\ learns' \in 0 .. MaxLearns
           /\ pending' = LeftBehind(calls[t])
           /\ forgone' = forgone
<1>1. PICK next \in {Free, Compacting} :
        /\ Becomes(t, next, TRUE)
        /\ Ends(next) \/ (calls[t].kind = "snapshot" /\ Compacts(next))
  BY DEF Archived, Compacting
<1>2. next \in Call /\ next.kind \in {"none", "compact"} /\ next.sess = NoSession
  BY FreeIsCall, CompactingIsCall
<1>3. learns' \in 0 .. MaxLearns
  BY <1>1, MemoryAssumption DEF Ends, Compacts, TypeOK
<1>4. /\ pending' = LeftBehind(calls[t])
      /\ forgone' = forgone
  BY DEF Archived
<1> QED
  BY ZenonT(60), <1>1, <1>2, <1>3, <1>4, BecomesOthers

\* A refused call is over or compacts, or it is a snapshot that is tried again.
LEMMA RefusedEnds ==
    ASSUME TypeOK, NEW t \in Calls, calls[t].kind \in {"chunk", "snapshot"},
           memory' \subseteq Messages, Refused(t)
    PROVE  /\ calls' \in [Calls -> Call]
           /\ calls'[t].sess = NoSession
           /\ IF calls[t].kind = "snapshot" /\ ~GivesUp(calls[t])
              THEN /\ calls'[t].kind = "snapshot"
                   /\ calls'[t].about = calls[t].about
                   /\ calls'[t].tries = calls[t].tries + 1
                   /\ calls'[t].crossed = calls[t].crossed
              ELSE calls'[t].kind \in {"none", "compact"}
           /\ \A u \in Calls \ {t} :
                /\ calls'[u].kind = calls[u].kind
                /\ calls'[u].sess = calls[u].sess
                /\ calls'[u].about = calls[u].about
                /\ calls'[u].tries = calls[u].tries
                /\ calls'[u].crossed = calls[u].crossed
           /\ learns' \in 0 .. MaxLearns
           /\ pending' = pending
           /\ forgone' = IF calls[t].kind = "snapshot" /\ GivesUp(calls[t]) /\ calls[t].crossed
                         THEN forgone \cup calls[t].about ELSE forgone
<1> DEFINE c == calls[t]
           again == [Began("snapshot", NoSession, c.about) EXCEPT
                       !.tries = c.tries + 1, !.crossed = c.crossed]
<1>0. c \in Call /\ \A u \in Calls : calls[u] \in Call
  BY DEF TypeOK
<1>1. PICK next \in {Free, again, Compacting} :
        /\ Becomes(t, next, FALSE)
        /\ IF c.kind = "snapshot" /\ ~GivesUp(c)
           THEN next = again /\ UNCHANGED learns
           ELSE Ends(next) \/ (c.kind = "snapshot" /\ Compacts(next))
  BY DEF Refused, Compacting
<1>2. /\ pending' = pending
      /\ forgone' = IF c.kind = "snapshot" /\ GivesUp(c) /\ c.crossed
                    THEN forgone \cup c.about ELSE forgone
  BY DEF Refused
<1>o. ASSUME next \in Call
      PROVE  /\ calls' \in [Calls -> Call]
             /\ calls'[t] = next
             /\ \A u \in Calls \ {t} :
                  /\ calls'[u].kind = calls[u].kind
                  /\ calls'[u].sess = calls[u].sess
                  /\ calls'[u].about = calls[u].about
                  /\ calls'[u].tries = calls[u].tries
                  /\ calls'[u].crossed = calls[u].crossed
  <2>1. \A u \in Calls : calls[u].crossed \in BOOLEAN
    BY <1>0 DEF Call
  <2>2. Becomes(t, next, FALSE) /\ FALSE \in BOOLEAN
    BY <1>1
  <2>3. /\ calls' \in [Calls -> Call]
        /\ calls'[t] = next
        /\ \A u \in Calls \ {t} :
             /\ calls'[u].kind = calls[u].kind
             /\ calls'[u].sess = calls[u].sess
             /\ calls'[u].about = calls[u].about
             /\ calls'[u].tries = calls[u].tries
             /\ calls'[u].crossed = (calls[u].crossed \/ (FALSE /\ calls[u].tries > 0))
    BY <1>o, <2>2, BecomesOthers
  <2> QED
    BY <2>1, <2>3
<1>3. CASE c.kind = "snapshot" /\ ~GivesUp(c)
  <2>1. next = again /\ learns' = learns
    BY <1>1, <1>3
  <2>2. c.tries + 1 \in 0 .. MaxFailures - 1
    BY <1>0, <1>3, MemoryAssumption DEF GivesUp, Call
  <2>3. again \in Call /\ again.kind = "snapshot" /\ again.about = c.about
        /\ again.sess = NoSession /\ again.tries = c.tries + 1 /\ again.crossed = c.crossed
    <3>1. c.about \in SUBSET Messages /\ c.crossed \in BOOLEAN
      BY <1>0 DEF Call
    <3> DEFINE began == Began("snapshot", NoSession, c.about)
    <3>2. /\ began \in Call
          /\ began.kind = "snapshot" /\ began.sess = NoSession /\ began.about = c.about
      BY <3>1, BeganIsCall
    <3> HIDE DEF began
    <3>3. again = [began EXCEPT !.tries = c.tries + 1, !.crossed = c.crossed]
      BY DEF began
    <3> QED
      BY <2>2, <3>1, <3>2, <3>3 DEF Call
  <2>4. learns' \in 0 .. MaxLearns
    BY <2>1 DEF TypeOK
  <2> HIDE DEF again
  <2> QED
    BY <1>2, <1>3, <1>o, <2>1, <2>3, <2>4
<1>4. CASE ~(c.kind = "snapshot" /\ ~GivesUp(c))
  <2>1. next \in {Free, Compacting}
    BY <1>1, <1>4 DEF Ends, Compacts, Compacting
  <2>2. next \in Call /\ next.kind \in {"none", "compact"} /\ next.sess = NoSession
    BY <2>1, FreeIsCall, CompactingIsCall
  <2>3. learns' \in 0 .. MaxLearns
    BY <1>1, <1>4, MemoryAssumption DEF Ends, Compacts, TypeOK
  <2> QED
    BY <1>2, <1>4, <1>o, <2>2, <2>3
<1> QED
  BY <1>3, <1>4
-----------------------------------------------------------------------------
(* The types.                                                              *)

LEMMA EnteredType ==
    ASSUME history \in [Messages -> Nat], NEW about \in SUBSET Messages
    PROVE  /\ Entered(about) \in [Messages -> Nat]
           /\ \A m \in Messages : Entered(about)[m] = history[m] + IF m \in about THEN 1 ELSE 0
BY DEF Entered

LEMMA LeftBehindType ==
    ASSUME TypeOK, NEW c \in Call
    PROVE  /\ LeftBehind(c) \in [Sessions -> SUBSET Messages]
           /\ \A s \in Sessions :
                LeftBehind(c)[s] = IF c.kind = "chunk" /\ c.sess = s
                                   THEN pending[s] \ c.about ELSE pending[s]
BY DEF TypeOK, LeftBehind, Call

\* An answer that is used changes the two files and what is known of them.
LEMMA RewriteType ==
    ASSUME TypeOK, NEW c \in Call, NEW m \in SUBSET Messages, NEW u \in SUBSET Messages,
           Rewrite(c, m, u)
    PROVE  /\ memory' \subseteq Messages /\ user' \subseteq Messages
           /\ taught' \subseteq Messages /\ clobbered' \subseteq Messages
BY DEF TypeOK, Rewrite, Written, Unseen, Call

LEMMA UpdatedType ==
    ASSUME TypeOK, NEW c \in Call, Updated(c)
    PROVE  /\ memory' \subseteq Messages /\ user' \subseteq Messages
           /\ taught' \subseteq Messages /\ clobbered' \subseteq Messages
BY RewriteType DEF Updated, Call

\* The first half of a failed write.
LEMMA HalfWrittenType ==
    ASSUME TypeOK, NEW c \in Call, NEW m \in SUBSET Messages,
           memory' = Written(memory, c.memory, m),
           taught' = taught \cup (c.about \ (Personal \cup c.memory)),
           clobbered' = clobbered \cup Unseen(memory, c.memory, m)
    PROVE  memory' \subseteq Messages /\ taught' \subseteq Messages /\ clobbered' \subseteq Messages
BY DEF TypeOK, Written, Unseen, Call

LEMMA InitType == Init => TypeOK
BY MemoryAssumption, FreeIsCall DEF Init, TypeOK

LEMMA TypeStep == TypeOK /\ [Next]_vars => TypeOK'
<1> SUFFICES ASSUME TypeOK, [Next]_vars PROVE TypeOK'
  OBVIOUS
<1>t. /\ pending \in [Sessions -> SUBSET Messages]
      /\ history \in [Messages -> Nat]
      /\ calls \in [Calls -> Call] /\ \A t \in Calls : calls[t] \in Call
      /\ memory \subseteq Messages /\ user \subseteq Messages
      /\ failures \in 0 .. MaxFailures - 1 /\ MaxFailures \in Nat \ {0} /\ MaxLearns \in Nat
      /\ said \in 0 .. MaxMessages /\ learns \in 0 .. MaxLearns /\ faults \in 0 .. MaxFaults
      /\ taught \subseteq Messages /\ clobbered \subseteq Messages
      /\ forgone \subseteq Messages /\ twice \subseteq Messages
      /\ MaxMessages \in Nat /\ MaxFaults \in Nat
  BY MemoryAssumption DEF TypeOK
<1>1. ASSUME NEW s \in Sessions, Say(s) PROVE TypeOK'
  BY SMTT(30), <1>1, <1>t DEF Say, TypeOK, files, ghosts, Messages
<1>2. ASSUME NEW t \in Calls, NEW s \in Sessions, Consolidate(t, s) PROVE TypeOK'
  <2>1. PICK b \in pending[s] : Start(t, Began("chunk", s, {m \in pending[s] : m <= b}))
    BY <1>2 DEF Consolidate
  <2>2. {m \in pending[s] : m <= b} \in SUBSET Messages
    BY <1>t
  <2>3. Began("chunk", s, {m \in pending[s] : m <= b}) \in Call
    BY <2>2, BeganIsCall
  <2>4. calls' \in [Calls -> Call]
    BY <1>t, <2>1, <2>3 DEF Start
  <2> QED
    BY <1>2, <1>t, <2>4 DEF Consolidate, TypeOK, files, bounds, ghosts
<1>3. ASSUME NEW t \in Calls, NEW s \in Sessions, Learn(t, s) PROVE TypeOK'
  <2>1. Began("learn", s, pending[s]) \in Call
    BY <1>t, BeganIsCall
  <2>2. calls' \in [Calls -> Call] /\ learns' \in 0 .. MaxLearns
    BY <1>3, <1>t, <2>1 DEF Learn, Start
  <2> QED
    BY <1>3, <1>t, <2>2 DEF Learn, TypeOK, files, ghosts
<1>4. ASSUME NEW t \in Calls, NEW s \in Sessions, Clear(t, s) PROVE TypeOK'
  <2>0. pending[s] \in SUBSET Messages /\ NoSession \in Sessions \cup {NoSession}
    BY <1>t
  <2>1. Began("snapshot", NoSession, pending[s]) \in Call
    BY <2>0, BeganIsCall
  <2>2. calls' \in [Calls -> Call]
    BY <1>4, <1>t, <2>1 DEF Clear, Start
  <2>3. pending' \in [Sessions -> SUBSET Messages]
    BY <1>4, <1>t DEF Clear
  <2>4. twice' \subseteq Messages
    BY <1>4, <1>t DEF Clear, Call
  <2> QED
    BY <1>4, <1>t, <2>2, <2>3, <2>4 DEF Clear, TypeOK, files, bounds
<1>5. ASSUME NEW t \in Calls, Retry(t) \/ RetryWithAuto(t) \/ Cancel(t) PROVE TypeOK'
  <2>1. /\ calls[t].attempt < Retries
           => [calls[t] EXCEPT !.attempt = @ + 1] \in Call
        /\ [calls[t] EXCEPT !.forced = FALSE, !.attempt = 0] \in Call
    <3>1. ASSUME NEW c \in Call, NEW n \in 0 .. Retries
          PROVE  [c EXCEPT !.attempt = n] \in Call /\ [c EXCEPT !.forced = FALSE, !.attempt = n] \in Call
      BY DEF Call
    <3>2. 0 \in 0 .. Retries /\ \A c \in Call : c.attempt < Retries => c.attempt + 1 \in 0 .. Retries
      BY MemoryAssumption DEF Call
    <3> QED
      BY <1>t, <3>1, <3>2
  <2>2. \/ calls' = [calls EXCEPT ![t] = [calls[t] EXCEPT !.attempt = @ + 1]]
           /\ calls[t].attempt < Retries
        \/ calls' = [calls EXCEPT ![t] = [calls[t] EXCEPT !.forced = FALSE, !.attempt = 0]]
        \/ calls' = [calls EXCEPT ![t] = Free]
    BY <1>5, <1>t DEF Retry, RetryWithAuto, WithAuto, Cancel
  <2>3. calls' \in [Calls -> Call]
    BY <1>t, <2>1, <2>2, FreeIsCall
  <2>4. faults' \in 0 .. MaxFaults
    BY <1>5, <1>t DEF Retry, RetryWithAuto, Cancel, bounds
  <2> QED
    BY <1>5, <1>t, <2>3, <2>4 DEF Retry, RetryWithAuto, Cancel, TypeOK, files, bounds, ghosts
<1>6. ASSUME NEW t \in Calls, Consolidated(t) PROVE TypeOK'
  <2>1. Updated(calls[t]) /\ Archived(t) /\ history' = Entered(calls[t].about)
    BY <1>6 DEF Consolidated
  <2>2. /\ memory' \subseteq Messages /\ user' \subseteq Messages
        /\ taught' \subseteq Messages /\ clobbered' \subseteq Messages
    BY <1>t, <2>1, UpdatedType
  <2>3. /\ calls' \in [Calls -> Call] /\ learns' \in 0 .. MaxLearns
        /\ pending' \in [Sessions -> SUBSET Messages] /\ forgone' = forgone
    BY <1>t, <2>1, <2>2, ArchivedEnds, LeftBehindType
  <2>4. history' \in [Messages -> Nat]
    BY <1>t, <2>1, EnteredType DEF Call
  <2> QED
    BY <1>6, <1>t, <2>2, <2>3, <2>4 DEF Consolidated, TypeOK
<1>7. ASSUME NEW t \in Calls, calls[t].kind \in {"chunk", "snapshot"},
             memory' \subseteq Messages, FailOrRawArchive(t)
      PROVE  /\ calls' \in [Calls -> Call] /\ learns' \in 0 .. MaxLearns
             /\ pending' \in [Sessions -> SUBSET Messages] /\ forgone' \subseteq Messages
             /\ failures' \in 0 .. MaxFailures - 1 /\ history' \in [Messages -> Nat]
  <2>1. CASE TooOften
    <3>1. Archived(t) /\ failures' = 0 /\ history' = Entered(calls[t].about)
      BY <1>7, <2>1 DEF FailOrRawArchive
    <3> QED
      BY <1>7, <1>t, <3>1, ArchivedEnds, LeftBehindType, EnteredType DEF Call
  <2>2. CASE ~TooOften
    <3>1. Refused(t) /\ failures' = failures + 1 /\ history' = history
      BY <1>7, <2>2 DEF FailOrRawArchive
    <3>2. failures' \in 0 .. MaxFailures - 1
      BY <1>t, <2>2, <3>1 DEF TooOften
    <3>3. calls[t].about \subseteq Messages
      BY <1>t DEF Call
    <3>4. /\ calls' \in [Calls -> Call] /\ learns' \in 0 .. MaxLearns /\ pending' = pending
          /\ forgone' = IF calls[t].kind = "snapshot" /\ GivesUp(calls[t]) /\ calls[t].crossed
                        THEN forgone \cup calls[t].about ELSE forgone
      BY <1>7, <3>1, RefusedEnds
    <3> QED
      BY <1>t, <3>1, <3>2, <3>3, <3>4
  <2> QED
    BY <2>1, <2>2
<1>8. ASSUME NEW t \in Calls, ConsolidateFails(t) PROVE TypeOK'
  <2>1. calls[t].kind \in {"chunk", "snapshot"} /\ FailOrRawArchive(t) /\ memory' \subseteq Messages
    BY <1>8, <1>t DEF ConsolidateFails
  <2> QED
    BY <1>8, <1>7, <1>t, <2>1 DEF ConsolidateFails, TypeOK
<1>9. ASSUME NEW t \in Calls, WriteFails(t) PROVE TypeOK'
  <2> DEFINE c == calls[t]
  <2>0. /\ c \in Call /\ c.about \subseteq Messages /\ c.memory \subseteq Messages
        /\ c.kind \in {"chunk", "snapshot"}
    BY <1>9, <1>t DEF Call, WriteFails
  <2>1. memory' \subseteq Messages /\ taught' \subseteq Messages /\ clobbered' \subseteq Messages
    <3>1. c.memory \cup (c.about \ Personal) \in SUBSET Messages
      BY <2>0
    <3> QED
      BY <1>9, <1>t, <2>0, <3>1, HalfWrittenType DEF WriteFails
  <2>2. twice' \subseteq Messages /\ faults' \in 0 .. MaxFaults
        /\ user' = user /\ said' = said
    BY <1>9, <1>t, <2>0 DEF WriteFails
  <2>3. CASE TooOften
    <3>1. /\ Archived(t) /\ failures' = 0
          /\ history' = [m \in Messages |-> history[m] + IF m \in c.about THEN 2 ELSE 0]
      BY <1>9, <2>3 DEF WriteFails
    <3>2. history' \in [Messages -> Nat]
      BY <1>t, <3>1
    <3>3. /\ calls' \in [Calls -> Call] /\ learns' \in 0 .. MaxLearns
          /\ pending' \in [Sessions -> SUBSET Messages] /\ forgone' = forgone
      BY <1>t, <2>1, <3>1, ArchivedEnds, LeftBehindType
    <3> QED
      BY <1>t, <2>1, <2>2, <3>1, <3>2, <3>3 DEF TypeOK
  <2>4. CASE ~TooOften
    <3>1. Refused(t) /\ failures' = failures + 1 /\ history' = Entered(c.about)
      BY <1>9, <2>4 DEF WriteFails
    <3>2. failures' \in 0 .. MaxFailures - 1 /\ history' \in [Messages -> Nat]
      BY <1>t, <2>0, <2>4, <3>1, EnteredType DEF TooOften
    <3>3. /\ calls' \in [Calls -> Call] /\ learns' \in 0 .. MaxLearns /\ pending' = pending
          /\ forgone' = IF c.kind = "snapshot" /\ GivesUp(c) /\ c.crossed
                        THEN forgone \cup c.about ELSE forgone
      BY <2>0, <2>1, <3>1, RefusedEnds
    <3> QED
      BY <1>t, <2>0, <2>1, <2>2, <3>2, <3>3 DEF TypeOK
  <2> QED
    BY <2>3, <2>4
<1>10. ASSUME NEW t \in Calls, Learned(t) PROVE TypeOK'
  <2>1. /\ memory' \subseteq Messages /\ user' \subseteq Messages
        /\ taught' \subseteq Messages /\ clobbered' \subseteq Messages
    BY <1>10, <1>t, UpdatedType DEF Learned
  <2>2. PICK next \in {Free, Compacting} : Becomes(t, next, FALSE) /\ (Ends(next) \/ Compacts(next))
    BY <1>10 DEF Learned, Compacting
  <2>3. next \in Call /\ FALSE \in BOOLEAN
    BY <2>1, FreeIsCall, CompactingIsCall
  <2>4. calls' \in [Calls -> Call]
    BY <2>2, <2>3, BecomesOthers
  <2>5. learns' \in 0 .. MaxLearns
    BY <1>t, <2>2 DEF Ends, Compacts
  <2> QED
    BY <1>10, <1>t, <2>1, <2>4, <2>5 DEF Learned, TypeOK
<1>11. ASSUME NEW t \in Calls, Compacted(t) PROVE TypeOK'
  <2>1. calls' \in [Calls -> Call]
    BY <1>11, <1>t, FreeIsCall DEF Compacted
  <2>2. memory' \subseteq Messages /\ clobbered' \subseteq Messages
    BY <1>11, <1>t DEF Compacted, Call
  <2> QED
    BY <1>11, <1>t, <2>1, <2>2 DEF Compacted, TypeOK, bounds
<1>12. CASE Crash
  <2>1. PICK about \in {{}} \cup {calls[t].about : t \in {u \in Calls : calls[u].kind = "chunk"}} :
          history' = Entered(about) /\ twice' = twice \cup about
    BY <1>12 DEF Crash
  <2>2. about \in SUBSET Messages /\ \A t \in Calls : calls[t].about \subseteq Messages
    BY <1>t DEF Call
  <2>3. history' \in [Messages -> Nat] /\ twice' \subseteq Messages
    BY <1>t, <2>1, <2>2, EnteredType
  <2>4. forgone' \subseteq Messages
    BY <1>12, <1>t, <2>2 DEF Crash
  <2>5. calls' \in [Calls -> Call]
    BY <1>12, FreeIsCall DEF Crash
  <2> QED
    BY <1>12, <1>t, <2>3, <2>4, <2>5 DEF Crash, TypeOK
<1>13. CASE UNCHANGED vars
  BY <1>13, <1>t DEF vars, files, bounds, ghosts, TypeOK
<1> QED
  BY <1>1, <1>2, <1>3, <1>4, <1>5, <1>6, <1>8, <1>9, <1>10, <1>11, <1>12, <1>13
  DEF Next, Answer

\* The state of every memory is well-formed: the failure counter stays below
\* the threshold (memory.py:522-535), a snapshot is tried fewer rounds than it
\* (memory.py:655), and no call is retried more often than there are delays.
THEOREM MemoryTypes == Spec => []TypeOK
BY InitType, TypeStep, PTL DEF Spec

-----------------------------------------------------------------------------
(* Where a message is.                                                     *)

Chunks == {t \in Calls : calls[t].kind = "chunk"}
Snapshots == {t \in Calls : calls[t].kind = "snapshot"}

\* Only what has been said is anywhere.
Numbered ==
    /\ \A s \in Sessions : pending[s] \subseteq 1 .. said
    /\ \A t \in Chunks \cup Snapshots : calls[t].about \subseteq 1 .. said
    /\ \A m \in Messages : history[m] > 0 => m \in 1 .. said

\* The lock of a session is held by one call, and a chunk holds one.
Locks ==
    /\ \A t, u \in Calls :
          calls[t].sess \in Sessions /\ calls[t].sess = calls[u].sess => t = u
    /\ \A t \in Chunks : calls[t].sess \in Sessions

\* A message is pending in one session, or in one snapshot, or in neither.
Apart ==
    /\ \A r, s \in Sessions : \A m \in pending[r] : m \in pending[s] => r = s
    /\ \A t \in Snapshots : \A m \in calls[t].about :
          /\ \A s \in Sessions : m \notin pending[s]
          /\ \A u \in Snapshots : m \in calls[u].about => u = t

\* What a chunk is about is still pending, but for what /new took.
ChunksPend ==
    \A t \in Chunks : \A m \in calls[t].about \ twice : m \in pending[calls[t].sess]

\* A message in HISTORY.md is there once and nowhere else.
Settled ==
    \A m \in Messages \ twice : history[m] > 0 =>
        /\ history[m] = 1
        /\ \A s \in Sessions : m \notin pending[s]
        /\ \A t \in Snapshots : m \notin calls[t].about

\* As long as nobody set the counter of failures back, it has counted every
\* failed round of a snapshot.
RoundsCounted ==
    \A t \in Snapshots : calls[t].crossed \/ failures >= calls[t].tries

Inductive ==
    /\ TypeOK /\ Numbered /\ Locks /\ Apart /\ ChunksPend /\ Settled /\ RoundsCounted
    /\ NothingForgotten

-----------------------------------------------------------------------------
(* What a step can do to the messages and to the calls about them.         *)

Same(u) ==
    /\ calls'[u].kind = calls[u].kind /\ calls'[u].sess = calls[u].sess
    /\ calls'[u].about = calls[u].about /\ calls'[u].tries = calls[u].tries
OthersSame(t) == \A u \in Calls \ {t} : Same(u)
OthersKeepMark(t) == \A u \in Calls \ {t} : calls'[u].crossed = calls[u].crossed
Gone(t) == calls'[t].kind \in {"none", "compact"} /\ calls'[t].sess = NoSession

\* The messages of a call are entered: once each, or they count as twice.
Enters(about) ==
    \A m \in Messages :
        /\ m \notin about => history'[m] = history[m]
        /\ m \in about => history'[m] > history[m]
        /\ m \in about \ twice' => history'[m] = history[m] + 1

ArchivesStep(t) ==
    /\ calls[t].kind \in {"chunk", "snapshot"}
    /\ OthersSame(t) /\ Gone(t)
    /\ \A u \in Calls \ {t} : calls'[u].crossed = (calls[u].crossed \/ calls[u].tries > 0)
    /\ pending' \in [Sessions -> SUBSET Messages]
    /\ \A s \in Sessions :
          pending'[s] = IF calls[t].kind = "chunk" /\ calls[t].sess = s
                        THEN pending[s] \ calls[t].about ELSE pending[s]
    /\ Enters(calls[t].about)
    /\ failures' = 0 /\ said' = said /\ forgone' = forgone /\ twice \subseteq twice'

RefusedStep(t) ==
    /\ calls[t].kind \in {"chunk", "snapshot"}
    /\ OthersSame(t) /\ OthersKeepMark(t)
    /\ IF calls[t].kind = "snapshot" /\ ~GivesUp(calls[t])
       THEN /\ calls'[t].kind = "snapshot" /\ calls'[t].sess = NoSession
            /\ calls'[t].about = calls[t].about
            /\ calls'[t].tries = calls[t].tries + 1
            /\ calls'[t].crossed = calls[t].crossed
       ELSE Gone(t)
    /\ history' = history \/ (Enters(calls[t].about) /\ calls[t].about \subseteq twice')
    /\ ~TooOften /\ failures' = failures + 1
    /\ forgone' = IF calls[t].kind = "snapshot" /\ GivesUp(calls[t]) /\ calls[t].crossed
                  THEN forgone \cup calls[t].about ELSE forgone
    /\ pending' = pending /\ said' = said /\ twice \subseteq twice'

\* A step that neither starts nor finishes a call about messages.
QuietStep(t) ==
    /\ OthersSame(t) /\ OthersKeepMark(t)
    /\ \/ Same(t) /\ calls'[t].crossed = calls[t].crossed
       \/ calls[t].kind # "snapshot" /\ Gone(t)
    /\ UNCHANGED <<pending, history, failures, said, twice, forgone>>

LEMMA ArchivedStep ==
    ASSUME TypeOK, NEW t \in Calls, memory' \subseteq Messages, Archived(t),
           calls[t].kind \in {"chunk", "snapshot"}, Enters(calls[t].about),
           failures' = 0, said' = said, twice \subseteq twice'
    PROVE  ArchivesStep(t)
<1>1. calls[t] \in Call
  BY DEF TypeOK
<1>2. pending' = LeftBehind(calls[t]) /\ forgone' = forgone
  BY ArchivedEnds
<1>3. /\ pending' \in [Sessions -> SUBSET Messages]
      /\ \A s \in Sessions :
           pending'[s] = IF calls[t].kind = "chunk" /\ calls[t].sess = s
                         THEN pending[s] \ calls[t].about ELSE pending[s]
  BY <1>1, <1>2, LeftBehindType
<1>4. OthersSame(t) /\ Gone(t)
  BY ArchivedEnds DEF OthersSame, Same, Gone
<1>5. \A u \in Calls \ {t} : calls'[u].crossed = (calls[u].crossed \/ calls[u].tries > 0)
  BY ArchivedEnds
<1> QED
  BY <1>2, <1>3, <1>4, <1>5 DEF ArchivesStep

LEMMA ConsolidatedStep ==
    ASSUME TypeOK, NEW t \in Calls, Consolidated(t)
    PROVE  ArchivesStep(t)
<1>0. calls[t] \in Call /\ history \in [Messages -> Nat]
  BY DEF TypeOK
<1>1. /\ Updated(calls[t]) /\ Archived(t) /\ history' = Entered(calls[t].about)
      /\ calls[t].kind \in {"chunk", "snapshot"} /\ failures' = 0
      /\ said' = said /\ twice' = twice
  BY DEF Consolidated
<1>2. memory' \subseteq Messages
  BY <1>0, <1>1, UpdatedType
<1>3. Enters(calls[t].about)
  BY <1>0, <1>1, EnteredType DEF Enters, Call
<1> QED
  BY <1>1, <1>2, <1>3, ArchivedStep

LEMMA FailureStep ==
    ASSUME TypeOK, NEW t \in Calls, ConsolidateFails(t)
    PROVE  ArchivesStep(t) \/ RefusedStep(t)
<1>0. calls[t] \in Call /\ history \in [Messages -> Nat]
  BY DEF TypeOK
<1>1. /\ calls[t].kind \in {"chunk", "snapshot"} /\ memory' \subseteq Messages
      /\ said' = said /\ twice' = twice /\ FailOrRawArchive(t)
  BY DEF ConsolidateFails, TypeOK
<1>2. CASE TooOften
  <2>1. failures' = 0 /\ history' = Entered(calls[t].about) /\ Archived(t)
    BY <1>1, <1>2 DEF FailOrRawArchive
  <2>2. Enters(calls[t].about)
    BY <1>0, <2>1, EnteredType DEF Enters, Call
  <2>3. ArchivesStep(t)
    BY <1>1, <2>1, <2>2, ArchivedStep
  <2> QED
    BY <2>3
<1>3. CASE ~TooOften
  <2>1. failures' = failures + 1 /\ history' = history /\ Refused(t)
    BY <1>1, <1>3 DEF FailOrRawArchive
  <2>2. RefusedStep(t)
    BY <1>1, <1>3, <2>1, RefusedEnds
    DEF RefusedStep, OthersSame, OthersKeepMark, Same, Gone
  <2> QED
    BY <2>2
<1> QED
  BY <1>2, <1>3

LEMMA WriteFailureStep ==
    ASSUME TypeOK, NEW t \in Calls, WriteFails(t)
    PROVE  ArchivesStep(t) \/ RefusedStep(t)
<1>0. /\ calls[t] \in Call /\ history \in [Messages -> Nat]
      /\ calls[t].about \subseteq Messages
  BY DEF TypeOK, Call
<1>1. /\ calls[t].kind \in {"chunk", "snapshot"}
      /\ said' = said /\ twice' = twice \cup calls[t].about
  BY DEF WriteFails
<1>2. memory' \subseteq Messages
  <2>1. calls[t].memory \cup (calls[t].about \ Personal) \in SUBSET Messages
    BY <1>0 DEF Call
  <2> QED
    BY <1>0, <2>1, HalfWrittenType DEF WriteFails, TypeOK
<1>3. CASE TooOften
  <2>1. /\ failures' = 0 /\ Archived(t)
        /\ history' = [m \in Messages |-> history[m] + IF m \in calls[t].about THEN 2 ELSE 0]
    BY <1>3 DEF WriteFails
  <2>2. Enters(calls[t].about)
    BY <1>0, <1>1, <2>1 DEF Enters
  <2>3. ArchivesStep(t)
    BY <1>1, <1>2, <2>1, <2>2, ArchivedStep
  <2> QED
    BY <2>3
<1>4. CASE ~TooOften
  <2>1. failures' = failures + 1 /\ history' = Entered(calls[t].about) /\ Refused(t)
    BY <1>4 DEF WriteFails
  <2>2. Enters(calls[t].about) /\ calls[t].about \subseteq twice'
    BY <1>0, <1>1, <2>1, EnteredType DEF Enters
  <2>3. RefusedStep(t)
    BY <1>1, <1>2, <1>4, <2>1, <2>2, RefusedEnds
    DEF RefusedStep, OthersSame, OthersKeepMark, Same, Gone
  <2> QED
    BY <2>3
<1> QED
  BY <1>3, <1>4

LEMMA QuietSteps ==
    ASSUME TypeOK, NEW t \in Calls,
           Retry(t) \/ RetryWithAuto(t) \/ Learned(t) \/ Compacted(t) \/ Cancel(t)
    PROVE  QuietStep(t)
<1>0. calls \in [Calls -> Call] /\ \A u \in Calls : calls[u] \in Call
  BY DEF TypeOK
<1>1. CASE Retry(t) \/ RetryWithAuto(t)
  <2>1. \/ calls' = [calls EXCEPT ![t] = [calls[t] EXCEPT !.attempt = @ + 1]]
        \/ calls' = [calls EXCEPT ![t] = [calls[t] EXCEPT !.forced = FALSE, !.attempt = 0]]
    BY <1>0, <1>1 DEF Retry, RetryWithAuto, WithAuto
  <2>2. Same(t) /\ calls'[t].crossed = calls[t].crossed
    <3> DEFINE later(c) == [c EXCEPT !.attempt = c.attempt + 1]
               auto(c) == [c EXCEPT !.forced = FALSE, !.attempt = 0]
    <3>1. ASSUME NEW c \in Call, NEW d \in {later(c), auto(c)}
          PROVE  /\ d.kind = c.kind /\ d.sess = c.sess /\ d.about = c.about
                 /\ d.tries = c.tries /\ d.crossed = c.crossed
      <4>1. CASE d = later(c)
        BY <4>1 DEF Call
      <4>2. CASE d = auto(c)
        BY <4>2 DEF Call
      <4> QED
        BY <4>1, <4>2
    <3>2. calls'[t] \in {later(calls[t]), auto(calls[t])}
      BY <1>0, <2>1
    <3> HIDE DEF later, auto
    <3> QED
      BY <1>0, <3>1, <3>2 DEF Same
  <2>3. OthersSame(t) /\ OthersKeepMark(t)
    BY <1>0, <2>1 DEF OthersSame, OthersKeepMark, Same
  <2> QED
    BY <1>1, <2>2, <2>3 DEF QuietStep, Retry, RetryWithAuto, files, bounds, ghosts
<1>2. CASE Learned(t)
  <2>1. PICK next \in {Free, Compacting} : Becomes(t, next, FALSE)
    BY <1>2 DEF Learned, Compacting
  <2>2. memory' \subseteq Messages
    BY <1>0, <1>2, UpdatedType DEF Learned, TypeOK
  <2>3. /\ next \in Call /\ FALSE \in BOOLEAN
        /\ next.kind \in {"none", "compact"} /\ next.sess = NoSession
    BY <2>2, FreeIsCall, CompactingIsCall
  <2>4. /\ calls'[t] = next
        /\ \A u \in Calls \ {t} :
             /\ calls'[u].kind = calls[u].kind
             /\ calls'[u].sess = calls[u].sess
             /\ calls'[u].about = calls[u].about
             /\ calls'[u].tries = calls[u].tries
             /\ calls'[u].crossed = (calls[u].crossed \/ (FALSE /\ calls[u].tries > 0))
    BY <2>1, <2>3, BecomesOthers
  <2>5. \A u \in Calls : calls[u].crossed \in BOOLEAN
    BY <1>0 DEF Call
  <2> QED
    BY <1>2, <2>3, <2>4, <2>5
    DEF QuietStep, Learned, OthersSame, OthersKeepMark, Same, Gone
<1>3. CASE Compacted(t) \/ Cancel(t)
  <2>1. calls' = [calls EXCEPT ![t] = Free] /\ calls[t].kind # "snapshot"
    BY <1>3 DEF Compacted, Cancel
  <2>2. OthersSame(t) /\ OthersKeepMark(t) /\ Gone(t)
    BY <1>0, <2>1, FreeIsCall DEF OthersSame, OthersKeepMark, Same, Gone
  <2> QED
    BY <1>3, <2>1, <2>2 DEF QuietStep, Compacted, Cancel, files, bounds, ghosts
<1> QED
  BY <1>1, <1>2, <1>3

-----------------------------------------------------------------------------
(* Each kind of step keeps every part of the invariant.                    *)

Parts == Numbered /\ Locks /\ Apart /\ ChunksPend /\ Settled /\ RoundsCounted /\ NothingForgotten

LEMMA ArchivesKeeps ==
    ASSUME Inductive, TypeOK', NEW t \in Calls, ArchivesStep(t)
    PROVE  Parts'
<1>t. /\ pending \in [Sessions -> SUBSET Messages] /\ history \in [Messages -> Nat]
      /\ said \in 0 .. MaxMessages /\ MaxMessages \in Nat /\ NoSession \notin Sessions
      /\ \A u \in Calls : calls[u].about \subseteq Messages /\ calls[u].tries \in Nat
                          /\ calls[u].crossed \in BOOLEAN
      /\ failures \in Nat /\ history' \in [Messages -> Nat]
  BY MemoryAssumption DEF Inductive, TypeOK, Call
<1>i. Numbered /\ Locks /\ Apart /\ ChunksPend /\ Settled /\ RoundsCounted /\ NothingForgotten
  BY DEF Inductive
<1>a. t \in Chunks \cup Snapshots
  BY DEF ArchivesStep, Chunks, Snapshots
<1>s. /\ \A s \in Sessions :
            pending'[s] = IF t \in Chunks /\ calls[t].sess = s
                          THEN pending[s] \ calls[t].about ELSE pending[s]
      /\ failures' = 0 /\ said' = said /\ forgone' = forgone /\ twice \subseteq twice'
  BY DEF ArchivesStep, Chunks
<1>o. /\ Chunks' = Chunks \ {t} /\ Snapshots' = Snapshots \ {t}
      /\ \A u \in Calls \ {t} : calls'[u].about = calls[u].about /\ calls'[u].sess = calls[u].sess
      /\ calls'[t].sess = NoSession
  BY DEF ArchivesStep, OthersSame, Same, Gone, Chunks, Snapshots
<1>m. \A u \in Calls \ {t} : /\ calls'[u].tries = calls[u].tries
                             /\ calls[u].tries > 0 => calls'[u].crossed
  BY DEF ArchivesStep, OthersSame, Same
<1>p. /\ \A s \in Sessions : pending'[s] \subseteq pending[s]
      /\ \A s \in Sessions : \A m \in pending[s] : m \notin pending'[s] => m \in calls[t].about
      /\ \A s \in Sessions : \A m \in pending[s] :
           m \notin pending'[s] => t \in Chunks /\ calls[t].sess = s
  BY <1>s
<1>n. Chunks \subseteq Calls /\ Snapshots \subseteq Calls /\ Chunks \cap Snapshots = {}
  BY DEF Chunks, Snapshots
<1>e. \A m \in Messages :
        /\ m \notin calls[t].about => history'[m] = history[m]
        /\ m \in calls[t].about => history'[m] > history[m]
        /\ m \in calls[t].about \ twice' => history'[m] = history[m] + 1
  BY DEF ArchivesStep, Enters
<1>c. t \in Chunks => \A m \in calls[t].about \ twice : m \in pending[calls[t].sess]
  BY <1>i DEF ChunksPend
<1>1. Numbered'
  BY <1>t, <1>i, <1>s, <1>o, <1>n, <1>e, <1>a DEF Numbered
<1>2. Locks'
  BY <1>t, <1>i, <1>o, <1>n DEF Locks
<1>3. Apart'
  <2>1. ASSUME NEW q \in Sessions, NEW s \in Sessions, NEW m \in pending'[q], m \in pending'[s]
        PROVE  q = s
    BY <2>1, <1>i, <1>p DEF Apart
  <2>2. ASSUME NEW u \in Snapshots \ {t}, NEW m \in calls[u].about
        PROVE  /\ \A s \in Sessions : m \notin pending'[s]
               /\ \A v \in Snapshots \ {t} : m \in calls[v].about => v = u
    BY <1>i, <1>p DEF Apart
  <2> QED
    BY <2>1, <2>2, <1>o, <1>n DEF Apart
<1>4. ChunksPend'
  <2> SUFFICES ASSUME NEW u \in Chunks \ {t}, NEW m \in calls[u].about \ twice'
               PROVE  m \in pending'[calls[u].sess]
    BY <1>o, <1>n DEF ChunksPend
  <2>1. m \in pending[calls[u].sess] /\ calls[u].sess \in Sessions
    BY <1>i, <1>s DEF ChunksPend, Locks
  <2>2. t \in Chunks => calls[t].sess # calls[u].sess
    BY <1>i, <1>n, <2>1 DEF Locks
  <2> QED
    BY <2>1, <2>2, <1>p
<1>5. Settled'
  <2> SUFFICES ASSUME NEW m \in Messages \ twice', history'[m] > 0
               PROVE  /\ history'[m] = 1
                      /\ \A s \in Sessions : m \notin pending'[s]
                      /\ \A u \in Snapshots' : m \notin calls'[u].about
    BY DEF Settled
  <2>1. CASE m \notin calls[t].about
    <3>1. history'[m] = history[m] /\ m \in Messages \ twice
      BY <2>1, <1>e, <1>s
    <3>2. /\ history[m] = 1
          /\ \A s \in Sessions : m \notin pending[s]
          /\ \A u \in Snapshots : m \notin calls[u].about
      BY <3>1, <1>i DEF Settled
    <3> QED
      BY <3>1, <3>2, <1>p, <1>o, <1>n
  <2>2. CASE m \in calls[t].about /\ t \in Snapshots
    <3>1. /\ \A s \in Sessions : m \notin pending[s]
          /\ \A u \in Snapshots : m \in calls[u].about => u = t
      BY <2>2, <1>i DEF Apart
    <3>2. history'[m] = history[m] + 1 /\ m \in Messages \ twice
      BY <2>2, <1>e, <1>s
    <3>3. history[m] = 0
      BY <2>2, <3>2, <1>t, <1>i DEF Settled
    <3> QED
      BY <3>1, <3>2, <3>3, <1>p, <1>o, <1>n
  <2>3. CASE m \in calls[t].about /\ t \in Chunks
    <3>1. calls[t].sess \in Sessions /\ m \in pending[calls[t].sess]
      BY <2>3, <1>i, <1>c, <1>s DEF Locks
    <3>2. history'[m] = 1
      BY <3>1, <2>3, <1>t, <1>i, <1>s, <1>e DEF Settled
    <3>3. \A s \in Sessions : m \notin pending'[s]
      BY <3>1, <2>3, <1>t, <1>i, <1>s DEF Apart
    <3>4. \A u \in Snapshots' : m \notin calls'[u].about
      BY <3>1, <1>i, <1>o, <1>n DEF Apart
    <3> QED
      BY <3>2, <3>3, <3>4
  <2> QED
    BY <2>1, <2>2, <2>3, <1>a
<1>6. RoundsCounted'
  <2> SUFFICES ASSUME NEW u \in Snapshots \ {t}
               PROVE  calls'[u].crossed \/ 0 >= calls'[u].tries
    BY <1>o, <1>n, <1>s DEF RoundsCounted
  <2>1. u \in Calls \ {t} /\ calls[u].tries \in Nat
    BY <1>t, <1>n
  <2> QED
    BY <2>1, <1>m
<1>7. NothingForgotten'
  <2> SUFFICES ASSUME NEW m \in 1 .. said
               PROVE  \/ \E s \in Sessions : m \in pending'[s]
                      \/ \E u \in Snapshots' : m \in calls'[u].about
                      \/ history'[m] > 0
                      \/ m \in forgone'
    BY <1>s DEF NothingForgotten, Snapshots
  <2>1. /\ m \in Messages
        /\ \/ \E s \in Sessions : m \in pending[s]
           \/ \E u \in Snapshots : m \in calls[u].about
           \/ history[m] > 0
           \/ m \in forgone
    BY <1>t, <1>i DEF NothingForgotten, Snapshots, Messages
  <2> QED
    <3>1. ASSUME m \in calls[t].about PROVE history'[m] > 0
      BY <3>1, <2>1, <1>t, <1>e
    <3>2. ASSUME m \notin calls[t].about PROVE history'[m] = history[m]
      BY <3>2, <2>1, <1>e
    <3>3. CASE \E s \in Sessions : m \in pending[s]
      BY <3>1, <3>3, <1>p
    <3>4. CASE \E u \in Snapshots : m \in calls[u].about
      BY <3>1, <3>4, <1>o, <1>n
    <3>5. CASE history[m] > 0 \/ m \in forgone
      BY <3>1, <3>2, <3>5, <1>s
    <3> QED
      BY <2>1, <3>3, <3>4, <3>5
<1> QED
  BY <1>1, <1>2, <1>3, <1>4, <1>5, <1>6, <1>7 DEF Parts

LEMMA RefusedKeeps ==
    ASSUME Inductive, TypeOK', NEW t \in Calls, RefusedStep(t)
    PROVE  Parts'
<1>t. /\ pending \in [Sessions -> SUBSET Messages] /\ history \in [Messages -> Nat]
      /\ history' \in [Messages -> Nat]
      /\ said \in 0 .. MaxMessages /\ MaxMessages \in Nat /\ NoSession \notin Sessions
      /\ \A u \in Calls : calls[u].about \subseteq Messages /\ calls[u].tries \in Nat
                          /\ calls[u].crossed \in BOOLEAN
      /\ failures \in Nat /\ MaxFailures \in Nat
  BY MemoryAssumption DEF Inductive, TypeOK, Call
<1>i. Numbered /\ Locks /\ Apart /\ ChunksPend /\ Settled /\ RoundsCounted /\ NothingForgotten
  BY DEF Inductive
<1>a. t \in Chunks \cup Snapshots
  BY DEF RefusedStep, Chunks, Snapshots
<1>s. pending' = pending /\ said' = said /\ twice \subseteq twice' /\ forgone \subseteq forgone'
  BY DEF RefusedStep
<1>o. /\ Chunks' = Chunks \ {t} /\ Snapshots' \subseteq Snapshots
      /\ Snapshots \ {t} \subseteq Snapshots'
      /\ \A u \in Calls \ {t} : calls'[u].about = calls[u].about /\ calls'[u].sess = calls[u].sess
      /\ calls'[t].sess = NoSession
      /\ \A u \in Snapshots' : calls'[u].about = calls[u].about
  BY DEF RefusedStep, OthersSame, Same, Gone, Chunks, Snapshots
<1>n. Chunks \subseteq Calls /\ Snapshots \subseteq Calls /\ Chunks \cap Snapshots = {}
  BY DEF Chunks, Snapshots
<1>e. \A m \in Messages : /\ history'[m] >= history[m]
                          /\ history'[m] # history[m] => m \in calls[t].about
                          /\ m \notin twice' => history'[m] = history[m]
  BY <1>t DEF RefusedStep, Enters
<1>1. Numbered'
  <2>1. \A m \in calls[t].about : m \in 1 .. said
    BY <1>a, <1>i DEF Numbered
  <2> QED
    BY <1>t, <1>i, <1>s, <1>o, <1>n, <1>e, <2>1 DEF Numbered
<1>2. Locks'
  BY <1>t, <1>i, <1>o, <1>n DEF Locks
<1>3. Apart'
  BY <1>i, <1>s, <1>o DEF Apart
<1>4. ChunksPend'
  BY <1>i, <1>s, <1>o, <1>n DEF ChunksPend
<1>5. Settled'
  BY <1>i, <1>s, <1>o, <1>e DEF Settled
<1>6. RoundsCounted'
  <2>1. ASSUME NEW u \in Snapshots', u # t
        PROVE  calls'[u].crossed \/ failures' >= calls'[u].tries
    <3>1. u \in Snapshots /\ u \in Calls
      BY <1>o, <1>n
    <3>2. calls'[u].tries = calls[u].tries /\ calls'[u].crossed = calls[u].crossed
          /\ failures' = failures + 1
      BY <2>1, <3>1 DEF RefusedStep, OthersSame, OthersKeepMark, Same
    <3>3. calls[u].crossed \/ failures >= calls[u].tries
      BY <3>1, <1>i DEF RoundsCounted
    <3> QED
      BY <1>t, <3>1, <3>2, <3>3
  <2>2. ASSUME t \in Snapshots'
        PROVE  calls'[t].crossed \/ failures' >= calls'[t].tries
    <3>1. /\ calls'[t].tries = calls[t].tries + 1 /\ calls'[t].crossed = calls[t].crossed
          /\ failures' = failures + 1 /\ t \in Snapshots
      BY <2>2, <1>o DEF RefusedStep, Gone, Snapshots
    <3>2. calls[t].crossed \/ failures >= calls[t].tries
      BY <3>1, <1>i DEF RoundsCounted
    <3> QED
      BY <1>t, <3>1, <3>2
  <2> QED
    BY <2>1, <2>2 DEF RoundsCounted
<1>7. NothingForgotten'
  \* A snapshot that is given up has been refused as often as the counter
  \* needs, so somebody set it back meanwhile.
  <2>1. ASSUME t \in Snapshots, t \notin Snapshots'
        PROVE  calls[t].about \subseteq forgone'
    <3>1. GivesUp(calls[t]) /\ calls[t].kind = "snapshot" /\ ~TooOften
      BY <2>1 DEF RefusedStep, Snapshots
    <3>2. calls[t].crossed \/ failures >= calls[t].tries
      BY <2>1, <1>i DEF RoundsCounted
    <3>3. calls[t].crossed
      BY <3>1, <3>2, <1>t DEF GivesUp, TooOften
    <3> QED
      BY <3>1, <3>3 DEF RefusedStep
  <2> SUFFICES ASSUME NEW m \in 1 .. said
               PROVE  \/ \E s \in Sessions : m \in pending'[s]
                      \/ \E u \in Snapshots' : m \in calls'[u].about
                      \/ history'[m] > 0
                      \/ m \in forgone'
    BY <1>s DEF NothingForgotten, Snapshots
  <2>2. /\ m \in Messages
        /\ \/ \E s \in Sessions : m \in pending[s]
           \/ \E u \in Snapshots : m \in calls[u].about
           \/ history[m] > 0
           \/ m \in forgone
    BY <1>t, <1>i DEF NothingForgotten, Snapshots, Messages
  <2>3. CASE \E u \in Snapshots : m \in calls[u].about
    <3>1. PICK u \in Snapshots : m \in calls[u].about
      BY <2>3
    <3>2. u \in Snapshots' => calls'[u].about = calls[u].about
      BY <1>o
    <3>3. u \notin Snapshots' => u = t
      BY <3>1, <1>o
    <3> QED
      BY <3>1, <3>2, <3>3, <2>1
  <2>4. CASE history[m] > 0
    BY <2>2, <2>4, <1>t, <1>e
  <2> QED
    BY <2>2, <2>3, <2>4, <1>s
<1> QED
  BY <1>1, <1>2, <1>3, <1>4, <1>5, <1>6, <1>7 DEF Parts

LEMMA QuietKeeps ==
    ASSUME Inductive, NEW t \in Calls, QuietStep(t)
    PROVE  Parts'
<1>i. Numbered /\ Locks /\ Apart /\ ChunksPend /\ Settled /\ RoundsCounted /\ NothingForgotten
  BY DEF Inductive
<1>s. /\ pending' = pending /\ history' = history /\ failures' = failures /\ said' = said
      /\ twice' = twice /\ forgone' = forgone
  BY DEF QuietStep
<1>o. /\ Chunks' \subseteq Chunks /\ Snapshots' = Snapshots
      /\ \A u \in Chunks' \cup Snapshots : calls'[u].about = calls[u].about
      /\ \A u \in Calls : calls'[u].sess \in {calls[u].sess, NoSession}
      /\ \A u \in Chunks' : calls'[u].sess = calls[u].sess
      /\ \A u \in Snapshots : calls'[u].tries = calls[u].tries
                              /\ calls'[u].crossed = calls[u].crossed
  BY DEF QuietStep, OthersSame, OthersKeepMark, Same, Gone, Chunks, Snapshots
<1>n. NoSession \notin Sessions
  BY MemoryAssumption
<1>1. Numbered'
  BY <1>i, <1>s, <1>o DEF Numbered
<1>2. Locks'
  BY <1>i, <1>o, <1>n DEF Locks
<1>3. Apart'
  BY <1>i, <1>s, <1>o DEF Apart
<1>4. ChunksPend'
  BY <1>i, <1>s, <1>o DEF ChunksPend
<1>5. Settled'
  BY <1>i, <1>s, <1>o DEF Settled
<1>6. RoundsCounted'
  BY <1>i, <1>s, <1>o DEF RoundsCounted
<1>7. NothingForgotten'
  BY <1>i, <1>s, <1>o DEF NothingForgotten, Snapshots
<1> QED
  BY <1>1, <1>2, <1>3, <1>4, <1>5, <1>6, <1>7 DEF Parts

LEMMA SayKeeps ==
    ASSUME Inductive, NEW s \in Sessions, Say(s)
    PROVE  Parts'
<1>t. /\ pending \in [Sessions -> SUBSET Messages] /\ history \in [Messages -> Nat]
      /\ said \in Nat
  BY MemoryAssumption DEF Inductive, TypeOK
<1>i. Numbered /\ Locks /\ Apart /\ ChunksPend /\ Settled /\ RoundsCounted /\ NothingForgotten
  BY DEF Inductive
<1>s. /\ said' = said + 1
      /\ \A r \in Sessions : pending'[r] = IF r = s THEN pending[r] \cup {said + 1} ELSE pending[r]
      /\ history' = history /\ failures' = failures /\ twice' = twice /\ forgone' = forgone
      /\ calls' = calls /\ Chunks' = Chunks /\ Snapshots' = Snapshots
  BY <1>t DEF Say, files, ghosts, Chunks, Snapshots
<1>p. \A r \in Sessions : \A m : m \in pending'[r] <=> m \in pending[r] \/ (r = s /\ m = said + 1)
  BY <1>s
<1>f. said + 1 \notin 1 .. said
  BY <1>t
<1>1. Numbered'
  <2>1. 1 .. said \subseteq 1 .. said'
    BY <1>t, <1>s
  <2>2. said + 1 \in 1 .. said'
    BY <1>t, <1>s
  <2> QED
    BY <1>i, <1>s, <2>1, <2>2 DEF Numbered
<1>2. Locks'
  BY <1>i, <1>s DEF Locks
<1>3. Apart'
  <2>1. \A r \in Sessions : said + 1 \notin pending[r]
    BY <1>i, <1>f DEF Numbered
  <2>2. \A t \in Snapshots : said + 1 \notin calls[t].about
    BY <1>i, <1>f DEF Numbered
  <2>3. \A q, r \in Sessions : \A m \in pending'[q] : m \in pending'[r] => q = r
    BY <1>i, <1>p, <2>1 DEF Apart
  <2>4. \A t \in Snapshots : \A m \in calls[t].about :
          /\ \A r \in Sessions : m \notin pending'[r]
          /\ \A u \in Snapshots : m \in calls[u].about => u = t
    BY <1>i, <1>p, <2>2 DEF Apart
  <2> QED
    BY <1>s, <2>3, <2>4 DEF Apart
<1>4. ChunksPend'
  BY <1>i, <1>s DEF ChunksPend, Locks
<1>5. Settled'
  <2>1. \A m \in Messages : history[m] > 0 => m # said + 1
    BY <1>i, <1>f DEF Numbered
  <2> QED
    BY <1>i, <1>s, <1>p, <2>1 DEF Settled
<1>6. RoundsCounted'
  BY <1>i, <1>s DEF RoundsCounted
<1>7. NothingForgotten'
  <2>1. \A m \in 1 .. said' : m \in 1 .. said \/ m = said + 1
    BY <1>t, <1>s
  <2> QED
    BY <1>i, <1>s, <2>1 DEF NothingForgotten
<1> QED
  BY <1>1, <1>2, <1>3, <1>4, <1>5, <1>6, <1>7 DEF Parts

\* A call about the messages of a session begins only while none holds its lock.
LEMMA BeginsKeeps ==
    ASSUME Inductive, NEW t \in Calls, NEW s \in Sessions, NEW c \in Call,
           c.kind \in {"chunk", "learn"}, c.sess = s, c.about \subseteq pending[s],
           Start(t, c), ~Locked(s),
           UNCHANGED <<pending, history, failures, said, twice, forgone>>
    PROVE  Parts'
<1>i. Numbered /\ Locks /\ Apart /\ ChunksPend /\ Settled /\ RoundsCounted /\ NothingForgotten
  BY DEF Inductive
<1>t. calls \in [Calls -> Call]
  BY DEF Inductive, TypeOK
<1>s. /\ pending' = pending /\ history' = history /\ failures' = failures /\ said' = said
      /\ twice' = twice /\ forgone' = forgone
  OBVIOUS
<1>c. /\ calls' = [calls EXCEPT ![t] = c] /\ t \notin Chunks \cup Snapshots
      /\ \A u \in Calls : calls[u].sess # s
  BY DEF Start, Open, Chunks, Snapshots, Locked
<1>o. /\ Chunks' \subseteq Chunks \cup {t} /\ Snapshots' = Snapshots
      /\ \A u \in Calls \ {t} : calls'[u] = calls[u]
      /\ calls'[t] = c
  BY <1>t, <1>c DEF Chunks, Snapshots
<1>n. Chunks \subseteq Calls /\ Snapshots \subseteq Calls \ {t}
  BY <1>c DEF Chunks, Snapshots
<1>1. Numbered'
  BY <1>i, <1>s, <1>o, <1>n DEF Numbered
<1>2. Locks'
  BY <1>i, <1>c, <1>o, <1>n DEF Locks
<1>3. Apart'
  BY <1>i, <1>s, <1>o, <1>n DEF Apart
<1>4. ChunksPend'
  BY <1>i, <1>s, <1>o, <1>n DEF ChunksPend
<1>5. Settled'
  BY <1>i, <1>s, <1>o, <1>n DEF Settled
<1>6. RoundsCounted'
  BY <1>i, <1>s, <1>o, <1>n DEF RoundsCounted
<1>7. NothingForgotten'
  <2>1. \A m : (\E u \in Snapshots : m \in calls[u].about)
                 => \E u \in Snapshots' : m \in calls'[u].about
    BY <1>o, <1>n
  <2> QED
    BY <1>i, <1>s, <2>1 DEF NothingForgotten, Snapshots
<1> QED
  BY <1>1, <1>2, <1>3, <1>4, <1>5, <1>6, <1>7 DEF Parts

LEMMA ClearKeeps ==
    ASSUME Inductive, NEW t \in Calls, NEW s \in Sessions, Clear(t, s)
    PROVE  Parts'
<1>i. Numbered /\ Locks /\ Apart /\ ChunksPend /\ Settled /\ RoundsCounted /\ NothingForgotten
  BY DEF Inductive
<1>t. /\ calls \in [Calls -> Call] /\ pending \in [Sessions -> SUBSET Messages]
      /\ failures \in Nat /\ NoSession \notin Sessions
  BY MemoryAssumption DEF Inductive, TypeOK
<1> DEFINE c == Began("snapshot", NoSession, pending[s])
<1>c. /\ c.kind = "snapshot" /\ c.sess = NoSession /\ c.about = pending[s] /\ c.tries = 0
  <2>1. pending[s] \in SUBSET Messages /\ NoSession \in Sessions \cup {NoSession} /\ TypeOK
    BY <1>t DEF Inductive
  <2> QED
    BY <2>1, BeganIsCall
<1>d. calls' = [calls EXCEPT ![t] = c] /\ t \notin Chunks \cup Snapshots
  BY DEF Clear, Start, Open, Chunks, Snapshots
<1> HIDE DEF c
<1>o. /\ Chunks' = Chunks /\ Snapshots' = Snapshots \cup {t}
      /\ \A u \in Calls \ {t} : calls'[u] = calls[u]
      /\ calls'[t] = c
  BY <1>t, <1>c, <1>d DEF Chunks, Snapshots
<1>n. Chunks \subseteq Calls \ {t} /\ Snapshots \subseteq Calls \ {t}
  BY <1>d DEF Chunks, Snapshots
<1>s. /\ \A r \in Sessions : pending'[r] = IF r = s THEN {} ELSE pending[r]
      /\ history' = history /\ failures' = failures /\ said' = said /\ forgone' = forgone
      /\ \A u \in Chunks : calls[u].sess = s => calls[u].about \subseteq twice'
      /\ twice \subseteq twice'
  BY <1>t DEF Clear, Chunks, files, bounds
<1>1. Numbered'
  BY <1>i, <1>s, <1>o, <1>n, <1>c DEF Numbered
<1>2. Locks'
  BY <1>i, <1>t, <1>c, <1>o, <1>n DEF Locks
<1>3. Apart'
  <2>1. \A q, r \in Sessions : \A m \in pending'[q] : m \in pending'[r] => q = r
    BY <1>i, <1>s DEF Apart
  <2>2. \A r \in Sessions : \A m \in pending[s] : m \notin pending'[r]
    BY <1>i, <1>s DEF Apart
  <2>3. \A m \in pending[s] : \A u \in Snapshots : m \notin calls[u].about
    BY <1>i DEF Apart
  <2>4. ASSUME NEW u \in Snapshots, NEW m \in calls[u].about
        PROVE  /\ \A r \in Sessions : m \notin pending'[r]
               /\ m \notin pending[s]
               /\ \A v \in Snapshots : m \in calls[v].about => v = u
    BY <1>i, <1>s DEF Apart
  <2> QED
    BY <1>c, <1>o, <1>n, <2>1, <2>2, <2>3, <2>4 DEF Apart
<1>4. ChunksPend'
  <2> SUFFICES ASSUME NEW u \in Chunks, NEW m \in calls[u].about \ twice'
               PROVE  m \in pending'[calls[u].sess]
    BY <1>o, <1>n DEF ChunksPend
  <2> QED
    BY <1>i, <1>s DEF ChunksPend, Locks
<1>5. Settled'
  <2> SUFFICES ASSUME NEW m \in Messages \ twice', history[m] > 0
               PROVE  /\ history[m] = 1
                      /\ \A r \in Sessions : m \notin pending'[r]
                      /\ \A u \in Snapshots \cup {t} : m \notin calls'[u].about
    BY <1>s, <1>o DEF Settled
  <2>1. /\ history[m] = 1
        /\ \A r \in Sessions : m \notin pending[r]
        /\ \A u \in Snapshots : m \notin calls[u].about
    BY <1>i, <1>s DEF Settled
  <2> QED
    BY <2>1, <1>s, <1>o, <1>n, <1>c
<1>6. RoundsCounted'
  BY <1>i, <1>t, <1>s, <1>o, <1>n, <1>c DEF RoundsCounted
<1>7. NothingForgotten'
  <2> SUFFICES ASSUME NEW m \in 1 .. said
               PROVE  \/ \E r \in Sessions : m \in pending'[r]
                      \/ \E u \in Snapshots' : m \in calls'[u].about
                      \/ history[m] > 0
                      \/ m \in forgone
    BY <1>s DEF NothingForgotten, Snapshots
  <2>1. \/ \E r \in Sessions : m \in pending[r]
        \/ \E u \in Snapshots : m \in calls[u].about
        \/ history[m] > 0
        \/ m \in forgone
    BY <1>i DEF NothingForgotten, Snapshots
  <2> QED
    BY <2>1, <1>s, <1>o, <1>n, <1>c
<1> QED
  BY <1>1, <1>2, <1>3, <1>4, <1>5, <1>6, <1>7 DEF Parts

LEMMA CrashKeeps ==
    ASSUME Inductive, Crash
    PROVE  Parts'
<1>i. Numbered /\ Locks /\ Apart /\ ChunksPend /\ Settled /\ RoundsCounted /\ NothingForgotten
  BY DEF Inductive
<1>t. /\ calls \in [Calls -> Call] /\ pending \in [Sessions -> SUBSET Messages]
      /\ history \in [Messages -> Nat] /\ NoSession \notin Sessions /\ said \in 0 .. MaxMessages
      /\ MaxMessages \in Nat
  BY MemoryAssumption DEF Inductive, TypeOK
<1>1. PICK about \in {{}} \cup {calls[t].about : t \in Chunks} :
        history' = Entered(about) /\ twice' = twice \cup about
  BY DEF Crash, Chunks
<1>a. about \subseteq 1 .. said /\ about \in SUBSET Messages
  BY <1>i, <1>t DEF Numbered, Messages
<1>e. \A m \in Messages : history'[m] = history[m] + IF m \in about THEN 1 ELSE 0
  BY <1>1, <1>t, <1>a, EnteredType
<1>s. /\ pending' = pending /\ said' = said /\ forgone \subseteq forgone'
      /\ \A t \in Snapshots : calls[t].about \subseteq forgone'
      /\ Chunks' = {} /\ Snapshots' = {}
      /\ \A t \in Calls : calls'[t].sess = NoSession
  BY FreeIsCall DEF Crash, Chunks, Snapshots
<1>2. Numbered'
  BY <1>i, <1>t, <1>a, <1>e, <1>s DEF Numbered
<1>3. Locks' /\ ChunksPend' /\ RoundsCounted'
  BY <1>t, <1>s DEF Locks, ChunksPend, RoundsCounted
<1>4. Apart'
  BY <1>i, <1>s DEF Apart
<1>5. Settled'
  BY <1>i, <1>t, <1>1, <1>e, <1>s DEF Settled
<1>6. NothingForgotten'
  <2> SUFFICES ASSUME NEW m \in 1 .. said
               PROVE  \/ \E s \in Sessions : m \in pending[s]
                      \/ history'[m] > 0
                      \/ m \in forgone'
    BY <1>s DEF NothingForgotten
  <2>1. m \in Messages
    BY <1>t DEF Messages
  <2>2. \/ \E s \in Sessions : m \in pending[s]
        \/ \E u \in Snapshots : m \in calls[u].about
        \/ history[m] > 0
        \/ m \in forgone
    BY <1>i DEF NothingForgotten, Snapshots
  <2> QED
    BY <2>1, <2>2, <1>t, <1>e, <1>s
<1> QED
  BY <1>2, <1>3, <1>4, <1>5, <1>6 DEF Parts

-----------------------------------------------------------------------------
(* The theorems.                                                           *)

LEMMA InductiveInit == Init => Inductive
<1> SUFFICES ASSUME Init PROVE Inductive
  OBVIOUS
<1>1. TypeOK
  BY InitType
<1>2. /\ \A s \in Sessions : pending[s] = {}
      /\ \A m \in Messages : history[m] = 0
      /\ Chunks = {} /\ Snapshots = {} /\ said = 0
      /\ \A t \in Calls : calls[t].sess = NoSession
      /\ NoSession \notin Sessions
  BY FreeIsCall, MemoryAssumption DEF Init, Chunks, Snapshots
<1>3. Numbered /\ Locks /\ Apart /\ ChunksPend /\ Settled /\ RoundsCounted /\ NothingForgotten
  BY <1>2 DEF Numbered, Locks, Apart, ChunksPend, Settled, RoundsCounted, NothingForgotten
<1> QED
  BY <1>1, <1>3 DEF Inductive

LEMMA InductiveStep == Inductive /\ [Next]_vars => Inductive'
<1> SUFFICES ASSUME Inductive, [Next]_vars PROVE Inductive'
  OBVIOUS
<1>t. TypeOK /\ TypeOK'
  BY TypeStep DEF Inductive
<1>c. calls \in [Calls -> Call] /\ pending \in [Sessions -> SUBSET Messages]
  BY <1>t DEF TypeOK
<1> SUFFICES Parts'
  BY <1>t DEF Inductive, Parts
<1>1. ASSUME NEW s \in Sessions, Say(s) PROVE Parts'
  BY <1>1, SayKeeps
<1>2. ASSUME NEW t \in Calls, NEW s \in Sessions, Consolidate(t, s) PROVE Parts'
  <2>1. PICK b \in pending[s] : Start(t, Began("chunk", s, {m \in pending[s] : m <= b}))
    BY <1>2 DEF Consolidate
  <2>2. {m \in pending[s] : m <= b} \in SUBSET Messages
    BY <1>c
  <2> DEFINE c == Began("chunk", s, {m \in pending[s] : m <= b})
  <2>3. c \in Call /\ c.kind = "chunk" /\ c.sess = s /\ c.about = {m \in pending[s] : m <= b}
    BY <1>t, <2>2, BeganIsCall
  <2>4. Start(t, c) /\ ~Locked(s) /\ UNCHANGED <<pending, history, failures, said, twice, forgone>>
    BY <1>2, <2>1 DEF Consolidate, files, bounds, ghosts
  <2> HIDE DEF c
  <2>5. c.about \subseteq pending[s]
    BY <2>3
  <2> QED
    BY <2>3, <2>4, <2>5, BeginsKeeps
<1>3. ASSUME NEW t \in Calls, NEW s \in Sessions, Learn(t, s) PROVE Parts'
  <2> DEFINE c == Began("learn", s, pending[s])
  <2>3. c \in Call /\ c.kind = "learn" /\ c.sess = s /\ c.about = pending[s]
    BY <1>t, <1>c, BeganIsCall
  <2>4. Start(t, c) /\ ~Locked(s) /\ UNCHANGED <<pending, history, failures, said, twice, forgone>>
    BY <1>3 DEF Learn, files, ghosts
  <2> HIDE DEF c
  <2> QED
    BY <2>3, <2>4, BeginsKeeps
<1>4. ASSUME NEW t \in Calls, NEW s \in Sessions, Clear(t, s) PROVE Parts'
  BY <1>4, ClearKeeps
<1>5. ASSUME NEW t \in Calls, Consolidated(t) \/ ConsolidateFails(t) \/ WriteFails(t)
      PROVE  Parts'
  <2>1. ArchivesStep(t) \/ RefusedStep(t)
    BY <1>5, <1>t, ConsolidatedStep, FailureStep, WriteFailureStep
  <2> QED
    BY <1>t, <2>1, ArchivesKeeps, RefusedKeeps
<1>6. ASSUME NEW t \in Calls,
             Retry(t) \/ RetryWithAuto(t) \/ Learned(t) \/ Compacted(t) \/ Cancel(t)
      PROVE  Parts'
  BY <1>6, <1>t, QuietSteps, QuietKeeps
<1>7. CASE Crash
  BY <1>7, CrashKeeps
<1>8. CASE UNCHANGED vars
  <2>1. /\ pending' = pending /\ history' = history /\ failures' = failures /\ said' = said
        /\ twice' = twice /\ forgone' = forgone /\ calls' = calls
        /\ Chunks' = Chunks /\ Snapshots' = Snapshots
    BY <1>8 DEF vars, files, bounds, ghosts, Chunks, Snapshots
  <2> QED
    BY <2>1 DEF Inductive, Parts, Numbered, Locks, Apart, ChunksPend, Settled, RoundsCounted,
                NothingForgotten
<1> QED
  BY <1>1, <1>2, <1>3, <1>4, <1>5, <1>6, <1>7, <1>8 DEF Next, Answer

LEMMA AlwaysInductive == Spec => []Inductive
BY InductiveInit, InductiveStep, PTL DEF Spec

\* A message that leaves its conversation is in HISTORY.md or in a snapshot
\* being archived, unless another consolidation set the shared counter of
\* failures back between two rounds of the archive or the gateway died with
\* the snapshot (memory.py:522-535, 640-660; loop.py:807-819).
THEOREM NothingIsForgotten == Spec => []NothingForgotten
<1>1. Inductive => NothingForgotten
  BY DEF Inductive
<1> QED
  BY <1>1, AlwaysInductive, PTL

\* No message is entered in HISTORY.md twice but by a fault between the entry
\* and the end of the call, or by /new during its consolidation: the
\* session's lock and last_consolidated keep the calls apart
\* (memory.py:662-714).
THEOREM EachArchivedOnce == Spec => []ArchivedOnce
<1>1. Inductive => ArchivedOnce
  <2> SUFFICES ASSUME Inductive, NEW m \in Messages \ twice PROVE history[m] <= 1
    BY DEF ArchivedOnce
  <2>1. history[m] \in Nat
    BY DEF Inductive, TypeOK
  <2>2. history[m] > 0 => history[m] = 1
    BY DEF Inductive, Settled
  <2> QED
    BY <2>1, <2>2
<1> QED
  BY <1>1, AlwaysInductive, PTL

-----------------------------------------------------------------------------
(* The facts in the files.                                                 *)

LEMMA RewriteKeepsFacts ==
    ASSUME FactsKept, NEW c, NEW m, NEW u, c.memory \subseteq m, c.user \subseteq u,
           Rewrite(c, m, u)
    PROVE  FactsKept'
<1>1. /\ memory' = IF m = c.memory THEN memory ELSE m
      /\ user' = IF u = c.user THEN user ELSE u
      /\ memory \ memory' \subseteq clobbered' /\ user \ user' \subseteq clobbered'
      /\ clobbered \subseteq clobbered'
      /\ taught' = taught \cup (m \ c.memory) \cup (u \ c.user)
  BY DEF Rewrite, Written, Unseen
<1>2. m \ c.memory \subseteq memory' /\ u \ c.user \subseteq user'
  BY <1>1
<1> QED
  BY <1>1, <1>2 DEF FactsKept

LEMMA UpdatedKeepsFacts ==
    ASSUME FactsKept, NEW c, Updated(c)
    PROVE  FactsKept'
BY RewriteKeepsFacts DEF Updated

LEMMA HalfWrittenKeepsFacts ==
    ASSUME FactsKept, NEW c, user' = user,
           memory' = Written(memory, c.memory, c.memory \cup (c.about \ Personal)),
           taught' = taught \cup (c.about \ (Personal \cup c.memory)),
           clobbered' = clobbered \cup Unseen(memory, c.memory, c.memory \cup (c.about \ Personal))
    PROVE  FactsKept'
<1> DEFINE m == c.memory \cup (c.about \ Personal)
<1>1. memory \ memory' \subseteq clobbered' /\ clobbered \subseteq clobbered'
  BY DEF Written, Unseen
<1>2. c.about \ (Personal \cup c.memory) \subseteq memory'
  BY DEF Written
<1> QED
  BY <1>1, <1>2 DEF FactsKept

LEMMA FactsStep == FactsKept /\ [Next]_vars => FactsKept'
<1> SUFFICES ASSUME FactsKept, [Next]_vars PROVE FactsKept'
  OBVIOUS
<1>1. ASSUME UNCHANGED <<memory, user, taught, clobbered>> PROVE FactsKept'
  BY <1>1 DEF FactsKept
<1>2. ASSUME NEW s \in Sessions, Say(s) PROVE FactsKept'
  BY <1>1, <1>2 DEF Say, files, ghosts
<1>3. ASSUME NEW t \in Calls, NEW s \in Sessions, Consolidate(t, s) \/ Learn(t, s) \/ Clear(t, s)
      PROVE  FactsKept'
  BY <1>1, <1>3 DEF Consolidate, Learn, Clear, files, ghosts
<1>4. ASSUME NEW t \in Calls, Retry(t) \/ RetryWithAuto(t) \/ ConsolidateFails(t) \/ Cancel(t)
      PROVE  FactsKept'
  BY <1>1, <1>4 DEF Retry, RetryWithAuto, ConsolidateFails, Cancel, files, ghosts
<1>5. ASSUME NEW t \in Calls, Consolidated(t) PROVE FactsKept'
  BY <1>5, UpdatedKeepsFacts DEF Consolidated
<1>6. ASSUME NEW t \in Calls, Learned(t) PROVE FactsKept'
  BY <1>1, <1>6, UpdatedKeepsFacts DEF Learned
<1>7. ASSUME NEW t \in Calls, WriteFails(t) PROVE FactsKept'
  BY <1>1, <1>7, HalfWrittenKeepsFacts DEF WriteFails
<1>8. ASSUME NEW t \in Calls, Compacted(t) PROVE FactsKept'
  BY <1>8 DEF Compacted, FactsKept
<1>9. CASE Crash
  BY <1>1, <1>9 DEF Crash
<1>10. CASE UNCHANGED vars
  BY <1>1, <1>10 DEF vars, files, ghosts
<1> QED
  BY <1>2, <1>3, <1>4, <1>5, <1>6, <1>7, <1>8, <1>9, <1>10 DEF Next, Answer

\* A fact written to MEMORY.md or USER.md is lost only to a call that had read
\* the files before and wrote something of its own: a call that has nothing
\* to add leaves them alone (memory.py:353-356, 365-445).
THEOREM FactsAreKept == Spec => []FactsKept
<1>1. Init => FactsKept
  BY DEF Init, FactsKept
<1> QED
  BY <1>1, FactsStep, PTL DEF Spec
=============================================================================
