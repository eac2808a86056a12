-------------------------------- MODULE Memory --------------------------------
(***************************************************************************)
(* The long-term memory of KageClaw (agent/memory.py): HISTORY.md, to      *)
(* which consolidated messages go, and MEMORY.md and USER.md, which LLM    *)
(* calls read, rewrite and write back.  Calls about one session take turns *)
(* (PackMemory.get_lock); calls about different sessions, the snapshot of  *)
(* a cleared conversation and the compaction of MEMORY.md overlap freely.  *)
(*                                                                         *)
(* Nothing between the answer of the LLM and the last file written lets    *)
(* another task run (_file_lock is never contended), so an answer is used  *)
(* in one step.  A message carries one fact, and a file is the set of the  *)
(* facts it states: the LLM is taken at its best, for it is told to keep   *)
(* what is there, and what is lost then is lost by the program.            *)
(***************************************************************************)
EXTENDS Naturals, FiniteSets

CONSTANTS
    Calls,          \* bound: LLM calls under way at once
    Sessions,
    NoSession,
    Personal,       \* messages whose fact belongs in USER.md
    MaxFailures,    \* _MAX_FAILURES_BEFORE_RAW_ARCHIVE
    Retries,        \* length of _CHAT_RETRY_DELAYS
    MaxMessages,    \* bound: messages created in one behaviour
    MaxLearns,      \* bound: learning and compaction calls in one behaviour
    MaxFaults       \* bound: write errors, cancellations and crashes

ASSUME MemoryAssumption ==
    /\ Calls # {} /\ IsFiniteSet(Calls)
    /\ NoSession \notin Sessions
    /\ Personal \subseteq Nat
    /\ MaxFailures \in Nat \ {0} /\ Retries \in Nat
    /\ MaxMessages \in Nat /\ MaxLearns \in Nat /\ MaxFaults \in Nat

VARIABLES
    pending,    \* pending[s]: messages of s not consolidated yet
    history,    \* how often a message is in HISTORY.md
    memory,     \* the facts of MEMORY.md
    user,       \* the facts of USER.md
    failures,   \* _consecutive_failures, one counter for all calls
    calls,      \* the LLM calls under way
    said,       \* messages created so far (also their ids)
    learns,     \* learning and compaction calls so far (bound only)
    faults,     \* faults so far (bound only)
    taught,     \* history: facts some call has written
    clobbered,  \* history: facts overwritten by a call that had not read them
    forgone,    \* history: messages a crash or a reset of the counter cost
    twice       \* history: messages a fault or /new has archived again

files == <<history, memory, user>>
bounds == <<said, learns, faults>>
ghosts == <<taught, clobbered, forgone, twice>>
vars == <<pending, files, failures, calls, bounds, ghosts>>

Messages == 1 .. MaxMessages

\* tries: rounds of archive_snapshot that failed; crossed: since then another
\* call has set the failure counter back.
Free == [kind |-> "none", sess |-> NoSession, about |-> {}, memory |-> {}, user |-> {},
         forced |-> TRUE, attempt |-> 0, tries |-> 0, crossed |-> FALSE]
Call == [kind : {"none", "chunk", "snapshot", "learn", "compact"},
         sess : Sessions \cup {NoSession}, about : SUBSET Messages,
         memory : SUBSET Messages, user : SUBSET Messages,
         forced : BOOLEAN, attempt : 0 .. Retries, tries : 0 .. MaxFailures - 1,
         crossed : BOOLEAN]

Open(t) == calls[t].kind # "none"

\* The session's lock is held.
Locked(s) == \E t \in Calls : calls[t].sess = s

\* A call begins: it reads both files, then waits for the LLM.
Began(kind, s, about) ==
    [Free EXCEPT !.kind = kind, !.sess = s, !.about = about,
                 !.memory = memory, !.user = user]

Init ==
    /\ pending = [s \in Sessions |-> {}]
    /\ history = [m \in Messages |-> 0]
    /\ memory = {} /\ user = {}
    /\ failures = 0
    /\ calls = [t \in Calls |-> Free]
    /\ said = 0 /\ learns = 0 /\ faults = 0
    /\ taught = {} /\ clobbered = {} /\ forgone = {} /\ twice = {}

-----------------------------------------------------------------------------
(* What starts a call.                                                     *)

Start(t, call) == ~Open(t) /\ calls' = [calls EXCEPT ![t] = call]

\* A turn ends and leaves its messages in the session.
Say(s) ==
    /\ said < MaxMessages
    /\ said' = said + 1
    /\ pending' = [pending EXCEPT ![s] = @ \cup {said'}]
    /\ UNCHANGED <<files, failures, calls, learns, faults, ghosts>>

\* maybe_consolidate_by_tokens: the oldest messages, up to a boundary.
Consolidate(t, s) ==
    /\ ~Locked(s)
    /\ \E b \in pending[s] :
        Start(t, Began("chunk", s, {m \in pending[s] : m <= b}))
    /\ UNCHANGED <<pending, files, failures, bounds, ghosts>>

\* maybe_proactive_learn
Learn(t, s) ==
    /\ learns < MaxLearns /\ learns' = learns + 1
    /\ pending[s] # {}
    /\ ~Locked(s)
    /\ Start(t, Began("learn", s, pending[s]))
    /\ UNCHANGED <<pending, files, failures, said, faults, ghosts>>

\* /new and the WebUI's archive route: the session is emptied at once and its
\* messages are archived in the background.  A chunk on its way is in both.
Clear(t, s) ==
    /\ pending[s] # {}
    /\ Start(t, Began("snapshot", NoSession, pending[s]))
    /\ pending' = [pending EXCEPT ![s] = {}]
    /\ twice' = twice \cup UNION {calls[u].about : u \in {v \in Calls :
                    calls[v].kind = "chunk" /\ calls[v].sess = s}}
    /\ UNCHANGED <<files, failures, bounds, taught, clobbered, forgone>>

-----------------------------------------------------------------------------
(* What becomes of a call.                                                 *)

\* maybe_compact_memory, once a learning call or a snapshot is done.
Compacts(call) ==
    /\ learns < MaxLearns /\ learns' = learns + 1
    /\ memory' # {}
    /\ call = [Free EXCEPT !.kind = "compact", !.memory = memory']

Ends(call) == call = Free /\ UNCHANGED learns

\* Call t goes on as next; a reset of the counter crosses the others' rounds.
Becomes(t, next, reset) ==
    calls' = [u \in Calls |->
        IF u = t THEN next
        ELSE [calls[u] EXCEPT !.crossed = @ \/ (reset /\ calls[u].tries > 0)]]

\* Fault: last_consolidated is not advanced.
NotLeftBehind(c) == pending

\* last_consolidated = end_idx
LeftBehind(c) == IF c.kind = "chunk"
                 THEN [pending EXCEPT ![c.sess] = @ \ c.about] ELSE pending

\* consolidate returned True: a chunk is left behind for good.
Archived(t) ==
    LET c == calls[t]
    IN  \E next \in {Free, [Free EXCEPT !.kind = "compact", !.memory = memory']} :
        /\ Becomes(t, next, TRUE)
        /\ Ends(next) \/ (c.kind = "snapshot" /\ Compacts(next))
        /\ pending' = LeftBehind(c)
        /\ UNCHANGED forgone

\* Fault: a snapshot is given up after one round less.
GivesUpEarly(c) == c.tries + 2 >= MaxFailures

GivesUp(c) == c.tries + 1 >= MaxFailures

\* consolidate returned False: a chunk waits for the next trigger, a snapshot
\* is tried again, as often as the counter needs to archive it raw.
Refused(t) ==
    LET c == calls[t]
        again == [Began("snapshot", NoSession, c.about) EXCEPT
                    !.tries = c.tries + 1, !.crossed = c.crossed]
    IN  \E next \in {Free, again, [Free EXCEPT !.kind = "compact", !.memory = memory']} :
        /\ Becomes(t, next, FALSE)
        /\ IF c.kind = "snapshot" /\ ~GivesUp(c)
           THEN next = again /\ UNCHANGED learns
           ELSE Ends(next) \/ (c.kind = "snapshot" /\ Compacts(next))
        /\ forgone' = IF c.kind = "snapshot" /\ GivesUp(c) /\ c.crossed
                      THEN forgone \cup c.about ELSE forgone
        /\ UNCHANGED pending

Entered(about) == [m \in Messages |-> history[m] + IF m \in about THEN 1 ELSE 0]

TooOften == failures + 1 >= MaxFailures

\* _fail_or_raw_archive, with what HISTORY.md holds by then.
FailOrRawArchive(t) ==
    IF TooOften
    THEN /\ failures' = 0
         /\ history' = Entered(calls[t].about)
         /\ Archived(t)
    ELSE /\ failures' = failures + 1
         /\ UNCHANGED history
         /\ Refused(t)

\* Fault: an update that says nothing new is written all the same.
WrittenAlways(current, read, update) == update

\* A file is written only if the answer differs from what the call had read.
Written(current, read, update) == IF update = read THEN current ELSE update

\* The facts that go unseen: the call had something to write, and what it
\* read was no longer there.
Unseen(current, read, update) ==
    IF update # read /\ read # current THEN current \ update ELSE {}

\* MEMORY.md becomes m and USER.md becomes u in the view of call c.
Rewrite(c, m, u) ==
    /\ memory' = Written(memory, c.memory, m)
    /\ user' = Written(user, c.user, u)
    /\ clobbered' = clobbered \cup Unseen(memory, c.memory, m) \cup Unseen(user, c.user, u)
    /\ taught' = taught \cup (m \ c.memory) \cup (u \ c.user)

Updated(c) == Rewrite(c, c.memory \cup (c.about \ Personal),
                         c.user \cup (c.about \cap Personal))

-----------------------------------------------------------------------------
(* What the LLM answers.                                                   *)

\* chat_with_retry: a transient error or a timeout, and delays are left.
Retry(t) ==
    /\ Open(t)
    /\ calls[t].attempt < Retries
    /\ calls' = [calls EXCEPT ![t].attempt = @ + 1]
    /\ UNCHANGED <<pending, files, failures, bounds, ghosts>>

\* Fault: the second call still forces the tool.
StillForced(c) == [c EXCEPT !.attempt = 0]

\* The provider does not support a forced tool_choice (a learning call:
\* any error, or no tool call): once more with "auto".
WithAuto(c) == [c EXCEPT !.forced = FALSE, !.attempt = 0]

RetryWithAuto(t) ==
    /\ Open(t) /\ calls[t].kind # "compact"
    /\ calls[t].forced
    /\ calls' = [calls EXCEPT ![t] = WithAuto(@)]
    /\ UNCHANGED <<pending, files, failures, bounds, ghosts>>

\* consolidate gets a usable save_memory call.
Consolidated(t) ==
    LET c == calls[t]
    IN  /\ c.kind \in {"chunk", "snapshot"}
        /\ history' = Entered(c.about)
        /\ Updated(c)
        /\ failures' = 0
        /\ Archived(t)
        /\ UNCHANGED <<said, faults, twice>>

\* An error, no tool call, or one that is malformed.
ConsolidateFails(t) ==
    /\ calls[t].kind \in {"chunk", "snapshot"}
    /\ UNCHANGED <<memory, user, said, faults, taught, clobbered, twice>>
    /\ FailOrRawArchive(t)

\* HISTORY.md is written, and then USER.md or MEMORY.md cannot be: the call
\* counts as failed although its entry is there.
WriteFails(t) ==
    LET c == calls[t]
    IN  /\ c.kind \in {"chunk", "snapshot"}
        /\ faults < MaxFaults /\ faults' = faults + 1
        /\ \/ UNCHANGED <<memory, taught, clobbered>>
           \/ /\ memory' = Written(memory, c.memory, c.memory \cup (c.about \ Personal))
              /\ taught' = taught \cup (c.about \ (Personal \cup c.memory))
              /\ clobbered' = clobbered \cup
                    Unseen(memory, c.memory, c.memory \cup (c.about \ Personal))
        /\ twice' = twice \cup c.about
        /\ IF TooOften
           THEN /\ failures' = 0
                /\ history' = [m \in Messages |-> history[m] + IF m \in c.about THEN 2 ELSE 0]
                /\ Archived(t)
           ELSE /\ failures' = failures + 1
                /\ history' = Entered(c.about)
                /\ Refused(t)
        /\ UNCHANGED <<user, said>>

\* proactive_consolidate gets a usable call, or not; either way the memory
\* may be found too long.
Learned(t) ==
    LET c == calls[t]
    IN  /\ c.kind = "learn"
        /\ \/ Updated(c)
           \/ UNCHANGED <<memory, user, taught, clobbered>>
        /\ \E next \in {Free, [Free EXCEPT !.kind = "compact", !.memory = memory']} :
            Becomes(t, next, FALSE) /\ (Ends(next) \/ Compacts(next))
        /\ UNCHANGED <<pending, history, failures, said, faults, forgone, twice>>

\* compact_long_term gets a shorter text, or not.
Compacted(t) ==
    LET c == calls[t]
    IN  /\ c.kind = "compact"
        /\ calls' = [calls EXCEPT ![t] = Free]
        /\ \/ /\ memory' = c.memory
              /\ clobbered' = clobbered \cup (memory \ c.memory)
           \/ UNCHANGED <<memory, clobbered>>
        /\ UNCHANGED <<pending, history, user, failures, bounds, taught, forgone, twice>>

\* /stop cancels the turn that waits for its consolidation; CancelledError
\* passes every handler.
Cancel(t) ==
    /\ calls[t].kind = "chunk"
    /\ faults < MaxFaults /\ faults' = faults + 1
    /\ calls' = [calls EXCEPT ![t] = Free]
    /\ UNCHANGED <<pending, files, failures, said, learns, ghosts>>

\* The gateway dies, perhaps with HISTORY.md written for a chunk whose index
\* is not saved yet.  Snapshots are only in memory.
Crash ==
    /\ faults < MaxFaults /\ faults' = faults + 1
    /\ \E about \in {{}} \cup {calls[t].about : t \in {u \in Calls : calls[u].kind = "chunk"}} :
        /\ history' = Entered(about)
        /\ twice' = twice \cup about
    /\ forgone' = forgone \cup UNION {calls[t].about : t \in
                    {u \in Calls : calls[u].kind = "snapshot"}}
    /\ calls' = [t \in Calls |-> Free]
    /\ failures' = 0
    /\ UNCHANGED <<pending, memory, user, said, learns, taught, clobbered>>

-----------------------------------------------------------------------------

Answer(t) ==
    \/ Retry(t) \/ RetryWithAuto(t)
    \/ Consolidated(t) \/ ConsolidateFails(t)
    \/ Learned(t) \/ Compacted(t)

Next ==
    \/ \E s \in Sessions : Say(s)
    \/ \E t \in Calls, s \in Sessions : Consolidate(t, s) \/ Learn(t, s) \/ Clear(t, s)
    \/ \E t \in Calls : Answer(t) \/ WriteFails(t) \/ Cancel(t)
    \/ Crash

Spec == Init /\ [][Next]_vars

\* While requests to the provider are open one of them ends, by its answer or
\* by _CHAT_TIMEOUT; which one is not promised.
FairSpec == Spec /\ WF_vars(\E t \in Calls : Answer(t))

-----------------------------------------------------------------------------

TypeOK ==
    /\ pending \in [Sessions -> SUBSET Messages]
    /\ history \in [Messages -> Nat]
    /\ memory \subseteq Messages /\ user \subseteq Messages
    /\ failures \in 0 .. MaxFailures - 1
    /\ calls \in [Calls -> Call]
    /\ said \in 0 .. MaxMessages /\ learns \in 0 .. MaxLearns /\ faults \in 0 .. MaxFaults
    /\ taught \subseteq Messages /\ clobbered \subseteq Messages
    /\ forgone \subseteq Messages /\ twice \subseteq Messages

\* A message leaves its conversation only for HISTORY.md: it is pending, or in
\* a snapshot being archived, or there.  archive_snapshot makes as many rounds
\* as _fail_or_raw_archive needs, but counts on a counter all calls share: a
\* message is missing only if another consolidation set it back between two
\* rounds, or the gateway died with the snapshot in memory.
NothingForgotten ==
    \A m \in 1 .. said :
        \/ \E s \in Sessions : m \in pending[s]
        \/ \E t \in Calls : calls[t].kind = "snapshot" /\ m \in calls[t].about
        \/ history[m] > 0
        \/ m \in forgone

\* A message is entered in HISTORY.md once, unless a write failed or the
\* gateway died after its entry, or /new came while its chunk was being
\* consolidated: failed rounds, raw archives and overlapping calls of other
\* sessions do not repeat it.
ArchivedOnce == \A m \in Messages \ twice : history[m] <= 1

\* What a call has written to MEMORY.md or USER.md is still there, however
\* calls overlap, unless a call that had begun before it had something of its
\* own to write.  (Between read and write no lock is held across sessions.)
FactsKept == taught \subseteq memory \cup user \cup clobbered

\* Every call ends: refusals, timeouts and providers without tool_choice
\* cannot keep a session's lock or a snapshot for ever.
CallsEnd == \A t \in Calls : Open(t) ~> ~Open(t)

=============================================================================
