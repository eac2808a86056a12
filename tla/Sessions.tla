------------------------------ MODULE Sessions ------------------------------
(***************************************************************************)
(* One conversation of KageClaw and the file that keeps it.  Two processes *)
(* open the file through a PackManager of their own (brain/manager.py):    *)
(* the gateway, whose turns and background tasks (agent/loop.py,           *)
(* agent/memory.py) hold a Session object across awaits, and the WebUI     *)
(* (webui/routers/sessions.py, webui/agent_manager.py), whose handlers     *)
(* open, change and save it in one step.                                   *)
(*                                                                         *)
(* All that a PackManager keeps is kept per key, so one key is enough.  A  *)
(* Session object has an identity: a task may hold an object the cache has *)
(* replaced.  What the manager believes to be in the file (persisted) is   *)
(* kept per key, not per object.  A save is one step.                      *)
(***************************************************************************)
EXTENDS Naturals, Sequences, FiniteSets

CONSTANTS
    Tasks,          \* bound: tasks of the gateway at work on the session at once
    Objs, NoObj,    \* identities of Session objects
    Metas, Plain,   \* values of Session.metadata, and the empty one
    LearnInterval,  \* learning_interval
    Clears,         \* whether the user sends /new
    WebActs,        \* what the WebUI does: "notify", "patch", "delete"
    MaxMessages,    \* bound: messages created in one behaviour
    MaxStale,       \* bound: saves of an object that is behind the file
    MaxEvents       \* bound: /new, WebUI writes and restarts in one behaviour

Procs == {"gateway", "webui"}

ASSUME SessionAssumption ==
    /\ NoObj \notin Objs
    /\ Plain \in Metas
    /\ LearnInterval \in Nat \ {0}
    /\ Clears \in BOOLEAN
    /\ WebActs \subseteq {"notify", "patch", "delete"}
    /\ MaxMessages \in Nat /\ MaxStale \in Nat /\ MaxEvents \in Nat

VARIABLES
    file,       \* the .jsonl file: whether it is there, and what it holds
    cache,      \* cache[p]: the object in _cache of process p
    persisted,  \* persisted[p]: the _cache_persisted_* entries of p
    seen,       \* _cache_mtime_ns: how the mtime p noted compares to the file's
    objs,       \* the Session objects
    tasks,      \* the gateway's tasks
    log,        \* history: the messages the conversation should hold
    named,      \* history: the metadata somebody set last
    archived,   \* history: ids of messages handed to the long-term memory
    stale,      \* history: saves so far of an object that was behind the file
    issued,     \* messages created so far (also their ids)
    events      \* /new, WebUI writes and restarts so far (bound only)

fileVars == <<file, cache, persisted, seen, objs>>
history == <<log, named, archived, stale>>
vars == <<fileVars, tasks, history, issued, events>>

-----------------------------------------------------------------------------

Message == [id : Nat, by : {"user", "agent", "webui"}]
Session == [msgs : Seq(Message), cons : Nat, learned : Nat, meta : Metas]
Blank == [msgs |-> <<>>, cons |-> 0, learned |-> 0, meta |-> Plain]

Ids(msgs) == {msgs[i].id : i \in DOMAIN msgs}

\* get_history: what the model is shown, without the window of 500 messages and
\* the alignment to a user's message and to tool calls, which shorten it.
History(s) == SubSeq(s.msgs, s.cons + 1, Len(s.msgs))

\* A turn waits for the memory lock and archives (both in
\* maybe_consolidate_by_tokens), then is in the agent loop.  The background
\* tasks it leaves are due, and later wait and archive, or learn.
Free == [stage |-> "free", kind |-> "none", obj |-> NoObj, mark |-> 0, chunk |-> {}]
Task == [stage : {"free", "due", "wait", "archive", "llm", "learn"},
         kind : {"none", "chat", "system", "consolidate", "learn"},
         obj : Objs \cup {NoObj}, mark : Nat, chunk : SUBSET Nat]
Turns == {"chat", "system"}

Counts(s) == [n |-> Len(s.msgs), cons |-> s.cons, learned |-> s.learned, meta |-> s.meta]

\* The cached object is used as long as the mtime is the one noted.
Fresh(p) == cache[p] # NoObj /\ seen[p] = IF file.there THEN "current" ELSE "none"

\* PackMemory.get_lock(key) is held.
Locked == \E t \in Tasks : tasks[t].stage \in {"archive", "learn"}

\* Objects somebody may still use; a cache entry whose mtime has passed will
\* be loaded again.
InUse == {tasks[t].obj : t \in Tasks} \cup {cache[p] : p \in {q \in Procs : seen[q] # "old"}}

\* Where p may put a new object: an identity nobody but p's cache holds.
HeldBesides(p) == {tasks[t].obj : t \in Tasks} \cup {cache[q] : q \in Procs \ {p}}
Spare(p) == IF Objs \subseteq HeldBesides(p) THEN {}
            ELSE {CHOOSE o \in Objs : o \notin HeldBesides(p)}

\* The others are garbage.
Keep(new) == objs' = [o \in Objs |-> IF o \in InUse' THEN new[o] ELSE Blank]

-----------------------------------------------------------------------------
(* PackManager.  A view is an object at hand, what it holds, and what the  *)
(* manager believes to be in the file.                                     *)

\* get_or_create
Opened(p) ==
    IF Fresh(p)
    THEN {[obj |-> cache[p], data |-> objs[cache[p]], counts |-> persisted[p]]}
    ELSE {[obj |-> o, data |-> file.data, counts |-> Counts(file.data)] : o \in Spare(p)}

\* The view a task has kept.
Mine(t) == [obj |-> tasks[t].obj, data |-> objs[tasks[t].obj],
            counts |-> persisted["gateway"]]

\* Faults: metadata is not compared; the slice starts one message early.
CanAppendBlind(data, counts) ==
    /\ file.there
    /\ Len(data.msgs) >= counts.n
    /\ data.cons = counts.cons /\ data.learned = counts.learned
CanAppend(data, counts) ==
    /\ file.there
    /\ Len(data.msgs) >= counts.n
    /\ data.cons = counts.cons /\ data.learned = counts.learned /\ data.meta = counts.meta
Added(data, counts) == SubSeq(data.msgs, counts.n + 1, Len(data.msgs))

\* The file after save(), and what p and the other process know of its mtime.
Write(p, v, data) ==
    LET append == CanAppend(data, v.counts)
        added == Added(data, v.counts)
    IN  /\ file' = [there |-> TRUE,
                    data |-> IF append THEN [file.data EXCEPT !.msgs = @ \o added] ELSE data]
        /\ persisted' = [persisted EXCEPT ![p] = Counts(data)]
        /\ seen' = [q \in Procs |-> IF q = p THEN "current"
                                    ELSE IF seen[q] = "current" /\ ~(append /\ added = <<>>)
                                         THEN "old" ELSE seen[q]]

\* Process p has v at hand and leaves it holding data: saved, only opened
\* (get_or_create), or not touched at all.
Put(p, v, data, how) ==
    CASE how = "save" ->
            /\ Write(p, v, data)
            /\ cache' = [cache EXCEPT ![p] = v.obj]
            /\ Keep([objs EXCEPT ![v.obj] = data])
      [] how = "open" ->
            /\ cache' = [cache EXCEPT ![p] = v.obj]
            /\ persisted' = [persisted EXCEPT ![p] = v.counts]
            /\ seen' = [seen EXCEPT ![p] = IF file.there THEN "current" ELSE "none"]
            /\ Keep([objs EXCEPT ![v.obj] = data])
            /\ UNCHANGED file
      [] how = "keep" ->
            /\ UNCHANGED <<file, cache, persisted, seen>>
            /\ Keep(objs)

\* invalidate: the persisted counters stay.
Invalidated(p) == cache' = [cache EXCEPT ![p] = NoObj]

-----------------------------------------------------------------------------

Init ==
    /\ file = [there |-> FALSE, data |-> Blank]
    /\ cache = [p \in Procs |-> NoObj]
    /\ persisted = [p \in Procs |-> Counts(Blank)]
    /\ seen = [p \in Procs |-> "none"]
    /\ objs = [o \in Objs |-> Blank]
    /\ tasks = [t \in Tasks |-> Free]
    /\ log = <<>>
    /\ named = Plain
    /\ archived = {}
    /\ stale = 0
    /\ issued = 0
    /\ events = 0

\* The next n messages are by these authors.
Fresh1(by) == <<[id |-> issued + 1, by |-> by]>>
Fresh2(by1, by2) == <<[id |-> issued + 1, by |-> by1], [id |-> issued + 2, by |-> by2]>>

Says(msgs) ==
    /\ issued + Len(msgs) <= MaxMessages
    /\ issued' = issued + Len(msgs)
    /\ log' = log \o msgs

Event == events < MaxEvents /\ events' = events + 1

Silent == UNCHANGED <<issued, log>>

\* The task holds an object that is not, or not any more, what the file holds.
Behind(t) == tasks[t].obj # cache["gateway"] \/ ~Fresh("gateway")

\* Counts a save that is behind, and bounds their number.
Stales(behind) ==
    /\ behind => stale < MaxStale
    /\ stale' = IF behind THEN stale + 1 ELSE stale

-----------------------------------------------------------------------------
(* Turns: _process_message.                                                *)

Become(t, task) == tasks' = [tasks EXCEPT ![t] = task]

At(stage, kind, v) == [Free EXCEPT !.stage = stage, !.kind = kind, !.obj = v.obj]

\* pick_consolidation_boundary: a user turn that is not the first message.
Boundaries(data) ==
    {b \in data.cons + 1 .. Len(data.msgs) - 1 : data.msgs[b + 1].by = "user"}

\* Fault: the mark is one past the chunk.
ArchivesPast(t, kind, v, data) ==
    \E b \in Boundaries(data) :
        Become(t, [At("archive", kind, v) EXCEPT
                    !.mark = b + 1, !.chunk = Ids(SubSeq(data.msgs, data.cons + 1, b))])

\* A chunk is on its way to consolidate_messages.
Archives(t, kind, v, data) ==
    \E b \in Boundaries(data) :
        Become(t, [At("archive", kind, v) EXCEPT
                    !.mark = b, !.chunk = Ids(SubSeq(data.msgs, data.cons + 1, b))])

\* What follows maybe_consolidate_by_tokens: a chat turn appends and saves
\* the user's entry, and stops there if no reply is wanted.  A system turn (a
\* chat request over the gateway's socket that names that channel) does not.
Resumes(t, kind, v, data, how) ==
    \/ /\ kind = "chat"
       /\ Says(Fresh1("user"))
       /\ Become(t, At("llm", kind, v)) \/ Become(t, Free)
       /\ Put("gateway", v, [data EXCEPT !.msgs = @ \o Fresh1("user")], "save")
    \/ /\ kind = "system"
       /\ Silent
       /\ Become(t, At("llm", kind, v))
       /\ Put("gateway", v, data, how)
    \/ /\ kind = "consolidate"
       /\ Silent
       /\ Become(t, Free)
       /\ Put("gateway", v, data, how)

\* get_or_create, the profile override, and the way to the first await.
TurnStart(t, kind) ==
    /\ tasks[t] = Free
    /\ \E v \in Opened("gateway"), m \in Metas :
        LET data == [v.data EXCEPT !.meta = m]
            how == IF m = v.data.meta THEN "open" ELSE "save"
        IN  /\ kind = "system" => m = v.data.meta
            /\ named' = IF m = v.data.meta THEN named ELSE m
            /\ \/ Resumes(t, kind, v, data, how) /\ (Locked => data.msgs = <<>>)
               \/ /\ ~Locked
                  /\ Archives(t, kind, v, data)
                  /\ Put("gateway", v, data, how)
                  /\ Silent
               \/ /\ Locked /\ data.msgs # <<>>
                  /\ Become(t, At("wait", kind, v))
                  /\ Put("gateway", v, data, how)
                  /\ Silent
    /\ UNCHANGED <<archived, stale, events>>

\* The lock is free, or not needed for an empty session.
Consolidate(t) ==
    LET task == tasks[t]
        v == Mine(t)
    IN  /\ task.stage \in {"due", "wait"} /\ task.kind # "learn"
        /\ \/ /\ Locked => v.data.msgs = <<>> /\ task.stage = "due"
              /\ Resumes(t, task.kind, v, v.data, "keep")
              /\ Stales(task.kind = "chat" /\ Behind(t))
           \/ /\ ~Locked
              /\ Archives(t, task.kind, v, v.data)
              /\ Put("gateway", v, v.data, "keep")
              /\ Silent /\ UNCHANGED stale
        /\ UNCHANGED <<named, archived, events>>

\* The chunk is in HISTORY.md: last_consolidated = end_idx, save, and either
\* another round or what comes next.
ConsolidateDone(t) ==
    LET task == tasks[t]
        v == Mine(t)
        data == [v.data EXCEPT !.cons = task.mark]
    IN  /\ task.stage = "archive"
        /\ archived' = archived \cup task.chunk
        /\ Stales(Behind(t))
        /\ \/ Resumes(t, task.kind, v, data, "save")
           \/ /\ Archives(t, task.kind, v, data)
              /\ Put("gateway", v, data, "save")
              /\ Silent
        /\ UNCHANGED <<named, events>>

ConsolidateFails(t) ==
    LET task == tasks[t]
    IN  /\ task.stage = "archive"
        /\ Resumes(t, task.kind, Mine(t), Mine(t).data, "keep")
        /\ Stales(task.kind = "chat" /\ Behind(t))
        /\ UNCHANGED <<named, archived, events>>

\* The agent loop returns: _save_turn, save, background consolidation, and
\* after a chat turn background learning.
TurnReply(t) ==
    LET task == tasks[t]
        v == Mine(t)
        new == IF task.kind = "chat" THEN Fresh1("agent") ELSE Fresh2("agent", "agent")
    IN  /\ task.stage = "llm"
        /\ Says(new)
        /\ IF task.kind = "chat"
           THEN \E u \in Tasks \ {t} :
                    /\ tasks[u] = Free
                    /\ tasks' = [tasks EXCEPT ![t] = At("due", "consolidate", v),
                                              ![u] = At("due", "learn", v)]
           ELSE Become(t, At("due", "consolidate", v))
        /\ Put("gateway", v, [v.data EXCEPT !.msgs = @ \o new], "save")
        /\ Stales(Behind(t))
        /\ UNCHANGED <<named, archived, events>>

\* The turn is cancelled by /stop or raises.
TurnAborted(t) ==
    /\ tasks[t].kind \in Turns
    /\ Become(t, Free)
    /\ Put("gateway", Mine(t), Mine(t).data, "keep")
    /\ Silent
    /\ UNCHANGED <<history, events>>

\* maybe_proactive_learn up to the lock: the chunk is what is there now.
LearnStart(t) ==
    LET task == tasks[t]
        data == objs[task.obj]
        enough == Len(data.msgs) >= data.learned + LearnInterval
    IN  /\ task.stage = "due" /\ task.kind = "learn"
        /\ Become(t, IF enough THEN [task EXCEPT !.stage = IF Locked THEN "wait" ELSE "learn",
                                                 !.mark = Len(data.msgs) - data.learned]
                     ELSE Free)
        /\ Put("gateway", Mine(t), data, "keep")
        /\ Silent
        /\ UNCHANGED <<history, events>>

LearnLocked(t) ==
    /\ tasks[t].stage = "wait" /\ tasks[t].kind = "learn"
    /\ ~Locked
    /\ Become(t, [tasks[t] EXCEPT !.stage = "learn"])
    /\ Put("gateway", Mine(t), Mine(t).data, "keep")
    /\ Silent
    /\ UNCHANGED <<history, events>>

\* proactive_consolidate has answered.
LearnDone(t) ==
    LET v == Mine(t)
    IN  /\ tasks[t].stage = "learn"
        /\ Become(t, Free)
        /\ \/ /\ Put("gateway", v, [v.data EXCEPT !.learned = @ + tasks[t].mark], "save")
              /\ Stales(Behind(t))
           \/ Put("gateway", v, v.data, "keep") /\ UNCHANGED stale
        /\ Silent
        /\ UNCHANGED <<named, archived, events>>

\* /new: clear(), save(), invalidate(), and the snapshot is archived.
Cleared(data) == [data EXCEPT !.msgs = <<>>, !.cons = 0]

New ==
    /\ Clears /\ Event
    /\ UNCHANGED <<tasks, named, stale, issued>>
    /\ \E v \in Opened("gateway") :
        /\ Write("gateway", v, Cleared(v.data))
        /\ Invalidated("gateway")
        /\ Keep([objs EXCEPT ![v.obj] = Cleared(v.data)])
        /\ archived' = archived \cup
                Ids(SubSeq(v.data.msgs, v.data.cons + 1, Len(v.data.msgs)))
    /\ log' = <<>>

-----------------------------------------------------------------------------
(* The WebUI.                                                              *)

\* Any handler that only reads the session.
Look ==
    /\ WebActs # {}
    /\ UNCHANGED <<tasks, history, issued, events>>
    /\ \E v \in Opened("webui") : Put("webui", v, v.data, "open")

\* deliver_background_notification
Notify ==
    /\ "notify" \in WebActs /\ Event
    /\ UNCHANGED <<tasks, named, archived, stale>>
    /\ Says(Fresh1("webui"))
    /\ \E v \in Opened("webui") :
        Put("webui", v, [v.data EXCEPT !.msgs = @ \o Fresh1("webui")], "save")

\* api_sessions_patch
Patch(m) ==
    /\ "patch" \in WebActs /\ Event
    /\ UNCHANGED <<tasks, log, archived, stale, issued>>
    /\ \E v \in Opened("webui") : Put("webui", v, [v.data EXCEPT !.meta = m], "save")
    /\ named' = m

\* The file is removed and the cache entry dropped.
Removed ==
    /\ file' = [there |-> FALSE, data |-> Blank]
    /\ seen' = [p \in Procs |-> IF seen[p] = "current" THEN "old" ELSE seen[p]]
    /\ Invalidated("webui")
    /\ log' = <<>>
    /\ named' = Plain

\* api_sessions_delete
Delete ==
    /\ "delete" \in WebActs /\ Event
    /\ file.there
    /\ UNCHANGED <<persisted, tasks, archived, stale, issued>>
    /\ Removed
    /\ Keep(objs)

\* api_sessions_archive: opens the session first, removes the file if any.
Archive ==
    /\ "delete" \in WebActs /\ Event
    /\ UNCHANGED <<tasks, stale, issued>>
    /\ \E v \in Opened("webui") :
        /\ persisted' = [persisted EXCEPT !["webui"] = v.counts]
        /\ archived' = archived \cup
                Ids(SubSeq(v.data.msgs, v.data.cons + 1, Len(v.data.msgs)))
    /\ Removed
    /\ Keep(objs)

-----------------------------------------------------------------------------

\* A process ends and is started again; the WebUI also drops its manager
\* when its configuration is saved.
Restart(p) ==
    /\ Event
    /\ Invalidated(p)
    /\ persisted' = [persisted EXCEPT ![p] = Counts(Blank)]
    /\ seen' = [seen EXCEPT ![p] = "none"]
    /\ tasks' = IF p = "gateway" THEN [t \in Tasks |-> Free] ELSE tasks
    /\ Keep(objs)
    /\ UNCHANGED <<file, history, issued>>

Web == Look \/ Notify \/ (\E m \in Metas : Patch(m)) \/ Delete \/ Archive

Step(t) ==
    \/ \E kind \in Turns : TurnStart(t, kind)
    \/ Consolidate(t) \/ ConsolidateDone(t) \/ ConsolidateFails(t)
    \/ TurnReply(t) \/ TurnAborted(t)
    \/ LearnStart(t) \/ LearnLocked(t) \/ LearnDone(t)

Next ==
    \/ \E t \in Tasks : Step(t)
    \/ New
    \/ Web
    \/ \E p \in Procs : Restart(p)

Spec == Init /\ [][Next]_vars

-----------------------------------------------------------------------------

TypeOK ==
    /\ file \in [there : BOOLEAN, data : Session]
    /\ cache \in [Procs -> Objs \cup {NoObj}]
    /\ persisted \in [Procs -> [n : Nat, cons : Nat, learned : Nat, meta : Metas]]
    /\ seen \in [Procs -> {"none", "current", "old"}]
    /\ objs \in [Objs -> Session]
    /\ tasks \in [Tasks -> Task]
    /\ log \in Seq(Message)
    /\ named \in Metas
    /\ archived \subseteq Nat
    /\ stale \in Nat
    /\ issued \in Nat /\ events \in Nat

\* As long as nobody saves an object that is behind the file, the file holds
\* the conversation: every message of every turn and notification, in order,
\* none twice, none of a cleared or deleted conversation, and the metadata
\* somebody set last.  So an append may trust counters that are kept per key
\* and the mtime tells each process when to load again.
InSync ==
    stale = 0 => file.data.msgs = log /\ file.data.meta = named

\* brain/manager.py:33, "Number of messages already consolidated into
\* HISTORY.md/MEMORY.md": the first last_consolidated messages, those that
\* get_history() leaves out, were handed to the long-term memory.
ConsolidatedIsArchived ==
    \A o \in Objs : Ids(objs[o].msgs) \ Ids(History(objs[o])) \subseteq archived

\* So it is as long as nobody saves an object that is behind the file, however
\* turns, consolidations, /new, restarts and the WebUI interleave.
SkippedIsArchived == stale = 0 => ConsolidatedIsArchived

\* webui/agent_manager.py:35, "Persist and deliver a background
\* notification": it stays in the file as long as the conversation does.
NotificationKept ==
    \A i \in DOMAIN log : log[i].by = "webui" => log[i].id \in Ids(file.data.msgs)

=============================================================================
