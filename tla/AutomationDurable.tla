-------------------------- MODULE AutomationDurable --------------------------
(***************************************************************************)
(* The scheduler of module Automation with its file, automation.json: the  *)
(* writes of kageclaw/automation/service.py, and a process that is killed  *)
(* and started again.                                                      *)
(*                                                                         *)
(* A handler of the API writes the table on the event loop before it       *)
(* returns.  The timer, and the debounced flush that finished runs ask     *)
(* for, write it on a thread of the executor, one at a time under          *)
(* _save_lock.  A thread first copies the table and then, under _io_lock,  *)
(* writes the copy, so the loop and a thread whose task was cancelled (an  *)
(* orphan: it no longer holds _save_lock) may write between the two.       *)
(***************************************************************************)
EXTENDS Automation

CONSTANT MaxCrashes     \* bound: kills of the process in one behaviour

ASSUME CrashAssumption == MaxCrashes \in Nat

VARIABLES
    store,      \* the table in automation.json
    requested,  \* _save_requested
    save,       \* save[w]: how far the _save() of w is
    orphans,    \* executor threads whose task was cancelled
    overlapped, \* history: a copy taken before another write came after it
    crashes     \* kills so far (bound only)

fileVars == <<store, requested, save, orphans, overlapped>>
dvars == <<vars, fileVars, crashes>>

-----------------------------------------------------------------------------

\* The two tasks that call _save(): the timer, and the flush of _save_task.
Savers == {"timer", "flush"}

\* A save debounces (the flush only), waits for _save_lock, waits for its
\* executor thread to copy the table, and holds the copy until it is written.
\* copy has the table copied, if any.
Idle == [stage |-> "idle", copy |-> {}]
At(stage) == [stage |-> stage, copy |-> {}]
Copied(tbl) == [stage |-> "copied", copy |-> {tbl}]

InThread(w) == save[w].stage \in {"queued", "copied"}
CopyOut(except) ==
    \/ \E w \in Savers \ except : save[w].stage = "copied"
    \/ \E o \in orphans : o.stage = "copied"

\* The file receives tbl, unless a thread is about to write an older copy.
WriteFile(tbl, except) ==
    /\ store' = tbl
    /\ overlapped' = (overlapped \/ CopyOut(except))

\* Tasks ws are cancelled: their threads go on as orphans, except one that
\* the executor had not started yet, which may never run.
Abandon(ws) ==
    /\ save' = [w \in Savers |-> IF w \in ws THEN Idle ELSE save[w]]
    /\ \E kept \in SUBSET {w \in ws : save[w].stage = "queued"} :
          orphans' = orphans \cup {save[w] : w \in {v \in ws :
                            save[v].stage = "copied" \/ v \in kept}}

\* A re-arm cancels the timer's save, and only that one.
TimerSaveCancelled ==
    Abandon(IF timer.phase = "saving" /\ timer'.phase # "saving" THEN {"timer"} ELSE {})

-----------------------------------------------------------------------------

DInit ==
    /\ Init
    /\ store = jobs
    /\ requested = FALSE
    /\ save = [w \in Savers |-> Idle]
    /\ orphans = {}
    /\ overlapped = FALSE
    /\ crashes = 0

\* _save_unlocked in a handler of the API, before its _rearm.
EditSaved ==
    /\ \E j \in Jobs : Edit(j)
    /\ WriteFile(jobs', {})
    /\ TimerSaveCancelled
    /\ UNCHANGED <<requested, crashes>>

\* _on_timer reaches await _save().
TimerFires ==
    /\ TimerFire
    /\ save' = [save EXCEPT !["timer"] = At("waiting")]
    /\ UNCHANGED <<store, requested, orphans, overlapped, crashes>>

\* Fault: a flush that is under way swallows the request.
RunFinishesSwallowed ==
    /\ \E j \in Jobs, src \in Sources : RunFinish(j, src)
    /\ requested' = (save["flush"].stage = "idle")
    /\ save' = IF save["flush"].stage = "idle" THEN [save EXCEPT !["flush"] = At("debounce")] ELSE save
    /\ UNCHANGED <<store, orphans, overlapped, crashes>>

\* _execute ends and _request_save notes it, starting a flush if none is.
RunFinishes ==
    /\ \E j \in Jobs, src \in Sources : RunFinish(j, src)
    /\ requested' = TRUE
    /\ save' = IF save["flush"].stage = "idle" THEN [save EXCEPT !["flush"] = At("debounce")] ELSE save
    /\ UNCHANGED <<store, orphans, overlapped, crashes>>

RunRearms ==
    /\ \E src \in Sources : RunRearm(src)
    /\ TimerSaveCancelled
    /\ UNCHANGED <<store, requested, overlapped, crashes>>

\* start() does not save, but its _rearm may cancel a save of the timer that
\* a handler armed while start() was waiting.
Starts(A) ==
    /\ A
    /\ TimerSaveCancelled
    /\ UNCHANGED <<store, requested, overlapped, crashes>>

\* Steps of the scheduler that neither save nor cancel a save.
Unsaved ==
    /\ \/ Tick \/ StartCancelled \/ TimerDispatch
       \/ \E j \in Jobs, force \in BOOLEAN : RunJob(j, force)
       \/ \E j \in Jobs, on, b \in BOOLEAN : UpdateRefused(j, on, b)
    /\ UNCHANGED <<fileVars, crashes>>

\* stop() cancels both savers and writes what is still requested.
Stops ==
    /\ Stop
    /\ Abandon(Savers)
    /\ requested' = FALSE
    /\ IF requested THEN WriteFile(jobs', {}) ELSE UNCHANGED <<store, overlapped>>
    /\ UNCHANGED crashes

\* _flush_requested_save after its sleep(0).
FlushStart ==
    /\ save["flush"].stage = "debounce"
    /\ requested' = FALSE
    /\ save' = [save EXCEPT !["flush"] = At("waiting")]
    /\ UNCHANGED <<vars, store, orphans, overlapped, crashes>>

\* _save gets _save_lock and hands _save_unlocked to the executor.
SaveLocked(w) ==
    /\ save[w].stage = "waiting"
    /\ \A v \in Savers : ~InThread(v)
    /\ save' = [save EXCEPT ![w] = At("queued")]
    /\ UNCHANGED <<vars, store, requested, orphans, overlapped, crashes>>

\* The thread builds its copy of the table.
ThreadCopies(w) ==
    /\ save[w].stage = "queued"
    /\ save' = [save EXCEPT ![w] = Copied(jobs)]
    /\ UNCHANGED <<vars, store, requested, orphans, overlapped, crashes>>

\* The thread writes its copy and _on_timer goes on.
TimerThreadWrites ==
    /\ save["timer"].stage = "copied"
    /\ TimerSaved
    /\ \E tbl \in save["timer"].copy : WriteFile(tbl, {"timer"})
    /\ save' = [save EXCEPT !["timer"] = Idle]
    /\ UNCHANGED <<requested, orphans, crashes>>

\* Fault: the finally clause of the flush does not look for a new request.
FlushThreadWritesOnce ==
    /\ save["flush"].stage = "copied"
    /\ \E tbl \in save["flush"].copy : WriteFile(tbl, {"flush"})
    /\ save' = [save EXCEPT !["flush"] = Idle]
    /\ UNCHANGED <<vars, requested, orphans, crashes>>

\* The thread of the flush writes its copy; the finally clause of the flush
\* starts another one if a save was requested meanwhile.
FlushThreadWrites ==
    /\ save["flush"].stage = "copied"
    /\ \E tbl \in save["flush"].copy : WriteFile(tbl, {"flush"})
    /\ save' = [save EXCEPT !["flush"] = IF requested THEN At("debounce") ELSE Idle]
    /\ UNCHANGED <<vars, requested, orphans, crashes>>

OrphanSteps(o) ==
    \/ /\ o.stage = "queued"
       /\ orphans' = (orphans \ {o}) \cup {Copied(jobs)}
       /\ UNCHANGED <<vars, store, requested, save, overlapped, crashes>>
    \/ /\ o.stage = "copied"
       /\ orphans' = orphans \ {o}
       /\ store' \in o.copy
       /\ overlapped' = (overlapped \/ (\E w \in Savers : save[w].stage = "copied")
                            \/ \E q \in orphans \ {o} : q.stage = "copied")
       /\ UNCHANGED <<vars, requested, save, crashes>>

\* The process dies, or leaves, and a new one loads the file.
Crash ==
    /\ crashes < MaxCrashes
    /\ crashes' = crashes + 1
    /\ mode' = "loaded"
    /\ jobs' = store
    /\ timer' = NoTimer
    /\ runs' = [j \in Jobs |-> [src \in Sources |-> 0]]
    /\ tails' = [src \in Sources |-> 0]
    /\ hist' = [j \in Jobs |-> NoHistory(store[j])]
    /\ requested' = FALSE
    /\ save' = [w \in Savers |-> Idle]
    /\ orphans' = {}
    /\ overlapped' = FALSE
    /\ UNCHANGED <<now, calls, store>>

DNext ==
    \/ EditSaved \/ Unsaved \/ Starts(Start) \/ Starts(StartDone) \/ Stops
    \/ TimerFires \/ TimerThreadWrites
    \/ RunFinishes \/ RunRearms
    \/ FlushStart \/ FlushThreadWrites
    \/ \E w \in Savers : SaveLocked(w) \/ ThreadCopies(w)
    \/ \E o \in orphans : OrphanSteps(o)
    \/ Crash

DSpec == DInit /\ [][DNext]_dvars

\* The loop runs its ready tasks and the executor its threads; the clock goes
\* on.  A job's own run may take for ever.
Quiet(A) == A /\ UNCHANGED <<fileVars, crashes>>
DFairness ==
    /\ WF_dvars(Quiet(Tick)) /\ WF_dvars(Starts(StartDone))
    /\ WF_dvars(TimerFires) /\ WF_dvars(TimerThreadWrites) /\ WF_dvars(Quiet(TimerDispatch))
    /\ WF_dvars(RunRearms)
    /\ WF_dvars(FlushStart) /\ WF_dvars(FlushThreadWrites)
    /\ \A w \in Savers : SF_dvars(SaveLocked(w)) /\ WF_dvars(ThreadCopies(w))

DFairSpec == DSpec /\ DFairness

-----------------------------------------------------------------------------

Tables == [Jobs -> Job]
Threads == [stage : {"queued"}, copy : {{}}] \cup [stage : {"copied"}, copy : SUBSET Tables]
Saves == [stage : {"idle", "debounce", "waiting"}, copy : {{}}] \cup Threads

DTypeOK ==
    /\ TypeOK
    /\ store \in Tables
    /\ requested \in BOOLEAN
    /\ save \in [Savers -> Saves]
    /\ orphans \subseteq Threads
    /\ overlapped \in BOOLEAN
    /\ crashes \in Nat

\* A requested save has a flush that has not started its copy too early: the
\* debounce of _request_save coalesces requests and loses none, whatever the
\* flush was doing when the request came.
RequestHasFlush == requested => save["flush"].stage # "idle"

\* When no save is requested or under way, the file agrees with memory on
\* which jobs exist and which have run, provided no write of this life
\* overlapped an older copy; fast-forward and refused patches are not saved,
\* nor is anything once the gateway is interrupted.
IdleMeansSaved ==
    (/\ ~requested /\ ~overlapped /\ orphans = {} /\ mode \notin {"cancelled", "stopped"}
     /\ \A w \in Savers : save[w] = Idle) =>
        \A j \in Jobs : store[j].life = jobs[j].life /\ store[j].ran = jobs[j].ran

\* What a run leaves behind reaches the file although the timer and the
\* flush compete for the lock, unless the gateway is interrupted first or an
\* older copy of the table comes last.
RunIsRecorded ==
    \A j \in Jobs : jobs[j].ran ~>
        (store[j].ran \/ overlapped \/ mode \in {"cancelled", "stopped"})

\* automation/service.py:286, "so sync and async paths don't clobber each
\* other", and add_job's "Add (and persist) a new job.": while the process
\* runs, a job add_job has returned is in the file.
AddedIsPersisted ==
    \A j \in Jobs : jobs[j].life = "live" => store[j].life = "live"

=============================================================================
