----------------------------- MODULE Automation -----------------------------
(***************************************************************************)
(* The scheduler of kageclaw/automation/service.py within one life of the  *)
(* gateway process: the job table, the one timer task, the tasks that run  *)
(* jobs, start() and stop().                                               *)
(*                                                                         *)
(* Everything runs on one asyncio event loop, so a handler is atomic up to *)
(* its next await.  An action is the code between two awaits, and a task   *)
(* that is suspended is a phase: the timer sleeps, saves the advanced      *)
(* table, then dispatches; a job's run executes, yields once (sleep(0))    *)
(* and re-arms the timer.  Whoever calls _rearm cancels the timer task     *)
(* wherever it is suspended.                                               *)
(*                                                                         *)
(* The process never reads automation.json back after it has loaded it, so *)
(* what the file holds is left to AutomationDurable, which extends this    *)
(* module with the file, its writers, the crash and the restart.           *)
(***************************************************************************)
EXTENDS Integers, FiniteSets

CONSTANTS
    Jobs,       \* ids: uuid4 prefixes, never used twice
    Preloaded,  \* the ids automation.json holds when the process starts
    Schedules,  \* the schedules a user may give, records [kind, t]
    CronTimes,  \* the instants the cron expression of the instance matches
    StartTime,  \* the clock when the process loads its table
    MaxTime,    \* bound: the clock stops here
    MaxCalls    \* bound: calls of the public API in one behaviour

Kinds == {"at", "every", "cron"}

ASSUME ScheduleAssumption == Schedules \subseteq [kind : Kinds, t : Nat]
ASSUME PreloadedAssumption == Preloaded \subseteq Jobs
ASSUME ClockAssumption ==
    /\ StartTime \in Nat \ {0}
    /\ MaxTime \in Nat
    /\ MaxCalls \in Nat
    /\ CronTimes \subseteq Nat \ {0}

VARIABLES
    now,    \* _now_ms()
    mode,   \* how far start() and stop() are; _running is Running
    jobs,   \* the job objects; those in self._jobs are "live"
    timer,  \* self._timer_task
    runs,   \* runs[j][src]: tasks inside _execute of j, by who created them
    tails,  \* tails[src]: tasks between _execute and their _rearm
    hist,   \* history of each job, read by properties only
    calls   \* API calls so far (bound only)

vars == <<now, mode, jobs, timer, runs, tails, hist, calls>>

-----------------------------------------------------------------------------

Sources == {"timer", "manual", "boot"}

\* A Job is AutomationJob with what scheduling reads: once is
\* delete_after_run, next is state.next_run_at_ms (0: none), ran says that
\* state.last_run_at_ms is not 0.  "gone" objects were deleted from
\* self._jobs but may still be executing.
Job == [life : {"unborn", "live", "gone"}, enabled : BOOLEAN, once : BOOLEAN,
        sched : Schedules, next : Nat, ran : BOOLEAN]

NoTimer == [phase |-> "none", wake |-> 0, due |-> {}, at |-> 0]
Timer == [phase : {"none", "sleeping", "saving", "saved"},
          wake : Nat, due : SUBSET Jobs, at : Nat]

Running == mode \in {"starting", "running", "cancelled"}

\* _compute_next_run(...) or 0: 0 when the schedule has no next instant.
NextRun(s, n) ==
    CASE s.kind = "at"    -> IF s.t > n THEN s.t ELSE 0
      [] s.kind = "every" -> IF s.t > 0 THEN n + s.t ELSE 0
      [] s.kind = "cron"  ->
            IF \E c \in CronTimes : c > n
            THEN CHOOSE c \in CronTimes :
                    c > n /\ \A d \in CronTimes : d > n => c <= d
            ELSE 0

\* The jobs _get_next_wake_ms looks at, and the due ones among them.
Armed(tbl) == {j \in Jobs : tbl[j].life = "live" /\ tbl[j].enabled /\ tbl[j].next # 0}
Due(tbl, n) == {j \in Armed(tbl) : n >= tbl[j].next}

\* A new timer task: sleeps until the earliest next run.
TimerFor(tbl) ==
    IF Armed(tbl) = {} THEN NoTimer
    ELSE [NoTimer EXCEPT
            !.phase = "sleeping",
            !.wake = CHOOSE w \in {tbl[j].next : j \in Armed(tbl)} :
                        \A j \in Armed(tbl) : w <= tbl[j].next]

\* _rearm() once the table is tbl: cancel the timer, start the next one.
Rearm(tbl) == timer' = IF Running THEN TimerFor(tbl) ELSE NoTimer

\* The one-shot jobs _fire_overdue_at_jobs picks.
Overdue(tbl, n) == {j \in Jobs :
    /\ tbl[j].life = "live" /\ tbl[j].enabled /\ ~tbl[j].ran
    /\ tbl[j].sched.kind = "at" /\ tbl[j].sched.t # 0 /\ tbl[j].sched.t <= n}

\* The job after it has run to its end: the finally clause of _execute.
AfterRun(job, force, n) ==
    LET done == [job EXCEPT !.ran = TRUE]
    IN  CASE job.once -> [done EXCEPT
                !.life = IF job.life = "live" THEN "gone" ELSE job.life]
          [] ~job.once /\ job.sched.kind = "at" ->
                [done EXCEPT !.enabled = FALSE, !.next = 0]
          [] ~job.once /\ job.sched.kind # "at" ->
                [done EXCEPT !.next = IF force THEN NextRun(job.sched, n) ELSE @]

\* Faults: a one-shot keeps its next run; an interval counts from the missed
\* instant instead of from now.
AdvancedKept(job, n) ==
    [job EXCEPT !.next = IF job.sched.kind = "at" THEN @ ELSE NextRun(job.sched, n)]
AdvancedDrift(job, n) ==
    [job EXCEPT !.next = IF job.sched.kind = "at" THEN 0 ELSE NextRun(job.sched, job.next)]

\* The job as _on_timer leaves it before it is dispatched.
Advanced(job, n) ==
    [job EXCEPT !.next = IF job.sched.kind = "at" THEN 0 ELSE NextRun(job.sched, n)]

-----------------------------------------------------------------------------

\* What _load may make of one record, given what former lives can leave.
LoadedNext(s) == CASE s.kind = "at"    -> {0, s.t}
                   [] s.kind = "every" -> 0 .. StartTime + s.t
                   [] s.kind = "cron"  -> {0} \cup CronTimes
Loaded == UNION {[life : {"live"}, enabled : BOOLEAN, once : BOOLEAN,
                  sched : {s}, next : LoadedNext(s), ran : BOOLEAN] : s \in Schedules}
Unborn == {[life |-> "unborn", enabled |-> TRUE, once |-> FALSE,
            sched |-> s, next |-> 0, ran |-> FALSE] : s \in Schedules}

NoHistory(job) == [credit |-> job.next # 0, lastFire |-> 0, half |-> FALSE]

Init ==
    /\ now = StartTime
    /\ mode = "loaded"
    /\ jobs \in [Jobs -> Loaded \cup Unborn]
    /\ \A j \in Jobs : jobs[j].life = "live" <=> j \in Preloaded
    /\ timer = NoTimer
    /\ runs = [j \in Jobs |-> [src \in Sources |-> 0]]
    /\ tails = [src \in Sources |-> 0]
    /\ hist = [j \in Jobs |-> NoHistory(jobs[j])]
    /\ calls = 0

Tick ==
    /\ now < MaxTime
    /\ now' = now + 1
    /\ UNCHANGED <<mode, jobs, timer, runs, tails, hist, calls>>

-----------------------------------------------------------------------------
(* The public API: synchronous handlers, each ends with save and _rearm.   *)

Call == calls < MaxCalls /\ calls' = calls + 1

\* The user gave j the record job, whose next run was computed just now.
Store(j, job) ==
    LET tbl == [jobs EXCEPT ![j] = job]
    IN  /\ jobs' = tbl
        /\ Rearm(tbl)
        /\ hist' = [hist EXCEPT ![j].credit = (job.life = "live" /\ job.next # 0),
                                ![j].half = FALSE]
        /\ UNCHANGED <<now, mode, runs, tails>>

Rescheduled(job) ==
    [job EXCEPT !.next = IF job.enabled THEN NextRun(job.sched, now) ELSE 0]

AddJob(j, s, once) ==
    /\ Call
    /\ jobs[j].life = "unborn"
    /\ Store(j, [life |-> "live", enabled |-> TRUE, once |-> once, sched |-> s,
                 next |-> NextRun(s, now), ran |-> FALSE])

RemoveJob(j) ==
    /\ Call
    /\ jobs[j].life = "live"
    /\ Store(j, [jobs[j] EXCEPT !.life = "gone"])

EnableJob(j, on) ==
    /\ Call
    /\ jobs[j].life = "live"
    /\ Store(j, Rescheduled([jobs[j] EXCEPT !.enabled = on]))

UpdateJob(j, on, once, s) ==
    /\ Call
    /\ jobs[j].life = "live"
    /\ Store(j, Rescheduled([jobs[j] EXCEPT !.enabled = on, !.once = once, !.sched = s]))

\* A patch whose schedule is refused: _validate_schedule raises after
\* enabled and delete_after_run are assigned, before anything else is.
UpdateRefused(j, on, once) ==
    /\ Call
    /\ jobs[j].life = "live"
    /\ jobs' = [jobs EXCEPT ![j] = [@ EXCEPT !.enabled = on, !.once = once]]
    /\ hist' = [hist EXCEPT ![j].half = TRUE]
    /\ UNCHANGED <<now, mode, timer, runs, tails>>

RunJob(j, force) ==
    /\ Call
    /\ jobs[j].life = "live"
    /\ force \/ jobs[j].enabled
    /\ runs' = [runs EXCEPT ![j]["manual"] = @ + 1]
    /\ UNCHANGED <<now, mode, jobs, timer, tails, hist>>

-----------------------------------------------------------------------------
(* The timer task and the tasks that run jobs.                             *)

\* _on_timer up to its await: the due jobs are advanced.
TimerFire ==
    /\ timer.phase = "sleeping"
    /\ timer.wake <= now
    /\ jobs' = [j \in Jobs |-> IF j \in Due(jobs, now) THEN Advanced(jobs[j], now)
                                                     ELSE jobs[j]]
    /\ timer' = [timer EXCEPT !.phase = "saving", !.due = Due(jobs, now), !.at = now]
    /\ UNCHANGED <<now, mode, runs, tails, hist, calls>>

\* The executor thread has written the table.
TimerSaved ==
    /\ timer.phase = "saving"
    /\ timer' = [timer EXCEPT !.phase = "saved"]
    /\ UNCHANGED <<now, mode, jobs, runs, tails, hist, calls>>

\* Fault: _on_timer dispatches and does not re-arm.
TimerDispatchLast ==
    /\ timer.phase = "saved"
    /\ timer' = NoTimer
    /\ runs' = [j \in Jobs |-> IF j \in timer.due
                               THEN [runs[j] EXCEPT !["timer"] = @ + 1]
                               ELSE runs[j]]
    /\ UNCHANGED <<now, mode, jobs, tails, hist, calls>>

\* _on_timer after its await.
TimerDispatch ==
    /\ timer.phase = "saved"
    /\ Rearm(jobs)
    /\ runs' = [j \in Jobs |-> IF j \in timer.due
                               THEN [runs[j] EXCEPT !["timer"] = @ + 1]
                               ELSE runs[j]]
    /\ hist' = [j \in Jobs |-> IF j \in timer.due
                               THEN [hist[j] EXCEPT !.credit = FALSE, !.lastFire = timer.at]
                               ELSE hist[j]]
    /\ UNCHANGED <<now, mode, jobs, tails, calls>>

\* A run of j ends, whatever became of its payload (sent, skipped, decided
\* against, failed): the finally clause of _execute, and _request_save.
RunFinish(j, src) ==
    /\ runs[j][src] > 0
    /\ jobs' = [jobs EXCEPT ![j] = AfterRun(jobs[j], src # "timer", now)]
    /\ runs' = [runs EXCEPT ![j][src] = @ - 1]
    /\ tails' = [tails EXCEPT ![src] = @ + 1]
    /\ UNCHANGED <<now, mode, timer, hist, calls>>

\* Fault: the tail of a run is taken off twice.
RunRearmTwice(src) ==
    /\ tails[src] > 0
    /\ tails' = [tails EXCEPT ![src] = @ - 2]
    /\ UNCHANGED <<now, mode, jobs, timer, runs, hist, calls>>

\* _run_job_bg after its sleep(0).
RunRearm(src) ==
    /\ tails[src] > 0
    /\ tails' = [tails EXCEPT ![src] = @ - 1]
    /\ IF Running THEN Rearm(jobs) ELSE UNCHANGED timer
    /\ UNCHANGED <<now, mode, jobs, runs, hist, calls>>

-----------------------------------------------------------------------------
(* start() and stop().                                                     *)

FastForwarded(job) ==
    IF /\ job.life = "live" /\ job.enabled /\ job.sched.kind # "at"
       /\ job.next # 0 /\ job.next < now
    THEN [job EXCEPT !.next = NextRun(job.sched, now)]
    ELSE job

\* Fault: start() fires the overdue jobs and forgets the timer.
StartUnarmed ==
    LET tbl == [j \in Jobs |-> FastForwarded(jobs[j])]
        overdue == Overdue(tbl, now)
    IN  /\ mode = "loaded"
        /\ jobs' = tbl
        /\ runs' = [j \in Jobs |-> IF j \in overdue
                                   THEN [runs[j] EXCEPT !["boot"] = @ + 1]
                                   ELSE runs[j]]
        /\ mode' = IF overdue = {} THEN "running" ELSE "starting"
        /\ UNCHANGED <<now, timer, tails, hist, calls>>

\* start() up to its await; with no overdue job it does not wait.
Start ==
    LET tbl == [j \in Jobs |-> FastForwarded(jobs[j])]
        overdue == Overdue(tbl, now)
    IN  /\ mode = "loaded"
        /\ jobs' = tbl
        /\ runs' = [j \in Jobs |-> IF j \in overdue
                                   THEN [runs[j] EXCEPT !["boot"] = @ + 1]
                                   ELSE runs[j]]
        /\ IF overdue = {}
           THEN mode' = "running" /\ timer' = TimerFor(tbl)
           ELSE mode' = "starting" /\ UNCHANGED timer
        /\ UNCHANGED <<now, tails, hist, calls>>

\* gather(*tasks) returns and start() arms the timer.
StartDone ==
    /\ mode = "starting"
    /\ tails["boot"] = 0
    /\ \A j \in Jobs : runs[j]["boot"] = 0
    /\ mode' = "running"
    /\ timer' = TimerFor(jobs)
    /\ UNCHANGED <<now, jobs, runs, tails, hist, calls>>

\* The gateway is interrupted while it awaits start(): the gather cancels
\* the overdue runs, whose finally clauses run.  stop() comes later.
StartCancelled ==
    /\ mode = "starting"
    /\ mode' = "cancelled"
    /\ jobs' = [j \in Jobs |-> IF runs[j]["boot"] > 0 THEN AfterRun(jobs[j], TRUE, now)
                                                      ELSE jobs[j]]
    /\ runs' = [j \in Jobs |-> [runs[j] EXCEPT !["boot"] = 0]]
    /\ tails' = [tails EXCEPT !["boot"] = 0]
    /\ UNCHANGED <<now, timer, hist, calls>>

\* stop(), in the finally clause of the gateway's run().
Stop ==
    /\ mode \in {"running", "cancelled"}
    /\ mode' = "stopped"
    /\ timer' = NoTimer
    /\ UNCHANGED <<now, jobs, runs, tails, hist, calls>>

-----------------------------------------------------------------------------

\* The handlers that save the table before they return.
Edit(j) ==
    \/ \E s \in Schedules, b \in BOOLEAN : AddJob(j, s, b)
    \/ RemoveJob(j)
    \/ \E b \in BOOLEAN : EnableJob(j, b)
    \/ \E on, b \in BOOLEAN, s \in Schedules : UpdateJob(j, on, b, s)

Api(j) ==
    \/ Edit(j)
    \/ \E on, b \in BOOLEAN : UpdateRefused(j, on, b)
    \/ \E force \in BOOLEAN : RunJob(j, force)

TimerTask == TimerFire \/ TimerSaved \/ TimerDispatch

Next ==
    \/ Tick
    \/ \E j \in Jobs : Api(j)
    \/ TimerTask
    \/ \E j \in Jobs, src \in Sources : RunFinish(j, src)
    \/ \E src \in Sources : RunRearm(src)
    \/ Start
    \/ StartDone
    \/ StartCancelled
    \/ Stop

Spec == Init /\ [][Next]_vars

-----------------------------------------------------------------------------

TypeOK ==
    /\ now \in Nat
    /\ mode \in {"loaded", "starting", "running", "cancelled", "stopped"}
    /\ jobs \in [Jobs -> Job]
    /\ timer \in Timer
    /\ runs \in [Jobs -> [Sources -> Nat]]
    /\ tails \in [Sources -> Nat]
    /\ hist \in [Jobs -> [credit : BOOLEAN, lastFire : Nat, half : BOOLEAN]]
    /\ calls \in Nat

Settled == \A src \in Sources : tails[src] = 0

\* The timer never sleeps past a job.  Once start() is over, and unless a
\* finished run is about to re-arm, every armed job has a timer that wakes
\* no later than its next run, or that is saving and re-arms afterwards.
\* Only a patch refused half way can arm a job without the timer.
TimerCovers ==
    (mode = "running" /\ Settled) =>
        \A j \in Armed(jobs) :
            \/ hist[j].half
            \/ timer.phase \in {"saving", "saved"}
            \/ timer.phase = "sleeping" /\ timer.wake <= jobs[j].next

\* What the timer is about to dispatch is still in the table and enabled:
\* remove_job and enable_job(False) win against a save in progress because
\* their _rearm cancels it.  A run that ends meanwhile has its own _rearm
\* ahead of it; a patch refused half way and a cancelled start have none.
DueJobsStand ==
    (Settled /\ mode # "cancelled") => \A j \in timer.due :
        hist[j].half \/ (jobs[j].life = "live" /\ jobs[j].enabled)

\* One arming, one timer fire: the timer never dispatches an "at" job a
\* second time unless the user armed it again since (the comment "Advance
\* next_run before dispatching so we don't double-fire" of _on_timer).
OneShotPerArming ==
    \A j \in timer.due : jobs[j].sched.kind = "at" => hist[j].credit

\* n is far enough from the fire at last for the schedule s.
Apart(s, last, n) == last # 0 =>
    /\ s.kind = "every" => n >= last + s.t
    /\ s.kind = "cron" => \E c \in CronTimes : last < c /\ c <= n

\* Recurring jobs keep their distance however late the timer wakes and
\* whatever is edited, forced or cancelled: two timer fires of an interval
\* job are at least its interval apart, and two fires of a cron job have an
\* instant of the expression between them.
FireSpacing ==
    \A j \in timer.due : Apart(jobs[j].sched, hist[j].lastFire, timer.at)

\* A due job is picked up: once the scheduler runs, the timer gets to it
\* (or it is disabled, removed or moved first) whatever re-arms in between.
DuePicked ==
    \A j \in Jobs :
        (mode = "running" /\ j \in Due(jobs, now) /\ ~hist[j].half)
            ~> (j \notin Due(jobs, now) \/ mode = "stopped")

\* skills/automation/SKILL.md:14, "runs once at a specific time": an enabled
\* one-shot whose time has come still waits for the timer, or the timer has
\* it in hand; it is not dropped between the two.
OneShotNotLost ==
    \A j \in Jobs :
        (/\ mode = "running" /\ hist[j].credit /\ ~hist[j].half
         /\ jobs[j].life = "live" /\ jobs[j].enabled
         /\ jobs[j].sched.kind = "at" /\ jobs[j].sched.t <= now)
            => jobs[j].next # 0 \/ j \in timer.due

=============================================================================
