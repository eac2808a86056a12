---------------------- MODULE AutomationDurableProofs ----------------------
(***************************************************************************)
(* Proofs about the scheduler, for any jobs, schedules and bounds.         *)
(* First module Automation: the table stays well formed, the timer never   *)
(* sleeps past an armed job, what it dispatches still stands, an arming is *)
(* good for one timer fire, and recurring jobs keep their distance.  Then  *)
(* module AutomationDurable: these invariants hold in every life of the    *)
(* process, whatever table the file held when the last one was killed, and *)
(* a requested save always has a flush to make it.                         *)
(***************************************************************************)
EXTENDS AutomationDurable, TLAPS, WellFoundedInduction

-----------------------------------------------------------------------------
(* The operators.                                                          *)

\* A nonempty set of naturals has a least element.
LEMMA NatMin ==
  ASSUME NEW T, T \subseteq Nat, T # {}
  PROVE  \E m \in T : \A k \in T : m <= k
<1> DEFINE R == {ss \in Nat \X Nat : ss[1] < ss[2]}
<1>1. R = OpToRel(<, Nat)
  BY Zenon DEF OpToRel
<1>2. IsWellFoundedOn(R, Nat)
  BY <1>1, NatLessThanWellFounded, Zenon
<1> HIDE DEF R
<1>3. PICK m \in T : \A k \in T : <<k, m>> \notin R
  BY <1>2, WFMin, Zenon
<1>4. ASSUME NEW k \in T PROVE m <= k
  <2>1. <<k, m>> \in Nat \X Nat /\ <<k, m>> \notin R
    BY <1>3
  <2>2. ~(<<k, m>>[1] < <<k, m>>[2])
    BY <2>1 DEF R
  <2> QED BY <2>2
<1> QED BY <1>4

\* The next run of a schedule is 0 or an instant after n: a period away for
\* an interval, the next matching instant for a cron expression.
LEMMA NextRunAfter ==
  ASSUME NEW s \in Schedules, NEW n \in Nat
  PROVE  /\ NextRun(s, n) \in Nat
         /\ s.kind = "every" /\ NextRun(s, n) # 0 => NextRun(s, n) = n + s.t
         /\ s.kind = "cron" /\ NextRun(s, n) # 0 =>
                NextRun(s, n) \in CronTimes /\ n < NextRun(s, n)
<1> s \in [kind : Kinds, t : Nat]
  BY ScheduleAssumption
<1>1. CASE s.kind = "at"
  BY <1>1 DEF NextRun
<1>2. CASE s.kind = "every"
  BY <1>2 DEF NextRun
<1>3. CASE s.kind = "cron"
  <2> DEFINE Later == {c \in CronTimes : c > n}
  <2>1. CASE Later = {}
    <3>1. NextRun(s, n) = 0
      BY <1>3, <2>1 DEF NextRun
    <3> QED BY <3>1, <1>3
  <2>2. CASE Later # {}
    <3>1. Later \subseteq Nat
      BY ClockAssumption
    <3>2. \E m \in Later : \A k \in Later : m <= k
      BY <2>2, <3>1, NatMin, Zenon
    <3>3. \E c \in CronTimes : c > n /\ \A d \in CronTimes : d > n => c <= d
      BY <3>2
    <3>4. NextRun(s, n) = CHOOSE c \in CronTimes :
                             c > n /\ \A d \in CronTimes : d > n => c <= d
      BY <1>3, <3>3 DEF NextRun
    <3>5. NextRun(s, n) \in CronTimes /\ NextRun(s, n) > n
      BY <3>3, <3>4, Zenon
    <3> QED BY <3>5, <1>3, ClockAssumption
  <2> QED BY <2>1, <2>2
<1> QED BY <1>1, <1>2, <1>3 DEF Kinds

\* A new timer is idle only when no job is armed, and never late.
LEMMA TimerForCovers ==
  ASSUME NEW tbl \in [Jobs -> Job]
  PROVE  /\ TimerFor(tbl) \in Timer
         /\ TimerFor(tbl).due = {} /\ TimerFor(tbl).at = 0
         /\ \A j \in Armed(tbl) : /\ TimerFor(tbl).phase = "sleeping"
                                  /\ TimerFor(tbl).wake <= tbl[j].next
<1>1. CASE Armed(tbl) = {}
  BY <1>1 DEF TimerFor, NoTimer, Timer
<1>2. CASE Armed(tbl) # {}
  <2> DEFINE W == {tbl[j].next : j \in Armed(tbl)}
             w == CHOOSE x \in W : \A j \in Armed(tbl) : x <= tbl[j].next
  <2>1. W \subseteq Nat /\ W # {}
    BY <1>2 DEF Armed, Job
  <2>2. \E x \in W : \A k \in W : x <= k
    BY <2>1, NatMin, Zenon
  <2>3. \E x \in W : \A j \in Armed(tbl) : x <= tbl[j].next
    BY <2>2
  <2>4. w \in W /\ \A j \in Armed(tbl) : w <= tbl[j].next
    BY <2>3, Zenon
  <2>5. TimerFor(tbl) = [phase |-> "sleeping", wake |-> w, due |-> {}, at |-> 0]
    BY <1>2 DEF TimerFor, NoTimer
  <2> HIDE DEF w, W
  <2> QED BY <2>1, <2>4, <2>5 DEF Timer
<1> QED BY <1>1, <1>2

\* What the steps make of one job record: it stays a job with its schedule;
\* the next run is kept, cleared or computed afresh; only a finished run
\* takes a job out of the table or disables it.
LEMMA JobSteps ==
  ASSUME NEW job \in Job, NEW n \in Nat, NEW force \in BOOLEAN
  PROVE  /\ AfterRun(job, force, n) \in Job
         /\ Advanced(job, n) \in Job
         /\ AfterRun(job, force, n).sched = job.sched
         /\ AfterRun(job, force, n).next \in {0, job.next, NextRun(job.sched, n)}
         /\ AfterRun(job, force, n).life = "live" => job.life = "live"
         /\ AfterRun(job, force, n).life = "live" /\ job.sched.kind = "at"
                => AfterRun(job, force, n).next = 0
         /\ Advanced(job, n).sched = job.sched
         /\ Advanced(job, n).life = job.life
         /\ Advanced(job, n).enabled = job.enabled
         /\ Advanced(job, n).next = IF job.sched.kind = "at" THEN 0 ELSE NextRun(job.sched, n)
<1>1. NextRun(job.sched, n) \in Nat
  BY NextRunAfter DEF Job
<1>2. /\ Advanced(job, n) \in Job
      /\ Advanced(job, n).sched = job.sched
      /\ Advanced(job, n).life = job.life
      /\ Advanced(job, n).enabled = job.enabled
      /\ Advanced(job, n).next = IF job.sched.kind = "at" THEN 0 ELSE NextRun(job.sched, n)
  BY <1>1 DEF Advanced, Job
<1> DEFINE after == AfterRun(job, force, n)
<1>3. CASE job.once
  <2>1. after = [job EXCEPT !.ran = TRUE,
                !.life = IF job.life = "live" THEN "gone" ELSE job.life]
    BY <1>3 DEF AfterRun, Job
  <2> HIDE DEF after
  <2>2. after \in Job /\ after.sched = job.sched /\ after.next = job.next
    BY <2>1 DEF Job
  <2>3. after.life # "live"
    BY <2>1 DEF Job
  <2> QED BY <1>2, <2>2, <2>3 DEF after
<1>4. CASE ~job.once /\ job.sched.kind = "at"
  <2>1. after = [job EXCEPT !.ran = TRUE, !.enabled = FALSE, !.next = 0]
    BY <1>4 DEF AfterRun
  <2> HIDE DEF after
  <2>2. after \in Job /\ after.sched = job.sched /\ after.next = 0 /\ after.life = job.life
    BY <2>1 DEF Job
  <2> QED BY <1>2, <2>2 DEF after
<1>5. CASE ~job.once /\ job.sched.kind # "at"
  <2>1. after = [job EXCEPT !.ran = TRUE,
                !.next = IF force THEN NextRun(job.sched, n) ELSE job.next]
    BY <1>5 DEF AfterRun, Job
  <2> HIDE DEF after
  <2>2. /\ after \in Job /\ after.sched = job.sched /\ after.life = job.life
        /\ after.next \in {job.next, NextRun(job.sched, n)}
    BY <1>1, <2>1 DEF Job
  <2> QED BY <1>2, <1>5, <2>2 DEF after
<1> QED BY <1>3, <1>4, <1>5

-----------------------------------------------------------------------------
(* Type correctness.                                                       *)

LEMMA InitType == Init => TypeOK
<1> SUFFICES ASSUME Init PROVE TypeOK
  OBVIOUS
<1>1. Loaded \cup Unborn \subseteq Job
  <2>1. \A s \in Schedules : LoadedNext(s) \subseteq Nat
    BY ScheduleAssumption, ClockAssumption DEF LoadedNext, Kinds
  <2>2. Loaded \subseteq Job
    BY <2>1 DEF Loaded, Job
  <2>3. Unborn \subseteq Job
    <3>1. \A s \in Schedules :
            [life |-> "unborn", enabled |-> TRUE, once |-> FALSE,
             sched |-> s, next |-> 0, ran |-> FALSE] \in Job
      BY DEF Job
    <3> QED BY <3>1 DEF Unborn
  <2> QED BY <2>2, <2>3
<1>2. jobs \in [Jobs -> Job]
  BY <1>1 DEF Init
<1>3. hist \in [Jobs -> [credit : BOOLEAN, lastFire : Nat, half : BOOLEAN]]
  BY <1>2 DEF Init, NoHistory
<1> QED BY <1>2, <1>3, ClockAssumption DEF Init, TypeOK, Timer, NoTimer, Sources

\* The handlers of the API that end in Store.
LEMMA StoreType ==
  ASSUME TypeOK, NEW j \in Jobs, NEW job \in Job, Store(j, job), Call
  PROVE  TypeOK'
<1> DEFINE tbl == [jobs EXCEPT ![j] = job]
<1>1. tbl \in [Jobs -> Job]
  BY DEF TypeOK
<1>2. timer' \in Timer
  BY <1>1, TimerForCovers DEF Store, Rearm, Timer, NoTimer
<1>3. jobs' \in [Jobs -> Job]
  BY <1>1 DEF Store
<1>4. hist' \in [Jobs -> [credit : BOOLEAN, lastFire : Nat, half : BOOLEAN]]
  <2>1. hist' = [hist EXCEPT ![j].credit = (job.life = "live" /\ job.next # 0),
                             ![j].half = FALSE]
    BY DEF Store
  <2>2. (job.life = "live" /\ job.next # 0) \in BOOLEAN
    OBVIOUS
  <2> QED BY ZenonT(60), <2>1, <2>2 DEF TypeOK
<1> QED BY <1>2, <1>3, <1>4 DEF TypeOK, Store, Call

\* Every edit of a job is such a handler, with a record that is a job.
LEMMA EditsAreStores ==
  ASSUME TypeOK, NEW j \in Jobs, Edit(j)
  PROVE  Call /\ \E job \in Job :
            /\ Store(j, job)
            /\ job.life = "live" /\ job.next # 0 => job.next = NextRun(job.sched, now)
<1> now \in Nat /\ jobs[j] \in Job
  BY DEF TypeOK
<1>1. CASE \E s \in Schedules, b \in BOOLEAN : AddJob(j, s, b)
  <2>1. PICK s \in Schedules, b \in BOOLEAN : AddJob(j, s, b)
    BY <1>1
  <2>2. NextRun(s, now) \in Nat
    BY NextRunAfter
  <2> DEFINE job == [life |-> "live", enabled |-> TRUE, once |-> b, sched |-> s,
                     next |-> NextRun(s, now), ran |-> FALSE]
  <2>3. job \in Job
    BY <2>2 DEF Job
  <2>4. Call /\ Store(j, job) /\ job.next = NextRun(job.sched, now)
    BY <2>1 DEF AddJob
  <2> QED BY <2>3, <2>4
<1>2. CASE RemoveJob(j)
  BY <1>2 DEF RemoveJob, Job
<1>3. CASE \E b \in BOOLEAN : EnableJob(j, b)
  <2>1. PICK b \in BOOLEAN : EnableJob(j, b)
    BY <1>3
  <2>2. NextRun(jobs[j].sched, now) \in Nat
    BY NextRunAfter DEF Job
  <2> DEFINE job == Rescheduled([jobs[j] EXCEPT !.enabled = b])
  <2>3. /\ job \in Job
        /\ job.next # 0 => job.next = NextRun(job.sched, now)
    BY <2>2 DEF Rescheduled, Job
  <2>4. Call /\ Store(j, job)
    BY <2>1 DEF EnableJob
  <2> HIDE DEF job
  <2> QED BY <2>3, <2>4
<1>4. CASE \E on, b \in BOOLEAN, s \in Schedules : UpdateJob(j, on, b, s)
  <2>1. PICK on \in BOOLEAN, b \in BOOLEAN, s \in Schedules : UpdateJob(j, on, b, s)
    BY <1>4
  <2>2. NextRun(s, now) \in Nat
    BY NextRunAfter
  <2> DEFINE job == Rescheduled([jobs[j] EXCEPT !.enabled = on, !.once = b, !.sched = s])
  <2>3. /\ job \in Job
        /\ job.next # 0 => job.next = NextRun(job.sched, now)
    BY <2>2 DEF Rescheduled, Job
  <2>4. Call /\ Store(j, job)
    BY <2>1 DEF UpdateJob
  <2> HIDE DEF job
  <2> QED BY <2>3, <2>4
<1> QED BY <1>1, <1>2, <1>3, <1>4 DEF Edit

LEMMA NextType == TypeOK /\ [Next]_vars => TypeOK'
<1> SUFFICES ASSUME TypeOK, [Next]_vars PROVE TypeOK'
  OBVIOUS
<1> USE DEF TypeOK
<1>1. CASE Tick
  BY <1>1 DEF Tick
<1>2. ASSUME NEW j \in Jobs, Api(j) PROVE TypeOK'
  <2>1. CASE \E on, b \in BOOLEAN : UpdateRefused(j, on, b)
    <3>1. PICK on \in BOOLEAN, b \in BOOLEAN : UpdateRefused(j, on, b)
      BY <2>1
    <3> DEFINE new == [jobs[j] EXCEPT !.enabled = on, !.once = b]
    <3>2. new \in Job
      <4>1. on \in BOOLEAN /\ b \in BOOLEAN /\ jobs[j] \in Job
        OBVIOUS
      <4> QED BY <4>1, Zenon DEF Job
    <3>3. jobs' = [jobs EXCEPT ![j] = new]
      BY <3>1 DEF UpdateRefused
    <3> HIDE DEF new
    <3>4. jobs' \in [Jobs -> Job]
      BY <3>2, <3>3
    <3>5. hist' \in [Jobs -> [credit : BOOLEAN, lastFire : Nat, half : BOOLEAN]]
      BY <3>1 DEF UpdateRefused
    <3> QED BY <3>1, <3>4, <3>5 DEF UpdateRefused, Call
  <2>2. CASE \E force \in BOOLEAN : RunJob(j, force)
    BY <2>2 DEF RunJob, Call, Sources
  <2> QED BY <1>2, <2>1, <2>2, EditsAreStores, StoreType DEF Api
<1>3. CASE TimerFire
  <2>1. jobs' \in [Jobs -> Job]
    BY <1>3, JobSteps DEF TimerFire
  <2> QED BY <1>3, <2>1 DEF TimerFire, Timer, Due, Armed
<1>4. CASE TimerSaved
  BY <1>4 DEF TimerSaved, Timer
<1>5. CASE TimerDispatch
  <2>1. timer' \in Timer
    BY <1>5, TimerForCovers DEF TimerDispatch, Rearm, Timer, NoTimer
  <2>2. hist' \in [Jobs -> [credit : BOOLEAN, lastFire : Nat, half : BOOLEAN]]
    BY <1>5 DEF TimerDispatch, Timer
  <2>3. runs' \in [Jobs -> [Sources -> Nat]]
    <3>1. \A j \in Jobs : [runs[j] EXCEPT !["timer"] = @ + 1] \in [Sources -> Nat]
      BY DEF Sources
    <3> QED BY <1>5, <3>1 DEF TimerDispatch
  <2> QED BY <1>5, <2>1, <2>2, <2>3 DEF TimerDispatch
<1>6. ASSUME NEW j \in Jobs, NEW src \in Sources, RunFinish(j, src) PROVE TypeOK'
  <2>1. jobs' \in [Jobs -> Job]
    BY <1>6, JobSteps DEF RunFinish
  <2> QED BY <1>6, <2>1 DEF RunFinish
<1>7. ASSUME NEW src \in Sources, RunRearm(src) PROVE TypeOK'
  <2>1. timer' \in Timer
    BY <1>7, TimerForCovers DEF RunRearm, Rearm, Timer, NoTimer
  <2> QED BY <1>7, <2>1 DEF RunRearm
<1>8. CASE Start
  <2>1. [j \in Jobs |-> FastForwarded(jobs[j])] \in [Jobs -> Job]
    BY SMTT(30), NextRunAfter DEF FastForwarded, Job
  <2>2. jobs' \in [Jobs -> Job] /\ timer' \in Timer
    BY <1>8, <2>1, TimerForCovers DEF Start
  <2> QED BY <1>8, <2>2 DEF Start, Sources
<1>9. CASE StartDone
  BY <1>9, TimerForCovers DEF StartDone
<1>10. CASE StartCancelled
  <2>1. jobs' \in [Jobs -> Job]
    BY <1>10, JobSteps DEF StartCancelled
  <2> QED BY <1>10, <2>1 DEF StartCancelled, Sources
<1>11. CASE Stop
  BY <1>11 DEF Stop, Timer, NoTimer
<1>12. CASE UNCHANGED vars
  BY <1>12 DEF vars
<1> QED
  BY <1>1, <1>2, <1>3, <1>4, <1>5, <1>6, <1>7, <1>8, <1>9, <1>10, <1>11, <1>12
  DEF Next, TimerTask

\* The variables keep their types in every reachable state.
THEOREM TypeCorrect == Spec => []TypeOK
BY InitType, NextType, PTL DEF Spec

-----------------------------------------------------------------------------
(* The inductive invariant.  TimerCovers and DueJobsStand rest on the shape*)
(* of the timer; OneShotPerArming on every armed one-shot having its credit*)
(* and none that is being dispatched being armed; FireSpacing on every next*)
(* run keeping its distance, both from the last fire and from the one that *)
(* is being dispatched.                                                    *)

TimerShape ==
  /\ timer.due # {} => timer.phase \in {"saving", "saved"}
  /\ ~Running => timer = NoTimer
  /\ timer.at <= now

Credits == \A j \in Jobs :
  (jobs[j].life = "live" /\ jobs[j].sched.kind = "at" /\ jobs[j].next # 0)
     => hist[j].credit /\ j \notin timer.due

Distances == \A j \in Jobs :
  /\ hist[j].lastFire <= now
  /\ (jobs[j].life = "live" /\ jobs[j].next # 0) =>
        /\ Apart(jobs[j].sched, hist[j].lastFire, jobs[j].next)
        /\ j \in timer.due => Apart(jobs[j].sched, timer.at, jobs[j].next)

Inductive ==
  /\ TypeOK
  /\ TimerShape /\ TimerCovers /\ DueJobsStand
  /\ Credits /\ OneShotPerArming
  /\ Distances /\ FireSpacing

LEMMA NextRunApart ==
  ASSUME NEW s \in Schedules, NEW n \in Nat, NEW last \in Nat, last <= n,
         NextRun(s, n) # 0
  PROVE  Apart(s, last, NextRun(s, n))
<1> s.t \in Nat
  BY ScheduleAssumption
<1>1. s.kind = "every" => NextRun(s, n) >= last + s.t
  BY NextRunAfter
<1>2. s.kind = "cron" => \E c \in CronTimes : last < c /\ c <= NextRun(s, n)
  BY NextRunAfter
<1> QED BY <1>1, <1>2 DEF Apart

\* A patch stored in the table cancels the timer and computes next afresh.
LEMMA StoreInductive ==
  ASSUME Inductive, TypeOK', NEW j \in Jobs, NEW job \in Job, Store(j, job),
         job.life = "live" /\ job.next # 0 => job.next = NextRun(job.sched, now)
  PROVE  Inductive'
<1> USE DEF Inductive
<1> DEFINE tbl == [jobs EXCEPT ![j] = job]
<1>1. tbl \in [Jobs -> Job] /\ jobs' = tbl /\ now' = now /\ mode' = mode /\ tails' = tails
  BY DEF TypeOK, Store
<1>2. timer' = IF Running THEN TimerFor(jobs') ELSE NoTimer
  BY <1>1 DEF Store, Rearm
<1>3. timer'.due = {}
  BY <1>1, <1>2, TimerForCovers DEF NoTimer
<1>4. timer'.at = 0
  BY <1>2 DEF NoTimer, TimerFor
<1>5. TimerShape'
  <2>1. Running' <=> Running
    BY <1>1 DEF Running
  <2>2. now \in Nat
    BY DEF TypeOK
  <2>3. ~Running' => timer' = NoTimer'
    BY <1>2, <2>1 DEF NoTimer
  <2> QED BY <1>1, <1>3, <1>4, <2>2, <2>3 DEF TimerShape
<1>6. TimerCovers'
  BY <1>1, <1>2, TimerForCovers DEF TimerCovers, Running
<1>7. hist' = [hist EXCEPT ![j].credit = (job.life = "live" /\ job.next # 0),
                          ![j].half = FALSE]
  BY DEF Store
<1>8. \A k \in Jobs : hist'[k].lastFire = hist[k].lastFire
  BY <1>7 DEF TypeOK
<1>9. Credits'
  <2> SUFFICES ASSUME NEW k \in Jobs, jobs'[k].life = "live",
                      jobs'[k].sched.kind = "at", jobs'[k].next # 0
               PROVE  hist'[k].credit
    BY <1>3 DEF Credits
  <2>1. CASE k = j
    BY <1>1, <1>7, <2>1 DEF TypeOK
  <2>2. CASE k # j
    BY <1>1, <1>7, <2>2 DEF TypeOK, Credits
  <2> QED BY <2>1, <2>2
<1>10. Distances'
  <2> SUFFICES ASSUME NEW k \in Jobs
               PROVE  /\ hist'[k].lastFire <= now
                      /\ jobs'[k].life = "live" /\ jobs'[k].next # 0 =>
                           Apart(jobs'[k].sched, hist'[k].lastFire, jobs'[k].next)
    BY <1>1, <1>3 DEF Distances
  <2>1. hist[k].lastFire \in Nat /\ hist[k].lastFire <= now /\ now \in Nat
    BY DEF Distances, TypeOK
  <2>2. CASE k = j
    BY <1>1, <1>8, <2>1, <2>2, NextRunApart DEF Job
  <2>3. CASE k # j
    BY <1>1, <1>8, <2>1, <2>3 DEF Distances, TypeOK
  <2> QED BY <2>2, <2>3
<1> QED
  BY <1>3, <1>5, <1>6, <1>9, <1>10 DEF DueJobsStand, OneShotPerArming, FireSpacing

\* _on_timer advances the due jobs: each keeps its distance from the fire
\* that is being dispatched, and a one-shot is no longer armed.
LEMMA TimerFireInductive ==
  ASSUME Inductive, TypeOK', TimerFire
  PROVE  Inductive'
<1> USE DEF Inductive
<1> DEFINE due == Due(jobs, now)
<1>1. /\ now' = now /\ mode' = mode /\ tails' = tails /\ hist' = hist
      /\ timer.phase = "sleeping"
      /\ timer' = [timer EXCEPT !.phase = "saving", !.due = due, !.at = now]
      /\ jobs' = [j \in Jobs |-> IF j \in due THEN Advanced(jobs[j], now) ELSE jobs[j]]
  BY DEF TimerFire
<1>2. timer'.phase = "saving" /\ timer'.due = due /\ timer'.at = now
  BY <1>1 DEF TypeOK, Timer
<1>3. /\ now \in Nat /\ jobs \in [Jobs -> Job]
      /\ due \subseteq Jobs
      /\ \A j \in due : /\ jobs[j].life = "live" /\ jobs[j].enabled
                        /\ jobs[j].next # 0 /\ jobs[j].next <= now
  BY DEF TypeOK, Due, Armed, Job
<1> HIDE DEF due
<1>4. Running
  BY <1>1 DEF TimerShape, NoTimer
<1>5. TimerShape'
  <2>1. Running'
    BY <1>1, <1>4 DEF Running
  <2> QED BY <1>1, <1>2, <1>3, <2>1 DEF TimerShape
<1>6. TimerCovers'
  BY <1>2 DEF TimerCovers
<1>7. \A j \in Jobs : /\ jobs'[j].sched = jobs[j].sched
                      /\ jobs'[j].life = jobs[j].life
                      /\ jobs'[j].enabled = jobs[j].enabled
  BY <1>1, <1>3, JobSteps
<1>13. \A j \in due :
         jobs'[j].next = IF jobs[j].sched.kind = "at" THEN 0 ELSE NextRun(jobs[j].sched, now)
  <2> SUFFICES ASSUME NEW j \in due
               PROVE  jobs'[j].next = IF jobs[j].sched.kind = "at" THEN 0
                                      ELSE NextRun(jobs[j].sched, now)
    OBVIOUS
  <2>1. jobs'[j] = Advanced(jobs[j], now) /\ jobs[j] \in Job
    BY <1>1, <1>3
  <2> QED BY <2>1 DEF Advanced, Job
<1>8. DueJobsStand'
  BY <1>2, <1>3, <1>7 DEF DueJobsStand
<1>9. Credits'
  <2> SUFFICES ASSUME NEW j \in Jobs, jobs'[j].life = "live",
                      jobs'[j].sched.kind = "at", jobs'[j].next # 0
               PROVE  hist[j].credit /\ j \notin due
    BY <1>1, <1>2 DEF Credits
  <2>1. j \notin due
    BY <1>7, <1>13
  <2> QED BY <1>1, <2>1 DEF Credits
<1>10. OneShotPerArming'
  BY <1>1, <1>2, <1>3, <1>7 DEF OneShotPerArming, Credits
<1>11. Distances'
  <2> SUFFICES ASSUME NEW j \in Jobs
               PROVE  /\ hist[j].lastFire <= now
                      /\ jobs'[j].life = "live" /\ jobs'[j].next # 0 =>
                            /\ Apart(jobs[j].sched, hist[j].lastFire, jobs'[j].next)
                            /\ j \in due => Apart(jobs[j].sched, now, jobs'[j].next)
    BY <1>1, <1>2, <1>7 DEF Distances
  <2>1. hist[j].lastFire \in Nat /\ hist[j].lastFire <= now
    BY DEF Distances, TypeOK
  <2>2. CASE j \in due
    <3>1. jobs[j].sched \in Schedules
      BY <1>3 DEF Job
    <3>2. jobs'[j].next \in {0, NextRun(jobs[j].sched, now)}
      BY <1>13, <2>2
    <3> QED BY <1>3, <2>1, <3>1, <3>2, NextRunApart
  <2>3. CASE j \notin due
    BY <1>1, <2>1, <2>3 DEF Distances
  <2> QED BY <2>2, <2>3
<1>12. FireSpacing'
  <2> SUFFICES ASSUME NEW j \in due
               PROVE  Apart(jobs[j].sched, hist[j].lastFire, now)
    BY <1>1, <1>2, <1>3, <1>7 DEF FireSpacing
  <2>1. Apart(jobs[j].sched, hist[j].lastFire, jobs[j].next)
    BY <1>3 DEF Distances
  <2>2. /\ jobs[j].next \in Nat /\ jobs[j].next <= now
        /\ hist[j].lastFire \in Nat /\ jobs[j].sched.t \in Nat
    BY <1>3, ScheduleAssumption DEF Job, TypeOK
  <2> QED BY <1>3, <2>1, <2>2, ClockAssumption DEF Apart
<1> QED BY <1>5, <1>6, <1>8, <1>9, <1>10, <1>11, <1>12

\* _on_timer dispatches what it advanced and re-arms.
LEMMA TimerDispatchInductive ==
  ASSUME Inductive, TypeOK', TimerDispatch
  PROVE  Inductive'
<1> USE DEF Inductive
<1>1. /\ now' = now /\ mode' = mode /\ tails' = tails /\ jobs' = jobs
      /\ timer' = IF Running THEN TimerFor(jobs) ELSE NoTimer
      /\ hist' = [j \in Jobs |-> IF j \in timer.due
                   THEN [hist[j] EXCEPT !.credit = FALSE, !.lastFire = timer.at]
                   ELSE hist[j]]
  BY DEF TimerDispatch, Rearm
<1>2. /\ jobs \in [Jobs -> Job] /\ now \in Nat
      /\ timer.at \in Nat /\ timer.at <= now
  BY DEF TypeOK, TimerShape, Timer
<1>3. timer'.due = {} /\ timer'.at = 0
  BY <1>1, <1>2, TimerForCovers DEF NoTimer
<1>4. TimerShape'
  <2>1. Running' <=> Running
    BY <1>1 DEF Running
  <2>2. ~Running' => timer' = NoTimer'
    BY <1>1, <2>1 DEF NoTimer
  <2>3. now' = now
    BY <1>1
  <2> QED BY <1>2, <1>3, <2>2, <2>3 DEF TimerShape
<1>5. TimerCovers'
  BY <1>1, <1>2, TimerForCovers DEF TimerCovers, Running
<1>6. Credits'
  BY <1>1, <1>3 DEF Credits
<1>7. Distances'
  <2> SUFFICES ASSUME NEW j \in Jobs
               PROVE  /\ hist'[j].lastFire <= now
                      /\ jobs[j].life = "live" /\ jobs[j].next # 0 =>
                            Apart(jobs[j].sched, hist'[j].lastFire, jobs[j].next)
    BY <1>1, <1>3 DEF Distances
  <2>1. CASE j \in timer.due
    <3>1. hist'[j].lastFire = timer.at
      BY <1>1, <2>1 DEF TypeOK
    <3> QED BY <1>2, <2>1, <3>1 DEF Distances
  <2>2. CASE j \notin timer.due
    BY <1>1, <2>2 DEF Distances
  <2> QED BY <2>1, <2>2
<1> QED BY <1>3, <1>4, <1>5, <1>6, <1>7 DEF DueJobsStand, OneShotPerArming, FireSpacing

\* A run that ends clears or recomputes the job's next run, and leaves a
\* tail that will re-arm the timer.
LEMMA RunFinishInductive ==
  ASSUME Inductive, TypeOK', NEW j \in Jobs, NEW src \in Sources, RunFinish(j, src)
  PROVE  Inductive'
<1> USE DEF Inductive
<1> DEFINE after == AfterRun(jobs[j], src # "timer", now)
<1>1. /\ now' = now /\ mode' = mode /\ timer' = timer /\ hist' = hist
      /\ jobs' = [jobs EXCEPT ![j] = after]
      /\ tails' = [tails EXCEPT ![src] = @ + 1]
  BY DEF RunFinish
<1>2. /\ now \in Nat /\ jobs \in [Jobs -> Job] /\ jobs[j] \in Job
      /\ tails \in [Sources -> Nat]
  BY DEF TypeOK
<1>3. /\ after.sched = jobs[j].sched
      /\ after.next \in {0, jobs[j].next, NextRun(jobs[j].sched, now)}
      /\ after.life = "live" => jobs[j].life = "live"
      /\ after.life = "live" /\ jobs[j].sched.kind = "at" => after.next = 0
  BY <1>2, JobSteps
<1> HIDE DEF after
<1>4. ~Settled'
  BY <1>1, <1>2 DEF Settled
<1>5. TimerShape'
  BY <1>1 DEF TimerShape, Running
<1>6. TimerCovers' /\ DueJobsStand'
  BY <1>4 DEF TimerCovers, DueJobsStand
<1>7. Credits'
  BY <1>1, <1>2, <1>3 DEF Credits
<1>8. \A k \in Jobs : jobs'[k].sched = jobs[k].sched
  BY <1>1, <1>2, <1>3
<1>9. OneShotPerArming' /\ FireSpacing'
  BY <1>1, <1>8 DEF OneShotPerArming, FireSpacing, TypeOK, Timer
<1>10. Distances'
  <2> SUFFICES ASSUME NEW k \in Jobs
               PROVE  /\ hist[k].lastFire <= now
                      /\ jobs'[k].life = "live" /\ jobs'[k].next # 0 =>
                           /\ Apart(jobs[k].sched, hist[k].lastFire, jobs'[k].next)
                           /\ k \in timer.due => Apart(jobs[k].sched, timer.at, jobs'[k].next)
    BY <1>1, <1>8 DEF Distances
  <2>1. /\ hist[k].lastFire \in Nat /\ hist[k].lastFire <= now
        /\ timer.at \in Nat /\ timer.at <= now
    BY DEF Distances, TypeOK, TimerShape, Timer
  <2>2. jobs[k].sched \in Schedules
    BY <1>2 DEF Job
  <2>3. jobs'[k].next \in {0, jobs[k].next, NextRun(jobs[k].sched, now)}
    BY <1>1, <1>2, <1>3
  <2>4. jobs'[k].life = "live" => jobs[k].life = "live"
    BY <1>1, <1>2, <1>3
  <2>5. CASE jobs'[k].next = jobs[k].next
    BY <2>1, <2>4, <2>5 DEF Distances
  <2>6. CASE jobs'[k].next = NextRun(jobs[k].sched, now)
    BY <1>2, <2>1, <2>2, <2>6, NextRunApart
  <2> QED BY <2>1, <2>3, <2>5, <2>6
<1> QED BY <1>5, <1>6, <1>7, <1>9, <1>10

\* The tail of a run re-arms: a save in progress is cancelled, its due jobs
\* with it.
LEMMA RunRearmInductive ==
  ASSUME Inductive, TypeOK', NEW src \in Sources, RunRearm(src)
  PROVE  Inductive'
<1> USE DEF Inductive
<1>1. now' = now /\ mode' = mode /\ jobs' = jobs /\ hist' = hist
  BY DEF RunRearm
<1>2. jobs \in [Jobs -> Job] /\ now \in Nat
  BY DEF TypeOK
<1>3. timer' = IF Running THEN TimerFor(jobs) ELSE NoTimer
  BY DEF RunRearm, Rearm, TimerShape
<1>4. timer'.due = {} /\ timer'.at = 0
  BY <1>2, <1>3, TimerForCovers DEF NoTimer
<1>5. TimerShape'
  <2>1. ~Running' => timer' = NoTimer'
    BY <1>1, <1>3 DEF NoTimer, Running
  <2> QED BY <1>1, <1>2, <1>4, <2>1 DEF TimerShape
<1>6. TimerCovers'
  BY <1>1, <1>2, <1>3, TimerForCovers DEF TimerCovers, Running
<1>7. Credits' /\ Distances'
  BY <1>1, <1>4 DEF Credits, Distances
<1> QED BY <1>4, <1>5, <1>6, <1>7 DEF DueJobsStand, OneShotPerArming, FireSpacing

\* start() fast-forwards recurring jobs and arms the timer, unless it waits.
LEMMA StartInductive ==
  ASSUME Inductive, TypeOK', Start
  PROVE  Inductive'
<1> USE DEF Inductive
<1> DEFINE tbl == [j \in Jobs |-> FastForwarded(jobs[j])]
<1>1. /\ now' = now /\ hist' = hist /\ jobs' = tbl /\ mode = "loaded"
      /\ \/ mode' = "running" /\ timer' = TimerFor(tbl)
         \/ mode' = "starting" /\ timer' = timer
  BY DEF Start
<1>2. /\ jobs \in [Jobs -> Job] /\ now \in Nat /\ tbl \in [Jobs -> Job]
  BY <1>1 DEF TypeOK
<1>3. timer = NoTimer
  BY <1>1 DEF TimerShape, Running
<1>4. timer'.due = {} /\ timer'.at = 0
  BY <1>1, <1>2, <1>3, TimerForCovers DEF NoTimer
<1>5. \A j \in Jobs :
        /\ tbl[j].sched = jobs[j].sched /\ tbl[j].life = jobs[j].life
        /\ \/ tbl[j].next = jobs[j].next
           \/ jobs[j].sched.kind # "at" /\ tbl[j].next = NextRun(jobs[j].sched, now)
  BY <1>2 DEF FastForwarded, Job
<1> HIDE DEF tbl
<1>6. TimerShape'
  <2>1. Running'
    BY <1>1 DEF Running
  <2> QED BY <1>1, <1>2, <1>4, <2>1 DEF TimerShape
<1>7. TimerCovers'
  BY <1>1, <1>2, TimerForCovers DEF TimerCovers
<1>8. Credits'
  BY <1>1, <1>4, <1>5 DEF Credits
<1>9. Distances'
  <2> SUFFICES ASSUME NEW j \in Jobs
               PROVE  /\ hist[j].lastFire <= now
                      /\ tbl[j].life = "live" /\ tbl[j].next # 0 =>
                            Apart(tbl[j].sched, hist[j].lastFire, tbl[j].next)
    BY <1>1, <1>4 DEF Distances
  <2>1. /\ hist[j].lastFire \in Nat /\ hist[j].lastFire <= now
        /\ jobs[j].sched \in Schedules
    BY <1>2 DEF Distances, TypeOK, Job
  <2>2. CASE tbl[j].next = jobs[j].next
    BY <1>5, <2>1, <2>2 DEF Distances
  <2>3. CASE tbl[j].next = NextRun(jobs[j].sched, now)
    BY <1>2, <1>5, <2>1, <2>3, NextRunApart
  <2> QED BY <1>5, <2>2, <2>3
<1> QED
  BY <1>4, <1>6, <1>7, <1>8, <1>9 DEF DueJobsStand, OneShotPerArming, FireSpacing

\* The overdue runs that a cancelled start takes down end as runs do.
LEMMA StartCancelledInductive ==
  ASSUME Inductive, TypeOK', StartCancelled
  PROVE  Inductive'
<1> USE DEF Inductive
<1>1. /\ now' = now /\ hist' = hist /\ mode' = "cancelled" /\ timer' = timer
      /\ jobs' = [j \in Jobs |-> IF runs[j]["boot"] > 0
                                 THEN AfterRun(jobs[j], TRUE, now) ELSE jobs[j]]
  BY DEF StartCancelled
<1>2. jobs \in [Jobs -> Job] /\ now \in Nat
  BY DEF TypeOK
<1>3. \A j \in Jobs :
        /\ jobs'[j].sched = jobs[j].sched
        /\ jobs'[j].life = "live" => jobs[j].life = "live"
        /\ jobs'[j].next \in {0, jobs[j].next, NextRun(jobs[j].sched, now)}
        /\ jobs'[j].life = "live" /\ jobs[j].sched.kind = "at" =>
              jobs'[j].next \in {0, jobs[j].next}
  BY <1>1, <1>2, JobSteps
<1>4. TimerShape' /\ TimerCovers' /\ DueJobsStand'
  BY <1>1 DEF TimerShape, TimerCovers, DueJobsStand, Running
<1>5. Credits'
  BY <1>1, <1>3 DEF Credits
<1>6. OneShotPerArming' /\ FireSpacing'
  BY <1>1, <1>3 DEF OneShotPerArming, FireSpacing, TypeOK, Timer
<1>7. Distances'
  <2> SUFFICES ASSUME NEW j \in Jobs
               PROVE  /\ hist[j].lastFire <= now
                      /\ jobs'[j].life = "live" /\ jobs'[j].next # 0 =>
                           /\ Apart(jobs[j].sched, hist[j].lastFire, jobs'[j].next)
                           /\ j \in timer.due => Apart(jobs[j].sched, timer.at, jobs'[j].next)
    BY <1>1, <1>3 DEF Distances
  <2>1. /\ hist[j].lastFire \in Nat /\ hist[j].lastFire <= now
        /\ timer.at \in Nat /\ timer.at <= now
        /\ jobs[j].sched \in Schedules
    BY <1>2 DEF Distances, TypeOK, TimerShape, Timer, Job
  <2>2. CASE jobs'[j].next = jobs[j].next
    BY <1>3, <2>1, <2>2 DEF Distances
  <2>3. CASE jobs'[j].next = NextRun(jobs[j].sched, now)
    BY <1>2, <2>1, <2>3, NextRunApart
  <2> QED BY <1>3, <2>1, <2>2, <2>3
<1> QED BY <1>4, <1>5, <1>6, <1>7

\* A refused patch flips enabled without the timer, and says so in half.
LEMMA UpdateRefusedInductive ==
  ASSUME Inductive, TypeOK', NEW j \in Jobs, NEW on \in BOOLEAN, NEW b \in BOOLEAN,
         UpdateRefused(j, on, b)
  PROVE  Inductive'
<1> USE DEF Inductive
<1>1. /\ now' = now /\ mode' = mode /\ timer' = timer /\ tails' = tails
      /\ hist' = [hist EXCEPT ![j].half = TRUE]
      /\ jobs' = [jobs EXCEPT ![j] = [jobs[j] EXCEPT !.enabled = on, !.once = b]]
  BY DEF UpdateRefused
<1>2. /\ jobs \in [Jobs -> Job] /\ jobs[j] \in Job
      /\ hist \in [Jobs -> [credit : BOOLEAN, lastFire : Nat, half : BOOLEAN]]
      /\ timer.due \subseteq Jobs
  BY DEF TypeOK, Timer
<1>3. \A k \in Jobs :
        /\ jobs'[k].sched = jobs[k].sched /\ jobs'[k].life = jobs[k].life
        /\ jobs'[k].next = jobs[k].next
        /\ hist'[k].credit = hist[k].credit /\ hist'[k].lastFire = hist[k].lastFire
        /\ k # j => hist'[k].half = hist[k].half /\ jobs'[k].enabled = jobs[k].enabled
  BY <1>1, <1>2 DEF Job
<1>4. hist'[j].half
  BY <1>1, <1>2
<1>5. TimerShape'
  BY <1>1 DEF TimerShape, Running
<1>6. TimerCovers'
  <2>1. \A k \in Armed(jobs)' : k = j \/ k \in Armed(jobs)
    BY <1>3 DEF Armed
  <2> QED BY <1>1, <1>3, <1>4, <2>1 DEF TimerCovers, Settled, Armed
<1>7. DueJobsStand'
  BY <1>1, <1>2, <1>3, <1>4 DEF DueJobsStand, Settled
<1>8. Credits' /\ OneShotPerArming'
  BY <1>1, <1>2, <1>3 DEF Credits, OneShotPerArming
<1>9. Distances' /\ FireSpacing'
  BY <1>1, <1>2, <1>3 DEF Distances, FireSpacing
<1> QED BY <1>5, <1>6, <1>7, <1>8, <1>9

LEMMA InitInductive == Init => Inductive
<1> SUFFICES ASSUME Init PROVE Inductive
  OBVIOUS
<1>1. TypeOK
  BY InitType
<1>2. timer.due = {} /\ timer.at = 0 /\ mode = "loaded" /\ timer = NoTimer
  BY DEF Init, NoTimer
<1>3. \A j \in Jobs : hist[j].lastFire = 0 /\ hist[j].credit = (jobs[j].next # 0)
  BY DEF Init, NoHistory
<1>4. TimerShape /\ TimerCovers
  BY <1>1, <1>2 DEF TimerShape, TimerCovers, TypeOK
<1>5. Credits
  BY <1>2, <1>3 DEF Credits
<1>6. Distances
  BY <1>1, <1>2, <1>3 DEF Distances, Apart, TypeOK
<1> QED
  BY <1>1, <1>2, <1>4, <1>5, <1>6
  DEF Inductive, DueJobsStand, OneShotPerArming, FireSpacing

LEMMA NextInductive == Inductive /\ [Next]_vars => Inductive'
<1> SUFFICES ASSUME Inductive, [Next]_vars PROVE Inductive'
  OBVIOUS
<1>1. TypeOK /\ TypeOK'
  BY NextType DEF Inductive
<1>2. CASE Tick
  <2>1. /\ mode' = mode /\ jobs' = jobs /\ timer' = timer /\ tails' = tails /\ hist' = hist
        /\ now' = now + 1
    BY <1>2 DEF Tick
  <2>2. /\ now \in Nat /\ timer.at \in Nat
        /\ \A j \in Jobs : hist[j].lastFire \in Nat
    BY <1>1 DEF TypeOK, Timer
  <2>3. TimerShape' /\ Distances'
    BY <2>1, <2>2 DEF Inductive, TimerShape, Running, Distances
  <2> QED
    BY <1>1, <2>1, <2>3
    DEF Inductive, TimerCovers, DueJobsStand, Settled, Credits, OneShotPerArming, FireSpacing
<1>3. ASSUME NEW j \in Jobs, Api(j) PROVE Inductive'
  <2>1. CASE \E on, b \in BOOLEAN : UpdateRefused(j, on, b)
    BY <1>1, <2>1, UpdateRefusedInductive
  <2>2. CASE \E force \in BOOLEAN : RunJob(j, force)
    BY <1>1, <2>2
    DEF RunJob, Inductive, TimerShape, Running, TimerCovers, DueJobsStand, Settled,
        Credits, OneShotPerArming, Distances, FireSpacing
  <2> QED BY <1>1, <1>3, <2>1, <2>2, EditsAreStores, StoreInductive DEF Api
<1>4. CASE TimerFire
  BY <1>1, <1>4, TimerFireInductive
<1>5. CASE TimerSaved
  <2>1. /\ now' = now /\ mode' = mode /\ jobs' = jobs /\ tails' = tails /\ hist' = hist
        /\ timer.phase = "saving" /\ timer'.phase = "saved"
        /\ timer'.due = timer.due /\ timer'.at = timer.at
    BY <1>1, <1>5 DEF TimerSaved, TypeOK, Timer
  <2>2. Running
    BY <2>1 DEF Inductive, TimerShape, NoTimer
  <2> QED
    BY <1>1, <2>1, <2>2
    DEF Inductive, TimerShape, Running, TimerCovers, DueJobsStand, Settled,
        Credits, OneShotPerArming, Distances, FireSpacing
<1>6. CASE TimerDispatch
  BY <1>1, <1>6, TimerDispatchInductive
<1>7. ASSUME NEW j \in Jobs, NEW src \in Sources, RunFinish(j, src) PROVE Inductive'
  BY <1>1, <1>7, RunFinishInductive
<1>8. ASSUME NEW src \in Sources, RunRearm(src) PROVE Inductive'
  BY <1>1, <1>8, RunRearmInductive
<1>9. CASE Start
  BY <1>1, <1>9, StartInductive
<1>10. CASE StartDone
  <2>1. /\ now' = now /\ jobs' = jobs /\ hist' = hist
        /\ mode' = "running" /\ timer' = TimerFor(jobs)
    BY <1>10 DEF StartDone
  <2>2. jobs \in [Jobs -> Job] /\ now \in Nat
    BY <1>1 DEF TypeOK
  <2>3. timer'.due = {} /\ timer'.at = 0
    BY <2>1, <2>2, TimerForCovers DEF NoTimer
  <2>4. TimerCovers'
    BY <2>1, <2>2, TimerForCovers DEF TimerCovers
  <2> QED
    BY <1>1, <2>1, <2>2, <2>3, <2>4
    DEF Inductive, TimerShape, Running, DueJobsStand, Credits, OneShotPerArming,
        Distances, FireSpacing
<1>11. CASE StartCancelled
  BY <1>1, <1>11, StartCancelledInductive
<1>12. CASE Stop
  <2>1. /\ now' = now /\ jobs' = jobs /\ hist' = hist /\ tails' = tails
        /\ mode' = "stopped" /\ timer' = NoTimer /\ now \in Nat
    BY <1>1, <1>12 DEF Stop, TypeOK
  <2>2. timer'.due = {} /\ timer'.at = 0 /\ timer' = NoTimer'
    BY <2>1 DEF NoTimer
  <2>3. TimerShape'
    BY <2>1, <2>2 DEF TimerShape
  <2> QED
    BY <1>1, <2>1, <2>2, <2>3
    DEF Inductive, TimerCovers, DueJobsStand, Credits, OneShotPerArming, Distances,
        FireSpacing
<1>13. CASE UNCHANGED vars
  BY <1>1, <1>13
  DEF vars, Inductive, TimerShape, Running, TimerCovers, DueJobsStand, Settled, Armed,
      Credits, OneShotPerArming, Distances, FireSpacing
<1> QED
  BY <1>2, <1>3, <1>4, <1>5, <1>6, <1>7, <1>8, <1>9, <1>10, <1>11, <1>12, <1>13
  DEF Next, TimerTask

LEMMA InductiveHolds == Spec => []Inductive
BY InitInductive, NextInductive, PTL DEF Spec

\* The timer never sleeps past an armed job: every handler of the API and
\* every finished run leaves a timer that wakes early enough.
THEOREM TimerAlwaysCovers == Spec => []TimerCovers
<1>1. Inductive => TimerCovers
  BY DEF Inductive
<1> QED BY <1>1, InductiveHolds, PTL

\* remove_job and enable_job(False) win against a save in progress.
THEOREM DueJobsAlwaysStand == Spec => []DueJobsStand
<1>1. Inductive => DueJobsStand
  BY DEF Inductive
<1> QED BY <1>1, InductiveHolds, PTL

\* The timer fires a one-shot job at most once per arming.
THEOREM OneFirePerArming == Spec => []OneShotPerArming
<1>1. Inductive => OneShotPerArming
  BY DEF Inductive
<1> QED BY <1>1, InductiveHolds, PTL

\* Recurring jobs keep their distance.
THEOREM FiresAreSpaced == Spec => []FireSpacing
<1>1. Inductive => FireSpacing
  BY DEF Inductive
<1> QED BY <1>1, InductiveHolds, PTL

-----------------------------------------------------------------------------
(* The same across restarts, and the file.                                 *)


\* Every step but a crash is a step of the scheduler or leaves it alone.
LEMMA StepsOfAutomation == DNext => Crash \/ [Next]_vars
BY DEF DNext, EditSaved, Unsaved, Starts, Stops, TimerFires, TimerThreadWrites, RunFinishes,
       RunRearms, FlushStart, FlushThreadWrites, SaveLocked, ThreadCopies, OrphanSteps,
       Next, Api, TimerTask

\* Whatever well-formed table is loaded, the next life starts in order.
LEMMA CrashInductive ==
  ASSUME Inductive, store \in Tables, Crash
  PROVE  Inductive'
<1>1. /\ now' = now /\ mode' = "loaded" /\ jobs' = store /\ timer' = NoTimer
      /\ runs' = [j \in Jobs |-> [src \in Sources |-> 0]]
      /\ tails' = [src \in Sources |-> 0]
      /\ hist' = [j \in Jobs |-> NoHistory(store[j])]
      /\ calls' = calls /\ now \in Nat /\ calls \in Nat
  BY DEF Crash, Inductive, TypeOK
<1>2. TypeOK'
  <2>1. timer' \in Timer
    BY <1>1 DEF NoTimer, Timer
  <2>2. hist' \in [Jobs -> [credit : BOOLEAN, lastFire : Nat, half : BOOLEAN]]
    BY <1>1 DEF NoHistory, Tables
  <2> QED BY <1>1, <2>1, <2>2 DEF TypeOK, Tables, Sources
<1>3. timer'.due = {} /\ timer'.at = 0 /\ timer' = NoTimer'
  BY <1>1 DEF NoTimer
<1>4. \A j \in Jobs : hist'[j].lastFire = 0 /\ (jobs'[j].next # 0 => hist'[j].credit)
  BY <1>1 DEF NoHistory
<1>5. TimerShape' /\ TimerCovers'
  BY <1>1, <1>3 DEF TimerShape, TimerCovers
<1>6. Credits' /\ Distances'
  BY <1>1, <1>2, <1>3, <1>4 DEF Credits, Distances, Apart, TypeOK
<1> QED
  BY <1>2, <1>3, <1>5, <1>6 DEF Inductive, DueJobsStand, OneShotPerArming, FireSpacing

-----------------------------------------------------------------------------
(* The file and the copies on their way to it are well-formed tables.      *)

SaveShape == [stage : {"idle", "debounce", "waiting", "queued", "copied"},
              copy : SUBSET Tables]

FileShape ==
  /\ store \in Tables
  /\ save \in [Savers -> SaveShape]
  /\ orphans \subseteq SaveShape

LEMMA AbandonShape ==
  ASSUME FileShape, NEW ws \in SUBSET Savers, Abandon(ws)
  PROVE  /\ save' \in [Savers -> SaveShape]
         /\ orphans' \subseteq SaveShape
<1>1. Idle \in SaveShape
  BY DEF Idle, SaveShape
<1>2. save' = [w \in Savers |-> IF w \in ws THEN Idle ELSE save[w]]
  BY DEF Abandon
<1>3. orphans' \subseteq orphans \cup {save[w] : w \in ws}
  BY DEF Abandon
<1> QED BY <1>1, <1>2, <1>3 DEF FileShape

LEMMA FileShapeStep ==
  ASSUME TypeOK, TypeOK', FileShape, [DNext]_dvars
  PROVE  FileShape'
<1>1. jobs \in Tables /\ jobs' \in Tables
  BY DEF TypeOK, Tables
<1>2. /\ store \in Tables /\ save \in [Savers -> SaveShape] /\ orphans \subseteq SaveShape
      /\ "timer" \in Savers /\ "flush" \in Savers
  BY DEF FileShape, Savers
<1>3. /\ Idle \in SaveShape /\ Copied(jobs) \in SaveShape
      /\ At("debounce") \in SaveShape /\ At("waiting") \in SaveShape /\ At("queued") \in SaveShape
  BY <1>1 DEF Idle, Copied, At, SaveShape
<1>4. TimerSaveCancelled => save' \in [Savers -> SaveShape] /\ orphans' \subseteq SaveShape
  BY <1>2, AbandonShape DEF TimerSaveCancelled
<1>5. CASE EditSaved
  BY <1>1, <1>4, <1>5 DEF EditSaved, WriteFile, FileShape
<1>6. CASE Unsaved
  BY <1>2, <1>6 DEF Unsaved, fileVars, FileShape
<1>7. CASE Stops
  <2>1. save' \in [Savers -> SaveShape] /\ orphans' \subseteq SaveShape
    BY <1>7, AbandonShape DEF Stops
  <2> QED BY <1>1, <1>2, <1>7, <2>1 DEF Stops, WriteFile, FileShape
<1>8. CASE TimerFires
  BY <1>2, <1>3, <1>8 DEF TimerFires, FileShape
<1>9. CASE TimerThreadWrites
  <2>1. PICK tbl \in save["timer"].copy : WriteFile(tbl, {"timer"})
    BY <1>9 DEF TimerThreadWrites
  <2>2. save["timer"].copy \subseteq Tables
    BY <1>2 DEF SaveShape
  <2> QED BY <1>2, <1>3, <1>9, <2>1, <2>2 DEF TimerThreadWrites, WriteFile, FileShape
<1>10. CASE RunFinishes
  BY <1>2, <1>3, <1>10 DEF RunFinishes, FileShape
<1>11. CASE RunRearms
  BY <1>2, <1>4, <1>11 DEF RunRearms, FileShape
<1>12. CASE FlushStart
  BY <1>2, <1>3, <1>12 DEF FlushStart, FileShape
<1>13. CASE FlushThreadWrites
  <2>1. PICK tbl \in save["flush"].copy : WriteFile(tbl, {"flush"})
    BY <1>13 DEF FlushThreadWrites
  <2>2. save["flush"].copy \subseteq Tables
    BY <1>2 DEF SaveShape
  <2> QED BY <1>2, <1>3, <1>13, <2>1, <2>2 DEF FlushThreadWrites, WriteFile, FileShape
<1>14. CASE \E w \in Savers : SaveLocked(w) \/ ThreadCopies(w)
  BY <1>2, <1>3, <1>14 DEF SaveLocked, ThreadCopies, FileShape
<1>15. CASE \E o \in orphans : OrphanSteps(o)
  <2>1. PICK o \in orphans : OrphanSteps(o)
    BY <1>15
  <2>2. o.copy \subseteq Tables
    BY <1>2 DEF SaveShape
  <2> QED BY <1>2, <1>3, <2>1, <2>2 DEF OrphanSteps, FileShape
<1>16. CASE Crash
  BY <1>2, <1>3, <1>16 DEF Crash, FileShape
<1>17. CASE UNCHANGED dvars
  BY <1>2, <1>17 DEF dvars, fileVars, FileShape
<1>18. CASE Starts(Start) \/ Starts(StartDone)
  BY <1>2, <1>4, <1>18 DEF Starts, FileShape
<1> QED
  BY <1>18, <1>5, <1>6, <1>7, <1>8, <1>9, <1>10, <1>11, <1>12, <1>13, <1>14, <1>15, <1>16, <1>17
  DEF DNext

LEMMA DurableInductive == DSpec => [](Inductive /\ FileShape)
<1>1. DInit => Inductive /\ FileShape
  <2> SUFFICES ASSUME DInit PROVE Inductive /\ FileShape
    OBVIOUS
  <2>1. Inductive
    BY InitInductive DEF DInit
  <2>2. Idle \in SaveShape
    BY DEF Idle, SaveShape
  <2> QED BY <2>1, <2>2 DEF DInit, FileShape, Inductive, TypeOK, Tables
<1>2. Inductive /\ FileShape /\ [DNext]_dvars => Inductive' /\ FileShape'
  <2> SUFFICES ASSUME Inductive, FileShape, [DNext]_dvars PROVE Inductive' /\ FileShape'
    OBVIOUS
  <2>1. Crash => Inductive'
    BY CrashInductive DEF FileShape
  <2>2. [Next]_vars => Inductive'
    BY NextInductive
  <2>3. Inductive'
    <3>1. (UNCHANGED dvars) => [Next]_vars
      BY DEF dvars
    <3> QED BY <2>1, <2>2, <3>1, StepsOfAutomation
  <2> QED BY <2>3, FileShapeStep DEF Inductive
<1> QED BY <1>1, <1>2, PTL DEF DSpec

\* After any number of crashes and restarts, with whatever table an
\* overtaken write left behind, the timer still never sleeps past a job.
THEOREM TimerCoversInEveryLife == DSpec => []TimerCovers
<1>1. Inductive /\ FileShape => TimerCovers
  BY DEF Inductive
<1> QED BY <1>1, DurableInductive, PTL

\* Nor does it fire a one-shot twice for what the file says is one arming.
THEOREM OneFirePerArmingInEveryLife == DSpec => []OneShotPerArming
<1>1. Inductive /\ FileShape => OneShotPerArming
  BY DEF Inductive
<1> QED BY <1>1, DurableInductive, PTL

-----------------------------------------------------------------------------

\* Coalescing loses no request: while one is pending the flush is scheduled
\* or under way, and looks at the request again before it is forgotten.
THEOREM RequestsHaveAFlush == DSpec => []RequestHasFlush
<1>1. DInit => RequestHasFlush
  BY DEF DInit, RequestHasFlush
<1>2. RequestHasFlush /\ FileShape /\ [DNext]_dvars => RequestHasFlush'
  <2> SUFFICES ASSUME RequestHasFlush, FileShape, [DNext]_dvars PROVE RequestHasFlush'
    OBVIOUS
  <2>1. save \in [Savers -> SaveShape] /\ "timer" \in Savers /\ "flush" \in Savers
    BY DEF FileShape, Savers
  <2>2. /\ Idle.stage = "idle" /\ \A s : At(s).stage = s /\ \A tbl : Copied(tbl).stage = "copied"
    BY DEF Idle, At, Copied
  <2>3. TimerSaveCancelled => save'["flush"] = save["flush"]
    <3>1. ASSUME NEW ws \in SUBSET {"timer"}, Abandon(ws) PROVE save'["flush"] = save["flush"]
      BY <2>1, <3>1 DEF Abandon
    <3> QED BY <3>1 DEF TimerSaveCancelled
  <2>4. CASE EditSaved
    BY <2>3, <2>4 DEF EditSaved, RequestHasFlush
  <2>5. CASE Unsaved
    BY <2>5 DEF Unsaved, fileVars, RequestHasFlush
  <2>6. CASE Stops
    BY <2>6 DEF Stops, RequestHasFlush
  <2>7. CASE TimerFires
    BY <2>1, <2>7 DEF TimerFires, RequestHasFlush
  <2>8. CASE TimerThreadWrites
    BY <2>1, <2>8 DEF TimerThreadWrites, RequestHasFlush
  <2>9. CASE RunFinishes
    <3>1. CASE save["flush"].stage = "idle"
      BY <2>1, <2>2, <2>9, <3>1 DEF RunFinishes, RequestHasFlush
    <3>2. CASE save["flush"].stage # "idle"
      <4>1. save' = save
        BY <2>9, <3>2 DEF RunFinishes
      <4> QED BY <3>2, <4>1 DEF RequestHasFlush
    <3> QED BY <3>1, <3>2
  <2>10. CASE RunRearms
    BY <2>3, <2>10 DEF RunRearms, RequestHasFlush
  <2>11. CASE FlushStart
    BY <2>11 DEF FlushStart, RequestHasFlush
  <2>12. CASE FlushThreadWrites
    BY <2>1, <2>2, <2>12 DEF FlushThreadWrites, RequestHasFlush
  <2>13. CASE \E w \in Savers : SaveLocked(w) \/ ThreadCopies(w)
    <3>1. PICK w \in Savers : SaveLocked(w) \/ ThreadCopies(w)
      BY <2>13
    <3>2. requested' = requested /\ (\E s \in {At("queued"), Copied(jobs)} :
                                        save' = [save EXCEPT ![w] = s])
      BY <3>1 DEF SaveLocked, ThreadCopies
    <3> QED BY <2>1, <2>2, <3>2 DEF RequestHasFlush
  <2>14. CASE \E o \in orphans : OrphanSteps(o)
    BY <2>14 DEF OrphanSteps, RequestHasFlush
  <2>15. CASE Crash
    BY <2>15 DEF Crash, RequestHasFlush
  <2>16. CASE UNCHANGED dvars
    BY <2>16 DEF dvars, fileVars, RequestHasFlush
  <2>17. CASE Starts(Start) \/ Starts(StartDone)
    BY <2>3, <2>17 DEF Starts, RequestHasFlush
  <2> QED
    BY <2>17, <2>4, <2>5, <2>6, <2>7, <2>8, <2>9, <2>10, <2>11, <2>12, <2>13, <2>14, <2>15, <2>16
    DEF DNext
<1> QED BY <1>1, <1>2, DurableInductive, PTL DEF DSpec

-----------------------------------------------------------------------------
(* The file catches up with memory.                                        *)

\* Which jobs exist and which have run, the part of the table that no step
\* changes without writing it or asking for a write.
Agrees(tbl) == \A j \in Jobs : tbl[j].life = jobs[j].life /\ tbl[j].ran = jobs[j].ran

\* The copies that threads hold, whether their task still waits for them or not.
Copies == {s \in orphans \cup {save[w] : w \in Savers} : s.stage = "copied"}
Faithful(s) == \A tbl \in s.copy : Agrees(tbl)

\* Unless writes overlapped, a flush is still going to copy the table, or a
\* thread holds an up-to-date copy, or the file is up to date and every copy
\* that may yet replace it is too.
SavedOrPending ==
    (~overlapped /\ mode \notin {"cancelled", "stopped"}) =>
        \/ requested
        \/ save["flush"].stage \in {"debounce", "waiting", "queued"}
        \/ \E s \in Copies : Faithful(s)
        \/ Agrees(store) /\ \A s \in Copies : Faithful(s)

LEMMA AbandonCopies ==
  ASSUME FileShape, NEW ws \in SUBSET Savers, Abandon(ws)
  PROVE  Copies' = Copies
<1>1. save' = [w \in Savers |-> IF w \in ws THEN Idle ELSE save[w]]
  BY DEF Abandon
<1>2. PICK kept \in SUBSET {w \in ws : save[w].stage = "queued"} :
          orphans' = orphans \cup {save[w] : w \in {v \in ws :
                            save[v].stage = "copied" \/ v \in kept}}
  BY DEF Abandon
<1>3. Idle.stage # "copied"
  BY DEF Idle
<1> QED BY <1>1, <1>2, <1>3, Zenon DEF Copies

\* Steps that neither copy nor write, and leave life and ran alone.
QuietSave ==
    /\ \A j \in Jobs : jobs'[j].life = jobs[j].life /\ jobs'[j].ran = jobs[j].ran
    /\ store' = store /\ overlapped' = overlapped /\ requested' = requested
    /\ save'["flush"].stage = save["flush"].stage
    /\ Copies' = Copies
    /\ mode \in {"cancelled", "stopped"} => mode' \in {"cancelled", "stopped"}

LEMMA QuietSaveStep ==
  ASSUME SavedOrPending, QuietSave
  PROVE  SavedOrPending'
<1>1. ASSUME NEW tbl PROVE Agrees(tbl)' <=> Agrees(tbl)
  BY DEF QuietSave, Agrees
<1>2. ASSUME NEW s PROVE Faithful(s)' <=> Faithful(s)
  BY <1>1 DEF Faithful
<1>3. Agrees(store)' <=> Agrees(store)
  BY DEF QuietSave, Agrees
<1>4. (\E s \in Copies : Faithful(s)) => (\E s \in Copies : Faithful(s))'
  BY <1>2 DEF QuietSave
<1>5. (\A s \in Copies : Faithful(s)) => (\A s \in Copies : Faithful(s))'
  BY <1>2 DEF QuietSave
<1> QED BY <1>3, <1>4, <1>5 DEF SavedOrPending, QuietSave

\* A thread copies the table.
CopiesTable ==
    /\ jobs' = jobs
    /\ \E s \in Copies' : s = Copied(jobs)

LEMMA CopiesTableStep ==
  ASSUME CopiesTable
  PROVE  SavedOrPending'
<1>1. PICK s \in Copies' : s = Copied(jobs)
  BY DEF CopiesTable
<1>2. Faithful(s)'
  BY <1>1 DEF CopiesTable, Faithful, Agrees, Copied
<1> QED BY <1>1, <1>2 DEF SavedOrPending

\* A thread writes the copy s.
WritesCopy(s) ==
    /\ jobs' = jobs /\ mode' = mode /\ requested' = requested
    /\ save["flush"].stage \in {"debounce", "waiting", "queued"} =>
            save'["flush"].stage = save["flush"].stage
    /\ s \in Copies /\ Copies' \subseteq Copies
    /\ ~overlapped' => ~overlapped /\ Copies \subseteq {s}
    /\ ~overlapped' => Copies' = {}
    /\ store' \in s.copy

LEMMA WritesCopyStep ==
  ASSUME SavedOrPending, NEW s, WritesCopy(s)
  PROVE  SavedOrPending'
<1> SUFFICES ASSUME ~overlapped', mode' \notin {"cancelled", "stopped"},
                    ~requested', save'["flush"].stage \notin {"debounce", "waiting", "queued"}
             PROVE  Agrees(store)' /\ Copies' = {}
  BY DEF SavedOrPending
<1>1. /\ ~overlapped /\ mode \notin {"cancelled", "stopped"} /\ ~requested
      /\ save["flush"].stage \notin {"debounce", "waiting", "queued"}
  BY DEF WritesCopy
<1>2. Faithful(s)
  BY <1>1 DEF SavedOrPending, WritesCopy
<1>3. Agrees(store)'
  BY <1>2 DEF WritesCopy, Faithful, Agrees
<1> QED BY <1>3 DEF WritesCopy

\* The steps of the scheduler and what SavedOrPending says of jobs and mode.
LEMMA FinishedStays ==
  ASSUME TypeOK, [Next]_vars
  PROVE  mode \in {"cancelled", "stopped"} => mode' \in {"cancelled", "stopped"}
<1>1. CASE UNCHANGED vars
  BY <1>1 DEF vars
<1>2. CASE Tick
  BY <1>2 DEF Tick
<1>3. CASE \E j \in Jobs : Api(j)
  <2>1. PICK j \in Jobs : Api(j)
    BY <1>3
  <2>2. CASE Edit(j)
    BY <2>2 DEF Edit, AddJob, RemoveJob, EnableJob, UpdateJob, Store
  <2>3. CASE ~Edit(j)
    BY <2>1, <2>3 DEF Api, UpdateRefused, RunJob
  <2> QED BY <2>2, <2>3
<1>4. CASE TimerTask
  BY <1>4 DEF TimerTask, TimerFire, TimerSaved, TimerDispatch
<1>5. CASE \E j \in Jobs, src \in Sources : RunFinish(j, src)
  BY <1>5 DEF RunFinish
<1>6. CASE \E src \in Sources : RunRearm(src)
  BY <1>6 DEF RunRearm
<1>7. CASE Start \/ StartDone \/ StartCancelled \/ Stop
  BY <1>7 DEF Start, StartDone, StartCancelled, Stop
<1> QED BY <1>1, <1>2, <1>3, <1>4, <1>5, <1>6, <1>7 DEF Next

SameTable == \A j \in Jobs : jobs'[j].life = jobs[j].life /\ jobs'[j].ran = jobs[j].ran

LEMMA UnsavedKeepsTable ==
  ASSUME TypeOK, Start \/ StartDone \/ (Unsaved /\ ~StartCancelled)
  PROVE  SameTable
<1>1. jobs \in [Jobs -> Job]
  BY DEF TypeOK
<1>2. ASSUME NEW j \in Jobs PROVE FastForwarded(jobs[j]).life = jobs[j].life
                              /\ FastForwarded(jobs[j]).ran = jobs[j].ran
  BY <1>1 DEF FastForwarded, Job
<1>3. CASE Start
  BY <1>2, <1>3 DEF Start, SameTable
<1>4. CASE Tick \/ StartDone \/ TimerDispatch
  BY <1>4 DEF Tick, StartDone, TimerDispatch, SameTable
<1>5. CASE \E j \in Jobs, force \in BOOLEAN : RunJob(j, force)
  BY <1>5 DEF RunJob, SameTable
<1>6. CASE \E j \in Jobs, on, b \in BOOLEAN : UpdateRefused(j, on, b)
  <2>1. PICK j \in Jobs, on, b \in BOOLEAN : UpdateRefused(j, on, b)
    BY <1>6
  <2>2. jobs' = [jobs EXCEPT ![j] = [@ EXCEPT !.enabled = on, !.once = b]]
    BY <2>1 DEF UpdateRefused
  <2> QED BY <1>1, <2>2 DEF SameTable, Job
<1> QED BY <1>3, <1>4, <1>5, <1>6 DEF Unsaved

\* The timer has a save only while it waits for it.
TimerSaves == timer.phase # "saving" => save["timer"] = Idle

LEMMA TimerSavesStep ==
  ASSUME TypeOK, FileShape, TimerSaves, [DNext]_dvars
  PROVE  TimerSaves'
<1>1. /\ save \in [Savers -> SaveShape] /\ "timer" \in Savers /\ "flush" \in Savers
      /\ \A w \in Savers : w = "timer" \/ w = "flush"
  BY DEF FileShape, Savers
<1>2. TimerSaveCancelled => TimerSaves'
  <2>1. ASSUME TimerSaveCancelled, timer'.phase # "saving" PROVE save'["timer"] = Idle
    <3>1. CASE timer.phase = "saving"
      BY <1>1, <2>1, <3>1 DEF TimerSaveCancelled, Abandon
    <3>2. CASE timer.phase # "saving"
      BY <1>1, <2>1, <3>2 DEF TimerSaveCancelled, Abandon, TimerSaves
    <3> QED BY <3>1, <3>2
  <2> QED BY <2>1 DEF TimerSaves
<1>3. CASE EditSaved \/ RunRearms \/ Starts(Start) \/ Starts(StartDone)
  BY <1>2, <1>3 DEF EditSaved, RunRearms, Starts
<1>4. CASE Stops
  BY <1>1, <1>4 DEF Stops, Abandon, TimerSaves
<1>5. CASE Unsaved
  <2>1. CASE TimerDispatch
    <3>1. timer.phase # "saving" /\ save' = save
      BY <1>5, <2>1 DEF TimerDispatch, Unsaved, fileVars
    <3> QED BY <3>1 DEF TimerSaves
  <2>2. CASE ~TimerDispatch
    BY <1>5, <2>2 DEF Unsaved, Tick, StartCancelled, RunJob, UpdateRefused, fileVars, TimerSaves
  <2> QED BY <2>1, <2>2
<1>6. CASE TimerFires
  <2>1. timer'.phase = "saving"
    BY <1>6 DEF TimerFires, TimerFire, TypeOK, Timer
  <2> QED BY <2>1 DEF TimerSaves
<1>7. CASE TimerThreadWrites
  BY <1>1, <1>7 DEF TimerThreadWrites, TimerSaves
<1>8. CASE RunFinishes
  <2>1. timer' = timer /\ save'["timer"] = save["timer"]
    BY <1>1, <1>8 DEF RunFinishes, RunFinish
  <2> QED BY <2>1 DEF TimerSaves
<1>9. CASE FlushStart \/ FlushThreadWrites
  <2>1. timer' = timer /\ save'["timer"] = save["timer"]
    BY <1>1, <1>9 DEF FlushStart, FlushThreadWrites, vars
  <2> QED BY <2>1 DEF TimerSaves
<1>10. CASE \E w \in Savers : SaveLocked(w) \/ ThreadCopies(w)
  <2>1. PICK w \in Savers : SaveLocked(w) \/ ThreadCopies(w)
    BY <1>10
  <2>2. timer' = timer /\ save[w].stage # "idle"
    BY <2>1 DEF SaveLocked, ThreadCopies, vars
  <2>3. CASE w = "timer"
    BY <2>2, <2>3 DEF TimerSaves, Idle
  <2>4. CASE w # "timer"
    <3>1. save'["timer"] = save["timer"]
      BY <1>1, <2>1, <2>4 DEF SaveLocked, ThreadCopies
    <3> QED BY <2>2, <3>1 DEF TimerSaves
  <2> QED BY <2>3, <2>4
<1>11. CASE \E o \in orphans : OrphanSteps(o)
  BY <1>11 DEF OrphanSteps, vars, TimerSaves
<1>12. CASE Crash
  BY <1>1, <1>12 DEF Crash, TimerSaves
<1>13. CASE UNCHANGED dvars
  BY <1>13 DEF dvars, fileVars, vars, TimerSaves
<1> QED
  BY <1>3, <1>4, <1>5, <1>6, <1>7, <1>8, <1>9, <1>10, <1>11, <1>12, <1>13 DEF DNext

LEMMA TimerFireKeepsTable ==
  ASSUME TypeOK, TimerFire
  PROVE  SameTable
<1>1. jobs \in [Jobs -> Job]
  BY DEF TypeOK
<1>2. ASSUME NEW j \in Jobs PROVE Advanced(jobs[j], now).life = jobs[j].life
                              /\ Advanced(jobs[j], now).ran = jobs[j].ran
  BY <1>1 DEF Advanced, Job
<1>3. jobs' = [j \in Jobs |-> IF j \in Due(jobs, now) THEN Advanced(jobs[j], now) ELSE jobs[j]]
  BY DEF TimerFire
<1> QED BY <1>2, <1>3 DEF SameTable

LEMMA SavedOrPendingStep ==
  ASSUME TypeOK, FileShape, TimerSaves, SavedOrPending, [DNext]_dvars
  PROVE  SavedOrPending'
<1>1. /\ save \in [Savers -> SaveShape] /\ "timer" \in Savers /\ "flush" \in Savers
      /\ \A w \in Savers : w = "timer" \/ w = "flush"
  BY DEF FileShape, Savers
<1>2. /\ Idle.stage = "idle" /\ \A s : At(s).stage = s
      /\ \A tbl : Copied(tbl).stage = "copied"
  BY DEF Idle, At, Copied
<1>3. ~Crash => (mode \in {"cancelled", "stopped"} => mode' \in {"cancelled", "stopped"})
  BY FinishedStays, StepsOfAutomation DEF dvars
<1>4. TimerSaveCancelled => Copies' = Copies /\ save'["flush"] = save["flush"]
  <2>1. ASSUME NEW ws \in SUBSET {"timer"}, Abandon(ws)
        PROVE  Copies' = Copies /\ save'["flush"] = save["flush"]
    <3>1. save'["flush"] = save["flush"]
      BY <1>1, <2>1 DEF Abandon
    <3> QED BY <1>1, <2>1, <3>1, AbandonCopies
  <2> QED BY <2>1 DEF TimerSaveCancelled
<1>5. ASSUME NEW w \in Savers, NEW stage, stage # "copied", save[w].stage # "copied",
             save' = [save EXCEPT ![w] = At(stage)], orphans' = orphans
      PROVE  Copies' = Copies
  <2>1. At(stage).stage # "copied"
    BY <1>2, <1>5
  <2>2. save' \in [Savers -> {save[v] : v \in Savers} \cup {At(stage)}]
    BY <1>1, <1>5
  <2>3. \A v \in Savers : v # w => save'[v] = save[v]
    BY <1>1, <1>5
  <2>4. save'[w] = At(stage)
    BY <1>1, <1>5
  <2> QED BY <1>5, <2>1, <2>3, <2>4, Zenon DEF Copies
<1>6. CASE EditSaved
  <2>1. /\ store' = jobs' /\ overlapped' = (overlapped \/ CopyOut({})) /\ Copies' = Copies
    BY <1>4, <1>6 DEF EditSaved, WriteFile
  <2>2. ~overlapped' => Copies = {}
    BY <2>1 DEF CopyOut, Copies
  <2>3. Agrees(store)'
    BY <2>1 DEF Agrees
  <2> QED BY <2>1, <2>2, <2>3 DEF SavedOrPending
<1>7. CASE Unsaved /\ ~StartCancelled
  <2>1. Copies' = Copies
    BY <1>7 DEF Unsaved, fileVars, Copies
  <2>2. QuietSave
    BY <1>3, <1>7, <2>1, UnsavedKeepsTable DEF Unsaved, fileVars, QuietSave, SameTable, Crash,
       Tick, TimerDispatch, RunJob, UpdateRefused
  <2> QED BY <2>2, QuietSaveStep
<1>8. CASE StartCancelled
  BY <1>8 DEF StartCancelled, SavedOrPending
<1>9. CASE Stops
  BY <1>9 DEF Stops, Stop, SavedOrPending
<1>10. CASE TimerFires
  <2>1. save' = [save EXCEPT !["timer"] = At("waiting")] /\ orphans' = orphans
    BY <1>10 DEF TimerFires
  <2>2. save["timer"].stage # "copied"
    BY <1>2, <1>10 DEF TimerFires, TimerFire, TimerSaves
  <2>3. Copies' = Copies
    BY <1>1, <1>5, <2>1, <2>2
  <2>4. QuietSave
    BY <1>1, <1>3, <1>10, <2>1, <2>3, TimerFireKeepsTable
    DEF TimerFires, TimerFire, QuietSave, SameTable
  <2> QED BY <2>4, QuietSaveStep
<1>11. CASE TimerThreadWrites
  <2>1. PICK tbl \in save["timer"].copy : WriteFile(tbl, {"timer"})
    BY <1>11 DEF TimerThreadWrites
  <2>2. /\ jobs' = jobs /\ mode' = mode /\ requested' = requested /\ orphans' = orphans
        /\ save' = [save EXCEPT !["timer"] = Idle] /\ save["timer"].stage = "copied"
    BY <1>11 DEF TimerThreadWrites, TimerSaved
  <2>3. /\ save'["flush"] = save["flush"] /\ save'["timer"] = Idle
    BY <1>1, <2>2
  <2>4. Copies' \subseteq Copies /\ save["timer"] \in Copies
    BY <1>1, <1>2, <2>2, <2>3, Zenon DEF Copies
  <2>5. ~overlapped' => ~overlapped /\ Copies \subseteq {save["timer"]}
    BY <1>1, <2>1 DEF WriteFile, CopyOut, Copies
  <2>6. ~overlapped' => Copies' = {}
    <3>1. ~overlapped' => ~CopyOut({"timer"})
      BY <2>1 DEF WriteFile
    <3>2. ~overlapped' => \A w \in Savers : save'[w].stage # "copied"
      BY <1>1, <1>2, <2>3, <3>1 DEF CopyOut
    <3>3. ~overlapped' => \A o \in orphans' : o.stage # "copied"
      BY <2>2, <3>1 DEF CopyOut
    <3> QED BY <3>2, <3>3 DEF Copies
  <2>7. WritesCopy(save["timer"])
    BY <2>1, <2>2, <2>3, <2>4, <2>5, <2>6 DEF WritesCopy, WriteFile
  <2> QED BY <2>7, WritesCopyStep
<1>12. CASE RunFinishes
  BY <1>12 DEF RunFinishes, SavedOrPending
<1>13. CASE RunRearms
  <2>1. Copies' = Copies /\ save'["flush"] = save["flush"]
    BY <1>4, <1>13 DEF RunRearms
  <2>2. jobs' = jobs /\ mode' = mode
    BY <1>13 DEF RunRearms, RunRearm
  <2>3. QuietSave
    BY <1>13, <2>1, <2>2 DEF RunRearms, QuietSave
  <2> QED BY <2>3, QuietSaveStep
<1>14. CASE FlushStart
  <2>1. save'["flush"].stage = "waiting"
    BY <1>1, <1>2, <1>14 DEF FlushStart
  <2> QED BY <2>1 DEF SavedOrPending
<1>15. CASE FlushThreadWrites
  <2>1. PICK tbl \in save["flush"].copy : WriteFile(tbl, {"flush"})
    BY <1>15 DEF FlushThreadWrites
  <2>2. /\ jobs' = jobs /\ mode' = mode /\ requested' = requested /\ orphans' = orphans
        /\ save["flush"].stage = "copied"
    BY <1>15 DEF FlushThreadWrites, vars
  <2>3. /\ save'["timer"] = save["timer"] /\ save'["flush"].stage # "copied"
    BY <1>1, <1>2, <1>15 DEF FlushThreadWrites
  <2>4. Copies' \subseteq Copies /\ save["flush"] \in Copies
    BY <1>1, <2>2, <2>3, Zenon DEF Copies
  <2>5. ~overlapped' => ~overlapped /\ Copies \subseteq {save["flush"]}
    BY <1>1, <2>1 DEF WriteFile, CopyOut, Copies
  <2>6. ~overlapped' => Copies' = {}
    <3>1. ~overlapped' => ~CopyOut({"flush"})
      BY <2>1 DEF WriteFile
    <3>2. ~overlapped' => \A w \in Savers : save'[w].stage # "copied"
      BY <1>1, <1>2, <2>3, <3>1 DEF CopyOut
    <3>3. ~overlapped' => \A o \in orphans' : o.stage # "copied"
      BY <2>2, <3>1 DEF CopyOut
    <3> QED BY <3>2, <3>3 DEF Copies
  <2>7. WritesCopy(save["flush"])
    BY <2>1, <2>2, <2>4, <2>5, <2>6 DEF WritesCopy, WriteFile
  <2> QED BY <2>7, WritesCopyStep
<1>16. CASE \E w \in Savers : SaveLocked(w)
  <2>1. PICK w \in Savers : SaveLocked(w)
    BY <1>16
  <2>2. /\ save[w].stage = "waiting" /\ save' = [save EXCEPT ![w] = At("queued")]
        /\ jobs' = jobs /\ mode' = mode /\ requested' = requested /\ orphans' = orphans
        /\ store' = store /\ overlapped' = overlapped
    BY <2>1 DEF SaveLocked, vars
  <2>3. Copies' = Copies
    BY <1>5, <2>2
  <2>4. CASE w = "flush"
    <3>1. save'["flush"].stage = "queued"
      BY <1>1, <1>2, <2>2, <2>4
    <3> QED BY <3>1 DEF SavedOrPending
  <2>5. CASE w = "timer"
    <3>1. save'["flush"] = save["flush"]
      BY <1>1, <2>2, <2>5
    <3>2. QuietSave
      BY <2>2, <2>3, <3>1 DEF QuietSave
    <3> QED BY <3>2, QuietSaveStep
  <2> QED BY <1>1, <2>4, <2>5
<1>17. CASE \E w \in Savers : ThreadCopies(w)
  <2>1. PICK w \in Savers : ThreadCopies(w)
    BY <1>17
  <2>2. save'[w] = Copied(jobs) /\ jobs' = jobs
    BY <1>1, <2>1 DEF ThreadCopies, vars
  <2>3. CopiesTable
    BY <1>2, <2>2, Zenon DEF CopiesTable, Copies
  <2> QED BY <2>3, CopiesTableStep
<1>18. CASE \E o \in orphans : OrphanSteps(o)
  <2>1. PICK o \in orphans : OrphanSteps(o)
    BY <1>18
  <2>2. CASE o.stage = "queued"
    <3>1. orphans' = (orphans \ {o}) \cup {Copied(jobs)} /\ jobs' = jobs
      BY <2>1, <2>2 DEF OrphanSteps, vars
    <3>2. CopiesTable
      BY <1>2, <3>1, Zenon DEF CopiesTable, Copies
    <3> QED BY <3>2, CopiesTableStep
  <2>3. CASE o.stage # "queued"
    <3>1. /\ o.stage = "copied" /\ orphans' = orphans \ {o} /\ store' \in o.copy
          /\ overlapped' = (overlapped \/ (\E w \in Savers : save[w].stage = "copied")
                            \/ \E q \in orphans \ {o} : q.stage = "copied")
          /\ jobs' = jobs /\ mode' = mode /\ requested' = requested /\ save' = save
      BY <2>1, <2>3 DEF OrphanSteps, vars
    <3>2. o \in Copies /\ Copies' \subseteq Copies
      BY <3>1 DEF Copies
    <3>3. ~overlapped' => ~overlapped /\ Copies \subseteq {o}
      BY <3>1 DEF Copies
    <3>4. ~overlapped' => Copies' = {}
      BY <3>1 DEF Copies
    <3>5. WritesCopy(o)
      BY <3>1, <3>2, <3>3, <3>4 DEF WritesCopy
    <3> QED BY <3>5, WritesCopyStep
  <2> QED BY <2>2, <2>3
<1>19. CASE Crash
  <2>1. Copies' = {}
    BY <1>1, <1>2, <1>19 DEF Crash, Copies
  <2>2. Agrees(store)'
    BY <1>19 DEF Crash, Agrees
  <2> QED BY <2>1, <2>2 DEF SavedOrPending
<1>20. CASE UNCHANGED dvars
  BY <1>20 DEF dvars, fileVars, vars, SavedOrPending, Copies, Faithful, Agrees
<1>21. CASE Starts(Start) \/ Starts(StartDone)
  <2>1. Copies' = Copies /\ save'["flush"] = save["flush"] /\ SameTable
    BY <1>4, <1>21, UnsavedKeepsTable DEF Starts
  <2>2. mode \notin {"cancelled", "stopped"}
    BY <1>21 DEF Starts, Start, StartDone
  <2>3. QuietSave
    BY <1>21, <2>1, <2>2 DEF Starts, QuietSave, SameTable
  <2> QED BY <2>3, QuietSaveStep
<1> QED
  BY <1>6, <1>7, <1>8, <1>9, <1>10, <1>11, <1>12, <1>13, <1>14, <1>15, <1>16, <1>17,
     <1>18, <1>19, <1>20, <1>21 DEF DNext

\* Whenever no save is requested or under way and no write of this life came
\* after an older copy, automation.json agrees with memory on which jobs
\* exist and which have run: coalescing, cancelling and the two savers'
\* competition for _save_lock leave no change behind.
THEOREM NothingLeftUnsaved == DSpec => []IdleMeansSaved
<1>1. DInit => TimerSaves /\ SavedOrPending
  BY DEF DInit, TimerSaves, SavedOrPending, Agrees, Faithful, Copies, Idle, Savers
<1>2. Inductive /\ FileShape /\ TimerSaves /\ SavedOrPending /\ [DNext]_dvars
        => TimerSaves' /\ SavedOrPending'
  BY TimerSavesStep, SavedOrPendingStep DEF Inductive
<1>3. SavedOrPending => IdleMeansSaved
  <2> SUFFICES ASSUME SavedOrPending, ~requested, ~overlapped, orphans = {},
                      mode \notin {"cancelled", "stopped"}, \A w \in Savers : save[w] = Idle
               PROVE  Agrees(store)
    BY DEF IdleMeansSaved, Agrees
  <2>1. Idle.stage = "idle" /\ "flush" \in Savers
    BY DEF Idle, Savers
  <2>2. Copies = {}
    BY <2>1 DEF Copies
  <2> QED BY <2>1, <2>2 DEF SavedOrPending
<1> QED BY <1>1, <1>2, <1>3, DurableInductive, PTL DEF DSpec

=============================================================================
