--------------------------- MODULE ChannelsProofs ---------------------------
(* What holds of the channel manager for every set of channels, sections   *)
(* and bounds.                                                             *)
EXTENDS Channels, Mochat, SequenceTheorems, FiniteSetTheorems, TLAPS

-----------------------------------------------------------------------------
(* The invariants.                                                         *)

\* The tables point at channel objects of their own name and at tasks.
Objects ==
    /\ channels \in [Names -> Nat] /\ tracked \in [Names -> Nat]
    /\ insts \in Seq(Inst) /\ tasks \in Seq(Task)
    /\ Len(insts) <= MaxInsts
    /\ \A n \in Names : channels[n] # 0 =>
            channels[n] \in DOMAIN insts /\ insts[channels[n]].name = n
    /\ \A n \in Names : tracked[n] # 0 => tracked[n] \in DOMAIN tasks
    /\ \A k \in DOMAIN tasks : tasks[k].inst \in DOMAIN insts

\* A loop that does not await has the manager for itself.
Busy(r) == reloads[r].stage \in {"pick", "pop", "start"}

Phases ==
    /\ file \in Sections /\ config \in Sections
    /\ reloads \in [Reloads -> Reload]
    /\ \A r \in Reloads : reloads[r].stage \in {"task", "pop"} => reloads[r].cur \in Names
    /\ stop \in Stage
    /\ stop.stage \in {"init", "starting", "down"} => \A r \in Reloads : ~Busy(r)
    /\ stop.stage = "starting" => stop.todo \subseteq Running
    /\ stop.stage = "init" => \A n \in stop.todo : file[n] # Off
    /\ \A r \in Reloads : reloads[r].stage = "start" =>
            \A n \in reloads[r].todo : reloads[r].cfg[n] # Off

Bus ==
    /\ outbound \in Seq(Message)
    /\ sending.state \in {"none", "idle", "send", "over"}
    /\ sending.inst \in 0 .. Len(insts)
    /\ sending.state = "send" => sending.msg \in Message
    /\ messages \in 0 .. MaxMessages /\ acts \in 0 .. MaxActs
    /\ overlapped \in BOOLEAN /\ refused \subseteq Names
    /\ notices \in [1 .. MaxMessages -> Nat]

Types == Objects /\ Phases /\ Bus

\* A message not delivered yet: nobody was told of it, and a notice goes where
\* a failure is not told again.
Pends(msg, number, told) ==
    /\ msg.id <= number
    /\ IF msg.notice THEN msg.origin = msg.to ELSE told[msg.id] = 0

Pending(msg) == Pends(msg, messages, notices)

Told ==
    /\ \A j \in DOMAIN outbound : Pending(outbound[j])
    /\ \A i, j \in DOMAIN outbound :
            i # j /\ ~outbound[i].notice /\ ~outbound[j].notice
            => outbound[i].id # outbound[j].id
    /\ sending.state = "send" =>
            /\ Pending(sending.msg)
            /\ \A j \in DOMAIN outbound :
                    ~sending.msg.notice /\ ~outbound[j].notice
                    => outbound[j].id # sending.msg.id
    /\ \A m \in 1 .. MaxMessages : m > messages => notices[m] = 0
    /\ OneNoticeEach

Live(k) == tasks[k].state \in {"new", "running"}

\* A reload that meets no other one is alone, while the gateway serves.
Alone ==
    /\ \A q, r \in Reloads : reloads[q] # Closed /\ reloads[r] # Closed => q = r
    /\ \A r \in Reloads : reloads[r] # Closed => Serving

\* What is tracked is the task of the channel in the table.
Tracks ==
    /\ LoopsAreTracked
    /\ \A n \in Names : tracked[n] # 0 => tasks[tracked[n]].inst = channels[n]

FitsIn(chan, objs, out, n, conf) ==
    IF chan[n] = 0 THEN conf = Off \/ n \in out ELSE objs[chan[n]].conf = conf

Fits(n, conf) == FitsIn(channels, insts, refused, n, conf)

\* What a reload c leaves as it is fits the configuration.
Spared(c, chan, objs, out, conf) ==
    \A n \in Names :
        c.stage \in {"idle", "load", "agent"} \/ c.cfg[n] = conf[n]
        => FitsIn(chan, objs, out, n, conf[n])

\* The part of a reload c that is done, and the part to be done: it has
\* untracked the channel it is about to pop, and popped those it will start.
Underway(c, chan, track, objs, out, conf) ==
    /\ c.stage \in {"task", "pop"} =>
            track[c.cur] = 0 /\ c.cfg[c.cur] # conf[c.cur] /\ c.cur \notin c.todo
    /\ c.stage \in {"pick", "task", "pop", "stop"} =>
        /\ \A n \in c.todo :
                chan[n] # 0 /\ objs[chan[n]].conf # c.cfg[n] /\ c.cfg[n] # conf[n]
        /\ \A n \in Names : c.cfg[n] # conf[n] =>
                \/ chan[n] = 0 \/ n \in c.todo
                \/ c.stage \in {"task", "pop"} /\ n = c.cur
    /\ c.stage = "start" =>
        /\ \A n \in c.todo : chan[n] = 0
        /\ \A n \in Names \ c.todo : FitsIn(chan, objs, out, n, c.cfg[n])

\* Nothing is tracked before it is started, and stop_all has cancelled what
\* it is done with; the channels fit the configuration once they are created.
Staged ==
    /\ stop.stage \in {"init", "booting"} => \A n \in Names : tracked[n] = 0
    /\ stop.stage = "starting" => \A n \in stop.todo : tracked[n] = 0
    /\ stop.stage = "cancel" =>
            \A n \in Names : tracked[n] # 0 => tracked[n] \in stop.tasks \/ ~Live(tracked[n])
    /\ stop.stage \in {"init", "booting", "starting"} => config = file
    /\ stop.stage = "init" =>
            \A n \in Names : IF n \in stop.todo THEN channels[n] = 0 ELSE Fits(n, config[n])
    /\ stop.stage \in {"booting", "starting", "serving"} =>
            \A n \in Names : (\A r \in Reloads : Spares(r, n)) => Fits(n, config[n])

Apart ==
    /\ Alone /\ Tracks /\ Staged
    /\ \A r \in Reloads : Underway(reloads[r], channels, tracked, insts, refused, config)

Manager == ~overlapped => Apart

-----------------------------------------------------------------------------
(* Sequences, and what a step may do to the objects and the tasks.         *)

LEMMA FunctionIsSeq ==
  ASSUME NEW S, NEW n \in Nat, NEW f \in [1 .. n -> S]
  PROVE  f \in Seq(S) /\ Len(f) = n
  OBVIOUS

LEMMA SeqIsFunction ==
  ASSUME NEW S, NEW f \in Seq(S)
  PROVE  Len(f) \in Nat /\ DOMAIN f = 1 .. Len(f) /\ f \in [1 .. Len(f) -> S]
  OBVIOUS

\* Objects stay, but for whether they run; more may come.
MoreInsts ==
    /\ insts' \in Seq(Inst) /\ Len(insts') <= MaxInsts
    /\ \A i \in DOMAIN insts :
            /\ i \in DOMAIN insts'
            /\ insts'[i].name = insts[i].name /\ insts'[i].conf = insts[i].conf

\* Tasks stay, and one that has ended does not live again; more may come.
MoreTasks ==
    /\ tasks' \in Seq(Task)
    /\ \A k \in DOMAIN tasks :
            /\ k \in DOMAIN tasks' /\ tasks'[k].inst = tasks[k].inst
            /\ Live(k)' => Live(k)

\* What the tables point at next is nothing, the same, or of the right name.
Moves ==
    /\ MoreInsts /\ MoreTasks
    /\ channels' \in [Names -> Nat] /\ tracked' \in [Names -> Nat]
    /\ \A n \in Names :
        /\ \/ channels'[n] \in {0, channels[n]}
           \/ channels'[n] \in DOMAIN insts' /\ insts'[channels'[n]].name = n
        /\ tracked'[n] \in {0, tracked[n]} \cup DOMAIN tasks'
    /\ \A k \in DOMAIN tasks' : k \in DOMAIN tasks \/ tasks'[k].inst \in DOMAIN insts'

LEMMA ObjectsMove == ASSUME Objects, Moves PROVE Objects'
<1>1. /\ channels' \in [Names -> Nat] /\ tracked' \in [Names -> Nat]
      /\ insts' \in Seq(Inst) /\ tasks' \in Seq(Task) /\ Len(insts') <= MaxInsts
  BY DEF Moves, MoreInsts, MoreTasks
<1>2. ASSUME NEW n \in Names, channels'[n] # 0
      PROVE  channels'[n] \in DOMAIN insts' /\ insts'[channels'[n]].name = n
  BY <1>2 DEF Objects, Moves, MoreInsts
<1>3. ASSUME NEW n \in Names, tracked'[n] # 0 PROVE tracked'[n] \in DOMAIN tasks'
  BY <1>3 DEF Objects, Moves, MoreTasks
<1>4. ASSUME NEW k \in DOMAIN tasks' PROVE tasks'[k].inst \in DOMAIN insts'
  <2>1. CASE k \in DOMAIN tasks
    BY <2>1 DEF Objects, Moves, MoreTasks, MoreInsts
  <2>2. QED  BY <1>4, <2>1 DEF Moves
<1>5. QED  BY <1>1, <1>2, <1>3, <1>4 DEF Objects

LEMMA InstsStay == ASSUME Objects, UNCHANGED insts PROVE MoreInsts
  BY DEF Objects, MoreInsts

LEMMA TasksStay == ASSUME Objects, UNCHANGED tasks PROVE MoreTasks
  BY DEF Objects, MoreTasks, Live

\* An object runs or stops.
LEMMA Switched ==
  ASSUME Objects, NEW i \in DOMAIN insts, NEW b \in BOOLEAN,
         insts' = [insts EXCEPT ![i].on = b]
  PROVE  MoreInsts /\ DOMAIN insts' = DOMAIN insts /\ Len(insts') = Len(insts)
<1>1. /\ Len(insts) \in Nat /\ DOMAIN insts = 1 .. Len(insts)
      /\ insts \in [1 .. Len(insts) -> Inst] /\ Len(insts) <= MaxInsts
  BY SeqIsFunction DEF Objects
<1>2. ASSUME NEW c \in Inst
      PROVE  /\ [c EXCEPT !.on = b] \in Inst
             /\ [c EXCEPT !.on = b].name = c.name /\ [c EXCEPT !.on = b].conf = c.conf
  BY DEF Inst
<1> DEFINE x == [insts[i] EXCEPT !.on = b]
<1>3. x \in Inst /\ x.name = insts[i].name /\ x.conf = insts[i].conf
  BY <1>1, <1>2
<1>4. insts' = [insts EXCEPT ![i] = x]
  OBVIOUS
<1> HIDE DEF x
<1>5. insts' \in [1 .. Len(insts) -> Inst]
  BY <1>1, <1>3, <1>4
<1>6. insts' \in Seq(Inst) /\ Len(insts') = Len(insts)
  BY <1>1, <1>5, FunctionIsSeq
<1>7. /\ DOMAIN insts' = DOMAIN insts /\ insts'[i] = x
      /\ \A j \in DOMAIN insts : j # i => insts'[j] = insts[j]
  BY <1>1, <1>4
<1>8. QED  BY <1>1, <1>3, <1>6, <1>7 DEF MoreInsts

\* Tasks change their state for one in which they do not live again.
LEMMA Ended ==
  ASSUME Objects,
         NEW ts \in SUBSET DOMAIN tasks, NEW s \in {"new", "running", "cancelled", "over"},
         s = "running" => \A k \in ts : Live(k),
         s # "new",
         tasks' = [k \in DOMAIN tasks |->
            IF k \in ts THEN [tasks[k] EXCEPT !.state = s] ELSE tasks[k]]
  PROVE  /\ MoreTasks /\ DOMAIN tasks' = DOMAIN tasks
         /\ \A k \in ts : tasks'[k].state = s
<1>1. /\ Len(tasks) \in Nat /\ DOMAIN tasks = 1 .. Len(tasks)
      /\ tasks \in [1 .. Len(tasks) -> Task]
  BY SeqIsFunction DEF Objects
<1>2. ASSUME NEW c \in Task
      PROVE  /\ [c EXCEPT !.state = s] \in Task
             /\ [c EXCEPT !.state = s].inst = c.inst /\ [c EXCEPT !.state = s].state = s
  BY DEF Task
<1> DEFINE x(k) == [tasks[k] EXCEPT !.state = s]
<1>3. \A k \in DOMAIN tasks : x(k) \in Task /\ x(k).inst = tasks[k].inst /\ x(k).state = s
  BY <1>1, <1>2
<1>4. tasks' = [k \in DOMAIN tasks |-> IF k \in ts THEN x(k) ELSE tasks[k]]
  OBVIOUS
<1> HIDE DEF x
<1>5. tasks' \in [1 .. Len(tasks) -> Task]
  BY <1>1, <1>3, <1>4
<1>6. tasks' \in Seq(Task)
  BY <1>1, <1>5, FunctionIsSeq
<1>7. /\ DOMAIN tasks' = DOMAIN tasks
      /\ \A k \in DOMAIN tasks : tasks'[k].inst = tasks[k].inst
      /\ \A k \in ts : tasks'[k].state = s
      /\ \A k \in DOMAIN tasks \ ts : tasks'[k] = tasks[k]
  BY <1>1, <1>3, <1>4
<1>8. ASSUME NEW k \in DOMAIN tasks, Live(k)' PROVE Live(k)
  BY <1>7, <1>8 DEF Live
<1>9. QED  BY <1>6, <1>7, <1>8 DEF MoreTasks

LEMMA OneEnded ==
  ASSUME Objects, NEW k \in DOMAIN tasks,
         NEW s \in {"running", "over"}, s = "running" => Live(k),
         tasks' = [tasks EXCEPT ![k].state = s]
  PROVE  MoreTasks /\ DOMAIN tasks' = DOMAIN tasks
<1>1. tasks' = [j \in DOMAIN tasks |->
            IF j \in {k} THEN [tasks[j] EXCEPT !.state = s] ELSE tasks[j]]
  OBVIOUS
<1>2. /\ {k} \in SUBSET DOMAIN tasks
      /\ s \in {"new", "running", "cancelled", "over"} /\ s # "new"
      /\ s = "running" => \A j \in {k} : Live(j)
  OBVIOUS
<1>3. QED  BY ONLY Objects, <1>1, <1>2, Ended

\* task.cancel() of what is not over.
LEMMA AllCancelled ==
  ASSUME Objects, NEW ts, tasks' = Cancelled(ts)
  PROVE  /\ MoreTasks /\ DOMAIN tasks' = DOMAIN tasks
         /\ \A k \in DOMAIN tasks : k \in ts => ~Live(k)'
         /\ \A k \in DOMAIN tasks : k \notin ts => tasks'[k] = tasks[k]
<1> DEFINE open == {k \in DOMAIN tasks : k \in ts /\ tasks[k].state # "over"}
<1>1. tasks' = [k \in DOMAIN tasks |->
            IF k \in open THEN [tasks[k] EXCEPT !.state = "cancelled"] ELSE tasks[k]]
  BY DEF Cancelled
<1>2. open \in SUBSET DOMAIN tasks
  OBVIOUS
<1>3. /\ MoreTasks /\ DOMAIN tasks' = DOMAIN tasks
      /\ \A k \in open : tasks'[k].state = "cancelled"
  <2> HIDE DEF open
  <2> QED  BY <1>1, <1>2, Ended
<1>4. \A k \in DOMAIN tasks : k \notin open => tasks'[k] = tasks[k]
  BY <1>1
<1>5. ASSUME NEW k \in DOMAIN tasks, k \in ts PROVE ~Live(k)'
  <2>1. CASE k \in open
    BY <1>3, <2>1 DEF Live
  <2>2. CASE k \notin open
    BY <1>4, <1>5, <2>2 DEF Live
  <2>3. QED  BY <2>1, <2>2
<1>6. QED  BY <1>3, <1>4, <1>5

LEMMA Bounds == MaxInsts \in Nat /\ MaxActs \in Nat /\ MaxMessages \in Nat /\ MaxReloads \in Nat
  BY ChannelsAssumption

\* A constructor returns a new object, or raises and leaves everything.
LEMMA Created ==
  ASSUME Objects, NEW n \in Names, NEW conf \in Confs, Creates(n, conf)
  PROVE  /\ MoreInsts /\ channels' \in [Names -> Nat]
         /\ \A m \in Names : m # n => channels'[m] = channels[m]
         /\ \/ /\ n \notin refused' /\ refused' = refused \ {n} /\ acts' = acts
               /\ channels'[n] # 0 /\ channels'[n] \in DOMAIN insts'
               /\ channels'[n] \notin DOMAIN insts /\ channels'[n] \in 1 .. MaxInsts
               /\ insts'[channels'[n]].name = n /\ insts'[channels'[n]].conf = conf
            \/ /\ n \in refused' /\ refused' = refused \cup {n} /\ Act
               /\ insts' = insts /\ channels' = channels
<1>1. /\ Len(insts) \in Nat /\ DOMAIN insts = 1 .. Len(insts)
      /\ insts \in Seq(Inst) /\ Len(insts) <= MaxInsts /\ channels \in [Names -> Nat]
  BY SeqIsFunction DEF Objects
<1>2. CASE /\ Act
           /\ refused' = refused \cup {n}
           /\ UNCHANGED <<insts, channels>>
  BY <1>1, <1>2, InstsStay
<1>3. CASE /\ Len(insts) < MaxInsts
           /\ insts' = Append(insts, [name |-> n, conf |-> conf, on |-> FALSE])
           /\ channels' = [channels EXCEPT ![n] = Len(insts')]
           /\ refused' = refused \ {n}
           /\ UNCHANGED acts
  <2> DEFINE x == [name |-> n, conf |-> conf, on |-> FALSE]
  <2>1. x \in Inst /\ x.name = n /\ x.conf = conf
    BY DEF Inst
  <2>2. insts' = Append(insts, x)
    BY <1>3
  <2> HIDE DEF x
  <2>3. /\ insts' \in Seq(Inst) /\ Len(insts') = Len(insts) + 1
        /\ insts'[Len(insts) + 1] = x
        /\ \A i \in 1 .. Len(insts) : insts'[i] = insts[i]
    BY <1>1, <2>1, <2>2, AppendProperties
  <2>4. DOMAIN insts' = 1 .. Len(insts')
    BY <2>3, SeqIsFunction
  <2>5. MoreInsts
    BY <1>1, <1>3, <2>3, <2>4, Bounds DEF MoreInsts
  <2>6. /\ channels' \in [Names -> Nat] /\ channels'[n] = Len(insts) + 1
        /\ \A m \in Names : m # n => channels'[m] = channels[m]
    BY <1>1, <1>3, <2>3
  <2>7. /\ Len(insts) + 1 \in DOMAIN insts' /\ Len(insts) + 1 \notin DOMAIN insts
        /\ Len(insts) + 1 # 0 /\ Len(insts) + 1 \in 1 .. MaxInsts
    BY <1>1, <1>3, <2>3, <2>4, Bounds
  <2>8. QED  BY <1>3, <2>1, <2>3, <2>5, <2>6, <2>7
<1>4. QED  BY <1>2, <1>3 DEF Creates

\* A new task comes last, and is tracked.
LEMMA TaskStarted ==
  ASSUME Objects, NEW n \in Names, channels'[n] \in 1 .. MaxInsts, StartsTask(n)
  PROVE  /\ MoreTasks /\ tracked' \in [Names -> Nat]
         /\ \A m \in Names : m # n => tracked'[m] = tracked[m]
         /\ tracked'[n] # 0 /\ tracked'[n] \notin DOMAIN tasks
         /\ DOMAIN tasks' = DOMAIN tasks \cup {tracked'[n]}
         /\ tasks'[tracked'[n]].inst = channels'[n]
         /\ \A k \in DOMAIN tasks : tasks'[k] = tasks[k]
<1>1. /\ Len(tasks) \in Nat /\ DOMAIN tasks = 1 .. Len(tasks)
      /\ tasks \in Seq(Task) /\ tracked \in [Names -> Nat]
  BY SeqIsFunction DEF Objects
<1> DEFINE x == [inst |-> channels'[n], state |-> "new"]
<1>2. x \in Task /\ x.inst = channels'[n]
  BY DEF Task
<1>3. tasks' = Append(tasks, x) /\ tracked' = [tracked EXCEPT ![n] = Len(tasks')]
  BY DEF StartsTask
<1> HIDE DEF x
<1>4. /\ tasks' \in Seq(Task) /\ Len(tasks') = Len(tasks) + 1
      /\ tasks'[Len(tasks) + 1] = x
      /\ \A k \in 1 .. Len(tasks) : tasks'[k] = tasks[k]
  BY <1>1, <1>2, <1>3, AppendProperties
<1>5. DOMAIN tasks' = 1 .. Len(tasks')
  BY <1>4, SeqIsFunction
<1>6. MoreTasks
  BY <1>1, <1>4, <1>5 DEF MoreTasks, Live
<1>7. /\ tracked' \in [Names -> Nat] /\ tracked'[n] = Len(tasks) + 1
      /\ \A m \in Names : m # n => tracked'[m] = tracked[m]
  BY <1>1, <1>3, <1>4
<1>8. /\ Len(tasks) + 1 # 0 /\ Len(tasks) + 1 \notin DOMAIN tasks
      /\ DOMAIN tasks' = DOMAIN tasks \cup {Len(tasks) + 1}
  BY <1>1, <1>4, <1>5
<1>9. QED  BY <1>1, <1>2, <1>4, <1>6, <1>7, <1>8

-----------------------------------------------------------------------------
(* Types.                                                                  *)

LEMMA ClosedIsReload == Closed \in Reload /\ Closed.stage = "idle" /\ Closed.todo = {}
  BY ChannelsAssumption DEF Closed, Reload, Sections

\* What the objects do when a step leaves the tables of the manager.
LEMMA ObjectsStay ==
  ASSUME Objects, MoreInsts, MoreTasks, DOMAIN tasks' = DOMAIN tasks,
         channels' = channels, tracked' = tracked
  PROVE  Objects'
<1>1. Moves
  BY DEF Objects, Moves
<1>2. QED  BY <1>1, ObjectsMove

LEMMA BusTypes ==
  ASSUME Types, NEW n \in Names, NEW m \in Names, Publish(n, m) \/ Take \/ Sent \/ SendFails
  PROVE  Types'
<1>1. Objects'
  <2>1. UNCHANGED <<channels, tracked, insts, tasks>>
    BY DEF Publish, Take, Sent, SendFails, Dispatch, manager
  <2>2. QED  BY <2>1 DEF Types, Objects
<1>2. Phases'
  <2>1. UNCHANGED <<file, config, channels, reloads, stop>>
    BY DEF Publish, Take, Sent, SendFails, Dispatch, manager
  <2>2. QED  BY <2>1 DEF Types, Phases, Busy, Running
<1>3. Bus'
  <2>1. /\ outbound \in Seq(Message) /\ messages \in 0 .. MaxMessages /\ acts \in 0 .. MaxActs
        /\ notices \in [1 .. MaxMessages -> Nat]
        /\ insts' = insts /\ overlapped' = overlapped /\ refused' = refused
    BY DEF Types, Bus, Publish, Take, Sent, SendFails, Dispatch, manager
  <2>2. Idle.state = "idle" /\ Idle.inst = 0
    BY DEF Idle
  <2>3. Len(insts) \in Nat
    BY SeqIsFunction DEF Types, Objects
  <2>4. CASE Publish(n, m)
    <3> DEFINE x == [id |-> messages', to |-> n, origin |-> m, notice |-> FALSE]
    <3>1. messages' \in 1 .. MaxMessages /\ acts' \in 0 .. MaxActs
      BY <2>1, <2>4, Bounds DEF Publish, Act
    <3>2. x \in Message
      BY <3>1 DEF Message
    <3>3. outbound' = Append(outbound, x)
      BY <2>4 DEF Publish
    <3>4. outbound' \in Seq(Message)
      BY <2>1, <3>2, <3>3, AppendProperties
    <3>5. UNCHANGED <<sending, notices>>
      BY <2>4 DEF Publish
    <3>6. QED  BY <2>1, <3>1, <3>4, <3>5 DEF Types, Bus
  <2>5. CASE Take
    <3>1. outbound # <<>> /\ outbound' = Tail(outbound) /\ UNCHANGED <<messages, notices, acts>>
      BY <2>5 DEF Take, Left
    <3>2. outbound' \in Seq(Message) /\ Head(outbound) \in Message
      BY <2>1, <3>1, HeadTailProperties
    <3> DEFINE i == channels[Head(outbound).to]
               x == [state |-> "send", inst |-> i, msg |-> Head(outbound)]
    <3>3. i \in 0 .. Len(insts)
      <4>1. Head(outbound).to \in Names
        BY <3>2 DEF Message
      <4>2. DOMAIN insts = 1 .. Len(insts) /\ channels \in [Names -> Nat]
        BY SeqIsFunction DEF Types, Objects
      <4>3. \A c \in Names : channels[c] \in 0 .. Len(insts)
        BY <2>3, <4>2 DEF Types, Objects
      <4>4. QED  BY <4>1, <4>3
    <3>4. sending' = Idle \/ sending' = x
      BY <2>5 DEF Take
    <3>5. x.state = "send" /\ x.inst = i /\ x.msg \in Message
      BY <3>2
    <3> HIDE DEF x, i
    <3>6. QED  BY <2>1, <2>2, <2>3, <3>1, <3>2, <3>3, <3>4, <3>5 DEF Types, Bus
  <2>6. CASE Sent
    BY <2>1, <2>2, <2>3, <2>6 DEF Types, Bus, Sent
  <2>7. CASE SendFails
    <3>1. sending.msg \in Message /\ acts' \in 0 .. MaxActs /\ sending' = Idle /\ messages' = messages
      BY <2>1, <2>7, Bounds DEF SendFails, Act, Types, Bus
    <3>2. Notice(sending.msg) \in Message
      BY <3>1 DEF Notice, Message
    <3>3. outbound' \in Seq(Message)
      BY <2>1, <2>7, <3>2, AppendProperties DEF SendFails
    <3>4. notices' \in [1 .. MaxMessages -> Nat]
      <4> DEFINE m1 == sending.msg.id
      <4>1. m1 \in 1 .. MaxMessages
        BY <3>1 DEF Message
      <4>2. notices' = notices \/ notices' = [notices EXCEPT ![m1] = @ + 1]
        BY <2>7 DEF SendFails
      <4> HIDE DEF m1
      <4>3. notices[m1] + 1 \in Nat
        BY <2>1, <4>1
      <4>4. QED  BY <2>1, <4>1, <4>2, <4>3
    <3>5. QED  BY <2>1, <2>2, <2>3, <3>1, <3>3, <3>4 DEF Types, Bus
  <2>8. QED  BY <2>4, <2>5, <2>6, <2>7
<1>4. QED  BY <1>1, <1>2, <1>3 DEF Types

\* What the bus holds when a step leaves it.
LEMMA BusStays ==
  ASSUME Types, MoreInsts, UNCHANGED bus,
         acts' \in 0 .. MaxActs, overlapped' \in BOOLEAN, refused' \subseteq Names
  PROVE  Bus'
<1>1. Len(insts) \in Nat /\ DOMAIN insts = 1 .. Len(insts)
  BY SeqIsFunction DEF Types, Objects
<1>2. Len(insts') \in Nat /\ DOMAIN insts' = 1 .. Len(insts')
  BY SeqIsFunction DEF MoreInsts
<1>3. DOMAIN insts \subseteq DOMAIN insts'
  BY DEF MoreInsts
<1>4. Len(insts) <= Len(insts')
  BY <1>1, <1>2, <1>3
<1>5. sending'.inst \in 0 .. Len(insts')
  BY <1>1, <1>2, <1>4 DEF Types, Bus, bus
<1>6. QED  BY <1>5 DEF Types, Bus, bus

\* What the phases are when a step leaves them and drops no channel.
LEMMA PhasesStay ==
  ASSUME Types, UNCHANGED <<file, config, reloads, stop>>,
         stop.stage = "starting" => channels' = channels
  PROVE  Phases'
<1>1. stop.stage = "starting" => stop.todo \subseteq Running'
  BY DEF Types, Phases, Running
<1>2. QED  BY <1>1 DEF Types, Phases, Busy

LEMMA TaskTypes ==
  ASSUME Types, NEW k \in DOMAIN tasks, TaskSteps(k) \/ TaskRaises(k)
  PROVE  Types' /\ MoreInsts /\ MoreTasks
<1>1. /\ UNCHANGED <<channels, tracked, bus, file, config, reloads, stop, refused, overlapped>>
      /\ acts' \in 0 .. MaxActs
  BY Bounds DEF TaskSteps, TaskRuns, TaskEnds, TaskRaises, TaskIsOver, Act, Types, Bus
<1>2. MoreTasks /\ DOMAIN tasks' = DOMAIN tasks
  <2>1. CASE TaskRuns(k)
    BY <2>1, OneEnded DEF TaskRuns, Live, Types
  <2>2. CASE TaskIsOver(k)
    BY <2>2, OneEnded DEF TaskIsOver, Types
  <2>3. QED  BY <2>1, <2>2 DEF TaskSteps, TaskEnds, TaskRaises
<1>3. MoreInsts
  <2>1. CASE TaskRuns(k)
    <3>1. tasks[k].inst \in DOMAIN insts /\ insts' = [insts EXCEPT ![tasks[k].inst].on = TRUE]
      BY <2>1 DEF TaskRuns, Types, Objects
    <3>2. QED  BY <3>1, Switched DEF Types
  <2>2. CASE TaskIsOver(k)
    BY <2>2, InstsStay DEF TaskIsOver, Types
  <2>3. QED  BY <2>1, <2>2 DEF TaskSteps, TaskEnds, TaskRaises
<1>4. Objects'
  BY <1>1, <1>2, <1>3, ObjectsStay DEF Types
<1>5. Phases'
  BY <1>1, PhasesStay
<1>6. Bus'
  BY <1>1, <1>3, BusStays DEF Types, Bus
<1>7. QED  BY <1>2, <1>3, <1>4, <1>5, <1>6 DEF Types

\* A new channel in the table.
LEMMA CreatedObjects ==
  ASSUME Types, NEW n \in Names, NEW conf \in Confs, Creates(n, conf),
         UNCHANGED <<tasks, tracked>>
  PROVE  Objects'
<1>1. MoreInsts /\ MoreTasks
  BY Created, TasksStay DEF Types
<1>2. \A m \in Names :
        \/ channels'[m] \in {0, channels[m]}
        \/ channels'[m] \in DOMAIN insts' /\ insts'[channels'[m]].name = m
  BY Created DEF Types
<1>3. channels' \in [Names -> Nat]
  BY Created DEF Types
<1>4. Moves
  BY <1>1, <1>2, <1>3 DEF Moves, Types, Objects
<1>5. QED  BY <1>4, ObjectsMove DEF Types

LEMMA CreatedRest ==
  ASSUME Types, NEW n \in Names, NEW conf \in Confs, Creates(n, conf)
  PROVE  acts' \in 0 .. MaxActs /\ refused' \subseteq Names
<1>1. acts' = acts \/ Act
  BY Created DEF Types
<1>2. refused' \subseteq refused \cup {n}
  BY Created DEF Types
<1>3. QED  BY <1>1, <1>2, Bounds DEF Types, Bus, Act

\* The steps of the start leave the reloads alone.
LEMMA StartPhases ==
  ASSUME Types, NEW next \in Stage, Boot(next),
         next.stage \in {"init", "starting"} => \A r \in Reloads : ~Busy(r),
         next.stage # "down",
         next.stage = "starting" => next.todo \subseteq Running',
         next.stage = "init" => next.todo \subseteq stop.todo /\ stop.stage = "init"
  PROVE  Phases' /\ overlapped' \in BOOLEAN
  BY DEF Types, Phases, Busy, Boot, Bus

Stages == {"init", "booting", "starting", "serving", "cancel", "each", "down"}

LEMMA StageTo ==
  ASSUME NEW c \in Stage, NEW s \in Stages
  PROVE  /\ [c EXCEPT !.stage = s] \in Stage /\ [c EXCEPT !.stage = s].stage = s
         /\ [c EXCEPT !.stage = s].todo = c.todo
  BY DEF Stage, Stages

LEMMA StageLess ==
  ASSUME NEW c \in Stage, NEW n
  PROVE  /\ [c EXCEPT !.todo = @ \ {n}] \in Stage
         /\ [c EXCEPT !.todo = @ \ {n}].todo = c.todo \ {n}
         /\ [c EXCEPT !.todo = @ \ {n}].stage = c.stage
  BY DEF Stage

LEMMA InitChannelTypes ==
  ASSUME Types, NEW n \in Names, InitChannel(n) PROVE Types'
<1>1. /\ stop.stage = "init" /\ n \in stop.todo /\ Creates(n, file[n])
      /\ UNCHANGED <<tracked, tasks, bus>>
  BY DEF InitChannel, First
<1>2. file[n] \in Confs /\ stop \in Stage /\ \A r \in Reloads : ~Busy(r)
  BY <1>1 DEF Types, Phases, Sections
<1> DEFINE next == [stop EXCEPT !.todo = @ \ {n}]
<1>3. Boot(next)
  BY DEF InitChannel
<1>4. next \in Stage /\ next.stage = "init" /\ next.todo \subseteq stop.todo
  BY <1>1, <1>2, StageLess
<1> HIDE DEF next
<1>5. Phases' /\ overlapped' \in BOOLEAN
  BY <1>1, <1>2, <1>3, <1>4, StartPhases
<1>6. Objects' /\ MoreInsts
  BY <1>1, <1>2, Created, CreatedObjects DEF Types
<1>7. Bus'
  BY <1>1, <1>2, <1>5, <1>6, CreatedRest, BusStays
<1>8. QED  BY <1>5, <1>6, <1>7 DEF Types

LEMMA ListensTypes == ASSUME Types, Listens PROVE Types'
<1> DEFINE next == [stop EXCEPT !.stage = "booting"]
<1>1. Boot(next) /\ UNCHANGED <<channels, tracked, insts, tasks, refused, bus, acts>>
  BY DEF Listens
<1>2. next \in Stage /\ next.stage = "booting"
  BY StageTo DEF Types, Phases, Stages
<1> HIDE DEF next
<1>3. Phases' /\ overlapped' \in BOOLEAN
  BY <1>1, <1>2, StartPhases
<1>4. Objects' /\ Bus'
  BY <1>1, <1>3, BusStays, InstsStay DEF Types, Objects, Bus
<1>5. QED  BY <1>3, <1>4 DEF Types

LEMMA StartAllTypes == ASSUME Types, StartAll PROVE Types'
<1> DEFINE next == [stop EXCEPT !.stage = "starting", !.todo = Running]
<1>1. /\ Boot(next) /\ UNCHANGED <<channels, tracked, insts, tasks, refused, acts>>
      /\ UNCHANGED <<outbound, messages, notices>>
      /\ sending' \in {sending, Idle}
      /\ \A r \in Reloads : ~Busy(r)
  BY DEF StartAll, Quiet, Busy
<1>2. next \in Stage /\ next.stage = "starting" /\ next.todo = Running
  <2>1. stop \in Stage /\ Running \in SUBSET Names /\ "starting" \in Stages
    BY DEF Types, Phases, Running, Stages
  <2>2. ASSUME NEW ns \in SUBSET Names
        PROVE  LET x == [stop EXCEPT !.stage = "starting", !.todo = ns]
               IN  x \in Stage /\ x.stage = "starting" /\ x.todo = ns
    BY <2>1 DEF Stage
  <2>3. QED  BY <2>1, <2>2
<1> HIDE DEF next
<1>3. Running' = Running
  BY <1>1 DEF Running
<1>4. Phases' /\ overlapped' \in BOOLEAN
  BY <1>1, <1>2, <1>3, StartPhases
<1>5. Objects'
  BY <1>1 DEF Types, Objects
<1>6. Len(insts) \in Nat /\ Idle.state = "idle" /\ Idle.inst = 0
  BY SeqIsFunction DEF Types, Objects, Idle
<1>7. Bus'
  BY <1>1, <1>4, <1>6 DEF Types, Bus
<1>8. QED  BY <1>4, <1>5, <1>7 DEF Types

LEMMA StartChannelTypes ==
  ASSUME Types, NEW n \in Names, StartChannel(n) PROVE Types'
<1>1. /\ stop.stage = "starting" /\ n \in stop.todo
      /\ UNCHANGED <<channels, insts, refused, bus, acts>> /\ StartsTask(n)
  BY DEF StartChannel, First
<1>2. stop \in Stage /\ (\A r \in Reloads : ~Busy(r)) /\ n \in Running /\ stop.todo \subseteq Running
  BY <1>1 DEF Types, Phases
<1> DEFINE next == [stop EXCEPT !.todo = @ \ {n}]
<1>3. Boot(next)
  BY DEF StartChannel
<1>4. next \in Stage /\ next.stage = "starting" /\ next.todo \subseteq Running'
  BY <1>1, <1>2, StageLess DEF Running
<1> HIDE DEF next
<1>5. Phases' /\ overlapped' \in BOOLEAN
  BY <1>2, <1>3, <1>4, StartPhases
<1>6. channels'[n] \in DOMAIN insts /\ channels'[n] \in 1 .. MaxInsts
  BY <1>1, <1>2, SeqIsFunction, Bounds DEF Types, Objects, Running
<1>7. Objects'
  <2>1. MoreInsts
    BY <1>1, InstsStay DEF Types
  <2>2. Moves
    <3>1. /\ MoreTasks /\ tracked' \in [Names -> Nat] /\ tracked'[n] \in DOMAIN tasks'
          /\ DOMAIN tasks' = DOMAIN tasks \cup {tracked'[n]}
          /\ tasks'[tracked'[n]].inst = channels[n]
          /\ \A m \in Names : m # n => tracked'[m] = tracked[m]
      BY <1>1, <1>6, TaskStarted DEF Types
    <3>2. channels' \in [Names -> Nat] /\ channels' = channels /\ insts' = insts
      BY <1>1 DEF Types, Objects
    <3>3. QED  BY <1>1, <1>6, <2>1, <3>1, <3>2 DEF Moves
  <2>3. QED  BY <2>2, ObjectsMove DEF Types
<1>8. Bus'
  BY <1>1, <1>5, BusStays, InstsStay DEF Types, Bus
<1>9. QED  BY <1>5, <1>7, <1>8 DEF Types

LEMMA ServesTypes == ASSUME Types, Serves PROVE Types'
<1> DEFINE next == [stop EXCEPT !.stage = "serving"]
<1>1. Boot(next) /\ UNCHANGED <<channels, tracked, insts, tasks, refused, bus, acts>>
  BY DEF Serves
<1>2. next \in Stage /\ next.stage = "serving"
  BY StageTo DEF Types, Phases, Stages
<1> HIDE DEF next
<1>3. Phases' /\ overlapped' \in BOOLEAN
  BY <1>1, <1>2, StartPhases
<1>4. Objects' /\ Bus'
  BY <1>1, <1>3, BusStays, InstsStay DEF Types, Objects, Bus
<1>5. QED  BY <1>3, <1>4 DEF Types

\* A reload takes its next step.
LEMMA ReloadGoes ==
  ASSUME Types, NEW r \in Reloads, NEW next \in Reload,
         reloads' = [reloads EXCEPT ![r] = next], UNCHANGED stop,
         file' \in Sections, config' \in Sections,
         next.stage \in {"task", "pop"} => next.cur \in Names,
         next.stage \in {"pick", "pop", "start"} =>
            stop.stage \notin {"init", "starting", "down"},
         next.stage = "start" => \A n \in next.todo : next.cfg[n] # Off,
         stop.stage = "starting" => channels' = channels,
         stop.stage = "init" => file' = file
  PROVE  Phases'
<1>1. /\ reloads' \in [Reloads -> Reload] /\ reloads'[r] = next
      /\ \A q \in Reloads : q # r => reloads'[q] = reloads[q]
  BY DEF Types, Phases
<1>2. stop.stage = "starting" => stop.todo \subseteq Running'
  BY DEF Types, Phases, Running
<1>3. ASSUME NEW q \in Reloads
      PROVE  /\ reloads'[q].stage \in {"task", "pop"} => reloads'[q].cur \in Names
             /\ stop.stage \in {"init", "starting", "down"} => ~Busy(q)'
             /\ reloads'[q].stage = "start" =>
                    \A n \in reloads'[q].todo : reloads'[q].cfg[n] # Off
  <2>1. CASE q = r
    BY <1>1, <2>1 DEF Busy
  <2>2. CASE q # r
    BY <1>1, <2>2 DEF Busy, Types, Phases
  <2>3. QED  BY <2>1, <2>2
<1>4. QED  BY <1>1, <1>2, <1>3 DEF Types, Phases

\* A reload does not touch the bus.
LEMMA ReloadingTypes ==
  ASSUME Types, NEW r \in Reloads, NEW next \in Reload, Reloading(r, next),
         MoreInsts, Objects',
         acts' \in 0 .. MaxActs, refused' \subseteq Names, config' \in Sections,
         next.stage \in {"task", "pop"} => next.cur \in Names,
         next.stage \in {"pick", "pop", "start"} =>
            stop.stage \notin {"init", "starting", "down"},
         next.stage = "start" => \A n \in next.todo : next.cfg[n] # Off,
         stop.stage = "starting" => channels' = channels
  PROVE  Types'
<1>1. /\ reloads' = [reloads EXCEPT ![r] = next] /\ stop' = stop /\ file' = file
      /\ UNCHANGED bus /\ overlapped' = overlapped
  BY DEF Reloading
<1>2. Phases'
  BY <1>1, ReloadGoes DEF Types, Phases
<1>3. Bus'
  BY <1>1, BusStays DEF Types, Bus
<1>4. QED  BY <1>2, <1>3 DEF Types

LEMMA ManagerStays ==
  ASSUME Types, UNCHANGED manager
  PROVE  Objects' /\ MoreInsts /\ MoreTasks /\ refused' \subseteq Names /\ config' \in Sections
  BY InstsStay, TasksStay DEF Types, Objects, Bus, Phases, manager

LEMMA SaveAndReloadTypes ==
  ASSUME Types, NEW r \in Reloads, NEW cfg \in Saves, SaveAndReload(r, cfg)
  PROVE  Types'
<1>1. /\ stop.stage \in {"booting", "serving"} /\ Act /\ file' = cfg
      /\ UNCHANGED <<manager, stop, bus>> /\ overlapped' \in BOOLEAN
  BY DEF SaveAndReload, Types, Bus
<1> DEFINE next == [reloads[r] EXCEPT !.stage = "load"]
<1>2. reloads' = [reloads EXCEPT ![r] = next]
  BY DEF SaveAndReload
<1>3. ASSUME NEW c \in Reload
      PROVE  [c EXCEPT !.stage = "load"] \in Reload /\ [c EXCEPT !.stage = "load"].stage = "load"
  BY DEF Reload
<1>4. next \in Reload /\ next.stage = "load"
  BY <1>3 DEF Types, Phases
<1> HIDE DEF next
<1>5. cfg \in Sections
  BY ChannelsAssumption DEF Sections
<1>6. acts' \in 0 .. MaxActs
  BY <1>1, Bounds DEF Act, Types, Bus
<1>7. Phases'
  BY <1>1, <1>2, <1>4, <1>5, ManagerStays, ReloadGoes DEF manager
<1>8. Bus'
  BY <1>1, <1>6, ManagerStays, BusStays
<1>9. QED  BY <1>1, <1>7, <1>8, ManagerStays DEF Types

LEMMA ReloadReadsTypes ==
  ASSUME Types, NEW r \in Reloads, ReloadReads(r) PROVE Types'
<1> DEFINE next == [reloads[r] EXCEPT !.stage = "agent", !.cfg = file]
<1>1. Reloading(r, next) /\ UNCHANGED <<manager, acts>>
  BY DEF ReloadReads
<1>2. ASSUME NEW c \in Reload, NEW s \in Sections
      PROVE  LET x == [c EXCEPT !.stage = "agent", !.cfg = s]
             IN  x \in Reload /\ x.stage = "agent"
  BY DEF Reload
<1>3. next \in Reload /\ next.stage = "agent"
  BY <1>2 DEF Types, Phases
<1> HIDE DEF next
<1>4. acts' \in 0 .. MaxActs /\ channels' = channels
  BY <1>1 DEF Types, Bus, manager
<1>5. QED  BY <1>1, <1>3, <1>4, ManagerStays, ReloadingTypes

LEMMA ReloadFailsTypes ==
  ASSUME Types, NEW r \in Reloads, ReloadFails(r) PROVE Types'
<1>1. Reloading(r, Closed) /\ UNCHANGED manager /\ Act
  BY DEF ReloadFails
<1>2. acts' \in 0 .. MaxActs /\ channels' = channels
  BY <1>1, Bounds DEF Types, Bus, manager, Act
<1>3. QED  BY <1>1, <1>2, ManagerStays, ReloadingTypes, ClosedIsReload

LEMMA ReconfigureTypes ==
  ASSUME Types, NEW r \in Reloads, Reconfigure(r) PROVE Types'
<1> DEFINE ns == ToStop(reloads[r].cfg)
           next == [reloads[r] EXCEPT !.stage = "pick", !.todo = ns]
<1>1. Reloading(r, next) /\ UNCHANGED <<manager, acts>> /\ Quiet
  BY DEF Reconfigure
<1>2. ns \in SUBSET Names
  BY DEF ToStop, Running
<1> HIDE DEF ns
<1>3. ASSUME NEW c \in Reload
      PROVE  LET x == [c EXCEPT !.stage = "pick", !.todo = ns]
             IN  x \in Reload /\ x.stage = "pick"
  BY <1>2 DEF Reload
<1>4. next \in Reload /\ next.stage = "pick"
  BY <1>3 DEF Types, Phases
<1> HIDE DEF next
<1>5. /\ acts' \in 0 .. MaxActs /\ channels' = channels
      /\ stop.stage \notin {"init", "starting", "down"}
  BY <1>1 DEF Types, Bus, manager, Quiet
<1>6. QED  BY <1>1, <1>4, <1>5, ManagerStays, ReloadingTypes

LEMMA BusyIsLate ==
  ASSUME Types, NEW r \in Reloads, Busy(r)
  PROVE  stop.stage \notin {"init", "starting", "down"}
  BY DEF Types, Phases

\* The task is popped and cancelled.
LEMMA PickTaskTypes ==
  ASSUME Types, NEW r \in Reloads, NEW n \in Names, PickTask(r, n)
  PROVE  /\ Types' /\ MoreInsts /\ MoreTasks /\ DOMAIN tasks' = DOMAIN tasks
         /\ \A k \in DOMAIN tasks : IF k = tracked[n] THEN ~Live(k)' ELSE tasks'[k] = tasks[k]
         /\ tracked' = [tracked EXCEPT ![n] = 0]
<1> DEFINE k == tracked[n]
           s == IF Over(k) THEN "pop" ELSE "task"
           next == [reloads[r] EXCEPT !.stage = s, !.todo = @ \ {n}, !.cur = n, !.task = k]
<1>1. /\ Reloading(r, next) /\ UNCHANGED <<config, channels, insts, refused, acts>>
      /\ tracked' = [tracked EXCEPT ![n] = 0] /\ tasks' = Cancelled({k})
      /\ reloads[r].stage = "pick"
  BY DEF PickTask, TaskDropped
<1>2. k \in Nat /\ s \in {"pop", "task"}
  BY DEF Types, Objects
<1> HIDE DEF k, s
<1>3. ASSUME NEW c \in Reload
      PROVE  LET x == [c EXCEPT !.stage = s, !.todo = @ \ {n}, !.cur = n, !.task = k]
             IN  x \in Reload /\ x.stage = s /\ x.cur = n
  BY <1>2 DEF Reload
<1>4. next \in Reload /\ next.stage = s /\ next.cur = n
  BY <1>3 DEF Types, Phases
<1> HIDE DEF next
<1>5. /\ MoreTasks /\ DOMAIN tasks' = DOMAIN tasks
      /\ \A j \in DOMAIN tasks : j = k => ~Live(j)'
      /\ \A j \in DOMAIN tasks : j # k => tasks'[j] = tasks[j]
  BY <1>1, AllCancelled DEF Types
<1>6. MoreInsts
  BY <1>1, InstsStay DEF Types
<1>7. Objects'
  <2>1. Moves
    BY <1>1, <1>5, <1>6 DEF Moves, Types, Objects
  <2>2. QED  BY <2>1, ObjectsMove DEF Types
<1>8. /\ acts' \in 0 .. MaxActs /\ refused' \subseteq Names /\ config' \in Sections
      /\ stop.stage \notin {"init", "starting", "down"}
  BY <1>1, BusyIsLate DEF Types, Bus, Phases, Busy
<1>9. Types'
  BY <1>1, <1>2, <1>4, <1>6, <1>7, <1>8, ReloadingTypes
<1>10. QED  BY <1>1, <1>5, <1>6, <1>9 DEF k

\* The channel leaves the table; it is told to stop.
LEMMA PopChannelTypes ==
  ASSUME Types, NEW r \in Reloads, PopChannel(r)
  PROVE  /\ Types' /\ MoreInsts /\ reloads[r].cur \in Names
         /\ reloads[r].stage \in {"pop", "task"}
<1> DEFINE n == reloads[r].cur
           i == channels[n]
           s == IF i = 0 THEN "pick" ELSE "stop"
           next == [reloads[r] EXCEPT !.stage = s, !.cur = NoName, !.task = 0]
<1>1. /\ Reloading(r, next) /\ UNCHANGED <<config, tracked, tasks, refused, acts>>
      /\ channels' = [channels EXCEPT ![n] = 0]
      /\ insts' = IF i = 0 THEN insts ELSE [insts EXCEPT ![i].on = FALSE]
      /\ reloads[r].stage = "pop" \/ (Quiet /\ reloads[r].stage = "task")
  BY DEF PopChannel
<1>2. n \in Names /\ s \in {"pick", "stop"}
  BY <1>1 DEF Types, Phases
<1>3. i = 0 \/ i \in DOMAIN insts
  BY <1>2 DEF Types, Objects
<1> HIDE DEF s
<1>4. ASSUME NEW c \in Reload
      PROVE  LET x == [c EXCEPT !.stage = s, !.cur = NoName, !.task = 0]
             IN  x \in Reload /\ x.stage = s
  BY <1>2 DEF Reload
<1>5. next \in Reload /\ next.stage = s
  BY <1>4 DEF Types, Phases
<1> HIDE DEF next
<1>6. MoreInsts
  <2>1. CASE i = 0
    BY <1>1, <2>1, InstsStay DEF Types
  <2>2. CASE i # 0
    <3> HIDE DEF i
    <3>1. insts' = [insts EXCEPT ![i].on = FALSE] /\ i \in DOMAIN insts
      BY <1>1, <1>3, <2>2
    <3>2. QED  BY <3>1, Switched DEF Types
  <2>3. QED  BY <2>1, <2>2
<1>7. MoreTasks
  BY <1>1, TasksStay DEF Types
<1>8. Objects'
  <2>1. Moves
    BY <1>1, <1>2, <1>6, <1>7 DEF Moves, Types, Objects
  <2>2. QED  BY <2>1, ObjectsMove DEF Types
<1>9. /\ acts' \in 0 .. MaxActs /\ refused' \subseteq Names /\ config' \in Sections
      /\ stop.stage \notin {"init", "starting", "down"}
  BY <1>1, BusyIsLate DEF Types, Bus, Phases, Busy, Quiet
<1>10. Types'
  BY <1>1, <1>2, <1>5, <1>6, <1>8, <1>9, ReloadingTypes
<1>11. QED  BY <1>1, <1>2, <1>6, <1>10

LEMMA ChannelStoppedTypes ==
  ASSUME Types, NEW r \in Reloads, ChannelStopped(r) PROVE Types'
<1> DEFINE next == [reloads[r] EXCEPT !.stage = "pick"]
<1>1. Reloading(r, next) /\ UNCHANGED <<manager, acts>> /\ Quiet
  BY DEF ChannelStopped
<1>2. ASSUME NEW c \in Reload
      PROVE  [c EXCEPT !.stage = "pick"] \in Reload /\ [c EXCEPT !.stage = "pick"].stage = "pick"
  BY DEF Reload
<1>3. next \in Reload /\ next.stage = "pick"
  BY <1>2 DEF Types, Phases
<1> HIDE DEF next
<1>4. /\ acts' \in 0 .. MaxActs /\ channels' = channels
      /\ stop.stage \notin {"init", "starting", "down"}
  BY <1>1 DEF Types, Bus, manager, Quiet
<1>5. QED  BY <1>1, <1>3, <1>4, ManagerStays, ReloadingTypes

LEMMA AllStoppedTypes ==
  ASSUME Types, NEW r \in Reloads, AllStopped(r) PROVE Types'
<1> DEFINE ns == Enabled(reloads[r].cfg) \ Running
           next == [reloads[r] EXCEPT !.stage = "start", !.todo = ns]
<1>1. Reloading(r, next) /\ UNCHANGED <<manager, acts>> /\ reloads[r].stage = "pick"
  BY DEF AllStopped
<1>2. ns \in SUBSET Names /\ \A n \in ns : reloads[r].cfg[n] # Off
  BY DEF Enabled
<1> HIDE DEF ns
<1>3. ASSUME NEW c \in Reload
      PROVE  LET x == [c EXCEPT !.stage = "start", !.todo = ns]
             IN  x \in Reload /\ x.stage = "start" /\ x.todo = ns /\ x.cfg = c.cfg
  BY <1>2 DEF Reload
<1>4. next \in Reload /\ next.stage = "start" /\ next.todo = ns /\ next.cfg = reloads[r].cfg
  BY <1>3 DEF Types, Phases
<1> HIDE DEF next
<1>5. /\ acts' \in 0 .. MaxActs /\ channels' = channels
      /\ stop.stage \notin {"init", "starting", "down"}
  BY <1>1, BusyIsLate DEF Types, Bus, manager, Busy
<1>6. \A n \in next.todo : next.cfg[n] # Off
  BY <1>2, <1>4
<1>7. QED  BY <1>1, <1>4, <1>5, <1>6, ManagerStays, ReloadingTypes

LEMMA RestartTypes ==
  ASSUME Types, NEW r \in Reloads, NEW n \in Names, Restart(r, n)
  PROVE  Types' /\ MoreInsts /\ MoreTasks
<1> DEFINE next == [reloads[r] EXCEPT !.todo = @ \ {n}]
           conf == reloads[r].cfg[n]
<1>1. /\ Reloading(r, next) /\ UNCHANGED config
      /\ reloads[r].stage = "start" /\ n \in reloads[r].todo
      /\ Creates(n, conf)
      /\ IF n \in refused' THEN UNCHANGED <<tasks, tracked>> ELSE StartsTask(n)
  BY DEF Restart, First
<1>2. conf \in Confs
  BY <1>1 DEF Types, Phases, Reload, Sections
<1> HIDE DEF conf
<1>3. ASSUME NEW c \in Reload
      PROVE  LET x == [c EXCEPT !.todo = @ \ {n}]
             IN  x \in Reload /\ x.stage = c.stage /\ x.todo = c.todo \ {n} /\ x.cfg = c.cfg
  BY DEF Reload
<1>4. /\ next \in Reload /\ next.stage = "start" /\ next.todo = reloads[r].todo \ {n}
      /\ next.cfg = reloads[r].cfg
  BY <1>1, <1>3 DEF Types, Phases
<1> HIDE DEF next
<1>5. MoreInsts
  BY <1>1, <1>2, Created DEF Types
<1>6. Objects' /\ MoreTasks
  <2>1. CASE n \in refused'
    BY <1>1, <1>2, <2>1, CreatedObjects, TasksStay DEF Types
  <2>2. CASE n \notin refused'
    <3>1. /\ channels' \in [Names -> Nat]
          /\ channels'[n] \in DOMAIN insts' /\ channels'[n] \in 1 .. MaxInsts
          /\ insts'[channels'[n]].name = n
          /\ \A m \in Names : m # n => channels'[m] = channels[m]
      BY <1>1, <1>2, <2>2, Created DEF Types
    <3>2. /\ MoreTasks /\ tracked' \in [Names -> Nat] /\ tracked'[n] \in DOMAIN tasks'
          /\ DOMAIN tasks' = DOMAIN tasks \cup {tracked'[n]}
          /\ tasks'[tracked'[n]].inst = channels'[n]
          /\ \A m \in Names : m # n => tracked'[m] = tracked[m]
      BY <1>1, <2>2, <3>1, TaskStarted DEF Types
    <3>3. Moves
      BY <1>5, <3>1, <3>2 DEF Moves
    <3>4. QED  BY <3>2, <3>3, ObjectsMove DEF Types
  <2>3. QED  BY <2>1, <2>2
<1>7. stop.stage \notin {"init", "starting", "down"}
  BY <1>1, BusyIsLate DEF Busy
<1>8. /\ acts' \in 0 .. MaxActs /\ refused' \subseteq Names /\ config' \in Sections
  BY <1>1, <1>2, CreatedRest DEF Types, Phases
<1>9. \A m \in next.todo : next.cfg[m] # Off
  BY <1>1, <1>4 DEF Types, Phases
<1>10. Types'
  BY <1>1, <1>4, <1>5, <1>6, <1>7, <1>8, <1>9, ReloadingTypes
<1>11. QED  BY <1>5, <1>6, <1>10

LEMMA ReloadEndsTypes ==
  ASSUME Types, NEW r \in Reloads, ReloadEnds(r) PROVE Types'
<1>1. /\ Reloading(r, Closed) /\ UNCHANGED <<channels, tracked, insts, tasks, refused, acts>>
      /\ config' = reloads[r].cfg
  BY DEF ReloadEnds
<1>2. config' \in Sections
  BY <1>1 DEF Types, Phases, Reload
<1>3. Objects' /\ MoreInsts /\ acts' \in 0 .. MaxActs /\ refused' \subseteq Names
  BY <1>1, InstsStay DEF Types, Objects, Bus
<1>4. QED  BY <1>1, <1>2, <1>3, ReloadingTypes, ClosedIsReload

\* The steps of stop_all.
LEMMA StoppingTypes ==
  ASSUME Types, NEW next \in Stage, Stopping(next),
         next.stage \in {"cancel", "each", "down"},
         next.stage = "down" => \A r \in Reloads : ~Busy(r)
  PROVE  Phases' /\ acts' \in 0 .. MaxActs /\ refused' \subseteq Names
<1>1. Phases'
  BY DEF Types, Phases, Busy, Stopping
<1>2. QED  BY <1>1 DEF Types, Bus, Stopping

LEMMA StopAllTypes == ASSUME Types, StopAll PROVE Types'
<1> DEFINE ks == TrackedTasks
           next == [stop EXCEPT !.stage = "cancel", !.tasks = ks]
<1>1. /\ Stopping(next) /\ UNCHANGED <<channels, tracked, insts, tasks, bus>>
      /\ overlapped' \in BOOLEAN
  BY DEF StopAll, Types, Bus
<1>2. ks \in SUBSET Nat
  BY DEF TrackedTasks, Types, Objects
<1> HIDE DEF ks
<1>3. ASSUME NEW c \in Stage
      PROVE  LET x == [c EXCEPT !.stage = "cancel", !.tasks = ks]
             IN  x \in Stage /\ x.stage = "cancel"
  BY <1>2 DEF Stage
<1>4. next \in Stage /\ next.stage = "cancel"
  BY <1>3 DEF Types, Phases
<1> HIDE DEF next
<1>5. Phases' /\ acts' \in 0 .. MaxActs /\ refused' \subseteq Names
  BY <1>1, <1>4, StoppingTypes
<1>6. Objects' /\ Bus'
  BY <1>1, <1>5, BusStays, InstsStay DEF Types, Objects
<1>7. QED  BY <1>5, <1>6 DEF Types

LEMMA CancelTaskTypes ==
  ASSUME Types, NEW k \in DOMAIN tasks, CancelTask(k)
  PROVE  /\ Types' /\ MoreTasks /\ DOMAIN tasks' = DOMAIN tasks /\ ~Live(k)'
         /\ \A j \in DOMAIN tasks : j # k => tasks'[j] = tasks[j]
         /\ stop'.stage = "cancel" /\ stop'.tasks = stop.tasks \ {k}
<1> DEFINE next == [stop EXCEPT !.tasks = @ \ {k}, !.waits = k]
<1>1. /\ Stopping(next) /\ UNCHANGED <<channels, tracked, insts, bus, overlapped>>
      /\ tasks' = Cancelled({k}) /\ stop.stage = "cancel"
  BY DEF CancelTask
<1>2. k \in Nat
  BY SeqIsFunction DEF Types, Objects
<1>3. ASSUME NEW c \in Stage
      PROVE  LET x == [c EXCEPT !.tasks = @ \ {k}, !.waits = k]
             IN  x \in Stage /\ x.stage = c.stage /\ x.tasks = c.tasks \ {k}
  BY <1>2 DEF Stage
<1>4. next \in Stage /\ next.stage = "cancel" /\ next.tasks = stop.tasks \ {k}
  BY <1>1, <1>3 DEF Types, Phases
<1> HIDE DEF next
<1>5. Phases' /\ acts' \in 0 .. MaxActs /\ refused' \subseteq Names
  BY <1>1, <1>4, StoppingTypes
<1>6. /\ MoreTasks /\ DOMAIN tasks' = DOMAIN tasks /\ ~Live(k)'
      /\ \A j \in DOMAIN tasks : j # k => tasks'[j] = tasks[j]
  BY <1>1, AllCancelled DEF Types
<1>7. Objects' /\ Bus'
  BY <1>1, <1>5, <1>6, BusStays, InstsStay, ObjectsStay DEF Types, Bus
<1>8. stop' = next
  BY <1>1 DEF Stopping
<1>9. QED  BY <1>4, <1>5, <1>6, <1>7, <1>8 DEF Types

LEMMA CancelDispatcherTypes == ASSUME Types, CancelDispatcher PROVE Types'
<1> DEFINE m == Cardinality(Running)
           next == [stop EXCEPT !.stage = "each", !.todo = Running, !.size = m, !.waits = 0]
<1>1. /\ Stopping(next) /\ UNCHANGED <<channels, insts, tasks, overlapped>>
      /\ UNCHANGED <<outbound, messages, notices>>
      /\ tracked' = [n \in Names |-> 0]
      /\ sending' \in {sending, [state |-> "over", inst |-> 0]}
  BY DEF CancelDispatcher
<1>2. m \in Nat /\ Running \in SUBSET Names
  BY ChannelsAssumption, FS_Subset, FS_CardinalityType DEF Running
<1> HIDE DEF m
<1>3. ASSUME NEW c \in Stage, NEW ns \in SUBSET Names
      PROVE  LET x == [c EXCEPT !.stage = "each", !.todo = ns, !.size = m, !.waits = 0]
             IN  x \in Stage /\ x.stage = "each"
  BY <1>2 DEF Stage
<1>4. next \in Stage /\ next.stage = "each"
  BY <1>2, <1>3 DEF Types, Phases
<1> HIDE DEF next
<1>5. Phases' /\ acts' \in 0 .. MaxActs /\ refused' \subseteq Names
  BY <1>1, <1>4, StoppingTypes
<1>6. Objects'
  BY <1>1 DEF Types, Objects
<1>7. Len(insts) \in Nat
  BY SeqIsFunction DEF Types, Objects
<1>8. Bus'
  BY <1>1, <1>5, <1>7 DEF Types, Bus
<1>9. QED  BY <1>5, <1>6, <1>8 DEF Types

LEMMA StopChannelTypes ==
  ASSUME Types, NEW n \in Names, StopChannel(n) PROVE Types' /\ MoreInsts
<1> DEFINE next == [stop EXCEPT !.todo = @ \ {n}]
           i == channels[n]
<1>1. /\ Stopping(next) /\ UNCHANGED <<channels, tracked, tasks, bus, overlapped>>
      /\ stop.stage = "each" /\ n \in Running
      /\ insts' = [insts EXCEPT ![i].on = FALSE]
  BY DEF StopChannel, First
<1>2. next \in Stage /\ next.stage = "each"
  BY <1>1, StageLess DEF Types, Phases
<1>3. i \in DOMAIN insts
  BY <1>1 DEF Types, Objects, Running
<1> HIDE DEF next, i
<1>4. Phases' /\ acts' \in 0 .. MaxActs /\ refused' \subseteq Names
  BY <1>1, <1>2, StoppingTypes
<1>5. MoreInsts
  BY <1>1, <1>3, Switched DEF Types
<1>6. Objects' /\ Bus'
  BY <1>1, <1>4, <1>5, BusStays, TasksStay, ObjectsStay DEF Types, Bus
<1>7. QED  BY <1>4, <1>5, <1>6 DEF Types

LEMMA DownTypes == ASSUME Types, Down PROVE Types'
<1> DEFINE next == [stop EXCEPT !.stage = "down", !.todo = {}]
<1>1. /\ Stopping(next) /\ UNCHANGED <<channels, tracked, insts, tasks, bus, overlapped>>
      /\ \A r \in Reloads : ~Busy(r)
  BY DEF Down, Quiet, Busy
<1>2. ASSUME NEW c \in Stage
      PROVE  LET x == [c EXCEPT !.stage = "down", !.todo = {}]
             IN  x \in Stage /\ x.stage = "down"
  BY DEF Stage
<1>3. next \in Stage /\ next.stage = "down"
  BY <1>2 DEF Types, Phases
<1> HIDE DEF next
<1>4. Phases' /\ acts' \in 0 .. MaxActs /\ refused' \subseteq Names
  BY <1>1, <1>3, StoppingTypes
<1>5. Objects' /\ Bus'
  BY <1>1, <1>4, BusStays, InstsStay DEF Types, Objects, Bus
<1>6. QED  BY <1>4, <1>5 DEF Types

LEMMA TypesInit == Init => Types
<1> SUFFICES ASSUME Init PROVE Types
  OBVIOUS
<1>1. file \in Sections
  BY ChannelsAssumption DEF Init, Sections
<1>2. Objects
  BY Bounds DEF Init, Objects, Running
<1>3. Phases
  BY <1>1, ClosedIsReload DEF Init, Phases, Busy, Stage, Enabled
<1>4. Bus
  <2>1. /\ outbound = <<>> /\ sending.state = "none" /\ sending.inst = 0 /\ insts = <<>>
        /\ messages = 0 /\ acts = 0 /\ overlapped = FALSE /\ refused = {}
        /\ notices \in [1 .. MaxMessages -> Nat]
    BY DEF Init
  <2>2. outbound \in Seq(Message)
    BY <2>1
  <2>3. sending.inst \in 0 .. Len(insts)
    BY <2>1
  <2>4. messages \in 0 .. MaxMessages /\ acts \in 0 .. MaxActs
    BY <2>1, Bounds
  <2>5. QED  BY <2>1, <2>2, <2>3, <2>4 DEF Bus
<1>5. QED  BY <1>2, <1>3, <1>4 DEF Types

LEMMA TypesNext == ASSUME Types, [Next]_vars PROVE Types'
<1>1. CASE UNCHANGED vars
  <2>1. UNCHANGED <<file, manager, reloads, stop, bus, acts, overlapped>>
    BY <1>1 DEF vars
  <2>2. Objects' /\ Phases'
    BY <2>1, PhasesStay, ManagerStays DEF manager
  <2>3. Bus'
    BY <2>1, ManagerStays, BusStays DEF Types, Bus
  <2>4. QED  BY <2>2, <2>3 DEF Types
<1>2. ASSUME NEW k \in DOMAIN tasks, TaskSteps(k) \/ TaskRaises(k) PROVE Types'
  BY <1>2, TaskTypes
<1>3. ASSUME NEW r \in Reloads, ReloadSteps(r) PROVE Types'
  <2>1. ASSUME NEW n \in Names, PickTask(r, n) PROVE Types'
    BY <2>1, PickTaskTypes
  <2>2. ASSUME NEW n \in Names, Restart(r, n) PROVE Types'
    BY <2>2, RestartTypes
  <2>3. QED
    BY <1>3, <2>1, <2>2, ReloadReadsTypes, ReconfigureTypes, PopChannelTypes,
       ChannelStoppedTypes, AllStoppedTypes, ReloadEndsTypes DEF ReloadSteps
<1>4. ASSUME NEW r \in Reloads, ReloadFails(r) PROVE Types'
  BY <1>4, ReloadFailsTypes
<1>5. ASSUME NEW r \in Reloads, NEW cfg \in Saves, SaveAndReload(r, cfg) PROVE Types'
  BY <1>5, SaveAndReloadTypes
<1>6. ASSUME NEW n \in Names, NEW m \in Names, Publish(n, m) PROVE Types'
  BY <1>6, BusTypes
<1>7. CASE DispatcherSteps
  <2>1. \A n \in Names : Types'
    BY <1>7, BusTypes DEF DispatcherSteps
  <2>2. CASE Names = {}
    <3>1. ~SendFails /\ ~Take
      <4>1. Message = {}
        BY <2>2 DEF Message
      <4>2. outbound # <<>> => Head(outbound) \in Message
        BY HeadTailProperties DEF Types, Bus
      <4>3. sending.state # "send"
        BY <4>1 DEF Types, Bus
      <4>4. QED  BY <4>1, <4>2, <4>3 DEF SendFails, Take
    <3>2. ~Sent
      BY <2>2 DEF Sent, Types, Bus, Message
    <3>3. QED  BY <1>7, <3>1, <3>2 DEF DispatcherSteps
  <2>3. QED  BY <2>1, <2>2
<1>8. CASE Starts
  BY <1>8, InitChannelTypes, ListensTypes, StartAllTypes, StartChannelTypes, ServesTypes DEF Starts
<1>9. CASE StopAll
  BY <1>9, StopAllTypes
<1>10. CASE Stops
  BY <1>10, CancelTaskTypes, CancelDispatcherTypes, StopChannelTypes, DownTypes DEF Stops
<1>11. QED
  BY <1>1, <1>2, <1>3, <1>4, <1>5, <1>6, <1>7, <1>8, <1>9, <1>10 DEF Next

LEMMA TypesHold == Spec => []Types
<1>1. Types /\ [Next]_vars => Types'
  BY TypesNext
<1>2. QED  BY <1>1, TypesInit, PTL DEF Spec

LEMMA TypesAreRight == ASSUME Types PROVE TypeOK
<1>1. /\ Len(insts) \in Nat /\ DOMAIN insts = 1 .. Len(insts)
      /\ Len(tasks) \in Nat /\ DOMAIN tasks = 1 .. Len(tasks)
  BY SeqIsFunction DEF Types, Objects
<1>2. channels \in [Names -> 0 .. Len(insts)] /\ tracked \in [Names -> 0 .. Len(tasks)]
  BY <1>1 DEF Types, Objects
<1>3. QED  BY <1>2 DEF TypeOK, Types, Objects, Phases, Bus

\* The channel manager, the gateway's phases and the bus keep their types,
\* for any channels, sections and bounds.
THEOREM ChannelsTypes == Spec => []TypeOK
BY TypesHold, TypesAreRight, PTL

-----------------------------------------------------------------------------
(* Who is told of what cannot be delivered.                                *)

\* A message is taken from the head: what is left are the others.
LEMMA TailHolds ==
  ASSUME NEW S, NEW q \in Seq(S), q # <<>>
  PROVE  /\ Head(q) = q[1] /\ 1 \in DOMAIN q
         /\ \A j \in DOMAIN Tail(q) :
                /\ j + 1 \in DOMAIN q /\ Tail(q)[j] = q[j + 1] /\ j + 1 # 1
                /\ j \in Nat
<1>1. /\ Len(q) \in Nat /\ DOMAIN q = 1 .. Len(q) /\ Len(q) # 0
  BY SeqIsFunction, EmptySeq
<1>2. /\ Tail(q) \in Seq(S) /\ Len(Tail(q)) = Len(q) - 1
      /\ \A j \in 1 .. Len(Tail(q)) : Tail(q)[j] = q[j + 1]
      /\ Head(q) = q[1]
  BY <1>1, HeadTailProperties
<1>3. DOMAIN Tail(q) = 1 .. Len(q) - 1
  BY <1>2, SeqIsFunction
<1>4. QED  BY <1>1, <1>2, <1>3

LEMMA AppendHolds ==
  ASSUME NEW S, NEW q \in Seq(S), NEW x \in S
  PROVE  \A j \in DOMAIN Append(q, x) :
            \/ j \in DOMAIN q /\ Append(q, x)[j] = q[j]
            \/ j = Len(q) + 1 /\ j \notin DOMAIN q /\ Append(q, x)[j] = x
<1>1. /\ Len(q) \in Nat /\ DOMAIN q = 1 .. Len(q)
  BY SeqIsFunction
<1>2. /\ Append(q, x) \in Seq(S) /\ Len(Append(q, x)) = Len(q) + 1
      /\ Append(q, x)[Len(q) + 1] = x
      /\ \A j \in 1 .. Len(q) : Append(q, x)[j] = q[j]
  BY AppendProperties
<1>3. DOMAIN Append(q, x) = 1 .. Len(q) + 1
  BY <1>2, SeqIsFunction
<1>4. QED  BY <1>1, <1>2, <1>3

LEMMA ElementsOf ==
  ASSUME NEW S, NEW q \in Seq(S), NEW j \in DOMAIN q PROVE q[j] \in S
  OBVIOUS

LEMMA ToldPublish ==
  ASSUME Types, Told, NEW n \in Names, NEW m \in Names, Publish(n, m) PROVE Told'
<1> DEFINE x == [id |-> messages', to |-> n, origin |-> m, notice |-> FALSE]
<1>1. /\ messages \in Nat /\ messages' = messages + 1 /\ messages' \in 1 .. MaxMessages
      /\ outbound' = Append(outbound, x) /\ outbound \in Seq(Message)
      /\ sending' = sending /\ notices' = notices
      /\ notices \in [1 .. MaxMessages -> Nat]
  BY Bounds DEF Publish, Types, Bus
<1>2. x \in Message /\ x.id = messages + 1 /\ x.notice = FALSE
  BY <1>1 DEF Message
<1> HIDE DEF x
<1>3. \A j \in DOMAIN outbound' :
            \/ j \in DOMAIN outbound /\ outbound'[j] = outbound[j]
            \/ j \notin DOMAIN outbound /\ j = Len(outbound) + 1 /\ outbound'[j] = x
  BY <1>1, <1>2, AppendHolds
<1>4. \A j \in DOMAIN outbound : outbound[j].id \in Nat /\ outbound[j].id <= messages
  <2>1. ASSUME NEW j \in DOMAIN outbound
        PROVE  outbound[j] \in Message /\ Pending(outbound[j])
    BY <1>1, ElementsOf DEF Told
  <2>2. QED  BY <2>1 DEF Message, Pending, Pends
<1>5. Pends(x, messages', notices')
  <2>1. messages + 1 \in 1 .. MaxMessages /\ messages + 1 > messages
    BY <1>1
  <2>2. notices'[messages + 1] = 0
    BY <1>1, <2>1 DEF Told
  <2>3. QED  BY <1>1, <1>2, <2>2 DEF Pends
<1>7. \A j \in DOMAIN outbound' : Pends(outbound'[j], messages', notices')
  <2>1. ASSUME NEW j \in DOMAIN outbound PROVE Pends(outbound[j], messages', notices')
    <3>1. outbound[j] \in Message /\ Pending(outbound[j])
      BY <1>1, ElementsOf DEF Told
    <3>2. QED  BY <1>1, <3>1 DEF Pending, Pends, Message
  <2>2. ASSUME NEW j \in DOMAIN outbound' PROVE Pends(outbound'[j], messages', notices')
    <3>1. CASE j \in DOMAIN outbound /\ outbound'[j] = outbound[j]
      BY <2>1, <3>1 DEF Pends
    <3>2. CASE outbound'[j] = x
      BY <1>5, <3>2 DEF Pends
    <3>3. QED  BY <1>3, <3>1, <3>2
  <2>3. QED  BY <2>2
<1>8. \A i, j \in DOMAIN outbound' :
            i # j /\ ~outbound'[i].notice /\ ~outbound'[j].notice
            => outbound'[i].id # outbound'[j].id
  BY <1>1, <1>2, <1>3, <1>4 DEF Told
<1>9. sending.state = "send" =>
            /\ Pends(sending.msg, messages', notices')
            /\ \A j \in DOMAIN outbound' :
                    ~sending.msg.notice /\ ~outbound'[j].notice
                    => outbound'[j].id # sending.msg.id
  <2> SUFFICES ASSUME sending.state = "send"
               PROVE  /\ Pends(sending.msg, messages', notices')
                      /\ \A j \in DOMAIN outbound' :
                            ~sending.msg.notice /\ ~outbound'[j].notice
                            => outbound'[j].id # sending.msg.id
    OBVIOUS
  <2>1. sending.msg \in Message /\ Pending(sending.msg)
    BY DEF Types, Bus, Told
  <2>2. sending.msg.id \in Nat /\ sending.msg.id <= messages
    BY <2>1 DEF Pending, Pends, Message
  <2>3. Pends(sending.msg, messages', notices')
    BY <1>1, <2>1 DEF Pending, Pends, Message
  <2>4. QED  BY <1>1, <1>2, <1>3, <2>2, <2>3 DEF Told
<1>10. (\A i \in 1 .. MaxMessages : i > messages' => notices'[i] = 0) /\ OneNoticeEach'
  BY <1>1 DEF Told, OneNoticeEach
<1>11. sending'.state = "send" =>
            /\ Pends(sending'.msg, messages', notices')
            /\ \A j \in DOMAIN outbound' :
                    ~sending'.msg.notice /\ ~outbound'[j].notice
                    => outbound'[j].id # sending'.msg.id
  BY <1>1, <1>9 DEF Pends
<1>12. QED  BY <1>7, <1>8, <1>10, <1>11 DEF Told, Pending

\* Who is told does not depend on what is sent and what is dropped.
LEMMA ToldLess ==
  ASSUME Types, Told, UNCHANGED <<messages, notices>>,
         outbound' = outbound \/ (outbound # <<>> /\ outbound' = Tail(outbound)),
         \/ sending' = sending /\ outbound' = outbound
         \/ sending'.state # "send"
         \/ sending'.msg = Head(outbound) /\ outbound # <<>> /\ outbound' = Tail(outbound)
  PROVE  Told'
<1> DEFINE apart(i, j) == ~outbound[i].notice /\ ~outbound[j].notice
                            => outbound[i].id # outbound[j].id
<1>1. outbound \in Seq(Message)
  BY DEF Types, Bus
<1>2. /\ \A j \in DOMAIN outbound : Pends(outbound[j], messages, notices)
      /\ \A i, j \in DOMAIN outbound : i # j => apart(i, j)
  BY DEF Told, Pending
<1>3. CASE outbound' = outbound
  <2>1. CASE sending' = sending
    BY <1>3, <2>1 DEF Told, Pending, Pends, OneNoticeEach
  <2>2. CASE sending'.state # "send"
    BY <1>3, <2>2 DEF Told, Pending, Pends, OneNoticeEach
  <2>3. CASE outbound # <<>> /\ outbound' = Tail(outbound)
    <3>1. Len(outbound) \in Nat /\ Len(outbound) # 0 /\ Len(outbound') = Len(outbound) - 1
      BY <1>1, <2>3, EmptySeq, HeadTailProperties, SeqIsFunction
    <3>2. QED  BY <1>3, <3>1
  <2>4. QED  BY <2>1, <2>2, <2>3
<1>4. CASE outbound # <<>> /\ outbound' = Tail(outbound) /\ ~(sending' = sending /\ outbound' = outbound)
  <2>1. /\ Head(outbound) = outbound[1] /\ 1 \in DOMAIN outbound
        /\ \A j \in DOMAIN outbound' :
                /\ j + 1 \in DOMAIN outbound /\ outbound'[j] = outbound[j + 1] /\ j + 1 # 1
                /\ j \in Nat
    BY <1>1, <1>4, TailHolds
  <2>2. \A j \in DOMAIN outbound' : Pends(outbound'[j], messages', notices')
    BY <1>2, <2>1
  <2>3. \A i, j \in DOMAIN outbound' :
            i # j /\ ~outbound'[i].notice /\ ~outbound'[j].notice
            => outbound'[i].id # outbound'[j].id
    <3>1. ASSUME NEW i \in DOMAIN outbound', NEW j \in DOMAIN outbound', i # j
          PROVE  apart(i + 1, j + 1)
      <4>1. i + 1 # j + 1
        BY <2>1, <3>1
      <4>2. QED  BY <1>2, <2>1, <4>1
    <3>2. QED  BY <2>1, <3>1
  <2>4. sending'.state = "send" =>
            /\ Pends(sending'.msg, messages', notices')
            /\ \A j \in DOMAIN outbound' :
                    ~sending'.msg.notice /\ ~outbound'[j].notice
                    => outbound'[j].id # sending'.msg.id
    <3> SUFFICES ASSUME sending'.state = "send" 
                 PROVE  /\ Pends(sending'.msg, messages', notices')
                        /\ \A j \in DOMAIN outbound' :
                            ~sending'.msg.notice /\ ~outbound'[j].notice
                            => outbound'[j].id # sending'.msg.id
      OBVIOUS
    <3>1. sending'.msg = outbound[1]
      BY <1>4, <2>1
    <3>2. \A j \in DOMAIN outbound' : apart(j + 1, 1)
      BY <1>2, <2>1
    <3>3. Pends(sending'.msg, messages', notices')
      BY <1>2, <2>1, <3>1
    <3>4. QED  BY <2>1, <3>1, <3>2, <3>3
  <2>5. (\A i \in 1 .. MaxMessages : i > messages' => notices'[i] = 0) /\ OneNoticeEach'
    BY DEF Told, OneNoticeEach
  <2>6. QED  BY <2>2, <2>3, <2>4, <2>5 DEF Told, Pending
<1>5. QED  BY <1>3, <1>4

\* A message that fails is told of for the first time: it is no notice, and no
\* other copy of it is under way.
LEMMA ToldSendFails ==
  ASSUME Types, Told, SendFails PROVE Told'
<1> DEFINE msg == sending.msg
           x == Notice(msg)
<1>1. /\ sending.state = "send" /\ sending' = Idle /\ messages' = messages
      /\ msg \in Message /\ outbound \in Seq(Message)
      /\ notices \in [1 .. MaxMessages -> Nat]
      /\ Pends(msg, messages, notices)
      /\ \A j \in DOMAIN outbound :
            ~msg.notice /\ ~outbound[j].notice => outbound[j].id # msg.id
  BY DEF SendFails, Types, Bus, Told, Pending
<1>2. Idle.state # "send"
  BY DEF Idle
<1>3. CASE msg.origin = msg.to
  <2>1. outbound' = outbound /\ notices' = notices
    BY <1>3 DEF SendFails
  <2>2. QED  BY <1>1, <1>2, <2>1, ToldLess
<1>4. CASE msg.origin # msg.to
  <2>1. outbound' = Append(outbound, x) /\ notices' = [notices EXCEPT ![msg.id] = @ + 1]
    BY <1>4 DEF SendFails
  <2>2. /\ x \in Message /\ x.id = msg.id /\ x.notice = TRUE /\ x.origin = x.to
        /\ msg.id \in 1 .. MaxMessages /\ msg.id <= messages
        /\ msg.notice = FALSE /\ notices[msg.id] = 0
    BY <1>1, <1>4 DEF Notice, Message, Pends
  <2> HIDE DEF x
  <2>3. /\ notices'[msg.id] = 1
        /\ \A i \in 1 .. MaxMessages : i # msg.id => notices'[i] = notices[i]
    <3> HIDE DEF msg
    <3> QED  BY <1>1, <2>1, <2>2
  <2>4. \A j \in DOMAIN outbound' :
            \/ j \in DOMAIN outbound /\ outbound'[j] = outbound[j]
            \/ j \notin DOMAIN outbound /\ outbound'[j] = x
    BY <1>1, <2>1, <2>2, AppendHolds
  <2>5. ASSUME NEW j \in DOMAIN outbound
        PROVE  Pends(outbound[j], messages', notices')
    <3>1. outbound[j] \in Message /\ Pends(outbound[j], messages, notices)
      BY <1>1, ElementsOf DEF Told, Pending
    <3>2. outbound[j].id \in 1 .. MaxMessages /\ outbound[j].notice \in BOOLEAN
      BY <3>1 DEF Message
    <3>3. CASE outbound[j].notice
      BY <1>1, <3>1, <3>3 DEF Pends
    <3>4. CASE ~outbound[j].notice
      <4>1. outbound[j].id # msg.id
        BY <1>1, <2>2, <3>4
      <4>2. QED  BY <1>1, <2>3, <3>1, <3>2, <3>4, <4>1 DEF Pends
    <3>5. QED  BY <3>3, <3>4
  <2>6. Pends(x, messages', notices')
    BY <1>1, <2>2 DEF Pends
  <2>7. \A j \in DOMAIN outbound' : Pends(outbound'[j], messages', notices')
    BY <2>4, <2>5, <2>6
  <2>8. \A i, j \in DOMAIN outbound' :
            i # j /\ ~outbound'[i].notice /\ ~outbound'[j].notice
            => outbound'[i].id # outbound'[j].id
    BY <2>2, <2>4 DEF Told
  <2>9. \A i \in 1 .. MaxMessages : i > messages' => notices'[i] = 0
    <3>1. ASSUME NEW i \in 1 .. MaxMessages, i > messages PROVE i # msg.id
      <4> DEFINE m == msg.id
      <4>1. m <= messages /\ m \in Nat /\ messages \in Nat
        BY <2>2, Bounds DEF Types, Bus
      <4> HIDE DEF m
      <4>2. i # m
        BY <3>1, <4>1
      <4>3. QED  BY <4>2 DEF m
    <3>2. QED  BY <1>1, <2>3, <3>1 DEF Told
  <2>10. OneNoticeEach'
    <3>1. ASSUME NEW i \in 1 .. MaxMessages PROVE notices'[i] <= 1
      BY <2>2, <2>3 DEF Told, OneNoticeEach
    <3>2. QED  BY <3>1 DEF OneNoticeEach
  <2>11. sending'.state # "send"
    BY <1>1, <1>2
  <2>12. QED  BY <2>7, <2>8, <2>9, <2>10, <2>11 DEF Told, Pending
<1>5. QED  BY <1>3, <1>4

LEMMA ToldInit == ASSUME Init PROVE Told
<1>1. outbound = <<>> /\ sending.state = "none" /\ notices = [m \in 1 .. MaxMessages |-> 0]
  BY DEF Init
<1>2. DOMAIN outbound = {}
  BY <1>1
<1>3. QED  BY <1>1, <1>2 DEF Told, OneNoticeEach

LEMMA ToldNext == ASSUME Types, Told, [Next]_vars PROVE Told'
<1>1. CASE UNCHANGED <<outbound, messages, notices, sending>>
  BY <1>1, ToldLess
<1>2. ASSUME NEW n \in Names, NEW m \in Names, Publish(n, m) PROVE Told'
  BY <1>2, ToldPublish
<1>3. CASE Take
  <2> DEFINE i == channels[Head(outbound).to]
             x == [state |-> "send", inst |-> i, msg |-> Head(outbound)]
  <2>1. /\ outbound # <<>> /\ outbound' = Tail(outbound) /\ UNCHANGED <<messages, notices>>
        /\ sending' = Idle \/ sending' = x
    BY <1>3 DEF Take, Left
  <2>2. Idle.state # "send" /\ x.msg = Head(outbound)
    BY DEF Idle
  <2> HIDE DEF x
  <2>3. sending'.state # "send" \/ sending'.msg = Head(outbound)
    BY <2>1, <2>2
  <2>4. QED  BY <2>1, <2>3, ToldLess
<1>4. CASE Sent
  BY <1>4, ToldLess DEF Sent, Idle
<1>5. CASE SendFails
  BY <1>5, ToldSendFails
<1>6. CASE StartAll
  <2>1. UNCHANGED <<outbound, messages, notices>> /\ sending' \in {sending, Idle}
    BY <1>6 DEF StartAll
  <2>2. Idle.state # "send"
    BY DEF Idle
  <2>3. QED  BY <2>1, <2>2, ToldLess
<1>7. CASE CancelDispatcher
  <2>1. /\ UNCHANGED <<outbound, messages, notices>>
        /\ sending' \in {sending, [state |-> "over", inst |-> 0]}
    BY <1>7 DEF CancelDispatcher
  <2>2. QED  BY <2>1, ToldLess
<1>8. CASE UNCHANGED vars
  BY <1>1, <1>8 DEF vars, bus
<1>9. ASSUME NEW k \in DOMAIN tasks, TaskSteps(k) \/ TaskRaises(k) PROVE Told'
  BY <1>1, <1>9 DEF TaskSteps, TaskRuns, TaskEnds, TaskRaises, TaskIsOver, bus
<1>10. ASSUME NEW r \in Reloads, ReloadSteps(r) \/ ReloadFails(r) PROVE Told'
  BY <1>1, <1>10 DEF ReloadSteps, ReloadReads, Reconfigure, PickTask, Restart, PopChannel,
        ChannelStopped, AllStopped, ReloadEnds, ReloadFails, Reloading, bus
<1>11. ASSUME NEW r \in Reloads, NEW cfg \in Saves, SaveAndReload(r, cfg) PROVE Told'
  BY <1>1, <1>11 DEF SaveAndReload, bus
<1>12. CASE Listens \/ Serves \/ \E n \in Names : InitChannel(n) \/ StartChannel(n)
  BY <1>1, <1>12 DEF Listens, Serves, InitChannel, StartChannel, bus
<1>13. CASE StopAll \/ Down \/ (\E k \in DOMAIN tasks : CancelTask(k)) \/ \E n \in Names : StopChannel(n)
  BY <1>1, <1>13 DEF StopAll, Down, CancelTask, StopChannel, bus
<1>14. QED
  BY <1>2, <1>3, <1>4, <1>5, <1>6, <1>7, <1>8, <1>9, <1>10, <1>11, <1>12, <1>13
  DEF Next, DispatcherSteps, Starts, Stops

\* A message that cannot be delivered is reported to where it came from at
\* most once: a report that fails in its turn is not reported, and a message
\* is under way only once (_dispatch_outbound).
THEOREM OneNoticeForEachMessage == Spec => []OneNoticeEach
<1>1. Init => Told
  BY ToldInit
<1>2. Types /\ Told /\ [Next]_vars => Told'
  BY ToldNext
<1>3. Told => OneNoticeEach
  BY DEF Told
<1>4. QED  BY <1>1, <1>2, <1>3, TypesHold, PTL DEF Spec

-----------------------------------------------------------------------------
(* Loops and tables, as long as no reload overlaps.                        *)

\* A task that still runs, its object and its name.
LEMMA LiveIsTracked ==
  ASSUME Types, Tracks, NEW k \in DOMAIN tasks, Live(k)
  PROVE  /\ tasks[k].inst \in DOMAIN insts /\ k # 0
         /\ insts[tasks[k].inst].name \in Names
         /\ channels[insts[tasks[k].inst].name] = tasks[k].inst
         /\ tracked[insts[tasks[k].inst].name] = k
<1>1. tasks[k].inst \in DOMAIN insts /\ k # 0
  BY SeqIsFunction DEF Types, Objects
<1>2. insts[tasks[k].inst] \in Inst
  BY <1>1, ElementsOf DEF Types, Objects
<1>3. insts[tasks[k].inst].name \in Names
  BY <1>2 DEF Inst
<1>4. QED  BY <1>1, <1>3 DEF Tracks, LoopsAreTracked, Live

\* Tasks end and tables lose entries, but not the entry of a task that runs.
LEMMA TracksLose ==
  ASSUME Types, Tracks, MoreInsts, MoreTasks, DOMAIN tasks' = DOMAIN tasks,
         \A n \in Names :
            /\ tracked'[n] \in {0, tracked[n]}
            /\ channels'[n] \in {0, channels[n]}
            /\ channels'[n] # channels[n] => tracked[n] = 0
            /\ tracked'[n] # tracked[n] /\ tracked[n] # 0 =>
                    tasks'[tracked[n]].state \notin {"new", "running"}
  PROVE  Tracks'
<1>1. ASSUME NEW k \in DOMAIN tasks', Live(k)'
      PROVE  LET i == tasks'[k].inst
             IN  channels'[insts'[i].name] = i /\ tracked'[insts'[i].name] = k
  <2>1. k \in DOMAIN tasks /\ Live(k) /\ tasks'[k].inst = tasks[k].inst
    BY <1>1 DEF MoreTasks
  <2> DEFINE i == tasks[k].inst
             n == insts[i].name
  <2>2. i \in DOMAIN insts /\ n \in Names /\ channels[n] = i /\ tracked[n] = k /\ k # 0
    BY <2>1, LiveIsTracked
  <2>3. insts'[i].name = n
    BY <2>2 DEF MoreInsts
  <2>4. tracked'[n] = k
    BY <1>1, <2>2 DEF Live
  <2>5. channels'[n] = i
    BY <2>2
  <2>6. QED  BY <2>1, <2>3, <2>4, <2>5
<1>2. ASSUME NEW n \in Names, tracked'[n] # 0 PROVE tasks'[tracked'[n]].inst = channels'[n]
  <2>1. tracked'[n] = tracked[n] /\ tracked[n] # 0 /\ channels'[n] = channels[n]
    BY <1>2
  <2>2. tracked[n] \in DOMAIN tasks
    BY <2>1 DEF Types, Objects
  <2>3. QED  BY <2>1, <2>2 DEF Tracks, MoreTasks
<1>3. QED  BY <1>1, <1>2 DEF Tracks, LoopsAreTracked, Live

\* A task starts for a channel that none was tracked for.
LEMMA TracksGain ==
  ASSUME Types, Tracks, MoreInsts, NEW n \in Names, tracked[n] = 0 \/ channels[n] = 0,
         \A m \in Names : m # n => channels'[m] = channels[m] /\ tracked'[m] = tracked[m],
         channels'[n] \in DOMAIN insts', insts'[channels'[n]].name = n,
         DOMAIN tasks' = DOMAIN tasks \cup {tracked'[n]},
         tracked'[n] \notin DOMAIN tasks,
         tasks'[tracked'[n]].inst = channels'[n],
         \A k \in DOMAIN tasks : tasks'[k] = tasks[k]
  PROVE  Tracks'
<1>1. ASSUME NEW k \in DOMAIN tasks', Live(k)'
      PROVE  LET i == tasks'[k].inst
             IN  channels'[insts'[i].name] = i /\ tracked'[insts'[i].name] = k
  <2>1. CASE k = tracked'[n]
    BY <2>1
  <2>2. CASE k \in DOMAIN tasks
    <3>1. Live(k) /\ tasks'[k] = tasks[k]
      BY <1>1, <2>2 DEF Live
    <3> DEFINE i == tasks[k].inst
               m == insts[i].name
    <3>2. i \in DOMAIN insts /\ m \in Names /\ channels[m] = i /\ tracked[m] = k /\ k # 0
      BY <2>2, <3>1, LiveIsTracked
    <3>3. insts'[i].name = m
      BY <3>2 DEF MoreInsts
    <3>4. i # 0
      BY <3>2, SeqIsFunction DEF Types, Objects
    <3>5. m # n
      BY <3>2, <3>4
    <3>6. channels'[m] = i /\ tracked'[m] = k
      BY <3>2, <3>5
    <3>7. QED  BY <3>1, <3>3, <3>6
  <2>3. QED  BY <2>1, <2>2
<1>2. ASSUME NEW m \in Names, tracked'[m] # 0 PROVE tasks'[tracked'[m]].inst = channels'[m]
  <2>1. CASE m = n
    BY <2>1
  <2>2. CASE m # n
    <3>1. tracked[m] \in DOMAIN tasks /\ tasks[tracked[m]].inst = channels[m]
      BY <1>2, <2>2 DEF Types, Objects, Tracks
    <3>2. QED  BY <2>2, <3>1
  <2>3. QED  BY <2>1, <2>2
<1>3. QED  BY <1>1, <1>2 DEF Tracks, LoopsAreTracked, Live

\* Where nothing is tracked, nothing runs: channels may come.
LEMMA TracksNone ==
  ASSUME Types, Tracks, MoreInsts, UNCHANGED <<tasks, tracked>>,
         NEW n \in Names, tracked[n] = 0,
         \A m \in Names : m # n => channels'[m] = channels[m]
  PROVE  Tracks'
<1>1. ASSUME NEW k \in DOMAIN tasks', Live(k)'
      PROVE  LET i == tasks'[k].inst
             IN  channels'[insts'[i].name] = i /\ tracked'[insts'[i].name] = k
  <2>1. k \in DOMAIN tasks /\ Live(k)
    BY <1>1 DEF Live
  <2> DEFINE i == tasks[k].inst
             m == insts[i].name
  <2>2. i \in DOMAIN insts /\ m \in Names /\ channels[m] = i /\ tracked[m] = k /\ k # 0
    BY <2>1, LiveIsTracked
  <2>3. m # n /\ insts'[i].name = m
    BY <2>2 DEF MoreInsts
  <2>4. QED  BY <2>2, <2>3
<1>2. ASSUME NEW m \in Names, tracked'[m] # 0 PROVE tasks'[tracked'[m]].inst = channels'[m]
  BY <1>2 DEF Tracks
<1>3. QED  BY <1>1, <1>2 DEF Tracks, LoopsAreTracked, Live

\* What fits goes on fitting while objects only start and stop.
LEMMA FitsOn ==
  ASSUME Types, MoreInsts, NEW n \in Names, NEW conf, NEW chan,
         chan[n] = channels[n], FitsIn(channels, insts, refused, n, conf)
  PROVE  FitsIn(chan, insts', refused, n, conf)
  BY DEF Types, Objects, MoreInsts, FitsIn

-----------------------------------------------------------------------------
(* The steps of a reload.                                                  *)

\* A reload under way has the manager for itself.
LEMMA ReloadApart ==
  ASSUME Types, Apart, NEW r \in Reloads, reloads[r].stage # "idle"
  PROVE  /\ Serving /\ \A q \in Reloads : q # r => reloads[q] = Closed
         /\ Underway(reloads[r], channels, tracked, insts, refused, config)
         /\ Spared(reloads[r], channels, insts, refused, config)
<1>1. reloads[r] # Closed
  BY ClosedIsReload
<1>2. Serving /\ \A q \in Reloads : q # r => reloads[q] = Closed
  BY <1>1 DEF Apart, Alone
<1>3. ASSUME NEW n \in Names, Spares(r, n)
      PROVE  FitsIn(channels, insts, refused, n, config[n])
  <2>1. \A q \in Reloads : Spares(q, n)
    BY <1>2, <1>3, ClosedIsReload DEF Spares
  <2>2. QED  BY <1>2, <2>1 DEF Apart, Staged, Serving, Fits
<1>4. Spared(reloads[r], channels, insts, refused, config)
  BY <1>3 DEF Spared, Spares
<1>5. QED  BY <1>2, <1>4 DEF Apart

LEMMA ApartReload ==
  ASSUME Types, Apart, NEW r \in Reloads, reloads[r].stage # "idle",
         NEW next \in Reload, Reloading(r, next), Tracks',
         Underway(next, channels', tracked', insts', refused', config'),
         Spared(next, channels', insts', refused', config')
  PROVE  Apart'
<1>1. Serving /\ \A q \in Reloads : q # r => reloads[q] = Closed
  BY ReloadApart
<1>2. /\ reloads'[r] = next /\ \A q \in Reloads : q # r => reloads'[q] = Closed
      /\ stop' = stop
  BY <1>1 DEF Reloading, Types, Phases
<1>3. Alone'
  BY <1>1, <1>2 DEF Alone, Serving
<1>4. Staged'
  <2>1. stop'.stage = "serving"
    BY <1>1, <1>2 DEF Serving
  <2>2. ASSUME NEW n \in Names, \A q \in Reloads : Spares(q, n)'
        PROVE  FitsIn(channels', insts', refused', n, config'[n])
    BY <1>2, <2>2 DEF Spared, Spares
  <2>3. QED  BY <2>1, <2>2 DEF Staged, Fits
<1>5. ASSUME NEW q \in Reloads
      PROVE  Underway(reloads'[q], channels', tracked', insts', refused', config')
  <2>1. CASE q = r
    BY <1>2, <2>1
  <2>2. CASE q # r
    BY <1>2, <2>2, ClosedIsReload DEF Underway
  <2>3. QED  BY <2>1, <2>2
<1>6. QED  BY <1>3, <1>4, <1>5 DEF Apart

\* Where a reload only waits, tables and objects stay.
LEMMA TracksStay ==
  ASSUME Types, Tracks, UNCHANGED <<channels, tracked, insts, tasks>> PROVE Tracks'
<1>1. MoreInsts /\ MoreTasks
  BY InstsStay, TasksStay DEF Types
<1>2. QED  BY <1>1, TracksLose

LEMMA ApartReloadReads ==
  ASSUME Types, Apart, NEW r \in Reloads, ReloadReads(r) PROVE Apart'
<1> DEFINE next == [reloads[r] EXCEPT !.stage = "agent", !.cfg = file]
<1>1. Reloading(r, next) /\ UNCHANGED manager /\ reloads[r].stage = "load"
  BY DEF ReloadReads
<1>2. ASSUME NEW c \in Reload, NEW s \in Sections
      PROVE  LET x == [c EXCEPT !.stage = "agent", !.cfg = s]
             IN  x \in Reload /\ x.stage = "agent"
  BY DEF Reload
<1>3. next \in Reload /\ next.stage = "agent"
  BY <1>2 DEF Types, Phases
<1> HIDE DEF next
<1>4. Spared(reloads[r], channels, insts, refused, config)
  BY <1>1, ReloadApart
<1>5. Spared(next, channels', insts', refused', config')
  BY <1>1, <1>3, <1>4 DEF Spared, manager
<1>6. Underway(next, channels', tracked', insts', refused', config')
  BY <1>3 DEF Underway
<1>7. Tracks'
  BY <1>1, TracksStay DEF Apart, manager
<1>8. QED  BY <1>1, <1>3, <1>5, <1>6, <1>7, ApartReload

LEMMA ApartReloadFails ==
  ASSUME Types, Apart, NEW r \in Reloads, ReloadFails(r) PROVE Apart'
<1>1. Reloading(r, Closed) /\ UNCHANGED manager /\ reloads[r].stage \in {"load", "agent"}
  BY DEF ReloadFails
<1>2. Spared(reloads[r], channels, insts, refused, config)
  BY <1>1, ReloadApart
<1>3. Spared(Closed, channels', insts', refused', config')
  BY <1>1, <1>2 DEF Spared, manager
<1>4. Underway(Closed, channels', tracked', insts', refused', config')
  BY ClosedIsReload DEF Underway
<1>5. Tracks'
  BY <1>1, TracksStay DEF Apart, manager
<1>6. QED  BY <1>1, <1>3, <1>4, <1>5, ClosedIsReload, ApartReload

LEMMA ApartReconfigure ==
  ASSUME Types, Apart, NEW r \in Reloads, Reconfigure(r) PROVE Apart'
<1> DEFINE ns == ToStop(reloads[r].cfg)
           next == [reloads[r] EXCEPT !.stage = "pick", !.todo = ns]
<1>1. Reloading(r, next) /\ UNCHANGED manager /\ reloads[r].stage = "agent"
  BY DEF Reconfigure
<1>2. /\ ns \in SUBSET Names
      /\ \A n \in Names : n \in ns <=>
            channels[n] # 0 /\ reloads[r].cfg[n] # insts[channels[n]].conf
  BY DEF ToStop, Running
<1> HIDE DEF ns
<1>3. ASSUME NEW c \in Reload
      PROVE  LET x == [c EXCEPT !.stage = "pick", !.todo = ns]
             IN  x \in Reload /\ x.stage = "pick" /\ x.todo = ns /\ x.cfg = c.cfg
  BY <1>2 DEF Reload
<1>4. next \in Reload /\ next.stage = "pick" /\ next.todo = ns /\ next.cfg = reloads[r].cfg
  BY <1>3 DEF Types, Phases
<1> HIDE DEF next
<1>5. \A n \in Names : FitsIn(channels, insts, refused, n, config[n])
  BY <1>1, ReloadApart DEF Spared
<1>6. Spared(next, channels', insts', refused', config')
  BY <1>1, <1>5 DEF Spared, manager
<1>7. Underway(next, channels', tracked', insts', refused', config')
  <2>1. ASSUME NEW n \in ns
        PROVE  channels[n] # 0 /\ insts[channels[n]].conf # next.cfg[n] /\ next.cfg[n] # config[n]
    BY <1>2, <1>4, <1>5 DEF FitsIn
  <2>2. ASSUME NEW n \in Names, next.cfg[n] # config[n] PROVE channels[n] = 0 \/ n \in ns
    BY <1>2, <1>4, <1>5, <2>2 DEF FitsIn
  <2>3. QED  BY <1>1, <1>4, <2>1, <2>2 DEF Underway, manager
<1>8. Tracks'
  BY <1>1, TracksStay DEF Apart, manager
<1>9. QED  BY <1>1, <1>4, <1>6, <1>7, <1>8, ApartReload

LEMMA ApartPickTask ==
  ASSUME Types, Apart, NEW r \in Reloads, NEW n \in Names, PickTask(r, n) PROVE Apart'
<1> DEFINE k == tracked[n]
           s == IF Over(k) THEN "pop" ELSE "task"
           next == [reloads[r] EXCEPT !.stage = s, !.todo = @ \ {n}, !.cur = n, !.task = k]
<1>1. /\ Reloading(r, next) /\ UNCHANGED <<config, channels, insts, refused>>
      /\ reloads[r].stage = "pick" /\ n \in reloads[r].todo
  BY DEF PickTask, First
<1>2. /\ MoreInsts /\ MoreTasks /\ DOMAIN tasks' = DOMAIN tasks
      /\ tracked' = [tracked EXCEPT ![n] = 0]
      /\ k \in DOMAIN tasks => tasks'[k].state \notin {"new", "running"}
  BY PickTaskTypes DEF Live
<1>3. k \in Nat /\ s \in {"pop", "task"} /\ (k # 0 => k \in DOMAIN tasks)
  BY DEF Types, Objects
<1>4. tracked'[n] = 0 /\ \A m \in Names : m # n => tracked'[m] = tracked[m]
  BY <1>2 DEF Types, Objects
<1>5. Tracks'
  <2>1. \A m \in Names : /\ tracked'[m] \in {0, tracked[m]}
                         /\ tracked'[m] # tracked[m] /\ tracked[m] # 0 =>
                                tasks'[tracked[m]].state \notin {"new", "running"}
    BY <1>2, <1>3, <1>4
  <2>2. QED  BY <1>1, <1>2, <2>1, TracksLose DEF Apart
<1> HIDE DEF k, s
<1>6. ASSUME NEW c \in Reload
      PROVE  LET x == [c EXCEPT !.stage = s, !.todo = @ \ {n}, !.cur = n, !.task = k]
             IN  x \in Reload /\ x.stage = s /\ x.cur = n /\ x.todo = c.todo \ {n} /\ x.cfg = c.cfg
  BY <1>3 DEF Reload
<1>7. /\ next \in Reload /\ next.stage = s /\ next.cur = n /\ next.todo = reloads[r].todo \ {n}
      /\ next.cfg = reloads[r].cfg
  BY <1>6 DEF Types, Phases
<1> HIDE DEF next
<1>8. /\ Underway(reloads[r], channels, tracked, insts, refused, config)
      /\ Spared(reloads[r], channels, insts, refused, config)
  BY <1>1, ReloadApart
<1>9. Spared(next, channels', insts', refused', config')
  BY <1>1, <1>3, <1>7, <1>8 DEF Spared
<1>10. Underway(next, channels', tracked', insts', refused', config')
  <2>1. next.cfg[n] # config[n]
    BY <1>1, <1>7, <1>8 DEF Underway
  <2>2. ASSUME NEW m \in next.todo
        PROVE  channels[m] # 0 /\ insts[channels[m]].conf # next.cfg[m] /\ next.cfg[m] # config[m]
    BY <1>1, <1>7, <1>8, <2>2 DEF Underway
  <2>3. ASSUME NEW m \in Names, next.cfg[m] # config[m]
        PROVE  channels[m] = 0 \/ m \in next.todo \/ m = n
    BY <1>1, <1>7, <1>8, <2>3 DEF Underway
  <2>4. QED  BY <1>1, <1>3, <1>4, <1>7, <2>1, <2>2, <2>3 DEF Underway
<1>11. QED  BY <1>1, <1>5, <1>7, <1>9, <1>10, ApartReload

LEMMA ApartPopChannel ==
  ASSUME Types, Apart, NEW r \in Reloads, PopChannel(r) PROVE Apart'
<1> DEFINE n == reloads[r].cur
           s == IF channels[n] = 0 THEN "pick" ELSE "stop"
           next == [reloads[r] EXCEPT !.stage = s, !.cur = NoName, !.task = 0]
<1>1. /\ Reloading(r, next) /\ UNCHANGED <<config, tracked, tasks, refused>>
      /\ channels' = [channels EXCEPT ![n] = 0]
      /\ reloads[r].stage \in {"task", "pop"}
  BY PopChannelTypes DEF PopChannel
<1>2. n \in Names /\ MoreInsts /\ s \in {"pick", "stop"}
  BY PopChannelTypes
<1>3. channels'[n] = 0 /\ \A m \in Names : m # n => channels'[m] = channels[m]
  BY <1>1, <1>2 DEF Types, Objects
<1>4. /\ Underway(reloads[r], channels, tracked, insts, refused, config)
      /\ Spared(reloads[r], channels, insts, refused, config)
  BY <1>1, ReloadApart
<1>5. tracked[n] = 0 /\ reloads[r].cfg[n] # config[n]
  BY <1>1, <1>4 DEF Underway
<1>6. Tracks'
  <2>1. MoreTasks /\ DOMAIN tasks' = DOMAIN tasks
    BY <1>1, TasksStay DEF Types
  <2>2. \A m \in Names :
            /\ channels'[m] \in {0, channels[m]}
            /\ channels'[m] # channels[m] => tracked[m] = 0
    BY <1>3, <1>5
  <2>3. QED  BY <1>1, <1>2, <2>1, <2>2, TracksLose DEF Apart
<1> HIDE DEF s
<1>7. ASSUME NEW c \in Reload
      PROVE  LET x == [c EXCEPT !.stage = s, !.cur = NoName, !.task = 0]
             IN  x \in Reload /\ x.stage = s /\ x.todo = c.todo /\ x.cfg = c.cfg
  BY <1>2 DEF Reload
<1>8. /\ next \in Reload /\ next.stage = s /\ next.todo = reloads[r].todo
      /\ next.cfg = reloads[r].cfg
  BY <1>7 DEF Types, Phases
<1> HIDE DEF next, n
<1>9. \A m \in Names : channels[m] # 0 => insts'[channels[m]].conf = insts[channels[m]].conf
  BY <1>2 DEF Types, Objects, MoreInsts
<1>10. Spared(next, channels', insts', refused', config')
  <2>1. ASSUME NEW m \in Names, next.cfg[m] = config[m]
        PROVE  FitsIn(channels', insts', refused, m, config[m])
    <3>1. m # n
      BY <1>5, <1>8, <2>1
    <3>2. FitsIn(channels, insts, refused, m, config[m])
      BY <1>4, <1>8, <2>1 DEF Spared
    <3>3. QED  BY <1>2, <1>3, <3>1, <3>2, FitsOn
  <2>2. QED  BY <1>1, <1>2, <1>8, <2>1 DEF Spared
<1>11. Underway(next, channels', tracked', insts', refused', config')
  <2>1. ASSUME NEW m \in next.todo
        PROVE  /\ channels'[m] # 0 /\ insts'[channels'[m]].conf # next.cfg[m]
               /\ next.cfg[m] # config[m]
    <3>1. m \in Names
      BY <1>8, <2>1 DEF Reload
    <3>2. /\ channels[m] # 0 /\ insts[channels[m]].conf # next.cfg[m]
          /\ next.cfg[m] # config[m]
      BY <1>1, <1>4, <1>8, <2>1 DEF Underway
    <3>3. m # n
      BY <1>1, <1>4, <1>8, <2>1 DEF Underway, n
    <3>4. QED  BY <1>3, <1>9, <3>1, <3>2, <3>3
  <2>2. ASSUME NEW m \in Names, next.cfg[m] # config[m]
        PROVE  channels'[m] = 0 \/ m \in next.todo
    BY <1>1, <1>3, <1>4, <1>8, <2>2 DEF Underway, n
  <2>3. QED  BY <1>1, <1>2, <1>8, <2>1, <2>2 DEF Underway
<1>12. QED  BY <1>1, <1>6, <1>8, <1>10, <1>11, ApartReload

LEMMA ApartChannelStopped ==
  ASSUME Types, Apart, NEW r \in Reloads, ChannelStopped(r) PROVE Apart'
<1> DEFINE next == [reloads[r] EXCEPT !.stage = "pick"]
<1>1. Reloading(r, next) /\ UNCHANGED manager /\ reloads[r].stage = "stop"
  BY DEF ChannelStopped
<1>2. ASSUME NEW c \in Reload
      PROVE  LET x == [c EXCEPT !.stage = "pick"]
             IN  x \in Reload /\ x.stage = "pick" /\ x.todo = c.todo /\ x.cfg = c.cfg
  BY DEF Reload
<1>3. /\ next \in Reload /\ next.stage = "pick" /\ next.todo = reloads[r].todo
      /\ next.cfg = reloads[r].cfg
  BY <1>2 DEF Types, Phases
<1> HIDE DEF next
<1>4. /\ Underway(reloads[r], channels, tracked, insts, refused, config)
      /\ Spared(reloads[r], channels, insts, refused, config)
  BY <1>1, ReloadApart
<1>5. Spared(next, channels', insts', refused', config')
  BY <1>1, <1>3, <1>4 DEF Spared, manager
<1>6. Underway(next, channels', tracked', insts', refused', config')
  BY <1>1, <1>3, <1>4 DEF Underway, manager
<1>7. Tracks'
  BY <1>1, TracksStay DEF Apart, manager
<1>8. QED  BY <1>1, <1>3, <1>5, <1>6, <1>7, ApartReload

LEMMA ApartAllStopped ==
  ASSUME Types, Apart, NEW r \in Reloads, AllStopped(r) PROVE Apart'
<1> DEFINE ns == Enabled(reloads[r].cfg) \ Running
           next == [reloads[r] EXCEPT !.stage = "start", !.todo = ns]
<1>1. /\ Reloading(r, next) /\ UNCHANGED manager
      /\ reloads[r].stage = "pick" /\ reloads[r].todo = {}
  BY DEF AllStopped
<1>2. /\ ns \in SUBSET Names
      /\ \A n \in Names : n \in ns <=> channels[n] = 0 /\ reloads[r].cfg[n] # Off
  BY DEF Enabled, Running
<1> HIDE DEF ns
<1>3. ASSUME NEW c \in Reload
      PROVE  LET x == [c EXCEPT !.stage = "start", !.todo = ns]
             IN  x \in Reload /\ x.stage = "start" /\ x.todo = ns /\ x.cfg = c.cfg
  BY <1>2 DEF Reload
<1>4. next \in Reload /\ next.stage = "start" /\ next.todo = ns /\ next.cfg = reloads[r].cfg
  BY <1>3 DEF Types, Phases
<1> HIDE DEF next
<1>5. /\ Underway(reloads[r], channels, tracked, insts, refused, config)
      /\ Spared(reloads[r], channels, insts, refused, config)
  BY <1>1, ReloadApart
<1>6. Spared(next, channels', insts', refused', config')
  BY <1>1, <1>4, <1>5 DEF Spared, manager
<1>7. ASSUME NEW n \in Names, n \notin ns
      PROVE  FitsIn(channels, insts, refused, n, next.cfg[n])
  <2>1. CASE channels[n] = 0
    BY <1>2, <1>4, <1>7, <2>1 DEF FitsIn
  <2>2. CASE channels[n] # 0
    <3>1. next.cfg[n] = config[n]
      BY <1>1, <1>4, <1>5, <2>2 DEF Underway
    <3>2. QED  BY <1>1, <1>4, <1>5, <3>1 DEF Spared
  <2>3. QED  BY <2>1, <2>2
<1>8. Underway(next, channels', tracked', insts', refused', config')
  BY <1>1, <1>2, <1>4, <1>7 DEF Underway, manager
<1>9. Tracks'
  BY <1>1, TracksStay DEF Apart, manager
<1>10. QED  BY <1>1, <1>4, <1>6, <1>8, <1>9, ApartReload

LEMMA ApartRestart ==
  ASSUME Types, Apart, NEW r \in Reloads, NEW n \in Names, Restart(r, n) PROVE Apart'
<1> DEFINE next == [reloads[r] EXCEPT !.todo = @ \ {n}]
           conf == reloads[r].cfg[n]
<1>1. /\ Reloading(r, next) /\ UNCHANGED config
      /\ reloads[r].stage = "start" /\ n \in reloads[r].todo
      /\ Creates(n, conf)
      /\ IF n \in refused' THEN UNCHANGED <<tasks, tracked>> ELSE StartsTask(n)
  BY DEF Restart, First
<1>2. conf \in Confs
  BY <1>1 DEF Types, Phases, Reload, Sections
<1>3. ASSUME NEW c \in Reload
      PROVE  LET x == [c EXCEPT !.todo = @ \ {n}]
             IN  x \in Reload /\ x.stage = c.stage /\ x.todo = c.todo \ {n} /\ x.cfg = c.cfg
  BY DEF Reload
<1>4. /\ next \in Reload /\ next.stage = "start" /\ next.todo = reloads[r].todo \ {n}
      /\ next.cfg = reloads[r].cfg
  BY <1>1, <1>3 DEF Types, Phases
<1> HIDE DEF next, conf
<1>5. /\ Underway(reloads[r], channels, tracked, insts, refused, config)
      /\ Spared(reloads[r], channels, insts, refused, config)
  BY <1>1, ReloadApart
<1>6. channels[n] = 0 /\ \A m \in reloads[r].todo : channels[m] = 0
  BY <1>1, <1>5 DEF Underway
<1>7. /\ MoreInsts /\ channels' \in [Names -> Nat]
      /\ \A m \in Names : m # n => channels'[m] = channels[m]
      /\ \/ /\ n \notin refused' /\ refused' = refused \ {n}
            /\ channels'[n] # 0 /\ channels'[n] \in DOMAIN insts' /\ channels'[n] \in 1 .. MaxInsts
            /\ insts'[channels'[n]].name = n /\ insts'[channels'[n]].conf = conf
         \/ /\ n \in refused' /\ refused' = refused \cup {n}
            /\ insts' = insts /\ channels' = channels
  BY <1>1, <1>2, Created DEF Types
\* The others fit as before, and n fits its new section.
<1>8. ASSUME NEW m \in Names, NEW s, m # n, FitsIn(channels, insts, refused, m, s)
      PROVE  FitsIn(channels', insts', refused', m, s)
  <2>1. FitsIn(channels', insts', refused, m, s)
    BY <1>7, <1>8, FitsOn
  <2>2. m \in refused => m \in refused'
    BY <1>7, <1>8
  <2>3. QED  BY <2>1, <2>2 DEF FitsIn
<1>9. FitsIn(channels', insts', refused', n, conf)
  BY <1>6, <1>7 DEF FitsIn
<1>10. Spared(next, channels', insts', refused', config')
  <2>1. ASSUME NEW m \in Names, next.cfg[m] = config[m]
        PROVE  FitsIn(channels', insts', refused', m, config[m])
    <3>1. CASE m = n
      BY <1>4, <1>9, <2>1, <3>1 DEF conf
    <3>2. CASE m # n
      <4>1. FitsIn(channels, insts, refused, m, config[m])
        BY <1>4, <1>5, <2>1 DEF Spared
      <4>2. QED  BY <1>8, <3>2, <4>1
    <3>3. QED  BY <3>1, <3>2
  <2>2. QED  BY <1>1, <1>4, <2>1 DEF Spared
<1>11. Underway(next, channels', tracked', insts', refused', config')
  <2>1. \A m \in next.todo : channels'[m] = 0
    <3>1. next.todo \subseteq Names
      BY <1>4 DEF Reload
    <3>2. QED  BY <1>4, <1>6, <1>7, <3>1
  <2>2. ASSUME NEW m \in Names, m \notin next.todo
        PROVE  FitsIn(channels', insts', refused', m, next.cfg[m])
    <3>1. CASE m = n
      BY <1>4, <1>9, <3>1 DEF conf
    <3>2. CASE m # n
      <4>1. FitsIn(channels, insts, refused, m, next.cfg[m])
        BY <1>1, <1>4, <1>5, <2>2, <3>2 DEF Underway
      <4>2. QED  BY <1>8, <3>2, <4>1
    <3>3. QED  BY <3>1, <3>2
  <2>3. QED  BY <1>4, <2>1, <2>2 DEF Underway
<1>12. Tracks'
  <2>1. CASE n \in refused'
    BY <1>1, <1>7, <2>1, TracksStay DEF Apart
  <2>2. CASE n \notin refused'
    <3>1. channels'[n] \in 1 .. MaxInsts /\ StartsTask(n)
      BY <1>1, <1>7, <2>2
    <3>2. QED  BY <1>6, <1>7, <2>2, <3>1, TaskStarted, TracksGain DEF Apart, Types
  <2>3. QED  BY <2>1, <2>2
<1>13. QED  BY <1>1, <1>4, <1>10, <1>11, <1>12, ApartReload

LEMMA ApartReloadEnds ==
  ASSUME Types, Apart, NEW r \in Reloads, ReloadEnds(r) PROVE Apart'
<1>1. /\ Reloading(r, Closed) /\ UNCHANGED <<channels, tracked, insts, tasks, refused>>
      /\ config' = reloads[r].cfg /\ reloads[r].stage = "start" /\ reloads[r].todo = {}
  BY DEF ReloadEnds
<1>2. Underway(reloads[r], channels, tracked, insts, refused, config)
  BY <1>1, ReloadApart
<1>3. Spared(Closed, channels', insts', refused', config')
  BY <1>1, <1>2 DEF Spared, Underway
<1>4. Underway(Closed, channels', tracked', insts', refused', config')
  BY ClosedIsReload DEF Underway
<1>5. Tracks'
  BY <1>1, TracksStay DEF Apart
<1>6. QED  BY <1>1, <1>3, <1>4, <1>5, ClosedIsReload, ApartReload

-----------------------------------------------------------------------------
(* The other steps.                                                        *)

\* Tasks and objects move on; tables, reloads and phases stay.
LEMMA ApartStays ==
  ASSUME Types, Apart, MoreInsts, MoreTasks, DOMAIN tasks' = DOMAIN tasks,
         UNCHANGED <<file, config, channels, tracked, refused, reloads, stop>>
  PROVE  Apart'
<1>1. Alone'
  BY DEF Apart, Alone, Serving
<1>2. Tracks'
  BY TracksLose DEF Apart
<1>3. ASSUME NEW n \in Names, NEW s
      PROVE  FitsIn(channels', insts', refused', n, s) <=> FitsIn(channels, insts, refused, n, s)
  BY DEF Types, Objects, MoreInsts, FitsIn
<1>4. Staged'
  <2>1. ASSUME NEW n \in Names, tracked[n] # 0, tasks'[tracked[n]].state \in {"new", "running"}
        PROVE  Live(tracked[n])
    BY <2>1 DEF MoreTasks, Live, Types, Objects
  <2>2. \A n \in Names, r \in Reloads : Spares(r, n)' = Spares(r, n)
    BY DEF Spares
  <2>3. QED  BY <1>3, <2>1, <2>2 DEF Apart, Staged, Fits, Live
<1>5. ASSUME NEW r \in Reloads
      PROVE  Underway(reloads'[r], channels', tracked', insts', refused', config')
  <2>1. Underway(reloads[r], channels, tracked, insts, refused, config)
    BY DEF Apart
  <2>2. reloads[r].todo \subseteq Names
    BY DEF Types, Phases, Reload
  <2>3. \A n \in Names : channels[n] # 0 => insts'[channels[n]].conf = insts[channels[n]].conf
    BY DEF Types, Objects, MoreInsts
  <2>4. QED  BY <1>3, <2>1, <2>2, <2>3 DEF Underway
<1>6. QED  BY <1>1, <1>2, <1>4, <1>5 DEF Apart

LEMMA ApartTask ==
  ASSUME Types, Apart, NEW k \in DOMAIN tasks, TaskSteps(k) \/ TaskRaises(k) PROVE Apart'
<1>1. UNCHANGED <<file, config, channels, tracked, refused, reloads, stop>>
  BY DEF TaskSteps, TaskRuns, TaskEnds, TaskRaises, TaskIsOver
<1>2. MoreInsts /\ MoreTasks
  BY TaskTypes
<1>3. DOMAIN tasks' = DOMAIN tasks
  BY DEF TaskSteps, TaskRuns, TaskEnds, TaskRaises, TaskIsOver
<1>4. QED  BY <1>1, <1>2, <1>3, ApartStays

LEMMA ApartBus ==
  ASSUME Types, Apart, UNCHANGED <<file, manager, reloads, stop>> PROVE Apart'
  BY ManagerStays, ApartStays DEF manager

\* Before the gateway serves and after, nothing is reloaded.
LEMMA AllClosed ==
  ASSUME Apart, ~Serving PROVE \A r \in Reloads : reloads[r] = Closed
  BY DEF Apart, Alone

LEMMA ApartClosed ==
  ASSUME \A r \in Reloads : reloads[r] = Closed, UNCHANGED reloads, Tracks', Staged'
  PROVE  Apart'
<1>1. \A r \in Reloads : reloads'[r] = Closed
  OBVIOUS
<1>2. Alone'
  BY <1>1 DEF Alone
<1>3. Underway(Closed, channels', tracked', insts', refused', config')
  BY ClosedIsReload DEF Underway
<1>4. QED  BY <1>1, <1>2, <1>3 DEF Apart

\* With no reload, every channel is spared.
LEMMA AllFit ==
  ASSUME Apart, \A r \in Reloads : reloads[r] = Closed,
         stop.stage \in {"booting", "starting", "serving"}
  PROVE  \A n \in Names : Fits(n, config[n])
<1>1. \A n \in Names, r \in Reloads : Spares(r, n)
  BY ClosedIsReload DEF Spares
<1>2. QED  BY <1>1 DEF Apart, Staged

LEMMA ApartInitChannel ==
  ASSUME Types, Apart, NEW n \in Names, InitChannel(n) PROVE Apart'
<1> DEFINE next == [stop EXCEPT !.todo = @ \ {n}]
           conf == file[n]
<1>1. /\ stop.stage = "init" /\ n \in stop.todo /\ Creates(n, conf)
      /\ UNCHANGED <<tracked, tasks>> /\ Boot(next)
  BY DEF InitChannel, First
<1>2. conf \in Confs /\ stop \in Stage
  BY <1>1 DEF Types, Phases, Sections
<1>3. next.stage = "init" /\ next.todo = stop.todo \ {n}
  BY <1>1, <1>2, StageLess
<1>4. /\ stop' = next /\ UNCHANGED <<file, config, reloads>>
  BY <1>1 DEF Boot
<1>5. conf = config[n]
  BY <1>1 DEF Apart, Staged
<1> HIDE DEF next, conf
<1>6. \A r \in Reloads : reloads[r] = Closed
  BY <1>1, AllClosed DEF Serving
<1>7. /\ MoreInsts /\ channels' \in [Names -> Nat]
      /\ \A m \in Names : m # n => channels'[m] = channels[m]
      /\ \/ /\ n \notin refused' /\ refused' = refused \ {n}
            /\ channels'[n] # 0 /\ channels'[n] \in DOMAIN insts'
            /\ insts'[channels'[n]].conf = conf
         \/ /\ n \in refused' /\ refused' = refused \cup {n}
            /\ insts' = insts /\ channels' = channels
  BY <1>1, <1>2, Created DEF Types
<1>8. \A m \in Names : tracked[m] = 0
  BY <1>1 DEF Apart, Staged
<1>9. Tracks'
  BY <1>1, <1>7, <1>8, TracksNone DEF Apart
<1>10. channels[n] = 0
  BY <1>1 DEF Apart, Staged
<1>11. ASSUME NEW m \in Names
       PROVE  IF m \in next.todo THEN channels'[m] = 0
              ELSE FitsIn(channels', insts', refused', m, config[m])
  <2>1. CASE m = n
    <3>1. FitsIn(channels', insts', refused', n, conf)
      BY <1>7, <1>10 DEF FitsIn
    <3>2. QED  BY <1>3, <1>5, <2>1, <3>1
  <2>2. CASE m # n /\ m \in stop.todo
    BY <1>1, <1>3, <1>7, <2>2 DEF Apart, Staged
  <2>3. CASE m # n /\ m \notin stop.todo
    <3>1. FitsIn(channels, insts, refused, m, config[m])
      BY <1>1, <2>3 DEF Apart, Staged, Fits
    <3>2. FitsIn(channels', insts', refused, m, config[m])
      BY <1>7, <2>3, <3>1, FitsOn
    <3>3. m \in refused => m \in refused'
      BY <1>7, <2>3
    <3>4. QED  BY <1>3, <2>3, <3>2, <3>3 DEF FitsIn
  <2>4. QED  BY <2>1, <2>2, <2>3
<1>12. Staged'
  BY <1>1, <1>3, <1>4, <1>8, <1>11 DEF Staged, Fits, Apart
<1>13. QED  BY <1>4, <1>6, <1>9, <1>12, ApartClosed

\* The start passes on to its next phase.
LEMMA ApartPhases ==
  ASSUME Types, Apart, Listens \/ StartAll \/ Serves PROVE Apart'
<1>1. /\ UNCHANGED <<file, config, channels, tracked, insts, tasks, refused, reloads>>
      /\ ~Serving /\ stop \in Stage
  BY DEF Listens, StartAll, Serves, Boot, Serving, Types, Phases
<1>2. /\ \A r \in Reloads : reloads[r] = Closed
      /\ Tracks'
  BY <1>1, AllClosed, TracksStay DEF Apart
<1>3. /\ \A n \in Names : Fits(n, config[n])
      /\ config = file
  <2>1. CASE Listens
    BY <2>1 DEF Listens, Apart, Staged
  <2>2. CASE StartAll
    BY <1>2, <2>2, AllFit DEF StartAll, Apart, Staged
  <2>3. CASE Serves
    BY <1>2, <2>3, AllFit DEF Serves, Apart, Staged
  <2>4. QED  BY <2>1, <2>2, <2>3
<1>4. \A n \in Names : Fits(n, config[n])'
  BY <1>1, <1>3 DEF Fits
<1>5. Staged'
  <2>1. CASE Listens
    <3>1. stop.stage = "init" /\ stop' = [stop EXCEPT !.stage = "booting"]
      BY <2>1 DEF Listens, Boot
    <3>2. stop'.stage = "booting"
      BY <1>1, <3>1 DEF Stage
    <3>3. QED  BY <1>1, <1>3, <1>4, <3>1, <3>2 DEF Staged, Apart
  <2>2. CASE StartAll
    <3>1. stop.stage = "booting" /\ stop' = [stop EXCEPT !.stage = "starting", !.todo = Running]
      BY <2>2 DEF StartAll, Boot
    <3>2. stop'.stage = "starting" /\ stop'.todo \subseteq Names
      <4>1. ASSUME NEW c \in Stage, NEW ns \in SUBSET Names
            PROVE  LET x == [c EXCEPT !.stage = "starting", !.todo = ns]
                   IN  x.stage = "starting" /\ x.todo = ns
        BY DEF Stage
      <4>2. Running \in SUBSET Names
        BY DEF Running
      <4>3. QED  BY <1>1, <3>1, <4>1, <4>2
    <3>3. QED  BY <1>1, <1>3, <1>4, <3>1, <3>2 DEF Staged, Apart
  <2>3. CASE Serves
    <3>1. stop' = [stop EXCEPT !.stage = "serving"]
      BY <2>3 DEF Serves, Boot
    <3>2. stop'.stage = "serving"
      BY <1>1, <3>1 DEF Stage
    <3>3. QED  BY <1>4, <3>2 DEF Staged
  <2>4. QED  BY <2>1, <2>2, <2>3
<1>6. QED  BY <1>1, <1>2, <1>5, ApartClosed

LEMMA ApartStartChannel ==
  ASSUME Types, Apart, NEW n \in Names, StartChannel(n) PROVE Apart'
<1> DEFINE next == [stop EXCEPT !.todo = @ \ {n}]
<1>1. /\ stop.stage = "starting" /\ n \in stop.todo
      /\ UNCHANGED <<channels, insts, refused>> /\ StartsTask(n) /\ Boot(next)
  BY DEF StartChannel, First
<1>2. next.stage = "starting" /\ next.todo = stop.todo \ {n}
  BY <1>1, StageLess DEF Types, Phases
<1>3. stop' = next /\ UNCHANGED <<file, config, reloads>>
  BY <1>1 DEF Boot
<1> HIDE DEF next
<1>4. /\ \A r \in Reloads : reloads[r] = Closed
      /\ \A m \in Names : Fits(m, config[m])
  BY <1>1, AllClosed, AllFit DEF Serving
<1>5. /\ tracked[n] = 0 /\ stop.todo \subseteq Names /\ channels[n] # 0
      /\ channels[n] \in DOMAIN insts /\ insts[channels[n]].name = n
      /\ channels[n] \in 1 .. MaxInsts
  <2>1. tracked[n] = 0 /\ stop.todo \subseteq Names /\ channels[n] # 0
    BY <1>1 DEF Apart, Staged, Types, Phases, Stage, Running
  <2>2. channels[n] \in DOMAIN insts /\ insts[channels[n]].name = n
    BY <2>1 DEF Types, Objects
  <2>3. channels[n] \in 1 .. MaxInsts
    BY <2>2, SeqIsFunction, Bounds DEF Types, Objects
  <2>4. QED  BY <2>1, <2>2, <2>3
<1>6. /\ DOMAIN tasks' = DOMAIN tasks \cup {tracked'[n]} /\ tracked'[n] \notin DOMAIN tasks
      /\ tasks'[tracked'[n]].inst = channels'[n]
      /\ \A m \in Names : m # n => tracked'[m] = tracked[m]
      /\ \A k \in DOMAIN tasks : tasks'[k] = tasks[k]
  BY <1>1, <1>5, TaskStarted DEF Types
<1>7. Tracks'
  BY <1>1, <1>5, <1>6, InstsStay, TracksGain DEF Apart, Types
<1>8. Staged'
  BY <1>1, <1>2, <1>3, <1>4, <1>5, <1>6 DEF Staged, Apart, Fits
<1>9. QED  BY <1>3, <1>4, <1>7, <1>8, ApartClosed

LEMMA ApartSaveAndReload ==
  ASSUME Types, Apart, NEW r \in Reloads, NEW cfg \in Saves, SaveAndReload(r, cfg), ~overlapped'
  PROVE  Apart'
<1> DEFINE next == [reloads[r] EXCEPT !.stage = "load"]
<1>1. /\ UNCHANGED <<manager, stop>> /\ Serving
      /\ \A q \in Reloads : reloads[q] = Closed
      /\ reloads' = [reloads EXCEPT ![r] = next]
  BY DEF SaveAndReload, Serving
<1>2. next.stage = "load"
  BY DEF Types, Phases, Reload
<1> HIDE DEF next
<1>3. reloads'[r] = next /\ \A q \in Reloads : q # r => reloads'[q] = Closed
  BY <1>1 DEF Types, Phases
<1>4. Alone'
  BY <1>1, <1>3 DEF Alone, Serving
<1>5. Tracks'
  BY <1>1, TracksStay DEF Apart, manager
<1>6. \A n \in Names : FitsIn(channels', insts', refused', n, config'[n])
  BY <1>1, AllFit DEF Fits, Serving, manager
<1>7. Staged'
  BY <1>1, <1>6 DEF Staged, Serving, Fits
<1>8. ASSUME NEW q \in Reloads
      PROVE  Underway(reloads'[q], channels', tracked', insts', refused', config')
  <2>1. reloads'[q].stage \in {"load", "idle"}
    BY <1>2, <1>3, ClosedIsReload
  <2>2. QED  BY <2>1 DEF Underway
<1>9. QED  BY <1>4, <1>5, <1>7, <1>8 DEF Apart

LEMMA ApartStopAll ==
  ASSUME Types, Apart, StopAll, ~overlapped' PROVE Apart'
<1>1. /\ UNCHANGED <<channels, tracked, insts, tasks, refused, reloads>>
      /\ \A r \in Reloads : reloads[r] = Closed
      /\ stop' = [stop EXCEPT !.stage = "cancel", !.tasks = TrackedTasks]
  BY DEF StopAll, Stopping
<1>2. stop'.stage = "cancel" /\ stop'.tasks = TrackedTasks
  BY <1>1 DEF Types, Phases, Stage
<1>3. Tracks'
  BY <1>1, TracksStay DEF Apart
<1>4. \A n \in Names : tracked'[n] # 0 => tracked'[n] \in stop'.tasks
  BY <1>1, <1>2 DEF TrackedTasks
<1>5. Staged'
  BY <1>2, <1>4 DEF Staged
<1>6. QED  BY <1>1, <1>3, <1>5, ApartClosed

LEMMA ApartCancelTask ==
  ASSUME Types, Apart, NEW k \in DOMAIN tasks, CancelTask(k) PROVE Apart'
<1>1. /\ UNCHANGED <<channels, tracked, insts, refused, reloads>> /\ ~Serving
      /\ stop.stage = "cancel"
  BY DEF CancelTask, Stopping, Serving
<1>2. /\ MoreTasks /\ DOMAIN tasks' = DOMAIN tasks /\ ~Live(k)'
      /\ stop'.stage = "cancel" /\ stop'.tasks = stop.tasks \ {k}
  BY CancelTaskTypes
<1>3. Tracks'
  BY <1>1, <1>2, InstsStay, TracksLose DEF Apart, Types
<1>4. ASSUME NEW n \in Names, tracked[n] # 0
      PROVE  \/ tracked[n] \in stop'.tasks
             \/ tasks'[tracked[n]].state \notin {"new", "running"}
  <2>1. tracked[n] \in stop.tasks \/ ~Live(tracked[n])
    BY <1>1, <1>4 DEF Apart, Staged
  <2>2. tracked[n] \in DOMAIN tasks
    BY <1>4 DEF Types, Objects
  <2>3. CASE tracked[n] = k
    BY <1>2, <2>3 DEF Live
  <2>4. CASE tracked[n] # k
    BY <1>2, <2>1, <2>2, <2>4 DEF MoreTasks, Live
  <2>5. QED  BY <2>3, <2>4
<1>5. Staged'
  BY <1>1, <1>2, <1>4 DEF Staged, Live
<1>6. QED  BY <1>1, <1>3, <1>5, AllClosed, ApartClosed

\* The tasks that are forgotten have all been cancelled.
LEMMA ApartCancelDispatcher ==
  ASSUME Types, Apart, CancelDispatcher PROVE Apart'
<1> DEFINE m == Cardinality(Running)
<1>1. /\ UNCHANGED <<channels, insts, tasks, refused, reloads>> /\ ~Serving
      /\ tracked' = [n \in Names |-> 0]
      /\ stop.stage = "cancel" /\ stop.tasks = {}
      /\ stop' = [stop EXCEPT !.stage = "each", !.todo = Running, !.size = m, !.waits = 0]
  BY DEF CancelDispatcher, Stopping, Serving
<1> HIDE DEF m
<1>2. stop'.stage = "each"
  <2>1. ASSUME NEW c \in Stage, NEW ns
        PROVE  [c EXCEPT !.stage = "each", !.todo = ns, !.size = m, !.waits = 0].stage = "each"
    BY DEF Stage
  <2>2. QED  BY <1>1, <2>1 DEF Types, Phases
<1>3. ASSUME NEW n \in Names, tracked[n] # 0 PROVE ~Live(tracked[n])
  BY <1>1, <1>3 DEF Apart, Staged
<1>4. Tracks'
  <2>1. MoreInsts /\ MoreTasks
    BY <1>1, InstsStay, TasksStay DEF Types
  <2>2. \A n \in Names : tracked'[n] = 0 /\ channels'[n] = channels[n]
    BY <1>1
  <2>3. QED  BY <1>1, <1>3, <2>1, <2>2, TracksLose DEF Apart, Live
<1>5. Staged'
  BY <1>2 DEF Staged
<1>6. QED  BY <1>1, <1>4, <1>5, AllClosed, ApartClosed

LEMMA ApartEnd ==
  ASSUME Types, Apart, Down \/ \E n \in Names : StopChannel(n) PROVE Apart'
<1>1. /\ UNCHANGED <<channels, tracked, tasks, refused, reloads>> /\ ~Serving
      /\ stop.stage = "each"
  BY DEF Down, StopChannel, Stopping, Serving
<1>2. MoreInsts
  BY InstsStay, StopChannelTypes DEF Down, Types
<1>3. Tracks'
  BY <1>1, <1>2, TasksStay, TracksLose DEF Apart, Types
<1>4. stop'.stage \in {"each", "down"}
  <2>1. CASE Down
    <3>1. stop' = [stop EXCEPT !.stage = "down", !.todo = {}]
      BY <2>1 DEF Down, Stopping
    <3>2. QED  BY <3>1 DEF Types, Phases, Stage
  <2>2. ASSUME NEW n \in Names, StopChannel(n) PROVE stop'.stage = "each"
    <3>1. stop' = [stop EXCEPT !.todo = @ \ {n}]
      BY <2>2 DEF StopChannel, Stopping
    <3>2. QED  BY <1>1, <3>1, StageLess DEF Types, Phases
  <2>3. QED  BY <2>1, <2>2
<1>5. Staged'
  BY <1>4 DEF Staged
<1>6. QED  BY <1>1, <1>3, <1>5, AllClosed, ApartClosed

LEMMA ApartInit == ASSUME Init PROVE Apart
<1>1. /\ config = file /\ channels = [n \in Names |-> 0] /\ tracked = [n \in Names |-> 0]
      /\ tasks = <<>> /\ reloads = [r \in Reloads |-> Closed]
      /\ stop.stage = "init" /\ stop.todo = Enabled(file)
  BY DEF Init
<1>2. Alone
  BY <1>1 DEF Alone
<1>3. Tracks
  BY <1>1 DEF Tracks, LoopsAreTracked
<1>4. Staged
  BY <1>1 DEF Staged, Fits, FitsIn, Enabled
<1>5. Underway(Closed, channels, tracked, insts, refused, config)
  BY ClosedIsReload DEF Underway
<1>6. QED  BY <1>1, <1>2, <1>3, <1>4, <1>5 DEF Apart

LEMMA ManagerNext == ASSUME Types, Manager, [Next]_vars PROVE Manager'
<1> SUFFICES ASSUME ~overlapped' PROVE Apart'
  BY DEF Manager
<1>1. ~overlapped
  BY DEF Next, vars, TaskSteps, TaskRuns, TaskEnds, TaskRaises, TaskIsOver, ReloadSteps,
     ReloadReads, Reconfigure, PickTask, Restart, PopChannel, ChannelStopped, AllStopped,
     ReloadEnds, ReloadFails, Reloading, SaveAndReload, Publish, DispatcherSteps, Take, Sent,
     SendFails, Dispatch, Starts, Listens, StartAll, Serves, InitChannel, StartChannel, Boot,
     StopAll, Stops, CancelTask, CancelDispatcher, Down, StopChannel
<1>2. Apart
  BY <1>1 DEF Manager
<1>3. CASE UNCHANGED vars
  BY <1>2, <1>3, ApartBus DEF vars
<1>4. ASSUME NEW k \in DOMAIN tasks, TaskSteps(k) \/ TaskRaises(k) PROVE Apart'
  BY <1>2, <1>4, ApartTask
<1>5. ASSUME NEW r \in Reloads, ReloadSteps(r) PROVE Apart'
  <2>1. ASSUME NEW n \in Names, PickTask(r, n) PROVE Apart'
    BY <1>2, <2>1, ApartPickTask
  <2>2. ASSUME NEW n \in Names, Restart(r, n) PROVE Apart'
    BY <1>2, <2>2, ApartRestart
  <2>3. QED
    BY <1>2, <1>5, <2>1, <2>2, ApartReloadReads, ApartReconfigure, ApartPopChannel,
       ApartChannelStopped, ApartAllStopped, ApartReloadEnds DEF ReloadSteps
<1>6. ASSUME NEW r \in Reloads, ReloadFails(r) PROVE Apart'
  BY <1>2, <1>6, ApartReloadFails
<1>7. ASSUME NEW r \in Reloads, NEW cfg \in Saves, SaveAndReload(r, cfg) PROVE Apart'
  BY <1>2, <1>7, ApartSaveAndReload
<1>8. ASSUME DispatcherSteps \/ \E n, m \in Names : Publish(n, m) PROVE Apart'
  BY <1>2, <1>8, ApartBus DEF DispatcherSteps, Publish, Take, Sent, SendFails, Dispatch
<1>9. CASE Starts
  BY <1>2, <1>9, ApartInitChannel, ApartPhases, ApartStartChannel DEF Starts
<1>10. CASE StopAll
  BY <1>2, <1>10, ApartStopAll
<1>11. CASE Stops
  BY <1>2, <1>11, ApartCancelTask, ApartCancelDispatcher, ApartEnd DEF Stops
<1>12. QED
  BY <1>3, <1>4, <1>5, <1>6, <1>7, <1>8, <1>9, <1>10, <1>11 DEF Next

LEMMA ManagerHolds == Spec => []Manager
<1>1. Init => Manager
  BY ApartInit DEF Manager
<1>2. Types /\ Manager /\ [Next]_vars => Manager'
  BY ManagerNext
<1>3. QED  BY <1>1, <1>2, TypesHold, PTL DEF Spec

\* While the gateway serves, what runs is what the configuration says, for
\* every channel that no reload under way replaces: an enabled one is there
\* with its section, a disabled one is not (reconfigure).
THEOREM ChannelsFollowConfiguration == Spec => []ChannelsMatch
<1>1. ASSUME Manager PROVE ChannelsMatch
  <2>1. ASSUME Serving, ~overlapped, NEW n \in Names, \A r \in Reloads : Spares(r, n)
        PROVE  Fits(n, config[n])
    BY <1>1, <2>1 DEF Manager, Apart, Staged, Serving
  <2>2. QED  BY <2>1 DEF ChannelsMatch, Fits, FitsIn
<1>2. QED  BY <1>1, ManagerHolds, PTL

\* Whatever start() still runs belongs to the channel in the table, and the
\* manager can cancel it, as long as reloads do not overlap: no two loops poll
\* one account (start_all, reconfigure).
THEOREM OneLoopForEachChannel == Spec => []OneLoopEach
<1>1. Manager => OneLoopEach
  BY DEF Manager, Apart, Tracks, OneLoopEach
<1>2. QED  BY <1>1, ManagerHolds, PTL

\* A channel's loop is cancelled by stop_all or by a reload that changes its
\* section, whatever fails meanwhile (reconfigure, "keep running undisturbed").
THEOREM UnchangedChannelsRun == Spec => Undisturbed
<1> DEFINE Allowed(k) ==
        \/ stop.stage = "cancel" \/ overlapped
        \/ \E r \in Reloads : reloads[r].stage = "pick" /\
                reloads[r].cfg[insts[tasks[k].inst].name] # insts[tasks[k].inst].conf
<1>1. ASSUME Types, Manager, Next, NEW k \in DOMAIN tasks,
             tasks[k].state # "cancelled", tasks'[k].state = "cancelled"
      PROVE  Allowed(k)
  <2>1. CASE tasks' = tasks
    BY <1>1, <2>1
  <2>2. ASSUME NEW j \in DOMAIN tasks, NEW s \in {"running", "over"},
               tasks' = [tasks EXCEPT ![j].state = s]
        PROVE  Allowed(k)
    <3>1. \A c \in Task : [c EXCEPT !.state = s].state = s
      BY DEF Task
    <3>2. tasks[j] \in Task
      BY <1>1, ElementsOf DEF Types, Objects
    <3>3. CASE j = k
      BY <1>1, <2>2, <3>1, <3>2, <3>3
    <3>4. CASE j # k
      BY <1>1, <2>2, <3>4
    <3>5. QED  BY <3>3, <3>4
  <2>3. ASSUME NEW j \in DOMAIN tasks, TaskSteps(j) \/ TaskRaises(j) PROVE Allowed(k)
    BY <2>2, <2>3 DEF TaskSteps, TaskRuns, TaskEnds, TaskRaises, TaskIsOver
  <2>4. ASSUME NEW n \in Names, StartChannel(n) PROVE Allowed(k)
    <3>1. /\ stop.stage = "starting" /\ n \in stop.todo /\ channels' = channels /\ StartsTask(n)
      BY <2>4 DEF StartChannel, First
    <3>2. channels[n] # 0
      BY <1>1, <3>1 DEF Types, Phases, Running
    <3>3. channels[n] \in 1 .. MaxInsts
      BY <1>1, <3>2, SeqIsFunction, Bounds DEF Types, Objects
    <3>4. tasks'[k] = tasks[k]
      BY <1>1, <3>1, <3>3, TaskStarted DEF Types
    <3>5. QED  BY <1>1, <3>4
  <2>5. ASSUME NEW r \in Reloads, NEW n \in Names, Restart(r, n) PROVE Allowed(k)
    <3> DEFINE conf == reloads[r].cfg[n]
    <3>1. /\ reloads[r].stage = "start" /\ n \in reloads[r].todo
          /\ Creates(n, conf)
          /\ IF n \in refused' THEN tasks' = tasks ELSE StartsTask(n)
      BY <2>5 DEF Restart, First
    <3>2. conf \in Confs
      BY <1>1, <3>1 DEF Types, Phases, Reload, Sections
    <3> HIDE DEF conf
    <3>3. n \notin refused' => channels'[n] \in 1 .. MaxInsts
      BY <1>1, <3>1, <3>2, Created DEF Types
    <3>4. n \notin refused' => tasks'[k] = tasks[k]
      BY <1>1, <3>1, <3>3, TaskStarted DEF Types
    <3>5. QED  BY <1>1, <2>1, <3>1, <3>4
  <2>6. ASSUME NEW r \in Reloads, NEW n \in Names, PickTask(r, n) PROVE Allowed(k)
    <3> SUFFICES ASSUME ~overlapped PROVE Allowed(k)
      OBVIOUS
    <3>1. reloads[r].stage = "pick" /\ n \in reloads[r].todo
      BY <2>6 DEF PickTask, First
    <3>2. k = tracked[n]
      BY <1>1, <2>6, PickTaskTypes
    <3>3. k # 0
      BY <1>1, SeqIsFunction DEF Types, Objects
    <3>4. tasks[k].inst = channels[n]
      BY <1>1, <3>2, <3>3 DEF Manager, Apart, Tracks
    <3>5. channels[n] # 0 /\ insts[channels[n]].conf # reloads[r].cfg[n]
      BY <1>1, <3>1 DEF Manager, Apart, Underway
    <3>6. insts[channels[n]].name = n
      BY <1>1, <3>5 DEF Types, Objects
    <3>7. QED  BY <3>1, <3>4, <3>5, <3>6
  <2>7. ASSUME NEW r \in Reloads, ReloadSteps(r) \/ ReloadFails(r) PROVE Allowed(k)
    BY <2>1, <2>5, <2>6, <2>7 DEF ReloadSteps, ReloadReads, Reconfigure, PopChannel,
       ChannelStopped, AllStopped, ReloadEnds, ReloadFails, manager
  <2>8. ASSUME NEW r \in Reloads, NEW cfg \in Saves, SaveAndReload(r, cfg) PROVE Allowed(k)
    BY <2>1, <2>8 DEF SaveAndReload, manager
  <2>9. CASE DispatcherSteps \/ \E n, m \in Names : Publish(n, m)
    BY <2>1, <2>9 DEF DispatcherSteps, Publish, Take, Sent, SendFails, Dispatch, manager
  <2>10. CASE Starts
    BY <2>1, <2>4, <2>10 DEF Starts, Listens, StartAll, Serves, InitChannel
  <2>11. CASE StopAll \/ Stops
    BY <2>1, <2>11 DEF StopAll, Stops, CancelTask, CancelDispatcher, Down, StopChannel
  <2>12. QED
    BY <1>1, <2>3, <2>7, <2>8, <2>9, <2>10, <2>11 DEF Next
<1>2. Types /\ Manager /\ [Next]_vars =>
        [\A k \in DOMAIN tasks :
            tasks[k].state # "cancelled" /\ tasks'[k].state = "cancelled" => Allowed(k)]_vars
  BY <1>1
<1>3. Spec => [][\A k \in DOMAIN tasks :
            tasks[k].state # "cancelled" /\ tasks'[k].state = "cancelled" => Allowed(k)]_vars
  BY <1>2, TypesHold, ManagerHolds, PTL DEF Spec
<1>4. QED  BY <1>3 DEF Undisturbed
-----------------------------------------------------------------------------
(* One channel on its own, from module Mochat.  Its lemmas take of the     *)
(* constants what MochatAssumption says of them.                           *)

\* What a message and an event are, whatever has been said.
Wired == [event : {"watch", "inbox", "panel"}, msg : Targets \X Nat]

MochatTypes ==
  /\ log \in [Targets -> Seq(Kinds)]
  /\ link \in [up : BOOLEAN, epoch : Nat, subs : SUBSET Sessions, wire : Seq(Wired)]
  /\ cursor \in [Sessions -> Int] /\ saved \in [Sessions -> Int]
  /\ workers \in [Targets -> [state : {"none", "asks", "answered", "cancelled"}, from : Int, upto : Nat]]
  /\ handlers \in [Handlers -> [stage : {"idle", "ask", "acked", "rest", "look", "gather"}, epoch : Nat,
                                from : [Sessions -> Int], upto : [Sessions -> Nat],
                                asked : SUBSET Sessions, ok : BOOLEAN]]
  /\ setup \in Setup /\ sessions \subseteq Sessions /\ cold \subseteq Sessions
  /\ seen \in [Targets -> Seq(Targets \X Nat)] /\ buffer \in [Panels -> Seq(Targets \X Nat)]

\* Message n of s is settled, or an acknowledgement on its way brings it.
Settled(s, n) == <<s, n>> \in ever \cup skipped \cup atRisk
Acking(s, n) == \E h \in Handlers : /\ handlers[h].stage = "acked" /\ s \in handlers[h].asked
                                    /\ handlers[h].from[s] < n /\ n <= handlers[h].upto[s]
Known(s, n) == Settled(s, n) \/ Acking(s, n)
Covered(s, c) == \A n \in Nat \ {0} : n <= c => Known(s, n)

Watch(s, n) == [event |-> "watch", msg |-> <<s, n>>]

\* Nothing is unknown before a cursor, wherever a copy of it is kept.
Cursors ==
  /\ \A s \in Sessions : Covered(s, cursor[s])
  /\ \A s \in Sessions : Covered(s, saved[s])
  /\ \A s \in Sessions : Covered(s, workers[s].from)
  /\ \A s \in Sessions, h \in Handlers : Covered(s, handlers[h].from[s])

\* Of a subscribed session everything is known or on the wire, in order.
Wires ==
  /\ ~link.up => link.subs = {} /\ link.wire = <<>>
  /\ \A i \in DOMAIN link.wire : link.wire[i].event = "watch" => link.wire[i].msg[1] \in Sessions
  /\ \A s \in link.subs : \A n \in 1 .. Len(log[s]) :
       Known(s, n) \/ \E j \in DOMAIN link.wire : link.wire[j] = Watch(s, n)
  /\ \A i \in DOMAIN link.wire : \A s \in Sessions, k \in Nat : link.wire[i] = Watch(s, k) =>
       \A n \in 1 .. k - 1 : Known(s, n) \/ \E j \in 1 .. i - 1 : link.wire[j] = Watch(s, n)
  /\ \A h \in Handlers : handlers[h].stage # "idle" => h <= link.epoch

Takes == \A s \in Sessions : ToSet(seen[s]) \subseteq ever

Sure == MochatTypes /\ Cursors /\ Wires /\ Takes


AllSaid == UNION {Said(c) : c \in Targets}
Distinct(q) == \A i, j \in DOMAIN q : q[i] = q[j] => i = j

\* Whatever is remembered, waits or is on its way was said.
Exist ==
  /\ IsFiniteSet(AllSaid)
  /\ \A t \in Targets : Len(log[t]) <= MaxSaid
  /\ \A t \in Targets : ToSet(seen[t]) \subseteq Said(t)
  /\ \A p \in Panels : ToSet(buffer[p]) \subseteq ToSet(seen[p])
  /\ \A h \in Handlers, s \in Sessions : handlers[h].upto[s] <= Len(log[s])
  /\ \A t \in Targets : workers[t].upto <= Len(log[t])
  /\ \A i \in DOMAIN link.wire : link.wire[i].msg \in Said(link.wire[i].msg[1])

Ignored(m) == setup.reply = "mention" /\ m[1] \in Panels /\ Kind(m) # "mention"

\* A message is remembered once; what is forwarded was remembered, what waits
\* was not forwarded, and what is remembered was forwarded, waits, or is ignored.
Once ==
  /\ forwarded \in [Messages -> {0, 1}]
  /\ \A t \in Targets : Distinct(seen[t])
  /\ \A m \in Messages : forwarded[m] = 1 => m \in ToSet(seen[m[1]])
  /\ \A p \in Panels : \A m \in ToSet(buffer[p]) : forwarded[m] = 0
  /\ Started => \A t \in Targets : \A m \in ToSet(seen[t]) :
       Ignored(m) \/ forwarded[m] = 1 \/ (t \in Panels /\ m \in ToSet(buffer[t]))
-----------------------------------------------------------------------------
(* The items at some places of a sequence.                                 *)

\* The places up to one, counted: every number has its place.
LEMMA Ranked ==
  ASSUME NEW n \in Nat, NEW ps \in SUBSET (1 .. n)
  PROVE  /\ IsFiniteSet(ps) /\ Cardinality(ps) \in Nat
         /\ \A i, j \in ps : Cardinality({l \in ps : l <= i}) = Cardinality({l \in ps : l <= j}) => i = j
         /\ \A k \in 1 .. Cardinality(ps) : \E i \in ps : Cardinality({l \in ps : l <= i}) = k
         /\ \A i \in ps : Cardinality({l \in ps : l <= i}) \in 1 .. Cardinality(ps)
<1> DEFINE Low(i) == {l \in ps : l <= i}
           rank == [i \in ps |-> Cardinality(Low(i))]
<1>1. IsFiniteSet(ps) /\ Cardinality(ps) \in Nat
  <2>1. IsFiniteSet(1 .. n) BY FS_Interval
  <2> QED BY <2>1, FS_Subset, FS_CardinalityType
<1>2. \A i \in ps : Low(i) \in SUBSET ps /\ IsFiniteSet(Low(i)) /\ Cardinality(Low(i)) \in Nat
                    /\ Cardinality(Low(i)) <= Cardinality(ps)
  BY <1>1, FS_Subset, FS_CardinalityType
<1>3. ASSUME NEW i \in ps PROVE Cardinality(Low(i)) >= 1
  <2>1. i \in Low(i) OBVIOUS
  <2>2. IsFiniteSet({i}) /\ Cardinality({i}) = 1 BY FS_Singleton
  <2>3. {i} \in SUBSET Low(i) BY <2>1
  <2>4. Cardinality({i}) <= Cardinality(Low(i)) BY <2>3, <1>2, FS_Subset
  <2> QED BY <2>2, <2>4, <1>2
<1>4. ASSUME NEW i \in ps, NEW j \in ps, i < j PROVE Cardinality(Low(i)) < Cardinality(Low(j))
  <2>0. \A l \in ps : l \in Int /\ (l <= i => l <= j) BY <1>4
  <2>1. Low(i) \in SUBSET Low(j) BY <2>0
  <2>2. j \in Low(j) /\ j \notin Low(i) BY <1>4
  <2>3. Low(i) # Low(j) BY <2>2
  <2>4. Cardinality(Low(i)) <= Cardinality(Low(j)) /\ Cardinality(Low(i)) # Cardinality(Low(j))
    BY <2>1, <2>3, <1>2, FS_Subset
  <2> QED BY <2>4, <1>2
<1>5. \A i, j \in ps : Cardinality(Low(i)) = Cardinality(Low(j)) => i = j
  <2> SUFFICES ASSUME NEW i \in ps, NEW j \in ps, Cardinality(Low(i)) = Cardinality(Low(j)), i # j PROVE FALSE
    OBVIOUS
  <2>1. CASE i < j BY <2>1, <1>4, <1>2
  <2>2. CASE j < i BY <2>2, <1>4, <1>2
  <2> QED BY <2>1, <2>2
<1>6. \A i \in ps : Cardinality(Low(i)) \in 1 .. Cardinality(ps) BY <1>1, <1>2, <1>3
<1>7. rank \in Injection(ps, 1 .. Cardinality(ps))
  <2>1. rank \in [ps -> 1 .. Cardinality(ps)] BY <1>6
  <2>2. \A i, j \in ps : rank[i] = rank[j] => i = j BY <1>5
  <2> QED BY <2>1, <2>2 DEF Injection, IsInjective
<1>8. IsFiniteSet(1 .. Cardinality(ps)) /\ Cardinality(1 .. Cardinality(ps)) = Cardinality(ps)
  BY <1>1, FS_Interval
<1>9. rank \in Surjection(ps, 1 .. Cardinality(ps)) BY <1>7, <1>8, FS_Injection
<1>10. \A k \in 1 .. Cardinality(ps) : \E i \in ps : rank[i] = k BY <1>9 DEF Surjection
<1>11. \A k \in 1 .. Cardinality(ps) : \E i \in ps : Cardinality(Low(i)) = k BY <1>10
<1> QED BY <1>1, <1>5, <1>6, <1>11

\* Every item at the places is there once, for each of its places, and no other.
LEMMA AtPlaces ==
  ASSUME NEW S, NEW q \in Seq(S), NEW ps \in SUBSET DOMAIN q
  PROVE  /\ At(q, ps) \in Seq(S)
         /\ ToSet(At(q, ps)) = {q[i] : i \in ps}
         /\ \A k, l \in DOMAIN At(q, ps) : k # l =>
              \E i, j \in ps : i # j /\ At(q, ps)[k] = q[i] /\ At(q, ps)[l] = q[j]
<1> DEFINE Low(i) == {l \in ps : l <= i}
           Place(k) == CHOOSE i \in ps : Cardinality(Low(i)) = k
<1>1. DOMAIN q = 1 .. Len(q) /\ Len(q) \in Nat OBVIOUS
<1>2. Cardinality(ps) \in Nat /\ \A i, j \in ps : Cardinality(Low(i)) = Cardinality(Low(j)) => i = j
  BY <1>1, Ranked
<1>3. \A k \in 1 .. Cardinality(ps) : \E i \in ps : Cardinality(Low(i)) = k BY <1>1, Ranked
<1>4. \A i \in ps : Cardinality(Low(i)) \in 1 .. Cardinality(ps) BY <1>1, Ranked
<1>5. \A k \in 1 .. Cardinality(ps) : Place(k) \in ps /\ Cardinality(Low(Place(k))) = k BY <1>3
<1>6. \A i \in ps : Place(Cardinality(Low(i))) = i BY <1>2, <1>4, <1>5
<1>7. At(q, ps) = [k \in 1 .. Cardinality(ps) |-> q[Place(k)]]
  BY DEF At
<1> HIDE DEF Low, Place
<1>8. \A k \in 1 .. Cardinality(ps) : q[Place(k)] \in S BY <1>5, <1>1
<1>9. At(q, ps) \in Seq(S) /\ DOMAIN At(q, ps) = 1 .. Cardinality(ps) BY <1>7, <1>8, <1>2
<1>10. ToSet(At(q, ps)) = {q[i] : i \in ps}
  <2>1. ToSet(At(q, ps)) = {q[Place(k)] : k \in 1 .. Cardinality(ps)} BY <1>7, <1>9 DEF ToSet
  <2>2. \A k \in 1 .. Cardinality(ps) : q[Place(k)] \in {q[i] : i \in ps} BY <1>5
  <2>3. \A i \in ps : q[i] = q[Place(Cardinality(Low(i)))] /\ Cardinality(Low(i)) \in 1 .. Cardinality(ps)
    BY <1>6, <1>4
  <2> QED BY <2>1, <2>2, <2>3
<1>11. ASSUME NEW k \in DOMAIN At(q, ps), NEW l \in DOMAIN At(q, ps), k # l
       PROVE \E i, j \in ps : i # j /\ At(q, ps)[k] = q[i] /\ At(q, ps)[l] = q[j]
  <2>1. Place(k) \in ps /\ Place(l) \in ps /\ Place(k) # Place(l) BY <1>5, <1>9, <1>11
  <2>2. At(q, ps)[k] = q[Place(k)] /\ At(q, ps)[l] = q[Place(l)] BY <1>7, <1>9
  <2> QED BY <2>1, <2>2
<1> QED BY <1>9, <1>10, <1>11

\* Of some places of a sequence one is the last.
LEMMA GreatestPlace ==
  ASSUME NEW n \in Nat, NEW P \in SUBSET (1 .. n), P # {}
  PROVE  \E i \in P : \A j \in P : j <= i
<1>1. /\ Cardinality(P) \in Nat
      /\ \A k \in 1 .. Cardinality(P) : \E i \in P : Cardinality({l \in P : l <= i}) = k
      /\ \A i \in P : Cardinality({l \in P : l <= i}) \in 1 .. Cardinality(P)
  BY Ranked
<1>2. Cardinality(P) \in 1 .. Cardinality(P)
  <2>1. PICK x \in P : TRUE OBVIOUS
  <2>2. Cardinality({l \in P : l <= x}) \in 1 .. Cardinality(P) BY <1>1
  <2> QED BY <1>1, <2>2
<1>3. PICK i \in P : Cardinality({l \in P : l <= i}) = Cardinality(P) BY <1>1, <1>2
<1>4. {l \in P : l <= i} = P
  <2>1. IsFiniteSet(P) BY Ranked
  <2>2. {l \in P : l <= i} \in SUBSET P OBVIOUS
  <2> QED BY <2>1, <2>2, <1>3, FS_Subset
<1> QED BY <1>4

-----------------------------------------------------------------------------
(* What hearing of messages does.                                          *)

\* The messages of ms that t has not had.
News(t, ms) == {m \in ToSet(ms) : m \notin ToSet(seen[t])}

\* The messages of ms at the places that are new.
New(t, ms) == At(ms, {i \in DOMAIN ms : ms[i] \notin ToSet(seen[t])})

LEMMA NewsAreNew ==
  ASSUME NEW t, NEW S, NEW ms \in Seq(S)
  PROVE  New(t, ms) \in Seq(S) /\ ToSet(New(t, ms)) = News(t, ms)
<1> DEFINE ps == {i \in DOMAIN ms : ms[i] \notin ToSet(seen[t])}
<1>1. ps \in SUBSET DOMAIN ms OBVIOUS
<1>2. At(ms, ps) \in Seq(S) /\ ToSet(At(ms, ps)) = {ms[i] : i \in ps} BY <1>1, AtPlaces
<1>3. {ms[i] : i \in ps} = News(t, ms) BY DEF News, ToSet
<1> QED BY <1>2, <1>3 DEF New

\* What is remembered was remembered before or is new.
LEMMA RememberedFrom ==
  ASSUME NEW t, NEW S, NEW new \in Seq(S), seen[t] \in Seq(S), MaxSeen \in Nat
  PROVE  /\ Remembered(t, new) \in Seq(S)
         /\ ToSet(Remembered(t, new)) \subseteq ToSet(seen[t]) \cup ToSet(new)
<1> DEFINE all == seen[t] \o new
           a == (IF Len(all) > MaxSeen THEN Len(all) - MaxSeen ELSE 0) + 1
<1>1. all \in Seq(S) /\ Len(all) \in Nat /\ Len(all) = Len(seen[t]) + Len(new) OBVIOUS
<1>2. a \in 1 .. Len(all) + 1 BY <1>1
<1>3. \A i \in 1 .. Len(all) : all[i] \in ToSet(seen[t]) \cup ToSet(new)
  <2> SUFFICES ASSUME NEW i \in 1 .. Len(all) PROVE all[i] \in ToSet(seen[t]) \cup ToSet(new) OBVIOUS
  <2>1. CASE i <= Len(seen[t]) BY <2>1 DEF ToSet
  <2>2. CASE i > Len(seen[t])
    <3>1. all[i] = new[i - Len(seen[t])] /\ i - Len(seen[t]) \in DOMAIN new BY <2>2, <1>1
    <3> QED BY <3>1 DEF ToSet
  <2> QED BY <2>1, <2>2, <1>1
<1>4. Remembered(t, new) = SubSeq(all, a, Len(all)) BY DEF Remembered
<1> HIDE DEF all, a
<1>5. /\ SubSeq(all, a, Len(all)) \in Seq(S)
      /\ \A k \in DOMAIN SubSeq(all, a, Len(all)) : \E i \in 1 .. Len(all) : SubSeq(all, a, Len(all))[k] = all[i]
  <2>1. \A i \in a .. Len(all) : all[i] \in S BY <1>1, <1>2
  <2>2. SubSeq(all, a, Len(all)) \in Seq(S) BY <1>1, <1>2, <2>1, SubSeqProperties
  <2>3. \A k \in DOMAIN SubSeq(all, a, Len(all)) :
           SubSeq(all, a, Len(all))[k] = all[a + k - 1] /\ a + k - 1 \in 1 .. Len(all)
    BY <1>1, <1>2, SubSeqProperties
  <2> QED BY <2>2, <2>3
<1> QED BY <1>3, <1>4, <1>5 DEF ToSet

\* A session's messages are given to the agent if they are new, and those that
\* are not are remembered; a panel's may wait.
LEMMA Heard ==
  ASSUME MaxSeen \in Nat, NEW S, seen \in [Targets -> Seq(S)], buffer \in [Panels -> Seq(S)],
         NEW t \in Targets, NEW ms \in Seq(S), Sessions \cap Panels = {}, Hear(t, ms)
  PROVE  /\ seen' \in [Targets -> Seq(S)] /\ buffer' \in [Panels -> Seq(S)]
         /\ ever \subseteq ever'
         /\ \A u \in Targets : u # t => seen'[u] = seen[u]
         /\ ToSet(seen'[t]) \subseteq ToSet(seen[t]) \cup News(t, ms)
         /\ t \in Sessions => News(t, ms) \subseteq ever'
<1> DEFINE new == New(t, ms)
<1>1. new \in Seq(S) /\ ToSet(new) = News(t, ms) BY NewsAreNew
<1>2. seen' = [seen EXCEPT ![t] = Remembered(t, new)] BY DEF Hear, New
<1>3. /\ Remembered(t, new) \in Seq(S)
      /\ ToSet(Remembered(t, new)) \subseteq ToSet(seen[t]) \cup ToSet(new)
  BY <1>1, RememberedFrom
<1>4. CASE t \in Panels /\ setup.reply = "delay"
  <2>1. Delay(t, new) BY <1>4 DEF Hear, New
  <2> DEFINE mentions == {i \in 1 .. Len(new) : Kind(new[i]) = "mention"}
             k == IF mentions = {} THEN 0 ELSE CHOOSE i \in mentions : \A j \in mentions : j <= i
  <2>2. /\ buffer' = [buffer EXCEPT ![t] = IF k = 0 THEN @ \o new ELSE SubSeq(new, k + 1, Len(new))]
        /\ ever \subseteq ever'
    BY <2>1 DEF Delay, Forward
  <2>3. buffer[t] \o new \in Seq(S) BY <1>4, <1>1
  <2>4. SubSeq(new, k + 1, Len(new)) \in Seq(S) \/ k = 0
    <3>1. CASE mentions = {} BY <3>1
    <3>2. CASE mentions # {} /\ \E i \in mentions : \A j \in mentions : j <= i
      <4>1. k \in 1 .. Len(new) BY <3>2
      <4> HIDE DEF k
      <4>2. k + 1 \in 1 .. Len(new) + 1 BY <4>1
      <4> QED BY <4>2, <1>1, SubSeqProperties
    <3>3. mentions # {} => \E i \in mentions : \A j \in mentions : j <= i
      <4>1. mentions \in SUBSET (1 .. Len(new)) /\ Len(new) \in Nat BY <1>1
      <4> HIDE DEF mentions, new
      <4> QED BY <4>1, GreatestPlace
    <3> QED BY <3>1, <3>2, <3>3
  <2> HIDE DEF k
  <2>5. buffer' \in [Panels -> Seq(S)] BY <2>2, <2>3, <2>4, <1>4
  <2> QED BY <1>1, <1>2, <1>3, <1>4, <2>2, <2>5
<1>5. CASE ~(t \in Panels /\ setup.reply = "delay")
  <2>1. buffer' = buffer BY <1>5 DEF Hear, New
  <2>2. ever' = ever \cup IF t \in Panels /\ setup.reply = "mention"
                          THEN {m \in ToSet(new) : Kind(m) = "mention"} ELSE ToSet(new)
    BY <1>5 DEF Hear, New, Forward
  <2> QED BY <1>1, <1>2, <1>3, <2>1, <2>2
<1> QED BY <1>4, <1>5

-----------------------------------------------------------------------------
(* What is known stays known.                                              *)

Grows == \A s \in Sessions, n \in Nat \ {0} : Known(s, n) => Known(s, n)'

\* Everything up to c is known, before the step or after it.
Backed(s, c) == \A n \in Nat \ {0} : n <= c => Known(s, n) \/ Known(s, n)'

LEMMA Grown ==
  ASSUME handlers' = handlers,
         ever \subseteq ever', skipped \subseteq skipped', atRisk \subseteq atRisk'
  PROVE  Grows
BY DEF Grows, Known, Settled, Acking

LEMMA CursorsFollow ==
  ASSUME Grows,
         \A s \in Sessions : /\ Backed(s, cursor'[s]) /\ Backed(s, saved'[s]) /\ Backed(s, workers'[s].from)
                             /\ \A h \in Handlers : Backed(s, handlers'[h].from[s])
  PROVE  Cursors'
<1>1. \A s \in Sessions, n \in Nat \ {0} : Known(s, n) => Known(s, n)' BY DEF Grows
<1> HIDE DEF Known
<1>2. \A s \in Sessions : Covered(s, cursor[s])' BY <1>1 DEF Backed, Covered
<1>3. \A s \in Sessions : Covered(s, saved[s])' BY <1>1 DEF Backed, Covered
<1>4. \A s \in Sessions : Covered(s, workers[s].from)' BY <1>1 DEF Backed, Covered
<1>5. \A s \in Sessions, h \in Handlers : Covered(s, handlers[h].from[s])' BY <1>1 DEF Backed, Covered, Handlers
<1> QED BY <1>2, <1>3, <1>4, <1>5 DEF Cursors, Handlers

LEMMA CursorsBack ==
  ASSUME Cursors
  PROVE  \A s \in Sessions :
           /\ Backed(s, cursor[s]) /\ Backed(s, saved[s]) /\ Backed(s, workers[s].from)
           /\ \A h \in Handlers : Backed(s, handlers[h].from[s])
           /\ \A c \in Int : c <= 0 => Backed(s, c)
BY DEF Cursors, Backed, Covered

\* The link as it was, or cut.
Cut == link'.up = FALSE /\ link'.subs = {} /\ link'.wire = <<>> /\ link'.epoch = link.epoch

LEMMA WiresFollow ==
  ASSUME Wires, Grows, MochatTypes, log' = log, link' = link \/ Cut,
         \A h \in Handlers : handlers'[h].stage # "idle" => handlers[h].stage # "idle" \/ h <= link.epoch
  PROVE  Wires'
<1>1. \A s \in Sessions, n \in Nat \ {0} : Known(s, n) => Known(s, n)' BY DEF Grows
<1>2. \A h \in Handlers : handlers'[h].stage # "idle" => h <= link'.epoch BY DEF Wires, Cut
<1>3. CASE Cut BY <1>2, <1>3 DEF Wires, Cut
<1>4. CASE link' = link
  <2>1. link.subs \subseteq Sessions /\ link.wire \in Seq(Wired) BY DEF MochatTypes
  <2>2. \A s \in link.subs : \A n \in 1 .. Len(log[s]) :
           Known(s, n)' \/ \E j \in DOMAIN link.wire : link.wire[j] = Watch(s, n)
    <3> SUFFICES ASSUME NEW s \in link.subs, NEW n \in 1 .. Len(log[s]),
                        ~\E j \in DOMAIN link.wire : link.wire[j] = Watch(s, n)
                 PROVE Known(s, n)' OBVIOUS
    <3>1. Known(s, n) BY DEF Wires
    <3> QED BY <3>1, <1>1, <2>1
  <2>3. \A i \in DOMAIN link.wire : \A s \in Sessions, k \in Nat : link.wire[i] = Watch(s, k) =>
           \A n \in 1 .. k - 1 : Known(s, n)' \/ \E j \in 1 .. i - 1 : link.wire[j] = Watch(s, n)
    <3> SUFFICES ASSUME NEW i \in DOMAIN link.wire, NEW s \in Sessions, NEW k \in Nat,
                        link.wire[i] = Watch(s, k), NEW n \in 1 .. k - 1,
                        ~\E j \in 1 .. i - 1 : link.wire[j] = Watch(s, n)
                 PROVE Known(s, n)' OBVIOUS
    <3>1. Known(s, n) BY DEF Wires
    <3> QED BY <3>1, <1>1
  <2>4. /\ ~link.up => link.subs = {} /\ link.wire = <<>>
        /\ \A i \in DOMAIN link.wire : link.wire[i].event = "watch" => link.wire[i].msg[1] \in Sessions
    BY DEF Wires
  <2> HIDE DEF Known, Watch
  <2> QED BY <1>2, <1>4, <2>2, <2>3, <2>4 DEF Wires, Watch
<1> QED BY <1>3, <1>4

\* A step that leaves the server's side alone.
LEMMA SureFollows ==
  ASSUME Sure, Grows, MochatTypes', Takes', log' = log, link' = link \/ Cut,
         \A h \in Handlers : handlers'[h].stage # "idle" => handlers[h].stage # "idle" \/ h <= link.epoch,
         \A s \in Sessions : /\ Backed(s, cursor'[s]) /\ Backed(s, saved'[s]) /\ Backed(s, workers'[s].from)
                             /\ \A h \in Handlers : Backed(s, handlers'[h].from[s])
  PROVE  Sure'
<1>1. Cursors' BY CursorsFollow
<1>2. Wires' BY WiresFollow DEF Sure
<1> QED BY <1>1, <1>2 DEF Sure

LEMMA TakesStay == ASSUME Takes, seen' = seen, ever \subseteq ever' PROVE Takes'
BY DEF Takes

-----------------------------------------------------------------------------
(* Parts of steps.                                                         *)

WorkersType == [Targets -> [state : {"none", "asks", "answered", "cancelled"}, from : Int, upto : Nat]]

LEMMA AsksType ==
  ASSUME MochatTypes, NEW t \in Targets
  PROVE  /\ Asks(t) \in [state : {"none", "asks", "answered", "cancelled"}, from : Int, upto : Nat]
         /\ Asks(t).from = (IF t \in Sessions THEN cursor[t] ELSE -1) /\ Asks(t).upto = 0
BY DEF Asks, MochatTypes

LEMMA EnsuredType ==
  ASSUME MochatTypes, NEW ts
  PROVE  /\ Ensured(ts) \in WorkersType
         /\ \A s \in Sessions : Ensured(ts)[s].from \in {cursor[s], workers[s].from}
         /\ \A t \in Targets : Ensured(ts)[t].upto \in {0, workers[t].upto}
<1>1. workers \in WorkersType BY DEF MochatTypes, WorkersType
<1>2. \A t \in Targets : Ensured(ts)[t] \in {Asks(t), workers[t]} BY DEF Ensured
<1>3. DOMAIN Ensured(ts) = Targets /\ Ensured(ts) = [t \in Targets |-> Ensured(ts)[t]] BY DEF Ensured
<1>4. Sessions \subseteq Targets BY DEF Targets
<1> QED BY <1>1, <1>2, <1>3, <1>4, AsksType DEF WorkersType

LEMMA EnsureType ==
  ASSUME MochatTypes, NEW ts, Ensure(ts)
  PROVE  /\ workers' \in WorkersType
         /\ \A s \in Sessions : workers'[s].from \in {cursor[s], workers[s].from}
         /\ \A t \in Targets : workers'[t].upto \in {0, workers[t].upto}
<1>1. workers \in WorkersType BY DEF MochatTypes, WorkersType
<1> QED BY <1>1, EnsuredType DEF Ensure

LEMMA CancelledType ==
  ASSUME MochatTypes
  PROVE  /\ WorkersCancelled \in WorkersType /\ Cleared \in WorkersType
         /\ \A s \in Sessions : WorkersCancelled[s].from \in {-1, workers[s].from}
                                /\ Cleared[s].from \in {-1, workers[s].from}
         /\ \A t \in Targets : WorkersCancelled[t].upto \in {0, workers[t].upto}
                               /\ Cleared[t].upto \in {0, workers[t].upto}
<1>1. workers \in WorkersType /\ Sessions \subseteq Targets BY DEF MochatTypes, WorkersType, Targets
<1> QED BY <1>1 DEF WorkersCancelled, Cleared, NoWorker, WorkersType

LEMMA Fixed ==
  ASSUME Given
  PROVE  Sessions \cap Panels = {} /\ MaxSeen \in Nat
BY DEF Given

LEMMA PayloadSettles ==
  ASSUME Given, MochatTypes, Takes, NEW s \in Sessions, NEW ms \in Seq(Targets \X Nat), NEW upto \in Int,
         Payload(s, ms, upto)
  PROVE  /\ cursor' \in [Sessions -> Int] /\ cold' \subseteq Sessions
         /\ seen' \in [Targets -> Seq(Targets \X Nat)] /\ buffer' \in [Panels -> Seq(Targets \X Nat)]
         /\ ever \subseteq ever' /\ skipped \subseteq skipped' /\ Takes'
         /\ ToSet(ms) \subseteq ever' \cup skipped'
         /\ \A u \in Sessions : u # s => cursor'[u] = cursor[u]
         /\ cursor'[s] \in {cursor[s], upto}
<1>1. /\ cursor' \in [Sessions -> Int]
      /\ \A u \in Sessions : u # s => cursor'[u] = cursor[u]
      /\ cursor'[s] \in {cursor[s], upto}
  BY DEF Payload, Marked, MochatTypes
<1>2. s \in Targets BY DEF Targets
<1>3. CASE s \in cold
  <2>1. cold' = cold \ {s} /\ skipped' = skipped \cup ToSet(ms) /\ UNCHANGED <<seen, buffer, forwarded, ever>>
    BY <1>3 DEF Payload, hearing
  <2>2. Takes' BY <2>1, TakesStay
  <2> QED BY <1>1, <2>1, <2>2 DEF MochatTypes
<1>4. CASE s \notin cold
  <2>1. Hear(s, ms) /\ cold' = cold /\ skipped' = skipped BY <1>4 DEF Payload
  <2>2. /\ seen' \in [Targets -> Seq(Targets \X Nat)] /\ buffer' \in [Panels -> Seq(Targets \X Nat)]
        /\ ever \subseteq ever'
        /\ \A u \in Targets : u # s => seen'[u] = seen[u]
        /\ ToSet(seen'[s]) \subseteq ToSet(seen[s]) \cup News(s, ms)
        /\ News(s, ms) \subseteq ever'
    <3>1. seen \in [Targets -> Seq(Targets \X Nat)] /\ buffer \in [Panels -> Seq(Targets \X Nat)] BY DEF MochatTypes
    <3> QED BY <1>2, <2>1, <3>1, Heard, Fixed
  <2>3. ToSet(seen[s]) \subseteq ever BY DEF Takes
  <2>4. ToSet(ms) \subseteq ever' BY <2>2, <2>3 DEF News
  <2>5. Takes' BY <2>2, <2>3 DEF Takes, Targets
  <2> QED BY <1>1, <2>1, <2>2, <2>4, <2>5 DEF MochatTypes
<1> QED BY <1>3, <1>4

\* Hearing of messages without a cursor.
LEMMA HearSettles ==
  ASSUME Given, MochatTypes, Takes, NEW t \in Targets, NEW ms \in Seq(Targets \X Nat), Hear(t, ms)
  PROVE  /\ seen' \in [Targets -> Seq(Targets \X Nat)] /\ buffer' \in [Panels -> Seq(Targets \X Nat)]
         /\ ever \subseteq ever' /\ Takes'
<1>1. /\ seen' \in [Targets -> Seq(Targets \X Nat)] /\ buffer' \in [Panels -> Seq(Targets \X Nat)]
      /\ ever \subseteq ever'
      /\ \A u \in Targets : u # t => seen'[u] = seen[u]
      /\ ToSet(seen'[t]) \subseteq ToSet(seen[t]) \cup News(t, ms)
      /\ t \in Sessions => News(t, ms) \subseteq ever'
  <2>1. seen \in [Targets -> Seq(Targets \X Nat)] /\ buffer \in [Panels -> Seq(Targets \X Nat)] BY DEF MochatTypes
  <2> QED BY <2>1, Heard, Fixed
<1>2. \A u \in Sessions : ToSet(seen[u]) \subseteq ever BY DEF Takes
<1>3. Takes' BY <1>1, <1>2 DEF Takes, Targets
<1> QED BY <1>1, <1>3

\* The messages after place a and up to place b.
LEMMA BetweenPlaces ==
  ASSUME NEW t \in Targets, NEW a \in Nat, NEW b \in Nat
  PROVE  /\ Between(t, a, b) \in Seq(Targets \X Nat)
         /\ ToSet(Between(t, a, b)) = {<<t, n>> : n \in a + 1 .. b}
         /\ \A i, j \in DOMAIN Between(t, a, b) : Between(t, a, b)[i] = Between(t, a, b)[j] => i = j
<1> DEFINE k == IF b > a THEN b - a ELSE 0
<1>1. k \in Nat OBVIOUS
<1>2. Between(t, a, b) = [i \in 1 .. k |-> <<t, a + i>>] BY DEF Between
<1>3. Between(t, a, b) \in Seq(Targets \X Nat) /\ DOMAIN Between(t, a, b) = 1 .. k BY <1>1, <1>2
<1>4. ToSet(Between(t, a, b)) = {<<t, a + i>> : i \in 1 .. k} BY <1>2, <1>3 DEF ToSet
<1>5. \A n \in a + 1 .. b : n - a \in 1 .. k /\ n = a + (n - a) OBVIOUS
<1>6. \A i \in 1 .. k : a + i \in a + 1 .. b OBVIOUS
<1> HIDE DEF k
<1>7. {<<t, a + i>> : i \in 1 .. k} = {<<t, n>> : n \in a + 1 .. b} BY <1>5, <1>6
<1>8. ASSUME NEW i \in 1 .. k, NEW j \in 1 .. k, Between(t, a, b)[i] = Between(t, a, b)[j] PROVE i = j
  <2>1. <<t, a + i>> = <<t, a + j>> BY <1>2, <1>8
  <2> QED BY <2>1, <1>1
<1> QED BY <1>3, <1>4, <1>7, <1>8

-----------------------------------------------------------------------------
(* The steps and what is known.                                            *)

LEMMA SetupTyped == ASSUME Given, MochatInit PROVE setup \in Setup
BY DEF Given, MochatInit

LEMMA InitSure == ASSUME Given, MochatInit PROVE Sure
<1>1. MochatTypes
  <2>0. setup \in Setup BY SetupTyped
  <2>1. log \in [Targets -> Seq(Kinds)] BY DEF MochatInit
  <2>2. link \in [up : BOOLEAN, epoch : Nat, subs : SUBSET Sessions, wire : Seq(Wired)] BY DEF MochatInit
  <2>3. cursor \in [Sessions -> Int] /\ saved \in [Sessions -> Int] BY DEF MochatInit
  <2>4. workers \in [Targets -> [state : {"none", "asks", "answered", "cancelled"}, from : Int, upto : Nat]]
    BY DEF MochatInit, NoWorker
  <2>5. handlers \in [Handlers -> [stage : {"idle", "ask", "acked", "rest", "look", "gather"}, epoch : Nat,
                                    from : [Sessions -> Int], upto : [Sessions -> Nat],
                                    asked : SUBSET Sessions, ok : BOOLEAN]]
    BY DEF MochatInit, IdleHandler
  <2>6. sessions \subseteq Sessions /\ cold \subseteq Sessions BY DEF MochatInit
  <2>7. seen \in [Targets -> Seq(Targets \X Nat)] /\ buffer \in [Panels -> Seq(Targets \X Nat)] BY DEF MochatInit
  <2> QED BY <2>0, <2>1, <2>2, <2>3, <2>4, <2>5, <2>6, <2>7 DEF MochatTypes
<1>2. Cursors BY DEF MochatInit, Cursors, Covered, NoWorker, IdleHandler, Targets
<1>3. Wires BY DEF MochatInit, Wires, IdleHandler
<1>4. Takes BY DEF MochatInit, Takes, Targets, ToSet
<1> QED BY <1>1, <1>2, <1>3, <1>4 DEF Sure

LEMMA TimerFiresSure == ASSUME Sure, NEW t \in Panels, TimerFires(t) PROVE Sure'
<1>1. UNCHANGED <<log, link, setup, sessions, cold, cursor, skipped, saved, workers, handlers, seen, atRisk>>
      /\ ever \subseteq ever' /\ buffer' = [buffer EXCEPT ![t] = <<>>]
  BY DEF TimerFires, Forward, object, cursors
<1>2. MochatTypes' BY <1>1 DEF Sure, MochatTypes
<1>3. Grows /\ Takes' BY <1>1, Grown, TakesStay DEF Sure
<1> QED BY <1>1, <1>2, <1>3, CursorsBack, SureFollows DEF Sure

LEMMA StrayFiresSure == ASSUME Sure, StrayFires PROVE Sure'
<1>1. UNCHANGED <<log, link, setup, sessions, cold, cursor, skipped, saved, workers, handlers, seen, buffer, atRisk>>
      /\ ever \subseteq ever'
  BY DEF StrayFires, object, cursors
<1>2. MochatTypes' BY <1>1 DEF Sure, MochatTypes
<1>3. Grows /\ Takes' BY <1>1, Grown, TakesStay DEF Sure
<1> QED BY <1>1, <1>2, <1>3, CursorsBack, SureFollows DEF Sure

LEMMA SaveCursorsSure == ASSUME Sure, SaveCursors PROVE Sure'
<1>1. UNCHANGED <<log, link, setup, sessions, cold, cursor, skipped, workers, handlers, seen, buffer, ever, atRisk>>
      /\ saved' = cursor
  BY DEF SaveCursors, object, hearing
<1>2. MochatTypes' BY <1>1 DEF Sure, MochatTypes
<1>3. Grows /\ Takes' BY <1>1, Grown, TakesStay DEF Sure
<1> QED BY <1>1, <1>2, <1>3, CursorsBack, SureFollows DEF Sure

LEMMA StartSure == ASSUME Given, Sure, Start PROVE Sure'
<1>1. UNCHANGED <<log, link, setup, skipped, saved, workers, handlers, ever, atRisk>>
      /\ cursor' = saved /\ sessions' = setup.listed /\ cold' = {s \in setup.listed : saved[s] = -1}
      /\ seen' = [t \in Targets |-> <<>>] /\ buffer' = [t \in Panels |-> <<>>]
  BY DEF Start
<1>2. setup.listed \subseteq Sessions BY DEF Sure, MochatTypes, Setup
<1>3. MochatTypes' BY <1>1, <1>2 DEF Sure, MochatTypes
<1>4. Grows BY <1>1, Grown
<1>5. Takes' BY <1>1 DEF Takes, Targets, ToSet
<1> QED BY <1>1, <1>3, <1>4, <1>5, CursorsBack, SureFollows DEF Sure

LEMMA StartRefreshedSure ==
  ASSUME Sure, NEW found \in {{}, Found}, StartRefreshed(found) \/ StartPolls(found) PROVE Sure'
<1>1. UNCHANGED <<log, link, setup, cursor, skipped, saved, handlers, seen, buffer, ever, atRisk>>
      /\ sessions' = sessions \cup found /\ cold' = Chilled(found)
      /\ (workers' = workers \/ Ensure(sessions' \cup setup.panels))
  BY DEF StartRefreshed, StartPolls, hearing
<1>2. found \subseteq Sessions BY DEF Found
<1>3. /\ workers' \in WorkersType
      /\ \A s \in Sessions : workers'[s].from \in {cursor[s], workers[s].from}
  <2>1. MochatTypes BY DEF Sure
  <2>2. CASE Ensure(sessions' \cup setup.panels) BY <2>1, <2>2, EnsureType
  <2>3. CASE workers' = workers BY <2>1, <2>3 DEF MochatTypes, WorkersType
  <2> QED BY <1>1, <2>2, <2>3
<1>4. MochatTypes' BY <1>1, <1>2, <1>3 DEF Sure, MochatTypes, Chilled, WorkersType
<1>5. Grows /\ Takes' BY <1>1, Grown, TakesStay DEF Sure
<1> QED BY <1>1, <1>3, <1>4, <1>5, CursorsBack, SureFollows DEF Sure

LEMMA ConnectedSure == ASSUME Sure, Connected PROVE Sure'
<1>1. UNCHANGED <<log, link, setup, sessions, cold, cursor, skipped, saved, workers, handlers, seen, buffer, ever, atRisk>>
  BY DEF Connected, cursors, hearing
<1>2. MochatTypes' BY <1>1 DEF Sure, MochatTypes
<1>3. Grows /\ Takes' BY <1>1, Grown, TakesStay DEF Sure
<1> QED BY <1>1, <1>2, <1>3, CursorsBack, SureFollows DEF Sure

LEMMA CutTyped ==
  ASSUME MochatTypes
  PROVE  LET l == [link EXCEPT !.up = FALSE, !.subs = {}, !.wire = <<>>]
         IN /\ l \in [up : BOOLEAN, epoch : Nat, subs : SUBSET Sessions, wire : Seq(Wired)]
            /\ l.up = FALSE /\ l.subs = {} /\ l.wire = <<>> /\ l.epoch = link.epoch
<1>1. link \in [up : BOOLEAN, epoch : Nat, subs : SUBSET Sessions, wire : Seq(Wired)] BY DEF MochatTypes
<1>2. <<>> \in Seq(Wired) OBVIOUS
<1> QED BY <1>1, <1>2

\* The connection ends and workers may be started.
LEMMA BrokenSure == ASSUME Sure, ConnectFails \/ Break PROVE Sure'
<1>1. UNCHANGED <<log, setup, sessions, cold, cursor, skipped, saved, handlers, seen, buffer, ever, atRisk>>
      /\ link' = [link EXCEPT !.up = FALSE, !.subs = {}, !.wire = <<>>]
      /\ Ensure(sessions \cup setup.panels)
  BY DEF ConnectFails, Break, cursors, hearing
<1>2. MochatTypes BY DEF Sure
<1>3. Cut /\ link' \in [up : BOOLEAN, epoch : Nat, subs : SUBSET Sessions, wire : Seq(Wired)]
  BY <1>1, <1>2, CutTyped DEF Cut
<1>4. /\ workers' \in WorkersType
      /\ \A s \in Sessions : workers'[s].from \in {cursor[s], workers[s].from}
  BY <1>1, <1>2, EnsureType
<1>5. MochatTypes' BY <1>1, <1>2, <1>3, <1>4 DEF MochatTypes, WorkersType
<1>6. Grows /\ Takes' BY <1>1, Grown, TakesStay DEF Sure
<1> QED BY <1>1, <1>3, <1>4, <1>5, <1>6, CursorsBack, SureFollows DEF Sure

LEMMA StopSure == ASSUME Sure, Stop \/ StopClears \/ RefreshEnsures PROVE Sure'
<1>1. UNCHANGED <<log, link, setup, sessions, cold, cursor, skipped, saved, handlers, seen, ever, atRisk>>
      /\ (buffer' = buffer \/ buffer' = [t \in Panels |-> <<>>])
      /\ workers' \in {WorkersCancelled, Cleared, Ensured(sessions \cup setup.panels)}
  BY DEF Stop, StopClears, RefreshEnsures, object, cursors, hearing
<1>2. MochatTypes BY DEF Sure
<1>3. /\ workers' \in WorkersType
      /\ \A s \in Sessions : workers'[s].from \in {-1, cursor[s], workers[s].from}
  BY <1>1, <1>2, CancelledType, EnsuredType
<1>4. MochatTypes'
  <2>0. buffer \in [Panels -> Seq(Targets \X Nat)] BY <1>2 DEF MochatTypes
  <2>1. buffer' \in [Panels -> Seq(Targets \X Nat)]
    <3>1. CASE buffer' = buffer BY <2>0, <3>1
    <3>2. CASE buffer' = [t \in Panels |-> <<>>] BY <3>2
    <3> QED BY <1>1, <3>1, <3>2
  <2>2. workers' \in [Targets -> [state : {"none", "asks", "answered", "cancelled"}, from : Int, upto : Nat]]
    BY <1>3 DEF WorkersType
  <2> QED BY <1>1, <1>2, <2>1, <2>2 DEF MochatTypes
<1>5. Grows /\ Takes' BY <1>1, Grown, TakesStay DEF Sure
<1> QED BY <1>1, <1>3, <1>4, <1>5, CursorsBack, SureFollows DEF Sure

\* What an acknowledgement brings is among what is carried.
LEMMA AckingCarried ==
  ASSUME MochatTypes, NEW s \in Sessions, NEW n \in Nat \ {0}, Acking(s, n)
  PROVE  <<s, n>> \in Carried(s)
<1>1. PICK h \in Handlers : /\ handlers[h].stage = "acked" /\ s \in handlers[h].asked
                            /\ handlers[h].from[s] < n /\ n <= handlers[h].upto[s] BY DEF Acking
<1>2. handlers[h].from[s] \in Int /\ handlers[h].upto[s] \in Nat /\ s \in Targets
  BY DEF MochatTypes, Targets
<1>3. AtLeast0(handlers[h].from[s]) \in Nat /\ n \in AtLeast0(handlers[h].from[s]) + 1 .. handlers[h].upto[s]
  BY <1>1, <1>2 DEF AtLeast0
<1>4. ToSet(Brought(h, s)) = {<<s, m>> : m \in AtLeast0(handlers[h].from[s]) + 1 .. handlers[h].upto[s]}
  BY <1>2, <1>3, BetweenPlaces DEF Brought
<1>5. <<s, n>> \in ToSet(Brought(h, s)) BY <1>3, <1>4
<1> QED BY <1>1, <1>5 DEF Carried

LEMMA StopLeavesSure == ASSUME Sure, StopLeaves PROVE Sure'
<1>1. UNCHANGED <<log, setup, sessions, cold, skipped, cursor, seen, ever, workers>>
      /\ link' = [link EXCEPT !.up = FALSE, !.subs = {}, !.wire = <<>>]
      /\ saved' = cursor /\ buffer' = [t \in Panels |-> <<>>]
      /\ handlers' = [h \in Handlers |-> IdleHandler]
      /\ atRisk' = atRisk \cup UNION {Carried(s) : s \in Sessions}
  BY DEF StopLeaves, Offline
<1>2. MochatTypes BY DEF Sure
<1>3. Cut /\ link' \in [up : BOOLEAN, epoch : Nat, subs : SUBSET Sessions, wire : Seq(Wired)]
  BY <1>1, <1>2, CutTyped DEF Cut
<1>4. MochatTypes' BY <1>1, <1>2, <1>3 DEF MochatTypes, IdleHandler, Handlers
<1>5. Grows
  <2> SUFFICES ASSUME NEW s \in Sessions, NEW n \in Nat \ {0}, Known(s, n) PROVE Known(s, n)'
    BY DEF Grows
  <2>1. CASE Settled(s, n) BY <1>1, <2>1 DEF Known, Settled
  <2>2. CASE Acking(s, n) BY <1>1, <1>2, <2>2, AckingCarried DEF Known, Settled
  <2> QED BY <2>1, <2>2 DEF Known
<1>6. Takes' BY <1>1, TakesStay DEF Sure
<1>7. \A s \in Sessions, h \in Handlers : handlers'[h].from[s] = -1 /\ handlers'[h].stage = "idle"
  BY <1>1 DEF IdleHandler
<1>8. \A h \in Handlers : handlers'[h].stage = "idle" BY <1>1 DEF IdleHandler
<1> QED BY <1>1, <1>3, <1>4, <1>5, <1>6, <1>7, <1>8, CursorsBack, SureFollows DEF Sure

LEMMA CrashSure == ASSUME Sure, Crash PROVE Sure'
<1>1. UNCHANGED <<log, setup, sessions, cold, skipped, seen, ever>>
      /\ link' = [link EXCEPT !.up = FALSE, !.subs = {}, !.wire = <<>>]
      /\ (saved' = saved \/ saved' = [s \in Sessions |-> -1]) /\ cursor' = saved'
      /\ buffer' = [t \in Panels |-> <<>>]
      /\ workers' = [t \in Targets |-> NoWorker]
      /\ handlers' = [h \in Handlers |-> IdleHandler]
      /\ atRisk' = atRisk \cup UNION {Carried(s) : s \in Sessions}
  BY DEF Crash, Offline
<1>2. MochatTypes BY DEF Sure
<1>3. Cut /\ link' \in [up : BOOLEAN, epoch : Nat, subs : SUBSET Sessions, wire : Seq(Wired)]
  BY <1>1, <1>2, CutTyped DEF Cut
<1>4. MochatTypes' BY <1>1, <1>2, <1>3 DEF MochatTypes, IdleHandler, Handlers, NoWorker
<1>5. Grows
  <2> SUFFICES ASSUME NEW s \in Sessions, NEW n \in Nat \ {0}, Known(s, n) PROVE Known(s, n)'
    BY DEF Grows
  <2>1. CASE Settled(s, n) BY <1>1, <2>1 DEF Known, Settled
  <2>2. CASE Acking(s, n) BY <1>1, <1>2, <2>2, AckingCarried DEF Known, Settled
  <2> QED BY <2>1, <2>2 DEF Known
<1>6. Takes' BY <1>1, TakesStay DEF Sure
<1>7. \A s \in Sessions : /\ saved'[s] \in {saved[s], -1} /\ workers'[s].from = -1
                          /\ \A h \in Handlers : handlers'[h].from[s] = -1
  BY <1>1 DEF IdleHandler, NoWorker, Targets
<1>8. \A h \in Handlers : handlers'[h].stage = "idle" BY <1>1 DEF IdleHandler
<1> QED BY <1>1, <1>3, <1>4, <1>5, <1>6, <1>7, <1>8, CursorsBack, SureFollows DEF Sure

-----------------------------------------------------------------------------
(* The workers.                                                            *)

LEMMA BackedAtLeast0 ==
  ASSUME NEW s \in Sessions, NEW c \in Int, Backed(s, c) PROVE Backed(s, AtLeast0(c)) /\ AtLeast0(c) \in Nat
BY DEF Backed, AtLeast0

\* What is backed before a payload, with what the payload brings.
LEMMA BackedUpto ==
  ASSUME NEW s \in Sessions, NEW c \in Int, NEW d \in Int, Backed(s, c),
         \A n \in Nat \ {0} : c < n /\ n <= d => <<s, n>> \in ever' \cup skipped'
  PROVE  Backed(s, d)
<1> SUFFICES ASSUME NEW n \in Nat \ {0}, n <= d PROVE Known(s, n) \/ Known(s, n)' BY DEF Backed
<1>1. CASE n <= c BY <1>1 DEF Backed
<1>2. CASE c < n BY <1>2 DEF Known, Settled
<1> QED BY <1>1, <1>2

LEMMA WorkerAnsweredSure == ASSUME Sure, NEW s \in Sessions, WorkerAnswered(s) PROVE Sure'
<1>1. UNCHANGED <<log, link, setup, sessions, cold, cursor, skipped, saved, handlers, seen, buffer, ever, atRisk>>
      /\ workers' = [workers EXCEPT ![s].state = "answered", ![s].upto = Len(log[s])]
  BY DEF WorkerAnswered, object, cursors, hearing
<1>2. MochatTypes /\ s \in Targets BY DEF Sure, Targets
<1>3. workers' \in WorkersType /\ \A u \in Sessions : workers'[u].from = workers[u].from
  <2>1. workers \in WorkersType /\ Len(log[s]) \in Nat BY <1>2 DEF MochatTypes, WorkersType
  <2> QED BY <1>1, <1>2, <2>1 DEF WorkersType, Targets
<1>4. MochatTypes' BY <1>1, <1>2, <1>3 DEF MochatTypes, WorkersType
<1>5. Grows /\ Takes' BY <1>1, Grown, TakesStay DEF Sure
<1> QED BY <1>1, <1>3, <1>4, <1>5, CursorsBack, SureFollows DEF Sure

LEMMA WorkerAsksAgainSure == ASSUME Given, Sure, NEW s \in Sessions, WorkerAsksAgain(s) PROVE Sure'
<1>1. UNCHANGED <<log, link, setup, sessions, saved, handlers, atRisk>>
      /\ workers' = [workers EXCEPT ![s] = [Asks(s) EXCEPT !.from = AtLeast0(@)]]
      /\ Payload(s, <<>>, AtLeast0(workers[s].from))
  BY DEF WorkerAsksAgain, object
<1>2. MochatTypes /\ s \in Targets /\ workers[s].from \in Int BY DEF Sure, Targets, MochatTypes
<1>3. \A u \in Sessions : /\ Backed(u, cursor[u]) /\ Backed(u, saved[u]) /\ Backed(u, workers[u].from)
                          /\ \A h \in Handlers : Backed(u, handlers[h].from[u])
  BY CursorsBack DEF Sure
<1>4. Backed(s, AtLeast0(workers[s].from)) /\ AtLeast0(workers[s].from) \in Int
  BY <1>2, <1>3, BackedAtLeast0
<1>5. <<>> \in Seq(Targets \X Nat) OBVIOUS
<1>6. /\ cursor' \in [Sessions -> Int] /\ cold' \subseteq Sessions
      /\ seen' \in [Targets -> Seq(Targets \X Nat)] /\ buffer' \in [Panels -> Seq(Targets \X Nat)]
      /\ ever \subseteq ever' /\ skipped \subseteq skipped' /\ Takes'
      /\ \A u \in Sessions : u # s => cursor'[u] = cursor[u]
      /\ cursor'[s] \in {cursor[s], AtLeast0(workers[s].from)}
  BY <1>1, <1>2, <1>4, <1>5, PayloadSettles DEF Sure
<1>7. /\ workers' \in WorkersType
      /\ \A u \in Sessions : u # s => workers'[u].from = workers[u].from
      /\ workers'[s].from = AtLeast0(cursor[s])
  <2>1. workers \in WorkersType BY <1>2 DEF MochatTypes, WorkersType
  <2>2. cursor[s] \in Int /\ AtLeast0(cursor[s]) \in Nat BY <1>2, <1>3, BackedAtLeast0 DEF MochatTypes
  <2>3. [Asks(s) EXCEPT !.from = AtLeast0(@)] = [Asks(s) EXCEPT !.from = AtLeast0(cursor[s])]
    BY <1>2, AsksType
  <2> QED BY <1>1, <1>2, <2>1, <2>2, <2>3, AsksType DEF WorkersType, Targets
<1>8. Backed(s, AtLeast0(cursor[s])) BY <1>2, <1>3, BackedAtLeast0 DEF MochatTypes
<1>9. MochatTypes' BY <1>1, <1>2, <1>6, <1>7 DEF MochatTypes, WorkersType
<1>10. Grows BY <1>1, <1>6, Grown
<1> QED BY <1>1, <1>3, <1>4, <1>6, <1>7, <1>8, <1>9, <1>10, SureFollows

LEMMA WorkerFailsSure == ASSUME Sure, NEW t \in Targets, WorkerFails(t) PROVE Sure'
<1>1. UNCHANGED <<log, link, setup, sessions, cold, cursor, skipped, saved, handlers, seen, buffer, ever, atRisk>>
      /\ workers' = [workers EXCEPT ![t] = IF Started /\ fallback THEN Asks(t) ELSE NoWorker]
  BY DEF WorkerFails, object, cursors, hearing
<1>2. MochatTypes BY DEF Sure
<1>3. workers' \in WorkersType /\ \A s \in Sessions : workers'[s].from \in {workers[s].from, cursor[s], -1}
  <2>1. workers \in WorkersType BY <1>2 DEF MochatTypes, WorkersType
  <2>2. NoWorker \in [state : {"none", "asks", "answered", "cancelled"}, from : Int, upto : Nat] /\ NoWorker.from = -1
    BY DEF NoWorker
  <2> QED BY <1>1, <1>2, <2>1, <2>2, AsksType DEF WorkersType, Targets
<1>4. MochatTypes' BY <1>1, <1>2, <1>3 DEF MochatTypes, WorkersType
<1>5. Grows /\ Takes' BY <1>1, Grown, TakesStay DEF Sure
<1> QED BY <1>1, <1>3, <1>4, <1>5, CursorsBack, SureFollows DEF Sure

LEMMA WatchComesSure == ASSUME Given, Sure, NEW s \in Sessions, WatchComes(s) PROVE Sure'
<1> DEFINE a == AtLeast0(workers[s].from)
           b == workers[s].upto
<1>1. UNCHANGED <<log, link, setup, sessions, saved, handlers, atRisk>>
      /\ workers' = [workers EXCEPT ![s] = IF Started /\ fallback
                       THEN [state |-> "asks", from |-> cursor'[s], upto |-> 0] ELSE NoWorker]
      /\ Payload(s, Between(s, a, b), b)
  BY DEF WatchComes, object
<1>2. MochatTypes /\ s \in Targets /\ workers[s].from \in Int /\ b \in Nat /\ b \in Int BY SMTT(30) DEF Sure, Targets, MochatTypes
<1>3. \A u \in Sessions : /\ Backed(u, cursor[u]) /\ Backed(u, saved[u]) /\ Backed(u, workers[u].from)
                          /\ \A h \in Handlers : Backed(u, handlers[h].from[u])
                          /\ Backed(u, -1)
  BY CursorsBack DEF Sure
<1>4. Backed(s, a) /\ a \in Nat BY <1>2, <1>3, BackedAtLeast0
<1>5. Between(s, a, b) \in Seq(Targets \X Nat) /\ ToSet(Between(s, a, b)) = {<<s, n>> : n \in a + 1 .. b}
  BY <1>2, <1>4, BetweenPlaces
<1> HIDE DEF a, b
<1>6. /\ cursor' \in [Sessions -> Int] /\ cold' \subseteq Sessions
      /\ seen' \in [Targets -> Seq(Targets \X Nat)] /\ buffer' \in [Panels -> Seq(Targets \X Nat)]
      /\ ever \subseteq ever' /\ skipped \subseteq skipped' /\ Takes'
      /\ \A u \in Sessions : u # s => cursor'[u] = cursor[u]
      /\ cursor'[s] \in {cursor[s], b} /\ ToSet(Between(s, a, b)) \subseteq ever' \cup skipped'
  BY <1>1, <1>2, <1>5, PayloadSettles DEF Sure
<1>7. Backed(s, b)
  <2>1. \A n \in Nat \ {0} : a < n /\ n <= b => n \in a + 1 .. b BY <1>2, <1>4
  <2>2. \A n \in Nat \ {0} : a < n /\ n <= b => <<s, n>> \in ever' \cup skipped' BY <2>1, <1>5, <1>6
  <2> QED BY <1>2, <1>4, <2>2, BackedUpto
<1>8. /\ workers' \in WorkersType
      /\ \A u \in Sessions : u # s => workers'[u].from = workers[u].from
      /\ workers'[s].from \in {cursor'[s], -1}
  <2>1. workers \in WorkersType /\ cursor'[s] \in Int BY <1>2, <1>6 DEF MochatTypes, WorkersType
  <2> QED BY <1>1, <1>2, <2>1 DEF WorkersType, NoWorker, Targets
<1>9. MochatTypes' BY <1>1, <1>2, <1>6, <1>8 DEF MochatTypes, WorkersType
<1>10. Grows BY <1>1, <1>6, Grown
<1> QED BY <1>1, <1>3, <1>6, <1>7, <1>8, <1>9, <1>10, SureFollows

LEMMA PollComesSure == ASSUME Given, Sure, NEW p \in Panels, PollComes(p) PROVE Sure'
<1> DEFINE a == AtLeast0(Len(log[p]) - Limit)
           b == Len(log[p])
<1>1. UNCHANGED <<log, link, setup, sessions, cold, cursor, skipped, saved, handlers, atRisk>>
      /\ workers' = [workers EXCEPT ![p] = IF Started /\ fallback THEN Asks(p) ELSE NoWorker]
      /\ Hear(p, Between(p, a, b))
  BY DEF PollComes, object, cursors
<1>2. MochatTypes /\ p \in Targets /\ p \notin Sessions /\ Limit \in Nat BY DEF Sure, Targets, Given
<1>3. a \in Nat /\ b \in Nat BY <1>2 DEF AtLeast0, MochatTypes
<1>4. Between(p, a, b) \in Seq(Targets \X Nat) BY <1>2, <1>3, BetweenPlaces
<1> HIDE DEF a, b
<1>5. /\ seen' \in [Targets -> Seq(Targets \X Nat)] /\ buffer' \in [Panels -> Seq(Targets \X Nat)]
      /\ ever \subseteq ever' /\ Takes'
  BY <1>1, <1>2, <1>4, HearSettles DEF Sure
<1>6. workers' \in WorkersType /\ \A s \in Sessions : workers'[s].from = workers[s].from
  <2>1. workers \in WorkersType BY <1>2 DEF MochatTypes, WorkersType
  <2> QED BY <1>1, <1>2, <2>1, AsksType DEF WorkersType, NoWorker, Targets
<1>7. MochatTypes' BY <1>1, <1>2, <1>5, <1>6 DEF MochatTypes, WorkersType
<1>8. Grows BY <1>1, <1>5, Grown
<1> QED BY <1>1, <1>5, <1>6, <1>7, <1>8, CursorsBack, SureFollows DEF Sure

-----------------------------------------------------------------------------
(* The tasks that subscribe sessions.                                      *)

HandlerType == [stage : {"idle", "ask", "acked", "rest", "look", "gather"}, epoch : Nat,
                from : [Sessions -> Int], upto : [Sessions -> Nat],
                asked : SUBSET Sessions, ok : BOOLEAN]

LEMMA HandlerTyped ==
  ASSUME MochatTypes
  PROVE  handlers \in [Handlers -> HandlerType] /\ \A h \in Handlers : handlers[h] \in HandlerType
BY DEF MochatTypes, HandlerType

LEMMA IdleTyped ==
  /\ IdleHandler \in HandlerType
  /\ IdleHandler.stage = "idle" /\ \A s \in Sessions : IdleHandler.from[s] = -1
BY DEF IdleHandler, HandlerType

\* A handler that had no acknowledgement moves on.
LEMMA HandlerMoves ==
  ASSUME NEW h \in Handlers, NEW r, handlers[h].stage # "acked", handlers \in [Handlers -> HandlerType],
         handlers' = [handlers EXCEPT ![h] = r],
         ever \subseteq ever', skipped \subseteq skipped', atRisk \subseteq atRisk'
  PROVE  Grows
<1> SUFFICES ASSUME NEW s \in Sessions, NEW n \in Nat \ {0}, Known(s, n) PROVE Known(s, n)' BY DEF Grows
<1>1. CASE Settled(s, n) BY <1>1 DEF Known, Settled
<1>2. CASE Acking(s, n)
  <2>1. PICK g \in Handlers : /\ handlers[g].stage = "acked" /\ s \in handlers[g].asked
                              /\ handlers[g].from[s] < n /\ n <= handlers[g].upto[s] BY <1>2 DEF Acking
  <2>2. handlers'[g] = handlers[g] BY <2>1
  <2>3. Acking(s, n)' BY <2>1, <2>2 DEF Acking, Handlers
  <2> QED BY <2>3 DEF Known
<1> QED BY <1>1, <1>2 DEF Known

\* The table of handlers with another r for h, which took a copy of the cursors.
Asking(table, h) == \E r \in HandlerType : table = [handlers EXCEPT ![h] = r] /\ r.from = cursor

LEMMA AskForTyped ==
  ASSUME MochatTypes, NEW h \in Handlers, NEW ss \in SUBSET Sessions, NEW epoch \in Nat
  PROVE  Asking(AskFor(h, ss, epoch), h)
<1> DEFINE r == [IdleHandler EXCEPT !.stage = IF ss = {} THEN "rest" ELSE "ask", !.epoch = epoch,
                                    !.from = cursor, !.asked = ss, !.ok = TRUE]
<1>1. r \in HandlerType /\ r.from = cursor BY IdleTyped DEF HandlerType, MochatTypes
<1>2. AskFor(h, ss, epoch) = [handlers EXCEPT ![h] = r] BY DEF AskFor
<1> HIDE DEF r
<1> QED BY <1>1, <1>2 DEF Asking

LEMMA FindSure == ASSUME Given, Sure, NEW s \in Sessions, Find(s) PROVE Sure'
<1>1. UNCHANGED <<log, link, setup, cursor, skipped, saved, seen, buffer, ever, atRisk>>
      /\ handlers[0].stage = "idle" /\ sessions' = sessions \cup {s} /\ cold' = Chilled({s})
      /\ handlers' = (IF ready THEN AskFor(0, {s}, link.epoch) ELSE handlers)
      /\ (workers' = workers \/ workers' = Ensured(sessions' \cup setup.panels))
  BY DEF Find, hearing
<1>0. MaxConnects \in Nat /\ MochatTypes BY DEF Given, Sure
<1>2. MochatTypes /\ 0 \in Handlers /\ link.epoch \in Nat /\ {s} \in SUBSET Sessions
  <2>1. 0 \in Handlers BY <1>0 DEF Handlers
  <2>2. link.epoch \in Nat BY <1>0 DEF MochatTypes
  <2> QED BY <1>0, <2>1, <2>2
<1>3. PICK r \in HandlerType : AskFor(0, {s}, link.epoch) = [handlers EXCEPT ![0] = r] /\ r.from = cursor
  <2>1. Asking(AskFor(0, {s}, link.epoch), 0) BY <1>2, AskForTyped
  <2> QED BY <2>1 DEF Asking
<1>4. handlers \in [Handlers -> HandlerType] BY <1>2, HandlerTyped
<1>5. /\ handlers' \in [Handlers -> HandlerType]
      /\ \A h \in Handlers : h # 0 => handlers'[h] = handlers[h]
      /\ handlers'[0].from \in {cursor, handlers[0].from}
  BY <1>1, <1>2, <1>3, <1>4
<1>6. workers' \in WorkersType /\ \A u \in Sessions : workers'[u].from \in {cursor[u], workers[u].from}
  <2>1. CASE workers' = workers BY <1>2, <2>1 DEF MochatTypes, WorkersType
  <2>2. CASE workers' = Ensured(sessions' \cup setup.panels) BY <1>2, <2>2, EnsuredType
  <2> QED BY <1>1, <2>1, <2>2
<1>7. MochatTypes' BY <1>1, <1>2, <1>5, <1>6 DEF MochatTypes, WorkersType, HandlerType, Chilled
<1>8. Grows
  <2>1. CASE handlers' = handlers BY <1>1, <2>1, Grown
  <2>2. CASE handlers' = [handlers EXCEPT ![0] = r] BY <1>1, <1>2, <1>4, <2>2, HandlerMoves
  <2> QED BY <1>1, <1>3, <2>1, <2>2
<1>9. Takes' BY <1>1, TakesStay DEF Sure
<1>10. \A h \in Handlers : handlers'[h].stage # "idle" => handlers[h].stage # "idle" \/ h <= link.epoch
  BY <1>2, <1>5
<1>11. \A u \in Sessions, h \in Handlers : handlers'[h].from[u] \in {cursor[u], handlers[h].from[u]}
  BY <1>5
<1> QED BY <1>1, <1>6, <1>7, <1>8, <1>9, <1>10, <1>11, CursorsBack, SureFollows DEF Sure

LEMMA SocketUpSure == ASSUME Given, Sure, NEW h \in Handlers, SocketUp(h) PROVE Sure'
<1>1. UNCHANGED <<log, setup, sessions, cursor, skipped, saved, workers, seen, buffer, ever, atRisk>>
      /\ h = link.epoch + 1 /\ cold' = Chilled(sessions)
      /\ link' = [up |-> TRUE, epoch |-> h, subs |-> {}, wire |-> <<>>]
      /\ handlers' = AskFor(h, sessions, h)
  BY DEF SocketUp, hearing
<1>2. MochatTypes /\ sessions \in SUBSET Sessions /\ h \in Nat /\ link.epoch \in Nat
  BY DEF Sure, MochatTypes, Handlers
<1>3. PICK r \in HandlerType : handlers' = [handlers EXCEPT ![h] = r] /\ r.from = cursor
  <2>1. Asking(AskFor(h, sessions, h), h) BY <1>2, AskForTyped
  <2> QED BY <1>1, <2>1 DEF Asking
<1>4. handlers \in [Handlers -> HandlerType] BY <1>2, HandlerTyped
<1>5. \A g \in Handlers : handlers[g].stage # "idle" => g <= link.epoch BY DEF Sure, Wires
<1>6. handlers[h].stage = "idle" BY <1>1, <1>2, <1>5
<1>7. handlers' \in [Handlers -> HandlerType] BY <1>3, <1>4
<1>8. link' \in [up : BOOLEAN, epoch : Nat, subs : SUBSET Sessions, wire : Seq(Wired)] BY <1>1, <1>2
<1>9. MochatTypes' BY <1>1, <1>2, <1>7, <1>8 DEF MochatTypes, HandlerType, Chilled
<1>10. Grows BY <1>1, <1>3, <1>4, <1>6, HandlerMoves
<1>11. Takes' BY <1>1, TakesStay DEF Sure
<1>12. \A s \in Sessions, g \in Handlers : handlers'[g].from[s] \in {cursor[s], handlers[g].from[s]}
  BY <1>3, <1>4
<1>13. Cursors' BY <1>1, <1>10, <1>12, CursorsBack, CursorsFollow DEF Sure
<1>14. Wires'
  <2>1. ASSUME NEW g \in Handlers, handlers'[g].stage # "idle" PROVE g <= h
    <3>1. CASE g = h BY <3>1, <1>2
    <3>2. CASE g # h
      <4>1. handlers'[g] = handlers[g] BY <1>3, <1>4, <3>2
      <4>2. g <= link.epoch /\ g \in Int BY <4>1, <2>1, <1>5 DEF Handlers
      <4> QED BY <4>2, <1>1, <1>2
    <3> QED BY <3>1, <3>2
  <2>2. link'.up = TRUE /\ link'.epoch = h /\ link'.subs = {} /\ link'.wire = <<>> BY <1>1
  <2> QED BY <2>1, <2>2 DEF Wires
<1> QED BY <1>9, <1>11, <1>13, <1>14 DEF Sure

\* A handler that got no acknowledgement goes on: with a decision, or to read
\* the directory, or to its end.
LEMMA HandlerGoesOn ==
  ASSUME Sure, NEW h \in Handlers, NEW r \in HandlerType,
         handlers[h].stage \notin {"idle", "acked"}, handlers' = [handlers EXCEPT ![h] = r],
         \A s \in Sessions : r.from[s] \in {-1, handlers[h].from[s]},
         UNCHANGED <<log, link, setup, cursor, skipped, saved, seen, buffer, ever, atRisk>>,
         sessions' \subseteq Sessions, cold' \subseteq Sessions,
         workers' \in WorkersType,
         \A s \in Sessions : workers'[s].from \in {-1, cursor[s], workers[s].from}
  PROVE  Sure'
<1>1. MochatTypes /\ handlers \in [Handlers -> HandlerType] BY HandlerTyped DEF Sure
<1>2. handlers' \in [Handlers -> HandlerType] BY <1>1
<1>3. MochatTypes' BY <1>1, <1>2 DEF MochatTypes, HandlerType, WorkersType
<1>4. Grows BY <1>1, HandlerMoves
<1>5. Takes' BY TakesStay DEF Sure
<1>6. \A g \in Handlers : handlers'[g].stage # "idle" => handlers[g].stage # "idle" BY <1>1
<1>7. \A s \in Sessions, g \in Handlers : handlers'[g].from[s] \in {-1, handlers[g].from[s]} BY <1>1
<1> QED BY <1>3, <1>4, <1>5, <1>6, <1>7, CursorsBack, SureFollows DEF Sure

LEMMA DecidesSure ==
  ASSUME Sure, NEW h \in Handlers, NEW ok, NEW found \in SUBSET Sessions,
         handlers[h].stage \in {"rest", "look"}, Decides(h, ok, found)
  PROVE  Sure'
<1>1. UNCHANGED <<log, link, setup, cursor, skipped, saved, seen, buffer, ever, atRisk>>
      /\ sessions' = sessions \cup found /\ cold' = Chilled(found)
      /\ (workers' = WorkersCancelled \/ Ensure(sessions' \cup setup.panels))
      /\ handlers' = [handlers EXCEPT ![h] = [IdleHandler EXCEPT !.stage = IF ok THEN "gather" ELSE "idle"]]
  BY DEF Decides, NotServed, hearing
<1>2. MochatTypes BY DEF Sure
<1> DEFINE r == [IdleHandler EXCEPT !.stage = IF ok THEN "gather" ELSE "idle"]
<1>3. r \in HandlerType /\ \A s \in Sessions : r.from[s] = -1 BY IdleTyped DEF HandlerType
<1>4. workers' \in WorkersType /\ \A s \in Sessions : workers'[s].from \in {-1, cursor[s], workers[s].from}
  <2>1. CASE workers' = WorkersCancelled BY <1>2, <2>1, CancelledType
  <2>2. CASE Ensure(sessions' \cup setup.panels) BY <1>2, <2>2, EnsureType
  <2> QED BY <1>1, <2>1, <2>2
<1>5. sessions' \subseteq Sessions /\ cold' \subseteq Sessions BY <1>1, <1>2 DEF MochatTypes, Chilled
<1> HIDE DEF r
<1>6. handlers' = [handlers EXCEPT ![h] = r] BY <1>1 DEF r
<1>7. \A s \in Sessions : r.from[s] \in {-1, handlers[h].from[s]} BY <1>3
<1> QED BY <1>1, <1>3, <1>4, <1>5, <1>6, <1>7, HandlerGoesOn

LEMMA HandlerDecidesSure ==
  ASSUME Sure, NEW h \in Handlers, NEW ok \in BOOLEAN, HandlerDecides(h, ok) PROVE Sure'
<1>1. handlers[h].stage = "rest" /\ Decides(h, ok /\ handlers[h].ok, {}) BY DEF HandlerDecides, PanelCall
<1> QED BY <1>1, DecidesSure

LEMMA HandlerFoundSure ==
  ASSUME Sure, NEW h \in Handlers, NEW found \in {{}, Found}, HandlerFound(h, found) PROVE Sure'
<1>1. handlers[h].stage = "look" /\ Decides(h, handlers[h].ok, found) BY DEF HandlerFound
<1>2. found \in SUBSET Sessions BY DEF Found
<1> QED BY <1>1, <1>2, DecidesSure

LEMMA HandlerLooksSure ==
  ASSUME Sure, NEW h \in Handlers, NEW ok \in BOOLEAN, HandlerLooks(h, ok) PROVE Sure'
<1> DEFINE r == [handlers[h] EXCEPT !.stage = "look", !.ok = @ /\ ok]
<1>1. UNCHANGED <<log, link, setup, sessions, cold, workers, cursor, skipped, saved, seen, buffer, ever, atRisk>>
      /\ handlers[h].stage = "rest"
      /\ handlers' = [handlers EXCEPT ![h].stage = "look", ![h].ok = @ /\ ok]
  BY DEF HandlerLooks, PanelCall, object, cursors, hearing
<1>2. handlers[h] \in HandlerType /\ handlers \in [Handlers -> HandlerType] BY HandlerTyped DEF Sure
<1>3. handlers' = [handlers EXCEPT ![h] = r] BY <1>1, <1>2 DEF HandlerType
<1>4. r \in HandlerType
  <2>1. (handlers[h].ok /\ ok) \in BOOLEAN OBVIOUS
  <2> QED BY <1>2, <2>1 DEF HandlerType
<1>5. r.from = handlers[h].from BY <1>2 DEF HandlerType
<1>6. workers \in WorkersType /\ sessions \subseteq Sessions /\ cold \subseteq Sessions
  BY DEF Sure, MochatTypes, WorkersType
<1> HIDE DEF r
<1> QED BY <1>1, <1>3, <1>4, <1>5, <1>6, HandlerGoesOn

LEMMA HandlerEndsSure == ASSUME Sure, NEW h \in Handlers, HandlerEnds(h) PROVE Sure'
<1>1. UNCHANGED <<log, link, setup, sessions, cold, cursor, skipped, saved, seen, buffer, ever, atRisk>>
      /\ handlers[h].stage = "gather" /\ workers' = Cleared
      /\ handlers' = [handlers EXCEPT ![h] = IdleHandler]
  BY DEF HandlerEnds, object, cursors, hearing
<1>2. MochatTypes BY DEF Sure
<1>3. workers' \in WorkersType /\ \A s \in Sessions : workers'[s].from \in {-1, workers[s].from}
  BY <1>1, <1>2, CancelledType
<1>4. sessions' \subseteq Sessions /\ cold' \subseteq Sessions BY <1>1, <1>2 DEF MochatTypes
<1> QED BY <1>1, <1>3, <1>4, IdleTyped, HandlerGoesOn

LEMMA ServerSubscribesSure == ASSUME Sure, NEW h \in Handlers, ServerSubscribes(h) PROVE Sure'
<1>1. UNCHANGED <<log, setup, sessions, cold, cursor, skipped, saved, workers, seen, buffer, ever, atRisk>>
      /\ link' = [link EXCEPT !.subs = @ \cup handlers[h].asked] /\ handlers[h].stage = "ask" /\ link.up
      /\ handlers' = [handlers EXCEPT ![h].stage = "acked", ![h].upto = [s \in Sessions |-> Len(log[s])]]
  BY DEF ServerSubscribes, StillServes, object, cursors, hearing
<1>2. MochatTypes /\ handlers \in [Handlers -> HandlerType] /\ handlers[h] \in HandlerType
  BY HandlerTyped DEF Sure
<1> DEFINE r == [handlers[h] EXCEPT !.stage = "acked", !.upto = [s \in Sessions |-> Len(log[s])]]
<1>3. \A s \in Sessions : Len(log[s]) \in Nat BY <1>2 DEF MochatTypes, Targets
<1>4. handlers' = [handlers EXCEPT ![h] = r] BY <1>1, <1>2 DEF HandlerType
<1>5. r \in HandlerType /\ r.from = handlers[h].from /\ r.asked = handlers[h].asked /\ r.stage = "acked"
      /\ \A s \in Sessions : r.upto[s] = Len(log[s])
  BY <1>2, <1>3 DEF HandlerType
<1> HIDE DEF r
<1>6. handlers' \in [Handlers -> HandlerType] /\ handlers'[h] = r BY <1>2, <1>4, <1>5
<1>7. /\ link' \in [up : BOOLEAN, epoch : Nat, subs : SUBSET Sessions, wire : Seq(Wired)]
      /\ link'.up = link.up /\ link'.epoch = link.epoch /\ link'.wire = link.wire
      /\ link'.subs = link.subs \cup handlers[h].asked
  <2>1. link \in [up : BOOLEAN, epoch : Nat, subs : SUBSET Sessions, wire : Seq(Wired)] BY <1>2 DEF MochatTypes
  <2>2. handlers[h].asked \in SUBSET Sessions BY <1>2 DEF HandlerType
  <2> QED BY <1>1, <2>1, <2>2
<1>8. MochatTypes' BY <1>1, <1>2, <1>6, <1>7 DEF MochatTypes, HandlerType
<1>9. Grows BY <1>1, <1>2, <1>4, HandlerMoves
<1>10. Takes' BY <1>1, TakesStay DEF Sure
<1>11. \A s \in Sessions, g \in Handlers : handlers'[g].from[s] = handlers[g].from[s]
  BY <1>2, <1>4, <1>5
<1>12. Cursors' BY <1>1, <1>9, <1>11, CursorsBack, CursorsFollow DEF Sure
<1>13. ASSUME NEW s \in Sessions, s \in handlers[h].asked, NEW n \in 1 .. Len(log[s]) PROVE Known(s, n)'
  <2>1. handlers[h].from[s] \in Int /\ n \in Nat \ {0} BY <1>2 DEF HandlerType
  <2>2. CASE n <= handlers[h].from[s]
    <3>1. Known(s, n) BY <2>1, <2>2 DEF Sure, Cursors, Covered
    <3> QED BY <3>1, <2>1, <1>9 DEF Grows
  <2>3. CASE handlers[h].from[s] < n
    <3>1. Acking(s, n)' BY <2>3, <1>5, <1>6, <1>13 DEF Acking, Handlers
    <3> QED BY <3>1 DEF Known
  <2> QED BY <2>1, <2>2, <2>3
<1>14. Wires'
  <2>1. \A s \in link.subs : \A n \in 1 .. Len(log[s]) :
           Known(s, n)' \/ \E j \in DOMAIN link.wire : link.wire[j] = Watch(s, n)
    <3> SUFFICES ASSUME NEW s \in link.subs, NEW n \in 1 .. Len(log[s]),
                        ~\E j \in DOMAIN link.wire : link.wire[j] = Watch(s, n)
                 PROVE Known(s, n)' OBVIOUS
    <3>1. Known(s, n) BY DEF Sure, Wires
    <3>2. s \in Sessions BY <1>2 DEF MochatTypes
    <3> QED BY <3>1, <3>2, <1>9 DEF Grows
  <2>2. \A i \in DOMAIN link.wire : \A s \in Sessions, k \in Nat : link.wire[i] = Watch(s, k) =>
           \A n \in 1 .. k - 1 : Known(s, n)' \/ \E j \in 1 .. i - 1 : link.wire[j] = Watch(s, n)
    <3> SUFFICES ASSUME NEW i \in DOMAIN link.wire, NEW s \in Sessions, NEW k \in Nat,
                        link.wire[i] = Watch(s, k), NEW n \in 1 .. k - 1,
                        ~\E j \in 1 .. i - 1 : link.wire[j] = Watch(s, n)
                 PROVE Known(s, n)' OBVIOUS
    <3>1. Known(s, n) BY DEF Sure, Wires
    <3> QED BY <3>1, <1>9 DEF Grows
  <2>3. \A i \in DOMAIN link.wire : link.wire[i].event = "watch" => link.wire[i].msg[1] \in Sessions
    BY DEF Sure, Wires
  <2>4. \A g \in Handlers : handlers'[g].stage # "idle" => g <= link.epoch
    BY <1>1, <1>2, <1>4 DEF Sure, Wires
  <2>5. handlers[h].asked \subseteq Sessions BY <1>2 DEF HandlerType
  <2>6. \A s \in link'.subs : \A n \in 1 .. Len(log[s]) :
           Known(s, n)' \/ \E j \in DOMAIN link.wire : link.wire[j] = Watch(s, n)
    BY <1>7, <1>13, <2>1, <2>5
  <2>7. link'.up = TRUE BY <1>1, <1>2, <1>7 DEF MochatTypes
  <2> HIDE DEF Known
  <2>8. \A s \in link'.subs : \A n \in 1 .. Len(log'[s]) :
           Known(s, n)' \/ \E j \in DOMAIN link'.wire : link'.wire[j] = Watch(s, n)
    BY <1>1, <1>7, <2>6
  <2>9. \A i \in DOMAIN link'.wire : \A s \in Sessions, k \in Nat : link'.wire[i] = Watch(s, k) =>
           \A n \in 1 .. k - 1 : Known(s, n)' \/ \E j \in 1 .. i - 1 : link'.wire[j] = Watch(s, n)
    BY <1>7, <2>2
  <2>10. /\ \A i \in DOMAIN link'.wire : link'.wire[i].event = "watch" => link'.wire[i].msg[1] \in Sessions
         /\ \A g \in Handlers : handlers'[g].stage # "idle" => g <= link'.epoch
    BY <1>7, <2>3, <2>4
  <2> QED BY <2>7, <2>8, <2>9, <2>10 DEF Wires, Watch, Handlers
<1> QED BY <1>8, <1>10, <1>12, <1>14 DEF Sure

LEMMA AckedSure == ASSUME Given, Sure, NEW h \in Handlers, NEW s \in Sessions, Acked(h, s) PROVE Sure'
<1> DEFINE a == AtLeast0(handlers[h].from[s])
           b == handlers[h].upto[s]
           st == IF handlers[h].asked # {s} THEN "acked" ELSE IF h = 0 THEN "idle" ELSE "rest"
           r == [handlers[h] EXCEPT !.asked = @ \ {s}, !.stage = st]
<1>1. UNCHANGED <<log, link, setup, sessions, saved, workers, atRisk>>
      /\ handlers[h].stage = "acked" /\ s \in handlers[h].asked
      /\ Payload(s, Between(s, a, b), b)
      /\ handlers' = [handlers EXCEPT ![h].asked = @ \ {s}, ![h].stage = st]
  BY DEF Acked, Brought, object
<1>2. MochatTypes /\ handlers \in [Handlers -> HandlerType] /\ handlers[h] \in HandlerType /\ s \in Targets
  BY HandlerTyped DEF Sure, Targets
<1>3. handlers[h].from[s] \in Int /\ b \in Nat /\ b \in Int BY <1>2 DEF HandlerType
<1>4. handlers' = [handlers EXCEPT ![h] = r] BY <1>1, <1>2 DEF HandlerType
<1>5. /\ r \in HandlerType /\ r.from = handlers[h].from /\ r.upto = handlers[h].upto
      /\ r.asked = handlers[h].asked \ {s} /\ r.stage = st
  BY <1>2 DEF HandlerType
<1>6. handlers[h].asked # {s} => st = "acked" OBVIOUS
<1> HIDE DEF r, st
<1>7. \A u \in Sessions : /\ Backed(u, cursor[u]) /\ Backed(u, saved[u]) /\ Backed(u, workers[u].from)
                          /\ \A g \in Handlers : Backed(u, handlers[g].from[u])
  BY CursorsBack DEF Sure
<1>8. Backed(s, a) /\ a \in Nat BY <1>3, <1>7, BackedAtLeast0
<1>9. Between(s, a, b) \in Seq(Targets \X Nat) /\ ToSet(Between(s, a, b)) = {<<s, n>> : n \in a + 1 .. b}
  BY <1>2, <1>3, <1>8, BetweenPlaces
<1>10. \A n \in Nat \ {0} : handlers[h].from[s] < n => a < n BY <1>3 DEF AtLeast0
<1> HIDE DEF a, b
<1>11. /\ cursor' \in [Sessions -> Int] /\ cold' \subseteq Sessions
       /\ seen' \in [Targets -> Seq(Targets \X Nat)] /\ buffer' \in [Panels -> Seq(Targets \X Nat)]
       /\ ever \subseteq ever' /\ skipped \subseteq skipped' /\ Takes'
       /\ \A u \in Sessions : u # s => cursor'[u] = cursor[u]
       /\ cursor'[s] \in {cursor[s], b} /\ ToSet(Between(s, a, b)) \subseteq ever' \cup skipped'
  BY <1>1, <1>2, <1>3, <1>9, PayloadSettles DEF Sure
<1>12. \A n \in Nat \ {0} : a < n /\ n <= b => <<s, n>> \in ever' \cup skipped'
  <2>1. \A n \in Nat \ {0} : a < n /\ n <= b => n \in a + 1 .. b BY <1>3, <1>8
  <2> QED BY <2>1, <1>9, <1>11
<1>13. Backed(s, b) BY <1>3, <1>8, <1>12, BackedUpto
<1>14. handlers' \in [Handlers -> HandlerType] BY <1>2, <1>4, <1>5
<1>15. MochatTypes' BY <1>1, <1>2, <1>11, <1>14 DEF MochatTypes, HandlerType
<1>16. Grows
  <2> SUFFICES ASSUME NEW u \in Sessions, NEW n \in Nat \ {0}, Known(u, n) PROVE Known(u, n)' BY DEF Grows
  <2>1. CASE Settled(u, n) BY <2>1, <1>1, <1>11 DEF Known, Settled
  <2>2. CASE Acking(u, n)
    <3>1. PICK g \in Handlers : /\ handlers[g].stage = "acked" /\ u \in handlers[g].asked
                                /\ handlers[g].from[u] < n /\ n <= handlers[g].upto[u] BY <2>2 DEF Acking
    <3>2. CASE g # h
      <4>1. handlers'[g] = handlers[g] BY <1>2, <1>4, <3>2
      <4>2. Acking(u, n)' BY <3>1, <4>1 DEF Acking, Handlers
      <4> QED BY <4>2 DEF Known
    <3>3. CASE g = h /\ u = s
      <4>1. a < n /\ n <= b BY <3>1, <3>3, <1>10 DEF b
      <4> QED BY <4>1, <3>3, <1>12 DEF Known, Settled
    <3>4. CASE g = h /\ u # s
      <4>1. handlers[h].asked # {s} /\ u \in handlers[h].asked \ {s} BY <3>1, <3>4
      <4>2. handlers'[h] = r BY <1>2, <1>4
      <4>3. Acking(u, n)' BY <3>1, <3>4, <4>1, <4>2, <1>5, <1>6 DEF Acking, Handlers
      <4> QED BY <4>3 DEF Known
    <3> QED BY <3>2, <3>3, <3>4
  <2> QED BY <2>1, <2>2 DEF Known
<1>17. \A g \in Handlers : handlers'[g].stage # "idle" => handlers[g].stage # "idle" BY <1>1, <1>2, <1>4
<1>18. \A u \in Sessions, g \in Handlers : handlers'[g].from[u] = handlers[g].from[u] BY <1>2, <1>4, <1>5
<1> QED BY <1>1, <1>7, <1>11, <1>13, <1>15, <1>16, <1>17, <1>18, SureFollows

LEMMA AckLostSure == ASSUME Sure, NEW h \in Handlers, AckLost(h) PROVE Sure'
<1> DEFINE st == IF h = 0 THEN "idle" ELSE "rest"
           r == [handlers[h] EXCEPT !.stage = st, !.asked = {}, !.ok = FALSE]
<1>1. UNCHANGED <<log, link, setup, sessions, cold, cursor, skipped, saved, workers, seen, buffer, ever>>
      /\ handlers[h].stage \in {"ask", "acked"}
      /\ atRisk' = (IF handlers[h].stage = "ask" THEN atRisk
                    ELSE atRisk \cup UNION {ToSet(Brought(h, s)) : s \in handlers[h].asked})
      /\ handlers' = [handlers EXCEPT ![h].stage = st, ![h].asked = {}, ![h].ok = FALSE]
  BY DEF AckLost, object, cursors, hearing
<1>2. MochatTypes /\ handlers \in [Handlers -> HandlerType] /\ handlers[h] \in HandlerType
  BY HandlerTyped DEF Sure
<1>3. handlers' = [handlers EXCEPT ![h] = r] BY <1>1, <1>2 DEF HandlerType
<1>4. r \in HandlerType /\ r.from = handlers[h].from /\ r.stage = st BY <1>2 DEF HandlerType
<1> HIDE DEF r, st
<1>5. handlers' \in [Handlers -> HandlerType] BY <1>2, <1>3, <1>4
<1>6. MochatTypes' BY <1>1, <1>2, <1>5 DEF MochatTypes, HandlerType
<1>7. Grows
  <2> SUFFICES ASSUME NEW s \in Sessions, NEW n \in Nat \ {0}, Known(s, n) PROVE Known(s, n)' BY DEF Grows
  <2>0. atRisk \subseteq atRisk' BY <1>1
  <2>1. CASE Settled(s, n) BY <2>1, <1>1, <2>0 DEF Known, Settled
  <2>2. CASE Acking(s, n)
    <3>1. PICK g \in Handlers : /\ handlers[g].stage = "acked" /\ s \in handlers[g].asked
                                /\ handlers[g].from[s] < n /\ n <= handlers[g].upto[s] BY <2>2 DEF Acking
    <3>2. CASE g # h
      <4>1. handlers'[g] = handlers[g] BY <1>2, <1>3, <3>2
      <4>2. Acking(s, n)' BY <3>1, <4>1 DEF Acking, Handlers
      <4> QED BY <4>2 DEF Known
    <3>3. CASE g = h
      <4>1. handlers[h].from[s] \in Int /\ handlers[h].upto[s] \in Nat /\ s \in Targets
        BY <1>2 DEF HandlerType, Targets
      <4>2. AtLeast0(handlers[h].from[s]) \in Nat /\ n \in AtLeast0(handlers[h].from[s]) + 1 .. handlers[h].upto[s]
        BY <3>1, <3>3, <4>1 DEF AtLeast0
      <4>3. ToSet(Brought(h, s)) = {<<s, m>> : m \in AtLeast0(handlers[h].from[s]) + 1 .. handlers[h].upto[s]}
        BY <4>1, <4>2, BetweenPlaces DEF Brought
      <4>4. <<s, n>> \in ToSet(Brought(h, s)) BY <4>2, <4>3
      <4>5. <<s, n>> \in atRisk' BY <1>1, <3>1, <3>3, <4>4
      <4> QED BY <4>5 DEF Known, Settled
    <3> QED BY <3>2, <3>3
  <2> QED BY <2>1, <2>2 DEF Known
<1>8. Takes' BY <1>1, TakesStay DEF Sure
<1>9. \A g \in Handlers : handlers'[g].stage # "idle" => handlers[g].stage # "idle" BY <1>1, <1>2, <1>3
<1>10. \A s \in Sessions, g \in Handlers : handlers'[g].from[s] = handlers[g].from[s] BY <1>2, <1>3, <1>4
<1> QED BY <1>1, <1>6, <1>7, <1>8, <1>9, <1>10, CursorsBack, SureFollows DEF Sure

-----------------------------------------------------------------------------
(* The connection and what is said.                                        *)

LEMMA TailOf ==
  ASSUME NEW S, NEW q \in Seq(S), q # <<>>
  PROVE  /\ Head(q) \in S /\ Head(q) = q[1] /\ 1 \in DOMAIN q /\ Tail(q) \in Seq(S)
         /\ \A i \in DOMAIN Tail(q) : i + 1 \in DOMAIN q /\ Tail(q)[i] = q[i + 1]
         /\ \A i \in DOMAIN q : i # 1 => i - 1 \in DOMAIN Tail(q) /\ Tail(q)[i - 1] = q[i]
OBVIOUS

LEMMA One ==
  ASSUME NEW S, NEW x \in S PROVE <<x>> \in Seq(S) /\ ToSet(<<x>>) = {x}
BY DEF ToSet

\* The head of the wire has been handled: if it was a pushed event, its
\* message is known.
LEMMA WiresShorter ==
  ASSUME Sure, Grows, link.wire # <<>>, link' = [link EXCEPT !.wire = Tail(@)], log' = log, handlers' = handlers,
         \A s \in Sessions, n \in Nat \ {0} : Head(link.wire) = Watch(s, n) => Known(s, n)'
  PROVE  Wires'
<1>1. link \in [up : BOOLEAN, epoch : Nat, subs : SUBSET Sessions, wire : Seq(Wired)] BY DEF Sure, MochatTypes
<1>2. /\ link'.up = link.up /\ link'.epoch = link.epoch /\ link'.subs = link.subs
      /\ link'.wire = Tail(link.wire)
  BY <1>1
<1> DEFINE q == link.wire
<1>3. /\ q \in Seq(Wired) /\ Head(q) = q[1] /\ 1 \in DOMAIN q
      /\ \A i \in DOMAIN Tail(q) : i + 1 \in DOMAIN q /\ Tail(q)[i] = q[i + 1]
      /\ \A i \in DOMAIN q : i # 1 => i - 1 \in DOMAIN Tail(q) /\ Tail(q)[i - 1] = q[i]
      /\ DOMAIN q \subseteq Nat \ {0} /\ DOMAIN Tail(q) \subseteq Nat \ {0}
  BY <1>1, TailOf
<1>4. Wires BY DEF Sure
<1>5. \A i \in DOMAIN Tail(q) : Tail(q)[i].event = "watch" => Tail(q)[i].msg[1] \in Sessions
  BY <1>3, <1>4 DEF Wires
<1>6. ASSUME NEW s \in link.subs, NEW n \in 1 .. Len(log[s]), ~Known(s, n)'
      PROVE \E j \in DOMAIN Tail(q) : Tail(q)[j] = Watch(s, n)
  <2>1. s \in Sessions /\ n \in Nat \ {0} BY <1>1
  <2>2. ~Known(s, n) BY <2>1, <1>6 DEF Grows
  <2>3. PICK j \in DOMAIN q : q[j] = Watch(s, n) BY <1>4, <2>2 DEF Wires
  <2>4. j # 1 BY <2>1, <2>3, <1>3, <1>6
  <2> QED BY <2>3, <2>4, <1>3
<1>7. ASSUME NEW i \in DOMAIN Tail(q), NEW s \in Sessions, NEW k \in Nat, Tail(q)[i] = Watch(s, k),
             NEW n \in 1 .. k - 1, ~Known(s, n)'
      PROVE \E j \in 1 .. i - 1 : Tail(q)[j] = Watch(s, n)
  <2>1. n \in Nat \ {0} OBVIOUS
  <2>2. ~Known(s, n) BY <2>1, <1>7 DEF Grows
  <2>3. i + 1 \in DOMAIN q /\ q[i + 1] = Watch(s, k) /\ i \in Nat BY <1>3, <1>7
  <2>4. PICK j \in 1 .. (i + 1) - 1 : q[j] = Watch(s, n) BY <1>4, <2>2, <2>3 DEF Wires
  <2>5. j # 1 BY <2>1, <2>4, <1>3, <1>7
  <2>6. j \in DOMAIN q BY <2>3, <2>4, <1>3
  <2>7. Tail(q)[j - 1] = q[j] BY <2>5, <2>6, <1>3
  <2>8. j - 1 \in 1 .. i - 1 BY <2>3, <2>4, <2>5
  <2> QED BY <2>4, <2>7, <2>8
<1>8. \A g \in Handlers : handlers[g].stage # "idle" => g <= link.epoch BY <1>4 DEF Wires
<1>9. link.up BY <1>4 DEF Wires
<1> HIDE DEF Known, q
<1>10. link'.wire = Tail(q) BY <1>2 DEF q
<1>11. \A s \in link'.subs : \A n \in 1 .. Len(log'[s]) :
          Known(s, n)' \/ \E j \in DOMAIN link'.wire : link'.wire[j] = Watch(s, n)
  BY <1>2, <1>6, <1>10
<1>12. ASSUME NEW i \in DOMAIN link'.wire, NEW s \in Sessions, NEW k \in Nat, link'.wire[i] = Watch(s, k),
              NEW n \in 1 .. k - 1
       PROVE Known(s, n)' \/ \E j \in 1 .. i - 1 : link'.wire[j] = Watch(s, n)
  <2>1. i \in DOMAIN Tail(q) /\ Tail(q)[i] = Watch(s, k) BY <1>10, <1>12
  <2>2. Known(s, n)' \/ \E j \in 1 .. i - 1 : Tail(q)[j] = Watch(s, n) BY <2>1, <1>7
  <2> QED BY <2>2, <1>10
<1>13. /\ \A i \in DOMAIN link'.wire : link'.wire[i].event = "watch" => link'.wire[i].msg[1] \in Sessions
       /\ \A g \in Handlers : handlers'[g].stage # "idle" => g <= link'.epoch
  BY <1>2, <1>5, <1>8, <1>10
<1> QED BY <1>2, <1>9, <1>11, <1>12, <1>13 DEF Wires, Watch, Handlers

LEMMA DeliverSure == ASSUME Given, Sure, Deliver PROVE Sure'
<1> DEFINE e == Head(link.wire)
           t == e.msg[1]
           k == e.msg[2]
<1>1. /\ UNCHANGED <<log, setup, sessions, saved, workers, handlers, atRisk>>
      /\ link.wire # <<>> /\ link' = [link EXCEPT !.wire = Tail(@)]
      /\ \/ e.event = "watch" /\ Payload(t, <<e.msg>>, k)
         \/ e.event # "watch" /\ Hear(t, <<e.msg>>) /\ UNCHANGED <<cursor, cold, skipped>>
         \/ e.event # "watch" /\ UNCHANGED <<seen, buffer, ever, cursor, cold, skipped>>
  BY DEF Deliver, object, cursors, hearing
<1>2. MochatTypes /\ link \in [up : BOOLEAN, epoch : Nat, subs : SUBSET Sessions, wire : Seq(Wired)]
  BY DEF Sure, MochatTypes
<1>3. e \in Wired /\ e = link.wire[1] /\ 1 \in DOMAIN link.wire BY <1>1, <1>2, TailOf
<1>4. e.msg \in Targets \X Nat /\ t \in Targets /\ k \in Nat /\ k \in Int /\ e.msg = <<t, k>> BY <1>3 DEF Wired
<1>5. <<e.msg>> \in Seq(Targets \X Nat) /\ ToSet(<<e.msg>>) = {<<t, k>>} BY <1>4, One
<1>6. link' \in [up : BOOLEAN, epoch : Nat, subs : SUBSET Sessions, wire : Seq(Wired)]
  <2>1. Tail(link.wire) \in Seq(Wired) BY <1>1, <1>2, TailOf
  <2> QED BY <1>1, <1>2, <2>1
<1>7. \A u \in Sessions : /\ Backed(u, cursor[u]) /\ Backed(u, saved[u]) /\ Backed(u, workers[u].from)
                          /\ \A g \in Handlers : Backed(u, handlers[g].from[u])
  BY CursorsBack DEF Sure
<1>8. CASE e.event = "watch"
  <2>1. t \in Sessions BY <1>3, <1>8 DEF Sure, Wires
  <2>2. e = Watch(t, k) BY <1>3, <1>4, <1>8 DEF Wired, Watch
  <2>3. PICK s \in Sessions, l \in Nat : s = t /\ l = k BY <2>1, <1>4
  <2>4. Payload(s, <<e.msg>>, l) BY <1>1, <1>8, <2>3
  <2>5. e = Watch(s, l) /\ ToSet(<<e.msg>>) = {<<s, l>>} BY <2>2, <2>3, <1>5
  <2> HIDE DEF e, t, k
  <2>6. /\ cursor' \in [Sessions -> Int] /\ cold' \subseteq Sessions
        /\ seen' \in [Targets -> Seq(Targets \X Nat)] /\ buffer' \in [Panels -> Seq(Targets \X Nat)]
        /\ ever \subseteq ever' /\ skipped \subseteq skipped' /\ Takes'
        /\ \A u \in Sessions : u # s => cursor'[u] = cursor[u]
        /\ cursor'[s] \in {cursor[s], l} /\ <<s, l>> \in ever' \cup skipped'
    <3>1. l \in Int OBVIOUS
    <3> QED BY <1>2, <1>5, <2>4, <2>5, <3>1, PayloadSettles DEF Sure
  <2>7. Known(s, l)' BY <2>6 DEF Known, Settled
  <2>8. \A n \in 1 .. l - 1 : Known(s, n)
    <3>1. \A i \in DOMAIN link.wire : \A u \in Sessions, m \in Nat : link.wire[i] = Watch(u, m) =>
             \A n \in 1 .. m - 1 : Known(u, n) \/ \E j \in 1 .. i - 1 : link.wire[j] = Watch(u, n)
      BY DEF Sure, Wires
    <3>2. link.wire[1] = Watch(s, l) BY <1>3, <2>5
    <3> HIDE DEF Known, Watch
    <3>3. \A n \in 1 .. l - 1 : Known(s, n) \/ \E j \in 1 .. 1 - 1 : link.wire[j] = Watch(s, n)
      BY <1>3, <3>1, <3>2
    <3>4. ~\E j \in 1 .. 1 - 1 : TRUE OBVIOUS
    <3> QED BY <3>3, <3>4
  <2>9. Backed(s, l)
    <3> SUFFICES ASSUME NEW n \in Nat \ {0}, n <= l PROVE Known(s, n) \/ Known(s, n)' BY DEF Backed
    <3>1. CASE n = l BY <3>1, <2>7
    <3>2. CASE n # l
      <4>1. n \in 1 .. l - 1 BY <3>2
      <4> QED BY <4>1, <2>8
    <3> QED BY <3>1, <3>2
  <2>10. Grows BY <1>1, <2>6, Grown
  <2>11. MochatTypes' BY <1>1, <1>2, <1>6, <2>6 DEF MochatTypes
  <2>12. \A u \in Sessions : Backed(u, cursor'[u])
    <3>1. CASE cursor'[s] = l BY <3>1, <1>7, <2>6, <2>9
    <3>2. CASE cursor'[s] = cursor[s] BY <3>2, <1>7, <2>6
    <3> QED BY <2>6, <3>1, <3>2
  <2>13. Cursors' BY <1>1, <1>7, <2>10, <2>12, CursorsFollow
  <2>14. ASSUME NEW u \in Sessions, NEW n \in Nat \ {0}, Head(link.wire) = Watch(u, n) PROVE Known(u, n)'
    <3>1. Watch(u, n) = Watch(s, l) BY <2>5, <2>14 DEF e
    <3>2. u = s /\ n = l
      <4>1. Watch(u, n).msg = <<u, n>> /\ Watch(s, l).msg = <<s, l>> BY DEF Watch
      <4> QED BY <3>1, <4>1
    <3> QED BY <3>2, <2>7
  <2>15. Wires' BY <1>1, <2>10, <2>14, WiresShorter
  <2> QED BY <2>6, <2>11, <2>13, <2>15 DEF Sure
<1>9. CASE e.event # "watch"
  <2>1. UNCHANGED <<cursor, cold, skipped>> BY <1>1, <1>9
  <2>2. /\ seen' \in [Targets -> Seq(Targets \X Nat)] /\ buffer' \in [Panels -> Seq(Targets \X Nat)]
        /\ ever \subseteq ever' /\ Takes'
    <3>1. CASE Hear(t, <<e.msg>>)
      <4> HIDE DEF e, t
      <4> QED BY <1>2, <1>4, <1>5, <3>1, HearSettles DEF Sure
    <3>2. CASE UNCHANGED <<seen, buffer, ever>>
      <4>1. Takes' BY <3>2, TakesStay DEF Sure
      <4> QED BY <3>2, <4>1, <1>2 DEF MochatTypes
    <3> QED BY <1>1, <1>9, <3>1, <3>2
  <2>3. Grows BY <1>1, <2>1, <2>2, Grown
  <2>4. MochatTypes' BY <1>1, <1>2, <1>6, <2>1, <2>2 DEF MochatTypes
  <2>5. Cursors' BY <1>1, <1>7, <2>1, <2>3, CursorsFollow
  <2>6. \A s \in Sessions, n \in Nat \ {0} : Head(link.wire) # Watch(s, n) BY <1>9 DEF Watch
  <2>7. Wires' BY <1>1, <2>3, <2>6, WiresShorter
  <2> QED BY <2>2, <2>4, <2>5, <2>7 DEF Sure
<1> QED BY <1>8, <1>9

LEMMA Longer ==
  ASSUME NEW S, NEW q \in Seq(S), NEW r \in Seq(S)
  PROVE  /\ q \o r \in Seq(S) /\ DOMAIN (q \o r) = 1 .. Len(q) + Len(r) /\ Len(q) \in Nat /\ Len(r) \in Nat
         /\ DOMAIN q = 1 .. Len(q) /\ DOMAIN r = 1 .. Len(r)
         /\ \A i \in 1 .. Len(q) : (q \o r)[i] = q[i]
         /\ \A i \in 1 .. Len(r) : (q \o r)[Len(q) + i] = r[i]
OBVIOUS

\* What the server pushes when n is said in t.
Pushed(t, n) ==
  (IF t \in link.subs THEN <<[event |-> "watch", msg |-> <<t, n>>]>> ELSE <<>>)
  \o (IF t \in Sessions /\ setup.inbox THEN <<[event |-> "inbox", msg |-> <<t, n>>]>> ELSE <<>>)
  \o (IF t \in Panels THEN <<[event |-> "panel", msg |-> <<t, n>>]>> ELSE <<>>)

LEMMA PushedEvents ==
  ASSUME NEW t \in Targets, NEW n \in Nat
  PROVE  /\ Pushed(t, n) \in Seq(Wired)
         /\ \A i \in DOMAIN Pushed(t, n) : /\ Pushed(t, n)[i].msg = <<t, n>>
                                           /\ Pushed(t, n)[i].event = "watch" => t \in link.subs
         /\ t \in link.subs => 1 \in DOMAIN Pushed(t, n) /\ Pushed(t, n)[1] = Watch(t, n)
<1> DEFINE E(x) == [event |-> x, msg |-> <<t, n>>]
           a == IF t \in link.subs THEN <<E("watch")>> ELSE <<>>
           b == IF t \in Sessions /\ setup.inbox THEN <<E("inbox")>> ELSE <<>>
           c == IF t \in Panels THEN <<E("panel")>> ELSE <<>>
           Of == {w \in Wired : w.msg = <<t, n>> /\ (w.event = "watch" => t \in link.subs)}
<1>1. E("inbox") \in Of /\ E("panel") \in Of /\ (t \in link.subs => E("watch") \in Of) BY DEF Wired
<1>2. a \in Seq(Of) /\ b \in Seq(Of) /\ c \in Seq(Of)
  <2> HIDE DEF E, Of
  <2>1. <<>> \in Seq(Of) OBVIOUS
  <2>2. \A x \in Of : <<x>> \in Seq(Of) OBVIOUS
  <2> QED BY <1>1, <2>1, <2>2
<1>3. t \in link.subs => Len(a) = 1 /\ a[1] = Watch(t, n) BY DEF Watch
<1>4. Pushed(t, n) = (a \o b) \o c BY DEF Pushed
<1> HIDE DEF a, b, c, Of
<1>5. (a \o b) \o c \in Seq(Of) BY <1>2
<1>6. t \in link.subs => 1 \in DOMAIN ((a \o b) \o c) /\ ((a \o b) \o c)[1] = a[1] BY <1>2, <1>3
<1>7. Seq(Of) \subseteq Seq(Wired) BY DEF Of
<1>8. \A q \in Seq(Of) : \A i \in DOMAIN q : q[i] \in Of OBVIOUS
<1>9. \A i \in DOMAIN Pushed(t, n) : Pushed(t, n)[i] \in Of BY <1>4, <1>5, <1>8
<1> QED BY <1>3, <1>4, <1>5, <1>6, <1>7, <1>9 DEF Of

LEMMA SaySure == ASSUME Sure, NEW t \in Targets, NEW k \in Kinds, Say(t, k) PROVE Sure'
<1> DEFINE q == link.wire
           N == Len(log[t]) + 1
           r == Pushed(t, N)
<1>1. /\ UNCHANGED <<setup, sessions, cold, cursor, skipped, saved, workers, handlers, seen, buffer, ever, atRisk>>
      /\ log' = [log EXCEPT ![t] = Append(@, k)]
      /\ link' = (IF link.up THEN [link EXCEPT !.wire = @ \o r] ELSE link)
  BY DEF Say, Pushed, object, cursors, hearing
<1>2. MochatTypes /\ Wires /\ link \in [up : BOOLEAN, epoch : Nat, subs : SUBSET Sessions, wire : Seq(Wired)]
      /\ log \in [Targets -> Seq(Kinds)] /\ Sessions \subseteq Targets
  BY DEF Sure, MochatTypes, Targets
<1>3. /\ log' \in [Targets -> Seq(Kinds)] /\ N \in Nat \ {0} /\ Len(log[t]) \in Nat
      /\ Len(log'[t]) = N /\ \A u \in Targets : u # t => log'[u] = log[u]
  BY <1>1, <1>2
<1> HIDE DEF N
<1>4. /\ r \in Seq(Wired)
      /\ \A i \in DOMAIN r : r[i].msg = <<t, N>> /\ (r[i].event = "watch" => t \in link.subs)
      /\ t \in link.subs => 1 \in DOMAIN r /\ r[1] = Watch(t, N)
  BY <1>3, PushedEvents
<1> HIDE DEF r
<1>5. Grows BY <1>1, Grown
<1>6. Takes' BY <1>1, TakesStay DEF Sure
<1>7. Cursors' BY <1>1, <1>5, CursorsBack, CursorsFollow DEF Sure
<1>8. \A s \in Sessions, n \in Nat \ {0} : Known(s, n) => Known(s, n)' BY <1>5 DEF Grows
<1>9. link' \in [up : BOOLEAN, epoch : Nat, subs : SUBSET Sessions, wire : Seq(Wired)]
  <2>1. q \o r \in Seq(Wired) BY <1>2, <1>4
  <2> QED BY <1>1, <1>2, <2>1
<1>10. MochatTypes' BY <1>1, <1>2, <1>3, <1>9 DEF MochatTypes
<1>11. Wires'
  <2>1. CASE ~link.up
    <3>1. link' = link /\ link.subs = {} /\ link.wire = <<>> BY <1>1, <1>2, <2>1 DEF Wires
    <3> QED BY <1>1, <1>2, <3>1 DEF Wires, Handlers
  <2>2. CASE link.up
    <3>1. link'.up = link.up /\ link'.epoch = link.epoch /\ link'.subs = link.subs /\ link'.wire = q \o r
      BY <1>1, <1>2, <2>2
    <3>2. /\ DOMAIN (q \o r) = 1 .. Len(q) + Len(r) /\ Len(q) \in Nat /\ Len(r) \in Nat
          /\ DOMAIN q = 1 .. Len(q) /\ DOMAIN r = 1 .. Len(r)
          /\ \A i \in 1 .. Len(q) : (q \o r)[i] = q[i]
          /\ \A i \in 1 .. Len(r) : (q \o r)[Len(q) + i] = r[i]
      BY <1>2, <1>4, Longer
    <3>3. \A i \in DOMAIN (q \o r) : i \in DOMAIN q \/ (i - Len(q) \in DOMAIN r /\ (q \o r)[i] = r[i - Len(q)])
      <4> SUFFICES ASSUME NEW i \in DOMAIN (q \o r), i \notin DOMAIN q
                   PROVE i - Len(q) \in DOMAIN r /\ (q \o r)[i] = r[i - Len(q)] OBVIOUS
      <4>1. i - Len(q) \in 1 .. Len(r) /\ i = Len(q) + (i - Len(q)) BY <3>2
      <4> QED BY <4>1, <3>2
    <3>4. \A i \in DOMAIN (q \o r) : (q \o r)[i].event = "watch" => (q \o r)[i].msg[1] \in Sessions
      <4> SUFFICES ASSUME NEW i \in DOMAIN (q \o r), (q \o r)[i].event = "watch"
                   PROVE (q \o r)[i].msg[1] \in Sessions OBVIOUS
      <4>1. CASE i \in DOMAIN q BY <4>1, <3>2, <1>2 DEF Wires
      <4>2. CASE i \notin DOMAIN q
        <5>1. (q \o r)[i].msg = <<t, N>> /\ t \in link.subs BY <4>2, <3>3, <1>4
        <5> QED BY <5>1, <1>2
      <4> QED BY <4>1, <4>2
    <3>5. ASSUME NEW s \in link.subs, NEW n \in 1 .. Len(log'[s])
          PROVE Known(s, n)' \/ \E j \in DOMAIN (q \o r) : (q \o r)[j] = Watch(s, n)
      <4>0. s \in Sessions /\ s \in Targets /\ n \in Nat \ {0} BY <1>2
      <4>1. CASE n \in 1 .. Len(log[s])
        <5>1. Known(s, n) \/ \E j \in DOMAIN q : q[j] = Watch(s, n) BY <4>1, <1>2 DEF Wires
        <5>2. \A j \in DOMAIN q : j \in DOMAIN (q \o r) /\ (q \o r)[j] = q[j] BY <3>2
        <5> QED BY <5>1, <5>2, <4>0, <1>8
      <4>2. CASE n \notin 1 .. Len(log[s])
        <5>1. s = t /\ n = N
          <6>1. s = t BY <4>0, <4>2, <1>3
          <6> QED BY <6>1, <4>2, <1>3 DEF N
        <5>2. 1 \in 1 .. Len(r) /\ r[1] = Watch(s, n) BY <5>1, <1>4, <3>2
        <5>3. (q \o r)[Len(q) + 1] = Watch(s, n) /\ Len(q) + 1 \in DOMAIN (q \o r) BY <5>2, <3>2
        <5> QED BY <5>3
      <4> QED BY <4>1, <4>2
    <3>6. ASSUME NEW i \in DOMAIN (q \o r), NEW s \in Sessions, NEW m \in Nat, (q \o r)[i] = Watch(s, m),
                 NEW n \in 1 .. m - 1
          PROVE Known(s, n)' \/ \E j \in 1 .. i - 1 : (q \o r)[j] = Watch(s, n)
      <4>0. n \in Nat \ {0} /\ i \in Nat BY <3>2
      <4>1. CASE i \in DOMAIN q
        <5>1. q[i] = Watch(s, m) BY <4>1, <3>2, <3>6
        <5>2. Known(s, n) \/ \E j \in 1 .. i - 1 : q[j] = Watch(s, n) BY <4>1, <5>1, <1>2 DEF Wires
        <5>3. \A j \in 1 .. i - 1 : (q \o r)[j] = q[j] BY <4>1, <3>2
        <5> QED BY <5>2, <5>3, <4>0, <1>8
      <4>2. CASE i \notin DOMAIN q
        <5>1. r[i - Len(q)] = Watch(s, m) /\ i - Len(q) \in DOMAIN r BY <4>2, <3>3, <3>6
        <5>2. Watch(s, m).msg = <<s, m>> /\ Watch(s, m).event = "watch" BY DEF Watch
        <5>3. s = t /\ m = N /\ t \in link.subs BY <5>1, <5>2, <1>4
        <5>4. n \in 1 .. Len(log[s]) BY <5>3, <1>3 DEF N
        <5>5. Known(s, n) \/ \E j \in DOMAIN q : q[j] = Watch(s, n) BY <5>3, <5>4, <1>2 DEF Wires
        <5>6. \A j \in DOMAIN q : j \in 1 .. i - 1 /\ (q \o r)[j] = q[j] BY <4>2, <3>2
        <5> QED BY <5>5, <5>6, <4>0, <1>8
      <4> QED BY <4>1, <4>2
    <3>7. \A g \in Handlers : handlers'[g].stage # "idle" => g <= link'.epoch BY <1>1, <1>2, <3>1 DEF Wires
    <3> HIDE DEF Known, q
    <3>8. \A s \in link'.subs : \A n \in 1 .. Len(log'[s]) :
             Known(s, n)' \/ \E j \in DOMAIN link'.wire : link'.wire[j] = Watch(s, n)
      BY <3>1, <3>5
    <3>9. \A i \in DOMAIN link'.wire : \A s \in Sessions, m \in Nat : link'.wire[i] = Watch(s, m) =>
             \A n \in 1 .. m - 1 : Known(s, n)' \/ \E j \in 1 .. i - 1 : link'.wire[j] = Watch(s, n)
      BY <3>1, <3>6
    <3>10. \A i \in DOMAIN link'.wire : link'.wire[i].event = "watch" => link'.wire[i].msg[1] \in Sessions
      BY <3>1, <3>4
    <3> QED BY <2>2, <3>1, <3>7, <3>8, <3>9, <3>10 DEF Wires, Watch, Handlers
  <2> QED BY <2>1, <2>2
<1> QED BY <1>6, <1>7, <1>10, <1>11 DEF Sure

-----------------------------------------------------------------------------
(* Every step, and what is proved of the cursors.                          *)

LEMMA SureStep == ASSUME Given, Sure, MochatNext PROVE Sure'
<1>1. ASSUME NEW t \in Targets, NEW k \in Kinds, Say(t, k) PROVE Sure' BY <1>1, SaySure
<1>2. CASE Start \/ StartSteps BY <1>2, StartSure, ConnectedSure, StartRefreshedSure DEF StartSteps
<1>3. CASE ConnectFails \/ Break BY <1>3, BrokenSure
<1>4. CASE Stop \/ StopClears \/ RefreshEnsures BY <1>4, StopSure
<1>5. CASE StopLeaves \/ Crash BY <1>5, StopLeavesSure, CrashSure
<1>6. CASE SocketStep BY <1>6, DeliverSure, FindSure DEF SocketStep, InboxFinds
<1>7. ASSUME NEW h \in Handlers, HandlerStep(h) PROVE Sure'
  BY <1>7, SocketUpSure, ServerSubscribesSure, AckLostSure, HandlerEndsSure, AckedSure, HandlerDecidesSure,
     HandlerLooksSure, HandlerFoundSure DEF HandlerStep
<1>8. ASSUME NEW s \in Sessions, WatchStep(s) \/ RefreshFinds(s) PROVE Sure'
  BY <1>8, WorkerAnsweredSure, WorkerAsksAgainSure, WatchComesSure, FindSure DEF WatchStep, RefreshFinds
<1>9. ASSUME NEW p \in Panels, PollComes(p) PROVE Sure' BY <1>9, PollComesSure
<1>10. ASSUME NEW t \in Targets, WorkerFails(t) PROVE Sure' BY <1>10, WorkerFailsSure
<1>11. CASE SaveCursors BY <1>11, SaveCursorsSure
<1>12. CASE Timers BY <1>12, TimerFiresSure, StrayFiresSure DEF Timers
<1> QED BY <1>1, <1>2, <1>3, <1>4, <1>5, <1>6, <1>7, <1>8, <1>9, <1>10, <1>11, <1>12 DEF MochatNext

LEMMA SureStutter == ASSUME Sure, UNCHANGED mochatVars PROVE Sure'
<1>1. UNCHANGED <<log, link, setup, sessions, cold, cursor, skipped, saved, workers, handlers, seen, buffer, ever, atRisk>>
  BY DEF mochatVars, object, cursors, hearing
<1>2. MochatTypes' BY <1>1 DEF Sure, MochatTypes
<1>3. Grows /\ Takes' BY <1>1, Grown, TakesStay DEF Sure
<1> QED BY <1>1, <1>2, <1>3, CursorsBack, SureFollows DEF Sure

LEMMA SureCovers == ASSUME Sure PROVE CursorCovers
<1> SUFFICES ASSUME NEW s \in Sessions, NEW n \in 1 .. MaxSaid, n <= cursor[s] \/ n <= saved[s]
             PROVE <<s, n>> \in ever \cup skipped \cup atRisk \cup Carried(s)
  BY DEF CursorCovers
<1>1. n \in Nat \ {0} OBVIOUS
<1>2. Known(s, n) BY <1>1 DEF Sure, Cursors, Covered
<1>3. MochatTypes BY DEF Sure
<1>4. CASE Acking(s, n) BY <1>1, <1>3, <1>4, AckingCarried
<1> QED BY <1>2, <1>4 DEF Known, Settled

\* No cursor, in memory or in the file, passes a message of its session that has
\* not been handled (or is not in an acknowledgement about to be): what the
\* channel asks for after it (_session_watch_worker, _subscribe_sessions) leaves
\* nothing out.  For any sessions, configurations and faults.
THEOREM CursorsCover == MochatSpec => []CursorCovers
<1>0. Given BY MochatAssumption
<1>1. MochatInit => Sure BY <1>0, InitSure
<1>2. Sure /\ [MochatNext]_mochatVars => Sure' BY <1>0, SureStep, SureStutter
<1>3. Sure => CursorCovers BY SureCovers
<1> QED BY <1>1, <1>2, <1>3, PTL DEF MochatSpec

-----------------------------------------------------------------------------
(* Each message once.  As long as no more is said than ids are remembered, *)
(* an id once remembered is never forgotten.                               *)

LEMMA UpToCount ==
  ASSUME NEW n \in Nat PROVE IsFiniteSet(1 .. n) /\ Cardinality(1 .. n) = n
<1>1. 1 \in Int /\ n \in Int OBVIOUS
<1>2. /\ IsFiniteSet(1 .. n)
      /\ Cardinality(1 .. n) = IF 1 > n THEN 0 ELSE n - 1 + 1
  BY <1>1, FS_Interval
<1>3. (IF 1 > n THEN 0 ELSE n - 1 + 1) = n OBVIOUS
<1> QED BY <1>2, <1>3

\* Places of one conversation that differ are no more than what was said.
LEMMA DistinctShort ==
  ASSUME NEW n \in Nat, NEW t, NEW q \in Seq({<<t, i>> : i \in 1 .. n}), Distinct(q)
  PROVE  Len(q) <= n
<1> DEFINE f == [i \in 1 .. Len(q) |-> q[i][2]]
<1>1. Len(q) \in Nat /\ DOMAIN q = 1 .. Len(q) OBVIOUS
<1>2. \A i \in 1 .. Len(q) : q[i] \in {<<t, k>> : k \in 1 .. n} BY <1>1
<1>3. \A i \in 1 .. Len(q) : q[i] = <<t, q[i][2]>> /\ q[i][2] \in 1 .. n BY <1>2
<1>4. \A i, j \in 1 .. Len(q) : q[i][2] = q[j][2] => i = j
  <2> SUFFICES ASSUME NEW i \in 1 .. Len(q), NEW j \in 1 .. Len(q), q[i][2] = q[j][2] PROVE i = j
    OBVIOUS
  <2>1. q[i] = <<t, q[i][2]>> /\ q[j] = <<t, q[j][2]>> BY <1>3
  <2>2. q[i] = q[j] BY <2>1
  <2> QED BY <2>2, <1>1 DEF Distinct
<1>5. f \in Injection(1 .. Len(q), 1 .. n)
  <2>1. f \in [1 .. Len(q) -> 1 .. n] BY <1>3
  <2>2. \A i, j \in 1 .. Len(q) : f[i] = f[j] => i = j BY <1>4
  <2> QED BY <2>1, <2>2 DEF Injection, IsInjective
<1>6. IsFiniteSet(1 .. n) /\ Cardinality(1 .. n) = n /\ Cardinality(1 .. Len(q)) = Len(q)
  BY <1>1, UpToCount
<1>7. Cardinality(1 .. Len(q)) <= Cardinality(1 .. n) BY <1>5, <1>6, FS_Injection
<1> QED BY <1>6, <1>7

LEMMA JoinedSet ==
  ASSUME NEW S, NEW q \in Seq(S), NEW T, NEW r \in Seq(T)
  PROVE  ToSet(q \o r) = ToSet(q) \cup ToSet(r)
<1> DEFINE all == q \o r
<1>1. /\ Len(q) \in Nat /\ Len(r) \in Nat /\ DOMAIN all = 1 .. Len(q) + Len(r)
      /\ DOMAIN q = 1 .. Len(q) /\ DOMAIN r = 1 .. Len(r)
      /\ \A i \in 1 .. Len(q) : all[i] = q[i]
      /\ \A i \in 1 .. Len(r) : all[Len(q) + i] = r[i]
  OBVIOUS
<1> HIDE DEF all
<1>2. \A i \in DOMAIN all : \/ i \in DOMAIN q /\ all[i] = q[i]
                            \/ i - Len(q) \in DOMAIN r /\ all[i] = r[i - Len(q)]
  <2> SUFFICES ASSUME NEW i \in DOMAIN all, i \notin DOMAIN q
               PROVE i - Len(q) \in DOMAIN r /\ all[i] = r[i - Len(q)]
    BY <1>1
  <2>1. i - Len(q) \in 1 .. Len(r) /\ i = Len(q) + (i - Len(q)) BY <1>1
  <2> QED BY <2>1, <1>1
<1>3. ToSet(all) \subseteq ToSet(q) \cup ToSet(r) BY <1>2 DEF ToSet
<1>4. \A i \in DOMAIN q : i \in DOMAIN all /\ all[i] = q[i] BY <1>1
<1>5. \A i \in DOMAIN r : Len(q) + i \in DOMAIN all /\ all[Len(q) + i] = r[i] BY <1>1
<1>6. ToSet(q) \subseteq ToSet(all) BY <1>4 DEF ToSet
<1>7. ToSet(r) \subseteq ToSet(all) BY <1>5 DEF ToSet
<1> QED BY <1>3, <1>6, <1>7 DEF all

LEMMA NewsDiffer ==
  ASSUME NEW t, NEW S, NEW ms \in Seq(S), Distinct(ms)
  PROVE  Distinct(New(t, ms))
<1> DEFINE ps == {i \in DOMAIN ms : ms[i] \notin ToSet(seen[t])}
<1>1. ps \in SUBSET DOMAIN ms OBVIOUS
<1>2. New(t, ms) = At(ms, ps) BY DEF New
<1> HIDE DEF ps
<1>3. \A k, l \in DOMAIN At(ms, ps) : k # l =>
         \E i, j \in ps : i # j /\ At(ms, ps)[k] = ms[i] /\ At(ms, ps)[l] = ms[j]
  BY <1>1, AtPlaces
<1>4. \A i, j \in ps : i # j => ms[i] # ms[j] BY <1>1 DEF Distinct
<1>5. \A k, l \in DOMAIN At(ms, ps) : k # l => At(ms, ps)[k] # At(ms, ps)[l] BY <1>3, <1>4
<1> QED BY <1>2, <1>5 DEF Distinct

\* Two rows of different messages without one in common, one after the other.
LEMMA JoinDiffers ==
  ASSUME NEW S, NEW q \in Seq(S), NEW r \in Seq(S), Distinct(q), Distinct(r),
         ToSet(q) \cap ToSet(r) = {}
  PROVE  /\ q \o r \in Seq(S) /\ Distinct(q \o r) /\ ToSet(q \o r) = ToSet(q) \cup ToSet(r)
<1> DEFINE all == q \o r
<1>1. /\ all \in Seq(S) /\ Len(q) \in Nat /\ Len(r) \in Nat /\ DOMAIN all = 1 .. Len(q) + Len(r)
      /\ DOMAIN q = 1 .. Len(q) /\ DOMAIN r = 1 .. Len(r)
      /\ \A i \in 1 .. Len(q) : all[i] = q[i]
      /\ \A i \in 1 .. Len(r) : all[Len(q) + i] = r[i]
  OBVIOUS
<1> HIDE DEF all
<1>2. \A i \in DOMAIN all : \/ i \in DOMAIN q /\ all[i] = q[i]
                            \/ i - Len(q) \in DOMAIN r /\ all[i] = r[i - Len(q)]
  <2> SUFFICES ASSUME NEW i \in DOMAIN all, i \notin DOMAIN q
               PROVE i - Len(q) \in DOMAIN r /\ all[i] = r[i - Len(q)]
    BY <1>1
  <2>1. i - Len(q) \in 1 .. Len(r) /\ i = Len(q) + (i - Len(q)) BY <1>1
  <2> QED BY <2>1, <1>1
<1>3. \A i \in DOMAIN q, j \in DOMAIN r : q[i] # r[j] BY DEF ToSet
<1>4. Distinct(all)
  <2> SUFFICES ASSUME NEW i \in DOMAIN all, NEW j \in DOMAIN all, all[i] = all[j] PROVE i = j
    BY DEF Distinct
  <2>0. i \in Int /\ j \in Int BY <1>1
  <2>1. CASE i \in DOMAIN q /\ all[i] = q[i] /\ j \in DOMAIN q /\ all[j] = q[j]
    BY <2>1 DEF Distinct
  <2>2. CASE /\ i - Len(q) \in DOMAIN r /\ all[i] = r[i - Len(q)]
             /\ j - Len(q) \in DOMAIN r /\ all[j] = r[j - Len(q)]
    <3>1. i - Len(q) = j - Len(q) BY <2>2 DEF Distinct
    <3> QED BY <3>1, <2>0, <1>1
  <2> QED BY <1>2, <1>3, <2>1, <2>2
<1>5. ToSet(all) = ToSet(q) \cup ToSet(r) BY JoinedSet DEF all
<1> QED BY <1>1, <1>4, <1>5 DEF all

LEMMA AllRemembered ==
  ASSUME NEW t, NEW n \in Nat, n <= MaxSeen, MaxSeen \in Nat,
         seen[t] \in Seq({<<t, i>> : i \in 1 .. n}), Distinct(seen[t]),
         NEW new \in Seq({<<t, i>> : i \in 1 .. n}), Distinct(new), ToSet(seen[t]) \cap ToSet(new) = {}
  PROVE  /\ Distinct(Remembered(t, new))
         /\ ToSet(Remembered(t, new)) = ToSet(seen[t]) \cup ToSet(new)
<1> DEFINE all == seen[t] \o new
<1>1. /\ all \in Seq({<<t, i>> : i \in 1 .. n}) /\ Distinct(all)
      /\ ToSet(all) = ToSet(seen[t]) \cup ToSet(new)
  BY JoinDiffers
<1>2. Remembered(t, new) = SubSeq(all, (IF Len(all) > MaxSeen THEN Len(all) - MaxSeen ELSE 0) + 1, Len(all))
  BY DEF Remembered
<1> HIDE DEF all
<1>3. Len(all) <= n /\ Len(all) \in Nat
  <2>1. Len(all) \in Nat BY <1>1
  <2>2. Len(all) <= n BY <1>1, DistinctShort
  <2> QED BY <2>1, <2>2
<1>4. ~(Len(all) > MaxSeen) BY <1>3
<1>5. Remembered(t, new) = SubSeq(all, 1, Len(all)) BY <1>2, <1>4
<1>6. SubSeq(all, 1, Len(all)) = all BY <1>1, SubSeqFull
<1> QED BY <1>1, <1>5, <1>6

LEMMA EndOf ==
  ASSUME NEW S, NEW q \in Seq(S), NEW k \in 1 .. Len(q)
  PROVE  ToSet(SubSeq(q, k + 1, Len(q))) = {q[i] : i \in k + 1 .. Len(q)}
<1> DEFINE e == SubSeq(q, k + 1, Len(q))
<1>1. Len(q) \in Nat /\ k + 1 \in Int /\ Len(q) \in Int /\ \A i \in k + 1 .. Len(q) : q[i] \in S OBVIOUS
<1>2. /\ e \in Seq(S) /\ Len(e) = IF k + 1 <= Len(q) THEN Len(q) - (k + 1) + 1 ELSE 0
      /\ \A i \in 1 .. Len(q) - (k + 1) + 1 : e[i] = q[k + 1 + i - 1]
  BY <1>1, SubSeqProperties
<1> HIDE DEF e
<1>3. DOMAIN e = 1 .. Len(q) - k BY <1>1, <1>2
<1>4. \A i \in DOMAIN e : e[i] = q[k + i] /\ k + i \in k + 1 .. Len(q) BY <1>1, <1>2, <1>3
<1>5. \A i \in k + 1 .. Len(q) : i - k \in DOMAIN e /\ e[i - k] = q[i]
  <2> SUFFICES ASSUME NEW i \in k + 1 .. Len(q) PROVE i - k \in DOMAIN e /\ e[i - k] = q[i] OBVIOUS
  <2>1. i - k \in DOMAIN e /\ k + (i - k) = i BY <1>1, <1>3
  <2> QED BY <2>1, <1>4
<1>6. ToSet(e) \subseteq {q[i] : i \in k + 1 .. Len(q)} BY <1>4 DEF ToSet
<1>7. {q[i] : i \in k + 1 .. Len(q)} \subseteq ToSet(e) BY <1>5 DEF ToSet
<1> QED BY <1>6, <1>7 DEF e

LEMMA Within ==
  ASSUME NEW S, NEW T, NEW q \in Seq(S), \A i \in DOMAIN q : q[i] \in T
  PROVE  q \in Seq(T)
<1>1. Len(q) \in Nat /\ DOMAIN q = 1 .. Len(q) /\ q = [i \in 1 .. Len(q) |-> q[i]] OBVIOUS
<1>2. q \in [1 .. Len(q) -> T] BY <1>1
<1> QED BY <1>1, <1>2

Waiting(t) == IF t \in Panels THEN ToSet(buffer[t]) ELSE {}

\* What hearing of messages does: the news of the conversation N go, with
\* what waited, to the agent (F) or wait now (B), or are ignored.
Sorted(t, N, F, B) ==
  /\ N \subseteq Said(t) /\ N \cap ToSet(seen[t]) = {}
  /\ \A u \in Targets : u # t => seen'[u] = seen[u]
  /\ ToSet(seen'[t]) = ToSet(seen[t]) \cup N /\ Distinct(seen'[t])
  /\ \A p \in Panels : IF p = t THEN ToSet(buffer'[p]) = B ELSE buffer'[p] = buffer[p]
  /\ forwarded' = [m \in Messages |-> IF m \in F THEN forwarded[m] + 1 ELSE forwarded[m]]
  /\ F \cup B \subseteq N \cup Waiting(t) /\ F \cap B = {}
  /\ t \in Panels \/ B = {}
  /\ \A m \in N \cup Waiting(t) : m \in F \cup B \/ Ignored(m)

LEMMA HearSorts ==
  ASSUME Given, MaxSaid <= MaxSeen, MochatTypes, Exist, Once,
         NEW t \in Targets, NEW ms \in Seq(Said(t)), Distinct(ms), Hear(t, ms)
  PROVE  \E N, F, B : Sorted(t, N, F, B)
<1> DEFINE new == New(t, ms)
           N == News(t, ms)
           L == Len(log[t])
<1>1. /\ L \in Nat /\ L <= MaxSaid /\ MaxSaid \in Nat /\ MaxSeen \in Nat /\ L <= MaxSeen
      /\ Said(t) = {<<t, i>> : i \in 1 .. L}
  <2>1. log[t] \in Seq(Kinds) /\ L <= MaxSaid BY DEF MochatTypes, Exist
  <2> QED BY <2>1 DEF Given, Said
<1>2. new \in Seq(Said(t)) /\ ToSet(new) = N /\ Distinct(new) BY NewsAreNew, NewsDiffer
<1>3. N \subseteq Said(t) /\ N \cap ToSet(seen[t]) = {} BY <1>2 DEF News, ToSet
<1>4. seen' = [seen EXCEPT ![t] = Remembered(t, new)] BY DEF Hear, New
<1>5. Distinct(Remembered(t, new)) /\ ToSet(Remembered(t, new)) = ToSet(seen[t]) \cup N
  <2>1. seen[t] \in Seq(Targets \X Nat) /\ ToSet(seen[t]) \subseteq Said(t) /\ Distinct(seen[t])
    BY DEF MochatTypes, Exist, Once
  <2>2. seen[t] \in Seq(Said(t)) BY <2>1, Within DEF ToSet
  <2> HIDE DEF new, N, L
  <2>3. seen[t] \in Seq({<<t, i>> : i \in 1 .. L}) /\ new \in Seq({<<t, i>> : i \in 1 .. L})
    BY <1>1, <1>2, <2>2
  <2>4. Distinct(seen[t]) /\ Distinct(new) /\ ToSet(seen[t]) \cap ToSet(new) = {} BY <1>2, <1>3, <2>1
  <2>5. /\ Distinct(Remembered(t, new))
        /\ ToSet(Remembered(t, new)) = ToSet(seen[t]) \cup ToSet(new)
    BY <1>1, <2>3, <2>4, AllRemembered
  <2> QED BY <1>2, <2>5
<1>6. /\ \A u \in Targets : u # t => seen'[u] = seen[u]
      /\ seen'[t] = Remembered(t, new)
  BY <1>4 DEF MochatTypes
<1>7. Waiting(t) \subseteq ToSet(seen[t]) BY DEF Waiting, Exist
<1>8. CASE t \in Panels /\ setup.reply = "delay"
  <2>1. Delay(t, new) BY <1>8 DEF Hear, New
  <2> DEFINE mentions == {i \in 1 .. Len(new) : Kind(new[i]) = "mention"}
             k == IF mentions = {} THEN 0 ELSE CHOOSE i \in mentions : \A j \in mentions : j <= i
  <2>2. /\ buffer' = [buffer EXCEPT ![t] = IF k = 0 THEN @ \o new ELSE SubSeq(new, k + 1, Len(new))]
        /\ Forward(IF k = 0 THEN {} ELSE Flushed(t, new, k))
    BY <2>1 DEF Delay
  <2>3. Len(new) \in Nat /\ k \in 0 .. Len(new)
    <3>0. mentions \in SUBSET (1 .. Len(new)) /\ Len(new) \in Nat BY <1>2
    <3>1. CASE mentions = {} BY <3>0, <3>1
    <3>2. CASE mentions # {}
      <4> HIDE DEF mentions, new
      <4>1. \E i \in mentions : \A j \in mentions : j <= i BY <3>0, <3>2, GreatestPlace
      <4>2. k \in mentions BY <4>1, <3>2
      <4> HIDE DEF k
      <4> QED BY <4>2, <3>0
    <3> QED BY <3>1, <3>2
  <2> HIDE DEF k, new, N, L
  <2>4. Waiting(t) = ToSet(buffer[t]) BY <1>8 DEF Waiting
  <2>5. buffer \in [Panels -> Seq(Targets \X Nat)] BY DEF MochatTypes
  <2>6. CASE k = 0
    <3>1. /\ buffer'[t] = buffer[t] \o new /\ \A p \in Panels : p # t => buffer'[p] = buffer[p]
          /\ forwarded' = [m \in Messages |-> IF m \in {} THEN forwarded[m] + 1 ELSE forwarded[m]]
      BY <2>2, <2>5, <2>6, <1>8 DEF Forward
    <3>2. ToSet(buffer[t] \o new) = ToSet(buffer[t]) \cup ToSet(new)
      BY <2>5, <1>8, <1>2, JoinedSet
    <3> DEFINE B == ToSet(buffer'[t])
    <3>3. B = N \cup Waiting(t) BY <1>2, <2>4, <3>1, <3>2
    <3>4. \A p \in Panels : IF p = t THEN ToSet(buffer'[p]) = B ELSE buffer'[p] = buffer[p] BY <3>1
    <3> HIDE DEF B
    <3>5. Sorted(t, N, {}, B) BY <1>3, <1>5, <1>6, <1>8, <3>1, <3>3, <3>4 DEF Sorted
    <3> QED BY <3>5
  <2>7. CASE k \in 1 .. Len(new)
    <3> DEFINE F == ToSet(buffer[t]) \cup {new[i] : i \in 1 .. k}
               B == {new[i] : i \in k + 1 .. Len(new)}
    <3>1. /\ buffer'[t] = SubSeq(new, k + 1, Len(new)) /\ \A p \in Panels : p # t => buffer'[p] = buffer[p]
          /\ forwarded' = [m \in Messages |-> IF m \in F THEN forwarded[m] + 1 ELSE forwarded[m]]
      BY <2>2, <2>5, <2>7, <1>8 DEF Forward, Flushed
    <3>2. ToSet(SubSeq(new, k + 1, Len(new))) = B BY <2>3, <2>7, <1>2, EndOf
    <3>3. DOMAIN new = 1 .. Len(new) /\ ToSet(new) = {new[i] : i \in 1 .. Len(new)} BY <1>2 DEF ToSet
    <3>4. {new[i] : i \in 1 .. k} \cap B = {} /\ {new[i] : i \in 1 .. k} \cup B = ToSet(new)
      <4>1. \A i \in 1 .. k : i \in 1 .. Len(new) /\ \A j \in k + 1 .. Len(new) : j \in 1 .. Len(new) /\ i # j
        BY <2>3, <2>7
      <4>2. \A i \in 1 .. Len(new) : i \in 1 .. k \/ i \in k + 1 .. Len(new) BY <2>3, <2>7
      <4>3. \A i \in k + 1 .. Len(new) : i \in 1 .. Len(new) BY <2>3, <2>7
      <4>4. {new[i] : i \in 1 .. k} \cap B = {} BY <4>1, <3>3, <1>2 DEF Distinct
      <4>5. {new[i] : i \in 1 .. k} \cup B \subseteq ToSet(new) BY <4>1, <4>3, <3>3
      <4>6. ToSet(new) \subseteq {new[i] : i \in 1 .. k} \cup B BY <4>2, <3>3
      <4> QED BY <4>4, <4>5, <4>6
    <3>5. F \cup B = N \cup Waiting(t) /\ F \cap B = {} BY <3>4, <2>4, <1>2, <1>3, <1>7
    <3>6. ToSet(buffer'[t]) = B BY <3>1, <3>2
    <3> HIDE DEF F, B
    <3>7. Sorted(t, N, F, B) BY <1>3, <1>5, <1>6, <1>8, <3>1, <3>5, <3>6 DEF Sorted
    <3> QED BY <3>7
  <2> QED BY <2>3, <2>6, <2>7
<1>9. CASE ~(t \in Panels /\ setup.reply = "delay")
  <2> DEFINE F == IF t \in Panels /\ setup.reply = "mention"
                  THEN {m \in ToSet(new) : Kind(m) = "mention"} ELSE ToSet(new)
  <2>1. buffer' = buffer BY <1>9 DEF Hear, New
  <2>2. forwarded' = [m \in Messages |-> IF m \in F THEN forwarded[m] + 1 ELSE forwarded[m]]
    BY <1>9 DEF Hear, New, Forward
  <2>3. F \subseteq N /\ F \cap Waiting(t) = {} BY <1>2, <1>3, <1>7
  <2>4. \A m \in N : m \in F \/ Ignored(m)
    <3> SUFFICES ASSUME NEW m \in N, m \notin F PROVE Ignored(m) OBVIOUS
    <3>1. t \in Panels /\ setup.reply = "mention" /\ Kind(m) # "mention" BY <1>2
    <3>2. m[1] = t BY <1>3, <1>1
    <3> QED BY <3>1, <3>2 DEF Ignored
  <2>5. \A p \in Panels : IF p = t THEN ToSet(buffer'[p]) = Waiting(t) ELSE buffer'[p] = buffer[p]
    BY <2>1 DEF Waiting
  <2>6. t \in Panels \/ Waiting(t) = {} BY DEF Waiting
  <2> HIDE DEF F, N, new, L
  <2>7. Sorted(t, N, F, Waiting(t)) BY <1>3, <1>5, <1>6, <2>2, <2>3, <2>4, <2>5, <2>6 DEF Sorted
  <2> QED BY <2>7
<1> QED BY <1>8, <1>9

LEMMA OnceHeard ==
  ASSUME Given, MochatTypes, Exist, Once, NEW t \in Targets, NEW N, NEW F, NEW B, Sorted(t, N, F, B),
         UNCHANGED <<log, setup>>, Started' => Started
  PROVE  Once'
<1>1. /\ \A u \in Targets : Said(u) \subseteq Messages /\ \A m \in Said(u) : m[1] = u
      /\ MaxSaid \in Nat
  <2>1. \A u \in Targets : Len(log[u]) \in Nat /\ Len(log[u]) <= MaxSaid BY DEF MochatTypes, Exist
  <2>2. MaxSaid \in Nat BY DEF Given
  <2> QED BY <2>1, <2>2 DEF Said, Messages
<1>2. Waiting(t) \subseteq ToSet(seen[t]) /\ ToSet(seen[t]) \subseteq Said(t) BY DEF Exist, Waiting
<1>3. N \cup Waiting(t) \subseteq ToSet(seen'[t]) /\ N \cup Waiting(t) \subseteq Said(t)
  BY <1>2 DEF Sorted
<1>4. \A m \in N \cup Waiting(t) : forwarded[m] = 0
  <2>1. \A m \in Waiting(t) : forwarded[m] = 0 BY DEF Waiting, Once
  <2>2. ASSUME NEW m \in N PROVE forwarded[m] = 0
    <3>1. m \in Messages /\ m[1] = t /\ m \notin ToSet(seen[t]) BY <1>1, <1>3 DEF Sorted
    <3>2. forwarded[m] \in {0, 1} /\ forwarded[m] # 1 BY <3>1 DEF Once
    <3> QED BY <3>2
  <2> QED BY <2>1, <2>2
<1>5. \A m \in Messages : forwarded'[m] = IF m \in F THEN 1 ELSE forwarded[m]
  BY <1>4 DEF Sorted
<1>6. F \subseteq Messages /\ F \subseteq Said(t) BY <1>1, <1>3 DEF Sorted
<1>7. forwarded' \in [Messages -> {0, 1}]
  <2>1. forwarded' = [m \in Messages |-> forwarded'[m]] BY DEF Sorted
  <2>2. \A m \in Messages : forwarded'[m] \in {0, 1} BY <1>5 DEF Once
  <2> QED BY <2>1, <2>2
<1>8. \A u \in Targets : Distinct(seen'[u])
  BY DEF Sorted, Once
<1>9. \A m \in Messages : forwarded'[m] = 1 => m \in ToSet(seen'[m[1]])
  <2> SUFFICES ASSUME NEW m \in Messages, forwarded'[m] = 1 PROVE m \in ToSet(seen'[m[1]]) OBVIOUS
  <2>1. CASE m \in F BY <2>1, <1>3, <1>1, <1>6 DEF Sorted
  <2>2. CASE m \notin F
    <3>1. m \in ToSet(seen[m[1]]) /\ m[1] \in Targets BY <2>2, <1>5 DEF Once, Messages
    <3>2. CASE m[1] = t BY <3>1, <3>2 DEF Sorted
    <3>3. CASE m[1] # t BY <3>1, <3>3 DEF Sorted
    <3> QED BY <3>2, <3>3
  <2> QED BY <2>1, <2>2
<1>10. \A p \in Panels : \A m \in ToSet(buffer'[p]) : forwarded'[m] = 0
  <2> SUFFICES ASSUME NEW p \in Panels, NEW m \in ToSet(buffer'[p]) PROVE forwarded'[m] = 0 OBVIOUS
  <2>1. CASE p = t
    <3>1. m \in B /\ m \notin F BY <2>1 DEF Sorted
    <3>2. m \in N \cup Waiting(t) BY <3>1 DEF Sorted
    <3>3. m \in Messages BY <3>2, <1>3, <1>1
    <3> QED BY <3>1, <3>2, <3>3, <1>4, <1>5
  <2>2. CASE p # t
    <3>1. m \in ToSet(buffer[p]) /\ p \in Targets BY <2>2 DEF Sorted, Targets
    <3>2. forwarded[m] = 0 /\ m \in Said(p) BY <3>1 DEF Once, Exist
    <3>3. m[1] = p /\ m \notin F /\ m \in Messages BY <3>1, <3>2, <1>1, <1>6, <2>2
    <3> QED BY <3>2, <3>3, <1>5
  <2> QED BY <2>1, <2>2
<1>11. ASSUME Started', NEW u \in Targets, NEW m \in ToSet(seen'[u])
       PROVE Ignored(m) \/ forwarded'[m] = 1 \/ (u \in Panels /\ m \in ToSet(buffer'[u]))
  <2>1. CASE u = t /\ m \in N \cup Waiting(t)
    <3>1. Ignored(m) \/ m \in F \/ m \in B BY <2>1 DEF Sorted
    <3>2. m \in F => forwarded'[m] = 1 BY <1>5, <1>6
    <3>3. m \in B => u \in Panels /\ m \in ToSet(buffer'[u]) BY <2>1 DEF Sorted
    <3> QED BY <3>1, <3>2, <3>3
  <2>2. CASE u = t /\ m \notin N \cup Waiting(t)
    <3>1. m \in ToSet(seen[t]) /\ m \notin F BY <2>2 DEF Sorted
    <3>2. ~(t \in Panels /\ m \in ToSet(buffer[t])) BY <2>2 DEF Waiting
    <3>3. Started BY <1>11
    <3>4. Ignored(m) \/ forwarded[m] = 1 BY <3>1, <3>2, <3>3 DEF Once
    <3>5. m \in Messages BY <3>1, <1>2, <1>1
    <3> QED BY <3>1, <3>4, <3>5, <1>5
  <2>3. CASE u # t
    <3>1. m \in ToSet(seen[u]) BY <2>3, <1>11 DEF Sorted
    <3>2. Ignored(m) \/ forwarded[m] = 1 \/ (u \in Panels /\ m \in ToSet(buffer[u])) BY <3>1, <1>11 DEF Once
    <3>3. m \in Said(u) /\ m \in Messages
      <4>1. m \in Said(u) BY <3>1 DEF Exist
      <4>2. Len(log[u]) \in Nat /\ Len(log[u]) <= MaxSaid BY DEF MochatTypes, Exist
      <4> QED BY <4>1, <4>2, <1>1 DEF Said, Messages
    <3>4. m \notin F BY <3>3, <2>3, <1>1, <1>6
    <3>5. forwarded'[m] = forwarded[m] BY <3>3, <3>4, <1>5
    <3>6. u \in Panels => buffer'[u] = buffer[u] BY <2>3 DEF Sorted
    <3> QED BY <3>2, <3>5, <3>6
  <2> QED BY <2>1, <2>2, <2>3
<1>12. \A m : Ignored(m)' <=> Ignored(m) BY DEF Ignored, Kind
<1> HIDE DEF Started
<1> QED BY <1>7, <1>8, <1>9, <1>10, <1>11, <1>12 DEF Once, Messages

\* What was said stays said.
LEMMA ExistFollows ==
  ASSUME MochatTypes, Exist, log' = log,
         \A t \in Targets : ToSet(seen'[t]) \subseteq Said(t),
         \A p \in Panels : ToSet(buffer'[p]) \subseteq ToSet(seen'[p]),
         \A h \in Handlers, s \in Sessions : handlers'[h].upto[s] \in {0, handlers[h].upto[s], Len(log[s])},
         \A t \in Targets : workers'[t].upto \in {0, workers[t].upto, Len(log[t])},
         \A i \in DOMAIN link'.wire : \E j \in DOMAIN link.wire : link'.wire[i] = link.wire[j]
  PROVE  Exist'
<1>1. \A t \in Targets : Len(log[t]) \in Nat BY DEF MochatTypes
<1>2. AllSaid' = AllSaid /\ \A t : Said(t)' = Said(t) BY DEF AllSaid, Said
<1>3. \A h \in Handlers, s \in Sessions : handlers'[h].upto[s] <= Len(log[s])
  BY <1>1 DEF Exist, Targets
<1>4. \A t \in Targets : workers'[t].upto <= Len(log[t]) BY <1>1 DEF Exist
<1>5. \A i \in DOMAIN link'.wire : link'.wire[i].msg \in Said(link'.wire[i].msg[1]) BY DEF Exist
<1>6. IsFiniteSet(AllSaid') BY <1>2 DEF Exist
<1> HIDE DEF AllSaid, Said
<1>7. \A t \in Targets : ToSet(seen'[t]) \subseteq Said(t)' BY <1>2
<1>8. (\A i \in DOMAIN link.wire : link.wire[i].msg \in Said(link.wire[i].msg[1]))' BY <1>5 DEF Said
<1> QED BY <1>3, <1>4, <1>6, <1>7, <1>8 DEF Exist, Handlers, Targets

\* A step that hears of nothing.
LEMMA OnceStays ==
  ASSUME MochatTypes, Exist, Once, UNCHANGED <<log, setup, seen, buffer, forwarded>>, Started' => Started
  PROVE  Once'
<1>1. \A m : Ignored(m)' <=> Ignored(m) BY DEF Ignored, Kind
<1> HIDE DEF Started
<1> QED BY <1>1 DEF Once, Messages

Lasts == MochatTypes /\ Exist /\ Once

\* A step that says nothing, and after which nothing is on its way that was
\* not before or is not in the log.
Keeps ==
  /\ UNCHANGED <<log, setup>> /\ (Started' => Started)
  /\ \A h \in Handlers, s \in Sessions : handlers'[h].upto[s] \in {0, handlers[h].upto[s], Len(log[s])}
  /\ \A t \in Targets : workers'[t].upto \in {0, workers[t].upto, Len(log[t])}
  /\ \A i \in DOMAIN link'.wire : \E j \in DOMAIN link.wire : link'.wire[i] = link.wire[j]

LEMMA QuietLasts ==
  ASSUME Lasts, Keeps, UNCHANGED <<seen, buffer, forwarded>>
  PROVE  Exist' /\ Once'
<1>1. \A t \in Targets : ToSet(seen'[t]) \subseteq Said(t) BY DEF Lasts, Exist
<1>2. \A p \in Panels : ToSet(buffer'[p]) \subseteq ToSet(seen'[p]) BY DEF Lasts, Exist
<1>3. Exist' BY <1>1, <1>2, ExistFollows DEF Lasts, Keeps
<1> QED BY <1>3, OnceStays DEF Lasts, Keeps

LEMMA SortedLasts ==
  ASSUME Given, Lasts, Keeps, NEW t \in Targets, NEW N, NEW F, NEW B, Sorted(t, N, F, B)
  PROVE  Exist' /\ Once'
<1>1. Once' BY OnceHeard DEF Lasts, Keeps
<1>2. Waiting(t) \subseteq ToSet(seen[t]) /\ ToSet(seen[t]) \subseteq Said(t) BY DEF Lasts, Exist, Waiting
<1>3. \A u \in Targets : ToSet(seen'[u]) \subseteq Said(u)
  <2> SUFFICES ASSUME NEW u \in Targets PROVE ToSet(seen'[u]) \subseteq Said(u) OBVIOUS
  <2>1. CASE u = t BY <2>1, <1>2 DEF Sorted
  <2>2. CASE u # t
    <3>1. seen'[u] = seen[u] BY <2>2 DEF Sorted
    <3> QED BY <3>1 DEF Lasts, Exist
  <2> QED BY <2>1, <2>2
<1>4. \A p \in Panels : ToSet(buffer'[p]) \subseteq ToSet(seen'[p])
  <2> SUFFICES ASSUME NEW p \in Panels PROVE ToSet(buffer'[p]) \subseteq ToSet(seen'[p]) OBVIOUS
  <2>1. CASE p = t BY <2>1, <1>2 DEF Sorted
  <2>2. CASE p # t
    <3>1. seen'[p] = seen[p] /\ buffer'[p] = buffer[p] BY <2>2 DEF Sorted, Targets
    <3> QED BY <3>1 DEF Lasts, Exist
  <2> QED BY <2>1, <2>2
<1>5. Exist' BY <1>3, <1>4, ExistFollows DEF Lasts, Keeps
<1> QED BY <1>1, <1>5

LEMMA HearLasts ==
  ASSUME Given, MaxSaid <= MaxSeen, Lasts, Keeps,
         NEW t \in Targets, NEW ms \in Seq(Said(t)), Distinct(ms), Hear(t, ms)
  PROVE  Exist' /\ Once'
<1>1. \E N, F, B : Sorted(t, N, F, B) BY HearSorts DEF Lasts
<1>2. PICK N, F, B : Sorted(t, N, F, B) BY <1>1
<1> QED BY <1>2, SortedLasts

LEMMA PayloadLasts ==
  ASSUME Given, MaxSaid <= MaxSeen, Lasts, Keeps,
         NEW s \in Sessions, NEW ms \in Seq(Said(s)), Distinct(ms), NEW upto, Payload(s, ms, upto)
  PROVE  Exist' /\ Once'
<1>1. CASE s \in cold
  <2>1. UNCHANGED <<seen, buffer, forwarded>> BY <1>1 DEF Payload, hearing
  <2> QED BY <2>1, QuietLasts
<1>2. CASE s \notin cold
  <2>1. Hear(s, ms) /\ s \in Targets BY <1>2 DEF Payload, Targets
  <2> QED BY <2>1, HearLasts
<1> QED BY <1>1, <1>2

\* Part of the log of a conversation.
LEMMA BetweenSaid ==
  ASSUME MochatTypes, NEW t \in Targets, NEW a \in Nat, NEW b \in Nat, b <= Len(log[t])
  PROVE  Between(t, a, b) \in Seq(Said(t)) /\ Distinct(Between(t, a, b))
<1>1. /\ Between(t, a, b) \in Seq(Targets \X Nat)
      /\ ToSet(Between(t, a, b)) = {<<t, n>> : n \in a + 1 .. b}
      /\ Distinct(Between(t, a, b))
  BY BetweenPlaces DEF Distinct
<1>2. Len(log[t]) \in Nat BY DEF MochatTypes
<1>3. \A n \in a + 1 .. b : n \in 1 .. Len(log[t]) BY <1>2
<1>4. \A i \in DOMAIN Between(t, a, b) : Between(t, a, b)[i] \in ToSet(Between(t, a, b)) BY DEF ToSet
<1>5. \A i \in DOMAIN Between(t, a, b) : Between(t, a, b)[i] \in Said(t) BY <1>1, <1>3, <1>4 DEF Said
<1> QED BY <1>1, <1>5, Within

\* Workers that are started, cancelled or cleared have no answer yet, or the
\* one they had.
LEMMA WorkersKept ==
  ASSUME MochatTypes, NEW ts,
         workers' \in {workers, WorkersCancelled, Cleared, Ensured(ts)} \/ Ensure(ts)
  PROVE  \A t \in Targets : workers'[t].upto \in {0, workers[t].upto, Len(log[t])}
BY CancelledType, EnsuredType, EnsureType

\* A step of the channel object, its timers or its connection.
LEMMA ObjectLasts ==
  ASSUME Lasts, NEW ts,
         UNCHANGED <<log, setup, handlers, seen, buffer, forwarded>>, link' = link \/ link'.wire = <<>>,
         Started' => Started, workers' \in {workers, WorkersCancelled, Cleared, Ensured(ts)} \/ Ensure(ts)
  PROVE  Exist' /\ Once'
<1>1. \A t \in Targets : workers'[t].upto \in {0, workers[t].upto, Len(log[t])}
  BY WorkersKept DEF Lasts
<1>2. \A i \in DOMAIN link'.wire : \E j \in DOMAIN link.wire : link'.wire[i] = link.wire[j]
  <2>1. CASE link' = link BY <2>1
  <2>2. CASE link'.wire = <<>>
    <3>1. DOMAIN link'.wire = {} BY <2>2
    <3> QED BY <3>1
  <2> QED BY <2>1, <2>2
<1> HIDE DEF Started
<1>3. Keeps BY <1>1, <1>2 DEF Keeps
<1> QED BY <1>3, QuietLasts

LEMMA StartStepsLast == ASSUME Lasts, StartSteps PROVE Exist' /\ Once'
<1>1. CASE Connected
  <2>1. /\ UNCHANGED <<log, setup, handlers, seen, buffer, forwarded, link, workers>> /\ (Started' => Started)
    BY <1>1 DEF Connected, cursors, hearing, Started
  <2> HIDE DEF Started
  <2> QED BY <2>1, ObjectLasts
<1>2. ASSUME NEW found \in {{}, Found}, StartRefreshed(found) \/ StartPolls(found) PROVE Exist' /\ Once'
  <2>1. /\ UNCHANGED <<log, setup, handlers, seen, buffer, forwarded, link>> /\ (Started' => Started)
        /\ (workers' = workers \/ Ensure(sessions' \cup setup.panels))
    BY <1>2 DEF StartRefreshed, StartPolls, hearing, Started
  <2> HIDE DEF Started
  <2>2. CASE workers' = workers BY <2>1, <2>2, ObjectLasts
  <2>3. CASE Ensure(sessions' \cup setup.panels) BY <2>1, <2>3, ObjectLasts
  <2> QED BY <2>1, <2>2, <2>3
<1> QED BY <1>1, <1>2 DEF StartSteps

LEMMA BrokenLasts == ASSUME Lasts, ConnectFails \/ Break PROVE Exist' /\ Once'
<1>1. /\ UNCHANGED <<log, setup, handlers, seen, buffer, forwarded>> /\ (Started' => Started)
      /\ link' = [link EXCEPT !.up = FALSE, !.subs = {}, !.wire = <<>>]
      /\ Ensure(sessions \cup setup.panels)
  BY DEF ConnectFails, Break, cursors, hearing, Started
<1>2. link'.wire = <<>> BY <1>1, CutTyped DEF Lasts
<1> HIDE DEF Started
<1> QED BY <1>1, <1>2, ObjectLasts

LEMMA ServedLasts == ASSUME Lasts, Stop \/ RefreshEnsures \/ SaveCursors \/ StrayFires PROVE Exist' /\ Once'
<1>1. /\ UNCHANGED <<log, setup, link, handlers, seen, buffer, forwarded>> /\ (Started' => Started)
      /\ workers' \in {workers, WorkersCancelled, Ensured(sessions \cup setup.panels)}
  BY DEF Stop, RefreshEnsures, SaveCursors, StrayFires, object, cursors, hearing, Started
<1> HIDE DEF Started
<1>2. workers' \in {workers, WorkersCancelled, Cleared, Ensured(sessions \cup setup.panels)} BY <1>1
<1> QED BY <1>1, <1>2, ObjectLasts

\* The channel object ends, and what waits in its buffers with it.
LEMMA EndsLast == ASSUME Lasts, StopClears \/ StopLeaves \/ Crash PROVE Exist' /\ Once'
<1>1. /\ UNCHANGED <<log, setup, seen, forwarded>> /\ buffer' = [t \in Panels |-> <<>>] /\ ~Started'
      /\ link' = link \/ link' = [link EXCEPT !.up = FALSE, !.subs = {}, !.wire = <<>>]
      /\ handlers' = handlers \/ handlers' = [h \in Handlers |-> IdleHandler]
      /\ workers' \in {workers, Cleared} \/ workers' = [t \in Targets |-> NoWorker]
  BY DEF StopClears, StopLeaves, Crash, Offline, cursors, Started
<1>2. \A p \in Panels : ToSet(buffer'[p]) = {} BY <1>1 DEF ToSet
<1>3. \A t \in Targets : workers'[t].upto \in {0, workers[t].upto, Len(log[t])}
  <2>1. CASE workers' = [t \in Targets |-> NoWorker] BY <2>1 DEF NoWorker
  <2>2. CASE workers' \in {workers, Cleared} BY <2>2, WorkersKept DEF Lasts
  <2> QED BY <1>1, <2>1, <2>2
<1>4. \A h \in Handlers, s \in Sessions : handlers'[h].upto[s] \in {0, handlers[h].upto[s], Len(log[s])}
  BY <1>1 DEF IdleHandler
<1>5. \A i \in DOMAIN link'.wire : \E j \in DOMAIN link.wire : link'.wire[i] = link.wire[j]
  <2>1. CASE link' = link BY <2>1
  <2>2. CASE link' = [link EXCEPT !.up = FALSE, !.subs = {}, !.wire = <<>>]
    <3>1. link'.wire = <<>> BY <2>2, CutTyped DEF Lasts
    <3>2. DOMAIN link'.wire = {} BY <3>1
    <3> QED BY <3>2
  <2> QED BY <1>1, <2>1, <2>2
<1>6. \A t \in Targets : ToSet(seen'[t]) \subseteq Said(t) BY <1>1 DEF Lasts, Exist
<1>7. Exist' BY <1>1, <1>2, <1>3, <1>4, <1>5, <1>6, ExistFollows DEF Lasts
<1> HIDE DEF Started
<1>8. Once' BY <1>1, <1>2 DEF Lasts, Once, Messages
<1> QED BY <1>7, <1>8

LEMMA StartLasts == ASSUME Lasts, Start PROVE Exist' /\ Once'
<1>1. /\ UNCHANGED <<log, setup, link, handlers, workers>>
      /\ seen' = [t \in Targets |-> <<>>] /\ buffer' = [t \in Panels |-> <<>>]
      /\ forwarded' = [m \in Messages |-> 0]
  BY DEF Start
<1>2. \A t \in Targets : ToSet(seen'[t]) = {} /\ DOMAIN seen'[t] = {} BY <1>1 DEF ToSet
<1>3. \A p \in Panels : ToSet(buffer'[p]) = {} BY <1>1 DEF ToSet
<1>4. Exist' BY <1>1, <1>2, <1>3, ExistFollows DEF Lasts
<1>5. Once'
  <2>1. forwarded' \in [Messages -> {0, 1}] /\ \A m \in Messages : forwarded'[m] = 0 BY <1>1
  <2>2. \A t \in Targets : Distinct(seen'[t]) BY <1>2 DEF Distinct
  <2>3. \A m \in Messages : forwarded'[m] # 1 BY <2>1
  <2>4. \A t \in Targets : \A m \in ToSet(seen'[t]) : FALSE BY <1>2
  <2>5. \A p \in Panels : \A m \in ToSet(buffer'[p]) : FALSE BY <1>3
  <2> HIDE DEF Started
  <2> QED BY <2>1, <2>2, <2>3, <2>4, <2>5 DEF Once, Messages, Targets
<1> QED BY <1>4, <1>5

\* What waited goes to the agent.
LEMMA TimerFiresLasts == ASSUME Given, Lasts, NEW t \in Panels, TimerFires(t) PROVE Exist' /\ Once'
<1>1. /\ UNCHANGED <<log, setup, link, handlers, workers, seen>> /\ (Started' => Started)
      /\ buffer' = [buffer EXCEPT ![t] = <<>>] /\ Forward(ToSet(buffer[t]))
  BY DEF TimerFires, object, Started
<1>2. t \in Targets /\ t \in Panels /\ Waiting(t) = ToSet(buffer[t]) BY DEF Targets, Waiting
<1>3. buffer \in [Panels -> Seq(Targets \X Nat)] BY DEF Lasts, MochatTypes
<1>4. \A p \in Panels : IF p = t THEN ToSet(buffer'[p]) = {} ELSE buffer'[p] = buffer[p]
  BY <1>1, <1>3 DEF ToSet
<1>5. Distinct(seen[t]) BY <1>2 DEF Lasts, Once
<1>6. forwarded' = [m \in Messages |-> IF m \in Waiting(t) THEN forwarded[m] + 1 ELSE forwarded[m]]
  BY <1>1, <1>2 DEF Forward
<1>7. Sorted(t, {}, Waiting(t), {}) BY <1>1, <1>2, <1>4, <1>5, <1>6 DEF Sorted
<1> HIDE DEF Started
<1>8. Keeps BY <1>1 DEF Keeps
<1> QED BY <1>2, <1>7, <1>8, SortedLasts

-----------------------------------------------------------------------------

\* A step of a handler.
LEMMA HandlerLasts ==
  ASSUME Lasts, UNCHANGED <<log, setup, phase, seen, buffer, forwarded>>,
         \A g \in Handlers, u \in Sessions : handlers'[g].upto[u] \in {0, handlers[g].upto[u], Len(log[u])},
         link'.wire = link.wire \/ link'.wire = <<>>,
         \A t \in Targets : workers'[t].upto \in {0, workers[t].upto, Len(log[t])}
  PROVE  Exist' /\ Once'
<1>1. \A i \in DOMAIN link'.wire : \E j \in DOMAIN link.wire : link'.wire[i] = link.wire[j]
  <2>1. CASE link'.wire = link.wire BY <2>1
  <2>2. CASE link'.wire = <<>>
    <3>1. DOMAIN link'.wire = {} BY <2>2
    <3> QED BY <3>1
  <2> QED BY <2>1, <2>2
<1>2. Keeps BY <1>1 DEF Keeps, Started
<1> QED BY <1>2, QuietLasts

LEMMA AskForAnew ==
  ASSUME Lasts, NEW h \in Handlers, NEW ss, NEW epoch, handlers' = AskFor(h, ss, epoch)
  PROVE  \A g \in Handlers, u \in Sessions : handlers'[g].upto[u] \in {0, handlers[g].upto[u], Len(log[u])}
<1>1. \A g \in Handlers : g # h => handlers'[g] = handlers[g] BY DEF AskFor
<1>2. handlers \in [Handlers -> HandlerType] BY HandlerTyped DEF Lasts
<1>3. \A u \in Sessions : handlers'[h].upto[u] = 0 BY <1>2 DEF AskFor, IdleHandler
<1> QED BY <1>1, <1>3

LEMMA FindLasts == ASSUME Given, Lasts, NEW s \in Sessions, Find(s) PROVE Exist' /\ Once'
<1>1. /\ UNCHANGED <<log, link, setup, phase, seen, buffer, forwarded>>
      /\ (handlers' = handlers \/ handlers' = AskFor(0, {s}, link.epoch))
      /\ workers' \in {workers, Ensured(sessions' \cup setup.panels)}
  BY DEF Find, hearing
<1>2. 0 \in Handlers
  <2>1. MaxConnects \in Nat BY DEF Given
  <2> QED BY <2>1 DEF Handlers
<1>3. PICK ts : ts = sessions' \cup setup.panels OBVIOUS
<1>4. workers' \in {workers, WorkersCancelled, Cleared, Ensured(ts)} BY <1>1, <1>3
<1>5. \A t \in Targets : workers'[t].upto \in {0, workers[t].upto, Len(log[t])}
  BY <1>4, WorkersKept DEF Lasts
<1>6. \A g \in Handlers, u \in Sessions : handlers'[g].upto[u] \in {0, handlers[g].upto[u], Len(log[u])}
  <2>1. CASE handlers' = handlers BY <2>1
  <2>2. CASE handlers' = AskFor(0, {s}, link.epoch) BY <1>2, <2>2, AskForAnew
  <2> QED BY <1>1, <2>1, <2>2
<1> QED BY <1>1, <1>5, <1>6, HandlerLasts

LEMMA SocketUpLasts == ASSUME Lasts, NEW h \in Handlers, SocketUp(h) PROVE Exist' /\ Once'
<1>1. /\ UNCHANGED <<log, setup, phase, seen, buffer, forwarded, workers>> /\ link'.wire = <<>>
      /\ handlers' = AskFor(h, sessions, h)
  BY DEF SocketUp, hearing
<1>2. \A g \in Handlers, u \in Sessions : handlers'[g].upto[u] \in {0, handlers[g].upto[u], Len(log[u])}
  BY <1>1, AskForAnew
<1> QED BY <1>1, <1>2, HandlerLasts

LEMMA ServerSubscribesLasts == ASSUME Lasts, NEW h \in Handlers, ServerSubscribes(h) PROVE Exist' /\ Once'
<1>1. /\ UNCHANGED <<log, setup, phase, seen, buffer, forwarded, workers>>
      /\ link' = [link EXCEPT !.subs = @ \cup handlers[h].asked]
      /\ handlers' = [handlers EXCEPT ![h].stage = "acked", ![h].upto = [s \in Sessions |-> Len(log[s])]]
  BY DEF ServerSubscribes, object, hearing
<1>2. handlers \in [Handlers -> HandlerType] BY HandlerTyped DEF Lasts
<1>3. \A g \in Handlers, u \in Sessions : handlers'[g].upto[u] \in {0, handlers[g].upto[u], Len(log[u])}
  BY <1>1, <1>2 DEF HandlerType
<1>4. link'.wire = link.wire BY <1>1 DEF Lasts, MochatTypes
<1> QED BY <1>1, <1>3, <1>4, HandlerLasts

LEMMA HandlerGoesLasts ==
  ASSUME Lasts, NEW h \in Handlers, NEW ok \in BOOLEAN, AckLost(h) \/ HandlerLooks(h, ok)
  PROVE  Exist' /\ Once'
<1>1. /\ UNCHANGED <<log, link, setup, phase, seen, buffer, forwarded, workers>>
      /\ \/ handlers' = [handlers EXCEPT ![h].stage = IF h = 0 THEN "idle" ELSE "rest",
                                         ![h].asked = {}, ![h].ok = FALSE]
         \/ handlers' = [handlers EXCEPT ![h].stage = "look", ![h].ok = @ /\ ok]
  BY DEF AckLost, HandlerLooks, object, hearing
<1>2. handlers \in [Handlers -> HandlerType] BY HandlerTyped DEF Lasts
<1>3. \A g \in Handlers, u \in Sessions : handlers'[g].upto[u] \in {0, handlers[g].upto[u], Len(log[u])}
  <2>1. CASE handlers' = [handlers EXCEPT ![h].stage = IF h = 0 THEN "idle" ELSE "rest",
                                          ![h].asked = {}, ![h].ok = FALSE]
    BY <2>1, <1>2 DEF HandlerType
  <2>2. CASE handlers' = [handlers EXCEPT ![h].stage = "look", ![h].ok = @ /\ ok]
    BY <2>2, <1>2 DEF HandlerType
  <2> QED BY <1>1, <2>1, <2>2
<1> QED BY <1>1, <1>3, HandlerLasts

LEMMA DecidesLasts ==
  ASSUME Lasts, NEW h \in Handlers, NEW ok, NEW found, Decides(h, ok, found) PROVE Exist' /\ Once'
<1>1. /\ UNCHANGED <<log, link, setup, phase, seen, buffer, forwarded>>
      /\ handlers' = [handlers EXCEPT ![h] = [IdleHandler EXCEPT !.stage = IF ok THEN "gather" ELSE "idle"]]
      /\ (workers' = WorkersCancelled \/ Ensure(sessions' \cup setup.panels))
  BY DEF Decides, NotServed, hearing
<1>2. handlers \in [Handlers -> HandlerType] BY HandlerTyped DEF Lasts
<1>3. \A g \in Handlers, u \in Sessions : handlers'[g].upto[u] \in {0, handlers[g].upto[u], Len(log[u])}
  BY <1>1, <1>2 DEF IdleHandler
<1>4. PICK ts : ts = sessions' \cup setup.panels OBVIOUS
<1>5. workers' = WorkersCancelled \/ Ensure(ts) BY <1>1, <1>4
<1>6. \A t \in Targets : workers'[t].upto \in {0, workers[t].upto, Len(log[t])}
  BY <1>5, WorkersKept DEF Lasts
<1> QED BY <1>1, <1>3, <1>6, HandlerLasts

LEMMA HandlerEndsLasts == ASSUME Lasts, NEW h \in Handlers, HandlerEnds(h) PROVE Exist' /\ Once'
<1>1. /\ UNCHANGED <<log, link, setup, phase, seen, buffer, forwarded>>
      /\ handlers' = [handlers EXCEPT ![h] = IdleHandler] /\ workers' = Cleared
  BY DEF HandlerEnds, object, hearing
<1>2. handlers \in [Handlers -> HandlerType] BY HandlerTyped DEF Lasts
<1>3. \A g \in Handlers, u \in Sessions : handlers'[g].upto[u] \in {0, handlers[g].upto[u], Len(log[u])}
  BY <1>1, <1>2 DEF IdleHandler
<1>4. \A t \in Targets : workers'[t].upto \in {0, workers[t].upto, Len(log[t])}
  BY <1>1, WorkersKept DEF Lasts
<1> QED BY <1>1, <1>3, <1>4, HandlerLasts

LEMMA SaidCount ==
  ASSUME NEW t, Len(log[t]) \in Nat
  PROVE  Cardinality(Said(t)) = Len(log[t])
<1> DEFINE n == Len(log[t])
           f == [i \in 1 .. n |-> <<t, i>>]
<1>1. IsFiniteSet(1 .. n) /\ Cardinality(1 .. n) = n
  BY UpToCount
<1>2. f \in Bijection(1 .. n, Said(t))
  <2>1. f \in [1 .. n -> Said(t)] BY DEF Said
  <2>2. \A i, j \in 1 .. n : f[i] = f[j] => i = j OBVIOUS
  <2>3. \A m \in Said(t) : \E i \in 1 .. n : f[i] = m BY DEF Said
  <2> QED BY <2>1, <2>2, <2>3 DEF Bijection, Injection, Surjection, IsInjective
<1>3. ExistsBijection(1 .. n, Said(t)) BY <1>2 DEF ExistsBijection
<1> QED BY <1>1, <1>3, FS_Bijection

-----------------------------------------------------------------------------
(* The steps that hear of messages, and what is said.                      *)

LEMMA WatchStepLasts ==
  ASSUME Given, MaxSaid <= MaxSeen, Lasts, NEW s \in Sessions, WatchStep(s) PROVE Exist' /\ Once'
<1>0. /\ workers \in WorkersType /\ s \in Targets /\ workers[s].from \in Int /\ workers[s].upto \in Nat
      /\ Len(log[s]) \in Nat /\ MochatTypes /\ workers[s].upto <= Len(log[s]) /\ cursor[s] \in Int
  BY SMTT(30) DEF Lasts, MochatTypes, WorkersType, Targets, Exist
<1>1. CASE WorkerAnswered(s)
  <2>1. /\ UNCHANGED <<log, link, setup, phase, handlers, seen, buffer, forwarded>>
        /\ workers' = [workers EXCEPT ![s].state = "answered", ![s].upto = Len(log[s])]
    BY <1>1 DEF WorkerAnswered, object, hearing
  <2>2. \A t \in Targets : workers'[t].upto \in {0, workers[t].upto, Len(log[t])}
    BY <2>1, <1>0 DEF WorkersType
  <2> QED BY <2>1, <2>2, HandlerLasts
<1>2. CASE WorkerAsksAgain(s)
  <2>1. /\ UNCHANGED <<log, link, setup, phase, handlers>>
        /\ workers' = [workers EXCEPT ![s] = [Asks(s) EXCEPT !.from = AtLeast0(@)]]
        /\ Payload(s, <<>>, AtLeast0(workers[s].from))
    BY <1>2 DEF WorkerAsksAgain, object
  <2>2. \A t \in Targets : workers'[t].upto \in {0, workers[t].upto, Len(log[t])}
    BY <2>1, <1>0 DEF WorkersType, Asks
  <2>3. <<>> \in Seq(Said(s)) /\ Distinct(<<>>) BY DEF Distinct
  <2>4. Keeps BY <2>1, <2>2 DEF Keeps, Started
  <2> QED BY <2>1, <2>3, <2>4, PayloadLasts
<1>3. CASE WatchComes(s)
  <2> DEFINE a == AtLeast0(workers[s].from)
             b == workers[s].upto
  <2>1. /\ UNCHANGED <<log, link, setup, phase, handlers>>
        /\ workers' = [workers EXCEPT ![s] = IF Started /\ fallback
                         THEN [state |-> "asks", from |-> cursor'[s], upto |-> 0] ELSE NoWorker]
        /\ Payload(s, Between(s, a, b), b)
    BY <1>3 DEF WatchComes, object
  <2>2. \A t \in Targets : workers'[t].upto \in {0, workers[t].upto, Len(log[t])}
    BY <2>1, <1>0 DEF WorkersType, NoWorker
  <2>3. a \in Nat BY <1>0 DEF AtLeast0
  <2>4. Between(s, a, b) \in Seq(Said(s)) /\ Distinct(Between(s, a, b)) BY <1>0, <2>3, BetweenSaid
  <2>5. Keeps BY <2>1, <2>2 DEF Keeps, Started
  <2> QED BY <2>1, <2>4, <2>5, PayloadLasts
<1> QED BY <1>1, <1>2, <1>3 DEF WatchStep

LEMMA WorkerFailsLasts == ASSUME Lasts, NEW t \in Targets, WorkerFails(t) PROVE Exist' /\ Once'
<1>1. /\ UNCHANGED <<log, link, setup, phase, handlers, seen, buffer, forwarded>>
      /\ workers' = [workers EXCEPT ![t] = IF Started /\ fallback THEN Asks(t) ELSE NoWorker]
  BY DEF WorkerFails, object, hearing
<1>2. workers \in WorkersType BY DEF Lasts, MochatTypes, WorkersType
<1>3. \A u \in Targets : workers'[u].upto \in {0, workers[u].upto, Len(log[u])}
  BY <1>1, <1>2 DEF WorkersType, NoWorker, Asks
<1> QED BY <1>1, <1>3, HandlerLasts

LEMMA PollComesLasts ==
  ASSUME Given, MaxSaid <= MaxSeen, Lasts, NEW p \in Panels, PollComes(p) PROVE Exist' /\ Once'
<1> DEFINE a == AtLeast0(Len(log[p]) - Limit)
           b == Len(log[p])
<1>1. /\ UNCHANGED <<log, link, setup, phase, handlers>>
      /\ workers' = [workers EXCEPT ![p] = IF Started /\ fallback THEN Asks(p) ELSE NoWorker]
      /\ Hear(p, Between(p, a, b))
  BY DEF PollComes, object
<1>2. workers \in WorkersType /\ p \in Targets /\ b \in Nat /\ MochatTypes /\ Limit \in Nat
  BY DEF Lasts, MochatTypes, WorkersType, Targets, Given
<1>3. \A u \in Targets : workers'[u].upto \in {0, workers[u].upto, Len(log[u])}
  BY <1>1, <1>2 DEF WorkersType, NoWorker, Asks
<1>4. a \in Nat /\ b <= Len(log[p]) BY <1>2 DEF AtLeast0
<1>5. Between(p, a, b) \in Seq(Said(p)) /\ Distinct(Between(p, a, b)) BY <1>2, <1>4, BetweenSaid
<1>6. Keeps BY <1>1, <1>3 DEF Keeps, Started
<1> QED BY <1>1, <1>2, <1>5, <1>6, HearLasts

LEMMA AckedLasts ==
  ASSUME Given, MaxSaid <= MaxSeen, Lasts, NEW h \in Handlers, NEW s \in Sessions, Acked(h, s)
  PROVE  Exist' /\ Once'
<1> DEFINE a == AtLeast0(handlers[h].from[s])
           b == handlers[h].upto[s]
           st == IF handlers[h].asked # {s} THEN "acked" ELSE IF h = 0 THEN "idle" ELSE "rest"
<1>1. /\ UNCHANGED <<log, link, setup, phase, workers>>
      /\ handlers' = [handlers EXCEPT ![h].asked = @ \ {s}, ![h].stage = st]
      /\ Payload(s, Between(s, a, b), b)
  BY DEF Acked, Brought, object
<1>2. handlers \in [Handlers -> HandlerType] /\ MochatTypes /\ s \in Targets
  BY HandlerTyped DEF Lasts, Targets
<1> HIDE DEF st
<1>3. \A g \in Handlers, u \in Sessions : handlers'[g].upto[u] \in {0, handlers[g].upto[u], Len(log[u])}
  BY <1>1, <1>2 DEF HandlerType
<1>4. a \in Nat /\ b \in Nat /\ b <= Len(log[s]) BY <1>2 DEF HandlerType, AtLeast0, Lasts, Exist
<1>5. Between(s, a, b) \in Seq(Said(s)) /\ Distinct(Between(s, a, b)) BY <1>2, <1>4, BetweenSaid
<1>6. Keeps BY <1>1, <1>3 DEF Keeps, Started
<1> QED BY <1>1, <1>5, <1>6, PayloadLasts

LEMMA DeliverLasts == ASSUME Given, MaxSaid <= MaxSeen, Lasts, Wires, Deliver PROVE Exist' /\ Once'
<1> DEFINE e == Head(link.wire)
           t == e.msg[1]
<1>1. /\ UNCHANGED <<log, setup, phase, workers, handlers>>
      /\ link.wire # <<>> /\ link' = [link EXCEPT !.wire = Tail(@)]
      /\ \/ e.event = "watch" /\ Payload(t, <<e.msg>>, e.msg[2])
         \/ Hear(t, <<e.msg>>)
         \/ UNCHANGED <<seen, buffer, forwarded>>
  BY DEF Deliver, object, cursors, hearing
<1>2. link \in [up : BOOLEAN, epoch : Nat, subs : SUBSET Sessions, wire : Seq(Wired)]
  BY DEF Lasts, MochatTypes
<1>3. /\ e \in Wired /\ e = link.wire[1] /\ 1 \in DOMAIN link.wire /\ link'.wire = Tail(link.wire)
      /\ \A i \in DOMAIN Tail(link.wire) : i + 1 \in DOMAIN link.wire /\ Tail(link.wire)[i] = link.wire[i + 1]
  BY <1>1, <1>2, TailOf
<1>4. t \in Targets /\ e.msg \in Said(t) BY <1>3 DEF Wired, Lasts, Exist
<1>5. <<e.msg>> \in Seq(Said(t)) /\ Distinct(<<e.msg>>) BY <1>4 DEF Distinct
<1>6. Keeps BY <1>1, <1>3 DEF Keeps, Started
<1>7. CASE e.event = "watch" /\ Payload(t, <<e.msg>>, e.msg[2])
  <2>1. t \in Sessions BY <1>3, <1>7 DEF Wires
  <2> HIDE DEF e, t
  <2> QED BY <2>1, <1>5, <1>6, <1>7, PayloadLasts
<1>8. CASE Hear(t, <<e.msg>>)
  <2> HIDE DEF e, t
  <2> QED BY <1>4, <1>5, <1>6, <1>8, HearLasts
<1>9. CASE UNCHANGED <<seen, buffer, forwarded>> BY <1>6, <1>9, QuietLasts
<1> QED BY <1>1, <1>7, <1>8, <1>9

LEMMA SayLasts ==
  ASSUME Given, Lasts, NEW t \in Targets, NEW k \in Kinds, Say(t, k) PROVE Exist' /\ Once'
<1> DEFINE N == Len(log[t]) + 1
           q == link.wire
           r == Pushed(t, N)
<1>1. /\ UNCHANGED <<setup, phase, workers, handlers, seen, buffer, forwarded>>
      /\ Cardinality(AllSaid) < MaxSaid
      /\ log' = [log EXCEPT ![t] = Append(@, k)]
      /\ link' = (IF link.up THEN [link EXCEPT !.wire = @ \o r] ELSE link)
  BY DEF Say, Pushed, AllSaid, object, hearing
<1>2. /\ log \in [Targets -> Seq(Kinds)] /\ Sessions \subseteq Targets
      /\ link \in [up : BOOLEAN, epoch : Nat, subs : SUBSET Sessions, wire : Seq(Wired)]
  BY DEF Lasts, MochatTypes, Targets
<1>3. /\ N \in Nat \ {0} /\ Len(log[t]) \in Nat /\ Len(log'[t]) = N
      /\ \A u \in Targets : u # t => log'[u] = log[u]
      /\ \A i \in 1 .. Len(log[t]) : log'[t][i] = log[t][i]
  BY <1>1, <1>2
<1>4. \A u \in Targets : Len(log[u]) \in Nat /\ Len(log'[u]) \in Nat /\ Len(log[u]) <= Len(log'[u])
  BY <1>2, <1>3
<1>5. \A u \in Targets : Said(u) \subseteq Said(u)' BY <1>4 DEF Said
<1>6. IsFiniteSet(AllSaid) BY DEF Lasts, Exist
<1>7. Len(log[t]) < MaxSaid /\ MaxSaid \in Nat
  <2>1. Said(t) \subseteq AllSaid BY DEF AllSaid
  <2>2. IsFiniteSet(Said(t)) /\ Cardinality(Said(t)) <= Cardinality(AllSaid) BY <1>6, <2>1, FS_Subset
  <2>3. Cardinality(Said(t)) = Len(log[t]) BY <1>3, SaidCount
  <2>4. Cardinality(AllSaid) \in Nat BY <1>6, FS_CardinalityType
  <2>5. MaxSaid \in Nat BY DEF Given
  <2> QED BY <1>1, <1>3, <2>2, <2>3, <2>4, <2>5
<1>8. IsFiniteSet(AllSaid')
  <2>1. Said(t)' \subseteq Said(t) \cup {<<t, N>>} BY <1>3 DEF Said
  <2>2. \A u \in Targets : u # t => Said(u)' = Said(u) BY <1>3 DEF Said
  <2>3. AllSaid' \subseteq AllSaid \cup {<<t, N>>} BY <2>1, <2>2 DEF AllSaid, Targets
  <2>4. IsFiniteSet(AllSaid \cup {<<t, N>>}) BY <1>6, FS_AddElement
  <2> QED BY <2>3, <2>4, FS_Subset
<1> HIDE DEF N
<1>9. \A u \in Targets : Len(log'[u]) <= MaxSaid
  <2>1. N <= MaxSaid BY <1>3, <1>7 DEF N
  <2>2. \A u \in Targets : Len(log[u]) <= MaxSaid BY DEF Lasts, Exist
  <2> QED BY <1>3, <2>1, <2>2
<1>10. \A i \in DOMAIN link'.wire : link'.wire[i].msg \in {<<link'.wire[i].msg[1], n>> : n \in 1 .. Len(log'[link'.wire[i].msg[1]])}
  <2> SUFFICES ASSUME NEW i \in DOMAIN link'.wire, NEW w, w = link'.wire[i]
               PROVE w.msg \in Said(w.msg[1])'
    BY DEF Said
  <2>1. r \in Seq(Wired) /\ \A j \in DOMAIN r : r[j].msg = <<t, N>> BY <1>3, PushedEvents
  <2> HIDE DEF r, q
  <2>2. (\E j \in DOMAIN q : w = q[j]) \/ (\E j \in DOMAIN r : w = r[j])
    <3>1. CASE link' = link BY <3>1 DEF q
    <3>2. CASE link' = [link EXCEPT !.wire = @ \o r]
      <4>1. link'.wire = q \o r /\ q \in Seq(Wired) BY <3>2, <1>2 DEF q
      <4>2. /\ DOMAIN (q \o r) = 1 .. Len(q) + Len(r) /\ Len(q) \in Nat /\ Len(r) \in Nat
            /\ DOMAIN q = 1 .. Len(q) /\ DOMAIN r = 1 .. Len(r)
            /\ \A l \in 1 .. Len(q) : (q \o r)[l] = q[l]
            /\ \A l \in 1 .. Len(r) : (q \o r)[Len(q) + l] = r[l]
        BY <2>1, <4>1, Longer
      <4>3. CASE i \in DOMAIN q BY <4>1, <4>2, <4>3
      <4>4. CASE i \notin DOMAIN q
        <5>1. i - Len(q) \in 1 .. Len(r) /\ i = Len(q) + (i - Len(q)) BY <4>1, <4>2, <4>4
        <5>2. i - Len(q) \in DOMAIN r /\ w = r[i - Len(q)] BY <4>1, <4>2, <5>1
        <5> QED BY <5>2
      <4> QED BY <4>3, <4>4
    <3> QED BY <1>1, <3>1, <3>2 DEF r
  <2>3. CASE \E j \in DOMAIN q : w = q[j]
    <3>1. PICK j \in DOMAIN q : w = q[j] BY <2>3
    <3>2. w.msg \in Said(w.msg[1]) BY <3>1 DEF q, Lasts, Exist
    <3>3. w.msg[1] \in Targets
      <4>1. w \in Wired BY <3>1, <1>2 DEF q
      <4> QED BY <4>1 DEF Wired
    <3> QED BY <3>2, <3>3, <1>5
  <2>4. CASE \E j \in DOMAIN r : w = r[j]
    <3>1. w.msg = <<t, N>> BY <2>1, <2>4
    <3>2. N \in 1 .. Len(log'[t]) BY <1>3
    <3>3. <<t, N>> \in Said(t)' BY <3>2 DEF Said
    <3> QED BY <3>1, <3>3
  <2> QED BY <2>2, <2>3, <2>4
<1>11. Exist'
  <2>1. \A u \in Targets : ToSet(seen[u]) \subseteq Said(u)' BY <1>5 DEF Lasts, Exist
  <2>2. \A h \in Handlers, s \in Sessions : handlers[h].upto[s] <= Len(log'[s])
    <3> SUFFICES ASSUME NEW h \in Handlers, NEW s \in Sessions PROVE handlers[h].upto[s] <= Len(log'[s]) OBVIOUS
    <3>1. handlers[h] \in HandlerType BY HandlerTyped DEF Lasts
    <3>2. handlers[h].upto[s] \in Nat /\ handlers[h].upto[s] <= Len(log[s]) BY <3>1 DEF HandlerType, Lasts, Exist
    <3> QED BY <3>2, <1>2, <1>4
  <2>3. \A u \in Targets : workers[u].upto <= Len(log'[u])
    <3> SUFFICES ASSUME NEW u \in Targets PROVE workers[u].upto <= Len(log'[u]) OBVIOUS
    <3>1. workers[u].upto \in Nat /\ workers[u].upto <= Len(log[u]) BY DEF Lasts, MochatTypes, Exist
    <3> QED BY <3>1, <1>4
  <2>4. (\A i \in DOMAIN link.wire : link.wire[i].msg \in Said(link.wire[i].msg[1]))' BY <1>10 DEF Said
  <2>5. \A p \in Panels : ToSet(buffer[p]) \subseteq ToSet(seen[p]) BY DEF Lasts, Exist
  <2> QED BY <1>1, <1>8, <1>9, <2>1, <2>2, <2>3, <2>4, <2>5 DEF Exist, Handlers, Targets
<1>12. \A u \in Targets : \A m \in ToSet(seen[u]) : Ignored(m) => Ignored(m)'
  <2> SUFFICES ASSUME NEW u \in Targets, NEW m \in ToSet(seen[u]), Ignored(m) PROVE Ignored(m)' OBVIOUS
  <2>1. m \in Said(u) BY DEF Lasts, Exist
  <2>2. PICK n \in 1 .. Len(log[u]) : m = <<u, n>> BY <2>1 DEF Said
  <2>3. log'[u][n] = log[u][n] BY <1>3, <2>2
  <2> QED BY <2>2, <2>3, <1>1 DEF Ignored, Kind
<1>13. Started' <=> Started BY <1>1 DEF Started
<1> HIDE DEF Started
<1>14. Once' BY <1>1, <1>12, <1>13 DEF Lasts, Once, Messages, Targets
<1> QED BY <1>11, <1>14

LEMMA LastsStep ==
  ASSUME Given, MaxSaid <= MaxSeen, Lasts, Wires, MochatNext PROVE Exist' /\ Once'
<1>1. ASSUME NEW t \in Targets, NEW k \in Kinds, Say(t, k) PROVE Exist' /\ Once' BY <1>1, SayLasts
<1>2. CASE Start \/ StartSteps BY <1>2, StartLasts, StartStepsLast
<1>3. CASE ConnectFails \/ Break BY <1>3, BrokenLasts
<1>4. CASE Stop \/ RefreshEnsures \/ SaveCursors \/ StrayFires BY <1>4, ServedLasts
<1>5. CASE StopClears \/ StopLeaves \/ Crash BY <1>5, EndsLast
<1>6. CASE SocketStep
  <2>1. ASSUME NEW s \in Sessions, InboxFinds(s) PROVE Exist' /\ Once' BY <2>1, FindLasts DEF InboxFinds
  <2> QED BY <1>6, <2>1, DeliverLasts DEF SocketStep
<1>7. ASSUME NEW h \in Handlers, HandlerStep(h) PROVE Exist' /\ Once'
  <2>1. CASE SocketUp(h) BY <2>1, SocketUpLasts
  <2>2. CASE ServerSubscribes(h) BY <2>2, ServerSubscribesLasts
  <2>3. CASE AckLost(h) BY <2>3, HandlerGoesLasts
  <2>4. CASE HandlerEnds(h) BY <2>4, HandlerEndsLasts
  <2>5. ASSUME NEW s \in Sessions, Acked(h, s) PROVE Exist' /\ Once' BY <2>5, AckedLasts
  <2>6. ASSUME NEW ok \in BOOLEAN, HandlerDecides(h, ok) PROVE Exist' /\ Once'
    <3>1. Decides(h, ok /\ handlers[h].ok, {}) BY <2>6 DEF HandlerDecides
    <3> QED BY <3>1, DecidesLasts
  <2>7. ASSUME NEW ok \in BOOLEAN, HandlerLooks(h, ok) PROVE Exist' /\ Once' BY <2>7, HandlerGoesLasts
  <2>8. ASSUME NEW found \in {{}, Found}, HandlerFound(h, found) PROVE Exist' /\ Once'
    <3>1. Decides(h, handlers[h].ok, found) BY <2>8 DEF HandlerFound
    <3> QED BY <3>1, DecidesLasts
  <2> QED BY <1>7, <2>1, <2>2, <2>3, <2>4, <2>5, <2>6, <2>7, <2>8 DEF HandlerStep
<1>8. ASSUME NEW s \in Sessions, WatchStep(s) \/ RefreshFinds(s) PROVE Exist' /\ Once'
  BY <1>8, WatchStepLasts, FindLasts DEF RefreshFinds
<1>9. ASSUME NEW p \in Panels, PollComes(p) PROVE Exist' /\ Once' BY <1>9, PollComesLasts
<1>10. ASSUME NEW t \in Targets, WorkerFails(t) PROVE Exist' /\ Once' BY <1>10, WorkerFailsLasts
<1>11. ASSUME NEW p \in Panels, TimerFires(p) PROVE Exist' /\ Once' BY <1>11, TimerFiresLasts
<1> QED
  BY <1>1, <1>2, <1>3, <1>4, <1>5, <1>6, <1>7, <1>8, <1>9, <1>10, <1>11 DEF MochatNext, Timers

LEMMA LastsStutter == ASSUME Lasts, UNCHANGED mochatVars PROVE Exist' /\ Once'
<1>1. UNCHANGED <<log, link, setup, phase, handlers, workers, seen, buffer, forwarded>>
  BY DEF mochatVars, object, hearing
<1>2. Keeps BY <1>1 DEF Keeps, Started
<1> QED BY <1>1, <1>2, QuietLasts

LEMMA InitLasts == ASSUME Given, MochatInit PROVE Exist /\ Once
<1>1. /\ log = [t \in Targets |-> <<>>] /\ seen = [t \in Targets |-> <<>>]
      /\ buffer = [t \in Panels |-> <<>>] /\ workers = [t \in Targets |-> NoWorker]
      /\ handlers = [h \in Handlers |-> IdleHandler] /\ forwarded = [m \in Messages |-> 0]
      /\ phase = "down" /\ link.wire = <<>> /\ MaxSaid \in Nat /\ Sessions \subseteq Targets
  BY DEF MochatInit, Given, Targets
<1>2. \A t \in Targets : ToSet(seen[t]) = {} /\ DOMAIN seen[t] = {} /\ Len(log[t]) = 0 BY <1>1 DEF ToSet
<1>3. \A p \in Panels : ToSet(buffer[p]) = {} BY <1>1 DEF ToSet
<1>4. \A t \in Targets : Said(t) = {} BY <1>2 DEF Said
<1>5. IsFiniteSet(AllSaid)
  <2>1. AllSaid = {} BY <1>4 DEF AllSaid
  <2> QED BY <2>1, FS_EmptySet
<1>6. DOMAIN link.wire = {} BY <1>1
<1>7. \A h \in Handlers, s \in Sessions : handlers[h].upto[s] = 0 BY <1>1 DEF IdleHandler
<1>8. \A t \in Targets : workers[t].upto = 0 BY <1>1 DEF NoWorker
<1>9. Exist
  BY <1>1, <1>2, <1>3, <1>5, <1>6, <1>7, <1>8 DEF Exist
<1>10. ~Started BY <1>1 DEF Started
<1>11. Once
  <2>1. forwarded \in [Messages -> {0, 1}] /\ \A m \in Messages : forwarded[m] # 1 BY <1>1
  <2>2. \A t \in Targets : Distinct(seen[t]) BY <1>2 DEF Distinct
  <2> QED BY <2>1, <2>2, <1>3, <1>10 DEF Once
<1> QED BY <1>9, <1>11

LEMMA OnceMeans == ASSUME Lasts PROVE EachMessageOnce
<1>1. \A m \in Messages : forwarded[m] <= 1 /\ forwarded[m] \in {0, 1} BY DEF Lasts, Once
<1>2. ASSUME phase \in {"refresh", "connecting", "up"}, NEW t \in Targets, NEW m \in ToSet(seen[t]),
             setup.reply = "mention" /\ t \in Panels => Kind(m) = "mention"
      PROVE (forwarded[m] = 1) # (t \in Panels /\ m \in ToSet(buffer[t]))
  <2>1. Started BY <1>2 DEF Started
  <2>2. m[1] = t
    <3>1. m \in Said(t) BY DEF Lasts, Exist
    <3> QED BY <3>1 DEF Said
  <2>3. ~Ignored(m) BY <1>2, <2>2 DEF Ignored
  <2>4. forwarded[m] = 1 \/ (t \in Panels /\ m \in ToSet(buffer[t])) BY <2>1, <2>3 DEF Lasts, Once
  <2>5. t \in Panels /\ m \in ToSet(buffer[t]) => forwarded[m] # 1 BY DEF Lasts, Once
  <2> QED BY <2>4, <2>5
<1> QED BY <1>1, <1>2 DEF EachMessageOnce

\* One channel object forwards each message at most once, though it may hear of
\* it from an acknowledgement, a push, a notice and a worker, and a panel's
\* buffer may be flushed by a mention as its timer fires (_remember_message_id,
\* _flush_delayed_entries); and what it took and does not ignore it forwards or
\* keeps in a buffer.  As long as no more is said than ids are remembered: an id
\* that was forgotten can be heard again.
THEOREM MessagesOnce ==
  ASSUME MaxSaid <= MaxSeen PROVE MochatSpec => []EachMessageOnce
<1>0. Given BY MochatAssumption
<1>1. MochatInit => Sure /\ Exist /\ Once BY <1>0, InitSure, InitLasts
<1>2. Sure /\ Exist /\ Once /\ [MochatNext]_mochatVars => (Sure /\ Exist /\ Once)'
  <2> SUFFICES ASSUME Sure, Exist, Once, [MochatNext]_mochatVars PROVE Sure' /\ Exist' /\ Once' OBVIOUS
  <2>1. Lasts /\ Wires BY DEF Sure, Lasts
  <2>2. CASE MochatNext BY <1>0, <2>1, <2>2, SureStep, LastsStep
  <2>3. CASE UNCHANGED mochatVars BY <2>1, <2>3, SureStutter, LastsStutter
  <2> QED BY <2>2, <2>3
<1>3. Sure /\ Exist /\ Once => EachMessageOnce BY OnceMeans DEF Sure, Lasts
<1> QED BY <1>1, <1>2, <1>3, PTL DEF MochatSpec
=============================================================================
