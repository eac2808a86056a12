------------------------------- MODULE Channels -------------------------------
(***************************************************************************)
(* The channel manager of KageClaw (integrations/manager.py) in the        *)
(* gateway (cli/gateway.py): it starts the chat channels the configuration *)
(* enables, replaces those whose section a hot reload changes, stops them  *)
(* at the end, and one dispatcher hands outbound messages to them.         *)
(*                                                                         *)
(* The gateway answers reload requests as soon as its HTTP server listens, *)
(* which is before automation.start() and start_all(), and gives each      *)
(* reload a task of its own.  A loop over channels that does not await is  *)
(* several steps here, and nobody else moves until it is over (Quiet).     *)
(*                                                                         *)
(* A channel object (insts) is told by its number; 0 is none.              *)
(***************************************************************************)
EXTENDS Naturals, Sequences, FiniteSets

CONSTANTS
    Names,          \* channel names the registry discovers
    NoName,
    Confs, Off,     \* enabled sections of the configuration, and a disabled one
    Boots, Saves,   \* the sections the gateway may start with, and those saved later
    MaxReloads,     \* bound: reloads under way at once
    MaxInsts,       \* bound: channel objects created in one behaviour
    MaxMessages,    \* bound: outbound messages published by turns
    MaxActs         \* bound: reloads, messages, and constructors, starts and sends that fail

ASSUME ChannelsAssumption ==
    /\ Off \notin Confs /\ NoName \notin Names
    /\ IsFiniteSet(Names)
    /\ Boots \cup Saves \subseteq [Names -> Confs \cup {Off}]
    /\ MaxReloads \in Nat /\ MaxInsts \in Nat /\ MaxMessages \in Nat /\ MaxActs \in Nat

VARIABLES
    file,       \* channel sections of the saved configuration
    config,     \* ChannelManager.config
    channels,   \* ChannelManager.channels
    tracked,    \* ChannelManager._channel_tasks
    insts,      \* the channel objects
    tasks,      \* the tasks that run start() of one of them
    reloads,    \* the tasks of _do_reload
    stop,       \* how far the gateway is: booting, serving, or where stop_all is
    outbound,   \* MessageBus.outbound
    sending,    \* the dispatcher: what it is sending, idle, none or over
    messages,   \* messages published (bound only)
    acts,       \* reloads, messages and failures so far (bound only)
    overlapped, \* history: a reload met start_all, stop_all or another reload
    refused,    \* history: names whose constructor failed last
    notices     \* history: delivery notices published for each message

manager == <<config, channels, tracked, insts, tasks, refused>>
bus == <<outbound, sending, messages, notices>>
vars == <<file, manager, reloads, stop, bus, acts, overlapped>>

-----------------------------------------------------------------------------

Reloads == 1 .. MaxReloads

Sections == [Names -> Confs \cup {Off}]
Inst == [name : Names, conf : Confs, on : BOOLEAN]
Task == [inst : 1 .. MaxInsts, state : {"new", "running", "cancelled", "over"}]

\* A reload waits to read the file, then while the agent is reconfigured, and
\* then for the task and the stop() of one channel after the other.
Reload == [stage : {"idle", "load", "agent", "pick", "task", "pop", "stop", "start"},
           cfg : Sections, todo : SUBSET Names, cur : Names \cup {NoName}, task : Nat]
Closed == [stage |-> "idle", cfg |-> [n \in Names |-> Off], todo |-> {},
           cur |-> NoName, task |-> 0]

\* The gateway creates the channels, boots, starts them, serves, and stops:
\* it waits for the tasks, then for each channel.
Stage == [stage : {"init", "booting", "starting", "serving", "cancel", "each", "down"},
          todo : SUBSET Names, tasks : SUBSET Nat, waits : Nat, size : Nat]

\* origin: where a notice of failure goes, if not to the same channel.
Message == [id : 1 .. MaxMessages, to : Names, origin : Names, notice : BOOLEAN]

Quiet ==
    /\ \A r \in Reloads : reloads[r].stage \notin {"pick", "pop", "start"}
    /\ stop.stage \notin {"init", "starting", "down"}

Serving == stop.stage = "serving"

Idle == [state |-> "idle", inst |-> 0]

\* The tables keep their order, so a loop over names meets them in a fixed one.
First(ns, n) == n \in ns /\ n = CHOOSE m \in ns : TRUE

Enabled(cfg) == {n \in Names : cfg[n] # Off}
Running == {n \in Names : channels[n] # 0}

Over(k) == k # 0 => tasks[k].state = "over"

Act == acts < MaxActs /\ acts' = acts + 1

Init ==
    /\ file \in Boots
    /\ config = file
    /\ channels = [n \in Names |-> 0]
    /\ tracked = [n \in Names |-> 0]
    /\ insts = <<>>
    /\ tasks = <<>>
    /\ refused = {}
    /\ reloads = [r \in Reloads |-> Closed]
    /\ stop = [stage |-> "init", todo |-> Enabled(file), tasks |-> {}, waits |-> 0, size |-> 0]
    /\ outbound = <<>>
    /\ sending = [state |-> "none", inst |-> 0]
    /\ messages = 0 /\ acts = 0
    /\ overlapped = FALSE
    /\ notices = [m \in 1 .. MaxMessages |-> 0]

-----------------------------------------------------------------------------
(* Channel objects and their tasks.                                        *)

\* cls(section, bus), which may raise: the channel is not available.
Creates(n, conf) ==
    \/ /\ Len(insts) < MaxInsts
       /\ insts' = Append(insts, [name |-> n, conf |-> conf, on |-> FALSE])
       /\ channels' = [channels EXCEPT ![n] = Len(insts')]
       /\ refused' = refused \ {n}
       /\ UNCHANGED acts
    \/ /\ Act
       /\ refused' = refused \cup {n}
       /\ UNCHANGED <<insts, channels>>

\* create_task(_start_channel(name, channel))
StartsTask(n) ==
    /\ tasks' = Append(tasks, [inst |-> channels'[n], state |-> "new"])
    /\ tracked' = [tracked EXCEPT ![n] = Len(tasks')]

Cancelled(ts) == [k \in DOMAIN tasks |->
    IF k \in ts /\ tasks[k].state # "over" THEN [tasks[k] EXCEPT !.state = "cancelled"]
    ELSE tasks[k]]

\* The first step of channel.start(): _running is set.
TaskRuns(k) ==
    /\ Quiet
    /\ tasks[k].state = "new"
    /\ tasks' = [tasks EXCEPT ![k].state = "running"]
    /\ insts' = [insts EXCEPT ![tasks[k].inst].on = TRUE]
    /\ UNCHANGED <<file, config, channels, tracked, refused, reloads, stop, bus,
                   acts, overlapped>>

TaskIsOver(k) ==
    /\ Quiet
    /\ tasks' = [tasks EXCEPT ![k].state = "over"]
    /\ UNCHANGED <<file, config, channels, tracked, insts, refused, reloads, stop, bus,
                   overlapped>>

\* start() is cancelled, or finds _running unset.
TaskEnds(k) ==
    /\ tasks[k].state \in {"running", "cancelled"}
    /\ tasks[k].state = "running" => ~insts[tasks[k].inst].on
    /\ TaskIsOver(k)
    /\ UNCHANGED acts

\* start() raises: _start_channel logs it, the channel stays in the table.
TaskRaises(k) ==
    /\ tasks[k].state = "running"
    /\ Act
    /\ TaskIsOver(k)

-----------------------------------------------------------------------------
(* The start.                                                              *)

Boot(next) == stop' = next /\ UNCHANGED <<file, config, reloads, overlapped>>

\* _init_channels
InitChannel(n) ==
    /\ stop.stage = "init" /\ First(stop.todo, n)
    /\ Creates(n, file[n])
    /\ Boot([stop EXCEPT !.todo = @ \ {n}])
    /\ UNCHANGED <<tracked, tasks, bus>>

Listens ==
    /\ stop.stage = "init" /\ stop.todo = {}
    /\ Boot([stop EXCEPT !.stage = "booting"])
    /\ UNCHANGED <<channels, tracked, insts, tasks, refused, bus, acts>>

\* start_all: without a channel there is no dispatcher either.
StartAll ==
    /\ Quiet
    /\ stop.stage = "booting"
    /\ sending' = IF Running = {} THEN sending ELSE Idle
    /\ Boot([stop EXCEPT !.stage = "starting", !.todo = Running])
    /\ UNCHANGED <<channels, tracked, insts, tasks, refused, acts,
                   outbound, messages, notices>>

StartChannel(n) ==
    /\ stop.stage = "starting" /\ First(stop.todo, n)
    /\ UNCHANGED <<channels, insts, refused, bus, acts>>
    /\ StartsTask(n)
    /\ Boot([stop EXCEPT !.todo = @ \ {n}])

Serves ==
    /\ stop.stage = "starting" /\ stop.todo = {}
    /\ Boot([stop EXCEPT !.stage = "serving"])
    /\ UNCHANGED <<channels, tracked, insts, tasks, refused, bus, acts>>

-----------------------------------------------------------------------------
(* Hot reload: _do_reload and ChannelManager.reconfigure.                  *)

Reloading(r, next) ==
    /\ reloads' = [reloads EXCEPT ![r] = next]
    /\ UNCHANGED <<file, stop, bus, overlapped>>

\* The settings are saved and POST /reload is answered.
SaveAndReload(r, cfg) ==
    /\ Quiet /\ stop.stage \in {"booting", "serving"}
    /\ Act
    /\ reloads[r] = Closed /\ \A q \in 1 .. r - 1 : reloads[q] # Closed
    /\ file' = cfg
    /\ reloads' = [reloads EXCEPT ![r].stage = "load"]
    /\ overlapped' = (overlapped \/ stop.stage = "booting"
                        \/ \E q \in Reloads : reloads[q] # Closed)
    /\ UNCHANGED <<manager, stop, bus>>

\* The file is read; agent.reconfigure may await the closing of MCP servers.
ReloadReads(r) ==
    /\ Quiet /\ reloads[r].stage = "load"
    /\ Reloading(r, [reloads[r] EXCEPT !.stage = "agent", !.cfg = file])
    /\ UNCHANGED <<manager, acts>>

\* Reading the file, the provider or the agent fails: nothing is replaced.
ReloadFails(r) ==
    /\ Quiet /\ reloads[r].stage \in {"load", "agent"}
    /\ Act
    /\ Reloading(r, Closed)
    /\ UNCHANGED manager

\* Fault: only removed channels are stopped.
ToStopRemoved(cfg) == {n \in Running : cfg[n] = Off}

\* Removed, or with another section.
ToStop(cfg) == {n \in Running : cfg[n] # insts[channels[n]].conf}

Reconfigure(r) ==
    /\ Quiet /\ reloads[r].stage = "agent"
    /\ Reloading(r, [reloads[r] EXCEPT !.stage = "pick", !.todo = ToStop(reloads[r].cfg)])
    /\ UNCHANGED <<manager, acts>>

\* Fault: the task of the channel is not cancelled, only forgotten.
TaskForgotten(k) == tasks

\* task.cancel()
TaskDropped(k) == Cancelled({k})

\* The task is popped and cancelled, and waited for if it is not over.
PickTask(r, n) ==
    LET k == tracked[n]
    IN  /\ reloads[r].stage = "pick" /\ First(reloads[r].todo, n)
        /\ tracked' = [tracked EXCEPT ![n] = 0]
        /\ tasks' = TaskDropped(k)
        /\ Reloading(r, [reloads[r] EXCEPT !.stage = IF Over(k) THEN "pop" ELSE "task",
                                           !.todo = @ \ {n}, !.cur = n, !.task = k])
        /\ UNCHANGED <<config, channels, insts, refused, acts>>

\* channels.pop(name), and its stop(), which may raise, is awaited.  A name
\* another reload has popped is passed over.
PopChannel(r) ==
    LET n == reloads[r].cur
        i == channels[n]
    IN  /\ reloads[r].stage = "pop" \/ (Quiet /\ reloads[r].stage = "task" /\ Over(reloads[r].task))
        /\ channels' = [channels EXCEPT ![n] = 0]
        /\ insts' = IF i = 0 THEN insts ELSE [insts EXCEPT ![i].on = FALSE]
        /\ Reloading(r, [reloads[r] EXCEPT !.stage = IF i = 0 THEN "pick" ELSE "stop",
                                           !.cur = NoName, !.task = 0])
        /\ UNCHANGED <<config, tracked, tasks, refused, acts>>

ChannelStopped(r) ==
    /\ Quiet /\ reloads[r].stage = "stop"
    /\ Reloading(r, [reloads[r] EXCEPT !.stage = "pick"])
    /\ UNCHANGED <<manager, acts>>

\* The enabled channels that are not there now are started.
AllStopped(r) ==
    /\ reloads[r].stage = "pick" /\ reloads[r].todo = {}
    /\ Reloading(r, [reloads[r] EXCEPT !.stage = "start",
                        !.todo = Enabled(reloads[r].cfg) \ Running])
    /\ UNCHANGED <<manager, acts>>

Restart(r, n) ==
    /\ reloads[r].stage = "start" /\ First(reloads[r].todo, n)
    /\ Creates(n, reloads[r].cfg[n])
    /\ IF n \in refused' THEN UNCHANGED <<tasks, tracked>> ELSE StartsTask(n)
    /\ Reloading(r, [reloads[r] EXCEPT !.todo = @ \ {n}])
    /\ UNCHANGED config

ReloadEnds(r) ==
    /\ reloads[r].stage = "start" /\ reloads[r].todo = {}
    /\ config' = reloads[r].cfg
    /\ Reloading(r, Closed)
    /\ UNCHANGED <<channels, tracked, insts, tasks, refused, acts>>

-----------------------------------------------------------------------------
(* The dispatcher.                                                         *)

Dispatch == UNCHANGED <<file, manager, reloads, stop, overlapped>>

\* A turn publishes a message; origin is where its user is.
Publish(to, origin) ==
    /\ Quiet /\ Serving
    /\ Act
    /\ messages < MaxMessages /\ messages' = messages + 1
    /\ outbound' = Append(outbound,
            [id |-> messages', to |-> to, origin |-> origin, notice |-> FALSE])
    /\ UNCHANGED <<sending, notices>>
    /\ Dispatch

\* Fault: a message for a channel that is not there stays at the head.
LeftWaiting(i) == IF i = 0 THEN outbound ELSE Tail(outbound)

Left(i) == Tail(outbound)

\* consume_outbound, and channels.get(name): a message for a channel that is
\* not there is dropped.
Take ==
    LET i == channels[Head(outbound).to]
    IN  /\ Quiet
        /\ sending = Idle /\ outbound # <<>>
        /\ sending' = IF i = 0 THEN Idle
                      ELSE [state |-> "send", inst |-> i, msg |-> Head(outbound)]
        /\ outbound' = Left(i)
        /\ UNCHANGED <<messages, notices, acts>>
        /\ Dispatch

Sent ==
    /\ Quiet
    /\ sending.state = "send"
    /\ sending' = Idle
    /\ UNCHANGED <<outbound, messages, notices, acts>>
    /\ Dispatch

\* Fault: the notice may fail as loudly as the message.
NoticeOfNotice(msg) ==
    [id |-> msg.id, to |-> msg.origin, origin |-> msg.to, notice |-> TRUE]

\* The notice has no origin but the channel it goes to.
Notice(msg) == [id |-> msg.id, to |-> msg.origin, origin |-> msg.origin, notice |-> TRUE]

\* channel.send raises: the origin channel is told, once.
SendFails ==
    LET msg == sending.msg
        tells == msg.origin # msg.to
    IN  /\ Quiet
        /\ sending.state = "send"
        /\ Act
        /\ sending' = Idle
        /\ outbound' = IF tells THEN Append(outbound, Notice(msg)) ELSE outbound
        /\ notices' = IF tells THEN [notices EXCEPT ![msg.id] = @ + 1] ELSE notices
        /\ UNCHANGED messages
        /\ Dispatch

-----------------------------------------------------------------------------
(* The end: stop_all.  The dispatcher and the channels' tasks are tasks of *)
(* their own, and so are the reloads: they go on until they are cancelled. *)

Stopping(next) == stop' = next /\ UNCHANGED <<file, config, refused, reloads, acts>>

TrackedTasks == {tracked[n] : n \in Names} \ {0}

StopAll ==
    /\ Quiet /\ Serving
    /\ Stopping([stop EXCEPT !.stage = "cancel", !.tasks = TrackedTasks])
    /\ overlapped' = (overlapped \/ \E r \in Reloads : reloads[r] # Closed)
    /\ UNCHANGED <<channels, tracked, insts, tasks, bus>>

CancelTask(k) ==
    /\ Quiet
    /\ stop.stage = "cancel" /\ Over(stop.waits)
    /\ k \in stop.tasks /\ \A j \in stop.tasks : k <= j
    /\ tasks' = Cancelled({k})
    /\ Stopping([stop EXCEPT !.tasks = @ \ {k}, !.waits = k])
    /\ UNCHANGED <<channels, tracked, insts, bus, overlapped>>

\* The tasks are over and forgotten; the dispatcher is cancelled, with the
\* message it was sending.
CancelDispatcher ==
    /\ Quiet
    /\ stop.stage = "cancel" /\ stop.tasks = {} /\ Over(stop.waits)
    /\ tracked' = [n \in Names |-> 0]
    /\ sending' = IF sending.state = "none" THEN sending ELSE [state |-> "over", inst |-> 0]
    /\ Stopping([stop EXCEPT !.stage = "each", !.todo = Running, !.size = Cardinality(Running),
                            !.waits = 0])
    /\ UNCHANGED <<channels, insts, tasks, outbound, messages, notices, overlapped>>

\* The next channel is stopped; the loop is over the dict itself.
StopChannel(n) ==
    /\ Quiet
    /\ stop.stage = "each" /\ First(stop.todo \cap Running, n)
    /\ Cardinality(Running) = stop.size
    /\ insts' = [insts EXCEPT ![channels[n]].on = FALSE]
    /\ Stopping([stop EXCEPT !.todo = @ \ {n}])
    /\ UNCHANGED <<channels, tracked, tasks, bus, overlapped>>

\* It has stopped them all, or a reload has changed the dict meanwhile and
\* the loop raises.
Down ==
    /\ Quiet
    /\ stop.stage = "each"
    /\ stop.todo \cap Running = {} \/ Cardinality(Running) # stop.size
    /\ Stopping([stop EXCEPT !.stage = "down", !.todo = {}])
    /\ UNCHANGED <<channels, tracked, insts, tasks, bus, overlapped>>

-----------------------------------------------------------------------------

TaskSteps(k) == TaskRuns(k) \/ TaskEnds(k)

ReloadSteps(r) ==
    \/ ReloadReads(r) \/ Reconfigure(r)
    \/ (\E n \in Names : PickTask(r, n) \/ Restart(r, n))
    \/ PopChannel(r) \/ ChannelStopped(r) \/ AllStopped(r) \/ ReloadEnds(r)

DispatcherSteps == Take \/ Sent \/ SendFails

Starts == Listens \/ StartAll \/ Serves \/ \E n \in Names : InitChannel(n) \/ StartChannel(n)

Stops ==
    \/ \E k \in DOMAIN tasks : CancelTask(k)
    \/ CancelDispatcher \/ Down
    \/ \E n \in Names : StopChannel(n)

Next ==
    \/ \E k \in DOMAIN tasks : TaskSteps(k) \/ TaskRaises(k)
    \/ \E r \in Reloads : ReloadSteps(r) \/ ReloadFails(r) \/
                          \E cfg \in Saves : SaveAndReload(r, cfg)
    \/ \E n, m \in Names : Publish(n, m)
    \/ DispatcherSteps \/ Starts \/ StopAll \/ Stops

Spec == Init /\ [][Next]_vars

\* The loop runs every task that can; start(), stop() and send() of a channel
\* return or raise.
FairSpec ==
    /\ Spec
    /\ WF_vars(Starts) /\ WF_vars(Stops)
    /\ WF_vars(DispatcherSteps)
    /\ \A k \in 1 .. 2 * MaxInsts : WF_vars(k \in DOMAIN tasks /\ TaskSteps(k))
    /\ \A r \in Reloads : WF_vars(ReloadSteps(r))

-----------------------------------------------------------------------------

TypeOK ==
    /\ file \in Sections /\ config \in Sections
    /\ channels \in [Names -> 0 .. Len(insts)]
    /\ tracked \in [Names -> 0 .. Len(tasks)]
    /\ insts \in Seq(Inst) /\ tasks \in Seq(Task)
    /\ reloads \in [Reloads -> Reload]
    /\ stop \in Stage
    /\ outbound \in Seq(Message)
    /\ sending.state \in {"none", "idle", "send", "over"} /\ sending.inst \in 0 .. Len(insts)
    /\ sending.state = "send" => sending.msg \in Message
    /\ messages \in 0 .. MaxMessages /\ acts \in 0 .. MaxActs
    /\ overlapped \in BOOLEAN /\ refused \subseteq Names
    /\ notices \in [1 .. MaxMessages -> Nat]

\* Reload r leaves channel n as it is.
Spares(r, n) == reloads[r].stage \in {"idle", "load", "agent"} \/ reloads[r].cfg[n] = config[n]

\* While the gateway serves, what runs is what the configuration says: an
\* enabled channel that no reload under way replaces is there, with its
\* section, so that the dispatcher finds it; a disabled one is not.  (Reloads
\* that overlap, or come before start_all, may leave something else.)
ChannelsMatch ==
    Serving /\ ~overlapped =>
        \A n \in Names : (\A r \in Reloads : Spares(r, n)) =>
            IF channels[n] = 0 THEN config[n] = Off \/ n \in refused
            ELSE insts[channels[n]].conf = config[n]

\* manager.py:95, "Start channels as individually tracked tasks": whatever
\* start() still runs belongs to the channel in the table, and the manager
\* can cancel it; so no two loops poll one account.
LoopsAreTracked ==
    \A k \in DOMAIN tasks : tasks[k].state \in {"new", "running"} =>
        LET i == tasks[k].inst
        IN  channels[insts[i].name] = i /\ tracked[insts[i].name] = k

\* So it is as long as each reload meets neither another one nor start_all.
OneLoopEach == ~overlapped => LoopsAreTracked

\* manager.py:128, "Channels whose config is unchanged keep running
\* undisturbed": a channel's loop is cancelled by stop_all or by a reload
\* that changes its section, whatever fails meanwhile.
Undisturbed ==
    [][\A k \in DOMAIN tasks :
        LET i == tasks[k].inst
        IN  tasks[k].state # "cancelled" /\ tasks'[k].state = "cancelled" =>
                \/ stop.stage = "cancel" \/ overlapped
                \/ \E r \in Reloads : reloads[r].stage = "pick" /\
                        reloads[r].cfg[insts[i].name] # insts[i].conf
      ]_vars

\* A message that cannot be delivered is reported to where it came from at
\* most once, even if the report cannot be delivered either.
OneNoticeEach == \A m \in 1 .. MaxMessages : notices[m] <= 1

Queued(m) == \E j \in DOMAIN outbound : outbound[j].id = m

\* As long as there is a dispatcher, every message leaves the queue, whatever
\* channels are replaced and sends fail.
MessagesLeave ==
    \A m \in 1 .. MaxMessages :
        Queued(m) /\ sending.state # "none" ~>
            ~Queued(m) \/ sending.state = "over" \/ stop.stage = "down"

\* Every reload ends, and with it the wait for the channels it stops.
ReloadsEnd ==
    \A r \in Reloads : reloads[r] # Closed ~> reloads[r] = Closed \/ stop.stage = "down"

\* manager.py:24, "Route outbound messages": where there is a channel there
\* is a dispatcher.
ChannelsAreServed == Serving /\ Running # {} => sending.state # "none"

=============================================================================
