----------------------------- MODULE WebuiChat -----------------------------
(***************************************************************************)
(* A message of a browser tab on its way through the three programs' worth *)
(* of code that serve it: the conversation handler (webui/ws_handler.py),  *)
(* the gateway client (webui/gateway_client.py) and the gateway's side of  *)
(* the socket and of its HTTP fallback (cli/gateway.py).                   *)
(*                                                                         *)
(* The handler and the client share one event loop, the gateway has its    *)
(* own: a step is what happens between two awaits that suspend, and the    *)
(* two loops meet only in the connections.  A connection may break at any  *)
(* time; each side goes on until it notices.                               *)
(***************************************************************************)
EXTENDS Naturals, Sequences, SequencesExt, FiniteSets

CONSTANTS
  Tabs,        \* the browser tabs: one accepted web socket each
  Keys,        \* the session keys
  Start,       \* the session that every tab opens first
  QueueMax,    \* _STREAM_QUEUE_MAXSIZE
  MaxMsgs,     \* bound: the messages of a behaviour
  MaxConns,    \* bound: the connections to the gateway
  MaxProgress, \* bound: the progress events of a behaviour
  MaxActs      \* bound: the stops, cancellations, changes of session and closings

ASSUME ConstantsAreSane ==
  /\ {QueueMax, MaxMsgs, MaxConns, MaxProgress, MaxActs} \subseteq Nat
  /\ Start \in Keys
  /\ QueueMax > 1

\* The conversation handler.
VARIABLES
  tabs,      \* sessions and the handler's place in each tab's message loop
  subs,      \* _session_subscribers
  proc,      \* processing_state: the sessions that are processing
  queue,     \* _session_queues
  task,      \* _session_tasks: the message of the session's job, 0 without one
  msgs       \* every message so far, with the job that serves it

\* The gateway client.
VARIABLES
  conn,      \* _ws: the number of the connection in use, 0 when not connected
  pending    \* _pending: the requests that wait for their response

\* The connections and the gateway.
VARIABLES
  wires,     \* each connection: whether it is open and what is under way
  chats,     \* _chat_tasks and the HTTP requests: the turn of each message
  steerable  \* the sessions whose steering queue the agent has open

\* What the bounds and the properties remember.
VARIABLES
  used,      \* how often the bounded user actions were taken
  early,     \* the sessions that were stopped before their job had begun
  heard,     \* the messages that were accepted as steering
  unanswered \* the messages whose steering request ended without a response

handler == <<tabs, subs, proc, queue, task, msgs>>
client  == <<conn, pending>>
gateway == <<chats, steerable>>
history == <<used, early, heard, unanswered>>
vars == <<handler, client, wires, gateway, history>>

MsgIds == 1 .. MaxMsgs
Known  == DOMAIN msgs
NoMsg  == 0

\* A tab's handler waits while it acknowledges a message, until a steering
\* request is answered ("orphan": its queue was thrown away meanwhile), or
\* until a cancellation is.
Tab == [key : Keys, at : {"idle", "ack", "steer", "orphan", "cancel", "off"},
        msg : 0 .. MaxMsgs]

\* A message is held by its handler, queued, then served by a job: created,
\* streaming over the socket or over HTTP, emitting the outcome.
Active == {"created", "stream", "http", "emit"}
Events == {"progress", "answer", "cancelled", "failed", "lost"}
Msg == [key : Keys, stage : {"held", "queued", "over"} \cup Active, doomed : BOOLEAN,
        items : Seq(Events),
        end : {"none", "answered", "empty", "failed", "stopped", "steered", "dropped", "stuck"}]

Requests == {"steer", "cancel"} \X MsgIds
Wire == [open : BOOLEAN, up : Seq({"chat", "steer", "cancel"} \X MsgIds),
         down : Seq((Events \cup {"injected", "refused", "heeded"}) \X MsgIds)]
Chat == [stage : {"none", "created", "running", "loop", "over"}, doomed : BOOLEAN,
         wire : 0 .. MaxConns,
         end : {"none", "done", "broken", "unrun"}]
NoChat == [stage |-> "none", doomed |-> FALSE, wire |-> 0, end |-> "none"]

TypeOK ==
  /\ tabs \in [Tabs -> Tab] /\ subs \in [Keys -> SUBSET Tabs]
  /\ proc \subseteq Keys /\ task \in [Keys -> 0 .. MaxMsgs]
  /\ queue \in [Keys -> Seq(MsgIds)]
  /\ msgs \in Seq(Msg) /\ Len(msgs) <= MaxMsgs
  /\ \A m \in Known :
       \/ msgs[m].items = <<>>
       \/ msgs[m].stage = "http"
       \/ msgs[m].stage = "stream" /\ Len(msgs[m].items) <= QueueMax
  /\ conn \in 0 .. Len(wires) /\ pending \subseteq Requests
  /\ wires \in Seq(Wire) /\ Len(wires) <= MaxConns
  /\ chats \in [MsgIds -> Chat] /\ steerable \subseteq Keys
  /\ used \in [{"acts", "progress"} -> Nat]
  /\ early \subseteq Keys /\ heard \cup unanswered \subseteq MsgIds

\* Every tab has been accepted and subscribed to the session it asked for.
Init ==
  /\ tabs = [t \in Tabs |-> [key |-> Start, at |-> "idle", msg |-> NoMsg]]
  /\ subs = [k \in Keys |-> IF k = Start THEN Tabs ELSE {}]
  /\ proc = {} /\ queue = [k \in Keys |-> <<>>] /\ task = [k \in Keys |-> NoMsg]
  /\ msgs = <<>> /\ conn = 0 /\ pending = {} /\ wires = <<>>
  /\ chats = [m \in MsgIds |-> NoChat] /\ steerable = {}
  /\ used = [acts |-> 0, progress |-> 0]
  /\ early = {} /\ heard = {} /\ unanswered = {}

-----------------------------------------------------------------------------
(* The gateway client.                                                     *)

\* chat_stream registers its queue while it streams; the end of the
\* connection puts None into it and forgets it.
Registered(m) ==
  /\ msgs[m].stage = "stream"
  /\ ~Contains(msgs[m].items, "lost")

\* Fault: a full queue refuses whatever comes.
PutOrRefuse(items, item) == IF Len(items) < QueueMax THEN Append(items, item) ELSE items
\* _queue_stream_item: a full queue refuses progress, and makes room for
\* anything else by giving up its oldest item.
Put(items, item) ==
  IF Len(items) < QueueMax THEN Append(items, item)
  ELSE IF item = "progress" THEN items
  ELSE Append(Tail(items), item)

Deliver(m, item) == msgs' = [msgs EXCEPT ![m].items = Put(@, item)]

\* _ws.send reaches an open connection; one that has broken unnoticed may
\* swallow the frame.
Sends(frame) ==
  wires' = IF wires[conn].open THEN [wires EXCEPT ![conn].up = Append(@, frame)] ELSE wires

\* request: the tab's handler waits for the response, unless there is no
\* connection or the send fails.
Requested(t, what, m) ==
  /\ conn # 0
  /\ Sends(<<what, m>>)
  /\ pending' = pending \cup {<<what, m>>}
  /\ tabs' = [tabs EXCEPT ![t].at = what, ![t].msg = m]
NotRequested == conn # 0 => ~wires[conn].open

Connect ==
  /\ conn = 0 /\ Len(wires) < MaxConns
  /\ wires' = Append(wires, [open |-> TRUE, up |-> <<>>, down |-> <<>>])
  /\ conn' = Len(wires) + 1
  /\ UNCHANGED <<handler, pending, gateway, history>>

ClientRetries ==
  /\ conn # 0 /\ ~wires[conn].open
  /\ wires' = [wires EXCEPT ![conn].down = <<>>]
  /\ conn' = 0 /\ pending' = {}
  /\ msgs' = [m \in Known |->
                IF Registered(m) THEN [msgs[m] EXCEPT !.stage = "http"] ELSE msgs[m]]
  /\ UNCHANGED <<tabs, subs, proc, queue, task, gateway, history>>

\* The receive loop ends: every pending request is told, so is every stream.
ClientNotices ==
  /\ conn # 0 /\ ~wires[conn].open
  /\ wires' = [wires EXCEPT ![conn].down = <<>>]
  /\ conn' = 0 /\ pending' = {}
  /\ msgs' = [m \in Known |->
                IF Registered(m) THEN [msgs[m] EXCEPT !.items = Put(@, "lost")] ELSE msgs[m]]
  /\ UNCHANGED <<tabs, subs, proc, queue, task, gateway, history>>

-----------------------------------------------------------------------------
(* The conversation handler: messages.                                     *)

Idle(t) == [tabs EXCEPT ![t].at = "idle", ![t].msg = NoMsg]
Ended(m, end) == [msgs EXCEPT ![m].stage = "over", ![m].end = end, ![m].items = <<>>,
                              ![m].doomed = FALSE]

\* The queue that the handler got before it asked is the session's, unless a
\* stop has thrown it away.
PutInQueue(t, m) ==
  IF tabs[t].at = "orphan"
  THEN msgs' = Ended(m, "dropped") /\ queue' = queue
  ELSE /\ msgs' = [msgs EXCEPT ![m].stage = "queued"]
       /\ queue' = [queue EXCEPT ![msgs[m].key] = Append(@, m)]

\* The session is processing from before the acknowledgement is awaited.
ProcessingLater(k) == UNCHANGED proc
Processing(k) == proc' = proc \cup {k}

\* The response to a steering request: taken, or refused and queued.
SteerQueuesToo(t, m, taken) == PutInQueue(t, m)
SteerAnswered(t, m, taken) ==
  IF taken THEN msgs' = Ended(m, "steered") /\ queue' = queue
           ELSE PutInQueue(t, m)

\* _handle_user_message: a session that is not processing becomes it; one
\* that is has the message offered as steering, and queued at once when the
\* gateway cannot be asked.
Send(t) ==
  LET k == tabs[t].key
      m == Len(msgs) + 1
      With(stage) == Append(msgs, [key |-> k, stage |-> stage, doomed |-> FALSE,
                                   items |-> <<>>, end |-> "none"])
  IN /\ tabs[t].at = "idle" /\ m <= MaxMsgs
     /\ \/ /\ k \notin proc
           /\ Processing(k)
           /\ msgs' = With("held")
           /\ tabs' = [tabs EXCEPT ![t].at = "ack", ![t].msg = m]
           /\ UNCHANGED <<queue, pending, wires>>
        \/ /\ k \in proc
           /\ Requested(t, "steer", m)
           /\ msgs' = With("held")
           /\ UNCHANGED <<proc, queue>>
        \/ /\ k \in proc /\ NotRequested
           /\ msgs' = With("queued")
           /\ queue' = [queue EXCEPT ![k] = Append(@, m)]
           /\ UNCHANGED <<proc, tabs, pending, wires>>
     /\ UNCHANGED <<subs, task, conn, gateway, history>>

\* Acknowledged: the job of the message becomes the session's task.
AckDone(t) ==
  LET m == tabs[t].msg IN
  /\ tabs[t].at = "ack"
  /\ tabs' = Idle(t)
  /\ task' = [task EXCEPT ![msgs[m].key] = m]
  /\ msgs' = [msgs EXCEPT ![m].stage = "created"]
  /\ UNCHANGED <<subs, proc, queue, client, wires, gateway, history>>

\* The steering request timed out, or ended with the connection.
SteerUnanswered(t) ==
  LET m == tabs[t].msg IN
  /\ tabs[t].at \in {"steer", "orphan"}
  /\ PutInQueue(t, m)
  /\ tabs' = Idle(t)
  /\ pending' = pending \ {<<"steer", m>>}
  /\ unanswered' = unanswered \cup {m}
  /\ UNCHANGED <<subs, proc, task, conn, wires, gateway, used, early, heard>>

CancelUnanswered(t) ==
  /\ tabs[t].at = "cancel"
  /\ pending' = pending \ {<<"cancel", tabs[t].msg>>}
  /\ tabs' = Idle(t)
  /\ UNCHANGED <<subs, proc, queue, task, msgs, conn, wires, gateway, history>>

Acts == used.acts < MaxActs /\ used' = [used EXCEPT !.acts = @ + 1]

\* _handle_cancel: the tab names the message whose turn it wants cancelled.
\* A cancellation that cannot be sent does nothing.
Cancel(t, m) ==
  /\ tabs[t].at = "idle" /\ msgs[m].key = tabs[t].key
  /\ Acts
  /\ Requested(t, "cancel", m)
  /\ UNCHANGED <<subs, proc, queue, task, msgs, conn, gateway, early, heard, unanswered>>

\* _recv_loop takes one frame: a response finds its stream or its request, an
\* event its stream; what comes too late finds neither.
Receive ==
  /\ conn # 0 /\ wires[conn].down # <<>>
  /\ wires' = [wires EXCEPT ![conn].down = Tail(@)]
  /\ LET what == Head(wires[conn].down)[1]
         m == Head(wires[conn].down)[2]
         steered == <<"steer", m>>
         cancelled == <<"cancel", m>>
     IN \/ /\ what \in Events /\ Registered(m)
           /\ Deliver(m, what)
           /\ UNCHANGED <<tabs, queue, pending>>
        \/ /\ what \in {"injected", "refused"} /\ steered \in pending
           /\ pending' = pending \ {steered}
           /\ \E t \in Tabs :
                /\ tabs[t].at \in {"steer", "orphan"} /\ tabs[t].msg = m
                /\ tabs' = Idle(t)
                /\ SteerAnswered(t, m, what = "injected")
        \/ /\ what = "heeded" /\ cancelled \in pending
           /\ pending' = pending \ {cancelled}
           /\ \E t \in Tabs : tabs[t].at = "cancel" /\ tabs[t].msg = m /\ tabs' = Idle(t)
           /\ UNCHANGED <<msgs, queue>>
        \/ /\ what \in Events => ~Registered(m)
           /\ what \in {"injected", "refused"} => steered \notin pending
           /\ what = "heeded" => cancelled \notin pending
           /\ UNCHANGED <<tabs, msgs, queue, pending>>
  /\ UNCHANGED <<subs, proc, task, conn, gateway, history>>

-----------------------------------------------------------------------------
(* The conversation handler: jobs (run_agent_job, chat_stream).            *)

Emits(m, end) == [msgs EXCEPT ![m].stage = "emit", ![m].end = end, ![m].items = <<>>]

\* The job's first step: it streams over the connection, or over HTTP when
\* there is none, or fails when the send does.
JobStarts(m) ==
  /\ msgs[m].stage = "created" /\ ~msgs[m].doomed
  /\ proc' = proc \cup {msgs[m].key}
  /\ \/ /\ conn # 0 /\ Sends(<<"chat", m>>)
        /\ msgs' = [msgs EXCEPT ![m].stage = "stream"]
     \/ /\ conn # 0 /\ ~wires[conn].open
        /\ msgs' = Emits(m, "failed") /\ UNCHANGED wires
     \/ /\ conn = 0
        /\ msgs' = [msgs EXCEPT ![m].stage = "http"] /\ UNCHANGED wires
  /\ UNCHANGED <<tabs, subs, queue, task, client, gateway, history>>

\* The next item of the stream: progress is passed on, anything else is the
\* outcome.  An HTTP stream that ends without one leaves a blank answer.
Outcome(item, stage) ==
  CASE item = "answer" -> "answered"
    [] item = "cancelled" -> "empty"
    [] item = "lost" /\ stage = "http" -> "empty"
    [] OTHER -> "failed"

StreamItem(m) ==
  /\ msgs[m].stage \in {"stream", "http"} /\ ~msgs[m].doomed /\ msgs[m].items # <<>>
  /\ LET item == Head(msgs[m].items) IN
       msgs' = IF item = "progress" THEN [msgs EXCEPT ![m].items = Tail(@)]
                                    ELSE Emits(m, Outcome(item, msgs[m].stage))
  /\ UNCHANGED <<tabs, subs, proc, queue, task, client, wires, gateway, history>>

\* Ten minutes without an item, or no gateway to be reached over HTTP.
StreamTimesOut(m) ==
  /\ msgs[m].stage \in {"stream", "http"} /\ ~msgs[m].doomed /\ msgs[m].items = <<>>
  /\ msgs' = Emits(m, "failed")
  /\ UNCHANGED <<tabs, subs, proc, queue, task, client, wires, gateway, history>>

\* The finally clause: the next message of the queue gets a job of its own,
\* or the session is no longer processing.
Finally(m, end) ==
  LET k == msgs[m].key IN
  IF queue[k] # <<>>
  THEN /\ msgs' = [Ended(m, end) EXCEPT ![Head(queue[k])].stage = "created"]
       /\ task' = [task EXCEPT ![k] = Head(queue[k])]
       /\ queue' = [queue EXCEPT ![k] = Tail(@)]
       /\ proc' = proc
  ELSE /\ msgs' = Ended(m, end)
       /\ task' = [task EXCEPT ![k] = NoMsg]
       /\ proc' = proc \ {k}
       /\ queue' = queue

JobEnds(m) ==
  /\ msgs[m].stage = "emit" /\ ~msgs[m].doomed
  /\ Finally(m, msgs[m].end)
  /\ UNCHANGED <<tabs, subs, client, wires, gateway, history>>

JobIsStoppedForGood(m) ==
  /\ msgs[m].stage \in {"stream", "http", "emit"} /\ msgs[m].doomed
  /\ msgs' = Ended(m, "stopped")
  /\ UNCHANGED <<tabs, subs, proc, queue, task, client, wires, gateway, history>>

JobIsStopped(m) ==
  /\ msgs[m].stage \in {"stream", "http", "emit"} /\ msgs[m].doomed
  /\ Finally(m, "stopped")
  /\ UNCHANGED <<tabs, subs, client, wires, gateway, history>>

\* A task that is cancelled before its first step never runs, its finally
\* clause included: it stays the session's task, and the session processing.
JobNeverRuns(m) ==
  /\ msgs[m].stage = "created" /\ msgs[m].doomed
  /\ msgs' = Ended(m, "stuck")
  /\ UNCHANGED <<tabs, subs, proc, queue, task, client, wires, gateway, history>>

-----------------------------------------------------------------------------
(* The conversation handler: stop, sessions, tabs that close.              *)

\* _handle_stop throws the queue away and cancels the job; without a job it
\* ends the processing itself.  The agent's turn is not told.
Stop(t) ==
  LET k == tabs[t].key
      m == task[k]
      Thrown == {q \in Known : Contains(queue[k], q)}
      cut == [q \in Known |-> IF q \in Thrown THEN Ended(q, "dropped")[q] ELSE msgs[q]]
  IN /\ tabs[t].at = "idle" /\ Acts
     /\ queue' = [queue EXCEPT ![k] = <<>>]
     /\ tabs' = [u \in Tabs |-> IF tabs[u].at = "steer" /\ tabs[u].key = k
                                THEN [tabs[u] EXCEPT !.at = "orphan"] ELSE tabs[u]]
     /\ IF m # NoMsg
        THEN /\ msgs' = IF cut[m].stage \in Active THEN [cut EXCEPT ![m].doomed = TRUE] ELSE cut
             /\ early' = early \cup {q \in {k} : msgs[m].stage = "created"}
             /\ proc' = proc
        ELSE /\ msgs' = cut
             /\ early' = early \cup {q \in {k} : k \in proc}
             /\ proc' = proc \ {k}
     /\ UNCHANGED <<subs, task, client, wires, gateway, heard, unanswered>>

\* _subscribe_ws_to_session, after the tab's session was already replaced:
\* what it unsubscribes from is the new session.
Subscribe(t, k) == subs' = [subs EXCEPT ![k] = (@ \ {t}) \cup {t}]

\* new_session and switch_session.
Move(t, k) ==
  /\ tabs[t].at = "idle" /\ Acts
  /\ tabs' = [tabs EXCEPT ![t].key = k]
  /\ Subscribe(t, k)
  /\ UNCHANGED <<proc, queue, task, msgs, client, wires, gateway, early, heard, unanswered>>

\* The tab goes: its messages, jobs and queue stay.
Close(t) ==
  /\ tabs[t].at = "idle" /\ Acts
  /\ tabs' = [tabs EXCEPT ![t].at = "off"]
  /\ subs' = [subs EXCEPT ![tabs[t].key] = @ \ {t}]
  /\ UNCHANGED <<proc, queue, task, msgs, client, wires, gateway, early, heard, unanswered>>

-----------------------------------------------------------------------------
(* The gateway.                                                            *)

\* What the gateway sends on a connection: nothing arrives once it broke.
Said(ws, n, what, m) ==
  IF n # 0 /\ ws[n].open THEN [ws EXCEPT ![n].down = Append(@, <<what, m>>)] ELSE ws

\* _handle_ws_request, one frame after the other: chat starts a task (or is
\* refused without a provider), steer is accepted while the agent has a queue
\* for the session, cancel cancels the task.
GatewayTakes(n) ==
  /\ wires[n].up # <<>>
  /\ LET what == Head(wires[n].up)[1]
         m == Head(wires[n].up)[2]
         rest == [wires EXCEPT ![n].up = Tail(@)]
     IN \/ /\ what = "chat"
           /\ chats' = [chats EXCEPT ![m].stage = "created", ![m].wire = n]
           /\ wires' = rest /\ UNCHANGED heard
        \/ /\ what = "chat"
           /\ wires' = Said(rest, n, "failed", m) /\ UNCHANGED <<chats, heard>>
        \/ /\ what = "steer"
           /\ LET ok == msgs[m].key \in steerable IN
                /\ wires' = Said(rest, n, IF ok THEN "injected" ELSE "refused", m)
                /\ heard' = IF ok THEN heard \cup {m} ELSE heard
           /\ UNCHANGED chats
        \/ /\ what = "cancel"
           /\ chats' = IF chats[m].stage \in {"created", "running", "loop"}
                       THEN [chats EXCEPT ![m].doomed = TRUE] ELSE chats
           /\ wires' = Said(rest, n, "heeded", m) /\ UNCHANGED heard
  /\ UNCHANGED <<handler, client, steerable, used, early, unanswered>>

\* What a turn says goes to the connection it came on, or to the HTTP stream
\* if its job still reads it.
Tells(m, what) ==
  IF chats[m].wire = 0
  THEN /\ msgs' = IF msgs[m].stage = "http" /\ ~msgs[m].doomed
                  THEN [msgs EXCEPT ![m].items = Append(@, what)] ELSE msgs
       /\ UNCHANGED wires
  ELSE wires' = Said(wires, chats[m].wire, what, m) /\ UNCHANGED msgs

\* POST /api/chat runs the turn within the request's own handler; a gateway
\* without a provider ends the stream at once.
HttpAccepted(m) ==
  /\ msgs[m].stage = "http" /\ ~msgs[m].doomed /\ msgs[m].items = <<>>
  /\ chats[m].stage = "none"
  /\ \/ chats' = [chats EXCEPT ![m].stage = "running"] /\ UNCHANGED msgs
     \/ msgs' = [msgs EXCEPT ![m].items = <<"lost">>] /\ UNCHANGED chats
  /\ UNCHANGED <<tabs, subs, proc, queue, task, client, wires, steerable, history>>

ChatOver(m, end) == [chats EXCEPT ![m].stage = "over", ![m].end = end, ![m].wire = 0,
                                  ![m].doomed = FALSE]

\* _run_chat takes its first step, unless it was cancelled before: then it
\* never runs and says nothing.
ChatStarts(m) ==
  /\ chats[m].stage = "created"
  /\ chats' = IF chats[m].doomed
              THEN ChatOver(m, "unrun")
              ELSE [chats EXCEPT ![m].stage = "running"]
  /\ UNCHANGED <<handler, client, wires, steerable, history>>

\* The turn enters the agent's loop, which opens the session's steering queue.
ChatEntersLoop(m) ==
  /\ chats[m].stage = "running" /\ ~chats[m].doomed
  /\ chats' = [chats EXCEPT ![m].stage = "loop"]
  /\ steerable' = steerable \cup {msgs[m].key}
  /\ UNCHANGED <<handler, client, wires, history>>

ChatProgress(m) ==
  /\ chats[m].stage \in {"running", "loop"} /\ ~chats[m].doomed
  /\ used.progress < MaxProgress
  /\ used' = [used EXCEPT !.progress = @ + 1]
  /\ Tells(m, "progress")
  /\ UNCHANGED <<tabs, subs, proc, queue, task, client, gateway, early, heard, unanswered>>

\* The turn ends and answers; the loop closes the steering queue behind it.
ChatAnswers(m) ==
  /\ chats[m].stage \in {"running", "loop"} /\ ~chats[m].doomed
  /\ chats' = ChatOver(m, "done")
  /\ Tells(m, "answer")
  /\ steerable' = IF chats[m].stage = "loop" THEN steerable \ {msgs[m].key} ELSE steerable
  /\ UNCHANGED <<tabs, subs, proc, queue, task, client, history>>

\* It raises, or its cancellation takes effect: the queue stays open.
ChatFails(m) ==
  /\ chats[m].stage \in {"running", "loop"}
  /\ chats' = ChatOver(m, "broken")
  /\ Tells(m, IF chats[m].doomed THEN "cancelled" ELSE "failed")
  /\ UNCHANGED <<tabs, subs, proc, queue, task, client, steerable, history>>

\* The connection is lost with the end of what was under way to the gateway;
\* what had arrived can still be read on both sides.
Break ==
  /\ \E n \in DOMAIN wires : \E i \in 0 .. Len(wires[n].up) :
       /\ wires[n].open
       /\ wires' = [wires EXCEPT ![n].open = FALSE, ![n].up = SubSeq(@, 1, i)]
  /\ UNCHANGED <<handler, client, gateway, history>>

\* The gateway's process ends and starts anew: its turns and its connections
\* are gone, an HTTP stream ends.
GatewayRestarts ==
  /\ \E n \in DOMAIN wires : wires[n].open
  /\ wires' = [n \in DOMAIN wires |-> [wires[n] EXCEPT !.open = FALSE, !.up = <<>>]]
  /\ chats' = [m \in MsgIds |->
                 CASE chats[m].stage = "created" -> ChatOver(m, "unrun")[m]
                   [] chats[m].stage \in {"running", "loop"} -> ChatOver(m, "broken")[m]
                   [] OTHER -> chats[m]]
  /\ msgs' = [m \in Known |->
                IF msgs[m].stage = "http" /\ chats[m].stage \in {"running", "loop"}
                THEN [msgs[m] EXCEPT !.items = Append(@, "lost")] ELSE msgs[m]]
  /\ steerable' = {}
  /\ UNCHANGED <<tabs, subs, proc, queue, task, client, history>>

-----------------------------------------------------------------------------
UserActs ==
  \/ \E t \in Tabs : Send(t) \/ Stop(t) \/ Close(t)
  \/ \E t \in Tabs, m \in Known : Cancel(t, m)
  \/ \E t \in Tabs, k \in Keys : Move(t, k)

HandlerSteps ==
  \/ \E t \in Tabs : AckDone(t) \/ SteerUnanswered(t) \/ CancelUnanswered(t)
  \/ \E m \in Known : \/ JobStarts(m) \/ StreamItem(m) \/ StreamTimesOut(m)
                      \/ JobEnds(m) \/ JobIsStopped(m) \/ JobNeverRuns(m)

ClientSteps == Connect \/ ClientNotices \/ Receive

GatewaySteps ==
  \/ \E n \in DOMAIN wires : GatewayTakes(n)
  \/ \E m \in Known : \/ HttpAccepted(m) \/ ChatStarts(m) \/ ChatEntersLoop(m)
                      \/ ChatProgress(m) \/ ChatAnswers(m) \/ ChatFails(m)

Faults == Break \/ GatewayRestarts

Next == UserActs \/ HandlerSteps \/ ClientSteps \/ GatewaySteps \/ Faults

Spec == Init /\ [][Next]_vars

\* The handler's event loop runs; nothing is assumed of the agent, of the
\* connection or of the users.
FairSpec == Spec /\ WF_vars(HandlerSteps)

-----------------------------------------------------------------------------
(* Properties.                                                             *)

Jobs(k) == {m \in Known : msgs[m].key = k /\ msgs[m].stage \in Active}
Acks(k) == {t \in Tabs : tabs[t].at = "ack" /\ tabs[t].key = k}

\* A session has one job at a time, whatever its tabs send and stop: while it
\* is processing there is exactly one job, or one message being acknowledged
\* and no job, and the task that a stop would cancel is that job's.  (A stop
\* that comes before the job's first step breaks this: see early.)
OneJobAtATime ==
  \A k \in Keys \ early :
    /\ Cardinality(Jobs(k)) + Cardinality(Acks(k)) = IF k \in proc THEN 1 ELSE 0
    /\ task[k] = IF Jobs(k) = {} THEN NoMsg ELSE CHOOSE m \in Jobs(k) : TRUE

\* Nobody waits for what cannot come: what a registered stream or a pending
\* request waits for is on its way on the connection in use, or the
\* connection has broken and its end will be noticed; the exception is a turn
\* that was cancelled before its first step.
OnItsWay(m, what, answers) ==
  \/ ~wires[conn].open
  \/ Contains(wires[conn].up, <<what, m>>)
  \/ \E a \in answers : Contains(wires[conn].down, <<a, m>>)

NobodyWaitsForNothing ==
  /\ \A m \in Known : Registered(m) =>
       /\ conn # 0
       /\ \/ OnItsWay(m, "chat", Events \ {"progress"})
          \/ chats[m].wire = conn /\ chats[m].stage \in {"created", "running", "loop"}
          \/ chats[m].end = "unrun"
          \/ msgs[m].items # <<>> /\ Last(msgs[m].items) # "progress"
  /\ \A r \in pending :
       conn # 0 /\ OnItsWay(r[2], r[1], IF r[1] = "steer" THEN {"injected", "refused"} ELSE {"heeded"})

\* A message is either taken as steering or queued for a turn of its own;
\* both only when the steering request went unanswered.
SteeredOrQueued ==
  \A m \in heard \ unanswered : m \in Known => msgs[m].stage \in {"held", "over"} /\ chats[m].stage = "none"

\* The events of a session reach every tab that shows it.
SubscribedToOwn ==
  \A t \in Tabs : tabs[t].at # "off" => t \in subs[tabs[t].key]

\* What the handler acknowledged as queued is taken up when the session's job
\* ends: a session that is not processing has nothing in its queue.
QueueDrained == \A k \in Keys \ early : k \notin proc => queue[k] = <<>>

\* Every session stops processing some time, however the connection and the
\* agent behave, unless it was stopped too early.
SessionsSettle == \A k \in Keys : k \in proc ~> k \notin proc \/ k \in early

\* The conversation that the messages, jobs and turns amount to.
Fate(m) ==
  IF m \notin Known THEN "unsent"
  ELSE CASE msgs[m].stage \in {"held", "queued", "created"} -> "pending"
         [] msgs[m].stage \in {"stream", "http", "emit"} -> "working"
         [] OTHER -> msgs[m].end
TurnOf(m) ==
  CASE chats[m].stage \in {"running", "loop"} -> "running"
    [] chats[m].end \in {"done", "broken"} -> chats[m].end
    [] OTHER -> "none"

Promise == INSTANCE Conversation WITH
  fate <- [m \in MsgIds |-> Fate(m)],
  turn <- [m \in MsgIds |-> TurnOf(m)]

\* The three programs keep what the interface promises.
KeepsPromise == Promise!Spec

=============================================================================
