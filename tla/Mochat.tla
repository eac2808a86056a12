-------------------------------- MODULE Mochat --------------------------------
(***************************************************************************)
(* The Mochat channel of KageClaw (integrations/mochat.py).  It hears of a *)
(* conversation in three ways: events pushed over a socket to which it     *)
(* subscribes, notices pushed over the same socket, and, while the socket  *)
(* does not serve, fallback workers that poll over HTTP.  Sessions have a  *)
(* cursor, kept in a file; panels have none.  What is said in a panel      *)
(* without a mention waits in a buffer until somebody mentions the bot or  *)
(* nothing has been said for a while.                                      *)
(*                                                                         *)
(* Handlers of the socket's events, workers, timers and the refresh loop   *)
(* are tasks of one event loop: what has no await in it is one step.  A    *)
(* payload is handled in one step (its lock is free, the bus never waits). *)
(***************************************************************************)
EXTENDS Naturals, Integers, Sequences, SequencesExt, FiniteSets

CONSTANTS
    Sessions, Panels,   \* conversations of the server
    Setups,             \* configurations the channel may have
    MaxSaid,            \* bound: messages said
    MaxSeen, Limit,     \* message ids remembered, messages one poll brings
    MaxConnects,        \* bound: connections of the socket
    MaxFaults           \* bound: breaks, failed calls, stops and crashes, for each setup

Targets == Sessions \cup Panels
Kinds == {"mention", "plain"}   \* a stranger's message is dropped before all else

\* listed, panels: conversations named in the configuration; auto: the other
\* sessions are discovered; sio: python-socketio is installed; inbox: the
\* server sends notices for sessions; reply: a panel message without a mention
\* is delayed, ignored, or taken like any other.
Setup == [listed : SUBSET Sessions, panels : SUBSET Panels, auto : BOOLEAN, sio : BOOLEAN,
          inbox : BOOLEAN,
          reply : {"delay", "mention", "all"}]

\* What the constants are; one poll brings no more ids than are remembered.
Given ==
    /\ Sessions \cap Panels = {} /\ Setups \subseteq Setup
    /\ MaxSaid \in Nat /\ MaxConnects \in Nat /\ MaxFaults \in [Setups -> Nat]
    /\ Limit \in Nat /\ MaxSeen \in Nat /\ Limit <= MaxSeen

ASSUME MochatAssumption == Given

VARIABLES
    log,        \* server: the messages of each conversation
    link,       \* server: the socket, its subscriptions, what is on its way
    setup,      \* MochatChannel.config
    phase,      \* where start() or stop() of the channel object is
    socket,     \* MochatChannel._socket is set
    ready,      \* MochatChannel._ws_ready
    fallback,   \* MochatChannel._fallback_mode
    sessions,   \* MochatChannel._session_set
    cold,       \* MochatChannel._cold_sessions
    cursor,     \* MochatChannel._session_cursor, -1 without one
    saved,      \* session_cursors.json
    saver,      \* MochatChannel._cursor_save_task is waiting
    workers,    \* the fallback tasks
    handlers,   \* the tasks that handle connect, one for each connection
    seen,       \* MochatChannel._seen_queue (and _seen_set)
    buffer,     \* MochatChannel._delay_states: entries, whose timer waits
    stray,      \* entries whose timer outlived the channel object
    faults,     \* faults so far (bound only)
    forwarded,  \* history: how often this object gave each message to the agent
    ever,       \* history: messages given to the agent by any object
    skipped,    \* history: messages dropped as the backlog of a cold session
    atRisk      \* history: messages an acknowledgement that was lost carried

hearing == <<seen, buffer, forwarded, ever>>
cursors == <<cursor, saver, cold, skipped>>
object == <<phase, socket, ready, fallback, sessions>>
mochatVars == <<log, link, setup, object, cursors, hearing, saved, workers, handlers,
          stray, faults, atRisk>>

-----------------------------------------------------------------------------

Messages == Targets \X (1 .. MaxSaid)
Handlers == 0 .. MaxConnects   \* 0: the task that subscribes a session found later

Event == [event : {"watch", "inbox", "panel"}, msg : Messages]

\* A worker asks from a cursor and is answered up to a place in the log.
Worker == [state : {"none", "asks", "answered", "cancelled"},
           from : -1 .. MaxSaid, upto : 0 .. MaxSaid]
NoWorker == [state |-> "none", from |-> -1, upto |-> 0]

\* A connect handler subscribes the sessions, gets the acknowledgement with
\* what came after its cursors, subscribes the panels (rest), looks for new
\* targets, and waits for the workers it stops.
Handler == [stage : {"idle", "ask", "acked", "rest", "look", "gather"}, epoch : 0 .. MaxConnects,
            from : [Sessions -> -1 .. MaxSaid], upto : [Sessions -> 0 .. MaxSaid],
            asked : SUBSET Sessions, ok : BOOLEAN]
IdleHandler == [stage |-> "idle", epoch |-> 0, from |-> [s \in Sessions |-> -1],
                upto |-> [s \in Sessions |-> 0], asked |-> {}, ok |-> FALSE]

Said(t) == {<<t, n>> : n \in 1 .. Len(log[t])}
Kind(m) == log[m[1]][m[2]]

\* The messages of t after place a and up to place b, oldest first.
Between(t, a, b) == [i \in 1 .. (IF b > a THEN b - a ELSE 0) |-> <<t, a + i>>]

AtLeast0(n) == IF n < 0 THEN 0 ELSE n

Started == phase \in {"refresh", "connecting", "up"}

Fault == faults < MaxFaults[setup] /\ faults' = faults + 1

MochatInit ==
    /\ log = [t \in Targets |-> <<>>]
    /\ link = [up |-> FALSE, epoch |-> 0, subs |-> {}, wire |-> <<>>]
    /\ setup \in Setups
    /\ phase = "down" /\ socket = FALSE /\ ready = FALSE /\ fallback = FALSE
    /\ sessions = {} /\ cold = {}
    /\ cursor = [s \in Sessions |-> -1] /\ saved = cursor /\ saver = FALSE
    /\ workers = [t \in Targets |-> NoWorker]
    /\ handlers = [h \in Handlers |-> IdleHandler]
    /\ seen = [t \in Targets |-> <<>>] /\ buffer = [t \in Panels |-> <<>>]
    /\ stray = {} /\ faults = 0
    /\ forwarded = [m \in Messages |-> 0]
    /\ ever = {} /\ skipped = {} /\ atRisk = {}

-----------------------------------------------------------------------------
(* What a message goes through once it is heard of, whichever way.         *)

Forward(ms) ==
    /\ forwarded' = [m \in Messages |-> IF m \in ms THEN forwarded[m] + 1 ELSE forwarded[m]]
    /\ ever' = ever \cup ms

\* The ids are remembered in the order they came; the oldest are forgotten.
Remembered(t, new) ==
    LET all == seen[t] \o new
    IN SubSeq(all, (IF Len(all) > MaxSeen THEN Len(all) - MaxSeen ELSE 0) + 1, Len(all))

\* Fault: a mention clears what waits and is forwarded alone.
FlushedAlone(t, new, k) == {new[i] : i \in 1 .. k}

\* A mention takes everything that waits with it.
Flushed(t, new, k) == ToSet(buffer[t]) \cup {new[i] : i \in 1 .. k}

\* A panel whose messages wait: up to the last mention all is forwarded, and
\* what follows it waits with a timer started anew.
Delay(t, new) ==
    LET mentions == {i \in 1 .. Len(new) : Kind(new[i]) = "mention"}
        k == IF mentions = {} THEN 0 ELSE CHOOSE i \in mentions : \A j \in mentions : j <= i
    IN /\ buffer' = [buffer EXCEPT ![t] = IF k = 0 THEN @ \o new ELSE SubSeq(new, k + 1, Len(new))]
       /\ Forward(IF k = 0 THEN {} ELSE Flushed(t, new, k))

\* The items of q at the places ps, in their order.
At(q, ps) ==
    [k \in 1 .. Cardinality(ps) |-> q[CHOOSE i \in ps : Cardinality({j \in ps : j <= i}) = k]]

\* What this channel takes of the messages ms of t, given oldest first: those
\* whose ids it does not remember.
Hear(t, ms) ==
    LET new == At(ms, {i \in DOMAIN ms : ms[i] \notin ToSet(seen[t])})
        taken == IF t \in Panels /\ setup.reply = "mention"
                 THEN {m \in ToSet(new) : Kind(m) = "mention"}
                 ELSE ToSet(new)
    IN /\ seen' = [seen EXCEPT ![t] = Remembered(t, new)]
       /\ IF t \in Panels /\ setup.reply = "delay"
          THEN Delay(t, new)
          ELSE Forward(taken) /\ UNCHANGED buffer

\* Nothing has been said in the panel for reply_delay_ms.
TimerFires(t) ==
    /\ phase # "down" /\ buffer[t] # <<>>
    /\ buffer' = [buffer EXCEPT ![t] = <<>>]
    /\ Forward(ToSet(buffer[t]))
    /\ UNCHANGED <<log, link, setup, object, cursors, seen, saved, workers, handlers,
                   stray, faults, atRisk>>

StrayFires ==
    /\ stray # {}
    /\ ever' = ever \cup stray /\ stray' = {}
    /\ UNCHANGED <<log, link, setup, object, cursors, seen, buffer, forwarded, saved,
                   workers, handlers, faults, atRisk>>

-----------------------------------------------------------------------------
(* Cursors, and what a session's payload does.                             *)

Marked(s, n) == IF n >= AtLeast0(cursor[s]) THEN n ELSE cursor[s]

\* A cold session drops the first payload it gets: the backlog.  The cursor
\* is marked before the messages are taken, and saved some time after.
Payload(s, ms, upto) ==
    /\ cursor' = [cursor EXCEPT ![s] = Marked(s, upto)]
    /\ saver' = (saver \/ upto >= AtLeast0(cursor[s]))
    /\ IF s \in cold
       THEN cold' = cold \ {s} /\ skipped' = skipped \cup ToSet(ms) /\ UNCHANGED hearing
       ELSE Hear(s, ms) /\ UNCHANGED <<cold, skipped>>

SaveCursors ==
    /\ saver /\ phase # "down"
    /\ saved' = cursor /\ saver' = FALSE
    /\ UNCHANGED <<log, link, setup, object, cursor, cold, skipped, hearing, workers,
                   handlers, stray, faults, atRisk>>

-----------------------------------------------------------------------------
(* The fallback workers.                                                   *)

Asks(t) == [state |-> "asks", from |-> IF t \in Sessions THEN cursor[t] ELSE -1, upto |-> 0]

\* Workers for all the targets ts that have none; a cancelled one that has
\* not ended yet counts as one.
Ensured(ts) ==
    [t \in Targets |-> IF t \in ts /\ workers[t].state = "none" THEN Asks(t) ELSE workers[t]]

Ensure(ts) ==
    IF Started THEN fallback' = TRUE /\ workers' = Ensured(ts)
               ELSE UNCHANGED <<fallback, workers>>

WorkersCancelled ==
    [t \in Targets |-> IF workers[t].state = "none" THEN NoWorker
                       ELSE [workers[t] EXCEPT !.state = "cancelled"]]

\* The cancelled tasks end and whoever waits for them clears the tables.
Cleared == [t \in Targets |-> IF workers[t].state = "cancelled" THEN NoWorker ELSE workers[t]]

\* The server answers; a watch waits there until there is something to say.
WorkerAnswered(t) ==
    /\ workers[t].state = "asks"
    /\ Len(log[t]) > AtLeast0(workers[t].from)
    /\ workers' = [workers EXCEPT ![t].state = "answered", ![t].upto = Len(log[t])]
    /\ UNCHANGED <<log, link, setup, object, cursors, hearing, saved, handlers, stray,
                   faults, atRisk>>

\* The watch ends with its time limit and without messages: a cold session
\* has had its first payload.
WorkerAsksAgain(t) ==
    /\ workers[t].state = "asks"
    /\ Len(log[t]) = AtLeast0(workers[t].from) /\ t \in cold
    /\ workers' = [workers EXCEPT ![t] = [Asks(t) EXCEPT !.from = AtLeast0(@)]]
    /\ Payload(t, <<>>, AtLeast0(workers[t].from))
    /\ UNCHANGED <<log, link, setup, object, saved, handlers, stray, faults, atRisk>>

\* The request fails, and is repeated after a while.
WorkerFails(t) ==
    /\ Fault /\ workers[t].state \in {"asks", "answered"}
    /\ workers' = [workers EXCEPT ![t] = IF Started /\ fallback THEN Asks(t) ELSE NoWorker]
    /\ UNCHANGED <<log, link, setup, object, cursors, hearing, saved, handlers, stray, atRisk>>

\* _session_watch_worker handles the payload and asks from the new cursor.
WatchComes(s) ==
    LET w == workers[s]
    IN /\ w.state = "answered"
       /\ Payload(s, Between(s, AtLeast0(w.from), w.upto), w.upto)
       /\ workers' = [workers EXCEPT ![s] =
              IF Started /\ fallback
              THEN [state |-> "asks", from |-> cursor'[s], upto |-> 0] ELSE NoWorker]
       /\ UNCHANGED <<log, link, setup, object, saved, handlers, stray, faults, atRisk>>

\* _panel_poll_worker takes the last messages of the panel, oldest first.
PollComes(p) ==
    LET n == Len(log[p])
    IN /\ workers[p].state = "asks"
       /\ Hear(p, Between(p, AtLeast0(n - Limit), n))
       /\ workers' = [workers EXCEPT ![p] = IF Started /\ fallback THEN Asks(p) ELSE NoWorker]
       /\ UNCHANGED <<log, link, setup, object, cursors, saved, handlers, stray, faults, atRisk>>

-----------------------------------------------------------------------------
(* Looking for targets, and the socket.                                    *)

\* _refresh_sessions_directory: the sessions it finds for the first time.
Found == IF setup.auto THEN Sessions \ sessions ELSE {}

Chilled(ss) == cold \cup {s \in ss : cursor[s] = -1}

\* _subscribe_sessions is called for the sessions ss by task h.
AskFor(h, ss, epoch) ==
    [handlers EXCEPT ![h] =
        [IdleHandler EXCEPT !.stage = IF ss = {} THEN "rest" ELSE "ask", !.epoch = epoch,
                            !.from = cursor, !.asked = ss, !.ok = TRUE]]

\* A session the directory lists for the first time: subscribed if the
\* socket serves, watched by a worker if the workers do.
Find(s) ==
    /\ s \notin sessions /\ handlers[0].stage = "idle"
    /\ sessions' = sessions \cup {s}
    /\ cold' = Chilled({s})
    /\ handlers' = IF ready THEN AskFor(0, {s}, link.epoch) ELSE handlers
    /\ workers' = IF fallback THEN Ensured(sessions' \cup setup.panels) ELSE workers
    /\ UNCHANGED <<log, link, setup, phase, socket, ready, fallback, cursor, saver, skipped,
                   hearing, saved, stray, faults, atRisk>>

RefreshFinds(s) == phase = "up" /\ setup.auto /\ Find(s)

\* A notice for a conversation nobody knows makes the handler read the
\* directory, whatever the configuration says; then the notice is taken.
InboxFinds(s) ==
    /\ link.up /\ link.wire # <<>>
    /\ Head(link.wire).event = "inbox" /\ Head(link.wire).msg[1] = s
    /\ Find(s)

\* Once a round the loop also makes sure that the workers are there.
RefreshEnsures ==
    /\ phase = "up" /\ fallback
    /\ workers' = Ensured(sessions \cup setup.panels)
    /\ UNCHANGED <<log, link, setup, object, cursors, hearing, saved, handlers, stray,
                   faults, atRisk>>

\* The connection is made (start(), or the client by itself later on): the
\* connect handler asks for the sessions from their cursors.
SocketUp(h) ==
    /\ socket /\ ~link.up /\ phase \in {"connecting", "up"}
    /\ h = link.epoch + 1
    /\ link' = [up |-> TRUE, epoch |-> h, subs |-> {}, wire |-> <<>>]
    /\ ready' = FALSE
    /\ cold' = Chilled(sessions)
    /\ handlers' = AskFor(h, sessions, h)
    /\ UNCHANGED <<log, setup, phase, socket, fallback, sessions, cursor, saver, skipped,
                   hearing, saved, workers, stray, faults, atRisk>>

\* The connection the handler works for is still there.
StillServes(h) == link.up /\ link.epoch = handlers[h].epoch

\* The server subscribes the sessions and acknowledges.
ServerSubscribes(h) ==
    /\ handlers[h].stage = "ask" /\ StillServes(h)
    /\ link' = [link EXCEPT !.subs = @ \cup handlers[h].asked]
    /\ handlers' = [handlers EXCEPT ![h].stage = "acked",
                                    ![h].upto = [s \in Sessions |-> Len(log[s])]]
    /\ UNCHANGED <<log, setup, object, cursors, hearing, saved, workers, stray, faults, atRisk>>

\* Fault: what the acknowledgement brings is taken from its first message on.
BroughtAfter(h, s) == Between(s, AtLeast0(handlers[h].from[s]) + 1, handlers[h].upto[s])

\* What an acknowledgement of the sessions brings.
Brought(h, s) == Between(s, AtLeast0(handlers[h].from[s]), handlers[h].upto[s])

\* The messages of s that answers on their way bring.
Carried(s) ==
    UNION ({ToSet(Brought(h, s)) : h \in {g \in Handlers : handlers[g].stage = "acked"
                                                       /\ s \in handlers[g].asked}}
           \cup {ToSet(Between(s, AtLeast0(w.from), w.upto)) :
                     w \in {v \in {workers[s]} : v.state = "answered"}})

\* The acknowledgement comes: its sessions are handled one by one.
Acked(h, s) ==
    /\ handlers[h].stage = "acked" /\ s \in handlers[h].asked
    /\ Payload(s, Brought(h, s), handlers[h].upto[s])
    /\ handlers' = [handlers EXCEPT ![h].asked = @ \ {s},
                                    ![h].stage = IF handlers[h].asked # {s} THEN "acked"
                                                    ELSE IF h = 0 THEN "idle" ELSE "rest"]
    /\ UNCHANGED <<log, link, setup, object, saved, workers, stray, faults, atRisk>>

\* The call is refused, times out, or breaks with its connection: the
\* messages only this acknowledgement carried may be lost.
AckLost(h) ==
    /\ handlers[h].stage \in {"ask", "acked"}
    /\ IF StillServes(h) THEN Fault ELSE UNCHANGED faults
    /\ atRisk' = IF handlers[h].stage = "ask" THEN atRisk
                 ELSE atRisk \cup UNION {ToSet(Brought(h, s)) : s \in handlers[h].asked}
    /\ handlers' = [handlers EXCEPT ![h].stage = IF h = 0 THEN "idle" ELSE "rest",
                                    ![h].asked = {}, ![h].ok = FALSE]
    /\ UNCHANGED <<log, link, setup, object, cursors, hearing, saved, workers, stray>>

\* Fault: a subscription that failed is left to the next connection.
HandlerLeaves(h) == UNCHANGED <<fallback, workers>>

\* Without the subscription the workers go on, or are started.
NotServed(h) == Ensure(sessions' \cup setup.panels)

\* The handler decides whether the socket serves.
Decides(h, ok, found) ==
    /\ sessions' = sessions \cup found
    /\ cold' = Chilled(found)
    /\ ready' = ok
    /\ IF ok
       THEN fallback' = FALSE /\ workers' = WorkersCancelled
       ELSE NotServed(h)
    /\ handlers' = [handlers EXCEPT ![h] =
          [IdleHandler EXCEPT !.stage = IF ok THEN "gather" ELSE "idle"]]
    /\ UNCHANGED <<log, link, setup, phase, socket, cursor, saver, skipped, hearing, saved,
                   stray, atRisk>>

\* The panels are subscribed, or not.
PanelCall(h, ok) ==
    /\ handlers[h].stage = "rest"
    /\ ok => StillServes(h)
    /\ IF ok \/ ~StillServes(h) THEN UNCHANGED faults ELSE Fault

HandlerDecides(h, ok) ==
    ~setup.auto /\ PanelCall(h, ok) /\ Decides(h, ok /\ handlers[h].ok, {})

\* With discovery the directory is read before the decision.  A session it
\* finds is not subscribed, for the socket is not ready yet, and what became
\* of the connection in the meantime is not asked.
HandlerLooks(h, ok) ==
    /\ setup.auto /\ PanelCall(h, ok)
    /\ handlers' = [handlers EXCEPT ![h].stage = "look", ![h].ok = @ /\ ok]
    /\ UNCHANGED <<log, link, setup, object, cursors, hearing, saved, workers, stray, atRisk>>

HandlerFound(h, found) ==
    /\ handlers[h].stage = "look"
    /\ Decides(h, handlers[h].ok, found) /\ UNCHANGED faults

HandlerEnds(h) ==
    /\ handlers[h].stage = "gather"
    /\ workers' = Cleared
    /\ handlers' = [handlers EXCEPT ![h] = IdleHandler]
    /\ UNCHANGED <<log, link, setup, object, cursors, hearing, saved, stray, faults, atRisk>>

\* The connection breaks: what was on its way is gone.
Break ==
    /\ Fault /\ link.up /\ phase \in {"connecting", "up"}
    /\ link' = [link EXCEPT !.up = FALSE, !.subs = {}, !.wire = <<>>]
    /\ ready' = FALSE
    /\ Ensure(sessions \cup setup.panels)
    /\ UNCHANGED <<log, setup, phase, socket, sessions, cursors, hearing, saved, handlers,
                   stray, atRisk>>

\* The handler of the event at the head of the connection.
Deliver ==
    /\ link.up /\ link.wire # <<>>
    /\ LET e == Head(link.wire)  t == e.msg[1]
       IN /\ link' = [link EXCEPT !.wire = Tail(@)]
          /\ \/ e.event = "watch" /\ Payload(t, <<e.msg>>, e.msg[2]) /\ UNCHANGED faults
             \/ e.event = "panel" /\ Hear(t, <<e.msg>>) /\ UNCHANGED <<cursors, faults>>
             \/ /\ e.event = "inbox" /\ t \in sessions
                /\ Hear(t, <<e.msg>>) /\ UNCHANGED <<cursors, faults>>
             \* The directory cannot be read, and the notice is dropped.
             \/ e.event = "inbox" /\ t \notin sessions /\ UNCHANGED <<hearing, cursors, faults>>
    /\ UNCHANGED <<log, setup, object, saved, workers, handlers, stray, atRisk>>

-----------------------------------------------------------------------------
(* The life of the channel object, and what users say.                     *)

\* A new object: start() reads the cursors and the configuration.
Start ==
    /\ phase = "down"
    /\ phase' = "refresh" /\ socket' = FALSE /\ ready' = FALSE /\ fallback' = FALSE
    /\ cursor' = saved /\ saver' = FALSE
    /\ sessions' = setup.listed
    /\ cold' = {s \in setup.listed : saved[s] = -1}
    /\ seen' = [t \in Targets |-> <<>>] /\ buffer' = [t \in Panels |-> <<>>]
    /\ forwarded' = [m \in Messages |-> 0]
    /\ UNCHANGED <<log, link, setup, ever, skipped, saved, workers, handlers, stray, faults, atRisk>>

\* The directory answers, or not; the socket client is made.
StartRefreshed(found) ==
    /\ phase = "refresh" /\ setup.sio /\ found \in {{}, Found}
    /\ sessions' = sessions \cup found /\ cold' = Chilled(found)
    /\ phase' = "connecting" /\ socket' = TRUE
    /\ UNCHANGED <<log, link, setup, ready, fallback, cursor, saver, skipped, hearing, saved,
                   workers, handlers, stray, faults, atRisk>>

\* Without the library there are only the workers.
StartPolls(found) ==
    /\ phase = "refresh" /\ ~setup.sio /\ found \in {{}, Found}
    /\ sessions' = sessions \cup found /\ cold' = Chilled(found)
    /\ phase' = "up"
    /\ Ensure(sessions' \cup setup.panels)
    /\ UNCHANGED <<log, link, setup, socket, ready, cursor, saver, skipped, hearing, saved,
                   handlers, stray, faults, atRisk>>

Connected ==
    /\ phase = "connecting" /\ link.up /\ phase' = "up"
    /\ UNCHANGED <<log, link, setup, socket, ready, fallback, sessions, cursors, hearing, saved,
                   workers, handlers, stray, faults, atRisk>>

\* The first connection fails: there is no socket from now on.
ConnectFails ==
    /\ Fault /\ phase = "connecting"
    /\ phase' = "up" /\ socket' = FALSE /\ ready' = FALSE
    /\ link' = [link EXCEPT !.up = FALSE, !.subs = {}, !.wire = <<>>]
    /\ Ensure(sessions \cup setup.panels)
    /\ UNCHANGED <<log, setup, sessions, cursors, hearing, saved, handlers, stray, atRisk>>

\* stop() is called: start() has been cancelled before.
Stop ==
    /\ Fault /\ Started
    /\ phase' = "closing" /\ fallback' = FALSE /\ workers' = WorkersCancelled
    /\ UNCHANGED <<log, link, setup, socket, ready, sessions, cursors, hearing, saved, handlers,
                   stray, atRisk>>

\* The workers have ended: what waits in the buffers is dropped with its timers.
StopClears ==
    /\ phase = "closing" /\ phase' = "leaving"
    /\ workers' = Cleared
    /\ buffer' = [t \in Panels |-> <<>>]
    /\ UNCHANGED <<log, link, setup, socket, ready, fallback, sessions, cursors, seen, forwarded,
                   ever, saved, handlers, stray, faults, atRisk>>

Offline == [link EXCEPT !.up = FALSE, !.subs = {}, !.wire = <<>>]

\* The socket is closed and the cursors are saved.  A message buffered since
\* has a timer nobody cancels.
StopLeaves ==
    /\ phase = "leaving" /\ phase' = "down" /\ socket' = FALSE /\ ready' = FALSE
    /\ link' = Offline
    /\ saved' = cursor /\ saver' = FALSE
    /\ stray' = stray \cup UNION {ToSet(buffer[t]) : t \in Panels}
    /\ buffer' = [t \in Panels |-> <<>>]
    /\ handlers' = [h \in Handlers |-> IdleHandler]
    /\ atRisk' = atRisk \cup UNION {Carried(s) : s \in Sessions}
    /\ UNCHANGED <<log, setup, fallback, sessions, cold, skipped, cursor, seen, forwarded, ever,
                   workers, faults>>

\* The process ends; if the cursors were being written the file is broken
\* and read as an empty one.
Crash ==
    /\ Fault /\ phase # "down" /\ phase' = "down"
    /\ socket' = FALSE /\ ready' = FALSE /\ fallback' = FALSE
    /\ link' = Offline
    /\ \/ UNCHANGED saved
       \/ saver /\ saved' = [s \in Sessions |-> -1]
    /\ saver' = FALSE
    /\ workers' = [t \in Targets |-> NoWorker]
    /\ handlers' = [h \in Handlers |-> IdleHandler]
    /\ buffer' = [t \in Panels |-> <<>>] /\ stray' = {}
    /\ cursor' = saved'
    /\ atRisk' = atRisk \cup UNION {Carried(s) : s \in Sessions}
    /\ UNCHANGED <<log, setup, sessions, cold, skipped, seen, forwarded, ever>>

\* Somebody writes; the server pushes it to whoever listens.
Say(t, k) ==
    /\ t \in Sessions \cup setup.panels
    /\ t \in Sessions => k # "mention"
    /\ Cardinality(UNION {Said(c) : c \in Targets}) < MaxSaid
    /\ log' = [log EXCEPT ![t] = Append(@, k)]
    /\ LET m == <<t, Len(log[t]) + 1>>
           pushed == (IF t \in link.subs THEN <<[event |-> "watch", msg |-> m]>> ELSE <<>>)
                     \o (IF t \in Sessions /\ setup.inbox
                         THEN <<[event |-> "inbox", msg |-> m]>> ELSE <<>>)
                     \o (IF t \in Panels THEN <<[event |-> "panel", msg |-> m]>> ELSE <<>>)
       IN link' = IF link.up THEN [link EXCEPT !.wire = @ \o pushed] ELSE link
    /\ UNCHANGED <<setup, object, cursors, hearing, saved, workers, handlers, stray, faults, atRisk>>

-----------------------------------------------------------------------------

WatchStep(s) == WorkerAnswered(s) \/ WorkerAsksAgain(s) \/ WatchComes(s)

SocketStep == Deliver \/ \E s \in Sessions : InboxFinds(s)

HandlerStep(h) ==
    \/ SocketUp(h) \/ ServerSubscribes(h) \/ AckLost(h) \/ HandlerEnds(h)
    \/ \E s \in Sessions : Acked(h, s)
    \/ \E ok \in BOOLEAN : HandlerDecides(h, ok) \/ HandlerLooks(h, ok)
    \/ \E found \in {{}, Found} : HandlerFound(h, found)

StartSteps == Connected \/ \E found \in {{}, Found} : StartRefreshed(found) \/ StartPolls(found)

Timers == (\E p \in Panels : TimerFires(p)) \/ StrayFires

MochatNext ==
    \/ \E t \in Targets, k \in Kinds : Say(t, k)
    \/ Start \/ StartSteps \/ ConnectFails \/ Stop \/ StopClears \/ StopLeaves \/ Crash
    \/ Break \/ SocketStep
    \/ \E h \in Handlers : HandlerStep(h)
    \/ \E s \in Sessions : WatchStep(s) \/ RefreshFinds(s)
    \/ \E p \in Panels : PollComes(p)
    \/ \E t \in Targets : WorkerFails(t)
    \/ RefreshEnsures \/ SaveCursors \/ Timers

MochatSpec == MochatInit /\ [][MochatNext]_mochatVars

\* The connect handlers go on, the server answers, the client connects again as long
\* as it has attempts (max_retry_attempts 0: for ever), and the refresh loop
\* comes round.
Fairness ==
    /\ \A h \in 1 .. MaxConnects : WF_mochatVars(HandlerStep(h))
    /\ \A s \in Sessions : WF_mochatVars(WatchStep(s))
    /\ WF_mochatVars(SocketStep) /\ WF_mochatVars(RefreshEnsures)

MochatFairSpec == MochatSpec /\ Fairness

-----------------------------------------------------------------------------

MochatTypeOK ==
    /\ log \in [Targets -> Seq(Kinds)]
    /\ link \in [up : BOOLEAN, epoch : 0 .. MaxConnects, subs : SUBSET Sessions, wire : Seq(Event)]
    /\ setup \in Setups
    /\ phase \in {"down", "refresh", "connecting", "up", "closing", "leaving"}
    /\ socket \in BOOLEAN /\ ready \in BOOLEAN /\ fallback \in BOOLEAN /\ saver \in BOOLEAN
    /\ sessions \subseteq Sessions /\ cold \subseteq sessions
    /\ cursor \in [Sessions -> -1 .. MaxSaid] /\ saved \in [Sessions -> -1 .. MaxSaid]
    /\ workers \in [Targets -> Worker]
    /\ handlers \in [Handlers -> Handler]
    /\ \A t \in Targets : seen[t] \in Seq(Messages) /\ Len(seen[t]) <= MaxSeen
    /\ buffer \in [Panels -> Seq(Messages)]
    /\ forwarded \in [Messages -> Nat]

\* However a message is heard of (an acknowledgement, a pushed event, a notice,
\* a worker; mochat.py:515-830), one channel object forwards it at most once,
\* and a message whose id it has remembered is either forwarded or waits in
\* the buffer of its panel, never both and never neither (unless the
\* configuration ignores it).
EachMessageOnce ==
    /\ \A m \in Messages : forwarded[m] <= 1
    /\ phase \in {"refresh", "connecting", "up"} =>
         \A t \in Targets : \A m \in ToSet(seen[t]) :
            (setup.reply = "mention" /\ t \in Panels => Kind(m) = "mention") =>
               (forwarded[m] = 1) # (t \in Panels /\ m \in ToSet(buffer[t]))

\* The server is asked for what comes after a session's cursor, so nothing at
\* or before a cursor, in memory or in the file a restart reads, may be
\* unknown: it was forwarded, dropped as backlog, or is on its way in an
\* acknowledgement or an answer asked for before (mochat.py:737-769, 968-1012),
\* which a pushed event may overtake.  Excepted are messages only a lost
\* acknowledgement carried.
CursorCovers ==
    \A s \in Sessions : \A n \in 1 .. MaxSaid :
        (n <= cursor[s] \/ n <= saved[s]) =>
            <<s, n>> \in ever \cup skipped \cup atRisk \cup Carried(s)

Exists(m) == m[2] <= Len(log[m[1]])

\* While the channel stays up, every message of a session its configuration
\* names is heard of in the end, whatever the socket, the calls and the workers go through
\* (mochat.py:430-446, 575-690): forwarded, dropped as backlog, or lost with an
\* acknowledgement.  Only without discovery: a connect handler that reads the
\* directory subscribes nothing it finds (514-520, 612) and, if its connection
\* ends meanwhile, stops the workers that had taken over (446-452).
SessionsAreHeard ==
    <>[](phase = "up") =>
        \A s \in Sessions, n \in 1 .. MaxSaid :
            (Exists(<<s, n>>) /\ s \in setup.listed /\ ~setup.auto)
                ~> (<<s, n>> \in ever \cup skipped \cup atRisk)

=============================================================================
