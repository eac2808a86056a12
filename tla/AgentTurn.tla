----------------------------- MODULE AgentTurn -----------------------------
(***************************************************************************)
(* The agent's turns: the inbound queue of the message bus, the loop that  *)
(* dispatches it (agent/loop.py run, _dispatch, _handle_stop), the turns   *)
(* themselves from the lock to the reply (_process_message and             *)
(* _run_agent_loop), the steering queues, the context that the message and *)
(* spawn tools keep between calls, the session router and the subagents.   *)
(*                                                                         *)
(* One asyncio event loop runs it all, so a step is what happens between   *)
(* two awaits that suspend.  Publishing to the bus never suspends: both of *)
(* its queues are unbounded.  What a turn writes to its session is the     *)
(* subject of the module Sessions.                                         *)
(***************************************************************************)
EXTENDS Naturals, Sequences, SequencesExt, FiniteSets

CONSTANTS
  Chats,      \* the chats; each is also the key of its own session
  NoChat,     \* no chat: the tools' context before the first turn
  Posts,      \* the messages that may reach the bus: pairs of a chat and a kind
  Calls,      \* the direct calls that may be made: pairs of a chat and a key
  MaxTurns,   \* bound: the inbound messages and direct calls of a behaviour
  MaxCalls,   \* max_iterations: the LLM calls of one turn
  MaxTools,   \* bound: the tool calls of one turn
  MaxSubs,    \* bound: the subagents of a behaviour
  MaxSteers   \* bound: the steering messages that wait for one session

ASSUME ConstantsAreSane ==
  /\ NoChat \notin Chats
  /\ Posts \subseteq Chats \X {"ask", "command", "note", "stop"}
  /\ Calls \subseteq Chats \X Chats
  /\ {MaxTurns, MaxCalls, MaxTools, MaxSubs, MaxSteers} \subseteq Nat
  /\ MaxCalls > 0

VARIABLES
  turns,     \* every inbound message and direct call so far, in order of arrival
  inbound,   \* MessageBus.inbound: the turns not yet consumed
  halting,   \* the /stop whose cancelled tasks the loop is awaiting, 0 when none
  line,      \* the dispatch tasks of each key: the first holds the lock, the rest wait
  steering,  \* _steering_queues: how much waits for each session, NoQueue without a queue
  ctx,       \* what set_context and start_turn left in the tools
  links,     \* SessionRouter._routes: the chat that wrote to this one last
  subs       \* the subagents, in order of their start

vars == <<turns, inbound, halting, line, steering, ctx, links, subs>>

(***************************************************************************)
(* A turn.  kind is what the message asks for: an answer, a command that   *)
(* is answered without the LLM (/new, /help), a note (no_reply) that is    *)
(* only recorded, or /stop.  end says how it ended; told, whether its      *)
(* message tool wrote to its own chat; mixed, which turns were inside      *)
(* their agent loops while it was inside its own.                          *)
(***************************************************************************)
Kinds  == {"ask", "command", "note", "stop"}
Stages == {"inbound", "line", "prep", "llm", "tool", "over"}
Ends   == {"none", "replied", "quiet", "noted", "failed", "cancelled", "halted"}
Ids    == 1 .. MaxTurns

Turn == [kind : Kinds, way : {"bus", "direct"}, home : Chats, key : Chats,
         sess : Chats, stage : Stages, calls : 0 .. MaxCalls, tools : 0 .. MaxTools,
         due : BOOLEAN, doomed : BOOLEAN, end : Ends, told : BOOLEAN,
         mixed : SUBSET Ids]

Fresh(kind, way, home, key) ==
  [kind |-> kind, way |-> way, home |-> home, key |-> key, sess |-> key,
   stage |-> "inbound", calls |-> 0, tools |-> 0, due |-> FALSE,
   doomed |-> FALSE, end |-> "none", told |-> FALSE, mixed |-> {}]

\* Nothing reads the counters of a turn that has ended.
Over(turn, end) ==
  [turn EXCEPT !.stage = "over", !.end = end, !.calls = 0, !.tools = 0, !.doomed = FALSE]

NoQueue == [open |-> FALSE, waiting |-> 0]
Queue(n) == [open |-> TRUE, waiting |-> n]

Sub == [by : Ids, home : Chats, sess : Chats, running : BOOLEAN]

TypeOK ==
  /\ turns \in Seq(Turn) /\ Len(turns) <= MaxTurns
  /\ inbound \in Seq(Ids) /\ halting \in 0 .. MaxTurns
  /\ line \in [Chats -> Seq(Ids)]
  /\ steering \in [Chats -> [open : BOOLEAN, waiting : 0 .. MaxSteers]]
  /\ ctx \in [home : Chats \cup {NoChat}, sess : Chats \cup {NoChat}, sent : BOOLEAN]
  /\ links \in [Chats -> Chats \cup {NoChat}]
  /\ subs \in Seq(Sub) /\ Len(subs) <= MaxSubs

Init ==
  /\ turns = <<>> /\ inbound = <<>> /\ halting = 0
  /\ line = [c \in Chats |-> <<>>]
  /\ steering = [c \in Chats |-> NoQueue]
  /\ ctx = [home |-> NoChat, sess |-> NoChat, sent |-> FALSE]
  /\ links = [c \in Chats |-> NoChat]
  /\ subs = <<>>

-----------------------------------------------------------------------------
(* Arrivals.                                                               *)

\* A message reaches the bus and gets past its rate limit.
Post(kind, home, key) ==
  /\ Len(turns) < MaxTurns
  /\ turns' = Append(turns, Fresh(kind, "bus", home, key))
  /\ inbound' = Append(inbound, Len(turns) + 1)

Arrive(c, kind) ==
  /\ Post(kind, c, c)
  /\ UNCHANGED <<halting, line, steering, ctx, links, subs>>

\* SessionRouter.resolve: the link of a chat leads to the chat that wrote to
\* it, until the link expires.
Resolve(c, s) ==
  \/ /\ links[c] # NoChat /\ s = links[c]
     /\ links' = links
  \/ /\ s = c
     /\ links' = [links EXCEPT ![c] = NoChat]

\* process_direct: the gateway's socket, the scheduler and the command line
\* run a turn as a task of their own, outside the queue and the lock.
Direct(home, key) ==
  /\ Len(turns) < MaxTurns
  /\ \E s \in Chats :
       /\ Resolve(key, s)
       /\ turns' = Append(turns, [Fresh("ask", "direct", home, key)
                                    EXCEPT !.sess = s, !.stage = "prep"])
  /\ UNCHANGED <<inbound, halting, line, steering, ctx, subs>>

\* inject_steering_message when the session has a queue; without one it is
\* refused and nothing changes.
Steer(c) ==
  /\ steering[c].open /\ steering[c].waiting < MaxSteers
  /\ steering' = [steering EXCEPT ![c].waiting = @ + 1]
  /\ UNCHANGED <<turns, inbound, halting, line, ctx, links, subs>>

\* The gateway cancels the task of a direct turn.
CancelDirect(t) ==
  /\ turns[t].way = "direct" /\ turns[t].stage # "over" /\ ~turns[t].doomed
  /\ turns' = [turns EXCEPT ![t].doomed = TRUE]
  /\ UNCHANGED <<inbound, halting, line, steering, ctx, links, subs>>

-----------------------------------------------------------------------------
(* The loop that consumes the inbound queue.                               *)

\* run: a /stop cancels every task of its key; anything else becomes a task
\* that asks for the lock of its key.  _active_tasks[key] holds the tasks of
\* the key that have not ended, which are those in its line.
LoopTakes ==
  /\ halting = 0 /\ inbound # <<>>
  /\ inbound' = Tail(inbound)
  /\ LET t == Head(inbound)
         k == turns[t].key
     IN IF turns[t].kind = "stop"
        THEN /\ halting' = t
             /\ turns' = [u \in DOMAIN turns |->
                            IF u \in ToSet(line[k])
                            THEN [turns[u] EXCEPT !.doomed = TRUE] ELSE turns[u]]
             /\ line' = line
        ELSE /\ halting' = halting
             /\ turns' = [turns EXCEPT ![t].stage = "line"]
             /\ line' = [line EXCEPT ![k] = Append(@, t)]
  /\ UNCHANGED <<steering, ctx, links, subs>>

\* cancel_by_session: the subagents that run for session k end without a result.
Cancelled(k) ==
  [i \in DOMAIN subs |->
     IF subs[i].sess = k THEN [subs[i] EXCEPT !.running = FALSE] ELSE subs[i]]

\* Fault: the chat is told before the cancelled tasks have ended.
StopAtOnce ==
  /\ halting # 0
  /\ subs' = Cancelled(turns[halting].key)
  /\ turns' = [turns EXCEPT ![halting] = Over(@, "halted")]
  /\ halting' = 0
  /\ UNCHANGED <<inbound, line, steering, ctx, links>>

\* _handle_stop, once the cancelled tasks have ended: the subagents of the
\* session are cancelled too and the chat is told.
StopDone ==
  /\ halting # 0 /\ line[turns[halting].key] = <<>>
  /\ subs' = Cancelled(turns[halting].key)
  /\ turns' = [turns EXCEPT ![halting] = Over(@, "halted")]
  /\ halting' = 0
  /\ UNCHANGED <<inbound, line, steering, ctx, links>>

-----------------------------------------------------------------------------
(* A turn.                                                                 *)

Live(t) == t \in DOMAIN turns /\ ~turns[t].doomed
\* Fault: a task runs without the lock of its key.
AnywhereInLine(t) == turns[t].stage = "line"
AtHead(t) == turns[t].stage = "line" /\ Head(line[turns[t].key]) = t

\* The tool's result is there.
ToolReturned(t) == Live(t) /\ turns[t].stage = "tool" /\ ~turns[t].due

\* The turns inside _run_agent_loop.
InLoop == {t \in DOMAIN turns : turns[t].stage \in {"llm", "tool"}}

\* The task ends, which releases its lock or withdraws it from the line; a
\* direct call is in none.
Leave(t) ==
  LET q == line[turns[t].key]
  IN \/ t \notin ToSet(q) /\ line' = line
     \/ \E i \in DOMAIN q : /\ q[i] = t
                          /\ line' = [line EXCEPT ![turns[t].key] = RemoveAt(q, i)]

\* _dispatch gets the lock and _process_message chooses the session, then
\* awaits the consolidation of its memory.
TurnStarts(t) ==
  /\ Live(t) /\ AtHead(t) /\ turns[t].kind # "command"
  /\ \E s \in Chats :
       /\ Resolve(turns[t].key, s)
       /\ turns' = [turns EXCEPT ![t].stage = "prep", ![t].sess = s]
  /\ UNCHANGED <<inbound, halting, line, steering, ctx, subs>>

\* /new, /help, or no provider at all: an answer without the LLM.
TurnAnswersCommand(t) ==
  /\ Live(t) /\ AtHead(t) /\ turns[t].kind = "command"
  /\ \E s \in Chats :
       /\ Resolve(turns[t].key, s)
       /\ turns' = [turns EXCEPT ![t] = Over([@ EXCEPT !.sess = s], "replied")]
  /\ Leave(t)
  /\ UNCHANGED <<inbound, halting, steering, ctx, subs>>

\* Fault: start_turn is forgotten.
SetContextOnly(t) ==
  ctx' = [home |-> turns[t].home, sess |-> turns[t].sess, sent |-> ctx.sent]

\* _set_tool_context and start_turn.
SetContext(t) == ctx' = [home |-> turns[t].home, sess |-> turns[t].sess, sent |-> FALSE]

\* The rest of _process_message up to the first LLM call.
TurnEnters(t) ==
  /\ Live(t) /\ turns[t].stage = "prep" /\ turns[t].kind = "ask"
  /\ SetContext(t)
  /\ turns' = [u \in DOMAIN turns |->
                 CASE u = t       -> [turns[t] EXCEPT !.stage = "llm", !.calls = 1,
                                                      !.mixed = InLoop]
                   [] u \in InLoop -> [turns[u] EXCEPT !.mixed = @ \cup {t}]
                   [] OTHER        -> turns[u]]
  /\ steering' = [steering EXCEPT ![turns[t].sess] = Queue(0)]
  /\ UNCHANGED <<inbound, halting, line, links, subs>>

\* The same for a note, which ends once it is recorded, and for a turn whose
\* model has no provider, which is answered without a loop.
TurnIsShort(t) ==
  /\ Live(t) /\ turns[t].stage = "prep"
  /\ SetContext(t)
  /\ turns' = [u \in DOMAIN turns |->
                 CASE u = t       -> Over(turns[t], IF turns[t].kind = "note"
                                                    THEN "noted" ELSE "replied")
                   [] u \in InLoop -> [turns[u] EXCEPT !.mixed = @ \cup {t}]
                   [] OTHER        -> turns[u]]
  /\ Leave(t)
  /\ UNCHANGED <<inbound, halting, steering, links, subs>>

\* The response holds tool calls: the first one is handed to a task.
LlmCallsTools(t) ==
  /\ Live(t) /\ turns[t].stage = "llm"
  /\ turns[t].tools < MaxTools
  /\ turns' = [turns EXCEPT ![t].stage = "tool", ![t].tools = @ + 1, ![t].due = TRUE]
  /\ UNCHANGED <<inbound, halting, line, steering, ctx, links, subs>>

\* The end of _process_message and of _dispatch.  The loop's queue is
\* dropped with what it still holds; the final text is the reply, unless the
\* message tool remembers having written to the chat of its context.
Answer(t) ==
  /\ turns' = [turns EXCEPT ![t] = Over(@, IF ctx.sent THEN "quiet" ELSE "replied")]
  /\ Leave(t)

\* Fault: the queue stays.
TurnAnswersOnly(t) ==
  /\ \/ Live(t) /\ turns[t].stage = "llm"
     \/ ToolReturned(t) /\ turns[t].calls = MaxCalls
  /\ Answer(t)
  /\ UNCHANGED <<inbound, halting, steering, ctx, links, subs>>

TurnAnswers(t) ==
  /\ \/ Live(t) /\ turns[t].stage = "llm"
     \/ ToolReturned(t) /\ turns[t].calls = MaxCalls
  /\ Answer(t)
  /\ steering' = [steering EXCEPT ![turns[t].sess] = NoQueue]
  /\ UNCHANGED <<inbound, halting, ctx, links, subs>>

\* The same response holds another tool call.
NextTool(t) ==
  /\ ToolReturned(t) /\ turns[t].tools < MaxTools
  /\ turns' = [turns EXCEPT ![t].tools = @ + 1, ![t].due = TRUE]
  /\ UNCHANGED <<inbound, halting, line, steering, ctx, links, subs>>

\* It does not: the steering queue is read and the LLM called again.
NextCall(t) ==
  /\ ToolReturned(t) /\ turns[t].calls < MaxCalls
  /\ steering' = [steering EXCEPT ![turns[t].sess].waiting = 0]
  /\ turns' = [turns EXCEPT ![t].stage = "llm", ![t].calls = @ + 1]
  /\ UNCHANGED <<inbound, halting, line, ctx, links, subs>>

\* Having read it, the loop finds loop_wall_timeout exceeded.
WallTimeout(t) ==
  /\ ToolReturned(t) /\ turns[t].calls < MaxCalls
  /\ steering' = [steering EXCEPT ![turns[t].sess] = NoQueue]
  /\ Answer(t)
  /\ UNCHANGED <<inbound, halting, ctx, links, subs>>

\* An exception: _dispatch apologises, the caller of process_direct is told.
\* Nothing removes the steering queue.
TurnFails(t) ==
  /\ \/ Live(t) /\ turns[t].stage \in {"prep", "llm"}
     \/ ToolReturned(t)
  /\ turns' = [turns EXCEPT ![t] = Over(@, "failed")]
  /\ Leave(t)
  /\ UNCHANGED <<inbound, halting, steering, ctx, links, subs>>

\* Fault: the lock is kept.
TurnIsCancelledHolding(t) ==
  /\ t \in DOMAIN turns /\ turns[t].doomed /\ turns[t].stage # "over"
  /\ ~turns[t].due
  /\ turns' = [turns EXCEPT ![t] = Over(@, "cancelled")]
  /\ UNCHANGED <<inbound, halting, line, steering, ctx, links, subs>>

\* CancelledError reaches the turn.  A tool's task that has just been made
\* takes its first step before; it is shielded, so one that still runs goes on.
TurnIsCancelled(t) ==
  /\ t \in DOMAIN turns /\ turns[t].doomed /\ turns[t].stage # "over"
  /\ ~turns[t].due
  /\ turns' = [turns EXCEPT ![t] = Over(@, "cancelled")]
  /\ Leave(t)
  /\ UNCHANGED <<inbound, halting, steering, ctx, links, subs>>

-----------------------------------------------------------------------------
(* The tools.  message and spawn act in their task's first step and use    *)
(* the context they find then.                                             *)

Due(t) == t \in DOMAIN turns /\ turns[t].due

\* MessageTool.execute.  Without a target it writes to the chat of its
\* context; writing to another chat links that one to it.
ToolSendsMessage(t, c) ==
  /\ Due(t)
  /\ turns' = [turns EXCEPT ![t].due = FALSE, ![t].told = @ \/ c = turns[t].home]
  /\ IF c = ctx.home
     THEN ctx' = [ctx EXCEPT !.sent = TRUE] /\ links' = links
     ELSE ctx' = ctx /\ links' = [links EXCEPT ![c] = ctx.home]
  /\ UNCHANGED <<inbound, halting, line, steering, subs>>

\* SubagentManager.spawn.
ToolSpawns(t) ==
  /\ Due(t) /\ Len(subs) < MaxSubs
  /\ turns' = [turns EXCEPT ![t].due = FALSE]
  /\ subs' = Append(subs, [by |-> t, home |-> ctx.home, sess |-> ctx.sess,
                           running |-> TRUE])
  /\ UNCHANGED <<inbound, halting, line, steering, ctx, links>>

\* Any other tool, which returns or is given up after tool_timeout.  What it
\* does to files or to the network is outside of this module, also what it
\* still does once its turn has been cancelled.
ToolReturns(t) ==
  /\ Due(t)
  /\ turns' = [turns EXCEPT ![t].due = FALSE]
  /\ UNCHANGED <<inbound, halting, line, steering, ctx, links, subs>>

-----------------------------------------------------------------------------
(* Subagents.                                                              *)

\* _announce_result: the result comes back as a message of the session that
\* asked, unless the rate limit, shared by all subagents, drops it.
Announced(i) ==
  \/ Post("ask", subs[i].home, subs[i].sess)
  \/ UNCHANGED <<turns, inbound>>

\* _run_subagent ends by its answer, an error, its limit or its timeout.
SubEnds(i) ==
  /\ i \in DOMAIN subs /\ subs[i].running
  /\ subs' = [subs EXCEPT ![i].running = FALSE]
  /\ Announced(i)
  /\ UNCHANGED <<halting, line, steering, ctx, links>>

-----------------------------------------------------------------------------
TurnSteps(t) ==
  \/ TurnStarts(t) \/ TurnAnswersCommand(t) \/ TurnEnters(t) \/ TurnIsShort(t)
  \/ LlmCallsTools(t) \/ TurnAnswers(t) \/ NextTool(t) \/ NextCall(t)
  \/ WallTimeout(t) \/ TurnFails(t) \/ TurnIsCancelled(t)

ToolSteps(t) ==
  \/ \E c \in Chats : ToolSendsMessage(t, c)
  \/ ToolSpawns(t) \/ ToolReturns(t)

\* What users, callers and subagents may or may not do.
Outside ==
  \/ \E p \in Posts : Arrive(p[1], p[2])
  \/ \E p \in Calls : Direct(p[1], p[2])
  \/ \E c \in Chats : Steer(c)
  \/ \E t \in DOMAIN turns : CancelDirect(t)
  \/ \E i \in 1 .. MaxSubs : SubEnds(i)

\* The tasks of the event loop.
Tasks ==
  \/ LoopTakes \/ StopDone
  \/ \E t \in Ids : TurnSteps(t) \/ ToolSteps(t)

Next == Tasks \/ Outside

Spec == Init /\ [][Next]_vars

\* The event loop runs some task whenever one can go on; the calls a task
\* waits for, of the LLM and of the tools, return because they have timeouts.
FairSpec == Spec /\ WF_vars(Tasks)

-----------------------------------------------------------------------------
(* Properties.                                                             *)

\* A turn that got past its lock.
Ran(t) ==
  \/ turns[t].stage \in {"prep", "llm", "tool"}
  \/ turns[t].stage = "over" /\ turns[t].end \notin {"cancelled", "halted"}

\* The messages of one key are processed one at a time and in the order in
\* which they arrived: one gets past the lock (loop.py:660) only when every
\* earlier one has ended, whatever was cancelled, failed or routed meanwhile.
NoOvertaking ==
  \A t, u \in DOMAIN turns :
    (/\ t < u /\ Ran(u)
     /\ turns[t].way = "bus" /\ turns[u].way = "bus"
     /\ turns[t].key = turns[u].key /\ turns[t].kind # "stop")
    => turns[t].stage = "over"

\* When the chat is told that its hunts were halted (loop.py:602-620), no turn
\* whose message came before the /stop with its key is left, nor any subagent
\* that one of them started for the session of that key.
StopIsComplete ==
  \A s \in DOMAIN turns :
    turns[s].kind = "stop" /\ turns[s].stage = "over"
    => \A t \in DOMAIN turns :
         t < s /\ turns[t].way = "bus" /\ turns[t].key = turns[s].key
         => /\ turns[t].stage = "over"
            /\ \A i \in DOMAIN subs :
                 subs[i].by = t /\ subs[i].sess = turns[s].key => ~subs[i].running

\* A turn that shared its agent loop with no other and that ended well gave its
\* chat exactly one of the two: the final text as a reply, or a message of
\* its message tool in place of it (loop.py:902, message.py:41).
AnsweredAlone ==
  \A t \in DOMAIN turns :
    turns[t].end \in {"replied", "quiet"} /\ turns[t].mixed = {}
    => (turns[t].end = "replied") # turns[t].told

\* The steering queues follow the turns (loop.py:413, 563): a turn that is the
\* only one of its session has a queue for as long as its loop runs, and a
\* queue that nobody reads is one that a failed or cancelled turn left.
QueuesFollowTurns ==
  /\ \A t \in InLoop :
       (\A u \in turns[t].mixed : turns[u].sess # turns[t].sess)
       => steering[turns[t].sess].open
  /\ \A c \in Chats :
       steering[c].open
       => \E t \in DOMAIN turns :
            /\ turns[t].sess = c
            /\ t \in InLoop \/ turns[t].end \in {"failed", "cancelled"}

\* Every message that reached the bus and every direct call ends: nothing
\* waits for ever for a lock, for a /stop or for a cancelled task.
TurnsEnd ==
  \A t \in Ids : t \in DOMAIN turns ~> t \in DOMAIN turns /\ turns[t].stage = "over"

\* What message.py:42 says of start_turn ("Reset per-turn send tracking."), that
\* the tracking is the turn's own: a turn whose reply was withheld because a
\* message had been sent did send its chat one.
TrackedPerTurn ==
  \A t \in DOMAIN turns : turns[t].end = "quiet" => turns[t].told
=============================================================================
