------------------------------- MODULE Desktop -------------------------------
(***************************************************************************)
(* The desktop program (kageclaw/desktop): one process that keeps a window,*)
(* a tray icon, the web server in a thread of its own, and the gateway as  *)
(* a child process.  Four kinds of thread start and stop that child, with  *)
(* no lock between them:                                                   *)
(*   main   launcher.run: boots, runs the window's loop, shuts down        *)
(*   quit   DesktopController.quit_app                                     *)
(*   web    the server's event loop, where a restart or an update asked    *)
(*          for in the WebUI calls back into the runtime                   *)
(*   g      the monitor that was started when a gateway became ready       *)
(* All of them run the same two routines of DesktopRuntime: _start_gateway *)
(* (resolve, launch, poll) and _stop_gateway (look, take, term).           *)
(***************************************************************************)
EXTENDS Naturals, FiniteSets

CONSTANTS
    main, quit, web,   \* the three named threads
    Gateways,          \* gateway processes, and as many slots for monitors
    Ports,             \* ports a gateway may listen on
    None,
    Policy,            \* what the close button does: "hide" or "quit"
    MaxAsked,          \* restarts and updates asked for in the WebUI
    MaxLeft,           \* gateways that leave by themselves with code 0
    MaxDied            \* gateways that die by themselves with another code

VARIABLES
    gw,        \* state and port of every gateway process
    proc,      \* _gateway_proc
    port,      \* config.gateway.port
    stopping,  \* _stopping
    server,    \* the server's thread: "none", "up", "leaving", "off"
    due,       \* what the WebUI asked for and has not happened: a restart, an exit
    window,    \* "none", "shown", "hidden", "gone"
    quitting,  \* _quitting
    armed,     \* quit_event and force_exit_armed
    ended,     \* the process is over: "no", "left" by itself, "forced" by os._exit
    pc, after, \* where a thread is, and what it does when the gateway is stopped
    held, aim, \* its local proc, and the port it starts a gateway on
    clash,     \* ghost: two threads were in the two routines at once
    used       \* how often each bounded event has happened

runtime == <<proc, port, stopping, server, due>>
shell == <<window, quitting, armed>>
threads == <<pc, after, held, aim>>
vars == <<gw, runtime, shell, ended, threads, clash, used>>

Threads == {main, quit, web} \cup Gateways
Gone == {"left", "dead"}
Live == {g \in Gateways : gw[g].state \in {"booting", "up"}}
Listens(q) == \E g \in Gateways : gw[g] = [state |-> "up", port |-> q]
Running == ended = "no"

Init ==
    /\ gw = [g \in Gateways |-> [state |-> "none", port |-> None]]
    /\ proc = None /\ port = (CHOOSE q \in Ports : TRUE) /\ stopping = FALSE
    /\ server = "none" /\ due = "nothing"
    /\ window = "none" /\ quitting = FALSE /\ armed = FALSE
    /\ ended = "no"
    /\ pc = [t \in Threads |-> IF t = main THEN "resolve" ELSE "idle"]
    /\ after = [t \in Threads |-> "rest"]
    /\ held = [t \in Threads |-> None] /\ aim = [t \in Threads |-> None]
    /\ clash = FALSE
    /\ used = [asked |-> 0, left |-> 0, died |-> 0]

At(t, where) == Running /\ pc[t] = where
Goes(t, where) == pc' = [pc EXCEPT ![t] = where]

(* The bound of the events from outside: so many of a kind, and none after *)
(* a clash, of which nothing is claimed but that the program can be quit.  *)
Counts(what, bound) == ~clash /\ used[what] < bound /\ used' = [used EXCEPT ![what] = @ + 1]

(* An exception: it ends the process when it leaves the main thread, it is *)
(* logged or dropped in all the others.                                    *)
Fails(t) ==
    /\ Goes(t, "idle")
    /\ ended' = IF t = main THEN "left" ELSE ended

(***************************************************************************)
(* _start_gateway                                                          *)
(***************************************************************************)
(* The configured port if it is free, else another one, which becomes the  *)
(* configured one (_resolve_gateway_ports: it waits 1.5 seconds for it).   *)
Resolve(t) ==
    /\ At(t, "resolve")
    /\ \E q \in Ports :
        /\ ~Listens(q)
        /\ ~Listens(port) => q = port
        /\ port' = q /\ aim' = [aim EXCEPT ![t] = q]
    /\ Goes(t, "launch")
    /\ UNCHANGED <<gw, proc, stopping, server, due, shell, ended, after, held, clash, used>>

Launch(t) ==
    LET fresh == {g \in Gateways : gw[g].state = "none"} IN
    /\ At(t, "launch") /\ fresh # {}
    /\ LET g == CHOOSE g \in fresh : TRUE IN
        /\ gw' = [gw EXCEPT ![g] = [state |-> "booting", port |-> aim[t]]]
        /\ proc' = g
    /\ Goes(t, "poll")
    /\ UNCHANGED <<port, stopping, server, due, shell, ended, after, held, aim, clash, used>>

(* One round of the loop reads _gateway_proc anew: another thread may have *)
(* cleared or replaced it.                                                 *)
PollFails(t) ==
    /\ At(t, "poll")
    /\ proc # None => gw[proc].state \in Gone
    /\ proc' = None /\ aim' = [aim EXCEPT ![t] = None]
    /\ Fails(t)
    /\ UNCHANGED <<gw, port, stopping, server, due, shell, after, held, clash, used>>

(* Any gateway that answers on the port will do.  The monitor is a thread  *)
(* that has still to read _gateway_proc; main goes on to start the server. *)
(* A slot for it is always free: each monitor stands for one launch.       *)
PollSucceeds(t) ==
    LET free == {g \in Gateways : pc[g] = "idle"} IN
    /\ At(t, "poll") /\ free # {}
    /\ proc # None /\ gw[proc].state \notin Gone /\ Listens(aim[t])
    /\ LET slot == CHOOSE g \in free : TRUE IN
       pc' = [pc EXCEPT ![t] = IF t = main THEN "serve" ELSE "idle", ![slot] = "attach"]
    /\ aim' = [aim EXCEPT ![t] = None]
    /\ UNCHANGED <<gw, runtime, shell, ended, after, held, clash, used>>

(* 45 seconds without an answer. *)
PollGivesUp(t) ==
    /\ At(t, "poll")
    /\ proc # None /\ gw[proc].state \notin Gone /\ ~Listens(aim[t])
    /\ Goes(t, "look") /\ after' = [after EXCEPT ![t] = "raise"]
    /\ aim' = [aim EXCEPT ![t] = None]
    /\ UNCHANGED <<gw, runtime, shell, ended, held, clash, used>>

(***************************************************************************)
(* _stop_gateway                                                           *)
(***************************************************************************)
Stopped(t) ==
    CASE after[t] = "start" -> Goes(t, "resolve") /\ UNCHANGED ended
      [] after[t] = "raise" -> Fails(t)
      [] after[t] = "exit"  -> Goes(t, "idle") /\ ended' = "left"
      [] OTHER              -> Goes(t, "idle") /\ UNCHANGED ended

StopLooks(t) ==
    /\ At(t, "look")
    /\ IF proc = None THEN Stopped(t) ELSE Goes(t, "take") /\ UNCHANGED ended
    /\ UNCHANGED <<gw, runtime, shell, after, held, aim, clash, used>>

(* Another thread may have taken it since: proc.pid of None raises. *)
StopTakes(t) ==
    /\ At(t, "take")
    /\ held' = [held EXCEPT ![t] = proc] /\ proc' = None
    /\ IF proc = None THEN Fails(t) ELSE Goes(t, "term") /\ UNCHANGED ended
    /\ UNCHANGED <<gw, port, stopping, server, due, shell, after, aim, clash, used>>

(* terminate, and after five seconds kill: it is gone, with a code that is *)
(* not 0 unless it had left before.                                        *)
Terminates(t) ==
    /\ At(t, "term")
    /\ gw' = [gw EXCEPT ![held[t]].state = IF @ \in Gone THEN @ ELSE "dead"]
    /\ held' = [held EXCEPT ![t] = None]
    /\ Stopped(t)
    /\ UNCHANGED <<runtime, shell, after, aim, clash, used>>

(***************************************************************************)
(* The gateway's own life.                                                 *)
(***************************************************************************)
GatewayBinds(g) ==
    /\ Running /\ gw[g].state = "booting"
    /\ gw' = [gw EXCEPT ![g].state = IF Listens(gw[g].port) THEN "dead" ELSE "up"]
    /\ UNCHANGED <<runtime, shell, ended, threads, clash, used>>

(* A restart asked for in a chat or by POST /restart: with kageCLAW_SILENT *)
(* the gateway leaves with code 0.  It clashes with a stop under way that  *)
(* has not set _stopping: its monitor will start another one as well.      *)
GatewayLeaves(g) ==
    /\ Running /\ gw[g].state = "up" /\ Counts("left", MaxLeft)
    /\ gw' = [gw EXCEPT ![g].state = "left"]
    /\ clash' = (clash \/ (~stopping /\ \E t \in Threads : pc[t] \in {"look", "take", "term"}))
    /\ UNCHANGED <<runtime, shell, ended, threads>>

GatewayDies(g) ==
    /\ Running /\ g \in Live /\ Counts("died", MaxDied)
    /\ gw' = [gw EXCEPT ![g].state = "dead"]
    /\ UNCHANGED <<runtime, shell, ended, threads, clash>>

(***************************************************************************)
(* The monitor of a gateway (_start_gateway_monitor).                      *)
(***************************************************************************)
MonitorAttaches(m) ==
    /\ At(m, "attach")
    /\ held' = [held EXCEPT ![m] = proc]
    /\ Goes(m, IF proc = None THEN "idle" ELSE "watch")
    /\ UNCHANGED <<gw, runtime, shell, ended, after, aim, clash, used>>

\* Mutant of MonitorWakes: whatever the exit code.
MonitorWakesAnyCode(m) ==
    /\ At(m, "watch") /\ gw[held[m]].state \in Gone
    /\ Goes(m, IF ~stopping THEN "resolve" ELSE "idle")
    /\ held' = [held EXCEPT ![m] = None]
    /\ UNCHANGED <<gw, runtime, shell, ended, after, aim, clash, used>>

MonitorWakes(m) ==
    /\ At(m, "watch") /\ gw[held[m]].state \in Gone
    /\ Goes(m, IF ~stopping /\ gw[held[m]].state = "left" THEN "resolve" ELSE "idle")
    /\ held' = [held EXCEPT ![m] = None]
    /\ UNCHANGED <<gw, runtime, shell, ended, after, aim, clash, used>>

(***************************************************************************)
(* The runtime's server, and what the WebUI asks of the runtime through    *)
(* the callbacks that _start_server registers (webui/routers/system.py).   *)
(***************************************************************************)
ServerStarts ==
    /\ At(main, "serve")
    /\ server' = "up" /\ Goes(main, "ready")
    /\ UNCHANGED <<gw, proc, port, stopping, due, shell, ended, after, held, aim, clash, used>>

(* A restart, or an update that was installed: by pip, which restarts only *)
(* the gateway, or by the installer of the packaged build, which needs the *)
(* whole process gone.  It is done half a second or a second later.        *)
Asked ==
    /\ Running /\ server = "up" /\ due = "nothing" /\ Counts("asked", MaxAsked)
    /\ due' \in {"restart", "exit"}
    /\ UNCHANGED <<gw, proc, port, stopping, server, shell, ended, threads, clash>>

(* The callback blocks the event loop until it is through.  Nothing keeps  *)
(* it from a monitor that is relaunching the gateway, nor from a program   *)
(* that is stopping.                                                       *)
CallsBack ==
    /\ At(web, "idle") /\ due # "nothing" /\ server \in {"up", "leaving"}
    /\ after' = [after EXCEPT ![web] = IF due = "restart" THEN "start" ELSE "exit"]
    /\ due' = "nothing" /\ Goes(web, "look")
    /\ clash' = (clash \/ stopping \/ (proc # None /\ gw[proc].state = "left")
                       \/ \E m \in Gateways : pc[m] \notin {"idle", "watch"})
    /\ UNCHANGED <<gw, proc, port, stopping, server, shell, ended, held, aim, used>>

(* uvicorn waits for its requests; the loop is not blocked by a callback. *)
ServerEnds ==
    /\ Running /\ server = "leaving" /\ pc[web] = "idle"
    /\ server' = "off"
    /\ UNCHANGED <<gw, proc, port, stopping, due, shell, ended, threads, clash, used>>

(***************************************************************************)
(* DesktopRuntime.stop                                                     *)
(***************************************************************************)
StartsGateway(t) ==
    \/ pc[t] \in {"resolve", "launch"}
    \/ pc[t] \in {"look", "take", "term"} /\ after[t] = "start"

\* Mutant of StopRuntime: without the flag.
StopRuntimeSilently(t) ==
    /\ stopping' = stopping
    /\ server' = IF server = "up" THEN "leaving" ELSE server
    /\ clash' = (clash \/ \E x \in Threads : StartsGateway(x))
    /\ Goes(t, "join")

(* It clashes with a start that is past its check of _stopping, or has     *)
(* none, and has not put its process into _gateway_proc yet.               *)
StopRuntime(t) ==
    /\ stopping' = TRUE
    /\ server' = IF server = "up" THEN "leaving" ELSE server
    /\ clash' = (clash \/ \E x \in Threads : StartsGateway(x))
    /\ Goes(t, "join")

(* The server's thread is joined, for eight seconds at most. *)
Joins(t) ==
    /\ At(t, "join") /\ server \in {"leaving", "off"}
    /\ Goes(t, "look")
    /\ after' = [after EXCEPT ![t] = IF t = main THEN "exit" ELSE "rest"]
    /\ UNCHANGED <<gw, runtime, shell, ended, held, aim, clash, used>>

(***************************************************************************)
(* launcher.run, from wait_ready on: the window's loop and its events.     *)
(***************************************************************************)
WindowOpens ==
    /\ At(main, "ready")
    /\ Goes(main, "window") /\ window' \in {"shown", "hidden"}
    /\ UNCHANGED <<gw, runtime, quitting, armed, ended, after, held, aim, clash, used>>

ServerNotReady ==
    /\ At(main, "ready") /\ StopRuntime(main)
    /\ UNCHANGED <<gw, proc, port, due, shell, ended, after, held, aim, used>>

QuitApp ==
    /\ IF quitting THEN UNCHANGED <<quitting, pc>> ELSE quitting' = TRUE /\ Goes(quit, "callback")
    /\ UNCHANGED window

(* The close button: _on_closing lets the window go only once the program  *)
(* is quitting.                                                            *)
Close ==
    /\ At(main, "window") /\ window = "shown"
    /\ IF armed THEN window' = "gone" /\ UNCHANGED <<quitting, pc>>
       ELSE IF Policy = "hide" THEN window' = "hidden" /\ UNCHANGED <<quitting, pc>>
       ELSE QuitApp
    /\ UNCHANGED <<gw, runtime, armed, ended, after, held, aim, clash, used>>

TrayOpens ==
    /\ At(main, "window") /\ window = "hidden" /\ window' = "shown"
    /\ UNCHANGED <<gw, runtime, quitting, armed, ended, threads, clash, used>>

TrayQuits ==
    /\ At(main, "window") /\ ~quitting /\ QuitApp
    /\ UNCHANGED <<gw, runtime, armed, ended, after, held, aim, clash, used>>

(* _quit_callback: the timer of the forced exit is armed before the window *)
(* is destroyed, which may fail.                                           *)
QuitCallback ==
    /\ At(quit, "callback")
    /\ armed' = TRUE /\ Goes(quit, "destroy")
    /\ UNCHANGED <<gw, runtime, window, quitting, ended, after, held, aim, clash, used>>

Destroy ==
    /\ At(quit, "destroy")
    /\ window' \in {"gone", window}
    /\ StopRuntime(quit)
    /\ UNCHANGED <<gw, proc, port, due, quitting, armed, ended, after, held, aim, used>>

(* webview.start returns: the tray is stopped and, whatever comes of it,   *)
(* the runtime.                                                            *)
LoopEnds ==
    /\ At(main, "window") /\ window = "gone"
    /\ StopRuntime(main)
    /\ UNCHANGED <<gw, proc, port, due, shell, ended, after, held, aim, used>>

\* Mutant of ForcedExit: the timer is armed once the window is gone.
ForcedExitWithoutWindow ==
    /\ Running /\ armed /\ window = "gone" /\ ended' = "forced"
    /\ UNCHANGED <<gw, runtime, shell, threads, clash, used>>

(* Three seconds after the quit, unless main has come to its end. *)
ForcedExit ==
    /\ Running /\ armed /\ ended' = "forced"
    /\ UNCHANGED <<gw, runtime, shell, threads, clash, used>>

-----------------------------------------------------------------------------
Step(t) ==
    \/ Resolve(t) \/ Launch(t) \/ PollFails(t) \/ PollSucceeds(t) \/ PollGivesUp(t)
    \/ StopLooks(t) \/ StopTakes(t) \/ Terminates(t)

Program ==
    \/ \E t \in Threads : Step(t)
    \/ \E t \in {main, quit} : Joins(t)
    \/ \E m \in Gateways : MonitorAttaches(m) \/ MonitorWakes(m)
    \/ ServerStarts \/ CallsBack \/ ServerEnds
    \/ WindowOpens \/ ServerNotReady \/ LoopEnds \/ QuitCallback \/ Destroy \/ ForcedExit

User == Close \/ TrayOpens \/ TrayQuits \/ Asked

Children == \E g \in Gateways : GatewayBinds(g) \/ GatewayLeaves(g) \/ GatewayDies(g)

Next == Program \/ User \/ Children

Spec == Init /\ [][Next]_vars

-----------------------------------------------------------------------------
Holds(t, g) == pc[t] = "term" /\ held[t] = g

(* While the program runs there is one gateway at most, and _gateway_proc  *)
(* or the thread that is about to terminate it knows it, whatever was      *)
(* restarted, relaunched, given up or died, unless two threads met in the  *)
(* two routines (runtime.py:94-99, 159-240, 302-342).                      *)
OneGateway ==
    ~clash => /\ Cardinality(Live) <= 1
              /\ \A g \in Live : g = proc \/ \E t \in Threads : Holds(t, g)

(* When the program has come to its end by itself, no gateway is left, not *)
(* even one that asked for a restart at that moment: at most one whose     *)
(* termination is the quitting thread's next call (runtime.py:79-83,       *)
(* 324-338, launcher.py:271-276).                                          *)
NoStrayGateway ==
    ended = "left" /\ ~clash => \A g \in Live : \E t \in Threads : Holds(t, g)

(* Whatever the server, the window and the gateway do, a program that was  *)
(* told to quit ends (launcher.py:127-153).                                *)
QuitEnds == quitting ~> ~Running

=============================================================================
