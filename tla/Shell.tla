-------------------------------- MODULE Shell --------------------------------
(***************************************************************************)
(* The desktop program as a whole: its processes, its notification centre  *)
(* and its updater.  They share no variable, so that a behaviour is one of *)
(* the three, with the others at rest: the notices that an update causes   *)
(* belong to the updater's behaviours.                                     *)
(***************************************************************************)
EXTENDS Updates

CONSTANTS main, quit, web, Gateways, Ports, Policy, MaxAsked, MaxLeft, MaxDied

(* What module Desktop needs of its constants. *)
ASSUME DesktopAssumption ==
    /\ Policy \in {"hide", "quit"}
    /\ {MaxAsked, MaxLeft, MaxDied} \subseteq Nat
    /\ Ports # {} /\ None \notin Gateways \cup Ports
    /\ Cardinality({main, quit, web}) = 3 /\ {main, quit, web} \cap Gateways = {}

VARIABLES part, gw, proc, port, stopping, server, due, window, quitting, armed, ended,
          pc, after, held, aim, clash, used

Processes == INSTANCE Desktop

processVars == <<gw, proc, port, stopping, server, due, window, quitting, armed, ended,
                 pc, after, held, aim, clash, used>>
shellVars == <<part, updaterVars, processVars>>

Parts == {"processes", "centre", "updater"}

Init ==
    /\ part \in Parts /\ UpdatesInit /\ Processes!Init
    \* what only one part can tell apart is fixed in the others
    /\ part # "centre" => visible
    /\ part # "updater" => method = CHOOSE m \in Methods : TRUE

OfProcesses(A) == part = "processes" /\ A /\ UNCHANGED <<part, updaterVars>>

Next ==
    \/ OfProcesses(Processes!Next)
    \/ part = "centre" /\ NoticesNext /\ UNCHANGED <<part, updateVars, processVars>>
    \/ part = "updater" /\ UpdatesNext /\ UNCHANGED <<part, processVars>>

Spec == Init /\ [][Next]_shellVars

(* The quitting thread is scheduled, and the timer it arms runs out; of    *)
(* the other threads nothing is assumed, any of them may be stuck.         *)
FairSpec ==
    /\ Spec
    /\ WF_shellVars(OfProcesses(Processes!QuitCallback))
    /\ WF_shellVars(OfProcesses(Processes!ForcedExit))

OneGateway == Processes!OneGateway
NoStrayGateway == Processes!NoStrayGateway
QuitEnds == Processes!QuitEnds

=============================================================================
