---------------------------- MODULE ShellProofs ----------------------------
(* What holds of the desktop program for every number of gateways, ports,  *)
(* checkers, tries and notices.                                            *)
EXTENDS Shell, FiniteSetTheorems, TLAPS

-----------------------------------------------------------------------------
(* The threads of the desktop program.                                     *)

Threads == Processes!Threads
Live == Processes!Live

Places ==
    {"idle", "resolve", "launch", "poll", "serve", "ready", "window", "join", "look",
     "take", "term", "callback", "destroy", "attach", "watch"}
Lives == {"none", "booting", "up", "left", "dead"}

Flags == stopping \in BOOLEAN /\ quitting \in BOOLEAN /\ clash \in BOOLEAN

ThreadTypes ==
    /\ gw \in [Gateways -> [state : Lives, port : Ports \cup {None}]]
    /\ proc \in Gateways \cup {None}
    /\ server \in {"none", "up", "leaving", "off"}
    /\ ended \in {"no", "left", "forced"}
    /\ pc \in [Threads -> Places]
    /\ after \in [Threads -> {"rest", "raise", "start", "exit"}]
    /\ held \in [Threads -> Gateways \cup {None}]
    /\ aim \in [Threads -> Ports \cup {None}]
    /\ port \in Ports
    /\ proc # None => gw[proc].state # "none"

\* A thread between its first look at the gateway and its last.
Engaged == {"resolve", "launch", "poll", "look", "take", "term"}
In(t) == pc[t] \in Engaged
Watches(m) == pc[m] = "watch"

\* Which thread may be where.
Lanes ==
    /\ stopping \/ pc[quit] \in {"idle", "callback", "destroy"}
    /\ quitting \/ pc[quit] = "idle"
    /\ stopping \/ server = "none" \/ pc[main] \in {"ready", "window"}
    /\ \A m \in Gateways : Watches(m) => held[m] \in Gateways /\ gw[held[m]].state # "none"
    /\ \A t \in Threads : pc[t] = "term" => held[t] \in Gateways
    /\ stopping \/ \A t \in Threads : pc[t] # "join"

\* A gateway that runs is known, there is one, and who starts another has
\* seen the last one off.
Known ==
    /\ \A g \in Live : g = proc \/ \E t \in Threads : Processes!Holds(t, g)
    /\ \A g, h \in Live : g = h
    /\ \A t \in Threads : pc[t] \in {"resolve", "launch"} => Live = {}
    /\ \A t \in Threads : pc[t] = "term" => proc = None
    /\ stopping => \A t \in Threads : ~Processes!StartsGateway(t)
    /\ ended = "left" => proc = None

\* Until the program stops one thread at a time is at the gateway, and a
\* monitor that is to wake has it for itself.
Turns ==
    stopping \/
    /\ \A s, t \in Threads : In(s) /\ In(t) => s = t
    /\ \A m \in Gateways : Watches(m) /\ gw[held[m]].state = "left" =>
            proc = held[m] /\ \A t \in Threads : ~In(t)
    /\ \A m, n \in Gateways : Watches(m) /\ Watches(n) /\ held[m] = held[n] => m = n
    /\ \A t \in Threads, m \in Gateways : pc[t] = "poll" /\ Watches(m) => held[m] \notin Live
    /\ \A m \in Gateways : pc[m] = "attach" =>
            /\ \A t \in Threads : ~In(t)
            /\ \A n \in Gateways : Watches(n) => held[n] # proc
            /\ \A n \in Gateways : pc[n] = "attach" => n = m

Guarded == clash \/ (Known /\ Turns)
Threaded == ThreadTypes /\ Flags /\ Lanes /\ Guarded

-----------------------------------------------------------------------------
(* The three named threads are three.                                      *)
LEMMA ThreeThreads ==
    /\ main # quit /\ main # web /\ quit # web
    /\ main \notin Gateways /\ quit \notin Gateways /\ web \notin Gateways
    /\ None \notin Gateways /\ None \notin Ports
<1>1. \A a, b \in {main, quit, web} : Cardinality({a, b}) <= 2 /\ IsFiniteSet({a, b})
  <2>1. ASSUME NEW a, NEW b PROVE Cardinality({a, b}) <= 2
    <3>1. IsFiniteSet({a}) /\ Cardinality({a}) = 1
      BY FS_Singleton
    <3>2. Cardinality({a} \cup {b}) \in {1, 2}
      BY <3>1, FS_AddElement
    <3>3. {a} \cup {b} = {a, b}
      OBVIOUS
    <3>4. QED  BY <3>2, <3>3
  <2>2. ASSUME NEW a, NEW b PROVE IsFiniteSet({a, b})
    <3>1. IsFiniteSet({a} \cup {b})
      BY FS_Singleton, FS_AddElement
    <3>2. {a} \cup {b} = {a, b}
      OBVIOUS
    <3>3. QED  BY <3>1, <3>2
  <2>3. QED  BY <2>1, <2>2
<1>2. Cardinality({main, quit, web}) = 3
  BY DesktopAssumption
<1>3. ASSUME main = quit PROVE FALSE
  <2>1. {main, quit, web} = {main, web}
    BY <1>3
  <2>2. QED  BY <1>1, <1>2, <2>1
<1>4. ASSUME main = web PROVE FALSE
  <2>1. {main, quit, web} = {main, quit}
    BY <1>4
  <2>2. QED  BY <1>1, <1>2, <2>1
<1>5. ASSUME quit = web PROVE FALSE
  <2>1. {main, quit, web} = {main, quit}
    BY <1>5
  <2>2. QED  BY <1>1, <1>2, <2>1
<1>6. QED  BY <1>3, <1>4, <1>5, DesktopAssumption

LEMMA SomeThreads ==
    Gateways \subseteq Threads /\ main \in Threads /\ quit \in Threads /\ web \in Threads
  BY DEF Threads, Processes!Threads

\* A thread goes from one place to another and the others stay.
Moves(t, where) == \A x \in Threads : pc'[x] = IF x = t THEN where ELSE pc[x]

LEMMA GoesMoves ==
    ASSUME ThreadTypes, NEW t, NEW where \in Places, Processes!Goes(t, where)
    PROVE  Moves(t, where) /\ pc' \in [Threads -> Places]
  BY DEF ThreadTypes, Processes!Goes, Moves

\* Places away from the gateway.
Away == {"idle", "serve", "ready", "window", "join", "callback", "destroy"}

Strolls == \A x \in Threads : pc'[x] = pc[x] \/ (pc[x] \in Away /\ pc'[x] \in Away)

LEMMA StrollsKeeps ==
    ASSUME Threaded, Strolls, UNCHANGED <<gw, proc, stopping, after, held, clash>>,
           ended' = "left" => ended = "left"
    PROVE  Guarded'
<1>1. Live' = Live
  BY DEF Live, Processes!Live
<1>2. \A x \in Threads : /\ \A g \in Gateways : Processes!Holds(x, g)' <=> Processes!Holds(x, g)
                         /\ Processes!StartsGateway(x)' <=> Processes!StartsGateway(x)
                         /\ In(x)' <=> In(x)
                         /\ Watches(x)' <=> Watches(x)
                         /\ \A p \in Engaged \cup {"attach"} : pc'[x] = p <=> pc[x] = p
  BY DEF Strolls, Away, Processes!Holds, Processes!StartsGateway, In, Engaged, Watches
<1>3. ASSUME ~clash, Known PROVE Known'
  BY <1>1, <1>2, <1>3 DEF Known, Engaged, Live, Processes!Live
<1>4. ASSUME ~clash, Turns PROVE Turns'
  BY <1>1, <1>2, <1>4, SomeThreads DEF Turns, Engaged
<1>5. QED  BY <1>3, <1>4 DEF Threaded, Guarded

\* The program begins to stop.
LEMMA StoppingKeeps ==
    ASSUME Threaded, Strolls, UNCHANGED <<gw, proc, after, held, ended>>, stopping' = TRUE,
           clash' = (clash \/ \E x \in Threads : Processes!StartsGateway(x))
    PROVE  Guarded'
<1>1. Live' = Live
  BY DEF Live, Processes!Live
<1>2. \A x \in Threads : /\ \A g \in Gateways : Processes!Holds(x, g)' <=> Processes!Holds(x, g)
                         /\ Processes!StartsGateway(x)' <=> Processes!StartsGateway(x)
                         /\ \A p \in Engaged \cup {"attach"} : pc'[x] = p <=> pc[x] = p
  BY DEF Strolls, Away, Processes!Holds, Processes!StartsGateway, In, Engaged
<1>3. ASSUME ~clash', ~clash, Known PROVE Known'
  BY <1>1, <1>2, <1>3 DEF Known, Engaged, Live, Processes!Live
<1>4. Turns'
  BY DEF Turns
<1>5. QED  BY <1>3, <1>4 DEF Threaded, Guarded

LEMMA ResolveKeeps ==
    ASSUME Threaded, NEW t \in Threads, Processes!Resolve(t)
    PROVE  Threaded'
<1> USE DEF Processes!Resolve, Processes!At, Processes!Goes, Processes!Running,
   Processes!shell, Processes!runtime, Processes!threads
<1>1. Moves(t, "launch") /\ pc' \in [Threads -> Places]
  BY GoesMoves DEF Threaded, Places
<1>2. pc[t] = "resolve" /\ port' \in Ports /\ aim' \in [Threads -> Ports \cup {None}]
  BY DEF Threaded, ThreadTypes
<1>3. ThreadTypes'
  BY <1>1, <1>2 DEF Threaded, ThreadTypes
<1>4. Flags'
  BY DEF Threaded, Flags
<1>5. Lanes'
  BY <1>1, <1>2, SomeThreads, ThreeThreads DEF Threaded, ThreadTypes, Lanes, Watches, Moves
<1>6. ASSUME ~clash', Known, Turns PROVE Known'
  BY <1>1, <1>2, <1>6, SomeThreads DEF Threaded, ThreadTypes, Known, Turns, Live,
     Processes!Live, Processes!Holds, Processes!StartsGateway, In, Engaged, Watches, Moves
<1>7. ASSUME ~clash', Known, Turns PROVE Turns'
  BY <1>1, <1>2, <1>7, SomeThreads DEF Threaded, ThreadTypes, Lanes, Known, Turns, Live,
     Processes!Live, Processes!Holds, Processes!StartsGateway, In, Engaged, Watches, Moves
<1>8. QED  BY <1>1, <1>3, <1>4, <1>5, <1>6, <1>7 DEF Threaded, Guarded

LEMMA PollFailsKeeps ==
    ASSUME Threaded, NEW t \in Threads, Processes!PollFails(t)
    PROVE  Threaded'
<1> USE DEF Processes!PollFails, Processes!Fails, Processes!Gone, Processes!At,
   Processes!Goes, Processes!Running, Processes!shell, Processes!runtime, Processes!threads
<1>1. Moves(t, "idle") /\ pc' \in [Threads -> Places]
  BY GoesMoves DEF Threaded, Places
<1>2. pc[t] = "poll" /\ aim' \in [Threads -> Ports \cup {None}] /\ ended' \in {ended, "left"}
  BY DEF Threaded, ThreadTypes
<1>3. ThreadTypes'
  BY <1>1, <1>2 DEF Threaded, ThreadTypes
<1>4. Flags'
  BY DEF Threaded, Flags
<1>5. Lanes'
  BY <1>1, <1>2, SomeThreads, ThreeThreads DEF Threaded, ThreadTypes, Lanes, Watches, Moves
<1>6. ASSUME ~clash', Known, Turns PROVE Known'
  BY <1>1, <1>2, <1>6, SomeThreads DEF Threaded, ThreadTypes, Known, Turns, Live,
     Processes!Live, Processes!Holds, Processes!StartsGateway, In, Engaged, Watches, Moves
<1>7. ASSUME ~clash', Known, Turns PROVE Turns'
  BY <1>1, <1>2, <1>7, SomeThreads DEF Threaded, ThreadTypes, Lanes, Known, Turns, Live,
     Processes!Live, Processes!Holds, Processes!StartsGateway, In, Engaged, Watches, Moves
<1>8. QED  BY <1>1, <1>3, <1>4, <1>5, <1>6, <1>7 DEF Threaded, Guarded

LEMMA PollGivesUpKeeps ==
    ASSUME Threaded, NEW t \in Threads, Processes!PollGivesUp(t)
    PROVE  Threaded'
<1> USE DEF Processes!PollGivesUp, Processes!At, Processes!Goes, Processes!Running,
   Processes!shell, Processes!runtime, Processes!threads
<1>1. Moves(t, "look") /\ pc' \in [Threads -> Places]
  BY GoesMoves DEF Threaded, Places
<1>2. pc[t] = "poll" /\ aim' \in [Threads -> Ports \cup {None}]
  BY DEF Threaded, ThreadTypes
<1>3. after' \in [Threads -> {"rest", "raise", "start", "exit"}]
      /\ \A x \in Threads : after'[x] = IF x = t THEN "raise" ELSE after[x]
  BY DEF Threaded, ThreadTypes
<1>4. ThreadTypes'
  BY <1>1, <1>2, <1>3 DEF Threaded, ThreadTypes
<1>5. Flags'
  BY DEF Threaded, Flags
<1>6. Lanes'
  BY <1>1, <1>2, <1>3, SomeThreads, ThreeThreads DEF Threaded, ThreadTypes, Lanes, Watches,
     Moves
<1>7. ASSUME ~clash', Known, Turns PROVE Known'
  BY <1>1, <1>2, <1>3, <1>7, SomeThreads DEF Threaded, ThreadTypes, Known, Turns, Live,
     Processes!Live, Processes!Holds, Processes!StartsGateway, In, Engaged, Watches, Moves
<1>8. ASSUME ~clash', Known, Turns PROVE Turns'
  BY <1>1, <1>2, <1>3, <1>8, SomeThreads DEF Threaded, ThreadTypes, Lanes, Known, Turns,
     Live, Processes!Live, Processes!Holds, Processes!StartsGateway, In, Engaged, Watches, Moves
<1>9. QED  BY <1>1, <1>4, <1>5, <1>6, <1>7, <1>8 DEF Threaded, Guarded

\* A gateway that is launched has not run before.
LEMMA LaunchIs ==
    ASSUME NEW t, Processes!Launch(t)
    PROVE  \E g \in Gateways :
              /\ gw[g].state = "none"
              /\ gw' = [gw EXCEPT ![g] = [state |-> "booting", port |-> aim[t]]]
              /\ proc' = g
<1> DEFINE fresh == {g \in Gateways : gw[g].state = "none"}
           g == CHOOSE g \in fresh : TRUE
<1>1. g \in fresh
  BY DEF Processes!Launch
<1>2. QED  BY <1>1 DEF Processes!Launch

LEMMA LaunchKeeps ==
    ASSUME Threaded, NEW t \in Threads, Processes!Launch(t), NEW g \in Gateways,
           gw[g].state = "none", proc' = g,
           gw' = [gw EXCEPT ![g] = [state |-> "booting", port |-> aim[t]]]
    PROVE  Threaded'
<1> USE DEF Processes!Launch, Processes!At, Processes!Goes, Processes!Running,
   Processes!shell, Processes!runtime, Processes!threads
<1>1. Moves(t, "poll") /\ pc' \in [Threads -> Places]
  BY GoesMoves DEF Threaded, Places
<1>2. pc[t] = "launch"
  BY DEF Threaded, ThreadTypes
<1>3. aim' \in [Threads -> Ports \cup {None}]
  BY DEF Threaded, ThreadTypes
<1>4. [state |-> "booting", port |-> aim[t]] \in [state : Lives, port : Ports \cup {None}]
  BY DEF Threaded, ThreadTypes, Lives
<1>5. gw' \in [Gateways -> [state : Lives, port : Ports \cup {None}]]
  BY <1>4 DEF Threaded, ThreadTypes
<1>6. \A h \in Gateways : gw'[h].state = IF h = g THEN "booting" ELSE gw[h].state
  <2> DEFINE new == [state |-> "booting", port |-> aim[t]]
  <2>1. /\ gw \in [Gateways -> [state : Lives, port : Ports \cup {None}]]
        /\ gw' = [gw EXCEPT ![g] = new] /\ new.state = "booting"
    BY DEF Threaded, ThreadTypes
  <2> HIDE DEF new
  <2>2. QED  BY <2>1
<1>7. ThreadTypes'
  BY <1>1, <1>2, <1>3, <1>4, <1>5, <1>6 DEF Threaded, ThreadTypes
<1>8. Flags'
  BY DEF Threaded, Flags
<1>9. Lanes'
  BY <1>1, <1>2, <1>3, <1>4, <1>5, <1>6, SomeThreads, ThreeThreads DEF Threaded, ThreadTypes,
     Lanes, Watches, Moves
<1>10. ASSUME ~clash', Known, Turns PROVE Known'
  <2>1. Live = {} /\ ~stopping
    BY <1>2, <1>10 DEF Known, Processes!StartsGateway
  <2>2. Live' = {g}
    BY <1>6, <2>1 DEF Live, Processes!Live
  <2>3. \A x \in Threads : In(x) => x = t
    BY <1>2, <1>10, <2>1 DEF Turns, In, Engaged
  <2>4. \A x \in Threads : pc'[x] \notin {"resolve", "launch", "term"}
    BY <1>1, <2>3 DEF In, Engaged, Moves
  <2>5. QED  BY <1>2, <1>10, <2>1, <2>2, <2>4 DEF Known
<1>11. ASSUME ~clash', Known, Turns PROVE Turns'
  BY <1>1, <1>2, <1>3, <1>4, <1>5, <1>6, <1>11, SomeThreads DEF Threaded, ThreadTypes, Lanes,
     Known, Turns, Live, Processes!Live, Processes!Holds, Processes!StartsGateway, In, Engaged,
     Watches, Moves
<1>12. QED  BY <1>1, <1>7, <1>8, <1>9, <1>10, <1>11 DEF Threaded, Guarded

\* The slot of a monitor that starts.
LEMMA SlotIs ==
    ASSUME Threaded, NEW t \in Threads, Processes!PollSucceeds(t)
    PROVE  \E m \in Gateways :
              /\ pc[m] = "idle"
              /\ pc' \in [Threads -> Places]
              /\ \A x \in Threads : pc'[x] = IF x = m THEN "attach" ELSE
                                           IF x # t THEN pc[x] ELSE
                                           IF t = main THEN "serve" ELSE "idle"
<1> DEFINE free == {g \in Gateways : pc[g] = "idle"}
           m == CHOOSE g \in free : TRUE
<1>1. m \in free
  BY DEF Processes!PollSucceeds
<1>2. pc' = [pc EXCEPT ![t] = IF t = main THEN "serve" ELSE "idle", ![m] = "attach"]
  BY DEF Processes!PollSucceeds
<1> HIDE DEF m
<1>3. pc \in [Threads -> Places] /\ m \in Gateways /\ m \in Threads /\ pc[m] = "idle"
  BY <1>1, SomeThreads DEF Threaded, ThreadTypes
<1>4. QED  BY <1>2, <1>3 DEF Places

LEMMA PollSucceedsKeeps ==
    ASSUME Threaded, NEW t \in Threads, Processes!PollSucceeds(t), NEW m \in Gateways,
           pc[m] = "idle", pc' \in [Threads -> Places],
           \A x \in Threads : pc'[x] = IF x = m THEN "attach" ELSE
                                      IF x # t THEN pc[x] ELSE
                                      IF t = main THEN "serve" ELSE "idle"
    PROVE  Threaded'
<1> USE DEF Processes!PollSucceeds, Processes!Gone, Processes!At, Processes!Goes,
   Processes!Running, Processes!shell, Processes!runtime, Processes!threads
<1>1. /\ pc[t] = "poll" /\ proc \in Gateways /\ proc \in Live
      /\ UNCHANGED <<gw, proc, stopping, held, after, clash, ended, port, server, quitting>>
      /\ aim' \in [Threads -> Ports \cup {None}]
  BY DEF Threaded, ThreadTypes, Live, Processes!Live, Lives
<1>2. ThreadTypes'
  BY <1>1 DEF Threaded, ThreadTypes
<1>3. Flags'
  BY DEF Threaded, Flags
<1>4. Lanes'
  BY <1>1, SomeThreads, ThreeThreads DEF Threaded, ThreadTypes, Lanes, Watches, Moves
<1>5. ASSUME ~clash', Known, Turns PROVE Known'
  BY <1>1, <1>5, SomeThreads DEF Threaded, ThreadTypes, Known, Turns, Live, Processes!Live,
     Processes!Holds, Processes!StartsGateway, In, Engaged, Watches, Moves
<1>6. ASSUME ~clash', Known, Turns PROVE Turns'
  <2> SUFFICES ASSUME ~stopping' PROVE Turns'
    BY DEF Turns
  <2> ~stopping
    BY <1>1
  <2>1. t # m /\ m \in Threads /\ Live' = Live
    BY <1>1, SomeThreads DEF Live, Processes!Live
  <2>2. \A x \in Threads : In(x) => x = t
    BY <1>1, <1>6 DEF Turns, In, Engaged
  <2>3. \A x \in Threads : ~In(x)' /\ (Watches(x)' <=> Watches(x))
    BY <1>1, <2>1, <2>2 DEF In, Engaged, Watches
  <2>4. \A n \in Gateways : pc[n] # "attach"
    BY <1>1, <1>6 DEF Turns, In, Engaged
  <2>5. \A n \in Gateways : Watches(n) => held[n] \notin Live
    BY <1>1, <1>6 DEF Turns
  <2>6. \A n \in Gateways : Watches(n) => gw[held[n]].state # "left"
    BY <1>1, <1>6 DEF Turns, In, Engaged
  <2>7. \A n \in Gateways : pc'[n] = "attach" => n = m
    BY <1>1, <2>1, <2>4, SomeThreads
  <2>8. \A x \in Threads : pc'[x] # "poll"
    BY <2>3 DEF In, Engaged
  <2>9. QED
    BY <1>1, <1>6, <2>3, <2>5, <2>6, <2>7, <2>8, SomeThreads DEF Turns, Watches
<1>7. QED  BY <1>1, <1>2, <1>3, <1>4, <1>5, <1>6 DEF Threaded, Guarded

LEMMA StoppedIs ==
    ASSUME ThreadTypes, NEW t \in Threads, Processes!Stopped(t)
    PROVE  /\ ended' \in {ended, "left"}
           /\ \E where \in {"resolve", "idle"} :
                Processes!Goes(t, where) /\ (where = "resolve" => after[t] = "start")
<1>1. after[t] \in {"rest", "raise", "start", "exit"}
  BY DEF ThreadTypes
<1>2. QED  BY <1>1 DEF Processes!Stopped, Processes!Fails

LEMMA StopLooksKeeps ==
    ASSUME Threaded, NEW t \in Threads, Processes!StopLooks(t),
           NEW where \in {"resolve", "idle", "take"}, Moves(t, where), pc' \in [Threads -> Places],
           ended' \in {ended, "left"}, where = "resolve" => after[t] = "start" /\ proc = None,
           where = "idle" => proc = None, where = "take" => ended' = ended
    PROVE  Threaded'
<1> USE DEF Processes!At, Processes!Running, Processes!shell, Processes!runtime
<1>1. pc[t] = "look" /\ UNCHANGED <<gw, proc, stopping, server, port, quitting, held, after, aim, clash>>
  BY DEF Processes!StopLooks, Processes!At, Processes!runtime, Processes!shell
<1>2. ThreadTypes'
  BY <1>1 DEF Threaded, ThreadTypes
<1>3. Flags'
  BY DEF Threaded, Flags, Processes!StopLooks, Processes!runtime, Processes!shell
<1>4. Lanes'
  BY <1>1, SomeThreads, ThreeThreads DEF Threaded, ThreadTypes, Lanes, Watches, Moves
<1>5. ASSUME ~clash', Known, Turns PROVE Known'
  <2>1. where = "resolve" => Live = {}
    <3>1. ASSUME NEW h \in Live, where = "resolve" PROVE FALSE
      <4>1. ~stopping
        BY <1>1, <1>5, <3>1 DEF Known, Processes!StartsGateway
      <4>2. PICK x \in Threads : pc[x] = "term"
        BY <1>5, <3>1, ThreeThreads DEF Known, Processes!Holds, Live, Processes!Live
      <4>3. In(t) /\ In(x) /\ t # x
        BY <1>1, <4>2 DEF In, Engaged
      <4>4. QED  BY <1>5, <4>1, <4>3 DEF Turns
    <3>2. QED  BY <3>1
  <2>2. QED
    BY <1>1, <1>5, <2>1, SomeThreads DEF Threaded, ThreadTypes, Known, Live, Processes!Live,
       Processes!Holds, Processes!StartsGateway, Moves
<1>6. ASSUME ~clash', Known, Turns PROVE Turns'
  BY <1>1, <1>6, SomeThreads DEF Threaded, ThreadTypes, Lanes, Known, Turns, Live,
     Processes!Live, Processes!Holds, Processes!StartsGateway, In, Engaged, Watches, Moves
<1>7. QED  BY <1>1, <1>2, <1>3, <1>4, <1>5, <1>6 DEF Threaded, Guarded

LEMMA StopTakesKeeps ==
    ASSUME Threaded, NEW t \in Threads, Processes!StopTakes(t),
           NEW where \in {"idle", "term"}, Moves(t, where), pc' \in [Threads -> Places],
           ended' \in {ended, "left"}, where = "term" <=> proc # None
    PROVE  Threaded'
<1> USE DEF Processes!At, Processes!Running, Processes!shell
<1>1. pc[t] = "take" /\ proc' = None /\ UNCHANGED <<gw, port, stopping, server, quitting, after, aim, clash>>
  BY DEF Processes!StopTakes, Processes!At, Processes!shell
<1>2. held' \in [Threads -> Gateways \cup {None}]
      /\ \A x \in Threads : held'[x] = IF x = t THEN proc ELSE held[x]
  BY DEF Threaded, ThreadTypes, Processes!StopTakes
<1>3. ThreadTypes'
  BY <1>1, <1>2 DEF Threaded, ThreadTypes
<1>4. Flags'
  BY DEF Threaded, Flags, Processes!StopTakes, Processes!shell
<1>5. Lanes'
  BY <1>1, <1>2, SomeThreads, ThreeThreads DEF Threaded, ThreadTypes, Lanes, Watches, Moves
<1>6. ASSUME ~clash', Known, Turns PROVE Known'
  BY <1>1, <1>2, <1>6, SomeThreads DEF Threaded, ThreadTypes, Known, Turns, Live,
     Processes!Live, Processes!Holds, Processes!StartsGateway, In, Engaged, Watches, Moves
<1>7. ASSUME ~clash', Known, Turns PROVE Turns'
  BY <1>1, <1>2, <1>7, SomeThreads DEF Threaded, ThreadTypes, Lanes, Known, Turns, Live,
     Processes!Live, Processes!Holds, Processes!StartsGateway, In, Engaged, Watches, Moves
<1>8. QED  BY <1>1, <1>3, <1>4, <1>5, <1>6, <1>7 DEF Threaded, Guarded

LEMMA TerminatesKeeps ==
    ASSUME Threaded, NEW t \in Threads, Processes!Terminates(t),
           NEW where \in {"resolve", "idle"}, Moves(t, where), pc' \in [Threads -> Places],
           ended' \in {ended, "left"}, where = "resolve" => after[t] = "start"
    PROVE  Threaded'
<1> USE DEF Processes!At, Processes!Running, Processes!shell, Processes!runtime
<1>1. pc[t] = "term" /\ UNCHANGED <<proc, stopping, server, port, quitting, after, aim, clash>>
  BY DEF Processes!Terminates, Processes!At, Processes!runtime, Processes!shell
<1>2. held' \in [Threads -> Gateways \cup {None}]
      /\ \A x \in Threads : held'[x] = IF x = t THEN None ELSE held[x]
  BY DEF Threaded, ThreadTypes, Processes!Terminates
<1>3. gw' \in [Gateways -> [state : Lives, port : Ports \cup {None}]]
      /\ (\A h \in Gateways \ {held[t]} : gw'[h].state = gw[h].state)
      /\ gw'[held[t]].state = IF gw[held[t]].state = "left" THEN "left" ELSE "dead"
  <2> DEFINE new == IF gw[held[t]].state \in {"left", "dead"} THEN gw[held[t]].state ELSE "dead"
  <2>1. gw' = [gw EXCEPT ![held[t]].state = new]
    BY DEF Processes!Terminates, Processes!Gone
  <2>2. new = IF gw[held[t]].state = "left" THEN "left" ELSE "dead"
    OBVIOUS
  <2> HIDE DEF new
  <2>3. held[t] \in Gateways /\ gw \in [Gateways -> [state : Lives, port : Ports \cup {None}]]
    BY <1>1 DEF Threaded, ThreadTypes, Lanes
  <2>4. QED  BY <2>1, <2>2, <2>3 DEF Lives
<1>4. ThreadTypes'
  BY <1>1, <1>2, <1>3 DEF Threaded, ThreadTypes
<1>5. Flags'
  BY DEF Threaded, Flags, Processes!Terminates, Processes!runtime, Processes!shell
<1>6. Lanes'
  BY ZenonT(60), <1>1, <1>2, <1>3, SomeThreads, ThreeThreads DEF Threaded, ThreadTypes, Lanes, Watches,
     Moves
<1>7. ASSUME ~clash', Known, Turns PROVE Known'
  <2>1. where = "resolve" => Live' = {}
    <3>1. ASSUME NEW h \in Gateways, h \in Live', where = "resolve" PROVE FALSE
      <4>1. ~stopping
        BY <1>1, <1>7, <3>1 DEF Known, Processes!StartsGateway
      <4>2. h \in Live /\ h # held[t]
        BY <1>3, <3>1 DEF Live, Processes!Live
      <4>3. PICK x \in Threads : Processes!Holds(x, h)
        BY <1>1, <1>7, <4>2, ThreeThreads DEF Known
      <4>4. In(t) /\ In(x) /\ t # x
        BY <1>1, <4>2, <4>3 DEF In, Engaged, Processes!Holds
      <4>5. QED  BY <1>7, <4>1, <4>4 DEF Turns
    <3>2. Live' \subseteq Gateways
      BY DEF Live, Processes!Live
    <3>3. QED  BY <3>1, <3>2
  <2>2. Live' \subseteq Live /\ \A h \in Live' : h # held[t]
    BY <1>1, <1>3, <1>7 DEF Live, Processes!Live, Known
  <2>3. QED
    BY <1>1, <1>2, <1>7, <2>1, <2>2, SomeThreads DEF Threaded, ThreadTypes, Known,
       Processes!Holds, Processes!StartsGateway, Moves
<1>8. ASSUME ~clash', Known, Turns PROVE Turns'
  <2> SUFFICES ASSUME ~stopping' PROVE Turns'
    BY DEF Turns
  <2> ~stopping
    BY <1>1
  <2>1. \A x \in Threads : In(x) => x = t
    BY <1>1, <1>8 DEF Turns, In, Engaged
  <2>2. \A x \in Threads : x # t => pc'[x] = pc[x] /\ held'[x] = held[x]
    BY <1>2 DEF Moves
  <2>3. \A x \in Threads : /\ In(x)' => x = t
                           /\ pc'[x] # "poll"
                           /\ Watches(x)' => Watches(x) /\ x # t
    BY <1>1, <2>1, <2>2 DEF In, Engaged, Watches, Moves
  <2>4. \A n \in Gateways : pc[n] # "attach"
    BY <1>1, <1>8 DEF Turns, In, Engaged
  <2>5. \A n \in Gateways : pc'[n] # "attach"
    BY <2>2, <2>4, SomeThreads DEF Moves
  <2>6. \A n \in Gateways : Watches(n) => gw[held[n]].state # "left"
    BY <1>1, <1>8 DEF Turns, In, Engaged
  <2>7. ASSUME NEW n \in Gateways, Watches(n)' PROVE gw'[held'[n]].state # "left"
    <3>1. n \in Threads /\ Watches(n) /\ held'[n] = held[n]
      BY <2>2, <2>3, <2>7, SomeThreads
    <3>2. held[n] \in Gateways /\ gw[held[n]].state # "left"
      BY <2>6, <3>1 DEF Threaded, Lanes
    <3>3. QED  BY <1>3, <3>1, <3>2
  <2>8. QED
    BY <1>8, <2>2, <2>3, <2>7, <2>5, SomeThreads DEF Turns, Watches
<1>9. QED  BY <1>1, <1>4, <1>5, <1>6, <1>7, <1>8 DEF Threaded, Guarded

LEMMA StepKeeps ==
    ASSUME Threaded, NEW t \in Threads, Processes!Step(t)
    PROVE  Threaded'
<1>1. CASE Processes!Resolve(t) \/ Processes!PollFails(t) \/ Processes!PollGivesUp(t)
  BY <1>1, ResolveKeeps, PollFailsKeeps, PollGivesUpKeeps
<1>2. CASE Processes!Launch(t)
  BY <1>2, LaunchIs, LaunchKeeps
<1>3. CASE Processes!PollSucceeds(t)
  BY <1>3, SlotIs, PollSucceedsKeeps
<1>4. CASE Processes!StopLooks(t)
  <2>1. CASE proc = None
    <3>1. PICK where \in {"resolve", "idle"} :
            Processes!Goes(t, where) /\ (where = "resolve" => after[t] = "start")
      BY <1>4, <2>1, StoppedIs DEF Processes!StopLooks, Threaded
    <3>2. ended' \in {ended, "left"}
      BY <1>4, <2>1, StoppedIs DEF Processes!StopLooks, Threaded
    <3>3. Moves(t, where) /\ pc' \in [Threads -> Places]
      BY <3>1, GoesMoves DEF Threaded, Places
    <3>4. QED  BY <1>4, <2>1, <3>1, <3>2, <3>3, StopLooksKeeps
  <2>2. CASE proc # None
    <3>1. Processes!Goes(t, "take") /\ ended' = ended
      BY <1>4, <2>2 DEF Processes!StopLooks
    <3>2. Moves(t, "take") /\ pc' \in [Threads -> Places]
      BY <3>1, GoesMoves DEF Threaded, Places
    <3>3. QED  BY <1>4, <3>1, <3>2, StopLooksKeeps
  <2>3. QED  BY <2>1, <2>2
<1>5. CASE Processes!StopTakes(t)
  <2>1. CASE proc = None
    <3>1. Processes!Goes(t, "idle") /\ ended' \in {ended, "left"}
      BY <1>5, <2>1 DEF Processes!StopTakes, Processes!Fails
    <3>2. Moves(t, "idle") /\ pc' \in [Threads -> Places]
      BY <3>1, GoesMoves DEF Threaded, Places
    <3>3. QED  BY <1>5, <2>1, <3>1, <3>2, StopTakesKeeps
  <2>2. CASE proc # None
    <3>1. Processes!Goes(t, "term") /\ ended' = ended
      BY <1>5, <2>2 DEF Processes!StopTakes
    <3>2. Moves(t, "term") /\ pc' \in [Threads -> Places]
      BY <3>1, GoesMoves DEF Threaded, Places
    <3>3. QED  BY <1>5, <2>2, <3>1, <3>2, StopTakesKeeps
  <2>3. QED  BY <2>1, <2>2
<1>6. CASE Processes!Terminates(t)
  <2>1. PICK where \in {"resolve", "idle"} :
          Processes!Goes(t, where) /\ (where = "resolve" => after[t] = "start")
    BY <1>6, StoppedIs DEF Processes!Terminates, Threaded
  <2>2. ended' \in {ended, "left"}
    BY <1>6, StoppedIs DEF Processes!Terminates, Threaded
  <2>3. Moves(t, where) /\ pc' \in [Threads -> Places]
    BY <2>1, GoesMoves DEF Threaded, Places
  <2>4. QED  BY <1>6, <2>1, <2>2, <2>3, TerminatesKeeps
<1>7. QED  BY <1>1, <1>2, <1>3, <1>4, <1>5, <1>6 DEF Processes!Step

LEMMA GatewayBindsKeeps ==
    ASSUME Threaded, NEW g \in Gateways, Processes!GatewayBinds(g)
    PROVE  Threaded'
<1> USE DEF Processes!GatewayBinds, Processes!Running, Processes!shell, Processes!runtime,
   Processes!threads
<1>1. gw[g].state = "booting"
  OBVIOUS
<1>2. \E new \in {"dead", "up"} : gw' = [gw EXCEPT ![g].state = new]
  OBVIOUS
<1>3. gw' \in [Gateways -> [state : Lives, port : Ports \cup {None}]]
      /\ (\A h \in Gateways \ {g} : gw'[h].state = gw[h].state) /\ gw'[g].state \in {"dead", "up"}
  BY <1>2 DEF Threaded, ThreadTypes, Lives
<1>4. UNCHANGED <<port, proc, stopping, server, quitting, clash, ended, pc, after, held, aim>>
  OBVIOUS
<1>5. ThreadTypes'
  BY <1>1, <1>2, <1>3, <1>4 DEF Threaded, ThreadTypes
<1>6. Flags'
  BY DEF Threaded, Flags, Processes!GatewayBinds
<1>7. Lanes'
  BY <1>1, <1>2, <1>3, <1>4, SomeThreads, ThreeThreads DEF Threaded, ThreadTypes, Lanes,
     Watches, Moves
<1>8. ASSUME ~clash', Known, Turns PROVE Known'
  BY <1>1, <1>2, <1>3, <1>4, <1>8, SomeThreads DEF Threaded, ThreadTypes, Known, Turns, Live,
     Processes!Live, Processes!Holds, Processes!StartsGateway, In, Engaged, Watches, Moves
<1>9. ASSUME ~clash', Known, Turns PROVE Turns'
  BY <1>1, <1>2, <1>3, <1>4, <1>9, SomeThreads DEF Threaded, ThreadTypes, Lanes, Known,
     Turns, Live, Processes!Live, Processes!Holds, Processes!StartsGateway, In, Engaged,
     Watches, Moves
<1>10. QED  BY <1>1, <1>5, <1>6, <1>7, <1>8, <1>9 DEF Threaded, Guarded

LEMMA GatewayDiesKeeps ==
    ASSUME Threaded, NEW g \in Gateways, Processes!GatewayDies(g)
    PROVE  Threaded'
<1> USE DEF Processes!GatewayDies, Processes!Counts, Processes!Running, Processes!shell,
   Processes!runtime, Processes!threads
<1>1. gw[g].state \in {"booting", "up"}
  BY DEF Processes!Live
<1>2. gw' \in [Gateways -> [state : Lives, port : Ports \cup {None}]]
      /\ \A h \in Gateways : gw'[h].state = IF h = g THEN "dead" ELSE gw[h].state
  BY DEF Threaded, ThreadTypes, Lives
<1>3. UNCHANGED <<port, proc, stopping, server, quitting, clash, ended, pc, after, held, aim>>
  OBVIOUS
<1>4. ThreadTypes'
  BY <1>1, <1>2, <1>3 DEF Threaded, ThreadTypes
<1>5. Flags'
  BY DEF Threaded, Flags
<1>6. Lanes'
  BY <1>1, <1>2, <1>3, SomeThreads, ThreeThreads DEF Threaded, ThreadTypes, Lanes, Watches,
     Moves
<1>7. ASSUME ~clash', Known, Turns PROVE Known'
  BY <1>1, <1>2, <1>3, <1>7, SomeThreads DEF Threaded, ThreadTypes, Known, Turns, Live,
     Processes!Live, Processes!Holds, Processes!StartsGateway, In, Engaged, Watches, Moves
<1>8. ASSUME ~clash', Known, Turns PROVE Turns'
  BY <1>1, <1>2, <1>3, <1>8, SomeThreads DEF Threaded, ThreadTypes, Lanes, Known, Turns,
     Live, Processes!Live, Processes!Holds, Processes!StartsGateway, In, Engaged, Watches, Moves
<1>9. QED  BY <1>1, <1>4, <1>5, <1>6, <1>7, <1>8 DEF Threaded, Guarded

LEMMA GatewayLeavesKeeps ==
    ASSUME Threaded, NEW g \in Gateways, Processes!GatewayLeaves(g)
    PROVE  Threaded'
<1> USE DEF Processes!GatewayLeaves, Processes!Counts, Processes!Running, Processes!shell,
   Processes!runtime, Processes!threads
<1>1. gw[g].state = "up" /\ ~clash
  OBVIOUS
<1>2. gw' \in [Gateways -> [state : Lives, port : Ports \cup {None}]]
      /\ \A h \in Gateways : gw'[h].state = IF h = g THEN "left" ELSE gw[h].state
  BY DEF Threaded, ThreadTypes, Lives
<1>3. clash' \/ stopping \/ \A t \in Threads : pc[t] \notin {"look", "take", "term"}
  BY DEF Threads
<1>4. UNCHANGED <<port, proc, stopping, server, quitting, ended, pc, after, held, aim>>
  OBVIOUS
<1>5. ThreadTypes'
  BY <1>1, <1>2, <1>3, <1>4 DEF Threaded, ThreadTypes
<1>6. Flags'
  BY DEF Threaded, Flags
<1>7. Lanes'
  BY <1>1, <1>2, <1>3, <1>4, SomeThreads, ThreeThreads DEF Threaded, ThreadTypes, Lanes,
     Watches, Moves
<1>8. ASSUME ~clash', Known, Turns PROVE Known'
  BY <1>1, <1>2, <1>3, <1>4, <1>8, SomeThreads DEF Threaded, ThreadTypes, Known, Turns, Live,
     Processes!Live, Processes!Holds, Processes!StartsGateway, In, Engaged, Watches, Moves
<1>9. ASSUME ~clash', Known, Turns PROVE Turns'
  <2> SUFFICES ASSUME ~stopping' PROVE Turns'
    BY DEF Turns
  <2> ~stopping
    BY <1>4
  <2>1. g \in Live /\ Live' = Live \ {g}
    BY <1>1, <1>2 DEF Live, Processes!Live
  <2>2. \A t \in Threads : pc[t] \notin {"look", "take", "term"}
    BY <1>3, <1>9
  <2>3. g = proc
    BY <1>9, <2>1, <2>2 DEF Known, Processes!Holds
  <2>4. ASSUME NEW n \in Gateways, Watches(n), held[n] = g, NEW t \in Threads, In(t) PROVE FALSE
    <3>1. pc[t] \in {"resolve", "launch"} => Live = {}
      BY <1>9 DEF Known
    <3>2. pc[t] = "poll" => held[n] \notin Live
      BY <1>9, <2>4 DEF Turns
    <3>3. QED  BY <2>1, <2>2, <2>4, <3>1, <3>2 DEF In, Engaged
  <2>5. \A n \in Gateways : Watches(n) => held[n] \in Gateways
    BY DEF Threaded, Lanes
  <2>6. QED
    BY <1>2, <1>4, <1>9, <2>1, <2>3, <2>4, <2>5 DEF Turns, Watches, In
<1>10. QED  BY <1>1, <1>5, <1>6, <1>7, <1>8, <1>9 DEF Threaded, Guarded

LEMMA MonitorAttachesKeeps ==
    ASSUME Threaded, NEW m \in Gateways, m \in Threads, Processes!MonitorAttaches(m),
           NEW where \in {"idle", "watch"}, Moves(m, where), pc' \in [Threads -> Places],
           where = "idle" <=> proc = None
    PROVE  Threaded'
<1>1. pc[m] = "attach" /\ UNCHANGED <<gw, proc, port, stopping, server, quitting, ended, after, aim, clash>>
  BY DEF Processes!MonitorAttaches, Processes!At, Processes!runtime, Processes!shell
<1>2. held' \in [Threads -> Gateways \cup {None}]
      /\ \A x \in Threads : held'[x] = IF x = m THEN proc ELSE held[x]
  BY DEF Threaded, ThreadTypes, Processes!MonitorAttaches
<1>3. ThreadTypes'
  BY <1>1, <1>2 DEF Threaded, ThreadTypes
<1>4. Flags'
  BY DEF Threaded, Flags, Processes!MonitorAttaches, Processes!runtime, Processes!shell
<1>5. Lanes'
  BY <1>1, <1>2, SomeThreads, ThreeThreads DEF Threaded, ThreadTypes, Lanes, Watches, Moves
<1>6. ASSUME ~clash', Known, Turns PROVE Known'
  BY <1>1, <1>2, <1>6, SomeThreads DEF Threaded, ThreadTypes, Known, Turns, Live,
     Processes!Live, Processes!Holds, Processes!StartsGateway, In, Engaged, Watches, Moves
<1>7. ASSUME ~clash', Known, Turns PROVE Turns'
  BY <1>1, <1>2, <1>7, SomeThreads DEF Threaded, ThreadTypes, Lanes, Known, Turns, Live,
     Processes!Live, Processes!Holds, Processes!StartsGateway, In, Engaged, Watches, Moves
<1>8. QED  BY <1>1, <1>3, <1>4, <1>5, <1>6, <1>7 DEF Threaded, Guarded

LEMMA MonitorWakesKeeps ==
    ASSUME Threaded, NEW m \in Gateways, m \in Threads, Processes!MonitorWakes(m),
           NEW where \in {"idle", "resolve"}, Moves(m, where), pc' \in [Threads -> Places],
           where = "resolve" => ~stopping /\ gw[held[m]].state = "left"
    PROVE  Threaded'
<1>1. pc[m] = "watch" /\ UNCHANGED <<gw, proc, port, stopping, server, quitting, ended, after, aim, clash>>
  BY DEF Processes!MonitorWakes, Processes!At, Processes!runtime, Processes!shell
<1>2. held' \in [Threads -> Gateways \cup {None}]
      /\ \A x \in Threads : held'[x] = IF x = m THEN None ELSE held[x]
  BY DEF Threaded, ThreadTypes, Processes!MonitorWakes
<1>3. ThreadTypes'
  BY <1>1, <1>2 DEF Threaded, ThreadTypes
<1>4. Flags'
  BY DEF Threaded, Flags, Processes!MonitorWakes, Processes!runtime, Processes!shell
<1>5. Lanes'
  BY <1>1, <1>2, SomeThreads, ThreeThreads DEF Threaded, ThreadTypes, Lanes, Watches, Moves
<1>6. ASSUME ~clash', Known, Turns PROVE Known'
  <2>1. where = "resolve" => Live = {}
    <3>1. ASSUME NEW h \in Live, where = "resolve" PROVE FALSE
      <4>1. proc = held[m] /\ gw[proc].state = "left" /\ \A x \in Threads : ~In(x)
        BY <1>1, <1>6, <3>1 DEF Turns, Watches
      <4>2. h # proc
        BY <3>1, <4>1 DEF Live, Processes!Live
      <4>3. PICK x \in Threads : pc[x] = "term"
        BY <1>6, <3>1, <4>2 DEF Known, Processes!Holds
      <4>4. QED  BY <4>1, <4>3 DEF In, Engaged
    <3>2. QED  BY <3>1
  <2>2. Live' = Live /\ \A x \in Threads : pc'[x] = "term" => pc[x] = "term"
    BY <1>1 DEF Live, Processes!Live, Moves
  <2>3. \A x \in Threads, g \in Gateways : Processes!Holds(x, g) => Processes!Holds(x, g)'
    BY <1>1, <1>2 DEF Processes!Holds, Moves
  <2>4. \A g \in Live : g \in Gateways
    BY DEF Live, Processes!Live
  <2>5. \A x \in Threads : pc'[x] = "term" => held'[x] = held[x]
    BY <1>1, <1>2 DEF Moves
  <2>6. stopping => \A x \in Threads : ~Processes!StartsGateway(x)'
    BY <1>1, <1>6 DEF Known, Processes!StartsGateway, Moves
  <2>7. QED
    BY <1>1, <1>6, <2>1, <2>2, <2>3, <2>4, <2>5, <2>6 DEF Known, Moves
<1>7. ASSUME ~clash', Known, Turns PROVE Turns'
  BY <1>1, <1>2, <1>7, SomeThreads DEF Threaded, ThreadTypes, Lanes, Known, Turns, Live,
     Processes!Live, Processes!Holds, Processes!StartsGateway, In, Engaged, Watches, Moves
<1>8. QED  BY <1>1, <1>3, <1>4, <1>5, <1>6, <1>7 DEF Threaded, Guarded

LEMMA CallsBackKeeps ==
    ASSUME Threaded, Processes!CallsBack
    PROVE  Threaded'
<1> USE DEF Processes!CallsBack, Processes!At, Processes!Goes, Processes!Running,
   Processes!shell, Processes!runtime, Processes!threads
<1>1. Moves(web, "look") /\ pc' \in [Threads -> Places]
  BY GoesMoves DEF Threaded, Places
<1>2. pc[web] = "idle" /\ server \in {"up", "leaving"} /\ web \in Threads
  BY SomeThreads
<1>3. UNCHANGED <<gw, proc, port, stopping, server, quitting, ended, held, aim>>
  OBVIOUS
<1>4. after' \in [Threads -> {"rest", "raise", "start", "exit"}]
      /\ \A x \in Threads : x # web => after'[x] = after[x]
  BY DEF Threaded, ThreadTypes
<1>5. clash' = (clash \/ stopping \/ (proc # None /\ gw[proc].state = "left")
               \/ \E m \in Gateways : pc[m] \notin {"idle", "watch"})
  OBVIOUS
<1>6. ~clash' => (\A t \in Threads : ~In(t)) /\ (\A m \in Gateways : Watches(m) => gw[held[m]].state # "left")
  <2> SUFFICES ASSUME ~clash'
               PROVE  /\ \A t \in Threads : ~In(t)
                      /\ \A m \in Gateways : Watches(m) => gw[held[m]].state # "left"
    OBVIOUS
  <2> /\ ~clash /\ ~stopping /\ ~(proc # None /\ gw[proc].state = "left")
      /\ \A m \in Gateways : pc[m] \in {"idle", "watch"}
    BY <1>5
  <2>1. \A m \in Gateways : ~In(m)
    BY DEF In, Engaged
  <2>2. ~In(main) /\ ~In(quit) /\ ~In(web)
    BY <1>2 DEF Threaded, Lanes, In, Engaged
  <2>3. Turns
    BY DEF Threaded, Guarded
  <2>4. \A m \in Gateways : Watches(m) /\ gw[held[m]].state = "left" => proc = held[m] /\ held[m] \in Gateways
    BY <2>3 DEF Turns, Threaded, Lanes
  <2>5. QED  BY <2>1, <2>2, <2>4, ThreeThreads DEF Threads, Processes!Threads
<1>7. ThreadTypes'
  BY <1>1, <1>2, <1>3, <1>4, <1>5, <1>6 DEF Threaded, ThreadTypes
<1>8. Flags'
  BY DEF Threaded, Flags
<1>9. Lanes'
  BY <1>1, <1>2, <1>3, <1>4, <1>5, <1>6, SomeThreads, ThreeThreads DEF Threaded, ThreadTypes,
     Lanes, Watches, Moves
<1>10. ASSUME ~clash', Known, Turns PROVE Known'
  <2>1. Live' = Live
    BY <1>3 DEF Live, Processes!Live
  <2>2. \A x \in Threads : /\ pc'[x] \in {"resolve", "launch"} => pc[x] \in {"resolve", "launch"}
                           /\ pc'[x] = "term" <=> pc[x] = "term"
    BY <1>1, <1>2 DEF Moves
  <2>3. \A x \in Threads, g \in Gateways : Processes!Holds(x, g)' <=> Processes!Holds(x, g)
    BY <1>3, <2>2 DEF Processes!Holds
  <2>4. ~stopping'
    <3>1. ~stopping
      BY <1>5, <1>10
    <3>2. QED  BY <3>1, <1>3
  <2>5. \A g \in Live : g \in Gateways
    BY DEF Live, Processes!Live
  <2>6. QED  BY <1>3, <1>10, <2>1, <2>2, <2>3, <2>4, <2>5 DEF Known
<1>11. ASSUME ~clash', Known, Turns PROVE Turns'
  <2>1. \A x \in Threads : x # web => /\ ~In(x)' /\ (Watches(x)' <=> Watches(x))
                                      /\ pc'[x] = "attach" <=> pc[x] = "attach"
    BY <1>1, <1>6, <1>11 DEF In, Engaged, Watches, Moves
  <2>2. Live' = Live
    BY <1>3 DEF Live, Processes!Live
  <2>3. \A n \in Gateways : /\ n # web /\ n \in Threads /\ pc'[n] # "attach"
                            /\ Watches(n)' => gw'[held'[n]].state # "left"
    BY <1>1, <1>3, <1>5, <1>6, <1>11, SomeThreads, ThreeThreads DEF Watches, Moves
  <2>4. \A x \in Threads : pc'[x] # "poll"
    BY <1>1, <1>2, <2>1 DEF In, Engaged, Moves
  <2>5. QED
    BY <1>3, <1>11, <2>1, <2>2, <2>3, <2>4, SomeThreads, ThreeThreads DEF Turns, Watches
<1>12. QED  BY <1>1, <1>7, <1>8, <1>9, <1>10, <1>11 DEF Threaded, Guarded

LEMMA ServerStartsKeeps ==
    ASSUME Threaded, Processes!ServerStarts
    PROVE  Threaded'
<1> USE DEF Processes!ServerStarts, Processes!At, Processes!Goes, Processes!Running,
   Processes!shell, Processes!runtime, Processes!threads
<1>1. Moves(main, "ready") /\ pc' \in [Threads -> Places]
  BY GoesMoves DEF Threaded, Places
<1>2. pc[main] = "serve" /\ server' = "up"
  OBVIOUS
<1>3. UNCHANGED <<gw, proc, port, after, stopping, clash, quitting, held, aim, ended>>
  OBVIOUS
<1>4. Strolls
  BY <1>1, <1>2, <1>3 DEF Strolls, Away, Moves
<1>5. ThreadTypes'
  BY <1>1, <1>2, <1>3 DEF Threaded, ThreadTypes
<1>6. Flags'
  BY DEF Threaded, Flags
<1>7. Lanes'
  BY <1>1, <1>2, <1>3, SomeThreads, ThreeThreads DEF Threaded, ThreadTypes, Lanes, Watches,
     Moves
<1>8. Guarded'
  BY <1>1, <1>2, <1>3, <1>4, StrollsKeeps
<1>9. QED  BY <1>5, <1>6, <1>7, <1>8 DEF Threaded

LEMMA AskedKeeps ==
    ASSUME Threaded, Processes!Asked
    PROVE  Threaded'
<1> USE DEF Processes!Asked, Processes!Counts, Processes!At, Processes!Goes,
   Processes!Running, Processes!shell, Processes!runtime, Processes!threads
<1>1. pc' = pc /\ pc' \in [Threads -> Places]
  BY DEF Threaded, ThreadTypes
<1>2. UNCHANGED <<gw, proc, port, after, stopping, clash, quitting, server, held, aim, ended>>
  OBVIOUS
<1>3. Strolls
  BY <1>1, <1>2 DEF Strolls, Away, Moves
<1>4. ThreadTypes'
  BY <1>1, <1>2 DEF Threaded, ThreadTypes
<1>5. Flags'
  BY DEF Threaded, Flags
<1>6. Lanes'
  BY <1>1, <1>2, SomeThreads, ThreeThreads DEF Threaded, ThreadTypes, Lanes, Watches, Moves
<1>7. Guarded'
  BY <1>1, <1>2, <1>3, StrollsKeeps
<1>8. QED  BY <1>4, <1>5, <1>6, <1>7 DEF Threaded

LEMMA ServerEndsKeeps ==
    ASSUME Threaded, Processes!ServerEnds
    PROVE  Threaded'
<1> USE DEF Processes!ServerEnds, Processes!At, Processes!Goes, Processes!Running,
   Processes!shell, Processes!runtime, Processes!threads
<1>1. pc' = pc /\ pc' \in [Threads -> Places]
  BY DEF Threaded, ThreadTypes
<1>2. UNCHANGED <<gw, proc, port, after, stopping, clash, quitting, held, aim, ended>>
  OBVIOUS
<1>3. server' = "off" /\ server # "none"
  OBVIOUS
<1>4. Strolls
  BY <1>1, <1>2, <1>3 DEF Strolls, Away, Moves
<1>5. ThreadTypes'
  BY <1>1, <1>2, <1>3 DEF Threaded, ThreadTypes
<1>6. Flags'
  BY DEF Threaded, Flags
<1>7. Lanes'
  BY <1>1, <1>2, <1>3, SomeThreads, ThreeThreads DEF Threaded, ThreadTypes, Lanes, Watches,
     Moves
<1>8. Guarded'
  BY <1>1, <1>2, <1>3, <1>4, StrollsKeeps
<1>9. QED  BY <1>5, <1>6, <1>7, <1>8 DEF Threaded

LEMMA WindowOpensKeeps ==
    ASSUME Threaded, Processes!WindowOpens
    PROVE  Threaded'
<1> USE DEF Processes!WindowOpens, Processes!At, Processes!Goes, Processes!Running,
   Processes!shell, Processes!runtime, Processes!threads
<1>1. Moves(main, "window") /\ pc' \in [Threads -> Places]
  BY GoesMoves DEF Threaded, Places
<1>2. pc[main] = "ready"
  OBVIOUS
<1>3. UNCHANGED <<gw, proc, port, after, stopping, clash, quitting, server, held, aim, ended>>
  OBVIOUS
<1>4. Strolls
  BY <1>1, <1>2, <1>3 DEF Strolls, Away, Moves
<1>5. ThreadTypes'
  BY <1>1, <1>2, <1>3 DEF Threaded, ThreadTypes
<1>6. Flags'
  BY DEF Threaded, Flags
<1>7. Lanes'
  BY <1>1, <1>2, <1>3, SomeThreads, ThreeThreads DEF Threaded, ThreadTypes, Lanes, Watches,
     Moves
<1>8. Guarded'
  BY <1>1, <1>2, <1>3, <1>4, StrollsKeeps
<1>9. QED  BY <1>5, <1>6, <1>7, <1>8 DEF Threaded

LEMMA TrayOpensKeeps ==
    ASSUME Threaded, Processes!TrayOpens
    PROVE  Threaded'
<1> USE DEF Processes!TrayOpens, Processes!At, Processes!Goes, Processes!Running,
   Processes!shell, Processes!runtime, Processes!threads
<1>1. pc' = pc /\ pc' \in [Threads -> Places]
  BY DEF Threaded, ThreadTypes
<1>2. UNCHANGED <<gw, proc, port, after, stopping, clash, quitting, server, held, aim, ended>>
  OBVIOUS
<1>3. Strolls
  BY <1>1, <1>2 DEF Strolls, Away, Moves
<1>4. ThreadTypes'
  BY <1>1, <1>2 DEF Threaded, ThreadTypes
<1>5. Flags'
  BY DEF Threaded, Flags
<1>6. Lanes'
  BY <1>1, <1>2, SomeThreads, ThreeThreads DEF Threaded, ThreadTypes, Lanes, Watches, Moves
<1>7. Guarded'
  BY <1>1, <1>2, <1>3, StrollsKeeps
<1>8. QED  BY <1>4, <1>5, <1>6, <1>7 DEF Threaded

LEMMA QuitCallbackKeeps ==
    ASSUME Threaded, Processes!QuitCallback
    PROVE  Threaded'
<1> USE DEF Processes!QuitCallback, Processes!At, Processes!Goes, Processes!Running,
   Processes!shell, Processes!runtime, Processes!threads
<1>1. Moves(quit, "destroy") /\ pc' \in [Threads -> Places]
  BY GoesMoves DEF Threaded, Places
<1>2. pc[quit] = "callback"
  OBVIOUS
<1>3. UNCHANGED <<gw, proc, port, after, stopping, clash, quitting, server, held, aim, ended>>
  OBVIOUS
<1>4. Strolls
  BY <1>1, <1>2, <1>3 DEF Strolls, Away, Moves
<1>5. ThreadTypes'
  BY <1>1, <1>2, <1>3 DEF Threaded, ThreadTypes
<1>6. Flags'
  BY DEF Threaded, Flags
<1>7. Lanes'
  BY <1>1, <1>2, <1>3, SomeThreads, ThreeThreads DEF Threaded, ThreadTypes, Lanes, Watches,
     Moves
<1>8. Guarded'
  BY <1>1, <1>2, <1>3, <1>4, StrollsKeeps
<1>9. QED  BY <1>5, <1>6, <1>7, <1>8 DEF Threaded

\* The user quits, by the tray or by the close button.
LEMMA QuitAppKeeps ==
    ASSUME Threaded, Processes!QuitApp,
           UNCHANGED <<gw, proc, port, stopping, server, after, held, aim, clash, ended>>
    PROVE  Threaded'
<1>1. CASE quitting
  <2>1. UNCHANGED <<quitting, pc>>
    BY <1>1 DEF Processes!QuitApp
  <2>2. Strolls
    BY <2>1 DEF Strolls
  <2>3. Guarded'
    BY <2>2, StrollsKeeps
  <2>4. Flags'
    BY <2>1 DEF Threaded, Flags
  <2>5. Lanes'
    BY <2>1 DEF Threaded, Lanes, Watches
  <2>6. ThreadTypes'
    BY <2>1 DEF Threaded, ThreadTypes
  <2>7. QED  BY <2>3, <2>4, <2>5, <2>6 DEF Threaded
<1>2. CASE ~quitting
  <2>1. quitting' = TRUE /\ Processes!Goes(quit, "callback")
    BY <1>2 DEF Processes!QuitApp
  <2>2. Moves(quit, "callback") /\ pc' \in [Threads -> Places]
    BY <2>1, GoesMoves DEF Threaded, Places
  <2>3. pc[quit] = "idle"
    BY <1>2 DEF Threaded, Lanes
  <2>4. Strolls
    BY <2>2, <2>3 DEF Strolls, Away, Moves
  <2>5. Guarded'
    BY <2>4, StrollsKeeps
  <2>6. Flags'
    BY <2>1 DEF Threaded, Flags
  <2>7. Lanes'
    BY <2>1, <2>2, SomeThreads, ThreeThreads DEF Threaded, ThreadTypes, Lanes, Watches, Moves
  <2>8. ThreadTypes'
    BY <2>2 DEF Threaded, ThreadTypes
  <2>9. QED  BY <2>5, <2>6, <2>7, <2>8 DEF Threaded
<1>3. QED  BY <1>1, <1>2

LEMMA WindowStays ==
    ASSUME Threaded, UNCHANGED <<gw, proc, port, stopping, server, quitting, pc, after, held, aim, clash>>,
           ended' \in {ended, "forced"}
    PROVE  Threaded'
<1>1. Guarded'
  BY StrollsKeeps DEF Strolls
<1>2. Flags'
  BY DEF Threaded, Flags
<1>3. Lanes'
  BY DEF Threaded, Lanes, Watches
<1>4. ThreadTypes'
  BY DEF Threaded, ThreadTypes
<1>5. QED  BY <1>1, <1>2, <1>3, <1>4 DEF Threaded

LEMMA CloseKeeps == ASSUME Threaded, Processes!Close PROVE Threaded'
<1>1. UNCHANGED <<gw, proc, port, stopping, server, after, held, aim, clash, ended>>
  BY DEF Processes!Close, Processes!runtime
<1>2. CASE Processes!QuitApp
  BY <1>1, <1>2, QuitAppKeeps
<1>3. CASE UNCHANGED <<quitting, pc>>
  BY <1>1, <1>3, WindowStays
<1>4. QED  BY <1>2, <1>3 DEF Processes!Close

LEMMA TrayQuitsKeeps == ASSUME Threaded, Processes!TrayQuits PROVE Threaded'
<1>1. UNCHANGED <<gw, proc, port, stopping, server, after, held, aim, clash, ended>>
  BY DEF Processes!TrayQuits, Processes!runtime
<1>2. QED  BY <1>1, QuitAppKeeps DEF Processes!TrayQuits

LEMMA ForcedExitKeeps == ASSUME Threaded, Processes!ForcedExit PROVE Threaded'
<1>1. /\ UNCHANGED <<gw, proc, port, stopping, server, quitting, pc, after, held, aim, clash>>
      /\ ended' = "forced"
  BY DEF Processes!ForcedExit, Processes!runtime, Processes!shell, Processes!threads
<1>2. QED  BY <1>1, WindowStays

\* The runtime is told to stop, by main or by the quitting thread.
LEMMA StopRuntimeKeeps ==
    ASSUME Threaded, NEW t \in {main, quit}, Processes!StopRuntime(t), pc[t] \in Away,
           UNCHANGED <<gw, proc, port, quitting, ended, after, held, aim>>,
           t = quit => quitting
    PROVE  Threaded'
<1>1. stopping' = TRUE /\ Processes!Goes(t, "join") /\ server' \in {server, "leaving"}
  BY DEF Processes!StopRuntime
<1>2. Moves(t, "join") /\ pc' \in [Threads -> Places]
  BY <1>1, GoesMoves DEF Threaded, Places
<1>3. Strolls
  BY <1>2 DEF Strolls, Away, Moves
<1>4. clash' = (clash \/ \E x \in Threads : Processes!StartsGateway(x))
  BY DEF Processes!StopRuntime, Threads
<1>5. Guarded'
  BY <1>1, <1>3, <1>4, StoppingKeeps
<1>6. Flags'
  BY <1>1, <1>4 DEF Threaded, Flags
<1>7. Lanes'
  BY <1>1, <1>2, SomeThreads, ThreeThreads DEF Threaded, ThreadTypes, Lanes, Watches, Moves
<1>8. ThreadTypes'
  BY <1>1, <1>2 DEF Threaded, ThreadTypes
<1>9. QED  BY <1>5, <1>6, <1>7, <1>8 DEF Threaded

LEMMA StopsKeep ==
    ASSUME Threaded, Processes!ServerNotReady \/ Processes!LoopEnds \/ Processes!Destroy
    PROVE  Threaded'
<1>1. ASSUME Processes!ServerNotReady \/ Processes!LoopEnds PROVE Threaded'
  <2>1. /\ pc[main] \in Away /\ Processes!StopRuntime(main)
        /\ UNCHANGED <<gw, proc, port, quitting, ended, after, held, aim>>
    BY <1>1 DEF Processes!ServerNotReady, Processes!LoopEnds, Processes!At, Processes!shell,
       Away
  <2>2. QED  BY <2>1, ThreeThreads, StopRuntimeKeeps
<1>2. ASSUME Processes!Destroy PROVE Threaded'
  <2>1. /\ pc[quit] = "destroy" /\ Processes!StopRuntime(quit)
        /\ UNCHANGED <<gw, proc, port, quitting, ended, after, held, aim>>
    BY <1>2 DEF Processes!Destroy, Processes!At
  <2>2. quitting
    BY <2>1 DEF Threaded, Lanes
  <2>3. QED  BY <2>1, <2>2, StopRuntimeKeeps DEF Away
<1>3. QED  BY <1>1, <1>2

LEMMA JoinsKeeps ==
    ASSUME Threaded, NEW t \in {main, quit}, Processes!Joins(t)
    PROVE  Threaded'
<1> USE DEF Processes!Joins, Processes!At, Processes!Goes, Processes!Running,
   Processes!shell, Processes!runtime, Processes!threads
<1>1. Moves(t, "look") /\ pc' \in [Threads -> Places]
  BY GoesMoves DEF Threaded, Places
<1>2. pc[t] = "join" /\ stopping /\ t \in Threads
  BY SomeThreads DEF Threaded, Lanes
<1>3. UNCHANGED <<gw, proc, port, stopping, server, quitting, ended, held, aim, clash>>
  OBVIOUS
<1>4. after' \in [Threads -> {"rest", "raise", "start", "exit"}]
      /\ after'[t] # "start" /\ \A x \in Threads : x # t => after'[x] = after[x]
  BY SomeThreads DEF Threaded, ThreadTypes
<1>5. ThreadTypes'
  BY <1>1, <1>2, <1>3, <1>4 DEF Threaded, ThreadTypes
<1>6. Flags'
  BY DEF Threaded, Flags
<1>7. Lanes'
  BY <1>1, <1>2, <1>3, <1>4, SomeThreads, ThreeThreads DEF Threaded, ThreadTypes, Lanes,
     Watches, Moves
<1>8. ASSUME ~clash', Known, Turns PROVE Known'
  BY <1>1, <1>2, <1>3, <1>4, <1>8, SomeThreads DEF Threaded, ThreadTypes, Known, Turns, Live,
     Processes!Live, Processes!Holds, Processes!StartsGateway, In, Engaged, Watches, Moves
<1>9. ASSUME ~clash', Known, Turns PROVE Turns'
  BY <1>1, <1>2, <1>3, <1>4, <1>9, SomeThreads DEF Threaded, ThreadTypes, Lanes, Known,
     Turns, Live, Processes!Live, Processes!Holds, Processes!StartsGateway, In, Engaged,
     Watches, Moves
<1>10. QED  BY <1>1, <1>5, <1>6, <1>7, <1>8, <1>9 DEF Threaded, Guarded

LEMMA MonitorKeeps ==
    ASSUME Threaded, NEW m \in Gateways, Processes!MonitorAttaches(m) \/ Processes!MonitorWakes(m)
    PROVE  Threaded'
<1>1. m \in Threads
  BY SomeThreads
<1>2. ASSUME Processes!MonitorAttaches(m) PROVE Threaded'
  <2> DEFINE where == IF proc = None THEN "idle" ELSE "watch"
  <2>1. Processes!Goes(m, where)
    BY <1>2 DEF Processes!MonitorAttaches
  <2>2. Moves(m, where) /\ pc' \in [Threads -> Places]
    BY <2>1, GoesMoves DEF Threaded, Places
  <2>3. where \in {"idle", "watch"} /\ (where = "idle" <=> proc = None)
    OBVIOUS
  <2> HIDE DEF where
  <2>4. QED  BY <1>1, <1>2, <2>2, <2>3, MonitorAttachesKeeps
<1>3. ASSUME Processes!MonitorWakes(m) PROVE Threaded'
  <2> DEFINE where == IF ~stopping /\ gw[held[m]].state = "left" THEN "resolve" ELSE "idle"
  <2>1. Processes!Goes(m, where)
    BY <1>3 DEF Processes!MonitorWakes
  <2>2. Moves(m, where) /\ pc' \in [Threads -> Places]
    BY <2>1, GoesMoves DEF Threaded, Places
  <2>3. /\ where \in {"idle", "resolve"}
        /\ where = "resolve" => ~stopping /\ gw[held[m]].state = "left"
    OBVIOUS
  <2> HIDE DEF where
  <2>4. QED  BY <1>1, <1>3, <2>2, <2>3, MonitorWakesKeeps
<1>4. QED  BY <1>2, <1>3

LEMMA ProcessesKeep == ASSUME Threaded, Processes!Next PROVE Threaded'
<1>1. CASE \E t \in Processes!Threads : Processes!Step(t)
  BY <1>1, StepKeeps DEF Threads
<1>2. CASE \E t \in {main, quit} : Processes!Joins(t)
  BY <1>2, JoinsKeeps
<1>3. CASE \E m \in Gateways : Processes!MonitorAttaches(m) \/ Processes!MonitorWakes(m)
  BY <1>3, MonitorKeeps
<1>4. CASE \/ Processes!ServerStarts \/ Processes!CallsBack \/ Processes!ServerEnds
           \/ Processes!WindowOpens \/ Processes!ServerNotReady \/ Processes!LoopEnds
           \/ Processes!QuitCallback \/ Processes!Destroy \/ Processes!ForcedExit
  BY <1>4, ServerStartsKeeps, CallsBackKeeps, ServerEndsKeeps, WindowOpensKeeps, StopsKeep,
     QuitCallbackKeeps, ForcedExitKeeps
<1>5. CASE Processes!User
  BY <1>5, CloseKeeps, TrayOpensKeeps, TrayQuitsKeeps, AskedKeeps DEF Processes!User
<1>6. CASE Processes!Children
  BY <1>6, GatewayBindsKeeps, GatewayLeavesKeeps, GatewayDiesKeeps DEF Processes!Children
<1>7. QED
  BY <1>1, <1>2, <1>3, <1>4, <1>5, <1>6 DEF Processes!Next, Processes!Program

LEMMA ProcessesStay == ASSUME Threaded, UNCHANGED processVars PROVE Threaded'
  BY WindowStays DEF processVars

LEMMA ThreadedInit == ASSUME Processes!Init PROVE Threaded
<1> USE DEF Processes!Init
<1>1. (CHOOSE q \in Ports : TRUE) \in Ports
  BY DesktopAssumption
<1>2. ThreadTypes
  BY <1>1 DEF ThreadTypes, Threads, Lives, Places
<1>3. Flags
  BY DEF Flags
<1>4. \A t \in Threads : pc[t] = IF t = main THEN "resolve" ELSE "idle"
  BY DEF Threads
<1>5. Live = {}
  BY DEF Live, Processes!Live
<1>6. Lanes
  BY <1>4, SomeThreads, ThreeThreads DEF Lanes, Watches
<1>7. Known
  BY <1>4, <1>5 DEF Known
<1>8. Turns
  BY <1>4, SomeThreads DEF Turns, In, Engaged, Watches
<1>9. QED  BY <1>2, <1>3, <1>6, <1>7, <1>8 DEF Threaded, Guarded

LEMMA ThreadedNext == ASSUME Threaded, [Next]_shellVars PROVE Threaded'
  BY ProcessesKeep, ProcessesStay DEF Next, OfProcesses, shellVars

LEMMA ThreadedHolds == Spec => []Threaded
<1>1. Init => Threaded
  BY ThreadedInit DEF Init
<1>2. QED  BY <1>1, ThreadedNext, PTL DEF Spec

(* While the program runs there is one gateway at most, and the program or *)
(* the thread that is about to terminate it knows it, unless two threads   *)
(* met in the routines that start and stop it (runtime.py:94-99, 159-240). *)
THEOREM OneGatewayRuns == Spec => []OneGateway
<1>1. Threaded => OneGateway
  <2> SUFFICES ASSUME Threaded, ~clash PROVE Processes!OneGateway
    BY DEF OneGateway, Processes!OneGateway
  <2>1. Known
    BY DEF Threaded, Guarded
  <2>2. Cardinality(Live) <= 1
    <3>1. CASE Live = {}
      BY <3>1, FS_EmptySet
    <3>2. CASE Live # {}
      <4>1. PICK g \in Live : TRUE
        BY <3>2
      <4>2. Live = {g}
        BY <2>1, <4>1 DEF Known
      <4>3. Cardinality({g}) = 1
        BY FS_Singleton
      <4>4. QED  BY <4>2, <4>3
    <3>3. QED  BY <3>1, <3>2
  <2>3. \A g \in Processes!Live : g = proc \/ \E t \in Processes!Threads : Processes!Holds(t, g)
    BY <2>1 DEF Known, Live, Threads
  <2>4. Processes!Cardinality(Processes!Live) <= 1
    <3>1. Cardinality(Processes!Live) <= 1
      BY <2>2 DEF Live
    <3>2. \A S : Processes!Cardinality(S) = Cardinality(S)
      BY DEF Processes!Cardinality, Cardinality
    <3>3. QED  BY <3>1, <3>2
  <2>5. QED  BY <2>3, <2>4 DEF Processes!OneGateway
<1>2. QED  BY <1>1, ThreadedHolds, PTL

(* When the program has come to its end by itself no gateway is left but   *)
(* one that the quitting thread terminates with its next call              *)
(* (runtime.py:79-83, 324-338, launcher.py:271-276).                       *)
THEOREM NoGatewayIsLeft == Spec => []NoStrayGateway
<1>1. Threaded => NoStrayGateway
  BY ThreeThreads DEF Threaded, Guarded, Known, NoStrayGateway, Processes!NoStrayGateway,
     Live, Processes!Live, Threads
<1>2. QED  BY <1>1, ThreadedHolds, PTL

-----------------------------------------------------------------------------
(* The update checks of the two processes.                                 *)

Answers == {None, Error, Found, Latest}
Entries == [entry : Answers \cup {"torn"}, fresh : BOOLEAN, success : {None, Found, Latest}]
Checks ==
    [step : {"idle", "ask", "load", "truncate", "write", "tell"}, try : Nat,
     stale : Answers, result : Answers, merged : Entries]

Saving == {"load", "truncate", "write"}

\* The file holds the update.
Kept(file) == file.entry = Found /\ file.success = Found

CheckTypes ==
    /\ cache \in Entries
    /\ cache.entry = "torn" => cache = Torn
    /\ work \in [Checkers -> Checks] /\ answer \in [Checkers -> Answers]
    /\ newer \in BOOLEAN /\ known \in BOOLEAN /\ knew \in [Checkers -> BOOLEAN]

\* What a check is about to save is what the source said.
Honest(w) ==
    /\ w.step \in Saving /\ w.result = Found => newer
    /\ w.step \in {"truncate", "write"} =>
            w.merged.entry = w.result /\ (w.result = Found => w.merged.success = Found)

\* A check that knows of the update goes on to say so.
Knowing(w) ==
    /\ w.step = "ask" => w.stale = Found
    /\ w.step \in Saving => w.result = Found

Checked ==
    /\ CheckTypes
    /\ \A c \in Checkers : Honest(work[c])
    /\ known =>
        /\ newer
        /\ \A c, d \in Checkers : At(c, "idle") \/ At(d, "idle") \/ c = d
        /\ Kept(cache) \/ (cache = Torn /\ \E c \in Checkers : At(c, "write"))
        /\ \A c \in Checkers : Knowing(work[c])
    /\ \A c \in Checkers : knew[c] => newer /\ answer[c] # Error /\ Knowing(work[c])

LEMMA Words ==
    /\ None # Found /\ Error # Found /\ Latest # Found /\ None # Error
    /\ "torn" \notin Answers /\ Answers = {None, Error, Found, Latest}
    /\ Empty \in Entries /\ Empty.entry = None /\ Empty.success = None
    /\ Torn \in Entries /\ Torn.entry = "torn"
    /\ Idle \in Checks /\ Idle.step = "idle"
    /\ [Idle EXCEPT !.step = "tell"] \in Checks /\ [Idle EXCEPT !.step = "tell"].step = "tell"
  BY DEF None, Found, Error, Latest, Answers, Empty, Entries, Torn, Idle, Checks

LEMMA WorksIs ==
    ASSUME CheckTypes, NEW c \in Checkers, NEW new \in Checks, Works(c, new)
    PROVE  /\ work' \in [Checkers -> Checks]
           /\ \A d \in Checkers : work'[d] = IF d = c THEN new ELSE work[d]
  BY DEF CheckTypes, Works

LEMMA SaysIs ==
    ASSUME CheckTypes, NEW c \in Checkers, NEW r \in Answers, Says(c, r)
    PROVE  /\ \E new \in Checks : Works(c, new) /\ new.step \in {"idle", "tell"}
           /\ answer' \in [Checkers -> Answers]
           /\ \A d \in Checkers : answer'[d] = IF d = c THEN r ELSE answer[d]
<1>1. \E new \in Checks : Works(c, new) /\ new.step \in {"idle", "tell"}
  BY Words DEF Says
<1>2. QED  BY <1>1 DEF CheckTypes, Says

\* A check goes on with its own state.
LEMMA CheckGoesOn ==
    ASSUME Checked, NEW c \in Checkers, NEW new \in Checks, Works(c, new),
           ~At(c, "idle"), ~At(c, "write"),
           UNCHANGED <<cache, newer, known, knew>>,
           answer' \in [Checkers -> Answers],
           \A d \in Checkers : d # c => answer'[d] = answer[d],
           Honest(new), known \/ knew[c] => Knowing(new), knew[c] => answer'[c] # Error
    PROVE  Checked'
<1>1. /\ work' \in [Checkers -> Checks]
      /\ \A d \in Checkers : work'[d] = IF d = c THEN new ELSE work[d]
  BY WorksIs DEF Checked
<1>2. CheckTypes'
  BY <1>1 DEF Checked, CheckTypes
<1>3. \A d \in Checkers : Honest(work[d])'
  <2> SUFFICES ASSUME NEW d \in Checkers PROVE Honest(work[d])'
    OBVIOUS
  <2>1. Honest(work[d]) /\ Honest(new)
    BY DEF Checked
  <2>2. CASE d = c
    BY <1>1, <2>1, <2>2 DEF Honest
  <2>3. CASE d # c
    BY <1>1, <2>1, <2>3 DEF Honest
  <2>4. QED  BY <2>2, <2>3
<1>4. ASSUME NEW d \in Checkers, Knowing(work[d]), d = c => Knowing(new) PROVE Knowing(work[d])'
  BY <1>1, <1>4 DEF Knowing
<1>5. ASSUME known' PROVE
        /\ newer'
        /\ \A d, e \in Checkers : At(d, "idle")' \/ At(e, "idle")' \/ d = e
        /\ Kept(cache)' \/ (cache' = Torn /\ \E d \in Checkers : At(d, "write")')
        /\ \A d \in Checkers : Knowing(work[d])'
  <2>1. known
    BY <1>5
  <2>2. newer'
    BY <2>1 DEF Checked
  <2>3. \A d, e \in Checkers : At(d, "idle")' \/ At(e, "idle")' \/ d = e
    BY <1>1, <2>1 DEF Checked, At
  <2>4. \A d \in Checkers : At(d, "write") => At(d, "write")'
    BY <1>1 DEF At
  <2>5. Kept(cache)' \/ (cache' = Torn /\ \E d \in Checkers : At(d, "write")')
    BY <2>1, <2>4 DEF Checked, Kept
  <2>6. QED  BY <1>4, <2>1, <2>2, <2>3, <2>5 DEF Checked
<1>6. ASSUME NEW d \in Checkers, knew'[d] PROVE newer' /\ answer'[d] # Error /\ Knowing(work[d])'
  <2>1. knew[d]
    BY <1>6
  <2>2. newer /\ answer[d] # Error /\ Knowing(work[d])
    BY <2>1 DEF Checked
  <2>3. QED  BY <1>4, <2>1, <2>2
<1>7. QED  BY <1>2, <1>3, <1>5, <1>6 DEF Checked

LEMMA AskFailsKeeps == ASSUME Checked, NEW c \in Checkers, AskFails(c) PROVE Checked'
<1> DEFINE new == [work[c] EXCEPT !.try = @ + 1]
<1>1. Works(c, new) /\ UNCHANGED <<cache, newer, known, knew, answer>> /\ At(c, "ask")
  BY DEF AskFails, ghosts
<1>2. work[c] \in Checks /\ answer \in [Checkers -> Answers]
  BY DEF Checked, CheckTypes
<1>3. new \in Checks /\ new.step = "ask" /\ new.stale = work[c].stale
  BY <1>1, <1>2 DEF Checks, At
<1> HIDE DEF new
<1>4. Honest(new)
  BY <1>3 DEF Honest, Saving
<1>5. known \/ knew[c] => Knowing(work[c])
  BY DEF Checked
<1>6. known \/ knew[c] => Knowing(new)
  BY <1>1, <1>3, <1>5 DEF Knowing, At, Saving
<1>7. knew[c] => answer'[c] # Error
  BY <1>1 DEF Checked
<1>8. ~At(c, "idle") /\ ~At(c, "write")
  BY <1>1 DEF At
<1>9. QED  BY <1>1, <1>2, <1>3, <1>4, <1>6, <1>7, <1>8, CheckGoesOn

LEMMA AnsweredKeeps == ASSUME Checked, NEW c \in Checkers, Answered(c) PROVE Checked'
<1> DEFINE said == IF newer THEN Found ELSE Latest
           new == [work[c] EXCEPT !.step = "load", !.result = said]
<1>1. Works(c, new) /\ UNCHANGED <<cache, newer, known, knew, answer>> /\ At(c, "ask")
  BY DEF Answered, ghosts
<1>2. work[c] \in Checks /\ answer \in [Checkers -> Answers]
  BY DEF Checked, CheckTypes
<1>3. said \in Answers /\ (said = Found <=> newer)
  BY Words
<1> HIDE DEF said
<1>4. new \in Checks /\ new.step = "load" /\ new.result = said
  BY <1>2, <1>3 DEF Checks
<1> HIDE DEF new
<1>5. Honest(new)
  BY <1>3, <1>4 DEF Honest
<1>6. known \/ knew[c] => newer
  BY DEF Checked
<1>7. known \/ knew[c] => Knowing(new)
  BY <1>3, <1>4, <1>6 DEF Knowing
<1>8. knew[c] => answer'[c] # Error
  BY <1>1 DEF Checked
<1>9. ~At(c, "idle") /\ ~At(c, "write")
  BY <1>1 DEF At
<1>10. QED  BY <1>1, <1>2, <1>4, <1>5, <1>7, <1>8, <1>9, CheckGoesOn

LEMMA FallsBackKeeps == ASSUME Checked, NEW c \in Checkers, FallsBack(c) PROVE Checked'
<1>1. UNCHANGED <<cache, newer, known, knew>> /\ At(c, "ask")
  BY DEF FallsBack, ghosts
<1>2. ~At(c, "idle") /\ ~At(c, "write")
  BY <1>1 DEF At
<1>3. work[c] \in Checks /\ answer \in [Checkers -> Answers] /\ work[c].stale \in Answers /\ CheckTypes
  BY DEF Checked, CheckTypes, Checks
<1>4. known \/ knew[c] => work[c].stale = Found
  BY <1>1 DEF Checked, Knowing, At
<1>5. CASE work[c].stale # None
  <2>1. Says(c, work[c].stale)
    BY <1>5 DEF FallsBack
  <2>2. PICK new \in Checks : Works(c, new) /\ new.step \in {"idle", "tell"}
    BY <1>3, <2>1, SaysIs
  <2>3. /\ answer' \in [Checkers -> Answers]
        /\ \A d \in Checkers : answer'[d] = IF d = c THEN work[c].stale ELSE answer[d]
    BY <1>3, <2>1, SaysIs
  <2>4. Honest(new) /\ Knowing(new)
    BY <2>2 DEF Honest, Knowing, Saving
  <2>5. knew[c] => answer'[c] # Error
    BY <1>4, <2>3, Words
  <2>6. \A d \in Checkers : d # c => answer'[d] = answer[d]
    BY <2>3
  <2>7. QED  BY <1>1, <1>2, <2>2, <2>3, <2>4, <2>5, <2>6, CheckGoesOn
<1>6. CASE work[c].stale = None
  <2> DEFINE new == [work[c] EXCEPT !.step = "load", !.result = Error]
  <2>1. Works(c, new) /\ answer' = answer
    BY <1>6 DEF FallsBack
  <2>2. new \in Checks /\ new.step = "load" /\ new.result = Error
    BY <1>3, Words DEF Checks
  <2> HIDE DEF new
  <2>3. ~known /\ ~knew[c]
    BY <1>4, <1>6, Words
  <2>4. Honest(new)
    BY <2>2, Words DEF Honest
  <2>5. QED  BY <1>1, <1>2, <1>3, <2>1, <2>2, <2>3, <2>4, CheckGoesOn
<1>7. QED  BY <1>5, <1>6

LEMMA FileIs == ASSUME CheckTypes PROVE File \in Entries
  BY Words DEF CheckTypes, File

LEMMA MergeIs ==
    ASSUME NEW file \in Entries, NEW r \in Answers
    PROVE  /\ Merge(file, r) \in Entries /\ Merge(file, r).entry = r
           /\ r = Found => Merge(file, r).success = Found
  BY Words DEF Merge, Entries

LEMMA LoadsKeeps == ASSUME Checked, NEW c \in Checkers, Loads(c) PROVE Checked'
<1> DEFINE merged == Merge(File, work[c].result)
           new == [work[c] EXCEPT !.step = "truncate", !.merged = merged]
<1>1. Works(c, new) /\ UNCHANGED <<cache, newer, known, knew, answer>> /\ At(c, "load")
  BY DEF Loads, ghosts
<1>2. work[c] \in Checks /\ work[c].result \in Answers /\ answer \in [Checkers -> Answers] /\ File \in Entries
  BY FileIs DEF Checked, CheckTypes, Checks
<1>3. merged \in Entries /\ merged.entry = work[c].result /\ (work[c].result = Found => merged.success = Found)
  BY <1>2, MergeIs
<1> HIDE DEF merged
<1>4. new \in Checks /\ new.step = "truncate" /\ new.result = work[c].result /\ new.merged = merged
  BY <1>2, <1>3 DEF Checks
<1> HIDE DEF new
<1>5. Honest(work[c]) /\ (known \/ knew[c] => Knowing(work[c]))
  BY DEF Checked
<1>6. Honest(new)
  BY <1>1, <1>3, <1>4, <1>5 DEF Honest, At, Saving
<1>7. known \/ knew[c] => Knowing(new)
  BY <1>1, <1>4, <1>5 DEF Knowing, At, Saving
<1>8. knew[c] => answer'[c] # Error
  BY <1>1 DEF Checked
<1>9. ~At(c, "idle") /\ ~At(c, "write")
  BY <1>1 DEF At
<1>10. QED  BY <1>1, <1>2, <1>4, <1>6, <1>7, <1>8, <1>9, CheckGoesOn

LEMMA AnnouncesKeeps == ASSUME Checked, NEW c \in Checkers, Announces(c) PROVE Checked'
<1>1. Works(c, Idle) /\ UNCHANGED <<cache, newer, known, knew, answer>> /\ At(c, "tell")
  BY DEF Announces, ghosts
<1>2. answer \in [Checkers -> Answers]
  BY DEF Checked, CheckTypes
<1>3. Honest(Idle) /\ Knowing(Idle)
  BY Words DEF Honest, Knowing, Saving
<1>4. knew[c] => answer'[c] # Error
  BY <1>1 DEF Checked
<1>5. ~At(c, "idle") /\ ~At(c, "write")
  BY <1>1 DEF At
<1>6. QED  BY <1>1, <1>2, <1>3, <1>4, <1>5, Words, CheckGoesOn

\* The parts of the invariant, for the steps that touch the ghosts or the file.
KnownPart ==
    /\ newer
    /\ \A c, d \in Checkers : At(c, "idle") \/ At(d, "idle") \/ c = d
    /\ Kept(cache) \/ (cache = Torn /\ \E c \in Checkers : At(c, "write"))
    /\ \A c \in Checkers : Knowing(work[c])
KnewPart(c) == newer /\ answer[c] # Error /\ Knowing(work[c])

LEMMA CheckedParts ==
    Checked <=> /\ CheckTypes
                /\ \A c \in Checkers : Honest(work[c])
                /\ known => KnownPart
                /\ \A c \in Checkers : knew[c] => KnewPart(c)
  BY DEF Checked, KnownPart, KnewPart

\* What a check that begins does.
LEMMA CheckBegins ==
    ASSUME Checked, NEW c \in Checkers, NEW force \in BOOLEAN, Check(c, force)
    PROVE  \E new \in Checks :
              /\ Works(c, new) /\ new.step \in {"idle", "ask", "tell"}
              /\ answer' \in [Checkers -> Answers]
              /\ \A d \in Checkers \ {c} : answer'[d] = answer[d]
              /\ known' => answer'[c] # Error /\ Knowing(new)
<1>1. CheckTypes /\ File \in Entries /\ At(c, "idle") /\ (known' => known /\ Alone(c))
  BY FileIs DEF Checked, Check
<1>2. known' => File.entry = Found /\ File.success = Found
  <2> SUFFICES ASSUME known' PROVE File.entry = Found /\ File.success = Found
    OBVIOUS
  <2>1. \A d \in Checkers : ~At(d, "write")
    BY <1>1 DEF Alone, At
  <2>2. Kept(cache)
    BY <1>1, <2>1 DEF Checked
  <2>3. cache # Torn
    BY <2>2, Words DEF Kept, Answers
  <2>4. QED  BY <2>2, <2>3 DEF File, Kept
<1>3. CASE ~force /\ File.entry # None /\ File.fresh
  <2>1. Says(c, File.entry)
    BY <1>3 DEF Check
  <2>2. File.entry \in Answers
    <3>1. CASE cache = Torn
      BY <3>1, Words DEF File, Answers
    <3>2. CASE cache # Torn
      BY <1>1, <3>2 DEF File, CheckTypes, Entries
    <3>3. QED  BY <3>1, <3>2
  <2>3. PICK new \in Checks : Works(c, new) /\ new.step \in {"idle", "tell"}
    BY <1>1, <2>1, <2>2, SaysIs
  <2>4. /\ answer' \in [Checkers -> Answers]
        /\ \A d \in Checkers : answer'[d] = IF d = c THEN File.entry ELSE answer[d]
    BY <1>1, <2>1, <2>2, SaysIs
  <2>5. Knowing(new)
    BY <2>3 DEF Knowing, Saving
  <2>6. QED  BY <1>2, <2>3, <2>4, <2>5, Words
<1>4. CASE ~(~force /\ File.entry # None /\ File.fresh)
  <2> DEFINE old == IF File.success # None THEN File.success ELSE File.entry
             new == [Idle EXCEPT !.step = "ask", !.try = 1, !.stale = old]
  <2>1. Works(c, new) /\ answer' = [answer EXCEPT ![c] = None]
    BY <1>4 DEF Check
  <2>2. File.entry \in Answers
    <3>1. CASE cache = Torn
      BY <3>1, Words DEF File, Answers
    <3>2. CASE cache # Torn
      BY <1>1, <3>2 DEF File, CheckTypes, Entries
    <3>3. QED  BY <3>1, <3>2
  <2>3. old \in Answers /\ (known' => old = Found)
    BY <1>1, <1>2, <2>2, Words DEF Entries
  <2> HIDE DEF old
  <2>4. new \in Checks /\ new.step = "ask" /\ new.stale = old
    BY <2>3, Words DEF Checks
  <2> HIDE DEF new
  <2>5. known' => Knowing(new)
    BY <2>3, <2>4 DEF Knowing, Saving
  <2>6. /\ answer' \in [Checkers -> Answers] /\ answer'[c] = None
        /\ \A d \in Checkers \ {c} : answer'[d] = answer[d]
    BY <1>1, <2>1, Words DEF CheckTypes
  <2>7. QED  BY <2>1, <2>4, <2>5, <2>6, Words
<1>5. QED  BY <1>3, <1>4

LEMMA CheckKeeps ==
    ASSUME Checked, NEW c \in Checkers, NEW force \in BOOLEAN, Check(c, force)
    PROVE  Checked'
<1>1. PICK new \in Checks :
        /\ Works(c, new) /\ new.step \in {"idle", "ask", "tell"}
        /\ answer' \in [Checkers -> Answers]
        /\ \A d \in Checkers \ {c} : answer'[d] = answer[d]
        /\ known' => answer'[c] # Error /\ Knowing(new)
  BY CheckBegins
<1>2. /\ work' \in [Checkers -> Checks]
      /\ \A d \in Checkers : work'[d] = IF d = c THEN new ELSE work[d]
  BY <1>1, WorksIs DEF Checked
<1>3. /\ At(c, "idle") /\ cache' = cache /\ newer' = newer
      /\ known' = (known /\ Alone(c)) /\ knew' = [knew EXCEPT ![c] = known']
  BY DEF Check
<1>4. knew' \in [Checkers -> BOOLEAN] /\ \A d \in Checkers : knew'[d] = IF d = c THEN known' ELSE knew[d]
  BY <1>3 DEF Checked, CheckTypes
<1>5. CheckTypes'
  BY <1>1, <1>2, <1>3, <1>4 DEF Checked, CheckTypes
<1>6. ASSUME NEW d \in Checkers PROVE Honest(work[d])'
  <2>1. CASE d = c
    BY <1>1, <1>2, <2>1 DEF Honest, Saving
  <2>2. CASE d # c
    BY <1>2, <1>3, <2>2 DEF Honest, Checked
  <2>3. QED  BY <2>1, <2>2
<1>7. ASSUME known' PROVE KnownPart'
  <2>1. known /\ KnownPart /\ Alone(c)
    BY <1>3, <1>7, CheckedParts
  <2>2. \A d \in Checkers : Knowing(work[d])'
    BY <1>1, <1>2, <1>7, <2>1 DEF KnownPart, Knowing
  <2>3. \A d, e \in Checkers : At(d, "idle")' \/ At(e, "idle")' \/ d = e
    BY <1>2, <2>1 DEF Alone, At
  <2>4. \A d \in Checkers : ~At(d, "write")
    BY <1>3, <2>1 DEF Alone, At
  <2>5. QED  BY <1>3, <2>1, <2>2, <2>3, <2>4 DEF KnownPart, Kept
<1>8. ASSUME NEW d \in Checkers, knew'[d] PROVE KnewPart(d)'
  <2>1. CASE d = c
    <3>1. known'
      BY <1>4, <1>8, <2>1
    <3>2. Knowing(work[d])' /\ answer'[d] # Error
      BY <1>1, <1>2, <2>1, <3>1 DEF Knowing
    <3>3. newer'
      BY <1>7, <3>1 DEF KnownPart
    <3>4. QED  BY <3>2, <3>3 DEF KnewPart
  <2>2. CASE d # c
    <3>1. KnewPart(d)
      BY <1>4, <1>8, <2>2, CheckedParts
    <3>2. Knowing(work[d])' /\ answer'[d] # Error
      BY <1>1, <1>2, <2>2, <3>1 DEF KnewPart, Knowing
    <3>3. QED  BY <1>3, <3>1, <3>2 DEF KnewPart
  <2>3. QED  BY <2>1, <2>2
<1>9. QED  BY <1>5, <1>6, <1>7, <1>8 DEF Checked, KnownPart, KnewPart

LEMMA TruncatesKeeps == ASSUME Checked, NEW c \in Checkers, Truncates(c) PROVE Checked'
<1> DEFINE new == [work[c] EXCEPT !.step = "write"]
<1>1. Works(c, new) /\ At(c, "truncate") /\ cache' = Torn /\ UNCHANGED <<newer, known, knew, answer>>
  BY DEF Truncates, ghosts
<1>2. work[c] \in Checks
  BY DEF Checked, CheckTypes
<1>3. /\ new \in Checks /\ new.step = "write" /\ new.result = work[c].result
      /\ new.merged = work[c].merged
  BY <1>2 DEF Checks
<1> HIDE DEF new
<1>4. /\ work' \in [Checkers -> Checks]
      /\ \A d \in Checkers : work'[d] = IF d = c THEN new ELSE work[d]
  BY <1>1, <1>3, WorksIs DEF Checked
<1>5. CheckTypes'
  BY <1>1, <1>4, Words DEF Checked, CheckTypes
<1>6. ASSUME NEW d \in Checkers PROVE Honest(work[d])' /\ (Knowing(work[d]) => Knowing(work[d])')
  <2>1. Honest(work[d])
    BY DEF Checked
  <2>2. CASE d = c
    BY <1>1, <1>3, <1>4, <2>1, <2>2 DEF Honest, Saving, At, Knowing
  <2>3. CASE d # c
    BY <1>1, <1>4, <2>1, <2>3 DEF Honest, Knowing
  <2>4. QED  BY <2>2, <2>3
<1>7. ASSUME known' PROVE KnownPart'
  <2>1. KnownPart
    BY <1>1, <1>7, CheckedParts
  <2>2. \A d \in Checkers : Knowing(work[d])'
    BY <1>6, <2>1 DEF KnownPart
  <2>3. \A d, e \in Checkers : At(d, "idle")' \/ At(e, "idle")' \/ d = e
    BY <1>1, <1>4, <2>1 DEF KnownPart, At
  <2>4. At(c, "write")'
    BY <1>3, <1>4 DEF At
  <2>5. newer'
    BY <1>1, <2>1 DEF KnownPart
  <2>6. \E d \in Checkers : At(d, "write")'
    BY <2>4
  <2>7. QED  BY <1>1, <2>2, <2>3, <2>5, <2>6 DEF KnownPart
<1>8. ASSUME NEW d \in Checkers, knew'[d] PROVE KnewPart(d)'
  BY <1>1, <1>6, <1>8, CheckedParts DEF KnewPart
<1>9. QED  BY <1>5, <1>6, <1>7, <1>8 DEF Checked, KnownPart, KnewPart

LEMMA WritesKeeps == ASSUME Checked, NEW c \in Checkers, Writes(c) PROVE Checked'
<1>1. /\ At(c, "write") /\ cache' = work[c].merged /\ Says(c, work[c].result)
      /\ known' = (Alone(c) /\ update # "installing" /\ (known \/ work[c].result = Found))
      /\ UNCHANGED <<newer, knew>>
  BY DEF Writes
<1>2. CheckTypes /\ work[c] \in Checks /\ work[c].result \in Answers /\ work[c].merged \in Entries
  BY DEF Checked, CheckTypes, Checks
<1>3. PICK new \in Checks : Works(c, new) /\ new.step \in {"idle", "tell"}
  BY <1>1, <1>2, SaysIs
<1>4. /\ answer' \in [Checkers -> Answers]
      /\ \A d \in Checkers : answer'[d] = IF d = c THEN work[c].result ELSE answer[d]
  BY <1>1, <1>2, SaysIs
<1>5. /\ work' \in [Checkers -> Checks]
      /\ \A d \in Checkers : work'[d] = IF d = c THEN new ELSE work[d]
  BY <1>2, <1>3, WorksIs
<1>6. Honest(work[c])
  BY DEF Checked
<1>7. work[c].merged.entry = work[c].result /\ (work[c].result = Found => newer /\ Kept(work[c].merged))
  BY <1>1, <1>6 DEF Honest, Saving, At, Kept
<1>8. CheckTypes'
  <2>1. cache' \in Entries /\ cache'.entry # "torn"
    BY <1>1, <1>2, <1>7, Words
  <2>2. known' \in BOOLEAN /\ newer' \in BOOLEAN /\ knew' \in [Checkers -> BOOLEAN]
    BY <1>1, <1>2 DEF CheckTypes, Alone
  <2>3. QED  BY <1>4, <1>5, <2>1, <2>2 DEF CheckTypes
<1>9. ASSUME NEW d \in Checkers PROVE Honest(work[d])' /\ (Knowing(work[d]) => Knowing(work[d])')
  <2>1. Honest(work[d])
    BY DEF Checked
  <2>2. CASE d = c
    BY <1>3, <1>5, <2>2 DEF Honest, Saving, Knowing
  <2>3. CASE d # c
    BY <1>1, <1>5, <2>1, <2>3 DEF Honest, Knowing
  <2>4. QED  BY <2>2, <2>3
<1>10. Knowing(work[c]) => work[c].result = Found
  BY <1>1 DEF Knowing, Saving, At
<1>11. ASSUME known' PROVE KnownPart'
  <2>1. Alone(c) /\ (known \/ work[c].result = Found)
    BY <1>1, <1>11
  <2>2. work[c].result = Found
    BY <1>10, <2>1, CheckedParts DEF KnownPart
  <2>3. newer' /\ Kept(cache)'
    BY <1>1, <1>7, <2>2 DEF Kept
  <2>4. \A d, e \in Checkers : At(d, "idle")' \/ At(e, "idle")' \/ d = e
    BY <1>5, <2>1 DEF Alone, At
  <2>5. ASSUME NEW d \in Checkers PROVE Knowing(work[d])'
    <3>1. d # c => work'[d].step = "idle"
      BY <1>5, <2>1 DEF Alone
    <3>2. work'[d].step \in {"idle", "tell"}
      BY <1>3, <1>5, <3>1
    <3>3. QED  BY <3>2 DEF Knowing, Saving
  <2>6. QED  BY <2>3, <2>4, <2>5 DEF KnownPart
<1>12. ASSUME NEW d \in Checkers, knew'[d] PROVE KnewPart(d)'
  <2>1. KnewPart(d)
    BY <1>1, <1>12, CheckedParts
  <2>2. answer'[d] # Error
    BY <1>4, <1>10, <2>1, Words DEF KnewPart
  <2>3. QED  BY <1>1, <1>9, <2>1, <2>2 DEF KnewPart
<1>13. QED  BY <1>8, <1>9, <1>11, <1>12 DEF Checked, KnownPart, KnewPart

\* A step that leaves the checks alone.
LEMMA ChecksStay ==
    ASSUME Checked, UNCHANGED <<work, answer, knew>>, newer' \in {newer, TRUE},
           known' \in BOOLEAN, known' => known,
           cache' \in Entries, cache'.entry = "torn" => cache' = Torn,
           known' => cache' = cache \/ (Kept(cache) /\ Kept(cache)')
    PROVE  Checked'
<1>1. CheckTypes'
  BY DEF Checked, CheckTypes
<1>2. ASSUME NEW d \in Checkers
      PROVE  /\ Honest(work[d])' /\ (Knowing(work[d]) => Knowing(work[d])')
             /\ \A where : At(d, where)' <=> At(d, where)
  BY DEF Checked, Honest, Knowing, At
<1>3. ASSUME known' PROVE KnownPart'
  <2>1. KnownPart
    BY <1>3, CheckedParts
  <2>2. QED  BY <1>2, <1>3, <2>1 DEF KnownPart, Kept
<1>4. ASSUME NEW d \in Checkers, knew'[d] PROVE KnewPart(d)'
  <2>1. knew[d]
    BY <1>4
  <2>2. KnewPart(d)
    BY <2>1, CheckedParts
  <2>3. newer'
    BY <2>2 DEF KnewPart
  <2>4. QED  BY <1>2, <2>2, <2>3 DEF KnewPart
<1>5. QED  BY <1>1, <1>2, <1>3, <1>4 DEF Checked, KnownPart, KnewPart

LEMMA ExpiresKeeps == ASSUME Checked, Expires PROVE Checked'
<1>1. cache \in Entries /\ cache' = [cache EXCEPT !.fresh = FALSE] /\ cache.fresh
  BY DEF Expires, Checked, CheckTypes
<1>2. cache' \in Entries /\ cache'.entry = cache.entry /\ cache'.success = cache.success
  BY <1>1 DEF Entries
<1>3. Torn.fresh = FALSE
  BY DEF Torn, Empty
<1>4. cache.entry # "torn"
  BY <1>1, <1>3 DEF Checked, CheckTypes
<1>5. known => Kept(cache) /\ Kept(cache)'
  BY <1>1, <1>2, <1>3, CheckedParts DEF KnownPart, Kept
<1>6. UNCHANGED <<work, answer, knew, known, newer>> /\ known' \in BOOLEAN
  BY DEF Expires, ghosts, Checked, CheckTypes
<1>7. QED  BY <1>2, <1>4, <1>5, <1>6, ChecksStay

LEMMA OthersKeep ==
    ASSUME Checked, Released \/ Apply \/ Backup \/ InstallFails \/ UNCHANGED updateVars
    PROVE  Checked'
<1>1. UNCHANGED <<work, answer, knew, known, cache>> /\ newer' \in {newer, TRUE} /\ known' \in BOOLEAN
  BY DEF Released, Apply, Backup, InstallFails, updateVars, ghosts, Checked, CheckTypes
<1>2. cache' \in Entries /\ (cache'.entry = "torn" => cache' = Torn)
  BY <1>1 DEF Checked, CheckTypes
<1>3. QED  BY <1>1, <1>2, ChecksStay

LEMMA InstalledKeeps == ASSUME Checked, Installed \/ Restarts PROVE Checked'
<1>1. UNCHANGED <<work, answer, knew, newer>>
  BY DEF Installed, Restarts
<1>2. cache' \in {Empty, cache}
  BY DEF Installed, Restarts
<1>3. known' \in BOOLEAN /\ (known' => known /\ cache' = cache)
  BY DEF Installed, Restarts, Checked, CheckTypes
<1>4. cache' \in Entries /\ (cache'.entry = "torn" => cache' = Torn)
  BY <1>2, Words DEF Checked, CheckTypes, Answers
<1>5. QED  BY <1>1, <1>3, <1>4, ChecksStay

LEMMA UpdatesKeep == ASSUME Checked, UpdatesNext PROVE Checked'
<1>1. ASSUME NEW c \in Checkers, NEW force \in BOOLEAN, Check(c, force) PROVE Checked'
  BY <1>1, CheckKeeps
<1>2. ASSUME NEW c \in Checkers,
             AskFails(c) \/ Answered(c) \/ FallsBack(c) \/ Loads(c) \/ Truncates(c) \/ Writes(c) \/ Announces(c)
      PROVE  Checked'
  BY <1>2, AskFailsKeeps, AnsweredKeeps, FallsBackKeeps, LoadsKeeps, TruncatesKeeps,
     WritesKeeps,
     AnnouncesKeeps
<1>3. QED
  BY <1>1, <1>2, ExpiresKeeps, OthersKeep, InstalledKeeps DEF UpdatesNext

LEMMA CheckedInit == ASSUME UpdatesInit PROVE Checked
<1>1. CheckTypes
  BY Words DEF UpdatesInit, CheckTypes, Answers
<1>2. \A c \in Checkers : work[c] = Idle /\ ~knew[c]
  BY DEF UpdatesInit
<1>3. Honest(Idle)
  BY Words DEF Honest, Saving
<1>4. QED  BY <1>1, <1>2, <1>3 DEF Checked, UpdatesInit

LEMMA CheckedNext == ASSUME Checked, [Next]_shellVars PROVE Checked'
  BY UpdatesKeep, OthersKeep DEF Next, OfProcesses, shellVars, updaterVars

(* An update that a check has found is not forgotten: a check that begins  *)
(* later says what is known and not that it failed (checker.py:433-467).   *)
THEOREM KnownUpdatesStay == Spec => []KnownUpdateStays
<1>1. Init => Checked
  BY CheckedInit DEF Init
<1>2. Checked => KnownUpdateStays
  BY DEF Checked, KnownUpdateStays
<1>3. QED  BY <1>1, <1>2, CheckedNext, PTL DEF Spec

-----------------------------------------------------------------------------
(* The list of notices: newest first.                                      *)

\* R orders the places ps.
Orders(R, ps) ==
    /\ \A i \in ps : <<i, i>> \in R
    /\ \A i, j \in ps : <<i, j>> \in R \/ <<j, i>> \in R
    /\ \A i, j \in ps : <<i, j>> \in R /\ <<j, i>> \in R => i = j
    /\ \A i, j, k \in ps : <<i, j>> \in R /\ <<j, k>> \in R => <<i, k>> \in R

\* Counting what comes before a place numbers the places in their order.
LEMMA Numbered ==
    ASSUME NEW ps, IsFiniteSet(ps), NEW R, Orders(R, ps)
    PROVE  /\ Cardinality(ps) \in Nat
           /\ \A k \in 1 .. Cardinality(ps) : \E i \in ps : Cardinality({j \in ps : <<j, i>> \in R}) = k
           /\ \A i, j \in ps : <<i, j>> \notin R =>
                Cardinality({l \in ps : <<l, j>> \in R}) < Cardinality({l \in ps : <<l, i>> \in R})
<1> DEFINE Low(i) == {l \in ps : <<l, i>> \in R}
           rank == [i \in ps |-> Cardinality(Low(i))]
<1>1. Cardinality(ps) \in Nat
  BY FS_CardinalityType
<1>2. ASSUME NEW i \in ps
      PROVE  /\ Low(i) \in SUBSET ps /\ IsFiniteSet(Low(i)) /\ Cardinality(Low(i)) \in Nat
             /\ Cardinality(Low(i)) <= Cardinality(ps)
  BY FS_Subset, FS_CardinalityType
<1>3. ASSUME NEW i \in ps PROVE Cardinality(Low(i)) >= 1
  <2>1. i \in Low(i)
    BY DEF Orders
  <2>2. IsFiniteSet({i}) /\ Cardinality({i}) = 1
    BY FS_Singleton
  <2>3. {i} \in SUBSET Low(i)
    BY <2>1
  <2>4. Cardinality({i}) <= Cardinality(Low(i))
    BY <1>2, <2>3, FS_Subset
  <2>5. QED  BY <1>2, <2>2, <2>4
<1>4. ASSUME NEW i \in ps, NEW j \in ps, <<i, j>> \notin R
      PROVE  Cardinality(Low(j)) < Cardinality(Low(i))
  <2>1. <<j, i>> \in R
    BY <1>4 DEF Orders
  <2>2. \A l \in ps : <<l, j>> \in R => <<l, i>> \in R
    BY <2>1 DEF Orders
  <2>3. Low(j) \in SUBSET Low(i)
    BY <2>2
  <2>4. i \in Low(i) /\ i \notin Low(j)
    BY <1>4 DEF Orders
  <2>5. Low(i) # Low(j)
    BY <2>4
  <2>6. Cardinality(Low(j)) <= Cardinality(Low(i)) /\ Cardinality(Low(i)) # Cardinality(Low(j))
    BY <1>2, <2>3, <2>5, FS_Subset
  <2>7. Cardinality(Low(i)) \in Nat /\ Cardinality(Low(j)) \in Nat
    BY <1>2
  <2> HIDE DEF Low
  <2>8. QED  BY <2>6, <2>7
<1>5. \A i, j \in ps : Cardinality(Low(i)) = Cardinality(Low(j)) => i = j
  <2> SUFFICES ASSUME NEW i \in ps, NEW j \in ps, Cardinality(Low(i)) = Cardinality(Low(j)), i # j
               PROVE  FALSE
    OBVIOUS
  <2>1. <<i, j>> \notin R \/ <<j, i>> \notin R
    BY DEF Orders
  <2>2. CASE <<i, j>> \notin R
    <3>1. Cardinality(Low(j)) < Cardinality(Low(i))
      BY <1>4, <2>2
    <3>2. QED  BY <1>2, <3>1
  <2>3. CASE <<j, i>> \notin R
    <3>1. Cardinality(Low(i)) < Cardinality(Low(j))
      BY <1>4, <2>3
    <3>2. QED  BY <1>2, <3>1
  <2>4. QED  BY <2>1, <2>2, <2>3
<1>6. rank \in Injection(ps, 1 .. Cardinality(ps))
  <2>1. \A i \in ps : Cardinality(Low(i)) \in 1 .. Cardinality(ps)
    BY <1>1, <1>2, <1>3
  <2>2. rank \in [ps -> 1 .. Cardinality(ps)]
    BY <2>1
  <2>3. \A i, j \in ps : rank[i] = rank[j] => i = j
    BY <1>5
  <2>4. QED  BY <2>2, <2>3 DEF Injection, IsInjective
<1>7. IsFiniteSet(1 .. Cardinality(ps)) /\ Cardinality(1 .. Cardinality(ps)) = Cardinality(ps)
  <2>1. 1 \in Int /\ Cardinality(ps) \in Int
    BY <1>1
  <2>2. /\ IsFiniteSet(1 .. Cardinality(ps))
        /\ Cardinality(1 .. Cardinality(ps)) = IF 1 > Cardinality(ps) THEN 0 ELSE Cardinality(ps) - 1 + 1
    BY <2>1, FS_Interval
  <2>3. (IF 1 > Cardinality(ps) THEN 0 ELSE Cardinality(ps) - 1 + 1) = Cardinality(ps)
    BY <1>1
  <2>4. QED  BY <2>2, <2>3
<1>8. rank \in Surjection(ps, 1 .. Cardinality(ps))
  BY <1>6, <1>7, FS_Injection
<1>9. \A k \in 1 .. Cardinality(ps) : \E i \in ps : rank[i] = k
  BY <1>8 DEF Surjection
<1>10. \A k \in 1 .. Cardinality(ps) : \E i \in ps : Cardinality(Low(i)) = k
  BY <1>9
<1>11. QED  BY <1>1, <1>4, <1>10

\* q lists the items of s by n of the places ps, each once and in the order R.
Lists(q, n, s, ps, R) ==
    /\ n \in Nat
    /\ \E P \in [1 .. n -> ps] :
         /\ q = [k \in 1 .. n |-> s[P[k]]]
         /\ \A k, l \in 1 .. n : k < l => P[k] # P[l] /\ <<P[k], P[l]>> \in R

LEMMA InOrderIs ==
    ASSUME NEW s, NEW ps, IsFiniteSet(ps), NEW R, Orders(R, ps)
    PROVE  Lists(InOrder(s, ps, R), Cardinality(ps), s, ps, R)
<1> DEFINE Count(i) == Cardinality({j \in ps : <<j, i>> \in R})
           n == Cardinality(ps)
           P == [k \in 1 .. n |-> CHOOSE i \in ps : Count(i) = k]
<1>1. n \in Nat
  BY Numbered
<1>2. \A k \in 1 .. n : \E i \in ps : Count(i) = k
  BY Numbered
<1>3. \A i, j \in ps : <<i, j>> \notin R => Count(j) < Count(i)
  BY Numbered
<1>4. InOrder(s, ps, R) = [k \in 1 .. n |-> s[CHOOSE i \in ps : Count(i) = k]]
  BY DEF InOrder
<1> HIDE DEF Count, n
<1>5. \A k \in 1 .. n : P[k] \in ps /\ Count(P[k]) = k
  BY <1>2
<1>6. InOrder(s, ps, R) = [k \in 1 .. n |-> s[P[k]]]
  BY <1>4
<1>7. P \in [1 .. n -> ps]
  BY <1>5
<1> HIDE DEF P
<1>8. ASSUME NEW k \in 1 .. n, NEW l \in 1 .. n, k < l
      PROVE  P[k] # P[l] /\ <<P[k], P[l]>> \in R
  <2>1. /\ P[k] \in ps /\ P[l] \in ps /\ Count(P[k]) = k /\ Count(P[l]) = l
        /\ k \in Int /\ l \in Int
    BY <1>1, <1>5
  <2>2. ~(l < k) /\ k # l
    BY <1>8, <2>1
  <2>3. <<P[k], P[l]>> \notin R => l < k
    BY <1>3, <2>1
  <2>4. QED  BY <2>1, <2>2, <2>3
<1>9. \A k, l \in 1 .. n : k < l => P[k] # P[l] /\ <<P[k], P[l]>> \in R
  BY <1>8
<1>10. n \in Nat /\ \E f \in [1 .. n -> ps] :
          /\ InOrder(s, ps, R) = [k \in 1 .. n |-> s[f[k]]]
          /\ \A k, l \in 1 .. n : k < l => f[k] # f[l] /\ <<f[k], f[l]>> \in R
  BY <1>1, <1>6, <1>7, <1>9
<1>11. Lists(InOrder(s, ps, R), n, s, ps, R)
  BY <1>10 DEF Lists
<1>12. QED  BY <1>11 DEF n

Notice == [id : Nat, key : Keys \cup {NoKey}, time : Nat, read : BOOLEAN]

\* The newest first, none of the future, and one for each key.
Sorted(s) == \A i, j \in 1 .. Len(s) : i < j => s[i].time >= s[j].time
Single(s) == \A i, j \in 1 .. Len(s) : s[i].key = s[j].key /\ s[i].key # NoKey => i = j
Past(s) == \A i \in 1 .. Len(s) : s[i].time <= now
Listed ==
    /\ items \in Seq(Notice) /\ now \in Nat /\ lastId \in Nat
    /\ Past(items) /\ Sorted(items) /\ Single(items)

LEMMA Items ==
    ASSUME NEW s \in Seq(Notice)
    PROVE  /\ DOMAIN s = 1 .. Len(s) /\ Len(s) \in Nat /\ IsFiniteSet(1 .. Len(s))
           /\ \A i \in 1 .. Len(s) : i \in Int /\ s[i] \in Notice /\ s[i].time \in Int
<1>1. DOMAIN s = 1 .. Len(s) /\ Len(s) \in Nat
  OBVIOUS
<1>2. \A i \in 1 .. Len(s) : s[i] \in Notice
  BY <1>1
<1>3. \A v \in Notice : v.time \in Int
  BY DEF Notice
<1>4. IsFiniteSet(1 .. Len(s))
  <2>1. 1 \in Int /\ Len(s) \in Int
    BY <1>1
  <2>2. QED  BY <2>1, FS_Interval
<1>5. QED  BY <1>1, <1>2, <1>3, <1>4

\* The items of s at places in the order of R, where R sorts them.
LEMMA InOrderSorts ==
    ASSUME NEW s \in Seq(Notice), NEW ps \in SUBSET (1 .. Len(s)), NEW R, Orders(R, ps),
           \A i, j \in ps : <<i, j>> \in R => s[i].time >= s[j].time
    PROVE  /\ InOrder(s, ps, R) \in Seq(Notice) /\ Sorted(InOrder(s, ps, R))
           /\ Single(s) => Single(InOrder(s, ps, R))
           /\ Past(s) => Past(InOrder(s, ps, R))
<1> DEFINE q == InOrder(s, ps, R)
           n == Cardinality(ps)
<1>1. IsFiniteSet(ps)
  BY Items, FS_Subset
<1>2. Lists(q, n, s, ps, R)
  BY <1>1, InOrderIs
<1> HIDE DEF q, n
<1>0. PICK P \in [1 .. n -> ps] :
         /\ q = [k \in 1 .. n |-> s[P[k]]]
         /\ \A k, l \in 1 .. n : k < l => P[k] # P[l] /\ <<P[k], P[l]>> \in R
  BY <1>2 DEF Lists
<1>3. \A k \in 1 .. n : P[k] \in ps /\ P[k] \in 1 .. Len(s) /\ q[k] = s[P[k]] /\ s[P[k]] \in Notice
  BY <1>0, Items
<1>4. q \in Seq(Notice) /\ Len(q) = n
  <2>1. q = [k \in 1 .. n |-> s[P[k]]]
    BY <1>0
  <2>2. \A k \in 1 .. n : s[P[k]] \in Notice
    BY <1>3
  <2>3. q \in Seq(Notice)
    BY <1>2, <2>1, <2>2 DEF Lists
  <2>4. Len(q) = n
    BY <1>2, <2>1 DEF Lists
  <2>5. QED  BY <2>3, <2>4
<1>5. \A k, l \in 1 .. n : k < l => P[k] # P[l] /\ <<P[k], P[l]>> \in R
  BY <1>0
<1>6. Sorted(q)
  <2> SUFFICES ASSUME NEW k \in 1 .. n, NEW l \in 1 .. n, k < l PROVE q[k].time >= q[l].time
    BY <1>4 DEF Sorted
  <2>1. <<P[k], P[l]>> \in R
    BY <1>5
  <2>2. q[k] = s[P[k]] /\ q[l] = s[P[l]] /\ P[k] \in ps /\ P[l] \in ps
    BY <1>3
  <2>3. QED  BY <2>1, <2>2
<1>7. ASSUME Single(s) PROVE Single(q)
  <2> SUFFICES ASSUME NEW k \in 1 .. n, NEW l \in 1 .. n, k # l, q[k].key = q[l].key, q[k].key # NoKey
               PROVE  FALSE
    BY <1>4 DEF Single
  <2>1. k < l \/ l < k
    BY <1>2 DEF Lists
  <2>2. P[k] # P[l]
    BY <1>5, <2>1
  <2>3. /\ q[k] = s[P[k]] /\ q[l] = s[P[l]]
        /\ P[k] \in 1 .. Len(s) /\ P[l] \in 1 .. Len(s)
    BY <1>3
  <2>4. QED  BY <1>7, <2>2, <2>3 DEF Single
<1>8. ASSUME Past(s) PROVE Past(q)
  BY <1>3, <1>4, <1>8 DEF Past
<1>9. QED  BY <1>4, <1>6, <1>7, <1>8 DEF q

LEMMA NewestFirstIs ==
    ASSUME NEW s \in Seq(Notice), Single(s), Past(s)
    PROVE  /\ NewestFirst(s) \in Seq(Notice)
           /\ Sorted(NewestFirst(s)) /\ Single(NewestFirst(s)) /\ Past(NewestFirst(s))
<1>1. DOMAIN s = 1 .. Len(s)
  BY Items
<1>2. \A i \in 1 .. Len(s) : i \in Int /\ s[i].time \in Int
  BY Items
<1> DEFINE R == Younger(s)
<1>3. \A i, j \in 1 .. Len(s) :
        <<i, j>> \in R <=> s[i].time > s[j].time \/ (s[i].time = s[j].time /\ i <= j)
  BY <1>1 DEF Younger
<1>4. NewestFirst(s) = InOrder(s, 1 .. Len(s), R)
  BY <1>1 DEF NewestFirst
<1> HIDE DEF R
<1>5. Orders(R, 1 .. Len(s))
  <2>1. \A i \in 1 .. Len(s) : <<i, i>> \in R
    BY <1>2, <1>3
  <2>2. ASSUME NEW i \in 1 .. Len(s), NEW j \in 1 .. Len(s) PROVE <<i, j>> \in R \/ <<j, i>> \in R
    <3>1. i \in Int /\ j \in Int /\ s[i].time \in Int /\ s[j].time \in Int
      BY <1>2
    <3>2. \/ s[i].time > s[j].time \/ (s[i].time = s[j].time /\ i <= j)
          \/ s[j].time > s[i].time \/ (s[j].time = s[i].time /\ j <= i)
      BY <3>1
    <3>3. QED  BY <1>3, <3>2
  <2>3. \A i, j \in 1 .. Len(s) : <<i, j>> \in R /\ <<j, i>> \in R => i = j
    BY <1>2, <1>3
  <2>4. ASSUME NEW i \in 1 .. Len(s), NEW j \in 1 .. Len(s), NEW k \in 1 .. Len(s),
               <<i, j>> \in R, <<j, k>> \in R
        PROVE  <<i, k>> \in R
    <3>1. s[i].time \in Int /\ s[j].time \in Int /\ s[k].time \in Int
      BY <1>2
    <3>2. /\ s[i].time > s[j].time \/ (s[i].time = s[j].time /\ i <= j)
          /\ s[j].time > s[k].time \/ (s[j].time = s[k].time /\ j <= k)
      BY <1>3, <2>4
    <3>3. s[i].time > s[k].time \/ (s[i].time = s[k].time /\ i <= k)
      BY <3>1, <3>2
    <3>4. QED  BY <1>3, <3>3
  <2>5. QED  BY <2>1, <2>2, <2>3, <2>4 DEF Orders
<1>6. \A i, j \in 1 .. Len(s) : <<i, j>> \in R => s[i].time >= s[j].time
  BY <1>2, <1>3
<1>7. QED  BY <1>4, <1>5, <1>6, InOrderSorts

LEMMA WithoutIs ==
    ASSUME NEW s \in Seq(Notice), NEW ids, Sorted(s), Single(s), Past(s)
    PROVE  /\ Without(s, ids) \in Seq(Notice)
           /\ Sorted(Without(s, ids)) /\ Single(Without(s, ids)) /\ Past(Without(s, ids))
<1>1. DOMAIN s = 1 .. Len(s)
  BY Items
<1>2. \A i \in 1 .. Len(s) : i \in Int /\ s[i].time \in Int
  BY Items
<1> DEFINE ps == {i \in DOMAIN s : s[i].id \notin ids}
           R == {p \in (DOMAIN s) \X (DOMAIN s) : p[1] <= p[2]}
<1>3. ps \in SUBSET (1 .. Len(s))
  BY <1>1
<1>4. \A i, j \in 1 .. Len(s) : <<i, j>> \in R <=> i <= j
  BY <1>1
<1>5. Without(s, ids) = InOrder(s, ps, R)
  BY DEF Without
<1> HIDE DEF R, ps
<1>6. \A i \in ps : i \in 1 .. Len(s) /\ i \in Int
  BY <1>2, <1>3
<1>7. Orders(R, ps)
  BY <1>4, <1>6 DEF Orders
<1>8. ASSUME NEW i \in ps, NEW j \in ps, <<i, j>> \in R PROVE s[i].time >= s[j].time
  <2>1. i \in 1 .. Len(s) /\ j \in 1 .. Len(s) /\ i <= j
    BY <1>4, <1>6, <1>8
  <2>2. i < j \/ i = j
    BY <2>1
  <2>3. QED  BY <1>2, <2>1, <2>2 DEF Sorted
<1>9. QED  BY <1>3, <1>5, <1>7, <1>8, InOrderSorts

\* A list of the same keys.
LEMMA SameKeys ==
    ASSUME Listed, NEW s, s \in Seq(Notice), Len(s) = Len(items),
           \A i \in 1 .. Len(items) : s[i].key = items[i].key
    PROVE  Single(s)
  BY DEF Listed, Single

LEMMA MergedIs ==
    ASSUME Listed, NEW key
    PROVE  LET s == [i \in DOMAIN items |->
                       IF items[i].key = key THEN [items[i] EXCEPT !.time = now, !.read = FALSE] ELSE items[i]]
           IN  s \in Seq(Notice) /\ Single(s) /\ Past(s)
<1> DEFINE new(v) == IF v.key = key THEN [v EXCEPT !.time = now, !.read = FALSE] ELSE v
           s == [i \in DOMAIN items |-> new(items[i])]
<1>1. items \in Seq(Notice) /\ DOMAIN items = 1 .. Len(items) /\ Len(items) \in Nat /\ now \in Nat
  BY Items DEF Listed
<1>2. ASSUME NEW v \in Notice
      PROVE  new(v) \in Notice /\ new(v).key = v.key /\ (v.time <= now => new(v).time <= now)
  <2>1. CASE v.key = key
    <3>1. new(v) = [v EXCEPT !.time = now, !.read = FALSE]
      BY <2>1
    <3>2. new(v) \in Notice /\ new(v).key = v.key /\ new(v).time = now
      BY <1>1, <3>1 DEF Notice
    <3>3. QED  BY <1>1, <3>2
  <2>2. CASE v.key # key
    BY <2>2
  <2>3. QED  BY <2>1, <2>2
<1>3. \A i \in 1 .. Len(items) : items[i] \in Notice /\ items[i].time <= now
  BY <1>1, Items DEF Listed, Past
<1> HIDE DEF new
<1>4. s = [i \in 1 .. Len(items) |-> new(items[i])]
  BY <1>1
<1>5. \A i \in 1 .. Len(items) : s[i] \in Notice /\ s[i].key = items[i].key /\ s[i].time <= now
  BY <1>2, <1>3, <1>4
<1> HIDE DEF s
<1>6. s \in Seq(Notice) /\ Len(s) = Len(items)
  <2>1. \A i \in 1 .. Len(items) : new(items[i]) \in Notice
    BY <1>2, <1>3
  <2>2. s \in Seq(Notice)
    BY <1>1, <1>4, <2>1
  <2>3. Len(s) = Len(items)
    BY <1>1, <1>4
  <2>4. QED  BY <2>2, <2>3
<1>7. Single(s)
  BY <1>5, <1>6, SameKeys
<1>8. Past(s)
  BY <1>5, <1>6 DEF Past
<1>9. QED  BY <1>6, <1>7, <1>8 DEF s, new

\* A new notice is the first, and the others follow as far as there is room.
LEMMA InsertedIs ==
    ASSUME Listed, NEW key
    PROVE  LET n == [id |-> lastId + 1, key |-> key, time |-> now, read |-> FALSE]
               m == IF Len(items) + 1 > MaxItems THEN MaxItems ELSE Len(items) + 1
           IN  /\ m \in 1 .. Len(items) + 1 /\ m <= MaxItems
               /\ Len(items) + 1 <= MaxItems => m = Len(items) + 1
               /\ Inserted(items, key) = [i \in 1 .. m |-> IF i = 1 THEN n ELSE items[i - 1]]
<1> DEFINE n == [id |-> lastId + 1, key |-> key, time |-> now, read |-> FALSE]
           m == IF Len(items) + 1 > MaxItems THEN MaxItems ELSE Len(items) + 1
           all == <<n>> \o items
<1>1. items \in Seq(Notice) /\ Len(items) \in Nat /\ MaxItems \in Nat \ {0}
  BY Items, NoticesAssumption DEF Listed
<1> HIDE DEF n
<1>2. m \in 1 .. Len(items) + 1 /\ m <= MaxItems /\ (Len(items) + 1 <= MaxItems => m = Len(items) + 1)
  BY <1>1
<1>3. Len(<<n>>) = 1 /\ Len(all) = Len(items) + 1
  BY <1>1
<1>4. \A i \in 1 .. Len(items) + 1 : all[i] = IF i = 1 THEN n ELSE items[i - 1]
  BY <1>1
<1>5. Inserted(items, key) = SubSeq(all, 1, m)
  BY <1>3 DEF Inserted, n
<1> HIDE DEF all, m
<1>6. SubSeq(all, 1, m) = [i \in 1 .. m |-> all[i]]
  BY <1>2
<1>7. \A i \in 1 .. m : all[i] = IF i = 1 THEN n ELSE items[i - 1]
  BY <1>1, <1>2, <1>4
<1>8. Inserted(items, key) = [i \in 1 .. m |-> IF i = 1 THEN n ELSE items[i - 1]]
  BY <1>5, <1>6, <1>7
<1>9. QED  BY <1>2, <1>8 DEF n, m

LEMMA NotifyKeeps == ASSUME Listed, NEW key \in Keys \cup {NoKey}, Notify(key) PROVE Listed'
<1>1. now' = now /\ now \in Nat /\ lastId \in Nat /\ items \in Seq(Notice) /\ Len(items) \in Nat
  BY Items DEF Notify, Listed
<1>2. CASE Merges(key)
  <2> DEFINE s == [i \in DOMAIN items |->
                     IF items[i].key = key THEN [items[i] EXCEPT !.time = now, !.read = FALSE] ELSE items[i]]
  <2>1. items' = NewestFirst(s) /\ lastId' = lastId
    BY <1>2 DEF Notify, Refreshed
  <2>2. s \in Seq(Notice) /\ Single(s) /\ Past(s)
    BY MergedIs
  <2> HIDE DEF s
  <2>3. items' \in Seq(Notice) /\ Sorted(items') /\ Single(items') /\ Past(items')
    BY <2>1, <2>2, NewestFirstIs
  <2>4. QED  BY <1>1, <2>1, <2>3 DEF Listed, Past, Sorted, Single
<1>3. CASE ~Merges(key)
  <2> DEFINE n == [id |-> lastId + 1, key |-> key, time |-> now, read |-> FALSE]
             m == IF Len(items) + 1 > MaxItems THEN MaxItems ELSE Len(items) + 1
  <2>1. items' = Inserted(items, key) /\ lastId' = lastId + 1
    BY <1>3 DEF Notify
  <2>2. m \in 1 .. Len(items) + 1 /\ items' = [i \in 1 .. m |-> IF i = 1 THEN n ELSE items[i - 1]]
    BY <2>1, InsertedIs
  <2>3. n \in Notice /\ n.time = now /\ n.key = key
    BY <1>1 DEF Notice
  <2> HIDE DEF n, m
  <2>4. m \in Nat /\ \A i \in 1 .. m : i \in Int /\ (i # 1 => i - 1 \in 1 .. Len(items))
    BY <1>1, <2>2
  <2>5. \A i \in 1 .. m : items'[i] = IF i = 1 THEN n ELSE items[i - 1]
    BY <2>2
  <2>6. \A i \in 1 .. Len(items) : items[i] \in Notice /\ items[i].time \in Int /\ items[i].time <= now
    BY <1>1, Items DEF Listed, Past
  <2>7. \A i \in 1 .. m : items'[i] \in Notice /\ items'[i].time <= now
    BY <1>1, <2>3, <2>4, <2>5, <2>6
  <2>8. items' \in Seq(Notice) /\ Len(items') = m
    <3>1. \A i \in 1 .. m : (IF i = 1 THEN n ELSE items[i - 1]) \in Notice
      BY <2>3, <2>4, <2>6
    <3>2. items' \in Seq(Notice)
      BY <2>2, <2>4, <3>1
    <3>3. Len(items') = m
      BY <2>2, <2>4
    <3>4. QED  BY <3>2, <3>3
  <2>9. Sorted(items')
    <3> SUFFICES ASSUME NEW i \in 1 .. m, NEW j \in 1 .. m, i < j PROVE items'[i].time >= items'[j].time
      BY <2>8 DEF Sorted
    <3>1. j # 1 /\ items'[j] = items[j - 1] /\ j - 1 \in 1 .. Len(items)
      BY <2>4, <2>5
    <3>2. CASE i = 1
      BY <2>3, <2>5, <2>6, <3>1, <3>2, <1>1
    <3>3. CASE i # 1
      <4>1. items'[i] = items[i - 1] /\ i - 1 \in 1 .. Len(items) /\ i - 1 < j - 1
        BY <2>4, <2>5, <3>3
      <4>2. QED  BY <3>1, <4>1 DEF Listed, Sorted
    <3>4. QED  BY <3>2, <3>3
  <2>10. Single(items')
    <3>1. key = NoKey \/ \A i \in 1 .. Len(items) : items[i].key # key
      BY <1>1, <1>3, Items DEF Merges
    <3> SUFFICES ASSUME NEW i \in 1 .. m, NEW j \in 1 .. m, items'[i].key = items'[j].key,
                        items'[i].key # NoKey, i # j
                 PROVE  FALSE
      BY <2>8 DEF Single
    <3>2. \A l \in 1 .. m : l # 1 => items'[l] = items[l - 1] /\ l - 1 \in 1 .. Len(items)
      BY <2>4, <2>5
    <3>3. \A l \in 1 .. m : l = 1 => items'[l] = n
      BY <2>5
    <3>4. CASE i = 1
      BY <2>3, <3>1, <3>2, <3>3, <3>4
    <3>5. CASE j = 1
      BY <2>3, <3>1, <3>2, <3>3, <3>5
    <3>6. CASE i # 1 /\ j # 1
      <4>1. /\ i - 1 \in 1 .. Len(items) /\ j - 1 \in 1 .. Len(items) /\ i - 1 # j - 1
            /\ items'[i] = items[i - 1] /\ items'[j] = items[j - 1]
        BY <2>4, <3>2, <3>6
      <4>2. QED  BY <4>1 DEF Listed, Single
    <3>7. QED  BY <3>4, <3>5, <3>6
  <2>11. Past(items)'
    BY <1>1, <2>7, <2>8 DEF Past
  <2>12. QED  BY <1>1, <2>1, <2>8, <2>9, <2>10, <2>11 DEF Listed, Sorted, Single
<1>4. QED  BY <1>2, <1>3

LEMMA MarkReadKeeps == ASSUME Listed, MarkRead PROVE Listed'
<1>1. UNCHANGED <<now, lastId>> /\ now \in Nat /\ lastId \in Nat /\ items \in Seq(Notice) /\ Len(items) \in Nat
  BY Items DEF MarkRead, Listed
<1>2. PICK ids : items' = [i \in DOMAIN items |->
                             IF items[i].id \in ids THEN [items[i] EXCEPT !.read = TRUE] ELSE items[i]]
  BY DEF MarkRead
<1> DEFINE new(v) == IF v.id \in ids THEN [v EXCEPT !.read = TRUE] ELSE v
<1>3. \A v \in Notice : new(v) \in Notice /\ new(v).key = v.key /\ new(v).time = v.time
  BY DEF Notice
<1>4. items' = [i \in 1 .. Len(items) |-> new(items[i])]
  BY <1>1, <1>2, Items
<1> HIDE DEF new
<1>5. \A i \in 1 .. Len(items) : items[i] \in Notice
  BY <1>1, Items
<1>6. \A i \in 1 .. Len(items) :
         new(items[i]) \in Notice /\ items'[i].key = items[i].key /\ items'[i].time = items[i].time
  BY <1>3, <1>4, <1>5
<1>7. items' \in Seq(Notice)
  BY <1>1, <1>4, <1>6
<1>8. Len(items') = Len(items)
  BY <1>1, <1>4
<1>9. Single(items')
  BY <1>6, <1>7, <1>8, SameKeys
<1>10. Sorted(items)'
  BY <1>6, <1>8 DEF Listed, Sorted
<1>11. Past(items)'
  BY <1>1, <1>6, <1>8 DEF Listed, Past
<1>12. QED  BY <1>1, <1>7, <1>9, <1>10, <1>11 DEF Listed, Single

LEMMA DeleteKeeps == ASSUME Listed, Delete PROVE Listed'
<1>1. UNCHANGED <<now, lastId>> /\ items \in Seq(Notice) /\ Sorted(items) /\ Single(items) /\ Past(items)
  BY DEF Delete, Listed
<1>2. PICK ids : items' = Without(items, ids)
  BY DEF Delete
<1>3. items' \in Seq(Notice) /\ Sorted(items') /\ Single(items') /\ Past(items')
  BY <1>1, <1>2, WithoutIs
<1>4. QED  BY <1>1, <1>3 DEF Listed, Sorted, Single, Past

\* Time may go on, and the list stays.
LEMMA ListStays == ASSUME Listed, UNCHANGED <<items, lastId>>, now' \in {now, now + 1} PROVE Listed'
<1>1. now \in Nat /\ now' \in Nat /\ now <= now'
  BY DEF Listed
<1>2. \A i \in 1 .. Len(items) : items[i].time \in Int /\ items[i].time <= now
  BY Items DEF Listed, Past
<1>3. Past(items)'
  BY <1>1, <1>2 DEF Past
<1>4. QED  BY <1>1, <1>3 DEF Listed, Sorted, Single

LEMMA ListedInit == ASSUME NoticesInit PROVE Listed
<1>1. items = <<>> /\ Len(items) = 0 /\ lastId = 0 /\ now \in Nat
  BY NoticesAssumption DEF NoticesInit
<1>2. QED  BY <1>1 DEF Listed, Sorted, Single, Past

LEMMA CentreKeeps == ASSUME Listed, NoticesNext PROVE Listed'
<1>1. ASSUME Tell \/ ShowFlag \/ ShowWindow \/ HideWindow \/ Tick PROVE Listed'
  <2>1. UNCHANGED <<items, lastId>> /\ now' \in {now, now + 1}
    BY <1>1 DEF Tell, ShowFlag, ShowWindow, HideWindow, Tick
  <2>2. QED  BY <2>1, ListStays
<1>2. QED  BY <1>1, NotifyKeeps, MarkReadKeeps, DeleteKeeps DEF NoticesNext

\* What the updater does with the list is to announce, to tell and to delete.
LEMMA UpdaterLists ==
    ASSUME UpdatesNext
    PROVE  Notify("update") \/ Tell \/ Delete \/ UNCHANGED noticeVars
  BY DEF UpdatesNext, Check, AskFails, Answered, FallsBack, Loads, Truncates, Writes, Announces,
     Expires, Released, Apply, Backup, InstallFails, Installed, Restarts

\* In every part of the desktop program the list is changed by the steps of the centre.
LEMMA ListChanges ==
    ASSUME [Next]_shellVars
    PROVE  NoticesNext \/ UNCHANGED noticeVars
<1>1. UpdatesNext => NoticesNext \/ UNCHANGED noticeVars
  <2>1. Notify("update") => NoticesNext
    BY UpdatesAssumption DEF NoticesNext
  <2>2. Tell \/ Delete => NoticesNext
    BY DEF NoticesNext
  <2>3. QED  BY <2>1, <2>2, UpdaterLists
<1>2. QED  BY <1>1 DEF Next, OfProcesses, shellVars, updaterVars

LEMMA ListedNext == ASSUME Listed, [Next]_shellVars PROVE Listed'
<1>1. CASE NoticesNext
  BY <1>1, CentreKeeps
<1>2. CASE UNCHANGED noticeVars
  BY <1>2, ListStays DEF noticeVars
<1>3. QED  BY <1>1, <1>2, ListChanges

\* The step that drops a notice is the one that creates another.
LEMMA Drops ==
    ASSUME Listed, [Next]_shellVars, lastId' > lastId, NEW i \in DOMAIN items,
           \A j \in DOMAIN items' : items'[j].id # items[i].id
    PROVE  \A j \in DOMAIN items' : items'[j].time >= items[i].time
<1>1. now \in Nat /\ lastId \in Nat /\ items \in Seq(Notice) /\ Len(items) \in Nat /\ DOMAIN items = 1 .. Len(items)
  BY Items DEF Listed
<1>2. ~(lastId' = lastId)
  BY <1>1
<1>3. PICK key \in Keys \cup {NoKey} : Notify(key)
  <2>1. NoticesNext
    BY <1>2, ListChanges DEF noticeVars
  <2>2. QED  BY <1>2, <2>1 DEF NoticesNext, Tell, MarkRead, Delete, ShowFlag, ShowWindow, HideWindow, Tick
<1>4. items' = Inserted(items, key)
  BY <1>2, <1>3 DEF Notify
<1> DEFINE n == [id |-> lastId + 1, key |-> key, time |-> now, read |-> FALSE]
           m == IF Len(items) + 1 > MaxItems THEN MaxItems ELSE Len(items) + 1
<1>5. m \in 1 .. Len(items) + 1 /\ items' = [j \in 1 .. m |-> IF j = 1 THEN n ELSE items[j - 1]]
  BY <1>4, InsertedIs
<1>6. n.time = now
  OBVIOUS
<1> HIDE DEF n, m
<1>7. DOMAIN items' = 1 .. m /\ \A j \in 1 .. m : items'[j] = IF j = 1 THEN n ELSE items[j - 1]
  BY <1>5
<1>8. i \in Int /\ i >= 1 /\ i + 1 > m
  <2>1. i \in Int /\ i >= 1 /\ m \in Int
    BY <1>1, <1>5
  <2>2. ~(i + 1 \in 1 .. m)
    <3>1. i + 1 # 1 /\ (i + 1) - 1 = i
      BY <2>1
    <3>2. i + 1 \in 1 .. m => items'[i + 1] = items[i]
      BY <1>7, <3>1
    <3>3. QED  BY <1>7, <3>2
  <2>3. QED  BY <2>1, <2>2
<1>9. items[i].time \in Int /\ items[i].time <= now /\ i \in 1 .. Len(items)
  BY <1>1, Items DEF Listed, Past
<1>10. ASSUME NEW j \in 1 .. m PROVE items'[j].time >= items[i].time
  <2>1. CASE j = 1
    BY <1>1, <1>6, <1>7, <1>9, <2>1
  <2>2. CASE j # 1
    <3>1. j - 1 \in 1 .. Len(items) /\ j - 1 < i /\ items'[j] = items[j - 1]
      BY <1>1, <1>5, <1>7, <1>8, <2>2
    <3>2. QED  BY <1>9, <3>1 DEF Listed, Sorted
  <2>3. QED  BY <2>1, <2>2
<1>11. QED  BY <1>7, <1>10

LEMMA ListedHolds == Spec => []Listed
<1>1. Init => Listed
  BY ListedInit DEF Init, UpdatesInit
<1>2. QED  BY <1>1, ListedNext, PTL DEF Spec

(* A full list loses the notice that has not been written to for longest,  *)
(* however long ago the ones that stay were created, and whoever refreshed *)
(* them (notification_manager.py:190-224): for every list size, set of     *)
(* keys and number of notices.                                             *)
THEOREM TheOldestIsDropped == Spec => DropsTheOldest
<1> DEFINE Step == \A i \in DOMAIN items :
                     (lastId' > lastId /\ \A j \in DOMAIN items' : items'[j].id # items[i].id)
                       => \A j \in DOMAIN items' : items'[j].time >= items[i].time
<1>1. Listed /\ [Next]_shellVars => Step
  BY Drops
<1> HIDE DEF Step
<1>2. Listed /\ [Next]_shellVars => [Step]_items
  BY <1>1
<1>3. Spec => [][Step]_items
  BY <1>2, ListedHolds, PTL DEF Spec
<1>4. QED  BY <1>3 DEF DropsTheOldest, Step

(* However often and from whichever process an update is reported, the     *)
(* centre lists it once (notification_manager.py:132-149, 188-206).        *)
THEOREM OneNoticeForTheUpdate == Spec => []OneUpdateNotice
<1>1. ASSUME Listed PROVE OneUpdateNotice
  <2> DEFINE ps == {i \in DOMAIN items : items[i].key = "update"}
  <2>1. \A i, j \in ps : i = j
    BY <1>1, Items, NoticesAssumption, UpdatesAssumption DEF Listed, Single
  <2>2. IsFiniteSet({}) /\ Cardinality({}) = 0
    BY FS_EmptySet
  <2>3. ASSUME NEW i \in ps PROVE Cardinality(ps) = 1
    <3>1. ps = {i}
      BY <2>1
    <3>2. QED  BY <3>1, FS_Singleton
  <2>4. ps = {} \/ \E i \in ps : TRUE
    OBVIOUS
  <2>5. Cardinality(ps) <= 1
    BY <2>2, <2>3, <2>4
  <2>6. QED  BY <2>5 DEF OneUpdateNotice
<1>2. QED  BY <1>1, ListedHolds, PTL

=============================================================================
