-------------------------- MODULE SessionsProofs --------------------------
(***************************************************************************)
(* Proof that the session file holds the conversation as long as nobody    *)
(* saves an object that is behind the file (Sessions!InSync), for any      *)
(* number of tasks, objects and messages.                                  *)
(***************************************************************************)
EXTENDS Sessions, SequenceTheorems, TLAPS

Known == [n : Nat, cons : Nat, learned : Nat, meta : Metas]
Views == [obj : Objs, data : Session, counts : Known]

TaskKinds == {"none", "chat", "system", "consolidate", "learn"}

\* A cache entry whose mtime has not passed is what the file holds, and the
\* persisted counters of its key are those of the file.
Exact(p) ==
    cache[p] # NoObj =>
        /\ seen[p] = "none" => objs[cache[p]] = Blank /\ persisted[p] = Counts(Blank)
        /\ seen[p] = "current" => objs[cache[p]] = file.data
                                  /\ persisted[p] = Counts(file.data)

\* The mtime a process noted is that of a file that is there.
Filed ==
    /\ ~file.there => file.data = Blank
    /\ \A p \in Procs : seen[p] = "current" => file.there

\* The processes share no object, and a task at work has one.
Owned ==
    /\ \A t \in Tasks : tasks[t] = Free \/ tasks[t].obj \in Objs \ {cache["webui"]}
    /\ cache["gateway"] # cache["webui"] \/ cache["gateway"] = NoObj

Synced ==
    /\ file.data.msgs = log /\ file.data.meta = named
    /\ \A p \in Procs : Exact(p)

Inductive == TypeOK /\ Filed /\ Owned /\ (stale = 0 => Synced)

\* What is at hand is what the file holds.
Good(v) == v.data = file.data /\ v.counts = Counts(file.data)

\* A session is only ever appended to or cleared.
Grown(old, new) ==
    new.msgs = <<>> \/ \E xs \in Seq(Message) : new.msgs = old.msgs \o xs

-----------------------------------------------------------------------------
(* Opening a session. *)

LEMMA BlankSession == Blank \in Session /\ Len(Blank.msgs) = 0
BY SessionAssumption DEF Blank, Session

LEMMA CountsKnown == ASSUME NEW s \in Session PROVE Counts(s) \in Known
BY DEF Counts, Session, Known

LEMMA SpareFree ==
    ASSUME NEW p \in Procs, NEW o \in Spare(p)
    PROVE  o \in Objs /\ o \notin HeldBesides(p)
<1>1. ~(Objs \subseteq HeldBesides(p))
  BY DEF Spare
<1>2. \E x \in Objs : x \notin HeldBesides(p)
  BY <1>1
<1>3. o = CHOOSE x \in Objs : x \notin HeldBesides(p)
  BY <1>1 DEF Spare
<1>4. QED
  BY <1>2, <1>3

\* get_or_create gives p an object of its own which, unless somebody saved
\* behind the file, is what the file holds.
LEMMA OpenedGood ==
    ASSUME Inductive, NEW p \in Procs, NEW v \in Opened(p)
    PROVE  /\ v \in Views
           /\ \A q \in Procs \ {p} : v.obj # cache[q]
           /\ p = "webui" => \A t \in Tasks : tasks[t].obj # v.obj
           /\ stale = 0 => Good(v)
<1>t. /\ file.data \in Session /\ file.there \in BOOLEAN
      /\ cache \in [Procs -> Objs \cup {NoObj}] /\ objs \in [Objs -> Session]
      /\ persisted \in [Procs -> Known] /\ tasks \in [Tasks -> Task]
  BY DEF Inductive, TypeOK, Known
<1>1. CASE Fresh(p)
  <2>1. /\ v = [obj |-> cache[p], data |-> objs[cache[p]], counts |-> persisted[p]]
        /\ cache[p] \in Objs
    BY <1>1, <1>t DEF Opened, Fresh
  <2>2. v \in Views
    BY <2>1, <1>t DEF Views
  <2>3. \A q \in Procs \ {p} : v.obj # cache[q]
    BY <2>1, SessionAssumption DEF Inductive, Owned, Procs
  <2>4. ASSUME p = "webui", NEW t \in Tasks PROVE tasks[t].obj # v.obj
    BY <2>1, <2>4, SessionAssumption DEF Inductive, Owned, Free
  <2>5. ASSUME stale = 0 PROVE Good(v)
    <3>1. Exact(p)
      BY <2>5 DEF Inductive, Synced
    <3>2. CASE file.there
      BY <3>1, <3>2, <2>1, <1>1, SessionAssumption DEF Exact, Good, Fresh
    <3>3. CASE ~file.there
      BY <3>1, <3>3, <2>1, <1>1, SessionAssumption DEF Exact, Good, Fresh, Inductive, Filed
    <3>4. QED  BY <3>2, <3>3
  <2>6. QED  BY <2>2, <2>3, <2>4, <2>5
<1>2. CASE ~Fresh(p)
  <2>1. PICK o \in Spare(p) :
            v = [obj |-> o, data |-> file.data, counts |-> Counts(file.data)]
    BY <1>2 DEF Opened
  <2>2. o \in Objs /\ o \notin HeldBesides(p)
    BY SpareFree
  <2>3. v \in Views
    BY <2>1, <2>2, <1>t, CountsKnown DEF Views
  <2>4. /\ \A q \in Procs \ {p} : o # cache[q]
        /\ \A t \in Tasks : tasks[t].obj # o
    BY <2>2 DEF HeldBesides
  <2>5. QED  BY <2>1, <2>3, <2>4 DEF Good
<1>3. QED  BY <1>1, <1>2

\* So is the object of a task that is not behind.
LEMMA MineGood ==
    ASSUME Inductive, NEW t \in Tasks, tasks[t] # Free
    PROVE  /\ Mine(t) \in Views
           /\ Mine(t).obj = tasks[t].obj /\ Mine(t).data = objs[tasks[t].obj]
           /\ Mine(t).obj # cache["webui"]
           /\ stale = 0 /\ ~Behind(t) => Good(Mine(t))
<1>t. /\ cache \in [Procs -> Objs \cup {NoObj}] /\ objs \in [Objs -> Session]
      /\ persisted \in [Procs -> Known] /\ tasks[t].obj \in Objs
      /\ tasks[t].obj # cache["webui"] /\ "gateway" \in Procs
  BY DEF Inductive, TypeOK, Known, Owned, Procs
<1>1. Mine(t) \in Views
  BY <1>t DEF Mine, Views
<1>2. ASSUME stale = 0, ~Behind(t) PROVE Good(Mine(t))
  <2>1. tasks[t].obj = cache["gateway"] /\ Fresh("gateway") /\ Exact("gateway")
    BY <1>2, <1>t DEF Behind, Inductive, Synced
  <2>2. CASE file.there
    BY <2>1, <2>2, <1>t, SessionAssumption DEF Exact, Good, Fresh, Mine
  <2>3. CASE ~file.there
    BY <2>1, <2>3, <1>t, SessionAssumption DEF Exact, Good, Fresh, Mine, Inductive, Filed
  <2>4. QED  BY <2>2, <2>3
<1>3. QED  BY <1>1, <1>2, <1>t DEF Mine

-----------------------------------------------------------------------------
(* Saving a session. *)

\* What was appended to a sequence is its end.
LEMMA TailOfConcat ==
    ASSUME NEW S, NEW s \in Seq(S), NEW t \in Seq(S)
    PROVE  SubSeq(s \o t, Len(s) + 1, Len(s \o t)) = t
<1> DEFINE w == s \o t
<1>1. /\ w \in Seq(S) /\ Len(w) = Len(s) + Len(t)
      /\ Len(s) \in Nat /\ Len(t) \in Nat
      /\ \A i \in 1 .. Len(w) : w[i] = IF i <= Len(s) THEN s[i] ELSE t[i - Len(s)]
  BY ConcatProperties
<1> HIDE DEF w
<1>2. \A i \in Len(s) + 1 .. Len(w) : w[i] \in S
  BY <1>1, ElementOfSeq
<1>3. /\ SubSeq(w, Len(s) + 1, Len(w)) \in Seq(S)
      /\ Len(SubSeq(w, Len(s) + 1, Len(w))) = Len(t)
      /\ \A i \in 1 .. Len(t) :
           SubSeq(w, Len(s) + 1, Len(w))[i] = w[Len(s) + i]
  <2>1. Len(s) + 1 \in Int /\ Len(w) \in Int
    BY <1>1
  <2>2. /\ SubSeq(w, Len(s) + 1, Len(w)) \in Seq(S)
        /\ Len(SubSeq(w, Len(s) + 1, Len(w)))
             = IF Len(s) + 1 <= Len(w) THEN Len(w) - (Len(s) + 1) + 1 ELSE 0
        /\ \A i \in 1 .. Len(w) - (Len(s) + 1) + 1 :
             SubSeq(w, Len(s) + 1, Len(w))[i] = w[Len(s) + 1 + i - 1]
    BY <1>2, <2>1, SubSeqProperties
  <2> DEFINE q == SubSeq(w, Len(s) + 1, Len(w))
  <2> HIDE DEF q
  <2>3. /\ q \in Seq(S)
        /\ Len(q) = IF Len(s) + 1 <= Len(w) THEN Len(w) - (Len(s) + 1) + 1 ELSE 0
        /\ \A i \in 1 .. Len(w) - (Len(s) + 1) + 1 : q[i] = w[Len(s) + 1 + i - 1]
    BY <2>2 DEF q
  <2>4. q \in Seq(S) /\ Len(q) = Len(t)
    BY <1>1, <2>3
  <2>5. \A i \in 1 .. Len(t) : q[i] = w[Len(s) + i]
    <3>1. Len(w) - (Len(s) + 1) + 1 = Len(t)
      BY <1>1
    <3>2. \A i \in 1 .. Len(t) : q[i] = w[Len(s) + 1 + i - 1]
      BY <2>3, <3>1
    <3>3. \A i \in 1 .. Len(t) : Len(s) + 1 + i - 1 = Len(s) + i
      BY <1>1
    <3>4. QED  BY <3>2, <3>3
  <2>6. QED  BY <2>4, <2>5 DEF q
<1>4. \A i \in 1 .. Len(t) : w[Len(s) + i] = t[i]
  <2>1. ASSUME NEW i \in 1 .. Len(t) PROVE w[Len(s) + i] = t[i]
    <3>1. Len(s) + i \in 1 .. Len(w) /\ ~(Len(s) + i <= Len(s)) /\ Len(s) + i - Len(s) = i
      BY <1>1
    <3>2. QED  BY <1>1, <3>1
  <2>2. QED  BY <2>1
<1>5. SubSeq(w, Len(s) + 1, Len(w)) = t
  BY <1>3, <1>4, SeqEqual
<1>6. QED  BY <1>5 DEF w

\* What is appended is what the session has grown by.
LEMMA AddedIsGrowth ==
    ASSUME NEW old \in Session, NEW new \in Session, Grown(old, new),
           CanAppend(new, Counts(old))
    PROVE  [old EXCEPT !.msgs = @ \o Added(new, Counts(old))] = new
<1>1. /\ Len(new.msgs) >= Len(old.msgs)
      /\ new.cons = old.cons /\ new.learned = old.learned /\ new.meta = old.meta
      /\ old.msgs \in Seq(Message) /\ new.msgs \in Seq(Message)
  BY DEF CanAppend, Counts, Session
<1>2. Added(new, Counts(old)) = SubSeq(new.msgs, Len(old.msgs) + 1, Len(new.msgs))
  BY DEF Added, Counts
<1>3. old.msgs \o SubSeq(new.msgs, Len(old.msgs) + 1, Len(new.msgs)) = new.msgs
  <2>1. CASE new.msgs = <<>>
    BY <1>1, <2>1
  <2>2. ASSUME NEW xs \in Seq(Message), new.msgs = old.msgs \o xs
        PROVE  old.msgs \o SubSeq(new.msgs, Len(old.msgs) + 1, Len(new.msgs)) = new.msgs
    <3>1. SubSeq(old.msgs \o xs, Len(old.msgs) + 1, Len(old.msgs \o xs)) = xs
      BY <1>1, TailOfConcat
    <3>2. QED  BY <3>1, <2>2
  <2>3. QED  BY <2>1, <2>2 DEF Grown
<1>4. QED  BY <1>1, <1>2, <1>3 DEF Session

\* save() through a good view leaves the file holding the session, and spoils
\* no cache entry without its mtime telling.
LEMMA WriteWorks ==
    ASSUME Inductive, NEW p \in Procs, NEW v \in Views, NEW data \in Session,
           Write(p, v, data)
    PROVE  /\ file' \in [there : BOOLEAN, data : Session] /\ file'.there
           /\ persisted' \in [Procs -> Known]
           /\ persisted'[p] = Counts(data)
           /\ seen' \in [Procs -> {"none", "current", "old"}]
           /\ seen'[p] = "current"
           /\ \A q \in Procs \ {p} :
                /\ persisted'[q] = persisted[q]
                /\ seen'[q] = seen[q] \/ seen'[q] = "old"
           /\ Good(v) /\ Grown(v.data, data) =>
                /\ file'.data = data
                /\ \A q \in Procs \ {p} : seen'[q] = "current" => file'.data = file.data
<1>t. /\ file.data \in Session /\ file.there \in BOOLEAN
      /\ file \in [there : BOOLEAN, data : Session]
      /\ persisted \in [Procs -> Known]
      /\ seen \in [Procs -> {"none", "current", "old"}]
      /\ v.data \in Session /\ v.counts \in Known
  BY DEF Inductive, TypeOK, Known, Views
<1>s. Counts(data) \in Known
  BY CountsKnown
<1> DEFINE append == CanAppend(data, v.counts)
           added == Added(data, v.counts)
<1>w. /\ file' = [there |-> TRUE,
                  data |-> IF append THEN [file.data EXCEPT !.msgs = @ \o added] ELSE data]
      /\ persisted' = [persisted EXCEPT ![p] = Counts(data)]
      /\ seen' = [q \in Procs |-> IF q = p THEN "current"
                                  ELSE IF seen[q] = "current" /\ ~(append /\ added = <<>>)
                                       THEN "old" ELSE seen[q]]
  BY DEF Write
<1>1. added \in Seq(Message)
  <2>1. /\ data.msgs \in Seq(Message) /\ Len(data.msgs) \in Nat /\ v.counts.n + 1 \in Int
        /\ \A i \in v.counts.n + 1 .. Len(data.msgs) : data.msgs[i] \in Message
    <3>1. data.msgs \in Seq(Message) /\ v.counts.n \in Nat
      BY <1>t DEF Session, Known
    <3>2. QED  BY <3>1, LenProperties, ElementOfSeq
  <2>2. added = SubSeq(data.msgs, v.counts.n + 1, Len(data.msgs))
    BY DEF Added
  <2>3. QED  BY <2>1, <2>2, SubSeqProperties
<1>2. file' \in [there : BOOLEAN, data : Session] /\ file'.there
  <2>1. CASE append
    <3> HIDE DEF append, added
    <3>1. file.data.msgs \in Seq(Message)
      BY <1>t DEF Session
    <3>2. file.data.msgs \o added \in Seq(Message)
      BY <1>1, <3>1, ConcatProperties
    <3>3. [file.data EXCEPT !.msgs = @ \o added] \in Session
      BY <1>t, <3>2 DEF Session
    <3>4. QED  BY <1>w, <2>1, <3>3
  <2>2. CASE ~append
    <3> HIDE DEF append, added
    <3> QED  BY <1>w, <2>2
  <2>3. QED  BY <2>1, <2>2
<1>3. /\ persisted' \in [Procs -> Known] /\ persisted'[p] = Counts(data)
      /\ \A q \in Procs \ {p} : persisted'[q] = persisted[q]
  <2> HIDE DEF append, added
  <2> QED  BY <1>w, <1>t, <1>s
<1>4. /\ seen' \in [Procs -> {"none", "current", "old"}] /\ seen'[p] = "current"
      /\ \A q \in Procs \ {p} : seen'[q] = seen[q] \/ seen'[q] = "old"
  <2> HIDE DEF append, added
  <2> QED  BY <1>w, <1>t
<1>5. ASSUME Good(v), Grown(v.data, data)
      PROVE  /\ file'.data = data
             /\ \A q \in Procs \ {p} : seen'[q] = "current" => file'.data = file.data
  <2>1. CASE append
    <3>1. CanAppend(data, Counts(file.data)) /\ added = Added(data, Counts(file.data))
      BY <1>5, <2>1 DEF Good
    <3>2. [file.data EXCEPT !.msgs = @ \o added] = data
      BY <3>1, <1>5, <1>t, AddedIsGrowth DEF Good
    <3>3. ASSUME added = <<>> PROVE [file.data EXCEPT !.msgs = @ \o added] = file.data
      BY <3>3, <1>t DEF Session
    <3> HIDE DEF append, added
    <3>4. file'.data = data
      BY <1>w, <2>1, <3>2
    <3>5. ASSUME NEW q \in Procs \ {p}, seen'[q] = "current" PROVE added = <<>>
      BY <1>w, <3>5, <2>1, <1>t
    <3>6. QED  BY <3>2, <3>3, <3>4, <3>5
  <2>2. CASE ~append
    <3> HIDE DEF append, added
    <3> QED  BY <1>w, <2>2, <1>t
  <2>3. QED  BY <2>1, <2>2
<1>6. QED  BY <1>2, <1>3, <1>4, <1>5

\* The objects that still count are kept.
LEMMA KeepKeeps ==
    ASSUME NEW new \in [Objs -> Session], Keep(new)
    PROVE  /\ objs' \in [Objs -> Session]
           /\ \A q \in Procs : cache'[q] \in Objs /\ seen'[q] # "old"
                                => objs'[cache'[q]] = new[cache'[q]]
<1>1. objs' \in [Objs -> Session]
  BY BlankSession DEF Keep
<1>2. ASSUME NEW q \in Procs, cache'[q] \in Objs, seen'[q] # "old"
      PROVE  objs'[cache'[q]] = new[cache'[q]]
  <2>1. cache'[q] \in InUse'
    BY <1>2 DEF InUse
  <2>2. QED  BY <2>1, <1>2 DEF Keep
<1>3. QED  BY <1>1, <1>2

-----------------------------------------------------------------------------
(* Everything that happens to a view at hand. *)

LEMMA PutWorks ==
    ASSUME Inductive, NEW p \in Procs, NEW v \in Views, NEW data \in Session,
           NEW how \in {"save", "open", "keep"}, Put(p, v, data, how),
           \A q \in Procs \ {p} : v.obj # cache[q]
    PROVE  /\ file' \in [there : BOOLEAN, data : Session]
           /\ cache' \in [Procs -> Objs \cup {NoObj}]
           /\ persisted' \in [Procs -> Known]
           /\ seen' \in [Procs -> {"none", "current", "old"}]
           /\ objs' \in [Objs -> Session]
           /\ Filed'
           /\ cache'[p] \in {cache[p], v.obj}
           /\ \A q \in Procs \ {p} : cache'[q] = cache[q]
           /\ (/\ stale = 0
               /\ how # "keep" => Good(v) /\ Grown(v.data, data)
               /\ how = "open" => data = v.data) =>
                  /\ file'.data = (IF how = "save" THEN data ELSE file.data)
                  /\ \A q \in Procs : Exact(q)'
<1>t. /\ file.data \in Session /\ file.there \in BOOLEAN
      /\ file \in [there : BOOLEAN, data : Session]
      /\ cache \in [Procs -> Objs \cup {NoObj}] /\ objs \in [Objs -> Session]
      /\ persisted \in [Procs -> Known]
      /\ seen \in [Procs -> {"none", "current", "old"}]
      /\ v.obj \in Objs /\ v.counts \in Known /\ Filed
      /\ \A q \in Procs : stale = 0 => Exact(q)
  BY DEF Inductive, TypeOK, Known, Views, Synced
<1>1. CASE how = "save"
  <2>1. /\ Write(p, v, data) /\ cache' = [cache EXCEPT ![p] = v.obj]
        /\ Keep([objs EXCEPT ![v.obj] = data])
    BY <1>1 DEF Put
  <2>2. [objs EXCEPT ![v.obj] = data] \in [Objs -> Session]
    BY <1>t
  <2>3. /\ file' \in [there : BOOLEAN, data : Session] /\ file'.there
        /\ persisted' \in [Procs -> Known] /\ persisted'[p] = Counts(data)
        /\ seen' \in [Procs -> {"none", "current", "old"}] /\ seen'[p] = "current"
        /\ \A q \in Procs \ {p} : /\ persisted'[q] = persisted[q]
                                  /\ seen'[q] = seen[q] \/ seen'[q] = "old"
        /\ Good(v) /\ Grown(v.data, data) =>
             /\ file'.data = data
             /\ \A q \in Procs \ {p} : seen'[q] = "current" => file'.data = file.data
    BY <2>1, WriteWorks
  <2>4. /\ objs' \in [Objs -> Session]
        /\ \A q \in Procs : cache'[q] \in Objs /\ seen'[q] # "old"
                => objs'[cache'[q]] = [objs EXCEPT ![v.obj] = data][cache'[q]]
    BY <2>1, <2>2, KeepKeeps
  <2>5. ASSUME stale = 0, Good(v), Grown(v.data, data), NEW q \in Procs PROVE Exact(q)'
    <3>1. SUFFICES ASSUME cache'[q] # NoObj, seen'[q] # "old"
                   PROVE  /\ seen'[q] = "none" => objs'[cache'[q]] = Blank
                                                 /\ persisted'[q] = Counts(Blank)
                          /\ seen'[q] = "current" => objs'[cache'[q]] = file'.data
                                                 /\ persisted'[q] = Counts(file'.data)
      <4> Blank' = Blank /\ Counts(Blank)' = Counts(Blank)
        BY DEF Blank, Counts
      <4> QED  BY DEF Exact, Counts
    <3>2. cache'[q] \in Objs
      BY <3>1, <2>1, <1>t
    <3>3. CASE q = p
      BY <3>3, <3>2, <2>1, <2>3, <2>4, <2>5, <3>1, <1>t
    <3>4. CASE q # p
      <4>1. cache'[q] = cache[q] /\ cache[q] # v.obj /\ seen'[q] = seen[q]
            /\ persisted'[q] = persisted[q]
        BY <3>4, <2>1, <2>3, <3>1, <1>t
      <4>2. objs'[cache'[q]] = objs[cache[q]]
        BY <4>1, <3>1, <3>2, <2>4, <1>t
      <4>3. Exact(q) /\ (seen'[q] = "current" => file'.data = file.data)
        BY <2>5, <2>3, <3>4, <1>t
      <4>4. QED  BY <4>1, <4>2, <4>3, <3>1 DEF Exact
    <3>5. QED  BY <3>3, <3>4
  <2>6. Filed'
    BY <2>3 DEF Filed
  <2>7. QED  BY <1>1, <2>1, <2>3, <2>4, <2>5, <2>6, <1>t
<1>2. CASE how # "save"
  <2>1. /\ file' = file
        /\ \/ /\ how = "open" /\ cache' = [cache EXCEPT ![p] = v.obj]
              /\ persisted' = [persisted EXCEPT ![p] = v.counts]
              /\ seen' = [seen EXCEPT ![p] = IF file.there THEN "current" ELSE "none"]
              /\ Keep([objs EXCEPT ![v.obj] = data])
           \/ /\ how = "keep" /\ cache' = cache /\ persisted' = persisted
              /\ seen' = seen /\ Keep(objs)
    BY <1>2 DEF Put
  <2>2. /\ cache' \in [Procs -> Objs \cup {NoObj}] /\ persisted' \in [Procs -> Known]
        /\ seen' \in [Procs -> {"none", "current", "old"}]
        /\ cache'[p] \in {cache[p], v.obj}
        /\ \A q \in Procs \ {p} : /\ cache'[q] = cache[q] /\ seen'[q] = seen[q]
                                  /\ persisted'[q] = persisted[q]
        /\ seen'[p] = "current" => file.there
    BY <2>1, <1>t DEF Filed
  <2>3. Filed'
    BY <2>1, <2>2, <1>t DEF Filed, Blank
  <2>4. [objs EXCEPT ![v.obj] = data] \in [Objs -> Session]
    BY <1>t
  <2>5. CASE how = "open"
    <3>1. /\ objs' \in [Objs -> Session]
          /\ \A q \in Procs : cache'[q] \in Objs /\ seen'[q] # "old"
                => objs'[cache'[q]] = [objs EXCEPT ![v.obj] = data][cache'[q]]
      BY <2>5, <2>1, <2>4, KeepKeeps
    <3>2. ASSUME stale = 0, Good(v), data = v.data, NEW q \in Procs PROVE Exact(q)'
      <4>1. SUFFICES ASSUME cache'[q] # NoObj, seen'[q] # "old"
                     PROVE  /\ seen'[q] = "none" => objs'[cache'[q]] = Blank
                                                   /\ persisted'[q] = Counts(Blank)
                            /\ seen'[q] = "current" => objs'[cache'[q]] = file'.data
                                                   /\ persisted'[q] = Counts(file'.data)
        <5> Blank' = Blank /\ Counts(Blank)' = Counts(Blank)
          BY DEF Blank, Counts
        <5> QED  BY DEF Exact, Counts
      <4>2. cache'[q] \in Objs
        BY <4>1, <2>2
      <4>3. CASE q = p
        <5>1. objs'[cache'[q]] = file.data /\ persisted'[q] = Counts(file.data)
              /\ seen'[q] = IF file.there THEN "current" ELSE "none"
          BY <4>3, <4>1, <4>2, <3>1, <2>5, <2>1, <3>2, <1>t DEF Good
        <5>2. QED  BY <5>1, <2>1, <1>t DEF Filed
      <4>4. CASE q # p
        <5>1. cache'[q] = cache[q] /\ cache[q] # v.obj /\ seen'[q] = seen[q]
              /\ persisted'[q] = persisted[q]
          BY <4>4, <2>2
        <5>2. objs'[cache'[q]] = objs[cache[q]]
          BY <5>1, <4>1, <4>2, <3>1, <1>t
        <5>3. QED  BY <5>1, <5>2, <4>1, <2>1, <3>2, <1>t DEF Exact
      <4>5. QED  BY <4>3, <4>4
    <3>3. QED  BY <2>1, <2>2, <2>3, <2>5, <3>1, <3>2, <1>2, <1>t
  <2>6. CASE how = "keep"
    <3>1. /\ objs' \in [Objs -> Session]
          /\ \A q \in Procs : cache'[q] \in Objs /\ seen'[q] # "old"
                => objs'[cache'[q]] = objs[cache'[q]]
      BY <2>6, <2>1, <1>t, KeepKeeps
    <3>2. ASSUME stale = 0, NEW q \in Procs PROVE Exact(q)'
      <4>1. cache' = cache /\ persisted' = persisted /\ seen' = seen /\ file' = file
            /\ Exact(q)
        BY <2>1, <2>6, <3>2, <1>t
      <4>2. Blank' = Blank /\ Counts(Blank)' = Counts(Blank)
        BY DEF Blank, Counts
      <4>3. cache[q] # NoObj /\ seen[q] # "old" => objs'[cache'[q]] = objs[cache[q]]
        BY <4>1, <3>1, <1>t
      <4>4. QED  BY <4>1, <4>2, <4>3 DEF Exact, Counts
    <3>3. QED  BY <2>1, <2>2, <2>3, <2>6, <3>1, <3>2, <1>2, <1>t
  <2>7. QED  BY <1>2, <2>5, <2>6
<1>3. QED  BY <1>1, <1>2

-----------------------------------------------------------------------------
(* A step of either process that changes one session through one view, and *)
(* appends xs to the conversation.                                         *)

LEMMA MessageIds ==
    ASSUME NEW msgs \in Seq(Message), NEW a \in Nat, NEW b \in 0 .. Len(msgs)
    PROVE  Ids(SubSeq(msgs, a + 1, b)) \subseteq Nat
<1>1. /\ a + 1 \in Int /\ b \in Int
      /\ \A i \in a + 1 .. b : msgs[i] \in Message
  BY ElementOfSeq
<1>2. SubSeq(msgs, a + 1, b) \in Seq(Message)
  BY <1>1, SubSeqProperties
<1>3. \A i \in DOMAIN SubSeq(msgs, a + 1, b) : SubSeq(msgs, a + 1, b)[i] \in Message
  BY <1>2, ElementOfSeq, LenProperties
<1>4. QED  BY <1>3 DEF Ids, Message

\* Such a step: the view is p's own, the tasks it starts or goes on with use
\* the view's object, and unless somebody saved behind the file the view is
\* good and what is saved is what the conversation has grown by.
Moves(p, v, data, how, xs) ==
    /\ Put(p, v, data, how)
    /\ \A q \in Procs \ {p} : v.obj # cache[q]
    /\ tasks' \in [Tasks -> Task]
    /\ \A u \in Tasks : tasks'[u] = tasks[u] \/ tasks'[u] = Free \/ tasks'[u].obj = v.obj
    /\ p = "webui" => tasks' = tasks /\ \A u \in Tasks : tasks[u].obj # v.obj
    /\ log' = log \o xs /\ named' \in Metas /\ archived' \subseteq Nat
    /\ stale' \in Nat /\ issued' \in Nat /\ events' \in Nat
    /\ stale' = 0 =>
         /\ stale = 0
         /\ how = "keep" => xs = <<>> /\ named' = named
         /\ how = "open" => xs = <<>> /\ data = v.data
         /\ how # "keep" => /\ Good(v)
                            /\ data.msgs = v.data.msgs \o xs /\ data.meta = named'

LEMMA ViewStep ==
    ASSUME Inductive, NEW p \in Procs, NEW v \in Views, NEW data \in Session,
           NEW how \in {"save", "open", "keep"}, NEW xs \in Seq(Message),
           Moves(p, v, data, how, xs)
    PROVE  Inductive'
<1>t. /\ file.data \in Session /\ v.data \in Session /\ v.obj \in Objs /\ log \in Seq(Message)
      /\ cache \in [Procs -> Objs \cup {NoObj}] /\ tasks \in [Tasks -> Task]
      /\ "gateway" \in Procs /\ "webui" \in Procs /\ \A q \in Procs : q = "gateway" \/ q = "webui"
  BY DEF Inductive, TypeOK, Views, Procs
<1>m. /\ Put(p, v, data, how) /\ \A q \in Procs \ {p} : v.obj # cache[q]
      /\ tasks' \in [Tasks -> Task]
  BY DEF Moves
<1>1. /\ file' \in [there : BOOLEAN, data : Session]
      /\ cache' \in [Procs -> Objs \cup {NoObj}]
      /\ persisted' \in [Procs -> Known]
      /\ seen' \in [Procs -> {"none", "current", "old"}]
      /\ objs' \in [Objs -> Session]
      /\ Filed'
      /\ cache'[p] \in {cache[p], v.obj}
      /\ \A q \in Procs \ {p} : cache'[q] = cache[q]
      /\ (/\ stale = 0
          /\ how # "keep" => Good(v) /\ Grown(v.data, data)
          /\ how = "open" => data = v.data) =>
             /\ file'.data = (IF how = "save" THEN data ELSE file.data)
             /\ \A q \in Procs : Exact(q)'
  BY <1>m, PutWorks
<1>2. TypeOK'
  <2>1. log' \in Seq(Message)
    BY <1>t, ConcatProperties DEF Moves
  <2>2. QED  BY <1>1, <2>1 DEF TypeOK, Known, Moves
<1>3. Owned'
  <2>1. ASSUME NEW u \in Tasks
        PROVE  tasks'[u] = Free \/ tasks'[u].obj \in Objs \ {cache'["webui"]}
    <3>0. tasks[u] = Free \/ tasks[u].obj \in Objs \ {cache["webui"]}
      BY DEF Inductive, Owned
    <3>1. CASE p = "gateway"
      BY <3>0, <3>1, <1>1, <1>t, <1>m DEF Moves
    <3>2. CASE p = "webui"
      BY <3>0, <3>2, <1>1, <1>t DEF Moves
    <3>3. QED  BY <3>1, <3>2, <1>t
  <2>2. cache'["gateway"] # cache'["webui"] \/ cache'["gateway"] = NoObj
    <3>1. cache["gateway"] # cache["webui"] \/ cache["gateway"] = NoObj
      BY DEF Inductive, Owned
    <3>2. CASE p = "gateway"
      BY <3>1, <3>2, <1>1, <1>t, <1>m
    <3>3. CASE p = "webui"
      BY <3>1, <3>3, <1>1, <1>t, <1>m, SessionAssumption
    <3>4. QED  BY <3>2, <3>3, <1>t
  <2>3. Free' = Free
    BY DEF Free
  <2>4. QED  BY <2>1, <2>2, <2>3 DEF Owned
<1>4. ASSUME stale' = 0 PROVE Synced'
  <2>0. /\ stale = 0 /\ log' = log \o xs
        /\ how = "keep" => xs = <<>> /\ named' = named
        /\ how = "open" => xs = <<>> /\ data = v.data
        /\ how # "keep" => /\ Good(v)
                           /\ data.msgs = v.data.msgs \o xs /\ data.meta = named'
    BY <1>4 DEF Moves
  <2>1. /\ stale = 0 /\ file.data.msgs = log /\ file.data.meta = named
        /\ file.data.msgs \in Seq(Message)
    BY <2>0, <1>t DEF Inductive, Synced, Session
  <2>2. how # "keep" => Good(v) /\ Grown(v.data, data)
    BY <2>0 DEF Grown
  <2>3. /\ file'.data = (IF how = "save" THEN data ELSE file.data)
        /\ \A q \in Procs : Exact(q)'
    BY <1>1, <2>0, <2>1, <2>2
  <2>4. CASE how = "save"
    BY <2>1, <2>3, <2>4, <2>0 DEF Synced, Good
  <2>5. CASE how # "save"
    <3>1. log' = log
      BY <2>1, <2>5, <2>0, ConcatEmptySeq
    <3>2. named' = named
      BY <2>1, <2>5, <2>0 DEF Good
    <3>3. QED  BY <2>1, <2>3, <2>5, <3>1, <3>2 DEF Synced
  <2>6. QED  BY <2>4, <2>5
<1>5. QED  BY <1>1, <1>2, <1>3, <1>4 DEF Inductive

-----------------------------------------------------------------------------
(* The ways a turn goes on. *)

\* What the steps of a turn know of the view they have at hand.
LEMMA ResumesStep ==
    ASSUME Inductive, NEW t \in Tasks, NEW kind \in TaskKinds,
           NEW v \in Views, NEW data \in Session, NEW how \in {"save", "open", "keep"},
           Resumes(t, kind, v, data, how), v.obj # cache["webui"],
           named' \in Metas, archived' \subseteq Nat, stale' \in Nat, events' \in Nat,
           stale' = 0 =>
                /\ stale = 0
                /\ how = "keep" => named' = named
                /\ how = "open" => data = v.data
                /\ how # "keep" \/ kind = "chat" =>
                      Good(v) /\ data.msgs = v.data.msgs /\ data.meta = named'
    PROVE  Inductive'
<1>t. /\ issued \in Nat /\ log \in Seq(Message) /\ tasks \in [Tasks -> Task]
      /\ v.data \in Session /\ v.obj \in Objs /\ v.data.msgs \in Seq(Message)
      /\ data.msgs \in Seq(Message) /\ "gateway" \in Procs
      /\ \A q \in Procs \ {"gateway"} : v.obj # cache[q]
  BY DEF Inductive, TypeOK, Views, Session, Procs
<1>f. /\ Free \in Task /\ At("llm", kind, v) \in Task /\ At("llm", kind, v).obj = v.obj
  BY <1>t DEF Free, At, Task, TaskKinds
<1>1. CASE kind = "chat"
  <2> DEFINE xs == Fresh1("user")
             grown == [data EXCEPT !.msgs = @ \o xs]
  <2>1. /\ issued' = issued + Len(xs) /\ log' = log \o xs
        /\ Become(t, At("llm", kind, v)) \/ Become(t, Free)
        /\ Put("gateway", v, grown, "save")
    BY <1>1 DEF Resumes, Says
  <2>2. xs \in Seq(Message) /\ Len(xs) = 1
    BY <1>t DEF Fresh1, Message
  <2>3. grown \in Session /\ grown.msgs = data.msgs \o xs /\ grown.meta = data.meta
    <3> HIDE DEF xs
    <3>1. data.msgs \o xs \in Seq(Message)
      BY <2>2, <1>t, ConcatProperties
    <3>2. QED  BY <3>1 DEF Session
  <2>4. /\ tasks' \in [Tasks -> Task]
        /\ \A u \in Tasks : tasks'[u] = tasks[u] \/ tasks'[u] = Free \/ tasks'[u].obj = v.obj
    BY <2>1, <1>f, <1>t DEF Become
  <2>5. issued' \in Nat
    BY <2>1, <2>2, <1>t
  <2> HIDE DEF xs, grown
  <2>6. stale' = 0 => /\ stale = 0 /\ Good(v)
                      /\ grown.msgs = v.data.msgs \o xs /\ grown.meta = named'
    BY <2>3, <1>1
  <2>7. Moves("gateway", v, grown, "save", xs)
    BY <2>1, <2>4, <2>5, <2>6, <1>t DEF Moves
  <2>8. QED  BY <2>2, <2>3, <2>7, <1>t, ViewStep
<1>2. CASE kind # "chat"
  <2>1. /\ issued' = issued /\ log' = log /\ Put("gateway", v, data, how)
        /\ Become(t, At("llm", kind, v)) \/ Become(t, Free)
    BY <1>2 DEF Resumes, Silent
  <2>2. /\ tasks' \in [Tasks -> Task]
        /\ \A u \in Tasks : tasks'[u] = tasks[u] \/ tasks'[u] = Free \/ tasks'[u].obj = v.obj
    BY <2>1, <1>f, <1>t DEF Become
  <2>3. <<>> \in Seq(Message) /\ log' = log \o <<>> /\ v.data.msgs = v.data.msgs \o <<>>
    BY <2>1, <1>t, ConcatEmptySeq
  <2>4. Moves("gateway", v, data, how, <<>>)
    BY <2>1, <2>2, <2>3, <1>2, <1>t DEF Moves
  <2>5. QED  BY <2>3, <2>4, <1>t, ViewStep
<1>3. QED  BY <1>1, <1>2

LEMMA ArchivesStep ==
    ASSUME Inductive, NEW t \in Tasks, NEW kind \in TaskKinds,
           NEW v \in Views, NEW data \in Session, NEW how \in {"save", "open", "keep"},
           Archives(t, kind, v, data), Put("gateway", v, data, how), Silent,
           v.obj # cache["webui"],
           named' \in Metas, archived' \subseteq Nat, stale' \in Nat, events' \in Nat,
           stale' = 0 =>
                /\ stale = 0
                /\ how = "keep" => named' = named
                /\ how = "open" => data = v.data
                /\ how # "keep" => Good(v) /\ data.msgs = v.data.msgs /\ data.meta = named'
    PROVE  Inductive'
<1>t. /\ issued \in Nat /\ log \in Seq(Message) /\ tasks \in [Tasks -> Task]
      /\ v.data \in Session /\ v.obj \in Objs /\ v.data.msgs \in Seq(Message)
      /\ data.msgs \in Seq(Message) /\ data.cons \in Nat /\ "gateway" \in Procs
      /\ \A q \in Procs \ {"gateway"} : v.obj # cache[q]
  BY DEF Inductive, TypeOK, Views, Session, Procs
<1>1. PICK b \in Boundaries(data) :
        tasks' = [tasks EXCEPT ![t] =
                    [At("archive", kind, v) EXCEPT
                        !.mark = b, !.chunk = Ids(SubSeq(data.msgs, data.cons + 1, b))]]
  BY DEF Archives, Become
<1>2. b \in Nat /\ b \in 0 .. Len(data.msgs)
  BY <1>t DEF Boundaries
<1>3. Ids(SubSeq(data.msgs, data.cons + 1, b)) \subseteq Nat
  BY <1>2, <1>t, MessageIds
<1> DEFINE task == [At("archive", kind, v) EXCEPT
                        !.mark = b, !.chunk = Ids(SubSeq(data.msgs, data.cons + 1, b))]
<1>4. task \in Task /\ task.obj = v.obj
  BY <1>2, <1>3, <1>t DEF At, Free, Task, TaskKinds
<1> HIDE DEF task
<1>5. tasks' = [tasks EXCEPT ![t] = task]
  BY <1>1 DEF task
<1>6. /\ tasks' \in [Tasks -> Task]
      /\ \A u \in Tasks : tasks'[u] = tasks[u] \/ tasks'[u].obj = v.obj
  BY <1>4, <1>5, <1>t
<1>7. <<>> \in Seq(Message) /\ log' = log \o <<>> /\ v.data.msgs = v.data.msgs \o <<>>
      /\ issued' = issued
  BY <1>t, ConcatEmptySeq DEF Silent
<1>8. Moves("gateway", v, data, how, <<>>)
  BY <1>6, <1>7, <1>t DEF Moves
<1>9. QED  BY <1>7, <1>8, <1>t, ViewStep

-----------------------------------------------------------------------------
(* One lemma per action of a task. *)

LEMMA TurnStartStep ==
    ASSUME Inductive, NEW t \in Tasks, NEW kind \in Turns, TurnStart(t, kind)
    PROVE  Inductive'
<1>1. PICK v \in Opened("gateway"), m \in Metas :
        LET data == [v.data EXCEPT !.meta = m]
            how == IF m = v.data.meta THEN "open" ELSE "save"
        IN  /\ named' = IF m = v.data.meta THEN named ELSE m
            /\ \/ Resumes(t, kind, v, data, how)
               \/ Archives(t, kind, v, data) /\ Put("gateway", v, data, how) /\ Silent
               \/ /\ Become(t, At("wait", kind, v))
                  /\ Put("gateway", v, data, how) /\ Silent
  BY DEF TurnStart
<1> DEFINE data == [v.data EXCEPT !.meta = m]
           how == IF m = v.data.meta THEN "open" ELSE "save"
<1>2. /\ v \in Views /\ v.obj # cache["webui"]
      /\ \A q \in Procs \ {"gateway"} : v.obj # cache[q]
      /\ stale = 0 => Good(v)
  BY OpenedGood DEF Procs
<1>3. /\ kind \in TaskKinds /\ "gateway" \in Procs /\ tasks \in [Tasks -> Task]
      /\ log \in Seq(Message) /\ issued \in Nat /\ named \in Metas
      /\ v.data \in Session /\ v.obj \in Objs /\ v.data.msgs \in Seq(Message)
  BY <1>2 DEF Turns, TaskKinds, Procs, Inductive, TypeOK, Views, Session
<1>4. /\ data \in Session /\ how \in {"save", "open", "keep"} /\ how # "keep"
      /\ data.msgs = v.data.msgs /\ data.meta = m
      /\ how = "open" => data = v.data /\ m = v.data.meta
  BY <1>3 DEF Session
<1>5. /\ named' \in Metas /\ archived' \subseteq Nat /\ stale' \in Nat /\ events' \in Nat
      /\ stale' = stale /\ named' = IF m = v.data.meta THEN named ELSE m
  BY <1>1, <1>3 DEF TurnStart, Inductive, TypeOK
<1>6. stale = 0 => named = file.data.meta
  BY DEF Inductive, Synced
<1>7. stale' = 0 => stale = 0 /\ Good(v) /\ data.meta = named'
  BY <1>2, <1>4, <1>5, <1>6 DEF Good
<1>8. \/ Resumes(t, kind, v, data, how)
      \/ Archives(t, kind, v, data) /\ Put("gateway", v, data, how) /\ Silent
      \/ Become(t, At("wait", kind, v)) /\ Put("gateway", v, data, how) /\ Silent
  BY <1>1
<1> HIDE DEF data, how
<1>9. CASE Resumes(t, kind, v, data, how)
  BY <1>9, <1>2, <1>3, <1>4, <1>5, <1>7, ResumesStep
<1>10. CASE Archives(t, kind, v, data) /\ Put("gateway", v, data, how) /\ Silent
  BY <1>10, <1>2, <1>3, <1>4, <1>5, <1>7, ArchivesStep
<1>11. CASE Become(t, At("wait", kind, v)) /\ Put("gateway", v, data, how) /\ Silent
  <2>1. At("wait", kind, v) \in Task /\ At("wait", kind, v).obj = v.obj
    BY <1>3 DEF At, Free, Task, TaskKinds
  <2>2. /\ tasks' \in [Tasks -> Task]
        /\ \A u \in Tasks : tasks'[u] = tasks[u] \/ tasks'[u].obj = v.obj
    BY <2>1, <1>11, <1>3 DEF Become
  <2>3. <<>> \in Seq(Message) /\ log' = log \o <<>> /\ v.data.msgs = v.data.msgs \o <<>>
        /\ issued' = issued
    BY <1>11, <1>3, ConcatEmptySeq DEF Silent
  <2>4. Moves("gateway", v, data, how, <<>>)
    BY <2>2, <2>3, <1>11, <1>2, <1>3, <1>4, <1>5, <1>7 DEF Moves
  <2>5. QED  BY <2>3, <2>4, <1>2, <1>3, <1>4, ViewStep
<1>12. QED  BY <1>8, <1>9, <1>10, <1>11

LEMMA ConsolidateStep ==
    ASSUME Inductive, NEW t \in Tasks, Consolidate(t)
    PROVE  Inductive'
<1> DEFINE v == Mine(t)
           kind == tasks[t].kind
<1>1. tasks[t] # Free
  BY DEF Consolidate, Free
<1>2. /\ v \in Views /\ v.obj # cache["webui"]
      /\ stale = 0 /\ ~Behind(t) => Good(v)
  BY <1>1, MineGood
<1>3. /\ kind \in TaskKinds /\ v.data \in Session /\ stale \in Nat
      /\ named \in Metas /\ archived \subseteq Nat /\ events \in Nat
  BY <1>2 DEF Inductive, TypeOK, Task, TaskKinds, Views
<1>4. /\ named' = named /\ archived' = archived /\ events' = events
      /\ \/ /\ Resumes(t, kind, v, v.data, "keep")
            /\ Stales(kind = "chat" /\ Behind(t))
         \/ /\ Archives(t, kind, v, v.data) /\ Put("gateway", v, v.data, "keep")
            /\ Silent /\ stale' = stale
  BY DEF Consolidate
<1> HIDE DEF v, kind
<1>5. CASE Resumes(t, kind, v, v.data, "keep") /\ Stales(kind = "chat" /\ Behind(t))
  <2>1. /\ stale' \in Nat
        /\ stale' = 0 => stale = 0 /\ (kind = "chat" => Good(v))
    BY <1>5, <1>2, <1>3 DEF Stales
  <2>2. stale' = 0 /\ kind = "chat" => v.data.meta = named'
    BY <2>1, <1>4 DEF Good, Inductive, Synced
  <2>3. QED  BY <2>1, <2>2, <1>2, <1>3, <1>4, <1>5, ResumesStep
<1>6. CASE /\ Archives(t, kind, v, v.data) /\ Put("gateway", v, v.data, "keep")
           /\ Silent /\ stale' = stale
  BY <1>2, <1>3, <1>4, <1>6, ArchivesStep
<1>7. QED  BY <1>4, <1>5, <1>6

LEMMA ConsolidateDoneStep ==
    ASSUME Inductive, NEW t \in Tasks, ConsolidateDone(t)
    PROVE  Inductive'
<1> DEFINE v == Mine(t)
           kind == tasks[t].kind
           data == [v.data EXCEPT !.cons = tasks[t].mark]
<1>1. tasks[t] # Free
  BY DEF ConsolidateDone, Free
<1>2. /\ v \in Views /\ v.obj # cache["webui"]
      /\ stale = 0 /\ ~Behind(t) => Good(v)
  BY <1>1, MineGood
<1>3. /\ kind \in TaskKinds /\ v.data \in Session /\ stale \in Nat
      /\ named \in Metas /\ archived \subseteq Nat /\ events \in Nat
      /\ tasks[t].mark \in Nat /\ tasks[t].chunk \subseteq Nat
  BY <1>2 DEF Inductive, TypeOK, Task, TaskKinds, Views
<1>4. data \in Session /\ data.msgs = v.data.msgs /\ data.meta = v.data.meta
  BY <1>3 DEF Session
<1>5. /\ named' = named /\ archived' = archived \cup tasks[t].chunk /\ events' = events
      /\ Stales(Behind(t))
      /\ \/ Resumes(t, kind, v, data, "save")
         \/ Archives(t, kind, v, data) /\ Put("gateway", v, data, "save") /\ Silent
  BY DEF ConsolidateDone
<1> HIDE DEF v, kind, data
<1>6. /\ stale' \in Nat /\ archived' \subseteq Nat
      /\ stale' = 0 => stale = 0 /\ Good(v)
  <2>1. archived' \subseteq Nat
    BY <1>5, <1>3
  <2>2. stale' \in Nat /\ (stale' = 0 => stale = 0 /\ Good(v))
    BY <1>5, <1>2, <1>3 DEF Stales
  <2>3. QED  BY <2>1, <2>2
<1>7. stale' = 0 => data.meta = named'
  BY <1>4, <1>5, <1>6 DEF Good, Inductive, Synced
<1>8. CASE Resumes(t, kind, v, data, "save")
  BY <1>2, <1>3, <1>4, <1>5, <1>6, <1>7, <1>8, ResumesStep
<1>9. CASE Archives(t, kind, v, data) /\ Put("gateway", v, data, "save") /\ Silent
  BY <1>2, <1>3, <1>4, <1>5, <1>6, <1>7, <1>9, ArchivesStep
<1>10. QED  BY <1>5, <1>8, <1>9

LEMMA ConsolidateFailsStep ==
    ASSUME Inductive, NEW t \in Tasks, ConsolidateFails(t)
    PROVE  Inductive'
<1> DEFINE v == Mine(t)
           kind == tasks[t].kind
<1>1. tasks[t] # Free
  BY DEF ConsolidateFails, Free
<1>2. /\ v \in Views /\ v.obj # cache["webui"]
      /\ stale = 0 /\ ~Behind(t) => Good(v)
  BY <1>1, MineGood
<1>3. /\ kind \in TaskKinds /\ v.data \in Session /\ stale \in Nat
      /\ named \in Metas /\ archived \subseteq Nat /\ events \in Nat
  BY <1>2 DEF Inductive, TypeOK, Task, TaskKinds, Views
<1>4. /\ named' = named /\ archived' = archived /\ events' = events
      /\ Resumes(t, kind, v, v.data, "keep")
      /\ Stales(kind = "chat" /\ Behind(t))
  BY DEF ConsolidateFails
<1> HIDE DEF v, kind
<1>5. /\ stale' \in Nat
      /\ stale' = 0 => stale = 0 /\ (kind = "chat" => Good(v))
  BY <1>4, <1>2, <1>3 DEF Stales
<1>6. stale' = 0 /\ kind = "chat" => v.data.meta = named'
  BY <1>4, <1>5 DEF Good, Inductive, Synced
<1>7. QED  BY <1>2, <1>3, <1>4, <1>5, <1>6, ResumesStep

LEMMA TurnReplyStep ==
    ASSUME Inductive, NEW t \in Tasks, TurnReply(t)
    PROVE  Inductive'
<1> DEFINE v == Mine(t)
           xs == IF tasks[t].kind = "chat" THEN Fresh1("agent") ELSE Fresh2("agent", "agent")
           data == [v.data EXCEPT !.msgs = @ \o xs]
<1>1. tasks[t] # Free
  BY DEF TurnReply, Free
<1>2. /\ v \in Views /\ v.obj # cache["webui"]
      /\ stale = 0 /\ ~Behind(t) => Good(v)
  BY <1>1, MineGood
<1>3. /\ v.data \in Session /\ v.data.msgs \in Seq(Message) /\ v.obj \in Objs
      /\ stale \in Nat /\ issued \in Nat /\ tasks \in [Tasks -> Task]
      /\ named \in Metas /\ archived \subseteq Nat /\ events \in Nat
      /\ "gateway" \in Procs /\ \A q \in Procs \ {"gateway"} : v.obj # cache[q]
  BY <1>2 DEF Inductive, TypeOK, Views, Session, Procs
<1>4. xs \in Seq(Message) /\ Len(xs) \in Nat
  <2>1. /\ [id |-> issued + 1, by |-> "agent"] \in Message
        /\ [id |-> issued + 2, by |-> "agent"] \in Message
    BY <1>3 DEF Message
  <2>2. Fresh1("agent") \in Seq(Message) /\ Fresh2("agent", "agent") \in Seq(Message)
    BY <2>1 DEF Fresh1, Fresh2
  <2>3. QED  BY <2>2, LenProperties
<1>5. /\ issued' = issued + Len(xs) /\ log' = log \o xs
      /\ \/ Become(t, At("due", "consolidate", v))
         \/ \E u \in Tasks \ {t} :
                tasks' = [tasks EXCEPT ![t] = At("due", "consolidate", v),
                                       ![u] = At("due", "learn", v)]
      /\ Put("gateway", v, data, "save")
      /\ Stales(Behind(t)) /\ named' = named /\ archived' = archived /\ events' = events
  BY DEF TurnReply, Says
<1> HIDE DEF v, xs
<1>6. data \in Session /\ data.msgs = v.data.msgs \o xs /\ data.meta = v.data.meta
  <2>1. v.data.msgs \o xs \in Seq(Message)
    BY <1>3, <1>4, ConcatProperties
  <2>2. QED  BY <1>3, <2>1 DEF Session
<1> HIDE DEF data
<1>7. /\ tasks' \in [Tasks -> Task]
      /\ \A u \in Tasks : tasks'[u] = tasks[u] \/ tasks'[u].obj = v.obj
  <2>1. /\ At("due", "consolidate", v) \in Task /\ At("due", "consolidate", v).obj = v.obj
        /\ At("due", "learn", v) \in Task /\ At("due", "learn", v).obj = v.obj
    BY <1>3 DEF At, Free, Task
  <2>2. CASE Become(t, At("due", "consolidate", v))
    BY <2>1, <2>2, <1>3 DEF Become
  <2>3. ASSUME NEW w \in Tasks \ {t},
               tasks' = [tasks EXCEPT ![t] = At("due", "consolidate", v),
                                      ![w] = At("due", "learn", v)]
        PROVE  /\ tasks' \in [Tasks -> Task]
               /\ \A u \in Tasks : tasks'[u] = tasks[u] \/ tasks'[u].obj = v.obj
    BY <2>1, <2>3, <1>3
  <2>4. QED  BY <1>5, <2>2, <2>3
<1>8. stale' \in Nat /\ (stale' = 0 => stale = 0 /\ Good(v))
  BY <1>5, <1>2, <1>3 DEF Stales
<1>9. stale' = 0 => data.meta = named'
  BY <1>5, <1>6, <1>8 DEF Good, Inductive, Synced
<1>10. Moves("gateway", v, data, "save", xs)
  BY <1>3, <1>4, <1>5, <1>6, <1>7, <1>8, <1>9 DEF Moves
<1>11. QED  BY <1>2, <1>3, <1>4, <1>6, <1>10, ViewStep

\* A task that goes on without touching the session.
LEMMA QuietStep ==
    ASSUME Inductive, NEW t \in Tasks, tasks[t] # Free, NEW task \in Task,
           Become(t, task), task = Free \/ task.obj = tasks[t].obj,
           Put("gateway", Mine(t), Mine(t).data, "keep"), Silent,
           UNCHANGED <<named, archived, stale, events>>
    PROVE  Inductive'
<1> DEFINE v == Mine(t)
<1>1. /\ v \in Views /\ v.obj # cache["webui"] /\ v.obj = tasks[t].obj
  BY MineGood
<1>2. /\ v.data \in Session /\ log \in Seq(Message)
      /\ stale \in Nat /\ issued \in Nat /\ tasks \in [Tasks -> Task]
      /\ named \in Metas /\ archived \subseteq Nat /\ events \in Nat
      /\ "gateway" \in Procs /\ \A q \in Procs \ {"gateway"} : v.obj # cache[q]
  BY <1>1 DEF Inductive, TypeOK, Views, Procs
<1> HIDE DEF v
<1>3. Put("gateway", v, v.data, "keep")
  BY DEF v
<1>4. /\ tasks' \in [Tasks -> Task]
      /\ \A u \in Tasks : tasks'[u] = tasks[u] \/ tasks'[u] = Free \/ tasks'[u].obj = v.obj
  BY <1>1, <1>2 DEF Become
<1>5. <<>> \in Seq(Message) /\ log' = log \o <<>> /\ issued' = issued
  BY <1>2, ConcatEmptySeq DEF Silent
<1>6. Moves("gateway", v, v.data, "keep", <<>>)
  BY <1>2, <1>3, <1>4, <1>5 DEF Moves
<1>7. QED  BY <1>1, <1>2, <1>5, <1>6, ViewStep

LEMMA TurnAbortedStep ==
    ASSUME Inductive, NEW t \in Tasks, TurnAborted(t)
    PROVE  Inductive'
<1>1. Free \in Task /\ tasks[t] # Free
  BY DEF TurnAborted, Free, Task, Turns
<1>2. QED  BY <1>1, QuietStep DEF TurnAborted, history

LEMMA LearnStartStep ==
    ASSUME Inductive, NEW t \in Tasks, LearnStart(t)
    PROVE  Inductive'
<1>1. tasks[t] # Free /\ tasks[t] \in Task /\ Free \in Task
  BY DEF LearnStart, Free, Task, Inductive, TypeOK
<1>2. tasks[t].obj \in Objs /\ objs[tasks[t].obj] \in Session
  BY <1>1 DEF Inductive, TypeOK, Owned
<1> DEFINE data == objs[tasks[t].obj]
           enough == Len(data.msgs) >= data.learned + LearnInterval
           next == [tasks[t] EXCEPT !.stage = IF Locked THEN "wait" ELSE "learn",
                                    !.mark = Len(data.msgs) - data.learned]
<1>3. /\ Become(t, IF enough THEN next ELSE Free)
      /\ Put("gateway", Mine(t), data, "keep") /\ Silent /\ UNCHANGED <<history, events>>
  BY DEF LearnStart
<1>4. Mine(t).data = data
  BY DEF Mine
<1>5. ASSUME enough PROVE next \in Task /\ next.obj = tasks[t].obj
  <2>1. Len(data.msgs) \in Nat /\ data.learned \in Nat
    BY <1>2 DEF Session
  <2>2. Len(data.msgs) - data.learned \in Nat
    BY SMTT(30), <2>1, <1>5, SessionAssumption
  <2> HIDE DEF data
  <2>3. QED  BY <2>2, <1>1 DEF Task
<1> HIDE DEF data, enough, next
<1>6. CASE enough
  BY <1>1, <1>3, <1>4, <1>5, <1>6, QuietStep DEF history
<1>7. CASE ~enough
  BY <1>1, <1>3, <1>4, <1>7, QuietStep DEF history
<1>8. QED  BY <1>6, <1>7

LEMMA LearnLockedStep ==
    ASSUME Inductive, NEW t \in Tasks, LearnLocked(t)
    PROVE  Inductive'
<1>1. tasks[t] # Free /\ tasks[t] \in Task
  BY DEF LearnLocked, Free, Inductive, TypeOK
<1>2. /\ [tasks[t] EXCEPT !.stage = "learn"] \in Task
      /\ [tasks[t] EXCEPT !.stage = "learn"].obj = tasks[t].obj
  BY <1>1 DEF Task
<1>3. QED  BY <1>1, <1>2, QuietStep DEF LearnLocked, history

LEMMA LearnDoneStep ==
    ASSUME Inductive, NEW t \in Tasks, LearnDone(t)
    PROVE  Inductive'
<1> DEFINE v == Mine(t)
           data == [v.data EXCEPT !.learned = @ + tasks[t].mark]
<1>1. tasks[t] # Free /\ Free \in Task
  BY DEF LearnDone, Free, Task
<1>2. /\ v \in Views /\ v.obj # cache["webui"]
      /\ stale = 0 /\ ~Behind(t) => Good(v)
  BY <1>1, MineGood
<1>3. /\ v.data \in Session /\ v.data.msgs \in Seq(Message) /\ v.data.learned \in Nat
      /\ stale \in Nat /\ issued \in Nat /\ tasks \in [Tasks -> Task] /\ log \in Seq(Message)
      /\ named \in Metas /\ archived \subseteq Nat /\ events \in Nat /\ tasks[t].mark \in Nat
      /\ "gateway" \in Procs /\ \A q \in Procs \ {"gateway"} : v.obj # cache[q]
  BY <1>2 DEF Inductive, TypeOK, Views, Session, Procs, Task
<1>4. data \in Session /\ data.msgs = v.data.msgs /\ data.meta = v.data.meta
  <2>1. ASSUME NEW d \in Session, NEW n \in Nat
        PROVE  LET e == [d EXCEPT !.learned = @ + n]
               IN  e \in Session /\ e.msgs = d.msgs /\ e.meta = d.meta
    BY DEF Session
  <2>2. v.data \in Session /\ tasks[t].mark \in Nat
    BY <1>3
  <2>3. QED  BY ONLY <2>1, <2>2
<1>5. /\ Become(t, Free) /\ Silent /\ UNCHANGED <<named, archived, events>>
      /\ \/ Put("gateway", v, data, "save") /\ Stales(Behind(t))
         \/ Put("gateway", v, v.data, "keep") /\ UNCHANGED stale
  BY DEF LearnDone
<1>6. CASE Put("gateway", v, v.data, "keep") /\ UNCHANGED stale
  BY <1>1, <1>5, <1>6, QuietStep
<1>7. CASE Put("gateway", v, data, "save") /\ Stales(Behind(t))
  <2> HIDE DEF v, data
  <2>1. stale' \in Nat /\ (stale' = 0 => stale = 0 /\ Good(v))
    BY <1>7, <1>2, <1>3 DEF Stales
  <2>2. stale' = 0 => data.meta = named'
    BY <1>4, <1>5, <2>1 DEF Good, Inductive, Synced
  <2>3. /\ tasks' \in [Tasks -> Task]
        /\ \A u \in Tasks : tasks'[u] = tasks[u] \/ tasks'[u] = Free
    BY <1>1, <1>3, <1>5 DEF Become
  <2>4. <<>> \in Seq(Message) /\ log' = log \o <<>> /\ issued' = issued
        /\ v.data.msgs = v.data.msgs \o <<>>
    BY <1>3, <1>5, ConcatEmptySeq DEF Silent
  <2>5. Moves("gateway", v, data, "save", <<>>)
    BY <2>1, <2>2, <2>3, <2>4, <1>3, <1>4, <1>5, <1>7 DEF Moves
  <2>6. QED  BY <2>4, <2>5, <1>2, <1>3, <1>4, ViewStep
<1>8. QED  BY <1>5, <1>6, <1>7

-----------------------------------------------------------------------------
(* /new, the WebUI's routes, restarts. *)

LEMMA NewStep ==
    ASSUME Inductive, New
    PROVE  Inductive'
<1>1. PICK v \in Opened("gateway") :
        /\ Write("gateway", v, Cleared(v.data))
        /\ Keep([objs EXCEPT ![v.obj] = Cleared(v.data)])
        /\ archived' = archived \cup Ids(SubSeq(v.data.msgs, v.data.cons + 1, Len(v.data.msgs)))
  BY DEF New
<1>2. /\ v \in Views /\ \A q \in Procs \ {"gateway"} : v.obj # cache[q]
      /\ stale = 0 => Good(v)
  BY OpenedGood DEF Procs
<1>3. /\ v.data \in Session /\ v.data.msgs \in Seq(Message) /\ v.data.cons \in Nat
      /\ v.obj \in Objs /\ archived \subseteq Nat /\ events \in Nat
      /\ cache \in [Procs -> Objs \cup {NoObj}] /\ objs \in [Objs -> Session]
      /\ "gateway" \in Procs /\ "webui" \in Procs /\ \A q \in Procs : q = "gateway" \/ q = "webui"
  BY <1>2 DEF Inductive, TypeOK, Views, Session, Procs
<1> DEFINE data == Cleared(v.data)
<1>4. data \in Session /\ data.msgs = <<>> /\ data.meta = v.data.meta /\ Grown(v.data, data)
  <2>1. <<>> \in Seq(Message)
    BY EmptySeq
  <2>2. QED  BY <2>1, <1>3 DEF Cleared, Session, Grown
<1>5. /\ cache' = [cache EXCEPT !["gateway"] = NoObj] /\ log' = <<>> /\ events' \in Nat
      /\ UNCHANGED <<tasks, named, stale, issued>>
  BY <1>3 DEF New, Event, Invalidated
<1> HIDE DEF data
<1>6. Write("gateway", v, data) /\ Keep([objs EXCEPT ![v.obj] = data])
  BY <1>1 DEF data
<1>7. /\ file' \in [there : BOOLEAN, data : Session] /\ file'.there
      /\ persisted' \in [Procs -> Known]
      /\ seen' \in [Procs -> {"none", "current", "old"}]
      /\ \A q \in Procs \ {"gateway"} :
            /\ persisted'[q] = persisted[q]
            /\ seen'[q] = seen[q] \/ seen'[q] = "old"
      /\ Good(v) /\ Grown(v.data, data) =>
            /\ file'.data = data
            /\ \A q \in Procs \ {"gateway"} : seen'[q] = "current" => file'.data = file.data
  BY <1>2, <1>3, <1>4, <1>6, WriteWorks
<1>8. /\ objs' \in [Objs -> Session]
      /\ \A q \in Procs : cache'[q] \in Objs /\ seen'[q] # "old"
            => objs'[cache'[q]] = [objs EXCEPT ![v.obj] = data][cache'[q]]
  <2>1. [objs EXCEPT ![v.obj] = data] \in [Objs -> Session]
    BY <1>3, <1>4
  <2>2. QED  BY <1>6, <2>1, KeepKeeps
<1>9. archived' \subseteq Nat
  <2>1. Len(v.data.msgs) \in 0 .. Len(v.data.msgs)
    BY <1>3, LenProperties
  <2>2. QED  BY <2>1, <1>1, <1>3, MessageIds
<1>10. TypeOK'
  <2>1. log' \in Seq(Message) /\ cache' \in [Procs -> Objs \cup {NoObj}]
    BY <1>3, <1>5, EmptySeq
  <2>2. QED  BY <2>1, <1>5, <1>7, <1>8, <1>9 DEF TypeOK, Inductive, Known
<1>11. Filed'
  BY <1>7 DEF Filed
<1>12. Owned'
  <2>1. Free' = Free
    BY DEF Free
  <2>2. QED  BY <2>1, <1>3, <1>5 DEF Inductive, Owned
<1>13. ASSUME stale' = 0 PROVE Synced'
  <2>1. /\ stale = 0 /\ Good(v) /\ file'.data = data /\ file.data.meta = named
        /\ \A q \in Procs \ {"gateway"} : seen'[q] = "current" => file'.data = file.data
    BY <1>13, <1>2, <1>4, <1>5, <1>7 DEF Inductive, Synced
  <2>2. file'.data.msgs = log' /\ file'.data.meta = named'
    BY <2>1, <1>4, <1>5 DEF Good
  <2>3. Exact("gateway")'
    BY <1>3, <1>5 DEF Exact
  <2>4. Exact("webui")'
    <3>1. cache'["webui"] = cache["webui"] /\ cache["webui"] # v.obj /\ Exact("webui")
      BY <2>1, <1>2, <1>3, <1>5 DEF Inductive, Synced
    <3>2. cache'["webui"] # NoObj /\ seen'["webui"] # "old"
            => objs'[cache'["webui"]] = objs[cache["webui"]]
      BY <3>1, <1>3, <1>8
    <3>3. persisted'["webui"] = persisted["webui"]
          /\ (seen'["webui"] # "old" => seen'["webui"] = seen["webui"])
      BY <1>3, <1>7
    <3>4. Blank' = Blank /\ Counts(Blank)' = Counts(Blank)
      BY DEF Blank, Counts
    <3>5. seen'["webui"] = "current" => file'.data = file.data
      BY <2>1, <1>3
    <3>6. QED  BY <3>1, <3>2, <3>3, <3>4, <3>5 DEF Exact, Counts
  <2>5. QED  BY <2>2, <2>3, <2>4, <1>3 DEF Synced
<1>14. QED  BY <1>10, <1>11, <1>12, <1>13 DEF Inductive

LEMMA LookStep ==
    ASSUME Inductive, Look
    PROVE  Inductive'
<1>1. PICK v \in Opened("webui") : Put("webui", v, v.data, "open")
  BY DEF Look
<1>2. /\ "webui" \in Procs /\ v \in Views /\ \A q \in Procs \ {"webui"} : v.obj # cache[q]
      /\ \A t \in Tasks : tasks[t].obj # v.obj
      /\ stale = 0 => Good(v)
  BY OpenedGood DEF Procs
<1>3. /\ v.data \in Session /\ v.data.msgs \in Seq(Message) /\ log \in Seq(Message)
      /\ stale \in Nat /\ issued \in Nat /\ tasks \in [Tasks -> Task]
      /\ named \in Metas /\ archived \subseteq Nat /\ events \in Nat
  BY <1>2 DEF Inductive, TypeOK, Views, Session
<1>4. UNCHANGED <<tasks, log, named, archived, stale, issued, events>>
  BY DEF Look, history
<1>5. <<>> \in Seq(Message) /\ log' = log \o <<>> /\ v.data.msgs = v.data.msgs \o <<>>
  BY <1>3, <1>4, ConcatEmptySeq
<1>6. stale = 0 => v.data.meta = named
  BY <1>2 DEF Good, Inductive, Synced
<1>7. Moves("webui", v, v.data, "open", <<>>)
  BY <1>1, <1>2, <1>3, <1>4, <1>5, <1>6 DEF Moves
<1>8. QED  BY <1>2, <1>3, <1>5, <1>7, ViewStep

LEMMA NotifyStep ==
    ASSUME Inductive, Notify
    PROVE  Inductive'
<1> DEFINE xs == Fresh1("webui")
<1>1. PICK v \in Opened("webui") : Put("webui", v, [v.data EXCEPT !.msgs = @ \o xs], "save")
  BY DEF Notify
<1> DEFINE data == [v.data EXCEPT !.msgs = @ \o xs]
<1>2. /\ "webui" \in Procs /\ v \in Views /\ \A q \in Procs \ {"webui"} : v.obj # cache[q]
      /\ \A t \in Tasks : tasks[t].obj # v.obj
      /\ stale = 0 => Good(v)
  BY OpenedGood DEF Procs
<1>3. /\ v.data \in Session /\ v.data.msgs \in Seq(Message) /\ log \in Seq(Message)
      /\ stale \in Nat /\ issued \in Nat /\ tasks \in [Tasks -> Task]
      /\ named \in Metas /\ archived \subseteq Nat /\ events \in Nat
  BY <1>2 DEF Inductive, TypeOK, Views, Session
<1>4. xs \in Seq(Message) /\ Len(xs) = 1
  <2>1. [id |-> issued + 1, by |-> "webui"] \in Message
    BY <1>3 DEF Message
  <2>2. QED  BY <2>1 DEF Fresh1
<1>5. /\ UNCHANGED <<tasks, named, archived, stale>> /\ events' \in Nat
      /\ log' = log \o xs /\ issued' = issued + Len(xs)
  BY <1>3 DEF Notify, Event, Says
<1> HIDE DEF xs
<1>6. data \in Session /\ data.msgs = v.data.msgs \o xs /\ data.meta = v.data.meta
  <2>1. v.data.msgs \o xs \in Seq(Message)
    BY <1>3, <1>4, ConcatProperties
  <2>2. QED  BY <1>3, <2>1 DEF Session
<1> HIDE DEF data
<1>7. stale = 0 => data.meta = named
  BY <1>2, <1>6 DEF Good, Inductive, Synced
<1>8. Put("webui", v, data, "save")
  BY <1>1 DEF data
<1>9. Moves("webui", v, data, "save", xs)
  BY <1>2, <1>3, <1>4, <1>5, <1>6, <1>7, <1>8 DEF Moves
<1>10. QED  BY <1>2, <1>4, <1>6, <1>9, ViewStep

LEMMA PatchStep ==
    ASSUME Inductive, NEW m \in Metas, Patch(m)
    PROVE  Inductive'
<1>1. PICK v \in Opened("webui") : Put("webui", v, [v.data EXCEPT !.meta = m], "save")
  BY DEF Patch
<1> DEFINE data == [v.data EXCEPT !.meta = m]
<1>2. /\ "webui" \in Procs /\ v \in Views /\ \A q \in Procs \ {"webui"} : v.obj # cache[q]
      /\ \A t \in Tasks : tasks[t].obj # v.obj
      /\ stale = 0 => Good(v)
  BY OpenedGood DEF Procs
<1>3. /\ v.data \in Session /\ v.data.msgs \in Seq(Message) /\ log \in Seq(Message)
      /\ stale \in Nat /\ issued \in Nat /\ tasks \in [Tasks -> Task]
      /\ archived \subseteq Nat /\ events \in Nat
  BY <1>2 DEF Inductive, TypeOK, Views, Session
<1>4. UNCHANGED <<tasks, log, archived, stale, issued>> /\ events' \in Nat /\ named' = m
  BY <1>3 DEF Patch, Event
<1>5. data \in Session /\ data.msgs = v.data.msgs /\ data.meta = m
  BY <1>3 DEF Session
<1> HIDE DEF data
<1>6. <<>> \in Seq(Message) /\ log' = log \o <<>> /\ v.data.msgs = v.data.msgs \o <<>>
  BY <1>3, <1>4, ConcatEmptySeq
<1>7. Put("webui", v, data, "save")
  BY <1>1 DEF data
<1>8. Moves("webui", v, data, "save", <<>>)
  BY <1>2, <1>3, <1>4, <1>5, <1>6, <1>7 DEF Moves
<1>9. QED  BY <1>2, <1>5, <1>6, <1>8, ViewStep

\* The file goes, and with it what the conversation should hold.
LEMMA RemovedStep ==
    ASSUME Inductive, Removed, Keep(objs), persisted' \in [Procs -> Known],
           persisted'["gateway"] = persisted["gateway"],
           archived' \subseteq Nat, events' \in Nat, UNCHANGED <<tasks, stale, issued>>
    PROVE  Inductive'
<1>1. /\ cache \in [Procs -> Objs \cup {NoObj}] /\ objs \in [Objs -> Session]
      /\ seen \in [Procs -> {"none", "current", "old"}]
      /\ "gateway" \in Procs /\ "webui" \in Procs /\ \A q \in Procs : q = "gateway" \/ q = "webui"
  BY DEF Inductive, TypeOK, Procs
<1>2. /\ file' = [there |-> FALSE, data |-> Blank]
      /\ seen' = [p \in Procs |-> IF seen[p] = "current" THEN "old" ELSE seen[p]]
      /\ cache' = [cache EXCEPT !["webui"] = NoObj]
      /\ log' = <<>> /\ named' = Plain
  BY DEF Removed, Invalidated
<1>3. /\ objs' \in [Objs -> Session]
      /\ \A q \in Procs : cache'[q] \in Objs /\ seen'[q] # "old"
            => objs'[cache'[q]] = objs[cache'[q]]
  BY <1>1, KeepKeeps
<1>4. TypeOK'
  BY <1>1, <1>2, <1>3, BlankSession, SessionAssumption DEF TypeOK, Inductive, Known
<1>5. Filed'
  <2>1. Blank' = Blank
    BY DEF Blank
  <2>2. QED  BY <1>1, <1>2, <2>1 DEF Filed
<1>6. Owned'
  <2>1. Free' = Free
    BY DEF Free
  <2>2. QED  BY <2>1, <1>1, <1>2, SessionAssumption DEF Inductive, Owned
<1>7. ASSUME stale' = 0 PROVE Synced'
  <2>1. file'.data.msgs = log' /\ file'.data.meta = named'
    BY <1>2 DEF Blank
  <2>2. Exact("webui")'
    BY <1>1, <1>2 DEF Exact
  <2>3. Exact("gateway")'
    <3>1. Exact("gateway") /\ cache'["gateway"] = cache["gateway"]
      BY <1>7, <1>1, <1>2 DEF Inductive, Synced
    <3>2. seen'["gateway"] # "current" /\ (seen'["gateway"] = "none" => seen["gateway"] = "none")
      BY <1>1, <1>2
    <3>3. cache'["gateway"] # NoObj /\ seen'["gateway"] = "none"
            => objs'[cache'["gateway"]] = objs[cache["gateway"]]
      BY <3>1, <1>1, <1>3
    <3>4. Blank' = Blank /\ Counts(Blank)' = Counts(Blank)
      BY DEF Blank, Counts
    <3>5. QED  BY <3>1, <3>2, <3>3, <3>4 DEF Exact, Counts
  <2>4. QED  BY <2>1, <2>2, <2>3, <1>1 DEF Synced
<1>8. QED  BY <1>4, <1>5, <1>6, <1>7 DEF Inductive

LEMMA DeleteStep ==
    ASSUME Inductive, Delete
    PROVE  Inductive'
<1>1. /\ Removed /\ Keep(objs) /\ UNCHANGED <<persisted, tasks, archived, stale, issued>>
      /\ events' \in Nat /\ persisted \in [Procs -> Known] /\ archived \subseteq Nat
  BY DEF Delete, Event, Inductive, TypeOK, Known
<1>2. QED  BY <1>1, RemovedStep

LEMMA ArchiveStep ==
    ASSUME Inductive, Archive
    PROVE  Inductive'
<1>1. PICK v \in Opened("webui") :
        /\ persisted' = [persisted EXCEPT !["webui"] = v.counts]
        /\ archived' = archived \cup Ids(SubSeq(v.data.msgs, v.data.cons + 1, Len(v.data.msgs)))
  BY DEF Archive
<1>2. v \in Views
  BY OpenedGood DEF Procs
<1>3. /\ v.counts \in Known /\ v.data.msgs \in Seq(Message) /\ v.data.cons \in Nat
      /\ Len(v.data.msgs) \in 0 .. Len(v.data.msgs)
      /\ persisted \in [Procs -> Known] /\ archived \subseteq Nat /\ "gateway" \in Procs
  <2>1. v.counts \in Known /\ v.data.msgs \in Seq(Message) /\ v.data.cons \in Nat
    BY <1>2 DEF Views, Session
  <2>2. persisted \in [Procs -> Known] /\ archived \subseteq Nat /\ "gateway" \in Procs
    BY DEF Inductive, TypeOK, Known, Procs
  <2>3. Len(v.data.msgs) \in 0 .. Len(v.data.msgs)
    BY <2>1, LenProperties
  <2>4. QED  BY <2>1, <2>2, <2>3
<1>4. /\ persisted' \in [Procs -> Known] /\ persisted'["gateway"] = persisted["gateway"]
  BY <1>1, <1>3
<1>5. archived' \subseteq Nat
  BY <1>1, <1>3, MessageIds
<1>6. /\ Removed /\ Keep(objs) /\ UNCHANGED <<tasks, stale, issued>> /\ events' \in Nat
  BY DEF Archive, Event, Inductive, TypeOK
<1>7. QED  BY <1>4, <1>5, <1>6, RemovedStep

LEMMA RestartStep ==
    ASSUME Inductive, NEW p \in Procs, Restart(p)
    PROVE  Inductive'
<1>1. /\ cache \in [Procs -> Objs \cup {NoObj}] /\ objs \in [Objs -> Session]
      /\ seen \in [Procs -> {"none", "current", "old"}] /\ persisted \in [Procs -> Known]
      /\ tasks \in [Tasks -> Task] /\ events \in Nat
      /\ "gateway" \in Procs /\ "webui" \in Procs /\ \A q \in Procs : q = "gateway" \/ q = "webui"
  BY DEF Inductive, TypeOK, Procs, Known
<1>2. /\ cache' = [cache EXCEPT ![p] = NoObj]
      /\ persisted' = [persisted EXCEPT ![p] = Counts(Blank)]
      /\ seen' = [seen EXCEPT ![p] = "none"]
      /\ \A t \in Tasks : tasks'[t] = tasks[t] \/ tasks'[t] = Free
      /\ tasks' \in [Tasks -> Task] /\ Keep(objs)
      /\ UNCHANGED <<file, log, named, archived, stale, issued>> /\ events' \in Nat
  <2>1. Free \in Task
    BY DEF Free, Task
  <2>2. QED  BY <2>1, <1>1 DEF Restart, Invalidated, Event, history
<1>3. /\ objs' \in [Objs -> Session]
      /\ \A q \in Procs : cache'[q] \in Objs /\ seen'[q] # "old"
            => objs'[cache'[q]] = objs[cache'[q]]
  BY <1>1, <1>2, KeepKeeps
<1>4. TypeOK'
  <2>1. Counts(Blank) \in Known
    BY BlankSession, CountsKnown
  <2>2. persisted' \in [Procs -> Known]
    BY <2>1, <1>1, <1>2
  <2>3. QED  BY <2>2, <1>1, <1>2, <1>3 DEF TypeOK, Inductive, Known
<1>5. Filed'
  <2>1. Blank' = Blank
    BY DEF Blank
  <2>2. QED  BY <1>1, <1>2, <2>1 DEF Filed, Inductive
<1>6. Owned'
  <2>1. Free' = Free
    BY DEF Free
  <2>2. QED  BY <2>1, <1>1, <1>2, SessionAssumption DEF Inductive, Owned
<1>7. ASSUME stale' = 0 PROVE Synced'
  <2>1. file'.data.msgs = log' /\ file'.data.meta = named'
    BY <1>7, <1>2 DEF Inductive, Synced
  <2>2. ASSUME NEW q \in Procs PROVE Exact(q)'
    <3>1. CASE q = p
      BY <3>1, <1>1, <1>2 DEF Exact
    <3>2. CASE q # p
      <4>1. /\ Exact(q) /\ cache'[q] = cache[q] /\ seen'[q] = seen[q]
            /\ persisted'[q] = persisted[q] /\ file' = file
        BY <1>7, <3>2, <1>1, <1>2 DEF Inductive, Synced
      <4>2. cache'[q] # NoObj /\ seen'[q] # "old" => objs'[cache'[q]] = objs[cache[q]]
        BY <4>1, <1>1, <1>3
      <4>3. Blank' = Blank /\ Counts(Blank)' = Counts(Blank)
        BY DEF Blank, Counts
      <4>4. QED  BY <4>1, <4>2, <4>3 DEF Exact, Counts
    <3>3. QED  BY <3>1, <3>2
  <2>3. QED  BY <2>1, <2>2 DEF Synced
<1>8. QED  BY <1>4, <1>5, <1>6, <1>7 DEF Inductive

-----------------------------------------------------------------------------

LEMMA InductiveInit == Init => Inductive
<1> SUFFICES ASSUME Init PROVE Inductive
  OBVIOUS
<1>1. Blank \in Session /\ Counts(Blank) \in Known /\ Free \in Task
  BY BlankSession, CountsKnown DEF Free, Task
<1>2. TypeOK
  BY <1>1, SessionAssumption DEF Init, TypeOK, Known
<1>3. Filed /\ Owned
  BY DEF Init, Filed, Owned, Procs
<1>4. Synced
  BY DEF Init, Synced, Exact, Procs, Blank
<1>5. QED  BY <1>2, <1>3, <1>4 DEF Inductive

LEMMA InductiveNext == Inductive /\ [Next]_vars => Inductive'
<1> SUFFICES ASSUME Inductive, [Next]_vars PROVE Inductive'
  OBVIOUS
<1>1. ASSUME NEW t \in Tasks, Step(t) PROVE Inductive'
  BY <1>1, TurnStartStep, ConsolidateStep, ConsolidateDoneStep, ConsolidateFailsStep,
     TurnReplyStep, TurnAbortedStep, LearnStartStep, LearnLockedStep, LearnDoneStep DEF Step
<1>2. CASE New
  BY <1>2, NewStep
<1>3. CASE Web
  BY <1>3, LookStep, NotifyStep, PatchStep, DeleteStep, ArchiveStep DEF Web
<1>4. ASSUME NEW p \in Procs, Restart(p) PROVE Inductive'
  BY <1>4, RestartStep
<1>5. CASE UNCHANGED vars
  BY <1>5 DEF vars, fileVars, history, Inductive, TypeOK, Filed, Owned, Synced, Exact,
              Free, Blank, Counts
<1>6. QED  BY <1>1, <1>2, <1>3, <1>4, <1>5 DEF Next

\* The session store is type correct, whatever the processes do.
THEOREM SessionTypeCorrect == Spec => []TypeOK
<1>1. Inductive => TypeOK
  BY DEF Inductive
<1>2. QED  BY <1>1, InductiveInit, InductiveNext, PTL DEF Spec

\* PackManager.save and get_or_create: as long as nobody saves an object that
\* is behind the file, the file holds the conversation, message by message.
THEOREM FileHoldsConversation == Spec => []InSync
<1>1. Inductive => InSync
  BY DEF Inductive, Synced, InSync
<1>2. QED  BY <1>1, InductiveInit, InductiveNext, PTL DEF Spec

-----------------------------------------------------------------------------
(* What last_consolidated skips has been archived.                         *)

\* The first n of msgs are there, and their ids are among ids.
Within(msgs, n, ids) == n <= Len(msgs) /\ \A i \in 1 .. n : msgs[i].id \in ids

\* So it is for the messages that any copy of the session skips and, while the
\* cached object is that of a task whose chunk is being archived, for those the
\* task will mark when the chunk is in HISTORY.md.
Covered ==
    stale = 0 =>
        /\ Within(file.data.msgs, file.data.cons, archived)
        /\ \A o \in Objs : Within(objs[o].msgs, objs[o].cons, archived)
        /\ \A t \in Tasks :
              (/\ tasks[t].stage = "archive" /\ tasks[t].obj = cache["gateway"]
               /\ seen["gateway"] # "old") =>
                  Within(objs[tasks[t].obj].msgs, tasks[t].mark, archived \cup tasks[t].chunk)

LEMMA WithinGrows ==
    ASSUME NEW msgs \in Seq(Message), NEW xs \in Seq(Message), NEW n \in Nat,
           NEW ids, NEW more, ids \subseteq more, Within(msgs, n, ids)
    PROVE  Within(msgs \o xs, n, more)
<1> DEFINE w == msgs \o xs
<1>1. /\ Len(w) = Len(msgs) + Len(xs) /\ Len(msgs) \in Nat /\ Len(xs) \in Nat
      /\ \A i \in 1 .. Len(w) : w[i] = IF i <= Len(msgs) THEN msgs[i] ELSE xs[i - Len(msgs)]
  BY ConcatProperties
<1> HIDE DEF w
<1>2. n <= Len(w)
  BY <1>1 DEF Within
<1>3. \A i \in 1 .. n : w[i] = msgs[i]
  BY <1>1 DEF Within
<1>4. QED  BY <1>2, <1>3 DEF Within, w

\* The chunk up to b brings the archive from n to b.
LEMMA WithinChunk ==
    ASSUME NEW msgs \in Seq(Message), NEW n \in Nat, NEW b \in n + 1 .. Len(msgs),
           NEW ids, Within(msgs, n, ids)
    PROVE  Within(msgs, b, ids \cup Ids(SubSeq(msgs, n + 1, b)))
<1> DEFINE q == SubSeq(msgs, n + 1, b)
<1>0. Len(msgs) \in Nat /\ b \in Nat
  OBVIOUS
<1>1. /\ q \in Seq(Message) /\ Len(q) = b - n
      /\ \A i \in 1 .. b - n : q[i] = msgs[n + i]
  <2>1. n + 1 \in Int /\ b \in Int /\ \A i \in n + 1 .. b : msgs[i] \in Message
    BY <1>0, ElementOfSeq
  <2>2. /\ q \in Seq(Message)
        /\ Len(q) = IF n + 1 <= b THEN b - (n + 1) + 1 ELSE 0
        /\ \A i \in 1 .. b - (n + 1) + 1 : q[i] = msgs[n + 1 + i - 1]
    BY <2>1, SubSeqProperties
  <2> HIDE DEF q
  <2>3. b - (n + 1) + 1 = b - n /\ n + 1 <= b
    BY <1>0
  <2>4. \A i \in 1 .. b - n : n + 1 + i - 1 = n + i
    BY <1>0
  <2>5. QED  BY <2>2, <2>3, <2>4
<1> HIDE DEF q
<1>2. ASSUME NEW i \in n + 1 .. b PROVE msgs[i].id \in Ids(q)
  <2>1. i - n \in 1 .. Len(q) /\ n + (i - n) = i
    BY <1>0, <1>1
  <2>2. i - n \in DOMAIN q /\ q[i - n] = msgs[i]
    BY <1>0, <1>1, <2>1, LenProperties
  <2>3. QED  BY <2>2 DEF Ids
<1>3. ASSUME NEW i \in 1 .. b PROVE msgs[i].id \in ids \cup Ids(q)
  BY <1>0, <1>2 DEF Within
<1>4. QED  BY <1>0, <1>3 DEF Within, q

LEMMA WithinMonotonic ==
    ASSUME NEW msgs, NEW n, NEW ids, NEW more, ids \subseteq more, Within(msgs, n, ids)
    PROVE  Within(msgs, n, more)
BY DEF Within

\* The view is of the cached object, or of one that no task has.
Attached(v) ==
    \/ v.obj = cache["gateway"] /\ seen["gateway"] # "old" /\ v.data = objs[v.obj]
    \/ \A u \in Tasks : tasks[u].obj # v.obj

\* A step that leaves the object of v holding data, and may start to archive
\* a chunk of it.
Covers(p, v, data, how) ==
    /\ Put(p, v, data, how)
    /\ \A q \in Procs \ {p} : v.obj # cache[q]
    /\ archived \subseteq archived'
    /\ stale' \in Nat
    /\ p = "webui" => \A u \in Tasks : tasks[u].obj # v.obj
    /\ stale' = 0 =>
        /\ stale = 0
        /\ how = "open" => data = v.data
        /\ how # "keep" => /\ Good(v) /\ Within(data.msgs, data.cons, archived')
                           /\ Attached(v)
                           /\ \E xs \in Seq(Message) : data.msgs = v.data.msgs \o xs
        /\ \A u \in Tasks : tasks'[u].stage = "archive" =>
              \/ tasks'[u] = tasks[u]
              \/ /\ tasks'[u].obj = v.obj
                 /\ how = "keep" => data = objs[v.obj]
                 /\ Within(data.msgs, tasks'[u].mark, archived' \cup tasks'[u].chunk)

LEMMA CoveredView ==
    ASSUME Inductive, Inductive', Covered, NEW p \in Procs, NEW v \in Views,
           NEW data \in Session, NEW how \in {"save", "open", "keep"},
           Covers(p, v, data, how)
    PROVE  Covered'
<1>t. /\ file.data \in Session /\ v.data \in Session /\ v.obj \in Objs
      /\ cache \in [Procs -> Objs \cup {NoObj}] /\ tasks \in [Tasks -> Task]
      /\ tasks' \in [Tasks -> Task] /\ objs \in [Objs -> Session]
      /\ cache' \in [Procs -> Objs \cup {NoObj}]
      /\ seen \in [Procs -> {"none", "current", "old"}]
      /\ "gateway" \in Procs /\ "webui" \in Procs /\ \A q \in Procs : q = "gateway" \/ q = "webui"
  BY DEF Inductive, TypeOK, Views, Procs
<1> SUFFICES ASSUME stale' = 0 PROVE
        /\ Within(file'.data.msgs, file'.data.cons, archived')
        /\ \A o \in Objs : Within(objs'[o].msgs, objs'[o].cons, archived')
        /\ \A t \in Tasks :
              (/\ tasks'[t].stage = "archive" /\ tasks'[t].obj = cache'["gateway"]
               /\ seen'["gateway"] # "old") =>
                  Within(objs'[tasks'[t].obj].msgs, tasks'[t].mark, archived' \cup tasks'[t].chunk)
  BY DEF Covered
<1>c. /\ Put(p, v, data, how) /\ archived \subseteq archived' /\ stale = 0
      /\ \A q \in Procs \ {p} : v.obj # cache[q]
      /\ p = "webui" => \A u \in Tasks : tasks[u].obj # v.obj
      /\ how = "open" => data = v.data
      /\ how # "keep" => /\ Good(v) /\ Within(data.msgs, data.cons, archived')
                         /\ Attached(v)
                         /\ \E xs \in Seq(Message) : data.msgs = v.data.msgs \o xs
      /\ \A u \in Tasks : tasks'[u].stage = "archive" =>
              \/ tasks'[u] = tasks[u]
              \/ /\ tasks'[u].obj = v.obj
                 /\ how = "keep" => data = objs[v.obj]
                 /\ Within(data.msgs, tasks'[u].mark, archived' \cup tasks'[u].chunk)
  BY DEF Covers
<1>f. /\ Within(file.data.msgs, file.data.cons, archived)
      /\ \A o \in Objs : Within(objs[o].msgs, objs[o].cons, archived)
      /\ \A t \in Tasks :
            (/\ tasks[t].stage = "archive" /\ tasks[t].obj = cache["gateway"]
             /\ seen["gateway"] # "old") =>
                Within(objs[tasks[t].obj].msgs, tasks[t].mark, archived \cup tasks[t].chunk)
  BY <1>c DEF Covered
<1> DEFINE new == IF how = "keep" THEN objs ELSE [objs EXCEPT ![v.obj] = data]
<1>n. /\ new \in [Objs -> Session]
      /\ how # "keep" => new[v.obj] = data
      /\ how = "keep" => new = objs
      /\ \A o \in Objs : o # v.obj => new[o] = objs[o]
  BY <1>t
<1>k. Keep(new)
  BY <1>c DEF Put
<1> HIDE DEF new
<1>1. file'.data = (IF how = "save" THEN data ELSE file.data)
  <2>1. how # "keep" => Good(v) /\ Grown(v.data, data)
    BY <1>c DEF Grown
  <2>2. QED  BY <1>c, <2>1, PutWorks
<1>2. Within(file'.data.msgs, file'.data.cons, archived')
  BY <1>1, <1>c, <1>f, WithinMonotonic
<1>3. ASSUME NEW o \in Objs PROVE Within(objs'[o].msgs, objs'[o].cons, archived')
  <2>1. objs'[o] = Blank \/ objs'[o] = new[o]
    BY <1>k DEF Keep
  <2>2. Within(Blank.msgs, Blank.cons, archived')
    BY DEF Within, Blank
  <2>3. Within(new[o].msgs, new[o].cons, archived')
    <3>1. Within(objs[o].msgs, objs[o].cons, archived')
      BY <1>c, <1>f, WithinMonotonic
    <3>2. CASE new[o] = objs[o]
      BY <3>1, <3>2
    <3>3. CASE new[o] # objs[o]
      <4>1. how # "keep" /\ o = v.obj
        BY <3>3, <1>n
      <4>2. new[o] = data
        BY <4>1, <1>n
      <4>3. QED  BY <4>1, <4>2, <1>c
    <3>4. QED  BY <3>2, <3>3
  <2>4. QED  BY <2>1, <2>2, <2>3
<1>4. ASSUME NEW t \in Tasks, tasks'[t].stage = "archive",
             tasks'[t].obj = cache'["gateway"], seen'["gateway"] # "old"
      PROVE  Within(objs'[tasks'[t].obj].msgs, tasks'[t].mark, archived' \cup tasks'[t].chunk)
  <2>1. tasks'[t].obj \in Objs
    BY <1>4 DEF Inductive, Owned, Free
  <2>2. objs'[tasks'[t].obj] = new[tasks'[t].obj]
    <3>1. tasks'[t].obj \in InUse'
      BY DEF InUse
    <3>2. QED  BY <1>k, <2>1, <3>1 DEF Keep
  <2>3. CASE tasks'[t] # tasks[t]
    <3>1. /\ tasks'[t].obj = v.obj /\ (how = "keep" => data = objs[v.obj])
          /\ Within(data.msgs, tasks'[t].mark, archived' \cup tasks'[t].chunk)
      BY <2>3, <1>4, <1>c
    <3>2. new[v.obj] = data
      BY <3>1, <1>n
    <3>3. QED  BY <3>1, <3>2, <2>2
  <2>4. CASE tasks'[t] = tasks[t]
    <3>1. tasks[t].obj = cache["gateway"] /\ seen["gateway"] # "old"
      <4>1. CASE p = "gateway" /\ how # "keep"
        <5>1. cache'["gateway"] = v.obj
          BY <4>1, <1>c, <1>t DEF Put
        <5>2. QED  BY <5>1, <4>1, <2>4, <1>4, <1>c DEF Attached
      <4>2. CASE p = "gateway" /\ how = "keep"
        BY <4>2, <2>4, <1>4, <1>c DEF Put
      <4>3. CASE p = "webui"
        <5>1. /\ cache'["gateway"] = cache["gateway"]
              /\ seen'["gateway"] = seen["gateway"] \/ seen'["gateway"] = "old"
          <6>1. cache' = cache \/ cache' = [cache EXCEPT ![p] = v.obj]
            BY <1>c DEF Put
          <6>2. \/ seen' = seen
                \/ \E x : seen' = [seen EXCEPT ![p] = x]
                \/ Write(p, v, data)
            BY <1>c DEF Put
          <6>3. seen'["gateway"] = seen["gateway"] \/ seen'["gateway"] = "old"
            BY <6>2, <4>3, <1>t, Zenon DEF Write
          <6>4. QED  BY <6>1, <6>3, <4>3, <1>t
        <5>2. QED  BY <5>1, <2>4, <1>4
      <4>4. QED  BY <4>1, <4>2, <4>3, <1>t
    <3>2. Within(objs[tasks[t].obj].msgs, tasks[t].mark, archived \cup tasks[t].chunk)
      BY <3>1, <2>4, <1>4, <1>f
    <3>3. archived \cup tasks[t].chunk \subseteq archived' \cup tasks[t].chunk
      BY <1>c
    <3>4. CASE new[tasks[t].obj] = objs[tasks[t].obj]
      BY <3>2, <3>3, <3>4, <2>2, <2>4, WithinMonotonic
    <3>5. CASE new[tasks[t].obj] # objs[tasks[t].obj]
      <4>1. how # "keep" /\ tasks[t].obj = v.obj /\ new[v.obj] = data
        <5>1. tasks[t].obj \in Objs
          BY <2>1, <2>4
        <5>2. tasks[t].obj = v.obj /\ how # "keep"
          BY <5>1, <3>5, <1>n
        <5>3. QED  BY <5>2, <1>n
      <4>2. objs[v.obj] = v.data
        BY <4>1, <1>c DEF Attached
      <4>3. PICK xs \in Seq(Message) : data.msgs = v.data.msgs \o xs
        BY <4>1, <1>c
      <4>4. v.data.msgs \in Seq(Message) /\ tasks[t].mark \in Nat
        BY <1>t DEF Session, Task
      <4>5. Within(v.data.msgs \o xs, tasks[t].mark, archived' \cup tasks[t].chunk)
        BY <4>1, <4>2, <4>4, <3>2, <3>3, WithinGrows
      <4>6. QED  BY <4>1, <4>3, <4>5, <2>2, <2>4
    <3>6. QED  BY <3>4, <3>5
  <2>5. QED  BY <2>3, <2>4
<1>5. QED  BY <1>2, <1>3, <1>4

LEMMA OpenedAttached ==
    ASSUME Inductive, Covered, NEW p \in Procs, NEW v \in Opened(p)
    PROVE  /\ p = "gateway" => Attached(v)
           /\ p = "webui" => \A u \in Tasks : tasks[u].obj # v.obj
           /\ stale = 0 => Good(v) /\ Within(v.data.msgs, v.data.cons, archived)
<1>1. /\ p = "webui" => \A t \in Tasks : tasks[t].obj # v.obj
      /\ stale = 0 => Good(v)
  BY OpenedGood
<1>2. ASSUME p = "gateway" PROVE Attached(v)
  <2>1. CASE Fresh(p)
    BY <1>2, <2>1 DEF Opened, Fresh, Attached
  <2>2. CASE ~Fresh(p)
    <3>1. v.obj \in Spare(p)
      BY <2>2 DEF Opened
    <3>2. QED  BY <3>1, SpareFree DEF HeldBesides, Attached
  <2>3. QED  BY <2>1, <2>2
<1>3. ASSUME stale = 0 PROVE Within(v.data.msgs, v.data.cons, archived)
  BY <1>1, <1>3 DEF Covered, Good
<1>4. QED  BY <1>1, <1>2, <1>3

LEMMA MineAttached ==
    ASSUME Inductive, Covered, NEW t \in Tasks, tasks[t] # Free
    PROVE  /\ Mine(t).data = objs[Mine(t).obj]
           /\ ~Behind(t) => Attached(Mine(t))
           /\ stale = 0 => Within(Mine(t).data.msgs, Mine(t).data.cons, archived)
<1>1. Mine(t).obj = tasks[t].obj /\ Mine(t).data = objs[tasks[t].obj] /\ tasks[t].obj \in Objs
  BY MineGood DEF Views
<1>2. ~Behind(t) => Attached(Mine(t))
  BY <1>1 DEF Behind, Fresh, Attached
<1>3. QED  BY <1>1, <1>2 DEF Covered

\* How a turn goes on without archiving.
LEMMA ResumesCovers ==
    ASSUME Inductive, Inductive', Covered, NEW t \in Tasks, NEW kind \in TaskKinds,
           NEW v \in Views, NEW data \in Session, NEW how \in {"save", "open", "keep"},
           Resumes(t, kind, v, data, how), v.obj # cache["webui"],
           archived \subseteq archived',
           stale' = 0 =>
                /\ stale = 0
                /\ how = "open" => data = v.data
                /\ how # "keep" \/ kind = "chat" =>
                      /\ Good(v) /\ data.msgs = v.data.msgs /\ Attached(v)
                      /\ Within(data.msgs, data.cons, archived')
    PROVE  Covered'
<1>t. /\ issued \in Nat /\ tasks \in [Tasks -> Task] /\ stale' \in Nat
      /\ v.data.msgs \in Seq(Message) /\ data.msgs \in Seq(Message) /\ data.cons \in Nat
      /\ "gateway" \in Procs /\ \A q \in Procs \ {"gateway"} : v.obj # cache[q]
  BY DEF Inductive, TypeOK, Views, Session, Procs
<1>f. /\ At("llm", kind, v).stage # "archive" /\ Free.stage # "archive"
  BY DEF At, Free
<1>a. ASSUME Become(t, At("llm", kind, v)) \/ Become(t, Free), NEW u \in Tasks,
             tasks'[u].stage = "archive"
      PROVE  tasks'[u] = tasks[u]
  BY <1>a, <1>f, <1>t DEF Become
<1>1. CASE kind = "chat"
  <2> DEFINE xs == Fresh1("user")
             grown == [data EXCEPT !.msgs = @ \o xs]
  <2>1. /\ Become(t, At("llm", kind, v)) \/ Become(t, Free)
        /\ Put("gateway", v, grown, "save")
    BY <1>1 DEF Resumes
  <2>2. xs \in Seq(Message)
    BY <1>t DEF Fresh1, Message
  <2>3. grown \in Session /\ grown.msgs = data.msgs \o xs /\ grown.cons = data.cons
    <3> HIDE DEF xs
    <3>1. data.msgs \o xs \in Seq(Message)
      BY <2>2, <1>t, ConcatProperties
    <3>2. QED  BY <3>1 DEF Session
  <2> HIDE DEF xs, grown
  <2>4. stale' = 0 => Within(grown.msgs, grown.cons, archived')
    <3>1. SUFFICES ASSUME stale' = 0 PROVE Within(data.msgs \o xs, data.cons, archived')
      BY <2>3
    <3>2. Within(data.msgs, data.cons, archived')
      BY <3>1, <1>1
    <3>3. QED  BY <3>2, <2>2, <1>t, WithinGrows
  <2>5. Covers("gateway", v, grown, "save")
    BY <2>1, <2>2, <2>3, <2>4, <1>1, <1>a, <1>t DEF Covers
  <2>6. QED  BY <2>3, <2>5, <1>t, CoveredView
<1>2. CASE kind # "chat"
  <2>1. /\ Put("gateway", v, data, how)
        /\ Become(t, At("llm", kind, v)) \/ Become(t, Free)
    BY <1>2 DEF Resumes
  <2>2. <<>> \in Seq(Message) /\ v.data.msgs = v.data.msgs \o <<>>
    BY <1>t, ConcatEmptySeq
  <2>3. Covers("gateway", v, data, how)
    BY <2>1, <2>2, <1>a, <1>t DEF Covers
  <2>4. QED  BY <2>3, <1>t, CoveredView
<1>3. QED  BY <1>1, <1>2

LEMMA ArchivesCovers ==
    ASSUME Inductive, Inductive', Covered, NEW t \in Tasks, NEW kind \in TaskKinds,
           NEW v \in Views, NEW data \in Session, NEW how \in {"save", "open", "keep"},
           Archives(t, kind, v, data), Put("gateway", v, data, how),
           v.obj # cache["webui"], archived \subseteq archived',
           stale' = 0 =>
                /\ stale = 0
                /\ how = "open" => data = v.data
                /\ how = "keep" => data = objs[v.obj]
                /\ Within(data.msgs, data.cons, archived')
                /\ how # "keep" => Good(v) /\ data.msgs = v.data.msgs /\ Attached(v)
    PROVE  Covered'
<1>t. /\ tasks \in [Tasks -> Task] /\ stale' \in Nat
      /\ v.data.msgs \in Seq(Message) /\ data.msgs \in Seq(Message) /\ data.cons \in Nat
      /\ "gateway" \in Procs /\ \A q \in Procs \ {"gateway"} : v.obj # cache[q]
  BY DEF Inductive, TypeOK, Views, Session, Procs
<1>1. PICK b \in Boundaries(data) :
        tasks' = [tasks EXCEPT ![t] =
                    [At("archive", kind, v) EXCEPT
                        !.mark = b, !.chunk = Ids(SubSeq(data.msgs, data.cons + 1, b))]]
  BY DEF Archives, Become
<1> DEFINE chunk == Ids(SubSeq(data.msgs, data.cons + 1, b))
           task == [At("archive", kind, v) EXCEPT !.mark = b, !.chunk = chunk]
<1>2. task.obj = v.obj /\ task.mark = b /\ task.chunk = chunk
  BY DEF At, Free
<1>3. b \in data.cons + 1 .. Len(data.msgs)
  BY <1>t DEF Boundaries
<1>4. stale' = 0 => Within(data.msgs, b, archived' \cup chunk)
  BY <1>3, <1>t, WithinChunk
<1> HIDE DEF task, chunk
<1>5. ASSUME NEW u \in Tasks PROVE tasks'[u] = tasks[u] \/ tasks'[u] = task
  BY <1>1, <1>t DEF task, chunk
<1>6. ASSUME stale' = 0, NEW u \in Tasks
      PROVE  \/ tasks'[u] = tasks[u]
             \/ /\ tasks'[u].obj = v.obj
                /\ how = "keep" => data = objs[v.obj]
                /\ Within(data.msgs, tasks'[u].mark, archived' \cup tasks'[u].chunk)
  BY <1>2, <1>4, <1>5, <1>6
<1>7. <<>> \in Seq(Message) /\ v.data.msgs = v.data.msgs \o <<>>
  BY <1>t, ConcatEmptySeq
<1>8. Covers("gateway", v, data, how)
  BY <1>6, <1>7, <1>t DEF Covers
<1>9. QED  BY <1>8, <1>t, CoveredView

LEMMA TurnStartCovers ==
    ASSUME Inductive, Inductive', Covered, NEW t \in Tasks, NEW kind \in Turns,
           TurnStart(t, kind)
    PROVE  Covered'
<1>1. PICK v \in Opened("gateway"), m \in Metas :
        LET data == [v.data EXCEPT !.meta = m]
            how == IF m = v.data.meta THEN "open" ELSE "save"
        IN  \/ Resumes(t, kind, v, data, how)
            \/ Archives(t, kind, v, data) /\ Put("gateway", v, data, how)
            \/ Become(t, At("wait", kind, v)) /\ Put("gateway", v, data, how)
  BY DEF TurnStart
<1> DEFINE data == [v.data EXCEPT !.meta = m]
           how == IF m = v.data.meta THEN "open" ELSE "save"
<1>2. /\ v \in Views /\ v.obj # cache["webui"]
      /\ \A q \in Procs \ {"gateway"} : v.obj # cache[q]
      /\ stale = 0 => Good(v)
  BY OpenedGood DEF Procs
<1>3. /\ Attached(v)
      /\ stale = 0 => Within(v.data.msgs, v.data.cons, archived)
  BY OpenedAttached DEF Procs
<1>4. /\ kind \in TaskKinds /\ "gateway" \in Procs /\ tasks \in [Tasks -> Task]
      /\ v.data \in Session /\ v.data.msgs \in Seq(Message) /\ stale \in Nat
  BY <1>2 DEF Turns, TaskKinds, Procs, Inductive, TypeOK, Views, Session
<1>5. /\ data \in Session /\ how \in {"save", "open", "keep"} /\ how # "keep"
      /\ data.msgs = v.data.msgs /\ data.cons = v.data.cons
      /\ how = "open" => data = v.data
  BY <1>4 DEF Session
<1>6. archived' = archived /\ stale' = stale
  BY DEF TurnStart
<1>7. \/ Resumes(t, kind, v, data, how)
      \/ Archives(t, kind, v, data) /\ Put("gateway", v, data, how)
      \/ Become(t, At("wait", kind, v)) /\ Put("gateway", v, data, how)
  BY <1>1
<1> HIDE DEF data, how
<1>8. CASE Resumes(t, kind, v, data, how)
  BY <1>8, <1>2, <1>3, <1>4, <1>5, <1>6, ResumesCovers
<1>9. CASE Archives(t, kind, v, data) /\ Put("gateway", v, data, how)
  BY <1>9, <1>2, <1>3, <1>4, <1>5, <1>6, ArchivesCovers
<1>10. CASE Become(t, At("wait", kind, v)) /\ Put("gateway", v, data, how)
  <2>1. At("wait", kind, v).stage # "archive"
    BY DEF At, Free
  <2>2. \A u \in Tasks : tasks'[u].stage = "archive" => tasks'[u] = tasks[u]
    BY <2>1, <1>10, <1>4 DEF Become
  <2>3. <<>> \in Seq(Message) /\ v.data.msgs = v.data.msgs \o <<>>
    BY <1>4, ConcatEmptySeq
  <2>4. Covers("gateway", v, data, how)
    BY <2>2, <2>3, <1>2, <1>3, <1>4, <1>5, <1>6, <1>10 DEF Covers
  <2>5. QED  BY <2>4, <1>2, <1>4, <1>5, CoveredView
<1>11. QED  BY <1>7, <1>8, <1>9, <1>10

LEMMA ConsolidateCovers ==
    ASSUME Inductive, Inductive', Covered, NEW t \in Tasks,
           Consolidate(t) \/ ConsolidateFails(t)
    PROVE  Covered'
<1> DEFINE v == Mine(t)
           kind == tasks[t].kind
<1>1. tasks[t] # Free
  BY DEF Consolidate, ConsolidateFails, Free
<1>2. /\ v \in Views /\ v.obj # cache["webui"]
      /\ stale = 0 /\ ~Behind(t) => Good(v)
      /\ v.data = objs[v.obj]
      /\ ~Behind(t) => Attached(v)
      /\ stale = 0 => Within(v.data.msgs, v.data.cons, archived)
  BY <1>1, MineGood, MineAttached
<1>3. /\ kind \in TaskKinds /\ v.data \in Session /\ stale \in Nat
  BY <1>2 DEF Inductive, TypeOK, Task, TaskKinds, Views
<1>4. /\ archived' = archived
      /\ \/ /\ Resumes(t, kind, v, v.data, "keep")
            /\ Stales(kind = "chat" /\ Behind(t))
         \/ /\ Archives(t, kind, v, v.data) /\ Put("gateway", v, v.data, "keep")
            /\ stale' = stale
  BY DEF Consolidate, ConsolidateFails
<1> HIDE DEF v, kind
<1>5. CASE Resumes(t, kind, v, v.data, "keep") /\ Stales(kind = "chat" /\ Behind(t))
  <2>1. stale' = 0 => stale = 0 /\ (kind = "chat" => Good(v) /\ Attached(v))
    BY <1>5, <1>2, <1>3 DEF Stales
  <2>2. QED  BY <2>1, <1>2, <1>3, <1>4, <1>5, ResumesCovers
<1>6. CASE /\ Archives(t, kind, v, v.data) /\ Put("gateway", v, v.data, "keep")
           /\ stale' = stale
  BY <1>2, <1>3, <1>4, <1>6, ArchivesCovers
<1>7. QED  BY <1>4, <1>5, <1>6

\* The mark is set when the chunk it covers has been archived.
LEMMA ConsolidateDoneCovers ==
    ASSUME Inductive, Inductive', Covered, NEW t \in Tasks, ConsolidateDone(t)
    PROVE  Covered'
<1> DEFINE v == Mine(t)
           kind == tasks[t].kind
           data == [v.data EXCEPT !.cons = tasks[t].mark]
<1>1. tasks[t] # Free /\ tasks[t].stage = "archive"
  BY DEF ConsolidateDone, Free
<1>2. /\ v \in Views /\ v.obj # cache["webui"] /\ v.obj = tasks[t].obj
      /\ stale = 0 /\ ~Behind(t) => Good(v)
      /\ v.data = objs[v.obj]
      /\ ~Behind(t) => Attached(v)
  BY <1>1, MineGood, MineAttached
<1>3. /\ kind \in TaskKinds /\ v.data \in Session /\ stale \in Nat /\ tasks[t].mark \in Nat
  BY <1>2 DEF Inductive, TypeOK, Task, TaskKinds, Views
<1>4. data \in Session /\ data.msgs = v.data.msgs /\ data.cons = tasks[t].mark
  BY <1>3 DEF Session
<1>5. /\ archived' = archived \cup tasks[t].chunk
      /\ Stales(Behind(t))
      /\ \/ Resumes(t, kind, v, data, "save")
         \/ Archives(t, kind, v, data) /\ Put("gateway", v, data, "save")
  BY DEF ConsolidateDone
<1> HIDE DEF v, kind, data
<1>6. ASSUME stale' = 0
      PROVE  /\ stale = 0 /\ Good(v) /\ Attached(v)
             /\ Within(data.msgs, data.cons, archived')
  <2>1. stale = 0 /\ ~Behind(t)
    BY <1>5, <1>6, <1>3 DEF Stales
  <2>2. v.obj = cache["gateway"] /\ seen["gateway"] # "old"
    BY <2>1, <1>2 DEF Behind, Fresh
  <2>3. Within(objs[v.obj].msgs, tasks[t].mark, archived \cup tasks[t].chunk)
    BY <2>1, <2>2, <1>1, <1>2 DEF Covered
  <2>4. QED  BY <2>1, <2>3, <1>2, <1>4, <1>5
<1>7. CASE Resumes(t, kind, v, data, "save")
  BY <1>2, <1>3, <1>4, <1>5, <1>6, <1>7, ResumesCovers
<1>8. CASE Archives(t, kind, v, data) /\ Put("gateway", v, data, "save")
  BY <1>2, <1>3, <1>4, <1>5, <1>6, <1>8, ArchivesCovers
<1>9. QED  BY <1>5, <1>7, <1>8

LEMMA TurnReplyCovers ==
    ASSUME Inductive, Inductive', Covered, NEW t \in Tasks, TurnReply(t)
    PROVE  Covered'
<1> DEFINE v == Mine(t)
           xs == IF tasks[t].kind = "chat" THEN Fresh1("agent") ELSE Fresh2("agent", "agent")
           data == [v.data EXCEPT !.msgs = @ \o xs]
<1>1. tasks[t] # Free
  BY DEF TurnReply, Free
<1>2. /\ v \in Views /\ v.obj # cache["webui"]
      /\ stale = 0 /\ ~Behind(t) => Good(v)
      /\ ~Behind(t) => Attached(v)
      /\ stale = 0 => Within(v.data.msgs, v.data.cons, archived)
  BY <1>1, MineGood, MineAttached
<1>3. /\ v.data \in Session /\ v.data.msgs \in Seq(Message) /\ v.data.cons \in Nat
      /\ stale \in Nat /\ stale' \in Nat /\ issued \in Nat /\ tasks \in [Tasks -> Task]
      /\ "gateway" \in Procs /\ \A q \in Procs \ {"gateway"} : v.obj # cache[q]
  BY <1>2 DEF Inductive, TypeOK, Views, Session, Procs
<1>4. xs \in Seq(Message)
  <2>1. /\ [id |-> issued + 1, by |-> "agent"] \in Message
        /\ [id |-> issued + 2, by |-> "agent"] \in Message
    BY <1>3 DEF Message
  <2>2. QED  BY <2>1 DEF Fresh1, Fresh2
<1>5. /\ \/ Become(t, At("due", "consolidate", v))
         \/ \E u \in Tasks \ {t} :
                tasks' = [tasks EXCEPT ![t] = At("due", "consolidate", v),
                                       ![u] = At("due", "learn", v)]
      /\ Put("gateway", v, data, "save")
      /\ Stales(Behind(t)) /\ archived' = archived
  BY DEF TurnReply
<1> HIDE DEF v, xs
<1>6. data \in Session /\ data.msgs = v.data.msgs \o xs /\ data.cons = v.data.cons
  <2>1. v.data.msgs \o xs \in Seq(Message)
    BY <1>3, <1>4, ConcatProperties
  <2>2. QED  BY <1>3, <2>1 DEF Session
<1> HIDE DEF data
<1>7. ASSUME NEW u \in Tasks, tasks'[u].stage = "archive" PROVE tasks'[u] = tasks[u]
  <2>1. /\ At("due", "consolidate", v).stage # "archive"
        /\ At("due", "learn", v).stage # "archive"
    BY DEF At, Free
  <2>2. QED  BY <2>1, <1>3, <1>5, <1>7 DEF Become
<1>8. ASSUME stale' = 0
      PROVE  /\ stale = 0 /\ Good(v) /\ Attached(v)
             /\ Within(data.msgs, data.cons, archived')
  <2>1. stale = 0 /\ ~Behind(t)
    BY <1>5, <1>8, <1>3 DEF Stales
  <2>2. Within(v.data.msgs \o xs, v.data.cons, archived)
    BY <2>1, <1>2, <1>3, <1>4, WithinGrows
  <2>3. QED  BY <2>1, <2>2, <1>2, <1>5, <1>6
<1>9. Covers("gateway", v, data, "save")
  BY <1>3, <1>4, <1>5, <1>6, <1>7, <1>8 DEF Covers
<1>10. QED  BY <1>2, <1>3, <1>6, <1>9, CoveredView

\* A task that goes on and archives nothing new.
LEMMA QuietCovers ==
    ASSUME Inductive, Inductive', Covered, NEW t \in Tasks, tasks[t] # Free,
           NEW task, Become(t, task), task.stage # "archive",
           Put("gateway", Mine(t), Mine(t).data, "keep"), UNCHANGED <<archived, stale>>
    PROVE  Covered'
<1> DEFINE v == Mine(t)
<1>1. v \in Views /\ v.obj # cache["webui"]
  BY MineGood
<1>2. /\ v.data \in Session /\ stale \in Nat /\ tasks \in [Tasks -> Task]
      /\ "gateway" \in Procs /\ \A q \in Procs \ {"gateway"} : v.obj # cache[q]
  BY <1>1 DEF Inductive, TypeOK, Views, Procs
<1>3. Put("gateway", v, v.data, "keep")
  OBVIOUS
<1> HIDE DEF v
<1>4. \A u \in Tasks : tasks'[u].stage = "archive" => tasks'[u] = tasks[u]
  BY <1>2 DEF Become
<1>5. Covers("gateway", v, v.data, "keep")
  BY <1>2, <1>3, <1>4 DEF Covers
<1>6. QED  BY <1>1, <1>2, <1>5, CoveredView

LEMMA LearnDoneCovers ==
    ASSUME Inductive, Inductive', Covered, NEW t \in Tasks, LearnDone(t)
    PROVE  Covered'
<1> DEFINE v == Mine(t)
           data == [v.data EXCEPT !.learned = @ + tasks[t].mark]
<1>1. tasks[t] # Free /\ Free.stage # "archive"
  BY DEF LearnDone, Free
<1>2. /\ v \in Views /\ v.obj # cache["webui"]
      /\ stale = 0 /\ ~Behind(t) => Good(v)
      /\ ~Behind(t) => Attached(v)
      /\ stale = 0 => Within(v.data.msgs, v.data.cons, archived)
  BY <1>1, MineGood, MineAttached
<1>3. /\ v.data \in Session /\ v.data.msgs \in Seq(Message) /\ v.data.learned \in Nat
      /\ stale \in Nat /\ stale' \in Nat /\ tasks \in [Tasks -> Task] /\ tasks[t].mark \in Nat
      /\ "gateway" \in Procs /\ \A q \in Procs \ {"gateway"} : v.obj # cache[q]
  BY <1>2 DEF Inductive, TypeOK, Views, Session, Procs, Task
<1>4. data \in Session /\ data.msgs = v.data.msgs /\ data.cons = v.data.cons
  <2>1. ASSUME NEW d \in Session, NEW n \in Nat
        PROVE  LET e == [d EXCEPT !.learned = @ + n]
               IN  e \in Session /\ e.msgs = d.msgs /\ e.cons = d.cons
    BY DEF Session
  <2>2. v.data \in Session /\ tasks[t].mark \in Nat
    BY <1>3
  <2>3. QED  BY ONLY <2>1, <2>2
<1>5. /\ Become(t, Free) /\ archived' = archived
      /\ \/ Put("gateway", v, data, "save") /\ Stales(Behind(t))
         \/ Put("gateway", v, v.data, "keep") /\ UNCHANGED stale
  BY DEF LearnDone
<1>6. CASE Put("gateway", v, v.data, "keep") /\ UNCHANGED stale
  BY <1>1, <1>5, <1>6, QuietCovers
<1>7. CASE Put("gateway", v, data, "save") /\ Stales(Behind(t))
  <2> HIDE DEF v, data
  <2>1. stale' = 0 => /\ stale = 0 /\ Good(v) /\ Attached(v)
                      /\ Within(data.msgs, data.cons, archived')
    BY <1>7, <1>2, <1>3, <1>4, <1>5 DEF Stales
  <2>2. \A u \in Tasks : tasks'[u].stage = "archive" => tasks'[u] = tasks[u]
    BY <1>1, <1>3, <1>5 DEF Become
  <2>3. <<>> \in Seq(Message) /\ data.msgs = v.data.msgs \o <<>>
    BY <1>3, <1>4, ConcatEmptySeq
  <2>4. Covers("gateway", v, data, "save")
    BY <2>1, <2>2, <2>3, <1>3, <1>5, <1>7 DEF Covers
  <2>5. QED  BY <2>4, <1>2, <1>3, <1>4, CoveredView
<1>8. QED  BY <1>5, <1>6, <1>7

LEMMA TaskCovers ==
    ASSUME Inductive, Inductive', Covered, NEW t \in Tasks, Step(t)
    PROVE  Covered'
<1>1. CASE TurnAborted(t)
  <2>1. tasks[t] # Free /\ Free.stage # "archive"
    BY <1>1 DEF TurnAborted, Free, Turns
  <2>2. QED  BY <1>1, <2>1, QuietCovers DEF TurnAborted, history
<1>2. CASE LearnStart(t)
  <2>1. tasks[t] # Free /\ tasks[t] \in Task
    BY <1>2 DEF LearnStart, Free, Inductive, TypeOK
  <2>2. PICK task : Become(t, task) /\ task.stage # "archive"
    <3>1. Free.stage # "archive"
      BY DEF Free
    <3>2. \A mark : [tasks[t] EXCEPT !.stage = IF Locked THEN "wait" ELSE "learn",
                                     !.mark = mark].stage # "archive"
      BY <2>1 DEF Task
    <3>3. QED  BY <1>2, <3>1, <3>2 DEF LearnStart
  <2>3. Put("gateway", Mine(t), Mine(t).data, "keep") /\ UNCHANGED <<archived, stale>>
    BY <1>2 DEF LearnStart, Mine, history
  <2>4. QED  BY <2>1, <2>2, <2>3, QuietCovers
<1>3. CASE LearnLocked(t)
  <2>1. tasks[t] # Free /\ tasks[t] \in Task
    BY <1>3 DEF LearnLocked, Free, Inductive, TypeOK
  <2>2. [tasks[t] EXCEPT !.stage = "learn"].stage # "archive"
    BY <2>1 DEF Task
  <2>3. QED  BY <1>3, <2>1, <2>2, QuietCovers DEF LearnLocked, history
<1>4. QED
  BY <1>1, <1>2, <1>3, TurnStartCovers, ConsolidateCovers, ConsolidateDoneCovers,
     TurnReplyCovers, LearnDoneCovers DEF Step

LEMMA NewCovers ==
    ASSUME Inductive, Inductive', Covered, New
    PROVE  Covered'
<1>1. PICK v \in Opened("gateway") :
        /\ Write("gateway", v, Cleared(v.data))
        /\ Keep([objs EXCEPT ![v.obj] = Cleared(v.data)])
        /\ archived \subseteq archived'
  BY DEF New
<1> DEFINE data == Cleared(v.data)
<1>2. /\ v \in Views /\ stale = 0 => Good(v)
  BY OpenedGood DEF Procs
<1>3. /\ v.data \in Session /\ v.obj \in Objs /\ "gateway" \in Procs
      /\ cache \in [Procs -> Objs \cup {NoObj}] /\ objs \in [Objs -> Session]
  BY OpenedGood DEF Inductive, TypeOK, Views, Procs
<1>4. data \in Session /\ data.msgs = <<>> /\ data.cons = 0
  BY <1>3, EmptySeq DEF Cleared, Session
<1>5. cache' = [cache EXCEPT !["gateway"] = NoObj] /\ UNCHANGED <<tasks, stale>>
  BY DEF New, Invalidated
<1>6. Within(data.msgs, data.cons, archived') /\ Within(Blank.msgs, Blank.cons, archived')
  BY <1>4 DEF Within, Blank
<1> SUFFICES ASSUME stale' = 0 PROVE
        /\ Within(file'.data.msgs, file'.data.cons, archived')
        /\ \A o \in Objs : Within(objs'[o].msgs, objs'[o].cons, archived')
        /\ \A t \in Tasks :
              ~(/\ tasks'[t].stage = "archive" /\ tasks'[t].obj = cache'["gateway"]
                /\ seen'["gateway"] # "old")
  BY DEF Covered
<1>7. file'.data = data
  <2>1. Good(v) /\ v \in Views /\ Grown(v.data, data)
    BY <1>2, <1>4, <1>5, OpenedGood DEF Grown, Procs
  <2> HIDE DEF data
  <2>2. Write("gateway", v, data)
    BY <1>1 DEF data
  <2>3. QED  BY <2>1, <2>2, <1>3, <1>4, WriteWorks
<1>8. ASSUME NEW o \in Objs PROVE Within(objs'[o].msgs, objs'[o].cons, archived')
  <2>1. objs'[o] \in {Blank, objs[o], data}
    BY <1>1, <1>3 DEF Keep
  <2>2. Within(objs[o].msgs, objs[o].cons, archived')
    BY <1>1, <1>5, WithinMonotonic DEF Covered
  <2> HIDE DEF data
  <2>3. QED  BY <2>1, <2>2, <1>6
<1>9. ASSUME NEW t \in Tasks, tasks'[t].stage = "archive", tasks'[t].obj = cache'["gateway"]
      PROVE  FALSE
  BY <1>3, <1>5, <1>9, SessionAssumption DEF Inductive, Owned, Free
<1>10. QED  BY <1>6, <1>7, <1>8, <1>9

\* Steps that only forget: objects keep what they hold or are garbage, and
\* the file is untouched or gone.
LEMMA ForgetCovers ==
    ASSUME Inductive, Inductive', Covered, Keep(objs), archived \subseteq archived',
           file' = file \/ file'.data = Blank, stale' = stale,
           \A u \in Tasks : tasks'[u] = tasks[u] \/ tasks'[u] = Free,
           \/ cache'["gateway"] = NoObj
           \/ /\ cache'["gateway"] = cache["gateway"]
              /\ seen["gateway"] = "old" => seen'["gateway"] = "old"
    PROVE  Covered'
<1> SUFFICES ASSUME stale = 0 PROVE
        /\ Within(file'.data.msgs, file'.data.cons, archived')
        /\ \A o \in Objs : Within(objs'[o].msgs, objs'[o].cons, archived')
        /\ \A t \in Tasks :
              (/\ tasks'[t].stage = "archive" /\ tasks'[t].obj = cache'["gateway"]
               /\ seen'["gateway"] # "old") =>
                  Within(objs'[tasks'[t].obj].msgs, tasks'[t].mark, archived' \cup tasks'[t].chunk)
  BY DEF Covered
<1>f. /\ Within(file.data.msgs, file.data.cons, archived)
      /\ \A o \in Objs : Within(objs[o].msgs, objs[o].cons, archived)
      /\ \A t \in Tasks :
            (/\ tasks[t].stage = "archive" /\ tasks[t].obj = cache["gateway"]
             /\ seen["gateway"] # "old") =>
                Within(objs[tasks[t].obj].msgs, tasks[t].mark, archived \cup tasks[t].chunk)
  BY DEF Covered
<1>b. Within(Blank.msgs, Blank.cons, archived')
  BY DEF Within, Blank
<1>1. Within(file'.data.msgs, file'.data.cons, archived')
  BY <1>f, <1>b, WithinMonotonic
<1>2. ASSUME NEW o \in Objs PROVE Within(objs'[o].msgs, objs'[o].cons, archived')
  <2>1. objs'[o] = Blank \/ objs'[o] = objs[o]
    BY DEF Keep
  <2>2. Within(objs[o].msgs, objs[o].cons, archived')
    BY <1>f, WithinMonotonic
  <2>3. QED  BY <2>1, <2>2, <1>b
<1>3. ASSUME NEW t \in Tasks, tasks'[t].stage = "archive",
             tasks'[t].obj = cache'["gateway"], seen'["gateway"] # "old"
      PROVE  Within(objs'[tasks'[t].obj].msgs, tasks'[t].mark, archived' \cup tasks'[t].chunk)
  <2>1. tasks'[t] = tasks[t] /\ tasks[t] # Free
    BY <1>3 DEF Free
  <2>2. tasks[t].obj \in Objs
    BY <2>1 DEF Inductive, Owned
  <2>3. tasks[t].obj = cache["gateway"] /\ seen["gateway"] # "old"
    BY <2>1, <2>2, <1>3, SessionAssumption
  <2>4. Within(objs[tasks[t].obj].msgs, tasks[t].mark, archived' \cup tasks[t].chunk)
    <3>1. archived \cup tasks[t].chunk \subseteq archived' \cup tasks[t].chunk
      OBVIOUS
    <3>2. QED  BY <1>f, <1>3, <2>1, <2>3, <3>1, WithinMonotonic
  <2>5. objs'[tasks[t].obj] = objs[tasks[t].obj]
    <3>1. tasks'[t].obj \in InUse'
      BY DEF InUse
    <3>2. QED  BY <2>1, <2>2, <3>1 DEF Keep
  <2>6. QED  BY <2>1, <2>4, <2>5
<1>4. QED  BY <1>1, <1>2, <1>3

LEMMA WebCovers ==
    ASSUME Inductive, Inductive', Covered, Web
    PROVE  Covered'
<1>t. /\ "webui" \in Procs /\ "gateway" \in Procs /\ stale \in Nat /\ issued \in Nat
      /\ cache \in [Procs -> Objs \cup {NoObj}]
      /\ seen \in [Procs -> {"none", "current", "old"}]
  BY DEF Inductive, TypeOK, Procs
<1>o. ASSUME NEW v \in Opened("webui")
      PROVE  /\ v \in Views /\ v.data \in Session /\ v.data.msgs \in Seq(Message)
             /\ v.data.cons \in Nat
             /\ \A q \in Procs \ {"webui"} : v.obj # cache[q]
             /\ \A u \in Tasks : tasks[u].obj # v.obj
             /\ stale = 0 => Good(v) /\ Within(v.data.msgs, v.data.cons, archived)
  <2>1. /\ v \in Views /\ \A q \in Procs \ {"webui"} : v.obj # cache[q]
    BY OpenedGood, <1>t
  <2>2. /\ \A u \in Tasks : tasks[u].obj # v.obj
        /\ stale = 0 => Good(v) /\ Within(v.data.msgs, v.data.cons, archived)
    BY OpenedAttached, <1>t
  <2>3. QED  BY <2>1, <2>2 DEF Views, Session
<1>p. ASSUME NEW v \in Opened("webui"), NEW data \in Session, NEW xs \in Seq(Message),
             NEW how \in {"save", "open"}, Put("webui", v, data, how),
             data.msgs = v.data.msgs \o xs, data.cons = v.data.cons,
             how = "open" => data = v.data, UNCHANGED <<tasks, archived, stale>>
      PROVE  Covered'
  <2>1. stale = 0 => Within(data.msgs, data.cons, archived)
    BY <1>o, <1>p, WithinGrows
  <2>2. Covers("webui", v, data, how)
    BY <1>o, <1>p, <1>t, <2>1 DEF Covers, Attached
  <2>3. QED  BY <1>o, <1>t, <2>2, CoveredView
<1>1. CASE Look
  <2>1. PICK v \in Opened("webui") : Put("webui", v, v.data, "open")
    BY <1>1 DEF Look
  <2>2. <<>> \in Seq(Message) /\ v.data.msgs = v.data.msgs \o <<>>
    BY <1>o, ConcatEmptySeq
  <2>3. UNCHANGED <<tasks, archived, stale>>
    BY <1>1 DEF Look, history
  <2>4. QED  BY <1>o, <1>p, <2>1, <2>2, <2>3
<1>2. CASE Notify
  <2> DEFINE xs == Fresh1("webui")
  <2>1. PICK v \in Opened("webui") : Put("webui", v, [v.data EXCEPT !.msgs = @ \o xs], "save")
    BY <1>2 DEF Notify
  <2> DEFINE data == [v.data EXCEPT !.msgs = @ \o xs]
  <2>2. xs \in Seq(Message)
    BY <1>t DEF Fresh1, Message
  <2> HIDE DEF xs
  <2>3. data \in Session /\ data.msgs = v.data.msgs \o xs /\ data.cons = v.data.cons
    <3>1. v.data.msgs \o xs \in Seq(Message)
      BY <1>o, <2>2, ConcatProperties
    <3>2. QED  BY <1>o, <3>1 DEF Session
  <2>4. UNCHANGED <<tasks, archived, stale>>
    BY <1>2 DEF Notify
  <2>5. Put("webui", v, data, "save")
    BY <2>1
  <2> HIDE DEF data
  <2>6. QED  BY <1>p, <2>2, <2>3, <2>4, <2>5
<1>3. CASE \E m \in Metas : Patch(m)
  <2>1. PICK m \in Metas : Patch(m)
    BY <1>3
  <2>2. PICK v \in Opened("webui") : Put("webui", v, [v.data EXCEPT !.meta = m], "save")
    BY <2>1 DEF Patch
  <2> DEFINE data == [v.data EXCEPT !.meta = m]
  <2>3. data \in Session /\ data.msgs = v.data.msgs /\ data.cons = v.data.cons
    BY <1>o DEF Session
  <2>4. UNCHANGED <<tasks, archived, stale>>
    BY <2>1 DEF Patch
  <2>5. Put("webui", v, data, "save")
    BY <2>2
  <2> HIDE DEF data
  <2>6. <<>> \in Seq(Message) /\ data.msgs = v.data.msgs \o <<>>
    BY <1>o, <2>3, ConcatEmptySeq
  <2>7. QED  BY <1>p, <2>3, <2>4, <2>5, <2>6
<1>4. CASE Delete \/ Archive
  <2>1. /\ Removed /\ Keep(objs) /\ tasks' = tasks /\ stale' = stale
        /\ archived \subseteq archived'
    BY <1>4 DEF Delete, Archive
  <2>2. /\ cache'["gateway"] = cache["gateway"]
        /\ seen["gateway"] = "old" => seen'["gateway"] = "old"
        /\ file'.data = Blank
    BY <2>1, <1>t DEF Removed, Invalidated
  <2>3. QED  BY <2>1, <2>2, ForgetCovers
<1>5. QED  BY <1>1, <1>2, <1>3, <1>4 DEF Web

LEMMA RestartCovers ==
    ASSUME Inductive, Inductive', Covered, NEW p \in Procs, Restart(p)
    PROVE  Covered'
<1>1. /\ cache \in [Procs -> Objs \cup {NoObj}]
      /\ seen \in [Procs -> {"none", "current", "old"}]
      /\ tasks \in [Tasks -> Task] /\ "gateway" \in Procs
  BY DEF Inductive, TypeOK, Procs
<1>2. /\ cache' = [cache EXCEPT ![p] = NoObj] /\ seen' = [seen EXCEPT ![p] = "none"]
      /\ \A u \in Tasks : tasks'[u] = tasks[u] \/ tasks'[u] = Free
      /\ Keep(objs) /\ UNCHANGED <<file, archived, stale>>
  BY DEF Restart, Invalidated, history
<1>3. \/ cache'["gateway"] = NoObj
      \/ /\ cache'["gateway"] = cache["gateway"]
         /\ seen["gateway"] = "old" => seen'["gateway"] = "old"
  BY <1>1, <1>2
<1>4. QED  BY <1>2, <1>3, ForgetCovers

LEMMA CoveredNext == Inductive /\ Inductive' /\ Covered /\ [Next]_vars => Covered'
<1> SUFFICES ASSUME Inductive, Inductive', Covered, [Next]_vars PROVE Covered'
  OBVIOUS
<1>1. CASE UNCHANGED vars
  BY <1>1 DEF vars, fileVars, history, Covered, Within
<1>2. QED  BY <1>1, TaskCovers, NewCovers, WebCovers, RestartCovers DEF Next

LEMMA SkipsOnlyPrefix ==
    ASSUME NEW s \in Session, NEW ids, Within(s.msgs, s.cons, ids)
    PROVE  Ids(s.msgs) \ Ids(History(s)) \subseteq ids
<1> DEFINE msgs == s.msgs
           q == History(s)
<1>1. msgs \in Seq(Message) /\ s.cons \in Nat /\ Len(msgs) \in Nat /\ s.cons <= Len(msgs)
  BY DEF Session, Within
<1>2. /\ q \in Seq(Message) /\ Len(q) = Len(msgs) - s.cons
      /\ \A i \in 1 .. Len(q) : q[i] = msgs[s.cons + i]
  <2>1. s.cons + 1 \in Int /\ Len(msgs) \in Int
        /\ \A i \in s.cons + 1 .. Len(msgs) : msgs[i] \in Message
    BY <1>1, ElementOfSeq
  <2>2. /\ q \in Seq(Message)
        /\ Len(q) = IF s.cons + 1 <= Len(msgs) THEN Len(msgs) - (s.cons + 1) + 1 ELSE 0
        /\ \A i \in 1 .. Len(msgs) - (s.cons + 1) + 1 : q[i] = msgs[s.cons + 1 + i - 1]
    BY <2>1, SubSeqProperties DEF History
  <2> HIDE DEF q, msgs
  <2>3. Len(q) = Len(msgs) - s.cons /\ Len(msgs) - (s.cons + 1) + 1 = Len(q)
    BY <2>2, <1>1
  <2>4. \A i \in 1 .. Len(q) : s.cons + 1 + i - 1 = s.cons + i
    BY <1>1
  <2>5. QED  BY <2>2, <2>3, <2>4
<1>3. ASSUME NEW i \in DOMAIN msgs, msgs[i].id \notin ids PROVE msgs[i].id \in Ids(q)
  <2>1. i \in 1 .. Len(msgs)
    BY <1>1, LenProperties
  <2>2. i > s.cons
    BY <1>1, <1>3, <2>1 DEF Within
  <2> HIDE DEF q, msgs
  <2>3. i - s.cons \in 1 .. Len(q) /\ s.cons + (i - s.cons) = i
    BY <1>1, <1>2, <2>1, <2>2
  <2>4. i - s.cons \in DOMAIN q /\ q[i - s.cons] = msgs[i]
    BY <1>2, <2>3, LenProperties
  <2>5. QED  BY <2>4 DEF Ids
<1>4. QED  BY <1>3 DEF Ids

\* Session.last_consolidated: as long as nobody saves an object that is behind
\* the file, the messages get_history leaves out are in the long-term memory,
\* however turns, /new, restarts and the WebUI interleave with the archiving.
THEOREM WhatIsSkippedIsArchived == Spec => []SkippedIsArchived
<1>1. Init => Covered
  BY DEF Init, Covered, Within, Blank, Free
<1>2. Inductive /\ Covered => SkippedIsArchived
  BY SkipsOnlyPrefix DEF Inductive, TypeOK, Covered, SkippedIsArchived, ConsolidatedIsArchived
<1>3. QED  BY <1>1, <1>2, InductiveInit, InductiveNext, CoveredNext, PTL DEF Spec

=============================================================================
