---------------------------- MODULE AdaptersProofs ----------------------------
(***************************************************************************)
(* What holds of the chat channels for every set of messages and every     *)
(* bound, on all ten platforms.                                            *)
(*                                                                         *)
(* Once follows each delivery of a message to the check that stops the     *)
(* second one; Honest says of the three platforms that show typing which   *)
(* message waits while they do; Stands and Streams relate what send() has  *)
(* shown to the posts of the chat, and AtCall says what a platform knows   *)
(* at each call send() awaits.  The lemmas on the parts of send() come     *)
(* first; then, platform by platform, those for its calls (its Sends) and  *)
(* for all its steps (its Step).                                           *)
(***************************************************************************)
EXTENDS Adapters, TLAPS

-----------------------------------------------------------------------------
(* The invariant.                                                          *)

Where == {"none", "due", "held", "ready", "kept", "done", "dropped", "lost"}
Post == [of : Nat, chunk : Nat]
Rungs == {"file", "notice", "edit", "editplain", "editanswer", "delete", "html", "plain",
          "text", "reply", "post", "clear", "raise", "token", "url", "upload", "image",
          "asfile", "bridge", "smtp"}
Call == [kind : {"none", "progress", "answer"}, n : Nat, size : Nat, shown : Nat,
         to : SUBSET Messages, rung : Rungs \cup {Idle.rung}, tries : Nat, post : Nat]

InTypes ==
  /\ adapter \in Names
  /\ phase \in {"new", "starting", "up", "left", "stopping", "down"}
  /\ link \in BOOLEAN /\ timer \in BOOLEAN /\ typing \in BOOLEAN /\ route \in BOOLEAN
  /\ at \in [Deliveries -> Where] /\ seen \in SUBSET Messages /\ acts \in Nat

OutTypes ==
  /\ sending \in Call /\ posts \in Seq(Post) /\ tracked \in Nat
  /\ sent \in SUBSET (Nat \X Nat) /\ swallowed \in SUBSET Nat
  /\ answered \in SUBSET Messages /\ handed \in Nat

\* Platforms that keep an id of what they took; those that deliver once.
Cached == {"email", "qq", "wecom", "feishu"}
OneByOne == {"telegram", "discord", "matrix", "dingtalk"}

\* No second delivery comes further than the check that stops it.
Once ==
  /\ adapter \in Cached => \A d \in Deliveries :
       at[d] \in {"held", "ready", "kept", "done"} =>
         d[1] \in seen /\ \A e \in Deliveries :
           e # d /\ e[1] = d[1] => at[e] \notin {"held", "ready", "kept", "done"}
  /\ adapter = "whatsapp" => \A d \in Deliveries :
       at[d] = "done" => d[1] \in seen /\ \A e \in Deliveries : e # d /\ e[1] = d[1] => at[e] # "done"
  /\ adapter \in OneByOne => \A m \in Messages : at[<<m, 2>>] = "none"
  /\ adapter = "slack" =>
       /\ phase = "new" => ~link /\ \A d \in Deliveries : at[d] = "none"
       /\ route => \A m \in Messages : at[<<m, 2>>] \notin {"ready", "done"}

\* Who shows that somebody types knows of a message that waits: one that the
\* answer under way does not answer, where the indicator outlives that answer.
Waits(ms) == \E m \in Messages : at[<<m, 1>>] = "done" /\ m \notin answered \cup ms
Taking == \E d \in Deliveries : at[d] \in Inside

TelegramTypes ==
  /\ typing => Waits(sending.to) \/ Taking
  /\ phase \in {"new", "down"} => ~typing /\ ~link /\ \A d \in Deliveries : at[d] # "held"

DiscordTypes ==
  /\ typing => Waits({})
  /\ phase \in {"new", "stopping", "down"} => ~typing
  /\ phase # "up" => \A d \in Deliveries : at[d] # "held"

MatrixTypes ==
  /\ typing \/ timer => Waits({})
  /\ timer /\ sending.rung \in {"clear", "raise"} => Waits(sending.to)
  /\ phase = "new" => ~typing /\ ~timer /\ ~link /\ \A d \in Deliveries : at[d] \in {"none", "due"}

Served ==
  /\ sending.kind # "answer" => sending.to = {}
  /\ adapter \in OneByOne => \A m \in answered \cup sending.to : at[<<m, 1>>] = "done"

Honest ==
  /\ adapter = "telegram" => TelegramTypes
  /\ adapter = "discord" => DiscordTypes
  /\ adapter = "matrix" => MatrixTypes
  /\ adapter \notin {"telegram", "discord", "matrix"} => ~typing

Standing(ps, n, c) == \E i \in DOMAIN ps : ps[i] = [of |-> n, chunk |-> c]

\* Outbound messages are numbered as they are handed over.
Numbered ==
  /\ sending # Idle => sending.kind # "none" /\ sending.n = handed
  /\ \A s \in sent : s[1] <= handed /\ (sending # Idle => s[1] < handed)
  /\ \A i \in DOMAIN posts : posts[i].of <= handed
  /\ sending.kind = "progress" => sending.size = 1 /\ sending.shown = 0
  /\ sending.kind = "answer" => sending.shown < sending.size \/ sending.size = 0

\* What was sent stands, and of the answer under way what was shown.
AllShown ==
  \/ adapter = "matrix" /\ sending.rung = "clear"
  \/ adapter = "slack" /\ sending.rung = "file"
  \/ adapter = "dingtalk" /\ sending.rung \notin {"token", "text"}

Stands ==
  /\ \A s \in sent : s[1] \notin swallowed => \A c \in 1 .. s[2] : Standing(posts, s[1], c)
  /\ sending.kind = "answer" /\ sending.n \notin swallowed =>
       \A c \in 1 .. IF AllShown THEN sending.size ELSE sending.shown : Standing(posts, sending.n, c)

\* Only progress is edited, and nothing that was sent comes after its post.
Streams ==
  /\ adapter \notin {"telegram", "discord"} => tracked = 0
  /\ tracked # 0 => /\ tracked \in DOMAIN posts /\ posts[tracked].chunk = 0
                    /\ \A i \in tracked + 1 .. Len(posts) : \A s \in sent :
                         posts[i] # [of |-> s[1], chunk |-> s[2]]

\* What the platforms know at the calls of send().
AtCall ==
  /\ adapter = "telegram" =>
       /\ sending.rung \in {"edit", "editplain"} => sending.kind = "progress" /\ tracked # 0
       /\ sending.rung \in {"html", "plain"} => sending.shown < sending.size
       /\ \A i \in DOMAIN posts : sending # Idle /\ posts[i].of = sending.n => posts[i].chunk \in 1 .. sending.shown
       /\ sending.rung \in {"file", "notice"} => sending.kind = "answer" /\ sending.shown = 0
  /\ adapter = "discord" =>
       /\ sending.rung \in {"edit", "delete", "editanswer"} =>
            sending.post \in DOMAIN posts /\ posts[sending.post].chunk = 0
       /\ sending.rung = "edit" => sending.kind = "progress"
       /\ sending.rung = "file" => sending.kind = "answer" /\ sending.shown = 0
       /\ sending.kind = "answer" /\ sending.rung # "file" => tracked = 0
       /\ sending.rung = "delete" => sending.kind = "answer" /\ sending.size = 0
       /\ sending.rung = "editanswer" => sending.kind = "answer" /\ sending.shown = 0 /\ sending.size # 0
       /\ sending.rung = "post" => sending.shown < sending.size
  /\ adapter = "matrix" =>
       /\ sending.kind = "answer" => sending.shown = 0 /\ sending.size <= 1
       /\ sending.rung = "text" => sending.size = 1
       /\ sending.rung \in {"clear", "raise"} => sending.kind = "answer"
       /\ sending.rung = "file" => sending.kind = "answer"
  /\ adapter = "feishu" =>
       /\ sending.rung \in {"reply", "post"} => sending.shown < sending.size
       /\ sending.rung = "file" => sending.kind = "answer" /\ sending.shown = 0
  /\ adapter \in {"slack", "dingtalk"} =>
       /\ sending.kind = "answer" => sending.shown = 0 /\ sending.size <= 1
       /\ sending.rung = "text" => sending.size = 1
       /\ sending.rung = "file" => sending.kind = "answer"
  /\ adapter \in {"wecom", "qq", "whatsapp", "email"} /\ sending # Idle =>
       sending.shown = 0 /\ sending.size = 1

Inbound == InTypes /\ Once /\ Served /\ Honest
Outbound == OutTypes /\ Numbered /\ Stands /\ Streams /\ AtCall

-----------------------------------------------------------------------------
(* What rests.                                                             *)

\* What is done stays done: whoever waits for an answer goes on waiting.
LEMMA DoneStays ==
  ASSUME Served, InTypes, OutTypes, UNCHANGED <<adapter, sending, answered>>,
         \A d \in Deliveries : at[d] = "done" => at'[d] = "done"
  PROVE  /\ Served'
         /\ \A ms \in SUBSET Messages : Waits(ms) => Waits(ms)'
<1>1. \A m \in Messages : <<m, 1>> \in Deliveries
  BY DEF Deliveries
<1>2. answered \in SUBSET Messages /\ sending.to \in SUBSET Messages
  BY DEF OutTypes, Call
<1>3. Served'
  BY <1>1, <1>2 DEF Served
<1>4. \A ms \in SUBSET Messages : Waits(ms) => Waits(ms)'
  BY <1>1 DEF Waits
<1> QED BY <1>3, <1>4

-----------------------------------------------------------------------------
(* The steps of send(), for all platforms.                                 *)

\* No call is under way when the channel is idle.
LEMMA IdleCall ==
  /\ Idle \in Call /\ Idle.kind = "none" /\ Idle.rung \notin Rungs
  /\ Idle.n = 0 /\ Idle.size = 0 /\ Idle.shown = 0 /\ Idle.to = {} /\ Idle.post = 0
<1>1. Idle.kind = "none"
  BY DEF Idle
<1>2. Idle.rung \notin Rungs
  BY Zenon DEF Idle, Rungs
<1>3. Idle.n = 0 /\ Idle.size = 0 /\ Idle.shown = 0 /\ Idle.post = 0
  BY DEF Idle
<1>4. Idle.to = {}
  BY DEF Idle
<1>5. Idle \in Call
  BY Zenon DEF Idle, Call
<1> QED BY <1>1, <1>2, <1>3, <1>4, <1>5

\* A step that touches nothing of what goes out.
LEMMA OutboundRests ==
  ASSUME Outbound, UNCHANGED <<adapter, outbound>>
  PROVE  Outbound'
<1> USE DEF outbound, Outbound
<1>1. OutTypes'
  BY DEF OutTypes
<1>2. Numbered'
  BY DEF Numbered
<1>3. Stands'
  BY ZenonT(60) DEF Stands, AllShown, Standing
<1>4. Streams'
  BY DEF Streams
<1>5. AtCall'
  BY DEF AtCall
<1> QED BY <1>1, <1>2, <1>3, <1>4, <1>5

\* The posts are a sequence of pieces.
LEMMA PostsTyped ==
  ASSUME OutTypes
  PROVE  /\ DOMAIN posts = 1 .. Len(posts) /\ Len(posts) \in Nat
         /\ \A i \in DOMAIN posts : posts[i] \in Post /\ posts[i].of \in Nat /\ posts[i].chunk \in Nat
<1>1. posts \in Seq(Post)
  BY DEF OutTypes
<1>2. \A i \in DOMAIN posts : posts[i] \in Post
  BY <1>1
<1>3. \A p \in Post : p.of \in Nat /\ p.chunk \in Nat
  BY DEF Post
<1> QED BY <1>1, <1>2, <1>3

\* What a step of the send() under way does to the posts: nothing, one more,
\* or one of progress is edited.
PostsGrow ==
  \/ posts' = posts
  \/ \E c \in Nat : posts' = Append(posts, [of |-> sending.n, chunk |-> c])
  \/ \E i \in DOMAIN posts, c \in Nat :
       posts[i].chunk = 0 /\ posts' = [posts EXCEPT ![i] = [of |-> sending.n, chunk |-> c]]

\* A piece of an answer that stands goes on standing.
LEMMA StandsStill ==
  ASSUME OutTypes, PostsGrow
  PROVE  /\ posts' \in Seq(Post)
         /\ \A n \in Nat, c \in Nat \ {0} : Standing(posts, n, c) => Standing(posts', n, c)
         /\ \A i \in DOMAIN posts' : posts'[i].of = sending.n \/ (i \in DOMAIN posts /\ posts'[i] = posts[i])
         /\ DOMAIN posts \subseteq DOMAIN posts' /\ Len(posts) <= Len(posts')
         /\ DOMAIN posts = 1 .. Len(posts) /\ DOMAIN posts' = 1 .. Len(posts')
<1> sending \in Call /\ posts \in Seq(Post)
  BY DEF OutTypes
<1>1. CASE posts' = posts
  BY <1>1 DEF Standing
<1>2. ASSUME NEW c \in Nat, posts' = Append(posts, [of |-> sending.n, chunk |-> c])
      PROVE  /\ posts' \in Seq(Post) /\ Len(posts') = Len(posts) + 1
             /\ posts'[Len(posts')] = [of |-> sending.n, chunk |-> c]
             /\ \A i \in DOMAIN posts : i \in DOMAIN posts' /\ posts'[i] = posts[i]
             /\ DOMAIN posts' = 1 .. Len(posts') /\ DOMAIN posts = 1 .. Len(posts)
  BY <1>2 DEF Post, Call
<1>3. ASSUME NEW j \in DOMAIN posts, NEW c \in Nat, posts[j].chunk = 0,
             posts' = [posts EXCEPT ![j] = [of |-> sending.n, chunk |-> c]]
      PROVE  /\ posts' \in Seq(Post) /\ Len(posts') = Len(posts)
             /\ posts'[j].of = sending.n
             /\ \A i \in DOMAIN posts : i # j => posts'[i] = posts[i]
             /\ DOMAIN posts' = DOMAIN posts /\ DOMAIN posts = 1 .. Len(posts)
  BY <1>3 DEF Post, Call
<1>4. ASSUME NEW c \in Nat, posts' = Append(posts, [of |-> sending.n, chunk |-> c])
      PROVE  \A n \in Nat, k \in Nat \ {0} : Standing(posts, n, k) => Standing(posts', n, k)
  BY <1>2, <1>4 DEF Standing
<1>5. ASSUME NEW j \in DOMAIN posts, NEW c \in Nat, posts[j].chunk = 0,
             posts' = [posts EXCEPT ![j] = [of |-> sending.n, chunk |-> c]]
      PROVE  \A n \in Nat, k \in Nat \ {0} : Standing(posts, n, k) => Standing(posts', n, k)
  <2> SUFFICES ASSUME NEW n \in Nat, NEW k \in Nat \ {0}, NEW i \in DOMAIN posts, posts[i] = [of |-> n, chunk |-> k]
               PROVE  Standing(posts', n, k)
    BY Zenon DEF Standing
  <2>1. i # j
    BY <1>5
  <2>2. i \in DOMAIN posts' /\ posts'[i] = posts[i]
    BY <1>3, <1>5, <2>1
  <2> QED BY <2>2 DEF Standing
<1>6. CASE \E c \in Nat : posts' = Append(posts, [of |-> sending.n, chunk |-> c])
  <2>1. PICK c \in Nat : posts' = Append(posts, [of |-> sending.n, chunk |-> c])
    BY <1>6
  <2> QED BY <1>2, <1>4, <2>1, SMTT(30)
<1>7. CASE \E i \in DOMAIN posts, c \in Nat :
             posts[i].chunk = 0 /\ posts' = [posts EXCEPT ![i] = [of |-> sending.n, chunk |-> c]]
  <2>1. PICK j \in DOMAIN posts, c \in Nat :
             posts[j].chunk = 0 /\ posts' = [posts EXCEPT ![j] = [of |-> sending.n, chunk |-> c]]
    BY <1>7
  <2>2. /\ posts' \in Seq(Post) /\ Len(posts') = Len(posts)
        /\ posts'[j].of = sending.n
        /\ \A i \in DOMAIN posts : i # j => posts'[i] = posts[i]
        /\ DOMAIN posts' = DOMAIN posts /\ DOMAIN posts = 1 .. Len(posts)
    BY <1>3, <2>1, Zenon
  <2>3. \A n \in Nat, k \in Nat \ {0} : Standing(posts, n, k) => Standing(posts', n, k)
    BY <1>5, <2>1, Zenon
  <2> QED BY <2>2, <2>3
<1> QED BY <1>1, <1>6, <1>7 DEF PostsGrow

\* Nothing that was sent comes after the streamed post when progress is edited.
LEMMA EditedStreams ==
  ASSUME OutTypes, Numbered, Streams, sending # Idle, tracked' = tracked, sent' = sent,
         UNCHANGED adapter, NEW j \in DOMAIN posts,
         posts' = [posts EXCEPT ![j] = [of |-> sending.n, chunk |-> 0]]
  PROVE  Streams'
<1>1. /\ handed \in Nat /\ posts \in Seq(Post) /\ sent \in SUBSET (Nat \X Nat)
      /\ tracked \in Nat /\ sending.n = handed
  BY DEF OutTypes, Numbered
<1> DEFINE p == [of |-> sending.n, chunk |-> 0]
<1>2. p \in Post /\ p.of = handed /\ p.chunk = 0
  BY <1>1 DEF Post
<1>3. \A s \in sent : [of |-> s[1], chunk |-> s[2]] # p
  <2>1. \A s \in sent : s[1] < handed /\ [of |-> s[1], chunk |-> s[2]].of = s[1]
    BY DEF Numbered
  <2>2. \A s \in sent : s[1] \in Nat
    BY <1>1
  <2> QED BY <1>1, <1>2, <2>1, <2>2
<1> HIDE DEF p
<1>4. /\ Len(posts') = Len(posts) /\ DOMAIN posts' = DOMAIN posts /\ DOMAIN posts = 1 .. Len(posts)
      /\ posts'[j] = p /\ \A i \in DOMAIN posts : i # j => posts'[i] = posts[i]
  BY <1>1, <1>2 DEF p
<1>5. ASSUME tracked # 0 PROVE tracked \in DOMAIN posts' /\ posts'[tracked].chunk = 0
  <2>1. tracked \in DOMAIN posts /\ posts[tracked].chunk = 0
    BY <1>5 DEF Streams
  <2> QED BY <1>2, <1>4, <2>1
<1>6. ASSUME tracked # 0, NEW i \in tracked + 1 .. Len(posts'), NEW s \in sent
      PROVE  posts'[i] # [of |-> s[1], chunk |-> s[2]]
  <2>1. i \in tracked + 1 .. Len(posts)
    BY <1>4
  <2>2. i \in DOMAIN posts
    BY <1>1, <1>4, <2>1
  <2>3. posts[i] # [of |-> s[1], chunk |-> s[2]]
    BY <1>6, <2>1 DEF Streams
  <2> QED BY <1>3, <1>4, <2>2, <2>3
<1> QED BY <1>5, <1>6 DEF Streams

\* An outbound message is handed over and there is nothing to send.
LEMMA NothingSent ==
  ASSUME Outbound, sending = Idle, handed' = handed + 1, answered' \in SUBSET Messages,
         UNCHANGED <<adapter, sending, posts, tracked, sent, swallowed>>
  PROVE  Outbound'
<1>1. OutTypes' /\ handed \in Nat
  BY DEF Outbound, OutTypes
<1>2. sending.kind = "none" /\ sending.rung \notin Rungs
  BY IdleCall
<1>3. Numbered'
  <2>1. /\ handed \in Nat /\ posts \in Seq(Post) /\ sent \in SUBSET (Nat \X Nat)
    BY DEF Outbound, OutTypes
  <2>2. \A i \in DOMAIN posts : posts[i].of <= handed + 1
    <3>1. \A i \in DOMAIN posts : posts[i].of <= handed /\ posts[i].of \in Nat
      BY PostsTyped DEF Outbound, Numbered
    <3> QED BY <2>1, <3>1
  <2>3. \A s \in sent : s[1] <= handed + 1
    BY <2>1 DEF Outbound, Numbered
  <2> QED BY <1>2, <2>2, <2>3 DEF Numbered
<1>4. Stands'
  BY <1>2 DEF Outbound, Stands
<1>6. Streams'
  BY DEF Outbound, Streams
<1>5. AtCall'
  BY <1>2 DEF Outbound, AtCall, Rungs
<1> QED BY <1>1, <1>3, <1>4, <1>5, <1>6 DEF Outbound

\* send() begins.
LEMMA SendBegins ==
  ASSUME Outbound, sending = Idle, handed' = handed + 1,
         sending' \in Call, sending'.kind \in {"progress", "answer"}, sending'.n = handed + 1,
         sending'.shown = 0, sending'.kind = "progress" => sending'.size = 1,
         AllShown' => sending'.size = 0, tracked' = tracked \/ tracked' = 0,
         UNCHANGED <<adapter, posts, sent, swallowed, answered>>
  PROVE  OutTypes' /\ Numbered' /\ Stands' /\ Streams'
<1>1. handed \in Nat /\ posts \in Seq(Post) /\ sent \in SUBSET (Nat \X Nat)
  BY DEF Outbound, OutTypes
<1>2. OutTypes'
  BY DEF Outbound, OutTypes
<1>3. Numbered'
  <2>1. \A i \in DOMAIN posts : posts[i].of <= handed + 1
    <3>1. \A i \in DOMAIN posts : posts[i].of <= handed /\ posts[i].of \in Nat
      BY PostsTyped DEF Outbound, Numbered
    <3> QED BY <1>1, <3>1
  <2>2. \A s \in sent : s[1] <= handed + 1 /\ s[1] < handed + 1
    BY <1>1 DEF Outbound, Numbered
  <2>3. sending'.kind = "answer" => sending'.shown < sending'.size \/ sending'.size = 0
    BY DEF Call
  <2>4. sending'.kind # "none" /\ sending'.n = handed'
    OBVIOUS
  <2> QED BY <2>1, <2>2, <2>3, <2>4 DEF Numbered
<1>4. Stands'
  <2>1. posts' = posts
    OBVIOUS
  <2>3. \A s \in sent' : s[1] \notin swallowed' => \A c \in 1 .. s[2] : Standing(posts', s[1], c)
    BY <2>1, Zenon DEF Outbound, Stands
  <2>2. 1 .. (IF AllShown' THEN sending'.size ELSE sending'.shown) = {}
    BY SMT
  <2> QED BY <2>2, <2>3 DEF Stands
<1>5. Streams'
  BY <1>1 DEF Outbound, Streams
<1> QED BY <1>2, <1>3, <1>4, <1>5

\* send() goes on: one piece more is shown, or a call failed, or worked.
LEMMA SendGoesOn ==
  ASSUME Outbound, sending # Idle, PostsGrow, handed' = handed,
         sending' \in Call, sending'.kind = sending.kind, sending'.n = sending.n,
         sending'.kind = "progress" => sending'.size = 1 /\ sending'.shown = 0,
         sending'.kind = "answer" => sending'.shown < sending'.size \/ sending'.size = 0,
         swallowed \subseteq swallowed', swallowed' \in SUBSET Nat,
         sending'.kind = "answer" /\ sending'.n \notin swallowed' =>
            \A c \in 1 .. IF AllShown' THEN sending'.size ELSE sending'.shown : Standing(posts', sending'.n, c),
         tracked' = 0 \/ (tracked' = tracked /\ (posts' # posts => \A i \in DOMAIN posts : posts'[i] = posts[i])),
         UNCHANGED <<adapter, sent, answered>>
  PROVE  OutTypes' /\ Numbered' /\ Stands' /\ Streams'
<1> USE DEF Outbound
<1>1. /\ handed \in Nat /\ posts \in Seq(Post) /\ sent \in SUBSET (Nat \X Nat) /\ sending \in Call
      /\ tracked \in Nat
  BY DEF OutTypes
<1>2. OutTypes'
  BY StandsStill DEF OutTypes
<1>3. Numbered'
  <2>1. sending.n = handed /\ sending.kind # "none" /\ sending' # Idle
    BY IdleCall DEF Numbered
  <2>2. \A i \in DOMAIN posts' : posts'[i].of <= handed
    BY <1>1, <2>1, StandsStill DEF Numbered
  <2>3. \A s \in sent : s[1] <= handed /\ s[1] < handed
    BY DEF Numbered
  <2> QED BY <2>1, <2>2, <2>3 DEF Numbered
<1>4. Stands'
  <2>1. ASSUME NEW s \in sent, s[1] \notin swallowed', NEW c \in 1 .. s[2]
        PROVE  Standing(posts', s[1], c)
    <3>1. s[1] \in Nat /\ c \in Nat \ {0} /\ Standing(posts, s[1], c)
      BY <1>1, <2>1 DEF Stands
    <3> QED BY <3>1, StandsStill
  <2>2. \A s \in sent' : s[1] \notin swallowed' => \A c \in 1 .. s[2] : Standing(posts', s[1], c)
    BY <2>1
  <2> QED BY <2>2 DEF Stands
<1>5. Streams'
  <2>1. CASE tracked' = 0
    BY <2>1 DEF Streams
  <2>2. CASE tracked' = tracked /\ tracked # 0 /\ (posts' # posts => \A i \in DOMAIN posts : posts'[i] = posts[i])
    <3>1. tracked \in DOMAIN posts' /\ posts'[tracked].chunk = 0
      BY <2>2, StandsStill DEF Streams
    <3>2. ASSUME NEW i \in tracked + 1 .. Len(posts'), NEW s \in sent
          PROVE  posts'[i] # [of |-> s[1], chunk |-> s[2]]
      <4>1. CASE posts'[i].of = sending.n
        BY <4>1, <1>1 DEF Numbered
      <4>2. CASE i \in DOMAIN posts /\ posts'[i] = posts[i]
        <5>1. i \in tracked + 1 .. Len(posts)
          BY <1>1, <4>2
        <5> QED BY <2>2, <4>2, <5>1, Zenon DEF Streams
      <4>3. i \in DOMAIN posts'
        BY <1>1, StandsStill
      <4> QED BY <4>1, <4>2, <4>3, StandsStill
    <3> QED BY <2>2, <3>1, <3>2 DEF Streams
  <2> QED BY <2>1, <2>2
<1> QED BY <1>2, <1>3, <1>4, <1>5

\* send() is over: what it reports as sent stands.
LEMMA SendEnds ==
  ASSUME Outbound, sending # Idle, PostsGrow, handed' = handed, sending' = Idle,
         swallowed \subseteq swallowed', swallowed' \in SUBSET Nat, answered' \in SUBSET Messages,
         \/ sent' = sent
         \/ /\ sent' = sent \cup {<<sending.n, sending.size>>}
            /\ sending.n \notin swallowed' => \A c \in 1 .. sending.size : Standing(posts', sending.n, c),
         \/ tracked' = 0
         \/ tracked' = tracked /\ posts' = posts /\ sent' = sent
         \/ tracked' = tracked /\ posts' = posts /\ \A i \in DOMAIN posts : posts[i] # [of |-> sending.n, chunk |-> sending.size]
         \/ tracked' = tracked /\ sent' = sent /\ \E i \in {tracked, sending.post} :
              i \in DOMAIN posts /\ posts' = [posts EXCEPT ![i] = [of |-> sending.n, chunk |-> 0]]
         \/ /\ adapter \in {"telegram", "discord"} /\ tracked' = Len(posts') /\ sent' = sent
            /\ posts' = Append(posts, [of |-> sending.n, chunk |-> 0]),
         UNCHANGED adapter
  PROVE  Outbound'
<1> USE DEF Outbound
<1>1. /\ handed \in Nat /\ posts \in Seq(Post) /\ sent \in SUBSET (Nat \X Nat) /\ sending \in Call
      /\ tracked \in Nat /\ sending.n = handed
  BY DEF OutTypes, Numbered
<1>0. Idle \in Call /\ Idle.kind = "none" /\ Idle.rung \notin Rungs
  BY IdleCall
<1>2. OutTypes'
  <2>1. sent' \in SUBSET (Nat \X Nat)
    BY <1>1 DEF Call
  <2>3. posts' \in Seq(Post)
    BY StandsStill
  <2>2. tracked' \in Nat
    BY <1>1, <2>3
  <2> QED BY <1>0, <2>1, <2>2, <2>3 DEF OutTypes
<1>3. Numbered'
  <2>0. \A i \in DOMAIN posts : posts[i].of <= handed
    BY DEF Numbered
  <2>1. \A i \in DOMAIN posts' : posts'[i].of <= handed
    <3>1. \A i \in DOMAIN posts' : posts'[i].of = sending.n \/ (i \in DOMAIN posts /\ posts'[i] = posts[i])
      BY StandsStill
    <3> QED BY <1>1, <2>0, <3>1
  <2>2. \A s \in sent' : s[1] <= handed
    BY <1>1 DEF Numbered
  <2> QED BY <1>0, <2>1, <2>2 DEF Numbered
<1>4. Stands'
  <2>1. ASSUME NEW s \in sent, s[1] \notin swallowed', NEW c \in 1 .. s[2]
        PROVE  Standing(posts', s[1], c)
    <3>1. s[1] \in Nat /\ c \in Nat \ {0} /\ Standing(posts, s[1], c)
      BY <1>1, <2>1 DEF Stands
    <3> QED BY <3>1, StandsStill
  <2>2. ASSUME NEW s \in sent', s \notin sent, s[1] \notin swallowed', NEW c \in 1 .. s[2]
        PROVE  Standing(posts', s[1], c)
    <3>1. s[1] = sending.n /\ s[2] = sending.size
      BY <2>2
    <3>2. \A k \in 1 .. sending.size : Standing(posts', sending.n, k)
      BY <2>2, <3>1
    <3>3. Standing(posts', sending.n, c)
      BY <2>2, <3>1, <3>2
    <3> QED BY <3>1, <3>3, Zenon
  <2> QED BY <1>0, <2>1, <2>2 DEF Stands
<1>5. Streams'
  <2>1. CASE tracked' = 0
    BY <2>1 DEF Streams
  <2>2. CASE tracked' = tracked /\ posts' = posts /\ sent' = sent
    BY <2>2 DEF Streams
  <2>3. CASE /\ tracked' = tracked /\ posts' = posts
             /\ \A i \in DOMAIN posts : posts[i] # [of |-> sending.n, chunk |-> sending.size]
    <3>1. ASSUME NEW i \in tracked + 1 .. Len(posts), NEW s \in sent', tracked # 0
          PROVE  posts[i] # [of |-> s[1], chunk |-> s[2]]
      <4>1. CASE s \in sent
        BY <3>1, <4>1 DEF Streams
      <4>2. CASE s = <<sending.n, sending.size>>
        BY <1>1, <2>3, <4>2
      <4> QED BY <4>1, <4>2
    <3> QED BY <2>3, <3>1 DEF Streams
  <2>4. CASE tracked' = tracked /\ sent' = sent /\ \E i \in {tracked, sending.post} :
              i \in DOMAIN posts /\ posts' = [posts EXCEPT ![i] = [of |-> sending.n, chunk |-> 0]]
    BY <1>1, <2>4, EditedStreams DEF Outbound
  <2>5. CASE /\ adapter \in {"telegram", "discord"} /\ tracked' = Len(posts') /\ sent' = sent
             /\ posts' = Append(posts, [of |-> sending.n, chunk |-> 0])
    <3>1. /\ Len(posts') = Len(posts) + 1 /\ Len(posts') \in DOMAIN posts'
          /\ posts'[Len(posts')] = [of |-> sending.n, chunk |-> 0]
      BY <1>1, <2>5
    <3>2. tracked' + 1 .. Len(posts') = {}
      BY <1>1, <2>5, <3>1
    <3> QED BY <2>5, <3>1, <3>2 DEF Streams
  <2> QED BY <2>1, <2>2, <2>3, <2>4, <2>5
<1>6. AtCall'
  BY <1>0 DEF AtCall, Rungs
<1> QED BY <1>2, <1>3, <1>4, <1>5, <1>6

-----------------------------------------------------------------------------
(* What is handed over.                                                    *)

\* An order is progress, or an answer to nobody or to all that wait.
LEMMA OrdersAre ==
  ASSUME NEW sizes \in SUBSET Nat, NEW files, NEW o \in Orders(sizes, files)
  PROVE  /\ \/ o.kind = "progress" /\ o.size = 1 /\ o.to = {} /\ o.file = FALSE
            \/ /\ o.kind = "answer" /\ o.size \in sizes /\ o.to \in {{}, Open}
               /\ o.file \in files /\ (o.size = 0 => o.file)
         /\ o.size \in Nat /\ o.to \in SUBSET Messages /\ o.kind \in {"progress", "answer"}
<1>1. Open \in SUBSET Messages
  BY DEF Open
<1>2. CASE o = [kind |-> "progress", size |-> 1, to |-> {}, file |-> FALSE]
  <2>1. o.kind = "progress" /\ o.size = 1
    BY <1>2
  <2>2. o.to = {}
    BY <1>2
  <2>3. o.file = FALSE
    BY <1>2, Zenon
  <2> QED BY <2>1, <2>2, <2>3
<1>3. CASE o \in [kind : {"answer"}, size : sizes, to : {{}, Open}, file : files] /\ (o.size = 0 => o.file)
  BY <1>1, <1>3
<1> QED BY <1>2, <1>3 DEF Orders

\* What waits has been published.
LEMMA OpenIsDone ==
  ASSUME Inbound, adapter \in OneByOne
  PROVE  \A m \in Open : at[<<m, 1>>] = "done"
BY DEF Inbound, Open, Once

\* What send() begins with.
LEMMA Begun ==
  ASSUME OutTypes, NEW o, NEW rung \in Rungs, Begins(o, rung),
         o.kind \in {"progress", "answer"}, o.size \in Nat, o.to \in SUBSET Messages
  PROVE  /\ sending' \in Call /\ sending'.kind = o.kind /\ sending'.n = handed + 1
         /\ sending'.size = o.size /\ sending'.to = o.to /\ sending'.rung = rung
         /\ sending'.post = tracked /\ sending'.shown = 0 /\ sending'.tries = 0
<1>2. handed \in Nat /\ tracked \in Nat
  BY DEF OutTypes
<1>0. handed + 1 \in Nat
  BY <1>2
<1>1. sending' = [kind |-> o.kind, n |-> handed + 1, size |-> o.size, shown |-> 0, to |-> o.to,
                  rung |-> rung, tries |-> 0, post |-> tracked]
  BY DEF Begins, Idle
<1>3. sending' \in Call
  <2>1. ASSUME NEW k \in {"none", "progress", "answer"}, NEW n \in Nat, NEW size \in Nat,
               NEW to \in SUBSET Messages, NEW r \in Rungs, NEW p \in Nat
        PROVE  [kind |-> k, n |-> n, size |-> size, shown |-> 0, to |-> to, rung |-> r,
                tries |-> 0, post |-> p] \in Call
    BY <2>1 DEF Call
  <2>4. rung \in Rungs
    BY Zenon
  <2>3. o.kind \in {"none", "progress", "answer"}
    OBVIOUS
  <2> QED BY <1>1, <1>2, <1>0, <2>1, <2>3, <2>4, Zenon
<1>4. sending'.kind = o.kind /\ sending'.size = o.size /\ sending'.n = handed + 1 /\ sending'.post = tracked
  BY <1>1
<1>5. sending'.to = o.to
  BY <1>1
<1>6. sending'.rung = rung
  BY <1>1
<1>7. sending'.shown = 0 /\ sending'.tries = 0
  BY <1>1
<1> QED BY <1>3, <1>4, <1>5, <1>6, <1>7

\* The calls of send() leave what comes in alone.
LEMMA InboundAside ==
  ASSUME InTypes, Once, UNCHANGED <<adapter, phase, link, at, seen>>,
         adapter = "slack" => route' = route,
         timer' \in BOOLEAN, typing' \in BOOLEAN, route' \in BOOLEAN, acts' \in Nat
  PROVE  InTypes' /\ Once'
<1>1. InTypes'
  BY DEF InTypes
<1>2. Once'
  BY DEF Once
<1> QED BY <1>1, <1>2

\* A message is taken to be answered when its answer begins ...
LEMMA ServedAtSend ==
  ASSUME Inbound, OutTypes, UNCHANGED <<adapter, at, answered>>,
         sending'.to \in {{}, Open}, sending'.kind # "answer" => sending'.to = {}
  PROVE  Served'
BY OpenIsDone DEF Inbound, Served

\* ... and goes on being so, until the answer is given or given up.
LEMMA ServedOn ==
  ASSUME Inbound, OutTypes, UNCHANGED <<adapter, at>>,
         \/ sending'.kind = sending.kind /\ sending'.to = sending.to /\ answered' = answered
         \/ sending' = Idle /\ answered' = answered \cup sending.to
  PROVE  Served'
BY IdleCall DEF Inbound, Served

-----------------------------------------------------------------------------
(* The parts of a step of send().                                          *)

\* Another call is awaited for the same message.
LEMMA GoneOn ==
  ASSUME OutTypes, NEW rung \in Rungs, GoesOn(rung)
  PROVE  /\ sending' \in Call /\ sending'.kind = sending.kind /\ sending'.n = sending.n
         /\ sending'.size = sending.size /\ sending'.to = sending.to /\ sending'.rung = rung
         /\ sending'.post = sending.post /\ sending'.shown = sending.shown
<1> sending \in Call
  BY DEF OutTypes
<1>1. sending' = [sending EXCEPT !.rung = rung, !.tries = 0]
  BY DEF GoesOn
<1>2. sending' \in Call
  BY <1>1 DEF Call
<1>3. sending'.kind = sending.kind /\ sending'.n = sending.n /\ sending'.size = sending.size
  BY <1>1 DEF Call
<1>4. sending'.to = sending.to /\ sending'.rung = rung
  BY <1>1 DEF Call
<1>5. sending'.post = sending.post /\ sending'.shown = sending.shown
  BY <1>1 DEF Call
<1> QED BY <1>2, <1>3, <1>4, <1>5

\* The same call is made once more.
LEMMA Tried ==
  ASSUME OutTypes, Tries
  PROVE  /\ sending' \in Call /\ sending'.kind = sending.kind /\ sending'.n = sending.n
         /\ sending'.size = sending.size /\ sending'.to = sending.to /\ sending'.rung = sending.rung
         /\ sending'.post = sending.post /\ sending'.shown = sending.shown
<1> sending \in Call
  BY DEF OutTypes
<1>1. sending' = [sending EXCEPT !.tries = @ + 1]
  BY DEF Tries
<1>2. sending' \in Call
  BY <1>1 DEF Call
<1>3. sending'.kind = sending.kind /\ sending'.n = sending.n /\ sending'.size = sending.size
  BY <1>1 DEF Call
<1>4. sending'.to = sending.to /\ sending'.rung = sending.rung
  BY <1>1 DEF Call
<1>5. sending'.post = sending.post /\ sending'.shown = sending.shown
  BY <1>1 DEF Call
<1> QED BY <1>2, <1>3, <1>4, <1>5

\* The next piece starts, or the last one was shown.
LEMMA PieceShown ==
  ASSUME OutTypes, NEW rung \in Rungs, NextPiece(rung), sending.shown < sending.size
  PROVE  \/ Returns /\ sending.shown + 1 = sending.size
         \/ /\ sending' \in Call /\ sending'.kind = sending.kind /\ sending'.n = sending.n
            /\ sending'.size = sending.size /\ sending'.to = sending.to /\ sending'.rung = rung
            /\ sending'.post = sending.post /\ sending'.shown = sending.shown + 1
            /\ sending'.shown < sending'.size /\ sending.shown + 1 # sending.size
            /\ sent' = sent /\ answered' = answered
<1> sending \in Call
  BY DEF OutTypes
<1>1. CASE Last
  BY <1>1 DEF NextPiece, Last
<1>2. CASE ~Last
  <2>1. sending' = [sending EXCEPT !.shown = @ + 1, !.rung = rung, !.tries = 0] /\ sent' = sent /\ answered' = answered
    BY <1>2 DEF NextPiece
  <2>2. sending' \in Call
    <3>1. sending.shown + 1 \in Nat
      BY DEF Call
    <3> QED BY <2>1, <3>1 DEF Call
  <2>3. sending'.kind = sending.kind /\ sending'.n = sending.n /\ sending'.size = sending.size
    BY <2>1 DEF Call
  <2>4. sending'.to = sending.to /\ sending'.rung = rung
    BY <2>1 DEF Call
  <2>5. sending'.post = sending.post /\ sending'.shown = sending.shown + 1
    <3>1. sending'.post = sending.post
      BY <2>1 DEF Call
    <3>2. sending'.shown = sending.shown + 1
      BY <2>1 DEF Call
    <3> QED BY <3>1, <3>2
  <2>6. sending.shown + 1 # sending.size /\ sending.shown \in Nat /\ sending.size \in Nat
    BY <1>2 DEF Last, Call
  <2> QED BY <2>1, <2>2, <2>3, <2>4, <2>5, <2>6
<1> QED BY <1>1, <1>2

\* A piece that is posted stands.
LEMMA Posted ==
  ASSUME OutTypes, NEW c \in Nat, Posts(c)
  PROVE  /\ PostsGrow /\ posts' = Append(posts, [of |-> sending.n, chunk |-> c])
         /\ Standing(posts', sending.n, c)
         /\ \A i \in DOMAIN posts : posts'[i] = posts[i]
         /\ \A i \in DOMAIN posts' : i \in DOMAIN posts \/ posts'[i] = [of |-> sending.n, chunk |-> c]
<1> DEFINE p == [of |-> sending.n, chunk |-> c]
<1>1. p \in Post /\ posts \in Seq(Post)
  BY DEF OutTypes, Call, Post
<1>2. posts' = Append(posts, p)
  BY DEF Posts, Piece
<1>3. PostsGrow
  BY <1>2 DEF PostsGrow
<1> HIDE DEF p
<1>4. /\ Len(posts') \in DOMAIN posts' /\ posts'[Len(posts')] = p
      /\ \A i \in DOMAIN posts : posts'[i] = posts[i]
      /\ \A i \in DOMAIN posts' : i \in DOMAIN posts \/ posts'[i] = p
  BY <1>1, <1>2
<1>5. Standing(posts', sending.n, c)
  BY <1>4 DEF Standing, p
<1> QED BY <1>2, <1>3, <1>4, <1>5 DEF p

\* One that is edited, if it was progress.
LEMMA Edited ==
  ASSUME OutTypes, NEW c \in Nat, NEW i \in DOMAIN posts, posts[i].chunk = 0, Edits(i, c)
  PROVE  /\ PostsGrow /\ posts' = [posts EXCEPT ![i] = [of |-> sending.n, chunk |-> c]]
         /\ Standing(posts', sending.n, c)
<1> DEFINE p == [of |-> sending.n, chunk |-> c]
<1>1. p \in Post /\ posts \in Seq(Post)
  BY DEF OutTypes, Call, Post
<1>2. posts' = [posts EXCEPT ![i] = p]
  BY DEF Edits, Piece
<1>3. PostsGrow
  BY <1>2 DEF PostsGrow
<1> HIDE DEF p
<1>4. i \in DOMAIN posts' /\ posts'[i] = p
  BY <1>1, <1>2
<1>5. Standing(posts', sending.n, c)
  BY <1>4 DEF Standing, p
<1> QED BY <1>2, <1>3, <1>5 DEF p

\* What is reported as sent when send() returns or raises.
LEMMA Ended ==
  ASSUME OutTypes, Returns \/ Raises
  PROVE  /\ sending' = Idle /\ answered' = answered \cup sending.to /\ answered' \in SUBSET Messages
         /\ \/ sent' = sent
            \/ sending.kind = "answer" /\ sent' = sent \cup {<<sending.n, sending.size>>}
         /\ sending.kind # "answer" => sent' = sent
BY DEF OutTypes, Call, Returns, Raises

\* A call failed, or something that shows no piece worked: send() goes on.
LEMMA CallMoves ==
  ASSUME Outbound, sending # Idle, handed' = handed, sending' \in Call,
         sending'.kind = sending.kind, sending'.n = sending.n, sending'.size = sending.size,
         sending'.shown = sending.shown, AllShown' => AllShown \/ sending.size = 0 \/ sending.n \in swallowed',
         swallowed \subseteq swallowed', swallowed' \in SUBSET Nat, tracked' = 0 \/ tracked' = tracked,
         UNCHANGED <<adapter, posts, sent, answered>>
  PROVE  OutTypes' /\ Numbered' /\ Stands' /\ Streams' /\ sending' # Idle
<1>1. PostsGrow
  BY DEF PostsGrow
<1>2. /\ sending'.kind = "progress" => sending'.size = 1 /\ sending'.shown = 0
      /\ sending'.kind = "answer" => sending'.shown < sending'.size \/ sending'.size = 0
      /\ sending.kind # "none"
  BY DEF Outbound, Numbered
<1>3. sending'.kind = "answer" /\ sending'.n \notin swallowed' =>
            \A c \in 1 .. IF AllShown' THEN sending'.size ELSE sending'.shown : Standing(posts', sending'.n, c)
  <2>1. ASSUME sending.kind = "answer", sending.n \notin swallowed, NEW c \in 1 .. IF AllShown THEN sending.size ELSE sending.shown
        PROVE  Standing(posts, sending.n, c)
    BY <2>1 DEF Outbound, Stands
  <2>2. sending.shown \in Nat /\ sending.size \in Nat /\ (sending.shown <= sending.size \/ sending.size = 0)
    BY <1>2 DEF Outbound, Numbered, OutTypes, Call
  <2>3. CASE ~AllShown'
    <3>1. ASSUME NEW c \in 1 .. sending.shown, sending.kind = "answer", sending.n \notin swallowed
          PROVE  Standing(posts, sending.n, c)
      <4>1. CASE AllShown /\ sending.size # 0
        <5>1. c \in 1 .. sending.size
          BY <2>2, <4>1
        <5> QED BY <2>1, <3>1, <4>1, <5>1
      <4>2. CASE AllShown /\ sending.size = 0
        BY <1>2, <3>1, <4>2, <2>2 DEF Outbound, AtCall, AllShown
      <4>3. CASE ~AllShown
        BY <2>1, <3>1, <4>3
      <4> QED BY <4>1, <4>2, <4>3
    <3> QED BY <2>3, <3>1
  <2>4. CASE AllShown' /\ AllShown
    BY <2>1, <2>4
  <2>5. CASE sending.size = 0 /\ AllShown'
    <3>1. 1 .. sending'.size = {}
      BY <2>5
    <3> QED BY <2>5, <3>1
  <2>6. CASE sending.n \in swallowed'
    BY <2>6
  <2> QED BY <2>3, <2>4, <2>5, <2>6
<1>4. sending' # Idle
  BY <1>2, IdleCall
<1>5. tracked' = 0 \/ (tracked' = tracked /\ (posts' # posts => \A i \in DOMAIN posts : posts'[i] = posts[i]))
  OBVIOUS
<1>6. OutTypes' /\ Numbered' /\ Stands' /\ Streams'
  BY <1>1, <1>2, <1>3, <1>5, SendGoesOn, Zenon
<1> QED BY <1>4, <1>6

\* One piece more after those that were shown.
LEMMA ShownBefore ==
  ASSUME Outbound, PostsGrow, ~AllShown, sending.kind = "answer", swallowed \subseteq swallowed',
         Standing(posts', sending.n, sending.shown + 1)
  PROVE  sending.n \notin swallowed' => \A c \in 1 .. sending.shown + 1 : Standing(posts', sending.n, c)
<1>1. sending.n \in Nat /\ sending.shown \in Nat
  BY DEF Outbound, OutTypes, Call
<1>2. ASSUME sending.n \notin swallowed', NEW c \in 1 .. sending.shown
      PROVE  Standing(posts', sending.n, c)
  <2>1. Standing(posts, sending.n, c) /\ c \in Nat \ {0}
    BY <1>1, <1>2 DEF Outbound, Stands
  <2> QED BY <1>1, <2>1, StandsStill DEF Outbound
<1>3. \A c \in 1 .. sending.shown + 1 : c \in 1 .. sending.shown \/ c = sending.shown + 1
  BY <1>1
<1> QED BY <1>2, <1>3

\* What stands does not depend on the rest.
LEMMA StandsAside ==
  ASSUME Stands, UNCHANGED <<adapter, sending, posts, sent, swallowed>>
  PROVE  Stands'
BY ZenonT(60) DEF Stands, AllShown, Standing

-----------------------------------------------------------------------------
(* Telegram.                                                               *)

\* The platform's module names the same operators.
LEMMA SameTelegram ==
  /\ TG!Idle = Idle
  /\ \A s, f : TG!Orders(s, f) = Orders(s, f)
  /\ \A o, r : TG!Begins(o, r) <=> Begins(o, r)
  /\ \A r : TG!GoesOn(r) <=> GoesOn(r)
  /\ TG!Tries <=> Tries
  /\ \A c : TG!Posts(c) <=> Posts(c)
  /\ \A i, c : TG!Edits(i, c) <=> Edits(i, c)
  /\ TG!Returns <=> Returns
  /\ TG!Raises <=> Raises
  /\ TG!Swallows <=> Returns /\ swallowed' = swallowed \cup {sending.n}
  /\ \A r : TG!NextPiece(r) <=> NextPiece(r)
  /\ TG!Last <=> Last
  /\ \A r : TG!Awaits(r) <=> sending.rung = r
<1>1. TG!Idle = Idle
  BY Zenon DEF TG!Idle, Idle
<1>2. \A s, f : TG!Orders(s, f) = Orders(s, f)
  BY Zenon DEF TG!Orders, Orders, TG!Open, Open
<1>3. \A o, r : TG!Begins(o, r) <=> Begins(o, r)
  BY <1>1, Zenon DEF TG!Begins, Begins
<1>4. \A r : TG!GoesOn(r) <=> GoesOn(r)
  BY Zenon DEF TG!GoesOn, GoesOn
<1>5. TG!Tries <=> Tries
  BY Zenon DEF TG!Tries, Tries
<1>6. \A c : TG!Posts(c) <=> Posts(c)
  BY Zenon DEF TG!Posts, Posts, TG!Piece, Piece
<1>7. \A i, c : TG!Edits(i, c) <=> Edits(i, c)
  BY Zenon DEF TG!Edits, Edits, TG!Piece, Piece
<1>8. TG!Returns <=> Returns
  BY <1>1, Zenon DEF TG!Returns, Returns
<1>9. TG!Raises <=> Raises
  BY <1>1, Zenon DEF TG!Raises, Raises
<1>10. TG!Swallows <=> Returns /\ swallowed' = swallowed \cup {sending.n}
  BY <1>8, Zenon DEF TG!Swallows
<1>11. TG!Last <=> Last
  BY Zenon DEF TG!Last, Last
<1>12. \A r : TG!NextPiece(r) <=> NextPiece(r)
  BY <1>8, <1>11, Zenon DEF TG!NextPiece, NextPiece
<1>13. \A r : TG!Awaits(r) <=> sending.rung = r
  BY Zenon DEF TG!Awaits
<1> QED
  BY <1>1, <1>2, <1>3, <1>4, <1>5, <1>6, <1>7, <1>8, <1>9, <1>10, <1>11, <1>12, <1>13

\* Handing a message to Telegram, and every call its send() awaits, keep the invariant.
LEMMA TelegramSends ==
  ASSUME Inbound, Outbound, adapter = "telegram",
         \/ \E o \in TG!Orders({0, 2}, BOOLEAN) : TG!Send(o) \/ (~TG!App /\ TG!NotSent(o))
         \/ TG!TimedOut \/ TG!Fails \/ TG!Succeeds
  PROVE  Inbound' /\ Outbound'
<1> USE SameTelegram
<1>0. /\ OutTypes /\ sending \in Call /\ InTypes /\ TelegramTypes /\ Served /\ Once /\ acts \in Nat
      /\ sending.shown \in Nat /\ sending.size \in Nat /\ posts \in Seq(Post)
  BY DEF Inbound, Outbound, OutTypes, InTypes, Honest, Call
<1>1. ASSUME NEW o \in Orders({0, 2}, BOOLEAN), TG!Send(o)
      PROVE  Inbound' /\ Outbound'
  <2>1. /\ TG!App /\ sending = Idle /\ handed' = handed + 1 /\ acts' \in Nat
        /\ UNCHANGED <<adapter, phase, link, at, seen, timer, route, posts, tracked, sent, swallowed, answered>>
    BY <1>0, <1>1 DEF TG!Send, TG!Hands, TG!Act, TG!life, TG!inbound
  <2>2. o.size \in Nat /\ o.to \in SUBSET Messages /\ o.kind \in {"progress", "answer"}
        /\ o.to \in {{}, Open} /\ (o.kind = "progress" => o.size = 1 /\ o.to = {} /\ o.file = FALSE) /\ o.size \in {0, 1, 2}
        /\ (o.kind = "answer" /\ ~o.file => o.size # 0)
    <3>1. {0, 2} \in SUBSET Nat
      OBVIOUS
    <3> QED BY <3>1, OrdersAre
  <2>3. PICK rung \in Rungs :
                  /\ Begins(o, rung)
                  /\ rung \in {"edit", "html", "file"}
                  /\ rung = "edit" => o.kind = "progress" /\ tracked # 0
                  /\ rung = "file" => o.kind = "answer"
                  /\ rung = "html" => o.size # 0
    <3>1. CASE o.kind = "progress" /\ tracked # 0
      <4>3. (CASE o.kind = "progress" -> IF tracked # 0 THEN "edit" ELSE "html"
               [] o.file -> "file" [] OTHER -> "html") = "edit"
        BY <2>2, <3>1
      <4>1. Begins(o, "edit")
        BY <1>1, <4>3 DEF TG!Send
      <4> QED BY <3>1, <4>1 DEF Rungs
    <3>2. CASE o.kind = "progress" /\ tracked = 0
      <4>3. (CASE o.kind = "progress" -> IF tracked # 0 THEN "edit" ELSE "html"
               [] o.file -> "file" [] OTHER -> "html") = "html"
        BY <2>2, <3>2
      <4>1. Begins(o, "html")
        BY <1>1, <4>3 DEF TG!Send
      <4>2. o.size # 0
        BY <2>2, <3>2
      <4> QED BY <4>1, <4>2 DEF Rungs
    <3>3. CASE o.kind # "progress" /\ o.file
      BY <1>1, <2>2, <3>3 DEF TG!Send, Rungs
    <3>4. CASE o.kind # "progress" /\ ~o.file
      <4>1. Begins(o, "html")
        BY <1>1, <3>4 DEF TG!Send
      <4>2. o.size # 0
        BY <2>2, <3>4, Zenon
      <4> QED BY <4>1, <4>2 DEF Rungs
    <3> QED BY <3>1, <3>2, <3>3, <3>4
  <2>4. /\ sending' \in Call /\ sending'.kind = o.kind /\ sending'.n = handed + 1
        /\ sending'.size = o.size /\ sending'.to = o.to /\ sending'.rung = rung /\ sending'.shown = 0
    <3>1. OutTypes /\ Begins(o, rung)
      BY <1>0, <2>3
    <3>2. o.kind \in {"progress", "answer"} /\ o.size \in Nat /\ o.to \in SUBSET Messages
      BY <2>2
    <3> QED BY <3>1, <3>2, Begun
  <2>5. ~AllShown'
    BY <2>1 DEF AllShown
  <2>6. OutTypes' /\ Numbered' /\ Stands' /\ Streams'
    BY <2>1, <2>2, <2>4, <2>5, SendBegins
  <2>7. AtCall'
    <3>1. \A i \in DOMAIN posts : posts[i].of # handed + 1
      BY <1>0, PostsTyped DEF Outbound, Numbered, OutTypes
    <3>2. rung = "html" => sending'.shown < sending'.size
      BY <2>2, <2>3, <2>4
    <3>3. \A i \in DOMAIN posts' : posts'[i].of # sending'.n
      BY <2>1, <2>4, <3>1
    <3>4. sending'.rung = rung /\ sending'.kind = o.kind /\ tracked' = tracked /\ sending'.shown = 0
      BY <2>1, <2>4
    <3>5. adapter' = "telegram"
      BY <2>1
    <3> HIDE <2>4, <2>1
    <3>6. rung \notin {"plain", "editplain", "notice"}
      BY <2>3
    <3> QED BY <2>3, <3>2, <3>3, <3>4, <3>5, <3>6 DEF AtCall
  <2>8. InTypes' /\ Once'
    <3>1. typing' \in BOOLEAN
      BY <1>1, Zenon DEF TG!Send
    <3> QED BY <1>0, <2>1, <3>1, InboundAside DEF InTypes
  <2>9. Served'
    BY <1>0, <2>1, <2>2, <2>4, ServedAtSend
  <2>10. TelegramTypes'
    <3>1. typing' => typing /\ o.kind = "progress"
      BY <1>1, Zenon DEF TG!Send
    <3>2. sending.to = {}
      BY <2>1, IdleCall
    <3>3. typing' => sending'.to = sending.to
      BY <2>2, <2>4, <3>1, <3>2
    <3>4. typing' => Waits(sending.to) \/ Taking
      BY <1>0, <3>1 DEF TelegramTypes
    <3>5. Taking => Taking'
      BY <2>1, Zenon DEF Taking
    <3>6. Waits(sending.to) /\ sending'.to = sending.to => Waits(sending.to)'
      BY <2>1 DEF Waits
    <3>7. phase' \notin {"new", "down"}
      BY <2>1 DEF TG!App
    <3> QED BY <3>3, <3>4, <3>5, <3>6, <3>7 DEF TelegramTypes
  <2> QED BY <2>1, <2>6, <2>7, <2>8, <2>9, <2>10 DEF Inbound, Outbound, Honest
<1>2. ASSUME NEW o \in Orders({0, 2}, BOOLEAN), ~TG!App, TG!NotSent(o)
      PROVE  Inbound' /\ Outbound'
  <2>1. /\ sending = Idle /\ handed' = handed + 1 /\ acts' \in Nat /\ answered' = answered \cup o.to
        /\ UNCHANGED <<adapter, phase, link, at, seen, timer, route, typing, sending, posts, tracked, sent, swallowed>>
    BY <1>0, <1>2 DEF TG!NotSent, TG!Hands, TG!Act, TG!life, TG!inbound
  <2>2. o.to \in SUBSET Messages /\ o.to \in {{}, Open}
    <3>1. {0, 2} \in SUBSET Nat
      OBVIOUS
    <3> QED BY <3>1, OrdersAre
  <2>3. Outbound'
    BY <1>0, <2>1, <2>2, NothingSent DEF OutTypes
  <2>4. InTypes' /\ Once'
    BY <1>0, <2>1, InboundAside DEF InTypes
  <2>5. Served'
    BY <1>0, <2>1, <2>2, OpenIsDone DEF Served
  <2>6. phase \in {"new", "down"}
    BY <1>0, <1>2 DEF TG!App, InTypes
  <2>7. TelegramTypes'
    BY <1>0, <2>1, <2>6 DEF TelegramTypes
  <2> QED BY <2>1, <2>3, <2>4, <2>5, <2>7 DEF Inbound, Honest
<1>3. ASSUME sending # Idle, acts' \in Nat,
             UNCHANGED <<adapter, phase, link, at, seen, timer, route, handed>>, typing' = typing,
             \/ sending'.kind = sending.kind /\ sending'.to = sending.to /\ answered' = answered
             \/ sending' = Idle /\ answered' = answered \cup sending.to
      PROVE  Inbound'
  <2>1. InTypes' /\ Once'
    BY <1>0, <1>3, InboundAside DEF InTypes
  <2>2. Served'
    BY <1>0, <1>3, ServedOn
  <2>3. Taking => Taking'
    BY <1>3, Zenon DEF Taking
  <2>4. Waits(sending.to) => Waits(sending.to)'
    BY <1>3, IdleCall DEF Waits
  <2>5. TelegramTypes'
    BY <1>0, <1>3, <2>3, <2>4 DEF TelegramTypes
  <2> QED BY <1>3, <2>1, <2>2, <2>5 DEF Inbound, Honest
<1>4. CASE TG!TimedOut
  <2>1. /\ sending # Idle /\ Tries /\ acts' \in Nat
        /\ UNCHANGED <<adapter, phase, link, at, seen, timer, route, handed>>
        /\ UNCHANGED <<typing, posts, tracked, sent, swallowed, answered>>
    BY <1>0, <1>4 DEF TG!TimedOut, TG!Act, TG!Aside, TG!life, TG!inbound
  <2>2. /\ sending' \in Call /\ sending'.kind = sending.kind /\ sending'.n = sending.n
        /\ sending'.size = sending.size /\ sending'.to = sending.to /\ sending'.rung = sending.rung
        /\ sending'.post = sending.post /\ sending'.shown = sending.shown
    BY <1>0, <2>1, Tried
  <2>3. OutTypes' /\ Numbered' /\ Stands' /\ Streams' /\ sending' # Idle
    <3>1. ~AllShown'
      BY <2>1 DEF AllShown
    <3> QED BY <1>0, <2>1, <2>2, <3>1, CallMoves DEF OutTypes
  <2>4. AtCall'
    BY <2>1, <2>2 DEF Outbound, AtCall
  <2> QED BY <1>3, <2>1, <2>2, <2>3, <2>4 DEF Outbound
<1>5. CASE TG!Fails
  <2>1. /\ sending # Idle /\ acts' \in Nat
        /\ UNCHANGED <<adapter, phase, link, at, seen, timer, route, handed>>
        /\ UNCHANGED <<typing, posts, swallowed>>
    BY <1>0, <1>5 DEF TG!Fails, TG!Act, TG!Aside, TG!life, TG!inbound
  <2>2. ASSUME NEW rung \in Rungs, GoesOn(rung), UNCHANGED <<sent, answered>>, tracked' = tracked \/ tracked' = 0,
               rung \in {"notice", "editplain", "html", "plain"},
               rung = "notice" => sending.rung = "file", rung = "plain" => sending.rung = "html",
               rung = "editplain" => sending.rung = "edit" /\ tracked' = tracked,
               rung = "html" => sending.rung = "editplain"
        PROVE  Inbound' /\ Outbound'
    <3>1. /\ sending' \in Call /\ sending'.kind = sending.kind /\ sending'.n = sending.n
          /\ sending'.size = sending.size /\ sending'.to = sending.to /\ sending'.rung = rung
          /\ sending'.post = sending.post /\ sending'.shown = sending.shown
      BY <1>0, <2>2, GoneOn
    <3>2. OutTypes' /\ Numbered' /\ Stands' /\ Streams' /\ sending' # Idle
      <4>1. ~AllShown'
        BY <2>1 DEF AllShown
      <4> QED BY <1>0, <2>1, <2>2, <3>1, <4>1, CallMoves DEF OutTypes
    <3>3. AtCall'
      <4>1. sending.kind = "progress" => sending.shown < sending.size
        BY DEF Outbound, Numbered
      <4> QED BY <2>1, <2>2, <3>1, <4>1 DEF Outbound, AtCall
    <3> QED BY <1>3, <2>1, <2>2, <3>1, <3>2, <3>3 DEF Outbound
  <2>3. CASE /\ \E r \in {<<"file", "notice">>, <<"edit", "editplain">>, <<"editplain", "html">>, <<"html", "plain">>} :
                 sending.rung = r[1] /\ GoesOn(r[2])
             /\ tracked' = IF sending.rung = "editplain" THEN 0 ELSE tracked
             /\ UNCHANGED <<sent, answered>>
    <3>1. CASE sending.rung = "file" /\ GoesOn("notice")
      BY <2>2, <2>3, <3>1 DEF Rungs
    <3>2. CASE sending.rung = "edit" /\ GoesOn("editplain")
      BY <2>2, <2>3, <3>2 DEF Rungs
    <3>3. CASE sending.rung = "editplain" /\ GoesOn("html")
      BY <2>2, <2>3, <3>3 DEF Rungs
    <3>4. CASE sending.rung = "html" /\ GoesOn("plain")
      BY <2>2, <2>3, <3>4 DEF Rungs
    <3> QED BY <2>3, <3>1, <3>2, <3>3, <3>4
  <2>4. CASE Raises /\ UNCHANGED tracked
    <3>1. /\ sending' = Idle /\ answered' = answered \cup sending.to /\ answered' \in SUBSET Messages
          /\ sent' = sent
      BY <1>0, <2>4, Ended DEF Raises
    <3>2. PostsGrow
      BY <2>1 DEF PostsGrow
    <3>3. Outbound'
      BY <1>0, <2>1, <2>4, <3>1, <3>2, SendEnds DEF OutTypes
    <3> QED BY <1>3, <2>1, <3>1, <3>3
  <2> QED BY <1>5, <2>3, <2>4 DEF TG!Fails
<1>6. CASE TG!Succeeds
  <2>1. /\ sending # Idle /\ acts' \in Nat /\ TG!App
        /\ UNCHANGED <<adapter, phase, link, at, seen, timer, route, handed>>
        /\ UNCHANGED <<typing, swallowed>>
    BY <1>0, <1>6 DEF TG!Succeeds, TG!Aside, TG!life, TG!inbound
  <2>2. ~AllShown /\ ~AllShown' /\ swallowed \subseteq swallowed' /\ swallowed' \in SUBSET Nat
    BY <1>0, <2>1 DEF AllShown, OutTypes
  <2>3. CASE (sending.rung = "file" \/ sending.rung = "notice") /\ sending.size = 0 /\ Returns /\ UNCHANGED <<posts, tracked>>
    <3>1. /\ sending' = Idle /\ answered' = answered \cup sending.to /\ answered' \in SUBSET Messages
          /\ sent' = sent \cup {<<sending.n, sending.size>>}
      BY <1>0, <2>3, Ended DEF Returns, Outbound, AtCall
    <3>2. PostsGrow
      BY <2>3 DEF PostsGrow
    <3>3. \A i \in DOMAIN posts : posts[i] # [of |-> sending.n, chunk |-> sending.size]
      <4>1. \A i \in DOMAIN posts : posts[i].of = sending.n => posts[i].chunk \in 1 .. sending.shown
        BY <2>1, <2>3 DEF Outbound, AtCall
      <4>2. sending.shown = 0
        BY <2>3 DEF Outbound, AtCall
      <4>3. [of |-> sending.n, chunk |-> sending.size].of = sending.n
        OBVIOUS
      <4> QED BY <4>1, <4>2, <4>3
    <3>4. \A c \in 1 .. sending.size : Standing(posts', sending.n, c)
      <4>1. 1 .. sending.size = {}
        BY <2>3
      <4> QED BY <4>1
    <3>5. Outbound'
      BY <1>0, <2>1, <2>2, <2>3, <3>1, <3>2, <3>3, <3>4, SendEnds
    <3> QED BY <1>3, <2>1, <3>1, <3>5
  <2>4. CASE (sending.rung = "file" \/ sending.rung = "notice") /\ sending.size # 0 /\ GoesOn("html")
             /\ UNCHANGED <<sent, answered, posts, tracked>>
    <3>1. /\ sending' \in Call /\ sending'.kind = sending.kind /\ sending'.n = sending.n
          /\ sending'.size = sending.size /\ sending'.to = sending.to /\ sending'.rung = "html"
          /\ sending'.post = sending.post /\ sending'.shown = sending.shown
      BY <1>0, <2>4, GoneOn DEF Rungs
    <3>2. OutTypes' /\ Numbered' /\ Stands' /\ Streams' /\ sending' # Idle
      BY <1>0, <2>1, <2>2, <2>4, <3>1, CallMoves
    <3>3. AtCall'
      <4>1. sending.shown = 0 /\ sending.shown < sending.size
        BY <1>0, <2>4 DEF Outbound, AtCall
      <4> QED BY <2>1, <2>4, <3>1, <4>1 DEF Outbound, AtCall
    <3> QED BY <1>3, <2>1, <2>4, <3>1, <3>2, <3>3 DEF Outbound
  <2>5. CASE (sending.rung = "edit" \/ sending.rung = "editplain") /\ Edits(tracked, 0) /\ Returns /\ UNCHANGED tracked
    <3>1. tracked \in DOMAIN posts /\ posts[tracked].chunk = 0 /\ sending.kind = "progress"
      BY <2>5 DEF Outbound, AtCall, Streams
    <3>2. PostsGrow /\ posts' = [posts EXCEPT ![tracked] = [of |-> sending.n, chunk |-> 0]]
      <4>1. OutTypes /\ Edits(tracked, 0) /\ 0 \in Nat
        BY <1>0, <2>5
      <4> QED BY <3>1, <4>1, Edited
    <3>3. /\ sending' = Idle /\ answered' = answered \cup sending.to /\ answered' \in SUBSET Messages
          /\ sent' = sent
      BY <1>0, <2>5, <3>1, Ended
    <3>4. Outbound'
      BY <1>0, <2>1, <2>2, <2>5, <3>1, <3>2, <3>3, SendEnds
    <3> QED BY <1>3, <2>1, <3>3, <3>4
  <2>6. CASE sending.kind = "progress" /\ Posts(0) /\ tracked' = Len(posts') /\ Returns
    <3>1. PostsGrow /\ posts' = Append(posts, [of |-> sending.n, chunk |-> 0])
      BY <1>0, <2>6, Posted
    <3>2. /\ sending' = Idle /\ answered' = answered \cup sending.to /\ answered' \in SUBSET Messages
          /\ sent' = sent
      BY <1>0, <2>6, Ended
    <3>3. Outbound'
      BY <1>0, <2>1, <2>2, <2>6, <3>1, <3>2, SendEnds
    <3> QED BY <1>3, <2>1, <3>2, <3>3
  <2>7. CASE /\ sending.rung \in {"html", "plain"} /\ sending.kind = "answer" /\ Posts(sending.shown + 1)
             /\ NextPiece("html") /\ tracked' = IF Last THEN 0 ELSE tracked
    <3>1. sending.shown < sending.size
      BY <2>7 DEF Outbound, AtCall
    <3>2. /\ PostsGrow
          /\ Standing(posts', sending.n, sending.shown + 1)
          /\ \A i \in DOMAIN posts : posts'[i] = posts[i]
          /\ \A i \in DOMAIN posts' : i \in DOMAIN posts \/ posts'[i] = [of |-> sending.n, chunk |-> sending.shown + 1]
      <4>1. sending.shown + 1 \in Nat /\ OutTypes
        BY <1>0
      <4> QED BY <2>7, <4>1, Posted
    <3>3. sending.n \notin swallowed' => \A c \in 1 .. sending.shown + 1 : Standing(posts', sending.n, c)
      BY <1>0, <2>1, <2>2, <2>7, <3>2, ShownBefore
    <3>4. CASE Returns /\ sending.shown + 1 = sending.size
      <4>1. /\ sending' = Idle /\ answered' = answered \cup sending.to /\ answered' \in SUBSET Messages
            /\ sent' = sent \cup {<<sending.n, sending.size>>}
        BY <1>0, <2>7, <3>4, Ended DEF Returns
      <4>2. tracked' = 0
        BY <2>7, <3>4 DEF Last
      <4>3. Outbound'
        BY <1>0, <2>1, <2>2, <3>2, <3>3, <3>4, <4>1, <4>2, SendEnds
      <4> QED BY <1>3, <2>1, <4>1, <4>3
    <3>5. CASE /\ sending' \in Call /\ sending'.kind = sending.kind /\ sending'.n = sending.n
               /\ sending'.size = sending.size /\ sending'.to = sending.to /\ sending'.rung = "html"
               /\ sending'.post = sending.post /\ sending'.shown = sending.shown + 1
               /\ sending'.shown < sending'.size /\ sending.shown + 1 # sending.size
               /\ sent' = sent /\ answered' = answered
      <4>1. tracked' = tracked
        BY <2>7, <3>5 DEF Last
      <4>2. OutTypes' /\ Numbered' /\ Stands' /\ Streams'
        BY <1>0, <2>1, <2>2, <2>7, <3>2, <3>3, <3>5, <4>1, SendGoesOn
      <4>3. AtCall'
        <5>1. \A i \in DOMAIN posts : posts[i].of = sending.n => posts[i].chunk \in 1 .. sending.shown
          BY <2>1 DEF Outbound, AtCall
        <5>2. \A i \in DOMAIN posts' : posts'[i].of = sending.n => posts'[i].chunk \in 1 .. sending.shown + 1
          BY <1>0, <3>2, <5>1
        <5> QED BY <2>1, <2>7, <3>5, <4>1, <5>2 DEF AtCall
      <4> QED BY <1>3, <2>1, <3>5, <4>2, <4>3 DEF Outbound
    <3> QED BY <1>0, <2>7, <3>1, <3>4, <3>5, PieceShown DEF Rungs
  <2> QED BY <1>6, <2>3, <2>4, <2>5, <2>6, <2>7 DEF TG!Succeeds, TG!Cleared
<1> QED BY <1>1, <1>2, <1>4, <1>5, <1>6

\* Every step of Telegram keeps the invariant.
LEMMA TelegramStep ==
  ASSUME Inbound, Outbound, adapter = "telegram", TG!Next
  PROVE  Inbound' /\ Outbound'
<1> USE DEF Inbound, InTypes, Once, Honest, Deliveries, Where, Names, OneByOne, Cached
<1>1. ASSUME TG!Start PROVE Inbound' /\ Outbound'
  <2>1. UNCHANGED <<adapter, outbound>>
    BY <1>1 DEF TG!Start, TG!Enters, TG!life, TG!inbound, TG!outbound, outbound
  <2>2. InTypes'
    BY <1>1, <2>1 DEF TG!Start, TG!Enters, TG!life, TG!inbound
  <2>3. Once'
    BY <1>1, <2>1 DEF TG!Start, TG!Enters, TG!life, TG!inbound, Once
  <2>4. \A d \in Deliveries : at[d] = "done" => at'[d] = "done"
    BY <1>1 DEF TG!Start, TG!Enters, TG!life, TG!inbound
  <2>5. Served'
    BY <2>1, <2>4, DoneStays DEF Outbound, outbound
  <2>6. Honest'
    BY <1>1, <2>1 DEF TG!Start, TG!Enters, TG!life, TG!inbound, outbound, Served,
           TelegramTypes, Waits, Taking, Inside
  <2> QED BY <2>1, <2>2, <2>3, <2>5, <2>6, OutboundRests
<1>2. ASSUME TG!StartPolls PROVE Inbound' /\ Outbound'
  <2>1. UNCHANGED <<adapter, outbound>>
    BY <1>2 DEF TG!StartPolls, TG!Places, TG!Deliveries, TG!life, TG!inbound,
           TG!outbound, outbound
  <2>2. InTypes'
    BY <1>2, <2>1 DEF TG!StartPolls, TG!Places, TG!Deliveries, TG!life, TG!inbound
  <2>3. Once'
    BY <1>2, <2>1 DEF TG!StartPolls, TG!Places, TG!Deliveries, TG!life, TG!inbound, Once
  <2>4. \A d \in Deliveries : at[d] = "done" => at'[d] = "done"
    BY <1>2 DEF TG!StartPolls, TG!Places, TG!Deliveries, TG!life, TG!inbound
  <2>5. Served'
    BY <2>1, <2>4, DoneStays DEF Outbound, outbound
  <2>6. Honest'
    BY <1>2, <2>1 DEF TG!StartPolls, TG!Places, TG!Deliveries, TG!life, TG!inbound,
           outbound, Served, TelegramTypes, Waits, Taking, Inside
  <2> QED BY <2>1, <2>2, <2>3, <2>5, <2>6, OutboundRests
<1>3. ASSUME TG!Leaves PROVE Inbound' /\ Outbound'
  <2>1. UNCHANGED <<adapter, outbound>>
    BY <1>3 DEF TG!Leaves, TG!Act, TG!life, TG!inbound, TG!outbound, outbound
  <2>10. link' \in BOOLEAN
    BY <1>3, Zenon DEF TG!Leaves, TG!Act, TG!life, TG!inbound
  <2>2. InTypes'
    BY <1>3, <2>10, <2>1 DEF TG!Leaves, TG!Act, TG!life, TG!inbound
  <2>3. Once'
    BY <1>3, <2>1 DEF TG!Leaves, TG!Act, TG!life, TG!inbound, Once
  <2>4. \A d \in Deliveries : at[d] = "done" => at'[d] = "done"
    BY <1>3 DEF TG!Leaves, TG!Act, TG!life, TG!inbound
  <2>5. Served'
    BY <2>1, <2>4, DoneStays DEF Outbound, outbound
  <2>6. Honest'
    BY <1>3, <2>1 DEF TG!Leaves, TG!Act, TG!life, TG!inbound, outbound, Served,
           TelegramTypes, Waits, Taking, Inside
  <2> QED BY <2>1, <2>2, <2>3, <2>5, <2>6, OutboundRests
<1>4. ASSUME TG!Stop PROVE Inbound' /\ Outbound'
  <2>1. UNCHANGED <<adapter, outbound>>
    BY <1>4 DEF TG!Stop, TG!Places, TG!Deliveries, TG!life, TG!inbound, TG!outbound,
           outbound
  <2>2. InTypes'
    BY <1>4, <2>1 DEF TG!Stop, TG!Places, TG!Deliveries, TG!life, TG!inbound
  <2>3. Once'
    BY <1>4, <2>1 DEF TG!Stop, TG!Places, TG!Deliveries, TG!life, TG!inbound, Once
  <2>4. \A d \in Deliveries : at[d] = "done" => at'[d] = "done"
    BY <1>4 DEF TG!Stop, TG!Places, TG!Deliveries, TG!life, TG!inbound
  <2>5. Served'
    BY <2>1, <2>4, DoneStays DEF Outbound, outbound
  <2>6. Honest'
    BY <1>4, <2>1 DEF TG!Stop, TG!Places, TG!Deliveries, TG!life, TG!inbound, outbound,
           Served, TelegramTypes, Waits, Taking, Inside
  <2> QED BY <2>1, <2>2, <2>3, <2>5, <2>6, OutboundRests
<1>5. ASSUME TG!Stopped PROVE Inbound' /\ Outbound'
  <2>1. UNCHANGED <<adapter, outbound>>
    BY <1>5 DEF TG!Stopped, TG!Deliveries, TG!life, TG!inbound, TG!outbound, outbound
  <2>2. InTypes'
    BY <1>5, <2>1 DEF TG!Stopped, TG!Deliveries, TG!life, TG!inbound
  <2>3. Once'
    BY <1>5, <2>1 DEF TG!Stopped, TG!Deliveries, TG!life, TG!inbound, Once
  <2>4. \A d \in Deliveries : at[d] = "done" => at'[d] = "done"
    BY <1>5 DEF TG!Stopped, TG!Deliveries, TG!life, TG!inbound
  <2>5. Served'
    BY <2>1, <2>4, DoneStays DEF Outbound, outbound
  <2>6. Honest'
    BY <1>5, <2>1 DEF TG!Stopped, TG!Deliveries, TG!life, TG!inbound, outbound, Served,
           TelegramTypes, Waits, Taking, Inside
  <2> QED BY <2>1, <2>2, <2>3, <2>5, <2>6, OutboundRests
<1>6. ASSUME NEW m \in Messages, TG!Said(m, "due") PROVE Inbound' /\ Outbound'
  <2>1. UNCHANGED <<adapter, outbound>>
    BY <1>6 DEF TG!Said, TG!Act, TG!Moves, TG!life, TG!inbound, TG!outbound, outbound
  <2>2. InTypes'
    BY <1>6, <2>1 DEF TG!Said, TG!Act, TG!Moves, TG!life, TG!inbound
  <2>3. Once'
    BY <1>6, <2>1 DEF TG!Said, TG!Act, TG!Moves, TG!life, TG!inbound, Once
  <2>4. \A d \in Deliveries : at[d] = "done" => at'[d] = "done"
    BY <1>6 DEF TG!Said, TG!Act, TG!Moves, TG!life, TG!inbound
  <2>5. Served'
    BY <2>1, <2>4, DoneStays DEF Outbound, outbound
  <2>6. Honest'
    BY <1>6, <2>1 DEF TG!Said, TG!Act, TG!Moves, TG!life, TG!inbound, outbound, Served,
           TelegramTypes, Waits, Taking, Inside
  <2> QED BY <2>1, <2>2, <2>3, <2>5, <2>6, OutboundRests
<1>7. ASSUME NEW e \in Deliveries, TG!Deliver(e) PROVE Inbound' /\ Outbound'
  <2>1. UNCHANGED <<adapter, outbound>>
    BY <1>7 DEF TG!Deliver, TG!Moves, TG!Deliveries, TG!life, TG!inbound, TG!outbound,
           outbound
  <2>2. InTypes'
    BY <1>7, <2>1 DEF TG!Deliver, TG!Moves, TG!Deliveries, TG!life, TG!inbound
  <2>3. Once'
    BY <1>7, <2>1 DEF TG!Deliver, TG!Moves, TG!Deliveries, TG!life, TG!inbound, Once
  <2>4. \A d \in Deliveries : at[d] = "done" => at'[d] = "done"
    BY <1>7 DEF TG!Deliver, TG!Moves, TG!Deliveries, TG!life, TG!inbound
  <2>5. Served'
    BY <2>1, <2>4, DoneStays DEF Outbound, outbound
  <2>6. Honest'
    BY <1>7, <2>1 DEF TG!Deliver, TG!Moves, TG!Deliveries, TG!life, TG!inbound,
           outbound, Served, TelegramTypes, Waits, Taking, Inside
  <2> QED BY <2>1, <2>2, <2>3, <2>5, <2>6, OutboundRests
<1>8. ASSUME NEW e \in Deliveries, TG!Downloaded(e) PROVE Inbound' /\ Outbound'
  <2>1. UNCHANGED <<adapter, outbound>>
    BY <1>8 DEF TG!Downloaded, TG!Keeps, TG!Moves, TG!Deliveries, TG!life, TG!inbound,
           TG!outbound, outbound
  <2>2. InTypes'
    BY <1>8, <2>1 DEF TG!Downloaded, TG!Keeps, TG!Moves, TG!Deliveries, TG!life,
           TG!inbound
  <2>3. Once'
    BY <1>8, <2>1 DEF TG!Downloaded, TG!Keeps, TG!Moves, TG!Deliveries, TG!life,
           TG!inbound, Once
  <2>4. \A d \in Deliveries : at[d] = "done" => at'[d] = "done"
    BY <1>8 DEF TG!Downloaded, TG!Keeps, TG!Moves, TG!Deliveries, TG!life, TG!inbound
  <2>5. Served'
    BY <2>1, <2>4, DoneStays DEF Outbound, outbound
  <2>6. Honest'
    BY <1>8, <2>1 DEF TG!Downloaded, TG!Keeps, TG!Moves, TG!Deliveries, TG!life,
           TG!inbound, outbound, Served, TelegramTypes, Waits, Taking, Inside
  <2> QED BY <2>1, <2>2, <2>3, <2>5, <2>6, OutboundRests
<1>9. ASSUME TG!Flush PROVE Inbound' /\ Outbound'
  <2>1. UNCHANGED <<adapter, outbound>>
    BY <1>9 DEF TG!Flush, TG!Places, TG!Deliveries, TG!life, TG!inbound, TG!outbound,
           outbound
  <2>2. InTypes'
    BY <1>9, <2>1 DEF TG!Flush, TG!Places, TG!Deliveries, TG!life, TG!inbound
  <2>3. Once'
    BY <1>9, <2>1 DEF TG!Flush, TG!Places, TG!Deliveries, TG!life, TG!inbound, Once
  <2>4. \A d \in Deliveries : at[d] = "done" => at'[d] = "done"
    BY <1>9 DEF TG!Flush, TG!Places, TG!Deliveries, TG!life, TG!inbound
  <2>5. Served'
    BY <2>1, <2>4, DoneStays DEF Outbound, outbound
  <2>6. Honest'
    <3>1. \A d \in Deliveries : at'[d] = IF at[d] = "kept" THEN "done" ELSE at[d]
      BY <1>9 DEF TG!Flush, TG!Places, TG!Deliveries, TG!life, TG!inbound
    <3>2. \A d \in Deliveries : at[d] = "kept" => d = <<d[1], 1>> /\ d[1] \in Messages /\ d[1] \notin answered \cup sending.to
      BY DEF Served
    <3>3. Taking => Taking' \/ Waits(sending.to)'
      BY <2>1, <3>1, <3>2 DEF Taking, Waits, Inside, outbound
    <3>4. Waits(sending.to) => Waits(sending.to)'
      BY <2>1, <3>1 DEF Waits, outbound
    <3>5. UNCHANGED <<typing, phase, link>> /\ \A d \in Deliveries : at'[d] = "held" => at[d] = "held"
      BY <1>9, <3>1 DEF TG!Flush, TG!Places, TG!Deliveries, TG!life, TG!inbound
    <3> QED BY <2>1, <3>3, <3>4, <3>5 DEF TelegramTypes
  <2> QED BY <2>1, <2>2, <2>3, <2>5, <2>6, OutboundRests
<1>10. ASSUME TG!TypingEnds PROVE Inbound' /\ Outbound'
  <2>1. UNCHANGED <<adapter, outbound>>
    BY <1>10 DEF TG!TypingEnds, TG!Act, TG!life, TG!inbound, TG!outbound, outbound
  <2>10. typing' \in BOOLEAN
    BY <1>10, Zenon DEF TG!TypingEnds, TG!Act, TG!life, TG!inbound
  <2>2. InTypes'
    BY <1>10, <2>10, <2>1 DEF TG!TypingEnds, TG!Act, TG!life, TG!inbound
  <2>3. Once'
    BY <1>10, <2>1 DEF TG!TypingEnds, TG!Act, TG!life, TG!inbound, Once
  <2>4. \A d \in Deliveries : at[d] = "done" => at'[d] = "done"
    BY <1>10 DEF TG!TypingEnds, TG!Act, TG!life, TG!inbound
  <2>5. Served'
    BY <2>1, <2>4, DoneStays DEF Outbound, outbound
  <2>6. Honest'
    BY <1>10, <2>1 DEF TG!TypingEnds, TG!Act, TG!life, TG!inbound, outbound, Served,
           TelegramTypes, Waits, Taking, Inside
  <2> QED BY <2>1, <2>2, <2>3, <2>5, <2>6, OutboundRests
<1> QED
  BY <1>1, <1>2, <1>3, <1>4, <1>5, <1>6, <1>7, <1>8, <1>9, <1>10,
     TelegramSends DEF TG!Next, TG!Handlers, TG!Deliveries

-----------------------------------------------------------------------------
(* Discord.                                                                *)

\* The platform's module names the operators that all share.
LEMMA SameDiscord ==
  /\ DC!Idle = Idle
  /\ \A s, f : DC!Orders(s, f) = Orders(s, f)
  /\ \A o, r : DC!Begins(o, r) <=> Begins(o, r)
  /\ \A r : DC!GoesOn(r) <=> GoesOn(r)
  /\ DC!Tries <=> Tries
  /\ \A c : DC!Posts(c) <=> Posts(c)
  /\ \A i, c : DC!Edits(i, c) <=> Edits(i, c)
  /\ DC!Returns <=> Returns
  /\ DC!Swallows <=> Returns /\ swallowed' = swallowed \cup {sending.n}
  /\ DC!Last <=> Last
  /\ \A r : DC!NextPiece(r) <=> NextPiece(r)
  /\ \A r : DC!Awaits(r) <=> sending.rung = r
<1>1. DC!Idle = Idle
  BY Zenon DEF DC!Idle, Idle
<1>2. \A s, f : DC!Orders(s, f) = Orders(s, f)
  BY Zenon DEF DC!Orders, Orders, DC!Open, Open
<1>3. \A o, r : DC!Begins(o, r) <=> Begins(o, r)
  BY <1>1, Zenon DEF DC!Begins, Begins
<1>4. \A r : DC!GoesOn(r) <=> GoesOn(r)
  BY Zenon DEF DC!GoesOn, GoesOn
<1>5. DC!Tries <=> Tries
  BY Zenon DEF DC!Tries, Tries
<1>6. \A c : DC!Posts(c) <=> Posts(c)
  BY Zenon DEF DC!Posts, Posts, DC!Piece, Piece
<1>7. \A i, c : DC!Edits(i, c) <=> Edits(i, c)
  BY Zenon DEF DC!Edits, Edits, DC!Piece, Piece
<1>8. DC!Returns <=> Returns
  BY <1>1, Zenon DEF DC!Returns, Returns
<1>9. DC!Swallows <=> Returns /\ swallowed' = swallowed \cup {sending.n}
  BY <1>8, Zenon DEF DC!Swallows
<1>10. DC!Last <=> Last
  BY Zenon DEF DC!Last, Last
<1>11. \A r : DC!NextPiece(r) <=> NextPiece(r)
  BY <1>8, <1>10, Zenon DEF DC!NextPiece, NextPiece
<1>12. \A r : DC!Awaits(r) <=> sending.rung = r
  BY Zenon DEF DC!Awaits
<1> QED BY <1>1, <1>2, <1>3, <1>4, <1>5, <1>6, <1>7, <1>8, <1>9, <1>10, <1>11, <1>12

\* Discord shows that somebody types until send() returns from an answer.
LEMMA DiscordCall ==
  ASSUME Inbound, OutTypes, adapter = "discord", acts' \in Nat,
         UNCHANGED <<adapter, phase, link, at, seen, timer, route>>,
         \/ sending'.kind = sending.kind /\ sending'.to = sending.to /\ answered' = answered /\ typing' = typing
         \/ sending' = Idle /\ answered' = answered \cup sending.to /\ typing' = (typing /\ sending.kind = "progress")
  PROVE  Inbound'
<1>1. InTypes /\ Once /\ typing \in BOOLEAN /\ timer \in BOOLEAN /\ route \in BOOLEAN
  BY DEF Inbound, InTypes
<1>2. typing' \in BOOLEAN
  BY <1>1, Zenon
<1>3. InTypes' /\ Once'
  BY <1>1, <1>2, InboundAside
<1>4. Served'
  BY ServedOn
<1>5. typing' => typing /\ answered' = answered
  BY DEF Inbound, Served
<1>6. Honest'
  BY <1>5 DEF Inbound, Honest, DiscordTypes, Waits
<1> QED BY <1>3, <1>4, <1>6 DEF Inbound

\* Its send() begins, or there is no client.
LEMMA DiscordSend ==
  ASSUME Inbound, OutTypes, adapter = "discord", acts' \in Nat,
         UNCHANGED <<adapter, phase, link, at, seen, timer, typing, route>>,
         \/ sending'.to \in {{}, Open} /\ (sending'.kind # "answer" => sending'.to = {}) /\ answered' = answered
         \/ sending = Idle /\ sending' = sending /\ ~typing /\ \E to \in {{}, Open} : answered' = answered \cup to
  PROVE  Inbound'
<1>1. InTypes /\ Once /\ typing \in BOOLEAN /\ timer \in BOOLEAN /\ route \in BOOLEAN
  BY DEF Inbound, InTypes
<1>2. InTypes' /\ Once'
  BY <1>1, InboundAside
<1>3. Served'
  <2>1. CASE sending'.to \in {{}, Open} /\ (sending'.kind # "answer" => sending'.to = {}) /\ answered' = answered
    BY <2>1, ServedAtSend
  <2>2. CASE sending = Idle /\ sending' = sending /\ \E to \in {{}, Open} : answered' = answered \cup to
    <3>1. adapter \in OneByOne
      BY DEF OneByOne
    <3>2. \A m \in Open : at[<<m, 1>>] = "done"
      BY <3>1, OpenIsDone
    <3> QED BY <2>2, <3>1, <3>2 DEF Inbound, Served
  <2> QED BY <2>1, <2>2
<1>4. Honest'
  BY DEF Inbound, Honest, DiscordTypes, Waits
<1> QED BY <1>2, <1>3, <1>4 DEF Inbound

\* Handing a message to Discord, and every call its send() awaits, keep the invariant.
LEMMA DiscordSends ==
  ASSUME Inbound, Outbound, adapter = "discord",
         \/ \E o \in DC!Orders({0, 2}, BOOLEAN) : DC!Send(o) \/ (~DC!Client /\ DC!NotSent(o))
         \/ DC!TriesAgain \/ DC!FileDone \/ DC!Fails \/ DC!Succeeds
  PROVE  Inbound' /\ Outbound'
<1> USE SameDiscord
<1>0. /\ acts \in Nat /\ handed \in Nat /\ OutTypes /\ sending \in Call /\ tracked \in Nat
      /\ swallowed \in SUBSET Nat /\ {0, 2} \in SUBSET Nat
  BY DEF Inbound, InTypes, Outbound, OutTypes
<1>1. ~AllShown /\ ~AllShown'
  <2>1. adapter' = adapter
    BY DEF DC!Send, DC!NotSent, DC!TriesAgain, DC!FileDone, DC!Fails, DC!Succeeds, DC!life, DC!Aside
  <2> QED BY <2>1 DEF AllShown
<1>2. tracked # 0 => tracked \in DOMAIN posts /\ posts[tracked].chunk = 0
  BY DEF Outbound, Streams
<1>3. ASSUME NEW o \in Orders({0, 2}, BOOLEAN), DC!Send(o)
      PROVE  Inbound' /\ Outbound'
  <2>1. /\ sending = Idle /\ handed' = handed + 1 /\ acts' \in Nat
        /\ UNCHANGED <<adapter, phase, link, at, seen, timer, typing, route>>
        /\ UNCHANGED <<posts, sent, swallowed, answered>>
    BY <1>0, <1>3 DEF DC!Send, DC!Hands, DC!Act, DC!life, DC!inbound
  <2>2. /\ o.kind = "progress" => o.size = 1 /\ o.file = FALSE /\ o.to = {}
        /\ o.kind \in {"progress", "answer"} /\ o.size \in Nat /\ o.to \in SUBSET Messages /\ o.to \in {{}, Open}
        /\ o.kind = "answer" /\ o.size = 0 => o.file
    BY <1>0, OrdersAre
  <2>3. \/ \E rung \in {"post", "edit", "file", "editanswer"} :
             /\ Begins(o, rung) /\ tracked' \in {tracked, 0}
             /\ rung = "edit" => o.kind = "progress" /\ tracked # 0
             /\ rung = "file" => o.kind = "answer"
             /\ o.kind = "answer" /\ rung # "file" => tracked' = 0 /\ o.size # 0
             /\ rung = "editanswer" => o.kind = "answer" /\ tracked # 0
        \/ tracked' = tracked /\ sending' = sending
    <3>1. CASE o.kind = "progress"
      <4>1. tracked' = tracked /\ (Begins(o, IF tracked = 0 THEN "post" ELSE "edit") \/ sending' = sending)
        BY <1>3, <2>2, <3>1 DEF DC!Send
      <4> QED BY <3>1, <4>1
    <3>2. CASE o.kind = "answer" /\ o.file
      <4>1. tracked' = tracked /\ Begins(o, "file")
        BY <1>3, <3>2 DEF DC!Send
      <4> QED BY <3>2, <4>1
    <3>3. CASE o.kind = "answer" /\ ~o.file
      <4>1. Begins(o, DC!TextBegins(tracked, o.size)) /\ tracked' = 0
        BY <1>3, <3>3 DEF DC!Send, DC!Taken
      <4>2. o.size > 0
        BY <2>2, <3>3
      <4>3. Begins(o, IF tracked = 0 THEN "post" ELSE "editanswer")
        BY <4>1, <4>2 DEF DC!TextBegins
      <4> QED BY <3>3, <4>1, <4>2, <4>3
    <3> QED BY <2>2, <3>1, <3>2, <3>3
  <2>4. CASE tracked' = tracked /\ sending' = sending
    <3>1. answered' \in SUBSET Messages
      BY <1>0, <2>1 DEF OutTypes
    <3>2. Outbound'
      BY <2>1, <2>4, <3>1, NothingSent
    <3>3. sending'.to \in {{}, Open} /\ (sending'.kind # "answer" => sending'.to = {})
      BY <2>1, <2>4, IdleCall
    <3> QED BY <1>0, <2>1, <3>2, <3>3, DiscordSend
  <2>5. ASSUME NEW rung \in {"post", "edit", "file", "editanswer"}, Begins(o, rung), tracked' \in {tracked, 0},
               rung = "edit" => o.kind = "progress" /\ tracked # 0,
               rung = "file" => o.kind = "answer",
               o.kind = "answer" /\ rung # "file" => tracked' = 0 /\ o.size # 0,
               rung = "editanswer" => o.kind = "answer" /\ tracked # 0
        PROVE  Inbound' /\ Outbound'
    <3>1. /\ sending' \in Call /\ sending'.kind = o.kind /\ sending'.n = handed + 1
          /\ sending'.size = o.size /\ sending'.to = o.to /\ sending'.rung = rung
          /\ sending'.post = tracked /\ sending'.shown = 0
      BY <1>0, <2>2, <2>5, Begun DEF Rungs
    <3>2. Inbound'
      BY <1>0, <2>1, <2>2, <3>1, DiscordSend
    <3>3. OutTypes' /\ Numbered' /\ Stands' /\ Streams'
      BY <1>1, <2>1, <2>2, <2>5, <3>1, SendBegins
    <3>4. AtCall'
      BY <1>2, <2>1, <2>2, <2>5, <3>1 DEF AtCall
    <3> QED BY <3>2, <3>3, <3>4 DEF Outbound
  <2> QED BY <2>3, <2>4, <2>5
<1>4. ASSUME NEW o \in Orders({0, 2}, BOOLEAN), ~DC!Client, DC!NotSent(o)
      PROVE  Inbound' /\ Outbound'
  <2>1. /\ sending = Idle /\ handed' = handed + 1 /\ acts' \in Nat /\ answered' = answered \cup o.to
        /\ UNCHANGED <<adapter, phase, link, at, seen, timer, typing, route>>
        /\ UNCHANGED <<sending, posts, tracked, sent, swallowed>>
    BY <1>0, <1>4 DEF DC!NotSent, DC!Hands, DC!Act, DC!life, DC!inbound
  <2>2. o.to \in {{}, Open} /\ o.to \in SUBSET Messages
    BY <1>0, OrdersAre
  <2>3. ~typing
    BY <1>4 DEF DC!Client, Inbound, InTypes, Honest, DiscordTypes
  <2>4. Inbound'
    BY <1>0, <2>1, <2>2, <2>3, DiscordSend
  <2>5. answered' \in SUBSET Messages
    BY <1>0, <2>1, <2>2 DEF OutTypes
  <2>6. Outbound'
    BY <2>1, <2>5, NothingSent
  <2> QED BY <2>4, <2>6
<1>5. sending # Idle => sending.kind \in {"progress", "answer"}
  BY <1>0 DEF Outbound, Numbered, Call
<1>6. ASSUME DC!TriesAgain PROVE Inbound' /\ Outbound'
  <2>1. /\ sending # Idle /\ acts' \in Nat /\ Tries
        /\ UNCHANGED <<adapter, phase, link, at, seen, timer, route, handed>>
        /\ UNCHANGED <<typing, posts, tracked, sent, swallowed, answered>>
    BY <1>0, <1>6 DEF DC!TriesAgain, DC!Act, DC!Aside, DC!life, DC!inbound
  <2>2. /\ sending' \in Call /\ sending'.kind = sending.kind /\ sending'.n = sending.n
        /\ sending'.size = sending.size /\ sending'.to = sending.to /\ sending'.rung = sending.rung
        /\ sending'.post = sending.post /\ sending'.shown = sending.shown
    BY <1>0, <2>1, Tried
  <2>3. Inbound'
    BY <1>0, <2>1, <2>2, DiscordCall
  <2>4. OutTypes' /\ Numbered' /\ Stands' /\ Streams'
    <3>1. swallowed \subseteq swallowed' /\ swallowed' \in SUBSET Nat
      BY <1>0, <2>1
    <3> QED BY <1>1, <2>1, <2>2, <3>1, CallMoves
  <2>5. AtCall'
    BY <2>1, <2>2 DEF Outbound, AtCall
  <2> QED BY <2>3, <2>4, <2>5 DEF Outbound
<1>7. ASSUME DC!FileDone PROVE Inbound' /\ Outbound'
  <2>1. /\ sending.rung = "file" /\ acts' \in Nat
        /\ UNCHANGED <<adapter, phase, link, at, seen, timer, route, handed, posts, swallowed>>
    BY <1>0, <1>7 DEF DC!FileDone, DC!Aside, DC!life, DC!inbound
  <2>2. tracked' = 0
    BY <1>7 DEF DC!FileDone, DC!Taken
  <2>3. /\ sending # Idle /\ sending.kind = "answer" /\ sending.shown = 0 /\ sending.size \in Nat
    BY <1>0, <2>1, IdleCall DEF Rungs, Outbound, AtCall, Call
  <2>4. PICK size \in {sending.size} \cup (IF sending.size = 0 THEN {1} ELSE {}) :
           IF tracked = 0 /\ size = 0
              THEN Returns /\ DC!TypingStops
              ELSE /\ sending' = [sending EXCEPT !.size = size, !.post = tracked, !.tries = 0,
                                                 !.rung = DC!TextBegins(tracked, size)]
                   /\ UNCHANGED <<sent, answered, typing>>
    BY <1>7, Zenon DEF DC!FileDone
  <2>5. PostsGrow /\ swallowed \subseteq swallowed' /\ swallowed' \in SUBSET Nat
    BY <1>0, <2>1 DEF PostsGrow
  <2>6. CASE tracked = 0 /\ size = 0
    <3>1. Returns /\ typing' = (typing /\ sending.kind = "progress") /\ sending.size = 0
      BY <2>4, <2>6 DEF DC!TypingStops
    <3>2. /\ sending' = Idle /\ answered' = answered \cup sending.to /\ answered' \in SUBSET Messages
          /\ \/ sent' = sent
             \/ sent' = sent \cup {<<sending.n, sending.size>>}
      BY <1>0, <3>1, Ended
    <3>3. Inbound'
      BY <1>0, <2>1, <3>1, <3>2, DiscordCall
    <3>4. \A c \in 1 .. sending.size : Standing(posts', sending.n, c)
      BY <3>1
    <3>5. Outbound'
      BY <2>1, <2>2, <2>3, <2>5, <3>2, <3>4, SendEnds
    <3> QED BY <3>3, <3>5
  <2>7. CASE ~(tracked = 0 /\ size = 0)
    <3>1. PICK rung \in {"post", "editanswer", "delete"} :
             /\ rung = DC!TextBegins(tracked, size)
             /\ rung = "post" => size > 0
             /\ rung = "editanswer" => size > 0 /\ tracked # 0
             /\ rung = "delete" => size = 0 /\ tracked # 0
      BY <2>3, <2>4, <2>7 DEF DC!TextBegins
    <3>2. /\ sending' = [sending EXCEPT !.size = size, !.post = tracked, !.tries = 0, !.rung = rung]
          /\ UNCHANGED <<sent, answered, typing>>
      BY <2>4, <2>7, <3>1
    <3>3. /\ sending' \in Call /\ sending'.kind = sending.kind /\ sending'.n = sending.n
          /\ sending'.size = size /\ sending'.rung = rung /\ sending'.post = tracked /\ sending'.shown = sending.shown
      <4>1. size \in Nat /\ rung \in Rungs
        BY <2>3, <2>4 DEF Rungs
      <4>2. sending' \in Call
        BY <1>0, <3>2, <4>1 DEF Call
      <4>3. sending'.kind = sending.kind /\ sending'.n = sending.n /\ sending'.size = size
        BY <1>0, <3>2 DEF Call
      <4>4. sending'.rung = rung /\ sending'.post = tracked /\ sending'.shown = sending.shown
        BY <1>0, <3>2 DEF Call
      <4> QED BY <4>2, <4>3, <4>4
    <3>4. sending'.to = sending.to
      BY <1>0, <3>2 DEF Call
    <3>5. Inbound'
      BY <1>0, <2>1, <3>2, <3>3, <3>4, DiscordCall
    <3>6. sending'.kind = "answer" => sending'.shown < sending'.size \/ sending'.size = 0
      BY <2>3, <2>4, <3>3
    <3>7. \A c \in 1 .. sending'.shown : Standing(posts', sending'.n, c)
      BY <2>3, <3>3
    <3>8. OutTypes' /\ Numbered' /\ Stands' /\ Streams'
      BY <1>1, <2>1, <2>2, <2>3, <2>5, <3>2, <3>3, <3>6, <3>7, SendGoesOn
    <3>9. AtCall'
      BY <1>2, <2>1, <2>2, <2>3, <2>4, <3>1, <3>3 DEF AtCall
    <3> QED BY <3>5, <3>8, <3>9 DEF Outbound
  <2> QED BY <2>6, <2>7
<1>8. ASSUME sending # Idle, acts' \in Nat, UNCHANGED <<adapter, phase, link, at, seen, timer, route, handed>>,
             Returns, typing' = (typing /\ sending.kind = "progress")
      PROVE  /\ Inbound' /\ sending' = Idle /\ answered' \in SUBSET Messages
             /\ \/ sent' = sent
                \/ sending.kind = "answer" /\ sent' = sent \cup {<<sending.n, sending.size>>}
             /\ sending.kind # "answer" => sent' = sent
  <2>1. /\ sending' = Idle /\ answered' = answered \cup sending.to /\ answered' \in SUBSET Messages
        /\ \/ sent' = sent
           \/ sending.kind = "answer" /\ sent' = sent \cup {<<sending.n, sending.size>>}
        /\ sending.kind # "answer" => sent' = sent
    BY <1>0, <1>8, Ended
  <2> QED BY <1>0, <1>8, <2>1, DiscordCall
<1>9. ASSUME DC!Fails PROVE Inbound' /\ Outbound'
  <2>1. /\ sending # Idle /\ acts' \in Nat
        /\ UNCHANGED <<adapter, phase, link, at, seen, timer, route, handed, posts, tracked>>
    BY <1>0, <1>9 DEF DC!Fails, DC!Act, DC!Aside, DC!life, DC!inbound
  <2>2. \/ sending.rung = "editanswer" /\ GoesOn("post") /\ UNCHANGED <<sent, swallowed, answered, typing>>
        \/ sending.rung = "post" /\ Returns /\ swallowed' = swallowed \cup {sending.n} /\ DC!TypingStops
        \/ sending.rung \in {"edit", "delete"} /\ Returns /\ DC!TypingStops /\ UNCHANGED swallowed
    BY <1>9 DEF DC!Fails
  <2>3. PostsGrow
    BY <2>1 DEF PostsGrow
  <2>4. CASE sending.rung = "editanswer" /\ GoesOn("post") /\ UNCHANGED <<sent, swallowed, answered, typing>>
    <3>1. /\ sending' \in Call /\ sending'.kind = sending.kind /\ sending'.n = sending.n
          /\ sending'.size = sending.size /\ sending'.to = sending.to /\ sending'.rung = "post"
          /\ sending'.post = sending.post /\ sending'.shown = sending.shown
      BY <1>0, <2>4, GoneOn DEF Rungs
    <3>2. swallowed \subseteq swallowed' /\ swallowed' \in SUBSET Nat
      BY <1>0, <2>4
    <3>3. Inbound'
      BY <1>0, <2>1, <2>4, <3>1, DiscordCall
    <3>4. OutTypes' /\ Numbered' /\ Stands' /\ Streams'
      BY <1>1, <2>1, <2>4, <3>1, <3>2, CallMoves
    <3>5. sending.size \in Nat /\ sending.shown = 0 /\ sending.size # 0 /\ tracked = 0 /\ sending.kind = "answer"
      BY <1>0, <2>4 DEF Outbound, AtCall, Call
    <3>6. AtCall'
      BY <2>1, <3>1, <3>5 DEF AtCall
    <3> QED BY <3>3, <3>4, <3>6 DEF Outbound
  <2>5. CASE sending.rung = "post" /\ Returns /\ swallowed' = swallowed \cup {sending.n} /\ DC!TypingStops
    <3>1. /\ Inbound' /\ sending' = Idle /\ answered' \in SUBSET Messages
          /\ \/ sent' = sent
             \/ sending.kind = "answer" /\ sent' = sent \cup {<<sending.n, sending.size>>}
          /\ sending.kind # "answer" => sent' = sent
      BY <1>8, <2>1, <2>5 DEF DC!TypingStops
    <3>2. swallowed \subseteq swallowed' /\ swallowed' \in SUBSET Nat /\ sending.n \in swallowed'
      BY <1>0, <2>5 DEF Call
    <3>3. sending.kind = "answer" => tracked' = 0
      BY <2>1, <2>5 DEF Outbound, AtCall
    <3>4. Outbound'
      BY <2>1, <2>3, <3>1, <3>2, <3>3, SendEnds
    <3> QED BY <3>1, <3>4
  <2>6. CASE sending.rung \in {"edit", "delete"} /\ Returns /\ DC!TypingStops /\ UNCHANGED swallowed
    <3>1. /\ Inbound' /\ sending' = Idle /\ answered' \in SUBSET Messages
          /\ \/ sent' = sent
             \/ sending.kind = "answer" /\ sent' = sent \cup {<<sending.n, sending.size>>}
          /\ sending.kind # "answer" => sent' = sent
      BY <1>8, <2>1, <2>6 DEF DC!TypingStops
    <3>2. swallowed \subseteq swallowed' /\ swallowed' \in SUBSET Nat
      BY <1>0, <2>6
    <3>3. sending.kind = "answer" => tracked' = 0 /\ sending.size = 0
      BY <2>1, <2>6 DEF Outbound, AtCall
    <3>4. sending.kind = "answer" => \A c \in 1 .. sending.size : Standing(posts', sending.n, c)
      BY <3>3
    <3>5. Outbound'
      BY <2>1, <2>3, <3>1, <3>2, <3>3, <3>4, SendEnds
    <3> QED BY <3>1, <3>5
  <2> QED BY <2>2, <2>4, <2>5, <2>6
<1>10. ASSUME DC!Succeeds PROVE Inbound' /\ Outbound'
  <2>1. /\ sending # Idle /\ acts' \in Nat /\ swallowed' = swallowed
        /\ typing' = (typing /\ (sending.kind = "progress" \/ sending' # Idle))
        /\ UNCHANGED <<adapter, phase, link, at, seen, timer, route, handed>>
    BY <1>0, <1>10 DEF DC!Succeeds, DC!Aside, DC!life, DC!inbound
  <2>2. \/ sending.rung \in {"edit", "delete"} /\ Edits(sending.post, 0) /\ Returns /\ tracked' = tracked
        \/ sending.kind = "progress" /\ Posts(0) /\ tracked' = Len(posts') /\ Returns
        \/ /\ sending.kind = "answer" /\ NextPiece("post") /\ tracked' = tracked
           /\ \/ sending.rung = "post" /\ Posts(sending.shown + 1)
              \/ sending.rung = "editanswer" /\ Edits(sending.post, 1)
    BY <1>10 DEF DC!Succeeds
  <2>3. swallowed \subseteq swallowed' /\ swallowed' \in SUBSET Nat
    BY <1>0, <2>1
  <2>4. ASSUME Returns
        PROVE  /\ Inbound' /\ sending' = Idle /\ answered' \in SUBSET Messages
               /\ \/ sent' = sent
                  \/ sending.kind = "answer" /\ sent' = sent \cup {<<sending.n, sending.size>>}
               /\ sending.kind # "answer" => sent' = sent
    <3>1. sending' = Idle
      BY <2>4 DEF Returns
    <3>2. typing' = (typing /\ sending.kind = "progress")
      BY <2>1, <3>1
    <3> QED BY <1>8, <2>1, <2>4, <3>2
  <2>5. CASE sending.rung \in {"edit", "delete"} /\ Edits(sending.post, 0) /\ Returns /\ tracked' = tracked
    <3>1. sending.post \in DOMAIN posts /\ posts[sending.post].chunk = 0
      BY <2>5 DEF Outbound, AtCall
    <3>2. PostsGrow /\ posts' = [posts EXCEPT ![sending.post] = [of |-> sending.n, chunk |-> 0]]
      BY <1>0, <2>5, <3>1, Edited
    <3>3. sending.kind = "answer" => tracked' = 0 /\ sending.size = 0
      BY <2>5 DEF Outbound, AtCall
    <3>4. sending.kind = "answer" => \A c \in 1 .. sending.size : Standing(posts', sending.n, c)
      BY <3>3
    <3>5. Outbound'
      BY <2>1, <2>3, <2>4, <2>5, <3>1, <3>2, <3>3, <3>4, SendEnds
    <3> QED BY <2>4, <2>5, <3>5
  <2>6. CASE sending.kind = "progress" /\ Posts(0) /\ tracked' = Len(posts') /\ Returns
    <3>1. PostsGrow /\ posts' = Append(posts, [of |-> sending.n, chunk |-> 0])
      BY <1>0, <2>6, Posted
    <3>2. Outbound'
      BY <2>1, <2>3, <2>4, <2>6, <3>1, SendEnds
    <3> QED BY <2>4, <2>6, <3>2
  <2>7. CASE /\ sending.kind = "answer" /\ NextPiece("post") /\ tracked' = tracked
             /\ \/ sending.rung = "post" /\ Posts(sending.shown + 1)
                \/ sending.rung = "editanswer" /\ Edits(sending.post, 1)
    <3>1. /\ tracked' = 0 /\ sending.shown \in Nat /\ sending.size \in Nat /\ sending.shown < sending.size
          /\ sending.shown + 1 \in Nat
          /\ sending.rung = "editanswer" => sending.shown + 1 = 1
      BY <1>0, <2>7 DEF Outbound, AtCall, Call
    <3>2. PostsGrow /\ Standing(posts', sending.n, sending.shown + 1)
      <4>1. CASE sending.rung = "post" /\ Posts(sending.shown + 1)
        BY <1>0, <3>1, <4>1, Posted
      <4>2. CASE sending.rung = "editanswer" /\ Edits(sending.post, 1)
        <5>1. sending.post \in DOMAIN posts /\ posts[sending.post].chunk = 0
          BY <4>2 DEF Outbound, AtCall
        <5> QED BY <1>0, <3>1, <4>2, <5>1, Edited
      <4> QED BY <2>7, <4>1, <4>2
    <3>3. sending.n \notin swallowed' => \A c \in 1 .. sending.shown + 1 : Standing(posts', sending.n, c)
      BY <1>1, <2>3, <2>7, <3>2, ShownBefore
    <3>4. CASE Returns /\ sending.shown + 1 = sending.size
      <4>1. Outbound'
        BY <2>1, <2>3, <2>4, <3>1, <3>2, <3>3, <3>4, SendEnds
      <4> QED BY <2>4, <3>4, <4>1
    <3>5. CASE /\ sending' \in Call /\ sending'.kind = sending.kind /\ sending'.n = sending.n
               /\ sending'.size = sending.size /\ sending'.to = sending.to /\ sending'.rung = "post"
               /\ sending'.post = sending.post /\ sending'.shown = sending.shown + 1
               /\ sending'.shown < sending'.size
               /\ sent' = sent /\ answered' = answered
      <4>1. typing' = typing
        <5>1. sending' # Idle
          BY <3>5, IdleCall DEF Rungs
        <5>2. typing \in BOOLEAN
          BY DEF Inbound, InTypes
        <5> QED BY <2>1, <5>1, <5>2
      <4>2. Inbound'
        BY <1>0, <2>1, <3>5, <4>1, DiscordCall
      <4>3. sending'.kind = "answer" /\ sending'.n \notin swallowed' =>
              \A c \in 1 .. sending'.shown : Standing(posts', sending'.n, c)
        BY <3>3, <3>5
      <4>4. OutTypes' /\ Numbered' /\ Stands' /\ Streams'
        BY <1>1, <2>1, <2>3, <2>7, <3>1, <3>2, <3>5, <4>3, SendGoesOn
      <4>5. AtCall'
        BY <2>1, <2>7, <3>1, <3>5 DEF AtCall
      <4> QED BY <4>2, <4>4, <4>5 DEF Outbound
    <3> QED BY <1>0, <2>7, <3>1, <3>4, <3>5, PieceShown DEF Rungs
  <2> QED BY <2>2, <2>5, <2>6, <2>7
<1> QED BY <1>3, <1>4, <1>6, <1>7, <1>9, <1>10

\* Every step of Discord keeps the invariant.
LEMMA DiscordStep ==
  ASSUME Inbound, Outbound, adapter = "discord", DC!Next
  PROVE  Inbound' /\ Outbound'
<1> USE DEF Inbound, InTypes, Once, Honest, Deliveries, Where, Names, OneByOne, Cached
<1>1. ASSUME DC!Start PROVE Inbound' /\ Outbound'
  <2>1. UNCHANGED <<adapter, outbound>>
    BY <1>1 DEF DC!Start, DC!Enters, DC!life, DC!inbound, DC!outbound, outbound
  <2>2. InTypes'
    BY <1>1, <2>1 DEF DC!Start, DC!Enters, DC!life, DC!inbound
  <2>3. Once'
    BY <1>1, <2>1 DEF DC!Start, DC!Enters, DC!life, DC!inbound, Once
  <2>4. \A d \in Deliveries : at[d] = "done" => at'[d] = "done"
    BY <1>1 DEF DC!Start, DC!Enters, DC!life, DC!inbound
  <2>5. Served'
    BY <2>1, <2>4, DoneStays DEF Outbound, outbound
  <2>6. Honest'
    BY <1>1, <2>1 DEF DC!Start, DC!Enters, DC!life, DC!inbound, outbound, Served,
           DiscordTypes, Waits, Inside
  <2> QED BY <2>1, <2>2, <2>3, <2>5, <2>6, OutboundRests
<1>2. ASSUME DC!Connects PROVE Inbound' /\ Outbound'
  <2>1. UNCHANGED <<adapter, outbound>>
    BY <1>2 DEF DC!Connects, DC!Places, DC!Deliveries, DC!life, DC!inbound, DC!outbound,
           outbound
  <2>8. at' \in [Deliveries -> Where]
    BY <1>2 DEF DC!Connects, DC!Places, DC!Deliveries, DC!life, DC!inbound
  <2>20. adapter' \in Names
    BY <1>2 DEF DC!Connects, DC!Deliveries, DC!life, DC!inbound
  <2>21. phase' \in {"new", "starting", "up", "left", "stopping", "down"}
    BY <1>2 DEF DC!Connects, DC!Deliveries, DC!life, DC!inbound
  <2>22. seen' \in SUBSET Messages
    BY <1>2 DEF DC!Connects, DC!Deliveries, DC!life, DC!inbound
  <2>23. acts' \in Nat
    BY <1>2 DEF DC!Connects, DC!Deliveries, DC!life, DC!inbound
  <2>24. link' \in BOOLEAN
    BY <1>2 DEF DC!Connects, DC!Deliveries, DC!life, DC!inbound
  <2>25. timer' \in BOOLEAN
    BY <1>2 DEF DC!Connects, DC!Deliveries, DC!life, DC!inbound
  <2>26. typing' \in BOOLEAN
    BY <1>2 DEF DC!Connects, DC!Deliveries, DC!life, DC!inbound
  <2>27. route' \in BOOLEAN
    BY <1>2 DEF DC!Connects, DC!Deliveries, DC!life, DC!inbound
  <2>2. InTypes'
    BY <2>8, <2>20, <2>21, <2>22, <2>23, <2>24, <2>25, <2>26, <2>27, Zenon
  <2>3. Once'
    BY <1>2, <2>8, <2>20, <2>21, <2>22, <2>23, <2>24, <2>25, <2>26, <2>27, <2>1 DEF
           DC!Connects, DC!Places, DC!Deliveries, DC!life, DC!inbound, Once
  <2>4. \A d \in Deliveries : at[d] = "done" => at'[d] = "done"
    BY <1>2 DEF DC!Connects, DC!Places, DC!Deliveries, DC!life, DC!inbound
  <2>5. Served'
    BY <2>1, <2>4, DoneStays DEF Outbound, outbound
  <2>6. Honest'
    BY <1>2, <2>1 DEF DC!Connects, DC!Places, DC!Deliveries, DC!life, DC!inbound,
           outbound, Served, DiscordTypes, Waits, Inside
  <2> QED BY <2>1, <2>2, <2>3, <2>5, <2>6, OutboundRests
<1>3. ASSUME DC!Breaks PROVE Inbound' /\ Outbound'
  <2>1. UNCHANGED <<adapter, outbound>>
    BY <1>3 DEF DC!Breaks, DC!Act, DC!life, DC!inbound, DC!outbound, outbound
  <2>8. at' \in [Deliveries -> Where]
    BY <1>3 DEF DC!Breaks, DC!Act, DC!life, DC!inbound
  <2>20. adapter' \in Names
    BY <1>3 DEF DC!Breaks, DC!Act, DC!life, DC!inbound
  <2>21. phase' \in {"new", "starting", "up", "left", "stopping", "down"}
    BY <1>3 DEF DC!Breaks, DC!Act, DC!life, DC!inbound
  <2>22. seen' \in SUBSET Messages
    BY <1>3 DEF DC!Breaks, DC!Act, DC!life, DC!inbound
  <2>23. acts' \in Nat
    BY <1>3 DEF DC!Breaks, DC!Act, DC!life, DC!inbound
  <2>24. link' \in BOOLEAN
    BY <1>3 DEF DC!Breaks, DC!Act, DC!life, DC!inbound
  <2>25. timer' \in BOOLEAN
    BY <1>3 DEF DC!Breaks, DC!Act, DC!life, DC!inbound
  <2>26. typing' \in BOOLEAN
    BY <1>3 DEF DC!Breaks, DC!Act, DC!life, DC!inbound
  <2>27. route' \in BOOLEAN
    BY <1>3 DEF DC!Breaks, DC!Act, DC!life, DC!inbound
  <2>2. InTypes'
    BY <2>8, <2>20, <2>21, <2>22, <2>23, <2>24, <2>25, <2>26, <2>27, Zenon
  <2>3. Once'
    BY <1>3, <2>8, <2>20, <2>21, <2>22, <2>23, <2>24, <2>25, <2>26, <2>27, <2>1 DEF
           DC!Breaks, DC!Act, DC!life, DC!inbound, Once
  <2>4. \A d \in Deliveries : at[d] = "done" => at'[d] = "done"
    BY <1>3 DEF DC!Breaks, DC!Act, DC!life, DC!inbound
  <2>5. Served'
    BY <2>1, <2>4, DoneStays DEF Outbound, outbound
  <2>6. Honest'
    BY <1>3, <2>1 DEF DC!Breaks, DC!Act, DC!life, DC!inbound, outbound, Served,
           DiscordTypes, Waits, Inside
  <2> QED BY <2>1, <2>2, <2>3, <2>5, <2>6, OutboundRests
<1>4. ASSUME DC!StartCancelled PROVE Inbound' /\ Outbound'
  <2>1. UNCHANGED <<adapter, outbound>>
    BY <1>4 DEF DC!StartCancelled, DC!Act, DC!Places, DC!Deliveries, DC!life,
           DC!inbound, DC!outbound, outbound
  <2>8. at' \in [Deliveries -> Where]
    BY <1>4 DEF DC!StartCancelled, DC!Act, DC!Places, DC!Deliveries, DC!life, DC!inbound
  <2>20. adapter' \in Names
    BY <1>4 DEF DC!StartCancelled, DC!Act, DC!Deliveries, DC!life, DC!inbound
  <2>21. phase' \in {"new", "starting", "up", "left", "stopping", "down"}
    BY <1>4 DEF DC!StartCancelled, DC!Act, DC!Deliveries, DC!life, DC!inbound
  <2>22. seen' \in SUBSET Messages
    BY <1>4 DEF DC!StartCancelled, DC!Act, DC!Deliveries, DC!life, DC!inbound
  <2>23. acts' \in Nat
    BY <1>4 DEF DC!StartCancelled, DC!Act, DC!Deliveries, DC!life, DC!inbound
  <2>24. link' \in BOOLEAN
    BY <1>4 DEF DC!StartCancelled, DC!Act, DC!Deliveries, DC!life, DC!inbound
  <2>25. timer' \in BOOLEAN
    BY <1>4 DEF DC!StartCancelled, DC!Act, DC!Deliveries, DC!life, DC!inbound
  <2>26. typing' \in BOOLEAN
    BY <1>4 DEF DC!StartCancelled, DC!Act, DC!Deliveries, DC!life, DC!inbound
  <2>27. route' \in BOOLEAN
    BY <1>4 DEF DC!StartCancelled, DC!Act, DC!Deliveries, DC!life, DC!inbound
  <2>2. InTypes'
    BY <2>8, <2>20, <2>21, <2>22, <2>23, <2>24, <2>25, <2>26, <2>27, Zenon
  <2>3. Once'
    BY <1>4, <2>8, <2>20, <2>21, <2>22, <2>23, <2>24, <2>25, <2>26, <2>27, <2>1 DEF
           DC!StartCancelled, DC!Act, DC!Places, DC!Deliveries, DC!life, DC!inbound,
           Once
  <2>4. \A d \in Deliveries : at[d] = "done" => at'[d] = "done"
    BY <1>4 DEF DC!StartCancelled, DC!Act, DC!Places, DC!Deliveries, DC!life, DC!inbound
  <2>5. Served'
    BY <2>1, <2>4, DoneStays DEF Outbound, outbound
  <2>6. Honest'
    BY <1>4, <2>1 DEF DC!StartCancelled, DC!Act, DC!Places, DC!Deliveries, DC!life,
           DC!inbound, outbound, Served, DiscordTypes, Waits, Inside
  <2> QED BY <2>1, <2>2, <2>3, <2>5, <2>6, OutboundRests
<1>5. ASSUME DC!Stop PROVE Inbound' /\ Outbound'
  <2>1. /\ phase = "left" /\ phase' = "stopping" /\ typing' = FALSE /\ tracked' = 0
        /\ UNCHANGED <<adapter, link, at, seen, timer, route, sending, posts, sent, swallowed, answered, handed, acts>>
    BY <1>5 DEF DC!Stop, DC!inbound
  <2>2. InTypes'
    BY <2>1
  <2>3. Once'
    BY <2>1
  <2>4. Served'
    BY <2>1 DEF Served
  <2>5. Honest'
    BY <2>1 DEF DiscordTypes
  <2>6. OutTypes' /\ Numbered' /\ Streams'
    BY <2>1 DEF Outbound, OutTypes, Numbered, Streams
  <2>7. Stands'
    BY <2>1, StandsAside DEF Outbound
  <2>8. AtCall'
    BY <2>1 DEF Outbound, AtCall
  <2> QED BY <2>2, <2>3, <2>4, <2>5, <2>6, <2>7, <2>8 DEF Outbound
<1>6. ASSUME DC!Stopped PROVE Inbound' /\ Outbound'
  <2>1. UNCHANGED <<adapter, outbound>>
    BY <1>6 DEF DC!Stopped, DC!Enters, DC!life, DC!inbound, DC!outbound, outbound
  <2>2. InTypes'
    BY <1>6, <2>1 DEF DC!Stopped, DC!Enters, DC!life, DC!inbound
  <2>3. Once'
    BY <1>6, <2>1 DEF DC!Stopped, DC!Enters, DC!life, DC!inbound, Once
  <2>4. \A d \in Deliveries : at[d] = "done" => at'[d] = "done"
    BY <1>6 DEF DC!Stopped, DC!Enters, DC!life, DC!inbound
  <2>5. Served'
    BY <2>1, <2>4, DoneStays DEF Outbound, outbound
  <2>6. Honest'
    BY <1>6, <2>1 DEF DC!Stopped, DC!Enters, DC!life, DC!inbound, outbound, Served,
           DiscordTypes, Waits, Inside
  <2> QED BY <2>1, <2>2, <2>3, <2>5, <2>6, OutboundRests
<1>7. ASSUME NEW m \in Messages, DC!Said(m, IF link THEN "due" ELSE "lost") PROVE Inbound' /\ Outbound'
  <2>1. UNCHANGED <<adapter, outbound>>
    BY <1>7 DEF DC!Said, DC!Act, DC!Moves, DC!life, DC!inbound, DC!outbound, outbound
  <2>2. InTypes'
    BY <1>7, <2>1 DEF DC!Said, DC!Act, DC!Moves, DC!life, DC!inbound
  <2>3. Once'
    BY <1>7, <2>1 DEF DC!Said, DC!Act, DC!Moves, DC!life, DC!inbound, Once
  <2>4. \A d \in Deliveries : at[d] = "done" => at'[d] = "done"
    BY <1>7 DEF DC!Said, DC!Act, DC!Moves, DC!life, DC!inbound
  <2>5. Served'
    BY <2>1, <2>4, DoneStays DEF Outbound, outbound
  <2>6. Honest'
    BY <1>7, <2>1 DEF DC!Said, DC!Act, DC!Moves, DC!life, DC!inbound, outbound, Served,
           DiscordTypes, Waits, Inside
  <2> QED BY <2>1, <2>2, <2>3, <2>5, <2>6, OutboundRests
<1>8. ASSUME NEW e \in Deliveries, DC!Deliver(e) PROVE Inbound' /\ Outbound'
  <2>1. UNCHANGED <<adapter, outbound>>
    BY <1>8 DEF DC!Deliver, DC!Moves, DC!Deliveries, DC!life, DC!inbound, DC!outbound,
           outbound
  <2>2. InTypes'
    BY <1>8, <2>1 DEF DC!Deliver, DC!Moves, DC!Deliveries, DC!life, DC!inbound
  <2>3. Once'
    BY <1>8, <2>1 DEF DC!Deliver, DC!Moves, DC!Deliveries, DC!life, DC!inbound, Once
  <2>4. \A d \in Deliveries : at[d] = "done" => at'[d] = "done"
    BY <1>8 DEF DC!Deliver, DC!Moves, DC!Deliveries, DC!life, DC!inbound
  <2>5. Served'
    BY <2>1, <2>4, DoneStays DEF Outbound, outbound
  <2>6. Honest'
    BY <1>8, <2>1 DEF DC!Deliver, DC!Moves, DC!Deliveries, DC!life, DC!inbound,
           outbound, Served, DiscordTypes, Waits, Inside
  <2> QED BY <2>1, <2>2, <2>3, <2>5, <2>6, OutboundRests
<1>9. ASSUME NEW e \in Deliveries, DC!Downloaded(e) PROVE Inbound' /\ Outbound'
  <2>1. UNCHANGED <<adapter, outbound>>
    BY <1>9 DEF DC!Downloaded, DC!Moves, DC!Deliveries, DC!life, DC!inbound,
           DC!outbound, outbound
  <2>2. InTypes'
    BY <1>9, <2>1 DEF DC!Downloaded, DC!Moves, DC!Deliveries, DC!life, DC!inbound
  <2>3. Once'
    BY <1>9, <2>1 DEF DC!Downloaded, DC!Moves, DC!Deliveries, DC!life, DC!inbound, Once
  <2>4. \A d \in Deliveries : at[d] = "done" => at'[d] = "done"
    BY <1>9 DEF DC!Downloaded, DC!Moves, DC!Deliveries, DC!life, DC!inbound
  <2>5. Served'
    BY <2>1, <2>4, DoneStays DEF Outbound, outbound
  <2>6. Honest'
    BY <1>9, <2>1 DEF DC!Downloaded, DC!Moves, DC!Deliveries, DC!life, DC!inbound,
           outbound, Served, DiscordTypes, Waits, Inside
  <2> QED BY <2>1, <2>2, <2>3, <2>5, <2>6, OutboundRests
<1>10. ASSUME DC!TypingFails PROVE Inbound' /\ Outbound'
  <2>1. UNCHANGED <<adapter, outbound>>
    BY <1>10 DEF DC!TypingFails, DC!Act, DC!life, DC!inbound, DC!outbound, outbound
  <2>10. typing' \in BOOLEAN
    BY <1>10, Zenon DEF DC!TypingFails, DC!Act, DC!life, DC!inbound
  <2>2. InTypes'
    BY <1>10, <2>10, <2>1 DEF DC!TypingFails, DC!Act, DC!life, DC!inbound
  <2>3. Once'
    BY <1>10, <2>10, <2>1 DEF DC!TypingFails, DC!Act, DC!life, DC!inbound, Once
  <2>4. \A d \in Deliveries : at[d] = "done" => at'[d] = "done"
    BY <1>10 DEF DC!TypingFails, DC!Act, DC!life, DC!inbound
  <2>5. Served'
    BY <2>1, <2>4, DoneStays DEF Outbound, outbound
  <2>6. Honest'
    BY <1>10, <2>1 DEF DC!TypingFails, DC!Act, DC!life, DC!inbound, outbound, Served,
           DiscordTypes, Waits, Inside
  <2> QED BY <2>1, <2>2, <2>3, <2>5, <2>6, OutboundRests
<1> QED
  BY <1>1, <1>2, <1>3, <1>4, <1>5, <1>6, <1>7, <1>8, <1>9, <1>10,
     DiscordSends DEF DC!Next, DC!Handlers, DC!Deliveries

-----------------------------------------------------------------------------
(* Matrix.                                                                 *)

\* The platform's module names the operators that all share.
LEMMA SameMatrix ==
  /\ MX!Idle = Idle
  /\ \A s, f : MX!Orders(s, f) = Orders(s, f)
  /\ \A o, r : MX!Begins(o, r) <=> Begins(o, r)
  /\ \A r : MX!GoesOn(r) <=> GoesOn(r)
  /\ \A c : MX!Posts(c) <=> Posts(c)
  /\ MX!Returns <=> Returns
  /\ MX!Raises <=> Raises
  /\ \A r : MX!Awaits(r) <=> sending.rung = r
<1>1. MX!Idle = Idle
  BY Zenon DEF MX!Idle, Idle
<1>2. \A s, f : MX!Orders(s, f) = Orders(s, f)
  BY Zenon DEF MX!Orders, Orders, MX!Open, Open
<1>3. \A o, r : MX!Begins(o, r) <=> Begins(o, r)
  BY <1>1, Zenon DEF MX!Begins, Begins
<1>4. \A r : MX!GoesOn(r) <=> GoesOn(r)
  BY Zenon DEF MX!GoesOn, GoesOn
<1>5. \A c : MX!Posts(c) <=> Posts(c)
  BY Zenon DEF MX!Posts, Posts, MX!Piece, Piece
<1>6. MX!Returns <=> Returns
  BY <1>1, Zenon DEF MX!Returns, Returns
<1>7. MX!Raises <=> Raises
  BY <1>1, Zenon DEF MX!Raises, Raises
<1>8. \A r : MX!Awaits(r) <=> sending.rung = r
  BY Zenon DEF MX!Awaits
<1> QED BY <1>1, <1>2, <1>3, <1>4, <1>5, <1>6, <1>7, <1>8

\* Matrix shows that somebody types until the clause that ends an answer: first
\* nothing renews the indicator any more, then it is cleared.
LEMMA MatrixCall ==
  ASSUME Inbound, OutTypes, adapter = "matrix", acts' \in Nat,
         UNCHANGED <<adapter, phase, link, at, seen, route>>,
         \/ /\ sending'.kind = sending.kind /\ sending'.to = sending.to /\ answered' = answered /\ typing' = typing
            /\ timer' = FALSE \/ (timer' = timer /\ sending'.rung \notin {"clear", "raise"})
         \/ /\ sending' = Idle /\ answered' = answered \cup sending.to /\ timer' = timer
            /\ \/ typing' = typing /\ sending.kind # "answer"
               \/ typing' = FALSE /\ sending.rung \in {"clear", "raise"}
  PROVE  Inbound'
<1>1. InTypes /\ Once /\ typing \in BOOLEAN /\ timer \in BOOLEAN /\ route \in BOOLEAN
  BY DEF Inbound, InTypes
<1>2. typing' \in BOOLEAN
  BY <1>1, Zenon
<1>3. timer' \in BOOLEAN
  BY <1>1, Zenon
<1>4. InTypes' /\ Once'
  BY <1>1, <1>2, <1>3, InboundAside
<1>5. Served'
  BY ServedOn
<1>6. Honest'
  <2>1. CASE /\ sending'.kind = sending.kind /\ sending'.to = sending.to /\ answered' = answered /\ typing' = typing
             /\ timer' = FALSE \/ (timer' = timer /\ sending'.rung \notin {"clear", "raise"})
    BY <2>1 DEF Inbound, Honest, MatrixTypes, Waits
  <2>2. CASE sending' = Idle /\ answered' = answered \cup sending.to /\ timer' = timer /\ typing' = typing /\ sending.kind # "answer"
    <3>1. answered' = answered /\ sending'.rung \notin {"clear", "raise"}
      BY <2>2, IdleCall DEF Inbound, Served, Rungs
    <3> QED BY <2>2, <3>1 DEF Inbound, Honest, MatrixTypes, Waits
  <2>3. CASE /\ sending' = Idle /\ answered' = answered \cup sending.to /\ timer' = timer
             /\ typing' = FALSE /\ sending.rung \in {"clear", "raise"}
    <3>1. sending'.rung \notin {"clear", "raise"}
      BY <2>3, IdleCall DEF Rungs
    <3>2. timer' => Waits({})'
      BY <2>3 DEF Inbound, Honest, MatrixTypes, Waits
    <3> QED BY <2>3, <3>1, <3>2 DEF Inbound, Honest, MatrixTypes
  <2> QED BY <2>1, <2>2, <2>3
<1> QED BY <1>4, <1>5, <1>6 DEF Inbound

\* Its send() begins, or there is no client.
LEMMA MatrixSend ==
  ASSUME Inbound, OutTypes, adapter = "matrix", acts' \in Nat,
         UNCHANGED <<adapter, phase, link, at, seen, timer, typing, route>>,
         \/ /\ sending'.to \in {{}, Open} /\ (sending'.kind # "answer" => sending'.to = {}) /\ answered' = answered
            /\ sending'.rung \notin {"clear", "raise"}
         \/ sending = Idle /\ sending' = sending /\ phase = "new" /\ \E to \in {{}, Open} : answered' = answered \cup to
  PROVE  Inbound'
<1>1. InTypes /\ Once /\ typing \in BOOLEAN /\ timer \in BOOLEAN /\ route \in BOOLEAN
  BY DEF Inbound, InTypes
<1>2. InTypes' /\ Once'
  BY <1>1, InboundAside
<1>3. Served'
  <2>1. CASE sending'.to \in {{}, Open} /\ (sending'.kind # "answer" => sending'.to = {}) /\ answered' = answered
    BY <2>1, ServedAtSend
  <2>2. CASE sending = Idle /\ sending' = sending /\ \E to \in {{}, Open} : answered' = answered \cup to
    <3>1. adapter \in OneByOne
      BY DEF OneByOne
    <3>2. \A m \in Open : at[<<m, 1>>] = "done"
      BY <3>1, OpenIsDone
    <3> QED BY <2>2, <3>1, <3>2 DEF Inbound, Served
  <2> QED BY <2>1, <2>2
<1>4. Honest'
  BY DEF Inbound, Honest, MatrixTypes, Waits
<1> QED BY <1>2, <1>3, <1>4 DEF Inbound

\* Handing a message to Matrix, and every call its send() awaits, keep the invariant.
LEMMA MatrixSends ==
  ASSUME Inbound, Outbound, adapter = "matrix",
         \/ \E o \in MX!Orders({0, 1}, BOOLEAN) : MX!Send(o) \/ (~MX!Client /\ MX!NotSent(o))
         \/ MX!FileDone \/ MX!TextSent \/ MX!TextFails \/ MX!Clears
  PROVE  Inbound' /\ Outbound'
<1> USE SameMatrix
<1>0. /\ acts \in Nat /\ handed \in Nat /\ OutTypes /\ sending \in Call /\ tracked = 0
      /\ swallowed \in SUBSET Nat /\ {0, 1} \in SUBSET Nat
  BY DEF Inbound, InTypes, Outbound, OutTypes, Streams
<1>1. ASSUME NEW o \in Orders({0, 1}, BOOLEAN), MX!Send(o)
      PROVE  Inbound' /\ Outbound'
  <2>1. /\ sending = Idle /\ handed' = handed + 1 /\ acts' \in Nat
        /\ UNCHANGED <<adapter, phase, link, at, seen, timer, typing, route>>
        /\ UNCHANGED <<posts, tracked, sent, swallowed, answered>>
    BY <1>0, <1>1 DEF MX!Send, MX!Hands, MX!Act, MX!life, MX!inbound
  <2>2. /\ o.kind = "progress" => o.size = 1 /\ o.file = FALSE /\ o.to = {}
        /\ o.kind = "answer" => o.size \in {0, 1}
        /\ o.kind \in {"progress", "answer"} /\ o.size \in Nat /\ o.to \in SUBSET Messages /\ o.to \in {{}, Open}
        /\ o.kind = "answer" /\ o.size = 0 => o.file
    BY <1>0, OrdersAre
  <2>3. PICK rung \in {"file", "text"} : Begins(o, rung) /\ rung = IF o.file THEN "file" ELSE "text"
    BY <1>1, Zenon DEF MX!Send
  <2>4. /\ sending' \in Call /\ sending'.kind = o.kind /\ sending'.n = handed + 1
        /\ sending'.size = o.size /\ sending'.to = o.to /\ sending'.rung = rung /\ sending'.shown = 0
    BY <1>0, <2>2, <2>3, Begun DEF Rungs
  <2>5. Inbound'
    BY <1>0, <2>1, <2>2, <2>3, <2>4, MatrixSend
  <2>6. ~AllShown'
    BY <2>1, <2>3, <2>4 DEF AllShown
  <2>7. OutTypes' /\ Numbered' /\ Stands' /\ Streams'
    BY <2>1, <2>2, <2>4, <2>6, SendBegins
  <2>8. AtCall'
    BY <2>1, <2>2, <2>3, <2>4 DEF AtCall
  <2> QED BY <2>5, <2>7, <2>8 DEF Outbound
<1>2. ASSUME NEW o \in Orders({0, 1}, BOOLEAN), ~MX!Client, MX!NotSent(o)
      PROVE  Inbound' /\ Outbound'
  <2>1. /\ sending = Idle /\ handed' = handed + 1 /\ acts' \in Nat /\ answered' = answered \cup o.to
        /\ UNCHANGED <<adapter, phase, link, at, seen, timer, typing, route>>
        /\ UNCHANGED <<sending, posts, tracked, sent, swallowed>>
    BY <1>0, <1>2 DEF MX!NotSent, MX!Hands, MX!Act, MX!life, MX!inbound
  <2>2. o.to \in {{}, Open} /\ o.to \in SUBSET Messages
    BY <1>0, OrdersAre
  <2>3. phase = "new"
    BY <1>2 DEF MX!Client
  <2>4. Inbound'
    BY <1>0, <2>1, <2>2, <2>3, MatrixSend
  <2>5. answered' \in SUBSET Messages
    BY <1>0, <2>1, <2>2 DEF OutTypes
  <2>6. Outbound'
    BY <2>1, <2>5, NothingSent
  <2> QED BY <2>4, <2>6
<1>3. sending # Idle => /\ sending.kind \in {"progress", "answer"} /\ sending.shown = 0
                        /\ sending.kind = "progress" => sending.size = 1
                        /\ sending.size \in Nat
  BY <1>0 DEF Outbound, Numbered, AtCall, Call
<1>4. ASSUME sending # Idle, sending.kind = "answer", acts' \in Nat, timer' = FALSE,
             NEW rung \in {"clear", "raise"}, GoesOn(rung),
             \/ posts' = posts /\ swallowed' = swallowed /\ (rung = "raise" \/ sending.size = 0)
             \/ posts' = posts /\ swallowed' = swallowed \cup {sending.n}
             \/ Posts(1) /\ swallowed' = swallowed /\ sending.rung = "text",
             UNCHANGED <<adapter, phase, link, at, seen, typing, route, handed, tracked, sent, answered>>
      PROVE  Inbound' /\ Outbound'
  <2>1. /\ sending' \in Call /\ sending'.kind = sending.kind /\ sending'.n = sending.n
        /\ sending'.size = sending.size /\ sending'.to = sending.to /\ sending'.rung = rung
        /\ sending'.shown = sending.shown
    BY <1>0, <1>4, GoneOn DEF Rungs
  <2>2. Inbound'
    BY <1>0, <1>4, <2>1, MatrixCall
  <2>3. swallowed \subseteq swallowed' /\ swallowed' \in SUBSET Nat /\ sending.n \in Nat
    BY <1>0, <1>4 DEF Call
  <2>4. CASE posts' = posts /\ (sending.n \in swallowed' \/ rung = "raise" \/ sending.size = 0)
    <3>1. AllShown' => sending.size = 0 \/ sending.n \in swallowed'
      BY <1>4, <2>1, <2>4 DEF AllShown
    <3>2. OutTypes' /\ Numbered' /\ Stands' /\ Streams'
      BY <1>4, <2>1, <2>3, <2>4, <3>1, CallMoves
    <3>3. AtCall'
      BY <1>4, <2>1 DEF Outbound, AtCall
    <3> QED BY <2>2, <3>2, <3>3 DEF Outbound
  <2>5. CASE Posts(1) /\ swallowed' = swallowed /\ sending.rung = "text"
    <3>1. sending.size = 1
      BY <2>5 DEF Outbound, AtCall
    <3>2. PostsGrow /\ Standing(posts', sending.n, 1)
      BY <1>0, <2>5, Posted
    <3>3. \A c \in 1 .. sending.size : Standing(posts', sending.n, c)
      BY <3>1, <3>2
    <3>4. sending'.kind = "answer" /\ sending'.n \notin swallowed' =>
             \A c \in 1 .. IF AllShown' THEN sending'.size ELSE sending'.shown : Standing(posts', sending'.n, c)
      <4>1. \A c \in 1 .. IF AllShown' THEN sending'.size ELSE sending'.shown : c \in 1 .. sending.size
        BY <1>3, <1>4, <2>1, <3>1
      <4> QED BY <2>1, <3>3, <4>1
    <3>5. OutTypes' /\ Numbered' /\ Stands' /\ Streams'
      BY <1>0, <1>3, <1>4, <2>1, <2>3, <3>1, <3>2, <3>4, SendGoesOn
    <3>6. AtCall'
      BY <1>4, <2>1, <3>1 DEF Outbound, AtCall
    <3> QED BY <2>2, <3>5, <3>6 DEF Outbound
  <2> QED BY <1>4, <2>3, <2>4, <2>5
<1>5. ASSUME sending # Idle, acts' \in Nat, timer' = timer, Returns \/ Raises, PostsGrow,
             swallowed \subseteq swallowed', swallowed' \in SUBSET Nat,
             \/ typing' = typing /\ sending.kind # "answer"
             \/ typing' = FALSE /\ sending.rung \in {"clear", "raise"},
             sending.kind = "answer" /\ sending.n \notin swallowed' /\ Returns =>
                \A c \in 1 .. sending.size : Standing(posts', sending.n, c),
             UNCHANGED <<adapter, phase, link, at, seen, route, handed, tracked>>
      PROVE  Inbound' /\ Outbound'
  <2>1. /\ sending' = Idle /\ answered' = answered \cup sending.to /\ answered' \in SUBSET Messages
        /\ \/ sent' = sent
           \/ sending.kind = "answer" /\ sent' = sent \cup {<<sending.n, sending.size>>}
    BY <1>0, <1>5, Ended
  <2>2. Inbound'
    BY <1>0, <1>5, <2>1, MatrixCall
  <2>3. sent' = sent \/ Returns
    BY <1>5 DEF Raises
  <2>4. \/ sent' = sent
        \/ /\ sent' = sent \cup {<<sending.n, sending.size>>}
           /\ sending.n \notin swallowed' => \A c \in 1 .. sending.size : Standing(posts', sending.n, c)
    BY <1>5, <2>1, <2>3
  <2>5. Outbound'
    BY <1>0, <1>5, <2>1, <2>4, SendEnds
  <2> QED BY <2>2, <2>5
<1>6. ASSUME MX!FileDone PROVE Inbound' /\ Outbound'
  <2>1. /\ sending.rung = "file" /\ acts' \in Nat
        /\ UNCHANGED <<adapter, phase, link, at, seen, typing, route, posts, tracked, swallowed, handed>>
    BY <1>0, <1>6 DEF MX!FileDone, MX!life
  <2>2. sending # Idle /\ sending.kind = "answer" /\ sending.shown = 0
    BY <2>1, <1>3, IdleCall DEF Rungs, Outbound, AtCall
  <2>3. \/ sending.size = 0 /\ MX!Finally("clear")
        \/ sending' = [sending EXCEPT !.size = 1, !.rung = "text"] /\ UNCHANGED <<timer, sent, answered>>
    BY <1>6 DEF MX!FileDone
  <2>4. CASE sending.size = 0 /\ MX!Finally("clear")
    <3>1. GoesOn("clear") /\ timer' = FALSE /\ UNCHANGED <<sent, answered>>
      BY <2>2, <2>4 DEF MX!Finally, MX!StopsKeepalive
    <3> QED BY <1>4, <2>1, <2>2, <2>4, <3>1
  <2>5. CASE sending' = [sending EXCEPT !.size = 1, !.rung = "text"] /\ UNCHANGED <<timer, sent, answered>>
    <3>1. sending' \in Call
      BY <1>0, <2>5 DEF Call, Rungs
    <3>2. sending'.kind = sending.kind /\ sending'.n = sending.n /\ sending'.size = 1
      BY <1>0, <2>5 DEF Call
    <3>3. sending'.rung = "text" /\ sending'.shown = sending.shown
      BY <1>0, <2>5 DEF Call
    <3>4. sending'.to = sending.to
      BY <1>0, <2>5 DEF Call
    <3>5. Inbound'
      BY <1>0, <2>1, <2>5, <3>1, <3>2, <3>3, <3>4, MatrixCall
    <3>6. PostsGrow /\ swallowed \subseteq swallowed' /\ swallowed' \in SUBSET Nat /\ ~AllShown'
      BY <1>0, <2>1, <3>3 DEF PostsGrow, AllShown
    <3>7. OutTypes' /\ Numbered' /\ Stands' /\ Streams'
      BY <1>0, <2>1, <2>2, <2>5, <3>1, <3>2, <3>3, <3>4, <3>6, SendGoesOn
    <3>8. AtCall'
      BY <2>1, <2>2, <3>2, <3>3 DEF AtCall
    <3> QED BY <3>5, <3>7, <3>8 DEF Outbound
  <2> QED BY <2>3, <2>4, <2>5
<1>7. ASSUME MX!TextSent PROVE Inbound' /\ Outbound'
  <2>1. /\ sending.rung = "text" /\ acts' \in Nat /\ MX!Finally("clear")
        /\ Posts(IF sending.kind = "progress" THEN 0 ELSE 1)
        /\ UNCHANGED <<adapter, phase, link, at, seen, typing, route, tracked, swallowed, handed>>
    BY <1>0, <1>7 DEF MX!TextSent, MX!life
  <2>2. sending # Idle /\ swallowed \subseteq swallowed' /\ swallowed' \in SUBSET Nat
    BY <1>0, <2>1, IdleCall DEF Rungs
  <2>3. CASE sending.kind = "progress"
    <3>1. Returns /\ timer' = timer /\ Posts(0)
      BY <2>1, <2>3 DEF MX!Finally
    <3>2. PostsGrow
      BY <1>0, <3>1, Posted
    <3> QED BY <1>5, <2>1, <2>2, <2>3, <3>1, <3>2
  <2>4. CASE sending.kind = "answer"
    <3>1. GoesOn("clear") /\ timer' = FALSE /\ UNCHANGED <<sent, answered>> /\ Posts(1)
      BY <2>1, <2>4 DEF MX!Finally, MX!StopsKeepalive
    <3> QED BY <1>4, <2>1, <2>2, <2>4, <3>1
  <2> QED BY <1>3, <2>2, <2>3, <2>4
<1>8. ASSUME MX!TextFails PROVE Inbound' /\ Outbound'
  <2>1. /\ sending.rung = "text" /\ acts' \in Nat
        /\ UNCHANGED <<adapter, phase, link, at, seen, typing, route, posts, tracked, handed>>
    BY <1>0, <1>8 DEF MX!TextFails, MX!life, MX!Act
  <2>2. \/ MX!Finally("raise") /\ swallowed' = swallowed
        \/ MX!Finally("clear") /\ swallowed' = swallowed \cup {sending.n}
    BY <1>8 DEF MX!TextFails
  <2>3. sending # Idle /\ swallowed \subseteq swallowed' /\ swallowed' \in SUBSET Nat /\ PostsGrow
    BY <1>0, <2>1, <2>2, IdleCall DEF Rungs, PostsGrow, Call
  <2>4. CASE sending.kind = "progress"
    <3>1. (Returns \/ Raises) /\ timer' = timer
      BY <2>2, <2>4 DEF MX!Finally
    <3> QED BY <1>5, <2>1, <2>3, <2>4, <3>1
  <2>5. CASE sending.kind = "answer"
    <3>1. PICK rung \in {"clear", "raise"} :
             /\ GoesOn(rung) /\ timer' = FALSE /\ UNCHANGED <<sent, answered>>
             /\ \/ rung = "raise" /\ swallowed' = swallowed
                \/ swallowed' = swallowed \cup {sending.n}
      BY <2>2, <2>5 DEF MX!Finally, MX!StopsKeepalive
    <3> QED BY <1>4, <2>1, <2>3, <2>5, <3>1
  <2> QED BY <1>3, <2>3, <2>4, <2>5
<1>9. ASSUME MX!Clears PROVE Inbound' /\ Outbound'
  <2>1. /\ sending.rung \in {"clear", "raise"} /\ acts' \in Nat /\ typing' = FALSE
        /\ UNCHANGED <<adapter, phase, link, at, seen, timer, route, posts, tracked, swallowed, handed>>
    BY <1>0, <1>9 DEF MX!Clears, MX!Aside, MX!life, MX!inbound
  <2>2. IF sending.rung = "raise" THEN Raises ELSE Returns
    BY <1>9 DEF MX!Clears
  <2>3. sending # Idle /\ swallowed \subseteq swallowed' /\ swallowed' \in SUBSET Nat /\ PostsGrow
    BY <1>0, <2>1, IdleCall DEF Rungs, PostsGrow
  <2>4. CASE sending.rung = "raise"
    <3>1. Raises
      BY <2>2, <2>4
    <3>2. sent' = sent
      BY <3>1 DEF Raises
    <3>3. /\ sending' = Idle /\ answered' = answered \cup sending.to /\ answered' \in SUBSET Messages
      BY <1>0, <3>1, Ended
    <3>4. Inbound'
      BY <1>0, <2>1, <3>3, MatrixCall
    <3>5. Outbound'
      BY <1>0, <2>1, <2>3, <3>2, <3>3, SendEnds
    <3> QED BY <3>4, <3>5
  <2>5. CASE sending.rung = "clear"
    <3>1. Returns
      BY <2>2, <2>5
    <3>2. sending.kind = "answer" /\ sending.n \notin swallowed' => \A c \in 1 .. sending.size : Standing(posts', sending.n, c)
      BY <2>1, <2>5 DEF Outbound, Stands, AllShown
    <3> QED BY <1>5, <2>1, <2>3, <3>1, <3>2
  <2> QED BY <2>1, <2>4, <2>5
<1> QED BY <1>1, <1>2, <1>6, <1>7, <1>8, <1>9

\* Every step of Matrix keeps the invariant.
LEMMA MatrixStep ==
  ASSUME Inbound, Outbound, adapter = "matrix", MX!Next
  PROVE  Inbound' /\ Outbound'
<1> USE DEF Inbound, InTypes, Once, Honest, Deliveries, Where, Names, OneByOne, Cached
<1>1. ASSUME MX!Start PROVE Inbound' /\ Outbound'
  <2>1. UNCHANGED <<adapter, outbound>>
    BY <1>1 DEF MX!Start, MX!life, MX!inbound, MX!outbound, outbound
  <2>2. InTypes'
    BY <1>1, <2>1 DEF MX!Start, MX!life, MX!inbound
  <2>3. Once'
    BY <1>1, <2>1 DEF MX!Start, MX!life, MX!inbound, Once
  <2>4. \A d \in Deliveries : at[d] = "done" => at'[d] = "done"
    BY <1>1 DEF MX!Start, MX!life, MX!inbound
  <2>5. Served'
    BY <2>1, <2>4, DoneStays DEF Outbound, outbound
  <2>6. Honest'
    BY <1>1, <2>1 DEF MX!Start, MX!life, MX!inbound, outbound, Served, MatrixTypes,
           Waits, Inside
  <2> QED BY <2>1, <2>2, <2>3, <2>5, <2>6, OutboundRests
<1>2. ASSUME MX!Stop PROVE Inbound' /\ Outbound'
  <2>1. UNCHANGED <<adapter, outbound>>
    BY <1>2 DEF MX!Stop, MX!Act, MX!life, MX!inbound, MX!outbound, outbound
  <2>10. timer' \in BOOLEAN
    BY <1>2, Zenon DEF MX!Stop, MX!Act, MX!life, MX!inbound
  <2>8. at' \in [Deliveries -> Where]
    BY <1>2 DEF MX!Stop, MX!Act, MX!life, MX!inbound
  <2>20. adapter' \in Names
    BY <1>2 DEF MX!Stop, MX!Act, MX!life, MX!inbound
  <2>21. phase' \in {"new", "starting", "up", "left", "stopping", "down"}
    BY <1>2 DEF MX!Stop, MX!Act, MX!life, MX!inbound
  <2>22. seen' \in SUBSET Messages
    BY <1>2 DEF MX!Stop, MX!Act, MX!life, MX!inbound
  <2>23. acts' \in Nat
    BY <1>2 DEF MX!Stop, MX!Act, MX!life, MX!inbound
  <2>24. link' \in BOOLEAN
    BY <1>2 DEF MX!Stop, MX!Act, MX!life, MX!inbound
  <2>25. typing' \in BOOLEAN
    BY <1>2 DEF MX!Stop, MX!Act, MX!life, MX!inbound
  <2>26. route' \in BOOLEAN
    BY <1>2 DEF MX!Stop, MX!Act, MX!life, MX!inbound
  <2>2. InTypes'
    BY <2>10, <2>8, <2>20, <2>21, <2>22, <2>23, <2>24, <2>25, <2>26, Zenon
  <2>3. Once'
    BY <1>2, <2>10, <2>8, <2>20, <2>21, <2>22, <2>23, <2>24, <2>25, <2>26, <2>1 DEF
           MX!Stop, MX!Act, MX!life, MX!inbound, Once
  <2>4. \A d \in Deliveries : at[d] = "done" => at'[d] = "done"
    BY <1>2 DEF MX!Stop, MX!Act, MX!life, MX!inbound
  <2>5. Served'
    BY <2>1, <2>4, DoneStays DEF Outbound, outbound
  <2>6. Honest'
    BY <1>2, <2>1 DEF MX!Stop, MX!Act, MX!life, MX!inbound, outbound, Served,
           MatrixTypes, Waits, Inside
  <2> QED BY <2>1, <2>2, <2>3, <2>5, <2>6, OutboundRests
<1>3. ASSUME MX!Stopped PROVE Inbound' /\ Outbound'
  <2>1. UNCHANGED <<adapter, outbound>>
    BY <1>3 DEF MX!Stopped, MX!Places, MX!Deliveries, MX!life, MX!inbound, MX!outbound,
           outbound
  <2>8. at' \in [Deliveries -> Where]
    BY <1>3 DEF MX!Stopped, MX!Places, MX!Deliveries, MX!life, MX!inbound
  <2>20. adapter' \in Names
    BY <1>3 DEF MX!Stopped, MX!Deliveries, MX!life, MX!inbound
  <2>21. phase' \in {"new", "starting", "up", "left", "stopping", "down"}
    BY <1>3 DEF MX!Stopped, MX!Deliveries, MX!life, MX!inbound
  <2>22. seen' \in SUBSET Messages
    BY <1>3 DEF MX!Stopped, MX!Deliveries, MX!life, MX!inbound
  <2>23. acts' \in Nat
    BY <1>3 DEF MX!Stopped, MX!Deliveries, MX!life, MX!inbound
  <2>24. link' \in BOOLEAN
    BY <1>3 DEF MX!Stopped, MX!Deliveries, MX!life, MX!inbound
  <2>25. timer' \in BOOLEAN
    BY <1>3 DEF MX!Stopped, MX!Deliveries, MX!life, MX!inbound
  <2>26. typing' \in BOOLEAN
    BY <1>3 DEF MX!Stopped, MX!Deliveries, MX!life, MX!inbound
  <2>27. route' \in BOOLEAN
    BY <1>3 DEF MX!Stopped, MX!Deliveries, MX!life, MX!inbound
  <2>2. InTypes'
    BY <2>8, <2>20, <2>21, <2>22, <2>23, <2>24, <2>25, <2>26, <2>27, Zenon
  <2>3. Once'
    BY <1>3, <2>8, <2>20, <2>21, <2>22, <2>23, <2>24, <2>25, <2>26, <2>27, <2>1 DEF
           MX!Stopped, MX!Places, MX!Deliveries, MX!life, MX!inbound, Once
  <2>4. \A d \in Deliveries : at[d] = "done" => at'[d] = "done"
    BY <1>3 DEF MX!Stopped, MX!Places, MX!Deliveries, MX!life, MX!inbound
  <2>5. Served'
    BY <2>1, <2>4, DoneStays DEF Outbound, outbound
  <2>6. Honest'
    BY <1>3, <2>1 DEF MX!Stopped, MX!Places, MX!Deliveries, MX!life, MX!inbound,
           outbound, Served, MatrixTypes, Waits, Inside
  <2> QED BY <2>1, <2>2, <2>3, <2>5, <2>6, OutboundRests
<1>4. ASSUME NEW m \in Messages, MX!Said(m, "due") PROVE Inbound' /\ Outbound'
  <2>1. UNCHANGED <<adapter, outbound>>
    BY <1>4 DEF MX!Said, MX!Act, MX!Moves, MX!life, MX!inbound, MX!outbound, outbound
  <2>2. InTypes'
    BY <1>4, <2>1 DEF MX!Said, MX!Act, MX!Moves, MX!life, MX!inbound
  <2>3. Once'
    BY <1>4, <2>1 DEF MX!Said, MX!Act, MX!Moves, MX!life, MX!inbound, Once
  <2>4. \A d \in Deliveries : at[d] = "done" => at'[d] = "done"
    BY <1>4 DEF MX!Said, MX!Act, MX!Moves, MX!life, MX!inbound
  <2>5. Served'
    BY <2>1, <2>4, DoneStays DEF Outbound, outbound
  <2>6. Honest'
    BY <1>4, <2>1 DEF MX!Said, MX!Act, MX!Moves, MX!life, MX!inbound, outbound, Served,
           MatrixTypes, Waits, Inside
  <2> QED BY <2>1, <2>2, <2>3, <2>5, <2>6, OutboundRests
<1>5. ASSUME NEW e \in Deliveries, MX!Deliver(e) PROVE Inbound' /\ Outbound'
  <2>1. UNCHANGED <<adapter, outbound>>
    BY <1>5 DEF MX!Deliver, MX!Moves, MX!Deliveries, MX!life, MX!inbound, MX!outbound,
           outbound
  <2>10. timer' \in BOOLEAN
    BY <1>5, Zenon DEF MX!Deliver, MX!Moves, MX!Deliveries, MX!life, MX!inbound
  <2>2. InTypes'
    BY <1>5, <2>10, <2>1 DEF MX!Deliver, MX!Moves, MX!Deliveries, MX!life, MX!inbound
  <2>3. Once'
    BY <1>5, <2>10, <2>1 DEF MX!Deliver, MX!Moves, MX!Deliveries, MX!life, MX!inbound,
           Once
  <2>4. \A d \in Deliveries : at[d] = "done" => at'[d] = "done"
    BY <1>5 DEF MX!Deliver, MX!Moves, MX!Deliveries, MX!life, MX!inbound
  <2>5. Served'
    BY <2>1, <2>4, DoneStays DEF Outbound, outbound
  <2>6. Honest'
    BY <1>5, <2>1 DEF MX!Deliver, MX!Moves, MX!Deliveries, MX!life, MX!inbound,
           outbound, Served, MatrixTypes, Waits, Inside
  <2> QED BY <2>1, <2>2, <2>3, <2>5, <2>6, OutboundRests
<1>6. ASSUME NEW e \in Deliveries, MX!Fetched(e) PROVE Inbound' /\ Outbound'
  <2>1. UNCHANGED <<adapter, outbound>>
    BY <1>6 DEF MX!Fetched, MX!Moves, MX!Deliveries, MX!life, MX!inbound, MX!outbound,
           outbound
  <2>10. timer' \in BOOLEAN
    BY <1>6, Zenon DEF MX!Fetched, MX!Moves, MX!Deliveries, MX!life, MX!inbound
  <2>2. InTypes'
    BY <1>6, <2>10, <2>1 DEF MX!Fetched, MX!Moves, MX!Deliveries, MX!life, MX!inbound
  <2>3. Once'
    BY <1>6, <2>10, <2>1 DEF MX!Fetched, MX!Moves, MX!Deliveries, MX!life, MX!inbound,
           Once
  <2>4. \A d \in Deliveries : at[d] = "done" => at'[d] = "done"
    BY <1>6 DEF MX!Fetched, MX!Moves, MX!Deliveries, MX!life, MX!inbound
  <2>5. Served'
    BY <2>1, <2>4, DoneStays DEF Outbound, outbound
  <2>6. Honest'
    BY <1>6, <2>1 DEF MX!Fetched, MX!Moves, MX!Deliveries, MX!life, MX!inbound,
           outbound, Served, MatrixTypes, Waits, Inside
  <2> QED BY <2>1, <2>2, <2>3, <2>5, <2>6, OutboundRests
<1>7. ASSUME NEW e \in Deliveries, MX!TypingCalled(e) PROVE Inbound' /\ Outbound'
  <2>1. UNCHANGED <<adapter, outbound>>
    BY <1>7 DEF MX!TypingCalled, MX!Moves, MX!Deliveries, MX!life, MX!inbound,
           MX!outbound, outbound
  <2>10. timer' \in BOOLEAN
    BY <1>7, Zenon DEF MX!TypingCalled, MX!Moves, MX!Deliveries, MX!life, MX!inbound
  <2>11. typing' \in BOOLEAN
    BY <1>7, Zenon DEF MX!TypingCalled, MX!Moves, MX!Deliveries, MX!life, MX!inbound
  <2>2. InTypes'
    BY <1>7, <2>10, <2>11, <2>1 DEF MX!TypingCalled, MX!Moves, MX!Deliveries, MX!life,
           MX!inbound
  <2>3. Once'
    BY <1>7, <2>10, <2>11, <2>1 DEF MX!TypingCalled, MX!Moves, MX!Deliveries, MX!life,
           MX!inbound, Once
  <2>4. \A d \in Deliveries : at[d] = "done" => at'[d] = "done"
    BY <1>7 DEF MX!TypingCalled, MX!Moves, MX!Deliveries, MX!life, MX!inbound
  <2>5. Served'
    BY <2>1, <2>4, DoneStays DEF Outbound, outbound
  <2>6. Honest'
    BY <1>7, <2>1 DEF MX!TypingCalled, MX!Moves, MX!Deliveries, MX!life, MX!inbound,
           outbound, Served, MatrixTypes, Waits, Inside
  <2> QED BY <2>1, <2>2, <2>3, <2>5, <2>6, OutboundRests
<1>8. ASSUME MX!KeptAlive PROVE Inbound' /\ Outbound'
  <2>1. UNCHANGED <<adapter, outbound>>
    BY <1>8 DEF MX!KeptAlive, MX!life, MX!inbound, MX!outbound, outbound
  <2>10. typing' \in BOOLEAN
    BY <1>8, Zenon DEF MX!KeptAlive, MX!life, MX!inbound
  <2>2. InTypes'
    BY <1>8, <2>10, <2>1 DEF MX!KeptAlive, MX!life, MX!inbound
  <2>3. Once'
    BY <1>8, <2>10, <2>1 DEF MX!KeptAlive, MX!life, MX!inbound, Once
  <2>4. \A d \in Deliveries : at[d] = "done" => at'[d] = "done"
    BY <1>8 DEF MX!KeptAlive, MX!life, MX!inbound
  <2>5. Served'
    BY <2>1, <2>4, DoneStays DEF Outbound, outbound
  <2>6. Honest'
    BY <1>8, <2>1 DEF MX!KeptAlive, MX!life, MX!inbound, outbound, Served, MatrixTypes,
           Waits, Inside
  <2> QED BY <2>1, <2>2, <2>3, <2>5, <2>6, OutboundRests
<1>9. ASSUME MX!TimesOut PROVE Inbound' /\ Outbound'
  <2>1. UNCHANGED <<adapter, outbound>>
    BY <1>9 DEF MX!TimesOut, MX!life, MX!inbound, MX!outbound, outbound
  <2>10. typing' \in BOOLEAN
    BY <1>9, Zenon DEF MX!TimesOut, MX!life, MX!inbound
  <2>2. InTypes'
    BY <1>9, <2>10, <2>1 DEF MX!TimesOut, MX!life, MX!inbound
  <2>3. Once'
    BY <1>9, <2>10, <2>1 DEF MX!TimesOut, MX!life, MX!inbound, Once
  <2>4. \A d \in Deliveries : at[d] = "done" => at'[d] = "done"
    BY <1>9 DEF MX!TimesOut, MX!life, MX!inbound
  <2>5. Served'
    BY <2>1, <2>4, DoneStays DEF Outbound, outbound
  <2>6. Honest'
    BY <1>9, <2>1 DEF MX!TimesOut, MX!life, MX!inbound, outbound, Served, MatrixTypes,
           Waits, Inside
  <2> QED BY <2>1, <2>2, <2>3, <2>5, <2>6, OutboundRests
<1> QED
  BY <1>1, <1>2, <1>3, <1>4, <1>5, <1>6, <1>7, <1>8, <1>9, MatrixSends DEF MX!Next, MX!Handlers, MX!Deliveries

-----------------------------------------------------------------------------
(* Platforms on which nobody is shown to be typing.                        *)

Quiet == {"feishu", "slack", "dingtalk", "wecom", "qq", "whatsapp", "email"}

\* A call of the send() under way, or its end.
LEMMA QuietCall ==
  ASSUME Inbound, OutTypes, adapter \in Quiet, acts' \in Nat, route' \in BOOLEAN,
         UNCHANGED <<adapter, phase, link, at, seen, timer, typing>>,
         route' = route \/ adapter = "dingtalk",
         \/ sending'.kind = sending.kind /\ sending'.to = sending.to /\ answered' = answered
         \/ sending' = Idle /\ answered' = answered \cup sending.to
  PROVE  Inbound'
<1>1. InTypes /\ Once
  BY DEF Inbound
<1>2. InTypes' /\ Once'
  <2>1. timer' \in BOOLEAN /\ typing' \in BOOLEAN
    BY <1>1 DEF InTypes
  <2> QED BY <1>1, <2>1, InboundAside
<1>3. Served'
  BY ServedOn
<1>4. Honest'
  BY DEF Inbound, Honest, Quiet
<1> QED BY <1>2, <1>3, <1>4 DEF Inbound

\* The beginning of a send().
LEMMA QuietSend ==
  ASSUME Inbound, OutTypes, adapter \in Quiet, acts' \in Nat,
         UNCHANGED <<adapter, phase, link, at, seen, timer, typing, route, answered>>,
         sending'.to \in {{}, Open}, sending'.kind # "answer" => sending'.to = {}
  PROVE  Inbound'
<1>1. InTypes /\ Once
  BY DEF Inbound
<1>2. InTypes' /\ Once'
  <2>1. timer' \in BOOLEAN /\ typing' \in BOOLEAN /\ route' \in BOOLEAN
    BY <1>1 DEF InTypes
  <2> QED BY <1>1, <2>1, InboundAside
<1>3. Served'
  BY ServedAtSend
<1>4. Honest'
  BY DEF Inbound, Honest, Quiet
<1> QED BY <1>2, <1>3, <1>4 DEF Inbound

\* A message handed over when it cannot be sent.
LEMMA QuietNotSent ==
  ASSUME Inbound, Outbound, adapter \in Quiet, acts' \in Nat, sending = Idle, handed' = handed + 1,
         NEW to \in {{}, Open}, answered' = answered \cup to,
         UNCHANGED <<adapter, phase, link, at, seen, timer, typing, route, sending, posts, tracked, sent, swallowed>>
  PROVE  Inbound' /\ Outbound'
<1>1. InTypes /\ Once /\ OutTypes /\ Served
  BY DEF Inbound, Outbound
<1>2. InTypes' /\ Once'
  <2>1. timer' \in BOOLEAN /\ typing' \in BOOLEAN /\ route' \in BOOLEAN
    BY <1>1 DEF InTypes
  <2> QED BY <1>1, <2>1, InboundAside
<1>3. Served'
  BY <1>1, OpenIsDone DEF Served
<1>4. Honest'
  BY DEF Inbound, Honest, Quiet
<1>5. Outbound'
  <2>1. answered' \in SUBSET Messages
    BY <1>1 DEF OutTypes, Open
  <2> QED BY <2>1, NothingSent
<1> QED BY <1>2, <1>3, <1>4, <1>5 DEF Inbound

\* Platforms whose answers are one text, sent by one call.
Single == {"wecom", "qq", "whatsapp", "email"}

\* Their send() begins ...
LEMMA SingleBegins ==
  ASSUME Inbound, Outbound, adapter \in Single, acts' \in Nat, sending = Idle, handed' = handed + 1,
         NEW o \in Orders({1}, {FALSE}), NEW rung \in {"reply", "post", "bridge", "smtp"}, Begins(o, rung),
         UNCHANGED <<adapter, phase, link, at, seen, timer, typing, route>>,
         UNCHANGED <<posts, tracked, sent, swallowed, answered>>
  PROVE  Inbound' /\ Outbound'
<1>1. rung \in Rungs /\ OutTypes
  BY DEF Rungs, Outbound
<1>2. /\ o.to \in {{}, Open} /\ o.kind \in {"progress", "answer"} /\ o.to \in SUBSET Messages
      /\ o.kind = "progress" => o.to = {}
      /\ o.size = 1
  <2>1. {1} \in SUBSET Nat
    OBVIOUS
  <2> QED BY <2>1, OrdersAre
<1>3. /\ sending' \in Call /\ sending'.kind = o.kind /\ sending'.n = handed + 1
      /\ sending'.size = o.size /\ sending'.to = o.to /\ sending'.rung = rung /\ sending'.shown = 0
  <2>1. o.size \in Nat
    BY <1>2
  <2> QED BY <1>1, <1>2, <2>1, Begun
<1>4. Inbound'
  <2>1. adapter \in Quiet
    BY DEF Single, Quiet
  <2> QED BY <1>1, <1>2, <1>3, <2>1, QuietSend
<1>5. OutTypes' /\ Numbered' /\ Stands' /\ Streams'
  <2>1. ~AllShown'
    BY DEF AllShown, Single
  <2> QED BY <1>2, <1>3, <2>1, SendBegins
<1>6. AtCall'
  BY <1>2, <1>3 DEF AtCall, Single
<1> QED BY <1>4, <1>5, <1>6 DEF Outbound

\* ... and its only call shows the whole answer.
LEMMA SingleSent ==
  ASSUME Inbound, Outbound, adapter \in Single, acts' \in Nat, sending # Idle, Returns,
         Posts(IF sending.kind = "progress" THEN 0 ELSE 1),
         UNCHANGED <<adapter, phase, link, at, seen, timer, typing, route, handed, tracked, swallowed>>
  PROVE  Inbound' /\ Outbound'
<1>1. OutTypes /\ adapter \in Quiet /\ ~AllShown /\ route \in BOOLEAN
  BY DEF Outbound, Single, Quiet, AllShown, Inbound, InTypes
<1>2. sending.shown = 0 /\ sending.size = 1 /\ tracked = 0
  BY DEF Outbound, AtCall, Streams, Single
<1>3. /\ sending' = Idle /\ answered' = answered \cup sending.to /\ answered' \in SUBSET Messages
      /\ \/ sent' = sent
         \/ sending.kind = "answer" /\ sent' = sent \cup {<<sending.n, sending.size>>}
  BY <1>1, Ended
<1>4. PICK c \in {0, 1} : Posts(c) /\ (c = 0 <=> sending.kind = "progress")
  OBVIOUS
<1>5. PostsGrow /\ Standing(posts', sending.n, c)
  <2>1. c \in Nat
    OBVIOUS
  <2> QED BY <1>1, <1>4, <2>1, Posted
<1>6. sending.kind = "answer" => \A k \in 1 .. sending.size : Standing(posts', sending.n, k)
  BY <1>2, <1>4, <1>5
<1>7. Inbound'
  BY <1>1, <1>3, QuietCall
<1>8. Outbound'
  BY <1>1, <1>2, <1>3, <1>5, <1>6, SendEnds DEF OutTypes
<1> QED BY <1>7, <1>8

\* What failed is reported, or only logged: then it need not stand.
LEMMA QuietFails ==
  ASSUME Inbound, Outbound, adapter \in Quiet, acts' \in Nat, sending # Idle,
         (Returns /\ swallowed' = swallowed \cup {sending.n}) \/ (Raises /\ swallowed' = swallowed),
         UNCHANGED <<adapter, phase, link, at, seen, timer, typing, route, handed, posts, tracked>>
  PROVE  Inbound' /\ Outbound'
<1>1. OutTypes /\ route \in BOOLEAN /\ tracked = 0
  BY DEF Outbound, Quiet, Inbound, InTypes, Streams
<1>2. /\ sending' = Idle /\ answered' = answered \cup sending.to /\ answered' \in SUBSET Messages
      /\ \/ sent' = sent
         \/ sent' = sent \cup {<<sending.n, sending.size>>} /\ sending.n \in swallowed'
  BY <1>1, Ended DEF Raises
<1>3. PostsGrow /\ swallowed \subseteq swallowed' /\ swallowed' \in SUBSET Nat
  BY <1>1 DEF PostsGrow, OutTypes, Call
<1>4. Inbound'
  BY <1>1, <1>2, QuietCall
<1>5. Outbound'
  BY <1>1, <1>2, <1>3, SendEnds
<1> QED BY <1>4, <1>5

\* A send() that shows nothing more returns.
LEMMA QuietEnds ==
  ASSUME Inbound, Outbound, adapter \in Quiet, acts' \in Nat, sending # Idle, Returns,
         UNCHANGED <<adapter, phase, link, at, seen, timer, typing, route, handed, posts, tracked>>,
         swallowed \subseteq swallowed', swallowed' \in SUBSET Nat,
         sending.kind = "answer" => AllShown \/ sending.size = 0 \/ sending.n \in swallowed'
  PROVE  Inbound' /\ Outbound'
<1>1. OutTypes /\ route \in BOOLEAN /\ tracked = 0
  BY DEF Outbound, Quiet, Inbound, InTypes, Streams
<1>2. /\ sending' = Idle /\ answered' = answered \cup sending.to /\ answered' \in SUBSET Messages
      /\ \/ sent' = sent
         \/ sending.kind = "answer" /\ sent' = sent \cup {<<sending.n, sending.size>>}
  BY <1>1, Ended
<1>3. PostsGrow
  BY DEF PostsGrow
<1>4. Inbound'
  BY <1>1, <1>2, QuietCall
<1>5. ASSUME sending.kind = "answer", sending.n \notin swallowed', NEW c \in 1 .. sending.size
      PROVE  Standing(posts', sending.n, c)
  <2>1. CASE AllShown
    BY <1>5, <2>1 DEF Outbound, Stands
  <2>2. CASE sending.size = 0
    BY <1>5, <2>2
  <2> QED BY <1>5, <2>1, <2>2
<1>6. \/ sent' = sent
      \/ /\ sent' = sent \cup {<<sending.n, sending.size>>}
         /\ sending.n \notin swallowed' => \A c \in 1 .. sending.size : Standing(posts', sending.n, c)
  BY <1>2, <1>5
<1>7. Outbound'
  BY <1>1, <1>2, <1>3, <1>6, SendEnds
<1> QED BY <1>4, <1>7

-----------------------------------------------------------------------------
(* Answers of several pieces, or with files.                               *)

\* The beginning of a send(), but for what the platform knows at its calls.
LEMMA QuietBegins ==
  ASSUME Inbound, Outbound, adapter \in Quiet, acts' \in Nat, sending = Idle, handed' = handed + 1,
         NEW sizes \in SUBSET Nat, NEW o \in Orders(sizes, BOOLEAN), NEW rung \in Rungs, Begins(o, rung),
         AllShown' => o.size = 0,
         UNCHANGED <<adapter, phase, link, at, seen, timer, typing, route>>,
         UNCHANGED <<posts, tracked, sent, swallowed, answered>>
  PROVE  /\ Inbound' /\ OutTypes' /\ Numbered' /\ Stands' /\ Streams'
         /\ sending'.kind = o.kind /\ sending'.size = o.size /\ sending'.rung = rung /\ sending'.shown = 0
<1>1. OutTypes
  BY DEF Outbound
<1>2. /\ o.to \in {{}, Open} /\ o.kind \in {"progress", "answer"} /\ o.to \in SUBSET Messages
      /\ o.kind = "progress" => o.to = {} /\ o.size = 1
      /\ o.size \in Nat
  BY OrdersAre
<1>3. /\ sending' \in Call /\ sending'.kind = o.kind /\ sending'.n = handed + 1
      /\ sending'.size = o.size /\ sending'.to = o.to /\ sending'.rung = rung /\ sending'.shown = 0
  BY <1>1, <1>2, Begun
<1>4. Inbound'
  BY <1>1, <1>2, <1>3, QuietSend
<1>5. OutTypes' /\ Numbered' /\ Stands' /\ Streams'
  BY <1>2, <1>3, SendBegins
<1> QED BY <1>3, <1>4, <1>5

\* A piece is posted, and it is the last one.
LEMMA QuietShown ==
  ASSUME Inbound, Outbound, adapter \in Quiet, acts' \in Nat, sending # Idle, ~AllShown, Returns,
         Posts(IF sending.kind = "progress" THEN 0 ELSE sending.shown + 1),
         sending.kind = "answer" => sending.shown + 1 = sending.size,
         UNCHANGED <<adapter, phase, link, at, seen, timer, typing, route, handed, tracked, swallowed>>
  PROVE  Inbound' /\ Outbound'
<1>1. OutTypes /\ route \in BOOLEAN /\ sending.shown \in Nat /\ tracked = 0
  BY DEF Outbound, OutTypes, Call, Inbound, InTypes, Streams, Quiet
<1>2. /\ sending' = Idle /\ answered' = answered \cup sending.to /\ answered' \in SUBSET Messages
      /\ \/ sent' = sent
         \/ sending.kind = "answer" /\ sent' = sent \cup {<<sending.n, sending.size>>}
  BY <1>1, Ended
<1>3. PostsGrow /\ (sending.kind = "answer" => Standing(posts', sending.n, sending.shown + 1))
  <2>1. (IF sending.kind = "progress" THEN 0 ELSE sending.shown + 1) \in Nat
    BY <1>1
  <2> QED BY <1>1, <2>1, Posted
<1>4. sending.kind = "answer" /\ sending.n \notin swallowed' =>
         \A c \in 1 .. sending.size : Standing(posts', sending.n, c)
  <2>1. swallowed \subseteq swallowed'
    OBVIOUS
  <2> QED BY <1>3, <2>1, ShownBefore
<1>5. Inbound'
  BY <1>1, <1>2, QuietCall
<1>6. \/ sent' = sent
      \/ /\ sent' = sent \cup {<<sending.n, sending.size>>}
         /\ sending.n \notin swallowed' => \A c \in 1 .. sending.size : Standing(posts', sending.n, c)
  BY <1>2, <1>4
<1>7. Outbound'
  <2>1. tracked' = 0 /\ swallowed \subseteq swallowed' /\ swallowed' \in SUBSET Nat
    BY <1>1 DEF OutTypes
  <2> QED BY <1>2, <1>3, <1>6, <2>1, SendEnds
<1> QED BY <1>5, <1>7

\* A piece is posted, or left out with an error that is only logged, and send()
\* goes on with the next one, or with what follows the text.
LEMMA QuietMore ==
  ASSUME Inbound, Outbound, adapter \in Quiet, acts' \in Nat, sending # Idle, ~AllShown,
         sending.kind = "answer", handed' = handed,
         \/ Posts(sending.shown + 1) /\ swallowed' = swallowed
         \/ posts' = posts /\ swallowed' = swallowed \cup {sending.n},
         sending' \in Call, sending'.kind = sending.kind, sending'.n = sending.n, sending'.to = sending.to,
         sending'.size = sending.size,
         \/ sending'.shown = sending.shown + 1 /\ sending'.shown < sending'.size /\ ~AllShown'
         \/ AllShown' /\ sending'.shown = sending.shown /\ sending.shown + 1 = sending.size,
         UNCHANGED <<adapter, phase, link, at, seen, timer, typing, route, tracked, sent, answered>>
  PROVE  Inbound' /\ OutTypes' /\ Numbered' /\ Stands' /\ Streams'
<1>1. /\ OutTypes /\ route \in BOOLEAN /\ sending.shown \in Nat /\ tracked = 0 /\ sending.n \in Nat
      /\ sending.size \in Nat /\ swallowed \in SUBSET Nat
  BY DEF Outbound, OutTypes, Call, Inbound, InTypes, Streams, Quiet
<1>2. Inbound'
  BY <1>1, QuietCall
<1>3. PostsGrow /\ swallowed \subseteq swallowed' /\ swallowed' \in SUBSET Nat
  <2>1. CASE Posts(sending.shown + 1) /\ swallowed' = swallowed
    <3>1. sending.shown + 1 \in Nat
      BY <1>1
    <3> QED BY <1>1, <2>1, <3>1, Posted
  <2>2. CASE posts' = posts /\ swallowed' = swallowed \cup {sending.n}
    BY <1>1, <2>2 DEF PostsGrow
  <2> QED BY <2>1, <2>2
<1>4. sending.n \notin swallowed' => \A c \in 1 .. sending.shown + 1 : Standing(posts', sending.n, c)
  <2>1. CASE Posts(sending.shown + 1) /\ swallowed' = swallowed
    <3>1. sending.shown + 1 \in Nat
      BY <1>1
    <3>2. Standing(posts', sending.n, sending.shown + 1)
      BY <1>1, <2>1, <3>1, Posted
    <3> QED BY <1>3, <3>2, ShownBefore
  <2> QED BY <2>1
<1>5. sending'.kind = "answer" /\ sending'.n \notin swallowed' =>
         \A c \in 1 .. IF AllShown' THEN sending'.size ELSE sending'.shown : Standing(posts', sending'.n, c)
  BY <1>4
<1>6. sending'.shown < sending'.size
  BY <1>1
<1>7. OutTypes' /\ Numbered' /\ Stands' /\ Streams'
  BY <1>1, <1>3, <1>5, <1>6, SendGoesOn
<1> QED BY <1>2, <1>7

-----------------------------------------------------------------------------
(* Feishu.                                                                 *)

\* The platform's module names the operators that all share.
LEMMA SameFeishu ==
  /\ FS!Idle = Idle
  /\ \A s, f : FS!Orders(s, f) = Orders(s, f)
  /\ \A o, r : FS!Begins(o, r) <=> Begins(o, r)
  /\ \A r : FS!GoesOn(r) <=> GoesOn(r)
  /\ \A c : FS!Posts(c) <=> Posts(c)
  /\ FS!Returns <=> Returns
  /\ FS!Last <=> Last
  /\ \A r : FS!NextPiece(r) <=> NextPiece(r)
  /\ \A r : FS!Awaits(r) <=> sending.rung = r
<1>1. FS!Idle = Idle
  BY Zenon DEF FS!Idle, Idle
<1>2. \A s, f : FS!Orders(s, f) = Orders(s, f)
  BY Zenon DEF FS!Orders, Orders, FS!Open, Open
<1>3. \A o, r : FS!Begins(o, r) <=> Begins(o, r)
  BY <1>1, Zenon DEF FS!Begins, Begins
<1>4. \A r : FS!GoesOn(r) <=> GoesOn(r)
  BY Zenon DEF FS!GoesOn, GoesOn
<1>5. \A c : FS!Posts(c) <=> Posts(c)
  BY Zenon DEF FS!Posts, Posts, FS!Piece, Piece
<1>6. FS!Returns <=> Returns
  BY <1>1, Zenon DEF FS!Returns, Returns
<1>7. FS!Last <=> Last
  BY Zenon DEF FS!Last, Last
<1>8. \A r : FS!NextPiece(r) <=> NextPiece(r)
  BY <1>6, <1>7, Zenon DEF FS!NextPiece, NextPiece
<1>9. \A r : FS!Awaits(r) <=> sending.rung = r
  BY Zenon DEF FS!Awaits
<1> QED BY <1>1, <1>2, <1>3, <1>4, <1>5, <1>6, <1>7, <1>8, <1>9

\* Handing a message to Feishu, and every call its send() awaits, keep the invariant.
LEMMA FeishuSends ==
  ASSUME Inbound, Outbound, adapter = "feishu",
         \/ \E o \in FS!Orders({0, 2}, BOOLEAN) : FS!Send(o) \/ (~FS!Client /\ FS!NotSent(o))
         \/ FS!FileDone \/ FS!Succeeds \/ FS!Fails
  PROVE  Inbound' /\ Outbound'
<1> USE SameFeishu
<1>0. adapter \in Quiet /\ acts \in Nat /\ handed \in Nat /\ OutTypes /\ route \in BOOLEAN
  BY DEF Quiet, Inbound, InTypes, Outbound, OutTypes
<1>1. ASSUME NEW o \in Orders({0, 2}, BOOLEAN), FS!Send(o)
      PROVE  Inbound' /\ Outbound'
  <2>1. /\ sending = Idle /\ handed' = handed + 1 /\ acts' \in Nat
        /\ UNCHANGED <<adapter, phase, link, at, seen, timer, typing, route>>
        /\ UNCHANGED <<posts, tracked, sent, swallowed, answered>>
    BY <1>0, <1>1 DEF FS!Send, FS!Hands, FS!Act, FS!life, FS!inbound
  <2>2. PICK rung \in Rungs : Begins(o, rung) /\ rung = IF o.file THEN "file" ELSE IF o.kind = "answer" THEN "reply" ELSE "post"
    BY <1>1, Zenon DEF FS!Send, Rungs
  <2>3. {0, 2} \in SUBSET Nat
    OBVIOUS
  <2>4. /\ o.kind = "progress" => o.size = 1 /\ o.file = FALSE
        /\ o.kind = "answer" => o.size \in {0, 2}
        /\ o.kind \in {"progress", "answer"} /\ o.size \in Nat /\ o.to \in SUBSET Messages
        /\ o.kind = "answer" /\ o.size = 0 => o.file
    BY <2>3, OrdersAre
  <2>5. sending'.rung = rung
    BY <1>0, <2>2, <2>4, Begun
  <2>6. AllShown' => o.size = 0
    BY <2>1, <2>2, <2>4, <2>5 DEF AllShown
  <2>7. /\ Inbound' /\ OutTypes' /\ Numbered' /\ Stands' /\ Streams'
        /\ sending'.kind = o.kind /\ sending'.size = o.size /\ sending'.shown = 0
    BY <1>0, <2>1, <2>2, <2>3, <2>6, QuietBegins
  <2>8. AtCall'
    BY <2>1, <2>2, <2>4, <2>5, <2>7 DEF AtCall
  <2> QED BY <2>7, <2>8 DEF Outbound
<1>2. ASSUME NEW o \in Orders({0, 2}, BOOLEAN), FS!NotSent(o)
      PROVE  Inbound' /\ Outbound'
  <2>1. /\ sending = Idle /\ handed' = handed + 1 /\ acts' \in Nat /\ answered' = answered \cup o.to
        /\ UNCHANGED <<adapter, phase, link, at, seen, timer, typing, route>>
        /\ UNCHANGED <<sending, posts, tracked, sent, swallowed>>
    BY <1>0, <1>2 DEF FS!NotSent, FS!Hands, FS!Act, FS!life, FS!inbound
  <2>2. o.to \in {{}, Open}
    <3>1. {0, 2} \in SUBSET Nat
      OBVIOUS
    <3> QED BY <3>1, OrdersAre
  <2> QED BY <1>0, <2>1, <2>2, QuietNotSent
<1>3. ~AllShown /\ ~AllShown'
  <2>1. adapter' = adapter
    BY DEF FS!Send, FS!NotSent, FS!FileDone, FS!Succeeds, FS!Fails, FS!life, FS!Aside
  <2> QED BY <2>1 DEF AllShown
<1>4. ASSUME sending.rung \in {"file", "reply", "post"}
      PROVE  /\ sending # Idle /\ sending.kind \in {"progress", "answer"} /\ sending.shown \in Nat /\ sending.size \in Nat
             /\ sending.kind = "progress" => sending.size = 1 /\ sending.shown = 0
             /\ sending.rung \in {"reply", "post"} => sending.shown < sending.size
             /\ sending.rung = "file" => sending.kind = "answer" /\ sending.shown = 0
  <2>1. sending # Idle
    BY <1>4, IdleCall DEF Rungs
  <2> QED BY <1>4, <2>1 DEF Outbound, Numbered, AtCall, OutTypes, Call
<1>5. ASSUME sending.rung \in {"file", "reply"}, acts' \in Nat, NEW rung \in {"reply", "post"}, GoesOn(rung),
             sending.rung = "file" => sending.size # 0, UNCHANGED <<sent, answered>>,
             UNCHANGED <<adapter, phase, link, at, seen, timer, typing, route, handed, posts, tracked, swallowed>>
      PROVE  Inbound' /\ Outbound'
  <2>1. /\ sending' \in Call /\ sending'.kind = sending.kind /\ sending'.n = sending.n
        /\ sending'.size = sending.size /\ sending'.to = sending.to /\ sending'.rung = rung
        /\ sending'.shown = sending.shown
    BY <1>0, <1>5, GoneOn DEF Rungs
  <2>2. sending # Idle /\ swallowed \subseteq swallowed' /\ swallowed' \in SUBSET Nat
    BY <1>0, <1>4, <1>5 DEF OutTypes
  <2>3. OutTypes' /\ Numbered' /\ Stands' /\ Streams'
    BY <1>3, <1>5, <2>1, <2>2, CallMoves
  <2>4. Inbound'
    BY <1>0, <1>5, <2>1, QuietCall
  <2>5. AtCall'
    BY <1>4, <1>5, <2>1 DEF AtCall
  <2> QED BY <2>3, <2>4, <2>5 DEF Outbound
<1>6. ASSUME FS!FileDone PROVE Inbound' /\ Outbound'
  <2>1. /\ sending.rung = "file" /\ acts' \in Nat
        /\ UNCHANGED <<adapter, phase, link, at, seen, timer, typing, route, handed, posts, tracked, swallowed>>
    BY <1>0, <1>6 DEF FS!FileDone, FS!Aside, FS!life, FS!inbound
  <2>2. CASE sending.size = 0
    <3>1. Returns
      BY <1>6, <2>2 DEF FS!FileDone
    <3>2. swallowed \subseteq swallowed' /\ swallowed' \in SUBSET Nat
      BY <1>0, <2>1 DEF OutTypes
    <3> QED BY <1>0, <1>4, <2>1, <2>2, <3>1, <3>2, QuietEnds
  <2>3. CASE sending.size # 0
    <3>1. PICK rung \in {"reply", "post"} : GoesOn(rung) /\ UNCHANGED <<sent, answered>>
      BY <1>6, <2>3 DEF FS!FileDone
    <3> QED BY <1>5, <2>1, <2>3, <3>1
  <2> QED BY <2>2, <2>3
<1>7. ASSUME sending.rung \in {"reply", "post"}, NextPiece("post"), ~Returns
      PROVE  /\ sending' \in Call /\ sending'.kind = sending.kind /\ sending'.n = sending.n
             /\ sending'.size = sending.size /\ sending'.to = sending.to /\ sending'.rung = "post"
             /\ sending'.shown = sending.shown + 1 /\ sending'.shown < sending'.size
             /\ sent' = sent /\ answered' = answered /\ sending.kind = "answer"
  <2>1. sending.shown < sending.size
    BY <1>4, <1>7
  <2>2. /\ sending' \in Call /\ sending'.kind = sending.kind /\ sending'.n = sending.n
        /\ sending'.size = sending.size /\ sending'.to = sending.to /\ sending'.rung = "post"
        /\ sending'.shown = sending.shown + 1 /\ sending'.shown < sending'.size
        /\ sent' = sent /\ answered' = answered /\ sending.shown + 1 # sending.size
    BY <1>0, <1>7, <2>1, PieceShown DEF Rungs
  <2> QED BY <1>4, <1>7, <2>2
<1>8. ASSUME sending.rung \in {"reply", "post"}, NextPiece("post"), Returns
      PROVE  sending.shown + 1 = sending.size
  <2>1. sending.shown < sending.size
    BY <1>4, <1>8
  <2>2. sending' = Idle /\ Idle.rung # "post"
    BY <1>8, IdleCall DEF Returns, Rungs
  <2> QED BY <1>0, <1>8, <2>1, <2>2, PieceShown DEF Rungs
<1>9. ASSUME FS!Succeeds PROVE Inbound' /\ Outbound'
  <2>1. /\ sending.rung \in {"reply", "post"} /\ acts' \in Nat /\ NextPiece("post")
        /\ Posts(IF sending.kind = "progress" THEN 0 ELSE sending.shown + 1)
        /\ UNCHANGED <<adapter, phase, link, at, seen, timer, typing, route, handed, tracked, swallowed>>
    BY <1>0, <1>9 DEF FS!Succeeds, FS!Aside, FS!life, FS!inbound
  <2>2. CASE Returns
    BY <1>0, <1>3, <1>4, <1>8, <2>1, <2>2, QuietShown
  <2>3. CASE ~Returns
    <3>1. Posts(sending.shown + 1)
      BY <1>7, <2>1, <2>3
    <3>2. Inbound' /\ OutTypes' /\ Numbered' /\ Stands' /\ Streams'
      BY <1>0, <1>3, <1>4, <1>7, <2>1, <2>3, <3>1, QuietMore
    <3>3. AtCall'
      BY <1>4, <1>7, <2>1, <2>3 DEF AtCall
    <3> QED BY <3>2, <3>3 DEF Outbound
  <2> QED BY <2>2, <2>3
<1>10. ASSUME FS!Fails PROVE Inbound' /\ Outbound'
  <2>1. /\ acts' \in Nat
        /\ UNCHANGED <<adapter, phase, link, at, seen, timer, typing, route, handed, posts, tracked>>
    BY <1>0, <1>10 DEF FS!Fails, FS!Act, FS!Aside, FS!life, FS!inbound
  <2>2. \/ sending.rung = "reply" /\ GoesOn("post") /\ UNCHANGED <<sent, swallowed, answered>>
        \/ sending.rung = "post" /\ swallowed' = swallowed \cup {sending.n} /\ NextPiece("post")
    BY <1>10 DEF FS!Fails
  <2>3. CASE sending.rung = "reply" /\ GoesOn("post") /\ UNCHANGED <<sent, swallowed, answered>>
    BY <1>5, <2>1, <2>3
  <2>4. CASE sending.rung = "post" /\ swallowed' = swallowed \cup {sending.n} /\ NextPiece("post")
    <3>1. CASE Returns
      BY <1>0, <1>4, <2>1, <2>4, <3>1, QuietFails
    <3>2. CASE ~Returns
      <4>1. Inbound' /\ OutTypes' /\ Numbered' /\ Stands' /\ Streams'
        BY <1>0, <1>3, <1>4, <1>7, <2>1, <2>4, <3>2, QuietMore
      <4>2. AtCall'
        BY <1>4, <1>7, <2>1, <2>4, <3>2 DEF AtCall
      <4> QED BY <4>1, <4>2 DEF Outbound
    <3> QED BY <3>1, <3>2
  <2> QED BY <2>2, <2>3, <2>4
<1> QED BY <1>1, <1>2, <1>6, <1>9, <1>10

\* Every step of Feishu keeps the invariant.
LEMMA FeishuStep ==
  ASSUME Inbound, Outbound, adapter = "feishu", FS!Next
  PROVE  Inbound' /\ Outbound'
<1> USE DEF Inbound, InTypes, Once, Honest, Deliveries, Where, Names, OneByOne, Cached
<1>1. ASSUME FS!Start PROVE Inbound' /\ Outbound'
  <2>1. UNCHANGED <<adapter, outbound>>
    BY <1>1 DEF FS!Start, FS!life, FS!inbound, FS!outbound, outbound
  <2>2. InTypes'
    BY <1>1, <2>1 DEF FS!Start, FS!life, FS!inbound
  <2>3. Once'
    BY <1>1, <2>1 DEF FS!Start, FS!life, FS!inbound, Once
  <2>4. \A d \in Deliveries : at[d] = "done" => at'[d] = "done"
    BY <1>1 DEF FS!Start, FS!life, FS!inbound
  <2>5. Served'
    BY <2>1, <2>4, DoneStays DEF Outbound, outbound
  <2>6. Honest'
    BY <1>1, <2>1 DEF FS!Start, FS!life, FS!inbound, outbound, Served
  <2> QED BY <2>1, <2>2, <2>3, <2>5, <2>6, OutboundRests
<1>2. ASSUME FS!Stop PROVE Inbound' /\ Outbound'
  <2>1. UNCHANGED <<adapter, outbound>>
    BY <1>2 DEF FS!Stop, FS!Act, FS!life, FS!inbound, FS!outbound, outbound
  <2>8. at' \in [Deliveries -> Where]
    BY <1>2 DEF FS!Stop, FS!Act, FS!life, FS!inbound
  <2>20. adapter' \in Names
    BY <1>2 DEF FS!Stop, FS!Act, FS!life, FS!inbound
  <2>21. phase' \in {"new", "starting", "up", "left", "stopping", "down"}
    BY <1>2 DEF FS!Stop, FS!Act, FS!life, FS!inbound
  <2>22. seen' \in SUBSET Messages
    BY <1>2 DEF FS!Stop, FS!Act, FS!life, FS!inbound
  <2>23. acts' \in Nat
    BY <1>2 DEF FS!Stop, FS!Act, FS!life, FS!inbound
  <2>24. link' \in BOOLEAN
    BY <1>2 DEF FS!Stop, FS!Act, FS!life, FS!inbound
  <2>25. timer' \in BOOLEAN
    BY <1>2 DEF FS!Stop, FS!Act, FS!life, FS!inbound
  <2>26. typing' \in BOOLEAN
    BY <1>2 DEF FS!Stop, FS!Act, FS!life, FS!inbound
  <2>27. route' \in BOOLEAN
    BY <1>2 DEF FS!Stop, FS!Act, FS!life, FS!inbound
  <2>2. InTypes'
    BY <2>8, <2>20, <2>21, <2>22, <2>23, <2>24, <2>25, <2>26, <2>27, Zenon
  <2>3. Once'
    BY <1>2, <2>8, <2>20, <2>21, <2>22, <2>23, <2>24, <2>25, <2>26, <2>27, <2>1 DEF
           FS!Stop, FS!Act, FS!life, FS!inbound, Once
  <2>4. \A d \in Deliveries : at[d] = "done" => at'[d] = "done"
    BY <1>2 DEF FS!Stop, FS!Act, FS!life, FS!inbound
  <2>5. Served'
    BY <2>1, <2>4, DoneStays DEF Outbound, outbound
  <2>6. Honest'
    BY <1>2, <2>1 DEF FS!Stop, FS!Act, FS!life, FS!inbound, outbound, Served
  <2> QED BY <2>1, <2>2, <2>3, <2>5, <2>6, OutboundRests
<1>3. ASSUME NEW m \in Messages, FS!Said(m, "due") PROVE Inbound' /\ Outbound'
  <2>1. UNCHANGED <<adapter, outbound>>
    BY <1>3 DEF FS!Said, FS!Act, FS!Moves, FS!life, FS!inbound, FS!outbound, outbound
  <2>2. InTypes'
    BY <1>3, <2>1 DEF FS!Said, FS!Act, FS!Moves, FS!life, FS!inbound
  <2>3. Once'
    BY <1>3, <2>1 DEF FS!Said, FS!Act, FS!Moves, FS!life, FS!inbound, Once
  <2>4. \A d \in Deliveries : at[d] = "done" => at'[d] = "done"
    BY <1>3 DEF FS!Said, FS!Act, FS!Moves, FS!life, FS!inbound
  <2>5. Served'
    BY <2>1, <2>4, DoneStays DEF Outbound, outbound
  <2>6. Honest'
    BY <1>3, <2>1 DEF FS!Said, FS!Act, FS!Moves, FS!life, FS!inbound, outbound, Served
  <2> QED BY <2>1, <2>2, <2>3, <2>5, <2>6, OutboundRests
<1>4. ASSUME NEW m \in Messages, FS!Again(m) PROVE Inbound' /\ Outbound'
  <2>1. UNCHANGED <<adapter, outbound>>
    BY <1>4 DEF FS!Again, FS!Act, FS!Moves, FS!life, FS!inbound, FS!outbound, outbound
  <2>2. InTypes'
    BY <1>4, <2>1 DEF FS!Again, FS!Act, FS!Moves, FS!life, FS!inbound
  <2>3. Once'
    BY <1>4, <2>1 DEF FS!Again, FS!Act, FS!Moves, FS!life, FS!inbound, Once
  <2>4. \A d \in Deliveries : at[d] = "done" => at'[d] = "done"
    BY <1>4 DEF FS!Again, FS!Act, FS!Moves, FS!life, FS!inbound
  <2>5. Served'
    BY <2>1, <2>4, DoneStays DEF Outbound, outbound
  <2>6. Honest'
    BY <1>4, <2>1 DEF FS!Again, FS!Act, FS!Moves, FS!life, FS!inbound, outbound, Served
  <2> QED BY <2>1, <2>2, <2>3, <2>5, <2>6, OutboundRests
<1>5. ASSUME NEW e \in Deliveries, FS!Deliver(e) PROVE Inbound' /\ Outbound'
  <2>1. UNCHANGED <<adapter, outbound>>
    BY <1>5 DEF FS!Deliver, FS!Remembers, FS!Moves, FS!Deliveries, FS!life, FS!inbound,
           FS!outbound, outbound
  <2>2. InTypes'
    BY <1>5, <2>1 DEF FS!Deliver, FS!Remembers, FS!Moves, FS!Deliveries, FS!life,
           FS!inbound
  <2>3. Once'
    BY <1>5, <2>1 DEF FS!Deliver, FS!Remembers, FS!Moves, FS!Deliveries, FS!life,
           FS!inbound, Once
  <2>4. \A d \in Deliveries : at[d] = "done" => at'[d] = "done"
    BY <1>5 DEF FS!Deliver, FS!Remembers, FS!Moves, FS!Deliveries, FS!life, FS!inbound
  <2>5. Served'
    BY <2>1, <2>4, DoneStays DEF Outbound, outbound
  <2>6. Honest'
    BY <1>5, <2>1 DEF FS!Deliver, FS!Remembers, FS!Moves, FS!Deliveries, FS!life,
           FS!inbound, outbound, Served
  <2> QED BY <2>1, <2>2, <2>3, <2>5, <2>6, OutboundRests
<1>6. ASSUME NEW e \in Deliveries, FS!Reacted(e) PROVE Inbound' /\ Outbound'
  <2>1. UNCHANGED <<adapter, outbound>>
    BY <1>6 DEF FS!Reacted, FS!Moves, FS!Deliveries, FS!life, FS!inbound, FS!outbound,
           outbound
  <2>2. InTypes'
    BY <1>6, <2>1 DEF FS!Reacted, FS!Moves, FS!Deliveries, FS!life, FS!inbound
  <2>3. Once'
    BY <1>6, <2>1 DEF FS!Reacted, FS!Moves, FS!Deliveries, FS!life, FS!inbound, Once
  <2>4. \A d \in Deliveries : at[d] = "done" => at'[d] = "done"
    BY <1>6 DEF FS!Reacted, FS!Moves, FS!Deliveries, FS!life, FS!inbound
  <2>5. Served'
    BY <2>1, <2>4, DoneStays DEF Outbound, outbound
  <2>6. Honest'
    BY <1>6, <2>1 DEF FS!Reacted, FS!Moves, FS!Deliveries, FS!life, FS!inbound,
           outbound, Served
  <2> QED BY <2>1, <2>2, <2>3, <2>5, <2>6, OutboundRests
<1>7. ASSUME NEW e \in Deliveries, FS!Fetched(e) PROVE Inbound' /\ Outbound'
  <2>1. UNCHANGED <<adapter, outbound>>
    BY <1>7 DEF FS!Fetched, FS!Act, FS!Moves, FS!Deliveries, FS!life, FS!inbound,
           FS!outbound, outbound
  <2>2. InTypes'
    BY <1>7, <2>1 DEF FS!Fetched, FS!Act, FS!Moves, FS!Deliveries, FS!life, FS!inbound
  <2>3. Once'
    BY <1>7, <2>1 DEF FS!Fetched, FS!Act, FS!Moves, FS!Deliveries, FS!life, FS!inbound,
           Once
  <2>4. \A d \in Deliveries : at[d] = "done" => at'[d] = "done"
    BY <1>7 DEF FS!Fetched, FS!Act, FS!Moves, FS!Deliveries, FS!life, FS!inbound
  <2>5. Served'
    BY <2>1, <2>4, DoneStays DEF Outbound, outbound
  <2>6. Honest'
    BY <1>7, <2>1 DEF FS!Fetched, FS!Act, FS!Moves, FS!Deliveries, FS!life, FS!inbound,
           outbound, Served
  <2> QED BY <2>1, <2>2, <2>3, <2>5, <2>6, OutboundRests
<1> QED
  BY <1>1, <1>2, <1>3, <1>4, <1>5, <1>6, <1>7, FeishuSends DEF FS!Next, FS!Handlers, FS!Deliveries

-----------------------------------------------------------------------------
(* Slack.                                                                  *)

\* The platform's module names the operators that all share.
LEMMA SameSlack ==
  /\ SL!Idle = Idle
  /\ \A s, f : SL!Orders(s, f) = Orders(s, f)
  /\ \A o, r : SL!Begins(o, r) <=> Begins(o, r)
  /\ \A r : SL!GoesOn(r) <=> GoesOn(r)
  /\ \A c : SL!Posts(c) <=> Posts(c)
  /\ SL!Returns <=> Returns
  /\ SL!Swallows <=> Returns /\ swallowed' = swallowed \cup {sending.n}
  /\ \A r : SL!Awaits(r) <=> sending.rung = r
<1>1. SL!Idle = Idle
  BY Zenon DEF SL!Idle, Idle
<1>2. \A s, f : SL!Orders(s, f) = Orders(s, f)
  BY Zenon DEF SL!Orders, Orders, SL!Open, Open
<1>3. \A o, r : SL!Begins(o, r) <=> Begins(o, r)
  BY <1>1, Zenon DEF SL!Begins, Begins
<1>4. \A r : SL!GoesOn(r) <=> GoesOn(r)
  BY Zenon DEF SL!GoesOn, GoesOn
<1>5. \A c : SL!Posts(c) <=> Posts(c)
  BY Zenon DEF SL!Posts, Posts, SL!Piece, Piece
<1>6. SL!Returns <=> Returns
  BY <1>1, Zenon DEF SL!Returns, Returns
<1>7. SL!Swallows <=> Returns /\ swallowed' = swallowed \cup {sending.n}
  BY <1>6, Zenon DEF SL!Swallows
<1>8. \A r : SL!Awaits(r) <=> sending.rung = r
  BY Zenon DEF SL!Awaits
<1> QED BY <1>1, <1>2, <1>3, <1>4, <1>5, <1>6, <1>7, <1>8

\* Handing a message to Slack, and every call its send() awaits, keep the invariant.
LEMMA SlackSends ==
  ASSUME Inbound, Outbound, adapter = "slack",
         \/ \E o \in SL!Orders({0, 1}, BOOLEAN) : SL!Send(o) \/ (~SL!Client /\ SL!NotSent(o))
         \/ SL!TextSent \/ SL!FileDone \/ SL!Fails
  PROVE  Inbound' /\ Outbound'
<1> USE SameSlack
<1>0. adapter \in Quiet /\ acts \in Nat /\ handed \in Nat /\ OutTypes /\ route \in BOOLEAN
  BY DEF Quiet, Inbound, InTypes, Outbound, OutTypes
<1>1. ASSUME NEW o \in Orders({0, 1}, BOOLEAN), SL!Send(o)
      PROVE  Inbound' /\ Outbound'
  <2>1. /\ sending = Idle /\ handed' = handed + 1 /\ acts' \in Nat
        /\ UNCHANGED <<adapter, phase, link, at, seen, timer, typing, route>>
        /\ UNCHANGED <<posts, tracked, sent, swallowed, answered>>
    BY <1>0, <1>1 DEF SL!Send, SL!Hands, SL!Act, SL!life, SL!inbound
  <2>2. PICK rung \in Rungs : Begins(o, rung) /\ rung = IF o.size = 0 THEN "file" ELSE "text"
    BY <1>1, Zenon DEF SL!Send, Rungs
  <2>3. {0, 1} \in SUBSET Nat
    OBVIOUS
  <2>4. /\ o.kind = "progress" => o.size = 1 /\ o.file = FALSE
        /\ o.kind = "answer" => o.size \in {0, 1}
        /\ o.kind \in {"progress", "answer"} /\ o.size \in Nat /\ o.to \in SUBSET Messages
        /\ o.kind = "answer" /\ o.size = 0 => o.file
    BY <2>3, OrdersAre
  <2>5. sending'.rung = rung
    BY <1>0, <2>2, <2>4, Begun
  <2>6. AllShown' => o.size = 0
    BY <2>1, <2>2, <2>4, <2>5 DEF AllShown
  <2>7. /\ Inbound' /\ OutTypes' /\ Numbered' /\ Stands' /\ Streams'
        /\ sending'.kind = o.kind /\ sending'.size = o.size /\ sending'.shown = 0
    BY <1>0, <2>1, <2>2, <2>3, <2>6, QuietBegins
  <2>8. AtCall'
    BY <2>1, <2>2, <2>4, <2>5, <2>7 DEF AtCall
  <2> QED BY <2>7, <2>8 DEF Outbound
<1>2. ASSUME NEW o \in Orders({0, 1}, BOOLEAN), SL!NotSent(o)
      PROVE  Inbound' /\ Outbound'
  <2>1. /\ sending = Idle /\ handed' = handed + 1 /\ acts' \in Nat /\ answered' = answered \cup o.to
        /\ UNCHANGED <<adapter, phase, link, at, seen, timer, typing, route>>
        /\ UNCHANGED <<sending, posts, tracked, sent, swallowed>>
    BY <1>0, <1>2 DEF SL!NotSent, SL!Hands, SL!Act, SL!life, SL!inbound
  <2>2. o.to \in {{}, Open}
    <3>1. {0, 1} \in SUBSET Nat
      OBVIOUS
    <3> QED BY <3>1, OrdersAre
  <2> QED BY <1>0, <2>1, <2>2, QuietNotSent
<1>3. ASSUME SL!TextSent PROVE Inbound' /\ Outbound'
  <2>1. /\ sending.rung = "text" /\ Posts(IF sending.kind = "progress" THEN 0 ELSE 1)
        /\ IF sending.kind = "progress" THEN Returns ELSE GoesOn("file") /\ UNCHANGED <<sent, answered>>
        /\ acts' \in Nat /\ UNCHANGED <<adapter, phase, link, at, seen, timer, typing, route, handed, tracked, swallowed>>
    BY <1>0, <1>3 DEF SL!TextSent, SL!Aside, SL!life, SL!inbound
  <2>2. sending # Idle
    BY <2>1, IdleCall DEF Rungs
  <2>3. /\ sending.kind \in {"progress", "answer"} /\ sending.shown = 0 /\ sending.size = 1
        /\ sending.shown + 1 = 1 /\ ~AllShown
    BY <2>1, <2>2 DEF Outbound, Numbered, AtCall, AllShown, OutTypes, Call
  <2>4. CASE sending.kind = "progress"
    BY <1>0, <2>1, <2>2, <2>3, <2>4, QuietShown
  <2>5. CASE sending.kind = "answer"
    <3>1. GoesOn("file") /\ Posts(sending.shown + 1) /\ UNCHANGED <<sent, answered>>
      BY <2>1, <2>3, <2>5
    <3>2. /\ sending' \in Call /\ sending'.kind = sending.kind /\ sending'.n = sending.n
          /\ sending'.size = sending.size /\ sending'.to = sending.to /\ sending'.rung = "file"
          /\ sending'.shown = sending.shown
      BY <1>0, <3>1, GoneOn DEF Rungs
    <3>3. AllShown'
      BY <2>1, <3>2 DEF AllShown
    <3>4. Inbound' /\ OutTypes' /\ Numbered' /\ Stands' /\ Streams'
      BY <1>0, <2>1, <2>2, <2>3, <2>5, <3>1, <3>2, <3>3, QuietMore
    <3>5. AtCall'
      BY <2>1, <2>3, <2>5, <3>2 DEF AtCall
    <3> QED BY <3>4, <3>5 DEF Outbound
  <2> QED BY <2>3, <2>4, <2>5
<1>4. ASSUME SL!FileDone PROVE Inbound' /\ Outbound'
  <2>1. /\ sending.rung = "file" /\ Returns /\ acts' \in Nat
        /\ UNCHANGED <<adapter, phase, link, at, seen, timer, typing, route, handed, posts, tracked, swallowed>>
    BY <1>0, <1>4 DEF SL!FileDone, SL!Aside, SL!life, SL!inbound
  <2>2. sending # Idle /\ AllShown /\ swallowed \subseteq swallowed' /\ swallowed' \in SUBSET Nat
    BY <1>0, <2>1, IdleCall DEF Rungs, AllShown, OutTypes
  <2> QED BY <1>0, <2>1, <2>2, QuietEnds
<1>5. ASSUME SL!Fails PROVE Inbound' /\ Outbound'
  <2>1. /\ sending.rung = "text" /\ acts' \in Nat /\ Returns /\ swallowed' = swallowed \cup {sending.n}
        /\ UNCHANGED <<adapter, phase, link, at, seen, timer, typing, route, handed, posts, tracked>>
    BY <1>0, <1>5 DEF SL!Fails, SL!Act, SL!Aside, SL!life, SL!inbound
  <2>2. sending # Idle
    BY <2>1, IdleCall DEF Rungs
  <2> QED BY <1>0, <2>1, <2>2, QuietFails
<1> QED BY <1>1, <1>2, <1>3, <1>4, <1>5

\* Every step of Slack keeps the invariant.
LEMMA SlackStep ==
  ASSUME Inbound, Outbound, adapter = "slack", SL!Next
  PROVE  Inbound' /\ Outbound'
<1> USE DEF Inbound, InTypes, Once, Honest, Deliveries, Where, Names, OneByOne, Cached
<1>1. ASSUME SL!Start PROVE Inbound' /\ Outbound'
  <2>1. UNCHANGED <<adapter, outbound>>
    BY <1>1 DEF SL!Start, SL!Act, SL!life, SL!inbound, SL!outbound, outbound
  <2>10. route' \in BOOLEAN
    BY <1>1, Zenon DEF SL!Start, SL!Act, SL!life, SL!inbound
  <2>8. at' \in [Deliveries -> Where]
    BY <1>1 DEF SL!Start, SL!Act, SL!life, SL!inbound
  <2>20. adapter' \in Names
    BY <1>1 DEF SL!Start, SL!Act, SL!life, SL!inbound
  <2>21. phase' \in {"new", "starting", "up", "left", "stopping", "down"}
    BY <1>1 DEF SL!Start, SL!Act, SL!life, SL!inbound
  <2>22. seen' \in SUBSET Messages
    BY <1>1 DEF SL!Start, SL!Act, SL!life, SL!inbound
  <2>23. acts' \in Nat
    BY <1>1 DEF SL!Start, SL!Act, SL!life, SL!inbound
  <2>24. link' \in BOOLEAN
    BY <1>1 DEF SL!Start, SL!Act, SL!life, SL!inbound
  <2>25. timer' \in BOOLEAN
    BY <1>1 DEF SL!Start, SL!Act, SL!life, SL!inbound
  <2>26. typing' \in BOOLEAN
    BY <1>1 DEF SL!Start, SL!Act, SL!life, SL!inbound
  <2>2. InTypes'
    BY <2>10, <2>8, <2>20, <2>21, <2>22, <2>23, <2>24, <2>25, <2>26, Zenon
  <2>3. Once'
    BY <1>1, <2>10, <2>8, <2>20, <2>21, <2>22, <2>23, <2>24, <2>25, <2>26, <2>1 DEF
           SL!Start, SL!Act, SL!life, SL!inbound, Once
  <2>4. \A d \in Deliveries : at[d] = "done" => at'[d] = "done"
    BY <1>1 DEF SL!Start, SL!Act, SL!life, SL!inbound
  <2>5. Served'
    BY <2>1, <2>4, DoneStays DEF Outbound, outbound
  <2>6. Honest'
    BY <1>1, <2>1 DEF SL!Start, SL!Act, SL!life, SL!inbound, outbound, Served
  <2> QED BY <2>1, <2>2, <2>3, <2>5, <2>6, OutboundRests
<1>2. ASSUME SL!Stop PROVE Inbound' /\ Outbound'
  <2>1. UNCHANGED <<adapter, outbound>>
    BY <1>2 DEF SL!Stop, SL!Act, SL!life, SL!inbound, SL!outbound, outbound
  <2>8. at' \in [Deliveries -> Where]
    BY <1>2 DEF SL!Stop, SL!Act, SL!life, SL!inbound
  <2>20. adapter' \in Names
    BY <1>2 DEF SL!Stop, SL!Act, SL!life, SL!inbound
  <2>21. phase' \in {"new", "starting", "up", "left", "stopping", "down"}
    BY <1>2 DEF SL!Stop, SL!Act, SL!life, SL!inbound
  <2>22. seen' \in SUBSET Messages
    BY <1>2 DEF SL!Stop, SL!Act, SL!life, SL!inbound
  <2>23. acts' \in Nat
    BY <1>2 DEF SL!Stop, SL!Act, SL!life, SL!inbound
  <2>24. link' \in BOOLEAN
    BY <1>2 DEF SL!Stop, SL!Act, SL!life, SL!inbound
  <2>25. timer' \in BOOLEAN
    BY <1>2 DEF SL!Stop, SL!Act, SL!life, SL!inbound
  <2>26. typing' \in BOOLEAN
    BY <1>2 DEF SL!Stop, SL!Act, SL!life, SL!inbound
  <2>27. route' \in BOOLEAN
    BY <1>2 DEF SL!Stop, SL!Act, SL!life, SL!inbound
  <2>2. InTypes'
    BY <2>8, <2>20, <2>21, <2>22, <2>23, <2>24, <2>25, <2>26, <2>27, Zenon
  <2>3. Once'
    BY <1>2, <2>8, <2>20, <2>21, <2>22, <2>23, <2>24, <2>25, <2>26, <2>27, <2>1 DEF
           SL!Stop, SL!Act, SL!life, SL!inbound, Once
  <2>4. \A d \in Deliveries : at[d] = "done" => at'[d] = "done"
    BY <1>2 DEF SL!Stop, SL!Act, SL!life, SL!inbound
  <2>5. Served'
    BY <2>1, <2>4, DoneStays DEF Outbound, outbound
  <2>6. Honest'
    BY <1>2, <2>1 DEF SL!Stop, SL!Act, SL!life, SL!inbound, outbound, Served
  <2> QED BY <2>1, <2>2, <2>3, <2>5, <2>6, OutboundRests
<1>3. ASSUME NEW m \in Messages, SL!Write(m) PROVE Inbound' /\ Outbound'
  <2>1. UNCHANGED <<adapter, outbound>>
    BY <1>3 DEF SL!Write, SL!Act, SL!life, SL!inbound, SL!outbound, outbound
  <2>2. InTypes'
    BY <1>3, <2>1 DEF SL!Write, SL!Act, SL!life, SL!inbound
  <2>3. Once'
    BY <1>3, <2>1 DEF SL!Write, SL!Act, SL!life, SL!inbound, Once
  <2>5. Served'
    BY <2>1 DEF Served, outbound
  <2>6. Honest'
    BY <1>3, <2>1 DEF SL!Write, SL!Act, SL!life, SL!inbound, outbound, Served
  <2> QED BY <2>1, <2>2, <2>3, <2>5, <2>6, OutboundRests
<1>4. ASSUME NEW e \in Deliveries, SL!Deliver(e) PROVE Inbound' /\ Outbound'
  <2>1. UNCHANGED <<adapter, outbound>>
    BY <1>4 DEF SL!Deliver, SL!Moves, SL!Deliveries, SL!life, SL!inbound, SL!outbound,
           outbound
  <2>2. InTypes'
    BY <1>4, <2>1 DEF SL!Deliver, SL!Moves, SL!Deliveries, SL!life, SL!inbound
  <2>3. Once'
    BY <1>4, <2>1 DEF SL!Deliver, SL!Moves, SL!Deliveries, SL!life, SL!inbound, Once
  <2>4. \A d \in Deliveries : at[d] = "done" => at'[d] = "done"
    BY <1>4 DEF SL!Deliver, SL!Moves, SL!Deliveries, SL!life, SL!inbound
  <2>5. Served'
    BY <2>1, <2>4, DoneStays DEF Outbound, outbound
  <2>6. Honest'
    BY <1>4, <2>1 DEF SL!Deliver, SL!Moves, SL!Deliveries, SL!life, SL!inbound,
           outbound, Served
  <2> QED BY <2>1, <2>2, <2>3, <2>5, <2>6, OutboundRests
<1>5. ASSUME NEW e \in Deliveries, SL!AckFails(e) PROVE Inbound' /\ Outbound'
  <2>1. UNCHANGED <<adapter, outbound>>
    BY <1>5 DEF SL!AckFails, SL!Act, SL!Moves, SL!Deliveries, SL!life, SL!inbound,
           SL!outbound, outbound
  <2>2. InTypes'
    BY <1>5, <2>1 DEF SL!AckFails, SL!Act, SL!Moves, SL!Deliveries, SL!life, SL!inbound
  <2>3. Once'
    BY <1>5, <2>1 DEF SL!AckFails, SL!Act, SL!Moves, SL!Deliveries, SL!life, SL!inbound,
           Once
  <2>4. \A d \in Deliveries : at[d] = "done" => at'[d] = "done"
    BY <1>5 DEF SL!AckFails, SL!Act, SL!Moves, SL!Deliveries, SL!life, SL!inbound
  <2>5. Served'
    BY <2>1, <2>4, DoneStays DEF Outbound, outbound
  <2>6. Honest'
    BY <1>5, <2>1 DEF SL!AckFails, SL!Act, SL!Moves, SL!Deliveries, SL!life, SL!inbound,
           outbound, Served
  <2> QED BY <2>1, <2>2, <2>3, <2>5, <2>6, OutboundRests
<1>6. ASSUME NEW e \in Deliveries, SL!Acknowledged(e) PROVE Inbound' /\ Outbound'
  <2>1. UNCHANGED <<adapter, outbound>>
    BY <1>6 DEF SL!Acknowledged, SL!Twin, SL!Moves, SL!Deliveries, SL!life, SL!inbound,
           SL!outbound, outbound
  <2>2. InTypes'
    BY <1>6, <2>1 DEF SL!Acknowledged, SL!Twin, SL!Moves, SL!Deliveries, SL!life,
           SL!inbound
  <2>3. Once'
    BY <1>6, <2>1 DEF SL!Acknowledged, SL!Twin, SL!Moves, SL!Deliveries, SL!life,
           SL!inbound, Once
  <2>4. \A d \in Deliveries : at[d] = "done" => at'[d] = "done"
    BY <1>6 DEF SL!Acknowledged, SL!Twin, SL!Moves, SL!Deliveries, SL!life, SL!inbound
  <2>5. Served'
    BY <2>1, <2>4, DoneStays DEF Outbound, outbound
  <2>6. Honest'
    BY <1>6, <2>1 DEF SL!Acknowledged, SL!Twin, SL!Moves, SL!Deliveries, SL!life,
           SL!inbound, outbound, Served
  <2> QED BY <2>1, <2>2, <2>3, <2>5, <2>6, OutboundRests
<1>7. ASSUME NEW e \in Deliveries, SL!Reacted(e) PROVE Inbound' /\ Outbound'
  <2>1. UNCHANGED <<adapter, outbound>>
    BY <1>7 DEF SL!Reacted, SL!Moves, SL!Deliveries, SL!life, SL!inbound, SL!outbound,
           outbound
  <2>2. InTypes'
    BY <1>7, <2>1 DEF SL!Reacted, SL!Moves, SL!Deliveries, SL!life, SL!inbound
  <2>3. Once'
    BY <1>7, <2>1 DEF SL!Reacted, SL!Moves, SL!Deliveries, SL!life, SL!inbound, Once
  <2>4. \A d \in Deliveries : at[d] = "done" => at'[d] = "done"
    BY <1>7 DEF SL!Reacted, SL!Moves, SL!Deliveries, SL!life, SL!inbound
  <2>5. Served'
    BY <2>1, <2>4, DoneStays DEF Outbound, outbound
  <2>6. Honest'
    BY <1>7, <2>1 DEF SL!Reacted, SL!Moves, SL!Deliveries, SL!life, SL!inbound,
           outbound, Served
  <2> QED BY <2>1, <2>2, <2>3, <2>5, <2>6, OutboundRests
<1> QED
  BY <1>1, <1>2, <1>3, <1>4, <1>5, <1>6, <1>7, SlackSends DEF SL!Next, SL!Handlers, SL!Deliveries

-----------------------------------------------------------------------------
(* DingTalk.                                                               *)

\* The platform's module names the operators that all share.
LEMMA SameDingTalk ==
  /\ DT!Idle = Idle
  /\ \A s, f : DT!Orders(s, f) = Orders(s, f)
  /\ \A o, r : DT!Begins(o, r) <=> Begins(o, r)
  /\ \A r : DT!GoesOn(r) <=> GoesOn(r)
  /\ \A c : DT!Posts(c) <=> Posts(c)
  /\ DT!Returns <=> Returns
  /\ DT!Swallows <=> Returns /\ swallowed' = swallowed \cup {sending.n}
  /\ \A r : DT!Awaits(r) <=> sending.rung = r
<1>1. DT!Idle = Idle
  BY Zenon DEF DT!Idle, Idle
<1>2. \A s, f : DT!Orders(s, f) = Orders(s, f)
  BY Zenon DEF DT!Orders, Orders, DT!Open, Open
<1>3. \A o, r : DT!Begins(o, r) <=> Begins(o, r)
  BY <1>1, Zenon DEF DT!Begins, Begins
<1>4. \A r : DT!GoesOn(r) <=> GoesOn(r)
  BY Zenon DEF DT!GoesOn, GoesOn
<1>5. \A c : DT!Posts(c) <=> Posts(c)
  BY Zenon DEF DT!Posts, Posts, DT!Piece, Piece
<1>6. DT!Returns <=> Returns
  BY <1>1, Zenon DEF DT!Returns, Returns
<1>7. DT!Swallows <=> Returns /\ swallowed' = swallowed \cup {sending.n}
  BY <1>6, Zenon DEF DT!Swallows
<1>8. \A r : DT!Awaits(r) <=> sending.rung = r
  BY Zenon DEF DT!Awaits
<1> QED BY <1>1, <1>2, <1>3, <1>4, <1>5, <1>6, <1>7, <1>8

\* Handing a message to DingTalk, and every call its send() awaits, keep the invariant.
LEMMA DingTalkSends ==
  ASSUME Inbound, Outbound, adapter = "dingtalk",
         \/ \E o \in DT!Orders({0, 1}, BOOLEAN) : DT!Send(o)
         \/ DT!Token \/ DT!TokenExpires \/ DT!NoToken \/ DT!TextDone \/ DT!FileSent \/ DT!FileFails
  PROVE  Inbound' /\ Outbound'
<1> USE SameDingTalk
<1>0. adapter \in Quiet /\ acts \in Nat /\ handed \in Nat /\ OutTypes /\ route \in BOOLEAN
  BY DEF Quiet, Inbound, InTypes, Outbound, OutTypes
<1>1. ASSUME NEW o \in Orders({0, 1}, BOOLEAN), DT!Send(o)
      PROVE  Inbound' /\ Outbound'
  <2>1. /\ sending = Idle /\ handed' = handed + 1 /\ acts' \in Nat
        /\ UNCHANGED <<adapter, phase, link, at, seen, timer, typing, route>>
        /\ UNCHANGED <<posts, tracked, sent, swallowed, answered>>
    BY <1>0, <1>1 DEF DT!Send, DT!Hands, DT!Act, DT!life, DT!inbound
  <2>2. PICK rung \in Rungs : Begins(o, rung) /\ rung = "token"
    BY <1>1, Zenon DEF DT!Send, Rungs
  <2>3. {0, 1} \in SUBSET Nat
    OBVIOUS
  <2>4. /\ o.kind = "progress" => o.size = 1 /\ o.file = FALSE
        /\ o.kind = "answer" => o.size \in {0, 1}
        /\ o.kind \in {"progress", "answer"} /\ o.size \in Nat /\ o.to \in SUBSET Messages
        /\ o.kind = "answer" /\ o.size = 0 => o.file
    BY <2>3, OrdersAre
  <2>5. sending'.rung = rung
    BY <1>0, <2>2, <2>4, Begun
  <2>6. AllShown' => o.size = 0
    BY <2>1, <2>2, <2>4, <2>5 DEF AllShown
  <2>7. /\ Inbound' /\ OutTypes' /\ Numbered' /\ Stands' /\ Streams'
        /\ sending'.kind = o.kind /\ sending'.size = o.size /\ sending'.shown = 0
    BY <1>0, <2>1, <2>2, <2>3, <2>6, QuietBegins
  <2>8. AtCall'
    BY <2>1, <2>2, <2>4, <2>5, <2>7 DEF AtCall
  <2> QED BY <2>7, <2>8 DEF Outbound
<1>2. ASSUME DT!Token PROVE Inbound' /\ Outbound'
  <2>1. /\ sending.rung = "token" /\ acts' \in Nat /\ route' \in BOOLEAN
        /\ UNCHANGED <<adapter, phase, link, at, seen, timer, typing, handed, posts, tracked, sent, swallowed, answered>>
    BY <1>0, <1>2 DEF DT!Token, DT!life, DT!inbound
  <2>2. PICK rung \in Rungs : GoesOn(rung) /\ rung = IF sending.size = 0 THEN "url" ELSE "text"
    BY <1>2, Zenon DEF DT!Token, DT!AfterToken, Rungs
  <2>3. /\ sending' \in Call /\ sending'.kind = sending.kind /\ sending'.n = sending.n
        /\ sending'.size = sending.size /\ sending'.to = sending.to /\ sending'.rung = rung
        /\ sending'.shown = sending.shown
    BY <1>0, <2>2, GoneOn
  <2>4. sending # Idle /\ swallowed \subseteq swallowed' /\ swallowed' \in SUBSET Nat
    BY <1>0, <2>1, IdleCall DEF Rungs, OutTypes
  <2>5. AllShown' => sending.size = 0
    BY <2>1, <2>2, <2>3 DEF AllShown
  <2>6. OutTypes' /\ Numbered' /\ Stands' /\ Streams'
    BY <2>1, <2>3, <2>4, <2>5, CallMoves
  <2>7. Inbound'
    BY <1>0, <2>1, <2>3, QuietCall
  <2>8. AtCall'
    <3>1. sending.kind = "answer" => sending.shown = 0 /\ sending.size <= 1
      BY DEF Outbound, AtCall
    <3>2. sending.kind \in {"progress", "answer"} /\ (sending.kind = "progress" => sending.size = 1)
      BY <1>0, <2>4 DEF Outbound, Numbered, OutTypes, Call
    <3>3. sending.size \in Nat
      BY <1>0 DEF OutTypes, Call
    <3>4. sending'.rung = "text" => sending'.size = 1
      BY <2>2, <2>3, <3>1, <3>2, <3>3
    <3> QED BY <2>1, <2>2, <2>3, <3>1, <3>4 DEF AtCall
  <2> QED BY <2>6, <2>7, <2>8 DEF Outbound
<1>3. ASSUME DT!TokenExpires PROVE Inbound' /\ Outbound'
  <2>1. /\ acts' \in Nat /\ route' \in BOOLEAN /\ UNCHANGED <<adapter, outbound>>
        /\ UNCHANGED <<phase, link, at, seen, timer, typing>>
    <3>1. route' \in BOOLEAN
      BY <1>3 DEF DT!TokenExpires
    <3>2. acts' \in Nat
      BY <1>0, <1>3 DEF DT!TokenExpires, DT!Act
    <3>3. UNCHANGED <<adapter, outbound>> /\ UNCHANGED <<phase, link, at, seen, timer, typing>>
      BY <1>3 DEF DT!TokenExpires, DT!life, DT!inbound, DT!outbound, outbound
    <3> QED BY <3>1, <3>2, <3>3
  <2>2. UNCHANGED <<sending, answered>>
    BY <2>1 DEF outbound
  <2>3. Inbound'
    BY <1>0, <2>1, <2>2, QuietCall
  <2> QED BY <2>1, <2>3, OutboundRests
<1>4. ASSUME DT!NoToken PROVE Inbound' /\ Outbound'
  <2>1. /\ sending.rung = "token" /\ acts' \in Nat /\ Returns /\ swallowed' = swallowed \cup {sending.n}
        /\ UNCHANGED <<adapter, phase, link, at, seen, timer, typing, route, handed, posts, tracked>>
    BY <1>0, <1>4 DEF DT!NoToken, DT!Act, DT!Aside, DT!life, DT!inbound
  <2>2. sending # Idle
    BY <2>1, IdleCall DEF Rungs
  <2> QED BY <1>0, <2>1, <2>2, QuietFails
<1>5. ASSUME DT!TextDone PROVE Inbound' /\ Outbound'
  <2>1. /\ sending.rung = "text" /\ acts' \in Nat
        /\ UNCHANGED <<adapter, phase, link, at, seen, timer, typing, route, handed, tracked>>
    BY <1>0, <1>5 DEF DT!TextDone, DT!Act, DT!Aside, DT!life, DT!inbound
  <2>2. /\ \/ Posts(IF sending.kind = "progress" THEN 0 ELSE 1) /\ swallowed' = swallowed
           \/ posts' = posts /\ swallowed' = swallowed \cup {sending.n}
        /\ \/ Returns
           \/ sending.kind = "answer" /\ GoesOn("url") /\ UNCHANGED <<sent, answered>>
    BY <1>5 DEF DT!TextDone
  <2>3. sending # Idle
    BY <2>1, IdleCall DEF Rungs
  <2>4. /\ sending.kind \in {"progress", "answer"} /\ sending.shown = 0 /\ sending.size = 1
        /\ sending.shown + 1 = 1 /\ ~AllShown
    BY <2>1, <2>3 DEF Outbound, Numbered, AtCall, AllShown, OutTypes, Call
  <2>5. CASE Returns /\ Posts(IF sending.kind = "progress" THEN 0 ELSE 1) /\ swallowed' = swallowed
    BY <1>0, <2>1, <2>3, <2>4, <2>5, QuietShown
  <2>6. CASE Returns /\ posts' = posts /\ swallowed' = swallowed \cup {sending.n}
    BY <1>0, <2>1, <2>3, <2>6, QuietFails
  <2>7. CASE sending.kind = "answer" /\ GoesOn("url") /\ UNCHANGED <<sent, answered>>
    <3>1. \/ Posts(sending.shown + 1) /\ swallowed' = swallowed
          \/ posts' = posts /\ swallowed' = swallowed \cup {sending.n}
      BY <2>2, <2>4, <2>7
    <3>2. /\ sending' \in Call /\ sending'.kind = sending.kind /\ sending'.n = sending.n
          /\ sending'.size = sending.size /\ sending'.to = sending.to /\ sending'.rung = "url"
          /\ sending'.shown = sending.shown
      BY <1>0, <2>7, GoneOn DEF Rungs
    <3>3. AllShown'
      BY <2>1, <3>2 DEF AllShown
    <3>4. Inbound' /\ OutTypes' /\ Numbered' /\ Stands' /\ Streams'
      BY <1>0, <2>1, <2>3, <2>4, <2>7, <3>1, <3>2, <3>3, QuietMore
    <3>5. AtCall'
      BY <2>1, <2>4, <2>7, <3>2 DEF AtCall
    <3> QED BY <3>4, <3>5 DEF Outbound
  <2> QED BY <2>2, <2>5, <2>6, <2>7
<1>6. ASSUME sending.rung \in {"url", "upload", "image", "asfile", "notice"}
      PROVE  sending # Idle /\ AllShown
  BY <1>6, IdleCall DEF Rungs, AllShown
<1>7. ASSUME sending.rung \in {"url", "upload", "image", "asfile", "notice"}, acts' \in Nat,
             NEW rung \in {"upload", "image", "asfile", "notice"}, GoesOn(rung), UNCHANGED <<sent, answered>>,
             UNCHANGED <<adapter, phase, link, at, seen, timer, typing, route, handed, posts, tracked, swallowed>>
      PROVE  Inbound' /\ Outbound'
  <2>1. /\ sending' \in Call /\ sending'.kind = sending.kind /\ sending'.n = sending.n
        /\ sending'.size = sending.size /\ sending'.to = sending.to /\ sending'.rung = rung
        /\ sending'.shown = sending.shown
    BY <1>0, <1>7, GoneOn DEF Rungs
  <2>2. sending # Idle /\ AllShown /\ swallowed \subseteq swallowed' /\ swallowed' \in SUBSET Nat
    BY <1>0, <1>6, <1>7 DEF OutTypes
  <2>3. OutTypes' /\ Numbered' /\ Stands' /\ Streams'
    BY <1>7, <2>1, <2>2, CallMoves
  <2>4. Inbound'
    BY <1>0, <1>7, <2>1, QuietCall
  <2>5. AtCall'
    BY <1>7, <2>1 DEF Outbound, AtCall
  <2> QED BY <2>3, <2>4, <2>5 DEF Outbound
<1>8. ASSUME DT!FileSent PROVE Inbound' /\ Outbound'
  <2>1. /\ sending.rung \in {"url", "upload", "image", "asfile", "notice"} /\ acts' \in Nat
        /\ Returns \/ (GoesOn("image") /\ UNCHANGED <<sent, answered>>)
        /\ UNCHANGED <<adapter, phase, link, at, seen, timer, typing, route, handed, posts, tracked, swallowed>>
    <3>1. sending.rung \in {"url", "upload", "image", "asfile", "notice"}
      BY <1>8 DEF DT!FileSent
    <3>2. acts' \in Nat /\ UNCHANGED <<adapter, phase, link, at, seen, timer, typing, route, handed, posts, tracked, swallowed>>
      BY <1>0, <1>8 DEF DT!FileSent, DT!Aside, DT!life, DT!inbound
    <3>3. Returns \/ (GoesOn("image") /\ UNCHANGED <<sent, answered>>)
      <4>1. CASE DT!Awaits("upload")
        BY <1>8, <4>1, Zenon DEF DT!FileSent
      <4>2. CASE ~DT!Awaits("upload")
        BY <1>8, <4>2, Zenon DEF DT!FileSent
      <4> QED BY <4>1, <4>2
    <3> QED BY <3>1, <3>2, <3>3
  <2>2. sending # Idle /\ AllShown /\ swallowed \subseteq swallowed' /\ swallowed' \in SUBSET Nat
    BY <1>0, <1>6, <2>1 DEF OutTypes
  <2>3. CASE Returns
    BY <1>0, <2>1, <2>2, <2>3, QuietEnds
  <2>4. CASE GoesOn("image") /\ UNCHANGED <<sent, answered>>
    BY <1>7, <2>1, <2>4
  <2> QED BY <2>1, <2>3, <2>4
<1>9. ASSUME DT!FileFails PROVE Inbound' /\ Outbound'
  <2>1. /\ acts' \in Nat
        /\ UNCHANGED <<adapter, phase, link, at, seen, timer, typing, route, handed, posts, tracked>>
    BY <1>0, <1>9 DEF DT!FileFails, DT!Act, DT!Aside, DT!life, DT!inbound
  <2>2. \/ \E rung \in {"upload", "image", "asfile", "notice"} :
             sending.rung \in {"url", "upload", "image", "asfile"} /\ GoesOn(rung) /\ UNCHANGED <<sent, swallowed, answered>>
        \/ sending.rung = "notice" /\ Returns /\ swallowed' = swallowed \cup {sending.n}
    <3>1. \A r \in {<<"url", "upload">>, <<"upload", "notice">>, <<"image", "asfile">>, <<"asfile", "notice">>} :
            r[1] \in {"url", "upload", "image", "asfile"} /\ r[2] \in {"upload", "image", "asfile", "notice"}
      OBVIOUS
    <3> QED BY <1>9, <3>1 DEF DT!FileFails
  <2>3. ASSUME NEW rung \in {"upload", "image", "asfile", "notice"}, GoesOn(rung),
               sending.rung \in {"url", "upload", "image", "asfile"}, UNCHANGED <<sent, swallowed, answered>>
        PROVE  Inbound' /\ Outbound'
    BY <1>7, <2>1, <2>3
  <2>4. CASE sending.rung = "notice" /\ Returns /\ swallowed' = swallowed \cup {sending.n}
    BY <1>0, <1>6, <2>1, <2>4, QuietFails
  <2> QED BY <2>2, <2>3, <2>4
<1> QED BY <1>1, <1>2, <1>3, <1>4, <1>5, <1>8, <1>9

\* Every step of DingTalk keeps the invariant.
LEMMA DingTalkStep ==
  ASSUME Inbound, Outbound, adapter = "dingtalk", DT!Next
  PROVE  Inbound' /\ Outbound'
<1> USE DEF Inbound, InTypes, Once, Honest, Deliveries, Where, Names, OneByOne, Cached
<1>1. ASSUME DT!Start PROVE Inbound' /\ Outbound'
  <2>1. UNCHANGED <<adapter, outbound>>
    BY <1>1 DEF DT!Start, DT!life, DT!inbound, DT!outbound, outbound
  <2>2. InTypes'
    BY <1>1, <2>1 DEF DT!Start, DT!life, DT!inbound
  <2>3. Once'
    BY <1>1, <2>1 DEF DT!Start, DT!life, DT!inbound, Once
  <2>4. \A d \in Deliveries : at[d] = "done" => at'[d] = "done"
    BY <1>1 DEF DT!Start, DT!life, DT!inbound
  <2>5. Served'
    BY <2>1, <2>4, DoneStays DEF Outbound, outbound
  <2>6. Honest'
    BY <1>1, <2>1 DEF DT!Start, DT!life, DT!inbound, outbound, Served
  <2> QED BY <2>1, <2>2, <2>3, <2>5, <2>6, OutboundRests
<1>2. ASSUME DT!Breaks PROVE Inbound' /\ Outbound'
  <2>1. UNCHANGED <<adapter, outbound>>
    BY <1>2 DEF DT!Breaks, DT!Act, DT!life, DT!inbound, DT!outbound, outbound
  <2>8. at' \in [Deliveries -> Where]
    BY <1>2 DEF DT!Breaks, DT!Act, DT!life, DT!inbound
  <2>20. adapter' \in Names
    BY <1>2 DEF DT!Breaks, DT!Act, DT!life, DT!inbound
  <2>21. phase' \in {"new", "starting", "up", "left", "stopping", "down"}
    BY <1>2 DEF DT!Breaks, DT!Act, DT!life, DT!inbound
  <2>22. seen' \in SUBSET Messages
    BY <1>2 DEF DT!Breaks, DT!Act, DT!life, DT!inbound
  <2>23. acts' \in Nat
    BY <1>2 DEF DT!Breaks, DT!Act, DT!life, DT!inbound
  <2>24. link' \in BOOLEAN
    BY <1>2 DEF DT!Breaks, DT!Act, DT!life, DT!inbound
  <2>25. timer' \in BOOLEAN
    BY <1>2 DEF DT!Breaks, DT!Act, DT!life, DT!inbound
  <2>26. typing' \in BOOLEAN
    BY <1>2 DEF DT!Breaks, DT!Act, DT!life, DT!inbound
  <2>27. route' \in BOOLEAN
    BY <1>2 DEF DT!Breaks, DT!Act, DT!life, DT!inbound
  <2>2. InTypes'
    BY <2>8, <2>20, <2>21, <2>22, <2>23, <2>24, <2>25, <2>26, <2>27, Zenon
  <2>3. Once'
    BY <1>2, <2>8, <2>20, <2>21, <2>22, <2>23, <2>24, <2>25, <2>26, <2>27, <2>1 DEF
           DT!Breaks, DT!Act, DT!life, DT!inbound, Once
  <2>4. \A d \in Deliveries : at[d] = "done" => at'[d] = "done"
    BY <1>2 DEF DT!Breaks, DT!Act, DT!life, DT!inbound
  <2>5. Served'
    BY <2>1, <2>4, DoneStays DEF Outbound, outbound
  <2>6. Honest'
    BY <1>2, <2>1 DEF DT!Breaks, DT!Act, DT!life, DT!inbound, outbound, Served
  <2> QED BY <2>1, <2>2, <2>3, <2>5, <2>6, OutboundRests
<1>3. ASSUME DT!Reconnects PROVE Inbound' /\ Outbound'
  <2>1. UNCHANGED <<adapter, outbound>>
    BY <1>3 DEF DT!Reconnects, DT!life, DT!inbound, DT!outbound, outbound
  <2>2. InTypes'
    BY <1>3, <2>1 DEF DT!Reconnects, DT!life, DT!inbound
  <2>3. Once'
    BY <1>3, <2>1 DEF DT!Reconnects, DT!life, DT!inbound, Once
  <2>4. \A d \in Deliveries : at[d] = "done" => at'[d] = "done"
    BY <1>3 DEF DT!Reconnects, DT!life, DT!inbound
  <2>5. Served'
    BY <2>1, <2>4, DoneStays DEF Outbound, outbound
  <2>6. Honest'
    BY <1>3, <2>1 DEF DT!Reconnects, DT!life, DT!inbound, outbound, Served
  <2> QED BY <2>1, <2>2, <2>3, <2>5, <2>6, OutboundRests
<1>4. ASSUME DT!Stop PROVE Inbound' /\ Outbound'
  <2>1. UNCHANGED <<adapter, outbound>>
    BY <1>4 DEF DT!Stop, DT!Act, DT!life, DT!inbound, DT!outbound, outbound
  <2>8. at' \in [Deliveries -> Where]
    BY <1>4 DEF DT!Stop, DT!Act, DT!life, DT!inbound
  <2>20. adapter' \in Names
    BY <1>4 DEF DT!Stop, DT!Act, DT!life, DT!inbound
  <2>21. phase' \in {"new", "starting", "up", "left", "stopping", "down"}
    BY <1>4 DEF DT!Stop, DT!Act, DT!life, DT!inbound
  <2>22. seen' \in SUBSET Messages
    BY <1>4 DEF DT!Stop, DT!Act, DT!life, DT!inbound
  <2>23. acts' \in Nat
    BY <1>4 DEF DT!Stop, DT!Act, DT!life, DT!inbound
  <2>24. link' \in BOOLEAN
    BY <1>4 DEF DT!Stop, DT!Act, DT!life, DT!inbound
  <2>25. timer' \in BOOLEAN
    BY <1>4 DEF DT!Stop, DT!Act, DT!life, DT!inbound
  <2>26. typing' \in BOOLEAN
    BY <1>4 DEF DT!Stop, DT!Act, DT!life, DT!inbound
  <2>27. route' \in BOOLEAN
    BY <1>4 DEF DT!Stop, DT!Act, DT!life, DT!inbound
  <2>2. InTypes'
    BY <2>8, <2>20, <2>21, <2>22, <2>23, <2>24, <2>25, <2>26, <2>27, Zenon
  <2>3. Once'
    BY <1>4, <2>8, <2>20, <2>21, <2>22, <2>23, <2>24, <2>25, <2>26, <2>27, <2>1 DEF
           DT!Stop, DT!Act, DT!life, DT!inbound, Once
  <2>4. \A d \in Deliveries : at[d] = "done" => at'[d] = "done"
    BY <1>4 DEF DT!Stop, DT!Act, DT!life, DT!inbound
  <2>5. Served'
    BY <2>1, <2>4, DoneStays DEF Outbound, outbound
  <2>6. Honest'
    BY <1>4, <2>1 DEF DT!Stop, DT!Act, DT!life, DT!inbound, outbound, Served
  <2> QED BY <2>1, <2>2, <2>3, <2>5, <2>6, OutboundRests
<1>5. ASSUME DT!Stopped PROVE Inbound' /\ Outbound'
  <2>1. UNCHANGED <<adapter, outbound>>
    BY <1>5 DEF DT!Stopped, DT!Places, DT!Deliveries, DT!life, DT!inbound, DT!outbound,
           outbound
  <2>2. InTypes'
    BY <1>5, <2>1 DEF DT!Stopped, DT!Places, DT!Deliveries, DT!life, DT!inbound
  <2>3. Once'
    BY <1>5, <2>1 DEF DT!Stopped, DT!Places, DT!Deliveries, DT!life, DT!inbound, Once
  <2>4. \A d \in Deliveries : at[d] = "done" => at'[d] = "done"
    BY <1>5 DEF DT!Stopped, DT!Places, DT!Deliveries, DT!life, DT!inbound
  <2>5. Served'
    BY <2>1, <2>4, DoneStays DEF Outbound, outbound
  <2>6. Honest'
    BY <1>5, <2>1 DEF DT!Stopped, DT!Places, DT!Deliveries, DT!life, DT!inbound,
           outbound, Served
  <2> QED BY <2>1, <2>2, <2>3, <2>5, <2>6, OutboundRests
<1>6. ASSUME NEW m \in Messages, DT!Said(m, "due") PROVE Inbound' /\ Outbound'
  <2>1. UNCHANGED <<adapter, outbound>>
    BY <1>6 DEF DT!Said, DT!Act, DT!Moves, DT!life, DT!inbound, DT!outbound, outbound
  <2>2. InTypes'
    BY <1>6, <2>1 DEF DT!Said, DT!Act, DT!Moves, DT!life, DT!inbound
  <2>3. Once'
    BY <1>6, <2>1 DEF DT!Said, DT!Act, DT!Moves, DT!life, DT!inbound, Once
  <2>4. \A d \in Deliveries : at[d] = "done" => at'[d] = "done"
    BY <1>6 DEF DT!Said, DT!Act, DT!Moves, DT!life, DT!inbound
  <2>5. Served'
    BY <2>1, <2>4, DoneStays DEF Outbound, outbound
  <2>6. Honest'
    BY <1>6, <2>1 DEF DT!Said, DT!Act, DT!Moves, DT!life, DT!inbound, outbound, Served
  <2> QED BY <2>1, <2>2, <2>3, <2>5, <2>6, OutboundRests
<1>7. ASSUME NEW e \in Deliveries, DT!Deliver(e) PROVE Inbound' /\ Outbound'
  <2>1. UNCHANGED <<adapter, outbound>>
    BY <1>7 DEF DT!Deliver, DT!Moves, DT!Deliveries, DT!life, DT!inbound, DT!outbound,
           outbound
  <2>2. InTypes'
    BY <1>7, <2>1 DEF DT!Deliver, DT!Moves, DT!Deliveries, DT!life, DT!inbound
  <2>3. Once'
    BY <1>7, <2>1 DEF DT!Deliver, DT!Moves, DT!Deliveries, DT!life, DT!inbound, Once
  <2>4. \A d \in Deliveries : at[d] = "done" => at'[d] = "done"
    BY <1>7 DEF DT!Deliver, DT!Moves, DT!Deliveries, DT!life, DT!inbound
  <2>5. Served'
    BY <2>1, <2>4, DoneStays DEF Outbound, outbound
  <2>6. Honest'
    BY <1>7, <2>1 DEF DT!Deliver, DT!Moves, DT!Deliveries, DT!life, DT!inbound,
           outbound, Served
  <2> QED BY <2>1, <2>2, <2>3, <2>5, <2>6, OutboundRests
<1>8. ASSUME NEW e \in Deliveries, DT!Handled(e) PROVE Inbound' /\ Outbound'
  <2>1. UNCHANGED <<adapter, outbound>>
    BY <1>8 DEF DT!Handled, DT!Act, DT!Moves, DT!Deliveries, DT!life, DT!inbound,
           DT!outbound, outbound
  <2>2. InTypes'
    BY <1>8, <2>1 DEF DT!Handled, DT!Act, DT!Moves, DT!Deliveries, DT!life, DT!inbound
  <2>3. Once'
    BY <1>8, <2>1 DEF DT!Handled, DT!Act, DT!Moves, DT!Deliveries, DT!life, DT!inbound,
           Once
  <2>4. \A d \in Deliveries : at[d] = "done" => at'[d] = "done"
    BY <1>8 DEF DT!Handled, DT!Act, DT!Moves, DT!Deliveries, DT!life, DT!inbound
  <2>5. Served'
    BY <2>1, <2>4, DoneStays DEF Outbound, outbound
  <2>6. Honest'
    BY <1>8, <2>1 DEF DT!Handled, DT!Act, DT!Moves, DT!Deliveries, DT!life, DT!inbound,
           outbound, Served
  <2> QED BY <2>1, <2>2, <2>3, <2>5, <2>6, OutboundRests
<1>9. ASSUME NEW e \in Deliveries, DT!Published(e) PROVE Inbound' /\ Outbound'
  <2>1. UNCHANGED <<adapter, outbound>>
    BY <1>9 DEF DT!Published, DT!Moves, DT!Deliveries, DT!life, DT!inbound, DT!outbound,
           outbound
  <2>2. InTypes'
    BY <1>9, <2>1 DEF DT!Published, DT!Moves, DT!Deliveries, DT!life, DT!inbound
  <2>3. Once'
    BY <1>9, <2>1 DEF DT!Published, DT!Moves, DT!Deliveries, DT!life, DT!inbound, Once
  <2>4. \A d \in Deliveries : at[d] = "done" => at'[d] = "done"
    BY <1>9 DEF DT!Published, DT!Moves, DT!Deliveries, DT!life, DT!inbound
  <2>5. Served'
    BY <2>1, <2>4, DoneStays DEF Outbound, outbound
  <2>6. Honest'
    BY <1>9, <2>1 DEF DT!Published, DT!Moves, DT!Deliveries, DT!life, DT!inbound,
           outbound, Served
  <2> QED BY <2>1, <2>2, <2>3, <2>5, <2>6, OutboundRests
<1> QED
  BY <1>1, <1>2, <1>3, <1>4, <1>5, <1>6, <1>7, <1>8, <1>9, DingTalkSends DEF DT!Next, DT!Handlers, DT!Deliveries

-----------------------------------------------------------------------------
(* WeCom.                                                                  *)

\* The platform's module names the operators that all share.
LEMMA SameWecom ==
  /\ WC!Idle = Idle
  /\ \A s, f : WC!Orders(s, f) = Orders(s, f)
  /\ \A o, r : WC!Begins(o, r) <=> Begins(o, r)
  /\ \A c : WC!Posts(c) <=> Posts(c)
  /\ WC!Returns <=> Returns
  /\ WC!Swallows <=> Returns /\ swallowed' = swallowed \cup {sending.n}
  /\ \A r : WC!Awaits(r) <=> sending.rung = r
<1>1. WC!Idle = Idle
  BY Zenon DEF WC!Idle, Idle
<1>2. \A s, f : WC!Orders(s, f) = Orders(s, f)
  BY Zenon DEF WC!Orders, Orders, WC!Open, Open
<1>3. \A o, r : WC!Begins(o, r) <=> Begins(o, r)
  BY <1>1, Zenon DEF WC!Begins, Begins
<1>4. \A c : WC!Posts(c) <=> Posts(c)
  BY Zenon DEF WC!Posts, Posts, WC!Piece, Piece
<1>5. WC!Returns <=> Returns
  BY <1>1, Zenon DEF WC!Returns, Returns
<1>6. WC!Swallows <=> Returns /\ swallowed' = swallowed \cup {sending.n}
  BY <1>5, Zenon DEF WC!Swallows
<1>7. \A r : WC!Awaits(r) <=> sending.rung = r
  BY Zenon DEF WC!Awaits
<1> QED BY <1>1, <1>2, <1>3, <1>4, <1>5, <1>6, <1>7

\* Handing a message to Wecom, and every call its send() awaits, keep the invariant.
LEMMA WecomSends ==
  ASSUME Inbound, Outbound, adapter = "wecom",
         \/ \E o \in WC!Orders({1}, {FALSE}) : WC!Send(o) \/ (~WC!CanSend /\ WC!NotSent(o))
         \/ WC!Replied \/ WC!Fails
  PROVE  Inbound' /\ Outbound'
<1> USE SameWecom
<1>0. adapter \in Single /\ adapter \in Quiet /\ acts \in Nat /\ handed \in Nat
  BY DEF Single, Quiet, Inbound, InTypes, Outbound, OutTypes
<1>1. ASSUME NEW o \in Orders({1}, {FALSE}), WC!Send(o)
      PROVE  Inbound' /\ Outbound'
  <2>1. /\ sending = Idle /\ handed' = handed + 1 /\ acts' \in Nat /\ Begins(o, "reply")
        /\ UNCHANGED <<adapter, phase, link, at, seen, timer, typing, route>>
        /\ UNCHANGED <<posts, tracked, sent, swallowed, answered>>
    BY <1>0, <1>1 DEF WC!Send, WC!Hands, WC!Act, WC!life, WC!inbound
  <2> QED BY <1>0, <2>1, SingleBegins
<1>2. ASSUME NEW o \in Orders({1}, {FALSE}), WC!NotSent(o)
      PROVE  Inbound' /\ Outbound'
  <2>1. /\ sending = Idle /\ handed' = handed + 1 /\ acts' \in Nat /\ answered' = answered \cup o.to
        /\ UNCHANGED <<adapter, phase, link, at, seen, timer, typing, route>>
        /\ UNCHANGED <<sending, posts, tracked, sent, swallowed>>
    BY <1>0, <1>2 DEF WC!NotSent, WC!Hands, WC!Act, WC!life, WC!inbound
  <2>2. o.to \in {{}, Open}
    <3>1. {1} \in SUBSET Nat
      OBVIOUS
    <3> QED BY <3>1, OrdersAre
  <2> QED BY <1>0, <2>1, <2>2, QuietNotSent
<1>3. ASSUME WC!Replied PROVE Inbound' /\ Outbound'
  <2>1. /\ acts' \in Nat /\ Returns /\ Posts(IF sending.kind = "progress" THEN 0 ELSE 1)
        /\ UNCHANGED <<adapter, phase, link, at, seen, timer, typing, route, handed, tracked, swallowed>>
    BY <1>0, <1>3 DEF WC!Replied, WC!Act, WC!Aside, WC!life, WC!inbound
  <2>2. sending # Idle
    BY <1>3, IdleCall DEF WC!Replied, Rungs
  <2> QED BY <1>0, <2>1, <2>2, SingleSent
<1>4. ASSUME WC!Fails PROVE Inbound' /\ Outbound'
  <2>1. /\ acts' \in Nat
        /\ (Returns /\ swallowed' = swallowed \cup {sending.n}) \/ (Raises /\ swallowed' = swallowed)
        /\ UNCHANGED <<adapter, phase, link, at, seen, timer, typing, route, handed, posts, tracked>>
    BY <1>0, <1>4 DEF WC!Fails, WC!Act, WC!Aside, WC!life, WC!inbound
  <2>2. sending # Idle
    BY <1>4, IdleCall DEF WC!Fails, Rungs
  <2> QED BY <1>0, <2>1, <2>2, QuietFails
<1> QED BY <1>1, <1>2, <1>3, <1>4

\* Every step of Wecom keeps the invariant.
LEMMA WecomStep ==
  ASSUME Inbound, Outbound, adapter = "wecom", WC!Next
  PROVE  Inbound' /\ Outbound'
<1> USE DEF Inbound, InTypes, Once, Honest, Deliveries, Where, Names, OneByOne, Cached
<1>1. ASSUME WC!Start PROVE Inbound' /\ Outbound'
  <2>1. UNCHANGED <<adapter, outbound>>
    BY <1>1 DEF WC!Start, WC!life, WC!inbound, WC!outbound, outbound
  <2>2. InTypes'
    BY <1>1, <2>1 DEF WC!Start, WC!life, WC!inbound
  <2>3. Once'
    BY <1>1, <2>1 DEF WC!Start, WC!life, WC!inbound, Once
  <2>4. \A d \in Deliveries : at[d] = "done" => at'[d] = "done"
    BY <1>1 DEF WC!Start, WC!life, WC!inbound
  <2>5. Served'
    BY <2>1, <2>4, DoneStays DEF Outbound, outbound
  <2>6. Honest'
    BY <1>1, <2>1 DEF WC!Start, WC!life, WC!inbound, outbound, Served
  <2> QED BY <2>1, <2>2, <2>3, <2>5, <2>6, OutboundRests
<1>2. ASSUME WC!StartCancelled PROVE Inbound' /\ Outbound'
  <2>1. UNCHANGED <<adapter, outbound>>
    BY <1>2 DEF WC!StartCancelled, WC!Act, WC!life, WC!inbound, WC!outbound, outbound
  <2>2. InTypes'
    BY <1>2, <2>1 DEF WC!StartCancelled, WC!Act, WC!life, WC!inbound
  <2>3. Once'
    BY <1>2, <2>1 DEF WC!StartCancelled, WC!Act, WC!life, WC!inbound, Once
  <2>4. \A d \in Deliveries : at[d] = "done" => at'[d] = "done"
    BY <1>2 DEF WC!StartCancelled, WC!Act, WC!life, WC!inbound
  <2>5. Served'
    BY <2>1, <2>4, DoneStays DEF Outbound, outbound
  <2>6. Honest'
    BY <1>2, <2>1 DEF WC!StartCancelled, WC!Act, WC!life, WC!inbound, outbound, Served
  <2> QED BY <2>1, <2>2, <2>3, <2>5, <2>6, OutboundRests
<1>3. ASSUME WC!Stop PROVE Inbound' /\ Outbound'
  <2>1. UNCHANGED <<adapter, outbound>>
    BY <1>3 DEF WC!Stop, WC!life, WC!inbound, WC!outbound, outbound
  <2>2. InTypes'
    BY <1>3, <2>1 DEF WC!Stop, WC!life, WC!inbound
  <2>3. Once'
    BY <1>3, <2>1 DEF WC!Stop, WC!life, WC!inbound, Once
  <2>4. \A d \in Deliveries : at[d] = "done" => at'[d] = "done"
    BY <1>3 DEF WC!Stop, WC!life, WC!inbound
  <2>5. Served'
    BY <2>1, <2>4, DoneStays DEF Outbound, outbound
  <2>6. Honest'
    BY <1>3, <2>1 DEF WC!Stop, WC!life, WC!inbound, outbound, Served
  <2> QED BY <2>1, <2>2, <2>3, <2>5, <2>6, OutboundRests
<1>4. ASSUME NEW m \in Messages, WC!Said(m, "due") PROVE Inbound' /\ Outbound'
  <2>1. UNCHANGED <<adapter, outbound>>
    BY <1>4 DEF WC!Said, WC!Act, WC!Moves, WC!life, WC!inbound, WC!outbound, outbound
  <2>2. InTypes'
    BY <1>4, <2>1 DEF WC!Said, WC!Act, WC!Moves, WC!life, WC!inbound
  <2>3. Once'
    BY <1>4, <2>1 DEF WC!Said, WC!Act, WC!Moves, WC!life, WC!inbound, Once
  <2>4. \A d \in Deliveries : at[d] = "done" => at'[d] = "done"
    BY <1>4 DEF WC!Said, WC!Act, WC!Moves, WC!life, WC!inbound
  <2>5. Served'
    BY <2>1, <2>4, DoneStays DEF Outbound, outbound
  <2>6. Honest'
    BY <1>4, <2>1 DEF WC!Said, WC!Act, WC!Moves, WC!life, WC!inbound, outbound, Served
  <2> QED BY <2>1, <2>2, <2>3, <2>5, <2>6, OutboundRests
<1>5. ASSUME NEW m \in Messages, WC!Again(m) PROVE Inbound' /\ Outbound'
  <2>1. UNCHANGED <<adapter, outbound>>
    BY <1>5 DEF WC!Again, WC!Act, WC!Moves, WC!life, WC!inbound, WC!outbound, outbound
  <2>2. InTypes'
    BY <1>5, <2>1 DEF WC!Again, WC!Act, WC!Moves, WC!life, WC!inbound
  <2>3. Once'
    BY <1>5, <2>1 DEF WC!Again, WC!Act, WC!Moves, WC!life, WC!inbound, Once
  <2>4. \A d \in Deliveries : at[d] = "done" => at'[d] = "done"
    BY <1>5 DEF WC!Again, WC!Act, WC!Moves, WC!life, WC!inbound
  <2>5. Served'
    BY <2>1, <2>4, DoneStays DEF Outbound, outbound
  <2>6. Honest'
    BY <1>5, <2>1 DEF WC!Again, WC!Act, WC!Moves, WC!life, WC!inbound, outbound, Served
  <2> QED BY <2>1, <2>2, <2>3, <2>5, <2>6, OutboundRests
<1>6. ASSUME NEW e \in Deliveries, WC!Deliver(e) PROVE Inbound' /\ Outbound'
  <2>1. UNCHANGED <<adapter, outbound>>
    BY <1>6 DEF WC!Deliver, WC!Remembers, WC!Moves, WC!Deliveries, WC!life, WC!inbound,
           WC!outbound, outbound
  <2>2. InTypes'
    BY <1>6, <2>1 DEF WC!Deliver, WC!Remembers, WC!Moves, WC!Deliveries, WC!life,
           WC!inbound
  <2>3. Once'
    BY <1>6, <2>1 DEF WC!Deliver, WC!Remembers, WC!Moves, WC!Deliveries, WC!life,
           WC!inbound, Once
  <2>4. \A d \in Deliveries : at[d] = "done" => at'[d] = "done"
    BY <1>6 DEF WC!Deliver, WC!Remembers, WC!Moves, WC!Deliveries, WC!life, WC!inbound
  <2>5. Served'
    BY <2>1, <2>4, DoneStays DEF Outbound, outbound
  <2>6. Honest'
    BY <1>6, <2>1 DEF WC!Deliver, WC!Remembers, WC!Moves, WC!Deliveries, WC!life,
           WC!inbound, outbound, Served
  <2> QED BY <2>1, <2>2, <2>3, <2>5, <2>6, OutboundRests
<1>7. ASSUME NEW e \in Deliveries, WC!Downloaded(e) PROVE Inbound' /\ Outbound'
  <2>1. UNCHANGED <<adapter, outbound>>
    BY <1>7 DEF WC!Downloaded, WC!Moves, WC!Deliveries, WC!life, WC!inbound,
           WC!outbound, outbound
  <2>2. InTypes'
    BY <1>7, <2>1 DEF WC!Downloaded, WC!Moves, WC!Deliveries, WC!life, WC!inbound
  <2>3. Once'
    BY <1>7, <2>1 DEF WC!Downloaded, WC!Moves, WC!Deliveries, WC!life, WC!inbound, Once
  <2>4. \A d \in Deliveries : at[d] = "done" => at'[d] = "done"
    BY <1>7 DEF WC!Downloaded, WC!Moves, WC!Deliveries, WC!life, WC!inbound
  <2>5. Served'
    BY <2>1, <2>4, DoneStays DEF Outbound, outbound
  <2>6. Honest'
    BY <1>7, <2>1 DEF WC!Downloaded, WC!Moves, WC!Deliveries, WC!life, WC!inbound,
           outbound, Served
  <2> QED BY <2>1, <2>2, <2>3, <2>5, <2>6, OutboundRests
<1> QED
  BY <1>1, <1>2, <1>3, <1>4, <1>5, <1>6, <1>7, WecomSends DEF WC!Next, WC!Handlers, WC!Deliveries

-----------------------------------------------------------------------------
(* QQ.                                                                     *)

\* The platform's module names the operators that all share.
LEMMA SameQq ==
  /\ QQ!Idle = Idle
  /\ \A s, f : QQ!Orders(s, f) = Orders(s, f)
  /\ \A o, r : QQ!Begins(o, r) <=> Begins(o, r)
  /\ \A c : QQ!Posts(c) <=> Posts(c)
  /\ QQ!Returns <=> Returns
  /\ QQ!Swallows <=> Returns /\ swallowed' = swallowed \cup {sending.n}
  /\ \A r : QQ!Awaits(r) <=> sending.rung = r
<1>1. QQ!Idle = Idle
  BY Zenon DEF QQ!Idle, Idle
<1>2. \A s, f : QQ!Orders(s, f) = Orders(s, f)
  BY Zenon DEF QQ!Orders, Orders, QQ!Open, Open
<1>3. \A o, r : QQ!Begins(o, r) <=> Begins(o, r)
  BY <1>1, Zenon DEF QQ!Begins, Begins
<1>4. \A c : QQ!Posts(c) <=> Posts(c)
  BY Zenon DEF QQ!Posts, Posts, QQ!Piece, Piece
<1>5. QQ!Returns <=> Returns
  BY <1>1, Zenon DEF QQ!Returns, Returns
<1>6. QQ!Swallows <=> Returns /\ swallowed' = swallowed \cup {sending.n}
  BY <1>5, Zenon DEF QQ!Swallows
<1>7. \A r : QQ!Awaits(r) <=> sending.rung = r
  BY Zenon DEF QQ!Awaits
<1> QED BY <1>1, <1>2, <1>3, <1>4, <1>5, <1>6, <1>7

\* Handing a message to Qq, and every call its send() awaits, keep the invariant.
LEMMA QqSends ==
  ASSUME Inbound, Outbound, adapter = "qq",
         \/ \E o \in QQ!Orders({1}, {FALSE}) : QQ!Send(o) \/ (~QQ!Client /\ QQ!NotSent(o))
         \/ QQ!Posted \/ QQ!Fails
  PROVE  Inbound' /\ Outbound'
<1> USE SameQq
<1>0. adapter \in Single /\ adapter \in Quiet /\ acts \in Nat /\ handed \in Nat
  BY DEF Single, Quiet, Inbound, InTypes, Outbound, OutTypes
<1>1. ASSUME NEW o \in Orders({1}, {FALSE}), QQ!Send(o)
      PROVE  Inbound' /\ Outbound'
  <2>1. /\ sending = Idle /\ handed' = handed + 1 /\ acts' \in Nat /\ Begins(o, "post")
        /\ UNCHANGED <<adapter, phase, link, at, seen, timer, typing, route>>
        /\ UNCHANGED <<posts, tracked, sent, swallowed, answered>>
    BY <1>0, <1>1 DEF QQ!Send, QQ!Hands, QQ!Act, QQ!life, QQ!inbound
  <2> QED BY <1>0, <2>1, SingleBegins
<1>2. ASSUME NEW o \in Orders({1}, {FALSE}), QQ!NotSent(o)
      PROVE  Inbound' /\ Outbound'
  <2>1. /\ sending = Idle /\ handed' = handed + 1 /\ acts' \in Nat /\ answered' = answered \cup o.to
        /\ UNCHANGED <<adapter, phase, link, at, seen, timer, typing, route>>
        /\ UNCHANGED <<sending, posts, tracked, sent, swallowed>>
    BY <1>0, <1>2 DEF QQ!NotSent, QQ!Hands, QQ!Act, QQ!life, QQ!inbound
  <2>2. o.to \in {{}, Open}
    <3>1. {1} \in SUBSET Nat
      OBVIOUS
    <3> QED BY <3>1, OrdersAre
  <2> QED BY <1>0, <2>1, <2>2, QuietNotSent
<1>3. ASSUME QQ!Posted PROVE Inbound' /\ Outbound'
  <2>1. /\ acts' \in Nat /\ Returns /\ Posts(IF sending.kind = "progress" THEN 0 ELSE 1)
        /\ UNCHANGED <<adapter, phase, link, at, seen, timer, typing, route, handed, tracked, swallowed>>
    BY <1>0, <1>3 DEF QQ!Posted, QQ!Act, QQ!Aside, QQ!life, QQ!inbound
  <2>2. sending # Idle
    BY <1>3, IdleCall DEF QQ!Posted, Rungs
  <2> QED BY <1>0, <2>1, <2>2, SingleSent
<1>4. ASSUME QQ!Fails PROVE Inbound' /\ Outbound'
  <2>1. /\ acts' \in Nat
        /\ (Returns /\ swallowed' = swallowed \cup {sending.n}) \/ (Raises /\ swallowed' = swallowed)
        /\ UNCHANGED <<adapter, phase, link, at, seen, timer, typing, route, handed, posts, tracked>>
    BY <1>0, <1>4 DEF QQ!Fails, QQ!Act, QQ!Aside, QQ!life, QQ!inbound
  <2>2. sending # Idle
    BY <1>4, IdleCall DEF QQ!Fails, Rungs
  <2> QED BY <1>0, <2>1, <2>2, QuietFails
<1> QED BY <1>1, <1>2, <1>3, <1>4

\* Every step of Qq keeps the invariant.
LEMMA QqStep ==
  ASSUME Inbound, Outbound, adapter = "qq", QQ!Next
  PROVE  Inbound' /\ Outbound'
<1> USE DEF Inbound, InTypes, Once, Honest, Deliveries, Where, Names, OneByOne, Cached
<1>1. ASSUME QQ!Start PROVE Inbound' /\ Outbound'
  <2>1. UNCHANGED <<adapter, outbound>>
    BY <1>1 DEF QQ!Start, QQ!Enters, QQ!life, QQ!inbound, QQ!outbound, outbound
  <2>2. InTypes'
    BY <1>1, <2>1 DEF QQ!Start, QQ!Enters, QQ!life, QQ!inbound
  <2>3. Once'
    BY <1>1, <2>1 DEF QQ!Start, QQ!Enters, QQ!life, QQ!inbound, Once
  <2>4. \A d \in Deliveries : at[d] = "done" => at'[d] = "done"
    BY <1>1 DEF QQ!Start, QQ!Enters, QQ!life, QQ!inbound
  <2>5. Served'
    BY <2>1, <2>4, DoneStays DEF Outbound, outbound
  <2>6. Honest'
    BY <1>1, <2>1 DEF QQ!Start, QQ!Enters, QQ!life, QQ!inbound, outbound, Served
  <2> QED BY <2>1, <2>2, <2>3, <2>5, <2>6, OutboundRests
<1>2. ASSUME QQ!Connects PROVE Inbound' /\ Outbound'
  <2>1. UNCHANGED <<adapter, outbound>>
    BY <1>2 DEF QQ!Connects, QQ!life, QQ!inbound, QQ!outbound, outbound
  <2>2. InTypes'
    BY <1>2, <2>1 DEF QQ!Connects, QQ!life, QQ!inbound
  <2>3. Once'
    BY <1>2, <2>1 DEF QQ!Connects, QQ!life, QQ!inbound, Once
  <2>4. \A d \in Deliveries : at[d] = "done" => at'[d] = "done"
    BY <1>2 DEF QQ!Connects, QQ!life, QQ!inbound
  <2>5. Served'
    BY <2>1, <2>4, DoneStays DEF Outbound, outbound
  <2>6. Honest'
    BY <1>2, <2>1 DEF QQ!Connects, QQ!life, QQ!inbound, outbound, Served
  <2> QED BY <2>1, <2>2, <2>3, <2>5, <2>6, OutboundRests
<1>3. ASSUME QQ!Breaks PROVE Inbound' /\ Outbound'
  <2>1. UNCHANGED <<adapter, outbound>>
    BY <1>3 DEF QQ!Breaks, QQ!Act, QQ!Places, QQ!Deliveries, QQ!life, QQ!inbound,
           QQ!outbound, outbound
  <2>8. at' \in [Deliveries -> Where] /\ \A d \in Deliveries : at'[d] \in {at[d], "lost"}
    BY <1>3 DEF QQ!Breaks, QQ!Act, QQ!Places, QQ!Deliveries, QQ!life, QQ!inbound
  <2>20. adapter' \in Names
    BY <1>3 DEF QQ!Breaks, QQ!Act, QQ!Deliveries, QQ!life, QQ!inbound
  <2>21. phase' \in {"new", "starting", "up", "left", "stopping", "down"}
    BY <1>3 DEF QQ!Breaks, QQ!Act, QQ!Deliveries, QQ!life, QQ!inbound
  <2>22. seen' \in SUBSET Messages
    BY <1>3 DEF QQ!Breaks, QQ!Act, QQ!Deliveries, QQ!life, QQ!inbound
  <2>23. acts' \in Nat
    BY <1>3 DEF QQ!Breaks, QQ!Act, QQ!Deliveries, QQ!life, QQ!inbound
  <2>24. link' \in BOOLEAN
    BY <1>3 DEF QQ!Breaks, QQ!Act, QQ!Deliveries, QQ!life, QQ!inbound
  <2>25. timer' \in BOOLEAN
    BY <1>3 DEF QQ!Breaks, QQ!Act, QQ!Deliveries, QQ!life, QQ!inbound
  <2>26. typing' \in BOOLEAN
    BY <1>3 DEF QQ!Breaks, QQ!Act, QQ!Deliveries, QQ!life, QQ!inbound
  <2>27. route' \in BOOLEAN
    BY <1>3 DEF QQ!Breaks, QQ!Act, QQ!Deliveries, QQ!life, QQ!inbound
  <2>2. InTypes'
    BY <2>8, <2>20, <2>21, <2>22, <2>23, <2>24, <2>25, <2>26, <2>27, Zenon
  <2>3. Once'
    BY <1>3, <2>8, <2>20, <2>21, <2>22, <2>23, <2>24, <2>25, <2>26, <2>27, <2>1 DEF
           QQ!Breaks, QQ!Act, QQ!Deliveries, QQ!life, QQ!inbound, Once
  <2>4. \A d \in Deliveries : at[d] = "done" => at'[d] = "done"
    BY <1>3 DEF QQ!Breaks, QQ!Act, QQ!Places, QQ!Deliveries, QQ!life, QQ!inbound
  <2>5. Served'
    BY <2>1, <2>4, DoneStays DEF Outbound, outbound
  <2>6. Honest'
    BY <1>3, <2>1 DEF QQ!Breaks, QQ!Act, QQ!Places, QQ!Deliveries, QQ!life, QQ!inbound,
           outbound, Served
  <2> QED BY <2>1, <2>2, <2>3, <2>5, <2>6, OutboundRests
<1>4. ASSUME QQ!StartCancelled PROVE Inbound' /\ Outbound'
  <2>1. UNCHANGED <<adapter, outbound>>
    BY <1>4 DEF QQ!StartCancelled, QQ!Act, QQ!life, QQ!inbound, QQ!outbound, outbound
  <2>2. InTypes'
    BY <1>4, <2>1 DEF QQ!StartCancelled, QQ!Act, QQ!life, QQ!inbound
  <2>3. Once'
    BY <1>4, <2>1 DEF QQ!StartCancelled, QQ!Act, QQ!life, QQ!inbound, Once
  <2>4. \A d \in Deliveries : at[d] = "done" => at'[d] = "done"
    BY <1>4 DEF QQ!StartCancelled, QQ!Act, QQ!life, QQ!inbound
  <2>5. Served'
    BY <2>1, <2>4, DoneStays DEF Outbound, outbound
  <2>6. Honest'
    BY <1>4, <2>1 DEF QQ!StartCancelled, QQ!Act, QQ!life, QQ!inbound, outbound, Served
  <2> QED BY <2>1, <2>2, <2>3, <2>5, <2>6, OutboundRests
<1>5. ASSUME QQ!Stop PROVE Inbound' /\ Outbound'
  <2>1. UNCHANGED <<adapter, outbound>>
    BY <1>5 DEF QQ!Stop, QQ!life, QQ!inbound, QQ!outbound, outbound
  <2>2. InTypes'
    BY <1>5, <2>1 DEF QQ!Stop, QQ!life, QQ!inbound
  <2>3. Once'
    BY <1>5, <2>1 DEF QQ!Stop, QQ!life, QQ!inbound, Once
  <2>4. \A d \in Deliveries : at[d] = "done" => at'[d] = "done"
    BY <1>5 DEF QQ!Stop, QQ!life, QQ!inbound
  <2>5. Served'
    BY <2>1, <2>4, DoneStays DEF Outbound, outbound
  <2>6. Honest'
    BY <1>5, <2>1 DEF QQ!Stop, QQ!life, QQ!inbound, outbound, Served
  <2> QED BY <2>1, <2>2, <2>3, <2>5, <2>6, OutboundRests
<1>6. ASSUME NEW m \in Messages, QQ!Said(m, "due") PROVE Inbound' /\ Outbound'
  <2>1. UNCHANGED <<adapter, outbound>>
    BY <1>6 DEF QQ!Said, QQ!Act, QQ!Moves, QQ!life, QQ!inbound, QQ!outbound, outbound
  <2>2. InTypes'
    BY <1>6, <2>1 DEF QQ!Said, QQ!Act, QQ!Moves, QQ!life, QQ!inbound
  <2>3. Once'
    BY <1>6, <2>1 DEF QQ!Said, QQ!Act, QQ!Moves, QQ!life, QQ!inbound, Once
  <2>4. \A d \in Deliveries : at[d] = "done" => at'[d] = "done"
    BY <1>6 DEF QQ!Said, QQ!Act, QQ!Moves, QQ!life, QQ!inbound
  <2>5. Served'
    BY <2>1, <2>4, DoneStays DEF Outbound, outbound
  <2>6. Honest'
    BY <1>6, <2>1 DEF QQ!Said, QQ!Act, QQ!Moves, QQ!life, QQ!inbound, outbound, Served
  <2> QED BY <2>1, <2>2, <2>3, <2>5, <2>6, OutboundRests
<1>7. ASSUME NEW m \in Messages, QQ!Again(m) PROVE Inbound' /\ Outbound'
  <2>1. UNCHANGED <<adapter, outbound>>
    BY <1>7 DEF QQ!Again, QQ!Act, QQ!Moves, QQ!life, QQ!inbound, QQ!outbound, outbound
  <2>2. InTypes'
    BY <1>7, <2>1 DEF QQ!Again, QQ!Act, QQ!Moves, QQ!life, QQ!inbound
  <2>3. Once'
    BY <1>7, <2>1 DEF QQ!Again, QQ!Act, QQ!Moves, QQ!life, QQ!inbound, Once
  <2>4. \A d \in Deliveries : at[d] = "done" => at'[d] = "done"
    BY <1>7 DEF QQ!Again, QQ!Act, QQ!Moves, QQ!life, QQ!inbound
  <2>5. Served'
    BY <2>1, <2>4, DoneStays DEF Outbound, outbound
  <2>6. Honest'
    BY <1>7, <2>1 DEF QQ!Again, QQ!Act, QQ!Moves, QQ!life, QQ!inbound, outbound, Served
  <2> QED BY <2>1, <2>2, <2>3, <2>5, <2>6, OutboundRests
<1>8. ASSUME NEW e \in Deliveries, QQ!Deliver(e) PROVE Inbound' /\ Outbound'
  <2>1. UNCHANGED <<adapter, outbound>>
    BY <1>8 DEF QQ!Deliver, QQ!Remembers, QQ!Moves, QQ!Deliveries, QQ!life, QQ!inbound,
           QQ!outbound, outbound
  <2>2. InTypes'
    BY <1>8, <2>1 DEF QQ!Deliver, QQ!Remembers, QQ!Moves, QQ!Deliveries, QQ!life,
           QQ!inbound
  <2>3. Once'
    BY <1>8, <2>1 DEF QQ!Deliver, QQ!Remembers, QQ!Moves, QQ!Deliveries, QQ!life,
           QQ!inbound, Once
  <2>4. \A d \in Deliveries : at[d] = "done" => at'[d] = "done"
    BY <1>8 DEF QQ!Deliver, QQ!Remembers, QQ!Moves, QQ!Deliveries, QQ!life, QQ!inbound
  <2>5. Served'
    BY <2>1, <2>4, DoneStays DEF Outbound, outbound
  <2>6. Honest'
    BY <1>8, <2>1 DEF QQ!Deliver, QQ!Remembers, QQ!Moves, QQ!Deliveries, QQ!life,
           QQ!inbound, outbound, Served
  <2> QED BY <2>1, <2>2, <2>3, <2>5, <2>6, OutboundRests
<1> QED
  BY <1>1, <1>2, <1>3, <1>4, <1>5, <1>6, <1>7, <1>8, QqSends DEF QQ!Next, QQ!Deliveries

-----------------------------------------------------------------------------
(* WhatsApp.                                                               *)

\* The platform's module names the operators that all share.
LEMMA SameWhatsApp ==
  /\ WA!Idle = Idle
  /\ \A s, f : WA!Orders(s, f) = Orders(s, f)
  /\ \A o, r : WA!Begins(o, r) <=> Begins(o, r)
  /\ \A c : WA!Posts(c) <=> Posts(c)
  /\ WA!Returns <=> Returns
  /\ WA!Swallows <=> Returns /\ swallowed' = swallowed \cup {sending.n}
  /\ \A r : WA!Awaits(r) <=> sending.rung = r
<1>1. WA!Idle = Idle
  BY Zenon DEF WA!Idle, Idle
<1>2. \A s, f : WA!Orders(s, f) = Orders(s, f)
  BY Zenon DEF WA!Orders, Orders, WA!Open, Open
<1>3. \A o, r : WA!Begins(o, r) <=> Begins(o, r)
  BY <1>1, Zenon DEF WA!Begins, Begins
<1>4. \A c : WA!Posts(c) <=> Posts(c)
  BY Zenon DEF WA!Posts, Posts, WA!Piece, Piece
<1>5. WA!Returns <=> Returns
  BY <1>1, Zenon DEF WA!Returns, Returns
<1>6. WA!Swallows <=> Returns /\ swallowed' = swallowed \cup {sending.n}
  BY <1>5, Zenon DEF WA!Swallows
<1>7. \A r : WA!Awaits(r) <=> sending.rung = r
  BY Zenon DEF WA!Awaits
<1> QED BY <1>1, <1>2, <1>3, <1>4, <1>5, <1>6, <1>7

\* Handing a message to WhatsApp, and every call its send() awaits, keep the invariant.
LEMMA WhatsAppSends ==
  ASSUME Inbound, Outbound, adapter = "whatsapp",
         \/ \E o \in WA!Orders({1}, {FALSE}) : WA!Send(o) \/ (~timer /\ WA!NotSent(o))
         \/ WA!Passed \/ WA!Fails
  PROVE  Inbound' /\ Outbound'
<1> USE SameWhatsApp
<1>0. adapter \in Single /\ adapter \in Quiet /\ acts \in Nat /\ handed \in Nat
  BY DEF Single, Quiet, Inbound, InTypes, Outbound, OutTypes
<1>1. ASSUME NEW o \in Orders({1}, {FALSE}), WA!Send(o)
      PROVE  Inbound' /\ Outbound'
  <2>1. /\ sending = Idle /\ handed' = handed + 1 /\ acts' \in Nat /\ Begins(o, "bridge")
        /\ UNCHANGED <<adapter, phase, link, at, seen, timer, typing, route>>
        /\ UNCHANGED <<posts, tracked, sent, swallowed, answered>>
    BY <1>0, <1>1 DEF WA!Send, WA!Hands, WA!Act, WA!life, WA!inbound
  <2> QED BY <1>0, <2>1, SingleBegins
<1>2. ASSUME NEW o \in Orders({1}, {FALSE}), WA!NotSent(o)
      PROVE  Inbound' /\ Outbound'
  <2>1. /\ sending = Idle /\ handed' = handed + 1 /\ acts' \in Nat /\ answered' = answered \cup o.to
        /\ UNCHANGED <<adapter, phase, link, at, seen, timer, typing, route>>
        /\ UNCHANGED <<sending, posts, tracked, sent, swallowed>>
    BY <1>0, <1>2 DEF WA!NotSent, WA!Hands, WA!Act, WA!life, WA!inbound
  <2>2. o.to \in {{}, Open}
    <3>1. {1} \in SUBSET Nat
      OBVIOUS
    <3> QED BY <3>1, OrdersAre
  <2> QED BY <1>0, <2>1, <2>2, QuietNotSent
<1>3. ASSUME WA!Passed PROVE Inbound' /\ Outbound'
  <2>1. /\ acts' \in Nat /\ Returns /\ Posts(IF sending.kind = "progress" THEN 0 ELSE 1)
        /\ UNCHANGED <<adapter, phase, link, at, seen, timer, typing, route, handed, tracked, swallowed>>
    BY <1>0, <1>3 DEF WA!Passed, WA!Act, WA!Aside, WA!life, WA!inbound
  <2>2. sending # Idle
    BY <1>3, IdleCall DEF WA!Passed, Rungs
  <2> QED BY <1>0, <2>1, <2>2, SingleSent
<1>4. ASSUME WA!Fails PROVE Inbound' /\ Outbound'
  <2>1. /\ acts' \in Nat
        /\ (Returns /\ swallowed' = swallowed \cup {sending.n}) \/ (Raises /\ swallowed' = swallowed)
        /\ UNCHANGED <<adapter, phase, link, at, seen, timer, typing, route, handed, posts, tracked>>
    BY <1>0, <1>4 DEF WA!Fails, WA!Act, WA!Aside, WA!life, WA!inbound
  <2>2. sending # Idle
    BY <1>4, IdleCall DEF WA!Fails, Rungs
  <2> QED BY <1>0, <2>1, <2>2, QuietFails
<1> QED BY <1>1, <1>2, <1>3, <1>4

\* Every step of WhatsApp keeps the invariant.
LEMMA WhatsAppStep ==
  ASSUME Inbound, Outbound, adapter = "whatsapp", WA!Next
  PROVE  Inbound' /\ Outbound'
<1> USE DEF Inbound, InTypes, Once, Honest, Deliveries, Where, Names, OneByOne, Cached
<1>1. ASSUME WA!Start PROVE Inbound' /\ Outbound'
  <2>1. UNCHANGED <<adapter, outbound>>
    BY <1>1 DEF WA!Start, WA!Enters, WA!life, WA!inbound, WA!outbound, outbound
  <2>2. InTypes'
    BY <1>1, <2>1 DEF WA!Start, WA!Enters, WA!life, WA!inbound
  <2>3. Once'
    BY <1>1, <2>1 DEF WA!Start, WA!Enters, WA!life, WA!inbound, Once
  <2>4. \A d \in Deliveries : at[d] = "done" => at'[d] = "done"
    BY <1>1 DEF WA!Start, WA!Enters, WA!life, WA!inbound
  <2>5. Served'
    BY <2>1, <2>4, DoneStays DEF Outbound, outbound
  <2>6. Honest'
    BY <1>1, <2>1 DEF WA!Start, WA!Enters, WA!life, WA!inbound, outbound, Served
  <2> QED BY <2>1, <2>2, <2>3, <2>5, <2>6, OutboundRests
<1>2. ASSUME WA!Connects PROVE Inbound' /\ Outbound'
  <2>1. UNCHANGED <<adapter, outbound>>
    BY <1>2 DEF WA!Connects, WA!life, WA!inbound, WA!outbound, outbound
  <2>2. InTypes'
    BY <1>2, <2>1 DEF WA!Connects, WA!life, WA!inbound
  <2>3. Once'
    BY <1>2, <2>1 DEF WA!Connects, WA!life, WA!inbound, Once
  <2>4. \A d \in Deliveries : at[d] = "done" => at'[d] = "done"
    BY <1>2 DEF WA!Connects, WA!life, WA!inbound
  <2>5. Served'
    BY <2>1, <2>4, DoneStays DEF Outbound, outbound
  <2>6. Honest'
    BY <1>2, <2>1 DEF WA!Connects, WA!life, WA!inbound, outbound, Served
  <2> QED BY <2>1, <2>2, <2>3, <2>5, <2>6, OutboundRests
<1>3. ASSUME WA!Breaks PROVE Inbound' /\ Outbound'
  <2>1. UNCHANGED <<adapter, outbound>>
    BY <1>3 DEF WA!Breaks, WA!Act, WA!Places, WA!Deliveries, WA!life, WA!inbound,
           WA!outbound, outbound
  <2>10. timer' \in BOOLEAN
    BY <1>3, Zenon DEF WA!Breaks, WA!Act, WA!Places, WA!Deliveries, WA!life, WA!inbound
  <2>8. at' \in [Deliveries -> Where] /\ \A d \in Deliveries : at'[d] \in {at[d], "lost"}
    BY <1>3 DEF WA!Breaks, WA!Act, WA!Places, WA!Deliveries, WA!life, WA!inbound
  <2>20. adapter' \in Names
    BY <1>3 DEF WA!Breaks, WA!Act, WA!Deliveries, WA!life, WA!inbound
  <2>21. phase' \in {"new", "starting", "up", "left", "stopping", "down"}
    BY <1>3 DEF WA!Breaks, WA!Act, WA!Deliveries, WA!life, WA!inbound
  <2>22. seen' \in SUBSET Messages
    BY <1>3 DEF WA!Breaks, WA!Act, WA!Deliveries, WA!life, WA!inbound
  <2>23. acts' \in Nat
    BY <1>3 DEF WA!Breaks, WA!Act, WA!Deliveries, WA!life, WA!inbound
  <2>24. link' \in BOOLEAN
    BY <1>3 DEF WA!Breaks, WA!Act, WA!Deliveries, WA!life, WA!inbound
  <2>25. typing' \in BOOLEAN
    BY <1>3 DEF WA!Breaks, WA!Act, WA!Deliveries, WA!life, WA!inbound
  <2>26. route' \in BOOLEAN
    BY <1>3 DEF WA!Breaks, WA!Act, WA!Deliveries, WA!life, WA!inbound
  <2>2. InTypes'
    BY <2>10, <2>8, <2>20, <2>21, <2>22, <2>23, <2>24, <2>25, <2>26, Zenon
  <2>3. Once'
    BY <1>3, <2>10, <2>8, <2>20, <2>21, <2>22, <2>23, <2>24, <2>25, <2>26, <2>1 DEF
           WA!Breaks, WA!Act, WA!Deliveries, WA!life, WA!inbound, Once
  <2>4. \A d \in Deliveries : at[d] = "done" => at'[d] = "done"
    BY <1>3 DEF WA!Breaks, WA!Act, WA!Places, WA!Deliveries, WA!life, WA!inbound
  <2>5. Served'
    BY <2>1, <2>4, DoneStays DEF Outbound, outbound
  <2>6. Honest'
    BY <1>3, <2>1 DEF WA!Breaks, WA!Act, WA!Places, WA!Deliveries, WA!life, WA!inbound,
           outbound, Served
  <2> QED BY <2>1, <2>2, <2>3, <2>5, <2>6, OutboundRests
<1>4. ASSUME WA!StatusChanges PROVE Inbound' /\ Outbound'
  <2>1. UNCHANGED <<adapter, outbound>>
    BY <1>4 DEF WA!StatusChanges, WA!Act, WA!life, WA!inbound, WA!outbound, outbound
  <2>10. route' \in BOOLEAN
    BY <1>4, Zenon DEF WA!StatusChanges, WA!Act, WA!life, WA!inbound
  <2>11. timer' \in BOOLEAN
    BY <1>4, Zenon DEF WA!StatusChanges, WA!Act, WA!life, WA!inbound
  <2>2. InTypes'
    BY <1>4, <2>10, <2>11, <2>1 DEF WA!StatusChanges, WA!Act, WA!life, WA!inbound
  <2>3. Once'
    BY <1>4, <2>10, <2>11, <2>1 DEF WA!StatusChanges, WA!Act, WA!life, WA!inbound, Once
  <2>4. \A d \in Deliveries : at[d] = "done" => at'[d] = "done"
    BY <1>4 DEF WA!StatusChanges, WA!Act, WA!life, WA!inbound
  <2>5. Served'
    BY <2>1, <2>4, DoneStays DEF Outbound, outbound
  <2>6. Honest'
    BY <1>4, <2>1 DEF WA!StatusChanges, WA!Act, WA!life, WA!inbound, outbound, Served
  <2> QED BY <2>1, <2>2, <2>3, <2>5, <2>6, OutboundRests
<1>5. ASSUME WA!StartCancelled PROVE Inbound' /\ Outbound'
  <2>1. UNCHANGED <<adapter, outbound>>
    BY <1>5 DEF WA!StartCancelled, WA!Act, WA!Places, WA!Deliveries, WA!life,
           WA!inbound, WA!outbound, outbound
  <2>8. at' \in [Deliveries -> Where] /\ \A d \in Deliveries : at'[d] \in {at[d], "lost"}
    BY <1>5 DEF WA!StartCancelled, WA!Act, WA!Places, WA!Deliveries, WA!life, WA!inbound
  <2>20. adapter' \in Names
    BY <1>5 DEF WA!StartCancelled, WA!Act, WA!Deliveries, WA!life, WA!inbound
  <2>21. phase' \in {"new", "starting", "up", "left", "stopping", "down"}
    BY <1>5 DEF WA!StartCancelled, WA!Act, WA!Deliveries, WA!life, WA!inbound
  <2>22. seen' \in SUBSET Messages
    BY <1>5 DEF WA!StartCancelled, WA!Act, WA!Deliveries, WA!life, WA!inbound
  <2>23. acts' \in Nat
    BY <1>5 DEF WA!StartCancelled, WA!Act, WA!Deliveries, WA!life, WA!inbound
  <2>24. link' \in BOOLEAN
    BY <1>5 DEF WA!StartCancelled, WA!Act, WA!Deliveries, WA!life, WA!inbound
  <2>25. timer' \in BOOLEAN
    BY <1>5 DEF WA!StartCancelled, WA!Act, WA!Deliveries, WA!life, WA!inbound
  <2>26. typing' \in BOOLEAN
    BY <1>5 DEF WA!StartCancelled, WA!Act, WA!Deliveries, WA!life, WA!inbound
  <2>27. route' \in BOOLEAN
    BY <1>5 DEF WA!StartCancelled, WA!Act, WA!Deliveries, WA!life, WA!inbound
  <2>2. InTypes'
    BY <2>8, <2>20, <2>21, <2>22, <2>23, <2>24, <2>25, <2>26, <2>27, Zenon
  <2>3. Once'
    BY <1>5, <2>8, <2>20, <2>21, <2>22, <2>23, <2>24, <2>25, <2>26, <2>27, <2>1 DEF
           WA!StartCancelled, WA!Act, WA!Deliveries, WA!life, WA!inbound, Once
  <2>4. \A d \in Deliveries : at[d] = "done" => at'[d] = "done"
    BY <1>5 DEF WA!StartCancelled, WA!Act, WA!Places, WA!Deliveries, WA!life, WA!inbound
  <2>5. Served'
    BY <2>1, <2>4, DoneStays DEF Outbound, outbound
  <2>6. Honest'
    BY <1>5, <2>1 DEF WA!StartCancelled, WA!Act, WA!Places, WA!Deliveries, WA!life,
           WA!inbound, outbound, Served
  <2> QED BY <2>1, <2>2, <2>3, <2>5, <2>6, OutboundRests
<1>6. ASSUME WA!Stop PROVE Inbound' /\ Outbound'
  <2>1. UNCHANGED <<adapter, outbound>>
    BY <1>6 DEF WA!Stop, WA!life, WA!inbound, WA!outbound, outbound
  <2>2. InTypes'
    BY <1>6, <2>1 DEF WA!Stop, WA!life, WA!inbound
  <2>3. Once'
    BY <1>6, <2>1 DEF WA!Stop, WA!life, WA!inbound, Once
  <2>4. \A d \in Deliveries : at[d] = "done" => at'[d] = "done"
    BY <1>6 DEF WA!Stop, WA!life, WA!inbound
  <2>5. Served'
    BY <2>1, <2>4, DoneStays DEF Outbound, outbound
  <2>6. Honest'
    BY <1>6, <2>1 DEF WA!Stop, WA!life, WA!inbound, outbound, Served
  <2> QED BY <2>1, <2>2, <2>3, <2>5, <2>6, OutboundRests
<1>7. ASSUME NEW m \in Messages, WA!Said(m, "kept") PROVE Inbound' /\ Outbound'
  <2>1. UNCHANGED <<adapter, outbound>>
    BY <1>7 DEF WA!Said, WA!Act, WA!Moves, WA!life, WA!inbound, WA!outbound, outbound
  <2>2. InTypes'
    BY <1>7, <2>1 DEF WA!Said, WA!Act, WA!Moves, WA!life, WA!inbound
  <2>3. Once'
    BY <1>7, <2>1 DEF WA!Said, WA!Act, WA!Moves, WA!life, WA!inbound, Once
  <2>4. \A d \in Deliveries : at[d] = "done" => at'[d] = "done"
    BY <1>7 DEF WA!Said, WA!Act, WA!Moves, WA!life, WA!inbound
  <2>5. Served'
    BY <2>1, <2>4, DoneStays DEF Outbound, outbound
  <2>6. Honest'
    BY <1>7, <2>1 DEF WA!Said, WA!Act, WA!Moves, WA!life, WA!inbound, outbound, Served
  <2> QED BY <2>1, <2>2, <2>3, <2>5, <2>6, OutboundRests
<1>8. ASSUME NEW m \in Messages, WA!ToldAgain(m) PROVE Inbound' /\ Outbound'
  <2>1. UNCHANGED <<adapter, outbound>>
    BY <1>8 DEF WA!ToldAgain, WA!Act, WA!Moves, WA!life, WA!inbound, WA!outbound,
           outbound
  <2>2. InTypes'
    BY <1>8, <2>1 DEF WA!ToldAgain, WA!Act, WA!Moves, WA!life, WA!inbound
  <2>3. Once'
    BY <1>8, <2>1 DEF WA!ToldAgain, WA!Act, WA!Moves, WA!life, WA!inbound, Once
  <2>4. \A d \in Deliveries : at[d] = "done" => at'[d] = "done"
    BY <1>8 DEF WA!ToldAgain, WA!Act, WA!Moves, WA!life, WA!inbound
  <2>5. Served'
    BY <2>1, <2>4, DoneStays DEF Outbound, outbound
  <2>6. Honest'
    BY <1>8, <2>1 DEF WA!ToldAgain, WA!Act, WA!Moves, WA!life, WA!inbound, outbound,
           Served
  <2> QED BY <2>1, <2>2, <2>3, <2>5, <2>6, OutboundRests
<1>9. ASSUME NEW e \in Deliveries, WA!Broadcast(e) PROVE Inbound' /\ Outbound'
  <2>1. UNCHANGED <<adapter, outbound>>
    BY <1>9 DEF WA!Broadcast, WA!Moves, WA!Deliveries, WA!life, WA!inbound, WA!outbound,
           outbound
  <2>2. InTypes'
    BY <1>9, <2>1 DEF WA!Broadcast, WA!Moves, WA!Deliveries, WA!life, WA!inbound
  <2>3. Once'
    BY <1>9, <2>1 DEF WA!Broadcast, WA!Moves, WA!Deliveries, WA!life, WA!inbound, Once
  <2>4. \A d \in Deliveries : at[d] = "done" => at'[d] = "done"
    BY <1>9 DEF WA!Broadcast, WA!Moves, WA!Deliveries, WA!life, WA!inbound
  <2>5. Served'
    BY <2>1, <2>4, DoneStays DEF Outbound, outbound
  <2>6. Honest'
    BY <1>9, <2>1 DEF WA!Broadcast, WA!Moves, WA!Deliveries, WA!life, WA!inbound,
           outbound, Served
  <2> QED BY <2>1, <2>2, <2>3, <2>5, <2>6, OutboundRests
<1>10. ASSUME NEW e \in Deliveries, WA!Deliver(e) PROVE Inbound' /\ Outbound'
  <2>1. UNCHANGED <<adapter, outbound>>
    BY <1>10 DEF WA!Deliver, WA!Remembers, WA!Moves, WA!Deliveries, WA!life, WA!inbound,
           WA!outbound, outbound
  <2>2. InTypes'
    BY <1>10, <2>1 DEF WA!Deliver, WA!Remembers, WA!Moves, WA!Deliveries, WA!life,
           WA!inbound
  <2>3. Once'
    BY <1>10, <2>1 DEF WA!Deliver, WA!Remembers, WA!Moves, WA!Deliveries, WA!life,
           WA!inbound, Once
  <2>4. \A d \in Deliveries : at[d] = "done" => at'[d] = "done"
    BY <1>10 DEF WA!Deliver, WA!Remembers, WA!Moves, WA!Deliveries, WA!life, WA!inbound
  <2>5. Served'
    BY <2>1, <2>4, DoneStays DEF Outbound, outbound
  <2>6. Honest'
    BY <1>10, <2>1 DEF WA!Deliver, WA!Remembers, WA!Moves, WA!Deliveries, WA!life,
           WA!inbound, outbound, Served
  <2> QED BY <2>1, <2>2, <2>3, <2>5, <2>6, OutboundRests
<1> QED
  BY <1>1, <1>2, <1>3, <1>4, <1>5, <1>6, <1>7, <1>8, <1>9, <1>10,
     WhatsAppSends DEF WA!Next, WA!Handlers, WA!Deliveries

-----------------------------------------------------------------------------
(* Email.                                                                  *)

\* The platform's module names the operators that all share.
LEMMA SameEmail ==
  /\ EM!Idle = Idle
  /\ \A s, f : EM!Orders(s, f) = Orders(s, f)
  /\ \A o, r : EM!Begins(o, r) <=> Begins(o, r)
  /\ \A c : EM!Posts(c) <=> Posts(c)
  /\ EM!Returns <=> Returns
  /\ EM!Raises <=> Raises
  /\ \A r : EM!Awaits(r) <=> sending.rung = r
<1>1. EM!Idle = Idle
  BY Zenon DEF EM!Idle, Idle
<1>2. \A s, f : EM!Orders(s, f) = Orders(s, f)
  BY Zenon DEF EM!Orders, Orders, EM!Open, Open
<1>3. \A o, r : EM!Begins(o, r) <=> Begins(o, r)
  BY <1>1, Zenon DEF EM!Begins, Begins
<1>4. \A c : EM!Posts(c) <=> Posts(c)
  BY Zenon DEF EM!Posts, Posts, EM!Piece, Piece
<1>5. EM!Returns <=> Returns
  BY <1>1, Zenon DEF EM!Returns, Returns
<1>6. EM!Raises <=> Raises
  BY <1>1, Zenon DEF EM!Raises, Raises
<1>7. \A r : EM!Awaits(r) <=> sending.rung = r
  BY Zenon DEF EM!Awaits
<1> QED BY <1>1, <1>2, <1>3, <1>4, <1>5, <1>6, <1>7

\* Handing a message to Email, and every call its send() awaits, keep the invariant.
LEMMA EmailSends ==
  ASSUME Inbound, Outbound, adapter = "email",
         \/ \E o \in EM!Orders({1}, {FALSE}) : EM!Send(o) \/ EM!NotSent(o)
         \/ EM!Mailed \/ EM!Fails
  PROVE  Inbound' /\ Outbound'
<1> USE SameEmail
<1>0. adapter \in Single /\ adapter \in Quiet /\ acts \in Nat /\ handed \in Nat
  BY DEF Single, Quiet, Inbound, InTypes, Outbound, OutTypes
<1>1. ASSUME NEW o \in Orders({1}, {FALSE}), EM!Send(o)
      PROVE  Inbound' /\ Outbound'
  <2>1. /\ sending = Idle /\ handed' = handed + 1 /\ acts' \in Nat /\ Begins(o, "smtp")
        /\ UNCHANGED <<adapter, phase, link, at, seen, timer, typing, route>>
        /\ UNCHANGED <<posts, tracked, sent, swallowed, answered>>
    BY <1>0, <1>1 DEF EM!Send, EM!Hands, EM!Act, EM!life, EM!inbound
  <2> QED BY <1>0, <2>1, SingleBegins
<1>2. ASSUME NEW o \in Orders({1}, {FALSE}), EM!NotSent(o)
      PROVE  Inbound' /\ Outbound'
  <2>1. /\ sending = Idle /\ handed' = handed + 1 /\ acts' \in Nat /\ answered' = answered \cup o.to
        /\ UNCHANGED <<adapter, phase, link, at, seen, timer, typing, route>>
        /\ UNCHANGED <<sending, posts, tracked, sent, swallowed>>
    BY <1>0, <1>2 DEF EM!NotSent, EM!Hands, EM!Act, EM!life, EM!inbound
  <2>2. o.to \in {{}, Open}
    <3>1. {1} \in SUBSET Nat
      OBVIOUS
    <3> QED BY <3>1, OrdersAre
  <2> QED BY <1>0, <2>1, <2>2, QuietNotSent
<1>3. ASSUME EM!Mailed PROVE Inbound' /\ Outbound'
  <2>1. /\ acts' \in Nat /\ Returns /\ Posts(IF sending.kind = "progress" THEN 0 ELSE 1)
        /\ UNCHANGED <<adapter, phase, link, at, seen, timer, typing, route, handed, tracked, swallowed>>
    BY <1>0, <1>3 DEF EM!Mailed, EM!Act, EM!Aside, EM!life, EM!inbound
  <2>2. sending # Idle
    BY <1>3, IdleCall DEF EM!Mailed, Rungs
  <2> QED BY <1>0, <2>1, <2>2, SingleSent
<1>4. ASSUME EM!Fails PROVE Inbound' /\ Outbound'
  <2>1. /\ acts' \in Nat
        /\ (Returns /\ swallowed' = swallowed \cup {sending.n}) \/ (Raises /\ swallowed' = swallowed)
        /\ UNCHANGED <<adapter, phase, link, at, seen, timer, typing, route, handed, posts, tracked>>
    BY <1>0, <1>4 DEF EM!Fails, EM!Act, EM!Aside, EM!life, EM!inbound
  <2>2. sending # Idle
    BY <1>4, IdleCall DEF EM!Fails, Rungs
  <2> QED BY <1>0, <2>1, <2>2, QuietFails
<1> QED BY <1>1, <1>2, <1>3, <1>4

\* Every step of Email keeps the invariant.
LEMMA EmailStep ==
  ASSUME Inbound, Outbound, adapter = "email", EM!Next
  PROVE  Inbound' /\ Outbound'
<1> USE DEF Inbound, InTypes, Once, Honest, Deliveries, Where, Names, OneByOne, Cached
<1>1. ASSUME EM!Start PROVE Inbound' /\ Outbound'
  <2>1. UNCHANGED <<adapter, outbound>>
    BY <1>1 DEF EM!Start, EM!Enters, EM!life, EM!inbound, EM!outbound, outbound
  <2>2. InTypes'
    BY <1>1, <2>1 DEF EM!Start, EM!Enters, EM!life, EM!inbound
  <2>3. Once'
    BY <1>1, <2>1 DEF EM!Start, EM!Enters, EM!life, EM!inbound, Once
  <2>4. \A d \in Deliveries : at[d] = "done" => at'[d] = "done"
    BY <1>1 DEF EM!Start, EM!Enters, EM!life, EM!inbound
  <2>5. Served'
    BY <2>1, <2>4, DoneStays DEF Outbound, outbound
  <2>6. Honest'
    BY <1>1, <2>1 DEF EM!Start, EM!Enters, EM!life, EM!inbound, outbound, Served
  <2> QED BY <2>1, <2>2, <2>3, <2>5, <2>6, OutboundRests
<1>2. ASSUME EM!StartCancelled PROVE Inbound' /\ Outbound'
  <2>1. UNCHANGED <<adapter, outbound>>
    BY <1>2 DEF EM!StartCancelled, EM!Act, EM!Places, EM!Deliveries, EM!life,
           EM!inbound, EM!outbound, outbound
  <2>8. at' \in [Deliveries -> Where] /\ \A d \in Deliveries : at'[d] \in {at[d], "lost"}
    BY <1>2 DEF EM!StartCancelled, EM!Act, EM!Places, EM!Deliveries, EM!life, EM!inbound
  <2>20. adapter' \in Names
    BY <1>2 DEF EM!StartCancelled, EM!Act, EM!Deliveries, EM!life, EM!inbound
  <2>21. phase' \in {"new", "starting", "up", "left", "stopping", "down"}
    BY <1>2 DEF EM!StartCancelled, EM!Act, EM!Deliveries, EM!life, EM!inbound
  <2>22. seen' \in SUBSET Messages
    BY <1>2 DEF EM!StartCancelled, EM!Act, EM!Deliveries, EM!life, EM!inbound
  <2>23. acts' \in Nat
    BY <1>2 DEF EM!StartCancelled, EM!Act, EM!Deliveries, EM!life, EM!inbound
  <2>24. link' \in BOOLEAN
    BY <1>2 DEF EM!StartCancelled, EM!Act, EM!Deliveries, EM!life, EM!inbound
  <2>25. timer' \in BOOLEAN
    BY <1>2 DEF EM!StartCancelled, EM!Act, EM!Deliveries, EM!life, EM!inbound
  <2>26. typing' \in BOOLEAN
    BY <1>2 DEF EM!StartCancelled, EM!Act, EM!Deliveries, EM!life, EM!inbound
  <2>27. route' \in BOOLEAN
    BY <1>2 DEF EM!StartCancelled, EM!Act, EM!Deliveries, EM!life, EM!inbound
  <2>2. InTypes'
    BY <2>8, <2>20, <2>21, <2>22, <2>23, <2>24, <2>25, <2>26, <2>27, Zenon
  <2>3. Once'
    BY <1>2, <2>8, <2>20, <2>21, <2>22, <2>23, <2>24, <2>25, <2>26, <2>27, <2>1 DEF
           EM!StartCancelled, EM!Act, EM!Deliveries, EM!life, EM!inbound, Once
  <2>4. \A d \in Deliveries : at[d] = "done" => at'[d] = "done"
    BY <1>2 DEF EM!StartCancelled, EM!Act, EM!Places, EM!Deliveries, EM!life, EM!inbound
  <2>5. Served'
    BY <2>1, <2>4, DoneStays DEF Outbound, outbound
  <2>6. Honest'
    BY <1>2, <2>1 DEF EM!StartCancelled, EM!Act, EM!Places, EM!Deliveries, EM!life,
           EM!inbound, outbound, Served
  <2> QED BY <2>1, <2>2, <2>3, <2>5, <2>6, OutboundRests
<1>3. ASSUME NEW m \in Messages, EM!Said(m, "due") PROVE Inbound' /\ Outbound'
  <2>1. UNCHANGED <<adapter, outbound>>
    BY <1>3 DEF EM!Said, EM!Act, EM!Moves, EM!life, EM!inbound, EM!outbound, outbound
  <2>2. InTypes'
    BY <1>3, <2>1 DEF EM!Said, EM!Act, EM!Moves, EM!life, EM!inbound
  <2>3. Once'
    BY <1>3, <2>1 DEF EM!Said, EM!Act, EM!Moves, EM!life, EM!inbound, Once
  <2>4. \A d \in Deliveries : at[d] = "done" => at'[d] = "done"
    BY <1>3 DEF EM!Said, EM!Act, EM!Moves, EM!life, EM!inbound
  <2>5. Served'
    BY <2>1, <2>4, DoneStays DEF Outbound, outbound
  <2>6. Honest'
    BY <1>3, <2>1 DEF EM!Said, EM!Act, EM!Moves, EM!life, EM!inbound, outbound, Served
  <2> QED BY <2>1, <2>2, <2>3, <2>5, <2>6, OutboundRests
<1>4. ASSUME NEW m \in Messages, EM!Again(m) PROVE Inbound' /\ Outbound'
  <2>1. UNCHANGED <<adapter, outbound>>
    BY <1>4 DEF EM!Again, EM!Act, EM!Moves, EM!life, EM!inbound, EM!outbound, outbound
  <2>2. InTypes'
    BY <1>4, <2>1 DEF EM!Again, EM!Act, EM!Moves, EM!life, EM!inbound
  <2>3. Once'
    BY <1>4, <2>1 DEF EM!Again, EM!Act, EM!Moves, EM!life, EM!inbound, Once
  <2>4. \A d \in Deliveries : at[d] = "done" => at'[d] = "done"
    BY <1>4 DEF EM!Again, EM!Act, EM!Moves, EM!life, EM!inbound
  <2>5. Served'
    BY <2>1, <2>4, DoneStays DEF Outbound, outbound
  <2>6. Honest'
    BY <1>4, <2>1 DEF EM!Again, EM!Act, EM!Moves, EM!life, EM!inbound, outbound, Served
  <2> QED BY <2>1, <2>2, <2>3, <2>5, <2>6, OutboundRests
<1>5. ASSUME EM!PollStarts PROVE Inbound' /\ Outbound'
  <2>1. UNCHANGED <<adapter, outbound>>
    BY <1>5 DEF EM!PollStarts, EM!Deliveries, EM!life, EM!inbound, EM!outbound, outbound
  <2>2. InTypes'
    BY <1>5, <2>1 DEF EM!PollStarts, EM!Deliveries, EM!life, EM!inbound
  <2>3. Once'
    BY <1>5, <2>1 DEF EM!PollStarts, EM!Deliveries, EM!life, EM!inbound, Once
  <2>4. \A d \in Deliveries : at[d] = "done" => at'[d] = "done"
    BY <1>5 DEF EM!PollStarts, EM!Deliveries, EM!life, EM!inbound
  <2>5. Served'
    BY <2>1, <2>4, DoneStays DEF Outbound, outbound
  <2>6. Honest'
    BY <1>5, <2>1 DEF EM!PollStarts, EM!Deliveries, EM!life, EM!inbound, outbound,
           Served
  <2> QED BY <2>1, <2>2, <2>3, <2>5, <2>6, OutboundRests
<1>6. ASSUME EM!PollFails PROVE Inbound' /\ Outbound'
  <2>1. UNCHANGED <<adapter, outbound>>
    BY <1>6 DEF EM!PollFails, EM!Act, EM!Places, EM!Deliveries, EM!life, EM!inbound,
           EM!outbound, outbound
  <2>8. at' \in [Deliveries -> Where] /\ \A d \in Deliveries : at'[d] \in {at[d], "lost"}
    BY <1>6 DEF EM!PollFails, EM!Act, EM!Places, EM!Deliveries, EM!life, EM!inbound
  <2>20. adapter' \in Names
    BY <1>6 DEF EM!PollFails, EM!Act, EM!Deliveries, EM!life, EM!inbound
  <2>21. phase' \in {"new", "starting", "up", "left", "stopping", "down"}
    BY <1>6 DEF EM!PollFails, EM!Act, EM!Deliveries, EM!life, EM!inbound
  <2>22. seen' \in SUBSET Messages
    BY <1>6 DEF EM!PollFails, EM!Act, EM!Deliveries, EM!life, EM!inbound
  <2>23. acts' \in Nat
    BY <1>6 DEF EM!PollFails, EM!Act, EM!Deliveries, EM!life, EM!inbound
  <2>24. link' \in BOOLEAN
    BY <1>6 DEF EM!PollFails, EM!Act, EM!Deliveries, EM!life, EM!inbound
  <2>25. timer' \in BOOLEAN
    BY <1>6 DEF EM!PollFails, EM!Act, EM!Deliveries, EM!life, EM!inbound
  <2>26. typing' \in BOOLEAN
    BY <1>6 DEF EM!PollFails, EM!Act, EM!Deliveries, EM!life, EM!inbound
  <2>27. route' \in BOOLEAN
    BY <1>6 DEF EM!PollFails, EM!Act, EM!Deliveries, EM!life, EM!inbound
  <2>2. InTypes'
    BY <2>8, <2>20, <2>21, <2>22, <2>23, <2>24, <2>25, <2>26, <2>27, Zenon
  <2>3. Once'
    BY <1>6, <2>8, <2>20, <2>21, <2>22, <2>23, <2>24, <2>25, <2>26, <2>27, <2>1 DEF
           EM!PollFails, EM!Act, EM!Deliveries, EM!life, EM!inbound, Once
  <2>4. \A d \in Deliveries : at[d] = "done" => at'[d] = "done"
    BY <1>6 DEF EM!PollFails, EM!Act, EM!Places, EM!Deliveries, EM!life, EM!inbound
  <2>5. Served'
    BY <2>1, <2>4, DoneStays DEF Outbound, outbound
  <2>6. Honest'
    BY <1>6, <2>1 DEF EM!PollFails, EM!Act, EM!Places, EM!Deliveries, EM!life,
           EM!inbound, outbound, Served
  <2> QED BY <2>1, <2>2, <2>3, <2>5, <2>6, OutboundRests
<1>7. ASSUME EM!PollEnds PROVE Inbound' /\ Outbound'
  <2>1. UNCHANGED <<adapter, outbound>>
    BY <1>7 DEF EM!PollEnds, EM!Places, EM!Deliveries, EM!life, EM!inbound, EM!outbound,
           outbound
  <2>2. InTypes'
    BY <1>7, <2>1 DEF EM!PollEnds, EM!Places, EM!Deliveries, EM!life, EM!inbound
  <2>3. Once'
    BY <1>7, <2>1 DEF EM!PollEnds, EM!Places, EM!Deliveries, EM!life, EM!inbound, Once
  <2>4. \A d \in Deliveries : at[d] = "done" => at'[d] = "done"
    BY <1>7 DEF EM!PollEnds, EM!Places, EM!Deliveries, EM!life, EM!inbound
  <2>5. Served'
    BY <2>1, <2>4, DoneStays DEF Outbound, outbound
  <2>6. Honest'
    BY <1>7, <2>1 DEF EM!PollEnds, EM!Places, EM!Deliveries, EM!life, EM!inbound,
           outbound, Served
  <2> QED BY <2>1, <2>2, <2>3, <2>5, <2>6, OutboundRests
<1>8. ASSUME NEW e \in Deliveries, EM!Collect(e) PROVE Inbound' /\ Outbound'
  <2>1. UNCHANGED <<adapter, outbound>>
    BY <1>8 DEF EM!Collect, EM!Remembers, EM!Moves, EM!Deliveries, EM!life, EM!inbound,
           EM!outbound, outbound
  <2>2. InTypes'
    BY <1>8, <2>1 DEF EM!Collect, EM!Remembers, EM!Moves, EM!Deliveries, EM!life,
           EM!inbound
  <2>3. Once'
    BY <1>8, <2>1 DEF EM!Collect, EM!Remembers, EM!Moves, EM!Deliveries, EM!life,
           EM!inbound, Once
  <2>4. \A d \in Deliveries : at[d] = "done" => at'[d] = "done"
    BY <1>8 DEF EM!Collect, EM!Remembers, EM!Moves, EM!Deliveries, EM!life, EM!inbound
  <2>5. Served'
    BY <2>1, <2>4, DoneStays DEF Outbound, outbound
  <2>6. Honest'
    BY <1>8, <2>1 DEF EM!Collect, EM!Remembers, EM!Moves, EM!Deliveries, EM!life,
           EM!inbound, outbound, Served
  <2> QED BY <2>1, <2>2, <2>3, <2>5, <2>6, OutboundRests
<1> QED
  BY <1>1, <1>2, <1>3, <1>4, <1>5, <1>6, <1>7, <1>8, EmailSends DEF EM!Next, EM!Handlers, EM!Deliveries

-----------------------------------------------------------------------------
(* All channels.                                                           *)

\* A channel that was only made satisfies the invariant.
LEMMA AdaptersBegin ==
  ASSUME AnyInit
  PROVE  Inbound /\ Outbound
<1>1. /\ adapter \in Names /\ phase = "new" /\ link = FALSE /\ timer = FALSE /\ typing = FALSE /\ route = FALSE
      /\ at = [d \in Deliveries |-> "none"] /\ seen = {} /\ acts = 0 /\ answered = {} /\ sending = Idle
      /\ posts = <<>> /\ tracked = 0 /\ handed = 0 /\ sent = {} /\ swallowed = {}
  BY DEF AnyInit, Init
<1>2. \A d \in Deliveries : at[d] = "none"
  BY <1>1
<1>3. \A m \in Messages : <<m, 1>> \in Deliveries /\ <<m, 2>> \in Deliveries
  BY DEF Deliveries
<1>4. InTypes
  BY <1>1 DEF InTypes, Where
<1>5. Once
  BY <1>1, <1>2, <1>3 DEF Once
<1>6. sending.kind = "none" /\ sending.to = {} /\ sending.rung \notin Rungs /\ sending \in Call
  BY <1>1, IdleCall
<1>7. Served
  BY <1>1, <1>6 DEF Served
<1>8. Honest
  BY <1>1, <1>2 DEF Honest, TelegramTypes, DiscordTypes, MatrixTypes
<1>9. OutTypes
  <2>1. posts \in Seq(Post)
    BY <1>1
  <2> QED BY <1>1, <1>6, <2>1 DEF OutTypes
<1>10. DOMAIN posts = {}
  BY <1>1
<1>11. Numbered
  BY <1>1, <1>6, <1>10 DEF Numbered
<1>12. Stands
  BY <1>1, <1>6 DEF Stands
<1>13. Streams
  BY <1>1 DEF Streams
<1>14. AtCall
  BY <1>1, <1>6, <1>10 DEF AtCall, Rungs
<1> QED BY <1>4, <1>5, <1>7, <1>8, <1>9, <1>11, <1>12, <1>13, <1>14 DEF Inbound, Outbound

\* A step that changes nothing.
LEMMA AdaptersRest ==
  ASSUME Inbound, Outbound, UNCHANGED vars
  PROVE  Inbound' /\ Outbound'
<1>1. UNCHANGED <<adapter, phase, link, at, seen, timer, typing, route, acts, outbound>>
  BY DEF vars, life, inbound
<1>2. UNCHANGED <<sending, answered>>
  BY <1>1 DEF outbound
<1>3. InTypes'
  BY <1>1 DEF Inbound, InTypes
<1>4. Once'
  BY <1>1 DEF Inbound, Once
<1>5. Served'
  BY <1>1, <1>2 DEF Inbound, Served
<1>6. Honest'
  BY <1>1, <1>2 DEF Inbound, Honest, TelegramTypes, DiscordTypes, MatrixTypes, Waits, Taking
<1>7. Outbound'
  BY <1>1, OutboundRests
<1> QED BY <1>3, <1>4, <1>5, <1>6, <1>7 DEF Inbound

\* The invariant of the channels: what each knows of the deliveries it took, and of
\* what it has shown (all of integrations/ that Adapters puts together).
THEOREM AdaptersInductive == Spec => [](Inbound /\ Outbound)
<1>1. AnyInit => Inbound /\ Outbound
  BY AdaptersBegin
<1>2. Inbound /\ Outbound /\ [Steps]_vars => Inbound' /\ Outbound'
  <2> SUFFICES ASSUME Inbound, Outbound, [Steps]_vars PROVE Inbound' /\ Outbound'
    OBVIOUS
  <2>1. CASE UNCHANGED vars
    BY <2>1, AdaptersRest
  <2>2. CASE adapter = "telegram" /\ TG!Next
    BY <2>2, TelegramStep
  <2>3. CASE adapter = "discord" /\ DC!Next
    BY <2>3, DiscordStep
  <2>4. CASE adapter = "matrix" /\ MX!Next
    BY <2>4, MatrixStep
  <2>5. CASE adapter = "feishu" /\ FS!Next
    BY <2>5, FeishuStep
  <2>6. CASE adapter = "slack" /\ SL!Next
    BY <2>6, SlackStep
  <2>7. CASE adapter = "dingtalk" /\ DT!Next
    BY <2>7, DingTalkStep
  <2>8. CASE adapter = "wecom" /\ WC!Next
    BY <2>8, WecomStep
  <2>9. CASE adapter = "qq" /\ QQ!Next
    BY <2>9, QqStep
  <2>10. CASE adapter = "whatsapp" /\ WA!Next
    BY <2>10, WhatsAppStep
  <2>11. CASE adapter = "email" /\ EM!Next
    BY <2>11, EmailStep
  <2> QED
    BY <2>1, <2>2, <2>3, <2>4, <2>5, <2>6, <2>7, <2>8, <2>9, <2>10, <2>11 DEF Steps
<1> QED BY <1>1, <1>2, PTL DEF Spec

\* A message is published once, whatever its platform delivers twice: what is taken is
\* remembered before anything is awaited, or the platform's loop takes one message
\* after the other (_processed_message_ids and the like).
THEOREM AdaptersForwardOnce == Spec => []ForwardedOnce
<1>1. Inbound => ForwardedOnce
  <2> SUFFICES ASSUME Inbound, adapter = "slack" => route, NEW m \in Messages,
                      at[<<m, 1>>] = "done", at[<<m, 2>>] = "done"
               PROVE  FALSE
    BY DEF ForwardedOnce
  <2>1. <<m, 1>> \in Deliveries /\ <<m, 2>> \in Deliveries /\ <<m, 1>> # <<m, 2>>
    BY DEF Deliveries
  <2>2. <<m, 1>>[1] = m /\ <<m, 2>>[1] = m
    OBVIOUS
  <2>3. Once /\ adapter \in Names
    BY DEF Inbound, InTypes
  <2>4. CASE adapter \in Cached
    BY <2>1, <2>2, <2>3, <2>4 DEF Once
  <2>5. CASE adapter = "whatsapp"
    BY <2>1, <2>2, <2>3, <2>5 DEF Once
  <2>6. CASE adapter \in OneByOne
    BY <2>3, <2>6 DEF Once
  <2>7. CASE adapter = "slack"
    BY <2>3, <2>7 DEF Once
  <2> QED BY <2>3, <2>4, <2>5, <2>6, <2>7 DEF Names, Cached, OneByOne
<1> QED BY <1>1, AdaptersInductive, PTL

\* Every piece of an answer that send() reported as sent stands, and progress is never
\* written over it nor above it (_progress_messages, _stream_bufs).
THEOREM AdaptersAnswersStand == Spec => []AnswersStand
<1>1. Outbound => AnswersStand
  BY DEF Outbound, AnswersStand, Stands, Streams, Standing
<1> QED BY <1>1, AdaptersInductive, PTL

\* Whoever shows that somebody types has a message to take or to answer: typing ends
\* no later than the answer, or something else waits (_stop_typing).
THEOREM AdaptersTypeHonestly == Spec => []TypingIsHonest
<1>1. Inbound => TypingIsHonest
  <2> SUFFICES ASSUME Inbound, typing PROVE Open # {} \/ \E d \in Deliveries : at[d] \in Inside
    BY DEF TypingIsHonest
  <2>1. ASSUME NEW ms, Waits(ms) PROVE Open # {}
    BY <2>1 DEF Waits, Open
  <2>2. CASE adapter = "telegram"
    BY <2>1, <2>2 DEF Inbound, Honest, TelegramTypes, Taking
  <2>3. CASE adapter = "discord"
    BY <2>1, <2>3 DEF Inbound, Honest, DiscordTypes
  <2>4. CASE adapter = "matrix"
    BY <2>1, <2>4 DEF Inbound, Honest, MatrixTypes
  <2> QED BY <2>2, <2>3, <2>4 DEF Inbound, Honest
<1> QED BY <1>1, AdaptersInductive, PTL
=============================================================================
