---------------------------- MODULE EventLoopInv ----------------------------
(***************************************************************************)
(* The inductive invariant of EventLoop, for any commands, clusters,       *)
(* limits, timeouts, retries and faults, and the proof that the events of  *)
(* a command that runs keep it.  EventLoopQueue goes on with the queues.   *)
(***************************************************************************)
EXTENDS EventLoop, TLAPS

\* A leaf that names no prover is tried with SMT, with Zenon, and with SMT at length.
USE SMT, Zenon, SMTT(20)

-----------------------------------------------------------------------------
(* The stack of the loop thread.                                            *)

Ops == {"tell", "free", "execute", "admit", "drain"}
FrameSet == [op : Ops, c : Cmd \cup {"none"}, code : {"none", "ok", "client", "server"}]

\* The commands of the frames that run op.
InFrames(s, op) == {s[i].c : i \in {j \in DOMAIN s : s[j].op = op}}

\* A frame that decides what becomes of its command.
Owner(f) == f.op \in {"execute", "admit", "free"}

\* A listener and a command it issues run at once; a command is admitted right after a
\* drain; no two frames decide about one command.
Shape(s) ==
    /\ s \in Seq(FrameSet)
    /\ \A i \in DOMAIN s : s[i].op # "drain" => s[i].c \in Cmd
    /\ \A i \in DOMAIN s : s[i].op \in {"tell", "execute"} => i = 1
    /\ \A i \in DOMAIN s : i > 1 /\ s[i].op = "admit" => s[i - 1].op = "drain"
    /\ \A i, j \in DOMAIN s : Owner(s[i]) /\ Owner(s[j]) /\ s[i].c = s[j].c => i = j

Drains(s) == InFrames(s, "drain") # {}

-----------------------------------------------------------------------------
(* The invariant.                                                           *)

Early == {"NEW", "REFUSED", "REGISTERED", "ISSUED", "DELAY_QUEUE"}
OnSocket == {"CONNECT", "AUTH", "COMMAND_WRITE", "COMMAND_READ"}
Started == OnSocket \cup {"RETRY"}
States == Early \cup Started \cup {"QUEUE_ERROR", "FREED"}

Command ==
    [state : States, conn : {"null", "open", "stale"}, timer : {"none", "zero", "once", "repeat"},
     sock : BOOLEAN, received : BOOLEAN, iteration : Nat, expired : BOOLEAN, sent : Nat, copies : Nat,
     result : Seq({"ok", "in_doubt", "error"}), late : BOOLEAN]

EventStates == [pending : Nat, closed : BOOLEAN, closing : BOOLEAN, others : BOOLEAN, destroyed : BOOLEAN]
Slots == [idle : Nat, total : Nat]
Loops == [pending : Nat, queue : Seq(Cmd \cup Cluster), delay : Seq(Cmd), errors : Nat, using : BOOLEAN]

\* The sizes of sets of commands, of which there are finitely many.
Cards ==
    /\ Cardinality({}) = 0
    /\ \A S \in SUBSET Cmd : Cardinality(S) \in Nat
    /\ \A S \in SUBSET Cmd : \A c \in Cmd \ S : Cardinality(S \cup {c}) = Cardinality(S) + 1
    /\ \A S \in SUBSET Cmd : \A c \in S : Cardinality(S \ {c}) = Cardinality(S) - 1

Types ==
    /\ Cards
    /\ cmd \in [Cmd -> Command]
    /\ loop \in Loops
    /\ es \in [Cluster -> EventStates]
    /\ pool \in [Cluster -> Slots]
    /\ faults \in Nat
    /\ Shape(stack)

\* Where a command is: in the queue, in the delay queue, in a frame that executes,
\* admits, releases or tells it.
Placed(cm, queued, delayed, executed, admitted, freed, told) ==
    /\ queued => cm.state = "REGISTERED" /\ cm.timer = "none"
    /\ delayed => cm.state \in {"DELAY_QUEUE", "QUEUE_ERROR"}
    /\ executed => cm.state = "ISSUED"
    /\ admitted => cm.state \in {"ISSUED", "REGISTERED"} /\ cm.timer = "none" /\ ~queued
    /\ freed => cm.state \in Started \cup {"QUEUE_ERROR"} /\ cm.timer = "none" /\ cm.conn # "open" /\ ~delayed
    /\ told => cm.result = <<>> /\ (freed \/ cm.state = "QUEUE_ERROR")
    /\ cm.state = "DELAY_QUEUE" => delayed
    /\ cm.state = "QUEUE_ERROR" => delayed \/ freed
    /\ (cm.state = "QUEUE_ERROR" \/ freed) /\ ~told => Len(cm.result) = 1
    /\ cm.state \in Started /\ ~freed => cm.result = <<>>

\* The timer and the socket of a command; "ending": its release is due.
Attached(cm, ending) ==
    /\ cm.state \in Early \cup {"QUEUE_ERROR"} => cm.conn = "null"
    /\ cm.state \in Early => cm.result = <<>>
    /\ cm.state \in {"NEW", "REFUSED", "ISSUED", "QUEUE_ERROR"} => cm.timer = "none"
    /\ cm.state = "REGISTERED" => cm.timer \in {"none", "zero"}
    /\ cm.state = "DELAY_QUEUE" => cm.timer \in {"none", "once"}
    /\ cm.state = "FREED" => cm.timer = "none" /\ cm.conn # "open" /\ Len(cm.result) = 1
    /\ cm.state = "RETRY" /\ ~ending => cm.timer = "zero" /\ cm.conn = "null"
    /\ cm.state \in OnSocket /\ ~ending => cm.timer # "zero" /\ cm.conn = "open"
    /\ cm.state = "AUTH" /\ ~ending => Auth

\* How often a command was sent, how many copies may have been applied, and what an
\* error that was told says about them.
Sent(cm, ending) ==
    /\ cm.copies <= cm.sent /\ cm.sent <= MaxRetries + 1 /\ cm.iteration <= MaxRetries + 1
    /\ cm.state \in Early \cup {"QUEUE_ERROR"} => cm.sent = 0 /\ cm.iteration = 0
    /\ cm.state \in Started /\ ~ending => cm.iteration <= MaxRetries /\ cm.sent <= cm.iteration + 1
    /\ cm.state \in Started \ {"COMMAND_READ"} /\ ~ending => cm.sent <= cm.iteration
    /\ cm.state = "COMMAND_READ" /\ ~ending => cm.copies >= 1
    /\ ~Auth /\ cm.result = <<"error">> => cm.copies = 0

Ending(c) == c \in InFrames(stack, "free")

Commands ==
    \A c \in Cmd :
        /\ Placed(cmd[c], c \in Range(loop.queue), c \in Range(loop.delay), c \in InFrames(stack, "execute"),
                  c \in InFrames(stack, "admit"), Ending(c), c \in InFrames(stack, "tell"))
        /\ Attached(cmd[c], Ending(c))
        /\ Sent(cmd[c], Ending(c))

\* What a listener is about to be told.
Telling ==
    Running("tell") => /\ stack[1].code # "none"
                       /\ ~Auth /\ stack[1].code = "server" => cmd[stack[1].c].copies < cmd[stack[1].c].sent

\* The queues of a loop, and who will drain the delay queue.
Goes(lp) == lp.pending < MaxInProcess /\ lp.delay # <<>>
LoopOK(lp, s) ==
    /\ IsInjective(lp.delay)
    /\ \A i, j \in DOMAIN lp.queue : lp.queue[i] = lp.queue[j] /\ lp.queue[i] \in Cmd => i = j
    /\ MaxInQueue > 0 => Len(lp.delay) <= MaxInQueue
    /\ MaxInProcess > 0 => lp.pending <= MaxInProcess
    /\ MaxInProcess = 0 => lp.delay = <<>> /\ ~Drains(s) /\ InFrames(s, "admit") = {}
    /\ lp.using => Drains(s)
    /\ Goes(lp) => Drains(s)
    /\ s # <<>> /\ s[1].op = "admit" => ~Goes(lp)

Delays == LoopOK(loop, stack)

Holding(k) == {c \in Cmd : ClusterOf[c] = k /\ cmd[c].conn = "open"}

Counts ==
    /\ loop.pending = CommandsIn(Cluster)
    /\ \A k \in Cluster : es[k].pending = CommandsIn({k})

Pools ==
    \A k \in Cluster : /\ pool[k].total = pool[k].idle + Cardinality(Holding(k))
                       /\ pool[k].total <= ConnLimit

Inv == Types /\ Commands /\ Telling /\ Delays /\ Counts /\ Pools

-----------------------------------------------------------------------------
(* Frames pushed and popped.                                                *)

\* A stack on which the running frame may push others.
Base(s) ==
    /\ Shape(s)
    /\ InFrames(s, "tell") = {} /\ InFrames(s, "execute") = {}
    /\ s # <<>> => s[1].op # "admit"

\* An empty stack can be pushed on.
LEMMA EmptyBase == Base(<<>>)
BY DEF Base, Shape, InFrames

\* The running frame is one of the frames.
LEMMA Top ==
    ASSUME NEW s, Shape(s), s # <<>>
    PROVE  s[1] \in FrameSet /\ s[1].c \in InFrames(s, s[1].op) /\ (s[1].op # "drain" => s[1].c \in Cmd)
<1>1. s \in Seq(FrameSet) /\ 1 \in DOMAIN s
    BY DEF Shape
<1> QED
    BY <1>1 DEF Shape, InFrames

\* What is left under the running frame.
LEMMA Popped ==
    ASSUME NEW s, Shape(s), s # <<>>
    PROVE  /\ Shape(Tail(s)) /\ s[1] \in FrameSet
           /\ InFrames(Tail(s), "tell") = {} /\ InFrames(Tail(s), "execute") = {}
           /\ InFrames(Tail(s), "admit") = InFrames(s, "admit") \ (IF s[1].op = "admit" THEN {s[1].c} ELSE {})
           /\ InFrames(Tail(s), "free") = InFrames(s, "free") \ (IF s[1].op = "free" THEN {s[1].c} ELSE {})
           /\ s[1].op # "drain" => Base(Tail(s)) /\ InFrames(Tail(s), "drain") = InFrames(s, "drain")
<1> DEFINE t == Tail(s)
<1>1. /\ s \in Seq(FrameSet) /\ Len(s) \in Nat \ {0} /\ DOMAIN s = 1..Len(s)
      /\ t \in Seq(FrameSet) /\ DOMAIN t = 1..(Len(s) - 1) /\ \A i \in 1..(Len(s) - 1) : t[i] = s[i + 1]
    BY DEF Shape
<1>2. s[1] \in FrameSet
    BY <1>1
<1>3. Shape(t)
  <2>1. \A i \in DOMAIN t : t[i].op # "drain" => t[i].c \in Cmd
      BY <1>1 DEF Shape
  <2>2. \A i \in DOMAIN t : t[i].op \notin {"tell", "execute"}
      BY <1>1 DEF Shape
  <2>3. \A i \in DOMAIN t : i > 1 /\ t[i].op = "admit" => t[i - 1].op = "drain"
    <3> SUFFICES ASSUME NEW i \in DOMAIN t, i > 1, t[i].op = "admit" PROVE t[i - 1].op = "drain"
        OBVIOUS
    <3>1. i + 1 \in DOMAIN s /\ i + 1 > 1 /\ s[i + 1].op = "admit" /\ t[i - 1] = s[(i + 1) - 1]
        BY <1>1
    <3> QED
        BY <3>1 DEF Shape
  <2>4. \A i, j \in DOMAIN t : Owner(t[i]) /\ Owner(t[j]) /\ t[i].c = t[j].c => i = j
    <3> SUFFICES ASSUME NEW i \in DOMAIN t, NEW j \in DOMAIN t, Owner(t[i]), Owner(t[j]), t[i].c = t[j].c PROVE i = j
        OBVIOUS
    <3>1. i + 1 \in DOMAIN s /\ j + 1 \in DOMAIN s /\ t[i] = s[i + 1] /\ t[j] = s[j + 1]
        BY <1>1
    <3>2. i + 1 = j + 1
        BY <3>1 DEF Shape
    <3> QED
        BY <3>2, <1>1
  <2> QED
      BY <1>1, <2>1, <2>2, <2>3, <2>4 DEF Shape
<1>4. InFrames(t, "tell") = {} /\ InFrames(t, "execute") = {}
    BY <1>1 DEF Shape, InFrames
<1>5. \A op \in Ops : \A x : x \in InFrames(s, op) <=> x \in InFrames(t, op) \/ (s[1].op = op /\ s[1].c = x)
  <2> SUFFICES ASSUME NEW op \in Ops, NEW x
               PROVE  x \in InFrames(s, op) <=> x \in InFrames(t, op) \/ (s[1].op = op /\ s[1].c = x)
      OBVIOUS
  <2>1. ASSUME NEW i \in DOMAIN s, s[i].op = op, s[i].c = x, i # 1 PROVE x \in InFrames(t, op)
    <3>1. i - 1 \in DOMAIN t /\ t[i - 1] = s[i]
        BY <1>1, <2>1
    <3> QED
        BY <2>1, <3>1 DEF InFrames
  <2>2. ASSUME NEW i \in DOMAIN t, t[i].op = op, t[i].c = x PROVE x \in InFrames(s, op)
    <3>1. i + 1 \in DOMAIN s /\ t[i] = s[i + 1]
        BY <1>1
    <3> QED
        BY <2>2, <3>1 DEF InFrames
  <2>3. ASSUME s[1].op = op, s[1].c = x PROVE x \in InFrames(s, op)
      BY <1>1, <2>3 DEF InFrames
  <2> QED
      BY <2>1, <2>2, <2>3 DEF InFrames
<1>6. \A op \in {"admit", "free"} : s[1].op \in {"admit", "free"} => s[1].c \notin InFrames(t, op)
  <2> SUFFICES ASSUME NEW op \in {"admit", "free"}, s[1].op \in {"admit", "free"}, NEW i \in DOMAIN t, t[i].op = op,
                      t[i].c = s[1].c PROVE FALSE
      BY DEF InFrames
  <2>1. i + 1 \in DOMAIN s /\ 1 \in DOMAIN s /\ i + 1 # 1 /\ t[i] = s[i + 1]
      BY <1>1
  <2> QED
      BY <2>1 DEF Shape, Owner
<1>7. /\ InFrames(t, "admit") = InFrames(s, "admit") \ (IF s[1].op = "admit" THEN {s[1].c} ELSE {})
      /\ InFrames(t, "free") = InFrames(s, "free") \ (IF s[1].op = "free" THEN {s[1].c} ELSE {})
    BY <1>5, <1>6 DEF Ops
<1>8. s[1].op # "drain" => InFrames(t, "drain") = InFrames(s, "drain")
    BY <1>5, Zenon DEF Ops
<1>9. s[1].op # "drain" /\ t # <<>> => t[1].op # "admit"
  <2> SUFFICES ASSUME s[1].op # "drain", t # <<>>, t[1].op = "admit" PROVE FALSE
      OBVIOUS
  <2>1. 2 \in DOMAIN s /\ 2 > 1 /\ t[1] = s[2] /\ s[2 - 1] = s[1]
      BY <1>1
  <2>2. s[2 - 1].op = "drain"
      BY <2>1 DEF Shape
  <2> QED
      BY <2>1, <2>2
<1> QED
    BY <1>2, <1>3, <1>4, <1>7, <1>8, <1>9 DEF Base

\* A frame that is pushed.
LEMMA Pushed ==
    ASSUME NEW s, Shape(s), InFrames(s, "tell") = {}, InFrames(s, "execute") = {},
           NEW f \in FrameSet, f.op # "drain" => f.c \in Cmd,
           s # <<>> /\ s[1].op = "admit" => f.op = "drain",
           Owner(f) => f.c \notin InFrames(s, "admit") /\ f.c \notin InFrames(s, "free")
    PROVE  /\ Shape(<<f>> \o s) /\ (<<f>> \o s)[1] = f /\ <<f>> \o s # <<>>
           /\ \A op \in Ops : InFrames(<<f>> \o s, op) = InFrames(s, op) \cup (IF f.op = op THEN {f.c} ELSE {})
<1> DEFINE t == <<f>> \o s
<1>1. /\ s \in Seq(FrameSet) /\ Len(s) \in Nat /\ DOMAIN s = 1..Len(s)
      /\ t \in Seq(FrameSet) /\ Len(t) = Len(s) + 1 /\ DOMAIN t = 1..(Len(s) + 1)
      /\ t[1] = f /\ \A i \in 1..(Len(s) + 1) : i # 1 => t[i] = s[i - 1] /\ i - 1 \in 1..Len(s)
    BY DEF Shape
<1>2. t # <<>>
    BY <1>1
<1>3. \A i \in DOMAIN s : s[i].op \notin {"tell", "execute"}
    BY Zenon DEF InFrames
<1>4. \A i \in DOMAIN t : t[i].op # "drain" => t[i].c \in Cmd
    BY <1>1 DEF Shape
<1>5. \A i \in DOMAIN t : t[i].op \in {"tell", "execute"} => i = 1
    BY <1>1, <1>3
<1>6. \A i \in DOMAIN t : i > 1 /\ t[i].op = "admit" => t[i - 1].op = "drain"
  <2> SUFFICES ASSUME NEW i \in DOMAIN t, i > 1, t[i].op = "admit" PROVE t[i - 1].op = "drain"
      OBVIOUS
  <2>1. i - 1 \in DOMAIN s /\ t[i] = s[i - 1]
      BY <1>1
  <2>2. CASE i = 2
      BY <2>1, <2>2, <1>1
  <2>3. CASE i > 2
    <3>1. i - 1 > 1 /\ t[i - 1] = s[(i - 1) - 1]
        BY <1>1, <2>3
    <3> QED
        BY <2>1, <3>1 DEF Shape
  <2> QED
      BY <1>1, <2>2, <2>3
<1>7. \A i, j \in DOMAIN t : Owner(t[i]) /\ Owner(t[j]) /\ t[i].c = t[j].c => i = j
  <2> SUFFICES ASSUME NEW i \in DOMAIN t, NEW j \in DOMAIN t, Owner(t[i]), Owner(t[j]), t[i].c = t[j].c, i # j
               PROVE  FALSE
      OBVIOUS
  <2>1. \A m \in DOMAIN s : Owner(s[m]) /\ Owner(f) => s[m].c # f.c
      BY <1>3 DEF InFrames, Owner
  <2>2. CASE i = 1
      BY <1>1, <2>1, <2>2
  <2>3. CASE j = 1
      BY <1>1, <2>1, <2>3
  <2>4. CASE i # 1 /\ j # 1
    <3>1. i - 1 \in DOMAIN s /\ j - 1 \in DOMAIN s /\ t[i] = s[i - 1] /\ t[j] = s[j - 1] /\ i - 1 # j - 1
        BY <1>1, <2>4
    <3> QED
        BY <3>1 DEF Shape
  <2> QED
      BY <2>2, <2>3, <2>4
<1>8. \A op \in Ops : InFrames(t, op) = InFrames(s, op) \cup (IF f.op = op THEN {f.c} ELSE {})
  <2> SUFFICES ASSUME NEW op \in Ops, NEW x
               PROVE  x \in InFrames(t, op) <=> x \in InFrames(s, op) \/ (f.op = op /\ x = f.c)
      OBVIOUS
  <2>1. ASSUME NEW i \in DOMAIN t, t[i].op = op, t[i].c = x, i # 1 PROVE x \in InFrames(s, op)
      BY <1>1, <2>1 DEF InFrames
  <2>2. ASSUME NEW i \in DOMAIN s, s[i].op = op, s[i].c = x PROVE x \in InFrames(t, op)
    <3>1. i + 1 \in DOMAIN t /\ i + 1 # 1 /\ (i + 1) - 1 = i
        BY <1>1
    <3>2. t[i + 1] = s[i]
        BY <1>1, <3>1
    <3> QED
        BY <2>2, <3>1, <3>2 DEF InFrames
  <2>3. f.op = op /\ x = f.c => x \in InFrames(t, op)
      BY <1>1 DEF InFrames
  <2> QED
      BY <1>1, <2>1, <2>2, <2>3 DEF InFrames
<1> QED
    BY <1>1, <1>2, <1>4, <1>5, <1>6, <1>7, <1>8, Zenon DEF Shape

\* A listener to call and a command to release.
LEMMA PushReport ==
    ASSUME NEW s, Base(s), NEW c \in Cmd, NEW code \in {"ok", "client", "server"},
           c \notin InFrames(s, "admit"), c \notin InFrames(s, "free")
    PROVE  LET t == Report(c, code) \o s
           IN  /\ Shape(t) /\ t # <<>> /\ t[1] = Frame("tell", c, code)
               /\ InFrames(t, "tell") = {c} /\ InFrames(t, "execute") = {}
               /\ InFrames(t, "admit") = InFrames(s, "admit") /\ InFrames(t, "drain") = InFrames(s, "drain")
               /\ InFrames(t, "free") = InFrames(s, "free") \cup {c}
<1> DEFINE f == Frame("free", c, "none")
           g == Frame("tell", c, code)
           u == <<f>> \o s
<1>1. /\ f \in FrameSet /\ f.op = "free" /\ f.c = c /\ g \in FrameSet /\ g.op = "tell" /\ g.c = c
      /\ Owner(f) /\ ~Owner(g)
    BY DEF Frame, FrameSet, Ops, Owner
<1>2. s \in Seq(FrameSet)
    BY DEF Base, Shape
<1>3. Report(c, code) \o s = <<g>> \o u
    BY <1>1, <1>2 DEF Report
<1>4. /\ Shape(u) /\ u[1] = f
      /\ \A op \in Ops : InFrames(u, op) = InFrames(s, op) \cup (IF f.op = op THEN {f.c} ELSE {})
  <2> HIDE DEF f
  <2> QED
      BY <1>1, Pushed DEF Base
<1>5. /\ InFrames(u, "tell") = {} /\ InFrames(u, "execute") = {} /\ InFrames(u, "admit") = InFrames(s, "admit")
      /\ InFrames(u, "drain") = InFrames(s, "drain") /\ InFrames(u, "free") = InFrames(s, "free") \cup {c}
    BY <1>1, <1>4, Zenon DEF Base, Ops
<1>6. /\ Shape(<<g>> \o u) /\ (<<g>> \o u)[1] = g /\ <<g>> \o u # <<>>
      /\ \A op \in Ops : InFrames(<<g>> \o u, op) = InFrames(u, op) \cup (IF g.op = op THEN {g.c} ELSE {})
  <2> HIDE DEF f, g, u
  <2> QED
      BY <1>1, <1>4, <1>5, Pushed
<1>7. /\ InFrames(<<g>> \o u, "tell") = {c} /\ InFrames(<<g>> \o u, "execute") = {}
      /\ InFrames(<<g>> \o u, "admit") = InFrames(s, "admit")
      /\ InFrames(<<g>> \o u, "drain") = InFrames(s, "drain")
      /\ InFrames(<<g>> \o u, "free") = InFrames(s, "free") \cup {c}
  <2> HIDE DEF f, g, u
  <2> QED
      BY <1>1, <1>5, <1>6 DEF Ops
<1> QED
    BY <1>3, <1>6, <1>7

-----------------------------------------------------------------------------
(* One command changes.                                                     *)

\* The constants are what EventLoopAssumption says of them.
LEMMA Constants ==
    /\ IsFiniteSet(Cmd) /\ \A c \in Cmd : ClusterOf[c] \in Cluster /\ c \notin Cluster
    /\ MaxInProcess \in Nat /\ MaxInQueue \in Nat /\ MaxRetries \in Nat /\ MaxFaults \in Nat
    /\ ConnLimit \in Nat /\ ConnLimit > 0 /\ MaxErrors \in Nat /\ MaxErrors > 0
    /\ TotalTimeout \in BOOLEAN /\ SocketTimeout \in BOOLEAN /\ Auth \in BOOLEAN
BY EventLoopAssumption DEF EventLoopAssumption

\* What the membership of an element that is not in a set equals.
LEMMA Absent ==
    ASSUME NEW x, NEW S, x \notin S
    PROVE  (x \in S) = FALSE
OBVIOUS

\* What the membership of an element that is in a set equals.
LEMMA Present ==
    ASSUME NEW x, NEW S, x \in S
    PROVE  (x \in S) = TRUE
OBVIOUS

\* A set of commands that one command joins or leaves.
LEMMA OneMore ==
    ASSUME Cards, NEW S \in SUBSET Cmd, NEW c \in Cmd, c \notin S
    PROVE  Cardinality(S \cup {c}) = Cardinality(S) + 1 /\ Cardinality(S) \in Nat
BY DEF Cards

\* A set without one of its members has one member less.
LEMMA OneLess ==
    ASSUME Cards, NEW S \in SUBSET Cmd, NEW c \in S
    PROVE  Cardinality(S \ {c}) = Cardinality(S) - 1 /\ Cardinality(S) \in Nat
BY Zenon DEF Cards

\* A set of commands has a size.
LEMMA Size ==
    ASSUME Cards, NEW S \in SUBSET Cmd
    PROVE  Cardinality(S) \in Nat
BY DEF Cards

\* The commands in process, when c becomes cm.
LEMMA ProcessChanges ==
    ASSUME Cards, cmd \in [Cmd -> Command], NEW c \in Cmd, NEW cm \in Command,
           cmd' = [cmd EXCEPT ![c] = cm], NEW S
    PROVE  /\ CommandsIn(S) \in Nat
           /\ (cm.state \in Started <=> cmd[c].state \in Started) => CommandsIn(S)' = CommandsIn(S)
           /\ cm.state \in Started /\ cmd[c].state \notin Started =>
                 CommandsIn(S)' = CommandsIn(S) + (IF ClusterOf[c] \in S THEN 1 ELSE 0)
           /\ cm.state \notin Started /\ cmd[c].state \in Started =>
                 CommandsIn(S)' = CommandsIn(S) - (IF ClusterOf[c] \in S THEN 1 ELSE 0)
<1> DEFINE P == {d \in Cmd : InProcess(d) /\ ClusterOf[d] \in S}
           Q == {d \in Cmd : InProcess(d)' /\ ClusterOf[d] \in S}
<1>1. \A d \in Cmd : InProcess(d) <=> cmd[d].state \in Started
    BY DEF InProcess, Started, OnSocket
<1>2. \A d \in Cmd : InProcess(d)' <=> (IF d = c THEN cm ELSE cmd[d]).state \in Started
    BY DEF InProcess, Started, OnSocket
<1>3. CommandsIn(S) = Cardinality(P) /\ CommandsIn(S)' = Cardinality(Q)
    BY DEF CommandsIn
<1>4. CommandsIn(S) \in Nat
    BY <1>3, Size
<1>5. ASSUME cm.state \in Started <=> cmd[c].state \in Started PROVE CommandsIn(S)' = CommandsIn(S)
  <2>1. P = Q
      BY <1>1, <1>2, <1>5
  <2> QED
      BY <2>1, <1>3
<1>6. ASSUME cm.state \in Started, cmd[c].state \notin Started
      PROVE  CommandsIn(S)' = CommandsIn(S) + (IF ClusterOf[c] \in S THEN 1 ELSE 0)
  <2>1. CASE ClusterOf[c] \in S
    <3>1. Q = P \cup {c} /\ c \notin P /\ P \in SUBSET Cmd
        BY <1>1, <1>2, <1>6, <2>1
    <3> HIDE DEF P, Q
    <3> QED
        BY <3>1, <1>3, <2>1, OneMore
  <2>2. CASE ClusterOf[c] \notin S
    <3>1. P = Q
        BY <1>1, <1>2, <2>2
    <3>2. CommandsIn(S)' = CommandsIn(S)
        BY <3>1, <1>3, Zenon
    <3> HIDE DEF P, Q
    <3> QED
        BY <3>2, <1>4, <2>2
  <2> QED
      BY <2>1, <2>2
<1>7. ASSUME cm.state \notin Started, cmd[c].state \in Started
      PROVE  CommandsIn(S)' = CommandsIn(S) - (IF ClusterOf[c] \in S THEN 1 ELSE 0)
  <2>1. CASE ClusterOf[c] \in S
    <3>1. Q = P \ {c} /\ c \in P /\ P \in SUBSET Cmd
        BY <1>1, <1>2, <1>7, <2>1
    <3> HIDE DEF P, Q
    <3> QED
        BY <3>1, <1>3, <2>1, OneLess
  <2>2. CASE ClusterOf[c] \notin S
    <3>1. P = Q
        BY <1>1, <1>2, <2>2
    <3>2. CommandsIn(S)' = CommandsIn(S)
        BY <3>1, <1>3, Zenon
    <3> HIDE DEF P, Q
    <3> QED
        BY <3>2, <1>4, <2>2
  <2> QED
      BY <2>1, <2>2
<1> QED
    BY <1>4, <1>5, <1>6, <1>7

\* The sockets commands hold, when c becomes cm and its pool pl.
Held(cm) == IF cm.conn = "open" THEN 1 ELSE 0

\* The pools, when c becomes cm and its pool pl.
LEMMA PoolChanges ==
    ASSUME Types, Pools, NEW c \in Cmd, NEW cm \in Command, cmd' = [cmd EXCEPT ![c] = cm],
           NEW pl \in Slots, pool' = [pool EXCEPT ![ClusterOf[c]] = pl],
           pl.total <= ConnLimit, pl.total - pl.idle - Held(cm) = PoolOf(c).total - PoolOf(c).idle - Held(cmd[c])
    PROVE  Pools' /\ pool' \in [Cluster -> Slots]
<1> DEFINE P(k) == Holding(k)
           Q(k) == {d \in Cmd : ClusterOf[d] = k /\ (IF d = c THEN cm ELSE cmd[d]).conn = "open"}
<1> Cards
    BY DEF Types
<1>1. ClusterOf[c] \in Cluster /\ pool \in [Cluster -> Slots] /\ cmd \in [Cmd -> Command]
    BY Constants DEF Types
<1>2. pool' \in [Cluster -> Slots]
    BY <1>1
<1>3. \A k : Holding(k)' = Q(k)
    BY <1>1 DEF Holding
<1>4. ASSUME NEW k \in Cluster
      PROVE  pool'[k].total = pool'[k].idle + Cardinality(Q(k)) /\ pool'[k].total <= ConnLimit
  <2>1. CASE k # ClusterOf[c]
    <3>1. P(k) = Q(k) /\ pool'[k] = pool[k]
        BY <2>1, <1>1 DEF Holding
    <3>2. pool[k].total = pool[k].idle + Cardinality(P(k)) /\ pool[k].total <= ConnLimit
        BY <1>4 DEF Pools
    <3> HIDE DEF P, Q
    <3> QED
        BY <3>1, <3>2
  <2>2. CASE k = ClusterOf[c]
    <3>1. pool'[k] = pl /\ PoolOf(c) = pool[k] /\ pool[k].total = pool[k].idle + Cardinality(P(k))
          /\ pool[k] \in Slots
        BY <2>2, <1>1 DEF PoolOf, Pools
    <3>2. P(k) \in SUBSET Cmd /\ Cardinality(P(k)) \in Nat
        BY Size DEF Holding
    <3>3. CASE cm.conn = "open" /\ cmd[c].conn # "open"
      <4>1. Q(k) = P(k) \cup {c} /\ c \notin P(k)
          BY <3>3, <2>2 DEF Holding
      <4>2. Cardinality(Q(k)) = Cardinality(P(k)) + 1
        <5> HIDE DEF P, Q
        <5> QED
            BY <4>1, <3>2, OneMore
      <4>3. Held(cm) = 1 /\ Held(cmd[c]) = 0
          BY <3>3 DEF Held
      <4> HIDE DEF P, Q
      <4> QED
          BY <4>2, <4>3, <3>1, <3>2 DEF Slots
    <3>4. CASE cm.conn # "open" /\ cmd[c].conn = "open"
      <4>1. Q(k) = P(k) \ {c} /\ c \in P(k)
          BY <3>4, <2>2 DEF Holding
      <4>2. Cardinality(Q(k)) = Cardinality(P(k)) - 1
        <5> HIDE DEF P, Q
        <5> QED
            BY <4>1, <3>2, OneLess
      <4>3. Held(cm) = 0 /\ Held(cmd[c]) = 1
          BY <3>4 DEF Held
      <4> HIDE DEF P, Q
      <4> QED
          BY <4>2, <4>3, <3>1, <3>2 DEF Slots
    <3>5. CASE cm.conn = "open" <=> cmd[c].conn = "open"
      <4>1. Q(k) = P(k)
          BY <3>5, <2>2 DEF Holding
      <4>2. Held(cm) = Held(cmd[c]) /\ Held(cm) \in {0, 1}
          BY <3>5 DEF Held
      <4> HIDE DEF P, Q
      <4> QED
          BY <4>1, <4>2, <3>1, <3>2 DEF Slots
    <3> QED
        BY <3>3, <3>4, <3>5
  <2> QED
      BY <2>1, <2>2
<1>5. Pools'
    BY <1>3, <1>4 DEF Pools
<1> QED
    BY <1>2, <1>5

\* The other commands are as they were where they were.
Elsewhere(c) ==
    /\ Range(loop'.queue) \ {c} = Range(loop.queue) \ {c}
    /\ Range(loop'.delay) \ {c} = Range(loop.delay) \ {c}
    /\ \A op \in {"execute", "admit", "free", "tell"} : InFrames(stack', op) \ {c} = InFrames(stack, op) \ {c}

Is(cm, c) ==
    /\ Placed(cm, c \in Range(loop'.queue), c \in Range(loop'.delay), c \in InFrames(stack', "execute"),
              c \in InFrames(stack', "admit"), c \in InFrames(stack', "free"), c \in InFrames(stack', "tell"))
    /\ Attached(cm, c \in InFrames(stack', "free"))
    /\ Sent(cm, c \in InFrames(stack', "free"))

\* The conditions on the commands, when c becomes cm and no frame or queue changes for another.
LEMMA OneCommand ==
    ASSUME Types, Commands, NEW c \in Cmd, NEW cm \in Command, cmd' = [cmd EXCEPT ![c] = cm],
           Elsewhere(c), Is(cm, c)
    PROVE  Commands' /\ cmd' \in [Cmd -> Command]
<1>1. cmd' \in [Cmd -> Command] /\ cmd'[c] = cm /\ \A d \in Cmd : d # c => cmd'[d] = cmd[d]
    BY DEF Types
<1>2. ASSUME NEW d \in Cmd, d # c
      PROVE  /\ (d \in Range(loop'.queue)) = (d \in Range(loop.queue))
             /\ (d \in Range(loop'.delay)) = (d \in Range(loop.delay))
             /\ (d \in InFrames(stack', "execute")) = (d \in InFrames(stack, "execute"))
             /\ (d \in InFrames(stack', "admit")) = (d \in InFrames(stack, "admit"))
             /\ (d \in InFrames(stack', "free")) = (d \in InFrames(stack, "free"))
             /\ (d \in InFrames(stack', "tell")) = (d \in InFrames(stack, "tell"))
  <2>1. /\ d \in Range(loop'.queue) <=> d \in Range(loop.queue)
        /\ d \in Range(loop'.delay) <=> d \in Range(loop.delay)
        /\ \A op \in {"execute", "admit", "free", "tell"} : d \in InFrames(stack', op) <=> d \in InFrames(stack, op)
      BY <1>2, Zenon DEF Elsewhere
  <2> QED
      BY <2>1
<1>3. ASSUME NEW d \in Cmd
      PROVE  /\ Placed(cmd'[d], d \in Range(loop'.queue), d \in Range(loop'.delay), d \in InFrames(stack', "execute"),
                       d \in InFrames(stack', "admit"), d \in InFrames(stack', "free"), d \in InFrames(stack', "tell"))
             /\ Attached(cmd'[d], d \in InFrames(stack', "free"))
             /\ Sent(cmd'[d], d \in InFrames(stack', "free"))
  <2>1. CASE d = c
      BY <2>1, <1>1, Zenon DEF Is
  <2>2. CASE d # c
      BY <2>2, <1>1, <1>2, Zenon DEF Commands, Ending
  <2> QED
      BY <2>1, <2>2, Zenon
<1>4. Commands'
    BY <1>3 DEF Commands, Ending
<1> QED
    BY <1>1, <1>4

-----------------------------------------------------------------------------
(* An attempt of a command: as_event_command_begin, or an event of its      *)
(* socket.                                                                  *)

\* The command goes on, waits for a retry, or is reported and released.  "used" are the
\* slots that other commands hold, "base" what is under the running frame.
Attempt(c, lp, used, base) ==
    /\ faults' \in Nat
    /\ \E cm \in Command, pl \in Slots, e \in Nat :
          /\ cmd' = [cmd EXCEPT ![c] = cm]
          /\ pool' = [pool EXCEPT ![ClusterOf[c]] = pl]
          /\ loop' = [lp EXCEPT !.errors = e]
          /\ cm.state \in Started /\ cm.result = <<>>
          /\ pl.total <= ConnLimit /\ pl.total = pl.idle + used + Held(cm)
          /\ \/ stack' = base /\ Attached(cm, FALSE) /\ Sent(cm, FALSE)
             \/ \E code \in {"ok", "client", "server"} :
                   /\ stack' = Report(c, code) \o base
                   /\ cm.timer = "none" /\ cm.conn # "open" /\ Sent(cm, TRUE)
                   /\ ~Auth /\ code = "server" => cm.copies < cm.sent

\* The records that the handlers make of a command's.
LEMMA Updates ==
    ASSUME NEW cm \in Command
    PROVE  /\ \A st \in States : [cm EXCEPT !.state = st] \in Command
           /\ \A cn \in {"null", "open", "stale"} : [cm EXCEPT !.conn = cn] \in Command
           /\ \A tm \in {"none", "zero", "once", "repeat"} : [cm EXCEPT !.timer = tm] \in Command
           /\ \A b \in BOOLEAN : [cm EXCEPT !.sock = b] \in Command
           /\ \A b \in BOOLEAN : [cm EXCEPT !.received = b] \in Command
           /\ \A b \in BOOLEAN : [cm EXCEPT !.expired = b] \in Command
           /\ \A b \in BOOLEAN : [cm EXCEPT !.late = b] \in Command
           /\ \A n \in Nat : [cm EXCEPT !.iteration = n] \in Command
           /\ \A n \in Nat : [cm EXCEPT !.sent = n] \in Command
           /\ \A n \in Nat : [cm EXCEPT !.copies = n] \in Command
           /\ \A r \in Seq({"ok", "in_doubt", "error"}) : [cm EXCEPT !.result = r] \in Command
<1>1. \A st \in States : [cm EXCEPT !.state = st] \in Command
    BY DEF Command
<1>2. \A cn \in {"null", "open", "stale"} : [cm EXCEPT !.conn = cn] \in Command
    BY DEF Command
<1>3. \A tm \in {"none", "zero", "once", "repeat"} : [cm EXCEPT !.timer = tm] \in Command
    BY DEF Command
<1>4. \A b \in BOOLEAN : [cm EXCEPT !.sock = b] \in Command
    BY DEF Command
<1>5. \A b \in BOOLEAN : [cm EXCEPT !.received = b] \in Command
    BY DEF Command
<1>6. \A b \in BOOLEAN : [cm EXCEPT !.expired = b] \in Command
    BY DEF Command
<1>7. \A b \in BOOLEAN : [cm EXCEPT !.late = b] \in Command
    BY DEF Command
<1>8. \A n \in Nat : [cm EXCEPT !.iteration = n] \in Command
    BY DEF Command
<1>9. \A n \in Nat : [cm EXCEPT !.sent = n] \in Command
    BY DEF Command
<1>10. \A n \in Nat : [cm EXCEPT !.copies = n] \in Command
    BY DEF Command
<1>11. \A r \in Seq({"ok", "in_doubt", "error"}) : [cm EXCEPT !.result = r] \in Command
    BY Zenon DEF Command
<1> QED
    BY <1>1, <1>2, <1>3, <1>4, <1>5, <1>6, <1>7, <1>8, <1>9, <1>10, <1>11

\* A command that has not given up.
Trying(cm) ==
    /\ cm \in Command /\ cm.state \in Started /\ cm.result = <<>>
    /\ cm.iteration <= MaxRetries /\ cm.copies <= cm.sent /\ cm.sent <= cm.iteration + 1

\* The iterations of a command that is not tried again.
LEMMA OneMoreTry ==
    ASSUME NEW i \in Nat, i <= MaxRetries
    PROVE  i + 1 \in Nat /\ i + 1 <= MaxRetries + 1
    BY Constants

\* What was sent by a command whose release is due.
LEMMA SentToEnd ==
    ASSUME NEW cm, cm.iteration \in Nat, cm.sent \in Nat, cm.state \in Started, cm.result = <<>>,
           cm.copies <= cm.sent, cm.sent <= cm.iteration + 1, cm.iteration <= MaxRetries
    PROVE  Sent(cm, TRUE)
<1>1. cm.sent <= MaxRetries + 1 /\ cm.iteration <= MaxRetries + 1
    BY Constants
<1>2. cm.state \notin Early \cup {"QUEUE_ERROR"}
    BY DEF Early, Started, OnSocket
<1>3. cm.result # <<"error">>
    OBVIOUS
<1> QED
    BY <1>1, <1>2, <1>3, Zenon DEF Sent

\* The same after the last attempt, which was counted.
LEMMA SentLast ==
    ASSUME NEW cm, cm.iteration \in Nat, cm.sent \in Nat, cm.state \in Started, cm.result = <<>>,
           cm.copies <= cm.sent, cm.sent <= cm.iteration, cm.iteration <= MaxRetries + 1
    PROVE  Sent(cm, TRUE)
<1>1. cm.sent <= MaxRetries + 1
    BY Constants
<1>2. cm.state \notin Early \cup {"QUEUE_ERROR"}
    BY DEF Early, Started, OnSocket
<1>3. cm.result # <<"error">>
    OBVIOUS
<1> QED
    BY <1>1, <1>2, <1>3, Zenon DEF Sent

\* What was sent by a command that goes on.
LEMMA SentSoFar ==
    ASSUME NEW cm, cm.iteration \in Nat, cm.sent \in Nat, cm.state \in Started, cm.result = <<>>,
           cm.copies <= cm.sent, cm.sent <= cm.iteration + 1, cm.iteration <= MaxRetries,
           cm.state # "COMMAND_READ" => cm.sent <= cm.iteration,
           cm.state = "COMMAND_READ" => cm.copies >= 1
    PROVE  Sent(cm, FALSE)
<1>1. cm.sent <= MaxRetries + 1 /\ cm.iteration <= MaxRetries + 1
    BY Constants
<1>2. cm.state \notin Early \cup {"QUEUE_ERROR"}
    BY DEF Early, Started, OnSocket
<1>3. cm.result # <<"error">>
    OBVIOUS
<1>4. cm.state \in Started \ {"COMMAND_READ"} => cm.sent <= cm.iteration
    BY Zenon
<1> QED
    BY <1>1, <1>2, <1>3, <1>4, Zenon DEF Sent

\* An attempt that failed (as_event_command_retry and what its callers do).
LEMMA FailedAttempt ==
    ASSUME NEW c \in Cmd, NEW cm, Trying(cm), cm.conn # "open", NEW lp \in Loops, NEW e \in Nat,
           NEW pl \in Slots, NEW used \in Nat, pl.total <= ConnLimit, pl.total = pl.idle + used,
           NEW stk, faults' \in Nat, RetryOrFail(c, cm, [lp EXCEPT !.errors = e], pl, stk)
    PROVE  Attempt(c, lp, used, stk)
<1> DEFINE fail == Stopped(Iterated(cm))
           again == Retried(cm)
<1>1. CASE MayRetry(cm)
  <2>1. /\ again.state = "RETRY" /\ again.conn = "null" /\ again.timer = "zero"
        /\ again.result = <<>> /\ again.iteration = cm.iteration + 1 /\ again.sent = cm.sent
        /\ again.copies = cm.copies
      BY DEF Trying, Command, Retried, Iterated
  <2>2. again \in Command
    <3>1. cm \in Command /\ cm.iteration + 1 \in Nat
        BY DEF Trying, Command
    <3>2. Iterated(cm) \in Command
        BY <3>1, Updates, Zenon DEF Iterated
    <3> DEFINE a == Iterated(cm)
               b == [a EXCEPT !.conn = "null"]
               d == [b EXCEPT !.timer = "zero"]
    <3>3. b \in Command
        BY <3>2, Updates, Zenon
    <3>4. d \in Command
        BY <3>3, Updates, Zenon
    <3>5. [d EXCEPT !.state = "RETRY"] \in Command
        BY <3>4, Updates, Zenon DEF States, Started
    <3>6. again = [d EXCEPT !.state = "RETRY"]
        BY DEF Retried
    <3> QED
        BY <3>5, <3>6
  <2>3. again.iteration <= MaxRetries
      BY <1>1, <2>1 DEF MayRetry
  <2>4. Attached(again, FALSE)
      BY <2>1 DEF Attached, Early, OnSocket
  <2>5. Sent(again, FALSE)
    <3>1. /\ again.copies <= again.sent /\ again.sent <= again.iteration /\ again.iteration \in Nat
          /\ again.sent \in Nat /\ again.sent <= again.iteration + 1
        BY <2>1 DEF Trying, Command
    <3> HIDE DEF again
    <3> QED
        BY <2>1, <2>3, <3>1, SentSoFar, Zenon DEF Started
  <2>6. Held(again) = 0 /\ again.state \in Started
      BY <2>1 DEF Held, Started
  <2>7. Becomes(c, again, [lp EXCEPT !.errors = e], pl, stk)
      BY <1>1 DEF RetryOrFail
  <2> HIDE DEF again
  <2>8. pl.total = pl.idle + used + Held(again)
      BY <2>6 DEF Slots
  <2> QED
      BY <2>2, <2>1, <2>4, <2>5, <2>6, <2>7, <2>8, Zenon DEF Attempt, Becomes
<1>2. CASE ~MayRetry(cm)
  <2>1. /\ fail.state = cm.state /\ fail.conn = cm.conn /\ fail.timer = "none"
        /\ fail.result = <<>> /\ fail.iteration = cm.iteration + 1 /\ fail.sent = cm.sent
        /\ fail.copies = cm.copies
      BY DEF Trying, Command, Stopped, Iterated
  <2>2. fail \in Command
    <3>1. cm \in Command /\ cm.iteration + 1 \in Nat
        BY DEF Trying, Command
    <3>2. Iterated(cm) \in Command
        BY <3>1, Updates, Zenon DEF Iterated
    <3> QED
        BY <3>2, Updates, Zenon DEF Stopped
  <2>3. Sent(fail, TRUE)
    <3>1. cm.iteration \in Nat /\ cm.sent \in Nat /\ cm.copies \in Nat
        BY Zenon DEF Trying, Command
    <3>2. cm.iteration <= MaxRetries /\ cm.copies <= cm.sent /\ cm.sent <= cm.iteration + 1 /\ cm.state \in Started
        BY Zenon DEF Trying
    <3> HIDE DEF fail
    <3>3. cm.iteration + 1 \in Nat /\ cm.iteration + 1 <= MaxRetries + 1
        BY <3>1, <3>2, OneMoreTry, Zenon
    <3>4. /\ fail.copies <= fail.sent /\ fail.sent <= fail.iteration /\ fail.iteration <= MaxRetries + 1
          /\ fail.iteration \in Nat /\ fail.sent \in Nat /\ fail.state \in Started
        BY <2>1, <3>1, <3>2, <3>3, Zenon
    <3> QED
        BY <2>1, <3>4, SentLast, Zenon
  <2>4. Held(fail) = 0 /\ fail.state \in Started /\ fail.conn # "open"
      BY <2>1 DEF Held, Trying
  <2>5. Becomes(c, fail, [lp EXCEPT !.errors = e], pl, Report(c, "client") \o stk)
      BY <1>2 DEF RetryOrFail
  <2> HIDE DEF fail
  <2>6. pl.total = pl.idle + used + Held(fail)
      BY <2>4 DEF Slots
  <2> QED
      BY <2>2, <2>1, <2>3, <2>4, <2>5, <2>6, Zenon DEF Attempt, Becomes
<1> QED
    BY <1>1, <1>2

\* The request is written, in full or in part, or the socket fails
\* (as_event_command_write_start).
LEMMA WriteAttempt ==
    ASSUME NEW c \in Cmd, NEW cm, Trying(cm), cm.state # "RETRY", cm.conn = "open", cm.timer # "zero",
           cm.sent <= cm.iteration, NEW lp \in Loops, NEW e \in Nat,
           NEW pl \in Slots, NEW used \in Nat, pl.total <= ConnLimit, pl.total = pl.idle + used + 1,
           NEW stk, faults \in Nat, WriteStart(c, cm, [lp EXCEPT !.errors = e], pl, stk)
    PROVE  Attempt(c, lp, used, stk)
<1> DEFINE writing == [cm EXCEPT !.state = "COMMAND_WRITE"]
           written == Written(writing)
           failed == [writing EXCEPT !.conn = "stale"]
<1>1. cm \in Command /\ cm.iteration \in Nat /\ cm.sent \in Nat /\ cm.copies \in Nat
    BY DEF Trying, Command
<1>2. writing \in Command
    BY <1>1, Updates, Zenon DEF States, Started, OnSocket
<1>3. /\ writing.state = "COMMAND_WRITE" /\ writing.conn = "open" /\ writing.timer = cm.timer
      /\ writing.result = <<>> /\ writing.iteration = cm.iteration /\ writing.sent = cm.sent
      /\ writing.copies = cm.copies
    BY <1>1 DEF Trying, Command
<1>4. Trying(writing)
  <2> HIDE DEF writing
  <2> QED
      BY <1>2, <1>3 DEF Trying, Started, OnSocket
<1>5. CASE Becomes(c, writing, [lp EXCEPT !.errors = e], pl, stk) /\ UNCHANGED faults
  <2> HIDE DEF writing
  <2>1. Attached(writing, FALSE)
      BY <1>3 DEF Attached, Early, OnSocket
  <2>2. Sent(writing, FALSE)
      BY <1>1, <1>3, <1>4, SentSoFar, Zenon DEF Trying
  <2>3. Held(writing) = 1 /\ writing.state \in Started
      BY <1>3 DEF Held, Started, OnSocket
  <2>4. pl.total = pl.idle + used + Held(writing)
      BY <2>3 DEF Slots
  <2> QED
      BY <1>2, <1>3, <1>5, <2>1, <2>2, <2>3, <2>4, Zenon DEF Attempt, Becomes
<1>6. CASE Becomes(c, written, [lp EXCEPT !.errors = e], pl, stk) /\ UNCHANGED faults
  <2>1. /\ written.state = "COMMAND_READ" /\ written.conn = "open" /\ written.timer = cm.timer
        /\ written.result = <<>> /\ written.iteration = cm.iteration /\ written.sent = cm.sent + 1
        /\ written.copies = cm.copies + 1
    <3> HIDE DEF writing
    <3> QED
        BY <1>1, <1>2, <1>3 DEF Written, Command
  <2>2. written \in Command
    <3> DEFINE a == [writing EXCEPT !.state = "COMMAND_READ"]
               b == [a EXCEPT !.sent = cm.sent + 1]
               d == [b EXCEPT !.copies = cm.copies + 1]
    <3>1. a \in Command
      <4> HIDE DEF writing
      <4> QED
          BY <1>2, Updates, Zenon DEF States, Started, OnSocket
    <3>2. cm.sent + 1 \in Nat /\ cm.copies + 1 \in Nat
        BY <1>1
    <3>3. b \in Command
      <4> HIDE DEF a
      <4> QED
          BY <3>2, <3>1, Updates, Zenon
    <3>4. d \in Command
      <4> HIDE DEF b
      <4> QED
          BY <3>2, <3>3, Updates, Zenon
    <3>5. [d EXCEPT !.received = FALSE] \in Command
      <4> HIDE DEF d
      <4> QED
          BY <3>4, Updates, Zenon
    <3>6. written = [d EXCEPT !.received = FALSE]
      <4> HIDE DEF writing
      <4> QED
          BY <1>1, <1>2, <1>3 DEF Written, Command
    <3> QED
        BY <3>5, <3>6
  <2> HIDE DEF written
  <2>3. Attached(written, FALSE)
      BY <2>1 DEF Attached, Early, OnSocket, Trying
  <2>4. Sent(written, FALSE)
    <3>1. cm.iteration <= MaxRetries /\ cm.copies <= cm.sent
        BY Zenon DEF Trying
    <3>2. /\ written.copies <= written.sent /\ written.sent <= written.iteration + 1 /\ written.copies >= 1
          /\ written.iteration <= MaxRetries /\ written.iteration \in Nat /\ written.sent \in Nat
        BY <1>1, <2>1, <3>1
    <3> QED
        BY <2>1, <3>2, SentSoFar, Zenon DEF Started, OnSocket
  <2>5. Held(written) = 1 /\ written.state \in Started
      BY <2>1 DEF Held, Started, OnSocket
  <2>6. pl.total = pl.idle + used + Held(written)
      BY <2>5 DEF Slots
  <2> QED
      BY <1>6, <2>1, <2>2, <2>3, <2>4, <2>5, <2>6, Zenon DEF Attempt, Becomes
<1>7. CASE SocketFails(c, writing, [lp EXCEPT !.errors = e], pl, stk)
  <2>1. failed \in Command
    <3> HIDE DEF writing
    <3> QED
        BY <1>2, Updates, Zenon
  <2>2. failed.conn = "stale" /\ Trying(failed)
    <3> HIDE DEF writing
    <3>1. /\ failed.conn = "stale" /\ failed.state = writing.state /\ failed.result = writing.result
          /\ failed.iteration = writing.iteration /\ failed.copies = writing.copies /\ failed.sent = writing.sent
        BY <1>2 DEF Command
    <3> QED
        BY <2>1, <3>1, <1>4 DEF Trying
  <2>3. faults' \in Nat /\ RetryOrFail(c, failed, [lp EXCEPT !.errors = e], Released(pl), stk)
      BY <1>7 DEF SocketFails, Fault
  <2>4. /\ Released(pl) \in Slots /\ Released(pl).total <= ConnLimit
        /\ Released(pl).total = Released(pl).idle + used
      BY Constants DEF Released, Slots
  <2> HIDE DEF failed
  <2> QED
      BY <2>2, <2>3, <2>4, FailedAttempt
<1> QED
    BY <1>5, <1>6, <1>7 DEF WriteStart

\* as_event_command_begin
LEMMA BeginAttempt ==
    ASSUME NEW c \in Cmd, NEW cm0, Trying([cm0 EXCEPT !.state = "CONNECT"]), cm0 \in Command, cm0.conn = "null",
           cm0.timer # "zero", cm0.sent <= cm0.iteration, NEW lp \in Loops, NEW stk, faults \in Nat,
           PoolOf(c) \in Slots, PoolOf(c).idle <= PoolOf(c).total, PoolOf(c).total <= ConnLimit,
           Begin(c, cm0, lp, stk)
    PROVE  Attempt(c, lp, PoolOf(c).total - PoolOf(c).idle, stk)
<1> DEFINE cm == [cm0 EXCEPT !.state = "CONNECT"]
           open == [cm EXCEPT !.conn = "open"]
           stale == [cm EXCEPT !.conn = "stale"]
           pl == PoolOf(c)
           used == pl.total - pl.idle
<1> SUFFICES Attempt(c, lp, used, stk)
    OBVIOUS
<1>1. /\ cm \in Command /\ cm.state = "CONNECT" /\ cm.conn = "null" /\ cm.timer = cm0.timer /\ cm.result = <<>>
      /\ cm.iteration = cm0.iteration /\ cm.sent = cm0.sent /\ cm.copies = cm0.copies /\ Trying(cm)
    BY DEF Trying, Command
<1>2. open \in Command /\ stale \in Command
  <2> HIDE DEF cm
  <2> QED
      BY <1>1, Updates, Zenon
<1>3. /\ open.conn = "open" /\ open.state = "CONNECT" /\ open.timer = cm0.timer /\ open.result = <<>>
      /\ open.iteration = cm.iteration /\ open.sent = cm.sent /\ open.copies = cm.copies
      /\ stale.conn = "stale" /\ stale.state = "CONNECT" /\ stale.result = <<>>
      /\ stale.iteration = cm.iteration /\ stale.sent = cm.sent /\ stale.copies = cm.copies
  <2> HIDE DEF cm
  <2> QED
      BY <1>1 DEF Command
<1>4. Trying(open) /\ Trying(stale)
  <2> HIDE DEF cm, open, stale
  <2> QED
      BY <1>1, <1>2, <1>3 DEF Trying
<1>5. used \in Nat /\ pl.idle \in Nat /\ pl.total \in Nat /\ pl.total = pl.idle + used
    BY DEF Slots
<1>6. /\ Emptied(pl) \in Slots /\ Emptied(pl).idle = 0 /\ Emptied(pl).total = used /\ used <= ConnLimit
    BY <1>5, Constants DEF Emptied, Slots
<1>7. \A q \in Loops : /\ OneMoreError(q) = [q EXCEPT !.errors = OneMoreError(q).errors]
                       /\ NoErrors(q) = [q EXCEPT !.errors = 0] /\ OneMoreError(q).errors \in Nat
                       /\ q = [q EXCEPT !.errors = q.errors] /\ q.errors \in Nat
    BY DEF OneMoreError, NoErrors, Loops
<1> HIDE DEF cm, open, stale
<1>8. CASE NoNode(c, cm, lp, pl, stk)
  <2> DEFINE cs == Stopped(cm)
  <2>1. /\ cs \in Command /\ cs.state = "CONNECT" /\ cs.conn = "null" /\ cs.timer = "none" /\ cs.result = <<>>
        /\ cs.iteration = cm.iteration /\ cs.sent = cm.sent /\ cs.copies = cm.copies
    <3>1. cs \in Command
        BY <1>1, Updates, Zenon DEF Stopped
    <3> QED
        BY <1>1, <3>1 DEF Stopped, Command
  <2>2. /\ Becomes(c, cs, [lp EXCEPT !.errors = OneMoreError(lp).errors], pl, Report(c, "client") \o stk)
        /\ faults' \in Nat /\ OneMoreError(lp).errors \in Nat
      BY <1>7, <1>8 DEF NoNode, Fault
  <2> HIDE DEF cs
  <2>3. Sent(cs, TRUE)
    <3>1. cs.iteration \in Nat /\ cs.sent \in Nat
        BY <2>1 DEF Command
    <3>2. /\ cs.state \in Started /\ cs.result = <<>> /\ cs.copies <= cs.sent
          /\ cs.sent <= cs.iteration + 1 /\ cs.iteration <= MaxRetries
        BY <1>1, <2>1, Zenon DEF Trying
    <3> QED
        BY <3>1, <3>2, SentToEnd, Zenon
  <2>4. Held(cs) = 0 /\ cs.state \in Started /\ pl.total = pl.idle + used + Held(cs)
      BY <1>5, <2>1 DEF Held, Started, OnSocket
  <2> HIDE DEF used
  <2> QED
      BY <1>1, <1>8, <2>1, <2>2, <2>3, <2>4, Zenon DEF Attempt, Becomes
<1>9. CASE RateExceeded(c, cm, lp, pl, stk)
  <2>1. RetryOrFail(c, cm, [lp EXCEPT !.errors = OneMoreError(lp).errors], pl, stk) /\ faults' \in Nat
      BY <1>7, <1>9 DEF RateExceeded, Fault
  <2> HIDE DEF used
  <2> QED
      BY <1>1, <1>5, <1>7, <2>1, FailedAttempt, Zenon
<1>10. CASE TakePooled(c, cm, lp, pl, stk)
  <2>1. PICK n \in 0..(pl.idle - 1) :
           WriteStart(c, open, NoErrors(lp), [idle |-> pl.idle - n - 1, total |-> pl.total - n], stk)
      BY <1>10 DEF TakePooled, open
  <2> DEFINE p == [idle |-> pl.idle - n - 1, total |-> pl.total - n]
  <2>2. p \in Slots /\ p.total <= ConnLimit /\ p.total = p.idle + used + 1
      BY <1>5, Constants DEF Slots
  <2>3. WriteStart(c, open, [lp EXCEPT !.errors = 0], p, stk)
      BY <2>1, <1>7
  <2>4. open.state # "RETRY" /\ open.conn = "open" /\ open.timer # "zero" /\ open.sent <= open.iteration
      BY <1>1, <1>3
  <2> HIDE DEF p, used
  <2> QED
      BY <1>4, <1>5, <2>2, <2>3, <2>4, WriteAttempt
<1>11. CASE Connect(c, cm, lp, pl, stk)
  <2> DEFINE p == Grown(Emptied(pl))
  <2>1. Becomes(c, open, [lp EXCEPT !.errors = 0], p, stk) /\ HasRoom(Emptied(pl)) /\ faults' \in Nat
      BY <1>7, <1>11 DEF Connect, open
  <2>2. Held(open) = 1 /\ open.state \in Started
      BY <1>3 DEF Held, Started, OnSocket
  <2>3. p \in Slots /\ p.total <= ConnLimit /\ p.total = p.idle + used + Held(open)
    <3> HIDE DEF used
    <3> QED
        BY <1>5, <1>6, <2>1, <2>2, Constants DEF HasRoom, Grown, Slots
  <2>4. Attached(open, FALSE) /\ Sent(open, FALSE)
    <3>1. Attached(open, FALSE)
        BY <1>3 DEF Attached, Early, OnSocket
    <3>2. open.sent \in Nat /\ open.iteration \in Nat /\ open.sent <= open.iteration
        BY <1>1, <1>2, <1>3 DEF Command
    <3>3. Sent(open, FALSE)
        BY <1>3, <1>4, <3>2, SentSoFar, Zenon DEF Trying
    <3> QED
        BY <3>1, <3>3, Zenon
  <2> HIDE DEF p, used
  <2> QED
      BY <1>2, <1>3, <2>1, <2>2, <2>3, <2>4, Zenon DEF Attempt, Becomes
<1>12. CASE ConnectError(c, cm, lp, pl, stk)
  <2> DEFINE p == ConnectErrorPool(Emptied(pl))
  <2>1. RetryOrFail(c, stale, [lp EXCEPT !.errors = OneMoreError(lp).errors], p, stk) /\ faults' \in Nat
      BY <1>7, <1>12 DEF ConnectError, Fault, stale
  <2>2. p \in Slots /\ p.total <= ConnLimit /\ p.total = p.idle + used
    <3>1. \A q \in Slots : Grown(q) \in Slots /\ Grown(q).idle = q.idle /\ Grown(q).total = q.total + 1
        BY DEF Grown, Slots
    <3>2. \A q \in Slots : q.total > 0 => /\ Released(q) \in Slots /\ Released(q).idle = q.idle
                                         /\ Released(q).total = q.total - 1
        BY DEF Released, Slots
    <3>3. /\ Grown(Emptied(pl)) \in Slots /\ Grown(Emptied(pl)).idle = 0 /\ Grown(Emptied(pl)).total = used + 1
          /\ used + 1 > 0 /\ (used + 1) - 1 = used
        BY <1>5, <1>6, <3>1
    <3>4. p \in Slots /\ p.idle = 0 /\ p.total = used
        BY <3>2, <3>3 DEF ConnectErrorPool
    <3> HIDE DEF p, used
    <3> QED
        BY <1>5, <1>6, <3>4
  <2> HIDE DEF p, used
  <2> QED
      BY <1>3, <1>4, <1>5, <1>7, <2>1, <2>2, FailedAttempt
<1>13. CASE NoMoreConnections(c, cm, lp, pl, stk)
  <2>1. /\ RetryOrFail(c, cm, [lp EXCEPT !.errors = OneMoreError(lp).errors], Emptied(pl), stk)
        /\ faults' \in Nat
      BY <1>7, <1>13 DEF NoMoreConnections
  <2>2. Emptied(pl) \in Slots /\ Emptied(pl).total <= ConnLimit /\ Emptied(pl).total = Emptied(pl).idle + used
      BY <1>5, <1>6
  <2> HIDE DEF used
  <2> QED
      BY <1>1, <1>5, <1>7, <2>1, <2>2, FailedAttempt, Zenon
<1> QED
    BY <1>8, <1>9, <1>10, <1>11, <1>12, <1>13 DEF Begin, cm

\* "lp" and "base" are the loop and the stack without command c.
From(c, lp, base) ==
    /\ lp \in Loops /\ Base(base) /\ LoopOK(lp, base)
    /\ c \notin Range(lp.queue) /\ c \notin Range(lp.delay)
    /\ Range(lp.queue) \ {c} = Range(loop.queue) \ {c}
    /\ Range(lp.delay) \ {c} = Range(loop.delay) \ {c}
    /\ c \notin InFrames(base, "admit") /\ c \notin InFrames(base, "free")
    /\ \A op \in {"execute", "admit", "free", "tell"} : InFrames(base, op) \ {c} = InFrames(stack, op) \ {c}

\* Both counts, when a command enters processing, leaves it, or does neither.
LEMMA CountsChange ==
    ASSUME Types, Counts, NEW c \in Cmd, NEW cm \in Command, cmd' = [cmd EXCEPT ![c] = cm], NEW one \in {-1, 0, 1},
           cm.state \in Started /\ cmd[c].state \notin Started => one = 1,
           cm.state \notin Started /\ cmd[c].state \in Started => one = -1,
           (cm.state \in Started <=> cmd[c].state \in Started) => one = 0,
           loop'.pending = loop.pending + one,
           es' = [es EXCEPT ![ClusterOf[c]].pending = @ + one]
    PROVE  Counts' /\ loop'.pending \in Nat
           /\ es' \in [Cluster -> EventStates]
<1> DEFINE k0 == ClusterOf[c]
<1> Cards
    BY DEF Types
<1>1. cmd \in [Cmd -> Command] /\ k0 \in Cluster
    BY Constants DEF Types
<1>2. \A S : /\ CommandsIn(S) \in Nat
             /\ CommandsIn(S)' = CommandsIn(S) + (IF k0 \in S THEN one ELSE 0)
  <2> TAKE S
  <2>1. CASE cm.state \in Started <=> cmd[c].state \in Started
    <3>1. CommandsIn(S) \in Nat /\ CommandsIn(S)' = CommandsIn(S) /\ one = 0
        BY <1>1, <2>1, ProcessChanges, Zenon
    <3> QED
        BY <3>1
  <2>2. CASE cm.state \in Started /\ cmd[c].state \notin Started
    <3>1. /\ CommandsIn(S) \in Nat /\ CommandsIn(S)' = CommandsIn(S) + (IF k0 \in S THEN 1 ELSE 0)
          /\ one = 1
        BY <1>1, <2>2, ProcessChanges, Zenon
    <3> QED
        BY <3>1
  <2>3. CASE cm.state \notin Started /\ cmd[c].state \in Started
    <3>1. /\ CommandsIn(S) \in Nat /\ CommandsIn(S)' = CommandsIn(S) - (IF k0 \in S THEN 1 ELSE 0)
          /\ one = -1
        BY <1>1, <2>3, ProcessChanges, Zenon
    <3> QED
        BY <3>1
  <2> QED
      BY <2>1, <2>2, <2>3
<1>3. \A S : CommandsIn(S)' \in Nat
  <2> TAKE S
  <2>1. cmd' \in [Cmd -> Command]
      BY <1>1
  <2>2. \A T \in SUBSET Cmd : Cardinality(T) \in Nat
      BY Size
  <2> QED
      BY <2>2 DEF CommandsIn
<1>4. loop'.pending = CommandsIn(Cluster)' /\ loop'.pending \in Nat
    BY <1>1, <1>2, <1>3 DEF Counts
<1>5. ASSUME NEW k \in Cluster PROVE es'[k].pending = CommandsIn({k})' /\ es'[k].pending \in Nat
  <2>1. es[k].pending = CommandsIn({k})
      BY <1>5, Zenon DEF Counts
  <2>2. es'[k].pending = es[k].pending + (IF k0 \in {k} THEN one ELSE 0)
    <3>1. es[k].pending \in Nat /\ es \in [Cluster -> EventStates]
        BY <1>5 DEF Types, EventStates
    <3> QED
        BY <3>1, <1>1, <1>5
  <2> QED
      BY <1>2, <1>3, <2>1, <2>2
<1>6. es' \in [Cluster -> EventStates]
  <2>1. es'[k0].pending \in Nat
      BY <1>1, <1>5, Zenon
  <2>2. es \in [Cluster -> EventStates]
      BY DEF Types
  <2>3. es'[k0] = [es[k0] EXCEPT !.pending = es'[k0].pending]
      BY <1>1, <2>2
  <2> QED
      BY <1>1, <2>1, <2>2, <2>3 DEF EventStates
<1> QED
    BY <1>4, <1>5, <1>6 DEF Counts

\* An attempt keeps the invariant.
LEMMA AttemptInv ==
    ASSUME Inv, NEW c \in Cmd, NEW lp, NEW base, From(c, lp, base),
           NEW one, one = (IF cmd[c].state \in Started THEN 0 ELSE 1),
           lp.pending = loop.pending + one, es' = [es EXCEPT ![ClusterOf[c]].pending = @ + one],
           NEW used, used = PoolOf(c).total - PoolOf(c).idle - Held(cmd[c]), Attempt(c, lp, used, base)
    PROVE  Inv'
<1>1. Types /\ Commands /\ Counts /\ Pools /\ cmd \in [Cmd -> Command] /\ ClusterOf[c] \in Cluster
      /\ cmd[c] \in Command /\ PoolOf(c) \in Slots /\ loop \in Loops
    BY Constants DEF Inv, Types, PoolOf
<1>2. PICK cm \in Command, pl \in Slots, e \in Nat :
          /\ cmd' = [cmd EXCEPT ![c] = cm]
          /\ pool' = [pool EXCEPT ![ClusterOf[c]] = pl]
          /\ loop' = [lp EXCEPT !.errors = e]
          /\ cm.state \in Started /\ cm.result = <<>>
          /\ pl.total <= ConnLimit /\ pl.total = pl.idle + used + Held(cm)
          /\ \/ stack' = base /\ Attached(cm, FALSE) /\ Sent(cm, FALSE)
             \/ \E code \in {"ok", "client", "server"} :
                   /\ stack' = Report(c, code) \o base
                   /\ cm.timer = "none" /\ cm.conn # "open" /\ Sent(cm, TRUE)
                   /\ ~Auth /\ code = "server" => cm.copies < cm.sent
    BY Zenon DEF Attempt
<1>3. /\ lp \in Loops /\ Base(base) /\ LoopOK(lp, base) /\ Shape(base)
      /\ InFrames(base, "tell") = {} /\ InFrames(base, "execute") = {}
      /\ c \notin InFrames(base, "admit") /\ c \notin InFrames(base, "free")
      /\ faults' \in Nat
    BY DEF From, Base, Attempt
<1>4. /\ loop' \in Loops /\ loop'.pending = lp.pending /\ loop'.queue = lp.queue /\ loop'.delay = lp.delay
      /\ loop'.using = lp.using
    BY <1>2, <1>3, Zenon DEF Loops
<1>5. Pools' /\ pool' \in [Cluster -> Slots]
  <2>1. pl.total - pl.idle - Held(cm) = PoolOf(c).total - PoolOf(c).idle - Held(cmd[c])
    <3>1. Held(cm) \in {0, 1} /\ Held(cmd[c]) \in {0, 1}
        BY DEF Held
    <3> QED
        BY <1>1, <1>2, <3>1 DEF Slots
  <2> QED
      BY <1>1, <1>2, <2>1, PoolChanges, Zenon
<1>6. /\ Counts'
      /\ es' \in [Cluster -> EventStates]
  <2>1. /\ one \in {-1, 0, 1} /\ (cmd[c].state \in Started => one = 0) /\ (cmd[c].state \notin Started => one = 1)
        /\ loop'.pending = loop.pending + one /\ es' = [es EXCEPT ![ClusterOf[c]].pending = @ + one]
      BY <1>4
  <2> QED
      BY <1>1, <1>2, <2>1, CountsChange, Zenon
<1>7. /\ Range(loop'.queue) \ {c} = Range(loop.queue) \ {c} /\ Range(loop'.delay) \ {c} = Range(loop.delay) \ {c}
      /\ c \notin Range(loop'.queue) /\ c \notin Range(loop'.delay)
    BY <1>4 DEF From
<1>8. Shape(stack') /\ Commands' /\ cmd' \in [Cmd -> Command] /\ Telling' /\ LoopOK(loop', stack')
  <2>1. CASE stack' = base /\ Attached(cm, FALSE) /\ Sent(cm, FALSE)
    <3>1. Elsewhere(c)
        BY <1>7, <2>1 DEF Elsewhere, From
    <3>2. /\ (c \in Range(loop'.queue)) = FALSE /\ (c \in Range(loop'.delay)) = FALSE
          /\ \A op \in {"execute", "admit", "free", "tell"} : (c \in InFrames(stack', op)) = FALSE
        BY <1>3, <1>7, <2>1
    <3>3. Placed(cm, FALSE, FALSE, FALSE, FALSE, FALSE, FALSE)
        BY <1>2 DEF Placed, Started, OnSocket
    <3>4. Is(cm, c)
        BY <2>1, <3>2, <3>3, Zenon DEF Is
    <3>5. Commands' /\ cmd' \in [Cmd -> Command]
        BY <1>1, <1>2, <3>1, <3>4, OneCommand, Zenon
    <3>6. Telling'
      <4>1. stack' # <<>> => stack'[1].op # "tell"
          BY <1>3, <2>1, Top
      <4> QED
          BY <4>1 DEF Telling, Running
    <3>7. LoopOK(loop', stack')
        BY <1>3, <1>4, <2>1 DEF LoopOK, Goes
    <3> QED
        BY <1>3, <2>1, <3>5, <3>6, <3>7
  <2>2. ASSUME NEW code \in {"ok", "client", "server"}, stack' = Report(c, code) \o base,
               cm.timer = "none", cm.conn # "open", Sent(cm, TRUE), ~Auth /\ code = "server" => cm.copies < cm.sent
        PROVE  Shape(stack') /\ Commands' /\ cmd' \in [Cmd -> Command] /\ Telling' /\ LoopOK(loop', stack')
    <3>1. /\ Shape(stack') /\ stack' # <<>> /\ stack'[1] = Frame("tell", c, code)
          /\ InFrames(stack', "tell") = {c} /\ InFrames(stack', "execute") = {}
          /\ InFrames(stack', "admit") = InFrames(base, "admit") /\ InFrames(stack', "drain") = InFrames(base, "drain")
          /\ InFrames(stack', "free") = InFrames(base, "free") \cup {c}
        BY <1>3, <2>2, PushReport
    <3>2. Elsewhere(c)
      <4>1. \A op \in {"execute", "admit", "free", "tell"} : InFrames(base, op) \ {c} = InFrames(stack, op) \ {c}
          BY DEF From
      <4> QED
          BY <1>3, <1>7, <3>1, <4>1 DEF Elsewhere
    <3>3. /\ (c \in Range(loop'.queue)) = FALSE /\ (c \in Range(loop'.delay)) = FALSE
          /\ (c \in InFrames(stack', "execute")) = FALSE /\ (c \in InFrames(stack', "admit")) = FALSE
          /\ (c \in InFrames(stack', "free")) = TRUE /\ (c \in InFrames(stack', "tell")) = TRUE
        BY <1>3, <1>7, <3>1
    <3>4. Placed(cm, FALSE, FALSE, FALSE, FALSE, TRUE, TRUE) /\ Attached(cm, TRUE)
        BY <1>2, <2>2 DEF Placed, Attached, Early, Started, OnSocket
    <3>5. Is(cm, c)
        BY <2>2, <3>3, <3>4, Zenon DEF Is
    <3>6. Commands' /\ cmd' \in [Cmd -> Command]
        BY <1>1, <1>2, <3>2, <3>5, OneCommand, Zenon
    <3>7. Telling'
      <4>1. stack'[1].c = c /\ stack'[1].code = code /\ cmd'[c] = cm
          BY <1>1, <1>2, <3>1 DEF Frame
      <4> QED
          BY <2>2, <4>1 DEF Telling
    <3>8. LoopOK(loop', stack')
      <4>1. stack'[1].op = "tell"
          BY <3>1 DEF Frame
      <4> QED
          BY <1>3, <1>4, <3>1, <4>1 DEF LoopOK, Goes, Drains
    <3> QED
        BY <3>1, <3>6, <3>7, <3>8
  <2> QED
      BY <1>2, <2>1, <2>2, Zenon
<1> QED
    BY <1>3, <1>4, <1>5, <1>6, <1>8 DEF Inv, Types, Delays

-----------------------------------------------------------------------------
(* The events of a command on its socket or in a retry.                     *)

\* A command in process, while the loop waits for events.
LEMMA Active ==
    ASSUME Inv, Idle, NEW c \in Cmd, cmd[c].state \in Started
    PROVE  /\ Trying(cmd[c]) /\ Attached(cmd[c], FALSE) /\ Sent(cmd[c], FALSE)
           /\ PoolOf(c) \in Slots /\ PoolOf(c).total <= ConnLimit
           /\ PoolOf(c).total - PoolOf(c).idle - Held(cmd[c]) \in Nat
           /\ From(c, loop, <<>>)
           /\ loop \in Loops /\ loop.errors \in Nat /\ loop = [loop EXCEPT !.errors = loop.errors]
           /\ faults \in Nat
<1> Cards
    BY DEF Inv, Types
<1>1. /\ cmd[c] \in Command /\ ClusterOf[c] \in Cluster /\ PoolOf(c) \in Slots /\ loop \in Loops /\ faults \in Nat
      /\ \A op \in Ops : InFrames(stack, op) = {}
    BY Constants DEF Inv, Types, PoolOf, Idle, InFrames
<1>2. /\ (c \in InFrames(stack, "execute")) = FALSE /\ (c \in InFrames(stack, "admit")) = FALSE
      /\ Ending(c) = FALSE /\ (c \in InFrames(stack, "tell")) = FALSE
    BY <1>1 DEF Ending, Ops
<1>3. /\ Placed(cmd[c], c \in Range(loop.queue), c \in Range(loop.delay), FALSE, FALSE, FALSE, FALSE)
      /\ Attached(cmd[c], FALSE) /\ Sent(cmd[c], FALSE)
    BY <1>2, Zenon DEF Inv, Commands
<1>4. cmd[c].result = <<>> /\ c \notin Range(loop.queue) /\ c \notin Range(loop.delay)
    BY <1>3, Zenon DEF Placed, Started, OnSocket
<1>5. Trying(cmd[c])
    BY <1>1, <1>3, <1>4, Constants DEF Trying, Sent
<1>6. PoolOf(c).total <= ConnLimit /\ PoolOf(c).total - PoolOf(c).idle - Held(cmd[c]) \in Nat
  <2> DEFINE H == Holding(ClusterOf[c])
  <2>1. PoolOf(c).total = PoolOf(c).idle + Cardinality(H) /\ PoolOf(c).total <= ConnLimit
      BY <1>1 DEF Inv, Pools, PoolOf
  <2>2. H \in SUBSET Cmd /\ (cmd[c].conn = "open" => c \in H)
      BY DEF Holding
  <2>3. Cardinality(H) \in Nat
      BY <2>2, Size
  <2> HIDE DEF H
  <2>4. CASE cmd[c].conn = "open"
    <3>1. Cardinality(H \ {c}) = Cardinality(H) - 1
        BY <2>2, <2>4, OneLess
    <3>2. Cardinality(H \ {c}) \in Nat
        BY <2>2, Size
    <3>3. Held(cmd[c]) = 1
        BY <2>4 DEF Held
    <3> QED
        BY <1>1, <2>1, <2>3, <3>1, <3>2, <3>3 DEF Slots
  <2>5. CASE cmd[c].conn # "open"
    <3>1. Held(cmd[c]) = 0
        BY <2>5 DEF Held
    <3> QED
        BY <1>1, <2>1, <2>3, <3>1 DEF Slots
  <2> QED
      BY <2>4, <2>5
<1>7. From(c, loop, <<>>)
  <2>1. LoopOK(loop, <<>>)
      BY DEF Inv, Delays, Idle
  <2>2. \A op \in Ops : InFrames(<<>>, op) = {}
      BY DEF InFrames
  <2> QED
      BY <1>1, <1>4, <2>1, <2>2, EmptyBase DEF From, Ops
<1>8. loop.errors \in Nat /\ loop = [loop EXCEPT !.errors = loop.errors]
    BY <1>1 DEF Loops
<1> QED
    BY <1>1, <1>3, <1>5, <1>6, <1>7, <1>8, Zenon

\* An event of the command keeps the invariant when it is an attempt.
LEMMA ActiveInv ==
    ASSUME Inv, Idle, NEW c \in Cmd, cmd[c].state \in Started, UNCHANGED es,
           Attempt(c, loop, PoolOf(c).total - PoolOf(c).idle - Held(cmd[c]), <<>>)
    PROVE  Inv'
<1>1. From(c, loop, <<>>) /\ loop \in Loops
    BY Active, Zenon
<1>2. loop.pending = loop.pending + 0
    BY <1>1 DEF Loops
<1>3. es' = [es EXCEPT ![ClusterOf[c]].pending = @ + 0]
  <2>1. es \in [Cluster -> EventStates]
        /\ ClusterOf[c] \in Cluster
      BY Constants DEF Inv, Types
  <2>2. es[ClusterOf[c]].pending + 0 = es[ClusterOf[c]].pending
      BY <2>1 DEF EventStates
  <2> QED
      BY <2>1, <2>2 DEF EventStates
<1> QED
    BY <1>2, <1>1, <1>3, AttemptInv, Zenon

\* The command is reported and released, its slot is given back or not.
LEMMA EndsAttempt ==
    ASSUME NEW c \in Cmd, loop \in Loops, NEW cm \in Command, NEW pl \in Slots, NEW used \in Nat,
           NEW code \in {"ok", "client", "server"},
           Becomes(c, cm, loop, pl, Report(c, code)), faults' \in Nat,
           cm.state \in Started, cm.result = <<>>, cm.timer = "none", cm.conn # "open", Sent(cm, TRUE),
           pl.total <= ConnLimit, pl.total = pl.idle + used, ~Auth /\ code = "server" => cm.copies < cm.sent
    PROVE  Attempt(c, loop, used, <<>>)
<1>1. loop.errors \in Nat /\ loop = [loop EXCEPT !.errors = loop.errors]
    BY DEF Loops
<1>2. Report(c, code) = Report(c, code) \o <<>>
    BY DEF Report
<1>3. Held(cm) = 0 /\ pl.total = pl.idle + used + Held(cm)
    BY DEF Held, Slots
<1> QED
    BY <1>1, <1>2, <1>3, Zenon DEF Attempt, Becomes

\* as_event_total_timeout, and the end of a retry whose deadline has passed
LEMMA TimesOutInv ==
    ASSUME Inv, Idle, NEW c \in Cmd, cmd[c].state \in Started, TimesOut(c)
    PROVE  Inv'
<1> DEFINE s == Stopped(cmd[c])
           cm == [s EXCEPT !.conn = "stale"]
           pl == ConnTimeout(cmd[c], PoolOf(c))
           used == PoolOf(c).total - PoolOf(c).idle - Held(cmd[c])
<1>1. /\ Trying(cmd[c]) /\ Attached(cmd[c], FALSE) /\ Sent(cmd[c], FALSE) /\ cmd[c] \in Command
      /\ PoolOf(c) \in Slots /\ PoolOf(c).total <= ConnLimit /\ used \in Nat
      /\ loop \in Loops /\ faults \in Nat
    BY Active, Zenon DEF Trying
<1>2. cm \in Command
  <2>1. s \in Command
      BY <1>1, Updates, Zenon DEF Stopped
  <2> HIDE DEF s
  <2> QED
      BY <2>1, Updates, Zenon
<1>3. /\ cm.state = cmd[c].state /\ cm.result = <<>> /\ cm.timer = "none" /\ cm.conn = "stale"
      /\ cm.copies = cmd[c].copies /\ cm.sent = cmd[c].sent /\ cm.iteration = cmd[c].iteration
    BY <1>1, Zenon DEF Trying, Stopped, Command
<1> HIDE DEF cm
<1>4. Sent(cm, TRUE)
    BY <1>1, <1>3, Zenon DEF Sent, Trying, Early, Started, OnSocket
<1>5. cmd[c].conn \in {"null", "open"}
    BY <1>1, Zenon DEF Attached, Started, OnSocket
<1>6. pl \in Slots /\ pl.total <= ConnLimit /\ pl.total = pl.idle + used
  <2>1. CASE cmd[c].conn = "null"
    <3>1. Held(cmd[c]) = 0 /\ pl = PoolOf(c)
        BY <2>1 DEF Held, ConnTimeout
    <3> QED
        BY <1>1, <3>1 DEF Slots
  <2>2. CASE cmd[c].conn = "open"
    <3>1. Held(cmd[c]) = 1 /\ pl = Released(PoolOf(c))
        BY <2>2 DEF Held, ConnTimeout
    <3>2. PoolOf(c).total - PoolOf(c).idle - 1 \in Nat /\ used = PoolOf(c).total - PoolOf(c).idle - 1
        BY <1>1, <3>1
    <3> HIDE DEF used
    <3> QED
        BY <1>1, <3>1, <3>2, Constants DEF Released, Slots
  <2> QED
      BY <1>5, <2>1, <2>2
<1>7. /\ Becomes(c, cm, loop, pl, Report(c, "client")) /\ faults' \in Nat /\ UNCHANGED es
    BY <1>1 DEF TimesOut, cm
<1> HIDE DEF pl
<1>8. Attempt(c, loop, used, <<>>)
  <2> HIDE DEF used
  <2> QED
      BY <1>1, <1>2, <1>3, <1>4, <1>6, <1>7, EndsAttempt, Zenon
<1> QED
    BY <1>7, <1>8, ActiveInv

\* A command that has a timer of the event library is on its socket, delayed, or waits
\* for its start or its retry.
LEMMA TimerState ==
    ASSUME Inv, Idle, NEW c \in Cmd
    PROVE  /\ cmd[c].timer = "repeat" => cmd[c].state \in OnSocket
           /\ cmd[c].timer = "once" => cmd[c].state \in OnSocket \cup {"DELAY_QUEUE"}
           /\ cmd[c].conn = "open" => cmd[c].state \in OnSocket
<1>1. cmd[c] \in Command /\ Ending(c) = FALSE
    BY DEF Inv, Types, Idle, Ending, InFrames
<1>2. Attached(cmd[c], FALSE) /\ cmd[c].state \in States
    BY <1>1, Zenon DEF Inv, Commands, Command
<1> QED
    BY <1>2 DEF Attached, States, Early, Started

\* The total timeout of a running command (as_event_total_timeout).
LEMMA TotalTimerInv ==
    ASSUME Inv, NEW c \in Cmd, TotalTimer(c)
    PROVE  Inv'
<1>1. Idle /\ TimesOut(c) /\ cmd[c].state \in Started
    BY TimerState DEF TotalTimer, Started
<1> QED
    BY <1>1, TimesOutInv

\* The timer that starts the next attempt (as_event_execute_retry).
LEMMA ExecuteRetryInv ==
    ASSUME Inv, NEW c \in Cmd, ExecuteRetry(c)
    PROVE  Inv'
<1>1. Idle /\ cmd[c].state = "RETRY" /\ cmd[c].state \in Started
    BY DEF ExecuteRetry, Started
<1>2. CASE TimesOut(c)
    BY <1>1, <1>2, TimesOutInv
<1>3. ASSUME NEW short \in TimerChoice, Begin(c, RestoredTimer(cmd[c], short), loop, <<>>), UNCHANGED es
      PROVE  Inv'
  <2> DEFINE cm == RestoredTimer(cmd[c], short)
             at == [cm EXCEPT !.state = "CONNECT"]
  <2>1. /\ Trying(cmd[c]) /\ Attached(cmd[c], FALSE) /\ Sent(cmd[c], FALSE) /\ cmd[c] \in Command
        /\ PoolOf(c) \in Slots /\ PoolOf(c).total <= ConnLimit
        /\ PoolOf(c).total - PoolOf(c).idle - Held(cmd[c]) \in Nat
        /\ loop \in Loops /\ faults \in Nat
      BY <1>1, Active, Zenon DEF Trying
  <2>2. cmd[c].conn = "null" /\ cmd[c].sent <= cmd[c].iteration /\ Held(cmd[c]) = 0
    <3>1. cmd[c].conn = "null"
        BY <1>1, <2>1, Zenon DEF Attached
    <3>2. cmd[c].sent <= cmd[c].iteration
        BY <1>1, <2>1 DEF Sent, Started
    <3> QED
        BY <3>1, <3>2 DEF Held
  <2>3. cm \in Command /\ cm.timer # "zero"
    <3>1. \A tm \in {"none", "once", "repeat"} : /\ [cmd[c] EXCEPT !.timer = tm] \in Command
                                                 /\ [cmd[c] EXCEPT !.timer = tm].timer = tm
      <4>1. \A tm \in {"none", "once", "repeat"} : [cmd[c] EXCEPT !.timer = tm] \in Command
          BY <2>1, Updates, Zenon
      <4>2. \A tm : [cmd[c] EXCEPT !.timer = tm].timer = tm
          BY <2>1 DEF Command
      <4> QED
          BY <4>1, <4>2
    <3>2. \A q \in Command : [q EXCEPT !.received = FALSE] \in Command /\ [q EXCEPT !.received = FALSE].timer = q.timer
        BY Zenon DEF Command
    <3>3. \A q \in Command : [q EXCEPT !.sock = FALSE] \in Command /\ [q EXCEPT !.sock = FALSE].timer = q.timer
        BY Zenon DEF Command
    <3>4. CASE cmd[c].sock /\ (~TotalTimeout \/ short)
      <4>1. cm = [[cmd[c] EXCEPT !.timer = "repeat"] EXCEPT !.received = FALSE]
          BY <3>4 DEF RestoredTimer
      <4> QED
          BY <3>1, <3>2, <4>1, Zenon
    <3>5. CASE ~(cmd[c].sock /\ (~TotalTimeout \/ short)) /\ TotalTimeout
      <4>1. cm = [[cmd[c] EXCEPT !.timer = "once"] EXCEPT !.sock = FALSE]
          BY <3>5 DEF RestoredTimer
      <4> QED
          BY <3>1, <3>3, <4>1, Zenon
    <3>6. CASE ~(cmd[c].sock /\ (~TotalTimeout \/ short)) /\ ~TotalTimeout
      <4>1. cm = [cmd[c] EXCEPT !.timer = "none"]
          BY <3>6 DEF RestoredTimer, Stopped
      <4> QED
          BY <3>1, <4>1
    <3> QED
        BY <3>4, <3>5, <3>6
  <2>4. /\ cm.conn = "null" /\ cm.result = <<>> /\ cm.iteration = cmd[c].iteration /\ cm.sent = cmd[c].sent
        /\ cm.copies = cmd[c].copies
      BY <2>1, <2>2 DEF RestoredTimer, Stopped, Command, Trying
  <2>5. Begin(c, cm, loop, <<>>)
      BY <1>3
  <2> HIDE DEF cm
  <2>6. /\ at \in Command /\ at.state = "CONNECT" /\ at.result = <<>> /\ at.iteration = cm.iteration
        /\ at.sent = cm.sent /\ at.copies = cm.copies
    <3>1. at \in Command
        BY <2>3, Updates, Zenon DEF States, Started, OnSocket
    <3> QED
        BY <2>3, <2>4, <3>1 DEF Command
  <2>7. Trying(at)
    <3> HIDE DEF at
    <3> QED
        BY <2>1, <2>4, <2>6 DEF Trying, Started, OnSocket
  <2>8. PoolOf(c).idle <= PoolOf(c).total /\ cm.sent <= cm.iteration
      BY <2>1, <2>2, <2>4 DEF Slots
  <2>9. Attempt(c, loop, PoolOf(c).total - PoolOf(c).idle, <<>>)
      BY <2>1, <2>3, <2>4, <2>5, <2>7, <2>8, BeginAttempt
  <2>10. PoolOf(c).total - PoolOf(c).idle = PoolOf(c).total - PoolOf(c).idle - Held(cmd[c])
      BY <2>1, <2>2 DEF Slots
  <2>11. Attempt(c, loop, PoolOf(c).total - PoolOf(c).idle - Held(cmd[c]), <<>>)
      BY <2>9, <2>10
  <2> QED
      BY <1>1, <1>3, <2>11, ActiveInv
<1> QED
    BY <1>2, <1>3 DEF ExecuteRetry

\* A command that keeps its socket and its state, or moves on to authentication.
LEMMA GoesOn ==
    ASSUME Inv, Idle, NEW c \in Cmd, cmd[c].state \in OnSocket, NEW cm \in Command,
           cm.state = cmd[c].state \/ (cm.state = "AUTH" /\ Auth), cmd[c].state # "COMMAND_READ" \/ cm.state = cmd[c].state,
           cm.conn = cmd[c].conn, cm.timer # "zero", cm.result = cmd[c].result,
           cm.sent = cmd[c].sent, cm.copies = cmd[c].copies, cm.iteration = cmd[c].iteration,
           Becomes(c, cm, loop, PoolOf(c), <<>>), UNCHANGED <<es, faults>>
    PROVE  Inv'
<1>1. cmd[c].state \in Started
    BY DEF Started
<1>2. /\ Trying(cmd[c]) /\ Attached(cmd[c], FALSE) /\ Sent(cmd[c], FALSE) /\ cmd[c] \in Command
      /\ PoolOf(c) \in Slots /\ PoolOf(c).total <= ConnLimit
      /\ PoolOf(c).total - PoolOf(c).idle - Held(cmd[c]) \in Nat
      /\ loop \in Loops /\ faults \in Nat /\ loop.errors \in Nat /\ loop = [loop EXCEPT !.errors = loop.errors]
    BY <1>1, Active, Zenon DEF Trying
<1>3. cm.state \in OnSocket /\ cm.state \in Started /\ cm.conn = "open" /\ cm.result = <<>>
    BY <1>2 DEF Attached, OnSocket, Started, Trying
<1>4. Attached(cm, FALSE)
  <2>1. cm.state = "AUTH" => Auth
      BY <1>2, Zenon DEF Attached
  <2> QED
      BY <1>3, <2>1 DEF Attached, OnSocket, Early
<1>5. Sent(cm, FALSE)
  <2>1. /\ cmd[c].copies <= cmd[c].sent /\ cmd[c].sent <= MaxRetries + 1 /\ cmd[c].iteration <= MaxRetries + 1
        /\ cmd[c].iteration <= MaxRetries /\ cmd[c].sent <= cmd[c].iteration + 1
        /\ cmd[c].state # "COMMAND_READ" => cmd[c].sent <= cmd[c].iteration
        /\ cmd[c].state = "COMMAND_READ" => cmd[c].copies >= 1
      BY <1>1, <1>2 DEF Sent
  <2> QED
      BY <1>3, <2>1 DEF Sent, OnSocket, Early
<1>6. PoolOf(c).total = PoolOf(c).idle + (PoolOf(c).total - PoolOf(c).idle - Held(cmd[c])) + Held(cm)
  <2>1. Held(cm) = 1 /\ Held(cmd[c]) = 1
      BY <1>3 DEF Held
  <2> QED
      BY <1>2, <2>1 DEF Slots
<1>7. Attempt(c, loop, PoolOf(c).total - PoolOf(c).idle - Held(cmd[c]), <<>>)
    BY <1>2, <1>3, <1>4, <1>5, <1>6, Zenon DEF Attempt, Becomes
<1> QED
    BY <1>1, <1>7, ActiveInv, Zenon

\* A part of the answer arrives.
LEMMA ReadSomeInv ==
    ASSUME Inv, NEW c \in Cmd, ReadSome(c)
    PROVE  Inv'
<1> DEFINE cm == [cmd[c] EXCEPT !.received = TRUE]
<1>1. /\ Idle /\ cmd[c] \in Command /\ cmd[c].conn = "open" /\ cmd[c].state \in OnSocket
      /\ ClusterOf[c] \in Cluster /\ pool \in [Cluster -> Slots] /\ cmd \in [Cmd -> Command]
    BY Constants DEF ReadSome, At, OnSocket, Inv, Types
<1>2. cmd[c].timer # "zero"
    BY <1>1, Active, Zenon DEF Attached, Started
<1>3. /\ cm \in Command /\ cm.state = cmd[c].state /\ cm.conn = cmd[c].conn /\ cm.timer = cmd[c].timer
      /\ cm.result = cmd[c].result /\ cm.sent = cmd[c].sent /\ cm.copies = cmd[c].copies
      /\ cm.iteration = cmd[c].iteration
    BY <1>1, Zenon DEF Command
<1>4. Becomes(c, cm, loop, PoolOf(c), <<>>) /\ UNCHANGED <<es, faults>>
  <2>1. pool = [pool EXCEPT ![ClusterOf[c]] = PoolOf(c)]
      BY <1>1 DEF PoolOf
  <2>2. [cmd EXCEPT ![c].received = TRUE] = [cmd EXCEPT ![c] = cm]
      BY <1>1, Zenon
  <2> QED
      BY <2>1, <2>2 DEF ReadSome, Becomes, At, Idle
<1> HIDE DEF cm
<1> QED
    BY <1>1, <1>2, <1>3, <1>4, GoesOn

\* as_event_command_write_start on a command that is connected
LEMMA WritesInv ==
    ASSUME Inv, Idle, NEW c \in Cmd, cmd[c].state \in OnSocket \ {"COMMAND_READ"},
           WriteStart(c, cmd[c], loop, PoolOf(c), <<>>), UNCHANGED es
    PROVE  Inv'
<1> DEFINE used == PoolOf(c).total - PoolOf(c).idle - Held(cmd[c])
<1>1. cmd[c].state \in Started /\ cmd[c].state # "RETRY"
    BY DEF Started, OnSocket
<1>2. /\ Trying(cmd[c]) /\ Attached(cmd[c], FALSE) /\ Sent(cmd[c], FALSE)
      /\ PoolOf(c) \in Slots /\ PoolOf(c).total <= ConnLimit /\ used \in Nat
      /\ loop \in Loops /\ faults \in Nat /\ loop.errors \in Nat /\ loop = [loop EXCEPT !.errors = loop.errors]
    BY <1>1, Active, Zenon
<1>3. cmd[c].conn = "open" /\ cmd[c].timer # "zero"
    BY <1>2 DEF Attached
<1>4. cmd[c].sent <= cmd[c].iteration
    BY <1>1, <1>2 DEF Sent
<1>5. PoolOf(c).total = PoolOf(c).idle + used + 1
  <2>1. Held(cmd[c]) = 1
      BY <1>3 DEF Held
  <2> QED
      BY <1>2, <2>1 DEF Slots
<1>6. WriteStart(c, cmd[c], [loop EXCEPT !.errors = loop.errors], PoolOf(c), <<>>)
    BY <1>2
<1>7. Attempt(c, loop, used, <<>>)
  <2> HIDE DEF used
  <2> QED
      BY <1>1, <1>2, <1>3, <1>4, <1>5, <1>6, WriteAttempt
<1> QED
    BY <1>1, <1>7, ActiveInv

\* The slot of a socket that is closed or put back.
LEMMA SlotBack ==
    ASSUME Inv, Idle, NEW c \in Cmd, cmd[c].state \in OnSocket, NEW pl \in {Put(PoolOf(c)), Released(PoolOf(c))}
    PROVE  /\ pl \in Slots /\ pl.total <= ConnLimit
           /\ pl.total = pl.idle + (PoolOf(c).total - PoolOf(c).idle - Held(cmd[c]))
<1>1. /\ Attached(cmd[c], FALSE) /\ PoolOf(c) \in Slots /\ PoolOf(c).total <= ConnLimit
      /\ PoolOf(c).total - PoolOf(c).idle - Held(cmd[c]) \in Nat
    BY Active, Zenon DEF Started
<1>2. Held(cmd[c]) = 1
    BY <1>1 DEF Attached, Held
<1>3. CASE pl = Released(PoolOf(c))
    BY <1>1, <1>2, <1>3, Constants DEF Released, Slots
<1>4. CASE pl = Put(PoolOf(c))
    BY <1>1, <1>2, <1>4, Constants DEF Put, Released, Slots
<1> QED
    BY <1>3, <1>4

\* The socket fails (as_event_socket_retry and as_event_socket_timeout).
LEMMA FailsInv ==
    ASSUME Inv, Idle, NEW c \in Cmd, cmd[c].state \in OnSocket, NEW cm, Trying(cm), cm.conn # "open",
           RetryOrFail(c, cm, loop, Released(PoolOf(c)), <<>>), faults' \in Nat, UNCHANGED es
    PROVE  Inv'
<1> DEFINE used == PoolOf(c).total - PoolOf(c).idle - Held(cmd[c])
           pl == Released(PoolOf(c))
<1>1. cmd[c].state \in Started
    BY DEF Started
<1>2. used \in Nat /\ loop \in Loops /\ loop.errors \in Nat /\ loop = [loop EXCEPT !.errors = loop.errors]
    BY <1>1, Active, Zenon
<1>3. pl \in Slots /\ pl.total <= ConnLimit /\ pl.total = pl.idle + used
    BY SlotBack
<1>4. RetryOrFail(c, cm, [loop EXCEPT !.errors = loop.errors], pl, <<>>)
    BY <1>2
<1>5. Attempt(c, loop, used, <<>>)
  <2> HIDE DEF used, pl
  <2> QED
      BY <1>2, <1>3, <1>4, FailedAttempt
<1> QED
    BY <1>1, <1>5, ActiveInv

\* The response or its failure ends the command.
LEMMA EndsInv ==
    ASSUME Inv, Idle, NEW c \in Cmd, cmd[c].state \in OnSocket, NEW n \in Nat, n <= cmd[c].copies,
           NEW cm, cm = [cmd[c] EXCEPT !.timer = "none", !.conn = "stale", !.copies = n],
           NEW code \in {"ok", "client", "server"}, NEW pl \in {Put(PoolOf(c)), Released(PoolOf(c))},
           ~Auth /\ code = "server" => n < cmd[c].sent,
           Becomes(c, cm, loop, pl, Report(c, code)), faults' \in Nat, UNCHANGED es
    PROVE  Inv'
<1> DEFINE used == PoolOf(c).total - PoolOf(c).idle - Held(cmd[c])
<1>1. cmd[c].state \in Started
    BY DEF Started
<1>2. /\ Trying(cmd[c]) /\ Sent(cmd[c], FALSE) /\ cmd[c] \in Command /\ used \in Nat /\ loop \in Loops
    BY <1>1, Active, Zenon DEF Trying
<1>3. pl \in Slots /\ pl.total <= ConnLimit /\ pl.total = pl.idle + used
    BY SlotBack
<1>4. cm \in Command
  <2> DEFINE s == [cmd[c] EXCEPT !.timer = "none"]
             t == [s EXCEPT !.conn = "stale"]
  <2>1. s \in Command
      BY <1>2, Updates, Zenon
  <2>2. t \in Command
    <3> HIDE DEF s
    <3> QED
        BY <2>1, Updates, Zenon
  <2>3. [t EXCEPT !.copies = n] \in Command
    <3> HIDE DEF t
    <3> QED
        BY <2>2, Updates, Zenon
  <2> QED
      BY <2>3
<1>5. /\ cm.state = cmd[c].state /\ cm.result = <<>> /\ cm.timer = "none" /\ cm.conn = "stale"
      /\ cm.copies = n /\ cm.sent = cmd[c].sent /\ cm.iteration = cmd[c].iteration
    BY <1>2 DEF Command, Trying
<1>6. Sent(cm, TRUE)
  <2>1. cmd[c].copies \in Nat /\ cmd[c].sent \in Nat /\ cmd[c].copies <= cmd[c].sent
      BY <1>2 DEF Trying, Command
  <2>2. cmd[c].sent <= MaxRetries + 1 /\ cmd[c].iteration <= MaxRetries + 1
      BY <1>2 DEF Sent
  <2>3. cm.copies <= cm.sent
      BY <1>5, <2>1
  <2>4. cm.state \notin Early \cup {"QUEUE_ERROR"}
      BY <1>5 DEF Early, OnSocket
  <2>5. cm.result # <<"error">>
    <3>1. <<>> # <<"error">>
        OBVIOUS
    <3> QED
        BY <1>5, <3>1, Zenon
  <2> QED
      BY <1>5, <2>2, <2>3, <2>4, <2>5 DEF Sent
<1>7. Attempt(c, loop, used, <<>>)
  <2> HIDE DEF used
  <2> QED
      BY <1>1, <1>2, <1>3, <1>4, <1>5, <1>6, EndsAttempt, Zenon
<1> QED
    BY <1>1, <1>7, ActiveInv

\* The socket timer of an attempt fires (as_event_socket_timeout).
LEMMA SocketTimerInv ==
    ASSUME Inv, NEW c \in Cmd, SocketTimer(c)
    PROVE  Inv'
<1> DEFINE cm == [cmd[c] EXCEPT !.received = FALSE]
           once == [cm EXCEPT !.timer = "once", !.sock = FALSE]
           stale == [cm EXCEPT !.conn = "stale"]
<1>1. Idle /\ cmd[c].timer = "repeat" /\ cmd[c].state \in OnSocket /\ cmd[c].state \in Started
    BY TimerState DEF SocketTimer, Started
<1>2. Trying(cmd[c]) /\ cmd[c] \in Command /\ cmd[c].conn = "open" /\ faults \in Nat
    BY <1>1, Active, Zenon DEF Trying, Attached
<1>3. /\ cm \in Command /\ cm.state = cmd[c].state /\ cm.conn = "open" /\ cm.timer = "repeat"
      /\ cm.result = cmd[c].result /\ cm.sent = cmd[c].sent /\ cm.copies = cmd[c].copies
      /\ cm.iteration = cmd[c].iteration
    BY <1>1, <1>2, Zenon DEF Command
<1>4. CASE TimesOut(c)
    BY <1>1, <1>4, TimesOutInv, Zenon
<1>5. CASE \E short \in TimerChoice : /\ Becomes(c, IF short THEN cm ELSE once, loop, PoolOf(c), <<>>)
                                      /\ UNCHANGED <<es, faults>>
  <2>1. PICK q \in {cm, once} : Becomes(c, q, loop, PoolOf(c), <<>>) /\ UNCHANGED <<es, faults>>
      BY <1>5
  <2>2. /\ once \in Command /\ once.state = cmd[c].state /\ once.conn = "open" /\ once.timer = "once"
        /\ once.result = cmd[c].result /\ once.sent = cmd[c].sent /\ once.copies = cmd[c].copies
        /\ once.iteration = cmd[c].iteration
    <3> DEFINE a == [cm EXCEPT !.timer = "once"]
    <3> HIDE DEF cm
    <3>1. a \in Command
        BY <1>3, Updates, Zenon
    <3>2. [a EXCEPT !.sock = FALSE] \in Command
      <4> HIDE DEF a
      <4> QED
          BY <3>1, Updates, Zenon
    <3> QED
        BY <1>3, <3>2 DEF Command
  <2> HIDE DEF cm, once
  <2>3. /\ q \in Command /\ q.state = cmd[c].state /\ q.conn = cmd[c].conn /\ q.timer # "zero"
        /\ q.result = cmd[c].result /\ q.sent = cmd[c].sent /\ q.copies = cmd[c].copies
        /\ q.iteration = cmd[c].iteration
      BY <1>2, <1>3, <2>2, Zenon
  <2> QED
      BY <1>1, <2>1, <2>3, GoesOn
<1>6. CASE /\ RetryOrFail(c, stale, loop, ConnTimeout(cm, PoolOf(c)), <<>>)
           /\ UNCHANGED <<es, faults>>
  <2>1. ConnTimeout(cm, PoolOf(c)) = Released(PoolOf(c))
      BY <1>3 DEF ConnTimeout
  <2> HIDE DEF cm
  <2>2. stale \in Command
      BY <1>3, Updates, Zenon
  <2>3. /\ stale.state = cm.state /\ stale.conn = "stale" /\ stale.result = cm.result /\ stale.sent = cm.sent
        /\ stale.copies = cm.copies /\ stale.iteration = cm.iteration
      BY <1>3 DEF Command
  <2> HIDE DEF stale
  <2>4. Trying(stale)
      BY <1>2, <1>3, <2>2, <2>3 DEF Trying
  <2> QED
      BY <1>1, <1>2, <1>6, <2>1, <2>3, <2>4, FailsInv
<1> QED
    BY <1>4, <1>5, <1>6, Zenon DEF SocketTimer

\* The connection of a command is established.
LEMMA ConnectedInv ==
    ASSUME Inv, NEW c \in Cmd, Connected(c)
    PROVE  Inv'
<1> DEFINE cm == [cmd[c] EXCEPT !.state = "AUTH"]
<1>1. Idle /\ cmd[c].state = "CONNECT" /\ cmd[c].state \in OnSocket /\ cmd[c] \in Command /\ UNCHANGED es
    BY Zenon DEF Connected, At, OnSocket, Inv, Types
<1>2. CASE Auth /\ Becomes(c, cm, loop, PoolOf(c), <<>>) /\ UNCHANGED faults
  <2>1. cmd[c].timer # "zero"
      BY <1>1, Active, Zenon DEF Attached, Started
  <2>2. cm \in Command
      BY <1>1, Updates, Zenon DEF States, Started, OnSocket
  <2>3. /\ cm.state = "AUTH" /\ cm.conn = cmd[c].conn /\ cm.timer = cmd[c].timer
        /\ cm.result = cmd[c].result /\ cm.sent = cmd[c].sent /\ cm.copies = cmd[c].copies
        /\ cm.iteration = cmd[c].iteration
      BY <1>1 DEF Command
  <2> HIDE DEF cm
  <2> QED
      BY <1>1, <1>2, <2>1, <2>2, <2>3, GoesOn
<1>3. CASE WriteStart(c, cmd[c], loop, PoolOf(c), <<>>)
    BY <1>1, <1>3, WritesInv
<1> QED
    BY <1>2, <1>3 DEF Connected

\* Authenticated and Write: the request goes out.
LEMMA WriteInv ==
    ASSUME Inv, NEW c \in Cmd, Authenticated(c) \/ Write(c)
    PROVE  Inv'
<1>1. /\ Idle /\ cmd[c].state \in OnSocket \ {"COMMAND_READ"} /\ UNCHANGED es
      /\ WriteStart(c, cmd[c], loop, PoolOf(c), <<>>)
    BY DEF Authenticated, Write, At, OnSocket
<1> QED
    BY <1>1, WritesInv

\* The socket fails while the answer is awaited.
LEMMA ReadErrorInv ==
    ASSUME Inv, NEW c \in Cmd, ReadError(c)
    PROVE  Inv'
<1> DEFINE stale == [cmd[c] EXCEPT !.conn = "stale"]
<1>1. Idle /\ cmd[c].state \in OnSocket /\ cmd[c].state \in Started /\ UNCHANGED es
    BY DEF ReadError, At, OnSocket, Started
<1>2. Trying(cmd[c]) /\ cmd[c] \in Command /\ faults \in Nat
    BY <1>1, Active, Zenon DEF Trying
<1>3. faults' \in Nat /\ RetryOrFail(c, stale, loop, Released(PoolOf(c)), <<>>)
    BY <1>2 DEF ReadError, SocketFails, Fault
<1>4. stale \in Command
    BY <1>2, Updates, Zenon
<1>5. /\ stale.state = cmd[c].state /\ stale.conn = "stale" /\ stale.result = cmd[c].result
      /\ stale.sent = cmd[c].sent /\ stale.copies = cmd[c].copies /\ stale.iteration = cmd[c].iteration
    BY <1>2 DEF Command
<1> HIDE DEF stale
<1>6. Trying(stale)
    BY <1>2, <1>4, <1>5 DEF Trying
<1> QED
    BY <1>1, <1>3, <1>5, <1>6, FailsInv

\* AuthError and BadReply
LEMMA ParseErrorInv ==
    ASSUME Inv, NEW c \in Cmd, AuthError(c) \/ BadReply(c)
    PROVE  Inv'
<1> DEFINE cm == [cmd[c] EXCEPT !.timer = "none", !.conn = "stale", !.copies = cmd[c].copies]
<1>1. PICK code \in {"server", "client"} :
          /\ ParseError(c, code) /\ Idle /\ cmd[c].state \in {"AUTH", "COMMAND_READ"}
          /\ code = "server" => cmd[c].state = "AUTH"
    BY DEF AuthError, BadReply, At
<1>2. cmd[c].state \in OnSocket /\ cmd[c].state \in Started
    BY <1>1 DEF OnSocket, Started
<1>3. cmd[c] \in Command /\ Attached(cmd[c], FALSE) /\ faults \in Nat
    BY <1>1, <1>2, Active, Zenon DEF Trying
<1>4. code = "server" => Auth
    BY <1>1, <1>3 DEF Attached
<1>5. cm = [Stopped(cmd[c]) EXCEPT !.conn = "stale"] /\ cmd[c].copies \in Nat
    BY <1>3, Zenon DEF Stopped, Command
<1>6. Becomes(c, cm, loop, Released(PoolOf(c)), Report(c, code)) /\ faults' \in Nat /\ UNCHANGED es
    BY <1>1, <1>3, <1>5 DEF ParseError, Fault
<1>7. code \in {"ok", "client", "server"} /\ cmd[c].copies <= cmd[c].copies
    BY <1>5
<1> QED
    BY <1>1, <1>2, <1>4, <1>5, <1>6, <1>7, EndsInv, Zenon

\* The answer is complete (as_event_response_complete).
LEMMA CompleteInv ==
    ASSUME Inv, NEW c \in Cmd, Complete(c)
    PROVE  Inv'
<1> DEFINE cm == [cmd[c] EXCEPT !.timer = "none", !.conn = "stale", !.copies = cmd[c].copies]
<1>1. Idle /\ cmd[c].state \in OnSocket /\ cmd[c].state \in Started
    BY DEF Complete, At, OnSocket, Started
<1>2. cmd[c] \in Command /\ faults \in Nat
    BY <1>1, Active, Zenon DEF Trying
<1>3. cm = Done(cmd[c]) /\ cmd[c].copies \in Nat
    BY <1>2, Zenon DEF Done, Stopped, Command
<1>4. cmd[c].copies <= cmd[c].copies
    BY <1>3
<1>5. Becomes(c, cm, loop, Put(PoolOf(c)), Report(c, "ok")) /\ faults' \in Nat /\ UNCHANGED es
    BY <1>2, <1>3 DEF Complete
<1> QED
    BY <1>1, <1>3, <1>5, <1>4, EndsInv, Zenon

\* The answer is an error of the server (as_event_response_error).
LEMMA ResponseErrorInv ==
    ASSUME Inv, NEW c \in Cmd, ResponseError(c)
    PROVE  Inv'
<1>1. Idle /\ cmd[c].state = "COMMAND_READ" /\ cmd[c].state \in OnSocket /\ cmd[c].state \in Started
    BY DEF ResponseError, At, OnSocket, Started
<1>2. cmd[c] \in Command /\ faults \in Nat /\ Trying(cmd[c]) /\ Sent(cmd[c], FALSE)
    BY <1>1, Active, Zenon DEF Trying
<1>3. PICK code \in {"server", "client"}, pl \in {Put(PoolOf(c)), Released(PoolOf(c))} :
          Becomes(c, [Done(cmd[c]) EXCEPT !.copies = IF code = "server" THEN @ - 1 ELSE @], loop, pl, Report(c, code))
    BY DEF ResponseError
<1> DEFINE n == IF code = "server" THEN cmd[c].copies - 1 ELSE cmd[c].copies
           cm == [cmd[c] EXCEPT !.timer = "none", !.conn = "stale", !.copies = n]
<1>4. cmd[c].copies \in Nat /\ cmd[c].sent \in Nat /\ cmd[c].copies <= cmd[c].sent /\ cmd[c].copies >= 1
  <2>1. cmd[c].copies >= 1
      BY <1>1, <1>2 DEF Sent
  <2> QED
      BY <1>2, <2>1, Zenon DEF Trying, Command
<1>5. n \in Nat /\ n <= cmd[c].copies /\ (code = "server" => n < cmd[c].sent)
    BY <1>4
<1>6. cm = [Done(cmd[c]) EXCEPT !.copies = IF code = "server" THEN @ - 1 ELSE @]
  <2>1. Done(cmd[c]) = [cmd[c] EXCEPT !.timer = "none", !.conn = "stale"]
      BY DEF Done, Stopped
  <2>2. Done(cmd[c]).copies = cmd[c].copies
      BY <1>2, <2>1 DEF Command
  <2>3. [Done(cmd[c]) EXCEPT !.copies = IF code = "server" THEN @ - 1 ELSE @] = [Done(cmd[c]) EXCEPT !.copies = n]
      BY <2>2
  <2>4. [Done(cmd[c]) EXCEPT !.copies = n] = cm
      BY <2>1
  <2> QED
      BY <2>3, <2>4
<1>7. Becomes(c, cm, loop, pl, Report(c, code)) /\ faults' \in Nat /\ UNCHANGED es
    BY <1>2, <1>3, <1>6 DEF ResponseError
<1>8. code \in {"ok", "client", "server"}
    OBVIOUS
<1> HIDE DEF n
<1> QED
    BY <1>1, <1>5, <1>7, <1>8, EndsInv, Zenon

-----------------------------------------------------------------------------
(* The steps of the loop: a command is queued, admitted, delayed, refused,  *)
(* told or freed.                                                           *)

\* A command that keeps or gives up no socket changes its place.
LEMMA Change ==
    ASSUME Inv, NEW c \in Cmd, NEW cm \in Command, cmd' = [cmd EXCEPT ![c] = cm],
           cm.conn = cmd[c].conn, loop' \in Loops, Counts',
           es' \in [Cluster -> EventStates],
           pool' = pool, faults' \in Nat, Shape(stack'), Elsewhere(c), Is(cm, c), Telling', LoopOK(loop', stack')
    PROVE  Inv'
<1>1. /\ Types /\ Commands /\ Pools /\ pool \in [Cluster -> Slots] /\ ClusterOf[c] \in Cluster
      /\ PoolOf(c) \in Slots /\ PoolOf(c).total <= ConnLimit
    BY Constants DEF Inv, Types, Pools, PoolOf
<1>2. Commands' /\ cmd' \in [Cmd -> Command]
    BY <1>1, OneCommand, Zenon
<1>3. Pools' /\ pool' \in [Cluster -> Slots]
  <2>1. pool' = [pool EXCEPT ![ClusterOf[c]] = PoolOf(c)]
      BY <1>1 DEF PoolOf
  <2>2. Held(cm) = Held(cmd[c])
      BY DEF Held
  <2>3. PoolOf(c).total - PoolOf(c).idle - Held(cm) = PoolOf(c).total - PoolOf(c).idle - Held(cmd[c])
      BY <2>2
  <2> QED
      BY <1>1, <2>1, <2>3, PoolChanges, Zenon
<1> QED
    BY <1>2, <1>3, Zenon DEF Inv, Types, Delays

\* No command enters or leaves processing.
LEMMA Moved ==
    ASSUME Inv, NEW c \in Cmd, NEW cm \in Command, cmd' = [cmd EXCEPT ![c] = cm], cm.conn = cmd[c].conn,
           cm.state \in Started <=> cmd[c].state \in Started,
           loop' \in Loops, loop'.pending = loop.pending, UNCHANGED <<es, pool>>,
           faults' \in Nat, Shape(stack'), Elsewhere(c), Is(cm, c), Telling', LoopOK(loop', stack')
    PROVE  Inv'
<1> Cards
    BY DEF Inv, Types
<1>1. cmd \in [Cmd -> Command]
      /\ es' \in [Cluster -> EventStates]
    BY DEF Inv, Types
<1>2. \A S : CommandsIn(S)' = CommandsIn(S)
    BY <1>1, ProcessChanges, Zenon
<1>3. Counts'
    BY <1>2 DEF Inv, Counts
<1> QED
    BY <1>1, <1>3, Change, Zenon

\* A stack whose running frame tells nothing.
LEMMA NoTelling ==
    ASSUME Shape(stack'), InFrames(stack', "tell") = {}
    PROVE  Telling'
<1>1. stack' # <<>> => stack'[1].op # "tell"
    BY Top
<1> QED
    BY <1>1 DEF Telling, Running

\* What is known of any command.
LEMMA Facts ==
    ASSUME Inv, NEW c \in Cmd
    PROVE  /\ cmd \in [Cmd -> Command] /\ cmd[c] \in Command /\ loop \in Loops /\ faults \in Nat /\ Shape(stack)
           /\ ClusterOf[c] \in Cluster /\ PoolOf(c) \in Slots /\ pool = [pool EXCEPT ![ClusterOf[c]] = PoolOf(c)]
           /\ LoopOK(loop, stack) /\ cmd[c].state \in States /\ cmd[c].copies \in Nat /\ cmd[c].sent \in Nat
           /\ Placed(cmd[c], c \in Range(loop.queue), c \in Range(loop.delay), c \in InFrames(stack, "execute"),
                     c \in InFrames(stack, "admit"), c \in InFrames(stack, "free"), c \in InFrames(stack, "tell"))
           /\ Attached(cmd[c], c \in InFrames(stack, "free"))
           /\ Sent(cmd[c], c \in InFrames(stack, "free"))
<1>1. /\ cmd \in [Cmd -> Command] /\ cmd[c] \in Command /\ loop \in Loops /\ faults \in Nat /\ Shape(stack)
      /\ ClusterOf[c] \in Cluster /\ pool \in [Cluster -> Slots]
    BY Constants DEF Inv, Types
<1>2. PoolOf(c) \in Slots /\ pool = [pool EXCEPT ![ClusterOf[c]] = PoolOf(c)]
    BY <1>1 DEF PoolOf
<1>3. cmd[c].state \in States /\ cmd[c].copies \in Nat /\ cmd[c].sent \in Nat
    BY <1>1, Zenon DEF Command
<1>4. /\ Placed(cmd[c], c \in Range(loop.queue), c \in Range(loop.delay), c \in InFrames(stack, "execute"),
                c \in InFrames(stack, "admit"), c \in InFrames(stack, "free"), c \in InFrames(stack, "tell"))
      /\ Attached(cmd[c], c \in InFrames(stack, "free"))
      /\ Sent(cmd[c], c \in InFrames(stack, "free"))
    BY Zenon DEF Inv, Commands, Ending
<1>5. LoopOK(loop, stack)
    BY DEF Inv, Delays
<1> QED
    BY <1>1, <1>2, <1>3, <1>4, <1>5, Zenon

\* A command that has not started and is in no frame any more.
Waits(cm) == /\ cm.state \in {"REGISTERED", "ISSUED", "DELAY_QUEUE"}
             /\ cm.conn = "null" /\ cm.result = <<>> /\ cm.sent = 0 /\ cm.iteration = 0 /\ cm.copies = 0

\* A command that has not started was not sent.
LEMMA SentNothing ==
    ASSUME NEW cm, Waits(cm), cm.state \in {"REGISTERED", "ISSUED"}
    PROVE  Sent(cm, FALSE)
<1>1. cm.copies <= cm.sent /\ cm.sent <= MaxRetries + 1 /\ cm.iteration <= MaxRetries + 1
    BY Constants DEF Waits
<1> QED
    BY <1>1 DEF Sent, Waits, Started, OnSocket

\* A command that waits to start has nothing attached and was never sent.
LEMMA WaitsIs ==
    ASSUME Inv, NEW c \in Cmd, cmd[c].state \in {"REGISTERED", "ISSUED", "DELAY_QUEUE"}
    PROVE  Waits(cmd[c]) /\ cmd[c].state \notin Started
<1>1. cmd[c].copies \in Nat /\ Attached(cmd[c], c \in InFrames(stack, "free")) /\ Sent(cmd[c], c \in InFrames(stack, "free"))
    BY Facts, Zenon
<1>2. cmd[c].conn = "null" /\ cmd[c].result = <<>>
    BY <1>1, Zenon DEF Attached, Early
<1>3. cmd[c].sent = 0 /\ cmd[c].iteration = 0 /\ cmd[c].copies = 0
    BY <1>1 DEF Sent, Early
<1> QED
    BY <1>2, <1>3 DEF Waits, Started, OnSocket

\* The timer a starting command gets.
LEMMA ArmedIs ==
    ASSUME NEW cm \in Command, Waits(cm), cm.timer # "zero", NEW short
    PROVE  LET q == Armed(cm, short)
           IN  q \in Command /\ Waits(q) /\ q.timer # "zero" /\ q.state = cm.state
<1> DEFINE q == Armed(cm, short)
           a == [cm EXCEPT !.timer = "repeat"]
           b == [a EXCEPT !.sock = TRUE]
           d == [cm EXCEPT !.timer = "once"]
<1>1. a \in Command /\ d \in Command
    BY Updates, Zenon
<1>2. b \in Command
  <2> HIDE DEF a
  <2> QED
      BY <1>1, Updates, Zenon
<1>3. q = b \/ q = d \/ q = cm
    BY DEF Armed
<1>4. /\ b.state = cm.state /\ b.conn = cm.conn /\ b.result = cm.result /\ b.sent = cm.sent /\ b.copies = cm.copies
      /\ b.iteration = cm.iteration /\ b.timer = "repeat"
    BY DEF Command
<1>5. /\ d.state = cm.state /\ d.conn = cm.conn /\ d.result = cm.result /\ d.sent = cm.sent /\ d.copies = cm.copies
      /\ d.iteration = cm.iteration /\ d.timer = "once"
    BY Zenon DEF Command
<1> HIDE DEF q, b, d
<1>6. Waits(b) /\ Waits(d)
    BY <1>4, <1>5 DEF Waits
<1>7. q \in Command /\ Waits(q) /\ q.timer # "zero" /\ q.state = cm.state
    BY <1>1, <1>2, <1>3, <1>4, <1>5, <1>6
<1> QED
    BY <1>7 DEF q

\* A command enters processing.
LEMMA StartInv ==
    ASSUME Inv, NEW c \in Cmd, NEW lp, NEW base, From(c, lp, base), lp.pending = loop.pending,
           MaxInProcess > 0 => lp.pending < MaxInProcess,
           cmd[c].state \in {"REGISTERED", "ISSUED", "DELAY_QUEUE"},
           NEW cm \in Command, Waits(cm), cm.timer # "zero", Start(c, cm, lp, base)
    PROVE  Inv'
<1> DEFINE q == [lp EXCEPT !.pending = @ + 1]
           at == [cm EXCEPT !.state = "CONNECT"]
           used == PoolOf(c).total - PoolOf(c).idle
<1> Cards
    BY DEF Inv, Types
<1>1. Waits(cmd[c]) /\ cmd[c].state \notin Started /\ cmd[c] \in Command /\ loop \in Loops /\ faults \in Nat
      /\ ClusterOf[c] \in Cluster /\ PoolOf(c) \in Slots
    BY WaitsIs, Facts, Zenon
<1>2. lp \in Loops /\ Base(base) /\ LoopOK(lp, base)
    BY DEF From
<1>3. /\ q \in Loops /\ q.pending = lp.pending + 1 /\ q.queue = lp.queue /\ q.delay = lp.delay /\ q.using = lp.using
    BY <1>2 DEF Loops
<1> HIDE DEF q
<1>4. LoopOK(q, base)
  <2>1. q.pending \in Nat /\ lp.pending \in Nat /\ (MaxInProcess > 0 => q.pending <= MaxInProcess)
    <3>1. lp.pending \in Nat /\ MaxInProcess \in Nat
        BY <1>2, Constants, Zenon DEF Loops
    <3>2. q.pending = lp.pending + 1
        BY <1>3, Zenon
    <3> QED
        BY <3>1, <3>2
  <2>2. Goes(q) => Goes(lp)
    <3>1. q.pending = lp.pending + 1 /\ q.delay = lp.delay /\ MaxInProcess \in Nat
        BY <1>3, Constants, Zenon
    <3> QED
        BY <2>1, <3>1 DEF Goes
  <2> QED
      BY <1>2, <1>3, <2>1, <2>2, Zenon DEF LoopOK
<1>5. From(c, q, base)
    BY <1>3, <1>4, Zenon DEF From
<1>6. Held(cmd[c]) = 0 /\ used = PoolOf(c).total - PoolOf(c).idle - Held(cmd[c])
  <2>1. Held(cmd[c]) = 0
      BY <1>1, Zenon DEF Held, Waits
  <2> QED
      BY <1>1, <2>1 DEF Slots
<1>7. PoolOf(c).idle <= PoolOf(c).total /\ PoolOf(c).total <= ConnLimit
  <2>1. /\ PoolOf(c).total = PoolOf(c).idle + Cardinality(Holding(ClusterOf[c]))
        /\ PoolOf(c).total <= ConnLimit
      BY <1>1 DEF Inv, Pools, PoolOf
  <2>2. Cardinality(Holding(ClusterOf[c])) \in Nat
      BY Size DEF Holding
  <2> QED
      BY <1>1, <2>1, <2>2 DEF Slots
<1>8. at \in Command
    BY Updates, Zenon DEF States, Started, OnSocket
<1>9. /\ at.state = "CONNECT" /\ at.result = <<>> /\ at.iteration = 0 /\ at.sent = 0 /\ at.copies = 0
      /\ cm.sent <= cm.iteration
    BY DEF Waits, Command
<1>10. Trying(at)
  <2> HIDE DEF at
  <2> QED
      BY <1>8, <1>9, Constants DEF Trying, Started, OnSocket
<1>11. Begin(c, cm, q, base) /\ es' = [es EXCEPT ![ClusterOf[c]].pending = @ + 1]
    BY DEF Start, q
<1>12. Attempt(c, q, used, base)
    BY <1>1, <1>3, <1>7, <1>9, <1>10, <1>11, BeginAttempt DEF Waits
<1> HIDE DEF used
<1> QED
    BY <1>1, <1>3, <1>5, <1>6, <1>11, <1>12, AttemptInv, Zenon

\* as_event_prequeue_error
LEMMA PrequeueInv ==
    ASSUME Inv, NEW c \in Cmd, NEW lp, NEW base, From(c, lp, base), lp.pending = loop.pending,
           cmd[c].state \in {"REGISTERED", "ISSUED"}, NEW cm \in Command, Waits(cm),
           PrequeueError(c, cm, lp, base)
    PROVE  Inv'
<1> DEFINE a == [cm EXCEPT !.state = "QUEUE_ERROR"]
           q == [a EXCEPT !.timer = "none"]
<1>1. /\ Waits(cmd[c]) /\ cmd[c].state \notin Started /\ cmd[c] \in Command /\ loop \in Loops /\ faults \in Nat
      /\ pool = [pool EXCEPT ![ClusterOf[c]] = PoolOf(c)]
    BY WaitsIs, Facts, Zenon
<1>2. lp \in Loops /\ Base(base) /\ LoopOK(lp, base) /\ c \notin Range(lp.queue) /\ c \notin Range(lp.delay)
      /\ c \notin InFrames(base, "admit") /\ c \notin InFrames(base, "free")
    BY DEF From
<1>3. /\ loop' = OneMoreError(lp) /\ loop' \in Loops /\ loop'.pending = loop.pending /\ loop'.queue = lp.queue
      /\ loop'.delay = lp.delay /\ loop'.using = lp.using
  <2>1. loop' = OneMoreError(lp)
      BY DEF PrequeueError, Becomes
  <2> QED
      BY <2>1, <1>2 DEF OneMoreError, Loops
<1>4. a \in Command
    BY Updates, Zenon DEF States
<1>5. q \in Command
  <2> HIDE DEF a
  <2> QED
      BY <1>4, Updates, Zenon
<1>6. /\ q.state = "QUEUE_ERROR" /\ q.timer = "none" /\ q.conn = "null" /\ q.result = <<>> /\ q.sent = 0
      /\ q.iteration = 0 /\ q.copies = 0
    BY DEF Waits, Command
<1>7. /\ cmd' = [cmd EXCEPT ![c] = q] /\ pool' = pool /\ stack' = Report(c, "client") \o base
      /\ UNCHANGED <<es, faults>>
    BY <1>1, Zenon DEF PrequeueError, Becomes
<1> HIDE DEF q
<1>8. /\ Shape(stack') /\ stack' # <<>> /\ stack'[1] = Frame("tell", c, "client")
      /\ InFrames(stack', "tell") = {c} /\ InFrames(stack', "execute") = {}
      /\ InFrames(stack', "admit") = InFrames(base, "admit") /\ InFrames(stack', "drain") = InFrames(base, "drain")
      /\ InFrames(stack', "free") = InFrames(base, "free") \cup {c}
  <2> DEFINE t == Report(c, "client") \o base
  <2>1. /\ Shape(t) /\ t # <<>> /\ t[1] = Frame("tell", c, "client")
        /\ InFrames(t, "tell") = {c} /\ InFrames(t, "execute") = {}
        /\ InFrames(t, "admit") = InFrames(base, "admit") /\ InFrames(t, "drain") = InFrames(base, "drain")
        /\ InFrames(t, "free") = InFrames(base, "free") \cup {c}
    <3>1. /\ Base(base) /\ c \notin InFrames(base, "admit") /\ c \notin InFrames(base, "free")
          /\ "client" \in {"ok", "client", "server"}
        BY <1>2, Zenon
    <3> QED
        BY <3>1, PushReport
  <2>2. stack' = t
      BY <1>7, Zenon
  <2> QED
      BY <2>1, <2>2, Zenon
<1>9. Elsewhere(c)
  <2>1. /\ \A op \in {"execute", "admit", "free", "tell"} : InFrames(base, op) \ {c} = InFrames(stack, op) \ {c}
        /\ InFrames(base, "tell") = {} /\ InFrames(base, "execute") = {}
        /\ Range(lp.queue) \ {c} = Range(loop.queue) \ {c} /\ Range(lp.delay) \ {c} = Range(loop.delay) \ {c}
      BY DEF From, Base
  <2> QED
      BY <1>3, <1>8, <2>1, Zenon DEF Elsewhere
<1>10. Is(q, c)
  <2>1. /\ (c \in Range(loop'.queue)) = FALSE /\ (c \in Range(loop'.delay)) = FALSE
        /\ (c \in InFrames(stack', "execute")) = FALSE /\ (c \in InFrames(stack', "admit")) = FALSE
        /\ (c \in InFrames(stack', "free")) = TRUE /\ (c \in InFrames(stack', "tell")) = TRUE
      BY <1>2, <1>3, <1>8, Absent, Present, Zenon
  <2>2. Placed(q, FALSE, FALSE, FALSE, FALSE, TRUE, TRUE)
      BY <1>6 DEF Placed, Started, OnSocket
  <2>3. Attached(q, TRUE)
      BY <1>6, Zenon DEF Attached, Early, OnSocket
  <2>4. Sent(q, TRUE)
      BY <1>6, Constants DEF Sent, Early, Started, OnSocket
  <2> QED
      BY <2>1, <2>2, <2>3, <2>4, Zenon DEF Is
<1>11. Telling' /\ LoopOK(loop', stack')
  <2>1. stack'[1].op = "tell" /\ stack'[1].code = "client"
      BY <1>8 DEF Frame
  <2>2. Telling'
      BY <2>1 DEF Telling
  <2>3. LoopOK(loop', stack')
    <3>1. Goes(loop') <=> Goes(lp)
        BY <1>3 DEF Goes
    <3> QED
        BY <1>2, <1>3, <1>8, <2>1, <3>1, Zenon DEF LoopOK, Drains
  <2> QED
      BY <2>2, <2>3, Zenon
<1>12. q.conn = cmd[c].conn /\ q.state \notin Started
    BY <1>1, <1>6, Zenon DEF Waits, Started, OnSocket
<1>13. faults' \in Nat
    BY <1>1, <1>7, Zenon
<1> QED
    BY <1>1, <1>3, <1>5, <1>7, <1>8, <1>9, <1>10, <1>11, <1>12, <1>13, Moved, Zenon

\* A drain that is started.
LEMMA PushDrain ==
    ASSUME NEW s, Shape(s), InFrames(s, "tell") = {}, InFrames(s, "execute") = {}
    PROVE  LET t == <<DrainFrame>> \o s
           IN  /\ Shape(t) /\ t # <<>> /\ t[1].op = "drain" /\ Drains(t)
               /\ \A op \in {"tell", "execute", "admit", "free"} : InFrames(t, op) = InFrames(s, op)
<1> DEFINE f == DrainFrame
           t == <<f>> \o s
<1>1. f \in FrameSet /\ f.op = "drain" /\ f.c = "none" /\ ~Owner(f)
    BY DEF DrainFrame, Frame, FrameSet, Ops, Owner
<1> HIDE DEF f
<1>2. /\ Shape(t) /\ t[1] = f /\ t # <<>>
      /\ \A op \in Ops : InFrames(t, op) = InFrames(s, op) \cup (IF f.op = op THEN {f.c} ELSE {})
    BY <1>1, Pushed
<1> HIDE DEF t
<1>3. "none" \in InFrames(t, "drain") /\ \A op \in {"tell", "execute", "admit", "free"} : InFrames(t, op) = InFrames(s, op)
    BY <1>1, <1>2 DEF Ops
<1> QED
    BY <1>1, <1>2, <1>3 DEF Drains, t, f

\* A frame that decides about a command.
LEMMA PushOwner ==
    ASSUME NEW s, Shape(s), InFrames(s, "tell") = {}, InFrames(s, "execute") = {}, s # <<>> => s[1].op # "admit",
           NEW c \in Cmd, c \notin InFrames(s, "admit"), c \notin InFrames(s, "free"),
           NEW op \in {"execute", "admit", "free"}
    PROVE  LET t == <<Frame(op, c, "none")>> \o s
           IN  /\ Shape(t) /\ t # <<>> /\ t[1] = Frame(op, c, "none")
               /\ \A o \in Ops : InFrames(t, o) = InFrames(s, o) \cup (IF o = op THEN {c} ELSE {})
<1> DEFINE f == Frame(op, c, "none")
           t == <<f>> \o s
<1>1. f \in FrameSet /\ f.op = op /\ f.c = c
    BY DEF Frame, FrameSet, Ops
<1> HIDE DEF f
<1>2. /\ Shape(t) /\ t[1] = f /\ t # <<>>
      /\ \A o \in Ops : InFrames(t, o) = InFrames(s, o) \cup (IF f.op = o THEN {f.c} ELSE {})
    BY <1>1, Pushed
<1> HIDE DEF t
<1>3. \A o \in Ops : InFrames(t, o) = InFrames(s, o) \cup (IF o = op THEN {c} ELSE {})
    BY <1>1, <1>2
<1> QED
    BY <1>2, <1>3 DEF t, f

\* as_event_command_execute_in_loop: the command is refused, or starts, or a drain of the
\* delay queue goes before it.
LEMMA ExecuteInLoopInv ==
    ASSUME Inv, NEW c \in Cmd, NEW lp, NEW base, From(c, lp, base), lp.pending = loop.pending,
           cmd[c].state \in {"REGISTERED", "ISSUED"}, ExecuteInLoop(c, lp, base)
    PROVE  Inv'
<1> DEFINE cm == Stopped(cmd[c])
<1>1. /\ Waits(cmd[c]) /\ cmd[c].state \notin Started /\ cmd[c] \in Command /\ loop \in Loops /\ faults \in Nat
      /\ pool = [pool EXCEPT ![ClusterOf[c]] = PoolOf(c)]
    BY WaitsIs, Facts, Zenon
<1>2. /\ lp \in Loops /\ Base(base) /\ LoopOK(lp, base) /\ c \notin Range(lp.queue) /\ c \notin Range(lp.delay)
      /\ c \notin InFrames(base, "admit") /\ c \notin InFrames(base, "free")
    BY DEF From
<1>3. cm \in Command
    BY <1>1, Updates, Zenon DEF Stopped
<1>4. /\ cm.state = cmd[c].state /\ cm.timer = "none" /\ cm.conn = cmd[c].conn /\ cm.result = cmd[c].result
      /\ cm.sent = cmd[c].sent /\ cm.copies = cmd[c].copies /\ cm.iteration = cmd[c].iteration
    BY <1>1, Zenon DEF Stopped, Command
<1> HIDE DEF cm
<1>5. Waits(cm)
    BY <1>1, <1>4, Zenon DEF Waits
<1>6. CASE PrequeueError(c, cm, lp, base)
    BY <1>3, <1>5, <1>6, PrequeueInv, Zenon
<1>7. ASSUME MaxInProcess = 0, NEW short \in TimerChoice, Start(c, Armed(cm, short), lp, base) PROVE Inv'
  <2> DEFINE q == Armed(cm, short)
  <2>1. q \in Command /\ Waits(q) /\ q.timer # "zero"
      BY <1>3, <1>4, <1>5, ArmedIs, Zenon
  <2> HIDE DEF q
  <2>2. Start(c, q, lp, base)
      BY <1>7 DEF q
  <2>3. MaxInProcess > 0 => lp.pending < MaxInProcess
      BY <1>7
  <2> QED
      BY <2>1, <2>2, <2>3, StartInv, Zenon
<1>8. CASE /\ MaxInProcess > 0
           /\ Becomes(c, cm, [lp EXCEPT !.using = TRUE], PoolOf(c), <<DrainFrame, Frame("admit", c, "none")>> \o base)
           /\ UNCHANGED <<es, faults>>
  <2> DEFINE u == <<Frame("admit", c, "none")>> \o base
  <2>1. /\ Shape(base) /\ InFrames(base, "tell") = {} /\ InFrames(base, "execute") = {}
        /\ base # <<>> => base[1].op # "admit"
      BY <1>2 DEF Base
  <2>2. /\ Shape(u)
        /\ \A o \in Ops : InFrames(u, o) = InFrames(base, o) \cup (IF o = "admit" THEN {c} ELSE {})
      BY <1>2, <2>1, PushOwner, Zenon
  <2>3. stack' = <<DrainFrame>> \o u
    <3>1. base \in Seq(FrameSet) /\ DrainFrame \in FrameSet /\ Frame("admit", c, "none") \in FrameSet
        BY <2>1, Zenon DEF Shape, DrainFrame, Frame, FrameSet, Ops
    <3> QED
        BY <1>8, <3>1 DEF Becomes
  <2>4. InFrames(u, "tell") = {} /\ InFrames(u, "execute") = {}
        /\ InFrames(u, "admit") = InFrames(base, "admit") \cup {c} /\ InFrames(u, "free") = InFrames(base, "free")
    <3> HIDE DEF u
    <3> QED
        BY <2>1, <2>2, Zenon DEF Ops
  <2>5. /\ Shape(stack') /\ stack' # <<>> /\ stack'[1].op = "drain" /\ Drains(stack')
        /\ \A op \in {"tell", "execute", "admit", "free"} : InFrames(stack', op) = InFrames(u, op)
    <3> HIDE DEF u
    <3> QED
        BY <2>2, <2>3, <2>4, PushDrain, Zenon
  <2>6. /\ InFrames(stack', "tell") = {} /\ InFrames(stack', "execute") = {}
        /\ InFrames(stack', "admit") = InFrames(base, "admit") \cup {c}
        /\ InFrames(stack', "free") = InFrames(base, "free")
    <3> HIDE DEF u
    <3> QED
        BY <2>4, <2>5
  <2>7. /\ loop' \in Loops /\ loop'.pending = loop.pending /\ loop'.queue = lp.queue /\ loop'.delay = lp.delay
    <3>1. loop' = [lp EXCEPT !.using = TRUE]
        BY <1>8, Zenon DEF Becomes
    <3> QED
        BY <1>2, <3>1, Zenon DEF Loops
  <2>8. Elsewhere(c)
    <3>1. /\ \A op \in {"execute", "admit", "free", "tell"} : InFrames(base, op) \ {c} = InFrames(stack, op) \ {c}
          /\ Range(lp.queue) \ {c} = Range(loop.queue) \ {c} /\ Range(lp.delay) \ {c} = Range(loop.delay) \ {c}
        BY Zenon DEF From
    <3> QED
        BY <2>1, <2>6, <2>7, <3>1, Zenon DEF Elsewhere
  <2>9. Is(cm, c)
    <3>1. /\ (c \in Range(loop'.queue)) = FALSE /\ (c \in Range(loop'.delay)) = FALSE
          /\ (c \in InFrames(stack', "execute")) = FALSE /\ (c \in InFrames(stack', "admit")) = TRUE
          /\ (c \in InFrames(stack', "free")) = FALSE /\ (c \in InFrames(stack', "tell")) = FALSE
        BY <1>2, <2>6, <2>7, Absent, Present, Zenon
    <3>2. cm.state \in {"REGISTERED", "ISSUED"}
        BY <1>4, Zenon
    <3>3. Placed(cm, FALSE, FALSE, FALSE, TRUE, FALSE, FALSE)
        BY <1>4, <3>2, Zenon DEF Placed, Started, OnSocket
    <3>4. Attached(cm, FALSE)
        BY <1>4, <1>5, <3>2, Zenon DEF Attached, Waits, Early, OnSocket
    <3>5. Sent(cm, FALSE)
        BY <1>5, <3>2, SentNothing, Zenon
    <3> QED
        BY <3>1, <3>3, <3>4, <3>5, Zenon DEF Is
  <2>10. Telling'
      BY <2>5, <2>6, NoTelling
  <2>11. LoopOK(loop', stack')
      BY <1>2, <1>8, <2>5, <2>7 DEF LoopOK
  <2>12. /\ cmd' = [cmd EXCEPT ![c] = cm] /\ UNCHANGED <<es, pool>> /\ faults' \in Nat /\ cm.conn = cmd[c].conn
         /\ (cm.state \in Started <=> cmd[c].state \in Started)
      BY <1>1, <1>4, <1>8 DEF Becomes
  <2> QED
      BY <1>3, <2>5, <2>7, <2>8, <2>9, <2>10, <2>11, <2>12, Moved, Zenon
<1> QED
    BY <1>6, <1>7, <1>8 DEF ExecuteInLoop, cm

=============================================================================
