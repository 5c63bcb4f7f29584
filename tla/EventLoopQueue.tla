--------------------------- MODULE EventLoopQueue ---------------------------
(***************************************************************************)
(* The steps of the queues of EventLoop, the call of a listener and the    *)
(* release of a command keep the invariant of EventLoopInv.                *)
(***************************************************************************)
EXTENDS EventLoopInv

\* A leaf that names no prover is tried with SMT, with Zenon, and with SMT at length.
USE SMT, Zenon, SMTT(20)

-----------------------------------------------------------------------------
(* The queues.                                                              *)

\* No command is twice in a queue.
Once(q) == \A i, j \in DOMAIN q : q[i] = q[j] /\ q[i] \in Cmd => i = j

\* What is left of a queue.
LEMMA Dequeue ==
    ASSUME NEW S, NEW q \in Seq(S), q # <<>>
    PROVE  /\ Head(q) \in S /\ Head(q) \in Range(q) /\ Tail(q) \in Seq(S) /\ Len(Tail(q)) = Len(q) - 1
           /\ Range(Tail(q)) \ {Head(q)} = Range(q) \ {Head(q)}
           /\ Once(q) => Once(Tail(q)) /\ (Head(q) \in Cmd => Head(q) \notin Range(Tail(q)))
<1> DEFINE t == Tail(q)
<1>1. /\ Len(q) \in Nat \ {0} /\ DOMAIN q = 1..Len(q) /\ Head(q) = q[1] /\ t \in Seq(S) /\ Len(t) = Len(q) - 1
      /\ DOMAIN t = 1..(Len(q) - 1) /\ \A i \in 1..(Len(q) - 1) : t[i] = q[i + 1]
    OBVIOUS
<1>2. q[1] \in S /\ q[1] \in Range(q)
    BY <1>1 DEF Range
<1>3. \A x : x \in Range(q) <=> x = q[1] \/ x \in Range(t)
  <2> SUFFICES ASSUME NEW x PROVE x \in Range(q) <=> x = q[1] \/ x \in Range(t)
      OBVIOUS
  <2>1. ASSUME NEW i \in DOMAIN q, x = q[i], i # 1 PROVE x \in Range(t)
    <3>1. i - 1 \in DOMAIN t /\ t[i - 1] = q[i]
        BY <1>1, <2>1
    <3> QED
        BY <2>1, <3>1 DEF Range
  <2>2. ASSUME NEW i \in DOMAIN t, x = t[i] PROVE x \in Range(q)
    <3>1. i + 1 \in DOMAIN q /\ t[i] = q[i + 1]
        BY <1>1
    <3> QED
        BY <2>2, <3>1 DEF Range
  <2> QED
      BY <1>2, <2>1, <2>2 DEF Range
<1>4. ASSUME Once(q) PROVE Once(t) /\ (q[1] \in Cmd => q[1] \notin Range(t))
  <2>1. ASSUME NEW i \in DOMAIN t, NEW j \in DOMAIN t, t[i] = t[j], t[i] \in Cmd PROVE i = j
    <3>1. i + 1 \in DOMAIN q /\ j + 1 \in DOMAIN q /\ q[i + 1] = q[j + 1] /\ q[i + 1] \in Cmd
        BY <1>1, <2>1
    <3>2. i + 1 = j + 1
        BY <1>4, <3>1 DEF Once
    <3> QED
        BY <1>1, <3>2
  <2>2. ASSUME NEW i \in DOMAIN t, t[i] = q[1], q[1] \in Cmd PROVE FALSE
    <3>1. i + 1 \in DOMAIN q /\ 1 \in DOMAIN q /\ q[i + 1] = q[1] /\ i + 1 # 1
        BY <1>1, <2>2
    <3> QED
        BY <1>4, <2>2, <3>1 DEF Once
  <2> QED
      BY <2>1, <2>2 DEF Once, Range
<1> QED
    BY <1>1, <1>2, <1>3, <1>4

\* An entry more.
LEMMA Enqueue ==
    ASSUME NEW S, NEW q \in Seq(S), NEW x \in S
    PROVE  /\ Append(q, x) \in Seq(S) /\ Len(Append(q, x)) = Len(q) + 1
           /\ Range(Append(q, x)) = Range(q) \cup {x}
           /\ Once(q) /\ (x \notin Cmd \/ x \notin Range(q)) => Once(Append(q, x))
<1> DEFINE t == Append(q, x)
<1>1. /\ Len(q) \in Nat /\ DOMAIN q = 1..Len(q) /\ t \in Seq(S) /\ Len(t) = Len(q) + 1
      /\ DOMAIN t = 1..(Len(q) + 1) /\ t[Len(q) + 1] = x
      /\ \A i \in 1..(Len(q) + 1) : i # Len(q) + 1 => t[i] = q[i] /\ i \in 1..Len(q)
      /\ \A i \in 1..Len(q) : t[i] = q[i] /\ i \in 1..(Len(q) + 1)
    OBVIOUS
<1> HIDE DEF t
<1>2. Range(t) = Range(q) \cup {x}
  <2>1. \A y : y \in Range(t) <=> y \in Range(q) \/ y = x
    <3> SUFFICES ASSUME NEW y PROVE y \in Range(t) <=> y \in Range(q) \/ y = x
        OBVIOUS
    <3>1. ASSUME NEW i \in DOMAIN t, y = t[i], i # Len(q) + 1 PROVE y \in Range(q)
        BY <1>1, <3>1 DEF Range
    <3>2. ASSUME NEW i \in DOMAIN q, y = q[i] PROVE y \in Range(t)
        BY <1>1, <3>2 DEF Range
    <3>3. Len(q) + 1 \in DOMAIN t
        BY <1>1
    <3>4. x \in Range(t)
        BY <1>1, <3>3 DEF Range
    <3> QED
        BY <1>1, <3>1, <3>2, <3>4 DEF Range
  <2> QED
      BY <2>1
<1>3. ASSUME Once(q), x \notin Cmd \/ x \notin Range(q) PROVE Once(t)
  <2> SUFFICES ASSUME NEW i \in DOMAIN t, NEW j \in DOMAIN t, t[i] = t[j], t[i] \in Cmd PROVE i = j
      BY DEF Once
  <2>1. CASE i # Len(q) + 1 /\ j # Len(q) + 1
      BY <1>1, <1>3, <2>1 DEF Once
  <2>2. ASSUME i = Len(q) + 1, j # Len(q) + 1 PROVE FALSE
    <3>1. t[j] = q[j] /\ j \in DOMAIN q /\ t[i] = x
        BY <1>1, <2>2
    <3> QED
        BY <1>3, <3>1, Zenon DEF Range
  <2>3. ASSUME j = Len(q) + 1, i # Len(q) + 1 PROVE FALSE
    <3>1. t[i] = q[i] /\ i \in DOMAIN q /\ t[j] = x
        BY <1>1, <2>3
    <3> QED
        BY <1>3, <3>1, Zenon DEF Range
  <2> QED
      BY <2>1, <2>2, <2>3
<1> QED
    BY <1>1, <1>2, <1>3 DEF t

\* The delay queue holds commands only.
LEMMA Injective ==
    ASSUME NEW q \in Seq(Cmd)
    PROVE  IsInjective(q) <=> Once(q)
<1>1. \A i \in DOMAIN q : q[i] \in Cmd
    OBVIOUS
<1> QED
    BY <1>1 DEF IsInjective, Once

\* The loop takes a command from its queue.
LEMMA WakeupInv ==
    ASSUME Inv, Wakeup
    PROVE  Inv'
<1> DEFINE c == Head(loop.queue)
           lp == [loop EXCEPT !.queue = Tail(@)]
<1>1. Idle /\ loop.queue # <<>> /\ c \in Cmd /\ ExecuteInLoop(c, lp, <<>>)
    BY DEF Wakeup
<1>2. /\ loop \in Loops /\ LoopOK(loop, stack) /\ loop.queue \in Seq(Cmd \cup Cluster)
      /\ Placed(cmd[c], c \in Range(loop.queue), c \in Range(loop.delay), c \in InFrames(stack, "execute"),
                c \in InFrames(stack, "admit"), c \in InFrames(stack, "free"), c \in InFrames(stack, "tell"))
    BY <1>1, Facts DEF Loops
<1>3. /\ c \in Range(loop.queue) /\ Tail(loop.queue) \in Seq(Cmd \cup Cluster)
      /\ Range(Tail(loop.queue)) \ {c} = Range(loop.queue) \ {c}
      /\ Once(loop.queue) => Once(Tail(loop.queue)) /\ c \notin Range(Tail(loop.queue))
    BY <1>1, <1>2, Dequeue, Zenon
<1>4. cmd[c].state = "REGISTERED" /\ c \notin Range(loop.delay)
    BY <1>2, <1>3 DEF Placed
<1>5. /\ lp \in Loops /\ lp.pending = loop.pending /\ lp.queue = Tail(loop.queue) /\ lp.delay = loop.delay
      /\ lp.using = loop.using
    BY <1>2, <1>3, Zenon DEF Loops
<1> HIDE DEF c, lp
<1>6. LoopOK(lp, <<>>) /\ c \notin Range(lp.queue)
  <2>1. Once(loop.queue)
      BY <1>2 DEF LoopOK, Once
  <2>2. Once(lp.queue) /\ c \notin Range(lp.queue)
      BY <1>3, <1>5, <2>1
  <2>3. LoopOK(loop, <<>>)
      BY <1>1, <1>2 DEF Idle
  <2> QED
      BY <1>5, <2>2, <2>3 DEF LoopOK, Goes, Once
<1>7. From(c, lp, <<>>)
  <2>1. \A op \in {"execute", "admit", "free", "tell"} : InFrames(<<>>, op) = {} /\ InFrames(stack, op) = {}
      BY <1>1 DEF InFrames, Idle
  <2> QED
      BY <1>3, <1>4, <1>5, <1>6, <2>1, EmptyBase DEF From
<1> QED
    BY <1>1, <1>4, <1>5, <1>7, ExecuteInLoopInv

\* A command that was registered with a timer starts.
LEMMA ScheduledStartInv ==
    ASSUME Inv, NEW c \in Cmd, ScheduledStart(c)
    PROVE  Inv'
<1>1. Idle /\ cmd[c].timer = "zero" /\ cmd[c].state = "REGISTERED" /\ ExecuteInLoop(c, loop, <<>>)
    BY DEF ScheduledStart
<1>2. /\ loop \in Loops /\ LoopOK(loop, <<>>)
      /\ Placed(cmd[c], c \in Range(loop.queue), c \in Range(loop.delay), c \in InFrames(stack, "execute"),
                c \in InFrames(stack, "admit"), c \in InFrames(stack, "free"), c \in InFrames(stack, "tell"))
    BY <1>1, Facts DEF Idle
<1>3. c \notin Range(loop.queue) /\ c \notin Range(loop.delay)
    BY <1>1, <1>2 DEF Placed
<1>4. From(c, loop, <<>>)
  <2>1. \A op \in {"execute", "admit", "free", "tell"} : InFrames(<<>>, op) = {} /\ InFrames(stack, op) = {}
      BY <1>1 DEF InFrames, Idle
  <2> QED
      BY <1>2, <1>3, <2>1, EmptyBase DEF From
<1> QED
    BY <1>1, <1>4, ExecuteInLoopInv

\* The loop and the stack under a frame that admits or executes a command.
LEMMA FromFrame ==
    ASSUME Inv, NEW op \in {"admit", "execute"}, Running(op), NEW c, c = stack[1].c
    PROVE  /\ c \in Cmd /\ cmd[c].state \in {"REGISTERED", "ISSUED"} /\ From(c, loop, Tail(stack))
           /\ op = "admit" => cmd[c].timer = "none" /\ ~Goes(loop) /\ MaxInProcess > 0
<1>1. loop \in Loops /\ Shape(stack) /\ LoopOK(loop, stack) /\ stack # <<>> /\ stack[1].op = op
    BY DEF Inv, Types, Delays, Running
<1>2. c \in Cmd /\ c \in InFrames(stack, op)
    BY <1>1, Top
<1>3. /\ Shape(Tail(stack))
      /\ InFrames(Tail(stack), "tell") = {} /\ InFrames(Tail(stack), "execute") = {}
      /\ InFrames(Tail(stack), "admit") = InFrames(stack, "admit") \ (IF op = "admit" THEN {c} ELSE {})
      /\ InFrames(Tail(stack), "free") = InFrames(stack, "free")
      /\ Base(Tail(stack)) /\ InFrames(Tail(stack), "drain") = InFrames(stack, "drain")
    BY <1>1, Popped, ZenonT(30)
<1>4. Placed(cmd[c], c \in Range(loop.queue), c \in Range(loop.delay), c \in InFrames(stack, "execute"),
             c \in InFrames(stack, "admit"), c \in InFrames(stack, "free"), c \in InFrames(stack, "tell"))
    BY <1>2, Facts
<1>5. /\ cmd[c].state \in {"REGISTERED", "ISSUED"} /\ c \notin Range(loop.delay) /\ c \notin InFrames(stack, "free")
      /\ op = "admit" => cmd[c].timer = "none" /\ c \notin Range(loop.queue)
      /\ op = "execute" => cmd[c].state = "ISSUED"
    BY <1>2, <1>4 DEF Placed, Started, OnSocket
<1>6. c \notin Range(loop.queue)
    BY <1>4, <1>5 DEF Placed
<1>7. InFrames(stack, "tell") = {} /\ (op = "admit" => InFrames(stack, "execute") = {})
      /\ (op = "execute" => InFrames(stack, "execute") = {c} /\ c \notin InFrames(stack, "admit"))
  <2>1. \A i \in DOMAIN stack : stack[i].op \in {"tell", "execute"} => i = 1
      BY <1>1 DEF Shape
  <2>2. InFrames(stack, "tell") = {} /\ (op = "admit" => InFrames(stack, "execute") = {})
      BY <1>1, <2>1 DEF InFrames
  <2>3. op = "execute" => InFrames(stack, "execute") = {c}
      BY <1>1, <1>2, <2>1 DEF InFrames
  <2>4. ASSUME op = "execute", c \in InFrames(stack, "admit") PROVE FALSE
    <3>1. PICK i \in DOMAIN stack : stack[i].op = "admit" /\ stack[i].c = c
        BY <2>4 DEF InFrames
    <3>2. 1 \in DOMAIN stack
        BY <1>1 DEF Shape
    <3> QED
        BY <1>1, <2>4, <3>1, <3>2 DEF Shape, Owner
  <2> QED
      BY <2>2, <2>3, <2>4
<1>8. c \notin InFrames(Tail(stack), "admit") /\ c \notin InFrames(Tail(stack), "free")
    BY <1>3, <1>5, <1>7
<1>9. op = "admit" => ~Goes(loop) /\ MaxInProcess > 0
    BY <1>1, <1>2, Constants DEF LoopOK
<1>10. LoopOK(loop, Tail(stack))
  <2>1. Tail(stack) # <<>> => Tail(stack)[1].op # "admit"
      BY <1>3 DEF Base
  <2>2. Drains(Tail(stack)) <=> Drains(stack)
      BY <1>3 DEF Drains
  <2>3. InFrames(stack, "admit") = {} => InFrames(Tail(stack), "admit") = {}
      BY <1>3
  <2> QED
      BY <1>1, <2>1, <2>2, <2>3 DEF LoopOK
<1>11. \A o \in {"execute", "admit", "free", "tell"} : InFrames(Tail(stack), o) \ {c} = InFrames(stack, o) \ {c}
    BY <1>3, <1>7
<1>12. From(c, loop, Tail(stack))
    BY <1>1, <1>3, <1>5, <1>6, <1>8, <1>10, <1>11 DEF From
<1> QED
    BY <1>2, <1>5, <1>9, <1>12

\* A command that a listener issued is executed at once.
LEMMA ExecuteInv ==
    ASSUME Inv, Execute
    PROVE  Inv'
<1> DEFINE c == stack[1].c
<1>1. Running("execute") /\ ExecuteInLoop(c, loop, Tail(stack))
    BY DEF Execute
<1>2. c \in Cmd /\ cmd[c].state \in {"REGISTERED", "ISSUED"} /\ From(c, loop, Tail(stack))
    BY <1>1, FromFrame
<1> QED
    BY <1>1, <1>2, ExecuteInLoopInv

\* A command joins the delay queue.
LEMMA DelayedInv ==
    ASSUME Inv, Running("admit"), NEW c, c = stack[1].c, MustWait, ~Full(loop.delay),
           Becomes(c, Armed([cmd[c] EXCEPT !.state = "DELAY_QUEUE"], FALSE),
                   [loop EXCEPT !.delay = Append(@, c)], PoolOf(c), Tail(stack)),
           UNCHANGED <<es, faults>>
    PROVE  Inv'
<1> DEFINE a == [cmd[c] EXCEPT !.state = "DELAY_QUEUE"]
           cm == Armed(a, FALSE)
<1>1. /\ c \in Cmd /\ cmd[c].state \in {"REGISTERED", "ISSUED"} /\ From(c, loop, Tail(stack))
      /\ cmd[c].timer = "none" /\ MaxInProcess > 0
    BY FromFrame
<1>2. /\ Waits(cmd[c]) /\ cmd[c].state \notin Started /\ cmd[c] \in Command /\ loop \in Loops /\ faults \in Nat
      /\ pool = [pool EXCEPT ![ClusterOf[c]] = PoolOf(c)]
    BY <1>1, WaitsIs, Facts
<1>3. a \in Command
    BY <1>2, Updates, Zenon DEF States, Early
<1>4. a.timer = "none" /\ a.state = "DELAY_QUEUE" /\ Waits(a)
    BY <1>1, <1>2 DEF Waits, Command
<1> HIDE DEF a
<1>5. cm = (IF TotalTimeout THEN [a EXCEPT !.timer = "once"] ELSE a)
    BY DEF Armed
<1>6. cm \in Command /\ Waits(cm) /\ cm.state = "DELAY_QUEUE"
    BY <1>3, <1>4, ArmedIs, Zenon
<1>7. cm.timer \in {"none", "once"}
    BY <1>3, <1>4, <1>5, Zenon DEF Command
<1> HIDE DEF cm
<1>8. /\ LoopOK(loop, Tail(stack)) /\ Base(Tail(stack)) /\ Shape(Tail(stack))
      /\ c \notin Range(loop.queue) /\ c \notin Range(loop.delay)
      /\ c \notin InFrames(Tail(stack), "admit") /\ c \notin InFrames(Tail(stack), "free")
      /\ InFrames(Tail(stack), "tell") = {} /\ InFrames(Tail(stack), "execute") = {}
      /\ \A op \in {"execute", "admit", "free", "tell"} : InFrames(Tail(stack), op) \ {c} = InFrames(stack, op) \ {c}
    BY <1>1 DEF From, Base
<1>9. /\ cmd' = [cmd EXCEPT ![c] = cm] /\ loop' = [loop EXCEPT !.delay = Append(@, c)] /\ stack' = Tail(stack)
      /\ pool' = pool
    BY <1>2 DEF Becomes, cm, a
<1>10. /\ loop.delay \in Seq(Cmd) /\ Append(loop.delay, c) \in Seq(Cmd) /\ Len(Append(loop.delay, c)) = Len(loop.delay) + 1
       /\ Range(Append(loop.delay, c)) = Range(loop.delay) \cup {c}
       /\ Once(loop.delay) => Once(Append(loop.delay, c))
  <2>1. loop.delay \in Seq(Cmd)
      BY <1>2 DEF Loops
  <2> QED
      BY <2>1, <1>1, <1>8, Enqueue
<1>11. /\ loop' \in Loops /\ loop'.pending = loop.pending /\ loop'.queue = loop.queue
       /\ loop'.delay = Append(loop.delay, c) /\ loop'.using = loop.using
    BY <1>2, <1>9, <1>10, Zenon DEF Loops
<1>12. Elsewhere(c)
    BY <1>8, <1>9, <1>10, <1>11 DEF Elsewhere
<1>13. Is(cm, c)
  <2>1. /\ (c \in Range(loop'.queue)) = FALSE /\ (c \in Range(loop'.delay)) = TRUE
        /\ (c \in InFrames(stack', "execute")) = FALSE /\ (c \in InFrames(stack', "admit")) = FALSE
        /\ (c \in InFrames(stack', "free")) = FALSE /\ (c \in InFrames(stack', "tell")) = FALSE
    <3>1. c \in Range(loop'.delay) /\ c \notin Range(loop'.queue)
        BY <1>8, <1>10, <1>11
    <3> QED
        BY <1>8, <1>9, <3>1
  <2>2. Placed(cm, FALSE, TRUE, FALSE, FALSE, FALSE, FALSE)
      BY <1>6 DEF Placed, Started, OnSocket
  <2>3. Attached(cm, FALSE)
      BY <1>6, <1>7 DEF Attached, Waits, Early, OnSocket
  <2>4. Sent(cm, FALSE)
      BY <1>6, Constants DEF Sent, Waits, Early, Started, OnSocket
  <2> QED
      BY <2>1, <2>2, <2>3, <2>4, Zenon DEF Is
<1>14. Telling'
    BY <1>8, <1>9, NoTelling, Zenon
<1>15. LoopOK(loop', stack')
  <2>1. IsInjective(loop'.delay)
      BY <1>8, <1>10, <1>11, Injective, Zenon DEF LoopOK
  <2>2. MaxInQueue > 0 => Len(loop'.delay) <= MaxInQueue
    <3>1. Len(loop.delay) \in Nat
        BY <1>10
    <3> QED
        BY <1>10, <1>11, <3>1, Constants DEF Full
  <2>3. ~Goes(loop')
      BY <1>2, <1>11, Constants DEF Goes, MustWait, Loops
  <2> QED
      BY <1>1, <1>8, <1>9, <1>11, <2>1, <2>2, <2>3 DEF LoopOK
<1>16. cm.conn = cmd[c].conn /\ cm.state \notin Started /\ faults' \in Nat
    BY <1>2, <1>6 DEF Waits, Started, OnSocket
<1> QED
    BY <1>1, <1>2, <1>6, <1>8, <1>9, <1>11, <1>12, <1>13, <1>14, <1>15, <1>16, Moved, Zenon

\* A command is admitted, delayed or refused (as_event_command_execute_in_loop).
LEMMA AdmitInv ==
    ASSUME Inv, Admit
    PROVE  Inv'
<1> DEFINE c == stack[1].c
<1>1. Running("admit")
    BY DEF Admit
<1>2. /\ c \in Cmd /\ cmd[c].state \in {"REGISTERED", "ISSUED"} /\ From(c, loop, Tail(stack))
      /\ cmd[c].timer = "none"
    BY <1>1, FromFrame, Zenon
<1>3. Waits(cmd[c]) /\ cmd[c] \in Command /\ loop \in Loops
    BY <1>2, WaitsIs, Facts
<1>4. CASE PrequeueError(c, cmd[c], loop, Tail(stack))
    BY <1>2, <1>3, <1>4, PrequeueInv
<1>5. CASE /\ MustWait /\ ~Full(loop.delay)
           /\ Becomes(c, Armed([cmd[c] EXCEPT !.state = "DELAY_QUEUE"], FALSE),
                      [loop EXCEPT !.delay = Append(@, c)], PoolOf(c), Tail(stack))
           /\ UNCHANGED <<es, faults>>
    BY <1>1, <1>5, DelayedInv, Zenon
<1>6. ASSUME ~MustWait, NEW short \in TimerChoice, Start(c, Armed(cmd[c], short), loop, Tail(stack)) PROVE Inv'
  <2> DEFINE q == Armed(cmd[c], short)
  <2>1. q \in Command /\ Waits(q) /\ q.timer # "zero"
      BY <1>2, <1>3, ArmedIs
  <2> HIDE DEF q
  <2>2. Start(c, q, loop, Tail(stack))
      BY <1>6 DEF q
  <2>3. loop.pending < MaxInProcess
      BY <1>3, <1>6, Constants DEF MustWait, Loops
  <2> QED
      BY <1>2, <2>1, <2>2, <2>3, StartInv
<1> QED
    BY <1>4, <1>5, <1>6, Zenon DEF Admit

\* The delay queue is drained by one command (as_event_execute_from_delay_queue).
LEMMA DrainInv ==
    ASSUME Inv, Drain
    PROVE  Inv'
<1>1. /\ loop \in Loops /\ Shape(stack) /\ LoopOK(loop, stack) /\ stack # <<>> /\ stack[1].op = "drain"
      /\ loop.delay \in Seq(Cmd) /\ loop.pending \in Nat /\ faults \in Nat
    BY DEF Inv, Types, Delays, Drain, Running, Loops
<1>2. InFrames(stack, "tell") = {} /\ InFrames(stack, "execute") = {} /\ Base(stack)
  <2>1. \A i \in DOMAIN stack : stack[i].op \in {"tell", "execute"} => i = 1
      BY <1>1 DEF Shape
  <2>2. InFrames(stack, "tell") = {} /\ InFrames(stack, "execute") = {}
      BY <1>1, <2>1 DEF InFrames
  <2> QED
      BY <1>1, <2>2 DEF Base
<1>3. CASE DrainGoesOn
  <2> DEFINE c == Head(loop.delay)
             lp == [loop EXCEPT !.delay = Tail(@)]
  <2>1. loop.pending < MaxInProcess /\ loop.delay # <<>> /\ MaxInProcess > 0
      BY <1>1, <1>3, Constants DEF DrainGoesOn
  <2>2. /\ c \in Cmd /\ c \in Range(loop.delay) /\ Tail(loop.delay) \in Seq(Cmd)
        /\ Len(Tail(loop.delay)) = Len(loop.delay) - 1
        /\ Range(Tail(loop.delay)) \ {c} = Range(loop.delay) \ {c}
        /\ Once(loop.delay) => Once(Tail(loop.delay)) /\ c \notin Range(Tail(loop.delay))
      BY <1>1, <2>1, Dequeue
  <2>3. Once(Tail(loop.delay)) /\ c \notin Range(Tail(loop.delay)) /\ IsInjective(Tail(loop.delay))
      BY <1>1, <2>2, Injective, Zenon DEF LoopOK
  <2>4. /\ lp \in Loops /\ lp.pending = loop.pending /\ lp.queue = loop.queue /\ lp.delay = Tail(loop.delay)
        /\ lp.using = loop.using
      BY <1>1, <2>2, Zenon DEF Loops
  <2>5. /\ cmd[c] \in Command /\ pool = [pool EXCEPT ![ClusterOf[c]] = PoolOf(c)] /\ cmd \in [Cmd -> Command]
        /\ Placed(cmd[c], c \in Range(loop.queue), c \in Range(loop.delay), c \in InFrames(stack, "execute"),
                  c \in InFrames(stack, "admit"), c \in InFrames(stack, "free"), c \in InFrames(stack, "tell"))
        /\ Attached(cmd[c], c \in InFrames(stack, "free")) /\ Sent(cmd[c], c \in InFrames(stack, "free"))
      BY <2>2, Facts
  <2>6. CASE cmd[c].state = "QUEUE_ERROR"
           /\ Becomes(c, cmd[c], lp, PoolOf(c), <<Frame("free", c, "none")>> \o stack) /\ UNCHANGED <<es, faults>>
    <3>1. /\ cmd' = [cmd EXCEPT ![c] = cmd[c]] /\ loop' = lp /\ pool' = pool
          /\ stack' = <<Frame("free", c, "none")>> \o stack
        BY <2>5, <2>6 DEF Becomes
    <3>2. /\ c \notin Range(loop.queue) /\ c \notin InFrames(stack, "admit") /\ c \notin InFrames(stack, "free")
          /\ Len(cmd[c].result) = 1 /\ cmd[c].timer = "none" /\ cmd[c].conn = "null"
      <4>1. c \notin Range(loop.queue) /\ c \notin InFrames(stack, "admit") /\ c \notin InFrames(stack, "free")
          BY <2>2, <2>5, <2>6, Zenon DEF Placed
      <4>2. Len(cmd[c].result) = 1
          BY <1>2, <2>5, <2>6, Zenon DEF Placed
      <4>3. cmd[c].timer = "none" /\ cmd[c].conn = "null"
          BY <2>5, <2>6 DEF Attached
      <4> QED
          BY <4>1, <4>2, <4>3, Zenon
    <3>3. /\ Shape(stack') /\ stack' # <<>> /\ stack'[1] = Frame("free", c, "none")
          /\ \A o \in Ops : InFrames(stack', o) = InFrames(stack, o) \cup (IF o = "free" THEN {c} ELSE {})
      <4>1. stack # <<>> => stack[1].op # "admit"
          BY <1>1
      <4> HIDE DEF c, lp
      <4> DEFINE t == <<Frame("free", c, "none")>> \o stack
      <4>2. Shape(stack) /\ c \in Cmd /\ c \notin InFrames(stack, "admit") /\ c \notin InFrames(stack, "free")
          BY <1>1, <2>2, <3>2
      <4>3. /\ Shape(t) /\ t # <<>> /\ t[1] = Frame("free", c, "none")
            /\ \A o \in Ops : InFrames(t, o) = InFrames(stack, o) \cup (IF o = "free" THEN {c} ELSE {})
          BY <1>2, <4>1, <4>2, PushOwner, Zenon
      <4> HIDE DEF t
      <4> QED
          BY <3>1, <4>3 DEF t
    <3>4. /\ InFrames(stack', "tell") = {} /\ InFrames(stack', "execute") = {}
          /\ InFrames(stack', "admit") = InFrames(stack, "admit") /\ InFrames(stack', "drain") = InFrames(stack, "drain")
          /\ InFrames(stack', "free") = InFrames(stack, "free") \cup {c} /\ stack'[1].op = "free"
        BY <1>2, <3>3 DEF Ops, Frame
    <3> HIDE DEF c, lp
    <3>5. Elsewhere(c)
        BY <1>2, <2>2, <2>4, <3>1, <3>4 DEF Elsewhere
    <3>6. Is(cmd[c], c)
      <4>1. /\ (c \in Range(loop'.queue)) = FALSE /\ (c \in Range(loop'.delay)) = FALSE
            /\ (c \in InFrames(stack', "execute")) = FALSE /\ (c \in InFrames(stack', "admit")) = FALSE
            /\ (c \in InFrames(stack', "free")) = TRUE /\ (c \in InFrames(stack', "tell")) = FALSE
          BY <2>3, <2>4, <3>1, <3>2, <3>4, Absent, Present, Zenon
      <4>2. Placed(cmd[c], FALSE, FALSE, FALSE, FALSE, TRUE, FALSE)
          BY <2>6, <3>2 DEF Placed, Started, OnSocket
      <4>3. Attached(cmd[c], TRUE)
          BY <2>6, <3>2, Zenon DEF Attached, Early, OnSocket
      <4>4. Sent(cmd[c], TRUE)
          BY <2>5, <2>6 DEF Sent, Started, OnSocket
      <4> QED
          BY <4>1, <4>2, <4>3, <4>4, Zenon DEF Is
    <3>7. Telling'
        BY <3>3, <3>4, NoTelling
    <3>8. LoopOK(loop', stack')
      <4>1. Drains(stack')
        <5>1. Drains(stack)
          <6>1. "drain" \in Ops /\ stack[1].c \in InFrames(stack, "drain")
              BY <1>1, Top DEF Ops
          <6> QED
              BY <6>1 DEF Drains
        <5> QED
            BY <3>4, <5>1 DEF Drains
      <4>2. MaxInQueue > 0 => Len(loop'.delay) <= MaxInQueue
        <5>1. Len(loop.delay) \in Nat
            BY <1>1
        <5>2. MaxInQueue > 0 => Len(lp.delay) <= MaxInQueue
            BY <1>1, <2>2, <2>4, <5>1, Constants DEF LoopOK
        <5> QED
            BY <3>1, <5>2
      <4> QED
          BY <1>1, <2>1, <2>3, <2>4, <3>1, <3>4, <4>1, <4>2, ZenonT(30) DEF LoopOK
    <3> QED
        BY <1>1, <2>2, <2>4, <2>5, <2>6, <3>1, <3>3, <3>5, <3>6, <3>7, <3>8, Moved, Zenon
  <2>7. ASSUME cmd[c].state # "QUEUE_ERROR", NEW short \in TimerChoice,
               Start(c, IF short THEN Armed(cmd[c], TRUE) ELSE cmd[c], lp, stack)
        PROVE  Inv'
    <3> DEFINE q == IF short THEN Armed(cmd[c], TRUE) ELSE cmd[c]
    <3>1. /\ cmd[c].state = "DELAY_QUEUE" /\ c \notin Range(loop.queue) /\ c \notin InFrames(stack, "admit")
          /\ c \notin InFrames(stack, "free")
        BY <2>2, <2>5, <2>7 DEF Placed, Started, OnSocket
    <3>2. Waits(cmd[c]) /\ cmd[c].timer # "zero"
      <4>1. Waits(cmd[c])
          BY <2>2, <3>1, WaitsIs, Zenon
      <4>2. cmd[c].timer # "zero"
          BY <2>5, <3>1 DEF Attached
      <4> QED
          BY <4>1, <4>2
    <3>3. q \in Command /\ Waits(q) /\ q.timer # "zero"
        BY <2>5, <3>2, ArmedIs, Zenon
    <3>4. Start(c, q, lp, stack)
        BY <2>7, Zenon
    <3> HIDE DEF c, lp, q
    <3>5. LoopOK(lp, stack)
      <4>1. MaxInQueue > 0 => Len(lp.delay) <= MaxInQueue
        <5>1. Len(loop.delay) \in Nat
            BY <1>1
        <5> QED
            BY <1>1, <2>2, <2>4, <5>1, Constants DEF LoopOK
      <4>2. Drains(stack)
          BY <1>1, <1>3 DEF LoopOK, Goes, DrainGoesOn
      <4> QED
          BY <1>1, <2>1, <2>3, <2>4, <4>1, <4>2, Zenon DEF LoopOK
    <3>6. From(c, lp, stack)
        BY <1>2, <2>2, <2>3, <2>4, <3>1, <3>5, Zenon DEF From
    <3>7. MaxInProcess > 0 => lp.pending < MaxInProcess
        BY <2>1, <2>4
    <3> QED
        BY <2>2, <2>4, <3>1, <3>3, <3>4, <3>6, <3>7, StartInv, Zenon
  <2> QED
      BY <1>3, <2>6, <2>7, Zenon DEF Drain
<1>4. CASE /\ ~DrainGoesOn /\ loop' = [loop EXCEPT !.using = FALSE] /\ stack' = Tail(stack)
           /\ UNCHANGED <<cmd, es, pool, faults>>
  <2>1. /\ Shape(stack')
        /\ InFrames(stack', "tell") = {} /\ InFrames(stack', "execute") = {}
        /\ InFrames(stack', "admit") = InFrames(stack, "admit") /\ InFrames(stack', "free") = InFrames(stack, "free")
      BY <1>1, <1>4, Popped, ZenonT(30)
  <2>2. /\ loop' \in Loops /\ loop'.pending = loop.pending /\ loop'.queue = loop.queue /\ loop'.delay = loop.delay
        /\ loop'.using = FALSE
      BY <1>1, <1>4, Zenon DEF Loops
  <2>3. \A op \in {"tell", "execute", "admit", "free"} : InFrames(stack', op) = InFrames(stack, op)
      BY <1>2, <2>1
  <2>4. Commands'
      BY <1>4, <2>2, <2>3 DEF Inv, Commands, Ending
  <2>5. Telling'
      BY <2>1, NoTelling
  <2>6. LoopOK(loop', stack')
    <3>1. MaxInProcess > 0 /\ ~Goes(loop')
      <4>1. stack[1].c \in InFrames(stack, "drain")
          BY <1>1, Top
      <4>2. MaxInProcess > 0
          BY <1>1, <4>1, Constants DEF LoopOK, Drains
      <4> QED
          BY <1>4, <2>2, <4>2 DEF Goes, DrainGoesOn
    <3> QED
        BY <1>1, <2>2, <3>1 DEF LoopOK
  <2>7. Counts' /\ Pools'
      BY <1>4, <2>2 DEF Inv, Counts, Pools, Holding, CommandsIn, InProcess
  <2> QED
      BY <1>4, <2>1, <2>2, <2>4, <2>5, <2>6, <2>7, Zenon DEF Inv, Types, Delays
<1> QED
    BY <1>3, <1>4, Zenon DEF Drain

\* A command that is not yet issued is nowhere.
LEMMA NewIs ==
    ASSUME Inv, NEW c \in Cmd, cmd[c].state = "NEW"
    PROVE  /\ cmd[c].conn = "null" /\ cmd[c].timer = "none" /\ cmd[c].result = <<>> /\ cmd[c].sent = 0
           /\ cmd[c].iteration = 0 /\ cmd[c].copies = 0
           /\ c \notin Range(loop.queue) /\ c \notin Range(loop.delay)
           /\ \A op \in {"execute", "admit", "free", "tell"} : c \notin InFrames(stack, op)
<1>1. /\ cmd[c].copies \in Nat
      /\ Placed(cmd[c], c \in Range(loop.queue), c \in Range(loop.delay), c \in InFrames(stack, "execute"),
                c \in InFrames(stack, "admit"), c \in InFrames(stack, "free"), c \in InFrames(stack, "tell"))
      /\ Attached(cmd[c], c \in InFrames(stack, "free")) /\ Sent(cmd[c], c \in InFrames(stack, "free"))
    BY Facts
<1>2. /\ c \notin Range(loop.queue) /\ c \notin Range(loop.delay) /\ c \notin InFrames(stack, "execute")
      /\ c \notin InFrames(stack, "admit") /\ c \notin InFrames(stack, "free") /\ c \notin InFrames(stack, "tell")
    BY <1>1, Zenon DEF Placed, Started, OnSocket
<1>3. cmd[c].conn = "null" /\ cmd[c].timer = "none" /\ cmd[c].result = <<>>
    BY <1>1, Zenon DEF Attached, Early
<1>4. cmd[c].sent = 0 /\ cmd[c].iteration = 0 /\ cmd[c].copies = 0
    BY <1>1 DEF Sent, Early
<1> QED
    BY <1>2, <1>3, <1>4, Zenon

\* What a listener is about to be told does not change under it.
LEMMA TellingKept ==
    ASSUME Inv, UNCHANGED stack, NEW c \in Cmd, NEW cm, cmd' = [cmd EXCEPT ![c] = cm],
           cm.copies = cmd[c].copies, cm.sent = cmd[c].sent
    PROVE  Telling'
<1> SUFFICES ASSUME Running("tell")
             PROVE  /\ stack[1].code # "none"
                    /\ ~Auth /\ stack[1].code = "server" => cmd'[stack[1].c].copies < cmd'[stack[1].c].sent
    BY DEF Telling, Running
<1>1. Shape(stack) /\ stack # <<>> /\ stack[1].op = "tell" /\ Telling /\ cmd \in [Cmd -> Command]
    BY DEF Inv, Types, Running
<1>2. stack[1].c \in Cmd
    BY <1>1, Top
<1>3. cmd'[stack[1].c].copies = cmd[stack[1].c].copies /\ cmd'[stack[1].c].sent = cmd[stack[1].c].sent
    BY <1>1, <1>2
<1> QED
    BY <1>1, <1>3 DEF Telling

\* The application issues a command.
LEMMA IssueInv ==
    ASSUME Inv, NEW c \in Cmd, Issue(c)
    PROVE  Inv'
<1> DEFINE late == es[ClusterOf[c]].closing
           a == [cmd[c] EXCEPT !.state = "REGISTERED"]
           cm == [a EXCEPT !.late = late]
<1>1. /\ cmd[c].state = "NEW" /\ cmd \in [Cmd -> Command] /\ cmd[c] \in Command /\ loop \in Loops /\ faults \in Nat
      /\ Shape(stack) /\ LoopOK(loop, stack)
    BY Facts DEF Issue, MayIssue
<1>2. /\ cmd[c].conn = "null" /\ cmd[c].timer = "none" /\ cmd[c].result = <<>> /\ cmd[c].sent = 0
      /\ cmd[c].iteration = 0 /\ cmd[c].copies = 0
      /\ c \notin Range(loop.queue) /\ c \notin Range(loop.delay)
      /\ \A op \in {"execute", "admit", "free", "tell"} : c \notin InFrames(stack, op)
    BY <1>1, NewIs
<1>3. cm \in Command
  <2>1. late \in BOOLEAN
      BY Constants DEF Inv, Types, EventStates
  <2>2. a \in Command
      BY <1>1, Updates, Zenon DEF States, Early
  <2> HIDE DEF a, late
  <2> QED
      BY <2>1, <2>2, Updates, Zenon
<1>4. /\ cm.state = "REGISTERED" /\ cm.conn = "null" /\ cm.timer = "none" /\ cm.result = <<>> /\ cm.sent = 0
      /\ cm.iteration = 0 /\ cm.copies = 0
    BY <1>1, <1>2 DEF Command
<1>5. cmd' = [cmd EXCEPT ![c] = cm] /\ loop' = [loop EXCEPT !.queue = Append(@, c)] /\ UNCHANGED <<es, pool, stack, faults>>
    BY <1>1, Zenon DEF Issue
<1> HIDE DEF cm
<1>6. /\ loop.queue \in Seq(Cmd \cup Cluster) /\ Append(loop.queue, c) \in Seq(Cmd \cup Cluster)
      /\ Range(Append(loop.queue, c)) = Range(loop.queue) \cup {c}
      /\ Once(loop.queue) => Once(Append(loop.queue, c))
  <2>1. loop.queue \in Seq(Cmd \cup Cluster) /\ c \in Cmd \cup Cluster
      BY <1>1 DEF Loops
  <2> QED
      BY <1>2, <2>1, Enqueue
<1>7. /\ loop' \in Loops /\ loop'.pending = loop.pending /\ loop'.queue = Append(loop.queue, c)
      /\ loop'.delay = loop.delay /\ loop'.using = loop.using
    BY <1>1, <1>5, <1>6, Zenon DEF Loops
<1>8. Elsewhere(c)
    BY <1>5, <1>6, <1>7 DEF Elsewhere
<1>9. Is(cm, c)
  <2>1. c \in Range(loop'.queue) /\ c \notin Range(loop'.delay)
      BY <1>2, <1>6, <1>7
  <2>2. /\ (c \in Range(loop'.queue)) = TRUE /\ (c \in Range(loop'.delay)) = FALSE
        /\ (c \in InFrames(stack', "execute")) = FALSE /\ (c \in InFrames(stack', "admit")) = FALSE
        /\ (c \in InFrames(stack', "free")) = FALSE /\ (c \in InFrames(stack', "tell")) = FALSE
      BY <1>2, <1>5, <2>1
  <2>3. Placed(cm, TRUE, FALSE, FALSE, FALSE, FALSE, FALSE)
      BY <1>4 DEF Placed, Started, OnSocket
  <2>4. Attached(cm, FALSE)
      BY <1>4 DEF Attached, Early, OnSocket
  <2>5. Sent(cm, FALSE)
      BY <1>4, Constants DEF Sent, Early, Started, OnSocket
  <2> QED
      BY <2>2, <2>3, <2>4, <2>5, Zenon DEF Is
<1>10. Telling'
    BY <1>2, <1>4, <1>5, TellingKept, Zenon
<1>11. LoopOK(loop', stack')
    BY <1>1, <1>5, <1>6, <1>7 DEF LoopOK, Goes, Once
<1>12. cm.conn = cmd[c].conn /\ cm.state \notin Started /\ cmd[c].state \notin Started /\ Shape(stack') /\ faults' \in Nat
    BY <1>1, <1>2, <1>4, <1>5 DEF Started, OnSocket
<1> QED
    BY <1>3, <1>5, <1>7, <1>8, <1>9, <1>10, <1>11, <1>12, Moved, Zenon

\* The queue of the loop refuses a command.
LEMMA IssueFailsInv ==
    ASSUME Inv, NEW c \in Cmd, IssueFails(c)
    PROVE  Inv'
<1> DEFINE cm == [cmd[c] EXCEPT !.state = "REFUSED"]
<1>1. /\ cmd[c].state = "NEW" /\ cmd \in [Cmd -> Command] /\ cmd[c] \in Command /\ loop \in Loops /\ faults \in Nat
      /\ Shape(stack) /\ LoopOK(loop, stack)
    BY Facts DEF IssueFails, MayIssue
<1>2. /\ cmd[c].conn = "null" /\ cmd[c].timer = "none" /\ cmd[c].result = <<>> /\ cmd[c].sent = 0
      /\ cmd[c].iteration = 0 /\ cmd[c].copies = 0
      /\ c \notin Range(loop.queue) /\ c \notin Range(loop.delay)
      /\ \A op \in {"execute", "admit", "free", "tell"} : c \notin InFrames(stack, op)
    BY <1>1, NewIs
<1>3. cm \in Command
    BY <1>1, Updates, Zenon DEF States, Early
<1>4. /\ cm.state = "REFUSED" /\ cm.conn = "null" /\ cm.timer = "none" /\ cm.result = <<>> /\ cm.sent = 0
      /\ cm.iteration = 0 /\ cm.copies = 0
    BY <1>1, <1>2 DEF Command
<1>5. cmd' = [cmd EXCEPT ![c] = cm] /\ loop' = OneMoreError(loop) /\ UNCHANGED <<es, pool, stack>> /\ faults' \in Nat
    BY <1>1 DEF IssueFails, Fault
<1> HIDE DEF cm
<1>6. /\ loop' \in Loops /\ loop'.pending = loop.pending /\ loop'.queue = loop.queue
      /\ loop'.delay = loop.delay /\ loop'.using = loop.using
    BY <1>1, <1>5 DEF OneMoreError, Loops
<1>7. Elsewhere(c)
    BY <1>5, <1>6 DEF Elsewhere
<1>8. Is(cm, c)
  <2>1. /\ (c \in Range(loop'.queue)) = FALSE /\ (c \in Range(loop'.delay)) = FALSE
        /\ (c \in InFrames(stack', "execute")) = FALSE /\ (c \in InFrames(stack', "admit")) = FALSE
        /\ (c \in InFrames(stack', "free")) = FALSE /\ (c \in InFrames(stack', "tell")) = FALSE
      BY <1>2, <1>5, <1>6
  <2>2. Placed(cm, FALSE, FALSE, FALSE, FALSE, FALSE, FALSE)
      BY <1>4 DEF Placed, Started, OnSocket
  <2>3. Attached(cm, FALSE)
      BY <1>4 DEF Attached, Early, OnSocket
  <2>4. Sent(cm, FALSE)
      BY <1>4, Constants DEF Sent, Early, Started, OnSocket
  <2> QED
      BY <2>1, <2>2, <2>3, <2>4, Zenon DEF Is
<1>9. Telling'
    BY <1>2, <1>4, <1>5, TellingKept, Zenon
<1>10. LoopOK(loop', stack')
    BY <1>1, <1>5, <1>6, Zenon DEF LoopOK, Goes
<1>11. cm.conn = cmd[c].conn /\ cm.state \notin Started /\ cmd[c].state \notin Started /\ Shape(stack')
    BY <1>1, <1>2, <1>4, <1>5 DEF Started, OnSocket
<1> QED
    BY <1>3, <1>5, <1>6, <1>7, <1>8, <1>9, <1>10, <1>11, Moved, Zenon

\* The deadline of a command passes.
LEMMA ExpireInv ==
    ASSUME Inv, NEW c \in Cmd, Expire(c)
    PROVE  Inv'
<1> DEFINE cm == [cmd[c] EXCEPT !.expired = TRUE]
<1>1. /\ cmd \in [Cmd -> Command] /\ cmd[c] \in Command /\ loop \in Loops /\ faults \in Nat
      /\ Shape(stack) /\ LoopOK(loop, stack)
      /\ Placed(cmd[c], c \in Range(loop.queue), c \in Range(loop.delay), c \in InFrames(stack, "execute"),
                c \in InFrames(stack, "admit"), c \in InFrames(stack, "free"), c \in InFrames(stack, "tell"))
      /\ Attached(cmd[c], c \in InFrames(stack, "free")) /\ Sent(cmd[c], c \in InFrames(stack, "free"))
    BY Facts
<1>2. cm \in Command
    BY <1>1, Updates, Zenon
<1>3. /\ cm.state = cmd[c].state /\ cm.conn = cmd[c].conn /\ cm.timer = cmd[c].timer /\ cm.result = cmd[c].result
      /\ cm.sent = cmd[c].sent /\ cm.iteration = cmd[c].iteration /\ cm.copies = cmd[c].copies
    BY <1>1 DEF Command
<1>4. cmd' = [cmd EXCEPT ![c] = cm] /\ UNCHANGED <<loop, es, pool, stack, faults>>
    BY <1>1 DEF Expire
<1> HIDE DEF cm
<1>5. Elsewhere(c)
    BY <1>4, Zenon DEF Elsewhere
<1>6. Is(cm, c)
  <2>1. Placed(cm, c \in Range(loop.queue), c \in Range(loop.delay), c \in InFrames(stack, "execute"),
               c \in InFrames(stack, "admit"), c \in InFrames(stack, "free"), c \in InFrames(stack, "tell"))
      BY <1>1, <1>3, Zenon DEF Placed
  <2>2. Attached(cm, c \in InFrames(stack, "free"))
      BY <1>1, <1>3, Zenon DEF Attached
  <2>3. Sent(cm, c \in InFrames(stack, "free"))
      BY <1>1, <1>3, Zenon DEF Sent
  <2> QED
      BY <1>4, <2>1, <2>2, <2>3, Zenon DEF Is
<1>7. Telling'
    BY <1>3, <1>4, TellingKept, Zenon
<1> QED
    BY <1>1, <1>2, <1>3, <1>4, <1>5, <1>6, <1>7, Moved, Zenon

\* A command times out in the delay queue.
LEMMA DelayTimeoutInv ==
    ASSUME Inv, NEW c \in Cmd, DelayTimeout(c)
    PROVE  Inv'
<1> DEFINE a == Stopped(cmd[c])
           cm == [a EXCEPT !.state = "QUEUE_ERROR"]
           f == Frame("tell", c, "client")
<1>1. /\ Idle /\ cmd[c].state = "DELAY_QUEUE" /\ cmd[c] \in Command /\ loop \in Loops /\ faults \in Nat
      /\ LoopOK(loop, stack) /\ pool = [pool EXCEPT ![ClusterOf[c]] = PoolOf(c)]
      /\ Placed(cmd[c], c \in Range(loop.queue), c \in Range(loop.delay), c \in InFrames(stack, "execute"),
                c \in InFrames(stack, "admit"), c \in InFrames(stack, "free"), c \in InFrames(stack, "tell"))
    BY Facts, Zenon DEF DelayTimeout
<1>2. Waits(cmd[c]) /\ cmd[c].state \notin Started
    BY <1>1, WaitsIs, Zenon
<1>3. c \in Range(loop.delay) /\ c \notin Range(loop.queue)
    BY <1>1 DEF Placed
<1>4. cm \in Command
  <2>1. a \in Command
      BY <1>1, Updates, Zenon DEF Stopped
  <2> HIDE DEF a
  <2> QED
      BY <2>1, Updates, Zenon DEF States
<1>5. /\ cm.state = "QUEUE_ERROR" /\ cm.conn = "null" /\ cm.timer = "none" /\ cm.result = <<>> /\ cm.sent = 0
      /\ cm.iteration = 0 /\ cm.copies = 0
    BY <1>1, <1>2 DEF Command, Waits, Stopped
<1>6. /\ cmd' = [cmd EXCEPT ![c] = cm] /\ UNCHANGED <<loop, es, pool, faults>>
      /\ stack' = <<f>>
    BY <1>1 DEF DelayTimeout, Becomes, DelayTimeoutReport
<1>7. f \in FrameSet /\ f.op = "tell" /\ f.c = c /\ f.code = "client" /\ ~Owner(f)
    BY DEF Frame, FrameSet, Ops, Owner
<1> HIDE DEF cm, f
<1>8. \A op \in Ops : InFrames(<<>>, op) = {} /\ InFrames(stack, op) = {}
    BY <1>1 DEF InFrames, Idle
<1>9. /\ Shape(stack') /\ stack'[1] = f /\ stack' # <<>>
      /\ \A op \in Ops : InFrames(stack', op) = (IF f.op = op THEN {f.c} ELSE {})
  <2>1. Shape(<<>>) /\ InFrames(<<>>, "tell") = {} /\ InFrames(<<>>, "execute") = {}
      BY EmptyBase DEF Base
  <2>2. /\ Shape(<<f>> \o <<>>) /\ (<<f>> \o <<>>)[1] = f /\ <<f>> \o <<>> # <<>>
        /\ \A op \in Ops : InFrames(<<f>> \o <<>>, op) = InFrames(<<>>, op) \cup (IF f.op = op THEN {f.c} ELSE {})
      BY <1>7, <2>1, Pushed, Zenon
  <2>3. <<f>> \o <<>> = stack'
      BY <1>6, <1>7
  <2> QED
      BY <1>8, <2>2, <2>3
<1>10. InFrames(stack', "tell") = {c} /\ \A op \in Ops : op # "tell" => InFrames(stack', op) = {}
    BY <1>7, <1>9 DEF Ops
<1>11. Elsewhere(c)
    BY <1>6, <1>8, <1>10 DEF Elsewhere, Ops
<1>12. Is(cm, c)
  <2>1. /\ (c \in Range(loop'.queue)) = FALSE /\ (c \in Range(loop'.delay)) = TRUE
        /\ (c \in InFrames(stack', "execute")) = FALSE /\ (c \in InFrames(stack', "admit")) = FALSE
        /\ (c \in InFrames(stack', "free")) = FALSE /\ (c \in InFrames(stack', "tell")) = TRUE
      BY <1>3, <1>6, <1>10 DEF Ops
  <2>2. Placed(cm, FALSE, TRUE, FALSE, FALSE, FALSE, TRUE)
      BY <1>5 DEF Placed, Started, OnSocket
  <2>3. Attached(cm, FALSE)
      BY <1>5 DEF Attached, Early, OnSocket
  <2>4. Sent(cm, FALSE)
      BY <1>5, Constants DEF Sent, Early, Started, OnSocket
  <2> QED
      BY <2>1, <2>2, <2>3, <2>4, Zenon DEF Is
<1>13. Telling'
    BY <1>7, <1>9, Zenon DEF Telling
<1>14. LoopOK(loop', stack')
  <2>1. ~Drains(stack) /\ ~Drains(stack') /\ InFrames(stack', "admit") = {}
      BY <1>8, <1>10 DEF Drains, Ops
  <2> QED
      BY <1>1, <1>6, <1>7, <1>9, <2>1, Zenon DEF LoopOK
<1>15. cm.conn = cmd[c].conn /\ cm.state \notin Started
    BY <1>2, <1>5 DEF Waits, Started, OnSocket
<1> QED
    BY <1>1, <1>2, <1>4, <1>6, <1>9, <1>11, <1>12, <1>13, <1>14, <1>15, Moved, Zenon

\* A listener is called.
LEMMA ToldIs ==
    ASSUME Inv, Running("tell"), NEW c, c = stack[1].c,
           NEW cm, cm = [cmd[c] EXCEPT !.result = Append(@, ResultOf(c, stack[1].code))]
    PROVE  /\ c \in Cmd /\ cm \in Command /\ cm.conn = cmd[c].conn /\ cm.state = cmd[c].state
           /\ cmd[c].state # "NEW" /\ c \notin Range(loop.queue)
           /\ Placed(cm, FALSE, c \in Range(loop.delay), FALSE, FALSE, c \in InFrames(Tail(stack), "free"), FALSE)
           /\ Attached(cm, c \in InFrames(Tail(stack), "free")) /\ Sent(cm, c \in InFrames(Tail(stack), "free"))
           /\ Base(Tail(stack)) /\ LoopOK(loop, Tail(stack))
           /\ InFrames(stack, "tell") = {c} /\ InFrames(stack, "execute") = {}
           /\ InFrames(Tail(stack), "admit") = InFrames(stack, "admit")
           /\ InFrames(Tail(stack), "free") = InFrames(stack, "free") /\ c \notin InFrames(stack, "admit")
<1>1. /\ Shape(stack) /\ LoopOK(loop, stack) /\ stack # <<>> /\ stack[1].op = "tell"
      /\ stack[1].code # "none" /\ (~Auth /\ stack[1].code = "server" => cmd[c].copies < cmd[c].sent)
    BY DEF Inv, Types, Delays, Telling, Running
<1>2. c \in Cmd /\ c \in InFrames(stack, "tell") /\ stack[1] \in FrameSet
    BY <1>1, Top
<1>3. /\ InFrames(Tail(stack), "admit") = InFrames(stack, "admit")
      /\ InFrames(Tail(stack), "free") = InFrames(stack, "free")
      /\ Base(Tail(stack)) /\ InFrames(Tail(stack), "drain") = InFrames(stack, "drain")
    BY <1>1, Popped, ZenonT(30)
<1>4. InFrames(stack, "tell") = {c} /\ InFrames(stack, "execute") = {}
  <2>1. \A i \in DOMAIN stack : stack[i].op \in {"tell", "execute"} => i = 1
      BY <1>1 DEF Shape
  <2> QED
      BY <1>1, <1>2, <2>1 DEF InFrames
<1>5. LoopOK(loop, Tail(stack))
  <2>1. Tail(stack) # <<>> => Tail(stack)[1].op # "admit"
      BY <1>3 DEF Base
  <2>2. Drains(Tail(stack)) <=> Drains(stack)
      BY <1>3 DEF Drains
  <2> QED
      BY <1>1, <1>3, <2>1, <2>2, Zenon DEF LoopOK
<1>6. /\ cmd[c] \in Command /\ cmd[c].copies \in Nat /\ cmd[c].sent \in Nat
      /\ Placed(cmd[c], c \in Range(loop.queue), c \in Range(loop.delay), c \in InFrames(stack, "execute"),
                c \in InFrames(stack, "admit"), c \in InFrames(stack, "free"), c \in InFrames(stack, "tell"))
      /\ Attached(cmd[c], c \in InFrames(stack, "free")) /\ Sent(cmd[c], c \in InFrames(stack, "free"))
    BY <1>2, Facts
<1>7. /\ cmd[c].result = <<>> /\ cmd[c].state \in Started \cup {"QUEUE_ERROR"}
      /\ c \notin Range(loop.queue) /\ c \notin InFrames(stack, "admit")
      /\ cmd[c].state \in Started => c \in InFrames(stack, "free")
  <2>1. cmd[c].result = <<>> /\ (c \in InFrames(stack, "free") \/ cmd[c].state = "QUEUE_ERROR")
      BY <1>2, <1>6, Zenon DEF Placed
  <2>2. cmd[c].state \in Started \cup {"QUEUE_ERROR"}
      BY <1>6, <2>1, Zenon DEF Placed
  <2>3. c \notin Range(loop.queue) /\ c \notin InFrames(stack, "admit")
      BY <1>6, <2>2 DEF Placed, Started, OnSocket
  <2>4. cmd[c].state \in Started => c \in InFrames(stack, "free")
      BY <2>1 DEF Started, OnSocket
  <2> QED
      BY <2>1, <2>2, <2>3, <2>4, Zenon
<1> DEFINE r == ResultOf(c, stack[1].code)
<1>8. r \in {"ok", "in_doubt", "error"}
    BY DEF ResultOf
<1>9. ASSUME ~Auth, r = "error" PROVE cmd[c].copies = 0
  <2>1. stack[1].code \in {"client", "server"} /\ ~InDoubt(cmd[c].sent, stack[1].code)
      BY <1>1, <1>2, <1>9, Zenon DEF ResultOf, FrameSet
  <2>2. cmd[c].sent <= 1 /\ (cmd[c].sent = 1 => stack[1].code = "server")
    <3>1. cmd[c].sent \in Nat
        BY <1>6, Zenon
    <3> QED
        BY <2>1, <3>1 DEF InDoubt
  <2>3. cmd[c].copies <= cmd[c].sent /\ cmd[c].copies \in Nat /\ cmd[c].sent \in Nat
      BY <1>6, Zenon DEF Sent
  <2> QED
      BY <1>1, <1>9, <2>2, <2>3
<1> HIDE DEF r
<1>10. Append(cmd[c].result, r) = <<r>> /\ <<r>> \in Seq({"ok", "in_doubt", "error"}) /\ Len(<<r>>) = 1
    BY <1>7, <1>8
<1>11. cm = [cmd[c] EXCEPT !.result = <<r>>]
  <2>1. cm = [cmd[c] EXCEPT !.result = Append(cmd[c].result, r)]
      BY DEF r
  <2> QED
      BY <1>10, <2>1
<1>12. cm \in Command
  <2>1. \A s \in Seq({"ok", "in_doubt", "error"}) : [cmd[c] EXCEPT !.result = s] \in Command
      BY <1>6, Updates, Zenon
  <2> QED
      BY <1>10, <1>11, <2>1, Zenon
<1>13. /\ cm.state = cmd[c].state /\ cm.conn = cmd[c].conn /\ cm.timer = cmd[c].timer /\ cm.result = <<r>>
       /\ cm.sent = cmd[c].sent /\ cm.iteration = cmd[c].iteration /\ cm.copies = cmd[c].copies
    BY <1>6, <1>11, Zenon DEF Command
<1> DEFINE freed == c \in InFrames(stack, "free")
           delayed == c \in Range(loop.delay)
<1>14. Placed(cm, FALSE, delayed, FALSE, FALSE, freed, FALSE)
  <2>1. /\ delayed => cmd[c].state \in {"DELAY_QUEUE", "QUEUE_ERROR"}
        /\ freed => cmd[c].state \in Started \cup {"QUEUE_ERROR"} /\ cmd[c].timer = "none" /\ cmd[c].conn # "open"
                    /\ ~delayed
        /\ cmd[c].state = "QUEUE_ERROR" => delayed \/ freed
      BY <1>6 DEF Placed
  <2>2. Len(cm.result) = 1 /\ cm.state # "DELAY_QUEUE"
      BY <1>7, <1>10, <1>13 DEF Started, OnSocket
  <2> QED
      BY <1>7, <1>13, <2>1, <2>2, Zenon DEF Placed
<1>15. Attached(cm, freed)
  <2>1. cmd[c].state \notin Early /\ cmd[c].state # "FREED"
      BY <1>7 DEF Early, Started, OnSocket
  <2> QED
      BY <1>6, <1>13, <2>1, Zenon DEF Attached, Early
<1>16. Sent(cm, freed)
  <2>1. ~Auth /\ cm.result = <<"error">> => cm.copies = 0
      BY <1>9, <1>13
  <2> QED
      BY <1>6, <1>13, <2>1, Zenon DEF Sent
<1>17. cmd[c].state # "NEW"
    BY <1>7 DEF Started, OnSocket
<1> QED
    BY <1>2, <1>3, <1>4, <1>5, <1>7, <1>12, <1>13, <1>14, <1>15, <1>16, <1>17, Zenon

\* A listener is called and issues no command.
LEMMA TellInv ==
    ASSUME Inv, Tell
    PROVE  Inv'
<1> DEFINE c == stack[1].c
           cm == [cmd[c] EXCEPT !.result = Append(@, ResultOf(c, stack[1].code))]
<1>1. Running("tell") /\ stack' = Tail(stack) /\ UNCHANGED <<loop, es, pool, faults>>
    BY DEF Tell
<1>2. /\ c \in Cmd /\ cm \in Command /\ cm.conn = cmd[c].conn /\ cm.state = cmd[c].state /\ c \notin Range(loop.queue)
      /\ Placed(cm, FALSE, c \in Range(loop.delay), FALSE, FALSE, c \in InFrames(Tail(stack), "free"), FALSE)
      /\ Attached(cm, c \in InFrames(Tail(stack), "free")) /\ Sent(cm, c \in InFrames(Tail(stack), "free"))
      /\ Base(Tail(stack)) /\ LoopOK(loop, Tail(stack))
      /\ InFrames(stack, "tell") = {c} /\ InFrames(stack, "execute") = {}
      /\ InFrames(Tail(stack), "admit") = InFrames(stack, "admit")
      /\ InFrames(Tail(stack), "free") = InFrames(stack, "free") /\ c \notin InFrames(stack, "admit")
    BY <1>1, ToldIs, Zenon
<1>3. loop \in Loops /\ faults \in Nat /\ cmd \in [Cmd -> Command]
    BY DEF Inv, Types
<1>4. cmd' = [cmd EXCEPT ![c] = cm]
    BY <1>2, <1>3, Zenon DEF Tell, Told
<1> HIDE DEF cm, c
<1>5. Shape(Tail(stack)) /\ InFrames(Tail(stack), "tell") = {} /\ InFrames(Tail(stack), "execute") = {}
    BY <1>2, Zenon DEF Base
<1>6. Elsewhere(c)
    BY <1>1, <1>2, <1>5 DEF Elsewhere
<1>7. Is(cm, c)
  <2>1. /\ (c \in Range(loop'.queue)) = FALSE
        /\ (c \in InFrames(stack', "execute")) = FALSE /\ (c \in InFrames(stack', "admit")) = FALSE
        /\ (c \in InFrames(stack', "tell")) = FALSE
      BY <1>1, <1>2, <1>5
  <2> QED
      BY <1>1, <1>2, <2>1, Zenon DEF Is
<1>8. Telling'
    BY <1>1, <1>5, NoTelling, Zenon
<1> QED
    BY <1>1, <1>2, <1>3, <1>4, <1>5, <1>6, <1>7, <1>8, Moved, Zenon

\* A drain or none follows the release of a command.
LEMMA AfterFreeIs ==
    ASSUME NEW lp \in Loops, NEW base, Base(base),
           IsInjective(lp.delay), Once(lp.queue), MaxInQueue > 0 => Len(lp.delay) <= MaxInQueue,
           MaxInProcess > 0 => lp.pending <= MaxInProcess,
           MaxInProcess = 0 => lp.delay = <<>> /\ ~Drains(base) /\ InFrames(base, "admit") = {},
           lp.using => Drains(base), AfterFree(lp, base)
    PROVE  /\ loop' \in Loops /\ loop'.pending = lp.pending /\ loop'.queue = lp.queue /\ loop'.delay = lp.delay
           /\ Shape(stack') /\ LoopOK(loop', stack')
           /\ \A op \in {"tell", "execute", "admit", "free"} : InFrames(stack', op) = InFrames(base, op)
<1>1. Shape(base) /\ InFrames(base, "tell") = {} /\ InFrames(base, "execute") = {} /\ (base # <<>> => base[1].op # "admit")
    BY Zenon DEF Base
<1>2. CASE MaxInProcess > 0 /\ ~lp.using
  <2>1. loop' = [lp EXCEPT !.using = TRUE] /\ stack' = <<DrainFrame>> \o base
      BY <1>2 DEF AfterFree
  <2>2. /\ Shape(stack') /\ stack' # <<>> /\ stack'[1].op = "drain" /\ Drains(stack')
        /\ \A op \in {"tell", "execute", "admit", "free"} : InFrames(stack', op) = InFrames(base, op)
      BY <1>1, <2>1, PushDrain
  <2>3. loop' \in Loops /\ loop'.pending = lp.pending /\ loop'.queue = lp.queue /\ loop'.delay = lp.delay
      BY <2>1, Zenon DEF Loops
  <2>4. LoopOK(loop', stack')
      BY <1>2, <2>2, <2>3 DEF LoopOK, Once
  <2> QED
      BY <2>2, <2>3, <2>4
<1>3. CASE ~(MaxInProcess > 0 /\ ~lp.using)
  <2>1. loop' = lp /\ stack' = base
      BY <1>3 DEF AfterFree
  <2>2. Goes(lp) => Drains(base)
      BY <1>3, Constants DEF Goes, Loops
  <2>3. LoopOK(loop', stack')
      BY <1>1, <2>1, <2>2 DEF LoopOK, Once
  <2> QED
      BY <1>1, <2>1, <2>3
<1> QED
    BY <1>2, <1>3, Zenon

\* A command is released (as_event_command_free).
LEMMA FreeInv ==
    ASSUME Inv, Free
    PROVE  Inv'
<1> DEFINE c == stack[1].c
           one == IF Counted(c) THEN 1 ELSE 0
           lp == [loop EXCEPT !.pending = @ - one]
           cm == [cmd[c] EXCEPT !.state = "FREED"]
           base == Tail(stack)
<1> Cards
    BY DEF Inv, Types
<1>1. /\ Shape(stack) /\ LoopOK(loop, stack) /\ stack # <<>> /\ stack[1].op = "free" /\ Running("free")
      /\ loop \in Loops /\ faults \in Nat /\ cmd \in [Cmd -> Command]
    BY DEF Inv, Types, Delays, Free, Running
<1>2. c \in Cmd /\ c \in InFrames(stack, "free")
    BY <1>1, Top
<1>3. /\ InFrames(base, "tell") = {} /\ InFrames(base, "execute") = {}
      /\ InFrames(base, "admit") = InFrames(stack, "admit") /\ InFrames(base, "free") = InFrames(stack, "free") \ {c}
      /\ Base(base) /\ InFrames(base, "drain") = InFrames(stack, "drain")
    BY <1>1, Popped, Zenon
<1>4. InFrames(stack, "tell") = {} /\ InFrames(stack, "execute") = {}
  <2>1. \A i \in DOMAIN stack : stack[i].op \in {"tell", "execute"} => i = 1
      BY <1>1, Zenon DEF Shape
  <2> QED
      BY <1>1, <2>1 DEF InFrames
<1>5. /\ cmd[c] \in Command
      /\ Placed(cmd[c], c \in Range(loop.queue), c \in Range(loop.delay), c \in InFrames(stack, "execute"),
                c \in InFrames(stack, "admit"), c \in InFrames(stack, "free"), c \in InFrames(stack, "tell"))
      /\ Sent(cmd[c], c \in InFrames(stack, "free"))
    BY <1>2, Facts, Zenon
<1>6. /\ cmd[c].state \in Started \cup {"QUEUE_ERROR"} /\ cmd[c].timer = "none" /\ cmd[c].conn # "open"
      /\ Len(cmd[c].result) = 1 /\ c \notin Range(loop.delay) /\ c \notin Range(loop.queue)
      /\ c \notin InFrames(stack, "admit")
  <2>1. /\ cmd[c].state \in Started \cup {"QUEUE_ERROR"} /\ cmd[c].timer = "none" /\ cmd[c].conn # "open"
        /\ c \notin Range(loop.delay)
      BY <1>2, <1>5, Zenon DEF Placed
  <2>2. Len(cmd[c].result) = 1
      BY <1>2, <1>4, <1>5, Zenon DEF Placed
  <2>3. c \notin Range(loop.queue) /\ c \notin InFrames(stack, "admit")
      BY <1>5, <2>1 DEF Placed, Started, OnSocket
  <2> QED
      BY <2>1, <2>2, <2>3, Zenon
<1>7. cm \in Command
    BY <1>5, Updates, Zenon DEF States
<1>8. /\ cm.state = "FREED" /\ cm.conn = cmd[c].conn /\ cm.timer = "none" /\ cm.result = cmd[c].result
      /\ cm.sent = cmd[c].sent /\ cm.iteration = cmd[c].iteration /\ cm.copies = cmd[c].copies
    BY <1>5, <1>6 DEF Command
<1>9. /\ cmd' = [cmd EXCEPT ![c] = cm] /\ es' = [es EXCEPT ![ClusterOf[c]].pending = @ - one] /\ AfterFree(lp, base)
      /\ UNCHANGED <<pool, faults>>
    BY <1>1, Zenon DEF Free
<1>10. /\ one \in {0, 1} /\ (cmd[c].state \in Started => one = 1) /\ (cmd[c].state \notin Started => one = 0)
    BY <1>6 DEF Counted, Started, OnSocket
<1> HIDE DEF cm, c, one
<1>11. loop.pending - one \in Nat
  <2>1. loop.pending = CommandsIn(Cluster) /\ loop.pending \in Nat
      BY <1>1 DEF Inv, Counts, Loops
  <2>2. ASSUME cmd[c].state \in Started PROVE loop.pending # 0
    <3> DEFINE P == {d \in Cmd : InProcess(d) /\ ClusterOf[d] \in Cluster}
    <3>1. c \in P /\ P \in SUBSET Cmd
        BY <1>2, <2>2, Constants DEF InProcess, Started, OnSocket
    <3>2. CommandsIn(Cluster) = Cardinality(P)
        BY DEF CommandsIn
    <3> HIDE DEF P
    <3>3. Cardinality(P \ {c}) = Cardinality(P) - 1 /\ Cardinality(P \ {c}) \in Nat
        BY <3>1, OneLess, Size
    <3> QED
        BY <2>1, <3>2, <3>3
  <2> QED
      BY <1>10, <2>1, <2>2
<1>12. /\ lp \in Loops /\ lp.pending = loop.pending - one /\ lp.queue = loop.queue /\ lp.delay = loop.delay
       /\ lp.using = loop.using
    BY <1>1, <1>11, Zenon DEF Loops
<1> HIDE DEF lp
<1>13. /\ IsInjective(lp.delay) /\ Once(lp.queue) /\ (MaxInQueue > 0 => Len(lp.delay) <= MaxInQueue)
       /\ (MaxInProcess > 0 => lp.pending <= MaxInProcess)
       /\ (MaxInProcess = 0 => lp.delay = <<>> /\ ~Drains(base) /\ InFrames(base, "admit") = {})
       /\ (lp.using => Drains(base))
  <2>1. MaxInProcess > 0 => lp.pending <= MaxInProcess
      BY <1>1, <1>10, <1>12, Constants DEF LoopOK, Loops
  <2>2. Drains(base) <=> Drains(stack)
      BY <1>3 DEF Drains
  <2> QED
      BY <1>1, <1>3, <1>12, <2>1, <2>2, Zenon DEF LoopOK, Once
<1>14. /\ loop' \in Loops /\ loop'.pending = lp.pending /\ loop'.queue = lp.queue /\ loop'.delay = lp.delay
       /\ Shape(stack') /\ LoopOK(loop', stack')
       /\ \A op \in {"tell", "execute", "admit", "free"} : InFrames(stack', op) = InFrames(base, op)
    BY <1>3, <1>9, <1>12, <1>13, AfterFreeIs
<1>15. /\ Counts'
       /\ es' \in [Cluster -> EventStates]
  <2> DEFINE m == 0 - one
  <2>1. m \in {-1, 0, 1} /\ loop'.pending = loop.pending + m
      BY <1>1, <1>10, <1>12, <1>14 DEF Loops
  <2>2. es' = [es EXCEPT ![ClusterOf[c]].pending = @ + m]
    <3>1. es \in [Cluster -> EventStates] /\ ClusterOf[c] \in Cluster
        BY <1>2, Constants DEF Inv, Types
    <3>2. es[ClusterOf[c]].pending - one = es[ClusterOf[c]].pending + m
        BY <3>1, <1>10 DEF EventStates
    <3> QED
        BY <1>9, <3>2, Zenon
  <2>3. cm.state \notin Started /\ (cmd[c].state \in Started => m = -1) /\ (cmd[c].state \notin Started => m = 0)
      BY <1>8, <1>10 DEF Started, OnSocket
  <2> HIDE DEF m
  <2>4. Types /\ Counts
      BY Zenon DEF Inv
  <2> QED
      BY <1>2, <1>7, <1>9, <2>1, <2>2, <2>3, <2>4, CountsChange, Zenon
<1>16. Elsewhere(c)
    BY <1>3, <1>4, <1>12, <1>14, Zenon DEF Elsewhere
<1>17. Is(cm, c)
  <2>1. /\ (c \in Range(loop'.queue)) = FALSE /\ (c \in Range(loop'.delay)) = FALSE
        /\ (c \in InFrames(stack', "execute")) = FALSE /\ (c \in InFrames(stack', "admit")) = FALSE
        /\ (c \in InFrames(stack', "free")) = FALSE /\ (c \in InFrames(stack', "tell")) = FALSE
    <3>1. /\ c \notin Range(loop'.queue) /\ c \notin Range(loop'.delay)
          /\ c \notin InFrames(stack', "execute") /\ c \notin InFrames(stack', "admit")
          /\ c \notin InFrames(stack', "free") /\ c \notin InFrames(stack', "tell")
        BY <1>3, <1>6, <1>12, <1>14
    <3> QED
        BY <3>1, Absent, Zenon
  <2>2. Placed(cm, FALSE, FALSE, FALSE, FALSE, FALSE, FALSE)
      BY <1>8, Zenon DEF Placed, Started, OnSocket
  <2>3. Attached(cm, FALSE)
      BY <1>6, <1>8, Zenon DEF Attached, Early, OnSocket
  <2>4. Sent(cm, FALSE)
      BY <1>5, <1>8, Zenon DEF Sent, Early, Started, OnSocket
  <2> QED
      BY <2>1, <2>2, <2>3, <2>4, Zenon DEF Is
<1>18. Telling'
    BY <1>3, <1>14, NoTelling
<1> QED
    BY <1>1, <1>2, <1>7, <1>8, <1>9, <1>14, <1>15, <1>16, <1>17, <1>18, Change, Zenon

\* A listener is called and issues a command.
LEMMA TellAndIssueInv ==
    ASSUME Inv, NEW d \in Cmd, TellAndIssue(d)
    PROVE  Inv'
<1> DEFINE c == stack[1].c
           cm == [cmd[c] EXCEPT !.result = Append(@, ResultOf(c, stack[1].code))]
           late == cmd[c].late
           base == Tail(stack)
           a == [cmd[d] EXCEPT !.state = "ISSUED"]
           issued == [a EXCEPT !.late = late]
           r == [cmd[d] EXCEPT !.state = "REGISTERED"]
           z == [r EXCEPT !.timer = "zero"]
           scheduled == [z EXCEPT !.late = late]
           Outcome(dm, stk) == cmd' = [[cmd EXCEPT ![c] = cm] EXCEPT ![d] = dm] /\ stack' = stk
<1>1. Running("tell") /\ cmd[d].state = "NEW" /\ UNCHANGED <<loop, es, pool, faults>>
    BY DEF TellAndIssue
<1>2. /\ c \in Cmd /\ cm \in Command /\ cm.conn = cmd[c].conn /\ cm.state = cmd[c].state
      /\ cmd[c].state # "NEW" /\ c \notin Range(loop.queue)
      /\ Placed(cm, FALSE, c \in Range(loop.delay), FALSE, FALSE, c \in InFrames(base, "free"), FALSE)
      /\ Attached(cm, c \in InFrames(base, "free")) /\ Sent(cm, c \in InFrames(base, "free"))
      /\ Base(base) /\ LoopOK(loop, base)
      /\ InFrames(stack, "tell") = {c} /\ InFrames(stack, "execute") = {}
      /\ InFrames(base, "admit") = InFrames(stack, "admit")
      /\ InFrames(base, "free") = InFrames(stack, "free") /\ c \notin InFrames(stack, "admit")
    BY <1>1, ToldIs, Zenon
<1>3. loop \in Loops /\ faults \in Nat /\ cmd \in [Cmd -> Command] /\ cmd[c] \in Command /\ cmd[d] \in Command /\ c # d
    BY <1>1, <1>2, Zenon DEF Inv, Types
<1>4. /\ cmd[d].conn = "null" /\ cmd[d].timer = "none" /\ cmd[d].result = <<>> /\ cmd[d].sent = 0
      /\ cmd[d].iteration = 0 /\ cmd[d].copies = 0
      /\ d \notin Range(loop.queue) /\ d \notin Range(loop.delay)
      /\ \A op \in {"execute", "admit", "free", "tell"} : d \notin InFrames(stack, op)
    BY <1>1, NewIs, Zenon
<1>5. Shape(base) /\ InFrames(base, "tell") = {} /\ InFrames(base, "execute") = {} /\ (base # <<>> => base[1].op # "admit")
    BY <1>2 DEF Base
<1>6. \/ Outcome(issued, <<Frame("execute", d, "none")>> \o base)
      \/ Outcome(scheduled, base)
  <2>1. Told(cmd, c, stack[1].code) = [cmd EXCEPT ![c] = cm]
      BY <1>3, Zenon DEF Told
  <2>2. [cmd EXCEPT ![c] = cm][d] = cmd[d] /\ [cmd EXCEPT ![c] = cm] \in [Cmd -> Command]
      BY <1>2, <1>3, Zenon
  <2> HIDE DEF cm
  <2>3. CASE loop.errors < MaxErrors
    <3>1. /\ cmd' = [[cmd EXCEPT ![c] = cm] EXCEPT ![d].state = "ISSUED", ![d].late = late]
          /\ stack' = <<Frame("execute", d, "none")>> \o base
        BY <2>1, <2>3 DEF TellAndIssue
    <3>2. cmd' = [[cmd EXCEPT ![c] = cm] EXCEPT ![d] = issued]
        BY <2>2, <3>1, Zenon
    <3> QED
        BY <3>1, <3>2, Zenon
  <2>4. CASE ~(loop.errors < MaxErrors)
    <3>1. /\ cmd' = [[cmd EXCEPT ![c] = cm] EXCEPT ![d].state = "REGISTERED", ![d].timer = "zero", ![d].late = late]
          /\ stack' = base
        BY <2>1, <2>4 DEF TellAndIssue
    <3>2. cmd' = [[cmd EXCEPT ![c] = cm] EXCEPT ![d] = scheduled]
        BY <2>2, <3>1, Zenon
    <3> QED
        BY <3>1, <3>2, Zenon
  <2> QED
      BY <2>3, <2>4
<1>7. late \in BOOLEAN
    BY <1>3 DEF Command
<1>8. issued \in Command
  <2>1. a \in Command
      BY <1>3, Updates, Zenon DEF States, Early
  <2> HIDE DEF a, late
  <2> QED
      BY <1>7, <2>1, Updates, Zenon
<1>9. scheduled \in Command
  <2>1. r \in Command
      BY <1>3, Updates, Zenon DEF States, Early
  <2>2. z \in Command
    <3> HIDE DEF r
    <3> QED
        BY <2>1, Updates, Zenon
  <2> HIDE DEF z, late
  <2> QED
      BY <1>7, <2>2, Updates, Zenon
<1>10. /\ issued.state = "ISSUED" /\ issued.conn = "null" /\ issued.timer = "none" /\ issued.result = <<>>
       /\ issued.sent = 0 /\ issued.iteration = 0 /\ issued.copies = 0
    BY <1>3, <1>4 DEF Command
<1>11. /\ scheduled.state = "REGISTERED" /\ scheduled.conn = "null" /\ scheduled.timer = "zero"
       /\ scheduled.result = <<>> /\ scheduled.sent = 0 /\ scheduled.iteration = 0 /\ scheduled.copies = 0
    BY <1>3, <1>4, Zenon DEF Command
<1> HIDE DEF c, cm, a, z, r, issued, scheduled
\* The parts of the invariant that do not depend on which of the two happens.
<1>12. ASSUME NEW dm \in Command, NEW stk, Outcome(dm, stk), dm.conn = "null", dm.state \in {"ISSUED", "REGISTERED"},
              Shape(stk), InFrames(stk, "tell") = {}, LoopOK(loop, stk),
              \A op \in {"admit", "free", "tell"} : InFrames(stk, op) = InFrames(base, op),
              InFrames(stk, "execute") \ {d} = {},
              Placed(dm, FALSE, FALSE, d \in InFrames(stk, "execute"), FALSE, FALSE, FALSE),
              Attached(dm, FALSE), Sent(dm, FALSE)
       PROVE  Inv'
  <2>1. /\ cmd' \in [Cmd -> Command] /\ cmd'[c] = cm /\ cmd'[d] = dm /\ stack' = stk
        /\ \A x \in Cmd : x # c /\ x # d => cmd'[x] = cmd[x]
      BY <1>2, <1>3, <1>12, Zenon
  <2> HIDE DEF Outcome
  <2>2. ASSUME NEW x \in Cmd
        PROVE  /\ Placed(cmd'[x], x \in Range(loop'.queue), x \in Range(loop'.delay), x \in InFrames(stack', "execute"),
                         x \in InFrames(stack', "admit"), x \in InFrames(stack', "free"), x \in InFrames(stack', "tell"))
               /\ Attached(cmd'[x], x \in InFrames(stack', "free"))
               /\ Sent(cmd'[x], x \in InFrames(stack', "free"))
    <3>1. CASE x = c
      <4>1. /\ (x \in Range(loop'.queue)) = FALSE /\ (x \in InFrames(stack', "execute")) = FALSE
            /\ (x \in InFrames(stack', "admit")) = FALSE /\ (x \in InFrames(stack', "tell")) = FALSE
        <5>1. /\ x \notin Range(loop'.queue) /\ x \notin InFrames(stack', "execute")
              /\ x \notin InFrames(stack', "admit") /\ x \notin InFrames(stack', "tell")
          <6>1. \A y : y # d => y \notin InFrames(stk, "execute")
              BY <1>12
          <6> QED
              BY <1>1, <1>2, <1>3, <1>12, <2>1, <3>1, <6>1, Zenon
        <5> QED
            BY <5>1, Absent, Zenon
      <4>2. (x \in InFrames(stack', "free")) = (c \in InFrames(base, "free"))
          BY <1>12, <2>1, <3>1
      <4>3. (x \in Range(loop'.delay)) = (c \in Range(loop.delay))
          BY <1>1, <3>1
      <4> QED
          BY <1>2, <2>1, <3>1, <4>1, <4>2, <4>3, Zenon
    <3>2. CASE x = d
      <4>1. /\ (x \in Range(loop'.queue)) = FALSE /\ (x \in Range(loop'.delay)) = FALSE
            /\ (x \in InFrames(stack', "admit")) = FALSE /\ (x \in InFrames(stack', "free")) = FALSE
            /\ (x \in InFrames(stack', "tell")) = FALSE
        <5>1. /\ x \notin Range(loop'.queue) /\ x \notin Range(loop'.delay)
              /\ x \notin InFrames(stack', "admit") /\ x \notin InFrames(stack', "free")
              /\ x \notin InFrames(stack', "tell")
            BY <1>1, <1>2, <1>4, <1>12, <2>1, <3>2, Zenon
        <5> QED
            BY <5>1, Absent, Zenon
      <4> QED
          BY <1>12, <2>1, <3>2, <4>1, Zenon
    <3>3. CASE x # c /\ x # d
      <4>1. /\ (x \in InFrames(stack', "execute")) = (x \in InFrames(stack, "execute"))
            /\ (x \in InFrames(stack', "admit")) = (x \in InFrames(stack, "admit"))
            /\ (x \in InFrames(stack', "free")) = (x \in InFrames(stack, "free"))
            /\ (x \in InFrames(stack', "tell")) = (x \in InFrames(stack, "tell"))
        <5>1. /\ x \in InFrames(stack', "execute") <=> x \in InFrames(stack, "execute")
              /\ x \in InFrames(stack', "tell") <=> x \in InFrames(stack, "tell")
            BY <1>2, <1>5, <1>12, <2>1, <3>3, Zenon
        <5>2. /\ x \in InFrames(stack', "admit") <=> x \in InFrames(stack, "admit")
              /\ x \in InFrames(stack', "free") <=> x \in InFrames(stack, "free")
            BY <1>2, <1>12, <2>1, Zenon
        <5> QED
            BY <5>1, <5>2
      <4>2. /\ Placed(cmd[x], x \in Range(loop.queue), x \in Range(loop.delay), x \in InFrames(stack, "execute"),
                      x \in InFrames(stack, "admit"), x \in InFrames(stack, "free"), x \in InFrames(stack, "tell"))
            /\ Attached(cmd[x], x \in InFrames(stack, "free"))
            /\ Sent(cmd[x], x \in InFrames(stack, "free"))
          BY Facts, Zenon
      <4> QED
          BY <1>1, <2>1, <3>3, <4>1, <4>2, Zenon
    <3> QED
        BY <3>1, <3>2, <3>3, Zenon
  <2>3. Commands'
      BY <2>2, Zenon DEF Commands, Ending
  <2>4. \A x \in Cmd : /\ cmd'[x].state \in Started <=> cmd[x].state \in Started
                       /\ cmd'[x].conn = cmd[x].conn
    <3>1. dm.state \notin Started /\ cmd[d].state \notin Started
        BY <1>1, <1>12, Zenon DEF Started, OnSocket
    <3> QED
        BY <1>2, <1>4, <1>12, <2>1, <3>1, Zenon
  <2>5. Counts'
    <3>1. \A x \in Cmd : InProcess(x)' <=> InProcess(x)
        BY <2>4 DEF InProcess, Started, OnSocket
    <3>2. \A S : CommandsIn(S)' = CommandsIn(S)
      <4> TAKE S
      <4>1. {x \in Cmd : InProcess(x)' /\ ClusterOf[x] \in S} = {x \in Cmd : InProcess(x) /\ ClusterOf[x] \in S}
          BY <3>1
      <4> QED
          BY <4>1 DEF CommandsIn
    <3> QED
        BY <1>1, <3>2 DEF Inv, Counts
  <2>6. Pools'
    <3>1. \A k : Holding(k)' = Holding(k)
        BY <2>4, Zenon DEF Holding
    <3> QED
        BY <1>1, <3>1 DEF Inv, Pools
  <2>7. Telling'
      BY <1>12, <2>1, NoTelling
  <2> QED
      BY <1>1, <1>12, <2>1, <2>3, <2>5, <2>6, <2>7, Zenon DEF Inv, Types, Delays
<1>13. CASE Outcome(scheduled, base)
  <2>1. Placed(scheduled, FALSE, FALSE, FALSE, FALSE, FALSE, FALSE)
      BY <1>11 DEF Placed, Started, OnSocket
  <2>2. Attached(scheduled, FALSE)
      BY <1>11 DEF Attached, Early, OnSocket
  <2>3. Sent(scheduled, FALSE)
      BY <1>11, Constants DEF Sent, Early, Started, OnSocket
  <2>4. (d \in InFrames(base, "execute")) = FALSE
      BY <1>5
  <2> HIDE DEF Outcome
  <2> QED
      BY <1>2, <1>5, <1>9, <1>11, <1>12, <1>13, <2>1, <2>2, <2>3, <2>4, Zenon
<1>14. CASE Outcome(issued, <<Frame("execute", d, "none")>> \o base)
  <2> DEFINE t == <<Frame("execute", d, "none")>> \o base
  <2>1. d \notin InFrames(base, "admit") /\ d \notin InFrames(base, "free")
      BY <1>2, <1>4
  <2>2. /\ Shape(t) /\ t # <<>> /\ t[1] = Frame("execute", d, "none")
        /\ \A o \in Ops : InFrames(t, o) = InFrames(base, o) \cup (IF o = "execute" THEN {d} ELSE {})
      BY <1>5, <2>1, PushOwner, Zenon
  <2>3. t[1].op = "execute"
      BY <2>2 DEF Frame
  <2> HIDE DEF t
  <2>4. /\ \A op \in {"admit", "free", "tell", "drain"} : InFrames(t, op) = InFrames(base, op)
        /\ InFrames(t, "execute") = {d} /\ InFrames(t, "tell") = {}
      BY <1>5, <2>2, Zenon DEF Ops
  <2>5. LoopOK(loop, t)
      BY <1>2, <2>2, <2>3, <2>4, Zenon DEF LoopOK, Drains
  <2>6. Placed(issued, FALSE, FALSE, TRUE, FALSE, FALSE, FALSE)
      BY <1>10 DEF Placed, Started, OnSocket
  <2>7. Attached(issued, FALSE)
      BY <1>10 DEF Attached, Early, OnSocket
  <2>8. Sent(issued, FALSE)
      BY <1>10, Constants DEF Sent, Early, Started, OnSocket
  <2>9. (d \in InFrames(t, "execute")) = TRUE
      BY <2>4
  <2>10. Outcome(issued, t)
      BY <1>14 DEF t
  <2> HIDE DEF Outcome
  <2> QED
      BY <1>8, <1>10, <1>12, <2>2, <2>4, <2>5, <2>6, <2>7, <2>8, <2>9, <2>10, Zenon
<1> QED
    BY <1>6, <1>13, <1>14, Zenon

=============================================================================
