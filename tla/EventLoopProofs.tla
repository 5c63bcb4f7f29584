-------------------------- MODULE EventLoopProofs --------------------------
(***************************************************************************)
(* Proofs about EventLoop: the close of a cluster keeps the invariant of   *)
(* EventLoopInv too, which is therefore inductive; the theorems that       *)
(* follow from it.                                                         *)
(***************************************************************************)
EXTENDS EventLoopQueue, FiniteSetTheorems

\* A leaf that names no prover is tried with SMT, with Zenon, and with SMT at length.
USE SMT, Zenon, SMTT(20)

-----------------------------------------------------------------------------
(* The balancer and the close of a cluster.                                 *)

\* No command changes.
LEMMA ClusterInv ==
    ASSUME Inv, UNCHANGED <<cmd, stack, faults>>, loop' \in Loops, loop'.pending = loop.pending,
           loop'.delay = loop.delay, loop'.using = loop.using, Once(loop'.queue),
           \A c \in Cmd : c \in Range(loop'.queue) <=> c \in Range(loop.queue),
           es' \in [Cluster -> EventStates], \A k \in Cluster : es'[k].pending = es[k].pending,
           pool' \in [Cluster -> Slots], Pools'
    PROVE  Inv'
<1>1. Types /\ Commands /\ Telling /\ LoopOK(loop, stack) /\ Counts
    BY DEF Inv, Delays
<1>2. Types'
    BY <1>1 DEF Types
<1>3. Commands'
  <2>1. \A c \in Cmd : (c \in Range(loop'.queue)) = (c \in Range(loop.queue))
      OBVIOUS
  <2> QED
      BY <1>1, <2>1 DEF Commands, Ending
<1>4. Telling'
    BY <1>1 DEF Telling, Running
<1>5. LoopOK(loop', stack')
    BY <1>1 DEF LoopOK, Goes, Once
<1>6. Counts'
    BY <1>1, Zenon DEF Counts, CommandsIn, InProcess
<1> QED
    BY <1>2, <1>3, <1>4, <1>5, <1>6 DEF Inv, Delays

\* The queue and the pools, when they stay.
LEMMA Stays ==
    ASSUME Inv
    PROVE  /\ loop \in Loops /\ Once(loop.queue) /\ loop.queue \in Seq(Cmd \cup Cluster)
           /\ es \in [Cluster -> EventStates] /\ pool \in [Cluster -> Slots]
           /\ UNCHANGED <<cmd, pool>> => Pools'
<1>1. loop \in Loops /\ es \in [Cluster -> EventStates] /\ pool \in [Cluster -> Slots] /\ loop.queue \in Seq(Cmd \cup Cluster)
    BY DEF Inv, Types, Loops
<1>2. Once(loop.queue)
    BY DEF Inv, Delays, LoopOK, Once
<1>3. UNCHANGED <<cmd, pool>> => Pools'
    BY DEF Inv, Pools, Holding
<1> QED
    BY <1>1, <1>2, <1>3

\* The balancer closes idle connections.
LEMMA TrimInv ==
    ASSUME Inv, NEW k \in Cluster, Trim(k)
    PROVE  Inv'
<1> Cards
    BY DEF Inv, Types
<1>1. PICK n \in 1..pool[k].idle : pool' = [pool EXCEPT ![k] = [idle |-> @.idle - n, total |-> @.total - n]]
    BY Zenon DEF Trim
<1>2. UNCHANGED <<cmd, loop, es, stack, faults>>
    BY DEF Trim
<1>3. /\ loop \in Loops /\ Once(loop.queue) /\ es \in [Cluster -> EventStates] /\ pool \in [Cluster -> Slots] /\ Pools
    BY Stays DEF Inv
<1>4. ASSUME NEW j \in Cluster
      PROVE  /\ pool'[j] \in Slots /\ pool'[j].total = pool'[j].idle + Cardinality(Holding(j))
             /\ pool'[j].total <= ConnLimit
  <2>1. /\ pool[j] \in Slots /\ pool[j].total = pool[j].idle + Cardinality(Holding(j)) /\ pool[j].total <= ConnLimit
      BY <1>3, <1>4 DEF Pools
  <2>2. Cardinality(Holding(j)) \in Nat
      BY Size DEF Holding
  <2>3. CASE j = k
    <3>1. pool'[j] = [idle |-> pool[j].idle - n, total |-> pool[j].total - n] /\ n \in Nat /\ n <= pool[j].idle
        BY <1>1, <1>3, <2>1, <2>3 DEF Slots
    <3> QED
        BY <2>1, <2>2, <3>1, Constants DEF Slots
  <2>4. CASE j # k
      BY <1>1, <1>3, <2>1, <2>4
  <2> QED
      BY <2>3, <2>4
<1>5. pool' \in [Cluster -> Slots]
  <2>1. pool' = [j \in Cluster |-> pool'[j]]
      BY <1>1, <1>3, Zenon
  <2> QED
      BY <1>4, <2>1
<1>6. Pools'
  <2>1. \A j : Holding(j)' = Holding(j)
      BY <1>2 DEF Holding
  <2> QED
      BY <1>4, <2>1 DEF Pools
<1> QED
    BY <1>2, <1>3, <1>5, <1>6, ClusterInv, Zenon

\* The state of a cluster that is closed in this loop or in the other one.
LEMMA DestroyIs ==
    ASSUME NEW s \in EventStates
    PROVE  Destroy(s) \in EventStates /\ Destroy(s).pending = s.pending
<1>1. (s.closed /\ ~s.others) \in BOOLEAN
    OBVIOUS
<1> QED
    BY <1>1, Zenon DEF Destroy, EventStates

\* The close of a cluster is queued in the loop, or done by the calling thread.
LEMMA CloseClusterInv ==
    ASSUME Inv, NEW k \in Cluster, CloseCluster(k)
    PROVE  Inv'
<1>1. PICK queued \in {TRUE, ~Refusals} :
         /\ es' = [es EXCEPT ![k] = Destroy([@ EXCEPT !.closing = TRUE, !.closed = ~queued])]
         /\ loop' = [loop EXCEPT !.queue = IF queued THEN Append(@, k) ELSE @]
    BY Zenon DEF CloseCluster
<1>2. UNCHANGED <<cmd, pool, stack, faults>>
    BY DEF CloseCluster
<1>3. /\ loop \in Loops /\ Once(loop.queue) /\ loop.queue \in Seq(Cmd \cup Cluster)
      /\ es \in [Cluster -> EventStates] /\ pool \in [Cluster -> Slots] /\ Pools'
    BY <1>2, Stays
<1>4. k \notin Cmd /\ k \in Cmd \cup Cluster
    BY Constants
<1>5. es' \in [Cluster -> EventStates] /\ \A j \in Cluster : es'[j].pending = es[j].pending
  <2> DEFINE s == [es[k] EXCEPT !.closing = TRUE, !.closed = ~queued]
  <2>1. (~queued) \in BOOLEAN
      OBVIOUS
  <2>2. s \in EventStates /\ s.pending = es[k].pending
      BY <1>3, <2>1, Zenon DEF EventStates
  <2>3. es' = [es EXCEPT ![k] = Destroy(s)]
      BY <1>1
  <2> HIDE DEF s
  <2> QED
      BY <1>3, <2>2, <2>3, DestroyIs, Zenon
<1>6. PICK q : q = IF queued THEN Append(loop.queue, k) ELSE loop.queue
    BY Zenon
<1>7. q \in Seq(Cmd \cup Cluster) /\ Range(q) \ {k} = Range(loop.queue) \ {k} /\ Once(q)
  <2>1. CASE queued
    <3>1. /\ q \in Seq(Cmd \cup Cluster) /\ Range(q) = Range(loop.queue) \cup {k} /\ Once(q)
        BY <1>3, <1>4, <1>6, <2>1, Enqueue
    <3> QED
        BY <3>1
  <2>2. CASE ~queued
      BY <1>3, <1>6, <2>2
  <2> QED
      BY <2>1, <2>2
<1>8. loop' = [loop EXCEPT !.queue = q]
    BY <1>1, <1>6, Zenon
<1>9. /\ loop' \in Loops /\ loop'.pending = loop.pending /\ loop'.delay = loop.delay /\ loop'.using = loop.using
      /\ loop'.queue = q
    BY <1>3, <1>7, <1>8, Zenon DEF Loops
<1>10. \A c \in Cmd : c \in Range(loop'.queue) <=> c \in Range(loop.queue)
    BY <1>4, <1>7, <1>9
<1> QED
    BY <1>2, <1>3, <1>5, <1>7, <1>9, <1>10, ClusterInv, Zenon

\* The loop runs the close of a cluster, or puts it off (as_event_close_cluster_cb).
LEMMA CloseCallbackInv ==
    ASSUME Inv, CloseCallback
    PROVE  Inv'
<1> DEFINE k == Head(loop.queue)
           rest == Tail(loop.queue)
<1>1. loop.queue # <<>> /\ k \in Cluster /\ UNCHANGED <<cmd, pool, stack, faults>>
    BY DEF CloseCallback
<1>2. /\ loop \in Loops /\ Once(loop.queue) /\ loop.queue \in Seq(Cmd \cup Cluster)
      /\ es \in [Cluster -> EventStates] /\ pool \in [Cluster -> Slots] /\ Pools'
    BY <1>1, Stays
<1>3. k \notin Cmd /\ k \in Cmd \cup Cluster
    BY <1>1, Constants
<1>4. /\ rest \in Seq(Cmd \cup Cluster) /\ Range(rest) \ {k} = Range(loop.queue) \ {k} /\ Once(rest)
    BY <1>1, <1>2, Dequeue
<1> HIDE DEF k, rest
<1>5. CASE loop' = [loop EXCEPT !.queue = Append(rest, k)] /\ UNCHANGED es
  <2>1. /\ Append(rest, k) \in Seq(Cmd \cup Cluster) /\ Range(Append(rest, k)) = Range(rest) \cup {k}
        /\ Once(Append(rest, k))
      BY <1>3, <1>4, Enqueue
  <2>2. /\ loop' \in Loops /\ loop'.pending = loop.pending /\ loop'.delay = loop.delay /\ loop'.using = loop.using
        /\ loop'.queue = Append(rest, k)
      BY <1>2, <1>5, <2>1, Zenon DEF Loops
  <2>3. \A c \in Cmd : c \in Range(loop'.queue) <=> c \in Range(loop.queue)
      BY <1>3, <1>4, <2>1, <2>2, Zenon
  <2> QED
      BY <1>1, <1>2, <1>5, <2>1, <2>2, <2>3, ClusterInv, Zenon
<1>6. CASE loop' = [loop EXCEPT !.queue = rest] /\ es' = [es EXCEPT ![k] = Destroy([@ EXCEPT !.closed = TRUE])]
  <2>1. /\ loop' \in Loops /\ loop'.pending = loop.pending /\ loop'.delay = loop.delay /\ loop'.using = loop.using
        /\ loop'.queue = rest
      BY <1>2, <1>4, <1>6, Zenon DEF Loops
  <2>2. \A c \in Cmd : c \in Range(loop'.queue) <=> c \in Range(loop.queue)
      BY <1>3, <1>4, <2>1
  <2> DEFINE s == [es[k] EXCEPT !.closed = TRUE]
  <2>3. s \in EventStates /\ s.pending = es[k].pending
      BY <1>1, <1>2, Zenon DEF EventStates
  <2>4. es' = [es EXCEPT ![k] = Destroy(s)]
      BY <1>6
  <2> HIDE DEF s
  <2>5. es' \in [Cluster -> EventStates] /\ \A j \in Cluster : es'[j].pending = es[j].pending
      BY <1>1, <1>2, <2>3, <2>4, DestroyIs, Zenon
  <2> QED
      BY <1>1, <1>2, <1>4, <2>1, <2>2, <2>5, ClusterInv, Zenon
<1> QED
    BY <1>5, <1>6 DEF CloseCallback, k, rest

\* The other loop of a cluster runs the close.
LEMMA OtherLoopClosesInv ==
    ASSUME Inv, NEW k \in Cluster, OtherLoopCloses(k)
    PROVE  Inv'
<1> DEFINE s == [es[k] EXCEPT !.others = FALSE]
<1>1. es' = [es EXCEPT ![k] = Destroy(s)] /\ UNCHANGED <<cmd, loop, pool, stack, faults>>
    BY DEF OtherLoopCloses
<1>2. loop \in Loops /\ Once(loop.queue) /\ es \in [Cluster -> EventStates] /\ pool \in [Cluster -> Slots] /\ Pools'
    BY <1>1, Stays
<1>3. s \in EventStates /\ s.pending = es[k].pending
    BY <1>2, Zenon DEF EventStates
<1> HIDE DEF s
<1>4. es' \in [Cluster -> EventStates] /\ \A j \in Cluster : es'[j].pending = es[j].pending
    BY <1>1, <1>2, <1>3, DestroyIs
<1> QED
    BY <1>1, <1>2, <1>4, ClusterInv

-----------------------------------------------------------------------------
(* The invariant.                                                           *)

\* The engine starts with it.
LEMMA InitInv ==
    ASSUME Init
    PROVE  Inv
<1> Cards
    BY Constants, FS_EmptySet, FS_Subset, FS_CardinalityType, FS_AddElement, FS_RemoveElement, Zenon DEF Cards
<1>1. NewCommand \in Command /\ NewCommand.state = "NEW"
    BY DEF NewCommand, Command, States, Early
<1>2. \A c \in Cmd : cmd[c] = NewCommand
    BY DEF Init
<1>3. stack = <<>> /\ \A op \in Ops : InFrames(stack, op) = {}
    BY DEF Init, InFrames
<1>4. /\ loop \in Loops /\ loop.pending = 0 /\ loop.queue = <<>> /\ loop.delay = <<>> /\ ~loop.using
    BY DEF Init, Loops
<1>5. Types
  <2>1. cmd \in [Cmd -> Command]
      BY <1>1 DEF Init
  <2>2. es \in [Cluster -> EventStates]
      BY EventLoopAssumption DEF Init, EventStates, EventLoopAssumption
  <2>3. pool \in [Cluster -> Slots] /\ faults \in Nat
      BY DEF Init, Slots
  <2>4. Shape(stack)
      BY <1>3, EmptyBase DEF Base
  <2> QED
      BY <1>4, <2>1, <2>2, <2>3, <2>4, Zenon DEF Types
<1>6. Commands
  <2> SUFFICES ASSUME NEW c \in Cmd
               PROVE  /\ Placed(cmd[c], c \in Range(loop.queue), c \in Range(loop.delay), c \in InFrames(stack, "execute"),
                                c \in InFrames(stack, "admit"), Ending(c), c \in InFrames(stack, "tell"))
                      /\ Attached(cmd[c], Ending(c)) /\ Sent(cmd[c], Ending(c))
      BY DEF Commands
  <2>1. /\ (c \in Range(loop.queue)) = FALSE /\ (c \in Range(loop.delay)) = FALSE
        /\ (c \in InFrames(stack, "execute")) = FALSE /\ (c \in InFrames(stack, "admit")) = FALSE
        /\ Ending(c) = FALSE /\ (c \in InFrames(stack, "tell")) = FALSE
      BY <1>3, <1>4 DEF Ending, Ops, Range
  <2>2. Placed(NewCommand, FALSE, FALSE, FALSE, FALSE, FALSE, FALSE)
      BY DEF Placed, NewCommand, Started, OnSocket
  <2>3. Attached(NewCommand, FALSE)
      BY DEF Attached, NewCommand, Early, OnSocket
  <2>4. Sent(NewCommand, FALSE)
      BY Constants DEF Sent, NewCommand, Early, Started, OnSocket
  <2> QED
      BY <1>2, <2>1, <2>2, <2>3, <2>4, Zenon
<1>7. Telling
    BY <1>3 DEF Telling, Running
<1>8. Delays
  <2>1. ~Drains(stack) /\ InFrames(stack, "admit") = {}
      BY <1>3 DEF Drains, Ops
  <2>2. IsInjective(<<>>)
      BY DEF IsInjective
  <2> QED
      BY <1>3, <1>4, <2>1, <2>2, Constants DEF Delays, LoopOK, Goes
<1>9. Counts
  <2>1. \A S : CommandsIn(S) = 0
    <3> TAKE S
    <3>1. {c \in Cmd : InProcess(c) /\ ClusterOf[c] \in S} = {}
        BY <1>1, <1>2 DEF InProcess
    <3> QED
        BY <3>1, FS_EmptySet DEF CommandsIn
  <2> QED
      BY <1>4, <2>1 DEF Counts, Init
<1>10. Pools
  <2>1. \A k : Cardinality(Holding(k)) = 0
    <3> TAKE k
    <3>1. Holding(k) = {}
        BY <1>2 DEF Holding, NewCommand
    <3> QED
        BY <3>1, FS_EmptySet
  <2>2. \A k \in Cluster : pool[k].total = 0 /\ pool[k].idle = 0
      BY DEF Init
  <2> QED
      BY <2>1, <2>2, Constants DEF Pools
<1> QED
    BY <1>5, <1>6, <1>7, <1>8, <1>9, <1>10, Zenon DEF Inv

\* Every step keeps it.
LEMMA NextInv ==
    ASSUME Inv, [Next]_vars
    PROVE  Inv'
<1>1. CASE UNCHANGED vars
  <2>1. UNCHANGED <<cmd, loop, es, pool, stack, faults>>
      BY <1>1 DEF vars
  <2>2. loop \in Loops /\ Once(loop.queue) /\ es \in [Cluster -> EventStates] /\ pool \in [Cluster -> Slots] /\ Pools'
      BY <2>1, Stays
  <2> QED
      BY <2>1, <2>2, ClusterInv
<1>2. CASE Engine
    BY <1>2, WakeupInv, AdmitInv, DrainInv, FreeInv, TellInv, ExecuteInv, CloseCallbackInv, Zenon DEF Engine
<1>3. ASSUME NEW c \in Cmd, Issue(c) \/ IssueFails(c) \/ TellAndIssue(c) \/ Expire(c) PROVE Inv'
    BY <1>3, IssueInv, IssueFailsInv, TellAndIssueInv, ExpireInv, Zenon
<1>4. ASSUME NEW c \in Cmd, Timer(c) PROVE Inv'
    BY <1>4, ScheduledStartInv, DelayTimeoutInv, TotalTimerInv, ExecuteRetryInv, SocketTimerInv, Zenon DEF Timer
<1>5. ASSUME NEW c \in Cmd, Socket(c) PROVE Inv'
    BY <1>5, ConnectedInv, WriteInv, ParseErrorInv, ReadErrorInv, ReadSomeInv, CompleteInv, ResponseErrorInv, Zenon
    DEF Socket
<1>6. ASSUME NEW k \in Cluster, Trim(k) \/ CloseCluster(k) \/ OtherLoopCloses(k) PROVE Inv'
    BY <1>6, TrimInv, CloseClusterInv, OtherLoopClosesInv
<1>7. CASE Finished
    BY <1>1, <1>7 DEF Finished
<1> QED
    BY <1>1, <1>2, <1>3, <1>4, <1>5, <1>6, <1>7, Zenon DEF Next

\* The invariant holds throughout.
LEMMA Invariant == Spec => []Inv
<1>1. Init => Inv
    BY InitInv
<1>2. Inv /\ [Next]_vars => Inv'
    BY NextInv
<1> QED
    BY <1>1, <1>2, PTL DEF Spec

-----------------------------------------------------------------------------
(* The theorems.                                                            *)

\* The counters of the engine are exact on every path through as_event.c: a command is
\* counted in pending of its loop and of its cluster from its start to its release, and
\* never more than max_commands_in_process are; the delay queue holds the delayed
\* commands, each once and within its limit; a slot of a pool is an idle connection or
\* one that a command holds.
THEOREM CountersExact == Spec => []CountsExact
<1>1. Inv => TypeOK
  <2> SUFFICES ASSUME Inv PROVE TypeOK
      OBVIOUS
  <2>1. Types /\ Commands /\ LoopOK(loop, stack)
      BY DEF Inv, Delays
  <2>2. ASSUME NEW c \in Cmd
        PROVE  /\ cmd[c] \in Command /\ cmd[c].iteration <= MaxRetries + 1 /\ cmd[c].copies <= cmd[c].sent
               /\ cmd[c].sent <= MaxRetries + 1 /\ (cmd[c].state = "DELAY_QUEUE" => c \in Range(loop.delay))
               /\ c \in Range(loop.delay) => cmd[c].state \in {"DELAY_QUEUE", "QUEUE_ERROR"}
    <3>1. cmd[c] \in Command
        BY <2>1 DEF Types
    <3>2. Sent(cmd[c], Ending(c))
        BY <2>1 DEF Commands
    <3>3. /\ cmd[c].state = "DELAY_QUEUE" => c \in Range(loop.delay)
          /\ c \in Range(loop.delay) => cmd[c].state \in {"DELAY_QUEUE", "QUEUE_ERROR"}
        BY <2>1 DEF Commands, Placed
    <3> QED
        BY <3>1, <3>2, <3>3 DEF Sent
  <2>3. ASSUME NEW c \in Cmd
        PROVE  /\ cmd[c].conn \in {"null", "open", "stale"} /\ cmd[c].timer \in {"none", "zero", "once", "repeat"}
               /\ cmd[c].iteration \in 0..(MaxRetries + 1) /\ cmd[c].copies \in 0..(MaxRetries + 1)
    <3>1. /\ cmd[c].conn \in {"null", "open", "stale"} /\ cmd[c].timer \in {"none", "zero", "once", "repeat"}
          /\ cmd[c].iteration \in Nat /\ cmd[c].copies \in Nat /\ cmd[c].sent \in Nat
        BY <2>2 DEF Command
    <3> QED
        BY <2>2, <3>1, Constants
  <2>4. Range(loop.delay) \subseteq Cmd
      BY <2>1 DEF Types, Loops, Range
  <2>5. IsInjective(loop.delay) /\ (MaxInQueue > 0 => Len(loop.delay) <= MaxInQueue)
      BY <2>1 DEF LoopOK
  <2> QED
      BY <2>2, <2>3, <2>4, <2>5 DEF TypeOK
<1>2. Inv => PendingExact
    BY Zenon DEF Inv, Counts, Delays, LoopOK, PendingExact
<1>3. Inv => PoolExact
  <2> SUFFICES ASSUME Inv PROVE PoolExact
      OBVIOUS
  <2>1. \A k \in Cluster : pool[k].idle \in Nat
      BY DEF Inv, Types, Slots
  <2> QED
      BY <2>1 DEF Inv, Pools, Holding, PoolExact
<1> QED
    BY <1>1, <1>2, <1>3, Invariant, PTL DEF CountsExact

\* No wake-up of the delay queue is lost: whenever the loop thread returns to its event
\* library, commands are delayed only behind a full loop.  A command that ends inside a
\* drain, a listener that issues another one or a start that fails leaves the drain that
\* runs (using_delay_queue) to go on.
THEOREM NoWakeupLost == Spec => []WorkConserving
<1>1. Inv => WorkConserving
  <2> SUFFICES ASSUME Inv, Idle, loop.delay # <<>> PROVE loop.pending = MaxInProcess
      BY DEF WorkConserving
  <2>1. LoopOK(loop, stack) /\ loop.pending \in Nat
      BY DEF Inv, Delays, Types, Loops
  <2>2. ~Drains(stack)
      BY DEF Idle, Drains, InFrames
  <2>3. ~(loop.pending < MaxInProcess) /\ MaxInProcess # 0
      BY <2>1, <2>2 DEF LoopOK, Goes
  <2>4. MaxInProcess \in Nat /\ loop.pending <= MaxInProcess
      BY <2>1, <2>3, Constants DEF LoopOK
  <2> QED
      BY <2>1, <2>3, <2>4
<1> QED
    BY <1>1, Invariant, PTL

\* A new command is never started while another waits in the delay queue
\* (as_event_command_execute_in_loop), also one that a listener issues inside a drain.
THEOREM DelayedFirst == Spec => NoOvertaking
<1>1. ASSUME Inv, Running("admit"), [Next]_vars, loop'.pending > loop.pending
      PROVE  loop.delay = <<>>
  <2>1. loop \in Loops /\ ~Goes(loop) /\ MaxInProcess > 0
      BY <1>1, FromFrame DEF Inv, Types
  <2> SUFFICES ASSUME loop.delay # <<>> PROVE FALSE
      OBVIOUS
  <2>2. loop.pending = MaxInProcess
    <3>1. LoopOK(loop, stack) /\ loop.pending \in Nat /\ MaxInProcess \in Nat
        BY <1>1, <2>1, Constants DEF Inv, Delays, Loops
    <3>2. loop.pending <= MaxInProcess /\ ~(loop.pending < MaxInProcess)
        BY <2>1, <3>1 DEF LoopOK, Goes
    <3> QED
        BY <3>1, <3>2
  <2>3. Inv'
      BY <1>1, NextInv, Zenon
  <2>4. loop'.pending <= MaxInProcess /\ loop'.pending \in Nat
      BY <2>1, <2>3 DEF Inv, Delays, LoopOK, Types, Loops
  <2> QED
      BY <1>1, <2>1, <2>2, <2>4 DEF Loops
<1>2. Inv /\ [Next]_vars => [Running("admit") /\ loop'.pending > loop.pending => loop.delay = <<>>]_vars
    BY <1>1
<1> QED
    BY <1>2, Invariant, PTL DEF Spec, NoOvertaking

\* A listener is called at most once, a command is freed only after its listener was
\* called, and no timer or connection is left that could use a freed command.
THEOREM ListenerOnce == Spec => []ReportedOnce
<1>1. Inv => ReportedOnce
  <2> SUFFICES ASSUME Inv, NEW c \in Cmd
               PROVE  /\ Len(cmd[c].result) <= 1
                      /\ cmd[c].state = "FREED" =>
                           Len(cmd[c].result) = 1 /\ cmd[c].timer = "none" /\ cmd[c].conn # "open"
      BY Zenon DEF ReportedOnce
  <2> DEFINE told == c \in InFrames(stack, "tell")
             cm == cmd[c]
  <2>1. /\ Attached(cm, Ending(c)) /\ cm \in Command
        /\ told => cm.result = <<>>
        /\ (cm.state = "QUEUE_ERROR" \/ Ending(c)) /\ ~told => Len(cm.result) = 1
        /\ cm.state \in Started /\ ~Ending(c) => cm.result = <<>>
      BY DEF Inv, Commands, Placed, Types
  <2>2. cm.state \in Early \/ cm.state \in Started \/ cm.state \in {"QUEUE_ERROR", "FREED"}
      BY <2>1 DEF Command, States
  <2>3. cm.result = <<>> \/ Len(cm.result) = 1
      BY <2>1, <2>2 DEF Attached
  <2>4. Len(<<>>) = 0
      OBVIOUS
  <2>5. cm.state = "FREED" => Len(cm.result) = 1 /\ cm.timer = "none" /\ cm.conn # "open"
      BY <2>1 DEF Attached
  <2>6. Len(cm.result) = 0 \/ Len(cm.result) = 1
      BY <2>3, <2>4
  <2>7. \A n \in {0, 1} : n <= 1
      OBVIOUS
  <2>8. Len(cm.result) <= 1
      BY <2>6, <2>7, Zenon
  <2> QED
      BY <2>5, <2>8
<1> QED
    BY <1>1, Invariant, PTL

\* Without authentication an error that is reported without in_doubt means that the
\* server applied no copy of the command, however often it was sent, timed out or was
\* retried.  (With authentication a retry refused at login clears the doubt.)
THEOREM ErrorsHonest == ASSUME ~Auth PROVE Spec => []HonestInDoubt
<1>1. Inv => HonestInDoubt
    BY DEF Inv, Commands, Sent, HonestInDoubt
<1> QED
    BY <1>1, Invariant, PTL
=============================================================================
