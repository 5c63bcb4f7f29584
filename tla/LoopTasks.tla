------------------------------ MODULE LoopTasks ------------------------------
(***************************************************************************)
(* What threads ask of the event loops: to open a node's minimum           *)
(* connections, to balance its pools, and to close the cluster (the last   *)
(* part of as_event.c), with the tend thread that asks for the first two   *)
(* and as_cluster_destroy, which waits for the tend thread.                *)
(*                                                                         *)
(* A loop takes its tasks in order.  The state shared by the loops for one *)
(* request belongs to the thread that waits for it (its stack), or to the  *)
(* last loop to be done with it; "bad" records a use of it afterwards.     *)
(***************************************************************************)
EXTENDS Integers, Sequences, FiniteSets

CONSTANTS
    Loops,
    MaxShared,   \* connectors that may exist at a time
    Setups       \* [min, limit, concur, ops, refuse, sync, user, single, close]: min: minimum connections of each
                 \* loop; ops: what the tend thread does, in turn; refuse: a loop may take no task;
                 \* sync: a connection may fail at once; user: commands of the user; single: the user
                 \* drives the loops (libevent); close: the user closes the cluster

VARIABLE s

RECURSIVE connector_execute_command(_, _, _), connector_create_commands(_, _, _, _)

Then(S, F(_)) == UNION {F(x) : x \in S}

NoShared == [type |-> "none", loop |-> 0, start |-> 0, count |-> 0, max |-> 0, concur |-> 0, error |-> FALSE, flight |-> 0]

Init ==
    \E c \in Setups :
        s = [setup |-> c, cs |-> [i \in 1..MaxShared |-> NoShared],
             pool |-> [l \in Loops |-> [total |-> 0, idle |-> 0]], pending |-> [l \in Loops |-> 0],
             q |-> [l \in Loops |-> <<>>], closed |-> [l \in Loops |-> FALSE], registered |-> {},
             tend |-> [pc |-> "sleep", at |-> 1, ops |-> c.ops], group |-> [up |-> FALSE, count |-> 0, queued |-> 0],
             heap |-> [up |-> FALSE, count |-> 0], close |-> [at |-> 0, count |-> 0, monitor |-> FALSE],
             destroyer |-> 0, valid |-> TRUE, destroyed |-> FALSE, bad |-> {}]

Bad(x, cond, what) == IF cond THEN [x EXCEPT !.bad = @ \cup {what}] ELSE x

-----------------------------------------------------------------------------
(* Connectors.                                                              *)

\* The waiting thread may go on, and its stack with the connectors is gone.
connector_shared_wait_release(x) == [x EXCEPT !.group.count = @ - 1]

connector_shared_nowait_release(x) == [x EXCEPT !.heap = [up |-> @.count > 1, count |-> @.count - 1]]

connector_complete(x, i) ==
    LET y == [x EXCEPT !.cs[i] = NoShared]
    IN  CASE x.cs[i].type = "single" -> y
          [] x.cs[i].type = "wait" -> connector_shared_wait_release(y)
          [] OTHER -> connector_shared_nowait_release(y)

connector_command_complete(x, i) ==
    LET y == [x EXCEPT !.cs[i].count = @ + 1]
        c == y.cs[i]
    IN  IF c.count = c.max THEN {connector_complete(y, i)}
        ELSE IF c.start < c.max /\ ~c.error
        THEN connector_execute_command([y EXCEPT !.cs[i].start = @ + 1], i, c.loop)
        ELSE {y}

AbortUncounted(x, i) ==  \* mutant
    connector_command_complete([x EXCEPT !.cs[i].error = TRUE], i)
connector_abort(x, i) ==
    connector_command_complete(
        IF x.cs[i].error THEN x
        ELSE [x EXCEPT !.cs[i].count = @ + x.cs[i].max - x.cs[i].start, !.cs[i].error = TRUE], i)

\* The command is released first: its connection is closed and it no longer pends.
Released(x, i) == [x EXCEPT !.cs[i].flight = @ - 1, !.pending[x.cs[i].loop] = @ - 1]
connector_error(x, i) ==
    connector_abort([Released(x, i) EXCEPT !.pool[x.cs[i].loop].total = @ - 1], i)

as_event_connector_success(x, i) ==
    connector_command_complete([Released(x, i) EXCEPT !.pool[x.cs[i].loop].idle = @ + 1], i)

connector_execute_command(x, i, l) ==
    LET y == [x EXCEPT !.cs[i].flight = @ + 1, !.pending[l] = @ + 1, !.pool[l].total = @ + 1]
    IN  IF x.pool[l].total >= x.setup.limit THEN connector_abort(x, i)
        ELSE {y} \cup (IF x.setup.sync THEN connector_error(y, i) ELSE {})

\* Where the connectors of a request that has ended were: on the stack of the thread that
\* waited, in the array the last of them frees, or by itself.
Gone(x, type) == (type = "wait" => x.group.count = 0) /\ (type = "nowait" => x.heap.count = 0)

\* The loop reads the number of commands to start again after each of them, when a
\* failure may have ended the connector; it ends with the last of them.
connector_create_commands(x, i, l, k) ==
    LET concur == x.cs[i].concur
        Again(y) ==
            IF y.cs[i].type = "none" THEN {Bad(y, Gone(y, x.cs[i].type), "connector")}
            ELSE IF k < concur THEN connector_create_commands(y, i, l, k + 1) ELSE {y}
    IN  Then(connector_execute_command(IF k = 1 THEN [x EXCEPT !.cs[i].start = concur] ELSE x, i, l), Again)

FreeShared(x) == {i \in 1..MaxShared : x.cs[i].type = "none"}

\* A loop opens up to concur (20 / loops + 1) connections at a time.
NewShared(type, l, max, concur) == [NoShared EXCEPT !.type = type, !.loop = l, !.max = max, !.concur = concur]

Concurrent(x, l) == IF x.setup.min[l] >= x.setup.concur THEN x.setup.concur ELSE x.setup.min[l]

create_connections(x, l, count) ==
    LET i == CHOOSE j \in FreeShared(x) : TRUE
    IN  connector_create_commands([x EXCEPT !.cs[i] = NewShared("single", l, count, 1)], i, l, 1)

-----------------------------------------------------------------------------
(* Tasks.  A loop that is not up takes none.                                *)

as_event_execute(x, l, task) == [x EXCEPT !.q[l] = Append(@, task)]

\* The loop's share of a request: a connector where it has a minimum, or the balancer.
create_connections_wait(x, l, i) ==
    IF x.setup.min[l] = 0 THEN {connector_shared_wait_release(x)}
    ELSE {[as_event_execute(x, l, [kind |-> "connect", shared |-> i]) EXCEPT
              !.cs[i] = NewShared("wait", l, x.setup.min[l], Concurrent(x, l)), !.group.queued = @ + 1]}
         \cup (IF x.setup.refuse THEN {connector_shared_wait_release(x)} ELSE {})

\* A loop without a minimum is not counted off.
create_connections_nowait(x, l, i) ==
    IF x.setup.min[l] = 0 THEN {x}
    ELSE {[as_event_execute(x, l, [kind |-> "connect", shared |-> i]) EXCEPT
              !.cs[i] = NewShared("nowait", l, x.setup.min[l], Concurrent(x, l))]}
         \cup (IF x.setup.refuse THEN {connector_shared_nowait_release(x)} ELSE {})

as_event_balance_connections(x, l) ==
    {[as_event_execute(x, l, [kind |-> "balance", shared |-> 0]) EXCEPT !.group.queued = @ + 1]}
    \cup (IF x.setup.refuse THEN {connector_shared_wait_release(x)} ELSE {})
as_event_node_balance_connections(x, l) == as_event_balance_connections(x, l)

\* The oldest idle connections are closed while they are too old, up to the excess.
close_idle_connections(x, l, count) ==
    {[x EXCEPT !.pool[l].idle = @ - n, !.pool[l].total = @ - n] :
        n \in {k \in 0..count : k <= x.pool[l].idle}}

ExcessOfOne(x, l) ==  \* mutant
    LET excess == x.pool[l].total - x.setup.min[l] + 1
    IN  IF excess > 0 THEN close_idle_connections(x, l, excess)
        ELSE IF excess < 0 THEN create_connections(x, l, -excess) ELSE {x}
as_event_balance_connections_node(x, l) ==
    LET excess == x.pool[l].total - x.setup.min[l]
    IN  IF excess > 0 THEN close_idle_connections(x, l, excess)
        ELSE IF excess < 0 THEN {x} \cup create_connections(x, l, -excess)  \* the node's error rate may forbid it
        ELSE {x}
as_event_balance_connections_cluster(x, l) == as_event_balance_connections_node(Bad(x, x.destroyed, "cluster"), l)

balancer_in_loop_cluster(x, l) ==
    {connector_shared_wait_release(Bad(y, ~y.group.up, "balancer")) : y \in as_event_balance_connections_cluster(x, l)}

\* The last loop destroys the cluster, and so waits for the tend thread.
as_event_close_cluster_event_loop(x, l, by) ==
    [x EXCEPT !.closed[l] = TRUE, !.close.count = @ - 1, !.destroyer = IF x.close.count = 1 THEN by ELSE @]

\* A loop with commands puts the close off, and closes nevertheless when it cannot.
CloseWithPending(x, l) ==  \* mutant
    IF x.closed[l] THEN {x} ELSE {as_event_close_cluster_event_loop(x, l, l)}
as_event_close_cluster_cb(x, l) ==
    IF x.closed[l] THEN {x}
    ELSE (IF x.pending[l] > 0 THEN {as_event_execute(x, l, [kind |-> "close", shared |-> 0])} ELSE {})
         \cup (IF x.pending[l] = 0 \/ x.setup.refuse THEN {as_event_close_cluster_event_loop(x, l, l)} ELSE {})

RunTask(l) ==
    /\ s.q[l] # <<>> /\ s.destroyer # l
    /\ LET task == Head(s.q[l])
           x == [s EXCEPT !.q[l] = Tail(@)]
       IN  CASE task.kind = "connect" ->
                    s' \in connector_create_commands(Bad(x, x.destroyed, "cluster"), task.shared, l, 1)
             [] task.kind = "balance" -> s' \in balancer_in_loop_cluster(x, l)
             [] OTHER -> s' \in as_event_close_cluster_cb(x, l)

-----------------------------------------------------------------------------
(* The connections, and the user's commands, which take and return them.    *)

ConnectorEnds(l) ==
    \E i \in 1..MaxShared :
        /\ s.cs[i].flight > 0 /\ s.cs[i].loop = l /\ s.destroyer # l
        /\ s' \in as_event_connector_success(s, i) \cup connector_error(s, i)

CommandStarts(l) ==
    /\ s.setup.user /\ s.destroyer # l /\ ~s.closed[l] /\ s.close.at = 0 /\ s.pending[l] = 0
    /\ s.pool[l].idle > 0
    /\ s' = [s EXCEPT !.pending[l] = @ + 1, !.pool[l].idle = @ - 1]

Flights(x, l) == {i \in 1..MaxShared : x.cs[i].loop = l /\ x.cs[i].flight > 0}
CommandEnds(l) ==
    /\ s.setup.user /\ s.destroyer # l /\ s.pending[l] > 0 /\ Flights(s, l) = {}
    /\ \E ok \in BOOLEAN :
           s' = [s EXCEPT !.pending[l] = @ - 1, !.pool[l].idle = IF ok THEN @ + 1 ELSE @,
                          !.pool[l].total = IF ok THEN @ ELSE @ - 1]

-----------------------------------------------------------------------------
(* The tend thread: it holds tend_lock except while it sleeps.  as_cluster_ *)
(* manage balances every 30 tends, a node that is added gets its minimum    *)
(* connections, one that restarted is balanced.                             *)

NLoops == Cardinality(Loops)

TendStarts ==
    /\ s.tend.pc = "sleep" /\ s.valid /\ s.tend.ops # <<>>
    /\ s' = [s EXCEPT !.tend = [pc |-> Head(@.ops), at |-> 1, ops |-> Tail(@.ops)],
                      !.group = IF Head(s.tend.ops) = "nowait" THEN @ ELSE [up |-> TRUE, count |-> NLoops, queued |-> 0],
                      !.heap = IF Head(s.tend.ops) = "nowait" THEN [up |-> TRUE, count |-> NLoops] ELSE @]

\* "nowait" stands for a thread that is itself an event loop: as_in_event_loops.
TendQueues ==
    /\ s.tend.pc \in {"wait", "nowait", "balance", "restart"} /\ s.tend.at <= NLoops
    /\ LET l == s.tend.at
           x == [s EXCEPT !.tend.at = @ + 1]
           i == CHOOSE j \in FreeShared(s) : TRUE
       IN  s' \in CASE s.tend.pc = "wait" -> create_connections_wait(x, l, i)
                    [] s.tend.pc = "nowait" -> create_connections_nowait(x, l, i)
                    [] s.tend.pc = "balance" -> as_event_balance_connections(x, l)
                    [] OTHER -> as_event_node_balance_connections(x, l)

Woken(x) == x.group.count = 0 \/ (x.tend.pc = "wait" /\ x.group.queued = 0)

TendReturns ==
    /\ s.tend.pc \in {"wait", "nowait", "balance", "restart"} /\ s.tend.at > NLoops
    /\ s.tend.pc = "nowait" \/ Woken(s)
    /\ s' = [s EXCEPT !.tend.pc = "sleep", !.group = IF s.tend.pc = "nowait" THEN @ ELSE [up |-> FALSE, count |-> 0, queued |-> 0]]

TendExits ==
    /\ s.tend.pc = "sleep" /\ ~s.valid
    /\ s' = [s EXCEPT !.tend.pc = "exit"]

-----------------------------------------------------------------------------
(* aerospike_close.                                                         *)

\* A loop that takes no task is closed by the calling thread, which may then be the last.
Closer == NLoops + 1
as_event_close_cluster ==
    /\ s.setup.close /\ ~s.setup.single /\ s.close.at < NLoops
    /\ s.tend.pc # "nowait" /\ \A i \in DOMAIN s.tend.ops : s.tend.ops[i] # "nowait"  \* aerospike_connect returned
    /\ LET l == s.close.at + 1
           x == [s EXCEPT !.close.at = l, !.close.monitor = TRUE, !.close.count = IF l = 1 THEN NLoops ELSE @]
       IN  s' \in {as_event_execute(x, l, [kind |-> "close", shared |-> 0])}
                  \cup (IF s.setup.refuse THEN {as_event_close_cluster_event_loop(x, l, Closer)} ELSE {})

\* as_cluster_destroy in the loop, or the thread, that was last: it takes tend_lock, stops the tend
\* thread, and joins it.
as_cluster_destroy ==
    /\ s.destroyer # 0 /\ ~s.destroyed
    /\ \/ s.valid /\ s.tend.pc = "sleep" /\ s' = [s EXCEPT !.valid = FALSE]
       \/ ~s.valid /\ s.tend.pc = "exit"
          /\ s' = [s EXCEPT !.destroyed = TRUE, !.close.monitor = FALSE, !.destroyer = 0,
                            !.pool = [l \in Loops |-> [total |-> 0, idle |-> 0]]]

\* With loops of the user's own (libevent) the timer balances, each loop is closed by
\* the user, and the cluster is destroyed once all listeners were called.
as_event_loop_register_aerospike(l) ==
    /\ s.setup.single /\ l \notin s.registered /\ ~s.closed[l] /\ s.q[l] = <<>>
    /\ \E x \in IF s.setup.min[l] > 0 THEN as_event_balance_connections_cluster(s, l) ELSE {s} :
           s' = [x EXCEPT !.registered = @ \cup {l}]
as_libevent_balance_conn(l) ==
    /\ s.setup.single /\ l \in s.registered /\ Flights(s, l) = {}
    /\ s' \in as_event_balance_connections_cluster(s, l)

as_event_loop_close_aerospike(l) ==
    /\ s.setup.single /\ s.setup.close /\ l \in s.registered
    /\ s' = [s EXCEPT !.registered = @ \ {l}, !.closed[l] = s.pending[l] = 0,
                      !.q[l] = IF s.pending[l] = 0 THEN @ ELSE Append(@, [kind |-> "timer", shared |-> 0])]

as_event_loop_close_aerospike_cb(l) ==
    /\ s.q[l] # <<>> /\ Head(s.q[l]).kind = "timer" /\ s.pending[l] = 0
    /\ s' = [s EXCEPT !.q[l] = Tail(@), !.closed[l] = TRUE]

aerospike_close ==
    /\ s.setup.single /\ (\A l \in Loops : s.closed[l]) /\ ~s.destroyed
    /\ s' = [s EXCEPT !.destroyed = TRUE, !.valid = FALSE, !.tend.pc = "exit"]

-----------------------------------------------------------------------------

Loop(l) == (s.q[l] # <<>> /\ Head(s.q[l]).kind # "timer" /\ RunTask(l)) \/ as_event_loop_close_aerospike_cb(l)
TendStep == TendStarts \/ TendQueues \/ TendReturns \/ TendExits

Next ==
    \/ \E l \in Loops :
          \/ Loop(l) \/ ConnectorEnds(l) \/ CommandStarts(l) \/ CommandEnds(l)
          \/ as_event_loop_register_aerospike(l) \/ as_libevent_balance_conn(l) \/ as_event_loop_close_aerospike(l)
    \/ TendStep \/ as_event_close_cluster \/ as_cluster_destroy \/ aerospike_close

\* Loops run, threads run, and commands end: each has a timer.
Fairness ==
    /\ \A l \in Loops : WF_s(Loop(l)) /\ WF_s(ConnectorEnds(l)) /\ WF_s(CommandEnds(l))
    /\ WF_s(TendStep) /\ WF_s(as_event_close_cluster) /\ WF_s(as_cluster_destroy)

Spec == Init /\ [][Next]_s /\ Fairness

-----------------------------------------------------------------------------
(* Properties.                                                              *)

\* No loop works for a request whose owner went on, on a connector that was released, nor
\* on a destroyed cluster: the threads wait for every loop, the last connector to end
\* releases what they share, and the last loop to be done closes.
SharedOutlives == s.bad = {} /\ s.group.count >= 0 /\ s.heap.count >= 0

\* The cluster is destroyed when no loop has a command of it pending.
DestroyedQuiet == s.destroyed => \A l \in Loops : s.pending[l] = 0

\* Balancing a pool never closes below its minimum, whatever connectors and commands
\* are under way on the loop.
BalanceKeepsMinimum ==
    [][\A l \in Loops :
          s.q[l] # <<>> /\ Head(s.q[l]).kind = "balance" /\ s'.q[l] = Tail(s.q[l])
            /\ s.pool[l].total >= s.setup.min[l] => s'.pool[l].total >= s.setup.min[l]]_s

\* A cluster that is being closed is destroyed, and the thread in aerospike_close goes on.
EventuallyDestroyed == (s.close.at = NLoops) ~> s.destroyed
=============================================================================
