---------------------------- MODULE QueryForeach ----------------------------
(***************************************************************************)
(* A synchronous query or scan: the caller hands one task per node to the  *)
(* thread pool of the cluster, or runs them itself, and waits for them; an *)
(* aggregation runs in a thread of the same pool and reads what the nodes  *)
(* sent.  The ways through the code ("kind"):                              *)
(*   query, scan       as_query_partitions, as_scan_partitions: rounds     *)
(*   old, background   as_query_execute, with and without a callback       *)
(*   aggregate         as_query_execute feeding as_query_aggregate         *)
(*   scan_background   as_scan_generic                                     *)
(***************************************************************************)
EXTENDS Integers, Sequences, FiniteSets

CONSTANTS
    Setups       \* calls: [kind, nodes, threads, concurrent, validate, records, rounds, abort, refuse]

VARIABLES
    setup,       \* the call: nodes of the cluster, threads of the pool (0: none), whether
                 \* fail_on_cluster_change, records per node, rounds allowed, whether the user
                 \* may stop it, whether the pool may refuse a task
    caller,      \* where the caller is
    n,           \* n_nodes of the round
    next,        \* the next task to hand out
    popped,      \* results taken from complete_q
    status,      \* the status the call returns
    err,         \* the code in the caller's as_error
    error_mutex, \* shared by the tasks of a round
    cluster_key, \* whether the tasks check that the cluster did not change
    task,        \* per node: where its task is, its result, the records it still has, whether
                 \* the node's last message came
    pool,        \* tasks queued to the thread pool; 0 is the aggregation
    complete_q,  \* results pushed by the tasks
    retry,       \* nodes whose partitions go into the next round
    iteration,   \* the round
    aggr,        \* the aggregation: none, queued, running, reading, ending, done
    input,       \* the values sent to it that it has not read; "end" is the NULL
    aggr_q,      \* its result
    user         \* the user's callback: [nulls, late, stopped]

vars == <<setup, caller, n, next, popped, status, err, error_mutex, cluster_key, task, pool, complete_q, retry,
          iteration, aggr, input, aggr_q, user>>
shared == <<error_mutex, err>>
round == <<n, retry, iteration, cluster_key>>

AEROSPIKE_OK == "OK"
CLIENT_ABORT == "CLIENT_ABORT"      \* the user's callback returned false
QUERY_ABORTED == "QUERY_ABORTED"    \* another task failed

Nodes == 1..setup.nodes
ByPartition == setup.kind \in {"query", "scan"}
Executes == setup.kind \in {"old", "background", "aggregate"}
HasCallback == setup.kind \in {"old", "query", "scan"}

\* Whether the tasks go to the pool or are run by the caller, one after the other.
Parallel ==
    CASE Executes -> setup.threads > 0
      [] setup.kind = "query" -> n > 1
      [] setup.kind = "scan" -> setup.concurrent /\ n > 1
      [] OTHER -> setup.concurrent

Idle == [pc |-> "idle", result |-> AEROSPIKE_OK, left |-> 0, heard |-> FALSE]
Running == {t \in Nodes : task[t].pc \in {"validate", "read", "check", "validate_end", "push"}}
Busy == (IF Parallel THEN Cardinality(Running) ELSE 0) + (IF aggr \in {"running", "reading", "ending"} THEN 1 ELSE 0)

Init ==
    /\ setup \in Setups
    /\ caller = "begin" /\ n = setup.nodes /\ next = 1 /\ popped = 0
    /\ status = AEROSPIKE_OK /\ err = AEROSPIKE_OK /\ error_mutex = FALSE /\ cluster_key = FALSE
    /\ task = [t \in Nodes |-> Idle] /\ pool = <<>> /\ complete_q = <<>> /\ retry = {} /\ iteration = 1
    /\ aggr = "none" /\ input = <<>> /\ aggr_q = <<>>
    /\ user = [nulls |-> 0, late |-> FALSE, stopped |-> FALSE]

-----------------------------------------------------------------------------
(* The caller                                                               *)

Goto(pc) == caller' = pc

\* What follows as_query_execute or a loop of rounds.
Return == Goto(IF setup.kind = "aggregate" THEN "aggregate_wait" ELSE "returned")

\* aerospike_query_foreach: the aggregation is queued before the tasks are.
Begin ==
    /\ caller = "begin"
    /\ \/ /\ IF setup.kind = "aggregate" THEN aggr' = "queued" /\ pool' = <<0>> ELSE UNCHANGED <<aggr, pool>>
          /\ Goto(CASE ByPartition -> "assign"
                    [] setup.kind \in {"old", "aggregate"} /\ setup.validate -> "validate"
                    [] OTHER -> "submit")
          /\ UNCHANGED <<status, err>>
       \/ /\ setup.kind = "aggregate" /\ setup.refuse
          /\ status' = "CLIENT" /\ err' = "CLIENT" /\ Goto("returned") /\ UNCHANGED <<aggr, pool>>
    /\ UNCHANGED <<setup, next, popped, error_mutex, round, task, complete_q, input, aggr_q, user>>

\* as_query_validate_begin on the first node; an error returns at once.
ValidateBegin ==
    /\ caller = "validate"
    /\ \/ cluster_key' = TRUE /\ Goto("submit") /\ UNCHANGED <<status, err>>
       \/ status' = "CLUSTER_CHANGE" /\ err' = "CLUSTER_CHANGE" /\ Return /\ UNCHANGED cluster_key
    /\ UNCHANGED <<setup, n, next, popped, error_mutex, task, pool, complete_q, retry, iteration, aggr, input, aggr_q, user>>

\* as_partition_tracker_assign: the nodes of a round, those that failed at least.
Assign ==
    /\ caller = "assign"
    /\ \/ /\ n' \in 1..setup.nodes
          /\ error_mutex' = FALSE /\ task' = [t \in Nodes |-> Idle] /\ retry' = {}
          /\ next' = 1 /\ popped' = 0 /\ Goto("submit") /\ UNCHANGED <<status, err>>
       \/ /\ status' = "INVALID_NODE" /\ err' = "INVALID_NODE" /\ Goto("returned")
          /\ UNCHANGED <<n, error_mutex, task, retry, next, popped>>
    /\ UNCHANGED <<setup, iteration, cluster_key, pool, complete_q, aggr, input, aggr_q, user>>

\* as_thread_pool_queue_task took the task, or refused it and the rest is given up.
Submit ==
    /\ caller = "submit" /\ Parallel
    /\ \/ /\ pool' = Append(pool, next) /\ task' = [task EXCEPT ![next].pc = "queued"]
          /\ next' = next + 1 /\ (IF next = n THEN Goto("wait") ELSE UNCHANGED caller)
          /\ UNCHANGED <<status, shared>>
       \/ /\ setup.refuse
          /\ error_mutex' = TRUE /\ Goto("wait")
          /\ IF error_mutex THEN UNCHANGED <<status, err>> ELSE status' = "CLIENT" /\ err' = "CLIENT"
          /\ UNCHANGED <<next, task, pool>>
    /\ UNCHANGED <<setup, popped, round, complete_q, aggr, input, aggr_q, user>>

\* as_query_command_execute_old and the like: a task begins, after a check that the
\* cluster is still the one the first task saw.
Started(t) == [pc |-> IF cluster_key /\ t # 1 THEN "validate" ELSE "read", result |-> AEROSPIKE_OK, left |-> setup.records,
               heard |-> FALSE]

RunInline ==
    /\ caller = "submit" /\ ~Parallel
    /\ task' = [task EXCEPT ![next] = Started(next)]
    /\ next' = next + 1 /\ Goto("inline")
    /\ UNCHANGED <<setup, popped, status, shared, round, pool, complete_q, aggr, input, aggr_q, user>>

\* The series stops at the first error.
InlineDone ==
    /\ caller = "inline" /\ complete_q # <<>>
    /\ status' = Head(complete_q) /\ complete_q' = Tail(complete_q)
    /\ Goto(IF status' # AEROSPIKE_OK \/ next > n THEN "after" ELSE "submit")
    /\ UNCHANGED <<setup, next, popped, shared, round, task, pool, aggr, input, aggr_q, user>>

FirstError(result) == IF result # AEROSPIKE_OK /\ status = AEROSPIKE_OK THEN result ELSE status

\* n_wait_nodes: the tasks that were queued.
WaitsForAll == n  \* mutant
Waits == next - 1

Wait ==
    /\ caller = "wait"
    /\ \/ /\ popped < Waits /\ complete_q # <<>>
          /\ status' = FirstError(Head(complete_q)) /\ complete_q' = Tail(complete_q) /\ popped' = popped + 1
          /\ UNCHANGED caller
       \/ /\ popped >= Waits
          /\ Goto("after") /\ UNCHANGED <<status, complete_q, popped>>
    /\ UNCHANGED <<setup, next, shared, round, task, pool, aggr, input, aggr_q, user>>

\* The user's stop is a success.
Forgiven == IF status = CLIENT_ABORT THEN AEROSPIKE_OK ELSE status

SignalUser == user' = [user EXCEPT !.nulls = @ + 1]

\* The end of as_query_execute: the callback is told whatever the status is.
ExecuteEnds ==
    /\ caller = "after" /\ Executes
    /\ status' = Forgiven /\ Return
    /\ IF setup.kind = "aggregate" THEN input' = Append(input, "end") ELSE UNCHANGED input
    /\ IF HasCallback THEN SignalUser ELSE UNCHANGED user
    /\ UNCHANGED <<setup, next, popped, shared, round, task, pool, complete_q, aggr, aggr_q>>

\* The end of as_scan_generic, called without a callback.
GenericEnds ==
    /\ caller = "after" /\ setup.kind = "scan_background"
    /\ status' = Forgiven /\ Goto("returned")
    /\ UNCHANGED <<setup, next, popped, shared, round, task, pool, complete_q, aggr, input, aggr_q, user>>

\* The end of a round of as_query_partitions and as_scan_partitions, with
\* as_partition_tracker_is_complete; the callback is told on success only.
RoundEnds ==
    /\ caller = "after" /\ ByPartition
    /\ CASE status = CLIENT_ABORT ->
                status' = AEROSPIKE_OK /\ SignalUser /\ Goto("returned") /\ UNCHANGED <<err, iteration>>
         [] status \notin {AEROSPIKE_OK, CLIENT_ABORT} ->
                Goto("returned") /\ UNCHANGED <<status, err, user, iteration>>
         [] status = AEROSPIKE_OK /\ retry = {} ->
                SignalUser /\ Goto("returned") /\ UNCHANGED <<status, err, iteration>>
         [] status = AEROSPIKE_OK /\ retry # {} /\ iteration < setup.rounds ->
                iteration' = iteration + 1 /\ Goto("assign") /\ UNCHANGED <<status, err, user>>
         [] OTHER ->
                status' = "MAX_RETRIES" /\ err' = "MAX_RETRIES" /\ Goto("returned") /\ UNCHANGED <<user, iteration>>
    /\ UNCHANGED <<setup, n, next, popped, error_mutex, cluster_key, task, pool, complete_q, retry, aggr, input, aggr_q>>

\* The caller of as_query_execute waits for the aggregation.
AggregateWait ==
    /\ caller = "aggregate_wait" /\ aggr_q # <<>>
    /\ status' = FirstError(Head(aggr_q)) /\ aggr_q' = <<>> /\ input' = <<>> /\ Goto("returned")
    /\ UNCHANGED <<setup, next, popped, shared, round, task, pool, complete_q, aggr, user>>

CallerStep ==
    Begin \/ ValidateBegin \/ Assign \/ Submit \/ RunInline \/ InlineDone \/ Wait \/ ExecuteEnds \/ GenericEnds
    \/ RoundEnds \/ AggregateWait

-----------------------------------------------------------------------------
(* The task of a node                                                       *)

AtTask == <<setup, caller, next, popped, status, round, complete_q, aggr, aggr_q>>

Finish(t, result) == task' = [task EXCEPT ![t].pc = "push", ![t].result = result]

\* The main error is set only once, and not by a stop of the user.
Fail(t, s) ==
    /\ error_mutex' = TRUE
    /\ err' = IF ~error_mutex /\ s # CLIENT_ABORT THEN s ELSE err
    /\ Finish(t, s)

\* as_query_worker_old, as_query_worker_new, as_scan_worker
Worker(t) ==
    /\ task[t].pc = "queued" /\ Busy < setup.threads /\ pool # <<>> /\ Head(pool) = t
    /\ pool' = Tail(pool)
    /\ IF error_mutex THEN Finish(t, QUERY_ABORTED) ELSE task' = [task EXCEPT ![t] = Started(t)]
    /\ UNCHANGED <<AtTask, shared, input, user>>

\* as_query_validate: the cluster is asked again before the command and after it.
Validate(t) ==
    /\ task[t].pc \in {"validate", "validate_end"}
    /\ \/ Fail(t, "CLUSTER_CHANGE")
       \/ /\ UNCHANGED shared
          /\ IF task[t].pc = "validate" THEN task' = [task EXCEPT ![t].pc = "read"] ELSE Finish(t, AEROSPIKE_OK)
    /\ UNCHANGED <<AtTask, pool, input, user>>

\* as_query_parse_record, as_scan_parse_record: a record for the user or a value for
\* the aggregation; a background query expects none.
Record(t) ==
    /\ task[t].pc = "read" /\ task[t].left > 0
    /\ CASE setup.kind = "aggregate" ->
                /\ input' = Append(input, "val") /\ UNCHANGED <<user, shared>>
                /\ task' = [task EXCEPT ![t].left = @ - 1, ![t].pc = "check"]
         [] setup.kind \in {"background", "scan_background"} ->
                Fail(t, "CLIENT") /\ UNCHANGED <<user, input>>
         [] OTHER ->
                /\ \/ setup.abort /\ Fail(t, CLIENT_ABORT) /\ user' = [user EXCEPT !.late = @ \/ user.nulls > 0, !.stopped = TRUE]
                   \/ /\ user' = [user EXCEPT !.late = @ \/ user.nulls > 0]
                      /\ task' = [task EXCEPT ![t].left = @ - 1, ![t].pc = "check"] /\ UNCHANGED shared
                /\ UNCHANGED input
    /\ UNCHANGED <<AtTask, pool>>

\* as_query_parse_records after a record: has another task failed?
Check(t) ==
    /\ task[t].pc = "check"
    /\ IF error_mutex THEN Fail(t, QUERY_ABORTED) ELSE task' = [task EXCEPT ![t].pc = "read"] /\ UNCHANGED shared
    /\ UNCHANGED <<AtTask, pool, input, user>>

\* The node's last message.
Last_(t) ==
    /\ task[t].pc = "read"
    /\ task' = [task EXCEPT ![t].pc = IF cluster_key THEN "validate_end" ELSE "push", ![t].heard = TRUE]
    /\ UNCHANGED <<AtTask, shared, pool, input, user>>

RetryForgotten(t) == Finish(t, AEROSPIKE_OK) /\ UNCHANGED <<retry, shared>>  \* mutant
ShouldRetry(t) == ByPartition /\ retry' = retry \cup {t} /\ Finish(t, AEROSPIKE_OK) /\ UNCHANGED shared

\* The command failed; as_partition_tracker_should_retry may leave the node to the
\* next round.
Fails(t) ==
    /\ task[t].pc = "read"
    /\ ShouldRetry(t) \/ (Fail(t, "FAILED") /\ UNCHANGED retry)
    /\ UNCHANGED <<setup, caller, next, popped, status, n, iteration, cluster_key, complete_q, aggr, aggr_q, pool, input, user>>

Push(t) ==
    /\ task[t].pc = "push"
    /\ complete_q' = Append(complete_q, task[t].result) /\ task' = [task EXCEPT ![t].pc = "done"]
    /\ UNCHANGED <<setup, caller, next, popped, status, round, aggr, aggr_q, shared, pool, input, user>>

TaskStep(t) ==
    Worker(t) \/ Validate(t) \/ Record(t) \/ Check(t) \/ Last_(t) \/ Fails(t) \/ Push(t)

-----------------------------------------------------------------------------
(* The aggregation, as_query_aggregate: the Lua module is external.         *)

AtAggregate == <<setup, caller, next, popped, status, round, task, complete_q, user>>

AggregateStarts ==
    /\ aggr = "queued" /\ Busy < setup.threads /\ pool # <<>> /\ Head(pool) = 0
    /\ pool' = Tail(pool) /\ aggr' = "running"
    /\ UNCHANGED <<AtAggregate, shared, input, aggr_q>>

\* as_input_stream_read waits for a value; NULL is the end.
AggregateReads ==
    /\ \/ aggr = "running" /\ aggr' = "reading" /\ UNCHANGED input
       \/ /\ aggr = "reading" /\ input # <<>>
          /\ input' = Tail(input) /\ aggr' = IF Head(input) = "val" THEN "running" ELSE "ending"
    /\ UNCHANGED <<AtAggregate, shared, pool, aggr_q>>

\* as_module_apply_stream returned; its error is the call's unless a task failed first.
AggregateEnds ==
    /\ \/ aggr = "ending" /\ aggr_q' = <<AEROSPIKE_OK>> /\ UNCHANGED shared
       \/ /\ aggr \in {"running", "ending"} /\ aggr_q' = <<"UDF">>
          /\ error_mutex' = TRUE /\ err' = (IF error_mutex THEN err ELSE "UDF")
    /\ aggr' = "done"
    /\ UNCHANGED <<AtAggregate, pool, input>>

AggregateStep == AggregateStarts \/ AggregateReads \/ AggregateEnds

-----------------------------------------------------------------------------
Next == CallerStep \/ (\E t \in Nodes : TaskStep(t)) \/ AggregateStep

\* A thread that can go on does; a server answers or the socket times out.
Fairness == WF_vars(CallerStep) /\ (\A t \in 1..3 : WF_vars(t \in Nodes /\ TaskStep(t))) /\ WF_vars(AggregateStep)
Spec == Init /\ [][Next]_vars /\ Fairness

-----------------------------------------------------------------------------
(* Properties                                                               *)

\* "It should be fine since the task only needs to be valid within this function"
\* (as_query_execute, as_query_partitions, as_scan_partitions, as_scan_generic): when
\* the call has returned, no thread has a task that lives on the caller's stack.
TasksWithinCall == caller = "returned" => Running = {} /\ pool = <<>> /\ aggr \in {"none", "done"}

\* The NULL that tells the user's callback that all is done comes once, after every
\* record, whichever thread delivers the last one.
NullComesLast == user.nulls <= 1 /\ ~user.late

\* A call that returns success, and was not stopped by the user, has heard the end
\* from every node of its last round, and left no node to another round.
OkMeansAll ==
    caller = "returned" /\ status = AEROSPIKE_OK /\ ~user.stopped =>
        retry = {} /\ err = AEROSPIKE_OK /\ \A t \in 1..n : task[t].pc = "done" /\ task[t].heard

\* "If user aborts query, command is considered successful": when the user's callback
\* stopped it and no node failed, the call returns AEROSPIKE_OK.
StopSucceeds == caller = "returned" /\ user.stopped /\ err = AEROSPIKE_OK => status = AEROSPIKE_OK
=============================================================================
