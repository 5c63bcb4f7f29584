------------------------------- MODULE MCScans -------------------------------
(***************************************************************************)
(* Requests to several nodes, for TLC.  A behaviour is that of one part:   *)
(* the asynchronous executor, the partition tracker, or the synchronous    *)
(* foreach functions with their threads.  The others stay where they start.*)
(***************************************************************************)
EXTENDS EventExecutor, PartitionTracker

CONSTANT Calls      \* synchronous calls

VARIABLE part

VARIABLES setup, sync_caller, n, next, popped, status, err, error_mutex, cluster_key, task, pool, complete_q,
          retry, iteration, aggr, input, aggr_q, user
foreach_vars == <<setup, sync_caller, n, next, popped, status, err, error_mutex, cluster_key, task, pool, complete_q,
                  retry, iteration, aggr, input, aggr_q, user>>

-----------------------------------------------------------------------------
(* Requests on an event loop.                                               *)

BatchOf(nodes, errors, splits) ==
    [kind |-> "batch", n |-> nodes, concurrent |-> TRUE, validate |-> FALSE,
     errors |-> errors, splits |-> splits]
ScanOf(nodes, concurrent, errors) ==
    [kind |-> "scan", n |-> nodes, concurrent |-> concurrent, validate |-> FALSE,
     errors |-> errors, splits |-> 0]
QueryOf(nodes, validate, errors) ==
    [kind |-> "query", n |-> nodes, concurrent |-> TRUE, validate |-> validate,
     errors |-> errors, splits |-> 0]

\* A refused submission is left out where earlier commands may be split or
\* use the tracker (concurrent scans).
AllRequests ==
    {BatchOf(3, {}, 3), BatchOf(4, {"push", "single"}, 0),
     ScanOf(3, TRUE, {}), ScanOf(5, FALSE, {"push"}),
     QueryOf(3, FALSE, {"push"}), QueryOf(4, TRUE, {"push"})}

RefusedQuery == {QueryOf(3, FALSE, {"push"})}

\* The submissions left out above.
RefusedSplit == {BatchOf(3, {"push"}, 2)}
RefusedScan == {ScanOf(3, TRUE, {"push"})}

(* Scans by partition: pages of two records from new and old servers, and   *)
(* an asynchronous scan of everything.                                      *)

Pages(size, max_records, async, partition_query) ==
    [size |-> size, max_records |-> max_records, async |-> async, partition_query |-> partition_query]

AllScans ==
    {Pages(<<2, 1, 1>>, 2, FALSE, TRUE), Pages(<<2, 2, 0>>, 2, FALSE, FALSE), Pages(<<2, 2, 0>>, 0, TRUE, TRUE)}

\* Pages driven by an event loop.
AsyncPages == {Pages(<<2, 1, 1>>, 2, TRUE, TRUE)}

(* Synchronous calls: up to three nodes and two threads, so that tasks wait *)
(* for a thread.                                                            *)

Call(kind, nodes, threads) ==
    [kind |-> kind, nodes |-> nodes, threads |-> threads, concurrent |-> TRUE, validate |-> FALSE, records |-> 1,
     rounds |-> 2, abort |-> FALSE, refuse |-> FALSE]

AllCalls ==
    { Call("query", 3, 2), [Call("scan", 2, 2) EXCEPT !.concurrent = FALSE], [Call("scan", 3, 2) EXCEPT !.refuse = TRUE],
      [Call("old", 3, 2) EXCEPT !.validate = TRUE], Call("old", 2, 0), [Call("background", 2, 1) EXCEPT !.refuse = TRUE],
      [Call("aggregate", 2, 2) EXCEPT !.refuse = TRUE], Call("aggregate", 3, 2),
      [Call("scan_background", 2, 2) EXCEPT !.refuse = TRUE] }
    \cup {[Call("query", 1, 1) EXCEPT !.abort = TRUE, !.records = 2]}

\* The user stops a query of several nodes; an aggregation of a cluster that changes.
StoppedCalls == {[Call("query", 2, 2) EXCEPT !.abort = TRUE]}
ChangedCalls == {[Call("aggregate", 2, 2) EXCEPT !.validate = TRUE]}

-----------------------------------------------------------------------------
Foreach == INSTANCE QueryForeach WITH Setups <- Calls, caller <- sync_caller

ASSUME TrackerAssumption

all_vars == <<part, vars, tracker_vars, foreach_vars>>

ScansInit ==
    /\ part \in {"executor", "tracker", "foreach"}
    /\ Init /\ (part # "executor" => caller.req = BatchOf(3, {}, 3))
    /\ TrackerInit /\ (part # "tracker" => page.scan = Pages(<<2, 2, 0>>, 0, TRUE, TRUE))
    /\ Foreach!Init /\ (part # "foreach" => setup = CHOOSE c \in Calls : TRUE)

ScansNext ==
    \/ part = "executor" /\ Next /\ UNCHANGED <<part, tracker_vars, foreach_vars>>
    \/ part = "tracker" /\ TrackerNext /\ UNCHANGED <<part, vars, foreach_vars>>
    \/ part = "foreach" /\ Foreach!Next /\ UNCHANGED <<part, vars, tracker_vars>>

\* Every command ends, by an answer or by its timer; nodes answer or fail, threads and
\* the event loop run, and the user asks for the next page.  Nothing is assumed about
\* faults except that they are bounded.
ScansSpec ==
    /\ ScansInit /\ [][ScansNext]_all_vars
    /\ WF_vars(part = "executor" /\ CallerNext)
    /\ WF_vars(part = "executor" /\ SaveError)
    /\ \A c \in Ids : WF_vars(part = "executor" /\ Finishes(c))
    /\ WF_tracker_vars(part = "tracker" /\ StartPage)
    /\ WF_tracker_vars(part = "tracker" /\ Step)
    /\ WF_foreach_vars(part = "foreach" /\ Foreach!CallerStep)
    /\ \A t \in 1..3 : WF_foreach_vars(part = "foreach" /\ t \in Foreach!Nodes /\ Foreach!TaskStep(t))
    /\ WF_foreach_vars(part = "foreach" /\ Foreach!AggregateStep)

-----------------------------------------------------------------------------
(* Properties.  FreedWhenQuiet, AnsweredOnce and NoErrorLost are those of   *)
(* EventExecutor, NoDuplicates and NothingForgotten of PartitionTracker.    *)

\* Success means everything: when a scan by partition reports done, the listener has
\* accepted every record; a synchronous call that returns success, and was not stopped by
\* the user, has heard the end from every node, and no task that lives on the caller's
\* stack is still with a thread when it returns.
OkMeansAll == DoneMeansAll /\ Foreach!OkMeansAll /\ Foreach!TasksWithinCall /\ Foreach!NullComesLast

\* Every request ends: the executor is freed, the scan by partition is done, the
\* synchronous call returns.
EventuallyOver ==
    <>(CASE part = "executor" -> ~ex.live
         [] part = "tracker" -> all.done
         [] OTHER -> sync_caller = "returned")
=============================================================================
