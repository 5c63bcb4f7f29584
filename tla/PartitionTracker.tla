-------------------------- MODULE PartitionTracker --------------------------
(***************************************************************************)
(* The as_partition_tracker of a partition scan or query, together with    *)
(* the loops that drive it: as_scan_partitions / as_query_partitions       *)
(* (synchronous) and as_scan_partition_complete_async (asynchronous).      *)
(*                                                                         *)
(* A page (one call of the scan API) runs rounds.  A round assigns every   *)
(* partition that must be (re)tried to a node, asks each node for its      *)
(* partitions from the last digest seen, and then decides whether the page *)
(* is over.  The as_partitions_status survives the page, so that the user  *)
(* can ask for the next one until it is marked done.                       *)
(*                                                                         *)
(* A record is the pair of its partition and its rank in the partition's   *)
(* digest order, so a digest is a rank and 0 is "digest.init is false".    *)
(* External: the server, and the partition map, which hands out any active *)
(* node for a partition, or none, and may differ from round to round.      *)
(***************************************************************************)
EXTENDS Integers, FiniteSets, FiniteSetsExt

CONSTANTS
    NParts,          \* partitions 1..NParts
    Node,            \* server nodes
    Scans,           \* the scans to consider
    MaxRetries,      \* policy->max_retries
    MaxFaults,       \* bound: errors, timeouts and user stops
    MaxPages         \* bound: calls of the API

Part == 1..NParts

\* A scan: the number of records of each partition; policy->max_records, 0 for
\* all; whether an event loop drives it rather than threads; and
\* cluster->has_partition_query, the servers being 6.0 or later.
Scan == [size : [Part -> Nat], max_records : Nat, async : BOOLEAN, partition_query : BOOLEAN]

TrackerAssumption ==
    /\ NParts \in Nat \ {0}
    /\ Scans \subseteq Scan
    /\ {MaxRetries, MaxFaults, MaxPages} \subseteq Nat
    /\ Node # {} /\ IsFiniteSet(Node)

VARIABLES
    all,     \* as_partitions_status: retry, done
    parts,   \* partition -> as_partition_status: retry, digest
    pt,      \* as_partition_tracker: iteration, max_records, record_count, check_max
    np,      \* node -> as_node_partitions; no parts: not in node_parts
    stream,  \* external: partition -> the server's cursor, and is it still sent
    page,    \* the scan, where its page is, how many pages, its records, a fatal error
    got,     \* history: partition -> record -> times the listener accepted it
    faults   \* faults so far

tracker_vars == <<all, parts, pt, np, stream, page, got, faults>>

Size == page.scan.size
MaxRecords == page.scan.max_records
Async == page.scan.async
PartitionQuery == page.scan.partition_query

NoPartitions ==
    [parts |-> {}, record_count |-> 0, record_max |-> 0,
     parts_unavailable |-> 0, retry |-> FALSE, open |-> FALSE]

Assigned == {n \in Node : np[n].parts # {}}

\* The records that the nodes counted in this round, and their number.
Counted == UNION {{n} \X (1..np[n].record_count) : n \in Node}
RecordCount == Cardinality(Counted)

TrackerTypeOK ==
    /\ all \in [retry : BOOLEAN, done : BOOLEAN]
    /\ parts \in [Part -> [retry : BOOLEAN, digest : Nat]]
    /\ pt \in [iteration : Nat, max_records : Nat, record_count : Nat, check_max : BOOLEAN]
    /\ np \in [Node -> [parts : SUBSET Part, record_count : Nat, record_max : Nat,
                        parts_unavailable : Nat, retry : BOOLEAN, open : BOOLEAN]]
    /\ \A n \in Node : np[n].parts_unavailable <= Cardinality(np[n].parts)
    /\ stream \in [Part -> [at : Nat, open : BOOLEAN]]
    /\ page \in [scan : Scans, pc : {"idle", "assign", "round"}, count : Nat, records : Nat,
                 fatal : BOOLEAN]
    /\ DOMAIN got = Part /\ \A p \in Part : got[p] \in [1..Size[p] -> Nat]
    /\ faults \in Nat

-----------------------------------------------------------------------------
\* parts_create, called by the first page.
TrackerInit ==
    /\ all = [retry |-> TRUE, done |-> FALSE]
    /\ parts = [p \in Part |-> [retry |-> TRUE, digest |-> 0]]
    /\ pt = [iteration |-> 1, max_records |-> 0, record_count |-> 0, check_max |-> FALSE]
    /\ np = [n \in Node |-> NoPartitions]
    /\ stream = [p \in Part |-> [at |-> 0, open |-> FALSE]]
    /\ \E scan \in Scans :
          page = [scan |-> scan, pc |-> "idle", count |-> 0, records |-> 0, fatal |-> FALSE]
    /\ got = [p \in Part |-> [r \in 1..Size[p] |-> 0]]
    /\ faults = 0

Fault == faults < MaxFaults /\ faults' = faults + 1

\* The user asks for a page, as long as the scan is not done: tracker_init.
StartPage ==
    /\ page.pc = "idle" /\ ~all.done
    /\ page.count < MaxPages
    /\ page' = [page EXCEPT !.pc = "assign", !.count = @ + 1, !.records = 0]
    /\ all' = [all EXCEPT !.retry = @ \/ MaxRecords = 0]
    /\ pt' = [iteration |-> 1, max_records |-> MaxRecords, record_count |-> 0,
              check_max |-> FALSE]
    /\ UNCHANGED <<parts, np, stream, got, faults>>

-----------------------------------------------------------------------------
(* as_partition_tracker_assign.                                             *)

ToRetry == {p \in Part : parts[p].retry \/ (all.retry /\ pt.iteration = 1)}

\* Every node gets an equal share of max_records; when there are fewer records
\* than nodes each may send one, and check_max drops what is too much.  Which
\* nodes come first in node_parts, and get the remainder, is left open.
Share(nodes, n, first) ==
    LET size == Cardinality(nodes)
    IN  IF pt.max_records = 0 THEN 0
        ELSE IF pt.max_records >= size
             THEN pt.max_records \div size + (IF n \in first THEN 1 ELSE 0)
             ELSE 1

Remainder(nodes) ==
    IF pt.max_records >= Cardinality(nodes) THEN pt.max_records % Cardinality(nodes) ELSE 0

AssignTo(node, first) ==
    LET nodes == {node[p] : p \in ToRetry}
    IN  /\ np' = [n \in Node |->
                    IF n \in nodes
                    THEN [NoPartitions EXCEPT !.parts = {p \in ToRetry : node[p] = n},
                                              !.record_max = Share(nodes, n, first),
                                              !.open = TRUE]
                    ELSE NoPartitions]
        /\ pt' = [pt EXCEPT !.record_count = 0,
                            !.check_max = pt.max_records \in 1..(Cardinality(nodes) - 1)]

Assign ==
    /\ page.pc = "assign"
    /\ ToRetry # {}
    /\ \E node \in [ToRetry -> Node] :
          LET nodes == {node[p] : p \in ToRetry}
          IN  \E first \in kSubset(Remainder(nodes), nodes) : AssignTo(node, first)
    /\ parts' = [p \in Part |-> [parts[p] EXCEPT !.retry = @ /\ p \notin ToRetry]]
    /\ all' = [all EXCEPT !.retry = TRUE]
    /\ stream' = [p \in Part |-> [at |-> parts[p].digest, open |-> p \in ToRetry]]
    /\ page' = [page EXCEPT !.pc = "round"]
    /\ UNCHANGED <<got, faults>>

\* as_partition_error: a page that ends with an error retries everything.
PartitionError(a) == [a EXCEPT !.retry = TRUE]

EndPage == page' = [page EXCEPT !.pc = "idle", !.fatal = FALSE]

\* No active node for partition k: the partitions before it were already taken
\* off the retry list.  An asynchronous scan that fails like this in its first
\* round returns the error without as_partition_error.
AssignFailsAt(k) ==
    /\ parts' = [p \in Part |-> [parts[p] EXCEPT !.retry = @ /\ ~(p \in ToRetry /\ p < k)]]
    /\ all' = IF Async /\ pt.iteration = 1 THEN all ELSE PartitionError(all)

AssignFails ==
    /\ page.pc = "assign"
    /\ \/ Fault /\ \E k \in ToRetry : AssignFailsAt(k)
       \/ /\ ToRetry = {}
          /\ all' = IF Async /\ pt.iteration = 1 THEN all ELSE PartitionError(all)
          /\ UNCHANGED <<parts, faults>>
    /\ EndPage
    /\ UNCHANGED <<pt, np, stream, got>>

-----------------------------------------------------------------------------
(* A round: the responses of the nodes.                                     *)

\* Records of this round that the node sent; one that was dropped sets retry.
Sent(n) == np[n].record_count + (IF np[n].retry THEN 1 ELSE 0)

\* The server sends the next record of partition p, within the node's limit.
\* Once a command failed for good, an event loop drops what still arrives;
\* a thread notices after the record it is parsing.
Sends(n, p) ==
    /\ page.pc = "round" /\ np[n].open
    /\ p \in np[n].parts /\ stream[p].open
    /\ stream[p].at < Size[p]
    /\ np[n].record_max > 0 => Sent(n) < np[n].record_max
    /\ Async => ~page.fatal

\* as_partition_tracker_reached_max_records: the record would be too much.
ReachedMax == pt.check_max /\ pt.record_count + 1 > pt.max_records

CountRecord == pt' = IF pt.check_max THEN [pt EXCEPT !.record_count = @ + 1] ELSE pt

\* as_partition_tracker_set_digest: where the partition resumes.
DigestNotSaved(p) == parts[p].digest  \* mutant
Digest(p) == stream[p].at + 1

\* as_scan_parse_record: the listener takes the record, then its digest becomes
\* the place to resume from (as_partition_tracker_set_digest).
Record(n, p) ==
    /\ Sends(n, p)
    /\ stream' = [stream EXCEPT ![p].at = @ + 1]
    /\ CountRecord
    /\ IF ReachedMax
       THEN /\ np' = [np EXCEPT ![n].retry = TRUE]
            /\ UNCHANGED <<parts, got, page>>
       ELSE /\ np' = [np EXCEPT ![n].record_count = @ + 1]
            /\ parts' = [parts EXCEPT ![p].digest = Digest(p)]
            /\ got' = [got EXCEPT ![p][stream[p].at + 1] = @ + 1]
            /\ page' = [page EXCEPT !.records = @ + 1]
    /\ UNCHANGED <<all, faults>>

\* The listener returns false: the page stops, the digest is not set.
UserStops(n, p) ==
    /\ Sends(n, p) /\ ~ReachedMax /\ Fault
    /\ CountRecord
    /\ np' = [np EXCEPT ![n].open = FALSE]
    /\ page' = [page EXCEPT !.fatal = TRUE]
    /\ UNCHANGED <<all, parts, stream, got>>

\* as_partition_tracker_part_unavailable: this node does not own p (any more).
PartUnavailable(n, p) ==
    /\ page.pc = "round" /\ np[n].open
    /\ p \in np[n].parts /\ stream[p].open
    /\ Fault
    /\ stream' = [stream EXCEPT ![p].open = FALSE]
    /\ parts' = [parts EXCEPT ![p].retry = TRUE]
    /\ np' = [np EXCEPT ![n].parts_unavailable = @ + 1]
    /\ UNCHANGED <<all, pt, page, got>>

\* The server is done with the node's partitions.  One with a limit may stop
\* there; one older than 6.0 may stop anywhere once it sent something.
Exhausted(n) == \A p \in np[n].parts : stream[p].open => stream[p].at = Size[p]

MayStop(n) ==
    \/ Exhausted(n)
    \/ np[n].record_max > 0 /\ Sent(n) >= (IF PartitionQuery THEN np[n].record_max ELSE 1)

NodeEnds(n) ==
    /\ page.pc = "round" /\ np[n].open
    /\ MayStop(n)
    /\ np' = [np EXCEPT ![n].open = FALSE]
    /\ UNCHANGED <<all, parts, pt, stream, page, got, faults>>

UnavailableParts(n) == Cardinality(np[n].parts)

PartsOf(n) == np[n].parts

\* as_partition_tracker_should_retry is true: the node's partitions are tried
\* again in the next round.
NodeFails(n) ==
    /\ page.pc = "round" /\ np[n].open
    /\ Fault
    /\ parts' = [p \in Part |-> [parts[p] EXCEPT !.retry = @ \/ p \in PartsOf(n)]]
    /\ np' = [np EXCEPT ![n].open = FALSE,
                        ![n].parts_unavailable = UnavailableParts(n)]
    /\ UNCHANGED <<all, pt, stream, page, got>>

\* Any other error is fatal for the page...
NodeAborts(n) ==
    /\ page.pc = "round" /\ np[n].open
    /\ Fault
    /\ np' = [np EXCEPT ![n].open = FALSE]
    /\ page' = [page EXCEPT !.fatal = TRUE]
    /\ UNCHANGED <<all, parts, pt, stream, got>>

\* ...and the other commands stop when they notice (error flag, executor->valid).
NodeStops(n) ==
    /\ page.pc = "round" /\ np[n].open /\ page.fatal
    /\ np' = [np EXCEPT ![n].open = FALSE]
    /\ UNCHANGED <<all, parts, pt, stream, page, got, faults>>

-----------------------------------------------------------------------------
(* The end of a round.                                                      *)

RoundOver == page.pc = "round" /\ \A n \in Node : ~np[n].open

PageAborted ==
    /\ RoundOver /\ page.fatal
    /\ all' = PartitionError(all)
    /\ EndPage
    /\ UNCHANGED <<parts, pt, np, stream, got, faults>>

Unavailable == \E n \in Node : np[n].parts_unavailable > 0

\* A node that may have more: mark_retry puts its partitions on the next page.
HasMoreIgnoresDropped(n) == np[n].record_count >= np[n].record_max  \* mutant
HasMoreAboveMax(n) == np[n].retry \/ np[n].record_count > np[n].record_max  \* mutant
HasMore(n) ==
    \/ np[n].retry
    \/ IF PartitionQuery THEN np[n].record_count >= np[n].record_max
       ELSE np[n].record_count > 0

MayHaveMore == {n \in Assigned : HasMore(n)}

\* Servers older than 6.0 may send less than asked: done means nothing came.
IsDone == IF PartitionQuery THEN MayHaveMore = {} ELSE RecordCount = 0

\* Only the first round asks every partition of the page.
FirstRoundAlways == TRUE  \* mutant
FirstRound == pt.iteration = 1

MarkRetry(nodes) ==
    parts' = [p \in Part |->
                [parts[p] EXCEPT !.retry = @ \/ \E n \in nodes : p \in np[n].parts]]

\* as_partition_tracker_is_complete, every partition having been available.
RoundCompletes ==
    /\ RoundOver /\ ~page.fatal /\ ~Unavailable
    /\ CASE pt.max_records = 0 ->
              all' = [all EXCEPT !.done = TRUE] /\ UNCHANGED parts
         [] pt.max_records > 0 /\ ~FirstRound ->
              all' = [retry |-> TRUE, done |-> FALSE] /\ UNCHANGED parts
         [] OTHER ->
              /\ all' = [retry |-> FALSE, done |-> IsDone]
              /\ MarkRetry(MayHaveMore)
    /\ EndPage
    /\ UNCHANGED <<pt, np, stream, got, faults>>

\* Partitions were missed, but the page has the records it asked for.
RoundSuffices ==
    /\ RoundOver /\ ~page.fatal /\ Unavailable
    /\ pt.max_records > 0 /\ RecordCount >= pt.max_records
    /\ EndPage
    /\ UNCHANGED <<all, parts, pt, np, stream, got, faults>>

\* Partitions were missed, and no retry is left or the deadline has passed.
RoundGivesUp ==
    /\ RoundOver /\ ~page.fatal /\ Unavailable
    /\ ~(pt.max_records > 0 /\ RecordCount >= pt.max_records)
    /\ \/ pt.iteration > MaxRetries /\ UNCHANGED faults
       \/ pt.iteration <= MaxRetries /\ Fault
    /\ all' = PartitionError(all)
    /\ EndPage
    /\ UNCHANGED <<parts, pt, np, stream, got>>

MaxRecordsKept == pt.max_records  \* mutant
MaxRecordsLeft == IF pt.max_records > 0 THEN pt.max_records - RecordCount ELSE 0

\* Another round for the partitions that were missed.
NextRound ==
    /\ RoundOver /\ ~page.fatal /\ Unavailable
    /\ ~(pt.max_records > 0 /\ RecordCount >= pt.max_records)
    /\ pt.iteration <= MaxRetries
    /\ pt' = [pt EXCEPT !.iteration = @ + 1,
                        !.max_records = MaxRecordsLeft]
    /\ np' = [n \in Node |-> NoPartitions]
    /\ page' = [page EXCEPT !.pc = "assign"]
    /\ UNCHANGED <<all, parts, stream, got, faults>>

Step ==
    \/ Assign
    \/ \E n \in Node : NodeEnds(n) \/ NodeStops(n) \/ \E p \in Part : Record(n, p)
    \/ PageAborted \/ RoundCompletes \/ RoundSuffices \/ RoundGivesUp \/ NextRound

Trouble ==
    \/ AssignFails
    \/ \E n \in Node : \/ NodeFails(n) \/ NodeAborts(n)
                       \/ \E p \in Part : UserStops(n, p) \/ PartUnavailable(n, p)

Finished == page.pc = "idle" /\ (all.done \/ page.count = MaxPages) /\ UNCHANGED tracker_vars

TrackerNext == StartPage \/ Step \/ Trouble \/ Finished

TrackerSpec == TrackerInit /\ [][TrackerNext]_tracker_vars

-----------------------------------------------------------------------------
(* Properties.                                                              *)

\* When the scan reports done, the listener has accepted every record.
DoneMeansAll ==
    page.pc = "idle" /\ all.done => \A p \in Part : \A r \in 1..Size[p] : got[p][r] > 0

\* Between pages, a partition with records still to come is on the retry list
\* of the next page (as_scan.h: the next page resumes where this one stopped),
\* so a scan that is not done has something to ask for.
NothingForgotten ==
    page.pc = "idle" =>
        /\ ~all.retry => \A p \in Part : parts[p].digest < Size[p] => parts[p].retry
        /\ ~all.done => all.retry \/ \E p \in Part : parts[p].retry

\* A record is accepted by the listener once; a page hands out max_records records at most.
HandedOnce == \A p \in Part : \A r \in 1..Size[p] : got[p][r] <= 1
PageLimit == MaxRecords > 0 => page.records <= MaxRecords

\* No record is accepted by the listener twice, over all rounds and pages, no page hands
\* out more than max_records records in all its rounds (as_partition_tracker_is_complete
\* counts what is left), and the counts of the tracker stay in their ranges.
NoDuplicates == HandedOnce /\ PageLimit /\ TrackerTypeOK

=============================================================================
