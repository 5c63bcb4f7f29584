---------------------------- MODULE PartitionMap ----------------------------
(***************************************************************************)
(* The client's partition map (as_partition): what a server's claim on a   *)
(* replica of a partition does to the map, and which node a command gets   *)
(* from it under each replica policy.  A node is a positive number, 0 is   *)
(* NULL; replica slots are numbered from 0 as in as_partition.nodes.       *)
(***************************************************************************)
EXTENDS Integers, Sequences, FiniteSetsExt

CONSTANT Replicas    \* table->replica_size

Slot == 0..Replicas - 1

EmptyPartition == [regime |-> 0, nodes |-> [r \in Slot |-> 0]]

\* decode_and_update, for one set bit of a bitmap: a claim with an older regime
\* is dropped.
decode_and_update(p, node, r, regime) ==
    IF regime >= p.regime
    THEN [regime |-> regime, nodes |-> [p.nodes EXCEPT ![r] = node]]
    ELSE p

-----------------------------------------------------------------------------
(* The replica policies.  "live" is the set of active nodes.  The result is *)
(* the node, or 0, and the new *replica_index.                              *)

get_replica_master(p, live, index) ==
    [node |-> IF p.nodes[0] \in live THEN p.nodes[0] ELSE 0, index |-> index]

get_replica_sequence(p, live, index) ==
    LET skipped == {i \in Slot : p.nodes[(index + i) % Replicas] \in live}
    IN  IF skipped = {}
        THEN [node |-> 0, index |-> index + Replicas]
        ELSE [node |-> p.nodes[(index + Min(skipped)) % Replicas],
              index |-> index + Min(skipped)]

\* The first active replica, from index on, on the first possible rack of "ids";
\* else one on another rack; else the node that failed before.
get_replica_rack(p, live, rack, ids, prev, index) ==
    LET At(j) == (index + j) % Replicas
        node(j) == p.nodes[At(j)]
        Near(i) == {j \in Slot : node(j) \in live \ {prev} /\ rack[node(j)] = ids[i]}
        near == {i \in DOMAIN ids : Near(i) # {}}
        far  == {j \in Slot : node(j) \in live \ {prev}}
        last == {j \in Slot : node(j) \in live \cap {prev}}
        Found(js) == [node |-> node(Min(js)), index |-> At(Min(js))]
    IN  IF near # {} THEN Found(Near(Min(near)))
        ELSE IF far # {} THEN Found(far)
        ELSE IF last # {} THEN Found(last)
        ELSE [node |-> 0, index |-> index]
=============================================================================
