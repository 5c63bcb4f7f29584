---------------------------- MODULE ClusterTend ----------------------------
(***************************************************************************)
(* The tend thread of one client: as_cluster_tend and what it calls in     *)
(* as_node.c, as_peers.c, as_lookup.c and as_partition.c, next to command  *)
(* threads that fetch nodes from the partition map and the node array      *)
(* while the tend thread replaces them.                                    *)
(*                                                                         *)
(* as_node and as_nodes are heap objects, numbered as they are allocated,  *)
(* with the reference counts the code keeps.  A request to a server is one *)
(* step; servers, other requests and command threads move between them.    *)
(* A peers response is processed in the step that receives it.             *)
(*                                                                         *)
(* External: the servers.  A server has a name, knows the members and the  *)
(* partition owners of the cluster since it last heard of them, and counts *)
(* what it heard in a generation.  The map has one partition (decoding     *)
(* treats every partition alike), which keeps part_refs a sum.             *)
(***************************************************************************)
EXTENDS PartitionMap, SequencesExt

CONSTANTS
    Hosts,              \* addresses, 1..n
    Seeds,              \* config->hosts
    Names,              \* node names, positive numbers
    Setups,             \* records: name, the servers at the start (host -> name, 0
                        \* for none); sc, strong consistency, so regimes; strict,
                        \* config->fail_if_not_connected; reader, the threads; max,
                        \* bound: servers that stop, start, leave or return, and
                        \* requests lost although the server is up
    FailureMax,         \* 5: failures after which a silent node is dropped
    Reader,             \* command threads there may be
    Prompt,             \* no thread is late by a whole tend interval
    Rack                \* name -> rack

NoGen == -1    \* 0xFFFFFFFF

ASSUME TendAssumption ==
    /\ Hosts \subseteq Nat \ {0} /\ Names \subseteq Nat \ {0}
    /\ Seeds \in Seq(Hosts)
    /\ Setups \subseteq [name : [Hosts -> Names \cup {0}], sc : BOOLEAN, strict : BOOLEAN,
                   reader : SUBSET Reader, max : Nat]
    /\ Replicas \in Nat \ {0} /\ FailureMax \in Nat \ {0}
    /\ Prompt \in BOOLEAN

VARIABLES
    world,    \* external: name, member, truth, and per host inc, cfg, gen
    events,   \* how often servers changed, and requests were lost
    setup,    \* the member of Setups
    phase,    \* "init", "run", "closed": as_cluster_create .. as_cluster_destroy
    seeds,    \* cluster->seeds
    node,     \* as_node objects; refs = 0: freed
    arr,      \* as_nodes objects; refs = 0: freed
    cur,      \* cluster->nodes
    gc,       \* cluster->gc: what the next tend releases
    part,     \* the partition of the map
    peers,    \* as_peers of this tend: count, changed, nodes, remove, invalid
    tend,     \* where the tend thread is: at, i, list
    reader    \* thread -> at, id; late: it was between load and reserve when a tend ended

client == <<phase, seeds, node, arr, cur, gc, part, peers, tend>>
vars == <<setup, world, events, client, reader>>

-----------------------------------------------------------------------------
(* The servers.                                                             *)

Up(h) == world.name[h] # 0

Config(name, member, regime) ==
    LET order == SetToSortSeq(member, <)
    IN  [peers |-> {<<name[h], h>> : h \in member},
         owners |-> [r \in Slot |-> IF r < Len(order) THEN order[r + 1] ELSE 0],
         regime |-> IF setup.sc THEN regime ELSE 0]

\* A server that is cut off owns every partition, or none in SC mode.
Alone(h) ==
    [peers |-> {<<world.name[h], h>>},
     owners |-> [r \in Slot |-> IF r = 0 /\ ~setup.sc THEN h ELSE 0],
     regime |-> 0]

Change(name, member, h, cfg, gen, inc) ==
    /\ events < setup.max /\ events' = events + 1
    /\ world' = [name |-> name, member |-> member,
                 truth |-> Config(name, member, events + 2),
                 inc |-> [world.inc EXCEPT ![h] = inc],
                 cfg |-> [world.cfg EXCEPT ![h] = cfg],
                 gen |-> [world.gen EXCEPT ![h] = gen]]

ServerStops(h) ==
    /\ Up(h)
    /\ Change([world.name EXCEPT ![h] = 0], world.member \ {h}, h, Alone(h), 0, world.inc[h])

ServerStarts(h) ==
    /\ ~Up(h)
    /\ \E n \in Names \ Range(world.name) :
          LET name == [world.name EXCEPT ![h] = n]
          IN  Change(name, world.member \cup {h}, h,
                     Config(name, world.member \cup {h}, events + 2), 1, world.inc[h] + 1)

ServerLeaves(h) ==
    /\ h \in world.member
    /\ Change(world.name, world.member \ {h}, h, Alone(h), world.gen[h] + 1, world.inc[h])

ServerReturns(h) ==
    /\ Up(h) /\ h \notin world.member
    /\ Change(world.name, world.member \cup {h}, h,
              Config(world.name, world.member \cup {h}, events + 2), world.gen[h] + 1, world.inc[h])

ServerLearns(h) ==
    /\ h \in world.member /\ world.cfg[h] # world.truth
    /\ world' = [world EXCEPT !.cfg[h] = world.truth, !.gen[h] = @ + 1]
    /\ UNCHANGED events

Servers ==
    /\ \E h \in Hosts : \/ ServerStops(h) \/ ServerStarts(h) \/ ServerLeaves(h)
                       \/ ServerReturns(h) \/ ServerLearns(h)
    /\ UNCHANGED <<setup, client, reader>>

\* One of the hosts "asked" may not answer in this step.
Lost(asked, deaf) ==
    /\ deaf \in {{}} \cup {{h} : h \in asked}
    /\ events + Cardinality(deaf) <= setup.max
    /\ events' = events + Cardinality(deaf)

Answers(h, deaf) == Up(h) /\ h \notin deaf

-----------------------------------------------------------------------------
(* Nodes, node arrays and their reference counts.                           *)

Node == DOMAIN node
Current == arr[cur].nodes

as_node_create(name, host) ==
    [name |-> name, host |-> host, active |-> TRUE, failures |-> 0, friends |-> 0,
     peers_count |-> 0, peers_gen |-> NoGen, part_gen |-> NoGen, part_changed |-> TRUE,
     sock |-> world.inc[host], refs |-> 1, part_refs |-> 0]

Destroyed == [as_node_create(0, CHOOSE h \in Hosts : TRUE) EXCEPT !.active = FALSE, !.refs = 0, !.sock = 0]

NoPeers == [count |-> 0, changed |-> FALSE, nodes |-> <<>>, remove |-> <<>>, invalid |-> {}]

Count(seq, x) == Cardinality({i \in DOMAIN seq : seq[i] = x})

\* as_nodes_release and as_node_release of every item of "items"; "drop" is how
\* many references each node loses besides.
AfterRelease(nodes, arrays, items, drop) ==
    LET left(a) == arrays[a].refs - Count(items, <<"nodes", a>>)
        dead == {a \in DOMAIN arrays : arrays[a].refs > 0 /\ left(a) = 0}
        refs(n) == nodes[n].refs - drop[n] - Count(items, <<"node", n>>)
                    - Cardinality({a \in dead : n \in Range(arrays[a].nodes)})
    IN  [arr |-> [a \in DOMAIN arrays |->
                    IF left(a) = 0 THEN [nodes |-> <<>>, refs |-> 0]
                                   ELSE [arrays[a] EXCEPT !.refs = left(a)]],
         node |-> [n \in DOMAIN nodes |->
                    IF refs(n) = 0 THEN Destroyed ELSE [nodes[n] EXCEPT !.refs = refs(n)]]]

NoDrop(nodes) == [n \in DOMAIN nodes |-> 0]

ReleaseAtOnce(nodes, stay, added) ==   \* mutant
    /\ node' = nodes
    /\ arr' = Append([arr EXCEPT ![cur] = [nodes |-> <<>>, refs |-> 0]],
                     [nodes |-> stay \o added, refs |-> 1])
    /\ cur' = Len(arr) + 1
    /\ UNCHANGED gc

\* Replace cluster->nodes by a copy: the nodes that stay are reserved, and the old
\* array goes to the garbage collector.
SetNodes(nodes, stay, added) ==
    /\ node' = [n \in DOMAIN nodes |->
                  [nodes[n] EXCEPT !.refs = IF n \in Range(stay) THEN @ + 1 ELSE @]]
    /\ arr' = Append(arr, [nodes |-> stay \o added, refs |-> 1])
    /\ cur' = Len(arr) + 1
    /\ gc' = Append(gc, <<"nodes", cur>>)

as_cluster_add_nodes(nodes, added) == SetNodes(nodes, Current, added)

\* The nodes are deactivated first, so commands try another node.
as_cluster_remove_nodes(nodes, removed) ==
    SetNodes([n \in DOMAIN nodes |->
                [nodes[n] EXCEPT !.active = @ /\ n \notin Range(removed)]],
             SelectSeq(Current, LAMBDA n : n \notin Range(removed)), <<>>)

FindName(nodes, seq, name) ==
    LET i == SelectInSeq(seq, LAMBDA n : nodes[n].name = name)
    IN  IF i = 0 THEN 0 ELSE seq[i]

as_peers_append_unique_node(nodes, seq, n) ==
    IF FindName(nodes, seq, nodes[n].name) = 0 THEN Append(seq, n) ELSE seq

as_cluster_node_failure(rec) ==
    [rec EXCEPT !.failures = IF @ < FailureMax THEN @ + 1 ELSE @]   \* only compared with 5

-----------------------------------------------------------------------------
(* Requests.                                                                *)

\* A request on the info socket of a node: it fails when the server is silent, or
\* when the socket belongs to a server that has stopped.
Served(rec, deaf) == Answers(rec.host, deaf) /\ rec.sock = world.inc[rec.host]

\* as_node_get_tend_connection: connect when the socket is closed.
Connected(rec, deaf) ==
    IF rec.sock = 0 /\ Answers(rec.host, deaf)
    THEN [rec EXCEPT !.sock = world.inc[rec.host]] ELSE rec

\* as_node_process_response.  A server with another name makes the node inactive.
as_node_refresh(rec0, deaf) ==
    LET rec == Connected(rec0, deaf)
        gen == world.gen[rec.host]
    IN  IF ~Served(rec, deaf)
        THEN [ok |-> FALSE, changed |-> TRUE, node |-> [rec EXCEPT !.sock = 0]]
        ELSE IF world.name[rec.host] # rec.name
        THEN [ok |-> FALSE, changed |-> TRUE, node |-> [rec EXCEPT !.active = FALSE, !.sock = 0]]
        ELSE [ok |-> TRUE,
              changed |-> rec.peers_gen # gen \/ rec.failures > 0,
              node |-> [rec EXCEPT !.part_changed = @ \/ rec.part_gen # gen \/ rec.failures > 0,
                                   !.failures = 0]]

\* as_lookup_node: connect to the host and ask for its name; every way to fail is
\* the silence of the server.
as_lookup_node(h, deaf) == Answers(h, deaf)

\* as_peers_find_node and as_peers_validate for one peer of a response, st being
\* the nodes, the as_peers and whether every peer so far was found.
PeerFound(st, name, host, deaf) ==
    LET known == FindName(st.node, Current, name)
        fresh == FindName(st.node, st.peers.nodes, name)
        new == Len(st.node) + 1
    IN  IF known # 0 /\ (st.node[known].failures = 0 \/ st.node[known].host = host)
        THEN [st EXCEPT !.node[known].friends = @ + 1]
        ELSE IF fresh # 0
        THEN [st EXCEPT !.node[fresh].friends = @ + 1]
        ELSE IF host \notin st.peers.invalid /\ as_lookup_node(host, deaf) /\ world.name[host] = name
        THEN [st EXCEPT !.node = Append(@, as_node_create(name, host)),
                        !.peers.nodes = Append(@, new),
                        !.peers.remove = IF known = 0 THEN @
                            ELSE as_peers_append_unique_node(st.node, @, known)]
        ELSE [st EXCEPT !.peers.invalid = @ \cup {host}, !.all = FALSE]

\* The generation is remembered only when every peer was found, so that the
\* others are asked for again.
AlwaysRemember(rec, all) == [rec EXCEPT !.peers_gen = world.gen[rec.host]]   \* mutant

Remember(rec, all) ==
    IF all THEN [rec EXCEPT !.peers_gen = world.gen[rec.host]] ELSE rec

as_node_refresh_peers(nodes, prs, n, deaf) ==
    LET rec == nodes[n]
        list == SetToSortSeq({p \in world.cfg[rec.host].peers : p[2] # rec.host},
                             LAMBDA p, q : p[2] < q[2])
        One(st, p) == PeerFound(st, p[1], p[2], deaf)
        end == FoldLeft(One, [node |-> [nodes EXCEPT ![n].peers_count = Len(list)],
                              peers |-> prs, all |-> TRUE], list)
    IN  IF ~Served(rec, deaf)
        THEN [ok |-> FALSE, node |-> [nodes EXCEPT ![n].sock = 0], peers |-> prs]
        ELSE [ok |-> TRUE,
              node |-> [end.node EXCEPT ![n] = Remember(@, end.all)],
              peers |-> [end.peers EXCEPT !.count = @ + 1]]

\* Whom a peers request to n talks to.
Asked(n) == {node[n].host} \cup {p[2] : p \in world.cfg[node[n].host].peers}

\* The map counts as one reference, however many slots name the node.
ReserveEverySlot(nodes, n) ==   \* mutant
    [nodes EXCEPT ![n].part_refs = @ + 1, ![n].refs = @ + 1]

as_partition_reserve_node(nodes, n) ==
    [nodes EXCEPT ![n].part_refs = @ + 1,
                  ![n].refs = IF nodes[n].part_refs = 0 THEN @ + 1 ELSE @]

\* The slot of "old" is taken over: its partitions are to be asked for again, and
\* with its last slot its reference goes to the garbage collector.
as_partition_release_node(st, old) ==
    [st EXCEPT !.node[old].part_refs = @ - 1, !.node[old].part_gen = NoGen,
               !.gc = IF st.node[old].part_refs = 1 THEN Append(@, <<"node", old>>) ELSE @]

\* decode_and_update with the reference counts of the map, for a slot that n
\* claims: st is nodes, part, gc.
Claim(st, n, r, regime) ==
    LET p == decode_and_update(st.part, n, r, regime)
        old == st.part.nodes[r]
        taken == [st EXCEPT !.part = p, !.node = as_partition_reserve_node(@, n)]
    IN  IF p.nodes[r] # n \/ old = n THEN [st EXCEPT !.part = p]
        ELSE IF old = 0 THEN taken
        ELSE as_partition_release_node(taken, old)

\* as_node_refresh_partitions.
as_node_refresh_partitions(n, deaf) ==
    LET cfg == world.cfg[node[n].host]
        mine == SetToSortSeq({r \in Slot : cfg.owners[r] = node[n].host}, <)
        One(st, r) == Claim(st, n, r, cfg.regime)
    IN  IF ~Served(node[n], deaf)
        THEN [node |-> [node EXCEPT ![n] = as_cluster_node_failure([@ EXCEPT !.sock = 0])],
              part |-> part, gc |-> gc]
        ELSE FoldLeft(One, [node |-> [node EXCEPT ![n].part_gen = world.gen[node[n].host]],
                            part |-> part, gc |-> gc], mine)

-----------------------------------------------------------------------------
(* The tend thread.                                                         *)

At(where, i) == tend' = [tend EXCEPT !.at = where, !.i = i]

\* A new tend: garbage collection, then the flags of the last tend are cleared.
\* With Prompt, the interval was long enough for every thread that was between
\* loading a pointer and reserving it when the last tend ended.
as_cluster_tend ==
    /\ tend.at = "sleep" /\ phase \in {"init", "run"}
    /\ Prompt => \A t \in Reader : ~reader[t].late
    /\ LET rel == AfterRelease(node, arr, gc, NoDrop(node))
       IN  /\ arr' = rel.arr
           /\ node' = [n \in Node |-> IF n \in Range(Current)
                         THEN [rel.node[n] EXCEPT !.friends = 0, !.part_changed = FALSE]
                         ELSE rel.node[n]]
    /\ gc' = <<>>
    /\ peers' = NoPeers
    /\ tend' = [at |-> IF Current = <<>> THEN "seed" ELSE "refresh", i |-> 1, list |-> <<0>>]
    /\ UNCHANGED <<setup, world, events, phase, seeds, cur, part, reader>>

\* as_cluster_tend, "Refresh all known nodes".
Refresh ==
    /\ tend.at = "refresh" /\ tend.i <= Len(Current)
    /\ LET n == Current[tend.i]
       IN  IF ~node[n].active
           THEN UNCHANGED <<node, peers, events>>
           ELSE \E deaf \in SUBSET {node[n].host} :
                  LET res == as_node_refresh(node[n], deaf)
                  IN  /\ Lost({node[n].host}, deaf)
                      /\ node' = [node EXCEPT ![n] = IF res.ok THEN res.node
                                    ELSE as_cluster_node_failure(res.node)]
                      /\ peers' = [peers EXCEPT !.changed = @ \/ res.changed,
                                                !.count = IF res.ok THEN @ + 1 ELSE @]
    /\ At("refresh", tend.i + 1)
    /\ UNCHANGED <<setup, world, phase, seeds, arr, cur, gc, part, reader>>

Refreshed ==
    /\ tend.at = "refresh" /\ tend.i > Len(Current)
    /\ peers' = IF peers.changed THEN [peers EXCEPT !.count = 0] ELSE peers
    /\ At(IF peers.changed THEN "peers" ELSE "add", 1)
    /\ UNCHANGED <<setup, world, events, phase, seeds, node, arr, cur, gc, part, reader>>

PeersRequest(n) ==
    \E deaf \in SUBSET Asked(n) :
        LET res == as_node_refresh_peers(node, peers, n, deaf)
        IN  /\ Lost(Asked(n), deaf)
            /\ node' = IF res.ok THEN res.node
                       ELSE [res.node EXCEPT ![n] = as_cluster_node_failure(@)]
            /\ peers' = res.peers

\* "Refresh peers for all nodes that responded the first time".
RefreshPeers ==
    /\ tend.at = "peers" /\ tend.i <= Len(Current)
    /\ LET n == Current[tend.i]
       IN  IF node[n].failures = 0 /\ node[n].active
           THEN PeersRequest(n)
           ELSE UNCHANGED <<node, peers, events>>
    /\ At("peers", tend.i + 1)
    /\ UNCHANGED <<setup, world, phase, seeds, arr, cur, gc, part, reader>>

\* as_cluster_find_nodes_to_remove.
ToRemove(n) ==
    \/ ~node[n].active
    \/ peers.count = 0 /\ node[n].failures >= FailureMax
    \/ /\ Len(Current) > 1 /\ peers.count >= 1 /\ node[n].friends = 0
       /\ node[n].failures = 0 => node[n].part_refs = 0

RemoveNodes ==
    /\ tend.at = "peers" /\ tend.i > Len(Current)
    /\ LET One(seq, n) == IF ToRemove(n) THEN as_peers_append_unique_node(node, seq, n) ELSE seq
           removed == FoldLeft(One, peers.remove, Current)
       IN  IF removed = <<>>
           THEN UNCHANGED <<node, arr, cur, gc>>
           ELSE as_cluster_remove_nodes(node, removed)
    /\ At("add", 1)
    /\ UNCHANGED <<setup, world, events, phase, seeds, part, peers, reader>>

\* "Add peer nodes to cluster", and the loop of as_cluster_refresh_peers.
AddPeers ==
    /\ tend.at = "add"
    /\ IF peers.nodes = <<>>
       THEN At("parts", 1) /\ UNCHANGED <<node, arr, cur, gc, peers>>
       ELSE /\ as_cluster_add_nodes(node, peers.nodes)
            /\ tend' = [at |-> "new", i |-> 1, list |-> peers.nodes]
            /\ peers' = [peers EXCEPT !.nodes = <<>>]
    /\ UNCHANGED <<setup, world, events, phase, seeds, part, reader>>

as_cluster_refresh_peers ==
    /\ tend.at = "new" /\ tend.i <= Len(tend.list)
    /\ PeersRequest(tend.list[tend.i])
    /\ IF tend.i = Len(tend.list) THEN At("add", 1) ELSE At("new", tend.i + 1)
    /\ UNCHANGED <<setup, world, phase, seeds, arr, cur, gc, part, reader>>

\* "Refresh partition map when necessary": not from a node that thinks it is
\* alone, unless it is the only one that answers.
RefreshPartitions ==
    /\ tend.at = "parts" /\ tend.i <= Len(Current)
    /\ LET n == Current[tend.i]
       IN  IF /\ node[n].part_changed /\ node[n].failures = 0 /\ node[n].active
              /\ node[n].peers_count > 0 \/ peers.count = 1
           THEN \E deaf \in SUBSET {node[n].host} :
                  LET res == as_node_refresh_partitions(n, deaf)
                  IN  /\ Lost({node[n].host}, deaf)
                      /\ node' = res.node /\ part' = res.part /\ gc' = res.gc
           ELSE UNCHANGED <<node, part, gc, events>>
    /\ At("parts", tend.i + 1)
    /\ UNCHANGED <<setup, world, phase, seeds, arr, cur, peers, reader>>

\* The tend is over: as_cluster_init continues, or the thread sleeps.
Sleep == [at |-> "sleep", i |-> 1, list |-> <<0>>]

GapReaders(readers) ==
    [t \in Reader |-> [readers[t] EXCEPT !.late = readers[t].at \in {"node", "nodes"}]]

\* as_cluster_destroy: garbage, partition table, nodes.
as_cluster_destroy ==
    LET rel == AfterRelease(node, arr, Append(gc, <<"nodes", cur>>),
                            [n \in Node |-> IF node[n].part_refs > 0 THEN 1 ELSE 0])
    IN  /\ phase' = "closed"
        /\ node' = rel.node /\ arr' = rel.arr
        /\ gc' = <<>> /\ part' = EmptyPartition /\ peers' = NoPeers /\ tend' = Sleep
        /\ UNCHANGED <<seeds, cur>>

\* as_cluster_add_seeds.
AllSeeds == seeds \o SelectSeq([i \in DOMAIN Current |-> node[Current[i]].host],
                               LAMBDA h : h \notin Range(seeds))

EndOfTend(ok) ==
    /\ IF phase = "init" /\ setup.strict /\ ~(ok /\ Current # <<>>)
       THEN as_cluster_destroy
       ELSE /\ phase' = "run"
            /\ seeds' = IF phase = "init" THEN AllSeeds ELSE seeds
            /\ tend' = Sleep /\ peers' = NoPeers
            /\ UNCHANGED <<node, arr, cur, gc, part>>
    /\ reader' = GapReaders(reader)
    /\ UNCHANGED <<setup, world, events>>

Tended ==
    /\ tend.at = "parts" /\ tend.i > Len(Current)
    /\ EndOfTend(TRUE)

\* as_cluster_seed_node, one seed: connect, ask for its peers.  A server without
\* peers is only a fallback.  A seed that fails is not tried again in this tend.
SeedNode ==
    /\ tend.at = "seed" /\ tend.i <= Len(seeds)
    /\ LET host == seeds[tend.i]
           asked == {host} \cup {p[2] : p \in world.cfg[host].peers}
           new == Len(node) + 1
           fallback == tend.list[1]
           created == Append(node, as_node_create(world.name[host], host))
       IN  IF host \in peers.invalid
           THEN At("seed", tend.i + 1) /\ UNCHANGED <<node, peers, events>>
           ELSE \E deaf \in SUBSET asked :
              LET res == as_node_refresh_peers(created, [peers EXCEPT !.count = 0], new, deaf)
              IN  /\ Lost(asked, deaf)
                  /\ \/ /\ ~as_lookup_node(host, deaf)
                        /\ peers' = [peers EXCEPT !.invalid = @ \cup {host}]
                        /\ At("seed", tend.i + 1)
                        /\ UNCHANGED node
                     \/ /\ as_lookup_node(host, deaf) /\ res.node[new].peers_count = 0
                        /\ peers' = res.peers
                        /\ IF fallback = 0
                           THEN /\ node' = res.node
                                /\ tend' = [at |-> "seed", i |-> tend.i + 1, list |-> <<new>>]
                           ELSE At("seed", tend.i + 1) /\ UNCHANGED node
                     \/ /\ as_lookup_node(host, deaf) /\ res.node[new].peers_count > 0
                        /\ peers' = res.peers
                        /\ node' = [n \in DOMAIN res.node |->
                                      IF n = fallback THEN Destroyed ELSE res.node[n]]
                        /\ tend' = [at |-> "seeded", i |-> 1, list |-> <<new>>]
    /\ UNCHANGED <<setup, world, phase, seeds, arr, cur, gc, part, reader>>

SeedsTried ==
    /\ tend.at = "seed" /\ tend.i > Len(seeds)
    /\ IF tend.list[1] = 0
       THEN EndOfTend(FALSE)
       ELSE /\ peers' = [peers EXCEPT !.count = 1]
            /\ At("seeded", 1)
            /\ UNCHANGED <<setup, world, events, phase, seeds, node, arr, cur, gc, part, reader>>

\* The seed and its peers become the cluster, unless fail_if_not_connected is set
\* and a client that starts reaches no peer of its seed.
Seeded ==
    /\ tend.at = "seeded"
    /\ as_cluster_add_nodes(node, tend.list \o peers.nodes)
    /\ IF peers.nodes # <<>>
       THEN /\ tend' = [at |-> "new", i |-> 1, list |-> peers.nodes]
            /\ peers' = [peers EXCEPT !.nodes = <<>>]
       ELSE /\ At(IF phase = "init" /\ setup.strict /\ peers.invalid # {}
                  THEN "abort" ELSE "parts", 1)
            /\ UNCHANGED peers
    /\ UNCHANGED <<setup, world, events, phase, seeds, part, reader>>

InitAbort ==
    /\ tend.at = "abort"
    /\ EndOfTend(FALSE)

Tend ==
    \/ as_cluster_tend \/ Refresh \/ Refreshed \/ RefreshPeers \/ RemoveNodes \/ AddPeers
    \/ as_cluster_refresh_peers \/ RefreshPartitions \/ Tended
    \/ SeedNode \/ SeedsTried \/ Seeded \/ InitAbort

-----------------------------------------------------------------------------
(* Command threads.  They load a pointer and reserve what it points to in   *)
(* two steps.                                                               *)

Live == {n \in Node : node[n].active}
RackOf == [n \in Node |-> IF node[n].name = 0 THEN 0 ELSE Rack[node[n].name]]
RackIds == SetToSortSeq(Range(Rack), <)

\* as_partition_reg_get_node under every policy, from every replica index.
Chosen ==
    UNION {{get_replica_master(part, Live, i).node, get_replica_sequence(part, Live, i).node,
            get_replica_rack(part, Live, RackOf, RackIds, 0, i).node} : i \in Slot}

Reads(t, where, id) == reader' = [reader EXCEPT ![t] = [at |-> where, id |-> id, late |-> FALSE]]

as_partition_reg_get_node(t) ==
    /\ reader[t].at = "idle" /\ phase = "run"
    /\ \E n \in Chosen \ {0} : Reads(t, "node", n)
    /\ UNCHANGED <<node, arr>>

as_node_reserve(t) ==
    /\ reader[t].at = "node"
    /\ node' = [node EXCEPT ![reader[t].id].refs = @ + 1]
    /\ Reads(t, "hold", reader[t].id)
    /\ UNCHANGED arr

as_node_release(t) ==
    /\ reader[t].at = "hold"
    /\ node' = AfterRelease(node, arr, <<<<"node", reader[t].id>>>>, NoDrop(node)).node
    /\ Reads(t, "idle", 0)
    /\ UNCHANGED arr

\* as_nodes_reserve, in two steps.
LoadNodes(t) ==
    /\ reader[t].at = "idle" /\ phase = "run"
    /\ Reads(t, "nodes", cur)
    /\ UNCHANGED <<node, arr>>

ReserveNodes(t) ==
    /\ reader[t].at = "nodes"
    /\ arr' = [arr EXCEPT ![reader[t].id].refs = @ + 1]
    /\ Reads(t, "array", reader[t].id)
    /\ UNCHANGED node

\* as_node_get_random: reserve an active node of the array, release the array.
as_node_get_random(t) ==
    /\ reader[t].at = "array"
    /\ LET active == {n \in Range(arr[reader[t].id].nodes) : node[n].active}
           Released(nodes) == AfterRelease(nodes, arr, <<<<"nodes", reader[t].id>>>>, NoDrop(nodes))
       IN  IF active = {}
           THEN /\ node' = Released(node).node /\ arr' = Released(node).arr
                /\ Reads(t, "idle", 0)
           ELSE \E n \in active :
                  LET rel == Released([node EXCEPT ![n].refs = @ + 1])
                  IN  node' = rel.node /\ arr' = rel.arr /\ Reads(t, "hold", n)

ReaderStep(t) ==
    \/ as_partition_reg_get_node(t) \/ as_node_reserve(t) \/ as_node_release(t)
    \/ LoadNodes(t) \/ ReserveNodes(t) \/ as_node_get_random(t)

Readers ==
    /\ \E t \in setup.reader : ReaderStep(t)
    /\ UNCHANGED <<setup, world, events, phase, seeds, cur, gc, part, peers, tend>>

\* aerospike_close: the tend thread is joined, no command runs.
Close ==
    /\ phase = "run" /\ tend.at = "sleep"
    /\ \A t \in Reader : reader[t].at = "idle"
    /\ as_cluster_destroy
    /\ UNCHANGED <<setup, world, events, reader>>

-----------------------------------------------------------------------------
Init ==
    /\ setup \in Setups
    /\ LET name == setup.name
           member == {h \in Hosts : name[h] # 0}
           truth == Config(name, member, 1)
       IN  world = [name |-> name, member |-> member, truth |-> truth,
                    inc |-> [h \in Hosts |-> 1],
                    cfg |-> [h \in Hosts |-> truth], gen |-> [h \in Hosts |-> 1]]
    /\ events = 0
    /\ phase = "init" /\ seeds = Seeds
    /\ node = <<>> /\ arr = <<[nodes |-> <<>>, refs |-> 1]>> /\ cur = 1
    /\ gc = <<>> /\ part = EmptyPartition /\ peers = NoPeers /\ tend = Sleep
    /\ reader = [t \in Reader |-> [at |-> "idle", id |-> 0, late |-> FALSE]]

Next == Servers \/ Tend \/ Readers \/ Close

Spec == Init /\ [][Next]_vars

\* The tend thread runs, a thread that has loaded a pointer goes on, and the
\* servers of a cluster hear of each other.
FairSpec ==
    /\ Spec
    /\ WF_vars(Tend)
    /\ \A t \in Reader : WF_vars(reader[t].at # "idle" /\ Readers /\ reader'[t] # reader[t])
    /\ \A h \in Hosts : WF_vars(Servers /\ ServerLearns(h))

-----------------------------------------------------------------------------
\* as_node.ref_count is the number of references there are: arrays that hold the
\* node, the partition map (once for all its slots), delayed releases, command
\* threads, and the lists of a tend that has not added the node yet.  So the pointer
\* that a command thread has loaded and is about to reserve never leads to a freed
\* object: the release is delayed to the next tend for this (as_cluster_gc).
RefsExact ==
    /\ \A t \in Reader :
          /\ reader[t].at = "node" => node[reader[t].id].refs > 0
          /\ reader[t].at = "nodes" => arr[reader[t].id].refs > 0
    /\ \A n \in Node :
          node[n].refs =
              Cardinality({a \in DOMAIN arr : n \in Range(arr[a].nodes)})
              + (IF n \in Range(part.nodes) THEN 1 ELSE 0)
              + Count(gc, <<"node", n>>)
              + Cardinality({t \in Reader : reader[t].at = "hold" /\ reader[t].id = n})
              + Count(peers.nodes, n)
              + (IF tend.at \in {"seed", "seeded"} THEN Count(tend.list, n) ELSE 0)
    /\ \A a \in DOMAIN arr :
          arr[a].refs = (IF a = cur /\ phase # "closed" THEN 1 ELSE 0)
              + Count(gc, <<"nodes", a>>)
              + Cardinality({t \in Reader : reader[t].at = "array" /\ reader[t].id = a})

\* The client knows the cluster: a node object for every member under its name,
\* none for a server that is gone, and the owners in the partition map.
Knows ==
    /\ \A h \in world.member : \E i \in DOMAIN Current :
          node[Current[i]].host = h /\ node[Current[i]].name = world.name[h]
    /\ \A i \in DOMAIN Current : LET rec == node[Current[i]]
                                 IN  rec.active /\ world.name[rec.host] = rec.name
    /\ \A r \in Slot : world.truth.owners[r] # 0 =>
          part.nodes[r] # 0 /\ node[part.nodes[r]].host = world.truth.owners[r]

\* Once the servers stay as they are, the client comes to know the cluster and
\* keeps knowing it, as long as a member is among the seeds it remembers.
EventuallyKnows ==
    <>[](/\ phase = "run" /\ world.member \cap Range(seeds) # {}
         /\ \A h \in Hosts : Up(h) => h \in world.member
         => Knows)
=============================================================================
