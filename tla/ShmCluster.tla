----------------------------- MODULE ShmCluster -----------------------------
(***************************************************************************)
(* Processes that share one cluster through shared memory                  *)
(* (as_shm_cluster.c).  One of them, the tend master, tends the cluster    *)
(* and publishes its nodes; the others copy the nodes when nodes_gen       *)
(* changes, and one of them takes over when the master closes or dies.     *)
(*                                                                         *)
(* Time is relative: age is how long ago the timestamp in shared memory    *)
(* was stored, lag how old the clock value is that a process holds, wait   *)
(* how long until its limit.  So "now - ts" is age - lag, and in uint64_t  *)
(* a negative difference is a huge one.  A tick is one tend interval.      *)
(*                                                                         *)
(* What the master finds when it tends is external here (ClusterTend): it  *)
(* sees the servers that are members.  Node arrays never overflow:         *)
(* shm_max_nodes is as large as the number of names.                       *)
(***************************************************************************)
EXTENDS Integers, Sequences, FiniteSets, FiniteSetsExt

CONSTANTS
    Proc,       \* client processes
    Names,      \* server names
    Threshold,  \* shm_takeover_threshold_sec, in tend intervals
    MaxLag,     \* ticks that may pass while a process holds a clock value, or has
                \* the lock and is not stored as the owner
    ReadyWait,  \* the ten seconds of as_shm_wait_till_ready
    CrashAt,    \* the places where a process may crash
    MasterFails,  \* BOOLEAN: also the tend thread of a master may fail to start
    Running,    \* processes that have created their clients at the start; the
                \* first to do so is master
    MaxEvents   \* bound: processes that start, close, exit or crash, servers
                \* that join or leave

ASSUME ShmAssumption ==
    /\ Threshold \in Nat \ {0} /\ MaxLag \in 0 .. Threshold - 1
    /\ ReadyWait \in Nat /\ MaxEvents \in Nat
    /\ Running \subseteq Proc /\ Running # {}
    /\ MasterFails \in BOOLEAN

VARIABLES
    shm,     \* the segment: lock, age, pid, taking (take_over_lock), ready,
             \* gen (nodes_gen), node (sequence of name, active)
    proc,    \* process -> at, alive, inc (incarnation), master, gen, local
             \* (slots with a local node), i, max (loop of reset_nodes), lag,
             \* wait, slept
    member,  \* external: servers in the cluster
    lapse,   \* history: one of the two races below has happened
    events

vars == <<shm, proc, member, lapse, events>>

Old == Threshold + MaxLag + 1     \* an age that counts as any greater one
NoPid == <<>>

NewSegment == [lock |-> 0, age |-> Old, pid |-> NoPid, taking |-> FALSE, ready |-> FALSE,
               gen |-> 0, node |-> <<>>]

NoProcess == [at |-> "off", alive |-> TRUE, inc |-> 0, master |-> FALSE, gen |-> 0,
              local |-> {}, i |-> 0, max |-> 0, lag |-> 0, wait |-> 0, slept |-> FALSE]

Attached == {p \in Proc : proc[p].alive /\ proc[p].at # "off"}

Pid(p) == <<p, proc[p].inc>>

Step(p, rec) == proc' = [proc EXCEPT ![p] = rec]
Goto(p, at) == Step(p, [proc[p] EXCEPT !.at = at])

Least(a, b) == IF a < b THEN a ELSE b

Event == events < MaxEvents /\ events' = events + 1

-----------------------------------------------------------------------------
(* Names in shared memory.                                                  *)

as_shm_find_node_index(seq, name) ==
    IF \E i \in DOMAIN seq : seq[i].name = name
    THEN CHOOSE i \in DOMAIN seq : seq[i].name = name ELSE 0

\* A node that was there before gets its slot back, another one a new slot.
as_shm_add_node(name, seq) ==
    LET i == as_shm_find_node_index(seq, name)
        rec == [name |-> name, active |-> TRUE]
    IN  IF i # 0 THEN [seq EXCEPT ![i] = rec] ELSE Append(seq, rec)

as_shm_add_nodes(seq, names) == FoldSet(as_shm_add_node, seq, names)

as_shm_remove_nodes(seq, slots) ==
    [i \in DOMAIN seq |-> IF i \in slots THEN [seq[i] EXCEPT !.active = FALSE] ELSE seq[i]]

LocalNames(p) == {shm.node[i].name : i \in proc[p].local}

-----------------------------------------------------------------------------
(* as_shm_create.                                                           *)

Storing == {"owner", "takeover"}   \* has the lock, is not stored as the owner
Doubting == {"spin", "locked"}     \* found the owner dead, is about to take over

\* now - ts >= threshold, in uint64_t.
Stale(p) == shm.age - proc[p].lag >= Threshold \/ shm.age < proc[p].lag

\* A process takes the free lock while another is about to take over.
Overtaken == \E q \in Proc : proc[q].at \in Doubting /\ Stale(q)

\* A process has taken the free lock and stored neither the time nor itself.
Unmarked == \E q \in Proc : proc[q].at \in Storing /\ shm.age > proc[q].lag

\* The compare-and-set of lock decides who is master.
as_shm_create(p) ==
    /\ proc[p].alive /\ proc[p].at = "off"
    /\ Event
    /\ LET rec == [NoProcess EXCEPT !.inc = proc[p].inc, !.master = shm.lock = 0]
       IN  IF shm.lock = 0
           THEN /\ Step(p, [rec EXCEPT !.at = "owner"])
                /\ shm' = [shm EXCEPT !.lock = 1]
                /\ lapse' = (lapse \/ Overtaken)
           ELSE /\ Step(p, [rec EXCEPT !.at = "wait", !.wait = ReadyWait])
                /\ UNCHANGED <<shm, lapse>>
    /\ UNCHANGED member

\* The timestamp and the owner are stored.  A segment that is ready is copied, if it
\* has the size that this process expects.
StoreOwner(p) ==
    /\ proc[p].at = "owner"
    /\ shm' = [shm EXCEPT !.age = 0, !.pid = Pid(p)]
    /\ \E at \in IF shm.ready THEN {"copy", "misfit"} ELSE {"init"} :
          Step(p, [proc[p] EXCEPT !.at = at, !.lag = 0, !.i = 1, !.max = Len(shm.node)])
    /\ UNCHANGED <<member, lapse, events>>

\* as_cluster_init by the first master: the first tend.
InitNodes(p) ==
    /\ proc[p].at = "init"
    /\ LET seq == as_shm_add_nodes(shm.node, member)
       IN  /\ shm' = [shm EXCEPT !.node = seq,
                                 !.gen = IF member = {} THEN @ ELSE @ + 1, !.ready = TRUE]
           /\ Step(p, [proc[p] EXCEPT !.at = "start",
                                      !.local = {i \in DOMAIN seq : seq[i].active}])
    /\ UNCHANGED <<member, lapse, events>>

\* as_shm_destroy: the last one to detach removes the segment.
Detached(p, seg) == IF Attached = {p} THEN NewSegment ELSE seg

Leaves(p, seg) ==
    /\ shm' = Detached(p, seg)
    /\ Step(p, [NoProcess EXCEPT !.inc = proc[p].inc])

\* The segment has another size: the lock is released.
Misfit(p) ==
    /\ proc[p].at = "misfit"
    /\ Leaves(p, [shm EXCEPT !.lock = 0])
    /\ UNCHANGED <<member, lapse, events>>

\* as_cluster_init fails and fail_if_not_connected is set.  It may have added a
\* seed before.
InitFails(p) ==
    /\ proc[p].at = "init" /\ Event
    /\ \E found \in SUBSET member :
          Leaves(p, [shm EXCEPT !.lock = 0, !.node = as_shm_add_nodes(@, found),
                                !.gen = IF found = {} THEN @ ELSE @ + 1])
    /\ UNCHANGED <<member, lapse>>

\* The tend thread does not start: the process detaches, and the lock stays.
ThreadFailed(p) ==
    /\ proc[p].at = "start" /\ (MasterFails \/ ~proc[p].master)
    /\ Leaves(p, shm)
    /\ UNCHANGED <<member, lapse, events>>

StartTender(p) ==
    /\ proc[p].at = "start"
    /\ Step(p, [proc[p] EXCEPT !.at = "sleep", !.slept = FALSE])
    /\ UNCHANGED <<shm, member, lapse, events>>

\* as_shm_wait_till_ready, then as_shm_reset_nodes.  It gives up at last.
as_shm_wait_till_ready(p) ==
    /\ proc[p].at = "wait"
    /\ shm.ready \/ proc[p].wait = 0
    /\ Step(p, [proc[p] EXCEPT !.at = "copy", !.wait = 0, !.i = 1, !.max = Len(shm.node)])
    /\ UNCHANGED <<shm, member, lapse, events>>

\* as_shm_reset_nodes, one slot at a time under the slot's read lock.
as_shm_reset_nodes(p) ==
    /\ proc[p].at \in {"copy", "reset"}
    /\ LET i == proc[p].i
       IN  Step(p, IF i > proc[p].max
                   THEN [proc[p] EXCEPT !.at = IF @ = "copy" THEN "start" ELSE "sleep",
                                        !.slept = FALSE]
                   ELSE [proc[p] EXCEPT !.i = i + 1,
                           !.local = IF shm.node[i].active THEN @ \cup {i} ELSE @ \ {i}])
    /\ UNCHANGED <<shm, member, lapse, events>>

-----------------------------------------------------------------------------
(* as_shm_tender, the master.                                               *)

TendBegins(p) ==
    /\ proc[p].at = "sleep" /\ proc[p].master
    /\ Goto(p, "tend")
    /\ UNCHANGED <<shm, member, lapse, events>>

\* as_cluster_remove_nodes of the servers that left; nodes_gen follows.
RemoveNodes(p) ==
    /\ proc[p].at = "tend"
    /\ LET gone == {i \in proc[p].local : shm.node[i].name \notin member}
       IN  IF gone = {}
           THEN Goto(p, "add") /\ UNCHANGED shm
           ELSE /\ shm' = [shm EXCEPT !.node = as_shm_remove_nodes(@, gone)]
                /\ Step(p, [proc[p] EXCEPT !.at = "removed", !.local = @ \ gone])
    /\ UNCHANGED <<member, lapse, events>>

NodesGenOnRemoval(p) ==   \* mutant
    /\ proc[p].at \in {"removed", "added"}
    /\ shm' = [shm EXCEPT !.gen = IF proc[p].at = "removed" THEN @ + 1 ELSE @]
    /\ Goto(p, IF proc[p].at = "removed" THEN "add" ELSE "stamp")
    /\ UNCHANGED <<member, lapse, events>>

NodesGen(p) ==
    /\ proc[p].at \in {"removed", "added"}
    /\ shm' = [shm EXCEPT !.gen = @ + 1]
    /\ Goto(p, IF proc[p].at = "removed" THEN "add" ELSE "stamp")
    /\ UNCHANGED <<member, lapse, events>>

AddNodes(p) ==
    /\ proc[p].at = "add"
    /\ LET new == member \ LocalNames(p)
           seq == as_shm_add_nodes(shm.node, new)
       IN  IF new = {}
           THEN Goto(p, "stamp") /\ UNCHANGED shm
           ELSE /\ shm' = [shm EXCEPT !.node = seq]
                /\ Step(p, [proc[p] EXCEPT !.at = "added",
                              !.local = @ \cup {i \in DOMAIN seq : seq[i].name \in new}])
    /\ UNCHANGED <<member, lapse, events>>

StoreTimestamp(p) ==
    /\ proc[p].at = "stamp"
    /\ shm' = [shm EXCEPT !.age = 0]
    /\ Step(p, [proc[p] EXCEPT !.at = "sleep", !.slept = FALSE])
    /\ UNCHANGED <<member, lapse, events>>

-----------------------------------------------------------------------------
(* as_shm_tender, a follower.                                               *)

\* The owner has released the lock, or the clock is read.
Follow(p) ==
    /\ proc[p].at = "sleep" /\ ~proc[p].master
    /\ IF shm.lock = 0
       THEN /\ shm' = [shm EXCEPT !.lock = 1]
            /\ lapse' = (lapse \/ Overtaken)
            /\ Goto(p, "takeover")
       ELSE /\ Goto(p, IF proc[p].wait = 0 THEN "clock" ELSE "sync")
            /\ UNCHANGED <<shm, lapse>>
    /\ UNCHANGED <<member, events>>

\* limit = ts + threshold.
Limit(p) == IF Threshold > shm.age THEN Threshold - shm.age ELSE 0

LoadTimestamp(p) ==
    /\ proc[p].at = "clock"
    /\ Step(p, IF Stale(p) THEN [proc[p] EXCEPT !.at = "check"]
               ELSE [proc[p] EXCEPT !.at = "sync", !.lag = 0, !.wait = Limit(p)])
    /\ UNCHANGED <<shm, member, lapse, events>>

OwnerStored == shm.pid # NoPid   \* mutant

\* as_process_exists(owner_pid).
OwnerExists == \E p \in Proc : proc[p].alive /\ shm.pid = Pid(p)

CheckOwner(p) ==
    /\ proc[p].at = "check"
    /\ IF OwnerExists
       THEN Step(p, [proc[p] EXCEPT !.at = "sync", !.lag = 0]) /\ UNCHANGED lapse
       ELSE Goto(p, "spin") /\ lapse' = (lapse \/ (Stale(p) /\ Unmarked))
    /\ UNCHANGED <<shm, member, events>>

LockTakeOver(p) ==
    /\ proc[p].at = "spin" /\ ~shm.taking
    /\ shm' = [shm EXCEPT !.taking = TRUE]
    /\ Goto(p, "locked")
    /\ UNCHANGED <<member, lapse, events>>

\* The timestamp is reloaded, "just in case another process just modified it".
RecheckSkipped(p) == TRUE   \* mutant
Recheck(p) == Stale(p)

\* The timestamp becomes the clock value the process holds.  Unless it is the older
\* of the two: then their difference wrapped.
TakeOver(p) ==
    /\ proc[p].at = "locked"
    /\ IF Recheck(p)
       THEN /\ shm' = [shm EXCEPT !.age = proc[p].lag, !.lock = 1, !.taking = FALSE]
            /\ lapse' = (lapse \/ shm.age < proc[p].lag)
            /\ Goto(p, "takeover")
       ELSE /\ shm' = [shm EXCEPT !.taking = FALSE]
            /\ Step(p, [proc[p] EXCEPT !.at = "sync", !.lag = 0, !.wait = Limit(p)])
            /\ UNCHANGED lapse
    /\ UNCHANGED <<member, events>>

\* The new master tends at once.
as_shm_takeover_cluster(p) ==
    /\ proc[p].at = "takeover"
    /\ shm' = [shm EXCEPT !.pid = Pid(p)]
    /\ Step(p, [proc[p] EXCEPT !.at = "tend", !.master = TRUE, !.lag = 0])
    /\ UNCHANGED <<member, lapse, events>>

\* The generation is read before the nodes: a change in between is seen next time.
Sync(p) ==
    /\ proc[p].at = "sync"
    /\ Step(p, IF proc[p].gen # shm.gen
               THEN [proc[p] EXCEPT !.at = "reset", !.gen = shm.gen,
                                    !.i = 1, !.max = Len(shm.node)]
               ELSE [proc[p] EXCEPT !.at = "sleep", !.slept = FALSE])
    /\ UNCHANGED <<shm, member, lapse, events>>

-----------------------------------------------------------------------------
(* The end of a process, servers, time.                                     *)

\* aerospike_close: the tend thread ends and releases the lock.  The process may
\* live on, and may create a client again.
Close(p) ==
    /\ proc[p].at = "sleep" /\ proc[p].alive /\ Event
    /\ Leaves(p, IF proc[p].master THEN [shm EXCEPT !.lock = 0] ELSE shm)
    /\ UNCHANGED <<member, lapse>>

\* The process is killed, or exits without closing.
Crash(p) ==
    /\ proc[p].at \in CrashAt /\ proc[p].alive /\ Event
    /\ Step(p, [NoProcess EXCEPT !.alive = FALSE, !.inc = proc[p].inc])
    /\ UNCHANGED <<shm, member, lapse>>

Restart(p) ==
    /\ ~proc[p].alive /\ Event
    /\ Step(p, [NoProcess EXCEPT !.inc = proc[p].inc + 1])
    /\ UNCHANGED <<shm, member, lapse>>

ServerJoinsOrLeaves ==
    /\ Event
    /\ \E n \in Names : member' = IF n \in member THEN member \ {n} ELSE member \cup {n}
    /\ UNCHANGED <<shm, proc, lapse>>

Holding == {"clock", "check", "spin", "locked"} \cup Storing

\* Time passes, MaxLag intervals at most while a process holds a clock value or the
\* lock.
Tick ==
    /\ \A p \in Proc : /\ proc[p].at \in Holding => proc[p].lag < MaxLag
                       /\ proc[p].at = "sleep" => ~proc[p].slept
                       /\ proc[p].at = "wait" => ~shm.ready /\ proc[p].wait > 0
    /\ shm' = [shm EXCEPT !.age = Least(Old, @ + 1)]
    /\ proc' = [p \in Proc |->
                  [proc[p] EXCEPT !.lag = IF proc[p].at \in Holding THEN @ + 1 ELSE @,
                                  !.wait = IF @ > 0 THEN @ - 1 ELSE 0,
                                  !.slept = proc[p].at = "sleep"]]
    /\ UNCHANGED <<member, lapse, events>>

-----------------------------------------------------------------------------
\* Nothing has started, or the clients in Running have created the segment.
Init ==
    /\ events = 0 /\ lapse = FALSE /\ member \in SUBSET Names
    /\ \/ /\ shm = NewSegment
          /\ proc = [p \in Proc |-> NoProcess]
       \/ LET first == CHOOSE p \in Running : TRUE
              seq == as_shm_add_nodes(<<>>, member)
              gen == IF member = {} THEN 0 ELSE 1
          IN  /\ shm = [NewSegment EXCEPT !.lock = 1, !.age = 0, !.pid = <<first, 0>>,
                                          !.ready = TRUE, !.gen = gen, !.node = seq]
              /\ proc = [p \in Proc |->
                    IF p \notin Running THEN NoProcess
                    ELSE [NoProcess EXCEPT !.at = "sleep", !.master = p = first,
                             !.gen = IF p = first THEN 0 ELSE gen,
                             !.local = DOMAIN seq]]

Works(p) ==
    \/ StoreOwner(p) \/ InitNodes(p) \/ as_shm_wait_till_ready(p) \/ as_shm_reset_nodes(p)
    \/ Misfit(p) \/ StartTender(p)
    \/ TendBegins(p) \/ RemoveNodes(p) \/ NodesGen(p) \/ AddNodes(p) \/ StoreTimestamp(p)
    \/ Follow(p) \/ LoadTimestamp(p) \/ CheckOwner(p) \/ LockTakeOver(p) \/ TakeOver(p)
    \/ as_shm_takeover_cluster(p) \/ Sync(p)

Next ==
    \/ \E p \in Proc : \/ as_shm_create(p) \/ Works(p) \/ InitFails(p)
                       \/ ThreadFailed(p) \/ Close(p) \/ Crash(p) \/ Restart(p)
    \/ ServerJoinsOrLeaves \/ Tick

Spec == Init /\ [][Next]_vars

\* Every process runs, and time passes.
FairSpec == Spec /\ WF_vars(Tick) /\ \A p \in Proc : WF_vars(Works(p))

-----------------------------------------------------------------------------
\* Two processes never tend the cluster at the same time: a process that takes
\* over stores the timestamp so that the others do not (as_shm_tender).
AtMostOneTender == \A p, q \in Proc : proc[p].master /\ proc[q].master => p = q

\* Two processes tend at the same time only after one of two races of as_shm_tender: a
\* process took over with a clock value older than the timestamp, which another had
\* stored meanwhile; or one found the owner dead before another that had taken the free
\* lock stored the time.  Crashes and pauses anywhere else do not lead there.
SecondTenderRaced == lapse \/ AtMostOneTender

\* Whatever happened to the earlier ones, there is eventually a tend master, and every
\* process that has not closed has a local node for every server of the cluster,
\* although it follows another one that may die or be replaced.
EventuallyTended ==
    <>[]\/ lapse
        \/ /\ Attached # {} => \E p \in Proc : proc[p].master
           /\ \A p \in Attached : member \subseteq LocalNames(p)
=============================================================================
