----------------------------- MODULE SyncCommand -----------------------------
(***************************************************************************)
(* Synchronous commands and the connection pools of a node: every thread   *)
(* runs single record writes with as_command_execute, takes a connection   *)
(* with as_node_get_connection from one of the node's pools and gives it   *)
(* back, while the tend thread balances the pools                          *)
(* (as_node_balance_connections).                                          *)
(*                                                                         *)
(* A pool is a locked queue of idle sockets and an atomic count, "total".  *)
(* A step is one access to one of the two, with the private work up to the *)
(* next.  total is unsigned: -1 stands for the value it wraps to.          *)
(***************************************************************************)
EXTENDS Integers, FiniteSets

CONSTANTS
    Thread,     \* application threads
    Configs,    \* the configurations to consider
    MaxFaults   \* bound: errors, timeouts, stale sockets

\* What of as_config and of the policy of the commands matters here.
Config ==
    [pools : Nat \ {0},          \* cluster->conn_pools_per_node
     capacity : Nat \ {0},       \* capacity of the queue of a pool
     min_size : Nat,             \* pool->min_size
     max_retries : Nat,          \* policy->max_retries
     total_timeout : BOOLEAN,    \* TRUE when commands have a total_timeout
     auth : BOOLEAN]             \* cluster->auth_enabled

ASSUME SyncAssumption ==
    /\ IsFiniteSet(Thread)
    /\ Configs \subseteq Config
    /\ \A c \in Configs : c.min_size <= c.capacity
    /\ MaxFaults \in Nat

VARIABLES
    conf,    \* the configuration; it stays the same
    idle,    \* pool -> sockets in its queue
    total,   \* pool -> queue.total
    th,      \* thread -> its as_command and where it is
    tend,    \* the balancing of the tend thread
    faults   \* faults so far

vars == <<conf, idle, total, th, tend, faults>>

NPools == conf.pools
Capacity == conf.capacity
MinSize == conf.min_size
MaxRetries == conf.max_retries

Pools == 0..(NPools - 1)

NoCommand ==
    [pc |-> "idle", pool |-> 0, index |-> 0, initial |-> 0, backward |-> FALSE,
     iteration |-> 0, sent |-> 0, copies |-> 0, result |-> "none"]

Init ==
    /\ conf \in Configs
    /\ idle = [p \in Pools |-> 0]
    /\ total = [p \in Pools |-> 0]
    /\ th = [t \in Thread |-> NoCommand]
    /\ tend = [pc |-> "idle", pool |-> 0, count |-> 0]
    /\ faults = 0

Fault == faults < MaxFaults /\ faults' = faults + 1

-----------------------------------------------------------------------------
(* as_conn_pool                                                             *)

Pop(p) == idle[p] > 0 /\ idle' = [idle EXCEPT ![p] = @ - 1]
MayPush(p) == idle[p] < Capacity
Push(p) == MayPush(p) /\ idle' = [idle EXCEPT ![p] = @ + 1]
Incr(p) == total' = [total EXCEPT ![p] = @ + 1]
Decr(p) == total' = [total EXCEPT ![p] = @ - 1]

\* The count as_conn_pool_incr found is within the limit.
HasRoomLate(n) == n \in 0..Capacity  \* mutant
HasRoom(n) == n \in 0..(Capacity - 1)

-----------------------------------------------------------------------------
(* as_command_execute                                                       *)

\* as_error_set_in_doubt.  "client" stands for the codes below zero and for
\* AEROSPIKE_ERR_TIMEOUT, "server" for the other codes above zero.
InDoubtOnceOnly(sent, code) == sent = 1 /\ code = "client"  \* mutant
InDoubt(sent, code) == sent > 1 \/ (sent = 1 /\ code = "client")

Goes(t, pc) == th' = [th EXCEPT ![t].pc = pc]

\* as_command_prepare_error; of the command, what was sent and the result are kept.
Failed(cm, code) ==
    [NoCommand EXCEPT !.result = IF InDoubt(cm.sent, code) THEN "in_doubt" ELSE "error",
                      !.copies = cm.copies]

\* Retry: another attempt, unless none is left or the deadline has passed.
Retried(cm, n) ==
    [NoCommand EXCEPT !.pc = "begin", !.iteration = n, !.sent = cm.sent, !.copies = cm.copies]
AgainUncounted(cm) == Retried(cm, cm.iteration)  \* mutant
Again(cm) == Retried(cm, cm.iteration + 1)
Retry(t, cm, code) ==
    \/ /\ cm.iteration < MaxRetries
       /\ th' = [th EXCEPT ![t] = Again(cm)]
    \/ /\ cm.iteration = MaxRetries \/ conf.total_timeout
       /\ th' = [th EXCEPT ![t] = Failed(cm, code)]

Start(t) ==
    /\ th[t].pc = "idle"
    /\ th' = [th EXCEPT ![t] = [NoCommand EXCEPT !.pc = "begin"]]
    /\ UNCHANGED <<conf, idle, total, tend, faults>>

\* The partition has no node: no retry.
NoNode(t) ==
    /\ th[t].pc = "begin"
    /\ Fault
    /\ th' = [th EXCEPT ![t] = Failed(@, "client")]
    /\ UNCHANGED <<idle, total, tend>>

\* as_node_valid_error_rate fails.
RateExceeded(t) ==
    /\ th[t].pc = "begin"
    /\ Fault
    /\ Retry(t, th[t], "client")
    /\ UNCHANGED <<idle, total, tend>>

-----------------------------------------------------------------------------
(* as_node_get_connection                                                   *)

\* node->conn_iter chooses the first pool; it is shared and not atomic.
Search(t) ==
    /\ th[t].pc = "begin"
    /\ \E i \in Pools :
          th' = [th EXCEPT ![t].pc = "pop", ![t].pool = i, ![t].index = i, ![t].initial = i,
                           ![t].backward = NPools > 1]
    /\ UNCHANGED <<idle, total, tend, faults>>

\* The search is over, and with it the variables of as_node_get_connection.
Found(cm, pc) == [cm EXCEPT !.pc = pc, !.index = 0, !.initial = 0, !.backward = FALSE]

\* A socket of the pool is used, or is found stale or invalid and closed.
PopHead(t) ==
    /\ th[t].pc = "pop"
    /\ \/ /\ Pop(th[t].pool)
          /\ \/ th' = [th EXCEPT ![t] = Found(@, "write")] /\ UNCHANGED faults
             \/ Goes(t, "stale") /\ Fault
       \/ /\ idle[th[t].pool] = 0
          /\ Goes(t, "incr") /\ UNCHANGED <<idle, faults>>
    /\ UNCHANGED <<total, tend>>

CloseStale(t) ==
    /\ th[t].pc = "stale"
    /\ Decr(th[t].pool)
    /\ Goes(t, "pop")
    /\ UNCHANGED <<idle, tend, faults>>

IncrTotal(t) ==
    /\ th[t].pc = "incr"
    /\ IF HasRoom(total[th[t].pool])
       THEN th' = [th EXCEPT ![t] = Found(@, "create")]
       ELSE Goes(t, "full")
    /\ Incr(th[t].pool)
    /\ UNCHANGED <<idle, tend, faults>>

\* The pool is full: the indices below the first one are next and then those
\* above it.  The pointer moves by the index from the pool it is at.
Down(cm) == cm.backward /\ cm.index > 0
NextIndex(cm) ==
    IF Down(cm) THEN cm.index - 1 ELSE (IF cm.backward THEN cm.initial ELSE cm.index) + 1
At(cm, i) == [cm EXCEPT !.pc = "pop", !.pool = @ + i, !.index = i, !.backward = Down(cm)]

TryNext(t) ==
    /\ th[t].pc = "full"
    /\ Decr(th[t].pool)
    /\ LET i == NextIndex(th[t])
       IN \/ i < NPools /\ th' = [th EXCEPT ![t] = At(@, i)]
          \/ i >= NPools /\ Retry(t, th[t], "client")
    /\ UNCHANGED <<idle, tend, faults>>

\* as_node_create_connection
Create(t) ==
    /\ th[t].pc = "create"
    /\ Goes(t, "write")
    /\ UNCHANGED <<idle, total, tend, faults>>

\* The connection fails, or the server refuses the credentials: that is final.
CreateFailsKept(p) == UNCHANGED total  \* mutant
CreateFailsTotal(p) == Decr(p)
CreateFails(t) ==
    /\ th[t].pc = "create"
    /\ Fault
    /\ CreateFailsTotal(th[t].pool)
    /\ \/ Retry(t, th[t], "client")
       \/ conf.auth /\ th' = [th EXCEPT ![t] = Failed(@, "server")]
    /\ UNCHANGED <<idle, tend>>

-----------------------------------------------------------------------------
(* The rest of as_command_execute: write, read, release of the connection.  *)

Write(t) ==
    /\ th[t].pc = "write"
    /\ th' = [th EXCEPT ![t].pc = "read", ![t].sent = @ + 1, ![t].copies = @ + 1]
    /\ UNCHANGED <<idle, total, tend, faults>>

\* as_node_close_conn_error, then another attempt.
WriteFails(t) ==
    /\ th[t].pc = "write"
    /\ Fault
    /\ Decr(th[t].pool)
    /\ Retry(t, th[t], "client")
    /\ UNCHANGED <<idle, tend>>

\* What becomes of the command when its connection goes back to the pool: it
\* succeeded ("ok"), the server rejected it ("server"), or rejected it with a
\* code that is retried ("retry"), or timed out and cannot say ("timeout").
Answer(t, answer) ==
    /\ th[t].pc = "read"
    /\ th' = [th EXCEPT ![t].pc = "put", ![t].result = answer,
                        ![t].copies = IF answer \in {"server", "retry"} THEN @ - 1 ELSE @]
    /\ UNCHANGED <<idle, total, tend, faults>>

\* The end of the attempt, its connection being released.
Settle(t) ==
    LET cm == [th[t] EXCEPT !.result = "none"]
    IN CASE th[t].result = "ok" -> th' = [th EXCEPT ![t] = [NoCommand EXCEPT !.result = "ok"]]
         [] th[t].result = "server" -> th' = [th EXCEPT ![t] = Failed(cm, "server")]
         [] th[t].result = "retry" -> Retry(t, cm, "server")
         [] th[t].result = "timeout" -> Retry(t, cm, "client")

\* as_node_put_connection
Put(t) ==
    /\ th[t].pc = "put"
    /\ IF MayPush(th[t].pool)
       THEN Push(th[t].pool) /\ Settle(t)
       ELSE Goes(t, "close") /\ UNCHANGED idle
    /\ UNCHANGED <<total, tend, faults>>

Close(t) ==
    /\ th[t].pc = "close"
    /\ Decr(th[t].pool)
    /\ Settle(t)
    /\ UNCHANGED <<idle, tend, faults>>

\* The read fails or times out: the socket is closed and the command retried;
\* or the response cannot be used, or the session has ended
\* (AEROSPIKE_NOT_AUTHENTICATED): the error is final.
ReadFails(t) ==
    /\ th[t].pc = "read"
    /\ Fault
    /\ Decr(th[t].pool)
    /\ \/ Retry(t, th[t], "client")
       \/ th' = [th EXCEPT ![t] = Failed(@, "client")]
       \/ conf.auth /\ th' = [th EXCEPT ![t] = Failed([th[t] EXCEPT !.copies = @ - 1], "server")]
    /\ UNCHANGED <<idle, tend>>

-----------------------------------------------------------------------------
(* as_node_balance_connections, by the tend thread.                         *)

NextPool == tend' = [pc |-> "idle", pool |-> (tend.pool + 1) % NPools, count |-> 0]
Tend(pc, n) == tend' = [tend EXCEPT !.pc = pc, !.count = n]

Balance ==
    /\ tend.pc = "idle"
    /\ LET excess == total[tend.pool] - MinSize
       IN \/ excess > 0 /\ Tend("trim", excess)
          \/ excess < 0 /\ Tend("grow", -excess)
          \/ excess <= 0 /\ NextPool  \* also when the error rate is too high
    /\ UNCHANGED <<idle, total, th, faults>>

\* as_node_close_idle_connections: the socket at the tail is closed, or, when
\* it was used lately, put back, which ends the trimming.
TrimPop ==
    /\ tend.pc = "trim"
    /\ \/ idle[tend.pool] = 0 /\ NextPool /\ UNCHANGED idle
       \/ Pop(tend.pool) /\ (Tend("old", tend.count) \/ Tend("recent", tend.count))
    /\ UNCHANGED <<total, th, faults>>

TrimClose ==
    /\ tend.pc = "old"
    /\ Decr(tend.pool)
    /\ IF tend.count > 1 THEN Tend("trim", tend.count - 1) ELSE NextPool
    /\ UNCHANGED <<idle, th, faults>>

TrimPutBack ==
    /\ tend.pc = "recent"
    /\ IF MayPush(tend.pool) THEN Push(tend.pool) /\ UNCHANGED total
                             ELSE Decr(tend.pool) /\ UNCHANGED idle
    /\ NextPool
    /\ UNCHANGED <<th, faults>>

\* as_node_create_connections: a socket is pushed first and counted then.
Grow ==
    /\ tend.pc = "grow"
    /\ \/ Tend("push", tend.count)
       \/ NextPool
    /\ UNCHANGED <<idle, total, th, faults>>

GrowPush ==
    /\ tend.pc = "push"
    /\ IF MayPush(tend.pool) THEN Push(tend.pool) /\ Tend("count", tend.count)
                             ELSE NextPool /\ UNCHANGED idle
    /\ UNCHANGED <<total, th, faults>>

GrowCount ==
    /\ tend.pc = "count"
    /\ Incr(tend.pool)
    /\ IF tend.count > 1 THEN Tend("grow", tend.count - 1) ELSE NextPool
    /\ UNCHANGED <<idle, th, faults>>

-----------------------------------------------------------------------------
TendStep ==
    /\ UNCHANGED conf
    /\ Balance \/ TrimPop \/ TrimClose \/ TrimPutBack \/ Grow \/ GrowPush \/ GrowCount

CommandStep(t) ==
    /\ UNCHANGED conf
    /\ \/ NoNode(t) \/ RateExceeded(t) \/ Search(t)
       \/ PopHead(t) \/ CloseStale(t) \/ IncrTotal(t) \/ TryNext(t) \/ Create(t) \/ CreateFails(t)
       \/ Write(t) \/ WriteFails(t) \/ Put(t) \/ Close(t) \/ ReadFails(t)
       \/ \E answer \in {"ok", "server", "retry", "timeout"} : Answer(t, answer)

Next == TendStep \/ \E t \in Thread : Start(t) \/ CommandStep(t)

Spec == Init /\ [][Next]_vars

-----------------------------------------------------------------------------
(* Properties.                                                              *)

\* The thread holds a slot of pool p; it has a socket open.
HoldsSlot(t, p) ==
    th[t].pool = p /\ th[t].pc \in {"stale", "full", "create", "write", "read", "put", "close"}
HasSocket(t, p) == HoldsSlot(t, p) /\ th[t].pc # "full"

Sockets(p) ==
    idle[p] + Cardinality({t \in Thread : HasSocket(t, p)})
            + (IF tend.pool = p /\ tend.pc \in {"old", "recent", "push"} THEN 1 ELSE 0)

TypeOK ==
    /\ idle \in [Pools -> 0..Capacity]
    /\ total \in [Pools -> Int]
    /\ \A t \in Thread :
          /\ th[t].iteration \in 0..MaxRetries
          /\ {th[t].sent, th[t].copies} \subseteq 0..(MaxRetries + 1)
    /\ faults \in 0..MaxFaults

\* queue.total counts the idle sockets and the slots threads hold, on every
\* path, except for the socket as_node_create_connections has pushed and not
\* yet counted: no error path leaks a slot or gives one back twice.
TotalExact ==
    \A p \in Pools :
      total[p] = idle[p] + Cardinality({t \in Thread : HoldsSlot(t, p)})
                  + (IF tend.pool = p /\ tend.pc \in {"old", "recent"} THEN 1 ELSE 0)
                  - (IF tend.pool = p /\ tend.pc = "count" THEN 1 ELSE 0)

\* A pool has no more sockets open than it may hold (as_config.max_conns_per_node),
\* but for those as_node_create_connections opens to reach min_size, which does not
\* look at the limit.
SocketsBounded == \A p \in Pools : Sockets(p) <= Capacity + MinSize

\* queue.total counts the idle sockets and the slots threads hold, on every path, so
\* that the node never has more sockets open than its configuration allows: no error
\* path of a command and no balancing leaks a slot or gives one back twice.
PoolsExact == TypeOK /\ TotalExact /\ SocketsBounded

\* The search for another pool stays in the node's array of pools.
InRange == \A t \in Thread : th[t].pool \in Pools

\* An error reported without in_doubt means that no copy of the write that was
\* sent can have been applied (as_command_prepare_error).
HonestInDoubt == \A t \in Thread : th[t].result = "error" => th[t].copies = 0

=============================================================================
