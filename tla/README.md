# A TLA+ verification of the Aerospike C client

This directory holds TLA+ models of the parts of the client in which threads,
event loops, timers, retries and servers interleave, and of the code that turns
calls into requests and answers into values; the TLC configurations that check
them on small instances; and TLAPS proofs that hold for every instance.
`PROJECT.json` maps every definition to the source lines it models and lists the
components, runs, mutants, findings, hazards and theorems.

Paths below are relative to `src/src/main/aerospike/`, headers to
`src/src/include/aerospike/`.

1. The system and its models
2. The runs
3. Disagreements between the code and what it says
4. What is proved
5. What is only model-checked
6. What is not modelled

## 1. The system and its models

A call of the API merges its policy with the configuration file, builds one or
more requests, and sends them to the nodes that the partition map names. A
synchronous call takes a connection of a node's pool and runs in the calling
thread, or in threads of a pool when it goes to several nodes. An asynchronous
one is handed to an event loop, which admits it or delays it, and an executor
counts the commands of a request to several nodes. Scans and queries ask the
partition tracker what to request of which node, and after each round whether to
go on. Commands of a transaction register their keys in a monitor record before
they write; commit and abort are batches of commands. Beside all that the tend
thread follows the cluster, logs in, balances connections and reads the
configuration file; processes may share its work through shared memory.

Every module keeps the control of the code (guards, early returns, error paths
and their order) and abstracts the data. A bound that is not in the code is a
constant whose comment says "bound". An operator marked `mutant` is a variant of
the definition next to it with a plausible mistake, to show that a property
notices it; the specifications do not use it.

### Requests to several nodes

| Module | Code | State and steps |
|---|---|---|
| `EventExecutor` | `as_event.c` (executor), its callers in `aerospike_batch.c`, `aerospike_scan.c`, `aerospike_query.c`, `as_query_validate.c` | `ex` holds the fields of an `as_event_executor`, `cmd` the state of each command, `caller` the submitting thread, `loop` whether the event loop stands between the unlock and the store of the first error in `as_event_executor_error`. That window is a step of its own (`SaveError`); all else happens under the lock. |
| `PartitionTracker` | `as_partition_tracker.c` and the loops around it | `all` and `parts` are the `as_partitions_status` that survives a page, `pt` and `np` the tracker and its node shares. A record is its partition and its rank in digest order. `got` is a history: how often the listener accepted a record. External: servers and partition map, which may fail, stop at a limit or miss a partition. |
| `QueryForeach` | the synchronous foreach functions of `aerospike_query.c`, `aerospike_scan.c` | The caller, one task per node in the thread pool, the aggregation thread, the completion queue, the first error under `error_mutex`. |
| `BatchCommand`, `BatchApi`, `BatchWire` | `aerospike_batch.c` | Keys grouped by node; a thread is a stack of commands, since a split command is replaced by its parts; rows that repeat the one before; a compression that fails; answers, splits, retries, the in-doubt flags. `again` is a history: writes sent once more after an error was answered. |

### Transactions

| Module | Code | State and steps |
|---|---|---|
| `TxnCommit` | `as_txn.c`, `as_txn_monitor.c`, `aerospike_txn.c` | `txn` is the `as_txn`, `cmd` the writes that registered their key, `call` the commit or abort in progress (`verify`, `mark`, `roll`, `remove`). External: records, monitor record, deadline, and `late`, requests in doubt that may still arrive. `Async` chooses the callbacks instead of the synchronous functions. |
| `TxnHash`, `TxnSets` | the hash tables of `as_txn.c` | Rows and chains of reads and writes, as the answers to commands fill them. `TxnSets` is what they promise: a set of keys with versions. |
| `Replies` | parsers of `as_command.c`, `as_event.c` | Records, results of functions, streams and versions read from an answer; who owns each value. |

### Commands, connections and event loops

| Module | Code | State and steps |
|---|---|---|
| `SyncCommand` | `as_command.c`, the pools of `as_node.c`, `as_conn_pool.h` | Per pool the queue of idle sockets and the atomic `total`; each access to either is a step. Threads run `as_command_execute`, the tend thread balances. `copies` is a history: sent copies of the write that the server may have applied. |
| `EventLoop` | `as_event.c`, `as_event_ev.c` | Commands, timers, delay queue, pending counters, pools and the close of a cluster on one loop. The loop is one thread; `stack` keeps what it returns to when a listener or the release of a command re-enters the engine. |
| `EventSocket`, `EventWatcher`, `EventStream`, `AsyncSocket` | the callbacks of `as_event_ev.c`, `as_event_event.c`, `as_event_uv.c` | Connect, TLS handshake, authentication, partial writes and reads, a TLS read that must write first, TLS errors and failed writes into it, close callbacks that come later. A callback is one step and maps a state to the set of states it may end in. |
| `Pipeline` | `as_pipe.c` | One writer and a list of readers per connection; cancellation is a frame of `stack`. |
| `LoopTasks` | the last part of `as_event.c`, `as_cluster_destroy` | Connectors, balancers, registration and close on several loops, beside the tend thread that waits for them; a loop may refuse a task, which its caller then runs. |
| `KeyCommand`, `KeyWire`, `Wire` | `aerospike_key.c`, `as_command.c` | Requests of every call on one key, their sizes, fields and attributes; the monitor record before the first write of a transaction, whose answer patches, compresses and sends the request or fails to. |
| `QueryObject`, `QueryWire` | `as_query.c`, `as_scan.c` and their requests | A query or scan built, saved as bytes, resumed, converted for old servers and sent. A reader of bytes keeps track of memory it has allocated and not set, which the destructor of its error path would read. |

### Cluster

| Module | Code | State and steps |
|---|---|---|
| `ClusterTend`, `PartitionMap` | `as_cluster.c`, `as_node.c`, `as_peers.c`, `as_partition.c` | Nodes and node arrays as heap objects with the code's reference counts; seeding, peers, partitions, racks, removal, garbage collection; readers hold nodes meanwhile. `PartitionMap` also has the replica of an attempt. |
| `ShmCluster` | `as_shm_cluster.c` | Lock, owner, timestamp and node table in shared memory; processes elect, tend, follow, close, fail to start and crash. Time is relative: the age of the timestamp, the lag of a held clock value. `lapse` is a history: one of the races of `SecondTenderRaced` has happened. |
| `Session`, `Admin` | `as_node.c`, `as_admin.c`, `as_cluster.c` | Logins, also to servers whose security is switched on or off, session tokens and their deferred release, error limits, and every administration request with its parser. |
| `ConfigFile`, `ConfigFields` | `as_config_file.c`, `as_config.c`, `as_policy.c`, `aerospike.c` | Reading a file over the user's policies, updates by the tend thread, the policy a command runs with, metrics. |

### Composition

Each composite module `MC...` takes several modules, gives their constants
values, and lets a behaviour be that of one of its parts, chosen by the variable
`part`; the others stay where they start. So one run asks one question of all
parts that share it. `MCEngine` and `MCClient` extend `EventLoop`, whose variables
are those of their first loop, so that their runs check the very definitions that
section 4 proves; `MCEngine` instantiates the module a second time for the loop with
retries. The setups (calls, requests, files, sockets) are definitions
of the composite; a configuration chooses among them by a constant.

| Composite | Parts |
|---|---|
| `MCScans` | `EventExecutor`, `PartitionTracker`, `QueryForeach` |
| `MCTxn` | `TxnCommit` synchronous, `TxnCommit` asynchronous, `Replies` with `TxnHash` |
| `MCEngine` | `EventLoop` with a delay queue, `EventLoop` with retries, `AsyncSocket`, `Pipeline` |
| `MCClient` | `EventLoop` with a close, `LoopTasks`, `ConfigFile` |
| `MCNode` | `SyncCommand`, `Session` with `Admin` |
| `MCRequests` | `BatchCommand`, `KeyCommand`, `QueryObject` |
| `MCClusterTend`, `MCLoopTasks` | instances of one module |

## 2. The runs

Passing runs. State counts are distinct states.

| Run | Instance | What it shows |
|---|---|---|
| `scans` (185,334) | six asynchronous requests over 3 to 5 nodes with splits and refusals; scans of 3 partitions on 2 nodes in pages of 2 records from new and old servers, and one driven by an event loop, with 1 retry and 2 faults; ten synchronous calls on up to 3 nodes and 2 threads | an executor is freed when nothing uses it (`FreedWhenQuiet`), the listener is told once (`AnsweredOnce`) and told the error (`NoErrorLost`); no record twice and no page too long (`NoDuplicates`), none forgotten between pages (`NothingForgotten`); success means everything (`OkMeansAll`); every request ends (`EventuallyOver`) |
| `txn` (550,069) | 2 records, 2 versions, 2 faults; three digests in one row of the tables | all writes have one fate (`AllOrNothing`), a reported commit or abort holds (`CommitHolds`, `AbortHolds`), every provisional write is listed by a monitor (`Covered`), verified reads are a snapshot (`ReadsAreSnapshot`), the asynchronous functions keep the first two (`AsyncHolds`); answers are told as sent (`ToldAsSent`); the tables implement `TxnSets` (`KeepsSets`); all is resolved in the end (`EventuallyResolved`) |
| `engine` (1,012,266) | 3 commands, 1 in process and 1 delayed; 2 commands on 1 connection with 2 retries, both timers, 1 fault; sockets of each library with and without TLS and authentication; pipelines of 3 commands on 1 or 2 connections | no wake-up of the delay queue is lost (`WorkConserving`) and nothing overtakes it (`NoOvertaking`); counters are exact (`CountsExact`); a listener is called once (`ReportedOnce`); in_doubt is honest (`HonestInDoubt`); no timer or callback uses what has ended, and a running command has an event that will come (`EventsReachCommands`); connections are returned in step and a command reads the answer to its own request (`AnswersMatch`) |
| `client` (158,441) | 2 commands while the cluster closes; 2 loops with connectors, balancers and a close; four sets of configuration files in any order | nothing of a destroyed cluster is used (`NothingUsedAfterClose`); policies and metrics are what the file in force says (`RunsAsFile`); balancing keeps the minimum (`BalanceKeepsMinimum`); every command, close and wait ends (`EverythingEnds`) |
| `node` (437,786) | 2 threads, 1 pool of 2 connections with retries or 2 pools of 1 with authentication, 2 faults; lost sessions, servers restarted with and without security, changed passwords, breached error limits, scripts of requests | pools are exact and bounded (`PoolsExact`); in_doubt is honest (`HonestInDoubt`); sessions live while looked at unless a collection overtook the look (`SessionLives`); users and roles are read as asked for (`ReadAsAsked`); threads are served again and again (`EventuallyServed`) |
| `requests` (327,152) | batches of up to 3 records of every kind, on 3 nodes with 3 replicas; every call on a key with every shaping policy, alone and in a transaction; queries and scans from every builder call | every request fills the buffer sized for it (`EveryRequestFits`), means what the records ask for (`RequestsMeanRecords`); batch answers are honest and complete (`BatchAnswers`); a saved query resumes, and one cut short is refused safely (`QueryResumed`) |
| `tend` (62,771) | 2 names on 3 hosts, 2 replicas, one reader, up to 2 events of the cluster | reference counts are exact (`RefsExact`); the client comes to know the cluster (`EventuallyKnows`) |
| `shm` (481,761) | 3 processes, 1 server, 2 events (start, close, crash, change of the cluster); a process may pause for one tick with a clock value in hand or with the lock | two processes tend only after one of two races (`SecondTenderRaced`, section 4); without them one tends in the end, with the nodes as they are (`EventuallyTended`) |

Why the bounds are enough. The executor's counters are compared with `max`,
`queued` and 1 only; three nodes give a first, a middle and a last command, and
the sequential scan has more so that commands remain unstarted. The tracker needs
two nodes that share a page unequally, a partition with two records to resume in,
and two faults so that a failed retry follows a failed first round. Two records
and two faults let a transaction have one resolved and one unresolved write with
the mark and a write in doubt; two versions let another client overtake a read.
In the engine one command in process and one slot in the delay queue bring both
limits within reach of three commands; two retries let a command be sent, fail,
be sent again and fail at its timer. One pool of two connections, or two pools of one,
make two threads and the tend thread compete. Three keys of one master whose
other replicas differ make a batch split. Two cluster events let a server leave
and return. Three processes allow a take-over while another process watches.
For the modules with proofs (section 4) the bounds do not matter to the
properties proved.

Fairness. It is weak everywhere, and only on steps that the client itself or a
timer takes. `EventExecutor`: both threads run, and each command ends, which the
engine's timers guarantee (`EverythingEnds`). `PartitionTracker`, `QueryForeach`:
nodes answer or fail, threads run, the user asks for the next page. `TxnCommit`:
requests end by an answer or a timeout, the server goes on with what a monitor
lists; nothing makes the user commit or abort. `EventLoop`, `LoopTasks`: a loop
thread is not blocked, the clock advances, timers fire; nothing is assumed of
sockets, servers or the user. `SyncCommand`, `Session`: threads go on with what
they have begun, since socket calls return at the latest by their timeout, and
the tend thread of the sessions runs. `ClusterTend`, `ShmCluster`: the tend
threads run, clocks advance, and the cluster's events are bounded. Faults are
never fair, only bounded. Deadlock is checked in `node`; elsewhere a request, a
call or a client ends for good, and the liveness properties say that it does not
stop before.

Refinement. `KeepsSets` is the specification of `TxnSets`, with the sets read
off the rows and chains of the tables: no key is lost, kept twice or given the
version of another by any sequence of answers.

## 3. Disagreements between the code and what it says

Four runs each check one property that TLC refutes; `PROJECT.json` gives the
lines and the comment or documentation that says otherwise.

| Run | What the code does |
|---|---|
| `exec_cancel_race` | the first error is stored in the executor after the lock is released; a cancel in between frees the executor (`as_event.c`:1115) |
| `txn_async_close` | asynchronous commit and abort remove the monitor while a write is in doubt (`aerospike_txn.c`:477, 688) |
| `sync_pool_index` | with three pools or more the search for a pool with room leaves the array (`as_node.c`:685) |
| `close_deadlock` | the loop that destroys the cluster waits for the tend thread, which waits for that loop (`as_event.c`:2233) |

The passing runs leave out the circumstances of the next table and show that the
properties hold otherwise, or exempt them by a history variable. Each row is
reproduced by giving the constant named another value in the configuration of the
run. A property that is none of the run is added: for one written `M!P`, and those
of `BatchCommand`, by a definition in the composite such as
`Q == part = "pipe" => Shared!ListenerKeepsCommand`, checked as an invariant.

| Run | Change | Refuted | What the code does |
|---|---|---|---|
| `scans` | `Requests <- RefusedSplit` | `FreedWhenQuiet` | a cancel counts the commands of a batch split on the event loop as never queued and frees the executor while they run (`as_event.c`:1145) |
| `scans` | `Requests <- RefusedScan` | `FreedWhenQuiet` | a refused submission releases the partition tracker while the commands of earlier nodes use it (`aerospike_scan.c`:1132) |
| `scans` | `Scans <- AsyncPages` | `NothingForgotten` | a page whose partitions cannot be assigned in the first round ends without marking them for the next page (`aerospike_scan.c`:1200) |
| `scans` | `Calls <- StoppedCalls` | `Foreach!StopSucceeds` | when the user stops a query, a task that has not begun may report `QUERY_ABORTED` first, and the call fails (`aerospike_query.c`:1306, 1424) |
| `scans` | `Calls <- ChangedCalls` | `EventuallyOver` | an aggregation that finds the cluster changed waits for its reducing thread, which nobody tells of the end |
| `txn` | `AbortInDoubt = TRUE` | `AbortHolds` | an abort after a mark in doubt promises a roll back that the server will not do (`aerospike_txn.c`:281) |
| `txn` | `ReplySetups <- DanglingReplies` | `Reply!RecordLives` | a record that is given up while it is parsed is destroyed, and the user keeps the pointer (`as_command.c`:1689, 1698) |
| `txn` | `ReplySetups <- NegativeReplies` | `ToldAsSent` | the extended sign of a short negative integer is built in one buffer and read from another (`as_command.c`:1197) |
| `engine` | `Auth = TRUE`, `MaxFaults = 2` | `HonestInDoubt` | a retry that the server refuses in authentication is reported by its own error, without the doubt of the attempt sent before (`as_error.h`:249) |
| `engine` | `SocketSetups <- AuthSockets` | `EventsReachCommands` | after an authentication libev watches for an answer although the request is only partly written (`as_event_ev.c`:405, 678) |
| `engine` | `SocketSetups <- TimerSockets` | `EventsReachCommands` | a timer closes a libuv TLS connection during a slow write, and the shutdown takes the request structure that the write still uses (`as_event_internal.h`:88) |
| `engine` | `SocketSetups <- RewriteSockets` | `EventsReachCommands` | a libuv TLS read that must write first starts the write with the request structure of one that is not over (`as_event_uv.c`:999) |
| `engine` | `PipeSetups <- PartialPipes` | `EventsReachCommands` | a partly read answer makes libev stop watching for the write of another command on the connection (`as_event_ev.c`:170) |
| `engine` | `PipeSetups <- RefusedPipes` | `Shared!ListenerKeepsCommand` | a command of a pipeline may be cancelled by the command its own listener starts, and is used when the listener returns (`as_event_uv.c`:366) |
| `client` | `MaxErrors = 1` | `NothingUsedAfterClose` | a command put off after repeated errors (`as_event.c`:417) is not counted when the cluster is closed |
| `client` | `Cmd = {c1, c2, c3}`, `Cluster = {A, B}`, `ClusterOf <- TwoClusters` | `NothingUsedAfterClose` | delayed commands of a cluster are not counted when it is closed (`as_event.c`:2252) while another cluster fills the loop |
| `client` | `Refusals = TRUE` | `NothingUsedAfterClose` | when the loop takes no task, the thread that closes the cluster destroys it beside the running loop, or the retry of the close destroys it with commands pending (`as_event.c`:2255, 2287) |
| `client` | `TaskSetups <- RefusedTasks` | `NothingUsedAfterClose` | the same with several loops |
| `client` | `TaskSetups <- SyncTasks` | `NothingUsedAfterClose` | `connector_create_commands` reads `concur_max` after the last connector has ended and its array is gone (`as_event.c`:1915) |
| `client` | `ConfigSetups <- BitmapConfigs` | `Config!AllCallsAsFile` | an update copies as many bytes of the bitmap as an `int` has (`as_config_file.c`:2038) |
| `client` | `ConfigSetups <- SleepConfigs` | `RunsAsFile` | the sleep between the retries of writes is stored as `max_retries` of operate, apply and remove (`as_config_file.c`:771) |
| `client` | `ConfigSetups <- RackConfigs` | `Config!HeapSound` | the first racks of a file replace a vector that was never created (`as_config_file.c`:1960) |
| `client` | `ConfigSetups <- IntervalConfigs` | `RunsAsFile` | a version refused for its tend interval has changed the configuration already |
| `client` | `ConfigSetups <- InitConfigs` | `RunsAsFile` | a version refused when the client is created leaves its bits set |
| `client` | `ConfigSetups <- EarlyConfigs` | `RunsAsFile` | metrics that an update switched off during connect are switched on afterwards (`aerospike.c`:282) |
| `node` | `Configs <- AuthConfigs` | `HonestInDoubt` | a retry refused in authentication clears the doubt of the first attempt (`as_error.h`:249, `as_command.c`:724) |
| `node` | `SessionSetups <- TwoSessions` | `EventuallyServed` | of two password changes at once the client may keep the hash of the one the server saw first (`as_cluster.c`:1286) |
| `node` | none | `Sessions!SessionInMemory` | a thread that is late by a whole tend between loading a session and counting itself in uses one that was freed (`as_node.c`:532, `as_cluster.c`:797) |
| `node` | `SessionSetups <- TurnedSessions` | `EventuallyServed` | when security is switched on at a node that granted no session, nobody asks for a login: the client does not log in without a session to renew (`as_node.c`:531, 793) |
| `requests` | `Setups <- InDoubtSetups` | `BatchAnswers` | a synchronous batch that was split on a retry does not set in_doubt on keys of the first attempt (`aerospike_batch.c`:2175) |
| `requests` | `Setups <- ResentSetups` | `AnsweredNotResent` | a retry on the same node sends the whole command again, with keys that have an answer (compare `aerospike_batch.c`:3906) |
| `requests` | `Setups <- ResentSetups` | `BatchCommand`: `call.pc = "returned" => Undoubted = {}` | so a key that was answered with an error, sent again and perhaps written then, is reported with that error and without doubt |
| `requests` | `Setups <- PackedSetups` | `BatchAnswers` | a part of a split write that cannot be compressed ends the split: its records and those of later parts keep no answer and no doubt, though the first attempt may have written them (`aerospike_batch.c`:4470) |
| `requests` | `Setups <- LostNodeSetups` | `BatchAnswers` | a write that finds no node when it is tried again is told so without the doubt of its first attempt (`aerospike_batch.c`:4357) |
| `requests` | none | `BatchCommand`: `BatchFieldFits` | the length of the batch field of a split command is written into the request of its parent, and computed from pointers into two buffers (`aerospike_batch.c`:4162, 610) |
| `requests` | `Setups <- VersionSetups` | `RequestsMeanRecords` | the version of a key is taken at its position in the command, not in the batch (`aerospike_batch.c`:2197, 2300) |
| `requests` | `Setups <- AsyncTxnSetups` | `BatchAnswers` | asynchronous writes in doubt are not entered in the transaction (`aerospike_batch.c`:4493) |
| `requests` | `KeySetups <- HandedOnCalls` | `OnKeys!WritesInSequence` | operate hands its replica policy on unchanged (`as_policy.h`:297 says "Also use SEQUENCE for writes") |
| `requests` | none | `Queries!ResumedBlob` | a saved filter on a blob is refused when it is read, since the range check of the datatype ends with the one before it (`as_query.c`:696) |
| `requests` | none | `Queries!CutSafely` | bytes that end between the flag of the operations and their number leave a list that was never set to `as_operations_destroy` (`as_query.c`:809-825, 959; `as_scan.c`:349-366) |
| `tend` | `Setups <- ThreeEvents` | `EventuallyKnows` | a peer announced at a new host while a node of its name is still known counts as found; the generation is remembered, and the peer is not looked for when the old node goes (`as_peers.c`:437) |
| `tend` | `Prompt = FALSE` | `RefsExact` | a thread that is late by a whole tend between loading a pointer and reserving it uses what was released (`as_cluster.c`:797) |
| `shm` | none | `AtMostOneTender` | `now - ts` wraps when the timestamp was stored after the clock was read (`as_shm_cluster.c`:813) |
| `shm` | `MaxLag = 0`, `MaxEvents = 3` | `AtMostOneTender` | the owner that has closed dies, one process finds it dead, and another takes the free lock before the first one looks again (`as_shm_cluster.c`:790, 805) |
| `shm` | `CrashAt` with `"takeover"`, or with `"locked"` | `EventuallyTended` | a process that dies with the lock and before it stored itself, or with `take_over_lock`, leaves nobody who can take over |
| `shm` | `MasterFails = TRUE`, `Proc = {p1, p2}`, `Running = {p1, p2}`, `MaxEvents = 3` | `EventuallyTended` | a master whose tend thread does not start detaches and keeps the lock, owned by a live process (`as_shm_cluster.c`:1077) |

Noted while reading the code, without a setup of their own:

- The asynchronous batch retry increments `replica_index` twice (`as_event.c`:945,
  `aerospike_batch.c`:4276) and never `replica_index_sc`, which the synchronous
  one does (4062). `as_batch_async_parse_records` returns without reporting a malformed
  version.
- `as_single_execute` ignores the bits of the configuration file.
- `as_txn_monitor_callback` (`aerospike_key.c`:283) writes the deadline in native
  byte order, and passes the null error of the answer to the functions that report a
  failed compression or execution.
- An aggregation shares the thread pool with the nodes it reads from; with one
  thread it waits for ever.
- `aerospike_scan_node_async` goes on after its initialisation failed, and
  releases twice; `aerospike_query.c`:2237 leaks the tracker.
- A paginated query converted to a scan for old servers keeps its partitions in a
  local variable and drops `ttl`. `as_query_apply` and `as_scan_apply_each` return
  true when they refuse.
- `create_connections_nowait` never releases its state for loops with a minimum of 0
  (`as_event.c`:1970-2006).
- `as_query_from_bytes` takes the value of a predicate that the API refused to store
  from memory that was never set, and leaks the context of a predicate that is cut
  before the flag of its expression (`as_query.c`:659).
- `as_event_command_parse_success_failure` reads from the start of the buffer
  instead of the position (`as_event.c`:1598). The TLS error messages of libev and
  libevent name a descriptor after its release.
- `as_command_parse_udf_error` looks for a second colon that is already cut off.
- The password hash is freed while a login may read it (`as_cluster.c`:1284-1313).
  `as_config.h`:643 says `max_error_rate` 0 disables the limit; the halving of `as_node.c`:1043-1047
  has its own idea of small limits.
- A prole in shared memory mode never collects its garbage. A crash during
  creation stops all later processes; more nodes than `shm_max_nodes` write to the
  first local node; process ids may be reused.
- A server that splits off keeps being found through the seed; the result of
  `as_partition_tables_update_all` is ignored.
- The configuration file may change between creation and connect; a file cut short
  is accepted; commands may read a policy in the middle of an update.
- `as_node_create_connections` does not reserve a place before it connects, so a pool
  may have up to its minimum more sockets open than its limit (`as_node.c`:563).
- With two pools, a search that starts at the second one searches it twice.

## 4. What is proved

Every theorem holds for all values of the constants that satisfy the named
assumptions: any number of records, nodes, threads, processes, faults, rounds and
pages. Each inductive invariant was checked with TLC before it was proved.

| Module | Theorem | States | Besides the assumptions on the constants |
|---|---|---|---|
| `TxnProofs` | `TypeCorrect` | `[]TypeOK` | `~Async`, `~AbortInDoubt` |
| | `Atomicity` | `[]AllOrNothing` | the same |
| | `CommitDurability` | `[]CommitHolds` | the same |
| | `AbortSafety` | `[]AbortHolds` | the same |
| | `NothingOrphaned` | `[]Covered` | the same |
| | `SnapshotReads` | `ReadsAreSnapshot` | none |
| `ExecutorProofs` | `FreedQuietly` | `[]FreedWhenQuiet` | `Unraced` |
| | `ToldOnce` | `[]AnsweredOnce` | `Unraced` |
| | `ErrorsTold` | `[]NoErrorLost` | `Unraced` |
| `SyncProofs` | `PoolsStayExact` | `[]PoolsExact` | `FewPools` |
| | `SearchInRange` | `[]InRange` | `FewPools` |
| | `ErrorsHonest` | `[]HonestInDoubt` | `AuthOnce` |
| `ShmProofs` | `OneTender` | `[]SecondTenderRaced` | none |
| `TrackerProofs` | `RecordsOnce` | `[]NoDuplicates` | none |
| | `PagesResume` | `[]NothingForgotten` | `AsyncUnpaged` |
| | `DoneIsAll` | `[]DoneMeansAll` | `AsyncUnpaged` |
| `EventLoopProofs` | `CountersExact` | `[]CountsExact` | none |
| | `NoWakeupLost` | `[]WorkConserving` | none |
| | `DelayedFirst` | `NoOvertaking` | none |
| | `ListenerOnce` | `[]ReportedOnce` | none |
| | `ErrorsHonest` | `[]HonestInDoubt` | `~Auth` |

No hypothesis can be dropped; for each TLC has a counterexample without it:

- `~Async`: the run `txn_async_close`. `~AbortInDoubt`: the row of that name in section 3.
- `Unraced`: a submission is not refused while earlier commands may be split, or
  use the tracker of a concurrent scan (rows `RefusedSplit`, `RefusedScan`).
- `FewPools`: a node has at most two pools (run `sync_pool_index`). `AuthOnce`: a
  command is not retried over connections that must be authenticated (row
  `AuthConfigs`).
- `AsyncUnpaged`: an event loop drives only scans without pages (row `AsyncPages`).
- `~Auth`: the connections of the loop need no authentication (row `Auth`).

### The invariants

**Transactions.** None of the safety properties is inductive: `Atomicity` must know
that client and server never roll in different directions, which depends on who
may have marked the monitor, and that on the transaction's state and on requests
in flight. `Inv` has ten named parts: whatever was written, or may be, is in the
monitor's list (`Listed`); each step of commit and abort runs in one state
(`Steps`); a removed monitor leaves nothing to resolve (`Gone`); a write that may
still arrive has set `write_in_doubt` (`LateInDoubt`); the roll covers every write
in place (`Rolling`); only a committed transaction or one in doubt is marked
(`Marked`); without a deadline nothing was written (`Unwritten`); how writes were
resolved (`Fates`); a written key is not verified (`ReadOrWritten`); what was
returned agrees with the state (`Outcome`). `SnapshotReads` needs only what
`as_txn_verify` knows of the keys verified so far and holds for both kinds of
functions.

**Executor.** The code decides from `count`, `queued` and `max` alone. `LiveInv` says
what they count while the executor lives: `max` is the commands that were counted,
those at work and those nobody has started (`Counts`; `CountsOne` for scans that run
one by one), and which commands nobody has started follows from `queued` or from the
position of the calling thread (`Unstarted`). `Validation` keeps later commands back
until the cluster is validated; `Errors` says that an error handed in is saved, or
about to be in the window of `SaveError`, or that nobody will be told. `FreedInv` is
what is left of it afterwards.

**Synchronous commands.** `TotalExact` (the count of a pool is its idle sockets plus
the slots that threads and the tend thread hold) is inductive with `Place`, `Sending`
and `Balancing`: where a thread looks for a connection, how often its command was
sent and how many copies may have been applied, and what the tend thread has still to
open. `Bounded` adds the sockets that may still be opened. A lemma shows that a step
of any thread that accounts for its own slot preserves the sum over all threads; each
action is then shown to be such a step. `ErrorsHonest` needs `Honest`, that a command
which ended with a plain error has no copy left.

**Shared memory.** The election is not safe as it stands, and the theorem says exactly
how it fails: two processes tend only after `lapse`. Either a process took over with a
clock value older than the timestamp, whose difference had wrapped (`TakeOver`), or one
found the dead owner of before while another took the free lock and had not stored the
time (`Overtaken` and `Unmarked`, by which of the two comes first). Without these races
`OneTends` covers the processes that tend or are about to. It needs the lock
(`Locked`), the stored owner (`Stored`), and that a process which found the owner dead
finds nobody tending, or a fresh timestamp when it looks again under `take_over_lock`
(`Dead`). Nothing is assumed of pauses shorter than the threshold, of where processes
crash, or of how many start, close and fail.

**Partition tracker.** `Counts` is enough for `RecordsOnce`: a record was accepted
exactly when it is not beyond the digest of its partition (`Accepted`); the nodes of
a round divide the partitions (`Divided`); what is dropped above the limit, missed or
unavailable is tried again (`Dropped`, `Missed`); and what a page has handed out and
may still hand out is `max_records` (`Limits`, `Quotas`). `Progress` adds why nothing
is forgotten: a node has ended its response or its partitions are tried again
(`Ended`), a partition that is not asked again has no more records (`Rest`), and the
flags between pages (`Flags`). The hard steps are the end of a round, where `retry` is
set from the counts of the nodes, and the assignment, where the shares of
`max_records` must not add up to more than it; sums are cardinalities of sets of pairs.

**Event loop.** The loop is one thread, but a listener called in the middle of an
operation may issue or end commands, so the invariant is about the stack of what the
thread returns to (`Shape`): a listener and a command it issues are at the top, an
admission comes right after a drain, and no two frames decide about one command.
`Commands` ties each command to where it is, to its timer and socket, and to what was
sent (`Placed`, `Attached`, `Sent`), with weaker demands on a command whose release is
on the stack. `Telling` is what a listener is about to be told. `Delays` carries
`NoWakeupLost`: if the loop has room and the delay queue is not empty, a drain is on
the stack, and it is not in the middle of an admission; that is what makes it right
that `using_delay_queue` suppresses a nested drain. `Counts` and `Pools` are the
counters as cardinalities. The proof is in three modules: `EventLoopInv` has the
invariant and the events of a running command (attempts, timers, retries, answers),
`EventLoopQueue` the queues, the listeners and the release of a command,
`EventLoopProofs` the close of a cluster and the theorems. Whatever
happens to a running command is an `Attempt`: it changes that command, the pool of its
cluster, and perhaps pushes the report of its end; `AttemptInv` shows once that such a
step keeps the invariant, and each action is then shown to be one.

A proof has one lemma per action that states what the action does to the fields the
invariant mentions, and under it one step per part that the action can disturb. The
final theorems combine them by temporal logic.

## 5. What is only model-checked

- Liveness (`EventuallyOver`, `EventuallyResolved`, `EverythingEnds`,
  `EventuallyServed`, `EventuallyKnows`, `EventuallyTended`): the prover does not
  handle fairness.
- Everything about operators defined by recursion or by folds over sequences: the
  wire formats, parsers, configuration files, tables and query objects
  (`requests`, `ToldAsSent`, `KeepsSets`, `RunsAsFile`, `ReadAsAsked`). What they
  compute for every input needs induction over data, which the prover lacks.
- The callbacks of sockets, pipelines and the tasks of loops (`EventsReachCommands`,
  `AnswersMatch`, `NothingUsedAfterClose`, `BalanceKeepsMinimum`): a callback there is a
  recursive operator that unfolds the calls it makes, and the prover cannot reason
  about those. The reference counts of the tend (`RefsExact`) are sums over the
  references that objects hold, computed by a fold, and need induction as well.
- The sessions (`SessionLives`), the synchronous foreach functions (their part of
  `OkMeansAll`) and `AsyncHolds`. These are within the prover's reach in principle and
  are not done.

## 6. What is not modelled

Background jobs and index tasks, TLS itself, sockets and name lookup, records, keys
and operations in memory, expressions and collection operations, metrics: each
has its reason in `PROJECT.json`. Of the modelled parts: in the tracker, the cursor
value of secondary-index queries, partition filters and the time budget of a round;
in the transactions, the locks of the tables; in the engine, reads and their choice
of a replica (which is in `PartitionMap`), and more than one node per cluster; in the
shared memory, the partition tables and the capacity of the node table; in the
tend, alternate hosts, cluster names and server features beyond whether a node is
accepted. Exhausted memory is left out except where the code tests for it.
