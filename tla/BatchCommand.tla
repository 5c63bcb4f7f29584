---------------------------- MODULE BatchCommand ----------------------------
(***************************************************************************)
(* A batch call (aerospike_batch.c): the keys are grouped by node, one     *)
(* command is sent for each group, and a command that fails is retried on  *)
(* the nodes its unanswered keys have then, which may split it.            *)
(*                                                                         *)
(* A synchronous call runs its commands one after the other, or one thread *)
(* for each first group; a split command is replaced by its parts in the   *)
(* same thread.  So a thread is a stack of commands.  An asynchronous call *)
(* has one event loop command per group and an executor that counts them;  *)
(* a split adds commands.                                                  *)
(***************************************************************************)
EXTENDS BatchApi, PartitionMap, FiniteSets

CONSTANTS Setups,    \* the calls: see MCBatchCommand
          Nodes,
          Owners,    \* the replicas of each key: [digest -> [Slot -> Nodes]]
          Rack       \* the rack of each node; the client prefers rack 1

VARIABLES setup,     \* the call, with the mode of the namespace and a node that may leave
          live,      \* the active nodes
          recs,      \* as_batch_base_record or as_batch_result of each key
          threads,   \* the stacks of commands; an event loop command is a stack of one
          exec,      \* as_event_executor of an asynchronous call
          applied,   \* the keys whose operation the server has executed
          txnWrites, \* as_txn.writes
          call       \* what the caller has seen; again: the writes sent once more after an error was answered

vars == <<setup, live, recs, threads, exec, applied, txnWrites, call>>

Offsets == DOMAIN setup.records
HasWrite == \E o \in Offsets : setup.records[o].has_write
InTxn == setup.bb.txn.on

-----------------------------------------------------------------------------
(* Grouping the keys                                                        *)

\* as_batch_replica_init; the first index is 0 for the policies modelled.
as_batch_replica_init(policy, has_write) ==
    LET first == [replica |-> policy.replica, replica_sc |-> policy.replica, index |-> 0, index_sc |-> 0]
    IN  CASE has_write -> [first EXCEPT !.replica = as_command_write_replica(policy.replica),
                                        !.replica_sc = as_command_write_replica(policy.replica)]
          [] ~has_write /\ policy.read_mode_sc = "SESSION" -> [first EXCEPT !.replica_sc = "MASTER"]
          [] ~has_write /\ policy.read_mode_sc = "LINEARIZE" /\ policy.replica = "PREFER_RACK" ->
                [first EXCEPT !.replica_sc = "SEQUENCE"]
          [] OTHER -> first

as_partition_get_node(o, replica, index, prev) ==
    LET p == [EmptyPartition EXCEPT !.nodes = Owners[setup.records[o].key.digest]]
    IN  CASE replica = "MASTER" -> get_replica_master(p, live, index).node
          [] replica = "PREFER_RACK" -> get_replica_rack(p, live, Rack, <<1>>, prev, index).node
          [] OTHER -> get_replica_sequence(p, live, index).node

\* The node of a key, or 0: AEROSPIKE_ERR_INVALID_NODE.
as_batch_get_node(o, rep, prev) ==
    IF setup.records[o].has_write \/ ~setup.sc
    THEN as_partition_get_node(o, rep.replica, rep.index, prev)
    ELSE as_partition_get_node(o, rep.replica_sc, rep.index_sc, prev)

\* The groups, in the order their nodes are met; a key without a node is in none.
Join(groups, o, n) ==
    LET at == SelectInSeq(groups, LAMBDA g : g.node = n)
    IN  IF n = 0 THEN groups
        ELSE IF at = 0 THEN Append(groups, [node |-> n, offsets |-> <<o>>])
        ELSE [groups EXCEPT ![at].offsets = Append(@, o)]
Groups(offsets, rep, prev) == FoldLeft(LAMBDA groups, o : Join(groups, o, as_batch_get_node(o, rep, prev)), <<>>, offsets)

Nodeless(offsets, rep, prev) == {o \in Range(offsets) : as_batch_get_node(o, rep, prev) = 0}

\* Keys without a node get their result here, and the call an error row.
WithoutNode(offsets, rep, prev) ==
    [o \in Offsets |-> IF o \in Nodeless(offsets, rep, prev) THEN [recs[o] EXCEPT !.result = "invalid_node"]
                       ELSE recs[o]]

Command(group, rep) ==
    [pc |-> "new", node |-> group.node, offsets |-> group.offsets, rep |-> rep,
     iteration |-> 0, sent |-> 0, code |-> "ok", msg |-> <<>>]

KeysOf(records) == [o \in DOMAIN records |-> records[o].key]

-----------------------------------------------------------------------------
(* The call                                                                 *)

NoExecutor == [max |-> 0, count |-> 0, err |-> FALSE]

Init ==
    /\ setup \in Setups
    /\ live = Nodes
    /\ recs = [o \in Offsets |-> [result |-> "none", in_doubt |-> FALSE]]
    /\ threads = <<>>
    /\ exec = NoExecutor
    /\ applied = {}
    /\ txnWrites = {}
    /\ call = [pc |-> "calling", status |-> "ok", error_row |-> FALSE, again |-> {}]

Stacks(groups, rep) ==
    IF setup.async \/ (setup.policy.concurrent /\ Len(groups) > 1)
    THEN [i \in DOMAIN groups |-> <<Command(groups[i], rep)>>]
    ELSE <<[i \in DOMAIN groups |-> Command(groups[i], rep)]>>

\* The keys are grouped, and the groups' commands made.
Execute ==
    LET rep == as_batch_replica_init(setup.policy, HasWrite)
        offsets == [i \in 1..Cardinality(Offsets) |-> i]
        groups == Groups(offsets, rep, 0)
    IN  /\ call.pc = "calling"
        /\ recs' = WithoutNode(offsets, rep, 0)
        /\ IF groups = <<>>
           THEN /\ call' = [call EXCEPT !.pc = "returned", !.status = "batch_failed"]
                /\ UNCHANGED <<threads, exec>>
           ELSE /\ call' = [call EXCEPT !.pc = "running", !.error_row = Nodeless(offsets, rep, 0) # {}]
                /\ threads' = Stacks(groups, rep)
                /\ exec' = IF setup.async THEN [NoExecutor EXCEPT !.max = Len(groups)] ELSE exec
        /\ UNCHANGED <<setup, live, applied, txnWrites>>

as_batch_records_execute == ~setup.keys /\ Execute
as_batch_keys_execute == setup.keys /\ Execute

Top(t) == threads[t][1]

Running(t, pc) == call.pc \in {"running", "refused"} /\ threads[t] # <<>> /\ Top(t).pc = pc

\* The end of a command: a synchronous thread goes on to its next command, unless
\* an error ends it; the executor counts.  "err" says the command failed as a whole.
Ended(t, err) ==
    /\ threads' = [threads EXCEPT ![t] =
                      IF setup.async \/ (err /\ ~setup.policy.respond_all_keys) THEN <<>> ELSE Tail(@)]
    /\ exec' = IF setup.async THEN [exec EXCEPT !.count = @ + 1, !.err = @ \/ err] ELSE exec

\* The first error of a synchronous call is its status.
FirstErrorLost(err) == call.status  \* mutant
FirstError(err) == IF err /\ ~setup.async /\ call.status = "ok" THEN "error" ELSE call.status

\* A thread of the pool that cannot be queued
ThreadFails(t) ==
    /\ Running(t, "new") /\ ~setup.async /\ Len(threads) > 1
    /\ Top(t).iteration = 0
    /\ threads' = [threads EXCEPT ![t] = <<>>]
    /\ call' = [call EXCEPT !.status = FirstError(TRUE)]
    /\ UNCHANGED <<setup, live, recs, exec, applied, txnWrites>>

-----------------------------------------------------------------------------
(* Building and running a command                                           *)

\* The attributes the calls that take keys (aerospike_batch_get and the others)
\* compute once for all of them.
KeysAttr ==
    LET rec == setup.records[1]
        p   == rec.policy
        head == as_batch_attr_read_header(setup.policy)
    IN  CASE rec.type = "write" -> as_batch_attr_write(rec.ops, p, p.key, p.durable_delete)
          [] rec.type = "apply" -> as_batch_attr_apply(p, p.key, p.durable_delete)
          [] rec.type = "remove" -> as_batch_attr_remove(p, p.key, p.durable_delete)
          [] rec.type = "read" /\ rec.names.id # 0 -> head
          [] rec.type = "read" /\ rec.names.id = 0 /\ rec.ops.id # 0 -> as_batch_attr_read_adjust_ops(head, rec.ops)
          [] OTHER -> as_batch_attr_read_adjust(head, rec.all)

KeysBuilder == [setup.bb EXCEPT !.filter = IF KeysAttr.filter # 0 THEN KeysAttr.filter ELSE @]

as_batch_execute_keys(offsets) ==
    as_batch_keys_write(setup.policy, KeysBuilder, KeysAttr, setup.records[1], KeysOf(setup.records), offsets)
as_batch_execute_records(offsets) == as_batch_records_write(setup.policy, setup.bb, setup.records, offsets)
Message(offsets) == IF setup.keys THEN as_batch_execute_keys(offsets) ELSE as_batch_execute_records(offsets)

Capacity(offsets) ==
    IF setup.keys THEN as_batch_keys_size(KeysBuilder, KeysAttr, setup.records[1], KeysOf(setup.records), offsets)
    ELSE as_batch_records_size(setup.bb, setup.records, offsets)

Refused(offsets) == IF setup.keys THEN KeysRefused(setup.bb, setup.records[1])
                    ELSE RecordsRefused(setup.bb, setup.records, offsets)

SetTop(t, cmd) == threads' = [threads EXCEPT ![t][1] = cmd]

\* as_command_compress may fail.
Compressed(msg) == setup.policy.compress /\ MessageSize(msg) > AS_COMPRESS_THRESHOLD
Made(offsets) == IF Refused(offsets) THEN {FALSE} ELSE {TRUE, ~Compressed(Message(offsets))}

\* A group of one key runs as a single record command.  The caller of an
\* asynchronous batch starts its commands in order.
Start(t) ==
    LET offsets == Top(t).offsets IN
    /\ Running(t, "new")
    /\ setup.async => \A u \in 1..(t - 1) : threads[u] # <<>> => Top(u).pc # "new"
    /\ IF Len(offsets) = 1
       THEN SetTop(t, [Top(t) EXCEPT !.pc = "single"]) /\ UNCHANGED <<exec, call>>
       ELSE \E made \in Made(offsets) :
            IF made
            THEN SetTop(t, [Top(t) EXCEPT !.pc = "ready", !.msg = Message(offsets)]) /\ UNCHANGED <<exec, call>>
            ELSE IF setup.async   \* as_event_executor_cancel
            THEN /\ threads' = [u \in DOMAIN threads |-> IF u < t THEN threads[u] ELSE <<>>]
                 /\ exec' = [exec EXCEPT !.count = @ + (exec.max - (t - 1)), !.err = TRUE]
                 /\ call' = [call EXCEPT !.pc = "refused", !.status = "error"]
            ELSE /\ Ended(t, TRUE)
                 /\ call' = [call EXCEPT !.status = FirstError(TRUE)]
    /\ UNCHANGED <<setup, live, recs, applied, txnWrites>>

Record(o) == setup.records[o]

\* What the end of a record's own command leaves in the record: only the server's
\* errors become its result, as for the rows of a batch.  A command of a commit
\* always leaves its error there.
as_single_execute_record(r, code, doubt) ==
    CASE code \in {"ok", "notfound"} -> [r EXCEPT !.result = code]
      [] code = "server" -> [result |-> "error", in_doubt |-> doubt]
      [] OTHER -> [r EXCEPT !.in_doubt = doubt]

as_single_execute_key(r, code, doubt) == as_single_execute_record(r, code, doubt)
as_single_handle_error(r, code, doubt) == as_single_execute_record(r, code, doubt)
as_txn_verify_listener(r, code, doubt) ==
    IF code \in {"ok", "notfound"} THEN [r EXCEPT !.result = code] ELSE [result |-> "error", in_doubt |-> doubt]
as_txn_roll_listener(r, code, doubt) == as_txn_verify_listener(r, code, doubt)

SingleResult(o, code, doubt) ==
    CASE ~setup.async -> IF setup.keys THEN as_single_execute_key(recs[o], code, doubt)
                         ELSE as_single_execute_record(recs[o], code, doubt)
      [] setup.async /\ Record(o).type = "verify" -> as_txn_verify_listener(recs[o], code, doubt)
      [] setup.async /\ Record(o).type = "roll" -> as_txn_roll_listener(recs[o], code, doubt)
      [] OTHER -> as_single_handle_error(recs[o], code, doubt)

\* A single record command with its own attempts: it tells honestly whether its
\* write may have been executed.
SingleRuns(t) ==
    LET o == Top(t).offsets[1]
        ends == setup.async /\ Record(o).type \in {"verify", "roll"} IN
    /\ Running(t, "single")
    /\ \E code \in {"ok", "notfound", "server", "client"}, doubt, done \in BOOLEAN :
         /\ code = "ok" => done
         /\ code \in {"ok", "notfound"} => ~doubt
         /\ (code # "ok" /\ done) => doubt
         /\ doubt => Record(o).has_write
         /\ applied' = IF done /\ Record(o).has_write THEN applied \cup {o} ELSE applied
         /\ txnWrites' = IF InTxn /\ Record(o).has_write /\ (code = "ok" \/ doubt)
                         THEN txnWrites \cup {o} ELSE txnWrites
         /\ recs' = [recs EXCEPT ![o] = SingleResult(o, code, doubt)]
         /\ Ended(t, code = "client" /\ ~ends)
         /\ call' = [call EXCEPT !.status = FirstError(code = "client"),
                                 !.error_row = @ \/ code \in {"server", "client"}]
    /\ UNCHANGED <<setup, live>>

\* as_single_execute_record_async: the command could not be made.
SingleNotStarted(t) ==
    /\ Running(t, "single") /\ setup.async
    /\ recs' = [recs EXCEPT ![Top(t).offsets[1]] = [result |-> "error", in_doubt |-> FALSE]]
    /\ call' = [call EXCEPT !.error_row = TRUE]
    /\ Ended(t, FALSE)
    /\ UNCHANGED <<setup, live, applied, txnWrites>>

\* The command leaves the loop: the connection could not be had or the request
\* was not written.
NotSent(t) ==
    /\ Running(t, "ready")
    /\ \E code \in {"conn", "timeout"} : SetTop(t, [Top(t) EXCEPT !.pc = "failed", !.code = code])
    /\ UNCHANGED <<setup, live, recs, exec, applied, txnWrites, call>>

\* as_batch_parse_records on the rows that were answered; the rows "bad" with an
\* error or without a record, for an operation the server did not execute.
as_batch_parse_records(answered, bad, result, sent) ==
    [o \in Offsets |->
        CASE o \notin answered -> recs[o]
          [] o \in answered \ bad -> [recs[o] EXCEPT !.result = "ok"]
          [] o \in answered \cap bad /\ result = "notfound" -> [recs[o] EXCEPT !.result = "notfound"]
          [] OTHER -> [result |-> "error", in_doubt |-> Record(o).has_write /\ sent > 1]]

as_batch_async_parse_records(answered, bad, result, sent) == as_batch_parse_records(answered, bad, result, sent)

\* as_txn_on_write, and as_batch_in_doubt of the answers that are errors.
ParsedWrites(answered, bad, result, sent) ==
    IF InTxn THEN {o \in answered : Record(o).has_write /\ (o \in bad => result = "error" /\ sent > 1)} ELSE {}

\* The request is written; the server executes some of its operations and answers
\* some of them before the connection fails, or all.
Sent(t) ==
    LET mine == Range(Top(t).offsets)
        sent == Top(t).sent + 1 IN
    /\ Running(t, "ready")
    /\ \E executed \in SUBSET mine : \E answered \in SUBSET mine : \E bad \in {{}} \cup {{o} : o \in answered} :
         /\ answered \ bad \subseteq executed /\ bad \cap executed = {}
         /\ applied' = applied \cup {o \in executed : Record(o).has_write}
         /\ \E result \in {"error", "notfound"} :
              /\ recs' = IF setup.async THEN as_batch_async_parse_records(answered, bad, result, sent)
                         ELSE as_batch_parse_records(answered, bad, result, sent)
              /\ txnWrites' = txnWrites \cup ParsedWrites(answered, bad, result, sent)
              /\ call' = [call EXCEPT !.error_row = @ \/ (bad # {} /\ result = "error"),
                                      !.again = @ \cup {o \in mine : Record(o).has_write /\ recs[o].result = "error"}]
         /\ \/ answered = mine /\ Ended(t, FALSE)
            \/ /\ \E code \in {"conn", "timeout"} :
                    SetTop(t, [Top(t) EXCEPT !.pc = "failed", !.sent = sent, !.code = code])
               /\ UNCHANGED exec
    /\ UNCHANGED <<setup, live>>

\* The server refuses the whole request; "overload" is tried again by a
\* synchronous command only.
ServerRefuses(t) ==
    /\ Running(t, "ready")
    /\ \E code \in {"server", "overload"} :
         SetTop(t, [Top(t) EXCEPT !.pc = "failed", !.sent = @ + 1,
                                  !.code = IF setup.async THEN "server" ELSE code])
    /\ UNCHANGED <<setup, live, recs, exec, applied, txnWrites, call>>
-----------------------------------------------------------------------------
(* After a failure                                                          *)

Retries(t) == Top(t).code # "server" /\ Top(t).iteration < setup.policy.max_retries

\* as_error_set_in_doubt
InDoubtTwice(sent, code) == HasWrite /\ sent > 1  \* mutant
InDoubt(sent, code) == HasWrite /\ (sent > 1 \/ (sent = 1 /\ code \in {"conn", "timeout"}))

\* The keys of the command that have no answer; as_async_batch_error does the same.
as_batch_set_doubt_records(t) == {o \in Range(Top(t).offsets) : recs[o].result = "none" /\ Record(o).has_write}
as_batch_set_doubt_keys(t) == as_batch_set_doubt_records(t)
Doubted(t) ==
    IF ~InDoubt(Top(t).sent, Top(t).code) THEN {}
    ELSE IF setup.keys THEN as_batch_set_doubt_keys(t) ELSE as_batch_set_doubt_records(t)

\* The retries are used up, or the deadline has passed.
GiveUp(t) ==
    /\ Running(t, "failed")
    /\ recs' = [o \in Offsets |-> IF o \in Doubted(t) THEN [recs[o] EXCEPT !.in_doubt = TRUE] ELSE recs[o]]
    /\ txnWrites' = IF InTxn /\ ~setup.async THEN txnWrites \cup Doubted(t) ELSE txnWrites
    /\ Ended(t, TRUE)
    /\ call' = [call EXCEPT !.status = FirstError(TRUE), !.error_row = @ \/ setup.async]
    /\ UNCHANGED <<setup, live, applied>>

NormalRetry(t, rep) ==
    SetTop(t, [Top(t) EXCEPT !.pc = "ready", !.iteration = @ + 1, !.rep = rep])

Unanswered(t) == SelectSeq(Top(t).offsets, LAMBDA o : recs[o].result = "none")

SameNode(t, groups) == Len(groups) = 1 /\ groups[1].node = Top(t).node

\* The keys with an answer stay out of the new groups.
Regroup(t, rep) == Groups(Unanswered(t), rep, Top(t).node)

\* Whether the command is sent again as it is: a batch of keys whose keys all
\* have answers or no node ends instead.
as_batch_retry_records(t, groups) == SameNode(t, groups) \/ groups = <<>>
as_batch_retry_keys(t, groups) == SameNode(t, groups)

\* as_command_execute from Retry on, and as_batch_retry.
SyncIndex(t) ==
    LET rep == Top(t).rep
        turn == rep.replica # "MASTER" /\ (~HasWrite \/ Top(t).code # "timeout")
    IN  [rep EXCEPT !.index = IF turn THEN @ + 1 ELSE @,
                    !.index_sc = IF rep.replica # "MASTER"
                                    /\ (Top(t).code # "timeout" \/ setup.policy.read_mode_sc # "LINEARIZE")
                                 THEN @ + 1 ELSE @]

as_batch_retry(t) ==
    LET rep == SyncIndex(t)
        groups == Regroup(t, rep)
        child(g) == [Command(g, rep) EXCEPT !.iteration = Top(t).iteration + 1, !.sent = Top(t).sent]
    IN  /\ Running(t, "failed") /\ Retries(t) /\ ~setup.async
        /\ IF rep.replica = "MASTER"
           THEN NormalRetry(t, rep) /\ UNCHANGED <<recs, call>>
           ELSE /\ recs' = WithoutNode(Unanswered(t), rep, Top(t).node)
                /\ call' = [call EXCEPT !.error_row = @ \/ Nodeless(Unanswered(t), rep, Top(t).node) # {}]
                /\ IF IF setup.keys THEN as_batch_retry_keys(t, groups) ELSE as_batch_retry_records(t, groups)
                   THEN NormalRetry(t, rep)
                   ELSE threads' = [threads EXCEPT ![t] = [i \in DOMAIN groups |-> child(groups[i])] \o Tail(@)]
        /\ UNCHANGED <<setup, live, exec, applied, txnWrites>>

\* Whether as_batch_retry_async leaves the command to the normal retry at once.
StaysWhole(t) == Top(t).rep.replica = "MASTER" \/ live = {}

\* as_event_command_retry and as_batch_retry_async both advance the index.
AsyncIndex(t) ==
    LET rep == Top(t).rep
        timeout == Top(t).code = "timeout"
        once  == IF ~timeout \/ ~HasWrite THEN 1 ELSE 0
        twice == IF ~timeout \/ (~HasWrite /\ setup.policy.read_mode_sc # "LINEARIZE") THEN 1 ELSE 0
    IN  [rep EXCEPT !.index = @ + once + (IF StaysWhole(t) THEN 0 ELSE twice)]

\* The rows for the new nodes are cut out of the request that was sent.
ExecutorKeepsMax(n) == exec  \* mutant
ExecutorGrows(n) == [exec EXCEPT !.max = @ + (n - 1)]

as_batch_retry_async(t) ==
    LET rep == AsyncIndex(t)
        groups == Regroup(t, rep)
        n == Len(groups)
        child(i) == [Command(groups[i], rep) EXCEPT !.pc = "ready", !.iteration = Top(t).iteration + 1, !.sent = Top(t).sent,
                        !.msg = as_batch_retry_write(Top(t).msg, i, Range(groups[i].offsets))]
        failing == {i \in 1..n : Compressed(Top(t).msg) /\ Compressed(child(i).msg)}
    IN  /\ Running(t, "failed") /\ Retries(t) /\ setup.async
        /\ IF StaysWhole(t)
           THEN NormalRetry(t, rep) /\ UNCHANGED <<recs, call, exec>>
           ELSE /\ recs' = WithoutNode(Unanswered(t), rep, Top(t).node)
                /\ call' = [call EXCEPT !.error_row = @ \/ Nodeless(Unanswered(t), rep, Top(t).node) # {}]
                /\ \/ /\ SameNode(t, groups) \/ groups = <<>>
                      /\ NormalRetry(t, rep) /\ UNCHANGED exec
                   \/ /\ ~SameNode(t, groups) /\ groups # <<>>
                      /\ \E made \in {n} \cup {i - 1 : i \in failing} :   \* the parts from the first not made on have failed
                            /\ threads' = [threads EXCEPT ![t] = <<>>] \o [i \in 1..made |-> <<child(i)>>]
                            /\ exec' = [ExecutorGrows(n) EXCEPT !.count = @ + (n - made), !.err = @ \/ made < n]
                   \/ /\ ~SameNode(t, groups) /\ groups # <<>>   \* too late: the original error stands
                      /\ SetTop(t, [Top(t) EXCEPT !.iteration = setup.policy.max_retries, !.rep = rep])
                      /\ UNCHANGED exec
        /\ UNCHANGED <<setup, live, applied, txnWrites>>

-----------------------------------------------------------------------------

\* The caller gets its answer when all commands are done.
Return ==
    /\ call.pc = "running"
    /\ IF setup.async THEN exec.count = exec.max ELSE \A t \in DOMAIN threads : threads[t] = <<>>
    /\ call' = [call EXCEPT !.pc = "returned",
                            !.status = IF setup.async /\ exec.err THEN "error"
                                       ELSE IF @ # "ok" THEN @
                                       ELSE IF call.error_row THEN "batch_failed" ELSE "ok"]
    /\ UNCHANGED <<setup, live, recs, threads, exec, applied, txnWrites>>

\* One node leaves the cluster.
NodeLeaves ==
    /\ live = Nodes /\ call.pc \in {"running", "calling"} /\ setup.leaving # 0
    /\ live' = live \ {setup.leaving}
    /\ UNCHANGED <<setup, recs, threads, exec, applied, txnWrites, call>>

Finished == call.pc \in {"returned", "refused"} /\ \A t \in DOMAIN threads : threads[t] = <<>>

Idle == Finished /\ UNCHANGED vars

Progress ==
    \/ as_batch_records_execute \/ as_batch_keys_execute
    \/ \E t \in DOMAIN threads :
         \/ Start(t) \/ ThreadFails(t) \/ SingleRuns(t) \/ SingleNotStarted(t) \/ NotSent(t) \/ Sent(t) \/ ServerRefuses(t)
         \/ GiveUp(t) \/ as_batch_retry(t) \/ as_batch_retry_async(t)
    \/ Return

Next == Progress \/ NodeLeaves \/ Idle

Spec == Init /\ [][Next]_vars /\ WF_vars(Progress)

-----------------------------------------------------------------------------
(* Properties                                                               *)

\* The prefix of the batch field tells where it ends (as_batch_trailer_write).
BatchFieldFits ==
    \A t \in DOMAIN threads : \A c \in Range(threads[t]) : c.msg # <<>> => c.msg.says = BatchFieldSize(c.msg.rows)

\* Every request fits the buffer that was sized for it, its rows can be walked
\* by their prefixes (as_batch_retry_parse_row), and counts what it holds.  So does the
\* prefix of the batch field, in a message that was not cut out of another.
RowsFit ==
    \A t \in DOMAIN threads : \A c \in Range(threads[t]) : c.msg # <<>> =>
        /\ c.iteration = 0 => MessageSize(c.msg) <= Capacity(c.offsets) /\ c.msg.says = BatchFieldSize(c.msg.rows)
        /\ \A i \in DOMAIN c.msg.rows : LET row == c.msg.rows[i].row IN
             /\ as_batch_retry_parse_row(row) = RowSize(row)
             /\ ~row.repeat => RowWellFormed(row)

\* The row a key would have had if it were alone in the request.
Wanted(o) ==
    LET offsets == <<o>>
        bb == [setup.bb EXCEPT !.versions = IF @ = <<>> THEN @ ELSE <<@[o]>>]
    IN  IF setup.keys
        THEN as_batch_keys_write(setup.policy, [KeysBuilder EXCEPT !.versions = bb.versions], KeysAttr,
                                 setup.records[1], KeysOf(setup.records), offsets).rows[1].row
        ELSE as_batch_records_write(setup.policy, setup.bb, setup.records, offsets).rows[1].row

\* A server that expands the repeats finds for each key exactly what its record
\* asks for, and the command holds the keys it should, after any number of
\* splits (as_batch_equals_records, can_repeat in as_batch_retry_async).
RowsMeanRecords ==
    \A t \in DOMAIN threads : \A c \in Range(threads[t]) : c.msg # <<>> =>
        /\ [i \in DOMAIN c.msg.rows |-> c.msg.rows[i].offset] = c.offsets
        /\ \A i \in DOMAIN c.msg.rows : Meaning(c.msg.rows, i) = Wanted(c.msg.rows[i].offset)

\* A key that is alone in its group asks the server for the same as its row would
\* in a batch of several (as_single_execute and the policy copies).
AloneAsInBatch ==
    \A t \in DOMAIN threads : \A c \in Range(threads[t]) : c.pc = "single" =>
        LET o   == c.offsets[1]
            ver == VersionOf(setup.bb, o)
            req == IF setup.async THEN as_single_execute_record_async(setup.policy, setup.bb, Record(o), ver)
                   ELSE as_single_execute(setup.policy, setup.bb, Record(o), ver, FALSE)
        IN  RowAsks(setup.bb, Record(o).type, FullRow(setup.policy, setup.bb, Record(o), ver))
              = SingleAsks(Record(o).type, req)

\* A write that has been executed, and is reported without an answer or with an error, is
\* in doubt; an answer that there is no record is none (as_batch_set_doubt_records,
\* as_async_batch_error, as_batch_in_doubt).  A write that is sent again although an
\* error was answered keeps the answer.
Undoubted == {o \in applied : recs[o].result \notin {"ok", "notfound"} /\ ~recs[o].in_doubt}
HonestInDoubt == call.pc = "returned" => Undoubted \subseteq call.again

\* A call that returns OK has an answer for every key, and no answer is an error.
OkMeansAnswered ==
    (call.pc = "returned" /\ call.status = "ok") => \A o \in Offsets : recs[o].result \in {"ok", "notfound"}

\* The executor counts every command once, however often they split: when the
\* listener runs no command is left (as_batch_retry_async adds to executor->max);
\* that it runs is the absence of a deadlock.
NoneLeft == (call.pc = "returned") => \A t \in DOMAIN threads : threads[t] = <<>>

\* What the server executed for a transaction, and said so or did not answer, is
\* in the write set that commit and abort roll (as_txn_on_write_in_doubt).
TxnCovered ==
    (InTxn /\ call.pc = "returned") =>
        \A o \in applied : (Record(o).type # "roll" /\ recs[o].result \in {"ok", "none"}) => o \in txnWrites

\* A key that has an answer is not sent again (as_batch_retry_records: "Do not
\* retry keys that already have a response").
AnsweredNotResent ==
    \A t \in DOMAIN threads : \A c \in Range(threads[t]) :
        c.pc = "ready" => \A o \in Range(c.offsets) : recs[o].result = "none"
=============================================================================
