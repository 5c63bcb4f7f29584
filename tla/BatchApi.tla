------------------------------ MODULE BatchApi ------------------------------
(***************************************************************************)
(* The batch functions of the API, and how a record of a batch runs alone: *)
(* a group of one key is not sent as a batch but handed to the single      *)
(* record commands with a policy copied from the batch's.                  *)
(* A transaction is [on, deadline, reads]: the version read of each digest.*)
(***************************************************************************)
EXTENDS BatchWire, KeyWire

\* A call: which of the two ways it takes, its policy, and for each key a record.
Batch(async, keys, policy, bb, records) ==
    [async |-> async, keys |-> keys, policy |-> policy, bb |-> bb, records |-> records]

as_batch_keys_prepare_txn(txn, records) ==
    IF txn.on THEN [i \in DOMAIN records |-> txn.reads[records[i].key.digest]] ELSE <<>>
as_batch_records_prepare_txn(txn, records) == as_batch_keys_prepare_txn(txn, records)

Prepared(bb, txn, records, attr) ==
    [bb EXCEPT !.txn = [on |-> txn.on, deadline |-> txn.deadline],
               !.versions = as_batch_records_prepare_txn(txn, records), !.txn_attr = attr]

\* as_txn_monitor_add_keys_records, as_txn_monitor_add_keys_batch: the record of the
\* transaction gives it a deadline.
WithDeadline(txn, deadline) == IF txn.on THEN [txn EXCEPT !.deadline = deadline] ELSE txn

aerospike_batch_read(policy, bb, txn, records) ==
    Batch(FALSE, FALSE, policy, Prepared(bb, txn, records, {}), records)

aerospike_batch_write(policy, bb, txn, records, deadline) ==
    Batch(FALSE, FALSE, policy, Prepared(bb, WithDeadline(txn, deadline), records, {}), records)

InBackground(batch) == [batch EXCEPT !.async = TRUE]

aerospike_batch_read_async(policy, bb, txn, records) == InBackground(aerospike_batch_read(policy, bb, txn, records))

\* With a transaction the records wait for as_batch_txn_callback.
aerospike_batch_write_async(policy, bb, txn, records, deadline) ==
    InBackground(aerospike_batch_write(policy, bb, txn, records, deadline))

NoOps == [id |-> 0, list |-> <<>>]
NoNames == [id |-> 0, list |-> <<>>]
NoUdf == [id |-> 0, module |-> 0, function |-> 0, args |-> 0]

\* The record all keys share.
Shared(type, policy, has_write) ==
    [type |-> type, policy |-> policy, ops |-> NoOps, names |-> NoNames, all |-> FALSE, udf |-> NoUdf,
     has_write |-> has_write]

ForKeys(policy, bb, txn, keys, rec) ==
    LET records == [i \in DOMAIN keys |-> [key |-> keys[i]] @@ rec]
    IN  Batch(FALSE, TRUE, policy, Prepared(bb, txn, records, {}), records)

aerospike_batch_get(policy, bb, txn, keys, none) ==
    ForKeys(policy, bb, txn, keys, [Shared("read", none, FALSE) EXCEPT !.all = TRUE])

aerospike_batch_get_bins(policy, bb, txn, keys, none, bins) ==
    ForKeys(policy, bb, txn, keys, [Shared("read", none, FALSE) EXCEPT !.names = bins])

aerospike_batch_get_ops(policy, bb, txn, keys, none, ops) ==
    ForKeys(policy, bb, txn, keys, [Shared("read", none, FALSE) EXCEPT !.ops = ops])

aerospike_batch_exists(policy, bb, txn, keys, none) == ForKeys(policy, bb, txn, keys, Shared("read", none, FALSE))

aerospike_batch_operate(policy, bb, txn, keys, none, policy_write, ops, deadline) ==
    IF \E i \in DOMAIN ops.list : is_write(ops.list[i])
    THEN ForKeys(policy, bb, WithDeadline(txn, deadline), keys, [Shared("write", policy_write, TRUE) EXCEPT !.ops = ops])
    ELSE aerospike_batch_get_ops(policy, bb, txn, keys, none, ops)

aerospike_batch_apply(policy, bb, txn, keys, policy_apply, udf, deadline) ==
    ForKeys(policy, bb, WithDeadline(txn, deadline), keys, [Shared("apply", policy_apply, TRUE) EXCEPT !.udf = udf])

aerospike_batch_remove(policy, bb, txn, keys, policy_remove, deadline) ==
    ForKeys(policy, bb, WithDeadline(txn, deadline), keys, Shared("remove", policy_remove, TRUE))

\* The batches of a commit or an abort; verify does not pass the transaction.
as_txn_verify(policy, bb, txn, none, keys) ==
    LET read == SelectSeq(keys, LAMBDA k : txn.reads[k.digest] # 0)
        records == [i \in DOMAIN read |-> [key |-> read[i]] @@ Shared("verify", none, FALSE)]
    IN  Batch(FALSE, FALSE, policy,
              [Prepared(bb, txn, records, {}) EXCEPT !.txn = [on |-> FALSE, deadline |-> 0]], records)

as_txn_roll(policy, bb, txn, none, keys, txn_attr) ==
    LET records == [i \in DOMAIN keys |-> [key |-> keys[i]] @@ Shared("roll", none, TRUE)]
    IN  Batch(FALSE, FALSE, policy, Prepared(bb, txn, records, txn_attr), records)

as_txn_verify_async(policy, bb, txn, none, keys) == InBackground(as_txn_verify(policy, bb, txn, none, keys))
as_txn_roll_async(policy, bb, txn, none, keys, txn_attr) ==
    InBackground(as_txn_roll(policy, bb, txn, none, keys, txn_attr))

-----------------------------------------------------------------------------
(* One record alone.  "pb" is the batch's policy, "row" the record's own;   *)
(* the id of a missing one is 0.                                            *)

FilterOf(bb, row) == IF row.id # 0 /\ row.filter # 0 THEN row.filter ELSE bb.filter

\* Defaults of what a copy does not take over.
Copied(pb, bb, row) ==
    [txn |-> bb.txn.on, compress |-> pb.compress, filter |-> FilterOf(bb, row), replica |-> pb.replica,
     key |-> "DIGEST", commit_level |-> "ALL", gen |-> "IGNORE", exists |-> "IGNORE", durable_delete |-> FALSE,
     on_locking_only |-> FALSE, respond_all_ops |-> FALSE,
     read_mode_ap |-> pb.read_mode_ap, read_mode_sc |-> pb.read_mode_sc]

as_read_policy_copy(pb, bb, pbr) ==
    IF pbr.id # 0 THEN [Copied(pb, bb, pbr) EXCEPT !.read_mode_ap = pbr.read_mode_ap, !.read_mode_sc = pbr.read_mode_sc]
    ELSE Copied(pb, bb, pbr)

as_operate_policy_copy_read(pb, bb, pbr) == as_read_policy_copy(pb, bb, pbr)

OperateCopyNoExists(pb, bb, src) ==  \* mutant
    [Copied(pb, bb, src) EXCEPT !.key = src.key, !.commit_level = src.commit_level, !.gen = src.gen,
        !.durable_delete = src.durable_delete, !.on_locking_only = src.on_locking_only, !.respond_all_ops = TRUE]
as_operate_policy_copy_write(pb, bb, src) ==
    [Copied(pb, bb, src) EXCEPT !.key = src.key, !.commit_level = src.commit_level, !.gen = src.gen,
        !.exists = src.exists, !.durable_delete = src.durable_delete, !.on_locking_only = src.on_locking_only,
        !.respond_all_ops = TRUE]

as_apply_policy_copy(pb, bb, src) ==
    [Copied(pb, bb, src) EXCEPT !.key = src.key, !.commit_level = src.commit_level,
        !.durable_delete = src.durable_delete, !.on_locking_only = src.on_locking_only]

as_remove_policy_copy(pb, bb, src) ==
    [Copied(pb, bb, src) EXCEPT !.key = src.key, !.commit_level = src.commit_level, !.gen = src.gen,
        !.durable_delete = src.durable_delete]

Alone(bb, rec, ver, async, api, policy, bins) ==
    [api |-> api, async |-> async, policy |-> policy, key |-> rec.key, bins |-> bins, udf |-> rec.udf,
     version |-> ver, deadline |-> bb.txn.deadline]

\* The call a record becomes that is alone in its group.
SingleCall(pb, bb, rec, ver, async) ==
    LET row == RowPolicy(bb, rec)
        Do(api, policy, bins) == Alone(bb, rec, ver, async, api, policy, bins)
    IN  CASE rec.type = "read" /\ rec.names.list # <<>> ->
                Do("select_bins", as_read_policy_copy(pb, bb, rec.policy),
                   [i \in DOMAIN rec.names.list |-> [name |-> rec.names.list[i]]])
          [] rec.type = "read" /\ rec.names.list = <<>> /\ rec.ops.id # 0 ->
                Do("operate", as_operate_policy_copy_read(pb, bb, rec.policy), rec.ops.list)
          [] rec.type = "read" /\ rec.names.list = <<>> /\ rec.ops.id = 0 ->
                Do(IF rec.all THEN "get" ELSE "exists", as_read_policy_copy(pb, bb, rec.policy), <<>>)
          [] rec.type = "write" -> Do("operate", as_operate_policy_copy_write(pb, bb, row), rec.ops.list)
          [] rec.type = "apply" -> Do("apply", as_apply_policy_copy(pb, bb, row), <<>>)
          [] rec.type = "remove" -> Do("remove", as_remove_policy_copy(pb, bb, row), <<>>)

\* Its request; the keys of a commit have requests of their own.
as_single_execute(pb, bb, rec, ver, async) ==
    CASE rec.type = "verify" -> as_txn_verify_single(rec.key, ver)
      [] rec.type = "roll" -> as_txn_roll_single(rec.key, ver, bb.txn_attr)
      [] OTHER -> RequestOf(SingleCall(pb, bb, rec, ver, async))

as_single_execute_record_async(pb, bb, rec, ver) == as_single_execute(pb, bb, rec, ver, TRUE)

-----------------------------------------------------------------------------
(* What a request asks of the server for its record.                        *)

ReadModes == {"READ_MODE_AP_ALL", "SC_READ_TYPE", "SC_READ_RELAX"}

\* A write's reads are answered by the server that writes: the read modes do not
\* matter.  RESPOND_ALL_OPS is moot for a removal, which has no operations.  A
\* request of its own has the digest as a field and may ask for a compressed answer.
Asks(type, attr, parts) ==
    LET moot == (IF type \in {"read", "verify"} THEN {} ELSE ReadModes) \cup {"COMPRESS_RESPONSE"}
                \cup (IF type = "remove" THEN {"RESPOND_ALL_OPS"} ELSE {})
    IN  [bits |-> (attr.read \cup attr.write \cup attr.info \cup attr.txn) \ moot,
         fields |-> {f \in Range(parts) : f.kind = "field" /\ f.id # "digest" /\ ~(type = "roll" /\ f.id = "deadline")},
         ops |-> SelectSeq(parts, LAMBDA f : f.kind = "op")]

RowAsks(bb, type, row) ==
    LET own == \E f \in Range(row.parts) : f.kind = "field" /\ f.id = "filter"
    IN  Asks(type, row.attr, row.parts \o Opt(~own /\ bb.filter # 0, as_exp_write(bb.filter)))

SingleAsks(type, request) ==
    LET h == request.parts[1]
    IN  Asks(type, [read |-> h.read_attr, write |-> h.write_attr, info |-> h.info_attr, txn |-> h.txn_attr],
             request.parts)
=============================================================================
