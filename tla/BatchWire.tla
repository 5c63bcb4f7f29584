----------------------------- MODULE BatchWire -----------------------------
(***************************************************************************)
(* The request of one batch command (aerospike_batch.c): a header, perhaps *)
(* a filter, and one row for each key the node gets.  A row that asks for  *)
(* the same as the row before it is a repeat: the digest and one byte, and *)
(* the server reads the rest from the last full row.  Pointers the code    *)
(* compares (policies, operation lists, bin name arrays) carry an "id"; a  *)
(* NULL pointer is the id 0.                                               *)
(***************************************************************************)
EXTENDS Wire

WriteOps == {"WRITE", "INCR", "APPEND", "TOUCH", "DELETE", "CDT_MODIFY"}

is_write(op) == op.op \in WriteOps

\* The key policy of a row: the client's default without a policy of its own, or
\* when the dynamic configuration sets that field.
Bit == [write |-> "BATCH_WRITE_SEND_KEY", apply |-> "BATCH_UDF_SEND_KEY", remove |-> "BATCH_DELETE_SEND_KEY"]
DeleteBit == [write |-> "BATCH_WRITE_DURABLE_DELETE", apply |-> "BATCH_UDF_DURABLE_DELETE",
              remove |-> "BATCH_DELETE_DURABLE_DELETE"]

RowPolicy(bb, rec) == IF rec.policy.id = 0 THEN bb.defs[rec.type] ELSE rec.policy
SendKey(bb, rec) == IF Bit[rec.type] \in bb.bitmap THEN bb.defs[rec.type].key ELSE RowPolicy(bb, rec).key
DurableDelete(bb, rec) ==
    IF DeleteBit[rec.type] \in bb.bitmap THEN bb.defs[rec.type].durable_delete
    ELSE RowPolicy(bb, rec).durable_delete

-----------------------------------------------------------------------------
(* Repeats                                                                  *)

SameNsSet(prev, key) == prev.ns = key.ns /\ prev.set = key.set

as_batch_equals_read(prev, rec) ==
    /\ prev.names.id = rec.names.id
    /\ prev.ops.id = rec.ops.id
    /\ prev.policy.id = rec.policy.id
    /\ prev.all = rec.all

as_batch_equals_write(bb, prev, rec) ==
    prev.ops.id = rec.ops.id /\ prev.policy.id = rec.policy.id /\ SendKey(bb, rec) = "DIGEST"

as_batch_equals_apply(bb, prev, rec) ==
    prev.udf.id = rec.udf.id /\ prev.policy.id = rec.policy.id /\ SendKey(bb, rec) = "DIGEST"

as_batch_equals_remove(bb, prev, rec) ==
    prev.policy.id = rec.policy.id /\ SendKey(bb, rec) = "DIGEST"

as_batch_equals_records(bb, prev, rec, ver, ver_prev) ==
    /\ prev.type = rec.type /\ SameNsSet(prev.key, rec.key) /\ ver = ver_prev
    /\ CASE rec.type = "read" -> as_batch_equals_read(prev, rec)
         [] rec.type = "write" -> as_batch_equals_write(bb, prev, rec)
         [] rec.type = "apply" -> as_batch_equals_apply(bb, prev, rec)
         [] rec.type = "remove" -> as_batch_equals_remove(bb, prev, rec)
         [] OTHER -> TRUE

as_batch_equals_keys(attr, prev, key, ver, ver_prev) ==
    ~attr.send_key /\ SameNsSet(prev, key) /\ ver = ver_prev

as_batch_equals_old(prev, rec) ==
    /\ SameNsSet(prev.key, rec.key)
    /\ prev.names.id = rec.names.id /\ prev.all = rec.all /\ prev.ops.id = rec.ops.id

\* The rows that are written in full: the first, and every row that differs from
\* the last full one.
FullRows(Same(_, _), n) ==
    LET Step(acc, i) == IF acc.last # 0 /\ Same(acc.last, i) THEN acc
                        ELSE [last |-> i, full |-> acc.full \cup {i}]
    IN  FoldLeft(Step, [last |-> 0, full |-> {}], [i \in 1..n |-> i]).full

-----------------------------------------------------------------------------
(* Attributes of a row: the info bytes and what else its prefix holds.      *)

Attr(filter, read, write, info, txn, has_write, send_key) ==
    [filter |-> filter, read |-> read, write |-> write, info |-> info, txn |-> txn,
     has_write |-> has_write, send_key |-> send_key]

\* as_batch_attr_read_header and as_batch_attr_read_row are the same translation
\* of a batch policy and of a row's own policy; only the second has a filter.
as_batch_attr_read_header(p) ==
    LET bits == as_command_set_attr_read_header(p)
    IN  Attr(0, {"READ"} \cup bits.read, {}, bits.info, {}, FALSE, FALSE)

as_batch_attr_read_row(p) == [as_batch_attr_read_header(p) EXCEPT !.filter = p.filter]

GetsAll(ops) == \E i \in DOMAIN ops.list : ops.list[i].op = "READ" /\ ops.list[i].name = 0

as_batch_attr_read_adjust_ops(attr, ops) ==
    [attr EXCEPT !.read = @ \cup Flag(GetsAll(ops), "GET_ALL")]

as_batch_attr_read_adjust(attr, read_all_bins) ==
    [attr EXCEPT !.read = @ \cup {IF read_all_bins THEN "GET_ALL" ELSE "GET_NOBINDATA"}]

Commit(p) == Flag(p.commit_level = "MASTER", "COMMIT_MASTER")
Locking(p) == Flag(p.on_locking_only, "TXN_ON_LOCKING_ONLY")

as_batch_attr_write(ops, p, key, durable_delete) ==
    Attr(p.filter,
         Flag(\E i \in DOMAIN ops.list : ~is_write(ops.list[i]), "READ") \cup Flag(GetsAll(ops), "GET_ALL"),
         {"WRITE"} \cup Flag(~GetsAll(ops), "RESPOND_ALL_OPS") \cup GenBits(p.gen)
                   \cup Flag(p.exists = "CREATE", "CREATE_ONLY") \cup Flag(durable_delete, "DURABLE_DELETE"),
         ExistsBits(p.exists) \cup Commit(p), Locking(p), TRUE, key = "SEND")

as_batch_attr_apply(p, key, durable_delete) ==
    Attr(p.filter, {}, {"WRITE"} \cup Flag(durable_delete, "DURABLE_DELETE"), Commit(p), Locking(p),
         TRUE, key = "SEND")

as_batch_attr_remove(p, key, durable_delete) ==
    Attr(p.filter, {}, {"WRITE", "RESPOND_ALL_OPS", "DELETE"} \cup GenBits(p.gen)
                       \cup Flag(durable_delete, "DURABLE_DELETE"),
         Commit(p), {}, TRUE, key = "SEND")

-----------------------------------------------------------------------------
(* Sizes                                                                    *)

NamesSize(names) == SumOf(as_command_string_operation_size, names.list)

\* "Extra write specific fields" are counted only for lists that are then refused.
as_batch_estimate_ops(ops) == SumOf(as_command_bin_size, ops.list)

OpsAllowed(ops) == ops.list # <<>> /\ \A i \in DOMAIN ops.list : ~is_write(ops.list[i])

as_batch_read_record_size_old(key, rec) ==
    6 + as_command_string_field_size(key.ns) + as_command_string_field_size(key.set)
      + (IF rec.names.list # <<>> THEN NamesSize(rec.names)
         ELSE IF rec.ops.id # 0 THEN as_batch_estimate_ops(rec.ops) ELSE 0)

as_batch_txn_size(ver, bb, has_write) ==
    IF ~bb.txn.on THEN 0
    ELSE 8 + AS_FIELD_HEADER_SIZE
         + (IF ver # 0 THEN 7 + AS_FIELD_HEADER_SIZE ELSE 0)
         + (IF has_write /\ bb.txn.deadline # 0 THEN 4 + AS_FIELD_HEADER_SIZE ELSE 0)

as_batch_read_record_size(rec) ==
    4 + (IF rec.names.id # 0 THEN NamesSize(rec.names)
         ELSE IF rec.ops.id # 0 THEN as_batch_estimate_ops(rec.ops) ELSE 0)

as_batch_write_record_size(rec) == 7 + SumOf(as_command_bin_size, rec.ops.list)

as_batch_apply_record_size(rec) ==
    7 + as_command_string_field_size(rec.udf.module) + as_command_string_field_size(rec.udf.function)
      + as_command_field_size(rec.udf.args)

as_batch_remove_record_size == 6

as_batch_txn_verify_size(ver) == 1 + (IF ver # 0 THEN 7 + AS_FIELD_HEADER_SIZE ELSE 0)

as_batch_txn_roll_size == 1

as_batch_size_fields(key, filter, key_policy) ==
    (IF filter # 0 THEN filter + AS_FIELD_HEADER_SIZE ELSE 0)
    + (IF key_policy = "SEND" THEN as_command_user_key_size(key.val) ELSE 0)

TypeSize(rec, ver) ==
    CASE rec.type = "read" -> as_batch_read_record_size(rec)
      [] rec.type = "write" -> as_batch_write_record_size(rec)
      [] rec.type = "apply" -> as_batch_apply_record_size(rec)
      [] rec.type = "remove" -> as_batch_remove_record_size
      [] rec.type = "verify" -> as_batch_txn_verify_size(ver)
      [] OTHER -> as_batch_txn_roll_size

\* What sizing refuses: a write in a read, no write in a write, no operations.
SizeError(rec) ==
    CASE rec.type = "read" -> rec.names.id = 0 /\ rec.ops.id # 0 /\ ~OpsAllowed(rec.ops)
      [] rec.type = "write" -> \A i \in DOMAIN rec.ops.list : ~is_write(rec.ops.list[i])
      [] OTHER -> FALSE

PrefixSize(bb, key, ver, has_write) ==
    8 + as_command_string_field_size(key.ns) + as_command_string_field_size(key.set)
      + as_batch_txn_size(ver, bb, has_write)

as_batch_init_size(bb) ==
    AS_HEADER_SIZE + AS_FIELD_HEADER_SIZE + 4 + 1
    + (IF bb.filter # 0 THEN AS_FIELD_HEADER_SIZE + bb.filter ELSE 0)

RowsSize(full, n, Size(_)) ==
    SumOf(LAMBDA i : AS_DIGEST_VALUE_SIZE + 4 + (IF i \in full THEN Size(i) ELSE 1), [i \in 1..n |-> i])

VersionOf(bb, offset) == IF bb.versions = <<>> THEN 0 ELSE bb.versions[offset]

RecordsFull(bb, records, offsets) ==
    FullRows(LAMBDA i, j : as_batch_equals_records(bb, records[offsets[i]], records[offsets[j]],
                               VersionOf(bb, offsets[j]), VersionOf(bb, offsets[i])), Len(offsets))

as_batch_records_size_new(bb, records, offsets) ==
    LET Size(i) ==
            LET rec == records[offsets[i]]
                ver == VersionOf(bb, offsets[i])
            IN  PrefixSize(bb, rec.key, ver, rec.has_write) + TypeSize(rec, ver)
                + (CASE rec.type = "read" ->
                          IF rec.policy.id # 0 THEN as_batch_size_fields(rec.key, rec.policy.filter, "DIGEST") ELSE 0
                     [] rec.type \in {"write", "apply", "remove"} ->
                          as_batch_size_fields(rec.key, RowPolicy(bb, rec).filter, SendKey(bb, rec))
                     [] OTHER -> 0)
    IN  RowsSize(RecordsFull(bb, records, offsets), Len(offsets), Size)

OldFull(records, offsets) ==
    FullRows(LAMBDA i, j : as_batch_equals_old(records[offsets[i]], records[offsets[j]]), Len(offsets))

as_batch_records_size_old(records, offsets) ==
    RowsSize(OldFull(records, offsets), Len(offsets),
             LAMBDA i : as_batch_read_record_size_old(records[offsets[i]].key, records[offsets[i]]))

as_batch_records_size(bb, records, offsets) ==
    as_batch_init_size(bb)
    + (IF bb.batch_any THEN as_batch_records_size_new(bb, records, offsets)
       ELSE as_batch_records_size_old(records, offsets))

\* Rows that make as_batch_records_size return an error, among those sized in full.
RecordsRefused(bb, records, offsets) ==
    IF bb.batch_any
    THEN \E i \in RecordsFull(bb, records, offsets) : SizeError(records[offsets[i]])
    ELSE \/ \E i \in DOMAIN offsets : records[offsets[i]].type # "read"
         \/ \E i \in OldFull(records, offsets) :
              /\ records[offsets[i]].names.list = <<>>
              /\ records[offsets[i]].ops.id # 0 /\ ~OpsAllowed(records[offsets[i]].ops)

\* A batch of keys: one record description for all of them.  The version of a row
\* is looked up by the row's number in the command.
KeyVersion(bb, i) == IF bb.versions = <<>> THEN 0 ELSE bb.versions[i]

KeysFull(bb, attr, keys, offsets) ==
    FullRows(LAMBDA i, j : as_batch_equals_keys(attr, keys[offsets[i]], keys[offsets[j]],
                                                KeyVersion(bb, j), KeyVersion(bb, i)), Len(offsets))

as_batch_keys_size_new(bb, attr, rec, keys, offsets) ==
    LET Size(i) == LET key == keys[offsets[i]] IN
            PrefixSize(bb, key, KeyVersion(bb, i), attr.has_write)
            + as_batch_size_fields(key, attr.filter, IF attr.send_key THEN "SEND" ELSE "DIGEST")
            + TypeSize(rec, 0)
    IN  RowsSize(KeysFull(bb, attr, keys, offsets), Len(offsets), Size)

OldKeysFull(keys, offsets) ==
    FullRows(LAMBDA i, j : SameNsSet(keys[offsets[i]], keys[offsets[j]]), Len(offsets))

as_batch_keys_size_old(rec, keys, offsets) ==
    RowsSize(OldKeysFull(keys, offsets), Len(offsets),
             LAMBDA i : as_batch_read_record_size_old(keys[offsets[i]], rec))

as_batch_keys_size(bb, attr, rec, keys, offsets) ==
    as_batch_init_size(bb)
    + (IF bb.batch_any THEN as_batch_keys_size_new(bb, attr, rec, keys, offsets)
       ELSE as_batch_keys_size_old(rec, keys, offsets))

KeysRefused(bb, rec) ==
    IF bb.batch_any THEN SizeError(rec)
    ELSE rec.type # "read" \/ (rec.names.list = <<>> /\ rec.ops.id # 0 /\ ~OpsAllowed(rec.ops))

-----------------------------------------------------------------------------
(* Rows.  "prefix" is the bytes between the digest and the two counts;      *)
(* "skip" is the bytes a reader of the type byte skips there.               *)

MsgBytes == [READ |-> 1, INFO |-> 3, INFO4 |-> 1, GEN |-> 2, TTL |-> 4]

Row(type, prefix, attr, n_fields, n_ops, parts) ==
    [repeat |-> FALSE, type |-> type, prefix |-> prefix, attr |-> attr,
     n_fields |-> n_fields, n_ops |-> n_ops, parts |-> parts]

Repeat == [repeat |-> TRUE]

\* as_batch_write_fields: two fields more than it is told.
as_batch_write_fields(key) == << as_command_write_field_string("namespace", key.ns),
                                 as_command_write_field_string("set", key.set) >>

as_batch_write_ops(ops) == [i \in DOMAIN ops.list |-> as_command_write_bin(ops.list[i].op, ops.list[i])]

TxnFields(txn, ver, has_write) ==
    IF ~txn.on THEN <<>>
    ELSE << as_command_write_field_uint64("txn_id") >>
         \o Opt(ver # 0, as_command_write_field_version(ver))
         \o Opt(has_write /\ txn.deadline # 0, as_command_write_field_deadline(txn.deadline))

\* The fields after the namespace and the set; the count of a row is computed
\* from the same conditions before they are written.
as_batch_write_fields_all(key, txn, ver, attr, filter) ==
    as_batch_write_fields(key)
    \o TxnFields(txn, ver, attr.has_write)
    \o Opt(filter # 0, as_exp_write(filter))
    \o Opt(attr.send_key, as_command_write_user_key(key.val))

FieldCount(txn, ver, attr, filter) ==
    LET One(b) == IF b THEN 1 ELSE 0
    IN  2 + One(txn.on) + One(txn.on /\ ver # 0) + One(txn.on /\ attr.has_write /\ txn.deadline # 0)
          + One(filter # 0) + One(attr.send_key)

Bits(attr) == [read |-> attr.read, write |-> attr.write, info |-> attr.info, txn |-> attr.txn]

as_batch_write_read(key, txn, ver, attr, filter, n_ops) ==
    Row({"INFO", "TTL"}, 3 + 4, Bits(attr), FieldCount(txn, ver, attr, filter), n_ops,
        as_batch_write_fields_all(key, txn, ver, attr, filter))

as_batch_write_write(key, txn, ver, attr, filter, n_fields, n_ops) ==
    LET info4 == attr.txn # {}
    IN  Row({"INFO", "GEN", "TTL"} \cup Flag(info4, "INFO4"), 3 + (IF info4 THEN 1 ELSE 0) + 2 + 4,
            Bits(attr), FieldCount(txn, ver, attr, filter) + n_fields, n_ops,
            as_batch_write_fields_all(key, txn, ver, attr, filter))

as_batch_write_txn_verify(key, ver) ==
    Row({"INFO", "INFO4"}, 4,
        [read |-> {"READ", "GET_NOBINDATA"}, write |-> {}, info |-> {"SC_READ_TYPE"}, txn |-> {"TXN_VERIFY_READ"}],
        IF ver # 0 THEN 3 ELSE 2, 0,
        as_batch_write_fields(key) \o Opt(ver # 0, as_command_write_field_version(ver)))

as_batch_write_txn_roll(key, txn, ver, txn_attr) ==
    LET fields == as_batch_write_fields(key) \o TxnFields(txn, ver, TRUE)
    IN  Row({"INFO", "INFO4"}, 4,
            [read |-> {}, write |-> {"WRITE", "DURABLE_DELETE"}, info |-> {}, txn |-> txn_attr],
            Len(fields), 0, fields)

With(row, parts) == [row EXCEPT !.parts = @ \o parts]

as_batch_write_bin_names(key, txn, ver, attr, filter, names) ==
    With(as_batch_write_read(key, txn, ver, attr, filter, Len(names.list)),
         [i \in DOMAIN names.list |-> as_command_write_bin_name(names.list[i])])

as_batch_write_operations(key, txn, ver, attr, filter, ops) ==
    With(IF attr.has_write THEN as_batch_write_write(key, txn, ver, attr, filter, 0, Len(ops.list))
         ELSE as_batch_write_read(key, txn, ver, attr, filter, Len(ops.list)),
         as_batch_write_ops(ops))

as_batch_write_udf(key, txn, ver, attr, filter, udf) ==
    With(as_batch_write_write(key, txn, ver, attr, filter, 3, 0),
         << as_command_write_field_string("package", udf.module),
            as_command_write_field_string("function", udf.function),
            as_command_write_field_buffer("arglist", udf.args) >>)

ReadRow(policy, bb, rec, ver) ==
    LET attr == IF rec.policy.id # 0 THEN as_batch_attr_read_row(rec.policy) ELSE as_batch_attr_read_header(policy)
    IN  IF rec.names.id # 0
        THEN as_batch_write_bin_names(rec.key, bb.txn, ver, attr, attr.filter, rec.names)
        ELSE IF rec.ops.id # 0
        THEN as_batch_write_operations(rec.key, bb.txn, ver, as_batch_attr_read_adjust_ops(attr, rec.ops),
                                       attr.filter, rec.ops)
        ELSE as_batch_write_read(rec.key, bb.txn, ver, as_batch_attr_read_adjust(attr, rec.all), attr.filter, 0)

FullRow(policy, bb, rec, ver) ==
    LET pol == RowPolicy(bb, rec)
        key == SendKey(bb, rec)
        dd  == DurableDelete(bb, rec)
        wa  == as_batch_attr_write(rec.ops, pol, key, dd)
        aa  == as_batch_attr_apply(pol, key, dd)
        ra  == as_batch_attr_remove(pol, key, dd)
    IN  CASE rec.type = "read" -> ReadRow(policy, bb, rec, ver)
          [] rec.type = "write" -> as_batch_write_operations(rec.key, bb.txn, ver, wa, wa.filter, rec.ops)
          [] rec.type = "apply" -> as_batch_write_udf(rec.key, bb.txn, ver, aa, aa.filter, rec.udf)
          [] rec.type = "remove" -> as_batch_write_write(rec.key, bb.txn, ver, ra, ra.filter, 0, 0)
          [] rec.type = "verify" -> as_batch_write_txn_verify(rec.key, ver)
          [] OTHER -> as_batch_write_txn_roll(rec.key, bb.txn, ver, bb.txn_attr)

\* Old servers know one info byte and no fields beside the namespace and the set.
OldRow(read_attr, key, rec, none) ==
    LET Old(bits, n_ops, ops) == Row({"READ"}, 1, [read |-> bits, write |-> {}, info |-> {}, txn |-> {}],
                                     2, n_ops, as_batch_write_fields(key) \o ops)
    IN  IF rec.names.id # 0
        THEN Old(read_attr, Len(rec.names.list),
                 [i \in DOMAIN rec.names.list |-> as_command_write_bin_name(rec.names.list[i])])
        ELSE IF rec.ops.id # 0 THEN Old(read_attr, Len(rec.ops.list), as_batch_write_ops(rec.ops))
        ELSE Old(read_attr \cup none, 0, <<>>)

Placed(offset, key, row) == [offset |-> offset, digest |-> key.digest, row |-> row]

as_batch_header_write_old(policy, bb) ==
    << as_command_write_header_read(policy, IF bb.filter # 0 THEN 2 ELSE 1, 0, {"READ", "BATCH_INDEX"}) >>
    \o Opt(bb.filter # 0, as_exp_write(bb.filter))

as_batch_header_write_new(policy, bb) ==
    << Header(IF bb.filter # 0 THEN 2 ELSE 1, 0, {"BATCH_INDEX"} \cup as_command_set_attr_compress(policy),
              {}, {}, {}) >>
    \o Opt(bb.filter # 0, as_exp_write(bb.filter))

OldReadAttr(policy) == {"READ"} \cup Flag(policy.read_mode_ap = "ALL", "READ_MODE_AP_ALL")

as_batch_records_write_old(policy, bb, records, offsets) ==
    [i \in DOMAIN offsets |->
        LET rec == records[offsets[i]] IN
        Placed(offsets[i], rec.key,
               IF i \in OldFull(records, offsets)
               THEN OldRow(OldReadAttr(policy), rec.key, rec, {IF rec.all THEN "GET_ALL" ELSE "GET_NOBINDATA"})
               ELSE Repeat)]

as_batch_records_write_new(policy, bb, records, offsets) ==
    [i \in DOMAIN offsets |->
        Placed(offsets[i], records[offsets[i]].key,
               IF i \in RecordsFull(bb, records, offsets)
               THEN FullRow(policy, bb, records[offsets[i]], VersionOf(bb, offsets[i]))
               ELSE Repeat)]

RowSize(row) == 4 + AS_DIGEST_VALUE_SIZE + 1
                + (IF row.repeat THEN 0 ELSE row.prefix + 4 + Total(row.parts))

\* The batch field: its header, the number of rows, the flags, and the rows.
BatchFieldSize(rows) == AS_FIELD_HEADER_SIZE + 4 + 1 + SumOf(LAMBDA r : RowSize(r.row), rows)

\* A message: the parts up to the batch field, what the prefix of that field says, and
\* its rows.  The prefix is written last, to where the field began.
as_batch_trailer_write(head, rows) == [head |-> head, says |-> BatchFieldSize(rows), rows |-> rows]

as_batch_records_write(policy, bb, records, offsets) ==
    IF bb.batch_any
    THEN as_batch_trailer_write(as_batch_header_write_new(policy, bb),
                                as_batch_records_write_new(policy, bb, records, offsets))
    ELSE as_batch_trailer_write(as_batch_header_write_old(policy, bb),
                                as_batch_records_write_old(policy, bb, records, offsets))

as_batch_keys_write_old(policy, attr, rec, keys, offsets) ==
    [i \in DOMAIN offsets |->
        Placed(offsets[i], keys[offsets[i]],
               IF i \in OldKeysFull(keys, offsets)
               THEN OldRow(OldReadAttr(policy), keys[offsets[i]], rec, attr.read) ELSE Repeat)]

\* The filter of a batch of keys is in the header.
KeyRow(bb, attr, rec, key, ver) ==
    CASE rec.type = "read" /\ rec.names.id # 0 -> as_batch_write_bin_names(key, bb.txn, ver, attr, 0, rec.names)
      [] rec.type = "read" /\ rec.names.id = 0 /\ rec.ops.id = 0 ->
            as_batch_write_read(key, bb.txn, ver, attr, 0, 0)
      [] rec.type = "apply" -> as_batch_write_udf(key, bb.txn, ver, attr, 0, rec.udf)
      [] rec.type = "remove" -> as_batch_write_write(key, bb.txn, ver, attr, 0, 0, 0)
      [] OTHER -> as_batch_write_operations(key, bb.txn, ver, attr, 0, rec.ops)

as_batch_keys_write_new(bb, attr, rec, keys, offsets) ==
    [i \in DOMAIN offsets |->
        Placed(offsets[i], keys[offsets[i]],
               IF i \in KeysFull(bb, attr, keys, offsets)
               THEN KeyRow(bb, attr, rec, keys[offsets[i]], KeyVersion(bb, i)) ELSE Repeat)]

as_batch_keys_write(policy, bb, attr, rec, keys, offsets) ==
    IF bb.batch_any
    THEN as_batch_trailer_write(as_batch_header_write_new(policy, bb),
                                as_batch_keys_write_new(bb, attr, rec, keys, offsets))
    ELSE as_batch_trailer_write(as_batch_header_write_old(policy, bb),
                                as_batch_keys_write_old(policy, attr, rec, keys, offsets))

-----------------------------------------------------------------------------
(* Reading a message back: the server, and the retry of an asynchronous     *)
(* batch, which has only the buffer it sent.                                *)

as_batch_retry_parse_row(row) ==
    4 + AS_DIGEST_VALUE_SIZE + 1
    + (IF row.repeat THEN 0
       ELSE (IF row.type = {"READ"} THEN 1 ELSE SumOf(LAMBDA t : MsgBytes[t], SetToSeq(row.type))) + 4
            + SumOf(LAMBDA part : part.says, row.parts))

MessageSize(msg) == Total(msg.head) + BatchFieldSize(msg.rows)

\* The full row a row of the message stands for.
LastFull(rows, i) == CHOOSE j \in 1..i : ~rows[j].row.repeat /\ \A k \in (j + 1)..i : rows[k].row.repeat
Meaning(rows, i) == rows[LastFull(rows, i)].row

RowWellFormed(row) ==
    /\ \A i \in DOMAIN row.parts : row.parts[i].says = row.parts[i].len
    /\ row.n_fields = OfKind(row.parts, "field")
    /\ row.n_ops = OfKind(row.parts, "op")

\* as_batch_retry_async over the parent's rows: the rows for the node whose
\* offsets are "mine", in order.  A repeat keeps its place behind the full row of
\* the same node, else it gets a copy of that row.
CopyFirstOnly(rows, mine) ==  \* mutant
    LET ours == SelectSeq([i \in DOMAIN rows |-> i], LAMBDA i : rows[i].offset \in mine)
    IN  [k \in DOMAIN ours |-> IF k = 1 THEN [rows[ours[k]] EXCEPT !.row = Meaning(rows, ours[k])] ELSE rows[ours[k]]]
RetryRows(rows, mine) ==
    LET ours == SelectSeq([i \in DOMAIN rows |-> i], LAMBDA i : rows[i].offset \in mine)
        CanRepeat(k) == \E l \in 1..(k - 1) : ours[l] >= LastFull(rows, ours[k])
    IN  [k \in DOMAIN ours |->
            IF CanRepeat(k) THEN rows[ours[k]] ELSE [rows[ours[k]] EXCEPT !.row = Meaning(rows, ours[k])]]

\* The difference of pointers into two buffers.
Wild == -1

\* The part "i" of a message that is split.  The header is copied, the prefix of the batch
\* field with it, and the new prefix is written to the field of the parent: the first part
\* says what the parent said, the others what was written there for the part before.
as_batch_retry_write(msg, i, mine) ==
    [head |-> msg.head, says |-> IF i = 1 THEN msg.says ELSE Wild, rows |-> RetryRows(msg.rows, mine)]
=============================================================================
