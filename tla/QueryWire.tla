------------------------------ MODULE QueryWire ------------------------------
(***************************************************************************)
(* The requests of queries and scans.  A query "q" is as_query with every  *)
(* string given by its length; a scan is the query it would be, without a  *)
(* "where".  "np" is the share of a node in a partition query: how many    *)
(* partitions in full, how many from a digest on, and the record limit.    *)
(* "is_new": the servers run queries by partition.                         *)
(***************************************************************************)
EXTENDS Wire

NoParts == [full |-> 0, partial |-> 0, max |-> 0]

Where(q) == q.where.list
HasWhere(q) == Where(q) # <<>>
Plain(policy) == [read_mode_ap |-> "ONE", read_mode_sc |-> "SESSION", compress |-> policy.compress]

\* A field whose prefix is computed from "size", with "bytes" written behind it.
Written(id, size, bytes) == [Field(id, size) EXCEPT !.len = AS_FIELD_HEADER_SIZE + bytes]

-----------------------------------------------------------------------------
(* The sizing pass: the sizes of the fields in the order they are counted.  *)

\* The values of an index range; a pair of a type and a datatype that the API
\* refuses has none.
RangeValues(pred) ==
    CASE pred.type = "EQUAL" /\ pred.dtype \in {"STRING", "BLOB"} -> 2 * pred.value
      [] pred.type = "RANGE" /\ pred.dtype = "GEO2DSPHERE" -> 2 * pred.value
      [] pred.dtype = "NUMERIC" -> 2 * 8
      [] OTHER -> 0

FilterSize(pred) == 1 + pred.bin + 10 + RangeValues(pred)
BinNameSize(q) == 1 + SumOf(LAMBDA name : name + 1, q.select.list)

WhereSizes(q, is_new) ==
    LET pred == Where(q)[1]
    IN  Opt(pred.itype # "DEFAULT", 1) \o <<FilterSize(pred)>>
        \o Opt(~is_new /\ q.select.list # <<>>, BinNameSize(q))
        \o Opt(pred.ctx > 0, pred.ctx) \o Opt(pred.index_name > 0, pred.index_name)
        \o Opt(pred.exp > 0, pred.exp)

ApplySizes(apply) == IF apply.function > 0 THEN <<1, apply.module, apply.function, apply.args>> ELSE <<>>

PartSizes(q, np) ==
    Opt(np.full > 0, np.full * 2) \o Opt(np.partial > 0, np.partial * AS_DIGEST_VALUE_SIZE)
    \o Opt(np.partial > 0 /\ HasWhere(q), np.partial * 8)

as_op_is_write(op) ==
    op \in {"WRITE", "CDT_MODIFY", "MAP_MODIFY", "INCR", "EXP_MODIFY", "APPEND", "PREPEND", "TOUCH", "BIT_MODIFY",
            "DELETE", "HLL_MODIFY"}

\* Bin names are operations of the request, except for old queries.
NamesAsOps(q, is_new) == is_new \/ ~HasWhere(q)

OpsSize(q) == SumOf(as_command_bin_size, q.ops.list)
NamesSize(q) == SumOf(as_command_string_operation_size, q.select.list)

FieldSizes(policy, q, np, rps, where) ==
    Opt(q.ns > 0, q.ns) \o Opt(q.set > 0, q.set) \o Opt(rps > 0, 4) \o <<4, 8>> \o where
    \o ApplySizes(q.apply) \o Opt(policy.filter > 0, policy.filter)
    \o PartSizes(q, np) \o Opt(np.max > 0, 8)

Counted(ok, fields, ops, n_ops) ==
    [ok |-> ok, size |-> AS_HEADER_SIZE + SumOf(as_command_field_size, fields) + ops, n_fields |-> Len(fields), n_ops |-> n_ops]

as_query_command_size(policy, q, np, is_new) ==
    Counted(q.ops.on => \A i \in DOMAIN q.ops.list : as_op_is_write(q.ops.list[i].op),
            FieldSizes(policy, q, np, q.records_per_second, IF HasWhere(q) THEN WhereSizes(q, is_new) ELSE <<>>),
            IF q.ops.on THEN OpsSize(q) ELSE IF NamesAsOps(q, is_new) THEN NamesSize(q) ELSE 0,
            IF q.ops.on THEN Len(q.ops.list) ELSE IF NamesAsOps(q, is_new) THEN Len(q.select.list) ELSE 0)

\* A scan takes its rate from the policy and does not look at its operations.
as_scan_command_size(policy, q, np) ==
    Counted(TRUE, FieldSizes(policy, q, np, policy.records_per_second, <<>>),
            IF q.ops.on THEN OpsSize(q) ELSE NamesSize(q), IF q.ops.on THEN Len(q.ops.list) ELSE Len(q.select.list))

-----------------------------------------------------------------------------
(* The writing pass.                                                        *)

as_query_write_range_string(val) == 1 + 4 + val + 4 + val
as_query_write_range_blob(size) == 1 + 4 + size + 4 + size
as_query_write_range_geojson(val) == 1 + 4 + val + 4 + val
as_query_write_range_integer == 1 + 4 + 8 + 4 + 8

RangeBytes(pred) ==
    CASE pred.type = "EQUAL" /\ pred.dtype = "STRING" -> as_query_write_range_string(pred.value)
      [] pred.type = "EQUAL" /\ pred.dtype = "BLOB" -> as_query_write_range_blob(pred.value)
      [] pred.type = "RANGE" /\ pred.dtype = "GEO2DSPHERE" -> as_query_write_range_geojson(pred.value)
      [] pred.dtype = "NUMERIC" -> as_query_write_range_integer
      [] OTHER -> 0

\* as_exp_write_index is as_exp_write with another field id.
WhereFields(q, is_new) ==
    LET pred == Where(q)[1]
    IN  Opt(pred.itype # "DEFAULT", Field("index_type", 1))
        \o << Written("index_range", FilterSize(pred), 1 + 1 + pred.bin + RangeBytes(pred)) >>
        \o Opt(~is_new /\ q.select.list # <<>>,
               Written("query_bins", BinNameSize(q), 1 + SumOf(LAMBDA name : 1 + name, q.select.list)))
        \o Opt(pred.ctx > 0, Field("index_context", pred.ctx))
        \o Opt(pred.index_name > 0, as_command_write_field_string("index_name", pred.index_name))
        \o Opt(pred.exp > 0, Field("index_expression", pred.exp))

ApplyFields(apply) ==
    IF apply.function > 0
    THEN << Field("udf_op", 1), as_command_write_field_string("udf_package", apply.module),
            as_command_write_field_string("udf_function", apply.function),
            as_command_write_field_buffer("udf_arglist", apply.args) >>
    ELSE <<>>

PartFields(q, np) ==
    Opt(np.full > 0, Written("pid_array", np.full * 2, np.full * 2))
    \o Opt(np.partial > 0, Written("digest_array", np.partial * AS_DIGEST_VALUE_SIZE, np.partial * AS_DIGEST_VALUE_SIZE))
    \o Opt(np.partial > 0 /\ HasWhere(q), Written("bval_array", np.partial * 8, np.partial * 8))

OpParts(q) == [i \in DOMAIN q.ops.list |-> as_command_write_bin(q.ops.list[i].op, q.ops.list[i])]
NameParts(q) == [i \in DOMAIN q.select.list |-> as_command_write_bin_name(q.select.list[i])]

\* Up to the filter expression (cmd_size_pre), and from the operations on (cmd_size_post).
Prefix(policy, q, rps, where) ==
    Opt(q.ns > 0, as_command_write_field_string("namespace", q.ns))
    \o Opt(q.set > 0, as_command_write_field_string("set", q.set))
    \o Opt(rps > 0, as_command_write_field_uint32("rps"))
    \o << as_command_write_field_uint32("socket_timeout"), as_command_write_field_uint64("task_id") >>
    \o where \o ApplyFields(q.apply) \o Opt(policy.filter > 0, as_exp_write(policy.filter))

MaxRecords(np) == Opt(np.max > 0, as_command_write_field_uint64("max_records"))

\* What the record written is given to live.
CLIENT_DEFAULT_TTL == -3
Ttl(q, policy) ==
    LET ttl == IF q.ops.on /\ q.ttl = 0 THEN q.ops.ttl ELSE q.ttl
    IN  IF ttl = CLIENT_DEFAULT_TTL THEN policy.ttl ELSE ttl

WriteHeader(policy, q, n) ==
    as_command_write_header_write(policy, policy.exists, "IGNORE", n.n_fields, n.n_ops, {}, {"WRITE"}, {})
    @@ [ttl |-> Ttl(q, policy)]

as_query_header(policy, q, is_new, background, n) ==
    IF background THEN WriteHeader(policy, q, n)
    ELSE [as_command_write_header_read(Plain(policy), n.n_fields, n.n_ops,
              {"READ"} \cup Flag(q.no_bins, "GET_NOBINDATA")
              \cup Flag(policy.expected_duration = "SHORT", "SHORT_QUERY"))
          EXCEPT !.write_attr = Flag(policy.expected_duration = "LONG_RELAX_AP", "RELAX_AP_LONG_QUERY"),
                 !.info_attr = @ \cup Flag(NamesAsOps(q, is_new), "PARTITION_DONE")]

\* The message in three pieces: header and prefix, the node's own fields, the rest.
Pieces(pre, own, post) == [pre |-> pre, own |-> own, post |-> post]

as_query_command_init(policy, q, np, is_new, background, n) ==
    Pieces(<<as_query_header(policy, q, is_new, background, n)>>
           \o Prefix(policy, q, q.records_per_second, IF HasWhere(q) THEN WhereFields(q, is_new) ELSE <<>>),
           PartFields(q, np) \o MaxRecords(np),
           IF q.ops.on THEN OpParts(q) ELSE IF NamesAsOps(q, is_new) THEN NameParts(q) ELSE <<>>)

as_scan_command_init(policy, q, np, n) ==
    LET header == IF q.ops.on \/ q.apply.function > 0
                  THEN WriteHeader([policy EXCEPT !.commit_level = "ALL", !.exists = "IGNORE"], q, n)
                  ELSE [as_command_write_header_read(Plain(policy), n.n_fields, n.n_ops,
                            {"READ"} \cup Flag(q.no_bins, "GET_NOBINDATA"))
                        EXCEPT !.info_attr = @ \cup {"PARTITION_DONE"}]
    IN  Pieces(<<header>> \o Prefix(policy, q, policy.records_per_second, <<>>),
               PartFields(q, np) \o MaxRecords(np),
               IF q.ops.on THEN OpParts(q) ELSE NameParts(q))

Whole(size, m) == [size |-> size, parts |-> m.pre \o m.own \o m.post]

\* A request built for a node, in one go, once it is sized: none when the sizing pass fails.
QueryOfSize(policy, q, np, is_new, background, n) ==
    IF n.ok THEN {Whole(n.size, as_query_command_init(policy, q, np, is_new, background, n))} ELSE {}
QueryRequest(policy, q, np, is_new, background) ==
    QueryOfSize(policy, q, np, is_new, background, as_query_command_size(policy, q, np, is_new))

ScanOfSize(policy, q, np, n) == {Whole(n.size, as_scan_command_init(policy, q, np, n))}
ScanRequest(policy, q, np) == ScanOfSize(policy, q, np, as_scan_command_size(policy, q, np))

-----------------------------------------------------------------------------
(* Asynchronous commands: the request is built once without the fields of a *)
(* node, kept over the rounds, and taken apart for every node.              *)

\* qe: cmd_buf in its pieces, cmd_size, n_fields, has_where.
Cached(cmd, n, has_where) == [cmd |-> cmd, cmd_size |-> n.size, n_fields |-> n.n_fields, has_where |-> has_where]

CachedQuery(policy, q) ==
    LET n == as_query_command_size(policy, q, NoParts, TRUE)
    IN  Cached(as_query_command_init(policy, q, NoParts, TRUE, FALSE, n), n, HasWhere(q))

CachedScan(policy, q) ==
    LET n == as_scan_command_size(policy, q, NoParts) IN Cached(as_scan_command_init(policy, q, NoParts, n), n, FALSE)

NodeFields(qe, np) ==
    Opt(np.full > 0, Written("pid_array", np.full * 2, np.full * 2))
    \o Opt(np.partial > 0, Written("digest_array", np.partial * AS_DIGEST_VALUE_SIZE, np.partial * AS_DIGEST_VALUE_SIZE))
    \o Opt(np.partial > 0 /\ qe.has_where, Written("bval_array", np.partial * 8, np.partial * 8))
    \o MaxRecords(np)

NodeFieldsUncounted(qe, np) ==  \* mutant
    LET own == NodeFields(qe, np)
    IN  [own |-> own, n_fields |-> qe.n_fields + Len(SelectSeq(own, LAMBDA f : f.id # "bval_array"))]
CountNodeFields(qe, np) ==
    LET own == NodeFields(qe, np) IN [own |-> own, n_fields |-> qe.n_fields + Len(own)]

Completed(qe, f) ==
    Whole(qe.cmd_size + Total(f.own), [qe.cmd EXCEPT !.pre[1].n_fields = f.n_fields, !.own = f.own])
as_query_partition_execute_async(qe, np) == Completed(qe, CountNodeFields(qe, np))

as_scan_partition_execute_async(se, np) == as_query_partition_execute_async(se, np)
=============================================================================
