------------------------------- MODULE KeyWire -------------------------------
(***************************************************************************)
(* The requests of single record commands (aerospike_key.c).  A call "c"   *)
(* has the API function, the policy, the key, the bins or operations or    *)
(* the UDF, and what the transaction knows when the request is built: the  *)
(* version read of the key and the deadline, 0 when there is none yet.     *)
(***************************************************************************)
EXTENDS Wire

-----------------------------------------------------------------------------
(* The requests.  Each is [size, tdata, parts]: the size the buffer is      *)
(* given, and what is written in it.                                        *)

Built(size, tdata, parts) == [size |-> size, tdata |-> tdata, parts |-> parts]

\* The version the transaction read of the key, 0 when none.
Version(c) == IF c.policy.txn THEN c.version ELSE 0

\* The sizing pass and the writing pass over the key and the filter.
Sized(c, send_deadline) ==
    LET tdata == as_command_key_size(c.policy, c.key, send_deadline, Version(c))
        filter_size == as_command_filter_size(c.policy)
    IN  [tdata EXCEPT !.size = @ + filter_size, !.n_fields = IF filter_size > 0 THEN @ + 1 ELSE @]

KeyParts(c, tdata) ==
    as_command_write_key(c.policy, c.key, tdata, c.deadline) \o as_command_write_filter(c.policy)

aerospike_key_get(c) ==
    LET tdata == Sized(c, FALSE)
    IN  Built(tdata.size, tdata,
              << as_command_write_header_read(c.policy, tdata.n_fields, 0, {"READ", "GET_ALL"}) >>
              \o KeyParts(c, tdata))

aerospike_key_exists(c) ==
    LET tdata == Sized(c, FALSE)
    IN  Built(tdata.size, tdata,
              << as_command_write_header_read_header(c.policy, tdata.n_fields, 0, {"READ", "GET_NOBINDATA"}) >>
              \o KeyParts(c, tdata))

aerospike_key_select_bins(c) ==
    LET tdata == Sized(c, FALSE)
    IN  Built(tdata.size + SumOf(LAMBDA b : as_command_string_operation_size(b.name), c.bins), tdata,
              << as_command_write_header_read(c.policy, tdata.n_fields, Len(c.bins), {"READ"}) >>
              \o KeyParts(c, tdata)
              \o [i \in DOMAIN c.bins |-> as_command_write_bin_name(c.bins[i].name)])

\* The names stop at the first empty one.
aerospike_key_select(c) ==
    LET empty == SelectInSeq(c.bins, LAMBDA b : b.name = 0)
    IN  aerospike_key_select_bins(
            [c EXCEPT !.bins = IF empty = 0 THEN c.bins ELSE SubSeq(c.bins, 1, empty - 1)])

as_put_init(c) ==
    LET tdata == Sized(c, TRUE) IN [tdata EXCEPT !.size = @ + SumOf(as_command_bin_size, c.bins)]

as_put_write(c, put) ==
    << as_command_write_header_write(c.policy, c.policy.exists, c.policy.gen, put.n_fields,
                                     Len(c.bins), {}, {"WRITE"}, {}) >>
    \o KeyParts(c, put)
    \o [i \in DOMAIN c.bins |-> as_command_write_bin("WRITE", c.bins[i])]

aerospike_key_put(c) == LET put == as_put_init(c) IN Built(put.size, put, as_put_write(c, put))

aerospike_key_remove(c) ==
    LET tdata  == Sized(c, TRUE)
        policy == [c.policy EXCEPT !.on_locking_only = FALSE]
    IN  Built(tdata.size, tdata,
              << as_command_write_header_write(policy, "IGNORE", policy.gen, tdata.n_fields, 0,
                                               {}, {"WRITE", "DELETE"}, {}) >>
              \o KeyParts(c, tdata))

\* The attributes that the operations call for.
RespondAll == {"MAP_READ", "EXP_READ", "BIT_READ", "HLL_READ",
               "MAP_MODIFY", "EXP_MODIFY", "BIT_MODIFY", "HLL_MODIFY"}
Reads == {"MAP_READ", "EXP_READ", "BIT_READ", "HLL_READ", "CDT_READ", "READ"}

as_operate_init(c) ==
    LET ops   == Range(c.bins)
        reads == {b \in ops : b.op \in Reads}
        read_attr == Flag(reads # {}, "READ") \cup Flag(\E b \in reads : b.name = 0, "GET_ALL")
        respond_all_ops == c.policy.respond_all_ops \/ \E b \in ops : b.op \in RespondAll
        attr  == as_command_set_attr_read(c.policy)
    IN  [read |-> read_attr \cup attr.read,
         write |-> Flag(ops # reads, "WRITE")
                   \cup Flag(respond_all_ops /\ "GET_ALL" \notin read_attr, "RESPOND_ALL_OPS"),
         info |-> attr.info]

as_operate_size(c) ==
    LET tdata == Sized(c, "WRITE" \in as_operate_init(c).write)
    IN  [tdata EXCEPT !.size = @ + SumOf(as_command_bin_size, c.bins)]

as_operate_write(c, oper) ==
    LET attr == as_operate_init(c)
    IN  << as_command_write_header_write(c.policy, c.policy.exists, c.policy.gen, oper.n_fields,
                                         Len(c.bins), attr.read, attr.write, attr.info) >>
        \o KeyParts(c, oper)
        \o [i \in DOMAIN c.bins |-> as_command_write_bin(c.bins[i].op, c.bins[i])]

aerospike_key_operate(c) ==
    LET oper == as_operate_size(c) IN Built(oper.size, oper, as_operate_write(c, oper))

as_apply_init(c) ==
    LET tdata == Sized(c, TRUE)
    IN  [tdata EXCEPT !.size = @ + as_command_string_field_size(c.udf.module)
                                 + as_command_string_field_size(c.udf.function)
                                 + as_command_field_size(c.udf.args),
                      !.n_fields = @ + 3]

as_apply_write(c, ap) ==
    << as_command_write_header_write(c.policy, "IGNORE", "IGNORE", ap.n_fields, 0,
                                     as_command_set_attr_compress(c.policy), {"WRITE"}, {}) >>
    \o KeyParts(c, ap)
    \o << as_command_write_field_string("package", c.udf.module),
          as_command_write_field_string("function", c.udf.function),
          as_command_write_field_buffer("arglist", c.udf.args) >>

aerospike_key_apply(c) == LET ap == as_apply_init(c) IN Built(ap.size, ap, as_apply_write(c, ap))

\* The asynchronous functions build the same requests in the command's own buffer, so
\* that either way a request is what they name.
aerospike_key_get_async(c) == aerospike_key_get(c)
aerospike_key_exists_async(c) == aerospike_key_exists(c)
aerospike_key_select_async(c) == aerospike_key_select(c)
aerospike_key_select_bins_async(c) == aerospike_key_select_bins(c)
aerospike_key_put_async_ex(c) == aerospike_key_put(c)
aerospike_key_remove_async_ex(c) == aerospike_key_remove(c)
aerospike_key_operate_async(c) == aerospike_key_operate(c)
aerospike_key_apply_async(c) == aerospike_key_apply(c)

RequestOf(c) ==
    CASE c.api = "get" -> aerospike_key_get_async(c)
      [] c.api = "exists" -> aerospike_key_exists_async(c)
      [] c.api = "select" -> aerospike_key_select_async(c)
      [] c.api = "select_bins" -> aerospike_key_select_bins_async(c)
      [] c.api = "put" -> aerospike_key_put_async_ex(c)
      [] c.api = "remove" -> aerospike_key_remove_async_ex(c)
      [] c.api = "operate" -> aerospike_key_operate_async(c)
      [] c.api = "apply" -> aerospike_key_apply_async(c)

IsWrite(c) == \/ c.api \in {"put", "remove", "apply"}
              \/ c.api = "operate" /\ "WRITE" \in as_operate_init(c).write

\* What the sizing pass refuses: a bin's type, a name that is too long, no operation.
Malformed(c) ==
    CASE c.api \in {"put", "operate"} -> \/ \E b \in Range(c.bins) : b.type = "invalid"
                                         \/ c.api = "operate" /\ c.bins = <<>>
      [] c.api \in {"select", "select_bins"} -> \E b \in Range(c.bins) : b.name > AS_BIN_NAME_MAX_LEN
      [] OTHER -> FALSE

-----------------------------------------------------------------------------
(* Where a command goes, and whether it counts as a read when it fails.     *)

\* as_command_init_read and as_event_command_init_read.
as_command_init_read(c) ==
    LET linearize == c.sc /\ c.policy.read_mode_sc = "LINEARIZE"
    IN  [replica |-> CASE c.sc /\ c.policy.read_mode_sc = "SESSION" -> "MASTER"
                       [] linearize /\ c.policy.replica = "PREFER_RACK" -> "SEQUENCE"
                       [] OTHER -> c.policy.replica,
         flags |-> {"READ"} \cup Flag(linearize, "LINEARIZE")]

as_command_init_write(c) == [replica |-> as_command_write_replica(c.policy.replica), flags |-> {}]

as_event_command_init_read(c) == as_command_init_read(c)

\* An asynchronous operate that writes hands its replica policy on as it is.
as_async_record_command_create(c) == [replica |-> c.policy.replica, flags |-> {}]
as_async_write_command_create(c) == [replica |-> as_command_write_replica(c.policy.replica), flags |-> {}]

Route(c) ==
    CASE ~IsWrite(c) -> IF c.async THEN as_event_command_init_read(c) ELSE as_command_init_read(c)
      [] c.async /\ c.api = "operate" -> as_async_record_command_create(c)
      [] c.async /\ c.api # "operate" -> as_async_write_command_create(c)
      [] OTHER -> as_command_init_write(c)

-----------------------------------------------------------------------------
(* The commands of a commit                                                 *)

\* The commands of a commit, for one key: no key value, no filter, no deadline.
KeyFields(key) == << as_command_write_field_string("namespace", key.ns),
                     as_command_write_field_string("set", key.set),
                     as_command_write_field_digest >>

as_txn_verify_single(key, ver) ==
    Built(key.ns + key.set + AS_DIGEST_VALUE_SIZE + 45 + 7 + AS_FIELD_HEADER_SIZE, 0,
          << Header(4, 0, {"READ", "GET_NOBINDATA"}, {}, {"SC_READ_TYPE"}, {"TXN_VERIFY_READ"}) >>
          \o KeyFields(key) \o << as_command_write_field_version(ver) >>)

as_txn_roll_single(key, ver, roll_attr) ==
    Built(key.ns + key.set + AS_DIGEST_VALUE_SIZE + 45 + AS_FIELD_HEADER_SIZE + 8
          + (IF ver # 0 THEN 7 + AS_FIELD_HEADER_SIZE ELSE 0), 0,
          << Header(IF ver # 0 THEN 5 ELSE 4, 0, {}, {"WRITE", "DURABLE_DELETE"}, {}, roll_attr) >>
          \o KeyFields(key) \o << as_command_write_field_uint64("txn_id") >>
          \o Opt(ver # 0, as_command_write_field_version(ver)))

as_txn_verify_single_async(key, ver) == as_txn_verify_single(key, ver)
as_txn_roll_single_async(key, ver, roll_attr) == as_txn_roll_single(key, ver, roll_attr)
=============================================================================
