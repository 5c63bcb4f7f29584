----------------------------- MODULE QueryObject -----------------------------
(***************************************************************************)
(* The life of a query or scan object: it is put together by calls of the  *)
(* API, pages of records leave the state of the partitions in it, it is    *)
(* saved as bytes and loaded again, and requests are built from it.        *)
(* Bytes are the sequence of the values packed.                            *)
(***************************************************************************)
EXTENDS QueryWire

CONSTANTS
    Kinds,       \* "query", "scan"
    Preds,       \* the predicates asked for: [api, type, itype, dtype, bin, name, ctx, exp, value, max]
    Names,       \* lengths of bin names
    Udfs,        \* the UDF calls asked for: [module, function, args]
    OpLists      \* the operations of background queries

VARIABLES
    kind,        \* whether the object is a query or a scan
    q,           \* the object
    refused,     \* a call returned false and the caller went on
    saved        \* the bytes of an object saved by a process that ended, <<>> while one runs

vars == <<kind, q, refused, saved>>

AS_NAMESPACE_MAX_SIZE == 32
AS_SET_MAX_SIZE == 64
AS_BIN_NAME_MAX_SIZE == 16
AS_INDEX_NAME_MAX_SIZE == 256
AS_UDF_MODULE_MAX_SIZE == 64

-----------------------------------------------------------------------------
(* Construction                                                             *)

NoApply == [module |-> 0, function |-> 0, args |-> 0]
NoOps == [on |-> FALSE, ttl |-> 0, gen |-> 0, list |-> <<>>]
NoStatus == [on |-> FALSE, begin |-> 0, done |-> FALSE, retry |-> FALSE, list |-> <<>>]
NoPred == [index_name |-> 0, bin |-> 0, ctx |-> 0, exp |-> 0, type |-> "EQUAL", dtype |-> "STRING",
           itype |-> "DEFAULT", value |-> 0, max |-> 0]

as_query_defaults(ns, set) ==
    [ns |-> Min({ns, AS_NAMESPACE_MAX_SIZE - 1}), set |-> Min({set, AS_SET_MAX_SIZE - 1}),
     select |-> [made |-> FALSE, capacity |-> 0, list |-> <<>>],
     where |-> [made |-> FALSE, capacity |-> 0, list |-> <<>>],
     apply |-> NoApply, ops |-> NoOps, parts |-> NoStatus,
     records_per_second |-> 0, max_records |-> 0, ttl |-> 0, paginate |-> FALSE, no_bins |-> FALSE,
     concurrent |-> FALSE, deserialize |-> TRUE]

\* A name that does not fit is dropped.
as_scan_defaults(ns, set) ==
    as_query_defaults(IF ns < AS_NAMESPACE_MAX_SIZE THEN ns ELSE 0, IF set < AS_SET_MAX_SIZE THEN set ELSE 0)

\* What a call returns: the object and its Boolean.
Said(obj, true) == [q |-> obj, true |-> true]

as_query_select_init(n) ==
    IF q.select.made THEN Said(q, FALSE)
    ELSE Said([q EXCEPT !.select = [made |-> TRUE, capacity |-> n, list |-> <<>>]], TRUE)

as_query_select(bin) ==
    IF bin >= AS_BIN_NAME_MAX_SIZE \/ Len(q.select.list) >= q.select.capacity THEN Said(q, FALSE)
    ELSE Said([q EXCEPT !.select.list = Append(@, bin)], TRUE)

as_query_where_init(n) ==
    IF q.where.made THEN Said(q, FALSE)
    ELSE Said([q EXCEPT !.where = [made |-> TRUE, capacity |-> n, list |-> <<>>]], TRUE)

\* Whether the type and the datatype go together; the value is stored if they do.
as_query_where_predicate(type, dtype) ==
    \/ type = "EQUAL" /\ dtype \in {"STRING", "NUMERIC", "BLOB"}
    \/ type = "RANGE" /\ dtype \in {"NUMERIC", "GEO2DSPHERE"}

\* The predicate is in the query before its value is looked at.
AddPredicate(p, pred) ==
    LET ok == as_query_where_predicate(p.type, p.dtype)
        stored == [pred EXCEPT !.type = p.type, !.dtype = p.dtype, !.itype = p.itype,
                               !.value = IF ok THEN p.value ELSE 0, !.max = IF p.type = "RANGE" /\ p.dtype = "NUMERIC" THEN p.max ELSE 0]
    IN  Said([q EXCEPT !.where.list = Append(@, stored)], ok)

Full == Len(q.where.list) >= q.where.capacity

as_query_where_internal(p) ==
    IF p.bin >= AS_BIN_NAME_MAX_SIZE \/ Full THEN Said(q, FALSE)
    ELSE AddPredicate(p, [NoPred EXCEPT !.bin = p.bin, !.ctx = p.ctx])

as_query_where(p) == as_query_where_internal([p EXCEPT !.ctx = 0])
as_query_where_with_ctx(p) == as_query_where_internal(p)

as_query_where_index_name(p) ==
    IF Full THEN Said(q, FALSE) ELSE AddPredicate(p, [NoPred EXCEPT !.index_name = p.name, !.exp = p.exp])

as_query_where_with_index_name(p) == as_query_where_index_name([p EXCEPT !.exp = 0])
as_query_where_with_exp(p) == as_query_where_index_name([p EXCEPT !.name = 0])

AddWhere(p) ==
    CASE p.api = "where" -> as_query_where(p)
      [] p.api = "ctx" -> as_query_where_with_ctx(p)
      [] p.api = "index_name" -> as_query_where_with_index_name(p)
      [] OTHER -> as_query_where_with_exp(p)

\* as_udf_call_init leaves the call alone when a name is too long.
as_udf_call_init(call, udf) ==
    IF udf.module >= AS_UDF_MODULE_MAX_SIZE \/ udf.function >= AS_UDF_MODULE_MAX_SIZE THEN call ELSE udf

as_query_apply(udf) == Said([q EXCEPT !.apply = as_udf_call_init(@, udf)], TRUE)
as_scan_apply_each(udf) == as_query_apply(udf)

-----------------------------------------------------------------------------
(* To bytes                                                                 *)

as_pack_string(len) == <<[t |-> "str", v |-> len]>>
as_pack_bytes(size) == <<[t |-> "str", v |-> 1 + size]>>    \* the type of the bytes comes first
as_pack_byte_string(digest) == <<[t |-> "digest", v |-> digest]>>
as_pack_int64(i) == <<[t |-> "int", v |-> i]>>
as_pack_bool(b) == <<[t |-> "bool", v |-> b]>>
as_pack_val(v) == <<[t |-> "val", v |-> v]>>

PackAll(Pack(_), seq) == FlattenSeq([i \in DOMAIN seq |-> Pack(seq[i])])
PackIf(condition, items) == as_pack_bool(condition) \o (IF condition THEN items ELSE <<>>)

\* as_cdt_ctx_pack, then the bytes it took.
PackCtx(size) == as_pack_val(size) \o as_pack_int64(size)

PackValue(pred) ==
    CASE pred.dtype = "STRING" /\ pred.type = "EQUAL" -> as_pack_string(pred.value)
      [] pred.dtype = "GEO2DSPHERE" /\ pred.type = "RANGE" -> as_pack_string(pred.value)
      [] pred.dtype = "BLOB" /\ pred.type = "EQUAL" -> as_pack_bytes(pred.value)
      [] pred.dtype = "NUMERIC" /\ pred.type = "EQUAL" -> as_pack_int64(pred.value)
      [] pred.dtype = "NUMERIC" /\ pred.type = "RANGE" -> as_pack_int64(pred.value) \o as_pack_int64(pred.max)
      [] OTHER -> <<>>

PackPred(pred) ==
    as_pack_string(pred.index_name) \o as_pack_string(pred.bin)
    \o PackIf(pred.ctx > 0, PackCtx(pred.ctx)) \o PackIf(pred.exp > 0, as_pack_bytes(pred.exp))
    \o as_pack_int64(pred.type) \o as_pack_int64(pred.dtype) \o as_pack_int64(pred.itype) \o PackValue(pred)

PackApply(apply) ==
    PackIf(apply.function > 0, as_pack_string(apply.module) \o as_pack_string(apply.function)
                               \o PackIf(apply.args > 0, as_pack_val(apply.args)))

PackOp(op) == as_pack_int64(op.op) \o as_pack_string(op.name) \o as_pack_val([type |-> op.type, len |-> op.len])
PackOps(ops) ==
    PackIf(ops.on, as_pack_int64(ops.ttl) \o as_pack_int64(ops.gen) \o as_pack_int64(Len(ops.list))
                   \o PackAll(PackOp, ops.list))

PackPart(ps) == as_pack_int64(ps.id) \o as_pack_bool(ps.retry) \o as_pack_bool(ps.init)
                \o as_pack_byte_string(ps.digest) \o as_pack_int64(ps.bval)
PackParts(parts) ==
    PackIf(parts.on, as_pack_int64(Len(parts.list)) \o as_pack_int64(parts.begin) \o as_pack_bool(parts.done)
                     \o PackAll(PackPart, parts.list))

PackSelect(obj) ==
    as_pack_string(obj.ns) \o as_pack_string(obj.set)
    \o as_pack_int64(Len(obj.select.list)) \o PackAll(as_pack_string, obj.select.list)

as_query_to_bytes(obj) ==
    PackSelect(obj)
    \o as_pack_int64(Len(obj.where.list)) \o PackAll(PackPred, obj.where.list)
    \o PackApply(obj.apply) \o PackOps(obj.ops) \o PackParts(obj.parts)
    \o as_pack_int64(obj.max_records) \o as_pack_int64(obj.records_per_second) \o as_pack_int64(obj.ttl)
    \o as_pack_bool(obj.paginate) \o as_pack_bool(obj.no_bins)

as_scan_to_bytes(obj) ==
    PackSelect(obj) \o PackApply(obj.apply) \o PackOps(obj.ops) \o PackParts(obj.parts)
    \o as_pack_int64(obj.ttl) \o as_pack_bool(obj.paginate) \o as_pack_bool(obj.no_bins)
    \o as_pack_bool(obj.concurrent) \o as_pack_bool(obj.deserialize)

-----------------------------------------------------------------------------
(* From bytes.  A reader is where it is, whether all went well, what it     *)
(* read last, the object so far, and which parts of it hold memory that was *)
(* allocated and not set though the destructor reads it.  A reader that     *)
(* fails destroys the object.                                               *)

Reader(bytes, obj) == [in |-> bytes, at |-> 1, ok |-> TRUE, last |-> 0, q |-> obj, unset |-> {}]

Take(r, t, Fits(_), Store(_, _)) ==
    IF r.ok /\ r.at <= Len(r.in) /\ r.in[r.at].t = t /\ Fits(r.in[r.at].v)
    THEN [r EXCEPT !.at = @ + 1, !.last = r.in[r.at].v, !.q = Store(r.q, r.in[r.at].v)]
    ELSE [r EXCEPT !.ok = FALSE, !.last = FALSE]

Anything(v) == TRUE
Nowhere(obj, v) == obj
as_unpack_boolean(r) == Take(r, "bool", Anything, Nowhere)
as_unpack_uint64(r) == Take(r, "int", Anything, Nowhere)
as_unpack_str_init(r, max, Store(_, _)) == Take(r, "str", LAMBDA size : size < max, Store)
as_unpack_str_new(r, max, Store(_, _)) == Take(r, "str", LAMBDA size : size < max, Store)
as_unpack_bytes_init(r, Store(_, _)) == Take(r, "digest", Anything, Store)
as_unpack_bytes_new(r, max, Store(_, _)) == Take(r, "str", LAMBDA size : size <= max, Store)

TakeInt(r, f) == Take(r, "int", Anything, LAMBDA obj, v : [obj EXCEPT ![f] = v])
TakeBool(r, f) == Take(r, "bool", Anything, LAMBDA obj, v : [obj EXCEPT ![f] = v])

\* As many as the count just read; the guarded part when the flag just read is set.
Times(r, Step(_)) == IF r.ok THEN FoldLeft(LAMBDA s, i : Step(s), r, [i \in 1..r.last |-> i]) ELSE r
When(r, Then(_)) == IF r.ok /\ r.last THEN Then(r) ELSE r

TakeSelect(r) ==
    LET ns == as_unpack_str_init(r, AS_NAMESPACE_MAX_SIZE, LAMBDA obj, v : [obj EXCEPT !.ns = v])
        set == as_unpack_str_init(ns, AS_SET_MAX_SIZE, LAMBDA obj, v : [obj EXCEPT !.set = v])
        n == Take(set, "int", Anything, LAMBDA obj, v : IF v = 0 THEN obj
                                                    ELSE [obj EXCEPT !.select.made = TRUE, !.select.capacity = v])
    IN  Times(n, LAMBDA s : as_unpack_str_init(s, AS_BIN_NAME_MAX_SIZE,
                                               LAMBDA obj, v : [obj EXCEPT !.select.list = Append(@, v)]))

SetPred(obj, f, v) == [obj EXCEPT !.where.list[Len(obj.where.list)][f] = v]
PredInt(r, f) == Take(r, "int", Anything, LAMBDA obj, v : SetPred(obj, f, v))
PredEnum(r, f, range) == Take(r, "int", LAMBDA v : v \in range, LAMBDA obj, v : SetPred(obj, f, v))

\* The packed bytes of an expression are stored without their type, those of a blob
\* would be with it.
ExpKeepsType(r) == as_unpack_bytes_new(r, 4096, LAMBDA obj, v : SetPred(obj, "exp", v))  \* mutant
TakeExp(r) == as_unpack_bytes_new(r, 4096, LAMBDA obj, v : SetPred(obj, "exp", v - 1))
TakeBlob(r) == as_unpack_bytes_new(r, 4096, LAMBDA obj, v : SetPred(obj, "value", v))

TakeValue(r) ==
    LET pred == Where(r.q)[Len(Where(r.q))]
        String(s) == as_unpack_str_new(s, 4096, LAMBDA obj, v : SetPred(obj, "value", v))
    IN  CASE ~r.ok -> r
          [] pred.dtype = "STRING" /\ pred.type = "EQUAL" -> String(r)
          [] pred.dtype = "GEO2DSPHERE" /\ pred.type = "RANGE" -> String(r)
          [] pred.dtype = "BLOB" /\ pred.type = "EQUAL" -> TakeBlob(r)
          [] pred.dtype = "NUMERIC" /\ pred.type = "EQUAL" -> PredInt(r, "value")
          [] pred.dtype = "NUMERIC" /\ pred.type = "RANGE" -> PredInt(PredInt(r, "value"), "max")
          [] pred.dtype \in {"STRING", "GEO2DSPHERE"} -> [r EXCEPT !.unset = @ \cup {"value"}]
          [] OTHER -> r

\* as_cdt_ctx_from_unpacker, then the size that was packed with it.
TakeCtx(r) == PredInt(Take(r, "val", Anything, Nowhere), "ctx")

\* The datatypes end with AS_INDEX_GEO2DSPHERE here: AS_INDEX_BLOB is out of range.
TakeTypes(r) ==
    LET type == PredEnum(r, "type", {"EQUAL", "RANGE"})
        dtype == PredEnum(type, "dtype", {"STRING", "NUMERIC", "GEO2DSPHERE"})
    IN  PredEnum(dtype, "itype", {"DEFAULT", "LIST", "MAPKEYS", "MAPVALUES"})

TakePred(r) ==
    LET fresh == [r EXCEPT !.q.where.list = Append(@, NoPred)]
        name == as_unpack_str_init(fresh, AS_INDEX_NAME_MAX_SIZE, LAMBDA obj, v : SetPred(obj, "index_name", v))
        bin == as_unpack_str_init(name, AS_BIN_NAME_MAX_SIZE, LAMBDA obj, v : SetPred(obj, "bin", v))
        ctx == When(as_unpack_boolean(bin), TakeCtx)
        exp == When(as_unpack_boolean(ctx), TakeExp)
    IN  TakeValue(TakeTypes(exp))

TakeWhere(r) ==
    Times(Take(r, "int", Anything, LAMBDA obj, v : IF v = 0 THEN obj
                                               ELSE [obj EXCEPT !.where.made = TRUE, !.where.capacity = v]),
          TakePred)

TakeApply(r) ==
    When(as_unpack_boolean(r),
         LAMBDA s : LET module == as_unpack_str_init(s, AS_UDF_MODULE_MAX_SIZE, LAMBDA obj, v : [obj EXCEPT !.apply.module = v])
                        function == as_unpack_str_init(module, AS_UDF_MODULE_MAX_SIZE,
                                                       LAMBDA obj, v : [obj EXCEPT !.apply.function = v])
                    IN  When(as_unpack_boolean(function),
                             LAMBDA u : Take(u, "val", Anything, LAMBDA obj, v : [obj EXCEPT !.apply.args = v])))

TakeOp(r) ==
    LET op == Take(r, "int", Anything, LAMBDA obj, v : [obj EXCEPT !.ops.list = Append(@, [op |-> v, name |-> 0, type |-> "nil", len |-> 0])])
        Last_(obj) == Len(obj.ops.list)
        name == as_unpack_str_init(op, AS_BIN_NAME_MAX_SIZE, LAMBDA obj, v : [obj EXCEPT !.ops.list[Last_(obj)].name = v])
    IN  Take(name, "val", Anything, LAMBDA obj, v : [obj EXCEPT !.ops.list[Last_(obj)].type = v.type,
                                                           !.ops.list[Last_(obj)].len = v.len])

\* The list of the operations is made empty when their number is known.
TakeOps(r) ==
    When(as_unpack_boolean(r),
         LAMBDA s : LET ttl == Take([s EXCEPT !.unset = @ \cup {"ops"}], "int", Anything, LAMBDA obj, v : [obj EXCEPT !.ops.on = TRUE, !.ops.ttl = v])
                        gen == Take(ttl, "int", Anything, LAMBDA obj, v : [obj EXCEPT !.ops.gen = v])
                        n == as_unpack_uint64(gen)
                    IN  Times(IF n.ok THEN [n EXCEPT !.unset = @ \ {"ops"}] ELSE n, TakeOp))

TakePart(r) ==
    LET Last_(obj) == Len(obj.parts.list)
        Set(obj, f, v) == [obj EXCEPT !.parts.list[Last_(obj)][f] = v]
        id == Take(r, "int", Anything, LAMBDA obj, v : [obj EXCEPT !.parts.list =
                  Append(@, [id |-> v, retry |-> FALSE, init |-> FALSE, digest |-> 0, bval |-> 0])])
        retry == Take(id, "bool", Anything, LAMBDA obj, v : Set(obj, "retry", v))
        init == Take(retry, "bool", Anything, LAMBDA obj, v : Set(obj, "init", v))
        digest == as_unpack_bytes_init(init, LAMBDA obj, v : Set(obj, "digest", v))
    IN  Take(digest, "int", Anything, LAMBDA obj, v : Set(obj, "bval", v))

\* All partitions are asked again: "retry" is not among the bytes.
TakeParts(r) ==
    When(as_unpack_boolean(r),
         LAMBDA s : LET n == as_unpack_uint64(s)
                        begin == Take(n, "int", Anything, LAMBDA obj, v : [obj EXCEPT !.parts.on = TRUE, !.parts.begin = v])
                        done == Take(begin, "bool", Anything, LAMBDA obj, v : [obj EXCEPT !.parts.done = v, !.parts.retry = TRUE])
                    IN  Times([done EXCEPT !.last = n.last], TakePart))

as_query_from_bytes(bytes) ==
    LET body == TakeParts(TakeOps(TakeApply(TakeWhere(TakeSelect(Reader(bytes, as_query_defaults(0, 0)))))))
        ints == TakeInt(TakeInt(TakeInt(body, "max_records"), "records_per_second"), "ttl")
    IN  TakeBool(TakeBool(ints, "paginate"), "no_bins")

ScanFlagsUnchecked(r) == [TakeBool(r, "deserialize") EXCEPT !.ok = TRUE]  \* mutant
ScanFlags(r) == TakeBool(r, "deserialize")

as_scan_from_bytes(bytes) ==
    LET body == TakeParts(TakeOps(TakeApply(TakeSelect(Reader(bytes, as_scan_defaults(0, 0))))))
    IN  ScanFlags(TakeBool(TakeBool(TakeBool(TakeInt(body, "ttl"), "paginate"), "no_bins"), "concurrent"))

ToBytes(obj) == IF kind = "query" THEN as_query_to_bytes(obj) ELSE as_scan_to_bytes(obj)
FromBytes(bytes) == IF kind = "query" THEN as_query_from_bytes(bytes) ELSE as_scan_from_bytes(bytes)

\* The comparison looks at the capacities of the lists, not at whether they were
\* made, and not at the "retry" of all partitions.
SameSelect(a, b) == a.ns = b.ns /\ a.set = b.set /\ a.select.capacity = b.select.capacity /\ a.select.list = b.select.list
SameWhere(a, b) == a.where.capacity = b.where.capacity /\ a.where.list = b.where.list
SameApply(a, b) == a.apply = b.apply
SameOps(a, b) == a.ops = b.ops
SamePart(p, r) ==
    /\ p.id = r.id /\ p.retry = r.retry /\ p.bval = r.bval /\ p.init = r.init
    /\ p.init => p.digest = r.digest
SameParts(a, b) ==
    /\ a.parts.begin = b.parts.begin /\ a.parts.done = b.parts.done /\ Len(a.parts.list) = Len(b.parts.list)
    /\ \A i \in DOMAIN a.parts.list : SamePart(a.parts.list[i], b.parts.list[i])

as_query_compare(a, b) ==
    /\ SameSelect(a, b) /\ SameWhere(a, b) /\ SameApply(a, b) /\ SameOps(a, b) /\ SameParts(a, b)
    /\ a.max_records = b.max_records /\ a.records_per_second = b.records_per_second
    /\ a.ttl = b.ttl /\ a.paginate = b.paginate /\ a.no_bins = b.no_bins

as_scan_compare(a, b) ==
    /\ SameSelect(a, b) /\ SameApply(a, b) /\ SameOps(a, b) /\ SameParts(a, b)
    /\ a.ttl = b.ttl /\ a.paginate = b.paginate /\ a.no_bins = b.no_bins
    /\ a.concurrent = b.concurrent /\ a.deserialize = b.deserialize

Compare(a, b) == IF kind = "query" THEN as_query_compare(a, b) ELSE as_scan_compare(a, b)

-----------------------------------------------------------------------------
(* The requests of a call: those a node gets, none when the call is refused.*)

\* The state of the partitions and the time to live are not handed on.
ConvertNoBinsLost(obj) ==  \* mutant
    [as_scan_defaults(obj.ns, obj.set) EXCEPT
        !.select = obj.select, !.apply = obj.apply, !.ops = obj.ops, !.paginate = obj.paginate,
        !.concurrent = TRUE, !.deserialize = obj.deserialize]
convert_query_to_scan(obj) ==
    [as_scan_defaults(obj.ns, obj.set) EXCEPT
        !.select = obj.select, !.apply = obj.apply, !.ops = obj.ops, !.paginate = obj.paginate,
        !.no_bins = obj.no_bins, !.concurrent = TRUE, !.deserialize = obj.deserialize]

ScanOf(policy, obj, np) ==
    ScanRequest([policy EXCEPT !.records_per_second = obj.records_per_second], convert_query_to_scan(obj), np)

aerospike_query_foreach(policy, obj, np, is_new) ==
    CASE obj.ops.on -> {}
      [] ~obj.ops.on /\ obj.apply.function = 0 /\ ~is_new /\ ~HasWhere(obj) -> ScanOf(policy, obj, np)
      [] OTHER -> QueryRequest(policy, obj, IF obj.apply.function = 0 /\ is_new THEN np ELSE NoParts, is_new, FALSE)

aerospike_query_partitions(policy, obj, np, is_new) ==
    IF obj.ops.on \/ obj.apply.function > 0 \/ ~is_new THEN {} ELSE QueryRequest(policy, obj, np, TRUE, FALSE)

aerospike_query_async(policy, obj, np, is_new) ==
    CASE obj.ops.on \/ obj.apply.function > 0 -> {}
      [] obj.ops.on = FALSE /\ obj.apply.function = 0 /\ is_new ->
            {as_query_partition_execute_async(CachedQuery(policy, obj), np)}
      [] OTHER -> aerospike_query_foreach(policy, obj, np, is_new)

aerospike_query_partitions_async(policy, obj, np, is_new) ==
    IF is_new THEN aerospike_query_async(policy, obj, np, is_new) ELSE {}

aerospike_query_background(policy, obj, is_new) ==
    IF obj.ops.on \/ obj.apply.function > 0 THEN QueryRequest(policy, obj, NoParts, is_new, TRUE) ELSE {}

aerospike_scan_foreach(policy, obj, np) == ScanRequest(policy, obj, np)
aerospike_scan_partitions(policy, obj, np) == aerospike_scan_foreach(policy, obj, np)
aerospike_scan_node(policy, obj, np) == aerospike_scan_partitions(policy, obj, np)
aerospike_scan_background(policy, obj) == ScanRequest(policy, obj, NoParts)
aerospike_scan_async(policy, obj, np) == {as_scan_partition_execute_async(CachedScan(policy, obj), np)}
aerospike_scan_node_async(policy, obj, np) == aerospike_scan_async(policy, obj, np)
aerospike_scan_partitions_async(policy, obj, np) == aerospike_scan_node_async(policy, obj, np)

Foreground(policy, obj, np, is_new) ==
    IF kind = "scan"
    THEN aerospike_scan_node(policy, obj, np)   \* the same for all of them
    ELSE aerospike_query_foreach(policy, obj, np, is_new) \cup aerospike_query_partitions(policy, obj, np, is_new)

InBackground(policy, obj, is_new) ==
    IF kind = "scan" THEN aerospike_scan_background(policy, obj) ELSE aerospike_query_background(policy, obj, is_new)

Asynchronous(policy, obj, np, is_new) ==
    IF kind = "scan"
    THEN aerospike_scan_partitions_async(policy, obj, np)
    ELSE aerospike_query_async(policy, obj, np, is_new) \cup aerospike_query_partitions_async(policy, obj, np, is_new)

-----------------------------------------------------------------------------
New(k) == IF k = "query" THEN as_query_defaults(4, 3) ELSE as_scan_defaults(4, 3)

Init ==
    /\ kind \in Kinds
    /\ q = New(kind)
    /\ refused = FALSE
    /\ saved = <<>>

Do(said) == q' = said.q /\ refused' = (refused \/ ~said.true)

SelectInit == (\E n \in 1..2 : Do(as_query_select_init(n))) /\ UNCHANGED <<kind, saved>>
Select == (\E bin \in Names : Do(as_query_select(bin))) /\ UNCHANGED <<kind, saved>>
WhereInit == kind = "query" /\ Do(as_query_where_init(1)) /\ UNCHANGED <<kind, saved>>
AddsWhere == kind = "query" /\ (\E p \in Preds : Do(AddWhere(p))) /\ UNCHANGED <<kind, saved>>

Apply ==
    /\ \E udf \in Udfs : Do(IF kind = "query" THEN as_query_apply(udf) ELSE as_scan_apply_each(udf))
    /\ UNCHANGED <<kind, saved>>

SetOps == \E ops \in OpLists : q' = [q EXCEPT !.ops = ops] /\ UNCHANGED <<kind, refused, saved>>

\* The fields the caller sets itself.
SetOptions ==
    /\ q' = [q EXCEPT !.max_records = IF kind = "query" THEN 5 ELSE 0, !.records_per_second = IF kind = "query" THEN 7 ELSE 0,
                      !.ttl = 9, !.paginate = TRUE, !.no_bins = TRUE, !.concurrent = kind = "scan"]
    /\ UNCHANGED <<kind, refused, saved>>

\* A page ended: normally, or early with every partition to be asked again.
Page ==
    /\ q.paginate /\ ~q.ops.on /\ q.apply.function = 0
    /\ \E early, more \in BOOLEAN :
         q' = [q EXCEPT !.parts = [on |-> TRUE, begin |-> 0, done |-> ~early /\ ~more, retry |-> early,
             list |-> << [id |-> 0, retry |-> early \/ more, init |-> TRUE, digest |-> 6, bval |-> 8],
                         [id |-> 1, retry |-> early, init |-> FALSE, digest |-> 0, bval |-> 0] >>]]
    /\ UNCHANGED <<kind, refused, saved>>

Save == saved' = ToBytes(q) /\ UNCHANGED <<kind, q, refused>>

\* In a new process, which starts over when the bytes are not taken.
Load ==
    LET r == FromBytes(saved)
    IN  /\ q' = IF r.ok THEN r.q ELSE New(kind)
        /\ refused' = (r.ok /\ refused)
        /\ saved' = <<>> /\ UNCHANGED kind

Next ==
    \/ /\ saved = <<>>
       /\ SelectInit \/ Select \/ WhereInit \/ AddsWhere \/ Apply \/ SetOps \/ SetOptions \/ Page \/ Save
    \/ /\ saved # <<>>
       /\ Load

Spec == Init /\ [][Next]_vars

-----------------------------------------------------------------------------
(* Properties                                                               *)

Policy(filter, expected_duration, records_per_second) ==
    [filter |-> filter, compress |-> FALSE, expected_duration |-> expected_duration,
     records_per_second |-> records_per_second, commit_level |-> "ALL", exists |-> "IGNORE", ttl |-> 1,
     durable_delete |-> FALSE, on_locking_only |-> FALSE]
Policies == {Policy(0, "LONG", 2), Policy(11, "LONG_RELAX_AP", 0)}

\* The share of a node: fresh, or what the last page left.
Shares(obj) ==
    LET To(ps) == obj.parts.retry \/ ps.retry
        n(init) == Len(SelectSeq(obj.parts.list, LAMBDA ps : To(ps) /\ ps.init = init))
    IN  IF obj.parts.on THEN {[full |-> n(FALSE), partial |-> n(TRUE), max |-> obj.max_records]}
        ELSE {[full |-> 2, partial |-> 0, max |-> m] : m \in {0, obj.max_records}}

\* Every request of a query or scan put together by calls that returned true can be
\* read by a server: it fills the buffer sized for it, every length prefix is right,
\* and the header counts its fields and operations (as_query_command_size and
\* as_query_command_init, as_scan_command_size and as_scan_command_init agree).
Framed ==
    saved = <<>> /\ ~refused =>
        \A policy \in Policies, np \in Shares(q), is_new \in BOOLEAN :
            \A m \in Foreground(policy, q, np, is_new) \cup InBackground(policy, q, is_new)
                     \cup Asynchronous(policy, q, np, is_new) :
                WellFormed(m.parts) /\ Total(m.parts) = m.size

\* The asynchronous calls ask a node what the synchronous ones ask it: the cached
\* request, taken apart and completed with the node's partitions in
\* as_query_partition_execute_async, is the request built in one go.
AsyncAsSync ==
    saved = <<>> => \A policy \in Policies, np \in Shares(q), is_new \in BOOLEAN :
        Asynchronous(policy, q, np, is_new) \subseteq Foreground(policy, q, np, is_new)

\* A query without a filter asks the same of old servers, as the scan it is
\* converted to (convert_query_to_scan), as of new ones.
ScanAsQuery ==
    kind = "query" /\ ~HasWhere(q) /\ ~q.ops.on /\ q.apply.function = 0 =>
        \A policy \in Policies, np \in Shares(q) : policy.expected_duration = "LONG" =>
            aerospike_query_foreach(policy, q, np, FALSE) = aerospike_query_foreach(policy, q, np, TRUE)

HasBlob(obj) == \E i \in DOMAIN Where(obj) : Where(obj)[i].dtype = "BLOB"

\* What is loaded is what was saved: it compares equal when no room was left over
\* in the lists, it makes the same requests, and asks every partition that was to
\* be asked (as_query_to_bytes, as_query_from_bytes, as_query_compare).  A filter on a
\* blob is left out: see ResumedBlob.
IsAs(r, obj) ==
    LET made == [obj EXCEPT !.select.capacity = Len(obj.select.list), !.where.capacity = Len(obj.where.list)]
    IN  /\ r.ok /\ Compare(r.q, made)
        /\ \A policy \in Policies, np \in Shares(r.q), is_new \in BOOLEAN :
             Foreground(policy, r.q, np, is_new) = Foreground(policy, obj, np, is_new)
        /\ \A i \in DOMAIN obj.parts.list : (obj.parts.retry \/ obj.parts.list[i].retry) => r.q.parts.retry \/ r.q.parts.list[i].retry
ResumedIs(obj) == IsAs(FromBytes(ToBytes(obj)), obj)
Resumed == saved # <<>> /\ ~HasBlob(q) => ResumedIs(q)

\* The same of every query the API lets one build.  It does not hold: a filter on a
\* blob is saved and then refused by the range check of its datatype.
ResumedBlob == saved # <<>> /\ ~refused => ResumedIs(q)

\* Bytes that were cut short are not taken for a query (as_query_from_bytes,
\* as_scan_from_bytes: "true on success and false on failure"), and what was read so
\* far is destroyed without a look at memory that was never set.  Left out of the
\* second half are operations, see CutSafely, and a predicate whose value the API
\* refused to store.
Cut(n) == FromBytes(SubSeq(saved, 1, n))
TruncatedRefused ==
    \A n \in 0..Len(saved) - 1 : LET r == Cut(n) IN ~r.ok /\ (~refused /\ ~q.ops.on => r.unset = {})

\* The same with operations.  It does not hold: the operations are allocated when their
\* flag was read and their list is set when their number was, so a cut between the two
\* hands as_operations_destroy a list that was never set.
CutSafely == \A n \in 0..Len(saved) - 1 : ~refused => Cut(n).unset = {}
=============================================================================
