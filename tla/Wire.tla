-------------------------------- MODULE Wire --------------------------------
(***************************************************************************)
(* The request messages of the client, as as_command.c builds them.  A     *)
(* message is the sequence of its parts: the header, the fields, the       *)
(* operations.  A part keeps what the server finds its way by: "len", the  *)
(* bytes written, and "says", the bytes its own length prefix claims.      *)
(* A string is its length, a value is its type and the length of its data, *)
(* the bits of an info byte are a set of names.                            *)
(***************************************************************************)
EXTENDS Integers, Sequences, SequencesExt

AS_HEADER_SIZE == 30
AS_FIELD_HEADER_SIZE == 5
AS_OPERATION_HEADER_SIZE == 8
AS_DIGEST_VALUE_SIZE == 20
AS_COMPRESS_THRESHOLD == 128
AS_BIN_NAME_MAX_LEN == 15

Total(parts) == FoldLeft(LAMBDA n, part : n + part.len, 0, parts)
SumOf(Size(_), seq) == FoldLeft(LAMBDA n, x : n + Size(x), 0, seq)
Opt(condition, part) == IF condition THEN <<part>> ELSE <<>>

-----------------------------------------------------------------------------
(* Fields                                                                   *)

\* as_command_write_field_header: "size" is what the prefix is computed from.
Field(id, size) ==
    [kind |-> "field", id |-> id, len |-> AS_FIELD_HEADER_SIZE + size, says |-> 4 + (size + 1), value |-> 0]

as_command_write_field_string(id, val) == Field(id, val)
as_command_write_field_uint32(id) == Field(id, 4)
as_command_write_field_uint64(id) == Field(id, 8)
as_command_write_field_buffer(id, size) == Field(id, size)
as_command_write_field_digest == Field("digest", AS_DIGEST_VALUE_SIZE)
as_command_write_field_version(ver) == [Field("version", 7) EXCEPT !.value = ver]
as_command_write_field_deadline(deadline) ==
    [as_command_write_field_uint32("deadline") EXCEPT !.value = deadline]
as_exp_write(packed_sz) == Field("filter", packed_sz)

as_command_string_field_size(val) == val + AS_FIELD_HEADER_SIZE
as_command_field_size(size) == size + AS_FIELD_HEADER_SIZE

\* The bytes of a user key's value; every other type is written as nil.
KeyBytes(val) == CASE val.type \in {"integer", "double"} -> 8
                   [] val.type \in {"string", "bytes"} -> val.len
                   [] OTHER -> 0

UserKeySizeNoType(val) == AS_FIELD_HEADER_SIZE + KeyBytes(val)  \* mutant
as_command_user_key_size(val) == AS_FIELD_HEADER_SIZE + 1 + KeyBytes(val)
as_command_write_user_key(val) == Field("key", KeyBytes(val) + 1)

-----------------------------------------------------------------------------
(* Operations                                                               *)

as_command_string_operation_size(name) == name + AS_OPERATION_HEADER_SIZE

\* A list or a map is serialized when it is sized, and the buffer is queued for
\* the writer: both see the same bytes.
as_command_bin_size(bin) ==
    bin.name + 8 + (CASE bin.type = "nil" -> 0
                      [] bin.type = "bool" -> 1
                      [] bin.type \in {"integer", "double"} -> 8
                      [] bin.type = "geojson" -> 3 + bin.len
                      [] OTHER -> bin.len)

Operation(op, name, val_len, written) ==
    [kind |-> "op", id |-> op, len |-> AS_OPERATION_HEADER_SIZE + name + written,
     says |-> 4 + (name + val_len + 4), value |-> 0]

as_command_write_bin_name(name) == Operation("READ", name, 0, 0)

as_command_write_bin(op, bin) ==
    LET v == CASE bin.type = "nil" -> [len |-> 0, written |-> 0]
               [] bin.type = "bool" -> [len |-> 1, written |-> 1]
               [] bin.type \in {"integer", "double"} -> [len |-> 8, written |-> 8]
               [] bin.type = "geojson" -> [len |-> 3 + bin.len, written |-> 1 + 2 + bin.len]
               [] OTHER -> [len |-> bin.len, written |-> bin.len]
    IN  Operation(op, bin.name, v.len, v.written)

-----------------------------------------------------------------------------
(* Headers                                                                  *)

Flag(condition, bit) == IF condition THEN {bit} ELSE {}

Header(n_fields, n_ops, read_attr, write_attr, info_attr, txn_attr) ==
    [kind |-> "header", len |-> AS_HEADER_SIZE, says |-> AS_HEADER_SIZE,
     n_fields |-> n_fields, n_ops |-> n_ops, read_attr |-> read_attr,
     write_attr |-> write_attr, info_attr |-> info_attr, txn_attr |-> txn_attr]

ReadModeBits(read_mode_sc) ==
    CASE read_mode_sc = "LINEARIZE" -> {"SC_READ_TYPE"}
      [] read_mode_sc = "ALLOW_REPLICA" -> {"SC_READ_RELAX"}
      [] read_mode_sc = "ALLOW_UNAVAILABLE" -> {"SC_READ_TYPE", "SC_READ_RELAX"}
      [] OTHER -> {}

as_command_set_attr_read_header(policy) ==
    [read |-> Flag(policy.read_mode_ap = "ALL", "READ_MODE_AP_ALL"),
     info |-> ReadModeBits(policy.read_mode_sc)]

as_command_set_attr_compress(policy) == Flag(policy.compress, "COMPRESS_RESPONSE")

as_command_set_attr_read(policy) ==
    LET attr == as_command_set_attr_read_header(policy)
    IN  [attr EXCEPT !.read = @ \cup as_command_set_attr_compress(policy)]

ExistsBits(exists) == Flag(exists = "UPDATE", "UPDATE_ONLY")
                      \cup Flag(exists = "CREATE_OR_REPLACE", "CREATE_OR_REPLACE")
                      \cup Flag(exists = "REPLACE", "REPLACE_ONLY")

GenBits(gen) == Flag(gen = "EQ", "GENERATION") \cup Flag(gen = "GT", "GENERATION_GT")

as_command_write_header_write(policy, exists, gen, n_fields, n_bins, read_attr, write_attr, info_attr) ==
    Header(n_fields, n_bins, read_attr,
           write_attr \cup Flag(exists = "CREATE", "CREATE_ONLY") \cup GenBits(gen)
                      \cup Flag(policy.durable_delete, "DURABLE_DELETE"),
           info_attr \cup ExistsBits(exists) \cup Flag(policy.commit_level = "MASTER", "COMMIT_MASTER"),
           Flag(policy.on_locking_only, "TXN_ON_LOCKING_ONLY"))

as_command_write_header_read(policy, n_fields, n_bins, read_attr) ==
    LET attr == as_command_set_attr_read(policy)
    IN  Header(n_fields, n_bins, read_attr \cup attr.read, {}, attr.info, {})

as_command_write_header_read_header(policy, n_fields, n_bins, read_attr) ==
    LET attr == as_command_set_attr_read_header(policy)
    IN  Header(n_fields, n_bins, read_attr \cup attr.read, {}, attr.info, {})

-----------------------------------------------------------------------------
(* The key of a single record command.  "tdata" is as_command_txn_data; the *)
(* version is the one the transaction read, 0 when none.                    *)

as_command_key_size(policy, key, send_deadline, version) ==
    LET plain == key.ns + key.set + AS_DIGEST_VALUE_SIZE + 45
        id    == IF policy.txn THEN AS_FIELD_HEADER_SIZE + 8 ELSE 0
        ver   == IF policy.txn /\ version # 0 THEN AS_FIELD_HEADER_SIZE + 7 ELSE 0
        deadline == IF policy.txn /\ send_deadline THEN AS_FIELD_HEADER_SIZE + 4 ELSE 0
        user  == IF policy.key = "SEND" /\ key.val.type # "none" THEN as_command_user_key_size(key.val) ELSE 0
        n(x)  == IF x > 0 THEN 1 ELSE 0
    IN  [size |-> plain + id + ver + deadline + user,
         n_fields |-> 3 + n(id) + n(ver) + n(deadline) + n(user),
         version |-> version,
         send_deadline |-> send_deadline,
         deadline_offset |-> IF deadline > 0 THEN plain + id + ver + AS_FIELD_HEADER_SIZE ELSE 0]

as_command_write_key(policy, key, tdata, deadline) ==
    << as_command_write_field_string("namespace", key.ns),
       as_command_write_field_string("set", key.set),
       as_command_write_field_digest >>
    \o Opt(policy.txn, as_command_write_field_uint64("txn_id"))
    \o Opt(policy.txn /\ tdata.version # 0, as_command_write_field_version(tdata.version))
    \o Opt(policy.txn /\ tdata.send_deadline, as_command_write_field_deadline(deadline))
    \o Opt(policy.key = "SEND" /\ key.val.type # "none", as_command_write_user_key(key.val))

as_command_filter_size(policy) ==
    IF policy.filter > 0 THEN AS_FIELD_HEADER_SIZE + policy.filter ELSE 0

as_command_write_filter(policy) == Opt(policy.filter > 0, as_exp_write(policy.filter))

as_command_write_replica(replica) == IF replica \in {"MASTER", "RANDOM"} THEN replica ELSE "SEQUENCE"

-----------------------------------------------------------------------------
(* A message a server can read: every prefix tells the truth, and the       *)
(* header counts the fields and the operations that follow it.              *)

OfKind(parts, kind) == Len(SelectSeq(parts, LAMBDA part : part.kind = kind))

WellFormed(parts) ==
    /\ \A i \in DOMAIN parts : parts[i].says = parts[i].len
    /\ parts[1].n_fields = OfKind(parts, "field")
    /\ parts[1].n_ops = OfKind(parts, "op")
=============================================================================
