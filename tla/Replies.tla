------------------------------ MODULE Replies ------------------------------
(***************************************************************************)
(* The answers to the commands on one record: how the client reads them,   *)
(* what it gives to its user, what the transaction remembers of them and   *)
(* who owns the values it allocates (as_command.c, as_event.c).            *)
(*                                                                         *)
(* An answer is [proto, size, rc, fields, ops].  A field is [type, len, v],*)
(* an operation [name, type, v, good]: "good" says whether a list can be   *)
(* deserialised, "v" is the bytes of an integer, the parts between the     *)
(* colons of a string, and a token of anything else.                       *)
(***************************************************************************)
EXTENDS TxnHash, SequencesExt

CONSTANTS Digests, Versions, Setups, Ids   \* Ids: values alive at a time, a bound

VARIABLES which,   \* the setup
          s        \* [txn, rec, val, given, heap, last]

vars == <<which, s>>

\* What the user does and what the server may answer.
setup == Setups[which]

OK == "OK"
CLIENT == "ERR_CLIENT"
UDF == "ERR_UDF"

Zeros(n) == [i \in 1..n |-> 0]
AS_NAMESPACE_MAX_SIZE == 32
AS_SET_MAX_SIZE == 64
AS_DIGEST_VALUE_SIZE == 20

\* A record: the user's pointer is NULL, or leads to a record, or to one that is freed.
NoValue == [type |-> "none", v |-> <<>>, id |-> 0]
NoRecord == [is |-> "null", size |-> 0, bins |-> <<>>]
NewRecord(n) == [is |-> "live", size |-> 0, bins |-> [i \in 1..n |-> NoValue]]

Held(rec) == {rec.bins[i].id : i \in 1..rec.size} \ {0}

-----------------------------------------------------------------------------
(* Values.                                                                  *)

\* The eight bytes of an integer.  A negative number of less than eight bytes is
\* copied behind its sign to a buffer that is not used: the eight bytes are those
\* of the message, its next ones included.
as_command_bytes_to_int(buf, beyond) ==
    LET sz == Len(buf)
    IN  IF sz > 0 /\ sz < 8 /\ buf[1] >= 128 THEN SubSeq(buf \o beyond, 1, 8) ELSE Zeros(8 - sz) \o buf

\* Types whose value is in the bin or shared: they need no memory.
Inline == {"nil", "bool", "int", "double"}

Fresh(t) == Min(Ids \ t.heap)

\* as_command_parse_value, and a bin's value in as_command_parse_bins.
ValueOf(t, op, deserialize) ==
    [type |-> IF op.type = "list" /\ ~deserialize THEN "bytes" ELSE op.type,
     v |-> IF op.type = "int" THEN as_command_bytes_to_int(op.v, setup.beyond) ELSE op.v,
     id |-> IF op.type \in Inline THEN 0 ELSE Fresh(t)]

Allocated(t, value) == [t EXCEPT !.heap = @ \cup ({value.id} \ {0})]
Destroyed(t, ids) == [t EXCEPT !.heap = @ \ ids]

as_command_parse_value(t, op) == IF op.type = "list" /\ ~op.good THEN NoValue ELSE ValueOf(t, op, TRUE)

\* [status, s, rec]: the bins before the one that fails stay in the record.
BadListAsBytes(acc, op, i, deserialize) ==  \* mutant
    LET value == ValueOf(acc.s, op, deserialize)
    IN  [acc EXCEPT !.s = Allocated(acc.s, value), !.rec.bins[i] = value, !.rec.size = @ + 1]
ParseBin(acc, op, i, deserialize) ==
    LET value == ValueOf(acc.s, op, deserialize)
    IN  CASE acc.status # OK -> acc
          [] acc.status = OK /\ op.type = "list" /\ deserialize /\ ~op.good -> [acc EXCEPT !.status = CLIENT]
          [] OTHER -> [acc EXCEPT !.s = Allocated(acc.s, value), !.rec.bins[i] = value, !.rec.size = @ + 1]

as_command_parse_bins(t, rec, ops, deserialize) ==
    FoldLeft(LAMBDA acc, i : ParseBin(acc, ops[i], i, deserialize),
             [status |-> OK, s |-> t, rec |-> [rec EXCEPT !.size = 0]], [i \in DOMAIN ops |-> i])

\* [status, value]: the bin of the answer to a function.
as_command_parse_success_failure_bins(t, ops, wanted) ==
    LET first == SelectInSeq(ops, LAMBDA op : op.name \in {"SUCCESS", "FAILURE"})
    IN  CASE first # 0 /\ ops[first].name = "SUCCESS" ->
                [status |-> OK, value |-> IF wanted THEN as_command_parse_value(t, ops[first]) ELSE NoValue]
          [] OTHER -> [status |-> CLIENT, value |-> NoValue]

\* Behind the last colon there is no other: the code in the message is never found.
BehindLastColon(parts) == <<parts[Len(parts)]>>
as_command_parse_udf_error(status, op) ==
    LET tail == BehindLastColon(op.v)
    IN  IF op.type = "string" /\ Len(op.v) > 1 /\ Len(tail) > 1 THEN tail[Len(tail)] ELSE status

as_command_parse_udf_failure(ops, status) ==
    LET first == SelectInSeq(ops, LAMBDA op : op.name = "FAILURE")
    IN  IF first # 0 THEN as_command_parse_udf_error(status, ops[first]) ELSE status

-----------------------------------------------------------------------------
(* Fields.                                                                  *)

as_command_ignore_fields(msg) == OK

\* [status, txn]
as_command_parse_fields_txn(txn, msg, digest, is_write) ==
    LET of == SelectSeq(msg.fields, LAMBDA f : f.type = "version")
        version == IF of = <<>> THEN 0 ELSE of[Len(of)].v
    IN  CASE \E i \in DOMAIN of : of[i].len # 7 -> [status |-> CLIENT, txn |-> txn]
          [] is_write /\ \A i \in DOMAIN of : of[i].len = 7 ->
                [status |-> OK, txn |-> as_txn_on_write(txn, digest, version, msg.rc)]
          [] OTHER -> [status |-> OK, txn |-> as_txn_on_read(txn, digest, version)]

as_command_parse_fields(t, msg, cmd) ==
    IF ~setup.txn THEN [status |-> as_command_ignore_fields(msg), txn |-> t.txn]
    ELSE as_command_parse_fields_txn(t.txn, msg, cmd.digest, cmd.is_write)

DeadlineField(acc, f) ==
    CASE acc.status # OK \/ f.type # "deadline" -> acc
      [] acc.status = OK /\ f.type = "deadline" /\ f.len = 4 -> [acc EXCEPT !.txn.deadline = f.v]
      [] OTHER -> [acc EXCEPT !.status = CLIENT]
as_command_parse_fields_deadline(t, msg) == FoldLeft(DeadlineField, [status |-> OK, txn |-> t.txn], msg.fields)

\* The key of a record of a query or scan: a longer name is cut, the bytes of the
\* user's key are those behind its type.
KeyField(key, f) ==
    CASE f.type = "digest" -> [key EXCEPT !.digest = Min({f.len, AS_DIGEST_VALUE_SIZE})]
      [] f.type = "namespace" -> [key EXCEPT !.ns = Min({f.len, AS_NAMESPACE_MAX_SIZE - 1})]
      [] f.type = "set" -> [key EXCEPT !.set = Min({f.len, AS_SET_MAX_SIZE - 1})]
      [] f.type = "key" -> [key EXCEPT !.value = f.len - 1]
      [] f.type = "bval" -> [key EXCEPT !.bval = f.v]
      [] OTHER -> key
as_command_parse_key(fields) ==
    FoldLeft(KeyField, [digest |-> 0, ns |-> 0, set |-> 0, value |-> 0, bval |-> 0], fields)

\* The command's own buffer holds the namespace, the set and the digest in this order.
as_event_command_parse_set_digest(cmd) ==
    LET p == IF cmd.sent[1].id = "namespace" THEN Tail(cmd.sent) ELSE cmd.sent
    IN  IF p[1].id = "set" /\ p[2].id = "digest" THEN [status |-> OK, digest |-> p[2].v]
        ELSE [status |-> CLIENT, digest |-> 0]

as_event_command_parse_fields(t, msg, cmd) ==
    LET d == as_event_command_parse_set_digest(cmd)
    IN  CASE ~setup.txn -> [status |-> as_command_ignore_fields(msg), txn |-> t.txn]
          [] setup.txn /\ d.status # OK -> [status |-> d.status, txn |-> t.txn]
          [] OTHER -> as_command_parse_fields_txn(t.txn, msg, d.digest, cmd.is_write)

-----------------------------------------------------------------------------
(* The whole message.                                                       *)

\* "last" is kept where what the user is told is of interest.
Told(t, status, got) == IF setup.txn THEN t ELSE [t EXCEPT !.last = [@ EXCEPT !.status = status, !.got = got]]
Said(t, status) == Told(t, status, <<>>)

Seen(rec) == [i \in 1..rec.size |-> [type |-> rec.bins[i].type, v |-> rec.bins[i].v]]

\* A record given by the user loses its values first, and grows.
Reused(rec, n) == [is |-> "live", size |-> rec.size,
                   bins |-> [i \in 1..Max({n, Len(rec.bins)}) |-> NoValue]]

ReuseKeepsValues(t, cmd, msg) ==  \* mutant
    LET fresh == t.rec.is = "null"
        rec == IF fresh THEN NewRecord(Len(msg.ops)) ELSE Reused(t.rec, Len(msg.ops))
        p == as_command_parse_bins(t, rec, msg.ops, cmd.deserialize)
    IN  IF p.status = OK THEN Told([p.s EXCEPT !.rec = p.rec], OK, Seen(p.rec)) ELSE Said([p.s EXCEPT !.rec = p.rec], p.status)
ResultRecord(t, cmd, msg) ==
    LET fresh == t.rec.is = "null"
        rec == IF fresh THEN NewRecord(Len(msg.ops)) ELSE Reused(t.rec, Len(msg.ops))
        p == as_command_parse_bins(Destroyed(t, Held(t.rec)), rec, msg.ops, cmd.deserialize)
    IN  CASE p.status = OK -> Told([p.s EXCEPT !.rec = p.rec], OK, Seen(p.rec))
          [] p.status # OK /\ fresh ->  \* The user's pointer still leads to it.
                Said([Destroyed(p.s, Held(p.rec)) EXCEPT !.rec = [NewRecord(0) EXCEPT !.is = "freed"]], p.status)
          [] OTHER -> Said([p.s EXCEPT !.rec = p.rec], p.status)

as_command_parse_result(t, cmd, msg) ==
    LET f == as_command_parse_fields(t, msg, cmd)
        k == [t EXCEPT !.txn = f.txn]
    IN  CASE f.status # OK -> Said(t, f.status)
          [] f.status = OK /\ msg.rc = OK /\ cmd.wanted -> ResultRecord(k, cmd, msg)
          [] f.status = OK /\ msg.rc = UDF -> Said(k, as_command_parse_udf_failure(msg.ops, msg.rc))
          [] OTHER -> Said(k, msg.rc)

\* aerospike_key_exists asks for a record without bins.
as_command_parse_header(t, cmd, msg) ==
    LET f == as_command_parse_fields(t, msg, cmd)
        k == [t EXCEPT !.txn = f.txn]
    IN  CASE f.status # OK -> Said(t, f.status)
          [] f.status = OK /\ msg.rc = OK /\ cmd.wanted /\ t.rec.is = "null" -> Said([k EXCEPT !.rec = NewRecord(0)], OK)
          [] OTHER -> Said(k, msg.rc)

as_command_parse_success_failure(t, cmd, msg) ==
    LET f == as_command_parse_fields(t, msg, cmd)
        k == [t EXCEPT !.txn = f.txn]
        b == as_command_parse_success_failure_bins(k, msg.ops, cmd.wanted)
    IN  CASE f.status # OK -> Said(t, f.status)
          [] f.status = OK /\ msg.rc = OK ->
                Told([Allocated(k, b.value) EXCEPT !.val = b.value], b.status,
                     IF b.value.type = "none" THEN <<>> ELSE <<[type |-> b.value.type, v |-> b.value.v]>>)
          [] f.status = OK /\ msg.rc = UDF -> Said([k EXCEPT !.val = NoValue], as_command_parse_udf_failure(msg.ops, msg.rc))
          [] OTHER -> Said([k EXCEPT !.val = NoValue], msg.rc)

as_command_parse_deadline(t, cmd, msg) ==
    LET f == as_command_parse_fields_deadline(t, msg)
    IN  Said([t EXCEPT !.txn = f.txn], IF f.status # OK THEN f.status ELSE msg.rc)

\* The listener may keep a record of the heap; one of the stack dies when it returns.
ListenerRecord(t, cmd, msg) ==
    LET p == as_command_parse_bins(t, NewRecord(Len(msg.ops)), msg.ops, cmd.deserialize)
        gone == Destroyed(p.s, Held(p.rec))
    IN  CASE p.status = OK /\ cmd.heap_rec -> Told([p.s EXCEPT !.given = @ \cup Held(p.rec)], OK, Seen(p.rec))
          [] p.status = OK /\ ~cmd.heap_rec -> Told(gone, OK, Seen(p.rec))
          [] OTHER -> Said(gone, p.status)

as_event_command_parse_result(t, cmd, msg) ==
    LET f == as_event_command_parse_fields(t, msg, cmd)
        k == [t EXCEPT !.txn = f.txn]
    IN  CASE f.status # OK -> Said(t, f.status)
          [] f.status = OK /\ msg.rc = OK -> ListenerRecord(k, cmd, msg)
          [] f.status = OK /\ msg.rc = UDF -> Said(k, as_command_parse_udf_failure(msg.ops, msg.rc))
          [] OTHER -> Said(k, msg.rc)

as_event_command_parse_header(t, cmd, msg) ==
    LET f == as_event_command_parse_fields(t, msg, cmd)
    IN  IF f.status # OK THEN Said(t, f.status) ELSE Said([t EXCEPT !.txn = f.txn], msg.rc)

\* The value dies when the listener returns.
as_event_command_parse_success_failure(t, cmd, msg) ==
    LET f == as_event_command_parse_fields(t, msg, cmd)
        k == [t EXCEPT !.txn = f.txn]
        b == as_command_parse_success_failure_bins(k, msg.ops, TRUE)
    IN  CASE f.status # OK -> Said(t, f.status)
          [] f.status = OK /\ msg.rc = OK ->
                Told(k, b.status, IF b.value.type = "none" THEN <<>> ELSE <<[type |-> b.value.type, v |-> b.value.v]>>)
          [] f.status = OK /\ msg.rc = UDF -> Said(k, as_command_parse_udf_failure(msg.ops, msg.rc))
          [] OTHER -> Said(k, msg.rc)

as_event_command_parse_deadline(t, cmd, msg) == as_command_parse_deadline(t, cmd, msg)

Parsed(t, cmd, msg) ==
    CASE cmd.kind = "result" /\ cmd.sync -> as_command_parse_result(t, cmd, msg)
      [] cmd.kind = "header" /\ cmd.sync -> as_command_parse_header(t, cmd, msg)
      [] cmd.kind = "function" /\ cmd.sync -> as_command_parse_success_failure(t, cmd, msg)
      [] cmd.kind = "deadline" /\ cmd.sync -> as_command_parse_deadline(t, cmd, msg)
      [] cmd.kind = "result" /\ ~cmd.sync -> as_event_command_parse_result(t, cmd, msg)
      [] cmd.kind = "header" /\ ~cmd.sync -> as_event_command_parse_header(t, cmd, msg)
      [] cmd.kind = "function" /\ ~cmd.sync -> as_event_command_parse_success_failure(t, cmd, msg)
      [] OTHER -> as_event_command_parse_deadline(t, cmd, msg)

\* uncompress, and what it must leave behind.
as_proto_decompress(reply) == IF reply.unpacks THEN OK ELSE CLIENT
as_compressed_size_parse(reply) == IF reply.unpacked_huge THEN CLIENT ELSE OK
as_proto_parse(reply) == IF reply.version # 2 \/ reply.size = "huge" THEN CLIENT ELSE OK
as_msg_parse(reply) == IF reply.size = "short" THEN CLIENT ELSE OK

as_command_read_message(t, cmd, reply) ==
    CASE as_proto_parse(reply) # OK \/ reply.size = "zero" -> Said(t, CLIENT)
      [] as_proto_parse(reply) = OK /\ reply.size \in {"full", "short"} /\ reply.proto = "message" ->
            IF as_msg_parse(reply) # OK THEN Said(t, CLIENT) ELSE Parsed(t, cmd, reply)
      [] as_proto_parse(reply) = OK /\ reply.size \in {"full", "short"} /\ reply.proto = "compressed" ->
            IF as_compressed_size_parse(reply) # OK \/ as_proto_decompress(reply) # OK THEN Said(t, CLIENT)
            ELSE Parsed(t, cmd, reply)
      [] OTHER -> Said(t, CLIENT)

\* A packed answer takes the place of the buffer of the command.
as_event_decompress(t, cmd, reply) ==
    IF as_compressed_size_parse(reply) # OK \/ as_proto_decompress(reply) # OK THEN Said(t, CLIENT)
    ELSE Parsed(t, cmd, reply)

\* A group of messages: a buffer that is too small is replaced by one of whole pages.
Page == 16
Rounded(size) == ((size + Page - 1) \div Page) * Page
GroupStep(acc, g) ==
    LET capacity == IF g.size > acc.capacity THEN Rounded(g.size) ELSE acc.capacity
        capacity2 == IF g.proto = "compressed" /\ g.size2 > acc.capacity2 THEN Rounded(g.size2) ELSE acc.capacity2
    IN  CASE acc.status # OK \/ g.size = 0 -> acc
          [] acc.status = OK /\ g.size # 0 /\ g.proto = "other" -> [acc EXCEPT !.status = CLIENT]
          [] OTHER -> [status |-> g.status, capacity |-> capacity, capacity2 |-> capacity2,
                       fits |-> acc.fits /\ g.size <= capacity /\ (g.proto = "compressed" => g.size2 <= capacity2)]
as_command_read_messages(groups) ==
    LET r == FoldLeft(GroupStep, [status |-> OK, capacity |-> 0, capacity2 |-> 0, fits |-> TRUE], groups)
    IN  [r EXCEPT !.status = IF @ = "NO_MORE_RECORDS" THEN OK ELSE @]

-----------------------------------------------------------------------------
(* The machine: commands of one thread of the user, one after the other.    *)

Nothing == [cmd |-> <<>>, reply |-> <<>>, stream |-> <<>>, status |-> OK, got |-> <<>>]

Init == /\ which \in DOMAIN Setups
        /\ s = [txn |-> as_txn_init_all, val |-> NoValue, given |-> {}, heap |-> {}, last |-> Nothing,
                rec |-> IF setup.given THEN NewRecord(setup.capacity) ELSE NoRecord]

\* The user keeps to the interface: a value is destroyed before the next one comes.
MayCall(cmd) == s.last = Nothing /\ s.rec.is # "freed" /\ s.val.id = 0 /\ s.given = {} /\ cmd \in setup.commands

Answered(cmd, reply) ==
    /\ MayCall(cmd)
    /\ LET t == IF setup.txn THEN s ELSE [s EXCEPT !.last = [Nothing EXCEPT !.cmd = <<cmd>>, !.reply = <<reply>>]]
       IN  s' = CASE cmd.sync -> as_command_read_message(t, cmd, reply)
                  [] ~cmd.sync /\ reply.proto = "compressed" -> as_event_decompress(t, cmd, reply)
                  [] OTHER -> Parsed(t, cmd, reply)
    /\ UNCHANGED which

\* A batch, scan or query reads until a group ends it; "got" is how far the names of
\* the last record's key are kept.
Streamed(groups) ==
    /\ s.last = Nothing
    /\ LET r == as_command_read_messages(groups)
           key == as_command_parse_key(groups[1].fields)
       IN  s' = [s EXCEPT !.last = [Nothing EXCEPT !.stream = groups, !.status = IF r.fits THEN r.status ELSE "OVERRUN",
                                                   !.got = <<key.ns, key.set, key.digest, key.value>>]]
    /\ UNCHANGED which

as_event_check_in_doubt(t, cmd) ==
    LET d == as_event_command_parse_set_digest(cmd)
    IN  IF d.status = OK THEN as_txn_on_write_in_doubt(t.txn, d.digest) ELSE t.txn

\* No answer comes to a write that was sent: as_command_prepare_error, or its twin.
Lost(cmd) ==
    /\ MayCall(cmd) /\ setup.txn /\ cmd.is_write /\ cmd.kind # "deadline"
    /\ s' = [s EXCEPT !.last = Nothing,
                      !.txn = IF cmd.sync THEN as_txn_on_write_in_doubt(s.txn, cmd.digest) ELSE as_event_check_in_doubt(s, cmd)]
    /\ UNCHANGED which

\* The commit or the abort is done.
Ended == /\ setup.txn
         /\ s' = [s EXCEPT !.txn = as_txn_clear(@), !.last = Nothing]
         /\ UNCHANGED which

\* The user has seen what it was told.
UserReads == s.last # Nothing /\ s' = [s EXCEPT !.last = Nothing] /\ UNCHANGED which

\* as_val_destroy, as_record_destroy; the next record is as the first.
UserDestroys ==
    /\ \/ s.val.id # 0 \/ s.given # {} \/ s.rec.size > 0
    /\ s' = [Destroyed(s, {s.val.id} \cup s.given \cup Held(s.rec)) EXCEPT
                !.val = NoValue, !.given = {}, !.last = Nothing,
                !.rec = IF setup.given THEN NewRecord(setup.capacity) ELSE NoRecord]
    /\ UNCHANGED which

Next == \/ Ended \/ UserReads \/ UserDestroys
        \/ \E groups \in setup.streams : Streamed(groups)
        \/ \E cmd \in setup.commands : Lost(cmd) \/ \E reply \in setup.replies[cmd.kind] : Answered(cmd, reply)

Spec == Init /\ [][Next]_vars

-----------------------------------------------------------------------------
(* What must hold.                                                          *)

\* The loops of the commit and of the abort meet every key of a table once, and
\* as many as the array allocated for them holds (as_txn_iter_next, n_eles).
IteratesAll ==
    \A t \in {"reads", "writes"} :
        LET h == s.txn[t]
            keys == Iterated([khash |-> h, idx |-> 0, ele |-> NULL])
        IN  /\ Range(keys) = {d \in Digests : as_txn_hash_contains(h, d)}
            /\ Len(keys) = Cardinality(Range(keys)) /\ h.n_eles = Len(keys)

\* Every value the client allocated for an answer, also for one it gave up half
\* way, has one owner: the user's record, its value, a record the listener kept.
ValuesOwned ==
    /\ s.heap = Held(s.rec) \cup ({s.val.id} \ {0}) \cup s.given
    /\ \A i, j \in 1..s.rec.size : i # j /\ s.rec.bins[i].id # 0 => s.rec.bins[i].id # s.rec.bins[j].id

\* The user's pointer never leads to a record that is freed.
RecordLives == s.rec.is # "freed"

SignExtended(buf) == IF buf # <<>> /\ buf[1] >= 128 THEN [i \in 1..(8 - Len(buf)) |-> 255] \o buf ELSE Zeros(8 - Len(buf)) \o buf

\* What an answer says, whoever reads it: an error of the server, the values of the
\* bins, or that it makes no sense.
Meaning(cmd, reply) ==
    LET broken == \/ reply.version # 2 \/ reply.size # "full" \/ reply.proto = "other"
                  \/ reply.proto = "compressed" /\ (~reply.unpacks \/ reply.unpacked_huge)
                  \/ setup.txn /\ cmd.kind # "deadline" /\ \E i \in DOMAIN reply.fields : reply.fields[i].type = "version" /\ reply.fields[i].len # 7
                  \/ cmd.kind = "deadline" /\ \E i \in DOMAIN reply.fields : reply.fields[i].type = "deadline" /\ reply.fields[i].len # 4
        value(op) == [type |-> IF op.type = "list" /\ cmd.kind = "result" /\ ~cmd.deserialize THEN "bytes" ELSE op.type,
                      v |-> IF op.type = "int" THEN SignExtended(op.v) ELSE op.v]
        bins == [i \in DOMAIN reply.ops |-> value(reply.ops[i])]
        good == \A i \in DOMAIN reply.ops : reply.ops[i].type = "list" /\ cmd.deserialize => reply.ops[i].good
    IN  CASE broken -> [status |-> CLIENT, got |-> <<>>]
          [] ~broken /\ reply.rc # OK -> [status |-> reply.rc, got |-> <<>>]
          [] ~broken /\ reply.rc = OK /\ cmd.kind = "result" /\ cmd.wanted ->
                IF good THEN [status |-> OK, got |-> bins] ELSE [status |-> CLIENT, got |-> <<>>]
          [] ~broken /\ reply.rc = OK /\ cmd.kind = "function" ->
                IF reply.ops # <<>> /\ reply.ops[1].name = "SUCCESS"
                THEN [status |-> OK, got |-> IF cmd.wanted /\ reply.ops[1].good THEN <<bins[1]>> ELSE <<>>]
                ELSE [status |-> CLIENT, got |-> <<>>]
          [] OTHER -> [status |-> OK, got |-> <<>>]

\* The first group that is not plainly good decides.
StreamMeaning(groups) ==
    LET ends == {i \in DOMAIN groups : groups[i].size # 0 /\ (groups[i].proto = "other" \/ groups[i].status # OK)}
        g == groups[Min(ends)]
        len(type) == Max({f.len : f \in {f \in Range(groups[1].fields) : f.type = type}} \cup {0})
    IN  [status |-> CASE g.proto = "other" -> CLIENT [] g.proto # "other" /\ g.status = "NO_MORE_RECORDS" -> OK [] OTHER -> g.status,
         got |-> <<Min({len("namespace"), 31}), Min({len("set"), 63}), len("digest"), Max({len("key") - 1, 0})>>]

\* The user is told what the answer says, by a thread that waits and by a listener
\* of an event loop alike; a stream ends with the group that ends it, read into a
\* buffer that holds it.
ToldAsSent ==
    LET told == [status |-> s.last.status, got |-> s.last.got]
    IN  /\ s.last.cmd # <<>> => told = Meaning(s.last.cmd[1], s.last.reply[1])
        /\ s.last.stream # <<>> => told = StreamMeaning(s.last.stream)
=============================================================================
