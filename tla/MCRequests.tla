----------------------------- MODULE MCRequests -----------------------------
(***************************************************************************)
(* What requests say, for TLC.  A behaviour is that of one part: a batch   *)
(* that is split, sent and retried, commands on single records in one      *)
(* transaction, or a query or scan that is built, sent, saved and resumed. *)
(* The others stay where they start.                                       *)
(***************************************************************************)
EXTENDS BatchCommand

CONSTANTS KeySetups, QueryPreds, QueryUdfs, QueryOpLists

VARIABLE part

VARIABLES key_setup, key_txn, cmd, sent      \* KeyCommand
key_vars == <<key_setup, key_txn, cmd, sent>>

VARIABLES kind, q, refused, saved        \* QueryObject
query_vars == <<kind, q, refused, saved>>

OnKeys == INSTANCE KeyCommand WITH Setups <- KeySetups, Keys <- {1, 2}, Deadline <- 7, setup <- key_setup, txn <- key_txn
Queries == INSTANCE QueryObject
    WITH Kinds <- {"query", "scan"}, Names <- {3, 16}, Preds <- QueryPreds, Udfs <- QueryUdfs, OpLists <- QueryOpLists

-----------------------------------------------------------------------------
(* Batches.  Three nodes hold the three replicas of every key; the first    *)
(* three keys have node 1 as master and the others in different orders, so  *)
(* that a retry splits their command.  A fourth key is elsewhere, a fifth   *)
(* is in a namespace without copies.                                       *)

Order(a, b, c) == [r \in Slot |-> << a, b, c >>[r + 1]]
MCOwners == << Order(1, 2, 3), Order(1, 3, 2), Order(1, 2, 3), Order(2, 1, 3), Order(1, 0, 0) >>
MCRack == << 1, 2, 2 >>

Policy == [replica |-> "SEQUENCE", read_mode_ap |-> "ONE", read_mode_sc |-> "SESSION",
           respond_all_keys |-> TRUE, concurrent |-> FALSE, max_retries |-> 1, compress |-> FALSE]

RowPol(id) == [id |-> id, filter |-> 0, key |-> "DIGEST", durable_delete |-> FALSE, commit_level |-> "ALL",
               gen |-> "IGNORE", exists |-> "IGNORE", on_locking_only |-> FALSE,
               read_mode_ap |-> "ONE", read_mode_sc |-> "SESSION"]
NoPolicy == RowPol(0)
Sends == [RowPol(1) EXCEPT !.key = "SEND", !.filter = 6, !.exists = "CREATE", !.gen = "EQ"]
Locks == [RowPol(2) EXCEPT !.on_locking_only = TRUE, !.durable_delete = TRUE, !.commit_level = "MASTER"]
Linear == [RowPol(3) EXCEPT !.filter = 8, !.read_mode_sc = "LINEARIZE", !.read_mode_ap = "ALL"]

KeyAt(o) == [ns |-> 4, set |-> 3, val |-> [type |-> "string", len |-> o], digest |-> o]

Bin(op, name, type) == [op |-> op, name |-> name, type |-> type, len |-> 5]
Writes == [id |-> 1, list |-> << Bin("WRITE", 2, "string"), Bin("READ", 0, "nil") >>]
Writes2 == [id |-> 2, list |-> << Bin("INCR", 2, "integer") >>]
ReadList == [id |-> 3, list |-> << Bin("READ", 0, "nil"), Bin("CDT_READ", 2, "list") >>]
Bins == [id |-> 4, list |-> << 1, 2 >>]
Udf(id) == [id |-> id, module |-> 2, function |-> id, args |-> 3]

Rec(type, o, policy, ops, names, all) ==
    [type |-> type, key |-> KeyAt(o), policy |-> policy, ops |-> ops, names |-> names, all |-> all,
     udf |-> Udf(1), has_write |-> type \notin {"read", "verify"}]

ReadAll(o) == Rec("read", o, NoPolicy, NoOps, NoNames, TRUE)
ReadOps(o) == Rec("read", o, Linear, ReadList, NoNames, FALSE)
ReadBins(o) == Rec("read", o, NoPolicy, NoOps, Bins, FALSE)
Write(o) == Rec("write", o, NoPolicy, Writes, NoNames, FALSE)
WriteSent(o) == Rec("write", o, Sends, Writes, NoNames, FALSE)
WriteOther(o) == Rec("write", o, Locks, Writes2, NoNames, FALSE)
Apply(o) == Rec("apply", o, NoPolicy, NoOps, NoNames, FALSE)
ApplyOther(o) == [Rec("apply", o, Locks, NoOps, NoNames, FALSE) EXCEPT !.udf = Udf(2)]
Removal(o) == Rec("remove", o, NoPolicy, NoOps, NoNames, FALSE)
RemoveSent(o) == Rec("remove", o, Sends, NoOps, NoNames, FALSE)
Verify(o) == Rec("verify", o, NoPolicy, NoOps, NoNames, FALSE)
Roll(o) == Rec("roll", o, NoPolicy, NoOps, NoNames, FALSE)
BadWrite(o) == Rec("write", o, NoPolicy, ReadList, NoNames, FALSE)

NoTxn == [on |-> FALSE, deadline |-> 0, reads |-> [d \in 1..4 |-> 0]]
Txn(a, b, c) == [on |-> TRUE, deadline |-> 0, reads |-> << a, b, c, 0 >>]
Deadline == 9
Builder == [batch_any |-> TRUE, filter |-> 0, txn |-> NoTxn, versions |-> <<>>, txn_attr |-> {},
            defs |-> [type \in {"write", "apply", "remove"} |-> RowPol(4)], bitmap |-> {}]

In(batch, sc, leaving) == [sc |-> sc, leaving |-> leaving] @@ batch
Plain(batch) == In(batch, FALSE, 0)

Of(f(_), g(_), h(_)) == << f(1), g(2), h(3) >>
Same(f(_)) == Of(f, f, f)

SendsKey == [Builder EXCEPT !.bitmap = {"BATCH_WRITE_SEND_KEY"}, !.defs.write.key = "SEND"]
Filtered == [Builder EXCEPT !.filter = 7]
Old == [Builder EXCEPT !.batch_any = FALSE, !.filter = 7]

\* Every kind of record and every way to repeat.
Uniform == { Same(ReadAll), Same(ReadOps), Same(ReadBins), Same(Write), Same(WriteSent), Same(Apply), Same(Removal),
             Same(RemoveSent) }
Mixed == { Of(WriteOther, Write, Write), Of(WriteOther, WriteOther, ReadBins), Of(Write, WriteSent, WriteSent),
           Of(Apply, Apply, ApplyOther), Of(Removal, Removal, Write), Of(ReadAll, ReadAll, ReadOps),
           Of(ReadBins, Write, ReadAll), Of(BadWrite, Write, Write) }

\* Synchronous writes stay with the master here; see InDoubtSetups.
ToMaster == [Policy EXCEPT !.replica = "MASTER"]
WritesIn(records) == \E o \in DOMAIN records : records[o].has_write
Sync(bb, txn, records) ==
    Plain(IF WritesIn(records) THEN aerospike_batch_write(ToMaster, bb, txn, records, Deadline)
          ELSE aerospike_batch_read(Policy, bb, txn, records))
AsyncBy(policy, bb, txn, records) ==
    Plain(IF WritesIn(records) THEN aerospike_batch_write_async(policy, bb, txn, records, Deadline)
          ELSE aerospike_batch_read_async(policy, bb, txn, records))
Async(bb, txn, records) == AsyncBy(Policy, bb, txn, records)

\* Records of one kind are not retried, except whole reads and writes.
Once == [Policy EXCEPT !.max_retries = 0]

Rows == { AsyncBy(Once, Builder, NoTxn, records) : records \in Uniform }
        \cup { Async(Builder, NoTxn, records) : records \in Mixed \cup {Same(ReadAll), Same(Write)} }
        \cup { Sync(SendsKey, NoTxn, records) : records \in Mixed }
        \cup { Async(SendsKey, NoTxn, records) :
               records \in {Same(Write), Of(ReadBins, Write, ReadAll)} }
        \cup UNION { {Async(Old, NoTxn, records), Sync(Old, NoTxn, records)} :
                     records \in {Same(ReadAll), Of(ReadBins, ReadBins, ReadAll), Same(Write)} }

\* A record that is alone, with and without a filter of the batch.
OneRecord == UNION { {Async(bb, txn, << r >>), Sync(bb, txn, << r >>)} :
                     bb \in {Builder, Filtered}, txn \in {NoTxn, Txn(5, 0, 0)},
                     r \in {ReadAll(1), ReadOps(1), ReadBins(1), Write(1), WriteSent(1), WriteOther(1), Apply(1),
                            ApplyOther(1), Removal(1), RemoveSent(1)} }

\* The functions that take keys.
Keys == << KeyAt(1), KeyAt(2), KeyAt(3) >>
OfKeys(bb, txn) ==
    { Plain(aerospike_batch_get(Policy, bb, txn, Keys, NoPolicy)),
      Plain(aerospike_batch_get_bins(Policy, bb, txn, Keys, NoPolicy, Bins)),
      Plain(aerospike_batch_get_ops(Policy, bb, txn, Keys, NoPolicy, ReadList)),
      Plain(aerospike_batch_exists(Policy, bb, txn, Keys, NoPolicy)) }
WriteKeys(bb, txn) ==
    { Plain(aerospike_batch_operate(ToMaster, bb, txn, Keys, NoPolicy, p, ops, Deadline)) :
      p \in {Sends, Locks}, ops \in {Writes, ReadList} }
    \cup { Plain(aerospike_batch_apply(ToMaster, bb, txn, Keys, Locks, Udf(1), Deadline)),
           Plain(aerospike_batch_remove(ToMaster, bb, txn, Keys, Sends, Deadline)) }
KeyCalls == OfKeys(Builder, NoTxn) \cup OfKeys(Old, NoTxn) \cup WriteKeys(Filtered, NoTxn)
            \cup OfKeys(Builder, Txn(0, 0, 0)) \cup WriteKeys(Builder, Txn(0, 0, 0))

\* Transactions: rows with and without a version read, verify and roll.
Read123 == Txn(5, 5, 6)
InTxns == { Async(Builder, Txn(5, 5, 0), Same(ReadAll)), Sync(Builder, Txn(5, 0, 0), Same(Write)),
            Plain(as_txn_verify(Policy, Builder, Read123, NoPolicy, Keys)),
            Plain(as_txn_verify_async(Policy, Builder, Read123, NoPolicy, Keys)),
            Plain(as_txn_roll(ToMaster, Builder, Txn(5, 0, 0), NoPolicy, Keys, {"TXN_ROLL_FORWARD"})),
            Plain(as_txn_roll_async(ToMaster, Builder, Txn(5, 0, 0), NoPolicy, << KeyAt(1), KeyAt(2), KeyAt(4) >>,
                                    {"TXN_ROLL_BACK"})) }

\* Where the commands go: the replica policies, threads, a node that leaves.
Linearized(replica) == [Policy EXCEPT !.replica = replica, !.read_mode_sc = "LINEARIZE"]
Threads(b) == [ToMaster EXCEPT !.concurrent = b, !.respond_all_keys = b]
Routes == UNION { { In(aerospike_batch_read(Linearized(replica), Builder, NoTxn, Same(ReadAll)), TRUE, n),
                    In(aerospike_batch_read_async(Linearized(replica), Builder, NoTxn, Same(ReadAll)), TRUE, n),
                    In(aerospike_batch_get(Linearized(replica), Builder, NoTxn, Keys, NoPolicy), TRUE, n) } :
                  replica \in {"MASTER", "SEQUENCE", "PREFER_RACK"}, n \in {0, 1} }
          \cup { In(aerospike_batch_write(Threads(b), Builder, NoTxn, << Write(1), Write(2), Write(4) >>, Deadline),
                    FALSE, n) : b \in BOOLEAN, n \in {0, 2} }

\* Requests that are compressed, which may fail.
Deflated == [Policy EXCEPT !.compress = TRUE]
Packed == { AsyncBy(Deflated, Builder, NoTxn, Same(ReadOps)), AsyncBy([Deflated EXCEPT !.max_retries = 0], Builder, NoTxn, Same(Write)),
            Plain(aerospike_batch_write([ToMaster EXCEPT !.compress = TRUE], Builder, NoTxn, Same(Write), Deadline)) }

MCSetups == Rows \cup OneRecord \cup KeyCalls \cup InTxns \cup Routes \cup Packed

\* Writes of which a part cannot be compressed when the command is split.
PackedSetups == { AsyncBy(Deflated, Filtered, NoTxn, Same(Write)) }

\* A write that has no node left when it is tried again.
LostNodeSetups == { In(aerospike_batch_write_async(Policy, Builder, NoTxn, << Write(1), Write(5) >>, Deadline), FALSE, 1) }

\* Synchronous writes that may be retried on another node.
InDoubtSetups == { Plain(aerospike_batch_write(Policy, Builder, NoTxn, Same(Write), Deadline)) }

\* A retry on the node of the first attempt.
ResentSetups == { Plain(aerospike_batch_write(ToMaster, Builder, NoTxn, Same(Write), Deadline)) }

\* Keys in a transaction of which some were read.
VersionSetups == { Plain(aerospike_batch_remove(ToMaster, Builder, Read123, << KeyAt(1), KeyAt(4), KeyAt(2) >>, Sends,
                                                Deadline)) }

\* Asynchronous writes of a transaction.
AsyncTxnSetups == { Async(Builder, Txn(0, 0, 0), Same(Write)) }

-----------------------------------------------------------------------------
(* Calls on single records: every API function with each policy that shapes *)
(* its request, alone; and pairs of calls in one transaction.               *)

OwnPolicy == [txn |-> FALSE, key |-> "DIGEST", filter |-> 0, compress |-> FALSE, exists |-> "IGNORE",
          gen |-> "IGNORE", commit_level |-> "ALL", durable_delete |-> FALSE, on_locking_only |-> FALSE,
          read_mode_ap |-> "ONE", read_mode_sc |-> "SESSION", replica |-> "SEQUENCE",
          respond_all_ops |-> FALSE]

KeyOf(k, type) == [ns |-> 4, set |-> k, digest |-> k, val |-> [type |-> type, len |-> 7]]

OpOn(op, name, type) == [op |-> op, name |-> name, type |-> type, len |-> 90]

Call(api, async, policy, key, bins) ==
    [api |-> api, async |-> async, policy |-> policy, key |-> key, bins |-> bins, sc |-> TRUE,
     udf |-> [module |-> 3, function |-> 2, args |-> 6]]

Apis == {"get", "exists", "select", "select_bins", "put", "remove", "operate", "apply"}

BinLists ==
    { << OpOn("WRITE", 3, t) >> : t \in {"nil", "bool", "integer", "double", "string", "geojson", "bytes", "list", "invalid"} }
    \cup { <<>>, << OpOn("READ", 0, "nil") >>, << OpOn("READ", 16, "nil") >>,
           << OpOn("MAP_READ", 2, "list"), OpOn("READ", 0, "nil") >>,
           << OpOn("HLL_READ", 2, "bytes"), OpOn("CDT_READ", 1, "list") >>,
           << OpOn("EXP_MODIFY", 2, "map"), OpOn("READ", 1, "nil") >> }

Write1 == << OpOn("WRITE", 3, "string") >>

Policies ==
    { OwnPolicy, [OwnPolicy EXCEPT !.key = "SEND", !.filter = 9, !.replica = "ANY", !.read_mode_sc = "ALLOW_REPLICA"],
      [OwnPolicy EXCEPT !.txn = TRUE, !.compress = TRUE, !.exists = "CREATE", !.gen = "EQ", !.replica = "PREFER_RACK"],
      [OwnPolicy EXCEPT !.txn = TRUE, !.key = "SEND", !.filter = 9, !.exists = "REPLACE", !.gen = "GT",
                    !.durable_delete = TRUE, !.commit_level = "MASTER", !.read_mode_sc = "LINEARIZE"],
      [OwnPolicy EXCEPT !.respond_all_ops = TRUE, !.read_mode_ap = "ALL", !.replica = "PREFER_RACK",
                    !.read_mode_sc = "LINEARIZE", !.on_locking_only = TRUE] }

HandedOn(c) == c.api = "operate" /\ c.async /\ IsWrite(c) /\ c.policy.replica \in {"ANY", "PREFER_RACK"}

AloneCalls == { {Call(api, async, policy, KeyOf(1, type), Write1)} :
           api \in Apis, async \in BOOLEAN, policy \in Policies, type \in {"none", "nil", "integer", "string"} }
         \cup { {Call(api, async, policy, KeyOf(1, "integer"), bins)} :
                api \in {"select", "select_bins", "put", "operate"}, async \in BOOLEAN, policy \in Policies,
                bins \in BinLists }

TxnPolicy == [OwnPolicy EXCEPT !.txn = TRUE]

\* Two or three commands of one transaction: on one key or on two, of both kinds.
SharedCalls == { { Call("put", TRUE, TxnPolicy, KeyOf(1, "none"), Write1),
              Call(api, async, [TxnPolicy EXCEPT !.compress = compress], KeyOf(k, "integer"), Write1) } :
            api \in Apis, async \in BOOLEAN, k \in 1..2, compress \in BOOLEAN }

ThreeCalls == { { Call("get", FALSE, TxnPolicy, KeyOf(1, "none"), Write1),
                  Call("operate", TRUE, [TxnPolicy EXCEPT !.key = "SEND"], KeyOf(1, "string"), Write1),
                  Call(api, async, [TxnPolicy EXCEPT !.filter = 5], [KeyOf(2, "none") EXCEPT !.ns = ns], Write1) } :
                api \in {"put", "remove", "apply"}, async \in BOOLEAN, ns \in {4, 5} }

AllCalls == { s \in AloneCalls \cup SharedCalls \cup ThreeCalls : \A c \in s : ~HandedOn(c) }

\* The calls that hand their replica policy on.
HandedOnCalls == { s \in AloneCalls : \E c \in s : HandedOn(c) }

-----------------------------------------------------------------------------
(* A handful of predicates that between them use every way to build one,    *)
(* two lengths of bin names, one of them too long, a UDF and operations.    *)

Pred(api, type, dtype) ==
    [api |-> api, type |-> type, dtype |-> dtype, itype |-> IF api = "ctx" THEN "LIST" ELSE "DEFAULT",
     bin |-> 3, name |-> 6, ctx |-> 5, exp |-> 10, value |-> 4, max |-> 7]

AllPreds == { Pred("where", "EQUAL", "STRING"), Pred("where", "RANGE", "STRING"), Pred("ctx", "RANGE", "NUMERIC"),
             Pred("index_name", "EQUAL", "NUMERIC"), Pred("exp", "RANGE", "GEO2DSPHERE"), Pred("where", "EQUAL", "BLOB") }
AllUdfs == {[module |-> 2, function |-> 5, args |-> 3], [module |-> 64, function |-> 5, args |-> 0]}
AllOpLists == { [on |-> TRUE, ttl |-> -3, gen |-> 2, list |-> <<[op |-> "WRITE", name |-> 3, type |-> "string", len |-> 8]>>],
               [on |-> TRUE, ttl |-> 0, gen |-> 0, list |-> <<[op |-> "READ", name |-> 3, type |-> "nil", len |-> 0]>>] }

-----------------------------------------------------------------------------
NoCalls == key_setup = {} /\ key_txn = <<>> /\ cmd = <<>> /\ sent = {}
NoQuery == kind = "none" /\ q = <<>> /\ refused = FALSE /\ saved = <<>>
NoBatch ==
    /\ setup = <<>> /\ live = {} /\ recs = <<>> /\ threads = <<>> /\ exec = <<>> /\ applied = {} /\ txnWrites = {}
    /\ call = <<>>

RequestsInit ==
    \/ part = "batch" /\ Init /\ NoCalls /\ NoQuery
    \/ part = "keys" /\ NoBatch /\ OnKeys!Init /\ NoQuery
    \/ part = "query" /\ NoBatch /\ NoCalls /\ Queries!Init

RequestsNext ==
    \/ part = "batch" /\ Next /\ UNCHANGED <<part, key_vars, query_vars>>
    \/ part = "keys" /\ OnKeys!Next /\ UNCHANGED <<part, vars, query_vars>>
    \/ part = "query" /\ Queries!Next /\ UNCHANGED <<part, vars, key_vars>>

RequestsSpec == RequestsInit /\ [][RequestsNext]_<<part, vars, key_vars, query_vars>>

-----------------------------------------------------------------------------
(* Properties.                                                              *)

\* Every request fills the buffer that was sized for it, by the sizing pass that ran
\* before, and its prefixes and counts agree with what follows them: single records,
\* batches of rows that repeat or not, queries and scans by both kinds of functions.
\* Left out is the prefix of the batch field in the parts of a split batch
\* (BatchFieldFits), which as_batch_retry_write writes to the wrong message.
EveryRequestFits ==
    CASE part = "batch" -> RowsFit
      [] part = "keys" -> OnKeys!Framed
      [] OTHER -> Queries!Framed /\ Queries!AsyncAsSync

\* The rows of a batch, read one after the other and with the repeats, say what the
\* records ask for, also those cut out of a batch that was split, and a record that is
\* alone in its group asks for the same (as_batch_retry_async, as_single_execute).  A
\* command of a transaction carries the deadline, to a replica its policy allows.
RequestsMeanRecords ==
    CASE part = "batch" -> RowsMeanRecords /\ AloneAsInBatch
      [] part = "keys" -> OnKeys!DeadlineSent /\ OnKeys!Routed
      [] OTHER -> Queries!ScanAsQuery

\* A record of a batch that is reported with an error or without an answer, and not in
\* doubt, was not written by any of the attempts, unless one sent it again after an
\* error was answered; a write of a transaction that may have been applied is one that
\* the transaction knows of; a batch that returns success has an answer for each
\* record; and no command is left when it returns.
BatchAnswers == part = "batch" => HonestInDoubt /\ OkMeansAnswered /\ NoneLeft /\ TxnCovered

\* A query or scan that is saved and resumed by another process is the one that was
\* saved, and one cut short is refused and destroyed without reading what was never set
\* (as_query_from_bytes, as_scan_from_bytes).  Filters on blobs, and the second half for
\* operations, are left out: QueryObject's ResumedBlob and CutSafely do not hold.
QueryResumed == part = "query" => Queries!Resumed /\ Queries!TruncatedRefused
=============================================================================
