------------------------------- MODULE MCTxn -------------------------------
(***************************************************************************)
(* Transactions, for TLC.  A behaviour is that of one part: a transaction  *)
(* run by the synchronous functions, one run by the _async ones, or the    *)
(* tables of keys and the values that the answers to commands fill.  The   *)
(* others stay where they start.                                           *)
(***************************************************************************)
EXTENDS TxnCommit

CONSTANT ReplySetups    \* a sequence of setups of Replies

VARIABLE part

VARIABLES a_txn, a_cmd, a_call, a_status, a_rec, a_monitor, a_expired, a_late, a_rolled, a_acked, a_snapshot, a_faults
async_vars ==
    <<a_txn, a_cmd, a_call, a_status, a_rec, a_monitor, a_expired, a_late, a_rolled, a_acked, a_snapshot, a_faults>>

VARIABLES which, s

Digest == {2, 4, 6}     \* all in one row of the tables
InAsync == INSTANCE TxnCommit
    WITH Async <- TRUE, txn <- a_txn, cmd <- a_cmd, call <- a_call, status <- a_status, rec <- a_rec,
         monitor <- a_monitor, expired <- a_expired, late <- a_late, rolled <- a_rolled, acked <- a_acked,
         snapshot <- a_snapshot, faults <- a_faults
Reply == INSTANCE Replies
    WITH n_rows <- 2, Addresses <- {1, 2}, Digests <- Digest, Versions <- {1, 2}, Setups <- ReplySetups, Ids <- 1..4

-----------------------------------------------------------------------------
(* Commands and answers: one setup with a transaction whose keys fall into  *)
(* one row of the tables, and setups about the values of an answer.         *)

\* The operators of Replies, apart from the setups that are made with them.
Cases == INSTANCE Replies
    WITH n_rows <- 2, Addresses <- {1, 2}, Digests <- Digest, Versions <- {1, 2}, Setups <- <<>>, Ids <- 1..4

Cmd(kind, sync, digest, is_write) ==
    [kind |-> kind, sync |-> sync, digest |-> digest, is_write |-> is_write, wanted |-> TRUE, deserialize |-> TRUE,
     heap_rec |-> FALSE,
     sent |-> <<[id |-> "namespace", v |-> 0], [id |-> "set", v |-> 0], [id |-> "digest", v |-> digest]>>]

Full(rc, fields, ops) ==
    [proto |-> "message", version |-> 2, size |-> "full", unpacks |-> TRUE, unpacked_huge |-> FALSE,
     rc |-> rc, fields |-> fields, ops |-> ops]

Version(v) == <<[type |-> "version", len |-> 7, v |-> v]>>
Op(name, type, v) == [name |-> name, type |-> type, v |-> v, good |-> TRUE]
BadList == [Op("b", "list", <<9>>) EXCEPT !.good = FALSE]

InTxn ==
    [txn |-> TRUE, given |-> FALSE, capacity |-> 0, beyond |-> Cases!Zeros(8), streams |-> {},
     commands |-> {[Cmd("header", d % 4 = 0, d, FALSE) EXCEPT !.wanted = FALSE] : d \in Digest}
                  \cup {[Cmd("header", d % 4 = 0, d, TRUE) EXCEPT !.wanted = FALSE] : d \in Digest \ {6}},
     replies |-> [kind \in {"header"} |->
         {Full(Cases!OK, f, <<>>) : f \in {<<>>, <<[type |-> "version", len |-> 3, v |-> 1]>>} \cup {Version(v) : v \in {1, 2}}}
         \cup {Full("NOT_FOUND", <<>>, <<>>)}]]

Ints == {<<>>, <<127>>, <<1, 200>>, <<255, 255, 255, 255, 255, 255, 255, 254>>}
Lists == {<<>>, <<Op("a", "string", <<1>>), Op("b", "list", <<2>>), Op("c", "nil", <<>>)>>}
Successes == {<<Op("SUCCESS", "string", <<4>>)>>, <<[Op("SUCCESS", "list", <<4>>) EXCEPT !.good = FALSE]>>,
              <<Op("FAILURE", "string", <<7, 8, 9>>)>>, <<Op("a", "int", <<1>>)>>, <<>>}
Broken(r) ==
    {[r EXCEPT !.version = 1], [r EXCEPT !.size = "zero"], [r EXCEPT !.size = "huge"], [r EXCEPT !.size = "short"],
     [r EXCEPT !.proto = "other"]}
Packed(r) == {[r EXCEPT !.proto = "compressed"], [r EXCEPT !.proto = "compressed", !.unpacks = FALSE],
              [r EXCEPT !.proto = "compressed", !.unpacked_huge = TRUE]}

Group(proto, size, size2, rc) ==
    [proto |-> proto, size |-> size, size2 |-> size2, status |-> rc,
     fields |-> <<[type |-> "namespace", len |-> size, v |-> 0], [type |-> "set", len |-> size2, v |-> 0],
                  [type |-> "digest", len |-> 20, v |-> 0], [type |-> "key", len |-> size + 1, v |-> 0]>>]
Lasts == {Group("message", 17, 0, "NO_MORE_RECORDS"), Group("compressed", 3, 70, "NO_MORE_RECORDS"),
          Group("message", 16, 0, "ERR_SERVER"), Group("other", 1, 0, Cases!OK)}
Streams == {<<g, Group("message", 0, 0, Cases!OK), h, l>> :
                g, h \in {Group("message", 5, 0, Cases!OK), Group("compressed", 40, 64, Cases!OK)}, l \in Lasts}

Values(sync, given, more) ==
    [txn |-> FALSE, given |-> given, capacity |-> 1, beyond |-> Cases!Zeros(8), streams |-> IF given THEN Streams ELSE {},
     commands |-> {[Cmd("result", sync, 2, FALSE) EXCEPT !.deserialize = d, !.heap_rec = h]  :
                       d \in BOOLEAN, h \in IF sync THEN {FALSE} ELSE BOOLEAN}
                  \cup {Cmd("function", sync, 2, TRUE), Cmd("header", sync, 2, FALSE), Cmd("deadline", sync, 2, TRUE)}
                  \cup (IF sync THEN {[Cmd("function", TRUE, 2, TRUE) EXCEPT !.wanted = FALSE]} ELSE {}),
     replies |-> [kind \in {"result", "function", "header", "deadline"} |->
         LET plain == CASE kind = "result" -> {Full(Cases!OK, <<>>, ops) :
                                              ops \in Lists \cup {<<Op("i", "int", v)>> : v \in Ints} \cup more}
                        [] kind = "function" -> {Full(rc, <<>>, ops) : rc \in {Cases!OK, Cases!UDF}, ops \in Successes}
                        [] kind = "header" -> {Full(Cases!OK, <<>>, <<>>)}
                        [] OTHER -> {Full(Cases!OK, <<[type |-> "deadline", len |-> n, v |-> 9]>>, <<>>) : n \in {4, 8}}
             refused == {Full("NOT_FOUND", <<>>, <<>>)}
             torn == IF sync /\ kind = "header" THEN UNION {Broken(r) : r \in refused} ELSE {}
         IN  plain \cup refused \cup torn
             \cup (IF kind = "result" THEN UNION {Packed(Full(Cases!OK, <<>>, ops)) : ops \in Lists} ELSE {})]]

Torn == {<<Op("a", "string", <<1>>), BadList, Op("c", "string", <<3>>)>>}

AllReplies == <<InTxn, Values(TRUE, FALSE, {}), Values(TRUE, TRUE, Torn), Values(FALSE, FALSE, Torn)>>
\* A refused answer after half of its bins; a short negative integer.
DanglingReplies == <<Values(TRUE, FALSE, Torn)>>
NegativeReplies == <<Values(TRUE, TRUE, {<<Op("i", "int", <<255>>)>>})>>

-----------------------------------------------------------------------------
all_vars == <<part, vars, async_vars, which, s>>

TxnInit ==
    /\ part \in {"sync", "async", "replies"}
    /\ Init /\ InAsync!Init /\ Reply!Init
    /\ part # "replies" => which = 1

TxnNext ==
    \/ part = "sync" /\ Next /\ UNCHANGED <<part, async_vars, which, s>>
    \/ part = "async" /\ InAsync!Next /\ UNCHANGED <<part, vars, which, s>>
    \/ part = "replies" /\ Reply!Next /\ UNCHANGED <<part, vars, async_vars>>

\* The fairness of TxnCommit for the synchronous functions; nothing is asked of
\* the others.
TxnSpec ==
    /\ TxnInit /\ [][TxnNext]_all_vars
    /\ WF_vars(part = "sync" /\ CallSteps)
    /\ WF_vars(part = "sync" /\ Server)
    /\ \A k \in Key : WF_vars(part = "sync" /\ Write(k))

-----------------------------------------------------------------------------
(* Properties.  AllOrNothing, CommitHolds, AbortHolds, Covered,             *)
(* ReadsAreSnapshot and EventuallyResolved are those of TxnCommit.          *)

\* The _async functions, too, give all writes the same fate, and keep every
\* acknowledged write of a commit they report as done.
AsyncHolds == InAsync!AllOrNothing /\ InAsync!CommitHolds

\* The rows and chains of as_txn_hash behave as the sets of keys that the
\* transaction promises to keep: no key is lost, kept twice or given the version of
\* another.  This is the abstract specification TxnSets, implemented by the tables.
Sets == INSTANCE TxnSets WITH
    Digests <- Digest, Versions <- {1, 2},
    reads <- [d \in Digest |-> IF part = "replies" THEN Reply!as_txn_get_read_version(s.txn, d) ELSE 0],
    writes <- IF part = "replies" THEN {d \in Digest : Reply!as_txn_writes_contain(s.txn, d)} ELSE {}
KeepsSets == Sets!Spec

\* The user is told what an answer says, by a thread that waits and by a listener
\* of an event loop alike; every value allocated for an answer, also for one given
\* up half way, has one owner; and the loops of the commit and of the abort meet every
\* key that the answers put into the tables once.
ToldAsSent == part = "replies" => Reply!ToldAsSent /\ Reply!ValuesOwned /\ Reply!IteratesAll
=============================================================================
