------------------------------ MODULE TxnCommit ------------------------------
(***************************************************************************)
(* A multi-record transaction (as_txn), its commands, aerospike_commit and *)
(* aerospike_abort, synchronous and asynchronous.                          *)
(*                                                                         *)
(* External: the server.  It keeps, per record, a committed version and at *)
(* most one provisional write of this transaction, and the transaction's   *)
(* monitor record, whose key list lets it finish on its own what a client  *)
(* abandons: forward once the monitor is marked, back once the deadline    *)
(* has passed.  A request can fail before it is applied, or stay in doubt: *)
(* applied although the client saw an error, or applied later.             *)
(***************************************************************************)
EXTENDS Integers, FiniteSets

CONSTANTS
    Key,             \* the records
    Async,           \* the _async functions rather than the synchronous ones
    AbortInDoubt,    \* the user may abort although a commit is in doubt
    MaxVersion,      \* bound: committed versions of a record
    MaxFaults        \* bound: requests that fail or stay in doubt

ASSUME TxnAssumption ==
    /\ IsFiniteSet(Key) /\ Key # {} /\ "mark" \notin Key
    /\ {Async, AbortInDoubt} \subseteq BOOLEAN
    /\ MaxVersion \in Nat \ {0} /\ MaxFaults \in Nat

VARIABLES
    txn,       \* as_txn: state, deadline set, in_doubt, write_in_doubt, reads, writes
    cmd,       \* key -> the command in progress on it
    call,      \* the commit or abort in progress
    status,    \* as_commit_status or as_abort_status last returned
    rec,       \* external: key -> record: version, provisional write
    monitor,   \* external: the monitor record: state, keys
    expired,   \* external: the deadline has passed
    late,      \* external: writes and marks that may still arrive
    rolled,    \* history: key -> how its provisional write was resolved
    acked,     \* history: keys with an acknowledged write
    snapshot,  \* history: record versions when the verification began
    faults     \* faults so far

client == <<txn, cmd, call, status>>
server == <<rec, monitor, expired, late, rolled>>
vars == <<client, server, acked, snapshot, faults>>

Versions == 1..MaxVersion

NewCall(pc, todo, roll, verify_err) ==
    [pc |-> pc, todo |-> todo, roll |-> roll, failed |-> FALSE, verify_err |-> verify_err]
NoCall == NewCall("idle", {}, "back", FALSE)

CommitSuccess == {"COMMIT_OK", "ROLL_FORWARD_ABANDONED", "COMMIT_CLOSE_ABANDONED"}
AbortSuccess == {"ABORT_OK", "ROLL_BACK_ABANDONED", "ABORT_CLOSE_ABANDONED"}
Status == CommitSuccess \cup AbortSuccess
            \cup {"none", "VERIFY_FAILED", "MARK_ROLL_FORWARD_ABANDONED"}

Txns == [state : {"OPEN", "VERIFIED", "COMMITTED", "ABORTED"}, deadline : BOOLEAN,
         in_doubt : BOOLEAN, write_in_doubt : BOOLEAN,
         reads : [Key -> {0} \cup Versions], writes : SUBSET Key]
Calls == [pc : {"idle", "verify", "mark", "roll", "remove"}, todo : SUBSET Key,
          roll : {"fwd", "back"}, failed : BOOLEAN, verify_err : BOOLEAN]
Records == [ver : Versions, prov : BOOLEAN]
Monitors == [state : {"none", "open", "fwd", "abort", "closed"}, keys : SUBSET Key]

Types ==
    /\ txn \in Txns /\ cmd \in [Key -> {"none", "write"}] /\ call \in Calls /\ status \in Status
    /\ rec \in [Key -> Records] /\ monitor \in Monitors
    /\ expired \in BOOLEAN
    /\ late \in SUBSET (Key \cup {"mark"})
    /\ rolled \in [Key -> SUBSET {"fwd", "back"}]
    /\ acked \in SUBSET Key
    /\ snapshot \in [Key -> Versions]
    /\ faults \in 0..MaxFaults

\* Types; and a key with an applied write is not verified as a read as well
\* (as_txn_on_write moves the key from the reads to the writes).
TypeOK == Types /\ \A k \in Key : rec[k].prov /\ ~txn.write_in_doubt => txn.reads[k] = 0

\* as_txn_init.
Init ==
    /\ txn = [state |-> "OPEN", deadline |-> FALSE, in_doubt |-> FALSE,
              write_in_doubt |-> FALSE, reads |-> [k \in Key |-> 0], writes |-> {}]
    /\ cmd = [k \in Key |-> "none"]
    /\ call = NoCall
    /\ status = "none"
    /\ rec = [k \in Key |-> [ver |-> 1, prov |-> FALSE]]
    /\ monitor = [state |-> "none", keys |-> {}]
    /\ expired = FALSE
    /\ late = {}
    /\ rolled = [k \in Key |-> {}]
    /\ acked = {}
    /\ snapshot = [k \in Key |-> 1]
    /\ faults = 0

Fault == faults < MaxFaults /\ faults' = faults + 1

-----------------------------------------------------------------------------
(* Commands of the transaction.                                             *)

\* as_txn_verify_command: commands run only while the transaction is open.
MayRun(k) == call.pc = "idle" /\ txn.state = "OPEN" /\ cmd[k] = "none"

\* The version sent with a command must still be the record's.
VersionMatches(k) == txn.reads[k] \in {0, rec[k].ver}

\* as_txn_on_read: remember the version; a provisional record has none.
Read(k) ==
    /\ MayRun(k)
    /\ VersionMatches(k) /\ ~rec[k].prov
    /\ txn' = [txn EXCEPT !.reads[k] = rec[k].ver]
    /\ UNCHANGED <<cmd, call, status, server, acked, snapshot, faults>>

\* as_txn_monitor_add_key: a write first enters its key in the monitor, unless
\* the key was written before, and learns the deadline.
AddKey(k) ==
    /\ MayRun(k)
    /\ cmd' = [cmd EXCEPT ![k] = "write"]
    /\ IF k \in txn.writes
       THEN UNCHANGED <<txn, monitor>>
       ELSE /\ ~expired /\ monitor.state \in {"none", "open"}
            /\ monitor' = [state |-> "open", keys |-> monitor.keys \cup {k}]
            /\ txn' = [txn EXCEPT !.deadline = TRUE]
    /\ UNCHANGED <<call, status, rec, expired, late, rolled, acked, snapshot, faults>>

\* The monitor has the key, but the client saw an error: the write is not sent.
AddKeyFails(k) ==
    /\ MayRun(k) /\ k \notin txn.writes
    /\ ~expired /\ monitor.state \in {"none", "open"}
    /\ Fault
    /\ monitor' = [state |-> "open", keys |-> monitor.keys \cup {k}]
    /\ UNCHANGED <<client, rec, expired, late, rolled, acked, snapshot>>

Provisional(r) == [ver |-> r.ver, prov |-> TRUE]

Applies(k) == ~expired /\ VersionMatches(k)

\* as_txn_on_write: an applied write moves the key from the reads to the writes.
OnWrite(t, k) == [t EXCEPT !.reads[k] = 0, !.writes = @ \cup {k}]

Write(k) ==
    /\ cmd[k] = "write"
    /\ cmd' = [cmd EXCEPT ![k] = "none"]
    /\ IF Applies(k)
       THEN /\ txn' = OnWrite(txn, k)
            /\ rec' = [rec EXCEPT ![k] = Provisional(@)]
            /\ acked' = acked \cup {k}
       ELSE UNCHANGED <<txn, rec, acked>>
    /\ UNCHANGED <<call, status, monitor, expired, late, rolled, snapshot, faults>>

\* as_txn_on_write_in_doubt: the write may have been applied, or be later.
OnWriteInDoubt(t, k) == [OnWrite(t, k) EXCEPT !.write_in_doubt = TRUE]

WriteInDoubt(k) ==
    /\ cmd[k] = "write"
    /\ Fault
    /\ cmd' = [cmd EXCEPT ![k] = "none"]
    /\ txn' = OnWriteInDoubt(txn, k)
    /\ \/ UNCHANGED <<rec, late>>
       \/ Applies(k) /\ rec' = [rec EXCEPT ![k] = Provisional(@)] /\ UNCHANGED late
       \/ Applies(k) /\ late' = late \cup {k} /\ UNCHANGED rec
    /\ UNCHANGED <<call, status, monitor, expired, rolled, acked, snapshot>>

-----------------------------------------------------------------------------
(* aerospike_commit.                                                        *)

Quiet == call.pc = "idle" /\ \A k \in Key : cmd[k] = "none"

ReadKeys == {k \in Key : txn.reads[k] # 0}

\* From OPEN the reads are verified first; from VERIFIED a commit is tried again.
Commit ==
    /\ Quiet
    /\ \/ /\ txn.state = "OPEN"
          /\ call' = NewCall("verify", ReadKeys, "back", FALSE)
          /\ snapshot' = [k \in Key |-> rec[k].ver]
       \/ /\ txn.state = "VERIFIED"
          /\ call' = NewCall("mark", {}, "back", FALSE)
          /\ UNCHANGED snapshot
    /\ UNCHANGED <<txn, cmd, status, server, acked, faults>>

\* as_txn_verify: one request per record read, in any order.
VerifiedAlways(k) == TRUE  \* mutant
Verified(k) == rec[k].ver = txn.reads[k]

VerifyKey(k) ==
    /\ call.pc = "verify" /\ k \in call.todo
    /\ \/ /\ call' = [call EXCEPT !.todo = @ \ {k}, !.failed = @ \/ ~Verified(k)]
          /\ UNCHANGED faults
       \/ /\ Fault
          /\ call' = [call EXCEPT !.todo = @ \ {k}, !.failed = TRUE]
    /\ UNCHANGED <<txn, cmd, status, server, acked, snapshot>>

\* as_verify_and_commit: roll back when the verification failed.
VerifyEnds ==
    /\ call.pc = "verify" /\ call.todo = {}
    /\ IF call.failed
       THEN /\ txn' = [txn EXCEPT !.state = "ABORTED"]
            /\ call' = NewCall("roll", txn.writes, "back", TRUE)
       ELSE /\ txn' = [txn EXCEPT !.state = "VERIFIED"]
            /\ call' = NewCall("mark", {}, "back", FALSE)
    /\ UNCHANGED <<cmd, status, server, acked, snapshot, faults>>

\* From here on the transaction is committed, whatever happens to the rest.
Committed ==
    /\ txn' = [txn EXCEPT !.state = "COMMITTED", !.in_doubt = FALSE]
    /\ call' = NewCall("roll", txn.writes, "fwd", FALSE)

MarkFails(t) ==
    /\ txn' = t
    /\ call' = NoCall
    /\ status' = "MARK_ROLL_FORWARD_ABANDONED"

\* as_txn_monitor_mark_roll_forward, skipped when nothing was written.  Marking
\* twice is fine; a monitor the server gave up answers MRT_ABORTED.
MarkAborted(t) == [t EXCEPT !.in_doubt = FALSE, !.state = "ABORTED"]

MarkSkipped ==  \* mutant
    /\ call.pc = "mark" /\ Committed
    /\ UNCHANGED <<status, cmd, server, acked, snapshot, faults>>
Mark ==
    /\ call.pc = "mark"
    /\ IF ~txn.deadline
       THEN Committed /\ UNCHANGED <<status, monitor>>
       ELSE \/ /\ monitor.state \in {"open", "fwd"}
               /\ monitor' = [monitor EXCEPT !.state = "fwd"]
               /\ Committed /\ UNCHANGED status
            \/ /\ monitor.state \in {"abort", "closed"}
               /\ MarkFails(MarkAborted(txn)) /\ UNCHANGED monitor
    /\ UNCHANGED <<cmd, rec, expired, late, rolled, acked, snapshot, faults>>

\* The mark failed, for sure, or in doubt: then it was applied, or is later.
MarkError ==
    /\ call.pc = "mark" /\ txn.deadline
    /\ Fault
    /\ \/ MarkFails(txn) /\ UNCHANGED <<monitor, late>>
       \/ /\ MarkFails([txn EXCEPT !.in_doubt = TRUE])
          /\ \/ UNCHANGED <<monitor, late>>
             \/ /\ monitor.state = "open"
                /\ monitor' = [monitor EXCEPT !.state = "fwd"] /\ UNCHANGED late
             \/ late' = late \cup {"mark"} /\ UNCHANGED monitor
    /\ UNCHANGED <<cmd, rec, expired, rolled, acked, snapshot>>

-----------------------------------------------------------------------------
(* as_txn_roll, and the end of commit and abort.                            *)

\* A provisional write becomes the next version, or disappears.
Resolved(r, roll) ==
    [ver |-> IF roll = "fwd" /\ r.ver < MaxVersion THEN r.ver + 1 ELSE r.ver, prov |-> FALSE]

Resolve(k, roll) ==
    IF rec[k].prov
    THEN /\ rec' = [rec EXCEPT ![k] = Resolved(@, roll)]
         /\ rolled' = [rolled EXCEPT ![k] = @ \cup {roll}]
    ELSE UNCHANGED <<rec, rolled>>

RollKey(k) ==
    /\ call.pc = "roll" /\ k \in call.todo
    /\ \/ /\ call' = [call EXCEPT !.todo = @ \ {k}]
          /\ Resolve(k, call.roll)
          /\ UNCHANGED <<txn, faults>>
       \/ /\ Fault
          /\ call' = [call EXCEPT !.todo = @ \ {k}, !.failed = TRUE]
          /\ txn' \in {txn, [txn EXCEPT !.write_in_doubt = TRUE]}
          /\ Resolve(k, call.roll) \/ UNCHANGED <<rec, rolled>>
    /\ UNCHANGED <<cmd, status, monitor, expired, late, acked, snapshot>>

Returned(committed, aborted) ==
    /\ status' = IF call.roll = "fwd" THEN committed
                 ELSE IF call.verify_err THEN "VERIFY_FAILED" ELSE aborted
    /\ call' = NoCall

\* as_txn_clear, after a synchronous commit that went all the way.
Clear(t) == [t EXCEPT !.deadline = FALSE, !.reads = [k \in Key |-> 0], !.writes = {}]

Closed(t) == IF call.roll = "fwd" /\ ~Async THEN Clear(t) ELSE t

\* as_txn_close_monitor; the asynchronous listeners always remove the monitor.
CloseMonitorInDoubt == txn.deadline  \* mutant
CloseMonitor == Async \/ (txn.deadline /\ ~txn.write_in_doubt)

RollEnds ==
    /\ call.pc = "roll" /\ call.todo = {}
    /\ IF call.failed
       THEN Returned("ROLL_FORWARD_ABANDONED", "ROLL_BACK_ABANDONED") /\ UNCHANGED txn
       ELSE IF CloseMonitor
       THEN call' = [call EXCEPT !.pc = "remove"] /\ UNCHANGED <<txn, status>>
       ELSE Returned("COMMIT_OK", "ABORT_OK") /\ txn' = Closed(txn)
    /\ UNCHANGED <<cmd, server, acked, snapshot, faults>>

\* as_txn_monitor_remove.
Remove ==
    /\ call.pc = "remove"
    /\ IF monitor.state \in {"none", "closed"}
       THEN Returned("COMMIT_CLOSE_ABANDONED", "ABORT_CLOSE_ABANDONED") /\ UNCHANGED <<txn, monitor>>
       ELSE /\ monitor' = [monitor EXCEPT !.state = "closed"]
            /\ Returned("COMMIT_OK", "ABORT_OK") /\ txn' = Closed(txn)
    /\ UNCHANGED <<cmd, rec, expired, late, rolled, acked, snapshot, faults>>

RemoveFails ==
    /\ call.pc = "remove"
    /\ Fault
    /\ monitor' \in {monitor} \cup {[monitor EXCEPT !.state = "closed"]}
    /\ Returned("COMMIT_CLOSE_ABANDONED", "ABORT_CLOSE_ABANDONED")
    /\ UNCHANGED <<txn, cmd, rec, expired, late, rolled, acked, snapshot>>

MayAbortAlways == TRUE  \* mutant
MayAbort == txn.state \in {"OPEN", "VERIFIED"}

\* aerospike_abort: at once, whether or not a commit is in doubt.
Abort ==
    /\ Quiet
    /\ MayAbort
    /\ txn.in_doubt => AbortInDoubt
    /\ txn' = [txn EXCEPT !.state = "ABORTED"]
    /\ call' = NewCall("roll", txn.writes, "back", FALSE)
    /\ UNCHANGED <<cmd, status, server, acked, snapshot, faults>>

-----------------------------------------------------------------------------
(* External: the server and other clients.                                  *)

OtherWrites(k) ==
    /\ ~rec[k].prov /\ rec[k].ver < MaxVersion
    /\ rec' = [rec EXCEPT ![k].ver = @ + 1]
    /\ UNCHANGED <<client, monitor, expired, late, rolled, acked, snapshot, faults>>

Expires ==
    /\ ~expired /\ monitor.state # "none"
    /\ expired' = TRUE
    /\ monitor' = [monitor EXCEPT !.state = IF @ = "open" THEN "abort" ELSE @]
    /\ UNCHANGED <<client, rec, late, rolled, acked, snapshot, faults>>

ServerRolls(k) ==
    /\ expired /\ monitor.state \in {"fwd", "abort"}
    /\ k \in monitor.keys /\ rec[k].prov
    /\ Resolve(k, IF monitor.state = "fwd" THEN "fwd" ELSE "back")
    /\ UNCHANGED <<client, monitor, expired, late, acked, snapshot, faults>>

ServerCloses ==
    /\ expired /\ monitor.state \in {"fwd", "abort"}
    /\ \A k \in monitor.keys : ~rec[k].prov
    /\ monitor' = [monitor EXCEPT !.state = "closed"]
    /\ UNCHANGED <<client, rec, expired, late, rolled, acked, snapshot, faults>>

\* A request that was in doubt arrives, or is dropped.
LateArrives ==
    /\ \E m \in late :
          /\ late' = late \ {m}
          /\ IF m = "mark"
             THEN /\ monitor' = [monitor EXCEPT !.state = IF @ = "open" THEN "fwd" ELSE @]
                  /\ UNCHANGED rec
             ELSE /\ rec' = IF expired THEN rec ELSE [rec EXCEPT ![m] = Provisional(@)]
                  /\ UNCHANGED monitor
    /\ UNCHANGED <<client, expired, rolled, acked, snapshot, faults>>

Finished == Quiet /\ txn.state \in {"COMMITTED", "ABORTED"} /\ UNCHANGED vars

CallSteps == VerifyEnds \/ Mark \/ RollEnds \/ Remove \/ \E k \in Key : VerifyKey(k) \/ RollKey(k)
Server == Expires \/ ServerCloses \/ LateArrives \/ \E k \in Key : ServerRolls(k)

Next ==
    \/ \E k \in Key : Read(k) \/ AddKey(k) \/ AddKeyFails(k) \/ Write(k) \/ WriteInDoubt(k)
    \/ Commit \/ Abort \/ MarkError \/ RemoveFails
    \/ CallSteps \/ Server
    \/ \E k \in Key : OtherWrites(k)
    \/ Finished

Spec == Init /\ [][Next]_vars

\* Requests end, by an answer or a timeout; the server and its clock go on.
\* Nothing makes the user commit or abort.
FairSpec == Spec /\ WF_vars(CallSteps) /\ WF_vars(Server) /\ \A k \in Key : WF_vars(Write(k))

-----------------------------------------------------------------------------
(* Properties.                                                              *)

\* All writes of the transaction meet the same fate, whether the client or the
\* server rolls them.
AllOrNothing == ~ \E j, k \in Key : "fwd" \in rolled[j] /\ "back" \in rolled[k]

\* When commit reports success, every acknowledged write is in place, or will
\* be: the marked monitor still lists it (aerospike_txn.h, as_commit_status).
CommitHolds ==
    status \in CommitSuccess
        => \A k \in acked : /\ "back" \notin rolled[k]
                            /\ "fwd" \in rolled[k]
                               \/ (rec[k].prov /\ monitor.state = "fwd" /\ k \in monitor.keys)

\* When abort reports success, or the verification failed, no write of the
\* transaction is ever rolled forward.
AbortHolds ==
    status \in AbortSuccess \cup {"VERIFY_FAILED"} => \A k \in Key : "fwd" \notin rolled[k]

\* A provisional write is always listed by a monitor record, so that somebody
\* will resolve it (as_txn_close_monitor keeps the monitor while in doubt).
Covered ==
    \A k \in Key : rec[k].prov
        => k \in monitor.keys /\ monitor.state \in {"open", "fwd", "abort"}

\* The reads of a verified transaction form a snapshot: all of them were still
\* current when its verification began.
ReadsAreSnapshot ==
    [][txn.state = "OPEN" /\ txn'.state = "VERIFIED"
        => \A k \in ReadKeys : snapshot[k] = txn.reads[k]]_vars

\* No record stays locked for ever, even if the user never ends the
\* transaction.
EventuallyResolved == \A k \in Key : []<>(~rec[k].prov)
=============================================================================
