------------------------------ MODULE TxnProofs ------------------------------
(***************************************************************************)
(* Proofs about TxnCommit: the safety of synchronous commit and abort for  *)
(* any set of records, any number of faults and any number of versions.    *)
(***************************************************************************)
EXTENDS TxnCommit, TLAPS

\* A leaf that names no prover is tried with SMT, with Zenon, and with SMT at length.
USE SMT, Zenon, SMTT(20)

Final == txn.state \in {"COMMITTED", "ABORTED"}
InDoubt == txn.state = "VERIFIED" /\ txn.in_doubt

-----------------------------------------------------------------------------
(* The inductive invariant, in named parts.                                 *)

\* Whatever was, or may still be, written is in the key list of the monitor.
Listed ==
    /\ \A k \in Key : rec[k].prov \/ k \in late \/ k \in txn.writes \/ cmd[k] = "write"
                        => k \in monitor.keys
    /\ monitor.keys # {} => monitor.state # "none"

\* Commands are in progress only while the transaction is open and no commit
\* or abort runs; each step of a commit or abort runs in one state.
Steps ==
    /\ \A k \in Key : cmd[k] = "write" => call.pc = "idle" /\ txn.state = "OPEN"
    /\ call.pc = "verify" => txn.state = "OPEN"
    /\ call.pc = "mark" => txn.state = "VERIFIED"
    /\ call.pc \in {"roll", "remove"}
         => txn.state = IF call.roll = "fwd" THEN "COMMITTED" ELSE "ABORTED"

\* Nothing is left to resolve once the monitor is gone.
Gone ==
    monitor.state = "closed"
        => /\ \A k \in Key : ~rec[k].prov
           /\ expired \/ (call.pc = "idle" /\ Final /\ \A k \in Key : k \notin late)

\* A write that may still arrive left the transaction in doubt.
LateInDoubt == \A k \in Key : k \in late => txn.write_in_doubt

\* The roll covers every write that is in place, and is complete when the
\* monitor is removed.
Rolling ==
    /\ txn.state \in {"OPEN", "VERIFIED"}
         => \A k \in Key : rec[k].prov \/ k \in late => k \in txn.writes
    /\ call.pc = "roll"
         => \A k \in Key : rec[k].prov => k \in call.todo \/ call.failed \/ txn.write_in_doubt
    /\ call.pc = "remove" => ~txn.write_in_doubt /\ \A k \in Key : ~rec[k].prov

\* The monitor is marked only by a transaction that is committed or in doubt.
Marked ==
    /\ monitor.state = "fwd" => txn.state = "COMMITTED" \/ InDoubt
    /\ "mark" \in late
         => txn.state = "COMMITTED" \/ InDoubt \/ monitor.state \in {"abort", "closed"}

\* Without a deadline nothing was written; a committed transaction that wrote
\* something is marked.
Unwritten ==
    /\ txn.state \in {"OPEN", "VERIFIED"} /\ ~txn.deadline
         => /\ txn.writes = {}
            /\ \A k \in Key : /\ ~rec[k].prov /\ k \notin late
                              /\ cmd[k] # "write" /\ rolled[k] = {}
    /\ txn.state = "COMMITTED" /\ monitor.state \notin {"fwd", "closed"}
         => \A k \in Key : ~rec[k].prov /\ k \notin late

NoneRolled(how) == \A k \in Key : how \notin rolled[k]

\* How the writes have been resolved so far, by the state of the monitor and
\* of the transaction.
Fates ==
    /\ monitor.state \in {"none", "open", "abort"} => NoneRolled("fwd")
    /\ monitor.state = "fwd" => NoneRolled("back")
    /\ monitor.state \in {"none", "open"} /\ txn.state # "ABORTED" => NoneRolled("back")
    /\ txn.state = "COMMITTED" => NoneRolled("back")
    /\ txn.state = "OPEN" \/ (txn.state = "VERIFIED" /\ ~txn.in_doubt) => NoneRolled("fwd")
    /\ call.pc \in {"roll", "remove"} /\ call.roll = "back" => NoneRolled("fwd")

\* An acknowledged write is in place or was resolved; a status that was
\* returned agrees with the state of the transaction.
Outcome ==
    /\ \A k \in acked : rec[k].prov \/ rolled[k] # {}
    /\ status \in CommitSuccess => txn.state = "COMMITTED"
    /\ status \in AbortSuccess \cup {"VERIFY_FAILED"}
         => txn.state = "ABORTED" /\ NoneRolled("fwd")

\* A key that was read is not verified as well as written.
ReadOrWritten == \A k \in Key : rec[k].prov /\ ~txn.write_in_doubt => txn.reads[k] = 0

Inv ==
    /\ Types /\ ReadOrWritten /\ Covered /\ AllOrNothing
    /\ Listed /\ Steps /\ Gone /\ LateInDoubt /\ Rolling
    /\ Marked /\ Unwritten /\ Fates /\ Outcome


-----------------------------------------------------------------------------
(* Types.                                                                   *)

\* The helpers that change a transaction return one.
LEMMA TxnTypes ==
  ASSUME NEW t \in Txns
  PROVE  /\ \A k \in Key : OnWrite(t, k) \in Txns /\ OnWriteInDoubt(t, k) \in Txns
         /\ MarkAborted(t) \in Txns /\ Closed(t) \in Txns
         /\ [t EXCEPT !.deadline = TRUE] \in Txns
         /\ [t EXCEPT !.state = "ABORTED"] \in Txns
         /\ [t EXCEPT !.state = "VERIFIED"] \in Txns
         /\ [t EXCEPT !.state = "COMMITTED", !.in_doubt = FALSE] \in Txns
         /\ [t EXCEPT !.write_in_doubt = TRUE] \in Txns
         /\ [t EXCEPT !.in_doubt = TRUE] \in Txns
         /\ t.writes \subseteq Key
<1>1. ASSUME NEW k \in Key PROVE OnWrite(t, k) \in Txns
  BY Zenon DEF OnWrite, Txns
<1>2. ASSUME NEW k \in Key PROVE OnWriteInDoubt(t, k) \in Txns
  BY Zenon, <1>1 DEF OnWriteInDoubt, Txns
<1>3. MarkAborted(t) \in Txns
  BY Zenon DEF MarkAborted, Txns
<1>4. Closed(t) \in Txns
  BY Zenon DEF Closed, Clear, Txns
<1>5. /\ [t EXCEPT !.deadline = TRUE] \in Txns
      /\ [t EXCEPT !.state = "ABORTED"] \in Txns
      /\ [t EXCEPT !.state = "VERIFIED"] \in Txns
      /\ [t EXCEPT !.state = "COMMITTED", !.in_doubt = FALSE] \in Txns
      /\ [t EXCEPT !.write_in_doubt = TRUE] \in Txns
      /\ [t EXCEPT !.in_doubt = TRUE] \in Txns
      /\ t.writes \subseteq Key
  BY Zenon DEF Txns
<1> QED
  BY <1>1, <1>2, <1>3, <1>4, <1>5

\* The helpers that change a record return one.
LEMMA RecordTypes ==
  ASSUME NEW r \in Records, NEW roll
  PROVE  Provisional(r) \in Records /\ Resolved(r, roll) \in Records /\ r.ver \in Versions
  BY TxnAssumption DEF Provisional, Resolved, Records, Versions

\* The helpers that begin a call return one.
LEMMA BeginTypes ==
  ASSUME NEW todo \in SUBSET Key
  PROVE  /\ NoCall \in Calls /\ NewCall("mark", {}, "back", FALSE) \in Calls
         /\ NewCall("verify", todo, "back", FALSE) \in Calls
         /\ NewCall("roll", todo, "fwd", FALSE) \in Calls
         /\ \A e \in BOOLEAN : NewCall("roll", todo, "back", e) \in Calls
  BY DEF NoCall, NewCall, Calls

\* Resolving a write keeps the records well typed.
LEMMA ResolveTypes ==
  ASSUME Types, NEW k \in Key, NEW roll \in {"fwd", "back"}, Resolve(k, roll)
  PROVE  rec' \in [Key -> Records] /\ rolled' \in [Key -> SUBSET {"fwd", "back"}]
  BY RecordTypes DEF Types, Resolve

\* A read in the transaction (as_txn_on_read) keeps the types.
LEMMA ReadTypes ==
  ASSUME Types, NEW k \in Key, Read(k)
  PROVE  Types'
<1>1. [txn EXCEPT !.reads[k] = rec[k].ver] \in Txns
  BY RecordTypes DEF Types, Txns
<1> QED
  BY <1>1 DEF Read, Types, server

\* The monitor's answer to the addition of a key (as_txn_monitor_add_keys)
\* keeps the types.
LEMMA AddKeyTypes ==
  ASSUME Types, NEW k \in Key, AddKey(k)
  PROVE  Types'
<1>1. txn' \in Txns
  BY Zenon, TxnTypes DEF AddKey, Types
<1>2. cmd' \in [Key -> {"none", "write"}]
  BY DEF AddKey, Types
<1>3. monitor' \in Monitors
  BY DEF AddKey, Types, Monitors
<1> QED
  BY <1>1, <1>3 DEF AddKey, Types

\* A failed addition of a key to the monitor keeps the types.
LEMMA AddKeyFailsTypes ==
  ASSUME Types, NEW k \in Key, AddKeyFails(k)
  PROVE  Types'
  BY TxnAssumption DEF AddKeyFails, Fault, Types, Monitors, client

\* An acknowledged write (as_txn_on_write) keeps the types.
LEMMA WriteTypes ==
  ASSUME Types, NEW k \in Key, Write(k)
  PROVE  Types'
<1>1. OnWrite(txn, k) \in Txns
  BY Zenon, TxnTypes DEF Types
<1>2. txn' \in Txns
  BY <1>1 DEF Write, Types
<1>3. rec' \in [Key -> Records]
  BY RecordTypes DEF Write, Types
<1> QED
  BY Zenon, <1>2, <1>3 DEF Write, Types

\* A write whose answer is lost (as_txn_on_write_in_doubt) keeps the types.
LEMMA WriteInDoubtTypes ==
  ASSUME Types, NEW k \in Key, WriteInDoubt(k)
  PROVE  Types'
<1>1. txn' \in Txns
  BY Zenon, TxnTypes DEF WriteInDoubt, Types
<1>2. rec' \in [Key -> Records]
  BY RecordTypes DEF WriteInDoubt, Types
<1>3. late' \in SUBSET (Key \cup {"mark"})
  BY DEF WriteInDoubt, Types
<1>4. cmd' \in [Key -> {"none", "write"}]
  BY DEF WriteInDoubt, Types
<1> QED
  BY <1>1, <1>2, <1>4, TxnAssumption DEF WriteInDoubt, Fault, Types

\* The entry of aerospike_commit keeps the types.
LEMMA CommitTypes ==
  ASSUME Types, Commit
  PROVE  Types'
<1>1. ReadKeys \in SUBSET Key
  BY DEF ReadKeys
<1>2. call' \in Calls
  BY Zenon, <1>1, BeginTypes DEF Commit
<1>3. snapshot' \in [Key -> Versions]
  BY Zenon, RecordTypes DEF Commit, Types
<1> QED
  BY <1>2, <1>3 DEF Commit, Types, server

\* The verification of one read version keeps the types.
LEMMA VerifyKeyTypes ==
  ASSUME Types, NEW k \in Key, VerifyKey(k)
  PROVE  Types'
<1>1. /\ [call EXCEPT !.todo = @ \ {k}, !.failed = @ \/ ~Verified(k)] \in Calls
      /\ [call EXCEPT !.todo = @ \ {k}, !.failed = TRUE] \in Calls
  BY Zenon DEF Calls, Types
<1>2. call' \in Calls
  BY <1>1 DEF VerifyKey
<1>3. faults' \in 0..MaxFaults
  BY TxnAssumption DEF VerifyKey, Types, Fault
<1> QED
  BY <1>2, <1>3 DEF VerifyKey, Types, server

\* The end of the verification keeps the types.
LEMMA VerifyEndsTypes ==
  ASSUME Types, VerifyEnds
  PROVE  Types'
<1>1. /\ txn.writes \in SUBSET Key
      /\ [txn EXCEPT !.state = "ABORTED"] \in Txns
      /\ [txn EXCEPT !.state = "VERIFIED"] \in Txns
  BY Zenon, TxnTypes DEF Types
<1>2. txn' \in Txns
  BY Zenon, <1>1 DEF VerifyEnds
<1>3. call' \in Calls
  BY Zenon, <1>1, BeginTypes DEF VerifyEnds
<1> QED
  BY <1>2, <1>3 DEF VerifyEnds, Types, server

\* The answer to the mark of the monitor keeps the types.
LEMMA MarkTypes ==
  ASSUME Types, Mark
  PROVE  Types'
<1>1. txn.writes \in SUBSET Key
  BY Zenon, TxnTypes DEF Types
<1>2. txn' \in Txns
  BY Zenon, TxnTypes DEF Mark, Committed, MarkFails, Types
<1>3. call' \in Calls
  BY Zenon, <1>1, BeginTypes DEF Mark, Committed, MarkFails
<1>4. status' \in Status /\ monitor' \in Monitors
  BY DEF Mark, MarkFails, Types, Status, Monitors
<1> QED
  BY <1>2, <1>3, <1>4 DEF Mark, Types

\* A failed mark of the monitor keeps the types.
LEMMA MarkErrorTypes ==
  ASSUME Types, MarkError
  PROVE  Types'
<1>1. txn' \in Txns
  BY Zenon, TxnTypes DEF MarkError, MarkFails, Types
<1>2. call' \in Calls
  BY Zenon, BeginTypes DEF MarkError, MarkFails
<1>3. status' \in Status
  BY DEF MarkError, MarkFails, Status
<1>4. monitor' \in Monitors
  BY DEF MarkError, Types, Monitors
<1>5. late' \in SUBSET (Key \cup {"mark"})
  BY DEF MarkError, Types
<1> QED
  BY <1>1, <1>2, <1>3, <1>4, TxnAssumption DEF MarkError, Fault, Types

\* The roll of one key (as_txn_roll) keeps the types.
LEMMA RollKeyTypes ==
  ASSUME Types, NEW k \in Key, RollKey(k)
  PROVE  Types'
<1>1. /\ [call EXCEPT !.todo = @ \ {k}] \in Calls
      /\ [call EXCEPT !.todo = @ \ {k}, !.failed = TRUE] \in Calls
      /\ call.roll \in {"fwd", "back"}
  BY Zenon DEF Calls, Types
<1>5. call' \in Calls
  BY <1>1 DEF RollKey
<1>6. txn \in Txns /\ [txn EXCEPT !.write_in_doubt = TRUE] \in Txns
  BY Zenon, TxnTypes DEF Types
<1>2. txn' \in Txns
  BY Zenon, <1>6 DEF RollKey
<1>3. rec' \in [Key -> Records] /\ rolled' \in [Key -> SUBSET {"fwd", "back"}]
  BY <1>1, ResolveTypes DEF RollKey, Types
<1>4. faults' \in 0..MaxFaults
  BY TxnAssumption DEF RollKey, Types, Fault
<1> QED
  BY <1>2, <1>3, <1>4, <1>5 DEF RollKey, Types

\* The end of the roll keeps the types.
LEMMA RollEndsTypes ==
  ASSUME Types, RollEnds
  PROVE  Types'
<1>1. Closed(txn) \in Txns /\ NoCall \in Calls /\ [call EXCEPT !.pc = "remove"] \in Calls
  BY Zenon, TxnTypes, BeginTypes DEF Types, Calls
<1>2. txn' \in Txns
  BY <1>1 DEF RollEnds, Types
<1>3. call' \in Calls
  BY <1>1 DEF RollEnds, Returned
<1>4. status' \in Status
  BY DEF RollEnds, Returned, Types, Status, CommitSuccess, AbortSuccess
<1> QED
  BY <1>2, <1>3, <1>4 DEF RollEnds, Types, server

\* The removal of the monitor (as_txn_close_monitor) keeps the types.
LEMMA RemoveTypes ==
  ASSUME Types, Remove
  PROVE  Types'
<1>1. txn' \in Txns
  BY Zenon, TxnTypes DEF Remove, Types
<1>2. call' \in Calls
  BY Zenon, BeginTypes DEF Remove, Returned
<1>3. status' \in Status
  BY DEF Remove, Returned, Status, CommitSuccess, AbortSuccess
<1>4. monitor' \in Monitors
  BY DEF Remove, Types, Monitors
<1> QED
  BY <1>1, <1>2, <1>3, <1>4 DEF Remove, Types

\* A failed removal of the monitor keeps the types.
LEMMA RemoveFailsTypes ==
  ASSUME Types, RemoveFails
  PROVE  Types'
  BY TxnAssumption
     DEF RemoveFails, Returned, Fault, Types, Monitors, Status, CommitSuccess,
         AbortSuccess, NoCall, NewCall, Calls

\* The entry of aerospike_abort keeps the types.
LEMMA AbortTypes ==
  ASSUME Types, Abort
  PROVE  Types'
<1>1. txn' \in Txns
  BY Zenon, TxnTypes DEF Abort, Types
<1>2. call' \in Calls
  BY Zenon, BeginTypes, TxnTypes DEF Abort, Types
<1> QED
  BY Zenon, <1>1, <1>2 DEF Abort, Types, server

\* A write from outside the transaction keeps the types.
LEMMA OtherWritesTypes ==
  ASSUME Types, NEW k \in Key, OtherWrites(k)
  PROVE  Types'
  BY TxnAssumption DEF OtherWrites, Types, Records, Versions, client

\* The expiry of the monitor keeps the types.
LEMMA ExpiresTypes ==
  ASSUME Types, Expires
  PROVE  Types'
  BY DEF Expires, Types, Monitors, client

\* The server's own roll of an expired transaction keeps the types.
LEMMA ServerRollsTypes ==
  ASSUME Types, NEW k \in Key, ServerRolls(k)
  PROVE  Types'
<1>1. rec' \in [Key -> Records]
  BY ResolveTypes DEF ServerRolls
<1>2. rolled' \in [Key -> SUBSET {"fwd", "back"}]
  BY ResolveTypes DEF ServerRolls
<1> QED
  BY <1>1, <1>2 DEF ServerRolls, Types, client

\* The server's removal of an expired monitor keeps the types.
LEMMA ServerClosesTypes ==
  ASSUME Types, ServerCloses
  PROVE  Types'
  BY DEF ServerCloses, Types, Monitors, client

\* The late arrival of a request that was in doubt keeps the types.
LEMMA LateArrivesTypes ==
  ASSUME Types, LateArrives
  PROVE  Types'
<1>1. rec' \in [Key -> Records]
  BY RecordTypes DEF LateArrives, Types
<1>2. monitor' \in Monitors
  BY DEF LateArrives, Types, Monitors
<1>3. late' \in SUBSET (Key \cup {"mark"})
  BY DEF LateArrives, Types
<1> QED
  BY <1>1, <1>2 DEF LateArrives, Types, client

\* A new transaction, as as_txn_init leaves it, is well typed.
LEMMA TypesInit == Init => Types
<1> SUFFICES ASSUME Init PROVE Types
  OBVIOUS
<1>1. txn \in Txns
  BY DEF Init, Txns
<1>2. call \in Calls
  BY Zenon, BeginTypes DEF Init
<1>3. rec \in [Key -> Records] /\ snapshot \in [Key -> Versions]
  BY TxnAssumption DEF Init, Records, Versions
<1>4. monitor \in Monitors
  BY DEF Init, Monitors
<1>5. cmd \in [Key -> {"none", "write"}] /\ rolled \in [Key -> SUBSET {"fwd", "back"}]
  BY DEF Init
<1>6. status \in Status /\ faults \in 0..MaxFaults
  BY TxnAssumption DEF Init, Status
<1>7. expired \in BOOLEAN
  BY Zenon DEF Init
<1> QED
  BY Zenon, <1>1, <1>2, <1>3, <1>4, <1>6 DEF Init, Types

\* No step of the client or of the server breaks the types.
LEMMA TypesNext ==
  ASSUME Types, [Next]_vars
  PROVE  Types'
<1>1. CASE UNCHANGED vars
  BY <1>1 DEF Types, vars, client, server
<1>2. ASSUME NEW k \in Key, Read(k) PROVE Types'
  BY <1>2, ReadTypes
<1>3. ASSUME NEW k \in Key, AddKey(k) PROVE Types'
  BY <1>3, AddKeyTypes
<1>4. ASSUME NEW k \in Key, AddKeyFails(k) PROVE Types'
  BY <1>4, AddKeyFailsTypes
<1>5. ASSUME NEW k \in Key, Write(k) PROVE Types'
  BY <1>5, WriteTypes
<1>6. ASSUME NEW k \in Key, WriteInDoubt(k) PROVE Types'
  BY <1>6, WriteInDoubtTypes
<1>7. CASE Commit
  BY <1>7, CommitTypes
<1>8. ASSUME NEW k \in Key, VerifyKey(k) PROVE Types'
  BY <1>8, VerifyKeyTypes
<1>9. CASE VerifyEnds
  BY <1>9, VerifyEndsTypes
<1>10. CASE Mark
  BY <1>10, MarkTypes
<1>11. CASE MarkError
  BY <1>11, MarkErrorTypes
<1>12. ASSUME NEW k \in Key, RollKey(k) PROVE Types'
  BY <1>12, RollKeyTypes
<1>13. CASE RollEnds
  BY <1>13, RollEndsTypes
<1>14. CASE Remove
  BY <1>14, RemoveTypes
<1>15. CASE RemoveFails
  BY <1>15, RemoveFailsTypes
<1>16. CASE Abort
  BY <1>16, AbortTypes
<1>17. ASSUME NEW k \in Key, OtherWrites(k) PROVE Types'
  BY <1>17, OtherWritesTypes
<1>18. CASE Expires
  BY <1>18, ExpiresTypes
<1>19. ASSUME NEW k \in Key, ServerRolls(k) PROVE Types'
  BY <1>19, ServerRollsTypes
<1>20. CASE ServerCloses
  BY <1>20, ServerClosesTypes
<1>21. CASE LateArrives
  BY <1>21, LateArrivesTypes
<1> QED
  BY <1>1, <1>2, <1>3, <1>4, <1>5, <1>6, <1>7, <1>8, <1>9, <1>10, <1>11, <1>12, <1>13,
     <1>14, <1>15, <1>16, <1>17, <1>18, <1>19, <1>20, <1>21
     DEF Next, CallSteps, Server, Finished

-----------------------------------------------------------------------------
(* The inductive invariant, action by action.                               *)

\* A status that commit or abort returns at its end agrees with the direction
\* of the roll, and so with the state of the transaction.
LEMMA ReturnsOutcome ==
  ASSUME Inv, UNCHANGED <<rec, rolled, acked>>, txn'.state = txn.state,
         call.pc \in {"roll", "remove"},
         \/ status' = status
         \/ status' \in (IF call.roll = "fwd" THEN CommitSuccess
                        ELSE AbortSuccess \cup {"VERIFY_FAILED"})
  PROVE  Outcome'
<1>1. txn.state = IF call.roll = "fwd" THEN "COMMITTED" ELSE "ABORTED"
  BY DEF Inv, Steps
<1>2. call.roll # "fwd" => NoneRolled("fwd")
  BY DEF Inv, Fates, Types, Calls
<1>3. NoneRolled("fwd")' <=> NoneRolled("fwd")
  BY DEF NoneRolled
<1>4. \A k \in acked' : rec'[k].prov \/ rolled'[k] # {}
  BY DEF Inv, Outcome
<1>5. CASE status' = status
  BY <1>3, <1>4, <1>5 DEF Inv, Outcome
<1>6. CASE call.roll = "fwd" /\ status' \in CommitSuccess
  BY <1>1, <1>4, <1>6 DEF Outcome, CommitSuccess, AbortSuccess
<1>7. CASE call.roll # "fwd" /\ status' \in AbortSuccess \cup {"VERIFY_FAILED"}
  BY <1>1, <1>2, <1>3, <1>4, <1>7 DEF Outcome, CommitSuccess, AbortSuccess
<1> QED
  BY <1>5, <1>6, <1>7

\* The invariant looks at the records only for whether a write is in place.
LEMMA SameWrites ==
  ASSUME Inv, Types', UNCHANGED <<client, monitor, expired, late, rolled, acked>>,
         \A j \in Key : rec'[j].prov = rec[j].prov
  PROVE  Inv'
<1>1. ReadOrWritten'
  BY DEF Inv, ReadOrWritten, client
<1>2. Covered'
  BY DEF Inv, Covered, client
<1>3. AllOrNothing'
  BY DEF Inv, AllOrNothing, client
<1>4. Listed'
  BY DEF Inv, Listed, client
<1>5. Steps'
  BY DEF Inv, Steps, client
<1>6. Gone'
  BY DEF Inv, Gone, Final, client
<1>7. LateInDoubt'
  BY DEF Inv, LateInDoubt, client
<1>8. Rolling'
  BY DEF Inv, Rolling, client
<1>9. Marked'
  BY DEF Inv, Marked, InDoubt, client
<1>10. Unwritten'
  BY DEF Inv, Unwritten, client
<1>11. Fates'
  BY DEF Inv, Fates, NoneRolled, client
<1>12. Outcome'
  BY DEF Inv, Outcome, NoneRolled, Types, client
<1> QED
  BY <1>1, <1>2, <1>3, <1>4, <1>5, <1>6, <1>7, <1>8, <1>9, <1>10, <1>11, <1>12 DEF Inv

\* A read in the transaction (as_txn_on_read) keeps the invariant: it only
\* records a version, and only of a key the transaction did not write.
LEMMA ReadInv ==
  ASSUME Inv, ~Async, ~AbortInDoubt, NEW k \in Key, Read(k), Types'
  PROVE  Inv'
<1>1. ReadOrWritten'
  BY DEF Read, Inv, ReadOrWritten, server
<1>2. /\ Covered' /\ AllOrNothing' /\ Listed' /\ Steps' /\ Gone' /\ LateInDoubt'
      /\ Rolling' /\ Marked' /\ Unwritten' /\ Fates' /\ Outcome'
  BY
     DEF Read, Inv, Covered, AllOrNothing, Listed, Steps, Gone, LateInDoubt, Rolling,
         Marked, Unwritten, Fates, Outcome, Final, InDoubt, NoneRolled, server
<1> QED
  BY <1>1, <1>2 DEF Inv

\* The monitor's answer to the addition of a key (as_txn_monitor_add_keys)
\* keeps the invariant: the key is listed before its write may start.
LEMMA AddKeyInv ==
  ASSUME Inv, ~Async, ~AbortInDoubt, NEW k \in Key, AddKey(k), Types'
  PROVE  Inv'
<1>1. Covered'
  BY DEF AddKey, Inv, Covered
<1>2. Listed'
  BY DEF AddKey, Inv, Listed, Types, Txns
<1>3. Steps'
  BY DEF AddKey, MayRun, Steps, Types, Txns
<1>4. Gone'
  BY DEF AddKey, Inv, Gone, Final
<1>5. Marked'
  BY DEF AddKey, MayRun, Inv, Marked, InDoubt
<1>6. Unwritten'
  BY DEF AddKey, Inv, Unwritten, Types, Txns
<1>7. Fates'
  BY DEF AddKey, MayRun, Inv, Fates, NoneRolled
<1>8. ReadOrWritten' /\ AllOrNothing' /\ LateInDoubt' /\ Rolling' /\ Outcome'
  BY
     DEF AddKey, MayRun, Inv, ReadOrWritten, AllOrNothing, LateInDoubt, Rolling, Outcome,
         Types, Txns
<1> QED
  BY <1>1, <1>2, <1>3, <1>4, <1>5, <1>6, <1>7, <1>8 DEF Inv

\* A failed addition of a key to the monitor keeps the invariant: the write is
\* never sent, so a key listed for nothing is all that can remain.
LEMMA AddKeyFailsInv ==
  ASSUME Inv, ~Async, ~AbortInDoubt, NEW k \in Key, AddKeyFails(k), Types'
  PROVE  Inv'
<1>1. Covered'
  BY DEF AddKeyFails, Inv, Covered
<1>2. Listed'
  BY DEF AddKeyFails, Inv, Listed, client
<1>3. Gone'
  BY DEF AddKeyFails, Gone
<1>4. Marked'
  BY DEF AddKeyFails, MayRun, Inv, Marked, InDoubt
<1>5. Unwritten'
  BY DEF AddKeyFails, Inv, Unwritten, client
<1>6. Fates'
  BY DEF AddKeyFails, MayRun, Inv, Fates, NoneRolled
<1>7. ReadOrWritten' /\ AllOrNothing' /\ Steps' /\ LateInDoubt' /\ Rolling' /\ Outcome'
  BY
     DEF AddKeyFails, MayRun, Inv, ReadOrWritten, AllOrNothing, Steps, LateInDoubt,
         Rolling, Outcome, client
<1> QED
  BY <1>1, <1>2, <1>3, <1>4, <1>5, <1>6, <1>7 DEF Inv

\* An acknowledged write (as_txn_on_write) keeps the invariant: its key is
\* already listed, and the transaction is still open.
LEMMA WriteInv ==
  ASSUME Inv, ~Async, ~AbortInDoubt, NEW k \in Key, Write(k), Types'
  PROVE  Inv'
<1>1. /\ txn'.state = txn.state /\ txn'.deadline = txn.deadline /\ txn'.in_doubt = txn.in_doubt
      /\ txn'.write_in_doubt = txn.write_in_doubt
      /\ \A j \in Key : j \in txn'.writes <=> j \in txn.writes \/ (j = k /\ Applies(k))
      /\ \A j \in Key : txn'.reads[j] = IF j = k /\ Applies(k) THEN 0 ELSE txn.reads[j]
  <2>1. CASE Applies(k)
    <3>1. txn \in Txns /\ txn' = OnWrite(txn, k)
      BY <2>1 DEF Write, Types, Inv
    <3>2. \A j \in Key : txn'.reads[j] = IF j = k THEN 0 ELSE txn.reads[j]
      BY <3>1 DEF OnWrite, Txns
    <3> QED
      BY <2>1, <3>1, <3>2 DEF OnWrite
  <2>2. CASE ~Applies(k)
    BY <2>2 DEF Write
  <2> QED
    BY <2>1, <2>2
<1>2. /\ \A j \in Key : rec'[j].prov <=> rec[j].prov \/ (j = k /\ Applies(k))
      /\ \A j \in Key : cmd'[j] = IF j = k THEN "none" ELSE cmd[j]
  BY DEF Write, Provisional, Types
<1>3. /\ cmd[k] = "write" /\ (Applies(k) => ~expired)
      /\ acked' = (IF Applies(k) THEN acked \cup {k} ELSE acked)
      /\ UNCHANGED <<call, status, monitor, expired, late, rolled>>
  BY DEF Write, Applies
<1>4. ReadOrWritten'
  BY <1>1, <1>2 DEF Inv, ReadOrWritten
<1>5. Covered'
  BY <1>2, <1>3 DEF Inv, Covered, Listed, Steps, Gone, Final, Types, Monitors
<1>6. Listed'
  BY <1>1, <1>2, <1>3 DEF Inv, Listed
<1>7. Steps'
  BY <1>1, <1>3 DEF Inv, Steps
<1>8. Gone'
  BY <1>2, <1>3 DEF Inv, Steps, Gone, Final
<1>9. Rolling'
  BY <1>1, <1>2, <1>3 DEF Inv, Steps, Rolling
<1>10. Unwritten'
  BY <1>1, <1>3 DEF Inv, Steps, Unwritten
<1>11. Outcome'
  BY <1>2, <1>3 DEF Inv, Steps, Outcome, Types
<1>12. AllOrNothing' /\ LateInDoubt' /\ Marked' /\ Fates'
  BY <1>1, <1>3 DEF Inv, AllOrNothing, LateInDoubt, Marked, Fates, InDoubt, NoneRolled
<1> QED
  BY <1>4, <1>5, <1>6, <1>7, <1>8, <1>9, <1>10, <1>11, <1>12 DEF Inv

\* A write whose answer is lost (as_txn_on_write_in_doubt) keeps the
\* invariant: the doubt is recorded with the write, so no later removal of the
\* monitor forgets it.
LEMMA WriteInDoubtInv ==
  ASSUME Inv, ~Async, ~AbortInDoubt, NEW k \in Key, WriteInDoubt(k), Types'
  PROVE  Inv'
<1>1. ReadOrWritten'
  BY DEF WriteInDoubt, OnWriteInDoubt, ReadOrWritten
<1>2. Covered'
  BY DEF WriteInDoubt, Applies, Inv, Covered, Listed, Steps, Gone, Final, Types, Monitors
<1>3. Listed'
  BY DEF WriteInDoubt, OnWriteInDoubt, OnWrite, Inv, Listed, Types
<1>4. Steps'
  BY DEF WriteInDoubt, OnWriteInDoubt, OnWrite, Inv, Steps
<1>5. Gone'
  BY DEF WriteInDoubt, Applies, Inv, Steps, Gone, Final
<1>6. LateInDoubt'
  BY DEF WriteInDoubt, OnWriteInDoubt, LateInDoubt
<1>7. Rolling'
  BY DEF WriteInDoubt, OnWriteInDoubt, OnWrite, Inv, Steps, Rolling, Types
<1>8. Marked'
  BY TxnAssumption DEF WriteInDoubt, OnWriteInDoubt, OnWrite, Inv, Marked, InDoubt
<1>9. Unwritten'
  BY DEF WriteInDoubt, OnWriteInDoubt, OnWrite, Inv, Steps, Unwritten
<1>10. Outcome'
  BY DEF WriteInDoubt, Provisional, Inv, Steps, Outcome, Types, Monitors
<1>11. AllOrNothing' /\ Fates'
  BY DEF WriteInDoubt, OnWriteInDoubt, OnWrite, Inv, AllOrNothing, Fates, NoneRolled
<1> QED
  BY <1>1, <1>2, <1>3, <1>4, <1>5, <1>6, <1>7, <1>8, <1>9, <1>10, <1>11 DEF Inv

\* The entry of aerospike_commit keeps the invariant: nothing is written any
\* more once a commit runs.
LEMMA CommitInv ==
  ASSUME Inv, ~Async, ~AbortInDoubt, Commit, Types'
  PROVE  Inv'
<1>1. UNCHANGED <<txn, cmd, status, rec, monitor, expired, late, rolled, acked>>
  BY DEF Commit, server
<1>2. call.pc = "idle" /\ (\A k \in Key : cmd[k] = "none")
      /\ \/ txn.state = "OPEN" /\ call'.pc = "verify"
         \/ txn.state = "VERIFIED" /\ call'.pc = "mark"
  BY DEF Commit, Quiet, NewCall
<1>3. Steps'
  BY <1>1, <1>2 DEF Steps
<1>4. Gone'
  BY <1>1, <1>2 DEF Inv, Gone, Final
<1>5. Rolling'
  BY <1>1, <1>2 DEF Inv, Rolling
<1>6. Fates'
  BY <1>1, <1>2 DEF Inv, Fates, NoneRolled
<1>7. /\ ReadOrWritten' /\ Covered' /\ AllOrNothing' /\ Listed'
      /\ LateInDoubt' /\ Marked' /\ Unwritten' /\ Outcome'
  BY <1>1, <1>2
     DEF Inv, ReadOrWritten, Covered, AllOrNothing, Listed, LateInDoubt, Marked,
         Unwritten, Outcome, InDoubt
<1> QED
  BY <1>3, <1>4, <1>5, <1>6, <1>7 DEF Inv

\* The verification of one read version keeps the invariant: no record and no
\* monitor changes.
LEMMA VerifyKeyInv ==
  ASSUME Inv, ~Async, ~AbortInDoubt, NEW k \in Key, VerifyKey(k), Types'
  PROVE  Inv'
<1>1. UNCHANGED <<txn, cmd, status, rec, monitor, expired, late, rolled, acked>>
  BY DEF VerifyKey, server
<1>2. call.pc = "verify" /\ call'.pc = "verify"
  <2>1. CASE call' = [call EXCEPT !.todo = @ \ {k}, !.failed = @ \/ ~Verified(k)]
    BY <2>1 DEF VerifyKey, Inv, Types, Calls
  <2>2. CASE call' = [call EXCEPT !.todo = @ \ {k}, !.failed = TRUE]
    BY <2>2 DEF VerifyKey, Inv, Types, Calls
  <2> QED
    BY <2>1, <2>2 DEF VerifyKey
<1>3. Rolling'
  BY <1>1, <1>2 DEF Inv, Rolling
<1>4. /\ ReadOrWritten' /\ Covered' /\ AllOrNothing' /\ Listed' /\ Steps' /\ Gone'
      /\ LateInDoubt' /\ Marked' /\ Unwritten' /\ Fates' /\ Outcome'
  BY <1>1, <1>2
     DEF Inv, ReadOrWritten, Covered, AllOrNothing, Listed, Steps, Gone, LateInDoubt,
         Marked, Unwritten, Fates, Outcome, InDoubt, NoneRolled
<1> QED
  BY <1>3, <1>4 DEF Inv

\* The end of the verification keeps the invariant: a roll starts with all
\* writes to do.
LEMMA VerifyEndsInv ==
  ASSUME Inv, ~Async, ~AbortInDoubt, VerifyEnds, Types'
  PROVE  Inv'
<1>1. UNCHANGED <<cmd, status, rec, monitor, expired, late, rolled, acked>>
  BY DEF VerifyEnds, server
<1>2. /\ txn'.deadline = txn.deadline /\ txn'.in_doubt = txn.in_doubt /\ txn'.writes = txn.writes
      /\ txn'.write_in_doubt = txn.write_in_doubt /\ txn'.reads = txn.reads
  <2>1. CASE call.failed
    BY <2>1 DEF VerifyEnds, Types, Txns
  <2>2. CASE ~call.failed
    BY <2>2 DEF VerifyEnds, Types, Txns
  <2> QED
    BY <2>1, <2>2
<1>3. call.pc = "verify"
      /\ \/ txn'.state = "ABORTED" /\ call'.pc = "roll" /\ call'.roll = "back" /\ call'.todo = txn.writes
         \/ txn'.state = "VERIFIED" /\ call'.pc = "mark"
  BY DEF VerifyEnds, NewCall, Types, Txns
<1>4. Steps'
  BY <1>1, <1>3 DEF Inv, Steps
<1>5. Gone'
  BY <1>1, <1>3 DEF Inv, Gone
<1>6. Rolling'
  BY <1>1, <1>2, <1>3 DEF Inv, Steps, Rolling
<1>7. Marked'
  BY <1>1, <1>3 DEF Inv, Steps, Marked, InDoubt
<1>8. Unwritten'
  BY <1>1, <1>2, <1>3 DEF Inv, Steps, Unwritten
<1>9. Fates'
  BY <1>1, <1>3 DEF Inv, Steps, Fates, NoneRolled
<1>10. Outcome'
  BY <1>1, <1>3 DEF Inv, Steps, Outcome
<1>11. ReadOrWritten' /\ Covered' /\ AllOrNothing' /\ Listed' /\ LateInDoubt'
  BY <1>1, <1>2 DEF Inv, ReadOrWritten, Covered, AllOrNothing, Listed, LateInDoubt
<1> QED
  BY <1>4, <1>5, <1>6, <1>7, <1>8, <1>9, <1>10, <1>11 DEF Inv

\* The answer to the mark of the monitor keeps the invariant: the transaction
\* is committed only if the monitor is marked, or nothing was written.
LEMMA MarkInv ==
  ASSUME Inv, ~Async, ~AbortInDoubt, Mark, Types'
  PROVE  Inv'
<1>1. UNCHANGED <<cmd, rec, expired, late, rolled, acked>>
  BY DEF Mark
<1>2. /\ txn'.deadline = txn.deadline /\ txn'.writes = txn.writes
      /\ txn'.write_in_doubt = txn.write_in_doubt /\ txn'.reads = txn.reads
  <2>1. CASE Committed
    BY <2>1 DEF Committed
  <2>2. CASE txn' = MarkAborted(txn)
    BY <2>2 DEF MarkAborted
  <2> QED
    BY <2>1, <2>2 DEF Mark, MarkFails
<1>3. call.pc = "mark" /\ monitor'.keys = monitor.keys
  BY DEF Mark, Types, Monitors
<1>4. \/ /\ txn'.state = "COMMITTED" /\ call'.pc = "roll" /\ call'.roll = "fwd" /\ call'.todo = txn.writes
         /\ \/ ~txn.deadline /\ monitor'.state = monitor.state
            \/ monitor.state \in {"open", "fwd"} /\ monitor'.state = "fwd"
         /\ status' = status
      \/ /\ txn'.state = "ABORTED" /\ call'.pc = "idle" /\ status' = "MARK_ROLL_FORWARD_ABANDONED"
         /\ monitor.state \in {"abort", "closed"} /\ monitor'.state = monitor.state
  <2>1. \/ /\ Committed /\ status' = status
            /\ \/ ~txn.deadline /\ monitor'.state = monitor.state
               \/ monitor.state \in {"open", "fwd"} /\ monitor'.state = "fwd"
         \/ /\ MarkFails(MarkAborted(txn))
            /\ monitor.state \in {"abort", "closed"} /\ monitor'.state = monitor.state
    BY DEF Mark, Types, Monitors
  <2>2. Committed => /\ txn'.state = "COMMITTED" /\ call'.pc = "roll"
                     /\ call'.roll = "fwd" /\ call'.todo = txn.writes
    BY DEF Committed, NewCall
  <2>3. MarkFails(MarkAborted(txn)) => /\ txn'.state = "ABORTED" /\ call'.pc = "idle"
                                       /\ status' = "MARK_ROLL_FORWARD_ABANDONED"
    BY DEF MarkFails, MarkAborted, NoCall, NewCall
  <2> QED
    BY <2>1, <2>2, <2>3
<1>5. Covered'
  BY <1>1, <1>3, <1>4 DEF Inv, Covered
<1>6. Listed'
  BY <1>1, <1>2, <1>3, <1>4 DEF Inv, Listed
<1>7. Steps'
  BY <1>1, <1>3, <1>4 DEF Inv, Steps
<1>8. Gone'
  BY <1>1, <1>3, <1>4 DEF Inv, Gone
<1>9. Rolling'
  BY <1>1, <1>3, <1>4 DEF Inv, Steps, Rolling
<1>10. Marked'
  BY <1>4 DEF Marked
<1>11. Unwritten'
  BY <1>1, <1>3, <1>4 DEF Inv, Steps, Unwritten
<1>12. Fates'
  BY <1>1, <1>3, <1>4 DEF Inv, Steps, Unwritten, Fates, NoneRolled
<1>13. Outcome'
  BY <1>1, <1>3, <1>4 DEF Inv, Steps, Outcome, CommitSuccess, AbortSuccess
<1>14. ReadOrWritten' /\ AllOrNothing' /\ LateInDoubt'
  BY <1>1, <1>2 DEF Inv, ReadOrWritten, AllOrNothing, LateInDoubt
<1> QED
  BY <1>5, <1>6, <1>7, <1>8, <1>9, <1>10, <1>11, <1>12, <1>13, <1>14 DEF Inv

\* A failed mark of the monitor keeps the invariant: the transaction is in
\* doubt whenever the mark was, or may still be, applied.
LEMMA MarkErrorInv ==
  ASSUME Inv, ~Async, ~AbortInDoubt, MarkError, Types'
  PROVE  Inv'
<1>1. Covered'
  BY DEF MarkError, NewCall, Inv, Covered, Types, Monitors
<1>2. Listed'
  BY TxnAssumption DEF MarkError, MarkFails, Inv, Listed, Types, Txns, Monitors
<1>3. Steps'
  BY DEF MarkError, MarkFails, NoCall, NewCall, Inv, Steps
<1>4. Gone'
  BY DEF MarkError, Inv, Gone, Types, Monitors
<1>5. LateInDoubt'
  BY TxnAssumption DEF MarkError, MarkFails, NewCall, Inv, LateInDoubt, Types, Txns
<1>6. Rolling'
  BY TxnAssumption DEF Inv, Rolling, MarkError, MarkFails, NoCall, NewCall, Types, Txns
<1>7. Marked'
  BY DEF MarkError, MarkFails, NewCall, Inv, Steps, Marked, InDoubt, Types, Txns
<1>8. Unwritten'
  BY TxnAssumption DEF MarkError, MarkFails, NewCall, Inv, Unwritten, Types, Txns
<1>9. Fates'
  BY DEF MarkError, MarkFails, NoCall, NewCall, Inv, Steps, Fates, NoneRolled, Types, Txns
<1>10. Outcome'
  BY DEF MarkError, MarkFails, Inv, Outcome, CommitSuccess, AbortSuccess
<1>11. ReadOrWritten' /\ AllOrNothing'
  BY DEF MarkError, MarkFails, NewCall, Inv, ReadOrWritten, AllOrNothing, Types, Txns
<1> QED
  BY <1>1, <1>2, <1>3, <1>4, <1>5, <1>6, <1>7, <1>8, <1>9, <1>10, <1>11 DEF Inv

\* The roll of one key (as_txn_roll) keeps the invariant: the direction agrees
\* with the monitor, and a failure keeps the monitor from being removed.
LEMMA RollKeyInv ==
  ASSUME Inv, ~Async, ~AbortInDoubt, NEW k \in Key, RollKey(k), Types'
  PROVE  Inv'
<1>1. UNCHANGED <<cmd, status, monitor, expired, late, acked>>
  BY DEF RollKey
<1>2. /\ txn'.deadline = txn.deadline /\ txn'.in_doubt = txn.in_doubt /\ txn'.writes = txn.writes
      /\ txn'.state = txn.state /\ txn'.reads = txn.reads
      /\ txn.write_in_doubt => txn'.write_in_doubt
  BY DEF RollKey, Types, Txns, Inv
<1>3. /\ call.pc = "roll" /\ call'.pc = "roll" /\ call'.roll = call.roll
      /\ call'.todo = call.todo \ {k} /\ (call.failed => call'.failed)
  <2>1. CASE call' = [call EXCEPT !.todo = @ \ {k}]
    BY <2>1 DEF RollKey, Types, Calls, Inv
  <2>2. CASE call' = [call EXCEPT !.todo = @ \ {k}, !.failed = TRUE]
    BY <2>2 DEF RollKey, Types, Calls, Inv
  <2> QED
    BY <2>1, <2>2 DEF RollKey
<1>4. /\ \A j \in Key \ {k} : rec'[j].prov = rec[j].prov /\ rolled'[j] = rolled[j]
      /\ \/ rec'[k].prov = rec[k].prov /\ rolled'[k] = rolled[k]
         \/ rec[k].prov /\ ~rec'[k].prov /\ rolled'[k] = rolled[k] \cup {call.roll}
  BY DEF RollKey, Resolve, Resolved, Types, Records, Inv
<1>5. rec'[k].prov => call'.failed
  <2>1. CASE Resolve(k, call.roll)
    BY <2>1 DEF Resolve, Resolved, Types, Records, Inv
  <2>2. CASE call' = [call EXCEPT !.todo = @ \ {k}, !.failed = TRUE]
    BY <2>2 DEF Types, Calls, Inv
  <2> QED
    BY <2>1, <2>2 DEF RollKey
<1>6. rec[k].prov => IF call.roll = "fwd" THEN monitor.state = "fwd" /\ txn.state = "COMMITTED"
                                        ELSE monitor.state # "fwd" /\ txn.state = "ABORTED"
  BY DEF Inv, Covered, Steps, Unwritten, Marked, InDoubt, RollKey
<1>7. ReadOrWritten'
  BY <1>1, <1>2, <1>3, <1>4, <1>5, <1>6, TxnAssumption DEF Inv, ReadOrWritten
<1>8. Covered'
  BY <1>1, <1>2, <1>3, <1>4, <1>5, <1>6, TxnAssumption DEF Inv, Covered
<1>9. AllOrNothing'
  BY <1>1, <1>2, <1>3, <1>4, <1>5, <1>6, TxnAssumption DEF Inv, AllOrNothing, Fates, NoneRolled
<1>10. Listed'
  BY <1>1, <1>2, <1>3, <1>4, <1>5, <1>6, TxnAssumption DEF Inv, Listed
<1>11. Gone'
  BY <1>1, <1>2, <1>3, <1>4, <1>5, <1>6, TxnAssumption DEF Inv, Gone, Covered, Final
<1>12. LateInDoubt'
  BY <1>1, <1>2, <1>3, <1>4, <1>5, <1>6, TxnAssumption DEF Inv, LateInDoubt
<1>13. Rolling'
  BY <1>1, <1>2, <1>3, <1>4, <1>5, <1>6, TxnAssumption DEF Inv, Rolling, Steps
<1>14. Unwritten'
  BY <1>1, <1>2, <1>3, <1>4, <1>5, <1>6 DEF Inv, Unwritten, Steps
<1>15. Fates'
  BY <1>1, <1>2, <1>3, <1>4, <1>5, <1>6, TxnAssumption DEF Inv, Fates, NoneRolled
<1>16. Outcome'
  <2>1. \A j \in acked : rec'[j].prov \/ rolled'[j] # {}
    <3>1. rolled'[k] = rolled[k] \cup {call.roll} => rolled'[k] # {}
      OBVIOUS
    <3> QED
      BY <1>4, <3>1 DEF Inv, Outcome, Types
  <2>2. txn.state = "ABORTED" /\ NoneRolled("fwd") => NoneRolled("fwd")'
    BY <1>4, <1>6 DEF NoneRolled
  <2> QED
    BY <1>1, <1>2, <2>1, <2>2 DEF Inv, Outcome
<1>17. Steps' /\ Marked'
  BY <1>1, <1>2, <1>3, <1>4, <1>5, <1>6
     DEF Inv, Steps, Marked, InDoubt
<1> QED
  BY <1>7, <1>8, <1>9, <1>10, <1>11, <1>12, <1>13, <1>14, <1>15, <1>16, <1>17 DEF Inv

\* The end of the roll keeps the invariant: the monitor is removed only when
\* every write was rolled.
LEMMA RollEndsInv ==
  ASSUME Inv, ~Async, ~AbortInDoubt, RollEnds, Types'
  PROVE  Inv'
<1>1. UNCHANGED <<cmd, rec, monitor, expired, late, rolled, acked>>
  BY DEF RollEnds, server
<1>2. /\ txn'.state = txn.state /\ txn'.in_doubt = txn.in_doubt
      /\ txn'.write_in_doubt = txn.write_in_doubt
      /\ txn'.writes \in {txn.writes, {}}
      /\ \A k \in Key : txn'.reads[k] \in {txn.reads[k], 0}
  <2>1. CASE txn' = txn
    BY <2>1
  <2>2. CASE txn' = Clear(txn)
    BY <2>2 DEF Clear
  <2> QED
    BY <2>2 DEF RollEnds, Closed
<1>3. call.pc = "roll" /\ call.todo = {}
      /\ \/ call'.pc = "idle"
         \/ /\ call'.pc = "remove" /\ call'.roll = call.roll /\ ~call.failed /\ ~txn.write_in_doubt
  BY DEF RollEnds, Returned, CloseMonitor, NoCall, NewCall, Types, Calls
<1>4. \/ status' = status
      \/ status' \in (IF call.roll = "fwd" THEN CommitSuccess
                     ELSE AbortSuccess \cup {"VERIFY_FAILED"})
  BY DEF RollEnds, Returned, CommitSuccess, AbortSuccess
<1>5. ReadOrWritten'
  BY <1>1, <1>2 DEF Inv, ReadOrWritten, Records
<1>6. Listed'
  BY <1>1, <1>2 DEF Inv, Listed
<1>7. Steps'
  BY <1>1, <1>2, <1>3 DEF Inv, Steps, Monitors
<1>8. Gone'
  BY <1>1, <1>3 DEF Inv, Gone
<1>9. Rolling'
  BY <1>1, <1>2, <1>3 DEF Inv, Steps, Rolling
<1>10. Unwritten'
  BY <1>1, <1>2, <1>3 DEF Inv, Steps, Unwritten
<1>11. Fates'
  BY <1>1, <1>2, <1>3 DEF Inv, Fates, NoneRolled
<1>12. Outcome'
  BY <1>1, <1>2, <1>3, <1>4, ReturnsOutcome
<1>13. Covered' /\ AllOrNothing' /\ LateInDoubt' /\ Marked'
  BY <1>1, <1>2 DEF Inv, Covered, AllOrNothing, LateInDoubt, Marked, InDoubt
<1> QED
  BY <1>5, <1>6, <1>7, <1>8, <1>9, <1>10, <1>11, <1>12, <1>13 DEF Inv

\* The removal of the monitor (as_txn_close_monitor) keeps the invariant: the
\* roll was complete, so nothing is left to resolve.
LEMMA RemoveInv ==
  ASSUME Inv, ~Async, ~AbortInDoubt, Remove, Types'
  PROVE  Inv'
<1>1. UNCHANGED <<cmd, rec, expired, late, rolled, acked>>
  BY DEF Remove
<1>2. /\ txn'.state = txn.state /\ txn'.in_doubt = txn.in_doubt
      /\ txn'.write_in_doubt = txn.write_in_doubt
      /\ txn'.writes \in {txn.writes, {}}
      /\ \A k \in Key : txn'.reads[k] \in {txn.reads[k], 0}
  <2>1. CASE txn' = txn
    BY <2>1
  <2>2. CASE txn' = Clear(txn)
    BY <2>2 DEF Clear
  <2> QED
    BY <2>2 DEF Remove, Closed
<1>3. call.pc = "remove" /\ call'.pc = "idle"
      /\ monitor'.keys = monitor.keys
      /\ \/ monitor.state \in {"none", "closed"} /\ monitor'.state = monitor.state
         \/ monitor.state \notin {"none", "closed"} /\ monitor'.state = "closed"
  BY DEF Remove, Returned, NoCall, NewCall, Types, Monitors
<1>4. status' \in (IF call.roll = "fwd" THEN CommitSuccess
                   ELSE AbortSuccess \cup {"VERIFY_FAILED"})
  BY DEF Remove, Returned, CommitSuccess, AbortSuccess
<1>5. ReadOrWritten'
  BY <1>1, <1>2 DEF Inv, ReadOrWritten
<1>6. Covered'
  BY <1>1, <1>3 DEF Inv, Covered, Rolling
<1>7. Listed'
  BY <1>1, <1>2, <1>3 DEF Inv, Listed, Monitors
<1>8. Steps'
  BY <1>1, <1>3 DEF Inv, Steps, Monitors
<1>9. Gone'
  BY <1>1, <1>2, <1>3 DEF Inv, Steps, Gone, LateInDoubt, Rolling, Final
<1>10. Rolling'
  BY <1>2, <1>3 DEF Inv, Steps, Rolling
<1>11. Marked'
  BY <1>1, <1>2, <1>3 DEF Inv, Marked, InDoubt
<1>12. Unwritten'
  BY <1>1, <1>2, <1>3 DEF Inv, Steps, Unwritten
<1>13. Fates'
  BY <1>1, <1>2, <1>3 DEF Inv, Fates, NoneRolled
<1>14. Outcome'
  BY <1>1, <1>2, <1>3, <1>4, ReturnsOutcome
<1>15. AllOrNothing' /\ LateInDoubt'
  BY <1>1, <1>2 DEF Inv, AllOrNothing, LateInDoubt
<1> QED
  BY <1>5, <1>6, <1>7, <1>8, <1>9, <1>10, <1>11, <1>12, <1>13, <1>14, <1>15 DEF Inv

\* A failed removal of the monitor keeps the invariant: the roll was complete,
\* whether or not the monitor is still there.
LEMMA RemoveFailsInv ==
  ASSUME Inv, ~Async, ~AbortInDoubt, RemoveFails, Types'
  PROVE  Inv'
<1>1. Covered'
  BY DEF RemoveFails, Inv, Covered, Rolling
<1>2. Listed'
  BY DEF RemoveFails, Inv, Listed, Types, Monitors
<1>3. Steps'
  BY DEF RemoveFails, Returned, NoCall, NewCall, Inv, Steps
<1>4. Gone'
  BY DEF RemoveFails, Returned, NoCall, NewCall, Inv, Steps, Gone, LateInDoubt, Rolling, Final
<1>5. Rolling'
  BY DEF RemoveFails, Inv, Rolling
<1>6. Marked'
  BY DEF RemoveFails, Inv, Marked, InDoubt, Types, Monitors
<1>7. Unwritten'
  BY DEF RemoveFails, Inv, LateInDoubt, Rolling, Unwritten
<1>8. Fates'
  BY DEF RemoveFails, Returned, NoCall, NewCall, Inv, Fates, NoneRolled, Types, Monitors
<1>9. Outcome'
  <2>1. status' \in (IF call.roll = "fwd" THEN CommitSuccess
                     ELSE AbortSuccess \cup {"VERIFY_FAILED"})
    BY DEF RemoveFails, Returned, CommitSuccess, AbortSuccess
  <2> QED
    BY <2>1, ReturnsOutcome DEF RemoveFails
<1>10. ReadOrWritten' /\ AllOrNothing' /\ LateInDoubt'
  BY DEF RemoveFails, Inv, ReadOrWritten, AllOrNothing, LateInDoubt
<1> QED
  BY <1>1, <1>2, <1>3, <1>4, <1>5, <1>6, <1>7, <1>8, <1>9, <1>10 DEF Inv

\* The entry of aerospike_abort keeps the invariant: the roll back covers
\* every write.
LEMMA AbortInv ==
  ASSUME Inv, ~Async, ~AbortInDoubt, Abort, Types'
  PROVE  Inv'
<1>1. Steps'
  BY DEF Abort, Quiet, NewCall, Steps
<1>2. Gone'
  BY Zenon DEF Abort, MayAbort, Inv, Gone, Final, server
<1>3. Rolling'
  BY DEF Abort, MayAbort, NewCall, Inv, Rolling, server
<1>4. Marked'
  BY DEF Abort, MayAbort, Inv, Marked, InDoubt, server
<1>5. Unwritten'
  BY DEF Abort, Unwritten
<1>6. Fates'
  BY DEF Abort, MayAbort, NewCall, Inv, Fates, NoneRolled, server
<1>7. Outcome'
  BY DEF Abort, MayAbort, Inv, Outcome, server
<1>8. ReadOrWritten' /\ Covered' /\ AllOrNothing' /\ Listed' /\ LateInDoubt'
  BY DEF Abort, Inv, ReadOrWritten, Covered, AllOrNothing, Listed, LateInDoubt, server
<1> QED
  BY <1>1, <1>2, <1>3, <1>4, <1>5, <1>6, <1>7, <1>8 DEF Inv

\* A write from outside the transaction keeps the invariant: it needs a record
\* without a provisional write.
LEMMA OtherWritesInv ==
  ASSUME Inv, ~Async, ~AbortInDoubt, NEW k \in Key, OtherWrites(k), Types'
  PROVE  Inv'
<1>1. \A j \in Key : rec'[j].prov = rec[j].prov
  BY DEF OtherWrites, Inv, Types, Records
<1>2. UNCHANGED <<client, monitor, expired, late, rolled, acked>>
  BY DEF OtherWrites
<1> QED
  BY <1>1, <1>2, SameWrites

\* The expiry of the monitor keeps the invariant: an open monitor turns to
\* abort, a marked one stays marked.
LEMMA ExpiresInv ==
  ASSUME Inv, ~Async, ~AbortInDoubt, Expires, Types'
  PROVE  Inv'
<1>1. Covered'
  BY DEF Expires, Inv, Covered
<1>2. Listed'
  BY DEF Expires, Inv, Listed, client
<1>3. Gone'
  BY DEF Expires, Inv, Gone
<1>4. Marked'
  BY DEF Expires, Inv, Marked, InDoubt, client
<1>5. Unwritten'
  BY DEF Expires, Inv, Unwritten, client
<1>6. Fates'
  BY DEF Expires, Inv, Fates, NoneRolled, client
<1>7. ReadOrWritten' /\ AllOrNothing' /\ Steps' /\ LateInDoubt' /\ Rolling' /\ Outcome'
  BY
     DEF Expires, Inv, ReadOrWritten, AllOrNothing, Steps, LateInDoubt, Rolling, Outcome,
         NoneRolled, client
<1> QED
  BY <1>1, <1>2, <1>3, <1>4, <1>5, <1>6, <1>7 DEF Inv

\* The server's own roll of an expired transaction keeps the invariant: it
\* follows the state of the monitor.
LEMMA ServerRollsInv ==
  ASSUME Inv, ~Async, ~AbortInDoubt, NEW k \in Key, ServerRolls(k), Types'
  PROVE  Inv'
<1>1. UNCHANGED <<txn, cmd, call, status, monitor, expired, late, acked>>
  BY DEF ServerRolls, client
<1>2. /\ expired /\ monitor.state \in {"fwd", "abort"}
      /\ rec[k].prov /\ ~rec'[k].prov
      /\ rolled'[k] = rolled[k] \cup {IF monitor.state = "fwd" THEN "fwd" ELSE "back"}
      /\ \A j \in Key \ {k} : rec'[j].prov = rec[j].prov /\ rolled'[j] = rolled[j]
  BY DEF ServerRolls, Resolve, Resolved, Types
<1>3. monitor.state = "fwd"
        => txn.state # "ABORTED" /\ (call.pc \in {"roll", "remove"} => call.roll = "fwd")
      /\ (txn.state # "COMMITTED" => txn.state = "VERIFIED" /\ txn.in_doubt)
  BY DEF Inv, Marked, Steps, InDoubt
<1>4. monitor.state = "abort" => txn.state # "COMMITTED"
  BY <1>2 DEF Inv, Unwritten
<1>5. ReadOrWritten'
  BY <1>1, <1>2 DEF Inv, ReadOrWritten
<1>6. Covered'
  BY <1>1, <1>2 DEF Inv, Covered
<1>7. AllOrNothing'
  BY <1>2 DEF Inv, AllOrNothing, Fates, NoneRolled
<1>8. Listed'
  BY <1>1, <1>2 DEF Inv, Listed
<1>9. Gone'
  BY <1>1, <1>2 DEF Gone
<1>10. LateInDoubt'
  BY <1>1 DEF Inv, LateInDoubt
<1>11. Rolling'
  BY <1>1, <1>2 DEF Inv, Rolling
<1>12. Unwritten'
  BY <1>1, <1>2 DEF Inv, Unwritten
<1>13. Fates'
  BY <1>1, <1>2, <1>3, <1>4 DEF Inv, Fates, NoneRolled
<1>14. Outcome'
  <2>1. \A j \in acked : rec'[j].prov \/ rolled'[j] # {}
    <3>1. rolled'[k] # {}
      BY <1>2
    <3> QED
      BY Zenon, <1>2 DEF Inv, Outcome, Types
  <2>2. txn.state = "ABORTED" /\ NoneRolled("fwd") => NoneRolled("fwd")'
    BY <1>2, <1>3 DEF NoneRolled
  <2> QED
    BY <1>1, <2>1, <2>2 DEF Inv, Outcome
<1>15. Steps' /\ Marked'
  BY <1>1 DEF Inv, Steps, Marked, InDoubt
<1> QED
  BY <1>5, <1>6, <1>7, <1>8, <1>9, <1>10, <1>11, <1>12, <1>13, <1>14, <1>15 DEF Inv

\* The server's removal of an expired monitor keeps the invariant: it waits
\* until no listed record holds a write.
LEMMA ServerClosesInv ==
  ASSUME Inv, ~Async, ~AbortInDoubt, ServerCloses, Types'
  PROVE  Inv'
<1>1. Covered'
  BY DEF ServerCloses, Inv, Covered
<1>2. Listed'
  BY DEF ServerCloses, Inv, Listed, client
<1>3. Gone'
  BY DEF ServerCloses, Inv, Covered, Gone
<1>4. Marked'
  BY DEF ServerCloses, Marked
<1>5. Unwritten'
  BY DEF ServerCloses, Inv, Unwritten, client
<1>6. Fates'
  BY DEF ServerCloses, Inv, Fates, NoneRolled, client
<1>7. ReadOrWritten' /\ AllOrNothing' /\ Steps' /\ LateInDoubt' /\ Rolling' /\ Outcome'
  BY
     DEF ServerCloses, Inv, ReadOrWritten, AllOrNothing, Steps, LateInDoubt, Rolling,
         Outcome, NoneRolled, client
<1> QED
  BY <1>1, <1>2, <1>3, <1>4, <1>5, <1>6, <1>7 DEF Inv

\* The late arrival of a request that was in doubt keeps the invariant: a late
\* write was counted as in doubt, a late mark only meets a transaction in
\* doubt or an aborted monitor.
LEMMA LateArrivesInv ==
  ASSUME Inv, ~Async, ~AbortInDoubt, LateArrives, Types'
  PROVE  Inv'
<1>0. UNCHANGED <<client, expired, rolled, acked>> /\ late' \subseteq late
  BY DEF LateArrives
<1>1. CASE UNCHANGED rec /\ "mark" \in late
             /\ monitor' = [monitor EXCEPT !.state = IF @ = "open" THEN "fwd" ELSE @]
  <2>1. /\ monitor'.keys = monitor.keys
        /\ monitor'.state = IF monitor.state = "open" THEN "fwd" ELSE monitor.state
    BY <1>1 DEF Inv, Types, Monitors
  <2>2. ReadOrWritten'
    BY <1>0, <1>1, <2>1 DEF Inv, ReadOrWritten, client
  <2>3. Covered'
    BY <1>0, <1>1, <2>1 DEF Inv, Covered, client
  <2>4. AllOrNothing'
    BY <1>0, <1>1, <2>1 DEF Inv, AllOrNothing, client
  <2>5. Listed'
    BY <1>0, <1>1, <2>1 DEF Inv, Listed, client
  <2>6. Steps'
    BY <1>0, <1>1, <2>1 DEF Inv, Steps, client
  <2>7. Gone'
    BY <1>0, <1>1, <2>1 DEF Inv, Gone, Final, client
  <2>8. LateInDoubt'
    BY <1>0, <1>1, <2>1 DEF Inv, LateInDoubt, client
  <2>9. Rolling'
    BY <1>0, <1>1, <2>1 DEF Inv, Rolling, client
  <2>10. Marked'
    BY <1>0, <1>1, <2>1 DEF Inv, Marked, InDoubt, client
  <2>11. Unwritten'
    BY <1>0, <1>1, <2>1 DEF Inv, Unwritten, client
  <2>12. Fates'
    BY <1>0, <1>1, <2>1 DEF Inv, Fates, NoneRolled, Marked, InDoubt, client
  <2>13. Outcome'
    BY <1>0, <1>1, <2>1 DEF Inv, Outcome, NoneRolled, Types, client
  <2> QED
    BY <2>2, <2>3, <2>4, <2>5, <2>6, <2>7, <2>8, <2>9, <2>10, <2>11, <2>12, <2>13 DEF Inv
<1>2. ASSUME NEW m \in Key \cap late, UNCHANGED monitor, late' = late \ {m},
             rec' = IF expired THEN rec ELSE [rec EXCEPT ![m] = Provisional(@)]
      PROVE  Inv'
  <2>0. UNCHANGED <<txn, cmd, call, status, monitor>> /\ late' \subseteq late /\ m \in late
    BY <1>0, <1>2 DEF client
  <2>1. /\ \A j \in Key \ {m} : rec'[j].prov = rec[j].prov
        /\ rec'[m].prov = rec[m].prov \/ (~expired /\ rec'[m].prov)
    BY Zenon, <1>2 DEF Provisional, Inv, Types, Records
  <2>2. ReadOrWritten'
    BY <2>0, <2>1 DEF Inv, ReadOrWritten, LateInDoubt
  <2>3. Covered'
    BY <1>0, <1>2, <2>0, <2>1 DEF Inv, Covered, Gone, Listed, Types, Monitors
  <2>4. AllOrNothing'
    BY <1>0 DEF Inv, AllOrNothing
  <2>5. Listed'
    BY <1>0, <1>2, <2>0, <2>1 DEF Inv, Listed, client
  <2>6. Steps'
    BY <1>0, <1>2, <2>0, <2>1 DEF Inv, Steps, client
  <2>7. Gone'
    BY <1>0, <1>2, <2>0, <2>1 DEF Inv, Gone, Final, client
  <2>8. LateInDoubt'
    BY <1>0, <1>2, <2>0, <2>1 DEF Inv, LateInDoubt, client
  <2>9. Rolling'
    BY <1>0, <1>2, <2>0, <2>1 DEF Inv, Rolling, LateInDoubt, client
  <2>10. Marked'
    BY <1>0, <1>2, <2>0, <2>1 DEF Inv, Marked, InDoubt, client
  <2>11. Unwritten'
    BY <1>0, <1>2, <2>0, <2>1 DEF Inv, Unwritten, client
  <2>12. Fates'
    BY <1>0, <1>2, <2>0, <2>1 DEF Inv, Fates, NoneRolled, client
  <2>13. Outcome'
    BY <1>0, <1>2, <2>0, <2>1 DEF Inv, Outcome, NoneRolled, Types, client
  <2> QED
    BY <2>2, <2>3, <2>4, <2>5, <2>6, <2>7, <2>8, <2>9, <2>10, <2>11, <2>12, <2>13 DEF Inv
<1>3. PICK m \in late : LateArrives!1!(m)
  BY DEF LateArrives
<1>4. CASE m = "mark"
  BY <1>1, <1>3, <1>4
<1>5. CASE m # "mark"
  BY <1>2, <1>3, <1>5 DEF Inv, Types
<1> QED
  BY <1>4, <1>5

\* A new transaction satisfies the invariant: nothing is written or listed.
LEMMA InvInit == Init => Inv
<1>1. Init => ReadOrWritten
  BY DEF Init, ReadOrWritten
<1>2. Init => Covered
  BY DEF Init, Covered
<1>3. Init => AllOrNothing
  BY DEF Init, AllOrNothing
<1>4. Init => Listed
  BY DEF Init, Listed
<1>5. Init => Steps
  BY DEF Init, NoCall, NewCall, Steps
<1>6. Init => Gone
  BY DEF Init, Gone
<1>7. Init => LateInDoubt
  BY DEF Init, LateInDoubt
<1>8. Init => Rolling
  BY DEF Init, NewCall, Rolling
<1>9. Init => Marked
  BY DEF Init, Marked
<1>10. Init => Unwritten
  BY DEF Init, Unwritten
<1>11. Init => Fates
  BY DEF Init, Fates, NoneRolled
<1>12. Init => Outcome
  BY DEF Init, Outcome, CommitSuccess, AbortSuccess
<1> QED
  BY TypesInit, <1>1, <1>2, <1>3, <1>4, <1>5, <1>6, <1>7, <1>8, <1>9, <1>10, <1>11, <1>12
     DEF Inv

\* No step of the synchronous functions or of the server breaks the invariant.
LEMMA InvNext ==
  ASSUME Inv, [Next]_vars, ~Async, ~AbortInDoubt
  PROVE  Inv'
<1> Types'
  BY TypesNext DEF Inv
<1>1. CASE UNCHANGED vars
  BY <1>1, SameWrites DEF vars, client, server
<1>2. ASSUME NEW k \in Key, Read(k) PROVE Inv'
  BY <1>2, ReadInv
<1>3. ASSUME NEW k \in Key, AddKey(k) PROVE Inv'
  BY <1>3, AddKeyInv
<1>4. ASSUME NEW k \in Key, AddKeyFails(k) PROVE Inv'
  BY <1>4, AddKeyFailsInv
<1>5. ASSUME NEW k \in Key, Write(k) PROVE Inv'
  BY <1>5, WriteInv
<1>6. ASSUME NEW k \in Key, WriteInDoubt(k) PROVE Inv'
  BY <1>6, WriteInDoubtInv
<1>7. CASE Commit
  BY <1>7, CommitInv
<1>8. ASSUME NEW k \in Key, VerifyKey(k) PROVE Inv'
  BY <1>8, VerifyKeyInv
<1>9. CASE VerifyEnds
  BY <1>9, VerifyEndsInv
<1>10. CASE Mark
  BY <1>10, MarkInv
<1>11. CASE MarkError
  BY <1>11, MarkErrorInv
<1>12. ASSUME NEW k \in Key, RollKey(k) PROVE Inv'
  BY <1>12, RollKeyInv
<1>13. CASE RollEnds
  BY <1>13, RollEndsInv
<1>14. CASE Remove
  BY <1>14, RemoveInv
<1>15. CASE RemoveFails
  BY <1>15, RemoveFailsInv
<1>16. CASE Abort
  BY <1>16, AbortInv
<1>17. ASSUME NEW k \in Key, OtherWrites(k) PROVE Inv'
  BY <1>17, OtherWritesInv
<1>18. CASE Expires
  BY <1>18, ExpiresInv
<1>19. ASSUME NEW k \in Key, ServerRolls(k) PROVE Inv'
  BY <1>19, ServerRollsInv
<1>20. CASE ServerCloses
  BY <1>20, ServerClosesInv
<1>21. CASE LateArrives
  BY <1>21, LateArrivesInv
<1> QED
  BY <1>1, <1>2, <1>3, <1>4, <1>5, <1>6, <1>7, <1>8, <1>9, <1>10, <1>11, <1>12, <1>13,
     <1>14, <1>15, <1>16, <1>17, <1>18, <1>19, <1>20, <1>21
     DEF Next, CallSteps, Server, Finished

-----------------------------------------------------------------------------
(* Verification.  The reads stay a snapshot because versions only grow: a   *)
(* version that is current when it is verified was current all along.       *)

\* No command runs beside a call; a read is never ahead of its record; and
\* while as_txn_verify runs, what was verified was current when it began.
Fresh ==
    /\ \A k \in Key : cmd[k] = "write" => call.pc = "idle"
    /\ \A k \in Key : txn.reads[k] <= rec[k].ver
    /\ call.pc = "verify"
         => \A k \in Key :
              /\ txn.reads[k] <= snapshot[k] /\ snapshot[k] <= rec[k].ver
              /\ txn.reads[k] # 0 /\ k \notin call.todo /\ ~call.failed
                   => snapshot[k] = txn.reads[k]

\* Rolling a record never takes a version back.
LEMMA ResolveGrows ==
  ASSUME Types, NEW k \in Key, NEW roll, Resolve(k, roll), NEW j \in Key
  PROVE  rec[j].ver <= rec'[j].ver
<1>1. rec \in [Key -> Records] /\ rec[j].ver \in Nat /\ rec[k].ver \in Nat
  BY TxnAssumption DEF Types, Records, Versions
<1>2. CASE rec[k].prov
  <2>1. rec' = [rec EXCEPT ![k] = Resolved(rec[k], roll)]
    BY <1>2 DEF Resolve
  <2>2. rec[k].ver <= Resolved(rec[k], roll).ver
    BY <1>1, TxnAssumption DEF Resolved, Versions
  <2> QED
    BY <1>1, <2>1, <2>2
<1>3. CASE ~rec[k].prov
  BY <1>1, <1>3 DEF Resolve
<1> QED
  BY <1>2, <1>3

\* No step takes a version back.
LEMMA VersionsGrow ==
  ASSUME Types, Next, NEW j \in Key
  PROVE  rec[j].ver <= rec'[j].ver
<1>1. rec \in [Key -> Records] /\ rec[j].ver \in Nat /\ \A k \in Key : rec[k].ver \in Nat
  BY TxnAssumption DEF Types, Records, Versions
<1>2. CASE UNCHANGED rec
  BY <1>1, <1>2
<1>3. ASSUME NEW k \in Key, rec' = [rec EXCEPT ![k] = Provisional(rec[k])]
      PROVE  rec[j].ver <= rec'[j].ver
  BY <1>1, <1>3 DEF Provisional
<1>4. ASSUME NEW k \in Key, Write(k) \/ WriteInDoubt(k) PROVE rec[j].ver <= rec'[j].ver
  BY <1>2, <1>3, <1>4 DEF Write, WriteInDoubt
<1>5. ASSUME NEW k \in Key, RollKey(k) PROVE rec[j].ver <= rec'[j].ver
  BY <1>2, <1>5, ResolveGrows DEF RollKey
<1>6. ASSUME NEW k \in Key, ServerRolls(k) PROVE rec[j].ver <= rec'[j].ver
  BY <1>6, ResolveGrows DEF ServerRolls
<1>7. ASSUME NEW k \in Key, OtherWrites(k) PROVE rec[j].ver <= rec'[j].ver
  <2>1. rec' = [rec EXCEPT ![k].ver = rec[k].ver + 1]
    BY <1>7 DEF OtherWrites
  <2> QED
    BY <1>1, <2>1 DEF Records
<1>8. CASE LateArrives
  <2>1. PICK m \in late : IF m = "mark" THEN UNCHANGED rec
                          ELSE rec' = IF expired THEN rec ELSE [rec EXCEPT ![m] = Provisional(rec[m])]
    BY <1>8 DEF LateArrives
  <2>2. m = "mark" \/ m \in Key
    BY DEF Types
  <2> QED
    BY <1>2, <1>3, <2>1, <2>2
<1>9. ASSUME NEW k \in Key, Read(k) \/ AddKey(k) \/ AddKeyFails(k) \/ VerifyKey(k)
      PROVE  UNCHANGED rec
  BY <1>9 DEF Read, AddKey, AddKeyFails, VerifyKey, server, client
<1>10. CASE Commit \/ Abort \/ MarkError \/ RemoveFails \/ VerifyEnds \/ Mark
  BY <1>2, <1>10 DEF Commit, Abort, MarkError, RemoveFails, VerifyEnds, Mark, server, client
<1>11. CASE RollEnds \/ Remove \/ Expires \/ ServerCloses \/ Finished
  BY <1>2, <1>11 DEF RollEnds, Remove, Expires, ServerCloses, Finished, vars, server, client
<1> QED
  BY <1>2, <1>4, <1>5, <1>6, <1>7, <1>8, <1>9, <1>10, <1>11 DEF Next, CallSteps, Server

\* A step that neither begins nor advances a verification and forgets reads, at
\* most, keeps the reads fresh.
LEMMA ForgetsAtMost ==
  ASSUME Types, Types', Fresh, Next,
         \A k \in Key : txn'.reads[k] \in {0, txn.reads[k]},
         \A k \in Key : cmd'[k] = "write" => call'.pc = "idle",
         call'.pc = "verify" => UNCHANGED <<call, snapshot, txn>>
  PROVE  Fresh'
<1>1. ASSUME NEW k \in Key
      PROVE  /\ txn.reads[k] \in Nat /\ snapshot[k] \in Nat /\ rec[k].ver \in Nat
             /\ rec'[k].ver \in Nat /\ rec[k].ver <= rec'[k].ver
  BY VersionsGrow, TxnAssumption DEF Types, Txns, Records, Versions
<1>2. \A k \in Key : txn'.reads[k] <= rec'[k].ver
  BY <1>1 DEF Fresh
<1>3. CASE call'.pc = "verify"
  BY <1>1, <1>2, <1>3 DEF Fresh
<1> QED
  BY <1>2, <1>3 DEF Fresh

\* The reads stay fresh in every step.
LEMMA FreshNext ==
  ASSUME Types, Fresh, [Next]_vars
  PROVE  Fresh'
<1> Types'
  BY TypesNext
<1>1. ASSUME NEW k \in Key
      PROVE  /\ txn.reads[k] \in Nat /\ snapshot[k] \in Nat /\ rec[k].ver \in Nat
             /\ txn.reads \in [Key -> Nat]
  BY TxnAssumption DEF Types, Txns, Records, Versions
<1>2. CASE UNCHANGED vars
  BY <1>2 DEF Fresh, vars, client, server
<1>3. ASSUME NEW k \in Key, Read(k) PROVE Fresh'
  <2>1. /\ txn' = [txn EXCEPT !.reads[k] = rec[k].ver] /\ UNCHANGED <<cmd, call, rec>>
        /\ call.pc = "idle"
    BY <1>3 DEF Read, MayRun, server
  <2>2. txn'.reads = [txn.reads EXCEPT ![k] = rec[k].ver]
    BY <2>1 DEF Types, Txns
  <2> QED
    BY <1>1, <2>1, <2>2 DEF Fresh
<1>4. ASSUME NEW k \in Key, AddKey(k) PROVE Fresh'
  <2>1. call.pc = "idle" /\ UNCHANGED call /\ txn'.reads = txn.reads
    BY <1>4 DEF AddKey, MayRun, Types, Txns
  <2>2. Next
    BY <1>4 DEF Next
  <2> QED
    BY <2>1, <2>2, ForgetsAtMost
<1>5. ASSUME NEW k \in Key, Write(k) \/ WriteInDoubt(k) PROVE Fresh'
  <2>1. /\ call.pc = "idle" /\ UNCHANGED call
        /\ txn' \in {txn, OnWrite(txn, k), OnWriteInDoubt(txn, k)}
    BY <1>5 DEF Write, WriteInDoubt, Fresh
  <2>2. \A j \in Key : /\ OnWrite(txn, k).reads[j] \in {0, txn.reads[j]}
                       /\ OnWriteInDoubt(txn, k).reads[j] \in {0, txn.reads[j]}
    BY <1>1 DEF OnWrite, OnWriteInDoubt, Types, Txns
  <2>3. Next
    BY <1>5 DEF Next
  <2> QED
    BY <2>1, <2>2, <2>3, ForgetsAtMost
<1>6. CASE Commit
  <2>1. /\ UNCHANGED <<txn, cmd, rec>> /\ \A k \in Key : cmd[k] = "none"
        /\ \/ /\ call'.pc = "verify" /\ call'.todo = ReadKeys
              /\ snapshot' = [k \in Key |-> rec[k].ver]
           \/ call'.pc = "mark"
    BY <1>6 DEF Commit, Quiet, NewCall, server
  <2> QED
    BY <1>1, <2>1 DEF Fresh, ReadKeys
<1>7. ASSUME NEW k \in Key, VerifyKey(k) PROVE Fresh'
  <2>1. /\ UNCHANGED <<txn, cmd, rec, snapshot>> /\ call.pc = "verify" /\ call'.pc = "verify"
        /\ call'.todo = call.todo \ {k}
        /\ call.failed => call'.failed
        /\ ~call'.failed => rec[k].ver = txn.reads[k]
    BY <1>7, Zenon DEF VerifyKey, Verified, server, Types, Calls
  <2>2. ASSUME NEW j \in Key, txn.reads[j] # 0, j \notin call'.todo, ~call'.failed
        PROVE  snapshot[j] = txn.reads[j]
    <3>1. CASE j = k
      BY <1>1, <2>1, <2>2, <3>1 DEF Fresh
    <3>2. CASE j # k
      BY <2>1, <2>2, <3>2 DEF Fresh
    <3> QED
      BY <3>1, <3>2
  <2> QED
    BY <2>1, <2>2 DEF Fresh
<1>8. ASSUME NEW k \in Key, AddKeyFails(k) \/ OtherWrites(k) \/ ServerRolls(k) PROVE Fresh'
  <2>1. Next /\ UNCHANGED <<txn, cmd, call, snapshot>>
    BY <1>8 DEF Next, Server, AddKeyFails, OtherWrites, ServerRolls, client
  <2> QED
    BY <2>1, ForgetsAtMost DEF Fresh
<1>9. CASE Expires \/ ServerCloses \/ LateArrives \/ Finished
  <2>1. Next /\ UNCHANGED <<txn, cmd, call, snapshot>>
    BY <1>9 DEF Next, Server, Expires, ServerCloses, LateArrives, Finished, vars, client
  <2> QED
    BY <2>1, ForgetsAtMost DEF Fresh
<1>10. ASSUME Next, call.pc # "idle", UNCHANGED cmd, call'.pc # "verify",
              \A k \in Key : txn'.reads[k] \in {0, txn.reads[k]}
       PROVE  Fresh'
  BY <1>10, ForgetsAtMost DEF Fresh
<1>11. CASE VerifyEnds \/ Abort
  <2>1. UNCHANGED cmd /\ call'.pc # "verify" /\ txn'.reads = txn.reads /\ \A k \in Key : cmd[k] # "write"
    BY <1>11 DEF VerifyEnds, Abort, Quiet, NewCall, Types, Txns, Fresh
  <2>2. Next
    BY <1>11 DEF Next, CallSteps
  <2> QED
    BY <2>1, <2>2, ForgetsAtMost
<1>12. CASE Mark \/ MarkError
  <2>1. UNCHANGED cmd /\ call.pc # "idle"
    BY <1>12 DEF Mark, MarkError
  <2>2. call' \in {NoCall, NewCall("roll", txn.writes, "fwd", FALSE)}
    BY <1>12, Zenon DEF Mark, MarkError, MarkFails, Committed
  <2>3. txn' \in {txn, [txn EXCEPT !.state = "COMMITTED", !.in_doubt = FALSE], MarkAborted(txn),
                  [txn EXCEPT !.in_doubt = TRUE]}
    BY <1>12, Zenon DEF Mark, MarkError, MarkFails, Committed
  <2>4. txn'.reads = txn.reads
    BY <2>3 DEF MarkAborted, Types, Txns
  <2>5. Next
    BY <1>12 DEF Next, CallSteps
  <2> QED
    BY <1>10, <2>1, <2>2, <2>4, <2>5 DEF NoCall, NewCall
<1>13. ASSUME NEW k \in Key, RollKey(k) PROVE Fresh'
  <2>1. UNCHANGED cmd /\ call.pc = "roll"
    BY <1>13 DEF RollKey
  <2>2. call' \in {[call EXCEPT !.todo = @ \ {k}], [call EXCEPT !.todo = @ \ {k}, !.failed = TRUE]}
    BY <1>13, Zenon DEF RollKey
  <2>3. call'.pc = call.pc
    BY <2>2 DEF Types, Calls
  <2>4. txn'.reads = txn.reads
    BY <1>13 DEF RollKey, Types, Txns
  <2>5. Next
    BY <1>13 DEF Next, CallSteps
  <2> QED
    BY <1>10, <2>1, <2>3, <2>4, <2>5
<1>14. CASE RollEnds \/ Remove \/ RemoveFails
  <2>1. \A k \in Key : Closed(txn).reads[k] \in {0, txn.reads[k]}
    BY DEF Closed, Clear, Types, Txns
  <2>2. UNCHANGED cmd /\ call.pc \in {"roll", "remove"} /\ txn' \in {txn, Closed(txn)}
    BY <1>14 DEF RollEnds, Remove, RemoveFails
  <2>3. call' \in {NoCall, [call EXCEPT !.pc = "remove"]}
    BY <1>14, Zenon DEF RollEnds, Remove, RemoveFails, Returned
  <2>4. call'.pc # "verify"
    BY <2>3 DEF NoCall, NewCall, Types, Calls
  <2>5. Next
    BY <1>14 DEF Next, CallSteps
  <2> QED
    BY <1>10, <2>1, <2>2, <2>4, <2>5
<1> QED
  BY <1>2, <1>3, <1>4, <1>5, <1>6, <1>7, <1>8, <1>9, <1>11, <1>12, <1>13, <1>14
     DEF Next, CallSteps, Server

\* Only the end of as_txn_verify makes a transaction verified, when no read was
\* found changed.
LEMMA VerifiedByVerify ==
  ASSUME Types, Next, txn.state = "OPEN", txn'.state = "VERIFIED"
  PROVE  VerifyEnds /\ ~call.failed
<1>1. ASSUME NEW k \in Key, Read(k) \/ AddKey(k) \/ AddKeyFails(k) \/ VerifyKey(k) \/ OtherWrites(k)
      PROVE  FALSE
  BY <1>1 DEF Read, AddKey, AddKeyFails, VerifyKey, OtherWrites, client, Types, Txns
<1>2. ASSUME NEW k \in Key, Write(k) \/ WriteInDoubt(k) PROVE FALSE
  BY <1>2 DEF Write, WriteInDoubt, OnWrite, OnWriteInDoubt, Types, Txns
<1>3. ASSUME NEW k \in Key, RollKey(k) \/ ServerRolls(k) PROVE FALSE
  BY <1>3 DEF RollKey, ServerRolls, client, Types, Txns
<1>4. ~(Commit \/ Abort \/ MarkError \/ Mark)
  BY DEF Commit, Abort, MarkError, Mark, MarkFails, MarkAborted, Committed, Types, Txns
<1>5. ~(RemoveFails \/ RollEnds \/ Remove \/ Expires \/ ServerCloses \/ LateArrives \/ Finished)
  BY DEF RemoveFails, RollEnds, Remove, Closed, Clear, Expires, ServerCloses, LateArrives, Finished,
         vars, client, Types, Txns
<1>6. VerifyEnds
  BY <1>1, <1>2, <1>3, <1>4, <1>5 DEF Next, CallSteps, Server
<1> QED
  BY <1>6 DEF VerifyEnds, Types, Txns

-----------------------------------------------------------------------------
(* The theorems.                                                            *)

\* Without the abort of a transaction whose commit is in doubt, the synchronous
\* functions keep the inductive invariant.
LEMMA Invariance ==
  ASSUME ~Async, ~AbortInDoubt
  PROVE  Spec => []Inv
<1>1. Inv /\ [Next]_vars => Inv'
  BY InvNext
<1> QED
  BY <1>1, InvInit, PTL DEF Spec

\* What aerospike_commit and aerospike_abort know of the transaction is well
\* typed, and no key is verified as a read once it was written (as_txn_on_write).
THEOREM TypeCorrect ==
  ASSUME ~Async, ~AbortInDoubt
  PROVE  Spec => []TypeOK
<1>1. Inv => TypeOK
  BY DEF Inv, ReadOrWritten, TypeOK
<1> QED
  BY <1>1, Invariance, PTL

\* Atomicity: whatever the client rolls forward or back (as_txn_roll), and
\* whatever the server rolls after a timeout, all writes meet the same fate.
THEOREM Atomicity ==
  ASSUME ~Async, ~AbortInDoubt
  PROVE  Spec => []AllOrNothing
<1>1. Inv => AllOrNothing
  BY DEF Inv
<1> QED
  BY <1>1, Invariance, PTL

\* A success status of aerospike_commit means that every acknowledged write is
\* rolled forward, or that the marked monitor lists it.
THEOREM CommitDurability ==
  ASSUME ~Async, ~AbortInDoubt
  PROVE  Spec => []CommitHolds
<1>1. ASSUME Inv, status \in CommitSuccess, NEW k \in acked
      PROVE  /\ "back" \notin rolled[k]
             /\ "fwd" \in rolled[k]
                \/ (rec[k].prov /\ monitor.state = "fwd" /\ k \in monitor.keys)
  <2>1. k \in Key /\ rolled[k] \subseteq {"fwd", "back"} /\ txn.state = "COMMITTED"
    BY <1>1 DEF Inv, Types, Outcome
  <2>2. "back" \notin rolled[k]
    BY <1>1, <2>1 DEF Inv, Fates, NoneRolled
  <2>3. rec[k].prov => monitor.state = "fwd" /\ k \in monitor.keys
    BY <1>1, <2>1 DEF Inv, Covered, Unwritten
  <2>4. rec[k].prov \/ rolled[k] # {}
    BY <1>1 DEF Inv, Outcome
  <2> QED
    BY <2>1, <2>2, <2>3, <2>4
<1>2. Inv => CommitHolds
  BY <1>1 DEF CommitHolds
<1> QED
  BY <1>2, Invariance, PTL

\* A success status of aerospike_abort, or a failed verification, means that no
\* write is ever rolled forward.
THEOREM AbortSafety ==
  ASSUME ~Async, ~AbortInDoubt
  PROVE  Spec => []AbortHolds
<1>1. Inv => AbortHolds
  BY DEF Inv, Outcome, AbortHolds, NoneRolled
<1> QED
  BY <1>1, Invariance, PTL

\* as_txn_close_monitor never removes the monitor of a write that is, or may
\* still be, in place: the server can always finish what the client abandons.
THEOREM NothingOrphaned ==
  ASSUME ~Async, ~AbortInDoubt
  PROVE  Spec => []Covered
<1>1. Inv => Covered
  BY DEF Inv
<1> QED
  BY <1>1, Invariance, PTL

\* A commit only goes on when all its reads were current at one moment, the
\* beginning of as_txn_verify, whichever functions are used and although the keys are
\* verified one by one while other clients write.
THEOREM SnapshotReads == Spec => ReadsAreSnapshot
<1>1. Init => Types /\ Fresh
  <2>1. Init => Fresh
    BY DEF Init, Fresh, NoCall, NewCall
  <2> QED
    BY <2>1, TypesInit
<1>2. Types /\ Fresh /\ [Next]_vars => (Types /\ Fresh)'
  BY TypesNext, FreshNext
<1>3. Types /\ Fresh /\ [Next]_vars
        => [txn.state = "OPEN" /\ txn'.state = "VERIFIED"
              => \A k \in ReadKeys : snapshot[k] = txn.reads[k]]_vars
  <2>1. ASSUME Types, Fresh, Next, txn.state = "OPEN", txn'.state = "VERIFIED", NEW k \in ReadKeys
        PROVE  snapshot[k] = txn.reads[k]
    BY <2>1, VerifiedByVerify DEF VerifyEnds, Fresh, ReadKeys
  <2> QED
    BY <2>1
<1> QED
  BY <1>1, <1>2, <1>3, PTL DEF Spec, ReadsAreSnapshot

=============================================================================
