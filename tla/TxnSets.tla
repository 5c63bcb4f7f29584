------------------------------ MODULE TxnSets ------------------------------
(***************************************************************************)
(* What a transaction promises to remember of its commands: the version of *)
(* each record it read and did not write, and the records it wrote, or may *)
(* have written.  A step is one answer to a command of the transaction.    *)
(***************************************************************************)
EXTENDS Integers

CONSTANTS Digests, Versions

VARIABLES reads,   \* digest -> version, 0 when the record is not read
          writes   \* the digests written

NotRead == [d \in Digests |-> 0]

Init == reads = NotRead /\ writes = {}

\* An answer with a version: the record is read, or a write that was refused told it.
Knows(d, v) == reads' = [reads EXCEPT ![d] = v] /\ UNCHANGED writes

\* A write is applied, or no one knows.
Wrote(d) == reads' = [reads EXCEPT ![d] = 0] /\ writes' = writes \cup {d}

\* The transaction is over.
Forget == reads' = NotRead /\ writes' = {}

Next == Forget \/ \E d \in Digests : Wrote(d) \/ \E v \in Versions : Knows(d, v)

Spec == Init /\ [][Next]_<<reads, writes>>
=============================================================================
