---------------------------- MODULE TrackerProofs ---------------------------
(***************************************************************************)
(* Proofs about PartitionTracker, for any number of partitions, records    *)
(* and nodes, any max_records and any number of rounds, pages and faults:  *)
(* the inductive invariant, that the responses of the nodes in a round     *)
(* preserve it, that the steps that begin and end rounds and pages do, and *)
(* the theorems.                                                           *)
(***************************************************************************)
EXTENDS PartitionTracker, FiniteSetTheorems, TLAPS

\* A leaf that names no prover is tried with SMT, with Zenon, and with SMT at length.
USE SMT, Zenon, SMTT(20)

\* An event loop drives only scans without pages.
AsyncUnpaged == \A scan \in Scans : scan.async => scan.max_records = 0

-----------------------------------------------------------------------------
(* The invariant, in named parts.                                           *)

InRound == page.pc = "round"
Paged == MaxRecords > 0
Over(p) == parts[p].digest = Size[p]

\* The listener has accepted the records up to the digest, each of them once.
Accepted ==
    \A p \in Part : /\ parts[p].digest <= Size[p]
                    /\ \A r \in 1..Size[p] : got[p][r] = IF r <= parts[p].digest THEN 1 ELSE 0

\* The nodes of a round divide the partitions; a node without any is not asked.
Divided ==
    /\ \A m, n \in Node : m # n => np[m].parts \cap np[n].parts = {}
    /\ \A n \in Node : np[n].parts = {} => np[n] = NoPartitions

\* A record that was dropped because there are enough: the server is ahead of the
\* digest, and every record that follows is dropped, too.
Dropped ==
    InRound => \A n \in Node :
       /\ \A p \in np[n].parts : /\ stream[p].at \in parts[p].digest..Size[p]
                                 /\ stream[p].at # parts[p].digest => np[n].retry
       /\ np[n].retry => pt.check_max /\ pt.record_count >= pt.max_records

\* Partitions a node does not have are tried again.
Missed ==
    /\ InRound => \A n \in Node : \A p \in np[n].parts :
          ~stream[p].open => parts[p].retry /\ np[n].parts_unavailable > 0
    /\ \A n \in Node :
          /\ np[n].parts_unavailable <= Cardinality(np[n].parts)
          /\ InRound /\ np[n].open
               => np[n].parts_unavailable = Cardinality({p \in np[n].parts : ~stream[p].open})

\* A node has ended its response, or its partitions are tried again.
Ended ==
    InRound /\ ~page.fatal => \A n \in Node : ~np[n].open =>
       \/ np[n].parts_unavailable > 0 /\ \A p \in np[n].parts : parts[p].retry
       \/ MayStop(n)

\* A partition that is not asked again in this page has no more records, in the first
\* round and in a scan without pages.
Rest ==
    /\ page.pc = "assign" /\ (pt.iteration = 1 \/ ~Paged)
         => \A p \in Part \ ToRetry : Over(p)
    /\ InRound /\ (pt.iteration = 1 \/ ~Paged)
         => \A p \in Part : (\A n \in Node : p \notin np[n].parts) => Over(p)

\* The retry flag of all partitions, and when nothing is left to ask.
Flags ==
    /\ page.pc # "idle" => ~all.done
    /\ InRound \/ (page.pc = "assign" /\ (~Paged \/ pt.iteration # 1)) => all.retry
    /\ page.pc # "round" => ~page.fatal
    /\ page.pc # "idle" => pt.iteration \in Nat \ {0}
    /\ page.pc = "idle" => (all.done => \A p \in Part : Over(p)) /\ NothingForgotten

\* What a page has handed out and may still hand out.
Limits ==
    /\ IsFiniteSet(Counted)
    /\ page.pc = "idle" /\ Paged => page.records <= MaxRecords
    /\ page.pc # "idle" => (pt.max_records > 0 <=> Paged)
    /\ page.pc = "assign" /\ Paged => page.records + pt.max_records = MaxRecords
    /\ InRound /\ Paged => /\ page.records + pt.max_records = MaxRecords + RecordCount
                           /\ RecordCount <= pt.max_records
    /\ InRound /\ pt.check_max => Paged /\ RecordCount <= pt.record_count
    /\ InRound => \A n \in Node : np[n].parts # {} => (np[n].record_max > 0 <=> Paged)

\* The quotas of the nodes add up to what the page may still hand out.
Granted == UNION {{n} \X (1..np[n].record_max) : n \in Node}
Quotas ==
    InRound /\ Paged =>
       /\ ~pt.check_max => /\ IsFiniteSet(Granted) /\ Cardinality(Granted) <= pt.max_records
                           /\ \A n \in Node : np[n].record_count <= np[n].record_max
       /\ pt.record_count > 0 /\ ~page.fatal => Counted # {}

Counts == TrackerTypeOK /\ Accepted /\ Divided /\ Dropped /\ Missed /\ Limits /\ Quotas
Progress == Ended /\ Rest /\ Flags

-----------------------------------------------------------------------------
(* Types.                                                                   *)

NP == [parts : SUBSET Part, record_count : Nat, record_max : Nat,
       parts_unavailable : Nat, retry : BOOLEAN, open : BOOLEAN]
PS == [retry : BOOLEAN, digest : Nat]
PT == [iteration : Nat, max_records : Nat, record_count : Nat, check_max : BOOLEAN]
Page == [scan : Scans, pc : {"idle", "assign", "round"}, count : Nat, records : Nat, fatal : BOOLEAN]

\* The types of the variables, and of the scan in progress.
LEMMA Typed ==
  ASSUME TrackerAssumption, TrackerTypeOK
  PROVE  /\ np \in [Node -> NP] /\ parts \in [Part -> PS] /\ pt \in PT /\ page \in Page
         /\ all \in [retry : BOOLEAN, done : BOOLEAN] /\ stream \in [Part -> [at : Nat, open : BOOLEAN]]
         /\ Size \in [Part -> Nat] /\ MaxRecords \in Nat /\ page.scan \in Scans
<1>1. page \in Page
  BY DEF TrackerTypeOK, Page
<1>2. page.scan \in Scan
  BY <1>1 DEF TrackerAssumption, Page
<1>3. Size \in [Part -> Nat] /\ MaxRecords \in Nat
  BY <1>2 DEF Scan, Size, MaxRecords
<1> QED
  BY <1>1, <1>3 DEF TrackerTypeOK, NP, PS, PT, Page

\* One more record was handed over on this page.
LEMMA OneMoreRecord ==
  ASSUME NEW pg \in Page, NEW more, more = [pg EXCEPT !.records = @ + 1]
  PROVE  /\ more \in Page /\ more.scan = pg.scan /\ more.pc = pg.pc /\ (more.fatal <=> pg.fatal)
         /\ more.records = pg.records + 1 /\ pg.records \in Nat
  BY DEF Page

\* The digest of a partition moves.
LEMMA DigestMoves ==
  ASSUME NEW ps \in [Part -> PS], NEW p \in Part, NEW d \in Nat, NEW moved, moved = [ps EXCEPT ![p].digest = d]
  PROVE  /\ moved \in [Part -> PS] /\ moved[p].digest = d
         /\ \A q \in Part : (moved[q].retry <=> ps[q].retry) /\ (q # p => moved[q].digest = ps[q].digest)
  BY DEF PS

\* There are finitely many partitions.
LEMMA FinitePart == ASSUME TrackerAssumption PROVE IsFiniteSet(Part) /\ \A S \in SUBSET Part : IsFiniteSet(S) /\ Cardinality(S) \in Nat
<1>1. IsFiniteSet(Part)
  BY FS_Interval DEF Part, TrackerAssumption
<1> QED
  BY <1>1, FS_Subset, FS_CardinalityType

\* The records counted in a round are a number.
LEMMA RecordCountType == ASSUME IsFiniteSet(Counted) PROVE RecordCount \in Nat
  BY FS_CardinalityType DEF RecordCount

-----------------------------------------------------------------------------
(* A node's response ends, whichever way.                                   *)

Closes(n) ==
    /\ InRound /\ np[n].open
    /\ np' \in [Node -> NP]
    /\ \A m \in Node \ {n} : np'[m] = np[m]
    /\ np'[n].parts = np[n].parts /\ np'[n].record_count = np[n].record_count
    /\ np'[n].record_max = np[n].record_max /\ (np'[n].retry <=> np[n].retry) /\ ~np'[n].open
    /\ np[n].parts_unavailable <= np'[n].parts_unavailable
    /\ np'[n].parts_unavailable <= Cardinality(np[n].parts)
    /\ parts' \in [Part -> PS]
    /\ \A p \in Part : parts'[p].digest = parts[p].digest /\ (parts[p].retry => parts'[p].retry)
    /\ UNCHANGED <<all, stream, got>> /\ faults' \in Nat
    /\ page' = page \/ page' = [page EXCEPT !.fatal = TRUE]
    /\ pt' = pt \/ (pt' = [pt EXCEPT !.record_count = @ + 1] /\ page'.fatal)

\* Records are counted by the counts of the nodes alone.
LEMMA SameCounted ==
  ASSUME \A m \in Node : np'[m].record_count = np[m].record_count
  PROVE  Counted' = Counted /\ RecordCount' = RecordCount
<1>1. {{m} \X (1..np'[m].record_count) : m \in Node} = {{m} \X (1..np[m].record_count) : m \in Node}
  BY Zenon
<1>2. Counted' = Counted
  BY <1>1 DEF Counted
<1> QED
  BY <1>2 DEF RecordCount

\* Shares are those of the nodes.
LEMMA SameGranted ==
  ASSUME \A m \in Node : np'[m].record_max = np[m].record_max
  PROVE  Granted' = Granted
<1>1. {{m} \X (1..np'[m].record_max) : m \in Node} = {{m} \X (1..np[m].record_max) : m \in Node}
  BY Zenon
<1> QED
  BY <1>1 DEF Granted

\* What the end of a response leaves alone.
LEMMA ClosesSame ==
  ASSUME TrackerAssumption, Counts, NEW n \in Node, Closes(n)
  PROVE  /\ \A m \in Node : /\ np'[m].parts = np[m].parts /\ np'[m].record_count = np[m].record_count
                            /\ np'[m].record_max = np[m].record_max /\ (np'[m].retry <=> np[m].retry)
                            /\ np'[m].open => np[m].open /\ m # n
                            /\ np[m].parts_unavailable <= np'[m].parts_unavailable
         /\ page' \in Page /\ page'.scan = page.scan /\ page'.pc = "round" /\ page'.records = page.records
         /\ page'.count = page.count /\ (page.fatal => page'.fatal)
         /\ pt' \in PT /\ pt'.iteration = pt.iteration /\ pt'.max_records = pt.max_records
         /\ (pt'.check_max <=> pt.check_max) /\ pt'.record_count >= pt.record_count
         /\ pt'.record_count = pt.record_count \/ page'.fatal
         /\ np[n].parts # {}
<1>1. np \in [Node -> NP] /\ page \in Page /\ pt \in PT /\ page.pc = "round"
  BY Typed DEF Counts, Closes, InRound
<1>2. ASSUME NEW m \in Node
      PROVE  /\ np'[m].parts = np[m].parts /\ np'[m].record_count = np[m].record_count
             /\ np'[m].record_max = np[m].record_max /\ (np'[m].retry <=> np[m].retry)
             /\ np'[m].open => np[m].open /\ m # n
             /\ np[m].parts_unavailable <= np'[m].parts_unavailable
  <2>1. CASE m = n
    BY <2>1 DEF Closes
  <2>2. CASE m # n
    <3>1. np'[m] = np[m]
      BY <2>2 DEF Closes
    <3> QED
      BY <1>1, <2>2, <3>1 DEF NP
  <2> QED
    BY <2>1, <2>2
<1>3. /\ page' \in Page /\ page'.scan = page.scan /\ page'.pc = "round" /\ page'.records = page.records
      /\ page'.count = page.count /\ (page.fatal => page'.fatal)
  <2>1. CASE page' = page
    BY <1>1, <2>1
  <2>2. CASE page' = [page EXCEPT !.fatal = TRUE]
    BY Zenon, <1>1, <2>2 DEF Page
  <2> QED
    BY <2>1, <2>2 DEF Closes
<1>4. /\ pt' \in PT /\ pt'.iteration = pt.iteration /\ pt'.max_records = pt.max_records
      /\ (pt'.check_max <=> pt.check_max) /\ pt'.record_count >= pt.record_count
      /\ pt'.record_count = pt.record_count \/ page'.fatal
  <2>1. CASE pt' = pt
    BY <1>1, <2>1 DEF PT
  <2>2. CASE pt' = [pt EXCEPT !.record_count = @ + 1] /\ page'.fatal
    BY <1>1, <2>2 DEF PT
  <2> QED
    BY <2>1, <2>2 DEF Closes
<1>5. np[n].parts # {}
  BY DEF Counts, Divided, NoPartitions, Closes
<1> QED
  BY <1>2, <1>3, <1>4, <1>5

\* The end of a response keeps the counts exact.
LEMMA ClosesCounts ==
  ASSUME TrackerAssumption, Counts, NEW n \in Node, Closes(n)
  PROVE  Counts'
<1>1. /\ np \in [Node -> NP] /\ page \in Page /\ pt \in PT /\ page.pc = "round" /\ parts \in [Part -> PS]
      /\ Size \in [Part -> Nat] /\ MaxRecords \in Nat
  BY Typed DEF Counts, Closes, InRound
<1>2. Size' = Size /\ MaxRecords' = MaxRecords /\ (Paged' <=> Paged) /\ InRound' /\ InRound
  BY <1>1, ClosesSame DEF Size, MaxRecords, Paged, InRound
<1>3. Counted' = Counted /\ RecordCount' = RecordCount /\ Granted' = Granted
  BY ClosesSame, SameCounted, SameGranted
<1>4. \A m \in Node : np'[m].parts_unavailable <= Cardinality(np'[m].parts)
  <2> SUFFICES ASSUME NEW m \in Node PROVE np'[m].parts_unavailable <= Cardinality(np'[m].parts)
    OBVIOUS
  <2>1. CASE m = n
    BY <2>1, ClosesSame DEF Closes
  <2>2. CASE m # n
    BY Zenon, <2>2 DEF Counts, Missed, Closes
  <2> QED
    BY <2>1, <2>2
<1>5. TrackerTypeOK'
  BY Zenon, <1>2, <1>4, ClosesSame DEF Counts, TrackerTypeOK, Closes, NP, PS, PT, Page
<1>6. Accepted'
  BY <1>2 DEF Counts, Accepted, Closes
<1>7. Divided'
  <2>1. \A l, m \in Node : l # m => np'[l].parts \cap np'[m].parts = {}
    BY ClosesSame DEF Counts, Divided
  <2>2. ASSUME NEW m \in Node, np'[m].parts = {} PROVE np'[m] = NoPartitions
    <3>1. m # n /\ np[m].parts = {}
      BY <2>2, ClosesSame
    <3> QED
      BY <3>1 DEF Counts, Divided, Closes
  <2> QED
    BY <2>1, <2>2 DEF Divided, NoPartitions
<1>8. Dropped'
  <2> SUFFICES ASSUME NEW m \in Node
               PROVE  /\ \A p \in np'[m].parts : /\ stream'[p].at \in parts'[p].digest..Size'[p]
                                                 /\ stream'[p].at # parts'[p].digest => np'[m].retry
                      /\ np'[m].retry => pt'.check_max /\ pt'.record_count >= pt'.max_records
    BY DEF Dropped
  <2>1. \A p \in np[m].parts : /\ stream[p].at \in parts[p].digest..Size[p]
                               /\ stream[p].at # parts[p].digest => np[m].retry
    BY <1>2 DEF Counts, Dropped
  <2>2. np[m].retry => pt.check_max /\ pt.record_count >= pt.max_records
    BY <1>2 DEF Counts, Dropped
  <2>3. np[m].parts \subseteq Part
    BY <1>1 DEF NP
  <2>4. \A p \in np'[m].parts : /\ stream'[p].at \in parts'[p].digest..Size'[p]
                                /\ stream'[p].at # parts'[p].digest => np'[m].retry
    BY <1>2, <2>1, <2>3, ClosesSame DEF Closes
  <2>5. np'[m].retry => pt'.check_max /\ pt'.record_count >= pt'.max_records
    BY <1>1, <2>2, ClosesSame DEF PT
  <2> QED
    BY <2>4, <2>5
<1>9. Missed'
  <2>1. ASSUME NEW m \in Node, NEW p \in np'[m].parts, ~stream'[p].open
        PROVE  parts'[p].retry /\ np'[m].parts_unavailable > 0
    <3>1. p \in np[m].parts /\ p \in Part /\ ~stream[p].open
      BY <1>1, <2>1, ClosesSame DEF Closes, NP
    <3>2. parts[p].retry /\ np[m].parts_unavailable > 0
      BY <1>2, <3>1 DEF Counts, Missed
    <3>3. np[m].parts_unavailable \in Nat /\ np'[m].parts_unavailable \in Nat
      BY <1>1 DEF Closes, NP
    <3> QED
      BY <3>1, <3>2, <3>3, ClosesSame DEF Closes
  <2>2. ASSUME NEW m \in Node, np'[m].open
        PROVE  np'[m].parts_unavailable = Cardinality({p \in np'[m].parts : ~stream'[p].open})
    <3>1. m # n /\ np'[m] = np[m] /\ np[m].open
      BY <2>2, ClosesSame DEF Closes
    <3> QED
      BY <1>2, <3>1 DEF Counts, Missed, Closes
  <2> QED
    BY <1>4, <2>1, <2>2 DEF Missed
<1>10. Limits'
  BY <1>1, <1>2, <1>3, RecordCountType, ClosesSame DEF Counts, Limits, PT, InRound
<1>11. Quotas'
  BY <1>1, <1>2, <1>3, ClosesSame DEF Counts, Quotas, PT
<1> QED
  BY <1>5, <1>6, <1>7, <1>8, <1>9, <1>10, <1>11 DEF Counts

\* The end of a response forgets nothing: it was complete, or its partitions are tried again.
LEMMA ClosesProgress ==
  ASSUME TrackerAssumption, Counts, Progress, NEW n \in Node, Closes(n),
         \/ page'.fatal
         \/ np'[n].parts_unavailable > 0 /\ \A p \in np[n].parts : parts'[p].retry
         \/ MayStop(n)
  PROVE  Progress'
<1>1. /\ np \in [Node -> NP] /\ page \in Page /\ pt \in PT /\ page.pc = "round" /\ parts \in [Part -> PS]
      /\ Size \in [Part -> Nat] /\ MaxRecords \in Nat
  BY Typed DEF Counts, Closes, InRound
<1>2. /\ Size' = Size /\ MaxRecords' = MaxRecords /\ (Paged' <=> Paged) /\ InRound' /\ InRound
      /\ PartitionQuery' = PartitionQuery
  BY <1>1, ClosesSame DEF Size, MaxRecords, Paged, InRound, PartitionQuery
<1>3. ASSUME NEW m \in Node, MayStop(m) PROVE MayStop(m)'
  <2>1. Sent(m)' = Sent(m)
    BY ClosesSame DEF Sent
  <2>2. Exhausted(m)' <=> Exhausted(m)
    BY <1>2, ClosesSame DEF Exhausted, Closes
  <2>3. np'[m].record_max = np[m].record_max
    BY ClosesSame
  <2> QED
    BY <1>2, <1>3, <2>1, <2>2, <2>3 DEF MayStop
<1>4. Ended'
  <2> SUFFICES ASSUME ~page'.fatal, NEW m \in Node, ~np'[m].open
               PROVE  \/ np'[m].parts_unavailable > 0 /\ \A p \in np'[m].parts : parts'[p].retry
                      \/ MayStop(m)'
    BY DEF Ended
  <2>1. CASE m = n
    BY <1>3, <2>1, ClosesSame
  <2>2. CASE m # n
    <3>1. np'[m] = np[m] /\ ~page.fatal
      BY <2>2, ClosesSame DEF Closes
    <3>2. \/ np[m].parts_unavailable > 0 /\ \A p \in np[m].parts : parts[p].retry
          \/ MayStop(m)
      BY <1>2, <3>1 DEF Progress, Ended
    <3>3. np[m].parts \subseteq Part
      BY <1>1 DEF NP
    <3> QED
      BY <1>3, <3>1, <3>2, <3>3 DEF Closes
  <2> QED
    BY <2>1, <2>2
<1>5. Rest'
  <2> SUFFICES ASSUME pt'.iteration = 1 \/ ~Paged', NEW p \in Part, \A m \in Node : p \notin np'[m].parts
               PROVE  Over(p)'
    BY <1>2 DEF Rest, InRound
  <2>1. Over(p)
    BY <1>2, ClosesSame DEF Progress, Rest
  <2> QED
    BY <1>2, <2>1 DEF Over, Closes
<1>6. Flags'
  BY <1>1, <1>2, ClosesSame DEF Progress, Flags, Closes, InRound
<1> QED
  BY <1>4, <1>5, <1>6 DEF Progress

\* The record of a node that is no longer asked.
LEMMA CloseNode ==
  ASSUME np \in [Node -> NP], NEW n \in Node, NEW u \in Nat,
         \/ np' = [np EXCEPT ![n].open = FALSE] /\ u = np[n].parts_unavailable
         \/ np' = [np EXCEPT ![n].open = FALSE, ![n].parts_unavailable = u]
  PROVE  /\ np' \in [Node -> NP]
         /\ \A m \in Node \ {n} : np'[m] = np[m]
         /\ np'[n].parts = np[n].parts /\ np'[n].record_count = np[n].record_count
         /\ np'[n].record_max = np[n].record_max /\ (np'[n].retry <=> np[n].retry) /\ ~np'[n].open
         /\ np'[n].parts_unavailable = u
<1>1. PICK r : /\ np' = [np EXCEPT ![n] = r]
               /\ \/ r = [np[n] EXCEPT !.open = FALSE] /\ u = np[n].parts_unavailable
                  \/ r = [np[n] EXCEPT !.open = FALSE, !.parts_unavailable = u]
  BY Zenon
<1>2. np[n] \in NP
  OBVIOUS
<1>3. /\ r \in NP /\ r.parts = np[n].parts /\ r.record_count = np[n].record_count
      /\ r.record_max = np[n].record_max /\ (r.retry <=> np[n].retry) /\ ~r.open /\ r.parts_unavailable = u
  <2>1. CASE r = [np[n] EXCEPT !.open = FALSE] /\ u = np[n].parts_unavailable
    BY Zenon, <1>2, <2>1 DEF NP
  <2>2. CASE r = [np[n] EXCEPT !.open = FALSE, !.parts_unavailable = u]
    BY Zenon, <1>2, <2>2 DEF NP
  <2> QED
    BY <1>1, <2>1, <2>2
<1> QED
  BY <1>1, <1>3

\* Every way in which a response ends closes it.
LEMMA NodeEndsStep ==
  ASSUME TrackerAssumption, Counts, NEW n \in Node, NodeEnds(n) \/ NodeStops(n) \/ NodeAborts(n) \/ NodeFails(n)
  PROVE  Closes(n)
<1>1. np \in [Node -> NP] /\ page \in Page /\ parts \in [Part -> PS] /\ faults \in Nat
  BY Typed DEF Counts, TrackerTypeOK
<1>2. /\ InRound /\ np[n].open /\ np[n].parts_unavailable <= Cardinality(np[n].parts)
      /\ np[n].parts_unavailable \in Nat /\ np[n].parts \in SUBSET Part
  BY Zenon, <1>1 DEF NodeEnds, NodeStops, NodeAborts, NodeFails, InRound, Counts, Missed, NP
<1>3. CASE NodeEnds(n) \/ NodeStops(n) \/ NodeAborts(n)
  <2>1. np' = [np EXCEPT ![n].open = FALSE] /\ UNCHANGED <<all, parts, pt, stream, got>> /\ faults' \in Nat
    BY <1>1, <1>3 DEF NodeEnds, NodeStops, NodeAborts, Fault
  <2>2. page' = page \/ page' = [page EXCEPT !.fatal = TRUE]
    BY <1>3 DEF NodeEnds, NodeStops, NodeAborts
  <2>3. /\ np' \in [Node -> NP]
        /\ \A m \in Node \ {n} : np'[m] = np[m]
        /\ np'[n].parts = np[n].parts /\ np'[n].record_count = np[n].record_count
        /\ np'[n].record_max = np[n].record_max /\ (np'[n].retry <=> np[n].retry) /\ ~np'[n].open
        /\ np'[n].parts_unavailable = np[n].parts_unavailable
    BY Zenon, <1>1, <1>2, <2>1, CloseNode
  <2> QED
    BY <1>1, <1>2, <2>1, <2>2, <2>3 DEF Closes
<1>4. CASE NodeFails(n)
  <2>1. PICK u : u = UnavailableParts(n)
    OBVIOUS
  <2>2. /\ np' = [np EXCEPT ![n].open = FALSE, ![n].parts_unavailable = u]
        /\ UNCHANGED <<all, pt, stream, page, got>> /\ faults' \in Nat
        /\ parts' = [p \in Part |-> [parts[p] EXCEPT !.retry = @ \/ p \in np[n].parts]]
    BY <1>1, <1>4, <2>1 DEF NodeFails, Fault, PartsOf
  <2>3. u \in Nat /\ u = Cardinality(np[n].parts)
    BY <1>2, <2>1, FinitePart DEF UnavailableParts
  <2>4. /\ np' \in [Node -> NP]
        /\ \A m \in Node \ {n} : np'[m] = np[m]
        /\ np'[n].parts = np[n].parts /\ np'[n].record_count = np[n].record_count
        /\ np'[n].record_max = np[n].record_max /\ (np'[n].retry <=> np[n].retry) /\ ~np'[n].open
        /\ np'[n].parts_unavailable = u
    BY Zenon, <1>1, <2>2, <2>3, CloseNode
  <2>5. parts' \in [Part -> PS] /\ \A p \in Part : parts'[p].digest = parts[p].digest /\ (parts[p].retry => parts'[p].retry)
    BY Zenon, <1>1, <2>2 DEF PS
  <2> QED
    BY <1>2, <2>2, <2>3, <2>4, <2>5 DEF Closes
<1> QED
  BY <1>3, <1>4

\* A response ends, stops, is aborted or fails.
LEMMA NodeEndsInv ==
  ASSUME TrackerAssumption, Counts, NEW n \in Node, NodeEnds(n) \/ NodeStops(n) \/ NodeAborts(n) \/ NodeFails(n)
  PROVE  Counts' /\ (Progress => Progress')
<1>1. Closes(n)
  BY NodeEndsStep
<1>2. \/ page'.fatal
      \/ np'[n].parts_unavailable > 0 /\ \A p \in np[n].parts : parts'[p].retry
      \/ MayStop(n)
  <2>1. np \in [Node -> NP] /\ page \in Page /\ parts \in [Part -> PS] /\ np[n].parts \in SUBSET Part /\ np[n].parts # {}
    BY <1>1, ClosesSame, Typed DEF Counts, NP
  <2>2. CASE NodeEnds(n)
    BY <2>2 DEF NodeEnds
  <2>3. CASE NodeStops(n)
    BY <2>3 DEF NodeStops
  <2>4. CASE NodeAborts(n)
    BY Zenon, <2>1, <2>4 DEF NodeAborts, Page
  <2>5. CASE NodeFails(n)
    <3>1. np'[n].parts_unavailable = Cardinality(np[n].parts)
      BY <2>1, <2>5 DEF NodeFails, NP, UnavailableParts
    <3>2. Cardinality(np[n].parts) \in Nat /\ IsFiniteSet(np[n].parts)
      BY <2>1, FinitePart
    <3>3. Cardinality(np[n].parts) > 0
      BY <2>1, <3>2, FS_EmptySet
    <3>4. \A p \in np[n].parts : parts'[p].retry
      BY Zenon, <2>1, <2>5 DEF NodeFails, PartsOf, PS
    <3> QED
      BY <3>1, <3>3, <3>4
  <2> QED
    BY <2>2, <2>3, <2>4, <2>5
<1> QED
  BY <1>1, <1>2, ClosesCounts, ClosesProgress

\* The listener stops the scan.
LEMMA UserStopsInv ==
  ASSUME TrackerAssumption, Counts, NEW n \in Node, NEW p \in Part, UserStops(n, p)
  PROVE  Counts' /\ (Progress => Progress')
<1>1. np \in [Node -> NP] /\ page \in Page /\ parts \in [Part -> PS] /\ faults \in Nat /\ pt \in PT
  BY Zenon, Typed DEF Counts, TrackerTypeOK
<1>2. /\ InRound /\ np[n].open /\ np[n].parts_unavailable <= Cardinality(np[n].parts)
      /\ np[n].parts_unavailable \in Nat
  BY Zenon, <1>1 DEF UserStops, Sends, InRound, Counts, Missed, NP
<1>3. /\ np' = [np EXCEPT ![n].open = FALSE] /\ UNCHANGED <<all, parts, stream, got>> /\ faults' \in Nat
      /\ page' = [page EXCEPT !.fatal = TRUE]
  BY <1>1 DEF UserStops, Fault
<1>4. page'.fatal
  BY <1>1, <1>3 DEF Page
<1>5. /\ np' \in [Node -> NP]
      /\ \A m \in Node \ {n} : np'[m] = np[m]
      /\ np'[n].parts = np[n].parts /\ np'[n].record_count = np[n].record_count
      /\ np'[n].record_max = np[n].record_max /\ (np'[n].retry <=> np[n].retry) /\ ~np'[n].open
      /\ np'[n].parts_unavailable = np[n].parts_unavailable
  BY Zenon, <1>1, <1>2, <1>3, CloseNode
<1>6. pt' = pt \/ pt' = [pt EXCEPT !.record_count = @ + 1]
  BY DEF UserStops, CountRecord
<1>7. Closes(n)
  BY <1>1, <1>2, <1>3, <1>4, <1>5, <1>6 DEF Closes
<1> QED
  BY <1>4, <1>7, ClosesCounts, ClosesProgress

-----------------------------------------------------------------------------
(* A record arrives.                                                        *)

Receives(n, p) ==
    /\ InRound /\ np[n].open /\ p \in np[n].parts /\ stream[p].open /\ stream[p].at < Size[p]
    /\ np' \in [Node -> NP] /\ \A m \in Node \ {n} : np'[m] = np[m]
    /\ np'[n].parts = np[n].parts /\ np'[n].record_max = np[n].record_max /\ np'[n].open
    /\ np'[n].parts_unavailable = np[n].parts_unavailable
    /\ parts' \in [Part -> PS]
    /\ \A q \in Part : (parts'[q].retry <=> parts[q].retry) /\ (q # p => parts'[q].digest = parts[q].digest)
    /\ stream' \in [Part -> [at : Nat, open : BOOLEAN]] /\ stream'[p].at = stream[p].at + 1
    /\ \A q \in Part : (stream'[q].open <=> stream[q].open) /\ (q # p => stream'[q].at = stream[q].at)
    /\ pt' \in PT /\ pt'.iteration = pt.iteration /\ pt'.max_records = pt.max_records
    /\ (pt'.check_max <=> pt.check_max)
    /\ page' \in Page /\ page'.scan = page.scan /\ page'.pc = page.pc /\ (page'.fatal <=> page.fatal)
    /\ UNCHANGED <<all, faults>>

\* A record that arrives leaves the division of the partitions as it is.
LEMMA ReceivesInv ==
  ASSUME TrackerAssumption, Counts, NEW n \in Node, NEW p \in Part, Receives(n, p)
  PROVE  /\ Divided' /\ Missed' /\ (Progress => Progress')
         /\ Size' = Size /\ MaxRecords' = MaxRecords /\ (Paged' <=> Paged) /\ InRound' /\ InRound
         /\ \A m \in Node : np'[m].parts = np[m].parts /\ np'[m].record_max = np[m].record_max
         /\ \A m \in Node \ {n} : p \notin np[m].parts
<1>1. /\ np \in [Node -> NP] /\ page \in Page /\ pt \in PT /\ parts \in [Part -> PS]
      /\ Size \in [Part -> Nat] /\ MaxRecords \in Nat
  BY Typed DEF Counts
<1>2. /\ Size' = Size /\ MaxRecords' = MaxRecords /\ (Paged' <=> Paged) /\ InRound' /\ InRound
      /\ PartitionQuery' = PartitionQuery
  BY DEF Size, MaxRecords, Paged, InRound, Receives, PartitionQuery
<1>3. \A m \in Node : /\ np'[m].parts = np[m].parts /\ np'[m].record_max = np[m].record_max
                      /\ np'[m].parts_unavailable = np[m].parts_unavailable /\ (np'[m].open <=> np[m].open)
  <2> SUFFICES ASSUME NEW m \in Node
               PROVE  /\ np'[m].parts = np[m].parts /\ np'[m].record_max = np[m].record_max
                      /\ np'[m].parts_unavailable = np[m].parts_unavailable /\ (np'[m].open <=> np[m].open)
    OBVIOUS
  <2>1. CASE m = n
    BY <2>1 DEF Receives
  <2>2. CASE m # n
    BY Zenon, <2>2 DEF Receives
  <2> QED
    BY <2>1, <2>2
<1>4. \A m \in Node \ {n} : p \notin np[m].parts
  BY Zenon DEF Receives, Counts, Divided
<1>5. Divided'
  <2>1. \A l, m \in Node : l # m => np'[l].parts \cap np'[m].parts = {}
    BY Zenon, <1>3 DEF Counts, Divided
  <2>2. ASSUME NEW m \in Node, np'[m].parts = {} PROVE np'[m] = NoPartitions
    <3>1. m # n /\ np[m].parts = {}
      BY <1>3, <2>2 DEF Receives
    <3> QED
      BY <3>1 DEF Counts, Divided, Receives
  <2> QED
    BY Zenon, <2>1, <2>2 DEF Divided, NoPartitions
<1>6. Missed'
  <2>1. \A m \in Node : np[m].parts \subseteq Part
    BY <1>1 DEF NP
  <2>2. ASSUME NEW m \in Node
        PROVE  /\ \A q \in np'[m].parts : ~stream'[q].open => parts'[q].retry /\ np'[m].parts_unavailable > 0
               /\ np'[m].parts_unavailable <= Cardinality(np'[m].parts)
    BY Zenon, <1>2, <1>3, <2>1 DEF Counts, Missed, Receives
  <2>3. ASSUME NEW m \in Node, np'[m].open
        PROVE  np'[m].parts_unavailable = Cardinality({q \in np'[m].parts : ~stream'[q].open})
    <3>1. {q \in np'[m].parts : ~stream'[q].open} = {q \in np[m].parts : ~stream[q].open}
      BY <1>3, <2>1 DEF Receives
    <3> QED
      BY Zenon, <1>2, <1>3, <2>3, <3>1 DEF Counts, Missed
  <2> QED
    BY <2>2, <2>3 DEF Missed
<1>7. ASSUME Progress PROVE Progress'
  <2>1. Ended'
    <3> SUFFICES ASSUME ~page'.fatal, NEW m \in Node, ~np'[m].open
                 PROVE  \/ np'[m].parts_unavailable > 0 /\ \A q \in np'[m].parts : parts'[q].retry
                        \/ MayStop(m)'
      BY Zenon DEF Ended
    <3>1. m # n /\ np'[m] = np[m] /\ ~page.fatal /\ ~np[m].open /\ np[m].parts \subseteq Part
      BY <1>1, <1>3 DEF Receives, NP
    <3>2. \/ np[m].parts_unavailable > 0 /\ \A q \in np[m].parts : parts[q].retry
          \/ MayStop(m)
      BY Zenon, <1>2, <1>7, <3>1 DEF Progress, Ended
    <3>3. Exhausted(m)' <=> Exhausted(m)
      BY <1>2, <1>4, <3>1 DEF Exhausted, Receives
    <3>4. Sent(m)' = Sent(m)
      BY <3>1 DEF Sent
    <3>5. MayStop(m)' <=> MayStop(m)
      BY Zenon, <1>2, <3>1, <3>3, <3>4 DEF MayStop
    <3> QED
      BY <3>1, <3>2, <3>5 DEF Receives
  <2>2. Rest'
    <3> SUFFICES ASSUME pt'.iteration = 1 \/ ~Paged', NEW q \in Part, \A m \in Node : q \notin np'[m].parts
                 PROVE  Over(q)'
      BY Zenon, <1>2 DEF Rest, InRound
    <3>1. Over(q) /\ q # p
      BY Zenon, <1>2, <1>3, <1>7 DEF Progress, Rest, Receives
    <3> QED
      BY <1>2, <3>1 DEF Over, Receives
  <2>3. Flags'
    BY <1>1, <1>2, <1>7 DEF Progress, Flags, Receives, InRound
  <2> QED
    BY Zenon, <2>1, <2>2, <2>3 DEF Progress
<1> QED
  BY Zenon, <1>2, <1>3, <1>4, <1>5, <1>6, <1>7

\* The server goes on to the next record.
LEMMA StreamMoves ==
  ASSUME stream \in [Part -> [at : Nat, open : BOOLEAN]], NEW p \in Part, stream' = [stream EXCEPT ![p].at = @ + 1]
  PROVE  /\ stream' \in [Part -> [at : Nat, open : BOOLEAN]] /\ stream'[p].at = stream[p].at + 1
         /\ \A q \in Part : (stream'[q].open <=> stream[q].open) /\ (q # p => stream'[q].at = stream[q].at)
  OBVIOUS

\* A record is counted against max_records.
LEMMA CountsRecord ==
  ASSUME pt \in PT, CountRecord
  PROVE  /\ pt' \in PT /\ pt'.iteration = pt.iteration /\ pt'.max_records = pt.max_records
         /\ (pt'.check_max <=> pt.check_max)
         /\ pt'.record_count = IF pt.check_max THEN pt.record_count + 1 ELSE pt.record_count
<1>1. CASE pt.check_max
  BY <1>1 DEF CountRecord, PT
<1>2. CASE ~pt.check_max
  BY <1>2 DEF CountRecord, PT
<1> QED
  BY <1>1, <1>2

\* There are enough records: this one is dropped.
LEMMA DropInv ==
  ASSUME TrackerAssumption, Counts, NEW n \in Node, NEW p \in Part, Record(n, p), ReachedMax
  PROVE  Counts' /\ (Progress => Progress')
<1>1. /\ np \in [Node -> NP] /\ page \in Page /\ pt \in PT /\ parts \in [Part -> PS]
      /\ Size \in [Part -> Nat] /\ MaxRecords \in Nat /\ stream \in [Part -> [at : Nat, open : BOOLEAN]]
  BY Typed DEF Counts
<1>2. /\ InRound /\ np[n].open /\ p \in np[n].parts /\ stream[p].open /\ stream[p].at < Size[p]
      /\ stream' = [stream EXCEPT ![p].at = @ + 1] /\ CountRecord
      /\ np' = [np EXCEPT ![n].retry = TRUE] /\ UNCHANGED <<parts, got, page, all, faults>>
  BY DEF Record, Sends, InRound
<1>3. /\ np' \in [Node -> NP] /\ (\A m \in Node \ {n} : np'[m] = np[m])
      /\ np'[n].parts = np[n].parts /\ np'[n].record_max = np[n].record_max /\ np'[n].open
      /\ np'[n].parts_unavailable = np[n].parts_unavailable /\ np'[n].record_count = np[n].record_count
      /\ np'[n].retry
  BY Zenon, <1>1, <1>2 DEF NP
<1>4. /\ pt' \in PT /\ pt'.iteration = pt.iteration /\ pt'.max_records = pt.max_records
      /\ pt'.check_max /\ pt.check_max /\ pt'.record_count = pt.record_count + 1
      /\ pt.record_count + 1 > pt.max_records
  BY <1>1, <1>2, CountsRecord DEF ReachedMax
<1>5. Receives(n, p)
  BY Zenon, <1>1, <1>2, <1>3, <1>4, StreamMoves DEF Receives
<1>6. /\ Size' = Size /\ MaxRecords' = MaxRecords /\ (Paged' <=> Paged) /\ InRound' /\ InRound
      /\ \A m \in Node : np'[m].parts = np[m].parts /\ np'[m].record_max = np[m].record_max
      /\ \A m \in Node \ {n} : p \notin np[m].parts
  BY <1>5, ReceivesInv
<1>7. Divided' /\ Missed' /\ (Progress => Progress')
  BY <1>5, ReceivesInv
<1>8. \A m \in Node : np'[m].record_count = np[m].record_count
  BY <1>3
<1>9. Counted' = Counted /\ RecordCount' = RecordCount
  BY <1>8, SameCounted
<1>10. TrackerTypeOK'
  <2>1. \A m \in Node : np'[m].parts_unavailable <= Cardinality(np'[m].parts)
    BY Zenon, <1>7 DEF Missed
  <2>2. stream' \in [Part -> [at : Nat, open : BOOLEAN]]
    BY <1>5 DEF Receives
  <2> QED
    BY Zenon, <1>2, <1>3, <1>4, <1>6, <2>1, <2>2 DEF Counts, TrackerTypeOK, NP, PT
<1>11. Accepted'
  BY <1>2, <1>6 DEF Counts, Accepted
<1>12. Dropped'
  <2> SUFFICES ASSUME NEW m \in Node
               PROVE  /\ \A q \in np'[m].parts : /\ stream'[q].at \in parts'[q].digest..Size'[q]
                                                 /\ stream'[q].at # parts'[q].digest => np'[m].retry
                      /\ np'[m].retry => pt'.check_max /\ pt'.record_count >= pt'.max_records
    BY DEF Dropped
  <2>1. np'[m].retry => pt'.check_max /\ pt'.record_count >= pt'.max_records
    BY <1>1, <1>4 DEF PT
  <2>2. ASSUME NEW q \in np'[m].parts
        PROVE  /\ stream'[q].at \in parts'[q].digest..Size'[q]
               /\ stream'[q].at # parts'[q].digest => np'[m].retry
    <3>1. q \in np[m].parts /\ q \in Part
      BY <1>1, <1>6, <2>2 DEF NP
    <3>2. stream[q].at \in parts[q].digest..Size[q] /\ (stream[q].at # parts[q].digest => np[m].retry)
      BY Zenon, <1>2, <3>1 DEF Counts, Dropped
    <3>3. CASE q = p
      <4>1. m = n /\ np'[m].retry
        BY <1>3, <1>6, <3>1, <3>3
      <4>2. stream'[q].at = stream[q].at + 1 /\ stream[q].at < Size[q] /\ parts'[q] = parts[q]
        BY <1>2, <1>5, <3>3 DEF Receives
      <4>3. parts[q].digest \in Nat /\ Size[q] \in Nat
        BY <1>1, <3>1 DEF PS
      <4> QED
        BY <1>6, <3>2, <4>1, <4>2, <4>3
    <3>4. CASE q # p
      <4>1. stream'[q].at = stream[q].at /\ parts'[q] = parts[q]
        BY Zenon, <1>2, <1>5, <3>1, <3>4 DEF Receives
      <4>2. np[m].retry => np'[m].retry
        BY <1>3
      <4> QED
        BY <1>6, <3>2, <4>1, <4>2
    <3> QED
      BY <3>3, <3>4
  <2> QED
    BY <2>1, <2>2
<1>13. Limits'
  <2>1. RecordCount \in Nat /\ pt.record_count \in Nat
    BY <1>1, RecordCountType DEF Counts, Limits, PT
  <2> QED
    BY <1>2, <1>4, <1>6, <1>9, <2>1 DEF Counts, Limits, InRound
<1>14. Quotas'
  <2>1. ASSUME Paged, ~page.fatal PROVE Counted # {}
    <3>1. pt.max_records > 0 /\ pt.max_records \in Nat /\ pt.record_count \in Nat
      BY <1>1, <1>2, <2>1 DEF Counts, Limits, PT, InRound
    <3> QED
      BY <1>2, <1>4, <2>1, <3>1 DEF Counts, Quotas
  <2> QED
    BY <1>2, <1>4, <1>6, <1>9, <2>1 DEF Quotas
<1> QED
  BY Zenon, <1>7, <1>10, <1>11, <1>12, <1>13, <1>14 DEF Counts

\* One more record is counted.
LEMMA CountedGrows ==
  ASSUME np \in [Node -> NP], np' \in [Node -> NP], NEW n \in Node, \A m \in Node \ {n} : np'[m] = np[m],
         np'[n].record_count = np[n].record_count + 1, IsFiniteSet(Counted)
  PROVE  /\ IsFiniteSet(Counted') /\ RecordCount' = RecordCount + 1 /\ Counted' # {}
<1>1. PICK k : k = np[n].record_count + 1 /\ k \in Nat
  BY DEF NP
<1>2. <<n, k>> \notin Counted
  <2> SUFFICES ASSUME NEW m \in Node, <<n, k>> \in {m} \X (1..np[m].record_count) PROVE FALSE
    BY DEF Counted
  <2>1. m = n /\ k \in 1..np[n].record_count
    OBVIOUS
  <2> QED
    BY <1>1, <2>1 DEF NP
<1>3. Counted' = Counted \cup {<<n, k>>}
  <2>1. ASSUME NEW x \in Counted' PROVE x \in Counted \cup {<<n, k>>}
    <3>1. PICK m \in Node : x \in {m} \X (1..np'[m].record_count)
      BY <2>1 DEF Counted
    <3>2. CASE m # n
      BY <3>1, <3>2 DEF Counted
    <3>3. CASE m = n
      <4>1. PICK i \in 1..(np[n].record_count + 1) : x = <<n, i>>
        BY <3>1, <3>3
      <4>2. i = k \/ i \in 1..np[n].record_count
        BY <1>1, <4>1 DEF NP
      <4>3. CASE i \in 1..np[n].record_count
        BY <4>1, <4>3 DEF Counted
      <4> QED
        BY <4>1, <4>2, <4>3
    <3> QED
      BY <3>2, <3>3
  <2>2. ASSUME NEW x \in Counted PROVE x \in Counted'
    <3>1. PICK m \in Node : x \in {m} \X (1..np[m].record_count)
      BY <2>2 DEF Counted
    <3>2. PICK i \in 1..np[m].record_count : x = <<m, i>>
      BY <3>1
    <3>3. i \in 1..np'[m].record_count
      BY <3>2 DEF NP
    <3> QED
      BY <3>2, <3>3 DEF Counted
  <2>3. <<n, k>> \in Counted'
    <3>1. np'[n].record_count = k /\ k \in 1..k
      BY <1>1 DEF NP
    <3> QED
      BY <3>1 DEF Counted
  <2> QED
    BY <2>1, <2>2, <2>3
<1>4. IsFiniteSet(Counted') /\ Cardinality(Counted') = Cardinality(Counted) + 1
  BY Zenon, <1>2, <1>3, FS_AddElement
<1> QED
  BY Zenon, <1>3, <1>4 DEF RecordCount

WithinQuotas ==
    np \in [Node -> NP] /\ IsFiniteSet(Granted) /\ \A m \in Node : np[m].record_count <= np[m].record_max
FewRecords == RecordCount <= Cardinality(Granted) /\ RecordCount \in Nat /\ Cardinality(Granted) \in Nat

\* Nodes that keep to their shares keep to max_records together.
LEMMA WithinGrant == WithinQuotas => FewRecords
<1> SUFFICES ASSUME np \in [Node -> NP], IsFiniteSet(Granted), \A m \in Node : np[m].record_count <= np[m].record_max
             PROVE  RecordCount <= Cardinality(Granted) /\ RecordCount \in Nat /\ Cardinality(Granted) \in Nat
  BY DEF WithinQuotas, FewRecords
<1>1. ASSUME NEW x \in Counted PROVE x \in Granted
  <2>1. PICK m \in Node : x \in {m} \X (1..np[m].record_count)
    BY <1>1 DEF Counted
  <2>2. PICK i \in 1..np[m].record_count : x = <<m, i>>
    BY <2>1
  <2>3. i \in 1..np[m].record_max
    BY <2>2 DEF NP
  <2> QED
    BY <2>2, <2>3 DEF Granted
<1>2. Counted \subseteq Granted
  BY <1>1
<1>3. IsFiniteSet(Counted) /\ Cardinality(Counted) <= Cardinality(Granted)
  BY <1>2, FS_Subset
<1> QED
  BY <1>3, FS_CardinalityType DEF RecordCount

\* The listener takes a record.
LEMMA AcceptInv ==
  ASSUME TrackerAssumption, Counts, NEW n \in Node, NEW p \in Part, Record(n, p), ~ReachedMax
  PROVE  Counts' /\ (Progress => Progress')
<1>1. /\ np \in [Node -> NP] /\ page \in Page /\ pt \in PT /\ parts \in [Part -> PS]
      /\ Size \in [Part -> Nat] /\ MaxRecords \in Nat /\ stream \in [Part -> [at : Nat, open : BOOLEAN]]
  BY Typed DEF Counts
<1>2. /\ InRound /\ np[n].open /\ p \in np[n].parts /\ stream[p].open /\ stream[p].at < Size[p]
      /\ np[n].record_max > 0 => Sent(n) < np[n].record_max
      /\ stream' = [stream EXCEPT ![p].at = @ + 1] /\ CountRecord
      /\ np' = [np EXCEPT ![n].record_count = @ + 1] /\ UNCHANGED <<all, faults>>
      /\ parts' = [parts EXCEPT ![p].digest = stream[p].at + 1]
      /\ got' = [got EXCEPT ![p][stream[p].at + 1] = @ + 1]
      /\ page' = [page EXCEPT !.records = @ + 1]
  BY DEF Record, Sends, InRound, Digest
<1>3. /\ np' \in [Node -> NP] /\ (\A m \in Node \ {n} : np'[m] = np[m])
      /\ np'[n].parts = np[n].parts /\ np'[n].record_max = np[n].record_max /\ np'[n].open
      /\ np'[n].parts_unavailable = np[n].parts_unavailable /\ np'[n].record_count = np[n].record_count + 1
      /\ (np'[n].retry <=> np[n].retry)
  <2>1. PICK r : np' = [np EXCEPT ![n] = r] /\ r = [np[n] EXCEPT !.record_count = np[n].record_count + 1]
    BY Zenon, <1>2
  <2>2. np[n] \in NP
    BY <1>1
  <2>3. /\ r \in NP /\ r.parts = np[n].parts /\ r.record_max = np[n].record_max
        /\ r.parts_unavailable = np[n].parts_unavailable /\ r.record_count = np[n].record_count + 1
    BY <2>1, <2>2 DEF NP
  <2>4. (r.open <=> np[n].open) /\ (r.retry <=> np[n].retry)
    BY <2>1, <2>2 DEF NP
  <2> QED
    BY <1>1, <1>2, <2>1, <2>3, <2>4
<1>4. /\ pt' \in PT /\ pt'.iteration = pt.iteration /\ pt'.max_records = pt.max_records
      /\ (pt'.check_max <=> pt.check_max)
      /\ pt'.record_count = IF pt.check_max THEN pt.record_count + 1 ELSE pt.record_count
  BY <1>1, <1>2, CountsRecord
<1>5. /\ parts' \in [Part -> PS] /\ parts'[p].digest = stream[p].at + 1
      /\ \A q \in Part : (parts'[q].retry <=> parts[q].retry) /\ (q # p => parts'[q].digest = parts[q].digest)
  <2>1. stream[p].at + 1 \in Nat
    BY <1>1
  <2>2. parts \in [Part -> PS] /\ parts' = [parts EXCEPT ![p].digest = stream[p].at + 1]
    BY Zenon, <1>1, <1>2
  <2> QED
    BY <2>1, <2>2, DigestMoves
<1>6. /\ page' \in Page /\ page'.scan = page.scan /\ page'.pc = page.pc /\ (page'.fatal <=> page.fatal)
      /\ page'.records = page.records + 1 /\ page.records \in Nat
  <2>1. page \in Page /\ page' = [page EXCEPT !.records = @ + 1]
    BY Zenon, <1>1, <1>2
  <2> QED
    BY <2>1, OneMoreRecord
<1>7. Receives(n, p)
  BY Zenon, <1>1, <1>2, <1>3, <1>4, <1>5, <1>6, StreamMoves DEF Receives
<1>8. /\ Size' = Size /\ MaxRecords' = MaxRecords /\ (Paged' <=> Paged) /\ InRound' /\ InRound
      /\ \A m \in Node : np'[m].parts = np[m].parts /\ np'[m].record_max = np[m].record_max
      /\ \A m \in Node \ {n} : p \notin np[m].parts
  BY <1>7, ReceivesInv
<1>9. Divided' /\ Missed' /\ (Progress => Progress')
  BY <1>7, ReceivesInv
<1>10. \A m \in Node : ~np[m].retry
  BY <1>1, <1>2 DEF Counts, Dropped, ReachedMax, PT
<1>11. stream[p].at = parts[p].digest
  BY Zenon, <1>2, <1>10 DEF Counts, Dropped
<1>12. IsFiniteSet(Counted') /\ RecordCount' = RecordCount + 1 /\ Counted' # {} /\ RecordCount \in Nat
  BY <1>1, <1>3, CountedGrows, RecordCountType DEF Counts, Limits
<1>13. PICK k : k = parts[p].digest + 1 /\ k \in 1..Size[p] /\ parts[p].digest \in Nat
  <2>1. parts[p].digest \in Nat /\ Size[p] \in Nat /\ parts[p].digest < Size[p]
    BY Zenon, <1>1, <1>2, <1>11 DEF PS
  <2> QED
    BY <2>1
<1>14. /\ DOMAIN got' = Part /\ \A q \in Part : got'[q] \in [1..Size[q] -> Nat]
       /\ \A q \in Part : q # p => got'[q] = got[q]
       /\ \A r \in 1..Size[p] : got'[p][r] = IF r = k THEN got[p][r] + 1 ELSE got[p][r]
  <2>1. DOMAIN got = Part /\ \A q \in Part : got[q] \in [1..Size[q] -> Nat]
    BY DEF Counts, TrackerTypeOK
  <2>2. got' = [got EXCEPT ![p] = [got[p] EXCEPT ![k] = got[p][k] + 1]]
    BY <1>2, <1>11, <1>13
  <2>3. PICK g : g = [got[p] EXCEPT ![k] = got[p][k] + 1]
    BY Zenon
  <2>4. g \in [1..Size[p] -> Nat] /\ \A r \in 1..Size[p] : g[r] = IF r = k THEN got[p][r] + 1 ELSE got[p][r]
    <3>1. got[p] \in [1..Size[p] -> Nat] /\ k \in 1..Size[p] /\ got[p][k] \in Nat
      BY Zenon, <1>13, <2>1
    <3>2. PICK v : v = got[p][k] + 1 /\ v \in Nat
      BY <3>1
    <3>3. g = [got[p] EXCEPT ![k] = v]
      BY <2>3, <3>2
    <3> QED
      BY Zenon, <3>1, <3>2, <3>3
  <2>5. got' = [got EXCEPT ![p] = g]
    BY <2>2, <2>3
  <2>6. got'[p] = g /\ DOMAIN got' = Part /\ \A q \in Part : q # p => got'[q] = got[q]
    BY <2>1, <2>5
  <2> QED
    BY Zenon, <2>1, <2>4, <2>6
<1>15. TrackerTypeOK'
  <2>1. \A m \in Node : np'[m].parts_unavailable <= Cardinality(np'[m].parts)
    BY Zenon, <1>9 DEF Missed
  <2>2. stream' \in [Part -> [at : Nat, open : BOOLEAN]]
    BY <1>7 DEF Receives
  <2> QED
    BY Zenon, <1>2, <1>3, <1>4, <1>5, <1>6, <1>8, <1>14, <2>1, <2>2 DEF Counts, TrackerTypeOK, NP, PT, PS, Page
<1>16. Accepted'
  <2> SUFFICES ASSUME NEW q \in Part
               PROVE  /\ parts'[q].digest <= Size[q]
                      /\ \A r \in 1..Size[q] : got'[q][r] = IF r <= parts'[q].digest THEN 1 ELSE 0
    BY <1>8 DEF Accepted
  <2>1. parts[q].digest <= Size[q] /\ \A r \in 1..Size[q] : got[q][r] = IF r <= parts[q].digest THEN 1 ELSE 0
    BY Zenon DEF Counts, Accepted
  <2>2. CASE q # p
    BY Zenon, <1>5, <1>14, <2>1, <2>2
  <2>3. CASE q = p
    <3>1. parts'[q].digest = k
      BY <1>5, <1>11, <1>13, <2>3
    <3>2. Size[q] \in Nat
      BY <1>1
    <3>3. k <= Size[q] /\ k = parts[q].digest + 1 /\ parts[q].digest \in Nat
      BY <1>13, <2>3, <3>2
    <3>4. ASSUME NEW r \in 1..Size[q] PROVE got'[q][r] = IF r <= k THEN 1 ELSE 0
      <4>1. got'[q][r] = IF r = k THEN got[q][r] + 1 ELSE got[q][r]
        BY Zenon, <1>14, <2>3
      <4>2. got[q][r] = IF r <= parts[q].digest THEN 1 ELSE 0
        BY Zenon, <2>1
      <4>3. r \in Nat
        BY <3>2
      <4> QED
        BY <3>3, <4>1, <4>2, <4>3
    <3> QED
      BY Zenon, <3>1, <3>3, <3>4
  <2> QED
    BY Zenon, <2>2, <2>3
<1>17. Dropped'
  <2> SUFFICES ASSUME NEW m \in Node
               PROVE  /\ \A q \in np'[m].parts : /\ stream'[q].at \in parts'[q].digest..Size'[q]
                                                 /\ stream'[q].at # parts'[q].digest => np'[m].retry
                      /\ np'[m].retry => pt'.check_max /\ pt'.record_count >= pt'.max_records
    BY DEF Dropped
  <2>1. ~np'[m].retry
    BY Zenon, <1>3, <1>10
  <2>2. ASSUME NEW q \in np'[m].parts
        PROVE  stream'[q].at \in parts'[q].digest..Size'[q] /\ stream'[q].at = parts'[q].digest
    <3>1. q \in np[m].parts /\ q \in Part
      BY Zenon, <1>1, <1>8, <2>2 DEF NP
    <3>2. stream[q].at \in parts[q].digest..Size[q] /\ stream[q].at = parts[q].digest
      BY Zenon, <1>2, <1>10, <3>1 DEF Counts, Dropped
    <3>3. CASE q = p
      <4>1. stream'[q].at = k /\ parts'[q].digest = k
        BY Zenon, <1>5, <1>7, <1>11, <1>13, <3>3 DEF Receives
      <4> QED
        BY <1>1, <1>8, <1>13, <3>3, <4>1
    <3>4. CASE q # p
      <4>1. stream'[q].at = stream[q].at /\ parts'[q].digest = parts[q].digest
        BY Zenon, <1>5, <1>7, <3>1, <3>4 DEF Receives
      <4> QED
        BY Zenon, <1>8, <3>2, <4>1
    <3> QED
      BY Zenon, <3>3, <3>4
  <2> QED
    BY Zenon, <2>1, <2>2
<1>18. Quotas'
  <2>1. ASSUME Paged, ~pt.check_max
        PROVE  /\ IsFiniteSet(Granted)' /\ Cardinality(Granted)' <= pt.max_records
               /\ \A m \in Node : np'[m].record_count <= np'[m].record_max
    <3>1. Granted' = Granted
      BY <1>8, SameGranted
    <3>2. /\ IsFiniteSet(Granted) /\ Cardinality(Granted) <= pt.max_records
          /\ \A m \in Node : np[m].record_count <= np[m].record_max
      BY <1>2, <2>1 DEF Counts, Quotas
    <3>3. np[n].record_max > 0
      BY <1>2, <2>1 DEF Counts, Limits
    <3>4. np'[n].record_count <= np'[n].record_max
      BY <1>1, <1>2, <1>3, <1>10, <3>3 DEF Sent, NP
    <3> QED
      BY Zenon, <1>3, <3>1, <3>2, <3>4
  <2> QED
    BY Zenon, <1>4, <1>8, <1>12, <2>1 DEF Quotas
<1>19. ASSUME Paged PROVE RecordCount' <= pt.max_records
  <2>1. CASE pt.check_max
    <3>1. RecordCount <= pt.record_count /\ pt.record_count + 1 <= pt.max_records
      BY <1>1, <1>2, <2>1 DEF Counts, Limits, ReachedMax, PT
    <3> QED
      BY <1>1, <1>12, <3>1 DEF PT
  <2>2. CASE ~pt.check_max
    <3>1. /\ IsFiniteSet(Granted)' /\ Cardinality(Granted)' <= pt.max_records
          /\ \A m \in Node : np'[m].record_count <= np'[m].record_max
      BY Zenon, <1>4, <1>8, <1>18, <1>19, <2>2 DEF Quotas
    <3>2. RecordCount' <= Cardinality(Granted)' /\ RecordCount' \in Nat /\ Cardinality(Granted)' \in Nat
      <4>1. WithinQuotas'
        BY <1>3, <3>1 DEF WithinQuotas
      <4>2. FewRecords'
        BY <4>1, WithinGrant, PTL
      <4> QED
        BY Zenon, <4>2 DEF FewRecords
    <3> QED
      BY <1>1, <3>1, <3>2 DEF PT
  <2> QED
    BY <2>1, <2>2
<1>20. Limits'
  <2>1. pt.record_count \in Nat /\ pt.max_records \in Nat
    BY <1>1 DEF PT
  <2>2. page'.pc = "round" /\ page.pc = "round"
    BY Zenon, <1>2, <1>6 DEF InRound
  <2>3. pt'.max_records > 0 <=> Paged'
    BY Zenon, <1>4, <1>8, <2>2 DEF Counts, Limits
  <2>4. Paged' => page'.records + pt'.max_records = MaxRecords' + RecordCount' /\ RecordCount' <= pt'.max_records
    <3> SUFFICES ASSUME Paged
                 PROVE  page'.records + pt.max_records = MaxRecords + RecordCount' /\ RecordCount' <= pt.max_records
      BY <1>4, <1>8
    <3>1. page.records + pt.max_records = MaxRecords + RecordCount
      BY <1>2 DEF Counts, Limits
    <3>2. MaxRecords \in Nat /\ page.records \in Nat /\ RecordCount \in Nat
      BY <1>1, <1>6, <1>12
    <3>3. page'.records = page.records + 1 /\ RecordCount' = RecordCount + 1
      BY <1>6, <1>12
    <3>4. page'.records + pt.max_records = MaxRecords + RecordCount'
      BY <2>1, <3>1, <3>2, <3>3
    <3> QED
      BY Zenon, <1>19, <3>4
  <2>5. pt'.check_max => Paged' /\ RecordCount' <= pt'.record_count
    BY <1>2, <1>4, <1>8, <1>12, <2>1 DEF Counts, Limits
  <2>6. \A m \in Node : np'[m].parts # {} => (np'[m].record_max > 0 <=> Paged')
    BY <1>2, <1>8 DEF Counts, Limits
  <2> QED
    BY Zenon, <1>12, <2>2, <2>3, <2>4, <2>5, <2>6 DEF Limits, InRound
<1> QED
  BY Zenon, <1>9, <1>15, <1>16, <1>17, <1>18, <1>20 DEF Counts

-----------------------------------------------------------------------------
(* A node does not have a partition.                                        *)

\* A server says that it does not have a partition.
LEMMA PartUnavailableInv ==
  ASSUME TrackerAssumption, Counts, NEW n \in Node, NEW p \in Part, PartUnavailable(n, p)
  PROVE  Counts' /\ (Progress => Progress')
<1>1. /\ np \in [Node -> NP] /\ page \in Page /\ pt \in PT /\ parts \in [Part -> PS] /\ faults \in Nat
      /\ Size \in [Part -> Nat] /\ MaxRecords \in Nat /\ stream \in [Part -> [at : Nat, open : BOOLEAN]]
  BY Zenon, Typed DEF Counts, TrackerTypeOK
<1>2. /\ InRound /\ np[n].open /\ p \in np[n].parts /\ stream[p].open
      /\ stream' = [stream EXCEPT ![p].open = FALSE]
      /\ parts' = [parts EXCEPT ![p].retry = TRUE]
      /\ UNCHANGED <<all, pt, page, got>>
  BY DEF PartUnavailable, InRound
<1>3. faults' \in Nat
  BY <1>1 DEF PartUnavailable, Fault
<1>4. /\ np' \in [Node -> NP] /\ (\A m \in Node \ {n} : np'[m] = np[m])
      /\ np'[n].parts = np[n].parts /\ np'[n].record_max = np[n].record_max /\ np'[n].open
      /\ np'[n].parts_unavailable = np[n].parts_unavailable + 1 /\ np'[n].record_count = np[n].record_count
      /\ (np'[n].retry <=> np[n].retry)
  <2>1. PICK r : np' = [np EXCEPT ![n] = r] /\ r = [np[n] EXCEPT !.parts_unavailable = np[n].parts_unavailable + 1]
    BY Zenon DEF PartUnavailable
  <2>2. np[n] \in NP
    BY <1>1
  <2>3. /\ r \in NP /\ r.parts = np[n].parts /\ r.record_max = np[n].record_max
        /\ r.parts_unavailable = np[n].parts_unavailable + 1 /\ r.record_count = np[n].record_count
    BY <2>1, <2>2 DEF NP
  <2>4. (r.open <=> np[n].open) /\ (r.retry <=> np[n].retry)
    BY Zenon, <2>1, <2>2 DEF NP
  <2> QED
    BY <1>1, <1>2, <2>1, <2>3, <2>4
<1>5. \A m \in Node : /\ np'[m].parts = np[m].parts /\ np'[m].record_max = np[m].record_max
                      /\ np'[m].record_count = np[m].record_count /\ (np'[m].retry <=> np[m].retry)
                      /\ (np'[m].open <=> np[m].open) /\ np[m].parts \subseteq Part
  <2> SUFFICES ASSUME NEW m \in Node
               PROVE  /\ np'[m].parts = np[m].parts /\ np'[m].record_max = np[m].record_max
                      /\ np'[m].record_count = np[m].record_count /\ (np'[m].retry <=> np[m].retry)
                      /\ (np'[m].open <=> np[m].open) /\ np[m].parts \subseteq Part
    OBVIOUS
  <2>1. np[m].parts \subseteq Part
    BY <1>1 DEF NP
  <2>2. CASE m = n
    BY Zenon, <1>2, <1>4, <2>1, <2>2
  <2>3. CASE m # n
    BY <1>4, <2>1, <2>3
  <2> QED
    BY Zenon, <2>2, <2>3
<1>6. /\ Size' = Size /\ MaxRecords' = MaxRecords /\ (Paged' <=> Paged) /\ InRound' /\ InRound
      /\ PartitionQuery' = PartitionQuery
  BY <1>2 DEF Size, MaxRecords, Paged, InRound, PartitionQuery
<1>7. Counted' = Counted /\ RecordCount' = RecordCount /\ Granted' = Granted
  BY <1>5, SameCounted, SameGranted
<1>8. /\ stream' \in [Part -> [at : Nat, open : BOOLEAN]] /\ ~stream'[p].open
      /\ \A q \in Part : stream'[q].at = stream[q].at /\ (q # p => stream'[q] = stream[q])
  BY Zenon, <1>1, <1>2
<1>9. /\ parts' \in [Part -> PS] /\ parts'[p].retry
      /\ \A q \in Part : parts'[q].digest = parts[q].digest /\ (parts[q].retry => parts'[q].retry)
  BY Zenon, <1>1, <1>2 DEF PS
<1>10. \A m \in Node \ {n} : p \notin np[m].parts
  BY <1>2 DEF Counts, Divided
<1>11. /\ np'[n].parts_unavailable = Cardinality({q \in np'[n].parts : ~stream'[q].open})
       /\ np'[n].parts_unavailable <= Cardinality(np'[n].parts)
  <2>1. PICK shut : shut = {q \in np[n].parts : ~stream[q].open}
    BY Zenon
  <2>2. shut \in SUBSET Part /\ IsFiniteSet(shut) /\ IsFiniteSet(np[n].parts) /\ p \notin shut
    BY <1>2, <1>5, <2>1, FinitePart
  <2>3. {q \in np'[n].parts : ~stream'[q].open} = shut \cup {p}
    BY <1>2, <1>5, <1>8, <2>1
  <2>4. Cardinality(shut \cup {p}) = Cardinality(shut) + 1
    BY Zenon, <2>2, FS_AddElement
  <2>5. np[n].parts_unavailable = Cardinality(shut)
    BY <1>2, <2>1 DEF Counts, Missed
  <2>6. shut \cup {p} \in SUBSET np[n].parts
    BY <1>2, <2>1
  <2>7. Cardinality(shut \cup {p}) <= Cardinality(np[n].parts)
    BY Zenon, <2>2, <2>6, FS_Subset
  <2> QED
    BY Zenon, <1>4, <2>3, <2>4, <2>5, <2>7
<1>12. Missed'
  <2>1. \A m \in Node : np[m].parts_unavailable \in Nat
    BY <1>1 DEF NP
  <2>2. ASSUME NEW m \in Node, NEW q \in np'[m].parts, ~stream'[q].open
        PROVE  parts'[q].retry /\ np'[m].parts_unavailable > 0
    <3>1. q \in np[m].parts /\ q \in Part
      BY Zenon, <1>5, <2>2
    <3>2. CASE q = p
      <4>1. m = n
        BY Zenon, <1>10, <3>1, <3>2
      <4> QED
        BY <1>4, <1>9, <2>1, <3>2, <4>1
    <3>3. CASE q # p
      <4>1. ~stream[q].open
        BY <1>8, <2>2, <3>1, <3>3
      <4>2. parts[q].retry /\ np[m].parts_unavailable > 0
        BY Zenon, <1>2, <3>1, <4>1 DEF Counts, Missed
      <4>3. np'[m].parts_unavailable >= np[m].parts_unavailable
        BY <1>4, <2>1
      <4> QED
        BY <1>4, <1>9, <2>1, <3>1, <4>2, <4>3
    <3> QED
      BY <3>2, <3>3
  <2>3. ASSUME NEW m \in Node
        PROVE  /\ np'[m].parts_unavailable <= Cardinality(np'[m].parts)
               /\ np'[m].open => np'[m].parts_unavailable = Cardinality({q \in np'[m].parts : ~stream'[q].open})
    <3>1. CASE m = n
      BY <1>11, <3>1
    <3>2. CASE m # n
      <4>1. {q \in np'[m].parts : ~stream'[q].open} = {q \in np[m].parts : ~stream[q].open}
        BY <1>5, <1>8, <1>10, <3>2
      <4> QED
        BY Zenon, <1>2, <1>4, <3>2, <4>1 DEF Counts, Missed
    <3> QED
      BY Zenon, <3>1, <3>2
  <2> QED
    BY <2>2, <2>3 DEF Missed
<1>13. TrackerTypeOK'
  <2>1. \A m \in Node : np'[m].parts_unavailable <= Cardinality(np'[m].parts)
    BY Zenon, <1>12 DEF Missed
  <2> QED
    BY Zenon, <1>2, <1>3, <1>4, <1>6, <1>8, <1>9, <2>1 DEF Counts, TrackerTypeOK, NP, PS
<1>14. Accepted'
  BY <1>2, <1>6, <1>9 DEF Counts, Accepted
<1>15. Divided'
  <2>1. \A l, m \in Node : l # m => np'[l].parts \cap np'[m].parts = {}
    BY Zenon, <1>5 DEF Counts, Divided
  <2>2. ASSUME NEW m \in Node, np'[m].parts = {} PROVE np'[m] = NoPartitions
    <3>1. m # n /\ np[m].parts = {}
      BY <1>2, <1>5, <2>2
    <3> QED
      BY <1>4, <3>1 DEF Counts, Divided
  <2> QED
    BY Zenon, <2>1, <2>2 DEF Divided, NoPartitions
<1>16. Dropped'
  <2> SUFFICES ASSUME NEW m \in Node
               PROVE  /\ \A q \in np'[m].parts : /\ stream'[q].at \in parts'[q].digest..Size'[q]
                                                 /\ stream'[q].at # parts'[q].digest => np'[m].retry
                      /\ np'[m].retry => pt'.check_max /\ pt'.record_count >= pt'.max_records
    BY DEF Dropped
  <2>1. /\ \A q \in np[m].parts : /\ stream[q].at \in parts[q].digest..Size[q]
                                  /\ stream[q].at # parts[q].digest => np[m].retry
        /\ np[m].retry => pt.check_max /\ pt.record_count >= pt.max_records
    BY <1>2 DEF Counts, Dropped
  <2>2. np'[m].parts = np[m].parts /\ (np'[m].retry <=> np[m].retry)
    BY Zenon, <1>2, <1>5
  <2>3. ASSUME NEW q \in np'[m].parts
        PROVE  stream'[q].at = stream[q].at /\ parts'[q].digest = parts[q].digest /\ Size'[q] = Size[q]
    BY <1>5, <1>6, <1>8, <1>9, <2>2
  <2> QED
    BY Zenon, <1>2, <2>1, <2>2, <2>3
<1>17. Limits'
  BY <1>2, <1>5, <1>6, <1>7 DEF Counts, Limits, InRound
<1>18. Quotas'
  BY Zenon, <1>2, <1>5, <1>6, <1>7 DEF Counts, Quotas
<1>19. ASSUME Progress PROVE Progress'
  <2>1. Ended'
    <3> SUFFICES ASSUME ~page'.fatal, NEW m \in Node, ~np'[m].open
                 PROVE  \/ np'[m].parts_unavailable > 0 /\ \A q \in np'[m].parts : parts'[q].retry
                        \/ MayStop(m)'
      BY DEF Ended
    <3>1. m # n /\ np'[m] = np[m] /\ ~page.fatal /\ ~np[m].open
      BY <1>2, <1>4, <1>5
    <3>2. \/ np[m].parts_unavailable > 0 /\ \A q \in np[m].parts : parts[q].retry
          \/ MayStop(m)
      BY Zenon, <1>2, <1>19, <3>1 DEF Progress, Ended
    <3>3. Exhausted(m)' <=> Exhausted(m)
      BY <1>5, <1>6, <1>8, <1>10, <3>1 DEF Exhausted
    <3>4. Sent(m)' = Sent(m)
      BY Zenon, <3>1 DEF Sent
    <3>5. MayStop(m)' <=> MayStop(m)
      BY Zenon, <1>6, <3>1, <3>3, <3>4 DEF MayStop
    <3> QED
      BY Zenon, <1>5, <1>9, <3>1, <3>2, <3>5
  <2>2. Rest'
    <3> SUFFICES ASSUME pt'.iteration = 1 \/ ~Paged', NEW q \in Part, \A m \in Node : q \notin np'[m].parts
                 PROVE  Over(q)'
      BY <1>6 DEF Rest, InRound
    <3>1. Over(q)
      BY <1>2, <1>5, <1>6, <1>19 DEF Progress, Rest
    <3> QED
      BY Zenon, <1>6, <1>9, <3>1 DEF Over
  <2>3. Flags'
    BY Zenon, <1>2, <1>6, <1>19 DEF Progress, Flags, InRound
  <2> QED
    BY Zenon, <2>1, <2>2, <2>3 DEF Progress
<1> QED
  BY Zenon, <1>12, <1>13, <1>14, <1>15, <1>16, <1>17, <1>18, <1>19 DEF Counts

-----------------------------------------------------------------------------
(* A page ends.                                                             *)

EndsPage ==
    /\ page.pc \in {"assign", "round"} /\ EndPage
    /\ UNCHANGED <<pt, np, stream, got>> /\ faults' \in Nat
    /\ all' \in [retry : BOOLEAN, done : BOOLEAN]
    /\ parts' \in [Part -> PS] /\ \A p \in Part : parts'[p].digest = parts[p].digest

\* The end of a page keeps the counts.
LEMMA EndsPageCounts ==
  ASSUME TrackerAssumption, Counts, EndsPage
  PROVE  /\ Counts' /\ Size' = Size /\ (Paged' <=> Paged) /\ page'.pc = "idle" /\ ~page'.fatal
         /\ \A p \in Part : Over(p)' <=> Over(p)
<1>1. /\ np \in [Node -> NP] /\ page \in Page /\ pt \in PT /\ parts \in [Part -> PS]
      /\ Size \in [Part -> Nat] /\ MaxRecords \in Nat
  BY Typed DEF Counts
<1>2. /\ page' \in Page /\ page'.scan = page.scan /\ page'.pc = "idle" /\ page'.records = page.records
      /\ ~page'.fatal
  BY Zenon, <1>1 DEF EndsPage, EndPage, Page
<1>3. Size' = Size /\ MaxRecords' = MaxRecords /\ (Paged' <=> Paged) /\ ~InRound'
  BY <1>2 DEF Size, MaxRecords, Paged, InRound
<1>4. Counted' = Counted /\ RecordCount' = RecordCount
  BY Zenon DEF Counted, RecordCount, EndsPage
<1>5. TrackerTypeOK'
  BY Zenon, <1>2, <1>3 DEF Counts, TrackerTypeOK, EndsPage, PS, Page
<1>6. Accepted'
  BY <1>3 DEF Counts, Accepted, EndsPage
<1>7. Divided' /\ Dropped' /\ Missed' /\ Quotas'
  BY Zenon, <1>3 DEF Counts, Divided, Dropped, Missed, Quotas, EndsPage, NoPartitions
<1>8. Limits'
  <2>1. ASSUME Paged PROVE page.records <= MaxRecords
    <3>1. CASE InRound
      <4>1. page.records + pt.max_records = MaxRecords + RecordCount /\ RecordCount <= pt.max_records /\ RecordCount \in Nat
        BY <2>1, <3>1, RecordCountType DEF Counts, Limits
      <4>2. page.records \in Nat /\ pt.max_records \in Nat
        BY <1>1 DEF Page, PT
      <4> QED
        BY <1>1, <4>1, <4>2
    <3>2. CASE page.pc = "assign"
      <4>1. page.records + pt.max_records = MaxRecords
        BY Zenon, <2>1, <3>2 DEF Counts, Limits
      <4>2. page.records \in Nat /\ pt.max_records \in Nat
        BY <1>1 DEF Page, PT
      <4> QED
        BY <1>1, <4>1, <4>2
    <3> QED
      BY <3>1, <3>2 DEF EndsPage, InRound
  <2> QED
    BY Zenon, <1>2, <1>3, <1>4, <2>1 DEF Counts, Limits, InRound
<1>9. \A p \in Part : Over(p)' <=> Over(p)
  BY <1>3 DEF Over, EndsPage
<1> QED
  BY Zenon, <1>2, <1>3, <1>5, <1>6, <1>7, <1>8, <1>9 DEF Counts

\* The end of a page forgets nothing.
LEMMA EndsPageProgress ==
  ASSUME TrackerAssumption, Counts, Progress, EndsPage,
         all'.done => \A p \in Part : Over(p),
         ~all'.retry => \A p \in Part : ~Over(p) => parts'[p].retry,
         ~all'.done => all'.retry \/ \E p \in Part : parts'[p].retry
  PROVE  Progress'
<1>1. page'.pc = "idle" /\ ~page'.fatal /\ Size' = Size /\ \A p \in Part : Over(p)' <=> Over(p)
  BY Zenon, EndsPageCounts
<1>2. Ended' /\ Rest'
  BY Zenon, <1>1 DEF Ended, Rest, InRound
<1>3. parts \in [Part -> PS] /\ Size \in [Part -> Nat]
  BY Typed DEF Counts
<1>4. NothingForgotten'
  <2>1. ASSUME ~all'.retry, NEW p \in Part, parts'[p].digest < Size'[p] PROVE parts'[p].retry
    <3>1. ~Over(p)
      BY <1>1, <1>3, <2>1 DEF Over, EndsPage, PS
    <3> QED
      BY <2>1, <3>1
  <2> QED
    BY <2>1 DEF NothingForgotten
<1>5. Flags'
  BY <1>1, <1>4 DEF Flags, InRound
<1> QED
  BY <1>2, <1>5 DEF Progress

\* as_partition_error marks every partition for the next page.
LEMMA AllChanges ==
  ASSUME NEW a \in [retry : BOOLEAN, done : BOOLEAN]
  PROVE  /\ PartitionError(a) \in [retry : BOOLEAN, done : BOOLEAN]
         /\ PartitionError(a).retry /\ (PartitionError(a).done <=> a.done)
  BY Zenon DEF PartitionError

\* The page ends with an error, or with enough records: everything is asked again.
LEMMA EndsInv ==
  ASSUME TrackerAssumption, Counts, PageAborted \/ RoundSuffices \/ RoundGivesUp
  PROVE  Counts' /\ (Progress => Progress')
<1>1. all \in [retry : BOOLEAN, done : BOOLEAN] /\ parts \in [Part -> PS] /\ faults \in Nat
  BY Typed DEF Counts, TrackerTypeOK
<1>2. /\ page.pc = "round" /\ EndPage /\ UNCHANGED <<parts, pt, np, stream, got>> /\ faults' \in Nat
      /\ all' = all \/ all' = PartitionError(all)
  BY <1>1 DEF PageAborted, RoundSuffices, RoundGivesUp, RoundOver, Fault
<1>3. EndsPage
  BY <1>1, <1>2, AllChanges DEF EndsPage
<1>4. ASSUME Progress PROVE Progress'
  <2>1. all.retry /\ ~all.done
    BY <1>2, <1>4 DEF Progress, Flags, InRound
  <2>2. all'.retry /\ ~all'.done
    BY <1>1, <1>2, <2>1, AllChanges
  <2> QED
    BY <1>3, <1>4, <2>2, EndsPageProgress
<1> QED
  BY Zenon, <1>3, <1>4, EndsPageCounts

\* Partitions cannot be assigned to nodes.
LEMMA AssignFailsInv ==
  ASSUME TrackerAssumption, Counts, AssignFails
  PROVE  Counts' /\ (AsyncUnpaged /\ Progress => Progress')
<1>1. all \in [retry : BOOLEAN, done : BOOLEAN] /\ parts \in [Part -> PS] /\ faults \in Nat /\ page.scan \in Scans /\ MaxRecords \in Nat
  BY Typed DEF Counts, TrackerTypeOK
<1>2. /\ page.pc = "assign" /\ EndPage /\ UNCHANGED <<pt, np, stream, got>>
      /\ all' = IF Async /\ pt.iteration = 1 THEN all ELSE PartitionError(all)
  BY DEF AssignFails, AssignFailsAt
<1>3. parts' \in [Part -> PS] /\ (\A p \in Part : parts'[p].digest = parts[p].digest) /\ faults' \in Nat
  <2>1. CASE UNCHANGED <<parts, faults>>
    BY <1>1, <2>1
  <2>2. ASSUME NEW k \in ToRetry, Fault,
               parts' = [p \in Part |-> [parts[p] EXCEPT !.retry = @ /\ ~(p \in ToRetry /\ p < k)]]
        PROVE  parts' \in [Part -> PS] /\ (\A p \in Part : parts'[p].digest = parts[p].digest) /\ faults' \in Nat
    <3>1. faults' \in Nat
      BY <1>1, <2>2 DEF Fault
    <3>2. PICK taken : taken = {p \in ToRetry : p < k}
      BY Zenon
    <3>3. parts' = [p \in Part |-> [parts[p] EXCEPT !.retry = @ /\ p \notin taken]]
      BY <2>2, <3>2
    <3> QED
      BY Zenon, <1>1, <3>1, <3>3 DEF PS
  <2> QED
    BY <2>1, <2>2 DEF AssignFails, AssignFailsAt
<1>4. EndsPage
  BY <1>1, <1>2, <1>3, AllChanges DEF EndsPage
<1>5. ASSUME Progress, AsyncUnpaged PROVE Progress'
  <2>1. ~all.done /\ (~Paged => all.retry)
    BY <1>2, <1>5 DEF Progress, Flags
  <2>2. Async => ~Paged
    BY <1>1, <1>5 DEF AsyncUnpaged, Async, Paged, MaxRecords
  <2>3. all'.retry /\ ~all'.done
    BY Zenon, <1>1, <1>2, <2>1, <2>2, AllChanges
  <2> QED
    BY Zenon, <1>4, <1>5, <2>3, EndsPageProgress
<1> QED
  BY Zenon, <1>4, <1>5, EndsPageCounts

\* A round is over and no partition was missed: a partition of a node that cannot have
\* more has none left.
LEMMA Exhaust ==
  ASSUME TrackerAssumption, Counts, Progress, RoundOver, ~page.fatal, ~Unavailable,
         NEW n \in Node, NEW p \in np[n].parts, ~Over(p)
  PROVE  Paged /\ HasMore(n) /\ n \in MayHaveMore
<1>1. /\ np \in [Node -> NP] /\ page \in Page /\ pt \in PT /\ parts \in [Part -> PS]
      /\ Size \in [Part -> Nat] /\ MaxRecords \in Nat /\ p \in Part
  BY Typed DEF Counts, NP
<1>2. InRound /\ ~np[n].open /\ np[n].parts_unavailable = 0
  <2>1. InRound /\ ~np[n].open /\ ~(np[n].parts_unavailable > 0)
    BY Zenon DEF RoundOver, InRound, Unavailable
  <2>2. np[n].parts_unavailable \in Nat
    BY Zenon, <1>1 DEF NP
  <2> QED
    BY <2>1, <2>2
<1>3. MayStop(n) /\ stream[p].open
  BY <1>1, <1>2 DEF Progress, Ended, Counts, Missed
<1>4. /\ stream[p].at \in parts[p].digest..Size[p] /\ (stream[p].at # parts[p].digest => np[n].retry)
      /\ (np[n].retry => pt.check_max)
  BY Zenon, <1>1, <1>2 DEF Counts, Dropped
<1>5. (pt.check_max => Paged) /\ (np[n].record_max > 0 <=> Paged)
  BY Zenon, <1>2 DEF Counts, Limits
<1>6. CASE np[n].retry
  BY Zenon, <1>4, <1>5, <1>6 DEF HasMore, MayHaveMore, Assigned
<1>7. CASE ~np[n].retry
  <2>1. stream[p].at # Size[p]
    BY Zenon, <1>4, <1>7 DEF Over
  <2>2. ~Exhausted(n)
    BY Zenon, <1>3, <2>1 DEF Exhausted
  <2>3. np[n].record_max > 0 /\ np[n].record_count >= (IF PartitionQuery THEN np[n].record_max ELSE 1)
    BY <1>1, <1>3, <1>7, <2>2 DEF MayStop, Sent, NP
  <2> QED
    BY <1>1, <1>5, <2>3 DEF HasMore, MayHaveMore, Assigned, NP
<1> QED
  BY <1>6, <1>7

\* A round is complete (as_partition_tracker_is_complete).
LEMMA RoundCompletesInv ==
  ASSUME TrackerAssumption, Counts, RoundCompletes
  PROVE  Counts' /\ (Progress => Progress')
<1>1. /\ all \in [retry : BOOLEAN, done : BOOLEAN] /\ parts \in [Part -> PS] /\ faults \in Nat /\ pt \in PT
      /\ np \in [Node -> NP] /\ MaxRecords \in Nat
  BY Typed DEF Counts, TrackerTypeOK
<1>2. /\ page.pc = "round" /\ EndPage /\ UNCHANGED <<pt, np, stream, got, faults>>
      /\ RoundOver /\ ~page.fatal /\ ~Unavailable
  BY DEF RoundCompletes, RoundOver
<1>3. CASE pt.max_records = 0
  <2>1. all' = [all EXCEPT !.done = TRUE] /\ UNCHANGED parts
    BY <1>3 DEF RoundCompletes
  <2>2. all' \in [retry : BOOLEAN, done : BOOLEAN] /\ all'.done /\ (all'.retry <=> all.retry)
    BY Zenon, <1>1, <2>1
  <2>3. EndsPage
    BY <1>1, <1>2, <2>1, <2>2 DEF EndsPage
  <2>4. ASSUME Progress PROVE Progress'
    <3>1. ~Paged /\ all.retry
      BY <1>2, <1>3, <2>4 DEF Counts, Limits, Progress, Flags, InRound
    <3>2. ASSUME NEW p \in Part PROVE Over(p)
      <4>1. CASE \E n \in Node : p \in np[n].parts
        BY Zenon, <1>2, <2>4, <3>1, <4>1, Exhaust
      <4>2. CASE \A n \in Node : p \notin np[n].parts
        BY Zenon, <1>2, <2>4, <3>1, <4>2 DEF Progress, Rest, InRound
      <4> QED
        BY Zenon, <4>1, <4>2
    <3> QED
      BY Zenon, <2>2, <2>3, <2>4, <3>1, <3>2, EndsPageProgress
  <2> QED
    BY <2>3, <2>4, EndsPageCounts
<1>4. CASE pt.max_records > 0 /\ ~FirstRound
  <2>1. all' = [retry |-> TRUE, done |-> FALSE] /\ UNCHANGED parts
    BY <1>1, <1>4 DEF RoundCompletes, PT
  <2>2. all' \in [retry : BOOLEAN, done : BOOLEAN] /\ ~all'.done /\ all'.retry
    BY Zenon, <2>1
  <2>3. EndsPage
    BY Zenon, <1>1, <1>2, <2>1, <2>2 DEF EndsPage
  <2> QED
    BY <2>2, <2>3, EndsPageCounts, EndsPageProgress
<1>5. CASE pt.max_records # 0 /\ FirstRound
  <2>1. all' = [retry |-> FALSE, done |-> IsDone] /\ MarkRetry(MayHaveMore)
    BY <1>1, <1>5 DEF RoundCompletes, PT
  <2>2. IsDone \in BOOLEAN
    BY Zenon DEF IsDone
  <2>3. all' \in [retry : BOOLEAN, done : BOOLEAN] /\ (all'.done <=> IsDone) /\ ~all'.retry
    BY <2>1, <2>2
  <2>4. /\ parts' \in [Part -> PS]
        /\ \A p \in Part : /\ parts'[p].digest = parts[p].digest
                           /\ parts'[p].retry <=> parts[p].retry \/ \E n \in MayHaveMore : p \in np[n].parts
    BY Zenon, <1>1, <2>1 DEF MarkRetry, PS
  <2>5. EndsPage
    BY Zenon, <1>1, <1>2, <2>3, <2>4 DEF EndsPage
  <2>6. ASSUME Progress PROVE Progress'
    <3>1. ASSUME NEW p \in Part, ~Over(p) PROVE parts'[p].retry /\ MayHaveMore # {}
      <4>1. pt.iteration = 1
        BY Zenon, <1>5 DEF FirstRound
      <4>2. PICK n \in Node : p \in np[n].parts
        BY Zenon, <1>2, <2>6, <3>1, <4>1 DEF Progress, Rest, InRound
      <4>3. n \in MayHaveMore
        BY <1>2, <2>6, <3>1, <4>2, Exhaust
      <4> QED
        BY <2>4, <4>2, <4>3
    <3>2. IsDone => MayHaveMore = {}
      <4>1. CASE PartitionQuery
        BY <4>1 DEF IsDone
      <4>2. CASE ~PartitionQuery
        <5> SUFFICES ASSUME RecordCount = 0, NEW n \in Node, HasMore(n) PROVE FALSE
          BY Zenon, <4>2 DEF IsDone, MayHaveMore, Assigned
        <5>1. Counted = {}
          BY Zenon, FS_EmptySet DEF Counts, Limits, RecordCount
        <5>2. Paged /\ InRound
          BY <1>1, <1>2, <1>5 DEF Counts, Limits, PT, InRound
        <5>3. pt.record_count = 0
          BY <1>1, <1>2, <5>1, <5>2 DEF Counts, Quotas, PT
        <5>4. ~np[n].retry
          BY <1>1, <1>5, <5>2, <5>3 DEF Counts, Dropped, PT
        <5>5. np[n].record_count > 0
          BY <4>2, <5>4 DEF HasMore
        <5>6. <<n, 1>> \in {n} \X (1..np[n].record_count)
          BY <1>1, <5>5 DEF NP
        <5>7. <<n, 1>> \in Counted
          BY <5>6 DEF Counted
        <5> QED
          BY <5>1, <5>7
      <4> QED
        BY <4>1, <4>2
    <3>3. ~IsDone => MayHaveMore # {}
      <4>1. CASE PartitionQuery
        BY <4>1 DEF IsDone
      <4>2. CASE ~PartitionQuery
        <5> SUFFICES ASSUME RecordCount # 0 PROVE MayHaveMore # {}
          BY <4>2 DEF IsDone
        <5>1. Counted # {}
          BY FS_EmptySet DEF RecordCount
        <5>2. PICK n \in Node : {n} \X (1..np[n].record_count) # {}
          BY <5>1 DEF Counted
        <5>3. np[n].record_count > 0
          BY <1>1, <5>2 DEF NP
        <5>4. np[n].parts # {}
          BY <5>3 DEF Counts, Divided, NoPartitions
        <5> QED
          BY <4>2, <5>3, <5>4 DEF HasMore, MayHaveMore, Assigned
      <4> QED
        BY <4>1, <4>2
    <3>4. MayHaveMore # {} => \E p \in Part : parts'[p].retry
      <4> SUFFICES ASSUME NEW n \in MayHaveMore PROVE \E p \in Part : parts'[p].retry
        OBVIOUS
      <4>1. PICK p : p \in np[n].parts /\ p \in Part
        BY <1>1 DEF MayHaveMore, Assigned, NP
      <4> QED
        BY <2>4, <4>1
    <3> QED
      BY Zenon, <2>3, <2>5, <2>6, <3>1, <3>2, <3>3, <3>4, EndsPageProgress
  <2> QED
    BY <2>5, <2>6, EndsPageCounts
<1> QED
  BY <1>1, <1>3, <1>4, <1>5 DEF PT

-----------------------------------------------------------------------------
(* Another round, another page.                                             *)

\* A new round has counted nothing.
LEMMA NoneCounted ==
  ASSUME \A n \in Node : np'[n].record_count = 0
  PROVE  Counted' = {} /\ IsFiniteSet(Counted') /\ RecordCount' = 0
<1>1. ASSUME NEW x \in Counted' PROVE FALSE
  <2>1. PICK n \in Node : x \in {n} \X (1..np'[n].record_count)
    BY <1>1 DEF Counted
  <2> QED
    BY <2>1
<1>2. Counted' = {}
  BY <1>1
<1> QED
  BY <1>2, FS_EmptySet DEF RecordCount

\* Another round begins.
LEMMA NextRoundInv ==
  ASSUME TrackerAssumption, Counts, NextRound
  PROVE  Counts' /\ (Progress => Progress')
<1>1. /\ np \in [Node -> NP] /\ page \in Page /\ pt \in PT /\ parts \in [Part -> PS] /\ faults \in Nat
      /\ Size \in [Part -> Nat] /\ MaxRecords \in Nat /\ stream \in [Part -> [at : Nat, open : BOOLEAN]]
  BY Typed DEF Counts, TrackerTypeOK
<1>2. /\ InRound /\ RoundOver /\ ~page.fatal /\ ~(pt.max_records > 0 /\ RecordCount >= pt.max_records)
      /\ np' = [n \in Node |-> NoPartitions] /\ page' = [page EXCEPT !.pc = "assign"]
      /\ UNCHANGED <<all, parts, stream, got, faults>>
  BY Zenon DEF NextRound, RoundOver, InRound
<1>3. RecordCount \in Nat /\ pt.max_records \in Nat /\ pt.iteration \in Nat /\ IsFiniteSet({}) /\ Cardinality({}) = 0
  BY <1>1, RecordCountType, FS_EmptySet DEF Counts, Limits, PT
<1>4. PICK left : left = MaxRecordsLeft /\ left \in Nat /\ (left > 0 <=> pt.max_records > 0)
                  /\ (pt.max_records > 0 => left + RecordCount = pt.max_records)
  BY <1>2, <1>3 DEF MaxRecordsLeft
<1>5. /\ pt' \in PT /\ pt'.iteration = pt.iteration + 1 /\ pt'.max_records = left
  <2>1. pt' = [pt EXCEPT !.iteration = pt.iteration + 1, !.max_records = left]
    BY <1>4 DEF NextRound
  <2>2. PICK i : i = pt.iteration + 1 /\ i \in Nat
    BY <1>3
  <2>3. pt' = [pt EXCEPT !.iteration = i, !.max_records = left] /\ left \in Nat /\ pt \in PT
    BY <1>1, <1>4, <2>1, <2>2
  <2>4. pt' \in PT /\ pt'.iteration = i /\ pt'.max_records = left
    BY Zenon, <2>2, <2>3 DEF PT
  <2> QED
    BY <2>2, <2>4
<1>6. /\ page' \in Page /\ page'.scan = page.scan /\ page'.pc = "assign" /\ page'.records = page.records
      /\ (page'.fatal <=> page.fatal) /\ page.records \in Nat
  BY <1>1, <1>2 DEF Page
<1>7. Size' = Size /\ MaxRecords' = MaxRecords /\ (Paged' <=> Paged) /\ ~InRound'
  BY <1>6 DEF Size, MaxRecords, Paged, InRound
<1>8. /\ np' \in [Node -> NP]
      /\ \A n \in Node : np'[n] = NoPartitions /\ np'[n].record_count = 0 /\ np'[n].parts = {} /\ np'[n].parts_unavailable = 0
  BY <1>2 DEF NP, NoPartitions
<1>9. Counted' = {} /\ IsFiniteSet(Counted') /\ RecordCount' = 0
  BY <1>8, NoneCounted
<1>10. \A n \in Node : np'[n].parts_unavailable <= Cardinality(np'[n].parts)
  BY <1>3, <1>8
<1>11. TrackerTypeOK'
  BY <1>2, <1>5, <1>6, <1>7, <1>8, <1>10 DEF Counts, TrackerTypeOK, NP, PT, Page
<1>12. Accepted'
  BY Zenon, <1>2, <1>7 DEF Counts, Accepted
<1>13. Divided'
  BY Zenon, <1>8 DEF Divided, NoPartitions
<1>14. Dropped' /\ Missed' /\ Quotas'
  BY Zenon, <1>7, <1>10 DEF Dropped, Missed, Quotas
<1>15. Limits'
  <2>1. pt.max_records > 0 <=> Paged
    BY <1>2 DEF Counts, Limits, InRound
  <2>2. ASSUME Paged PROVE page.records + left = MaxRecords
    <3>1. page.records + pt.max_records = MaxRecords + RecordCount
      BY <1>2, <2>2 DEF Counts, Limits
    <3>2. left + RecordCount = pt.max_records /\ left \in Nat
      BY <1>4, <2>1, <2>2
    <3>3. MaxRecords \in Nat /\ RecordCount \in Nat /\ page.records \in Nat
      BY <1>1, <1>3, <1>6
    <3> QED
      BY <3>1, <3>2, <3>3
  <2> QED
    BY Zenon, <1>4, <1>5, <1>6, <1>7, <1>9, <2>1, <2>2 DEF Limits
<1>16. ASSUME Progress PROVE Progress'
  <2>1. pt'.iteration # 1 /\ pt'.iteration \in Nat \ {0}
    <3>1. pt.iteration \in Nat \ {0}
      BY <1>2, <1>16 DEF Progress, Flags, InRound
    <3> QED
      BY <1>5, <3>1
  <2>2. ASSUME ~Paged, NEW p \in Part, ~parts[p].retry PROVE Over(p)
    <3>1. CASE \A n \in Node : p \notin np[n].parts
      BY Zenon, <1>2, <1>16, <2>2, <3>1 DEF Progress, Rest
    <3>2. ASSUME NEW n \in Node, p \in np[n].parts PROVE Over(p)
      <4>1. ~np[n].open /\ stream[p].open
        BY <1>2, <2>2, <3>2 DEF RoundOver, Counts, Missed
      <4>2. MayStop(n)
        BY Zenon, <1>2, <1>16, <2>2, <3>2, <4>1 DEF Progress, Ended
      <4>3. ~(np[n].record_max > 0)
        BY Zenon, <1>2, <2>2, <3>2 DEF Counts, Limits
      <4>4. stream[p].at = Size[p]
        BY <3>2, <4>1, <4>2, <4>3 DEF MayStop, Exhausted
      <4>5. ~np[n].retry
        BY <1>2, <2>2 DEF Counts, Dropped, Limits
      <4>6. stream[p].at = parts[p].digest
        BY <1>2, <3>2, <4>5 DEF Counts, Dropped
      <4> QED
        BY <4>4, <4>6 DEF Over
    <3> QED
      BY <3>1, <3>2
  <2>3. Rest'
    <3> SUFFICES ASSUME ~Paged, NEW p \in Part, p \notin ToRetry' PROVE Over(p)'
      BY <1>7, <2>1 DEF Rest
    <3>1. ~parts[p].retry
      BY <1>2 DEF ToRetry
    <3>2. Over(p)
      BY <2>2, <3>1
    <3> QED
      BY Zenon, <1>2, <1>7, <3>2 DEF Over
  <2>4. Ended'
    BY <1>7 DEF Ended
  <2>5. all.retry /\ ~all.done
    BY <1>2, <1>16 DEF Progress, Flags, InRound
  <2>6. Flags'
    BY Zenon, <1>2, <1>6, <1>7, <2>1, <2>5 DEF Flags
  <2> QED
    BY <2>3, <2>4, <2>6 DEF Progress
<1> QED
  BY Zenon, <1>11, <1>12, <1>13, <1>14, <1>15, <1>16 DEF Counts

\* The user asks for a page.
LEMMA StartPageInv ==
  ASSUME TrackerAssumption, Counts, StartPage
  PROVE  Counts' /\ (Progress => Progress')
<1>1. /\ np \in [Node -> NP] /\ page \in Page /\ pt \in PT /\ parts \in [Part -> PS] /\ faults \in Nat
      /\ Size \in [Part -> Nat] /\ MaxRecords \in Nat /\ all \in [retry : BOOLEAN, done : BOOLEAN]
  BY Typed DEF Counts, TrackerTypeOK
<1>2. /\ page.pc = "idle" /\ ~all.done
      /\ page' = [page EXCEPT !.pc = "assign", !.count = @ + 1, !.records = 0]
      /\ all' = [all EXCEPT !.retry = @ \/ MaxRecords = 0]
      /\ pt' = [iteration |-> 1, max_records |-> MaxRecords, record_count |-> 0, check_max |-> FALSE]
      /\ UNCHANGED <<parts, np, stream, got, faults>>
  BY DEF StartPage
<1>3. /\ page' \in Page /\ page'.scan = page.scan /\ page'.pc = "assign" /\ page'.records = 0
      /\ (page'.fatal <=> page.fatal)
  <2>1. PICK c : c = page.count + 1 /\ c \in Nat
    BY <1>1 DEF Page
  <2>2. page' = [page EXCEPT !.pc = "assign", !.count = c, !.records = 0] /\ page \in Page
    BY <1>1, <1>2, <2>1
  <2>3. page' \in Page /\ page'.scan = page.scan /\ page'.pc = "assign" /\ page'.records = 0
    BY Zenon, <2>1, <2>2 DEF Page
  <2>4. page'.fatal <=> page.fatal
    BY <2>2 DEF Page
  <2> QED
    BY <2>3, <2>4
<1>4. Size' = Size /\ MaxRecords' = MaxRecords /\ (Paged' <=> Paged) /\ ~InRound'
  BY <1>3 DEF Size, MaxRecords, Paged, InRound
<1>5. pt' \in PT /\ pt'.iteration = 1 /\ pt'.max_records = MaxRecords
  BY <1>1, <1>2 DEF PT
<1>6. /\ all' \in [retry : BOOLEAN, done : BOOLEAN] /\ ~all'.done
      /\ all'.retry <=> all.retry \/ MaxRecords = 0
  BY Zenon, <1>1, <1>2
<1>7. Counted' = Counted /\ RecordCount' = RecordCount
  BY <1>2 DEF Counted, RecordCount
<1>8. TrackerTypeOK'
  BY Zenon, <1>2, <1>3, <1>4, <1>5, <1>6 DEF Counts, TrackerTypeOK, PT, Page
<1>9. Accepted' /\ Divided'
  BY <1>2, <1>4 DEF Counts, Accepted, Divided, NoPartitions
<1>10. Dropped' /\ Missed' /\ Quotas'
  BY Zenon, <1>2, <1>4 DEF Counts, Dropped, Missed, Quotas
<1>11. Limits'
  BY <1>1, <1>3, <1>4, <1>5, <1>7 DEF Counts, Limits, Paged
<1>12. ASSUME Progress PROVE Progress'
  <2>1. Rest'
    <3> SUFFICES ASSUME NEW p \in Part, p \notin ToRetry' PROVE Over(p)'
      BY <1>4 DEF Rest
    <3>1. ~parts[p].retry /\ ~all.retry
      BY <1>2, <1>5, <1>6 DEF ToRetry
    <3>2. ~(parts[p].digest < Size[p])
      BY Zenon, <1>2, <1>12, <3>1 DEF Progress, Flags, NothingForgotten
    <3>3. parts[p].digest <= Size[p] /\ parts[p].digest \in Nat /\ Size[p] \in Nat
      BY <1>1 DEF Counts, Accepted, PS
    <3>4. Over(p)
      BY <3>2, <3>3 DEF Over
    <3> QED
      BY Zenon, <1>2, <1>4, <3>4 DEF Over
  <2>2. Ended'
    BY <1>4 DEF Ended
  <2>3. ~page.fatal
    BY <1>2, <1>12 DEF Progress, Flags
  <2>4. ~Paged => all'.retry
    BY <1>1, <1>6 DEF Paged
  <2>5. Flags'
    BY <1>3, <1>4, <1>5, <1>6, <2>3, <2>4 DEF Flags
  <2> QED
    BY <2>1, <2>2, <2>5 DEF Progress
<1> QED
  BY Zenon, <1>8, <1>9, <1>10, <1>11, <1>12 DEF Counts

-----------------------------------------------------------------------------
(* The partitions are assigned to the nodes.                                *)

\* Division with remainder.
LEMMA DivMod ==
  ASSUME NEW a \in Nat, NEW b \in Nat, b > 0
  PROVE  /\ a \div b \in Nat /\ a % b \in Nat /\ a = (a \div b) * b + (a % b)
         /\ (a >= b => a \div b > 0)
<1>1. a \div b \in Nat
  OBVIOUS
<1>2. a % b \in 0..(b - 1)
  OBVIOUS
<1>3. a = (a \div b) * b + (a % b)
  OBVIOUS
<1>4. ASSUME a >= b, a \div b = 0 PROVE FALSE
  <2>1. a = 0 * b + (a % b)
    BY Zenon, <1>3, <1>4
  <2> QED
    BY <1>2, <1>4, <2>1
<1> QED
  BY <1>1, <1>2, <1>3, <1>4

\* The shares of the nodes add up to what there is to share.
LEMMA Shares ==
  ASSUME NEW nodes \in SUBSET Node, IsFiniteSet(nodes), nodes # {}, pt.max_records \in Nat,
         NEW first \in kSubset(Remainder(nodes), nodes),
         NEW G, G = UNION {{n} \X (1..Share(nodes, n, first)) : n \in nodes}
  PROVE  /\ \A n \in nodes : Share(nodes, n, first) \in Nat /\ (Share(nodes, n, first) > 0 <=> pt.max_records > 0)
         /\ pt.max_records >= Cardinality(nodes) => IsFiniteSet(G) /\ Cardinality(G) <= pt.max_records
<1>1. PICK size : size = Cardinality(nodes) /\ size \in Nat /\ size > 0
  BY FS_CardinalityType, FS_EmptySet
<1>2. PICK max : max = pt.max_records /\ max \in Nat
  OBVIOUS
<1>3. PICK q : q = max \div size /\ q \in Nat
  BY Zenon, <1>1, <1>2, DivMod
<1>4. PICK rest : rest = max % size /\ rest \in Nat
  BY Zenon, <1>1, <1>2, DivMod
<1>5. max = q * size + rest /\ (max >= size => q > 0)
  BY Zenon, <1>1, <1>2, <1>3, <1>4, DivMod
<1>6. \A n \in nodes : Share(nodes, n, first) = IF max = 0 THEN 0 ELSE IF max >= size THEN q + (IF n \in first THEN 1 ELSE 0) ELSE 1
  BY Zenon, <1>1, <1>2, <1>3 DEF Share
<1>7. \A n \in nodes : Share(nodes, n, first) \in Nat /\ (Share(nodes, n, first) > 0 <=> max > 0)
  <2> TAKE n \in nodes
  <2>1. PICK share : share = Share(nodes, n, first)
    BY Zenon
  <2>2. PICK b : b = (IF n \in first THEN 1 ELSE 0) /\ b \in {0, 1}
    BY Zenon
  <2>3. share = IF max = 0 THEN 0 ELSE IF max >= size THEN q + b ELSE 1
    BY Zenon, <1>6, <2>1, <2>2
  <2>4. size \in Nat /\ size > 0 /\ max \in Nat /\ q \in Nat /\ (max >= size => q > 0)
    BY Zenon, <1>1, <1>2, <1>3, <1>5
  <2>5. share \in Nat /\ (share > 0 <=> max > 0)
    BY <2>2, <2>3, <2>4
  <2> QED
    BY Zenon, <2>1, <2>5
<1>8. ASSUME max >= size PROVE IsFiniteSet(G) /\ Cardinality(G) <= max
  <2>1. first \in SUBSET nodes /\ Cardinality(first) = rest
    BY <1>1, <1>2, <1>4, <1>8 DEF kSubset, Remainder
  <2>2. PICK A : A = nodes \X (1..q)
    BY Zenon
  <2>3. PICK B : B = first \X {q + 1}
    BY Zenon
  <2>4. G \subseteq A \cup B
    <3> SUFFICES ASSUME NEW x \in G PROVE x \in A \cup B
      OBVIOUS
    <3>1. PICK n \in nodes : x \in {n} \X (1..Share(nodes, n, first))
      BY Zenon
    <3>2. PICK i \in 1..Share(nodes, n, first) : x = <<n, i>>
      BY <3>1
    <3>3. Share(nodes, n, first) = q + (IF n \in first THEN 1 ELSE 0)
      BY <1>1, <1>2, <1>6, <1>8
    <3>4. i \in 1..q \/ (i = q + 1 /\ n \in first)
      BY <1>3, <3>2, <3>3
    <3> QED
      BY Zenon, <2>2, <2>3, <3>2, <3>4
  <2>5. IsFiniteSet(1..q) /\ Cardinality(1..q) = q
    BY <1>3, FS_Interval
  <2>6. IsFiniteSet(A) /\ Cardinality(A) = size * q
    BY Zenon, <1>1, <2>2, <2>5, FS_Product
  <2>7. IsFiniteSet(first)
    BY <2>1, FS_Subset
  <2>8. IsFiniteSet({q + 1}) /\ Cardinality({q + 1}) = 1
    BY Zenon, FS_Singleton
  <2>9. IsFiniteSet(B) /\ Cardinality(B) = rest * 1
    BY Zenon, <2>1, <2>3, <2>7, <2>8, FS_Product
  <2>10. IsFiniteSet(A \cup B) /\ Cardinality(A \cup B) = Cardinality(A) + Cardinality(B) - Cardinality(A \cap B)
    BY Zenon, <2>6, <2>9, FS_Union
  <2>11. Cardinality(A \cap B) \in Nat
    <3>1. A \cap B \in SUBSET A
      OBVIOUS
    <3> QED
      BY Zenon, <2>6, <3>1, FS_Subset, FS_CardinalityType
  <2>12. PICK a : a = Cardinality(A) /\ a \in Nat
    BY <2>6, FS_CardinalityType
  <2>13. max = a + rest
    <3>1. size * q = q * size
      BY <1>1, <1>3
    <3> QED
      BY Zenon, <1>5, <2>6, <2>12, <3>1
  <2>14. Cardinality(A \cup B) <= max
    BY <1>4, <2>9, <2>10, <2>11, <2>12, <2>13
  <2>15. IsFiniteSet(G) /\ Cardinality(G) <= Cardinality(A \cup B)
    BY Zenon, <2>4, <2>10, FS_Subset
  <2>16. Cardinality(G) \in Nat /\ Cardinality(A \cup B) \in Nat
    BY Zenon, <2>10, <2>15, FS_CardinalityType
  <2> QED
    BY <1>2, <2>14, <2>15, <2>16
<1> QED
  BY Zenon, <1>1, <1>2, <1>7, <1>8

\* The partitions of a round are assigned to nodes, with shares of max_records.
LEMMA AssignInv ==
  ASSUME TrackerAssumption, Counts, Assign
  PROVE  Counts' /\ (Progress => Progress')
<1>1. /\ np \in [Node -> NP] /\ page \in Page /\ pt \in PT /\ parts \in [Part -> PS] /\ faults \in Nat
      /\ Size \in [Part -> Nat] /\ MaxRecords \in Nat /\ all \in [retry : BOOLEAN, done : BOOLEAN]
  BY Typed DEF Counts, TrackerTypeOK
<1>2. /\ page.pc = "assign" /\ ToRetry # {}
      /\ parts' = [p \in Part |-> [parts[p] EXCEPT !.retry = @ /\ p \notin ToRetry]]
      /\ all' = [all EXCEPT !.retry = TRUE]
      /\ stream' = [p \in Part |-> [at |-> parts[p].digest, open |-> p \in ToRetry]]
      /\ page' = [page EXCEPT !.pc = "round"] /\ UNCHANGED <<got, faults>>
  BY DEF Assign
<1>3. PICK node, nodes, first :
         /\ node \in [ToRetry -> Node] /\ nodes = {node[p] : p \in ToRetry}
         /\ first \in kSubset(Remainder(nodes), nodes) /\ AssignTo(node, first)
  BY DEF Assign
<1>4. nodes \in SUBSET Node /\ nodes # {} /\ IsFiniteSet(nodes) /\ ToRetry \subseteq Part
  <2>1. nodes \in SUBSET Node /\ nodes # {} /\ ToRetry \subseteq Part
    BY <1>2, <1>3 DEF ToRetry
  <2> QED
    BY <2>1, FS_Subset DEF TrackerAssumption
<1>5. PICK share : share = [n \in Node |-> Share(nodes, n, first)]
  BY Zenon
<1>6. /\ np' = [n \in Node |-> IF n \in nodes
                               THEN [NoPartitions EXCEPT !.parts = {p \in ToRetry : node[p] = n},
                                                         !.record_max = share[n], !.open = TRUE]
                               ELSE NoPartitions]
      /\ pt' = [pt EXCEPT !.record_count = 0, !.check_max = pt.max_records \in 1..(Cardinality(nodes) - 1)]
  BY Zenon, <1>3, <1>5 DEF AssignTo
<1>7. pt.max_records \in Nat /\ Cardinality(nodes) \in Nat /\ (pt.max_records > 0 <=> Paged)
  BY <1>1, <1>2, <1>4, FS_CardinalityType DEF PT, Counts, Limits
<1>8. PICK G : G = UNION {{n} \X (1..Share(nodes, n, first)) : n \in nodes}
  BY Zenon
<1>9. /\ \A n \in nodes : Share(nodes, n, first) \in Nat /\ (Share(nodes, n, first) > 0 <=> pt.max_records > 0)
      /\ pt.max_records >= Cardinality(nodes) => IsFiniteSet(G) /\ Cardinality(G) <= pt.max_records
  BY Zenon, <1>3, <1>4, <1>7, <1>8, Shares
<1>10. \A n \in nodes : share[n] \in Nat /\ (share[n] > 0 <=> Paged)
  BY Zenon, <1>4, <1>5, <1>7, <1>9
<1>11. ASSUME NEW n \in Node
       PROVE  /\ np'[n] \in NP /\ np'[n].parts = {p \in ToRetry : node[p] = n} /\ np'[n].record_count = 0
              /\ np'[n].parts_unavailable = 0 /\ ~np'[n].retry /\ (np'[n].open <=> n \in nodes)
              /\ np'[n].record_max = IF n \in nodes THEN share[n] ELSE 0
              /\ n \notin nodes => np'[n] = NoPartitions
  <2>1. CASE n \in nodes
    <3>1. PICK r : r = [NoPartitions EXCEPT !.parts = {p \in ToRetry : node[p] = n}, !.record_max = share[n], !.open = TRUE]
                   /\ np'[n] = r
      BY Zenon, <1>6, <2>1
    <3>2. {p \in ToRetry : node[p] = n} \in SUBSET Part /\ share[n] \in Nat
      BY <1>4, <1>10, <2>1
    <3>3. PICK mine, most : /\ mine = {p \in ToRetry : node[p] = n} /\ mine \in SUBSET Part
                            /\ most = share[n] /\ most \in Nat
      BY Zenon, <3>2
    <3>4. r = [parts |-> mine, record_count |-> 0, record_max |-> most,
               parts_unavailable |-> 0, retry |-> FALSE, open |-> TRUE]
      BY Zenon, <3>1, <3>3 DEF NoPartitions
    <3>5. /\ r \in NP /\ r.parts = mine /\ r.record_count = 0 /\ r.parts_unavailable = 0
          /\ ~r.retry /\ r.open /\ r.record_max = most
      BY Zenon, <3>3, <3>4 DEF NP
    <3> QED
      BY <2>1, <3>1, <3>3, <3>5
  <2>2. CASE n \notin nodes
    <3>1. np'[n] = NoPartitions
      BY Zenon, <1>6, <2>2
    <3>2. {p \in ToRetry : node[p] = n} = {}
      BY Zenon, <1>3, <2>2
    <3> QED
      BY <2>2, <3>1, <3>2 DEF NP, NoPartitions
  <2> QED
    BY <2>1, <2>2
<1>12. np' \in [Node -> NP] /\ \A n \in Node : np'[n].parts \subseteq ToRetry /\ (np'[n].parts = {} => n \notin nodes)
  <2>1. np' = [n \in Node |-> np'[n]]
    BY Zenon, <1>6
  <2>2. np' \in [Node -> NP]
    BY <1>11, <2>1
  <2>3. ASSUME NEW n \in Node PROVE np'[n].parts \subseteq ToRetry /\ (np'[n].parts = {} => n \notin nodes)
    <3>1. np'[n].parts = {p \in ToRetry : node[p] = n}
      BY Zenon, <1>11
    <3> QED
      BY Zenon, <1>3, <3>1
  <2> QED
    BY <2>2, <2>3
<1>13. /\ pt' \in PT /\ pt'.iteration = pt.iteration /\ pt'.max_records = pt.max_records /\ pt'.record_count = 0
       /\ pt'.check_max <=> pt.max_records \in 1..(Cardinality(nodes) - 1)
  <2>1. CASE pt.max_records \in 1..(Cardinality(nodes) - 1)
    <3>1. pt' = [pt EXCEPT !.record_count = 0, !.check_max = TRUE]
      BY Zenon, <1>6, <2>1
    <3> QED
      BY Zenon, <1>1, <2>1, <3>1 DEF PT
  <2>2. CASE pt.max_records \notin 1..(Cardinality(nodes) - 1)
    <3>1. pt' = [pt EXCEPT !.record_count = 0, !.check_max = FALSE]
      <4>1. (pt.max_records \in 1..(Cardinality(nodes) - 1)) = FALSE
        BY <2>2
      <4> QED
        BY Zenon, <1>6, <4>1
    <3> QED
      BY Zenon, <1>1, <2>2, <3>1 DEF PT
  <2> QED
    BY <2>1, <2>2
<1>14. pt'.check_max <=> pt.max_records > 0 /\ pt.max_records < Cardinality(nodes)
  BY <1>7, <1>13
<1>15. /\ page' \in Page /\ page'.scan = page.scan /\ page'.pc = "round" /\ page'.records = page.records
       /\ (page'.fatal <=> page.fatal) /\ page.records \in Nat
  BY Zenon, <1>1, <1>2 DEF Page
<1>16. Size' = Size /\ MaxRecords' = MaxRecords /\ (Paged' <=> Paged) /\ InRound'
  BY <1>15 DEF Size, MaxRecords, Paged, InRound
<1>17. /\ parts' \in [Part -> PS] /\ \A p \in Part : parts'[p].digest = parts[p].digest
       /\ stream' \in [Part -> [at : Nat, open : BOOLEAN]]
       /\ \A p \in Part : stream'[p].at = parts[p].digest /\ (stream'[p].open <=> p \in ToRetry)
  <2>1. parts' \in [Part -> PS] /\ \A p \in Part : parts'[p].digest = parts[p].digest
    BY Zenon, <1>1, <1>2 DEF PS
  <2>2. \A p \in Part : parts[p].digest \in Nat
    BY Zenon, <1>1 DEF PS
  <2>3. ASSUME NEW p \in Part
        PROVE  /\ stream'[p] \in [at : Nat, open : BOOLEAN] /\ stream'[p].at = parts[p].digest
               /\ stream'[p].open <=> p \in ToRetry
    <3>1. CASE p \in ToRetry
      <4>1. stream'[p] = [at |-> parts[p].digest, open |-> TRUE]
        BY Zenon, <1>2, <3>1
      <4> QED
        BY <2>2, <3>1, <4>1
    <3>2. CASE p \notin ToRetry
      <4>1. stream'[p] = [at |-> parts[p].digest, open |-> FALSE]
        <5>1. (p \in ToRetry) = FALSE
          BY <3>2
        <5> QED
          BY Zenon, <1>2, <5>1
      <4> QED
        BY <2>2, <3>2, <4>1
    <3> QED
      BY Zenon, <3>1, <3>2
  <2>4. stream' = [p \in Part |-> stream'[p]]
    BY <1>2
  <2>5. stream' \in [Part -> [at : Nat, open : BOOLEAN]]
    BY <2>3, <2>4
  <2> QED
    BY <2>1, <2>3, <2>5
<1>18. all' \in [retry : BOOLEAN, done : BOOLEAN] /\ all'.retry /\ (all'.done <=> all.done)
  BY Zenon, <1>1, <1>2
<1>19. Counted' = {} /\ IsFiniteSet(Counted') /\ RecordCount' = 0
  BY <1>11, NoneCounted
<1>20. IsFiniteSet({}) /\ Cardinality({}) = 0
  BY Zenon, FS_EmptySet
<1>21. \A n \in Node : np'[n].parts_unavailable <= Cardinality(np'[n].parts)
  <2> SUFFICES ASSUME NEW n \in Node PROVE np'[n].parts_unavailable <= Cardinality(np'[n].parts)
    BY Zenon
  <2>1. Cardinality(np'[n].parts) \in Nat /\ np'[n].parts_unavailable = 0
    BY Zenon, <1>4, <1>11, <1>12, FinitePart
  <2> QED
    BY <2>1
<1>22. TrackerTypeOK'
  <2>1. got' = got /\ faults' = faults /\ TrackerTypeOK
    BY Zenon, <1>2 DEF Counts
  <2>2. DOMAIN got' = Part /\ (\A p \in Part : got'[p] \in [1..Size'[p] -> Nat]) /\ faults' \in Nat
    BY Zenon, <1>16, <2>1 DEF TrackerTypeOK
  <2>3. pt' \in PT /\ page' \in Page /\ np' \in [Node -> NP]
    BY Zenon, <1>12, <1>13, <1>15
  <2>4. /\ all' \in [retry : BOOLEAN, done : BOOLEAN] /\ parts' \in [Part -> PS]
        /\ stream' \in [Part -> [at : Nat, open : BOOLEAN]]
    BY Zenon, <1>17, <1>18
  <2> QED
    BY <1>21, <2>2, <2>3, <2>4 DEF TrackerTypeOK, NP, PT, PS, Page
<1>23. Accepted'
  <2>1. got' = got /\ \A p \in Part : parts'[p].digest = parts[p].digest
    BY Zenon, <1>2, <1>17
  <2> QED
    BY <1>16, <2>1 DEF Counts, Accepted
<1>24. Divided'
  <2>1. \A l, m \in Node : l # m => np'[l].parts \cap np'[m].parts = {}
    BY <1>11
  <2>2. \A m \in Node : np'[m].parts = {} => np'[m] = NoPartitions
    BY Zenon, <1>11, <1>12
  <2> QED
    BY Zenon, <2>1, <2>2 DEF Divided, NoPartitions
<1>25. Dropped'
  <2> SUFFICES ASSUME NEW m \in Node, NEW p \in np'[m].parts
               PROVE  stream'[p].at \in parts'[p].digest..Size'[p] /\ stream'[p].at = parts'[p].digest
    BY Zenon, <1>11 DEF Dropped
  <2>1. p \in Part
    BY Zenon, <1>4, <1>12
  <2>2. parts[p].digest <= Size[p] /\ parts[p].digest \in Nat /\ Size[p] \in Nat
    BY Zenon, <1>1, <2>1 DEF Counts, Accepted, PS
  <2> QED
    BY <1>16, <1>17, <2>1, <2>2
<1>26. Missed'
  <2>1. \A m \in Node : \A p \in np'[m].parts : stream'[p].open
    BY Zenon, <1>4, <1>12, <1>17
  <2>2. \A m \in Node : np'[m].parts_unavailable = Cardinality({p \in np'[m].parts : ~stream'[p].open})
    <3> SUFFICES ASSUME NEW m \in Node
                 PROVE  np'[m].parts_unavailable = Cardinality({p \in np'[m].parts : ~stream'[p].open})
      OBVIOUS
    <3>1. {p \in np'[m].parts : ~stream'[p].open} = {}
      BY <2>1
    <3> QED
      BY Zenon, <1>11, <1>20, <3>1
  <2> QED
    BY Zenon, <1>21, <2>1, <2>2 DEF Missed
<1>27. Limits'
  <2>1. ASSUME Paged PROVE page.records + pt.max_records = MaxRecords
    BY Zenon, <1>2, <2>1 DEF Counts, Limits
  <2>2. \A m \in Node : np'[m].parts # {} => (np'[m].record_max > 0 <=> Paged)
    <3> SUFFICES ASSUME NEW m \in Node, np'[m].parts # {} PROVE np'[m].record_max > 0 <=> Paged
      BY Zenon
    <3>1. PICK p \in ToRetry : node[p] = m
      BY <1>11
    <3>2. m \in nodes
      BY Zenon, <1>3, <3>1
    <3> QED
      BY Zenon, <1>10, <1>11, <3>2
  <2>3. Paged' => /\ page'.records + pt'.max_records = MaxRecords' + RecordCount'
                  /\ RecordCount' <= pt'.max_records
    BY <1>1, <1>7, <1>13, <1>15, <1>16, <1>19, <2>1
  <2>4. pt'.check_max => Paged' /\ RecordCount' <= pt'.record_count
    BY <1>7, <1>13, <1>14, <1>16, <1>19
  <2>5. pt'.max_records > 0 <=> Paged'
    BY Zenon, <1>7, <1>13, <1>16
  <2> QED
    BY Zenon, <1>15, <1>16, <1>19, <2>2, <2>3, <2>4, <2>5 DEF Limits, InRound
<1>28. Quotas'
  <2>1. ASSUME Paged, ~pt'.check_max PROVE IsFiniteSet(Granted') /\ Cardinality(Granted') <= pt.max_records
    <3>1. Granted' = G
      <4>1. ASSUME NEW x \in Granted' PROVE x \in G
        <5>1. PICK n \in Node : x \in {n} \X (1..np'[n].record_max)
          BY Zenon, <4>1 DEF Granted
        <5>2. n \in nodes
          BY <1>11, <5>1
        <5>3. np'[n].record_max = Share(nodes, n, first)
          BY Zenon, <1>5, <1>11, <5>2
        <5> QED
          BY Zenon, <1>8, <5>1, <5>2, <5>3
      <4>2. ASSUME NEW x \in G PROVE x \in Granted'
        <5>1. PICK n \in nodes : x \in {n} \X (1..Share(nodes, n, first))
          BY Zenon, <1>8, <4>2
        <5>2. n \in Node /\ np'[n].record_max = Share(nodes, n, first)
          BY Zenon, <1>4, <1>5, <1>11
        <5> QED
          BY Zenon, <5>1, <5>2 DEF Granted
      <4> QED
        BY Zenon, <4>1, <4>2
    <3>2. pt.max_records >= Cardinality(nodes)
      BY <1>7, <1>14, <2>1
    <3> QED
      BY <1>9, <3>1, <3>2
  <2>2. \A n \in Node : np'[n].record_count <= np'[n].record_max
    BY <1>10, <1>11
  <2> QED
    BY <1>13, <1>16, <2>1, <2>2 DEF Quotas
<1>29. ASSUME Progress PROVE Progress'
  <2>1. Ended'
    <3> SUFFICES ASSUME NEW m \in Node, ~np'[m].open PROVE MayStop(m)'
      BY Zenon DEF Ended
    <3>1. np'[m].parts = {}
      BY <1>11 DEF NoPartitions
    <3> QED
      BY Zenon, <3>1 DEF MayStop, Exhausted
  <2>2. Rest'
    <3> SUFFICES ASSUME pt'.iteration = 1 \/ ~Paged', NEW p \in Part, \A m \in Node : p \notin np'[m].parts
                 PROVE  Over(p)'
      BY <1>15 DEF Rest, InRound
    <3>1. p \notin ToRetry
      BY <1>3, <1>11
    <3>2. Over(p)
      BY Zenon, <1>2, <1>13, <1>16, <1>29, <3>1 DEF Progress, Rest
    <3> QED
      BY Zenon, <1>16, <1>17, <3>2 DEF Over
  <2>3. ~all.done /\ pt.iteration \in Nat \ {0}
    BY Zenon, <1>2, <1>29 DEF Progress, Flags
  <2>4. Flags'
    BY <1>13, <1>15, <1>18, <2>3 DEF Flags, InRound
  <2> QED
    BY Zenon, <2>1, <2>2, <2>4 DEF Progress
<1> QED
  BY Zenon, <1>22, <1>23, <1>24, <1>25, <1>26, <1>27, <1>28, <1>29 DEF Counts

-----------------------------------------------------------------------------
(* The theorems.                                                            *)

\* The invariant holds initially.
LEMMA InitInv == ASSUME TrackerAssumption, TrackerInit PROVE Counts /\ Progress
<1>1. PICK scan \in Scans : page = [scan |-> scan, pc |-> "idle", count |-> 0, records |-> 0, fatal |-> FALSE]
  BY Zenon DEF TrackerInit
<1>2. /\ page \in Page /\ page.pc = "idle" /\ page.records = 0 /\ ~page.fatal /\ ~InRound
  BY Zenon, <1>1 DEF Page, InRound
<1>3. Size \in [Part -> Nat] /\ MaxRecords \in Nat
  BY <1>1 DEF TrackerAssumption, Scan, Size, MaxRecords
<1>4. /\ np \in [Node -> NP] /\ IsFiniteSet({}) /\ Cardinality({}) = 0
      /\ \A n \in Node : np[n] = NoPartitions /\ np[n].record_count = 0 /\ np[n].parts = {} /\ np[n].parts_unavailable = 0
  BY Zenon, FS_EmptySet DEF TrackerInit, NP, NoPartitions
<1>5. Counted = {} /\ IsFiniteSet(Counted)
  <2>1. ASSUME NEW x \in Counted PROVE FALSE
    <3>1. PICK n \in Node : x \in {n} \X (1..np[n].record_count)
      BY <2>1 DEF Counted
    <3> QED
      BY <1>4, <3>1
  <2>2. Counted = {}
    BY Zenon, <2>1
  <2> QED
    BY Zenon, <1>4, <2>2
<1>6. /\ parts \in [Part -> PS] /\ \A p \in Part : parts[p].digest = 0 /\ parts[p].retry
  BY Zenon DEF TrackerInit, PS
<1>7. pt \in PT /\ all \in [retry : BOOLEAN, done : BOOLEAN] /\ all.retry /\ ~all.done
  BY Zenon DEF TrackerInit, PT
<1>8. /\ DOMAIN got = Part /\ (\A p \in Part : got[p] \in [1..Size[p] -> Nat])
      /\ \A p \in Part : \A r \in 1..Size[p] : got[p][r] = 0
  BY DEF TrackerInit
<1>9. \A n \in Node : np[n].parts_unavailable <= Cardinality(np[n].parts)
  BY <1>4
<1>10. TrackerTypeOK
  <2>1. stream \in [Part -> [at : Nat, open : BOOLEAN]] /\ faults \in Nat
    BY Zenon DEF TrackerInit
  <2> QED
    BY Zenon, <1>2, <1>4, <1>6, <1>7, <1>8, <1>9, <2>1 DEF TrackerTypeOK, NP, PS, PT, Page
<1>11. Accepted
  BY <1>3, <1>6, <1>8 DEF Accepted
<1>12. Divided /\ Dropped /\ Missed /\ Quotas
  BY Zenon, <1>2, <1>4, <1>9 DEF Divided, Dropped, Missed, Quotas, NoPartitions
<1>13. Limits
  <2>1. page.records <= MaxRecords
    BY <1>2, <1>3
  <2> QED
    BY Zenon, <1>2, <1>5, <2>1 DEF Limits
<1>14. Progress
  BY Zenon, <1>2, <1>7 DEF Progress, Ended, Rest, Flags, NothingForgotten
<1> QED
  BY <1>10, <1>11, <1>12, <1>13, <1>14 DEF Counts

\* A stuttering step keeps the invariant.
LEMMA Stutters == ASSUME UNCHANGED tracker_vars PROVE (Counts' <=> Counts) /\ (Progress' <=> Progress)
<1>1. /\ all' = all /\ parts' = parts /\ pt' = pt /\ np' = np /\ stream' = stream /\ page' = page /\ got' = got
      /\ faults' = faults
  BY Zenon DEF tracker_vars
<1>2. /\ Size' = Size /\ MaxRecords' = MaxRecords /\ PartitionQuery' = PartitionQuery /\ (Paged' <=> Paged)
      /\ (InRound' <=> InRound) /\ Counted' = Counted /\ RecordCount' = RecordCount /\ Granted' = Granted
      /\ ToRetry' = ToRetry
  BY <1>1 DEF Size, MaxRecords, PartitionQuery, Paged, InRound, Counted, RecordCount, Granted, ToRetry
<1>3. TrackerTypeOK' <=> TrackerTypeOK
  BY <1>1, <1>2, Zenon DEF TrackerTypeOK
<1>4. (Accepted' <=> Accepted) /\ (Divided' <=> Divided)
  BY <1>1, <1>2, Zenon DEF Accepted, Divided, NoPartitions
<1>5. Dropped' <=> Dropped
  BY <1>1, <1>2, Zenon DEF Dropped
<1>6. Missed' <=> Missed
  BY <1>1, <1>2, Zenon DEF Missed
<1>7. Limits' <=> Limits
  BY <1>1, <1>2, Zenon DEF Limits
<1>8. Quotas' <=> Quotas
  BY <1>1, <1>2, Zenon DEF Quotas
<1>9. Ended' <=> Ended
  <2>1. \A n \in Node : MayStop(n)' <=> MayStop(n)
    BY <1>1, <1>2 DEF MayStop, Exhausted, Sent
  <2> QED
    BY <1>1, <1>2, <2>1, Zenon DEF Ended
<1>10. Rest' <=> Rest
  <2>1. \A p \in Part : Over(p)' <=> Over(p)
    BY <1>1, <1>2 DEF Over
  <2> QED
    BY <1>1, <1>2, <2>1, Zenon DEF Rest
<1>11. Flags' <=> Flags
  <2>1. NothingForgotten' <=> NothingForgotten
    BY Zenon, <1>1, <1>2 DEF NothingForgotten
  <2>2. \A p \in Part : Over(p)' <=> Over(p)
    BY <1>1, <1>2 DEF Over
  <2> QED
    BY <1>1, <1>2, <2>1, <2>2, Zenon DEF Flags
<1> QED
  BY Zenon, <1>3, <1>4, <1>5, <1>6, <1>7, <1>8, <1>9, <1>10, <1>11 DEF Counts, Progress

\* Every step keeps the invariant.
LEMMA NextInv ==
  ASSUME TrackerAssumption, Counts, [TrackerNext]_tracker_vars
  PROVE  Counts' /\ (AsyncUnpaged /\ Progress => Progress')
<1>1. CASE StartPage
  BY <1>1, StartPageInv
<1>2. CASE Assign
  BY <1>2, AssignInv
<1>3. CASE \E n \in Node : NodeEnds(n) \/ NodeStops(n) \/ NodeFails(n) \/ NodeAborts(n)
  BY <1>3, NodeEndsInv
<1>4. ASSUME NEW n \in Node, NEW p \in Part, Record(n, p)
      PROVE  Counts' /\ (Progress => Progress')
  BY <1>4, DropInv, AcceptInv
<1>5. CASE PageAborted \/ RoundSuffices \/ RoundGivesUp
  BY Zenon, <1>5, EndsInv
<1>6. CASE RoundCompletes
  BY <1>6, RoundCompletesInv
<1>7. CASE NextRound
  BY <1>7, NextRoundInv
<1>8. CASE AssignFails
  BY <1>8, AssignFailsInv
<1>9. ASSUME NEW n \in Node, NEW p \in Part, UserStops(n, p) \/ PartUnavailable(n, p)
      PROVE  Counts' /\ (Progress => Progress')
  BY <1>9, UserStopsInv, PartUnavailableInv
<1>10. CASE UNCHANGED tracker_vars
  BY <1>10, Stutters
<1> QED
  BY Zenon, <1>1, <1>2, <1>3, <1>4, <1>5, <1>6, <1>7, <1>8, <1>9, <1>10 DEF TrackerNext, Step, Trouble, Finished

\* What the invariant says of the records.
LEMMA CountsSay == ASSUME TrackerAssumption, Counts PROVE NoDuplicates
<1>1. /\ page \in Page /\ pt \in PT /\ MaxRecords \in Nat
  BY Zenon, Typed DEF Counts
<1>2. HandedOnce
  BY DEF HandedOnce, Counts, Accepted
<1>3. PageLimit
  <2> SUFFICES ASSUME Paged PROVE page.records <= MaxRecords
    BY Zenon DEF PageLimit, Paged
  <2>1. page.records \in Nat /\ pt.max_records \in Nat /\ RecordCount \in Nat
    BY Zenon, <1>1, RecordCountType DEF Page, PT, Counts, Limits
  <2>2. CASE page.pc = "idle"
    BY <2>2 DEF Counts, Limits
  <2>3. CASE page.pc = "assign"
    <3>1. page.records + pt.max_records = MaxRecords
      BY <2>3 DEF Counts, Limits
    <3> QED
      BY <1>1, <2>1, <3>1
  <2>4. CASE page.pc = "round"
    <3>1. page.records + pt.max_records = MaxRecords + RecordCount /\ RecordCount <= pt.max_records
      BY <2>4 DEF Counts, Limits, InRound
    <3> QED
      BY <1>1, <2>1, <3>1
  <2> QED
    BY <1>1, <2>2, <2>3, <2>4 DEF Page
<1> QED
  BY <1>2, <1>3 DEF Counts, NoDuplicates

\* The invariant implies the properties.
LEMMA ProgressSays == ASSUME TrackerAssumption, Counts, Progress PROVE NothingForgotten /\ DoneMeansAll
<1>1. NothingForgotten
  BY DEF Progress, Flags, NothingForgotten
<1>2. DoneMeansAll
  <2> SUFFICES ASSUME page.pc = "idle", all.done, NEW p \in Part, NEW r \in 1..Size[p] PROVE got[p][r] > 0
    BY DEF DoneMeansAll
  <2>1. parts[p].digest = Size[p]
    BY DEF Progress, Flags, Over
  <2>2. Size[p] \in Nat
    BY Typed DEF Counts
  <2>3. got[p][r] = 1
    BY <2>1, <2>2 DEF Counts, Accepted
  <2> QED
    BY <2>3
<1> QED
  BY Zenon, <1>1, <1>2

\* Over all its rounds and pages, a scan or a query never hands the listener a record
\* twice, and no page hands out more than max_records records: the digest that
\* as_partition_tracker_set_digest stores is the last record that was accepted, and the
\* shares of as_partition_tracker_assign, or check_max, bound what a round counts.
THEOREM RecordsOnce == ASSUME TrackerAssumption PROVE TrackerSpec => []NoDuplicates
<1>1. TrackerInit => Counts
  BY InitInv
<1>2. Counts /\ [TrackerNext]_tracker_vars => Counts'
  BY NextInv
<1>3. Counts => NoDuplicates
  BY CountsSay
<1> QED
  BY <1>1, <1>2, <1>3, PTL DEF TrackerSpec

\* NothingForgotten and DoneMeansAll hold in every state.
LEMMA AllKept ==
  ASSUME TrackerAssumption, AsyncUnpaged
  PROVE  TrackerSpec => [](NothingForgotten /\ DoneMeansAll)
<1>1. TrackerInit => Counts /\ Progress
  BY InitInv
<1>2. Counts /\ Progress /\ [TrackerNext]_tracker_vars => Counts' /\ Progress'
  BY NextInv
<1>3. Counts /\ Progress => NothingForgotten /\ DoneMeansAll
  BY ProgressSays
<1> QED
  BY <1>1, <1>2, <1>3, PTL DEF TrackerSpec

\* Between two pages, every partition with records to come is on the list that the next
\* page asks for, whatever failed, was stopped or was unavailable in the rounds before.
\* The hypothesis excludes the one way to lose them, an asynchronous page whose first
\* assignment finds no node: as_partition_error is not called there.
THEOREM PagesResume == ASSUME TrackerAssumption, AsyncUnpaged PROVE TrackerSpec => []NothingForgotten
  BY AllKept, PTL

\* A scan that as_partition_tracker_is_complete marks done has handed over every record.
THEOREM DoneIsAll == ASSUME TrackerAssumption, AsyncUnpaged PROVE TrackerSpec => []DoneMeansAll
  BY AllKept, PTL

=============================================================================
