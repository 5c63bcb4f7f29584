----------------------------- MODULE ShmProofs ------------------------------
(***************************************************************************)
(* Proofs about ShmCluster, for any number of processes and servers, any   *)
(* threshold and any number of events.                                     *)
(***************************************************************************)
EXTENDS ShmCluster, TLAPS

\* A leaf that names no prover is tried with SMT, with Zenon, and with SMT at length.
USE SMT, Zenon, SMTT(20)

-----------------------------------------------------------------------------
(* The invariant.                                                           *)

Mastering == {"owner", "misfit", "init", "tend", "removed", "add", "added", "stamp"}
Following == {"off", "wait", "takeover", "clock", "check", "spin", "locked", "sync"}
Places == Mastering \cup Following \cup {"copy", "start", "reset", "sleep"}

\* What of a process and of the segment the argument is about.
ProcFields == {"at", "alive", "inc", "master", "gen", "local", "i", "max", "lag", "wait", "slept"}
ShmFields == {"lock", "age", "pid", "taking", "ready", "gen", "node"}
Shape(r, fields) == r = [f \in fields |-> r[f]]

Process(r) ==
    /\ Shape(r, ProcFields)
    /\ r.at \in Places /\ r.lag \in Nat /\ r.lag <= MaxLag
    /\ r.alive \in BOOLEAN /\ r.master \in BOOLEAN
    /\ r.at # "off" => r.alive
    /\ r.at \in Mastering => r.master
    /\ r.at \in Following => ~r.master

Segment(s) ==
    /\ Shape(s, ShmFields)
    /\ s.lock \in {0, 1} /\ s.age \in Nat

TypeInv == proc = [p \in Proc |-> proc[p]] /\ (\A p \in Proc : Process(proc[p])) /\ Segment(shm)

\* A process tends, or is about to.
Tends(p) == proc[p].master \/ proc[p].at = "takeover"

OneTends == \A p, q \in Proc : Tends(p) /\ Tends(q) => p = q

Locked == \A p \in Proc : Tends(p) => shm.lock = 1

Stored == \A p \in Proc : proc[p].master /\ proc[p].at # "owner" => shm.pid = Pid(p)

\* A process that found the owner dead: it will see that the timestamp is new (or its
\* clock value is the older one), or nobody tends.
Refuses(lag) == shm.age < lag + Threshold \/ \A p \in Proc : ~Tends(p)

Dead == \A q \in Proc : proc[q].at \in Doubting => Refuses(proc[q].lag)

Inv == TypeInv /\ (~lapse => OneTends /\ Locked /\ Stored /\ Dead)

-----------------------------------------------------------------------------
(* A step of one process.                                                   *)

\* A step of a process leaves the other processes as they are.
LEMMA Others ==
  ASSUME TypeInv, NEW p \in Proc, NEW n, Step(p, n)
  PROVE  /\ proc'[p] = n /\ (\A q \in Proc : q # p => proc'[q] = proc[q]) /\ proc' = [q \in Proc |-> proc'[q]]
         /\ Process(n) => \A q \in Proc : Process(proc'[q])
<1>1. proc = [q \in Proc |-> proc[q]] /\ \A q \in Proc : Process(proc[q])
  BY DEF TypeInv
<1>2. proc' = [proc EXCEPT ![p] = n]
  BY DEF Step
<1>3. proc'[p] = n /\ (\A q \in Proc : q # p => proc'[q] = proc[q])
  BY <1>1, <1>2
<1>4. proc' = [q \in Proc |-> proc'[q]]
  BY <1>1, <1>2
<1>5. ASSUME Process(n), NEW q \in Proc PROVE Process(proc'[q])
  BY <1>1, <1>3, <1>5
<1> QED
  BY <1>3, <1>4, <1>5

\* The process goes on as it was, whether it tends or not, and the lock stays.
Quiet(p, n) ==
    /\ Step(p, n) /\ Process(n) /\ Segment(shm')
    /\ n.inc = proc[p].inc /\ (n.alive <=> proc[p].alive) /\ (n.master <=> proc[p].master)
    /\ proc[p].at \notin {"off"} \cup Storing
    /\ n.at \notin {"off"} \cup Storing
    /\ lapse => lapse'
    /\ n.at \in Doubting /\ ~lapse' => Refuses(n.lag)
    /\ shm'.lock = shm.lock /\ shm'.pid = shm.pid
    /\ shm'.age = shm.age \/ shm'.age = 0

\* A quiet step, which no other process can notice, keeps the invariant.
LEMMA QuietInv ==
  ASSUME Inv, NEW p \in Proc, NEW n, Quiet(p, n)
  PROVE  Inv'
<1>1. /\ proc'[p] = n /\ (\A q \in Proc : q # p => proc'[q] = proc[q]) /\ proc' = [q \in Proc |-> proc'[q]]
      /\ \A q \in Proc : Process(proc'[q])
  BY Others DEF Quiet, Inv
<1>2. TypeInv'
  BY <1>1 DEF TypeInv, Quiet
<1> SUFFICES ASSUME ~lapse' PROVE (OneTends /\ Locked /\ Stored /\ Dead)'
  BY <1>2 DEF Inv
<1>0. OneTends /\ Locked /\ Stored /\ Dead
  BY DEF Inv, Quiet
<1>3. \A q \in Proc : /\ Tends(q)' <=> Tends(q)
                      /\ (proc'[q].at \in Storing <=> proc[q].at \in Storing)
                      /\ (proc'[q].at \in Storing => proc'[q].at = proc[q].at)
                      /\ (proc'[q].master <=> proc[q].master)
                      /\ Pid(q)' = Pid(q)
  BY <1>1 DEF Tends, Quiet, Storing, Pid
<1>4. OneTends' /\ Locked'
  BY <1>0, <1>3 DEF OneTends, Locked, Quiet
<1>5. Stored'
  <2> SUFFICES ASSUME NEW q \in Proc, proc'[q].master, proc'[q].at # "owner" PROVE shm'.pid = Pid(q)'
    BY DEF Stored
  <2>1. proc[q].master /\ proc[q].at # "owner"
    BY <1>3, <1>1 DEF Storing, Quiet
  <2>2. shm.pid = Pid(q)
    BY <1>0, <2>1 DEF Stored
  <2> QED
    BY <1>3, <2>2 DEF Quiet
<1>6. Dead'
  <2> SUFFICES ASSUME NEW q \in Proc, proc'[q].at \in Doubting PROVE Refuses(proc[q].lag)'
    BY DEF Dead
  <2>1. Refuses(proc'[q].lag)
    BY <1>0, <1>1 DEF Dead, Quiet
  <2>2. Process(proc'[q]) /\ Segment(shm) /\ Threshold \in Nat \ {0}
    BY <1>1, ShmAssumption DEF Inv, TypeInv
  <2>3. shm.age \in Nat /\ proc'[q].lag \in Nat
    BY <2>2 DEF Process, Segment
  <2> QED
    BY <1>3, <2>1, <2>2, <2>3 DEF Quiet, Refuses
<1> QED
  BY <1>4, <1>5, <1>6

-----------------------------------------------------------------------------
(* The quiet steps.                                                         *)

\* The process goes to place a; what it knows of the nodes may change.
Becomes(r, n, a) ==
    /\ Shape(n, ProcFields)
    /\ n.at = a /\ n.alive = r.alive /\ n.inc = r.inc /\ n.master = r.master
    /\ n.lag = r.lag \/ n.lag = 0

\* What a process is after it moved to another place.
LEMMA BecomesIs ==
  ASSUME NEW r, Process(r), NEW a \in Places, NEW n, Becomes(r, n, a),
         a # "off" => r.alive, a \in Mastering => r.master, a \in Following => ~r.master
  PROVE  /\ Process(n) /\ n.at = a /\ n.inc = r.inc
         /\ (n.alive <=> r.alive) /\ (n.master <=> r.master)
<1>1. n.at = a /\ n.alive = r.alive /\ n.inc = r.inc /\ n.master = r.master
  BY DEF Becomes
<1>2. n.lag \in Nat /\ n.lag <= MaxLag
  BY ShmAssumption DEF Becomes, Process
<1>3. r.alive \in BOOLEAN /\ r.master \in BOOLEAN
  BY DEF Process
<1>4. n.alive \in BOOLEAN /\ n.master \in BOOLEAN
  BY <1>1, <1>3, Zenon
<1>5. (n.alive <=> r.alive) /\ (n.master <=> r.master)
  BY <1>1, Zenon
<1>6. Shape(n, ProcFields)
  BY DEF Becomes
<1>7. (n.at # "off" => n.alive) /\ (n.at \in Mastering => n.master) /\ (n.at \in Following => ~n.master)
  BY <1>1, <1>5, Zenon
<1>8. Process(n)
  BY <1>1, <1>2, <1>4, <1>6, <1>7, Zenon DEF Process
<1> QED
  BY <1>1, <1>5, <1>8

\* The invariant of one process.
LEMMA Own ==
  ASSUME Inv, NEW p \in Proc
  PROVE  /\ TypeInv /\ Process(proc[p]) /\ Segment(shm) /\ proc[p].at \in Places
         /\ proc[p].lag \in Nat /\ proc[p].lag <= MaxLag
         /\ (proc[p].at # "off" => proc[p].alive)
         /\ (proc[p].at \in Mastering => proc[p].master) /\ (proc[p].at \in Following => ~proc[p].master)
  BY DEF Inv, TypeInv, Process

\* A step that leaves the lock and the owner alone, and may store the time.
SameOwner ==
    Segment(shm') /\ shm'.lock = shm.lock /\ shm'.pid = shm.pid /\ (shm'.age = shm.age \/ shm'.age = 0)

\* A process that moves without a change of the owner keeps the invariant.
LEMMA Moves ==
  ASSUME Inv, NEW p \in Proc, NEW n, NEW a \in Places, Step(p, n), Becomes(proc[p], n, a),
         UNCHANGED shm \/ SameOwner, lapse => lapse',
         proc[p].at \notin {"off"} \cup Storing, a \notin {"off"} \cup Storing,
         a \in Mastering => proc[p].master, a \in Following => ~proc[p].master,
         a \in Doubting /\ ~lapse' => Refuses(n.lag)
  PROVE  Inv'
<1>1. /\ Process(n) /\ n.at = a /\ n.inc = proc[p].inc
      /\ (n.alive <=> proc[p].alive) /\ (n.master <=> proc[p].master)
  BY Own, BecomesIs
<1>2. SameOwner
  BY Own DEF SameOwner
<1>3. Quiet(p, n)
  BY <1>1, <1>2 DEF Quiet, SameOwner
<1> QED
  BY <1>3, QuietInv

\* Goto is such a move.
LEMMA GotoIs ==
  ASSUME Inv, NEW p \in Proc, NEW a, Goto(p, a)
  PROVE  \E n : Step(p, n) /\ Becomes(proc[p], n, a)
<1> DEFINE n == [proc[p] EXCEPT !.at = a]
<1>1. Process(proc[p]) /\ Step(p, n)
  BY Own DEF Goto
<1>2. Becomes(proc[p], n, a)
  BY <1>1 DEF Process, Becomes, Shape, ProcFields
<1> QED
  BY <1>1, <1>2

\* A process waits till the cluster in memory is ready.
LEMMA WaitInv ==
  ASSUME Inv, NEW p \in Proc, as_shm_wait_till_ready(p)
  PROVE  Inv'
<1> DEFINE n == [proc[p] EXCEPT !.at = "copy", !.wait = 0, !.i = 1, !.max = Len(shm.node)]
<1>1. Process(proc[p]) /\ Step(p, n) /\ UNCHANGED <<shm, lapse>> /\ proc[p].at = "wait" /\ ~proc[p].master
  BY Own DEF as_shm_wait_till_ready, Following
<1>2. Becomes(proc[p], n, "copy")
  BY <1>1 DEF Process, Becomes, Shape, ProcFields
<1> HIDE DEF n
<1> QED
  BY <1>1, <1>2, Moves DEF Places, Mastering, Following, Storing, Doubting

\* A process copies the slots of the segment one at a time (as_shm_reset_nodes).
LEMMA ResetInv ==
  ASSUME Inv, NEW p \in Proc, as_shm_reset_nodes(p)
  PROVE  Inv'
<1>1. Process(proc[p]) /\ UNCHANGED <<shm, lapse>> /\ proc[p].at \in {"copy", "reset"}
  BY Own DEF as_shm_reset_nodes
<1>2. ASSUME NEW a \in {"start", "sleep"}, Step(p, [proc[p] EXCEPT !.at = a, !.slept = FALSE]) PROVE Inv'
  <2> DEFINE n == [proc[p] EXCEPT !.at = a, !.slept = FALSE]
  <2>1. Becomes(proc[p], n, a)
    BY <1>1 DEF Process, Becomes, Shape, ProcFields
  <2> HIDE DEF n
  <2> QED
    BY <1>1, <1>2, <2>1, Moves DEF Places, Mastering, Following, Storing, Doubting, n
<1>3. ASSUME NEW i, NEW l, Step(p, [proc[p] EXCEPT !.i = i, !.local = l]) PROVE Inv'
  <2> DEFINE n == [proc[p] EXCEPT !.i = i, !.local = l]
  <2>1. Becomes(proc[p], n, proc[p].at)
    BY <1>1 DEF Process, Becomes, Shape, ProcFields
  <2> HIDE DEF n
  <2> QED
    BY <1>1, <1>3, <2>1, Moves DEF Places, Mastering, Following, Storing, Doubting, n
<1>4. \/ \E a \in {"start", "sleep"} : Step(p, [proc[p] EXCEPT !.at = a, !.slept = FALSE])
      \/ \E i, l : Step(p, [proc[p] EXCEPT !.i = i, !.local = l])
  <2>1. CASE proc[p].i > proc[p].max
    <3>1. PICK a : a = (IF proc[p].at = "copy" THEN "start" ELSE "sleep")
      OBVIOUS
    <3>2. Step(p, [proc[p] EXCEPT !.at = a, !.slept = FALSE])
      BY <1>1, <2>1, <3>1 DEF as_shm_reset_nodes
    <3> QED
      BY <3>1, <3>2
  <2>2. CASE ~(proc[p].i > proc[p].max)
    BY <2>2 DEF as_shm_reset_nodes
  <2> QED
    BY <2>1, <2>2
<1> QED
  BY <1>2, <1>3, <1>4

\* The tend thread starts.
LEMMA StartTenderInv ==
  ASSUME Inv, NEW p \in Proc, StartTender(p)
  PROVE  Inv'
<1> DEFINE n == [proc[p] EXCEPT !.at = "sleep", !.slept = FALSE]
<1>1. Process(proc[p]) /\ Step(p, n) /\ UNCHANGED <<shm, lapse>> /\ proc[p].at = "start"
  BY Own DEF StartTender
<1>2. Becomes(proc[p], n, "sleep")
  BY <1>1 DEF Process, Becomes, Shape, ProcFields
<1> HIDE DEF n
<1> QED
  BY <1>1, <1>2, Moves DEF Places, Mastering, Following, Storing, Doubting

\* A round of the tend begins.
LEMMA TendBeginsInv ==
  ASSUME Inv, NEW p \in Proc, TendBegins(p)
  PROVE  Inv'
<1>1. proc[p].at = "sleep" /\ proc[p].master /\ UNCHANGED <<shm, lapse>> /\ Goto(p, "tend")
  BY DEF TendBegins
<1>2. PICK n : Step(p, n) /\ Becomes(proc[p], n, "tend")
  BY <1>1, GotoIs
<1> QED
  BY <1>1, <1>2, Moves DEF Places, Mastering, Following, Storing, Doubting

\* Changes of the segment that keep lock and owner.
LEMMA SegmentChanges ==
  ASSUME Segment(shm), NEW s, NEW g, NEW v,
         \/ s = [shm EXCEPT !.node = v]
         \/ s = [shm EXCEPT !.gen = g]
         \/ s = [shm EXCEPT !.age = 0]
         \/ s = [shm EXCEPT !.taking = v]
         \/ s = [shm EXCEPT !.node = v, !.gen = g, !.ready = TRUE]
  PROVE  Segment(s) /\ s.lock = shm.lock /\ s.pid = shm.pid /\ (s.age = shm.age \/ s.age = 0)
<1>1. Shape(s, ShmFields)
  BY DEF Segment, Shape
<1>2. s.lock = shm.lock /\ s.pid = shm.pid /\ (s.age = shm.age \/ s.age = 0)
  BY DEF Segment, Shape, ShmFields
<1> QED
  BY <1>1, <1>2 DEF Segment

\* The first process initializes the nodes.
LEMMA InitNodesInv ==
  ASSUME Inv, NEW p \in Proc, InitNodes(p)
  PROVE  Inv'
<1>1. PICK l, v, g : /\ Step(p, [proc[p] EXCEPT !.at = "start", !.local = l])
                     /\ shm' = [shm EXCEPT !.node = v, !.gen = g, !.ready = TRUE]
  BY DEF InitNodes
<1> DEFINE n == [proc[p] EXCEPT !.at = "start", !.local = l]
<1>2. Process(proc[p]) /\ Segment(shm) /\ proc[p].at = "init" /\ UNCHANGED lapse
  BY Own DEF InitNodes
<1>3. Becomes(proc[p], n, "start")
  BY <1>2 DEF Process, Becomes, Shape, ProcFields
<1>4. SameOwner
  BY <1>1, <1>2, SegmentChanges DEF SameOwner
<1> HIDE DEF n
<1> QED
  BY <1>1, <1>2, <1>3, <1>4, Moves DEF Places, Mastering, Following, Storing, Doubting, n

\* A master goes on.
LEMMA MasterMoves ==
  ASSUME Inv, NEW p \in Proc, NEW n, NEW a \in Mastering \ {"owner"}, Step(p, n), Becomes(proc[p], n, a),
         UNCHANGED shm \/ SameOwner, UNCHANGED lapse, proc[p].at \in Mastering \ {"owner"}
  PROVE  Inv'
<1>1. proc[p].master
  BY Own
<1> QED
  BY <1>1, Moves DEF Places, Mastering, Following, Storing, Doubting

\* The master removes nodes.
LEMMA RemoveNodesInv ==
  ASSUME Inv, NEW p \in Proc, RemoveNodes(p)
  PROVE  Inv'
<1>1. Process(proc[p]) /\ Segment(shm) /\ proc[p].at = "tend" /\ UNCHANGED lapse
  BY Own DEF RemoveNodes
<1>2. CASE Goto(p, "add") /\ UNCHANGED shm
  <2>1. PICK n : Step(p, n) /\ Becomes(proc[p], n, "add")
    BY <1>2, GotoIs
  <2> QED
    BY <1>1, <1>2, <2>1, MasterMoves DEF Mastering
<1>3. ASSUME NEW l, NEW v, Step(p, [proc[p] EXCEPT !.at = "removed", !.local = l]), shm' = [shm EXCEPT !.node = v]
      PROVE  Inv'
  <2> DEFINE n == [proc[p] EXCEPT !.at = "removed", !.local = l]
  <2>1. Becomes(proc[p], n, "removed")
    BY <1>1 DEF Process, Becomes, Shape, ProcFields
  <2>2. SameOwner
    BY <1>1, <1>3, SegmentChanges DEF SameOwner
  <2> HIDE DEF n
  <2> QED
    BY <1>1, <1>3, <2>1, <2>2, MasterMoves DEF Mastering, n
<1> QED
  BY <1>2, <1>3 DEF RemoveNodes

\* The master counts a change of the nodes.
LEMMA NodesGenInv ==
  ASSUME Inv, NEW p \in Proc, NodesGen(p)
  PROVE  Inv'
<1>1. Process(proc[p]) /\ Segment(shm) /\ proc[p].at \in {"removed", "added"} /\ UNCHANGED lapse
  BY Own DEF NodesGen
<1>2. PICK a \in {"add", "stamp"} : Goto(p, a)
  BY DEF NodesGen
<1>3. PICK n : Step(p, n) /\ Becomes(proc[p], n, a)
  BY <1>2, GotoIs
<1>4. SameOwner
  BY <1>1, SegmentChanges DEF SameOwner, NodesGen
<1> QED
  BY <1>1, <1>3, <1>4, MasterMoves DEF Mastering

\* The master adds nodes.
LEMMA AddNodesInv ==
  ASSUME Inv, NEW p \in Proc, AddNodes(p)
  PROVE  Inv'
<1>1. Process(proc[p]) /\ Segment(shm) /\ proc[p].at = "add" /\ UNCHANGED lapse
  BY Own DEF AddNodes
<1>2. CASE Goto(p, "stamp") /\ UNCHANGED shm
  <2>1. PICK n : Step(p, n) /\ Becomes(proc[p], n, "stamp")
    BY <1>2, GotoIs
  <2> QED
    BY <1>1, <1>2, <2>1, MasterMoves DEF Mastering
<1>3. ASSUME NEW l, NEW v, Step(p, [proc[p] EXCEPT !.at = "added", !.local = l]), shm' = [shm EXCEPT !.node = v]
      PROVE  Inv'
  <2> DEFINE n == [proc[p] EXCEPT !.at = "added", !.local = l]
  <2>1. Becomes(proc[p], n, "added")
    BY <1>1 DEF Process, Becomes, Shape, ProcFields
  <2>2. SameOwner
    BY <1>1, <1>3, SegmentChanges DEF SameOwner
  <2> HIDE DEF n
  <2> QED
    BY <1>1, <1>3, <2>1, <2>2, MasterMoves DEF Mastering, n
<1> QED
  BY <1>2, <1>3 DEF AddNodes

\* The master stores its timestamp.
LEMMA StoreTimestampInv ==
  ASSUME Inv, NEW p \in Proc, StoreTimestamp(p)
  PROVE  Inv'
<1> DEFINE n == [proc[p] EXCEPT !.at = "sleep", !.slept = FALSE]
<1>1. Process(proc[p]) /\ Segment(shm) /\ proc[p].at = "stamp" /\ Step(p, n) /\ UNCHANGED lapse
  BY Own DEF StoreTimestamp
<1>2. Becomes(proc[p], n, "sleep")
  BY <1>1 DEF Process, Becomes, Shape, ProcFields
<1>3. SameOwner
  BY <1>1, SegmentChanges DEF SameOwner, StoreTimestamp
<1> HIDE DEF n
<1> QED
  BY <1>1, <1>2, <1>3, Moves DEF Places, Mastering, Following, Storing, Doubting

\* A follower goes on.
LEMMA FollowerMoves ==
  ASSUME Inv, NEW p \in Proc, NEW n, NEW a \in {"clock", "check", "sync"}, Step(p, n), Becomes(proc[p], n, a),
         UNCHANGED shm \/ SameOwner, UNCHANGED lapse,
         proc[p].at \in {"sleep", "clock", "check", "spin", "locked"}, ~proc[p].master
  PROVE  Inv'
  BY Moves DEF Places, Mastering, Following, Storing, Doubting

\* A follower reads the timestamp and compares it with its clock.
LEMMA LoadTimestampInv ==
  ASSUME Inv, NEW p \in Proc, LoadTimestamp(p)
  PROVE  Inv'
<1>1. Process(proc[p]) /\ proc[p].at = "clock" /\ UNCHANGED <<shm, lapse>> /\ ~proc[p].master
  BY Own DEF LoadTimestamp, Following
<1>2. CASE Stale(p)
  <2>1. PICK n : Step(p, n) /\ n = [proc[p] EXCEPT !.at = "check"]
    BY <1>2 DEF LoadTimestamp
  <2>2. Becomes(proc[p], n, "check")
    BY <1>1, <2>1 DEF Process, Becomes, Shape, ProcFields
  <2> QED
    BY <1>1, <2>1, <2>2, FollowerMoves
<1>3. CASE ~Stale(p)
  <2>1. PICK n, w : Step(p, n) /\ n = [proc[p] EXCEPT !.at = "sync", !.lag = 0, !.wait = w]
    BY <1>3 DEF LoadTimestamp
  <2>2. Becomes(proc[p], n, "sync")
    BY <1>1, <2>1 DEF Process, Becomes, Shape, ProcFields
  <2> QED
    BY <1>1, <2>1, <2>2, FollowerMoves
<1> QED
  BY <1>2, <1>3

\* Who is about to store itself, tends.
LEMMA StoringTends ==
  ASSUME Inv, NEW q \in Proc, proc[q].at \in Storing
  PROVE  Tends(q)
<1>1. Process(proc[q])
  BY Own
<1> QED
  BY <1>1 DEF Storing, Tends, Process, Mastering

\* A follower finds the owner dead, or has take_over_lock.
LEMMA ToDoubt ==
  ASSUME Inv, NEW p \in Proc, NEW n, NEW a \in Doubting, Step(p, n), Becomes(proc[p], n, a),
         UNCHANGED shm \/ SameOwner, lapse => lapse', proc[p].at \in {"check", "spin"}, ~proc[p].master,
         ~lapse' => Refuses(n.lag)
  PROVE  Inv'
<1>1. a \in Places /\ a \notin {"off"} \cup Storing /\ a \notin Mastering
  BY DEF Doubting, Places, Mastering, Following, Storing
<1>2. proc[p].at \notin {"off"} \cup Storing
  BY DEF Storing
<1> QED
  BY <1>1, <1>2, Moves, Zenon

\* The owner is found dead only when nobody tends, or who does has stored the time.
LEMMA CheckOwnerInv ==
  ASSUME Inv, NEW p \in Proc, CheckOwner(p)
  PROVE  Inv'
<1>1. Process(proc[p]) /\ proc[p].at = "check" /\ UNCHANGED shm /\ ~proc[p].master
  BY Own DEF CheckOwner, Following
<1>2. CASE OwnerExists
  <2>1. PICK n : Step(p, n) /\ n = [proc[p] EXCEPT !.at = "sync", !.lag = 0]
    BY <1>2 DEF CheckOwner
  <2>2. Becomes(proc[p], n, "sync")
    BY <1>1, <2>1 DEF Process, Becomes, Shape, ProcFields
  <2>3. UNCHANGED lapse
    BY <1>2 DEF CheckOwner
  <2> QED
    BY <1>1, <2>1, <2>2, <2>3, FollowerMoves
<1>3. CASE ~OwnerExists
  <2>1. PICK n : Step(p, n) /\ n = [proc[p] EXCEPT !.at = "spin"]
    BY <1>3 DEF CheckOwner, Goto
  <2>2. Becomes(proc[p], n, "spin") /\ n.lag = proc[p].lag
    BY <1>1, <2>1 DEF Process, Becomes, Shape, ProcFields
  <2>3. lapse' = (lapse \/ (Stale(p) /\ Unmarked))
    BY <1>3 DEF CheckOwner
  <2>4. shm.age \in Nat /\ proc[p].lag \in Nat /\ Threshold \in Nat \ {0} /\ MaxLag < Threshold /\ MaxLag \in Nat
    BY Own, ShmAssumption DEF Segment
  <2>5. ASSUME ~lapse', NEW q \in Proc, Tends(q) PROVE shm.age < proc[p].lag + Threshold
    <3>1. CASE ~Stale(p)
      BY <2>4, <3>1 DEF Stale
    <3>2. CASE Stale(p) /\ proc[q].at \in Storing
      <4>1. ~(shm.age > proc[q].lag)
        BY <2>3, <2>5, <3>2 DEF Unmarked
      <4>2. proc[q].lag \in Nat /\ proc[q].lag <= MaxLag
        BY Own
      <4> QED
        BY <2>4, <4>1, <4>2
    <3>3. CASE proc[q].at \notin Storing
      <4>1. proc[q].master /\ proc[q].at # "owner" /\ Stored
        BY <2>3, <2>5, <3>3 DEF Tends, Storing, Inv
      <4>2. shm.pid = Pid(q) /\ proc[q].alive
        BY <4>1, Own DEF Stored, Following
      <4> QED
        BY <1>3, <4>2 DEF OwnerExists
    <3> QED
      BY <3>1, <3>2, <3>3
  <2>6. ~lapse' => Refuses(n.lag)
    BY <2>2, <2>5 DEF Refuses
  <2>7. lapse => lapse'
    BY <2>3
  <2> QED
    BY <1>1, <2>1, <2>2, <2>6, <2>7, ToDoubt DEF Doubting
<1> QED
  BY <1>2, <1>3

\* A follower that found the timestamp old takes take_over_lock.
LEMMA LockTakeOverInv ==
  ASSUME Inv, NEW p \in Proc, LockTakeOver(p)
  PROVE  Inv'
<1>1. Process(proc[p]) /\ Segment(shm) /\ proc[p].at = "spin" /\ ~proc[p].master /\ UNCHANGED lapse
  BY Own DEF LockTakeOver, Following
<1>2. PICK n : Step(p, n) /\ n = [proc[p] EXCEPT !.at = "locked"]
  BY DEF LockTakeOver, Goto
<1>3. Becomes(proc[p], n, "locked") /\ n.lag = proc[p].lag
  BY <1>1, <1>2 DEF Process, Becomes, Shape, ProcFields
<1>4. SameOwner
  BY <1>1, SegmentChanges DEF SameOwner, LockTakeOver
<1>5. ~lapse' => Refuses(n.lag)
  BY <1>1, <1>3 DEF Inv, Dead, Doubting
<1> QED
  BY <1>1, <1>2, <1>3, <1>4, <1>5, ToDoubt DEF Doubting

\* A follower compares the generation of the nodes with its own.
LEMMA SyncInv ==
  ASSUME Inv, NEW p \in Proc, Sync(p)
  PROVE  Inv'
<1>1. Process(proc[p]) /\ proc[p].at = "sync" /\ UNCHANGED <<shm, lapse>> /\ ~proc[p].master
  BY Own DEF Sync, Following
<1>2. CASE Step(p, [proc[p] EXCEPT !.at = "sleep", !.slept = FALSE])
  <2> DEFINE n == [proc[p] EXCEPT !.at = "sleep", !.slept = FALSE]
  <2>1. Becomes(proc[p], n, "sleep")
    BY <1>1 DEF Process, Becomes, Shape, ProcFields
  <2> HIDE DEF n
  <2> QED
    BY <1>1, <1>2, <2>1, Moves DEF Places, Mastering, Following, Storing, Doubting, n
<1>3. CASE Step(p, [proc[p] EXCEPT !.at = "reset", !.gen = shm.gen, !.i = 1, !.max = Len(shm.node)])
  <2> DEFINE n == [proc[p] EXCEPT !.at = "reset", !.gen = shm.gen, !.i = 1, !.max = Len(shm.node)]
  <2>1. Becomes(proc[p], n, "reset")
    BY <1>1 DEF Process, Becomes, Shape, ProcFields
  <2> HIDE DEF n
  <2> QED
    BY <1>1, <1>3, <2>1, Moves DEF Places, Mastering, Following, Storing, Doubting, n
<1> QED
  BY <1>2, <1>3 DEF Sync

-----------------------------------------------------------------------------
(* Steps that take or release the lock, store the owner, or end a process.  *)

\* What a step of one process leaves alone.
LEMMA Frame ==
  ASSUME Inv, NEW p \in Proc, NEW n, Step(p, n), Process(n), Segment(shm')
  PROVE  /\ TypeInv' /\ proc'[p] = n /\ Pid(p)' = <<p, n.inc>>
         /\ Tends(p)' <=> n.master \/ n.at = "takeover"
         /\ \A q \in Proc : q # p => proc'[q] = proc[q] /\ (Tends(q)' <=> Tends(q)) /\ Pid(q)' = Pid(q)
<1>1. /\ proc'[p] = n /\ (\A q \in Proc : q # p => proc'[q] = proc[q]) /\ proc' = [q \in Proc |-> proc'[q]]
      /\ \A q \in Proc : Process(proc'[q])
  BY Others DEF Inv
<1> QED
  BY <1>1 DEF TypeInv, Tends, Pid

\* A timestamp of now, or as old as a clock value that a process holds, is a new one.
LEMMA NewTimestamp ==
  ASSUME TypeInv', NEW l \in Nat, l <= MaxLag, shm'.age = l
  PROVE  Dead'
<1> SUFFICES ASSUME NEW q \in Proc PROVE shm'.age < proc'[q].lag + Threshold
  BY DEF Dead, Refuses
<1>1. Process(proc'[q])
  BY DEF TypeInv
<1>2. proc'[q].lag \in Nat
  BY <1>1 DEF Process
<1> QED
  BY <1>2, ShmAssumption

\* A free lock is taken.
LEMMA Grabs ==
  ASSUME Inv, NEW p \in Proc, NEW n, Step(p, n), Process(n), Segment(shm'), n.at \in Storing,
         shm.lock = 0, shm'.lock = 1, shm'.age = shm.age, shm'.pid = shm.pid,
         lapse' = (lapse \/ Overtaken)
  PROVE  Inv'
<1>1. /\ TypeInv' /\ proc'[p] = n
      /\ \A q \in Proc : q # p => proc'[q] = proc[q] /\ (Tends(q)' <=> Tends(q)) /\ Pid(q)' = Pid(q)
  BY Frame
<1> SUFFICES ASSUME ~lapse' PROVE (OneTends /\ Locked /\ Stored /\ Dead)'
  BY <1>1 DEF Inv
<1>2. ~lapse /\ ~Overtaken
  OBVIOUS
<1>3. \A q \in Proc : ~Tends(q)
  BY <1>2 DEF Inv, Locked
<1>4. \A q \in Proc : Tends(q)' => q = p
  BY <1>1, <1>3
<1>5. OneTends' /\ Locked'
  BY <1>4 DEF OneTends, Locked
<1>6. Stored'
  <2> SUFFICES ASSUME NEW q \in Proc, proc'[q].master, proc'[q].at # "owner" PROVE FALSE
    BY DEF Stored
  <2>1. q = p
    BY <1>4 DEF Tends
  <2>2. Process(n) /\ n.at = "takeover"
    BY <1>1, <2>1 DEF Storing
  <2> QED
    BY <1>1, <2>1, <2>2 DEF Process, Following
<1>7. Dead'
  <2> SUFFICES ASSUME NEW q \in Proc, proc'[q].at \in Doubting PROVE shm'.age < proc'[q].lag + Threshold
    BY DEF Dead, Refuses
  <2>1. q # p
    BY <1>1 DEF Storing, Doubting
  <2>2. proc'[q] = proc[q] /\ ~Stale(q)
    BY <1>1, <1>2, <2>1 DEF Overtaken
  <2>3. shm.age \in Nat /\ proc[q].lag \in Nat
    BY Own DEF Segment
  <2> QED
    BY <2>2, <2>3, ShmAssumption DEF Stale
<1> QED
  BY <1>5, <1>6, <1>7

\* Changes of the lock.
LEMMA LockChanges ==
  ASSUME Segment(shm), NEW s, NEW l \in {0, 1}, NEW v, NEW g,
         \/ s = [shm EXCEPT !.lock = l]
         \/ s = [shm EXCEPT !.lock = l, !.node = v, !.gen = g]
  PROVE  Segment(s) /\ s.lock = l /\ s.pid = shm.pid /\ s.age = shm.age
<1>1. Shape(s, ShmFields)
  BY DEF Segment, Shape
<1>2. s.lock = l /\ s.pid = shm.pid /\ s.age = shm.age
  BY DEF Segment, Shape, ShmFields
<1> QED
  BY <1>1, <1>2 DEF Segment

\* Changes of the owner.
LEMMA OwnerChanges ==
  ASSUME Segment(shm), NEW s, NEW o,
         s = [shm EXCEPT !.age = 0, !.pid = o] \/ s = [shm EXCEPT !.pid = o]
  PROVE  Segment(s) /\ s.lock = shm.lock /\ s.pid = o /\ s.age \in {0, shm.age}
<1>1. Shape(s, ShmFields)
  BY DEF Segment, Shape
<1>2. s.lock = shm.lock /\ s.pid = o /\ s.age \in {0, shm.age}
  BY DEF Segment, Shape, ShmFields
<1> QED
  BY <1>1, <1>2 DEF Segment

\* The segment after a take-over.
LEMMA TakenChanges ==
  ASSUME Segment(shm), NEW s, NEW l \in Nat, s = [shm EXCEPT !.age = l, !.lock = 1, !.taking = FALSE]
  PROVE  Segment(s) /\ s.lock = 1 /\ s.pid = shm.pid /\ s.age = l
<1>1. Shape(s, ShmFields)
  BY DEF Segment, Shape
<1>2. s.lock = 1 /\ s.pid = shm.pid /\ s.age = l
  BY DEF Segment, Shape, ShmFields
<1> QED
  BY <1>1, <1>2 DEF Segment

\* A clock value that was just read.
LEMMA NoLag == 0 \in Nat /\ 0 <= MaxLag
  BY ShmAssumption

\* A process that has no client, or begins one.
LEMMA NewProcess ==
  ASSUME NEW n, Shape(n, ProcFields), n.at \in {"off", "wait", "owner"}, n.alive = TRUE,
         n.master = (n.at = "owner"), n.lag = 0
  PROVE  Process(n) /\ n.alive
  BY NoLag DEF Process, Places, Mastering, Following

\* A process that does not tend comes or goes, and nothing else changes.
LEMMA Bystander ==
  ASSUME Inv, NEW p \in Proc, NEW n, Step(p, n), Process(n), n.at \in {"off", "wait"}, ~n.master,
         UNCHANGED <<shm, lapse>>
  PROVE  Inv'
<1>1. /\ TypeInv' /\ proc'[p] = n /\ ~Tends(p)'
      /\ \A q \in Proc : q # p => proc'[q] = proc[q] /\ (Tends(q)' <=> Tends(q)) /\ Pid(q)' = Pid(q)
  BY Frame DEF Inv, TypeInv
<1> SUFFICES ASSUME ~lapse' PROVE (OneTends /\ Locked /\ Stored /\ Dead)'
  BY <1>1 DEF Inv
<1>2. OneTends' /\ Locked' /\ Stored'
  BY <1>1 DEF Inv, OneTends, Locked, Stored
<1>3. Dead'
  <2> SUFFICES ASSUME NEW q \in Proc, proc'[q].at \in Doubting PROVE Refuses(proc[q].lag)'
    BY DEF Dead
  <2>1. q # p
    BY <1>1 DEF Doubting
  <2>2. Refuses(proc[q].lag)
    BY <1>1, <2>1 DEF Inv, Dead
  <2> QED
    BY <1>1, <2>1, <2>2 DEF Refuses
<1> QED
  BY <1>2, <1>3

\* A process attaches to the segment, or creates it.
LEMMA CreateInv ==
  ASSUME Inv, NEW p \in Proc, as_shm_create(p)
  PROVE  Inv'
<1>1. Segment(shm)
  BY Own
<1>2. CASE shm.lock = 0
  <2> DEFINE n == [[NoProcess EXCEPT !.inc = proc[p].inc, !.master = TRUE] EXCEPT !.at = "owner"]
  <2>1. Step(p, n) /\ shm' = [shm EXCEPT !.lock = 1] /\ lapse' = (lapse \/ Overtaken)
    BY <1>2 DEF as_shm_create
  <2>2. Process(n) /\ n.at = "owner"
    <3>1. Shape(n, ProcFields)
      BY DEF Shape, ProcFields, NoProcess
    <3>2. n.at = "owner" /\ n.alive = TRUE /\ n.master = TRUE /\ n.lag = 0
      BY DEF NoProcess
    <3> HIDE DEF n
    <3> QED
      BY <3>1, <3>2, NewProcess
  <2>3. Segment(shm') /\ shm'.lock = 1 /\ shm'.pid = shm.pid /\ shm'.age = shm.age
    BY <1>1, <2>1, LockChanges
  <2> HIDE DEF n
  <2> QED
    BY <1>2, <2>1, <2>2, <2>3, Grabs DEF Storing
<1>3. CASE shm.lock # 0
  <2> DEFINE n == [[NoProcess EXCEPT !.inc = proc[p].inc, !.master = FALSE]
                      EXCEPT !.at = "wait", !.wait = ReadyWait]
  <2>1. Step(p, n) /\ UNCHANGED <<shm, lapse>>
    BY <1>3 DEF as_shm_create
  <2>2. Process(n) /\ n.at = "wait" /\ ~n.master
    <3>1. Shape(n, ProcFields)
      BY DEF Shape, ProcFields, NoProcess
    <3>2. n.at = "wait" /\ n.alive = TRUE /\ n.master = FALSE /\ n.lag = 0
      BY DEF NoProcess
    <3> HIDE DEF n
    <3> QED
      BY <3>1, <3>2, NewProcess
  <2> HIDE DEF n
  <2> QED
    BY <2>1, <2>2, Bystander
<1> QED
  BY <1>2, <1>3

\* A process that has the lock stores the timestamp and itself as owner.
LEMMA StoreOwnerInv ==
  ASSUME Inv, NEW p \in Proc, StoreOwner(p)
  PROVE  Inv'
<1>1. /\ proc[p].at = "owner" /\ Process(proc[p]) /\ Segment(shm) /\ proc[p].master
      /\ shm' = [shm EXCEPT !.age = 0, !.pid = Pid(p)] /\ UNCHANGED lapse
  BY Own DEF StoreOwner, Mastering
<1>2. PICK a \in {"copy", "misfit", "init"} :
         Step(p, [proc[p] EXCEPT !.at = a, !.lag = 0, !.i = 1, !.max = Len(shm.node)])
  BY DEF StoreOwner
<1> DEFINE n == [proc[p] EXCEPT !.at = a, !.lag = 0, !.i = 1, !.max = Len(shm.node)]
<1>3. Becomes(proc[p], n, a)
  BY <1>1 DEF Process, Becomes, Shape, ProcFields
<1>4. Step(p, n)
  BY <1>2
<1> HIDE DEF n
<1>5. Process(n) /\ n.at = a /\ n.inc = proc[p].inc /\ n.master
  BY <1>1, <1>3, BecomesIs, Own DEF Places, Mastering, Following
<1>6. Segment(shm') /\ shm'.pid = Pid(p)
  BY <1>1, OwnerChanges
<1>7. shm'.age = 0 /\ shm'.lock = shm.lock
  BY <1>1 DEF Segment, Shape, ShmFields
<1>8. /\ TypeInv' /\ proc'[p] = n /\ Pid(p)' = Pid(p)
      /\ \A q \in Proc : q # p => proc'[q] = proc[q] /\ (Tends(q)' <=> Tends(q)) /\ Pid(q)' = Pid(q)
  BY <1>4, <1>5, <1>6, Frame DEF Pid
<1> SUFFICES ASSUME ~lapse PROVE (OneTends /\ Locked /\ Stored /\ Dead)'
  BY <1>1, <1>8 DEF Inv
<1>9. Tends(p) /\ \A q \in Proc : Tends(q) => q = p
  BY <1>1 DEF Tends, Inv, OneTends
<1>10. shm.lock = 1
  BY <1>9 DEF Inv, Locked
<1>11. OneTends' /\ Locked'
  BY <1>7, <1>8, <1>9, <1>10 DEF OneTends, Locked
<1>12. Stored'
  BY <1>6, <1>8, <1>9 DEF Stored, Tends
<1>13. Dead'
  BY <1>7, <1>8, NewTimestamp, ShmAssumption
<1> QED
  BY <1>11, <1>12, <1>13

\* A follower finds the lock free, or reads the clock.
LEMMA FollowInv ==
  ASSUME Inv, NEW p \in Proc, Follow(p)
  PROVE  Inv'
<1>1. Process(proc[p]) /\ Segment(shm) /\ proc[p].at = "sleep" /\ ~proc[p].master /\ proc[p].alive
  BY Own DEF Follow
<1>2. CASE shm.lock = 0
  <2>1. PICK n : Step(p, n) /\ Becomes(proc[p], n, "takeover")
    BY <1>2, GotoIs DEF Follow
  <2>2. shm' = [shm EXCEPT !.lock = 1] /\ lapse' = (lapse \/ Overtaken)
    BY <1>2 DEF Follow
  <2>3. Process(n) /\ n.at = "takeover"
    BY <1>1, <2>1, BecomesIs DEF Places, Mastering, Following
  <2>4. Segment(shm') /\ shm'.lock = 1 /\ shm'.pid = shm.pid /\ shm'.age = shm.age
    BY <1>1, <2>2, LockChanges
  <2> QED
    BY <1>2, <2>1, <2>2, <2>3, <2>4, Grabs DEF Storing
<1>3. CASE shm.lock # 0
  <2>1. PICK a \in {"clock", "sync"} : Goto(p, a)
    BY <1>3 DEF Follow
  <2>2. PICK n : Step(p, n) /\ Becomes(proc[p], n, a)
    BY <2>1, GotoIs
  <2>3. UNCHANGED <<shm, lapse>>
    BY <1>3 DEF Follow
  <2> QED
    BY <1>1, <2>2, <2>3, FollowerMoves
<1> QED
  BY <1>2, <1>3

\* A process that finds the timestamp still old under take_over_lock: nobody tends.
LEMMA TakeOverInv ==
  ASSUME Inv, NEW p \in Proc, TakeOver(p)
  PROVE  Inv'
<1>1. /\ Process(proc[p]) /\ Segment(shm) /\ proc[p].at = "locked" /\ ~proc[p].master /\ proc[p].alive
      /\ proc[p].lag \in Nat /\ proc[p].lag <= MaxLag
  BY Own DEF TakeOver, Following
<1>2. CASE Recheck(p)
  <2>1. /\ Goto(p, "takeover") /\ shm' = [shm EXCEPT !.age = proc[p].lag, !.lock = 1, !.taking = FALSE]
        /\ lapse' = (lapse \/ shm.age < proc[p].lag)
    BY <1>2 DEF TakeOver
  <2>2. PICK n : Step(p, n) /\ Becomes(proc[p], n, "takeover")
    BY <2>1, GotoIs
  <2>3. Process(n) /\ n.at = "takeover" /\ ~n.master
    BY <1>1, <2>2, BecomesIs DEF Places, Mastering, Following
  <2>4. Segment(shm') /\ shm'.lock = 1 /\ shm'.pid = shm.pid /\ shm'.age = proc[p].lag
    BY <1>1, <2>1, TakenChanges
  <2>5. /\ TypeInv' /\ proc'[p] = n
        /\ \A q \in Proc : q # p => proc'[q] = proc[q] /\ (Tends(q)' <=> Tends(q)) /\ Pid(q)' = Pid(q)
    BY <2>2, <2>3, <2>4, Frame
  <2> SUFFICES ASSUME ~lapse' PROVE (OneTends /\ Locked /\ Stored /\ Dead)'
    BY <2>5 DEF Inv
  <2>6. ~lapse /\ ~(shm.age < proc[p].lag)
    BY <2>1
  <2>7. ~(shm.age < proc[p].lag + Threshold)
    <3>1. shm.age \in Nat /\ Threshold \in Nat
      BY <1>1, ShmAssumption DEF Segment
    <3> QED
      BY <1>1, <1>2, <2>6, <3>1 DEF Recheck, Stale
  <2>8. \A q \in Proc : ~Tends(q)
    BY <1>1, <2>6, <2>7 DEF Inv, Dead, Refuses, Doubting
  <2>9. OneTends' /\ Locked'
    BY <2>4, <2>5, <2>8 DEF OneTends, Locked
  <2>10. Stored'
    BY <2>3, <2>5, <2>8 DEF Stored, Tends
  <2>11. Dead'
    BY <1>1, <2>4, <2>5, NewTimestamp
  <2> QED
    BY <2>9, <2>10, <2>11
<1>3. CASE ~Recheck(p)
  <2>1. PICK n, w : Step(p, n) /\ n = [proc[p] EXCEPT !.at = "sync", !.lag = 0, !.wait = w]
    BY <1>3 DEF TakeOver
  <2>2. Becomes(proc[p], n, "sync")
    BY <1>1, <2>1 DEF Process, Becomes, Shape, ProcFields
  <2>3. shm' = [shm EXCEPT !.taking = FALSE] /\ UNCHANGED lapse
    BY <1>3 DEF TakeOver
  <2>4. SameOwner
    BY <1>1, <2>3, SegmentChanges DEF SameOwner
  <2> QED
    BY <1>1, <2>1, <2>2, <2>3, <2>4, FollowerMoves
<1> QED
  BY <1>2, <1>3

\* A process takes the cluster over (as_shm_takeover_cluster).
LEMMA TakeOverClusterInv ==
  ASSUME Inv, NEW p \in Proc, as_shm_takeover_cluster(p)
  PROVE  Inv'
<1> DEFINE n == [proc[p] EXCEPT !.at = "tend", !.master = TRUE, !.lag = 0]
<1>1. /\ proc[p].at = "takeover" /\ Process(proc[p]) /\ Segment(shm) /\ proc[p].alive
      /\ shm' = [shm EXCEPT !.pid = Pid(p)] /\ Step(p, n) /\ UNCHANGED lapse
  BY Own DEF as_shm_takeover_cluster
<1>2. Shape(n, ProcFields)
  BY <1>1 DEF Process, Shape
<1>3. n.at = "tend" /\ n.master = TRUE /\ n.inc = proc[p].inc /\ n.lag = 0 /\ n.alive = proc[p].alive
  BY <1>1 DEF Process, Shape, ProcFields
<1> HIDE DEF n
<1>4. n.alive /\ n.alive \in BOOLEAN
  BY <1>1, <1>3, Zenon DEF Process
<1>5. Process(n)
  BY <1>2, <1>3, <1>4, NoLag DEF Process, Places, Mastering, Following
<1>6. Segment(shm') /\ shm'.pid = Pid(p)
  BY <1>1, OwnerChanges
<1>7. shm'.age = shm.age /\ shm'.lock = shm.lock
  BY <1>1 DEF Segment, Shape, ShmFields
<1>8. /\ TypeInv' /\ proc'[p] = n /\ Pid(p)' = Pid(p)
      /\ \A q \in Proc : q # p => proc'[q] = proc[q] /\ (Tends(q)' <=> Tends(q)) /\ Pid(q)' = Pid(q)
  BY <1>1, <1>3, <1>5, <1>6, Frame DEF Pid
<1> SUFFICES ASSUME ~lapse PROVE (OneTends /\ Locked /\ Stored /\ Dead)'
  BY <1>1, <1>8 DEF Inv
<1>9. Tends(p) /\ \A q \in Proc : Tends(q) => q = p
  BY <1>1 DEF Tends, Inv, OneTends
<1>10. shm.lock = 1
  BY <1>9 DEF Inv, Locked
<1>11. OneTends' /\ Locked'
  BY <1>7, <1>8, <1>9, <1>10 DEF OneTends, Locked
<1>12. Stored'
  BY <1>6, <1>8, <1>9 DEF Stored, Tends
<1>13. Dead'
  <2> SUFFICES ASSUME NEW q \in Proc, proc'[q].at \in Doubting PROVE shm'.age < proc'[q].lag + Threshold
    BY DEF Dead, Refuses
  <2>1. q # p
    BY <1>3, <1>8 DEF Doubting
  <2> QED
    BY <1>7, <1>8, <1>9, <2>1 DEF Inv, Dead, Refuses
<1> QED
  BY <1>11, <1>12, <1>13

\* A process that is off.
LEMMA OffProcess ==
  ASSUME NEW n, NEW i, n = [NoProcess EXCEPT !.inc = i]
  PROVE  Process(n) /\ n.at = "off" /\ ~n.master
<1>1. Shape(n, ProcFields)
  BY DEF Shape, ProcFields, NoProcess
<1>2. n.at = "off" /\ n.alive = TRUE /\ n.master = FALSE /\ n.lag = 0
  BY DEF NoProcess
<1> QED
  BY <1>1, <1>2, NewProcess

\* Nobody is left, and the segment is a new one.
LEMMA NewSegmentInv ==
  ASSUME shm = NewSegment, proc = [q \in Proc |-> proc[q]],
         \A q \in Proc : Process(proc[q]) /\ proc[q].at = "off"
  PROVE  Inv
<1>1. Old \in Nat
  BY ShmAssumption DEF Old
<1>2. shm.lock = 0 /\ shm.age = Old
  BY DEF NewSegment
<1>3. Shape(shm, ShmFields)
  BY DEF NewSegment, Shape, ShmFields
<1>4. TypeInv
  BY <1>1, <1>2, <1>3 DEF TypeInv, Segment
<1>5. \A q \in Proc : ~Tends(q) /\ ~proc[q].master
  BY DEF Process, Following, Tends
<1>6. OneTends /\ Locked /\ Stored /\ Dead
  BY <1>5 DEF OneTends, Locked, Stored, Dead, Doubting
<1> QED
  BY <1>4, <1>6 DEF Inv

\* A process closes its client.  Its lock is free or as it was, or the segment is gone.
LEMMA LeavesInv ==
  ASSUME Inv, NEW p \in Proc, NEW s, Leaves(p, s), UNCHANGED lapse, proc[p].at \notin {"off"} \cup Storing,
         Segment(s), s.pid = shm.pid, s.age = shm.age,
         ~proc[p].master => s.lock = shm.lock
  PROVE  Inv'
<1> DEFINE n == [NoProcess EXCEPT !.inc = proc[p].inc]
<1>1. Process(n) /\ n.at = "off" /\ ~n.master
  BY OffProcess
<1>2. Step(p, n) /\ shm' = Detached(p, s)
  BY DEF Leaves
<1> HIDE DEF n
<1>3. /\ proc'[p] = n /\ (\A q \in Proc : q # p => proc'[q] = proc[q]) /\ proc' = [q \in Proc |-> proc'[q]]
      /\ \A q \in Proc : Process(proc'[q])
  BY <1>1, <1>2, Others DEF Inv
<1>4. CASE Attached = {p}
  <2>1. shm' = NewSegment
    BY <1>2, <1>4 DEF Detached
  <2>2. ASSUME NEW q \in Proc PROVE proc'[q].at = "off"
    <3>1. CASE q = p
      BY <1>1, <1>3, <3>1
    <3>2. CASE q # p
      <4>1. q \notin Attached
        BY <1>4, <3>2
      <4>2. ~(proc[q].alive /\ proc[q].at # "off")
        BY <4>1 DEF Attached
      <4>3. proc[q].at = "off"
        BY <4>2, Own
      <4> QED
        BY <1>3, <3>2, <4>3
    <3> QED
      BY <3>1, <3>2
  <2>3. (shm = NewSegment /\ proc = [q \in Proc |-> proc[q]] /\ \A q \in Proc : Process(proc[q]) /\ proc[q].at = "off")'
    BY <1>3, <2>1, <2>2
  <2> QED
    BY <2>3, NewSegmentInv, PTL
<1>5. CASE Attached # {p}
  <2>1. shm' = s /\ Segment(shm')
    BY <1>2, <1>5 DEF Detached
  <2>2. /\ TypeInv' /\ ~Tends(p)'
        /\ \A q \in Proc : q # p => proc'[q] = proc[q] /\ (Tends(q)' <=> Tends(q)) /\ Pid(q)' = Pid(q)
    BY <1>1, <1>2, <2>1, Frame
  <2>3. proc'[p].at = "off" /\ ~proc'[p].master
    BY <1>1, <1>3
  <2> SUFFICES ASSUME ~lapse PROVE (OneTends /\ Locked /\ Stored /\ Dead)'
    BY <2>2 DEF Inv
  <2>4. OneTends'
    BY <2>2 DEF Inv, OneTends
  <2>5. proc[p].master => \A q \in Proc : Tends(q) => q = p
    BY DEF Inv, OneTends, Tends
  <2>6. Locked'
    BY <2>1, <2>2, <2>5 DEF Inv, Locked
  <2>7. Stored'
    BY <2>1, <2>2, <2>3 DEF Inv, Stored
  <2>8. Dead'
    <3> SUFFICES ASSUME NEW q \in Proc, proc'[q].at \in Doubting PROVE Refuses(proc[q].lag)'
      BY DEF Dead
    <3>1. q # p
      BY <2>3 DEF Doubting
    <3>2. Refuses(proc[q].lag)
      BY <2>2, <3>1 DEF Inv, Dead
    <3> QED
      BY <2>1, <2>2, <3>1, <3>2 DEF Refuses
  <2> QED
    BY <2>4, <2>6, <2>7, <2>8
<1> QED
  BY <1>4, <1>5

\* The first process fails to initialize the cluster.
LEMMA InitFailsInv ==
  ASSUME Inv, NEW p \in Proc, InitFails(p)
  PROVE  Inv'
<1>1. proc[p].at = "init" /\ Segment(shm) /\ proc[p].master /\ UNCHANGED lapse
  BY Own DEF InitFails, Mastering
<1>2. PICK v, g : Leaves(p, [shm EXCEPT !.lock = 0, !.node = v, !.gen = g])
  BY DEF InitFails
<1>3. PICK s : s = [shm EXCEPT !.lock = 0, !.node = v, !.gen = g] /\ Leaves(p, s)
  BY <1>2
<1>4. Segment(s) /\ s.pid = shm.pid /\ s.age = shm.age
  BY <1>1, <1>3, LockChanges
<1> QED
  BY <1>1, <1>3, <1>4, LeavesInv DEF Storing

\* A process whose configuration does not fit the segment leaves.
LEMMA MisfitInv ==
  ASSUME Inv, NEW p \in Proc, Misfit(p)
  PROVE  Inv'
<1>1. proc[p].at = "misfit" /\ Segment(shm) /\ proc[p].master /\ UNCHANGED lapse
  BY Own DEF Misfit, Mastering
<1>2. PICK s : s = [shm EXCEPT !.lock = 0] /\ Leaves(p, s)
  BY DEF Misfit
<1>3. Segment(s) /\ s.pid = shm.pid /\ s.age = shm.age
  BY <1>1, <1>2, LockChanges
<1> QED
  BY <1>1, <1>2, <1>3, LeavesInv DEF Storing

\* A process whose tend thread does not start leaves, and the lock stays.
LEMMA ThreadFailedInv ==
  ASSUME Inv, NEW p \in Proc, ThreadFailed(p)
  PROVE  Inv'
<1>1. proc[p].at = "start" /\ Segment(shm) /\ UNCHANGED lapse /\ Leaves(p, shm)
  BY Own DEF ThreadFailed
<1> QED
  BY <1>1, LeavesInv DEF Storing

\* A process closes the cluster.
LEMMA CloseInv ==
  ASSUME Inv, NEW p \in Proc, Close(p)
  PROVE  Inv'
<1>1. proc[p].at = "sleep" /\ Segment(shm) /\ UNCHANGED lapse
  BY Own DEF Close
<1>2. PICK s : Leaves(p, s) /\ s = IF proc[p].master THEN [shm EXCEPT !.lock = 0] ELSE shm
  BY DEF Close
<1>3. Segment(s) /\ s.pid = shm.pid /\ s.age = shm.age /\ (~proc[p].master => s.lock = shm.lock)
  <2>1. CASE proc[p].master
    BY <1>1, <1>2, <2>1, LockChanges
  <2>2. CASE ~proc[p].master
    BY <1>1, <1>2, <2>2
  <2> QED
    BY <2>1, <2>2
<1> QED
  BY <1>1, <1>2, <1>3, LeavesInv DEF Storing

\* A process dies, wherever it is.
LEMMA CrashInv ==
  ASSUME Inv, NEW p \in Proc, Crash(p)
  PROVE  Inv'
<1> DEFINE n == [NoProcess EXCEPT !.alive = FALSE, !.inc = proc[p].inc]
<1>1. Step(p, n) /\ UNCHANGED <<shm, lapse>>
  BY DEF Crash
<1>2. Shape(n, ProcFields)
  BY DEF Shape, ProcFields, NoProcess
<1>3. n.at = "off" /\ n.alive = FALSE /\ n.master = FALSE /\ n.lag = 0
  BY DEF NoProcess
<1> HIDE DEF n
<1>4. Process(n)
  BY <1>2, <1>3, NoLag DEF Process, Places, Mastering, Following
<1> QED
  BY <1>1, <1>3, <1>4, Bystander

\* A process that died starts again, under another pid.
LEMMA RestartInv ==
  ASSUME Inv, NEW p \in Proc, Restart(p)
  PROVE  Inv'
<1> DEFINE n == [NoProcess EXCEPT !.inc = proc[p].inc + 1]
<1>1. Step(p, n) /\ UNCHANGED <<shm, lapse>>
  BY DEF Restart
<1>2. Process(n) /\ n.at = "off" /\ ~n.master
  BY OffProcess
<1> HIDE DEF n
<1> QED
  BY <1>1, <1>2, Bystander

\* The timestamp and the clock values that processes hold grow older together.
LEMMA TickInv ==
  ASSUME Inv, Tick
  PROVE  Inv'
<1> DEFINE R(p) == [proc[p] EXCEPT !.lag = IF proc[p].at \in Holding THEN @ + 1 ELSE @,
                                   !.wait = IF @ > 0 THEN @ - 1 ELSE 0,
                                   !.slept = proc[p].at = "sleep"]
<1>1. /\ proc' = [p \in Proc |-> proc'[p]]
      /\ \A p \in Proc : proc'[p] = R(p)
  BY DEF Tick
<1>2. ASSUME NEW p \in Proc
      PROVE  /\ Process(proc'[p])
             /\ proc'[p].at = proc[p].at /\ proc'[p].inc = proc[p].inc
             /\ proc'[p].alive = proc[p].alive /\ proc'[p].master = proc[p].master
             /\ proc[p].at \in Doubting => proc'[p].lag = proc[p].lag + 1
  <2>1. Process(proc[p]) /\ (proc[p].at \in Holding => proc[p].lag < MaxLag)
    BY Own DEF Tick
  <2>2. PICK g, w, z : /\ proc'[p] = [proc[p] EXCEPT !.lag = g, !.wait = w, !.slept = z]
                       /\ g = IF proc[p].at \in Holding THEN proc[p].lag + 1 ELSE proc[p].lag
    <3>1. PICK g : g = IF proc[p].at \in Holding THEN proc[p].lag + 1 ELSE proc[p].lag
      OBVIOUS
    <3>2. PICK w : w = IF proc[p].wait > 0 THEN proc[p].wait - 1 ELSE 0
      OBVIOUS
    <3>3. PICK z : z = (proc[p].at = "sleep")
      OBVIOUS
    <3>4. proc'[p] = [proc[p] EXCEPT !.lag = g, !.wait = w, !.slept = z]
      BY <1>1, <3>1, <3>2, <3>3, Zenon
    <3> QED
      BY <3>1, <3>4
  <2>3. PICK n : n = proc'[p]
    OBVIOUS
  <2>4. Shape(n, ProcFields)
    BY <2>1, <2>2, <2>3 DEF Process, Shape
  <2>5. /\ n.at = proc[p].at /\ n.inc = proc[p].inc /\ n.lag = g
        /\ n.alive = proc[p].alive /\ n.master = proc[p].master
    BY <2>1, <2>2, <2>3 DEF Process, Shape, ProcFields
  <2>6. n.lag \in Nat /\ n.lag <= MaxLag
    BY <2>1, <2>2, <2>5, ShmAssumption DEF Process
  <2>7. Process(n)
    BY <2>1, <2>4, <2>5, <2>6, Zenon DEF Process
  <2>8. proc[p].at \in Doubting => n.lag = proc[p].lag + 1
    BY <2>2, <2>5 DEF Doubting, Holding
  <2> QED
    BY <2>3, <2>5, <2>7, <2>8
<1>3. Segment(shm') /\ shm'.lock = shm.lock /\ shm'.pid = shm.pid /\ shm'.age <= shm.age + 1 /\ shm'.age \in Nat
  <2>1. Segment(shm)
    BY DEF Inv, TypeInv
  <2>2. PICK a : a = Least(Old, shm.age + 1) /\ shm' = [shm EXCEPT !.age = a]
    BY DEF Tick
  <2>3. a \in Nat /\ a <= shm.age + 1
    BY <2>1, <2>2, ShmAssumption DEF Segment, Least, Old
  <2>4. PICK s : s = shm'
    OBVIOUS
  <2>5. Shape(s, ShmFields)
    BY <2>1, <2>2, <2>4 DEF Segment, Shape
  <2>6. s.age = a /\ s.lock = shm.lock /\ s.pid = shm.pid
    BY <2>1, <2>2, <2>4 DEF Segment, Shape, ShmFields
  <2>7. Segment(s)
    BY <2>1, <2>3, <2>5, <2>6, Zenon DEF Segment
  <2> QED
    BY <2>3, <2>4, <2>6, <2>7
<1> HIDE DEF R
<1>4. TypeInv'
  BY <1>1, <1>2, <1>3 DEF TypeInv
<1> SUFFICES ASSUME ~lapse PROVE (OneTends /\ Locked /\ Stored /\ Dead)'
  BY <1>4 DEF Inv, Tick
<1>5. \A p \in Proc : (Tends(p)' <=> Tends(p)) /\ Pid(p)' = Pid(p) /\ (proc'[p].master <=> proc[p].master)
  BY <1>2 DEF Tends, Pid
<1>6. OneTends' /\ Locked'
  BY <1>3, <1>5 DEF Inv, OneTends, Locked
<1>7. Stored'
  BY <1>2, <1>3, <1>5 DEF Inv, Stored
<1>8. Dead'
  <2> SUFFICES ASSUME NEW q \in Proc, proc'[q].at \in Doubting PROVE Refuses(proc[q].lag)'
    BY DEF Dead
  <2>1. proc[q].at \in Doubting /\ proc'[q].lag = proc[q].lag + 1
    BY <1>2
  <2>2. Refuses(proc[q].lag)
    BY <2>1 DEF Inv, Dead
  <2>3. proc[q].lag \in Nat /\ shm.age \in Nat /\ Threshold \in Nat
    BY Own, ShmAssumption DEF Segment
  <2> QED
    BY <1>3, <1>5, <2>1, <2>2, <2>3 DEF Refuses
<1> QED
  BY <1>6, <1>7, <1>8

\* The invariant holds initially.
LEMMA InitInv ==
  ASSUME Init
  PROVE  Inv
<1>1. CASE shm = NewSegment /\ proc = [p \in Proc |-> NoProcess]
  <2>1. proc = [q \in Proc |-> proc[q]]
    BY <1>1
  <2>2. ASSUME NEW q \in Proc PROVE Process(proc[q]) /\ proc[q].at = "off"
    <3>1. Shape(NoProcess, ProcFields)
      BY DEF Shape, ProcFields, NoProcess
    <3>2. Process(NoProcess) /\ NoProcess.at = "off"
      BY <3>1, NewProcess DEF NoProcess
    <3> QED
      BY <1>1, <3>2
  <2> QED
    BY <1>1, <2>1, <2>2, NewSegmentInv
<1>2. CASE ~(shm = NewSegment /\ proc = [p \in Proc |-> NoProcess])
  <2> DEFINE first == CHOOSE p \in Running : TRUE
  <2> DEFINE seq == as_shm_add_nodes(<<>>, member)
  <2> DEFINE gen == IF member = {} THEN 0 ELSE 1
  <2>1. /\ shm = [NewSegment EXCEPT !.lock = 1, !.age = 0, !.pid = <<first, 0>>,
                                    !.ready = TRUE, !.gen = gen, !.node = seq]
        /\ proc = [p \in Proc |->
              IF p \notin Running THEN NoProcess
              ELSE [NoProcess EXCEPT !.at = "sleep", !.master = p = first,
                       !.gen = IF p = first THEN 0 ELSE gen,
                       !.local = DOMAIN seq]]
    BY <1>2, Zenon DEF Init
  <2>2. first \in Running /\ first \in Proc
    <3>1. \E p \in Running : TRUE
      BY ShmAssumption
    <3>2. first \in Running
      BY <3>1, Zenon
    <3> QED
      BY <3>2, ShmAssumption
  <2> HIDE DEF first, seq, gen
  <2>3. Shape(shm, ShmFields)
    BY <2>1 DEF Shape, ShmFields, NewSegment
  <2>4. shm.lock = 1 /\ shm.age = 0 /\ shm.pid = <<first, 0>>
    <3>1. PICK o : o = <<first, 0>>
      OBVIOUS
    <3>2. shm = [NewSegment EXCEPT !.lock = 1, !.age = 0, !.pid = o, !.ready = TRUE, !.gen = gen, !.node = seq]
      BY <2>1, <3>1
    <3>3. shm.lock = 1 /\ shm.age = 0 /\ shm.pid = o
      BY <3>2 DEF NewSegment
    <3> QED
      BY <3>1, <3>3
  <2>5. Segment(shm)
    <3>1. shm.lock \in {0, 1} /\ shm.age \in Nat
      BY <2>4
    <3> QED
      BY <2>3, <3>1, Zenon DEF Segment
  <2>6. ASSUME NEW p \in Proc
        PROVE  /\ Process(proc[p]) /\ proc[p].at \in {"off", "sleep"}
               /\ proc[p].master => p = first /\ Pid(p) = <<first, 0>>
    <3>1. CASE p \notin Running
      <4>1. Shape(NoProcess, ProcFields)
        BY DEF Shape, ProcFields, NoProcess
      <4>2. Process(NoProcess) /\ NoProcess.at = "off" /\ ~NoProcess.master
        BY <4>1, NewProcess DEF NoProcess
      <4> QED
        BY <2>1, <3>1, <4>2
    <3>2. CASE p \in Running
      <4>1. PICK g, l : proc[p] = [NoProcess EXCEPT !.at = "sleep", !.master = p = first, !.gen = g, !.local = l]
        BY <2>1, <3>2
      <4>2. PICK n : n = proc[p]
        OBVIOUS
      <4>3. Shape(n, ProcFields)
        BY <4>1, <4>2 DEF Shape, ProcFields, NoProcess
      <4>4. /\ n.at = "sleep" /\ n.alive = TRUE /\ n.lag = 0 /\ n.inc = 0
            /\ n.master = (p = first)
        BY <4>1, <4>2 DEF NoProcess
      <4>5. Process(n)
        BY <4>3, <4>4, NoLag DEF Process, Places, Mastering, Following
      <4> QED
        BY <4>2, <4>4, <4>5 DEF Pid
    <3> QED
      BY <3>1, <3>2
  <2>7. proc = [q \in Proc |-> proc[q]]
    BY <2>1
  <2>8. TypeInv
    BY <2>5, <2>6, <2>7 DEF TypeInv
  <2>9. \A p \in Proc : Tends(p) => p = first /\ proc[p].master
    BY <2>6 DEF Tends
  <2>10. OneTends /\ Locked
    BY <2>4, <2>9 DEF OneTends, Locked
  <2>11. Stored
    BY <2>4, <2>6 DEF Stored
  <2>12. Dead
    BY <2>6 DEF Dead, Doubting
  <2> QED
    BY <2>8, <2>10, <2>11, <2>12 DEF Inv
<1> QED
  BY <1>1, <1>2

\* A stuttering step keeps the invariant.
LEMMA StutterInv ==
  ASSUME Inv, UNCHANGED <<shm, proc, lapse>>
  PROVE  Inv'
  BY DEF Inv, TypeInv, OneTends, Locked, Stored, Dead, Refuses, Tends, Pid

\* Every step keeps the invariant.
LEMMA NextInv ==
  ASSUME Inv, [Next]_vars
  PROVE  Inv'
<1>1. ASSUME NEW p \in Proc, Works(p) PROVE Inv'
  BY <1>1, StoreOwnerInv, InitNodesInv, WaitInv, ResetInv, MisfitInv, StartTenderInv, TendBeginsInv,
     RemoveNodesInv, NodesGenInv, AddNodesInv, StoreTimestampInv, FollowInv, LoadTimestampInv,
     CheckOwnerInv, LockTakeOverInv, TakeOverInv, TakeOverClusterInv, SyncInv DEF Works
<1>2. ASSUME NEW p \in Proc,
             as_shm_create(p) \/ InitFails(p) \/ ThreadFailed(p) \/ Close(p) \/ Crash(p) \/ Restart(p)
      PROVE  Inv'
  BY <1>2, CreateInv, InitFailsInv, ThreadFailedInv, CloseInv, CrashInv, RestartInv
<1>3. CASE Tick
  BY <1>3, TickInv
<1>4. CASE ServerJoinsOrLeaves \/ UNCHANGED vars
  BY <1>4, StutterInv DEF ServerJoinsOrLeaves, vars
<1> QED
  BY <1>1, <1>2, <1>3, <1>4 DEF Next

-----------------------------------------------------------------------------
\* Two processes tend the cluster at the same time only after one of the two races that
\* lapse records (as_shm_tender with a clock value older than the timestamp; a free lock
\* taken by one process while another has found the owner dead), whatever number of
\* processes start, fail to start, close, take over, and crash at whatever place, and
\* however long up to the threshold they pause with the clock value or the lock in hand.
THEOREM OneTender ==
  Spec => []SecondTenderRaced
<1>1. Init => Inv
  BY InitInv
<1>2. Inv /\ [Next]_vars => Inv'
  BY NextInv
<1>3. Inv => SecondTenderRaced
  BY DEF Inv, OneTends, Tends, AtMostOneTender, SecondTenderRaced
<1> QED
  BY <1>1, <1>2, <1>3, PTL DEF Spec
=============================================================================
