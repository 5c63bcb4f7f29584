----------------------------- MODULE SyncProofs -----------------------------
(***************************************************************************)
(* Proofs about SyncCommand, for any number of threads, any limits and any *)
(* number of faults.                                                       *)
(***************************************************************************)
EXTENDS SyncCommand, FiniteSetTheorems, TLAPS

\* A leaf that names no prover is tried with SMT, with Zenon, and with SMT at length.
USE SMT, Zenon, SMTT(20)

\* A node has one pool or two: with more the search leaves the array of pools.
FewPools == \A c \in Configs : c.pools <= 2

\* A command is not sent again over connections that must be authenticated.
AuthOnce == \A c \in Configs : c.auth => c.max_retries = 0

-----------------------------------------------------------------------------
(* The invariants.                                                          *)

Searching == {"pop", "stale", "incr", "full"}
Unsent == {"begin", "create", "write"} \cup Searching
AtPut == {"put", "close"}
PCs == {"idle", "read"} \cup Unsent \cup AtPut

Command ==
    [pc : PCs, pool : Nat, index : Nat, initial : Nat, backward : BOOLEAN, iteration : Nat, sent : Nat,
     copies : Nat, result : {"none", "ok", "server", "retry", "timeout", "error", "in_doubt"}]

Tender == [pc : {"idle", "trim", "old", "recent", "grow", "push", "count"}, pool : Nat, count : Nat]

\* Where a thread looks for a connection: only from the first pool it goes on to a
\* higher one.
Place(cm) ==
    /\ cm.pool < NPools
    /\ cm.pc \in Searching =>
          /\ cm.index < NPools /\ cm.initial < NPools
          /\ (IF cm.backward THEN cm.initial ELSE cm.index) = 0 => cm.pool = 0

\* How often a command was sent, and how many of the copies may have been applied.
Sending(cm) ==
    /\ cm.iteration <= MaxRetries
    /\ cm.pc \in Unsent => cm.copies <= cm.sent /\ cm.sent <= cm.iteration /\ cm.result = "none"
    /\ cm.pc = "read" => /\ 1 <= cm.copies /\ cm.copies <= cm.sent /\ cm.sent <= cm.iteration + 1
                         /\ cm.result = "none"
    /\ cm.pc \in AtPut => /\ 1 <= cm.sent /\ cm.copies <= cm.sent /\ cm.sent <= cm.iteration + 1
                          /\ cm.result \in {"ok", "server", "retry", "timeout"}
                          /\ cm.result \in {"server", "retry"} => cm.copies < cm.sent
    /\ cm.pc = "idle" => /\ cm.sent = 0 /\ cm.copies <= MaxRetries + 1
                         /\ cm.result \in {"none", "ok", "error", "in_doubt"}

\* An error is honest, if authentication is not one of its causes.
Honest(cm) == cm.pc = "idle" /\ cm.result = "error" => cm.copies = 0

Balancing ==
    /\ tend.pool < NPools
    /\ tend.pc \in {"grow", "push", "count"} => 1 <= tend.count /\ tend.count <= MinSize

TypeInv ==
    /\ conf \in Configs
    /\ idle \in [Pools -> Nat] /\ total \in [Pools -> Int]
    /\ th \in [Thread -> Command] /\ tend \in Tender
    /\ faults \in 0..MaxFaults
    /\ \A p \in Pools : idle[p] <= Capacity

Threads == \A t \in Thread : Place(th[t]) /\ Sending(th[t])

Inv == TypeInv /\ Threads /\ Balancing /\ TotalExact

\* What as_node_create_connections may still open.
ToOpen(p) ==
    IF tend.pool # p THEN 0
    ELSE CASE tend.pc = "grow" -> tend.count
           [] tend.pc \in {"push", "count"} -> tend.count - 1
           [] OTHER -> 0

Bounded == \A p \in Pools : Sockets(p) + ToOpen(p) <= Capacity + MinSize

-----------------------------------------------------------------------------
(* A step of a thread.                                                      *)

Holding == {"stale", "full", "create", "write", "read", "put", "close"}
WithSocket == Holding \ {"full"}
Slot(cm, p) == IF cm.pool = p /\ cm.pc \in Holding THEN 1 ELSE 0
Socket(cm, p) == IF cm.pool = p /\ cm.pc \in WithSocket THEN 1 ELSE 0

\* The thread opens no socket in p, or found room for one.
Opens(cm, n, p) ==
    \/ idle'[p] + Socket(n, p) <= idle[p] + Socket(cm, p)
    \/ idle'[p] = idle[p] /\ Socket(n, p) = 1 /\ Socket(cm, p) = 0 /\ HasRoom(total[p])

\* Thread t goes on with n: what it does to its pool is accounted for.
Step(t, n) ==
    /\ n \in Command /\ th' = [th EXCEPT ![t] = n]
    /\ Place(n) /\ Sending(n) /\ (AuthOnce => Honest(n))
    /\ idle' \in [Pools -> Nat] /\ total' \in [Pools -> Int] /\ faults' \in 0..MaxFaults
    /\ \A p \in Pools : /\ total'[p] - idle'[p] - Slot(n, p) = total[p] - idle[p] - Slot(th[t], p)
                        /\ idle'[p] <= Capacity
                        /\ Opens(th[t], n, p)
    /\ UNCHANGED <<conf, tend>>

\* What the configuration in force satisfies.
LEMMA Params ==
  ASSUME conf \in Configs
  PROVE  /\ NPools \in Nat /\ NPools >= 1 /\ Capacity \in Nat /\ Capacity >= 1 /\ MinSize \in Nat
         /\ MinSize <= Capacity /\ MaxRetries \in Nat /\ conf.auth \in BOOLEAN
         /\ Pools = {p \in Nat : p < NPools} /\ MaxFaults \in Nat
         /\ (FewPools => NPools <= 2) /\ (AuthOnce => (conf.auth => MaxRetries = 0))
<1>1. conf \in Config /\ MinSize <= Capacity /\ MaxFaults \in Nat
  BY SyncAssumption DEF MinSize, Capacity
<1>2. /\ NPools \in Nat /\ NPools >= 1 /\ Capacity \in Nat /\ Capacity >= 1 /\ MinSize \in Nat
      /\ MaxRetries \in Nat /\ conf.auth \in BOOLEAN
  BY <1>1 DEF Config, NPools, Capacity, MinSize, MaxRetries
<1>3. Pools = {p \in Nat : p < NPools}
  BY <1>2 DEF Pools
<1>4. (FewPools => NPools <= 2) /\ (AuthOnce => (conf.auth => MaxRetries = 0))
  BY DEF FewPools, AuthOnce, NPools, MaxRetries
<1> QED
  BY <1>1, <1>2, <1>3, <1>4

\* The parameters of a configuration that does not change.
LEMMA SameConf ==
  ASSUME UNCHANGED conf
  PROVE  /\ NPools' = NPools /\ Capacity' = Capacity /\ MinSize' = MinSize /\ MaxRetries' = MaxRetries
         /\ Pools' = Pools
  BY DEF NPools, Capacity, MinSize, MaxRetries, Pools

\* Sets of threads that differ in one thread.
LEMMA OneThread ==
  ASSUME NEW A \in SUBSET Thread, NEW B \in SUBSET Thread, NEW t \in Thread, A \ {t} = B \ {t}
  PROVE  /\ Cardinality(A) \in Nat /\ Cardinality(B) \in Nat
         /\ Cardinality(B) + (IF t \in A THEN 1 ELSE 0) = Cardinality(A) + (IF t \in B THEN 1 ELSE 0)
<1>1. IsFiniteSet(Thread) /\ IsFiniteSet(A) /\ IsFiniteSet(B) /\ IsFiniteSet(A \ {t}) /\ IsFiniteSet(B \ {t})
  BY SyncAssumption, FS_Subset
<1>2. ASSUME NEW S \in SUBSET Thread, IsFiniteSet(S), IsFiniteSet(S \ {t})
      PROVE  Cardinality(S) = Cardinality(S \ {t}) + (IF t \in S THEN 1 ELSE 0) /\ Cardinality(S \ {t}) \in Nat
  <2>1. Cardinality(S \ {t}) \in Nat
    BY <1>2, FS_CardinalityType
  <2>2. CASE t \in S
    <3>1. Cardinality((S \ {t}) \cup {t}) = Cardinality(S \ {t}) + 1
      BY <1>2, FS_AddElement
    <3>2. (S \ {t}) \cup {t} = S
      BY <2>2
    <3> QED
      BY <2>1, <2>2, <3>1, <3>2
  <2>3. CASE t \notin S
    <3>1. S \ {t} = S
      BY <2>3
    <3> QED
      BY <2>1, <2>3, <3>1
  <2> QED
    BY <2>2, <2>3
<1>3. Cardinality(A) = Cardinality(A \ {t}) + (IF t \in A THEN 1 ELSE 0) /\ Cardinality(A \ {t}) \in Nat
  BY <1>1, <1>2
<1>4. Cardinality(B) = Cardinality(A \ {t}) + (IF t \in B THEN 1 ELSE 0)
  BY <1>1, <1>2
<1> HIDE <1>1
<1> QED
  BY <1>3, <1>4

Slots(p) == Cardinality({t \in Thread : HoldsSlot(t, p)})
Open(p) == Cardinality({t \in Thread : HasSocket(t, p)})

\* How the numbers of slots and of sockets of a pool change.
LEMMA StepCounts ==
  ASSUME TypeInv, NEW t \in Thread, NEW n \in Command, th' = [th EXCEPT ![t] = n], NEW p
  PROVE  /\ Slots(p) \in Nat /\ Slots(p)' \in Nat /\ Open(p) \in Nat /\ Open(p)' \in Nat
         /\ Slots(p)' + Slot(th[t], p) = Slots(p) + Slot(n, p)
         /\ Open(p)' + Socket(th[t], p) = Open(p) + Socket(n, p)
<1> DEFINE A == {u \in Thread : HoldsSlot(u, p)}
           B == {u \in Thread : HoldsSlot(u, p)'}
           C == {u \in Thread : HasSocket(u, p)}
           D == {u \in Thread : HasSocket(u, p)'}
<1>1. th \in [Thread -> Command] /\ th' \in [Thread -> Command]
  BY DEF TypeInv
<1>2. th'[t] = n /\ \A u \in Thread \ {t} : th'[u] = th[u]
  BY <1>1
<1>3. A \ {t} = B \ {t} /\ C \ {t} = D \ {t}
  BY <1>2 DEF HoldsSlot, HasSocket
<1>4. /\ t \in A <=> (th[t].pool = p /\ th[t].pc \in Holding)
      /\ t \in B <=> (n.pool = p /\ n.pc \in Holding)
      /\ t \in C <=> (th[t].pool = p /\ th[t].pc \in WithSocket)
      /\ t \in D <=> (n.pool = p /\ n.pc \in WithSocket)
  BY <1>2 DEF HoldsSlot, HasSocket, Holding, WithSocket
<1>5. A \in SUBSET Thread /\ B \in SUBSET Thread /\ C \in SUBSET Thread /\ D \in SUBSET Thread
  OBVIOUS
<1>6. Slots(p) = Cardinality(A) /\ Slots(p)' = Cardinality(B) /\ Open(p) = Cardinality(C) /\ Open(p)' = Cardinality(D)
  BY DEF Slots, Open
<1> HIDE DEF A, B, C, D
<1>7. /\ Cardinality(A) \in Nat /\ Cardinality(B) \in Nat
      /\ Cardinality(B) + (IF t \in A THEN 1 ELSE 0) = Cardinality(A) + (IF t \in B THEN 1 ELSE 0)
  BY <1>3, <1>5, OneThread
<1>8. /\ Cardinality(C) \in Nat /\ Cardinality(D) \in Nat
      /\ Cardinality(D) + (IF t \in C THEN 1 ELSE 0) = Cardinality(C) + (IF t \in D THEN 1 ELSE 0)
  BY <1>3, <1>5, OneThread
<1> QED
  BY <1>4, <1>6, <1>7, <1>8 DEF Slot, Socket

\* A step that is accounted for keeps the invariant.
LEMMA StepInv ==
  ASSUME Inv, NEW t \in Thread, NEW n, Step(t, n)
  PROVE  Inv'
<1>1. TypeInv /\ th \in [Thread -> Command] /\ conf \in Configs
  BY DEF Inv, TypeInv
<1>2. Pools' = Pools /\ Capacity' = Capacity /\ UNCHANGED <<conf, tend>> /\ n \in Command /\ th' = [th EXCEPT ![t] = n]
  BY SameConf DEF Step
<1>3. TypeInv'
  BY <1>1, <1>2 DEF Step, TypeInv
<1>4. Threads'
  <2> SUFFICES ASSUME NEW u \in Thread PROVE Place(th[u])' /\ Sending(th[u])'
    BY DEF Threads
  <2>1. NPools' = NPools /\ MaxRetries' = MaxRetries
    BY <1>2, SameConf
  <2>2. CASE u = t
    <3>1. th'[u] = n
      BY <1>1, <1>2, <2>2
    <3> QED
      BY <2>1, <3>1 DEF Step, Place, Sending
  <2>3. CASE u # t
    <3>1. th'[u] = th[u]
      BY <1>1, <1>2, <2>3
    <3>2. Place(th[u]) /\ Sending(th[u])
      BY DEF Inv, Threads
    <3> QED
      BY <2>1, <3>1, <3>2 DEF Place, Sending
  <2> QED
    BY <2>2, <2>3
<1>5. Balancing'
  BY <1>2, SameConf DEF Inv, Balancing
<1>6. TotalExact'
  <2> SUFFICES ASSUME NEW p \in Pools
               PROVE  total'[p] = idle'[p] + Slots(p)' + (IF tend.pool = p /\ tend.pc \in {"old", "recent"} THEN 1 ELSE 0)
                                    - (IF tend.pool = p /\ tend.pc = "count" THEN 1 ELSE 0)
    BY <1>2 DEF TotalExact, Slots
  <2>1. Slots(p) \in Nat /\ Slots(p)' \in Nat /\ Slots(p)' + Slot(th[t], p) = Slots(p) + Slot(n, p)
    BY <1>1, <1>2, StepCounts
  <2>2. total'[p] - idle'[p] - Slot(n, p) = total[p] - idle[p] - Slot(th[t], p)
    BY DEF Step
  <2>3. total[p] = idle[p] + Slots(p) + (IF tend.pool = p /\ tend.pc \in {"old", "recent"} THEN 1 ELSE 0)
                                    - (IF tend.pool = p /\ tend.pc = "count" THEN 1 ELSE 0)
    BY DEF Inv, TotalExact, Slots
  <2>4. total[p] \in Int /\ idle[p] \in Int /\ total'[p] \in Int /\ idle'[p] \in Int
    BY <1>1, <1>2, <1>3 DEF TypeInv
  <2>5. Slot(n, p) \in {0, 1} /\ Slot(th[t], p) \in {0, 1}
    BY DEF Slot
  <2> QED
    BY <2>1, <2>2, <2>3, <2>4, <2>5
<1> QED
  BY <1>3, <1>4, <1>5, <1>6 DEF Inv

\* A step of a thread keeps the bound on open sockets.
LEMMA StepBounded ==
  ASSUME Inv, Bounded, NEW t \in Thread, NEW n, Step(t, n)
  PROVE  Bounded'
<1>1. TypeInv /\ conf \in Configs /\ tend \in Tender /\ Balancing
  BY DEF Inv, TypeInv
<1>2. Pools' = Pools /\ Capacity' = Capacity /\ MinSize' = MinSize /\ UNCHANGED tend /\ n \in Command /\ th' = [th EXCEPT ![t] = n]
  BY SameConf DEF Step
<1> SUFFICES ASSUME NEW p \in Pools PROVE Sockets(p)' + ToOpen(p)' <= Capacity + MinSize
  BY <1>2 DEF Bounded
<1> DEFINE held == IF tend.pool = p /\ tend.pc \in {"old", "recent", "push"} THEN 1 ELSE 0
           counted == (IF tend.pool = p /\ tend.pc \in {"old", "recent"} THEN 1 ELSE 0)
                        - (IF tend.pool = p /\ tend.pc = "count" THEN 1 ELSE 0)
<1>3. Sockets(p) = idle[p] + Open(p) + held /\ Sockets(p)' = idle'[p] + Open(p)' + held /\ ToOpen(p)' = ToOpen(p)
  BY <1>2 DEF Sockets, Open, ToOpen
<1>4. /\ Slots(p) \in Nat /\ Open(p) \in Nat /\ Open(p)' \in Nat
      /\ Open(p)' + Socket(th[t], p) = Open(p) + Socket(n, p)
  BY <1>1, <1>2, StepCounts
<1>5. Open(p) <= Slots(p)
  <2>1. {u \in Thread : HasSocket(u, p)} \subseteq {u \in Thread : HoldsSlot(u, p)}
    BY DEF HasSocket
  <2>2. IsFiniteSet({u \in Thread : HoldsSlot(u, p)})
    BY SyncAssumption, FS_Subset
  <2> QED
    BY <2>1, <2>2, FS_Subset DEF Open, Slots
<1>6. total[p] = idle[p] + Slots(p) + counted
  <2>1. total[p] = idle[p] + Slots(p) + (IF tend.pool = p /\ tend.pc \in {"old", "recent"} THEN 1 ELSE 0)
                                    - (IF tend.pool = p /\ tend.pc = "count" THEN 1 ELSE 0)
    BY DEF Inv, TotalExact, Slots
  <2>2. total[p] \in Int /\ idle[p] \in Nat
    BY <1>1 DEF TypeInv
  <2> QED
    BY <1>4, <2>1, <2>2
<1>7. /\ held \in {0, 1} /\ counted \in {-1, 0, 1} /\ ToOpen(p) \in Nat /\ ToOpen(p) <= MinSize
      /\ held - counted + ToOpen(p) <= MinSize /\ held - counted >= 0
  BY <1>1, Params DEF ToOpen, Balancing, Tender
<1>8. Sockets(p) + ToOpen(p) <= Capacity + MinSize
  BY DEF Bounded
<1>9. Opens(th[t], n, p)
  BY DEF Step
<1>10. total[p] \in Int /\ idle[p] \in Nat /\ idle'[p] \in Nat /\ Capacity \in Nat /\ MinSize \in Nat
  BY <1>1, Params DEF TypeInv, Step
<1>11. Socket(n, p) \in {0, 1} /\ Socket(th[t], p) \in {0, 1}
  BY DEF Socket
<1> HIDE DEF held, counted
<1>12. CASE idle'[p] + Socket(n, p) <= idle[p] + Socket(th[t], p)
  BY <1>3, <1>4, <1>7, <1>8, <1>10, <1>11, <1>12
<1>13. CASE idle'[p] = idle[p] /\ Socket(n, p) = 1 /\ Socket(th[t], p) = 0 /\ HasRoom(total[p])
  <2>1. total[p] <= Capacity - 1
    BY <1>10, <1>13 DEF HasRoom
  <2>2. idle[p] + Open(p) + counted <= Capacity - 1
    BY <1>4, <1>5, <1>6, <1>7, <1>10, <2>1
  <2> QED
    BY <1>3, <1>4, <1>7, <1>10, <1>13, <2>2
<1> QED
  BY <1>9, <1>12, <1>13 DEF Opens

-----------------------------------------------------------------------------
(* What the operations do to a pool.                                        *)

IdleBy(q, a) ==
    idle' \in [Pools -> Nat] /\ \A p \in Pools : idle'[p] = IF p = q THEN idle[p] + a ELSE idle[p]
TotalBy(q, b) ==
    total' \in [Pools -> Int] /\ \A p \in Pools : total'[p] = IF p = q THEN total[p] + b ELSE total[p]

\* What the operations on a pool do to its counts.
LEMMA PoolChanges ==
  ASSUME TypeInv, NEW q \in Pools
  PROVE  /\ Pop(q) => IdleBy(q, -1)
         /\ Push(q) => IdleBy(q, 1) /\ idle[q] < Capacity
         /\ UNCHANGED idle => IdleBy(q, 0)
         /\ Incr(q) => TotalBy(q, 1)
         /\ Decr(q) => TotalBy(q, -1)
         /\ UNCHANGED total => TotalBy(q, 0)
<1>1. idle \in [Pools -> Nat] /\ total \in [Pools -> Int]
  BY DEF TypeInv
<1>2. Pop(q) => IdleBy(q, -1)
  BY <1>1 DEF Pop, IdleBy
<1>3. Push(q) => IdleBy(q, 1) /\ idle[q] < Capacity
  BY <1>1 DEF Push, MayPush, IdleBy
<1>4. UNCHANGED idle => IdleBy(q, 0)
  BY <1>1 DEF IdleBy
<1>5. (Incr(q) => TotalBy(q, 1)) /\ (Decr(q) => TotalBy(q, -1)) /\ (UNCHANGED total => TotalBy(q, 0))
  BY <1>1 DEF Incr, Decr, TotalBy
<1> QED
  BY <1>2, <1>3, <1>4, <1>5

\* What a step of a command cm, which becomes n, does to its pool q.
Keeps(cm, n, q) == IdleBy(q, 0) /\ TotalBy(q, 0) /\ (n.pc \in Holding <=> cm.pc \in Holding)
                   /\ (n.pc \in WithSocket => cm.pc \in WithSocket)
Drops(cm, n, q) == IdleBy(q, 0) /\ TotalBy(q, -1) /\ cm.pc \in Holding /\ n.pc \notin Holding
Returns(cm, n, q) == IdleBy(q, 1) /\ TotalBy(q, 0) /\ idle[q] < Capacity /\ cm.pc \in WithSocket /\ n.pc \notin Holding
Takes(cm, n, q) == IdleBy(q, -1) /\ TotalBy(q, 0) /\ cm.pc \notin Holding /\ n.pc \in WithSocket
Reserves(cm, n, q) == IdleBy(q, 0) /\ TotalBy(q, 1) /\ cm.pc \notin Holding /\ n.pc \in Holding
                      /\ (n.pc \in WithSocket => HasRoom(total[q]))
Books(cm, n, q) ==
    \/ Keeps(cm, n, q) \/ Drops(cm, n, q) \/ Returns(cm, n, q) \/ Takes(cm, n, q) \/ Reserves(cm, n, q)

\* The books of one pool after a step of a thread that holds a slot of it.
LEMMA BooksOne ==
  ASSUME NEW q \in Pools, idle[q] \in Nat, total[q] \in Int, Capacity \in Nat, idle[q] <= Capacity,
         NEW cm, NEW n, cm.pool = q, n.pc \in Holding => n.pool = q, Books(cm, n, q)
  PROVE  /\ total'[q] - idle'[q] - Slot(n, q) = total[q] - idle[q] - Slot(cm, q)
         /\ idle'[q] <= Capacity
         /\ Opens(cm, n, q)
<1>1. WithSocket \subseteq Holding
  BY DEF WithSocket
<1>2. /\ Slot(n, q) = (IF n.pc \in Holding THEN 1 ELSE 0) /\ Slot(cm, q) = (IF cm.pc \in Holding THEN 1 ELSE 0)
      /\ Socket(n, q) = (IF n.pc \in WithSocket THEN 1 ELSE 0)
      /\ Socket(cm, q) = (IF cm.pc \in WithSocket THEN 1 ELSE 0)
  BY <1>1 DEF Slot, Socket, WithSocket
<1>3. CASE Keeps(cm, n, q)
  BY <1>2, <1>3 DEF Keeps, IdleBy, TotalBy, Opens
<1>4. CASE Drops(cm, n, q)
  BY <1>1, <1>2, <1>4 DEF Drops, IdleBy, TotalBy, Opens
<1>5. CASE Returns(cm, n, q)
  BY <1>1, <1>2, <1>5 DEF Returns, IdleBy, TotalBy, Opens
<1>6. CASE Takes(cm, n, q)
  BY <1>1, <1>2, <1>6 DEF Takes, IdleBy, TotalBy, Opens
<1>7. CASE Reserves(cm, n, q)
  BY <1>1, <1>2, <1>7 DEF Reserves, IdleBy, TotalBy, Opens
<1> QED
  BY <1>3, <1>4, <1>5, <1>6, <1>7 DEF Books

\* The other pools stay as they are.
LEMMA BooksOther ==
  ASSUME NEW q \in Pools, NEW p \in Pools \ {q}, idle[p] \in Nat, total[p] \in Int, Capacity \in Nat, idle[p] <= Capacity,
         NEW cm, NEW n, cm.pool = q, n.pc \in Holding => n.pool = q, Books(cm, n, q)
  PROVE  /\ total'[p] - idle'[p] - Slot(n, p) = total[p] - idle[p] - Slot(cm, p)
         /\ idle'[p] <= Capacity
         /\ Opens(cm, n, p)
<1>1. idle'[p] = idle[p] /\ total'[p] = total[p]
  BY DEF Books, Keeps, Drops, Returns, Takes, Reserves, IdleBy, TotalBy
<1>2. Slot(n, p) = 0 /\ Slot(cm, p) = 0 /\ Socket(n, p) = 0 /\ Socket(cm, p) = 0
  BY DEF Slot, Socket, WithSocket
<1> QED
  BY <1>1, <1>2 DEF Opens

\* A thread goes on with n after it changed its own pool q.
LEMMA AtPool ==
  ASSUME Inv, NEW t \in Thread, NEW n \in Command, th' = [th EXCEPT ![t] = n],
         Place(n), Sending(n), AuthOnce => Honest(n), UNCHANGED <<conf, tend>>, faults' \in 0..MaxFaults,
         NEW q \in Pools, th[t].pool = q, n.pc \in Holding => n.pool = q, Books(th[t], n, q)
  PROVE  Step(t, n)
<1>1. idle \in [Pools -> Nat] /\ total \in [Pools -> Int] /\ Capacity \in Nat /\ \A p \in Pools : idle[p] <= Capacity
  BY Params DEF Inv, TypeInv
<1>2. idle' \in [Pools -> Nat] /\ total' \in [Pools -> Int]
  BY DEF Books, Keeps, Drops, Returns, Takes, Reserves, IdleBy, TotalBy
<1>3. ASSUME NEW p \in Pools
      PROVE  /\ total'[p] - idle'[p] - Slot(n, p) = total[p] - idle[p] - Slot(th[t], p)
             /\ idle'[p] <= Capacity
             /\ Opens(th[t], n, p)
  <2>1. idle[p] \in Nat /\ total[p] \in Int /\ idle[p] <= Capacity
    BY <1>1
  <2>2. CASE p = q
    BY <1>1, <2>1, <2>2, BooksOne
  <2>3. CASE p # q
    BY <1>1, <2>1, <2>3, BooksOther
  <2> QED
    BY <2>2, <2>3
<1> QED
  BY <1>2, <1>3 DEF Step

-----------------------------------------------------------------------------
(* What becomes of a command.                                               *)

\* A thread and its command.
LEMMA Own ==
  ASSUME Inv, NEW t \in Thread
  PROVE  /\ TypeInv /\ conf \in Configs /\ th \in [Thread -> Command] /\ th[t] \in Command
         /\ Place(th[t]) /\ Sending(th[t]) /\ th[t].pool \in Pools /\ faults \in 0..MaxFaults
<1>1. /\ TypeInv /\ conf \in Configs /\ th \in [Thread -> Command] /\ th[t] \in Command
      /\ Place(th[t]) /\ Sending(th[t]) /\ faults \in 0..MaxFaults
  BY DEF Inv, TypeInv, Threads
<1>2. th[t].pool \in Pools
  BY <1>1, Params DEF Place, Command
<1> QED
  BY <1>1, <1>2

\* Faults stay within their bound.
LEMMA Faulty ==
  ASSUME faults \in 0..MaxFaults, MaxFaults \in Nat
  PROVE  (Fault => faults' \in 0..MaxFaults) /\ (UNCHANGED faults => faults' \in 0..MaxFaults)
  BY DEF Fault

\* A command that goes on at another place.
LEMMA Moved ==
  ASSUME NEW cm \in Command, NEW pc \in PCs, NEW n, n = [cm EXCEPT !.pc = pc]
  PROVE  /\ n \in Command /\ n.pc = pc /\ n.pool = cm.pool /\ n.index = cm.index /\ n.initial = cm.initial
         /\ n.backward = cm.backward /\ n.iteration = cm.iteration /\ n.sent = cm.sent
         /\ n.copies = cm.copies /\ n.result = cm.result
  BY Zenon DEF Command

\* The command is over, or is tried again: it has no connection, and an error it
\* reports is honest.
Over(t) ==
    \E n \in Command : /\ th' = [th EXCEPT ![t] = n]
                       /\ n.pc \in {"begin", "idle"}
                       /\ Place(n) /\ Sending(n) /\ (AuthOnce => Honest(n))

\* A thread without a command.
LEMMA None ==
  /\ NoCommand \in Command /\ NoCommand.pc = "idle" /\ NoCommand.pool = 0 /\ NoCommand.iteration = 0
  /\ NoCommand.sent = 0 /\ NoCommand.copies = 0 /\ NoCommand.result = "none"
<1>1. "idle" \in PCs /\ 0 \in Nat /\ FALSE \in BOOLEAN
  BY DEF PCs
<1> QED
  BY <1>1 DEF NoCommand, Command

\* as_command_prepare_error
LEMMA FailedOver ==
  ASSUME conf \in Configs, NEW t \in Thread, NEW cm \in Command, NEW code,
         cm.copies <= MaxRetries + 1, AuthOnce /\ ~InDoubt(cm.sent, code) => cm.copies = 0,
         th' = [th EXCEPT ![t] = Failed(cm, code)]
  PROVE  Over(t)
<1> DEFINE r == IF InDoubt(cm.sent, code) THEN "in_doubt" ELSE "error"
           c == cm.copies
           n == [NoCommand EXCEPT !.result = r, !.copies = c]
<1>1. r \in {"none", "ok", "server", "retry", "timeout", "error", "in_doubt"} /\ c \in Nat
  BY DEF Command
<1>2. Failed(cm, code) = n
  BY DEF Failed
<1>3. r \in {"error", "in_doubt"} /\ (AuthOnce /\ r = "error" => c = 0) /\ c <= MaxRetries + 1
  OBVIOUS
<1> HIDE DEF r, c
<1>4. n \in Command
  BY <1>1, None, Zenon DEF Command
<1>5. n.pc = "idle" /\ n.pool = 0 /\ n.iteration = 0 /\ n.sent = 0 /\ n.copies = c /\ n.result = r
  BY None, Zenon DEF NoCommand
<1> HIDE DEF n
<1>6. Place(n) /\ Sending(n) /\ (AuthOnce => Honest(n))
  BY <1>3, <1>5, Params DEF Place, Sending, Honest, Searching, Unsent, AtPut
<1> QED
  BY <1>2, <1>4, <1>5, <1>6 DEF Over

\* An attempt that is over: the command is retried, or ends with its error.
LEMMA RetryOver ==
  ASSUME conf \in Configs, NEW t \in Thread, NEW cm \in Command, NEW code,
         cm.copies <= cm.sent, cm.sent <= cm.iteration + 1, cm.iteration <= MaxRetries,
         AuthOnce /\ ~InDoubt(cm.sent, code) => cm.copies = 0, Retry(t, cm, code)
  PROVE  Over(t)
<1>1. cm.copies \in Nat /\ cm.sent \in Nat /\ cm.iteration \in Nat /\ MaxRetries \in Nat
  BY Params DEF Command
<1>2. CASE th' = [th EXCEPT ![t] = Failed(cm, code)]
  <2>1. cm.copies <= MaxRetries + 1
    BY <1>1
  <2> QED
    BY <1>2, <2>1, FailedOver
<1>3. CASE cm.iteration < MaxRetries /\ th' = [th EXCEPT ![t] = Again(cm)]
  <2> DEFINE i == cm.iteration + 1
             n == [NoCommand EXCEPT !.pc = "begin", !.iteration = i, !.sent = cm.sent, !.copies = cm.copies]
  <2>1. Again(cm) = n
    BY DEF Again, Retried
  <2>2. i \in Nat /\ "begin" \in PCs /\ i <= MaxRetries /\ cm.sent <= i
    BY <1>1, <1>3 DEF PCs, Unsent
  <2> HIDE DEF i
  <2>3. n \in Command
    BY <1>1, <2>2, None, Zenon DEF Command
  <2>4. /\ n.pc = "begin" /\ n.pool = 0 /\ n.iteration = i /\ n.sent = cm.sent /\ n.copies = cm.copies
        /\ n.result = "none"
    BY None, Zenon DEF NoCommand
  <2> HIDE DEF n
  <2>5. Place(n) /\ Sending(n) /\ (AuthOnce => Honest(n))
    BY <1>1, <2>2, <2>4, Params DEF Place, Sending, Honest, Searching, Unsent, AtPut
  <2> QED
    BY <1>3, <2>1, <2>3, <2>4, <2>5 DEF Over
<1> QED
  BY <1>2, <1>3 DEF Retry

\* It gives its slot up, or has none.
LEMMA OverStep ==
  ASSUME Inv, NEW t \in Thread, Over(t), UNCHANGED <<conf, tend>>, faults' \in 0..MaxFaults,
         NEW q \in Pools, th[t].pool = q,
         \/ th[t].pc \notin Holding /\ IdleBy(q, 0) /\ TotalBy(q, 0)
         \/ th[t].pc \in Holding /\ IdleBy(q, 0) /\ TotalBy(q, -1)
         \/ th[t].pc \in WithSocket /\ IdleBy(q, 1) /\ TotalBy(q, 0) /\ idle[q] < Capacity
  PROVE  \E n : Step(t, n)
<1>1. PICK n \in Command : /\ th' = [th EXCEPT ![t] = n]
                           /\ n.pc \in {"begin", "idle"}
                           /\ Place(n) /\ Sending(n) /\ (AuthOnce => Honest(n))
  BY DEF Over
<1>2. n.pc \notin Holding /\ n.pc \notin WithSocket
  BY <1>1 DEF Holding, WithSocket
<1>3. Books(th[t], n, q)
  BY <1>2 DEF Books, Keeps, Drops, Returns
<1>4. Step(t, n)
  BY <1>1, <1>2, <1>3, AtPool
<1> QED
  BY <1>4

\* A command that goes on in the same pool.
LEMMA GoesOn ==
  ASSUME Inv, NEW t \in Thread, NEW n \in Command, th' = [th EXCEPT ![t] = n],
         n.pool = th[t].pool, n.pc # "idle", Place(n), Sending(n), UNCHANGED <<conf, tend>>, faults' \in 0..MaxFaults,
         Books(th[t], n, th[t].pool)
  PROVE  \E m : Step(t, m)
<1>1. th[t].pool \in Pools /\ Honest(n)
  BY Own DEF Honest
<1>2. Step(t, n)
  BY <1>1, AtPool
<1> QED
  BY <1>2

-----------------------------------------------------------------------------
(* The steps of as_command_execute.                                         *)

\* A thread starts a command.
LEMMA StartStep ==
  ASSUME Inv, NEW t \in Thread, Start(t)
  PROVE  \E n : Step(t, n)
<1> DEFINE n == [NoCommand EXCEPT !.pc = "begin"]
<1>1. /\ TypeInv /\ conf \in Configs /\ th[t].pool \in Pools /\ faults \in 0..MaxFaults /\ th[t].pc = "idle"
      /\ th' = [th EXCEPT ![t] = n] /\ UNCHANGED <<conf, idle, total, tend, faults>>
  BY Own DEF Start
<1>2. /\ n \in Command /\ n.pc = "begin" /\ n.pool = 0 /\ n.iteration = 0 /\ n.sent = 0 /\ n.copies = 0
      /\ n.result = "none"
  <2>1. "begin" \in PCs
    BY DEF PCs, Unsent
  <2>2. n \in Command
    BY <2>1, None, Zenon DEF Command
  <2>3. /\ n.pc = "begin" /\ n.pool = 0 /\ n.iteration = 0 /\ n.sent = 0 /\ n.copies = 0 /\ n.result = "none"
    BY None, Zenon DEF NoCommand
  <2> QED
    BY <2>2, <2>3
<1> HIDE DEF n
<1>3. Place(n) /\ Sending(n) /\ (AuthOnce => Honest(n))
  BY <1>1, <1>2, Params DEF Place, Sending, Honest, Searching, Unsent, AtPut
<1>4. Over(t)
  BY <1>1, <1>2, <1>3 DEF Over
<1>5. IdleBy(th[t].pool, 0) /\ TotalBy(th[t].pool, 0) /\ th[t].pc \notin Holding
  BY <1>1, PoolChanges DEF Holding
<1> QED
  BY <1>1, <1>4, <1>5, OverStep

\* A command that was not sent and that fails on the client's side.
LEMMA UnsentFails ==
  ASSUME Inv, NEW t \in Thread, th[t].pc \in Unsent
  PROVE  /\ th[t] \in Command /\ th[t].copies <= th[t].sent /\ th[t].sent <= th[t].iteration + 1
         /\ th[t].iteration <= MaxRetries /\ th[t].copies <= MaxRetries + 1
         /\ (~InDoubt(th[t].sent, "client") => th[t].copies = 0)
         /\ (conf.auth /\ AuthOnce => th[t].copies = 0)
<1>1. /\ th[t] \in Command /\ Sending(th[t]) /\ conf \in Configs
  BY Own
<1>2. th[t].copies \in Nat /\ th[t].sent \in Nat /\ th[t].iteration \in Nat /\ MaxRetries \in Nat
  BY <1>1, Params DEF Command
<1>3. th[t].copies <= th[t].sent /\ th[t].sent <= th[t].iteration /\ th[t].iteration <= MaxRetries
  BY <1>1 DEF Sending
<1>4. ~InDoubt(th[t].sent, "client") => th[t].copies = 0
  BY <1>2, <1>3 DEF InDoubt
<1>5. conf.auth /\ AuthOnce => th[t].copies = 0
  BY <1>1, <1>2, <1>3, Params
<1> QED
  BY <1>1, <1>2, <1>3, <1>4, <1>5

\* An attempt finds no node, or the error limit of the node is reached.
LEMMA BeginFailsStep ==
  ASSUME Inv, NEW t \in Thread, NoNode(t) \/ RateExceeded(t), UNCHANGED conf
  PROVE  \E n : Step(t, n)
<1>1. /\ TypeInv /\ conf \in Configs /\ th[t].pool \in Pools /\ faults \in 0..MaxFaults
      /\ th[t].pc = "begin" /\ Fault /\ UNCHANGED <<idle, total, tend>>
      /\ th' = [th EXCEPT ![t] = Failed(th[t], "client")] \/ Retry(t, th[t], "client")
  BY Own DEF NoNode, RateExceeded
<1>2. th[t].pc \in Unsent /\ th[t].pc \notin Holding
  BY <1>1 DEF Unsent, Holding
<1>3. Over(t)
  BY <1>1, <1>2, UnsentFails, FailedOver, RetryOver
<1>4. IdleBy(th[t].pool, 0) /\ TotalBy(th[t].pool, 0) /\ faults' \in 0..MaxFaults
  BY <1>1, PoolChanges, Faulty, Params
<1> QED
  BY <1>1, <1>2, <1>3, <1>4, OverStep

\* A thread begins its search for a connection.
LEMMA SearchStep ==
  ASSUME Inv, NEW t \in Thread, Search(t), UNCHANGED conf
  PROVE  \E n : Step(t, n)
<1>1. /\ TypeInv /\ conf \in Configs /\ th[t].pool \in Pools /\ faults \in 0..MaxFaults /\ th[t] \in Command
      /\ th \in [Thread -> Command] /\ Sending(th[t])
      /\ th[t].pc = "begin" /\ UNCHANGED <<idle, total, tend, faults>>
  BY Own DEF Search
<1>2. PICK i \in Pools : th' = [th EXCEPT ![t].pc = "pop", ![t].pool = i, ![t].index = i, ![t].initial = i,
                                          ![t].backward = NPools > 1]
  BY DEF Search
<1> DEFINE back == NPools > 1
           n == [th[t] EXCEPT !.pc = "pop", !.pool = i, !.index = i, !.initial = i, !.backward = back]
<1>3. th' = [th EXCEPT ![t] = n]
  BY <1>1, <1>2
<1>4. i \in Nat /\ i < NPools /\ back \in BOOLEAN /\ "pop" \in PCs
  BY <1>1, Params DEF PCs, Unsent, Searching
<1> HIDE DEF back
<1>5. n \in Command
  BY <1>1, <1>4, Zenon DEF Command
<1>6. /\ n.pc = "pop" /\ n.pool = i /\ n.index = i /\ n.initial = i /\ n.iteration = th[t].iteration
      /\ n.sent = th[t].sent /\ n.copies = th[t].copies /\ n.result = th[t].result
  BY <1>1, Zenon DEF Command
<1> HIDE DEF n
<1>7. Place(n) /\ Sending(n) /\ Honest(n)
  BY <1>1, <1>4, <1>6 DEF Place, Sending, Honest, Searching, Unsent, AtPut
<1>8. ASSUME NEW p \in Pools
      PROVE  /\ total'[p] - idle'[p] - Slot(n, p) = total[p] - idle[p] - Slot(th[t], p)
             /\ idle'[p] <= Capacity /\ Opens(th[t], n, p)
  BY <1>1, <1>6 DEF Slot, Socket, Opens, Holding, WithSocket, TypeInv
<1>9. idle' \in [Pools -> Nat] /\ total' \in [Pools -> Int]
  BY <1>1 DEF TypeInv
<1> QED
  BY <1>1, <1>3, <1>5, <1>7, <1>8, <1>9 DEF Step

\* The connection is found.
LEMMA FoundIs ==
  ASSUME NEW cm \in Command, NEW pc \in PCs, NEW n, n = Found(cm, pc)
  PROVE  /\ n \in Command /\ n.pc = pc /\ n.pool = cm.pool /\ n.iteration = cm.iteration /\ n.sent = cm.sent
         /\ n.copies = cm.copies /\ n.result = cm.result
<1>1. 0 \in Nat /\ FALSE \in BOOLEAN
  OBVIOUS
<1>2. n = [cm EXCEPT !.pc = pc, !.index = 0, !.initial = 0, !.backward = FALSE]
  BY DEF Found
<1> QED
  BY <1>1, <1>2, Zenon DEF Command

\* Only the place in the code changes, and the command is not yet sent.
LEMMA UnsentMoves ==
  ASSUME Inv, NEW t \in Thread, th[t].pc \in Unsent, NEW pc \in Unsent, NEW n,
         \/ n = [th[t] EXCEPT !.pc = pc] /\ (th[t].pc \in Searching \/ pc \notin Searching)
         \/ n = Found(th[t], pc) /\ pc \notin Searching
  PROVE  n \in Command /\ n.pc = pc /\ n.pool = th[t].pool /\ Place(n) /\ Sending(n)
<1>1. th[t] \in Command /\ Place(th[t]) /\ Sending(th[t]) /\ pc \in PCs /\ pc \notin AtPut \cup {"read", "idle"}
  BY Own DEF PCs, Unsent, AtPut, Searching
<1>2. CASE n = [th[t] EXCEPT !.pc = pc] /\ (th[t].pc \in Searching \/ pc \notin Searching)
  <2>1. /\ n \in Command /\ n.pc = pc /\ n.pool = th[t].pool /\ n.index = th[t].index /\ n.initial = th[t].initial
        /\ n.backward = th[t].backward /\ n.iteration = th[t].iteration /\ n.sent = th[t].sent
        /\ n.copies = th[t].copies /\ n.result = th[t].result
    BY <1>1, <1>2, Moved
  <2>2. Place(n)
    BY <1>1, <1>2, <2>1 DEF Place
  <2>3. Sending(n)
    BY <1>1, <2>1 DEF Sending, AtPut
  <2> QED
    BY <2>1, <2>2, <2>3
<1>3. CASE n = Found(th[t], pc) /\ pc \notin Searching
  <2>1. /\ n \in Command /\ n.pc = pc /\ n.pool = th[t].pool /\ n.iteration = th[t].iteration /\ n.sent = th[t].sent
        /\ n.copies = th[t].copies /\ n.result = th[t].result
    BY <1>1, <1>3, FoundIs
  <2>2. Place(n)
    BY <1>1, <1>3, <2>1 DEF Place
  <2>3. Sending(n)
    BY <1>1, <2>1 DEF Sending, AtPut
  <2> QED
    BY <2>1, <2>2, <2>3
<1> QED
  BY <1>2, <1>3

\* What a move of a thread does.
LEMMA GoesIs ==
  ASSUME Inv, NEW t \in Thread, NEW pc, Goes(t, pc)
  PROVE  th' = [th EXCEPT ![t] = [th[t] EXCEPT !.pc = pc]]
  BY Own DEF Goes

\* A thread takes an idle socket, or finds none.
LEMMA PopHeadStep ==
  ASSUME Inv, NEW t \in Thread, PopHead(t), UNCHANGED conf
  PROVE  \E n : Step(t, n)
<1>1. /\ TypeInv /\ conf \in Configs /\ th[t].pool \in Pools /\ faults \in 0..MaxFaults /\ th[t] \in Command
      /\ th[t].pc = "pop" /\ UNCHANGED <<total, tend>> /\ MaxFaults \in Nat
  BY Own, Params DEF PopHead
<1>2. TotalBy(th[t].pool, 0) /\ (Pop(th[t].pool) => IdleBy(th[t].pool, -1)) /\ (UNCHANGED idle => IdleBy(th[t].pool, 0))
  BY <1>1, PoolChanges
<1>3. "pop" \in Unsent /\ {"write", "stale", "incr"} \subseteq Unsent /\ "pop" \in Searching
      /\ "write" \notin Searching /\ "pop" \notin Holding /\ {"write", "stale"} \subseteq WithSocket /\ "incr" \notin Holding
  BY DEF Unsent, Searching, Holding, WithSocket
<1>4. CASE Pop(th[t].pool) /\ th' = [th EXCEPT ![t] = Found(@, "write")] /\ UNCHANGED faults
  <2> DEFINE n == Found(th[t], "write")
  <2>1. th' = [th EXCEPT ![t] = n]
    BY <1>4
  <2>2. n \in Command /\ n.pc = "write" /\ n.pool = th[t].pool /\ Place(n) /\ Sending(n)
    BY <1>1, <1>3, UnsentMoves
  <2> HIDE DEF n
  <2>3. Books(th[t], n, th[t].pool)
    BY <1>1, <1>2, <1>3, <1>4, <2>1, <2>2 DEF Books, Takes
  <2> QED
    BY <1>1, <1>2, <1>3, <1>4, <2>1, <2>2, <2>3, GoesOn
<1>5. CASE Pop(th[t].pool) /\ Goes(t, "stale") /\ Fault
  <2> DEFINE n == [th[t] EXCEPT !.pc = "stale"]
  <2>1. th' = [th EXCEPT ![t] = n] /\ faults' \in 0..MaxFaults
    BY <1>1, <1>5, GoesIs, Faulty
  <2>2. n \in Command /\ n.pc = "stale" /\ n.pool = th[t].pool /\ Place(n) /\ Sending(n)
    BY <1>1, <1>3, UnsentMoves
  <2> HIDE DEF n
  <2>3. Books(th[t], n, th[t].pool)
    BY <1>1, <1>2, <1>3, <1>5, <2>1, <2>2 DEF Books, Takes
  <2> QED
    BY <1>1, <1>2, <1>3, <1>5, <2>1, <2>2, <2>3, GoesOn
<1>6. CASE Goes(t, "incr") /\ UNCHANGED <<idle, faults>>
  <2> DEFINE n == [th[t] EXCEPT !.pc = "incr"]
  <2>1. th' = [th EXCEPT ![t] = n]
    BY <1>6, GoesIs
  <2>2. n \in Command /\ n.pc = "incr" /\ n.pool = th[t].pool /\ Place(n) /\ Sending(n)
    BY <1>1, <1>3, UnsentMoves
  <2> HIDE DEF n
  <2>3. Books(th[t], n, th[t].pool)
    BY <1>1, <1>2, <1>3, <1>6, <2>1, <2>2 DEF Books, Keeps, WithSocket, Holding
  <2> QED
    BY <1>1, <1>2, <1>3, <1>6, <2>1, <2>2, <2>3, GoesOn
<1> QED
  BY <1>4, <1>5, <1>6 DEF PopHead

\* A thread closes a socket that is too old.
LEMMA CloseStaleStep ==
  ASSUME Inv, NEW t \in Thread, CloseStale(t), UNCHANGED conf
  PROVE  \E n : Step(t, n)
<1> DEFINE n == [th[t] EXCEPT !.pc = "pop"]
<1>1. /\ TypeInv /\ th[t].pool \in Pools /\ faults \in 0..MaxFaults
      /\ th[t].pc = "stale" /\ UNCHANGED <<idle, tend, faults>> /\ th' = [th EXCEPT ![t] = n]
  BY Own, GoesIs DEF CloseStale
<1>2. TotalBy(th[t].pool, -1) /\ IdleBy(th[t].pool, 0)
  BY <1>1, PoolChanges DEF CloseStale
<1>3. "stale" \in Unsent /\ "pop" \in Unsent /\ "stale" \in Searching /\ "pop" \notin Holding /\ "stale" \in WithSocket
  BY DEF Unsent, Searching, Holding, WithSocket
<1>4. n \in Command /\ n.pc = "pop" /\ n.pool = th[t].pool /\ Place(n) /\ Sending(n)
  BY <1>1, <1>3, UnsentMoves
<1> HIDE DEF n
<1>5. Books(th[t], n, th[t].pool)
  BY <1>1, <1>2, <1>3, <1>4 DEF Books, Drops, WithSocket, Holding
<1> QED
  BY <1>1, <1>2, <1>3, <1>4, <1>5, GoesOn

\* A thread counts a socket before it opens it.
LEMMA IncrTotalStep ==
  ASSUME Inv, NEW t \in Thread, IncrTotal(t), UNCHANGED conf
  PROVE  \E n : Step(t, n)
<1>1. /\ TypeInv /\ th[t].pool \in Pools /\ faults \in 0..MaxFaults
      /\ th[t].pc = "incr" /\ UNCHANGED <<idle, tend, faults>>
  BY Own DEF IncrTotal
<1>2. TotalBy(th[t].pool, 1) /\ IdleBy(th[t].pool, 0)
  BY <1>1, PoolChanges DEF IncrTotal
<1>3. {"incr", "full", "create"} \subseteq Unsent /\ "incr" \in Searching /\ "create" \notin Searching /\ "incr" \notin Holding
      /\ {"full", "create"} \subseteq Holding
  BY DEF Unsent, Searching, Holding, WithSocket
<1>4. CASE HasRoom(total[th[t].pool])
  <2> DEFINE n == Found(th[t], "create")
  <2>1. th' = [th EXCEPT ![t] = n]
    BY <1>4 DEF IncrTotal
  <2>2. n \in Command /\ n.pc = "create" /\ n.pool = th[t].pool /\ Place(n) /\ Sending(n)
    BY <1>1, <1>3, UnsentMoves
  <2> HIDE DEF n
  <2>3. Books(th[t], n, th[t].pool)
    BY <1>1, <1>2, <1>3, <1>4, <2>1, <2>2 DEF Books, Reserves, WithSocket, Holding
  <2> QED
    BY <1>1, <1>2, <1>3, <1>4, <2>1, <2>2, <2>3, GoesOn
<1>5. CASE ~HasRoom(total[th[t].pool])
  <2> DEFINE n == [th[t] EXCEPT !.pc = "full"]
  <2>1. th' = [th EXCEPT ![t] = n]
    BY <1>5, GoesIs DEF IncrTotal
  <2>2. n \in Command /\ n.pc = "full" /\ n.pool = th[t].pool /\ Place(n) /\ Sending(n)
    BY <1>1, <1>3, UnsentMoves
  <2> HIDE DEF n
  <2>3. Books(th[t], n, th[t].pool)
    BY <1>1, <1>2, <1>3, <2>1, <2>2 DEF Books, Reserves, WithSocket, Holding
  <2> QED
    BY <1>1, <1>2, <1>3, <2>1, <2>2, <2>3, GoesOn
<1> QED
  BY <1>4, <1>5

\* The next pool of the search; with at most two pools it is in the array.
LEMMA NextPlace ==
  ASSUME FewPools, conf \in Configs, NEW cm \in Command, Place(cm), cm.pc \in Searching, NextIndex(cm) < NPools,
         NEW n, n = At(cm, NextIndex(cm))
  PROVE  /\ n \in Command /\ n.pc = "pop" /\ Place(n)
         /\ n.iteration = cm.iteration /\ n.sent = cm.sent /\ n.copies = cm.copies /\ n.result = cm.result
<1> DEFINE i == NextIndex(cm)
           d == Down(cm)
           p == cm.pool + i
<1>1. /\ cm.pool \in Nat /\ cm.index \in Nat /\ cm.initial \in Nat /\ cm.backward \in BOOLEAN
      /\ NPools \in Nat /\ NPools <= 2 /\ cm.index < NPools /\ cm.initial < NPools /\ cm.pool < NPools
      /\ (IF cm.backward THEN cm.initial ELSE cm.index) = 0 => cm.pool = 0
  BY Params DEF Command, Place
<1>2. d <=> (cm.backward /\ cm.index > 0)
  BY DEF Down
<1>3. /\ i \in Nat /\ p \in Nat /\ i < NPools /\ p < NPools
      /\ d => cm.backward /\ p = cm.pool
      /\ ~d => i # 0
  <2>1. CASE d
    BY <1>1, <1>2, <2>1 DEF NextIndex
  <2>2. CASE ~d
    BY <1>1, <1>2, <2>2 DEF NextIndex
  <2> QED
    BY <2>1, <2>2
<1>4. d \in BOOLEAN /\ "pop" \in PCs
  BY DEF Down, PCs, Unsent, Searching
<1>5. n = [cm EXCEPT !.pc = "pop", !.pool = p, !.index = i, !.backward = d]
  BY DEF At
<1> HIDE DEF i, d, p
<1>6. n \in Command
  BY <1>3, <1>4, <1>5, Zenon DEF Command
<1>7. /\ n.pc = "pop" /\ n.pool = p /\ n.index = i /\ n.initial = cm.initial
      /\ n.iteration = cm.iteration /\ n.sent = cm.sent /\ n.copies = cm.copies /\ n.result = cm.result
  BY <1>5, Zenon DEF Command
<1>8. n.backward = d
  BY <1>5, Zenon DEF Command
<1>9. Place(n)
  <2>1. CASE d
    <3>1. n.backward /\ p = cm.pool /\ cm.backward
      BY <1>3, <1>8, <2>1
    <3> QED
      BY <1>1, <1>3, <1>7, <3>1 DEF Place
  <2>2. CASE ~d
    <3>1. ~n.backward /\ i # 0
      BY <1>3, <1>8, <2>2
    <3> QED
      BY <1>1, <1>3, <1>7, <3>1 DEF Place
  <2> QED
    BY <2>1, <2>2
<1> QED
  BY <1>6, <1>7, <1>9

\* A thread goes to the next pool.
LEMMA TryNextStep ==
  ASSUME FewPools, Inv, NEW t \in Thread, TryNext(t), UNCHANGED conf
  PROVE  \E n : Step(t, n)
<1>1. /\ TypeInv /\ conf \in Configs /\ th[t].pool \in Pools /\ faults \in 0..MaxFaults /\ th[t] \in Command
      /\ Place(th[t]) /\ Sending(th[t]) /\ th[t].pc = "full" /\ UNCHANGED <<idle, tend, faults>>
  BY Own DEF TryNext
<1>2. TotalBy(th[t].pool, -1) /\ IdleBy(th[t].pool, 0)
  BY <1>1, PoolChanges DEF TryNext
<1>3. th[t].pc \in Unsent /\ th[t].pc \in Searching /\ th[t].pc \in Holding
  BY <1>1 DEF Unsent, Searching, Holding
<1>4. CASE NextIndex(th[t]) < NPools /\ th' = [th EXCEPT ![t] = At(th[t], NextIndex(th[t]))]
  <2> DEFINE n == At(th[t], NextIndex(th[t]))
  <2>1. th' = [th EXCEPT ![t] = n]
    BY <1>4
  <2>2. /\ n \in Command /\ n.pc = "pop" /\ Place(n) /\ n.iteration = th[t].iteration /\ n.sent = th[t].sent
        /\ n.copies = th[t].copies /\ n.result = th[t].result
    BY <1>1, <1>3, <1>4, NextPlace
  <2> HIDE DEF n
  <2>3. Sending(n) /\ Honest(n)
    BY <1>1, <1>3, <2>2 DEF Sending, Honest, AtPut
  <2>4. n.pc \notin Holding
    BY <2>2 DEF Holding
  <2>5. Books(th[t], n, th[t].pool)
    BY <1>2, <1>3, <2>4 DEF Books, Drops
  <2>6. Step(t, n)
    BY <1>1, <2>1, <2>2, <2>3, <2>4, <2>5, AtPool
  <2> QED
    BY <2>6
<1>5. CASE Retry(t, th[t], "client")
  <2>1. Over(t)
    BY <1>1, <1>3, <1>5, UnsentFails, RetryOver
  <2> QED
    BY <1>1, <1>2, <1>3, <2>1, OverStep
<1> QED
  BY <1>4, <1>5 DEF TryNext

\* A thread opens a socket, or fails to.
LEMMA CreateStep ==
  ASSUME Inv, NEW t \in Thread, Create(t), UNCHANGED conf
  PROVE  \E n : Step(t, n)
<1> DEFINE n == [th[t] EXCEPT !.pc = "write"]
<1>1. /\ TypeInv /\ th[t].pool \in Pools /\ faults \in 0..MaxFaults
      /\ th[t].pc = "create" /\ UNCHANGED <<idle, total, tend, faults>> /\ th' = [th EXCEPT ![t] = n]
  BY Own, GoesIs DEF Create
<1>2. TotalBy(th[t].pool, 0) /\ IdleBy(th[t].pool, 0)
  BY <1>1, PoolChanges
<1>3. {"create", "write"} \subseteq Unsent /\ "write" \notin Searching
  BY DEF Unsent, Searching
<1>4. n \in Command /\ n.pc = "write" /\ n.pool = th[t].pool /\ Place(n) /\ Sending(n)
  BY <1>1, <1>3, UnsentMoves
<1> HIDE DEF n
<1>5. Books(th[t], n, th[t].pool)
  BY <1>1, <1>2, <1>4 DEF Books, Keeps, WithSocket, Holding
<1> QED
  BY <1>1, <1>4, <1>5, GoesOn

\* An attempt that fails before its command was sent.
LEMMA UnsentFailsStep ==
  ASSUME Inv, NEW t \in Thread, CreateFails(t) \/ WriteFails(t), UNCHANGED conf
  PROVE  \E n : Step(t, n)
<1>1. /\ TypeInv /\ conf \in Configs /\ th[t].pool \in Pools /\ faults \in 0..MaxFaults
      /\ th[t].pc \in {"create", "write"} /\ Fault /\ UNCHANGED <<idle, tend>> /\ Decr(th[t].pool)
      /\ \/ Retry(t, th[t], "client")
         \/ conf.auth /\ th' = [th EXCEPT ![t] = Failed(th[t], "server")]
  BY Own DEF CreateFails, CreateFailsTotal, WriteFails
<1>2. th[t].pc \in Unsent /\ th[t].pc \in Holding
  BY <1>1 DEF Unsent, Holding
<1>3. Over(t)
  <2>1. CASE Retry(t, th[t], "client")
    BY <1>1, <1>2, <2>1, UnsentFails, RetryOver
  <2>2. CASE conf.auth /\ th' = [th EXCEPT ![t] = Failed(th[t], "server")]
    BY <1>1, <1>2, <2>2, UnsentFails, FailedOver
  <2> QED
    BY <1>1, <2>1, <2>2
<1>4. IdleBy(th[t].pool, 0) /\ TotalBy(th[t].pool, -1) /\ faults' \in 0..MaxFaults
  BY <1>1, PoolChanges, Faulty, Params
<1> QED
  BY <1>1, <1>2, <1>3, <1>4, OverStep

\* A thread writes its request.
LEMMA WriteStep ==
  ASSUME Inv, NEW t \in Thread, Write(t), UNCHANGED conf
  PROVE  \E n : Step(t, n)
<1> DEFINE s == th[t].sent + 1
           c == th[t].copies + 1
           n == [th[t] EXCEPT !.pc = "read", !.sent = s, !.copies = c]
<1>1. /\ TypeInv /\ th[t].pool \in Pools /\ faults \in 0..MaxFaults /\ th[t] \in Command /\ conf \in Configs
      /\ th \in [Thread -> Command] /\ Place(th[t]) /\ Sending(th[t])
      /\ th[t].pc = "write" /\ UNCHANGED <<idle, total, tend, faults>>
  BY Own DEF Write
<1>2. th' = [th EXCEPT ![t] = n]
  BY <1>1 DEF Write
<1>3. th[t].sent \in Nat /\ th[t].copies \in Nat /\ th[t].iteration \in Nat /\ MaxRetries \in Nat
  BY <1>1, Params DEF Command
<1>4. /\ th[t].copies <= th[t].sent /\ th[t].sent <= th[t].iteration /\ th[t].iteration <= MaxRetries /\ th[t].result = "none"
      /\ "read" \in PCs
  BY <1>1 DEF Sending, Unsent, PCs
<1>5. s \in Nat /\ c \in Nat /\ 1 <= c /\ c <= s /\ s <= th[t].iteration + 1
  BY <1>3, <1>4
<1> HIDE DEF s, c
<1>6. n \in Command
  BY <1>1, <1>4, <1>5, Zenon DEF Command
<1>7. /\ n.pc = "read" /\ n.pool = th[t].pool /\ n.iteration = th[t].iteration /\ n.sent = s /\ n.copies = c
      /\ n.result = th[t].result
  BY <1>1, Zenon DEF Command
<1> HIDE DEF n
<1>8. Place(n) /\ Sending(n)
  BY <1>1, <1>4, <1>5, <1>7 DEF Place, Sending, Searching, Unsent, AtPut
<1>9. IdleBy(th[t].pool, 0) /\ TotalBy(th[t].pool, 0)
  BY <1>1, PoolChanges
<1>10. Books(th[t], n, th[t].pool)
  BY <1>1, <1>7, <1>9 DEF Books, Keeps, WithSocket, Holding
<1> QED
  BY <1>1, <1>2, <1>6, <1>7, <1>8, <1>10, GoesOn

\* A thread reads the answer of the server.
LEMMA AnswerStep ==
  ASSUME Inv, NEW t \in Thread, NEW answer \in {"ok", "server", "retry", "timeout"}, Answer(t, answer), UNCHANGED conf
  PROVE  \E n : Step(t, n)
<1> DEFINE c == IF answer \in {"server", "retry"} THEN th[t].copies - 1 ELSE th[t].copies
           n == [th[t] EXCEPT !.pc = "put", !.result = answer, !.copies = c]
<1>1. /\ TypeInv /\ th[t].pool \in Pools /\ faults \in 0..MaxFaults /\ th[t] \in Command /\ conf \in Configs
      /\ th \in [Thread -> Command] /\ Place(th[t]) /\ Sending(th[t])
      /\ th[t].pc = "read" /\ UNCHANGED <<idle, total, tend, faults>>
  BY Own DEF Answer
<1>2. th' = [th EXCEPT ![t] = n]
  BY <1>1 DEF Answer
<1>3. th[t].sent \in Nat /\ th[t].copies \in Nat /\ th[t].iteration \in Nat /\ MaxRetries \in Nat
  BY <1>1, Params DEF Command
<1>4. /\ 1 <= th[t].copies /\ th[t].copies <= th[t].sent /\ th[t].sent <= th[t].iteration + 1
      /\ th[t].iteration <= MaxRetries /\ "put" \in PCs
  BY <1>1 DEF Sending, AtPut, PCs
<1>5. c \in Nat /\ c <= th[t].sent /\ (answer \in {"server", "retry"} => c < th[t].sent) /\ 1 <= th[t].sent
  BY <1>3, <1>4
<1> HIDE DEF c
<1>6. n \in Command
  BY <1>1, <1>4, <1>5, Zenon DEF Command
<1>7. /\ n.pc = "put" /\ n.pool = th[t].pool /\ n.iteration = th[t].iteration /\ n.sent = th[t].sent /\ n.copies = c
      /\ n.result = answer
  BY <1>1, Zenon DEF Command
<1> HIDE DEF n
<1>8. Place(n) /\ Sending(n)
  BY <1>1, <1>4, <1>5, <1>7 DEF Place, Sending, Searching, Unsent, AtPut
<1>9. IdleBy(th[t].pool, 0) /\ TotalBy(th[t].pool, 0)
  BY <1>1, PoolChanges
<1>10. Books(th[t], n, th[t].pool)
  BY <1>1, <1>7, <1>9 DEF Books, Keeps, WithSocket, Holding
<1> QED
  BY <1>1, <1>2, <1>6, <1>7, <1>8, <1>10, GoesOn

\* The end of an attempt that was answered.
LEMMA SettleOver ==
  ASSUME Inv, NEW t \in Thread, th[t].pc \in AtPut, Settle(t)
  PROVE  Over(t)
<1> DEFINE cm == [th[t] EXCEPT !.result = "none"]
<1>1. th[t] \in Command /\ Sending(th[t]) /\ conf \in Configs
  BY Own
<1>2. cm \in Command /\ cm.sent = th[t].sent /\ cm.copies = th[t].copies /\ cm.iteration = th[t].iteration
  BY <1>1, Zenon DEF Command
<1>3. cm.sent \in Nat /\ cm.copies \in Nat /\ cm.iteration \in Nat /\ MaxRetries \in Nat
  BY <1>1, <1>2, Params DEF Command
<1>4. /\ 1 <= cm.sent /\ cm.copies <= cm.sent /\ cm.sent <= cm.iteration + 1 /\ cm.iteration <= MaxRetries
      /\ th[t].result \in {"ok", "server", "retry", "timeout"}
      /\ th[t].result \in {"server", "retry"} => cm.copies < cm.sent
  BY <1>1, <1>2 DEF Sending
<1>5. cm.copies <= MaxRetries + 1
  BY <1>3, <1>4
<1>6. InDoubt(cm.sent, "client") \/ cm.sent = 0
  BY <1>3 DEF InDoubt
<1>7. th[t].result \in {"server", "retry"} /\ ~InDoubt(cm.sent, "server") => cm.copies = 0
  BY <1>3, <1>4 DEF InDoubt
<1>8. \/ th[t].result = "ok" /\ th' = [th EXCEPT ![t] = [NoCommand EXCEPT !.result = "ok"]]
      \/ th[t].result = "server" /\ th' = [th EXCEPT ![t] = Failed(cm, "server")]
      \/ th[t].result = "retry" /\ Retry(t, cm, "server")
      \/ th[t].result = "timeout" /\ Retry(t, cm, "client")
  BY <1>4 DEF Settle
<1>9. CASE th[t].result = "ok" /\ th' = [th EXCEPT ![t] = [NoCommand EXCEPT !.result = "ok"]]
  <2> DEFINE n == [NoCommand EXCEPT !.result = "ok"]
  <2>1. n \in Command /\ n.pc = "idle" /\ n.pool = 0 /\ n.iteration = 0 /\ n.sent = 0 /\ n.copies = 0 /\ n.result = "ok"
    BY None, Zenon DEF Command
  <2> HIDE DEF n
  <2>2. Place(n) /\ Sending(n) /\ (AuthOnce => Honest(n))
    BY <1>1, <2>1, Params DEF Place, Sending, Honest, Searching, Unsent, AtPut
  <2> QED
    BY <1>9, <2>1, <2>2 DEF Over, n
<1> HIDE DEF cm
<1>10. CASE th[t].result = "server" /\ th' = [th EXCEPT ![t] = Failed(cm, "server")]
  BY <1>1, <1>2, <1>5, <1>7, <1>10, FailedOver
<1>11. CASE th[t].result = "retry" /\ Retry(t, cm, "server")
  BY <1>1, <1>2, <1>4, <1>7, <1>11, RetryOver
<1>12. CASE th[t].result = "timeout" /\ Retry(t, cm, "client")
  <2>1. InDoubt(cm.sent, "client")
    BY <1>4, <1>6
  <2> QED
    BY <1>1, <1>2, <1>4, <1>12, <2>1, RetryOver
<1> QED
  BY <1>8, <1>9, <1>10, <1>11, <1>12

\* A thread returns its socket, or closes it.
LEMMA PutStep ==
  ASSUME Inv, NEW t \in Thread, Put(t) \/ Close(t), UNCHANGED conf
  PROVE  \E n : Step(t, n)
<1>1. /\ TypeInv /\ th[t].pool \in Pools /\ faults \in 0..MaxFaults /\ th[t] \in Command /\ conf \in Configs
      /\ Place(th[t]) /\ Sending(th[t])
      /\ th[t].pc \in {"put", "close"} /\ UNCHANGED <<tend, faults>>
  BY Own DEF Put, Close
<1>2. th[t].pc \in AtPut /\ th[t].pc \in Holding /\ th[t].pc \in WithSocket
  BY <1>1 DEF AtPut, Holding, WithSocket
<1>3. CASE Push(th[t].pool) /\ Settle(t) /\ UNCHANGED total
  <2>1. IdleBy(th[t].pool, 1) /\ TotalBy(th[t].pool, 0) /\ idle[th[t].pool] < Capacity
    BY <1>1, <1>3, PoolChanges
  <2>2. Over(t)
    BY <1>2, <1>3, SettleOver
  <2> QED
    BY <1>1, <1>2, <2>1, <2>2, OverStep
<1>4. CASE Decr(th[t].pool) /\ Settle(t) /\ UNCHANGED idle
  <2>1. IdleBy(th[t].pool, 0) /\ TotalBy(th[t].pool, -1)
    BY <1>1, <1>4, PoolChanges
  <2>2. Over(t)
    BY <1>2, <1>4, SettleOver
  <2> QED
    BY <1>1, <1>2, <2>1, <2>2, OverStep
<1>5. CASE Goes(t, "close") /\ UNCHANGED <<idle, total>>
  <2> DEFINE n == [th[t] EXCEPT !.pc = "close"]
  <2>1. th' = [th EXCEPT ![t] = n]
    BY <1>5, GoesIs
  <2>2. "close" \in PCs
    BY DEF PCs, AtPut
  <2>3. /\ n \in Command /\ n.pc = "close" /\ n.pool = th[t].pool /\ n.iteration = th[t].iteration
        /\ n.sent = th[t].sent /\ n.copies = th[t].copies /\ n.result = th[t].result
    BY <1>1, <2>2, Moved
  <2> HIDE DEF n
  <2>4. Place(n) /\ Sending(n)
    BY <1>1, <1>2, <2>3 DEF Place, Sending, Searching, Unsent, AtPut
  <2>5. IdleBy(th[t].pool, 0) /\ TotalBy(th[t].pool, 0)
    BY <1>1, <1>5, PoolChanges
  <2>6. Books(th[t], n, th[t].pool)
    BY <1>2, <2>3, <2>5 DEF Books, Keeps, WithSocket, Holding
  <2> QED
    BY <1>1, <2>1, <2>3, <2>4, <2>6, GoesOn
<1> QED
  BY <1>3, <1>4, <1>5 DEF Put, Close

\* The read of an answer fails.
LEMMA ReadFailsStep ==
  ASSUME Inv, NEW t \in Thread, ReadFails(t), UNCHANGED conf
  PROVE  \E n : Step(t, n)
<1> DEFINE c == th[t].copies - 1
           cm == [th[t] EXCEPT !.copies = c]
<1>1. /\ TypeInv /\ th[t].pool \in Pools /\ faults \in 0..MaxFaults /\ th[t] \in Command /\ conf \in Configs
      /\ Sending(th[t]) /\ th[t].pc = "read" /\ UNCHANGED <<idle, tend>> /\ Fault /\ Decr(th[t].pool)
      /\ \/ Retry(t, th[t], "client")
         \/ th' = [th EXCEPT ![t] = Failed(th[t], "client")]
         \/ th' = [th EXCEPT ![t] = Failed(cm, "server")]
  BY Own DEF ReadFails
<1>2. th[t].sent \in Nat /\ th[t].copies \in Nat /\ th[t].iteration \in Nat /\ MaxRetries \in Nat
  BY <1>1, Params DEF Command
<1>3. /\ 1 <= th[t].copies /\ th[t].copies <= th[t].sent /\ th[t].sent <= th[t].iteration + 1
      /\ th[t].iteration <= MaxRetries
  BY <1>1 DEF Sending
<1>4. /\ InDoubt(th[t].sent, "client") /\ th[t].copies <= MaxRetries + 1
      /\ c \in Nat /\ c <= MaxRetries + 1 /\ (~InDoubt(th[t].sent, "server") => c = 0)
  BY <1>2, <1>3 DEF InDoubt
<1> HIDE DEF c
<1>5. cm \in Command /\ cm.copies = c /\ cm.sent = th[t].sent
  BY <1>1, <1>4, Zenon DEF Command
<1> HIDE DEF cm
<1>6. Over(t)
  <2>1. CASE Retry(t, th[t], "client")
    BY <1>1, <1>3, <1>4, <2>1, RetryOver
  <2>2. CASE th' = [th EXCEPT ![t] = Failed(th[t], "client")]
    BY <1>1, <1>4, <2>2, FailedOver
  <2>3. CASE th' = [th EXCEPT ![t] = Failed(cm, "server")]
    BY <1>1, <1>4, <1>5, <2>3, FailedOver
  <2> QED
    BY <1>1, <2>1, <2>2, <2>3
<1>7. IdleBy(th[t].pool, 0) /\ TotalBy(th[t].pool, -1) /\ faults' \in 0..MaxFaults /\ th[t].pc \in Holding
  BY <1>1, PoolChanges, Faulty, Params DEF Holding
<1> QED
  BY <1>1, <1>6, <1>7, OverStep

\* Every step of a thread is accounted for.
LEMMA ThreadStep ==
  ASSUME FewPools, Inv, NEW t \in Thread, Start(t) \/ CommandStep(t)
  PROVE  \E n : Step(t, n)
<1>1. CASE Start(t)
  BY <1>1, StartStep
<1>2. CASE CommandStep(t)
  <2>1. UNCHANGED conf
    BY <1>2 DEF CommandStep
  <2> QED
    BY <1>2, <2>1, BeginFailsStep, SearchStep, PopHeadStep, CloseStaleStep, IncrTotalStep, TryNextStep, CreateStep,
       UnsentFailsStep, WriteStep, PutStep, ReadFailsStep, AnswerStep DEF CommandStep
<1> QED
  BY <1>1, <1>2

-----------------------------------------------------------------------------
(* A step of the tend thread.                                               *)

\* What the tend thread holds of pool p: a slot that is counted, or a socket that
\* is not yet; a socket out of the pool; the sockets it may still open.
Counted(td, p) ==
    IF td.pool # p THEN 0
    ELSE IF td.pc \in {"old", "recent"} THEN 1 ELSE IF td.pc = "count" THEN -1 ELSE 0
Out(td, p) == IF td.pool = p /\ td.pc \in {"old", "recent", "push"} THEN 1 ELSE 0
More(td, p) ==
    IF td.pool # p THEN 0
    ELSE IF td.pc = "grow" THEN td.count ELSE IF td.pc \in {"push", "count"} THEN td.count - 1 ELSE 0

\* The tend thread goes on with n: what it does to its pool is accounted for, and it
\* opens no socket it was not to open, or begins to reach the minimum.
TendBooks(n, q) ==
    /\ n \in Tender /\ tend' = n /\ n.pool < NPools /\ (n.pc = "idle" \/ n.pool = q)
    /\ n.pc \in {"grow", "push", "count"} => 1 <= n.count /\ n.count <= MinSize
    /\ idle' \in [Pools -> Nat] /\ total' \in [Pools -> Int]
    /\ \A p \in Pools \ {q} : idle'[p] = idle[p] /\ total'[p] = total[p]
    /\ total'[q] - idle'[q] - Counted(n, q) = total[q] - idle[q] - Counted(tend, q)
    /\ idle'[q] <= Capacity
    /\ \/ idle'[q] + Out(n, q) + More(n, q) <= idle[q] + Out(tend, q) + More(tend, q)
       \/ /\ idle'[q] = idle[q] /\ Counted(tend, q) = 0 /\ Out(n, q) = 0
          /\ total[q] + More(n, q) <= Capacity + MinSize

\* The threads' slots and sockets, and the books of a pool in these terms.
LEMMA Accounts ==
  ASSUME TypeInv, NEW p \in Pools
  PROVE  /\ Slots(p) \in Nat /\ Open(p) \in Nat /\ Open(p) <= Slots(p)
         /\ TotalExact => total[p] = idle[p] + Slots(p) + Counted(tend, p)
         /\ Sockets(p) + ToOpen(p) = idle[p] + Open(p) + Out(tend, p) + More(tend, p)
<1>1. IsFiniteSet({u \in Thread : HoldsSlot(u, p)}) /\ IsFiniteSet({u \in Thread : HasSocket(u, p)})
  BY SyncAssumption, FS_Subset
<1>2. Slots(p) \in Nat /\ Open(p) \in Nat
  BY <1>1, FS_CardinalityType DEF Slots, Open
<1>3. Open(p) <= Slots(p)
  <2>1. {u \in Thread : HasSocket(u, p)} \subseteq {u \in Thread : HoldsSlot(u, p)}
    BY DEF HasSocket
  <2> QED
    BY <1>1, <2>1, FS_Subset DEF Open, Slots
<1>4. idle[p] \in Nat /\ total[p] \in Int /\ tend.count \in Nat
  BY DEF TypeInv, Tender
<1>5. ASSUME TotalExact PROVE total[p] = idle[p] + Slots(p) + Counted(tend, p)
  <2>1. total[p] = idle[p] + Slots(p) + (IF tend.pool = p /\ tend.pc \in {"old", "recent"} THEN 1 ELSE 0)
                                    - (IF tend.pool = p /\ tend.pc = "count" THEN 1 ELSE 0)
    BY <1>5 DEF TotalExact, Slots
  <2> QED
    BY <1>2, <1>4, <2>1 DEF Counted
<1>6. Sockets(p) = idle[p] + Open(p) + Out(tend, p) /\ ToOpen(p) = More(tend, p)
  BY DEF Sockets, Open, Out, ToOpen, More
<1>7. Out(tend, p) \in Nat /\ More(tend, p) \in Int
  BY <1>4 DEF Out, More
<1> QED
  BY <1>2, <1>3, <1>4, <1>5, <1>6, <1>7

\* A step of the tend thread that keeps the books keeps the invariant.
LEMMA TendKeeps ==
  ASSUME Inv, Bounded, UNCHANGED <<conf, th, faults>>, NEW n, NEW q, q = tend.pool, TendBooks(n, q)
  PROVE  Inv' /\ Bounded'
<1>1. TypeInv /\ conf \in Configs /\ tend \in Tender /\ q \in Pools /\ TotalExact
  BY Params DEF Inv, TypeInv, Balancing, Tender
<1>2. /\ NPools' = NPools /\ Capacity' = Capacity /\ MinSize' = MinSize /\ MaxRetries' = MaxRetries /\ Pools' = Pools
      /\ Capacity \in Nat /\ MinSize \in Nat
  BY <1>1, SameConf, Params
<1>3. /\ n \in Tender /\ tend' = n /\ n.pool < NPools /\ (n.pc = "idle" \/ n.pool = q)
      /\ n.pc \in {"grow", "push", "count"} => 1 <= n.count /\ n.count <= MinSize
      /\ idle' \in [Pools -> Nat] /\ total' \in [Pools -> Int]
  BY DEF TendBooks
<1>4. ASSUME NEW p \in Pools
      PROVE  /\ idle[p] \in Nat /\ idle'[p] \in Nat /\ total[p] \in Int /\ total'[p] \in Int
             /\ Counted(n, p) \in Int /\ Counted(tend, p) \in Int /\ Out(n, p) \in Nat /\ Out(tend, p) \in Nat
             /\ More(n, p) \in Int /\ More(tend, p) \in Int
             /\ idle[p] <= Capacity
  <2>1. n.count \in Nat /\ tend.count \in Nat
    BY <1>1, <1>3 DEF Tender
  <2> QED
    BY <1>1, <1>3, <2>1 DEF TypeInv, Counted, Out, More
<1>5. ASSUME NEW p \in Pools
      PROVE  /\ total'[p] - idle'[p] - Counted(n, p) = total[p] - idle[p] - Counted(tend, p)
             /\ idle'[p] <= Capacity
             /\ \/ idle'[p] + Out(n, p) + More(n, p) <= idle[p] + Out(tend, p) + More(tend, p)
                \/ /\ idle'[p] = idle[p] /\ Counted(tend, p) = 0 /\ Out(n, p) = 0
                   /\ total[p] + More(n, p) <= Capacity + MinSize
  <2>1. CASE p = q
    BY <2>1 DEF TendBooks
  <2>2. CASE p # q
    <3>1. idle'[p] = idle[p] /\ total'[p] = total[p]
      BY <2>2 DEF TendBooks
    <3>2. /\ Counted(n, p) = 0 /\ Counted(tend, p) = 0 /\ Out(n, p) = 0 /\ Out(tend, p) = 0
          /\ More(n, p) = 0 /\ More(tend, p) = 0
      BY <1>3, <2>2 DEF Counted, Out, More
    <3>3. idle[p] \in Nat /\ total[p] \in Int /\ idle[p] <= Capacity
      BY <1>4
    <3>4. total'[p] - idle'[p] - Counted(n, p) = total[p] - idle[p] - Counted(tend, p)
      BY <3>1, <3>2
    <3>5. idle'[p] + Out(n, p) + More(n, p) <= idle[p] + Out(tend, p) + More(tend, p)
      BY <3>1, <3>2, <3>3
    <3> QED
      BY <3>1, <3>3, <3>4, <3>5
  <2> QED
    BY <2>1, <2>2
<1>6. TypeInv'
  BY <1>1, <1>2, <1>3, <1>5 DEF TypeInv
<1>7. Threads'
  <2> SUFFICES ASSUME NEW u \in Thread PROVE Place(th[u])' /\ Sending(th[u])'
    BY DEF Threads
  <2>1. Place(th[u]) /\ Sending(th[u]) /\ th'[u] = th[u]
    BY DEF Inv, Threads
  <2> QED
    BY <1>2, <2>1 DEF Place, Sending
<1>8. Balancing'
  BY <1>2, <1>3 DEF Balancing
<1>9. ASSUME NEW p \in Pools
      PROVE  /\ Slots(p)' = Slots(p) /\ Open(p)' = Open(p) /\ Slots(p) \in Nat /\ Open(p) \in Nat /\ Open(p) <= Slots(p)
             /\ total[p] = idle[p] + Slots(p) + Counted(tend, p)
             /\ Sockets(p) + ToOpen(p) = idle[p] + Open(p) + Out(tend, p) + More(tend, p)
  <2>1. Slots(p)' = Slots(p) /\ Open(p)' = Open(p)
    BY DEF Slots, Open, HoldsSlot, HasSocket
  <2> QED
    BY <1>1, <2>1, Accounts
<1>10. TotalExact'
  <2> SUFFICES ASSUME NEW p \in Pools
               PROVE  total'[p] = idle'[p] + Slots(p)' + (IF n.pool = p /\ n.pc \in {"old", "recent"} THEN 1 ELSE 0)
                                    - (IF n.pool = p /\ n.pc = "count" THEN 1 ELSE 0)
    BY <1>2, <1>3 DEF TotalExact, Slots
  <2>1. total'[p] = idle'[p] + Slots(p)' + Counted(n, p)
    BY <1>4, <1>5, <1>9
  <2>2. Slots(p)' \in Nat /\ idle'[p] \in Nat
    BY <1>4, <1>9
  <2> QED
    BY <2>1, <2>2 DEF Counted
<1>11. Bounded'
  <2> SUFFICES ASSUME NEW p \in Pools PROVE Sockets(p)' + ToOpen(p)' <= Capacity + MinSize
    BY <1>2 DEF Bounded
  <2>1. Sockets(p)' = idle'[p] + Open(p)' + Out(n, p) /\ ToOpen(p)' = More(n, p)
    BY <1>3 DEF Sockets, Open, Out, ToOpen, More
  <2>2. Sockets(p) + ToOpen(p) <= Capacity + MinSize
    BY DEF Bounded
  <2>3. idle[p] + Open(p) + Out(tend, p) + More(tend, p) <= Capacity + MinSize
    BY <1>9, <2>2
  <2>4. Sockets(p)' + ToOpen(p)' = idle'[p] + Open(p) + Out(n, p) + More(n, p)
    BY <1>4, <1>9, <2>1
  <2>5. CASE idle'[p] + Out(n, p) + More(n, p) <= idle[p] + Out(tend, p) + More(tend, p)
    BY <1>2, <1>4, <1>9, <2>3, <2>4, <2>5
  <2>6. CASE /\ idle'[p] = idle[p] /\ Counted(tend, p) = 0 /\ Out(n, p) = 0
             /\ total[p] + More(n, p) <= Capacity + MinSize
    BY <1>2, <1>4, <1>9, <2>4, <2>6
  <2> QED
    BY <1>5, <2>5, <2>6
<1> QED
  BY <1>6, <1>7, <1>8, <1>10, <1>11 DEF Inv

\* The tend thread's place, and what it goes on with.
LEMMA TendOwn ==
  ASSUME Inv
  PROVE  /\ TypeInv /\ conf \in Configs /\ tend \in Tender /\ tend.pool \in Pools /\ tend.pool < NPools
         /\ tend.pool \in Nat /\ tend.count \in Nat /\ NPools \in Nat /\ NPools >= 1
         /\ MinSize \in Nat /\ Capacity \in Nat /\ MinSize <= Capacity
         /\ idle \in [Pools -> Nat] /\ total \in [Pools -> Int] /\ idle[tend.pool] <= Capacity
         /\ idle[tend.pool] \in Nat /\ total[tend.pool] \in Int
         /\ tend.pc \in {"grow", "push", "count"} => 1 <= tend.count /\ tend.count <= MinSize
<1>1. TypeInv /\ Balancing /\ conf \in Configs /\ tend \in Tender
  BY DEF Inv, TypeInv
<1>2. tend.pool \in Pools /\ tend.pool \in Nat /\ tend.count \in Nat
  BY <1>1, Params DEF Balancing, Tender
<1> QED
  BY <1>1, <1>2, Params DEF Balancing, TypeInv

\* The tend thread goes to the next pool.
LEMMA NextPoolIs ==
  ASSUME Inv, NextPool
  PROVE  tend' \in Tender /\ tend'.pc = "idle" /\ tend'.pool < NPools
<1>1. (tend.pool + 1) % NPools \in Nat /\ (tend.pool + 1) % NPools < NPools
  BY TendOwn
<1> QED
  BY <1>1 DEF NextPool, Tender

\* What a move of the tend thread does.
LEMMA TendIs ==
  ASSUME Inv, NEW pc \in {"idle", "trim", "old", "recent", "grow", "push", "count"}, NEW c \in Nat, Tend(pc, c)
  PROVE  tend' \in Tender /\ tend'.pc = pc /\ tend'.pool = tend.pool /\ tend'.count = c
  BY TendOwn DEF Tend, Tender

\* The tend thread decides what to do with a pool.
LEMMA BalanceStep ==
  ASSUME Inv, Balance, UNCHANGED conf
  PROVE  TendBooks(tend', tend.pool)
<1> DEFINE q == tend.pool
<1>1. tend.pc = "idle" /\ UNCHANGED <<idle, total>>
  BY DEF Balance
<1>2. CASE total[q] - MinSize > 0 /\ Tend("trim", total[q] - MinSize)
  <2>1. tend' \in Tender /\ tend'.pc = "trim" /\ tend'.pool = q
    BY <1>2, TendIs, TendOwn
  <2> QED
    BY <1>1, <2>1, TendOwn DEF TendBooks, Counted, Out, More
<1>3. CASE total[q] - MinSize < 0 /\ Tend("grow", -(total[q] - MinSize))
  <2>0. total[q] >= 0
    <3>1. Slots(q) \in Nat /\ total[q] = idle[q] + Slots(q) + Counted(tend, q)
      BY Accounts, TendOwn DEF Inv
    <3>2. Counted(tend, q) = 0
      BY <1>1 DEF Counted
    <3> QED
      BY <3>1, <3>2, TendOwn
  <2>1. /\ tend' \in Tender /\ tend'.pc = "grow" /\ tend'.pool = q
        /\ tend'.count = MinSize - total[q]
    BY <1>3, TendIs, TendOwn
  <2> QED
    BY <1>1, <1>3, <2>0, <2>1, TendOwn DEF TendBooks, Counted, Out, More
<1>4. CASE NextPool
  <2>1. tend' \in Tender /\ tend'.pc = "idle" /\ tend'.pool < NPools
    BY <1>4, NextPoolIs
  <2> QED
    BY <1>1, <2>1, TendOwn DEF TendBooks, Counted, Out, More
<1> QED
  BY <1>2, <1>3, <1>4 DEF Balance

\* The tend thread takes a socket from the tail.
LEMMA TrimPopStep ==
  ASSUME Inv, TrimPop, UNCHANGED conf
  PROVE  TendBooks(tend', tend.pool)
<1> DEFINE q == tend.pool
<1>1. tend.pc = "trim" /\ UNCHANGED total
  BY DEF TrimPop
<1>2. CASE NextPool /\ UNCHANGED idle
  <2>1. tend' \in Tender /\ tend'.pc = "idle" /\ tend'.pool < NPools
    BY <1>2, NextPoolIs
  <2> QED
    BY <1>1, <1>2, <2>1, TendOwn DEF TendBooks, Counted, Out, More
<1>3. CASE Pop(q) /\ (Tend("old", tend.count) \/ Tend("recent", tend.count))
  <2>1. tend' \in Tender /\ tend'.pc \in {"old", "recent"} /\ tend'.pool = q
    BY <1>3, TendIs, TendOwn
  <2>2. IdleBy(q, -1)
    BY <1>3, TendOwn, PoolChanges
  <2>3. idle' \in [Pools -> Nat] /\ idle'[q] = idle[q] - 1 /\ \A p \in Pools \ {q} : idle'[p] = idle[p]
    BY <2>2, TendOwn DEF IdleBy
  <2> QED
    BY <1>1, <2>1, <2>3, TendOwn DEF TendBooks, Counted, Out, More
<1> QED
  BY <1>2, <1>3 DEF TrimPop

\* The tend thread closes a socket that is too old.
LEMMA TrimCloseStep ==
  ASSUME Inv, TrimClose, UNCHANGED conf
  PROVE  TendBooks(tend', tend.pool)
<1> DEFINE q == tend.pool
<1>1. tend.pc = "old" /\ UNCHANGED idle
  BY DEF TrimClose
<1>2. TotalBy(q, -1)
  BY TendOwn, PoolChanges DEF TrimClose
<1>3. total' \in [Pools -> Int] /\ total'[q] = total[q] - 1 /\ \A p \in Pools \ {q} : total'[p] = total[p]
  BY <1>2, TendOwn DEF TotalBy
<1>4. tend' \in Tender /\ tend'.pool < NPools /\ (tend'.pc = "idle" \/ (tend'.pc = "trim" /\ tend'.pool = q))
  <2>1. CASE tend.count > 1
    <3>1. tend.count - 1 \in Nat /\ Tend("trim", tend.count - 1)
      BY <2>1, TendOwn DEF TrimClose
    <3> QED
      BY <3>1, TendIs, TendOwn
  <2>2. CASE ~(tend.count > 1)
    BY <2>2, NextPoolIs DEF TrimClose
  <2> QED
    BY <2>1, <2>2
<1> QED
  BY <1>1, <1>3, <1>4, TendOwn DEF TendBooks, Counted, Out, More

\* The tend thread puts back a socket that is still good.
LEMMA TrimPutBackStep ==
  ASSUME Inv, TrimPutBack, UNCHANGED conf
  PROVE  TendBooks(tend', tend.pool)
<1> DEFINE q == tend.pool
<1>1. tend.pc = "recent"
  BY DEF TrimPutBack
<1>2. tend' \in Tender /\ tend'.pc = "idle" /\ tend'.pool < NPools
  BY NextPoolIs DEF TrimPutBack
<1>3. CASE Push(q) /\ UNCHANGED total
  <2>1. IdleBy(q, 1) /\ idle[q] < Capacity
    BY <1>3, TendOwn, PoolChanges
  <2>2. idle' \in [Pools -> Nat] /\ idle'[q] = idle[q] + 1 /\ \A p \in Pools \ {q} : idle'[p] = idle[p]
    BY <2>1, TendOwn DEF IdleBy
  <2> QED
    BY <1>1, <1>2, <1>3, <2>1, <2>2, TendOwn DEF TendBooks, Counted, Out, More
<1>4. CASE Decr(q) /\ UNCHANGED idle
  <2>1. TotalBy(q, -1)
    BY <1>4, TendOwn, PoolChanges
  <2>2. total' \in [Pools -> Int] /\ total'[q] = total[q] - 1 /\ \A p \in Pools \ {q} : total'[p] = total[p]
    BY <2>1, TendOwn DEF TotalBy
  <2> QED
    BY <1>1, <1>2, <1>4, <2>2, TendOwn DEF TendBooks, Counted, Out, More
<1> QED
  BY <1>3, <1>4 DEF TrimPutBack

\* The tend thread opens a socket, or fails to.
LEMMA GrowStep ==
  ASSUME Inv, Grow, UNCHANGED conf
  PROVE  TendBooks(tend', tend.pool)
<1> DEFINE q == tend.pool
<1>1. tend.pc = "grow" /\ UNCHANGED <<idle, total>>
  BY DEF Grow
<1>2. CASE Tend("push", tend.count)
  <2>1. tend' \in Tender /\ tend'.pc = "push" /\ tend'.pool = q /\ tend'.count = tend.count
    BY <1>2, TendIs, TendOwn
  <2> QED
    BY <1>1, <2>1, TendOwn DEF TendBooks, Counted, Out, More
<1>3. CASE NextPool
  <2>1. tend' \in Tender /\ tend'.pc = "idle" /\ tend'.pool < NPools
    BY <1>3, NextPoolIs
  <2> QED
    BY <1>1, <2>1, TendOwn DEF TendBooks, Counted, Out, More
<1> QED
  BY <1>2, <1>3 DEF Grow

\* The tend thread pushes the socket it opened, if the pool has room.
LEMMA GrowPushStep ==
  ASSUME Inv, GrowPush, UNCHANGED conf
  PROVE  TendBooks(tend', tend.pool)
<1> DEFINE q == tend.pool
<1>1. tend.pc = "push" /\ UNCHANGED total
  BY DEF GrowPush
<1>2. CASE Push(q) /\ Tend("count", tend.count)
  <2>1. tend' \in Tender /\ tend'.pc = "count" /\ tend'.pool = q /\ tend'.count = tend.count
    BY <1>2, TendIs, TendOwn
  <2>2. IdleBy(q, 1) /\ idle[q] < Capacity
    BY <1>2, TendOwn, PoolChanges
  <2>3. idle' \in [Pools -> Nat] /\ idle'[q] = idle[q] + 1 /\ \A p \in Pools \ {q} : idle'[p] = idle[p]
    BY <2>2, TendOwn DEF IdleBy
  <2> QED
    BY <1>1, <2>1, <2>2, <2>3, TendOwn DEF TendBooks, Counted, Out, More
<1>3. CASE NextPool /\ UNCHANGED idle
  <2>1. tend' \in Tender /\ tend'.pc = "idle" /\ tend'.pool < NPools
    BY <1>3, NextPoolIs
  <2> QED
    BY <1>1, <1>3, <2>1, TendOwn DEF TendBooks, Counted, Out, More
<1> QED
  BY <1>2, <1>3 DEF GrowPush

\* The tend thread counts the socket it pushed.
LEMMA GrowCountStep ==
  ASSUME Inv, GrowCount, UNCHANGED conf
  PROVE  TendBooks(tend', tend.pool)
<1> DEFINE q == tend.pool
<1>1. tend.pc = "count" /\ UNCHANGED idle
  BY DEF GrowCount
<1>2. TotalBy(q, 1)
  BY TendOwn, PoolChanges DEF GrowCount
<1>3. total' \in [Pools -> Int] /\ total'[q] = total[q] + 1 /\ \A p \in Pools \ {q} : total'[p] = total[p]
  BY <1>2, TendOwn DEF TotalBy
<1>4. CASE tend.count > 1
  <2>1. tend.count - 1 \in Nat /\ Tend("grow", tend.count - 1)
    BY <1>4, TendOwn DEF GrowCount
  <2>2. tend' \in Tender /\ tend'.pc = "grow" /\ tend'.pool = q /\ tend'.count = tend.count - 1
    BY <2>1, TendIs
  <2> QED
    BY <1>1, <1>3, <1>4, <2>2, TendOwn DEF TendBooks, Counted, Out, More
<1>5. CASE ~(tend.count > 1)
  <2>1. tend' \in Tender /\ tend'.pc = "idle" /\ tend'.pool < NPools
    BY <1>5, NextPoolIs DEF GrowCount
  <2> QED
    BY <1>1, <1>3, <1>5, <2>1, TendOwn DEF TendBooks, Counted, Out, More
<1> QED
  BY <1>4, <1>5

-----------------------------------------------------------------------------
(* The theorems.                                                            *)

\* The invariants hold initially.
LEMMA InitInv ==
  ASSUME Init
  PROVE  Inv /\ Bounded /\ \A t \in Thread : Honest(th[t])
<1>1. /\ conf \in Configs /\ idle = [p \in Pools |-> 0] /\ total = [p \in Pools |-> 0]
      /\ th = [t \in Thread |-> NoCommand] /\ tend = [pc |-> "idle", pool |-> 0, count |-> 0] /\ faults = 0
  BY DEF Init
<1>2. tend \in Tender /\ tend.pc = "idle" /\ tend.pool = 0
  BY <1>1 DEF Tender
<1>3. TypeInv
  BY <1>1, <1>2, None, Params DEF TypeInv
<1>4. ASSUME NEW t \in Thread PROVE Place(th[t]) /\ Sending(th[t]) /\ Honest(th[t])
  <2>1. th[t] = NoCommand
    BY <1>1
  <2> QED
    BY <1>1, <2>1, None, Params DEF Place, Sending, Honest, Searching, Unsent, AtPut
<1>5. Balancing
  BY <1>1, <1>2, Params DEF Balancing
<1>6. ASSUME NEW p \in Pools
      PROVE  Slots(p) = 0 /\ Open(p) = 0
  <2>1. {t \in Thread : HoldsSlot(t, p)} = {} /\ {t \in Thread : HasSocket(t, p)} = {}
    BY <1>1, None DEF HoldsSlot, HasSocket
  <2> QED
    BY <2>1, FS_EmptySet DEF Slots, Open
<1>7. TotalExact
  BY <1>1, <1>2, <1>6 DEF TotalExact, Slots
<1>8. Bounded
  <2> SUFFICES ASSUME NEW p \in Pools PROVE Sockets(p) + ToOpen(p) <= Capacity + MinSize
    BY DEF Bounded
  <2>1. Sockets(p) + ToOpen(p) = 0
    BY <1>1, <1>2, <1>6 DEF Sockets, ToOpen, Open
  <2> QED
    BY <1>1, <2>1, Params
<1> QED
  BY <1>3, <1>4, <1>5, <1>7, <1>8 DEF Inv, Threads

\* Every step keeps the invariant.
LEMMA NextInv ==
  ASSUME FewPools, Inv, Bounded, [Next]_vars
  PROVE  Inv' /\ Bounded'
<1>1. ASSUME NEW t \in Thread, Start(t) \/ CommandStep(t) PROVE Inv' /\ Bounded'
  BY <1>1, ThreadStep, StepInv, StepBounded
<1>2. CASE TendStep
  <2>1. UNCHANGED <<conf, th, faults>>
    BY <1>2 DEF TendStep, Balance, TrimPop, TrimClose, TrimPutBack, Grow, GrowPush, GrowCount
  <2>2. TendBooks(tend', tend.pool)
    BY <1>2, BalanceStep, TrimPopStep, TrimCloseStep, TrimPutBackStep, GrowStep, GrowPushStep, GrowCountStep DEF TendStep
  <2> QED
    BY <2>1, <2>2, TendKeeps
<1>3. CASE UNCHANGED vars
  <2>1. UNCHANGED <<conf, idle, total, th, tend, faults>>
    BY <1>3 DEF vars
  <2>2. Inv'
    BY <2>1 DEF Inv, TypeInv, Threads, Place, Sending, Balancing, TotalExact, HoldsSlot, NPools, Capacity, MinSize,
                MaxRetries, Pools
  <2>3. Bounded'
    BY <2>1 DEF Bounded, Sockets, HasSocket, HoldsSlot, ToOpen, NPools, Capacity, MinSize, Pools
  <2> QED
    BY <2>2, <2>3
<1> QED
  BY <1>1, <1>2, <1>3 DEF Next

\* Every step keeps the errors honest.
LEMMA NextHonest ==
  ASSUME FewPools, AuthOnce, Inv, \A t \in Thread : Honest(th[t]), [Next]_vars
  PROVE  \A t \in Thread : Honest(th'[t])
<1> SUFFICES ASSUME NEW u \in Thread PROVE Honest(th'[u])
  OBVIOUS
<1>1. ASSUME NEW t \in Thread, Start(t) \/ CommandStep(t) PROVE Honest(th'[u])
  <2>1. PICK n : Step(t, n)
    BY <1>1, ThreadStep
  <2>2. Honest(n) /\ th' = [th EXCEPT ![t] = n] /\ th \in [Thread -> Command]
    BY <2>1, Own DEF Step
  <2>3. th'[u] = n \/ th'[u] = th[u]
    BY <2>2
  <2> QED
    BY <2>2, <2>3
<1>2. CASE TendStep \/ UNCHANGED vars
  <2>1. UNCHANGED th
    BY <1>2 DEF TendStep, Balance, TrimPop, TrimClose, TrimPutBack, Grow, GrowPush, GrowCount, vars
  <2> QED
    BY <2>1
<1> QED
  BY <1>1, <1>2 DEF Next

\* The invariant implies the properties.
LEMMA InvExact ==
  ASSUME Inv, Bounded
  PROVE  PoolsExact /\ InRange
<1>1. TypeInv /\ conf \in Configs /\ Balancing /\ TotalExact /\ tend \in Tender
  BY DEF Inv, TypeInv
<1>2. TypeOK
  <2>1. idle \in [Pools -> 0..Capacity]
    BY <1>1, Params DEF TypeInv
  <2>2. ASSUME NEW t \in Thread
        PROVE  th[t].iteration \in 0..MaxRetries /\ {th[t].sent, th[t].copies} \subseteq 0..(MaxRetries + 1)
    <3>1. th[t] \in Command /\ Sending(th[t])
      BY Own
    <3>2. th[t].iteration \in Nat /\ th[t].sent \in Nat /\ th[t].copies \in Nat /\ MaxRetries \in Nat /\ th[t].pc \in PCs
      BY <1>1, <3>1, Params DEF Command
    <3>3. th[t].iteration <= MaxRetries /\ th[t].sent <= MaxRetries + 1 /\ th[t].copies <= MaxRetries + 1
      BY <3>1, <3>2 DEF Sending, PCs
    <3> QED
      BY <3>2, <3>3
  <2> QED
    BY <1>1, <2>1, <2>2 DEF TypeOK, TypeInv
<1>3. SocketsBounded
  <2> SUFFICES ASSUME NEW p \in Pools PROVE Sockets(p) <= Capacity + MinSize
    BY DEF SocketsBounded
  <2>1. Sockets(p) + ToOpen(p) <= Capacity + MinSize
    BY DEF Bounded
  <2>2. ToOpen(p) \in Nat
    BY <1>1 DEF ToOpen, Balancing, Tender
  <2>3. Sockets(p) \in Nat
    BY <1>1, Accounts DEF TypeInv, Sockets, Open
  <2> QED
    BY <1>1, <2>1, <2>2, <2>3, Params
<1>4. InRange
  BY Own DEF InRange
<1> QED
  BY <1>1, <1>2, <1>3, <1>4 DEF PoolsExact

\* Whatever the number of threads and the limits, and however often connections and
\* commands fail: the count of every pool is exact, on every path of as_command_execute
\* and of as_node_balance_connections, and the sockets stay within the limit, when a
\* node has at most two pools.
THEOREM PoolsStayExact ==
  ASSUME FewPools
  PROVE  Spec => []PoolsExact
<1>1. Init => Inv /\ Bounded
  BY InitInv
<1>2. Inv /\ Bounded /\ [Next]_vars => (Inv /\ Bounded)'
  BY NextInv
<1>3. Inv /\ Bounded => PoolsExact
  BY InvExact
<1> QED
  BY <1>1, <1>2, <1>3, PTL DEF Spec

\* The search of as_node_get_connection stays in the array of pools when there are at
\* most two of them.
THEOREM SearchInRange ==
  ASSUME FewPools
  PROVE  Spec => []InRange
<1>1. Init => Inv /\ Bounded
  BY InitInv
<1>2. Inv /\ Bounded /\ [Next]_vars => (Inv /\ Bounded)'
  BY NextInv
<1>3. Inv /\ Bounded => InRange
  BY InvExact
<1> QED
  BY <1>1, <1>2, <1>3, PTL DEF Spec

\* An error that a command reports without in_doubt means that no copy of it that was
\* sent can have been applied, however often it was retried, unless it is retried over
\* connections that must be authenticated.
THEOREM ErrorsHonest ==
  ASSUME FewPools, AuthOnce
  PROVE  Spec => []HonestInDoubt
<1> DEFINE AllHonest == \A t \in Thread : Honest(th[t])
<1>1. Init => Inv /\ Bounded /\ AllHonest
  BY InitInv
<1>2. Inv /\ Bounded /\ AllHonest /\ [Next]_vars => (Inv /\ Bounded /\ AllHonest)'
  BY NextInv, NextHonest
<1>3. Inv /\ Bounded /\ AllHonest => HonestInDoubt
  <2> SUFFICES ASSUME Inv, AllHonest, NEW t \in Thread, th[t].result = "error" PROVE th[t].copies = 0
    BY DEF HonestInDoubt
  <2>1. th[t].pc \in PCs /\ Sending(th[t]) /\ Honest(th[t])
    BY Own DEF Command
  <2>2. th[t].pc = "idle"
    BY <2>1 DEF Sending, PCs
  <2> QED
    BY <2>1, <2>2 DEF Honest
<1> QED
  BY <1>1, <1>2, <1>3, PTL DEF Spec

=============================================================================
