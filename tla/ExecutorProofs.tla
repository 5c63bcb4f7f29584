--------------------------- MODULE ExecutorProofs ---------------------------
(***************************************************************************)
(* Proofs about EventExecutor, for any number of nodes and any requests    *)
(* whose submission is not refused where that races with the event loop.   *)
(***************************************************************************)
EXTENDS EventExecutor, FiniteSetTheorems, TLAPS

\* A leaf that names no prover is tried with SMT, with Zenon, and with SMT at length.
USE SMT, Zenon, SMTT(20)

\* A submission is not refused while earlier commands may be split, which changes
\* max, or use the tracker.
Unraced ==
    \A r \in Requests : "push" \in r.errors => r.splits = 0 /\ ~(r.kind = "scan" /\ r.concurrent)

-----------------------------------------------------------------------------
(* The inductive invariant.                                                 *)

WorkingOf(c) == {k \in Ids : c[k] \in Active}
IdleOf(c) == {k \in Ids : c[k] = "idle"}
Working == WorkingOf(cmd)
Idle == IdleOf(cmd)

Listener == [calls : Nat, err : BOOLEAN, stopped : BOOLEAN]

OneByOne == Kind = "scan" /\ ~Concurrent
Refusing == caller.pc \in {"release", "cancel"}

\* Where the calling thread is.
CallerInv ==
    /\ caller.pc # "ok" => caller.i <= Submits
    /\ Refusing \/ caller.pc = "error" => "push" \in SubmitErrors
    /\ caller.pc = "release" => Kind = "scan"
    /\ caller.pc \in {"submit", "release", "cancel"} => ex.live

\* The commands that no one has started.
UnstartedOf(e, pc, i) ==
    IF Kind # "batch" THEN (e.queued + 1)..e.max
    ELSE IF pc = "submit" THEN i..N
    ELSE IF pc = "cancel" THEN (i + 1)..N
    ELSE {}
Unstarted == UnstartedOf(ex, caller.pc, caller.i)

\* Those that are still to be counted, and not working, the calling thread being
\* at pc: the idle ones, until a cancellation counts them, and the refused one.
Uncounted(c, pc) ==
    IF pc = "error" THEN 0
    ELSE Cardinality(IdleOf(c)) + (IF pc \in {"release", "cancel"} THEN 1 ELSE 0)

\* What the counters mean for commands that run at once: n of those that ended
\* are still to be counted.
Counts(e, c, pc, n) ==
    /\ e.max_concurrent = e.max
    /\ Kind = "batch" => e.queued = e.max
    /\ e.max = e.count + n + Cardinality(WorkingOf(c)) + Uncounted(c, pc)

\* And for those that run one by one.
CountsOne ==
    /\ ex.max_concurrent = 1 /\ ex.valid /\ caller.pc # "error" /\ loop = "idle"
    /\ caller.pc = "ok" => ex.queued = ex.count + 1 /\ Working = {ex.queued}
    /\ caller.pc # "ok" => ex.count = 0 /\ Working = {}

\* A request that was not partly submitted has the commands it began with.
Sizes ==
    /\ ex.queued <= ex.max
    /\ Kind # "batch" => ex.max <= N
    /\ caller.pc # "ok" /\ Kind # "batch"
         => ex.max = N /\ ex.queued = IF caller.pc = "submit" THEN caller.i - 1 ELSE caller.i
    /\ Kind = "batch" => \A k \in 1..N : cmd[k] # "none"
    /\ Kind = "batch" /\ "push" \in SubmitErrors => ex.max = N

\* Until the first answer of the cluster only the first command is started.
Validation ==
    /\ \A c \in Ids : cmd[c] \in {"validating", "ending"} => Validate
    /\ cmd[1] = "validating" => ex.queued = 1 /\ ex.count = 0 /\ Working = {1} /\ caller.pc = "ok"

\* An error was handed in: it is saved, or is about to be, or nobody will be told.
Errors ==
    /\ ~ex.valid => caller.pc = "error" \/ ex.err \/ loop = "saveErr"
    /\ failed \/ listener.stopped => ~ex.valid
    /\ ex.notify => ~listener.stopped /\ caller.pc # "error"
    /\ ~ex.notify => listener.stopped \/ caller.pc = "error"

\* The executor as long as it is not freed.
LiveInv ==
    /\ Idle = Unstarted /\ Sizes /\ Validation
    /\ ~OneByOne => Counts(ex, cmd, caller.pc, 0)
    /\ OneByOne => CountsOne
    /\ tracker = IF Kind = "scan" /\ caller.pc = "cancel" THEN 1 ELSE 0
    /\ listener.calls = 0 /\ Errors

\* And once it is.
FreedInv ==
    /\ Working = {} /\ Idle = {}
    /\ tracker = IF Kind = "scan" THEN 1 ELSE 0
    /\ listener.calls = IF listener.stopped \/ caller.pc = "error" THEN 0 ELSE 1
    /\ listener.calls = 1 /\ failed => listener.err

Inv ==
    /\ TypeOK /\ CallerInv
    /\ ex.live => LiveInv
    /\ ~ex.live => FreedInv

-----------------------------------------------------------------------------
(* Requests, and sets of commands.                                          *)

\* What is known of the request.
LEMMA Shape ==
  ASSUME TypeOK
  PROVE  /\ Cap \in Nat /\ N \in Nat /\ 1 <= N /\ N <= Cap /\ 1 \in Ids
         /\ Kind \in {"batch", "scan", "query"}
         /\ Validate => Kind = "query" /\ Submits = 1
         /\ OneByOne => ~Validate /\ Submits = 1
         /\ ~OneByOne => \A n \in Nat : MaxConcurrent(n) = n
         /\ OneByOne => \A n \in Nat : MaxConcurrent(n) = 1
         /\ Submits \in Nat /\ 1 <= Submits /\ Submits <= N
         /\ ~Validate /\ ~OneByOne => Submits = N
         /\ caller.req.splits \in Nat /\ N + caller.req.splits <= Cap
         /\ caller.i \in Nat /\ caller.i >= 1
<1>1. caller.req \in Requests /\ caller.i \in 1..(Cap + 1)
  BY DEF TypeOK
<1>2. caller.req \in Request /\ Cap \in Nat /\ Cap >= 1
  BY <1>1, ExecutorAssumption
<1>3. Kind \in {"batch", "scan", "query"} /\ N \in 1..Cap /\ caller.req.splits \in 0..Cap
  BY <1>2 DEF Request, Kind, N
<1>4. (Validate => Kind = "query") /\ (~Concurrent => Kind = "scan")
  BY <1>1, ExecutorAssumption DEF Kind, Validate, Concurrent
<1>5. N + caller.req.splits <= Cap
  BY <1>1, ExecutorAssumption DEF N
<1> QED
  BY <1>1, <1>2, <1>3, <1>4, <1>5 DEF OneByOne, Submits, MaxConcurrent, Ids

\* Sets of commands are finite.
LEMMA Finite ==
  ASSUME TypeOK, NEW S \in SUBSET Ids
  PROVE  IsFiniteSet(S) /\ Cardinality(S) \in Nat /\ (Cardinality(S) = 0 <=> S = {})
<1>1. IsFiniteSet(Ids)
  BY Shape, FS_Interval DEF Ids
<1>2. IsFiniteSet(S)
  BY <1>1, FS_Subset
<1> QED
  BY <1>2, FS_CardinalityType, FS_EmptySet

\* The size of an interval of numbers.
LEMMA IntervalSize ==
  ASSUME NEW a \in Nat, NEW b \in Nat
  PROVE  Cardinality(a..b) = IF a <= b THEN b - a + 1 ELSE 0
  BY FS_Interval

\* A command that leaves a set of commands.
LEMMA OneLess ==
  ASSUME TypeOK, NEW S \in SUBSET Ids, NEW k \in S
  PROVE  Cardinality(S) = Cardinality(S \ {k}) + 1 /\ Cardinality(S \ {k}) \in Nat
<1>1. IsFiniteSet(S) /\ IsFiniteSet(S \ {k}) /\ Cardinality(S \ {k}) \in Nat
  BY Finite
<1>2. Cardinality((S \ {k}) \cup {k}) = Cardinality(S \ {k}) + 1
  BY <1>1, FS_AddElement
<1>3. (S \ {k}) \cup {k} = S
  OBVIOUS
<1> QED
  BY <1>1, <1>2, <1>3

\* A command that was working ends.
LEMMA WorkEnds ==
  ASSUME TypeOK, NEW k \in Working, NEW st \in {"done", "gone"},
         NEW c, c = [cmd EXCEPT ![k] = st]
  PROVE  /\ c \in [Ids -> CmdState]
         /\ WorkingOf(c) = Working \ {k} /\ IdleOf(c) = Idle
         /\ Cardinality(Working) = Cardinality(WorkingOf(c)) + 1
<1>1. cmd \in [Ids -> CmdState] /\ k \in Ids /\ cmd[k] \in Active
  BY DEF TypeOK, Working, WorkingOf
<1>2. c \in [Ids -> CmdState]
  BY <1>1 DEF CmdState
<1>3. WorkingOf(c) = Working \ {k} /\ IdleOf(c) = Idle
  BY <1>1 DEF Working, WorkingOf, Idle, IdleOf, Active
<1>4. Working \in SUBSET Ids
  BY DEF Working, WorkingOf
<1>5. Cardinality(Working) = Cardinality(Working \ {k}) + 1
  BY <1>4, OneLess, Zenon
<1> QED
  BY <1>2, <1>3, <1>5

-----------------------------------------------------------------------------
(* The end of an executor, or of a round.                                   *)

\* as_event_executor_destroy leaves no command behind.
LEMMA Frees ==
  ASSUME TypeOK, NEW e \in Executor, NEW c \in [Ids -> CmdState], Free(e, c),
         e.count <= e.max, WorkingOf(c) = {}, IdleOf(c) \subseteq (e.queued + 1)..e.max
  PROVE  /\ ex' \in Executor /\ ex'.count <= ex'.max /\ ~ex'.live
         /\ cmd' \in [Ids -> CmdState] /\ Working' = {} /\ Idle' = {}
<1>1. ex' = [e EXCEPT !.live = FALSE] /\ cmd' = Destroyed(c, e)
  BY DEF Free
<1>2. ex' \in Executor /\ ex'.count <= ex'.max /\ ~ex'.live
  BY <1>1 DEF Executor
<1>3. cmd' \in [Ids -> CmdState]
  BY <1>1 DEF Destroyed, CmdState
<1>4. Working' = {} /\ Idle' = {}
  BY <1>1 DEF Destroyed, Working, WorkingOf, Idle, IdleOf, Active
<1> QED
  BY <1>2, <1>3, <1>4

\* The request is the same for ever.
LEMMA SameRequest ==
  ASSUME caller'.req = caller.req
  PROVE  /\ Kind' = Kind /\ N' = N /\ Validate' = Validate /\ Concurrent' = Concurrent
         /\ SubmitErrors' = SubmitErrors /\ Submits' = Submits /\ OneByOne' = OneByOne
         /\ \A n : MaxConcurrent(n)' = MaxConcurrent(n)
  BY DEF Kind, N, Validate, Concurrent, SubmitErrors, Submits, OneByOne, MaxConcurrent

\* Another round begins with the commands NewExecutor counts.
LEMMA NewRound ==
  ASSUME TypeOK, UNCHANGED <<caller, tracker>>, Kind = "scan", caller.pc = "ok", tracker = 0,
         round < MaxRounds, round' = round + 1, failed' = FALSE, loop' = "idle",
         listener' \in Listener, listener'.calls = 0, ~listener'.stopped,
         NEW n \in 1..N, ex' = NewExecutor(n, MaxConcurrent(n)),
         cmd' = [k \in Ids |-> CASE k <= MaxConcurrent(n) -> "running"
                                 [] k \in (MaxConcurrent(n) + 1)..n -> "idle"
                                 [] OTHER -> "none"]
  PROVE  Inv'
<1> DEFINE m == MaxConcurrent(n)
<1>1. /\ n \in Nat /\ n >= 1 /\ n <= N /\ N <= Cap /\ Cap \in Nat /\ N \in Nat
      /\ m \in Nat /\ m >= 1 /\ m <= n /\ (~OneByOne => m = n) /\ (OneByOne => m = 1)
  BY Shape
<1>2. /\ Kind' = Kind /\ N' = N /\ Validate' = Validate /\ OneByOne' = OneByOne /\ Submits' = Submits
      /\ SubmitErrors' = SubmitErrors /\ MaxConcurrent(n)' = m
  BY SameRequest
<1>3. /\ ex' \in Executor /\ ex'.count = 0 /\ ex'.queued = m /\ ex'.max = n /\ ex'.max_concurrent = m
      /\ ex'.valid /\ ex'.notify /\ ex'.live
  BY <1>1 DEF NewExecutor, Executor
<1>4. cmd' \in [Ids -> CmdState] /\ \A k \in Ids : cmd'[k] = IF k <= m THEN "running" ELSE IF k <= n THEN "idle" ELSE "none"
  BY <1>1 DEF CmdState, Active, Ids
<1>5. Working' = 1..m /\ Idle' = (m + 1)..n
  BY <1>1, <1>4 DEF Working, WorkingOf, Idle, IdleOf, Active, Ids
<1>6. TypeOK'
  <2>1. round' \in 1..MaxRounds
    BY ExecutorAssumption DEF TypeOK
  <2>2. failed' \in BOOLEAN
    OBVIOUS
  <2>3. ex'.count <= ex'.max
    BY <1>1, <1>3
  <2> QED
    BY <1>3, <1>4, <2>1, <2>2, <2>3, Zenon DEF TypeOK, Listener
<1>7. CallerInv'
  BY <1>3 DEF CallerInv, Refusing
<1>8. Idle' = Unstarted' /\ Sizes' /\ Validation'
  BY <1>1, <1>2, <1>3, <1>4, <1>5 DEF Unstarted, UnstartedOf, Sizes, Validation, Ids
<1>9. ~OneByOne' => Counts(ex, cmd, caller.pc, 0)'
  <2>1. Cardinality(1..n) = n
    <3>1. 1 \in Nat
      OBVIOUS
    <3>2. Cardinality(1..n) = IF 1 <= n THEN n - 1 + 1 ELSE 0
      BY <1>1, <3>1, IntervalSize, Zenon
    <3> QED
      BY <1>1, <3>2
  <2>2. Cardinality((n + 1)..n) = 0
    <3>1. (n + 1)..n = {}
      BY <1>1
    <3> QED
      BY <3>1, FS_EmptySet
  <2> QED
    BY <1>1, <1>2, <1>3, <1>5, <2>1, <2>2 DEF Counts, Uncounted, Working, Idle
<1>10. OneByOne' => CountsOne'
  BY <1>1, <1>2, <1>3, <1>5 DEF CountsOne
<1>11. tracker' = 0 /\ listener'.calls = 0 /\ Errors'
  BY <1>3 DEF Errors
<1> QED
  BY <1>3, <1>6, <1>7, <1>8, <1>9, <1>10, <1>11 DEF Inv, LiveInv

\* complete_fn tells the user, if at all, once, and of an error that was handed in;
\* or it begins another round.
LEMMA Completes ==
  ASSUME TypeOK, NEW e \in Executor, NEW c \in [Ids -> CmdState], NEW err \in BOOLEAN,
         NEW l \in Listener, l.calls = 0,
         CompleteFn(e, c, l, err), e.count <= e.max,
         WorkingOf(c) = {}, IdleOf(c) \subseteq (e.queued + 1)..e.max,
         caller'.pc \in {"ok", "error"}, caller'.i \in 1..(Cap + 1), caller'.req = caller.req,
         caller' = [pc |-> caller'.pc, i |-> caller'.i, req |-> caller'.req],
         caller'.pc = "error" => caller'.i <= Submits /\ "push" \in SubmitErrors,
         loop' \in {"idle", "saveErr"},
         Kind = "scan" => loop' = "idle" /\ UNCHANGED caller /\ caller.pc = "ok",
         tracker = 0,
         e.notify => ~l.stopped /\ caller'.pc # "error",
         ~e.notify => l.stopped \/ caller'.pc = "error",
         e.notify /\ failed => err \/ e.error_row,
         Kind = "scan" /\ l.stopped => err
  PROVE  Inv'
<1>1. CASE Kind = "scan" /\ ~err /\ round < MaxRounds /\ round' = round + 1 /\ failed' = FALSE
           /\ listener' = l /\ UNCHANGED tracker
           /\ \E n \in 1..N :
                /\ ex' = NewExecutor(n, MaxConcurrent(n))
                /\ cmd' = [k \in Ids |-> CASE k <= MaxConcurrent(n) -> "running"
                                           [] k \in (MaxConcurrent(n) + 1)..n -> "idle"
                                           [] OTHER -> "none"]
  BY <1>1, NewRound
<1>2. ASSUME Free(e, c), NEW told \in BOOLEAN, err => told, Tell(e, l, told),
             tracker' = IF Kind = "scan" THEN 1 ELSE 0, failed' = (failed \/ err), round' = round
      PROVE  Inv'
  <2>1. /\ ex' \in Executor /\ ex'.count <= ex'.max /\ ~ex'.live
        /\ cmd' \in [Ids -> CmdState] /\ Working' = {} /\ Idle' = {}
    BY <1>2, Frees
  <2>2. /\ listener' \in Listener /\ listener'.stopped = l.stopped
        /\ listener'.calls = IF e.notify THEN 1 ELSE 0
        /\ e.notify => (listener'.err <=> told \/ e.error_row)
    <3>1. CASE e.notify
      <4> DEFINE says == told \/ e.error_row
      <4>1. listener' = [l EXCEPT !.calls = 1, !.err = says]
        BY <1>2, <3>1 DEF Tell
      <4>2. says \in BOOLEAN
        OBVIOUS
      <4> HIDE DEF says
      <4>3. /\ listener' \in Listener /\ listener'.stopped = l.stopped /\ listener'.calls = 1
            /\ listener'.err = says
        BY <4>1, <4>2, Zenon DEF Listener
      <4> QED
        BY <3>1, <4>3 DEF says
    <3>2. CASE ~e.notify
      BY <1>2, <3>2 DEF Tell
    <3> QED
      BY <3>1, <3>2
  <2>3. TypeOK'
    <3>1. caller' \in [pc : {"submit", "release", "cancel", "ok", "error"}, i : 1..(Cap + 1), req : Requests]
      BY DEF TypeOK
    <3> QED
      BY <1>2, <2>1, <2>2, <3>1 DEF TypeOK, Listener
  <2>4. CallerInv'
    BY SameRequest DEF CallerInv, Refusing
  <2>5. FreedInv'
    BY <1>2, <2>1, <2>2, SameRequest DEF FreedInv
  <2> QED
    BY <2>1, <2>3, <2>4, <2>5 DEF Inv
<1>3. CASE (Kind = "scan" => err) /\ Tell(e, l, err) /\ Free(e, c)
           /\ tracker' = (IF Kind = "scan" THEN tracker + 1 ELSE tracker)
           /\ failed' = (failed \/ err) /\ UNCHANGED round
  BY <1>2, <1>3
<1>4. CASE Kind = "scan" /\ ~err /\ (\E told \in BOOLEAN : Tell(e, l, told)) /\ Free(e, c)
           /\ tracker' = tracker + 1 /\ failed' = (failed \/ err) /\ UNCHANGED round
  BY <1>2, <1>4
<1> QED
  BY <1>1, <1>3, <1>4 DEF CompleteFn

-----------------------------------------------------------------------------
(* as_event_executor_error and as_event_executor_complete.                  *)

\* Nobody is left to count but those who were cancelled.
LEMMA AllCounted ==
  ASSUME Unraced, TypeOK, ~OneByOne, NEW e \in Executor, NEW c \in [Ids -> CmdState],
         NEW pc \in {"submit", "release", "cancel", "ok", "error"}, NEW i \in Nat,
         IdleOf(c) = UnstartedOf(e, pc, i),
         pc = "submit" => i <= Submits /\ (Kind # "batch" => e.max = N /\ e.queued = i - 1),
         pc = "error" => "push" \in SubmitErrors,
         Cardinality(WorkingOf(c)) + Uncounted(c, pc) <= 0
  PROVE  /\ WorkingOf(c) = {} /\ pc \in {"ok", "error"} /\ (Kind = "scan" => pc = "ok")
         /\ IdleOf(c) \subseteq (e.queued + 1)..e.max
<1>1. WorkingOf(c) \in SUBSET Ids /\ IdleOf(c) \in SUBSET Ids
  BY DEF WorkingOf, IdleOf
<1>2. Cardinality(WorkingOf(c)) \in Nat /\ Cardinality(IdleOf(c)) \in Nat
  BY <1>1, Finite
<1>3. Cardinality(WorkingOf(c)) = 0
  BY <1>2 DEF Uncounted
<1>4. WorkingOf(c) = {}
  BY <1>1, <1>3, Finite
<1>5. pc = "error" \/ (Cardinality(IdleOf(c)) = 0 /\ pc \notin {"release", "cancel"})
  BY <1>2 DEF Uncounted
<1>6. pc = "error" \/ (IdleOf(c) = {} /\ pc \notin {"release", "cancel"})
  BY <1>1, <1>5, Finite
<1>7. pc = "submit" => IdleOf(c) # {}
  BY Shape DEF UnstartedOf
<1>8. pc \in {"ok", "error"}
  BY <1>6, <1>7
<1>9. Kind = "scan" => pc = "ok"
  BY <1>8 DEF TypeOK, Unraced, SubmitErrors, OneByOne, Kind, Concurrent
<1>10. IdleOf(c) \subseteq (e.queued + 1)..e.max
  BY <1>8 DEF UnstartedOf
<1> QED
  BY <1>4, <1>8, <1>9, <1>10

\* An error is counted: it completes the executor, or is saved.
LEMMA ErrorAtOnce ==
  ASSUME Unraced, Inv, ex.live, ~OneByOne, loop = "idle", UNCHANGED caller,
         NEW e \in Executor, NEW c \in [Ids -> CmdState], NEW l \in Listener, l.calls = 0, NEW n \in Nat,
         ExecutorError(c, e, l, n),
         n >= 1, e.max = 1 => n = 1 /\ e.queued = 1,
         e.live, e.queued <= e.max, Counts(e, c, caller.pc, n), IdleOf(c) = Idle,
         Kind # "batch" => e.max = ex.max /\ e.queued = ex.queued,
         Kind = "batch" => \A k \in 1..N : c[k] # "none",
         Kind = "batch" /\ "push" \in SubmitErrors => e.max = N,
         \A k \in Ids : c[k] \in {"validating", "ending"} => Validate,
         c[1] # "validating",
         e.valid = ex.valid, e.err = ex.err,
         e.notify => ~l.stopped /\ caller.pc # "error",
         ~e.notify => l.stopped \/ caller.pc = "error"
  PROVE  Inv'
<1> DEFINE e1 == [e EXCEPT !.valid = FALSE, !.count = @ + (IF e.max_concurrent = 1 THEN 1 ELSE n)]
<1>1. TypeOK /\ LiveInv /\ CallerInv
  BY DEF Inv
<1>2. /\ e1 \in Executor /\ e1.count = e.count + n /\ e1.max = e.max /\ e1.queued = e.queued
      /\ e1.max_concurrent = e.max /\ ~e1.valid /\ e1.err = e.err /\ e1.notify = e.notify
      /\ e1.live /\ e1.error_row = e.error_row
  <2> DEFINE k == IF e.max_concurrent = 1 THEN 1 ELSE n
  <2>1. k = n /\ e.count + k \in Nat /\ e.count + k = e.count + n /\ e.max_concurrent = e.max
    BY DEF Executor, Counts
  <2>2. e1 = [e EXCEPT !.valid = FALSE, !.count = e.count + k]
    OBVIOUS
  <2> HIDE DEF k, e1
  <2>3. e1 \in Executor /\ e1.count = e.count + k
    BY <2>1, <2>2, Zenon DEF Executor
  <2>4. /\ e1.max = e.max /\ e1.queued = e.queued /\ e1.max_concurrent = e.max_concurrent
        /\ e1.valid = FALSE /\ e1.err = e.err /\ e1.notify = e.notify
        /\ e1.live = e.live /\ e1.error_row = e.error_row
    BY <2>2, Zenon DEF Executor
  <2> QED
    BY <2>1, <2>3, <2>4
<1>3. /\ IF IsComplete(e1) THEN CompleteFn(e1, c, l, e.valid \/ e1.err) /\ loop' = "idle"
         ELSE /\ ex' = e1 /\ cmd' = c /\ failed' = TRUE
              /\ loop' = (IF e.valid THEN "saveErr" ELSE "idle")
              /\ listener' = l /\ UNCHANGED <<tracker, round>>
  BY DEF ExecutorError
<1> HIDE DEF e1
<1>4. IsComplete(e1) <=> e1.count = e1.max
  BY <1>2 DEF IsComplete, Counts
<1>5. /\ Cardinality(WorkingOf(c)) \in Nat /\ Cardinality(IdleOf(c)) \in Nat /\ Uncounted(c, caller.pc) \in Nat
      /\ e.max \in Nat /\ e.count \in Nat /\ e.queued \in Nat
  <2>1. WorkingOf(c) \in SUBSET Ids /\ IdleOf(c) \in SUBSET Ids
    BY DEF WorkingOf, IdleOf
  <2> QED
    BY <1>1, <2>1, Finite DEF Uncounted, Executor
<1>6. ~ex.valid => caller.pc = "error" \/ ex.err
  BY <1>1 DEF LiveInv, Errors
<1>7. CASE IsComplete(e1)
  <2>1. Cardinality(WorkingOf(c)) + Uncounted(c, caller.pc) <= 0
    BY <1>2, <1>4, <1>5, <1>7 DEF Counts
  <2>2. /\ WorkingOf(c) = {} /\ caller.pc \in {"ok", "error"} /\ (Kind = "scan" => caller.pc = "ok")
        /\ IdleOf(c) \subseteq (e1.queued + 1)..e1.max
    <3>1. IdleOf(c) = UnstartedOf(e1, caller.pc, caller.i)
      BY <1>1, <1>2 DEF LiveInv, Unstarted, UnstartedOf
    <3>2. caller.pc = "submit" => caller.i <= Submits /\ (Kind # "batch" => e1.max = N /\ e1.queued = caller.i - 1)
      BY <1>1, <1>2 DEF CallerInv, LiveInv, Sizes
    <3>3. caller.pc = "error" => "push" \in SubmitErrors
      BY <1>1 DEF CallerInv
    <3>4. caller.pc \in {"submit", "release", "cancel", "ok", "error"} /\ caller.i \in Nat
      BY <1>1, Shape DEF TypeOK
    <3> QED
      BY <1>1, <1>2, <2>1, <3>1, <3>2, <3>3, <3>4, AllCounted
  <2>9. tracker = 0 /\ (caller.pc = "error" => caller.i <= Submits /\ "push" \in SubmitErrors)
    BY <1>1, <2>2 DEF LiveInv, CallerInv
  <2> DEFINE err == e.valid \/ e1.err
  <2>3. err \in BOOLEAN /\ (caller.pc = "error" \/ err)
    BY <1>2, <1>6
  <2>4. CompleteFn(e1, c, l, err) /\ loop' = "idle"
    BY <1>3, <1>7
  <2> HIDE DEF err
  <2>6. caller' = [pc |-> caller'.pc, i |-> caller'.i, req |-> caller'.req] /\ caller'.i \in 1..(Cap + 1)
    BY <1>1 DEF TypeOK
  <2>7. e1.count <= e1.max
    BY <1>2, <1>4, <1>5, <1>7
  <2>8. (e1.notify => ~l.stopped /\ caller'.pc # "error") /\ (~e1.notify => l.stopped \/ caller'.pc = "error")
    BY <1>2
  <2> QED
    BY <1>1, <1>2, <2>2, <2>3, <2>4, <2>6, <2>7, <2>8, <2>9, Completes
<1>8. CASE ~IsComplete(e1)
  <2>1. ex' = e1 /\ cmd' = c /\ failed' = TRUE /\ listener' = l /\ UNCHANGED <<tracker, round>>
    BY <1>3, <1>8
  <2>2. loop' = IF e.valid THEN "saveErr" ELSE "idle"
    BY <1>3, <1>8
  <2>3. ex'.count <= ex'.max
    BY <1>2, <1>5, <2>1 DEF Counts
  <2>4. TypeOK'
    BY <1>1, <1>2, <2>1, <2>2, <2>3, Zenon DEF TypeOK, Listener
  <2>5. /\ Kind' = Kind /\ N' = N /\ Validate' = Validate /\ OneByOne' = OneByOne /\ Submits' = Submits
        /\ SubmitErrors' = SubmitErrors
    BY SameRequest
  <2>6. CallerInv'
    BY <1>1, <1>2, <2>1, <2>5 DEF CallerInv, Refusing
  <2>7. Idle' = Unstarted'
    BY <1>1, <1>2, <2>1, <2>5 DEF LiveInv, Idle, Unstarted, UnstartedOf
  <2>8. Sizes' /\ Validation'
    BY <1>1, <1>2, <2>1, <2>5 DEF LiveInv, Sizes, Validation
  <2>9. Counts(ex, cmd, caller.pc, 0)'
    BY <1>2, <1>5, <2>1, <2>5 DEF Counts, Uncounted
  <2>10. Errors'
    BY <1>2, <1>6, <2>1, <2>2 DEF Errors
  <2>11. tracker' = (IF Kind' = "scan" /\ caller'.pc = "cancel" THEN 1 ELSE 0) /\ listener'.calls = 0
    BY <1>1, <2>1, <2>5 DEF LiveInv
  <2> QED
    BY <1>2, <2>1, <2>4, <2>5, <2>6, <2>7, <2>8, <2>9, <2>10, <2>11 DEF Inv, LiveInv
<1> QED
  BY <1>7, <1>8

\* A command that ran at once with others completed.
LEMMA CompleteAtOnce ==
  ASSUME Unraced, Inv, ex.live, ~OneByOne, UNCHANGED loop,
         NEW e \in Executor, NEW c \in [Ids -> CmdState], ExecutorComplete(c, e),
         e.max = ex.max, e.queued = ex.queued, e.valid = ex.valid, e.err = ex.err,
         e.notify = ex.notify, e.live, e.error_row \/ loop = "idle",
         caller' \in [pc : {"submit", "release", "cancel", "ok", "error"}, i : 1..(Cap + 1), req : Requests],
         caller'.req = caller.req, Kind = "batch" \/ (UNCHANGED caller /\ loop = "idle"),
         caller'.pc = "error" <=> caller.pc = "error", caller'.pc # "ok" => caller'.i <= Submits,
         caller'.pc \in {"cancel", "error"} => caller'.pc = caller.pc, caller'.pc = "release" => UNCHANGED caller,
         Counts(e, c, caller'.pc, 1), IdleOf(c) = UnstartedOf(e, caller'.pc, caller'.i),
         \A k \in Ids : c[k] \in {"validating", "ending"} => Validate,
         c[1] # "validating",
         Kind = "batch" => \A k \in 1..N : c[k] # "none"
  PROVE  Inv'
<1> DEFINE e1 == [e EXCEPT !.count = @ + 1]
<1>1. TypeOK /\ LiveInv /\ CallerInv
  BY DEF Inv
<1>2. e.count + 1 \in Nat /\ e.max \in Nat /\ e.queued \in Nat /\ e.count \in Nat /\ e.max_concurrent = e.max
  BY DEF Executor, Counts
<1>3. /\ e1 \in Executor /\ e1.count = e.count + 1 /\ e1.max = e.max /\ e1.queued = e.queued
      /\ e1.max_concurrent = e.max_concurrent
  BY <1>2, Zenon DEF Executor
<1>4. /\ e1.valid = e.valid /\ e1.err = e.err /\ e1.notify = e.notify /\ e1.live = e.live
      /\ e1.error_row = e.error_row
  BY Zenon DEF Executor
<1>5. IF e1.count = e1.max THEN CompleteFn(e1, c, listener, e1.err)
      ELSE /\ IF e1.count + e1.max_concurrent <= e1.max /\ e1.valid
              THEN /\ ex' = [e1 EXCEPT !.queued = @ + 1]
                   /\ cmd' = [c EXCEPT ![e1.count + e1.max_concurrent] = "running"]
              ELSE ex' = e1 /\ cmd' = c
           /\ UNCHANGED <<listener, tracker, round, failed>>
  BY DEF ExecutorComplete
<1> HIDE DEF e1
<1>6. caller'.pc \in {"submit", "release", "cancel", "ok", "error"} /\ caller'.i \in Nat
  BY <1>1, Shape
<1>7. /\ Cardinality(WorkingOf(c)) \in Nat /\ Cardinality(IdleOf(c)) \in Nat /\ Uncounted(c, caller'.pc) \in Nat
  <2>1. WorkingOf(c) \in SUBSET Ids /\ IdleOf(c) \in SUBSET Ids
    BY DEF WorkingOf, IdleOf
  <2> QED
    BY <1>1, <2>1, Finite DEF Uncounted
<1>8. e1.count <= e1.max
  BY <1>2, <1>3, <1>7 DEF Counts
<1>9. listener \in Listener /\ listener.calls = 0
  BY <1>1 DEF TypeOK, Listener, LiveInv
<1>10. /\ Kind' = Kind /\ N' = N /\ Validate' = Validate /\ OneByOne' = OneByOne /\ Submits' = Submits
       /\ SubmitErrors' = SubmitErrors
  BY SameRequest
<1>11. CASE e1.count = e1.max
  <2>1. Cardinality(WorkingOf(c)) + Uncounted(c, caller'.pc) <= 0
    BY <1>2, <1>3, <1>7, <1>11 DEF Counts
  <2>2. /\ WorkingOf(c) = {} /\ caller'.pc \in {"ok", "error"} /\ (Kind = "scan" => caller'.pc = "ok")
        /\ IdleOf(c) \subseteq (e1.queued + 1)..e1.max
    <3>1. IdleOf(c) = UnstartedOf(e1, caller'.pc, caller'.i)
      BY <1>3 DEF UnstartedOf
    <3>2. caller'.pc = "submit" => caller'.i <= Submits /\ (Kind # "batch" => e1.max = N /\ e1.queued = caller'.i - 1)
      BY <1>1, <1>3 DEF LiveInv, Sizes
    <3>3. caller'.pc = "error" => "push" \in SubmitErrors
      BY <1>1 DEF CallerInv
    <3> QED
      BY <1>1, <1>3, <1>6, <2>1, <3>1, <3>2, <3>3, AllCounted
  <2>3. e1.err \in BOOLEAN /\ CompleteFn(e1, c, listener, e1.err)
    BY <1>3, <1>5, <1>11 DEF Executor
  <2>4. Kind = "scan" => loop' = "idle" /\ UNCHANGED caller /\ caller.pc = "ok"
    BY <2>2
  <2>5. tracker = 0
    BY <1>1, <2>2, <2>4 DEF LiveInv
  <2>6. (e1.notify => ~listener.stopped /\ caller'.pc # "error") /\ (~e1.notify => listener.stopped \/ caller'.pc = "error")
    BY <1>1, <1>4 DEF LiveInv, Errors
  <2>7. e1.notify /\ failed => e1.err \/ e1.error_row
    BY <1>1, <1>4, <2>6 DEF LiveInv, Errors
  <2>8. Kind = "scan" /\ listener.stopped => e1.err
    BY <1>1, <1>4, <2>4 DEF LiveInv, Errors
  <2>9. caller'.pc = "error" => caller'.i <= Submits /\ "push" \in SubmitErrors
    BY <1>1 DEF CallerInv
  <2>10. caller' = [pc |-> caller'.pc, i |-> caller'.i, req |-> caller'.req] /\ caller'.i \in 1..(Cap + 1)
    OBVIOUS
  <2>11. loop' \in {"idle", "saveErr"}
    BY <1>1 DEF TypeOK
  <2> QED
    BY <1>1, <1>3, <1>8, <1>9, <2>2, <2>3, <2>4, <2>5, <2>6, <2>7, <2>8, <2>9, <2>10, <2>11, Completes
<1>12. CASE e1.count # e1.max
  <2>1. ex' = e1 /\ cmd' = c /\ UNCHANGED <<listener, tracker, round, failed>>
    BY <1>2, <1>3, <1>5, <1>12
  <2>2. TypeOK'
    BY <1>1, <1>3, <1>8, <2>1 DEF TypeOK
  <2>3. CallerInv'
    BY <1>1, <1>4, <1>10, <2>1 DEF CallerInv, Refusing
  <2>4. Idle' = Unstarted'
    BY <1>3, <1>10, <2>1 DEF Idle, Unstarted, UnstartedOf
  <2>5. Sizes'
    BY <1>1, <1>3, <1>10, <2>1 DEF LiveInv, Sizes
  <2>6. Validation'
    BY <1>10, <2>1 DEF Validation
  <2>7. Counts(ex, cmd, caller.pc, 0)'
    BY <1>2, <1>3, <1>7, <1>10, <2>1 DEF Counts, Uncounted
  <2>8. Errors'
    BY <1>1, <1>4, <2>1 DEF LiveInv, Errors
  <2>9. tracker' = IF Kind' = "scan" /\ caller'.pc = "cancel" THEN 1 ELSE 0
    BY <1>1, <1>10, <2>1 DEF LiveInv
  <2> QED
    BY <1>4, <1>9, <1>10, <2>1, <2>2, <2>3, <2>4, <2>5, <2>6, <2>7, <2>8, <2>9 DEF Inv, LiveInv
<1> QED
  BY <1>11, <1>12

\* Running one by one, a command that completes starts the next.
LEMMA CompleteOne ==
  ASSUME Inv, ex.live, OneByOne, UNCHANGED <<caller, loop>>, NEW k \in Working,
         ExecutorComplete([cmd EXCEPT ![k] = "done"], ex)
  PROVE  Inv'
<1> DEFINE e1 == [ex EXCEPT !.count = @ + 1]
           c == [cmd EXCEPT ![k] = "done"]
           next == e1.count + e1.max_concurrent
<1>1. TypeOK /\ LiveInv /\ CallerInv /\ CountsOne
  BY DEF Inv, LiveInv
<1>2. /\ caller.pc = "ok" /\ k = ex.queued /\ ex.queued = ex.count + 1 /\ ex.max_concurrent = 1 /\ ex.valid
      /\ loop = "idle" /\ ex.queued <= ex.max /\ Working = {k}
      /\ ex.count \in Nat /\ ex.max \in Nat /\ ex.queued \in Nat
  BY <1>1 DEF LiveInv, CountsOne, Sizes, TypeOK, Executor
<1>3. /\ e1 \in Executor /\ e1.count = ex.count + 1 /\ e1.max = ex.max /\ e1.queued = ex.queued
      /\ e1.max_concurrent = ex.max_concurrent
  BY <1>1, <1>2, Zenon DEF Executor, TypeOK
<1>4. /\ e1.valid = ex.valid /\ e1.err = ex.err /\ e1.notify = ex.notify /\ e1.live = ex.live
      /\ e1.error_row = ex.error_row
  BY <1>1, Zenon DEF Executor, TypeOK
<1>5. IF e1.count = e1.max THEN CompleteFn(e1, c, listener, e1.err)
      ELSE /\ IF next <= e1.max /\ e1.valid
              THEN /\ ex' = [e1 EXCEPT !.queued = @ + 1]
                   /\ cmd' = [c EXCEPT ![next] = "running"]
              ELSE ex' = e1 /\ cmd' = c
           /\ UNCHANGED <<listener, tracker, round, failed>>
  BY DEF ExecutorComplete
<1>6. c \in [Ids -> CmdState] /\ WorkingOf(c) = {} /\ IdleOf(c) = Idle
  BY <1>1, <1>2, WorkEnds
<1>7. Idle = (ex.queued + 1)..ex.max
  BY <1>1 DEF LiveInv, Unstarted, UnstartedOf, OneByOne
<1>8. next = ex.queued + 1
  BY <1>2, <1>3
<1> HIDE DEF e1, c, next
<1>9. listener \in Listener /\ listener.calls = 0 /\ tracker = 0 /\ Kind = "scan"
  BY <1>1, <1>2 DEF TypeOK, Listener, LiveInv, OneByOne
<1>10. ~failed /\ ~listener.stopped /\ ex.notify
  BY <1>1, <1>2 DEF LiveInv, Errors
<1>11. CASE e1.count = e1.max
  <2>1. e1.err \in BOOLEAN /\ CompleteFn(e1, c, listener, e1.err) /\ e1.count <= e1.max
    BY <1>2, <1>3, <1>5, <1>11 DEF Executor
  <2>2. IdleOf(c) \subseteq (e1.queued + 1)..e1.max
    BY <1>3, <1>6, <1>7
  <2>3. caller' = [pc |-> caller'.pc, i |-> caller'.i, req |-> caller'.req] /\ caller'.i \in 1..(Cap + 1)
    BY <1>1 DEF TypeOK
  <2> QED
    BY <1>1, <1>2, <1>3, <1>4, <1>6, <1>9, <1>10, <2>1, <2>2, <2>3, Completes
<1>12. CASE e1.count # e1.max
  <2>1. /\ ex' = [e1 EXCEPT !.queued = @ + 1] /\ cmd' = [c EXCEPT ![next] = "running"]
        /\ UNCHANGED <<listener, tracker, round, failed>>
    BY <1>2, <1>3, <1>4, <1>5, <1>8, <1>12
  <2>2. /\ ex' \in Executor /\ ex'.count = ex.count + 1 /\ ex'.max = ex.max /\ ex'.queued = ex.queued + 1
        /\ ex'.max_concurrent = 1 /\ ex'.count <= ex'.max
    <3>1. e1.queued + 1 \in Nat /\ e1.queued + 1 = ex.queued + 1
      BY <1>2, <1>3
    <3>2. /\ ex' \in Executor /\ ex'.count = e1.count /\ ex'.max = e1.max /\ ex'.queued = e1.queued + 1
          /\ ex'.max_concurrent = e1.max_concurrent
      BY <1>3, <2>1, <3>1, Zenon DEF Executor
    <3> QED
      BY <1>2, <1>3, <3>1, <3>2
  <2>3. ex'.valid = ex.valid /\ ex'.err = ex.err /\ ex'.notify = ex.notify /\ ex'.live = ex.live
    BY <1>3, <1>4, <2>1, Zenon DEF Executor
  <2>4. next \in Ids /\ next <= ex.max
    BY <1>1, <1>2, <1>3, <1>8, <1>9, <1>12, Shape DEF LiveInv, Sizes, Ids
  <2>5. cmd' \in [Ids -> CmdState]
    BY <1>6, <2>1, <2>4 DEF CmdState, Active
  <2>6. Working' = {next}
    BY <1>6, <2>1, <2>4 DEF Working, WorkingOf, Active
  <2>7. Idle' = Idle \ {next}
    BY <1>6, <2>1, <2>4 DEF Idle, IdleOf
  <2>8. Idle' = (ex'.queued + 1)..ex'.max
    BY <1>2, <1>7, <1>8, <2>2, <2>7
  <2>9. TypeOK'
    BY <1>1, <2>1, <2>2, <2>5 DEF TypeOK
  <2>10. CallerInv'
    BY <1>1, <1>2, <2>3, SameRequest DEF CallerInv, Refusing
  <2>11. Idle' = Unstarted' /\ Sizes'
    BY <1>1, <1>2, <1>8, <1>9, <2>2, <2>4, <2>8, SameRequest DEF Unstarted, UnstartedOf, LiveInv, Sizes
  <2>12. Validation'
    <3>1. ~Validate
      BY <1>1, Shape
    <3>2. \A j \in Ids : cmd'[j] \notin {"validating", "ending"}
      BY <1>6, <2>1, <2>5, <2>6, <2>4 DEF Working, WorkingOf, Active
    <3> QED
      BY <1>1, <3>2, Shape DEF Validation
  <2>13. CountsOne'
    BY <1>2, <1>8, <2>2, <2>3, <2>6 DEF CountsOne
  <2>14. Errors'
    BY <1>1, <2>1, <2>3 DEF LiveInv, Errors
  <2> QED
    BY <1>2, <1>9, <2>1, <2>3, <2>9, <2>10, <2>11, <2>12, <2>13, <2>14, SameRequest DEF Inv, LiveInv
<1> QED
  BY <1>11, <1>12

\* Running one by one, an error is the end of the round.
LEMMA ErrorOne ==
  ASSUME Inv, ex.live, OneByOne, UNCHANGED caller, NEW k \in Working,
         NEW e \in Executor, NEW l \in Listener, l.calls = 0,
         ExecutorError([cmd EXCEPT ![k] = "done"], e, l, 1),
         e.count = ex.count, e.max = ex.max, e.queued = ex.queued, e.max_concurrent = ex.max_concurrent,
         e.valid = ex.valid, e.notify <=> ~l.stopped
  PROVE  Inv'
<1> DEFINE e1 == [e EXCEPT !.valid = FALSE, !.count = @ + (IF e.max_concurrent = 1 THEN 1 ELSE 1)]
           c == [cmd EXCEPT ![k] = "done"]
           err == e.valid \/ e1.err
<1>1. TypeOK /\ LiveInv /\ CallerInv /\ CountsOne
  BY DEF Inv, LiveInv
<1>2. /\ caller.pc = "ok" /\ ex.queued = ex.count + 1 /\ ex.max_concurrent = 1 /\ ex.valid
      /\ loop = "idle" /\ ex.queued <= ex.max /\ Working = {k}
      /\ ex.count \in Nat /\ ex.max \in Nat /\ ex.queued \in Nat
  BY <1>1 DEF LiveInv, CountsOne, Sizes, TypeOK, Executor
<1>3. /\ e1 \in Executor /\ e1.count = e.count + 1 /\ e1.max = e.max /\ e1.queued = e.queued
      /\ e1.max_concurrent = e.max_concurrent /\ e1.notify = e.notify
  <2>1. e1 = [e EXCEPT !.valid = FALSE, !.count = e.count + 1] /\ e.count + 1 \in Nat
    BY <1>2
  <2> HIDE DEF e1
  <2> QED
    BY <2>1, Zenon DEF Executor
<1>4. IsComplete(e1) => CompleteFn(e1, c, l, err) /\ loop' = "idle"
  BY DEF ExecutorError
<1>5. c \in [Ids -> CmdState] /\ WorkingOf(c) = {} /\ IdleOf(c) = Idle
  BY <1>1, <1>2, WorkEnds
<1>6. Idle = (ex.queued + 1)..ex.max
  BY <1>1 DEF LiveInv, Unstarted, UnstartedOf, OneByOne
<1>7. err = TRUE
  BY <1>2
<1> HIDE DEF e1, c, err
<1>8. IsComplete(e1) /\ e1.count <= e1.max
  BY <1>2, <1>3 DEF IsComplete
<1>9. tracker = 0 /\ Kind = "scan"
  BY <1>1, <1>2 DEF LiveInv, OneByOne
<1>10. IdleOf(c) \subseteq (e1.queued + 1)..e1.max
  BY <1>3, <1>5, <1>6
<1>11. caller' = [pc |-> caller'.pc, i |-> caller'.i, req |-> caller'.req] /\ caller'.i \in 1..(Cap + 1)
  BY <1>1 DEF TypeOK
<1> QED
  BY <1>1, <1>2, <1>3, <1>4, <1>5, <1>7, <1>8, <1>9, <1>10, <1>11, Completes

-----------------------------------------------------------------------------
(* The event loop thread.                                                   *)

\* A command at work keeps its executor alive.
LEMMA LiveWhenWorking ==
  ASSUME Inv, NEW k \in Working
  PROVE  TypeOK /\ CallerInv /\ LiveInv /\ ex.live /\ k \in Ids /\ cmd[1] \in CmdState
         /\ (cmd[1] = "validating" => k = 1)
<1>1. TypeOK /\ CallerInv /\ LiveInv /\ ex.live
  BY DEF Inv, FreedInv
<1> QED
  BY <1>1, Shape DEF LiveInv, Validation, Working, WorkingOf, TypeOK

\* What is left when it ends.
LEMMA Ended ==
  ASSUME Inv, ~OneByOne, NEW k \in Working, NEW e \in Executor,
         NEW c, c = [cmd EXCEPT ![k] = "done"],
         e.count = ex.count, e.max = ex.max, e.queued = ex.queued, e.max_concurrent = ex.max_concurrent
  PROVE  /\ c \in [Ids -> CmdState] /\ Counts(e, c, caller.pc, 1)
         /\ IdleOf(c) = Idle /\ Idle = UnstartedOf(e, caller.pc, caller.i)
         /\ \A j \in Ids : c[j] \in {"validating", "ending"} => Validate
         /\ c[1] # "validating" /\ (e.max = 1 => e.queued = 1)
         /\ Kind = "batch" => \A j \in 1..N : c[j] # "none"
<1>1. /\ TypeOK /\ CallerInv /\ LiveInv /\ k \in Ids /\ cmd[1] \in CmdState /\ (cmd[1] = "validating" => k = 1)
      /\ cmd \in [Ids -> CmdState] /\ 1 \in Ids
  BY LiveWhenWorking, Shape DEF TypeOK
<1>2. /\ c \in [Ids -> CmdState] /\ WorkingOf(c) = Working \ {k} /\ IdleOf(c) = Idle
      /\ Cardinality(Working) = Cardinality(WorkingOf(c)) + 1
  BY <1>1, WorkEnds
<1>3. Cardinality(WorkingOf(c)) \in Nat /\ Cardinality(Idle) \in Nat
  <2>1. WorkingOf(c) \in SUBSET Ids /\ Idle \in SUBSET Ids
    BY DEF WorkingOf, IdleOf, Idle
  <2> QED
    BY <1>1, <2>1, Finite
<1>4. e.count \in Nat /\ e.max \in Nat /\ e.queued \in Nat
  BY DEF Executor
<1>5. Counts(e, c, caller.pc, 1)
  <2>1. Counts(ex, cmd, caller.pc, 0)
    BY <1>1 DEF LiveInv
  <2>2. Uncounted(c, caller.pc) = Uncounted(cmd, caller.pc) /\ Uncounted(cmd, caller.pc) \in Nat
    BY <1>2, <1>3 DEF Uncounted, Idle
  <2> DEFINE w == Cardinality(WorkingOf(c))
             u == Uncounted(c, caller.pc)
  <2>3. w \in Nat /\ u \in Nat /\ Cardinality(Working) = w + 1 /\ u = Uncounted(cmd, caller.pc)
    BY <1>2, <1>3, <2>2
  <2>4. e.max_concurrent = e.max /\ (Kind = "batch" => e.queued = e.max) /\ e.max = e.count + 0 + Cardinality(Working) + u
    BY <2>1, <2>2 DEF Counts, Working
  <2> HIDE DEF w, u
  <2>5. e.max = e.count + 1 + w + u
    BY <1>4, <2>3, <2>4
  <2> QED
    BY <2>4, <2>5 DEF Counts, w, u
<1>6. Idle = UnstartedOf(e, caller.pc, caller.i)
  BY <1>1 DEF LiveInv, Unstarted, UnstartedOf
<1>7. \A j \in Ids : c[j] \in {"validating", "ending"} => Validate
  BY <1>1, <1>2 DEF LiveInv, Validation
<1>8. c[1] # "validating"
  BY <1>1
<1>9. ASSUME e.max = 1 PROVE e.queued = 1
  <2>1. CASE Kind = "batch"
    BY <1>5, <1>9, <2>1 DEF Counts
  <2>2. CASE Kind # "batch" /\ caller.pc = "error"
    BY <1>1, <1>4, <1>9, <2>2, Shape DEF LiveInv, Sizes
  <2>3. CASE Kind # "batch" /\ caller.pc # "error"
    <3>1. Cardinality(Idle) = 0
      BY <1>2, <1>3, <1>4, <1>5, <1>9, <2>3 DEF Counts, Uncounted
    <3>2. Idle \in SUBSET Ids
      BY DEF Idle, IdleOf
    <3>3. Idle = {}
      BY <1>1, <3>1, <3>2, Finite
    <3>4. (e.queued + 1)..1 = {} /\ e.queued <= 1
      BY <1>1, <1>6, <1>9, <2>3, <3>3 DEF UnstartedOf, LiveInv, Sizes
    <3> QED
      BY <1>4, <3>4
  <2> QED
    BY <2>1, <2>2, <2>3
<1>10. Kind = "batch" => \A j \in 1..N : c[j] # "none"
  BY <1>1, Shape DEF LiveInv, Sizes, Ids
<1> QED
  BY <1>2, <1>5, <1>6, <1>7, <1>8, <1>9, <1>10

\* A command that is counted as complete keeps the invariant.
LEMMA Ends ==
  ASSUME Unraced, Inv, loop = "idle", UNCHANGED <<caller, loop>>, NEW k \in Working,
         ExecutorComplete([cmd EXCEPT ![k] = "done"], ex)
  PROVE  Inv'
<1>1. TypeOK /\ CallerInv /\ LiveInv /\ ex.live
  BY LiveWhenWorking
<1>2. CASE OneByOne
  BY <1>1, <1>2, CompleteOne
<1>3. CASE ~OneByOne
  <2> DEFINE c == [cmd EXCEPT ![k] = "done"]
  <2>1. ex \in Executor
    BY <1>1 DEF TypeOK
  <2>2. /\ c \in [Ids -> CmdState] /\ Counts(ex, c, caller.pc, 1)
        /\ IdleOf(c) = Idle /\ Idle = UnstartedOf(ex, caller.pc, caller.i)
        /\ \A j \in Ids : c[j] \in {"validating", "ending"} => Validate
        /\ c[1] # "validating"
        /\ Kind = "batch" => \A j \in 1..N : c[j] # "none"
    BY <1>3, <2>1, Ended
  <2>3. ExecutorComplete(c, ex)
    OBVIOUS
  <2> HIDE DEF c
  <2>4. /\ caller' \in [pc : {"submit", "release", "cancel", "ok", "error"}, i : 1..(Cap + 1), req : Requests]
        /\ caller'.req = caller.req
    BY <1>1 DEF TypeOK
  <2>5. caller'.pc # "ok" => caller'.i <= Submits
    BY <1>1 DEF CallerInv
  <2> QED
    BY <1>1, <1>3, <2>1, <2>2, <2>3, <2>4, <2>5, CompleteAtOnce
<1> QED
  BY <1>2, <1>3

\* A command that hands in an error keeps the invariant, whether it is the last one or not.
LEMMA Fails ==
  ASSUME Unraced, Inv, loop = "idle", UNCHANGED caller, NEW k \in Working,
         NEW e \in Executor, NEW l \in Listener, l.calls = 0,
         ExecutorError([cmd EXCEPT ![k] = "done"], e, l, 1),
         e.count = ex.count, e.max = ex.max, e.queued = ex.queued, e.max_concurrent = ex.max_concurrent,
         e.valid = ex.valid, e.err = ex.err, e.live,
         e.notify => ~l.stopped /\ caller.pc # "error",
         ~e.notify => l.stopped \/ caller.pc = "error"
  PROVE  Inv'
<1>1. TypeOK /\ CallerInv /\ LiveInv /\ ex.live
  BY LiveWhenWorking
<1>2. CASE OneByOne
  <2>1. caller.pc # "error"
    BY <1>1, <1>2 DEF LiveInv, CountsOne
  <2>2. e.notify <=> ~l.stopped
    BY <2>1
  <2> QED
    BY <1>1, <1>2, <2>2, ErrorOne
<1>3. CASE ~OneByOne
  <2> DEFINE c == [cmd EXCEPT ![k] = "done"]
  <2>1. /\ c \in [Ids -> CmdState] /\ Counts(e, c, caller.pc, 1)
        /\ IdleOf(c) = Idle
        /\ \A j \in Ids : c[j] \in {"validating", "ending"} => Validate
        /\ c[1] # "validating" /\ (e.max = 1 => e.queued = 1)
        /\ Kind = "batch" => \A j \in 1..N : c[j] # "none"
    BY <1>3, Ended
  <2>2. ExecutorError(c, e, l, 1)
    OBVIOUS
  <2> HIDE DEF c
  <2>3. e.queued <= e.max /\ (Kind = "batch" /\ "push" \in SubmitErrors => e.max = N)
    BY <1>1 DEF LiveInv, Sizes
  <2> QED
    BY <1>1, <1>3, <2>1, <2>2, <2>3, ErrorAtOnce
<1> QED
  BY <1>2, <1>3

\* A command moves on, and goes on working.
LEMMA MovesOn ==
  ASSUME Inv, loop' = loop, UNCHANGED <<ex, caller, listener, tracker, round, failed>>, NEW k \in Working,
         NEW st \in {"running", "ending"}, st = "ending" => Validate,
         cmd' = [cmd EXCEPT ![k] = st]
  PROVE  Inv'
<1>1. TypeOK /\ CallerInv /\ LiveInv /\ ex.live /\ k \in Ids /\ (cmd[1] = "validating" => k = 1)
  BY LiveWhenWorking
<1>2. cmd' \in [Ids -> CmdState] /\ cmd \in [Ids -> CmdState]
  BY <1>1 DEF TypeOK, CmdState, Active
<1>3. Working' = Working /\ Idle' = Idle
  BY <1>1, <1>2 DEF Working, WorkingOf, Idle, IdleOf, Active
<1>4. TypeOK' /\ CallerInv'
  BY <1>1, <1>2, SameRequest DEF TypeOK, CallerInv, Refusing
<1>5. Idle' = Unstarted' /\ Sizes'
  BY <1>1, <1>2, <1>3, Shape, SameRequest DEF LiveInv, Unstarted, UnstartedOf, Sizes, Ids
<1>6. Validation'
  BY <1>1, <1>2, <1>3, Shape, SameRequest DEF LiveInv, Validation
<1>7. ~OneByOne' => Counts(ex, cmd, caller.pc, 0)'
  BY <1>1, <1>3, SameRequest DEF LiveInv, Counts, Uncounted, Working, Idle
<1>8. OneByOne' => CountsOne'
  BY <1>1, <1>3, SameRequest DEF LiveInv, CountsOne
<1>9. Errors' /\ listener'.calls = 0 /\ tracker' = IF Kind' = "scan" /\ caller'.pc = "cancel" THEN 1 ELSE 0
  BY <1>1, SameRequest DEF LiveInv, Errors
<1> QED
  BY <1>1, <1>4, <1>5, <1>6, <1>7, <1>8, <1>9 DEF Inv, LiveInv

\* A command completes (as_event_executor_complete).
LEMMA CommandCompletesInv ==
  ASSUME Unraced, Inv, NEW c \in Ids, CommandCompletes(c)
  PROVE  Inv'
<1>1. c \in Working
  BY DEF CommandCompletes, Working, WorkingOf, Active
<1>2. CASE Validate
  BY <1>1, <1>2, MovesOn DEF CommandCompletes
<1>3. CASE ~Validate
  BY <1>1, <1>3, Ends DEF CommandCompletes
<1> QED
  BY <1>2, <1>3

\* A command fails (as_event_executor_error).
LEMMA CommandFailsInv ==
  ASSUME Unraced, Inv, NEW c \in Ids, CommandFails(c)
  PROVE  Inv'
<1> DEFINE row == (Kind = "batch")
           e == [ex EXCEPT !.error_row = row]
<1>1. c \in Working /\ loop = "idle"
  BY DEF CommandFails, Working, WorkingOf, Active
<1>2. TypeOK /\ CallerInv /\ LiveInv /\ ex.live
  BY <1>1, LiveWhenWorking
<1>3. row \in BOOLEAN /\ ExecutorError([cmd EXCEPT ![c] = "done"], e, listener, 1)
  BY DEF CommandFails
<1> HIDE DEF row
<1>4. /\ e \in Executor
      /\ e.count = ex.count /\ e.max = ex.max /\ e.queued = ex.queued /\ e.max_concurrent = ex.max_concurrent
      /\ e.valid = ex.valid /\ e.err = ex.err /\ e.live = ex.live /\ e.notify = ex.notify
  BY <1>2, <1>3, Zenon DEF TypeOK, Executor
<1> HIDE DEF e
<1>5. listener \in Listener /\ listener.calls = 0
  BY <1>2 DEF TypeOK, Listener, LiveInv
<1>6. (e.notify => ~listener.stopped /\ caller.pc # "error") /\ (~e.notify => listener.stopped \/ caller.pc = "error")
  BY <1>2, <1>4 DEF LiveInv, Errors
<1>7. UNCHANGED caller
  BY DEF CommandFails
<1> QED
  BY <1>1, <1>2, <1>3, <1>4, <1>5, <1>6, <1>7, Fails

\* The listener stops the request while a command reads its answer.
LEMMA UserAbortsInv ==
  ASSUME Unraced, Inv, NEW c \in Ids, UserAborts(c)
  PROVE  Inv'
<1> DEFINE l == [listener EXCEPT !.stopped = TRUE]
           e == [ex EXCEPT !.notify = FALSE]
<1>1. c \in Working /\ loop = "idle"
  BY DEF UserAborts, Working, WorkingOf, Active
<1>2. TypeOK /\ CallerInv /\ LiveInv /\ ex.live
  BY <1>1, LiveWhenWorking
<1>3. UNCHANGED caller /\ ExecutorError([cmd EXCEPT ![c] = "done"], e, l, 1)
  BY DEF UserAborts, Stopped
<1>4. /\ e \in Executor
      /\ e.count = ex.count /\ e.max = ex.max /\ e.queued = ex.queued /\ e.max_concurrent = ex.max_concurrent
      /\ e.valid = ex.valid /\ e.err = ex.err /\ e.live = ex.live /\ e.notify = FALSE
  BY <1>2, Zenon DEF TypeOK, Executor
<1>5. l \in Listener /\ l.calls = listener.calls /\ l.stopped = TRUE
  BY <1>2, Zenon DEF TypeOK, Listener
<1>6. l.calls = 0
  BY <1>2, <1>5 DEF LiveInv
<1> HIDE DEF e, l
<1> QED
  BY <1>1, <1>2, <1>3, <1>4, <1>5, <1>6, Fails

\* as_batch_retry_async: the new commands are counted as they are made.
LEMMA BatchSplitsInv ==
  ASSUME Unraced, Inv, NEW c \in Ids, BatchSplits(c)
  PROVE  Inv'
<1>1. c \in Working /\ loop = "idle" /\ Kind = "batch" /\ cmd[c] = "running" /\ UNCHANGED caller
  BY DEF BatchSplits, Working, WorkingOf, Active
<1>2. TypeOK /\ CallerInv /\ LiveInv /\ ex.live /\ ~OneByOne
  BY <1>1, LiveWhenWorking DEF OneByOne
<1>3. PICK new \in SUBSET {k \in 1..(N + caller.req.splits) : cmd[k] = "none"} : \E sent \in SUBSET new :
          LET b == Cardinality(new)
              i == Cardinality(sent)
              split == [k \in Ids |-> CASE k = c \/ k \in new \ sent -> "gone"
                                        [] k \in sent -> "running"
                                        [] OTHER -> cmd[k]]
              e == [ex EXCEPT !.max = SplitMax(b), !.max_concurrent = SplitMax(b),
                              !.queued = SplitMax(b)]
          IN  /\ b > 0
              /\ IF i = b
                 THEN /\ ex' = e /\ cmd' = split
                      /\ UNCHANGED <<loop, listener, tracker, round, failed>>
                 ELSE ExecutorError(split, e, listener, b - i)
  BY DEF BatchSplits
<1>4. PICK sent \in SUBSET new :
          LET b == Cardinality(new)
              i == Cardinality(sent)
              split == [k \in Ids |-> CASE k = c \/ k \in new \ sent -> "gone"
                                        [] k \in sent -> "running"
                                        [] OTHER -> cmd[k]]
              e == [ex EXCEPT !.max = SplitMax(b), !.max_concurrent = SplitMax(b),
                              !.queued = SplitMax(b)]
          IN  /\ b > 0
              /\ IF i = b
                 THEN /\ ex' = e /\ cmd' = split
                      /\ UNCHANGED <<loop, listener, tracker, round, failed>>
                 ELSE ExecutorError(split, e, listener, b - i)
  BY <1>3
<1> DEFINE b == Cardinality(new)
           i == Cardinality(sent)
           split == [k \in Ids |-> CASE k = c \/ k \in new \ sent -> "gone"
                                     [] k \in sent -> "running"
                                     [] OTHER -> cmd[k]]
           m == SplitMax(b)
           e == [ex EXCEPT !.max = m, !.max_concurrent = m, !.queued = m]
<1>5. /\ b > 0
      /\ i = b => ex' = e /\ cmd' = split /\ UNCHANGED <<loop, listener, tracker, round, failed>>
      /\ i # b => ExecutorError(split, e, listener, b - i)
  BY <1>4
<1>6. new \in SUBSET Ids /\ sent \in SUBSET Ids /\ c \notin new /\ \A k \in new : cmd[k] = "none"
  BY <1>1, <1>2, Shape DEF Ids
<1>7. b \in Nat /\ i \in Nat /\ i <= b
  BY <1>2, <1>6, Finite, FS_Subset
<1>8. "push" \notin SubmitErrors
  <2>1. SUFFICES ASSUME "push" \in SubmitErrors PROVE FALSE
    OBVIOUS
  <2>2. caller.req.splits = 0
    BY <1>2, <2>1 DEF Unraced, SubmitErrors, TypeOK
  <2>3. \A k \in 1..N : cmd[k] # "none"
    BY <1>1, <1>2 DEF LiveInv, Sizes
  <2>4. new = {}
    BY <1>2, <2>2, <2>3, Shape
  <2> QED
    BY <1>5, <2>4, FS_EmptySet
<1>9. cmd \in [Ids -> CmdState] /\ split \in [Ids -> CmdState]
  BY <1>2, <1>6 DEF TypeOK, CmdState, Active
<1>10. \A k \in Ids : split[k] = IF k = c \/ k \in new \ sent THEN "gone" ELSE IF k \in sent THEN "running" ELSE cmd[k]
  BY <1>1, <1>6
<1>11. WorkingOf(split) = (Working \ {c}) \cup sent /\ IdleOf(split) = Idle
  BY <1>1, <1>6, <1>9, <1>10 DEF Working, WorkingOf, Idle, IdleOf, Active
<1>12. Cardinality(WorkingOf(split)) = Cardinality(Working) - 1 + i /\ Cardinality(Working) \in Nat /\ Cardinality(Working) >= 1
  <2>1. Working \in SUBSET Ids /\ (Working \ {c}) \in SUBSET Ids /\ (Working \ {c}) \cap sent = {}
    BY <1>6 DEF Working, WorkingOf, Active
  <2>2. Cardinality(Working) = Cardinality(Working \ {c}) + 1 /\ Cardinality(Working \ {c}) \in Nat
    BY <1>1, <1>2, <2>1, OneLess
  <2>3. Cardinality((Working \ {c}) \cup sent) = Cardinality(Working \ {c}) + Cardinality(sent) - Cardinality((Working \ {c}) \cap sent)
    BY <1>2, <1>6, <2>1, Finite, FS_Union
  <2>4. Cardinality((Working \ {c}) \cap sent) = 0
    BY <2>1, FS_EmptySet
  <2>5. Cardinality(WorkingOf(split)) = Cardinality((Working \ {c}) \cup sent)
    BY <1>11, Zenon
  <2> HIDE DEF split
  <2> QED
    BY <1>7, <2>2, <2>3, <2>4, <2>5
<1> HIDE DEF split, b, i
<1>13. m = ex.max + b - 1 /\ m \in Nat /\ ex.max \in Nat /\ ex.count \in Nat
  BY <1>2, <1>5, <1>7 DEF SplitMax, TypeOK, Executor
<1> HIDE DEF m
<1>14. /\ e \in Executor /\ e.max = m /\ e.max_concurrent = m /\ e.queued = m /\ e.count = ex.count
       /\ e.valid = ex.valid /\ e.err = ex.err /\ e.notify = ex.notify /\ e.live = ex.live
  BY <1>2, <1>13, Zenon DEF TypeOK, Executor
<1> HIDE DEF e
<1>15. Cardinality(Idle) \in Nat
  <2>1. Idle \in SUBSET Ids
    BY DEF Idle, IdleOf
  <2> QED
    BY <1>2, <2>1, Finite
<1>16. Counts(e, split, caller.pc, b - i)
  BY <1>1, <1>2, <1>7, <1>11, <1>12, <1>13, <1>14, <1>15 DEF LiveInv, Counts, Uncounted, Working, Idle
<1>17. \A k \in Ids : split[k] \notin {"validating", "ending"}
  BY <1>1, <1>2, <1>9, <1>10, Shape DEF LiveInv, Validation
<1>18. \A k \in 1..N : split[k] # "none"
  BY <1>1, <1>2, <1>10, Shape DEF LiveInv, Sizes, Ids
<1>19. CASE i # b
  <2>1. b - i \in Nat /\ b - i >= 1 /\ (e.max = 1 => b - i = 1 /\ e.queued = 1)
    <3>1. ex.max >= 1
      BY <1>2, <1>12, <1>13, <1>15 DEF LiveInv, Counts, Uncounted, Working, Idle
    <3> QED
      BY <1>5, <1>7, <1>13, <1>14, <1>19, <3>1
  <2>2. listener \in Listener /\ listener.calls = 0
    BY <1>2 DEF TypeOK, Listener, LiveInv
  <2>3. (e.notify => ~listener.stopped /\ caller.pc # "error") /\ (~e.notify => listener.stopped \/ caller.pc = "error")
    BY <1>2, <1>14 DEF LiveInv, Errors
  <2>4. ExecutorError(split, e, listener, b - i) /\ e.queued <= e.max /\ e.live /\ split[1] # "validating"
    BY <1>2, <1>5, <1>13, <1>14, <1>17, <1>19, Shape
  <2> QED
    BY <1>1, <1>2, <1>8, <1>9, <1>11, <1>14, <1>16, <1>17, <1>18, <2>1, <2>2, <2>3, <2>4, ErrorAtOnce
<1>20. CASE i = b
  <2>1. ex' = e /\ cmd' = split /\ UNCHANGED <<loop, listener, tracker, round, failed>>
    BY <1>5, <1>20
  <2>2. ex'.count <= ex'.max
    BY <1>2, <1>5, <1>7, <1>13, <1>14, <2>1 DEF TypeOK
  <2>3. TypeOK' /\ CallerInv'
    BY <1>1, <1>2, <1>9, <1>14, <2>1, <2>2, SameRequest DEF TypeOK, CallerInv, Refusing
  <2>4. Idle' = Unstarted'
    BY <1>1, <1>2, <1>11, <2>1, SameRequest DEF LiveInv, Idle, Unstarted, UnstartedOf
  <2>5. Sizes' /\ Validation'
    BY <1>1, <1>2, <1>8, <1>13, <1>14, <1>17, <1>18, <2>1, Shape, SameRequest DEF Sizes, Validation
  <2>6. Counts(ex, cmd, caller.pc, 0)'
    <3>1. b - i = 0
      BY <1>7, <1>20
    <3>2. Counts(e, split, caller.pc, 0)
      BY <1>16, <3>1
    <3> QED
      BY <1>1, <2>1, <3>2, SameRequest DEF Counts, Uncounted
  <2>7. Errors' /\ listener'.calls = 0 /\ tracker' = IF Kind' = "scan" /\ caller'.pc = "cancel" THEN 1 ELSE 0
    BY <1>1, <1>2, <1>14, <2>1, SameRequest DEF LiveInv, Errors
  <2> QED
    <3>1. ~OneByOne'
      BY <1>1, <1>2, SameRequest
    <3>2. ex'.live
      BY <1>2, <1>14, <2>1
    <3> QED
      BY <2>3, <2>4, <2>5, <2>6, <2>7, <3>1, <3>2 DEF Inv, LiveInv
<1> QED
  BY <1>19, <1>20

\* as_validate_begin_listener: only the first command works until then.
LEMMA ValidateBeginsInv ==
  ASSUME Inv, NEW c \in Ids, ValidateBegins(c)
  PROVE  Inv'
<1>1. c = 1 /\ cmd[1] = "validating" /\ c \in Working /\ loop = "idle" /\ UNCHANGED caller
  BY DEF ValidateBegins, Working, WorkingOf, Active
<1>2. TypeOK /\ CallerInv /\ LiveInv /\ ex.live /\ 1 \in Ids
  BY <1>1, LiveWhenWorking
<1>3. ex.queued = 1 /\ ex.count = 0 /\ Working = {1} /\ caller.pc = "ok" /\ Validate
  BY <1>1, <1>2 DEF LiveInv, Validation
<1>4. Kind = "query" /\ ~OneByOne /\ N <= Cap /\ N \in Nat /\ Cap \in Nat
  BY <1>2, <1>3, Shape DEF OneByOne
<1>5. Idle = 2..ex.max
  BY <1>2, <1>3, <1>4 DEF LiveInv, Unstarted, UnstartedOf
<1>6. ex \in Executor /\ ex.max \in Nat /\ ex.max >= 1 /\ ex.max <= N /\ ex.max_concurrent = ex.max /\ tracker = 0
  BY <1>2, <1>3, <1>4 DEF LiveInv, Sizes, Counts, TypeOK, Executor
<1>7. CASE /\ cmd' = [k \in Ids |-> CASE k = 1 -> "running"
                                     [] k \in 2..ex.max_concurrent -> "validating"
                                     [] OTHER -> cmd[k]]
           /\ ex' = [ex EXCEPT !.queued = ex.max_concurrent]
           /\ UNCHANGED <<loop, listener, tracker, round, failed>>
  <2>1. \A k \in Ids : cmd'[k] = IF k = 1 THEN "running" ELSE IF k \in 2..ex.max THEN "validating" ELSE cmd[k]
    BY <1>6, <1>7
  <2>2. cmd \in [Ids -> CmdState] /\ cmd' \in [Ids -> CmdState]
    BY <1>2, <1>6, <1>7 DEF TypeOK, CmdState, Active
  <2>3. Working' = 1..ex.max
    BY <1>3, <1>4, <1>6, <2>1, <2>2 DEF Working, WorkingOf, Active, Ids
  <2>4. Idle' = {}
    BY <1>5, <2>1, <2>2 DEF Idle, IdleOf
  <2>5. /\ ex' \in Executor /\ ex'.queued = ex.max_concurrent /\ ex'.max = ex.max /\ ex'.count = ex.count
        /\ ex'.max_concurrent = ex.max_concurrent
        /\ ex'.valid = ex.valid /\ ex'.err = ex.err /\ ex'.notify = ex.notify /\ ex'.live = ex.live
    BY <1>6, <1>7, Zenon DEF Executor
  <2>6. TypeOK' /\ CallerInv'
    BY <1>1, <1>2, <1>3, <1>6, <1>7, <2>2, <2>5 DEF TypeOK, CallerInv, Refusing
  <2>7. Idle' = Unstarted'
    <3>1. (ex'.queued + 1)..ex'.max = {}
      BY <1>6, <2>5
    <3> QED
      BY <1>1, <1>4, <2>4, <3>1, SameRequest DEF Unstarted, UnstartedOf
  <2>8. Sizes' /\ Validation'
    BY <1>1, <1>2, <1>3, <1>4, <1>6, <2>1, <2>5, SameRequest DEF Sizes, Validation
  <2>9. Counts(ex, cmd, caller.pc, 0)'
    <3>1. 1 \in Nat
      OBVIOUS
    <3>2. Cardinality(1..ex.max) = IF 1 <= ex.max THEN ex.max - 1 + 1 ELSE 0
      BY <1>6, <3>1, IntervalSize, Zenon
    <3>3. Cardinality(Working') = ex.max
      BY <1>6, <2>3, <3>2
    <3>4. Cardinality(Idle') = 0
      BY <2>4, FS_EmptySet
    <3> QED
      BY <1>1, <1>3, <1>4, <1>6, <2>5, <3>3, <3>4, SameRequest DEF Counts, Uncounted, Working, Idle
  <2>10. Errors' /\ listener'.calls = 0 /\ tracker' = IF Kind' = "scan" /\ caller'.pc = "cancel" THEN 1 ELSE 0
    BY <1>1, <1>2, <1>3, <1>6, <1>7, <2>5 DEF LiveInv, Errors
  <2>11. ~OneByOne'
    BY <1>1, <1>4, SameRequest
  <2>12. ex'.live
    BY <1>2, <2>5
  <2> QED
    BY <2>6, <2>7, <2>8, <2>9, <2>10, <2>11, <2>12 DEF Inv, LiveInv
<1>8. CASE ExecutorError([cmd EXCEPT ![c] = "done"], ex, listener, BeginFailures)
  <2> DEFINE n == ex.count + (IF ex.max_concurrent = 1 THEN 1 ELSE BeginFailures)
             e1 == [ex EXCEPT !.valid = FALSE, !.count = n]
             d == [cmd EXCEPT ![1] = "done"]
             err == ex.valid \/ e1.err
  <2>1. n = ex.max /\ n \in Nat
    BY <1>3, <1>6 DEF BeginFailures
  <2>2. IsComplete(e1) => CompleteFn(e1, d, listener, err) /\ loop' = "idle"
    BY <1>1, <1>8 DEF ExecutorError
  <2>3. d \in [Ids -> CmdState] /\ WorkingOf(d) = {} /\ IdleOf(d) = Idle
    BY <1>1, <1>2, <1>3, WorkEnds
  <2> HIDE DEF n
  <2>4. /\ e1 \in Executor /\ e1.count = n /\ e1.max = ex.max /\ e1.queued = ex.queued
        /\ e1.max_concurrent = ex.max_concurrent /\ e1.notify = ex.notify /\ e1.err = ex.err
    BY <1>6, <2>1, Zenon DEF Executor
  <2>5. err \in BOOLEAN /\ (err <=> ex.valid \/ ex.err)
    BY <2>4
  <2> HIDE DEF e1, d, err
  <2>6. IsComplete(e1) /\ e1.count <= e1.max /\ IdleOf(d) \subseteq (e1.queued + 1)..e1.max
    BY <1>3, <1>5, <1>6, <2>1, <2>3, <2>4 DEF IsComplete
  <2>7. listener \in Listener /\ listener.calls = 0 /\ (failed => err)
    BY <1>1, <1>2, <1>3, <2>5 DEF TypeOK, Listener, LiveInv, Errors
  <2>8. (e1.notify => ~listener.stopped /\ caller'.pc # "error") /\ (~e1.notify => listener.stopped \/ caller'.pc = "error")
    BY <1>1, <1>2, <2>4 DEF LiveInv, Errors
  <2>9. caller' = [pc |-> caller'.pc, i |-> caller'.i, req |-> caller'.req] /\ caller'.i \in 1..(Cap + 1)
    BY <1>1, <1>2 DEF TypeOK
  <2> QED
    BY <1>1, <1>2, <1>3, <1>4, <1>6, <2>2, <2>3, <2>4, <2>5, <2>6, <2>7, <2>8, <2>9, Completes
<1> QED
  BY <1>7, <1>8 DEF ValidateBegins

\* A command that hands in an error of its own keeps the invariant.
LEMMA OwnError ==
  ASSUME Unraced, Inv, loop = "idle", UNCHANGED caller, NEW k \in Working,
         ExecutorError([cmd EXCEPT ![k] = "done"], ex, listener, 1)
  PROVE  Inv'
<1>1. TypeOK /\ CallerInv /\ LiveInv /\ ex.live
  BY LiveWhenWorking
<1>2. ex \in Executor /\ listener \in Listener /\ listener.calls = 0
  BY <1>1 DEF TypeOK, Listener, LiveInv
<1>3. (ex.notify => ~listener.stopped /\ caller.pc # "error") /\ (~ex.notify => listener.stopped \/ caller.pc = "error")
  BY <1>1 DEF LiveInv, Errors
<1> QED
  BY <1>1, <1>2, <1>3, Fails

\* The validation of the cluster succeeds and the next command begins.
LEMMA ValidateNextInv ==
  ASSUME Unraced, Inv, NEW c \in Ids, ValidateNext(c)
  PROVE  Inv'
<1>1. c \in Working /\ loop = "idle" /\ UNCHANGED caller
  BY DEF ValidateNext, Working, WorkingOf, Active
<1>2. CASE cmd' = [cmd EXCEPT ![c] = "running"] /\ UNCHANGED <<ex, loop, listener, tracker, round, failed>>
  BY <1>1, <1>2, MovesOn
<1>3. CASE ExecutorError([cmd EXCEPT ![c] = "done"], ex, listener, NextFailures(c))
  BY <1>1, <1>3, OwnError DEF NextFailures
<1> QED
  BY <1>2, <1>3 DEF ValidateNext

\* The validation after the last command ends.
LEMMA ValidateEndsInv ==
  ASSUME Unraced, Inv, NEW c \in Ids, ValidateEnds(c)
  PROVE  Inv'
<1>1. c \in Working /\ loop = "idle" /\ UNCHANGED caller
  BY DEF ValidateEnds, Working, WorkingOf, Active
<1>2. CASE ExecutorComplete([cmd EXCEPT ![c] = "done"], ex) /\ UNCHANGED loop
  BY <1>1, <1>2, Ends
<1>3. CASE ExecutorError([cmd EXCEPT ![c] = "done"], ex, listener, 1)
  BY <1>1, <1>3, OwnError
<1> QED
  BY <1>2, <1>3 DEF ValidateEnds

\* The first error is stored after the lock was released.
LEMMA SaveErrorInv ==
  ASSUME Inv, SaveError
  PROVE  Inv'
<1>1. /\ loop = "saveErr" /\ loop' = "idle" /\ ex' = [ex EXCEPT !.err = TRUE] /\ TypeOK /\ CallerInv
      /\ UNCHANGED <<cmd, caller, listener, tracker, round, failed>>
  BY DEF SaveError, WithError, Inv
<1>2. /\ ex' \in Executor /\ ex'.count = ex.count /\ ex'.max = ex.max /\ ex'.queued = ex.queued
      /\ ex'.max_concurrent = ex.max_concurrent
      /\ ex'.valid = ex.valid /\ ex'.err = TRUE /\ ex'.notify = ex.notify /\ ex'.live = ex.live
  BY <1>1, Zenon DEF TypeOK, Executor
<1>3. TypeOK' /\ CallerInv'
  BY <1>1, <1>2, SameRequest DEF TypeOK, CallerInv, Refusing
<1>4. ASSUME ex.live PROVE LiveInv'
  <2>1. LiveInv
    BY <1>4 DEF Inv
  <2>2. Idle' = Unstarted' /\ Sizes' /\ Validation'
    BY <1>1, <1>2, <2>1, SameRequest DEF LiveInv, Idle, IdleOf, Unstarted, UnstartedOf, Sizes, Validation, Working, WorkingOf
  <2>3. ~OneByOne' => Counts(ex, cmd, caller.pc, 0)'
    BY <1>1, <1>2, <2>1, SameRequest DEF LiveInv, Counts, Uncounted
  <2>4. OneByOne' => CountsOne'
    BY <1>1, <2>1, SameRequest DEF LiveInv, CountsOne
  <2>5. Errors' /\ listener'.calls = 0 /\ tracker' = IF Kind' = "scan" /\ caller'.pc = "cancel" THEN 1 ELSE 0
    BY <1>1, <1>2, <2>1, SameRequest DEF LiveInv, Errors
  <2> QED
    BY <2>2, <2>3, <2>4, <2>5 DEF LiveInv
<1>5. ASSUME ~ex.live PROVE FreedInv'
  BY <1>1, <1>5, SameRequest DEF Inv, FreedInv, Working, WorkingOf, Idle, IdleOf
<1> QED
  BY <1>2, <1>3, <1>4, <1>5 DEF Inv

-----------------------------------------------------------------------------
(* The calling thread.                                                      *)

\* What the next command to submit is.
LEMMA NextToSubmit ==
  ASSUME Inv, caller.pc = "submit", NEW st \in CmdState \ {"idle", "none"}, NEW c, c = [cmd EXCEPT ![caller.i] = st]
  PROVE  /\ TypeOK /\ CallerInv /\ LiveInv /\ ex.live
         /\ caller.i \in Nat /\ caller.i >= 1 /\ caller.i <= N /\ N \in Nat /\ N <= Cap /\ Cap \in Nat
         /\ caller.i \in Idle /\ caller.i \in Ids /\ Idle = caller.i..N
         /\ c \in [Ids -> CmdState] /\ IdleOf(c) = (caller.i + 1)..N
         /\ Cardinality(Idle) = Cardinality(IdleOf(c)) + 1 /\ Cardinality(IdleOf(c)) \in Nat
         /\ Cardinality(Working) \in Nat
         /\ st \in Active => WorkingOf(c) = Working \cup {caller.i} /\ Cardinality(WorkingOf(c)) = Cardinality(Working) + 1
         /\ st \notin Active => WorkingOf(c) = Working
         /\ Kind # "batch" => ex.queued = caller.i - 1 /\ ex.max = N
         /\ cmd[1] # "validating"
         /\ Kind = "batch" => \A j \in 1..N : c[j] # "none"
<1>1. TypeOK /\ CallerInv /\ LiveInv /\ ex.live
  BY DEF Inv, CallerInv
<1>2. /\ caller.i \in Nat /\ caller.i >= 1 /\ caller.i <= N /\ N \in Nat /\ N <= Cap /\ Cap \in Nat
      /\ cmd \in [Ids -> CmdState]
  BY <1>1, Shape DEF CallerInv, TypeOK
<1>3. Kind # "batch" => ex.queued = caller.i - 1 /\ ex.max = N
  BY <1>1 DEF LiveInv, Sizes
<1>4. Idle = caller.i..N
  BY <1>1, <1>2, <1>3 DEF LiveInv, Unstarted, UnstartedOf
<1>5. caller.i \in Idle /\ caller.i \in Ids
  BY <1>2, <1>4 DEF Ids
<1>6. c \in [Ids -> CmdState] /\ IdleOf(c) = Idle \ {caller.i}
  BY <1>2, <1>5 DEF Idle, IdleOf
<1>7. IdleOf(c) = (caller.i + 1)..N
  <2>1. (caller.i..N) \ {caller.i} = (caller.i + 1)..N
    BY <1>2
  <2> QED
    BY <1>4, <1>6, <2>1, Zenon
<1>8. Idle \in SUBSET Ids /\ Working \in SUBSET Ids /\ caller.i \notin Working
  BY <1>5 DEF Idle, IdleOf, Working, WorkingOf, Active
<1>9. Cardinality(Idle) = Cardinality(IdleOf(c)) + 1 /\ Cardinality(IdleOf(c)) \in Nat
  <2>1. Cardinality(Idle) = Cardinality(Idle \ {caller.i}) + 1 /\ Cardinality(Idle \ {caller.i}) \in Nat
    BY <1>1, <1>5, <1>8, OneLess
  <2> QED
    BY <1>6, <2>1, Zenon
<1>10. IsFiniteSet(Working) /\ Cardinality(Working) \in Nat
  BY <1>1, <1>8, Finite
<1>11. ASSUME st \in Active
       PROVE  WorkingOf(c) = Working \cup {caller.i} /\ Cardinality(WorkingOf(c)) = Cardinality(Working) + 1
  <2>1. WorkingOf(c) = Working \cup {caller.i}
    BY <1>2, <1>5, <1>11 DEF Working, WorkingOf
  <2>2. Cardinality(Working \cup {caller.i}) = Cardinality(Working) + 1
    BY <1>8, <1>10, FS_AddElement
  <2> QED
    BY <2>1, <2>2, Zenon
<1>12. st \notin Active => WorkingOf(c) = Working
  BY <1>2, <1>5, <1>8 DEF Working, WorkingOf
<1>13. cmd[1] # "validating"
  BY <1>1 DEF LiveInv, Validation
<1>14. Kind = "batch" => \A j \in 1..N : c[j] # "none"
  BY <1>1, <1>2 DEF LiveInv, Sizes, Ids
<1> QED
  BY <1>1, <1>2, <1>3, <1>4, <1>5, <1>6, <1>7, <1>9, <1>10, <1>11, <1>12, <1>13, <1>14

\* The thread goes on to the next command, or is done.
LEMMA Advances ==
  ASSUME TypeOK, caller.i \in Ids, Advance
  PROVE  /\ caller' \in [pc : {"submit", "release", "cancel", "ok", "error"}, i : 1..(Cap + 1), req : Requests]
         /\ caller'.pc = (IF caller.i = Submits THEN "ok" ELSE "submit")
         /\ caller'.i = caller.i + 1 /\ caller'.req = caller.req
<1> DEFINE pc == IF caller.i = Submits THEN "ok" ELSE "submit"
           i == caller.i + 1
<1>1. pc \in {"submit", "release", "cancel", "ok", "error"} /\ i \in 1..(Cap + 1)
  BY Shape DEF Ids
<1>2. caller' = [caller EXCEPT !.pc = pc, !.i = i]
  BY DEF Advance
<1> HIDE DEF pc, i
<1>3. /\ caller' \in [pc : {"submit", "release", "cancel", "ok", "error"}, i : 1..(Cap + 1), req : Requests]
      /\ caller'.pc = pc /\ caller'.i = i /\ caller'.req = caller.req
  BY <1>1, <1>2, Zenon DEF TypeOK
<1> QED
  BY <1>3 DEF pc, i

\* The executor after a scan or query counted a command as queued.
LEMMA Queued ==
  ASSUME TypeOK, ex' = IF Kind = "batch" THEN ex ELSE [ex EXCEPT !.queued = @ + 1]
  PROVE  /\ ex' \in Executor /\ ex'.count = ex.count /\ ex'.max = ex.max
         /\ ex'.queued = IF Kind = "batch" THEN ex.queued ELSE ex.queued + 1
         /\ ex'.max_concurrent = ex.max_concurrent
         /\ ex'.valid = ex.valid /\ ex'.err = ex.err /\ ex'.notify = ex.notify /\ ex'.live = ex.live
         /\ ex.queued \in Nat /\ ex.count \in Nat /\ ex.max \in Nat /\ ex.count <= ex.max
<1>1. ex \in Executor /\ ex.queued \in Nat /\ ex.count \in Nat /\ ex.max \in Nat /\ ex.count <= ex.max
  BY DEF TypeOK, Executor
<1>2. CASE Kind = "batch"
  BY <1>1, <1>2
<1>3. CASE Kind # "batch"
  <2>1. ex' = [ex EXCEPT !.queued = ex.queued + 1] /\ ex.queued + 1 \in Nat
    BY <1>1, <1>3
  <2>2. /\ ex' \in Executor /\ ex'.count = ex.count /\ ex'.max = ex.max /\ ex'.queued = ex.queued + 1
        /\ ex'.max_concurrent = ex.max_concurrent
        /\ ex'.valid = ex.valid /\ ex'.err = ex.err /\ ex'.notify = ex.notify /\ ex'.live = ex.live
    BY <1>1, <2>1, Zenon DEF Executor
  <2> QED
    BY <1>1, <1>3, <2>2
<1> QED
  BY <1>2, <1>3

\* The calling thread submits a command.
LEMMA SubmitInv ==
  ASSUME Inv, Submit
  PROVE  Inv'
<1> DEFINE i == caller.i
<1>1. /\ caller.pc = "submit" /\ cmd' = [cmd EXCEPT ![i] = Started] /\ UNCHANGED <<loop, listener, tracker, round, failed>>
      /\ ex' = IF Kind = "batch" THEN ex ELSE [ex EXCEPT !.queued = @ + 1]
  BY DEF Submit
<1>2. Started \in CmdState \ {"idle", "none"} /\ Started \in Active /\ (Started # "running" => Validate /\ Started = "validating")
  BY DEF Started, CmdState, Active
<1>3. /\ TypeOK /\ CallerInv /\ LiveInv /\ ex.live
      /\ i \in Nat /\ i >= 1 /\ i <= N /\ N \in Nat /\ N <= Cap /\ Cap \in Nat
      /\ i \in Ids /\ Idle = i..N
      /\ cmd' \in [Ids -> CmdState] /\ Idle' = (i + 1)..N
      /\ Cardinality(Idle) = Cardinality(Idle') + 1 /\ Cardinality(Idle') \in Nat
      /\ Cardinality(Working) \in Nat
      /\ Working' = Working \cup {i} /\ Cardinality(Working') = Cardinality(Working) + 1
      /\ Kind # "batch" => ex.queued = i - 1 /\ ex.max = N
      /\ cmd[1] # "validating"
      /\ Kind = "batch" => \A j \in 1..N : cmd'[j] # "none"
  BY <1>1, <1>2, NextToSubmit DEF Idle, Working
<1>4. /\ ex' \in Executor /\ ex'.count = ex.count /\ ex'.max = ex.max
      /\ ex'.queued = IF Kind = "batch" THEN ex.queued ELSE ex.queued + 1
      /\ ex'.max_concurrent = ex.max_concurrent
      /\ ex'.valid = ex.valid /\ ex'.err = ex.err /\ ex'.notify = ex.notify /\ ex'.live = ex.live
      /\ ex.queued \in Nat /\ ex.count \in Nat /\ ex.max \in Nat /\ ex.count <= ex.max
  BY <1>1, <1>3, Queued
<1>5. /\ caller' \in [pc : {"submit", "release", "cancel", "ok", "error"}, i : 1..(Cap + 1), req : Requests]
      /\ caller'.pc = (IF i = Submits THEN "ok" ELSE "submit") /\ caller'.i = i + 1 /\ caller'.req = caller.req
  BY <1>3, Advances DEF Submit
<1>6. /\ Kind' = Kind /\ N' = N /\ Validate' = Validate /\ OneByOne' = OneByOne /\ Submits' = Submits
      /\ SubmitErrors' = SubmitErrors
  BY <1>5, SameRequest
<1>7. i <= Submits /\ Submits \in Nat /\ (OneByOne \/ Validate => Submits = 1) /\ (~OneByOne /\ ~Validate => Submits = N)
  BY <1>1, <1>3, Shape DEF CallerInv
<1>8. TypeOK'
  BY <1>1, <1>3, <1>4, <1>5 DEF TypeOK
<1>9. CallerInv'
  BY <1>3, <1>4, <1>5, <1>6, <1>7 DEF CallerInv, Refusing
<1>10. Kind = "batch" => ~OneByOne /\ ~Validate
  BY <1>3, Shape DEF OneByOne
<1>11. Idle' = Unstarted'
  <2>1. CASE Kind # "batch"
    BY <1>3, <1>4, <1>6, <2>1 DEF Unstarted, UnstartedOf
  <2>2. CASE Kind = "batch" /\ i # Submits
    BY <1>3, <1>5, <1>6, <2>2 DEF Unstarted, UnstartedOf
  <2>3. CASE Kind = "batch" /\ i = Submits
    <3>1. (i + 1)..N = {}
      BY <1>3, <1>7, <1>10, <2>3
    <3> QED
      BY <1>3, <1>5, <1>6, <2>3, <3>1 DEF Unstarted, UnstartedOf
  <2> QED
    BY <2>1, <2>2, <2>3
<1>12. Sizes'
  <2>1. ex'.queued <= ex'.max
    BY <1>3, <1>4 DEF LiveInv, Sizes
  <2>2. Kind # "batch" => ex'.max = N /\ ex'.queued = i /\ caller'.i - 1 = i
    BY <1>3, <1>4, <1>5
  <2>3. caller'.pc \in {"ok", "submit"}
    BY <1>5
  <2>4. Kind = "batch" /\ "push" \in SubmitErrors => ex'.max = N
    BY <1>3, <1>4 DEF LiveInv, Sizes
  <2> QED
    BY <1>3, <1>6, <2>1, <2>2, <2>3, <2>4 DEF Sizes
<1>13. ~OneByOne => Counts(ex, cmd, caller.pc, 0)'
  BY <1>1, <1>3, <1>4, <1>5, <1>6 DEF LiveInv, Counts, Uncounted, Idle, Working
<1>14. OneByOne => CountsOne'
  <2>1. SUFFICES ASSUME OneByOne PROVE CountsOne'
    OBVIOUS
  <2>2. ex.max_concurrent = 1 /\ ex.valid /\ loop = "idle" /\ ex.count = 0 /\ Working = {} /\ Kind # "batch"
    BY <1>1, <1>3, <2>1 DEF LiveInv, CountsOne, OneByOne
  <2>3. i = 1 /\ caller'.pc = "ok"
    BY <1>3, <1>5, <1>7, <2>1
  <2>4. ex'.queued = 1 /\ ex'.count = 0 /\ ex'.max_concurrent = 1
    BY <1>3, <1>4, <2>2, <2>3
  <2>5. ex'.valid
    BY <1>4, <2>2
  <2> QED
    BY <1>1, <1>3, <2>2, <2>3, <2>4, <2>5 DEF CountsOne
<1>15. Validation'
  <2>1. \A j \in Ids : cmd'[j] \in {"validating", "ending"} => Validate
    BY <1>1, <1>2, <1>3 DEF LiveInv, Validation, TypeOK
  <2>2. ASSUME cmd'[1] = "validating"
        PROVE  ex'.queued = 1 /\ ex'.count = 0 /\ Working' = {1} /\ caller'.pc = "ok"
    <3>1. i = 1 /\ Validate
      BY <1>1, <1>2, <1>3, <2>2, Shape DEF TypeOK
    <3>2. Kind # "batch" /\ ~OneByOne
      BY <1>3, <3>1, Shape DEF OneByOne
    <3>3. 1 \in Nat /\ Cardinality(1..N) = IF 1 <= N THEN N - 1 + 1 ELSE 0
      BY <1>3, IntervalSize
    <3>4. Cardinality(Idle) = N
      BY <1>3, <3>1, <3>3
    <3>5. ex.max = ex.count + 0 + Cardinality(Working) + Cardinality(Idle)
      BY <1>1, <1>3, <3>2 DEF LiveInv, Counts, Uncounted, Idle, Working
    <3>6. ex.count = 0 /\ Cardinality(Working) = 0
      BY <1>3, <1>4, <3>2, <3>4, <3>5
    <3>7. Working = {}
      <4>1. Working \in SUBSET Ids
        BY DEF Working, WorkingOf
      <4> QED
        BY <1>3, <3>6, <4>1, Finite
    <3> QED
      BY <1>3, <1>4, <1>5, <1>7, <3>1, <3>2, <3>6, <3>7
  <2> QED
    BY <1>6, <2>1, <2>2 DEF Validation
<1>16. Errors'
  BY <1>1, <1>3, <1>4, <1>5 DEF LiveInv, Errors
<1>17. listener'.calls = 0 /\ tracker' = IF Kind' = "scan" /\ caller'.pc = "cancel" THEN 1 ELSE 0
  BY <1>1, <1>3, <1>5 DEF LiveInv
<1>18. ex'.live
  BY <1>3, <1>4
<1> QED
  BY <1>6, <1>8, <1>9, <1>11, <1>12, <1>13, <1>14, <1>15, <1>16, <1>17, <1>18 DEF Inv, LiveInv

\* A submission is refused and the rest is cancelled (as_event_executor_cancel).
LEMMA SubmitFailsInv ==
  ASSUME Unraced, Inv, SubmitFails
  PROVE  Inv'
<1> DEFINE i == caller.i
<1>1. /\ caller.pc = "submit" /\ cmd' = [cmd EXCEPT ![i] = "gone"] /\ UNCHANGED <<loop, listener, tracker, round, failed>>
      /\ ex' = IF Kind = "batch" THEN ex ELSE [ex EXCEPT !.queued = @ + 1]
      /\ "push" \in SubmitErrors
  BY DEF SubmitFails
<1>2. "gone" \in CmdState \ {"idle", "none"} /\ "gone" \notin Active
  BY DEF CmdState, Active
<1>3. /\ TypeOK /\ CallerInv /\ LiveInv /\ ex.live
      /\ i \in Nat /\ i >= 1 /\ i <= N /\ N \in Nat /\ N <= Cap /\ Cap \in Nat
      /\ i \in Ids
      /\ cmd' \in [Ids -> CmdState] /\ Idle' = (i + 1)..N
      /\ Cardinality(Idle) = Cardinality(Idle') + 1 /\ Cardinality(Idle') \in Nat
      /\ Cardinality(Working) \in Nat /\ Working' = Working
      /\ Kind # "batch" => ex.queued = i - 1 /\ ex.max = N
      /\ cmd[1] # "validating"
      /\ Kind = "batch" => \A j \in 1..N : cmd'[j] # "none"
  BY <1>1, <1>2, NextToSubmit DEF Idle, Working
<1>4. /\ ex' \in Executor /\ ex'.count = ex.count /\ ex'.max = ex.max
      /\ ex'.queued = IF Kind = "batch" THEN ex.queued ELSE ex.queued + 1
      /\ ex'.max_concurrent = ex.max_concurrent
      /\ ex'.valid = ex.valid /\ ex'.err = ex.err /\ ex'.notify = ex.notify /\ ex'.live = ex.live
      /\ ex.queued \in Nat /\ ex.count \in Nat /\ ex.max \in Nat /\ ex.count <= ex.max
  BY <1>1, <1>3, Queued
<1>5. /\ caller' \in [pc : {"submit", "release", "cancel", "ok", "error"}, i : 1..(Cap + 1), req : Requests]
      /\ caller'.pc = (IF Kind = "scan" THEN "release" ELSE "cancel") /\ caller'.i = i /\ caller'.req = caller.req
  BY <1>3 DEF SubmitFails, TypeOK
<1>6. /\ Kind' = Kind /\ N' = N /\ Validate' = Validate /\ OneByOne' = OneByOne /\ Submits' = Submits
      /\ SubmitErrors' = SubmitErrors
  BY <1>5, SameRequest
<1>7. i <= Submits /\ (Kind = "scan" <=> OneByOne)
  BY <1>1, <1>3 DEF CallerInv, Unraced, OneByOne, TypeOK, SubmitErrors, Kind, Concurrent
<1>8. TypeOK'
  BY <1>1, <1>3, <1>4, <1>5 DEF TypeOK
<1>9. CallerInv'
  BY <1>1, <1>3, <1>4, <1>5, <1>6, <1>7 DEF CallerInv, Refusing
<1>10. Idle' = Unstarted'
  BY <1>3, <1>4, <1>5, <1>6 DEF Unstarted, UnstartedOf
<1>11. Sizes'
  BY <1>1, <1>3, <1>4, <1>5, <1>6 DEF LiveInv, Sizes
<1>12. ~OneByOne => Counts(ex, cmd, caller.pc, 0)'
  <2>1. Cardinality(Working') = Cardinality(Working)
    BY <1>3, Zenon
  <2> QED
    BY <1>1, <1>3, <1>4, <1>5, <1>6, <2>1 DEF LiveInv, Counts, Uncounted, Idle, Working
<1>13. OneByOne => CountsOne'
  BY <1>1, <1>3, <1>4, <1>5 DEF LiveInv, CountsOne, OneByOne
<1>14. Validation'
  BY <1>1, <1>3, <1>6, Shape DEF LiveInv, Validation, TypeOK
<1>15. Errors'
  BY <1>1, <1>3, <1>4, <1>5 DEF LiveInv, Errors
<1>16. listener'.calls = 0 /\ tracker' = IF Kind' = "scan" /\ caller'.pc = "cancel" THEN 1 ELSE 0
  BY <1>1, <1>3, <1>5, <1>6 DEF LiveInv
<1>17. ex'.live
  BY <1>3, <1>4
<1> QED
  BY <1>6, <1>8, <1>9, <1>10, <1>11, <1>12, <1>13, <1>14, <1>15, <1>16, <1>17 DEF Inv, LiveInv

\* The submission of a single command is refused.
LEMMA SubmitSingleFailsInv ==
  ASSUME Unraced, Inv, SubmitSingleFails
  PROVE  Inv'
<1> DEFINE i == caller.i
           c == [cmd EXCEPT ![i] = "done"]
           e == [ex EXCEPT !.error_row = TRUE]
<1>1. Kind = "batch" /\ caller.pc = "submit" /\ ExecutorComplete(c, e) /\ UNCHANGED loop /\ ~OneByOne
  BY DEF SubmitSingleFails, OneByOne
<1>2. "done" \in CmdState \ {"idle", "none"} /\ "done" \notin Active
  BY DEF CmdState, Active
<1>3. /\ TypeOK /\ CallerInv /\ LiveInv /\ ex.live
      /\ i \in Nat /\ i >= 1 /\ i <= N /\ N \in Nat /\ N <= Cap /\ Cap \in Nat
      /\ i \in Ids
      /\ c \in [Ids -> CmdState] /\ IdleOf(c) = (i + 1)..N
      /\ Cardinality(Idle) = Cardinality(IdleOf(c)) + 1 /\ Cardinality(IdleOf(c)) \in Nat
      /\ Cardinality(Working) \in Nat /\ WorkingOf(c) = Working
      /\ cmd[1] # "validating"
      /\ \A j \in 1..N : c[j] # "none"
  BY <1>1, <1>2, NextToSubmit
<1>4. /\ e \in Executor /\ e.count = ex.count /\ e.max = ex.max /\ e.queued = ex.queued
      /\ e.max_concurrent = ex.max_concurrent /\ e.error_row = TRUE
      /\ e.valid = ex.valid /\ e.err = ex.err /\ e.notify = ex.notify /\ e.live = ex.live
  BY <1>3, Zenon DEF TypeOK, Executor
<1>5. /\ caller' \in [pc : {"submit", "release", "cancel", "ok", "error"}, i : 1..(Cap + 1), req : Requests]
      /\ caller'.pc = (IF i = Submits THEN "ok" ELSE "submit") /\ caller'.i = i + 1 /\ caller'.req = caller.req
  BY <1>3, Advances DEF SubmitSingleFails
<1>6. i <= Submits /\ Submits = N
  BY <1>1, <1>3, Shape DEF CallerInv
<1>7. \A k \in Ids : c[k] \notin {"validating", "ending"}
  BY <1>1, <1>3, Shape DEF LiveInv, Validation, TypeOK
<1>8. ex.count \in Nat /\ ex.max \in Nat
  BY <1>3 DEF TypeOK, Executor
<1> HIDE DEF c, e
<1>9. Counts(e, c, caller'.pc, 1)
  <2>1. Cardinality(WorkingOf(c)) = Cardinality(Working)
    BY <1>3, Zenon
  <2>2. /\ ex.max_concurrent = ex.max /\ ex.queued = ex.max
        /\ ex.max = ex.count + 0 + Cardinality(Working) + Cardinality(Idle)
    BY <1>1, <1>3 DEF LiveInv, Counts, Uncounted, Idle, Working
  <2>3. Uncounted(c, caller'.pc) = Cardinality(IdleOf(c))
    BY <1>3, <1>5 DEF Uncounted
  <2> QED
    BY <1>3, <1>4, <1>8, <2>1, <2>2, <2>3 DEF Counts
<1>10. IdleOf(c) = UnstartedOf(e, caller'.pc, caller'.i)
  <2>1. CASE i # Submits
    BY <1>1, <1>3, <1>5, <2>1 DEF UnstartedOf
  <2>2. CASE i = Submits
    <3>1. (i + 1)..N = {}
      BY <1>3, <1>6, <2>2
    <3> QED
      BY <1>1, <1>3, <1>5, <2>2, <3>1 DEF UnstartedOf
  <2> QED
    BY <2>1, <2>2
<1>11. e.live /\ c[1] # "validating"
  BY <1>3, <1>4, <1>7, Shape
<1>12. caller'.pc # "ok" => caller'.i <= Submits
  BY <1>3, <1>5, <1>6
<1>13. caller'.pc \notin {"release", "cancel", "error"}
  BY <1>5
<1> QED
  BY <1>1, <1>3, <1>4, <1>5, <1>7, <1>9, <1>10, <1>11, <1>12, <1>13, CompleteAtOnce

\* The calling thread releases the tracker of a refused scan.
LEMMA ReleaseTrackerInv ==
  ASSUME Unraced, Inv, ReleaseTracker
  PROVE  Inv'
<1>1. /\ caller.pc = "release" /\ tracker' = tracker + 1 /\ caller' = [caller EXCEPT !.pc = "cancel"]
      /\ UNCHANGED <<ex, cmd, loop, listener, round, failed>>
  BY DEF ReleaseTracker
<1>2. TypeOK /\ CallerInv /\ LiveInv /\ ex.live /\ Kind = "scan" /\ "push" \in SubmitErrors
  BY <1>1 DEF Inv, CallerInv, Refusing
<1>3. /\ caller' \in [pc : {"submit", "release", "cancel", "ok", "error"}, i : 1..(Cap + 1), req : Requests]
      /\ caller'.pc = "cancel" /\ caller'.i = caller.i /\ caller'.req = caller.req
  BY <1>1, <1>2 DEF TypeOK
<1>4. OneByOne
  BY <1>2 DEF Unraced, OneByOne, TypeOK, SubmitErrors, Kind, Concurrent
<1>5. /\ Kind' = Kind /\ N' = N /\ Validate' = Validate /\ OneByOne' = OneByOne /\ Submits' = Submits
      /\ SubmitErrors' = SubmitErrors
  BY <1>3, SameRequest
<1>6. tracker' = 1 /\ listener'.calls = 0
  BY <1>1, <1>2 DEF LiveInv
<1>7. TypeOK'
  BY <1>1, <1>2, <1>3, <1>6 DEF TypeOK
<1>8. CallerInv'
  BY <1>1, <1>2, <1>3, <1>5 DEF CallerInv, Refusing
<1>9. Idle' = Unstarted' /\ Sizes' /\ Validation'
  BY <1>1, <1>2, <1>3, <1>5, Shape DEF LiveInv, Idle, IdleOf, Unstarted, UnstartedOf, Sizes, Validation
<1>10. CountsOne' /\ Errors'
  BY <1>1, <1>2, <1>3, <1>4 DEF LiveInv, CountsOne, Errors, Working, WorkingOf
<1> QED
  BY <1>1, <1>2, <1>3, <1>4, <1>5, <1>6, <1>7, <1>8, <1>9, <1>10 DEF Inv, LiveInv

\* as_event_executor_cancel: the commands that were never queued are counted at
\* once, and whoever counts the last frees the executor.
LEMMA CancelInv ==
  ASSUME Unraced, Inv, Cancel
  PROVE  Inv'
<1> DEFINE i == caller.i
           queued_count == IF Validate THEN 0 ELSE caller.i - 1
           n == ex.count + (IF ex.max_concurrent = 1 THEN 1 ELSE ex.max - queued_count)
           e == [ex EXCEPT !.notify = FALSE, !.valid = FALSE, !.count = n]
           c == NodesReleased(cmd)
<1>1. /\ caller.pc = "cancel" /\ caller' = [caller EXCEPT !.pc = "error"]
      /\ IF IsComplete(e) THEN Free(e, c) ELSE ex' = e /\ cmd' = c
      /\ UNCHANGED <<loop, listener, tracker, round, failed>>
  <2>1. [Silenced(ex) EXCEPT !.count = @ + (IF ex.max_concurrent = 1 THEN 1 ELSE Unqueued(ex, queued_count))] = e
    <3>1. ex \in Executor
      BY DEF Inv, TypeOK
    <3> QED
      BY <3>1 DEF Silenced, Unqueued, Executor
  <2> QED
    BY <2>1 DEF Cancel
<1>2. TypeOK /\ CallerInv /\ LiveInv /\ ex.live /\ "push" \in SubmitErrors
  BY <1>1 DEF Inv, CallerInv, Refusing
<1>3. /\ caller' \in [pc : {"submit", "release", "cancel", "ok", "error"}, i : 1..(Cap + 1), req : Requests]
      /\ caller'.pc = "error" /\ caller'.i = caller.i /\ caller'.req = caller.req
  BY <1>1, <1>2 DEF TypeOK
<1>4. /\ Kind' = Kind /\ N' = N /\ Validate' = Validate /\ OneByOne' = OneByOne /\ Submits' = Submits
      /\ SubmitErrors' = SubmitErrors
  BY <1>3, SameRequest
<1>5. (Kind = "scan" <=> OneByOne)
  BY <1>2 DEF Unraced, OneByOne, TypeOK, SubmitErrors, Kind, Concurrent
<1>6. /\ i \in Nat /\ i >= 1 /\ i <= N /\ N \in Nat /\ (Validate \/ OneByOne => i = 1) /\ N <= Cap /\ i <= Submits
      /\ ex \in Executor /\ ex.count \in Nat /\ ex.max \in Nat /\ ex.queued \in Nat
  BY <1>1, <1>2, Shape DEF CallerInv, TypeOK, Executor
<1>7. ex.max = N /\ (Kind # "batch" => ex.queued = i) /\ Idle = (i + 1)..N
  BY <1>1, <1>2, <1>6 DEF LiveInv, Sizes, Unstarted, UnstartedOf
<1>8. /\ cmd \in [Ids -> CmdState] /\ c \in [Ids -> CmdState] /\ WorkingOf(c) = Working
      /\ IdleOf(c) = IF Kind = "batch" THEN {} ELSE Idle
  <2>1. cmd \in [Ids -> CmdState]
    BY <1>2 DEF TypeOK
  <2> QED
    BY <2>1 DEF NodesReleased, CmdState, WorkingOf, Working, IdleOf, Idle, Active
<1>9. Cardinality(Idle) = N - i /\ Cardinality(Working) \in Nat
  <2>1. i + 1 \in Nat
    BY <1>6
  <2>2. Cardinality((i + 1)..N) = IF i + 1 <= N THEN N - (i + 1) + 1 ELSE 0
    BY <1>6, <2>1, IntervalSize, Zenon
  <2>3. Cardinality((i + 1)..N) = N - i
    BY <1>6, <2>2
  <2>4. Cardinality(Idle) = N - i
    BY <1>7, <2>3, Zenon
  <2>5. Working \in SUBSET Ids
    BY DEF Working, WorkingOf
  <2> QED
    BY <1>2, <2>4, <2>5, Finite
<1>10. n \in Nat /\ (ex.max_concurrent = 1 => n = ex.count + 1)
       /\ (ex.max_concurrent # 1 => n = ex.count + N - queued_count)
  BY <1>6, <1>7
<1> HIDE DEF n, c
<1>11. /\ e \in Executor /\ e.count = n /\ e.max = ex.max /\ e.queued = ex.queued
       /\ e.max_concurrent = ex.max_concurrent /\ e.notify = FALSE /\ e.valid = FALSE
       /\ e.err = ex.err /\ e.live = ex.live
  BY <1>6, <1>10, Zenon DEF Executor
<1> HIDE DEF e
<1>12. ~OneByOne => /\ ex.max_concurrent = N /\ (Kind = "batch" => ex.queued = N)
                    /\ ex.count + Cardinality(Working) = i - 1
  <2>1. SUFFICES ASSUME ~OneByOne
                 PROVE  /\ ex.max_concurrent = N /\ (Kind = "batch" => ex.queued = N)
                        /\ ex.count + Cardinality(Working) = i - 1
    OBVIOUS
  <2>2. Counts(ex, cmd, caller.pc, 0)
    BY <1>2, <2>1 DEF LiveInv
  <2>3. ex.max = ex.count + 0 + Cardinality(Working) + Cardinality(Idle) + 1
    <3>1. Uncounted(cmd, caller.pc) = Cardinality(Idle) + 1
      BY <1>1 DEF Uncounted, Idle
    <3>2. ex.max = ex.count + 0 + Cardinality(Working) + Uncounted(cmd, caller.pc)
      BY <2>2 DEF Counts, Working
    <3> QED
      BY <1>6, <1>9, <3>1, <3>2
  <2>4. ex.count + Cardinality(Working) = i - 1
    <3> DEFINE w == Cardinality(Working)
               u == Cardinality(Idle)
    <3>1. w \in Nat /\ u = N - i /\ ex.max = N /\ ex.max = ex.count + 0 + w + u + 1
      BY <1>7, <1>9, <2>3
    <3> HIDE DEF w, u
    <3>2. ex.count + w = i - 1
      BY <1>6, <3>1
    <3> QED
      BY <3>2 DEF w
  <2> QED
    BY <1>7, <2>2, <2>4 DEF Counts
<1>13. ~OneByOne => n = ex.count + N - i + 1
  <2>1. SUFFICES ASSUME ~OneByOne PROVE n = ex.count + N - i + 1
    OBVIOUS
  <2>2. CASE ex.max_concurrent = 1
    BY <1>6, <1>10, <1>12, <2>1, <2>2
  <2>3. CASE ex.max_concurrent # 1
    <3>1. queued_count = i - 1
      BY <1>6
    <3> QED
      BY <1>6, <1>10, <2>3, <3>1
  <2> QED
    BY <2>2, <2>3
<1>14. n <= ex.max
  <2>1. CASE OneByOne
    BY <1>2, <1>6, <1>7, <1>10, <2>1, <1>1 DEF LiveInv, CountsOne
  <2>2. CASE ~OneByOne
    BY <1>6, <1>7, <1>9, <1>12, <1>13, <2>2
  <2> QED
    BY <2>1, <2>2
<1>15. listener.calls = 0 /\ listener' = listener /\ tracker' = (IF Kind = "scan" THEN 1 ELSE 0)
  BY <1>1, <1>2 DEF LiveInv
<1>16. TypeOK /\ caller'.pc # "ok" /\ caller'.i <= Submits
  BY <1>2, <1>3, <1>6
<1>17. CASE IsComplete(e)
  <2>1. Working = {}
    <3>1. CASE OneByOne
      BY <1>1, <1>2, <3>1 DEF LiveInv, CountsOne
    <3>2. CASE ~OneByOne
      <4>1. n = N
        <5>1. n = IF ex.max_concurrent = 1 THEN ex.queued ELSE ex.max
          BY <1>11, <1>17 DEF IsComplete
        <5> QED
          BY <1>6, <1>7, <1>12, <3>2, <5>1
      <4>2. Cardinality(Working) = 0
        <5> DEFINE w == Cardinality(Working)
        <5>1. w \in Nat /\ ex.count + w = i - 1 /\ N = ex.count + N - i + 1
          BY <1>9, <1>12, <1>13, <3>2, <4>1
        <5> HIDE DEF w
        <5>2. w = 0
          BY <1>6, <5>1
        <5> QED
          BY <5>2 DEF w
      <4>3. Working \in SUBSET Ids
        BY DEF Working, WorkingOf
      <4> QED
        BY <1>2, <4>2, <4>3, Finite
    <3> QED
      BY <3>1, <3>2
  <2>2. IdleOf(c) \subseteq (e.queued + 1)..e.max
    BY <1>7, <1>8, <1>11
  <2>3. Free(e, c) /\ e.count <= e.max /\ WorkingOf(c) = {}
    BY <1>1, <1>8, <1>11, <1>14, <1>17, <2>1
  <2>4. /\ ex' \in Executor /\ ex'.count <= ex'.max /\ ~ex'.live
        /\ cmd' \in [Ids -> CmdState] /\ Working' = {} /\ Idle' = {}
    BY <1>2, <1>8, <1>11, <2>2, <2>3, Frees
  <2>5. TypeOK'
    BY <1>1, <1>2, <1>3, <2>4 DEF TypeOK
  <2>6. CallerInv'
    BY <1>2, <1>3, <1>4, <1>16 DEF CallerInv, Refusing
  <2>7. FreedInv'
    BY <1>3, <1>4, <1>15, <2>4 DEF FreedInv
  <2> QED
    BY <2>4, <2>5, <2>6, <2>7 DEF Inv
<1>18. CASE ~IsComplete(e)
  <2>1. ex' = e /\ cmd' = c
    BY <1>1, <1>18
  <2>2. ~OneByOne
    <3>1. OneByOne => IsComplete(e)
      BY <1>1, <1>2, <1>5, <1>6, <1>7, <1>10, <1>11 DEF LiveInv, CountsOne, IsComplete
    <3> QED
      BY <1>18, <3>1
  <2>3. TypeOK'
    BY <1>1, <1>2, <1>3, <1>8, <1>11, <1>14, <2>1 DEF TypeOK
  <2>4. CallerInv'
    BY <1>2, <1>3, <1>4, <1>16 DEF CallerInv, Refusing
  <2>5. Idle' = Unstarted'
    BY <1>3, <1>4, <1>7, <1>8, <1>11, <2>1, <1>2 DEF Idle, Unstarted, UnstartedOf, LiveInv
  <2>6. Sizes'
    <3>1. Kind = "batch" => \A k \in 1..N : c[k] # "none"
      BY <1>2, <1>6, Shape DEF c, NodesReleased, LiveInv, Sizes, Ids
    <3> QED
      BY <1>2, <1>3, <1>4, <1>6, <1>7, <1>11, <1>12, <2>1, <2>2, <3>1 DEF Sizes
  <2>7. Validation'
    <3>1. \A k \in Ids : c[k] \in {"validating", "ending"} => c[k] = cmd[k]
      BY <1>8 DEF c, NodesReleased
    <3>2. cmd[1] # "validating"
      BY <1>1, <1>2 DEF LiveInv, Validation
    <3> QED
      BY <1>2, <1>4, <2>1, <3>1, <3>2, Shape DEF Validation, LiveInv
  <2>8. Counts(ex, cmd, caller.pc, 0)'
    <3>1. Uncounted(c, "error") = 0
      BY DEF Uncounted
    <3>2. N = n + 0 + Cardinality(Working) + 0
      BY <1>6, <1>9, <1>12, <1>13, <2>2
    <3>3. Cardinality(WorkingOf(c)) = Cardinality(Working)
      BY <1>8, Zenon
    <3>4. Counts(e, c, "error", 0)
      BY <1>7, <1>11, <1>12, <2>2, <3>1, <3>2, <3>3 DEF Counts
    <3> QED
      BY <1>3, <1>4, <2>1, <3>4 DEF Counts, Uncounted
  <2>9. Errors'
    BY <1>3, <1>11, <2>1 DEF Errors
  <2>10. tracker' = (IF Kind' = "scan" /\ caller'.pc = "cancel" THEN 1 ELSE 0) /\ listener'.calls = 0
    BY <1>4, <1>3, <1>5, <1>15, <2>2
  <2>11. ex'.live
    BY <1>2, <1>11, <2>1
  <2> QED
    BY <1>4, <2>2, <2>3, <2>4, <2>5, <2>6, <2>7, <2>8, <2>9, <2>10, <2>11 DEF Inv, LiveInv
<1> QED
  BY <1>17, <1>18

-----------------------------------------------------------------------------
(* The theorems.                                                            *)

\* The invariant holds initially.
LEMMA InitInv == Init => Inv
<1> SUFFICES ASSUME Init PROVE Inv
  OBVIOUS
<1>1. PICK req \in Requests : caller = [pc |-> "submit", i |-> 1, req |-> req]
  BY DEF Init
<1>2. /\ req \in Request /\ Cap \in Nat /\ Cap >= 1 /\ MaxRounds \in Nat /\ MaxRounds >= 1
      /\ (req.validate => req.kind = "query") /\ (~req.concurrent => req.kind = "scan")
  BY ExecutorAssumption
<1>3. /\ Kind = req.kind /\ N = req.n /\ Validate = req.validate /\ Concurrent = req.concurrent
      /\ caller.pc = "submit" /\ caller.i = 1
  BY <1>1 DEF Kind, N, Validate, Concurrent
<1>4. N \in Nat /\ N >= 1 /\ N <= Cap
  BY <1>2, <1>3 DEF Request
<1> DEFINE q == IF Kind = "batch" THEN N ELSE 0
           mc == MaxConcurrent(N)
<1>5. q \in Nat /\ mc \in Nat /\ mc = IF OneByOne THEN 1 ELSE N
  BY <1>4 DEF MaxConcurrent, OneByOne
<1>6. ex = [count |-> 0, queued |-> q, max |-> N, max_concurrent |-> mc, valid |-> TRUE, notify |-> TRUE,
            err |-> FALSE, live |-> TRUE, error_row |-> FALSE]
  BY DEF Init, NewExecutor
<1> HIDE DEF q, mc
<1>7. /\ ex \in Executor /\ ex.count = 0 /\ ex.queued = q /\ ex.max = N /\ ex.max_concurrent = mc
      /\ ex.valid /\ ex.notify /\ ex.live
  BY <1>4, <1>5, <1>6 DEF Executor
<1>8. cmd \in [Ids -> CmdState] /\ Working = {} /\ Idle = 1..N
  <2>1. cmd \in [Ids -> CmdState] /\ \A k \in Ids : cmd[k] = IF k <= N THEN "idle" ELSE "none"
    BY DEF Init, CmdState
  <2>2. Working = {}
    BY <2>1 DEF Working, WorkingOf, Active
  <2>3. Idle = {k \in Ids : k <= N}
    BY <2>1 DEF Idle, IdleOf
  <2>4. {k \in Ids : k <= N} = 1..N
    BY <1>2, <1>4 DEF Ids
  <2> QED
    BY <2>1, <2>2, <2>3, <2>4
<1>9. listener = [calls |-> 0, err |-> FALSE, stopped |-> FALSE] /\ tracker = 0 /\ round = 1 /\ failed = FALSE /\ loop = "idle"
  BY DEF Init
<1>10. TypeOK
  <2>1. listener \in [calls : Nat, err : BOOLEAN, stopped : BOOLEAN]
    BY <1>9
  <2>2. caller \in [pc : {"submit", "release", "cancel", "ok", "error"}, i : 1..(Cap + 1), req : Requests]
    BY <1>1, <1>2
  <2>3. failed \in BOOLEAN
    BY <1>9
  <2> QED
    BY <1>2, <1>4, <1>7, <1>8, <1>9, <2>1, <2>2, <2>3 DEF TypeOK
<1>11. CallerInv
  BY <1>3, <1>7, <1>10, Shape DEF CallerInv, Refusing
<1>12. Idle = Unstarted /\ Sizes /\ Validation
  <2>1. \A k \in Ids : cmd[k] \in {"idle", "none"} /\ (k <= N => cmd[k] = "idle")
    BY DEF Init
  <2>2. 1..N \subseteq Ids /\ 1 \in Ids
    BY <1>10, Shape DEF Ids
  <2>3. Idle = Unstarted
    BY <1>3, <1>4, <1>7, <1>8 DEF Unstarted, UnstartedOf, q
  <2>4. Sizes
    BY <1>3, <1>4, <1>7, <2>1, <2>2 DEF Sizes, q
  <2> QED
    BY <2>1, <2>2, <2>3, <2>4 DEF Validation
<1>13. ~OneByOne => Counts(ex, cmd, caller.pc, 0)
  <2>1. 1 \in Nat
    OBVIOUS
  <2>2. Cardinality(1..N) = IF 1 <= N THEN N - 1 + 1 ELSE 0
    BY <1>4, <2>1, IntervalSize, Zenon
  <2>3. Cardinality(Idle) = N
    BY <1>4, <1>8, <2>2
  <2>4. Cardinality(Working) = 0
    BY <1>8, FS_EmptySet
  <2> QED
    BY <1>3, <1>4, <1>5, <1>7, <2>3, <2>4 DEF Counts, Uncounted, Working, Idle, q
<1>14. OneByOne => CountsOne
  BY <1>3, <1>5, <1>7, <1>8, <1>9 DEF CountsOne
<1>15. Errors
  BY <1>3, <1>7, <1>9 DEF Errors
<1> QED
  BY <1>3, <1>7, <1>9, <1>10, <1>11, <1>12, <1>13, <1>14, <1>15 DEF Inv, LiveInv

\* Every step keeps the invariant.
LEMMA NextInv == Unraced /\ Inv /\ [Next]_vars => Inv'
<1> SUFFICES ASSUME Unraced, Inv, [Next]_vars PROVE Inv'
  OBVIOUS
<1>1. CASE CallerNext
  BY <1>1, SubmitInv, SubmitFailsInv, SubmitSingleFailsInv, ReleaseTrackerInv, CancelInv DEF CallerNext
<1>2. CASE SaveError
  BY <1>2, SaveErrorInv
<1>3. ASSUME NEW c \in Ids, Finishes(c) \/ BatchSplits(c) PROVE Inv'
  BY <1>3, CommandCompletesInv, CommandFailsInv, UserAbortsInv, BatchSplitsInv, ValidateBeginsInv,
     ValidateNextInv, ValidateEndsInv DEF Finishes
<1>4. CASE UNCHANGED vars
  <2>1. UNCHANGED <<ex, cmd, caller, loop, listener, tracker, round, failed>>
    BY <1>4 DEF vars
  <2>2. /\ Kind' = Kind /\ N' = N /\ Validate' = Validate /\ Concurrent' = Concurrent /\ SubmitErrors' = SubmitErrors
    BY <2>1 DEF Kind, N, Validate, Concurrent, SubmitErrors
  <2>3. Submits' = Submits /\ (OneByOne' <=> OneByOne) /\ (Refusing' <=> Refusing)
    BY <2>1, <2>2 DEF Submits, OneByOne, Refusing, MaxConcurrent
  <2>4. Working' = Working /\ Idle' = Idle /\ Unstarted' = Unstarted
    BY <2>1, <2>2 DEF Working, WorkingOf, Idle, IdleOf, Unstarted, UnstartedOf
  <2>5. TypeOK' <=> TypeOK
    BY <2>1 DEF TypeOK
  <2>6. CallerInv' <=> CallerInv
    BY <2>1, <2>2, <2>3 DEF CallerInv
  <2>7. Counts(ex, cmd, caller.pc, 0)' <=> Counts(ex, cmd, caller.pc, 0)
    BY <2>1, <2>2 DEF Counts, Uncounted, WorkingOf, IdleOf
  <2>8. (CountsOne' <=> CountsOne) /\ (Errors' <=> Errors)
    BY <2>1, <2>4 DEF CountsOne, Errors
  <2>9. (Sizes' <=> Sizes) /\ (Validation' <=> Validation)
    BY <2>1, <2>2, <2>4 DEF Sizes, Validation
  <2>10. LiveInv' <=> LiveInv
    BY <2>1, <2>2, <2>3, <2>4, <2>7, <2>8, <2>9 DEF LiveInv
  <2>11. FreedInv' <=> FreedInv
    BY <2>1, <2>2, <2>4 DEF FreedInv
  <2> QED
    BY <2>1, <2>5, <2>6, <2>10, <2>11 DEF Inv
<1> QED
  BY <1>1, <1>2, <1>3, <1>4 DEF Next, LoopNext, Terminated

\* The executor as_event_executor_destroy frees has no command left, in whatever
\* order the calling thread and the event loop count theirs.
THEOREM FreedQuietly ==
  ASSUME Unraced
  PROVE  Spec => []FreedWhenQuiet
<1>1. Inv => FreedWhenQuiet
  <2> SUFFICES ASSUME Inv PROVE FreedWhenQuiet
    OBVIOUS
  <2>1. TypeOK /\ CallerInv
    BY DEF Inv
  <2>2. CASE ex.live
    <3>1. tracker = IF Kind = "scan" /\ caller.pc = "cancel" THEN 1 ELSE 0
      BY <2>2 DEF Inv, LiveInv
    <3>2. tracker > 0 => Working = {}
      <4>1. SUFFICES ASSUME tracker > 0 PROVE Working = {}
        OBVIOUS
      <4>2. Kind = "scan" /\ caller.pc = "cancel" /\ "push" \in SubmitErrors
        BY <2>1, <3>1, <4>1 DEF CallerInv, Refusing
      <4>3. OneByOne
        BY <2>1, <4>2 DEF Unraced, OneByOne, TypeOK, SubmitErrors, Kind, Concurrent
      <4> QED
        BY <2>2, <4>2, <4>3 DEF Inv, LiveInv, CountsOne
    <3> QED
      BY <2>1, <2>2, <3>1, <3>2 DEF FreedWhenQuiet, Working, WorkingOf
  <2>3. CASE ~ex.live
    <3>1. Working = {} /\ Idle = {} /\ tracker = IF Kind = "scan" THEN 1 ELSE 0
      BY <2>3 DEF Inv, FreedInv
    <3>2. \A k \in Ids : cmd[k] \in CmdState /\ cmd[k] \notin Active /\ cmd[k] # "idle"
      BY <2>1, <3>1 DEF Working, WorkingOf, Idle, IdleOf, TypeOK
    <3> QED
      BY <2>1, <2>3, <3>1, <3>2 DEF FreedWhenQuiet, CmdState
  <2> QED
    BY <2>2, <2>3
<1> QED
  BY <1>1, InitInv, NextInv, PTL DEF Spec

\* The user hears of the end of a request once, and not at all of one that was
\* refused or that the user's own listener ended.
THEOREM ToldOnce ==
  ASSUME Unraced
  PROVE  Spec => []AnsweredOnce
<1>1. Inv => AnsweredOnce
  <2> SUFFICES ASSUME Inv PROVE AnsweredOnce
    OBVIOUS
  <2>1. CASE ex.live
    BY <2>1 DEF Inv, LiveInv, AnsweredOnce
  <2>2. CASE ~ex.live
    <3>1. /\ listener.calls = IF listener.stopped \/ caller.pc = "error" THEN 0 ELSE 1
          /\ caller.pc \notin {"submit", "release", "cancel"}
      BY <2>2 DEF Inv, FreedInv, CallerInv
    <3> QED
      BY <2>2, <3>1 DEF AnsweredOnce
  <2> QED
    BY <2>1, <2>2
<1> QED
  BY <1>1, InitInv, NextInv, PTL DEF Spec

\* An error that a command handed in is in the answer, although it is saved only
\* after the lock was released.
THEOREM ErrorsTold ==
  ASSUME Unraced
  PROVE  Spec => []NoErrorLost
<1>1. Inv => NoErrorLost
  BY DEF Inv, LiveInv, FreedInv, NoErrorLost
<1> QED
  BY <1>1, InitInv, NextInv, PTL DEF Spec

=============================================================================
