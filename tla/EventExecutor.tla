--------------------------- MODULE EventExecutor ---------------------------
(***************************************************************************)
(* The as_event_executor: one asynchronous batch, scan or query that was   *)
(* split into one command per node.  Two threads share it.  The calling    *)
(* thread submits the commands and, when a submission fails, cancels the   *)
(* rest; the event loop thread finishes commands one at a time.  They only *)
(* agree through count, queued and max, and whoever brings count to its    *)
(* final value notifies the user and frees the executor.                   *)
(*                                                                         *)
(* A command is numbered from 1 (the code counts from 0).                  *)
(***************************************************************************)
EXTENDS Naturals, FiniteSets

CONSTANTS
    Requests,    \* the batches, scans and queries to consider
    Cap,         \* bound: command numbers
    MaxRounds    \* bound: rounds of a partition scan

\* What a request is: a batch, a "scan" (any partition scan or query) or a
\* query that is not by partition; the nodes it is split over; whether it runs
\* on all of them at once (scan->concurrent) and validates the cluster
\* (policy->fail_on_cluster_change); which submissions may be refused, of any
\* command ("push") or of a single-record command; and how many more commands
\* splits of a batch may make.
Request ==
    [kind : {"batch", "scan", "query"}, n : 1..Cap, concurrent : BOOLEAN,
     validate : BOOLEAN, errors : SUBSET {"push", "single"}, splits : 0..Cap]

ASSUME ExecutorAssumption ==
    /\ Cap \in Nat \ {0} /\ MaxRounds \in Nat \ {0}
    /\ Requests \subseteq Request
    /\ \A r \in Requests :
          /\ r.n + r.splits <= Cap
          /\ r.validate => r.kind = "query"
          /\ ~r.concurrent => r.kind = "scan"

VARIABLES
    ex,        \* the as_event_executor fields that control it
    cmd,       \* command number -> its state
    caller,    \* the submitting thread: its request, where it is, which command is next
    loop,      \* "idle", or "saveErr": between unlock and the save of err
    listener,  \* completion calls made to the user, what they said, and
               \* whether the user's record listener returned false
    tracker,   \* releases of the partition tracker ("scan")
    round,     \* pt->iteration
    failed     \* history: a command of this round handed in an error

vars == <<ex, cmd, caller, loop, listener, tracker, round, failed>>

Kind == caller.req.kind
N == caller.req.n
Concurrent == caller.req.concurrent
Validate == caller.req.validate
SubmitErrors == caller.req.errors

Ids == 1..Cap
Active == {"validating", "running", "ending"}
CmdState == {"none", "idle", "done", "gone"} \cup Active

Executor == [count : Nat, queued : Nat, max : Nat, max_concurrent : Nat,
             valid : BOOLEAN, notify : BOOLEAN, err : BOOLEAN, live : BOOLEAN,
             error_row : BOOLEAN]  \* as_async_batch_executor: a row failed

TypeOK ==
    /\ ex \in Executor /\ ex.count <= ex.max
    /\ cmd \in [Ids -> CmdState]
    /\ caller \in [pc : {"submit", "release", "cancel", "ok", "error"}, i : 1..(Cap + 1),
                   req : Requests]
    /\ loop \in {"idle", "saveErr"}
    /\ listener \in [calls : Nat, err : BOOLEAN, stopped : BOOLEAN]
    /\ tracker \in Nat
    /\ round \in 1..MaxRounds
    /\ failed \in BOOLEAN

-----------------------------------------------------------------------------
(* Creation.  A batch sets queued to max at once and creates each command   *)
(* when it submits it; a scan or query allocates every command first.       *)

MaxConcurrent(n) == IF Kind = "scan" /\ ~Concurrent THEN 1 ELSE n

NewExecutor(n, q) ==
    [count |-> 0, queued |-> q, max |-> n, max_concurrent |-> MaxConcurrent(n),
     valid |-> TRUE, notify |-> TRUE, err |-> FALSE, live |-> TRUE,
     error_row |-> FALSE]

Init ==
    /\ \E req \in Requests : caller = [pc |-> "submit", i |-> 1, req |-> req]
    /\ ex = NewExecutor(N, IF Kind = "batch" THEN N ELSE 0)
    /\ cmd = [c \in Ids |-> IF c <= N THEN "idle" ELSE "none"]
    /\ loop = "idle"
    /\ listener = [calls |-> 0, err |-> FALSE, stopped |-> FALSE]
    /\ tracker = 0
    /\ round = 1
    /\ failed = FALSE

-----------------------------------------------------------------------------
(* The executor's own operations.                                           *)

\* as_event_executor_destroy: the commands from queued on were never started.
DestroyedLeavesFirst(c, e) ==  \* mutant
    [k \in Ids |-> IF k \in (e.queued + 2)..e.max THEN "gone" ELSE c[k]]

Destroyed(c, e) ==
    [k \in Ids |-> IF k \in (e.queued + 1)..e.max THEN "gone" ELSE c[k]]

\* listener(err, ...) unless the user was already answered.  A batch with a
\* failed row is answered with AEROSPIKE_BATCH_FAILED.
Tell(e, l, err) ==
    listener' = IF e.notify
                THEN [l EXCEPT !.calls = @ + 1, !.err = err \/ e.error_row]
                ELSE l

Free(e, c) ==
    /\ ex' = [e EXCEPT !.live = FALSE]
    /\ cmd' = Destroyed(c, e)

\* complete_fn, then as_event_executor_destroy.  A partition scan first asks
\* the tracker whether it is finished; a further round gets a new executor,
\* submitted on this same event loop thread, where a push cannot fail.
CompleteFn(e, c, l, err) ==
    \/ /\ Kind = "scan" => err
       /\ Tell(e, l, err)
       /\ Free(e, c)
       /\ tracker' = IF Kind = "scan" THEN tracker + 1 ELSE tracker
       /\ failed' = (failed \/ err)
       /\ UNCHANGED round
    \/ /\ Kind = "scan" /\ ~err
       /\ \E trackerFails \in BOOLEAN : Tell(e, l, trackerFails)
       /\ Free(e, c)
       /\ tracker' = tracker + 1
       /\ failed' = (failed \/ err)
       /\ UNCHANGED round
    \/ /\ Kind = "scan" /\ ~err
       /\ round < MaxRounds
       /\ round' = round + 1
       /\ failed' = FALSE
       /\ \E n \in 1..N :
             /\ ex' = NewExecutor(n, MaxConcurrent(n))
             /\ cmd' = [k \in Ids |-> CASE k <= MaxConcurrent(n) -> "running"
                                        [] k \in (MaxConcurrent(n) + 1)..n -> "idle"
                                        [] OTHER -> "none"]
       /\ listener' = l
       /\ UNCHANGED tracker

\* as_event_executor_complete, c being the commands after the caller of it
\* released its own.  Running one by one, the next command is started.
ExecutorComplete(c, e0) ==
    LET e == [e0 EXCEPT !.count = @ + 1]
        next == e.count + e.max_concurrent
    IN  IF e.count = e.max
        THEN CompleteFn(e, c, listener, e.err)
        ELSE /\ IF next <= e.max /\ e.valid
                THEN /\ ex' = [e EXCEPT !.queued = @ + 1]
                     /\ cmd' = [c EXCEPT ![next] = "running"]
                ELSE ex' = e /\ cmd' = c
             /\ UNCHANGED <<listener, tracker, round, failed>>

\* The last command was counted: running one by one, commands that were not
\* started do not count.
IsComplete(e) == e.count = IF e.max_concurrent = 1 THEN e.queued ELSE e.max

\* as_event_executor_error(executor, err, n): the part under the lock, and
\* the completion if this was the last command.  Otherwise the first error is
\* saved after the lock is released (SaveError).
ExecutorError(c, e0, l, n) ==
    LET e == [e0 EXCEPT !.valid = FALSE,
                        !.count = @ + (IF e0.max_concurrent = 1 THEN 1 ELSE n)]
    IN  IF IsComplete(e)
        THEN CompleteFn(e, c, l, e0.valid \/ e.err) /\ loop' = "idle"
        ELSE /\ ex' = e /\ cmd' = c
             /\ failed' = TRUE
             /\ loop' = IF e0.valid THEN "saveErr" ELSE "idle"
             /\ listener' = l
             /\ UNCHANGED <<tracker, round>>

WithErrorForgets(e) == e  \* mutant
WithError(e) == [e EXCEPT !.err = TRUE]

SaveError ==
    /\ loop = "saveErr"
    /\ loop' = "idle"
    /\ ex' = WithError(ex)
    /\ UNCHANGED <<cmd, caller, listener, tracker, round, failed>>

-----------------------------------------------------------------------------
(* The calling thread.                                                      *)

\* Commands this thread submits itself: the first one only when the others
\* are started by the event loop (one by one, or after validation).
Submits == IF Validate THEN 1 ELSE MaxConcurrent(N)

Started == IF Validate THEN "validating" ELSE "running"

Advance ==
    caller' = [caller EXCEPT !.pc = IF caller.i = Submits THEN "ok" ELSE "submit", !.i = @ + 1]

\* as_event_command_execute hands the command to the event loop.
Submit ==
    /\ caller.pc = "submit"
    /\ cmd' = [cmd EXCEPT ![caller.i] = Started]
    /\ ex' = IF Kind = "batch" THEN ex ELSE [ex EXCEPT !.queued = @ + 1]
    /\ Advance
    /\ UNCHANGED <<loop, listener, tracker, round, failed>>

\* The push fails: as_event_command_execute has destroyed the command.  A
\* partition scan releases its tracker before it cancels the executor.
SubmitFails ==
    /\ "push" \in SubmitErrors
    /\ caller.pc = "submit"
    /\ cmd' = [cmd EXCEPT ![caller.i] = "gone"]
    /\ ex' = IF Kind = "batch" THEN ex ELSE [ex EXCEPT !.queued = @ + 1]
    /\ caller' = [caller EXCEPT !.pc = IF Kind = "scan" THEN "release" ELSE "cancel"]
    /\ UNCHANGED <<loop, listener, tracker, round, failed>>

\* A batch node with a single key runs as a single-record command.  When that
\* cannot be submitted the row records the error and the command counts as
\* complete, on this thread.
SubmitSingleFails ==
    /\ "single" \in SubmitErrors /\ Kind = "batch"
    /\ caller.pc = "submit"
    /\ ExecutorComplete([cmd EXCEPT ![caller.i] = "done"], [ex EXCEPT !.error_row = TRUE])
    /\ Advance
    /\ UNCHANGED loop

ReleaseTracker ==
    /\ caller.pc = "release"
    /\ tracker' = tracker + 1
    /\ caller' = [caller EXCEPT !.pc = "cancel"]
    /\ UNCHANGED <<ex, cmd, loop, listener, round, failed>>

\* A refused request must not reach the user's listener.
SilencedStillNotifies(e) == [e EXCEPT !.valid = FALSE]  \* mutant
Silenced(e) == [e EXCEPT !.notify = FALSE, !.valid = FALSE]

\* Commands that were never queued, given how many were.
Unqueued(e, queued_count) == e.max - queued_count

\* A batch releases the nodes of the commands it did not create.
NodesReleased(c) == [k \in Ids |-> IF Kind = "batch" /\ c[k] = "idle" THEN "gone" ELSE c[k]]

\* as_event_executor_cancel(executor, i), i commands having been queued.
Cancel ==
    /\ caller.pc = "cancel"
    /\ caller' = [caller EXCEPT !.pc = "error"]
    /\ LET queued_count == IF Validate THEN 0 ELSE caller.i - 1
           e == [Silenced(ex) EXCEPT !.count = @ + (IF ex.max_concurrent = 1 THEN 1
                                                   ELSE Unqueued(ex, queued_count))]
           c == NodesReleased(cmd)
       IN  IF IsComplete(e) THEN Free(e, c) ELSE ex' = e /\ cmd' = c
    /\ UNCHANGED <<loop, listener, tracker, round, failed>>

-----------------------------------------------------------------------------
(* The event loop thread.                                                   *)

\* The last response of a command: the executor hears of it now, or after the
\* cluster was found stable.
CommandCompletes(c) ==
    /\ loop = "idle"
    /\ cmd[c] = "running"
    /\ IF Validate
       THEN /\ cmd' = [cmd EXCEPT ![c] = "ending"]
            /\ UNCHANGED <<ex, listener, tracker, round, failed>>
       ELSE ExecutorComplete([cmd EXCEPT ![c] = "done"], ex)
    /\ UNCHANGED <<caller, loop>>

\* as_event_notify_error: the command failed for good (as_async_batch_error
\* and as_single_handle_error mark the batch).
CommandFails(c) ==
    /\ loop = "idle"
    /\ cmd[c] = "running"
    /\ ExecutorError([cmd EXCEPT ![c] = "done"],
                     [ex EXCEPT !.error_row = Kind = "batch"], listener, 1)
    /\ UNCHANGED caller

\* The user's record listener returned false: it is not called again.
Stopped(e) == [e EXCEPT !.notify = FALSE]

UserAborts(c) ==
    /\ loop = "idle"
    /\ Kind # "batch"
    /\ cmd[c] = "running"
    /\ ExecutorError([cmd EXCEPT ![c] = "done"], Stopped(ex),
                     [listener EXCEPT !.stopped = TRUE], 1)
    /\ UNCHANGED caller

\* b commands take the place of one.
SplitMax(b) == ex.max + b - 1

\* as_batch_retry_async: the keys of a failed batch command now live on other
\* nodes, so b new commands replace it.  The commands from i + 1 on fail to
\* compress (i = b: none does).
BatchSplits(c) ==
    /\ loop = "idle"
    /\ Kind = "batch"
    /\ cmd[c] = "running"
    /\ \E new \in SUBSET {k \in 1..(N + caller.req.splits) : cmd[k] = "none"} : \E sent \in SUBSET new :
          LET b == Cardinality(new)
              i == Cardinality(sent)
              split == [k \in Ids |-> CASE k = c \/ k \in new \ sent -> "gone"
                                        [] k \in sent -> "running"
                                        [] OTHER -> cmd[k]]
              e == [ex EXCEPT !.max = SplitMax(b), !.max_concurrent = SplitMax(b),
                              !.queued = SplitMax(b)]
          IN  /\ b > 0
              /\ IF i = b
                 THEN /\ ex' = e /\ cmd' = split
                      /\ UNCHANGED <<loop, listener, tracker, round, failed>>
                 ELSE ExecutorError(split, e, listener, b - i)
    /\ UNCHANGED caller

\* Commands an unstable cluster takes down: all of them at first, then one.
BeginFailuresOne == 1  \* mutant
BeginFailures == ex.max
NextFailuresRest(c) == ex.max - c + 1  \* mutant
NextFailures(c) == 1

\* as_validate_begin_listener: the first cluster-stable answer.  A good one
\* starts the first command and the validation of all the others.
ValidateBegins(c) ==
    /\ loop = "idle"
    /\ c = 1 /\ cmd[c] = "validating"
    /\ \/ /\ cmd' = [k \in Ids |-> CASE k = 1 -> "running"
                                     [] k \in 2..ex.max_concurrent -> "validating"
                                     [] OTHER -> cmd[k]]
          /\ ex' = [ex EXCEPT !.queued = ex.max_concurrent]
          /\ UNCHANGED <<loop, listener, tracker, round, failed>>
       \/ ExecutorError([cmd EXCEPT ![c] = "done"], ex, listener, BeginFailures)
    /\ UNCHANGED caller

\* as_validate_next_listener.
ValidateNext(c) ==
    /\ loop = "idle"
    /\ c # 1 /\ cmd[c] = "validating"
    /\ \/ /\ cmd' = [cmd EXCEPT ![c] = "running"]
          /\ UNCHANGED <<ex, loop, listener, tracker, round, failed>>
       \/ ExecutorError([cmd EXCEPT ![c] = "done"], ex, listener, NextFailures(c))
    /\ UNCHANGED caller

\* as_validate_end_listener.
ValidateEnds(c) ==
    /\ loop = "idle"
    /\ cmd[c] = "ending"
    /\ \/ ExecutorComplete([cmd EXCEPT ![c] = "done"], ex) /\ UNCHANGED loop
       \/ ExecutorError([cmd EXCEPT ![c] = "done"], ex, listener, 1)
    /\ UNCHANGED caller

CallerNext == Submit \/ SubmitFails \/ SubmitSingleFails \/ ReleaseTracker \/ Cancel

Finishes(c) ==
    \/ CommandCompletes(c)
    \/ CommandFails(c)
    \/ UserAborts(c)
    \/ ValidateBegins(c)
    \/ ValidateNext(c)
    \/ ValidateEnds(c)

LoopNext == SaveError \/ \E c \in Ids : Finishes(c) \/ BatchSplits(c)

\* Everything is over: nothing is left to do and nothing happens.
Terminated ==
    /\ ~ex.live
    /\ loop = "idle"
    /\ caller.pc \in {"ok", "error"}
    /\ \A c \in Ids : cmd[c] \notin Active
    /\ UNCHANGED vars

Next == CallerNext \/ LoopNext \/ Terminated

Spec == Init /\ [][Next]_vars

-----------------------------------------------------------------------------
(* Properties.                                                              *)

\* The executor is never freed while one of its commands is still queued on
\* or running in the event loop: that command would report to freed memory.
\* When it is gone every command was run to its end or destroyed.  The same
\* holds of the partition tracker of a scan, which is released once.  The counters
\* that decide it stay in their ranges.
FreedWhenQuiet ==
    /\ TypeOK
    /\ ~ex.live \/ tracker > 0 => \A c \in Ids : cmd[c] \notin Active
    /\ ~ex.live => \A c \in Ids : cmd[c] \in {"none", "done", "gone"}
    /\ ~ex.live /\ Kind = "scan" => tracker = 1
    /\ tracker <= 1

\* The completion listener is called at most once, never for a request whose
\* submission returned an error, and when the executor is gone it was called
\* exactly once unless the user's own listener ended the request.
AnsweredOnce ==
    LET refused == caller.pc \in {"release", "cancel", "error"}
    IN  /\ listener.calls <= 1
        /\ refused => listener.calls = 0
        /\ ~ex.live => listener.calls = IF listener.stopped \/ refused THEN 0 ELSE 1

\* An error that any command reported reaches the user: the request is not
\* answered with success.
NoErrorLost == listener.calls = 1 /\ failed => listener.err

\* Neither thread touches the executor's fields after it was freed, also when a
\* submission is refused and the calling thread may be the last to count:
\* as_event_executor_cancel and the handlers on the event loop agree, under the
\* lock, on who is the last to use the executor.
NotUsedAfterRefusal == [][~ex.live /\ SubmitErrors # {} => UNCHANGED ex]_vars
=============================================================================
