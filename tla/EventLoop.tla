------------------------------ MODULE EventLoop ------------------------------
(***************************************************************************)
(* The asynchronous command engine of one event loop (as_event.c with the  *)
(* libev binding as_event_ev.c): commands are queued to the loop thread,   *)
(* admitted or delayed, given a pooled or new connection, written, read,   *)
(* timed out, retried, reported to their listener and freed, while the     *)
(* clusters that share the loop may be closed.                             *)
(*                                                                         *)
(* The loop is one thread.  What it still has to do when a function calls  *)
(* back into the engine (a listener that issues a command, the release of  *)
(* a command that drains the delay queue) is kept in "stack", a stack of   *)
(* frames; timers, socket events and queued callbacks run when it is empty.*)
(***************************************************************************)
EXTENDS Integers, Sequences, FiniteSets, Functions

CONSTANTS
  Cmd,            \* the single record write commands of the run
  Cluster,        \* the clusters that share the event loop
  ClusterOf,      \* the cluster each command belongs to
  MaxInProcess,   \* as_event_loop.max_commands_in_process, 0 for no limit
  MaxInQueue,     \* as_event_loop.max_commands_in_queue, 0 for no limit
  ConnLimit,      \* as_async_conn_pool.limit of the one node of each cluster
  MaxRetries,     \* as_policy_base.max_retries
  TotalTimeout,   \* TRUE when the commands have a total_timeout
  SocketTimeout,  \* TRUE when the commands have a socket_timeout
  Auth,           \* as_cluster.auth_enabled
  Chained,        \* TRUE when listeners issue further commands
  MaxErrors,      \* the number of consecutive errors that ends direct starts
  Closing,        \* the clusters the user closes
  OtherLoops,     \* TRUE when the process has a second event loop
  Refusals,       \* TRUE when as_event_execute may refuse the close of a cluster
  MaxFaults       \* bound on connect, socket, parse and partition map faults

ASSUME EventLoopAssumption ==
  /\ IsFiniteSet(Cmd) /\ Cmd \cap Cluster = {}
  /\ ClusterOf \in [Cmd -> Cluster]
  /\ {MaxInProcess, MaxInQueue, MaxRetries, MaxFaults} \subseteq Nat
  /\ {ConnLimit, MaxErrors} \subseteq Nat \ {0}
  /\ {TotalTimeout, SocketTimeout, Auth, Chained, OtherLoops, Refusals} \subseteq BOOLEAN
  /\ Closing \subseteq Cluster

VARIABLES
  cmd,      \* as_event_command of each command
  loop,     \* as_event_loop: pending, queue, delay_queue, errors, using_delay_queue
  es,       \* as_event_state of each cluster in this loop, and its closing
  pool,     \* as_async_conn_pool of each cluster's node: idle sockets and queue.total
  stack,    \* what the loop thread has still to return to
  faults

vars == <<cmd, loop, es, pool, stack, faults>>

NewCommand ==
  [state |-> "NEW", conn |-> "null", timer |-> "none", sock |-> FALSE, received |-> FALSE,
   iteration |-> 0, expired |-> FALSE, sent |-> 0, copies |-> 0, result |-> <<>>, late |-> FALSE]

Init ==
  /\ cmd = [c \in Cmd |-> NewCommand]
  /\ loop = [pending |-> 0, queue |-> <<>>, delay |-> <<>>, errors |-> 0, using |-> FALSE]
  /\ es = [k \in Cluster |-> [pending |-> 0, closed |-> FALSE, closing |-> FALSE,
                              others |-> OtherLoops, destroyed |-> FALSE]]
  /\ pool = [k \in Cluster |-> [idle |-> 0, total |-> 0]]
  /\ stack = <<>>
  /\ faults = 0

----------------------------------------------------------------------------
(* Frames and the pieces the handlers are made of.                          *)

Frame(op, c, code) == [op |-> op, c |-> c, code |-> code]
DrainFrame == Frame("drain", "none", "none")

\* as_event_error_callback, or a completed response: the listener runs, then
\* the command is released.  "client" stands for the codes below zero and for
\* AEROSPIKE_ERR_TIMEOUT, "server" for the other codes above zero.
Report(c, code) == <<Frame("tell", c, code), Frame("free", c, "none")>>

Idle == stack = <<>>
Running(op) == stack # <<>> /\ stack[1].op = op
Fault == faults < MaxFaults /\ faults' = faults + 1
PoolOf(c) == pool[ClusterOf[c]]

\* The outcome of a handler of command c: its record, the loop, its pool, the stack.
Becomes(c, cm, lp, pl, stk) ==
  /\ cmd' = [cmd EXCEPT ![c] = cm]
  /\ loop' = lp
  /\ pool' = [pool EXCEPT ![ClusterOf[c]] = pl]
  /\ stack' = stk

\* The number of errors matters only up to the limit it is compared with.
OneMoreError(lp) == [lp EXCEPT !.errors = IF @ < MaxErrors THEN @ + 1 ELSE @]
NoErrors(lp) == [lp EXCEPT !.errors = 0]

\* as_event_release_connection: close the socket and give up its slot.
Released(pl) == [pl EXCEPT !.total = @ - 1]

\* as_event_connection_timeout: a command whose conn pointer is not NULL closes it.
ConnTimeout(cm, pl) == IF cm.conn = "null" THEN pl ELSE Released(pl)

\* as_event_put_connection
Put(pl) == IF pl.total > ConnLimit THEN Released(pl) ELSE [pl EXCEPT !.idle = @ + 1]

\* as_event_command_retry
MayRetry(cm) == cm.iteration + 1 <= MaxRetries
Iterated(cm) == [cm EXCEPT !.iteration = @ + 1]
RetriedKeepsConn(cm) == [Iterated(cm) EXCEPT !.timer = "zero", !.state = "RETRY"]  \* mutant
Retried(cm) == [Iterated(cm) EXCEPT !.conn = "null", !.timer = "zero", !.state = "RETRY"]

\* as_event_timer_stop
Stopped(cm) == [cm EXCEPT !.timer = "none"]

\* What follows an attempt that failed: a retry, or the error.
RetryOrFail(c, cm, lp, pl, stk) ==
  IF MayRetry(cm)
  THEN Becomes(c, Retried(cm), lp, pl, stk)
  ELSE Becomes(c, Stopped(Iterated(cm)), lp, pl, Report(c, "client") \o stk)

\* as_ev_command_write from as_event_command_write_start or a write event: the
\* whole request is handed over, or only a part of it, or the socket fails.
Written(cm) ==
  [cm EXCEPT !.state = "COMMAND_READ", !.sent = @ + 1, !.copies = @ + 1, !.received = FALSE]

\* as_event_socket_retry, as_event_socket_error
SocketFails(c, cm, lp, pl, stk) ==
  /\ Fault
  /\ RetryOrFail(c, [cm EXCEPT !.conn = "stale"], lp, Released(pl), stk)

WriteStart(c, cm, lp, pl, stk) ==
  LET writing == [cm EXCEPT !.state = "COMMAND_WRITE"]
  IN \/ Becomes(c, writing, lp, pl, stk) /\ UNCHANGED faults
     \/ Becomes(c, Written(writing), lp, pl, stk) /\ UNCHANGED faults
     \/ SocketFails(c, writing, lp, pl, stk)

----------------------------------------------------------------------------
(* as_event_command_begin                                                   *)

\* The partition map has no node for the command: no retry.
NoNode(c, cm, lp, pl, stk) ==
  /\ Fault
  /\ Becomes(c, Stopped(cm), OneMoreError(lp), pl, Report(c, "client") \o stk)

\* as_node_valid_error_rate fails: the attempt counts as a timeout.
RateExceeded(c, cm, lp, pl, stk) == Fault /\ RetryOrFail(c, cm, OneMoreError(lp), pl, stk)

\* The first n sockets of the pool are stale and closed, the next one is used.
TakePooled(c, cm, lp, pl, stk) ==
  \E n \in 0..(pl.idle - 1) :
    WriteStart(c, [cm EXCEPT !.conn = "open"], NoErrors(lp),
               [idle |-> pl.idle - n - 1, total |-> pl.total - n], stk)

\* No socket of the pool is usable.  What is left of the pool:
Emptied(pl) == [idle |-> 0, total |-> pl.total - pl.idle]

\* as_async_conn_pool_incr_total
HasRoom(pl) == pl.total < ConnLimit
Grown(pl) == [pl EXCEPT !.total = @ + 1]

\* as_event_create_connection, as_event_connect, as_ev_watcher_init
Connect(c, cm, lp, pl, stk) ==
  /\ HasRoom(Emptied(pl))
  /\ Becomes(c, [cm EXCEPT !.conn = "open"], NoErrors(lp), Grown(Emptied(pl)), stk)
  /\ UNCHANGED faults

\* as_ev_connect_error: the slot taken for the connection is given back.
ConnectErrorPool(pl) == Released(Grown(pl))
ConnectError(c, cm, lp, pl, stk) ==
  /\ HasRoom(Emptied(pl))
  /\ Fault
  /\ RetryOrFail(c, [cm EXCEPT !.conn = "stale"], OneMoreError(lp),
                 ConnectErrorPool(Emptied(pl)), stk)

\* AEROSPIKE_ERR_NO_MORE_CONNECTIONS
NoMoreConnections(c, cm, lp, pl, stk) ==
  /\ ~HasRoom(Emptied(pl))
  /\ RetryOrFail(c, cm, OneMoreError(lp), Emptied(pl), stk)
  /\ UNCHANGED faults

Begin(c, cm0, lp, stk) ==
  LET cm == [cm0 EXCEPT !.state = "CONNECT"]
      pl == PoolOf(c)
  IN \/ NoNode(c, cm, lp, pl, stk)
     \/ RateExceeded(c, cm, lp, pl, stk)
     \/ TakePooled(c, cm, lp, pl, stk)
     \/ Connect(c, cm, lp, pl, stk)
     \/ ConnectError(c, cm, lp, pl, stk)
     \/ NoMoreConnections(c, cm, lp, pl, stk)

\* The command enters processing: both pending counters, then begin.
Start(c, cm, lp, stk) ==
  /\ es' = [es EXCEPT ![ClusterOf[c]].pending = @ + 1]
  /\ Begin(c, cm, [lp EXCEPT !.pending = @ + 1], stk)

\* Which timer a starting command gets: "short" when its socket timeout is
\* shorter than what is left of its total timeout.
TimerChoice == {short \in BOOLEAN : /\ short => SocketTimeout
                                    /\ ~TotalTimeout => short = SocketTimeout}
Armed(cm, short) ==
  IF short THEN [cm EXCEPT !.timer = "repeat", !.sock = TRUE]
  ELSE IF TotalTimeout THEN [cm EXCEPT !.timer = "once"] ELSE cm

----------------------------------------------------------------------------
(* as_event_command_execute and as_event_command_execute_in_loop            *)

\* as_event_prequeue_error
PrequeueError(c, cm, lp, stk) ==
  /\ Becomes(c, [cm EXCEPT !.state = "QUEUE_ERROR", !.timer = "none"], OneMoreError(lp),
             PoolOf(c), Report(c, "client") \o stk)
  /\ UNCHANGED <<es, faults>>

\* The command itself starts, is delayed or is refused (the part of
\* as_event_command_execute_in_loop after the delay queue has been drained).
Full(delay) == MaxInQueue > 0 /\ Len(delay) >= MaxInQueue

MustWait == loop.pending >= MaxInProcess
Admit ==
  /\ Running("admit")
  /\ LET c == stack[1].c
     IN \/ /\ MustWait
           /\ Full(loop.delay)
           /\ PrequeueError(c, cmd[c], loop, Tail(stack))
        \/ /\ MustWait
           /\ ~Full(loop.delay)
           /\ Becomes(c, Armed([cmd[c] EXCEPT !.state = "DELAY_QUEUE"], FALSE),
                      [loop EXCEPT !.delay = Append(@, c)], PoolOf(c), Tail(stack))
           /\ UNCHANGED <<es, faults>>
        \/ /\ ~MustWait
           /\ \E short \in TimerChoice : Start(c, Armed(cmd[c], short), loop, Tail(stack))

\* "lp" is the loop without the queue entry that brought the command here.
ExecuteInLoop(c, lp, stk) ==
  LET cm == Stopped(cmd[c])
  IN \/ /\ \/ es[ClusterOf[c]].closed
           \/ cm.state = "REGISTERED" /\ cm.expired
        /\ PrequeueError(c, cm, lp, stk)
     \/ /\ ~es[ClusterOf[c]].closed
        /\ ~(cm.state = "REGISTERED" /\ cm.expired)
        /\ MaxInProcess > 0
        /\ Becomes(c, cm, [lp EXCEPT !.using = TRUE], PoolOf(c),
                   <<DrainFrame, Frame("admit", c, "none")>> \o stk)
        /\ UNCHANGED <<es, faults>>
     \/ /\ ~es[ClusterOf[c]].closed
        /\ ~(cm.state = "REGISTERED" /\ cm.expired)
        /\ MaxInProcess = 0
        /\ \E short \in TimerChoice : Start(c, Armed(cm, short), lp, stk)

\* A command is issued from another thread: it goes through the loop's queue.
\* After the close of a cluster has begun only listeners in other event loops
\* still issue commands for it (history: "late", with those its listener issues).
MayIssue(c) ==
  LET k == es[ClusterOf[c]] IN cmd[c].state = "NEW" /\ (k.closing => k.others)
Issue(c) ==
  /\ MayIssue(c)
  /\ cmd' = [cmd EXCEPT ![c].state = "REGISTERED", ![c].late = es[ClusterOf[c]].closing]
  /\ loop' = [loop EXCEPT !.queue = Append(@, c)]
  /\ UNCHANGED <<es, pool, stack, faults>>

\* as_event_execute cannot queue the command: it is destroyed and the caller
\* gets the error as the return value.
IssueFails(c) ==
  /\ MayIssue(c)
  /\ Fault
  /\ cmd' = [cmd EXCEPT ![c].state = "REFUSED"]
  /\ loop' = OneMoreError(loop)
  /\ UNCHANGED <<es, pool, stack>>

\* as_ev_wakeup: the next command of the loop's queue.
Wakeup ==
  /\ Idle
  /\ loop.queue # <<>>
  /\ Head(loop.queue) \in Cmd
  /\ ExecuteInLoop(Head(loop.queue), [loop EXCEPT !.queue = Tail(@)], <<>>)

----------------------------------------------------------------------------
(* as_event_execute_from_delay_queue, as_event_command_free and listeners   *)

DrainStopsEarly == loop.pending + 1 < MaxInProcess /\ loop.delay # <<>>  \* mutant
DrainGoesOn == loop.pending < MaxInProcess /\ loop.delay # <<>>

Drain ==
  /\ Running("drain")
  /\ \/ /\ DrainGoesOn
        /\ LET c == Head(loop.delay)
               lp == [loop EXCEPT !.delay = Tail(@)]
           IN IF cmd[c].state = "QUEUE_ERROR"
              THEN /\ Becomes(c, cmd[c], lp, PoolOf(c), <<Frame("free", c, "none")>> \o stack)
                   /\ UNCHANGED <<es, faults>>
              ELSE \E short \in TimerChoice :
                     Start(c, IF short THEN Armed(cmd[c], TRUE) ELSE cmd[c], lp, stack)
     \/ /\ ~DrainGoesOn
        /\ loop' = [loop EXCEPT !.using = FALSE]
        /\ stack' = Tail(stack)
        /\ UNCHANGED <<cmd, es, pool, faults>>

\* The delay queue is drained when a command ends, unless a drain is under way.
AfterFreeNoDrain(lp, stk) == loop' = lp /\ stack' = stk  \* mutant
AfterFree(lp, stk) ==
  IF MaxInProcess > 0 /\ ~lp.using
  THEN loop' = [lp EXCEPT !.using = TRUE] /\ stack' = <<DrainFrame>> \o stk
  ELSE loop' = lp /\ stack' = stk

CountedAlways(c) == TRUE  \* mutant
CountedNever(c) == FALSE  \* mutant
Counted(c) == cmd[c].state # "QUEUE_ERROR"
Free ==
  /\ Running("free")
  /\ LET c == stack[1].c
         k == ClusterOf[c]
         one == IF Counted(c) THEN 1 ELSE 0
     IN /\ cmd' = [cmd EXCEPT ![c].state = "FREED"]
        /\ es' = [es EXCEPT ![k].pending = @ - one]
        /\ AfterFree([loop EXCEPT !.pending = @ - one], Tail(stack))
        /\ UNCHANGED <<pool, faults>>

\* as_error_set_in_doubt for a write
InDoubtOnceOnly(sent, code) == sent = 1 /\ code = "client"  \* mutant
InDoubt(sent, code) == sent > 1 \/ (sent = 1 /\ code = "client")
ResultOf(c, code) ==
  IF code = "ok" THEN "ok" ELSE IF InDoubt(cmd[c].sent, code) THEN "in_doubt" ELSE "error"
Told(cm, c, code) == [cm EXCEPT ![c].result = Append(@, ResultOf(c, code))]

\* as_event_notify_error or the listener call of a response parser.
Tell ==
  /\ Running("tell")
  /\ cmd' = Told(cmd, stack[1].c, stack[1].code)
  /\ stack' = Tail(stack)
  /\ UNCHANGED <<loop, es, pool, faults>>

\* The listener issues command d in the loop thread (as_event_command_execute):
\* it is executed at once, or, after too many errors in a row, with a timer
\* (as_event_command_schedule).
TellAndIssue(d) ==
  /\ Chained
  /\ Running("tell")
  /\ cmd[d].state = "NEW"
  /\ ClusterOf[d] = ClusterOf[stack[1].c]
  /\ LET told == Told(cmd, stack[1].c, stack[1].code)
         late == cmd[stack[1].c].late
     IN IF loop.errors < MaxErrors
        THEN /\ cmd' = [told EXCEPT ![d].state = "ISSUED", ![d].late = late]
             /\ stack' = <<Frame("execute", d, "none")>> \o Tail(stack)
        ELSE /\ cmd' = [told EXCEPT ![d].state = "REGISTERED", ![d].timer = "zero",
                                    ![d].late = late]
             /\ stack' = Tail(stack)
  /\ UNCHANGED <<loop, es, pool, faults>>

Execute == Running("execute") /\ ExecuteInLoop(stack[1].c, loop, Tail(stack))

----------------------------------------------------------------------------
(* Timers: as_event_process_timer and as_event_socket_timeout               *)

\* The total deadline of a command passes.  Nothing happens before a timer or
\* a check of the deadline sees it.
Expire(c) ==
  /\ Idle
  /\ TotalTimeout
  /\ cmd[c].state \notin {"NEW", "REFUSED", "FREED"}
  /\ ~cmd[c].expired
  /\ cmd' = [cmd EXCEPT ![c].expired = TRUE]
  /\ UNCHANGED <<loop, es, pool, stack, faults>>

ScheduledStart(c) ==
  /\ Idle
  /\ cmd[c].timer = "zero" /\ cmd[c].state = "REGISTERED"
  /\ ExecuteInLoop(c, loop, <<>>)

\* as_event_delay_timeout: the listener is told, the command stays in the queue.
DelayTimeoutFrees(c) == Report(c, "client")  \* mutant
DelayTimeoutReport(c) == <<Frame("tell", c, "client")>>
DelayTimeout(c) ==
  /\ Idle
  /\ cmd[c].timer = "once" /\ cmd[c].expired /\ cmd[c].state = "DELAY_QUEUE"
  /\ Becomes(c, [Stopped(cmd[c]) EXCEPT !.state = "QUEUE_ERROR"], loop, PoolOf(c),
             DelayTimeoutReport(c))
  /\ UNCHANGED <<es, faults>>

\* as_event_total_timeout
TimesOut(c) ==
  /\ Becomes(c, [Stopped(cmd[c]) EXCEPT !.conn = "stale"], loop, ConnTimeout(cmd[c], PoolOf(c)),
             Report(c, "client"))
  /\ UNCHANGED <<es, faults>>

TotalTimer(c) ==
  /\ Idle
  /\ cmd[c].timer = "once" /\ cmd[c].expired
  /\ cmd[c].state \notin {"REGISTERED", "DELAY_QUEUE", "RETRY"}
  /\ TimesOut(c)

\* as_event_execute_retry: the timer is restored, then begin.
RestoredTimerForgotten(cm, short) == Stopped(cm)  \* mutant
RestoredTimer(cm, short) ==
  IF cm.sock /\ (~TotalTimeout \/ short)
  THEN [cm EXCEPT !.timer = "repeat", !.received = FALSE]
  ELSE IF TotalTimeout
       THEN [cm EXCEPT !.timer = "once", !.sock = FALSE]
       ELSE Stopped(cm)
ExecuteRetry(c) ==
  /\ Idle
  /\ cmd[c].timer = "zero" /\ cmd[c].state = "RETRY"
  /\ \/ cmd[c].expired /\ TimesOut(c)
     \/ /\ ~cmd[c].expired
        /\ \E short \in TimerChoice : Begin(c, RestoredTimer(cmd[c], short), loop, <<>>)
        /\ UNCHANGED es

\* as_event_socket_timeout
SocketTimer(c) ==
  /\ Idle
  /\ cmd[c].timer = "repeat"
  /\ LET cm == [cmd[c] EXCEPT !.received = FALSE]
     IN \/ cmd[c].received /\ cm.expired /\ TimesOut(c)
        \/ /\ cmd[c].received /\ ~cm.expired
           /\ \E short \in TimerChoice :
                Becomes(c, IF short THEN cm ELSE [cm EXCEPT !.timer = "once", !.sock = FALSE],
                        loop, PoolOf(c), <<>>)
           /\ UNCHANGED <<es, faults>>
        \/ /\ ~cmd[c].received
           /\ RetryOrFail(c, [cm EXCEPT !.conn = "stale"], loop, ConnTimeout(cm, PoolOf(c)), <<>>)
           /\ UNCHANGED <<es, faults>>

----------------------------------------------------------------------------
(* Socket events: as_ev_callback_common                                     *)

At(c, states) == Idle /\ cmd[c].conn = "open" /\ cmd[c].state \in states

\* as_ev_connect_complete
Connected(c) ==
  /\ At(c, {"CONNECT"})
  /\ \/ Auth /\ Becomes(c, [cmd[c] EXCEPT !.state = "AUTH"], loop, PoolOf(c), <<>>)
             /\ UNCHANGED faults
     \/ ~Auth /\ WriteStart(c, cmd[c], loop, PoolOf(c), <<>>)
  /\ UNCHANGED es

\* as_ev_parse_authentication
Authenticated(c) ==
  At(c, {"AUTH"}) /\ WriteStart(c, cmd[c], loop, PoolOf(c), <<>>) /\ UNCHANGED es

\* as_event_parse_error: the socket is closed and the error reported.
ParseError(c, code) ==
  /\ Fault
  /\ Becomes(c, [Stopped(cmd[c]) EXCEPT !.conn = "stale"], loop, Released(PoolOf(c)),
             Report(c, code))
  /\ UNCHANGED es

\* The server refuses the credentials, or its reply cannot be parsed.
AuthError(c) == At(c, {"AUTH"}) /\ \E code \in {"server", "client"} : ParseError(c, code)
BadReply(c) == At(c, {"COMMAND_READ"}) /\ ParseError(c, "client")

Write(c) ==
  At(c, {"COMMAND_WRITE"}) /\ WriteStart(c, cmd[c], loop, PoolOf(c), <<>>) /\ UNCHANGED es

\* A read or a connection attempt fails.
ReadError(c) ==
  /\ At(c, {"CONNECT", "AUTH", "COMMAND_READ"})
  /\ SocketFails(c, cmd[c], loop, PoolOf(c), <<>>)
  /\ UNCHANGED es

\* as_ev_read: a part of the response.
ReadSome(c) ==
  /\ At(c, {"AUTH", "COMMAND_READ"})
  /\ ~cmd[c].received
  /\ cmd' = [cmd EXCEPT ![c].received = TRUE]
  /\ UNCHANGED <<loop, es, pool, stack, faults>>

\* The command is done with its socket and its timer.
Done(cm) == [Stopped(cm) EXCEPT !.conn = "stale"]

\* as_event_response_complete and the listener call
Complete(c) ==
  /\ At(c, {"COMMAND_READ"})
  /\ Becomes(c, Done(cmd[c]), loop, Put(PoolOf(c)), Report(c, "ok"))
  /\ UNCHANGED <<es, faults>>

\* as_event_response_error: the server rejected the write ("server"), or timed
\* out and cannot say ("client"); some codes also close the socket.
ResponseError(c) ==
  /\ At(c, {"COMMAND_READ"})
  /\ \E code \in {"server", "client"}, pl \in {Put(PoolOf(c)), Released(PoolOf(c))} :
       Becomes(c, [Done(cmd[c]) EXCEPT !.copies = IF code = "server" THEN @ - 1 ELSE @],
               loop, pl, Report(c, code))
  /\ UNCHANGED <<es, faults>>

----------------------------------------------------------------------------
(* The connection balancer and the close of a cluster                       *)

\* close_idle_connections, called for the node by the cluster tend
Trim(k) ==
  /\ Idle
  /\ \E n \in 1..pool[k].idle :
       pool' = [pool EXCEPT ![k] = [idle |-> @.idle - n, total |-> @.total - n]]
  /\ UNCHANGED <<cmd, loop, es, stack, faults>>

\* as_event_close_cluster_event_loop: the last loop destroys the cluster.
Destroy(state) == [state EXCEPT !.destroyed = state.closed /\ ~state.others]

\* as_event_close_cluster: what the loop does not take the calling thread does itself.
CloseCluster(k) ==
  /\ k \in Closing
  /\ ~es[k].closing
  /\ \E queued \in {TRUE, ~Refusals} :
       /\ es' = [es EXCEPT ![k] = Destroy([@ EXCEPT !.closing = TRUE, !.closed = ~queued])]
       /\ loop' = [loop EXCEPT !.queue = IF queued THEN Append(@, k) ELSE @]
  /\ UNCHANGED <<cmd, pool, stack, faults>>

\* as_event_close_cluster_cb: a loop with commands puts the close off, and closes
\* nevertheless when it cannot.
StillPendingOne(k) == es[k].pending > 1  \* mutant
StillPending(k) == es[k].pending > 0
CloseCallback ==
  /\ Idle
  /\ loop.queue # <<>>
  /\ LET k == Head(loop.queue)
         rest == Tail(loop.queue)
     IN /\ k \in Cluster
        /\ \/ /\ StillPending(k)
              /\ loop' = [loop EXCEPT !.queue = Append(rest, k)]
              /\ UNCHANGED es
           \/ /\ StillPending(k) => Refusals
              /\ loop' = [loop EXCEPT !.queue = rest]
              /\ es' = [es EXCEPT ![k] = Destroy([@ EXCEPT !.closed = TRUE])]
  /\ UNCHANGED <<cmd, pool, stack, faults>>

\* The other event loop of the process closes the cluster.
OtherLoopCloses(k) ==
  /\ es[k].closing /\ es[k].others
  /\ es' = [es EXCEPT ![k] = Destroy([@ EXCEPT !.others = FALSE])]
  /\ UNCHANGED <<cmd, loop, pool, stack, faults>>

----------------------------------------------------------------------------
Engine == Wakeup \/ Admit \/ Drain \/ Free \/ Tell \/ Execute \/ CloseCallback
\* What the clock and the event library deliver.
Timer(c) ==
  ScheduledStart(c) \/ DelayTimeout(c) \/ TotalTimer(c) \/ ExecuteRetry(c) \/ SocketTimer(c)
Socket(c) ==
  Connected(c) \/ Authenticated(c) \/ AuthError(c) \/ BadReply(c) \/ Write(c) \/ ReadError(c)
  \/ ReadSome(c) \/ Complete(c) \/ ResponseError(c)

\* Every command has ended and every close the user asked for is done.
AllEnded ==
  /\ Idle
  /\ \A c \in Cmd : \/ cmd[c].state \in {"REFUSED", "FREED"}
                    \/ (cmd[c].state = "NEW" /\ ~MayIssue(c))
  /\ \A k \in Closing : es[k].destroyed
Finished == AllEnded /\ UNCHANGED vars

Next ==
  \/ Engine
  \/ \E c \in Cmd : Issue(c) \/ IssueFails(c) \/ TellAndIssue(c) \/ Expire(c) \/ Timer(c) \/ Socket(c)
  \/ \E k \in Cluster : Trim(k) \/ CloseCluster(k) \/ OtherLoopCloses(k)
  \/ Finished

Spec == Init /\ [][Next]_vars

----------------------------------------------------------------------------
(* Properties.                                                              *)

InProcess(c) == cmd[c].state \in {"CONNECT", "AUTH", "COMMAND_WRITE", "COMMAND_READ", "RETRY"}
CommandsIn(S) == Cardinality({c \in Cmd : InProcess(c) /\ ClusterOf[c] \in S})

\* Types, and the bound on the delay queue that as_event_command_execute_in_loop
\* keeps.  The delay queue holds exactly the delayed commands, and those that
\* timed out there (as_event_delay_timeout leaves them in the queue).
TypeOK ==
  /\ \A c \in Cmd :
       /\ cmd[c].conn \in {"null", "open", "stale"}
       /\ cmd[c].timer \in {"none", "zero", "once", "repeat"}
       /\ cmd[c].iteration \in 0..(MaxRetries + 1)
       /\ cmd[c].copies \in 0..(MaxRetries + 1)
       /\ cmd[c].state = "DELAY_QUEUE" => c \in Range(loop.delay)
  /\ \A c \in Range(loop.delay) : cmd[c].state \in {"DELAY_QUEUE", "QUEUE_ERROR"}
  /\ IsInjective(loop.delay)
  /\ MaxInQueue > 0 => Len(loop.delay) <= MaxInQueue

\* as_event_loop.pending and as_event_state.pending count the commands that
\* have started and are not freed, whatever path a command takes to its end,
\* and never pass max_commands_in_process.
PendingExact ==
  /\ loop.pending = CommandsIn(Cluster)
  /\ \A k \in Cluster : es[k].pending = CommandsIn({k})
  /\ MaxInProcess > 0 => loop.pending <= MaxInProcess

\* No wake-up of the delay queue is lost: when the loop thread waits for
\* events, a delayed command is there only because the loop is full (the drain
\* in as_event_command_free, also when using_delay_queue suppressed it).
WorkConserving == Idle /\ loop.delay # <<>> => loop.pending = MaxInProcess

\* "Delay queue takes precedence over new commands"
\* (as_event_command_execute_in_loop): a new command starts only when no
\* command is delayed, also when it is issued by a listener inside a drain.
NoOvertaking ==
  [][Running("admit") /\ loop'.pending > loop.pending => loop.delay = <<>>]_vars

\* The slots of a node's pool are the idle sockets and the sockets commands
\* hold, never more than the limit: no path leaks a slot or frees one twice
\* (timeouts after a failed attempt, connect errors, trimmed sockets).
PoolExact ==
  \A k \in Cluster :
    /\ pool[k].total =
         pool[k].idle + Cardinality({c \in Cmd : ClusterOf[c] = k /\ cmd[c].conn = "open"})
    /\ pool[k].idle >= 0
    /\ pool[k].total <= ConnLimit

\* The counters of the engine are what they count, whatever way a command ends:
\* pending, the delay queue, the slots of the pools.
CountsExact == TypeOK /\ PendingExact /\ PoolExact

\* The listener of a command is called once, before the command is freed, and a
\* freed command has no timer and no socket whose event would use it.
ReportedOnce ==
  \A c \in Cmd :
    /\ Len(cmd[c].result) <= 1
    /\ cmd[c].state = "FREED" =>
         Len(cmd[c].result) = 1 /\ cmd[c].timer = "none" /\ cmd[c].conn # "open"

\* An error reported without in_doubt means that no copy of the write that was
\* sent can have been applied (as_error.in_doubt, as_error_set_in_doubt).
HonestInDoubt == \A c \in Cmd : cmd[c].result = <<"error">> => cmd[c].copies = 0

\* A cluster is destroyed only after the commands issued before its close have
\* run (as_event_close_cluster_cb): no command of it is left in the loop.
RunsBeforeClose ==
  \A c \in Cmd :
    es[ClusterOf[c]].destroyed /\ ~cmd[c].late
      => cmd[c].state \in {"NEW", "REFUSED", "QUEUE_ERROR", "FREED"}

=============================================================================
