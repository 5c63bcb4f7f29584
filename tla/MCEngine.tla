------------------------------ MODULE MCEngine ------------------------------
(***************************************************************************)
(* The asynchronous engine, for TLC.  A behaviour is that of one part: an  *)
(* event loop with a delay queue, an event loop whose commands are retried,*)
(* the socket callbacks of the event libraries, or connections shared by   *)
(* pipelined commands.  The others stay where they start.                  *)
(***************************************************************************)
EXTENDS EventLoop, TLC

CONSTANTS c1, c2, c3, A,
          SocketSetups, PipeSetups

VARIABLE part

VARIABLES rcmd, rloop, res, rpool, rstack, rfaults  \* the second EventLoop
retry_vars == <<rcmd, rloop, res, rpool, rstack, rfaults>>

VARIABLE s                                          \* AsyncSocket, Pipeline

Three == {c1, c2, c3}
Two == {c1, c2}
InThree == [c \in Three |-> A]
InTwo == [c \in Two |-> A]

\* Commands of one part are interchangeable; the second loop has two of them.
Alike == Permutations(Three)

-----------------------------------------------------------------------------
(* Every library with and without TLS, authentication, a timer ("ev" is     *)
(* libevent too, whose code is the same).  Two cases                        *)
(* are apart: a request that follows an authentication and is not taken at  *)
(* once (libev, libevent), and a libuv TLS connection closed, or read, while*)
(* a slow write is active.                                                  *)

Sockets == [lib : {"ev", "uv"}, tls : BOOLEAN, auth : BOOLEAN, connector : {FALSE}, multi : BOOLEAN,
            timer : {"none", "socket", "total"}, retries : {1}, slow : BOOLEAN, drop : BOOLEAN, shut : {TRUE},
            rewrites : {FALSE}]

WriteAfterAuth(c) == c.lib # "uv" /\ c.auth /\ (c.slow \/ c.drop)
SlowClose(c) == c.lib = "uv" /\ c.tls /\ c.slow

AllSockets ==
    {[c EXCEPT !.rewrites = c.lib = "uv" /\ c.tls] :
        c \in {d \in Sockets : ~WriteAfterAuth(d) /\ ~SlowClose(d) /\ (d.slow = d.drop \/ d.tls)}}
    \cup {[c EXCEPT !.connector = TRUE] : c \in {d \in Sockets : d.auth /\ d.slow /\ d.drop /\ ~d.tls /\ ~d.multi}}
    \cup {[c EXCEPT !.shut = FALSE] : c \in {d \in Sockets : SlowClose(d) /\ d.timer = "none" /\ ~d.drop}}
AuthSockets == {c \in Sockets : c.lib = "ev" /\ ~c.tls /\ c.auth /\ c.timer = "none" /\ c.slow /\ ~c.drop}
RewriteSockets == {[c EXCEPT !.rewrites = TRUE] : c \in {d \in AllSockets : SlowClose(d)}}
TimerSockets == {c \in Sockets : c.lib = "uv" /\ c.tls /\ ~c.auth /\ c.timer = "total" /\ c.slow /\ ~c.drop}

(* Commands that share one connection, or two.  Apart are an answer in      *)
(* pieces on a libev connection that is also written to, and a libuv write  *)
(* refused inside a listener.                                               *)

Pipe(lib, limit) ==
    [lib |-> lib, limit |-> limit, retries |-> 1, drop |-> TRUE, partial |-> FALSE, wait |-> TRUE]

AllPipes ==
    {Pipe("ev", 1), Pipe("ev", 2), [Pipe("uv", 1) EXCEPT !.drop = FALSE, !.partial = TRUE],
     [Pipe("uv", 2) EXCEPT !.drop = FALSE]}
PartialPipes == {[Pipe("ev", 1) EXCEPT !.partial = TRUE, !.drop = FALSE]}
RefusedPipes == {Pipe("uv", 1)}

-----------------------------------------------------------------------------
\* The constants of EventLoop are those of the first loop: it is full with one command
\* and has one place in its delay queue; listeners issue commands.  The second one: two
\* commands compete for one connection, with socket timeouts and retries.
Retry == INSTANCE EventLoop
    WITH cmd <- rcmd, loop <- rloop, es <- res, pool <- rpool, stack <- rstack, faults <- rfaults,
         Cmd <- Two, Cluster <- {A}, ClusterOf <- InTwo, MaxInProcess <- 0, MaxInQueue <- 0, ConnLimit <- 1,
         MaxRetries <- 2, TotalTimeout <- TRUE, SocketTimeout <- TRUE, Auth <- FALSE, Chained <- FALSE,
         MaxErrors <- 2, Closing <- {}, OtherLoops <- FALSE, Refusals <- FALSE, MaxFaults <- 1

OneSocket == INSTANCE AsyncSocket WITH Setups <- SocketSetups, MaxConns <- 3, MaxCommands <- 2
Shared == INSTANCE Pipeline WITH Setups <- PipeSetups, Commands <- Three, MaxConns <- 2

EngineInit ==
    /\ Init
    /\ \/ part = "retry" /\ Retry!Init
       \/ /\ part \in {"delay", "socket", "pipe"}
          /\ rcmd = <<>> /\ rloop = <<>> /\ res = <<>> /\ rpool = <<>> /\ rstack = <<>> /\ rfaults = 0
    /\ \/ part \in {"delay", "retry"} /\ s = <<>>
       \/ part = "socket" /\ OneSocket!Init
       \/ part = "pipe" /\ Shared!Init

EngineNext ==
    \/ part = "delay" /\ Next /\ UNCHANGED <<part, retry_vars, s>>
    \/ part = "retry" /\ Retry!Next /\ UNCHANGED <<part, vars, s>>
    \/ part = "socket" /\ OneSocket!Next /\ UNCHANGED <<part, vars, retry_vars>>
    \/ part = "pipe" /\ Shared!Next /\ UNCHANGED <<part, vars, retry_vars>>

EngineSpec == EngineInit /\ [][EngineNext]_<<part, vars, retry_vars, s>>

-----------------------------------------------------------------------------
(* Properties of the other parts; those of the first loop are EventLoop's.   *)

\* No timer, callback of the event library or other command of a shared connection uses
\* a command that is freed or has left its connection, and a listener is called once.
NothingUsedLate ==
    CASE part = "retry" -> Retry!ReportedOnce
      [] part = "socket" -> OneSocket!NothingUsedLate
      [] part = "pipe" -> Shared!Belongs
      [] OTHER -> TRUE

\* Between two callbacks a running command has an event to wait for that will come, and
\* none is already hidden inside the TLS layer; on a shared connection no command takes
\* the event of another away.
Awaited ==
    /\ part = "socket" => OneSocket!Awaited
    /\ part = "pipe" => Shared!EachAwaited

\* An event reaches the command it is for: a command gets the events it waits for, and
\* none after it ended (the timers, as_event_release_async_connection and the watchers
\* of the event libraries).
EventsReachCommands == NothingUsedLate /\ Awaited

\* Whatever way a command ends, its connection is closed or returned, in step: the pool's
\* total is its idle connections and those in use, a pooled connection has no answer
\* outstanding and no callback to come, and what a command reads answers its own
\* request, also on a pipeline, where next_reader takes the commands in the order of
\* their requests; after retries and timeouts in any order an error that is not in_doubt
\* means that no copy of the write can have been applied.
AnswersMatch ==
    CASE part = "retry" -> Retry!CountsExact /\ Retry!HonestInDoubt
      [] part = "socket" -> OneSocket!TotalExact /\ OneSocket!PoolIsIdle /\ OneSocket!InStep
      [] part = "pipe" -> Shared!NoneLost /\ Shared!AnswersMatch
      [] OTHER -> TRUE
=============================================================================
