------------------------------ MODULE Pipeline ------------------------------
(***************************************************************************)
(* Pipelined connections of one node on one event loop (as_pipe.c): a      *)
(* connection has at most one command that writes and a list of commands   *)
(* that wait for their answers, which come in the order of the requests.   *)
(* It goes back to the pool as soon as its writer has written.             *)
(*                                                                         *)
(* Listeners run inside the code that calls them and may start commands,   *)
(* so a cancellation or a listener in progress is a frame of "stack": while*)
(* there is one, the loop takes no event.  A function maps a state to the  *)
(* set of states it may end in.                                            *)
(***************************************************************************)
EXTENDS Integers, Sequences, FiniteSets

CONSTANTS
    Commands,    \* commands the user may start
    MaxConns,    \* connections that may exist at a time
    Setups       \* [lib, limit, retries, drop, partial, wait]: drop: calls may fail; partial: a
                 \* write or an answer may come in pieces; wait: a command may time out

VARIABLE s

RECURSIVE Pop(_, _)

Then(S, F(_)) == UNION {F(x) : x \in S}

\* "sent" are the requests on the wire whose answers are due; "half": the head of the
\* answers has come in part; "watch": the events waited for.
NewConn ==
    [open |-> TRUE, writer |-> 0, readers |-> <<>>, canceling |-> FALSE, canceled |-> FALSE, in_pool |-> FALSE,
     sent |-> <<>>, half |-> FALSE, watch |-> {}]
NoConn == [NewConn EXCEPT !.open = FALSE]

Init ==
    \E c \in Setups :
        s = [setup |-> c, cmd |-> [i \in Commands |-> [st |-> "idle", conn |-> 0, iteration |-> 0, reported |-> 0]],
             net |-> [k \in 1..MaxConns |-> NoConn], pool |-> <<>>, total |-> 0, stack |-> <<>>, user |-> FALSE,
             bad |-> {}]

Free(x) == {k \in 1..MaxConns : x.net[k] = NoConn}

as_event_release_connection(x, k) == [x EXCEPT !.net[k] = NoConn, !.total = @ - 1]
as_event_stop_watcher(x, k) == [x EXCEPT !.net[k].watch = {}]

\* as_event_command_retry: begins again from the timer.
as_event_command_retry(x, c) ==
    [x EXCEPT !.cmd[c].iteration = @ + 1, !.cmd[c].st = "retry", !.cmd[c].conn = 0]

\* as_event_error_callback: the user's listener runs, and may start commands.
Report(x, c) ==
    [x EXCEPT !.cmd[c] = [st |-> "done", conn |-> 0, iteration |-> 0, reported |-> @.reported + 1], !.user = TRUE]

cancel_command(x, c, retry) ==
    IF retry /\ x.cmd[c].iteration < x.setup.retries THEN as_event_command_retry(x, c) ELSE Report(x, c)

\* The rest of the cancellation is done by the frame.
CancelUnmarked(x, c, retry) ==  \* mutant
    LET k == x.cmd[c].conn
    IN  IF k = 0 THEN cancel_command(x, c, retry)
        ELSE [as_event_stop_watcher(x, k) EXCEPT
                 !.stack = <<[kind |-> "cancel", conn |-> k, retry |-> retry, writer |-> x.net[k].writer, cmd |-> c,
                              more |-> 0]>> \o @]
cancel_connection(x, c, retry) ==
    LET k == x.cmd[c].conn
    IN  IF k = 0 THEN cancel_command(x, c, retry)
        ELSE [as_event_stop_watcher(x, k) EXCEPT !.net[k].canceling = TRUE,
                 !.stack = <<[kind |-> "cancel", conn |-> k, retry |-> retry, writer |-> x.net[k].writer, cmd |-> c,
                              more |-> 0]>> \o @]

as_pipe_socket_error(x, c, retry) == cancel_connection(x, c, retry)
as_pipe_timeout(x, c, retry) == cancel_connection(x, c, retry)

release_connection(x, k) ==
    IF x.net[k].writer # 0 \/ x.net[k].readers # <<>> THEN x ELSE as_event_release_connection(as_event_stop_watcher(x, k), k)

\* The queue has room for all connections that are counted.
NotPooled(x, k) ==  \* mutant
    [x EXCEPT !.pool = Append(@, k)]
put_connection(x, k) == [x EXCEPT !.pool = Append(@, k), !.net[k].in_pool = TRUE]

\* The writer becomes a reader; its connection can be written to again before the
\* listener runs.  A listener called while one runs waits for it to return.
Listening(x) == \E i \in DOMAIN x.stack : x.stack[i].kind = "listener"

\* libuv starts to read once the listener has returned, if there was no reader before.
StartReadLate(x, c, k) ==  \* mutant
    IF x.setup.lib # "uv" THEN {x}
    ELSE IF x.cmd[c].conn # k THEN {[x EXCEPT !.bad = @ \cup {"command"}]}
    ELSE IF Len(x.net[k].readers) > 0 THEN {x} ELSE {[x EXCEPT !.net[k].watch = @ \cup {"r"}]}
StartRead(x, c, k) ==
    IF x.setup.lib # "uv" THEN {x}
    ELSE IF x.cmd[c].conn # k THEN {[x EXCEPT !.bad = @ \cup {"command"}]}
    ELSE IF Len(x.net[k].readers) > 1 THEN {x} ELSE {[x EXCEPT !.net[k].watch = @ \cup {"r"}]}

as_pipe_read_start(x, c) ==
    LET k == x.cmd[c].conn
        y == put_connection([x EXCEPT !.net[k].writer = 0, !.net[k].readers = Append(@, c), !.cmd[c].st = "reading"], k)
        more == [i \in DOMAIN y.stack |-> IF y.stack[i].kind = "listener" THEN [y.stack[i] EXCEPT !.more = @ + 1] ELSE y.stack[i]]
    IN  IF Listening(y) THEN StartRead([y EXCEPT !.stack = more], c, k)
        ELSE {[y EXCEPT !.user = TRUE,
                  !.stack = <<[kind |-> "listener", conn |-> k, retry |-> FALSE, writer |-> 0, cmd |-> c, more |-> 1]>> \o @]}

\* The write of a request: done, not yet, or failed.  libev and libevent wait for both
\* events on a pipeline, and for reads only once the request is out.
Written(x, c) ==
    LET k == x.cmd[c].conn
        y == [x EXCEPT !.net[k].sent = Append(@, c),
                       !.net[k].watch = IF x.setup.lib = "uv" THEN @ \ {"w"} ELSE {"r"}]
    IN  as_pipe_read_start(y, c)
as_event_command_write_start(x, c) ==
    LET k == x.cmd[c].conn
        y == [x EXCEPT !.cmd[c].st = "writing",
                       !.net[k].watch = IF x.setup.lib = "uv" THEN @ \cup {"w"} ELSE {"r", "w"}]
    IN  (IF x.setup.lib = "uv" THEN {y} ELSE Written(y, c))
        \cup (IF x.setup.partial THEN {y} ELSE {})
        \cup (IF x.setup.drop THEN {as_pipe_socket_error(y, c, TRUE)} ELSE {})

write_start(x, c, k) == [x EXCEPT !.cmd[c].conn = k, !.net[k].writer = c]

\* Connections are opened up to the limit.
Open(x, c) ==
    IF x.total < x.setup.limit
    THEN LET k == CHOOSE i \in Free(x) : TRUE
             y == [write_start([x EXCEPT !.total = @ + 1, !.net[k] = NewConn], c, k) EXCEPT !.cmd[c].st = "connecting",
                      !.net[k].watch = {"r", "w"}]
         IN  {y} \cup (IF x.setup.drop
                       THEN {cancel_command([x EXCEPT !.cmd[c].conn = 0], c, TRUE)} ELSE {})  \* as_ev_connect_error
    ELSE {cancel_command(x, c, TRUE)}

\* The pool's connections, until one can be used; when none can, one is opened in the room
\* that those just closed have left.
CanceledReused(x, c) ==  \* mutant
    LET k == Head(x.pool)
        y == [x EXCEPT !.pool = Tail(@), !.net[k].in_pool = FALSE]
    IN  IF x.pool = <<>> THEN Open(x, c)
        ELSE IF x.net[k].canceling THEN Pop(y, c)
        ELSE as_event_command_write_start(write_start(y, c, k), c)
Pop(x, c) ==
    LET k == Head(x.pool)
        y == [x EXCEPT !.pool = Tail(@)]
        z == [y EXCEPT !.net[k].in_pool = FALSE]
    IN  CASE x.pool = <<>> -> Open(x, c)
          [] x.pool # <<>> /\ x.net[k].canceling -> Pop(z, c)
          [] x.pool # <<>> /\ ~x.net[k].canceling /\ x.net[k].canceled -> Pop(as_event_release_connection(y, k), c)
          [] OTHER -> as_event_command_write_start(write_start(z, c, k), c)
                      \cup (IF x.setup.drop THEN Pop(release_connection(z, k), c) ELSE {})

as_pipe_get_connection(x, c) == IF x.total >= x.setup.limit THEN Pop(x, c) ELSE Open(x, c)

-----------------------------------------------------------------------------

Quiet == s.stack = <<>>

\* The user starts a command, from outside or from a listener.
Start(c) ==
    /\ s.cmd[c].st = "idle" /\ (Quiet \/ s.user)
    /\ s' \in as_pipe_get_connection(s, c)

Retry(c) == Quiet /\ s.cmd[c].st = "retry" /\ s' \in as_pipe_get_connection([s EXCEPT !.user = FALSE], c)

Connected(c) ==
    /\ Quiet /\ s.cmd[c].st = "connecting"
    /\ s' \in as_event_command_write_start([s EXCEPT !.user = FALSE], c)

\* The writer's socket can be written to, or its request has completed.
Writable(c) ==
    /\ Quiet /\ s.cmd[c].st = "writing" /\ "w" \in s.net[s.cmd[c].conn].watch
    /\ s' \in Written([s EXCEPT !.user = FALSE], c)
              \cup (IF s.setup.drop THEN {as_pipe_socket_error(s, c, TRUE)} ELSE {})

next_reader(x, k) ==
    LET y == [x EXCEPT !.net[k].readers = Tail(@), !.net[k].sent = Tail(@), !.net[k].half = FALSE]
        n == y.net[k]
    IN  IF n.readers # <<>> THEN y
        ELSE IF n.writer # 0 THEN (IF y.setup.lib = "uv" THEN [y EXCEPT !.net[k].watch = @ \ {"r"}] ELSE y)
        ELSE IF n.in_pool THEN as_event_stop_watcher(y, k)
        ELSE as_event_release_connection(as_event_stop_watcher(y, k), k)

\* The answer at the head goes to the reader at the head.
Matches(x, k) == IF Head(x.net[k].sent) = Head(x.net[k].readers) THEN x ELSE [x EXCEPT !.bad = @ \cup {"answer"}]

as_pipe_response_complete(x, k) == Report(next_reader(Matches(x, k), k), Head(x.net[k].readers))

\* An error that is fatal for the connection, or one of the command's own.
as_pipe_response_error(x, k, fatal) ==
    IF fatal THEN cancel_connection(x, Head(x.net[k].readers), FALSE) ELSE as_pipe_response_complete(x, k)

\* An answer comes: in full, in part, or the read fails.
Incomplete(x, k) == [x EXCEPT !.net[k].half = TRUE, !.net[k].watch = IF x.setup.lib = "uv" THEN @ ELSE {"r"}]

Readable(k) ==
    LET x == [s EXCEPT !.user = FALSE]
    IN  /\ Quiet /\ s.net[k].open /\ "r" \in s.net[k].watch /\ s.net[k].readers # <<>> /\ s.net[k].sent # <<>>
        /\ s' \in {as_pipe_response_complete(x, k), as_pipe_response_error(x, k, FALSE)}
                  \cup (IF s.setup.drop THEN {as_pipe_response_error(x, k, TRUE),
                                              as_pipe_socket_error(x, Head(s.net[k].readers), TRUE)} ELSE {})
                  \cup (IF s.setup.partial /\ ~s.net[k].half THEN {Incomplete(x, k)} ELSE {})

\* as_event_socket_timeout retries, as_event_total_timeout does not.
Timeout(c) ==
    /\ Quiet /\ s.setup.wait /\ s.cmd[c].st \in {"connecting", "writing", "reading", "retry"}
    /\ \E retry \in BOOLEAN :
           /\ s.cmd[c].st = "retry" => ~retry
           /\ s' = as_pipe_timeout([s EXCEPT !.user = FALSE], c, retry)

\* cancel_connection goes on: the writer, the readers, the connection.
CancelWriter ==
    /\ s.stack # <<>> /\ Head(s.stack).kind = "cancel" /\ Head(s.stack).writer # 0
    /\ LET f == Head(s.stack)
       IN  s' = cancel_command([s EXCEPT !.stack[1].writer = 0, !.user = FALSE], f.writer, f.retry)

CancelReader ==
    /\ s.stack # <<>> /\ Head(s.stack).kind = "cancel" /\ Head(s.stack).writer = 0
    /\ LET f == Head(s.stack)
           n == s.net[f.conn]
       IN  /\ n.readers # <<>>
           /\ s' = cancel_command([s EXCEPT !.net[f.conn].readers = Tail(@), !.user = FALSE], Head(n.readers), f.retry)

Canceled(x, k) ==
    IF x.net[k].in_pool
    THEN [x EXCEPT !.net[k].writer = 0, !.net[k].canceled = TRUE, !.net[k].canceling = FALSE]
    ELSE as_event_release_connection([x EXCEPT !.net[k].canceled = TRUE], k)

CancelEnds ==
    /\ s.stack # <<>> /\ Head(s.stack).kind = "cancel" /\ Head(s.stack).writer = 0
    /\ LET f == Head(s.stack)
       IN  /\ s.net[f.conn].readers = <<>>
           /\ s' = Canceled([s EXCEPT !.stack = Tail(@), !.user = Len(s.stack) > 1], f.conn)

\* A listener of the pipeline returns; the next of the queue runs.
ListenerReturns ==
    /\ s.stack # <<>> /\ Head(s.stack).kind = "listener"
    /\ LET f == Head(s.stack)
       IN  IF f.more > 1 THEN s' = [s EXCEPT !.stack[1].more = @ - 1, !.user = TRUE]
           ELSE s' \in StartRead([s EXCEPT !.stack = Tail(@), !.user = Len(s.stack) > 1], f.cmd, f.conn)

Next ==
    \/ \E c \in Commands : Start(c) \/ Retry(c) \/ Connected(c) \/ Writable(c) \/ Timeout(c)
    \/ \E k \in 1..MaxConns : Readable(k)
    \/ CancelWriter \/ CancelReader \/ CancelEnds \/ ListenerReturns

Spec == Init /\ [][Next]_s

-----------------------------------------------------------------------------
(* Properties.                                                              *)

\* An answer is given to the command whose request it answers: next_reader takes them
\* from the list in the order of the requests on the wire, whatever commands of the
\* connection failed, timed out or were retried before.
AnswersMatch == "answer" \notin s.bad

\* Every open connection is in the pool, or has a command that will close it or put it
\* there; the pool counts the open ones, and holds none twice.
NoneLost ==
    /\ s.total = Cardinality({k \in 1..MaxConns : s.net[k].open})
    /\ \A k \in 1..MaxConns :
           /\ s.net[k].open =>
                 s.net[k].in_pool \/ s.net[k].writer # 0 \/ s.net[k].readers # <<>> \/ s.net[k].canceling
           /\ s.net[k].in_pool = (Cardinality({i \in DOMAIN s.pool : s.pool[i] = k}) = 1)
           /\ Cardinality({i \in DOMAIN s.pool : s.pool[i] = k}) <= 1

\* A command belongs to the connection it thinks it does: as its writer, or in its list
\* of readers; and its listener is called once.
Belongs ==
    Quiet => \A c \in Commands :
        LET n == s.net[s.cmd[c].conn]
        IN  /\ s.cmd[c].reported <= 1
            /\ s.cmd[c].st \in {"connecting", "writing"} => n.open /\ n.writer = c
            /\ s.cmd[c].st = "reading" => n.open /\ \E i \in DOMAIN n.readers : n.readers[i] = c

\* A writer waits for the socket to take the rest of its request, and readers wait for
\* their answers: no callback for one of them takes the other's event away.
EachAwaited ==
    Quiet => \A k \in 1..MaxConns :
        LET n == s.net[k]
        IN  /\ n.open /\ n.writer # 0 => "w" \in n.watch
            /\ n.open /\ n.readers # <<>> => "r" \in n.watch

\* What libuv does with a command after its listener returns, it does with a live one.
ListenerKeepsCommand == "command" \notin s.bad
=============================================================================
