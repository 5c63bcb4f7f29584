---------------------------- MODULE EventSocket ----------------------------
(***************************************************************************)
(* One asynchronous command on its connection, between two turns of the    *)
(* event loop: connecting, the TLS handshake, authentication, writing the  *)
(* request and reading the answer.  The part that as_event.c shares among  *)
(* the event libraries; EventWatcher (libev, libevent) and EventStream     *)
(* (libuv) extend it with their callbacks.                                 *)
(*                                                                         *)
(* A callback runs to its end before the loop takes another event, so it   *)
(* is one step; what the kernel answers it is a choice, so a function maps *)
(* a state to the set of states it may end in.                             *)
(*                                                                         *)
(* Bytes are counted in units: a header (as_proto) is one unit that tells  *)
(* how many units follow.                                                  *)
(***************************************************************************)
EXTENDS Integers, Sequences, FiniteSets

CONSTANTS
    MaxConns,    \* connections that may exist at a time
    MaxCommands  \* commands run one after the other

Then(S, F(_)) == UNION {F(x) : x \in S}

\* A connection.  "in": units the client has not read, "ssl" of them already inside the
\* TLS layer; "todo": units the server has still to send; "watch": the events an ev or
\* libevent watcher waits for; "reading", "req": the callbacks of libuv's read and of its
\* one request; "want": the TLS layer waits for a message of the peer's.
NewConn ==
    [open |-> TRUE, init |-> FALSE, watch |-> {}, reading |-> "", req |-> "", want |-> "", callback |-> "",
     in |-> <<>>, ssl |-> 0, todo |-> <<>>, shut |-> FALSE, hands |-> 0]
NoConn == [NewConn EXCEPT !.open = FALSE]

Conn(x) == x.net[x.conn]
Tls(x) == x.setup.tls

\* Whether the command, and its connection, may still be used; a use that comes too late.
Usable(x) == x.cmd # "freed" /\ x.conn # 0
TooLate(x) == [x EXCEPT !.bad = @ \cup {"command"}]

\* len == 0 is a request that has been answered in full.
WriteLen == 2
AuthLen == 1

-----------------------------------------------------------------------------
(* Timers.  HAS_TIMER stays set once a timer was started.                   *)

as_event_timer_once(x, kind) == [x EXCEPT !.timer = kind, !.has_timer = TRUE]
as_event_timer_repeat(x) == [x EXCEPT !.timer = "socket", !.has_timer = TRUE, !.using_socket = TRUE, !.event = FALSE]
as_event_timer_stop(x) == [x EXCEPT !.timer = "off"]

\* as_event_execute_retry: restore the timer the retry took.
RestoreTimer(x) ==
    CASE x.setup.timer = "total" -> as_event_timer_once(x, "total")
      [] x.setup.timer = "socket" -> as_event_timer_repeat(x)
      [] OTHER -> x

\* libuv frees the command once its timer is closed, the others at once.
as_event_command_release(x) ==
    [x EXCEPT !.cmd = IF x.setup.lib = "uv" /\ x.has_timer THEN "closing" ELSE "freed"]

as_event_error_callback(x, e) ==
    as_event_command_release([x EXCEPT !.reported = @ + 1, !.result = e])

\* ++iteration > max_retries; the connection is forgotten only when the retry goes on.
RetryKeepsConn(x) ==  \* mutant
    LET y == [x EXCEPT !.iteration = @ + 1]
    IN  IF y.iteration > y.setup.retries THEN [y EXCEPT !.rv = "no"]
        ELSE as_event_timer_once([as_event_timer_stop(y) EXCEPT !.state = "RETRY", !.rv = "retry"], "retry")
as_event_command_retry(x) ==
    LET y == [x EXCEPT !.iteration = @ + 1]
    IN  IF y.iteration > y.setup.retries THEN [y EXCEPT !.rv = "no"]
        ELSE as_event_timer_once([as_event_timer_stop(y) EXCEPT !.conn = 0, !.state = "RETRY", !.rv = "retry"], "retry")

-----------------------------------------------------------------------------
(* Closing a connection.  libev and libevent close and free it at once;     *)
(* libuv's connection is freed in a callback, and a TLS connection first    *)
(* sends its shutdown.                                                      *)

as_event_stop_watcher(x) ==
    IF x.setup.lib = "uv" THEN [x EXCEPT !.net[x.conn].reading = ""]
    ELSE [x EXCEPT !.net[x.conn].watch = {}, !.net[x.conn].init = FALSE]

\* What is left of a closed connection is the request libuv still has to cancel.
CloseNow(x, k) == [x EXCEPT !.net[k] = [NoConn EXCEPT !.req = x.net[k].req]]

\* uv_write with the connection's one request.
UvWrite(x, k, cb) ==
    [x EXCEPT !.bad = IF x.net[k].req # "" THEN @ \cup {"request"} ELSE @, !.net[k].req = cb]

\* as_uv_tls_try_send_pending: what the TLS layer has to send goes out at once, or has to
\* wait for the kernel, which it does while an earlier write waits.
TrySend(x, k) ==
    (IF x.net[k].req = "" THEN {"sent"} ELSE {}) \cup (IF x.setup.slow \/ x.net[k].req # "" THEN {"slow"} ELSE {})
        \cup (IF x.setup.drop THEN {"failed"} ELSE {})

as_event_close_connection(x, k) ==
    IF x.setup.lib = "uv" /\ Tls(x) /\ x.net[k].hands > 0
    THEN {IF r = "slow" THEN UvWrite(x, k, "as_uv_tls_shutdown_complete") ELSE CloseNow(x, k) : r \in TrySend(x, k)}
    ELSE {CloseNow(x, k)}

as_event_release_connection(x, k) ==
    {[y EXCEPT !.total = @ - 1] : y \in as_event_close_connection(x, k)}

\* as_event_socket_retry, and as_event_socket_error when there is no retry.  The message
\* of a TLS failure quotes the descriptor of the connection just released.
SocketFails(x, e, quotes) ==
    LET Report(y) ==
            IF y.rv = "retry" THEN y
            ELSE as_event_error_callback([as_event_timer_stop(y) EXCEPT !.bad = @ \cup quotes], e)
        Retry(y) == {[Report(as_event_command_retry(y)) EXCEPT !.rv = "error"]}
    IN  Then(as_event_release_connection(as_event_stop_watcher(x), x.conn), Retry)
as_event_socket_retry(x) == SocketFails(x, "ASYNC_CONNECTION", {})

as_event_parse_error(x) ==
    {[as_event_error_callback(as_event_timer_stop(y), "CLIENT") EXCEPT !.rv = "error"] :
        y \in as_event_release_connection(as_event_stop_watcher(x), x.conn)}

\* as_event_connection_timeout: a connection never watched is just freed.
as_event_connection_timeout(x) ==
    IF x.conn = 0 THEN {x}
    ELSE IF Conn(x).init THEN as_event_release_connection(as_event_stop_watcher(x), x.conn)
    ELSE {[CloseNow(x, x.conn) EXCEPT !.total = @ - 1]}

as_event_put_connection(x) == [x EXCEPT !.pool = <<x.conn>> \o @]

as_event_response_complete(x) == as_event_put_connection(as_event_stop_watcher(as_event_timer_stop(x)))

\* The listener of a command that succeeded, then as_event_command_release.
Succeed(x) ==
    [as_event_command_release([x EXCEPT !.reported = @ + 1, !.result = "OK"]) EXCEPT !.rv = "done"]

ErrorNotTheEnd(x, e) ==  \* mutant
    {[as_event_error_callback(as_event_put_connection(as_event_stop_watcher(as_event_timer_stop(x))), e) EXCEPT !.rv = "complete"]}
\* An error the server sent leaves nothing unread, but for the codes that close.
as_event_response_error(x, e) ==
    LET y == as_event_stop_watcher(as_event_timer_stop(x))
        closed == IF e = "QUERY_ABORTED" THEN as_event_release_connection(y, y.conn) ELSE {as_event_put_connection(y)}
    IN  {[as_event_error_callback(z, e) EXCEPT !.rv = "done"] : z \in closed}

-----------------------------------------------------------------------------
(* The server and what it sends.  "by" is the request a unit answers.       *)

Header(n, by) == [hdr |-> TRUE, size |-> n, code |-> "", by |-> by]
Block(code, by) == [hdr |-> FALSE, size |-> 0, code |-> code, by |-> by]

\* A request answered by one block, or by blocks up to one marked last.  A block of the
\* size of a bare message need not be the last.
Answers(x) ==
    LET by == x.request
        Last == <<Header(1, by), Block("last", by)>>
        Error(e) == <<Header(1, by), Block(e, by)>>
        Small == Error("more")
        Large == <<Header(2, by), Block("", by), Block("more", by)>>
    IN  IF x.setup.multi
        THEN {Last, Small \o Last, Small \o Large \o Last, Small \o Error("QUERY_ABORTED") \o Last}
        ELSE {Last, <<Header(2, by), Block("", by), Block("last", by)>>, Error("NOT_FOUND"), Error("corrupt"),
              <<Header(0, by)>>}

AuthAnswers == {<<Header(1, 0), Block("ok", 0)>>, <<Header(1, 0), Block("refused", 0)>>, <<Header(9, 0)>>}

\* The request is out: the server will answer it.
Requested(x, answers) == {[x EXCEPT !.net[x.conn].todo = @ \o a] : a \in answers}

\* Units may be taken from the head of what has come; under TLS a read moves more of it
\* into the TLS layer.
Take(x, k, n) ==
    LET c == x.net[k]
        unit == c.in[n]
        skewed == \E i \in 1..n : c.in[i].by # (IF x.state \in {"AUTH_READ_HEADER", "AUTH_READ_BODY"} THEN 0 ELSE x.request)
        wrong == unit.hdr # (x.state \in {"AUTH_READ_HEADER", "COMMAND_READ_HEADER"})
    IN  {[x EXCEPT !.net[k].in = SubSeq(c.in, n + 1, Len(c.in)), !.net[k].ssl = held,
                   !.pos = @ + n, !.last = unit, !.bad = @ \cup (IF skewed \/ wrong THEN {"stream"} ELSE {})] :
            held \in IF Tls(x) THEN {IF c.ssl > n THEN c.ssl - n ELSE 0, Len(c.in) - n} ELSE {0}}

\* Whether the descriptor can be read: data, the end, or a message between the TLS layers.
Readable(c) == Len(c.in) > c.ssl \/ c.shut \/ c.want = "read"

as_event_set_write(x) == [x EXCEPT !.len = WriteLen, !.pos = 0]
\* The authentication request lies behind the command's request.
as_event_set_auth_write(x) == [x EXCEPT !.len = WriteLen + AuthLen, !.pos = WriteLen]
as_event_set_auth_read_header(x) == [x EXCEPT !.len = 1, !.pos = 0, !.state = "AUTH_READ_HEADER"]
ReadHeader(x) == [x EXCEPT !.len = 1, !.pos = 0, !.state = "COMMAND_READ_HEADER"]

ReadCapacity == 4
as_event_proto_parse_auth(x) == x.last.size <= ReadCapacity
as_event_set_auth_parse_header(x) ==
    IF as_event_proto_parse_auth(x)
    THEN {[x EXCEPT !.len = x.last.size, !.pos = 0, !.state = "AUTH_READ_BODY", !.rv = "ok"]}
    ELSE as_event_parse_error(x)

\* A header of size 0 stands for one as_event_proto_parse refuses, or whose block libuv
\* finds too short.
as_event_proto_parse(x) ==
    IF x.last.size = 0 THEN as_event_parse_error(x)
    ELSE {[x EXCEPT !.len = x.last.size, !.pos = 0, !.state = "COMMAND_READ_BODY", !.rv = "ok"]}

\* cmd->parse_results, after as_event_decompress for a compressed block: "done" when the
\* command has ended and its memory may be gone, else the next header is to be read.
parse_results(x) ==
    CASE x.last.code = "last" -> {Succeed(as_event_response_complete(x))}
      [] x.last.code = "more" -> {[ReadHeader([x EXCEPT !.pos = 0]) EXCEPT !.rv = "more"]}
      [] x.last.code = "corrupt" -> {[y EXCEPT !.rv = "done"] : y \in as_event_parse_error(x)}
      [] OTHER -> as_event_response_error(x, x.last.code)

\* A connector has done its work once the connection stands; it goes to the pool.
as_event_connector_success(x) == {Succeed(as_event_response_complete(x))}
=============================================================================
