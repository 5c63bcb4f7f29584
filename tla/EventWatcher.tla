---------------------------- MODULE EventWatcher ----------------------------
(***************************************************************************)
(* The callbacks of libev and of libevent, which are the same code written *)
(* twice: a watcher waits for the descriptor to become readable or         *)
(* writable, and the callback reads or writes until it would block.        *)
(* as_event_X is libevent's copy of as_ev_X, and the calls name that copy. *)
(***************************************************************************)
EXTENDS EventSocket

RECURSIVE Drain(_, _)

as_ev_watch_write(x) == IF Usable(x) THEN [x EXCEPT !.net[x.conn].watch = {"w"}] ELSE TooLate(x)
as_event_watch_write(x) == as_ev_watch_write(x)
as_ev_watch_read(x) == IF Usable(x) THEN [x EXCEPT !.net[x.conn].watch = {"r"}] ELSE TooLate(x)
as_event_watch_read(x) == as_ev_watch_read(x)

\* The TLS layer waits for a message of the peer's.
TlsWantsRead(x) == [as_event_watch_read(x) EXCEPT !.net[x.conn].want = "read"]

Quotes(x) == IF Tls(x) THEN {"descriptor"} ELSE {}

\* All of it, some of it, nothing, or an error.  TLS may want to read first.
as_ev_write(x) ==
    {[x EXCEPT !.pos = @ + n, !.event = FALSE, !.rv = "complete"] : n \in {x.len - x.pos}}
    \cup (IF x.setup.slow
          THEN {[as_event_watch_write(x) EXCEPT !.pos = @ + n, !.rv = "incomplete"] : n \in 0..(x.len - x.pos - 1)} ELSE {})
    \cup (IF x.setup.slow /\ Tls(x) THEN {[TlsWantsRead(x) EXCEPT !.rv = "need_read"]} ELSE {})
    \cup (IF x.setup.drop THEN SocketFails(x, "ASYNC_CONNECTION", Quotes(x)) ELSE {})
as_event_write(x) == as_ev_write(x)

\* Reads up to what cmd->len asks for.
as_ev_read(x) ==
    LET c == Conn(x)
        missing == x.len - x.pos
        y == [x EXCEPT !.event = TRUE]
    IN  IF Len(c.in) >= missing
        THEN {[z EXCEPT !.rv = "complete"] : z \in Take(as_event_watch_read(y), x.conn, missing)}
        ELSE LET some == IF c.in = <<>> THEN {y} ELSE Take(y, x.conn, Len(c.in))
                 Blocks(z) == IF c.shut THEN SocketFails(z, "ASYNC_CONNECTION", Quotes(z))
                              ELSE {[as_event_watch_read(z) EXCEPT !.rv = "incomplete"]}
                                   \cup (IF Tls(z) /\ z.setup.slow
                                         THEN {[as_event_watch_write(z) EXCEPT !.rv = "need_write"]} ELSE {})
             IN  Then(some, Blocks)
as_event_read(x) == as_ev_read(x)

as_ev_command_read_start(x) == as_event_watch_read(ReadHeader([x EXCEPT !.sent = @ + 1]))
as_event_command_read_start(x) == as_ev_command_read_start(x)

as_ev_command_write(x) ==
    LET Next_(y) == IF y.rv = "complete" THEN Requested(as_event_command_read_start(y), Answers(y)) ELSE {y}
    IN  Then(as_event_write(as_event_watch_write(x)), Next_)
as_event_command_write(x) == as_ev_command_write(x)

as_event_command_write_start_ev(x) == as_event_command_write(as_event_set_write([x EXCEPT !.state = "COMMAND_WRITE"]))
as_event_command_write_start_event(x) == as_event_command_write_start_ev(x)

\* The result of the write is not looked at.
as_ev_command_start(x) ==
    IF x.setup.connector THEN as_event_connector_success(x)
    ELSE {[y EXCEPT !.rv = "complete"] : y \in as_event_command_write_start_event(x)}
as_event_command_start(x) == as_ev_command_start(x)

as_ev_command_auth_write(x) ==
    LET Next_(y) ==
            IF y.rv = "complete" THEN Requested(as_event_watch_read(as_event_set_auth_read_header(y)), AuthAnswers) ELSE {y}
    IN  Then(as_event_write(as_event_watch_write(x)), Next_)
as_event_command_auth_write(x) == as_ev_command_auth_write(x)

\* Without a session the connection is used unauthenticated.
as_ev_connect_complete(x) ==
    IF x.setup.auth THEN as_event_command_auth_write(as_event_set_auth_write([x EXCEPT !.state = "AUTH_WRITE"]))
    ELSE as_event_command_start(x)
as_event_connect_complete(x) == as_ev_connect_complete(x)

\* One more header, and the block behind it if it looks like the last.
PeekForgetsBlock(x) ==  \* mutant
    LET OnBody(y) == IF y.rv # "complete" THEN {y}
                     ELSE {IF z.rv = "more" THEN [z EXCEPT !.rv = "complete"] ELSE z : z \in parse_results(y)}
        OnHeader(y) ==
            LET Sized(z) == IF z.rv = "error" THEN {z} ELSE IF z.len = 1 THEN Then(as_event_read(z), OnBody)
                            ELSE {ReadHeader([z EXCEPT !.rv = "complete"])}
            IN  IF y.rv # "complete" THEN {y} ELSE Then(as_event_proto_parse(y), Sized)
    IN  Then(as_event_read(ReadHeader(x)), OnHeader)
as_ev_command_peek_block(x) ==
    LET OnBody(y) == IF y.rv # "complete" THEN {y}
                     ELSE {IF z.rv = "more" THEN [z EXCEPT !.rv = "complete"] ELSE z : z \in parse_results(y)}
        OnHeader(y) ==
            LET Sized(z) == IF z.rv = "error" THEN {z} ELSE IF z.len = 1 THEN Then(as_event_read(z), OnBody)
                            ELSE {[z EXCEPT !.rv = "complete"]}
            IN  IF y.rv # "complete" THEN {y} ELSE Then(as_event_proto_parse(y), Sized)
    IN  Then(as_event_read(ReadHeader(x)), OnHeader)
as_event_command_peek_block(x) == as_ev_command_peek_block(x)

as_ev_parse_authentication(x) ==
    LET OnBody(y) == CASE y.rv # "complete" -> {y}
                       [] y.rv = "complete" /\ y.last.code = "refused" -> as_event_parse_error(y)
                       [] OTHER -> as_event_command_start(y)
        Body(y) == IF y.rv = "error" THEN {y} ELSE Then(as_event_read(y), OnBody)
        OnHeader(y) == IF y.rv # "complete" THEN {y} ELSE Then(as_event_set_auth_parse_header(y), Body)
    IN  IF x.state = "AUTH_READ_HEADER" THEN Then(as_event_read(x), OnHeader) ELSE Body([x EXCEPT !.rv = "ok"])
as_event_parse_authentication(x) == as_ev_parse_authentication(x)

as_ev_command_read(x) ==
    LET OnBlock(y) == CASE y.rv # "complete" -> {y}
                        [] OTHER -> Then(parse_results(y), LAMBDA z : IF z.rv = "more" THEN as_event_command_peek_block(z) ELSE {z})
        Body(y) == IF y.rv = "error" THEN {y} ELSE Then(as_event_read(y), OnBlock)
        OnHeader(y) == IF y.rv # "complete" THEN {y} ELSE Then(as_event_proto_parse(y), Body)
    IN  IF x.state = "COMMAND_READ_HEADER" THEN Then(as_event_read(x), OnHeader) ELSE Body([x EXCEPT !.rv = "ok"])
as_event_command_read(x) == as_ev_command_read(x)

\* The loop around a read: until nothing is left in the TLS layer, for which no event comes.
OneTurn(x, authenticating) ==  \* mutant
    LET Turn(y) == CASE y.rv \in {"done", "error"} -> {y}
                     [] y.rv = "complete" -> {as_event_watch_read(y)}
                     [] OTHER -> {y}
    IN  Then(IF authenticating THEN as_event_parse_authentication(x) ELSE as_event_command_read(x), Turn)
Drain(x, authenticating) ==
    LET Again(y) == IF Usable(y) /\ Tls(y) /\ Conn(y).ssl > 0 THEN Drain(y, authenticating) ELSE {y}
        Turn(y) == IF y.rv \in {"done", "error"} THEN {y}
                   ELSE Again(IF y.rv = "complete" THEN as_event_watch_read(y) ELSE y)
    IN  Then(IF authenticating THEN as_event_parse_authentication(x) ELSE as_event_command_read(x), Turn)

\* SSL_connect once: wants to read, wants to write, fails, or the session stands.
as_ev_tls_connect(x) ==
    {[TlsWantsRead(x) EXCEPT !.net[x.conn].hands = 1]}
    \cup (IF x.setup.slow /\ Conn(x).hands = 0 THEN {as_event_watch_write(x)} ELSE {})
    \cup (IF x.setup.drop THEN SocketFails(x, "TLS_ERROR", {}) ELSE {})
    \cup (IF Conn(x).hands = 1 THEN as_event_connect_complete([x EXCEPT !.net[x.conn].hands = 2]) ELSE {})
as_event_tls_connect(x) == as_ev_tls_connect(x)

as_ev_callback_common(x) ==
    CASE x.state = "CONNECT" -> as_event_connect_complete(x)
      [] x.state = "TLS_CONNECT" -> as_event_tls_connect(x)
      [] x.state = "AUTH_WRITE" -> as_event_command_auth_write(x)
      [] x.state \in {"AUTH_READ_HEADER", "AUTH_READ_BODY"} -> Drain(x, TRUE)
      [] x.state = "COMMAND_WRITE" -> as_event_command_write(x)
      [] x.state \in {"COMMAND_READ_HEADER", "COMMAND_READ_BODY"} -> Drain(x, FALSE)
      [] OTHER -> {x}
as_event_callback_common(x) == as_ev_callback_common(x)

as_ev_watcher_init(x) ==
    [x EXCEPT !.state = IF Tls(x) THEN "TLS_CONNECT" ELSE "CONNECT", !.net[x.conn].init = TRUE, !.net[x.conn].watch = {"w"}]
as_event_watcher_init(x) == as_ev_watcher_init(x)

\* No address could be connected to: the socket is closed already.
as_ev_connect_error(x) ==
    LET y == as_event_command_retry([CloseNow(x, x.conn) EXCEPT !.total = @ - 1])
    IN  IF y.rv = "retry" THEN y ELSE as_event_error_callback(as_event_timer_stop(y), "ASYNC_CONNECTION")
as_event_connect_error(x) == as_ev_connect_error(x)

as_event_connect_ev(x) == {as_event_watcher_init(x)} \cup (IF x.setup.drop THEN {as_event_connect_error(x)} ELSE {})
as_event_connect_event(x) == as_event_connect_ev(x)

\* What the watcher of a connection can report now.
as_ev_callback(x) ==
    IF x.conn # 0 /\ Conn(x).open /\ (("r" \in Conn(x).watch /\ Readable(Conn(x))) \/ "w" \in Conn(x).watch)
    THEN as_event_callback_common([x EXCEPT !.net[x.conn].want = ""]) ELSE {}
as_event_callback(x) == as_ev_callback(x)

=============================================================================
