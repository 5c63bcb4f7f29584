---------------------------- MODULE EventStream ----------------------------
(***************************************************************************)
(* The callbacks of libuv.  A stream reads as long as it is told to, and a *)
(* write is a request that completes in a callback; a connection has room  *)
(* for one request, because "only one request is active at a time".  With  *)
(* TLS the library encrypts into memory and as_event_uv.c moves the bytes. *)
(***************************************************************************)
EXTENDS EventSocket

RECURSIVE as_uv_tls_read(_)

uv_read_start(x, cb) == [x EXCEPT !.net[x.conn].reading = cb]
uv_read_stop(x) == [x EXCEPT !.net[x.conn].reading = ""]

\* A call of libuv that may be refused, and then fails the command.
OrRefused(S, x) == S \cup (IF x.setup.drop THEN as_event_socket_retry(x) ELSE {})

as_uv_connect_error(x) ==
    LET y == as_event_command_retry([CloseNow(x, x.conn) EXCEPT !.total = @ - 1])
    IN  IF y.rv = "retry" THEN y ELSE as_event_error_callback(as_event_timer_stop(y), "ASYNC_CONNECTION")

\* The connection is not known to libuv yet; there is no retry.
as_uv_fd_error(x) ==
    as_event_error_callback(as_event_timer_stop([CloseNow(x, x.conn) EXCEPT !.total = @ - 1]), "ASYNC_CONNECTION")
as_uv_tls_connect_fatal_error(x) == as_uv_fd_error(x)

-----------------------------------------------------------------------------
(* Without TLS.                                                             *)

as_uv_command_write_start(x) ==
    LET y == [as_event_set_write(x) EXCEPT !.state = "COMMAND_WRITE", !.event = FALSE]
    IN  OrRefused({UvWrite(y, y.conn, "as_uv_command_write_complete")}, y)

as_uv_command_write_complete(x, ok) ==
    IF ok THEN LET y == ReadHeader([x EXCEPT !.sent = @ + 1])
               IN  OrRefused(Requested(uv_read_start(y, "as_uv_command_read"), Answers(y)), y)
    ELSE as_event_socket_retry(x)

as_uv_command_start(x) == IF x.setup.connector THEN as_event_connector_success(x) ELSE as_uv_command_write_start(x)

as_uv_auth_write_start(x) ==
    LET y == [as_event_set_auth_write(x) EXCEPT !.state = "AUTH_WRITE"]
    IN  OrRefused({UvWrite(y, y.conn, "as_uv_auth_write_complete")}, y)

as_uv_auth_write_complete(x, ok) ==
    IF ok THEN LET y == as_event_set_auth_read_header(x)
               IN  OrRefused(Requested(uv_read_start(y, "as_uv_auth_read"), AuthAnswers), y)
    ELSE as_event_socket_retry(x)

\* libuv reads into the room the buffer callbacks offer: up to cmd->len.
as_uv_command_buffer(x) == x.len - x.pos

ReadSome(x, Done(_)) ==
    LET n == IF Len(Conn(x).in) < as_uv_command_buffer(x) THEN Len(Conn(x).in) ELSE as_uv_command_buffer(x)
    IN  IF Conn(x).in = <<>> THEN as_event_socket_retry(x)
        ELSE Then(Take(x, x.conn, n), LAMBDA y : IF y.pos < y.len THEN {y} ELSE Done(y))

as_uv_auth_read(x) ==
    LET Done(y) == CASE y.state = "AUTH_READ_HEADER" -> as_event_set_auth_parse_header(y)
                     [] y.state = "AUTH_READ_BODY" /\ y.last.code = "refused" -> as_event_parse_error(uv_read_stop(y))
                     [] OTHER -> as_uv_command_start(uv_read_stop(y))
    IN  ReadSome(x, Done)

as_uv_command_read(x) ==
    LET Done(y) == IF y.state = "COMMAND_READ_HEADER" THEN as_event_proto_parse(y) ELSE parse_results(y)
    IN  ReadSome([x EXCEPT !.event = TRUE], Done)

-----------------------------------------------------------------------------
(* With TLS.                                                                *)

\* as_uv_tls_send_pending: at once, and then the callback runs at once; or later.
as_uv_tls_send_pending(x, cb, Sent(_), Failed(_)) ==
    Then(TrySend(x, x.conn), LAMBDA r : CASE r = "sent" -> Sent(x)
                                          [] r = "failed" -> Failed(x)
                                          [] OTHER -> {UvWrite(x, x.conn, cb)})

as_uv_tls_command_write_complete(x) ==
    LET y == ReadHeader([x EXCEPT !.sent = @ + 1])
    IN  OrRefused(Requested(uv_read_start(y, "as_uv_tls_command_read"), Answers(y)), y)

as_uv_tls_auth_write_complete(x) ==
    LET y == as_event_set_auth_read_header(x)
    IN  OrRefused(Requested(uv_read_start(y, "as_uv_tls_auth_read"), AuthAnswers), y)

\* tls->callback, once all of it is out.
TlsWritten(x) ==
    IF Conn(x).callback = "auth" THEN as_uv_tls_auth_write_complete(x) ELSE as_uv_tls_command_write_complete(x)

\* SSL_write takes all or wants something first; what it encrypted is sent.
as_uv_tls_write(x) ==
    LET took == [x EXCEPT !.pos = x.len, !.net[x.conn].want = ""]
        Slow(y) == {UvWrite(y, y.conn, "as_uv_tls_write_pending_complete")}
        reads == [x EXCEPT !.net[x.conn].want = "read"]
    IN  Then(TrySend(took, took.conn), LAMBDA r : CASE r = "sent" -> TlsWritten(took)
                                                    [] r = "failed" -> as_event_socket_retry(took)
                                                    [] OTHER -> Slow(took))
        \cup (IF x.setup.slow THEN {uv_read_start(reads, "as_uv_tls_write_read_complete")} \cup Slow(reads) ELSE {})
        \cup (IF x.setup.drop THEN as_event_parse_error(x) ELSE {})   \* as_uv_tls_handle_error

as_uv_tls_write_pending_complete(x, ok) ==
    CASE ~ok -> as_event_socket_retry(x)
      [] ok /\ x.pos < x.len /\ Conn(x).want = "read" ->
            OrRefused({uv_read_start(x, "as_uv_tls_write_read_complete")}, x)
      [] ok /\ x.pos < x.len /\ Conn(x).want # "read" -> as_uv_tls_write(x)
      [] OTHER -> TlsWritten(x)

as_uv_tls_write_read_complete(x) == as_uv_tls_write(uv_read_stop([x EXCEPT !.event = TRUE]))

as_uv_tls_command_write_start(x) ==
    as_uv_tls_write([as_event_set_write(x) EXCEPT !.state = "COMMAND_WRITE", !.event = FALSE, !.net[x.conn].callback = "command"])

as_uv_tls_command_start(x) ==
    IF x.setup.connector THEN as_event_connector_success(x) ELSE as_uv_tls_command_write_start(x)

as_event_command_write_start_uv(x) ==
    IF Tls(x) THEN as_uv_tls_command_write_start(x) ELSE as_uv_command_write_start(x)

\* Until the TLS layer has no more to give, fails, or has to write before it reads on.  What
\* it writes goes out at once and it reads on, or a request stays active on a stream that
\* is still read.
as_uv_tls_read(x) ==
    LET Loop(y) == IF y.rv \in {"ok", "more"} THEN as_uv_tls_read(y) ELSE {y}
        Done(y) == CASE y.state = "AUTH_READ_HEADER" -> Then(as_event_set_auth_parse_header(y), Loop)
                     [] y.state = "AUTH_READ_BODY" /\ y.last.code = "refused" -> as_event_parse_error(y)
                     [] y.state = "AUTH_READ_BODY" /\ y.last.code # "refused" -> as_uv_tls_command_start(uv_read_stop(y))
                     [] y.state = "COMMAND_READ_HEADER" -> Then(as_event_proto_parse(y), Loop)
                     [] OTHER -> Then(parse_results(y), Loop)
        some == IF Conn(x).ssl = 0 THEN {x}
                ELSE Then({[y EXCEPT !.net[x.conn].ssl = Conn(x).ssl - 1] : y \in Take(x, x.conn, 1)},
                          LAMBDA y : IF y.pos < y.len THEN as_uv_tls_read(y) ELSE Done(y))
    IN  (IF x.setup.rewrites
         THEN as_uv_tls_send_pending(x, "as_uv_tls_read_want_write_complete", LAMBDA y : some, as_event_socket_retry)
         ELSE some)
        \cup (IF x.setup.drop THEN as_event_parse_error(x) ELSE {})   \* as_uv_tls_handle_error

as_uv_tls_read_want_write_complete(x, ok) == IF ok THEN as_uv_tls_read(x) ELSE as_event_socket_retry(x)

\* as_uv_tls_fill_buffer: all that has come goes to the TLS layer, which may not take it.
as_uv_tls_fill_buffer(x) ==
    IF Readable(Conn(x)) /\ Len(Conn(x).in) = Conn(x).ssl /\ Conn(x).want = "" THEN as_event_socket_retry(x)
    ELSE {[x EXCEPT !.net[x.conn].ssl = Len(Conn(x).in), !.net[x.conn].want = "", !.rv = "filled"]}
         \cup (IF x.setup.drop THEN as_event_parse_error(x) ELSE {})

Filled(x, F(_)) == Then(as_uv_tls_fill_buffer(x), LAMBDA y : IF y.rv = "filled" THEN F(y) ELSE {y})

as_uv_tls_command_read(x) == Filled([x EXCEPT !.event = TRUE], as_uv_tls_read)
as_uv_tls_auth_read(x) == Filled(x, as_uv_tls_read)

\* The handshake: the peer answers a message of the client's once that is out, twice.
HandshakeWaits(x) == [x EXCEPT !.net[x.conn].want = "read"]
as_uv_tls_handshake_send_complete(x, ok) ==
    IF ~ok THEN {as_uv_connect_error(uv_read_stop(x))}
    ELSE IF x.state # "CONNECT" THEN {HandshakeWaits(x)}
    ELSE {uv_read_start(HandshakeWaits([x EXCEPT !.state = "TLS_CONNECT"]), "as_uv_tls_handshake_read")}
         \cup (IF x.setup.drop THEN {as_uv_connect_error(x)} ELSE {})

SendHandshake(x) ==
    as_uv_tls_send_pending(x, "as_uv_tls_handshake_send_complete",
        LAMBDA y : as_uv_tls_handshake_send_complete(y, TRUE), LAMBDA y : as_uv_tls_handshake_send_complete(y, FALSE))

as_uv_tls_handshake_read(x) ==
    LET y == [x EXCEPT !.net[x.conn].hands = @ + 1]
        Shake(z) ==
            IF z.net[z.conn].hands < 3 THEN SendHandshake(z)
            ELSE IF z.setup.auth
                 THEN as_uv_tls_write([as_event_set_auth_write(uv_read_stop(z)) EXCEPT !.state = "AUTH_WRITE",
                                          !.net[z.conn].callback = "auth"])
                 ELSE as_uv_tls_command_start(uv_read_stop(z))
    IN  Filled(y, Shake) \cup (IF x.setup.drop THEN as_event_parse_error(x) ELSE {})

as_uv_tls_init_connection(x) ==
    SendHandshake([x EXCEPT !.net[x.conn].hands = 1])
    \cup (IF x.setup.drop THEN {as_uv_tls_connect_fatal_error([x EXCEPT !.net[x.conn].hands = 1])} ELSE {})

\* Only the socket: the command may be gone.
as_uv_tls_shutdown_complete(x, k) == {CloseNow(x, k)}

-----------------------------------------------------------------------------

as_uv_connected(x, ok) ==
    CASE ~ok -> {as_uv_connect_error(x)}
      [] ok /\ Tls(x) -> as_uv_tls_init_connection(x)
      [] ok /\ ~Tls(x) /\ x.setup.auth -> as_uv_auth_write_start(x)
      [] OTHER -> as_uv_command_start(x)

as_event_connect_uv(x) ==
    LET opened == [x EXCEPT !.net[x.conn].init = TRUE]
    IN  {[opened EXCEPT !.net[x.conn].req = "as_uv_connected"]}
        \cup (IF x.setup.drop THEN {as_uv_fd_error(x), as_uv_connect_error(opened)} ELSE {})

\* A request completes: on a closed connection as canceled, which nobody looks at.  The
\* command is the one the connection, or the request, remembers.
Completed(x, k, ok) ==
    LET cb == x.net[k].req
        y == [x EXCEPT !.net[k].req = ""]
    IN  CASE ~x.net[k].open -> {y}
          [] x.net[k].open /\ cb = "as_uv_tls_shutdown_complete" -> as_uv_tls_shutdown_complete(y, k)
          [] x.net[k].open /\ cb # "as_uv_tls_shutdown_complete" /\ (y.cmd = "freed" \/ y.conn # k) -> {TooLate(y)}
          [] cb = "as_uv_connected" -> as_uv_connected(y, ok)
          [] cb = "as_uv_command_write_complete" -> as_uv_command_write_complete(y, ok)
          [] cb = "as_uv_auth_write_complete" -> as_uv_auth_write_complete(y, ok)
          [] cb = "as_uv_tls_write_pending_complete" -> as_uv_tls_write_pending_complete(y, ok)
          [] cb = "as_uv_tls_read_want_write_complete" -> as_uv_tls_read_want_write_complete(y, ok)
          [] OTHER -> as_uv_tls_handshake_send_complete(y, ok)

as_uv_connection_alive(x, k) == x.net[k].open

ReadCallback(x, k) ==
    LET cb == x.net[k].reading
    IN  CASE ~as_uv_connection_alive(x, k) \/ cb = "" \/ ~Readable(x.net[k]) -> {}
          [] x.conn # k \/ x.cmd = "freed" -> {TooLate(x)}
          [] cb = "as_uv_command_read" -> as_uv_command_read(x)
          [] cb = "as_uv_auth_read" -> as_uv_auth_read(x)
          [] cb = "as_uv_tls_command_read" -> as_uv_tls_command_read(x)
          [] cb = "as_uv_tls_auth_read" -> as_uv_tls_auth_read(x)
          [] cb = "as_uv_tls_write_read_complete" -> Filled(x, as_uv_tls_write_read_complete)
          [] OTHER -> as_uv_tls_handshake_read(x)
=============================================================================
