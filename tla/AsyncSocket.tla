---------------------------- MODULE AsyncSocket ----------------------------
(***************************************************************************)
(* Commands run one after the other on the connections of one pool of one  *)
(* event loop, with any of the three event libraries: what the loop, the   *)
(* kernel and the server do in between.                                    *)
(***************************************************************************)
EXTENDS EventWatcher, EventStream

CONSTANTS
    Setups       \* [lib, tls, auth, connector, multi, timer, retries, slow, drop, shut, rewrites]:
                 \* slow: the kernel may not take all at once; drop: calls may fail;
                 \* shut: the server may close a connection; rewrites: libuv's TLS layer
                 \* may have to write before it reads on

VARIABLE s

RECURSIVE as_event_command_begin(_)

Init ==
    \E c \in Setups :
        s = [setup |-> c, cmd |-> "freed", state |-> "CONNECT", pos |-> 0, len |-> 0, iteration |-> 0,
             timer |-> "off", has_timer |-> FALSE, using_socket |-> FALSE, event |-> FALSE, sent |-> 0, conn |-> 0,
             net |-> [k \in 1..MaxConns |-> NoConn], total |-> 0, pool |-> <<>>, reported |-> 0,
             result |-> "", bad |-> {}, last |-> Header(0, 0), request |-> 0, rv |-> ""]

WriteStart(x) == IF x.setup.lib = "uv" THEN as_event_command_write_start_uv(x) ELSE as_event_command_write_start_event(x)
Connect(x) == IF x.setup.lib = "uv" THEN as_event_connect_uv(x) ELSE as_event_connect_event(x)

Free(x) == {k \in 1..MaxConns : x.net[k] = NoConn}

as_event_create_connection(x) ==
    LET k == CHOOSE k \in Free(x) : TRUE
    IN  Connect([x EXCEPT !.net[k] = NewConn, !.conn = k, !.total = @ + 1])

\* as_event_conn_validate: the socket is open and nothing waits in it.
as_event_conn_validate(c) == ~c.shut /\ Len(c.in) = c.ssl

as_event_command_begin(x) ==
    LET y == [x EXCEPT !.state = "CONNECT"]
        k == Head(y.pool)
        z == [y EXCEPT !.pool = Tail(@)]
    IN  CASE y.pool = <<>> -> as_event_create_connection(y)
          [] y.pool # <<>> /\ as_event_conn_validate(y.net[k]) -> WriteStart([z EXCEPT !.conn = k])
          [] OTHER -> Then(as_event_release_connection(z, k), as_event_command_begin)

\* Room for another connection within those of the model.
Room == Free(s) # {}

\* What a callback leaves behind: nothing of its own, and of a command that has ended
\* only its result.
Settled(S) ==
    {LET y == [x EXCEPT !.rv = "", !.last = Header(0, 0)]
     IN  IF y.cmd = "live" THEN y ELSE [y EXCEPT !.pos = 0, !.len = 0, !.conn = 0, !.state = "", !.event = FALSE] : x \in S}

Start ==
    /\ s.cmd = "freed" /\ s.request < MaxCommands /\ Room
    /\ s' \in Settled(as_event_command_begin(RestoreTimer([s EXCEPT !.cmd = "live", !.request = @ + 1, !.iteration = 0,
                  !.conn = 0, !.has_timer = FALSE, !.using_socket = FALSE, !.reported = 0, !.result = "", !.sent = 0])))

as_event_total_timeout(x) == {as_event_error_callback(y, "TIMEOUT") : y \in as_event_connection_timeout(x)}

as_event_execute_retry ==
    /\ s.cmd = "live" /\ s.timer = "retry" /\ Room
    /\ \/ s' \in Settled(as_event_command_begin(RestoreTimer([s EXCEPT !.timer = "off"])))
       \/ /\ s.setup.timer # "none"
          /\ s' \in Settled(as_event_total_timeout([s EXCEPT !.timer = "off"]))

as_event_socket_timeout ==
    /\ s.cmd = "live" /\ s.timer = "socket"
    /\ LET Ended(x) ==
               LET y == as_event_command_retry(x)
               IN  {IF y.rv = "retry" THEN y ELSE as_event_error_callback(as_event_timer_stop(y), "TIMEOUT")}
       IN  s' \in IF s.event THEN {[s EXCEPT !.event = FALSE]} ELSE Settled(Then(as_event_connection_timeout(s), Ended))

as_event_process_timer ==
    /\ s.cmd = "live" /\ s.timer = "total"
    /\ s' \in Settled(as_event_total_timeout([s EXCEPT !.timer = "off"]))

\* An event of the watcher, of a request, of a reading stream, of a closed timer.
WatcherEvent == s.setup.lib # "uv" /\ s.cmd = "live" /\ s' \in Settled(as_event_callback(s))
RequestEvent ==
    \E k \in 1..MaxConns, ok \in IF s.setup.drop THEN BOOLEAN ELSE {TRUE} :
        s.net[k].req # "" /\ s' \in Settled(Completed(s, k, ok))
StreamEvent == \E k \in 1..MaxConns : s' \in Settled(ReadCallback(s, k))
as_uv_timer_closed == s.cmd = "closing" /\ s' = [s EXCEPT !.cmd = "freed"]

ServerSends ==
    \E k \in 1..MaxConns :
        /\ s.net[k].open /\ s.net[k].todo # <<>>
        /\ s' = [s EXCEPT !.net[k].todo = Tail(@), !.net[k].in = Append(@, Head(s.net[k].todo))]
ServerCloses ==
    \E k \in 1..MaxConns :
        /\ s.setup.shut /\ s.net[k].open /\ ~s.net[k].shut
        /\ s' = [s EXCEPT !.net[k].shut = TRUE, !.net[k].todo = <<>>]

Next ==
    \/ Start \/ as_event_execute_retry \/ as_event_socket_timeout \/ as_event_process_timer
    \/ WatcherEvent \/ RequestEvent \/ StreamEvent \/ as_uv_timer_closed
    \/ ServerSends \/ ServerCloses

Spec == Init /\ [][Next]_s

-----------------------------------------------------------------------------
(* Properties.                                                              *)

\* The stream of a connection never gets out of step: what a command takes for a header
\* is one, and every unit it reads answers its own request and not one of an earlier
\* command that used the connection.
InStep == "stream" \notin s.bad

\* No callback of the event library uses a command that is gone or has left its
\* connection for another, and a libuv connection's request is not used again while it
\* is active.
NothingUsedLate == s.bad \cap {"command", "request"} = {}

\* Between two callbacks a running command has an event to wait for that will come: a
\* socket to be written, a request to complete, or data to read, none of which is already
\* inside the TLS layer, where no event announces it.  Otherwise it stands still until
\* its timer ends it, or for ever without one.
Awaited ==
    s.cmd = "live" /\ s.state # "RETRY" =>
        LET c == Conn(s)
            reads == s.state \in {"AUTH_READ_HEADER", "AUTH_READ_BODY", "COMMAND_READ_HEADER", "COMMAND_READ_BODY"}
        IN  \/ "w" \in c.watch \/ c.req # ""
            \/ /\ "r" \in c.watch \/ c.reading # ""
               /\ reads \/ c.want = "read"
               /\ c.ssl = 0

\* The pool counts its connections: those in it and the one of the running command, and
\* no other whatever way the command left it.
TotalExact == s.total = Len(s.pool) + (IF s.cmd = "live" /\ s.conn # 0 THEN 1 ELSE 0)

\* A connection in the pool is idle: it was authenticated if that is asked for, no answer
\* is outstanding on it or half read, and no callback of it can run.
PoolIsIdle ==
    \A i \in DOMAIN s.pool :
        LET c == s.net[s.pool[i]]
        IN  c.open /\ c.watch = {} /\ c.reading = "" /\ c.req = "" /\ c.ssl = 0 /\ (c.in \o c.todo = <<>>)
=============================================================================
