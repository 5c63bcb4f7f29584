----------------------------- MODULE KeyCommand -----------------------------
(***************************************************************************)
(* Single record commands, from the call to the message that leaves the    *)
(* client: aerospike_key.c and its part in a transaction.  The requests    *)
(* are built while other commands of the same transaction are under way: a *)
(* synchronous write adds its key to the monitor record before it is built,*)
(* an asynchronous one is built first and gets its deadline patched in     *)
(* when the monitor record answers.                                        *)
(***************************************************************************)
EXTENDS KeyWire, FiniteSets

CONSTANTS Setups,      \* sets of calls made in one transaction, in any order
          Keys,        \* the keys' digests
          Deadline     \* the deadline the server gives the transaction

VARIABLES setup,       \* the calls of this behaviour
          txn,         \* as_txn
          cmd,         \* the command of each call
          sent         \* the requests that left the client

vars == <<setup, txn, cmd, sent>>

\* buf is what goes to the socket, ubuf what waits to be compressed into it; pos
\* is the place of the deadline.
NewCommand == [pc |-> "new", size |-> 0, buf |-> <<>>, ubuf |-> <<>>, pos |-> 0]

Init ==
    /\ setup \in Setups
    /\ txn = [ns |-> 0, deadline |-> 0, reads |-> [k \in Keys |-> 0], writes |-> {}]
    /\ cmd = [c \in setup |-> NewCommand]
    /\ sent = {}

-----------------------------------------------------------------------------
(* A command on its way                                                     *)

\* The call with what its transaction knows now.
Seen(c) == [version |-> txn.reads[c.key.digest], deadline |-> txn.deadline] @@ c

Message(c, r, route) ==
    [call |-> c, size |-> r.size, parts |-> r.parts, deadline |-> txn'.deadline, route |-> route]

\* as_command_compress, and the choice of aerospike_key_put, _operate and _apply.
Compresses(c, size) == c.api \in {"put", "operate", "apply"} /\ c.policy.compress
                       /\ size > AS_COMPRESS_THRESHOLD
as_command_compress(ubuf) == ubuf

NsFits(c) == c.policy.txn => txn.ns \in {0, c.key.ns}
WithNs(c) == IF c.policy.txn THEN [txn EXCEPT !.ns = c.key.ns] ELSE txn

\* as_txn_key_add, and the first lines of as_txn_monitor_add_key.
as_txn_key_add(c) == c.policy.txn /\ IsWrite(c) /\ c.key.digest \notin txn.writes

\* as_txn_get_ops_single, as_txn_policy_copy and as_txn_monitor_operate: the record
\* is created with the id of the transaction when there is none yet.
as_txn_monitor_add_key(c) ==
    LET int64  == [op |-> "WRITE", name |-> 2, type |-> "integer", len |-> 0]
        append == [op |-> "CDT_MODIFY", name |-> 5, type |-> "bytes", len |-> AS_DIGEST_VALUE_SIZE + 8]
        policy == [c.policy EXCEPT !.txn = FALSE, !.key = "DIGEST", !.filter = 0, !.exists = "IGNORE",
                                   !.gen = "IGNORE", !.durable_delete = FALSE, !.on_locking_only = FALSE,
                                   !.replica = "SEQUENCE"]
    IN  [c EXCEPT !.api = "operate", !.policy = policy,
                  !.key = [ns |-> c.key.ns, set |-> 8, digest |-> c.key.digest, val |-> [type |-> "integer", len |-> 0]],
                  !.bins = (IF txn.deadline = 0 THEN <<int64>> ELSE <<>>) \o <<append>>]

as_txn_monitor_operate(m) == aerospike_key_operate(Seen(m))
as_txn_monitor_operate_async(m) == aerospike_key_operate(Seen(m))

AddKeyMessage(c) ==
    LET m == as_txn_monitor_add_key(c)
    IN  Message(m, IF c.async THEN as_txn_monitor_operate_async(m) ELSE as_txn_monitor_operate(m), Route(m))

Send(c, r) ==
    /\ sent' = sent \cup {Message(c, r, Route(c))}
    /\ cmd' = [cmd EXCEPT ![c].pc = "sent"]

Fail(c) == cmd' = [cmd EXCEPT ![c].pc = "failed"] /\ UNCHANGED sent

\* as_command_prepare fails, or the operations are sized before it and fail.
Refuse(c) ==
    /\ cmd[c].pc = "new"
    /\ ~NsFits(c) \/ (c.api = "operate" /\ Malformed(c))
    /\ Fail(c)
    /\ UNCHANGED <<setup, txn>>

Prepared(c) == cmd[c].pc = "new" /\ NsFits(c) /\ ~(c.api = "operate" /\ Malformed(c))

\* Build and send: a read, a write outside a transaction or of a key that is
\* already in the monitor record, and a synchronous write that just added it.
Run(c) ==
    /\ cmd[c].pc = "added" \/ (Prepared(c) /\ ~as_txn_key_add(c))
    /\ txn' = WithNs(c)
    /\ IF Malformed(c) THEN Fail(c) ELSE Send(c, RequestOf(Seen(c)))
    /\ UNCHANGED setup

\* as_command_prepare_write, aerospike_key_operate: the monitor record comes first.
AddKey(c) ==
    /\ Prepared(c) /\ ~c.async /\ as_txn_key_add(c)
    /\ txn' = WithNs(c)
    /\ sent' = sent \cup {AddKeyMessage(c)}
    /\ cmd' = [cmd EXCEPT ![c].pc = "adding"]
    /\ UNCHANGED setup

\* as_async_command_execute and as_async_compress_command_execute: the request is
\* there, its deadline is not.
Waiting(c, r) ==
    [pc |-> "adding", size |-> r.size, pos |-> r.tdata.deadline_offset,
     buf |-> IF Compresses(c, r.size) THEN <<>> ELSE r.parts, ubuf |-> IF Compresses(c, r.size) THEN r.parts ELSE <<>>]

BuildAndAddKey(c) ==
    /\ Prepared(c) /\ c.async /\ as_txn_key_add(c)
    /\ txn' = WithNs(c)
    /\ IF Malformed(c) THEN Fail(c)
       ELSE sent' = sent \cup {AddKeyMessage(c)} /\ cmd' = [cmd EXCEPT ![c] = Waiting(c, RequestOf(Seen(c)))]
    /\ UNCHANGED setup

\* The four bytes at "pos" become the deadline; any other place is a damaged part.
Patch(parts, pos, deadline) ==
    [i \in DOMAIN parts |->
        LET start == Total(SubSeq(parts, 1, i - 1))
        IN  IF pos \in start .. start + parts[i].len - 1
            THEN IF parts[i].kind = "field" /\ parts[i].id = "deadline" /\ pos = start + AS_FIELD_HEADER_SIZE
                 THEN [parts[i] EXCEPT !.value = deadline]
                 ELSE [parts[i] EXCEPT !.says = -1]
            ELSE parts[i]]

CompressedEarly(c, deadline) ==  \* mutant
    IF cmd[c].ubuf # <<>> THEN cmd[c].ubuf ELSE Patch(cmd[c].buf, cmd[c].pos, deadline)

\* as_txn_monitor_callback.
as_txn_monitor_callback(c, deadline) ==
    IF cmd[c].ubuf # <<>>
    THEN as_command_compress(Patch(cmd[c].ubuf, cmd[c].pos, deadline))
    ELSE Patch(cmd[c].buf, cmd[c].pos, deadline)

\* The monitor record answers: as_command_parse_fields_deadline keeps the deadline.
KeyAdded(c) ==
    /\ cmd[c].pc = "adding"
    /\ txn' = [txn EXCEPT !.deadline = Deadline]
    /\ IF c.async
       THEN Send(c, Built(cmd[c].size, 0, as_txn_monitor_callback(c, Deadline)))
       ELSE cmd' = [cmd EXCEPT ![c].pc = "added"] /\ UNCHANGED sent
    /\ UNCHANGED setup

\* The request cannot be compressed, or not be queued: the caller is told, and the
\* deadline of the transaction stays.
KeyAddedUnsent(c) ==
    /\ cmd[c].pc = "adding" /\ c.async
    /\ txn' = [txn EXCEPT !.deadline = Deadline]
    /\ Fail(c)
    /\ UNCHANGED setup

KeyNotAdded(c) == cmd[c].pc = "adding" /\ Fail(c) /\ UNCHANGED <<setup, txn>>

-----------------------------------------------------------------------------
(* Answers, and the end of the transaction                                  *)

\* as_command_parse_fields_txn, as_txn_on_read and as_txn_on_write: a version in
\* the answer is the version read; a write without one has left the read set.
Answered(c, ver) ==
    IF ~c.policy.txn THEN txn
    ELSE IF ver # 0 THEN [txn EXCEPT !.reads[c.key.digest] = ver]
    ELSE IF IsWrite(c) THEN [txn EXCEPT !.reads[c.key.digest] = 0, !.writes = @ \cup {c.key.digest}]
    ELSE txn

\* A read always carries a version of a record that exists; a write that the
\* server did not apply carries the one it found.
Answer(c, ver) ==
    /\ cmd[c].pc = "sent"
    /\ cmd' = [cmd EXCEPT ![c].pc = "done"]
    /\ txn' = Answered(c, ver)
    /\ UNCHANGED <<setup, sent>>

\* as_command_prepare_error, as_event_check_in_doubt.
InDoubt(c) ==
    /\ cmd[c].pc = "sent" /\ c.policy.txn /\ "READ" \notin Route(c).flags
    /\ cmd' = [cmd EXCEPT ![c].pc = "failed"]
    /\ txn' = Answered(c, 0)
    /\ UNCHANGED <<setup, sent>>

Ended == \A c \in setup : cmd[c].pc \in {"done", "failed"}

\* A put of the bin "fwd" in the monitor record, outside the transaction.
as_txn_monitor_mark_roll_forward(c) ==
    aerospike_key_put(Seen([as_txn_monitor_add_key(c) EXCEPT
        !.bins = << [op |-> "WRITE", name |-> 3, type |-> "bool", len |-> 0] >>]))

as_txn_monitor_mark_roll_forward_async(c) == as_txn_monitor_mark_roll_forward(c)

\* The commands of the commit for the key of one of the calls.
Close(c) ==
    /\ Ended /\ c.policy.txn
    /\ UNCHANGED <<setup, txn, cmd>>
    /\ LET k == c.key.digest
           linear == [c EXCEPT !.policy.txn = FALSE, !.policy.read_mode_sc = "LINEARIZE", !.policy.replica = "SEQUENCE"]
           ver    == txn.reads[k]
           Verify == Message(linear, IF c.async THEN as_txn_verify_single_async(c.key, ver)
                                     ELSE as_txn_verify_single(c.key, ver), as_command_init_read(linear))
           Roll   == Message(linear, IF c.async THEN as_txn_roll_single_async(c.key, ver, {"TXN_ROLL"})
                                     ELSE as_txn_roll_single(c.key, ver, {"TXN_ROLL"}), as_command_init_write(linear))
           Mark   == Message(linear, IF c.async THEN as_txn_monitor_mark_roll_forward_async(c)
                                     ELSE as_txn_monitor_mark_roll_forward(c), as_command_init_write(linear))
       IN  sent' = sent \cup (IF txn.reads[k] # 0 THEN {Verify} ELSE {})
                        \cup (IF k \in txn.writes THEN {Roll, Mark} ELSE {})
    /\ sent' # sent

Idle == Ended /\ UNCHANGED vars

Step(c) == \/ Refuse(c) \/ Run(c) \/ AddKey(c) \/ BuildAndAddKey(c)
           \/ KeyAdded(c) \/ KeyAddedUnsent(c) \/ KeyNotAdded(c) \/ InDoubt(c) \/ Close(c)
           \/ \E ver \in {0, 1} : Answer(c, ver)

Next == Idle \/ \E c \in setup : Step(c)

Spec == Init /\ [][Next]_vars

-----------------------------------------------------------------------------
(* Properties                                                               *)

\* Every request fills exactly the buffer that was sized for it, by the sizing pass
\* that runs before it is written (as_command_key_size, as_put_init, as_operate_size,
\* as_apply_init), and its prefixes and counts agree with what follows them.  The
\* synchronous commands free the buffer by the size they wrote (as_command_buffer_free).
Framed == \A m \in sent : Total(m.parts) = m.size /\ WellFormed(m.parts)

\* A write that leaves inside a transaction carries the deadline that the monitor
\* record returned, whatever else the transaction does meanwhile: the place kept in
\* cmd->pos is the place of the deadline, in the buffer that is sent.
DeadlineSent ==
    \A m \in sent : m.call.policy.txn /\ IsWrite(m.call) =>
        /\ m.deadline = Deadline
        /\ \E i \in DOMAIN m.parts : m.parts[i].kind = "field" /\ m.parts[i].id = "deadline"
                                     /\ m.parts[i].value = Deadline

\* A request that may write is never sent to a replica in the place of the master by
\* the read policies, nor counted as a read; a session read of a strong consistency
\* namespace goes to the master, a linearized one never prefers a rack.
Routed ==
    \A m \in sent :
        /\ "WRITE" \in m.parts[1].write_attr =>
               m.route.replica \in {"MASTER", "RANDOM", "SEQUENCE"} /\ "READ" \notin m.route.flags
        /\ m.call.sc /\ "READ" \in m.route.flags =>
               CASE m.call.policy.read_mode_sc = "SESSION" -> m.route.replica = "MASTER"
                 [] m.call.policy.read_mode_sc = "LINEARIZE" -> m.route.replica # "PREFER_RACK"
                 [] OTHER -> TRUE

\* "Also use SEQUENCE for writes" (as_policy.h, AS_POLICY_REPLICA_PREFER_RACK): a
\* command that writes under the rack policy is sent by SEQUENCE.
WritesInSequence ==
    \A m \in sent : "WRITE" \in m.parts[1].write_attr /\ m.call.policy.replica = "PREFER_RACK" =>
        m.route.replica = "SEQUENCE"
=============================================================================
