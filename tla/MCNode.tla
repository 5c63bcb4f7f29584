------------------------------- MODULE MCNode -------------------------------
(***************************************************************************)
(* One node and the threads that use it, for TLC.  A behaviour is that of  *)
(* one part: commands over the connection pools of the node, or sessions,  *)
(* error limits and administration requests.  The other stays where it     *)
(* starts.                                                                 *)
(***************************************************************************)
EXTENDS SyncCommand

CONSTANTS Tokens, SessionSetups

VARIABLE part

VARIABLES setup, server, cluster, node, tender, thread, admin   \* Session
session_vars == <<setup, server, cluster, node, tender, thread, admin>>

Sessions == INSTANCE Session WITH Setups <- SessionSetups, Threads <- Thread, tend <- tender

-----------------------------------------------------------------------------
(* Configurations of pools and commands.                                    *)

\* One pool that the tend thread fills and trims, and commands that are retried.
Retrying ==
    [pools |-> 1, capacity |-> 2, min_size |-> 1, max_retries |-> 1, total_timeout |-> TRUE, auth |-> FALSE]

\* Two pools of one connection each.
Wide ==
    [pools |-> 2, capacity |-> 1, min_size |-> 0, max_retries |-> 0, total_timeout |-> TRUE, auth |-> TRUE]

AllConfigs == {Retrying, Wide}

\* Three pools: the search for one with room.
ThreePools == {[Wide EXCEPT !.pools = 3, !.max_retries = 1, !.auth = FALSE]}

\* Connections that are authenticated, and commands that are retried.
AuthConfigs == {[Retrying EXCEPT !.auth = TRUE]}

(* Sessions lost in turn, with and without the tender of a shared memory    *)
(* prole; a limit on errors breached; scripts of administration requests.   *)

\* The operators of Session, apart from the setups that are made with them.
Cases == INSTANCE Session WITH Setups <- {}, Threads <- Thread, tend <- tender

Quiet ==
    [auth_mode |-> "INTERNAL", prole |-> FALSE, threads |-> Thread, restarts |-> 0, turns |-> FALSE, forgets |-> 0, errors |-> 0,
     max |-> 4, window |-> 1, script |-> {}]

Script(calls) == [Quiet EXCEPT !.threads = {CHOOSE t \in Thread : TRUE}, !.script = calls]

Name(id, len) == [id |-> id, len |-> len]
Priv(code, ns, set) == [code |-> code, ns |-> ns, set |-> set]

Call(api, name) ==
    [api |-> api, name |-> name, privileges |-> <<>>, whitelist |-> <<>>, quotas |-> <<0, 0>>, roles |-> <<>>,
     password |-> Cases!NoName]

R1 == Name("r1", 2)
R2 == Name("r2", 63)
U1 == Name("u1", 63)
Reads == Priv(10, Name("test", 31), Name("demo", 63))
Admins == Priv(2, Cases!NoName, Cases!NoName)
A1 == Name("10.0.0.1", 8)
A2 == Name("10.0.0.2", 8)

NewPassword(api) == [Call(api, Cases!Me) EXCEPT !.password = Name("p2", 8)]

RoleCalls ==
    {[Call("create_role", R1) EXCEPT !.privileges = <<Reads, Admins>>, !.whitelist = <<A1, A2>>, !.quotas = <<5, 6>>],
     [Call("grant_privileges", R1) EXCEPT !.privileges = <<Priv(11, Name("test", 31), Cases!NoName)>>],
     [Call("revoke_privileges", R1) EXCEPT !.privileges = <<Reads>>],
     [Call("set_whitelist", R1) EXCEPT !.whitelist = <<A2>>],
     Call("set_quotas", R1), Call("query_role", R1)}

MoreRoleCalls ==
    {[Call("create_role", R1) EXCEPT !.whitelist = <<A1>>],
     [Call("create_role", R2) EXCEPT !.privileges = <<Reads>>],
     [Call("grant_privileges", R2) EXCEPT !.privileges = <<Priv(2, Name("test", 4), Cases!NoName)>>],
     Call("set_whitelist", R1), Call("drop_role", R1), Call("query_roles", Cases!NoName), Call("query_role", R2)}

UserCalls ==
    {[Call("create_user", U1) EXCEPT !.password = Name("p1", 8), !.roles = <<R1, R2>>],
     [Call("create_pki_user", Name("u2", 2)) EXCEPT !.roles = <<R1>>],
     [Call("create_user", Name("u3", 64)) EXCEPT !.password = Name("p1", 8)],
     [Call("grant_roles", U1) EXCEPT !.roles = <<R1>>], [Call("revoke_roles", U1) EXCEPT !.roles = <<R2>>],
     Call("drop_user", U1), Call("query_user", U1), Call("query_users", Cases!NoName)}

AllSessions ==
    {[Quiet EXCEPT !.restarts = 1, !.forgets = 1],
     [Quiet EXCEPT !.forgets = 2],
     [Quiet EXCEPT !.prole = TRUE, !.forgets = 1],
     [Quiet EXCEPT !.forgets = 1, !.script = {NewPassword("change_password")}],
     [Quiet EXCEPT !.auth_mode = "EXTERNAL", !.restarts = 1, !.script = {NewPassword("set_password")}],
     [Quiet EXCEPT !.auth_mode = "PKI", !.restarts = 1],
     [Quiet EXCEPT !.restarts = 2, !.turns = TRUE, !.forgets = 1],
     [Script({}) EXCEPT !.errors = 7, !.max = 3, !.window = 2],
     Script(RoleCalls),
     Script(MoreRoleCalls),
     Script(UserCalls)}

\* Two threads change the password at once.
TwoSessions == {[Quiet EXCEPT !.restarts = 1, !.script = {NewPassword("set_password"),
                 [NewPassword("set_password") EXCEPT !.password = Name("p3", 8)]}]}

\* Security is off when the tender of a prole logs in, and on again later.
TurnedSessions ==
    {[Quiet EXCEPT !.prole = TRUE, !.threads = {CHOOSE t \in Thread : TRUE}, !.restarts = 2, !.turns = TRUE, !.forgets = 1]}

-----------------------------------------------------------------------------
NoSessions ==
    /\ setup = <<>> /\ server = <<>> /\ cluster = <<>> /\ node = <<>> /\ tender = <<>> /\ thread = <<>> /\ admin = <<>>

NodeInit ==
    \/ part = "pools" /\ Init /\ NoSessions
    \/ part = "sessions" /\ Init /\ conf = (CHOOSE c \in Configs : TRUE) /\ Sessions!Init

NodeNext ==
    \/ part = "pools" /\ Next /\ UNCHANGED <<part, session_vars>>
    \/ part = "sessions" /\ Sessions!Next /\ UNCHANGED <<part, vars>>

\* Threads go on with what they have begun (socket calls return, at the latest by their
\* timeout), and the tend thread of the sessions runs.
NodeSpec ==
    /\ NodeInit /\ [][NodeNext]_<<part, vars, session_vars>>
    /\ \A t \in Thread : /\ WF_vars(part = "pools" /\ CommandStep(t))
                         /\ WF_session_vars(part = "sessions" /\ Sessions!Opening(t))
    /\ WF_session_vars(part = "sessions" /\ Sessions!Tending)

-----------------------------------------------------------------------------
(* Properties.                                                              *)

\* A session is in memory for as long as a thread may look at it, whatever the tend
\* thread replaces and releases meanwhile, unless the thread took from one tend to the
\* next between its load and its reservation (as_node_login, as_cluster_gc).
SessionLives == part = "sessions" => Sessions!SessionLives

\* A role or a user read back is what the calls before made of it: requests and parsers
\* agree on every field; and nothing stays allocated once the application has
\* destroyed what a query gave it, however the answer ended.
ReadAsAsked == part = "sessions" => Sessions!ReadAsAsked /\ Sessions!NothingLeft

\* Thread t has what it waits for.
Served(t) ==
    IF part = "sessions"
    THEN (t \in setup.threads => thread[t].at = "open") /\ node.max_error_rate = setup.max
    ELSE th[t].pc = "idle"

\* Every command returns, whatever the other threads do with the pools.  Whatever
\* sessions the server forgets, lets expire or loses in a restart, and across a change
\* of password, a thread that opens connections gets authenticated again and again
\* (as_node_signal_login, as_node_should_login, as_node_login); and once errors stop, the
\* node's limit climbs back to the cluster's (as_node_reset_error_rate).
EventuallyServed == \A t \in Thread : []<>Served(t)
=============================================================================
