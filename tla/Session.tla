------------------------------ MODULE Session ------------------------------
(***************************************************************************)
(* Login sessions of a node, its error rate, and the administration        *)
(* requests an application sends over authenticated connections.           *)
(* The tend thread logs in and replaces node->session; threads that open   *)
(* connections load the pointer, reserve the session, authenticate and     *)
(* release it.  A replaced session is released by the next tend.           *)
(* External: the server.  It may forget a session (a restart, or after the *)
(* client has let it expire), its answer may be lost, and it may come back *)
(* from a restart with security turned off or on.                          *)
(***************************************************************************)
EXTENDS Admin, FiniteSets, TLC

CONSTANTS Threads,   \* threads that open connections to the node
          Tokens,    \* sessions the server can hand out; one nobody knows any more is used again
          Setups     \* the situations checked

VARIABLES setup,     \* [auth_mode, prole, threads, restarts, turns, forgets, errors, max, window, script]
          server,    \* the server: [secure, pwd, valid, roles, users]
          cluster,   \* [hash, password, gc, refs, expired, overtook]
          node,      \* [session, perform_login, info, error_rate, max_error_rate]
          tend,      \* the tend thread: [at, hash, password, count]
          thread,    \* [Threads -> [at, session, pwd]]
          admin      \* the application: [todo, asked, held, live]

vars == <<setup, server, cluster, node, tend, thread, admin>>

NULL == 0
Me == [id |-> "me", len |-> 2]
Idle == [at |-> "idle", session |-> NULL, pwd |-> ""]

-----------------------------------------------------------------------------
(* Sessions in memory.                                                      *)

as_session_release(refs, session) == [refs EXCEPT ![session] = @ - 1]

\* Tokens that neither the client nor a thread knows: the server's next one is the least.
Unknown == {k \in Tokens : cluster.refs[k] = 0 /\ \A t \in Threads : thread[t].session # k}

Expired(k) == k \in cluster.expired

ShouldUnsignalled == node.session # NULL /\ Expired(node.session)  \* mutant
as_node_should_login == node.perform_login \/ (node.session # NULL /\ Expired(node.session))

as_node_signal_login == node' = [node EXCEPT !.perform_login = TRUE]

-----------------------------------------------------------------------------
(* The tend thread.                                                         *)

\* Nothing keeps a thread from being between its load and its reservation for a whole
\* tend: overtook remembers that one was when its session was released.
as_cluster_gc ==
    /\ tend.at = "gc"
    /\ IF setup.prole THEN UNCHANGED cluster  \* the tender of a prole collects nothing
       ELSE cluster' = [cluster EXCEPT !.gc = {},
                           !.refs = [k \in Tokens |-> IF k \in cluster.gc THEN @[k] - 1 ELSE @[k]],
                           !.overtook = @ \/ \E t \in Threads : thread[t].at = "loaded" /\ thread[t].session \in cluster.gc]
    /\ tend' = [tend EXCEPT !.at = "connect"]
    /\ UNCHANGED <<setup, server, node, thread, admin>>

\* External: the server knows the session that as_authenticate names, or wants none.
Authenticated(k) ==
    LET m == as_authenticate(setup.auth_mode, Me, [id |-> k, len |-> 16])
    IN  ~server.secure \/ \E i \in DOMAIN Seen(m) : Seen(m)[i].id = "SESSION_TOKEN" /\ Seen(m)[i].v[1].id \in server.valid

StartLogin == tend' = [tend EXCEPT !.at = "login", !.hash = cluster.hash, !.password = cluster.password] /\ UNCHANGED node

as_node_get_tend_connection ==
    IF ~node.info
    THEN IF node.session = NULL \/ as_node_should_login \/ ~Authenticated(node.session)
         THEN StartLogin  \* there is none, it is no good, or as_authenticate was refused
         ELSE node' = [node EXCEPT !.info = TRUE] /\ tend' = [tend EXCEPT !.at = "manage"]
    ELSE IF as_node_should_login THEN StartLogin ELSE UNCHANGED node /\ tend' = [tend EXCEPT !.at = "manage"]

\* The tender of a prole has no connection of its own to keep.
as_node_ensure_login_shm ==
    IF as_node_should_login THEN StartLogin ELSE UNCHANGED node /\ tend' = [tend EXCEPT !.at = "manage"]

Connect ==
    /\ tend.at = "connect"
    /\ IF setup.prole THEN as_node_ensure_login_shm ELSE as_node_get_tend_connection
    /\ UNCHANGED <<setup, server, cluster, thread, admin>>

Secret(id) == [id |-> id, len |-> PASSWORD_HASH_LEN]

\* External: what the server makes of a login.  With the certificate of a PKI user no
\* password is needed; a login not answered has none.
Accepts(m) ==
    /\ tend.hash # ""
    /\ server.secure =>
       CASE setup.auth_mode = "INTERNAL" -> Get(m, "CREDENTIAL", <<NoName>>)[1].id = server.pwd
         [] setup.auth_mode = "EXTERNAL" -> Get(m, "CLEAR_PASSWORD", <<NoName>>)[1].id = server.pwd
         [] OTHER -> m.field_count = 0

LoginAccepted == Accepts(as_cluster_login(setup.auth_mode, Me, Secret(tend.hash), Secret(tend.password)))

\* The session of the answer; none when the server answers SECURITY_NOT_ENABLED.
Granted == IF server.secure THEN Min(Unknown) ELSE NULL

\* as_cluster_login's answer, and as_node_login.
OldReleasedNow ==  \* mutant
    /\ tend.at = "login"
    /\ IF LoginAccepted
       THEN \E k \in {Granted} :
               /\ server' = [server EXCEPT !.valid = @ \cup ({k} \ {NULL})]
               /\ node' = [node EXCEPT !.session = k, !.perform_login = FALSE, !.info = ~setup.prole]
               /\ cluster' = [cluster EXCEPT !.expired = @ \ {k},
                      !.refs = [i \in Tokens |-> IF i = k THEN 1 ELSE IF i = node.session THEN @[i] - 1 ELSE @[i]]]
       ELSE node' = [node EXCEPT !.perform_login = TRUE, !.info = FALSE] /\ UNCHANGED <<server, cluster>>
    /\ tend' = [tend EXCEPT !.at = "manage"]
    /\ UNCHANGED <<setup, thread, admin>>
as_node_login ==
    /\ tend.at = "login"
    /\ IF LoginAccepted
       THEN \E k \in {Granted} :
               /\ server' = [server EXCEPT !.valid = @ \cup ({k} \ {NULL})]
               /\ node' = [node EXCEPT !.session = k, !.perform_login = FALSE, !.info = ~setup.prole]
               /\ cluster' = [cluster EXCEPT !.expired = @ \ {k}, !.gc = @ \cup ({node.session} \ {NULL}),
                                 !.refs = [i \in Tokens |-> IF i = k THEN 1 ELSE @[i]]]
       ELSE node' = [node EXCEPT !.perform_login = TRUE, !.info = FALSE] /\ UNCHANGED <<server, cluster>>
    /\ tend' = [tend EXCEPT !.at = "manage"]
    /\ UNCHANGED <<setup, thread, admin>>

as_node_valid_error_rate(n) == n.error_rate <= n.max_error_rate

as_node_reset_error_rate(n) ==
    IF as_node_valid_error_rate(n)
    THEN [n EXCEPT !.error_rate = 0, !.max_error_rate = Min({@ * 2, setup.max})]
    ELSE [n EXCEPT !.error_rate = 0, !.max_error_rate = IF @ >= 4 THEN @ \div 2 ELSE 1]

as_cluster_reset_error_rate == node' = as_node_reset_error_rate(node)

\* The count of tends goes round: only its remainder matters.
as_cluster_manage ==
    /\ tend.at = "manage"
    /\ tend' = [tend EXCEPT !.at = "gc", !.hash = "", !.password = "", !.count = (@ + 1) % setup.window]
    /\ IF (tend.count + 1) % setup.window = 0 THEN as_cluster_reset_error_rate ELSE UNCHANGED node
    /\ UNCHANGED <<setup, server, cluster, thread, admin>>

-----------------------------------------------------------------------------
(* Threads that open connections: as_node_create_connection.                *)

\* Without a session nothing is authenticated: the connection is good if the server wants none.
Load(t) ==
    /\ t \in setup.threads
    /\ thread[t].at \in {"idle", "failed"}
    /\ as_node_valid_error_rate(node)
    /\ thread' = [thread EXCEPT ![t] = [Idle EXCEPT !.session = node.session,
                     !.at = IF node.session # NULL THEN "loaded" ELSE IF server.secure THEN "failed" ELSE "open"]]
    /\ UNCHANGED <<setup, server, cluster, node, tend, admin>>

Reserve(t) ==
    /\ thread[t].at = "loaded"
    /\ thread' = [thread EXCEPT ![t].at = "reserved"]
    /\ cluster' = [cluster EXCEPT !.refs[thread[t].session] = @ + 1]
    /\ UNCHANGED <<setup, server, node, tend, admin>>

\* as_authenticate, as_session_release and, when the server refuses, as_node_signal_login.
Authenticate(t) ==
    /\ thread[t].at = "reserved"
    /\ cluster' = [cluster EXCEPT !.refs = as_session_release(@, thread[t].session)]
    /\ IF Authenticated(thread[t].session)
       THEN UNCHANGED node /\ thread' = [thread EXCEPT ![t] = [Idle EXCEPT !.at = "open"]]
       ELSE as_node_signal_login /\ thread' = [thread EXCEPT ![t] = [Idle EXCEPT !.at = "failed"]]
    /\ UNCHANGED <<setup, server, tend, admin>>

\* A command over the connection.
Use(t) ==
    /\ thread[t].at = "open"
    /\ thread' = [thread EXCEPT ![t] = Idle]
    /\ UNCHANGED <<setup, server, cluster, node, tend, admin>>

\* as_node_close_conn_error, as_node_put_conn_error.
as_node_incr_error_rate(t) ==
    /\ thread[t].at = "open"
    /\ setup.errors > 0
    /\ setup' = [setup EXCEPT !.errors = @ - 1]
    /\ thread' = [thread EXCEPT ![t] = Idle]
    /\ node' = [node EXCEPT !.error_rate = @ + 1]
    /\ UNCHANGED <<server, cluster, tend, admin>>

-----------------------------------------------------------------------------
(* The server (external).                                                   *)

Restart ==
    /\ setup.restarts > 0
    /\ setup' = [setup EXCEPT !.restarts = @ - 1]
    /\ server' = [server EXCEPT !.valid = {}, !.secure = IF setup.turns THEN ~@ ELSE @]
    /\ node' = [node EXCEPT !.info = FALSE]
    /\ tend' = [tend EXCEPT !.hash = "", !.password = ""]  \* a login on its way is not answered
    /\ UNCHANGED <<cluster, thread, admin>>

Forget(k) ==
    /\ setup.forgets > 0
    /\ setup' = [setup EXCEPT !.forgets = @ - 1]
    /\ k \in server.valid
    /\ server' = [server EXCEPT !.valid = @ \ {k}]
    /\ UNCHANGED <<cluster, node, tend, thread, admin>>

\* The session's time is up for the client, a minute before it is for the server.
Expire(k) ==
    /\ setup.forgets > 0
    /\ k = node.session /\ ~Expired(k)
    /\ setup' = [setup EXCEPT !.forgets = @ - 1]
    /\ cluster' = [cluster EXCEPT !.expired = @ \cup {k}]
    /\ UNCHANGED <<server, node, tend, thread, admin>>

EmptyRole == [privileges |-> {}, whitelist |-> <<>>, quotas |-> <<0, 0>>]

ToSetOf(m, id) == Range(Get(m, id, <<>>))
Named(m) == Get(m, IF Has(m, "ROLE") THEN "ROLE" ELSE "USER", <<NoName>>)[1]
Without(f, x) == [y \in DOMAIN f \ {x} |-> f[y]]

RoleAfter(m, role) ==
    CASE m.command = "CREATE_ROLE" ->
            [privileges |-> ToSetOf(m, "PRIVILEGES"), whitelist |-> Get(m, "WHITELIST", <<>>),
             quotas |-> <<Get(m, "READ_QUOTA", <<0>>)[1], Get(m, "WRITE_QUOTA", <<0>>)[1]>>]
      [] m.command = "GRANT_PRIVILEGES" -> [role EXCEPT !.privileges = @ \cup ToSetOf(m, "PRIVILEGES")]
      [] m.command = "REVOKE_PRIVILEGES" -> [role EXCEPT !.privileges = @ \ ToSetOf(m, "PRIVILEGES")]
      [] m.command = "SET_WHITELIST" -> [role EXCEPT !.whitelist = Get(m, "WHITELIST", <<>>)]
      [] m.command = "SET_QUOTAS" ->
            [role EXCEPT !.quotas = <<Get(m, "READ_QUOTA", <<0>>)[1], Get(m, "WRITE_QUOTA", <<0>>)[1]>>]

UserAfter(m, roles) ==
    CASE m.command = "CREATE_USER" -> ToSetOf(m, "ROLES")
      [] m.command = "GRANT_ROLES" -> roles \cup ToSetOf(m, "ROLES")
      [] m.command = "REVOKE_ROLES" -> roles \ ToSetOf(m, "ROLES")

RoleCommands == {"GRANT_PRIVILEGES", "REVOKE_PRIVILEGES", "SET_WHITELIST", "SET_QUOTAS"}

Change(f, x, v) == [y \in DOMAIN f \cup {x} |-> IF y = x THEN v ELSE f[y]]

\* The server after a request: [ok, server].
Served(m) ==
    LET name == Named(m)
        role == name \in DOMAIN server.roles
        user == name \in DOMAIN server.users
        No == [ok |-> FALSE, server |-> server]
        Yes(s) == [ok |-> TRUE, server |-> s]
    IN  CASE m.command = "CREATE_ROLE" ->
                IF role THEN No ELSE Yes([server EXCEPT !.roles = Change(@, name, RoleAfter(m, EmptyRole))])
          [] m.command \in RoleCommands ->
                IF role THEN Yes([server EXCEPT !.roles[name] = RoleAfter(m, @)]) ELSE No
          [] m.command = "DROP_ROLE" -> IF role THEN Yes([server EXCEPT !.roles = Without(@, name)]) ELSE No
          [] m.command = "CREATE_USER" ->
                IF user THEN No ELSE Yes([server EXCEPT !.users = Change(@, name, UserAfter(m, {}))])
          [] m.command \in {"GRANT_ROLES", "REVOKE_ROLES"} ->
                IF user THEN Yes([server EXCEPT !.users[name] = UserAfter(m, @)]) ELSE No
          [] m.command = "DROP_USER" -> IF user THEN Yes([server EXCEPT !.users = Without(@, name)]) ELSE No
          [] m.command = "CHANGE_PASSWORD" ->
                IF Get(m, "OLD_PASSWORD", <<NoName>>)[1].id = server.pwd
                THEN Yes([server EXCEPT !.pwd = Get(m, "PASSWORD", <<NoName>>)[1].id]) ELSE No
          [] m.command = "SET_PASSWORD" -> Yes([server EXCEPT !.pwd = Get(m, "PASSWORD", <<NoName>>)[1].id])

RoleMessage(name) ==
    LET r == server.roles[name]
        m == WithRole(as_admin_write_header("QUERY_ROLES", 0), name)
        p == as_admin_write_privileges(m, SetToSeq(r.privileges))
        w == Whitelisted(p, r.whitelist)
        q == as_admin_write_field_int(as_admin_write_field_int(w, "READ_QUOTA", r.quotas[1]), "WRITE_QUOTA", r.quotas[2])
    IN  [q EXCEPT !.field_count = Len(q.fields)]

UserMessage(name) ==
    LET m == as_admin_write_roles(WithUser(as_admin_write_header("QUERY_USERS", 0), name), SetToSeq(server.users[name]))
        i == as_admin_write_field_header(m, "READ_INFO", 5, <<7>>)
        c == as_admin_write_field_int(i, "CONNECTIONS", 1)
    IN  [c EXCEPT !.field_count = Len(c.fields)]

End(result) == <<[as_admin_write_header("QUERY_END", 0) EXCEPT !.result = result]>>

-----------------------------------------------------------------------------
(* The application's requests, one after the other: admin.todo.             *)

\* What the application asked for, in its own terms.
Asked(call) ==
    LET a == admin.asked
        r == a.roles
        u == a.users
    IN  CASE call.api = "create_role" ->
                [a EXCEPT !.roles = Change(r, call.name,
                    [privileges |-> Range(call.privileges), whitelist |-> call.whitelist, quotas |-> call.quotas])]
          [] call.api = "grant_privileges" -> [a EXCEPT !.roles[call.name].privileges = @ \cup Range(call.privileges)]
          [] call.api = "revoke_privileges" -> [a EXCEPT !.roles[call.name].privileges = @ \ Range(call.privileges)]
          [] call.api = "set_whitelist" -> [a EXCEPT !.roles[call.name].whitelist = call.whitelist]
          [] call.api = "set_quotas" -> [a EXCEPT !.roles[call.name].quotas = call.quotas]
          [] call.api = "drop_role" -> [a EXCEPT !.roles = Without(@, call.name)]
          [] call.api \in {"create_user", "create_pki_user"} -> [a EXCEPT !.users = Change(u, call.name, Range(call.roles))]
          [] call.api = "grant_roles" -> [a EXCEPT !.users[call.name] = @ \cup Range(call.roles)]
          [] call.api = "revoke_roles" -> [a EXCEPT !.users[call.name] = @ \ Range(call.roles)]
          [] call.api = "drop_user" -> [a EXCEPT !.users = Without(@, call.name)]
          [] OTHER -> a

RequestOf(call) ==
    CASE call.api = "create_role" ->
            IF call.quotas # <<0, 0>>
            THEN aerospike_create_role_quotas(call.name, call.privileges, call.whitelist, call.quotas[1], call.quotas[2])
            ELSE IF call.whitelist # <<>> THEN aerospike_create_role_whitelist(call.name, call.privileges, call.whitelist)
            ELSE aerospike_create_role(call.name, call.privileges)
      [] call.api = "grant_privileges" -> aerospike_grant_privileges(call.name, call.privileges)
      [] call.api = "revoke_privileges" -> aerospike_revoke_privileges(call.name, call.privileges)
      [] call.api = "set_whitelist" -> aerospike_set_whitelist(call.name, call.whitelist)
      [] call.api = "set_quotas" -> aerospike_set_quotas(call.name, call.quotas[1], call.quotas[2])
      [] call.api = "drop_role" -> aerospike_drop_role(call.name)
      [] call.api = "create_user" -> aerospike_create_user(call.name, call.password, call.roles)
      [] call.api = "create_pki_user" -> aerospike_create_pki_user(TRUE, call.name, call.roles)
      [] call.api = "grant_roles" -> aerospike_grant_roles(call.name, call.roles)
      [] call.api = "revoke_roles" -> aerospike_revoke_roles(call.name, call.roles)
      [] call.api = "drop_user" -> aerospike_drop_user(call.name)
      [] call.api = "set_password" -> aerospike_set_password(call.name, call.password)
      [] call.api = "change_password" ->
            aerospike_change_password(call.name, [id |-> cluster.hash, len |-> PASSWORD_HASH_LEN], call.password)

Queries == {"query_user", "query_users", "query_role", "query_roles"}
Passwords == {"set_password", "change_password"}

\* as_admin_execute_node over an open connection.
as_admin_execute_node(t) ==
    /\ thread[t].at = "open"
    /\ \E call \in admin.todo :
          /\ call.api \notin Queries
          /\ LET r == RequestOf(call)
                 s == Served(r.m)
             IN  IF ~r.sent \/ ~s.ok
                 THEN /\ admin' = [admin EXCEPT !.todo = @ \ {call}]
                      /\ thread' = [thread EXCEPT ![t] = Idle]
                      /\ UNCHANGED server
                 ELSE /\ server' = s.server
                      /\ admin' = [admin EXCEPT !.todo = @ \ {call}, !.asked = Asked(call)]
                      /\ thread' = [thread EXCEPT ![t] =
                            IF call.api \in Passwords THEN [Idle EXCEPT !.at = "changed", !.pwd = call.password.id] ELSE Idle]
    /\ UNCHANGED <<setup, cluster, node, tend>>

\* The password is the server's already; this client has still to take it over.
as_cluster_change_password(t) ==
    /\ thread[t].at = "changed"
    /\ cluster' = [cluster EXCEPT !.hash = thread[t].pwd,
                       !.password = IF setup.auth_mode # "INTERNAL" THEN thread[t].pwd ELSE @]
    /\ thread' = [thread EXCEPT ![t] = Idle]
    /\ UNCHANGED <<setup, server, node, tend, admin>>

\* The blocks of an answer: each message one of its own, then the end or an error.
Answers(messages) == {[i \in DOMAIN messages |-> <<messages[i]>>] \o <<End(r)>> : r \in {QUERY_END, ERR_PARAM}}
                        \cup {<<messages \o End(QUERY_END)>>}

\* Of one user or role asked for by name the server may send more than the one.
MessagesOf(call) ==
    LET roles == SetToSeq(DOMAIN server.roles)
        users == SetToSeq(DOMAIN server.users)
    IN  CASE call.api = "query_roles" -> {[i \in DOMAIN roles |-> RoleMessage(roles[i])]}
          [] call.api = "query_users" -> {[i \in DOMAIN users |-> UserMessage(users[i])]}
          [] call.api = "query_role" /\ call.name \in DOMAIN server.roles ->
                {<<RoleMessage(call.name)>>, <<RoleMessage(call.name), RoleMessage(call.name)>>}
          [] call.api = "query_user" /\ call.name \in DOMAIN server.users ->
                {<<UserMessage(call.name)>>, <<UserMessage(call.name), UserMessage(call.name)>>}
          [] OTHER -> {<<>>}

Query(call, blocks) ==
    CASE call.api = "query_user" -> aerospike_query_user(blocks)
      [] call.api = "query_users" -> aerospike_query_users(blocks)
      [] call.api = "query_role" -> aerospike_query_role(blocks)
      [] call.api = "query_roles" -> aerospike_query_roles(blocks)

NothingAsked == [roles |-> <<>>, users |-> <<>>]
Nothing == [api |-> "none", asked |-> NothingAsked, status |-> 0, list |-> <<>>, live |-> 0]

as_admin_read_list(t) ==
    /\ thread[t].at = "open"
    /\ admin.held = Nothing
    /\ \E call \in admin.todo :
          /\ call.api \in Queries
          /\ \E messages \in MessagesOf(call) : \E blocks \in Answers(messages) :
                admin' = [admin EXCEPT !.todo = @ \ {call},
                             !.held = [api |-> call.api, asked |-> admin.asked] @@ Query(call, blocks)]
    /\ thread' = [thread EXCEPT ![t] = Idle]
    /\ UNCHANGED <<setup, server, cluster, node, tend>>

Destroyed(held) ==
    CASE held.api \in {"query_user", "query_users"} -> as_users_destroy(held.list)
      [] OTHER -> as_roles_destroy(held.list)

\* The application destroys what it got.
Destroy ==
    /\ admin.held # Nothing
    /\ admin' = [admin EXCEPT !.held = Nothing, !.live = @ + admin.held.live - Destroyed(admin.held)]
    /\ UNCHANGED <<setup, server, cluster, node, tend, thread>>

-----------------------------------------------------------------------------

Init ==
    \E s \in Setups :
        /\ setup = [s EXCEPT !.script = {}]
        /\ server = [secure |-> TRUE, pwd |-> "p1", valid |-> {1}, roles |-> <<>>, users |-> <<>>]
        /\ cluster = [hash |-> "p1", password |-> IF s.auth_mode = "EXTERNAL" THEN "p1" ELSE "",
                      gc |-> {}, refs |-> [k \in Tokens |-> IF k = 1 THEN 1 ELSE 0], expired |-> {}, overtook |-> FALSE]
        /\ node = [session |-> 1, perform_login |-> FALSE, info |-> ~s.prole, error_rate |-> 0, max_error_rate |-> s.max]
        /\ tend = [at |-> "gc", hash |-> "", password |-> "", count |-> 0]
        /\ thread = [t \in Threads |-> Idle]
        /\ admin = [todo |-> s.script, asked |-> NothingAsked, held |-> Nothing, live |-> 0]

Tending == as_cluster_gc \/ Connect \/ as_node_login \/ as_cluster_manage

\* A thread's own steps, once it has begun to open a connection.
Opening(t) == Load(t) \/ Reserve(t) \/ Authenticate(t) \/ Use(t) \/ as_cluster_change_password(t)

Next ==
    \/ Tending
    \/ \E t \in Threads : Opening(t) \/ as_node_incr_error_rate(t) \/ as_admin_execute_node(t) \/ as_admin_read_list(t)
    \/ Destroy
    \/ Restart
    \/ \E k \in Tokens : Forget(k) \/ Expire(k)

\* The tend thread runs for as long as the client; a thread that has begun goes on.
Spec == Init /\ [][Next]_vars /\ WF_vars(Tending) /\ \A t \in Threads : WF_vars(Opening(t))

-----------------------------------------------------------------------------
(* Properties.                                                              *)

\* A session is in memory for as long as a thread may look at it, whatever the tend
\* thread replaces and releases meanwhile, unless the thread took from one tend to the
\* next between its load and its reservation (as_node_login, as_cluster_gc,
\* as_node_create_connection).
SessionInMemory == \A t \in Threads : thread[t].session # NULL => cluster.refs[thread[t].session] > 0
SessionLives == cluster.overtook \/ SessionInMemory

RoleSeen(r) == [privileges |-> Range(r.privileges), whitelist |-> r.whitelist, quotas |-> <<r.read_quota, r.write_quota>>]

\* A role or a user read back without an error is what the calls before made of it:
\* requests and parsers agree on every field (as_admin_write_*, as_parse_roles,
\* as_parse_users).
ReadAsAsked ==
    LET h == admin.held
    IN  h.status = 0 =>
            \A i \in DOMAIN h.list :
                IF h.api \in {"query_role", "query_roles"}
                THEN RoleSeen(h.list[i]) = h.asked.roles[h.list[i].name]
                ELSE Range(h.list[i].roles) = h.asked.users[h.list[i].name]

\* Nothing stays allocated once the application has destroyed what a query gave it,
\* with an answer of too many entries or one that ends in an error too
\* (aerospike_query_user, as_free_users, as_users_destroy and those of roles).
NothingLeft == admin.live = 0
=============================================================================
