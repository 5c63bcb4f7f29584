------------------------------- MODULE Admin -------------------------------
(***************************************************************************)
(* The requests of as_admin.c, and the users and roles read from answers.  *)
(* A name is [id, len]: all that is ever looked at is how long it is.  A   *)
(* message is [command, result, field_count, fields]; a field [id, size,   *)
(* v], v always a sequence.  The server reads field_count fields.          *)
(* Memory: a user or a role read from an answer owns "blocks" allocations. *)
(***************************************************************************)
EXTENDS Integers, Sequences, SequencesExt, FiniteSetsExt

AS_USER_SIZE == 64
AS_ROLE_SIZE == 64
AS_PASSWORD_SIZE == 64
AS_NAMESPACE_MAX_SIZE == 32
AS_SET_MAX_SIZE == 64
AS_PRIVILEGE_READ == 10
PASSWORD_HASH_LEN == 60
QUERY_END == 50
ERR_PARAM == 4

NoName == [id |-> "", len |-> 0]
Total(s, size(_)) == FoldLeft(LAMBDA sum, x : sum + size(x), 0, s)

as_admin_write_header(command, field_count) ==
    [command |-> command, result |-> 0, field_count |-> field_count, fields |-> <<>>]

as_admin_write_field_header(m, id, size, v) ==
    [m EXCEPT !.fields = Append(@, [id |-> id, size |-> size + 1, v |-> v])]

as_admin_write_field_int(m, id, val) == as_admin_write_field_header(m, id, 4, <<val>>)
as_admin_write_field_string(m, id, val) == as_admin_write_field_header(m, id, val.len, <<val>>)
as_admin_write_field_bytes(m, id, bytes) == as_admin_write_field_header(m, id, bytes.len, <<bytes>>)

\* Counts and lengths inside a field are single bytes.
as_admin_write_string(str) == [str EXCEPT !.len = @ % 256]

as_admin_write_roles(m, roles) ==
    as_admin_write_field_header(m, "ROLES", 1 + Total(roles, LAMBDA r : 1 + r.len),
        [i \in 1..(Len(roles) % 256) |-> as_admin_write_string(roles[i])])

Scoped(priv) == priv.code >= AS_PRIVILEGE_READ
RefusedPrivilege(priv) == ~Scoped(priv) /\ (priv.ns.len # 0 \/ priv.set.len # 0)

as_admin_write_privileges(m, privileges) ==
    as_admin_write_field_header(m, "PRIVILEGES",
        1 + Total(privileges, LAMBDA p : IF Scoped(p) THEN 3 + p.ns.len + p.set.len ELSE 1),
        [i \in 1..(Len(privileges) % 256) |->
            [code |-> privileges[i].code, ns |-> as_admin_write_string(privileges[i].ns),
             set |-> as_admin_write_string(privileges[i].set)]])

\* The addresses, one comma between two of them: v holds what lies between commas.
as_admin_write_whitelist(m, whitelist) ==
    as_admin_write_field_header(m, "WHITELIST", Len(whitelist) - 1 + Total(whitelist, LAMBDA a : a.len), whitelist)

-----------------------------------------------------------------------------
(* Requests.  Refused ones are never sent.                                  *)

Refused(status) == [sent |-> FALSE, status |-> status, m |-> as_admin_write_header("NONE", 0)]
Send(m) == [sent |-> TRUE, status |-> 0, m |-> m]

WithUser(m, user) == as_admin_write_field_string(m, "USER", user)
WithRole(m, role) == as_admin_write_field_string(m, "ROLE", role)
Hash(password) == [id |-> password.id, len |-> PASSWORD_HASH_LEN]

aerospike_create_user(user, password, roles) ==
    IF user.len >= AS_USER_SIZE \/ password.len >= AS_PASSWORD_SIZE THEN Refused(-1)
    ELSE Send(as_admin_write_roles(
            as_admin_write_field_string(WithUser(as_admin_write_header("CREATE_USER", 3), user),
                                        "PASSWORD", Hash(password)), roles))

nopassword == [id |-> "nopassword", len |-> 10]
\* The node has to be of version 8.1 or later.
aerospike_create_pki_user(recent, user, roles) ==
    IF ~recent THEN Refused(-1) ELSE aerospike_create_user(user, nopassword, roles)

aerospike_drop_user(user) == Send(WithUser(as_admin_write_header("DROP_USER", 1), user))

aerospike_set_password(user, password) ==
    IF user.len >= AS_USER_SIZE \/ password.len >= AS_PASSWORD_SIZE THEN Refused(-1)
    ELSE Send(as_admin_write_field_string(WithUser(as_admin_write_header("SET_PASSWORD", 2), user),
                                          "PASSWORD", Hash(password)))

aerospike_change_password(user, old_hash, password) ==
    IF user.len >= AS_USER_SIZE \/ password.len >= AS_PASSWORD_SIZE THEN Refused(-1)
    ELSE Send(as_admin_write_field_string(
            as_admin_write_field_string(WithUser(as_admin_write_header("CHANGE_PASSWORD", 3), user),
                                        "OLD_PASSWORD", old_hash), "PASSWORD", Hash(password)))

aerospike_grant_roles(user, roles) ==
    Send(as_admin_write_roles(WithUser(as_admin_write_header("GRANT_ROLES", 2), user), roles))
aerospike_revoke_roles(user, roles) ==
    Send(as_admin_write_roles(WithUser(as_admin_write_header("REVOKE_ROLES", 2), user), roles))

If(cond, m, F(_)) == IF cond THEN F(m) ELSE m
One(cond) == IF cond THEN 1 ELSE 0

Checked(privileges, m) ==
    IF \E i \in DOMAIN privileges : RefusedPrivilege(privileges[i]) THEN Refused(ERR_PARAM) ELSE Send(m)

aerospike_create_role(role, privileges) ==
    Checked(privileges, as_admin_write_privileges(WithRole(as_admin_write_header("CREATE_ROLE", 2), role), privileges))

Privileged(m, privileges) == If(privileges # <<>>, m, LAMBDA x : as_admin_write_privileges(x, privileges))
Whitelisted(m, whitelist) == If(whitelist # <<>>, m, LAMBDA x : as_admin_write_whitelist(x, whitelist))

aerospike_create_role_whitelist(role, privileges, whitelist) ==
    LET m == WithRole(as_admin_write_header("CREATE_ROLE",
                 1 + One(privileges # <<>>) + One(whitelist # <<>>)), role)
    IN  Checked(privileges, Whitelisted(Privileged(m, privileges), whitelist))

\* Fields are counted before they are written.
QuotaCountedOnce(role, privileges, whitelist, read_quota, write_quota) ==  \* mutant
    LET m == WithRole(as_admin_write_header("CREATE_ROLE",
                 1 + One(privileges # <<>>) + One(whitelist # <<>>) + One(read_quota > 0 \/ write_quota > 0)), role)
        w == Whitelisted(Privileged(m, privileges), whitelist)
        r == If(read_quota > 0, w, LAMBDA x : as_admin_write_field_int(x, "READ_QUOTA", read_quota))
    IN  Checked(privileges, If(write_quota > 0, r, LAMBDA x : as_admin_write_field_int(x, "WRITE_QUOTA", write_quota)))
aerospike_create_role_quotas(role, privileges, whitelist, read_quota, write_quota) ==
    LET m == WithRole(as_admin_write_header("CREATE_ROLE",
                 1 + One(privileges # <<>>) + One(whitelist # <<>>) + One(read_quota > 0) + One(write_quota > 0)), role)
        w == Whitelisted(Privileged(m, privileges), whitelist)
        r == If(read_quota > 0, w, LAMBDA x : as_admin_write_field_int(x, "READ_QUOTA", read_quota))
    IN  Checked(privileges, If(write_quota > 0, r, LAMBDA x : as_admin_write_field_int(x, "WRITE_QUOTA", write_quota)))

aerospike_drop_role(role) == Send(WithRole(as_admin_write_header("DROP_ROLE", 1), role))

aerospike_grant_privileges(role, privileges) ==
    Checked(privileges, as_admin_write_privileges(WithRole(as_admin_write_header("GRANT_PRIVILEGES", 2), role), privileges))
aerospike_revoke_privileges(role, privileges) ==
    Checked(privileges, as_admin_write_privileges(WithRole(as_admin_write_header("REVOKE_PRIVILEGES", 2), role), privileges))

aerospike_set_whitelist(role, whitelist) ==
    Send(Whitelisted(WithRole(as_admin_write_header("SET_WHITELIST", 1 + One(whitelist # <<>>)), role), whitelist))

aerospike_set_quotas(role, read_quota, write_quota) ==
    Send(as_admin_write_field_int(
            as_admin_write_field_int(WithRole(as_admin_write_header("SET_QUOTAS", 3), role), "READ_QUOTA", read_quota),
            "WRITE_QUOTA", write_quota))

as_cluster_login(auth_mode, user, hash, password) ==
    CASE auth_mode = "INTERNAL" ->
            as_admin_write_field_string(WithUser(as_admin_write_header("LOGIN", 2), user), "CREDENTIAL", hash)
      [] auth_mode = "PKI" -> as_admin_write_header("LOGIN", 0)
      [] OTHER -> as_admin_write_field_string(
                      as_admin_write_field_string(WithUser(as_admin_write_header("LOGIN", 3), user), "CREDENTIAL", hash),
                      "CLEAR_PASSWORD", password)

as_authenticate_set(auth_mode, user, token) ==
    as_admin_write_field_bytes(IF auth_mode # "PKI" THEN WithUser(as_admin_write_header("AUTHENTICATE", 2), user)
                               ELSE as_admin_write_header("AUTHENTICATE", 1), "SESSION_TOKEN", token)
as_authenticate(auth_mode, user, token) == as_authenticate_set(auth_mode, user, token)

-----------------------------------------------------------------------------
(* Answers.  The fields a parser sees of a message, by id; the last counts. *)

Cut(name, size) == IF name.len <= size - 1 THEN name ELSE [name EXCEPT !.len = size - 1]

Seen(m) == SubSeq(m.fields, 1, m.field_count)
Has(m, id) == \E i \in DOMAIN Seen(m) : Seen(m)[i].id = id
Get(m, id, default) ==
    IF Has(m, id) THEN Seen(m)[Max({i \in DOMAIN Seen(m) : Seen(m)[i].id = id})].v ELSE default

as_parse_users_roles(v) == [i \in DOMAIN v |-> Cut(v[i], AS_ROLE_SIZE)]

as_parse_info(v) == v

UserOf(m) ==
    LET info == <<as_parse_info(Get(m, "READ_INFO", <<>>)), as_parse_info(Get(m, "WRITE_INFO", <<>>))>>
    IN  [name |-> Cut(Get(m, "USER", <<NoName>>)[1], AS_USER_SIZE),
         roles |-> as_parse_users_roles(Get(m, "ROLES", <<>>)),
         info |-> info, conns_in_use |-> Get(m, "CONNECTIONS", <<0>>)[1],
         blocks |-> 1 + One(info[1] # <<>>) + One(info[2] # <<>>)]

\* Messages up to the first that has a result; that result ends the reading.
Parsed(block, of(_), kept(_)) ==
    LET n == SelectInSeq(block, LAMBDA m : m.result # 0)
        read == SelectSeq(SubSeq(block, 1, IF n = 0 THEN Len(block) ELSE n - 1), kept)
    IN  [status |-> IF n = 0 THEN 0 ELSE block[n].result, list |-> [i \in DOMAIN read |-> of(read[i])]]

\* A message with neither a name nor roles is passed over.
as_parse_users(block) == Parsed(block, UserOf, LAMBDA m : Get(m, "USER", <<NoName>>)[1] # NoName \/ Has(m, "ROLES"))

as_privileges_parse(v) ==
    [i \in DOMAIN v |->
        IF Scoped(v[i])
        THEN [v[i] EXCEPT !.ns = Cut(@, AS_NAMESPACE_MAX_SIZE), !.set = Cut(@, AS_SET_MAX_SIZE)]
        ELSE [v[i] EXCEPT !.ns = NoName, !.set = NoName]]

\* An empty address between two commas is left out.
as_whitelist_append(list, address) == IF address.len > 0 THEN Append(list, address) ELSE list
as_whitelist_parse(v) == FoldLeft(as_whitelist_append, <<>>, v)

RoleOf(m) ==
    LET whitelist == IF Has(m, "WHITELIST") THEN as_whitelist_parse(Get(m, "WHITELIST", <<>>)) ELSE <<>>
    IN  [name |-> Cut(Get(m, "ROLE", <<NoName>>)[1], AS_ROLE_SIZE),
         privileges |-> as_privileges_parse(Get(m, "PRIVILEGES", <<>>)), whitelist |-> whitelist,
         read_quota |-> Get(m, "READ_QUOTA", <<0>>)[1], write_quota |-> Get(m, "WRITE_QUOTA", <<0>>)[1],
         blocks |-> 1 + One(Has(m, "WHITELIST")) + Len(whitelist)]

as_parse_roles(block) == Parsed(block, RoleOf, LAMBDA m : TRUE)

\* Blocks are read until one has a result; the end of the query is no error.
as_admin_read_blocks(blocks, parse_fn(_)) ==
    LET Read(sofar, block) ==
            IF sofar.status # 0 THEN sofar
            ELSE LET r == parse_fn(block) IN [status |-> r.status, list |-> sofar.list \o r.list]
        all == FoldLeft(Read, [status |-> 0, list |-> <<>>], blocks)
    IN  [all EXCEPT !.status = IF @ = QUERY_END THEN 0 ELSE @]

as_user_destroy(user) == user.blocks
as_whitelist_destroy(role) == role.blocks - 1
as_role_destroy(role) == as_whitelist_destroy(role) + 1

\* What a query returns, and how many blocks stay allocated for it.
FreesAll(list, offset) == Total(list, as_user_destroy)  \* mutant
as_free_users(list, offset) == Total(SubSeq(list, offset + 1, Len(list)), as_user_destroy)
as_free_roles(list, offset) == Total(SubSeq(list, offset + 1, Len(list)), as_role_destroy)

Answer(status, list, live) == [status |-> status, list |-> list, live |-> live]

First(read, all, free(_, _)) ==
    IF read.status # 0 \/ read.list = <<>> THEN Answer(read.status, <<>>, all - free(read.list, 0))
    ELSE Answer(0, SubSeq(read.list, 1, 1), all - free(read.list, 1))

Every(read, all, free(_, _)) ==
    IF read.status # 0 THEN Answer(read.status, <<>>, all - free(read.list, 0)) ELSE Answer(0, read.list, all)

aerospike_query_user(blocks) ==
    LET read == as_admin_read_blocks(blocks, as_parse_users)
    IN  First(read, Total(read.list, LAMBDA u : u.blocks), as_free_users)
aerospike_query_users(blocks) ==
    LET read == as_admin_read_blocks(blocks, as_parse_users)
    IN  Every(read, Total(read.list, LAMBDA u : u.blocks), as_free_users)
aerospike_query_role(blocks) ==
    LET read == as_admin_read_blocks(blocks, as_parse_roles)
    IN  First(read, Total(read.list, LAMBDA r : r.blocks), as_free_roles)
aerospike_query_roles(blocks) ==
    LET read == as_admin_read_blocks(blocks, as_parse_roles)
    IN  Every(read, Total(read.list, LAMBDA r : r.blocks), as_free_roles)

as_users_destroy(list) == as_free_users(list, 0)
as_roles_destroy(list) == as_free_roles(list, 0)
=============================================================================
