---------------------------- MODULE ConfigFields ----------------------------
(***************************************************************************)
(* The dynamic configuration file: which fields it may set, how the yaml   *)
(* events of a file are read into a configuration and a bitmap of the      *)
(* fields set, and how a command merges the configuration with the policy  *)
(* it was called with.                                                     *)
(* A configuration maps <<policy, field>> to a value, fields having the    *)
(* names of the file; "client" stands for the fields outside the policies. *)
(* Strings and lists on the heap are [obj, val], obj 0 the null pointer.   *)
(***************************************************************************)
EXTENDS Integers, Sequences, SequencesExt, FiniteSets, TLC

Null == [obj |-> 0, val |-> <<>>]

-----------------------------------------------------------------------------
(* The bits of the fields.                                                  *)

BaseNames == <<"socket_timeout", "total_timeout", "max_retries", "sleep_between_retries">>
SharedNames == BaseNames \o <<"read_mode_ap", "read_mode_sc", "replica", "max_concurrent_threads", "allow_inline",
                              "allow_inline_ssd", "respond_all_keys">>

Names ==
    [static |-> <<"config_interval", "max_connections_per_node", "min_connections_per_node",
                  "async_max_connections_per_node", "async_min_connections_per_node">>,
     client |-> <<"app_id", "timeout", "max_error_rate", "error_rate_window", "login_timeout", "max_socket_idle",
                  "tend_interval", "fail_if_not_connected", "use_service_alternative", "rack_aware", "rack_ids">>,
     read |-> BaseNames \o <<"read_mode_ap", "read_mode_sc", "replica">>,
     write |-> BaseNames \o <<"replica", "durable_delete", "send_key">>,
     scan |-> BaseNames \o <<"replica">>,
     query |-> BaseNames \o <<"replica", "info_timeout", "expected_duration">>,
     metrics |-> <<"enable", "latency_columns", "latency_shift", "labels">>,
     batch_write |-> <<"durable_delete", "send_key">>,
     batch_apply |-> <<"durable_delete", "send_key">>,
     batch_remove |-> <<"durable_delete", "send_key">>,
     batch |-> SharedNames, batch_parent_write |-> SharedNames, txn_verify |-> SharedNames, txn_roll |-> SharedNames]

First ==
    [static |-> 0, client |-> 5, read |-> 16, write |-> 23, scan |-> 30, query |-> 35, metrics |-> 42,
     batch_write |-> 46, batch_apply |-> 48, batch_remove |-> 50,
     batch |-> 52, batch_parent_write |-> 63, txn_verify |-> 74, txn_roll |-> 85]

Bits == [g \in DOMAIN Names |->
            [n \in Range(Names[g]) |-> First[g] + SelectInSeq(Names[g], LAMBDA x : x = n) - 1]]

\* The file has one section for the policies of all single record writes.
OfWrite == {"write", "operate", "apply", "remove"}

\* The bit a member of a policy depends on.
Policies == (DOMAIN Names \ {"static", "client"}) \cup OfWrite
MemberBits ==
    [p \in Policies |->
        CASE p = "operate" -> Bits["write"] @@ [n \in {"read_mode_ap", "read_mode_sc"} |-> Bits["read"][n]]
          [] p \in OfWrite \ {"operate"} -> Bits["write"]
          [] OTHER -> Bits[p]]

Members == UNION {{<<p, n>> : n \in DOMAIN MemberBits[p]} : p \in Policies}
ClientMembers == {<<"client", n>> : n \in Range(Names["static"]) \cup Range(Names["client"])}
HeapMembers == {<<"client", "app_id">>, <<"client", "rack_ids">>, <<"metrics", "labels">>}

BitOf ==
    [m \in Members \cup ClientMembers |->
        IF m \in ClientMembers
        THEN IF m[2] \in DOMAIN Bits["static"] THEN Bits["static"][m[2]] ELSE Bits["client"][m[2]]
        ELSE MemberBits[m[1]][m[2]]]

-----------------------------------------------------------------------------
(* The reader.  An event is [k, v]; the reader's state is [events, pos, cfg,*)
(* bits, init, next, ok], "next" the next free heap object.                 *)

Event(y) == y.events[y.pos]

\* yaml_parser_parse: after an error it fails for ever.
as_parse_next(y) ==
    IF y.pos = Len(y.events) \/ y.events[y.pos + 1].k = "error" THEN [y EXCEPT !.ok = FALSE] ELSE [y EXCEPT !.pos = @ + 1]

as_expect_event(y, k) == LET n == as_parse_next(y) IN [n EXCEPT !.ok = @ /\ Event(n).k = k]
as_prepare_scalar(y) == as_expect_event(y, "scalar")
as_parse_scalar(y) == as_prepare_scalar(y)

RECURSIVE as_skip_value(_)
RECURSIVE as_skip_section(_)
RECURSIVE SkipPairs(_)
RECURSIVE as_skip_sequence(_)

SkipPairs(y) ==
    LET name == as_parse_next(y)
        value == as_parse_next(name)
        rest == as_skip_value(value)
    IN  CASE ~name.ok -> [name EXCEPT !.ok = TRUE]
          [] name.ok /\ Event(name).k = "mapend" -> name
          [] name.ok /\ Event(name).k # "mapend" /\ ~value.ok -> value
          [] OTHER -> IF rest.ok THEN SkipPairs(rest) ELSE rest

as_skip_sequence(y) ==
    LET item == as_skip_section(y) IN IF item.ok THEN as_skip_sequence(item) ELSE [item EXCEPT !.ok = TRUE]

as_skip_value(y) ==
    CASE Event(y).k = "map" -> SkipPairs(y)
      [] Event(y).k = "seq" -> as_skip_sequence(y)
      [] Event(y).k = "scalar" -> y
      [] OTHER -> [y EXCEPT !.ok = FALSE]

as_skip_section(y) == LET n == as_parse_next(y) IN IF n.ok THEN as_skip_value(n) ELSE n

-----------------------------------------------------------------------------
(* Values.                                                                  *)

Numerals == [x \in {"0", "1", "2", "100", "250", "300", "500", "1000", "2000", "7000"} |->
             CASE x = "0" -> 0 [] x = "1" -> 1 [] x = "2" -> 2 [] x = "100" -> 100 [] x = "250" -> 250
               [] x = "300" -> 300 [] x = "500" -> 500 [] x = "1000" -> 1000 [] x = "2000" -> 2000 [] OTHER -> 7000]
UINT32_MAX == 2147483647  \* TLC's largest number: no numeral here is larger
AS_TEND_INTERVAL_MIN == 250

Bad == [ok |-> FALSE, val |-> 0]
Good(v) == [ok |-> TRUE, val |-> v]

\* as_parse_int32 takes the numeral as a rack id.
as_parse_int32(value) == IF value \in DOMAIN Numerals THEN Good(Numerals[value]) ELSE Bad

parse_uint32(value, min, max) ==
    IF value \in DOMAIN Numerals /\ Numerals[value] >= min /\ Numerals[value] <= max THEN Good(Numerals[value]) ELSE Bad

parse_uint8(value) == IF value \in DOMAIN Numerals /\ Numerals[value] <= 255 THEN Good(Numerals[value]) ELSE Bad
parse_bool(value) == IF value \in {"true", "false"} THEN Good(value) ELSE Bad

\* Every field that is read is assigned and marked in the bitmap.
Assign(y, r, targets, bit) ==
    IF ~r.ok THEN [y EXCEPT !.ok = FALSE]
    ELSE [y EXCEPT !.cfg = [m \in DOMAIN @ |-> IF m \in targets THEN r.val ELSE @[m]], !.bits = @ \cup {bit}]

as_parse_uint32_range(y, value, min, max, targets, bit) == Assign(y, parse_uint32(value, min, max), targets, bit)
as_parse_uint32(y, value, targets, bit) == Assign(y, parse_uint32(value, 0, UINT32_MAX), targets, bit)
as_parse_uint8(y, value, targets, bit) == Assign(y, parse_uint8(value), targets, bit)
as_parse_bool(y, value, targets, bit) == Assign(y, parse_bool(value), targets, bit)

as_parse_read_mode_ap(y, value, targets, bit) ==
    Assign(y, IF value \in {"ONE", "ALL"} THEN Good(value) ELSE Bad, targets, bit)
as_parse_read_mode_sc(y, value, targets, bit) ==
    Assign(y, IF value \in {"SESSION", "LINEARIZE", "ALLOW_REPLICA", "ALLOW_UNAVAILABLE"} THEN Good(value) ELSE Bad,
           targets, bit)

as_parse_replica(y, value, targets, bit) ==
    Assign(y, CASE value \in {"MASTER", "SEQUENCE", "PREFER_RACK", "RANDOM"} -> Good(value)
                [] value = "MASTER_PROLES" -> Good("ANY")
                [] OTHER -> Bad, targets, bit)

as_parse_expected_duration(y, value, targets, bit) ==
    Assign(y, IF value \in {"LONG", "SHORT", "LONG_RELAX_AP"} THEN Good(value) ELSE Bad, targets, bit)

as_parse_send_key(y, value, targets, bit) ==
    Assign(y, CASE value = "true" -> Good("SEND") [] value = "false" -> Good("DIGEST") [] OTHER -> Bad, targets, bit)

\* Only whether the batch is concurrent is kept.
as_parse_max_concurrent_threads(y, value, targets, bit) ==
    LET r == parse_uint32(value, 0, UINT32_MAX)
    IN  Assign(y, IF r.ok THEN Good(IF r.val # 1 THEN "true" ELSE "false") ELSE r, targets, bit)

\* as_assign_string leaves an equal string in place; the new one is lost.
as_parse_string(y, value, m, bit) ==
    LET old == y.cfg[m]
        new == [obj |-> y.next, val |-> value]
        kept == IF old.obj = 0 \/ old.val # value THEN new ELSE old
    IN  [Assign(y, Good(kept), {m}, bit) EXCEPT !.next = @ + 1]

RECURSIVE Int32s(_, _)
Int32s(y, list) ==
    LET s == as_prepare_scalar(y)
        v == as_parse_int32(Event(s).v)
    IN  CASE ~s.ok -> [y |-> [s EXCEPT !.ok = TRUE], list |-> list]
          [] s.ok /\ ~v.ok -> [y |-> [s EXCEPT !.ok = FALSE], list |-> list]
          [] OTHER -> Int32s(s, Append(list, v.val))

as_parse_vector_int32(y, m, bit) ==
    LET r == Int32s(y, <<>>)
    IN  IF ~r.y.ok THEN r.y
        ELSE [Assign(r.y, Good([obj |-> r.y.next, val |-> r.list]), {m}, bit) EXCEPT !.next = @ + 1]

RECURSIVE Labels(_, _)
Labels(y, list) ==
    LET name == as_parse_scalar(y)
        value == as_parse_scalar(name)
    IN  CASE ~name.ok -> [y |-> [name EXCEPT !.ok = TRUE], list |-> list]
          [] name.ok /\ ~value.ok -> [y |-> value, list |-> <<>>]
          [] OTHER -> Labels(value, Append(list, <<Event(name).v, Event(value).v>>))

\* An empty list of labels is the null pointer.
AssignLabels(y, labels, m, bit) ==
    LET list == IF labels = <<>> THEN Null ELSE [obj |-> y.next, val |-> labels]
    IN  IF ~y.ok THEN [y EXCEPT !.cfg[m] = Null]
        ELSE [Assign(y, Good(list), {m}, bit) EXCEPT !.next = @ + (IF labels = <<>> THEN 0 ELSE 1)]
as_parse_labels(y, m, bit) == LET r == Labels(y, <<>>) IN AssignLabels(r.y, r.list, m, bit)

-----------------------------------------------------------------------------
(* Sections.                                                                *)

Flags == {"durable_delete", "allow_inline", "allow_inline_ssd", "respond_all_keys"}

Field(y, name, value, targets, bit) ==
    CASE name = "replica" -> as_parse_replica(y, value, targets, bit)
      [] name = "read_mode_ap" -> as_parse_read_mode_ap(y, value, targets, bit)
      [] name = "read_mode_sc" -> as_parse_read_mode_sc(y, value, targets, bit)
      [] name = "send_key" -> as_parse_send_key(y, value, targets, bit)
      [] name = "expected_duration" -> as_parse_expected_duration(y, value, targets, bit)
      [] name = "max_concurrent_threads" -> as_parse_max_concurrent_threads(y, value, targets, bit)
      [] name \in Flags -> as_parse_bool(y, value, targets, bit)
      [] OTHER -> as_parse_uint32(y, value, targets, bit)

\* A field that is not of the section, or not supported by this client, is passed over.
OfPolicy(y, p, name, value, targets) ==
    IF name \in Range(Names[p]) THEN Field(y, name, value, targets, Bits[p][name]) ELSE y

as_parse_read(y, name, value) ==
    OfPolicy(y, "read", name, value,
             {<<"read", name>>} \cup (IF name \in {"read_mode_ap", "read_mode_sc"} THEN {<<"operate", name>>} ELSE {}))

\* The time to sleep between retries goes to the number of retries of the other three.
as_parse_write(y, name, value) ==
    LET other == IF name = "sleep_between_retries" THEN "max_retries" ELSE name
    IN  OfPolicy(y, "write", name, value, {<<"write", name>>} \cup {<<p, other>> : p \in OfWrite \ {"write"}})

as_parse_scan(y, name, value) == OfPolicy(y, "scan", name, value, {<<"scan", name>>})
as_parse_query(y, name, value) == OfPolicy(y, "query", name, value, {<<"query", name>>})

as_parse_batch_shared(y, p, name, value) == OfPolicy(y, p, name, value, {<<p, name>>})
as_parse_batch_read(y, name, value) == as_parse_batch_shared(y, "batch", name, value)
as_parse_batch_write(y, name, value) ==
    IF name \in Range(Names["batch_write"]) THEN OfPolicy(y, "batch_write", name, value, {<<"batch_write", name>>})
    ELSE as_parse_batch_shared(y, "batch_parent_write", name, value)
as_parse_batch_udf(y, name, value) == OfPolicy(y, "batch_apply", name, value, {<<"batch_apply", name>>})
as_parse_batch_delete(y, name, value) == OfPolicy(y, "batch_remove", name, value, {<<"batch_remove", name>>})
as_parse_txn_verify(y, name, value) == as_parse_batch_shared(y, "txn_verify", name, value)
as_parse_txn_roll(y, name, value) == as_parse_batch_shared(y, "txn_roll", name, value)

as_parse_metrics(y, name, value) ==
    LET m == <<"metrics", name>>
    IN  CASE name = "enable" -> as_parse_bool(y, value, {m}, BitOf[m])
          [] name \in {"latency_columns", "latency_shift"} -> as_parse_uint8(y, value, {m}, BitOf[m])
          [] name = "labels" -> as_parse_labels(y, m, BitOf[m])
          [] OTHER -> y

OfSection(y, section, name, value) ==
    CASE section = "read" -> as_parse_read(y, name, value)
      [] section = "write" -> as_parse_write(y, name, value)
      [] section = "query" -> as_parse_query(y, name, value)
      [] section = "scan" -> as_parse_scan(y, name, value)
      [] section = "batch_read" -> as_parse_batch_read(y, name, value)
      [] section = "batch_write" -> as_parse_batch_write(y, name, value)
      [] section = "batch_udf" -> as_parse_batch_udf(y, name, value)
      [] section = "batch_delete" -> as_parse_batch_delete(y, name, value)
      [] section = "txn_verify" -> as_parse_txn_verify(y, name, value)
      [] section = "txn_roll" -> as_parse_txn_roll(y, name, value)
      [] section = "metrics" -> as_parse_metrics(y, name, value)
PolicySections == {"read", "write", "query", "scan", "batch_read", "batch_write", "batch_udf", "batch_delete",
                   "txn_verify", "txn_roll", "metrics"}

\* One field of a policy; a list or a mapping is offered as the empty string.
as_parse_policy(y, section, name) ==
    LET n == as_parse_next(y)
    IN  CASE ~n.ok -> n
          [] n.ok /\ Event(n).k \in {"scalar", "seq", "map"} ->
                 OfSection(n, section, name, IF Event(n).k = "scalar" THEN Event(n).v ELSE "")
          [] OTHER -> [n EXCEPT !.ok = FALSE]

as_parse_static_client(y, name) ==
    LET n == as_parse_next(y)
        m == <<"client", name>>
    IN  CASE ~n.ok \/ Event(n).k # "scalar" -> [n EXCEPT !.ok = FALSE]
          [] name \in Range(Names["static"]) -> as_parse_uint32(n, Event(n).v, {m}, BitOf[m])
          [] OTHER -> n

as_parse_dynamic_client(y, name) ==
    LET n == as_parse_next(y)
        m == <<"client", name>>
        v == Event(n).v
        Scalar == CASE name = "app_id" -> as_parse_string(n, v, m, BitOf[m])
                    [] name = "tend_interval" ->
                           as_parse_uint32_range(n, v, AS_TEND_INTERVAL_MIN, UINT32_MAX, {m}, BitOf[m])
                    [] name \in {"fail_if_not_connected", "use_service_alternative", "rack_aware"} ->
                           as_parse_bool(n, v, {m}, BitOf[m])
                    [] name \in {"timeout", "max_error_rate", "error_rate_window", "login_timeout", "max_socket_idle"} ->
                           as_parse_uint32(n, v, {m}, BitOf[m])
                    [] OTHER -> n
    IN  CASE ~n.ok -> n
          [] n.ok /\ Event(n).k = "scalar" -> Scalar
          [] n.ok /\ Event(n).k = "seq" ->
                 IF name = "rack_ids" THEN as_parse_vector_int32(n, m, BitOf[m]) ELSE as_skip_sequence(n)
          [] OTHER -> [n EXCEPT !.ok = FALSE]

RECURSIVE Section(_, _)
RECURSIVE Entries(_, _)

\* The version is read and never refused.
as_parse_version(y) == as_parse_scalar(y)

as_parse_static(y, name) ==
    IF y.init /\ name = "client" THEN Section(y, "static_client") ELSE as_skip_section(y)

as_parse_dynamic(y, name) ==
    CASE name = "client" -> Section(y, "dynamic_client")
      [] name \in PolicySections -> Section(y, name)
      [] OTHER -> as_skip_section(y)

Entry(y, section, name) ==
    CASE section = "file" /\ name = "version" -> as_parse_version(y)
      [] section = "file" /\ name \in {"static", "dynamic"} -> Section(y, name)
      [] section = "file" /\ name \notin {"version", "static", "dynamic"} -> as_skip_section(y)
      [] section = "static" -> as_parse_static(y, name)
      [] section = "dynamic" -> as_parse_dynamic(y, name)
      [] section = "static_client" -> as_parse_static_client(y, name)
      [] section = "dynamic_client" -> as_parse_dynamic_client(y, name)
      [] OTHER -> as_parse_policy(y, section, name)

\* The entries of a section end with whatever is not a name: an error too.
More(e, section) == IF e.ok THEN Entries(e, section) ELSE e
Entries(y, section) ==
    LET s == as_parse_scalar(y)
    IN  IF s.ok THEN More(Entry(s, section, Event(s).v), section) ELSE [s EXCEPT !.ok = TRUE]

Section(y, section) ==
    LET m == as_expect_event(y, "map") IN IF m.ok THEN Entries(m, section) ELSE m

as_parse_yaml(y) ==
    LET stream == as_expect_event(y, "stream")
        doc == as_expect_event(stream, "document")
    IN  IF stream.ok /\ doc.ok THEN Section(doc, "file") ELSE [doc EXCEPT !.ok = FALSE]

\* A file that cannot be opened has no events.
as_config_file_read(events, cfg, bits, init, next) ==
    LET y == [events |-> <<[k |-> "begin", v |-> ""]>> \o events, pos |-> 1, cfg |-> cfg, bits |-> bits, init |-> init,
              next |-> next, ok |-> TRUE]
    IN  as_parse_yaml(y)
-----------------------------------------------------------------------------
(* The policy of a command: what the file sets comes from the configuration,*)
(* the rest from the caller.  Without a policy of the caller's the          *)
(* configuration's is used.  The members no file can set are the caller's.  *)

Merged(bitmap, cfg, p, src) ==
    LET bits == MemberBits[p]
    IN  [n \in DOMAIN bits |-> IF ~src.given \/ bits[n] \in bitmap THEN cfg[<<p, n>>] ELSE src.of[n]]

as_policy_read_merge(bitmap, cfg, src) == Merged(bitmap, cfg, "read", src)
as_policy_write_merge(bitmap, cfg, src) == Merged(bitmap, cfg, "write", src)
as_policy_remove_merge(bitmap, cfg, src) == Merged(bitmap, cfg, "remove", src)
as_policy_apply_merge(bitmap, cfg, src) == Merged(bitmap, cfg, "apply", src)
as_policy_operate_merge(bitmap, cfg, src, writes) ==
    LET m == Merged(bitmap, cfg, "operate", src)
    IN  IF ~src.given /\ ~writes THEN [m EXCEPT !["max_retries"] = 2] ELSE m
as_policy_batch_parent_read_merge(bitmap, cfg, src) == Merged(bitmap, cfg, "batch", src)
as_policy_batch_parent_write_merge(bitmap, cfg, src) == Merged(bitmap, cfg, "batch_parent_write", src)
as_policy_batch_write_merge(bitmap, cfg, src) == Merged(bitmap, cfg, "batch_write", src)
as_policy_batch_apply_merge(bitmap, cfg, src) == Merged(bitmap, cfg, "batch_apply", src)
as_policy_batch_remove_merge(bitmap, cfg, src) == Merged(bitmap, cfg, "batch_remove", src)
as_policy_query_merge(bitmap, cfg, src) == Merged(bitmap, cfg, "query", src)
as_policy_scan_merge(bitmap, cfg, src) == Merged(bitmap, cfg, "scan", src)
as_metrics_policy_merge(bitmap, cfg, src) == Merged(bitmap, cfg, "metrics", src)

\* The policy a command of each kind runs with.
PolicyOf(p, bitmap, cfg, src) ==
    CASE p = "read" -> as_policy_read_merge(bitmap, cfg, src)
      [] p = "write" -> as_policy_write_merge(bitmap, cfg, src)
      [] p = "remove" -> as_policy_remove_merge(bitmap, cfg, src)
      [] p = "apply" -> as_policy_apply_merge(bitmap, cfg, src)
      [] p = "operate" -> as_policy_operate_merge(bitmap, cfg, src, TRUE)
      [] p = "batch" -> as_policy_batch_parent_read_merge(bitmap, cfg, src)
      [] p = "batch_parent_write" -> as_policy_batch_parent_write_merge(bitmap, cfg, src)
      [] p = "batch_write" -> as_policy_batch_write_merge(bitmap, cfg, src)
      [] p = "batch_apply" -> as_policy_batch_apply_merge(bitmap, cfg, src)
      [] p = "batch_remove" -> as_policy_batch_remove_merge(bitmap, cfg, src)
      [] p = "query" -> as_policy_query_merge(bitmap, cfg, src)
      [] p = "scan" -> as_policy_scan_merge(bitmap, cfg, src)
      [] p = "metrics" -> as_metrics_policy_merge(bitmap, cfg, src)
Merging == Policies \ {"txn_verify", "txn_roll"}
=============================================================================
