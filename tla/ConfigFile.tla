----------------------------- MODULE ConfigFile -----------------------------
(***************************************************************************)
(* A client whose configuration file changes while it runs.  The thread of *)
(* aerospike_new reads the file over the user's configuration and connects;*)
(* the tend thread reads each new version and updates the configuration,   *)
(* the cluster and the metrics in three steps; the user switches metrics   *)
(* on and off.  Commands merge their policies at any time.                 *)
(***************************************************************************)
EXTENDS ConfigFields

CONSTANTS Setups, MaxFiles

VARIABLES setup,    \* the user's configuration and the versions of the file
          config,   \* as->config
          orig,     \* as->config_orig
          bitmap,   \* as->config_bitmap
          cluster,  \* as->cluster
          phase,    \* of the thread that connects
          file,     \* the current version of the file
          changed,  \* number of versions written
          seen,     \* whether the tend thread has read it
          tend,     \* the tend thread's update
          heap,     \* [next, freed]
          broken,   \* a freed or null object has been used
          accepted  \* the version in force (ghost)
vars == <<setup, config, orig, bitmap, cluster, phase, file, changed, seen, tend, heap, broken, accepted>>

Client(n) == <<"client", n>>
AppId == Client("app_id")
RackIds == Client("rack_ids")
LabelList == <<"metrics", "labels">>

Ev(k, v) == [k |-> k, v |-> v]
Scalar(v) == <<Ev("scalar", v)>>
Mapping(events) == <<Ev("map", "")>> \o events \o <<Ev("mapend", "")>>
\* The events of a version: fields are [name, events], sections [name, fields].
Fields(fs) == FlattenSeq([i \in DOMAIN fs |-> Scalar(fs[i].name) \o fs[i].events])
SectionsOf(ss) == FlattenSeq([i \in DOMAIN ss |-> Scalar(ss[i].name) \o Mapping(Fields(ss[i].fields))])
Document(f) ==
    <<Ev("stream", ""), Ev("document", ""), Ev("map", "")>> \o Scalar("version") \o Scalar("1.0.0")
    \o Scalar("static") \o Mapping(SectionsOf(f.static)) \o Scalar("dynamic") \o Mapping(SectionsOf(f.dynamic)) \o f.rest

NoTend == [at |-> "idle", src |-> <<>>, bits |-> {}]

Uses(h, o) == o = 0 \/ o \in h.freed
Freed(h, o) == [h EXCEPT !.freed = @ \cup {o}]

-----------------------------------------------------------------------------
(* aerospike_new and aerospike_connect.                                     *)

as_config_massage_error_rate(cfg) ==
    LET max == cfg[Client("max_error_rate")]
        window == cfg[Client("error_rate_window")]
    IN  IF window = 0 \/ max < window \/ max > 100 * window
        THEN [cfg EXCEPT ![Client("max_error_rate")] = 100, ![Client("error_rate_window")] = 1] ELSE cfg

\* aerospike_defaults goes on with the user's configuration when the file is refused.
TakeOver(y) ==
    /\ orig' = config
    /\ bitmap' = y.bits
    /\ config' = IF y.ok THEN y.cfg ELSE config
    /\ accepted' = IF y.ok THEN file ELSE accepted
    /\ heap' = [heap EXCEPT !.next = y.next]
as_config_file_init == TakeOver(as_config_file_read(Document(file), config, {}, TRUE, heap.next))

aerospike_defaults ==
    /\ phase = "new"
    /\ as_config_file_init
    /\ phase' = "inited"
    /\ UNCHANGED <<setup, cluster, file, changed, seen, tend, broken>>

OrDefault(x, d) == IF x = 0 THEN d ELSE x
as_cluster_set_max_socket_idle(x) == [tran |-> x, trim |-> OrDefault(x, 55)]
RackIdsOf(cfg) == IF cfg[RackIds].obj # 0 THEN cfg[RackIds].val ELSE <<setup.rack_id>>

Created(cfg) ==
    [conn_timeout |-> OrDefault(cfg[Client("timeout")], 1000), login_timeout |-> OrDefault(cfg[Client("login_timeout")], 5000),
     idle |-> as_cluster_set_max_socket_idle(cfg[Client("max_socket_idle")]), tend_interval |-> cfg[Client("tend_interval")],
     fail_if_not_connected |-> cfg[Client("fail_if_not_connected")],
     use_services_alternate |-> cfg[Client("use_service_alternative")], rack_aware |-> cfg[Client("rack_aware")],
     max_error_rate |-> cfg[Client("max_error_rate")], error_rate_window |-> cfg[Client("error_rate_window")],
     nodes_max_error_rate |-> cfg[Client("max_error_rate")], rack_ids |-> RackIdsOf(cfg), app_id |-> cfg[AppId],
     config_interval |-> cfg[Client("config_interval")]]
NoMetrics == [enabled |-> FALSE, columns |-> 0, shift |-> 0]

Refuses(cfg) ==
    \/ cfg[Client("max_socket_idle")] > 86400
    \/ cfg[Client("tend_interval")] < AS_TEND_INTERVAL_MIN
    \/ cfg[Client("config_interval")] < cfg[Client("tend_interval")]
    \/ cfg[Client("min_connections_per_node")] > cfg[Client("max_connections_per_node")]
    \/ cfg[Client("async_min_connections_per_node")] > cfg[Client("async_max_connections_per_node")]

as_cluster_create ==
    /\ phase = "inited"
    /\ IF Refuses(config)
       THEN phase' = "refused" /\ UNCHANGED <<config, cluster, broken>>
       ELSE /\ phase' = "created"
            /\ config' = as_config_massage_error_rate(config)
            /\ cluster' = [of |-> Created(as_config_massage_error_rate(config)), metrics |-> NoMetrics]
            /\ broken' = (broken \/ config[AppId].obj \in heap.freed \/ config[RackIds].obj \in heap.freed)
    /\ seen' = TRUE
    /\ UNCHANGED <<setup, orig, bitmap, file, changed, tend, heap, accepted>>

\* The default writer may fail to open its file.
as_cluster_enable_metrics(m, columns, shift) ==
    {[enabled |-> TRUE, columns |-> columns, shift |-> shift]}
    \cup IF setup.faulty THEN {[m EXCEPT !.enabled = FALSE]} ELSE {}

as_cluster_disable_metrics(m) == [m EXCEPT !.enabled = FALSE]

\* aerospike_connect looks at the configuration before it takes the metrics lock.
aerospike_connect ==
    \/ /\ phase = "created"
       /\ phase' = IF config[<<"metrics", "enable">>] = "true" THEN "enabling" ELSE "connected"
       /\ UNCHANGED cluster
    \/ /\ phase = "enabling"
       /\ \E m \in as_cluster_enable_metrics(cluster.metrics, config[<<"metrics", "latency_columns">>],
                                             config[<<"metrics", "latency_shift">>]) : cluster' = [cluster EXCEPT !.metrics = m]
       /\ phase' = "connected"
Connects ==
    /\ aerospike_connect
    /\ UNCHANGED <<setup, config, orig, bitmap, file, changed, seen, tend, heap, broken, accepted>>

-----------------------------------------------------------------------------
(* The tend thread.                                                         *)

\* The client's fields taken before the intervals are compared.
Early == {Client(n) : n \in Range(Names["client"])} \ {AppId, RackIds}

FromFile(src, bits, ms) == [m \in ms |-> IF BitOf[m] \in bits THEN src[m] ELSE orig[m]]

MetricsMembers == {<<"metrics", n>> : n \in DOMAIN Bits["metrics"]}
SingleMembers == {m \in Members : m[1] \in {"read", "scan", "query"} \cup OfWrite}
UpdateSingles(src, bits) == FromFile(src, bits, SingleMembers)
UpdateBatches(src, bits) == FromFile(src, bits, Members \ (SingleMembers \cup MetricsMembers))
KeepLast(src, bits) == [m \in Members \ MetricsMembers |-> IF BitOf[m] \in bits THEN src[m] ELSE config[m]]  \* mutant
as_cluster_update_policies(src, bits) == UpdateSingles(src, bits) @@ UpdateBatches(src, bits)

\* The list of racks: [val, heap, broken].
UpdateRacks(src, bits, h) ==
    LET old == config[RackIds].obj
    IN  CASE BitOf[RackIds] \in bits -> [val |-> src[RackIds], heap |-> Freed(h, old), broken |-> Uses(h, old)]
          [] BitOf[RackIds] \notin bits /\ old = orig[RackIds].obj -> [val |-> config[RackIds], heap |-> h, broken |-> FALSE]
          [] OTHER -> [val |-> [obj |-> h.next, val |-> orig[RackIds].val],
                       heap |-> [Freed(h, old) EXCEPT !.next = @ + 1], broken |-> Uses(h, old) \/ Uses(h, orig[RackIds].obj)]

as_str_eq(a, b) == (a.obj = 0 /\ b.obj = 0) \/ (a.obj # 0 /\ b.obj # 0 /\ a.val = b.val)

UpdateAppId(src, bits, h) ==
    LET old == config[AppId]
        new == IF BitOf[AppId] \in bits THEN src[AppId] ELSE orig[AppId]
        bad == {old.obj, new.obj} \cap h.freed # {}
        copy == IF BitOf[AppId] \in bits \/ new.obj = 0 THEN new ELSE [obj |-> h.next, val |-> new.val]
    IN  IF as_str_eq(old, new)
        THEN [val |-> old, heap |-> IF BitOf[AppId] \in bits THEN Freed(h, new.obj) ELSE h, broken |-> bad]
        ELSE [val |-> copy, heap |-> [Freed(h, old.obj) EXCEPT !.freed = @ \ {0}, !.next = @ + 1], broken |-> bad]

\* as_rack_ids_equal, and the copy that replaces the cluster's list.
as_rack_ids_equal(cfg) == cluster.of.rack_ids = RackIdsOf(cfg)

UpdateNoRates(cfg, app) ==  \* mutant
    [cluster.of EXCEPT !.rack_ids = IF as_rack_ids_equal(cfg) THEN @ ELSE cfg[RackIds].val, !.app_id = app,
        !.tend_interval = cfg[Client("tend_interval")]]
SetCluster(cfg, app) ==
    [cluster.of EXCEPT
        !.conn_timeout = OrDefault(cfg[Client("timeout")], 1000),
        !.login_timeout = OrDefault(cfg[Client("login_timeout")], 5000),
        !.idle = as_cluster_set_max_socket_idle(cfg[Client("max_socket_idle")]),
        !.tend_interval = cfg[Client("tend_interval")],
        !.fail_if_not_connected = cfg[Client("fail_if_not_connected")],
        !.use_services_alternate = cfg[Client("use_service_alternative")],
        !.rack_aware = cfg[Client("rack_aware")],
        !.error_rate_window = cfg[Client("error_rate_window")],
        !.max_error_rate = cfg[Client("max_error_rate")],
        !.nodes_max_error_rate = IF cluster.of.max_error_rate # cfg[Client("max_error_rate")]
                                 THEN cfg[Client("max_error_rate")] ELSE @,
        !.rack_ids = IF as_rack_ids_equal(cfg) THEN @ ELSE cfg[RackIds].val,
        !.app_id = app]

as_cluster_update(src, bits, next) ==
    LET early == as_config_massage_error_rate(FromFile(src, bits, Early) @@ config)
        racks == UpdateRacks(src, bits, [heap EXCEPT !.next = next])
        app == UpdateAppId(src, bits, racks.heap)
        cfg == as_cluster_update_policies(src, bits) @@ [early EXCEPT ![RackIds] = racks.val, ![AppId] = app.val]
    IN  IF cluster.of.config_interval < early[Client("tend_interval")]
        THEN /\ config' = early
             /\ heap' = [heap EXCEPT !.next = next]
             /\ UNCHANGED <<cluster, tend, broken>>
        ELSE /\ config' = cfg
             /\ cluster' = [cluster EXCEPT !.of = SetCluster(cfg, app.val)]
             /\ heap' = app.heap
             /\ broken' = (broken \/ racks.broken \/ app.broken \/ (~as_rack_ids_equal(cfg) /\ Uses(app.heap, cfg[RackIds].obj)))
             /\ tend' = [at |-> "bitmap", src |-> src, bits |-> bits]

UpdateFrom(y) ==
    IF y.ok THEN as_cluster_update(y.cfg, y.bits, y.next) ELSE UNCHANGED <<config, cluster, tend, heap, broken>>
as_config_file_update ==
    LET empty == [config EXCEPT ![AppId] = Null, ![RackIds] = Null, ![LabelList] = Null]
    IN  UpdateFrom(as_config_file_read(Document(file), empty, {}, FALSE, heap.next))

\* as_cluster_manage: the file is read when its status has changed.
as_cluster_manage ==
    /\ tend.at = "idle" /\ ~seen
    /\ phase = "connected" \/ (setup.early /\ phase \in {"created", "enabling"})
    /\ seen' = TRUE
    /\ as_config_file_update
    /\ accepted' = IF tend'.at = "bitmap" THEN file ELSE accepted
    /\ UNCHANGED <<setup, orig, bitmap, phase, file, changed>>

\* memcpy of sizeof(AS_CONFIG_BITMAP_SIZE) bytes: of an int.
SIZEOF_INT == 4
CopyBitmap(old, new) == {b \in old : b >= 8 * SIZEOF_INT} \cup {b \in new : b < 8 * SIZEOF_INT}

UpdateBitmap ==
    /\ tend.at = "bitmap"
    /\ bitmap' = CopyBitmap(bitmap, tend.bits)
    /\ tend' = [tend EXCEPT !.at = "metrics"]
    /\ UNCHANGED <<setup, config, orig, cluster, phase, file, changed, seen, heap, broken, accepted>>

as_metrics_labels_equal(a, b) == as_str_eq(a, b)

\* The labels: [val, heap, broken, new].
UpdateLabels(src, bits) ==
    LET old == config[LabelList]
        given == BitOf[LabelList] \in bits
        new == IF given THEN src[LabelList] ELSE orig[LabelList]
        bad == {old.obj, new.obj} \cap heap.freed # {}
        copy == IF given \/ new.obj = 0 THEN new ELSE [obj |-> heap.next, val |-> new.val]
    IN  IF as_metrics_labels_equal(old, new)
        THEN [val |-> old, heap |-> IF given THEN [Freed(heap, new.obj) EXCEPT !.freed = @ \ {0}] ELSE heap,
              broken |-> bad, new |-> FALSE]
        ELSE [val |-> copy, heap |-> [Freed(heap, old.obj) EXCEPT !.freed = @ \ {0}, !.next = @ + 1],
              broken |-> bad, new |-> TRUE]

\* Runs under the metrics lock.
as_cluster_update_metrics ==
    LET plain == {<<"metrics", n>> : n \in {"enable", "latency_columns", "latency_shift"}}
        labels == UpdateLabels(tend.src, tend.bits)
        cfg == FromFile(tend.src, tend.bits, plain) @@ [config EXCEPT ![LabelList] = labels.val]
        columns == cfg[<<"metrics", "latency_columns">>]
        shift == cfg[<<"metrics", "latency_shift">>]
        stale == labels.new \/ ~cluster.metrics.enabled \/ cluster.metrics.columns # columns \/ cluster.metrics.shift # shift
    IN  /\ tend.at = "metrics"
        /\ config' = cfg
        /\ heap' = labels.heap
        /\ broken' = (broken \/ labels.broken)
        /\ \E m \in IF cfg[<<"metrics", "enable">>] = "true"
                    THEN IF stale THEN as_cluster_enable_metrics(cluster.metrics, columns, shift) ELSE {cluster.metrics}
                    ELSE {as_cluster_disable_metrics(cluster.metrics)} : cluster' = [cluster EXCEPT !.metrics = m]
        /\ tend' = NoTend
        /\ UNCHANGED <<setup, orig, bitmap, phase, file, changed, seen, accepted>>

-----------------------------------------------------------------------------
(* The user.                                                                *)

EnableBit == BitOf[<<"metrics", "enable">>]

\* With a policy of the user's own: what the file sets wins.
aerospike_enable_metrics ==
    /\ phase = "connected"
    /\ ~(EnableBit \in bitmap /\ config[<<"metrics", "enable">>] # "true")
    /\ LET p == as_metrics_policy_merge(bitmap, config, setup.metrics)
       IN  \E m \in as_cluster_enable_metrics(cluster.metrics, p["latency_columns"], p["latency_shift"]) :
             cluster' = [cluster EXCEPT !.metrics = m]
    /\ UNCHANGED <<setup, config, orig, bitmap, phase, file, changed, seen, tend, heap, broken, accepted>>

aerospike_disable_metrics ==
    /\ phase = "connected"
    /\ ~(cluster.metrics.enabled /\ EnableBit \in bitmap /\ config[<<"metrics", "enable">>] = "true")
    /\ cluster' = [cluster EXCEPT !.metrics = as_cluster_disable_metrics(@)]
    /\ UNCHANGED <<setup, config, orig, bitmap, phase, file, changed, seen, tend, heap, broken, accepted>>

WriteFile ==
    /\ changed < MaxFiles /\ phase # "new"
    /\ \E f \in setup.files \ {file} : file' = f
    /\ changed' = changed + 1
    /\ seen' = FALSE
    /\ UNCHANGED <<setup, config, orig, bitmap, cluster, phase, tend, heap, broken, accepted>>

NoFile == [static |-> <<>>, dynamic |-> <<>>, rest |-> <<>>]

Init ==
    /\ setup \in Setups
    /\ config = setup.user
    /\ orig = setup.user
    /\ bitmap = {}
    /\ cluster = [of |-> <<>>, metrics |-> NoMetrics]
    /\ phase = "new"
    /\ file \in setup.first
    /\ changed = 0
    /\ seen = FALSE
    /\ tend = NoTend
    /\ heap = [next |-> 10, freed |-> {}]
    /\ broken = FALSE
    /\ accepted = NoFile

Next ==
    \/ aerospike_defaults
    \/ as_cluster_create
    \/ Connects
    \/ as_cluster_manage
    \/ UpdateBitmap
    \/ as_cluster_update_metrics
    \/ aerospike_enable_metrics
    \/ aerospike_disable_metrics
    \/ WriteFile

Spec == Init /\ [][Next]_vars

-----------------------------------------------------------------------------
(* Properties.  "means" of a field is the value it is written for.          *)

\* The members a field of a section is for.
MeantFor(section, name) ==
    CASE section = "write" -> {<<p, name>> : p \in OfWrite}
      [] section = "read" /\ name \in {"read_mode_ap", "read_mode_sc"} -> {<<"read", name>>, <<"operate", name>>}
      [] section = "batch_read" -> {<<"batch", name>>}
      [] section = "batch_write" /\ name \notin {"durable_delete", "send_key"} -> {<<"batch_parent_write", name>>}
      [] section = "batch_udf" -> {<<"batch_apply", name>>}
      [] section = "batch_delete" -> {<<"batch_remove", name>>}
      [] OTHER -> {<<section, name>>}

\* What a version of the file says of a member.
Says(f, m) == UNION {{<<i, j>> : j \in {k \in DOMAIN f.dynamic[i].fields : m \in MeantFor(f.dynamic[i].name, f.dynamic[i].fields[k].name)}}
                     : i \in DOMAIN f.dynamic}

InForce(m, else) ==
    IF Says(accepted, m) = {} THEN else
    ELSE LET at == CHOOSE ij \in Says(accepted, m) : TRUE IN accepted.dynamic[at[1]].fields[at[2]].means

Settled == tend.at = "idle" /\ phase = "connected"
Value(m) == IF m \in HeapMembers THEN config[m].val ELSE config[m]
UserValue(m) == IF m \in HeapMembers THEN setup.user[m].val ELSE setup.user[m]

\* Between updates every policy of the configuration is what the version in force of
\* the file says, and what the user configured where that version is silent: fields
\* that disappear from the file return to the user's values (as_cluster_update_policies).
PoliciesAsFile == Settled => \A m \in Members : Value(m) = InForce(m, UserValue(m))

\* Between updates a command called with a policy of its own runs with the file's value
\* for the fields the file sets and with its own value for every other one, for the
\* policies whose bits are in the part of the bitmap that an update copies.
Copied32 == {p \in Merging : \A n \in DOMAIN MemberBits[p] : MemberBits[p][n] < 8 * SIZEOF_INT}
CallsAsFile ==
    Settled => \A p \in Copied32 : \A n \in DOMAIN MemberBits[p] :
                   PolicyOf(p, bitmap, config, setup.call[p])[n] = InForce(<<p, n>>, setup.call[p].of[n])

\* The same for every policy a command merges.
AllCallsAsFile ==
    Settled => \A p \in Merging : \A n \in DOMAIN MemberBits[p] :
                   PolicyOf(p, bitmap, config, setup.call[p])[n] = InForce(<<p, n>>, setup.call[p].of[n])

\* A running cluster that takes a new version of the file is as one created with it.
UpdatedAsCreated ==
    Settled => cluster.of = Created(config)

\* Once the file decides whether metrics are on, the user's calls do not change it.
MetricsAsFile ==
    Settled /\ ~setup.faulty /\ EnableBit \in bitmap /\ Says(accepted, <<"metrics", "enable">>) # {}
        => cluster.metrics.enabled = (InForce(<<"metrics", "enable">>, "false") = "true")

\* No update reads or frees an object that was freed before or never existed.
HeapSound == ~broken
=============================================================================
