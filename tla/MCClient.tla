------------------------------ MODULE MCClient ------------------------------
(***************************************************************************)
(* The life of a client instance, for TLC.  A behaviour is that of one     *)
(* part: an event loop whose cluster is closed, the work that the tend     *)
(* thread and the user give the loops until the cluster is destroyed, or   *)
(* the configuration file that changes while the client runs.  The others  *)
(* stay where they start.                                                  *)
(***************************************************************************)
EXTENDS EventLoop, SequencesExt

CONSTANTS A,
          TaskSetups, ConfigSetups

VARIABLE part

VARIABLE s      \* LoopTasks

VARIABLES setup, config, orig, bitmap, cluster, phase, file, changed, seen, tend, heap, broken, accepted
config_vars == <<setup, config, orig, bitmap, cluster, phase, file, changed, seen, tend, heap, broken, accepted>>

InCluster == [c \in Cmd |-> A]
TwoClusters == [c \in Cmd |-> IF c = (CHOOSE d \in Cmd : TRUE) THEN CHOOSE k \in Cluster : k # A ELSE A]

Tasks == INSTANCE MCLoopTasks WITH Setups <- TaskSetups, Loops <- {1, 2}, MaxShared <- 4
Config == INSTANCE ConfigFile WITH Setups <- ConfigSetups, MaxFiles <- 3

\* What TaskSetups may be.
TaskCases == INSTANCE MCLoopTasks WITH Setups <- {}, Loops <- {1, 2}, MaxShared <- 4
AllTasks == TaskCases!MCSetups
SyncTasks == TaskCases!SyncSetups
RefusedTasks == TaskCases!RefusedSetups

-----------------------------------------------------------------------------
(* Configuration files.                                                     *)

\* The operators of ConfigFile, apart from the setups that are made with them.
Cases == INSTANCE ConfigFile WITH Setups <- {}, MaxFiles <- 3

F(name, value, means) == [name |-> name, events |-> Cases!Scalar(value), means |-> means]
List(name, values, means) ==
    [name |-> name, means |-> means,
     events |-> <<Cases!Ev("seq", "")>> \o FlattenSeq([i \in DOMAIN values |-> Cases!Scalar(values[i])])
                \o <<Cases!Ev("seqend", "")>>]
Labelled(name, value) ==
    [name |-> "labels", events |-> Cases!Mapping(Cases!Scalar(name) \o Cases!Scalar(value)),
     means |-> <<<<name, value>>>>]
Sec(name, fields) == [name |-> name, fields |-> fields]
File(static, dynamic) == [static |-> static, dynamic |-> dynamic, rest |-> <<Cases!Ev("mapend", "")>>]

Counts == {"socket_timeout", "total_timeout", "max_retries", "sleep_between_retries", "info_timeout",
           "latency_columns", "latency_shift"}
Given(n, number, word) == IF n \in Counts THEN number ELSE word

UserPolicies ==
    [m \in Cases!Members |->
        CASE m = Cases!LabelList -> Cases!Null
          [] m = <<"metrics", "enable">> -> "false"
          [] OTHER -> Given(m[2], 3, "user")]
UserClient ==
    [m \in Cases!ClientMembers |->
        CASE m \in {Cases!AppId, Cases!RackIds} -> Cases!Null
          [] m[2] = "config_interval" -> 5000
          [] m[2] = "tend_interval" -> 1000
          [] m[2] \in {"max_connections_per_node", "async_max_connections_per_node", "max_error_rate"} -> 100
          [] m[2] = "error_rate_window" -> 1
          [] m[2] \in {"fail_if_not_connected", "use_service_alternative", "rack_aware"} -> "user"
          [] OTHER -> 0]
User == UserPolicies @@ UserClient

Call == [p \in Cases!Policies |-> [given |-> TRUE, of |-> [n \in DOMAIN Cases!MemberBits[p] |->
            IF n = "labels" THEN Cases!Null ELSE Given(n, 4, "call")]]]

\* The versions that are read without an error.
Fine(f) == Cases!as_config_file_read(Cases!Document(f), User, {}, TRUE, 10).ok

FileSetup(user, files, early, faulty) ==
    [user |-> user, files |-> files, first |-> {f \in files : Fine(f)}, early |-> early, faulty |-> faulty,
     rack_id |-> 0, call |-> Call,
     metrics |-> [given |-> TRUE, of |-> [n \in DOMAIN Cases!MemberBits["metrics"] |->
                    IF n = "labels" THEN Cases!Null ELSE IF n = "enable" THEN "true" ELSE 5]]]

\* Single record policies: set, changed, dropped; a list where a word is due; an unknown
\* section with a nested list; a number out of range.
SingleFiles ==
    {File(<<>>, <<Sec("read", <<F("replica", "MASTER_PROLES", "ANY"), F("read_mode_sc", "SESSION", "SESSION")>>),
                  Sec("write", <<F("max_retries", "1", 1), F("send_key", "true", "SEND")>>)>>),
     File(<<>>, <<Sec("write", <<F("max_retries", "2", 2), F("durable_delete", "true", "true")>>),
                  Sec("future", <<List("x", <<"1", "2">>, "")>>),
                  Sec("read", <<F("connect_timeout", "1", 1), F("read_mode_ap", "ALL", "ALL")>>)>>),
     File(<<>>, <<Sec("read", <<F("total_timeout", "300", 300)>>), Sec("write", <<F("replica", "NEAREST", "")>>)>>),
     File(<<>>, <<Sec("read", <<List("replica", <<"MASTER">>, "")>>)>>),
     File(<<>>, <<>>)}

BatchFiles ==
    {File(<<Sec("client", <<F("config_interval", "7000", 7000)>>)>>,
          <<Sec("batch_read", <<F("max_concurrent_threads", "1", "false")>>),
            Sec("batch_write", <<F("send_key", "false", "DIGEST"), F("allow_inline", "true", "true")>>),
            Sec("batch_udf", <<F("durable_delete", "true", "true")>>), Sec("batch_delete", <<F("send_key", "true", "SEND")>>)>>),
     File(<<>>, <<Sec("txn_verify", <<F("max_retries", "0", 0)>>), Sec("txn_roll", <<F("replica", "MASTER", "MASTER")>>),
                  Sec("scan", <<F("replica", "RANDOM", "RANDOM")>>)>>),
     File(<<>>, <<Sec("query", <<F("expected_duration", "SHORT", "SHORT"), F("info_timeout", "100", 100)>>),
                  Sec("batch_read", <<F("max_concurrent_threads", "2", "true")>>)>>)}

\* The circuit breaker's two numbers only together; a tend interval too short.
ClientFiles ==
    {File(<<>>, <<Sec("client", <<F("max_error_rate", "2", 2), F("error_rate_window", "1", 1), F("timeout", "0", 0)>>)>>),
     File(<<>>, <<Sec("client", <<F("max_error_rate", "300", 300), F("max_socket_idle", "100", 100),
                                  F("rack_aware", "true", "true")>>)>>),
     File(<<>>, <<Sec("client", <<F("tend_interval", "2000", 2000), F("login_timeout", "500", 500),
                                  F("error_rate_window", "0", 0)>>)>>),
     File(<<>>, <<Sec("client", <<F("max_error_rate", "2", 2), F("tend_interval", "100", 100)>>)>>)}

MetricsFiles ==
    {File(<<>>, <<Sec("metrics", <<F("enable", "true", "true"), F("latency_columns", "2", 2)>>)>>),
     File(<<>>, <<Sec("metrics", <<F("enable", "true", "true"), F("latency_shift", "1", 1), Labelled("a", "b"),
                                   F("latency_columns", "100", 100)>>)>>),
     File(<<>>, <<Sec("metrics", <<F("enable", "false", "false")>>)>>),
     File(<<>>, <<Sec("metrics", <<F("latency_columns", "300", 300), F("enable", "false", "false")>>)>>)}

AllConfigs == {FileSetup(User, fs, FALSE, FALSE) : fs \in {SingleFiles, BatchFiles, ClientFiles, MetricsFiles}}
            \cup {FileSetup(User, MetricsFiles, FALSE, TRUE)}

\* A file that is empty and then sets the fields of one section.
ThenSets(user, section, fields) ==
    {FileSetup(user, {File(<<>>, <<>>), File(<<>>, <<Sec(section, fields)>>)}, FALSE, FALSE)}

\* An update that first sets a field of the second half of the bitmap.
BitmapConfigs == ThenSets(User, "query", <<F("max_retries", "1", 1)>>)
\* The sleep between the retries of writes.
SleepConfigs == ThenSets(User, "write", <<F("sleep_between_retries", "500", 500)>>)
\* Racks given and taken back.
RackConfigs == ThenSets(User, "client", <<List("rack_ids", <<"1", "2">>, <<1, 2>>)>>)
\* A version refused for its tend interval.
IntervalConfigs ==
    ThenSets([User EXCEPT ![Cases!Client("config_interval")] = 1000], "client", <<F("tend_interval", "2000", 2000)>>)
\* A version refused when the client is created.
RefusedFile == File(<<>>, <<Sec("read", <<F("max_retries", "1", 1), F("replica", "NEAREST", "")>>)>>)
InitConfigs == {[FileSetup(User, {RefusedFile}, FALSE, FALSE) EXCEPT !.first = {RefusedFile}]}
\* An update while the client connects.
EarlyConfigs == {FileSetup(User, MetricsFiles, TRUE, FALSE)}

-----------------------------------------------------------------------------
NoConfig ==
    /\ setup = <<>> /\ config = <<>> /\ orig = <<>> /\ bitmap = {} /\ cluster = <<>> /\ phase = "new" /\ file = <<>>
    /\ changed = 0 /\ seen = FALSE /\ tend = <<>> /\ heap = <<>> /\ broken = FALSE /\ accepted = <<>>

\* What the properties look at of the loops' tasks.
NoTasks == s = [tend |-> [pc |-> "sleep"], q |-> <<<<>>, <<>>>>]

ClientInit ==
    /\ Init
    /\ \/ part = "loop" /\ NoTasks /\ NoConfig
       \/ part = "tasks" /\ Tasks!Init /\ NoConfig
       \/ part = "config" /\ NoTasks /\ Config!Init

ClientNext ==
    \/ part = "loop" /\ Next /\ UNCHANGED <<part, s, config_vars>>
    \/ part = "tasks" /\ Tasks!Next /\ UNCHANGED <<part, vars, config_vars>>
    \/ part = "config" /\ Config!Next /\ UNCHANGED <<part, vars, s>>

\* A loop thread is never blocked, so what it has to do next is done; the clock
\* advances, and a timer that is due fires; threads run.  Nothing is assumed of the
\* server, of the user or of the loop that EventLoop does not model.
ClientSpec ==
    /\ ClientInit /\ [][ClientNext]_<<part, vars, s, config_vars>>
    /\ WF_vars(part = "loop" /\ Engine)
    /\ \A c \in Cmd : WF_vars(part = "loop" /\ Expire(c)) /\ WF_vars(part = "loop" /\ Timer(c))
    /\ \A l \in {1, 2} :
          /\ WF_s(part = "tasks" /\ Tasks!Loop(l))
          /\ WF_s(part = "tasks" /\ Tasks!ConnectorEnds(l))
          /\ WF_s(part = "tasks" /\ Tasks!CommandEnds(l))
    /\ WF_s(part = "tasks" /\ Tasks!TendStep)
    /\ WF_s(part = "tasks" /\ Tasks!as_event_close_cluster)
    /\ WF_s(part = "tasks" /\ Tasks!as_cluster_destroy)

-----------------------------------------------------------------------------
(* Properties.                                                              *)

\* A cluster is destroyed only when its commands have run, no loop has one pending
\* and none works for a request whose owner went on (as_event_close_cluster_cb, the
\* monitors of the tend thread); balancing never sees a freed balancer, and connecting no
\* freed connector.
NothingUsedAfterClose ==
    CASE part = "loop" -> RunsBeforeClose
      [] part = "tasks" -> Tasks!SharedOutlives /\ Tasks!DestroyedQuiet
      [] OTHER -> TRUE

\* Nothing is under way that somebody waits for.
Ended ==
    /\ \A c \in Cmd : cmd[c].state \notin {"NEW", "REFUSED"} => cmd[c].result # <<>>
    /\ \A k \in Cluster : es[k].closing => es[k].closed
    /\ s.tend.pc \in {"sleep", "exit"}

\* Every issued command is reported, also when the server never answers; a close ends
\* in this loop; and the tend thread comes back from every wait for the loops
\* (connector_abort counts the connections that will not be started).
EverythingEnds == []<>Ended

\* Balancing a pool never closes below its minimum, whatever connectors and commands
\* are under way on the loop.
BalanceKeepsMinimum == Tasks!BalanceKeepsMinimum

\* Between updates of the configuration file every policy is what the version in force
\* says, and what the user configured where that version is silent; a command called
\* with a policy of its own runs with the file's value for the fields the file sets.  A
\* running cluster that takes a new version is as one created with it, and once the
\* file decides whether metrics are on, the user's calls do not change it.
RunsAsFile ==
    part = "config" => /\ Config!PoliciesAsFile /\ Config!CallsAsFile
                       /\ Config!UpdatedAsCreated /\ Config!MetricsAsFile
=============================================================================
