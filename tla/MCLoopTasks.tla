----------------------------- MODULE MCLoopTasks -----------------------------
(***************************************************************************)
(* Two loops.  Closing while the tend thread waits for the loops has a run *)
(* of its own; apart are connectors that fail at once and a close that is  *)
(* refused while commands run.                                             *)
(***************************************************************************)
EXTENDS LoopTasks

Setup(min, limit, ops) ==
    [min |-> min, limit |-> limit, concur |-> 2, ops |-> ops, refuse |-> FALSE, sync |-> FALSE, user |-> FALSE, single |-> FALSE,
     close |-> FALSE]

MCSetups ==
    {[Setup(<<2, 1>>, 3, <<"wait", "balance", "balance">>) EXCEPT !.user = TRUE],
     [Setup(<<2, 0>>, 2, <<"wait", "balance", "restart">>) EXCEPT !.refuse = TRUE, !.concur = 1],
     Setup(<<2, 2>>, 3, <<"nowait", "balance">>),
     [Setup(<<2, 0>>, 3, <<"nowait">>) EXCEPT !.sync = TRUE],
     [Setup(<<0, 0>>, 2, <<>>) EXCEPT !.close = TRUE, !.refuse = TRUE],
     [Setup(<<1, 1>>, 2, <<"nowait">>) EXCEPT !.user = TRUE, !.close = TRUE],
     [Setup(<<1, 0>>, 2, <<>>) EXCEPT !.single = TRUE, !.close = TRUE, !.user = TRUE]}
SyncSetups == {[Setup(<<2, 2>>, 3, <<op>>) EXCEPT !.sync = TRUE] : op \in {"wait", "nowait"}}
RefusedSetups == {[Setup(<<1, 1>>, 2, <<"nowait">>) EXCEPT !.close = TRUE, !.refuse = TRUE]}
CloseSetups == {[Setup(<<0, 0>>, 2, <<"balance">>) EXCEPT !.close = TRUE]}
=============================================================================
