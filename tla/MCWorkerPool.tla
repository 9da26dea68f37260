---------------------------- MODULE MCWorkerPool ----------------------------
(* One thread submits, as the reactor does; three workers, four tasks, one *)
(* of them null.                                                           *)
EXTENDS WorkerPool

CONSTANTS p1, w1, w2, w3

MCPushers   == {p1}
MCWorkers   == {w1, w2, w3}
MCPollers   == {}
MCNullTasks == {2}
=============================================================================
