---------------------------- MODULE MCWorkerStop ----------------------------
(***************************************************************************)
(* WorkerStop for a worker of either kind.  The state space is finite as   *)
(* it stands; the constants choose the kinds and the failures.             *)
(***************************************************************************)
EXTENDS WorkerStop

BothKinds == {"core", "bridge"}
CoreOnly == {"core"}
=============================================================================
