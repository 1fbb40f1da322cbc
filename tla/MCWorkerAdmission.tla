-------------------------- MODULE MCWorkerAdmission --------------------------
(***************************************************************************)
(* TLC instance of WorkerAdmission: a few requests of two priorities, a    *)
(* worker whose batch may be smaller than MaxNumSeqs or not reported (0),  *)
(* and reports on either side of the Pending <= 1 threshold.               *)
(***************************************************************************)
EXTENDS WorkerAdmission, TLC

MCPriorities == {0, 1}
MCPendings == {1, 2}
MCBatchSizes == {0, 1, 4}

RequestSymmetry == Permutations(Requests)

=============================================================================
