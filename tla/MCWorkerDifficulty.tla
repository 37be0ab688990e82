------------------------ MODULE MCWorkerDifficulty ------------------------
(***************************************************************************)
(* Small instances of WorkerDifficulty for TLC.                            *)
(***************************************************************************)
EXTENDS WorkerDifficulty
===========================================================================
