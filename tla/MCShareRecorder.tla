-------------------------- MODULE MCShareRecorder --------------------------
(***************************************************************************)
(* Small instances of ShareRecorder for TLC.  When every share of the      *)
(* instance has been handled nothing is left to do, so the configurations  *)
(* do not check for deadlock.                                              *)
(***************************************************************************)
EXTENDS ShareRecorder

CONSTANTS s1, s2, s3  \* the shares
=============================================================================
