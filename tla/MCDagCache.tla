---------------------------- MODULE MCDagCache ----------------------------
(***************************************************************************)
(* Small instances of DagCache for TLC.                                    *)
(***************************************************************************)
EXTENDS DagCache, TLC

CONSTANTS c1, c2  \* the connections

Symmetry == Permutations({c1, c2})
===========================================================================
