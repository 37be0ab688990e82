------------------------- MODULE MCShareAccounting -------------------------
(***************************************************************************)
(* Small instances of ShareAccounting for TLC.  The runs stop when the     *)
(* bounds on shares and blocks are used up, so the configurations do not   *)
(* check for deadlock.                                                     *)
(***************************************************************************)
EXTENDS ShareAccounting, TLC

\* Miners are interchangeable: no definition tells one from another.
Symmetry == Permutations(Miners)
=============================================================================
