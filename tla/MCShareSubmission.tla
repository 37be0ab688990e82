------------------------- MODULE MCShareSubmission -------------------------
(***************************************************************************)
(* Small instances of ShareSubmission for TLC.                             *)
(***************************************************************************)
EXTENDS ShareSubmission, TLC

CONSTANTS w1, w2  \* the connections

\* A header has two spellings, and one text stands for two headers: version bits are not
\* part of it.
MCMeans == [t \in Texts |-> IF t = "text1" THEN {"block"} ELSE {"block", "plain"}]

Symmetry == Permutations({w1, w2})
=============================================================================
