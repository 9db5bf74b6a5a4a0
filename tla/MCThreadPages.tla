---------------------------- MODULE MCThreadPages ---------------------------
(* Instances of ThreadPages for TLC. *)
EXTENDS ThreadPages, TLC

CONSTANTS r1, r2   \* readers

MCSymmetry == Permutations(Readers)
=============================================================================
