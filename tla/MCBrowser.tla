----------------------------- MODULE MCBrowser ------------------------------
(* An instance of Browser for TLC. *)
EXTENDS Browser, TLC

CONSTANTS ann, bob  \* a member, and a name that is still free
CONSTANTS t1, t2    \* tabs

MCSymmetry == Permutations({t1, t2})
=============================================================================
