------------------------------ MODULE MCThread ------------------------------
(* Instances of Thread for TLC. *)
EXTENDS Thread, TLC

CONSTANTS op, r1, r2, r3  \* the opening post and three more
CONSTANTS m1, m2          \* moderators

\* Every reply but the opening post is like every other, and so are moderators.
MCSymmetry == Permutations({r1, r2, r3} \cap Replies) \cup Permutations({m1, m2})
=============================================================================
