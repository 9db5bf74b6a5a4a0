----------------------------- MODULE MCAccounts -----------------------------
(* An instance of Accounts for TLC. *)
EXTENDS Accounts, TLC

CONSTANTS ann, bob        \* a member, and a name that is still free
CONSTANTS home, work      \* ann's address, and another
CONSTANTS h1, h2          \* request handlers

MCFirstAddress == [u \in {ann} |-> home]

MCSymmetry == Permutations({h1, h2})
=============================================================================
