---------------------------- MODULE MCModeration ----------------------------
(* Instances of Moderation for TLC. *)
EXTENDS Moderation, TLC

CONSTANTS ann, bob, mod   \* a member, another member and a moderator
CONSTANTS w1, w2          \* request handlers

\* Ann wrote every post.
MCAuthor == [p \in Posts |-> ann]

\* The request handlers are interchangeable.
MCSymmetry == Permutations({w1, w2})
=============================================================================
