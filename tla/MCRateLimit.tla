---------------------------- MODULE MCRateLimit -----------------------------
(* An instance of RateLimit for TLC. *)
EXTENDS RateLimit, TLC

CONSTANTS h1, h2  \* request handlers

Bound(max, window) == [max |-> max, window |-> window]

\* What a client may do is more than what one name may, and threads, signups
\* and resets have the longest window: as shipped.  The shortest is the
\* login's, so that two logins can come within a thread's window.
MCLimits == [login  |-> [own |-> Bound(1, 2), client |-> Bound(3, 3)],
             reply  |-> [own |-> Bound(1, 3), client |-> Bound(3, 2)],
             thread |-> [own |-> Bound(1, 5), client |-> Bound(2, 5)],
             signup |-> [own |-> Bound(1, 5), client |-> Bound(2, 5)],
             reset  |-> [own |-> Bound(1, 5), client |-> Bound(2, 5)]]

\* A login under a name, and one that typed "thread:" and an author's number.
MCTyped == {"name", "thread"} \X Members

MCSymmetry == Permutations({h1, h2})
=============================================================================
