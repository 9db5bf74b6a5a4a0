----------------------------- MODULE ThreadTree -----------------------------
(***************************************************************************)
(* What a thread promises its readers: replies form a tree that only       *)
(* grows.  A reply is added in one step, as the youngest child of a post   *)
(* already there or of the thread itself; nothing is ever moved, renumbered *)
(* or taken out, and the children of a post are numbered without gaps.     *)
(* Thread implements this with paths, stale reads and retries.             *)
(***************************************************************************)
EXTENDS Integers

CONSTANTS
    Replies,   \* everything that may be posted
    Top,       \* the thread itself, the parent of a top-level post
    MaxRank    \* a post has no more than MaxRank + 1 children

VARIABLE place \* where each reply hangs: its parent and its rank among siblings

Unplaced == [parent |-> Top, rank |-> -1]

Placed == {r \in Replies : place[r] # Unplaced}

\* The ranks taken under p.
Ranks(p) == {place[r].rank : r \in {q \in Placed : place[q].parent = p}}

Init == place = [r \in Replies |-> Unplaced]

\* r becomes the youngest child of p.
Add(r, p) ==
    /\ r \notin Placed
    /\ p \in Placed \cup {Top}
    /\ \E n \in 0..MaxRank :
         /\ Ranks(p) = 0..(n - 1)
         /\ place' = [place EXCEPT ![r] = [parent |-> p, rank |-> n]]

Next == \E r \in Replies, p \in Replies \cup {Top} : Add(r, p)

Spec == Init /\ [][Next]_place
=============================================================================
