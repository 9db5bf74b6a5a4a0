------------------------------- MODULE Paths --------------------------------
(***************************************************************************)
(* Materialized paths: where a post hangs in its thread, as the ordinals   *)
(* from the root down, and the text that the database stores and sorts.    *)
(***************************************************************************)
EXTENDS Integers, Sequences

CONSTANTS
    MaxOrdinal,   \* path.rs MAX_ORDINAL
    MaxDepth      \* path.rs MAX_DEPTH

ASSUME PathsAssumption ==
    /\ MaxOrdinal \in Nat
    /\ MaxDepth \in Nat \ {0}

\* <<>> is no path: the thread itself, a page's beginning, or an error.
Path == {p \in Seq(0..MaxOrdinal) : Len(p) <= MaxDepth}

Parent(p) == SubSeq(p, 1, Len(p) - 1)
Ordinal(p) == p[Len(p)]

\* The ancestor at a depth counted from 0 for a top-level post.
AncestorAtDepth(p, depth) == SubSeq(p, 1, depth + 1)

\* Mutant of Child: one level too many.
ChildDeeper(p, ordinal) ==
    IF Len(p) > MaxDepth \/ ordinal > MaxOrdinal THEN <<>> ELSE Append(p, ordinal)

\* <<>> stands for the error.
Child(p, ordinal) ==
    IF Len(p) >= MaxDepth \/ ordinal > MaxOrdinal THEN <<>> ELSE Append(p, ordinal)

NextSibling(p) == Child(Parent(p), Ordinal(p) + 1)

\* Mutant of Allocate: the deepest path is taken for the last child.
AllocateDeepest(p, last) ==
    IF last = <<>> THEN Child(p, 0) ELSE NextSibling(last)

\* NextPath::allocate: the place after last, the last path below p.
Allocate(p, last) ==
    IF last = <<>> THEN Child(p, 0)
    ELSE NextSibling(AncestorAtDepth(last, Len(p)))

\* Page order: parents before children, older siblings before younger.
Before(p, q) ==
    \E n \in 0..(Len(q) - 1) :
        /\ n <= Len(p)
        /\ \A i \in 1..n : p[i] = q[i]
        /\ n < Len(p) => p[n + 1] < q[n + 1]
=============================================================================
