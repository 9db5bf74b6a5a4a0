------------------------------ MODULE PathText ------------------------------
(***************************************************************************)
(* How a path is stored, and so how the database sorts and searches posts: *)
(* each ordinal as digits of a fixed width, with a separator between.      *)
(***************************************************************************)
EXTENDS Paths

CONSTANTS
    Base,    \* the digits of the alphabet; 32 in path.rs
    Width    \* path.rs SEGMENT_WIDTH

ASSUME PathTextAssumption ==
    /\ Base \in Nat \ {0, 1}
    /\ Width \in Nat \ {0}
    /\ MaxOrdinal = Base^Width - 1

\* Bytes, of which only the order counts.
Separator == 0            \* "."
SubtreeMark == 1          \* "/"
Digit(d) == 2 + d         \* ALPHABET[d]
Highest == 2 + Base       \* above every digit

\* Mutant of SegmentByte: least significant digit first.
SegmentByteReversed(ordinal, i) == Digit((ordinal \div Base^(i - 1)) % Base)

\* The i-th byte of an encoded ordinal: most significant digit first.
SegmentByte(ordinal, i) == Digit((ordinal \div Base^(Width - i)) % Base)

Encode(p) ==
    [i \in 1..(IF p = <<>> THEN 0 ELSE Len(p) * (Width + 1) - 1) |->
        LET place == ((i - 1) % (Width + 1)) + 1 IN
        IF place > Width THEN Separator
        ELSE SegmentByte(p[((i - 1) \div (Width + 1)) + 1], place)]

SubtreeEnd(p) == Append(Encode(p), SubtreeMark)

\* ORDER BY path and path > ?: byte by byte, and a prefix sorts first, which
\* is how Before compares sequences of ordinals.
StoredBefore(p, q) == Before(Encode(p), Encode(q))

\* The posts of a tree between NextPath::search_bounds(p).
InSearchBounds(tree, p) ==
    LET end == IF p = <<>> THEN <<Highest>> ELSE SubtreeEnd(p) IN
    {q \in tree : StoredBefore(p, q) /\ Before(Encode(q), end)}
=============================================================================
