---------------------------- MODULE Paths_proofs ----------------------------
(* What the proofs about threads, pages and stores need of paths: how they  *)
(* are taken apart and put together, what allocation gives, and that page   *)
(* order is a strict total order.                                           *)
EXTENDS Paths, FiniteSets, FiniteSetTheorems, SequenceTheorems, TLAPS

-----------------------------------------------------------------------------
(* Paths as sequences.                                                      *)

LEMMA PathIsSeq ==
    ASSUME NEW p
    PROVE  p \in Path <=> p \in Seq(0..MaxOrdinal) /\ Len(p) <= MaxDepth
BY DEF Path

LEMMA NoPath == <<>> \in Path
<1>1. <<>> \in Seq(0..MaxOrdinal) /\ Len(<<>>) = 0
  BY EmptySeq
<1>2. 0 <= MaxDepth
  BY PathsAssumption
<1> QED
  BY <1>1, <1>2, PathIsSeq

\* The first n ordinals of a path.
LEMMA Prefix ==
    ASSUME NEW S, NEW p \in Seq(S), NEW n \in 0..Len(p)
    PROVE  /\ SubSeq(p, 1, n) \in Seq(S)
           /\ Len(SubSeq(p, 1, n)) = n
           /\ \A i \in 1..n : SubSeq(p, 1, n)[i] = p[i]
<1>1. Len(p) \in Nat /\ n \in Int /\ 1 \in Int
  BY LenProperties
<1>2. \A i \in 1..n : p[i] \in S
  <2>1. \A i \in 1..n : i \in 1..Len(p)
    BY <1>1
  <2> QED
    BY <2>1, ElementOfSeq
<1>3. /\ SubSeq(p, 1, n) \in Seq(S)
      /\ Len(SubSeq(p, 1, n)) = IF 1 <= n THEN n - 1 + 1 ELSE 0
      /\ \A i \in 1..(n - 1 + 1) : SubSeq(p, 1, n)[i] = p[1 + i - 1]
  BY <1>1, <1>2, SubSeqProperties
<1> QED
  BY <1>1, <1>3

\* A path with its last ordinal put back is itself.
LEMMA Rejoin ==
    ASSUME NEW p \in Path, p # <<>>
    PROVE  /\ Parent(p) \in Path
           /\ Len(Parent(p)) = Len(p) - 1
           /\ Ordinal(p) \in 0..MaxOrdinal
           /\ p = Append(Parent(p), Ordinal(p))
<1>0. p \in Seq(0..MaxOrdinal) /\ Len(p) <= MaxDepth
  BY PathIsSeq
<1>1. p \in Seq(0..MaxOrdinal) /\ Len(p) <= MaxDepth /\ Len(p) \in Nat \ {0}
  BY <1>0, EmptySeq, LenProperties
<1>2. /\ Parent(p) \in Seq(0..MaxOrdinal)
      /\ Len(Parent(p)) = Len(p) - 1
      /\ \A i \in 1..(Len(p) - 1) : Parent(p)[i] = p[i]
  <2>1. Len(p) - 1 \in 0..Len(p)
    BY <1>1
  <2> QED
    BY <1>1, <2>1, Prefix DEF Parent
<1>3. Ordinal(p) \in 0..MaxOrdinal
  <2>1. Len(p) \in 1..Len(p)
    BY <1>1
  <2> QED
    BY <1>1, <2>1, ElementOfSeq DEF Ordinal
<1>4. p = Append(Parent(p), Ordinal(p))
  <2> DEFINE q == Append(Parent(p), Ordinal(p))
  <2>1. q \in Seq(0..MaxOrdinal) /\ Len(q) = Len(p)
    BY <1>1, <1>2, <1>3, AppendProperties
  <2>2. \A i \in 1..Len(p) : q[i] = p[i]
    BY <1>1, <1>2, <1>3, AppendProperties DEF Ordinal
  <2> QED
    BY <1>1, <2>1, <2>2, SeqEqual
<1>5. Parent(p) \in Path
  <2>1. Len(p) - 1 <= MaxDepth
    BY <1>1, PathsAssumption
  <2> QED
    BY <1>2, <2>1, PathIsSeq
<1> QED
  BY <1>2, <1>3, <1>4, <1>5

\* What a child's path is made of.
LEMMA ChildOf ==
    ASSUME NEW p \in Path, NEW n \in Nat, Child(p, n) # <<>>
    PROVE  /\ Child(p, n) = Append(p, n)
           /\ Child(p, n) \in Path
           /\ Parent(Child(p, n)) = p
           /\ Ordinal(Child(p, n)) = n
<1>1. Len(p) < MaxDepth /\ n <= MaxOrdinal /\ Child(p, n) = Append(p, n)
  BY PathIsSeq, PathsAssumption DEF Child
<1>2. n \in 0..MaxOrdinal /\ p \in Seq(0..MaxOrdinal)
  BY <1>1, PathIsSeq, PathsAssumption
<1> DEFINE q == Append(p, n)
<1>3. /\ q \in Seq(0..MaxOrdinal) /\ Len(q) = Len(p) + 1
      /\ \A i \in 1..Len(p) : q[i] = p[i]
      /\ q[Len(p) + 1] = n
  BY <1>2, AppendProperties
<1>4. q \in Path
  <2>1. Len(p) \in Nat /\ MaxDepth \in Nat
    BY <1>2, LenProperties, PathsAssumption
  <2>2. Len(q) <= MaxDepth
    BY <1>1, <1>3, <2>1
  <2> QED
    BY <1>3, <2>2, PathIsSeq
<1>5. Parent(q) = p
  <2>1. Len(q) - 1 = Len(p) /\ Len(p) \in Nat
    BY <1>2, <1>3
  <2>2. /\ Parent(q) \in Seq(0..MaxOrdinal)
        /\ Len(Parent(q)) = Len(p)
        /\ \A i \in 1..Len(p) : Parent(q)[i] = q[i]
    <3>1. Len(q) - 1 \in 0..Len(q)
      BY <1>3, <2>1
    <3> QED
      BY <1>3, <2>1, <3>1, Prefix DEF Parent
  <2> QED
    BY <1>2, <1>3, <2>2, SeqEqual
<1>6. Ordinal(q) = n
  BY <1>2, <1>3 DEF Ordinal
<1> QED
  BY <1>1, <1>4, <1>5, <1>6

\* The ancestors of a post are ancestors of its parent, or the post itself.
LEMMA PrefixOfParent ==
    ASSUME NEW p \in Path, NEW k \in 1..Len(p)
    PROVE  \/ k = Len(p) /\ SubSeq(p, 1, k) = p
           \/ /\ k \in 1..Len(Parent(p)) /\ Parent(p) # <<>>
              /\ SubSeq(p, 1, k) = SubSeq(Parent(p), 1, k)
<1>1. p \in Seq(0..MaxOrdinal) /\ Len(p) \in Nat
  BY PathIsSeq
<1>2. CASE k = Len(p)
  BY <1>1, <1>2, SubSeqFull
<1>3. CASE k # Len(p)
  <2>1. k \in 1..(Len(p) - 1) /\ p # <<>>
    BY <1>1, <1>3
  <2>2. /\ Parent(p) \in Seq(0..MaxOrdinal)
        /\ Len(Parent(p)) = Len(p) - 1
        /\ \A i \in 1..(Len(p) - 1) : Parent(p)[i] = p[i]
    <3>1. Len(p) - 1 \in 0..Len(p)
      BY <1>1, <2>1
    <3> QED
      BY <1>1, <3>1, Prefix DEF Parent
  <2>3. /\ SubSeq(p, 1, k) \in Seq(0..MaxOrdinal)
        /\ Len(SubSeq(p, 1, k)) = k
        /\ \A i \in 1..k : SubSeq(p, 1, k)[i] = p[i]
    <3>1. k \in 0..Len(p)
      BY <1>1
    <3> QED
      BY <1>1, <3>1, Prefix
  <2>4. /\ SubSeq(Parent(p), 1, k) \in Seq(0..MaxOrdinal)
        /\ Len(SubSeq(Parent(p), 1, k)) = k
        /\ \A i \in 1..k : SubSeq(Parent(p), 1, k)[i] = Parent(p)[i]
    <3>1. k \in 0..Len(Parent(p))
      BY <1>1, <2>1, <2>2
    <3> QED
      BY <2>2, <3>1, Prefix
  <2>5. SubSeq(p, 1, k) = SubSeq(Parent(p), 1, k)
    BY <1>1, <2>1, <2>2, <2>3, <2>4, SeqEqual
  <2>6. k \in 1..Len(Parent(p)) /\ Parent(p) # <<>>
    BY <1>1, <2>1, <2>2
  <2> QED
    BY <2>5, <2>6
<1> QED
  BY <1>2, <1>3

\* A child's path, when it exists, is a path.
LEMMA ChildType == ASSUME NEW p \in Path, NEW n \in Nat PROVE Child(p, n) \in Path
<1>1. CASE Child(p, n) = <<>>
  BY <1>1, NoPath
<1>2. CASE Child(p, n) # <<>>
  BY <1>2, ChildOf
<1> QED
  BY <1>1, <1>2

LEMMA AncestorType ==
    ASSUME NEW p \in Path, NEW d \in Nat, d < Len(p)
    PROVE  /\ AncestorAtDepth(p, d) \in Path
           /\ AncestorAtDepth(p, d) # <<>>
           /\ Len(AncestorAtDepth(p, d)) = d + 1
<1>1. p \in Seq(0..MaxOrdinal) /\ Len(p) \in Nat /\ Len(p) <= MaxDepth
  BY PathIsSeq, LenProperties
<1>2. d + 1 \in 0..Len(p)
  BY <1>1
<1>3. /\ AncestorAtDepth(p, d) \in Seq(0..MaxOrdinal)
      /\ Len(AncestorAtDepth(p, d)) = d + 1
  BY <1>1, <1>2, Prefix DEF AncestorAtDepth
<1>4. Len(AncestorAtDepth(p, d)) <= MaxDepth
  BY <1>1, <1>3, PathsAssumption
<1>5. AncestorAtDepth(p, d) # <<>>
  BY <1>3, EmptySeq
<1> QED
  BY <1>3, <1>4, <1>5, PathIsSeq

LEMMA AllocateType ==
    ASSUME NEW p \in Path, NEW last \in Path,
           last # <<>> => Len(last) > Len(p)
    PROVE  Allocate(p, last) \in Path
<1>1. Len(p) \in Nat
  BY PathIsSeq, LenProperties
<1>2. CASE last = <<>>
  BY <1>2, ChildType DEF Allocate
<1>3. CASE last # <<>>
  <2> DEFINE s == AncestorAtDepth(last, Len(p))
  <2>1. s \in Path /\ s # <<>>
    BY <1>1, <1>3, AncestorType
  <2>2. Parent(s) \in Path /\ Ordinal(s) + 1 \in Nat
    BY <2>1, Rejoin, PathsAssumption
  <2>3. NextSibling(s) \in Path
    BY <2>2, ChildType DEF NextSibling
  <2> QED
    BY <1>3, <2>3 DEF Allocate
<1> QED
  BY <1>2, <1>3

-----------------------------------------------------------------------------
(* Page order.                                                              *)

LEMMA PathFacts ==
    ASSUME NEW p \in Path
    PROVE  /\ p \in Seq(0..MaxOrdinal) /\ Len(p) \in Nat
           /\ \A i \in 1..Len(p) : p[i] \in Nat
BY PathsAssumption DEF Path

LEMMA Irreflexive == ASSUME NEW p \in Path PROVE ~Before(p, p)
BY PathFacts DEF Before

LEMMA Transitive ==
    ASSUME NEW p \in Path, NEW q \in Path, NEW r \in Path,
           Before(p, q), Before(q, r)
    PROVE  Before(p, r)
<1>1. PICK n \in 0..(Len(q) - 1) :
         /\ n <= Len(p)
         /\ \A i \in 1..n : p[i] = q[i]
         /\ n < Len(p) => p[n + 1] < q[n + 1]
  BY DEF Before
<1>2. PICK k \in 0..(Len(r) - 1) :
         /\ k <= Len(q)
         /\ \A i \in 1..k : q[i] = r[i]
         /\ k < Len(q) => q[k + 1] < r[k + 1]
  BY DEF Before
<1>3. CASE n <= k
  <2>1. \A i \in 1..n : p[i] = r[i]
    BY <1>1, <1>2, <1>3, PathFacts
  <2>2. n < Len(p) => p[n + 1] < r[n + 1]
    <3>1. CASE n = k
      BY <3>1, <1>1, <1>2, PathFacts
    <3>2. CASE n < k
      BY <3>2, <1>1, <1>2, PathFacts
    <3> QED
      BY <3>1, <3>2, <1>3
  <2>3. n \in 0..(Len(r) - 1) /\ n <= Len(p)
    BY <1>1, <1>2, <1>3, PathFacts
  <2> QED
    BY <2>1, <2>2, <2>3 DEF Before
<1>4. CASE k < n
  <2>1. \A i \in 1..k : p[i] = r[i]
    BY <1>1, <1>2, <1>4, PathFacts
  <2>2. p[k + 1] < r[k + 1]
    BY <1>1, <1>2, <1>4, PathFacts
  <2>3. k \in 0..(Len(r) - 1) /\ k <= Len(p)
    BY <1>1, <1>2, <1>4, PathFacts
  <2> QED
    BY <2>1, <2>2, <2>3 DEF Before
<1> QED
  BY <1>3, <1>4, PathFacts

\* A set of numbers that has a member has a least one.
LEMMA Least ==
    ASSUME NEW T, T \subseteq Nat, T # {}
    PROVE  \E n \in T : \A k \in T : n <= k
<1>1. PICK n \in T : \A k \in T : ~ (<<k, n>> \in OpToRel(<, Nat))
  BY NatLessThanWellFounded, WFMin
<1>2. \A k \in T : ~(k < n)
  BY <1>1 DEF OpToRel
<1> QED
  BY <1>2

LEMMA Total ==
    ASSUME NEW p \in Path, NEW q \in Path, p # q
    PROVE  Before(p, q) \/ Before(q, p)
<1> DEFINE Apart == {i \in Nat \ {0} : i <= Len(p) /\ i <= Len(q) /\ p[i] # q[i]}
<1>1. CASE Apart = {}
  <2>1. \A i \in Nat \ {0} : i <= Len(p) /\ i <= Len(q) => p[i] = q[i]
    BY <1>1
  <2>2. Len(p) # Len(q)
    BY <2>1, PathFacts, SeqEqual
  <2>3. CASE Len(p) < Len(q)
    <3>1. Len(p) \in 0..(Len(q) - 1) /\ ~(Len(p) < Len(p))
      BY <2>3, PathFacts
    <3>2. \A i \in 1..Len(p) : p[i] = q[i]
      BY <2>1, <2>3, PathFacts
    <3> QED
      BY <3>1, <3>2, PathFacts DEF Before
  <2>4. CASE Len(q) < Len(p)
    <3>1. Len(q) \in 0..(Len(p) - 1) /\ ~(Len(q) < Len(q))
      BY <2>4, PathFacts
    <3>2. \A i \in 1..Len(q) : q[i] = p[i]
      BY <2>1, <2>4, PathFacts
    <3> QED
      BY <3>1, <3>2, PathFacts DEF Before
  <2> QED
    BY <2>2, <2>3, <2>4, PathFacts
<1>2. CASE Apart # {}
  <2>1. PICK n \in Apart : \A k \in Apart : n <= k
    BY <1>2, Least
  <2>2. \A i \in 1..(n - 1) : p[i] = q[i]
    BY <2>1, PathFacts
  <2>3. p[n] < q[n] \/ q[n] < p[n]
    BY <2>1, PathFacts
  <2>4. n - 1 \in 0..(Len(q) - 1) /\ n - 1 \in 0..(Len(p) - 1) /\ (n - 1) + 1 = n
    BY <2>1, PathFacts
  <2>5. \A i \in 1..(n - 1) : q[i] = p[i]
    BY <2>2
  <2>6. n - 1 <= Len(p) /\ n - 1 <= Len(q)
    BY <2>4, PathFacts
  <2>7. CASE p[n] < q[n]
    BY <2>2, <2>4, <2>6, <2>7 DEF Before
  <2>8. CASE q[n] < p[n]
    BY <2>5, <2>4, <2>6, <2>8 DEF Before
  <2> QED
    BY <2>3, <2>7, <2>8
<1> QED
  BY <1>1, <1>2

\* A finite set of posts has a last one in page order.
LEMMA LastOf ==
    ASSUME NEW S \in SUBSET Path, IsFiniteSet(S), S # {}
    PROVE  \E p \in S : \A q \in S \ {p} : Before(q, p)
<1> DEFINE Later(p) == {q \in S : Before(p, q)}
           Laters == {Later(p) : p \in S}
           R == StrictSubsetOrdering(S)
<1>1. Laters \subseteq FiniteSubsetsOf(S) /\ Laters # {}
  <2>1. ASSUME NEW p \in S PROVE Later(p) \in FiniteSubsetsOf(S)
    <3>1. Later(p) \in SUBSET S
      OBVIOUS
    <3> QED
      BY <3>1, FS_Subset DEF FiniteSubsetsOf
  <2> QED
    BY <2>1
<1>2. PICK X \in Laters : \A Y \in Laters : ~(<<Y, X>> \in R)
  BY <1>1, FS_StrictSubsetOrderingWellFounded, WFMin
<1>3. PICK p \in S : X = Later(p)
  BY <1>2
<1>4. ASSUME NEW q \in S, Before(p, q) PROVE FALSE
  <2>1. Later(q) \subseteq Later(p)
    BY <1>4, Transitive
  <2>2. q \in Later(p) /\ q \notin Later(q)
    BY <1>4, Irreflexive
  <2>3. <<Later(q), Later(p)>> \in R
    BY <2>1, <2>2 DEF StrictSubsetOrdering
  <2> QED
    BY <2>3, <1>2, <1>3
<1> QED
  BY <1>4, Total

\* And a first one.
LEMMA FirstOf ==
    ASSUME NEW S \in SUBSET Path, IsFiniteSet(S), S # {}
    PROVE  \E p \in S : \A q \in S \ {p} : Before(p, q)
<1> DEFINE Sooner(p) == {q \in S : Before(q, p)}
           Sooners == {Sooner(p) : p \in S}
           R == StrictSubsetOrdering(S)
<1>1. Sooners \subseteq FiniteSubsetsOf(S) /\ Sooners # {}
  <2>1. ASSUME NEW p \in S PROVE Sooner(p) \in FiniteSubsetsOf(S)
    <3>1. Sooner(p) \in SUBSET S
      OBVIOUS
    <3> QED
      BY <3>1, FS_Subset DEF FiniteSubsetsOf
  <2> QED
    BY <2>1
<1>2. PICK X \in Sooners : \A Y \in Sooners : ~(<<Y, X>> \in R)
  BY <1>1, FS_StrictSubsetOrderingWellFounded, WFMin
<1>3. PICK p \in S : X = Sooner(p)
  BY <1>2
<1>4. ASSUME NEW q \in S, Before(q, p) PROVE FALSE
  <2>1. Sooner(q) \subseteq Sooner(p)
    BY <1>4, Transitive
  <2>2. q \in Sooner(p) /\ q \notin Sooner(q)
    BY <1>4, Irreflexive
  <2>3. <<Sooner(q), Sooner(p)>> \in R
    BY <2>1, <2>2 DEF StrictSubsetOrdering
  <2> QED
    BY <2>3, <1>2, <1>3
<1> QED
  BY <1>4, Total
=============================================================================
