------------------------- MODULE ThreadPages_proofs --------------------------
(* Pages by cursor tile the thread, nothing served is stale unless a space  *)
(* was edited, and permalinks land.                                         *)
EXTENDS ThreadPages, Paths_proofs

-----------------------------------------------------------------------------
(* Pages.                                                                   *)

LEMMA RankType ==
    ASSUME NEW S \in SUBSET Path, IsFiniteSet(S), NEW p
    PROVE  Rank(p, S) \in Nat
BY FS_Subset, FS_CardinalityType DEF Rank

\* Ranks follow page order.
LEMMA RankGrows ==
    ASSUME NEW S \in SUBSET Path, IsFiniteSet(S),
           NEW p \in S, NEW q \in S, Before(p, q)
    PROVE  Rank(p, S) < Rank(q, S)
<1> DEFINE P == {r \in S : Before(r, p)}
           Q == {r \in S : Before(r, q)}
<1>1. P \subseteq Q /\ p \in Q /\ p \notin P
  BY Transitive, Irreflexive
<1>2. IsFiniteSet(P) /\ IsFiniteSet(Q)
  BY FS_Subset
<1>3. Cardinality(P) <= Cardinality(Q) /\ Cardinality(P) # Cardinality(Q)
  BY <1>1, <1>2, FS_Subset
<1>4. Cardinality(P) \in Nat /\ Cardinality(Q) \in Nat
  BY <1>2, FS_CardinalityType
<1> QED
  BY <1>3, <1>4 DEF Rank

\* The first n in page order are no more than n.
LEMMA FirstFew ==
    ASSUME NEW S \in SUBSET Path, IsFiniteSet(S), NEW n \in Nat
    PROVE  Cardinality({p \in S : Rank(p, S) < n}) <= n
<1> DEFINE T == {p \in S : Rank(p, S) < n}
           f == [p \in T |-> Rank(p, S)]
<1>1. f \in [T -> 0..(n - 1)]
  BY RankType
<1>2. ASSUME NEW p \in T, NEW q \in T, f[p] = f[q] PROVE p = q
  <2>1. SUFFICES ASSUME p # q PROVE FALSE
    OBVIOUS
  <2>2. Before(p, q) \/ Before(q, p)
    BY <2>1, Total
  <2>3. Rank(p, S) = Rank(q, S)
    BY <1>2
  <2> QED
    BY <2>2, <2>3, RankGrows, RankType
<1>3. f \in Injection(T, 0..(n - 1))
  BY <1>1, <1>2 DEF Injection, IsInjective
<1>4. IsFiniteSet(0..(n - 1)) /\ Cardinality(0..(n - 1)) = n
  BY FS_Interval
<1> QED
  BY <1>3, <1>4, FS_Injection

-----------------------------------------------------------------------------
(* The inductive invariant.                                                 *)

\* What is on a page comes after the cursor, up to the next cursor.
Proper(page, after) ==
    /\ \A p \in page.posts : Before(after, p)
    /\ page.next # <<>> => /\ page.next \in page.posts
                           /\ \A p \in page.posts : ~Before(page.next, p)

\* A page that another one follows is full, and shows what is there.
Filled(page, posts) ==
    /\ page.posts \subseteq posts
    /\ page.next # <<>> => Cardinality(page.posts) >= PageSize

\* All of posts that belongs on the page is on it.
Covers(page, after, posts) ==
    \A p \in posts :
        Before(after, p) /\ (page.next # <<>> => ~Before(page.next, p)) => p \in page.posts

\* An entry, in the cache or on its way there, while the version is now and
\* the tree posts: its page is no older than its key, and as long as the key is
\* current it has all of the posts.
Sound(e, now, posts) ==
    /\ e \in Entry
    /\ e.key.version <= now
    /\ e.key.version <= e.page.at.thread
    /\ Proper(e.page, e.key.after)
    /\ e.key.version = now => Covers(e.page, e.key.after, posts)

\* A visit that has read the entry's version finds on its page what it must.
Suits(e, f) == f.version = e.key.version => Covers(e.page, e.key.after, f.start)

EntryOf(f) == [key |-> [version |-> f.version, after |-> f.after], page |-> f.page]

\* What is shown is what was there between the first cursor and this one, and
\* none of it comes after this one.
Tidy(f, posts) ==
    /\ f.start \subseteq posts
    /\ \A p \in f.shown : p \in Path /\ ~Before(f.after, p)
    /\ \A p \in f.start : Before(f.from, p) /\ ~Before(f.after, p) => p \in f.shown

\* A visit has the version of the moment that its answer is measured against.
Timed(f, now) ==
    /\ f.version <= now
    /\ f.step \in {"cache", "put"} => f.version # NoVersion
    /\ f.step \notin {"cache", "fetch", "put"} => f.version = NoVersion
    /\ f.floor.thread <= now
    /\ f.version # NoVersion => f.floor.thread <= f.version

Kept(f, now, posts) ==
    /\ f.step \in {"idle", "rank", "offset"} =>
         f.after = <<>> /\ f.from = <<>> /\ f.shown = {}
    /\ f.step = "put" => Sound(EntryOf(f), now, posts)
    /\ f.step = "served" => /\ Proper(f.page, f.after)
                            /\ Covers(f.page, f.after, f.start)
                            /\ f.floor.thread <= f.page.at.thread

Good(f, now, posts) ==
    f \in Reader /\ Tidy(f, posts) /\ Timed(f, now) /\ Kept(f, now, posts)

Putting == {q \in Readers : reader[q].step = "put"}

Whole ==
    /\ IsFiniteSet(tree) /\ <<>> \notin tree
    /\ content = version
    /\ \A i \in 1..Len(cache) : Sound(cache[i], version, tree)
    /\ \A r \in Readers : Good(reader[r], version, tree)
    /\ \A i \in 1..Len(cache), r \in Readers : Suits(cache[i], reader[r])
    /\ \A q \in Putting, r \in Readers : Suits(EntryOf(reader[q]), reader[r])

-----------------------------------------------------------------------------
(* What a page query returns.                                               *)

LEMMA PageIs ==
    ASSUME tree \in SUBSET Path, IsFiniteSet(tree), <<>> \notin tree,
           Now \in Moment, NEW cursor \in Path
    PROVE  /\ PageAfter(cursor) \in Page
           /\ PageAfter(cursor).at = Now
           /\ Proper(PageAfter(cursor), cursor)
           /\ Covers(PageAfter(cursor), cursor, tree)
           /\ Filled(PageAfter(cursor), tree)
<1> DEFINE rest == After(cursor)
           fetched == {p \in rest : Rank(p, rest) < PageSize + 1}
           kept == {p \in fetched : Rank(p, rest) < PageSize}
           next == NextCursor(kept, fetched)
           page == [posts |-> kept, next |-> next, at |-> Now]
<1>0. PageAfter(cursor) = page
  BY DEF PageAfter
<1>1. rest \in SUBSET Path /\ IsFiniteSet(rest) /\ rest \subseteq tree
  BY FS_Subset DEF After
<1>2. kept \in SUBSET rest /\ fetched \in SUBSET rest /\ IsFiniteSet(kept)
  BY <1>1, FS_Subset
<1>3. \A p \in rest : Rank(p, rest) \in Nat
  BY <1>1, RankType
<1>4. kept = {p \in rest : Rank(p, rest) < PageSize}
  BY <1>3, ThreadPagesAssumption
<1>5. ASSUME NEW p \in rest, NEW q \in kept, Before(p, q) PROVE p \in kept
  BY <1>1, <1>2, <1>3, <1>4, <1>5, RankGrows, ThreadPagesAssumption
<1>6. CASE kept = rest
  <2>1. kept = fetched /\ next = <<>>
    BY <1>2, <1>6 DEF NextCursor
  <2>2. next \in Path
    BY <2>1, PathsAssumption DEF Path
  <2> QED
    BY <1>0, <1>1, <1>2, <1>6, <2>1, <2>2 DEF Page, Proper, Covers, Filled, After
<1>7. CASE kept # rest
  <2>1. PICK m \in rest \ kept : \A q \in (rest \ kept) \ {m} : Before(m, q)
    <3>1. rest \ kept \in SUBSET Path /\ rest \ kept # {} /\ IsFiniteSet(rest \ kept)
      BY <1>1, <1>2, <1>7, FS_Difference
    <3> QED
      BY <3>1, FirstOf
  <2>2. m \in fetched /\ Cardinality(kept) >= PageSize
    <3>1. {q \in rest : Before(q, m)} \in SUBSET kept
      BY <2>1, <1>1, Transitive, Irreflexive
    <3>2. Rank(m, rest) <= Cardinality(kept)
      BY <3>1, <1>2, FS_Subset DEF Rank
    <3>3. Cardinality(kept) <= PageSize
      BY <1>1, <1>4, FirstFew, ThreadPagesAssumption
    <3>4. Cardinality(kept) \in Nat /\ Rank(m, rest) \in Nat
      BY <1>2, <1>3, <2>1, FS_CardinalityType
    <3>5. ~(Rank(m, rest) < PageSize)
      BY <2>1, <1>4
    <3> HIDE DEF kept, rest
    <3>6. Cardinality(kept) >= PageSize
      BY <3>2, <3>4, <3>5, ThreadPagesAssumption
    <3>7. Rank(m, rest) < PageSize + 1
      BY <3>2, <3>3, <3>4, ThreadPagesAssumption
    <3> USE DEF kept, rest
    <3> QED
      BY <2>1, <3>6, <3>7
  <2>3. kept # {}
    <3>1. PICK p \in rest : \A q \in rest \ {p} : Before(p, q)
      BY <2>1, <1>1, FirstOf
    <3>2. {q \in rest : Before(q, p)} = {}
      BY <3>1, <1>1, Transitive, Irreflexive
    <3>3. Rank(p, rest) = 0
      BY <3>2, FS_EmptySet DEF Rank
    <3> QED
      BY <3>1, <3>3, <1>4, ThreadPagesAssumption
  <2>4. kept # fetched
    BY <2>1, <2>2
  <2>5. next = CHOOSE p \in kept : \A q \in kept \ {p} : Before(q, p)
    BY <2>4 DEF NextCursor
  <2>6. \E p \in kept : \A q \in kept \ {p} : Before(q, p)
    BY <2>3, <1>1, <1>2, LastOf
  <2>7. next \in kept /\ \A q \in kept \ {next} : Before(q, next)
    BY <2>5, <2>6
  <2> HIDE DEF next
  <2>8. next \in Path /\ next # <<>>
    BY <2>7, <1>1, <1>2
  <2>9. Proper(page, cursor)
    BY <2>7, <1>1, <1>2, Transitive, Irreflexive DEF Proper, After
  <2>10. ASSUME NEW p \in tree, Before(cursor, p), ~Before(next, p) PROVE p \in kept
    <3>1. p \in rest
      BY <2>10 DEF After
    <3>2. p = next \/ Before(p, next)
      BY <2>10, <2>8, <1>1, <3>1, Total
    <3> QED
      BY <3>1, <3>2, <2>7, <1>5
  <2>11. Covers(page, cursor, tree)
    BY <2>8, <2>10 DEF Covers
  <2>12. Filled(page, tree)
    BY <1>1, <1>2, <2>2 DEF Filled
  <2> QED
    BY <1>0, <1>1, <1>2, <2>8, <2>9, <2>11, <2>12 DEF Page
<1> QED
  BY <1>6, <1>7

-----------------------------------------------------------------------------
(* Writes.                                                                  *)

LEMMA NoReaderIs == NoReader \in Reader /\ NoReader.page \in Page
<1>1. Beginning \in Moment
  BY DEF Beginning, Moment
<1>2. NoPage \in Page
  BY <1>1, NoPath DEF NoPage, Page
<1> QED
  BY <1>1, <1>2, NoPath DEF NoReader, Reader, Step

LEMMA InitWhole == Init => TypeOK /\ Whole
<1> SUFFICES ASSUME Init PROVE TypeOK /\ Whole
  OBVIOUS
<1>1. reader \in [Readers -> Reader]
  BY NoReaderIs DEF Init
<1>2. cache \in Seq(Entry) /\ Len(cache) = 0
  BY DEF Init
<1>3. TypeOK
  <2>1. tree \in SUBSET Path /\ hidden \in BOOLEAN
    BY DEF Init
  <2>2. version \in Nat /\ content \in 0..MaxWrites /\ spaceEdits \in 0..MaxSpaceEdits
    BY ThreadPagesAssumption DEF Init
  <2>3. Len(cache) <= CacheEntries
    BY <1>2, ThreadPagesAssumption
  <2> QED
    BY <1>1, <1>2, <2>1, <2>2, <2>3 DEF TypeOK
<1>4. Good(NoReader, 0, {})
  BY NoReaderIs DEF Good, Tidy, Timed, Kept, NoReader, NoVersion, Beginning
<1>5. IsFiniteSet(tree)
  BY FS_EmptySet DEF Init
<1>6. Putting = {}
  BY DEF Init, Putting, NoReader
<1> QED
  BY <1>2, <1>3, <1>4, <1>5, <1>6 DEF Init, Whole

\* A write to the thread puts every version read so far in the past.
LEMMA WriteKeeps ==
    ASSUME TypeOK, Whole, UNCHANGED <<cache, reader, spaceEdits>>,
           Write, Bump, hidden' \in BOOLEAN,
           tree \subseteq tree', tree' \in SUBSET Path,
           IsFiniteSet(tree'), <<>> \notin tree'
    PROVE  TypeOK' /\ Whole'
<1>1. version \in Nat /\ content \in Nat /\ spaceEdits \in Nat
  BY DEF TypeOK
<1>2. /\ version' = version + 1 /\ content' = content + 1
      /\ content' \in 0..MaxWrites
  BY <1>1, ThreadPagesAssumption DEF Write, MayWrite, Bump
<1>3. TypeOK'
  BY <1>1, <1>2 DEF TypeOK
<1>4. ASSUME NEW e, Sound(e, version, tree) PROVE Sound(e, version', tree')
  BY <1>1, <1>2, <1>4 DEF Sound, Entry, Key
<1>5. ASSUME NEW f, Good(f, version, tree) PROVE Good(f, version', tree')
  <2>1. Tidy(f, tree')
    BY <1>5 DEF Good, Tidy
  <2>2. /\ f.version \in Nat \cup {NoVersion} /\ f.floor.thread \in Nat
        /\ NoVersion \in Int
    BY <1>5 DEF Good, Reader, Moment, NoVersion
  <2>3. Timed(f, version')
    BY <1>1, <1>2, <1>5, <2>2 DEF Good, Timed
  <2>4. Kept(f, version', tree')
    BY <1>4, <1>5 DEF Good, Kept
  <2> QED
    BY <1>5, <2>1, <2>3, <2>4 DEF Good
<1>6. content' = version'
  BY <1>2 DEF Whole
<1>7. \A i \in 1..Len(cache') : Sound(cache'[i], version', tree')
  BY <1>4 DEF Whole
<1>8. \A r \in Readers : Good(reader'[r], version', tree')
  BY <1>5 DEF Whole
<1> QED
  BY <1>3, <1>6, <1>7, <1>8 DEF Whole, Putting

LEMMA AddPostKeeps ==
    ASSUME TypeOK, Whole, NEW parent \in tree \cup {<<>>}, AddPost(parent)
    PROVE  TypeOK' /\ Whole'
<1> DEFINE n == Cardinality(Children(parent))
           p == Child(parent, n)
<1>1. n \in Nat
  BY FS_Subset, FS_CardinalityType DEF Children, Whole
<1>2. p # <<>> /\ tree' = tree \cup {p}
  BY DEF AddPost
<1>3. p \in Path
  <2>1. parent \in Path
    BY NoPath DEF TypeOK
  <2> QED
    BY <1>1, <1>2, <2>1, PathFacts, PathsAssumption, AppendProperties DEF Child, Path
<1>4. tree' \in SUBSET Path /\ IsFiniteSet(tree') /\ <<>> \notin tree'
  BY <1>2, <1>3, FS_AddElement DEF TypeOK, Whole
<1> QED
  BY <1>2, <1>4, WriteKeeps DEF AddPost, TypeOK

LEMMA WritingKeeps ==
    ASSUME TypeOK, Whole, Writing PROVE TypeOK' /\ Whole'
<1>1. CASE ChangePost
  BY <1>1, WriteKeeps DEF ChangePost, TypeOK, Whole
<1>2. CASE ChangeThread
  BY <1>2, WriteKeeps DEF ChangeThread, TypeOK, Whole
<1>3. CASE ChangeSpace
  <2>1. spaceEdits' \in 0..MaxSpaceEdits
    BY <1>3, ThreadPagesAssumption DEF ChangeSpace, TypeOK
  <2> QED
    BY <1>3, <2>1 DEF ChangeSpace, TypeOK, Whole, Putting
<1> QED
  BY <1>1, <1>2, <1>3, AddPostKeeps DEF Writing

-----------------------------------------------------------------------------
(* Reads.                                                                   *)

\* What is in the cache or on its way there.
Known(e) == \/ \E i \in 1..Len(cache) : e = cache[i]
            \/ \E q \in Putting : e = EntryOf(reader[q])

LEMMA KnownSound ==
    ASSUME Whole, NEW e, Known(e)
    PROVE  /\ Sound(e, version, tree) /\ e.key.version \in Nat
           /\ \A r \in Readers : Suits(e, reader[r])
<1>1. Sound(e, version, tree)
  BY DEF Known, Whole, Good, Kept, Putting
<1> QED
  BY <1>1 DEF Known, Whole, Sound, Entry, Key

\* One visit moves on: what has to be shown of its new record f, and of what
\* the cache holds now.
LEMMA ReadKeeps ==
    ASSUME TypeOK, Whole, UNCHANGED thread,
           NEW r \in Readers, NEW f, reader' = [reader EXCEPT ![r] = f],
           Good(f, version, tree),
           cache' \in Seq(Entry), Len(cache') <= CacheEntries,
           \A i \in 1..Len(cache') : Known(cache'[i]),
           \A e : Known(e) => Suits(e, f),
           f.step = "put" => /\ Suits(EntryOf(f), f)
                             /\ \A g \in Readers : Suits(EntryOf(f), reader[g])
    PROVE  TypeOK' /\ Whole'
<1> USE DEF thread
<1>1. reader'[r] = f /\ \A g \in Readers \ {r} : reader'[g] = reader[g]
  BY DEF TypeOK
<1>2. TypeOK'
  BY DEF TypeOK, Good
<1>3. \A i \in 1..Len(cache') : Sound(cache'[i], version', tree')
  BY KnownSound
<1>4. \A g \in Readers : Good(reader'[g], version', tree')
  BY <1>1 DEF Whole
<1>5. ASSUME NEW e, Known(e), NEW g \in Readers PROVE Suits(e, reader'[g])
  BY <1>1, <1>5, KnownSound
<1>6. ASSUME NEW q \in Putting', NEW g \in Readers
      PROVE  Suits(EntryOf(reader'[q]), reader'[g])
  <2>1. CASE q = r
    BY <1>1, <1>6, <2>1 DEF Putting
  <2>2. CASE q # r
    BY <1>1, <1>5, <1>6, <2>2 DEF Putting, Known
  <2> QED
    BY <2>1, <2>2
<1>7. IsFiniteSet(tree') /\ <<>> \notin tree' /\ content' = version'
  BY DEF Whole
<1> QED
  BY <1>2, <1>3, <1>4, <1>5, <1>6, <1>7 DEF Whole

\* As long as a visit has no version, everything suits it.
LEMMA AllSuits ==
    ASSUME Whole, NEW f, f.version = NoVersion
    PROVE  \A e : Known(e) => Suits(e, f)
BY KnownSound DEF Suits, NoVersion

LEMMA CacheKnown ==
    ASSUME TypeOK, UNCHANGED cache
    PROVE  /\ cache' \in Seq(Entry) /\ Len(cache') <= CacheEntries
           /\ \A i \in 1..Len(cache') : Known(cache'[i])
BY DEF TypeOK, Known

LEMMA ReaderIs ==
    ASSUME TypeOK, Whole, NEW r \in Readers
    PROVE  /\ reader[r] \in Reader /\ reader[r].page \in Page
           /\ Good(reader[r], version, tree)
BY DEF TypeOK, Whole, Reader

\* A visit that has no version and neither serves nor stores.
LEMMA StillGood ==
    ASSUME TypeOK, Whole, UNCHANGED <<thread, cache>>,
           NEW r \in Readers, NEW f \in Reader, reader' = [reader EXCEPT ![r] = f],
           f.version = NoVersion,
           f.step \in {"idle", "rank", "offset", "version", "gone"},
           f.floor.thread <= version, Tidy(f, tree),
           f.step \in {"idle", "rank", "offset"} =>
               f.after = <<>> /\ f.from = <<>> /\ f.shown = {}
    PROVE  TypeOK' /\ Whole'
<1>1. NoVersion <= version
  BY DEF NoVersion, TypeOK
<1>2. Good(f, version, tree)
  BY <1>1 DEF Good, Timed, Kept
<1> QED
  BY <1>2, AllSuits, CacheKnown, ReadKeeps

LEMMA LocateKeeps ==
    ASSUME TypeOK, Whole, NEW r \in Readers, NEW p \in tree, Locate(r, p)
    PROVE  TypeOK' /\ Whole'
<1> DEFINE f == [NoReader EXCEPT !.step = "rank", !.target = p, !.start = tree]
<1>1. /\ f \in Reader /\ f.step = "rank" /\ f.version = NoVersion
      /\ f.floor.thread = 0 /\ f.start = tree
      /\ f.after = <<>> /\ f.from = <<>> /\ f.shown = {}
  BY NoReaderIs DEF TypeOK, NoReader, Reader, Step, Beginning
<1>2. reader' = [reader EXCEPT ![r] = f]
  BY DEF Locate
<1> HIDE DEF f
<1>3. Tidy(f, tree) /\ f.floor.thread <= version
  BY <1>1 DEF Tidy, TypeOK
<1> QED
  BY <1>1, <1>2, <1>3, StillGood DEF Locate

LEMMA CountBeforeKeeps ==
    ASSUME TypeOK, Whole, NEW r \in Readers, CountBefore(r)
    PROVE  TypeOK' /\ Whole'
<1> DEFINE rank == Rank(reader[r].target, tree)
           f == [reader[r] EXCEPT !.rank = IF PageOfRank(rank) = 0 THEN 0 ELSE rank,
                   !.step = IF PageOfRank(rank) = 0 THEN "version" ELSE "offset"]
<1>1. rank \in Nat
  BY RankType DEF TypeOK, Whole
<1>2. reader' = [reader EXCEPT ![r] = f]
  BY Zenon DEF CountBefore
<1> HIDE DEF rank
<1>3. /\ f \in Reader /\ f.step \in {"version", "offset"}
      /\ f.version = reader[r].version /\ f.floor = reader[r].floor
      /\ f.start = reader[r].start /\ f.after = reader[r].after
      /\ f.from = reader[r].from /\ f.shown = reader[r].shown
  BY <1>1, ReaderIs DEF Reader, Step
<1> HIDE DEF f
<1>4. Good(reader[r], version, tree) /\ reader[r].step = "rank"
  BY ReaderIs DEF CountBefore
<1>5. Tidy(f, tree) /\ f.floor.thread <= version
  BY <1>3, <1>4 DEF Good, Tidy, Timed
<1> QED
  BY <1>2, <1>3, <1>4, <1>5, StillGood DEF CountBefore, Good, Timed, Kept

LEMMA FindCursorKeeps ==
    ASSUME TypeOK, Whole, NEW r \in Readers, FindCursor(r)
    PROVE  TypeOK' /\ Whole'
<1>1. PICK p \in tree :
         reader' = [reader EXCEPT ![r].after = p, ![r].from = p,
                                  ![r].rank = 0, ![r].step = "version"]
  BY DEF FindCursor
<1> DEFINE f == [reader[r] EXCEPT !.after = p, !.from = p, !.rank = 0, !.step = "version"]
<1>2. reader' = [reader EXCEPT ![r] = f]
  BY <1>1, Zenon
<1>3. /\ f \in Reader /\ f.step = "version"
      /\ f.version = reader[r].version /\ f.floor = reader[r].floor
      /\ f.start = reader[r].start /\ f.after = p
      /\ f.from = p /\ f.shown = reader[r].shown
  BY ReaderIs DEF Reader, Step, TypeOK
<1> HIDE DEF f
<1>4. Good(reader[r], version, tree) /\ reader[r].step = "offset"
  BY ReaderIs DEF FindCursor
<1>5. Tidy(f, tree) /\ f.floor.thread <= version
  BY <1>3, <1>4 DEF Good, Tidy, Timed, Kept
<1> QED
  BY <1>2, <1>3, <1>4, <1>5, StillGood DEF FindCursor, Good, Timed

LEMMA NextPageKeeps ==
    ASSUME TypeOK, Whole, NEW r \in Readers, NextPage(r)
    PROVE  TypeOK' /\ Whole'
<1> DEFINE g == reader[r]
           f == [reader[r] EXCEPT !.after = reader[r].page.next,
                   !.shown = reader[r].shown \cup reader[r].page.posts,
                   !.page = NoPage, !.floor = Beginning, !.step = "version"]
<1>1. reader' = [reader EXCEPT ![r] = f]
  BY Zenon DEF NextPage
<1>2. /\ g \in Reader /\ g.page \in Page /\ Good(g, version, tree)
      /\ g.step = "served" /\ g.page.next # <<>>
  BY ReaderIs DEF NextPage
<1>3. g.page.next \in Path /\ g.page.posts \in SUBSET Path
      /\ g.after \in Path /\ g.shown \in SUBSET Path /\ g.start \in SUBSET Path
      /\ NoPage \in Page /\ Beginning \in Moment
  BY <1>2, NoReaderIs DEF Page, Reader, NoReader, Beginning, Moment
<1>4. /\ f \in Reader /\ f.step = "version" /\ f.version = g.version
      /\ f.floor = Beginning /\ f.start = g.start /\ f.after = g.page.next
      /\ f.from = g.from /\ f.shown = g.shown \cup g.page.posts
  BY <1>2, <1>3 DEF Reader, Step
<1> HIDE DEF f
<1>5. Before(g.after, g.page.next)
  BY <1>2 DEF Good, Kept, Proper
<1>6. ASSUME NEW p \in f.shown PROVE p \in Path /\ ~Before(f.after, p)
  <2>1. CASE p \in g.page.posts
    BY <1>2, <1>3, <1>4, <2>1 DEF Good, Kept, Proper
  <2>2. CASE p \in g.shown
    BY <1>2, <1>3, <1>4, <1>5, <2>2, Transitive DEF Good, Tidy
  <2> QED
    BY <1>4, <1>6, <2>1, <2>2
<1>7. ASSUME NEW p \in f.start, Before(f.from, p), ~Before(f.after, p)
      PROVE  p \in f.shown
  <2>1. CASE Before(g.after, p)
    BY <1>2, <1>4, <1>7, <2>1 DEF Good, Kept, Covers
  <2>2. CASE ~Before(g.after, p)
    BY <1>2, <1>4, <1>7, <2>2 DEF Good, Tidy
  <2> QED
    BY <2>1, <2>2
<1>8. Tidy(f, tree)
  BY <1>2, <1>4, <1>6, <1>7 DEF Good, Tidy
<1>9. f.version = NoVersion /\ f.floor.thread <= version
  BY <1>2, <1>4 DEF Good, Timed, Beginning, TypeOK
<1> QED
  BY <1>1, <1>4, <1>8, <1>9, StillGood DEF NextPage

LEMMA ReadVersionKeeps ==
    ASSUME TypeOK, Whole, NEW r \in Readers, ReadVersion(r)
    PROVE  TypeOK' /\ Whole'
<1> DEFINE g == reader[r]
<1>1. PICK v \in {version, NoVersion} :
         reader' = [reader EXCEPT ![r].version = v, ![r].floor = Now,
                                  ![r].start = IF reader[r].step = "idle" THEN tree ELSE @,
                                  ![r].step = IF v = NoVersion THEN "fetch" ELSE "cache"]
  BY DEF ReadVersion
<1> DEFINE start == IF g.step = "idle" THEN tree ELSE g.start
           step == IF v = NoVersion THEN "fetch" ELSE "cache"
           f == [reader[r] EXCEPT !.version = v, !.floor = Now, !.start = start, !.step = step]
<1>2. reader' = [reader EXCEPT ![r] = f]
  BY <1>1, Zenon
<1>3. /\ g \in Reader /\ Good(g, version, tree)
      /\ g.step \in {"idle", "version"}
  BY ReaderIs DEF ReadVersion
<1>4. /\ v \in Nat \cup {NoVersion} /\ v <= version /\ version \in Nat
      /\ Now \in Moment /\ Now.thread = version
      /\ start \in SUBSET Path /\ start \subseteq tree
  BY <1>3 DEF NoVersion, TypeOK, Whole, Now, Moment, Good, Tidy
<1> HIDE DEF start
<1>5. /\ f \in Reader /\ f.step = step /\ f.version = v /\ f.floor = Now
      /\ f.start = start /\ f.after = g.after /\ f.from = g.from /\ f.shown = g.shown
  BY <1>3, <1>4 DEF Reader, Step
<1> HIDE DEF f
<1>6. Tidy(f, tree)
  <2>1. CASE g.step = "idle"
    BY <1>3, <1>4, <1>5, <2>1 DEF Good, Kept, Tidy
  <2>2. CASE g.step # "idle"
    BY <1>3, <1>4, <1>5, <2>2 DEF Good, Tidy, start
  <2> QED
    BY <2>1, <2>2
<1>7. Good(f, version, tree)
  BY <1>1, <1>4, <1>5, <1>6 DEF Good, Timed, Kept
<1>8. ASSUME NEW e, Known(e) PROVE Suits(e, f)
  <2>1. CASE f.version = NoVersion
    BY <1>8, <2>1, KnownSound DEF Suits, NoVersion
  <2>2. CASE f.version = version
    BY <1>4, <1>5, <1>8, <2>2, KnownSound DEF Suits, Sound, Covers
  <2> QED
    BY <1>1, <1>5, <2>1, <2>2
<1>9. f.step # "put"
  BY <1>5
<1> QED
  BY <1>2, <1>7, <1>8, <1>9, CacheKnown, ReadKeeps DEF ReadVersion

\* Serving a page that has what the visit must see, and is new enough.
LEMMA ServeKeeps ==
    ASSUME TypeOK, Whole, UNCHANGED thread, NEW r \in Readers, NEW page \in Page,
           Serve(r, page),
           Proper(page, reader[r].after), Covers(page, reader[r].after, reader[r].start),
           reader[r].floor.thread <= page.at.thread,
           reader[r].step \in {"cache", "fetch", "put"},
           cache' \in Seq(Entry), Len(cache') <= CacheEntries,
           \A i \in 1..Len(cache') : Known(cache'[i])
    PROVE  TypeOK' /\ Whole'
<1> DEFINE g == reader[r]
           f == [reader[r] EXCEPT !.page = page, !.version = NoVersion, !.step = "served"]
<1>1. reader' = [reader EXCEPT ![r] = f]
  BY Zenon DEF Serve
<1>2. g \in Reader /\ Good(g, version, tree)
  BY ReaderIs
<1>3. /\ f \in Reader /\ f.step = "served" /\ f.version = NoVersion /\ f.page = page
      /\ f.floor = g.floor /\ f.start = g.start /\ f.after = g.after
      /\ f.from = g.from /\ f.shown = g.shown
  BY <1>2 DEF Reader, Step
<1> HIDE DEF f
<1>4. NoVersion <= version
  BY DEF NoVersion, TypeOK
<1>5. Good(f, version, tree)
  BY <1>2, <1>3, <1>4 DEF Good, Tidy, Timed, Kept
<1>6. \A e : Known(e) => Suits(e, f)
  BY <1>3, AllSuits
<1> QED
  BY <1>1, <1>3, <1>5, <1>6, ReadKeeps

LEMMA HitKeeps ==
    ASSUME TypeOK, Whole, NEW r \in Readers, Hit(r)
    PROVE  TypeOK' /\ Whole'
<1>1. PICK i \in Indices(KeyOf(r)) : Serve(r, cache[i].page)
  BY DEF Hit
<1> DEFINE e == cache[i]
           g == reader[r]
<1>2. Known(e) /\ e.key.version = g.version /\ e.key.after = g.after
  BY <1>1 DEF Indices, Known, KeyOf
<1>3. Sound(e, version, tree) /\ Suits(e, g) /\ e.key.version \in Nat
  BY <1>2, KnownSound
<1>4. g \in Reader /\ Good(g, version, tree) /\ g.step = "cache"
  BY ReaderIs DEF Hit
<1>5. e.page \in Page /\ Proper(e.page, g.after) /\ Covers(e.page, g.after, g.start)
  BY <1>2, <1>3 DEF Sound, Suits, Entry
<1>6. g.floor.thread <= e.page.at.thread
  <2>1. g.floor.thread \in Nat /\ e.page.at.thread \in Nat
    BY <1>4, <1>5 DEF Reader, Page, Moment
  <2> QED
    BY <1>2, <1>3, <1>4, <2>1 DEF Good, Timed, Sound, NoVersion
<1> HIDE DEF e
<1> QED
  BY <1>1, <1>4, <1>5, <1>6, CacheKnown, ServeKeeps DEF Hit, e

LEMMA MissKeeps ==
    ASSUME TypeOK, Whole, NEW r \in Readers, Miss(r)
    PROVE  TypeOK' /\ Whole'
<1> DEFINE g == reader[r]
           f == [reader[r] EXCEPT !.step = "fetch"]
<1>1. reader' = [reader EXCEPT ![r] = f]
  BY Zenon DEF Miss
<1>2. g \in Reader /\ Good(g, version, tree) /\ g.step = "cache"
  BY ReaderIs DEF Miss
<1>3. /\ f \in Reader /\ f.step = "fetch" /\ f.version = g.version
      /\ f.floor = g.floor /\ f.start = g.start /\ f.after = g.after
      /\ f.from = g.from /\ f.shown = g.shown
  BY <1>2 DEF Reader, Step
<1> HIDE DEF f
<1>4. Good(f, version, tree)
  BY <1>2, <1>3 DEF Good, Tidy, Timed, Kept
<1>5. \A e : Known(e) => Suits(e, f)
  BY <1>3, KnownSound DEF Suits
<1> QED
  BY <1>1, <1>3, <1>4, <1>5, CacheKnown, ReadKeeps DEF Miss

LEMMA FetchKeeps ==
    ASSUME TypeOK, Whole, NEW r \in Readers, Fetch(r)
    PROVE  TypeOK' /\ Whole'
<1> DEFINE g == reader[r]
           page == PageAfter(g.after)
<1>1. g \in Reader /\ Good(g, version, tree) /\ g.step = "fetch"
  BY ReaderIs DEF Fetch
<1>2. /\ page \in Page /\ page.at = Now
      /\ Proper(page, g.after) /\ Covers(page, g.after, tree)
  BY <1>1, PageIs DEF TypeOK, Whole, Reader, Now, Moment
<1>3. page.at.thread = version
  BY <1>2 DEF Now, Whole
<1> HIDE DEF page
<1>4. \A q \in Readers : Covers(page, g.after, reader[q].start)
  BY <1>2 DEF Covers, Whole, Good, Tidy
<1>5. CASE hidden
  <2> DEFINE f == [NoReader EXCEPT !.step = "gone"]
  <2>1. /\ f \in Reader /\ f.step = "gone" /\ f.version = NoVersion
        /\ f.floor.thread = 0 /\ f.start = {} /\ f.shown = {}
    BY NoReaderIs DEF NoReader, Reader, Step, Beginning
  <2>2. reader' = [reader EXCEPT ![r] = f]
    BY <1>5 DEF Fetch
  <2> HIDE DEF f
  <2>3. Tidy(f, tree) /\ f.floor.thread <= version
    BY <2>1 DEF Tidy, TypeOK
  <2> QED
    BY <2>1, <2>2, <2>3, StillGood DEF Fetch
<1>6. CASE ~hidden /\ g.version = NoVersion
  <2>1. Serve(r, page)
    BY <1>6 DEF Fetch, page
  <2>2. g.floor.thread <= page.at.thread
    BY <1>1, <1>3 DEF Good, Timed
  <2> QED
    BY <1>1, <1>2, <1>4, <2>1, <2>2, CacheKnown, ServeKeeps DEF Fetch
<1>7. CASE ~hidden /\ g.version # NoVersion
  <2> DEFINE f == [reader[r] EXCEPT !.page = page, !.step = "put"]
  <2>1. reader' = [reader EXCEPT ![r] = f]
    BY <1>7, Zenon DEF Fetch, page
  <2>2. /\ f \in Reader /\ f.step = "put" /\ f.version = g.version /\ f.page = page
        /\ f.floor = g.floor /\ f.start = g.start /\ f.after = g.after
        /\ f.from = g.from /\ f.shown = g.shown
    BY <1>1, <1>2 DEF Reader, Step
  <2> HIDE DEF f
  <2>3. g.version \in Nat /\ g.version <= version /\ g.after \in Path
    BY <1>1, <1>7 DEF Reader, Good, Timed
  <2> DEFINE e == EntryOf(f)
  <2>4. /\ e \in Entry /\ e.page = page
        /\ e.key.version = g.version /\ e.key.after = g.after
    BY <1>2, <2>2, <2>3 DEF EntryOf, Entry, Key
  <2> HIDE DEF e
  <2>5. Sound(e, version, tree)
    BY <1>2, <1>3, <2>3, <2>4 DEF Sound
  <2>6. Good(f, version, tree)
    BY <1>1, <1>7, <2>2, <2>5 DEF Good, Tidy, Timed, Kept, e
  <2>7. \A x : Known(x) => Suits(x, f)
    BY <2>2, KnownSound DEF Suits
  <2>8. Suits(e, f) /\ \A q \in Readers : Suits(e, reader[q])
    BY <1>4, <2>2, <2>4 DEF Suits
  <2> QED
    BY <2>1, <2>6, <2>7, <2>8, CacheKnown, ReadKeeps DEF Fetch, e
<1> QED
  BY <1>5, <1>6, <1>7

\* What the cache holds after a put was in it before, or is what was put.
LEMMA PutKnown ==
    ASSUME TypeOK, NEW e \in Entry, Known(e), CachePut(e.key, e.page)
    PROVE  /\ cache' \in Seq(Entry) /\ Len(cache') <= CacheEntries
           /\ \A i \in 1..Len(cache') : Known(cache'[i])
<1>1. [key |-> e.key, page |-> e.page] = e
  BY DEF Entry
<1>2. \A i \in 1..Len(cache) : cache[i] \in Entry /\ Known(cache[i])
  BY DEF TypeOK, Known
<1>3. CASE Indices(e.key) # {}
  <2>1. cache' = [i \in 1..Len(cache) |-> IF i \in Indices(e.key) THEN e ELSE cache[i]]
    BY <1>1, <1>3 DEF CachePut
  <2>2. Len(cache) \in Nat
    BY DEF TypeOK
  <2>3. cache' \in Seq(Entry) /\ Len(cache') = Len(cache)
    BY <1>2, <2>1, <2>2
  <2> QED
    BY <1>2, <2>1, <2>3 DEF TypeOK
<1>4. CASE Indices(e.key) = {}
  <2> DEFINE s == Append(cache, e)
  <2>1. cache' = Trim(s)
    BY <1>1, <1>4 DEF CachePut
  <2>2. /\ s \in Seq(Entry) /\ Len(s) \in Nat
        /\ \A i \in 1..Len(s) : s[i] \in Entry /\ Known(s[i])
    <3>1. cache \in Seq(Entry) /\ Len(cache) \in Nat
      BY DEF TypeOK
    <3>2. Len(s) = Len(cache) + 1
      BY <3>1, AppendProperties
    <3>3. \A i \in 1..Len(s) : s[i] = IF i <= Len(cache) THEN cache[i] ELSE e
      BY <3>1, <3>2, AppendProperties
    <3> QED
      BY <1>2, <3>1, <3>2, <3>3, AppendProperties
  <2> HIDE DEF s
  <2> DEFINE from == 1 + IF Len(s) > CacheEntries THEN Len(s) - CacheEntries ELSE 0
             t == SubSeq(s, from, Len(s))
  <2>3. from \in Nat /\ from >= 1
    BY <2>2, ThreadPagesAssumption
  <2>4. /\ Len(t) = IF from <= Len(s) THEN Len(s) - from + 1 ELSE 0
        /\ \A i \in 1..Len(t) : t[i] = s[from + i - 1] /\ from + i - 1 \in 1..Len(s)
    BY <2>2, <2>3
  <2>5. \A i \in 1..Len(t) : t[i] \in Entry /\ Known(t[i])
    BY <2>2, <2>4
  <2>6. t \in Seq(Entry)
    BY <2>2, <2>3, <2>5
  <2>7. Len(t) <= CacheEntries
    BY <2>2, <2>4, ThreadPagesAssumption
  <2> QED
    BY <2>1, <2>5, <2>6, <2>7 DEF Trim
<1> QED
  BY <1>3, <1>4

LEMMA PutKeeps ==
    ASSUME TypeOK, Whole, NEW r \in Readers, Put(r)
    PROVE  TypeOK' /\ Whole'
<1> DEFINE g == reader[r]
           e == EntryOf(g)
<1>1. g \in Reader /\ g.page \in Page /\ Good(g, version, tree) /\ g.step = "put"
  BY ReaderIs DEF Put
<1>2. e.key = KeyOf(r) /\ e.page = g.page /\ Known(e)
  BY <1>1 DEF EntryOf, KeyOf, Known, Putting
<1>3. Sound(e, version, tree) /\ Suits(e, g)
  BY <1>2, KnownSound
<1>4. e \in Entry
  BY <1>3 DEF Sound
<1>5. /\ cache' \in Seq(Entry) /\ Len(cache') <= CacheEntries
      /\ \A i \in 1..Len(cache') : Known(cache'[i])
  BY <1>2, <1>4, PutKnown DEF Put
<1>6. e.key.version = g.version /\ e.key.after = g.after
  BY DEF EntryOf
<1>7. Proper(g.page, g.after) /\ Covers(g.page, g.after, g.start)
  BY <1>2, <1>3, <1>6 DEF Sound, Suits
<1>8. g.floor.thread <= g.page.at.thread
  <2>1. /\ g.floor.thread \in Nat /\ g.page.at.thread \in Nat
        /\ g.version \in Nat \cup {NoVersion} /\ NoVersion \in Int
    BY <1>1 DEF Reader, Page, Moment, NoVersion
  <2> QED
    BY <1>1, <1>2, <1>3, <1>6, <2>1 DEF Good, Timed, Sound
<1> QED
  BY <1>1, <1>5, <1>7, <1>8, ServeKeeps DEF Put

-----------------------------------------------------------------------------
(* The theorems.                                                            *)

LEMMA ReadingKeeps ==
    ASSUME TypeOK, Whole, Reading PROVE TypeOK' /\ Whole'
BY CountBeforeKeeps, FindCursorKeeps, LocateKeeps, ReadVersionKeeps, HitKeeps,
   MissKeeps, FetchKeeps, PutKeeps, NextPageKeeps DEF Reading

LEMMA StepKeeps == TypeOK /\ Whole /\ [Next]_vars => TypeOK' /\ Whole'
<1> SUFFICES ASSUME TypeOK, Whole, [Next]_vars PROVE TypeOK' /\ Whole'
  OBVIOUS
<1>1. CASE UNCHANGED vars
  BY <1>1 DEF vars, TypeOK, Whole, Putting
<1> QED
  BY <1>1, WritingKeeps, ReadingKeeps DEF Next

LEMMA AlwaysWhole == Spec => [](TypeOK /\ Whole)
BY InitWhole, StepKeeps, PTL DEF Spec

\* Readers, writers and the cache keep their types; the cache keeps its limit.
THEOREM TypeCorrect == Spec => []TypeOK
BY AlwaysWhole, PTL

\* "a stale entry is never served": a page shows all that was written to its
\* thread before its request read the version, with any cache, any number of
\* readers and any interleaving.
THEOREM Freshness == Spec => []NeverStale
<1>1. Whole => NeverStale
  BY DEF Whole, Good, Kept, NeverStale
<1> QED
  BY <1>1, AlwaysWhole, PTL

\* Going from page to page by cursor, out of the cache or not, repeats no post
\* and skips none that was there from the beginning.
THEOREM Tiling == Spec => []PagesTile
<1>1. ASSUME Whole, NEW r \in Readers, reader[r].step = "served"
      PROVE  LET page == reader[r].page IN
             /\ page.posts \cap reader[r].shown = {}
             /\ \A p \in reader[r].start :
                  (Before(reader[r].from, p) /\ (page.next # <<>> => ~Before(page.next, p)))
                     => p \in page.posts \cup reader[r].shown
  <2>1. Good(reader[r], version, tree)
    BY <1>1 DEF Whole
  <2> QED
    BY <1>1, <2>1 DEF Good, Kept, Tidy, Proper, Covers
<1>2. Whole => PagesTile
  BY <1>1 DEF PagesTile
<1> QED
  BY <1>2, AlwaysWhole, PTL

-----------------------------------------------------------------------------
(* Where a permalink leads: the inductive invariant.                        *)

\* The posts up to a cursor.
Upto(cursor, posts) == {q \in posts : ~Before(cursor, q)}

\* How many posts come before the page that this rank is on.
Start(rank) == PageOfRank(rank) * PageSize

\* A visit that follows a permalink: where the post was, and from where on it
\* is looked for.
Aimed(f, posts) ==
    f.target # <<>> =>
        /\ f.target \in f.start
        /\ f.step # "idle"
        /\ f.step = "offset" =>
             /\ Rank(f.target, f.start) <= f.rank
             /\ f.rank <= Rank(f.target, posts)
        /\ f.step \in {"version", "cache", "fetch", "put", "served"} /\ f.shown = {} =>
             /\ Before(f.after, f.target)
             /\ Cardinality(Upto(f.after, posts)) >= Start(Rank(f.target, f.start))

Landing ==
    /\ \A i \in 1..Len(cache) : Filled(cache[i].page, tree)
    /\ \A r \in Readers : Filled(reader[r].page, tree) /\ Aimed(reader[r], tree)

-----------------------------------------------------------------------------
(* Ranks and pages.                                                         *)

\* Posts that are added come before a post, or they do not; none goes away.
LEMMA RankOfMore ==
    ASSUME NEW S, NEW T \in SUBSET Path, IsFiniteSet(T), S \subseteq T, NEW p
    PROVE  Rank(p, S) \in Nat /\ Rank(p, T) \in Nat /\ Rank(p, S) <= Rank(p, T)
<1> DEFINE P == {q \in S : Before(q, p)}
           Q == {q \in T : Before(q, p)}
<1>1. P \subseteq Q /\ IsFiniteSet(Q)
  BY FS_Subset
<1>2. IsFiniteSet(P) /\ Cardinality(P) <= Cardinality(Q)
  BY <1>1, FS_Subset
<1> QED
  BY <1>1, <1>2, FS_CardinalityType DEF Rank

LEMMA Disjoint ==
    ASSUME NEW S, NEW T, IsFiniteSet(S), IsFiniteSet(T), S \cap T = {}
    PROVE  Cardinality(S \cup T) = Cardinality(S) + Cardinality(T)
<1>1. Cardinality(S \cap T) = 0
  BY FS_EmptySet
<1>2. Cardinality(S) \in Nat /\ Cardinality(T) \in Nat
  BY FS_CardinalityType
<1>3. Cardinality(S \cup T) = Cardinality(S) + Cardinality(T) - Cardinality(S \cap T)
  BY FS_Union
<1> QED
  BY <1>1, <1>2, <1>3

LEMMA UptoMore ==
    ASSUME NEW S, NEW T, IsFiniteSet(T), S \subseteq T, NEW p
    PROVE  /\ IsFiniteSet(Upto(p, S))
           /\ Cardinality(Upto(p, S)) \in Nat /\ Cardinality(Upto(p, T)) \in Nat
           /\ Cardinality(Upto(p, S)) <= Cardinality(Upto(p, T))
<1>1. Upto(p, S) \subseteq Upto(p, T) /\ IsFiniteSet(Upto(p, T))
  BY FS_Subset DEF Upto
<1>2. IsFiniteSet(Upto(p, S)) /\ Cardinality(Upto(p, S)) <= Cardinality(Upto(p, T))
  BY <1>1, FS_Subset
<1> QED
  BY <1>1, <1>2, FS_CardinalityType

\* A page begins no later than the ranks on it, and a post of a higher rank is
\* on no earlier page.
LEMMA StartLow ==
    ASSUME NEW n \in Nat, NEW m \in Nat, n <= m
    PROVE  /\ Start(n) \in Nat /\ Start(m) \in Nat
           /\ Start(n) <= Start(m)
           /\ n = Start(n) + (n % PageSize)
           /\ Start(n) <= n
           /\ PageOfRank(n) = 0 => Start(n) = 0
<1>1. PageSize \in Nat \ {0}
  BY ThreadPagesAssumption
<1>2. /\ n \div PageSize \in Nat /\ m \div PageSize \in Nat
      /\ n \div PageSize <= m \div PageSize
  BY <1>1
<1>3. n = ((n \div PageSize) * PageSize) + (n % PageSize) /\ n % PageSize \in Nat
  BY <1>1
<1>4. (n \div PageSize) * PageSize \in Nat /\ (m \div PageSize) * PageSize \in Nat
  BY <1>1, <1>2
<1>5. (n \div PageSize) * PageSize <= (m \div PageSize) * PageSize
  BY <1>1, <1>2
<1> QED
  BY <1>1, <1>3, <1>4, <1>5 DEF Start, PageOfRank

\* Nothing comes before the root.
LEMMA RootFirst == ASSUME NEW p \in Path, p # <<>> PROVE Before(<<>>, p)
<1>1. Len(p) \in Nat /\ Len(p) # 0
  BY PathFacts, EmptySeq
<1>2. 0 \in 0..(Len(p) - 1) /\ Len(<<>>) = 0
  BY <1>1
<1> QED
  BY <1>2 DEF Before

\* A cursor's rank, and how many posts there are up to it.
LEMMA UptoCursor ==
    ASSUME NEW T \in SUBSET Path, IsFiniteSet(T), NEW c \in T
    PROVE  Cardinality(Upto(c, T)) = Rank(c, T) + 1
<1> DEFINE P == {q \in T : Before(q, c)}
<1>1. Upto(c, T) = P \cup {c} /\ c \notin P
  BY Total, Transitive, Irreflexive DEF Upto
<1>2. IsFiniteSet(P)
  BY FS_Subset
<1> QED
  BY <1>1, <1>2, FS_AddElement DEF Rank

\* What was true of pages and visits stays so when posts are added.
LEMMA MoreFilled ==
    ASSUME NEW page, NEW S, NEW T, S \subseteq T, Filled(page, S)
    PROVE  Filled(page, T)
BY DEF Filled

LEMMA MoreAimed ==
    ASSUME NEW f, NEW S, NEW T \in SUBSET Path, IsFiniteSet(T), S \subseteq T,
           f.rank \in Nat, Start(Rank(f.target, f.start)) \in Int, Aimed(f, S)
    PROVE  Aimed(f, T)
<1>1. Rank(f.target, S) \in Nat /\ Rank(f.target, T) \in Nat /\ Rank(f.target, S) <= Rank(f.target, T)
  BY RankOfMore
<1>2. /\ Cardinality(Upto(f.after, S)) \in Nat /\ Cardinality(Upto(f.after, T)) \in Nat
      /\ Cardinality(Upto(f.after, S)) <= Cardinality(Upto(f.after, T))
  BY UptoMore
<1> QED
  BY <1>1, <1>2 DEF Aimed

\* The start of a visit's post is a number.
LEMMA StartOf ==
    ASSUME TypeOK, Whole, NEW r \in Readers
    PROVE  /\ Rank(reader[r].target, reader[r].start) \in Nat
           /\ Rank(reader[r].target, tree) \in Nat
           /\ Rank(reader[r].target, reader[r].start) <= Rank(reader[r].target, tree)
           /\ Start(Rank(reader[r].target, reader[r].start)) \in Nat
           /\ reader[r].rank \in Nat /\ reader[r].target \in Path
           /\ reader[r].start \subseteq tree
           /\ tree \in SUBSET Path /\ IsFiniteSet(tree)
<1>1. /\ tree \in SUBSET Path /\ IsFiniteSet(tree) /\ reader[r].start \subseteq tree
      /\ reader[r].rank \in Nat /\ reader[r].target \in Path
  BY ReaderIs DEF TypeOK, Whole, Good, Tidy, Reader
<1> HIDE DEF TypeOK, Whole
<1> QED
  BY <1>1, RankOfMore, StartLow

-----------------------------------------------------------------------------
(* Every step keeps it.                                                     *)

LEMMA InitLanding == Init => Landing
<1>1. NoPage.posts = {} /\ NoPage.next = <<>> /\ NoReader.page = NoPage
      /\ NoReader.target = <<>>
  BY DEF NoPage, NoReader
<1> QED
  BY <1>1 DEF Init, Landing, Filled, Aimed

LEMMA WritingLands ==
    ASSUME TypeOK, Whole, TypeOK', Whole', Landing, Writing
    PROVE  Landing'
<1>1. tree \subseteq tree' /\ UNCHANGED <<reader>>
  BY DEF Writing, AddPost, ChangePost, ChangeThread, ChangeSpace
<1>2. UNCHANGED cache
  BY DEF Writing, AddPost, ChangePost, ChangeThread, ChangeSpace
<1>3. tree' \in SUBSET Path /\ IsFiniteSet(tree')
  BY DEF TypeOK, Whole
<1>4. \A i \in 1..Len(cache) : Filled(cache[i].page, tree')
  BY <1>1, MoreFilled DEF Landing
<1>5. ASSUME NEW r \in Readers PROVE Filled(reader[r].page, tree') /\ Aimed(reader[r], tree')
  <2>1. Filled(reader[r].page, tree) /\ Aimed(reader[r], tree)
    BY DEF Landing
  <2>2. reader[r].rank \in Nat /\ Start(Rank(reader[r].target, reader[r].start)) \in Int
    BY StartOf
  <2> QED
    BY <1>1, <1>3, <2>1, <2>2, MoreFilled, MoreAimed
<1> QED
  BY <1>1, <1>2, <1>4, <1>5 DEF Landing

\* One visit moves on, and the cache holds what was on its way there.
LEMMA ReadLands ==
    ASSUME TypeOK, Landing, UNCHANGED tree,
           NEW r \in Readers, NEW f, reader' = [reader EXCEPT ![r] = f],
           Filled(f.page, tree), Aimed(f, tree),
           \A i \in 1..Len(cache') : Filled(cache'[i].page, tree)
    PROVE  Landing'
<1>1. reader'[r] = f /\ \A g \in Readers \ {r} : reader'[g] = reader[g]
  BY DEF TypeOK
<1> QED
  BY <1>1 DEF Landing

\* A step that leaves a visit's page and its aim alone.
LEMMA StillLands ==
    ASSUME TypeOK, Landing, UNCHANGED <<tree, cache>>,
           NEW r \in Readers, NEW f, reader' = [reader EXCEPT ![r] = f],
           f.page = reader[r].page, Aimed(f, tree)
    PROVE  Landing'
BY ReadLands DEF Landing

LEMMA LocateLands ==
    ASSUME TypeOK, Whole, Landing, NEW r \in Readers, NEW p \in tree, Locate(r, p)
    PROVE  Landing'
<1> DEFINE f == [NoReader EXCEPT !.step = "rank", !.target = p, !.start = tree]
<1>1. reader' = [reader EXCEPT ![r] = f] /\ UNCHANGED <<tree, cache>>
  BY DEF Locate, thread
<1>2. /\ f.step = "rank" /\ f.target = p /\ f.start = tree
      /\ f.page.posts = {} /\ f.page.next = <<>>
  BY DEF NoReader, NoPage
<1> HIDE DEF f
<1> QED
  BY <1>1, <1>2, ReadLands DEF Landing, Filled, Aimed

LEMMA CountBeforeLands ==
    ASSUME TypeOK, Whole, Landing, NEW r \in Readers, CountBefore(r)
    PROVE  Landing'
<1> DEFINE g == reader[r]
           rank == Rank(g.target, tree)
           f == [reader[r] EXCEPT !.rank = IF PageOfRank(rank) = 0 THEN 0 ELSE rank,
                   !.step = IF PageOfRank(rank) = 0 THEN "version" ELSE "offset"]
<1>1. reader' = [reader EXCEPT ![r] = f] /\ UNCHANGED <<tree, cache>>
  BY Zenon DEF CountBefore, thread
<1>2. /\ g \in Reader /\ g.step = "rank" /\ Good(g, version, tree) /\ Aimed(g, tree)
  BY ReaderIs DEF CountBefore, Landing
<1>3. g.after = <<>>
  BY <1>2 DEF Good, Kept
<1>4. /\ rank \in Nat /\ Rank(g.target, g.start) \in Nat /\ Rank(g.target, g.start) <= rank
      /\ g.target \in Path
  BY StartOf
<1> HIDE DEF rank
<1>5. /\ f.rank = IF PageOfRank(rank) = 0 THEN 0 ELSE rank
      /\ f.step = IF PageOfRank(rank) = 0 THEN "version" ELSE "offset"
      /\ f.start = g.start /\ f.target = g.target /\ f.after = g.after
      /\ f.page = g.page /\ f.shown = g.shown
  BY <1>2 DEF Reader
<1> HIDE DEF f
<1>6. CASE PageOfRank(rank) = 0
  <2>1. Start(Rank(g.target, g.start)) <= 0
    BY <1>4, <1>6, StartLow
  <2>2. Cardinality(Upto(g.after, tree)) \in Nat
    BY UptoMore DEF Whole
  <2>3. Start(Rank(g.target, g.start)) \in Nat
    BY StartOf
  <2>4. Cardinality(Upto(g.after, tree)) >= Start(Rank(g.target, g.start))
    BY <2>1, <2>2, <2>3
  <2>5. g.target # <<>> => Before(g.after, g.target)
    BY <1>3, <1>4, RootFirst
  <2>6. Aimed(f, tree)
    BY <1>2, <1>5, <1>6, <2>4, <2>5 DEF Aimed
  <2> QED
    BY <1>1, <1>5, <2>6, StillLands
<1>7. CASE PageOfRank(rank) # 0
  <2>1. Aimed(f, tree)
    BY <1>2, <1>4, <1>5, <1>7 DEF Aimed, rank
  <2> QED
    BY <1>1, <1>5, <2>1, StillLands
<1> QED
  BY <1>6, <1>7

\* The cursor found is the last post of an earlier page.
LEMMA FindCursorLands ==
    ASSUME TypeOK, Whole, Landing, NEW r \in Readers, FindCursor(r)
    PROVE  Landing'
<1> DEFINE g == reader[r]
<1>1. PICK p \in tree :
         /\ Rank(p, tree) = CursorOffset(reader[r].rank)
         /\ reader' = [reader EXCEPT ![r].after = p, ![r].from = p,
                                     ![r].rank = 0, ![r].step = "version"]
  BY DEF FindCursor
<1> DEFINE f == [reader[r] EXCEPT !.after = p, !.from = p, !.rank = 0, !.step = "version"]
<1>2. reader' = [reader EXCEPT ![r] = f] /\ UNCHANGED <<tree, cache>>
  BY <1>1, Zenon DEF FindCursor, thread
<1>3. g \in Reader /\ g.step = "offset" /\ Aimed(g, tree)
  BY ReaderIs DEF FindCursor, Landing
<1>4. /\ f.step = "version" /\ f.after = p /\ f.start = g.start
      /\ f.target = g.target /\ f.page = g.page /\ f.shown = g.shown
  BY <1>3 DEF Reader
<1> HIDE DEF f
<1>5. CASE g.target = <<>>
  BY <1>2, <1>4, <1>5, StillLands DEF Aimed
<1>6. CASE g.target # <<>>
  <2> DEFINE t == g.target
             first == Rank(t, g.start)
  <2>1. /\ first \in Nat /\ Rank(t, tree) \in Nat /\ g.rank \in Nat
        /\ t \in tree /\ tree \in SUBSET Path /\ IsFiniteSet(tree)
    BY <1>3, <1>6, StartOf DEF Aimed
  <2>2. first <= g.rank /\ g.rank <= Rank(t, tree)
    BY <1>3, <1>6 DEF Aimed
  <2>3. Rank(p, tree) = Start(g.rank) - 1
    BY <1>1 DEF CursorOffset, Start
  <2>4. /\ Start(first) <= Start(g.rank) /\ Start(first) \in Nat /\ Start(g.rank) \in Nat
        /\ Start(g.rank) <= g.rank
    BY <2>1, <2>2, StartLow
  <2>5. Cardinality(Upto(p, tree)) = Rank(p, tree) + 1
    BY <2>1, UptoCursor
  <2>6. Rank(p, tree) \in Nat
    BY <2>1, RankType
  <2> HIDE DEF first
  <2>7. Cardinality(Upto(p, tree)) >= Start(first)
    BY <2>3, <2>4, <2>5, <2>6
  <2>8. Before(p, t)
    <3>1. Rank(p, tree) < Rank(t, tree)
      BY <2>1, <2>2, <2>3, <2>4, <2>6
    <3>2. ~(Rank(t, tree) < Rank(p, tree)) /\ Rank(t, tree) # Rank(p, tree)
      BY <2>1, <2>6, <3>1
    <3>3. t # p /\ ~Before(t, p)
      BY <2>1, <3>2, RankGrows
    <3> QED
      BY <2>1, <3>3, Total
  <2>9. Aimed(f, tree)
    BY <1>3, <1>4, <2>7, <2>8 DEF Aimed, first
  <2> QED
    BY <1>2, <1>4, <2>9, StillLands
<1> QED
  BY <1>5, <1>6

LEMMA ReadVersionLands ==
    ASSUME TypeOK, Whole, Landing, NEW r \in Readers, ReadVersion(r)
    PROVE  Landing'
<1> DEFINE g == reader[r]
<1>1. PICK v \in {version, NoVersion} :
         reader' = [reader EXCEPT ![r].version = v, ![r].floor = Now,
                                  ![r].start = IF reader[r].step = "idle" THEN tree ELSE @,
                                  ![r].step = IF v = NoVersion THEN "fetch" ELSE "cache"]
  BY DEF ReadVersion
<1> DEFINE start == IF g.step = "idle" THEN tree ELSE g.start
           step == IF v = NoVersion THEN "fetch" ELSE "cache"
           f == [reader[r] EXCEPT !.version = v, !.floor = Now, !.start = start, !.step = step]
<1>2. reader' = [reader EXCEPT ![r] = f] /\ UNCHANGED <<tree, cache>>
  BY <1>1, Zenon DEF ReadVersion, thread
<1>3. /\ g \in Reader /\ g.step \in {"idle", "version"} /\ Aimed(g, tree)
  BY ReaderIs DEF ReadVersion, Landing
<1>4. /\ f.step \in {"cache", "fetch"} /\ f.after = g.after
      /\ f.start = IF g.step = "idle" THEN tree ELSE g.start
      /\ f.target = g.target /\ f.page = g.page /\ f.shown = g.shown
  BY <1>3 DEF Reader
<1> HIDE DEF f
<1>5. g.step = "idle" => g.target = <<>>
  BY DEF Landing, Aimed
<1>6. Aimed(f, tree)
  BY <1>3, <1>4, <1>5 DEF Aimed
<1> QED
  BY <1>2, <1>4, <1>6, StillLands

LEMMA ServeLands ==
    ASSUME TypeOK, Whole, Landing, UNCHANGED tree, NEW r \in Readers, NEW page,
           Filled(page, tree), reader[r].step \in {"cache", "fetch", "put"}, Serve(r, page),
           \A i \in 1..Len(cache') : Filled(cache'[i].page, tree)
    PROVE  Landing'
<1> DEFINE g == reader[r]
           f == [reader[r] EXCEPT !.page = page, !.version = NoVersion, !.step = "served"]
<1>1. reader' = [reader EXCEPT ![r] = f]
  BY Zenon DEF Serve
<1>2. g \in Reader /\ Aimed(g, tree)
  BY ReaderIs DEF Landing
<1>3. /\ f.step = "served" /\ f.after = g.after /\ f.start = g.start
      /\ f.target = g.target /\ f.page = page /\ f.shown = g.shown
  BY <1>2 DEF Reader
<1> HIDE DEF f
<1>4. Aimed(f, tree)
  BY <1>2, <1>3 DEF Aimed
<1> QED
  BY <1>1, <1>3, <1>4, ReadLands

LEMMA HitLands ==
    ASSUME TypeOK, Whole, Landing, NEW r \in Readers, Hit(r)
    PROVE  Landing'
<1>1. PICK i \in Indices(KeyOf(r)) : Serve(r, cache[i].page)
  BY DEF Hit
<1>2. Filled(cache[i].page, tree)
  BY DEF Indices, Landing
<1>3. UNCHANGED <<tree, cache>> /\ reader[r].step = "cache"
  BY DEF Hit, thread
<1> QED
  BY <1>1, <1>2, <1>3, ServeLands DEF Landing

LEMMA MissLands ==
    ASSUME TypeOK, Whole, Landing, NEW r \in Readers, Miss(r)
    PROVE  Landing'
<1> DEFINE g == reader[r]
           f == [reader[r] EXCEPT !.step = "fetch"]
<1>1. reader' = [reader EXCEPT ![r] = f] /\ UNCHANGED <<tree, cache>>
  BY Zenon DEF Miss, thread
<1>2. g \in Reader /\ Aimed(g, tree) /\ g.step = "cache"
  BY ReaderIs DEF Miss, Landing
<1>3. /\ f.step = "fetch" /\ f.after = g.after /\ f.start = g.start
      /\ f.target = g.target /\ f.page = g.page /\ f.shown = g.shown
  BY <1>2 DEF Reader
<1> HIDE DEF f
<1>4. Aimed(f, tree)
  BY <1>2, <1>3 DEF Aimed
<1> QED
  BY <1>1, <1>3, <1>4, StillLands

LEMMA FetchLands ==
    ASSUME TypeOK, Whole, Landing, NEW r \in Readers, Fetch(r)
    PROVE  Landing'
<1> DEFINE g == reader[r]
           page == PageAfter(g.after)
<1>1. g \in Reader /\ Aimed(g, tree) /\ g.step = "fetch" /\ UNCHANGED <<tree, cache>>
  BY ReaderIs DEF Fetch, Landing, thread
<1>2. Filled(page, tree)
  <2>1. g.after \in Path /\ Now \in Moment
    BY <1>1 DEF Reader, TypeOK, Now, Moment
  <2> QED
    BY <2>1, PageIs DEF TypeOK, Whole
<1> HIDE DEF page
<1>3. CASE hidden
  <2> DEFINE f == [NoReader EXCEPT !.step = "gone"]
  <2>1. reader' = [reader EXCEPT ![r] = f]
    BY <1>3 DEF Fetch
  <2>2. f.target = <<>> /\ f.page.posts = {} /\ f.page.next = <<>>
    BY DEF NoReader, NoPage
  <2> HIDE DEF f
  <2> QED
    BY <1>1, <2>1, <2>2, ReadLands DEF Landing, Filled, Aimed
<1>4. CASE ~hidden /\ g.version = NoVersion
  BY <1>1, <1>2, <1>4, ServeLands DEF Fetch, page, Landing
<1>5. CASE ~hidden /\ g.version # NoVersion
  <2> DEFINE f == [reader[r] EXCEPT !.page = page, !.step = "put"]
  <2>1. reader' = [reader EXCEPT ![r] = f]
    BY <1>5, Zenon DEF Fetch, page
  <2>2. /\ f.step = "put" /\ f.after = g.after /\ f.start = g.start
        /\ f.target = g.target /\ f.page = page /\ f.shown = g.shown
    BY <1>1 DEF Reader
  <2> HIDE DEF f
  <2>3. Aimed(f, tree)
    BY <1>1, <2>2 DEF Aimed
  <2> QED
    BY <1>1, <1>2, <2>1, <2>2, <2>3, ReadLands DEF Landing
<1> QED
  BY <1>3, <1>4, <1>5

LEMMA PutLands ==
    ASSUME TypeOK, Whole, Landing, NEW r \in Readers, Put(r), TypeOK'
    PROVE  Landing'
<1> DEFINE g == reader[r]
<1>1. Filled(g.page, tree) /\ g.step = "put" /\ UNCHANGED tree /\ Serve(r, g.page)
  BY DEF Put, Landing, thread
<1>2. \A i \in 1..Len(cache') : \/ cache'[i].page = g.page
                                \/ \E j \in 1..Len(cache) : cache'[i] = cache[j]
  <2> DEFINE e == [key |-> KeyOf(r), page |-> g.page]
  <2>1. CASE Indices(KeyOf(r)) # {}
    <3>1. cache' = [i \in 1..Len(cache) |-> IF i \in Indices(KeyOf(r)) THEN e ELSE cache[i]]
      BY <2>1 DEF Put, CachePut
    <3>2. Len(cache') = Len(cache)
      BY <3>1 DEF TypeOK
    <3> QED
      BY <3>1, <3>2
  <2>2. CASE Indices(KeyOf(r)) = {}
    <3> DEFINE s == Append(cache, e)
    <3>1. cache' = Trim(s)
      BY <2>2 DEF Put, CachePut
    <3>2. /\ cache \in Seq(Entry) /\ Len(cache) \in Nat
          /\ e \in Entry
      <4>1. g \in Reader /\ g.page \in Page /\ Good(g, version, tree)
        BY ReaderIs
      <4>2. g.version \in Nat /\ g.after \in Path
        BY <1>1, <4>1 DEF Good, Timed, Reader
      <4> QED
        BY <4>1, <4>2 DEF TypeOK, KeyOf, Entry, Key
    <3>3. /\ s \in Seq(Entry) /\ Len(s) = Len(cache) + 1
          /\ \A i \in 1..Len(s) : s[i] = IF i <= Len(cache) THEN cache[i] ELSE e
      <4> HIDE DEF e
      <4> QED
        BY <3>2, AppendProperties
    <3> HIDE DEF s
    <3> DEFINE from == 1 + IF Len(s) > CacheEntries THEN Len(s) - CacheEntries ELSE 0
               t == SubSeq(s, from, Len(s))
    <3>4. from \in Nat /\ from >= 1
      BY <3>2, <3>3, ThreadPagesAssumption
    <3>5. \A i \in 1..Len(t) : t[i] = s[from + i - 1] /\ from + i - 1 \in 1..Len(s)
      BY <3>2, <3>3, <3>4
    <3>6. \A i \in 1..Len(t) : t[i] = e \/ \E j \in 1..Len(cache) : t[i] = cache[j]
      <4> HIDE DEF t, e
      <4> QED
        BY <3>2, <3>3, <3>4, <3>5
    <3>7. cache' = t
      BY <3>1 DEF Trim
    <3>8. e.page = g.page
      OBVIOUS
    <3> HIDE DEF t, e
    <3> QED
      BY <3>6, <3>7, <3>8
  <2> QED
    BY <2>1, <2>2
<1>3. \A i \in 1..Len(cache') : Filled(cache'[i].page, tree)
  BY <1>1, <1>2 DEF Landing
<1> QED
  BY <1>1, <1>3, ServeLands

\* The pages after the first one lead on from where the post was.
LEMMA NextPageLands ==
    ASSUME TypeOK, Whole, Landing, NEW r \in Readers, NextPage(r)
    PROVE  Landing'
<1> DEFINE g == reader[r]
           f == [reader[r] EXCEPT !.after = reader[r].page.next,
                   !.shown = reader[r].shown \cup reader[r].page.posts,
                   !.page = NoPage, !.floor = Beginning, !.step = "version"]
<1>1. reader' = [reader EXCEPT ![r] = f] /\ UNCHANGED <<tree, cache>>
  BY Zenon DEF NextPage, thread
<1>2. /\ g \in Reader /\ Good(g, version, tree) /\ Aimed(g, tree)
      /\ g.step = "served" /\ g.page.next # <<>>
  BY ReaderIs DEF NextPage, Landing
<1>3. /\ f.step = "version" /\ f.start = g.start /\ f.target = g.target
      /\ f.page = NoPage /\ f.shown = g.shown \cup g.page.posts
  BY <1>2 DEF Reader
<1> HIDE DEF f
<1>4. f.shown # {}
  BY <1>2, <1>3 DEF Good, Kept, Proper
<1>5. Aimed(f, tree) /\ Filled(f.page, tree)
  BY <1>2, <1>3, <1>4 DEF Aimed, Filled, NoPage
<1> QED
  BY <1>1, <1>5, ReadLands DEF Landing

LEMMA LandingStep ==
    TypeOK /\ Whole /\ TypeOK' /\ Whole' /\ Landing /\ [Next]_vars => Landing'
<1> SUFFICES ASSUME TypeOK, Whole, TypeOK', Whole', Landing, [Next]_vars PROVE Landing'
  OBVIOUS
<1>1. CASE UNCHANGED vars
  BY <1>1 DEF vars, Landing, Filled, Aimed
<1>2. CASE Reading
  BY <1>2, CountBeforeLands, FindCursorLands, LocateLands, ReadVersionLands, HitLands,
     MissLands, FetchLands, PutLands, NextPageLands DEF Reading
<1> QED
  BY <1>1, <1>2, WritingLands DEF Next

-----------------------------------------------------------------------------
(* What it means for a page that the post is not on.                        *)

LEMMA NotOnPage ==
    ASSUME TypeOK, Whole, Landing, NEW r \in Readers,
           reader[r].step = "served", reader[r].target # <<>>, reader[r].shown = {},
           reader[r].target \notin reader[r].page.posts
    PROVE  LET t == reader[r].target start == reader[r].start
           IN  Cardinality({p \in tree \ start : Before(p, t)})
                 >= PageSize - (Cardinality({p \in start : Before(p, t)}) % PageSize)
<1> DEFINE g == reader[r]
           t == g.target
           page == g.page
           first == Rank(t, g.start)
           up == Upto(g.after, tree)
           old == {p \in g.start : Before(p, t)}
           new == {p \in tree \ g.start : Before(p, t)}
           all == {p \in tree : Before(p, t)}
<1>1. /\ g \in Reader /\ Good(g, version, tree) /\ Filled(page, tree) /\ Aimed(g, tree)
  BY ReaderIs DEF Landing
<1>2. /\ t \in g.start /\ g.start \subseteq tree /\ t \in Path /\ first \in Nat
      /\ tree \in SUBSET Path /\ IsFiniteSet(tree) /\ g.after \in Path
  BY <1>1, StartOf DEF Aimed, Reader
<1>3. Before(g.after, t) /\ Cardinality(up) >= Start(first)
  BY <1>1 DEF Aimed
<1>4. page.next # <<>> /\ Before(page.next, t) /\ page.next \in page.posts
  BY <1>1, <1>2, <1>3 DEF Good, Kept, Covers, Proper
<1>5. /\ page.posts \subseteq tree /\ Cardinality(page.posts) >= PageSize
      /\ \A p \in page.posts : Before(g.after, p) /\ ~Before(page.next, p)
  BY <1>1, <1>4 DEF Filled, Good, Kept, Proper
<1>6. up \subseteq all
  <2>1. ASSUME NEW q \in up PROVE q \in tree /\ Before(q, t)
    <3>1. q \in tree /\ ~Before(g.after, q)
      BY DEF Upto
    <3>2. q = g.after \/ Before(q, g.after)
      BY <1>2, <3>1, Total
    <3> QED
      BY <1>2, <1>3, <3>1, <3>2, Transitive
  <2> QED
    BY <2>1
<1>7. page.posts \subseteq all
  <2>1. ASSUME NEW q \in page.posts PROVE q \in tree /\ Before(q, t)
    <3>1. q = page.next \/ Before(q, page.next)
      BY <1>2, <1>4, <1>5, Total
    <3> QED
      BY <1>2, <1>4, <1>5, <3>1, Transitive
  <2> QED
    BY <2>1
<1>8. up \cap page.posts = {}
  BY <1>5 DEF Upto
<1>9. /\ IsFiniteSet(all) /\ IsFiniteSet(up) /\ IsFiniteSet(page.posts)
      /\ IsFiniteSet(old) /\ IsFiniteSet(new)
  <2>1. old \subseteq tree /\ new \subseteq tree /\ all \subseteq tree /\ up \subseteq tree
    BY <1>2 DEF Upto
  <2> QED
    BY <1>2, <1>5, <2>1, FS_Subset
<1> HIDE DEF up
<1>10. Cardinality(up \cup page.posts) = Cardinality(up) + Cardinality(page.posts)
  BY <1>8, <1>9, Disjoint
<1>11. up \cup page.posts \subseteq all
  BY <1>6, <1>7
<1>12. Cardinality(up \cup page.posts) <= Cardinality(all)
  BY <1>9, <1>11, FS_Subset
<1>13. all = old \cup new /\ old \cap new = {}
  BY <1>2
<1>14. Cardinality(all) = Cardinality(old) + Cardinality(new)
  BY <1>9, <1>13, Disjoint
<1>15. Cardinality(old) = first
  BY DEF Rank
<1>16. /\ first = Start(first) + (first % PageSize) /\ Start(first) \in Nat
       /\ first % PageSize \in Nat /\ PageSize \in Nat
  <2>1. first <= first /\ PageSize \in Nat \ {0}
    BY <1>2, ThreadPagesAssumption
  <2>2. first % PageSize \in Nat
    BY <1>2, <2>1
  <2> QED
    BY <1>2, <2>1, <2>2, StartLow
<1>17. /\ Cardinality(up) \in Nat /\ Cardinality(page.posts) \in Nat
       /\ Cardinality(new) \in Nat /\ Cardinality(all) \in Nat
  BY <1>9, FS_CardinalityType
<1> HIDE DEF first, old, new, all
<1>18. Cardinality(new) >= PageSize - (first % PageSize)
  BY <1>2, <1>3, <1>5, <1>10, <1>12, <1>14, <1>15, <1>16, <1>17
<1>19. Cardinality(new) >= PageSize - (Cardinality(old) % PageSize)
  BY <1>15, <1>18
<1> QED
  BY <1>19 DEF new, old

\* "Without the cursor a post past the first page anchors to an id not in the
\* document": the page that a permalink leads to has the post on it, for any
\* page size, any cache and any writers, unless enough posts to fill the page
\* landed before it since the link was followed.
THEOREM LinksLand == Spec => []PermalinkLands
<1>1. Spec => []Landing
  BY AlwaysWhole, InitLanding, LandingStep, PTL DEF Spec
<1>2. TypeOK /\ Whole /\ Landing => PermalinkLands
  BY NotOnPage DEF PermalinkLands
<1> QED
  BY <1>1, <1>2, AlwaysWhole, PTL
=============================================================================
