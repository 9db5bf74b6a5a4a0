---------------------------- MODULE ThreadPages -----------------------------
(***************************************************************************)
(* Reading one thread while it is written to: pages by cursor, permalinks, *)
(* and the page cache.                                                     *)
(*                                                                         *)
(* A response is built from several reads with other requests in between:  *)
(* the version that goes into the cache key, the cache, the page itself.   *)
(* A permalink takes three more, and a redirect.  Posts appear in one step *)
(* here, each as the youngest child of its parent: Thread implements that  *)
(* (Thread!TreeOnlyGrows).                                                 *)
(***************************************************************************)
EXTENDS PathText, FiniteSets

CONSTANTS
    Readers,        \* visits to the thread, each of one page or more
    PageSize,       \* posts on a page
    CacheEntries,   \* server/main.rs CACHE_ENTRIES
    MaxWrites,      \* bound: changes to what the page shows
    MaxSpaceEdits   \* bound: how many of them are edits of the space

ASSUME ThreadPagesAssumption ==
    /\ PageSize \in Nat \ {0}
    /\ CacheEntries \in Nat
    /\ MaxWrites \in Nat
    /\ MaxSpaceEdits \in Nat

VARIABLES
    tree,       \* the paths of the thread's posts, in whatever state they are
    hidden,     \* whether the thread is hidden or deleted
    version,    \* thread.cache_version
    content,    \* history: how often the thread or one of its posts changed
    spaceEdits, \* history: and how often its space did
    cache,      \* entries, the one put first at the head
    reader      \* per reader: how far it is and what it knows

vars == <<tree, hidden, version, content, spaceEdits, cache, reader>>

thread == <<tree, hidden, version, content, spaceEdits>>

NoVersion == -1

\* How much had been written at some moment.
Moment == [thread : Nat, space : Nat]
Now == [thread |-> content, space |-> spaceEdits]
Beginning == [thread |-> 0, space |-> 0]

\* at: when it was rendered.
Page == [posts : SUBSET Path, next : Path, at : Moment]
Key == [version : Nat, after : Path]
Entry == [key : Key, page : Page]
Step == {"idle", "rank", "offset", "version", "cache", "fetch", "put", "served", "gone"}
Reader == [step : Step,
           target : Path,       \* the post a permalink names
           rank : Nat,
           after : Path,        \* the cursor
           version : Nat \cup {NoVersion},
           page : Page,
           \* history
           start : SUBSET Path, \* the posts there when the visit began
           from : Path,         \* the cursor of the visit's first page
           floor : Moment,      \* when the version was read
           shown : SUBSET Path] \* the posts on the pages before this one

NoPage == [posts |-> {}, next |-> <<>>, at |-> Beginning]
NoReader == [step |-> "idle", target |-> <<>>, rank |-> 0, after |-> <<>>,
             version |-> NoVersion, page |-> NoPage,
             start |-> {}, from |-> <<>>, floor |-> Beginning, shown |-> {}]

Init ==
    /\ tree = {}
    /\ hidden = FALSE
    /\ version = 0
    /\ content = 0
    /\ spaceEdits = 0
    /\ cache = <<>>
    /\ reader = [r \in Readers |-> NoReader]

-----------------------------------------------------------------------------
(* Writes.  Each changes the page and, in the same statement or batch, the *)
(* version: all but one.                                                   *)

MayWrite == content + spaceEdits < MaxWrites

Write == MayWrite /\ content' = content + 1

\* Mutant of Bump: the batch has no second statement.
BumpNever == UNCHANGED version

Bump == version' = version + 1

Children(p) == {q \in tree : q # <<>> /\ Parent(q) = p}

\* insert_post
AddPost(parent) ==
    /\ Write /\ Bump
    /\ parent \in tree \cup {<<>>}
    /\ LET p == Child(parent, Cardinality(Children(parent))) IN
         p # <<>> /\ tree' = tree \cup {p}
    /\ UNCHANGED <<hidden, spaceEdits, cache, reader>>

\* update_post_body, set_post_state, tombstone_user_posts: a post never leaves.
ChangePost ==
    /\ Write /\ Bump
    /\ tree # {}
    /\ UNCHANGED <<tree, hidden, spaceEdits, cache, reader>>

\* update_thread, as far as it hides or restores; the rest is as ChangePost.
ChangeThread ==
    /\ Write /\ Bump
    /\ hidden' = ~hidden
    /\ UNCHANGED <<tree, spaceEdits, cache, reader>>

\* update_space: the page shows the space's name and theme, and indents by
\* its depth_cap.
ChangeSpace ==
    /\ MayWrite
    /\ spaceEdits < MaxSpaceEdits /\ spaceEdits' = spaceEdits + 1
    /\ UNCHANGED <<tree, hidden, version, content, cache, reader>>

-----------------------------------------------------------------------------
(* The page query.  ORDER BY path and path > ? are Before: TextSortsAsTree. *)

After(cursor) == {q \in tree : Before(cursor, q)}

Rank(p, posts) == Cardinality({q \in posts : Before(q, p)})

\* Mutant of NextCursor: the over-fetched row is the cursor.
NextCursorBeyond(kept, fetched) ==
    IF kept = fetched THEN <<>> ELSE CHOOSE p \in fetched \ kept : TRUE

\* The over-fetched row shows that there is another page; the cursor is the
\* last row kept.
NextCursor(kept, fetched) ==
    IF kept = fetched THEN <<>>
    ELSE CHOOSE p \in kept : \A q \in kept \ {p} : Before(q, p)

\* thread_page: one row more than a page holds.
PageAfter(cursor) ==
    LET rest == After(cursor)
        fetched == {p \in rest : Rank(p, rest) < PageSize + 1}
        kept == {p \in fetched : Rank(p, rest) < PageSize}
    IN [posts |-> kept, next |-> NextCursor(kept, fetched), at |-> Now]

-----------------------------------------------------------------------------
(* The cache.                                                              *)

KeyOf(r) == [version |-> reader[r].version, after |-> reader[r].after]

Indices(key) == {i \in 1..Len(cache) : cache[i].key = key}

\* Mutant of Trim: the limit is not enforced.
TrimNever(entries) == entries

\* The oldest go first.
Trim(entries) ==
    SubSeq(entries, 1 + IF Len(entries) > CacheEntries
                        THEN Len(entries) - CacheEntries ELSE 0, Len(entries))

\* cache_put: an entry that is there is replaced where it stands.
CachePut(key, page) ==
    cache' = IF Indices(key) # {}
             THEN [i \in 1..Len(cache) |->
                     IF i \in Indices(key) THEN [key |-> key, page |-> page] ELSE cache[i]]
             ELSE Trim(Append(cache, [key |-> key, page |-> page]))

-----------------------------------------------------------------------------
(* Permalinks.                                                             *)

\* post_permalink, LOCATE_POST
Locate(r, p) ==
    /\ reader[r].step = "idle"
    /\ p \in tree
    /\ reader' = [reader EXCEPT ![r] =
                    [NoReader EXCEPT !.step = "rank", !.target = p, !.start = tree]]
    /\ UNCHANGED <<thread, cache>>

PageOfRank(rank) == rank \div PageSize

\* POST_RANK: the first page needs no cursor.
CountBefore(r) ==
    /\ reader[r].step = "rank"
    /\ LET rank == Rank(reader[r].target, tree) IN
         reader' = [reader EXCEPT ![r].rank = IF PageOfRank(rank) = 0 THEN 0 ELSE rank,
                                  ![r].step = IF PageOfRank(rank) = 0 THEN "version" ELSE "offset"]
    /\ UNCHANGED <<thread, cache>>

\* Mutant of CursorOffset: the first post of the page, for the one before it.
CursorOffsetAtPage(rank) == PageOfRank(rank) * PageSize

\* page_cursor_offset
CursorOffset(rank) == PageOfRank(rank) * PageSize - 1

\* PATH_AT_OFFSET, and the redirect.
FindCursor(r) ==
    /\ reader[r].step = "offset"
    /\ \E p \in tree :
         /\ Rank(p, tree) = CursorOffset(reader[r].rank)
         /\ reader' = [reader EXCEPT ![r].after = p, ![r].from = p,
                                     ![r].rank = 0, ![r].step = "version"]
    /\ UNCHANGED <<thread, cache>>

-----------------------------------------------------------------------------
(* render_thread.                                                          *)

\* The first read of every thread page; a visit that does not come from a
\* permalink begins with it.  Without a version the page is neither looked up
\* nor stored.
ReadVersion(r) ==
    /\ reader[r].step \in {"idle", "version"}
    /\ \E v \in {version, NoVersion} :
         reader' = [reader EXCEPT ![r].version = v, ![r].floor = Now,
                                  ![r].start = IF reader[r].step = "idle" THEN tree ELSE @,
                                  ![r].step = IF v = NoVersion THEN "fetch" ELSE "cache"]
    /\ UNCHANGED <<thread, cache>>

Serve(r, page) ==
    reader' = [reader EXCEPT ![r].page = page, ![r].version = NoVersion, ![r].step = "served"]

Hit(r) ==
    /\ reader[r].step = "cache"
    /\ \E i \in Indices(KeyOf(r)) : Serve(r, cache[i].page)
    /\ UNCHANGED <<thread, cache>>

\* An edge cache may miss what it was given: another data centre's, or expired.
Miss(r) ==
    /\ reader[r].step = "cache"
    /\ reader' = [reader EXCEPT ![r].step = "fetch"]
    /\ UNCHANGED <<thread, cache>>

\* A hidden thread is not found, and that answer is not stored.
Fetch(r) ==
    /\ reader[r].step = "fetch"
    /\ LET page == PageAfter(reader[r].after) IN
         IF hidden THEN reader' = [reader EXCEPT ![r] = [NoReader EXCEPT !.step = "gone"]]
         ELSE IF reader[r].version = NoVersion THEN Serve(r, page)
         ELSE reader' = [reader EXCEPT ![r].page = page, ![r].step = "put"]
    /\ UNCHANGED <<thread, cache>>

Put(r) ==
    /\ reader[r].step = "put"
    /\ CachePut(KeyOf(r), reader[r].page)
    /\ Serve(r, reader[r].page)
    /\ UNCHANGED thread

\* The reader follows the link at the foot of the page, or never does.
NextPage(r) ==
    /\ reader[r].step = "served" /\ reader[r].page.next # <<>>
    /\ reader' = [reader EXCEPT ![r].after = reader[r].page.next,
                                ![r].shown = @ \cup reader[r].page.posts,
                                ![r].page = NoPage, ![r].floor = Beginning,
                                ![r].step = "version"]
    /\ UNCHANGED <<thread, cache>>

-----------------------------------------------------------------------------
Writing ==
    \/ \E parent \in tree \cup {<<>>} : AddPost(parent)
    \/ ChangePost \/ ChangeThread \/ ChangeSpace

Reading ==
    \E r \in Readers :
        \/ CountBefore(r) \/ FindCursor(r)
        \/ \E p \in tree : Locate(r, p)
        \/ ReadVersion(r) \/ Hit(r) \/ Miss(r) \/ Fetch(r) \/ Put(r)
        \/ NextPage(r)

Next == Writing \/ Reading

Spec == Init /\ [][Next]_vars

-----------------------------------------------------------------------------
(* Properties.                                                             *)

TypeOK ==
    /\ tree \in SUBSET Path
    /\ hidden \in BOOLEAN
    /\ version \in Nat
    /\ content \in 0..MaxWrites
    /\ spaceEdits \in 0..MaxSpaceEdits
    /\ cache \in Seq(Entry) /\ Len(cache) <= CacheEntries
    /\ reader \in [Readers -> Reader]

\* server/main.rs: "Keys carry the content version, so a stale entry is never
\* served"; DECISIONS.md: "Versions only increase, so there is no interleaving
\* that serves stale content".  A response shows everything that was written to
\* the thread before its request read the version, whoever rendered it and
\* whenever.
NeverStale ==
    \A r \in Readers :
        reader[r].step = "served" => reader[r].page.at.thread >= reader[r].floor.thread

\* The same sentences, of the space whose name, theme and depth_cap are part of
\* the page.
SpaceNeverStale ==
    \A r \in Readers :
        reader[r].step = "served" => reader[r].page.at.space >= reader[r].floor.space

\* thread_page's cursors: a reader going from page to page, some of them out
\* of the cache, sees every post that was there when it began, up to where it
\* is, and no post twice, whatever is posted meanwhile and wherever.
PagesTile ==
    \A r \in Readers :
        reader[r].step = "served" =>
            LET page == reader[r].page IN
            /\ page.posts \cap reader[r].shown = {}
            /\ \A p \in reader[r].start :
                 (Before(reader[r].from, p) /\ (page.next # <<>> => ~Before(page.next, p)))
                     => p \in page.posts \cup reader[r].shown

\* post_permalink: "Without the cursor a post past the first page anchors to
\* an id not in the document".  The page it leads to has the post on it, unless
\* so many posts landed before it since that they fill up its page.
PermalinkLands ==
    \A r \in Readers :
        LET target == reader[r].target
            start == reader[r].start
        IN (reader[r].step = "served" /\ target # <<>> /\ reader[r].shown = {}) =>
              \/ target \in reader[r].page.posts
              \/ Cardinality({p \in tree \ start : Before(p, target)})
                    >= PageSize - (Cardinality({p \in start : Before(p, target)}) % PageSize)

\* p and q sort by their texts as they do in the tree, and q is between the
\* bounds of p's subtree when it is in it.
SortedAsTree(p, q) ==
    /\ StoredBefore(p, q) <=> Before(p, q)
    /\ q \in InSearchBounds({q}, p) <=> Len(q) > Len(p) /\ SubSeq(q, 1, Len(p)) = p

\* path.rs: "bytewise ORDER BY path is a depth-first preorder walk", and the
\* bounds that the next place is searched between hold a post's descendants
\* and nothing else.  So it is for each post that is added and all the others.
TextSortsAsTree ==
    [][\A p \in tree' \ tree :
         /\ SortedAsTree(<<>>, p)
         /\ \A q \in tree : SortedAsTree(p, q) /\ SortedAsTree(q, p)]_tree
=============================================================================
