---------------------------- MODULE Stores_proofs ----------------------------
(* The two adapters give the same answers and leave the same rows, whatever *)
(* they are asked, and the tables stay as the migrations declare them.      *)
EXTENDS Stores, Paths_proofs

-----------------------------------------------------------------------------
(* Errors.                                                                  *)

\* A primary key that is the row id never fails, so in most tables there is one
\* constraint whose failure means a conflict, and both adapters tell it.
LEMMA ReadAlike ==
    ASSUME NEW db, NEW r, NEW value, r.stopped \in {"no", "unique", "foreign"}
    PROVE  RunRead(db, r, value) = Racing(db, r, {"unique"}, value)
BY DEF RunRead, Racing, Execute, WriteError

LEMMA KeyReadAlike ==
    ASSUME NEW db, NEW r, NEW value
    PROVE  RunRead(db, r, value) = Racing(db, r, {"primary", "unique"}, value)
BY DEF RunRead, Racing, Execute, WriteError

LEMMA RunAlike ==
    ASSUME NEW db, NEW r, NEW value
    PROVE  Run(db, r, value) = Execute(db, r, value)
BY DEF Run, Execute

LEMMA Stops ==
    ASSUME NEW db, NEW c
    PROVE  /\ InsertThread(db, c.new).stopped \in {"no", "unique", "foreign"}
           /\ MarkEmailVerified(db, c.user, c.email, c.now).stopped \in {"no", "unique"}
           /\ InsertSpace(db, c.row).stopped \in {"no", "unique", "foreign"}
           /\ InsertUser(db, c.name, c.at, c.hash).stopped \in {"no", "unique"}
           /\ ConsumeEmailToken(db, c.hash, c.kind, c.now).stopped = "no"
BY DEF InsertThread, MarkEmailVerified, InsertSpace, InsertUser, ConsumeEmailToken,
       Insert, Update, Wrote, Stopped

LEMMA ThreadsAlike ==
    ASSUME NEW db, NEW c, c.do \in ThreadMethods
    PROVE  D1Threads(db, c) = LiteThreads(db, c)
<1>1. RunRead(db, InsertThread(db, c.new), Inserted(InsertThread(db, c.new).db, "thread"))
      = Racing(db, InsertThread(db, c.new), {"unique"},
               Inserted(InsertThread(db, c.new).db, "thread"))
  BY ReadAlike, Stops
<1>2. CASE c.do = "create_thread"
  BY <1>1, <1>2, Zenon DEF D1Threads, LiteThreads
<1>3. CASE c.do = "thread_page"
  BY <1>3, Zenon DEF D1Threads, LiteThreads, FetchThreadPage, ThreadPage
<1>4. CASE c.do # "create_thread" /\ c.do # "thread_page"
  BY <1>4, Zenon DEF D1Threads, LiteThreads, ThreadMethods, FetchPostLocation
<1> QED
  BY <1>2, <1>3, <1>4

LEMMA EmailAlike ==
    ASSUME NEW db, NEW c, c.do \in EmailMethods
    PROVE  D1Email(db, c) = LiteEmail(db, c)
<1> DEFINE mark == MarkEmailVerified(db, c.user, c.email, c.now)
           consume == ConsumeEmailToken(db, c.hash, c.kind, c.now)
<1>1. RunRead(db, mark, mark.changes > 0) = Racing(db, mark, {"unique"}, mark.changes > 0)
  BY ReadAlike, Stops
<1>2. CASE c.do = "mark_email_verified"
  BY <1>1, <1>2, Zenon DEF D1Email, LiteEmail
<1>3. Got(consume.db, consume.rows) = Execute(db, consume, consume.rows)
  BY Stops DEF Execute
<1>4. CASE c.do = "consume_email_token"
  BY <1>3, <1>4, Zenon DEF D1Email, LiteEmail
<1>5. CASE c.do # "mark_email_verified" /\ c.do # "consume_email_token"
  BY <1>5, Zenon DEF D1Email, LiteEmail, EmailMethods, Run, Execute
<1> QED
  BY <1>2, <1>4, <1>5

LEMMA IdentitiesAlike ==
    ASSUME NEW db, NEW c, c.do \in IdentityMethods
    PROVE  D1Identities(db, c) = LiteIdentities(db, c)
<1> DEFINE link == InsertIdentity(db, c.provider, c.subject, c.user, c.email, c.now)
<1>1. RunRead(db, link, TRUE) = Racing(db, link, {"primary", "unique"}, TRUE)
  BY KeyReadAlike
<1>2. CASE c.do = "link_identity"
  BY <1>1, <1>2, Zenon DEF D1Identities, LiteIdentities
<1>3. CASE c.do # "link_identity"
  BY <1>3, Zenon DEF D1Identities, LiteIdentities, IdentityMethods, Run, Execute
<1> QED
  BY <1>2, <1>3

LEMMA AdministrationAlike ==
    ASSUME NEW db, NEW c, c.do \in AdminMethods
    PROVE  D1Administration(db, c) = LiteAdministration(db, c)
<1> DEFINE space == InsertSpace(db, c.row)
           edit == UpdateThread(db, c.thread, c.edit)
<1>1. RunRead(db, space, Len(space.db.space)) = Racing(db, space, {"unique"}, Len(space.db.space))
  BY ReadAlike, Stops
<1>2. CASE c.do = "create_space"
  BY <1>1, <1>2, Zenon DEF D1Administration, LiteAdministration
<1>3. CASE c.do = "update_thread"
  <2>1. D1Administration(db, c)
        = IF edit.stopped = "no" /\ edit.changes = 0 THEN Fail(db, "not_found")
          ELSE Run(db, edit, TRUE)
    BY <1>3, Zenon DEF D1Administration
  <2>2. LiteAdministration(db, c)
        = IF edit.stopped # "no" THEN Execute(db, edit, TRUE)
          ELSE IF edit.changes = 0 THEN Fail(db, "not_found") ELSE Got(edit.db, TRUE)
    BY <1>3, Zenon DEF LiteAdministration, FoundFirst
  <2>3. CASE edit.stopped = "no"
    <3>1. Run(db, edit, TRUE) = Got(edit.db, TRUE)
      BY <2>3, Zenon DEF Run
    <3>2. CASE edit.changes = 0
      BY <2>1, <2>2, <2>3, <3>2, Zenon
    <3>3. CASE edit.changes # 0
      BY <2>1, <2>2, <2>3, <3>1, <3>3, Zenon
    <3> QED
      BY <3>2, <3>3
  <2>4. CASE edit.stopped # "no"
    BY <2>1, <2>2, <2>4, Zenon DEF Run, Execute
  <2> QED
    BY <2>3, <2>4
<1>4. CASE c.do # "create_space" /\ c.do # "update_thread"
  BY <1>4, Zenon DEF D1Administration, LiteAdministration, AdminMethods, Run, Execute
<1> QED
  BY <1>2, <1>3, <1>4

LEMMA InsertPostAlike ==
    ASSUME NEW db, NEW new
    PROVE  AppendPost(db, new) = InsertPostTx(db, new)
<1> DEFINE thread == TheOne(ThreadIds(db, new.thread))
           parent == IF new.parent = Null \/ thread = Null THEN Null
                     ELSE PostInThread(db, new.parent[1], thread[1])
           below  == IF parent = Null THEN <<>> ELSE db.post[parent[1]].path
           path == Allocate(below, LastPathInRange(db, thread[1], below))
           insert == InsertPost(db, NewPostRow(new, thread[1], parent, path))
           bump == BumpThread(insert.db, thread[1], new.at)
<1>1. AppendPost(db, new)
      = IF thread = Null \/ (new.parent # Null /\ parent = Null) THEN Fail(db, "not_found")
        ELSE IF path = <<>> THEN Fail(db, "backend")
        ELSE IF insert.stopped # "no" THEN Fail(db, WriteError(insert.stopped))
        ELSE Got(bump.db, Inserted(insert.db, "post"))
  BY DEF AppendPost
<1>2. InsertPostTx(db, new)
      = IF thread = Null \/ (new.parent # Null /\ parent = Null) THEN Fail(db, "not_found")
        ELSE IF path = <<>> THEN Fail(db, "backend")
        ELSE IF insert.stopped # "no" THEN Racing(db, insert, {"unique", "primary"}, <<>>)
        ELSE Got(bump.db, Inserted(insert.db, "post"))
  BY DEF InsertPostTx
<1> HIDE DEF thread, parent, below, path, insert, bump
<1>3. insert.stopped # "no" =>
        Racing(db, insert, {"unique", "primary"}, <<>>) = Fail(db, WriteError(insert.stopped))
  BY DEF Racing, Execute, WriteError
<1> QED
  BY <1>1, <1>2, <1>3

LEMMA UsersAlike ==
    ASSUME NEW db, NEW c, c.do \in UserMethods
    PROVE  D1Users(db, c) = LiteUsers(db, c)
<1> DEFINE user == InsertUser(db, c.name, c.at, c.hash)
<1>1. RunRead(db, user, Len(user.db.user)) = Racing(db, user, {"unique"}, Len(user.db.user))
  BY ReadAlike, Stops
<1>2. CASE c.do = "create_user"
  BY <1>1, <1>2, Zenon DEF D1Users, LiteUsers
<1>3. CASE c.do = "insert_post"
  BY <1>3, InsertPostAlike, Zenon DEF D1Users, LiteUsers
<1>4. CASE c.do # "create_user" /\ c.do # "insert_post"
  BY <1>4, Zenon DEF D1Users, LiteUsers, UserMethods, Run, Execute
<1> QED
  BY <1>2, <1>3, <1>4

LEMMA SessionsAlike ==
    ASSUME NEW db, NEW c, c.do \in SessionMethods
    PROVE  D1Sessions(db, c) = LiteSessions(db, c)
BY Zenon DEF D1Sessions, LiteSessions, SessionMethods, Run, Execute

\* The one row that a lookup by key found, if it found one.
LEMMA OneRow ==
    ASSUME NEW ids
    PROVE  TheOne(ids) = Null \/ \E x : TheOne(ids) = <<x>>
BY DEF TheOne, Null

LEMMA OpenItem ==
    ASSUME NEW found, found = Null \/ \E x : found = <<x>>
    PROVE  TheOne({item \in ToSet(found) : ~item.resolved})
           = IF found = Null \/ (found # Null /\ found[1].resolved) THEN Null ELSE found
<1>1. CASE found = Null
  <2>1. {item \in ToSet(found) : ~item.resolved} = {}
    BY <1>1 DEF ToSet, Null
  <2> QED
    BY <1>1, <2>1 DEF TheOne
<1>2. ASSUME NEW x, found = <<x>>
      PROVE  TheOne({item \in ToSet(found) : ~item.resolved})
             = IF found = Null \/ (found # Null /\ found[1].resolved) THEN Null ELSE found
  <2>1. found # Null /\ found[1] = x /\ ToSet(found) = {x}
    BY <1>2 DEF ToSet, Null
  <2>2. CASE x.resolved
    <3>1. {item \in ToSet(found) : ~item.resolved} = {}
      BY <2>1, <2>2
    <3> QED
      BY <2>1, <2>2, <3>1 DEF TheOne
  <2>3. CASE ~x.resolved
    <3>1. {item \in ToSet(found) : ~item.resolved} = {x}
      BY <2>1, <2>3
    <3>2. TheOne({x}) = <<x>>
      BY DEF TheOne
    <3> QED
      BY <1>2, <2>1, <2>3, <3>1, <3>2
  <2> QED
    BY <2>2, <2>3
<1> QED
  BY <1>1, <1>2

LEMMA ReviewsAlike ==
    ASSUME NEW db, NEW c, c.do \in ReviewMethods
    PROVE  D1Reviews(db, c) = LiteReviews(db, c)
<1>1. CASE c.do = "resolve_review"
  <2> DEFINE item == ReviewById(db, c.review)
             r == ResolveReview(db, c.review, c.resolution, c.by, c.now)
             open == TheOne({x \in ToSet(item) : ~x.resolved})
  <2>1. D1Reviews(db, c)
        = IF item = Null \/ (item # Null /\ item[1].resolved) THEN Got(db, Null)
          ELSE Run(db, r, IF r.changes > 0 THEN item ELSE Null)
    BY <1>1, Zenon DEF D1Reviews
  <2>2. LiteReviews(db, c)
        = IF open = Null THEN Got(db, Null)
          ELSE Execute(db, r, IF r.changes > 0 THEN open ELSE Null)
    BY <1>1, Zenon DEF LiteReviews
  <2>3. item = Null \/ \E x : item = <<x>>
    <3> DEFINE ids == TheOne({c.review} \cap DOMAIN db.review)
    <3>1. item = [i \in DOMAIN ids |-> ReviewItem(db, ids[i])]
      BY DEF ReviewById, Rows
    <3>2. ids = Null \/ \E x : ids = <<x>>
      BY OneRow
    <3> HIDE DEF item, ids
    <3>3. CASE ids = Null
      BY <3>1, <3>3 DEF Null
    <3>4. ASSUME NEW x, ids = <<x>> PROVE item = <<ReviewItem(db, x)>>
      BY <3>1, <3>4
    <3> QED
      BY <3>2, <3>3, <3>4
  <2>4. open = IF item = Null \/ (item # Null /\ item[1].resolved) THEN Null ELSE item
    BY <2>3, OpenItem
  <2> HIDE DEF item, r, open
  <2> QED
    BY <2>1, <2>2, <2>4, RunAlike
<1>2. CASE c.do # "resolve_review"
  BY <1>2, Zenon DEF D1Reviews, LiteReviews, ReviewMethods, Run, Execute
<1> QED
  BY <1>1, <1>2

-----------------------------------------------------------------------------
(* What every call leaves of a database.                                    *)

Tables == DOMAIN EmptyDb

IsSeq(s) == \E S : s \in Seq(S)

\* A database has its tables; threads and posts are numbered; every post is in
\* a thread, which counts it.
Sane(db) ==
    /\ db = [t \in Tables |-> db[t]]
    /\ IsSeq(db.thread) /\ IsSeq(db.post)
    /\ \A i \in DOMAIN db.thread : /\ "count" \in DOMAIN db.thread[i]
                                   /\ "version" \in DOMAIN db.thread[i]
                                   /\ db.thread[i].version \in Nat
    /\ \A i \in DOMAIN db.post : /\ "thread" \in DOMAIN db.post[i]
                                 /\ "pid" \in DOMAIN db.post[i]
                                 /\ db.post[i].thread \in DOMAIN db.thread
    /\ \A i \in DOMAIN db.thread : db.thread[i].count = Cardinality(InThread(db, i))

\* What the rows have that refer to others or are told apart by an index.
Keyed(db) ==
    /\ IsSeq(db.user) /\ IsSeq(db.space)
    /\ \A i \in DOMAIN db.user : "name" \in DOMAIN db.user[i]
    /\ \A i \in DOMAIN db.thread : /\ "space" \in DOMAIN db.thread[i]
                                   /\ "author" \in DOMAIN db.thread[i]
    /\ \A i \in DOMAIN db.post : "path" \in DOMAIN db.post[i]
    /\ \A k \in DOMAIN db.session : "user" \in DOMAIN db.session[k]

Wired(db) == Keyed(db) /\ Schema(db)

\* Schema, table by table.
InPlace(threads, spaces, users) ==
    \A i \in DOMAIN threads : /\ threads[i].space \in DOMAIN spaces
                              /\ threads[i].author \in DOMAIN users
InThreads(posts, threads) ==
    \A i \in DOMAIN posts : /\ posts[i].thread \in DOMAIN threads
                            /\ posts[i].path # <<>> /\ posts[i].path \in Path
ToldApart(posts) ==
    \A i, j \in DOMAIN posts :
        i # j => /\ posts[i].pid # posts[j].pid
                 /\ posts[i].thread = posts[j].thread => posts[i].path # posts[j].path
NamedApart(users) == \A i, j \in DOMAIN users : i # j => users[i].name # users[j].name
OfUsers(sessions, users) == \A k \in DOMAIN sessions : sessions[k].user \in DOMAIN users

LEMMA SchemaIs ==
    ASSUME NEW db
    PROVE  Schema(db) <=> /\ InPlace(db.thread, db.space, db.user)
                          /\ InThreads(db.post, db.thread) /\ ToldApart(db.post)
                          /\ NamedApart(db.user) /\ OfUsers(db.session, db.user)
BY DEF Schema, InPlace, InThreads, ToldApart, NamedApart, OfUsers

LEMMA TablesAre ==
    Tables = {"user", "space", "thread", "post", "log", "review", "signal",
              "session", "attempt", "token", "identity"}
BY DEF Tables, EmptyDb

LEMMA SeqSame ==
    ASSUME NEW s, IsSeq(s), NEW f, f = [i \in DOMAIN s |-> f[i]]
    PROVE  IsSeq(f) /\ DOMAIN f = DOMAIN s
<1> DEFINE S == {f[i] : i \in DOMAIN s}
<1>1. PICK T : s \in Seq(T)
  BY DEF IsSeq
<1>2. Len(s) \in Nat /\ DOMAIN s = 1..Len(s)
  BY <1>1
<1>3. f \in [1..Len(s) -> S]
  BY <1>2
<1>4. f \in Seq(S)
  BY <1>2, <1>3, SeqDef
<1> QED
  BY <1>4 DEF IsSeq

LEMMA SeqMore ==
    ASSUME NEW s, IsSeq(s), NEW x
    PROVE  /\ Len(s) \in Nat /\ DOMAIN s = 1..Len(s) /\ IsFiniteSet(DOMAIN s)
           /\ IsSeq(Append(s, x)) /\ DOMAIN Append(s, x) = 1..(Len(s) + 1)
           /\ \A i \in DOMAIN s : Append(s, x)[i] = s[i]
           /\ Append(s, x)[Len(s) + 1] = x
<1>1. PICK T : s \in Seq(T)
  BY DEF IsSeq
<1>2. Len(s) \in Nat /\ DOMAIN s = 1..Len(s)
  BY <1>1
<1>3. s \in Seq(T \cup {x}) /\ x \in T \cup {x}
  BY <1>1, SeqDef
<1>4. /\ Append(s, x) \in Seq(T \cup {x}) /\ Len(Append(s, x)) = Len(s) + 1
      /\ \A i \in 1..Len(s) : Append(s, x)[i] = s[i]
      /\ Append(s, x)[Len(s) + 1] = x
  BY <1>3, AppendProperties
<1>5. DOMAIN Append(s, x) = 1..(Len(s) + 1)
  BY <1>4
<1>6. IsFiniteSet(DOMAIN s)
  BY <1>2, FS_Interval
<1> QED
  BY <1>2, <1>4, <1>5, <1>6 DEF IsSeq

LEMMA SeqIs == ASSUME NEW s, IsSeq(s) PROVE s = [i \in DOMAIN s |-> s[i]]
<1>1. PICK T : s \in Seq(T)
  BY DEF IsSeq
<1>2. Len(s) \in Nat /\ s \in [1..Len(s) -> T]
  BY <1>1
<1> QED
  BY <1>2

\* The same threads with the same counts, the same posts in the same places.
Same(db, e) ==
    /\ e = [t \in Tables |-> e[t]]
    /\ e.thread = [i \in DOMAIN db.thread |-> e.thread[i]]
    /\ e.post = [i \in DOMAIN db.post |-> e.post[i]]
    /\ \A i \in DOMAIN db.thread : /\ "count" \in DOMAIN e.thread[i]
                                   /\ "version" \in DOMAIN e.thread[i]
                                   /\ e.thread[i].version \in Nat
                                   /\ e.thread[i].count = db.thread[i].count
    /\ \A i \in DOMAIN db.post : /\ "thread" \in DOMAIN e.post[i]
                                 /\ "pid" \in DOMAIN e.post[i]
                                 /\ e.post[i].thread = db.post[i].thread

LEMMA SameSane == ASSUME NEW db, Sane(db), NEW e, Same(db, e) PROVE Sane(e)
<1>1. /\ IsSeq(e.thread) /\ DOMAIN e.thread = DOMAIN db.thread
      /\ IsSeq(e.post) /\ DOMAIN e.post = DOMAIN db.post
  BY SeqSame DEF Sane, Same
<1>2. \A i : InThread(e, i) = InThread(db, i)
  BY <1>1 DEF Same, InThread, Where
<1> QED
  BY <1>1, <1>2 DEF Sane, Same

\* A post's row, rewritten, is still in its place.
SamePath(p, q) == "path" \in DOMAIN p => "path" \in DOMAIN q /\ q.path = p.path

LEMMA PostTable ==
    ASSUME NEW db, Sane(db), NEW rows, rows = [i \in DOMAIN db.post |-> rows[i]],
           \A i \in DOMAIN db.post : /\ "thread" \in DOMAIN rows[i]
                                    /\ "pid" \in DOMAIN rows[i]
                                    /\ rows[i].thread = db.post[i].thread
                                    /\ rows[i].pid = db.post[i].pid
                                    /\ SamePath(db.post[i], rows[i])
    PROVE  /\ Sane([db EXCEPT !.post = rows])
           /\ Wired(db) => Wired([db EXCEPT !.post = rows])
           /\ [db EXCEPT !.post = rows].thread = db.thread
           /\ [db EXCEPT !.post = rows].post = rows
<1> DEFINE e == [db EXCEPT !.post = rows]
<1>1. DOMAIN db = Tables /\ "thread" \in Tables /\ "post" \in Tables
  BY TablesAre DEF Sane
<1>2. e = [u \in Tables |-> IF u = "post" THEN rows ELSE db[u]]
  BY <1>1
<1>3. e = [u \in Tables |-> e[u]] /\ e.thread = db.thread /\ e.post = rows
  BY <1>1, <1>2
<1> HIDE DEF e
<1>4. db.thread = [i \in DOMAIN db.thread |-> db.thread[i]]
  BY SeqIs DEF Sane
<1>5. Same(db, e)
  BY <1>3, <1>4 DEF Sane, Same
<1>6. /\ e.user = db.user /\ e.space = db.space /\ e.session = db.session
      /\ DOMAIN rows = DOMAIN db.post
  BY <1>1, TablesAre DEF e
<1>7. ASSUME Wired(db) PROVE Wired(e)
  <2>1. \A i \in DOMAIN rows :
            /\ "path" \in DOMAIN rows[i]
            /\ rows[i].path = db.post[i].path /\ rows[i].thread = db.post[i].thread
            /\ rows[i].pid = db.post[i].pid
    BY <1>6, <1>7 DEF Wired, Keyed, SamePath
  <2>2. Keyed(e)
    BY <1>3, <1>6, <1>7, <2>1 DEF Wired, Keyed
  <2>3. InThreads(rows, db.thread)
    BY <1>6, <1>7, <2>1, SchemaIs DEF Wired, InThreads
  <2>4. ToldApart(rows)
    <3>1. ToldApart(db.post)
      BY <1>7, SchemaIs DEF Wired
    <3>2. ASSUME NEW i \in DOMAIN rows, NEW j \in DOMAIN rows, i # j
          PROVE  /\ rows[i].pid # rows[j].pid
                 /\ rows[i].thread = rows[j].thread => rows[i].path # rows[j].path
      <4>1. i \in DOMAIN db.post /\ j \in DOMAIN db.post
        BY <1>6
      <4>2. /\ db.post[i].pid # db.post[j].pid
            /\ db.post[i].thread = db.post[j].thread => db.post[i].path # db.post[j].path
        BY <3>1, <3>2, <4>1 DEF ToldApart
      <4> QED
        BY <2>1, <4>2
    <3> QED
      BY <3>2 DEF ToldApart
  <2>5. Schema(e)
    BY <1>3, <1>6, <1>7, <2>3, <2>4, SchemaIs DEF Wired
  <2> QED
    BY <2>2, <2>5 DEF Wired
<1> QED
  BY <1>3, <1>5, <1>7, SameSane DEF e

\* A thread's row, rewritten, still names its author and one of the spaces.
Placed(t, u, spaces) ==
    "space" \in DOMAIN t /\ "author" \in DOMAIN t =>
        /\ "space" \in DOMAIN u /\ "author" \in DOMAIN u
        /\ u.author = t.author /\ u.space \in {t.space} \cup spaces

LEMMA ThreadTable ==
    ASSUME NEW db, Sane(db), NEW rows, rows = [i \in DOMAIN db.thread |-> rows[i]],
           \A i \in DOMAIN db.thread : /\ "count" \in DOMAIN rows[i]
                                      /\ "version" \in DOMAIN rows[i]
                                      /\ rows[i].version \in Nat
                                      /\ rows[i].count = db.thread[i].count
                                      /\ Placed(db.thread[i], rows[i], DOMAIN db.space)
    PROVE  /\ Sane([db EXCEPT !.thread = rows])
           /\ Wired(db) => Wired([db EXCEPT !.thread = rows])
           /\ [db EXCEPT !.thread = rows].thread = rows
           /\ [db EXCEPT !.thread = rows].post = db.post
<1> DEFINE e == [db EXCEPT !.thread = rows]
<1>1. DOMAIN db = Tables /\ "thread" \in Tables /\ "post" \in Tables
  BY TablesAre DEF Sane
<1>2. e = [u \in Tables |-> IF u = "thread" THEN rows ELSE db[u]]
  BY <1>1
<1>3. e = [u \in Tables |-> e[u]] /\ e.thread = rows /\ e.post = db.post
  BY <1>1, <1>2
<1> HIDE DEF e
<1>4. db.post = [i \in DOMAIN db.post |-> db.post[i]]
  BY SeqIs DEF Sane
<1>5. Same(db, e)
  BY <1>3, <1>4 DEF Sane, Same
<1>6. /\ e.user = db.user /\ e.space = db.space /\ e.session = db.session
      /\ DOMAIN rows = DOMAIN db.thread
  BY <1>1, TablesAre DEF e
<1>7. ASSUME Wired(db) PROVE Wired(e)
  <2>1. \A i \in DOMAIN rows :
            /\ "space" \in DOMAIN rows[i] /\ "author" \in DOMAIN rows[i]
            /\ rows[i].author = db.thread[i].author /\ rows[i].space \in DOMAIN db.space
    BY <1>6, <1>7 DEF Wired, Keyed, Schema, Placed
  <2>2. Keyed(e)
    BY <1>3, <1>6, <1>7, <2>1 DEF Wired, Keyed
  <2>3. InPlace(rows, db.space, db.user) /\ InThreads(db.post, rows)
    BY <1>6, <1>7, <2>1, SchemaIs DEF Wired, InPlace, InThreads
  <2>4. Schema(e)
    BY <1>3, <1>6, <1>7, <2>3, SchemaIs DEF Wired
  <2> QED
    BY <2>2, <2>4 DEF Wired
<1> QED
  BY <1>3, <1>5, <1>7, SameSane DEF e

\* A statement that writes to other tables, and to the rest of them.
Elsewhere(db, e) == e = [t \in Tables |-> e[t]] /\ e.thread = db.thread /\ e.post = db.post

\* A page that shows something else has another version.
Turned(db, e) ==
    \A i \in DOMAIN db.thread :
        Seen(e, i) # Seen(db, i) => e.thread[i].version > db.thread[i].version

\* What every call leaves of a sane database.
Kept(db, e) == Sane(e) /\ Turned(db, e) /\ (Wired(db) => Wired(e))

LEMMA Unturned ==
    ASSUME NEW db, NEW e,
           \A i \in DOMAIN db.thread :
               \/ e.thread[i].version > db.thread[i].version
               \/ /\ e.thread[i] = db.thread[i]
                  /\ InThread(e, i) = InThread(db, i)
                  /\ \A p \in InThread(db, i) : e.post[p] = db.post[p]
    PROVE  Turned(db, e)
BY DEF Turned, Seen

LEMMA ElsewhereSane == ASSUME NEW db, Sane(db), NEW e, Elsewhere(db, e) PROVE Sane(e)
<1>1. \A i : InThread(e, i) = InThread(db, i)
  BY DEF InThread, Where, Elsewhere
<1> QED
  BY <1>1 DEF Sane, Elsewhere

LEMMA ElsewhereKept ==
    ASSUME NEW db, Sane(db), NEW e, Elsewhere(db, e), Wired(db) => Wired(e)
    PROVE  Kept(db, e)
<1>1. \A i : InThread(e, i) = InThread(db, i)
  BY DEF InThread, Where, Elsewhere
<1>2. e.thread = db.thread /\ e.post = db.post
  BY DEF Elsewhere
<1> QED
  BY <1>1, <1>2, ElsewhereSane, Unturned DEF Kept

\* Users, spaces and sessions are left alone too.
Aside(db, e) ==
    Elsewhere(db, e) /\ e.user = db.user /\ e.space = db.space /\ e.session = db.session

LEMMA AsideKept == ASSUME NEW db, Sane(db), NEW e, Aside(db, e) PROVE Kept(db, e)
<1>1. Wired(db) => Wired(e)
  BY DEF Aside, Elsewhere, Wired, Keyed, Schema
<1> QED
  BY <1>1, ElsewhereKept DEF Aside

LEMMA NothingKept == ASSUME NEW db, Sane(db) PROVE Kept(db, db)
BY Unturned DEF Kept

\* Another table of users, with those there were and their names.
LEMMA UsersKept ==
    ASSUME NEW db, Sane(db), NEW rows,
           Wired(db) => /\ IsSeq(rows) /\ DOMAIN db.user \subseteq DOMAIN rows
                        /\ \A i \in DOMAIN rows : "name" \in DOMAIN rows[i]
                        /\ \A i, j \in DOMAIN rows : i # j => rows[i].name # rows[j].name
    PROVE  Kept(db, [db EXCEPT !.user = rows])
<1> DEFINE e == [db EXCEPT !.user = rows]
<1>1. /\ Elsewhere(db, e) /\ e.user = rows /\ e.space = db.space /\ e.session = db.session
      /\ e.thread = db.thread /\ e.post = db.post
  BY TablesAre DEF Sane, Elsewhere
<1> HIDE DEF e
<1>2. ASSUME Wired(db) PROVE Wired(e)
  <2>1. Keyed(e)
    BY <1>1, <1>2 DEF Wired, Keyed
  <2>2. Schema(e)
    BY <1>1, <1>2 DEF Wired, Schema
  <2> QED
    BY <2>1, <2>2 DEF Wired
<1> QED
  BY <1>1, <1>2, ElsewhereKept DEF e

LEMMA UsersSame ==
    ASSUME NEW db, Sane(db), NEW rows, rows = [i \in DOMAIN db.user |-> rows[i]],
           \A i \in DOMAIN db.user : "name" \in DOMAIN db.user[i] =>
               "name" \in DOMAIN rows[i] /\ rows[i].name = db.user[i].name
    PROVE  Kept(db, [db EXCEPT !.user = rows])
<1>1. ASSUME Wired(db)
      PROVE  /\ IsSeq(rows) /\ DOMAIN rows = DOMAIN db.user
             /\ \A i \in DOMAIN rows : "name" \in DOMAIN rows[i] /\ rows[i].name = db.user[i].name
  BY <1>1, SeqSame DEF Wired, Keyed
<1>2. Wired(db) => \A i, j \in DOMAIN db.user : i # j => db.user[i].name # db.user[j].name
  BY DEF Wired, Schema
<1> QED
  BY <1>1, <1>2, UsersKept

\* Another table of spaces, with those there were.
LEMMA SpacesKept ==
    ASSUME NEW db, Sane(db), NEW rows,
           Wired(db) => IsSeq(rows) /\ DOMAIN db.space \subseteq DOMAIN rows
    PROVE  Kept(db, [db EXCEPT !.space = rows])
<1> DEFINE e == [db EXCEPT !.space = rows]
<1>1. /\ Elsewhere(db, e) /\ e.space = rows /\ e.user = db.user /\ e.session = db.session
      /\ e.thread = db.thread /\ e.post = db.post
  BY TablesAre DEF Sane, Elsewhere
<1> HIDE DEF e
<1>2. ASSUME Wired(db) PROVE Wired(e)
  <2>1. Keyed(e)
    BY <1>1, <1>2 DEF Wired, Keyed
  <2>2. Schema(e)
    BY <1>1, <1>2 DEF Wired, Schema
  <2> QED
    BY <2>1, <2>2 DEF Wired
<1> QED
  BY <1>1, <1>2, ElsewhereKept DEF e

\* Another table of sessions, each of a user there is.
LEMMA SessionsKept ==
    ASSUME NEW db, Sane(db), NEW rows,
           Wired(db) => \A k \in DOMAIN rows : /\ "user" \in DOMAIN rows[k]
                                               /\ rows[k].user \in DOMAIN db.user
    PROVE  Kept(db, [db EXCEPT !.session = rows])
<1> DEFINE e == [db EXCEPT !.session = rows]
<1>1. /\ Elsewhere(db, e) /\ e.session = rows /\ e.user = db.user /\ e.space = db.space
      /\ e.thread = db.thread /\ e.post = db.post
  BY TablesAre DEF Sane, Elsewhere
<1> HIDE DEF e
<1>2. ASSUME Wired(db) PROVE Wired(e)
  <2>1. Keyed(e)
    BY <1>1, <1>2 DEF Wired, Keyed
  <2>2. Schema(e)
    BY <1>1, <1>2 DEF Wired, Schema
  <2> QED
    BY <2>1, <2>2 DEF Wired
<1> QED
  BY <1>1, <1>2, ElsewhereKept DEF e

LEMMA UserInserted ==
    ASSUME NEW db, Sane(db), NEW c
    PROVE  Kept(db, InsertUser(db, c.name, c.at, c.hash).db)
<1> DEFINE row == [name |-> c.name, created |-> c.at, hash |-> c.hash, state |-> "active",
                   role |-> "member", email |-> Null, verified |-> Null]
           rows == Append(db.user, row)
<1>1. CASE Named(db, c.name) # {}
  <2>1. InsertUser(db, c.name, c.at, c.hash).db = db
    BY <1>1 DEF InsertUser, Stopped
  <2> QED
    BY <2>1, NothingKept
<1>2. CASE Named(db, c.name) = {}
  <2>1. InsertUser(db, c.name, c.at, c.hash).db = [db EXCEPT !.user = rows]
    BY <1>2 DEF InsertUser, Insert, Wrote
  <2>2. "name" \in DOMAIN row /\ row.name = c.name
    OBVIOUS
  <2>3. \A i \in DOMAIN db.user : db.user[i].name # c.name
    BY <1>2 DEF Named, Where
  <2> HIDE DEF row
  <2>4. ASSUME Wired(db)
        PROVE  /\ IsSeq(rows) /\ DOMAIN db.user \subseteq DOMAIN rows
               /\ \A i \in DOMAIN rows : "name" \in DOMAIN rows[i]
               /\ \A i, j \in DOMAIN rows : i # j => rows[i].name # rows[j].name
    <3> DEFINE n == Len(db.user)
    <3>1. /\ n \in Nat /\ DOMAIN db.user = 1..n /\ IsSeq(rows) /\ DOMAIN rows = 1..(n + 1)
          /\ \A i \in 1..n : rows[i] = db.user[i]
          /\ rows[n + 1] = row
      BY <2>4, SeqMore DEF Wired, Keyed
    <3>2. /\ \A i \in 1..n : "name" \in DOMAIN db.user[i]
          /\ \A i, j \in 1..n : i # j => db.user[i].name # db.user[j].name
      BY <2>4, <3>1 DEF Wired, Keyed, Schema
    <3> HIDE DEF rows, n
    <3>3. \A i \in DOMAIN rows : i \in 1..n \/ i = n + 1
      BY <3>1
    <3>4. \A i \in DOMAIN rows : "name" \in DOMAIN rows[i]
      BY <2>2, <3>1, <3>2, <3>3
    <3>5. \A i, j \in DOMAIN rows : i # j => rows[i].name # rows[j].name
      BY <2>2, <2>3, <3>1, <3>2, <3>3
    <3> QED
      BY <3>1, <3>4, <3>5
  <2> HIDE DEF rows
  <2> QED
    BY <2>1, <2>4, UsersKept
<1> QED
  BY <1>1, <1>2

LEMMA UserStatements ==
    ASSUME NEW db, Sane(db), NEW c
    PROVE  /\ Kept(db, InsertUser(db, c.name, c.at, c.hash).db)
           /\ Kept(db, SetPasswordHash(db, c.user, c.hash).db)
           /\ Kept(db, SetUserRole(db, c.user, c.role).db)
           /\ Kept(db, SetUserState(db, c.user, c.state).db)
           /\ Kept(db, SetEmail(db, c.user, c.email).db)
           /\ Kept(db, MarkEmailVerified(db, c.user, c.email, c.now).db)
<1>1. Kept(db, SetPasswordHash(db, c.user, c.hash).db)
  <2> DEFINE ids == {c.user} \cap DOMAIN db.user
             rows == [i \in DOMAIN db.user |->
                         IF i \in ids THEN [db.user[i] EXCEPT !.hash = <<c.hash>>] ELSE db.user[i]]
  <2>1. SetPasswordHash(db, c.user, c.hash).db = [db EXCEPT !.user = rows]
    BY DEF SetPasswordHash, UpdateUser, Update, Wrote
  <2>2. /\ rows = [i \in DOMAIN db.user |-> rows[i]]
        /\ \A i \in DOMAIN db.user : "name" \in DOMAIN db.user[i] =>
               "name" \in DOMAIN rows[i] /\ rows[i].name = db.user[i].name
    OBVIOUS
  <2> HIDE DEF rows
  <2> QED
    BY <2>1, <2>2, UsersSame
<1>2. Kept(db, SetUserRole(db, c.user, c.role).db)
  <2> DEFINE ids == {c.user} \cap DOMAIN db.user
             rows == [i \in DOMAIN db.user |->
                         IF i \in ids THEN [db.user[i] EXCEPT !.role = c.role] ELSE db.user[i]]
  <2>1. SetUserRole(db, c.user, c.role).db = [db EXCEPT !.user = rows]
    BY DEF SetUserRole, UpdateUser, Update, Wrote
  <2>2. /\ rows = [i \in DOMAIN db.user |-> rows[i]]
        /\ \A i \in DOMAIN db.user : "name" \in DOMAIN db.user[i] =>
               "name" \in DOMAIN rows[i] /\ rows[i].name = db.user[i].name
    OBVIOUS
  <2> HIDE DEF rows
  <2> QED
    BY <2>1, <2>2, UsersSame
<1>3. Kept(db, SetUserState(db, c.user, c.state).db)
  <2> DEFINE ids == {c.user} \cap DOMAIN db.user
             rows == [i \in DOMAIN db.user |->
                         IF i \in ids THEN [db.user[i] EXCEPT !.state = c.state] ELSE db.user[i]]
  <2>1. SetUserState(db, c.user, c.state).db = [db EXCEPT !.user = rows]
    BY DEF SetUserState, UpdateUser, Update, Wrote
  <2>2. /\ rows = [i \in DOMAIN db.user |-> rows[i]]
        /\ \A i \in DOMAIN db.user : "name" \in DOMAIN db.user[i] =>
               "name" \in DOMAIN rows[i] /\ rows[i].name = db.user[i].name
    OBVIOUS
  <2> HIDE DEF rows
  <2> QED
    BY <2>1, <2>2, UsersSame
<1>4. Kept(db, SetEmail(db, c.user, c.email).db)
  <2> DEFINE ids == {c.user} \cap DOMAIN db.user
             rows == [i \in DOMAIN db.user |->
                         IF i \in ids THEN [db.user[i] EXCEPT !.email = c.email, !.verified = Null] ELSE db.user[i]]
  <2>1. SetEmail(db, c.user, c.email).db = [db EXCEPT !.user = rows]
    BY DEF SetEmail, UpdateUser, Update, Wrote
  <2>2. /\ rows = [i \in DOMAIN db.user |-> rows[i]]
        /\ \A i \in DOMAIN db.user : "name" \in DOMAIN db.user[i] =>
               "name" \in DOMAIN rows[i] /\ rows[i].name = db.user[i].name
    OBVIOUS
  <2> HIDE DEF rows
  <2> QED
    BY <2>1, <2>2, UsersSame
<1>5. Kept(db, MarkEmailVerified(db, c.user, c.email, c.now).db)
  <2> DEFINE ids == {i \in {c.user} \cap DOMAIN db.user : db.user[i].email = <<c.email>>}
             rows == [i \in DOMAIN db.user |->
                         IF i \in ids THEN [db.user[i] EXCEPT !.verified = <<c.now>>] ELSE db.user[i]]
  <2>1. \/ MarkEmailVerified(db, c.user, c.email, c.now).db = db
        \/ MarkEmailVerified(db, c.user, c.email, c.now).db = [db EXCEPT !.user = rows]
    BY DEF MarkEmailVerified, Update, Wrote, Stopped
  <2>2. /\ rows = [i \in DOMAIN db.user |-> rows[i]]
        /\ \A i \in DOMAIN db.user : "name" \in DOMAIN db.user[i] =>
               "name" \in DOMAIN rows[i] /\ rows[i].name = db.user[i].name
    OBVIOUS
  <2> HIDE DEF rows
  <2> QED
    BY <2>1, <2>2, UsersSame, NothingKept
<1> QED
  BY <1>1, <1>2, <1>3, <1>4, <1>5, UserInserted

LEMMA SessionStatements ==
    ASSUME NEW db, Sane(db), NEW c
    PROVE  /\ "user" \in DOMAIN c.row => Kept(db, InsertSession(db, c.token, c.row).db)
           /\ Kept(db, RefreshSession(db, c.token, c.refreshed, c.expires).db)
           /\ Kept(db, DeleteSession(db, c.token).db)
           /\ Kept(db, DeleteUserSessions(db, c.user).db)
           /\ Kept(db, RecordLoginAttempt(db, c.key, c.row).db)
           /\ Kept(db, ClearLoginAttempts(db, c.key).db)
           /\ Kept(db, SweepLoginAttempts(db, c.cutoff).db)
<1>0. Wired(db) => \A k \in DOMAIN db.session : /\ "user" \in DOMAIN db.session[k]
                                                /\ db.session[k].user \in DOMAIN db.user
  BY DEF Wired, Keyed, Schema
<1>1. ASSUME "user" \in DOMAIN c.row
      PROVE  Kept(db, InsertSession(db, c.token, c.row).db)
  <2> DEFINE rows == Put(db.session, c.token, c.row)
  <2>1. \/ InsertSession(db, c.token, c.row).db = db
        \/ /\ InsertSession(db, c.token, c.row).db = [db EXCEPT !.session = rows]
           /\ c.row.user \in DOMAIN db.user
    BY DEF InsertSession, InsertKey, Wrote, Stopped, Refers
  <2>2. \A k \in DOMAIN rows : rows[k] = c.row \/ (k \in DOMAIN db.session /\ rows[k] = db.session[k])
    BY DEF Put
  <2> HIDE DEF rows
  <2> QED
    BY <1>0, <1>1, <2>1, <2>2, SessionsKept, NothingKept
<1>2. Kept(db, RefreshSession(db, c.token, c.refreshed, c.expires).db)
  <2> DEFINE rows == [db.session EXCEPT ![c.token] =
                         [@ EXCEPT !.refreshed = c.refreshed, !.expires = c.expires]]
  <2>1. \/ RefreshSession(db, c.token, c.refreshed, c.expires).db = db
        \/ RefreshSession(db, c.token, c.refreshed, c.expires).db = [db EXCEPT !.session = rows]
    BY TablesAre DEF RefreshSession, Wrote, Sane
  <2>2. /\ DOMAIN rows = DOMAIN db.session
        /\ \A k \in DOMAIN rows : "user" \in DOMAIN db.session[k] =>
               "user" \in DOMAIN rows[k] /\ rows[k].user = db.session[k].user
    OBVIOUS
  <2> HIDE DEF rows
  <2> QED
    BY <1>0, <2>1, <2>2, SessionsKept, NothingKept
<1>3. ASSUME NEW keys PROVE Kept(db, DeleteKeys(db, "session", keys).db)
  <2> DEFINE rows == Drop(db.session, keys \cap DOMAIN db.session)
  <2>1. DeleteKeys(db, "session", keys).db = [db EXCEPT !.session = rows]
    BY DEF DeleteKeys, Wrote
  <2>2. \A k \in DOMAIN rows : k \in DOMAIN db.session /\ rows[k] = db.session[k]
    BY DEF Drop
  <2> HIDE DEF rows
  <2> QED
    BY <1>0, <2>1, <2>2, SessionsKept
<1>4. Kept(db, DeleteSession(db, c.token).db) /\ Kept(db, DeleteUserSessions(db, c.user).db)
  BY <1>3 DEF DeleteSession, DeleteUserSessions
<1>5. /\ Aside(db, RecordLoginAttempt(db, c.key, c.row).db)
      /\ Aside(db, ClearLoginAttempts(db, c.key).db)
      /\ Aside(db, SweepLoginAttempts(db, c.cutoff).db)
  BY TablesAre DEF Sane, Aside, Elsewhere, RecordLoginAttempt, ClearLoginAttempts,
     SweepLoginAttempts, DeleteKeys, Wrote
<1> QED
  BY <1>1, <1>2, <1>4, <1>5, AsideKept

LEMMA LinkStatements ==
    ASSUME NEW db, Sane(db), NEW c
    PROVE  /\ Kept(db, InsertEmailToken(db, c.hash, c.row).db)
           /\ Kept(db, ConsumeEmailToken(db, c.hash, c.kind, c.now).db)
           /\ Kept(db, RetireEmailTokens(db, c.user, c.kind, c.now).db)
           /\ Kept(db, InsertIdentity(db, c.provider, c.subject, c.user, c.email, c.now).db)
           /\ Kept(db, TouchIdentity(db, c.provider, c.subject, c.now).db)
<1>1. Aside(db, InsertEmailToken(db, c.hash, c.row).db)
  BY TablesAre DEF Sane, Aside, Elsewhere, InsertEmailToken, InsertKey, Wrote, Stopped
<1>2. Aside(db, ConsumeEmailToken(db, c.hash, c.kind, c.now).db)
  BY TablesAre DEF Sane, Aside, Elsewhere, ConsumeEmailToken
<1>3. Aside(db, RetireEmailTokens(db, c.user, c.kind, c.now).db)
  BY TablesAre DEF Sane, Aside, Elsewhere, RetireEmailTokens, Wrote
<1>4. Aside(db, InsertIdentity(db, c.provider, c.subject, c.user, c.email, c.now).db)
  BY TablesAre DEF Sane, Aside, Elsewhere, InsertIdentity, InsertKey, Wrote, Stopped
<1>5. Aside(db, TouchIdentity(db, c.provider, c.subject, c.now).db)
  BY TablesAre DEF Sane, Aside, Elsewhere, TouchIdentity, Wrote
<1> QED
  BY <1>1, <1>2, <1>3, <1>4, <1>5, AsideKept

LEMMA ReviewStatements ==
    ASSUME NEW db, Sane(db), NEW c
    PROVE  /\ Kept(db, InsertAction(db, c.row).db)
           /\ Kept(db, UpsertReview(db, c.new).db)
           /\ Kept(db, ResolveReview(db, c.review, c.resolution, c.by, c.now).db)
           /\ Kept(db, InsertSignal(db, c.row).db)
<1>1. Aside(db, InsertAction(db, c.row).db)
  BY TablesAre DEF Sane, Aside, Elsewhere, InsertAction, Insert, Wrote, Stopped
<1>2. Aside(db, UpsertReview(db, c.new).db)
  BY TablesAre DEF Sane, Aside, Elsewhere, UpsertReview, Update, Insert, Wrote, Stopped
<1>3. Aside(db, ResolveReview(db, c.review, c.resolution, c.by, c.now).db)
  BY TablesAre DEF Sane, Aside, Elsewhere, ResolveReview, Update, Wrote, Stopped
<1>4. Aside(db, InsertSignal(db, c.row).db)
  BY TablesAre DEF Sane, Aside, Elsewhere, InsertSignal, Insert, Wrote, Stopped
<1> QED
  BY <1>1, <1>2, <1>3, <1>4, AsideKept

LEMMA SpaceStatements ==
    ASSUME NEW db, Sane(db), NEW c
    PROVE  /\ Kept(db, InsertSpace(db, c.row).db)
           /\ Kept(db, UpdateSpace(db, c.space, c.name, c.ranking, c.cap, c.config).db)
<1>1. Kept(db, InsertSpace(db, c.row).db)
  <2> DEFINE rows == Append(db.space, c.row)
  <2>1. \/ InsertSpace(db, c.row).db = db
        \/ InsertSpace(db, c.row).db = [db EXCEPT !.space = rows]
    BY DEF InsertSpace, Insert, Wrote, Stopped
  <2>2. ASSUME Wired(db) PROVE IsSeq(rows) /\ DOMAIN db.space \subseteq DOMAIN rows
    BY <2>2, SeqMore DEF Wired, Keyed
  <2> HIDE DEF rows
  <2> QED
    BY <2>1, <2>2, SpacesKept, NothingKept
<1>2. Kept(db, UpdateSpace(db, c.space, c.name, c.ranking, c.cap, c.config).db)
  <2> DEFINE ids == {c.space} \cap DOMAIN db.space
             Set(s) == [s EXCEPT !.name = c.name, !.ranking = c.ranking, !.cap = c.cap,
                                 !.config = c.config]
             rows == [i \in DOMAIN db.space |-> IF i \in ids THEN Set(db.space[i]) ELSE db.space[i]]
  <2>1. UpdateSpace(db, c.space, c.name, c.ranking, c.cap, c.config).db = [db EXCEPT !.space = rows]
    BY DEF UpdateSpace, Update, Wrote
  <2>2. rows = [i \in DOMAIN db.space |-> rows[i]] /\ DOMAIN rows = DOMAIN db.space
    OBVIOUS
  <2> HIDE DEF rows
  <2>3. Wired(db) => IsSeq(rows)
    BY <2>2, SeqSame DEF Wired, Keyed
  <2> QED
    BY <2>1, <2>2, <2>3, SpacesKept
<1> QED
  BY <1>1, <1>2

-----------------------------------------------------------------------------
(* The statements that write to threads and posts.                          *)

\* The posts of ids are rewritten where they are, and no thread is; the
\* threads of ids get their next version, and no post changes.
Rewritten(db, e, ids) ==
    /\ e.thread = db.thread
    /\ DOMAIN e.post = DOMAIN db.post
    /\ \A p \in DOMAIN db.post : e.post[p].thread = db.post[p].thread
    /\ \A p \in DOMAIN db.post \ ids : e.post[p] = db.post[p]
Bumped(db, e, ids) ==
    /\ e.post = db.post
    /\ \A i \in DOMAIN db.thread :
           IF i \in ids THEN e.thread[i].version = db.thread[i].version + 1
           ELSE e.thread[i] = db.thread[i]

LEMMA PostUpdates ==
    ASSUME NEW db, Sane(db), NEW c
    PROVE  /\ Sane(UpdatePostBody(db, c.post, c.md, c.html, c.at).db)
           /\ Wired(db) => Wired(UpdatePostBody(db, c.post, c.md, c.html, c.at).db)
           /\ Rewritten(db, UpdatePostBody(db, c.post, c.md, c.html, c.at).db, PostIds(db, c.post))
           /\ PostIds(UpdatePostBody(db, c.post, c.md, c.html, c.at).db, c.post) = PostIds(db, c.post)
           /\ Sane(SetPostState(db, c.post, c.state).db)
           /\ Wired(db) => Wired(SetPostState(db, c.post, c.state).db)
           /\ Rewritten(db, SetPostState(db, c.post, c.state).db, PostIds(db, c.post))
           /\ PostIds(SetPostState(db, c.post, c.state).db, c.post) = PostIds(db, c.post)
           /\ Sane(TombstoneUserPosts(db, c.user).db)
           /\ Wired(db) => Wired(TombstoneUserPosts(db, c.user).db)
           /\ Rewritten(db, TombstoneUserPosts(db, c.user).db, StandingPosts(db, c.user))
<1>1. /\ Sane(UpdatePostBody(db, c.post, c.md, c.html, c.at).db)
      /\ Wired(db) => Wired(UpdatePostBody(db, c.post, c.md, c.html, c.at).db)
      /\ Rewritten(db, UpdatePostBody(db, c.post, c.md, c.html, c.at).db, PostIds(db, c.post))
      /\ PostIds(UpdatePostBody(db, c.post, c.md, c.html, c.at).db, c.post) = PostIds(db, c.post)
  <2> DEFINE ids == PostIds(db, c.post)
             rows == [i \in DOMAIN db.post |->
                 IF i \in ids
                 THEN [db.post[i] EXCEPT !.md = <<c.md>>, !.html = c.html, !.edited = <<c.at>>]
                 ELSE db.post[i]]
  <2>1. UpdatePostBody(db, c.post, c.md, c.html, c.at).db = [db EXCEPT !.post = rows]
    BY DEF UpdatePostBody, Update, Wrote
  <2>2. /\ rows = [i \in DOMAIN db.post |-> rows[i]]
        /\ \A i \in DOMAIN db.post :
               /\ "thread" \in DOMAIN rows[i] /\ "pid" \in DOMAIN rows[i]
               /\ rows[i].thread = db.post[i].thread /\ rows[i].pid = db.post[i].pid
               /\ SamePath(db.post[i], rows[i])
               /\ i \notin ids => rows[i] = db.post[i]
    BY DEF Sane, SamePath
  <2> HIDE DEF rows, ids
  <2>3. /\ Sane([db EXCEPT !.post = rows])
        /\ Wired(db) => Wired([db EXCEPT !.post = rows])
        /\ [db EXCEPT !.post = rows].post = rows
        /\ [db EXCEPT !.post = rows].thread = db.thread
    BY <2>2, PostTable
  <2> DEFINE e == [db EXCEPT !.post = rows]
  <2> HIDE DEF e
  <2>4. Rewritten(db, e, ids)
    BY <2>2, <2>3 DEF e, Rewritten
  <2>5. PostIds(e, c.post) = PostIds(db, c.post)
    BY <2>2, <2>3 DEF e, PostIds, Where
  <2> QED
    BY <2>1, <2>3, <2>4, <2>5 DEF e, ids
<1>2. /\ Sane(SetPostState(db, c.post, c.state).db)
      /\ Wired(db) => Wired(SetPostState(db, c.post, c.state).db)
      /\ Rewritten(db, SetPostState(db, c.post, c.state).db, PostIds(db, c.post))
      /\ PostIds(SetPostState(db, c.post, c.state).db, c.post) = PostIds(db, c.post)
  <2> DEFINE ids == PostIds(db, c.post)
             rows == [i \in DOMAIN db.post |->
                 IF i \in ids
                 THEN [db.post[i] EXCEPT !.state = c.state]
                 ELSE db.post[i]]
  <2>1. SetPostState(db, c.post, c.state).db = [db EXCEPT !.post = rows]
    BY DEF SetPostState, Update, Wrote
  <2>2. /\ rows = [i \in DOMAIN db.post |-> rows[i]]
        /\ \A i \in DOMAIN db.post :
               /\ "thread" \in DOMAIN rows[i] /\ "pid" \in DOMAIN rows[i]
               /\ rows[i].thread = db.post[i].thread /\ rows[i].pid = db.post[i].pid
               /\ SamePath(db.post[i], rows[i])
               /\ i \notin ids => rows[i] = db.post[i]
    BY DEF Sane, SamePath
  <2> HIDE DEF rows, ids
  <2>3. /\ Sane([db EXCEPT !.post = rows])
        /\ Wired(db) => Wired([db EXCEPT !.post = rows])
        /\ [db EXCEPT !.post = rows].post = rows
        /\ [db EXCEPT !.post = rows].thread = db.thread
    BY <2>2, PostTable
  <2> DEFINE e == [db EXCEPT !.post = rows]
  <2> HIDE DEF e
  <2>4. Rewritten(db, e, ids)
    BY <2>2, <2>3 DEF e, Rewritten
  <2>5. PostIds(e, c.post) = PostIds(db, c.post)
    BY <2>2, <2>3 DEF e, PostIds, Where
  <2> QED
    BY <2>1, <2>3, <2>4, <2>5 DEF e, ids
<1>3. /\ Sane(TombstoneUserPosts(db, c.user).db)
      /\ Wired(db) => Wired(TombstoneUserPosts(db, c.user).db)
      /\ Rewritten(db, TombstoneUserPosts(db, c.user).db, StandingPosts(db, c.user))
  <2> DEFINE ids == StandingPosts(db, c.user)
             rows == [i \in DOMAIN db.post |->
                 IF i \in ids
                 THEN [db.post[i] EXCEPT !.state = "deleted"]
                 ELSE db.post[i]]
  <2>1. TombstoneUserPosts(db, c.user).db = [db EXCEPT !.post = rows]
    BY DEF TombstoneUserPosts, Update, Wrote
  <2>2. /\ rows = [i \in DOMAIN db.post |-> rows[i]]
        /\ \A i \in DOMAIN db.post :
               /\ "thread" \in DOMAIN rows[i] /\ "pid" \in DOMAIN rows[i]
               /\ rows[i].thread = db.post[i].thread /\ rows[i].pid = db.post[i].pid
               /\ SamePath(db.post[i], rows[i])
               /\ i \notin ids => rows[i] = db.post[i]
    BY DEF Sane, SamePath
  <2> HIDE DEF rows, ids
  <2>3. /\ Sane([db EXCEPT !.post = rows])
        /\ Wired(db) => Wired([db EXCEPT !.post = rows])
        /\ [db EXCEPT !.post = rows].post = rows
        /\ [db EXCEPT !.post = rows].thread = db.thread
    BY <2>2, PostTable
  <2> DEFINE e == [db EXCEPT !.post = rows]
  <2> HIDE DEF e
  <2>4. Rewritten(db, e, ids)
    BY <2>2, <2>3 DEF e, Rewritten
  <2> QED
    BY <2>1, <2>3, <2>4 DEF e, ids
<1> QED
  BY <1>1, <1>2, <1>3

LEMMA Turned1 ==
    ASSUME NEW t, "count" \in DOMAIN t, "version" \in DOMAIN t, t.version \in Nat
    PROVE  /\ "count" \in DOMAIN Turn(t) /\ "version" \in DOMAIN Turn(t)
           /\ Turn(t).version = t.version + 1 /\ Turn(t).count = t.count
           /\ \A spaces : Placed(t, Turn(t), spaces)
BY DEF Turn, Placed

LEMMA ThreadUpdates ==
    ASSUME NEW db, Sane(db), NEW c
    PROVE  /\ Sane(BumpThreadForPost(db, c.post).db)
           /\ Wired(db) => Wired(BumpThreadForPost(db, c.post).db)
           /\ Bumped(db, BumpThreadForPost(db, c.post).db,
                  {db.post[p].thread : p \in PostIds(db, c.post)})
           /\ Sane(BumpThreadsOfUser(db, c.user).db)
           /\ Wired(db) => Wired(BumpThreadsOfUser(db, c.user).db)
           /\ Bumped(db, BumpThreadsOfUser(db, c.user).db,
                  {db.post[p].thread : p \in StandingPosts(db, c.user)})
           /\ Sane(UpdateThread(db, c.thread, c.edit).db)
           /\ Wired(db) => Wired(UpdateThread(db, c.thread, c.edit).db)
           /\ \/ UpdateThread(db, c.thread, c.edit).db = db
              \/ Bumped(db, UpdateThread(db, c.thread, c.edit).db, ThreadIds(db, c.thread))
<1>1. /\ Sane(BumpThreadForPost(db, c.post).db)
      /\ Wired(db) => Wired(BumpThreadForPost(db, c.post).db)
      /\ Bumped(db, BumpThreadForPost(db, c.post).db,
             {db.post[p].thread : p \in PostIds(db, c.post)})
  <2> DEFINE ids == {db.post[p].thread : p \in PostIds(db, c.post)}
             rows == [i \in DOMAIN db.thread |->
                 IF i \in ids
                 THEN Turn(db.thread[i])
                 ELSE db.thread[i]]
  <2>1. BumpThreadForPost(db, c.post).db = [db EXCEPT !.thread = rows]
    BY DEF BumpThreadForPost, Update, Wrote
  <2> HIDE DEF ids
  <2>2. /\ rows = [i \in DOMAIN db.thread |-> rows[i]]
        /\ \A i \in DOMAIN db.thread :
               /\ "count" \in DOMAIN rows[i] /\ "version" \in DOMAIN rows[i]
               /\ rows[i].version \in Nat /\ rows[i].count = db.thread[i].count
               /\ Placed(db.thread[i], rows[i], DOMAIN db.space)
               /\ IF i \in ids THEN rows[i].version = db.thread[i].version + 1
                  ELSE rows[i] = db.thread[i]
    <3>1. rows = [i \in DOMAIN db.thread |-> rows[i]]
      OBVIOUS
    <3>2. ASSUME NEW i \in DOMAIN db.thread, i \in ids
          PROVE  /\ "count" \in DOMAIN rows[i] /\ "version" \in DOMAIN rows[i]
                 /\ rows[i].version \in Nat /\ rows[i].count = db.thread[i].count
                 /\ rows[i].version = db.thread[i].version + 1
                 /\ Placed(db.thread[i], rows[i], DOMAIN db.space)
      <4>1. rows[i] = Turn(db.thread[i])
        BY <3>2
      <4> QED
        BY <4>1, Turned1 DEF Sane
    <3>3. ASSUME NEW i \in DOMAIN db.thread, i \notin ids
          PROVE  rows[i] = db.thread[i]
      BY <3>3
    <3> HIDE DEF rows
    <3>4. \A t : Placed(t, t, DOMAIN db.space)
      BY DEF Placed
    <3> QED
      BY <3>1, <3>2, <3>3, <3>4 DEF Sane
  <2> HIDE DEF rows, ids
  <2>3. /\ Sane([db EXCEPT !.thread = rows])
        /\ Wired(db) => Wired([db EXCEPT !.thread = rows])
        /\ [db EXCEPT !.thread = rows].thread = rows
        /\ [db EXCEPT !.thread = rows].post = db.post
    BY <2>2, ThreadTable
  <2> DEFINE e == [db EXCEPT !.thread = rows]
  <2> HIDE DEF e
  <2>4. Bumped(db, e, ids)
    BY <2>2, <2>3 DEF e, Bumped
  <2> QED
    BY <2>1, <2>3, <2>4 DEF e, ids
<1>2. /\ Sane(BumpThreadsOfUser(db, c.user).db)
      /\ Wired(db) => Wired(BumpThreadsOfUser(db, c.user).db)
      /\ Bumped(db, BumpThreadsOfUser(db, c.user).db,
             {db.post[p].thread : p \in StandingPosts(db, c.user)})
  <2> DEFINE ids == {db.post[p].thread : p \in StandingPosts(db, c.user)}
             rows == [i \in DOMAIN db.thread |->
                 IF i \in ids
                 THEN Turn(db.thread[i])
                 ELSE db.thread[i]]
  <2>1. BumpThreadsOfUser(db, c.user).db = [db EXCEPT !.thread = rows]
    BY DEF BumpThreadsOfUser, Update, Wrote
  <2> HIDE DEF ids
  <2>2. /\ rows = [i \in DOMAIN db.thread |-> rows[i]]
        /\ \A i \in DOMAIN db.thread :
               /\ "count" \in DOMAIN rows[i] /\ "version" \in DOMAIN rows[i]
               /\ rows[i].version \in Nat /\ rows[i].count = db.thread[i].count
               /\ Placed(db.thread[i], rows[i], DOMAIN db.space)
               /\ IF i \in ids THEN rows[i].version = db.thread[i].version + 1
                  ELSE rows[i] = db.thread[i]
    <3>1. rows = [i \in DOMAIN db.thread |-> rows[i]]
      OBVIOUS
    <3>2. ASSUME NEW i \in DOMAIN db.thread, i \in ids
          PROVE  /\ "count" \in DOMAIN rows[i] /\ "version" \in DOMAIN rows[i]
                 /\ rows[i].version \in Nat /\ rows[i].count = db.thread[i].count
                 /\ rows[i].version = db.thread[i].version + 1
                 /\ Placed(db.thread[i], rows[i], DOMAIN db.space)
      <4>1. rows[i] = Turn(db.thread[i])
        BY <3>2
      <4> QED
        BY <4>1, Turned1 DEF Sane
    <3>3. ASSUME NEW i \in DOMAIN db.thread, i \notin ids
          PROVE  rows[i] = db.thread[i]
      BY <3>3
    <3> HIDE DEF rows
    <3>4. \A t : Placed(t, t, DOMAIN db.space)
      BY DEF Placed
    <3> QED
      BY <3>1, <3>2, <3>3, <3>4 DEF Sane
  <2> HIDE DEF rows, ids
  <2>3. /\ Sane([db EXCEPT !.thread = rows])
        /\ Wired(db) => Wired([db EXCEPT !.thread = rows])
        /\ [db EXCEPT !.thread = rows].thread = rows
        /\ [db EXCEPT !.thread = rows].post = db.post
    BY <2>2, ThreadTable
  <2> DEFINE e == [db EXCEPT !.thread = rows]
  <2> HIDE DEF e
  <2>4. Bumped(db, e, ids)
    BY <2>2, <2>3 DEF e, Bumped
  <2> QED
    BY <2>1, <2>3, <2>4 DEF e, ids
<1>3. /\ Sane(UpdateThread(db, c.thread, c.edit).db)
      /\ Wired(db) => Wired(UpdateThread(db, c.thread, c.edit).db)
      /\ \/ UpdateThread(db, c.thread, c.edit).db = db
         \/ Bumped(db, UpdateThread(db, c.thread, c.edit).db, ThreadIds(db, c.thread))
  <2> DEFINE ids == ThreadIds(db, c.thread)
             Set(t) == [t EXCEPT !.title = c.edit.title, !.url = c.edit.url,
                                 !.state = c.edit.state, !.space = c.edit.space,
                                 !.spacePath = c.edit.spacePath, !.version = @ + 1]
             rows == [i \in DOMAIN db.thread |->
                         IF i \in ids THEN Set(db.thread[i]) ELSE db.thread[i]]
             e == [db EXCEPT !.thread = rows]
  <2>0. ASSUME NEW t, "count" \in DOMAIN t, "version" \in DOMAIN t, t.version \in Nat
        PROVE  /\ "count" \in DOMAIN Set(t) /\ "version" \in DOMAIN Set(t)
               /\ Set(t).version = t.version + 1 /\ Set(t).count = t.count
               /\ c.edit.space \in DOMAIN db.space => Placed(t, Set(t), DOMAIN db.space)
    BY <2>0 DEF Placed
  <2>1. \/ UpdateThread(db, c.thread, c.edit).db = db
        \/ /\ UpdateThread(db, c.thread, c.edit).db = e
           /\ ids # {} => c.edit.space \in DOMAIN db.space
    BY DEF UpdateThread, Update, Wrote, Stopped, Refers
  <2>2. CASE UpdateThread(db, c.thread, c.edit).db = db
    BY <2>2
  <2>3. CASE UpdateThread(db, c.thread, c.edit).db # db
    <3>1. ids # {} => c.edit.space \in DOMAIN db.space
      BY <2>1, <2>3
    <3> HIDE DEF ids, Set
    <3>2. /\ rows = [i \in DOMAIN db.thread |-> rows[i]]
          /\ \A i \in DOMAIN db.thread :
                 /\ "count" \in DOMAIN rows[i] /\ "version" \in DOMAIN rows[i]
                 /\ rows[i].version \in Nat /\ rows[i].count = db.thread[i].count
                 /\ Placed(db.thread[i], rows[i], DOMAIN db.space)
                 /\ IF i \in ids THEN rows[i].version = db.thread[i].version + 1
                    ELSE rows[i] = db.thread[i]
      <4>1. rows = [i \in DOMAIN db.thread |-> rows[i]]
        OBVIOUS
      <4>2. ASSUME NEW i \in DOMAIN db.thread, i \in ids
            PROVE  /\ "count" \in DOMAIN rows[i] /\ "version" \in DOMAIN rows[i]
                   /\ rows[i].version \in Nat /\ rows[i].count = db.thread[i].count
                   /\ rows[i].version = db.thread[i].version + 1
                   /\ Placed(db.thread[i], rows[i], DOMAIN db.space)
        <5>1. rows[i] = Set(db.thread[i])
          BY <4>2
        <5> QED
          BY <2>0, <3>1, <4>2, <5>1 DEF Sane
      <4>3. ASSUME NEW i \in DOMAIN db.thread, i \notin ids
            PROVE  rows[i] = db.thread[i]
        BY <4>3
      <4> HIDE DEF rows
      <4>4. \A t : Placed(t, t, DOMAIN db.space)
        BY DEF Placed
      <4> QED
        BY <4>1, <4>2, <4>3, <4>4 DEF Sane
    <3> HIDE DEF rows, ids
    <3>3. Sane(e) /\ (Wired(db) => Wired(e)) /\ e.thread = rows /\ e.post = db.post
      BY <3>2, ThreadTable
    <3> HIDE DEF e
    <3>4. Bumped(db, e, ids)
      BY <3>2, <3>3 DEF Bumped
    <3> QED
      BY <2>1, <2>3, <3>3, <3>4 DEF ids
  <2> QED
    BY <2>2, <2>3
<1> QED
  BY <1>1, <1>2, <1>3

\* The posts rewritten and their threads' versions, in either order.
LEMMA BothTurn ==
    ASSUME NEW db, Sane(db), NEW e, NEW ids \in SUBSET DOMAIN db.post,
           \A p \in DOMAIN db.post : e.post[p].thread = db.post[p].thread,
           \A p \in DOMAIN db.post \ ids : e.post[p] = db.post[p],
           DOMAIN e.post = DOMAIN db.post,
           \A i \in DOMAIN db.thread :
               IF i \in {db.post[p].thread : p \in ids}
               THEN e.thread[i].version = db.thread[i].version + 1
               ELSE e.thread[i] = db.thread[i]
    PROVE  Turned(db, e)
<1>1. ASSUME NEW i \in DOMAIN db.thread, i \in {db.post[p].thread : p \in ids}
      PROVE  e.thread[i].version > db.thread[i].version
  <2>1. db.thread[i].version \in Nat
    BY DEF Sane
  <2> QED
    BY <1>1, <2>1
<1>2. ASSUME NEW i \in DOMAIN db.thread, i \notin {db.post[p].thread : p \in ids}
      PROVE  /\ e.thread[i] = db.thread[i]
             /\ InThread(e, i) = InThread(db, i)
             /\ \A p \in InThread(db, i) : e.post[p] = db.post[p]
  BY <1>2 DEF InThread, Where
<1> QED
  BY <1>1, <1>2, Unturned

LEMMA PostThenThread ==
    ASSUME NEW db, Sane(db), NEW d, NEW e, NEW ids \in SUBSET DOMAIN db.post,
           Rewritten(db, d, ids), Bumped(d, e, {d.post[p].thread : p \in ids})
    PROVE  Turned(db, e)
<1>1. {d.post[p].thread : p \in ids} = {db.post[p].thread : p \in ids}
  BY DEF Rewritten
<1> QED
  BY <1>1, BothTurn DEF Rewritten, Bumped

LEMMA ThreadThenPost ==
    ASSUME NEW db, Sane(db), NEW d, NEW e, NEW ids \in SUBSET DOMAIN db.post,
           Bumped(db, d, {db.post[p].thread : p \in ids}), Rewritten(d, e, ids)
    PROVE  Turned(db, e)
BY BothTurn DEF Rewritten, Bumped

LEMMA ThreadTurned ==
    ASSUME NEW db, Sane(db), NEW e, NEW ids, Bumped(db, e, ids)
    PROVE  Turned(db, e)
<1>1. \A i : InThread(e, i) = InThread(db, i)
  BY DEF InThread, Where, Bumped
<1>2. \A i \in DOMAIN db.thread : db.thread[i].version \in Nat
  BY DEF Sane
<1> QED
  BY <1>1, <1>2, Unturned DEF Bumped

\* What the three methods leave that write to posts and then, or before, to
\* their threads.
LEMMA TurnedAlong ==
    ASSUME NEW db, Sane(db), NEW c
    PROVE  /\ Kept(db, BumpThreadForPost(UpdatePostBody(db, c.post, c.md, c.html, c.at).db,
                  c.post).db)
           /\ Kept(db, BumpThreadForPost(SetPostState(db, c.post, c.state).db, c.post).db)
           /\ Kept(db, TombstoneUserPosts(BumpThreadsOfUser(db, c.user).db, c.user).db)
<1>1. ASSUME NEW d, Sane(d), Wired(db) => Wired(d), Rewritten(db, d, PostIds(db, c.post)),
             PostIds(d, c.post) = PostIds(db, c.post)
      PROVE  Kept(db, BumpThreadForPost(d, c.post).db)
  <2>1. /\ Sane(BumpThreadForPost(d, c.post).db)
        /\ Wired(d) => Wired(BumpThreadForPost(d, c.post).db)
        /\ Bumped(d, BumpThreadForPost(d, c.post).db, {d.post[p].thread : p \in PostIds(d, c.post)})
    BY <1>1, ThreadUpdates
  <2>2. PostIds(db, c.post) \in SUBSET DOMAIN db.post
    BY DEF PostIds, Where
  <2> QED
    BY <1>1, <2>1, <2>2, PostThenThread DEF Kept
<1>2. Kept(db, TombstoneUserPosts(BumpThreadsOfUser(db, c.user).db, c.user).db)
  <2> DEFINE d == BumpThreadsOfUser(db, c.user).db
             ids == StandingPosts(db, c.user)
  <2>1. Sane(d) /\ (Wired(db) => Wired(d)) /\ Bumped(db, d, {db.post[p].thread : p \in ids})
    BY ThreadUpdates
  <2>2. StandingPosts(d, c.user) = ids
    BY <2>1 DEF Bumped, StandingPosts, Where
  <2> HIDE DEF d
  <2>3. /\ Sane(TombstoneUserPosts(d, c.user).db)
        /\ Wired(d) => Wired(TombstoneUserPosts(d, c.user).db)
        /\ Rewritten(d, TombstoneUserPosts(d, c.user).db, ids)
    BY <2>1, <2>2, PostUpdates
  <2>4. ids \in SUBSET DOMAIN db.post
    BY DEF StandingPosts, Where
  <2> HIDE DEF ids
  <2>5. Kept(db, TombstoneUserPosts(d, c.user).db)
    BY <2>1, <2>3, <2>4, ThreadThenPost DEF Kept
  <2> QED
    BY <2>5 DEF d
<1> QED
  BY <1>1, <1>2, PostUpdates

\* The posts of no thread are among those of a new one.
LEMMA ThreadInserted ==
    ASSUME NEW db, Sane(db), NEW new
    PROVE  Kept(db, InsertThread(db, new).db)
<1> DEFINE n == Len(db.thread)
           row == [pid |-> new.pid, space |-> new.space, spacePath |-> new.spacePath,
                   kind |-> new.kind, title |-> new.title, url |-> new.url,
                   author |-> new.author, created |-> new.at, bumped |-> new.at,
                   count |-> 0, state |-> "visible", version |-> 0]
           rows == Append(db.thread, row)
           e == [db EXCEPT !.thread = rows]
<1>1. \/ InsertThread(db, new).db = db
      \/ /\ InsertThread(db, new).db = e
         /\ new.space \in DOMAIN db.space /\ new.author \in DOMAIN db.user
  BY DEF InsertThread, Insert, Wrote, Stopped, Refers
<1>2. /\ "count" \in DOMAIN row /\ row.count = 0 /\ "version" \in DOMAIN row /\ row.version \in Nat
      /\ "space" \in DOMAIN row /\ row.space = new.space
      /\ "author" \in DOMAIN row /\ row.author = new.author
  OBVIOUS
<1> HIDE DEF row
<1>3. /\ n \in Nat /\ DOMAIN db.thread = 1..n
      /\ IsSeq(rows) /\ DOMAIN rows = 1..(n + 1)
      /\ \A i \in 1..n : rows[i] = db.thread[i]
      /\ rows[n + 1] = row
  BY SeqMore DEF Sane
<1> HIDE DEF n, rows
<1>4. /\ e = [t \in Tables |-> e[t]] /\ e.thread = rows /\ e.post = db.post
      /\ e.user = db.user /\ e.space = db.space /\ e.session = db.session
  BY TablesAre DEF Sane
<1> HIDE DEF e
<1>5. \A i : InThread(e, i) = InThread(db, i)
  BY <1>4 DEF InThread, Where
<1>6. InThread(db, n + 1) = {}
  <2>1. \A i \in DOMAIN db.post : db.post[i].thread \in 1..n
    BY <1>3 DEF Sane
  <2> QED
    BY <1>3, <2>1 DEF InThread, Where
<1>7. Cardinality({}) = 0
  BY FS_EmptySet
<1>8. ASSUME NEW i \in DOMAIN rows
      PROVE  /\ "count" \in DOMAIN rows[i] /\ rows[i].count = Cardinality(InThread(e, i))
             /\ "version" \in DOMAIN rows[i] /\ rows[i].version \in Nat
  <2>1. CASE i = n + 1
    BY <1>2, <1>3, <1>5, <1>6, <1>7, <2>1
  <2>2. CASE i # n + 1
    <3>1. i \in 1..n
      BY <1>3, <2>2
    <3> QED
      BY <1>3, <1>5, <3>1 DEF Sane
  <2> QED
    BY <2>1, <2>2
<1>9. \A i \in DOMAIN db.post : db.post[i].thread \in DOMAIN rows
  BY <1>3 DEF Sane
<1>10. /\ IsSeq(db.post)
       /\ \A i \in DOMAIN db.post : "thread" \in DOMAIN db.post[i] /\ "pid" \in DOMAIN db.post[i]
  BY DEF Sane
<1>11. Sane(e)
  BY <1>3, <1>4, <1>8, <1>9, <1>10 DEF Sane
<1>12. Turned(db, e)
  BY <1>3, <1>4, <1>5, Unturned
<1>13. ASSUME new.space \in DOMAIN db.space, new.author \in DOMAIN db.user, Wired(db)
       PROVE  Wired(e)
  <2>1. ASSUME NEW i \in DOMAIN rows
        PROVE  /\ "space" \in DOMAIN rows[i] /\ "author" \in DOMAIN rows[i]
               /\ rows[i].space \in DOMAIN db.space /\ rows[i].author \in DOMAIN db.user
    <3>1. CASE i = n + 1
      BY <1>2, <1>3, <1>13, <3>1
    <3>2. CASE i # n + 1
      <4>1. i \in 1..n
        BY <1>3, <3>2
      <4> QED
        BY <1>3, <1>13, <4>1, SchemaIs DEF Wired, Keyed, InPlace
    <3> QED
      BY <3>1, <3>2
  <2>2. Keyed(e)
    BY <1>4, <1>13, <2>1 DEF Wired, Keyed
  <2>3. InPlace(rows, db.space, db.user) /\ InThreads(db.post, rows)
    BY <1>3, <1>13, <2>1, SchemaIs DEF Wired, InPlace, InThreads
  <2>4. Schema(e)
    BY <1>4, <1>13, <2>3, SchemaIs DEF Wired
  <2> QED
    BY <2>2, <2>4 DEF Wired
<1> QED
  BY <1>1, <1>11, <1>12, <1>13, NothingKept DEF Kept

\* A post is inserted and its thread counts it.
LEMMA PostCounted ==
    ASSUME NEW db, Sane(db), NEW t \in DOMAIN db.thread, NEW row,
           "thread" \in DOMAIN row, "pid" \in DOMAIN row, row.thread = t, NEW at,
           Wired(db) => /\ "path" \in DOMAIN row /\ row.path # <<>> /\ row.path \in Path
                        /\ \A i \in DOMAIN db.post :
                               /\ db.post[i].pid # row.pid
                               /\ db.post[i].thread = t => db.post[i].path # row.path
    PROVE  Kept(db, BumpThread(Insert(db, "post", row).db, t, at).db)
<1> DEFINE n == Len(db.post)
           posts == Append(db.post, row)
           Set(r) == [r EXCEPT !.count = @ + 1, !.bumped = at, !.version = @ + 1]
           rows == [i \in DOMAIN db.thread |->
                 IF i \in {t}
                 THEN Set(db.thread[i])
                 ELSE db.thread[i]]
           d == [db EXCEPT !.post = posts]
           e == [d EXCEPT !.thread = rows]
<1>1. /\ d = [u \in Tables |-> d[u]] /\ d.thread = db.thread /\ d.post = posts
      /\ d.user = db.user /\ d.space = db.space /\ d.session = db.session
  BY TablesAre DEF Sane
<1>2. Insert(db, "post", row).db = d
  BY DEF Insert, Wrote
<1>3. BumpThread(d, t, at).db = [d EXCEPT !.thread =
          [i \in DOMAIN d.thread |-> IF i \in {t} THEN Set(d.thread[i]) ELSE d.thread[i]]]
  BY DEF BumpThread, Update, Wrote
<1> HIDE DEF d
<1>4. BumpThread(d, t, at).db = e
  BY <1>1, <1>3
<1>5. /\ e = [u \in Tables |-> e[u]] /\ e.thread = rows /\ e.post = posts
      /\ e.user = db.user /\ e.space = db.space /\ e.session = db.session
  BY <1>1, TablesAre
<1>6. /\ n \in Nat /\ DOMAIN db.post = 1..n /\ IsFiniteSet(DOMAIN db.post)
      /\ IsSeq(posts) /\ DOMAIN posts = 1..(n + 1)
      /\ \A i \in 1..n : posts[i] = db.post[i]
      /\ posts[n + 1] = row
  BY SeqMore DEF Sane
<1>7. \A i \in DOMAIN db.thread :
          /\ "count" \in DOMAIN rows[i] /\ "version" \in DOMAIN rows[i] /\ rows[i].version \in Nat
          /\ rows[i].count = IF i = t THEN db.thread[i].count + 1 ELSE db.thread[i].count
  <2>1. ASSUME NEW i \in DOMAIN db.thread
        PROVE  /\ "count" \in DOMAIN db.thread[i] /\ "version" \in DOMAIN db.thread[i]
               /\ db.thread[i].version \in Nat
    BY DEF Sane
  <2>2. ASSUME NEW r, "count" \in DOMAIN r, "version" \in DOMAIN r, r.version \in Nat
        PROVE  /\ "count" \in DOMAIN Set(r) /\ "version" \in DOMAIN Set(r)
               /\ Set(r).version \in Nat /\ Set(r).count = r.count + 1
    BY <2>2
  <2> HIDE DEF Set
  <2>3. \A i \in DOMAIN db.thread : rows[i] = IF i = t THEN Set(db.thread[i]) ELSE db.thread[i]
    OBVIOUS
  <2> HIDE DEF rows
  <2> QED
    BY <2>1, <2>2, <2>3
<1>8. DOMAIN rows = DOMAIN db.thread /\ IsSeq(rows)
  BY SeqSame DEF Sane
<1>9. /\ rows[t].version > db.thread[t].version
       /\ \A i \in DOMAIN db.thread : i # t => rows[i] = db.thread[i]
  <2>1. "version" \in DOMAIN db.thread[t] /\ db.thread[t].version \in Nat
    BY DEF Sane
  <2>2. rows[t] = Set(db.thread[t]) /\ Set(db.thread[t]).version = db.thread[t].version + 1
    BY <2>1
  <2>3. \A i \in DOMAIN db.thread : i # t => rows[i] = db.thread[i]
    OBVIOUS
  <2> HIDE DEF rows, Set
  <2> QED
    BY <2>1, <2>2, <2>3
<1>17. \A i \in DOMAIN db.thread : \A spaces : Placed(db.thread[i], rows[i], spaces)
  BY DEF Placed
<1> HIDE DEF n, posts, rows, e
<1>10. /\ InThread(e, t) = InThread(db, t) \cup {n + 1} /\ n + 1 \notin InThread(db, t)
      /\ \A i : i # t => InThread(e, i) = InThread(db, i)
  BY <1>5, <1>6 DEF InThread, Where
<1>11. IsFiniteSet(InThread(db, t))
  <2>1. InThread(db, t) \subseteq DOMAIN db.post
    BY DEF InThread, Where
  <2> QED
    BY <1>6, <2>1, FS_Subset
<1>12. Cardinality(InThread(e, t)) = Cardinality(InThread(db, t)) + 1
  BY <1>10, <1>11, FS_AddElement
<1>13. \A i \in DOMAIN rows : rows[i].count = Cardinality(InThread(e, i))
  BY <1>7, <1>8, <1>10, <1>12 DEF Sane
<1>14. \A i \in DOMAIN posts : /\ "thread" \in DOMAIN posts[i] /\ "pid" \in DOMAIN posts[i]
                               /\ posts[i].thread \in DOMAIN rows
  <2> TAKE i \in DOMAIN posts
  <2>1. i \in 1..n \/ i = n + 1
    BY <1>6
  <2> QED
    BY <1>6, <1>8, <2>1 DEF Sane
<1>15. Sane(e)
  BY <1>5, <1>6, <1>7, <1>8, <1>13, <1>14 DEF Sane
<1>16. Turned(db, e)
  <2>1. rows[t].version > db.thread[t].version
    BY <1>9
  <2>2. \A i \in DOMAIN db.thread : i # t => rows[i] = db.thread[i]
    BY <1>9
  <2>3. \A i \in DOMAIN db.thread : \A p \in InThread(db, i) : posts[p] = db.post[p]
    BY <1>6 DEF InThread, Where
  <2> QED
    BY <1>5, <1>10, <2>1, <2>2, <2>3, Unturned
<1>18. ASSUME Wired(db) PROVE Wired(e)
  <2>1. /\ "path" \in DOMAIN row /\ row.path # <<>> /\ row.path \in Path
        /\ \A i \in DOMAIN db.post : /\ db.post[i].pid # row.pid
                                     /\ db.post[i].thread = t => db.post[i].path # row.path
    BY <1>18
  <2>2. Keyed(db) /\ InPlace(db.thread, db.space, db.user) /\ InThreads(db.post, db.thread)
        /\ ToldApart(db.post) /\ NamedApart(db.user) /\ OfUsers(db.session, db.user)
    BY <1>18, SchemaIs DEF Wired
  <2>3. \A i \in DOMAIN posts : i \in 1..n \/ i = n + 1
    BY <1>6
  <2>4. \A i \in DOMAIN rows : /\ "space" \in DOMAIN rows[i] /\ "author" \in DOMAIN rows[i]
                               /\ rows[i].author = db.thread[i].author
                               /\ rows[i].space \in DOMAIN db.space
    BY <1>8, <1>17, <2>2 DEF Keyed, Placed, InPlace
  <2>5. \A i \in DOMAIN posts : "path" \in DOMAIN posts[i]
    BY <1>6, <2>1, <2>2, <2>3 DEF Keyed
  <2>6. Keyed(e)
    BY <1>5, <2>2, <2>4, <2>5 DEF Keyed
  <2>7. InPlace(rows, db.space, db.user)
    BY <1>8, <2>2, <2>4 DEF InPlace
  <2>8. InThreads(posts, rows)
    BY <1>6, <1>8, <2>1, <2>2, <2>3 DEF InThreads
  <2>9. ToldApart(posts)
    <3>1. ASSUME NEW i \in 1..n
          PROVE  /\ posts[i].pid # posts[n + 1].pid
                 /\ posts[i].thread = posts[n + 1].thread => posts[i].path # posts[n + 1].path
      BY <1>6, <2>1
    <3>2. ASSUME NEW i \in 1..n, NEW j \in 1..n, i # j
          PROVE  /\ posts[i].pid # posts[j].pid
                 /\ posts[i].thread = posts[j].thread => posts[i].path # posts[j].path
      BY <1>6, <2>2, <3>2 DEF ToldApart
    <3> QED
      BY <2>3, <3>1, <3>2 DEF ToldApart
  <2>10. Schema(e)
    BY <1>5, <2>2, <2>7, <2>8, <2>9, SchemaIs
  <2> QED
    BY <2>6, <2>10 DEF Wired
<1> QED
  BY <1>2, <1>4, <1>15, <1>16, <1>18 DEF Kept

\* The last path below another is a path of its own length at least: the choice
\* in LastPathInRange is never of what is not there.
LEMMA LastPathIs ==
    ASSUME NEW db, Sane(db), Wired(db), NEW thread, NEW below
    PROVE  LET last == LastPathInRange(db, thread, below)
           IN  last \in Path /\ (last # <<>> => Len(last) > Len(below))
<1> DEFINE ids == {i \in InThread(db, thread) :
                      Len(db.post[i].path) > Len(below) /\ IsPrefix(below, db.post[i].path)}
           found == {db.post[i].path : i \in ids}
<1>1. LastPathInRange(db, thread, below)
      = IF found = {} THEN <<>> ELSE CHOOSE p \in found : \A q \in found : q = p \/ Before(q, p)
  BY DEF LastPathInRange
<1>2. ids \subseteq DOMAIN db.post /\ \A p \in found : Len(p) > Len(below)
  BY DEF InThread, Where
<1>3. IsFiniteSet(found)
  <2>1. IsFiniteSet(ids)
    BY <1>2, SeqMore, FS_Subset DEF Sane
  <2> HIDE DEF ids
  <2>2. [i \in ids |-> db.post[i].path] \in Surjection(ids, found)
    BY DEF Surjection
  <2> HIDE DEF found
  <2> QED
    BY <2>1, <2>2, FS_Surjection
<1> HIDE DEF ids
<1>4. found \in SUBSET Path
  BY <1>2, SchemaIs DEF Wired, InThreads
<1> HIDE DEF found
<1>5. ASSUME found # {}
      PROVE  LastPathInRange(db, thread, below) \in found
  <2>1. \E p \in found : \A q \in found : q = p \/ Before(q, p)
    BY <1>3, <1>4, <1>5, LastOf
  <2> QED
    BY <1>1, <1>5, <2>1
<1> QED
  BY <1>1, <1>2, <1>4, <1>5, NoPath

LEMMA PostAppended ==
    ASSUME NEW db, Sane(db), NEW new
    PROVE  Kept(db, AppendPost(db, new).db)
<1> DEFINE thread == TheOne(ThreadIds(db, new.thread))
           parent == IF new.parent = Null \/ thread = Null THEN Null
                     ELSE PostInThread(db, new.parent[1], thread[1])
           below  == IF parent = Null THEN <<>> ELSE db.post[parent[1]].path
           path == Allocate(below, LastPathInRange(db, thread[1], below))
           row == NewPostRow(new, thread[1], parent, path)
           insert == InsertPost(db, row)
           bump == BumpThread(insert.db, thread[1], new.at)
<1>1. AppendPost(db, new)
      = IF thread = Null \/ (new.parent # Null /\ parent = Null) THEN Fail(db, "not_found")
        ELSE IF path = <<>> THEN Fail(db, "backend")
        ELSE IF insert.stopped # "no" THEN Fail(db, WriteError(insert.stopped))
        ELSE Got(bump.db, Inserted(insert.db, "post"))
  BY DEF AppendPost
<1>2. /\ "thread" \in DOMAIN row /\ "pid" \in DOMAIN row /\ row.thread = thread[1]
      /\ "path" \in DOMAIN row /\ row.path = path
  BY DEF NewPostRow
<1>3. insert.stopped = "no" =>
          /\ insert.db = Insert(db, "post", row).db
          /\ \A i \in DOMAIN db.post :
                 /\ db.post[i].pid # row.pid
                 /\ db.post[i].thread = row.thread => db.post[i].path # row.path
  BY DEF InsertPost, Stopped
<1>4. thread # Null => thread[1] \in DOMAIN db.thread
  <2>1. ThreadIds(db, new.thread) \subseteq DOMAIN db.thread
    BY DEF ThreadIds, Where
  <2> QED
    BY <2>1 DEF TheOne, Null
<1>5. ASSUME Wired(db) PROVE path \in Path
  <2>1. below \in Path
    <3>1. parent = Null \/ parent[1] \in DOMAIN db.post
      BY DEF PostInThread, TheOne, PostIds, Where, Null
    <3> HIDE DEF parent
    <3>2. \A i \in DOMAIN db.post : db.post[i].path \in Path
      BY <1>5, SchemaIs DEF Wired, InThreads
    <3> QED
      BY <3>1, <3>2, NoPath
  <2> HIDE DEF below
  <2> QED
    BY <1>5, <2>1, LastPathIs, AllocateType
<1> HIDE DEF thread, row, insert, path
<1>6. ASSUME thread # Null, insert.stopped = "no", path # <<>>
      PROVE  Kept(db, bump.db)
  BY <1>2, <1>3, <1>4, <1>5, <1>6, PostCounted
<1> HIDE DEF bump, parent
<1> QED
  BY <1>1, <1>6, NothingKept DEF Fail, Got

-----------------------------------------------------------------------------
(* What every call leaves.                                                  *)

LEMMA RunKeeps ==
    ASSUME NEW db, Sane(db), NEW r, NEW value, Kept(db, r.db)
    PROVE  /\ Kept(db, Run(db, r, value).db)
           /\ Kept(db, RunRead(db, r, value).db)
BY NothingKept DEF Run, RunRead, Got, Fail

LEMMA ReadKeeps ==
    ASSUME NEW db, Sane(db), NEW value
    PROVE  /\ Kept(db, Got(db, value).db)
           /\ Kept(db, Fail(db, value).db)
           /\ Kept(db, Found(db, value).db)
BY NothingKept DEF Got, Fail, Found

LEMMA ThreadsKeep ==
    ASSUME NEW db, Sane(db), NEW c, c.do \in ThreadMethods
    PROVE  Kept(db, D1Threads(db, c).db)
<1>1. CASE c.do = "create_thread"
  <2> DEFINE r == InsertThread(db, c.new)
  <2>1. D1Threads(db, c) = RunRead(db, r, Inserted(r.db, "thread"))
    BY <1>1, Zenon DEF D1Threads
  <2> QED
    BY <2>1, ThreadInserted, RunKeeps
<1>2. CASE c.do = "thread_page"
  <2>1. D1Threads(db, c) = FetchThreadPage(db, c.thread, c.after, c.limit)
    BY <1>2, Zenon DEF D1Threads
  <2> QED
    BY <2>1, NothingKept DEF FetchThreadPage, Got, Fail
<1>3. CASE c.do = "locate_post"
  <2>1. D1Threads(db, c) = FetchPostLocation(db, c.post, c.size)
    BY <1>3, Zenon DEF D1Threads
  <2> QED
    BY <2>1, NothingKept DEF FetchPostLocation, Got, Fail
<1>4. CASE c.do \notin {"create_thread", "thread_page", "locate_post"}
  <2>1. \E value : D1Threads(db, c) = Got(db, value) \/ D1Threads(db, c) = Found(db, value)
    BY <1>4, Zenon DEF D1Threads, ThreadMethods
  <2> QED
    BY <2>1, ReadKeeps
<1> QED
  BY <1>1, <1>2, <1>3, <1>4

LEMMA BodiesKeep ==
    ASSUME NEW db, Sane(db), NEW c, c.do \in BodyMethods
    PROVE  Kept(db, D1Bodies(db, c).db)
<1>1. CASE c.do = "update_post_body"
  <2> DEFINE first == UpdatePostBody(db, c.post, c.md, c.html, c.at)
             second == BumpThreadForPost(first.db, c.post)
  <2>1. D1Bodies(db, c) = Batch(db, first, second)
    BY <1>1, Zenon DEF D1Bodies
  <2>2. Kept(db, second.db)
    BY TurnedAlong
  <2> HIDE DEF first, second
  <2> QED
    BY <2>1, <2>2 DEF Batch, Got, Fail
<1>2. CASE c.do # "update_post_body"
  <2>1. \E value : D1Bodies(db, c) = Got(db, value)
    BY <1>2, Zenon DEF D1Bodies, BodyMethods
  <2> QED
    BY <2>1, ReadKeeps
<1> QED
  BY <1>1, <1>2

LEMMA EmailKeeps ==
    ASSUME NEW db, Sane(db), NEW c, c.do \in EmailMethods
    PROVE  Kept(db, D1Email(db, c).db)
<1>1. CASE c.do = "set_email"
  <2> DEFINE r == SetEmail(db, c.user, c.email)
  <2>1. \E value : D1Email(db, c) = Run(db, r, value) \/ D1Email(db, c) = RunRead(db, r, value)
    BY <1>1, Zenon DEF D1Email
  <2>2. Kept(db, r.db)
    BY UserStatements
  <2> HIDE DEF r
  <2> QED
    BY <2>1, <2>2, RunKeeps
<1>2. CASE c.do = "mark_email_verified"
  <2> DEFINE r == MarkEmailVerified(db, c.user, c.email, c.now)
  <2>1. \E value : D1Email(db, c) = Run(db, r, value) \/ D1Email(db, c) = RunRead(db, r, value)
    BY <1>2, Zenon DEF D1Email
  <2>2. Kept(db, r.db)
    BY UserStatements
  <2> HIDE DEF r
  <2> QED
    BY <2>1, <2>2, RunKeeps
<1>3. CASE c.do = "create_email_token"
  <2> DEFINE r == InsertEmailToken(db, c.hash, c.row)
  <2>1. \E value : D1Email(db, c) = Run(db, r, value) \/ D1Email(db, c) = RunRead(db, r, value)
    BY <1>3, Zenon DEF D1Email
  <2>2. Kept(db, r.db)
    BY LinkStatements
  <2> HIDE DEF r
  <2> QED
    BY <2>1, <2>2, RunKeeps
<1>4. CASE c.do = "consume_email_token"
  <2> DEFINE r == ConsumeEmailToken(db, c.hash, c.kind, c.now)
  <2>1. D1Email(db, c) = Got(r.db, r.rows)
    BY <1>4, Zenon DEF D1Email
  <2>2. Kept(db, r.db)
    BY LinkStatements
  <2> HIDE DEF r
  <2> QED
    BY <2>1, <2>2 DEF Got
<1>5. CASE c.do = "retire_email_tokens"
  <2> DEFINE r == RetireEmailTokens(db, c.user, c.kind, c.now)
  <2>1. \E value : D1Email(db, c) = Run(db, r, value) \/ D1Email(db, c) = RunRead(db, r, value)
    BY <1>5, Zenon DEF D1Email
  <2>2. Kept(db, r.db)
    BY LinkStatements
  <2> HIDE DEF r
  <2> QED
    BY <2>1, <2>2, RunKeeps
<1>6. CASE c.do \notin {"set_email", "mark_email_verified", "create_email_token",
                        "consume_email_token", "retire_email_tokens"}
  <2>1. \E value : D1Email(db, c) = Got(db, value) \/ D1Email(db, c) = Found(db, value)
    BY <1>6, Zenon DEF D1Email, EmailMethods
  <2> QED
    BY <2>1, ReadKeeps
<1> QED
  BY <1>1, <1>2, <1>3, <1>4, <1>5, <1>6

LEMMA IdentitiesKeep ==
    ASSUME NEW db, Sane(db), NEW c, c.do \in IdentityMethods
    PROVE  Kept(db, D1Identities(db, c).db)
<1>1. CASE c.do = "link_identity"
  <2> DEFINE r == InsertIdentity(db, c.provider, c.subject, c.user, c.email, c.now)
  <2>1. \E value : \/ D1Identities(db, c) = Run(db, r, value)
                   \/ D1Identities(db, c) = RunRead(db, r, value)
    BY <1>1, Zenon DEF D1Identities
  <2>2. Kept(db, r.db)
    BY LinkStatements
  <2> HIDE DEF r
  <2> QED
    BY <2>1, <2>2, RunKeeps
<1>2. CASE c.do = "touch_identity"
  <2> DEFINE r == TouchIdentity(db, c.provider, c.subject, c.now)
  <2>1. \E value : \/ D1Identities(db, c) = Run(db, r, value)
                   \/ D1Identities(db, c) = RunRead(db, r, value)
    BY <1>2, Zenon DEF D1Identities
  <2>2. Kept(db, r.db)
    BY LinkStatements
  <2> HIDE DEF r
  <2> QED
    BY <2>1, <2>2, RunKeeps
<1>3. CASE c.do \notin {"link_identity", "touch_identity"}
  <2>1. \E value : \/ D1Identities(db, c) = Got(db, value)
                   \/ D1Identities(db, c) = Found(db, value)
    BY <1>3, Zenon DEF D1Identities, IdentityMethods
  <2> QED
    BY <2>1, ReadKeeps
<1> QED
  BY <1>1, <1>2, <1>3

LEMMA UsersKeep ==
    ASSUME NEW db, Sane(db), NEW c, c.do \in UserMethods
    PROVE  Kept(db, D1Users(db, c).db)
<1>1. CASE c.do = "create_user"
  <2> DEFINE r == InsertUser(db, c.name, c.at, c.hash)
  <2>1. \E value : D1Users(db, c) = Run(db, r, value) \/ D1Users(db, c) = RunRead(db, r, value)
    BY <1>1, Zenon DEF D1Users
  <2>2. Kept(db, r.db)
    BY UserStatements
  <2> HIDE DEF r
  <2> QED
    BY <2>1, <2>2, RunKeeps
<1>2. CASE c.do = "set_password_hash"
  <2> DEFINE r == SetPasswordHash(db, c.user, c.hash)
  <2>1. \E value : D1Users(db, c) = Run(db, r, value) \/ D1Users(db, c) = RunRead(db, r, value)
    BY <1>2, Zenon DEF D1Users
  <2>2. Kept(db, r.db)
    BY UserStatements
  <2> HIDE DEF r
  <2> QED
    BY <2>1, <2>2, RunKeeps
<1>3. CASE c.do = "insert_post"
  <2>1. D1Users(db, c) = AppendPost(db, c.new)
    BY <1>3, Zenon DEF D1Users
  <2> QED
    BY <2>1, PostAppended
<1>4. CASE c.do \notin {"create_user", "set_password_hash", "insert_post"}
  <2>1. \E value : D1Users(db, c) = Got(db, value) \/ D1Users(db, c) = Found(db, value)
    BY <1>4, Zenon DEF D1Users, UserMethods
  <2> QED
    BY <2>1, ReadKeeps
<1> QED
  BY <1>1, <1>2, <1>3, <1>4

LEMMA SessionsKeep ==
    ASSUME NEW db, Sane(db), NEW c, c.do \in SessionMethods,
           c.do = "create_session" => "user" \in DOMAIN c.row
    PROVE  Kept(db, D1Sessions(db, c).db)
<1>1. CASE c.do = "record_login_attempt"
  <2> DEFINE r == RecordLoginAttempt(db, c.key, c.row)
  <2>1. \E value : \/ D1Sessions(db, c) = Run(db, r, value)
                   \/ D1Sessions(db, c) = RunRead(db, r, value)
    BY <1>1, Zenon DEF D1Sessions
  <2>2. Kept(db, r.db)
    BY SessionStatements
  <2> HIDE DEF r
  <2> QED
    BY <2>1, <2>2, RunKeeps
<1>2. CASE c.do = "clear_login_attempts"
  <2> DEFINE r == ClearLoginAttempts(db, c.key)
  <2>1. \E value : \/ D1Sessions(db, c) = Run(db, r, value)
                   \/ D1Sessions(db, c) = RunRead(db, r, value)
    BY <1>2, Zenon DEF D1Sessions
  <2>2. Kept(db, r.db)
    BY SessionStatements
  <2> HIDE DEF r
  <2> QED
    BY <2>1, <2>2, RunKeeps
<1>3. CASE c.do = "sweep_login_attempts"
  <2> DEFINE r == SweepLoginAttempts(db, c.cutoff)
  <2>1. \E value : \/ D1Sessions(db, c) = Run(db, r, value)
                   \/ D1Sessions(db, c) = RunRead(db, r, value)
    BY <1>3, Zenon DEF D1Sessions
  <2>2. Kept(db, r.db)
    BY SessionStatements
  <2> HIDE DEF r
  <2> QED
    BY <2>1, <2>2, RunKeeps
<1>4. CASE c.do = "create_session"
  <2> DEFINE r == InsertSession(db, c.token, c.row)
  <2>1. \E value : \/ D1Sessions(db, c) = Run(db, r, value)
                   \/ D1Sessions(db, c) = RunRead(db, r, value)
    BY <1>4, Zenon DEF D1Sessions
  <2>2. Kept(db, r.db)
    BY <1>4, SessionStatements
  <2> HIDE DEF r
  <2> QED
    BY <2>1, <2>2, RunKeeps
<1>5. CASE c.do = "refresh_session"
  <2> DEFINE r == RefreshSession(db, c.token, c.refreshed, c.expires)
  <2>1. \E value : \/ D1Sessions(db, c) = Run(db, r, value)
                   \/ D1Sessions(db, c) = RunRead(db, r, value)
    BY <1>5, Zenon DEF D1Sessions
  <2>2. Kept(db, r.db)
    BY SessionStatements
  <2> HIDE DEF r
  <2> QED
    BY <2>1, <2>2, RunKeeps
<1>6. CASE c.do = "delete_session"
  <2> DEFINE r == DeleteSession(db, c.token)
  <2>1. \E value : \/ D1Sessions(db, c) = Run(db, r, value)
                   \/ D1Sessions(db, c) = RunRead(db, r, value)
    BY <1>6, Zenon DEF D1Sessions
  <2>2. Kept(db, r.db)
    BY SessionStatements
  <2> HIDE DEF r
  <2> QED
    BY <2>1, <2>2, RunKeeps
<1>7. CASE c.do = "delete_user_sessions"
  <2> DEFINE r == DeleteUserSessions(db, c.user)
  <2>1. \E value : \/ D1Sessions(db, c) = Run(db, r, value)
                   \/ D1Sessions(db, c) = RunRead(db, r, value)
    BY <1>7, Zenon DEF D1Sessions
  <2>2. Kept(db, r.db)
    BY SessionStatements
  <2> HIDE DEF r
  <2> QED
    BY <2>1, <2>2, RunKeeps
<1>8. CASE c.do = "tombstone_user_posts"
  <2> DEFINE r == TombstoneUserPosts(BumpThreadsOfUser(db, c.user).db, c.user)
  <2>1. \E value : \/ D1Sessions(db, c) = Run(db, r, value)
                   \/ D1Sessions(db, c) = RunRead(db, r, value)
    BY <1>8, Zenon DEF D1Sessions
  <2>2. Kept(db, r.db)
    BY TurnedAlong
  <2> HIDE DEF r
  <2> QED
    BY <2>1, <2>2, RunKeeps
<1>9. CASE c.do \notin {"record_login_attempt", "clear_login_attempts",
                        "sweep_login_attempts", "create_session", "refresh_session",
                        "delete_session", "delete_user_sessions", "tombstone_user_posts"}
  <2>1. \E value : D1Sessions(db, c) = Got(db, value) \/ D1Sessions(db, c) = Found(db, value)
    BY <1>9, Zenon DEF D1Sessions, SessionMethods
  <2> QED
    BY <2>1, ReadKeeps
<1> QED
  BY <1>1, <1>2, <1>3, <1>4, <1>5, <1>6, <1>7, <1>8, <1>9

LEMMA ReviewsKeep ==
    ASSUME NEW db, Sane(db), NEW c, c.do \in ReviewMethods
    PROVE  Kept(db, D1Reviews(db, c).db)
<1>1. CASE c.do = "open_review"
  <2> DEFINE r == UpsertReview(db, c.new)
  <2>1. \E value : \/ D1Reviews(db, c) = Run(db, r, value)
                   \/ D1Reviews(db, c) = RunRead(db, r, value)
    BY <1>1, Zenon DEF D1Reviews
  <2>2. Kept(db, r.db)
    BY ReviewStatements
  <2> HIDE DEF r
  <2> QED
    BY <2>1, <2>2, RunKeeps
<1>2. CASE c.do = "resolve_review"
  <2> DEFINE item == ReviewById(db, c.review)
             r == ResolveReview(db, c.review, c.resolution, c.by, c.now)
  <2>1. D1Reviews(db, c)
        = IF item = Null \/ (item # Null /\ item[1].resolved) THEN Got(db, Null)
          ELSE Run(db, r, IF r.changes > 0 THEN item ELSE Null)
    BY <1>2, Zenon DEF D1Reviews
  <2>2. Kept(db, r.db)
    BY ReviewStatements
  <2> HIDE DEF r, item
  <2> QED
    BY <2>1, <2>2, RunKeeps, ReadKeeps
<1>3. CASE c.do = "add_report"
  <2> DEFINE r == InsertSignal(db, c.row)
  <2>1. \E value : \/ D1Reviews(db, c) = Run(db, r, value)
                   \/ D1Reviews(db, c) = RunRead(db, r, value)
    BY <1>3, Zenon DEF D1Reviews
  <2>2. Kept(db, r.db)
    BY ReviewStatements
  <2> HIDE DEF r
  <2> QED
    BY <2>1, <2>2, RunKeeps
<1>4. CASE c.do \notin {"open_review", "resolve_review", "add_report"}
  <2>1. \E value : D1Reviews(db, c) = Got(db, value) \/ D1Reviews(db, c) = Found(db, value)
    BY <1>4, Zenon DEF D1Reviews, ReviewMethods
  <2> QED
    BY <2>1, ReadKeeps
<1> QED
  BY <1>1, <1>2, <1>3, <1>4

LEMMA AdministrationKeeps ==
    ASSUME NEW db, Sane(db), NEW c, c.do \in AdminMethods
    PROVE  Kept(db, D1Administration(db, c).db)
<1>1. CASE c.do = "set_user_role"
  <2> DEFINE r == SetUserRole(db, c.user, c.role)
  <2>1. \E value : \/ D1Administration(db, c) = Run(db, r, value)
                   \/ D1Administration(db, c) = RunRead(db, r, value)
    BY <1>1, Zenon DEF D1Administration
  <2>2. Kept(db, r.db)
    BY UserStatements
  <2> HIDE DEF r
  <2> QED
    BY <2>1, <2>2, RunKeeps
<1>2. CASE c.do = "set_user_state"
  <2> DEFINE r == SetUserState(db, c.user, c.state)
  <2>1. \E value : \/ D1Administration(db, c) = Run(db, r, value)
                   \/ D1Administration(db, c) = RunRead(db, r, value)
    BY <1>2, Zenon DEF D1Administration
  <2>2. Kept(db, r.db)
    BY UserStatements
  <2> HIDE DEF r
  <2> QED
    BY <2>1, <2>2, RunKeeps
<1>3. CASE c.do = "create_space"
  <2> DEFINE r == InsertSpace(db, c.row)
  <2>1. \E value : \/ D1Administration(db, c) = Run(db, r, value)
                   \/ D1Administration(db, c) = RunRead(db, r, value)
    BY <1>3, Zenon DEF D1Administration
  <2>2. Kept(db, r.db)
    BY SpaceStatements
  <2> HIDE DEF r
  <2> QED
    BY <2>1, <2>2, RunKeeps
<1>4. CASE c.do = "update_space"
  <2> DEFINE r == UpdateSpace(db, c.space, c.name, c.ranking, c.cap, c.config)
  <2>1. \E value : \/ D1Administration(db, c) = Run(db, r, value)
                   \/ D1Administration(db, c) = RunRead(db, r, value)
    BY <1>4, Zenon DEF D1Administration
  <2>2. Kept(db, r.db)
    BY SpaceStatements
  <2> HIDE DEF r
  <2> QED
    BY <2>1, <2>2, RunKeeps
<1>5. CASE c.do = "update_thread"
  <2> DEFINE r == UpdateThread(db, c.thread, c.edit)
  <2>1. D1Administration(db, c)
        = IF r.stopped = "no" /\ r.changes = 0 THEN Fail(db, "not_found") ELSE Run(db, r, TRUE)
    BY <1>5, Zenon DEF D1Administration
  <2>2. Kept(db, r.db)
    BY ThreadUpdates, ThreadTurned, NothingKept DEF Kept
  <2> HIDE DEF r
  <2> QED
    BY <2>1, <2>2, RunKeeps, ReadKeeps
<1>6. CASE c.do \notin {"set_user_role", "set_user_state", "create_space", "update_space",
                       "update_thread"}
  <2>1. \E value : \/ D1Administration(db, c) = Got(db, value)
                   \/ D1Administration(db, c) = Found(db, value)
    BY <1>6, Zenon DEF D1Administration, AdminMethods
  <2> QED
    BY <2>1, ReadKeeps
<1> QED
  BY <1>1, <1>2, <1>3, <1>4, <1>5, <1>6

LEMMA ModerationKeeps ==
    ASSUME NEW db, Sane(db), NEW c, c.do \in ModerationMethods
    PROVE  Kept(db, D1Moderation(db, c).db)
<1>1. CASE c.do = "set_post_state"
  <2> DEFINE first == SetPostState(db, c.post, c.state)
             second == BumpThreadForPost(first.db, c.post)
  <2>1. D1Moderation(db, c) = Batch(db, first, second)
    BY <1>1, Zenon DEF D1Moderation
  <2>2. Kept(db, second.db)
    BY TurnedAlong
  <2> HIDE DEF first, second
  <2> QED
    BY <2>1, <2>2 DEF Batch, Got, Fail
<1>2. CASE c.do = "log_action"
  <2> DEFINE r == InsertAction(db, c.row)
  <2>1. D1Moderation(db, c) = Run(db, r, Len(r.db.log))
    BY <1>2, Zenon DEF D1Moderation
  <2>2. Kept(db, r.db)
    BY ReviewStatements
  <2> HIDE DEF r
  <2> QED
    BY <2>1, <2>2, RunKeeps
<1>3. CASE c.do \notin {"set_post_state", "log_action"}
  <2>1. \E value : \/ D1Moderation(db, c) = Got(db, value)
                   \/ D1Moderation(db, c) = Found(db, value)
    BY <1>3, Zenon DEF D1Moderation, ModerationMethods
  <2> QED
    BY <2>1, ReadKeeps
<1> QED
  BY <1>1, <1>2, <1>3

\* The groups do not overlap.
LEMMA Apart ==
    /\ ThreadMethods \cap (BodyMethods \cup EmailMethods \cup IdentityMethods \cup AdminMethods
           \cup UserMethods \cup SessionMethods \cup ModerationMethods \cup ReviewMethods) = {}
    /\ BodyMethods \cap (EmailMethods \cup IdentityMethods \cup AdminMethods
           \cup UserMethods \cup SessionMethods \cup ModerationMethods \cup ReviewMethods) = {}
    /\ EmailMethods \cap (IdentityMethods \cup AdminMethods
           \cup UserMethods \cup SessionMethods \cup ModerationMethods \cup ReviewMethods) = {}
    /\ IdentityMethods \cap (AdminMethods \cup UserMethods \cup SessionMethods
           \cup ModerationMethods \cup ReviewMethods) = {}
    /\ AdminMethods \cap (UserMethods \cup SessionMethods \cup ModerationMethods
           \cup ReviewMethods) = {}
    /\ UserMethods \cap (SessionMethods \cup ModerationMethods \cup ReviewMethods) = {}
    /\ SessionMethods \cap (ModerationMethods \cup ReviewMethods) = {}
    /\ ModerationMethods \cap ReviewMethods = {}
BY DEF ThreadMethods, BodyMethods, EmailMethods, IdentityMethods, AdminMethods, UserMethods,
       SessionMethods, ModerationMethods, ReviewMethods

\* Each store dispatches on the group.
LEMMA Dispatch ==
    ASSUME NEW db, NEW c
    PROVE  /\ c.do \in ThreadMethods =>
                 D1Do(db, c) = D1Threads(db, c) /\ LiteDo(db, c) = LiteThreads(db, c)
           /\ c.do \in BodyMethods =>
                 D1Do(db, c) = D1Bodies(db, c) /\ LiteDo(db, c) = LiteBodies(db, c)
           /\ c.do \in EmailMethods =>
                 D1Do(db, c) = D1Email(db, c) /\ LiteDo(db, c) = LiteEmail(db, c)
           /\ c.do \in IdentityMethods =>
                 D1Do(db, c) = D1Identities(db, c) /\ LiteDo(db, c) = LiteIdentities(db, c)
           /\ c.do \in AdminMethods =>
                 D1Do(db, c) = D1Administration(db, c) /\ LiteDo(db, c) = LiteAdministration(db, c)
           /\ c.do \in UserMethods =>
                 D1Do(db, c) = D1Users(db, c) /\ LiteDo(db, c) = LiteUsers(db, c)
           /\ c.do \in SessionMethods =>
                 D1Do(db, c) = D1Sessions(db, c) /\ LiteDo(db, c) = LiteSessions(db, c)
           /\ c.do \in ModerationMethods =>
                 D1Do(db, c) = D1Moderation(db, c) /\ LiteDo(db, c) = LiteModeration(db, c)
           /\ c.do \in ReviewMethods =>
                 D1Do(db, c) = D1Reviews(db, c) /\ LiteDo(db, c) = LiteReviews(db, c)
<1>1. ASSUME c.do \in ThreadMethods
      PROVE  D1Do(db, c) = D1Threads(db, c) /\ LiteDo(db, c) = LiteThreads(db, c)
  <2>1. /\ c.do \notin BodyMethods
          /\ c.do \notin EmailMethods
          /\ c.do \notin IdentityMethods
          /\ c.do \notin AdminMethods
          /\ c.do \notin UserMethods
          /\ c.do \notin SessionMethods
          /\ c.do \notin ModerationMethods
          /\ c.do \notin ReviewMethods
    BY <1>1, Apart
  <2>2. D1Do(db, c) = D1Threads(db, c)
    BY <1>1, <2>1, Zenon DEF D1Do
  <2>3. LiteDo(db, c) = LiteThreads(db, c)
    BY <1>1, <2>1, Zenon DEF LiteDo
  <2> QED
    BY <2>2, <2>3
<1>2. ASSUME c.do \in BodyMethods
      PROVE  D1Do(db, c) = D1Bodies(db, c) /\ LiteDo(db, c) = LiteBodies(db, c)
  <2>1. /\ c.do \notin ThreadMethods
          /\ c.do \notin EmailMethods
          /\ c.do \notin IdentityMethods
          /\ c.do \notin AdminMethods
          /\ c.do \notin UserMethods
          /\ c.do \notin SessionMethods
          /\ c.do \notin ModerationMethods
          /\ c.do \notin ReviewMethods
    BY <1>2, Apart
  <2>2. D1Do(db, c) = D1Bodies(db, c)
    BY <1>2, <2>1, Zenon DEF D1Do
  <2>3. LiteDo(db, c) = LiteBodies(db, c)
    BY <1>2, <2>1, Zenon DEF LiteDo
  <2> QED
    BY <2>2, <2>3
<1>3. ASSUME c.do \in EmailMethods
      PROVE  D1Do(db, c) = D1Email(db, c) /\ LiteDo(db, c) = LiteEmail(db, c)
  <2>1. /\ c.do \notin ThreadMethods
          /\ c.do \notin BodyMethods
          /\ c.do \notin IdentityMethods
          /\ c.do \notin AdminMethods
          /\ c.do \notin UserMethods
          /\ c.do \notin SessionMethods
          /\ c.do \notin ModerationMethods
          /\ c.do \notin ReviewMethods
    BY <1>3, Apart
  <2>2. D1Do(db, c) = D1Email(db, c)
    BY <1>3, <2>1, Zenon DEF D1Do
  <2>3. LiteDo(db, c) = LiteEmail(db, c)
    BY <1>3, <2>1, Zenon DEF LiteDo
  <2> QED
    BY <2>2, <2>3
<1>4. ASSUME c.do \in IdentityMethods
      PROVE  D1Do(db, c) = D1Identities(db, c) /\ LiteDo(db, c) = LiteIdentities(db, c)
  <2>1. /\ c.do \notin ThreadMethods
          /\ c.do \notin BodyMethods
          /\ c.do \notin EmailMethods
          /\ c.do \notin AdminMethods
          /\ c.do \notin UserMethods
          /\ c.do \notin SessionMethods
          /\ c.do \notin ModerationMethods
          /\ c.do \notin ReviewMethods
    BY <1>4, Apart
  <2>2. D1Do(db, c) = D1Identities(db, c)
    BY <1>4, <2>1, Zenon DEF D1Do
  <2>3. LiteDo(db, c) = LiteIdentities(db, c)
    BY <1>4, <2>1, Zenon DEF LiteDo
  <2> QED
    BY <2>2, <2>3
<1>5. ASSUME c.do \in AdminMethods
      PROVE  D1Do(db, c) = D1Administration(db, c) /\ LiteDo(db, c) = LiteAdministration(db, c)
  <2>1. /\ c.do \notin ThreadMethods
          /\ c.do \notin BodyMethods
          /\ c.do \notin EmailMethods
          /\ c.do \notin IdentityMethods
          /\ c.do \notin UserMethods
          /\ c.do \notin SessionMethods
          /\ c.do \notin ModerationMethods
          /\ c.do \notin ReviewMethods
    BY <1>5, Apart
  <2>2. D1Do(db, c) = D1Administration(db, c)
    BY <1>5, <2>1, Zenon DEF D1Do
  <2>3. LiteDo(db, c) = LiteAdministration(db, c)
    BY <1>5, <2>1, Zenon DEF LiteDo
  <2> QED
    BY <2>2, <2>3
<1>6. ASSUME c.do \in UserMethods
      PROVE  D1Do(db, c) = D1Users(db, c) /\ LiteDo(db, c) = LiteUsers(db, c)
  <2>1. /\ c.do \notin ThreadMethods
          /\ c.do \notin BodyMethods
          /\ c.do \notin EmailMethods
          /\ c.do \notin IdentityMethods
          /\ c.do \notin AdminMethods
          /\ c.do \notin SessionMethods
          /\ c.do \notin ModerationMethods
          /\ c.do \notin ReviewMethods
    BY <1>6, Apart
  <2>2. D1Do(db, c) = D1Users(db, c)
    BY <1>6, <2>1, Zenon DEF D1Do
  <2>3. LiteDo(db, c) = LiteUsers(db, c)
    BY <1>6, <2>1, Zenon DEF LiteDo
  <2> QED
    BY <2>2, <2>3
<1>7. ASSUME c.do \in SessionMethods
      PROVE  D1Do(db, c) = D1Sessions(db, c) /\ LiteDo(db, c) = LiteSessions(db, c)
  <2>1. /\ c.do \notin ThreadMethods
          /\ c.do \notin BodyMethods
          /\ c.do \notin EmailMethods
          /\ c.do \notin IdentityMethods
          /\ c.do \notin AdminMethods
          /\ c.do \notin UserMethods
          /\ c.do \notin ModerationMethods
          /\ c.do \notin ReviewMethods
    BY <1>7, Apart
  <2>2. D1Do(db, c) = D1Sessions(db, c)
    BY <1>7, <2>1, Zenon DEF D1Do
  <2>3. LiteDo(db, c) = LiteSessions(db, c)
    BY <1>7, <2>1, Zenon DEF LiteDo
  <2> QED
    BY <2>2, <2>3
<1>8. ASSUME c.do \in ModerationMethods
      PROVE  D1Do(db, c) = D1Moderation(db, c) /\ LiteDo(db, c) = LiteModeration(db, c)
  <2>1. /\ c.do \notin ThreadMethods
          /\ c.do \notin BodyMethods
          /\ c.do \notin EmailMethods
          /\ c.do \notin IdentityMethods
          /\ c.do \notin AdminMethods
          /\ c.do \notin UserMethods
          /\ c.do \notin SessionMethods
          /\ c.do \notin ReviewMethods
    BY <1>8, Apart
  <2>2. D1Do(db, c) = D1Moderation(db, c)
    BY <1>8, <2>1, Zenon DEF D1Do
  <2>3. LiteDo(db, c) = LiteModeration(db, c)
    BY <1>8, <2>1, Zenon DEF LiteDo
  <2> QED
    BY <2>2, <2>3
<1>9. ASSUME c.do \in ReviewMethods
      PROVE  D1Do(db, c) = D1Reviews(db, c) /\ LiteDo(db, c) = LiteReviews(db, c)
  <2>1. /\ c.do \notin ThreadMethods
          /\ c.do \notin BodyMethods
          /\ c.do \notin EmailMethods
          /\ c.do \notin IdentityMethods
          /\ c.do \notin AdminMethods
          /\ c.do \notin UserMethods
          /\ c.do \notin SessionMethods
          /\ c.do \notin ModerationMethods
    BY <1>9, Apart
  <2>2. D1Do(db, c) = D1Reviews(db, c)
    BY <1>9, <2>1, Zenon DEF D1Do
  <2>3. LiteDo(db, c) = LiteReviews(db, c)
    BY <1>9, <2>1, Zenon DEF LiteDo
  <2> QED
    BY <2>2, <2>3
<1> QED
  BY <1>1, <1>2, <1>3, <1>4, <1>5, <1>6, <1>7, <1>8, <1>9

\* Whatever is called, a sane database stays one, and its pages turn over.
LEMMA CallKeeps ==
    ASSUME NEW db, Sane(db), NEW c, c.do \in Methods,
           c.do = "create_session" => "user" \in DOMAIN c.row
    PROVE  Kept(db, D1Do(db, c).db)
BY Dispatch, ThreadsKeep, BodiesKeep, EmailKeeps, IdentitiesKeep, AdministrationKeeps, UsersKeep,
   SessionsKeep, ModerationKeeps, ReviewsKeep DEF Methods

-----------------------------------------------------------------------------
(* Every call is answered, with an error of StoreError or none.             *)

Answered(a) == a.res.err \in Error \cup {"none"}

LEMMA Answers ==
    /\ \A db, v : Answered(Got(db, v))
    /\ \A db : Answered(Fail(db, "not_found")) /\ Answered(Fail(db, "backend"))
    /\ \A db, rows : Answered(Found(db, rows))
    /\ \A db, r, v : Answered(Run(db, r, v))
    /\ \A db, r, v : Answered(RunRead(db, r, v))
    /\ \A db, a, b : Answered(Batch(db, a, b))
<1>1. /\ \A db, v : Answered(Got(db, v))
      /\ \A db : /\ Answered(Fail(db, "not_found")) /\ Answered(Fail(db, "backend"))
                 /\ Answered(Fail(db, "conflict"))
  BY DEF Answered, Got, Fail, Ok, Result, Error
<1> QED
  BY <1>1 DEF Found, Run, RunRead, WriteError, Batch

LEMMA AppendAnswered == ASSUME NEW db, NEW new PROVE Answered(AppendPost(db, new))
<1>1. \E d, v, why : \/ AppendPost(db, new) = Got(d, v)
                     \/ AppendPost(db, new) = Fail(db, WriteError(why))
                     \/ AppendPost(db, new) = Fail(db, "not_found")
                     \/ AppendPost(db, new) = Fail(db, "backend")
  BY Zenon DEF AppendPost
<1>2. \A why : WriteError(why) \in Error
  BY DEF WriteError, Error
<1> QED
  BY <1>1, <1>2, Answers DEF Answered, Fail, Result

LEMMA PagesAnswered ==
    ASSUME NEW db, NEW c
    PROVE  /\ Answered(FetchThreadPage(db, c.thread, c.after, c.limit))
           /\ Answered(FetchPostLocation(db, c.post, c.size))
BY Answers DEF FetchThreadPage, FetchPostLocation

LEMMA ThreadsAnswered ==
    ASSUME NEW db, NEW c, c.do \in ThreadMethods PROVE Answered(D1Threads(db, c))
BY Answers, PagesAnswered, Zenon DEF D1Threads, ThreadMethods

LEMMA BodiesAnswered ==
    ASSUME NEW db, NEW c, c.do \in BodyMethods PROVE Answered(D1Bodies(db, c))
BY Answers, Zenon DEF D1Bodies, BodyMethods

LEMMA EmailAnswered ==
    ASSUME NEW db, NEW c, c.do \in EmailMethods PROVE Answered(D1Email(db, c))
BY Answers, Zenon DEF D1Email, EmailMethods

LEMMA IdentitiesAnswered ==
    ASSUME NEW db, NEW c, c.do \in IdentityMethods PROVE Answered(D1Identities(db, c))
BY Answers, Zenon DEF D1Identities, IdentityMethods

LEMMA AdministrationAnswered ==
    ASSUME NEW db, NEW c, c.do \in AdminMethods PROVE Answered(D1Administration(db, c))
BY Answers, Zenon DEF D1Administration, AdminMethods

LEMMA UsersAnswered ==
    ASSUME NEW db, NEW c, c.do \in UserMethods PROVE Answered(D1Users(db, c))
BY Answers, AppendAnswered, Zenon DEF D1Users, UserMethods

LEMMA SessionsAnswered ==
    ASSUME NEW db, NEW c, c.do \in SessionMethods PROVE Answered(D1Sessions(db, c))
BY Answers, Zenon DEF D1Sessions, SessionMethods

LEMMA ModerationAnswered ==
    ASSUME NEW db, NEW c, c.do \in ModerationMethods PROVE Answered(D1Moderation(db, c))
BY Answers, Zenon DEF D1Moderation, ModerationMethods

LEMMA ReviewsAnswered ==
    ASSUME NEW db, NEW c, c.do \in ReviewMethods PROVE Answered(D1Reviews(db, c))
BY Answers, Zenon DEF D1Reviews, ReviewMethods

LEMMA CallAnswered == ASSUME NEW db, NEW c, c.do \in Methods PROVE Answered(D1Do(db, c))
BY Dispatch, ThreadsAnswered, BodiesAnswered, EmailAnswered, IdentitiesAnswered,
   AdministrationAnswered, UsersAnswered, SessionsAnswered, ModerationAnswered, ReviewsAnswered
   DEF Methods

-----------------------------------------------------------------------------
(* The two methods that are two statements each, and the dispatch.          *)

\* When the first statement finds no post, the second has no thread to turn.
LEMMA NothingFound ==
    ASSUME NEW db, Sane(db), NEW c, PostIds(db, c.post) = {}
    PROVE  /\ UpdatePostBody(db, c.post, c.md, c.html, c.at).db = db
           /\ SetPostState(db, c.post, c.state).db = db
           /\ BumpThreadForPost(db, c.post).db = db
<1>1. db.post = [i \in DOMAIN db.post |-> db.post[i]]
  BY SeqIs DEF Sane
<1>2. db.thread = [i \in DOMAIN db.thread |-> db.thread[i]]
  BY SeqIs DEF Sane
<1>3. [db EXCEPT !.post = db.post] = db /\ [db EXCEPT !.thread = db.thread] = db
  BY TablesAre DEF Sane
<1>4. UpdatePostBody(db, c.post, c.md, c.html, c.at).db
      = [db EXCEPT !.post = [i \in DOMAIN db.post |-> db.post[i]]]
  BY DEF UpdatePostBody, Update, Wrote
<1>5. SetPostState(db, c.post, c.state).db
      = [db EXCEPT !.post = [i \in DOMAIN db.post |-> db.post[i]]]
  BY DEF SetPostState, Update, Wrote
<1>6. BumpThreadForPost(db, c.post).db
      = [db EXCEPT !.thread = [i \in DOMAIN db.thread |-> db.thread[i]]]
  BY DEF BumpThreadForPost, Update, Wrote
<1> QED
  BY <1>1, <1>2, <1>3, <1>4, <1>5, <1>6

LEMMA PostsCounted ==
    ASSUME NEW db, Sane(db), NEW post, Cardinality(PostIds(db, post)) = 0
    PROVE  PostIds(db, post) = {}
<1>1. PostIds(db, post) \subseteq DOMAIN db.post
  BY DEF PostIds, Where
<1>2. IsFiniteSet(DOMAIN db.post)
  BY SeqMore DEF Sane
<1> QED
  BY <1>1, <1>2, FS_Subset, FS_EmptySet

\* A batch that always runs both leaves what a transaction leaves that stops
\* after the first when that one found nothing.
LEMMA BatchAlike ==
    ASSUME NEW db, NEW first, NEW second, second.stopped = "no",
           first.changes = 0 => second.db = db
    PROVE  Batch(db, first, second)
           = IF first.changes = 0 THEN Fail(db, "not_found") ELSE Execute(db, second, TRUE)
BY DEF Batch, Execute

LEMMA BodiesAlike ==
    ASSUME NEW db, Sane(db), NEW c, c.do \in BodyMethods
    PROVE  D1Bodies(db, c) = LiteBodies(db, c)
<1>1. CASE c.do = "update_post_body"
  <2> DEFINE first == UpdatePostBody(db, c.post, c.md, c.html, c.at)
             second == BumpThreadForPost(first.db, c.post)
  <2>1. D1Bodies(db, c) = Batch(db, first, second)
    BY <1>1, Zenon DEF D1Bodies
  <2>2. LiteBodies(db, c)
        = IF first.changes = 0 THEN Fail(db, "not_found") ELSE Execute(db, second, TRUE)
    BY <1>1, Zenon DEF LiteBodies, FoundFirst
  <2>3. first.changes = Cardinality(PostIds(db, c.post)) /\ second.stopped = "no"
    BY DEF UpdatePostBody, BumpThreadForPost, Update, Wrote
  <2>4. ASSUME first.changes = 0 PROVE second.db = db
    <3>1. PostIds(db, c.post) = {}
      BY <2>3, <2>4, PostsCounted
    <3>2. first.db = db /\ BumpThreadForPost(db, c.post).db = db
      BY <3>1, NothingFound
    <3> HIDE DEF first
    <3> QED
      BY <3>2
  <2> HIDE DEF first, second
  <2> QED
    BY <2>1, <2>2, <2>3, <2>4, BatchAlike
<1>2. CASE c.do = "user_profile"
  <2> DEFINE found == UserProfile(db, c.name)
             Profile(head) == [head |-> head,
                               posts |-> UserRecentPosts(db, head.user.id, c.limit)]
  <2>1. D1Bodies(db, c) = Got(db, IF found = Null THEN Null ELSE <<Profile(found[1])>>)
    BY <1>2, Zenon DEF D1Bodies
  <2>2. LiteBodies(db, c) = Got(db, [i \in DOMAIN found |-> Profile(found[i])])
    BY <1>2, Zenon DEF LiteBodies
  <2>3. found = Null \/ \E x : found = <<x>>
    <3> DEFINE ids == TheOne(Named(db, c.name))
               Row(i) == [user |-> UserOf(db, i), created |-> db.user[i].created]
    <3>1. found = [i \in DOMAIN ids |-> Row(ids[i])]
      BY DEF UserProfile, Rows
    <3>2. ids = Null \/ \E x : ids = <<x>>
      BY OneRow
    <3> HIDE DEF found, ids, Row
    <3>3. CASE ids = Null
      BY <3>1, <3>3 DEF Null
    <3>4. ASSUME NEW x, ids = <<x>> PROVE found = <<Row(x)>>
      BY <3>1, <3>4
    <3> QED
      BY <3>2, <3>3, <3>4
  <2> HIDE DEF found, Profile
  <2>4. [i \in DOMAIN found |-> Profile(found[i])]
        = IF found = Null THEN Null ELSE <<Profile(found[1])>>
    <3>1. CASE found = Null
      BY <3>1 DEF Null
    <3>2. ASSUME NEW x, found = <<x>>
          PROVE  [i \in DOMAIN found |-> Profile(found[i])] = <<Profile(found[1])>> /\ found # Null
      BY <3>2 DEF Null
    <3> QED
      BY <2>3, <3>1, <3>2
  <2> QED
    BY <2>1, <2>2, <2>4
<1> QED
  BY <1>1, <1>2 DEF BodyMethods

LEMMA ModerationAlike ==
    ASSUME NEW db, Sane(db), NEW c, c.do \in ModerationMethods
    PROVE  D1Moderation(db, c) = LiteModeration(db, c)
<1>1. CASE c.do = "set_post_state"
  <2> DEFINE first == SetPostState(db, c.post, c.state)
             second == BumpThreadForPost(first.db, c.post)
  <2>1. D1Moderation(db, c) = Batch(db, first, second)
    BY <1>1, Zenon DEF D1Moderation
  <2>2. LiteModeration(db, c)
        = IF first.changes = 0 THEN Fail(db, "not_found") ELSE Execute(db, second, TRUE)
    BY <1>1, Zenon DEF LiteModeration, FoundFirst
  <2>3. first.changes = Cardinality(PostIds(db, c.post)) /\ second.stopped = "no"
    BY DEF SetPostState, BumpThreadForPost, Update, Wrote
  <2>4. ASSUME first.changes = 0 PROVE second.db = db
    <3>1. PostIds(db, c.post) = {}
      BY <2>3, <2>4, PostsCounted
    <3>2. first.db = db /\ BumpThreadForPost(db, c.post).db = db
      BY <3>1, NothingFound
    <3> HIDE DEF first
    <3> QED
      BY <3>2
  <2> HIDE DEF first, second
  <2> QED
    BY <2>1, <2>2, <2>3, <2>4, BatchAlike
<1>2. CASE c.do # "set_post_state"
  BY <1>2, Zenon DEF D1Moderation, LiteModeration, ModerationMethods, Run, Execute
<1> QED
  BY <1>1, <1>2

\* Any call, of any database that is sane.
LEMMA DoAlike ==
    ASSUME NEW db, Sane(db), NEW c, c.do \in Methods
    PROVE  D1Do(db, c) = LiteDo(db, c)
BY Dispatch, ThreadsAlike, BodiesAlike, EmailAlike, IdentitiesAlike, AdministrationAlike, UsersAlike,
   SessionsAlike, ModerationAlike, ReviewsAlike DEF Methods

-----------------------------------------------------------------------------
(* The seeded database, and every one after it until the suite is run.      *)

LEMMA SeededSane == Sane(Seeded)
<1> DEFINE user == <<[name |-> <<"a">>, created |-> 1, hash |-> Null, state |-> "active",
                      role |-> "member", email |-> Null, verified |-> Null]>>
           space == <<[name |-> "General", path |-> <<1>>, parent |-> Null, ranking |-> "bump",
                       cap |-> 8, config |-> "empty"]>>
           thread == [pid |-> <<"t">>, space |-> 1, spacePath |-> <<1>>, kind |-> "discussion",
                      title |-> "seeded", url |-> Null, author |-> 1, created |-> 1,
                      bumped |-> 1, count |-> Len(SeedPaths), state |-> "visible",
                      version |-> 0]
           post(i) == [pid |-> <<"p", i>>, thread |-> 1, parent |-> Null, path |-> SeedPaths[i],
                       author |-> 1, md |-> <<"seed">>, html |-> "seed", created |-> 1,
                       edited |-> Null, state |-> "visible"]
           posts == [i \in DOMAIN SeedPaths |-> post(i)]
<1>1. Seeded = [EmptyDb EXCEPT !.user = user, !.space = space, !.thread = <<thread>>, !.post = posts]
  BY DEF Seeded
<1>2. DOMAIN SeedPaths = 1..12 /\ Len(SeedPaths) = 12
  BY DEF SeedPaths
<1>3. /\ "count" \in DOMAIN thread /\ thread.count = 12
      /\ "version" \in DOMAIN thread /\ thread.version = 0
  BY <1>2
<1>4. \A i : "thread" \in DOMAIN post(i) /\ "pid" \in DOMAIN post(i) /\ post(i).thread = 1
  OBVIOUS
<1> HIDE DEF user, space, thread, post
<1>5. Seeded = [t \in Tables |-> Seeded[t]] /\ Seeded.thread = <<thread>> /\ Seeded.post = posts
  <2>1. EmptyDb = [t \in Tables |-> EmptyDb[t]]
    BY DEF Tables, EmptyDb
  <2> HIDE DEF posts
  <2> QED
    BY <1>1, <2>1, TablesAre
<1>6. IsSeq(<<thread>>) /\ DOMAIN <<thread>> = {1} /\ <<thread>>[1] = thread
  <2>1. <<thread>> \in Seq({thread})
    OBVIOUS
  <2>2. DOMAIN <<thread>> = {1} /\ <<thread>>[1] = thread
    OBVIOUS
  <2>3. IsSeq(<<thread>>)
    BY <2>1, Zenon DEF IsSeq
  <2> QED
    BY <2>2, <2>3
<1>7. DOMAIN posts = 1..12 /\ IsSeq(posts) /\ \A i \in 1..12 : posts[i] = post(i)
  <2>1. posts \in [1..12 -> {post(i) : i \in 1..12}]
    BY <1>2
  <2>2. posts \in Seq({post(i) : i \in 1..12})
    BY <2>1, SeqDef
  <2> QED
    BY <1>2, <2>2 DEF IsSeq
<1> HIDE DEF posts
<1>8. InThread(Seeded, 1) = 1..12
  BY <1>4, <1>5, <1>7 DEF InThread, Where
<1>9. Cardinality(1..12) = 12
  <2>1. PICK a \in Int, b \in Int : a = 1 /\ b = 12
    OBVIOUS
  <2>2. Cardinality(a..b) = IF a > b THEN 0 ELSE b - a + 1
    BY FS_Interval
  <2> QED
    BY <2>1, <2>2
<1>10. \A i \in DOMAIN Seeded.post : /\ "thread" \in DOMAIN Seeded.post[i]
                                      /\ "pid" \in DOMAIN Seeded.post[i]
                                      /\ Seeded.post[i].thread \in DOMAIN Seeded.thread
  BY <1>4, <1>5, <1>6, <1>7
<1>11. \A i \in DOMAIN Seeded.thread : i = 1 /\ Seeded.thread[i] = thread
  BY <1>5, <1>6
<1> QED
  BY <1>3, <1>5, <1>6, <1>7, <1>8, <1>9, <1>10, <1>11 DEF Sane

LEMMA SeedsArePaths ==
    /\ DOMAIN SeedPaths = 1..12
    /\ \A i \in 1..12 : SeedPaths[i] # <<>> /\ SeedPaths[i] \in Path
    /\ \A i, j \in 1..12 : i # j => SeedPaths[i] # SeedPaths[j]
<1>1. DOMAIN SeedPaths = 1..12
  BY DEF SeedPaths
<1>2. /\ MaxOrdinal \in Nat /\ MaxDepth \in Nat /\ MaxOrdinal >= 6 /\ MaxDepth >= 3
      /\ \A a \in 1..6 : a \in 0..MaxOrdinal
  BY PathsAssumption, StoresAssumption
<1>3. \A a \in 1..6 : <<a>> # <<>> /\ <<a>> \in Seq(0..MaxOrdinal) /\ Len(<<a>>) = 1
  BY <1>2
<1>4. \A a, b \in 1..6 :
          <<a, b>> # <<>> /\ <<a, b>> \in Seq(0..MaxOrdinal) /\ Len(<<a, b>>) = 2
  BY <1>2
<1>5. ASSUME NEW i \in 1..12 PROVE SeedPaths[i] # <<>> /\ SeedPaths[i] \in Path
  <2>1. \/ \E a \in 1..6 : SeedPaths[i] = <<a>>
        \/ \E a, b \in 1..6 : SeedPaths[i] = <<a, b>>
        \/ SeedPaths[i] = <<1, 1, 1>>
    BY DEF SeedPaths
  <2>2. /\ <<1, 1, 1>> # <<>> /\ <<1, 1, 1>> \in Seq(0..MaxOrdinal)
        /\ Len(<<1, 1, 1>>) <= MaxDepth
    BY <1>2
  <2>3. /\ SeedPaths[i] # <<>> /\ SeedPaths[i] \in Seq(0..MaxOrdinal)
        /\ Len(SeedPaths[i]) <= MaxDepth
    <3>1. CASE \E a \in 1..6 : SeedPaths[i] = <<a>>
      <4>1. PICK a \in 1..6 : SeedPaths[i] = <<a>>
        BY <3>1
      <4>2. <<a>> # <<>> /\ <<a>> \in Seq(0..MaxOrdinal) /\ Len(<<a>>) <= MaxDepth
        BY <1>2, <1>3
      <4> QED
        BY <4>1, <4>2, Zenon
    <3>2. CASE \E a, b \in 1..6 : SeedPaths[i] = <<a, b>>
      <4>1. PICK a \in 1..6, b \in 1..6 : SeedPaths[i] = <<a, b>>
        BY <3>2
      <4>2. <<a, b>> # <<>> /\ <<a, b>> \in Seq(0..MaxOrdinal) /\ Len(<<a, b>>) <= MaxDepth
        BY <1>2, <1>4
      <4> QED
        BY <4>1, <4>2, Zenon
    <3>3. CASE SeedPaths[i] = <<1, 1, 1>>
      BY <2>2, <3>3, Zenon
    <3> QED
      BY <2>1, <3>1, <3>2, <3>3
  <2> QED
    BY <2>3, PathIsSeq
<1>6. ASSUME NEW i \in 1..12, NEW j \in 1..12, i # j PROVE SeedPaths[i] # SeedPaths[j]
  BY <1>6 DEF SeedPaths
<1> QED
  BY <1>1, <1>5, <1>6

LEMMA SeededWired == Wired(Seeded)
<1> DEFINE user == [name |-> <<"a">>, created |-> 1, hash |-> Null, state |-> "active",
                    role |-> "member", email |-> Null, verified |-> Null]
           space == [name |-> "General", path |-> <<1>>, parent |-> Null, ranking |-> "bump",
                     cap |-> 8, config |-> "empty"]
           thread == [pid |-> <<"t">>, space |-> 1, spacePath |-> <<1>>, kind |-> "discussion",
                      title |-> "seeded", url |-> Null, author |-> 1, created |-> 1,
                      bumped |-> 1, count |-> Len(SeedPaths), state |-> "visible",
                      version |-> 0]
           post(i) == [pid |-> <<"p", i>>, thread |-> 1, parent |-> Null, path |-> SeedPaths[i],
                       author |-> 1, md |-> <<"seed">>, html |-> "seed", created |-> 1,
                       edited |-> Null, state |-> "visible"]
           posts == [i \in 1..12 |-> post(i)]
<1>1. Seeded = [EmptyDb EXCEPT !.user = <<user>>, !.space = <<space>>, !.thread = <<thread>>,
                               !.post = posts]
  BY SeedsArePaths DEF Seeded
<1>2. /\ "name" \in DOMAIN user
      /\ "space" \in DOMAIN thread /\ thread.space = 1
      /\ "author" \in DOMAIN thread /\ thread.author = 1
  OBVIOUS
<1>3. \A i : /\ "path" \in DOMAIN post(i) /\ post(i).path = SeedPaths[i]
             /\ post(i).thread = 1 /\ post(i).pid = <<"p", i>>
  OBVIOUS
<1> HIDE DEF user, space, thread, post
<1>4. DOMAIN posts = 1..12 /\ \A i \in 1..12 : posts[i] = post(i)
  OBVIOUS
<1> HIDE DEF posts
<1>5. /\ Seeded.user = <<user>> /\ Seeded.space = <<space>> /\ Seeded.thread = <<thread>>
      /\ Seeded.post = posts /\ Seeded.session = <<>>
  BY <1>1 DEF EmptyDb
<1>6. ASSUME NEW x
      PROVE  IsSeq(<<x>>) /\ DOMAIN <<x>> = {1} /\ <<x>>[1] = x
  <2>1. <<x>> \in Seq({x}) /\ DOMAIN <<x>> = {1} /\ <<x>>[1] = x
    OBVIOUS
  <2>2. IsSeq(<<x>>)
    BY <2>1, Zenon DEF IsSeq
  <2> QED
    BY <2>1, <2>2
<1>7. DOMAIN <<>> = {}
  OBVIOUS
<1>8. Keyed(Seeded)
  BY <1>2, <1>3, <1>4, <1>5, <1>6, <1>7 DEF Keyed
<1>9. InPlace(<<thread>>, <<space>>, <<user>>)
  BY <1>2, <1>6 DEF InPlace
<1>10. InThreads(posts, <<thread>>)
  BY <1>3, <1>4, <1>6, SeedsArePaths DEF InThreads
<1>11. ToldApart(posts)
  BY <1>3, <1>4, SeedsArePaths DEF ToldApart
<1>12. NamedApart(<<user>>) /\ OfUsers(<<>>, <<user>>)
  BY <1>6, <1>7 DEF NamedApart, OfUsers
<1>13. Schema(Seeded)
  BY <1>5, <1>9, <1>10, <1>11, <1>12, SchemaIs
<1> QED
  BY <1>8, <1>13 DEF Wired

\* The suite has a number of checks.
LEMMA SuiteLength == Len(D1Suite!Suite) \in Nat
<1>1. ASSUME NEW s, NEW n \in Nat, DOMAIN s = 1..n, s = [i \in DOMAIN s |-> s[i]]
      PROVE  \E S : s \in Seq(S)
  <2> DEFINE S == {s[i] : i \in 1..n}
  <2>1. s \in [1..n -> S]
    BY <1>1
  <2>2. s \in Seq(S)
    BY <2>1, SeqDef
  <2> QED
    BY <2>2
<1>2. /\ DOMAIN D1Suite!RunAll = 1..13
      /\ D1Suite!RunAll = [i \in DOMAIN D1Suite!RunAll |-> D1Suite!RunAll[i]]
  BY DEF D1Suite!RunAll
<1>3. /\ DOMAIN D1Suite!WriteChecks = 1..31
      /\ D1Suite!WriteChecks = [i \in DOMAIN D1Suite!WriteChecks |-> D1Suite!WriteChecks[i]]
  BY DEF D1Suite!WriteChecks
<1>4. PICK S, T : D1Suite!RunAll \in Seq(S) /\ D1Suite!WriteChecks \in Seq(T)
  <2>1. 13 \in Nat /\ 31 \in Nat
    OBVIOUS
  <2> QED
    BY <1>1, <1>2, <1>3, <2>1
<1>5. D1Suite!RunAll \in Seq(S \cup T) /\ D1Suite!WriteChecks \in Seq(S \cup T)
  BY <1>4, SeqDef
<1>6. D1Suite!Suite \in Seq(S \cup T)
  BY <1>5, ConcatProperties DEF D1Suite!Suite
<1> QED
  BY <1>6, LenProperties

\* As long as the suite has not begun, the two hold one database, sane and as
\* the migrations declare it, and gave one answer.
Alike ==
    fixture = Null =>
        /\ d1 = lite /\ said[1] = said[2] /\ Sane(d1) /\ Wired(d1)
        /\ DOMAIN said = 1..2 /\ said[1].err \in Error \cup {"none"}
        /\ calls \in 0..MaxCalls /\ next = 1

LEMMA CallAlike ==
    ASSUME Alike, NEW c \in Writes, Call(c)
    PROVE  Alike'
<1>1. d1 = lite /\ Sane(d1) /\ Wired(d1) /\ calls \in 0..MaxCalls /\ calls < MaxCalls /\ next = 1
  BY DEF Alike, Call
<1>2. c.do \in Methods /\ (c.do = "create_session" => "user" \in DOMAIN c.row)
  BY StoresAssumption
<1>3. D1Do(d1, c) = LiteDo(lite, c) /\ Sane(D1Do(d1, c).db) /\ Wired(D1Do(d1, c).db)
  BY <1>1, <1>2, DoAlike, CallKeeps DEF Kept
<1>4. D1Do(d1, c).res.err \in Error \cup {"none"}
  BY <1>2, CallAnswered DEF Answered
<1>5. d1' = D1Do(d1, c).db /\ lite' = LiteDo(lite, c).db
      /\ said' = <<D1Do(d1, c).res, LiteDo(lite, c).res>>
  BY DEF Call
<1>6. calls' \in 0..MaxCalls /\ next' = 1
  BY <1>1, StoresAssumption DEF Call
<1> QED
  BY <1>3, <1>4, <1>5, <1>6 DEF Alike

LEMMA AlikeInit == ASSUME Init PROVE Alike
<1>1. Ok(TRUE).err = "none"
  BY DEF Ok, Result
<1>2. calls \in 0..MaxCalls /\ next = 1
  BY StoresAssumption DEF Init
<1>3. DOMAIN said = 1..2 /\ said[1] = Ok(TRUE) /\ said[2] = Ok(TRUE)
  BY DEF Init
<1>4. d1 = lite /\ Sane(d1) /\ Wired(d1)
  BY SeededSane, SeededWired DEF Init
<1> QED
  BY <1>1, <1>2, <1>3, <1>4 DEF Alike

LEMMA AlikeStep == ASSUME Alike, [Next]_vars PROVE Alike'
<1>1. ASSUME NEW c \in Writes, Call(c) PROVE Alike'
  BY <1>1, CallAlike
<1>2. ASSUME BeginSuite PROVE Alike'
  BY <1>2 DEF BeginSuite, Alike, Null
<1>3. ASSUME RunCheck PROVE Alike'
  BY <1>3 DEF RunCheck, Alike
<1>4. ASSUME Done PROVE Alike'
  BY <1>4 DEF Done, vars, Alike
<1>5. ASSUME UNCHANGED vars PROVE Alike'
  BY <1>5 DEF vars, Alike
<1> QED
  BY <1>1, <1>2, <1>3, <1>4, <1>5 DEF Next

LEMMA AlwaysAlike == Spec => []Alike
BY AlikeInit, AlikeStep, PTL DEF Spec

\* Until the suite is run, whatever is called: every row refers to rows that
\* are there, no two posts of a thread share a place and no two posts an id,
\* every post has a place that the path type allows, though it was worked out
\* from the last path below its parent, and every answer is a value or one of
\* StoreError's errors.
THEOREM TypeCorrect == Spec => [](fixture = Null => TypeOK)
<1>1. Alike => (fixture = Null => TypeOK)
  <2> SUFFICES ASSUME Alike, fixture = Null PROVE TypeOK
    OBVIOUS
  <2>1. Schema(d1) /\ Schema(lite)
    BY DEF Alike, Wired
  <2>2. \A i \in 1..2 : said[i].err \in Error \cup {"none"}
    <3>1. \A i \in 1..2 : i = 1 \/ i = 2
      OBVIOUS
    <3> QED
      BY <3>1 DEF Alike
  <2>3. Len(fixture) <= 1
    BY DEF Null
  <2>4. next \in 1..(Len(D1Suite!Suite) + 1)
    BY SuiteLength DEF Alike
  <2> QED
    BY <2>1, <2>2, <2>3, <2>4 DEF Alike, TypeOK
<1> QED
  BY <1>1, AlwaysAlike, PTL

\* Whatever is called of the two adapters before the suite is run, in any
\* order, as often as one likes and with any arguments: they answer alike,
\* errors included, would answer any reader alike, and hold the same rows.
THEOREM SameAnswers == Spec => [](fixture = Null => AdaptersAgree)
<1>1. Alike => (fixture = Null => AdaptersAgree)
  <2> SUFFICES ASSUME d1 = lite, said[1] = said[2], Sane(d1) PROVE AdaptersAgree
    BY DEF Alike
  <2>1. \A c \in Reads : D1Do(d1, c) = LiteDo(lite, c)
    BY DoAlike, StoresAssumption
  <2> QED
    BY <2>1 DEF AdaptersAgree
<1> QED
  BY <1>1, AlwaysAlike, PTL

\* post_count, which only the bump beside an insert ever changes, is the
\* number of the thread's posts after any calls at all.
THEOREM CountsKept == Spec => [](fixture = Null => PostCountIsRight)
<1>1. Alike => (fixture = Null => PostCountIsRight)
  BY DEF Alike, Sane, PostCountIsRight
<1> QED
  BY <1>1, AlwaysAlike, PTL

\* In any behaviour in which the suite is not run, a call after which a
\* thread's pages show something else has given that thread another version:
\* each statement that writes to posts or threads bumps every thread it shows
\* through, and batch and transaction leave no half of that behind.
THEOREM PagesTurn == Spec /\ [](fixture = Null) => PageTurnsOver
<1>1. Alike /\ fixture = Null /\ (fixture = Null)' /\ [Next]_vars => [TurnsOver]_vars
  <2> SUFFICES ASSUME Alike, fixture = Null, fixture' = Null, Next
               PROVE  TurnsOver \/ UNCHANGED vars
    OBVIOUS
  <2>1. ASSUME NEW c \in Writes, Call(c) PROVE TurnsOver
    <3>1. c.do \in Methods /\ (c.do = "create_session" => "user" \in DOMAIN c.row)
      BY StoresAssumption
    <3>2. Turned(d1, D1Do(d1, c).db)
      BY <3>1, CallKeeps DEF Alike, Kept
    <3>3. d1' = D1Do(d1, c).db
      BY <2>1 DEF Call
    <3> QED
      BY <3>2, <3>3 DEF Turned, TurnsOver
  <2>2. ~BeginSuite /\ ~RunCheck
    BY DEF BeginSuite, RunCheck, Null
  <2>3. Done => UNCHANGED vars
    BY DEF Done
  <2> QED
    BY <2>1, <2>2, <2>3 DEF Next
<1> QED
  BY <1>1, AlwaysAlike, PTL DEF Spec, PageTurnsOver
=============================================================================
