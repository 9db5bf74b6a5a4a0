-------------------------------- MODULE Sql ---------------------------------
(***************************************************************************)
(* The database and the statements that every store shares: core's sql.rs  *)
(* over the tables of src/migrations.  A statement takes a database; one   *)
(* that reads gives its rows, one that writes gives the database after it, *)
(* how many rows it changed and the constraint that stopped it, if any.    *)
(*                                                                         *)
(* Tables from which nothing is ever deleted are sequences in the order of *)
(* their row ids; the others are functions on their keys.  A value that    *)
(* may be NULL is a sequence of at most one.  Names are sequences of       *)
(* letters; a space's path is the sequence of its keys, which sort as      *)
(* numbers; ids, bodies and the like are compared and no more.             *)
(***************************************************************************)
EXTENDS Paths, FiniteSets, SequencesExt

Null == <<>>
Coalesce(a, b) == IF a = Null THEN b ELSE a

\* The row ids whose rows satisfy a test, and the one there is, if there is.
Where(table, Test(_)) == {i \in DOMAIN table : Test(table[i])}
TheOne(ids) == IF ids = {} THEN Null ELSE <<CHOOSE i \in ids : TRUE>>

\* ORDER BY ... LIMIT: the first of a set in an order.
OrderBy(S, Less(_, _), limit) ==
    LET n == IF limit < Cardinality(S) THEN limit ELSE Cardinality(S)
    IN  [k \in 1..n |-> CHOOSE x \in S : Cardinality({y \in S : Less(y, x)}) = k - 1]
Rows(ids, Row(_)) == [i \in DOMAIN ids |-> Row(ids[i])]

EmptyDb ==
    [user |-> <<>>, space |-> <<>>, thread |-> <<>>, post |-> <<>>,
     log |-> <<>>, review |-> <<>>, signal |-> <<>>,
     session |-> <<>>, attempt |-> <<>>, token |-> <<>>, identity |-> <<>>]

Wrote(db, changes) == [db |-> db, changes |-> changes, stopped |-> "no"]
Stopped(db, why)   == [db |-> db, changes |-> 0, stopped |-> why]

\* INSERT into a table that numbers its rows.
Insert(db, table, row) == Wrote([db EXCEPT ![table] = Append(@, row)], 1)

\* INSERT into a keyed table, and DELETE from one.
Put(f, key, row)  == [k \in DOMAIN f \cup {key} |-> IF k = key THEN row ELSE f[k]]
Drop(f, keys)     == [k \in DOMAIN f \ keys |-> f[k]]
InsertKey(db, table, key, row) ==
    IF key \in DOMAIN db[table] THEN Stopped(db, "primary")
    ELSE Wrote([db EXCEPT ![table] = Put(@, key, row)], 1)
DeleteKeys(db, table, keys) ==
    LET gone == keys \cap DOMAIN db[table]
    IN  Wrote([db EXCEPT ![table] = Drop(@, gone)], Cardinality(gone))

\* UPDATE ... SET ... WHERE.
Update(db, table, ids, Set(_)) ==
    Wrote([db EXCEPT ![table] = [i \in DOMAIN @ |-> IF i \in ids THEN Set(@[i]) ELSE @[i]]],
          Cardinality(ids))

\* Foreign keys: a row refers to rows that are there.
Refers(db, table, id)  == id \in DOMAIN db[table]
MayRefer(db, table, option) == option = Null \/ Refers(db, table, option[1])

ThreadIds(db, thread)  == Where(db.thread, LAMBDA t : t.pid = thread)
PostIds(db, post)      == Where(db.post, LAMBDA p : p.pid = post)
Named(db, name)        == Where(db.user, LAMBDA u : u.name = name)
InThread(db, thread)   == Where(db.post, LAMBDA p : p.thread = thread)

-----------------------------------------------------------------------------
(* Reading threads and posts                                               *)

UserOf(db, id) == [id |-> id, name |-> db.user[id].name,
                   state |-> db.user[id].state, role |-> db.user[id].role]

SpaceOf(db, id) == [id |-> id, row |-> db.space[id]]

\* THREAD and THREAD_HEAD leave the space's parent out.
Thread(db, thread) ==
    LET Row(i) == [id |-> i, row |-> db.thread[i],
                   author_name |-> db.user[db.thread[i].author].name,
                   space |-> [SpaceOf(db, db.thread[i].space) EXCEPT !.row.parent = Null]]
        found == TheOne(ThreadIds(db, thread))
    IN  Rows(found, Row)

ThreadVersion(db, thread) ==
    LET Row(i) == db.thread[i].version IN Rows(TheOne(ThreadIds(db, thread)), Row)

\* body_md is not selected.
PostRow(db, i) ==
    [id |-> i, row |-> [db.post[i] EXCEPT !.md = Null],
     author_name |-> db.user[db.post[i].author].name]

ByPath(db, i, j) == Before(db.post[i].path, db.post[j].path)

Posts(db, thread, after, limit) ==
    LET Later(i, j) == ByPath(db, i, j)
        Row(i) == PostRow(db, i)
        ids == {i \in DOMAIN db.post :
                   /\ db.post[i].thread \in ThreadIds(db, thread)
                   /\ Before(after, db.post[i].path)}
    IN  Rows(OrderBy(ids, Later, limit), Row)

PostById(db, post) ==
    LET Row(i) == [PostRow(db, i) EXCEPT !.row.md = db.post[i].md]
        Both(i) == [post |-> Row(i), thread |-> db.thread[db.post[i].thread].pid]
    IN  Rows(TheOne(PostIds(db, post)), Both)

LocatePost(db, post) ==
    LET Row(i) == [thread |-> db.post[i].thread, pid |-> db.thread[db.post[i].thread].pid,
                   path |-> db.post[i].path]
    IN  Rows(TheOne(PostIds(db, post)), Row)

PostRank(db, thread, path) ==
    Cardinality({i \in InThread(db, thread) : Before(db.post[i].path, path)})

PathAtOffset(db, thread, offset) ==
    LET Later(i, j) == ByPath(db, i, j)
        s == OrderBy(InThread(db, thread), Later, offset + 1)
    IN  IF Len(s) <= offset THEN Null ELSE <<db.post[Last(s)].path>>

\* The deepest youngest path below a parent, whose own path is below, or none.
LastPathInRange(db, thread, below) ==
    LET found == {db.post[i].path : i \in {i \in InThread(db, thread) :
                     Len(db.post[i].path) > Len(below) /\ IsPrefix(below, db.post[i].path)}}
    IN  IF found = {} THEN <<>>
        ELSE CHOOSE p \in found : \A q \in found : q = p \/ Before(q, p)

PostInThread(db, post, thread) ==
    TheOne({i \in PostIds(db, post) : db.post[i].thread = thread})

Listed == {"visible", "pinned", "locked"}

\* Pinned first, then most recently bumped.
Summaries(db, ids, limit) ==
    LET Pin(i) == IF db.thread[i].state = "pinned" THEN 1 ELSE 0
        First(i, j) ==
            \/ Pin(i) > Pin(j)
            \/ Pin(i) = Pin(j) /\ db.thread[i].bumped > db.thread[j].bumped
            \/ Pin(i) = Pin(j) /\ db.thread[i].bumped = db.thread[j].bumped /\ i < j
        Row(i) == [pid |-> db.thread[i].pid, title |-> db.thread[i].title,
                   count |-> db.thread[i].count, bumped |-> db.thread[i].bumped,
                   author |-> db.user[db.thread[i].author].name,
                   space_name |-> db.space[db.thread[i].space].name,
                   space_path |-> db.space[db.thread[i].space].path]
    IN  Rows(OrderBy(ids, First, limit), Row)

RecentThreads(db, limit) ==
    Summaries(db, Where(db.thread, LAMBDA t : t.state \in Listed), limit)

\* A range scan over the stored paths of the space and those under it.
SpaceThreads(db, path, limit) ==
    Summaries(db, Where(db.thread, LAMBDA t : IsPrefix(path, t.spacePath) /\ t.state \in Listed),
              limit)

-----------------------------------------------------------------------------
(* Writing threads and posts                                               *)

\* Mutant of InsertPost: no index stops it.
InsertPostAgain(db, row) ==
    IF ~Refers(db, "user", row.author) THEN Stopped(db, "foreign") ELSE Insert(db, "post", row)

\* The path of another post of the thread, or another's id.
InsertPost(db, row) ==
    IF \E i \in DOMAIN db.post :
           \/ db.post[i].pid = row.pid
           \/ db.post[i].thread = row.thread /\ db.post[i].path = row.path
    THEN Stopped(db, "unique")
    ELSE IF ~Refers(db, "user", row.author) THEN Stopped(db, "foreign")
    ELSE Insert(db, "post", row)

\* Mutant of BumpThread: the post is not counted.
BumpThreadUncounted(db, thread, at) ==
    LET Set(t) == [t EXCEPT !.bumped = at, !.version = @ + 1]
    IN  Update(db, "thread", {thread}, Set)

BumpThread(db, thread, at) ==
    LET Set(t) == [t EXCEPT !.count = @ + 1, !.bumped = at, !.version = @ + 1]
    IN  Update(db, "thread", {thread}, Set)

\* post_count starts at zero; the first post bumps it like any other.
InsertThread(db, new) ==
    IF ThreadIds(db, new.pid) # {} THEN Stopped(db, "unique")
    ELSE IF ~Refers(db, "space", new.space) \/ ~Refers(db, "user", new.author)
    THEN Stopped(db, "foreign")
    ELSE Insert(db, "thread",
             [pid |-> new.pid, space |-> new.space, spacePath |-> new.spacePath,
              kind |-> new.kind, title |-> new.title, url |-> new.url,
              author |-> new.author, created |-> new.at, bumped |-> new.at,
              count |-> 0, state |-> "visible", version |-> 0])

UpdatePostBody(db, post, md, html, at) ==
    LET Set(p) == [p EXCEPT !.md = <<md>>, !.html = html, !.edited = <<at>>]
    IN  Update(db, "post", PostIds(db, post), Set)

SetPostState(db, post, state) ==
    LET Set(p) == [p EXCEPT !.state = state] IN Update(db, "post", PostIds(db, post), Set)

Turn(t) == [t EXCEPT !.version = @ + 1]

\* Mutant of BumpThreadForPost: it bumps nothing.
BumpThreadForNoPost(db, post) == Update(db, "thread", {}, Turn)

BumpThreadForPost(db, post) ==
    Update(db, "thread", {db.post[i].thread : i \in PostIds(db, post)}, Turn)

\* Every field of the form, and the version with them.
UpdateThread(db, thread, edit) ==
    LET Set(t) == [t EXCEPT !.title = edit.title, !.url = edit.url, !.state = edit.state,
                            !.space = edit.space, !.spacePath = edit.spacePath,
                            !.version = @ + 1]
    IN  IF ThreadIds(db, thread) # {} /\ ~Refers(db, "space", edit.space)
        THEN Stopped(db, "foreign")
        ELSE Update(db, "thread", ThreadIds(db, thread), Set)

StandingPosts(db, user) ==
    Where(db.post, LAMBDA p : p.author = user /\ p.state # "deleted")

BumpThreadsOfUser(db, user) ==
    Update(db, "thread", {db.post[i].thread : i \in StandingPosts(db, user)}, Turn)

TombstoneUserPosts(db, user) ==
    LET Set(p) == [p EXCEPT !.state = "deleted"]
    IN  Update(db, "post", StandingPosts(db, user), Set)

-----------------------------------------------------------------------------
(* Sessions and attempts                                                   *)

InsertSession(db, token, row) ==
    IF ~Refers(db, "user", row.user) /\ token \notin DOMAIN db.session
    THEN Stopped(db, "foreign")
    ELSE InsertKey(db, "session", token, row)

\* Expiry is filtered here, as the sweep may not have run.
LookupSession(db, token, now) ==
    IF token \in DOMAIN db.session /\ db.session[token].expires > now
    THEN <<[session |-> db.session[token], user |-> UserOf(db, db.session[token].user)]>>
    ELSE Null

RefreshSession(db, token, refreshed, expires) ==
    IF token \notin DOMAIN db.session THEN Wrote(db, 0)
    ELSE Wrote([db EXCEPT !.session[token].refreshed = refreshed,
                          !.session[token].expires = expires], 1)

DeleteSession(db, token) == DeleteKeys(db, "session", {token})

DeleteUserSessions(db, user) ==
    DeleteKeys(db, "session", {k \in DOMAIN db.session : db.session[k].user = user})

\* The rows of either key.
LoginAttempts(db, identity, client) ==
    {[key |-> k, row |-> db.attempt[k]] : k \in DOMAIN db.attempt \cap {identity, client}}

RecordLoginAttempt(db, key, row) ==
    Wrote([db EXCEPT !.attempt = Put(@, key, row)], 1)

ClearLoginAttempts(db, key) == DeleteKeys(db, "attempt", {key})

SweepLoginAttempts(db, cutoff) ==
    DeleteKeys(db, "attempt", {k \in DOMAIN db.attempt : db.attempt[k].start < cutoff})

-----------------------------------------------------------------------------
(* Accounts                                                                *)

UserByName(db, name) ==
    LET Row(i) == [user |-> UserOf(db, i), hash |-> db.user[i].hash]
    IN  Rows(TheOne(Named(db, name)), Row)

UserById(db, id) ==
    LET Row(i) == UserOf(db, i) IN Rows(TheOne({id} \cap DOMAIN db.user), Row)

InsertUser(db, name, at, hash) ==
    IF Named(db, name) # {} THEN Stopped(db, "unique")
    ELSE Insert(db, "user", [name |-> name, created |-> at, hash |-> hash, state |-> "active",
                             role |-> "member", email |-> Null, verified |-> Null])

UpdateUser(db, id, Set(_)) == Update(db, "user", {id} \cap DOMAIN db.user, Set)

SetPasswordHash(db, id, hash) ==
    LET Set(u) == [u EXCEPT !.hash = <<hash>>] IN UpdateUser(db, id, Set)

SetUserRole(db, id, role) ==
    LET Set(u) == [u EXCEPT !.role = role] IN UpdateUser(db, id, Set)

SetUserState(db, id, state) ==
    LET Set(u) == [u EXCEPT !.state = state] IN UpdateUser(db, id, Set)

UserProfile(db, name) ==
    LET Row(i) == [user |-> UserOf(db, i), created |-> db.user[i].created]
    IN  Rows(TheOne(Named(db, name)), Row)

\* Newest first, the public's view.
UserRecentPosts(db, user, limit) ==
    LET Newer(i, j) == \/ db.post[i].created > db.post[j].created
                       \/ db.post[i].created = db.post[j].created /\ i < j
        Row(i) == [pid |-> db.post[i].pid, html |-> db.post[i].html,
                   created |-> db.post[i].created,
                   thread |-> db.thread[db.post[i].thread].pid,
                   title |-> db.thread[db.post[i].thread].title]
    IN  Rows(OrderBy(Where(db.post, LAMBDA p : p.author = user /\ p.state = "visible"),
                     Newer, limit), Row)

Account(db, id) ==
    LET Row(i) == [email |-> db.user[i].email, verified |-> db.user[i].verified,
                   has_password |-> db.user[i].hash # Null]
    IN  Rows(TheOne({id} \cap DOMAIN db.user), Row)

Verified(db, email) == Where(db.user, LAMBDA u : u.email = <<email>> /\ u.verified # Null)

UserByVerifiedEmail(db, email) ==
    LET Row(i) == UserOf(db, i) IN Rows(TheOne(Verified(db, email)), Row)

SetEmail(db, id, email) ==
    LET Set(u) == [u EXCEPT !.email = email, !.verified = Null] IN UpdateUser(db, id, Set)

\* Of the verified addresses, and of no other, each is one account's.
MarkEmailVerified(db, id, email, now) ==
    LET Set(u) == [u EXCEPT !.verified = <<now>>]
        ids == {i \in {id} \cap DOMAIN db.user : db.user[i].email = <<email>>}
    IN  IF ids # {} /\ Verified(db, email) \ ids # {} THEN Stopped(db, "unique")
        ELSE Update(db, "user", ids, Set)

InsertEmailToken(db, hash, row) ==
    IF ~Refers(db, "user", row.user) /\ hash \notin DOMAIN db.token THEN Stopped(db, "foreign")
    ELSE InsertKey(db, "token", hash,
             [user |-> row.user, kind |-> row.kind, email |-> row.email,
              created |-> row.created, expires |-> row.expires, used |-> Null])

Unspent(db, hash, kind, now) ==
    /\ hash \in DOMAIN db.token
    /\ db.token[hash].kind = kind
    /\ db.token[hash].used = Null
    /\ db.token[hash].expires > now

\* UPDATE ... RETURNING: the update is its own read.
ConsumeEmailToken(db, hash, kind, now) ==
    IF Unspent(db, hash, kind, now)
    THEN [db |-> [db EXCEPT !.token[hash].used = <<now>>], changes |-> 1, stopped |-> "no",
          rows |-> <<[user |-> db.token[hash].user, email |-> db.token[hash].email]>>]
    ELSE [db |-> db, changes |-> 0, stopped |-> "no", rows |-> Null]

PeekEmailToken(db, hash, kind, now) ==
    IF Unspent(db, hash, kind, now) THEN <<db.user[db.token[hash].user].name>> ELSE Null

RetireEmailTokens(db, user, kind, now) ==
    LET of == {k \in DOMAIN db.token : /\ db.token[k].user = user /\ db.token[k].kind = kind
                                       /\ db.token[k].used = Null}
    IN  Wrote([db EXCEPT !.token = [k \in DOMAIN @ |->
                  IF k \in of THEN [@[k] EXCEPT !.used = <<now>>] ELSE @[k]]],
              Cardinality(of))

IdentityUser(db, provider, subject) ==
    IF <<provider, subject>> \in DOMAIN db.identity
    THEN <<UserOf(db, db.identity[<<provider, subject>>].user)>> ELSE Null

InsertIdentity(db, provider, subject, user, email, now) ==
    IF ~Refers(db, "user", user) /\ <<provider, subject>> \notin DOMAIN db.identity
    THEN Stopped(db, "foreign")
    ELSE InsertKey(db, "identity", <<provider, subject>>,
             [user |-> user, email |-> email, created |-> now, last |-> now])

TouchIdentity(db, provider, subject, now) ==
    IF <<provider, subject>> \notin DOMAIN db.identity THEN Wrote(db, 0)
    ELSE Wrote([db EXCEPT !.identity[<<provider, subject>>].last = now], 1)

UserIdentities(db, user) ==
    {k[1] : k \in {k \in DOMAIN db.identity : db.identity[k].user = user}}

-----------------------------------------------------------------------------
(* Moderation                                                              *)

\* The thread's space and the author, a cross join of two single rows.
WriteContext(db, thread, author) ==
    LET Row(i) == [space |-> db.thread[i].space,
                   config |-> db.space[db.thread[i].space].config,
                   state |-> db.thread[i].state,
                   author_created |-> db.user[author].created, role |-> db.user[author].role]
    IN  IF Refers(db, "user", author) THEN Rows(TheOne(ThreadIds(db, thread)), Row) ELSE Null

SpaceContext(db, space, author) ==
    IF Refers(db, "user", author) /\ Refers(db, "space", space)
    THEN <<[space |-> space, config |-> db.space[space].config, state |-> "visible",
            author_created |-> db.user[author].created, role |-> db.user[author].role]>>
    ELSE Null

AuthorPostedRecently(db, author, md, since) ==
    \E i \in DOMAIN db.post : /\ db.post[i].author = author
                              /\ db.post[i].created >= since /\ db.post[i].md = <<md>>

PostForReview(db, post) ==
    LET Row(i) == LET p == db.post[i] t == db.thread[p.thread] s == db.space[t.space] IN
                  [id |-> i, pid |-> p.pid, thread |-> t.pid, title |-> t.title,
                   space |-> t.space, space_name |-> s.name, config |-> s.config,
                   author |-> p.author, author_name |-> db.user[p.author].name,
                   author_created |-> db.user[p.author].created,
                   md |-> p.md, created |-> p.created, state |-> p.state]
    IN  Rows(TheOne(PostIds(db, post)), Row)

InsertAction(db, row) ==
    IF ~MayRefer(db, "user", row.actor) THEN Stopped(db, "foreign") ELSE Insert(db, "log", row)

ReviewOf(db, post) == Where(db.review, LAMBDA r : r.post = post)

\* One row per post; what the model said and the appeal stay if the new
\* opening brings none.  The space is the first opening's.
UpsertReview(db, new) ==
    LET Again(r) == [new EXCEPT !.space = r.space,
                                !.verdict = Coalesce(new.verdict, r.verdict),
                                !.appeal = Coalesce(new.appeal, r.appeal)]
    IN  IF ReviewOf(db, new.post) # {} THEN Update(db, "review", ReviewOf(db, new.post), Again)
        ELSE IF ~Refers(db, "post", new.post) \/ ~Refers(db, "space", new.space)
        THEN Stopped(db, "foreign") ELSE Insert(db, "review", new)

ReviewItem(db, i) ==
    LET r == db.review[i] p == db.post[r.post] t == db.thread[p.thread] IN
    [id |-> i, post |-> r.post, pid |-> p.pid, thread |-> t.pid, title |-> t.title,
     space |-> r.space, space_name |-> db.space[r.space].name, author |-> p.author,
     author_name |-> db.user[p.author].name, html |-> p.html, post_state |-> p.state,
     reason |-> r.reason, verdict |-> r.verdict, appeal |-> r.appeal,
     opened |-> r.opened, resolved |-> r.state = "resolved"]

OpenReviews(db, limit) ==
    LET Older(i, j) == \/ db.review[i].opened < db.review[j].opened
                       \/ db.review[i].opened = db.review[j].opened /\ i < j
        Row(i) == ReviewItem(db, i)
    IN  Rows(OrderBy(Where(db.review, LAMBDA r : r.state = "open"), Older, limit), Row)

ReviewById(db, id) ==
    LET Row(i) == ReviewItem(db, i) IN Rows(TheOne({id} \cap DOMAIN db.review), Row)

\* Conditional on open, so that the second of two resolutions changes nothing.
ResolveReview(db, id, resolution, by, at) ==
    LET Set(r) == [r EXCEPT !.state = "resolved", !.resolution = <<resolution>>,
                            !.by = <<by>>, !.at = <<at>>]
        ids == {i \in {id} \cap DOMAIN db.review : db.review[i].state = "open"}
    IN  IF ids # {} /\ ~Refers(db, "user", by) THEN Stopped(db, "foreign")
        ELSE Update(db, "review", ids, Set)

\* OR IGNORE: a repeat changes nothing.  It does not ignore foreign keys.
InsertSignal(db, row) ==
    IF \E i \in DOMAIN db.signal : db.signal[i] = row THEN Wrote(db, 0)
    ELSE IF ~Refers(db, "post", row.post) \/ ~Refers(db, "user", row.user)
    THEN Stopped(db, "foreign")
    ELSE Insert(db, "signal", row)

CountSignals(db, post, kind) ==
    Cardinality(Where(db.signal, LAMBDA x : x.post = post /\ x.kind = kind))

PendingPosts(db, before, limit) ==
    LET Older(i, j) == \/ db.post[i].created < db.post[j].created
                       \/ db.post[i].created = db.post[j].created /\ i < j
        Row(i) == db.post[i].pid
        ids == {i \in DOMAIN db.post :
                   /\ db.post[i].state = "pending" /\ db.post[i].created < before
                   /\ \A r \in ReviewOf(db, i) : db.review[r].state # "open"}
    IN  Rows(OrderBy(ids, Older, limit), Row)

\* Newest first, with the target's public id where it has one.
LogRows(db, ids, limit, Row(_)) ==
    LET Newer(i, j) == \/ db.log[i].created > db.log[j].created
                       \/ db.log[i].created = db.log[j].created /\ i > j
    IN  Rows(OrderBy(ids, Newer, limit), Row)

LogEntry(db, i) ==
    LET a == db.log[i] IN
    [id |-> i, actor_kind |-> a.actor_kind, actor_name |-> a.actor_name,
     target_kind |-> a.target_kind, action |-> a.action, created |-> a.created,
     target |-> IF a.target_kind \in {"post", "thread"} /\ a.target \in DOMAIN db[a.target_kind]
                THEN <<db[a.target_kind][a.target].pid>> ELSE Null]

\* The detail is deliberately not selected.
PublicLog(db, limit) ==
    LET Row(i) == LogEntry(db, i)
    IN  LogRows(db, Where(db.log, LAMBDA a : a.public), limit, Row)

FullLog(db, limit) ==
    LET Row(i) == [entry |-> LogEntry(db, i), public |-> db.log[i].public,
                   detail |-> db.log[i].detail]
    IN  LogRows(db, DOMAIN db.log, limit, Row)

\* clean and approve agree, flag and reject agree; unsure does neither.
Agreement(db, space) ==
    LET Judged(call, resolution) == Where(db.review, LAMBDA r :
            /\ r.space = space /\ r.state = "resolved"
            /\ r.verdict # Null /\ r.verdict[1].call = call /\ r.resolution = <<resolution>>)
    IN  [agreed    |-> Cardinality(Judged("clean", "approve") \cup Judged("flag", "reject")),
         disagreed |-> Cardinality(Judged("clean", "reject") \cup Judged("flag", "approve"))]

-----------------------------------------------------------------------------
(* Spaces and administration                                               *)

SpaceByPath(db, path) ==
    LET Row(i) == SpaceOf(db, i)
    IN  Rows(TheOne(Where(db.space, LAMBDA s : s.path = path)), Row)

SpacesInOrder(db, ids, Row(_)) ==
    LET Sooner(i, j) == Before(db.space[i].path, db.space[j].path)
    IN  Rows(OrderBy(ids, Sooner, Cardinality(ids)), Row)

\* With no parent given, the top level.
SpacesUnder(db, parent) ==
    LET Row(i) == SpaceOf(db, i)
    IN  SpacesInOrder(db, Where(db.space, LAMBDA s : s.parent = parent), Row)

DetailOf(db, i) ==
    [space |-> SpaceOf(db, i), thread_count |-> Cardinality(Where(db.thread, LAMBDA t : t.space = i))]

SpaceDetail(db, id) ==
    LET Row(i) == DetailOf(db, i) IN Rows(TheOne({id} \cap DOMAIN db.space), Row)

AllSpaces(db) == LET Row(i) == DetailOf(db, i) IN SpacesInOrder(db, DOMAIN db.space, Row)

InsertSpace(db, row) ==
    IF \E i \in DOMAIN db.space : db.space[i].path = row.path THEN Stopped(db, "unique")
    ELSE IF ~MayRefer(db, "space", row.parent) THEN Stopped(db, "foreign")
    ELSE Insert(db, "space", row)

UpdateSpace(db, id, name, ranking, cap, config) ==
    LET Set(s) == [s EXCEPT !.name = name, !.ranking = ranking, !.cap = cap, !.config = config]
    IN  Update(db, "space", {id} \cap DOMAIN db.space, Set)

UserRowOf(db, i) ==
    [user |-> UserOf(db, i), created |-> db.user[i].created, email |-> db.user[i].email,
     verified |-> db.user[i].verified # Null,
     posts |-> Cardinality(Where(db.post, LAMBDA p : p.author = i))]

UserRow(db, name) ==
    LET Row(i) == UserRowOf(db, i) IN Rows(TheOne(Named(db, name)), Row)

\* LIKE prefix%: an underscore in the prefix stands for any letter.
Like(name, prefix) ==
    /\ Len(prefix) <= Len(name)
    /\ \A i \in DOMAIN prefix : prefix[i] \in {name[i], "_"}

ListUsers(db, prefix, limit) ==
    LET Newer(i, j) == i > j
        Row(i) == UserRowOf(db, i)
    IN  Rows(OrderBy(Where(db.user, LAMBDA u : Like(u.name, prefix)), Newer, limit), Row)

SiteStats(db) ==
    [users |-> Len(db.user), threads |-> Len(db.thread), posts |-> Len(db.post),
     pending |-> Cardinality(Where(db.post, LAMBDA p : p.state = "pending")),
     open_reviews |-> Cardinality(Where(db.review, LAMBDA r : r.state = "open")),
     banned |-> Cardinality(Where(db.user, LAMBDA u : u.state = "banned"))]

=============================================================================
