------------------------------ MODULE D1Store -------------------------------
(***************************************************************************)
(* The store over Cloudflare's D1: single statements, and batches that are *)
(* one transaction.  Errors come as messages, and only where a method      *)
(* reads the message is a unique violation a Conflict.                     *)
(***************************************************************************)
EXTENDS Store

\* Mutant of WriteError: the message is not read.
WriteErrorBackend(stopped) == "backend"

\* write_error: a unique index and a primary key fail with one message.
WriteError(stopped) == IF stopped \in {"unique", "primary"} THEN "conflict" ELSE "backend"

\* D1Store::run, whose errors are all backend errors.
Run(db, r, value) == IF r.stopped = "no" THEN Got(r.db, value) ELSE Fail(db, "backend")

\* A statement whose error is read.
RunRead(db, r, value) ==
    IF r.stopped = "no" THEN Got(r.db, value) ELSE Fail(db, WriteError(r.stopped))

\* A batch of two statements that both run; nothing changed is not found.
Batch(db, first, second) ==
    IF first.changes = 0 THEN Fail(second.db, "not_found") ELSE Got(second.db, TRUE)

FetchPostLocation(db, post, size) ==
    LET row == LocatePost(db, post)
    IN  IF row = Null THEN Fail(db, "not_found") ELSE Got(db, Location(db, row[1], size))

AppendPost(db, new) ==
    LET thread == TheOne(ThreadIds(db, new.thread))
        parent == IF new.parent = Null \/ thread = Null THEN Null
                  ELSE PostInThread(db, new.parent[1], thread[1])
        below  == IF parent = Null THEN <<>> ELSE db.post[parent[1]].path
    IN  IF thread = Null \/ (new.parent # Null /\ parent = Null) THEN Fail(db, "not_found")
        ELSE LET path == Allocate(below, LastPathInRange(db, thread[1], below))
                 insert == InsertPost(db, NewPostRow(new, thread[1], parent, path))
                 bump == BumpThread(insert.db, thread[1], new.at)
             IN  IF path = <<>> THEN Fail(db, "backend")
                 ELSE IF insert.stopped # "no" THEN Fail(db, WriteError(insert.stopped))
                 ELSE Got(bump.db, Inserted(insert.db, "post"))

FetchThreadPage(db, thread, after, limit) ==
    LET head == Thread(db, thread)
    IN  IF head = Null THEN Fail(db, "not_found")
        ELSE Got(db, PageOf(head[1], Posts(db, thread, after, limit + 1), limit))

\* Threads and spaces as they are read, a thread begun, a body rewritten.
D1Threads(db, c) ==
    CASE c.do = "thread_page"    -> FetchThreadPage(db, c.thread, c.after, c.limit)
      [] c.do = "locate_post"    -> FetchPostLocation(db, c.post, c.size)
      [] c.do = "recent_threads" -> Got(db, RecentThreads(db, c.limit))
      [] c.do = "space_threads"  -> Got(db, SpaceThreads(db, c.path, c.limit))
      [] c.do = "space_by_path"  -> Got(db, SpaceByPath(db, c.path))
      [] c.do = "spaces_under"   -> Got(db, SpacesUnder(db, c.parent))
      [] c.do = "space_context"  -> Found(db, SpaceContext(db, c.space, c.author))
      [] c.do = "create_thread"  ->
             LET r == InsertThread(db, c.new) IN RunRead(db, r, Inserted(r.db, "thread"))

D1Bodies(db, c) ==
    CASE c.do = "update_post_body" ->
             LET first == UpdatePostBody(db, c.post, c.md, c.html, c.at)
             IN  Batch(db, first, BumpThreadForPost(first.db, c.post))
      [] c.do = "user_profile" ->
             LET head == UserProfile(db, c.name)
             IN  Got(db, IF head = Null THEN Null
                         ELSE <<[head |-> head[1],
                                 posts |-> UserRecentPosts(db, head[1].user.id, c.limit)]>>)

D1Email(db, c) ==
    CASE c.do = "account"                -> Got(db, Account(db, c.user))
      [] c.do = "user_by_verified_email" -> Got(db, UserByVerifiedEmail(db, c.email))
      [] c.do = "set_email"              -> Run(db, SetEmail(db, c.user, c.email), TRUE)
      [] c.do = "mark_email_verified"    ->
             LET r == MarkEmailVerified(db, c.user, c.email, c.now)
             IN  RunRead(db, r, r.changes > 0)
      [] c.do = "create_email_token"     -> Run(db, InsertEmailToken(db, c.hash, c.row), TRUE)
      [] c.do = "consume_email_token"    ->
             LET r == ConsumeEmailToken(db, c.hash, c.kind, c.now) IN Got(r.db, r.rows)
      [] c.do = "peek_email_token"       -> Got(db, PeekEmailToken(db, c.hash, c.kind, c.now))
      [] c.do = "retire_email_tokens"    ->
             LET r == RetireEmailTokens(db, c.user, c.kind, c.now) IN Run(db, r, r.changes)

D1Identities(db, c) ==
    CASE c.do = "identity_user"   -> Got(db, IdentityUser(db, c.provider, c.subject))
      [] c.do = "link_identity"   ->
             RunRead(db, InsertIdentity(db, c.provider, c.subject, c.user, c.email, c.now), TRUE)
      [] c.do = "touch_identity"  -> Run(db, TouchIdentity(db, c.provider, c.subject, c.now), TRUE)
      [] c.do = "user_identities" -> Got(db, UserIdentities(db, c.user))

D1Administration(db, c) ==
    CASE c.do = "thread_head"    -> Found(db, Thread(db, c.thread))
      [] c.do = "update_thread"  ->
             LET r == UpdateThread(db, c.thread, c.edit)
             IN  IF r.stopped = "no" /\ r.changes = 0 THEN Fail(db, "not_found")
                 ELSE Run(db, r, TRUE)
      [] c.do = "set_user_role"  -> Run(db, SetUserRole(db, c.user, c.role), TRUE)
      [] c.do = "set_user_state" -> Run(db, SetUserState(db, c.user, c.state), TRUE)
      [] c.do = "list_users"     -> Got(db, ListUsers(db, c.prefix, c.limit))
      [] c.do = "user_row"       -> Got(db, UserRow(db, c.name))
      [] c.do = "space_detail"   -> Got(db, SpaceDetail(db, c.space))
      [] c.do = "all_spaces"     -> Got(db, AllSpaces(db))
      [] c.do = "create_space"   ->
             LET r == InsertSpace(db, c.row) IN RunRead(db, r, Len(r.db.space))
      [] c.do = "update_space"   ->
             Run(db, UpdateSpace(db, c.space, c.name, c.ranking, c.cap, c.config), TRUE)
      [] c.do = "site_stats"     -> Got(db, SiteStats(db))
      [] c.do = "full_log"       -> Got(db, FullLog(db, c.limit))

D1Users(db, c) ==
    CASE c.do = "post_by_id"        -> Found(db, PostById(db, c.post))
      [] c.do = "thread_version"    -> Got(db, ThreadVersion(db, c.thread))
      [] c.do = "insert_post"       -> AppendPost(db, c.new)
      [] c.do = "user_by_name"      -> Got(db, UserByName(db, c.name))
      [] c.do = "user_by_id"        -> Got(db, UserById(db, c.user))
      [] c.do = "create_user"       ->
             LET r == InsertUser(db, c.name, c.at, c.hash) IN RunRead(db, r, Len(r.db.user))
      [] c.do = "set_password_hash" -> Run(db, SetPasswordHash(db, c.user, c.hash), TRUE)

D1Sessions(db, c) ==
    CASE c.do = "login_attempts"       ->
             Got(db, Counters(LoginAttempts(db, c.identity, c.client), c.identity, c.client))
      [] c.do = "record_login_attempt" -> Run(db, RecordLoginAttempt(db, c.key, c.row), TRUE)
      [] c.do = "clear_login_attempts" -> Run(db, ClearLoginAttempts(db, c.key), TRUE)
      [] c.do = "sweep_login_attempts" ->
             LET r == SweepLoginAttempts(db, c.cutoff) IN Run(db, r, r.changes)
      [] c.do = "create_session"       -> Run(db, InsertSession(db, c.token, c.row), TRUE)
      [] c.do = "lookup_session"       -> Got(db, LookupSession(db, c.token, c.now))
      [] c.do = "refresh_session"      ->
             Run(db, RefreshSession(db, c.token, c.refreshed, c.expires), TRUE)
      [] c.do = "delete_session"       -> Run(db, DeleteSession(db, c.token), TRUE)
      [] c.do = "delete_user_sessions" ->
             LET r == DeleteUserSessions(db, c.user) IN Run(db, r, r.changes)
      [] c.do = "tombstone_user_posts" ->
             LET r == TombstoneUserPosts(BumpThreadsOfUser(db, c.user).db, c.user)
             IN  Run(db, r, r.changes)

D1Moderation(db, c) ==
    CASE c.do = "write_context"          -> Found(db, WriteContext(db, c.thread, c.author))
      [] c.do = "author_posted_recently" ->
             Got(db, AuthorPostedRecently(db, c.author, c.md, c.since))
      [] c.do = "post_for_review"        -> Found(db, PostForReview(db, c.post))
      [] c.do = "set_post_state"         ->
             LET first == SetPostState(db, c.post, c.state)
             IN  Batch(db, first, BumpThreadForPost(first.db, c.post))
      [] c.do = "log_action"             ->
             LET r == InsertAction(db, c.row) IN Run(db, r, Len(r.db.log))

\* resolve_review looks and then changes, guarded by the item being open.
D1Reviews(db, c) ==
    CASE c.do = "open_review"    -> Run(db, UpsertReview(db, c.new), TRUE)
      [] c.do = "resolve_review" ->
             LET item == ReviewById(db, c.review)
                 r == ResolveReview(db, c.review, c.resolution, c.by, c.now)
             IN  IF item = Null \/ (item # Null /\ item[1].resolved) THEN Got(db, Null)
                 ELSE Run(db, r, IF r.changes > 0 THEN item ELSE Null)
      [] c.do = "open_reviews"   -> Got(db, OpenReviews(db, c.limit))
      [] c.do = "add_report"     ->
             LET r == InsertSignal(db, c.row) IN Run(db, r, Tally(r, c.row.post, c.row.kind))
      [] c.do = "pending_posts"  -> Got(db, PendingPosts(db, c.before, c.limit))
      [] c.do = "public_log"     -> Got(db, PublicLog(db, c.limit))
      [] c.do = "agreement"      -> Got(db, Agreement(db, c.space))

\* impl Store for the adapter.
D1Do(db, c) ==
    CASE c.do \in ThreadMethods     -> D1Threads(db, c)
      [] c.do \in BodyMethods       -> D1Bodies(db, c)
      [] c.do \in EmailMethods      -> D1Email(db, c)
      [] c.do \in IdentityMethods   -> D1Identities(db, c)
      [] c.do \in AdminMethods      -> D1Administration(db, c)
      [] c.do \in UserMethods       -> D1Users(db, c)
      [] c.do \in SessionMethods    -> D1Sessions(db, c)
      [] c.do \in ModerationMethods -> D1Moderation(db, c)
      [] c.do \in ReviewMethods     -> D1Reviews(db, c)

=============================================================================
