---------------------------- MODULE SqliteStore -----------------------------
(***************************************************************************)
(* The store over SQLite: one connection, a transaction where a method     *)
(* needs more than one statement (dropped without a commit, it changes     *)
(* nothing), and errors told apart by the extended result code.            *)
(***************************************************************************)
EXTENDS Store

\* execute with map_err(backend): whatever stops it.
Execute(db, r, value) ==
    IF r.stopped = "no" THEN Got(r.db, value) ELSE Fail(db, "backend")

\* A method that takes the given codes for a race, the rest for a failure.
Racing(db, r, codes, value) ==
    IF r.stopped \in codes THEN Fail(db, "conflict") ELSE Execute(db, r, value)

\* A transaction that goes on only if its first statement changed a row.
FoundFirst(db, first, Then(_)) ==
    IF first.changes = 0 THEN Fail(db, "not_found") ELSE Then(first.db)

InsertPostTx(db, new) ==
    LET thread == TheOne(ThreadIds(db, new.thread))
        parent == IF new.parent = Null \/ thread = Null THEN Null
                  ELSE PostInThread(db, new.parent[1], thread[1])
        below  == IF parent = Null THEN <<>> ELSE db.post[parent[1]].path
    IN  IF thread = Null \/ (new.parent # Null /\ parent = Null) THEN Fail(db, "not_found")
        ELSE LET path == Allocate(below, LastPathInRange(db, thread[1], below))
                 insert == InsertPost(db, NewPostRow(new, thread[1], parent, path))
                 bump == BumpThread(insert.db, thread[1], new.at)
             IN  IF path = <<>> THEN Fail(db, "backend")
                 ELSE IF insert.stopped # "no"
                      THEN Racing(db, insert, {"unique", "primary"}, <<>>)
                      ELSE Got(bump.db, Inserted(insert.db, "post"))

ThreadPage(db, thread, after, limit) ==
    LET head == Thread(db, thread)
    IN  IF head = Null THEN Fail(db, "not_found")
        ELSE Got(db, PageOf(head[1], Posts(db, thread, after, limit + 1), limit))

LiteThreads(db, c) ==
    CASE c.do = "thread_page"    -> ThreadPage(db, c.thread, c.after, c.limit)
      [] c.do = "locate_post"    ->
             LET row == LocatePost(db, c.post)
             IN  IF row = Null THEN Fail(db, "not_found")
                 ELSE Got(db, Location(db, row[1], c.size))
      [] c.do = "recent_threads" -> Got(db, RecentThreads(db, c.limit))
      [] c.do = "space_threads"  -> Got(db, SpaceThreads(db, c.path, c.limit))
      [] c.do = "space_by_path"  -> Got(db, SpaceByPath(db, c.path))
      [] c.do = "spaces_under"   -> Got(db, SpacesUnder(db, c.parent))
      [] c.do = "space_context"  -> Found(db, SpaceContext(db, c.space, c.author))
      [] c.do = "create_thread"  ->
             LET r == InsertThread(db, c.new)
             IN  Racing(db, r, {"unique"}, Inserted(r.db, "thread"))

LiteBodies(db, c) ==
    CASE c.do = "update_post_body" ->
             LET Bump(d) == Execute(db, BumpThreadForPost(d, c.post), TRUE)
             IN  FoundFirst(db, UpdatePostBody(db, c.post, c.md, c.html, c.at), Bump)
      [] c.do = "user_profile" ->
             LET Profile(head) == [head |-> head,
                                   posts |-> UserRecentPosts(db, head.user.id, c.limit)]
                 found == UserProfile(db, c.name)
             IN  Got(db, [i \in DOMAIN found |-> Profile(found[i])])

LiteEmail(db, c) ==
    CASE c.do = "account"                -> Got(db, Account(db, c.user))
      [] c.do = "user_by_verified_email" -> Got(db, UserByVerifiedEmail(db, c.email))
      [] c.do = "set_email"              -> Execute(db, SetEmail(db, c.user, c.email), TRUE)
      [] c.do = "mark_email_verified"    ->
             LET r == MarkEmailVerified(db, c.user, c.email, c.now)
             IN  Racing(db, r, {"unique"}, r.changes > 0)
      [] c.do = "create_email_token"     -> Execute(db, InsertEmailToken(db, c.hash, c.row), TRUE)
      [] c.do = "consume_email_token"    ->
             LET r == ConsumeEmailToken(db, c.hash, c.kind, c.now) IN Execute(db, r, r.rows)
      [] c.do = "peek_email_token"       -> Got(db, PeekEmailToken(db, c.hash, c.kind, c.now))
      [] c.do = "retire_email_tokens"    ->
             LET r == RetireEmailTokens(db, c.user, c.kind, c.now) IN Execute(db, r, r.changes)

\* A primary key that is not the row id has a code of its own.
LiteIdentities(db, c) ==
    CASE c.do = "identity_user"   -> Got(db, IdentityUser(db, c.provider, c.subject))
      [] c.do = "link_identity"   ->
             Racing(db, InsertIdentity(db, c.provider, c.subject, c.user, c.email, c.now),
                    {"primary", "unique"}, TRUE)
      [] c.do = "touch_identity"  ->
             Execute(db, TouchIdentity(db, c.provider, c.subject, c.now), TRUE)
      [] c.do = "user_identities" -> Got(db, UserIdentities(db, c.user))

LiteAdministration(db, c) ==
    CASE c.do = "thread_head"    -> Found(db, Thread(db, c.thread))
      [] c.do = "update_thread"  ->
             LET r == UpdateThread(db, c.thread, c.edit)
                 Done(d) == Got(d, TRUE)
             IN  IF r.stopped # "no" THEN Execute(db, r, TRUE) ELSE FoundFirst(db, r, Done)
      [] c.do = "set_user_role"  -> Execute(db, SetUserRole(db, c.user, c.role), TRUE)
      [] c.do = "set_user_state" -> Execute(db, SetUserState(db, c.user, c.state), TRUE)
      [] c.do = "list_users"     -> Got(db, ListUsers(db, c.prefix, c.limit))
      [] c.do = "user_row"       -> Got(db, UserRow(db, c.name))
      [] c.do = "space_detail"   -> Got(db, SpaceDetail(db, c.space))
      [] c.do = "all_spaces"     -> Got(db, AllSpaces(db))
      [] c.do = "create_space"   ->
             LET r == InsertSpace(db, c.row) IN Racing(db, r, {"unique"}, Len(r.db.space))
      [] c.do = "update_space"   ->
             Execute(db, UpdateSpace(db, c.space, c.name, c.ranking, c.cap, c.config), TRUE)
      [] c.do = "site_stats"     -> Got(db, SiteStats(db))
      [] c.do = "full_log"       -> Got(db, FullLog(db, c.limit))

LiteUsers(db, c) ==
    CASE c.do = "post_by_id"        -> Found(db, PostById(db, c.post))
      [] c.do = "thread_version"    -> Got(db, ThreadVersion(db, c.thread))
      [] c.do = "insert_post"       -> InsertPostTx(db, c.new)
      [] c.do = "user_by_name"      -> Got(db, UserByName(db, c.name))
      [] c.do = "user_by_id"        -> Got(db, UserById(db, c.user))
      [] c.do = "create_user"       ->
             LET r == InsertUser(db, c.name, c.at, c.hash)
             IN  Racing(db, r, {"unique"}, Len(r.db.user))
      [] c.do = "set_password_hash" -> Execute(db, SetPasswordHash(db, c.user, c.hash), TRUE)

LiteSessions(db, c) ==
    CASE c.do = "login_attempts"       ->
             Got(db, Counters(LoginAttempts(db, c.identity, c.client), c.identity, c.client))
      [] c.do = "record_login_attempt" -> Execute(db, RecordLoginAttempt(db, c.key, c.row), TRUE)
      [] c.do = "clear_login_attempts" -> Execute(db, ClearLoginAttempts(db, c.key), TRUE)
      [] c.do = "sweep_login_attempts" ->
             LET r == SweepLoginAttempts(db, c.cutoff) IN Execute(db, r, r.changes)
      [] c.do = "create_session"       -> Execute(db, InsertSession(db, c.token, c.row), TRUE)
      [] c.do = "lookup_session"       -> Got(db, LookupSession(db, c.token, c.now))
      [] c.do = "refresh_session"      ->
             Execute(db, RefreshSession(db, c.token, c.refreshed, c.expires), TRUE)
      [] c.do = "delete_session"       -> Execute(db, DeleteSession(db, c.token), TRUE)
      [] c.do = "delete_user_sessions" ->
             LET r == DeleteUserSessions(db, c.user) IN Execute(db, r, r.changes)
      [] c.do = "tombstone_user_posts" ->
             LET r == TombstoneUserPosts(BumpThreadsOfUser(db, c.user).db, c.user)
             IN  Execute(db, r, r.changes)

LiteModeration(db, c) ==
    CASE c.do = "write_context"          -> Found(db, WriteContext(db, c.thread, c.author))
      [] c.do = "author_posted_recently" ->
             Got(db, AuthorPostedRecently(db, c.author, c.md, c.since))
      [] c.do = "post_for_review"        -> Found(db, PostForReview(db, c.post))
      [] c.do = "set_post_state"         ->
             LET Bump(d) == Execute(db, BumpThreadForPost(d, c.post), TRUE)
             IN  FoundFirst(db, SetPostState(db, c.post, c.state), Bump)
      [] c.do = "log_action"             ->
             LET r == InsertAction(db, c.row) IN Execute(db, r, Len(r.db.log))

LiteReviews(db, c) ==
    CASE c.do = "open_review"    -> Execute(db, UpsertReview(db, c.new), TRUE)
      [] c.do = "resolve_review" ->
             LET open == TheOne({item \in ToSet(ReviewById(db, c.review)) : ~item.resolved})
                 r == ResolveReview(db, c.review, c.resolution, c.by, c.now)
             IN  IF open = Null THEN Got(db, Null)
                 ELSE Execute(db, r, IF r.changes > 0 THEN open ELSE Null)
      [] c.do = "open_reviews"   -> Got(db, OpenReviews(db, c.limit))
      [] c.do = "add_report"     ->
             LET r == InsertSignal(db, c.row) IN Execute(db, r, Tally(r, c.row.post, c.row.kind))
      [] c.do = "pending_posts"  -> Got(db, PendingPosts(db, c.before, c.limit))
      [] c.do = "public_log"     -> Got(db, PublicLog(db, c.limit))
      [] c.do = "agreement"      -> Got(db, Agreement(db, c.space))

\* impl Store for the adapter.
LiteDo(db, c) ==
    CASE c.do \in ThreadMethods     -> LiteThreads(db, c)
      [] c.do \in BodyMethods       -> LiteBodies(db, c)
      [] c.do \in EmailMethods      -> LiteEmail(db, c)
      [] c.do \in IdentityMethods   -> LiteIdentities(db, c)
      [] c.do \in AdminMethods      -> LiteAdministration(db, c)
      [] c.do \in UserMethods       -> LiteUsers(db, c)
      [] c.do \in SessionMethods    -> LiteSessions(db, c)
      [] c.do \in ModerationMethods -> LiteModeration(db, c)
      [] c.do \in ReviewMethods     -> LiteReviews(db, c)

=============================================================================
