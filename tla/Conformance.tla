---------------------------- MODULE Conformance -----------------------------
(***************************************************************************)
(* The suite of checks that each store has to pass, core's conformance.rs. *)
(* A check makes calls, each on the database the one before it left, and   *)
(* ends at the first whose answer is not as required.  Times count from    *)
(* the same day, which lasts Day.                                          *)
(***************************************************************************)
EXTENDS Store

\* The store under test.
CONSTANT Do(_, _)

Now == 1000000
Day == 4000

Passed(db) == [db |-> db, ok |-> TRUE]

\* Goes on after an answer as required, ends the check after another.
Then(answer, required, rest) ==
    IF required THEN rest ELSE [db |-> answer.db, ok |-> FALSE]

Is(answer, value)   == answer.res = Ok(value)
Fine(answer)        == answer.res.err = "none"
Failed(answer, err) == answer.res.err = err
Value(answer)       == answer.res.value[1]
Some(answer)        == Fine(answer) /\ Value(answer) # Null
None(answer)        == Fine(answer) /\ Value(answer) = Null
The(answer)         == Value(answer)[1]

Listed1(answer, Test(_)) == Fine(answer) /\ \E i \in DOMAIN Value(answer) : Test(Value(answer)[i])
InOrder(rows, Key(_))    == \A i \in 1..(Len(rows) - 1) : Key(rows[i]) >= Key(rows[i + 1])

\* A store has more than this nowhere.
All == 1000

Page(db, thread, limit) ==
    Do(db, [do |-> "thread_page", thread |-> thread, after |-> <<>>, limit |-> limit])
PageAfter(db, thread, after, limit) ==
    Do(db, [do |-> "thread_page", thread |-> thread, after |-> after, limit |-> limit])
Locate(db, post, size) == Do(db, [do |-> "locate_post", post |-> post, size |-> size])
Version(db, thread)    == Do(db, [do |-> "thread_version", thread |-> thread])
ForReview(db, post)    == Do(db, [do |-> "post_for_review", post |-> post])
Name(db, name)         == Do(db, [do |-> "user_by_name", name |-> name])
Create(db, name)       ==
    Do(db, [do |-> "create_user", name |-> name, at |-> Now, hash |-> Null])

\* The user of that name, made now or by an earlier run.
CreatedOrFound(db, name) ==
    LET made == Create(db, name) found == Name(db, name)
    IN  IF Failed(made, "conflict") /\ Some(found)
        THEN Got(db, The(found).user.id) ELSE made

-----------------------------------------------------------------------------
(* Reading                                                                 *)

ThreadPageReturnsItsSpace(db, fx) ==
    LET page == Page(db, fx.thread, 10)
    IN  Then(page, Fine(page), Then(page,
            /\ Value(page).thread.row.pid = fx.thread
            /\ Value(page).space.row.path # <<>>
            /\ Value(page).space.id = Value(page).thread.space,
        Passed(page.db)))

PostsArriveInTreeOrder(db, fx) ==
    LET page == Page(db, fx.thread, fx.count)
        posts == Value(page).posts
    IN  Then(page,
            Fine(page) /\ \A i \in 1..(Len(posts) - 1) : ~Before(posts[i + 1].row.path, posts[i].row.path),
        Passed(page.db))

LimitIsRespected(db, fx) ==
    LET least == IF fx.count - 1 < 5 THEN fx.count - 1 ELSE 5
        limit == IF least < 1 THEN 1 ELSE least
        page == Page(db, fx.thread, limit)
    IN  Then(page, Fine(page) /\ Len(Value(page).posts) = limit /\ Value(page).next # Null,
        Passed(page.db))

CursorIsExclusive(db, fx) ==
    LET first == Page(db, fx.thread, 1)
        cursor == Value(first).next[1]
        second == PageAfter(db, fx.thread, cursor, 1)
    IN  Then(first, Fine(first) /\ Value(first).next # Null,
        Then(second,
            Fine(second) /\ Value(second).posts # <<>> /\ Value(second).posts[1].row.path # cursor,
        Passed(second.db)))

\* Pages of seven to the end, of which there are at most two more than posts.
PagingVisitsEveryPostOnce(db, fx) ==
    LET Turn1(walk, i) ==
            IF walk.done THEN walk
            ELSE LET page == Value(PageAfter(db, fx.thread, walk.after, 7))
                     paths == [k \in DOMAIN page.posts |-> page.posts[k].row.path]
                 IN  [seen |-> walk.seen \o paths,
                      after |-> IF page.next = Null THEN <<>> ELSE page.next[1],
                      done |-> paths = <<>> \/ page.next = Null]
        walk == FoldLeft(Turn1, [seen |-> <<>>, after |-> <<>>, done |-> FALSE],
                         [i \in 1..(fx.count + 2) |-> i])
        first == Page(db, fx.thread, 7)
    IN  Then(first, Fine(first), Then(first,
            Len(walk.seen) = fx.count /\ Cardinality(ToSet(walk.seen)) = fx.count,
        Passed(db)))

NoCursorOnTheLastPage(db, fx) ==
    LET page == Page(db, fx.thread, fx.count + 10)
    IN  Then(page, Fine(page) /\ Value(page).next = Null, Passed(page.db))

AbsentThreadIsNotFound(db, fx) ==
    LET page == Page(db, fx.absent, 10) IN Then(page, Failed(page, "not_found"), Passed(page.db))

ThreadVersionIsReadable(db, fx) ==
    LET known == Version(db, fx.thread) unknown == Version(db, fx.absent)
    IN  Then(known, Some(known), Then(unknown, None(unknown), Passed(db)))

\* The loser of the check-then-insert race learns of it.
ADuplicateUsernameIsAConflict(db, fx) ==
    LET name == <<"c", "d">> first == Create(db, name) second == Create(first.db, name)
    IN  Then(first, Fine(first), Then(second, Failed(second, "conflict"), Passed(second.db)))

\* At pages of one, of three and of the size the suite pages by.
APermalinkLandsOnItsPage(db, fx) ==
    LET Lands(size) ==
            LET loc == Locate(db, fx.known, size)
                after == IF Value(loc).cursor = Null THEN <<>> ELSE Value(loc).cursor[1]
            IN  /\ Fine(loc)
                /\ \E i \in DOMAIN Value(PageAfter(db, fx.thread, after, size)).posts :
                       Value(PageAfter(db, fx.thread, after, size)).posts[i].row.path = Value(loc).path
    IN  Then(Got(db, TRUE), \A size \in {1, 3, 200} : Lands(size), Passed(db))

LocatePostFindsItsThread(db, fx) ==
    LET loc == Locate(db, fx.known, 200)
    IN  Then(loc, Fine(loc) /\ Value(loc).thread = fx.thread /\ Value(loc).path = fx.knownPath,
        Passed(loc.db))

AbsentPostIsNotFound(db, fx) ==
    LET loc == Locate(db, fx.absent, 200)
        absent == Do(db, [do |-> "post_by_id", post |-> fx.absent])
        known == Do(db, [do |-> "post_by_id", post |-> fx.known])
    IN  Then(loc, Failed(loc, "not_found"), Then(absent, Failed(absent, "not_found"), Then(known,
            /\ Fine(known)
            /\ Value(known).post.row.pid = fx.known /\ Value(known).thread = fx.thread
            /\ Value(known).post.row.md # Null /\ Value(known).post.author_name # <<>>,
        Passed(db))))

PostsNeverExposeBodies(db, fx) ==
    LET page == Page(db, fx.thread, 5)
    IN  Then(page, Fine(page) /\ \A i \in DOMAIN Value(page).posts : Value(page).posts[i].row.md = Null,
        Passed(page.db))

-----------------------------------------------------------------------------
(* Writing posts                                                           *)

Draft(db, fx, id, parent, body) ==
    Do(db, [do |-> "insert_post",
            new |-> [pid |-> id, thread |-> fx.thread, parent |-> parent, author |-> fx.author,
                     md |-> body, html |-> body, at |-> Now, state |-> "visible"]])

AnAppendedPostIsReadable(db, fx) ==
    LET before == Page(db, fx.thread, 1)
        post == Draft(db, fx, fx.writable[1], Null, "top level")
        loc == Locate(post.db, fx.writable[1], 200)
        after == Page(post.db, fx.thread, 1)
    IN  Then(before, Fine(before), Then(post, Fine(post), Then(loc,
            /\ Fine(loc) /\ Value(loc).thread = fx.thread
            /\ Value(loc).path = Value(post).row.path,
        Then(after,
            Fine(after) /\ Value(after).thread.row.count = Value(before).thread.row.count + 1,
        Passed(post.db)))))

RepliesNestUnderTheirParent(db, fx) ==
    LET parent == Draft(db, fx, fx.writable[2], Null, "parent")
        child == Draft(parent.db, fx, fx.writable[3], <<fx.writable[2]>>, "child")
    IN  Then(parent, Fine(parent), Then(child,
            /\ Fine(child)
            /\ IsPrefix(Value(parent).row.path, Value(child).row.path)
            /\ Len(Value(child).row.path) = Len(Value(parent).row.path) + 1
            /\ Value(child).row.parent = <<Value(parent).id>>,
        Passed(child.db)))

SiblingsGetConsecutiveOrdinals(db, fx) ==
    LET parent == Locate(db, fx.writable[2], 200)
        second == Draft(db, fx, fx.writable[4], <<fx.writable[2]>>, "sibling")
    IN  Then(parent, Fine(parent), Then(second,
            /\ Fine(second)
            /\ IsPrefix(Value(parent).path, Value(second).row.path)
            /\ Ordinal(Value(second).row.path) = 1,
        Passed(second.db)))

\* The uniqueness that stops a retry from double-posting.
TheSameIdTwiceConflicts(db, fx) ==
    LET again == Draft(db, fx, fx.writable[1], Null, "duplicate")
    IN  Then(again, Failed(again, "conflict"), Passed(again.db))

AnAbsentParentIsNotFound(db, fx) ==
    LET orphan == Draft(db, fx, fx.absent, <<fx.absent>>, "orphan")
    IN  Then(orphan, Failed(orphan, "not_found"), Passed(orphan.db))

-----------------------------------------------------------------------------
(* Sessions and attempts                                                   *)

ExpiryFrom(now) == now + 30 * Day
ShouldRefresh(session, now) ==
    session.expires > now /\ now - session.refreshed >= Day

SessionFor(fx, now) ==
    [user |-> fx.author, created |-> now, refreshed |-> now, expires |-> ExpiryFrom(now)]
Open(db, token, session) == Do(db, [do |-> "create_session", token |-> token, row |-> session])
Lookup(db, token, now)   == Do(db, [do |-> "lookup_session", token |-> token, now |-> now])
Logout(db, token)        == Do(db, [do |-> "delete_session", token |-> token])

SessionsRoundTrip(db, fx) ==
    LET made == Open(db, 17, SessionFor(fx, Now))
        found == Lookup(made.db, 17, Now + 1000)
        stranger == Lookup(made.db, 238, Now)
    IN  Then(made, Fine(made), Then(found,
            /\ Some(found)
            /\ The(found).user.id = fx.author /\ The(found).user.name # <<>>
            /\ The(found).session.expires = ExpiryFrom(Now),
        Then(stranger, None(stranger), Passed(made.db))))

ExpiredSessionsDoNotResolve(db, fx) ==
    LET made == Open(db, 34, [SessionFor(fx, Now) EXCEPT !.expires = Now + 1000])
        live == Lookup(made.db, 34, Now + 500)
        over == Lookup(made.db, 34, Now + 1000)
    IN  Then(made, Fine(made), Then(live, Some(live), Then(over, None(over), Passed(made.db))))

RefreshExtendsASession(db, fx) ==
    LET session == SessionFor(fx, Now)
        made == Open(db, 51, session)
        longer == Do(made.db, [do |-> "refresh_session", token |-> 51,
                               refreshed |-> Now + Day, expires |-> ExpiryFrom(Now + Day)])
        found == Lookup(longer.db, 51, Now + Day)
    IN  Then(made, Fine(made), Then(made,
            ~ShouldRefresh(session, Now + 60) /\ ShouldRefresh(session, Now + Day),
        Then(longer, Fine(longer), Then(found,
            /\ Some(found)
            /\ The(found).session.expires = ExpiryFrom(Now + Day)
            /\ The(found).session.created = Now /\ The(found).user.id = fx.author,
        Passed(found.db)))))

LogoutIsImmediate(db, fx) ==
    LET made == Open(db, 68, SessionFor(fx, Now))
        out == Logout(made.db, 68)
        found == Lookup(out.db, 68, Now)
        again == Logout(out.db, 68)
    IN  Then(made, Fine(made), Then(out, Fine(out), Then(found, None(found),
        Then(again, Fine(again), Passed(again.db)))))

LogoutEverywhere(db, fx) ==
    LET one == Open(db, 85, SessionFor(fx, Now))
        two == Open(one.db, 86, SessionFor(fx, Now))
        three == Open(two.db, 87, SessionFor(fx, Now))
        ended == Do(three.db, [do |-> "delete_user_sessions", user |-> fx.author])
    IN  Then(one, Fine(one), Then(two, Fine(two), Then(three, Fine(three),
        Then(ended, Fine(ended) /\ Value(ended) >= 3, Then(ended,
            \A token \in 85..87 : None(Lookup(ended.db, token, Now)),
        Passed(ended.db))))))

Counted(db, key) ==
    Do(db, [do |-> "login_attempts", identity |-> <<"id", key>>, client |-> <<"ip", key>>])
Record(db, key, start, count) ==
    Do(db, [do |-> "record_login_attempt", key |-> <<"id", key>>,
            row |-> [start |-> start, count |-> count]])
Clear(db, key) == Do(db, [do |-> "clear_login_attempts", key |-> <<"id", key>>])

\* Limit::PER_IDENTITY and its check, all attempts being made at one instant.
PerIdentity == 5
Denied(attempts) == attempts # Null /\ attempts[1].count >= PerIdentity
Next1(attempts) ==
    [start |-> Now, count |-> IF attempts = Null THEN 1 ELSE attempts[1].count + 1]

CountersRoundTrip(db, fx) ==
    LET fresh == Counted(db, 1)
        Drive(run, i) ==
            LET next == Next1(run.state)
                put == Record(run.db, 1, next.start, next.count)
                got == Counted(put.db, 1)
            IN  IF ~run.ok THEN run
                ELSE IF Denied(run.state) \/ ~Fine(put) \/ ~Fine(got)
                THEN [run EXCEPT !.ok = FALSE]
                ELSE [db |-> got.db, state |-> Value(got)[1], ok |-> Value(got)[1] = <<next>>]
        end == FoldLeft(Drive, [db |-> db, state |-> Null, ok |-> TRUE],
                        [i \in 1..PerIdentity |-> i])
    IN  Then(fresh, Is(fresh, <<Null, Null>>), Then(Got(end.db, TRUE),
            end.ok /\ Denied(end.state) /\ Value(Counted(end.db, 1))[2] = Null,
        Passed(end.db)))

ALoginClearsItsBucket(db, fx) ==
    LET put == Record(db, 2, Now, 4)
        clear == Clear(put.db, 2)
        left == Counted(clear.db, 2)
        again == Clear(clear.db, 2)
    IN  Then(put, Fine(put), Then(clear, Fine(clear), Then(left,
            Fine(left) /\ Value(left)[1] = Null,
        Then(again, Fine(again), Passed(again.db)))))

TheSweepRemovesOnlyOldWindows(db, fx) ==
    LET old == Record(db, 3, Now - Day, 3)
        fresh == Record(old.db, 4, Now, 3)
        swept == Do(fresh.db, [do |-> "sweep_login_attempts", cutoff |-> Now - Day \div 2])
    IN  Then(old, Fine(old), Then(fresh, Fine(fresh), Then(swept,
            Fine(swept) /\ Value(swept) >= 1,
        Then(swept,
            Value(Counted(swept.db, 3))[1] = Null /\ Value(Counted(swept.db, 4))[1] # Null,
        Passed(swept.db)))))

-----------------------------------------------------------------------------
(* Moderation                                                              *)

SetState(db, post, state) ==
    Do(db, [do |-> "set_post_state", post |-> post, state |-> state])
Nobody == 0

WriteContextDescribes(db, fx) ==
    LET page == Page(db, fx.thread, 1)
        Context(thread, author) ==
            Do(db, [do |-> "write_context", thread |-> thread, author |-> author])
        ctx == Context(fx.thread, fx.author)
    IN  Then(page, Fine(page), Then(ctx,
            /\ Fine(ctx) /\ Value(ctx).space = Value(page).space.id
            /\ Value(ctx).state = Value(page).thread.row.state
            /\ Value(ctx).author_created > 0,
        Then(ctx, Failed(Context(fx.absent, fx.author), "not_found"),
        Then(ctx, Failed(Context(fx.thread, Nobody), "not_found"), Passed(db)))))

DuplicatesAreOfTheWindow(db, fx) ==
    LET Posted(md, since) ==
            Do(db, [do |-> "author_posted_recently", author |-> fx.author, md |-> md, since |-> since])
    IN  Then(Got(db, TRUE),
            /\ Is(Posted("top level", Now), TRUE)
            /\ Is(Posted("top level", Now + 1), FALSE)
            /\ Is(Posted("top level ", Now), FALSE),
        Passed(db))

AStateChangeBumpsTheVersion(db, fx) ==
    LET before == Version(db, fx.thread)
        pending == SetState(db, fx.writable[1], "pending")
        post == ForReview(pending.db, fx.writable[1])
        after == Version(pending.db, fx.thread)
        visible == SetState(pending.db, fx.writable[1], "visible")
        absent == SetState(visible.db, fx.absent, "hidden")
    IN  Then(before, Some(before), Then(pending, Fine(pending), Then(post,
            /\ Fine(post) /\ Value(post).state = "pending"
            /\ Value(post).md = <<"top level">> /\ Value(post).thread = fx.thread,
        Then(after, Some(after) /\ The(after) > The(before), Then(visible, Fine(visible),
        Then(absent,
            Failed(absent, "not_found") /\ Failed(ForReview(absent.db, fx.absent), "not_found"),
        Passed(absent.db)))))))

Log(db, post, action, public) ==
    Do(db, [do |-> "log_action",
            row |-> [actor_kind |-> "rule", actor |-> Null, actor_name |-> "conformance",
                     target_kind |-> "post", target |-> post, action |-> action,
                     detail |-> "suite", public |-> public, created |-> Now]])

ThePublicLogOmitsPrivateRows(db, fx) ==
    LET post == ForReview(db, fx.writable[1])
        public == Log(db, Value(post).id, "conf_public", TRUE)
        private == Log(public.db, Value(post).id, "conf_private", FALSE)
        log == Do(private.db, [do |-> "public_log", limit |-> 50])
        At(i) == Value(log)[i].created
    IN  Then(post, Fine(post), Then(public, Fine(public), Then(private,
            Fine(private) /\ Value(private) > Value(public),
        Then(log,
            /\ Fine(log)
            /\ \A i \in DOMAIN Value(log) : Value(log)[i].action # "conf_private"
            /\ \E i \in DOMAIN Value(log) : /\ Value(log)[i].id = Value(public)
                                            /\ Value(log)[i].target = <<fx.writable[1]>>
                                            /\ Value(log)[i].actor_kind = "rule"
            /\ \A i \in 1..(Len(Value(log)) - 1) :
                   \/ At(i) > At(i + 1)
                   \/ At(i) = At(i + 1) /\ Value(log)[i].id >= Value(log)[i + 1].id,
        Passed(private.db)))))

OpenReview(db, post, reason, verdict, appeal) ==
    Do(db, [do |-> "open_review",
            new |-> [post |-> post.id, space |-> post.space, reason |-> reason,
                     verdict |-> verdict, appeal |-> appeal, opened |-> Now, state |-> "open",
                     resolution |-> Null, by |-> Null, at |-> Null]])
OpenItems(db, limit) == Do(db, [do |-> "open_reviews", limit |-> limit])
Resolve(db, fx, id, resolution) ==
    Do(db, [do |-> "resolve_review", review |-> id, resolution |-> resolution,
            by |-> fx.author, now |-> Now])
Agreed(db, space) == Do(db, [do |-> "agreement", space |-> space])

AReviewKeepsItsVerdictAndResolvesOnce(db, fx) ==
    LET post == ForReview(db, fx.writable[1])
        verdict == <<[call |-> "clean"]>>
        opened == OpenReview(db, Value(post), "classifier", verdict, Null)
        again == OpenReview(opened.db, Value(post), "appeal", Null, <<"please">>)
        items == OpenItems(again.db, 100)
        mine == SelectSeq(Value(items), LAMBDA r : r.post = Value(post).id)
        before == Agreed(again.db, Value(post).space)
        first == Resolve(again.db, fx, mine[1].id, "approve")
        second == Resolve(first.db, fx, mine[1].id, "reject")
        after == Agreed(second.db, Value(post).space)
        OfPost(r) == r.post = Value(post).id
    IN  Then(post, Fine(post), Then(opened, Fine(opened), Then(again, Fine(again),
        Then(items,
            /\ Fine(items) /\ Len(mine) = 1
            /\ mine[1].reason = "appeal" /\ mine[1].verdict = verdict
            /\ mine[1].appeal = <<"please">> /\ mine[1].pid = fx.writable[1]
            /\ ~mine[1].resolved,
        Then(first, Some(first) /\ The(first).id = mine[1].id,
        Then(second, None(second) /\ ~Listed1(OpenItems(second.db, 100), OfPost),
        Then(after,
            Value(after) = [Value(before) EXCEPT !.agreed = @ + 1],
        Passed(second.db))))))))

ReportsCountDistinctReporters(db, fx) ==
    LET post == ForReview(db, fx.writable[1])
        reporter == CreatedOrFound(db, <<"c", "r", "e">>)
        Report(d, user) == Do(d, [do |-> "add_report",
                                  row |-> [post |-> Value(post).id, user |-> user, kind |-> "report"]])
        Tallied(added, count) == [added |-> added, count |-> count]
        first == Report(reporter.db, fx.author)
        repeat == Report(first.db, fx.author)
        second == Report(repeat.db, Value(reporter))
    IN  Then(post, Fine(post), Then(reporter, Fine(reporter),
        Then(first, Is(first, Tallied(TRUE, 1)), Then(repeat, Is(repeat, Tallied(FALSE, 1)),
        Then(second, Is(second, Tallied(TRUE, 2)), Passed(second.db))))))

\* At the end what was opened is resolved, if that can be done.
TheSweepListsPendingPosts(db, fx) ==
    LET post == ForReview(db, fx.writable[1])
        pending == SetState(db, fx.writable[1], "pending")
        Swept(d, before) == Do(d, [do |-> "pending_posts", before |-> before, limit |-> All])
        Of(p) == p = fx.writable[1]
        opened == OpenReview(pending.db, Value(post), "error", Null, Null)
        item == SelectSeq(Value(OpenItems(opened.db, All)), LAMBDA r : r.post = Value(post).id)
        resolved == IF item = <<>> THEN opened ELSE Resolve(opened.db, fx, item[1].id, "approve")
        visible == SetState(resolved.db, fx.writable[1], "visible")
    IN  Then(post, Fine(post), Then(pending, Fine(pending), Then(pending,
            Listed1(Swept(pending.db, Now + 1), Of) /\ ~Listed1(Swept(pending.db, Now), Of),
        Then(opened, Fine(opened), Then(opened, ~Listed1(Swept(opened.db, Now + 1), Of),
        Then(visible, Fine(visible), Passed(visible.db)))))))

-----------------------------------------------------------------------------
(* Spaces, new threads, editing, profiles                                  *)

SpaceAt(db, path) == Do(db, [do |-> "space_by_path", path |-> path])
ThreadsOf(db, path) == Do(db, [do |-> "space_threads", path |-> path, limit |-> All])
Context1(db, fx, space) == Do(db, [do |-> "space_context", space |-> space, author |-> fx.author])

SpacesResolveByPath(db, fx) ==
    LET page == Page(db, fx.thread, 1)
        path == Value(page).space.row.path
        space == SpaceAt(db, path)
        siblings == Do(db, [do |-> "spaces_under", parent |-> The(space).row.parent])
        Itself(s) == s.id = The(space).id
        listed == ThreadsOf(db, path)
        OfFixture(t) == t.pid = fx.thread
        Bumped(t) == t.bumped
        ctx == Context1(db, fx, The(space).id)
    IN  Then(page, Fine(page), Then(space,
            Some(space) /\ The(space).id = Value(page).space.id /\ The(space).row.path = path,
        Then(siblings, Listed1(siblings, Itself),
        Then(listed, Listed1(listed, OfFixture) /\ InOrder(Value(listed), Bumped),
        Then(ctx, Fine(ctx) /\ Value(ctx).space = The(space).id /\ Value(ctx).author_created > 0,
        Then(ctx, Failed(Context1(db, fx, Nobody), "not_found") /\ None(SpaceAt(db, <<99>>)),
        Passed(db)))))))

ANewThreadIsWritable(db, fx) ==
    LET page == Page(db, fx.thread, 1)
        space == Value(page).space
        new == [pid |-> fx.writable[5], space |-> space.id, spacePath |-> space.row.path,
                kind |-> "link", title |-> "conformance", url |-> <<"url">>,
                author |-> fx.author, at |-> Now + 5]
        thread == Do(db, [do |-> "create_thread", new |-> new])
        again == Do(thread.db, [do |-> "create_thread", new |-> new])
        first == Do(again.db, [do |-> "insert_post",
                     new |-> [pid |-> fx.writable[6], thread |-> new.pid, parent |-> Null,
                              author |-> fx.author, md |-> "first", html |-> "first",
                              at |-> Now + 5, state |-> "visible"]])
        read == Page(first.db, new.pid, 10)
        row == Value(read).thread.row
        listed == ThreadsOf(first.db, space.row.path)
        recent == Do(first.db, [do |-> "recent_threads", limit |-> All])
        OfNew(t) == t.pid = new.pid
    IN  Then(page, Fine(page), Then(thread, Fine(thread) /\ Value(thread).row.pid = new.pid,
        Then(again, Failed(again, "conflict"),
        Then(first, Fine(first) /\ Len(Value(first).row.path) = 1,
        Then(read,
            /\ Fine(read) /\ row.title = new.title /\ row.kind = new.kind /\ row.url = new.url
            /\ row.count = 1 /\ Len(Value(read).posts) = 1 /\ Value(read).thread.author_name # <<>>,
        Then(listed, Fine(listed) /\ Value(listed) # <<>> /\ OfNew(Head(Value(listed))),
        Then(recent, Listed1(recent, OfNew), Passed(first.db))))))))

Rewrite(db, post, body, at) ==
    Do(db, [do |-> "update_post_body", post |-> post, md |-> body, html |-> body, at |-> at])

EditingRewritesTheBody(db, fx) ==
    LET before == Version(db, fx.thread)
        edit == Rewrite(db, fx.writable[1], "edited", Now + 9)
        post == ForReview(edit.db, fx.writable[1])
        after == Version(edit.db, fx.thread)
        page == Page(edit.db, fx.thread, fx.count + 10)
        Shown(p) == /\ p.row.pid = fx.writable[1]
                    /\ p.row.html = "edited" /\ p.row.edited = <<Now + 9>>
        restored == Rewrite(edit.db, fx.writable[1], "top level", Now + 10)
        absent == Rewrite(restored.db, fx.absent, "x", Now)
    IN  Then(before, Some(before), Then(edit, Fine(edit),
        Then(post, Fine(post) /\ Value(post).md = <<"edited">>,
        Then(after, Some(after) /\ The(after) > The(before),
        Then(page, Fine(page) /\ \E i \in DOMAIN Value(page).posts : Shown(Value(page).posts[i]),
        Then(restored, Fine(restored),
        Then(absent, Failed(absent, "not_found"), Passed(absent.db))))))))

AProfileIsNewestFirst(db, fx) ==
    LET page == Page(db, fx.thread, 1)
        name == Value(page).thread.author_name
        Profile(n, limit) == Do(db, [do |-> "user_profile", name |-> n, limit |-> limit])
        profile == Profile(name, All)
        limited == Profile(name, 2)
        Created(p) == p.created
    IN  Then(page, Fine(page), Then(profile,
            /\ Some(profile) /\ The(profile).head.user.name = name /\ The(profile).head.created > 0
            /\ \E i \in DOMAIN The(profile).posts : The(profile).posts[i].pid = fx.writable[1]
            /\ InOrder(The(profile).posts, Created),
        Then(limited, Some(limited) /\ Len(The(limited).posts) <= 2,
        Then(page, None(Profile(<<"n">>, 10)), Passed(db)))))

-----------------------------------------------------------------------------
(* Addresses and identities                                                *)

Issue(db, fx, hash, kind) ==
    Do(db, [do |-> "create_email_token", hash |-> hash,
            row |-> [user |-> fx.author, kind |-> kind, email |-> "conformance",
                     created |-> Now, expires |-> Now + 1000]])
Consume(db, hash, kind, now) ==
    Do(db, [do |-> "consume_email_token", hash |-> hash, kind |-> kind, now |-> now])
Peek(db, hash) ==
    Do(db, [do |-> "peek_email_token", hash |-> hash, kind |-> "verify", now |-> Now])

TokensAreSpentOnce(db, fx) ==
    LET live == Issue(db, fx, 97, "verify")
        wrong == Consume(live.db, 97, "reset", Now)
        late == Consume(wrong.db, 97, "verify", Now + 1000)
        spent == Consume(late.db, 97, "verify", Now)
        twice == Consume(spent.db, 97, "verify", Now)
        a == Issue(twice.db, fx, 98, "reset")
        b == Issue(a.db, fx, 99, "reset")
        c == Issue(b.db, fx, 100, "verify")
        retired == Do(c.db, [do |-> "retire_email_tokens", user |-> fx.author, kind |-> "reset",
                             now |-> Now])
        deadA == Consume(retired.db, 98, "reset", Now)
        deadB == Consume(deadA.db, 99, "reset", Now)
        other == Consume(deadB.db, 100, "verify", Now)
    IN  Then(live, Fine(live), Then(wrong, None(wrong), Then(late, None(late),
        Then(late, Some(Peek(late.db, 97)) /\ The(Peek(late.db, 97)) # <<>>,
        Then(spent, Some(spent), Then(spent, None(Peek(spent.db, 97)),
        Then(spent, The(spent).user = fx.author /\ The(spent).email = "conformance",
        Then(twice, None(twice), Then(a, Fine(a), Then(b, Fine(b), Then(c, Fine(c),
        Then(retired, Fine(retired) /\ Value(retired) >= 2,
        Then(deadA, None(deadA), Then(deadB, None(deadB),
        Then(other, Some(other), Passed(other.db))))))))))))))))

SetAddress(db, user, email) == Do(db, [do |-> "set_email", user |-> user, email |-> email])
Prove(db, user, email) ==
    Do(db, [do |-> "mark_email_verified", user |-> user, email |-> email, now |-> Now])
AccountOf(db, user) == Do(db, [do |-> "account", user |-> user])
Owner(db, email) == Do(db, [do |-> "user_by_verified_email", email |-> email])

\* Claimed by many, proved by one, and free again when that one drops it.
AnAddressBelongsToOneAccount(db, fx) ==
    LET addr == "conformance-verified"
        claimed == SetAddress(db, fx.author, <<addr>>)
        other == Prove(claimed.db, fx.author, "someone-else")
        proved == Prove(other.db, fx.author, addr)
        rival == CreatedOrFound(proved.db, <<"c", "r", "i">>)
        also == SetAddress(rival.db, Value(rival), <<addr>>)
        taken == Prove(also.db, Value(rival), addr)
        dropped == SetAddress(taken.db, fx.author, Null)
        free == Prove(dropped.db, Value(rival), addr)
        given_up == SetAddress(free.db, Value(rival), Null)
    IN  Then(claimed, Fine(claimed),
        Then(claimed,
            /\ Some(AccountOf(claimed.db, fx.author))
            /\ The(AccountOf(claimed.db, fx.author)).email = <<addr>>
            /\ The(AccountOf(claimed.db, fx.author)).verified = Null
            /\ None(Owner(claimed.db, addr)),
        Then(other, Is(other, FALSE), Then(proved, Is(proved, TRUE),
        Then(proved, Some(Owner(proved.db, addr)) /\ The(Owner(proved.db, addr)).id = fx.author,
        Then(rival, Fine(rival), Then(also, Fine(also), Then(taken, Failed(taken, "conflict"),
        Then(dropped, Fine(dropped),
        Then(dropped, Some(AccountOf(dropped.db, fx.author))
                      /\ The(AccountOf(dropped.db, fx.author)).email = Null,
        Then(free, Is(free, TRUE), Passed(given_up.db))))))))))))

AnIdentityLinksOnce(db, fx) ==
    LET Of(d, provider) == Do(d, [do |-> "identity_user", provider |-> provider, subject |-> fx.thread])
        Link(d, email) == Do(d, [do |-> "link_identity", provider |-> "google", subject |-> fx.thread,
                                 user |-> fx.author, email |-> email, now |-> Now])
        Providers(d) == Do(d, [do |-> "user_identities", user |-> fx.author])
        known == Of(db, "google")
        first == Link(db, <<"conf">>)
        second == Link(first.db, Null)
        touched == Do(second.db, [do |-> "touch_identity", provider |-> "google",
                                  subject |-> fx.thread, now |-> Now + 1])
        Lists(d) == Fine(Providers(d)) /\ "google" \in Value(Providers(d))
    IN  IF Some(known) THEN Then(known, Lists(db), Passed(db))
        ELSE Then(known, Fine(known), Then(first, Fine(first), Then(second, Failed(second, "conflict"),
             Then(second,
                 /\ Some(Of(second.db, "google")) /\ The(Of(second.db, "google")).id = fx.author
                 /\ None(Of(second.db, "github")),
             Then(touched, Fine(touched) /\ Lists(touched.db), Passed(touched.db))))))

-----------------------------------------------------------------------------
(* Administration                                                          *)

ThreadHead(db, thread) == Do(db, [do |-> "thread_head", thread |-> thread])

AThreadEditBumpsTheVersion(db, fx) ==
    LET head == ThreadHead(db, fx.writable[5])
        edit == [title |-> "retitled", url |-> Null, state |-> "locked",
                 space |-> Value(head).space.id, spacePath |-> Value(head).space.row.path]
        Update1(d, thread) == Do(d, [do |-> "update_thread", thread |-> thread, edit |-> edit])
        done == Update1(db, fx.writable[5])
        after == ThreadHead(done.db, fx.writable[5])
        absent == Update1(done.db, fx.absent)
    IN  Then(head,
            /\ Fine(head) /\ Value(head).row.pid = fx.writable[5]
            /\ Value(head).space.id = Value(head).row.space,
        Then(done, Fine(done),
        Then(after,
            /\ Fine(after) /\ Value(after).row.title = edit.title
            /\ Value(after).row.url = Null /\ Value(after).row.state = "locked"
            /\ Value(after).row.version > Value(head).row.version,
        Then(absent, Failed(absent, "not_found"), Passed(absent.db)))))

SetRole(db, user, role)  == Do(db, [do |-> "set_user_role", user |-> user, role |-> role])
SetUser(db, user, state) == Do(db, [do |-> "set_user_state", user |-> user, state |-> state])
UsersLike(db, prefix)    == Do(db, [do |-> "list_users", prefix |-> prefix, limit |-> All])
RowOf(db, name)          == Do(db, [do |-> "user_row", name |-> name])

UsersAreListable(db, fx) ==
    LET name == <<"c", "a", "s">>
        made == CreatedOrFound(db, name)
        id == Value(made)
        member == SetRole(made.db, id, "member")
        active == SetUser(member.db, id, "active")
        listed == UsersLike(active.db, <<"c", "a">>)
        Member(r) == r.user.id = id /\ r.user.role = "member" /\ r.created = Now
        everyone == UsersLike(active.db, <<>>)
        Id(r) == r.user.id
        moderator == SetRole(active.db, id, "moderator")
        banned == SetUser(moderator.db, id, "banned")
        row == RowOf(banned.db, name)
    IN  Then(made, Fine(made), Then(member, Fine(member), Then(active, Fine(active),
        Then(listed, Listed1(listed, Member),
        Then(everyone, Listed1(everyone, Member) /\ InOrder(Value(everyone), Id),
        Then(moderator, Fine(moderator), Then(banned, Fine(banned),
        Then(row, Some(row) /\ The(row).user.role = "moderator" /\ The(row).user.state = "banned",
        Then(row, None(RowOf(banned.db, <<"n">>)), Passed(banned.db))))))))))

DetailIn(db, space) == Do(db, [do |-> "space_detail", space |-> space])

SpacesAreCreatableOnce(db, fx) ==
    LET page == Page(db, fx.thread, 1)
        parent == Value(page).space
        path == Append(parent.row.path, 90)
        New(d) == Do(d, [do |-> "create_space",
                         row |-> [name |-> "sub", path |-> path, parent |-> <<parent.id>>,
                                  ranking |-> "bump", cap |-> 4, config |-> "empty"]])
        Spaces(d) == Value(Do(d, [do |-> "all_spaces"]))
        tried == New(db)
        left == SelectSeq(Spaces(db), LAMBDA s : s.space.row.path = path)
        made == IF Failed(tried, "conflict") /\ left # <<>> THEN Got(db, left[1].space.id) ELSE tried
        again == New(made.db)
        updated == Do(again.db, [do |-> "update_space", space |-> Value(made), name |-> "renamed",
                                 ranking |-> "gravity", cap |-> 3, config |-> "k"])
        detail == DetailIn(updated.db, Value(made))
        all == Spaces(updated.db)
    IN  Then(page, Fine(page), Then(made, Fine(made), Then(again, Failed(again, "conflict"),
        Then(updated, Fine(updated),
        Then(detail, Some(detail) /\ The(detail).space.row =
            [name |-> "renamed", path |-> path, parent |-> <<parent.id>>,
             ranking |-> "gravity", cap |-> 3, config |-> "k"],
        Then(detail,
            /\ \E i \in DOMAIN all : all[i].space.id = Value(made)
            /\ \A i \in 1..(Len(all) - 1) : ~Before(all[i + 1].space.row.path, all[i].space.row.path)
            /\ \E i \in DOMAIN all : all[i].space.id = parent.id /\ all[i].thread_count >= 1,
        Then(detail, None(DetailIn(updated.db, Nobody)), Passed(updated.db))))))))

StatsAndTheFullLog(db, fx) ==
    LET stats == Do(db, [do |-> "site_stats"])
        log == Do(db, [do |-> "full_log", limit |-> 200])
        Private(e) == /\ e.entry.action = "conf_private" /\ ~e.public
                      /\ e.detail = "suite" /\ e.entry.target = <<fx.writable[1]>>
        private == SelectSeq(Value(log), LAMBDA e : e.entry.action = "conf_private")
    IN  Then(stats,
            /\ Fine(stats) /\ Value(stats).users >= 1 /\ Value(stats).threads >= 1
            /\ Value(stats).posts >= fx.count,
        Then(log, Fine(log) /\ private # <<>> /\ Private(private[1]), Passed(db)))

-----------------------------------------------------------------------------
(* The suite, in the order in which its checks run                         *)

RunAll ==
    <<"space_of_a_page", "tree_order", "limit", "exclusive_cursor", "paging", "last_page",
      "absent_thread", "version", "duplicate_username", "permalink", "locate", "absent_post",
      "no_bodies">>

WriteChecks ==
    <<"append", "nest", "ordinals", "same_id", "absent_parent", "session", "expiry", "refresh",
      "logout", "logout_everywhere", "counters", "cleared", "sweep_of_windows", "write_context",
      "duplicates", "state_change", "public_log", "review", "reports", "sweep_of_posts", "spaces",
      "new_thread", "editing", "profile", "tokens", "address", "identity", "thread_edit", "users",
      "create_space", "stats">>

Suite == RunAll \o WriteChecks

Check(name, db, fx) ==
    CASE name = "space_of_a_page"    -> ThreadPageReturnsItsSpace(db, fx)
      [] name = "tree_order"         -> PostsArriveInTreeOrder(db, fx)
      [] name = "limit"              -> LimitIsRespected(db, fx)
      [] name = "exclusive_cursor"   -> CursorIsExclusive(db, fx)
      [] name = "paging"             -> PagingVisitsEveryPostOnce(db, fx)
      [] name = "last_page"          -> NoCursorOnTheLastPage(db, fx)
      [] name = "absent_thread"      -> AbsentThreadIsNotFound(db, fx)
      [] name = "version"            -> ThreadVersionIsReadable(db, fx)
      [] name = "duplicate_username" -> ADuplicateUsernameIsAConflict(db, fx)
      [] name = "permalink"          -> APermalinkLandsOnItsPage(db, fx)
      [] name = "locate"             -> LocatePostFindsItsThread(db, fx)
      [] name = "absent_post"        -> AbsentPostIsNotFound(db, fx)
      [] name = "no_bodies"          -> PostsNeverExposeBodies(db, fx)
      [] name = "append"             -> AnAppendedPostIsReadable(db, fx)
      [] name = "nest"               -> RepliesNestUnderTheirParent(db, fx)
      [] name = "ordinals"           -> SiblingsGetConsecutiveOrdinals(db, fx)
      [] name = "same_id"            -> TheSameIdTwiceConflicts(db, fx)
      [] name = "absent_parent"      -> AnAbsentParentIsNotFound(db, fx)
      [] name = "session"            -> SessionsRoundTrip(db, fx)
      [] name = "expiry"             -> ExpiredSessionsDoNotResolve(db, fx)
      [] name = "refresh"            -> RefreshExtendsASession(db, fx)
      [] name = "logout"             -> LogoutIsImmediate(db, fx)
      [] name = "logout_everywhere"  -> LogoutEverywhere(db, fx)
      [] name = "counters"           -> CountersRoundTrip(db, fx)
      [] name = "cleared"            -> ALoginClearsItsBucket(db, fx)
      [] name = "sweep_of_windows"   -> TheSweepRemovesOnlyOldWindows(db, fx)
      [] name = "write_context"      -> WriteContextDescribes(db, fx)
      [] name = "duplicates"         -> DuplicatesAreOfTheWindow(db, fx)
      [] name = "state_change"       -> AStateChangeBumpsTheVersion(db, fx)
      [] name = "public_log"         -> ThePublicLogOmitsPrivateRows(db, fx)
      [] name = "review"             -> AReviewKeepsItsVerdictAndResolvesOnce(db, fx)
      [] name = "reports"            -> ReportsCountDistinctReporters(db, fx)
      [] name = "sweep_of_posts"     -> TheSweepListsPendingPosts(db, fx)
      [] name = "spaces"             -> SpacesResolveByPath(db, fx)
      [] name = "new_thread"         -> ANewThreadIsWritable(db, fx)
      [] name = "editing"            -> EditingRewritesTheBody(db, fx)
      [] name = "profile"            -> AProfileIsNewestFirst(db, fx)
      [] name = "tokens"             -> TokensAreSpentOnce(db, fx)
      [] name = "address"            -> AnAddressBelongsToOneAccount(db, fx)
      [] name = "identity"           -> AnIdentityLinksOnce(db, fx)
      [] name = "thread_edit"        -> AThreadEditBumpsTheVersion(db, fx)
      [] name = "users"              -> UsersAreListable(db, fx)
      [] name = "create_space"       -> SpacesAreCreatableOnce(db, fx)
      [] name = "stats"              -> StatsAndTheFullLog(db, fx)

=============================================================================
