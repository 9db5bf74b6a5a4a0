------------------------------- MODULE Store --------------------------------
(***************************************************************************)
(* What the two stores have in common: a call is a record that names the   *)
(* method and gives its arguments, and a store answers it with a database  *)
(* and a result: D1Store defines D1Do(db, call), SqliteStore LiteDo.       *)
(***************************************************************************)
EXTENDS Sql

\* trait Store, its methods in the groups in which both adapters have them.
ThreadMethods ==
    {"thread_page", "locate_post", "recent_threads", "space_threads", "space_by_path",
     "spaces_under", "space_context", "create_thread"}
BodyMethods     == {"update_post_body", "user_profile"}
EmailMethods    ==
    {"account", "user_by_verified_email", "set_email", "mark_email_verified",
     "create_email_token", "consume_email_token", "peek_email_token", "retire_email_tokens"}
IdentityMethods == {"identity_user", "link_identity", "touch_identity", "user_identities"}
AdminMethods    ==
    {"thread_head", "update_thread", "set_user_role", "set_user_state", "list_users",
     "user_row", "space_detail", "all_spaces", "create_space", "update_space",
     "site_stats", "full_log"}
UserMethods     ==
    {"post_by_id", "thread_version", "insert_post", "user_by_name", "user_by_id",
     "create_user", "set_password_hash"}
SessionMethods  ==
    {"login_attempts", "record_login_attempt", "clear_login_attempts",
     "sweep_login_attempts", "create_session", "lookup_session", "refresh_session",
     "delete_session", "delete_user_sessions", "tombstone_user_posts"}
ModerationMethods ==
    {"write_context", "author_posted_recently", "post_for_review", "set_post_state",
     "log_action"}
ReviewMethods   ==
    {"open_review", "resolve_review", "open_reviews", "add_report", "pending_posts",
     "public_log", "agreement"}

Methods ==
    ThreadMethods \cup BodyMethods \cup EmailMethods \cup IdentityMethods \cup AdminMethods
    \cup UserMethods \cup SessionMethods \cup ModerationMethods \cup ReviewMethods

\* StoreError; TooDeep is constructed nowhere.
Error == {"not_found", "corrupt", "backend", "conflict"}

Result(err, value) == [err |-> err, value |-> value]
Ok(value)          == Result("none", <<value>>)

Got(db, value) == [db |-> db, res |-> Ok(value)]
Fail(db, err)  == [db |-> db, res |-> Result(err, <<>>)]

\* The first row, which has to be there.
Found(db, rows) == IF rows = Null THEN Fail(db, "not_found") ELSE Got(db, rows[1])

\* A page: one row more than its limit was fetched, to see whether there is
\* a next page, whose cursor is the last path kept.
PageOf(head, fetched, limit) ==
    LET kept == SubSeq(fetched, 1, IF limit < Len(fetched) THEN limit ELSE Len(fetched))
        more == Len(fetched) > limit
    IN  [space |-> head.space, thread |-> [head EXCEPT !.space = head.row.space],
         posts |-> kept,
         next |-> IF more /\ kept # <<>> THEN <<Last(kept).row.path>> ELSE Null]

\* Mutant of PageCursorOffset: the page's first post, which is exclusive.
PageCursorOffsetAtPage(rank, size) ==
    LET page == rank \div size IN IF page > 0 THEN <<page * size>> ELSE Null

\* page_cursor_offset, for a size that is not 0.
PageCursorOffset(rank, size) ==
    LET page == rank \div size IN IF page > 0 THEN <<page * size - 1>> ELSE Null

\* Where a post is and the cursor of its page, by three statements.
Location(db, row, size) ==
    LET offset == PageCursorOffset(PostRank(db, row.thread, row.path), size)
    IN  [thread |-> row.pid, path |-> row.path,
         cursor |-> IF offset = Null THEN Null ELSE PathAtOffset(db, row.thread, offset[1])]

\* The counters of two keys out of the rows that were found.
Counters(rows, identity, client) ==
    LET Of(key) == {r.row : r \in {r \in rows : r.key = key}}
    IN  <<TheOne(Of(identity)), IF client = identity THEN Null ELSE TheOne(Of(client))>>

\* The row an insert_post writes, below a parent's row or at the top level.
NewPostRow(new, thread, parent, path) ==
    [pid |-> new.pid, thread |-> thread, parent |-> parent, path |-> path,
     author |-> new.author, md |-> <<new.md>>, html |-> new.html,
     created |-> new.at, edited |-> Null, state |-> new.state]

\* Inserts answer with the row they wrote: its id, and nobody's name joined.
Inserted(db, table) == [id |-> Len(db[table]), row |-> Last(db[table])]

\* A report's answer.
Tally(r, post, kind) == [added |-> r.changes > 0, count |-> CountSignals(r.db, post, kind)]

=============================================================================
