------------------------------ MODULE MCStores ------------------------------
EXTENDS Stores

\* Each method that writes, with arguments that succeed and that do not: ids
\* and names that are taken, rows that are not there, openings that bring a
\* verdict or none.
NewThread(pid, space) ==
    [pid |-> pid, space |-> space, spacePath |-> <<1>>, kind |-> "link", title |-> "n",
     url |-> Null, author |-> 1, at |-> 2]
NewPost(pid, thread, parent, author, state) ==
    [pid |-> pid, thread |-> thread, parent |-> parent, author |-> author, md |-> "m",
     html |-> "m", at |-> 2, state |-> state]
Opening(post, verdict, appeal) ==
    [post |-> post, space |-> 1, reason |-> "classifier", verdict |-> verdict, appeal |-> appeal,
     opened |-> 2, state |-> "open", resolution |-> Null, by |-> Null, at |-> Null]
Token(user, kind) ==
    [user |-> user, kind |-> kind, email |-> "e", created |-> 1, expires |-> 3]
SessionRow(user) == [user |-> user, created |-> 1, refreshed |-> 1, expires |-> 3]

PostWrites ==
    {[do |-> "create_thread", new |-> NewThread(pid, space)] : pid \in {<<"t">>, <<"u">>}, space \in {1, 9}}
    \cup {[do |-> "insert_post", new |-> NewPost(pid, <<"t">>, parent, 1, "pending")] :
             pid \in {<<"p", 1>>, <<"q", 1>>}, parent \in {Null, <<<<"p", 2>>>>, <<<<"x">>>>}}
    \cup {[do |-> "insert_post", new |-> NewPost(<<"q", 2>>, thread, Null, author, "visible")] :
             thread \in {<<"t">>, <<"u">>}, author \in {1, 9}}
    \cup {[do |-> "update_post_body", post |-> post, md |-> "e", html |-> "e", at |-> 3] :
             post \in {<<"p", 1>>, <<"x">>}}
    \cup {[do |-> "set_post_state", post |-> post, state |-> state] :
             post \in {<<"p", 2>>, <<"x">>}, state \in {"visible", "hidden"}}
    \cup {[do |-> "update_thread", thread |-> thread,
           edit |-> [title |-> "e", url |-> Null, state |-> "locked", space |-> space,
                     spacePath |-> <<1>>]] : thread \in {<<"t">>, <<"x">>}, space \in {1, 9}}
    \cup {[do |-> "tombstone_user_posts", user |-> user] : user \in {1, 2}}
    \cup {[do |-> "create_space",
           row |-> [name |-> "s", path |-> path, parent |-> parent, ranking |-> "bump",
                    cap |-> 8, config |-> "empty"]] : path \in {<<1>>, <<2>>}, parent \in {Null, <<9>>}}
    \cup {[do |-> "update_space", space |-> 1, name |-> "r", ranking |-> "bump", cap |-> 8,
           config |-> "empty"]}

AccountWrites ==
    {[do |-> "create_user", name |-> name, at |-> 2, hash |-> <<"h">>] : name \in {<<"a">>, <<"b">>}}
    \cup {[do |-> "set_password_hash", user |-> 1, hash |-> "h"],
          [do |-> "set_user_role", user |-> 1, role |-> "moderator"],
          [do |-> "set_user_state", user |-> 1, state |-> "banned"]}
    \cup {[do |-> "set_email", user |-> user, email |-> <<"e">>] : user \in {1, 2}}
    \cup {[do |-> "mark_email_verified", user |-> user, email |-> "e", now |-> 2] : user \in {1, 2}}
    \cup {[do |-> "create_email_token", hash |-> 1, row |-> Token(user, "reset")] : user \in {1, 9}}
    \cup {[do |-> "consume_email_token", hash |-> 1, kind |-> "reset", now |-> now] : now \in {2, 3}}
    \cup {[do |-> "retire_email_tokens", user |-> 1, kind |-> "reset", now |-> 2]}
    \cup {[do |-> "link_identity", provider |-> "google", subject |-> <<"s">>, user |-> user,
           email |-> Null, now |-> 2] : user \in {1, 9}}
    \cup {[do |-> "touch_identity", provider |-> "google", subject |-> <<"s">>, now |-> 3]}
    \cup {[do |-> "create_session", token |-> 1, row |-> SessionRow(user)] : user \in {1, 9}}
    \cup {[do |-> "refresh_session", token |-> 1, refreshed |-> 2, expires |-> 4],
          [do |-> "delete_session", token |-> 1],
          [do |-> "delete_user_sessions", user |-> 1],
          [do |-> "record_login_attempt", key |-> <<"id", 9>>, row |-> [start |-> 2, count |-> 1]],
          [do |-> "clear_login_attempts", key |-> <<"id", 9>>],
          [do |-> "sweep_login_attempts", cutoff |-> 3]}

ModerationWrites ==
    {[do |-> "log_action",
      row |-> [actor_kind |-> "user", actor |-> actor, actor_name |-> "a", target_kind |-> "post",
               target |-> 1, action |-> "hide", detail |-> "d", public |-> TRUE, created |-> 2]] :
         actor \in {<<1>>, <<9>>}}
    \cup {[do |-> "open_review", new |-> Opening(1, verdict, appeal)] :
             verdict \in {Null, <<[call |-> "flag"]>>}, appeal \in {Null, <<"please">>}}
    \cup {[do |-> "open_review", new |-> Opening(99, Null, Null)]}
    \cup {[do |-> "resolve_review", review |-> 1, resolution |-> resolution, by |-> by, now |-> 3] :
             resolution \in {"approve", "reject"}, by \in {1, 9}}
    \cup {[do |-> "add_report", row |-> [post |-> post, user |-> 1, kind |-> "report"]] :
             post \in {1, 99}}

MCWrites == PostWrites \cup AccountWrites \cup ModerationWrites

\* Each method that reads.
MCReads ==
    {[do |-> "thread_page", thread |-> thread, after |-> after, limit |-> 4] :
         thread \in {<<"t">>, <<"x">>}, after \in {<<>>, <<2>>}}
    \cup {[do |-> "locate_post", post |-> post, size |-> 3] : post \in {<<"p", 9>>, <<"x">>}}
    \cup {[do |-> "recent_threads", limit |-> 1], [do |-> "space_threads", path |-> <<1>>, limit |-> 5],
          [do |-> "space_by_path", path |-> <<1>>], [do |-> "spaces_under", parent |-> Null],
          [do |-> "user_profile", name |-> <<"a">>, limit |-> 2],
          [do |-> "account", user |-> 1], [do |-> "user_by_verified_email", email |-> "e"],
          [do |-> "peek_email_token", hash |-> 1, kind |-> "reset", now |-> 2],
          [do |-> "identity_user", provider |-> "google", subject |-> <<"s">>],
          [do |-> "user_identities", user |-> 1], [do |-> "thread_head", thread |-> <<"t">>],
          [do |-> "list_users", prefix |-> <<>>, limit |-> 5], [do |-> "user_row", name |-> <<"a">>],
          [do |-> "space_detail", space |-> 1], [do |-> "all_spaces"], [do |-> "site_stats"],
          [do |-> "full_log", limit |-> 5], [do |-> "public_log", limit |-> 5],
          [do |-> "post_by_id", post |-> <<"p", 1>>], [do |-> "thread_version", thread |-> <<"t">>],
          [do |-> "user_by_name", name |-> <<"a">>], [do |-> "user_by_id", user |-> 1],
          [do |-> "login_attempts", identity |-> <<"id", 9>>, client |-> <<"ip", 9>>],
          [do |-> "lookup_session", token |-> 1, now |-> 2],
          [do |-> "write_context", thread |-> <<"t">>, author |-> 1],
          [do |-> "space_context", space |-> 1, author |-> 1],
          [do |-> "author_posted_recently", author |-> 1, md |-> "m", since |-> 2],
          [do |-> "post_for_review", post |-> <<"p", 1>>], [do |-> "open_reviews", limit |-> 5],
          [do |-> "pending_posts", before |-> 3, limit |-> 5], [do |-> "agreement", space |-> 1]}

=============================================================================
