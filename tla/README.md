# Notespace in TLA+

A verification project for [notespace](../src/README.md), a forum written in Rust: one portable
application (`src/crates/core`, `src/crates/app`, `src/crates/render`) that runs as a native
server over SQLite (`src/crates/server`, `src/crates/store-sqlite`) and as a Cloudflare worker
over D1 (`src/crates/worker`).

Every handler of this program is a sequence of single SQL statements (or batches) awaited one
after another, with no transaction around them: D1 has none. Between two statements any other
request, queue message or sweep may run, and a handler may stop for good. This is what the
models keep, and what the properties are about.

`PROJECT.json` maps every definition to the lines it stands for, and lists the runs, the mutants
that show each property can be broken, the hazards of the code, the findings and the theorems.

## The system

### Components

| Component | State | Operations | Talks to | What is hard | What makes it correct |
|---|---|---|---|---|---|
| Moderation pipeline (`core/src/moderation`, `app/src/moderation.rs`) | `post.state`, `review_item`, `action_log`, `signal`, `agreement` | `hold`, `process_post`, `drain`, `report`, `review`, `appeal` | store, queue, classifier | seconds pass while the model is asked; a message is delivered twice or never; statements of several handlers interleave; a handler stops half way | the model logs before it acts; every change is logged; an item is decided once; nothing pending is forgotten; people have the last word |
| Editing and deleting (`core/src/edit.rs`, `app/src/posting.rs`) | `post.body_md`, `post.state` | `edit`, `delete` | store, pipeline | an edit races the judgement of the old text | caught text is read before it is public |
| Writing (`core/src/reply.rs`, `core/src/compose.rs`) | `post`, `thread` | `reply::post`, `compose::create` | store, pipeline, rate limit | racing for one place; a thread that exists before its first post | a place is given once; a retry ends |
| Materialized paths (`core/src/path.rs`, `core/src/store.rs`) | `post.path` (text) | `child`, `next_sibling`, `NextPath::allocate`, `search_bounds` | every thread read and write | limits of depth and of ordinals; byte order | byte order is tree order; children numbered without gaps |
| Thread pages and the cache (`app/src/lib.rs`, `app/src/cache.rs`, `core/src/cache_key.rs`) | `thread.cache_version`, cache entries | `render_thread`, `post_permalink`, `cache_get`, `cache_put` | store, cache, renderer | key and page are read at different times; posts land around a cursor | never stale; pages neither repeat nor skip; permalinks land |
| Moderators' tools (`core/src/admin.rs`, `app/src/admin.rs`) | thread, post, space and user rows, `action_log` | `update_thread`, `set_post_state`, `set_user_state`, `set_user_role`, `update_space`, `create_space` | store | forms loaded earlier than they are applied | the log tells what happened; a gone author's posts are gone |
| Accounts (`core/src/login.rs`, `session.rs`, `register.rs`, `account.rs`, `oidc.rs`, `app/src/account.rs`, `app/src/oauth.rs`) | `user`, `session`, `email_token`, `identity` | login, logout, registration, verification, reset, change of password, ban | store, mailer, identity provider | a login under way while a password changes or an account is banned; links used twice | ended sessions stay ended; a link works once; an address belongs to one account |
| Rate limiting (`core/src/ratelimit.rs` and its users) | `login_attempt` | `check`, `record`, `clear` | login, writing, registration, resets | counters read and written in separate steps; windows that do not slide; kinds of request that share a row | a refusal is earned on the counter that refuses; one request at a time is held to the limit; the wait told is the wait |
| Web forms, cookies and sign-in (`app/src/lib.rs`, `account.rs`, `oauth.rs`, `posting.rs`, `core/src/csrf.rs`, `cookie.rs`) | the browser's cookies, the tokens in its forms | every page with a form, every submission, login, logout, the redirects of a sign-in, `api_me` | accounts, store, providers | several tabs; forms left open; answers that are lost or overtaken; four clocks | a form acts for its reader only; a form does not outlive its cookie; a session that is over is forgotten, and no other |
| Store contract (`core/src/store.rs`, `sql.rs`, `conformance.rs`) | every table | the `Store` trait, the suite that tests it | both stores | batches against transactions, messages against result codes | one answer, whichever store |
| Native server (`server/src/main.rs`) | job channel, page cache | consumer, sweep timer, `cache_put` | everything, on one thread | jobs in memory only | the sweep replaces what is lost |
| Worker (`worker/src/lib.rs`, `worker/src/store.rs`) | queue, cron, edge cache | `queue`, `scheduled`, the store over D1 | everything, in many isolates | every statement interleaves | as above, with no transaction |
| SQLite store (`store-sqlite/src/lib.rs`) | the database | the `Store` trait | every handler | each call is atomic, sequences are not | one statement, one step |
| Policy, heuristics, classifier (`core/src/moderation/policy.rs`, `heuristics.rs`, `classify.rs`, `providers.rs`) | none | pure functions, requests to a model | pipeline | thresholds | inputs of the pipeline here |
| Identifiers, names, cryptography, mail formats, rendering, themes | none | pure functions | handlers | encodings | property tests in the source |
| Import, seeding, benchmarks (`hn-import`, `seed`, `bench-wasm`) | none | offline tools | - | - | - |

### How they interact

    request --> app handler --> core operation --> Store (one statement per call)
                                   |   \--> ModerationQueue --> queue consumer --\
                                   |                                             +--> process_post --> Classifier
                timer / cron ------|-----------> sweep --> pending_posts --------/
                                   \--> page cache, keyed by thread.cache_version

Handlers share nothing but the database, the queue and the cache. On the native server they also
share one thread, so they alternate only where they really wait: for the model, for the network,
and between two requests. Over D1 they alternate at every statement.

## Modules

| Module | Models | Notes |
|---|---|---|
| `Moderation` | everything that changes a post's state, text, review item, reports or log | one action per store call; see below |
| `Paths` | paths as sequences of ordinals, allocation, page order | pure operators |
| `PathText` | how a path is stored, and the bounds of the search below it | pure operators |
| `ThreadTree` | what a thread promises: a tree that only grows | the abstract specification |
| `Thread` | how posts get their places, and the thread's form | implements `ThreadTree` |
| `ThreadPages` | versions, cursors, permalinks, the page cache | readers against writers |
| `Accounts` | accounts, proved addresses, mailed links, passwords, identities, sessions | one action per store call, as in `Moderation` |
| `RateLimit` | the attempt counters and the requests that pass them | one action per statement |
| `Sql` | the statements both stores share, as functions of the tables | pure operators |
| `Store` | what is common to the two implementations of the trait: values, errors, pages and cursors | pure operators, over `Sql` |
| `D1Store`, `SqliteStore` | every method of the trait, on D1 and on SQLite | operators from a database and a call to a database and a result, over `Store` |
| `Conformance` | the checks of the conformance suite | an operator per check, over any `Do` |
| `Stores` | the two stores side by side, and the suite run against both | composes `D1Store`, `SqliteStore` and two instances of `Conformance` |
| `Browser` | one browser with tabs, its cookies and forms, the requests and answers on the way, and the web handlers | one action per handler |
| `MC*` | instances for TLC | model values and symmetry |
| `*_proofs` | theorems checked by TLAPS | `Moderation_proofs`, `Thread_proofs`, `ThreadPages_proofs`, `Accounts_proofs`, `RateLimit_proofs`, `Browser_proofs`, `Stores_proofs`; `Paths_proofs` has the lemmas about paths that three of them use |

### Moderation

State: the columns `post.state` (`state`), `post.body_md` (`body`, the number of the text),
`review_item.state` (`item`), the set of reporters (`signals`), the set of rows of the action log
(`log`), deleted accounts (`gone`), the log's rows about them (`erased`) and the queue (`jobs`).

A handler is modelled by a *plan*. Starting one (`Write`, `Edit`, `Report`, `Review`, `Deliver`,
`SweepNext`, ...) performs its reads and checks and leaves in `run[h].plan` the store calls that
follow, computed from what was read. Every later step executes the first call of a plan
(`SetPostState`, `LogAction`, `OpenReview`, `ResolveReview`, `AddReport`, `CountReports`, ...),
which is one statement. Where a call decides what comes next, its action replaces the rest of the
plan: `ClassifierAnswers` puts in the verdict's calls, `ResolveReview` the decision's,
`CountReports` the recall's. `Fail` drops the rest of a plan, `LoseJob` a message.

`Yielding` chooses between the two platforms. With it, every call may be interleaved. Without it, a
handler runs until it waits for the model (`Paused`) or ends, as on the native server's single
thread with its blocking store. A moderator's visit to the queue page and the press of a button on
it are one `Review`, which pauses in between.

Abstractions: Tier 0's heuristics either hold a text or not, for any text a member writes, and never
a moderator's (`Triaged`). What the classifier, `policy.decide` and the space's thresholds make of a post is one of
`Answers`. A thread's counters and cache version are in `ThreadPages`. The sweep's grace period is
left out, so that the sweep may take a post at any moment, sooner than the code would; liveness needs only
that it comes at all. Who may act against whom is reduced to moderators and members. A reviewer
holds its request slot while the queue page is being read.

Deleting an account (`DeleteAccount`) is four calls: the account's state, the end of its sessions (which are in no table here),
the tombstones, and the row that closes it. The tombstones have no rows of their own: `RowsOn` counts the account's row as one about
each of its posts, and `EveryChangeLogged` asks for that one too. A handler that stops between a change and its row leaves the change unlogged; the
property counts such changes (`Unlogged`) and allows one for each handler that has stopped.

The variables `changed`, `by`, `caught`, `passed`, `decision` and `decisions` are history: properties
read them and no action does. `passed` says how the present text fared when the post's state was last set: it was read, nobody had
read it, or it was released because moderation was off, where the source says that nobody looks. `caught` is set for a text that was written while nothing else was under way about
its post (`Undisturbed`): an edit that overlaps a judgement may be published unread, as the hazards say.

### Paths, PathText and Thread

A path is the sequence of ordinals from the root down. `Child`, `NextSibling` and `Allocate`
return `<<>>` where the code returns an error. `Thread` splits `append_post` where D1 does:
`Look` reads the parent and the last path below it and computes the next, `InsertPost` or
`Conflict` is the batch, in which `UNIQUE(thread_id, path)` decides, and the loop of
`reply::post` looks again (`LastTry`). `CreateThread` is `compose::create`, whose opening post is
written by the same loop after the thread can already be replied to.

`OpenForm`, `Submit`, `UpdateThread` and `LogNext` are the moderator's form for the thread:
filled in when loaded, compared with a later read, applied by one statement that writes every field, logged
by what the comparison saw, each row a statement of its own. `FailEdit` is a handler that ends before the update or with rows still to write;
`lost` is history, the state that the last row about the state would have named, when that row went down with its handler. `Failing`
chooses whether handlers (writers' and moderators') may end so. The link of the thread and its move to another space are further
fields of the same form with rows of their own, and are left out.

`ThreadTree` has one variable, where each reply hangs: its parent and its rank. `Thread` defines that
from paths (`Place`), and `TreeOnlyGrows == PostTree!Spec` says that stale looks, conflicts and
retries implement it: no place is given twice, no rank skipped, nothing moves.

### ThreadPages

`tree` is the set of the thread's paths. A post appears in one step, as the youngest child of its
parent, which is what `TreeOnlyGrows` says of `Thread`. `version` is `thread.cache_version`; `content` counts the changes
to the thread and its posts, `spaceEdits` those to the space, whose name, theme and depth cap are on
the page too. Both are history (`Moment`): a page records when it was rendered, a reader when it
read the version. `NeverStale` compares the first, `SpaceNeverStale` the second. A reader reads the version
(`ReadVersion`, which may fail: then nothing is cached), looks into the cache (`Hit`, `Miss`), reads
the page (`Fetch`), stores it (`Put`) and may follow the link to the next page (`NextPage`). A permalink
takes three reads before that: the post, its rank, and the cursor of its page (`Locate`,
`CountBefore`, `FindCursor`). `Miss` is always possible, as in an edge cache; `CachePut` and
`Trim` are the native cache, whose entries leave in the order they came.

Of the cache key, the thread, its version and the cursor are kept. The host and the build's revision only
separate entries further.

### Accounts

State: the columns `user.state`, `password_hash`, `email` and `email_verified_at` (`account`,
`password`, `email`, `verified`), `external_identity` (`identity`), `email_token` (`links`, in the
order of the rows, a row's index standing for its secret) and `session` (`sessions`). Requests and their
plans are as in `Moderation`: `Signup`, `Login`, `SignIn`, `Finish`, `ChangeEmail`, `ChangePassword`,
`EndOtherSessions`, `RequestReset` and `SetState` do their handler's reads and leave their statements in
`run[h].plan`; `ConfirmEmail` and `CompleteReset` begin with the statement that spends the
link (`Follow`); `CreateUser`, `SetEmail`, `RetireLinks`, `MarkVerified`, ... are those statements, and the
constraints that make one fail (`UNIQUE(user.name)`, the primary keys, the partial index on verified
addresses) decide what they do. `Fail` stops a handler between any two.

Abstractions: passwords and tokens are numbers, a new one for each request that brings one; a login
knows the password it read. A link can be followed by the owner of the address it was mailed to,
which is what `proven` records, and a provider's word counts as much. Rate limits can only refuse, and
expiry only ends things, so both are left to `RateLimit` and `Browser`. Moderators stand outside `Names`: `SetState`
acts on members. The posts of a deleted account and the row that logs it are in `Moderation`; the rows of a ban and its end are left out. Roles are columns in `Sql` and nothing else yet.

`proven`, `resets`, `replaced` and a handler's `since` are history.

### RateLimit

State: the table `login_attempt` (`attempts`, per key a count and the start of its window), the clock, and per
handler the statements it still has to make (`run`). `Login`, `Write`, `Signup` and `RequestReset` are the five
users of `Limit::check`; each reads its counters in one statement, and `Admit` leaves the statements
it makes later, with the values computed now. `RecordAttempt` and `ClearAttempts` are those statements, each of
which overwrites what is there. `Refuse` is a request that one of its counters turns away, and `Fail` one cut off.

What a request does besides is left out: it is good or not, which decides whether it counts. The statements of
a request are made in the code's order, but what happens in between (a password is hashed, a post inserted) is not here.
`tries`, `cleared` and `raced` are history: the requests each key was counted for, how many of them a success took
back, and the keys that requests at once, or one cut off, have disturbed.

A row's key is a text with a prefix: the client's address, or an identity, which is a username, an author's number, `thread:`
and that number, or `reset:` and an address (`Identity`). These are different texts, but a login counts under whatever was typed
as the name, before anybody looks whether it could be one. A failed login can therefore count on the row of an author's
replies or threads, or of an address's resets (`Ids`); a successful one cannot (`Username`: a name has a letter in it and no
colon). `Typed` bounds the texts typed.

### Sql, Store, D1Store, SqliteStore, Conformance and Stores

A database is a record of tables, a table a sequence of rows (a row's index is its `rowid`) or a function from
keys. `Sql` has an operator for each statement of `sql.rs`: a query's is the sequence of rows it returns, an
update's the tables after it and the number of rows it touched, or the constraint it violates. `D1Store` and
`SqliteStore` have one for each method of the trait, made of those: `D1Do(db, call)` and `LiteDo(db, call)` are the database afterwards
and what the caller gets, method by method in nine groups. They differ where the adapters do. On D1 several writes are a batch, which is all or
nothing, and an error is told from another by its message; SQLite has transactions, result codes and a count of the rows changed.
What both do the same way (decoding rows, cutting a page, computing cursors and offsets) is `Store`.

`Conformance` has the suite's checks in the order `run_all` makes them, each a sequence of calls with a
verdict, over a parameter `Do`; `Stores` instantiates it with `D1Do` and with `LiteDo`. Before the suite begins, up to `SuiteAfter` calls
out of `Writes` have been made of both stores, so that it meets databases its author never had.

Texts, names, hashes and paths are values that are compared, never inspected, but for paths, which are sequences of
ordinals in page order, as in `Paths` (`PathText` shows that the stored text sorts that way). Times are numbers the calls bring.
A call is atomic here: what happens between the statements of one call on D1 is in `Thread`, `Moderation` and `Accounts`, which have
the calls where it matters. The calls of `Writes` pin no thread and hide none the suite reads, since the
suite expects the first thread of a space's list to be an ordinary one; and the suite is run once, since some checks
insert rows with fixed keys, and fail on a database that has them, though their comments speak of reruns.

### Browser

State: of the server, who exists (`account`), whose an identity at a provider is (`owner`), the sessions and how long they last,
and the links in the founder's mailbox; of the browser, its cookies (`jar`), the form that is open in each tab, the
page of a provider it is looking at (`away`), and the request or the answer on its way (`wire`). Times are counted down
by `Tick`, which may come at any moment.

A tab sends a request with the cookies of that moment (`Open`, `Submit`, ...), the server answers it
(one action per handler of `app/src`: `LoginSubmit`, `RegisterSubmit`, `Logout`, `ApiMe`, `OauthStart`, `OauthCallback`, `FinishSubmit`,
`ReplySubmit`, ...), and the answer sets cookies and shows a form when it arrives, if it does. Between any two of these
the other tab goes on. A handler is one step: what happens between its statements is in `Accounts` and `Moderation`.
Every handler may meet a store that fails, where the code goes on in some way of its own.

A token is what `csrf.rs` signs: a time and the cookie it is bound to; nobody can forge one, so a form has
the one it was made with or none. The sealed cookies of a sign-in are the values inside them. Of the forms for
members, those for replying, composing, editing, deleting, reporting, appealing and for the settings are here; the admin pages'
forms are made and checked by the same functions and are left out. `acted`, `crossed` and `told` are history.

## What the runs show

| Run | Instance | Shows |
|---|---|---|
| `interleaved` | one post, every kind of request, two request handlers and a queue consumer, every statement interleaved, three requests, threshold 2, no failure | `ModelLoggedFirst`, `EveryChangeLogged`, `OneDecisionPerOpening`, `ModelHideIsQueued`, `ThresholdNeverMissed`, `CaughtTextIsRead` |
| `recovery` | two posts, no queue consumer at all, one sweep of one post at a time, one handler that fails anywhere | `NothingStranded`, `EveryChangeLogged` |
| `tree` | four writers, one retry each, room for three siblings and three levels, one moderator with up to three forms and three states, any handler failing; five requests | `RepliesUnderParents`, `ContendedMeansRaced`, `TreeOnlyGrows`, `LogTellsState` |
| `walk` | two readers, pages of two posts, a cache of one entry, four writes anywhere, one of which may be of the space | `NeverStale`, `PagesTile`, `PermalinkLands`, `TextSortsAsTree` |
| `accounts` | a member and a free name, two addresses, one identity, two handlers, four requests, one failure | `OneAccountPerAddress`, `VerifiedIsProven`, `ResetsGoToProven`, `ResetOnce`, `NoLinkOutlivesItsPassword`, `SignedInCanReturn` |
| `limits` | one name and one address, two handlers, three requests of any kind, one cut off, windows of two, three and five ticks, logins that type a name or the text of a thread's row | `RefusalsAreCounted`, `OneAtATimeIsHeld`, `WaitIsExact` |
| `stores` | a thread of twelve posts, three calls out of a set that reaches every method and every error, and the suite after one | `AdaptersAgree`, `SuitePasses`, `PostCountIsRight`, `PageTurnsOver` |
| `browser` | two tabs, two people, two identities, three requests, lives of one and two ticks | `ActsForItsReader`, `AnonCookieOutlivesItsForms`, `GoneIsForgotten` |
| `human_final`, `log_of_states`, `space_edit`, `stale_marker` | the smallest that shows it | a counterexample to what a comment or a document says; see Findings |

Why these bounds. The hazards of the pipeline are races of two or three handlers about one post:
three requests beside a consumer contain a write, a report or an edit, and a person's decision
around a judgement, and two reporters at the threshold. Recovery needs a second post for the
sweep's limit to leave one over, and one failure to lose the first attempt. In `tree`, four posts
with one retry contain a writer that loses twice, a reply below a reply that is just being written, and
an ordinal and a depth that do not exist; three forms are a state logged, one lost, and one that sets it right. The five
requests are four posts and a form, or fewer posts and more forms (`MaxRequests`). Titles differ in `log_of_states`. In `walk`, four posts on pages of two give a
second page, a page boundary and a post that lands on either side of it; one cache entry makes
every second put evict. In `accounts`, four requests are enough for a second account to claim an address, be sent
a link and follow it while the first proves, leaves or returns to that address, or for two links, their use and a change of
password; two handlers at once are the races, and the failure leaves one half done. In `limits`, a limit of one and
three requests make a second window begin, a late write bring an old one back, and a client's counter, or
an author's under whose text a login failed, carry one kind's window into another's. In `stores`, the interesting calls are pairs (the second meets what the first wrote) and
a read, which is compared in every state; the seeded thread is long enough for the pages that the suite walks. In `browser`, three
requests are a form opened, a sign-in or a logout in the other tab, and the form submitted; lives of one and two ticks let
every cookie and token end before and after every other. Counters that only number things (`MaxRequests`, `MaxFailures`,
`MaxEdits`, `MaxWrites`, `MaxSpaceEdits`) are bounds of the instances and no part of the program.
`CHECK_DEADLOCK` is off because clients may stop sending requests and the bounds end the rest.

Symmetry is used for handlers (of requests in `Moderation`, `Accounts` and `RateLimit`), repliers, moderators, readers and tabs, which the specifications only
compare for equality, and only with safety properties; `recovery` has none.

### Fairness

`FairSpec` in `Moderation` says that a handler that has begun goes on (`WF` of `Step`: the executor
polls every task, and a call to the model has a timeout) and that the sweep's timer keeps firing
(`WF` of `Sweep` and `SweepNext`: `tokio::time::interval` in `server/src/main.rs`, the cron
trigger in `wrangler.toml`). Nothing is assumed of clients, of moderators or of the queue: a
message may never be delivered, and in `recovery` none is.

## What is proved

TLAPS checks the following for every value of the constants that satisfies the modules' `ASSUME`s.

| Theorem | Statement | Argument |
|---|---|---|
| `Moderation_proofs!TypeCorrect` | `Spec => []TypeOK` | inductive |
| `Moderation_proofs!OneDecision` | `Spec => []OneDecisionPerOpening` | inductive together with: an item that is not open was resolved at most once, an open one not yet |
| `Moderation_proofs!LoggedFirst` | `Spec => []ModelLoggedFirst` | `AllShaped`: in every plan, a change by the model is preceded by the row of its classification, in the plan or in the log |
| `Moderation_proofs!ChangesLogged` | `Spec => []EveryChangeLogged` | `Accounted`: a change without its row, the post's or its author's, is owed by a handler whose next call writes it, or is one of the *lapsed*, of which there is at most one for each failure |
| `Moderation_proofs!HideQueued` | `Spec => [](failures = 0 => ModelHideIsQueued)` | `HidesComing`, see below |
| `Moderation_proofs!ThresholdMet` | `ReportThreshold # 0` implies `Spec => [](failures = 0 => ThresholdNeverMissed)` | `RecallsComing`, see below. A threshold of none would recall a post nobody has reported, which no handler does |
| `Moderation_proofs!CaughtRead` | `Spec => [](failures = 0 => CaughtTextIsRead)` | `ReadingsComing`, see below |
| `Thread_proofs!TypeCorrect` | `Spec => []TypeOK` | inductive with `InTime`: a request that still runs has no place and has retries left |
| `Thread_proofs!TreeInvariant` | `Spec => []TreeInv` | see below |
| `Thread_proofs!PathsFollowParents` | `Spec => []RepliesUnderParents` | from `TreeInv` |
| `Thread_proofs!Implements` | `Spec => TreeOnlyGrows` | from `TreeInv`, step by step |
| `Thread_proofs!RacesAreReal` | `Spec => []ContendedMeansRaced` | `Raced`, see below |
| `Thread_proofs!LogIsHistory` | no more than one moderator implies `Spec => []LogTellsState` | `Logged`, see below. Handlers may end anywhere. With two moderators it is false: the run `log_of_states` |
| `ThreadPages_proofs!TypeCorrect` | `Spec => []TypeOK` | inductive together with `Whole` |
| `ThreadPages_proofs!Freshness` | `Spec => []NeverStale` | from `Whole` |
| `ThreadPages_proofs!Tiling` | `Spec => []PagesTile` | from `Whole` |
| `ThreadPages_proofs!LinksLand` | `Spec => []PermalinkLands` | `Landing`, see below |
| `Accounts_proofs!TypeCorrect` | `Spec => []TypeOK` | from `Inv`, see below |
| `Accounts_proofs!OneProves` | `Spec => []OneAccountPerAddress` | from `Inv` |
| `Accounts_proofs!ProvenFirst` | `Spec => []VerifiedIsProven` | from `Inv` |
| `Accounts_proofs!ResetsTrusted` | `Spec => []ResetsGoToProven` | from `Inv` |
| `RateLimit_proofs!TypeCorrect` | `Spec => []TypeOK` | inductive |
| `RateLimit_proofs!RefusalsEarned` | `Spec => []RefusalsAreCounted` | `CountsAreReal`, see below |
| `RateLimit_proofs!HeldToTheLimit` | `Spec => []OneAtATimeIsHeld` | `OneByOne`, see below |
| `RateLimit_proofs!WaitsExact` | `Spec => []WaitIsExact` | arithmetic: division that rounds up, and the longer of two waits |
| `Browser_proofs!TypeCorrect` | `Spec => []TypeOK` | from `IInv`, see below |
| `Browser_proofs!FormsActForTheirReaders` | `Spec => []ActsForItsReader` | from `IInv` |
| `Browser_proofs!AnonFormsKeepTheirCookie` | `Spec => []AnonCookieOutlivesItsForms` | from `IInv` |
| `Browser_proofs!GoneStaysForgotten` | `Spec => []GoneIsForgotten` | from `IInv` |
| `Accounts_proofs!OneReset` | `Spec => []ResetOnce` | `Spent`: a reset link whose password is still owed is used, is owed by one handler only and has set none |
| `Accounts_proofs!WayBack` | `Spec => []SignedInCanReturn` | `WaysBack`, see below |
| `Accounts_proofs!LinksEnd` | `Spec => []NoLinkOutlivesItsPassword` | `Told`, see below |
| `Stores_proofs!TypeCorrect` | `Spec => [](fixture = Null => TypeOK)` | from `Alike`, see below |
| `Stores_proofs!SameAnswers` | `Spec => [](fixture = Null => AdaptersAgree)` | `Alike`, see below |
| `Stores_proofs!CountsKept` | `Spec => [](fixture = Null => PostCountIsRight)` | from `Alike` |
| `Stores_proofs!PagesTurn` | `Spec /\ [](fixture = Null) => PageTurnsOver` | from `Alike`, call by call |

`RepliesUnderParents` is not inductive: an insert uses a path computed from an older tree. `TreeInv`
says what stays true of such a path. Paths are unique, every ancestor of a post is a post, siblings
are numbered without gaps, and a path about to be inserted lies under its parent and has all its elder
siblings in the tree. The last is stable because nothing leaves the tree; that the path may be taken
by now is what the unique index checks. With it an insert is exactly `ThreadTree!Add`.

`Raced` counts a writer's rivals: those that landed under the same parent after it began are at least as many as its
tries so far, and while it holds a path to insert, the rivals on other paths are; so each conflict, which is a rival on this path,
is a new one. `Logged` follows the form: as long as one moderator's form is the only one, what the comparison read is still the
thread when it is applied, and between the update and the last of its rows the one that names the new state
is the last to be written; when a handler ends before that, `lost` has what it would have said.

In `Moderation`, the invariants are about plans. A handler starts with a plan that changes nothing on the
model's word and pairs each change with the row that follows it (`Fresh`); a step removes the
first call, or, for the classifier's answer, adds a verdict that begins with its row.

`HideQueued`, `ThresholdMet` and `CaughtRead` are about debts. A post that the model hid has an open item, or some handler
under way will still open one, or will set the post's state once more (`HidesComing`); a post that has reached
the threshold is about to be counted again or set (`RecallsComing`); text that was caught and is public was read, or is
about to be taken back (`ReadingsComing`). None is inductive alone. A handler pays its debt according to what it read
some calls ago, so that `AllInformed` says what of that is still true where it matters: a report under way on a post nobody has touched since saw it
visible, and a plan that may publish caught text has read that very text. `Existence` says that plans are orderly (what is inserted,
written, resolved or counted comes first or not at all) and that a post that is only about to be inserted is in nobody's other plans. A
handler that stops takes its debts with it, which is why all three are for behaviours in which none has stopped; then nobody may owe
anything, and `recovery` checks that the sweep makes up for it.

`NeverStale` and `PagesTile` speak of pages that have been served; `Whole` of every page in the cache or on
its way to it. Such a page is no older than its key's version, and while that version is current
it is no older than the thread, so that it holds every post that belongs between its two cursors. The
posts there when a reader began are therefore on the pages it has seen, up to the cursor it has. The order
of the tree, `Before`, is proved in `Paths_proofs` to be a strict total order, and a finite set of paths to have a first
and a last element in it, from the library's theorem on well-founded relations.

`PermalinkLands` is a matter of counting. Posts are never taken away, so that the rank of a post only grows. `Landing` says of a permalink
under way that the rank it has found lies between the one its post had when it began and the one it has now, that the cursor
computed from it lies before the post and has at least as many posts up to it as come before the page that the old rank is
on, and of every page, in the cache or not, that it is full or the last. A page after that cursor without the post is then
full of posts before it, more than there were, by as many as the old page had room for.

`Inv` of `Accounts_proofs` is its four invariants with `Trusted`. A handler acts for one account on what it read
before; what it still has to do may by then be stale, but stays *backed*: a reset link it will mail goes to an
address that account has proved, and so does every mark of verification it will make. That is stable
because an address once proved stays so, and each kind of handler starts with a backed plan.

`WaysBack` says of plans that no session comes before a way to sign in (`Earned`: a password or an identity that the
account has, or that an earlier call of the plan gives it), and that no password is written, and no link mailed, for an account
that is not there (`Owned`), so that nobody's new account starts with another's. Neither a password nor an identity is ever
taken away, which keeps what was earned. `Told` says that before a person is told of a new password, the links are
retired, and after the password is written (`Announced`); that every link before the last password a person was told of is spent
is then a fact about rows that only become more and are never unspent.

`RefusalsAreCounted` speaks of a row, not of a person: where kinds of request share a row, what one of them counted refuses the
other, and only that enough was counted there can be promised. It is a statement about counters that are overwritten. `CountsAreReal` says of every count, in the table or
about to be written, that as many of the key's latest requests began no earlier than its window; a late write is a count
of requests that were real when it was computed, and requests only become more. `OneAtATimeIsHeld` needs the
opposite, that counts are not too low, which holds while nobody races for the key: `Fits` says that a key's counter counts its latest
requests from the one that opened the window, and that all but a limit's worth of those before were over by then. Whoever
holds the key's next statement holds it alone (`OneByOne`), and what they will write fits. On a row that several kinds count on, each request
restarts or continues it by its own limit and window, and `Fits` is kept for every limit at least as large, and every window no longer,
than all of those counted there (`Covers`), which is the bound the property states; on a row of one kind it is that kind's own limit and window.

In `Browser`, what is wrong would be wrong of an answer that has not arrived yet. `IInv` of `Browser_proofs` says of every
answer on the way that an anonymous form comes with the cookie it is bound to, the end of a session with the clearing
of its cookie, and a session's cookie with a token that no tab, request or other answer has (`BroughtOnce`); and of every form, in a
tab or on the way, that the session it is bound to, if it is still there, is that of the user it was made for. Tokens are
never drawn twice, which is why that stays true after the session has ended. Each of the handlers is shown to answer in a way that
fits (`HandleAnswers`), and one proof for all of them that such an answer preserves `IInv` (`AnswerKeeps`).

In `Stores`, that the adapters agree is proved for calls with any arguments, method by method. A group's lemma (`ThreadsAlike`, `BodiesAlike`, ...)
says that batch and transaction, message and result code come to the same on any *sane* database; `CallKeeps` that
what they leave is sane again and has turned its pages over. `Sane` is what that takes: the tables are there, posts lie in threads that
exist, `post_count` counts them and versions are numbers. Errors are told alike because what D1 reads out of a message and SQLite out
of a code are the constraints that the statement can violate at all (`Stops`). `Alike` is then that the two databases
are one sane database, and that is inductive.

`TypeOK` of `Stores` has what the migrations declare of users, sessions, threads and posts: references are to rows
that are there, and ids, names and places are unique. `CallKeeps` shows that they survive as well, statement by statement (`Wired`:
the columns that the constraints are on are there, and `Schema`). What a statement writes may have been read a statement
earlier, so that uniqueness rests on the indexes, which are checked when a row is put in or
changed, and references on the checks beside them. That an appended post's place is a path the type allows
does not come from the schema: the place is worked out from the last path below the parent, which is proved to be
in the thread and the last (`LastPathIs`), and a path allocated next to it or below it stays within depth and ordinals (`AllocateType`).
Two assumptions on the constants are added for it: a call that creates a session names its user, which the struct it takes
does not let it omit, and the limits are large enough for the three levels and seven children of the seeded thread.

Only model-checked are

- `NothingStranded`: a liveness property under fairness, which the prover cannot reach;
- `TextSortsAsTree`: its texts are digits got by dividing by powers, which needs an induction over the digits of a number;
- `SuitePasses` of `Stores`, and what the suite itself does to its other properties. The suite's calls are calls of the
  same methods, for which the theorems are proved with any arguments. But the suite is a fixed program of some hundred and fifty calls
  with verdicts on their values, which TLC runs on every database the calls before it lead to; its page walk is a fold over data.
  `PageTurnsOver` moreover is about single calls, and a check of the suite makes several in one step.

## Findings

The runs that end in a violation show a disagreement between the code and something it says of
itself. Each is quoted in `PROJECT.json`.

1. `human_final`: a moderator's decision made while the model is being asked is overruled by the
   model's answer. `process_post` checks the state before the question and not before the write.
2. `log_of_states`: of two moderators with the thread's form open, one who only retitles silently
   takes back the other's lock.
3. `space_edit`: a space's name, theme and depth cap are on its threads' cached pages, and editing
   the space bumps no thread's version.
4. `stale_marker`: `/api/me` clears the cookies of a session it did not find, and does not find it when the store fails.

Consequences of the first without a run of their own: the unconditional write also revives the post of an account that was
deleted meanwhile, and publishes an edit that landed while the older text was being read.

A change and its log row are two statements, against what `pipeline.rs` says of its steps (line 6): a handler
that stops in between leaves the first without the second, and nothing looks at the post again. `EveryChangeLogged` and `LogTellsState`
hold because they allow for exactly that.

## Not modelled, and why

Encodings, cryptography, formats, prompts, rendering and offline tools are pure functions or I/O
with nothing to interleave. Identity providers and mail services are outside the program; what the
program does with their answers is in `Accounts` and `Browser`. The moderation policy's thresholds, the import and the seeding
write nothing a handler reads half way. Roles and the admin pages' own forms are left: they are further fields and pages of
the same kinds as those modelled. The conformance suite is modelled with the values that its checks compare, and the two
suites of unit tests beside it are not.

## Plan

Order of work, most important first.

1. Done: `Moderation` with its runs, mutants and proofs; `Paths`, `Thread` and `ThreadTree` with the
   refinement and its proof; `PathText` and `ThreadPages`.
2. Done: `Accounts`, `RateLimit` and `Browser` with their proofs, the store contract.
3. Roles and the log rows of a ban, and a run for what becomes
   of a session that a login or a change of password writes after a logout or a ban.
4. Moderation policy: `effective`, `decide` and the agreement floor over bounded inputs.
5. Done: proofs of every safety property of `Moderation`, `Thread`, `Accounts`, `RateLimit` and `Browser`, of those of `ThreadPages` but the text
   of paths, and of the store contract and the schema of the tables before the suite.
6. Proofs: the suite's steps, as sequences of calls that each keep `Alike`.
