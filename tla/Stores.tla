------------------------------- MODULE Stores -------------------------------
(***************************************************************************)
(* The two stores side by side: the same calls are made of each, and at    *)
(* any time the conformance suite may be run against both, as the route    *)
(* /__conformance does with writes allowed.                                *)
(***************************************************************************)
EXTENDS D1Store, SqliteStore

CONSTANTS
    Writes,       \* the calls that may be made, and
    Reads,        \* the calls that are compared in every state
    MaxCalls,     \* calls made before, or instead of, a run of the suite
    SuiteAfter    \* calls after which a run of the suite may still begin

\* A session's row names its user: it is a struct, with no field left out.
ASSUME StoresAssumption ==
    /\ \A c \in Writes \cup Reads : c.do \in Methods
    /\ \A c \in Writes : c.do = "create_session" => "user" \in DOMAIN c.row
    /\ MaxCalls \in Nat
    /\ MaxOrdinal >= 6 /\ MaxDepth >= 3    \* the seeded posts have paths

VARIABLES
    d1, lite,     \* the databases of the two
    said,         \* what the two answered to the last call
    calls,        \* calls made so far
    fixture,      \* what the suite expects to find, once it has begun
    next,         \* the number of the check that is next
    failed        \* the checks that failed, and of which store

vars == <<d1, lite, said, calls, fixture, next, failed>>

\* run_all is given a store, and makes its calls of that one.
D1Call(db, c)   == D1Do(db, c)
LiteCall(db, c) == LiteDo(db, c)

D1Suite   == INSTANCE Conformance WITH Do <- D1Call
LiteSuite == INSTANCE Conformance WITH Do <- LiteCall

\* Twelve posts in a thread of a space, by one user.
SeedPaths ==
    <<<<1>>, <<1, 1>>, <<1, 1, 1>>, <<1, 2>>, <<2>>, <<2, 1>>,
      <<3>>, <<4>>, <<4, 1>>, <<4, 2>>, <<5>>, <<6>>>>

Seeded ==
    [EmptyDb EXCEPT
        !.user = <<[name |-> <<"a">>, created |-> 1, hash |-> Null, state |-> "active",
                    role |-> "member", email |-> Null, verified |-> Null]>>,
        !.space = <<[name |-> "General", path |-> <<1>>, parent |-> Null, ranking |-> "bump",
                     cap |-> 8, config |-> "empty"]>>,
        !.thread = <<[pid |-> <<"t">>, space |-> 1, spacePath |-> <<1>>, kind |-> "discussion",
                      title |-> "seeded", url |-> Null, author |-> 1, created |-> 1,
                      bumped |-> 1, count |-> Len(SeedPaths), state |-> "visible",
                      version |-> 0]>>,
        !.post = [i \in DOMAIN SeedPaths |->
                     [pid |-> <<"p", i>>, thread |-> 1, parent |-> Null, path |-> SeedPaths[i],
                      author |-> 1, md |-> <<"seed">>, html |-> "seed", created |-> 1,
                      edited |-> Null, state |-> "visible"]]]

\* The fixture is read from the database: the first four posts of the page.
FixtureOf(db) ==
    LET page == D1Do(db, [do |-> "thread_page", thread |-> <<"t">>, after |-> <<>>, limit |-> 4])
        probe == page.res.value[1]
        known == Last(probe.posts)
    IN  [thread |-> <<"t">>, count |-> probe.thread.row.count, known |-> known.row.pid,
         knownPath |-> known.row.path, absent |-> <<"absent">>,
         writable |-> [i \in 1..6 |-> <<"w", i>>], author |-> probe.thread.row.author]

Init ==
    /\ d1 = Seeded /\ lite = Seeded
    /\ said = <<Ok(TRUE), Ok(TRUE)>>
    /\ calls = 0
    /\ fixture = Null /\ next = 1 /\ failed = {}

Call(c) ==
    /\ fixture = Null /\ calls < MaxCalls
    /\ LET one == D1Do(d1, c) two == LiteDo(lite, c)
       IN  d1' = one.db /\ lite' = two.db /\ said' = <<one.res, two.res>>
    /\ calls' = calls + 1
    /\ UNCHANGED <<fixture, next, failed>>

BeginSuite ==
    /\ fixture = Null /\ calls <= SuiteAfter
    /\ fixture' = <<FixtureOf(d1)>>
    /\ said' = <<Ok(TRUE), Ok(TRUE)>>
    /\ UNCHANGED <<d1, lite, calls, next, failed>>

\* run_all goes on after a check that fails.
RunCheck ==
    /\ fixture # Null /\ next <= Len(D1Suite!Suite)
    /\ LET name == D1Suite!Suite[next]
           one == D1Suite!Check(name, d1, fixture[1])
           two == LiteSuite!Check(name, lite, fixture[1])
       IN  /\ d1' = one.db /\ lite' = two.db
           /\ failed' = failed \cup (IF one.ok THEN {} ELSE {<<"d1", name>>})
                               \cup (IF two.ok THEN {} ELSE {<<"sqlite", name>>})
    /\ next' = next + 1
    /\ UNCHANGED <<said, calls, fixture>>

\* The bound on calls is met, or the suite is through.
Done == (calls = MaxCalls \/ next > Len(D1Suite!Suite)) /\ UNCHANGED vars

Next ==
    \/ \E c \in Writes : Call(c)
    \/ BeginSuite
    \/ RunCheck
    \/ Done

Spec == Init /\ [][Next]_vars

-----------------------------------------------------------------------------
(* Properties                                                              *)

\* The tables as the migrations declare them: rows refer to rows that are
\* there, and what a unique index covers is held by one row.
Schema(db) ==
    /\ \A i \in DOMAIN db.thread : /\ db.thread[i].space \in DOMAIN db.space
                                   /\ db.thread[i].author \in DOMAIN db.user
    /\ \A i \in DOMAIN db.post : /\ db.post[i].thread \in DOMAIN db.thread
                                 /\ db.post[i].path # <<>> /\ db.post[i].path \in Path
    /\ \A i, j \in DOMAIN db.post :
           i # j => /\ db.post[i].pid # db.post[j].pid
                    /\ db.post[i].thread = db.post[j].thread => db.post[i].path # db.post[j].path
    /\ \A i, j \in DOMAIN db.user : i # j => db.user[i].name # db.user[j].name
    /\ \A k \in DOMAIN db.session : db.session[k].user \in DOMAIN db.user

\* What each variable holds.
TypeOK ==
    /\ Schema(d1) /\ Schema(lite)
    /\ \A i \in 1..2 : said[i].err \in Error \cup {"none"}
    /\ calls \in 0..MaxCalls
    /\ Len(fixture) <= 1
    /\ next \in 1..(Len(D1Suite!Suite) + 1)

\* Whatever calls are made, the two stores give the same answers, the errors
\* included, and hold the same rows: batches and messages on one side do
\* what transactions and result codes do on the other.
AdaptersAgree ==
    /\ said[1] = said[2]
    /\ d1 = lite
    /\ \A c \in Reads : D1Do(d1, c).res = LiteDo(lite, c).res

\* The suite that runs against both finds nothing, whatever was in the
\* database before (conformance.rs run_all).
SuitePasses == failed = {}

\* A thread's post_count, which is kept by the bump that goes with each
\* insert and never counted again, is the number of its posts.
PostCountIsRight ==
    \A i \in DOMAIN d1.thread : d1.thread[i].count = Cardinality(InThread(d1, i))

\* What a reader of a thread's pages sees, the space's own row apart.
Seen(db, i) ==
    [thread |-> [db.thread[i] EXCEPT !.version = 0],
     posts |-> {[db.post[p] EXCEPT !.md = Null] : p \in InThread(db, i)}]

TurnsOver ==
    \A i \in DOMAIN d1.thread :
        Seen(d1', i) # Seen(d1, i) => d1'.thread[i].version > d1.thread[i].version

\* No statement changes what a thread's pages show and leaves cache_version,
\* by which they are cached, as it was.
PageTurnsOver == [][TurnsOver]_vars

=============================================================================
