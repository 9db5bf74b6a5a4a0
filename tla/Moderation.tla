----------------------------- MODULE Moderation -----------------------------
(***************************************************************************)
(* The moderation pipeline and every handler that changes a post's state.  *)
(*                                                                         *)
(* A handler is a sequence of store calls with no transaction around it.   *)
(* The model keeps that shape: starting a handler performs its reads and   *)
(* leaves in plan[h] the store calls still to come; each later step        *)
(* executes the first of them, which is one statement (or one batch) of    *)
(* the database and therefore atomic.  Between two of them any other       *)
(* handler may run, unless Yielding is FALSE (see MayStep), and a handler  *)
(* may stop for good, leaving the rest of its plan undone.                 *)
(***************************************************************************)
EXTENDS Integers, Sequences, FiniteSets

CONSTANTS
    Posts,            \* the posts, numbered in the order they were created
    Users,
    Moderators,       \* the users whose role can moderate
    Author,           \* Author[p] wrote post p
    Webs,             \* request handlers in flight at once
    Consumers,        \* queue consumers
    Sweepers,         \* scheduled sweeps
    ReportThreshold,  \* distinct reporters that pull a post back
    SweepLimit,       \* posts one sweep takes
    Yielding,         \* TRUE: every store call may be interleaved (D1)
    PolicyReads,      \* what policy.enabled may read as
    Answers,          \* what the classifier and the policy may make of a post
    Ops,              \* the requests that clients make in this instance
    MaxRequests,      \* bound: requests started
    MaxFailures       \* bound: handlers that stop half way

Procs == Webs \cup Consumers \cup Sweepers

ASSUME ModerationAssumption ==
    /\ Posts \subseteq Nat /\ Posts # {}
    /\ IsFiniteSet(Posts) /\ IsFiniteSet(Users)
    /\ Moderators \subseteq Users
    /\ Author \in [Posts -> Users]
    /\ Webs \cap Consumers = {}
    /\ Webs \cap Sweepers = {}
    /\ Consumers \cap Sweepers = {}
    /\ ReportThreshold \in Nat
    /\ SweepLimit \in Nat \ {0}
    /\ Yielding \in BOOLEAN
    /\ PolicyReads \subseteq BOOLEAN
    /\ Answers \subseteq {"publish", "hide", "hold", "fail"}
    /\ MaxRequests \in Nat
    /\ MaxFailures \in Nat

VARIABLES
    \* the tables
    state,     \* post.state; "none" before the post is written
    body,      \* which text post.body_md holds: how often it was rewritten
    item,      \* review_item.state for the post; "none" without a row
    signals,   \* the users with a report row for the post
    log,       \* the kinds of action_log rows about the post
    gone,      \* users whose account was deleted
    erased,    \* users about whom the log has a delete_account row
    jobs,      \* posts announced on the queue and not acknowledged
    \* the handlers
    run,       \* per handler: the calls still to come and what it knows
    work,      \* posts a sweep has listed and not yet taken
    requests, failures,
    \* history, read by the properties and by no action
    changed,   \* the log rows that past state changes call for
    by,        \* the kind of actor that set the present state
    caught,    \* whether Tier 0 gave a reason to hold the present text, and
               \* nobody else was about the post while it was written
    passed,    \* how the present text fared when the state was last set
    decision,  \* the state a person put the post in, while it stands
    decisions  \* how many reviewers resolved the present opening of the item

tables  == <<state, body, item, signals, log, gone, erased, jobs>>
history == <<changed, by, caught, passed, decision, decisions>>
vars    == <<tables, run, work, requests, failures, history>>

PostState == {"none", "visible", "pending", "hidden", "deleted"}
ItemState == {"none", "open", "resolved"}
ActorKind == {"rule", "model", "system", "user"}
Action    == {"hold", "classify", "classify_failed", "publish", "hide",
              "approve", "reject", "restore", "delete", "edit", "report",
              "appeal", "delete_account"}
\* The text was not read; it was read, by the model or a person; moderation
\* was off, and nobody reads.
Fate      == {"unread", "read", "released"}
Row       == [who : ActorKind, act : Action]
Call      == {"set", "log", "open", "enqueue", "ack", "classify", "resolve",
              "report", "count", "insert", "body", "forget", "sessions",
              "tombstone", "record"}
Statement == [do : Call, who : ActorKind, act : Action, to : PostState]
View      == [state : PostState, body : Nat]
Run       == [plan : Seq(Statement), post : Posts, seen : View, user : Users]

-----------------------------------------------------------------------------
(* Store calls as data, and the handlers as sequences of them.             *)

Set(who, act, to) == [do |-> "set", who |-> who, act |-> act, to |-> to]
Log(who, act)     == [do |-> "log", who |-> who, act |-> act, to |-> "none"]
Do(call)          == [do |-> call, who |-> "system", act |-> "hold", to |-> "none"]
\* The text of a write or an edit; to = "pending" when Tier 0 caught it.
Text(call, to)    == [do |-> call, who |-> "user", act |-> "edit", to |-> to]

\* hold: a post held by Tier 0 is logged, then announced.
Hold == <<Log("rule", "hold"), Do("enqueue")>>

\* Mutant of Verdict: the verdict is applied, then logged.
VerdictAppliedFirst(answer) ==
    IF answer = "publish" THEN <<Set("model", "publish", "visible"),
                                 Log("model", "classify"),
                                 Log("model", "publish")>>
    ELSE IF answer = "hide" THEN <<Set("model", "hide", "hidden"),
                                   Log("model", "classify"),
                                   Log("model", "hide"), Do("open")>>
    ELSE IF answer = "hold" THEN <<Log("model", "classify"), Do("open")>>
    ELSE <<Log("system", "classify_failed"), Do("open")>>

\* Mutant of Verdict: a hide is not put before a person.
VerdictUnqueued(answer) ==
    IF answer = "publish" THEN <<Log("model", "classify"),
                                 Set("model", "publish", "visible"),
                                 Log("model", "publish")>>
    ELSE IF answer = "hide" THEN <<Log("model", "classify"),
                                   Set("model", "hide", "hidden"),
                                   Log("model", "hide")>>
    ELSE IF answer = "hold" THEN <<Log("model", "classify"), Do("open")>>
    ELSE <<Log("system", "classify_failed"), Do("open")>>

\* process_post once the classifier has answered, or failed to.
Verdict(answer) ==
    IF answer = "publish" THEN <<Log("model", "classify"),
                                 Set("model", "publish", "visible"),
                                 Log("model", "publish")>>
    ELSE IF answer = "hide" THEN <<Log("model", "classify"),
                                   Set("model", "hide", "hidden"),
                                   Log("model", "hide"), Do("open")>>
    ELSE IF answer = "hold" THEN <<Log("model", "classify"), Do("open")>>
    ELSE <<Log("system", "classify_failed"), Do("open")>>

\* process_post with moderation off: nobody looks, the post goes out.
Release == <<Set("system", "publish", "visible"), Log("system", "publish")>>

\* Mutant of Recall: the hold has no row of its own.
RecallUnlogged == <<Set("rule", "hold", "pending"), Do("open"), Do("enqueue")>>

\* report, once the threshold is crossed.
Recall == <<Set("rule", "hold", "pending"), Log("rule", "hold"),
            Do("open"), Do("enqueue")>>

\* Mutant of Decide: writes a state that the schema does not have.
DecideRejected(to) ==
    <<Set("user", "reject", "rejected"), Log("user", "reject")>>

\* Mutant of Decide: an approval is not logged.
DecideUnlogged(to) ==
    IF to = "visible" THEN <<Set("user", "approve", to)>>
    ELSE <<Set("user", "reject", to), Log("user", "reject")>>

\* review, once the item is resolved.
Decide(to) == IF to = "visible"
              THEN <<Set("user", "approve", to), Log("user", "approve")>>
              ELSE <<Set("user", "reject", to), Log("user", "reject")>>

\* The name admin::set_post_state logs for a state.
ActionFor(to) == IF to = "visible" THEN "restore"
                 ELSE IF to = "pending" THEN "hold"
                 ELSE IF to = "hidden" THEN "hide" ELSE "delete"

-----------------------------------------------------------------------------
Nowhere == [state |-> "none", body |-> 0]
Idle == [plan |-> <<>>, post |-> CHOOSE p \in Posts : TRUE,
         seen |-> Nowhere, user |-> CHOOSE u \in Users : TRUE]

Busy(h) == run[h].plan # <<>>
NextCall(h) == Head(run[h].plan)

\* Where a handler gives way to others even on one thread with a blocking
\* store: while the model is asked, and while a moderator reads the queue page.
Paused(h) == Busy(h) /\ NextCall(h).do \in {"classify", "resolve"}

\* With Yielding every store call may be interleaved with any other handler
\* (isolates over D1); without, a handler runs until it pauses or ends.
MayRun(h) == Yielding \/ \A g \in Procs \ {h} : Busy(g) => Paused(g)

Seen(p) == [state |-> state[p], body |-> body[p]]

Start(h, p, u, plan) ==
    run' = [run EXCEPT ![h] = IF plan = <<>> THEN Idle
              ELSE [plan |-> plan, post |-> p, seen |-> Seen(p), user |-> u]]

\* The handler goes on with plan; what it knows stays as it was read.
Continue(h, plan) ==
    run' = [run EXCEPT ![h] = IF plan = <<>> THEN Idle
                              ELSE [@ EXCEPT !.plan = plan]]

Rest(h) == Tail(run[h].plan)

\* h is about to make the store call named call.
At(h, call) == Busy(h) /\ NextCall(h).do = call /\ MayRun(h)

Init ==
    /\ state = [p \in Posts |-> "none"]
    /\ body = [p \in Posts |-> 0]
    /\ item = [p \in Posts |-> "none"]
    /\ signals = [p \in Posts |-> {}]
    /\ log = [p \in Posts |-> {}]
    /\ gone = {}
    /\ erased = {}
    /\ jobs = {}
    /\ run = [h \in Procs |-> Idle]
    /\ work = [h \in Sweepers |-> {}]
    /\ requests = 0
    /\ failures = 0
    /\ changed = [p \in Posts |-> {}]
    /\ by = [p \in Posts |-> "user"]
    /\ caught = [p \in Posts |-> FALSE]
    /\ passed = [p \in Posts |-> "unread"]
    /\ decision = [p \in Posts |-> "none"]
    /\ decisions = [p \in Posts |-> 0]

-----------------------------------------------------------------------------
(* Requests.  Each performs its handler's reads and checks.                *)

Request(h, op, u) ==
    /\ h \in Webs /\ ~Busy(h) /\ MayRun(h)
    /\ op \in Ops /\ u \notin gone
    /\ requests < MaxRequests
    /\ requests' = requests + 1
    /\ UNCHANGED <<tables, work, failures, history>>

\* Tier 0 may hold what a member writes; moderators skip it.
Triaged(p) == IF Author[p] \in Moderators \/ TRUE \notin PolicyReads
              THEN {"visible"} ELSE {"visible", "pending"}

\* reply::post and compose::create, as far as this post is concerned.
Write(h, p) ==
    /\ Request(h, "write", Author[p])
    /\ state[p] = "none"
    /\ \A q \in Posts : q < p => state[q] # "none"
    /\ \A g \in Procs : Busy(g) => run[g].post # p
    /\ \E to \in Triaged(p) :
         Start(h, p, Author[p], <<Text("insert", to)>> \o
               IF to = "pending" THEN Hold ELSE <<>>)

\* Mutant of Edit: what is public stays public.
EditUnheld(h, p) ==
    /\ Request(h, "edit", Author[p])
    /\ state[p] \in {"visible", "pending"}
    /\ \E to \in Triaged(p) :
         Start(h, p, Author[p], <<Text("body", to), Log("user", "edit")>>)

Edit(h, p) ==
    /\ Request(h, "edit", Author[p])
    /\ state[p] \in {"visible", "pending"}
    /\ \E to \in Triaged(p) :
         Start(h, p, Author[p], <<Text("body", to), Log("user", "edit")>> \o
               IF to = "pending" /\ state[p] = "visible"
               THEN <<Set("rule", "hold", "pending")>> \o Hold ELSE <<>>)

Delete(h, p, u) ==
    /\ Request(h, "delete", u)
    /\ u = Author[p] \/ u \in Moderators
    /\ state[p] \notin {"none", "deleted"}
    /\ Start(h, p, u, <<Set("user", "delete", "deleted"), Log("user", "delete")>>)

Report(h, p, u) ==
    /\ Request(h, "report", u)
    /\ u # Author[p]
    /\ state[p] \notin {"none", "deleted"}
    /\ Start(h, p, u, <<Do("report")>>)

\* A moderator reads the queue page now and presses a button on it later.
Review(h, p, u, to) ==
    /\ Request(h, "review", u)
    /\ u \in Moderators
    /\ item[p] = "open"
    /\ to \in {"visible", "hidden"}
    /\ Start(h, p, u, <<[Do("resolve") EXCEPT !.to = to]>>)

Appeal(h, p) ==
    /\ Request(h, "appeal", Author[p])
    /\ state[p] = "hidden"
    /\ Start(h, p, Author[p], <<Do("open"), Log("user", "appeal")>>)

\* admin::set_post_state
SetState(h, p, u, to) ==
    /\ Request(h, "moderate", u)
    /\ u \in Moderators
    /\ to \in PostState \ {"none", state[p]}
    /\ state[p] # "none"
    /\ Start(h, p, u, <<Set("user", ActionFor(to), to), Log("user", ActionFor(to))>>)

\* admin::set_user_state with Deleted, as far as posts are concerned.  Only
\* an admin may act against a moderator, and no user here is one.
DeleteAccount(h, p, u) ==
    /\ Request(h, "account", u)
    /\ u \in Moderators /\ u # Author[p] /\ Author[p] \notin gone
    /\ Author[p] \notin Moderators
    /\ Start(h, p, u, <<Do("forget"), Do("sessions"),
                      Do("tombstone"), Do("record")>>)

-----------------------------------------------------------------------------
(* The automation.                                                         *)

\* Only a queue consumer has a message to acknowledge.
AckOf(h) == IF h \in Consumers THEN <<Do("ack")>> ELSE <<>>

\* process_post: the read, the state check and the policy check.
Process(h, p) ==
    \E enabled \in PolicyReads :
        Start(h, p, Author[p],
              (IF state[p] # "pending" THEN <<>>
               ELSE IF enabled THEN <<Do("classify")>> ELSE Release)
              \o AckOf(h))

Deliver(h, p) ==
    /\ h \in Consumers /\ ~Busy(h) /\ MayRun(h)
    /\ p \in jobs
    /\ Process(h, p)
    /\ UNCHANGED <<tables, work, requests, failures, history>>

\* Mutant of Unattended: any review row at all keeps the sweep away.
UnattendedOnce == {p \in Posts : state[p] = "pending" /\ item[p] = "none"}

\* pending_posts: pending, and not already waiting for a person.
Unattended == {p \in Posts : state[p] = "pending" /\ item[p] # "open"}

Oldest(n, S) == {p \in S : Cardinality({q \in S : q < p}) < n}

Sweep(h) ==
    /\ h \in Sweepers /\ ~Busy(h) /\ work[h] = {} /\ MayRun(h)
    /\ Unattended # {}
    /\ work' = [work EXCEPT ![h] = Oldest(SweepLimit, Unattended)]
    /\ UNCHANGED <<tables, run, requests, failures, history>>

SweepNext(h) ==
    /\ h \in Sweepers /\ ~Busy(h) /\ MayRun(h)
    /\ \E p \in Oldest(1, work[h]) :
         /\ Process(h, p)
         /\ work' = [work EXCEPT ![h] = @ \ {p}]
    /\ UNCHANGED <<tables, requests, failures, history>>

\* The model answers, or fails to; policy.decide is part of the answer.
ClassifierAnswers(h) ==
    /\ At(h, "classify")
    /\ \E answer \in Answers : Continue(h, Verdict(answer) \o Rest(h))
    /\ UNCHANGED <<tables, work, requests, failures, history>>

-----------------------------------------------------------------------------
(* Store calls.                                                            *)

quiet == <<work, requests, failures>>

InsertPost(h) ==
    /\ At(h, "insert")
    /\ LET p == run[h].post IN
         /\ state' = [state EXCEPT ![p] = NextCall(h).to]
         /\ caught' = [caught EXCEPT ![p] = NextCall(h).to = "pending"]
    /\ Continue(h, Rest(h))
    /\ UNCHANGED <<body, item, signals, log, gone, erased, jobs, quiet,
                   changed, by, passed, decision, decisions>>

SetPostState(h) ==
    /\ At(h, "set")
    /\ LET p == run[h].post
           s == NextCall(h) IN
         /\ state' = [state EXCEPT ![p] = s.to]
         /\ changed' = [changed EXCEPT ![p] = @ \cup {[who |-> s.who, act |-> s.act]}]
         /\ by' = [by EXCEPT ![p] = s.who]
         /\ passed' = [passed EXCEPT ![p] = IF run[h].seen.body # body[p] THEN "unread"
                                             ELSE IF s.who = "system" THEN "released"
                                             ELSE "read"]
         /\ decision' = [decision EXCEPT ![p] =
                IF s.who # "user" THEN @
                ELSE IF s.to = "pending" THEN "none" ELSE s.to]
    /\ Continue(h, Rest(h))
    /\ UNCHANGED <<body, item, signals, log, gone, erased, jobs, quiet, caught, decisions>>

LogAction(h) ==
    /\ At(h, "log")
    /\ log' = [log EXCEPT ![run[h].post] =
                 @ \cup {[who |-> NextCall(h).who, act |-> NextCall(h).act]}]
    /\ Continue(h, Rest(h))
    /\ UNCHANGED <<state, body, item, signals, gone, erased, jobs, quiet, history>>

\* One row per post: a second opening reopens the item.
OpenReview(h) ==
    /\ At(h, "open")
    /\ item' = [item EXCEPT ![run[h].post] = "open"]
    /\ decisions' = [decisions EXCEPT ![run[h].post] = 0]
    /\ Continue(h, Rest(h))
    /\ UNCHANGED <<state, body, signals, log, gone, erased, jobs, quiet,
                   changed, by, caught, passed, decision>>

\* Mutant of Resolvable: the update is not conditional on the state.
ResolvableAgain(p) == item[p] # "none"

\* The WHERE of RESOLVE_REVIEW.
Resolvable(p) == item[p] = "open"

\* The second of two reviewers is told that the item is gone.
ResolveReview(h) ==
    /\ At(h, "resolve")
    /\ LET p == run[h].post IN
         \/ /\ Resolvable(p)
            /\ item' = [item EXCEPT ![p] = "resolved"]
            /\ decisions' = [decisions EXCEPT ![p] = @ + 1]
            /\ Continue(h, Decide(NextCall(h).to))
         \/ /\ ~Resolvable(p)
            /\ Continue(h, <<>>)
            /\ UNCHANGED <<item, decisions>>
    /\ UNCHANGED <<state, body, signals, log, gone, erased, jobs, quiet,
                   changed, by, caught, passed, decision>>

\* add_report, first statement: INSERT OR IGNORE.
AddReport(h) ==
    /\ At(h, "report")
    /\ LET p == run[h].post
           u == run[h].user IN
         /\ signals' = [signals EXCEPT ![p] = @ \cup {u}]
         /\ Continue(h, IF u \in signals[p] THEN <<>> ELSE <<Do("count")>>)
    /\ UNCHANGED <<state, body, item, log, gone, erased, jobs, quiet, history>>

\* Mutant of Tips: only past the threshold.
TipsLate(h, standing) ==
    /\ run[h].seen.state = "visible"
    /\ standing > ReportThreshold

\* The reports standing pull the post back, if it was visible when read.
Tips(h, standing) ==
    /\ run[h].seen.state = "visible"
    /\ standing >= ReportThreshold /\ standing >= 1

\* add_report, second statement; then report compares what it had read.
CountReports(h) ==
    /\ At(h, "count")
    /\ LET standing == Cardinality(signals[run[h].post]) IN
         Continue(h, <<Log("user", "report")>> \o
                     IF Tips(h, standing) THEN Recall ELSE <<>>)
    /\ UNCHANGED <<tables, quiet, history>>

\* The post is as h read it, and nobody else is about to do anything to it.
Undisturbed(h, p) ==
    /\ state[p] = run[h].seen.state
    /\ \A g \in Procs \ {h} : Busy(g) => run[g].post # p

UpdatePostBody(h) ==
    /\ At(h, "body")
    /\ LET p == run[h].post IN
         /\ body' = [body EXCEPT ![p] = @ + 1]
         /\ caught' = [caught EXCEPT ![p] = NextCall(h).to = "pending" /\ Undisturbed(h, p)]
         /\ passed' = [passed EXCEPT ![p] = "unread"]
         /\ decision' = [decision EXCEPT ![p] = "none"]
    /\ Continue(h, Rest(h))
    /\ UNCHANGED <<state, item, signals, log, gone, erased, jobs, quiet,
                   changed, by, decisions>>

\* The enqueue may fail; nobody looks at the result.
EnqueueJob(h) ==
    /\ At(h, "enqueue")
    /\ jobs' \in {jobs, jobs \cup {run[h].post}}
    /\ Continue(h, Rest(h))
    /\ UNCHANGED <<state, body, item, signals, log, gone, erased, quiet, history>>

\* At least once: an acknowledged message may still be delivered again.
Acknowledge(h) ==
    /\ At(h, "ack")
    /\ jobs' \in {jobs, jobs \ {run[h].post}}
    /\ Continue(h, Rest(h))
    /\ UNCHANGED <<state, body, item, signals, log, gone, erased, quiet, history>>

SetUserState(h) ==
    /\ At(h, "forget")
    /\ gone' = gone \cup {Author[run[h].post]}
    /\ Continue(h, Rest(h))
    /\ UNCHANGED <<state, body, item, signals, log, erased, jobs, quiet, history>>

\* No table here has sessions: those of a reader are in Accounts and Browser.
DeleteUserSessions(h) ==
    /\ At(h, "sessions")
    /\ Continue(h, Rest(h))
    /\ UNCHANGED <<tables, quiet, history>>

\* The row that stands for all of these changes is the account's.
Deletion == [who |-> "user", act |-> "delete_account"]

TombstoneUserPosts(h) ==
    /\ At(h, "tombstone")
    /\ LET hit == {p \in Posts : /\ Author[p] = Author[run[h].post]
                                 /\ state[p] \notin {"none", "deleted"}} IN
         /\ state' = [p \in Posts |-> IF p \in hit THEN "deleted" ELSE state[p]]
         /\ changed' = [p \in Posts |-> IF p \in hit THEN changed[p] \cup {Deletion}
                                        ELSE changed[p]]
         /\ by' = [p \in Posts |-> IF p \in hit THEN "user" ELSE by[p]]
         /\ decision' = [p \in Posts |-> IF p \in hit THEN "deleted" ELSE decision[p]]
    /\ Continue(h, Rest(h))
    /\ UNCHANGED <<body, item, signals, log, gone, erased, jobs, quiet,
                   caught, passed, decisions>>

\* The closing log_action of set_user_state, about the user.
RecordDeletion(h) ==
    /\ At(h, "record")
    /\ erased' = erased \cup {Author[run[h].post]}
    /\ Continue(h, Rest(h))
    /\ UNCHANGED <<state, body, item, signals, log, gone, jobs, quiet, history>>

-----------------------------------------------------------------------------
(* Failures.                                                               *)

\* A store error ends the handler, a killed isolate ends the sweep as well;
\* a message being processed is not acknowledged.
Fail(h) ==
    /\ Busy(h) /\ failures < MaxFailures
    /\ failures' = failures + 1
    /\ Continue(h, <<>>)
    /\ IF h \in Sweepers
       THEN \E left \in {work[h], {}} : work' = [work EXCEPT ![h] = left]
       ELSE UNCHANGED work
    /\ UNCHANGED <<tables, requests, history>>

\* A message is lost: a restart empties the native channel, and the platform
\* queue gives up on a message after its retries.
LoseJob(p) ==
    /\ p \in jobs
    /\ jobs' = jobs \ {p}
    /\ UNCHANGED <<state, body, item, signals, log, gone, erased, run, quiet, history>>

-----------------------------------------------------------------------------
Step(h) ==
    \/ ClassifierAnswers(h) \/ InsertPost(h) \/ SetPostState(h) \/ LogAction(h)
    \/ OpenReview(h) \/ ResolveReview(h) \/ AddReport(h) \/ CountReports(h)
    \/ UpdatePostBody(h) \/ EnqueueJob(h) \/ Acknowledge(h)
    \/ SetUserState(h) \/ DeleteUserSessions(h) \/ TombstoneUserPosts(h)
    \/ RecordDeletion(h)

WebRequest(h) ==
    \E p \in Posts :
        \/ Write(h, p) \/ Edit(h, p) \/ Appeal(h, p)
        \/ \E u \in Users : \/ Delete(h, p, u) \/ Report(h, p, u)
                            \/ DeleteAccount(h, p, u)
                            \/ \E to \in PostState : \/ Review(h, p, u, to)
                                                     \/ SetState(h, p, u, to)

Next ==
    \/ \E h \in Webs : WebRequest(h)
    \/ \E h \in Consumers, p \in Posts : Deliver(h, p)
    \/ \E h \in Sweepers : Sweep(h) \/ SweepNext(h)
    \/ \E h \in Procs : Step(h) \/ Fail(h)
    \/ \E p \in Posts : LoseJob(p)

Spec == Init /\ [][Next]_vars

\* A started handler runs on unless it fails, and the timer keeps firing.
\* Nothing is assumed of clients, of moderators or of the queue.
FairSpec ==
    /\ Spec
    /\ \A h \in Procs : WF_vars(Step(h))
    /\ \A h \in Sweepers : WF_vars(Sweep(h)) /\ WF_vars(SweepNext(h))

-----------------------------------------------------------------------------
(* Properties.                                                             *)

TypeOK ==
    /\ state \in [Posts -> PostState]
    /\ body \in [Posts -> Nat]
    /\ item \in [Posts -> ItemState]
    /\ signals \in [Posts -> SUBSET Users]
    /\ log \in [Posts -> SUBSET Row]
    /\ gone \subseteq Users /\ erased \subseteq Users
    /\ jobs \subseteq Posts
    /\ run \in [Procs -> Run]
    /\ work \in [Sweepers -> SUBSET Posts]
    /\ requests \in 0..MaxRequests
    /\ failures \in 0..MaxFailures
    /\ changed \in [Posts -> SUBSET Row]
    /\ by \in [Posts -> ActorKind]
    /\ caught \in [Posts -> BOOLEAN]
    /\ passed \in [Posts -> Fate]
    /\ decision \in [Posts -> PostState]
    /\ decisions \in [Posts -> Nat]

\* No handler is in the middle of something about p's author's posts.
Settled(p) == \A h \in Procs : Busy(h) => Author[run[h].post] # Author[p]

\* pipeline.rs: "the model's output is never applied without being logged
\* first".  Whatever the interleaving, and wherever a handler stops, a post
\* the model published or hid has a classify row in its log.
ModelLoggedFirst ==
    \A p \in Posts :
        (\E r \in changed[p] : r.who = "model")
            => [who |-> "model", act |-> "classify"] \in log[p]

\* The rows of the log that speak of p: its own, and its author's deletion.
RowsOn(p) == log[p] \cup IF Author[p] \in erased THEN {Deletion} ELSE {}

\* The changes that no row speaks of and nobody is about to log, each with
\* what it is a change of: the post, or the account whose posts went with it.
Target(p, r) == IF r = Deletion THEN Author[p] ELSE p
Unlogged == UNION {{<<Target(p, r), r>> : r \in changed[p] \ RowsOn(p)} :
                       p \in {q \in Posts : Settled(q)}}

\* pipeline.rs: "a post's state only changes alongside an action-log row
\* saying who changed it".  The row is the next statement, so that a handler
\* which stops in between leaves a change without one.  It leaves no more than
\* that one, and as long as none stops every kind of change has its row once
\* the handlers have ended, however they interleave.
EveryChangeLogged == Cardinality(Unlogged) <= failures

\* store.rs, resolve_review: "two moderators clicking at once produce one
\* action".  One opening of an item is resolved by one reviewer.
OneDecisionPerOpening == \A p \in Posts : decisions[p] <= 1

\* DESIGN.md: the model may "auto-hide pending review".  A post whose present
\* state is the model's hide has an open item for a person to confirm it.
ModelHideIsQueued ==
    \A p \in Posts :
        (Settled(p) /\ state[p] = "hidden" /\ by[p] = "model") => item[p] = "open"

\* report: reporters arriving together cannot all miss the threshold, though
\* each inserts and counts in separate statements.  A post that was visible
\* all along stands with fewer reports than the threshold.
ThresholdNeverMissed ==
    \A p \in Posts :
        (Settled(p) /\ state[p] = "visible" /\ changed[p] = {})
            => Cardinality(signals[p]) < ReportThreshold

\* pipeline.rs: "a human decision is final for that item -- nothing automatic
\* reopens or reverses it".  The state a person put a post in stays until a
\* person acts on the post again.
HumanDecisionFinal ==
    \A p \in Posts : decision[p] # "none" => state[p] = decision[p]

\* Text that Tier 0 caught on a write or an edit goes public only by the hand
\* of a handler that had that very text before it: the model's or a moderator's,
\* who read it, or one that found moderation off, when "nobody looks; it goes
\* out" (layers.rs, edit.rs, pipeline.rs); never on the word of a handler that
\* read an older text.  It is so as long as the edit overlaps nothing else
\* about the post: one that does may come after the model has read the older
\* text.  A moderator who restores a post is taken to know the text it has
\* when the request arrives.
CaughtTextIsRead ==
    \A p \in Posts :
        (Settled(p) /\ state[p] = "visible" /\ caught[p]) => passed[p] # "unread"

\* DESIGN.md: "a pending post with no open review item is work, wherever the
\* message went".  It is published, hidden, deleted or put before a person.
NothingStranded ==
    \A p \in Posts :
        (state[p] = "pending") ~> (state[p] # "pending" \/ item[p] = "open")
=============================================================================
