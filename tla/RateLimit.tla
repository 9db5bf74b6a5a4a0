----------------------------- MODULE RateLimit ------------------------------
(***************************************************************************)
(* The attempt counters that stand before logins, replies, threads,        *)
(* signups and password resets.  A request reads its counters in one       *)
(* statement, is refused by what it read or goes ahead, and writes the     *)
(* values it computed from what it read in later statements, each of which *)
(* is one step: requests at once overwrite each other's counts.            *)
(*                                                                         *)
(* What a request is for is in the other modules.  Here it is good or not: *)
(* a login with the right password, a post that is accepted, a signup      *)
(* whose name is still free when the account is created.                   *)
(***************************************************************************)
EXTENDS Integers, Sequences, FiniteSets

CONSTANTS
    Members,      \* whose names, author ids and addresses they are
    Clients,      \* network addresses
    Typed,        \* bound: the texts that are typed as the name of a login
    Limits,       \* per kind of request, its own limit and the client's
    Second,       \* clock ticks to a second
    Webs,         \* request handlers in flight at once
    MaxTime,      \* bound: the last tick of the clock
    MaxRequests,  \* bound: requests started
    MaxFailures   \* bound: handlers that stop half way

Kind  == {"login", "reply", "thread", "signup", "reset"}
Limit == [max : Nat \ {0}, window : Nat \ {0}]

\* AttemptKeys: a row is kept under "id:" and a text, or under "ip:" and an
\* address.  The text is a username, an author's number, "thread:" and that
\* number, or "reset:" and an address.
Identity == {"name", "reply", "thread", "reset"} \X Members
ClientKey(client) == <<"ip", client>>
Key == Identity \cup ({"ip"} \X Clients)

ASSUME RateLimitAssumption ==
    /\ Limits \in [Kind -> [own : Limit, client : Limit]]
    /\ Typed \subseteq Identity
    /\ Second \in Nat \ {0}
    /\ MaxTime \in Nat
    /\ MaxRequests \in Nat
    /\ MaxFailures \in Nat

VARIABLES
    attempts,  \* login_attempt: the count of each key and its window's start
    now,       \* the clock
    run,       \* per handler: the statements still to come
    requests, failures,
    \* history, read by the properties and by no action
    tries,     \* per key: the requests that count, in the order they began
    cleared,   \* per key: how many of them were there when it was last cleared
    raced      \* the keys of requests that overlapped, or that stopped half way

history == <<tries, cleared, raced>>
vars    == <<attempts, now, run, requests, failures, history>>

\* A login is counted under whatever was typed as the name, which can be the
\* text of another request's row.  A signup reads a row that nothing but such
\* a login writes, and goes by the client's alone.
Ids(kind) == IF kind = "login" THEN Typed
             ELSE {IF kind = "signup" THEN "name" ELSE kind} \X Members

\* A name that an account can have: a username has a letter in it, and no colon.
Username == {"name"} \X Members

\* The limit a request of this kind goes by on a row.
LimitOn(k, kind) == IF k \in Identity THEN Limits[kind].own ELSE Limits[kind].client

Attempts  == [start : Nat, count : Nat]
NoRow     == [start |-> 0, count |-> 0]
Statement == [do : {"record", "clear"}, key : Key, value : Attempts]
Try       == [at : Nat, kind : Kind]

Init ==
    /\ attempts = [k \in Key |-> NoRow]
    /\ now = 0
    /\ run = [h \in Webs |-> <<>>]
    /\ requests = 0
    /\ failures = 0
    /\ tries = [k \in Key |-> <<>>]
    /\ cleared = [k \in Key |-> 0]
    /\ raced = {}

-----------------------------------------------------------------------------
(* Limit::check                                                            *)

\* Mutant of First: the window starts a second early.
FirstEarly(at) == [start |-> at - Second, count |-> 1]

First(at) == [start |-> at, count |-> 1]

InWindow(limit, row, at) == at - row.start < limit.window

Denies(limit, row, at) ==
    row # NoRow /\ InWindow(limit, row, at) /\ row.count >= limit.max

\* Mutant of Counted: a new window goes on counting where the old one was.
CountedOn(limit, row, at) ==
    IF row # NoRow /\ InWindow(limit, row, at)
    THEN [row EXCEPT !.count = @ + 1]
    ELSE [start |-> at, count |-> row.count + 1]

\* What an allowed attempt writes.
Counted(limit, row, at) ==
    IF row # NoRow /\ InWindow(limit, row, at)
    THEN [row EXCEPT !.count = @ + 1]
    ELSE First(at)

\* Mutant of RetryAfter: rounded down.
RetryAfterDown(limit, row, at) ==
    (row.start + limit.window - at) \div Second

\* retry_after_secs: whole seconds, rounded up.
RetryAfter(limit, row, at) ==
    (row.start + limit.window - at + Second - 1) \div Second

\* The counters a request has to pass: its own, which a signup has not, and
\* its client's.
Buckets(kind, id, client) ==
    LET keys == IF kind = "signup" THEN {ClientKey(client)} ELSE {id, ClientKey(client)}
    IN  {[key |-> k, limit |-> LimitOn(k, kind)] : k \in keys}

\* Mutant of Refusing: only both counters together refuse.
RefusingBoth(kind, id, client) ==
    IF \A b \in Buckets(kind, id, client) : Denies(b.limit, attempts[b.key], now)
    THEN Buckets(kind, id, client) ELSE {}

Refusing(kind, id, client) ==
    {b \in Buckets(kind, id, client) : Denies(b.limit, attempts[b.key], now)}

\* The longer of the two waits.
Wait(kind, id, client) ==
    CHOOSE w \in {RetryAfter(b.limit, attempts[b.key], now) : b \in Refusing(kind, id, client)} :
        \A b \in Refusing(kind, id, client) : w >= RetryAfter(b.limit, attempts[b.key], now)

-----------------------------------------------------------------------------
(* The handlers                                                            *)

Record(key, limit) ==
    [do |-> "record", key |-> key, value |-> Counted(limit, attempts[key], now)]
Clear(key) == [do |-> "clear", key |-> key, value |-> NoRow]

RecordOn(k, kind) == Record(k, LimitOn(k, kind))
RecordBoth(kind, id, client) == <<RecordOn(id, kind), RecordOn(ClientKey(client), kind)>>

\* login: only failures count, and a success clears both counters.
LoginCalls(id, client, good) ==
    IF good THEN <<Clear(id), Clear(ClientKey(client))>>
            ELSE RecordBoth("login", id, client)

Keys(plan) == {plan[i].key : i \in DOMAIN plan}
Counts(plan, k) == \E i \in DOMAIN plan : plan[i].key = k /\ plan[i].do = "record"

\* A request that none of its counters refuses, and the statements it has
\* yet to make.
Admit(h, kind, id, client, plan) ==
    /\ run[h] = <<>>
    /\ requests < MaxRequests
    /\ Refusing(kind, id, client) = {}
    /\ requests' = requests + 1
    /\ run' = [run EXCEPT ![h] = plan]
    /\ tries' = [k \in Key |-> IF Counts(plan, k)
                               THEN Append(tries[k], [at |-> now, kind |-> kind])
                               ELSE tries[k]]
    /\ raced' = raced \cup {k \in Keys(plan) : \E g \in Webs \ {h} : k \in Keys(run[g])}
    /\ UNCHANGED <<attempts, now, failures, cleared>>

Login(h, id, client, good) ==
    /\ good => id \in Username
    /\ Admit(h, "login", id, client, LoginCalls(id, client, good))

\* reply::post and compose::create: what was written counts.
Write(h, kind, id, client, good) ==
    Admit(h, kind, id, client, IF good THEN RecordBoth(kind, id, client) ELSE <<>>)

\* signup: a name that is taken counts, one that is lost to a race does not.
Signup(h, id, client, good) ==
    Admit(h, "signup", id, client, IF good THEN <<RecordOn(ClientKey(client), "signup")>> ELSE <<>>)

\* request_reset: counted whether or not mail goes.
RequestReset(h, id, client) ==
    Admit(h, "reset", id, client, RecordBoth("reset", id, client))

\* A refused request has read its counters and writes nothing.
Refuse(h, kind, id, client) ==
    /\ run[h] = <<>>
    /\ requests < MaxRequests
    /\ Refusing(kind, id, client) # {}
    /\ requests' = requests + 1
    /\ UNCHANGED <<attempts, now, run, failures, history>>

At(h, call) == run[h] # <<>> /\ Head(run[h]).do = call
Advance(h)  == run' = [run EXCEPT ![h] = Tail(@)]

\* record_login_attempt writes whatever the row is by now.
RecordAttempt(h) ==
    /\ At(h, "record")
    /\ attempts' = [attempts EXCEPT ![Head(run[h]).key] = Head(run[h]).value]
    /\ Advance(h)
    /\ UNCHANGED <<now, requests, failures, history>>

ClearAttempts(h) ==
    /\ At(h, "clear")
    /\ LET k == Head(run[h]).key IN
       /\ attempts' = [attempts EXCEPT ![k] = NoRow]
       /\ cleared' = [cleared EXCEPT ![k] = Len(tries[k])]
    /\ Advance(h)
    /\ UNCHANGED <<now, requests, failures, tries, raced>>

\* A statement failed, or the request was cut off.
Fail(h) ==
    /\ run[h] # <<>>
    /\ failures < MaxFailures
    /\ failures' = failures + 1
    /\ run' = [run EXCEPT ![h] = <<>>]
    /\ raced' = raced \cup Keys(run[h])
    /\ UNCHANGED <<attempts, now, requests, tries, cleared>>

Tick ==
    /\ now < MaxTime
    /\ now' = now + 1
    /\ UNCHANGED <<attempts, run, requests, failures, history>>

Next ==
    \/ \E h \in Webs :
        \/ \E client \in Clients, good \in BOOLEAN :
            \/ \E id \in Ids("login") : Login(h, id, client, good)
            \/ \E kind \in {"reply", "thread"} : \E id \in Ids(kind) :
                   Write(h, kind, id, client, good)
            \/ \E id \in Ids("signup") : Signup(h, id, client, good)
        \/ \E client \in Clients :
            \/ \E id \in Ids("reset") : RequestReset(h, id, client)
            \/ \E kind \in Kind : \E id \in Ids(kind) : Refuse(h, kind, id, client)
        \/ RecordAttempt(h) \/ ClearAttempts(h) \/ Fail(h)
    \/ Tick

Spec == Init /\ [][Next]_vars

-----------------------------------------------------------------------------
(* Properties                                                              *)

TypeOK ==
    /\ attempts \in [Key -> Attempts]
    /\ now \in 0..MaxTime
    /\ run \in [Webs -> Seq(Statement)]
    /\ requests \in 0..MaxRequests
    /\ failures \in 0..MaxFailures
    /\ tries \in [Key -> Seq(Try)]
    /\ cleared \in [Key -> Nat]
    /\ raced \subseteq Key

\* Every refusal has been earned, on the counter that refuses: it follows at
\* least as many requests counted there as the limit allows, all of them begun
\* within the limit's window, however the writes of requests at once overwrote
\* each other, and whatever a success cleared in between.  Who made them is
\* not said: an author's replies are counted with the logins that typed the
\* author's number as a name, and both are refused by the same count
\* (Limit::check; the stale writes of login.rs, reply.rs, compose.rs,
\* register.rs and account.rs).
RefusalsAreCounted ==
    \A kind \in Kind : \A id \in Ids(kind), client \in Clients :
        \A b \in Refusing(kind, id, client) :
            LET s == tries[b.key]
                first == Len(s) - b.limit.max + 1
            IN  first >= 1 /\ now - s[first].at < b.limit.window

\* One request at a time is held to the limit: as long as the requests of a
\* row do not overlap and none is cut off, and from one success to the next,
\* a stretch of time as long as the window sees at most twice the limit of
\* them, which is what ratelimit.rs says of a window that is fixed and not
\* sliding.  Where requests of several kinds count on one row, as they do on
\* a client's, and on an author's once a login typed its text, that is the
\* largest of their limits and the shortest of their windows: a request under
\* a short window starts the row again for those under a long one.
OneAtATimeIsHeld ==
    \A k \in Key \ raced :
        LET s == tries[k]
            limits == {LimitOn(k, s[i].kind) : i \in DOMAIN s}
        IN  \A most, soonest \in limits :
            (\A l \in limits : l.max <= most.max /\ l.window >= soonest.window) =>
                \A i \in DOMAIN s : cleared[k] < i /\ i + 2 * most.max <= Len(s) =>
                    s[i + 2 * most.max].at - s[i].at >= soonest.window

\* The wait a refused visitor is told is the wait: after that many seconds
\* neither counter refuses them, unless somebody else was counted meanwhile,
\* and a second sooner one of them still does (Decision::retry_after_secs and
\* the longer of two waits, in login.rs, reply.rs, compose.rs and account.rs).
WaitIsExact ==
    \A kind \in Kind : \A id \in Ids(kind), client \in Clients :
        Refusing(kind, id, client) # {} =>
        LET wait == Wait(kind, id, client)
            Refused(at) == \E b \in Buckets(kind, id, client) :
                               Denies(b.limit, attempts[b.key], at)
        IN  /\ wait >= 1
            /\ ~Refused(now + wait * Second)
            /\ Refused(now + (wait - 1) * Second)

=============================================================================
