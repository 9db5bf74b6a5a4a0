------------------------------ MODULE Accounts ------------------------------
(***************************************************************************)
(* Accounts: how they are created, the addresses they prove, the links     *)
(* mailed to them, passwords, sign-ins through a provider, and sessions.   *)
(*                                                                         *)
(* As in Moderation, a handler is a sequence of store calls without a      *)
(* transaction: starting one performs its reads, and leaves in its plan    *)
(* the statements to come, each of which is one step.  Rate limits may     *)
(* refuse any request and are left out, and so is time: a link or a        *)
(* session that has expired is one nobody uses.                            *)
(***************************************************************************)
EXTENDS Integers, Sequences, FiniteSets

CONSTANTS
    Names,        \* account names
    Founders,     \* the accounts there at the beginning
    Addresses,    \* email addresses
    FirstAddress, \* the address a founder has proved
    NoAddress,
    Identities,   \* (provider, subject) of external identities
    NoName,
    Webs,         \* request handlers in flight at once
    MaxRequests,  \* bound: requests started
    MaxFailures   \* bound: handlers that stop half way

ASSUME AccountsAssumption ==
    /\ Founders \subseteq Names
    /\ NoName \notin Names
    /\ NoAddress \notin Addresses
    /\ FirstAddress \in [Founders -> Addresses]
    /\ \A u, v \in Founders : FirstAddress[u] = FirstAddress[v] => u = v
    /\ MaxRequests \in Nat
    /\ MaxFailures \in Nat

VARIABLES
    \* the tables
    account,   \* user.state; "none" without a row
    password,  \* which password user.password_hash is of; 0 for NULL
    email,     \* user.email
    verified,  \* whether user.email_verified_at is set
    identity,  \* external_identity: whose account it signs in to
    links,     \* email_token, in the order the rows were written
    sessions,  \* session
    \* the handlers
    run,       \* per handler: the calls still to come and what it knows
    requests, failures,
    \* history, read by the properties and by no action
    proven,    \* the addresses that a mailed link or a provider proved
    resets,    \* per link: how often it set a password
    replaced   \* per account: the links there when its password was changed

tables  == <<account, password, email, verified, identity, links, sessions>>
history == <<proven, resets, replaced>>
vars    == <<tables, run, requests, failures, history>>

UserState == {"active", "banned", "deleted"}
Kind      == {"verify", "reset"}
Link      == [user : Names, kind : Kind, address : Addresses, used : BOOLEAN]
Session   == [token : Nat, user : Names]
Call      == {"user", "session", "email", "retire", "link", "verify", "vouch",
              "password", "end", "identity", "state", "changed"}
\* What the calls of a handler write beside its account: each uses the one
\* field that is its own.
Statement == [do : Call, address : Addresses \cup {NoAddress}, kind : Kind,
              to : UserState, id : Identities \cup {NoName}]
Run       == [plan : Seq(Statement),
              user : Names \cup {NoName},
              token : Nat,      \* the session it creates, or keeps
              secret : Nat,     \* the password it writes
              link : Nat,       \* the reset link it follows, or 0
              since : Nat]      \* history: the links there when it wrote it

Idle == [plan |-> <<>>, user |-> NoName, token |-> 0, secret |-> 0, link |-> 0, since |-> 0]

Busy(h) == run[h].plan # <<>>
NextCall(h) == Head(run[h].plan)
At(h, call) == Busy(h) /\ NextCall(h).do = call

Init ==
    /\ account = [u \in Names |-> IF u \in Founders THEN "active" ELSE "none"]
    /\ password = [u \in Names |-> IF u \in Founders THEN 1 ELSE 0]
    /\ email = [u \in Names |-> IF u \in Founders THEN FirstAddress[u] ELSE NoAddress]
    /\ verified = [u \in Names |-> u \in Founders]
    /\ identity = [i \in Identities |-> NoName]
    /\ links = <<>>
    /\ sessions = {}
    /\ run = [h \in Webs |-> Idle]
    /\ requests = 0
    /\ failures = 0
    /\ proven = [u \in Names |-> IF u \in Founders THEN {FirstAddress[u]} ELSE {}]
    /\ resets = <<>>
    /\ replaced = [u \in Names |-> 0]

-----------------------------------------------------------------------------
(* Store calls as data, and the handlers as sequences of them.             *)

Do(call) == [do |-> call, address |-> NoAddress, kind |-> "verify",
             to |-> "active", id |-> NoName]
Mail(call, a) == [Do(call) EXCEPT !.address = a]

\* issue: the older links of the kind are retired, the new one is written.
Issue(kind, a) == <<[Do("retire") EXCEPT !.kind = kind],
                    [Mail("link", a) EXCEPT !.kind = kind]>>

\* change_email, and the part of signup that is about the address.
GiveAddress(a) == <<Mail("email", a)>> \o Issue("verify", a)

SignupCalls(a) == <<Do("user"), Do("session")>> \o
                  IF a = NoAddress THEN <<>> ELSE GiveAddress(a)

\* Mutant of FinishCalls: signed in before the identity is linked.
FinishCallsSession(i, a, vouched) ==
    <<Do("user"), Do("session"), [Do("identity") EXCEPT !.id = i]>> \o
    (IF a = NoAddress THEN <<>> ELSE <<Mail("email", a)>>) \o
    (IF a # NoAddress /\ vouched THEN <<Mail("vouch", a)>> ELSE <<>>)

\* finish: an account without a password.
FinishCalls(i, a, vouched) ==
    <<Do("user"), [Do("identity") EXCEPT !.id = i]>> \o
    (IF a = NoAddress THEN <<>> ELSE <<Mail("email", a)>>) \o
    (IF a # NoAddress /\ vouched THEN <<Mail("vouch", a)>> ELSE <<>>) \o
    <<Do("session")>>

\* Mutant of NewPassword: the older links stay as they are.
NewPasswordLinksLeft == <<Do("password"), Do("end")>>

\* complete_reset and change_password
NewPassword == <<Do("password"), Do("end"), [Do("retire") EXCEPT !.kind = "reset"]>>

\* Mutant of StateCalls: writes a state that the schema does not have.
StateCallsSuspended(to) ==
    <<[Do("state") EXCEPT !.to = IF to = "active" THEN to ELSE "suspended"], Do("end")>>

\* admin::set_user_state; the posts of a deleted account are in Moderation.
StateCalls(to) == <<[Do("state") EXCEPT !.to = to]>> \o
                  IF to = "active" THEN <<>> ELSE <<Do("end")>>

-----------------------------------------------------------------------------
(* Requests.  Each performs its handler's reads and checks.                *)

Request(h) ==
    /\ ~Busy(h) /\ requests < MaxRequests
    /\ requests' = requests + 1
    /\ UNCHANGED failures

\* Tokens and passwords are numbered by the request that brings them.
NewToken == requests + 1
NewSecret == requests + 2

Start(h, u, token, secret, plan) ==
    run' = [run EXCEPT ![h] = [Idle EXCEPT !.plan = plan, !.user = u,
                                           !.token = token, !.secret = secret]]

\* signup: the check of the name is advisory.
Signup(h, u, a) ==
    /\ Request(h)
    /\ account[u] = "none"
    /\ Start(h, u, NewToken, NewSecret, SignupCalls(a))
    /\ UNCHANGED <<tables, history>>

\* login: with the password read now; a hash of an older scheme is rewritten,
\* from that password.
Login(h, u) ==
    /\ Request(h)
    /\ account[u] = "active" /\ password[u] # 0
    /\ \E rehash \in {<<>>, <<Do("password")>>} :
         Start(h, u, NewToken, password[u], rehash \o <<Do("session")>>)
    /\ UNCHANGED <<tables, history>>

\* oidc::sign_in with an identity that has an account.
SignIn(h, i) ==
    /\ Request(h)
    /\ identity[i] # NoName /\ account[identity[i]] = "active"
    /\ Start(h, identity[i], NewToken, 0, <<Do("session")>>)
    /\ UNCHANGED <<tables, history>>

\* oidc::finish with one that has none; the provider may name an address, and
\* vouch for it.
Finish(h, i, u, a, vouched) ==
    /\ Request(h)
    /\ identity[i] = NoName
    /\ Start(h, u, NewToken, 0, FinishCalls(i, a, vouched))
    /\ UNCHANGED <<tables, history>>

\* current_auth
SignedIn(s) == s \in sessions /\ account[s.user] = "active"

Logout(h, s) ==
    /\ Request(h)
    /\ s \in sessions
    /\ sessions' = sessions \ {s}
    /\ UNCHANGED <<account, password, email, verified, identity, links, run, history>>

ChangeEmail(h, s, a) ==
    /\ Request(h)
    /\ SignedIn(s)
    /\ Start(h, s.user, s.token, 0, GiveAddress(a))
    /\ UNCHANGED <<tables, history>>

\* Whoever asks knows the current password.
ChangePassword(h, s) ==
    /\ Request(h)
    /\ SignedIn(s) /\ password[s.user] # 0
    /\ Start(h, s.user, s.token, NewSecret, NewPassword \o <<Do("session"), Do("changed")>>)
    /\ UNCHANGED <<tables, history>>

EndOtherSessions(h, s) ==
    /\ Request(h)
    /\ SignedIn(s)
    /\ Start(h, s.user, s.token, 0, <<Do("end"), Do("session")>>)
    /\ UNCHANGED <<tables, history>>

\* Mutant of Holders: an address need not be proved.
HoldersClaiming(a) == {u \in Names : email[u] = a}

\* user_by_verified_email
Holders(a) == {u \in Names : email[u] = a /\ verified[u]}

RequestReset(h, a) ==
    /\ Request(h)
    /\ \E u \in Holders(a) :
         account[u] = "active" /\ Start(h, u, 0, 0, Issue("reset", a))
    /\ UNCHANGED <<tables, history>>

\* Mutant of Unspent: looked up, and marked as used later.
UnspentOrUsed(n, kind) == links[n].kind = kind

\* The WHERE of CONSUME_EMAIL_TOKEN.
Unspent(n, kind) == links[n].kind = kind /\ ~links[n].used

\* Both flows begin with the statement that spends the link, which only the
\* owner of the address it was mailed to has.
Follow(h, n, kind) ==
    /\ Request(h)
    /\ Unspent(n, kind)
    /\ links' = [links EXCEPT ![n].used = TRUE]
    /\ proven' = [proven EXCEPT ![links[n].user] = @ \cup {links[n].address}]
    /\ UNCHANGED <<account, password, email, verified, identity, sessions, resets, replaced>>

\* confirm_email
ConfirmEmail(h, n) ==
    /\ Follow(h, n, "verify")
    /\ Start(h, links[n].user, 0, 0, <<Mail("verify", links[n].address)>>)

CompleteReset(h, n) ==
    /\ Follow(h, n, "reset")
    /\ run' = [run EXCEPT ![h] =
                 [Idle EXCEPT !.plan = NewPassword \o <<Do("changed")>>,
                              !.user = links[n].user, !.secret = NewSecret, !.link = n]]

\* A moderator bans, unbans or deletes the account.
SetState(h, u, to) ==
    /\ Request(h)
    /\ account[u] \in UserState \ {to}
    /\ Start(h, u, 0, 0, StateCalls(to))
    /\ UNCHANGED <<tables, history>>

-----------------------------------------------------------------------------
(* Store calls.                                                            *)

Continue(h, plan) ==
    run' = [run EXCEPT ![h] = IF plan = <<>> THEN Idle ELSE [@ EXCEPT !.plan = plan]]

Rest(h) == Tail(run[h].plan)
Me(h) == run[h].user

quiet == <<requests, failures>>

\* create_user: UNIQUE(user.name) refuses the second.
CreateUser(h) ==
    /\ At(h, "user")
    /\ IF account[Me(h)] # "none"
       THEN Continue(h, <<>>) /\ UNCHANGED <<account, password>>
       ELSE /\ account' = [account EXCEPT ![Me(h)] = "active"]
            /\ password' = [password EXCEPT ![Me(h)] = run[h].secret]
            /\ Continue(h, Rest(h))
    /\ UNCHANGED <<email, verified, identity, links, sessions, quiet, history>>

\* create_session: a token that is there is an error.
CreateSession(h) ==
    /\ At(h, "session")
    /\ LET s == [token |-> run[h].token, user |-> Me(h)] IN
         /\ sessions' = sessions \cup {s}
         /\ Continue(h, IF s \in sessions THEN <<>> ELSE Rest(h))
    /\ UNCHANGED <<account, password, email, verified, identity, links, quiet, history>>

\* SET_EMAIL: a new address starts unverified.
SetEmail(h) ==
    /\ At(h, "email")
    /\ email' = [email EXCEPT ![Me(h)] = NextCall(h).address]
    /\ verified' = [verified EXCEPT ![Me(h)] = FALSE]
    /\ Continue(h, Rest(h))
    /\ UNCHANGED <<account, password, identity, links, sessions, quiet, history>>

RetireLinks(h) ==
    /\ At(h, "retire")
    /\ links' = [n \in 1..Len(links) |->
                   IF links[n].user = Me(h) /\ links[n].kind = NextCall(h).kind
                   THEN [links[n] EXCEPT !.used = TRUE] ELSE links[n]]
    /\ Continue(h, Rest(h))
    /\ UNCHANGED <<account, password, email, verified, identity, sessions, quiet, history>>

\* create_email_token; whether the mail goes out changes nothing here.
CreateLink(h) ==
    /\ At(h, "link")
    /\ links' = Append(links, [user |-> Me(h), kind |-> NextCall(h).kind,
                               address |-> NextCall(h).address, used |-> FALSE])
    /\ resets' = Append(resets, 0)
    /\ Continue(h, Rest(h))
    /\ UNCHANGED <<account, password, email, verified, identity, sessions, quiet,
                   proven, replaced>>

\* Mutant of StillOf: whatever the account's address is by now.
StillOfAny(u, a) == TRUE

\* The WHERE of MARK_EMAIL_VERIFIED.
StillOf(u, a) == email[u] = a

\* Mutant of Provable: the index does not exist.
ProvableAlways(u, a) == TRUE

\* idx_user_email_verified
Provable(u, a) == \A v \in Names \ {u} : ~(verified[v] /\ email[v] = email[u])

\* mark_email_verified: after a link, or on a provider's word, which proves the
\* address as a link does.
MarkVerified(h) ==
    /\ At(h, "verify") \/ At(h, "vouch")
    /\ LET a == NextCall(h).address IN
         /\ verified' = [verified EXCEPT ![Me(h)] =
                           @ \/ (StillOf(Me(h), a) /\ Provable(Me(h), a))]
         /\ proven' = IF NextCall(h).do = "vouch"
                      THEN [proven EXCEPT ![Me(h)] = @ \cup {a}] ELSE proven
    /\ Continue(h, Rest(h))
    /\ UNCHANGED <<account, password, email, identity, links, sessions, quiet,
                   resets, replaced>>

SetPasswordHash(h) ==
    /\ At(h, "password")
    /\ password' = [password EXCEPT ![Me(h)] = run[h].secret]
    /\ resets' = IF run[h].link = 0 THEN resets
                 ELSE [resets EXCEPT ![run[h].link] = @ + 1]
    /\ run' = [run EXCEPT ![h].plan = Rest(h), ![h].since = Len(links)]
    /\ UNCHANGED <<account, email, verified, identity, links, sessions, quiet,
                   proven, replaced>>

DeleteUserSessions(h) ==
    /\ At(h, "end")
    /\ sessions' = {s \in sessions : s.user # Me(h)}
    /\ Continue(h, Rest(h))
    /\ UNCHANGED <<account, password, email, verified, identity, links, quiet, history>>

\* link_identity: the primary key refuses the second, which ends the handler.
LinkIdentity(h) ==
    /\ At(h, "identity")
    /\ LET i == NextCall(h).id IN
         IF identity[i] # NoName
         THEN Continue(h, <<>>) /\ UNCHANGED identity
         ELSE identity' = [identity EXCEPT ![i] = Me(h)] /\ Continue(h, Rest(h))
    /\ UNCHANGED <<account, password, email, verified, links, sessions, quiet, history>>

SetUserState(h) ==
    /\ At(h, "state")
    /\ account' = [account EXCEPT ![Me(h)] = NextCall(h).to]
    /\ Continue(h, Rest(h))
    /\ UNCHANGED <<password, email, verified, identity, links, sessions, quiet, history>>

\* The person is told that the password is changed, by mail and by the page.
TellChanged(h) ==
    /\ At(h, "changed")
    /\ replaced' = [replaced EXCEPT ![Me(h)] =
                      IF run[h].since > @ THEN run[h].since ELSE @]
    /\ Continue(h, Rest(h))
    /\ UNCHANGED <<tables, quiet, proven, resets>>

\* A store error, or the end of the isolate; finish goes on if the address that
\* the provider vouched for cannot be marked.
Fail(h) ==
    /\ Busy(h) /\ failures < MaxFailures
    /\ failures' = failures + 1
    /\ Continue(h, <<>>) \/ (At(h, "vouch") /\ Continue(h, Rest(h)))
    /\ UNCHANGED <<tables, requests, history>>

-----------------------------------------------------------------------------
Visit(h) ==
    \/ \E u \in Names :
         \/ Login(h, u)
         \/ \E a \in Addresses \cup {NoAddress} :
              \/ Signup(h, u, a)
              \/ \E i \in Identities, vouched \in BOOLEAN : Finish(h, i, u, a, vouched)
         \/ \E to \in UserState : SetState(h, u, to)
    \/ \E i \in Identities : SignIn(h, i)
    \/ \E s \in sessions :
         \/ Logout(h, s) \/ ChangePassword(h, s) \/ EndOtherSessions(h, s)
         \/ \E a \in Addresses : ChangeEmail(h, s, a)
    \/ \E a \in Addresses : RequestReset(h, a)
    \/ \E n \in 1..Len(links) : ConfirmEmail(h, n) \/ CompleteReset(h, n)

Step(h) ==
    \/ CreateUser(h) \/ CreateSession(h) \/ SetEmail(h) \/ RetireLinks(h)
    \/ CreateLink(h) \/ MarkVerified(h) \/ SetPasswordHash(h)
    \/ DeleteUserSessions(h) \/ LinkIdentity(h) \/ SetUserState(h) \/ TellChanged(h)

Next == \E h \in Webs : Visit(h) \/ Step(h) \/ Fail(h)

Spec == Init /\ [][Next]_vars

-----------------------------------------------------------------------------
(* Properties.                                                             *)

TypeOK ==
    /\ account \in [Names -> UserState \cup {"none"}]
    /\ password \in [Names -> Nat]
    /\ email \in [Names -> Addresses \cup {NoAddress}]
    /\ verified \in [Names -> BOOLEAN]
    /\ identity \in [Identities -> Names \cup {NoName}]
    /\ links \in Seq(Link)
    /\ sessions \subseteq Session
    /\ run \in [Webs -> Run]
    /\ requests \in 0..MaxRequests
    /\ failures \in 0..MaxFailures
    /\ proven \in [Names -> SUBSET Addresses]
    /\ resets \in Seq(Nat) /\ Len(resets) = Len(links)
    /\ replaced \in [Names -> Nat]

\* DECISIONS.md: "any number of accounts may claim an address and exactly one
\* may prove it", whatever races to prove it: links, and providers.
OneAccountPerAddress ==
    \A u, v \in Names : (verified[u] /\ verified[v] /\ email[u] = email[v]) => u = v

\* 0009: "a verify token proves THIS address, not whatever the account's
\* address is by the time the link is followed".  The address an account has
\* verified is one it has proved, however its changes of address interleave
\* with the links it follows.
VerifiedIsProven ==
    \A u \in Names : verified[u] => email[u] \in proven[u]

\* DECISIONS.md: "Only a verified address gets mail".  A reset link is mailed
\* to an address that its account has proved.
ResetsGoToProven ==
    \A n \in 1..Len(links) :
        links[n].kind = "reset" => links[n].address \in proven[links[n].user]

\* CONSUME_EMAIL_TOKEN: "two clicks on the same link cannot both succeed".
ResetOnce == \A n \in 1..Len(resets) : resets[n] <= 1

\* account.rs: "a reset link still in some inbox must not outlive the password
\* it was for".  Once a person has been told that the password is changed, no
\* reset link that was there when the new one was written can be followed.
NoLinkOutlivesItsPassword ==
    \A u \in Names, n \in 1..Len(links) :
        (n <= replaced[u] /\ links[n].user = u /\ links[n].kind = "reset") => links[n].used

\* finish and signup: whoever is signed in has a way to sign in again, though
\* the account, its identity and the session are written one by one, two
\* visitors may come with one identity or one name, and a handler may stop.
SignedInCanReturn ==
    \A s \in sessions : \/ password[s.user] # 0
                        \/ \E i \in Identities : identity[i] = s.user
=============================================================================
