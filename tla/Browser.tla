------------------------------- MODULE Browser -------------------------------
(***************************************************************************)
(* One browser and the server: the cookies, the forms open in its tabs,    *)
(* and the requests and answers on the way between them.                   *)
(*                                                                         *)
(* The server keeps nothing about a form: its token says until when it is  *)
(* good and which cookie it is bound to, the session's or, before there is *)
(* one, an anonymous one.  What travels is slow: a request carries the     *)
(* cookies there were when it left, an answer sets cookies when it         *)
(* arrives, and in between the other tabs go on.                           *)
(*                                                                         *)
(* Handlers are one step here: what happens between the statements of two  *)
(* of them is in Accounts, with the tables that this module leaves out.    *)
(* Times are counted down: a cookie, a token or a session with 0 left is   *)
(* over.                                                                   *)
(***************************************************************************)
EXTENDS Integers, FiniteSets

CONSTANTS
    Users,
    Founder,       \* the user with an account at the beginning
    NoOne,
    Identities,    \* identities at a provider, numbered
    Linked,        \* the one of them that is the founder's
    Tabs,
    TokenLife,     \* csrf::DEFAULT_LIFETIME_MS
    AnonLife,      \* ANON_COOKIE_SECS
    HandshakeLife, \* STATE_LIFETIME_MS
    PendingLife,   \* PENDING_LIFETIME_MS
    SessionLife,   \* SessionPolicy::lifetime_ms
    MaxRequests    \* bound: requests sent

ASSUME BrowserAssumption ==
    /\ Founder \in Users /\ NoOne \notin Users
    /\ Identities \subseteq Nat \ {0} /\ Linked \in Identities
    /\ {TokenLife, HandshakeLife, PendingLife, SessionLife} \subseteq Nat \ {0}
    /\ AnonLife \in Nat /\ AnonLife > TokenLife
    /\ MaxRequests \in Nat

VARIABLES
    \* the server's tables
    account,   \* user.state; "none" without a row
    owner,     \* external_identity
    sessions,  \* session
    link,      \* per kind, the link in the founder's inbox
    \* the browser
    jar,       \* its cookies
    form,      \* per tab, the form that is open or behind the back button
    away,      \* per tab, the handshake that a provider's page is about
    wire,      \* per tab, the request or the answer on its way
    drawn,     \* how many random values have been drawn
    requests,
    \* history, read by the properties and by no action
    acted,     \* forms acted on: for whom they were made, and as whom
    crossed,   \* anonymous cookies that another one replaced
    told       \* sessions of which an answer said that they are over

tables  == <<account, owner, sessions, link>>
history == <<acted, crossed, told>>
vars    == <<tables, jar, form, away, wire, drawn, requests, history>>

CookieName == {"session", "anon", "oauth", "pending"}
Cookie     == [value : Nat, left : Nat]
NoCookie   == [value |-> 0, left |-> 0]

\* `session` stands for both cookies that set_session and clear_session write:
\* the session's and the marker that a script can read.
Jar == [CookieName -> Cookie]

AnonPages   == {"login", "register", "finish", "verify", "forgot", "reset"}
SignedPages == {"settings", "reply", "thread", "edit", "report", "appeal"}
Form   == [page : AnonPages \cup SignedPages \cup {"none"},
           binding : Nat, left : Nat, who : Users \cup {NoOne}]
NoForm == [page |-> "none", binding |-> 0, left |-> 0, who |-> NoOne]

NoCookies == [n \in CookieName |-> NoCookie]
NoForms   == [t \in Tabs |-> NoForm]

Session  == [token : Nat, user : Users, left : Nat]
LinkKind == {"verify", "reset"}

Idle == [at |-> "idle"]
Min0(n) == IF n > 0 THEN n - 1 ELSE 0

Holding(n, value, left) ==
    [NoCookies EXCEPT ![n] = [value |-> value, left |-> left]]

\* A new browser; one that is back from a provider, where an identity was
\* vouched for that had no account, though another browser may have finished
\* with it since; and one in which the founder is signed in, with the settings
\* open in a tab, and has both kinds of mail.
Init ==
    /\ account = [u \in Users |-> IF u = Founder THEN "active" ELSE "none"]
    /\ owner = [i \in Identities |-> IF i = Linked THEN Founder ELSE NoOne]
    /\ \/ /\ sessions = {} /\ form = NoForms
          /\ link = [k \in LinkKind |-> "none"]
          /\ jar \in {NoCookies} \cup {Holding("pending", i, PendingLife) : i \in Identities}
       \/ /\ sessions = {[token |-> 1, user |-> Founder, left |-> SessionLife]}
          /\ link = [k \in LinkKind |-> "sent"]
          /\ jar = Holding("session", 1, SessionLife)
          /\ \E t \in Tabs :
               form = [NoForms EXCEPT ![t] = [page |-> "settings", binding |-> 1,
                                              left |-> TokenLife, who |-> Founder]]
    /\ away = [t \in Tabs |-> 0]
    /\ wire = [t \in Tabs |-> Idle]
    /\ drawn = 1 /\ requests = 0
    /\ acted = {} /\ crossed = {} /\ told = {}

-----------------------------------------------------------------------------
(* The browser sends.                                                      *)

\* A request: the page, the button that is pressed on it or "open", the form
\* posted, the name typed into it, and the provider's answer.
Send(t, page, button, posted, name, answer) ==
    /\ wire[t].at = "idle" /\ requests < MaxRequests
    /\ requests' = requests + 1
    /\ wire' = [wire EXCEPT ![t] = [at |-> "server", page |-> page, button |-> button,
                                    cookies |-> jar, posted |-> posted, name |-> name,
                                    answer |-> answer]]
    /\ UNCHANGED <<tables, jar, form, away, drawn, history>>

NoAnswer == [state |-> 0, id |-> 0]

\* Pages, those of a mailed link too, the link to a provider, and, if there is
\* the marker, the script's question and the button that signs out.
Visit(t) ==
    \E page \in AnonPages \cup SignedPages \cup {"start", "me", "logout"} :
        /\ page \in {"me", "logout"} => jar["session"].left > 0
        /\ page \in LinkKind => link[page] # "none"
        /\ Send(t, page, "open", NoForm, NoOne, NoAnswer)

\* The settings and a post's editor are several forms under one token.
Buttons(page) ==
    IF page = "settings" THEN {"email", "password", "others"}
    ELSE {"post"} \cup (IF page = "edit" THEN {"delete"} ELSE {})

\* A form is submitted, once or again.
Submit(t) ==
    /\ form[t] # NoForm
    /\ \E button \in Buttons(form[t].page), name \in Users :
          /\ form[t].page \in {"login", "register", "finish"} \/ name = Founder
          /\ Send(t, form[t].page, button, form[t], name, NoAnswer)

\* The provider sends the visitor back, with an identity or, with 0, without.
Return(t) ==
    /\ away[t] # 0
    /\ \E i \in Identities \cup {0} :
          Send(t, "callback", "open", NoForm, NoOne, [state |-> away[t], id |-> i])

-----------------------------------------------------------------------------
(* The server answers.                                                     *)

Asked(t, page, button) == wire[t].page = page /\ wire[t].button = button
Opened(t, page) == Asked(t, page, "open")
Sent(t, n)   == wire[t].cookies[n]
Posted(t)    == wire[t].posted
Typed(t)     == wire[t].name

SetCookie(n, value, left) == [name |-> n, value |-> value, left |-> left]
Clear(n) == SetCookie(n, 0, 0)

\* The session of which an answer says that it is over, as it was asked or not.
NotOver == [token |-> 0, asked |-> FALSE]
EndOf(t, asked) == [token |-> Sent(t, "session").value, asked |-> asked]

\* An answer with cookies, a form, a provider's page to go to, and such an end.
Answer(t, cookies, f, to, over) ==
    wire' = [wire EXCEPT ![t] = [at |-> "browser", cookies |-> cookies, form |-> f,
                                 away |-> to, over |-> over]]

Redirect(t, cookies) == Answer(t, cookies, NoForm, 0, NotOver)

\* Mutant of Verified: a token is good for whoever holds it.
VerifiedForAnyone(t, binding) == Posted(t).left > 0

\* CsrfKey::verify: what the token is bound to, and until when.
Verified(t, binding) == Posted(t).left > 0 /\ Posted(t).binding = binding

\* CsrfKey::mint
Minted(page, binding, who) ==
    [page |-> page, binding |-> binding, left |-> TokenLife, who |-> who]

\* The WHERE of LOOKUP_SESSION, and can_act.
Authenticated(t) ==
    {s \in sessions : s.token = Sent(t, "session").value /\ s.left > 0
                      /\ account[s.user] = "active"}

\* current_auth: a lookup that fails reads like one that finds nothing.
Nobody == [token |-> 0, user |-> NoOne, left |-> 0]
CurrentAuth(t) == Authenticated(t) \cup {Nobody}
SignedIn(t, s) == s \in CurrentAuth(t) /\ s # Nobody
NotSignedIn(t) == Nobody \in CurrentAuth(t)

-----------------------------------------------------------------------------
(* Pages for a visitor without a session.                                  *)

AnonValue(t) == IF Sent(t, "anon").left > 0 THEN Sent(t, "anon").value ELSE drawn + 1

\* Mutant of AnonCookie: set only if there was none.
AnonCookieOnce(t) ==
    IF Sent(t, "anon").left > 0 THEN {} ELSE {SetCookie("anon", AnonValue(t), AnonLife)}

\* anon_token: a cookie that is there keeps its value, and its clock restarts.
AnonCookie(t) == {SetCookie("anon", AnonValue(t), AnonLife)}

\* anon_token and anon_page
AnonPage(t, page, who) ==
    /\ drawn' = IF Sent(t, "anon").left > 0 THEN drawn ELSE drawn + 1
    /\ Answer(t, AnonCookie(t), Minted(page, AnonValue(t), who), 0, NotOver)
    /\ UNCHANGED <<tables, acted>>

Nothing(t) == Redirect(t, {}) /\ UNCHANGED <<tables, drawn, acted>>

\* Somebody signed in is shown the settings instead.
LoginForm(t) ==
    /\ Opened(t, "login")
    /\ \/ NotSignedIn(t) /\ AnonPage(t, "login", NoOne)
       \/ \E s \in sessions : SignedIn(t, s) /\ Nothing(t)

RegisterForm(t) == Opened(t, "register") /\ AnonPage(t, "register", NoOne)
ForgotForm(t)   == Opened(t, "forgot") /\ AnonPage(t, "forgot", NoOne)

\* The link is not looked up, and not spent: mail scanners follow links.
VerifyForm(t) ==
    /\ Opened(t, "verify")
    /\ AnonPage(t, "verify", Founder)

\* peek_email_token: the page says whose password it is.
ResetForm(t) ==
    /\ Opened(t, "reset")
    /\ IF link["reset"] = "sent" THEN AnonPage(t, "reset", Founder) ELSE Nothing(t)

\* A sealed cookie that is there and has not expired.
Open(t, n) == Sent(t, n).left > 0

FinishForm(t) ==
    /\ Opened(t, "finish")
    /\ IF Open(t, "pending") THEN AnonPage(t, "finish", NoOne) ELSE Nothing(t)

-----------------------------------------------------------------------------
(* What they post.                                                         *)

\* A session for u, and the answer that brings its cookies and others.
SignIn(t, u, others) ==
    /\ drawn' = drawn + 1
    /\ sessions' = sessions \cup {[token |-> drawn + 1, user |-> u, left |-> SessionLife]}
    /\ Redirect(t, {SetCookie("session", drawn + 1, SessionLife)} \cup others)

\* An anonymous form whose token is good, or the answer that it had expired.
AnonPosted(t, page) == Asked(t, page, "post")
AnonGood(t) == Verified(t, Sent(t, "anon").value)

\* Somebody types a name; password and limits may refuse it.
LoginSubmit(t) ==
    /\ AnonPosted(t, "login")
    /\ \/ /\ AnonGood(t) /\ account[Typed(t)] = "active"
          /\ SignIn(t, Typed(t), {})
          /\ UNCHANGED <<account, owner, link, acted>>
       \/ Nothing(t)

\* signup: "taken" if there is such an account.
RegisterSubmit(t) ==
    /\ AnonPosted(t, "register")
    /\ \/ /\ AnonGood(t) /\ account[Typed(t)] = "none"
          /\ account' = [account EXCEPT ![Typed(t)] = "active"]
          /\ SignIn(t, Typed(t), {})
          /\ UNCHANGED <<owner, link, acted>>
       \/ Nothing(t)

\* request_reset: the older link is retired, the new one mailed.
ForgotSubmit(t) ==
    /\ AnonPosted(t, "forgot")
    /\ \/ /\ AnonGood(t) /\ account[Founder] = "active"
          /\ link' = [link EXCEPT !["reset"] = "sent"]
          /\ Redirect(t, {})
          /\ UNCHANGED <<account, owner, sessions, drawn, acted>>
       \/ Nothing(t)

\* confirm_email: the link is spent; what it proves is in Accounts.
VerifySubmit(t) ==
    /\ AnonPosted(t, "verify")
    /\ IF AnonGood(t) /\ link["verify"] = "sent"
       THEN /\ link' = [link EXCEPT !["verify"] = "spent"]
            /\ Redirect(t, {})
            /\ UNCHANGED <<account, owner, sessions, drawn, acted>>
       ELSE Nothing(t)

\* complete_reset: every session ends, and nobody is signed in.  A password
\* that is too short does not cost the link.
ResetSubmit(t) ==
    /\ AnonPosted(t, "reset")
    /\ \/ /\ AnonGood(t) /\ link["reset"] = "sent"
          /\ link' = [link EXCEPT !["reset"] = "spent"]
          /\ sessions' = {s \in sessions : s.user # Founder}
          /\ Redirect(t, {})
          /\ UNCHANGED <<account, owner, drawn, acted>>
       \/ Nothing(t)

-----------------------------------------------------------------------------
(* Signing in through a provider.                                          *)

\* start: the state goes to the provider and, sealed, into a cookie.
StartOauth(t) ==
    /\ Opened(t, "start")
    /\ drawn' = drawn + 1
    /\ Answer(t, {SetCookie("oauth", drawn + 1, HandshakeLife)}, NoForm, drawn + 1, NotOver)
    /\ UNCHANGED <<tables, acted>>

\* fail: back to the sign-in page, and the handshake is over.
Failed(t) == Redirect(t, {Clear("oauth")}) /\ UNCHANGED <<tables, drawn, acted>>

\* The provider answers the handshake that the cookie is about.
OwnHandshake(t) == Open(t, "oauth") /\ Sent(t, "oauth").value = wire[t].answer.state

Callback(t) ==
    /\ Opened(t, "callback")
    /\ LET i == wire[t].answer.id IN
         IF ~OwnHandshake(t) \/ i = 0 THEN Failed(t)
         ELSE IF owner[i] = NoOne
         THEN /\ Redirect(t, {Clear("oauth"), SetCookie("pending", i, PendingLife)})
              /\ UNCHANGED <<tables, drawn, acted>>
         ELSE IF account[owner[i]] = "active"
         THEN /\ SignIn(t, owner[i], {Clear("oauth")})
              /\ UNCHANGED <<account, owner, link, acted>>
         ELSE Failed(t)

\* finish: "taken" if the identity is somebody's by now, or the name is.  (Who
\* links it after finish has looked is in Accounts.)
FinishSubmit(t) ==
    /\ Asked(t, "finish", "post")
    /\ LET i == Sent(t, "pending").value IN
         IF Open(t, "pending") /\ AnonGood(t) /\ owner[i] = NoOne /\ account[Typed(t)] = "none"
         THEN /\ account' = [account EXCEPT ![Typed(t)] = "active"]
              /\ owner' = [owner EXCEPT ![i] = Typed(t)]
              /\ SignIn(t, Typed(t), {Clear("pending")})
              /\ UNCHANGED <<link, acted>>
         ELSE Nothing(t)

-----------------------------------------------------------------------------
(* Pages and forms of somebody signed in.                                  *)

\* signed_in and needs_sign_in: whoever is not goes to the sign-in page.
ToSignIn(t) == NotSignedIn(t) /\ Nothing(t)

\* A page with a form, under a token that is fresh and bound to the session.
Page(s, t, page) ==
    /\ Answer(t, {}, Minted(page, s.token, s.user), 0, NotOver)
    /\ UNCHANGED <<tables, drawn, acted>>

SignedPage(t, page) ==
    /\ Opened(t, page)
    /\ \/ ToSignIn(t)
       \/ \E s \in sessions :
            /\ SignedIn(t, s)
            /\ Page(s, t, page)

Settings(t)    == SignedPage(t, "settings")
ReplyForm(t)   == SignedPage(t, "reply")
ComposeForm(t) == SignedPage(t, "thread")
EditForm(t)    == SignedPage(t, "edit")
ReportForm(t)  == SignedPage(t, "report")
AppealForm(t)  == SignedPage(t, "appeal")

\* What is done for the reader of a form, if its token is good.
Act(s, t) ==
    /\ Verified(t, s.token)
    /\ acted' = acted \cup {[made |-> Posted(t).who, as |-> s.user]}
    /\ Redirect(t, {})
    /\ UNCHANGED <<account, owner, link, drawn>>

Expired(s, t) == ~Verified(t, s.token) /\ Nothing(t)

\* A form that is done or had expired.
Done(t) ==
    \/ ToSignIn(t)
    \/ \E s \in sessions :
         /\ SignedIn(t, s)
         /\ Expired(s, t) \/ (Act(s, t) /\ UNCHANGED sessions)

\* A form with a text: a refusal, of an expired token too, brings it again.
DoneOrAgain(t, page) ==
    \/ ToSignIn(t)
    \/ \E s \in sessions :
         /\ SignedIn(t, s)
         /\ (Act(s, t) /\ UNCHANGED sessions) \/ Page(s, t, page)

\* Thread and Moderation have what becomes of the post, the report, the appeal;
\* Accounts has the address and the links to prove it.
ReplySubmit(t)   == Asked(t, "reply", "post") /\ DoneOrAgain(t, "reply")
ComposeSubmit(t) == Asked(t, "thread", "post") /\ DoneOrAgain(t, "thread")
EditSubmit(t)    == Asked(t, "edit", "post") /\ DoneOrAgain(t, "edit")
DeleteSubmit(t)  ==
    /\ Asked(t, "edit", "delete")
    /\ Done(t) \/ \E s \in sessions : SignedIn(t, s) /\ Verified(t, s.token) /\ Page(s, t, "edit")
ReportSubmit(t)  == Asked(t, "report", "post") /\ Done(t)
AppealSubmit(t)  == Asked(t, "appeal", "post") /\ Done(t)
ChangeEmail(t)   == Asked(t, "settings", "email") /\ Done(t)

\* Mutant of OthersEnded: the one that asks is there, and is created again.
OthersEndedAndMore(s) == {r \in sessions : r.user # s.user \/ r.token = s.token} \cup
                         {[s EXCEPT !.left = SessionLife]}

\* delete_user_sessions, and the one that asks is created again as it was.
OthersEnded(s) == {r \in sessions : r.user # s.user} \cup {s}

EndOtherSessions(t) ==
    /\ Asked(t, "settings", "others")
    /\ \/ ToSignIn(t)
       \/ \E s \in sessions :
            /\ SignedIn(t, s)
            /\ Expired(s, t) \/ (Act(s, t) /\ sessions' = OthersEnded(s))

\* change_password; the current password may be wrong.
ChangePassword(t) ==
    /\ Asked(t, "settings", "password")
    /\ \/ ToSignIn(t)
       \/ \E s \in sessions :
            /\ SignedIn(t, s)
            /\ Nothing(t) \/ (Act(s, t) /\ sessions' = OthersEnded(s))

\* Mutant of LogoutCookies: kept if the session could not be deleted.
LogoutCookiesIfDone(t, deleted) == IF deleted THEN {Clear("session")} ELSE {}

\* clear_session, whether the statement worked or not.
LogoutCookies(t, deleted) == {Clear("session")}

Logout(t) ==
    /\ Opened(t, "logout")
    /\ \E deleted \in BOOLEAN :
         /\ IF deleted
            THEN sessions' = {s \in sessions : s.token # Sent(t, "session").value}
            ELSE UNCHANGED sessions
         /\ Answer(t, LogoutCookies(t, deleted), NoForm, 0, EndOf(t, TRUE))
    /\ UNCHANGED <<account, owner, link, drawn, acted>>

\* api_me: a marker without a session is cleared.
ApiMe(t) ==
    /\ Opened(t, "me")
    /\ \/ \E s \in sessions : SignedIn(t, s) /\ Redirect(t, {})
       \/ /\ NotSignedIn(t)
          /\ Answer(t, {Clear("session")}, NoForm, 0, EndOf(t, FALSE))
    /\ UNCHANGED <<tables, drawn, acted>>

Handle(t) ==
    /\ wire[t].at = "server"
    /\ \/ LoginForm(t) \/ RegisterForm(t) \/ ForgotForm(t) \/ VerifyForm(t) \/ ResetForm(t)
       \/ FinishForm(t) \/ LoginSubmit(t) \/ RegisterSubmit(t) \/ ForgotSubmit(t)
       \/ VerifySubmit(t) \/ ResetSubmit(t) \/ StartOauth(t) \/ Callback(t) \/ FinishSubmit(t)
       \/ Settings(t) \/ ReplyForm(t) \/ ComposeForm(t) \/ EditForm(t) \/ ReportForm(t)
       \/ AppealForm(t) \/ ReplySubmit(t) \/ ComposeSubmit(t) \/ EditSubmit(t)
       \/ DeleteSubmit(t) \/ ReportSubmit(t) \/ AppealSubmit(t) \/ ChangeEmail(t)
       \/ EndOtherSessions(t) \/ ChangePassword(t) \/ Logout(t) \/ ApiMe(t)
    /\ UNCHANGED <<jar, form, away, requests, crossed, told>>

-----------------------------------------------------------------------------
(* Answers arrive, or do not; time passes; others act.                     *)

\* The jar after the cookies of an answer.
Stored(cookies) ==
    [n \in CookieName |->
       IF \E c \in cookies : c.name = n
       THEN LET c == CHOOSE c \in cookies : c.name = n IN [value |-> c.value, left |-> c.left]
       ELSE jar[n]]

\* The form of an answer takes the tab; another answer leaves the form that
\* was there behind the back button.
Arrive(t) ==
    /\ wire[t].at = "browser"
    /\ jar' = Stored(wire[t].cookies)
    /\ form' = IF wire[t].form = NoForm THEN form ELSE [form EXCEPT ![t] = wire[t].form]
    /\ away' = [away EXCEPT ![t] = wire[t].away]
    /\ crossed' = IF jar["anon"].left > 0 /\ jar'["anon"].value # jar["anon"].value
                  THEN crossed \cup {jar["anon"].value} ELSE crossed
    /\ told' = IF wire[t].over = NotOver THEN told ELSE told \cup {wire[t].over.token}
    /\ wire' = [wire EXCEPT ![t] = Idle]
    /\ UNCHANGED <<tables, drawn, requests, acted>>

\* An answer is lost; a request that is lost might as well not have been sent.
Lose(t) ==
    /\ wire[t].at = "browser"
    /\ wire' = [wire EXCEPT ![t] = Idle]
    /\ UNCHANGED <<tables, jar, form, away, drawn, requests, history>>

Older(c) == IF c.left > 1 THEN [c EXCEPT !.left = @ - 1] ELSE NoCookie

\* On the way, a sealed cookie and a token grow older; the Max-Age of the
\* others begins when they arrive.
Sealed(n) == n \in {"oauth", "pending"}
OlderAnswer(w) ==
    [w EXCEPT !.cookies = {IF Sealed(c.name) THEN [c EXCEPT !.left = Min0(@)] ELSE c : c \in @},
              !.form.left = Min0(@)]
OlderRequest(w) ==
    [w EXCEPT !.cookies = [n \in CookieName |-> IF Sealed(n) THEN Older(@[n]) ELSE @[n]],
              !.posted.left = Min0(@)]

Tick ==
    /\ jar' = [n \in CookieName |-> Older(jar[n])]
    /\ form' = [t \in Tabs |-> [form[t] EXCEPT !.left = Min0(@)]]
    /\ sessions' = {[s EXCEPT !.left = Min0(@)] : s \in sessions}
    /\ wire' = [t \in Tabs |->
                  IF wire[t].at = "idle" THEN wire[t]
                  ELSE IF wire[t].at = "server" THEN OlderRequest(wire[t]) ELSE OlderAnswer(wire[t])]
    /\ UNCHANGED <<account, owner, link, away, drawn, requests, history>>

\* A moderator bans the account: set_user_state, and its sessions end.
Ban(u) ==
    /\ account[u] = "active"
    /\ account' = [account EXCEPT ![u] = "banned"]
    /\ sessions' = {s \in sessions : s.user # u}
    /\ UNCHANGED <<owner, link, jar, form, away, wire, drawn, requests, history>>

Next ==
    \/ \E t \in Tabs : Visit(t) \/ Submit(t) \/ Return(t) \/ Handle(t) \/ Arrive(t) \/ Lose(t)
    \/ Tick
    \/ \E u \in Users : Ban(u)

Spec == Init /\ [][Next]_vars

-----------------------------------------------------------------------------
(* Properties.                                                             *)

PageName   == AnonPages \cup SignedPages \cup {"none", "start", "me", "logout", "callback"}
ButtonName == {"open", "post", "delete", "email", "password", "others"}
Request == [at : {"server"}, page : PageName, button : ButtonName, cookies : Jar, posted : Form,
            name : Users \cup {NoOne}, answer : [state : Nat, id : Identities \cup {0}]]
Reply   == [at : {"browser"}, cookies : SUBSET [name : CookieName, value : Nat, left : Nat],
            form : Form, away : Nat, over : [token : Nat, asked : BOOLEAN]]

TypeOK ==
    /\ account \in [Users -> {"none", "active", "banned"}]
    /\ owner \in [Identities -> Users \cup {NoOne}]
    /\ sessions \subseteq Session
    /\ \A r, s \in sessions : r.token = s.token => r = s
    /\ link \in [LinkKind -> {"none", "sent", "spent"}]
    /\ jar \in Jar
    /\ form \in [Tabs -> Form]
    /\ away \in [Tabs -> Nat]
    /\ wire \in [Tabs -> Request \cup Reply \cup {Idle}]
    /\ drawn \in Nat
    /\ requests \in 0..MaxRequests
    /\ acted \subseteq [made : Users \cup {NoOne}, as : Users]
    /\ crossed \subseteq Nat /\ told \subseteq Nat

\* csrf.rs: a token is bound to a session, so that one visitor's form never
\* acts for another: neither a form left open in one tab while somebody else
\* signed in in another, nor one that was under way meanwhile.
ActsForItsReader == \A a \in acted : a.made = a.as

\* lib.rs, ANON_COOKIE_SECS: "every form page re-sets it: a form must never
\* outlive the cookie".  While an anonymous form is good, the browser has the
\* cookie that it is bound to, however long the answer was on its way and
\* whatever was opened before and after, unless a first visit in another tab
\* put another cookie in its place.
AnonCookieOutlivesItsForms ==
    \A t \in Tabs :
        (form[t].page \in AnonPages /\ form[t].left > 0 /\ form[t].binding \notin crossed)
            => /\ jar["anon"].value = form[t].binding
               /\ jar["anon"].left >= form[t].left

\* logout: "Still clear the cookie, so a failed write cannot leave a live
\* session behind"; api_me: "clear it so the script stops asking".  Once an
\* answer has said that a session is over, the browser does not have it.
GoneIsForgotten == jar["session"].left > 0 => jar["session"].value \notin told

\* api_me: "A stale marker: clear it".  What an answer clears without being
\* asked to is a session that is over.
Over(k) == ~\E s \in sessions : s.token = k /\ s.left > 0 /\ account[s.user] = "active"
OnlyStaleIsCleared ==
    [][\A t \in Tabs :
          (/\ wire[t].at = "browser" /\ wire'[t].at = "idle"
           /\ wire[t].over # NotOver /\ ~wire[t].over.asked
           /\ jar["session"].left > 0 /\ jar'["session"].left = 0)
              => Over(jar["session"].value)]_vars
=============================================================================
