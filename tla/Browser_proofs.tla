---------------------------- MODULE Browser_proofs ----------------------------
(***************************************************************************)
(* Proofs about Browser, for any number of tabs, users, identities,        *)
(* requests and any lifetimes that BrowserAssumption allows.               *)
(*                                                                         *)
(* The thirty-one handlers answer in five ways only, and the invariants    *)
(* are about the answers: each handler is shown to answer in one of these  *)
(* ways (HandleAnswers), and each way to preserve the invariant            *)
(* (AnswerKeeps).  The invariant rests on values being drawn once: a       *)
(* session's token and an anonymous cookie's value are at most `drawn`.    *)
(***************************************************************************)
EXTENDS Browser, TLAPS

AnyCookie == [name : CookieName, value : Nat, left : Nat]
Ending == [token : Nat, asked : BOOLEAN]

\* A form for somebody signed in is for the user of the session it is bound to,
\* as long as there is one and after.
GoodForm(f) ==
    /\ f.left <= TokenLife
    /\ f.page \in SignedPages =>
         /\ f.binding <= drawn
         /\ \A s \in sessions : s.token = f.binding => s.user = f.who

\* A request by a button is for the page of the form that it posts.
GoodRequest(w) ==
    /\ GoodForm(w.posted)
    /\ w.button # "open" => w.posted.page = w.page /\ w.name \in Users
    /\ w.cookies["session"].value <= drawn

\* An anonymous form comes with its cookie, the end of a session with the
\* clearing of its cookie, and a session's cookie with nothing of the kind.
GoodReply(w) ==
    /\ GoodForm(w.form)
    /\ w.form.page \in AnonPages =>
         w.cookies = {SetCookie("anon", w.form.binding, AnonLife)}
    /\ \A c \in w.cookies : c.name = "anon" => c.left = AnonLife
    /\ \A c \in w.cookies : c.name = "session" => c = Clear("session") \/ c.value \in 1..drawn
    /\ w.over # NotOver => w.cookies = {Clear("session")}
    /\ w.over.token <= drawn

\* The values of session cookies that have been seen in this browser.
Seen(v) ==
    \/ jar["session"].value = v
    \/ v \in told
    \/ \E t \in Tabs : wire[t].at = "server" /\ wire[t].cookies["session"].value = v
    \/ \E t \in Tabs : wire[t].at = "browser" /\ wire[t].over.token = v

\* A session's cookie on its way to the browser.
Brings(t, v) ==
    wire[t].at = "browser" /\ \E c \in wire[t].cookies : c.name = "session" /\ c.value = v

TokensDrawn ==
    /\ \A s \in sessions : s.token <= drawn
    /\ jar["session"].value <= drawn
    /\ \A v \in told : v <= drawn

FormsGood == \A t \in Tabs : GoodForm(form[t])

WireGood ==
    \A t \in Tabs :
        /\ wire[t].at = "server" => GoodRequest(wire[t])
        /\ wire[t].at = "browser" => GoodReply(wire[t])

\* A session's cookie on its way has not been seen, and no other answer has it.
BroughtOnce ==
    \A t \in Tabs : \A v \in Nat \ {0} :
        Brings(t, v) => ~Seen(v) /\ \A u \in Tabs \ {t} : ~Brings(u, v)

IInv ==
    /\ TypeOK
    /\ TokensDrawn
    /\ FormsGood
    /\ WireGood
    /\ BroughtOnce
    /\ ActsForItsReader
    /\ AnonCookieOutlivesItsForms
    /\ GoneIsForgotten

-----------------------------------------------------------------------------
(* The parts of the state.                                                 *)

LEMMA RequestType ==
    ASSUME TypeOK, NEW t \in Tabs, wire[t].at = "server"
    PROVE  wire[t] \in Request
BY DEF TypeOK, Reply, Idle

LEMMA ReplyType ==
    ASSUME TypeOK, NEW t \in Tabs, wire[t].at = "browser"
    PROVE  wire[t] \in Reply
BY DEF TypeOK, Request, Idle

LEMMA SentType ==
    ASSUME TypeOK, NEW t \in Tabs, wire[t].at = "server", NEW n \in CookieName
    PROVE  Sent(t, n) \in Cookie /\ Sent(t, n).value \in Nat /\ Sent(t, n).left \in Nat
BY RequestType DEF Request, Jar, Sent, Cookie

LEMMA NoFormGood == TokenLife \in Nat /\ NoForm \in Form /\ GoodForm(NoForm)
BY BrowserAssumption DEF NoForm, Form, GoodForm, SignedPages

LEMMA ConstantTypes ==
    /\ TokenLife \in Nat /\ AnonLife \in Nat /\ HandshakeLife \in Nat
    /\ PendingLife \in Nat /\ SessionLife \in Nat
    /\ TokenLife < AnonLife
    /\ NotOver \in Ending /\ NotOver.token = 0
BY BrowserAssumption DEF NotOver, Ending

-----------------------------------------------------------------------------
(* What a handler does.                                                    *)

\* What an answer brings, once the handler is done.
GoodAnswer(t, c, f, over) ==
    /\ GoodForm(f)'
    /\ f.page \in AnonPages => c = {SetCookie("anon", f.binding, AnonLife)}
    /\ \A k \in c : k.name = "anon" => k.left = AnonLife
    /\ \A k \in c : k.name = "session" =>
         k = Clear("session") \/ (k.value = drawn + 1 /\ drawn' = drawn + 1)
    /\ over # NotOver => c = {Clear("session")}
    /\ over.token \in {0, Sent(t, "session").value}

\* Sessions end, or one is created under a value that was drawn for it.
SessionsStep ==
    \/ sessions' \subseteq sessions
    \/ /\ drawn' = drawn + 1
       /\ \E u \in Users :
            sessions' = sessions \cup {[token |-> drawn + 1, user |-> u, left |-> SessionLife]}

TablesTyped ==
    /\ account \in [Users -> {"none", "active", "banned"}]
    /\ owner \in [Identities -> Users \cup {NoOne}]
    /\ link \in [LinkKind -> {"none", "sent", "spent"}]
    /\ acted \subseteq [made : Users \cup {NoOne}, as : Users]
    /\ ActsForItsReader

Answered(t) ==
    /\ TablesTyped'
    /\ drawn' \in {drawn, drawn + 1}
    /\ SessionsStep
    /\ \E c \in SUBSET AnyCookie, f \in Form, to \in Nat, over \in Ending :
         Answer(t, c, f, to, over) /\ GoodAnswer(t, c, f, over)

LEMMA TablesStay ==
    ASSUME IInv, UNCHANGED <<account, owner, link, acted>>
    PROVE  TablesTyped'
BY DEF IInv, TypeOK, TablesTyped, ActsForItsReader

LEMMA RedirectAnswers ==
    ASSUME IInv, NEW t \in Tabs, wire[t].at = "server",
           NEW c \in SUBSET AnyCookie, \A k \in c : Sealed(k.name),
           Redirect(t, c), TablesTyped', SessionsStep, drawn' \in {drawn, drawn + 1}
    PROVE  Answered(t)
<1>1. GoodForm(NoForm)'
  BY NoFormGood DEF NoForm, GoodForm, SignedPages
<1>2. GoodAnswer(t, c, NoForm, NotOver)
  BY <1>1, ConstantTypes DEF GoodAnswer, NoForm, AnonPages, Sealed
<1> QED
  BY <1>2, NoFormGood, ConstantTypes DEF Answered, Redirect

LEMMA NothingAnswers ==
    ASSUME IInv, NEW t \in Tabs, wire[t].at = "server", Nothing(t)
    PROVE  Answered(t)
BY TablesStay, RedirectAnswers DEF Nothing, tables, SessionsStep

LEMMA SignInAnswers ==
    ASSUME IInv, NEW t \in Tabs, wire[t].at = "server", NEW u \in Users,
           NEW others \in SUBSET AnyCookie, \A k \in others : Sealed(k.name),
           SignIn(t, u, others), TablesTyped'
    PROVE  Answered(t)
<1> DEFINE c == {SetCookie("session", drawn + 1, SessionLife)} \cup others
<1>1. GoodForm(NoForm)'
  BY NoFormGood DEF NoForm, GoodForm, SignedPages
<1>2. c \in SUBSET AnyCookie
  BY ConstantTypes DEF IInv, TypeOK, SetCookie, AnyCookie, CookieName
<1>3. GoodAnswer(t, c, NoForm, NotOver)
  BY <1>1, ConstantTypes DEF GoodAnswer, NoForm, AnonPages, Sealed, SetCookie, SignIn
<1>4. Answer(t, c, NoForm, 0, NotOver) /\ SessionsStep /\ drawn' = drawn + 1
  BY DEF SignIn, Redirect, SessionsStep
<1> HIDE DEF c
<1> QED
  BY <1>2, <1>3, <1>4, NoFormGood, ConstantTypes DEF Answered

LEMMA AnonPageAnswers ==
    ASSUME IInv, NEW t \in Tabs, wire[t].at = "server",
           NEW page \in AnonPages, NEW who \in Users \cup {NoOne},
           AnonPage(t, page, who)
    PROVE  Answered(t)
<1> DEFINE f == Minted(page, AnonValue(t), who)
           c == AnonCookie(t)
<1>1. AnonValue(t) \in Nat
  BY SentType DEF IInv, TypeOK, AnonValue, CookieName
<1>2. f \in Form /\ c \in SUBSET AnyCookie
  BY <1>1, ConstantTypes
     DEF Minted, Form, AnonCookie, SetCookie, AnyCookie, CookieName
<1>3. GoodForm(f)'
  BY ConstantTypes DEF GoodForm, Minted, AnonPages, SignedPages
<1>4. f.page \in AnonPages /\ c = {SetCookie("anon", f.binding, AnonLife)}
  BY DEF Minted, AnonCookie
<1>5. GoodAnswer(t, c, f, NotOver)
  BY <1>3, <1>4, ConstantTypes DEF GoodAnswer, SetCookie
<1>6. Answer(t, c, f, 0, NotOver) /\ SessionsStep /\ drawn' \in {drawn, drawn + 1}
  BY DEF AnonPage, SessionsStep, tables
<1>7. TablesTyped'
  BY TablesStay DEF AnonPage, tables
<1> HIDE DEF c, f
<1> QED
  BY <1>2, <1>5, <1>6, <1>7, ConstantTypes DEF Answered

LEMMA PageAnswers ==
    ASSUME IInv, NEW t \in Tabs, wire[t].at = "server",
           NEW s \in sessions, NEW page \in SignedPages, Page(s, t, page)
    PROVE  Answered(t)
<1> DEFINE f == Minted(page, s.token, s.user)
<1>1. s \in Session /\ s.token <= drawn
  BY DEF IInv, TypeOK, TokensDrawn
<1>2. f \in Form
  BY <1>1, ConstantTypes DEF Minted, Form, Session
<1>3. GoodForm(f)'
  <2>1. UNCHANGED <<drawn, sessions>>
    BY DEF Page, tables
  <2>2. \A r \in sessions : r.token = s.token => r.user = s.user
    BY DEF IInv, TypeOK
  <2> QED
    BY <1>1, <2>1, <2>2, ConstantTypes DEF GoodForm, Minted
<1>4. f.page \notin AnonPages
  BY DEF Minted, AnonPages, SignedPages
<1>5. GoodAnswer(t, {}, f, NotOver)
  BY <1>3, <1>4, ConstantTypes DEF GoodAnswer
<1>6. Answer(t, {}, f, 0, NotOver) /\ SessionsStep /\ drawn' \in {drawn, drawn + 1}
  BY DEF Page, SessionsStep, tables
<1>7. TablesTyped'
  BY TablesStay DEF Page, tables
<1> HIDE DEF f
<1> QED
  BY <1>2, <1>5, <1>6, <1>7, ConstantTypes DEF Answered

\* The one that a form acts for is the one that it was made for.
LEMMA ActAnswers ==
    ASSUME IInv, NEW t \in Tabs, wire[t].at = "server",
           wire[t].button # "open", wire[t].page \in SignedPages,
           NEW s \in sessions, Act(s, t), sessions' \subseteq sessions
    PROVE  Answered(t)
<1>1. GoodForm(Posted(t)) /\ Posted(t).page \in SignedPages
  BY DEF IInv, WireGood, GoodRequest, Posted
<1>2. Posted(t).binding = s.token
  BY DEF Act, Verified
<1>3. Posted(t).who = s.user
  BY <1>1, <1>2 DEF GoodForm
<1>4. s.user \in Users
  BY DEF IInv, TypeOK, Session
<1>5. TablesTyped'
  BY <1>3, <1>4 DEF IInv, TypeOK, TablesTyped, ActsForItsReader, Act
<1> QED
  BY <1>5, RedirectAnswers DEF Act, SessionsStep

-----------------------------------------------------------------------------
(* Every handler answers in one of these ways.                             *)

LEMMA TypedIsUser ==
    ASSUME IInv, NEW t \in Tabs, wire[t].at = "server", wire[t].button # "open"
    PROVE  Typed(t) \in Users
BY DEF IInv, WireGood, GoodRequest, Typed

LEMMA FormPagesAnswer ==
    ASSUME IInv, NEW t \in Tabs, wire[t].at = "server",
           \/ LoginForm(t) \/ RegisterForm(t) \/ ForgotForm(t) \/ VerifyForm(t)
           \/ ResetForm(t) \/ FinishForm(t)
    PROVE  Answered(t)
<1>1. /\ NoOne \in Users \cup {NoOne} /\ Founder \in Users \cup {NoOne}
      /\ {"login", "register", "forgot", "verify", "reset", "finish"} \subseteq AnonPages
  BY BrowserAssumption DEF AnonPages
<1> QED
  BY <1>1, AnonPageAnswers, NothingAnswers
     DEF LoginForm, RegisterForm, ForgotForm, VerifyForm, ResetForm, FinishForm

LEMMA LoginAnswers ==
    ASSUME IInv, NEW t \in Tabs, wire[t].at = "server", LoginSubmit(t)
    PROVE  Answered(t)
<1>1. CASE Nothing(t)
  BY <1>1, NothingAnswers
<1>2. CASE /\ SignIn(t, Typed(t), {})
           /\ UNCHANGED <<account, owner, link, acted>>
  <2>1. Typed(t) \in Users
    BY TypedIsUser DEF LoginSubmit, AnonPosted, Asked
  <2> QED
    BY <1>2, <2>1, TablesStay, SignInAnswers
<1> QED
  BY <1>1, <1>2 DEF LoginSubmit

LEMMA RegisterAnswers ==
    ASSUME IInv, NEW t \in Tabs, wire[t].at = "server", RegisterSubmit(t)
    PROVE  Answered(t)
<1>1. CASE Nothing(t)
  BY <1>1, NothingAnswers
<1>2. CASE /\ account' = [account EXCEPT ![Typed(t)] = "active"]
           /\ SignIn(t, Typed(t), {})
           /\ UNCHANGED <<owner, link, acted>>
  <2>1. Typed(t) \in Users
    BY TypedIsUser DEF RegisterSubmit, AnonPosted, Asked
  <2>2. TablesTyped'
    BY <1>2 DEF IInv, TypeOK, TablesTyped, ActsForItsReader
  <2> QED
    BY <1>2, <2>1, <2>2, SignInAnswers
<1> QED
  BY <1>1, <1>2 DEF RegisterSubmit

LEMMA LinkAnswers ==
    ASSUME IInv, NEW t \in Tabs, wire[t].at = "server",
           NEW k \in LinkKind, NEW to \in {"sent", "spent"},
           link' = [link EXCEPT ![k] = to], Redirect(t, {}), sessions' \subseteq sessions,
           UNCHANGED <<account, owner, drawn, acted>>
    PROVE  Answered(t)
<1>1. TablesTyped'
  BY DEF IInv, TypeOK, TablesTyped, ActsForItsReader
<1> QED
  BY <1>1, RedirectAnswers DEF SessionsStep

LEMMA MailedAnswer ==
    ASSUME IInv, NEW t \in Tabs, wire[t].at = "server",
           ForgotSubmit(t) \/ VerifySubmit(t) \/ ResetSubmit(t)
    PROVE  Answered(t)
<1>1. {"verify", "reset"} \subseteq LinkKind
  BY DEF LinkKind
<1>2. CASE ForgotSubmit(t)
  BY <1>1, <1>2, NothingAnswers, LinkAnswers DEF ForgotSubmit
<1>3. CASE VerifySubmit(t)
  BY <1>1, <1>3, NothingAnswers, LinkAnswers DEF VerifySubmit
<1>4. CASE ResetSubmit(t)
  BY <1>1, <1>4, NothingAnswers, LinkAnswers DEF ResetSubmit
<1> QED
  BY <1>2, <1>3, <1>4

LEMMA StartAnswers ==
    ASSUME IInv, NEW t \in Tabs, wire[t].at = "server", StartOauth(t)
    PROVE  Answered(t)
<1> DEFINE c == {SetCookie("oauth", drawn + 1, HandshakeLife)}
<1>1. c \in SUBSET AnyCookie /\ drawn + 1 \in Nat
  BY ConstantTypes DEF IInv, TypeOK, SetCookie, AnyCookie, CookieName
<1>2. GoodForm(NoForm)'
  BY NoFormGood DEF NoForm, GoodForm, SignedPages
<1>3. GoodAnswer(t, c, NoForm, NotOver)
  BY <1>2, ConstantTypes DEF GoodAnswer, NoForm, AnonPages, SetCookie
<1>4. Answer(t, c, NoForm, drawn + 1, NotOver) /\ SessionsStep /\ drawn' = drawn + 1
  BY DEF StartOauth, SessionsStep, tables
<1>5. TablesTyped'
  BY TablesStay DEF StartOauth, tables
<1> HIDE DEF c
<1> QED
  BY <1>1, <1>3, <1>4, <1>5, NoFormGood, ConstantTypes DEF Answered

LEMMA CallbackAnswers ==
    ASSUME IInv, NEW t \in Tabs, wire[t].at = "server", Callback(t)
    PROVE  Answered(t)
<1> DEFINE i == wire[t].answer.id
           oauth == {Clear("oauth")}
           later == {Clear("oauth"), SetCookie("pending", i, PendingLife)}
<1>1. i \in Identities \cup {0} /\ i \in Nat
  <2>1. wire[t] \in Request
    BY RequestType DEF IInv
  <2>2. wire[t].answer \in [state : Nat, id : Identities \cup {0}]
    BY <2>1 DEF Request
  <2>3. i \in Identities \cup {0}
    BY <2>2
  <2>4. \A j \in Identities \cup {0} : j \in Nat
    BY BrowserAssumption
  <2> QED
    BY <2>3, <2>4
<1>2. /\ oauth \in SUBSET AnyCookie /\ later \in SUBSET AnyCookie
      /\ \A k \in oauth \cup later : Sealed(k.name)
  BY <1>1, ConstantTypes DEF Clear, SetCookie, AnyCookie, CookieName, Sealed
<1>3. ASSUME Failed(t) PROVE Answered(t)
  BY <1>2, <1>3, TablesStay, RedirectAnswers DEF Failed, tables, SessionsStep
<1>4. ASSUME Redirect(t, later), UNCHANGED <<tables, drawn, acted>>
      PROVE  Answered(t)
  BY <1>2, <1>4, TablesStay, RedirectAnswers DEF tables, SessionsStep
<1>5. ASSUME i # 0, owner[i] # NoOne, SignIn(t, owner[i], oauth),
             UNCHANGED <<account, owner, link, acted>>
      PROVE  Answered(t)
  <2>1. owner[i] \in Users
    BY <1>1, <1>5 DEF IInv, TypeOK
  <2> QED
    BY <1>2, <1>5, <2>1, TablesStay, SignInAnswers
<1> QED
  BY <1>3, <1>4, <1>5 DEF Callback

LEMMA FinishAnswers ==
    ASSUME IInv, NEW t \in Tabs, wire[t].at = "server", FinishSubmit(t)
    PROVE  Answered(t)
<1> DEFINE i == Sent(t, "pending").value
           pending == {Clear("pending")}
<1>1. Typed(t) \in Users
  BY TypedIsUser DEF FinishSubmit, Asked
<1>2. pending \in SUBSET AnyCookie /\ \A k \in pending : Sealed(k.name)
  BY DEF Clear, SetCookie, AnyCookie, CookieName, Sealed
<1>3. CASE Nothing(t)
  BY <1>3, NothingAnswers
<1>4. ASSUME account' = [account EXCEPT ![Typed(t)] = "active"],
             owner' = [owner EXCEPT ![i] = Typed(t)],
             SignIn(t, Typed(t), pending), UNCHANGED <<link, acted>>
      PROVE  Answered(t)
  <2>1. TablesTyped'
    BY <1>1, <1>4 DEF IInv, TypeOK, TablesTyped, ActsForItsReader
  <2> QED
    BY <1>1, <1>2, <1>4, <2>1, SignInAnswers
<1> QED
  BY <1>3, <1>4 DEF FinishSubmit

LEMMA ToSignInAnswers ==
    ASSUME IInv, NEW t \in Tabs, wire[t].at = "server", ToSignIn(t)
    PROVE  Answered(t)
BY NothingAnswers DEF ToSignIn

LEMMA SignedPagesAnswer ==
    ASSUME IInv, NEW t \in Tabs, wire[t].at = "server",
           \/ Settings(t) \/ ReplyForm(t) \/ ComposeForm(t) \/ EditForm(t)
           \/ ReportForm(t) \/ AppealForm(t)
    PROVE  Answered(t)
<1>1. ASSUME NEW page \in SignedPages, SignedPage(t, page)
      PROVE  Answered(t)
  BY <1>1, ToSignInAnswers, PageAnswers DEF SignedPage
<1> QED
  BY <1>1 DEF Settings, ReplyForm, ComposeForm, EditForm, ReportForm, AppealForm, SignedPages

LEMMA DoneAnswers ==
    ASSUME IInv, NEW t \in Tabs, wire[t].at = "server",
           wire[t].button # "open", wire[t].page \in SignedPages, Done(t)
    PROVE  Answered(t)
BY ToSignInAnswers, NothingAnswers, ActAnswers DEF Done, Expired

LEMMA DoneOrAgainAnswers ==
    ASSUME IInv, NEW t \in Tabs, wire[t].at = "server",
           wire[t].button # "open", wire[t].page \in SignedPages,
           NEW page \in SignedPages, DoneOrAgain(t, page)
    PROVE  Answered(t)
BY ToSignInAnswers, PageAnswers, ActAnswers DEF DoneOrAgain

LEMMA FormsAnswer ==
    ASSUME IInv, NEW t \in Tabs, wire[t].at = "server",
           \/ ReplySubmit(t) \/ ComposeSubmit(t) \/ EditSubmit(t) \/ DeleteSubmit(t)
           \/ ReportSubmit(t) \/ AppealSubmit(t) \/ ChangeEmail(t)
    PROVE  Answered(t)
<1>1. {"settings", "reply", "thread", "edit", "report", "appeal"} = SignedPages
  BY DEF SignedPages
<1>2. CASE ReplySubmit(t) \/ ComposeSubmit(t) \/ EditSubmit(t)
  BY <1>1, <1>2, DoneOrAgainAnswers DEF ReplySubmit, ComposeSubmit, EditSubmit, Asked
<1>3. CASE DeleteSubmit(t)
  BY <1>1, <1>3, DoneAnswers, PageAnswers DEF DeleteSubmit, Asked
<1>4. CASE ReportSubmit(t) \/ AppealSubmit(t) \/ ChangeEmail(t)
  BY <1>1, <1>4, DoneAnswers DEF ReportSubmit, AppealSubmit, ChangeEmail, Asked
<1> QED
  BY <1>2, <1>3, <1>4

LEMMA SettingsAnswer ==
    ASSUME IInv, NEW t \in Tabs, wire[t].at = "server",
           EndOtherSessions(t) \/ ChangePassword(t)
    PROVE  Answered(t)
<1>1. wire[t].button # "open" /\ wire[t].page \in SignedPages
  BY DEF EndOtherSessions, ChangePassword, Asked, SignedPages
<1>2. \A s \in sessions : OthersEnded(s) \subseteq sessions
  BY DEF OthersEnded
<1>3. CASE EndOtherSessions(t)
  BY <1>1, <1>2, <1>3, ToSignInAnswers, NothingAnswers, ActAnswers DEF EndOtherSessions, Expired
<1>4. CASE ChangePassword(t)
  BY <1>1, <1>2, <1>4, ToSignInAnswers, NothingAnswers, ActAnswers DEF ChangePassword
<1> QED
  BY <1>3, <1>4

LEMMA EndAnswers ==
    ASSUME IInv, NEW t \in Tabs, wire[t].at = "server", NEW asked \in BOOLEAN,
           Answer(t, {Clear("session")}, NoForm, 0, EndOf(t, asked)),
           sessions' \subseteq sessions, UNCHANGED <<account, owner, link, drawn, acted>>
    PROVE  Answered(t)
<1> DEFINE c == {Clear("session")}
<1>1. c \in SUBSET AnyCookie
  BY DEF Clear, SetCookie, AnyCookie, CookieName
<1>2. EndOf(t, asked) \in Ending /\ EndOf(t, asked).token = Sent(t, "session").value
  BY SentType DEF IInv, EndOf, Ending, CookieName
<1>3. GoodForm(NoForm)'
  BY NoFormGood DEF NoForm, GoodForm, SignedPages
<1>4. GoodAnswer(t, c, NoForm, EndOf(t, asked))
  BY <1>2, <1>3 DEF GoodAnswer, NoForm, AnonPages, Clear, SetCookie
<1>5. SessionsStep
  BY DEF SessionsStep
<1> HIDE DEF c
<1> QED
  BY <1>1, <1>2, <1>4, <1>5, TablesStay, NoFormGood DEF Answered, c

LEMMA LogoutAnswers ==
    ASSUME IInv, NEW t \in Tabs, wire[t].at = "server", Logout(t)
    PROVE  Answered(t)
BY EndAnswers DEF Logout, LogoutCookies

LEMMA ApiMeAnswers ==
    ASSUME IInv, NEW t \in Tabs, wire[t].at = "server", ApiMe(t)
    PROVE  Answered(t)
<1>1. CASE Redirect(t, {})
  BY <1>1, TablesStay, RedirectAnswers DEF ApiMe, tables, SessionsStep
<1>2. CASE Answer(t, {Clear("session")}, NoForm, 0, EndOf(t, FALSE))
  BY <1>2, EndAnswers DEF ApiMe, tables
<1> QED
  BY <1>1, <1>2 DEF ApiMe

LEMMA HandleAnswers ==
    ASSUME IInv, NEW t \in Tabs, Handle(t)
    PROVE  Answered(t)
<1>1. wire[t].at = "server"
  BY DEF Handle
<1> QED
  BY <1>1, FormPagesAnswer, LoginAnswers, RegisterAnswers, MailedAnswer, StartAnswers,
     CallbackAnswers, FinishAnswers, SignedPagesAnswer, FormsAnswer, SettingsAnswer,
     LogoutAnswers, ApiMeAnswers DEF Handle

-----------------------------------------------------------------------------
(* What an answer preserves.                                               *)

\* A form stays good while sessions end and values are drawn for new ones.
LEMMA GoodFormStays ==
    ASSUME IInv, SessionsStep, drawn' \in {drawn, drawn + 1}, NEW f \in Form, GoodForm(f)
    PROVE  GoodForm(f)'
<1>1. drawn \in Nat /\ f.binding \in Nat
  BY DEF IInv, TypeOK, Form
<1>2. ASSUME f.page \in SignedPages, NEW s \in sessions', s.token = f.binding
      PROVE  s.user = f.who
  <2>1. f.binding <= drawn
    BY <1>2 DEF GoodForm
  <2>2. s \in sessions
    BY <1>1, <1>2, <2>1 DEF SessionsStep
  <2> QED
    BY <1>2, <2>2 DEF GoodForm
<1> QED
  BY <1>1, <1>2 DEF GoodForm

LEMMA SessionsTyped ==
    ASSUME IInv, SessionsStep, drawn' \in {drawn, drawn + 1}
    PROVE  /\ drawn' \in Nat
           /\ sessions' \subseteq Session
           /\ \A r, s \in sessions' : r.token = s.token => r = s
           /\ \A s \in sessions' : s.token <= drawn'
<1>1. /\ drawn \in Nat /\ sessions \subseteq Session
      /\ \A r, s \in sessions : r.token = s.token => r = s
      /\ \A s \in sessions : s.token <= drawn /\ s.token \in Nat
  BY DEF IInv, TypeOK, TokensDrawn, Session
<1>2. CASE sessions' \subseteq sessions
  BY <1>1, <1>2
<1>3. ASSUME drawn' = drawn + 1, NEW u \in Users,
             sessions' = sessions \cup {[token |-> drawn + 1, user |-> u, left |-> SessionLife]}
      PROVE  /\ drawn' \in Nat
             /\ sessions' \subseteq Session
             /\ \A r, s \in sessions' : r.token = s.token => r = s
             /\ \A s \in sessions' : s.token <= drawn'
  <2>1. [token |-> drawn + 1, user |-> u, left |-> SessionLife] \in Session
    BY <1>1, ConstantTypes DEF Session
  <2> QED
    BY <1>1, <1>3, <2>1
<1> QED
  BY <1>2, <1>3 DEF SessionsStep

\* What a handler leaves alone.
Aside == UNCHANGED <<jar, form, away, requests, crossed, told>>

LEMMA AnswerKeeps ==
    ASSUME IInv, NEW t \in Tabs, wire[t].at = "server", Answered(t), Aside
    PROVE  IInv'
<1> PICK c \in SUBSET AnyCookie, f \in Form, to \in Nat, over \in Ending :
         Answer(t, c, f, to, over) /\ GoodAnswer(t, c, f, over)
  BY DEF Answered
<1> DEFINE w == [at |-> "browser", cookies |-> c, form |-> f, away |-> to, over |-> over]
<1>1. /\ wire' = [wire EXCEPT ![t] = w]
      /\ w.at = "browser" /\ w.cookies = c /\ w.form = f /\ w.over = over
  BY DEF Answer
<1>2. /\ SessionsStep /\ drawn' \in {drawn, drawn + 1} /\ TablesTyped'
      /\ drawn \in Nat
  BY DEF Answered, IInv, TypeOK
<1>3. w \in Reply
  BY DEF Reply, AnyCookie, Ending
<1> HIDE DEF w
<1>4. /\ wire'[t] = w
      /\ \A u \in Tabs \ {t} : wire'[u] = wire[u]
  BY <1>1 DEF IInv, TypeOK
<1>5. TypeOK'
  <2>1. wire' \in [Tabs -> Request \cup Reply \cup {Idle}]
    BY <1>1, <1>3 DEF IInv, TypeOK
  <2> QED
    BY <1>2, <2>1, SessionsTyped DEF IInv, TypeOK, TablesTyped, Aside
<1>6. TokensDrawn'
  <2>1. jar["session"].value \in Nat /\ \A v \in told : v \in Nat
    BY DEF IInv, TypeOK, Jar, Cookie, CookieName
  <2> QED
    BY <1>2, <2>1, SessionsTyped DEF IInv, TokensDrawn, Aside
<1>7. FormsGood'
  <2>1. \A u \in Tabs : form[u] \in Form /\ GoodForm(form[u])
    BY DEF IInv, TypeOK, FormsGood
  <2> QED
    BY <1>2, <2>1, GoodFormStays DEF FormsGood, Aside, GoodForm
<1>8. WireGood'
  <2>1. GoodReply(w)'
    <3>1. Sent(t, "session").value \in Nat /\ Sent(t, "session").value <= drawn
      BY SentType DEF IInv, WireGood, GoodRequest, Sent, CookieName
    <3>2. over.token <= drawn'
      BY <1>2, <3>1 DEF GoodAnswer
    <3>3. \A k \in c : k.name = "session" => k = Clear("session") \/ k.value \in 1..drawn'
      BY <1>2 DEF GoodAnswer
    <3> QED
      BY <1>1, <3>2, <3>3 DEF GoodAnswer, GoodReply
  <2>2. ASSUME NEW u \in Tabs \ {t}, wire[u].at = "server"
        PROVE  GoodRequest(wire[u])'
    <3>1. wire[u] \in Request /\ GoodRequest(wire[u])
      BY <2>2, RequestType DEF IInv, WireGood
    <3>2. wire[u].posted \in Form /\ wire[u].cookies["session"].value \in Nat
      BY <3>1 DEF Request, Jar, Cookie, CookieName
    <3>3. GoodForm(wire[u].posted)'
      BY <1>2, <1>4, <3>1, <3>2, GoodFormStays DEF GoodRequest, GoodForm
    <3> QED
      BY <1>2, <1>4, <3>1, <3>2, <3>3 DEF GoodRequest, GoodForm
  <2>3. ASSUME NEW u \in Tabs \ {t}, wire[u].at = "browser"
        PROVE  GoodReply(wire[u])'
    <3>1. wire[u] \in Reply /\ GoodReply(wire[u])
      BY <2>3, ReplyType DEF IInv, WireGood
    <3>2. wire[u].form \in Form /\ wire[u].over.token \in Nat
      BY <3>1 DEF Reply
    <3> QED
      BY <1>2, <1>4, <3>1, <3>2, GoodFormStays DEF GoodReply, GoodForm
  <2> QED
    BY <1>1, <1>4, <2>1, <2>2, <2>3 DEF WireGood
<1>9. BroughtOnce'
  <2>1. \A u \in Tabs : \A v \in Nat \ {0} : Brings(u, v) => v <= drawn
    BY <1>2 DEF IInv, WireGood, GoodReply, Brings, Clear, SetCookie
  <2>2. \A v \in Nat \ {0} : Seen(v) => v <= drawn
    BY <1>2 DEF IInv, WireGood, GoodReply, GoodRequest, Seen, TokensDrawn
  <2>3. \A v \in Nat \ {0} : Seen(v)' => Seen(v)
    <3>1. \A v \in Nat \ {0} : over.token = v => Seen(v)
      BY DEF GoodAnswer, Seen, Sent
    <3> QED
      BY <1>1, <1>4, <3>1 DEF Seen, Aside
  <2>4. \A v \in Nat \ {0} : Brings(t, v)' => v = drawn + 1
    BY <1>1, <1>4 DEF Brings, GoodAnswer, Clear, SetCookie
  <2>5. \A u \in Tabs \ {t} : \A v \in Nat \ {0} : Brings(u, v)' => Brings(u, v)
    BY <1>4 DEF Brings
  <2>6. \A v \in Nat \ {0} : v <= drawn => v # drawn + 1
    BY <1>2
  <2> QED
    BY <2>1, <2>2, <2>3, <2>4, <2>5, <2>6 DEF IInv, BroughtOnce
<1>10. ActsForItsReader' /\ AnonCookieOutlivesItsForms' /\ GoneIsForgotten'
  BY <1>2 DEF IInv, TablesTyped, AnonCookieOutlivesItsForms, GoneIsForgotten, Aside
<1> QED
  BY <1>5, <1>6, <1>7, <1>8, <1>9, <1>10 DEF IInv

-----------------------------------------------------------------------------
(* What the browser, the network, the clock and the moderators preserve.   *)

LEMMA Beginning == Init => IInv
<1> SUFFICES ASSUME Init PROVE IInv
  OBVIOUS
<1> USE ConstantTypes
<1>1. /\ NoForms \in [Tabs -> Form] /\ \A t \in Tabs : NoForms[t] = NoForm
      /\ NoForm \in Form /\ NoForm.page = "none" /\ NoForm.left = 0
  BY DEF NoForms, NoForm, Form
<1>2. /\ NoCookies \in Jar
      /\ \A n, m \in CookieName, v \in Nat, l \in Nat :
           /\ Holding(n, v, l) \in Jar
           /\ Holding(n, v, l)[m] = IF m = n THEN [value |-> v, left |-> l] ELSE NoCookie
      /\ \A n \in CookieName : NoCookies[n] = NoCookie
      /\ NoCookie.value = 0 /\ NoCookie.left = 0
  BY DEF NoCookies, NoCookie, Jar, Cookie, CookieName, Holding
<1>3. \A i \in Identities : i \in Nat
  BY BrowserAssumption
<1>4. /\ jar \in Jar /\ jar["session"].value \in {0, 1} /\ jar["anon"].left = 0
  <2>1. {"session", "anon", "pending"} \subseteq CookieName
    BY DEF CookieName
  <2>2. CASE jar = NoCookies
    BY <1>2, <2>1, <2>2
  <2>3. ASSUME NEW i \in Identities, jar = Holding("pending", i, PendingLife)
        PROVE  /\ jar \in Jar /\ jar["session"].value \in {0, 1} /\ jar["anon"].left = 0
    <3>1. i \in Nat
      BY <1>3
    <3>2. jar["session"] = NoCookie /\ jar["anon"] = NoCookie /\ jar \in Jar
      BY <2>3, <3>1 DEF Holding, NoCookies, NoCookie, Jar, Cookie, CookieName
    <3> QED
      BY <1>2, <3>2
  <2>4. CASE jar = Holding("session", 1, SessionLife)
    <3>1. /\ jar["session"] = [value |-> 1, left |-> SessionLife]
          /\ jar["anon"] = NoCookie /\ jar \in Jar
      BY <1>2, <2>1, <2>4
    <3> QED
      BY <1>2, <3>1
  <2> QED
    BY <2>2, <2>3, <2>4 DEF Init
<1>5. /\ account \in [Users -> {"none", "active", "banned"}]
      /\ owner \in [Identities -> Users \cup {NoOne}]
      /\ link \in [LinkKind -> {"none", "sent", "spent"}]
  BY BrowserAssumption DEF Init
<1>6. /\ sessions \subseteq Session /\ \A s \in sessions : s.token = 1 /\ s.user = Founder
      /\ \A r, s \in sessions : r.token = s.token => r = s
  BY BrowserAssumption DEF Init, Session
<1>7. \A t \in Tabs : wire[t] = Idle /\ wire[t].at = "idle"
  BY DEF Init, Idle
<1>8. /\ wire \in [Tabs -> Request \cup Reply \cup {Idle}] /\ away \in [Tabs -> Nat]
  BY DEF Init
<1>9. /\ form \in [Tabs -> Form]
      /\ \A t \in Tabs : \/ form[t] = NoForm
                         \/ form[t] = [page |-> "settings", binding |-> 1,
                                       left |-> TokenLife, who |-> Founder]
  <2>1. [page |-> "settings", binding |-> 1, left |-> TokenLife, who |-> Founder] \in Form
    BY BrowserAssumption DEF Form, SignedPages
  <2>2. CASE form = NoForms
    BY <1>1, <2>2
  <2>3. ASSUME NEW t \in Tabs,
               form = [NoForms EXCEPT ![t] = [page |-> "settings", binding |-> 1,
                                              left |-> TokenLife, who |-> Founder]]
        PROVE  <1>9!1 /\ <1>9!2
    BY <1>1, <2>1, <2>3
  <2> QED
    BY <2>2, <2>3 DEF Init
<1>10. /\ drawn = 1 /\ requests = 0 /\ acted = {} /\ crossed = {} /\ told = {}
  BY DEF Init
<1>11. TypeOK
  BY <1>4, <1>5, <1>6, <1>8, <1>9, <1>10, BrowserAssumption DEF TypeOK
<1>12. FormsGood
  BY <1>6, <1>9, <1>10 DEF FormsGood, GoodForm, NoForm, SignedPages
<1>13. AnonCookieOutlivesItsForms
  BY <1>9 DEF AnonCookieOutlivesItsForms, NoForm, AnonPages
<1>14. TokensDrawn /\ WireGood /\ BroughtOnce /\ ActsForItsReader /\ GoneIsForgotten
  BY <1>4, <1>6, <1>7, <1>10
     DEF TokensDrawn, WireGood, BroughtOnce, Brings, ActsForItsReader, GoneIsForgotten
<1> QED
  BY <1>11, <1>12, <1>13, <1>14 DEF IInv

LEMMA SendKeeps ==
    ASSUME IInv, NEW t \in Tabs, NEW page \in PageName, NEW button \in ButtonName,
           NEW posted \in Form, NEW name \in Users \cup {NoOne},
           NEW answer \in [state : Nat, id : Identities \cup {0}],
           GoodForm(posted), button # "open" => posted.page = page /\ name \in Users,
           Send(t, page, button, posted, name, answer)
    PROVE  IInv'
<1> DEFINE w == [at |-> "server", page |-> page, button |-> button, cookies |-> jar,
                 posted |-> posted, name |-> name, answer |-> answer]
<1>1. /\ wire' = [wire EXCEPT ![t] = w]
      /\ w.at = "server" /\ w.cookies = jar /\ w.posted = posted
      /\ w.button = button /\ w.page = page /\ w.name = name
  BY DEF Send
<1>2. UNCHANGED <<account, owner, sessions, link, jar, form, away, drawn, acted, crossed, told>>
  BY DEF Send, tables, history
<1>3. w \in Request
  BY DEF Request, IInv, TypeOK
<1> HIDE DEF w
<1>4. wire'[t] = w /\ \A u \in Tabs \ {t} : wire'[u] = wire[u]
  BY <1>1 DEF IInv, TypeOK
<1>5. TypeOK'
  <2>1. requests' \in 0..MaxRequests
    BY BrowserAssumption DEF Send, IInv, TypeOK
  <2>2. wire' \in [Tabs -> Request \cup Reply \cup {Idle}]
    BY <1>1, <1>3 DEF IInv, TypeOK
  <2> QED
    BY <1>2, <2>1, <2>2 DEF IInv, TypeOK
<1>6. TokensDrawn' /\ FormsGood'
  BY <1>2 DEF IInv, TokensDrawn, FormsGood, GoodForm
<1>7. WireGood'
  BY <1>1, <1>2, <1>4 DEF IInv, TokensDrawn, WireGood, GoodRequest, GoodReply, GoodForm
<1>8. BroughtOnce'
  <2>1. \A u \in Tabs : \A v \in Nat \ {0} : Brings(u, v)' => Brings(u, v)
    BY <1>1, <1>4 DEF Brings
  <2>2. \A v \in Nat \ {0} : Seen(v)' => Seen(v)
    BY <1>1, <1>2, <1>4 DEF Seen
  <2> QED
    BY <2>1, <2>2 DEF IInv, BroughtOnce
<1>9. ActsForItsReader' /\ AnonCookieOutlivesItsForms' /\ GoneIsForgotten'
  BY <1>2 DEF IInv, ActsForItsReader, AnonCookieOutlivesItsForms, GoneIsForgotten
<1> QED
  BY <1>5, <1>6, <1>7, <1>8, <1>9 DEF IInv

LEMMA NoAnswerType == NoAnswer \in [state : Nat, id : Identities \cup {0}]
BY DEF NoAnswer

LEMMA VisitKeeps ==
    ASSUME IInv, NEW t \in Tabs, Visit(t)
    PROVE  IInv'
<1>1. PICK page \in AnonPages \cup SignedPages \cup {"start", "me", "logout"} :
          Send(t, page, "open", NoForm, NoOne, NoAnswer)
  BY DEF Visit
<1>2. page \in PageName /\ "open" \in ButtonName
  BY DEF PageName, ButtonName
<1> QED
  BY <1>1, <1>2, NoFormGood, NoAnswerType, SendKeeps

LEMMA SubmitKeeps ==
    ASSUME IInv, NEW t \in Tabs, Submit(t)
    PROVE  IInv'
<1>1. form[t] \in Form /\ GoodForm(form[t])
  BY DEF IInv, TypeOK, FormsGood
<1>2. PICK button \in Buttons(form[t].page), name \in Users :
          Send(t, form[t].page, button, form[t], name, NoAnswer)
  BY DEF Submit
<1>3. form[t].page \in PageName
  BY <1>1 DEF Form, PageName
<1>4. button \in ButtonName
  BY DEF Buttons, ButtonName
<1> QED
  BY <1>1, <1>2, <1>3, <1>4, NoAnswerType, SendKeeps

LEMMA ReturnKeeps ==
    ASSUME IInv, NEW t \in Tabs, Return(t)
    PROVE  IInv'
<1>1. PICK i \in Identities \cup {0} :
          Send(t, "callback", "open", NoForm, NoOne, [state |-> away[t], id |-> i])
  BY DEF Return
<1>2. [state |-> away[t], id |-> i] \in [state : Nat, id : Identities \cup {0}]
  BY DEF IInv, TypeOK
<1>3. "callback" \in PageName /\ "open" \in ButtonName
  BY DEF PageName, ButtonName
<1> QED
  BY <1>1, <1>2, <1>3, NoFormGood, SendKeeps

LEMMA LoseKeeps ==
    ASSUME IInv, NEW t \in Tabs, Lose(t)
    PROVE  IInv'
<1>1. /\ wire' = [wire EXCEPT ![t] = Idle] /\ Idle.at = "idle"
      /\ UNCHANGED <<account, owner, sessions, link, jar, form, away, drawn, requests,
                     acted, crossed, told>>
  BY DEF Lose, Idle, tables, history
<1>2. wire'[t] = Idle /\ \A u \in Tabs \ {t} : wire'[u] = wire[u]
  BY <1>1 DEF IInv, TypeOK
<1>3. TypeOK'
  BY <1>1 DEF IInv, TypeOK
<1>4. TokensDrawn' /\ FormsGood' /\ WireGood'
  BY <1>1, <1>2 DEF IInv, TokensDrawn, FormsGood, WireGood, GoodRequest, GoodReply, GoodForm
<1>5. BroughtOnce'
  <2>1. \A u \in Tabs : \A v \in Nat \ {0} : Brings(u, v)' => Brings(u, v)
    BY <1>1, <1>2 DEF Brings
  <2>2. \A v \in Nat \ {0} : Seen(v)' => Seen(v)
    BY <1>1, <1>2 DEF Seen
  <2> QED
    BY <2>1, <2>2 DEF IInv, BroughtOnce
<1>6. ActsForItsReader' /\ AnonCookieOutlivesItsForms' /\ GoneIsForgotten'
  BY <1>1 DEF IInv, ActsForItsReader, AnonCookieOutlivesItsForms, GoneIsForgotten
<1> QED
  BY <1>3, <1>4, <1>5, <1>6 DEF IInv

LEMMA BanKeeps ==
    ASSUME IInv, NEW u \in Users, Ban(u)
    PROVE  IInv'
<1>1. /\ UNCHANGED <<owner, link, jar, form, away, wire, drawn, requests, acted, crossed, told>>
      /\ account' = [account EXCEPT ![u] = "banned"] /\ sessions' \subseteq sessions
  BY DEF Ban, history
<1>2. TypeOK' /\ TokensDrawn'
  BY <1>1 DEF IInv, TypeOK, TokensDrawn
<1>3. FormsGood' /\ WireGood'
  BY <1>1 DEF IInv, FormsGood, WireGood, GoodRequest, GoodReply, GoodForm
<1>4. BroughtOnce'
  BY <1>1 DEF IInv, BroughtOnce, Brings, Seen
<1>5. ActsForItsReader' /\ AnonCookieOutlivesItsForms' /\ GoneIsForgotten'
  BY <1>1 DEF IInv, ActsForItsReader, AnonCookieOutlivesItsForms, GoneIsForgotten
<1> QED
  BY <1>2, <1>3, <1>4, <1>5 DEF IInv

LEMMA StoredCookie ==
    ASSUME jar \in Jar, NEW c \in SUBSET AnyCookie, NEW n \in CookieName
    PROVE  /\ Stored(c)[n] \in Cookie
           /\ \/ (~\E k \in c : k.name = n) /\ Stored(c)[n] = jar[n]
              \/ \E k \in c : /\ k.name = n
                              /\ Stored(c)[n] = [value |-> k.value, left |-> k.left]
<1>1. CASE ~\E k \in c : k.name = n
  BY <1>1 DEF Stored, Jar
<1>2. CASE \E k \in c : k.name = n
  <2> DEFINE k == CHOOSE k \in c : k.name = n
  <2>1. k \in c /\ k.name = n
    BY <1>2
  <2>2. Stored(c)[n] = [value |-> k.value, left |-> k.left]
    BY <1>2 DEF Stored
  <2>3. k \in AnyCookie
    BY <2>1
  <2> HIDE DEF k
  <2>4. [value |-> k.value, left |-> k.left] \in Cookie
    BY <2>3 DEF AnyCookie, Cookie
  <2> QED
    BY <2>1, <2>2, <2>4
<1> QED
  BY <1>1, <1>2

LEMMA ArriveKeeps ==
    ASSUME IInv, NEW t \in Tabs, Arrive(t)
    PROVE  IInv'
<1> DEFINE w == wire[t]
<1>1. w \in Reply /\ GoodReply(w)
  BY ReplyType DEF Arrive, IInv, WireGood
<1> DEFINE c == w.cookies
<1>2. /\ c \in SUBSET AnyCookie /\ w.form \in Form /\ w.away \in Nat
      /\ w.over \in Ending /\ w.over.token \in Nat
  BY <1>1 DEF Reply, AnyCookie, Ending
<1>3. /\ w.at = "browser" /\ wire' = [wire EXCEPT ![t] = Idle] /\ Idle.at = "idle"
      /\ jar' = Stored(c)
      /\ form' = IF w.form = NoForm THEN form ELSE [form EXCEPT ![t] = w.form]
      /\ away' = [away EXCEPT ![t] = w.away]
      /\ told' = IF w.over = NotOver THEN told ELSE told \cup {w.over.token}
      /\ UNCHANGED <<account, owner, sessions, link, drawn, requests, acted>>
  BY DEF Arrive, tables, Idle
<1>4. /\ jar["anon"].left > 0 /\ jar'["anon"].value # jar["anon"].value
           => crossed' = crossed \cup {jar["anon"].value}
      /\ crossed' = crossed \/ crossed' = crossed \cup {jar["anon"].value}
  BY DEF Arrive
<1> HIDE DEF w, c
<1>5. wire'[t] = Idle /\ \A u \in Tabs \ {t} : wire'[u] = wire[u]
  BY <1>3 DEF IInv, TypeOK
<1>6. /\ \A n \in CookieName : jar'[n] \in Cookie
      /\ {"session", "anon"} \subseteq CookieName
      /\ jar["anon"] \in Cookie /\ jar["session"] \in Cookie
      /\ \A n \in CookieName :
           \/ (~\E k \in c : k.name = n) /\ jar'[n] = jar[n]
           \/ \E k \in c : k.name = n /\ jar'[n] = [value |-> k.value, left |-> k.left]
  <2>1. jar \in Jar
    BY DEF IInv, TypeOK
  <2>2. {"session", "anon"} \subseteq CookieName
    BY DEF CookieName
  <2> QED
    BY <1>2, <1>3, <2>1, <2>2, StoredCookie DEF Jar
<1>7. TypeOK'
  <2>1. jar' \in Jar
    BY <1>3, <1>6 DEF Stored, Jar
  <2>2. form' \in [Tabs -> Form] /\ away' \in [Tabs -> Nat]
    BY <1>2, <1>3 DEF IInv, TypeOK
  <2>3. wire' \in [Tabs -> Request \cup Reply \cup {Idle}]
    BY <1>3 DEF IInv, TypeOK
  <2>4. crossed' \subseteq Nat /\ told' \subseteq Nat
    BY <1>2, <1>3, <1>4, <1>6 DEF IInv, TypeOK, Cookie
  <2> QED
    BY <1>3, <2>1, <2>2, <2>3, <2>4 DEF IInv, TypeOK
\* What the session's cookie is afterwards: what it was, gone, or brought.
<1>8. \/ (~\E k \in c : k.name = "session") /\ jar'["session"] = jar["session"]
      \/ jar'["session"].value = 0 /\ jar'["session"].left = 0
      \/ /\ Brings(t, jar'["session"].value) /\ jar'["session"].value \in 1..drawn
         /\ w.over = NotOver
  <2>1. ASSUME NEW k \in c, k.name = "session",
               jar'["session"] = [value |-> k.value, left |-> k.left]
        PROVE  \/ jar'["session"].value = 0 /\ jar'["session"].left = 0
               \/ /\ Brings(t, jar'["session"].value) /\ jar'["session"].value \in 1..drawn
                  /\ w.over = NotOver
    <3>1. CASE k = Clear("session")
      BY <2>1, <3>1 DEF Clear, SetCookie
    <3>2. CASE k # Clear("session")
      <4>1. k.value \in 1..drawn /\ w.over = NotOver
        BY <1>1, <2>1, <3>2 DEF GoodReply, c
      <4>2. jar'["session"].value = k.value
        BY <2>1
      <4>3. Brings(t, k.value)
        BY <1>3, <2>1 DEF Brings, c, w
      <4> QED
        BY <4>1, <4>2, <4>3
    <3> QED
      BY <3>1, <3>2
  <2> QED
    BY <1>6, <2>1
<1>9. drawn \in Nat
  BY DEF IInv, TypeOK
<1>10. TokensDrawn'
  BY <1>1, <1>3, <1>8, <1>9 DEF IInv, TokensDrawn, GoodReply
<1>11. FormsGood'
  <2>1. \A u \in Tabs : form'[u] = form[u] \/ form'[u] = w.form
    BY <1>3 DEF IInv, TypeOK
  <2> QED
    BY <1>1, <1>3, <2>1 DEF IInv, FormsGood, GoodReply, GoodForm
<1>12. WireGood'
  BY <1>3, <1>5 DEF IInv, WireGood, GoodRequest, GoodReply, GoodForm
<1>13. BroughtOnce'
  <2>1. \A u \in Tabs : \A v \in Nat \ {0} : Brings(u, v)' => u # t /\ Brings(u, v)
    BY <1>3, <1>5 DEF Brings
  <2>2. \A v \in Nat \ {0} : Seen(v)' => Seen(v) \/ Brings(t, v)
    BY <1>3, <1>5, <1>8 DEF Seen, w
  <2> QED
    BY <2>1, <2>2 DEF IInv, BroughtOnce
<1>14. ActsForItsReader'
  BY <1>3 DEF IInv, ActsForItsReader
\* The cookie of an anonymous form is still there, it has been replaced by an
\* answer that brought one for longer, or it is crossed.
<1>15. AnonCookieOutlivesItsForms'
  <2>1. \A k \in c : k.name = "anon" => k.left = AnonLife
    BY <1>1 DEF GoodReply, c
  <2>2. jar'["anon"] = jar["anon"] \/ jar'["anon"].left = AnonLife
    <3>1. ASSUME NEW k \in c, k.name = "anon",
                 jar'["anon"] = [value |-> k.value, left |-> k.left]
          PROVE  jar'["anon"].left = AnonLife
      BY <2>1, <3>1
    <3>2. "anon" \in CookieName
      BY <1>6
    <3> QED
      BY <1>6, <3>1, <3>2
  <2>3. ASSUME NEW u \in Tabs, form'[u].page \in AnonPages, form'[u].left > 0,
               form'[u].binding \notin crossed'
        PROVE  /\ jar'["anon"].value = form'[u].binding
               /\ jar'["anon"].left >= form'[u].left
    <3>1. CASE form'[u] = w.form
      <4>1. c = {SetCookie("anon", w.form.binding, AnonLife)}
        BY <1>1, <2>3, <3>1 DEF GoodReply, c
      <4>2. jar'["anon"] = [value |-> w.form.binding, left |-> AnonLife]
        BY <1>6, <4>1 DEF SetCookie
      <4>3. w.form.left <= TokenLife /\ w.form.left \in Nat
        BY <1>1, <1>2 DEF GoodReply, GoodForm, Form
      <4> QED
        BY <3>1, <4>2, <4>3, ConstantTypes
    <3>2. CASE form'[u] = form[u]
      <4>1. form[u].binding \notin crossed
        BY <1>4, <2>3, <3>2
      <4>2. jar["anon"].value = form[u].binding /\ jar["anon"].left >= form[u].left
        BY <2>3, <3>2, <4>1 DEF IInv, AnonCookieOutlivesItsForms
      <4>3. /\ form[u].left <= TokenLife /\ form[u].left \in Nat
            /\ jar["anon"].left \in Nat
        BY <1>6 DEF IInv, TypeOK, FormsGood, GoodForm, Form, Cookie
      <4>4. jar'["anon"].value = jar["anon"].value
        BY <1>4, <2>3, <3>2, <4>2, <4>3
      <4> QED
        BY <2>2, <3>2, <4>2, <4>3, <4>4, ConstantTypes
    <3> QED
      BY <1>3, <3>1, <3>2 DEF IInv, TypeOK
  <2> QED
    BY <2>3 DEF AnonCookieOutlivesItsForms
<1>16. GoneIsForgotten'
  <2>1. CASE (~\E k \in c : k.name = "session") /\ jar'["session"] = jar["session"]
    <3>1. w.over = NotOver
      <4>1. Clear("session").name = "session"
        BY DEF Clear, SetCookie
      <4>2. w.over # NotOver => c = {Clear("session")}
        BY <1>1 DEF GoodReply, c
      <4> QED
        BY <2>1, <4>1, <4>2
    <3> QED
      BY <1>3, <2>1, <3>1 DEF IInv, GoneIsForgotten
  <2>2. CASE jar'["session"].value = 0 /\ jar'["session"].left = 0
    BY <2>2 DEF GoneIsForgotten
  <2>3. CASE /\ Brings(t, jar'["session"].value) /\ jar'["session"].value \in 1..drawn
             /\ w.over = NotOver
    <3>1. ~Seen(jar'["session"].value)
      BY <1>9, <2>3 DEF IInv, BroughtOnce
    <3> QED
      BY <1>3, <2>3, <3>1 DEF Seen, GoneIsForgotten
  <2> QED
    BY <1>8, <2>1, <2>2, <2>3
<1> QED
  BY <1>7, <1>10, <1>11, <1>12, <1>13, <1>14, <1>15, <1>16 DEF IInv

LEMMA OlderCookie ==
    ASSUME NEW c \in Cookie
    PROVE  /\ Older(c) \in Cookie
           /\ Older(c).value \in {c.value, 0}
           /\ Older(c).left > 0 => c.left > 1 /\ Older(c).value = c.value
           /\ c.left > 1 => Older(c).left = c.left - 1 /\ Older(c).value = c.value
<1>1. c.value \in Nat /\ c.left \in Nat
  BY DEF Cookie
<1>2. CASE c.left > 1
  <2>1. Older(c) = [c EXCEPT !.left = c.left - 1]
    BY <1>2 DEF Older
  <2>2. c.left - 1 \in Nat
    BY <1>1, <1>2
  <2> QED
    BY <1>1, <1>2, <2>1, <2>2 DEF Cookie
<1>3. CASE ~(c.left > 1)
  <2>1. Older(c) = NoCookie /\ NoCookie \in Cookie /\ NoCookie.value = 0 /\ NoCookie.left = 0
    BY <1>3 DEF Older, NoCookie, Cookie
  <2> QED
    BY <1>3, <2>1
<1> QED
  BY <1>2, <1>3

OlderForm(f) == [f EXCEPT !.left = Min0(@)]

LEMMA OlderFormGood ==
    ASSUME NEW f \in Form
    PROVE  /\ OlderForm(f) \in Form
           /\ OlderForm(f).page = f.page /\ OlderForm(f).binding = f.binding
           /\ OlderForm(f).who = f.who
           /\ OlderForm(f).left <= f.left
           /\ OlderForm(f).left > 0 => OlderForm(f).left = f.left - 1
<1>1. f.left \in Nat
  BY DEF Form
<1>2. Min0(f.left) \in Nat /\ Min0(f.left) <= f.left
      /\ (Min0(f.left) > 0 => Min0(f.left) = f.left - 1)
  BY <1>1 DEF Min0
<1>3. OlderForm(f) = [f EXCEPT !.left = Min0(f.left)]
  BY DEF OlderForm
<1> QED
  BY <1>2, <1>3 DEF Form

LEMMA OlderRequestType ==
    ASSUME NEW w \in Request
    PROVE  /\ OlderRequest(w) \in Request
           /\ OlderRequest(w).at = "server"
           /\ OlderRequest(w).posted = OlderForm(w.posted)
           /\ OlderRequest(w).page = w.page /\ OlderRequest(w).button = w.button
           /\ OlderRequest(w).name = w.name
           /\ OlderRequest(w).cookies["session"] = w.cookies["session"]
<1> DEFINE aged == [n \in CookieName |-> IF Sealed(n) THEN Older(w.cookies[n]) ELSE w.cookies[n]]
<1>1. w.cookies \in Jar /\ w.posted \in Form
  BY DEF Request
<1>2. aged \in Jar
  BY <1>1, OlderCookie DEF Jar
<1>3. aged["session"] = w.cookies["session"]
  BY DEF Sealed, CookieName
<1>4. OlderRequest(w) = [w EXCEPT !.cookies = aged, !.posted = OlderForm(w.posted)]
  BY DEF OlderRequest, OlderForm, Request
<1>5. OlderForm(w.posted) \in Form
  BY <1>1, OlderFormGood
<1> HIDE DEF aged
<1> QED
  BY <1>2, <1>3, <1>4, <1>5 DEF Request

OlderCookies(c) == {IF Sealed(k.name) THEN [k EXCEPT !.left = Min0(@)] ELSE k : k \in c}

LEMMA OlderCookiesType ==
    ASSUME NEW c \in SUBSET AnyCookie
    PROVE  /\ OlderCookies(c) \in SUBSET AnyCookie
           /\ \A k \in OlderCookies(c) : k.name \in {"session", "anon"} => k \in c
           /\ \A n \in {"session", "anon"} : \A v, l \in Nat :
                c = {SetCookie(n, v, l)} => OlderCookies(c) = {SetCookie(n, v, l)}
<1>1. \A k \in c : k.left \in Nat /\ Min0(k.left) \in Nat
  BY DEF AnyCookie, Min0
<1>2. \A k \in c : [k EXCEPT !.left = Min0(k.left)] \in AnyCookie
                   /\ [k EXCEPT !.left = Min0(k.left)].name = k.name
  BY <1>1 DEF AnyCookie
<1>3. OlderCookies(c) \in SUBSET AnyCookie
  BY <1>2 DEF OlderCookies
<1>4. \A k \in OlderCookies(c) : k.name \in {"session", "anon"} => k \in c
  BY <1>2 DEF OlderCookies, Sealed
<1>5. ASSUME NEW n \in {"session", "anon"}, NEW v \in Nat, NEW l \in Nat,
             c = {SetCookie(n, v, l)}
      PROVE  OlderCookies(c) = {SetCookie(n, v, l)}
  <2>1. SetCookie(n, v, l).name = n /\ ~Sealed(n)
    BY DEF SetCookie, Sealed
  <2> QED
    BY <1>5, <2>1 DEF OlderCookies
<1> QED
  BY <1>3, <1>4, <1>5

LEMMA OlderAnswerType ==
    ASSUME NEW w \in Reply
    PROVE  /\ OlderAnswer(w) \in Reply
           /\ OlderAnswer(w).at = "browser"
           /\ OlderAnswer(w).form = OlderForm(w.form)
           /\ OlderAnswer(w).cookies = OlderCookies(w.cookies)
           /\ OlderAnswer(w).over = w.over
<1>1. w.cookies \in SUBSET AnyCookie /\ w.form \in Form
  BY DEF Reply, AnyCookie
<1>2. OlderForm(w.form) \in Form /\ OlderCookies(w.cookies) \in SUBSET AnyCookie
  BY <1>1, OlderFormGood, OlderCookiesType
<1>3. OlderAnswer(w) = [w EXCEPT !.cookies = OlderCookies(w.cookies), !.form = OlderForm(w.form)]
  BY DEF OlderAnswer, OlderForm, OlderCookies, Reply
<1> QED
  BY <1>2, <1>3 DEF Reply, AnyCookie

LEMMA OlderSessions ==
    ASSUME IInv, sessions' = {[s EXCEPT !.left = Min0(@)] : s \in sessions}
    PROVE  /\ sessions' \subseteq Session
           /\ \A s \in sessions' : \E r \in sessions : s.token = r.token /\ s.user = r.user
           /\ \A r, s \in sessions' : r.token = s.token => r = s
<1>1. \A s \in sessions : s \in Session /\ s.left \in Nat /\ Min0(s.left) \in Nat
  BY DEF IInv, TypeOK, Session, Min0
<1>2. \A s \in sessions : [s EXCEPT !.left = Min0(s.left)] \in Session
  BY <1>1 DEF Session
<1>3. \A s \in sessions : /\ [s EXCEPT !.left = Min0(s.left)].token = s.token
                          /\ [s EXCEPT !.left = Min0(s.left)].user = s.user
  BY <1>1 DEF Session
<1>4. \A r, s \in sessions : r.token = s.token => r = s
  BY DEF IInv, TypeOK
<1>5. \A s \in sessions' : \E r \in sessions : s = [r EXCEPT !.left = Min0(r.left)]
  OBVIOUS
<1>6. ASSUME NEW r \in sessions', NEW s \in sessions', r.token = s.token
      PROVE  r = s
  <2>1. PICK q \in sessions : r = [q EXCEPT !.left = Min0(q.left)]
    BY <1>5
  <2>2. PICK p \in sessions : s = [p EXCEPT !.left = Min0(p.left)]
    BY <1>5
  <2>3. p = q
    BY <1>3, <1>4, <1>6, <2>1, <2>2
  <2> QED
    BY <2>1, <2>2, <2>3
<1>7. \A s \in sessions' : \E r \in sessions : s.token = r.token /\ s.user = r.user
  <2>1. ASSUME NEW s \in sessions'
        PROVE  \E r \in sessions : s.token = r.token /\ s.user = r.user
    <3>1. PICK r \in sessions : s = [r EXCEPT !.left = Min0(r.left)]
      BY <1>5
    <3>2. s.token = r.token /\ s.user = r.user
      BY <1>3, <3>1
    <3> QED
      BY <3>2
  <2> QED
    BY <2>1
<1>8. sessions' \subseteq Session
  BY <1>2, <1>5
<1> QED
  BY <1>6, <1>7, <1>8

LEMMA TickKeeps ==
    ASSUME IInv, Tick
    PROVE  IInv'
<1>1. /\ jar' = [n \in CookieName |-> Older(jar[n])]
      /\ form' = [t \in Tabs |-> OlderForm(form[t])]
      /\ UNCHANGED <<account, owner, link, away, drawn, requests, acted, crossed, told>>
  BY DEF Tick, OlderForm, history
<1>2. /\ jar \in Jar /\ drawn \in Nat /\ form \in [Tabs -> Form]
      /\ \A t \in Tabs : wire[t] \in Request \cup Reply \cup {Idle}
  BY DEF IInv, TypeOK
<1>3. \A t \in Tabs :
        \/ wire[t] = Idle /\ wire[t].at = "idle" /\ wire'[t] = Idle
        \/ wire[t] \in Request /\ wire[t].at = "server" /\ wire'[t] = OlderRequest(wire[t])
        \/ wire[t] \in Reply /\ wire[t].at = "browser" /\ wire'[t] = OlderAnswer(wire[t])
  BY <1>2 DEF Tick, Request, Reply, Idle
<1>4. /\ \A t \in Tabs : wire'[t] \in Request \cup Reply \cup {Idle}
      /\ \A t \in Tabs : wire'[t].at = wire[t].at
  BY <1>3, OlderRequestType, OlderAnswerType
<1>5. /\ jar' \in Jar
      /\ \A n \in CookieName : jar[n] \in Cookie /\ jar'[n] = Older(jar[n])
  BY <1>1, <1>2, OlderCookie DEF Jar
<1>6. \A t \in Tabs : form[t] \in Form /\ form'[t] = OlderForm(form[t])
  BY <1>1, <1>2
<1>7. /\ sessions' \subseteq Session
      /\ \A s \in sessions' : \E r \in sessions : s.token = r.token /\ s.user = r.user
      /\ \A r, s \in sessions' : r.token = s.token => r = s
  BY OlderSessions DEF Tick
<1>8. TypeOK'
  <2>1. wire' \in [Tabs -> Request \cup Reply \cup {Idle}]
    BY <1>4 DEF Tick
  <2>2. form' \in [Tabs -> Form]
    BY <1>1, <1>6, OlderFormGood
  <2> QED
    BY <1>1, <1>5, <1>7, <2>1, <2>2 DEF IInv, TypeOK
<1>9. TokensDrawn'
  <2>1. jar'["session"].value \in {jar["session"].value, 0}
    BY <1>5, OlderCookie DEF CookieName
  <2> QED
    BY <1>1, <1>2, <1>7, <2>1 DEF IInv, TokensDrawn
<1>10. ASSUME NEW f \in Form, GoodForm(f), NEW g, g = OlderForm(f)
       PROVE  g \in Form /\ GoodForm(g)'
  <2>1. /\ g \in Form /\ g.left <= f.left
        /\ g.page = f.page /\ g.binding = f.binding /\ g.who = f.who
    BY <1>10, OlderFormGood
  <2>2. g.left \in Nat /\ f.left \in Nat
    BY <2>1 DEF Form
  <2>3. g.left <= TokenLife
    BY <1>10, <2>1, <2>2, ConstantTypes DEF GoodForm
  <2> QED
    BY <1>1, <1>7, <1>10, <2>1, <2>3 DEF GoodForm
<1>11. FormsGood'
  <2>1. ASSUME NEW t \in Tabs
        PROVE  GoodForm(form[t])'
    <3>1. PICK f \in Form : f = form[t]
      BY <1>6
    <3>2. PICK g : g = OlderForm(f)
      OBVIOUS
    <3>3. GoodForm(g)'
      BY <1>10, <3>1, <3>2 DEF IInv, FormsGood
    <3> QED
      BY <1>6, <3>1, <3>2, <3>3 DEF GoodForm
  <2> QED
    BY <2>1 DEF FormsGood
<1>12. WireGood'
  <2>1. ASSUME NEW t \in Tabs, wire[t].at = "server"
        PROVE  GoodRequest(wire[t])'
    <3>1. wire[t] \in Request /\ GoodRequest(wire[t]) /\ wire'[t] = OlderRequest(wire[t])
      BY <1>3, <2>1, RequestType DEF IInv, WireGood, Reply, Idle
    <3>2. PICK f \in Form : f = wire[t].posted
      BY <3>1 DEF Request
    <3>3. PICK g : g = OlderForm(f)
      OBVIOUS
    <3>4. GoodForm(g)' /\ g.page = f.page
      BY <1>10, <3>1, <3>2, <3>3, OlderFormGood DEF GoodRequest
    <3>5. GoodForm(wire[t].posted)'
      <4>1. wire'[t].posted = g
        BY <3>1, <3>2, <3>3, OlderRequestType
      <4> QED
        BY <3>4, <4>1 DEF GoodForm
    <3>6. /\ wire'[t].posted.page = wire[t].posted.page
          /\ wire'[t].page = wire[t].page /\ wire'[t].button = wire[t].button
          /\ wire'[t].name = wire[t].name
          /\ wire'[t].cookies["session"] = wire[t].cookies["session"]
      BY <3>1, <3>2, <3>3, <3>4, OlderRequestType
    <3> QED
      BY <1>1, <3>1, <3>5, <3>6 DEF GoodRequest
  <2>2. ASSUME NEW t \in Tabs, wire[t].at = "browser"
        PROVE  GoodReply(wire[t])'
    <3>1. wire[t] \in Reply /\ GoodReply(wire[t]) /\ wire'[t] = OlderAnswer(wire[t])
      BY <1>3, <2>2, ReplyType DEF IInv, WireGood, Request, Idle
    <3>2. PICK f \in Form : f = wire[t].form
      BY <3>1 DEF Reply
    <3>3. PICK g : g = OlderForm(f)
      OBVIOUS
    <3>4. GoodForm(g)' /\ g.page = f.page /\ g.binding = f.binding
      BY <1>10, <3>1, <3>2, <3>3, OlderFormGood DEF GoodReply
    <3>5. wire'[t].form = g /\ wire'[t].over = wire[t].over
      BY <3>1, <3>2, <3>3, OlderAnswerType
    <3>6. GoodForm(wire[t].form)'
      BY <3>4, <3>5 DEF GoodForm
    <3>7. PICK c \in SUBSET AnyCookie : c = wire[t].cookies
      BY <3>1 DEF Reply, AnyCookie
    <3>8. PICK d : d = OlderCookies(c)
      OBVIOUS
    <3>9. wire'[t].cookies = d
      BY <3>1, <3>7, <3>8, OlderAnswerType
    <3>10. \A k \in d : k.name \in {"session", "anon"} => k \in c
      BY <3>8, OlderCookiesType
    <3>11. g.page \in AnonPages => d = {SetCookie("anon", g.binding, AnonLife)}
      <4>1. f.binding \in Nat
        BY DEF Form
      <4>2. g.page \in AnonPages => c = {SetCookie("anon", f.binding, AnonLife)}
        BY <3>1, <3>2, <3>4, <3>7 DEF GoodReply
      <4> QED
        BY <3>4, <3>8, <4>1, <4>2, ConstantTypes, OlderCookiesType
    <3>12. wire[t].over # NotOver => d = {Clear("session")}
      <4>1. wire[t].over # NotOver => c = {SetCookie("session", 0, 0)}
        BY <3>1, <3>7 DEF GoodReply, Clear
      <4> QED
        BY <3>8, <4>1, OlderCookiesType DEF Clear
    <3>13. /\ \A k \in d : k.name = "anon" => k.left = AnonLife
           /\ \A k \in d : k.name = "session" => k = Clear("session") \/ k.value \in 1..drawn
      BY <3>1, <3>7, <3>10 DEF GoodReply
    <3>14. wire[t].over.token <= drawn
      BY <3>1 DEF GoodReply
    <3> QED
      BY <1>1, <3>5, <3>6, <3>9, <3>11, <3>12, <3>13, <3>14 DEF GoodReply
  <2> QED
    BY <1>4, <2>1, <2>2 DEF WireGood
<1>13. BroughtOnce'
  <2>1. \A u \in Tabs : \A v \in Nat \ {0} : Brings(u, v)' => Brings(u, v)
    <3>1. ASSUME NEW u \in Tabs, NEW v \in Nat \ {0}, Brings(u, v)'
          PROVE  Brings(u, v)
      <4>1. wire[u] \in Reply /\ wire'[u] = OlderAnswer(wire[u]) /\ wire[u].at = "browser"
        BY <1>3, <1>4, <3>1 DEF Brings, Request, Idle
      <4>2. PICK c \in SUBSET AnyCookie : c = wire[u].cookies
        BY <4>1 DEF Reply, AnyCookie
      <4>3. wire'[u].cookies = OlderCookies(c)
        BY <4>1, <4>2, OlderAnswerType
      <4>4. \A k \in OlderCookies(c) : k.name = "session" => k \in c
        BY OlderCookiesType
      <4> QED
        BY <3>1, <4>1, <4>2, <4>3, <4>4 DEF Brings
    <3> QED
      BY <3>1
  <2>2. \A v \in Nat \ {0} : Seen(v)' => Seen(v)
    <3>1. jar'["session"].value \in {jar["session"].value, 0}
      BY <1>5, OlderCookie DEF CookieName
    <3>2. \A u \in Tabs : wire'[u].at = "server" =>
            wire[u].at = "server" /\ wire'[u].cookies["session"] = wire[u].cookies["session"]
      BY <1>3, <1>4, OlderRequestType DEF Reply, Idle
    <3>3. \A u \in Tabs : wire'[u].at = "browser" =>
            wire[u].at = "browser" /\ wire'[u].over = wire[u].over
      BY <1>3, <1>4, OlderAnswerType DEF Request, Idle
    <3> QED
      BY <1>1, <3>1, <3>2, <3>3 DEF Seen
  <2> QED
    BY <2>1, <2>2 DEF IInv, BroughtOnce
<1>14. ActsForItsReader'
  BY <1>1 DEF IInv, ActsForItsReader
\* The cookie loses no more than the form does, and is not the first to go.
<1>15. AnonCookieOutlivesItsForms'
  <2>1. ASSUME NEW t \in Tabs, form'[t].page \in AnonPages, form'[t].left > 0,
               form'[t].binding \notin crossed'
        PROVE  /\ jar'["anon"].value = form'[t].binding
               /\ jar'["anon"].left >= form'[t].left
    <3>1. /\ form'[t].page = form[t].page /\ form'[t].binding = form[t].binding
          /\ form'[t].left = form[t].left - 1
          /\ form[t].left \in Nat
      BY <1>6, <2>1, OlderFormGood DEF Form
    <3>2. form[t].left > 1
      BY <2>1, <3>1
    <3>3. jar["anon"].value = form[t].binding /\ jar["anon"].left >= form[t].left
      BY <1>1, <2>1, <3>1, <3>2 DEF IInv, AnonCookieOutlivesItsForms
    <3>4. jar["anon"] \in Cookie /\ jar["anon"].left \in Nat /\ jar'["anon"] = Older(jar["anon"])
      BY <1>5 DEF CookieName, Cookie
    <3>5. jar'["anon"].left = jar["anon"].left - 1 /\ jar'["anon"].value = jar["anon"].value
      BY <3>1, <3>2, <3>3, <3>4, OlderCookie
    <3> QED
      BY <3>1, <3>3, <3>4, <3>5
  <2> QED
    BY <2>1 DEF AnonCookieOutlivesItsForms
<1>16. GoneIsForgotten'
  <2>1. jar["session"] \in Cookie /\ jar'["session"] = Older(jar["session"])
    BY <1>5 DEF CookieName
  <2>2. jar["session"].left \in Nat
    BY <2>1 DEF Cookie
  <2>3. jar'["session"].left > 0 =>
          jar["session"].left > 0 /\ jar'["session"].value = jar["session"].value
    BY <2>1, <2>2, OlderCookie
  <2> QED
    BY <1>1, <2>3 DEF IInv, GoneIsForgotten
<1> QED
  BY <1>8, <1>9, <1>11, <1>12, <1>13, <1>14, <1>15, <1>16 DEF IInv

-----------------------------------------------------------------------------
(* The theorems.                                                           *)

LEMMA Preserved == IInv /\ [Next]_vars => IInv'
<1> SUFFICES ASSUME IInv, [Next]_vars PROVE IInv'
  OBVIOUS
<1>1. ASSUME NEW t \in Tabs, Handle(t) PROVE IInv'
  BY <1>1, HandleAnswers, AnswerKeeps DEF Handle, Aside
<1>2. ASSUME NEW t \in Tabs, Visit(t) \/ Submit(t) \/ Return(t) \/ Arrive(t) \/ Lose(t)
      PROVE  IInv'
  BY <1>2, VisitKeeps, SubmitKeeps, ReturnKeeps, ArriveKeeps, LoseKeeps
<1>3. CASE UNCHANGED vars
  <2>1. TypeOK' /\ TokensDrawn' /\ FormsGood'
    BY <1>3 DEF vars, tables, history, IInv, TypeOK, TokensDrawn, FormsGood, GoodForm
  <2>2. WireGood' /\ BroughtOnce'
    BY <1>3 DEF vars, tables, history, IInv, WireGood, GoodRequest, GoodReply, GoodForm,
                BroughtOnce, Brings, Seen
  <2>3. ActsForItsReader' /\ AnonCookieOutlivesItsForms' /\ GoneIsForgotten'
    BY <1>3 DEF vars, tables, history, IInv, ActsForItsReader, AnonCookieOutlivesItsForms,
                GoneIsForgotten
  <2> QED
    BY <2>1, <2>2, <2>3 DEF IInv
<1> QED
  BY <1>1, <1>2, <1>3, TickKeeps, BanKeeps DEF Next

LEMMA Invariant == Spec => []IInv
<1> QED
  BY Beginning, Preserved, PTL DEF Spec

\* The tables, the cookies, the forms and what travels keep their types.
THEOREM TypeCorrect == Spec => []TypeOK
<1>1. IInv => TypeOK
  BY DEF IInv
<1> QED
  BY <1>1, Invariant, PTL

\* CsrfKey::verify binds a form to its session: whoever signs in or out in
\* whatever tab, and however slow the requests are, a form acts only for the
\* user that it was made for.
THEOREM FormsActForTheirReaders == Spec => []ActsForItsReader
<1>1. IInv => ActsForItsReader
  BY DEF IInv
<1> QED
  BY <1>1, Invariant, PTL

\* anon_token sets the cookie again on every form page: that its life is
\* longer than a token's is all that is needed for it to outlive its forms.
THEOREM AnonFormsKeepTheirCookie == Spec => []AnonCookieOutlivesItsForms
<1>1. IInv => AnonCookieOutlivesItsForms
  BY DEF IInv
<1> QED
  BY <1>1, Invariant, PTL

\* logout and api_me clear the cookie whatever becomes of the session, and no
\* answer that was on its way brings back one that was said to be over.
THEOREM GoneStaysForgotten == Spec => []GoneIsForgotten
<1>1. IInv => GoneIsForgotten
  BY DEF IInv
<1> QED
  BY <1>1, Invariant, PTL
===============================================================================
