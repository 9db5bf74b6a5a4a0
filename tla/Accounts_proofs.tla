-------------------------- MODULE Accounts_proofs ---------------------------
(* Theorems about accounts, for every set of names, addresses, identities  *)
(* and handlers, and however many requests and failures there are.         *)
EXTENDS Accounts, SequenceTheorems, TLAPS

USE DEF UserState, Kind, Call

-----------------------------------------------------------------------------
(* The inductive invariant.                                                *)

\* The statements that an account with these proved addresses may have under
\* way: links are mailed to addresses, reset links to proved ones, and what is
\* marked as verified has been proved, or is being vouched for; an identity
\* is linked that a provider has named.
Backed(proved) ==
    {s \in Statement :
        /\ s.do \in {"link", "vouch"} => s.address \in Addresses
        /\ s.do = "verify" \/ (s.do = "link" /\ s.kind = "reset") => s.address \in proved
        /\ s.do = "identity" => s.id \in Identities}

\* A handler that has begun acts for an account, within what it has proved.
Trusted ==
    \A h \in Webs :
        Busy(h) => /\ run[h].user \in Names
                   /\ run[h].plan \in Seq(Backed(proven[run[h].user]))

Inv == TypeOK /\ Trusted /\ OneAccountPerAddress /\ VerifiedIsProven /\ ResetsGoToProven

-----------------------------------------------------------------------------
(* The plans that handlers start with.                                     *)

LEMMA BackedType ==
    ASSUME NEW P, NEW s \in Seq(Backed(P)) PROVE s \in Seq(Statement)
BY DEF Backed

LEMMA BackedGrows ==
    ASSUME NEW P, NEW Q, P \subseteq Q, NEW s \in Seq(Backed(P))
    PROVE  s \in Seq(Backed(Q))
<1>1. Backed(P) \subseteq Backed(Q)
  BY DEF Backed
<1> QED
  BY <1>1

LEMMA DoBacked ==
    ASSUME NEW P, NEW call \in Call \ {"verify", "link", "vouch", "identity"}
    PROVE  Do(call) \in Backed(P)
BY DEF Do, Backed, Statement

LEMMA MailBacked ==
    ASSUME NEW P, NEW a \in Addresses
    PROVE  /\ Mail("email", a) \in Backed(P)
           /\ Mail("vouch", a) \in Backed(P)
           /\ a \in P => Mail("verify", a) \in Backed(P)
BY DEF Mail, Do, Backed, Statement

LEMMA RetireBacked ==
    ASSUME NEW P, NEW kind \in Kind
    PROVE  [Do("retire") EXCEPT !.kind = kind] \in Backed(P)
BY DEF Do, Backed, Statement

LEMMA IssueBacked ==
    ASSUME NEW P, NEW kind \in Kind, NEW a \in Addresses, kind = "reset" => a \in P
    PROVE  Issue(kind, a) \in Seq(Backed(P))
<1>1. [Mail("link", a) EXCEPT !.kind = kind] \in Backed(P)
  BY DEF Mail, Do, Backed, Statement
<1> QED
  BY <1>1, RetireBacked DEF Issue

LEMMA GiveAddressBacked ==
    ASSUME NEW P, NEW a \in Addresses
    PROVE  GiveAddress(a) \in Seq(Backed(P))
BY MailBacked, IssueBacked DEF GiveAddress

LEMMA SignupBacked ==
    ASSUME NEW P, NEW a \in Addresses \cup {NoAddress}
    PROVE  SignupCalls(a) \in Seq(Backed(P)) /\ SignupCalls(a) # <<>>
<1> DEFINE first == <<Do("user"), Do("session")>>
           rest == IF a = NoAddress THEN <<>> ELSE GiveAddress(a)
<1>1. first \in Seq(Backed(P)) /\ Len(first) = 2
  BY DoBacked
<1>2. rest \in Seq(Backed(P))
  BY GiveAddressBacked
<1>3. SignupCalls(a) = first \o rest
  BY DEF SignupCalls
<1> HIDE DEF first, rest
<1> QED
  BY <1>1, <1>2, <1>3

LEMMA FinishBacked ==
    ASSUME NEW P, NEW i \in Identities, NEW a \in Addresses \cup {NoAddress},
           NEW vouched \in BOOLEAN
    PROVE  FinishCalls(i, a, vouched) \in Seq(Backed(P))
<1> DEFINE first == <<Do("user"), [Do("identity") EXCEPT !.id = i]>>
           mail  == IF a = NoAddress THEN <<>> ELSE <<Mail("email", a)>>
           vouch == IF a # NoAddress /\ vouched THEN <<Mail("vouch", a)>> ELSE <<>>
           last  == <<Do("session")>>
<1>1. [Do("identity") EXCEPT !.id = i] \in Backed(P)
  BY DEF Do, Backed, Statement
<1>2. first \in Seq(Backed(P))
  BY <1>1, DoBacked
<1>3. mail \in Seq(Backed(P)) /\ vouch \in Seq(Backed(P))
  BY MailBacked
<1>4. last \in Seq(Backed(P))
  BY DoBacked
<1>5. FinishCalls(i, a, vouched) = first \o mail \o vouch \o last
  BY DEF FinishCalls
<1> HIDE DEF first, mail, vouch, last
<1> QED
  BY <1>2, <1>3, <1>4, <1>5

LEMMA NewPasswordBacked == ASSUME NEW P PROVE NewPassword \in Seq(Backed(P))
BY DoBacked, RetireBacked DEF NewPassword

LEMMA StateBacked ==
    ASSUME NEW P, NEW to \in UserState
    PROVE  StateCalls(to) \in Seq(Backed(P))
<1> DEFINE first == <<[Do("state") EXCEPT !.to = to]>>
           rest == IF to = "active" THEN <<>> ELSE <<Do("end")>>
<1>1. [Do("state") EXCEPT !.to = to] \in Backed(P)
  BY DEF Do, Backed, Statement
<1>2. first \in Seq(Backed(P)) /\ rest \in Seq(Backed(P))
  BY <1>1, DoBacked
<1>3. StateCalls(to) = first \o rest
  BY DEF StateCalls
<1> HIDE DEF first, rest
<1> QED
  BY <1>2, <1>3

-----------------------------------------------------------------------------
(* What starting a handler and going on with one does to the runs.         *)

LEMMA IdleType == Idle \in Run
BY DEF Idle, Run

LEMMA RunUpdate ==
    ASSUME TypeOK, Trusted, NEW h \in Webs, NEW r \in Run,
           run' = [run EXCEPT ![h] = r],
           r.plan # <<>> => r.user \in Names /\ r.plan \in Seq(Backed(proven'[r.user])),
           \A u \in Names : proven[u] \subseteq proven'[u]
    PROVE  run' \in [Webs -> Run] /\ Trusted'
<1>1. run' \in [Webs -> Run]
  BY DEF TypeOK
<1>2. ASSUME NEW g \in Webs, run'[g].plan # <<>>
      PROVE  /\ run'[g].user \in Names
             /\ run'[g].plan \in Seq(Backed(proven'[run'[g].user]))
  <2>1. CASE g = h
    BY <1>2, <2>1 DEF TypeOK
  <2>2. CASE g # h
    <3>1. run'[g] = run[g]
      BY <2>2 DEF TypeOK
    <3>2. /\ run[g].user \in Names
          /\ run[g].plan \in Seq(Backed(proven[run[g].user]))
      BY <1>2, <3>1 DEF Trusted, Busy
    <3> QED
      BY <3>1, <3>2, BackedGrows
  <2> QED
    BY <2>1, <2>2
<1> QED
  BY <1>1, <1>2 DEF Trusted, Busy

LEMMA Started ==
    ASSUME TypeOK, Trusted, NEW h \in Webs, NEW u \in Names, NEW token \in Nat,
           NEW secret \in Nat, NEW plan \in Seq(Backed(proven[u])),
           Start(h, u, token, secret, plan), proven' = proven
    PROVE  run' \in [Webs -> Run] /\ Trusted'
<1> DEFINE r == [Idle EXCEPT !.plan = plan, !.user = u, !.token = token, !.secret = secret]
<1>1. plan \in Seq(Statement)
  BY BackedType
<1>2. r \in Run /\ r.plan = plan /\ r.user = u
  BY <1>1 DEF Idle, Run
<1>3. run' = [run EXCEPT ![h] = r]
  BY DEF Start
<1> HIDE DEF r
<1> QED
  BY <1>2, <1>3, RunUpdate

LEMMA BusyFacts ==
    ASSUME TypeOK, Trusted, NEW h \in Webs, Busy(h)
    PROVE  /\ Me(h) \in Names
           /\ NextCall(h) \in Backed(proven[Me(h)])
           /\ Rest(h) \in Seq(Backed(proven[Me(h)]))
           /\ run[h] \in Run
<1>1. run[h].plan \in Seq(Backed(proven[run[h].user])) /\ run[h].plan # <<>>
  BY DEF Trusted, Busy
<1>2. /\ Head(run[h].plan) \in Backed(proven[run[h].user])
      /\ Tail(run[h].plan) \in Seq(Backed(proven[run[h].user]))
  BY <1>1, HeadTailProperties
<1>3. run[h] \in Run
  BY DEF TypeOK
<1> QED
  BY <1>2, <1>3 DEF Trusted, NextCall, Rest, Me

LEMMA Continued ==
    ASSUME TypeOK, Trusted, NEW h \in Webs, Busy(h),
           NEW plan \in Seq(Backed(proven[Me(h)])), Continue(h, plan),
           \A u \in Names : proven[u] \subseteq proven'[u]
    PROVE  run' \in [Webs -> Run] /\ Trusted'
<1>1. CASE plan = <<>>
  <2>1. run' = [run EXCEPT ![h] = Idle]
    BY <1>1 DEF Continue
  <2>2. Idle.plan = <<>>
    BY DEF Idle
  <2> QED
    BY <2>1, <2>2, IdleType, RunUpdate
<1>2. CASE plan # <<>>
  <2> DEFINE r == [run[h] EXCEPT !.plan = plan]
  <2>1. run' = [run EXCEPT ![h] = r]
    BY <1>2 DEF Continue, TypeOK
  <2>2. run[h] \in Run /\ run[h].user \in Names
    BY BusyFacts DEF Me
  <2>3. plan \in Seq(Statement)
    BY BackedType
  <2>4. r \in Run /\ r.plan = plan /\ r.user = run[h].user
    BY <2>2, <2>3 DEF Run
  <2> HIDE DEF r
  <2>5. plan \in Seq(Backed(proven'[run[h].user]))
    BY <2>2, BackedGrows DEF Me
  <2> QED
    BY <2>1, <2>2, <2>4, <2>5, RunUpdate
<1> QED
  BY <1>1, <1>2

-----------------------------------------------------------------------------
(* Requests.                                                               *)

LEMMA InitInv == Init => Inv
<1> SUFFICES ASSUME Init PROVE Inv
  OBVIOUS
<1>1. TypeOK
  BY IdleType, AccountsAssumption DEF Init, TypeOK
<1>2. Trusted
  BY DEF Init, Trusted, Busy, Idle
<1>3. \A u \in Names : verified[u] =>
         u \in Founders /\ email[u] = FirstAddress[u] /\ proven[u] = {FirstAddress[u]}
  BY DEF Init
<1>4. OneAccountPerAddress
  BY <1>3, AccountsAssumption DEF OneAccountPerAddress
<1>5. VerifiedIsProven
  BY <1>3 DEF VerifiedIsProven
<1>6. ResetsGoToProven
  BY DEF Init, ResetsGoToProven
<1> QED
  BY <1>1, <1>2, <1>4, <1>5, <1>6 DEF Inv

\* A request that only reads and starts a plan.
LEMMA RequestInv ==
    ASSUME Inv, NEW h \in Webs, Request(h), run' \in [Webs -> Run], Trusted',
           UNCHANGED <<tables, history>>
    PROVE  Inv'
<1> USE DEF tables, history
<1>1. TypeOK'
  BY AccountsAssumption DEF Inv, TypeOK, Request
<1>2. OneAccountPerAddress' /\ VerifiedIsProven' /\ ResetsGoToProven'
  BY DEF Inv, OneAccountPerAddress, VerifiedIsProven, ResetsGoToProven
<1> QED
  BY <1>1, <1>2 DEF Inv

LEMMA StartInv ==
    ASSUME Inv, NEW h \in Webs, Request(h), NEW u \in Names, NEW token \in Nat,
           NEW secret \in Nat, NEW plan \in Seq(Backed(proven[u])),
           Start(h, u, token, secret, plan), UNCHANGED <<tables, history>>
    PROVE  Inv'
BY Started, RequestInv DEF Inv, history

LEMMA Numbers == ASSUME TypeOK PROVE NewToken \in Nat /\ NewSecret \in Nat
BY AccountsAssumption DEF TypeOK, NewToken, NewSecret

\* Those who come without a session.
LEMMA VisitorInv ==
    ASSUME Inv, NEW h \in Webs, NEW u \in Names,
           \/ Login(h, u)
           \/ \E a \in Addresses \cup {NoAddress} :
                \/ Signup(h, u, a)
                \/ \E i \in Identities, vouched \in BOOLEAN : Finish(h, i, u, a, vouched)
           \/ \E to \in UserState : SetState(h, u, to)
           \/ \E i \in Identities : SignIn(h, i)
    PROVE  Inv'
<1>0. TypeOK /\ NewToken \in Nat /\ NewSecret \in Nat
  BY Numbers DEF Inv
<1>1. CASE Login(h, u)
  <2>1. PICK rehash \in {<<>>, <<Do("password")>>} :
           Start(h, u, NewToken, password[u], rehash \o <<Do("session")>>)
    BY <1>1 DEF Login
  <2>2. <<Do("password")>> \in Seq(Backed(proven[u])) /\ <<Do("session")>> \in Seq(Backed(proven[u]))
    BY DoBacked
  <2>3. rehash \in Seq(Backed(proven[u]))
    <3>1. CASE rehash = <<>>
      BY <3>1
    <3>2. CASE rehash = <<Do("password")>>
      BY <2>2, <3>2
    <3> QED
      BY <3>1, <3>2
  <2>5. rehash \o <<Do("session")>> \in Seq(Backed(proven[u]))
    BY <2>2, <2>3, ConcatProperties
  <2>4. password[u] \in Nat
    BY <1>0 DEF TypeOK
  <2> QED
    BY <1>0, <1>1, <2>1, <2>5, <2>4, StartInv DEF Login
<1>2. ASSUME NEW a \in Addresses \cup {NoAddress}, Signup(h, u, a) PROVE Inv'
  BY <1>0, <1>2, SignupBacked, StartInv DEF Signup
<1>3. ASSUME NEW a \in Addresses \cup {NoAddress}, NEW i \in Identities,
             NEW vouched \in BOOLEAN, Finish(h, i, u, a, vouched)
      PROVE  Inv'
  BY <1>0, <1>3, FinishBacked, StartInv DEF Finish
<1>4. ASSUME NEW to \in UserState, SetState(h, u, to) PROVE Inv'
  BY <1>4, StateBacked, StartInv DEF SetState
<1>5. ASSUME NEW i \in Identities, SignIn(h, i) PROVE Inv'
  <2>1. identity[i] \in Names
    BY <1>0, <1>5 DEF SignIn, TypeOK
  <2>2. <<Do("session")>> \in Seq(Backed(proven[identity[i]]))
    BY DoBacked
  <2> QED
    BY <1>0, <1>5, <2>1, <2>2, StartInv DEF SignIn
<1> QED
  BY <1>1, <1>2, <1>3, <1>4, <1>5

\* Those who have a session.
LEMMA MemberInv ==
    ASSUME Inv, NEW h \in Webs, NEW s \in sessions,
           \/ Logout(h, s) \/ ChangePassword(h, s) \/ EndOtherSessions(h, s)
           \/ \E a \in Addresses : ChangeEmail(h, s, a)
    PROVE  Inv'
<1>0. /\ TypeOK /\ NewToken \in Nat /\ NewSecret \in Nat
      /\ s.user \in Names /\ s.token \in Nat
  BY Numbers DEF Inv, TypeOK, Session
<1>1. CASE Logout(h, s)
  <2>1. TypeOK'
    BY <1>0, <1>1, AccountsAssumption DEF Logout, Request, TypeOK, history
  <2>2. Trusted'
    BY <1>1 DEF Inv, Logout, Trusted, Busy, history
  <2> QED
    BY <1>1, <2>1, <2>2
       DEF Inv, Logout, history, OneAccountPerAddress, VerifiedIsProven, ResetsGoToProven
<1>2. CASE ChangePassword(h, s)
  <2>1. <<Do("session"), Do("changed")>> \in Seq(Backed(proven[s.user]))
    BY DoBacked
  <2>2. NewPassword \o <<Do("session"), Do("changed")>> \in Seq(Backed(proven[s.user]))
    BY <2>1, NewPasswordBacked
  <2> QED
    BY <1>0, <1>2, <2>2, StartInv DEF ChangePassword
<1>3. CASE EndOtherSessions(h, s)
  <2>1. <<Do("end"), Do("session")>> \in Seq(Backed(proven[s.user]))
    BY DoBacked
  <2> QED
    BY <1>0, <1>3, <2>1, StartInv DEF EndOtherSessions
<1>4. ASSUME NEW a \in Addresses, ChangeEmail(h, s, a) PROVE Inv'
  BY <1>0, <1>4, GiveAddressBacked, StartInv DEF ChangeEmail
<1> QED
  BY <1>1, <1>2, <1>3, <1>4

\* A reset link is asked for: its address is proved by now, and stays so.
LEMMA RequestResetInv ==
    ASSUME Inv, NEW h \in Webs, NEW a \in Addresses, RequestReset(h, a)
    PROVE  Inv'
<1>1. PICK u \in Holders(a) : Start(h, u, 0, 0, Issue("reset", a))
  BY DEF RequestReset
<1>2. u \in Names /\ a \in proven[u]
  BY DEF Inv, Holders, VerifiedIsProven
<1>3. Issue("reset", a) \in Seq(Backed(proven[u]))
  BY <1>2, IssueBacked
<1> QED
  BY <1>1, <1>2, <1>3, StartInv DEF RequestReset

\* A link is followed: whoever has it has proved the address.
LEMMA FollowInv ==
    ASSUME Inv, NEW h \in Webs, NEW n \in 1..Len(links), NEW kind \in Kind,
           Follow(h, n, kind), run' \in [Webs -> Run], Trusted'
    PROVE  Inv'
<1> DEFINE l == [links[n] EXCEPT !.used = TRUE]
<1>1. links[n] \in Link /\ links \in Seq(Link)
  BY DEF Inv, TypeOK
<1>2. links' = [links EXCEPT ![n] = l]
  BY <1>1 DEF Follow
<1>3. /\ l \in Link
      /\ l.user = links[n].user /\ l.kind = links[n].kind /\ l.address = links[n].address
  BY <1>1 DEF Link
<1> HIDE DEF l
<1>4. links' \in Seq(Link) /\ Len(links') = Len(links)
  BY <1>1, <1>2, <1>3, ExceptSeq
<1>5. /\ proven' \in [Names -> SUBSET Addresses]
      /\ \A u \in Names : proven[u] \subseteq proven'[u]
  BY <1>1 DEF Inv, TypeOK, Follow, Link
<1>6. requests' \in 0..MaxRequests /\ failures' = failures
  BY AccountsAssumption DEF Inv, TypeOK, Follow, Request
<1>7. TypeOK'
  BY <1>4, <1>5, <1>6 DEF Inv, TypeOK, Follow
<1>8. OneAccountPerAddress' /\ VerifiedIsProven'
  BY <1>5 DEF Inv, Follow, OneAccountPerAddress, VerifiedIsProven
<1>9. ASSUME NEW m \in 1..Len(links)
      PROVE  /\ links'[m].user = links[m].user
             /\ links'[m].kind = links[m].kind
             /\ links'[m].address = links[m].address
             /\ links[m].user \in Names
  <2>1. links'[m] = IF m = n THEN l ELSE links[m]
    BY <1>1, <1>2, <1>3, ExceptSeq
  <2>2. links[m] \in Link
    BY <1>1
  <2> QED
    BY <1>3, <2>1, <2>2 DEF Link
<1>10. ResetsGoToProven'
  BY <1>4, <1>5, <1>9 DEF Inv, ResetsGoToProven
<1> QED
  BY <1>7, <1>8, <1>10 DEF Inv

LEMMA LinkInv ==
    ASSUME Inv, NEW h \in Webs, NEW n \in 1..Len(links),
           ConfirmEmail(h, n) \/ CompleteReset(h, n)
    PROVE  Inv'
<1>0. links[n] \in Link /\ NewSecret \in Nat
  BY Numbers DEF Inv, TypeOK
<1>1. links[n].user \in Names /\ links[n].address \in Addresses
  BY <1>0 DEF Link
<1>2. ASSUME NEW kind \in Kind, Follow(h, n, kind)
      PROVE  /\ \A u \in Names : proven[u] \subseteq proven'[u]
             /\ links[n].address \in proven'[links[n].user]
  BY <1>1, <1>2 DEF Inv, TypeOK, Follow
<1>3. CASE ConfirmEmail(h, n)
  <2> DEFINE plan == <<Mail("verify", links[n].address)>>
             r == [Idle EXCEPT !.plan = plan, !.user = links[n].user,
                               !.token = 0, !.secret = 0]
  <2>1. Follow(h, n, "verify") /\ run' = [run EXCEPT ![h] = r]
    BY <1>3 DEF ConfirmEmail, Start
  <2>2. plan \in Seq(Backed(proven'[links[n].user]))
    BY <1>1, <1>2, <2>1, MailBacked
  <2>3. r \in Run /\ r.plan = plan /\ r.user = links[n].user
    BY <1>1, <2>2, BackedType DEF Idle, Run
  <2> HIDE DEF plan, r
  <2> QED
    BY <1>1, <1>2, <2>1, <2>2, <2>3, RunUpdate, FollowInv DEF Inv
<1>4. CASE CompleteReset(h, n)
  <2> DEFINE plan == NewPassword \o <<Do("changed")>>
             r == [Idle EXCEPT !.plan = plan, !.user = links[n].user,
                               !.secret = NewSecret, !.link = n]
  <2>1. Follow(h, n, "reset") /\ run' = [run EXCEPT ![h] = r]
    BY <1>4 DEF CompleteReset
  <2>2. plan \in Seq(Backed(proven'[links[n].user]))
    BY NewPasswordBacked, DoBacked
  <2>3. plan \in Seq(Statement)
    BY <2>2, BackedType
  <2> HIDE DEF plan
  <2>4. n \in Nat
    BY DEF Inv, TypeOK
  <2>5. r \in Run /\ r.plan = plan /\ r.user = links[n].user
    BY <1>0, <1>1, <2>3, <2>4 DEF Idle, Run
  <2> HIDE DEF r
  <2> QED
    BY <1>1, <1>2, <2>1, <2>2, <2>5, RunUpdate, FollowInv DEF Inv
<1> QED
  BY <1>3, <1>4

-----------------------------------------------------------------------------
(* Store calls.                                                            *)

\* Going on with the rest of a plan, or giving it up.
LEMMA GoneOn ==
    ASSUME Inv, NEW h \in Webs, Busy(h), Continue(h, Rest(h)) \/ Continue(h, <<>>),
           \A u \in Names : proven[u] \subseteq proven'[u]
    PROVE  run' \in [Webs -> Run] /\ Trusted'
<1>1. TypeOK /\ Trusted
  BY DEF Inv
<1>2. Rest(h) \in Seq(Backed(proven[Me(h)])) /\ <<>> \in Seq(Backed(proven[Me(h)]))
  BY <1>1, BusyFacts
<1>3. CASE Continue(h, Rest(h))
  BY <1>1, <1>2, <1>3, Continued
<1>4. CASE Continue(h, <<>>)
  BY <1>1, <1>2, <1>4, Continued
<1> QED
  BY <1>3, <1>4

\* What is about to be done.
LEMMA CallFacts ==
    ASSUME Inv, NEW h \in Webs, NEW call, At(h, call)
    PROVE  /\ Busy(h)
           /\ Me(h) \in Names
           /\ NextCall(h) \in Backed(proven[Me(h)])
           /\ NextCall(h) \in Statement
           /\ run[h] \in Run
BY BusyFacts DEF Inv, At, Backed

\* An EXCEPT beyond the end changes nothing.
LEMMA ExceptBeyond ==
    ASSUME NEW s \in Seq(Nat), NEW k, k \notin 1..Len(s), NEW e
    PROVE  [s EXCEPT ![k] = e] = s
<1>1. DOMAIN s = 1..Len(s) /\ s = [i \in DOMAIN s |-> s[i]]
  BY LenProperties
<1>2. k \notin DOMAIN s
  BY <1>1
<1>3. [s EXCEPT ![k] = e] = [i \in DOMAIN s |-> IF i = k THEN e ELSE s[i]]
  OBVIOUS
<1>4. \A i \in DOMAIN s : (IF i = k THEN e ELSE s[i]) = s[i]
  BY <1>2
<1> QED
  BY <1>1, <1>3, <1>4, Zenon

\* Calls that touch neither addresses nor links.
LEMMA AsideInv ==
    ASSUME Inv, NEW h \in Webs,
           \/ CreateUser(h) \/ CreateSession(h) \/ SetPasswordHash(h)
           \/ DeleteUserSessions(h) \/ LinkIdentity(h) \/ SetUserState(h)
           \/ TellChanged(h) \/ Fail(h)
    PROVE  Inv'
<1> USE DEF tables, history, quiet
<1>1. UNCHANGED <<email, verified, links, proven>>
  BY DEF CreateUser, CreateSession, SetPasswordHash, DeleteUserSessions, LinkIdentity,
         SetUserState, TellChanged, Fail
<1>2. OneAccountPerAddress' /\ VerifiedIsProven' /\ ResetsGoToProven'
  BY <1>1 DEF Inv, OneAccountPerAddress, VerifiedIsProven, ResetsGoToProven
<1>3. TypeOK /\ \A u \in Names : proven[u] \subseteq proven'[u]
  BY <1>1 DEF Inv
<1>4. CASE CreateUser(h)
  <2>1. run' \in [Webs -> Run] /\ Trusted'
    BY <1>3, <1>4, GoneOn DEF CreateUser, At
  <2>2. run[h].secret \in Nat
    BY <1>4, CallFacts DEF CreateUser, Run
  <2>3. TypeOK'
    BY <1>3, <1>4, <2>1, <2>2 DEF TypeOK, CreateUser
  <2> QED
    BY <1>2, <2>1, <2>3 DEF Inv
<1>5. CASE CreateSession(h)
  <2>1. run' \in [Webs -> Run] /\ Trusted'
    BY <1>3, <1>5, GoneOn DEF CreateSession, At
  <2>2. [token |-> run[h].token, user |-> Me(h)] \in Session
    BY <1>5, CallFacts DEF CreateSession, Run, Session
  <2>3. TypeOK'
    BY <1>3, <1>5, <2>1, <2>2 DEF TypeOK, CreateSession
  <2> QED
    BY <1>2, <2>1, <2>3 DEF Inv
<1>6. CASE SetPasswordHash(h)
  <2> DEFINE r == [run[h] EXCEPT !.plan = Rest(h), !.since = Len(links)]
  <2>1. /\ Me(h) \in Names /\ Busy(h) /\ run[h] \in Run
        /\ Rest(h) \in Seq(Backed(proven[Me(h)]))
    BY <1>6, CallFacts, BusyFacts DEF Inv, SetPasswordHash
  <2>2. run' = [run EXCEPT ![h] = r]
    BY <1>3, <1>6 DEF SetPasswordHash, TypeOK
  <2>3. Len(links) \in Nat /\ Rest(h) \in Seq(Statement)
    BY <1>3, <2>1, BackedType DEF TypeOK
  <2>4. r \in Run /\ r.plan = Rest(h) /\ r.user = Me(h)
    BY <2>1, <2>3 DEF Run, Me
  <2> HIDE DEF r
  <2>5. run' \in [Webs -> Run] /\ Trusted'
    BY <1>1, <1>3, <2>1, <2>2, <2>4, RunUpdate DEF Inv
  <2>6. password' \in [Names -> Nat]
    BY <1>3, <1>6, <2>1 DEF TypeOK, SetPasswordHash, Run
  <2>7. resets' \in Seq(Nat) /\ Len(resets') = Len(resets)
    <3>1. CASE run[h].link \notin 1..Len(resets)
      BY <1>3, <1>6, <3>1, ExceptBeyond DEF TypeOK, SetPasswordHash
    <3>2. CASE run[h].link \in 1..Len(resets)
      <4>1. resets[run[h].link] + 1 \in Nat /\ run[h].link # 0
        BY <1>3, <3>2 DEF TypeOK
      <4>2. resets' = [resets EXCEPT ![run[h].link] = resets[run[h].link] + 1]
        BY <1>6, <4>1 DEF SetPasswordHash
      <4> QED
        BY <1>3, <3>2, <4>1, <4>2, ExceptSeq DEF TypeOK
    <3> QED
      BY <3>1, <3>2
  <2>8. TypeOK'
    BY <1>3, <1>6, <2>5, <2>6, <2>7 DEF TypeOK, SetPasswordHash
  <2> QED
    BY <1>2, <2>5, <2>8 DEF Inv
<1>7. CASE DeleteUserSessions(h)
  <2>1. run' \in [Webs -> Run] /\ Trusted'
    BY <1>3, <1>7, GoneOn DEF DeleteUserSessions, At
  <2>2. TypeOK'
    BY <1>3, <1>7, <2>1 DEF TypeOK, DeleteUserSessions
  <2> QED
    BY <1>2, <2>1, <2>2 DEF Inv
<1>8. CASE LinkIdentity(h)
  <2>1. run' \in [Webs -> Run] /\ Trusted'
    BY <1>3, <1>8, GoneOn DEF LinkIdentity, At
  <2>2. Me(h) \in Names
    BY <1>8, CallFacts DEF LinkIdentity
  <2>3. TypeOK'
    BY <1>3, <1>8, <2>1, <2>2 DEF TypeOK, LinkIdentity
  <2> QED
    BY <1>2, <2>1, <2>3 DEF Inv
<1>9. CASE SetUserState(h)
  <2>1. run' \in [Webs -> Run] /\ Trusted'
    BY <1>3, <1>9, GoneOn DEF SetUserState, At
  <2>2. NextCall(h).to \in UserState
    BY <1>9, CallFacts DEF SetUserState, Statement
  <2>3. TypeOK'
    BY <1>3, <1>9, <2>1, <2>2 DEF TypeOK, SetUserState
  <2> QED
    BY <1>2, <2>1, <2>3 DEF Inv
<1>10. CASE TellChanged(h)
  <2>1. run' \in [Webs -> Run] /\ Trusted'
    BY <1>3, <1>10, GoneOn DEF TellChanged, At
  <2>2. run[h].since \in Nat
    BY <1>10, CallFacts DEF TellChanged, Run
  <2>3. TypeOK'
    BY <1>3, <1>10, <2>1, <2>2 DEF TypeOK, TellChanged
  <2> QED
    BY <1>2, <2>1, <2>3 DEF Inv
<1>11. CASE Fail(h)
  <2>1. run' \in [Webs -> Run] /\ Trusted'
    BY <1>3, <1>11, GoneOn DEF Fail
  <2>2. TypeOK'
    BY <1>3, <1>11, <2>1, AccountsAssumption DEF TypeOK, Fail
  <2> QED
    BY <1>2, <2>1, <2>2 DEF Inv
<1> QED
  BY <1>4, <1>5, <1>6, <1>7, <1>8, <1>9, <1>10, <1>11

\* A new address is unverified.
LEMMA SetEmailInv ==
    ASSUME Inv, NEW h \in Webs, SetEmail(h) PROVE Inv'
<1> USE DEF history, quiet
<1>1. /\ Me(h) \in Names
      /\ NextCall(h).address \in Addresses \cup {NoAddress}
  BY CallFacts DEF SetEmail, Statement
<1>2. run' \in [Webs -> Run] /\ Trusted'
  BY GoneOn DEF SetEmail, At
<1>3. TypeOK'
  BY <1>1, <1>2 DEF Inv, TypeOK, SetEmail
<1>4. \A u \in Names : verified'[u] => verified[u] /\ email'[u] = email[u]
  BY <1>1 DEF Inv, TypeOK, SetEmail
<1>5. OneAccountPerAddress' /\ VerifiedIsProven' /\ ResetsGoToProven'
  BY <1>4 DEF Inv, SetEmail, OneAccountPerAddress, VerifiedIsProven, ResetsGoToProven
<1> QED
  BY <1>2, <1>3, <1>5 DEF Inv

\* Retiring changes nothing but the marks.
LEMMA RetireInv ==
    ASSUME Inv, NEW h \in Webs, RetireLinks(h) PROVE Inv'
<1> USE DEF history, quiet
<1>1. run' \in [Webs -> Run] /\ Trusted'
  BY GoneOn DEF RetireLinks, At
<1>2. links \in Seq(Link)
  BY DEF Inv, TypeOK
<1> DEFINE mark(n) == IF links[n].user = Me(h) /\ links[n].kind = NextCall(h).kind
                      THEN [links[n] EXCEPT !.used = TRUE] ELSE links[n]
<1>3. links' = [n \in 1..Len(links) |-> mark(n)]
  BY DEF RetireLinks
<1>4. ASSUME NEW n \in 1..Len(links)
      PROVE  /\ mark(n) \in Link
             /\ mark(n).user = links[n].user /\ mark(n).kind = links[n].kind
             /\ mark(n).address = links[n].address
  <2>1. links[n] \in Link
    BY <1>2
  <2> QED
    BY <2>1 DEF Link
<1> HIDE DEF mark
<1>5. links' \in Seq(Link) /\ Len(links') = Len(links)
  BY <1>2, <1>3, <1>4, IsASeq
<1>6. TypeOK'
  BY <1>1, <1>5 DEF Inv, TypeOK, RetireLinks
<1>7. ResetsGoToProven'
  BY <1>3, <1>4, <1>5 DEF Inv, RetireLinks, ResetsGoToProven
<1>8. OneAccountPerAddress' /\ VerifiedIsProven'
  BY DEF Inv, RetireLinks, OneAccountPerAddress, VerifiedIsProven
<1> QED
  BY <1>1, <1>6, <1>7, <1>8 DEF Inv

\* A link is written for the address that the plan had for it.
LEMMA CreateLinkInv ==
    ASSUME Inv, NEW h \in Webs, CreateLink(h) PROVE Inv'
<1> USE DEF quiet
<1> DEFINE new == [user |-> Me(h), kind |-> NextCall(h).kind,
                   address |-> NextCall(h).address, used |-> FALSE]
<1>1. run' \in [Webs -> Run] /\ Trusted'
  BY GoneOn DEF CreateLink, At
<1>2. At(h, "link") /\ links' = Append(links, new) /\ resets' = Append(resets, 0)
  BY DEF CreateLink
<1>3. /\ Me(h) \in Names /\ NextCall(h) \in Backed(proven[Me(h)])
      /\ NextCall(h) \in Statement /\ NextCall(h).do = "link"
  BY <1>2, CallFacts DEF At
<1>4. /\ new \in Link /\ new.user = Me(h)
      /\ new.kind = "reset" => new.address \in proven[Me(h)]
  BY <1>3 DEF Backed, Statement, Link
<1> HIDE DEF new
<1>5. /\ links \in Seq(Link) /\ resets \in Seq(Nat) /\ Len(resets) = Len(links)
  BY DEF Inv, TypeOK
<1>6. /\ links' \in Seq(Link) /\ resets' \in Seq(Nat)
      /\ Len(links') = Len(links) + 1 /\ Len(resets') = Len(links')
  BY <1>2, <1>4, <1>5, AppendProperties
<1>7. TypeOK'
  BY <1>1, <1>6 DEF Inv, TypeOK, CreateLink
<1>8. ResetsGoToProven'
  <2> SUFFICES ASSUME NEW n \in 1..Len(links'), links'[n].kind = "reset"
               PROVE  links'[n].address \in proven[links'[n].user]
    BY DEF ResetsGoToProven, CreateLink
  <2>1. CASE n = Len(links) + 1
    BY <1>2, <1>4, <1>5, <2>1, AppendProperties
  <2>2. CASE n \in 1..Len(links)
    <3>1. links'[n] = links[n]
      BY <1>2, <1>4, <1>5, <2>2, AppendProperties
    <3> QED
      BY <2>2, <3>1 DEF Inv, ResetsGoToProven
  <2> QED
    BY <1>5, <1>6, <2>1, <2>2
<1>9. OneAccountPerAddress' /\ VerifiedIsProven'
  BY DEF Inv, CreateLink, OneAccountPerAddress, VerifiedIsProven
<1> QED
  BY <1>1, <1>7, <1>8, <1>9 DEF Inv

\* An address is marked while it is the account's, and nobody else's.
LEMMA MarkVerifiedInv ==
    ASSUME Inv, NEW h \in Webs, MarkVerified(h) PROVE Inv'
<1> USE DEF quiet
<1> DEFINE a == NextCall(h).address
           marked == StillOf(Me(h), a) /\ Provable(Me(h), a)
<1>1. /\ Busy(h) /\ Me(h) \in Names
      /\ NextCall(h) \in Backed(proven[Me(h)])
      /\ NextCall(h).do \in {"verify", "vouch"}
  BY CallFacts DEF MarkVerified, At
<1>2. /\ NextCall(h).do = "vouch" => a \in Addresses
      /\ NextCall(h).do = "verify" => a \in proven[Me(h)]
  BY <1>1 DEF Backed
<1>3. /\ verified' = [verified EXCEPT ![Me(h)] = @ \/ marked]
      /\ proven' = IF NextCall(h).do = "vouch"
                   THEN [proven EXCEPT ![Me(h)] = @ \cup {a}] ELSE proven
      /\ email' = email /\ links' = links
  BY DEF MarkVerified
<1> HIDE DEF a
<1>4. /\ proven' \in [Names -> SUBSET Addresses]
      /\ \A u \in Names : proven[u] \subseteq proven'[u]
      /\ a \in proven'[Me(h)]
  BY <1>1, <1>2, <1>3 DEF Inv, TypeOK
<1>5. run' \in [Webs -> Run] /\ Trusted'
  BY <1>1, <1>4, GoneOn DEF MarkVerified
<1>6. /\ verified' \in [Names -> BOOLEAN]
      /\ \A u \in Names : verified'[u] => verified[u] \/ (u = Me(h) /\ marked)
  BY <1>1, <1>3 DEF Inv, TypeOK
<1>7. TypeOK'
  BY <1>4, <1>5, <1>6 DEF Inv, TypeOK, MarkVerified
<1>8. VerifiedIsProven'
  BY <1>3, <1>4, <1>6 DEF Inv, VerifiedIsProven, StillOf
<1>9. OneAccountPerAddress'
  BY <1>3, <1>6 DEF Inv, OneAccountPerAddress, Provable
<1>10. ResetsGoToProven'
  BY <1>3, <1>4 DEF Inv, TypeOK, Link, ResetsGoToProven
<1> QED
  BY <1>5, <1>7, <1>8, <1>9, <1>10 DEF Inv

-----------------------------------------------------------------------------
(* The theorems.                                                           *)

LEMMA NextInv == Inv /\ [Next]_vars => Inv'
<1> SUFFICES ASSUME Inv, [Next]_vars PROVE Inv'
  OBVIOUS
<1>1. CASE UNCHANGED vars
  BY <1>1 DEF vars, tables, history, Inv, TypeOK, Trusted, Busy,
              OneAccountPerAddress, VerifiedIsProven, ResetsGoToProven
<1>2. ASSUME NEW h \in Webs, Visit(h) PROVE Inv'
  <2>1. ASSUME NEW u \in Names,
               \/ Login(h, u)
               \/ \E a \in Addresses \cup {NoAddress} :
                    \/ Signup(h, u, a)
                    \/ \E i \in Identities, vouched \in BOOLEAN : Finish(h, i, u, a, vouched)
               \/ \E to \in UserState : SetState(h, u, to)
        PROVE  Inv'
    BY <2>1, VisitorInv
  <2>2. ASSUME NEW i \in Identities, SignIn(h, i) PROVE Inv'
    <3>1. identity[i] \in Names
      BY <2>2 DEF SignIn, Inv, TypeOK
    <3> QED
      BY <2>2, <3>1, VisitorInv
  <2>3. ASSUME NEW s \in sessions,
               \/ Logout(h, s) \/ ChangePassword(h, s) \/ EndOtherSessions(h, s)
               \/ \E a \in Addresses : ChangeEmail(h, s, a)
        PROVE  Inv'
    BY <2>3, MemberInv
  <2>4. ASSUME NEW a \in Addresses, RequestReset(h, a) PROVE Inv'
    BY <2>4, RequestResetInv
  <2>5. ASSUME NEW n \in 1..Len(links), ConfirmEmail(h, n) \/ CompleteReset(h, n) PROVE Inv'
    BY <2>5, LinkInv
  <2> QED
    BY <1>2, <2>1, <2>2, <2>3, <2>4, <2>5 DEF Visit
<1>3. ASSUME NEW h \in Webs, Step(h) \/ Fail(h) PROVE Inv'
  BY <1>3, AsideInv, SetEmailInv, RetireInv, CreateLinkInv, MarkVerifiedInv DEF Step
<1> QED
  BY <1>1, <1>2, <1>3 DEF Next

LEMMA AlwaysInv == Spec => []Inv
BY InitInv, NextInv, PTL DEF Spec

\* The tables, and the plans of the handlers, keep their types.
THEOREM TypeCorrect == Spec => []TypeOK
BY AlwaysInv, PTL DEF Inv

\* DECISIONS.md: any number of accounts may claim an address and one may prove
\* it.  The partial index and the conditional update are enough for it.
THEOREM OneProves == Spec => []OneAccountPerAddress
BY AlwaysInv, PTL DEF Inv

\* An address is trusted only after its owner, or a provider, has proved it for
\* this account, whatever other changes are under way.
THEOREM ProvenFirst == Spec => []VerifiedIsProven
BY AlwaysInv, PTL DEF Inv

\* A reset link, which is as good as a password, is mailed to no address that
\* the account has not proved, though the look and the mail are apart.
THEOREM ResetsTrusted == Spec => []ResetsGoToProven
BY AlwaysInv, PTL DEF Inv

-----------------------------------------------------------------------------
(* A reset link sets one password.                                         *)

Other == {s \in Statement : s.do # "password"}

\* The handler that spent a link, and has not set the password yet.
Owes(r) == r.link # 0 /\ r.plan # <<>> /\ Head(r.plan).do = "password"

Spent ==
    /\ \A h \in Webs : (Busy(h) /\ run[h].link # 0) =>
          /\ run[h].link \in 1..Len(links)
          /\ Tail(run[h].plan) \in Seq(Other)
    /\ \A h \in Webs : Owes(run[h]) =>
          links[run[h].link].used /\ resets[run[h].link] = 0
    /\ \A g, h \in Webs : (Owes(run[g]) /\ Owes(run[h]) /\ run[g].link = run[h].link) => g = h
    /\ \A n \in 1..Len(links) : ~links[n].used => resets[n] = 0
    /\ ResetOnce

\* Steps that follow no reset link and set no password by one.
LEMMA SpentKept ==
    ASSUME Inv, Spent, NEW h \in Webs,
           \A g \in Webs \ {h} : run'[g] = run[g],
           \/ run'[h] = run[h]
           \/ run'[h].link = 0
           \/ Busy(h) /\ run'[h].link = run[h].link /\ run'[h].plan = Rest(h),
           Len(resets') = Len(links'), Len(links') \in Nat, Len(links) <= Len(links'),
           \A n \in 1..Len(links) :
               /\ links[n].used => links'[n].used
               /\ resets'[n] = resets[n],
           \A n \in Len(links) + 1..Len(links') : resets'[n] = 0
    PROVE  Spent'
<1>0. Len(links) \in Nat /\ Len(resets) = Len(links)
  BY DEF Inv, TypeOK
<1>1. ASSUME NEW g \in Webs, run'[g].plan # <<>>, run'[g].link # 0
      PROVE  /\ run'[g].link \in 1..Len(links)
             /\ Tail(run'[g].plan) \in Seq(Other)
             /\ Owes(run'[g]) => run'[g] = run[g]
  <2>1. CASE run'[g] = run[g]
    BY <1>1, <2>1 DEF Spent, Busy
  <2>2. CASE run'[g] # run[g]
    <3>1. g = h /\ Busy(h) /\ run'[h].link = run[h].link /\ run'[h].plan = Rest(h)
      BY <1>1, <2>2
    <3>2. run[h].link \in 1..Len(links) /\ Rest(h) \in Seq(Other) /\ Rest(h) # <<>>
      BY <1>1, <3>1 DEF Spent, Rest
    <3>3. Head(Rest(h)) \in Other /\ Tail(Rest(h)) \in Seq(Other)
      BY <3>2, HeadTailProperties
    <3> QED
      BY <3>1, <3>2, <3>3 DEF Owes, Other
  <2> QED
    BY <2>1, <2>2
<1>2. ASSUME NEW g \in Webs, Owes(run'[g])
      PROVE  run'[g] = run[g] /\ run[g].link \in 1..Len(links)
  BY <1>1, <1>2 DEF Owes
<1>3. \A g \in Webs : Owes(run'[g]) =>
         links'[run'[g].link].used /\ resets'[run'[g].link] = 0
  BY <1>2 DEF Spent
<1>4. \A g, k \in Webs : (Owes(run'[g]) /\ Owes(run'[k]) /\ run'[g].link = run'[k].link) => g = k
  BY <1>2 DEF Spent
<1>5. \A n \in 1..Len(links') : /\ ~links'[n].used => resets'[n] = 0
                               /\ resets'[n] <= 1
  <2> SUFFICES ASSUME NEW n \in 1..Len(links')
               PROVE  (~links'[n].used => resets'[n] = 0) /\ resets'[n] <= 1
    OBVIOUS
  <2>1. CASE n \in 1..Len(links)
    BY <1>0, <2>1 DEF Spent, ResetOnce
  <2>2. CASE n \notin 1..Len(links)
    BY <1>0, <2>2
  <2> QED
    BY <2>1, <2>2
<1> QED
  BY <1>0, <1>1, <1>3, <1>4, <1>5 DEF Spent, ResetOnce, Busy

\* Most steps leave links and resets as they are.
LEMMA SpentAside ==
    ASSUME Inv, Spent, NEW h \in Webs, UNCHANGED <<links, resets>>,
           \A g \in Webs \ {h} : run'[g] = run[g],
           \/ run'[h] = run[h]
           \/ run'[h].link = 0
           \/ Busy(h) /\ run'[h].link = run[h].link /\ run'[h].plan = Rest(h)
    PROVE  Spent'
<1>1. Len(links) \in Nat /\ Len(resets) = Len(links)
  BY DEF Inv, TypeOK
<1> QED
  BY <1>1, SpentKept

LEMMA StartRun ==
    ASSUME TypeOK, NEW h \in Webs, NEW u, NEW token, NEW secret, NEW plan,
           Start(h, u, token, secret, plan)
    PROVE  /\ \A g \in Webs \ {h} : run'[g] = run[g]
           /\ run'[h].plan = plan /\ run'[h].user = u
           /\ run'[h].link = 0 /\ run'[h].since = 0 /\ run'[h].secret = secret
BY DEF Start, TypeOK, Idle

LEMMA ContinueRun ==
    ASSUME TypeOK, NEW h \in Webs, NEW plan, Continue(h, plan)
    PROVE  /\ \A g \in Webs \ {h} : run'[g] = run[g]
           /\ \/ run'[h].plan = <<>> /\ run'[h].link = 0
              \/ /\ run'[h].plan = plan /\ run'[h].user = run[h].user
                 /\ run'[h].link = run[h].link /\ run'[h].since = run[h].since
                 /\ run'[h].secret = run[h].secret
<1>1. run[h] \in Run /\ h \in DOMAIN run
  BY DEF TypeOK
<1>2. CASE plan = <<>>
  BY <1>1, <1>2 DEF Continue, Idle, TypeOK
<1>3. CASE plan # <<>>
  BY <1>1, <1>3 DEF Continue, Run, TypeOK
<1> QED
  BY <1>2, <1>3

\* Requests other than the two that follow a link.
LEMMA SpentRequest ==
    ASSUME Inv, Spent, NEW h \in Webs,
           \/ \E u, token, secret, plan : Start(h, u, token, secret, plan)
           \/ UNCHANGED run,
           UNCHANGED <<links, resets>>
    PROVE  Spent'
<1>1. TypeOK
  BY DEF Inv
<1>2. CASE UNCHANGED run
  BY <1>2, SpentAside
<1>3. ASSUME NEW u, NEW token, NEW secret, NEW plan, Start(h, u, token, secret, plan)
      PROVE  Spent'
  BY <1>1, <1>3, StartRun, SpentAside
<1> QED
  BY <1>2, <1>3

LEMMA SpentFollow ==
    ASSUME Inv, Spent, NEW h \in Webs, NEW n \in 1..Len(links), NEW kind \in Kind,
           Follow(h, n, kind)
    PROVE  /\ resets' = resets /\ Len(links') = Len(links)
           /\ \A m \in 1..Len(links) : links'[m].used <=> links[m].used \/ m = n
           /\ ~links[n].used /\ resets[n] = 0
<1> DEFINE l == [links[n] EXCEPT !.used = TRUE]
<1>1. links[n] \in Link /\ links \in Seq(Link)
  BY DEF Inv, TypeOK
<1>2. links' = [links EXCEPT ![n] = l]
  BY <1>1 DEF Follow
<1>3. l \in Link /\ l.used
  BY <1>1 DEF Link
<1> HIDE DEF l
<1>4. /\ Len(links') = Len(links)
      /\ \A m \in 1..Len(links) : links'[m] = IF m = n THEN l ELSE links[m]
  BY <1>1, <1>2, <1>3, ExceptSeq
<1>5. ~links[n].used /\ resets' = resets
  BY DEF Follow, Unspent
<1> QED
  BY <1>3, <1>4, <1>5 DEF Spent

LEMMA SpentConfirm ==
    ASSUME Inv, Spent, NEW h \in Webs, NEW n \in 1..Len(links), ConfirmEmail(h, n)
    PROVE  Spent'
<1>1. TypeOK /\ Len(links) \in Nat /\ Len(resets) = Len(links)
  BY DEF Inv, TypeOK
<1>2. /\ resets' = resets /\ Len(links') = Len(links)
      /\ \A m \in 1..Len(links) : links'[m].used <=> links[m].used \/ m = n
  BY SpentFollow DEF ConfirmEmail
<1>3. (\A g \in Webs \ {h} : run'[g] = run[g]) /\ run'[h].link = 0
  BY <1>1, StartRun DEF ConfirmEmail
<1> QED
  BY <1>1, <1>2, <1>3, SpentKept

\* The link was unspent, so no other handler owes it a password.
LEMMA SpentReset ==
    ASSUME Inv, Spent, NEW h \in Webs, NEW n \in 1..Len(links), CompleteReset(h, n)
    PROVE  Spent'
<1>1. TypeOK /\ Len(links) \in Nat /\ Len(resets) = Len(links)
  BY DEF Inv, TypeOK
<1>2. /\ resets' = resets /\ Len(links') = Len(links)
      /\ \A m \in 1..Len(links) : links'[m].used <=> links[m].used \/ m = n
      /\ ~links[n].used /\ resets[n] = 0
  BY SpentFollow DEF CompleteReset
<1> DEFINE plan == NewPassword \o <<Do("changed")>>
<1>3. /\ \A g \in Webs \ {h} : run'[g] = run[g]
      /\ run'[h].link = n /\ run'[h].plan = plan
  BY <1>1 DEF CompleteReset, TypeOK, Idle
<1>4. Tail(plan) \in Seq(Other) /\ plan # <<>>
  <2>1. /\ Do("end") \in Other /\ Do("changed") \in Other
        /\ [Do("retire") EXCEPT !.kind = "reset"] \in Other
        /\ Do("password") \in Statement
    BY DEF Do, Other, Statement
  <2>2. NewPassword \in Seq(Statement) /\ <<Do("changed")>> \in Seq(Statement)
    BY <2>1 DEF NewPassword, Other
  <2>3. Len(NewPassword) = 3 /\ NewPassword[2] \in Other /\ NewPassword[3] \in Other
    BY <2>1 DEF NewPassword
  <2> DEFINE last == <<Do("changed")>>
             t    == Tail(plan)
  <2>4. last \in Seq(Statement) /\ Len(last) = 1 /\ last[1] \in Other
    BY <2>1, <2>2
  <2> HIDE DEF last
  <2>5. /\ plan \in Seq(Statement) /\ Len(plan) = 4
        /\ plan[2] = NewPassword[2] /\ plan[3] = NewPassword[3] /\ plan[4] = last[1]
    <3>1. plan = NewPassword \o last
      BY DEF last
    <3> HIDE DEF plan
    <3>2. /\ plan \in Seq(Statement)
          /\ Len(plan) = Len(NewPassword) + Len(last)
          /\ \A i \in 1..Len(NewPassword) + Len(last) :
                plan[i] = IF i <= Len(NewPassword) THEN NewPassword[i]
                          ELSE last[i - Len(NewPassword)]
      BY <2>2, <2>4, <3>1, ConcatProperties, Zenon
    <3>3. 2 \in 1..3 + 1 /\ 3 \in 1..3 + 1 /\ 4 \in 1..3 + 1 /\ ~(4 <= 3) /\ 4 - 3 = 1
      OBVIOUS
    <3> QED
      BY <2>3, <2>4, <3>2, <3>3
  <2> HIDE DEF plan
  <2>6. plan # <<>>
    BY <2>5
  <2>7. /\ t \in Seq(Statement) /\ Len(t) = 3
        /\ t[1] = plan[2] /\ t[2] = plan[3] /\ t[3] = plan[4]
    <3>1. /\ t \in Seq(Statement) /\ Len(t) = Len(plan) - 1
          /\ \A i \in 1..Len(t) : t[i] = plan[i + 1]
      BY <2>5, <2>6, HeadTailProperties
    <3> HIDE DEF t
    <3>2. 1 \in 1..Len(t) /\ 2 \in 1..Len(t) /\ 3 \in 1..Len(t)
      BY <2>5, <3>1
    <3>3. t[1] = plan[1 + 1] /\ t[2] = plan[2 + 1] /\ t[3] = plan[3 + 1]
      BY <3>1, <3>2, Zenon
    <3> QED
      BY <2>5, <3>1, <3>3
  <2> HIDE DEF t
  <2>8. \A i \in 1..Len(t) : t[i] \in Other
    BY <2>3, <2>4, <2>5, <2>7
  <2>9. t = [i \in 1..Len(t) |-> t[i]] /\ Len(t) \in Nat
    BY <2>7, LenProperties
  <2>10. t \in Seq(Other)
    BY <2>8, <2>9, IsASeq
  <2> QED
    BY <2>6, <2>10 DEF t
<1> HIDE DEF plan
<1>5. n \in Nat /\ n # 0
  BY <1>1
<1>6. \A g \in Webs \ {h} : Owes(run'[g]) => run'[g] = run[g] /\ run[g].link # n
  BY <1>2, <1>3 DEF Spent
<1>7. \A g \in Webs : (run'[g].plan # <<>> /\ run'[g].link # 0) =>
         /\ run'[g].link \in 1..Len(links')
         /\ Tail(run'[g].plan) \in Seq(Other)
  BY <1>2, <1>3, <1>4 DEF Spent, Busy
<1>8. \A g \in Webs : Owes(run'[g]) => run'[g].link \in 1..Len(links)
  BY <1>2, <1>7 DEF Owes
<1>9. \A g \in Webs : Owes(run'[g]) =>
         links'[run'[g].link].used /\ resets'[run'[g].link] = 0
  BY <1>2, <1>3, <1>6, <1>8 DEF Spent
<1>10. \A g, k \in Webs : (Owes(run'[g]) /\ Owes(run'[k]) /\ run'[g].link = run'[k].link) => g = k
  BY <1>3, <1>6 DEF Spent
<1>11. \A m \in 1..Len(links') : ~links'[m].used => resets'[m] = 0
  BY <1>2 DEF Spent
<1>12. ResetOnce'
  BY <1>2 DEF Spent, ResetOnce
<1> QED
  BY <1>7, <1>9, <1>10, <1>11, <1>12 DEF Spent, Busy

LEMMA SpentVisit ==
    ASSUME Inv, Spent, NEW h \in Webs, Visit(h) PROVE Spent'
<1> USE DEF tables, history
<1>1. ASSUME NEW u \in Names,
             \/ Login(h, u)
             \/ \E a \in Addresses \cup {NoAddress} :
                  \/ Signup(h, u, a)
                  \/ \E i \in Identities, vouched \in BOOLEAN : Finish(h, i, u, a, vouched)
             \/ \E to \in UserState : SetState(h, u, to)
      PROVE  Spent'
  BY <1>1, SpentRequest DEF Login, Signup, Finish, SetState
<1>2. ASSUME NEW i \in Identities, SignIn(h, i) PROVE Spent'
  BY <1>2, SpentRequest DEF SignIn
<1>3. ASSUME NEW s \in sessions,
             \/ Logout(h, s) \/ ChangePassword(h, s) \/ EndOtherSessions(h, s)
             \/ \E a \in Addresses : ChangeEmail(h, s, a)
      PROVE  Spent'
  BY <1>3, SpentRequest DEF Logout, ChangePassword, EndOtherSessions, ChangeEmail
<1>4. ASSUME NEW a \in Addresses, RequestReset(h, a) PROVE Spent'
  BY <1>4, SpentRequest DEF RequestReset
<1>5. ASSUME NEW n \in 1..Len(links), ConfirmEmail(h, n) \/ CompleteReset(h, n) PROVE Spent'
  BY <1>5, SpentConfirm, SpentReset
<1> QED
  BY <1>1, <1>2, <1>3, <1>4, <1>5 DEF Visit

\* The password that the link owed is set, and the link owes no other.
LEMMA SpentPassword ==
    ASSUME Inv, Spent, NEW h \in Webs, SetPasswordHash(h) PROVE Spent'
<1>1. /\ Busy(h) /\ run[h] \in Run /\ Head(run[h].plan).do = "password"
  BY CallFacts DEF SetPasswordHash, At, NextCall
<1>2. /\ \A g \in Webs \ {h} : run'[g] = run[g]
      /\ run'[h].link = run[h].link /\ run'[h].plan = Rest(h) /\ links' = links
  BY <1>1 DEF SetPasswordHash, Inv, TypeOK, Run
<1>3. CASE run[h].link = 0
  BY <1>2, <1>3, SpentAside DEF SetPasswordHash
<1>4. CASE run[h].link # 0
  <2> DEFINE n == run[h].link
  <2>1. Owes(run[h])
    BY <1>1, <1>4 DEF Owes, Busy
  <2>2. /\ n \in 1..Len(links) /\ Rest(h) \in Seq(Other)
        /\ links[n].used /\ resets[n] = 0
    BY <1>1, <1>4, <2>1 DEF Spent, Rest
  <2>3. resets \in Seq(Nat) /\ Len(resets) = Len(links)
    BY DEF Inv, TypeOK
  <2>4. resets' = [resets EXCEPT ![n] = 1]
    BY <1>4, <2>2, <2>3 DEF SetPasswordHash
  <2>5. Len(resets') = Len(links)
        /\ \A m \in 1..Len(links) : resets'[m] = IF m = n THEN 1 ELSE resets[m]
    BY <2>2, <2>3, <2>4, ExceptSeq
  <2> HIDE DEF n
  <2>6. ~Owes(run'[h]) /\ (Rest(h) # <<>> => Tail(Rest(h)) \in Seq(Other))
    BY <1>2, <2>2, HeadTailProperties DEF Owes, Other
  <2>7. \A g \in Webs : Owes(run'[g]) =>
           run'[g] = run[g] /\ run[g].link # n /\ run[g].link \in 1..Len(links)
    BY <1>2, <2>1, <2>6 DEF Spent, n, Owes, Busy
  <2>8. \A g \in Webs : (run'[g].plan # <<>> /\ run'[g].link # 0) =>
           /\ run'[g].link \in 1..Len(links)
           /\ Tail(run'[g].plan) \in Seq(Other)
    BY <1>2, <2>2, <2>6 DEF Spent, Busy, n
  <2>9. \A g \in Webs : Owes(run'[g]) =>
           links'[run'[g].link].used /\ resets'[run'[g].link] = 0
    BY <1>2, <2>5, <2>7 DEF Spent
  <2>10. \A g, k \in Webs : (Owes(run'[g]) /\ Owes(run'[k]) /\ run'[g].link = run'[k].link) => g = k
    BY <2>7 DEF Spent
  <2>11. \A m \in 1..Len(links) : ~links[m].used => resets'[m] = 0
    BY <2>2, <2>5 DEF Spent
  <2>12. ResetOnce'
    BY <2>3, <2>5 DEF Spent, ResetOnce
  <2> QED
    BY <1>2, <2>8, <2>9, <2>10, <2>11, <2>12 DEF Spent, Busy
<1> QED
  BY <1>3, <1>4

LEMMA SpentContinue ==
    ASSUME Inv, Spent, NEW h \in Webs, Busy(h),
           Continue(h, Rest(h)) \/ Continue(h, <<>>), UNCHANGED <<links, resets>>
    PROVE  Spent'
<1>1. TypeOK
  BY DEF Inv
<1>2. CASE Continue(h, Rest(h))
  BY <1>1, <1>2, ContinueRun, SpentAside
<1>3. CASE Continue(h, <<>>)
  <2>1. (\A g \in Webs \ {h} : run'[g] = run[g]) /\ run'[h].link = 0
    BY <1>1, <1>3 DEF Continue, TypeOK, Idle
  <2> QED
    BY <2>1, SpentAside
<1> QED
  BY <1>2, <1>3

LEMMA SpentStep ==
    ASSUME Inv, Spent, NEW h \in Webs, Step(h) \/ Fail(h) PROVE Spent'
<1> USE DEF tables, history, quiet
<1>0. TypeOK /\ links \in Seq(Link) /\ resets \in Seq(Nat) /\ Len(resets) = Len(links)
  BY DEF Inv, TypeOK
<1>1. CASE \/ CreateUser(h) \/ CreateSession(h) \/ SetEmail(h) \/ MarkVerified(h)
           \/ DeleteUserSessions(h) \/ LinkIdentity(h) \/ SetUserState(h)
           \/ TellChanged(h) \/ Fail(h)
  <2>1. Busy(h) /\ (Continue(h, Rest(h)) \/ Continue(h, <<>>)) /\ UNCHANGED <<links, resets>>
    BY <1>1 DEF CreateUser, CreateSession, SetEmail, MarkVerified, DeleteUserSessions,
                LinkIdentity, SetUserState, TellChanged, Fail, At
  <2> QED
    BY <2>1, SpentContinue
<1>2. CASE SetPasswordHash(h)
  BY <1>2, SpentPassword
<1>3. CASE RetireLinks(h)
  <2>1. Busy(h) /\ Continue(h, Rest(h)) /\ resets' = resets
    BY <1>3 DEF RetireLinks, At
  <2>2. Len(links') = Len(links) /\ \A n \in 1..Len(links) : links[n].used => links'[n].used
    <3> DEFINE mark(n) == IF links[n].user = Me(h) /\ links[n].kind = NextCall(h).kind
                          THEN [links[n] EXCEPT !.used = TRUE] ELSE links[n]
    <3>1. links' = [n \in 1..Len(links) |-> mark(n)]
      BY <1>3 DEF RetireLinks
    <3>2. \A n \in 1..Len(links) : mark(n) \in Link /\ (links[n].used => mark(n).used)
      <4> SUFFICES ASSUME NEW n \in 1..Len(links)
                   PROVE  mark(n) \in Link /\ (links[n].used => mark(n).used)
        OBVIOUS
      <4>1. links[n] \in Link
        BY <1>0
      <4> QED
        BY <4>1 DEF Link
    <3> HIDE DEF mark
    <3> QED
      BY <1>0, <3>1, <3>2, IsASeq
  <2>3. Len(links) \in Nat
    BY <1>0
  <2> QED
    BY <1>0, <2>1, <2>2, <2>3, ContinueRun, SpentKept
<1>4. CASE CreateLink(h)
  <2> DEFINE new == [user |-> Me(h), kind |-> NextCall(h).kind,
                     address |-> NextCall(h).address, used |-> FALSE]
  <2>1. Busy(h) /\ Continue(h, Rest(h)) /\ links' = Append(links, new) /\ resets' = Append(resets, 0)
    BY <1>4 DEF CreateLink, At
  <2>2. links \in Seq(Link \cup {new})
    BY <1>0
  <2> HIDE DEF new
  <2>3. /\ Len(links') = Len(links) + 1 /\ Len(resets') = Len(links')
        /\ \A n \in 1..Len(links) : links'[n] = links[n] /\ resets'[n] = resets[n]
        /\ resets'[Len(links) + 1] = 0 /\ Len(links) \in Nat
    BY <1>0, <2>1, <2>2, AppendProperties
  <2>4. \A n \in Len(links) + 1..Len(links') : resets'[n] = 0
    BY <2>3
  <2> QED
    BY <1>0, <2>1, <2>3, <2>4, ContinueRun, SpentKept
<1> QED
  BY <1>1, <1>2, <1>3, <1>4 DEF Step

LEMMA SpentNext == Inv /\ Spent /\ [Next]_vars => Spent'
<1> SUFFICES ASSUME Inv, Spent, [Next]_vars PROVE Spent'
  OBVIOUS
<1>1. CASE UNCHANGED vars
  BY <1>1 DEF vars, tables, history, Spent, Busy, ResetOnce
<1> QED
  BY <1>1, SpentVisit, SpentStep DEF Next

LEMMA SpentInit == Init => Spent
BY DEF Init, Spent, Idle, Owes, Busy, ResetOnce

LEMMA AlwaysSpent == Spec => []Spent
BY AlwaysInv, SpentInit, SpentNext, PTL DEF Spec

\* sql.rs: two clicks on the same link cannot both succeed, because the
\* statement that returns the row is the one that marks it.
THEOREM OneReset == Spec => []ResetOnce
BY AlwaysSpent, PTL DEF Spent

-----------------------------------------------------------------------------
(* Whoever is signed in has a way to sign in again.                        *)

There(u) == account[u] # "none"

\* A way to sign in to the account: a password, or an identity.
Way(u) == password[u] # 0 \/ \E i \in Identities : identity[i] = u

\* A call that gives its account a way to sign in, in a handler with this secret.
Gives(c, secret) == c.do = "identity" \/ (c.do \in {"user", "password"} /\ secret # 0)

\* No session comes before a way to sign in.
Earned(plan, secret, way) ==
    \A i \in 1..Len(plan) : plan[i].do = "session" =>
        way \/ \E j \in 1..i - 1 : Gives(plan[j], secret)

\* Passwords, and links that set one, are written for accounts that are there.
Owned(plan, secret, there) ==
    \A i \in 1..Len(plan) :
        /\ plan[i].do = "password" => secret # 0 /\ there
        /\ plan[i].do = "link" /\ plan[i].kind = "reset" => there

PasswordsOwned == \A u \in Names : password[u] # 0 => There(u)
LinksOwned == \A n \in 1..Len(links) : links[n].kind = "reset" => There(links[n].user)

WaysBack ==
    /\ SignedInCanReturn
    /\ PasswordsOwned
    /\ LinksOwned
    /\ \A h \in Webs : Busy(h) =>
          /\ Earned(run[h].plan, run[h].secret, Way(run[h].user))
          /\ Owned(run[h].plan, run[h].secret, There(run[h].user))

\* Nothing more to tell of a plan of such calls.
Plain == {c \in Statement : /\ c.do \notin {"password", "changed"}
                            /\ ~(c.do = "link" /\ c.kind = "reset")}
Sessionless == {c \in Statement : c.do # "session"}

LEMMA TailFacts ==
    ASSUME NEW plan \in Seq(Statement), plan # <<>>
    PROVE  /\ Len(plan) \in Nat /\ Len(plan) >= 1
           /\ Tail(plan) \in Seq(Statement) /\ Len(Tail(plan)) = Len(plan) - 1
           /\ \A i \in 1..Len(Tail(plan)) : Tail(plan)[i] = plan[i + 1]
           /\ Head(plan) = plan[1]
<1>1. Len(plan) \in Nat /\ Len(plan) >= 1 /\ Head(plan) = plan[1]
  BY EmptySeq, LenProperties
<1> QED
  BY <1>1, HeadTailProperties

LEMMA EarnedTail ==
    ASSUME NEW plan \in Seq(Statement), plan # <<>>, NEW secret,
           NEW way \in BOOLEAN, NEW later \in BOOLEAN,
           Earned(plan, secret, way), way \/ Gives(Head(plan), secret) => later
    PROVE  Earned(Tail(plan), secret, later)
<1> DEFINE t == Tail(plan)
<1>1. /\ Len(plan) \in Nat /\ Len(t) = Len(plan) - 1
      /\ \A i \in 1..Len(t) : t[i] = plan[i + 1]
      /\ Head(plan) = plan[1]
  BY TailFacts
<1> HIDE DEF t
<1>2. ASSUME NEW i \in 1..Len(t), t[i].do = "session", ~later
      PROVE  \E j \in 1..i - 1 : Gives(t[j], secret)
  <2>1. i + 1 \in 1..Len(plan) /\ plan[i + 1].do = "session"
    BY <1>1, <1>2
  <2>2. PICK j \in 1..(i + 1) - 1 : Gives(plan[j], secret)
    BY <1>2, <2>1 DEF Earned
  <2>3. j # 1
    BY <1>1, <1>2, <2>2
  <2>4. j - 1 \in 1..i - 1 /\ j - 1 \in 1..Len(t) /\ (j - 1) + 1 = j
    BY <1>1, <2>2, <2>3
  <2>5. t[j - 1] = plan[j]
    BY <1>1, <2>4
  <2> QED
    BY <2>2, <2>4, <2>5
<1> QED
  BY <1>2 DEF Earned, t

LEMMA OwnedTail ==
    ASSUME NEW plan \in Seq(Statement), plan # <<>>, NEW secret,
           NEW there \in BOOLEAN, NEW later \in BOOLEAN,
           Owned(plan, secret, there), there => later
    PROVE  Owned(Tail(plan), secret, later)
<1> DEFINE t == Tail(plan)
<1>1. /\ Len(plan) \in Nat /\ Len(t) = Len(plan) - 1
      /\ \A i \in 1..Len(t) : t[i] = plan[i + 1]
  BY TailFacts
<1> HIDE DEF t
<1>2. \A i \in 1..Len(t) : i + 1 \in 1..Len(plan)
  BY <1>1
<1> QED
  BY <1>1, <1>2 DEF Owned, t

LEMMA EarnedAlready == ASSUME NEW plan, NEW secret PROVE Earned(plan, secret, TRUE)
BY DEF Earned

LEMMA EarnedSilent ==
    ASSUME NEW plan \in Seq(Sessionless), NEW secret, NEW way PROVE Earned(plan, secret, way)
BY DEF Earned, Sessionless

LEMMA EarnedFirst ==
    ASSUME NEW plan, NEW secret, NEW way, NEW k \in Nat, Gives(plan[k], secret), k >= 1,
           \A i \in 1..k : plan[i].do # "session"
    PROVE  Earned(plan, secret, way)
<1>1. ASSUME NEW i \in 1..Len(plan), plan[i].do = "session"
      PROVE  k \in 1..i - 1
  <2>1. CASE i <= k
    BY <1>1, <2>1
  <2>2. CASE ~(i <= k)
    BY <2>2
  <2> QED
    BY <2>1, <2>2
<1> QED
  BY <1>1 DEF Earned

LEMMA OwnedPlain ==
    ASSUME NEW plan \in Seq(Plain), NEW secret, NEW there PROVE Owned(plan, secret, there)
BY DEF Owned, Plain

LEMMA OwnedAlready ==
    ASSUME NEW plan, NEW secret, secret # 0 PROVE Owned(plan, secret, TRUE)
BY DEF Owned

-----------------------------------------------------------------------------
(* Plans, and the ways back they need.                                     *)

LEMMA DoPlain ==
    ASSUME NEW call \in Call \ {"password", "changed"} PROVE Do(call) \in Plain
BY DEF Do, Plain, Statement

LEMMA MailPlain ==
    ASSUME NEW a \in Addresses
    PROVE  /\ Mail("email", a) \in Plain
           /\ Mail("vouch", a) \in Plain
           /\ Mail("verify", a) \in Plain \cap Sessionless
BY DEF Mail, Do, Plain, Sessionless, Statement

LEMMA GiveAddressPlain ==
    ASSUME NEW a \in Addresses PROVE GiveAddress(a) \in Seq(Plain)
<1>1. [Mail("link", a) EXCEPT !.kind = "verify"] \in Plain
  BY DEF Mail, Do, Plain, Statement
<1>2. [Do("retire") EXCEPT !.kind = "verify"] \in Plain
  BY DEF Do, Plain, Statement
<1>3. Issue("verify", a) \in Seq(Plain)
  BY <1>1, <1>2 DEF Issue
<1>4. <<Mail("email", a)>> \in Seq(Plain)
  BY MailPlain
<1> QED
  BY <1>3, <1>4 DEF GiveAddress

\* A concatenation begins with its first part.
LEMMA Begins ==
    ASSUME NEW S, NEW p \in Seq(S), NEW q \in Seq(S)
    PROVE  p \o q \in Seq(S) /\ Len(p \o q) >= Len(p) /\ \A i \in 1..Len(p) : (p \o q)[i] = p[i]
<1>1. /\ p \o q \in Seq(S) /\ Len(p \o q) = Len(p) + Len(q)
      /\ \A i \in 1..Len(p) + Len(q) : (p \o q)[i] = IF i <= Len(p) THEN p[i] ELSE q[i - Len(p)]
  BY ConcatProperties, Zenon
<1>2. Len(p) \in Nat /\ Len(q) \in Nat
  BY LenProperties
<1>3. ASSUME NEW i \in 1..Len(p) PROVE i \in 1..Len(p) + Len(q) /\ i <= Len(p)
  BY <1>2, <1>3
<1> QED
  BY <1>1, <1>2, <1>3

LEMMA SignupPlain ==
    ASSUME NEW a \in Addresses \cup {NoAddress}
    PROVE  SignupCalls(a) \in Seq(Plain) /\ SignupCalls(a)[1].do = "user"
<1> DEFINE first == <<Do("user"), Do("session")>>
           rest == IF a = NoAddress THEN <<>> ELSE GiveAddress(a)
<1>1. first \in Seq(Plain) /\ Len(first) = 2 /\ first[1].do = "user"
  BY DoPlain DEF Do
<1>2. rest \in Seq(Plain)
  BY GiveAddressPlain
<1>3. SignupCalls(a) = first \o rest
  BY DEF SignupCalls
<1> HIDE DEF first, rest
<1>4. first \o rest \in Seq(Plain) /\ \A i \in 1..Len(first) : (first \o rest)[i] = first[i]
  BY <1>1, <1>2, Begins, Zenon
<1>5. 1 \in 1..Len(first)
  BY <1>1
<1>6. (first \o rest)[1] = first[1]
  BY <1>4, <1>5, Zenon
<1> QED
  BY <1>1, <1>3, <1>4, <1>6

LEMMA FinishPlain ==
    ASSUME NEW i \in Identities, NEW a \in Addresses \cup {NoAddress},
           NEW vouched \in BOOLEAN
    PROVE  /\ FinishCalls(i, a, vouched) \in Seq(Plain)
           /\ FinishCalls(i, a, vouched)[1].do = "user"
           /\ FinishCalls(i, a, vouched)[2].do = "identity"
<1> DEFINE first == <<Do("user"), [Do("identity") EXCEPT !.id = i]>>
           mail  == IF a = NoAddress THEN <<>> ELSE <<Mail("email", a)>>
           vouch == IF a # NoAddress /\ vouched THEN <<Mail("vouch", a)>> ELSE <<>>
           last  == <<Do("session")>>
<1>1. [Do("identity") EXCEPT !.id = i] \in Plain
      /\ [Do("identity") EXCEPT !.id = i].do = "identity"
  BY DEF Do, Plain, Statement
<1>2. first \in Seq(Plain) /\ Len(first) = 2
      /\ first[1].do = "user" /\ first[2].do = "identity"
  BY <1>1, DoPlain DEF Do
<1>3. mail \in Seq(Plain) /\ vouch \in Seq(Plain)
  BY MailPlain
<1>4. last \in Seq(Plain)
  BY DoPlain
<1>5. FinishCalls(i, a, vouched) = ((first \o mail) \o vouch) \o last
  BY DEF FinishCalls
<1> HIDE DEF first, mail, vouch, last
<1>6. /\ first \o mail \in Seq(Plain) /\ Len(first \o mail) >= Len(first)
      /\ \A k \in 1..Len(first) : (first \o mail)[k] = first[k]
  BY <1>2, <1>3, Begins, Zenon
<1> DEFINE one == first \o mail
<1>6a. one \in Seq(Plain) /\ Len(one) >= 2 /\ (\A k \in 1..2 : one[k] = first[k]) /\ Len(one) \in Nat
  BY <1>2, <1>6, LenProperties
<1>6b. FinishCalls(i, a, vouched) = (one \o vouch) \o last
  BY <1>5
<1> HIDE DEF one
<1>7. /\ one \o vouch \in Seq(Plain) /\ Len(one \o vouch) >= Len(one)
      /\ \A k \in 1..Len(one) : (one \o vouch)[k] = one[k]
  BY <1>3, <1>6a, Begins
<1> DEFINE two == one \o vouch
<1>7a. /\ two \in Seq(Plain) /\ Len(two) >= Len(one) /\ (\A k \in 1..Len(one) : two[k] = one[k])
       /\ Len(two) \in Nat
  BY <1>7, LenProperties
<1>7b. FinishCalls(i, a, vouched) = two \o last
  BY <1>6b
<1> HIDE DEF two
<1>8. /\ two \o last \in Seq(Plain)
      /\ \A k \in 1..Len(two) : (two \o last)[k] = two[k]
  BY <1>4, <1>7a, Begins
<1>9. 1 \in 1..Len(two) /\ 2 \in 1..Len(two) /\ 1 \in 1..Len(one) /\ 2 \in 1..Len(one)
      /\ 1 \in 1..2 /\ 2 \in 1..2
  BY <1>6a, <1>7a
<1>10. (two \o last)[1] = first[1] /\ (two \o last)[2] = first[2]
  BY <1>6a, <1>7a, <1>8, <1>9
<1> QED
  BY <1>2, <1>7b, <1>8, <1>10

LEMMA StatePlain ==
    ASSUME NEW to \in UserState PROVE StateCalls(to) \in Seq(Plain \cap Sessionless)
<1> DEFINE first == <<[Do("state") EXCEPT !.to = to]>>
           rest == IF to = "active" THEN <<>> ELSE <<Do("end")>>
<1>1. [Do("state") EXCEPT !.to = to] \in Plain \cap Sessionless /\ Do("end") \in Plain \cap Sessionless
  BY DEF Do, Plain, Sessionless, Statement
<1> DEFINE S == Plain \cap Sessionless
<1>2. first \in Seq(S) /\ rest \in Seq(S)
  <2>1. [Do("state") EXCEPT !.to = to] \in S /\ Do("end") \in S
    BY <1>1
  <2> HIDE DEF S
  <2> QED
    BY <2>1
<1>3. StateCalls(to) = first \o rest
  BY DEF StateCalls
<1> HIDE DEF first, rest
<1> QED
  BY <1>2, <1>3

LEMMA NewPasswordSilent ==
    NewPassword \o <<Do("changed")>> \in Seq(Sessionless)
<1>1. /\ Do("password") \in Sessionless /\ Do("end") \in Sessionless
      /\ [Do("retire") EXCEPT !.kind = "reset"] \in Sessionless
      /\ Do("changed") \in Sessionless
  BY DEF Do, Sessionless, Statement
<1>2. NewPassword \in Seq(Sessionless) /\ <<Do("changed")>> \in Seq(Sessionless)
  BY <1>1 DEF NewPassword
<1> QED
  BY <1>2

LEMMA IssueSilent ==
    ASSUME NEW a \in Addresses, NEW secret
    PROVE  Issue("reset", a) \in Seq(Sessionless) /\ Owned(Issue("reset", a), secret, TRUE)
<1>1. /\ [Do("retire") EXCEPT !.kind = "reset"] \in Sessionless
      /\ [Do("retire") EXCEPT !.kind = "reset"].do # "password"
      /\ [Mail("link", a) EXCEPT !.kind = "reset"] \in Sessionless
      /\ [Mail("link", a) EXCEPT !.kind = "reset"].do # "password"
  BY DEF Mail, Do, Sessionless, Statement
<1>2. Issue("reset", a) \in Seq(Sessionless)
  BY <1>1 DEF Issue
<1> DEFINE S == {c \in Statement : c.do # "password"}
<1>3. Issue("reset", a) \in Seq(S)
  <2>1. /\ [Do("retire") EXCEPT !.kind = "reset"] \in S
        /\ [Mail("link", a) EXCEPT !.kind = "reset"] \in S
    BY <1>1 DEF Sessionless
  <2> HIDE DEF S
  <2> QED
    BY <2>1 DEF Issue
<1> QED
  BY <1>2, <1>3 DEF Owned

-----------------------------------------------------------------------------
(* Ways back, step by step.                                                *)

\* Retiring marks links, and leaves whose and of which kind they are.
LEMMA Retired ==
    ASSUME TypeOK, NEW h \in Webs, RetireLinks(h)
    PROVE  /\ Len(links') = Len(links)
           /\ \A n \in 1..Len(links) :
                /\ links'[n].user = links[n].user /\ links'[n].kind = links[n].kind
                /\ links[n].used => links'[n].used
                /\ links[n].user = Me(h) /\ links[n].kind = NextCall(h).kind => links'[n].used
<1>0. links \in Seq(Link)
  BY DEF TypeOK
<1> DEFINE mark(n) == IF links[n].user = Me(h) /\ links[n].kind = NextCall(h).kind
                      THEN [links[n] EXCEPT !.used = TRUE] ELSE links[n]
<1>1. links' = [n \in 1..Len(links) |-> mark(n)]
  BY DEF RetireLinks
<1>2. ASSUME NEW n \in 1..Len(links)
      PROVE  /\ mark(n) \in Link /\ mark(n).user = links[n].user /\ mark(n).kind = links[n].kind
             /\ links[n].used => mark(n).used
             /\ links[n].user = Me(h) /\ links[n].kind = NextCall(h).kind => mark(n).used
  <2>1. links[n] \in Link
    BY <1>0
  <2> QED
    BY <2>1 DEF Link
<1> HIDE DEF mark
<1> QED
  BY <1>0, <1>1, <1>2, IsASeq

\* A link is written at the end.
LEMMA Written ==
    ASSUME TypeOK, NEW h \in Webs, CreateLink(h)
    PROVE  /\ Len(links) \in Nat /\ Len(links') = Len(links) + 1
           /\ \A n \in 1..Len(links) : links'[n] = links[n]
           /\ links'[Len(links) + 1].user = Me(h) /\ links'[Len(links) + 1].kind = NextCall(h).kind
<1> DEFINE new == [user |-> Me(h), kind |-> NextCall(h).kind,
                   address |-> NextCall(h).address, used |-> FALSE]
<1>1. links \in Seq(Link \cup {new}) /\ new.user = Me(h) /\ new.kind = NextCall(h).kind
  BY DEF TypeOK
<1>2. links' = Append(links, new)
  BY DEF CreateLink
<1> HIDE DEF new
<1>3. Len(links) \in Nat
  BY <1>1, LenProperties
<1> QED
  BY <1>1, <1>2, <1>3, AppendProperties

LEMMA EarnedStays ==
    ASSUME NEW plan, NEW secret, NEW way \in BOOLEAN, NEW later \in BOOLEAN,
           Earned(plan, secret, way), way => later
    PROVE  Earned(plan, secret, later)
BY DEF Earned

LEMMA OwnedStays ==
    ASSUME NEW plan, NEW secret, NEW there \in BOOLEAN, NEW later \in BOOLEAN,
           Owned(plan, secret, there), there => later
    PROVE  Owned(plan, secret, later)
BY DEF Owned

\* A step of one handler that takes no way from anyone.
LEMMA WaysKept ==
    ASSUME Inv, WaysBack, NEW h \in Webs, \A g \in Webs \ {h} : run'[g] = run[g],
           \A u \in Names : (Way(u) => Way(u)') /\ (There(u) => There(u)'),
           PasswordsOwned', LinksOwned',
           \A s \in sessions' : s \in sessions \/ Way(s.user)',
           NEW r, run'[h] = r,
           \/ r = run[h]
           \/ r.plan = <<>>
           \/ Earned(r.plan, r.secret, Way(r.user)') /\ Owned(r.plan, r.secret, There(r.user)')
    PROVE  WaysBack'
<1>1. \A u : /\ Way(u) \in BOOLEAN /\ Way(u)' \in BOOLEAN
             /\ There(u) \in BOOLEAN /\ There(u)' \in BOOLEAN
  BY DEF Way, There
<1>2. SignedInCanReturn'
  <2> SUFFICES ASSUME NEW s \in sessions' PROVE Way(s.user)'
    BY DEF SignedInCanReturn, Way
  <2>1. CASE s \in sessions
    <3>1. Way(s.user) /\ s.user \in Names
      BY <2>1 DEF WaysBack, SignedInCanReturn, Way, Inv, TypeOK, Session
    <3> QED
      BY <3>1
  <2> QED
    BY <2>1
<1>3. ASSUME NEW g \in Webs, run'[g].plan # <<>>
      PROVE  (/\ Earned(run[g].plan, run[g].secret, Way(run[g].user))
              /\ Owned(run[g].plan, run[g].secret, There(run[g].user)))'
  <2>1. CASE run'[g] = run[g]
    <3>1. PICK p : p = run[g]
      OBVIOUS
    <3>2. p.user \in Names /\ Earned(p.plan, p.secret, Way(p.user)) /\ Owned(p.plan, p.secret, There(p.user))
      BY <1>3, <2>1, <3>1 DEF WaysBack, Inv, Trusted, Busy
    <3>3. (Way(p.user) => Way(p.user)') /\ (There(p.user) => There(p.user)')
      BY <3>2
    <3>4. Earned(p.plan, p.secret, Way(p.user)') /\ Owned(p.plan, p.secret, There(p.user)')
      BY <1>1, <3>2, <3>3, EarnedStays, OwnedStays
    <3> QED
      BY <2>1, <3>1, <3>4 DEF Way, There
  <2>2. CASE run'[g] # run[g]
    <3>1. g = h /\ r # run[h] /\ r.plan # <<>>
      BY <1>3, <2>2
    <3>2. Earned(r.plan, r.secret, Way(r.user)') /\ Owned(r.plan, r.secret, There(r.user)')
      BY <3>1
    <3> QED
      BY <3>1, <3>2 DEF Way, There
  <2> QED
    BY <2>1, <2>2
<1>6. (\A g \in Webs : Busy(g) =>
          /\ Earned(run[g].plan, run[g].secret, Way(run[g].user))
          /\ Owned(run[g].plan, run[g].secret, There(run[g].user)))'
  BY <1>3 DEF Busy
<1> QED
  BY <1>2, <1>6 DEF WaysBack

\* A step that changes no account, password, identity or link.
LEMMA WaysStart ==
    ASSUME Inv, WaysBack, NEW h \in Webs, NEW u \in Names, NEW token, NEW secret, NEW plan,
           Start(h, u, token, secret, plan),
           Earned(plan, secret, Way(u)), Owned(plan, secret, There(u)),
           UNCHANGED <<account, password, identity, links, sessions>>
    PROVE  WaysBack'
<1>1. TypeOK
  BY DEF Inv
<1>2. /\ \A g \in Webs \ {h} : run'[g] = run[g]
      /\ run'[h].plan = plan /\ run'[h].user = u /\ run'[h].secret = secret
  BY <1>1, StartRun
<1>3. PICK r : r = run'[h]
  OBVIOUS
<1>4. r.plan = plan /\ r.user = u /\ r.secret = secret
  BY <1>2, <1>3
<1>5. (\A v : (Way(v)' <=> Way(v)) /\ (There(v)' <=> There(v)))
      /\ LinksOwned' /\ PasswordsOwned'
  BY DEF Way, There, WaysBack, LinksOwned, PasswordsOwned
<1>6. Way(u) \in BOOLEAN /\ Way(u)' \in BOOLEAN /\ There(u) \in BOOLEAN /\ There(u)' \in BOOLEAN
  BY DEF Way, There
<1>7. Earned(plan, secret, Way(u)') /\ Owned(plan, secret, There(u)')
  BY <1>5, <1>6, EarnedStays, OwnedStays
<1>8. Earned(r.plan, r.secret, Way(r.user)') /\ Owned(r.plan, r.secret, There(r.user)')
  BY <1>4, <1>7
<1> QED
  BY <1>2, <1>3, <1>5, <1>8, WaysKept

LEMMA WaysFollow ==
    ASSUME Inv, WaysBack, NEW h \in Webs, NEW n \in 1..Len(links), NEW kind \in Kind,
           Follow(h, n, kind), \A g \in Webs \ {h} : run'[g] = run[g],
           NEW r, run'[h] = r, Earned(r.plan, r.secret, Way(r.user)),
           Owned(r.plan, r.secret, There(r.user))
    PROVE  WaysBack'
<1> DEFINE l == [links[n] EXCEPT !.used = TRUE]
<1>1. links[n] \in Link /\ links \in Seq(Link)
  BY DEF Inv, TypeOK
<1>2. links' = [links EXCEPT ![n] = l]
  BY <1>1 DEF Follow
<1>3. l \in Link /\ l.user = links[n].user /\ l.kind = links[n].kind
  BY <1>1 DEF Link
<1> HIDE DEF l
<1>4. /\ Len(links') = Len(links)
      /\ \A m \in 1..Len(links) : links'[m].user = links[m].user /\ links'[m].kind = links[m].kind
  BY <1>1, <1>2, <1>3, ExceptSeq
<1>5. \A v : (Way(v)' <=> Way(v)) /\ (There(v)' <=> There(v))
  BY DEF Follow, Way, There
<1>6. LinksOwned' /\ PasswordsOwned'
  BY <1>4 DEF WaysBack, Follow, LinksOwned, PasswordsOwned, There
<1>7. \A u : Way(u) \in BOOLEAN /\ Way(u)' \in BOOLEAN /\ There(u) \in BOOLEAN /\ There(u)' \in BOOLEAN
  BY DEF Way, There
<1>8. Earned(r.plan, r.secret, Way(r.user)') /\ Owned(r.plan, r.secret, There(r.user)')
  BY <1>5, <1>7, EarnedStays, OwnedStays
<1> QED
  BY <1>5, <1>6, <1>8, WaysKept DEF Follow

LEMMA WaysVisit ==
    ASSUME Inv, WaysBack, NEW h \in Webs, Visit(h) PROVE WaysBack'
<1> USE DEF tables, history
<1>0. /\ TypeOK /\ NewToken \in Nat /\ NewSecret \in Nat
      /\ NewSecret # 0
  BY Numbers, AccountsAssumption DEF Inv, TypeOK, NewSecret
<1>1. ASSUME NEW u \in Names, Login(h, u) PROVE WaysBack'
  <2>1. PICK rehash \in {<<>>, <<Do("password")>>} :
           Start(h, u, NewToken, password[u], rehash \o <<Do("session")>>)
    BY <1>1 DEF Login
  <2>2. Way(u) = TRUE /\ There(u) = TRUE /\ password[u] # 0
    BY <1>1 DEF Login, Way, There
  <2> QED
    BY <1>1, <2>1, <2>2, EarnedAlready, OwnedAlready, WaysStart DEF Login
<1>2. ASSUME NEW u \in Names, NEW a \in Addresses \cup {NoAddress}, Signup(h, u, a) PROVE WaysBack'
  <2>1. SignupCalls(a) \in Seq(Plain) /\ SignupCalls(a)[1].do = "user"
    BY SignupPlain
  <2>2. Earned(SignupCalls(a), NewSecret, Way(u))
    <3>1. Gives(SignupCalls(a)[1], NewSecret)
      BY <1>0, <2>1 DEF Gives
    <3>2. \A i \in 1..1 : SignupCalls(a)[i].do # "session"
      BY <2>1
    <3> QED
      BY <3>1, <3>2, EarnedFirst
  <2>3. Owned(SignupCalls(a), NewSecret, There(u))
    BY <2>1, OwnedPlain
  <2> QED
    BY <1>2, <2>2, <2>3, WaysStart DEF Signup
<1>3. ASSUME NEW u \in Names, NEW a \in Addresses \cup {NoAddress}, NEW i \in Identities,
             NEW vouched \in BOOLEAN, Finish(h, i, u, a, vouched)
      PROVE  WaysBack'
  <2> DEFINE plan == FinishCalls(i, a, vouched)
  <2>1. plan \in Seq(Plain) /\ plan[1].do = "user" /\ plan[2].do = "identity"
    BY FinishPlain
  <2>2. Start(h, u, NewToken, 0, plan)
    BY <1>3 DEF Finish
  <2> HIDE DEF plan
  <2>3. Earned(plan, 0, Way(u))
    <3>1. Gives(plan[2], 0)
      BY <2>1 DEF Gives
    <3>2. \A n \in 1..2 : plan[n].do # "session"
      BY <2>1
    <3> QED
      BY <3>1, <3>2, EarnedFirst
  <2>4. Owned(plan, 0, There(u))
    BY <2>1, OwnedPlain
  <2> QED
    BY <1>3, <2>2, <2>3, <2>4, WaysStart DEF Finish
<1>4. ASSUME NEW u \in Names, NEW to \in UserState, SetState(h, u, to) PROVE WaysBack'
  <2>1. StateCalls(to) \in Seq(Plain) /\ StateCalls(to) \in Seq(Sessionless)
    BY StatePlain
  <2> QED
    BY <1>4, <2>1, EarnedSilent, OwnedPlain, WaysStart DEF SetState
<1>5. ASSUME NEW i \in Identities, SignIn(h, i) PROVE WaysBack'
  <2>1. identity[i] \in Names /\ Way(identity[i]) = TRUE
    BY <1>0, <1>5 DEF SignIn, TypeOK, Way
  <2>2. <<Do("session")>> \in Seq(Plain)
    BY DoPlain
  <2>3. Start(h, identity[i], NewToken, 0, <<Do("session")>>)
    BY <1>5 DEF SignIn
  <2> QED
    BY <1>5, <2>1, <2>2, <2>3, EarnedAlready, OwnedPlain, WaysStart DEF SignIn
<1>6. ASSUME NEW s \in sessions,
             \/ Logout(h, s) \/ ChangePassword(h, s) \/ EndOtherSessions(h, s)
             \/ \E a \in Addresses : ChangeEmail(h, s, a)
      PROVE  WaysBack'
  <2>0. s.user \in Names /\ Way(s.user) = TRUE
    BY <1>0 DEF TypeOK, Session, WaysBack, SignedInCanReturn, Way
  <2>1. CASE Logout(h, s)
    <3>1. UNCHANGED <<account, password, identity, links, run>> /\ sessions' \subseteq sessions
      BY <2>1 DEF Logout
    <3> QED
      BY <3>1 DEF WaysBack, SignedInCanReturn, PasswordsOwned, LinksOwned, Way, There, Busy
  <2>2. CASE ChangePassword(h, s)
    <3>1. There(s.user) = TRUE
      BY <2>2 DEF ChangePassword, SignedIn, There
    <3> QED
      BY <1>0, <2>0, <2>2, <3>1, EarnedAlready, OwnedAlready, WaysStart DEF ChangePassword
  <2>3. CASE EndOtherSessions(h, s)
    <3>1. <<Do("end"), Do("session")>> \in Seq(Plain)
      BY DoPlain
    <3> QED
      BY <2>0, <2>3, <3>1, EarnedAlready, OwnedPlain, WaysStart DEF EndOtherSessions
  <2>4. ASSUME NEW a \in Addresses, ChangeEmail(h, s, a) PROVE WaysBack'
    BY <2>0, <2>4, GiveAddressPlain, EarnedAlready, OwnedPlain, WaysStart DEF ChangeEmail
  <2> QED
    BY <1>6, <2>1, <2>2, <2>3, <2>4
<1>7. ASSUME NEW a \in Addresses, RequestReset(h, a) PROVE WaysBack'
  <2>1. PICK u \in Holders(a) : account[u] = "active" /\ Start(h, u, 0, 0, Issue("reset", a))
    BY <1>7 DEF RequestReset
  <2>2. u \in Names /\ There(u) = TRUE
    BY <2>1 DEF Holders, There
  <2> QED
    BY <1>7, <2>1, <2>2, IssueSilent, EarnedSilent, WaysStart DEF RequestReset
<1>8. ASSUME NEW n \in 1..Len(links), ConfirmEmail(h, n) PROVE WaysBack'
  <2>1. links[n] \in Link
    BY <1>0 DEF TypeOK
  <2> DEFINE plan == <<Mail("verify", links[n].address)>>
  <2>2. plan \in Seq(Plain) /\ plan \in Seq(Sessionless)
    <3>1. Mail("verify", links[n].address) \in Plain /\ Mail("verify", links[n].address) \in Sessionless
      BY <2>1, MailPlain DEF Link
    <3> QED
      BY <3>1
  <2>3. Start(h, links[n].user, 0, 0, plan) /\ Follow(h, n, "verify")
    BY <1>8 DEF ConfirmEmail
  <2> HIDE DEF plan
  <2>4. PICK r : r = run'[h]
    OBVIOUS
  <2>5. (\A g \in Webs \ {h} : run'[g] = run[g]) /\ r.plan = plan
    BY <1>0, <2>3, <2>4, StartRun
  <2>6. Earned(r.plan, r.secret, Way(r.user)) /\ Owned(r.plan, r.secret, There(r.user))
    BY <2>2, <2>5, EarnedSilent, OwnedPlain
  <2> QED
    BY <2>3, <2>4, <2>5, <2>6, WaysFollow
<1>9. ASSUME NEW n \in 1..Len(links), CompleteReset(h, n) PROVE WaysBack'
  <2> DEFINE plan == NewPassword \o <<Do("changed")>>
             r == [Idle EXCEPT !.plan = plan, !.user = links[n].user,
                               !.secret = NewSecret, !.link = n]
  <2>1. Follow(h, n, "reset") /\ run' = [run EXCEPT ![h] = r]
    BY <1>9 DEF CompleteReset
  <2>2. There(links[n].user) = TRUE
    BY <2>1 DEF Follow, Unspent, WaysBack, LinksOwned, There
  <2>3. plan \in Seq(Sessionless)
    BY NewPasswordSilent
  <2> HIDE DEF plan
  <2>4. r.plan = plan /\ r.user = links[n].user /\ r.secret = NewSecret
    BY DEF Idle
  <2> HIDE DEF r
  <2>5. run'[h] = r /\ \A g \in Webs \ {h} : run'[g] = run[g]
    BY <1>0, <2>1 DEF TypeOK
  <2>6. Earned(r.plan, r.secret, Way(r.user)) /\ Owned(r.plan, r.secret, There(r.user))
    BY <1>0, <2>2, <2>3, <2>4, EarnedSilent, OwnedAlready
  <2> QED
    BY <2>1, <2>5, <2>6, WaysFollow
<1> QED
  BY <1>1, <1>2, <1>3, <1>4, <1>5, <1>6, <1>7, <1>8, <1>9 DEF Visit

\* A handler goes on, or gives up.
LEMMA WaysOn ==
    ASSUME Inv, WaysBack, NEW h \in Webs, Busy(h), NEW me, me = Me(h),
           \/ Continue(h, Rest(h)) /\ (Gives(NextCall(h), run[h].secret) => Way(me)')
           \/ Continue(h, <<>>),
           \A u \in Names : (Way(u) => Way(u)') /\ (There(u) => There(u)'),
           PasswordsOwned', LinksOwned',
           \A s \in sessions' : s \in sessions \/ Way(s.user)'
    PROVE  WaysBack'
<1>0. TypeOK
  BY DEF Inv
<1>1. PICK r : r = run'[h]
  OBVIOUS
<1>2. PICK p : p = run[h]
  OBVIOUS
<1>3. /\ p.user \in Names /\ p.plan \in Seq(Statement) /\ p.plan # <<>>
      /\ Earned(p.plan, p.secret, Way(p.user)) /\ Owned(p.plan, p.secret, There(p.user))
  BY <1>0, <1>2 DEF Inv, Trusted, Busy, WaysBack, TypeOK, Run
<1>4. CASE Continue(h, Rest(h)) /\ (Gives(NextCall(h), run[h].secret) => Way(me)')
  <2>1. /\ \A g \in Webs \ {h} : run'[g] = run[g]
        /\ \/ r.plan = <<>>
           \/ r.plan = Tail(p.plan) /\ r.user = p.user /\ r.secret = p.secret
    BY <1>0, <1>1, <1>2, <1>4, ContinueRun DEF Rest
  <2>2. Gives(Head(p.plan), p.secret) => Way(p.user)'
    <3>1. me = p.user
      BY <1>2 DEF Me
    <3> QED
      BY <1>2, <1>4, <3>1 DEF NextCall, Way
  <2>3. /\ Way(p.user) \in BOOLEAN /\ (Way(p.user)') \in BOOLEAN
        /\ There(p.user) \in BOOLEAN /\ (There(p.user)') \in BOOLEAN
    BY DEF Way, There
  <2>4. (Way(p.user) => Way(p.user)') /\ (There(p.user) => There(p.user)')
    BY <1>3
  <2>5. Earned(Tail(p.plan), p.secret, Way(p.user)') /\ Owned(Tail(p.plan), p.secret, There(p.user)')
    BY <1>3, <2>2, <2>3, <2>4, EarnedTail, OwnedTail
  <2>6. r.plan = <<>> \/ (Earned(r.plan, r.secret, Way(r.user)') /\ Owned(r.plan, r.secret, There(r.user)'))
    BY <2>1, <2>5 DEF Way, There
  <2> QED
    BY <1>1, <2>1, <2>6, WaysKept
<1>5. CASE Continue(h, <<>>)
  <2>1. (\A g \in Webs \ {h} : run'[g] = run[g]) /\ r.plan = <<>>
    BY <1>0, <1>1, <1>5, ContinueRun
  <2> QED
    BY <1>1, <2>1, WaysKept
<1> QED
  BY <1>4, <1>5

\* What is about to be done is earned and owned.
LEMMA WaysNow ==
    ASSUME Inv, WaysBack, NEW h \in Webs, Busy(h)
    PROVE  /\ NextCall(h).do = "session" => Way(Me(h))
           /\ NextCall(h).do = "password" => run[h].secret # 0 /\ There(Me(h))
           /\ NextCall(h).do = "link" /\ NextCall(h).kind = "reset" => There(Me(h))
<1>1. /\ run[h].plan \in Seq(Statement) /\ run[h].plan # <<>>
      /\ Earned(run[h].plan, run[h].secret, Way(run[h].user))
      /\ Owned(run[h].plan, run[h].secret, There(run[h].user))
  BY DEF Inv, TypeOK, Run, Busy, WaysBack
<1>2. 1 \in 1..Len(run[h].plan) /\ Head(run[h].plan) = run[h].plan[1]
  BY <1>1, TailFacts
<1>3. NextCall(h).do = "session" => Way(Me(h)) \/ \E j \in 1..1 - 1 : Gives(run[h].plan[j], run[h].secret)
  BY <1>1, <1>2 DEF Earned, NextCall, Me
<1>4. NextCall(h).do = "session" => Way(Me(h))
  BY <1>3
<1> QED
  BY <1>1, <1>2, <1>4 DEF Owned, NextCall, Me

LEMMA WaysStep ==
    ASSUME Inv, WaysBack, NEW h \in Webs, Step(h) \/ Fail(h) PROVE WaysBack'
<1> USE DEF tables, history, quiet
<1>0. TypeOK /\ PasswordsOwned /\ LinksOwned
  BY DEF Inv, WaysBack
<1>1. CASE CreateUser(h)
  <2>0. Busy(h) /\ NextCall(h).do = "user" /\ Me(h) \in Names
    BY <1>1, CallFacts DEF CreateUser, At
  <2>1. CASE account[Me(h)] # "none"
    <3>1. Continue(h, <<>>) /\ UNCHANGED <<account, password, identity, links, sessions>>
      BY <1>1, <2>1 DEF CreateUser
    <3>2. (\A u : (Way(u)' <=> Way(u)) /\ (There(u)' <=> There(u))) /\ PasswordsOwned' /\ LinksOwned'
      BY <1>0, <3>1 DEF Way, There, PasswordsOwned, LinksOwned
    <3> QED
      BY <2>0, <3>1, <3>2, WaysOn
  <2>2. CASE account[Me(h)] = "none"
    <3>1. /\ account' = [account EXCEPT ![Me(h)] = "active"]
          /\ password' = [password EXCEPT ![Me(h)] = run[h].secret]
          /\ Continue(h, Rest(h)) /\ UNCHANGED <<identity, links, sessions>>
      BY <1>1, <2>2 DEF CreateUser
    <3>2. PICK me : me = Me(h)
      OBVIOUS
    <3>3. \A u \in Names : There(u) => There(u)'
      BY <1>0, <3>1 DEF There, TypeOK
    <3>4. password[me] = 0
      BY <1>0, <2>0, <2>2, <3>2 DEF PasswordsOwned, There
    <3>5. \A u \in Names : Way(u) => Way(u)'
      BY <1>0, <3>1, <3>2, <3>4 DEF Way, TypeOK
    <3>6. PasswordsOwned'
      BY <1>0, <2>0, <3>1 DEF PasswordsOwned, There, TypeOK
    <3>7. LinksOwned'
      BY <1>0, <3>1, <3>3 DEF LinksOwned, There, TypeOK, Link
    <3>8. Gives(NextCall(h), run[h].secret) => Way(me)'
      BY <1>0, <2>0, <3>1, <3>2 DEF Gives, Way, TypeOK
    <3> QED
      BY <2>0, <3>1, <3>2, <3>3, <3>5, <3>6, <3>7, <3>8, WaysOn
  <2> QED
    BY <2>1, <2>2
<1>2. CASE CreateSession(h)
  <2>0. Busy(h) /\ NextCall(h).do = "session" /\ Way(Me(h))
    BY <1>2, CallFacts, WaysNow DEF CreateSession, At
  <2>1. /\ UNCHANGED <<account, password, identity, links>>
        /\ Continue(h, Rest(h)) \/ Continue(h, <<>>)
        /\ \A s \in sessions' : s \in sessions \/ s.user = Me(h)
    BY <1>2 DEF CreateSession
  <2>2. (\A u : (Way(u)' <=> Way(u)) /\ (There(u)' <=> There(u))) /\ PasswordsOwned' /\ LinksOwned'
    BY <1>0, <2>1 DEF Way, There, PasswordsOwned, LinksOwned
  <2>3. \A s \in sessions' : s \in sessions \/ Way(s.user)'
    BY <2>0, <2>1, <2>2
  <2>4. ~Gives(NextCall(h), run[h].secret)
    BY <2>0 DEF Gives
  <2> QED
    BY <2>0, <2>1, <2>2, <2>3, <2>4, WaysOn
<1>3. CASE SetPasswordHash(h)
  <2>0. /\ Busy(h) /\ Me(h) \in Names /\ run[h] \in Run
        /\ run[h].secret # 0 /\ There(Me(h))
    BY <1>3, CallFacts, WaysNow DEF SetPasswordHash, At
  <2>1. password' = [password EXCEPT ![Me(h)] = run[h].secret]
        /\ UNCHANGED <<account, identity, links, sessions>>
    BY <1>3 DEF SetPasswordHash
  <2>2. PICK r : r = [run[h] EXCEPT !.plan = Rest(h), !.since = Len(links)]
    OBVIOUS
  <2>3. run' = [run EXCEPT ![h] = r]
    BY <1>0, <1>3, <2>2 DEF SetPasswordHash, TypeOK
  <2>4. PICK p : p = run[h]
    OBVIOUS
  <2>5. /\ p.user \in Names /\ p.plan \in Seq(Statement) /\ p.plan # <<>>
        /\ Earned(p.plan, p.secret, Way(p.user)) /\ Owned(p.plan, p.secret, There(p.user))
    BY <1>0, <2>0, <2>4 DEF Busy, WaysBack, TypeOK, Run, Me
  <2>6. r.plan = Tail(p.plan) /\ r.user = p.user /\ r.secret = p.secret
    BY <2>0, <2>2, <2>4 DEF Run, Rest
  <2>7. Way(p.user)' /\ \A u \in Names : (Way(u) => Way(u)') /\ (There(u) => There(u)')
    BY <1>0, <2>0, <2>1, <2>4 DEF Way, There, TypeOK, Me
  <2>8. PasswordsOwned' /\ LinksOwned'
    BY <1>0, <2>0, <2>1 DEF PasswordsOwned, LinksOwned, There, TypeOK
  <2>9. /\ Way(p.user) \in BOOLEAN /\ (Way(p.user)') \in BOOLEAN
        /\ There(p.user) \in BOOLEAN /\ (There(p.user)') \in BOOLEAN
    BY DEF Way, There
  <2>10. Earned(Tail(p.plan), p.secret, Way(p.user)') /\ Owned(Tail(p.plan), p.secret, There(p.user)')
    BY <2>5, <2>7, <2>9, EarnedTail, OwnedTail
  <2>11. Earned(r.plan, r.secret, Way(r.user)') /\ Owned(r.plan, r.secret, There(r.user)')
    BY <2>6, <2>10 DEF Way, There
  <2>12. run'[h] = r /\ \A g \in Webs \ {h} : run'[g] = run[g]
    BY <1>0, <2>3 DEF TypeOK
  <2> QED
    BY <2>1, <2>7, <2>8, <2>11, <2>12, WaysKept
<1>4. CASE LinkIdentity(h)
  <2>0. Busy(h) /\ NextCall(h).do = "identity" /\ Me(h) \in Names /\ NextCall(h) \in Statement
    BY <1>4, CallFacts DEF LinkIdentity, At
  <2> DEFINE i == NextCall(h).id
  <2>1. /\ UNCHANGED <<account, password, links, sessions>>
        /\ \/ Continue(h, <<>>) /\ UNCHANGED identity
           \/ /\ Continue(h, Rest(h)) /\ identity[i] = NoName
              /\ identity' = [identity EXCEPT ![i] = Me(h)]
    BY <1>4 DEF LinkIdentity
  <2>2. (\A u : There(u)' <=> There(u)) /\ PasswordsOwned' /\ LinksOwned'
    BY <1>0, <2>1 DEF There, PasswordsOwned, LinksOwned
  <2>3. \A u \in Names : Way(u) => Way(u)'
    <3> SUFFICES ASSUME NEW u \in Names, NEW k \in Identities, identity[k] = u
                 PROVE  identity'[k] = u
      BY <2>1 DEF Way
    <3>1. identity[k] # NoName
      BY AccountsAssumption
    <3> QED
      BY <1>0, <2>1, <3>1 DEF TypeOK
  <2>4. CASE Continue(h, <<>>) /\ UNCHANGED identity
    BY <2>0, <2>1, <2>2, <2>3, <2>4, WaysOn
  <2>5. CASE /\ Continue(h, Rest(h)) /\ identity[i] = NoName
             /\ identity' = [identity EXCEPT ![i] = Me(h)]
    <3>1. PICK me : me = Me(h)
      OBVIOUS
    <3>2. i \in Identities
      BY <1>4, <2>0, CallFacts DEF LinkIdentity, Backed
    <3>3. Way(me)'
      BY <1>0, <2>5, <3>1, <3>2 DEF TypeOK, Way
    <3> QED
      BY <2>0, <2>1, <2>2, <2>3, <2>5, <3>1, <3>3, WaysOn
  <2> QED
    BY <2>1, <2>4, <2>5
<1>5. CASE SetUserState(h)
  <2>0. /\ Busy(h) /\ NextCall(h).do = "state" /\ Me(h) \in Names
        /\ NextCall(h).to \in UserState
    BY <1>5, CallFacts DEF SetUserState, At, Statement
  <2>1. /\ UNCHANGED <<password, identity, links, sessions>> /\ Continue(h, Rest(h))
        /\ account' = [account EXCEPT ![Me(h)] = NextCall(h).to]
    BY <1>5 DEF SetUserState
  <2>2. \A u \in Names : There(u) => There(u)'
    BY <1>0, <2>0, <2>1 DEF There, TypeOK
  <2>3. PasswordsOwned' /\ LinksOwned' /\ \A u : Way(u)' <=> Way(u)
    BY <1>0, <2>1, <2>2 DEF PasswordsOwned, LinksOwned, Way, There, TypeOK, Link
  <2>4. ~Gives(NextCall(h), run[h].secret)
    BY <2>0 DEF Gives
  <2> QED
    BY <2>0, <2>1, <2>2, <2>3, <2>4, WaysOn
<1>6. CASE RetireLinks(h)
  <2>0. Busy(h) /\ NextCall(h).do = "retire"
    BY <1>6 DEF RetireLinks, At
  <2>1. /\ UNCHANGED <<account, password, identity, sessions>> /\ Continue(h, Rest(h))
        /\ Len(links') = Len(links)
        /\ \A n \in 1..Len(links) : links'[n].user = links[n].user /\ links'[n].kind = links[n].kind
    BY <1>0, <1>6, Retired DEF RetireLinks
  <2>2. /\ PasswordsOwned' /\ LinksOwned'
        /\ \A u : (Way(u)' <=> Way(u)) /\ (There(u)' <=> There(u))
    BY <1>0, <2>1 DEF PasswordsOwned, LinksOwned, Way, There
  <2>3. ~Gives(NextCall(h), run[h].secret)
    BY <2>0 DEF Gives
  <2> QED
    BY <2>0, <2>1, <2>2, <2>3, WaysOn
<1>7. CASE CreateLink(h)
  <2>0. Busy(h) /\ NextCall(h).do = "link"
        /\ (NextCall(h).kind = "reset" => There(Me(h)))
    BY <1>7, WaysNow DEF CreateLink, At
  <2>1. /\ UNCHANGED <<account, password, identity, sessions>> /\ Continue(h, Rest(h))
        /\ links \in Seq(Link) /\ Len(links') = Len(links) + 1
        /\ \A n \in 1..Len(links) : links'[n] = links[n]
        /\ links'[Len(links) + 1].user = Me(h) /\ links'[Len(links) + 1].kind = NextCall(h).kind
    BY <1>0, <1>7, Written DEF CreateLink, TypeOK
  <2>2. \A u : (Way(u)' <=> Way(u)) /\ (There(u)' <=> There(u))
    BY <2>1 DEF Way, There
  <2>3. PasswordsOwned'
    BY <1>0, <2>1 DEF PasswordsOwned, There
  <2>4. LinksOwned'
    <3> SUFFICES ASSUME NEW n \in 1..Len(links'), links'[n].kind = "reset"
                 PROVE  account[links'[n].user] # "none"
      BY <2>1 DEF LinksOwned, There
    <3>1. CASE n \in 1..Len(links)
      BY <1>0, <2>1, <3>1 DEF LinksOwned, There
    <3>2. CASE n = Len(links) + 1
      BY <2>0, <2>1, <3>2 DEF There
    <3> QED
      BY <2>1, <3>1, <3>2
  <2>5. ~Gives(NextCall(h), run[h].secret)
    BY <2>0 DEF Gives
  <2> QED
    BY <2>0, <2>1, <2>2, <2>3, <2>4, <2>5, WaysOn
<1>8. CASE SetEmail(h) \/ MarkVerified(h) \/ DeleteUserSessions(h) \/ TellChanged(h) \/ Fail(h)
  <2>1. /\ UNCHANGED <<account, password, identity, links>> /\ sessions' \subseteq sessions
        /\ Busy(h)
        /\ \/ Continue(h, <<>>)
           \/ /\ Continue(h, Rest(h))
              /\ NextCall(h).do \in {"email", "verify", "vouch", "end", "changed"}
    BY <1>8 DEF SetEmail, MarkVerified, DeleteUserSessions, TellChanged, Fail, At
  <2>2. /\ PasswordsOwned' /\ LinksOwned'
        /\ \A u : (Way(u)' <=> Way(u)) /\ (There(u)' <=> There(u))
    BY <1>0, <2>1 DEF PasswordsOwned, LinksOwned, Way, There
  <2>3. Continue(h, <<>>) \/ (Continue(h, Rest(h)) /\ ~Gives(NextCall(h), run[h].secret))
    BY <2>1 DEF Gives
  <2>4. \A s \in sessions' : s \in sessions
    BY <2>1
  <2> QED
    BY <2>1, <2>2, <2>3, <2>4, WaysOn
<1> QED
  BY <1>1, <1>2, <1>3, <1>4, <1>5, <1>6, <1>7, <1>8 DEF Step

LEMMA WaysNext == Inv /\ WaysBack /\ [Next]_vars => WaysBack'
<1> SUFFICES ASSUME Inv, WaysBack, [Next]_vars PROVE WaysBack'
  OBVIOUS
<1>1. CASE UNCHANGED vars
  BY <1>1 DEF vars, tables, history, WaysBack, SignedInCanReturn, PasswordsOwned, LinksOwned,
              Way, There, Busy
<1> QED
  BY <1>1, WaysVisit, WaysStep DEF Next

LEMMA WaysInit == Init => WaysBack
BY DEF Init, WaysBack, SignedInCanReturn, PasswordsOwned, LinksOwned, There, Busy, Idle

LEMMA AlwaysWaysBack == Spec => []WaysBack
BY AlwaysInv, WaysInit, WaysNext, PTL DEF Spec

\* finish and signup: whoever is signed in has a way to sign in again, though
\* the account, its identity and the session are written one by one, two
\* visitors may come with one identity or one name, and a handler may stop.
THEOREM WayBack == Spec => []SignedInCanReturn
BY AlwaysWaysBack, PTL DEF WaysBack

-----------------------------------------------------------------------------
(* No reset link outlives the password it was for.                         *)

\* The first s links are of no use to whoever would reset this password.
Cleared(u, s) ==
    \A n \in 1..Len(links) :
        (n <= s /\ links[n].user = u /\ links[n].kind = "reset") => links[n].used

Clears(c) == c.do = "retire" /\ c.kind = "reset"

\* Before the person is told, the links are retired, and after the password.
Announced(plan, cleared) ==
    \A i \in 1..Len(plan) : plan[i].do = "changed" =>
        /\ cleared \/ \E j \in 1..i - 1 : Clears(plan[j])
        /\ \A k \in 1..i - 1 : plan[k].do = "password" => \E j \in k + 1..i - 1 : Clears(plan[j])

Told ==
    /\ \A u \in Names : replaced[u] <= Len(links) /\ Cleared(u, replaced[u])
    /\ \A h \in Webs : Busy(h) =>
          /\ run[h].since <= Len(links)
          /\ Announced(run[h].plan, Cleared(run[h].user, run[h].since))

LEMMA AnnouncedPlain ==
    ASSUME NEW plan \in Seq(Plain), NEW cleared PROVE Announced(plan, cleared)
BY DEF Announced, Plain

LEMMA AnnouncedStays ==
    ASSUME NEW plan, NEW cleared \in BOOLEAN, NEW later \in BOOLEAN,
           Announced(plan, cleared), cleared => later
    PROVE  Announced(plan, later)
BY DEF Announced

LEMMA AnnouncedTail ==
    ASSUME NEW plan \in Seq(Statement), plan # <<>>,
           NEW cleared \in BOOLEAN, NEW later \in BOOLEAN, Announced(plan, cleared),
           (cleared /\ Head(plan).do # "password") \/ Clears(Head(plan)) => later
    PROVE  Announced(Tail(plan), later)
<1> DEFINE t == Tail(plan)
<1>1. /\ Len(plan) \in Nat /\ Len(t) = Len(plan) - 1
      /\ \A i \in 1..Len(t) : t[i] = plan[i + 1]
      /\ Head(plan) = plan[1]
  BY TailFacts
<1> HIDE DEF t
<1>2. ASSUME NEW i \in 1..Len(t), t[i].do = "changed"
      PROVE  /\ later \/ \E j \in 1..i - 1 : Clears(t[j])
             /\ \A k \in 1..i - 1 : t[k].do = "password" => \E j \in k + 1..i - 1 : Clears(t[j])
  <2>1. i + 1 \in 1..Len(plan) /\ plan[i + 1].do = "changed"
    BY <1>1, <1>2
  <2>2. /\ cleared \/ \E j \in 1..(i + 1) - 1 : Clears(plan[j])
        /\ \A k \in 1..(i + 1) - 1 : plan[k].do = "password" =>
              \E j \in k + 1..(i + 1) - 1 : Clears(plan[j])
    BY <2>1 DEF Announced
  <2>3. ASSUME NEW j \in 1..(i + 1) - 1, j # 1
        PROVE  j - 1 \in 1..i - 1 /\ t[j - 1] = plan[j]
    <3>1. j - 1 \in 1..i - 1 /\ j - 1 \in 1..Len(t) /\ (j - 1) + 1 = j
      BY <1>1, <2>3
    <3> QED
      BY <1>1, <3>1
  <2>4. \A k \in 1..i - 1 : t[k].do = "password" => \E j \in k + 1..i - 1 : Clears(t[j])
    <3> SUFFICES ASSUME NEW k \in 1..i - 1, t[k].do = "password"
                 PROVE  \E j \in k + 1..i - 1 : Clears(t[j])
      OBVIOUS
    <3>1. k \in 1..Len(t) /\ k + 1 \in 1..(i + 1) - 1 /\ t[k] = plan[k + 1]
      BY <1>1
    <3>2. PICK j \in (k + 1) + 1..(i + 1) - 1 : Clears(plan[j])
      BY <2>2, <3>1
    <3>3. j \in 1..(i + 1) - 1 /\ j # 1 /\ j - 1 \in k + 1..i - 1
      BY <3>1, <3>2
    <3> QED
      BY <2>3, <3>2, <3>3
  <2>5. CASE Head(plan).do = "password"
    <3>1. 1 \in 1..(i + 1) - 1 /\ plan[1].do = "password"
      BY <1>1, <2>5
    <3>2. PICK j \in 1 + 1..(i + 1) - 1 : Clears(plan[j])
      BY <2>2, <3>1
    <3>3. j \in 1..(i + 1) - 1 /\ j # 1
      BY <3>2
    <3> QED
      BY <2>3, <2>4, <3>2, <3>3
  <2>6. CASE cleared /\ Head(plan).do # "password"
    BY <2>4, <2>6
  <2>7. ASSUME NEW j \in 1..(i + 1) - 1, Clears(plan[j]), Head(plan).do # "password"
        PROVE  later \/ \E k \in 1..i - 1 : Clears(t[k])
    <3>1. CASE j = 1
      BY <1>1, <2>7, <3>1
    <3>2. CASE j # 1
      BY <2>3, <2>7, <3>2
    <3> QED
      BY <3>1, <3>2
  <2> QED
    BY <2>2, <2>4, <2>5, <2>6, <2>7
<1> QED
  BY <1>2 DEF Announced, t

\* What follows a new password may tell of it.
LEMMA NewPasswordAnnounced ==
    ASSUME NEW last \in Seq({c \in Statement : c.do # "password"})
    PROVE  Announced(NewPassword \o last, TRUE)
<1> DEFINE first == NewPassword
           plan  == first \o last
           S     == {c \in Statement : c.do # "password"}
<1>1. /\ first \in Seq(Statement) /\ Len(first) = 3
      /\ \A i \in 1..3 : first[i].do # "changed" /\ (i # 1 => first[i].do # "password")
      /\ Clears(first[3])
  <2>1. /\ Do("password") \in Statement /\ Do("end") \in Statement
        /\ [Do("retire") EXCEPT !.kind = "reset"] \in Statement
        /\ Do("password").do = "password" /\ Do("end").do = "end"
        /\ [Do("retire") EXCEPT !.kind = "reset"].do = "retire"
        /\ [Do("retire") EXCEPT !.kind = "reset"].kind = "reset"
    BY DEF Do, Statement
  <2>2. first \in Seq(Statement) /\ Len(first) = 3
    BY <2>1 DEF NewPassword
  <2>3. /\ first[1].do = "password" /\ first[2].do = "end"
        /\ first[3].do = "retire" /\ first[3].kind = "reset"
    BY <2>1 DEF NewPassword
  <2> HIDE DEF first
  <2>4. \A i \in 1..3 : i = 1 \/ i = 2 \/ i = 3
    OBVIOUS
  <2> QED
    BY <2>2, <2>3, <2>4 DEF Clears
<1> HIDE DEF first
<1>2. last \in Seq(S) /\ last \in Seq(Statement) /\ Len(last) \in Nat
  BY LenProperties
<1>3. \A i \in 1..Len(last) : last[i].do # "password"
  BY <1>2
<1> HIDE DEF S
<1>4. /\ Len(plan) = 3 + Len(last)
      /\ \A i \in 1..3 + Len(last) : plan[i] = IF i <= 3 THEN first[i] ELSE last[i - 3]
  <2>1. /\ Len(first \o last) = Len(first) + Len(last)
        /\ \A i \in 1..Len(first) + Len(last) :
              (first \o last)[i] = IF i <= Len(first) THEN first[i] ELSE last[i - Len(first)]
    BY <1>1, <1>2, ConcatProperties, Zenon
  <2> QED
    BY <1>1, <2>1
<1> HIDE DEF plan
<1>5. Announced(plan, TRUE)
  <2> SUFFICES ASSUME NEW i \in 1..Len(plan), NEW k \in 1..i - 1,
                      plan[i].do = "changed", plan[k].do = "password"
               PROVE  \E j \in k + 1..i - 1 : Clears(plan[j])
    BY DEF Announced
  <2>1. i \in 1..3 + Len(last) /\ k \in 1..3 + Len(last) /\ Len(plan) \in Nat
    BY <1>2, <1>4
  <2>2. i > 3
    <3>1. CASE i <= 3
      BY <1>1, <1>4, <2>1, <3>1
    <3> QED
      BY <2>1, <3>1
  <2>3. k <= 3
    <3>1. CASE ~(k <= 3)
      <4>1. plan[k] = last[k - 3] /\ k - 3 \in 1..Len(last)
        BY <1>2, <1>4, <2>1, <3>1
      <4> QED
        BY <1>3, <4>1
    <3> QED
      BY <3>1
  <2>4. plan[k] = first[k] /\ k \in 1..3
    BY <1>4, <2>1, <2>3
  <2>5. k = 1
    BY <1>1, <2>4
  <2>6. 3 \in k + 1..i - 1
    BY <2>1, <2>2, <2>5
  <2>7. plan[3] = first[3]
    BY <1>2, <1>4
  <2> QED
    BY <1>1, <2>6, <2>7
<1> QED
  BY <1>5 DEF plan, first

-----------------------------------------------------------------------------
(* What is told, step by step.                                             *)

\* A step of one handler after which no link can be followed that could not be.
LEMMA ToldKept ==
    ASSUME Inv, Told, NEW h \in Webs, \A g \in Webs \ {h} : run'[g] = run[g],
           Len(links') \in Nat, Len(links) <= Len(links'),
           \A n \in 1..Len(links) :
              /\ links'[n].user = links[n].user /\ links'[n].kind = links[n].kind
              /\ links[n].used => links'[n].used,
           \A u \in Names : \/ replaced'[u] = replaced[u]
                            \/ replaced'[u] \in 0..Len(links) /\ Cleared(u, replaced'[u]),
           NEW r \in Run, run'[h] = r,
           \/ r = run[h]
           \/ r.plan = <<>>
           \/ r.since <= Len(links') /\ Announced(r.plan, Cleared(r.user, r.since)')
    PROVE  Told'
<1>0. TypeOK /\ Len(links) \in Nat
  BY DEF Inv, TypeOK
<1>1. ASSUME NEW u, NEW s \in Nat, s <= Len(links), Cleared(u, s)
      PROVE  s <= Len(links') /\ Cleared(u, s)'
  <2> SUFFICES ASSUME NEW n \in 1..Len(links'), n <= s, links'[n].user = u, links'[n].kind = "reset"
               PROVE  links'[n].used
    BY <1>0, <1>1 DEF Cleared
  <2>1. n \in 1..Len(links)
    BY <1>0, <1>1
  <2> QED
    BY <1>1, <2>1 DEF Cleared
<1>2. ASSUME NEW u \in Names PROVE (replaced[u] <= Len(links) /\ Cleared(u, replaced[u]))'
  <2>1. PICK s : s = replaced'[u]
    OBVIOUS
  <2>2. s \in Nat /\ s <= Len(links) /\ Cleared(u, s)
    BY <1>0, <2>1 DEF Told, TypeOK
  <2>3. s <= Len(links') /\ Cleared(u, s)'
    BY <1>1, <2>2
  <2> QED
    BY <2>1, <2>3 DEF Cleared
<1>3. ASSUME NEW g \in Webs, run'[g].plan # <<>>
      PROVE  (/\ run[g].since <= Len(links)
              /\ Announced(run[g].plan, Cleared(run[g].user, run[g].since)))'
  <2>1. CASE run'[g] = run[g]
    <3>1. PICK p : p = run[g]
      OBVIOUS
    <3>2. /\ p \in Run /\ p.since \in Nat /\ p.since <= Len(links)
          /\ Announced(p.plan, Cleared(p.user, p.since))
      BY <1>0, <1>3, <2>1, <3>1 DEF Told, Busy, TypeOK, Run
    <3>3. Cleared(p.user, p.since) \in BOOLEAN /\ (Cleared(p.user, p.since)') \in BOOLEAN
      BY DEF Cleared
    <3>4. /\ p.since <= Len(links')
          /\ Cleared(p.user, p.since) => Cleared(p.user, p.since)'
      BY <1>0, <1>1, <3>2
    <3>5. Announced(p.plan, Cleared(p.user, p.since)')
      BY <3>2, <3>3, <3>4, AnnouncedStays
    <3> QED
      BY <2>1, <3>1, <3>4, <3>5 DEF Cleared
  <2>2. CASE run'[g] # run[g]
    <3>1. g = h /\ r # run[h] /\ r.plan # <<>>
      BY <1>3, <2>2
    <3>2. r.since <= Len(links') /\ Announced(r.plan, Cleared(r.user, r.since)')
      BY <3>1
    <3> QED
      BY <3>1, <3>2 DEF Cleared
  <2> QED
    BY <2>1, <2>2
<1> QED
  BY <1>2, <1>3 DEF Told, Busy

LEMMA ToldStart ==
    ASSUME Inv, Told, NEW h \in Webs, NEW u, NEW token, NEW secret, NEW plan,
           Start(h, u, token, secret, plan), run' \in [Webs -> Run],
           Announced(plan, TRUE), replaced' = replaced,
           Len(links') = Len(links),
           \A n \in 1..Len(links) :
              /\ links'[n].user = links[n].user /\ links'[n].kind = links[n].kind
              /\ links[n].used => links'[n].used
    PROVE  Told'
<1>1. TypeOK /\ Len(links) \in Nat
  BY DEF Inv, TypeOK
<1>2. PICK r \in Run : r = run'[h]
  OBVIOUS
<1>3. (\A g \in Webs \ {h} : run'[g] = run[g]) /\ r.plan = plan /\ r.since = 0
  BY <1>1, <1>2, StartRun
<1>4. Cleared(r.user, r.since)' /\ (Cleared(r.user, r.since)') \in BOOLEAN
  BY <1>1, <1>3 DEF Cleared
<1>5. r.since <= Len(links')
  BY <1>1, <1>3
<1>6. Announced(r.plan, Cleared(r.user, r.since)')
  BY <1>3, <1>4, AnnouncedStays
<1> QED
  BY <1>1, <1>2, <1>3, <1>5, <1>6, ToldKept

\* A handler goes on, or gives up.
LEMMA ToldOn ==
    ASSUME Inv, Told, NEW h \in Webs, Busy(h), run' \in [Webs -> Run],
           NEW me, me = Me(h), NEW since \in Nat, since = run[h].since,
           \/ /\ Continue(h, Rest(h))
              /\ NextCall(h).do # "password"
              /\ Clears(NextCall(h)) => Cleared(me, since)'
           \/ Continue(h, <<>>),
           Len(links') \in Nat, Len(links) <= Len(links'),
           \A n \in 1..Len(links) :
              /\ links'[n].user = links[n].user /\ links'[n].kind = links[n].kind
              /\ links[n].used => links'[n].used,
           \A u \in Names : \/ replaced'[u] = replaced[u]
                            \/ replaced'[u] \in 0..Len(links) /\ Cleared(u, replaced'[u])
    PROVE  Told'
<1>0. TypeOK /\ Len(links) \in Nat
  BY DEF Inv, TypeOK
<1>1. PICK r \in Run : r = run'[h]
  OBVIOUS
<1>2. PICK p : p = run[h]
  OBVIOUS
<1>3. /\ p.plan \in Seq(Statement) /\ p.plan # <<>>
      /\ since <= Len(links) /\ Announced(p.plan, Cleared(me, since))
      /\ p.user = me /\ p.since = since
  BY <1>0, <1>2 DEF Busy, Told, TypeOK, Run, Me
<1>4. CASE /\ Continue(h, Rest(h)) /\ NextCall(h).do # "password"
           /\ Clears(NextCall(h)) => Cleared(me, since)'
  <2>1. /\ \A g \in Webs \ {h} : run'[g] = run[g]
        /\ \/ r.plan = <<>>
           \/ r.plan = Tail(p.plan) /\ r.user = me /\ r.since = since
    BY <1>0, <1>1, <1>2, <1>3, <1>4, ContinueRun DEF Rest
  <2>2. Cleared(me, since) \in BOOLEAN /\ (Cleared(me, since)') \in BOOLEAN
    BY DEF Cleared
  <2>3. Cleared(me, since) => Cleared(me, since)'
    <3> SUFFICES ASSUME Cleared(me, since), NEW n \in 1..Len(links'), n <= since,
                        links'[n].user = me, links'[n].kind = "reset"
                 PROVE  links'[n].used
      BY DEF Cleared
    <3>1. n \in 1..Len(links)
      BY <1>0, <1>3
    <3> QED
      BY <3>1 DEF Cleared
  <2>4. Head(p.plan).do # "password" /\ (Clears(Head(p.plan)) => Cleared(me, since)')
    BY <1>2, <1>4 DEF NextCall
  <2>5. Announced(Tail(p.plan), Cleared(me, since)')
    BY <1>3, <2>2, <2>3, <2>4, AnnouncedTail
  <2>6. r.plan = <<>> \/ (r.since <= Len(links') /\ Announced(r.plan, Cleared(r.user, r.since)'))
    <3> SUFFICES ASSUME r.plan # <<>>
                 PROVE  r.since <= Len(links') /\ Announced(r.plan, Cleared(r.user, r.since)')
      OBVIOUS
    <3>1. r.plan = Tail(p.plan) /\ r.user = me /\ r.since = since
      BY <2>1
    <3>2. r.since <= Len(links')
      BY <1>0, <1>3, <3>1
    <3>3. Announced(r.plan, Cleared(r.user, r.since)')
      BY <2>5, <3>1 DEF Cleared
    <3> QED
      BY <3>2, <3>3
  <2> QED
    BY <1>1, <2>1, <2>6, ToldKept
<1>5. CASE Continue(h, <<>>)
  <2>1. (\A g \in Webs \ {h} : run'[g] = run[g]) /\ r.plan = <<>>
    BY <1>0, <1>1, <1>5, ContinueRun
  <2> QED
    BY <1>1, <2>1, ToldKept
<1> QED
  BY <1>4, <1>5

LEMMA ToldVisit ==
    ASSUME Inv, Inv', Told, NEW h \in Webs, Visit(h) PROVE Told'
<1> USE DEF tables, history
<1>0. /\ TypeOK /\ run' \in [Webs -> Run] /\ links \in Seq(Link) /\ Len(links) \in Nat
      /\ links' \in Seq(Link)
  BY DEF Inv, TypeOK
<1> DEFINE Same == /\ replaced' = replaced /\ Len(links') = Len(links)
                   /\ \A n \in 1..Len(links) :
                        /\ links'[n].user = links[n].user /\ links'[n].kind = links[n].kind
                        /\ links[n].used => links'[n].used
<1>1. UNCHANGED <<links, replaced>> => Same
  OBVIOUS
<1>2. ASSUME NEW n \in 1..Len(links), NEW kind \in Kind, Follow(h, n, kind) PROVE Same
  <2> DEFINE l == [links[n] EXCEPT !.used = TRUE]
  <2>1. links[n] \in Link
    BY <1>0
  <2>2. links' = [links EXCEPT ![n] = l] /\ replaced' = replaced
    BY <1>0, <1>2 DEF Follow
  <2>3. l \in Link /\ l.user = links[n].user /\ l.kind = links[n].kind /\ l.used
    BY <2>1 DEF Link
  <2> HIDE DEF l
  <2> QED
    BY <1>0, <2>2, <2>3, ExceptSeq
<1>3. ASSUME NEW u, NEW token, NEW secret, NEW plan, Start(h, u, token, secret, plan),
             Announced(plan, TRUE), Same
      PROVE  Told'
  BY <1>0, <1>3, ToldStart
<1> HIDE DEF Same
<1>4. ASSUME NEW u \in Names, Login(h, u) PROVE Told'
  <2>1. PICK rehash \in {<<>>, <<Do("password")>>} :
           Start(h, u, NewToken, password[u], rehash \o <<Do("session")>>)
    BY <1>4 DEF Login
  <2>2. Announced(rehash \o <<Do("session")>>, TRUE)
    <3> DEFINE S == {c \in Statement : c.do # "changed"}
    <3>1. Do("session") \in S /\ Do("password") \in S
      BY DEF Do, Statement
    <3> HIDE DEF S
    <3>2. <<Do("session")>> \in Seq(S) /\ <<Do("password")>> \in Seq(S) /\ <<>> \in Seq(S)
      BY <3>1
    <3>3. rehash \o <<Do("session")>> \in Seq(S)
      BY <3>2, ConcatProperties, Zenon
    <3> QED
      BY <3>3 DEF Announced, S
  <2> QED
    BY <1>1, <1>3, <1>4, <2>1, <2>2 DEF Login
<1>5. ASSUME NEW u \in Names, NEW a \in Addresses \cup {NoAddress}, Signup(h, u, a) PROVE Told'
  BY <1>1, <1>3, <1>5, SignupPlain, AnnouncedPlain DEF Signup
<1>6. ASSUME NEW u \in Names, NEW a \in Addresses \cup {NoAddress}, NEW i \in Identities,
             NEW vouched \in BOOLEAN, Finish(h, i, u, a, vouched)
      PROVE  Told'
  BY <1>1, <1>3, <1>6, FinishPlain, AnnouncedPlain DEF Finish
<1>7. ASSUME NEW u \in Names, NEW to \in UserState, SetState(h, u, to) PROVE Told'
  <2>1. StateCalls(to) \in Seq(Plain)
    BY StatePlain
  <2> QED
    BY <1>1, <1>3, <1>7, <2>1, AnnouncedPlain DEF SetState
<1>8. ASSUME NEW i \in Identities, SignIn(h, i) PROVE Told'
  <2>1. <<Do("session")>> \in Seq(Plain)
    BY DoPlain
  <2> QED
    BY <1>1, <1>3, <1>8, <2>1, AnnouncedPlain DEF SignIn
<1>9. ASSUME NEW s \in sessions,
             \/ Logout(h, s) \/ ChangePassword(h, s) \/ EndOtherSessions(h, s)
             \/ \E a \in Addresses : ChangeEmail(h, s, a)
      PROVE  Told'
  <2>1. CASE Logout(h, s)
    BY <2>1 DEF Logout, Told, Cleared, Busy
  <2>2. CASE ChangePassword(h, s)
    <3> DEFINE last == <<Do("session"), Do("changed")>>
               S == {c \in Statement : c.do # "password"}
    <3>1. Do("session") \in S /\ Do("changed") \in S
      BY DEF Do, Statement
    <3>2. last \in Seq(S)
      <4> HIDE DEF S
      <4> QED
        BY <3>1
    <3>3. Announced(NewPassword \o last, TRUE)
      BY <3>2, NewPasswordAnnounced
    <3> QED
      BY <1>1, <1>3, <2>2, <3>3 DEF ChangePassword
  <2>3. CASE EndOtherSessions(h, s)
    <3>1. <<Do("end"), Do("session")>> \in Seq(Plain)
      BY DoPlain
    <3> QED
      BY <1>1, <1>3, <2>3, <3>1, AnnouncedPlain DEF EndOtherSessions
  <2>4. ASSUME NEW a \in Addresses, ChangeEmail(h, s, a) PROVE Told'
    BY <1>1, <1>3, <2>4, GiveAddressPlain, AnnouncedPlain DEF ChangeEmail
  <2> QED
    BY <1>9, <2>1, <2>2, <2>3, <2>4
<1>10. ASSUME NEW a \in Addresses, RequestReset(h, a) PROVE Told'
  <2>1. PICK u \in Holders(a) : account[u] = "active" /\ Start(h, u, 0, 0, Issue("reset", a))
    BY <1>10 DEF RequestReset
  <2>2. Announced(Issue("reset", a), TRUE)
    <3> DEFINE S == {c \in Statement : c.do # "changed"}
    <3>1. [Do("retire") EXCEPT !.kind = "reset"] \in S /\ [Mail("link", a) EXCEPT !.kind = "reset"] \in S
      BY DEF Do, Mail, Statement
    <3> HIDE DEF S
    <3>2. Issue("reset", a) \in Seq(S)
      BY <3>1 DEF Issue
    <3> QED
      BY <3>2 DEF Announced, S
  <2> QED
    BY <1>1, <1>3, <1>10, <2>1, <2>2 DEF RequestReset
<1>11. ASSUME NEW n \in 1..Len(links), ConfirmEmail(h, n) PROVE Told'
  <2>1. links[n] \in Link
    BY <1>0
  <2>2. Mail("verify", links[n].address) \in Plain
    BY <2>1, MailPlain DEF Link
  <2>3. <<Mail("verify", links[n].address)>> \in Seq(Plain)
    BY <2>2
  <2>4. Announced(<<Mail("verify", links[n].address)>>, TRUE)
    BY <2>3, AnnouncedPlain
  <2> QED
    BY <1>2, <1>3, <1>11, <2>4 DEF ConfirmEmail
<1>12. ASSUME NEW n \in 1..Len(links), CompleteReset(h, n) PROVE Told'
  <2> DEFINE plan == NewPassword \o <<Do("changed")>>
             q == [Idle EXCEPT !.plan = plan, !.user = links[n].user,
                               !.secret = NewSecret, !.link = n]
             S == {c \in Statement : c.do # "password"}
  <2>1. Same /\ run' = [run EXCEPT ![h] = q]
    BY <1>2, <1>12 DEF CompleteReset
  <2>2. Announced(plan, TRUE)
    <3>1. Do("changed") \in S
      BY DEF Do, Statement
    <3>2. <<Do("changed")>> \in Seq(S)
      <4> HIDE DEF S
      <4> QED
        BY <3>1
    <3> QED
      BY <3>2, NewPasswordAnnounced
  <2> HIDE DEF plan
  <2>3. q.plan = plan /\ q.since = 0
    BY DEF Idle
  <2> HIDE DEF q
  <2>4. PICK r \in Run : r = run'[h]
    BY <1>0
  <2>5. r = q /\ \A g \in Webs \ {h} : run'[g] = run[g]
    BY <1>0, <2>1, <2>4 DEF TypeOK
  <2>6. Cleared(r.user, r.since)' /\ (Cleared(r.user, r.since)') \in BOOLEAN
    BY <1>0, <2>1, <2>3, <2>5 DEF Cleared, Same
  <2>7. r.since <= Len(links')
    BY <1>0, <2>1, <2>3, <2>5 DEF Same
  <2>8. Announced(r.plan, Cleared(r.user, r.since)')
    BY <2>2, <2>3, <2>5, <2>6, AnnouncedStays
  <2> QED
    BY <1>0, <2>1, <2>4, <2>5, <2>7, <2>8, ToldKept DEF Same
<1> QED
  BY <1>4, <1>5, <1>6, <1>7, <1>8, <1>9, <1>10, <1>11, <1>12 DEF Visit

LEMMA ToldStep ==
    ASSUME Inv, Inv', Told, NEW h \in Webs, Step(h) \/ Fail(h) PROVE Told'
<1> USE DEF tables, history, quiet
<1>0. /\ TypeOK /\ run' \in [Webs -> Run] /\ Len(links) \in Nat /\ Len(links') \in Nat
  BY DEF Inv, TypeOK
<1>1. CASE SetPasswordHash(h)
  <2>1. /\ Busy(h) /\ run[h] \in Run /\ NextCall(h).do = "password"
        /\ links' = links /\ replaced' = replaced
    BY <1>1, CallFacts DEF SetPasswordHash, At
  <2>2. PICK p : p = run[h]
    OBVIOUS
  <2>3. PICK r \in Run : r = run'[h]
    BY <1>0
  <2>4. /\ r.plan = Tail(p.plan) /\ r.user = p.user /\ r.since = Len(links)
        /\ \A g \in Webs \ {h} : run'[g] = run[g]
    BY <1>0, <1>1, <2>1, <2>2, <2>3 DEF SetPasswordHash, TypeOK, Run, Rest
  <2>5. /\ p.plan \in Seq(Statement) /\ p.plan # <<>>
        /\ Announced(p.plan, Cleared(p.user, p.since)) /\ Head(p.plan).do = "password"
    BY <2>1, <2>2 DEF Run, Busy, Told, NextCall
  <2>6. Cleared(p.user, p.since) \in BOOLEAN /\ (Cleared(r.user, r.since)') \in BOOLEAN
    BY DEF Cleared
  <2>7. ~Clears(Head(p.plan))
    BY <2>5 DEF Clears
  <2>8. Announced(Tail(p.plan), Cleared(r.user, r.since)')
    BY <2>5, <2>6, <2>7, AnnouncedTail
  <2>9. r.since <= Len(links') /\ Announced(r.plan, Cleared(r.user, r.since)')
    BY <1>0, <2>1, <2>4, <2>8
  <2> QED
    BY <1>0, <2>1, <2>3, <2>4, <2>9, ToldKept
<1>2. CASE RetireLinks(h)
  <2>1. /\ Busy(h) /\ NextCall(h).do = "retire" /\ Continue(h, Rest(h)) /\ replaced' = replaced
        /\ run[h] \in Run
    BY <1>2, CallFacts DEF RetireLinks, At
  <2>2. PICK me : me = Me(h)
    OBVIOUS
  <2>3. PICK since \in Nat : since = run[h].since
    BY <2>1 DEF Run
  <2>4. /\ Len(links') = Len(links)
        /\ \A n \in 1..Len(links) :
             /\ links'[n].user = links[n].user /\ links'[n].kind = links[n].kind
             /\ links[n].used => links'[n].used
             /\ links[n].user = Me(h) /\ links[n].kind = NextCall(h).kind => links'[n].used
    BY <1>0, <1>2, Retired
  <2>5. Clears(NextCall(h)) => Cleared(me, since)'
    BY <1>0, <2>2, <2>4 DEF Clears, Cleared
  <2> QED
    BY <1>0, <2>1, <2>2, <2>3, <2>4, <2>5, ToldOn
<1>3. CASE TellChanged(h)
  <2>1. /\ Busy(h) /\ NextCall(h).do = "changed" /\ Continue(h, Rest(h)) /\ links' = links
        /\ run[h] \in Run /\ Me(h) \in Names
    BY <1>3, CallFacts DEF TellChanged, At
  <2>2. PICK me : me = Me(h)
    OBVIOUS
  <2>3. PICK since \in Nat : since = run[h].since
    BY <2>1 DEF Run
  <2>4. since <= Len(links) /\ Cleared(me, since)
    <3>1. PICK p : p = run[h]
      OBVIOUS
    <3>2. /\ p.plan \in Seq(Statement) /\ p.plan # <<>> /\ Head(p.plan).do = "changed"
          /\ since <= Len(links) /\ Announced(p.plan, Cleared(me, since))
      BY <2>1, <2>2, <2>3, <3>1 DEF Run, Busy, Told, NextCall, Me
    <3>3. 1 \in 1..Len(p.plan) /\ Head(p.plan) = p.plan[1]
      BY <3>2, TailFacts
    <3>4. Cleared(me, since) \/ \E j \in 1..1 - 1 : Clears(p.plan[j])
      BY <3>2, <3>3 DEF Announced
    <3> QED
      BY <3>2, <3>4
  <2>5. \A u \in Names : \/ replaced'[u] = replaced[u]
                         \/ replaced'[u] \in 0..Len(links) /\ Cleared(u, replaced'[u])
    <3>1. replaced' = [replaced EXCEPT ![me] = IF since > replaced[me] THEN since ELSE replaced[me]]
      BY <1>3, <2>2, <2>3 DEF TellChanged
    <3>2. me \in Names /\ since \in 0..Len(links)
      BY <1>0, <2>1, <2>2, <2>4
    <3> QED
      BY <1>0, <2>4, <3>1, <3>2 DEF TypeOK
  <2>6. NextCall(h).do # "password" /\ ~Clears(NextCall(h))
    BY <2>1 DEF Clears
  <2> QED
    BY <1>0, <2>1, <2>2, <2>3, <2>5, <2>6, ToldOn
<1>4. CASE CreateLink(h)
  <2>1. /\ Busy(h) /\ NextCall(h).do = "link" /\ Continue(h, Rest(h)) /\ replaced' = replaced
        /\ run[h] \in Run
    BY <1>4, CallFacts DEF CreateLink, At
  <2>2. PICK me : me = Me(h)
    OBVIOUS
  <2>3. PICK since \in Nat : since = run[h].since
    BY <2>1 DEF Run
  <2>4. Len(links') = Len(links) + 1 /\ \A n \in 1..Len(links) : links'[n] = links[n]
    BY <1>0, <1>4, Written
  <2>5. NextCall(h).do # "password" /\ ~Clears(NextCall(h)) /\ Len(links) <= Len(links')
    BY <1>0, <2>1, <2>4 DEF Clears
  <2> QED
    BY <1>0, <2>1, <2>2, <2>3, <2>4, <2>5, ToldOn
<1>5. CASE \/ CreateUser(h) \/ CreateSession(h) \/ SetEmail(h) \/ MarkVerified(h)
           \/ DeleteUserSessions(h) \/ LinkIdentity(h) \/ SetUserState(h) \/ Fail(h)
  <2>1. /\ links' = links /\ replaced' = replaced /\ Busy(h)
        /\ \/ Continue(h, <<>>)
           \/ /\ Continue(h, Rest(h))
              /\ NextCall(h).do \notin {"password", "retire"}
    BY <1>5 DEF CreateUser, CreateSession, SetEmail, MarkVerified, DeleteUserSessions,
                LinkIdentity, SetUserState, Fail, At
  <2>2. PICK me : me = Me(h)
    OBVIOUS
  <2>3. PICK since \in Nat : since = run[h].since
    BY <1>0 DEF TypeOK, Run
  <2>4. \/ Continue(h, <<>>)
        \/ Continue(h, Rest(h)) /\ NextCall(h).do # "password" /\ ~Clears(NextCall(h))
    BY <2>1 DEF Clears
  <2> QED
    BY <1>0, <2>1, <2>2, <2>3, <2>4, ToldOn
<1> QED
  BY <1>1, <1>2, <1>3, <1>4, <1>5 DEF Step

LEMMA ToldNext == Inv /\ Inv' /\ Told /\ [Next]_vars => Told'
<1> SUFFICES ASSUME Inv, Inv', Told, [Next]_vars PROVE Told'
  OBVIOUS
<1>1. CASE UNCHANGED vars
  BY <1>1 DEF vars, tables, history, Told, Cleared, Busy
<1> QED
  BY <1>1, ToldVisit, ToldStep DEF Next

LEMMA ToldInit == Init => Told
<1> SUFFICES ASSUME Init PROVE Told
  OBVIOUS
<1>1. Len(links) = 0 /\ (\A h \in Webs : ~Busy(h)) /\ \A u \in Names : replaced[u] = 0
  BY DEF Init, Busy, Idle
<1>2. \A u, s : Cleared(u, s)
  BY <1>1 DEF Cleared
<1> QED
  BY <1>1, <1>2 DEF Told

LEMMA AlwaysTold == Spec => []Told
BY AlwaysInv, ToldInit, ToldNext, PTL DEF Spec

LEMMA ToldKeepsWord == ASSUME Inv, Told PROVE NoLinkOutlivesItsPassword
BY DEF Told, Cleared, NoLinkOutlivesItsPassword

\* account.rs: a reset link still in some inbox does not outlive the password it
\* was for: from the moment a person is told that the password has changed, none
\* of the links that were there when the new one was written can be followed,
\* whoever asks for, follows or retires links in the meantime.
THEOREM LinksEnd == Spec => []NoLinkOutlivesItsPassword
BY AlwaysInv, AlwaysTold, ToldKeepsWord, PTL

=============================================================================
