-------------------------- MODULE RateLimit_proofs --------------------------
(***************************************************************************)
(* Theorems about the attempt counters, for any members, clients, limits   *)
(* and numbers of requests and handlers.                                   *)
(*                                                                         *)
(* A request goes ahead with a plan of statements, whose values were       *)
(* computed from what it read.  PlanFor says what all plans have in        *)
(* common, and NextCases reduces a step to six kinds.                      *)
(***************************************************************************)
EXTENDS RateLimit, TLAPS

\* What a plan of a request of this kind is made of.
PlanFor(kind, id, client, plan) ==
    /\ plan \in Seq(Statement)
    /\ \A i \in DOMAIN plan : \E b \in Buckets(kind, id, client) :
         plan[i] = Record(b.key, b.limit) \/ plan[i] = Clear(b.key)
    /\ \A i, j \in DOMAIN plan : plan[i].key = plan[j].key => i = j

-----------------------------------------------------------------------------
(* Types.                                                                  *)

LEMMA KeyType ==
    /\ Identity \subseteq Key
    /\ \A client \in Clients : ClientKey(client) \in Key
    /\ \A id \in Identity, client \in Clients : id # ClientKey(client)
BY DEF Identity, ClientKey, Key

LEMMA IdType ==
    ASSUME NEW kind \in Kind, NEW id \in Ids(kind)
    PROVE  id \in Identity
BY RateLimitAssumption DEF Ids, Kind, Identity

LEMMA LimitType ==
    ASSUME NEW kind \in Kind, NEW k
    PROVE  LimitOn(k, kind) \in Limit
<1>1. Limits[kind].own \in Limit /\ Limits[kind].client \in Limit
  BY RateLimitAssumption
<1> QED
  BY <1>1 DEF LimitOn

LEMMA BucketType ==
    ASSUME NEW kind \in Kind, NEW id \in Ids(kind), NEW client \in Clients,
           NEW b \in Buckets(kind, id, client)
    PROVE  /\ b.key \in Key /\ b.limit = LimitOn(b.key, kind) /\ b.limit \in Limit
           /\ b = [key |-> id, limit |-> LimitOn(id, kind)]
              \/ b = [key |-> ClientKey(client), limit |-> LimitOn(ClientKey(client), kind)]
<1>1. PICK k \in {id, ClientKey(client)} : b = [key |-> k, limit |-> LimitOn(k, kind)]
  BY DEF Buckets
<1>2. k \in Key
  BY IdType, KeyType
<1> QED
  BY <1>1, <1>2, LimitType

LEMMA BucketOf ==
    ASSUME NEW kind \in Kind, NEW id, NEW client, NEW k,
           k = ClientKey(client) \/ (k = id /\ kind # "signup")
    PROVE  [key |-> k, limit |-> LimitOn(k, kind)] \in Buckets(kind, id, client)
BY Zenon DEF Buckets

LEMMA NoRowType == NoRow \in Attempts
BY DEF NoRow, Attempts

LEMMA CountedType ==
    ASSUME NEW limit \in Limit, NEW row \in Attempts, NEW at \in Nat
    PROVE  Counted(limit, row, at) \in Attempts
BY DEF Counted, First, Attempts, Limit

LEMMA RecordType ==
    ASSUME TypeOK, NEW key \in Key, NEW limit \in Limit
    PROVE  /\ Record(key, limit) \in Statement
           /\ Record(key, limit).do = "record"
           /\ Record(key, limit).key = key
           /\ Record(key, limit).value = Counted(limit, attempts[key], now)
<1>1. attempts[key] \in Attempts /\ now \in Nat
  BY RateLimitAssumption DEF TypeOK
<1>2. Counted(limit, attempts[key], now) \in Attempts
  BY <1>1, CountedType
<1> QED
  BY <1>2 DEF Record, Statement

LEMMA ClearType ==
    ASSUME NEW key \in Key
    PROVE  /\ Clear(key) \in Statement
           /\ Clear(key).do = "clear"
           /\ Clear(key).key = key
           /\ Clear(key).value = NoRow
BY NoRowType DEF Clear, Statement

\* Two statements on different keys make a sequence with one on each.
LEMMA Pair ==
    ASSUME NEW a \in Statement, NEW b \in Statement, a.key # b.key
    PROVE  /\ <<a, b>> \in Seq(Statement)
           /\ \A i \in DOMAIN <<a, b>> : <<a, b>>[i] = a \/ <<a, b>>[i] = b
           /\ \A i, j \in DOMAIN <<a, b>> : <<a, b>>[i].key = <<a, b>>[j].key => i = j
<1>1. DOMAIN <<a, b>> = {1, 2}
  OBVIOUS
<1> QED
  BY <1>1

LEMMA KeysType ==
    ASSUME NEW plan \in Seq(Statement)
    PROVE  Keys(plan) \subseteq Key
<1>1. \A i \in DOMAIN plan : plan[i] \in Statement
  OBVIOUS
<1>2. \A i \in DOMAIN plan : plan[i].key \in Key
  BY <1>1 DEF Statement
<1> QED
  BY <1>2 DEF Keys

LEMMA PlanForRecordBoth ==
    ASSUME TypeOK, NEW kind \in Kind \ {"signup"}, NEW id \in Ids(kind), NEW client \in Clients
    PROVE  PlanFor(kind, id, client, RecordBoth(kind, id, client))
<1> DEFINE a == RecordOn(id, kind)
           b == RecordOn(ClientKey(client), kind)
<1>0. id \in Identity
  BY IdType
<1>1. a \in Statement /\ b \in Statement /\ a.key = id /\ b.key = ClientKey(client)
  BY <1>0, KeyType, LimitType, RecordType DEF RecordOn
<1>2. a.key # b.key
  BY <1>0, <1>1, KeyType
<1>3. RecordBoth(kind, id, client) = <<a, b>>
  BY DEF RecordBoth
<1>5. ASSUME NEW k \in {id, ClientKey(client)}
      PROVE  \E c \in Buckets(kind, id, client) : RecordOn(k, kind) = Record(c.key, c.limit)
  <2>1. [key |-> k, limit |-> LimitOn(k, kind)] \in Buckets(kind, id, client)
    BY BucketOf
  <2> QED
    BY <2>1 DEF RecordOn
<1>6. \A p \in {a, b} : \E c \in Buckets(kind, id, client) : p = Record(c.key, c.limit)
  BY <1>5
<1> HIDE DEF a, b
<1>4. /\ <<a, b>> \in Seq(Statement)
      /\ \A i \in DOMAIN <<a, b>> : <<a, b>>[i] = a \/ <<a, b>>[i] = b
      /\ \A i, j \in DOMAIN <<a, b>> : <<a, b>>[i].key = <<a, b>>[j].key => i = j
  BY <1>1, <1>2, Pair
<1> QED
  BY <1>3, <1>4, <1>6 DEF PlanFor

LEMMA PlanForClearBoth ==
    ASSUME NEW id \in Ids("login"), NEW client \in Clients
    PROVE  PlanFor("login", id, client, <<Clear(id), Clear(ClientKey(client))>>)
<1> DEFINE a == Clear(id)
           b == Clear(ClientKey(client))
<1>0. id \in Identity
  BY IdType DEF Kind
<1>1. a \in Statement /\ b \in Statement /\ a.key = id /\ b.key = ClientKey(client)
  BY <1>0, KeyType, ClearType
<1>2. a.key # b.key
  BY <1>0, <1>1, KeyType
<1>5. ASSUME NEW k \in {id, ClientKey(client)}
      PROVE  \E c \in Buckets("login", id, client) : Clear(k) = Clear(c.key)
  <2>1. [key |-> k, limit |-> LimitOn(k, "login")] \in Buckets("login", id, client)
    BY BucketOf DEF Kind
  <2> QED
    BY <2>1
<1>6. \A p \in {a, b} : \E c \in Buckets("login", id, client) : p = Clear(c.key)
  BY <1>5
<1> HIDE DEF a, b
<1>4. /\ <<a, b>> \in Seq(Statement)
      /\ \A i \in DOMAIN <<a, b>> : <<a, b>>[i] = a \/ <<a, b>>[i] = b
      /\ \A i, j \in DOMAIN <<a, b>> : <<a, b>>[i].key = <<a, b>>[j].key => i = j
  BY <1>1, <1>2, Pair
<1>7. PlanFor("login", id, client, <<a, b>>)
  BY <1>4, <1>6 DEF PlanFor
<1> QED
  BY <1>7 DEF a, b

LEMMA PlanForNothing ==
    ASSUME NEW kind, NEW id, NEW client
    PROVE  PlanFor(kind, id, client, <<>>)
BY DEF PlanFor

LEMMA PlanForClient ==
    ASSUME TypeOK, NEW kind \in Kind, NEW id \in Ids(kind), NEW client \in Clients
    PROVE  PlanFor(kind, id, client, <<RecordOn(ClientKey(client), kind)>>)
<1> DEFINE b == RecordOn(ClientKey(client), kind)
<1>1. b \in Statement
  BY KeyType, LimitType, RecordType DEF RecordOn
<1>3. \E c \in Buckets(kind, id, client) : b = Record(c.key, c.limit)
  <2>1. [key |-> ClientKey(client), limit |-> LimitOn(ClientKey(client), kind)]
           \in Buckets(kind, id, client)
    BY BucketOf
  <2> QED
    BY <2>1 DEF RecordOn
<1> HIDE DEF b
<1>2. <<b>> \in Seq(Statement) /\ DOMAIN <<b>> = {1} /\ <<b>>[1] = b
  BY <1>1
<1>4. PlanFor(kind, id, client, <<b>>)
  BY <1>2, <1>3 DEF PlanFor
<1> QED
  BY <1>4 DEF b

\* A step is one of these.
LEMMA NextCases ==
    ASSUME TypeOK, Next
    PROVE  \/ \E h \in Webs, kind \in Kind : \E id \in Ids(kind), client \in Clients :
                \E plan : PlanFor(kind, id, client, plan) /\ Admit(h, kind, id, client, plan)
           \/ \E h \in Webs, kind \in Kind : \E id \in Ids(kind), client \in Clients :
                Refuse(h, kind, id, client)
           \/ \E h \in Webs : RecordAttempt(h) \/ ClearAttempts(h) \/ Fail(h)
           \/ Tick
<1>0. {"login", "reply", "thread", "signup", "reset"} \subseteq Kind
  BY DEF Kind
<1>1. CASE \E h \in Webs, client \in Clients, good \in BOOLEAN, id \in Ids("login") :
             Login(h, id, client, good)
  <2>1. PICK h \in Webs, client \in Clients, good \in BOOLEAN, id \in Ids("login") :
           Login(h, id, client, good)
    BY <1>1
  <2>2. PlanFor("login", id, client, LoginCalls(id, client, good))
    BY <1>0, PlanForRecordBoth, PlanForClearBoth DEF LoginCalls
  <2> QED
    BY <1>0, <2>1, <2>2 DEF Login
<1>2. CASE \E h \in Webs, client \in Clients, good \in BOOLEAN, id \in Ids("signup") :
             Signup(h, id, client, good)
  <2>1. PICK h \in Webs, client \in Clients, good \in BOOLEAN, id \in Ids("signup") :
           Signup(h, id, client, good)
    BY <1>2
  <2>2. PlanFor("signup", id, client,
                IF good THEN <<RecordOn(ClientKey(client), "signup")>> ELSE <<>>)
    BY <1>0, PlanForClient, PlanForNothing
  <2> QED
    BY <1>0, <2>1, <2>2 DEF Signup
<1>3. CASE \E h \in Webs, client \in Clients, good \in BOOLEAN, kind \in {"reply", "thread"} :
             \E id \in Ids(kind) : Write(h, kind, id, client, good)
  <2>1. PICK h \in Webs, client \in Clients, good \in BOOLEAN, kind \in {"reply", "thread"} :
           \E id \in Ids(kind) : Write(h, kind, id, client, good)
    BY <1>3
  <2>2. PICK id \in Ids(kind) : Write(h, kind, id, client, good)
    BY <2>1
  <2>3. PlanFor(kind, id, client, IF good THEN RecordBoth(kind, id, client) ELSE <<>>)
    BY <1>0, PlanForRecordBoth, PlanForNothing
  <2> QED
    BY <1>0, <2>2, <2>3 DEF Write
<1>4. CASE \E h \in Webs, client \in Clients, id \in Ids("reset") : RequestReset(h, id, client)
  BY <1>0, <1>4, PlanForRecordBoth DEF RequestReset
<1> QED
  BY <1>1, <1>2, <1>3, <1>4 DEF Next

LEMMA TypeInit == Init => TypeOK
BY RateLimitAssumption, NoRowType DEF Init, TypeOK

LEMMA TypeStep ==
    ASSUME TypeOK, [Next]_vars
    PROVE  TypeOK'
<1>1. ASSUME NEW h \in Webs, NEW kind \in Kind, NEW id \in Ids(kind), NEW client \in Clients,
             NEW plan, PlanFor(kind, id, client, plan), Admit(h, kind, id, client, plan)
      PROVE  TypeOK'
  <2>1. run' \in [Webs -> Seq(Statement)]
    BY <1>1 DEF Admit, PlanFor, TypeOK
  <2>2. [at |-> now, kind |-> kind] \in Try
    BY <1>1, RateLimitAssumption DEF TypeOK, Try
  <2>3. \A k \in Key : tries[k] \in Seq(Try) /\ Append(tries[k], [at |-> now, kind |-> kind]) \in Seq(Try)
    BY <2>2 DEF TypeOK
  <2>4. tries' \in [Key -> Seq(Try)]
    BY <1>1, <2>3 DEF Admit
  <2>5. requests' \in 0..MaxRequests /\ raced' \subseteq Key
    BY <1>1, KeysType, RateLimitAssumption DEF Admit, TypeOK, PlanFor
  <2> QED
    BY <1>1, <2>1, <2>4, <2>5 DEF Admit, TypeOK
<1>2. ASSUME NEW h \in Webs, NEW kind \in Kind, NEW id \in Ids(kind), NEW client \in Clients,
             Refuse(h, kind, id, client)
      PROVE  TypeOK'
  BY <1>2, RateLimitAssumption DEF Refuse, TypeOK, history
<1>3. ASSUME NEW h \in Webs, RecordAttempt(h)
      PROVE  TypeOK'
  <2>1. Head(run[h]) \in Statement /\ Tail(run[h]) \in Seq(Statement)
    BY <1>3 DEF RecordAttempt, At, TypeOK
  <2> QED
    BY <1>3, <2>1 DEF RecordAttempt, Advance, TypeOK, Statement, history
<1>4. ASSUME NEW h \in Webs, ClearAttempts(h)
      PROVE  TypeOK'
  <2>1. Head(run[h]) \in Statement /\ Tail(run[h]) \in Seq(Statement)
    BY <1>4 DEF ClearAttempts, At, TypeOK
  <2>2. Head(run[h]).key \in Key
    BY <2>1 DEF Statement
  <2>3. attempts' \in [Key -> Attempts] /\ cleared' \in [Key -> Nat]
    BY <1>4, <2>2, NoRowType DEF ClearAttempts, TypeOK
  <2> QED
    BY <1>4, <2>1, <2>3 DEF ClearAttempts, Advance, TypeOK
<1>5. ASSUME NEW h \in Webs, Fail(h)
      PROVE  TypeOK'
  <2>1. Keys(run[h]) \subseteq Key
    BY KeysType DEF TypeOK
  <2> QED
    BY <1>5, <2>1, RateLimitAssumption DEF Fail, TypeOK
<1>6. CASE Tick
  BY <1>6, RateLimitAssumption DEF Tick, TypeOK, history
<1>7. CASE UNCHANGED vars
  BY <1>7 DEF vars, history, TypeOK
<1> QED
  BY <1>1, <1>2, <1>3, <1>4, <1>5, <1>6, <1>7, NextCases

\* The counters, the handlers under way and their history keep their types.
THEOREM TypeCorrect == Spec => []TypeOK
BY TypeInit, TypeStep, PTL DEF Spec
-----------------------------------------------------------------------------
(* Every refusal has been earned.                                          *)

\* The requests of a key are in the order they began.
InOrder ==
    \A k \in Key :
        /\ \A i \in DOMAIN tries[k] : tries[k][i].at <= now
        /\ \A i, j \in DOMAIN tries[k] : i <= j => tries[k][i].at <= tries[k][j].at

\* A count stands for that many of the key's latest requests, none of which
\* began before the count's window did.
Real(k, row) ==
    row # NoRow =>
        /\ row.count \in 1..Len(tries[k])
        /\ tries[k][Len(tries[k]) - row.count + 1].at >= row.start

\* Every count is real, the stored ones and those still to be written: what
\* is written late has only become more true.
CountsAreReal ==
    /\ \A k \in Key : Real(k, attempts[k])
    /\ \A h \in Webs : \A i \in DOMAIN run[h] : Real(run[h][i].key, run[h][i].value)

RealInv == TypeOK /\ InOrder /\ CountsAreReal

LEMMA TryAt ==
    ASSUME NEW s \in Seq(Try)
    PROVE  \A i \in DOMAIN s : s[i] \in Try /\ s[i].at \in Nat
<1>1. \A i \in DOMAIN s : s[i] \in Try
  OBVIOUS
<1> QED
  BY <1>1 DEF Try

LEMMA OrderStep ==
    ASSUME TypeOK, InOrder, [Next]_vars
    PROVE  InOrder'
<1>1. ASSUME NEW h \in Webs, NEW kind \in Kind, NEW id \in Ids(kind), NEW client \in Clients,
             NEW plan, Admit(h, kind, id, client, plan)
      PROVE  InOrder'
  <2> SUFFICES ASSUME NEW k \in Key
               PROVE  /\ \A i \in DOMAIN tries'[k] : tries'[k][i].at <= now'
                      /\ \A i, j \in DOMAIN tries'[k] : i <= j => tries'[k][i].at <= tries'[k][j].at
    BY DEF InOrder
  <2> DEFINE new == [at |-> now, kind |-> kind]
             s == tries[k]
  <2>1. now' = now /\ now \in Nat /\ s \in Seq(Try)
    BY <1>1, RateLimitAssumption DEF Admit, TypeOK
  <2>2. /\ \A i \in DOMAIN s : s[i].at <= now
        /\ \A i, j \in DOMAIN s : i <= j => s[i].at <= s[j].at
    BY DEF InOrder
  <2>3. tries'[k] = Append(s, new) \/ tries'[k] = s
    BY <1>1 DEF Admit
  <2>6. new \in Try /\ new.at = now
    BY <2>1 DEF Try
  <2>7. \A i \in DOMAIN s : s[i] \in Try /\ s[i].at \in Nat
    BY <2>1, TryAt
  <2> HIDE DEF new, s
  <2>4. CASE tries'[k] = Append(s, new)
    <3>1. /\ DOMAIN tries'[k] = 1..Len(s) + 1 /\ tries'[k][Len(s) + 1] = new
          /\ \A i \in 1..Len(s) : tries'[k][i] = s[i]
      BY <2>1, <2>4, <2>6
    <3>2. DOMAIN s = 1..Len(s) /\ Len(s) \in Nat
      BY <2>1
    <3>3. ASSUME NEW i \in DOMAIN tries'[k] PROVE tries'[k][i].at <= now'
      <4>1. CASE i \in 1..Len(s)
        BY <2>1, <2>2, <3>1, <3>2, <4>1
      <4>2. CASE i = Len(s) + 1
        BY <2>1, <2>6, <3>1, <4>2
      <4> QED
        BY <3>1, <3>2, <4>1, <4>2
    <3>4. ASSUME NEW i \in DOMAIN tries'[k], NEW j \in DOMAIN tries'[k], i <= j
          PROVE  tries'[k][i].at <= tries'[k][j].at
      <4>1. CASE j \in 1..Len(s)
        <5>1. i \in 1..Len(s)
          BY <3>1, <3>2, <3>4, <4>1
        <5> QED
          BY <2>2, <3>1, <3>2, <3>4, <4>1, <5>1
      <4>2. CASE j = Len(s) + 1
        <5>1. tries'[k][j].at = now'
          BY <2>1, <2>6, <3>1, <4>2
        <5> QED
          BY <3>3, <5>1
      <4> QED
        BY <3>1, <3>2, <4>1, <4>2
    <3> QED
      BY <3>3, <3>4
  <2>5. CASE tries'[k] = s
    BY <2>1, <2>2, <2>5
  <2> QED
    BY <2>3, <2>4, <2>5
<1>2. CASE Tick
  <2>1. tries' = tries /\ now' = now + 1 /\ now \in Nat
    BY <1>2, RateLimitAssumption DEF Tick, history, TypeOK
  <2>2. \A k \in Key : \A i \in DOMAIN tries[k] : tries[k][i].at \in Nat
    BY TryAt DEF TypeOK
  <2> QED
    BY <2>1, <2>2 DEF InOrder
<1>3. CASE UNCHANGED <<tries, now>>
  BY <1>3 DEF InOrder
<1> QED
  BY <1>1, <1>2, <1>3, NextCases
  DEF Refuse, RecordAttempt, ClearAttempts, Fail, history, vars

\* A count that was real is real after one more request.
LEMMA RealLater ==
    ASSUME TypeOK, InOrder, TypeOK', InOrder', NEW k \in Key, NEW row \in Attempts,
           Real(k, row),
           tries'[k] = tries[k] \/ \E try \in Try : tries'[k] = Append(tries[k], try)
    PROVE  Real(k, row)'
<1> DEFINE s == tries[k]
           t == tries'[k]
<1>1. s \in Seq(Try) /\ t \in Seq(Try)
  BY DEF TypeOK
<1>2. \A i, j \in DOMAIN t : i <= j => t[i].at <= t[j].at
  BY DEF InOrder
<1>3. t = s \/ \E try \in Try : t = Append(s, try)
  OBVIOUS
<1>4. row # NoRow => row.count \in 1..Len(s) /\ s[Len(s) - row.count + 1].at >= row.start
  BY DEF Real
<1> SUFFICES ASSUME row # NoRow
             PROVE  row.count \in 1..Len(t) /\ t[Len(t) - row.count + 1].at >= row.start
  BY DEF Real
<1>5. row.start \in Nat /\ row.count \in Nat
  BY DEF Attempts
<1> HIDE DEF s, t
<1>6. CASE t = s
  BY <1>4, <1>6
<1>7. ASSUME NEW try \in Try, t = Append(s, try)
      PROVE  row.count \in 1..Len(t) /\ t[Len(t) - row.count + 1].at >= row.start
  <2>1. Len(t) = Len(s) + 1 /\ \A i \in 1..Len(s) : t[i] = s[i]
    BY <1>1, <1>7
  <2> DEFINE i == Len(s) - row.count + 1
  <2>2. i \in 1..Len(s) /\ i + 1 \in 1..Len(t) /\ i \in 1..Len(t) /\ Len(t) - row.count + 1 = i + 1
    BY <1>1, <1>4, <1>5, <2>1
  <2>3. t[i].at >= row.start
    BY <1>4, <2>1, <2>2
  <2> HIDE DEF i
  <2>4. i \in DOMAIN t /\ i + 1 \in DOMAIN t
    BY <1>1, <2>2
  <2>5. t[i].at <= t[i + 1].at
    BY <1>2, <2>2, <2>4
  <2>6. t[i].at \in Nat /\ t[i + 1].at \in Nat
    BY <1>1, <2>4, TryAt
  <2> QED
    BY <1>4, <1>5, <2>1, <2>2, <2>3, <2>5, <2>6
<1> QED
  BY <1>3, <1>6, <1>7

LEMMA RealInit == Init => InOrder /\ CountsAreReal
<1> SUFFICES ASSUME Init
             PROVE  InOrder /\ CountsAreReal
  OBVIOUS
<1>1. \A k \in Key : tries[k] = <<>> /\ attempts[k] = NoRow
  BY DEF Init
<1>2. \A h \in Webs : run[h] = <<>>
  BY DEF Init
<1> QED
  BY <1>1, <1>2 DEF InOrder, CountsAreReal, Real

LEMMA RealSame ==
    ASSUME NEW k, NEW row, tries'[k] = tries[k], Real(k, row)
    PROVE  Real(k, row)'
BY DEF Real

\* What an admitted request is going to write is real once it has begun.
LEMMA RealRecord ==
    ASSUME TypeOK, InOrder, NEW k \in Key, NEW limit \in Limit, Real(k, attempts[k]),
           NEW try \in Try, try.at = now, tries'[k] = Append(tries[k], try),
           NEW row, row = Counted(limit, attempts[k], now)
    PROVE  Real(k, row)'
<1> DEFINE s == tries[k]
           t == tries'[k]
           old == attempts[k]
<1>1. s \in Seq(Try) /\ old \in Attempts /\ now \in Nat /\ try.at = now
  BY RateLimitAssumption DEF TypeOK
<1>2. old.start \in Nat /\ old.count \in Nat
  BY <1>1 DEF Attempts
<1>3. old # NoRow => old.count \in 1..Len(s) /\ s[Len(s) - old.count + 1].at >= old.start
  BY DEF Real
<1>4. t = Append(s, try)
  OBVIOUS
<1>5. IF old # NoRow /\ InWindow(limit, old, now)
      THEN row = [old EXCEPT !.count = @ + 1]
      ELSE row = [start |-> now, count |-> 1]
  BY DEF Counted, First
<1> HIDE DEF s, t, old
<1>6. /\ Len(t) = Len(s) + 1 /\ t[Len(s) + 1] = try /\ Len(s) \in Nat
      /\ \A i \in 1..Len(s) : t[i] = s[i]
  BY <1>1, <1>4
<1>7. row.count \in 1..Len(t) /\ t[Len(t) - row.count + 1].at >= row.start
  <2>1. CASE old # NoRow /\ InWindow(limit, old, now)
    <3>1. row.start = old.start /\ row.count = old.count + 1
      BY <1>1, <1>5, <2>1 DEF Attempts
    <3>2. Len(t) - row.count + 1 = Len(s) - old.count + 1 /\ Len(s) - old.count + 1 \in 1..Len(s)
      <4>1. old.count \in 1..Len(s) /\ Len(s) \in Nat /\ Len(t) = Len(s) + 1
        BY <1>3, <1>6, <2>1
      <4> QED
        BY <3>1, <4>1
    <3>3. row.count \in 1..Len(t)
      BY <1>2, <1>3, <1>6, <2>1, <3>1
    <3>4. t[Len(t) - row.count + 1] = s[Len(s) - old.count + 1]
      BY <1>6, <3>2
    <3> QED
      BY <1>3, <2>1, <3>1, <3>3, <3>4
  <2>2. CASE ~(old # NoRow /\ InWindow(limit, old, now))
    <3>1. row.start = now /\ row.count = 1
      BY <1>5, <2>2
    <3> QED
      BY <1>1, <1>6, <3>1
  <2> QED
    BY <2>1, <2>2
<1> QED
  BY <1>7 DEF Real, t

LEMMA TailElements ==
    ASSUME NEW s \in Seq(Statement), s # <<>>
    PROVE  /\ 1 \in DOMAIN s /\ Head(s) = s[1]
           /\ \A i \in DOMAIN Tail(s) : i \in Nat \ {0} /\ i + 1 \in DOMAIN s /\ Tail(s)[i] = s[i + 1]
OBVIOUS

\* Admission adds one request to the keys its plan counts on and to no other.
LEMMA AdmitTries ==
    ASSUME TypeOK, NEW h \in Webs, NEW kind \in Kind, NEW id, NEW client, NEW plan,
           Admit(h, kind, id, client, plan)
    PROVE  \E try \in Try :
             /\ try.at = now /\ try.kind = kind
             /\ \A k \in Key : tries'[k] = IF Counts(plan, k) THEN Append(tries[k], try)
                                                               ELSE tries[k]
<1>1. now \in Nat
  BY RateLimitAssumption DEF TypeOK
<1>2. [at |-> now, kind |-> kind] \in Try
  BY <1>1 DEF Try
<1>3. \A k \in Key : tries'[k] = IF Counts(plan, k) THEN Append(tries[k], [at |-> now, kind |-> kind])
                                                    ELSE tries[k]
  BY DEF Admit
<1> QED
  BY <1>2, <1>3

LEMMA RealStep ==
    ASSUME TypeOK, InOrder, CountsAreReal, [Next]_vars, TypeOK', InOrder'
    PROVE  CountsAreReal'
<1>1. ASSUME NEW h \in Webs, NEW kind \in Kind, NEW id \in Ids(kind), NEW client \in Clients,
             NEW plan, PlanFor(kind, id, client, plan), Admit(h, kind, id, client, plan)
      PROVE  CountsAreReal'
  <2>1. PICK try \in Try :
          /\ try.at = now
          /\ \A k \in Key : tries'[k] = IF Counts(plan, k) THEN Append(tries[k], try)
                                                            ELSE tries[k]
    BY <1>1, AdmitTries
  <2>2. ASSUME NEW k \in Key, NEW row \in Attempts, Real(k, row)
        PROVE  Real(k, row)'
    <3>1. tries'[k] = tries[k] \/ \E t \in Try : tries'[k] = Append(tries[k], t)
      BY <2>1
    <3> QED
      BY <2>2, <3>1, RealLater
  <2>3. ASSUME NEW k \in Key
        PROVE  Real(k, attempts[k])'
    <3>1. PICK row \in Attempts : row = attempts[k]
      BY DEF TypeOK
    <3>2. Real(k, row)'
      BY <2>2, <3>1 DEF CountsAreReal
    <3>3. attempts'[k] = row
      BY <1>1, <3>1 DEF Admit
    <3> QED
      BY <3>2, <3>3 DEF Real
  <2>4. ASSUME NEW i \in DOMAIN plan
        PROVE  Real(plan[i].key, plan[i].value)'
    <3>1. plan[i] \in Statement
      BY <1>1 DEF PlanFor
    <3>2. plan[i].key \in Key
      BY <3>1 DEF Statement
    <3>3. CASE \E limit \in Limit : \E key \in Key : plan[i] = Record(key, limit)
      <4>1. PICK limit \in Limit, key \in Key : plan[i] = Record(key, limit)
        BY <3>3
      <4>2. /\ plan[i].do = "record" /\ plan[i].key = key
            /\ plan[i].value = Counted(limit, attempts[key], now)
        BY <4>1, RecordType
      <4>3. Counts(plan, key)
        BY <4>2 DEF Counts
      <4>4. tries'[key] = Append(tries[key], try)
        BY <2>1, <4>3
      <4>5. Real(key, attempts[key])
        BY DEF CountsAreReal
      <4>6. PICK row : row = plan[i].value
        OBVIOUS
      <4>7. Real(key, row)'
        BY <2>1, <4>2, <4>4, <4>5, <4>6, RealRecord
      <4> QED
        BY <4>2, <4>6, <4>7
    <3>4. CASE \E key \in Key : plan[i] = Clear(key)
      <4>1. plan[i].value = NoRow
        BY <3>4, ClearType
      <4> QED
        BY <4>1 DEF Real
    <3> QED
      BY <1>1, <3>3, <3>4, BucketType DEF PlanFor
  <2>5. ASSUME NEW g \in Webs, NEW i \in DOMAIN run'[g]
        PROVE  Real(run[g][i].key, run[g][i].value)'
    <3>1. CASE g = h
      <4>1. run'[g] = plan
        BY <1>1, <3>1 DEF Admit, TypeOK
      <4> QED
        BY <2>4, <2>5, <4>1 DEF Real
    <3>2. CASE g # h
      <4>1. run'[g] = run[g]
        BY <1>1, <3>2 DEF Admit, TypeOK
      <4>2. run[g][i] \in Statement
        BY <2>5, <4>1 DEF TypeOK
      <4>3. PICK k \in Key, row \in Attempts : k = run[g][i].key /\ row = run[g][i].value
        BY <4>2 DEF Statement
      <4>4. Real(k, row)
        BY <2>5, <4>1, <4>3 DEF CountsAreReal
      <4>5. Real(k, row)'
        BY <2>2, <4>4
      <4> QED
        BY <4>1, <4>3, <4>5 DEF Real
    <3> QED
      BY <3>1, <3>2
  <2> QED
    BY <2>3, <2>5 DEF CountsAreReal
<1>2. ASSUME UNCHANGED <<attempts, run, tries>>
      PROVE  CountsAreReal'
  BY <1>2 DEF CountsAreReal, Real
<1>3. ASSUME NEW h \in Webs, RecordAttempt(h) \/ ClearAttempts(h) \/ Fail(h)
      PROVE  CountsAreReal'
  <2>1. tries' = tries /\ run[h] # <<>> /\ run[h] \in Seq(Statement)
    BY <1>3 DEF RecordAttempt, ClearAttempts, Fail, At, history, TypeOK
  <2>2. /\ 1 \in DOMAIN run[h] /\ Head(run[h]) = run[h][1]
        /\ \A i \in DOMAIN Tail(run[h]) : i + 1 \in DOMAIN run[h] /\ Tail(run[h])[i] = run[h][i + 1]
    BY <2>1, TailElements
  <2>3. ASSUME NEW g \in Webs, NEW i \in DOMAIN run'[g]
        PROVE  \E j \in DOMAIN run[g] : run'[g][i] = run[g][j]
    <3>1. CASE g # h
      BY <1>3, <2>3, <3>1 DEF RecordAttempt, ClearAttempts, Fail, Advance, TypeOK
    <3>2. CASE g = h /\ Fail(h)
      <4>1. run'[g] = <<>>
        BY <3>2 DEF Fail, TypeOK
      <4> QED
        BY <2>3, <4>1
    <3>3. CASE g = h /\ ~Fail(h)
      <4>1. run'[g] = Tail(run[h])
        BY <1>3, <3>3 DEF RecordAttempt, ClearAttempts, Advance, TypeOK
      <4> QED
        BY <2>2, <2>3, <3>3, <4>1
    <3> QED
      BY <3>1, <3>2, <3>3
  <2>4. ASSUME NEW k \in Key
        PROVE  \/ attempts'[k] = attempts[k]
               \/ attempts'[k] = NoRow
               \/ k = run[h][1].key /\ attempts'[k] = run[h][1].value
    <3>1. CASE RecordAttempt(h)
      BY <2>2, <3>1 DEF RecordAttempt, TypeOK
    <3>2. CASE ClearAttempts(h)
      BY <2>2, <3>2 DEF ClearAttempts, TypeOK
    <3>3. CASE Fail(h)
      BY <3>3 DEF Fail
    <3> QED
      BY <1>3, <3>1, <3>2, <3>3
  <2>5. \A k \in Key : Real(k, attempts'[k])
    BY <2>2, <2>4 DEF CountsAreReal, Real
  <2>6. \A g \in Webs : \A i \in DOMAIN run'[g] : Real(run'[g][i].key, run'[g][i].value)
    BY <2>3 DEF CountsAreReal
  <2> QED
    BY <2>1, <2>5, <2>6 DEF CountsAreReal, Real
<1> QED
  BY <1>1, <1>2, <1>3, NextCases DEF Refuse, Tick, history, vars

LEMMA RealRefusals ==
    ASSUME TypeOK, InOrder, CountsAreReal
    PROVE  RefusalsAreCounted
<1> SUFFICES ASSUME NEW kind \in Kind, NEW id \in Ids(kind), NEW client \in Clients,
                    NEW b \in Refusing(kind, id, client)
             PROVE  LET s == tries[b.key]
                        first == Len(s) - b.limit.max + 1
                    IN  first >= 1 /\ now - s[first].at < b.limit.window
  BY DEF RefusalsAreCounted
<1> DEFINE k == b.key
           s == tries[k]
           row == attempts[k]
           n == Len(s)
<1>1. k \in Key /\ b.limit \in Limit /\ Denies(b.limit, row, now)
  BY BucketType DEF Refusing
<1>2. b.limit.max \in Nat \ {0} /\ b.limit.window \in Nat
  BY <1>1 DEF Limit
<1>3. s \in Seq(Try) /\ row \in Attempts /\ now \in Nat
  BY <1>1, RateLimitAssumption DEF TypeOK
<1>4. /\ row.count \in 1..n /\ s[n - row.count + 1].at >= row.start
      /\ now - row.start < b.limit.window /\ row.count >= b.limit.max
  BY <1>1 DEF Denies, InWindow, CountsAreReal, Real
<1>5. row.start \in Nat /\ row.count \in Nat /\ n \in Nat
  BY <1>3 DEF Attempts
<1>6. \A i, j \in DOMAIN s : i <= j => s[i].at <= s[j].at
  BY <1>1 DEF InOrder
<1>7. \A i \in DOMAIN s : s[i].at \in Nat
  BY <1>3, TryAt
<1>8. DOMAIN s = 1..n
  BY <1>3
<1> DEFINE i == n - row.count + 1
           j == n - b.limit.max + 1
<1>9. i \in 1..n /\ j \in 1..n /\ i <= j
  <2> HIDE DEF s, n, row
  <2> QED
    BY <1>2, <1>4, <1>5
<1>10. s[j].at >= row.start /\ s[j].at \in Nat
  <2> HIDE DEF s, n, i, j
  <2>1. s[i].at <= s[j].at /\ s[i].at \in Nat /\ s[j].at \in Nat
    BY <1>6, <1>7, <1>8, <1>9
  <2>2. s[i].at >= row.start
    BY <1>4 DEF i
  <2> HIDE DEF row
  <2> QED
    BY <1>5, <2>1, <2>2
<1>11. j >= 1 /\ now - s[j].at < b.limit.window
  <2> HIDE DEF s, n, row, j
  <2> QED
    BY <1>2, <1>3, <1>4, <1>5, <1>9, <1>10
<1> QED
  BY <1>11

\* Every refusal has been earned on the counter that refuses, however the
\* writes of requests at once overwrite each other, and whichever kinds of
\* request share a row: what is written late is a count of requests that were real
\* when it was computed, and requests only become more.
THEOREM RefusalsEarned == Spec => []RefusalsAreCounted
<1>1. Init => RealInv
  BY TypeInit, RealInit DEF RealInv
<1>2. RealInv /\ [Next]_vars => RealInv'
  BY TypeStep, OrderStep, RealStep DEF RealInv
<1>3. RealInv => RefusalsAreCounted
  BY RealRefusals DEF RealInv
<1> QED
  BY <1>1, <1>2, <1>3, PTL DEF Spec
-----------------------------------------------------------------------------
(* The wait.                                                               *)

\* Division that rounds up.
LEMMA Ceiling ==
    ASSUME NEW x \in Nat \ {0}, NEW s \in Nat \ {0}, NEW q, q = (x + s - 1) \div s
    PROVE  q \in Nat \ {0} /\ q * s \in Nat /\ q * s >= x /\ (q - 1) * s \in Nat /\ (q - 1) * s < x
<1> DEFINE y == x + s - 1
<1>1. y \in Nat /\ y >= s
  OBVIOUS
<1>2. q \in Int /\ q * s <= y /\ y < q * s + s
  BY <1>1
<1>3. q >= 1
  <2> SUFFICES ASSUME q <= 0
               PROVE  FALSE
    BY <1>2
  <2>1. q * s <= 0
    BY <1>2
  <2> HIDE DEF y
  <2> QED
    BY <1>1, <1>2, <2>1
<1>4. (q - 1) * s = q * s - s
  BY <1>2
<1>5. q * s \in Int /\ (q - 1) * s >= 0
  BY <1>2, <1>3
<1> QED
  BY <1>2, <1>3, <1>4, <1>5

LEMMA Multiple ==
    ASSUME NEW p \in Nat, NEW q \in Nat, NEW s \in Nat, p >= q
    PROVE  p * s >= q * s
OBVIOUS

LEMMA WaitExact ==
    ASSUME TypeOK
    PROVE  WaitIsExact
<1> SUFFICES ASSUME NEW kind \in Kind, NEW id \in Ids(kind), NEW client \in Clients,
                    Refusing(kind, id, client) # {}
             PROVE  LET wait == Wait(kind, id, client)
                        Refused(at) == \E b \in Buckets(kind, id, client) :
                                           Denies(b.limit, attempts[b.key], at)
                    IN  /\ wait >= 1
                        /\ ~Refused(now + wait * Second)
                        /\ Refused(now + (wait - 1) * Second)
  BY DEF WaitIsExact
<1> DEFINE R == Refusing(kind, id, client)
           B == Buckets(kind, id, client)
           W(b) == RetryAfter(b.limit, attempts[b.key], now)
           X(b) == attempts[b.key].start + b.limit.window - now
           wait == Wait(kind, id, client)
<1>1. Second \in Nat \ {0} /\ now \in Nat
  BY RateLimitAssumption DEF TypeOK
<1>2. ASSUME NEW b \in B
      PROVE  /\ b.key \in Key /\ b.limit \in Limit /\ attempts[b.key] \in Attempts
             /\ b.limit.window \in Nat /\ b.limit.max \in Nat
             /\ attempts[b.key].start \in Nat /\ attempts[b.key].count \in Nat
  <2>1. b.key \in Key /\ b.limit \in Limit
    BY BucketType
  <2>2. attempts[b.key] \in Attempts
    BY <2>1 DEF TypeOK
  <2> QED
    BY <2>1, <2>2 DEF Limit, Attempts
<1>3. ASSUME NEW b
      PROVE  b \in R <=> b \in B /\ Denies(b.limit, attempts[b.key], now)
  BY DEF Refusing
<1>4. ASSUME NEW b \in R
      PROVE  /\ W(b) \in Nat \ {0} /\ W(b) * Second \in Nat /\ W(b) * Second >= X(b)
             /\ (W(b) - 1) * Second \in Nat /\ (W(b) - 1) * Second < X(b)
  <2>1. X(b) \in Nat \ {0}
    BY <1>1, <1>2, <1>3 DEF Denies, InWindow
  <2>2. PICK x \in Nat \ {0} : x = X(b)
    BY <2>1
  <2>3. PICK s \in Nat \ {0} : s = Second
    BY <1>1
  <2>4. PICK q : q = (x + s - 1) \div s
    OBVIOUS
  <2>5. W(b) = q
    BY <2>2, <2>3, <2>4 DEF RetryAfter
  <2> HIDE DEF W, X
  <2> QED
    BY <2>2, <2>3, <2>4, <2>5, Ceiling
<1>5. \E m \in R : \A b \in R : W(m) >= W(b)
  <2> DEFINE b1 == [key |-> id, limit |-> LimitOn(id, kind)]
             b2 == [key |-> ClientKey(client), limit |-> LimitOn(ClientKey(client), kind)]
  <2>1. \A b \in R : b = b1 \/ b = b2
    BY <1>3, BucketType
  <2>2. \A b \in R : W(b) \in Int
    BY <1>4
  <2>3. R # {}
    OBVIOUS
  <2> HIDE DEF R, W, b1, b2
  <2>4. CASE b1 \in R /\ b2 \in R
    BY <2>1, <2>2, <2>4
  <2>5. CASE ~(b1 \in R /\ b2 \in R)
    BY <2>1, <2>2, <2>3, <2>5
  <2> QED
    BY <2>4, <2>5
<1>6. PICK m \in R : wait = W(m) /\ \A b \in R : wait >= W(b)
  <2>1. wait = CHOOSE w \in {W(b) : b \in R} : \A b \in R : w >= W(b)
    BY DEF Wait
  <2> HIDE DEF R, W, wait
  <2>2. \E w \in {W(b) : b \in R} : \A b \in R : w >= W(b)
    BY <1>5
  <2>3. wait \in {W(b) : b \in R} /\ \A b \in R : wait >= W(b)
    BY <2>1, <2>2
  <2> QED
    BY <2>3
<1>7. wait \in Nat \ {0}
  BY <1>4, <1>6
<1>8. ASSUME NEW b \in B
      PROVE  ~Denies(b.limit, attempts[b.key], now + wait * Second)
  <2>1. CASE b \in R
    <3>1. wait * Second >= W(b) * Second
      <4> HIDE DEF W, wait, R
      <4>1. W(b) \in Nat /\ wait \in Nat /\ wait >= W(b)
        BY <1>4, <1>6, <1>7, <2>1
      <4> QED
        BY <1>1, <4>1, Multiple
    <3>2. wait * Second \in Nat /\ W(b) * Second \in Nat /\ W(b) * Second >= X(b)
      BY <1>1, <1>4, <1>7, <2>1
    <3>3. wait * Second >= attempts[b.key].start + b.limit.window - now
      <4> HIDE DEF W, wait
      <4> QED
        BY <1>1, <1>2, <3>1, <3>2
    <3> HIDE DEF wait
    <3> QED
      BY <1>1, <1>2, <3>2, <3>3 DEF Denies, InWindow
  <2>2. CASE b \notin R
    <3>1. ~Denies(b.limit, attempts[b.key], now)
      BY <1>3, <2>2
    <3>2. wait * Second \in Nat
      <4> HIDE DEF wait
      <4> QED
        BY <1>1, <1>7
    <3> HIDE DEF wait
    <3> QED
      BY <1>1, <1>2, <3>1, <3>2 DEF Denies, InWindow
  <2> QED
    BY <2>1, <2>2
<1>9. m \in B /\ Denies(m.limit, attempts[m.key], now + (wait - 1) * Second)
  <2>1. m \in B /\ Denies(m.limit, attempts[m.key], now)
    BY <1>3, <1>6
  <2>2. (wait - 1) * Second \in Nat /\ (wait - 1) * Second < X(m)
    <3> HIDE DEF W, wait, X
    <3> QED
      BY <1>4, <1>6
  <2> HIDE DEF wait
  <2> QED
    BY <1>1, <1>2, <2>1, <2>2 DEF Denies, InWindow
<1> QED
  BY <1>7, <1>8, <1>9

\* The wait a refused visitor is told is the wait, to the second, whatever the
\* limits and however long a second is.
THEOREM WaitsExact == Spec => []WaitIsExact
BY TypeCorrect, WaitExact, PTL
-----------------------------------------------------------------------------
(* One request at a time is held to the limit.                             *)

\* max is at least, and window at most, what every request counted on the row
\* went by.
Covers(k, max, window) ==
    \A i \in DOMAIN tries[k] :
        /\ LimitOn(k, tries[k][i].kind).max <= max
        /\ LimitOn(k, tries[k][i].kind).window >= window

\* The last count.  row is what a key's counter says, or is about to say, of
\* the requests since the key was last cleared: the latest of them are its
\* count, from the one that opened its window, and all but max of the earlier
\* ones were over before that window opened.
Fits(k, max, window, row) ==
    LET s == tries[k]
    IN  /\ row.count <= max
        /\ cleared[k] + row.count <= Len(s)
        /\ row = NoRow => Len(s) = cleared[k]
        /\ row # NoRow => row.count >= 1 /\ s[Len(s) - row.count + 1].at = row.start
        /\ \A i \in DOMAIN s : cleared[k] < i /\ i + row.count + max <= Len(s) =>
             s[i].at + window <= row.start

\* OneAtATimeIsHeld of one key.
Held(k, max, window) ==
    LET s == tries[k]
    IN  \A i \in DOMAIN s : cleared[k] < i /\ i + 2 * max <= Len(s) =>
          s[i + 2 * max].at - s[i].at >= window

Holds(h, k) == \E i \in DOMAIN run[h] : run[h][i].key = k

\* A handler makes one statement about a key at most, and a key that was never
\* raced for is held by one handler at most: its counter fits while nobody
\* holds it, and what the one who does is going to write will.
OneByOne ==
    /\ \A k \in Key : cleared[k] <= Len(tries[k])
    /\ \A h \in Webs : \A i, j \in DOMAIN run[h] : run[h][i].key = run[h][j].key => i = j
    /\ \A k \in Key \ raced : \A g, h \in Webs : Holds(g, k) /\ Holds(h, k) => g = h
    /\ \A k \in Key \ raced : \A max, window \in Nat : Covers(k, max, window) =>
         /\ (\A h \in Webs : ~Holds(h, k)) => Fits(k, max, window, attempts[k])
         /\ \A h \in Webs : \A i \in DOMAIN run[h] :
              run[h][i].key = k /\ run[h][i].do = "record" => Fits(k, max, window, run[h][i].value)
         /\ Held(k, max, window)

LEMMA HeldInit == Init => OneByOne
<1> SUFFICES ASSUME Init
             PROVE  OneByOne
  OBVIOUS
<1>1. \A k \in Key : tries[k] = <<>> /\ attempts[k] = NoRow /\ cleared[k] = 0
  BY DEF Init
<1>2. \A h \in Webs : run[h] = <<>>
  BY DEF Init
<1>3. NoRow.count = 0
  BY DEF NoRow
<1>4. ASSUME NEW k \in Key, NEW max \in Nat, NEW window \in Nat
      PROVE  Fits(k, max, window, NoRow) /\ Held(k, max, window)
  BY <1>1, <1>3 DEF Fits, Held
<1>5. \A h \in Webs, k \in Key : ~Holds(h, k)
  BY <1>2 DEF Holds
<1> QED
  BY <1>1, <1>2, <1>4, <1>5 DEF OneByOne

\* What a request that is not refused counts fits, and it comes late enough.
LEMMA FitsCounted ==
    ASSUME TypeOK, InOrder, NEW k \in Key, NEW max \in Nat, NEW window \in Nat,
           Fits(k, max, window, attempts[k]), Held(k, max, window),
           NEW limit \in Limit, limit.max <= max, limit.window >= window,
           ~Denies(limit, attempts[k], now),
           NEW try \in Try, try.at = now, tries'[k] = Append(tries[k], try),
           cleared'[k] = cleared[k], cleared[k] <= Len(tries[k]),
           NEW row, row = Counted(limit, attempts[k], now)
    PROVE  Fits(k, max, window, row)' /\ Held(k, max, window)'
<1> DEFINE s == tries[k]
           t == tries'[k]
           c == cleared[k]
           n == Len(s)
           old == attempts[k]
<1>2. /\ s \in Seq(Try) /\ old \in Attempts /\ now \in Nat /\ try.at = now
      /\ c \in Nat /\ c <= n /\ t = Append(s, try) /\ cleared'[k] = c
  BY RateLimitAssumption DEF TypeOK
<1>3. /\ old.start \in Nat /\ old.count \in Nat /\ max \in Nat \ {0}
      /\ limit.max \in Nat /\ limit.window \in Nat
  BY <1>2 DEF Attempts, Limit
<1>4. /\ \A i \in DOMAIN s : s[i].at \in Nat /\ s[i].at <= now
      /\ \A i, j \in DOMAIN s : i <= j => s[i].at <= s[j].at
  BY <1>2, TryAt DEF InOrder
<1>5. /\ old.count <= max
      /\ c + old.count <= n
      /\ old = NoRow => n = c
      /\ old # NoRow => old.count >= 1 /\ s[n - old.count + 1].at = old.start
      /\ \A i \in DOMAIN s : c < i /\ i + old.count + max <= n => s[i].at + window <= old.start
  BY DEF Fits
<1>6. \A i \in DOMAIN s : c < i /\ i + 2 * max <= n => s[i + 2 * max].at - s[i].at >= window
  BY DEF Held
<1>7. old = NoRow \/ now - old.start >= limit.window \/ old.count < limit.max
  BY <1>2, <1>3 DEF Denies, InWindow
<1>8. \/ /\ old # NoRow /\ now - old.start < limit.window
         /\ row.start = old.start /\ row.count = old.count + 1 /\ row # NoRow
      \/ /\ old = NoRow \/ now - old.start >= limit.window
         /\ row.start = now /\ row.count = 1 /\ row # NoRow
  <2>1. CASE old # NoRow /\ now - old.start < limit.window
    <3>1. row = [start |-> old.start, count |-> old.count + 1]
      BY <1>2, <2>1 DEF Counted, InWindow, Attempts
    <3> QED
      BY <1>3, <2>1, <3>1 DEF NoRow
  <2>2. CASE ~(old # NoRow /\ now - old.start < limit.window)
    <3>1. row = [start |-> now, count |-> 1]
      BY <2>2 DEF Counted, InWindow, First
    <3> QED
      BY <1>2, <1>3, <2>2, <3>1 DEF NoRow
  <2> QED
    BY <2>1, <2>2
<1> SUFFICES /\ row.count <= max
             /\ c + row.count <= Len(t)
             /\ row # NoRow
             /\ row.count >= 1 /\ t[Len(t) - row.count + 1].at = row.start
             /\ \A i \in DOMAIN t : c < i /\ i + row.count + max <= Len(t) =>
                  t[i].at + window <= row.start
             /\ \A i \in DOMAIN t : c < i /\ i + 2 * max <= Len(t) =>
                  t[i + 2 * max].at - t[i].at >= window
  BY <1>2 DEF Fits, Held
<1>9. /\ n \in Nat /\ Len(t) = n + 1 /\ DOMAIN s = 1..n /\ DOMAIN t = 1..(n + 1)
      /\ t[n + 1] = try /\ \A i \in 1..n : t[i] = s[i]
  BY <1>2
<1> HIDE DEF s, t, c, n, old
<1>10. CASE /\ old # NoRow /\ now - old.start < limit.window
            /\ row.start = old.start /\ row.count = old.count + 1 /\ row # NoRow
  <2>5. old.count >= 1 /\ c + old.count <= n
    BY <1>5, <1>10
  <2>6. old.count < max
    BY <1>2, <1>3, <1>7, <1>10
  <2>7. row.start = old.start /\ row.count = old.count + 1 /\ row # NoRow
    BY <1>10
  <2>1. row.count <= max /\ c + row.count <= n + 1 /\ row.count >= 1
    BY <1>2, <1>3, <1>9, <2>5, <2>6, <2>7
  <2>2. t[(n + 1) - row.count + 1].at = row.start
    <3>1. n - old.count + 1 \in 1..n /\ (n + 1) - row.count + 1 = n - old.count + 1
      <4>1. n \in Nat /\ c \in Nat /\ old.count \in Nat
        BY <1>2, <1>3, <1>9
      <4>2. row.count = old.count + 1
        BY <2>7
      <4>3. n - old.count + 1 <= n
        BY <2>5, <4>1
      <4>4. n - old.count + 1 >= 1
        BY <2>5, <4>1
      <4>5. (n + 1) - row.count + 1 = n - old.count + 1
        BY <4>1, <4>2
      <4> QED
        BY <4>1, <4>3, <4>4, <4>5
    <3> QED
      BY <1>5, <1>9, <1>10, <3>1
  <2>3. ASSUME NEW i \in 1..(n + 1), c < i, i + row.count + max <= n + 1
        PROVE  t[i].at + window <= row.start
    <3>1. i \in 1..n /\ i + old.count + max <= n
      BY <1>3, <1>9, <1>10, <2>3
    <3> QED
      BY <1>5, <1>9, <1>10, <2>3, <3>1
  <2>4. ASSUME NEW i \in 1..(n + 1), c < i, i + 2 * max <= n + 1
        PROVE  t[i + 2 * max].at - t[i].at >= window
    <3>1. i \in 1..n /\ i + old.count + max <= n
      BY <1>3, <1>9, <2>4, <2>6
    <3>2. t[i] = s[i] /\ s[i].at + window <= old.start /\ s[i].at \in Nat
      BY <1>4, <1>5, <1>9, <2>4, <3>1
    <3>3. CASE i + 2 * max <= n
      <4>1. i + 2 * max \in 1..n
        BY <1>3, <1>9, <3>1, <3>3
      <4> QED
        BY <1>6, <1>9, <2>4, <3>1, <3>3, <4>1
    <3>4. CASE i + 2 * max = n + 1
      <4>1. old.start <= now
        <5>1. n - old.count + 1 \in 1..n
          <6>1. n \in Nat /\ c \in Nat /\ old.count \in Nat
            BY <1>2, <1>3, <1>9
          <6> QED
            BY <2>5, <6>1
        <5> QED
          BY <1>4, <1>5, <1>9, <1>10, <5>1
      <4>2. t[i + 2 * max].at = now
        BY <1>2, <1>9, <3>4
      <4> QED
        BY <1>2, <1>3, <3>2, <4>1, <4>2
    <3> QED
      BY <1>3, <1>9, <2>4, <3>3, <3>4
  <2> QED
    <3>1. Len(t) = n + 1 /\ DOMAIN t = 1..(n + 1)
      BY <1>9
    <3>2. row # NoRow
      BY <2>7
    <3>3. \A i \in DOMAIN t : c < i /\ i + row.count + max <= Len(t) =>
             t[i].at + window <= row.start
      BY <2>3, <3>1
    <3>4. \A i \in DOMAIN t : c < i /\ i + 2 * max <= Len(t) =>
             t[i + 2 * max].at - t[i].at >= window
      BY <2>4, <3>1
    <3>5. t[Len(t) - row.count + 1].at = row.start
      BY <1>9, <2>2
    <3>6. row.count <= max /\ c + row.count <= Len(t) /\ row.count >= 1
      BY <2>1, <3>1
    <3> QED
      BY <3>2, <3>3, <3>4, <3>5, <3>6
<1>11. CASE /\ old = NoRow \/ now - old.start >= limit.window
            /\ row.start = now /\ row.count = 1 /\ row # NoRow
  <2>1. row.count <= max /\ c + row.count <= n + 1 /\ row.count >= 1
    BY <1>2, <1>3, <1>9, <1>11
  <2>2. t[(n + 1) - row.count + 1].at = row.start
    BY <1>2, <1>9, <1>11
  <2>3. ASSUME NEW i \in 1..n, c < i, i + max <= n
        PROVE  s[i].at + window <= now
    <3>1. old # NoRow
      BY <1>2, <1>3, <1>5, <1>9, <2>3
    <3>2. i <= n - old.count + 1 /\ n - old.count + 1 \in 1..n
      BY <1>2, <1>3, <1>5, <1>9, <2>3, <3>1
    <3>3. s[i].at <= old.start /\ s[i].at \in Nat
      BY <1>4, <1>5, <1>9, <3>1, <3>2
    <3>4. now - old.start >= window
      <4>1. now - old.start >= limit.window /\ now \in Nat
        BY <1>2, <1>11, <3>1
      <4> QED
        BY <1>3, <4>1
    <3> QED
      BY <1>2, <1>3, <3>3, <3>4
  <2>4. ASSUME NEW i \in 1..(n + 1), c < i, i + row.count + max <= n + 1
        PROVE  t[i].at + window <= row.start
    <3>1. i \in 1..n /\ i + max <= n
      BY <1>3, <1>9, <1>11, <2>4
    <3> QED
      BY <1>9, <1>11, <2>3, <2>4, <3>1
  <2>5. ASSUME NEW i \in 1..(n + 1), c < i, i + 2 * max <= n + 1
        PROVE  t[i + 2 * max].at - t[i].at >= window
    <3>1. i \in 1..n /\ i + max <= n
      BY <1>3, <1>9, <2>5
    <3>2. t[i] = s[i] /\ s[i].at + window <= now /\ s[i].at \in Nat
      BY <1>4, <1>9, <2>3, <2>5, <3>1
    <3>3. CASE i + 2 * max <= n
      <4>1. i + 2 * max \in 1..n
        BY <1>3, <1>9, <3>1, <3>3
      <4> QED
        BY <1>6, <1>9, <2>5, <3>1, <3>3, <4>1
    <3>4. CASE i + 2 * max = n + 1
      <4>1. t[i + 2 * max].at = now
        BY <1>2, <1>9, <3>4
      <4> QED
        BY <1>2, <1>3, <3>2, <4>1
    <3> QED
      BY <1>3, <1>9, <2>5, <3>3, <3>4
  <2> QED
    BY <1>9, <1>11, <2>1, <2>2, <2>4, <2>5
<1> QED
  BY <1>8, <1>10, <1>11

LEMMA FitsSame ==
    ASSUME NEW k, NEW max, NEW window, NEW row,
           tries'[k] = tries[k], cleared'[k] = cleared[k]
    PROVE  /\ Fits(k, max, window, row) => Fits(k, max, window, row)'
           /\ Held(k, max, window) => Held(k, max, window)'
BY DEF Fits, Held

\* A key that has just been cleared has nothing to be counted.
LEMMA FitsCleared ==
    ASSUME TypeOK, NEW k \in Key, NEW max \in Nat, NEW window \in Nat,
           tries'[k] = tries[k], cleared'[k] = Len(tries[k])
    PROVE  Fits(k, max, window, NoRow)' /\ Held(k, max, window)'
<1> DEFINE s == tries[k]
<1>1. s \in Seq(Try)
  BY DEF TypeOK
<1>2. NoRow.count = 0
  BY DEF NoRow
<1>3. Len(s) \in Nat /\ DOMAIN s = 1..Len(s) /\ tries'[k] = s /\ cleared'[k] = Len(s)
  BY <1>1
<1> HIDE DEF s
<1> QED
  BY <1>2, <1>3 DEF Fits, Held

\* What covers a row after one more request covered it before, and covers the
\* limit that request went by.
LEMMA CoversLess ==
    ASSUME NEW k, NEW max, NEW window, tries[k] \in Seq(Try),
           NEW try \in Try, tries'[k] = tries[k] \/ tries'[k] = Append(tries[k], try),
           Covers(k, max, window)'
    PROVE  /\ Covers(k, max, window)
           /\ tries'[k] = Append(tries[k], try) =>
                LimitOn(k, try.kind).max <= max /\ LimitOn(k, try.kind).window >= window
<1>1. \A i \in DOMAIN tries'[k] :
        /\ LimitOn(k, tries'[k][i].kind).max <= max
        /\ LimitOn(k, tries'[k][i].kind).window >= window
  BY DEF Covers, LimitOn
<1> DEFINE s == tries[k]
           t == tries'[k]
<1>2. CASE t = s
  <2>1. ASSUME t = Append(s, try)
        PROVE  FALSE
    <3>1. Len(Append(s, try)) = Len(s) + 1 /\ Len(s) \in Nat
      OBVIOUS
    <3> QED
      BY <1>2, <2>1, <3>1
  <2> QED
    BY <1>1, <1>2, <2>1 DEF Covers
<1>3. CASE t = Append(s, try)
  <2>1. /\ Len(s) + 1 \in DOMAIN t /\ t[Len(s) + 1] = try
        /\ \A i \in DOMAIN s : i \in DOMAIN t /\ t[i] = s[i]
    BY <1>3
  <2> HIDE DEF s, t
  <2>2. LimitOn(k, try.kind).max <= max /\ LimitOn(k, try.kind).window >= window
    BY <1>1, <2>1 DEF t
  <2>3. \A i \in DOMAIN s : /\ LimitOn(k, s[i].kind).max <= max
                            /\ LimitOn(k, s[i].kind).window >= window
    BY <1>1, <2>1 DEF t
  <2> QED
    BY <2>2, <2>3 DEF Covers, s
<1> QED
  BY <1>2, <1>3

LEMMA HeldAdmit ==
    ASSUME TypeOK, InOrder, OneByOne, TypeOK',
           NEW h \in Webs, NEW kind \in Kind, NEW id \in Ids(kind), NEW client \in Clients,
           NEW plan, PlanFor(kind, id, client, plan), Admit(h, kind, id, client, plan)
    PROVE  OneByOne'
<1>1. PICK try \in Try :
        /\ try.at = now /\ try.kind = kind
        /\ \A k \in Key : tries'[k] = IF Counts(plan, k) THEN Append(tries[k], try)
                                                          ELSE tries[k]
  BY AdmitTries
<1>2. cleared' = cleared /\ attempts' = attempts /\ run[h] = <<>>
  BY DEF Admit
<1>3. run' = [run EXCEPT ![h] = plan] /\ run'[h] = plan /\ \A g \in Webs \ {h} : run'[g] = run[g]
  BY DEF Admit, TypeOK
<1>4. \A k \in Key \ raced' : k \notin raced /\ (k \in Keys(plan) => \A g \in Webs : ~Holds(g, k))
  BY <1>2 DEF Admit, Keys, Holds
<1>5. \A k : ~Holds(h, k)
  BY <1>2 DEF Holds
<1>6. \A k : Holds(h, k)' <=> k \in Keys(plan)
  BY <1>3 DEF Holds, Keys
<1>7. \A k : \A g \in Webs \ {h} : Holds(g, k)' <=> Holds(g, k)
  BY <1>3 DEF Holds
<1>8. \A k \in Key : cleared'[k] <= Len(tries'[k])
  <2> SUFFICES ASSUME NEW k \in Key
               PROVE  cleared'[k] <= Len(tries'[k])
    OBVIOUS
  <2>1. cleared[k] \in Nat /\ tries[k] \in Seq(Try) /\ cleared[k] <= Len(tries[k])
    BY DEF OneByOne, TypeOK
  <2>2. tries'[k] = Append(tries[k], try) \/ tries'[k] = tries[k]
    BY <1>1
  <2> QED
    BY <1>2, <2>1, <2>2
<1>9. \A g \in Webs : \A i, j \in DOMAIN run'[g] : run'[g][i].key = run'[g][j].key => i = j
  BY <1>3 DEF OneByOne, PlanFor
<1>10. \A k \in Key \ raced' : \A f, g \in Webs : Holds(f, k)' /\ Holds(g, k)' => f = g
  BY <1>4, <1>5, <1>6, <1>7 DEF OneByOne
<1>11. ASSUME NEW k \in Key \ raced', NEW max \in Nat, NEW window \in Nat, Covers(k, max, window)'
       PROVE  /\ (\A g \in Webs : ~Holds(g, k)') => Fits(k, max, window, attempts[k])'
              /\ \A g \in Webs : \A i \in DOMAIN run'[g] :
                    run'[g][i].key = k /\ run'[g][i].do = "record"
                      => Fits(k, max, window, run[g][i].value)'
              /\ Held(k, max, window)'
  <2>0. k \in Key /\ k \notin raced /\ (k \in Keys(plan) => \A g \in Webs : ~Holds(g, k))
    BY <1>4
  <2>1. /\ Covers(k, max, window)
        /\ tries'[k] = Append(tries[k], try) =>
             LimitOn(k, kind).max <= max /\ LimitOn(k, kind).window >= window
    <3>1. tries[k] \in Seq(Try) /\ (tries'[k] = tries[k] \/ tries'[k] = Append(tries[k], try))
      BY <1>1 DEF TypeOK
    <3> QED
      BY <1>1, <1>11, <3>1, CoversLess
  <2>2. /\ (\A g \in Webs : ~Holds(g, k)) => Fits(k, max, window, attempts[k])
        /\ \A g \in Webs : \A i \in DOMAIN run[g] :
             run[g][i].key = k /\ run[g][i].do = "record" => Fits(k, max, window, run[g][i].value)
        /\ Held(k, max, window)
    BY <2>0, <2>1 DEF OneByOne
  <2>3. ASSUME NEW i \in DOMAIN plan, plan[i].key = k, plan[i].do = "record"
        PROVE  /\ [key |-> k, limit |-> LimitOn(k, kind)] \in Buckets(kind, id, client)
               /\ plan[i].value = Counted(LimitOn(k, kind), attempts[k], now)
    <3>1. PICK c \in Buckets(kind, id, client) :
             plan[i] = Record(c.key, c.limit) \/ plan[i] = Clear(c.key)
      BY DEF PlanFor
    <3>2. /\ c.key \in Key /\ c.limit \in Limit
          /\ c = [key |-> c.key, limit |-> LimitOn(c.key, kind)]
      BY BucketType
    <3>3. plan[i] = Record(c.key, c.limit)
      BY <2>3, <3>1, <3>2, ClearType
    <3>4. c.key = k /\ plan[i].value = Counted(c.limit, attempts[c.key], now)
      BY <2>3, <3>2, <3>3, RecordType
    <3> QED
      BY <3>2, <3>4
  <2>4. CASE \E i \in DOMAIN plan : plan[i].key = k /\ plan[i].do = "record"
    <3>1. PICK i \in DOMAIN plan : plan[i].key = k /\ plan[i].do = "record"
      BY <2>4
    <3>2. /\ [key |-> k, limit |-> LimitOn(k, kind)] \in Buckets(kind, id, client)
          /\ plan[i].value = Counted(LimitOn(k, kind), attempts[k], now)
      BY <2>3, <3>1
    <3>3. k \in Keys(plan) /\ Counts(plan, k)
      BY <3>1 DEF Keys, Counts
    <3>4. Fits(k, max, window, attempts[k])
      BY <2>0, <2>2, <3>3
    <3>5. ~Denies(LimitOn(k, kind), attempts[k], now)
      BY <3>2 DEF Admit, Refusing
    <3>6. PICK row : row = plan[i].value
      OBVIOUS
    <3>7. row = Counted(LimitOn(k, kind), attempts[k], now)
      BY <3>2, <3>6
    <3>8. tries'[k] = Append(tries[k], try) /\ cleared'[k] = cleared[k] /\ cleared[k] <= Len(tries[k])
      BY <1>1, <1>2, <2>0, <3>3 DEF OneByOne
    <3>9. Fits(k, max, window, row)' /\ Held(k, max, window)'
      BY <1>1, <2>0, <2>1, <2>2, <3>4, <3>5, <3>7, <3>8, LimitType, FitsCounted
    <3>10. \A j \in DOMAIN plan : plan[j].key = k => j = i
      BY <3>1 DEF PlanFor
    <3>11. \A g \in Webs : \A j \in DOMAIN run'[g] : run'[g][j].key = k => run'[g][j].value = row
      <4>1. \A g \in Webs \ {h} : ~Holds(g, k)
        BY <2>0, <3>3
      <4> QED
        BY <1>3, <3>6, <3>10, <4>1 DEF Holds
    <3>12. Holds(h, k)'
      BY <1>6, <3>3
    <3> QED
      BY <3>9, <3>11, <3>12
  <2>5. CASE ~\E i \in DOMAIN plan : plan[i].key = k /\ plan[i].do = "record"
    <3>1. tries'[k] = tries[k] /\ cleared'[k] = cleared[k]
      BY <1>1, <1>2, <2>0, <2>5 DEF Counts
    <3>2. Held(k, max, window)' /\ \A row : Fits(k, max, window, row) => Fits(k, max, window, row)'
      BY <2>2, <3>1, FitsSame
    <3>3. (\A g \in Webs : ~Holds(g, k)') => Fits(k, max, window, attempts[k])'
      <4>1. (\A g \in Webs : ~Holds(g, k)') => Fits(k, max, window, attempts[k])
        BY <1>5, <1>7, <2>2
      <4>2. PICK row : row = attempts[k]
        OBVIOUS
      <4> QED
        BY <1>2, <3>2, <4>1, <4>2
    <3>4. ASSUME NEW g \in Webs, NEW i \in DOMAIN run'[g],
                 run'[g][i].key = k, run'[g][i].do = "record"
          PROVE  Fits(k, max, window, run[g][i].value)'
      <4>1. g # h
        BY <1>3, <2>5, <3>4
      <4>2. run'[g] = run[g]
        BY <1>3, <4>1
      <4>3. PICK row : row = run[g][i].value
        OBVIOUS
      <4> QED
        BY <2>2, <3>2, <3>4, <4>2, <4>3
    <3> QED
      BY <3>2, <3>3, <3>4
  <2> QED
    BY <2>4, <2>5
<1> QED
  BY <1>8, <1>9, <1>10, <1>11 DEF OneByOne

\* A handler makes its next statement, or stops.
LEMMA HeldCall ==
    ASSUME TypeOK, OneByOne, TypeOK',
           NEW h \in Webs, RecordAttempt(h) \/ ClearAttempts(h) \/ Fail(h)
    PROVE  OneByOne'
<1>1. tries' = tries /\ run[h] # <<>> /\ run[h] \in Seq(Statement)
  BY DEF RecordAttempt, ClearAttempts, Fail, At, history, TypeOK
<1>2. /\ 1 \in DOMAIN run[h] /\ Head(run[h]) = run[h][1]
      /\ \A i \in DOMAIN Tail(run[h]) : /\ i \in Nat \ {0} /\ i + 1 \in DOMAIN run[h]
                                      /\ Tail(run[h])[i] = run[h][i + 1]
  BY <1>1, TailElements
<1> DEFINE call == run[h][1]
<1>3. call \in Statement /\ call.key \in Key
  <2>1. call \in Statement
    BY <1>1, <1>2
  <2> QED
    BY <2>1 DEF Statement
<1>4. \A g \in Webs \ {h} : run'[g] = run[g]
  BY DEF RecordAttempt, ClearAttempts, Fail, Advance, TypeOK
<1>5. run'[h] = <<>> \/ run'[h] = Tail(run[h])
  BY DEF RecordAttempt, ClearAttempts, Fail, Advance, TypeOK
<1>6. \A g \in Webs : \A i \in DOMAIN run'[g] : \E j \in DOMAIN run[g] :
         run'[g][i] = run[g][j] /\ (g = h => j = i + 1 /\ i \in Nat \ {0})
  <2> SUFFICES ASSUME NEW g \in Webs, NEW i \in DOMAIN run'[g]
               PROVE  \E j \in DOMAIN run[g] :
                         run'[g][i] = run[g][j] /\ (g = h => j = i + 1 /\ i \in Nat \ {0})
    OBVIOUS
  <2>1. CASE g # h
    BY <1>4, <2>1
  <2>2. CASE g = h
    <3>1. run'[h] # <<>>
      BY <2>2
    <3>2. run'[h] = Tail(run[h])
      BY <1>5, <3>1
    <3>3. i \in DOMAIN Tail(run[h])
      BY <2>2, <3>2
    <3>4. i \in Nat \ {0} /\ i + 1 \in DOMAIN run[h] /\ run'[h][i] = run[h][i + 1]
      BY <1>2, <3>2, <3>3
    <3> QED
      BY <2>2, <3>4
  <2> QED
    BY <2>1, <2>2
<1>7. \A g \in Webs : \A k : Holds(g, k)' => Holds(g, k)
  BY <1>6 DEF Holds
<1>8. \A i \in DOMAIN run'[h] : run'[h][i].key # call.key
  <2> SUFFICES ASSUME NEW i \in DOMAIN run'[h], run'[h][i].key = call.key
               PROVE  FALSE
    OBVIOUS
  <2>1. PICK j \in DOMAIN run[h] : run'[h][i] = run[h][j] /\ j = i + 1 /\ i \in Nat \ {0}
    BY <1>6
  <2>2. j = 1
    BY <1>2, <2>1 DEF OneByOne
  <2> QED
    BY <2>1, <2>2
<1>9. \A k \in Key : cleared'[k] <= Len(tries'[k])
  <2> SUFFICES ASSUME NEW k \in Key
               PROVE  cleared'[k] <= Len(tries'[k])
    OBVIOUS
  <2>1. cleared[k] \in Nat /\ Len(tries[k]) \in Nat /\ cleared[k] <= Len(tries[k])
    BY DEF OneByOne, TypeOK
  <2>2. cleared'[k] = cleared[k] \/ cleared'[k] = Len(tries[k])
    BY DEF RecordAttempt, ClearAttempts, Fail, history, TypeOK
  <2> QED
    BY <1>1, <2>1, <2>2
<1>10. \A g \in Webs : \A i, j \in DOMAIN run'[g] : run'[g][i].key = run'[g][j].key => i = j
  <2> SUFFICES ASSUME NEW g \in Webs, NEW i \in DOMAIN run'[g], NEW j \in DOMAIN run'[g],
                      run'[g][i].key = run'[g][j].key
               PROVE  i = j
    OBVIOUS
  <2>1. CASE g # h
    BY <1>4, <2>1 DEF OneByOne
  <2>2. CASE g = h
    <3>1. /\ i + 1 \in DOMAIN run[h] /\ run'[h][i] = run[h][i + 1] /\ i \in Nat
          /\ j + 1 \in DOMAIN run[h] /\ run'[h][j] = run[h][j + 1] /\ j \in Nat
      BY <1>6, <2>2
    <3>2. i + 1 = j + 1
      BY <2>2, <3>1 DEF OneByOne
    <3> QED
      BY <3>1, <3>2
  <2> QED
    BY <2>1, <2>2
<1>11. raced \subseteq raced' /\ (Fail(h) => \A k : Holds(h, k) => k \in raced')
  BY DEF RecordAttempt, ClearAttempts, Fail, history, Holds, Keys
<1>12. \A k \in Key \ raced' : \A f, g \in Webs : Holds(f, k)' /\ Holds(g, k)' => f = g
  BY <1>7, <1>11 DEF OneByOne
<1>13. ASSUME NEW k \in Key \ raced', NEW max \in Nat, NEW window \in Nat, Covers(k, max, window)'
       PROVE  /\ (\A g \in Webs : ~Holds(g, k)') => Fits(k, max, window, attempts[k])'
              /\ \A g \in Webs : \A i \in DOMAIN run'[g] :
                    run'[g][i].key = k /\ run'[g][i].do = "record"
                      => Fits(k, max, window, run[g][i].value)'
              /\ Held(k, max, window)'
  <2>1. k \in Key /\ k \notin raced /\ Covers(k, max, window)
    BY <1>1, <1>11, <1>13 DEF Covers, LimitOn
  <2>2. /\ (\A g \in Webs : ~Holds(g, k)) => Fits(k, max, window, attempts[k])
        /\ \A g \in Webs : \A i \in DOMAIN run[g] :
             run[g][i].key = k /\ run[g][i].do = "record" => Fits(k, max, window, run[g][i].value)
        /\ Held(k, max, window)
    BY <2>1 DEF OneByOne
  <2>3. CASE call.key = k /\ ClearAttempts(h)
    <3>1. attempts'[k] = NoRow /\ cleared'[k] = Len(tries[k])
      BY <1>2, <1>3, <2>3 DEF ClearAttempts, TypeOK
    <3>2. Fits(k, max, window, NoRow)' /\ Held(k, max, window)'
      BY <1>1, <2>1, <3>1, FitsCleared
    <3>3. \A g \in Webs : ~Holds(g, k)'
      <4>1. ~Holds(h, k)'
        BY <1>8, <2>3 DEF Holds
      <4>2. Holds(h, k)
        BY <1>2, <2>3 DEF Holds
      <4>3. \A g \in Webs : Holds(g, k) => g = h
        BY <2>1, <4>2 DEF OneByOne
      <4> QED
        BY <1>7, <4>1, <4>3
    <3>4. Fits(k, max, window, attempts[k])'
      BY <3>1, <3>2
    <3> QED
      BY <3>2, <3>3, <3>4 DEF Holds
  <2>4. CASE ~(call.key = k /\ ClearAttempts(h))
    <3>1. tries'[k] = tries[k] /\ cleared'[k] = cleared[k]
      BY <1>1, <1>2, <2>1, <2>4 DEF RecordAttempt, ClearAttempts, Fail, history, TypeOK
    <3>2. Held(k, max, window)' /\ \A row : Fits(k, max, window, row) => Fits(k, max, window, row)'
      BY <2>2, <3>1, FitsSame
    <3>3. ASSUME \A g \in Webs : ~Holds(g, k)'
          PROVE  Fits(k, max, window, attempts[k])'
      <4>1. CASE call.key = k /\ RecordAttempt(h)
        <5>1. PICK row : row = call.value
          OBVIOUS
        <5>2. call.do = "record" /\ attempts'[k] = row
          BY <1>2, <1>3, <2>1, <4>1, <5>1 DEF RecordAttempt, At, TypeOK
        <5>3. Fits(k, max, window, row)
          BY <1>2, <2>2, <4>1, <5>1, <5>2
        <5> QED
          BY <3>2, <5>2, <5>3
      <4>2. CASE ~(call.key = k /\ RecordAttempt(h))
        <5>1. attempts'[k] = attempts[k]
          BY <1>2, <2>1, <2>4, <4>2 DEF RecordAttempt, ClearAttempts, Fail, TypeOK
        <5>2. ~Holds(h, k)
          <6>1. CASE Fail(h)
            BY <1>11, <1>13, <6>1
          <6>2. CASE ~Fail(h)
            <7>1. run'[h] = Tail(run[h]) /\ call.key # k
              BY <2>4, <4>2, <6>2 DEF RecordAttempt, ClearAttempts, Advance, TypeOK
            <7>2. \A j \in DOMAIN run[h] : j = 1 \/ j - 1 \in DOMAIN Tail(run[h])
              BY <1>1
            <7>3. ASSUME NEW j \in DOMAIN run[h], j # 1
                  PROVE  run[h][j].key # k
              <8>1. j - 1 \in DOMAIN run'[h] /\ run'[h][j - 1] = run[h][j]
                BY <1>1, <1>2, <7>1, <7>2, <7>3
              <8> QED
                BY <3>3, <8>1 DEF Holds
            <7> QED
              BY <7>1, <7>3 DEF Holds
          <6> QED
            BY <6>1, <6>2
        <5>3. \A g \in Webs : ~Holds(g, k)
          BY <1>4, <3>3, <5>2 DEF Holds
        <5>4. PICK row : row = attempts[k]
          OBVIOUS
        <5> QED
          BY <2>2, <3>2, <5>1, <5>3, <5>4
      <4> QED
        BY <4>1, <4>2
    <3>4. ASSUME NEW g \in Webs, NEW i \in DOMAIN run'[g],
                 run'[g][i].key = k, run'[g][i].do = "record"
          PROVE  Fits(k, max, window, run[g][i].value)'
      <4>1. PICK j \in DOMAIN run[g] : run'[g][i] = run[g][j]
        BY <1>6
      <4>2. PICK row : row = run[g][j].value
        OBVIOUS
      <4> QED
        BY <2>2, <3>2, <3>4, <4>1, <4>2
    <3> QED
      BY <3>2, <3>3, <3>4
  <2> QED
    BY <2>3, <2>4
<1> QED
  BY <1>9, <1>10, <1>12, <1>13 DEF OneByOne

LEMMA HeldStep ==
    ASSUME TypeOK, InOrder, OneByOne, TypeOK', [Next]_vars
    PROVE  OneByOne'
<1>1. CASE UNCHANGED <<attempts, run, tries, cleared, raced>>
  <2>1. \A k, max, window : Covers(k, max, window)' => Covers(k, max, window)
    BY <1>1 DEF Covers, LimitOn
  <2>2. \A h, k : Holds(h, k)' <=> Holds(h, k)
    BY <1>1 DEF Holds
  <2>3. \A k, max, window, row : /\ Fits(k, max, window, row) => Fits(k, max, window, row)'
                                 /\ Held(k, max, window) => Held(k, max, window)'
    BY <1>1, FitsSame
  <2>4. \A k, max, window : Fits(k, max, window, attempts[k]) => Fits(k, max, window, attempts[k])'
    BY <1>1 DEF Fits
  <2>5. \A k, max, window, h, i : Fits(k, max, window, run[h][i].value)
                                     => Fits(k, max, window, run[h][i].value)'
    BY <1>1 DEF Fits
  <2>6. \A k \in Key \ raced' : \A max, window \in Nat : Covers(k, max, window)' =>
         /\ (\A h \in Webs : ~Holds(h, k)') => Fits(k, max, window, attempts[k])'
         /\ \A h \in Webs : \A i \in DOMAIN run'[h] :
              run'[h][i].key = k /\ run'[h][i].do = "record" => Fits(k, max, window, run[h][i].value)'
         /\ Held(k, max, window)'
    BY <1>1, <2>1, <2>2, <2>3, <2>4, <2>5 DEF OneByOne
  <2> QED
    BY <1>1, <2>2, <2>6 DEF OneByOne
<1> QED
  BY <1>1, HeldAdmit, HeldCall, NextCases DEF Refuse, Tick, history, vars

LEMMA HeldOneAtATime ==
    ASSUME TypeOK, OneByOne
    PROVE  OneAtATimeIsHeld
<1> SUFFICES ASSUME NEW k \in Key \ raced,
                    NEW most \in {LimitOn(k, tries[k][i].kind) : i \in DOMAIN tries[k]},
                    NEW soonest \in {LimitOn(k, tries[k][i].kind) : i \in DOMAIN tries[k]},
                    \A i \in DOMAIN tries[k] :
                       /\ LimitOn(k, tries[k][i].kind).max <= most.max
                       /\ LimitOn(k, tries[k][i].kind).window >= soonest.window
             PROVE  \A i \in DOMAIN tries[k] :
                       cleared[k] < i /\ i + 2 * most.max <= Len(tries[k]) =>
                         tries[k][i + 2 * most.max].at - tries[k][i].at >= soonest.window
  BY DEF OneAtATimeIsHeld
<1>1. \A i \in DOMAIN tries[k] : tries[k][i].kind \in Kind
  <2>1. tries[k] \in Seq(Try)
    BY DEF TypeOK
  <2>2. \A i \in DOMAIN tries[k] : tries[k][i] \in Try
    BY <2>1
  <2> QED
    BY <2>2 DEF Try
<1>2. most \in Limit /\ soonest \in Limit
  BY <1>1, LimitType
<1>3. most.max \in Nat /\ soonest.window \in Nat
  BY <1>2 DEF Limit
<1>4. Covers(k, most.max, soonest.window)
  BY DEF Covers
<1>5. Held(k, most.max, soonest.window)
  BY <1>3, <1>4 DEF OneByOne
<1> QED
  BY <1>5 DEF Held

\* As long as nobody races for a row, its requests are held to the limit: no
\* stretch as long as the window sees more than twice the limit of them, the
\* largest limit and the shortest window of the kinds that count on the row.
THEOREM HeldToTheLimit == Spec => []OneAtATimeIsHeld
<1> DEFINE Inv == TypeOK /\ InOrder /\ OneByOne
<1>1. Init => Inv
  BY TypeInit, RealInit, HeldInit
<1>2. Inv /\ [Next]_vars => Inv'
  BY TypeStep, OrderStep, HeldStep
<1>3. Inv => OneAtATimeIsHeld
  BY HeldOneAtATime
<1> HIDE DEF Inv
<1> QED
  BY <1>1, <1>2, <1>3, PTL DEF Spec
=============================================================================
