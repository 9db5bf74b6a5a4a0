------------------------- MODULE Moderation_proofs --------------------------
(* Theorems about the moderation pipeline, for every set of posts, users   *)
(* and handlers, and without the bounds of the TLC instances mattering:    *)
(* types, what becomes of the log rows that a change calls for, and what   *)
(* is owed to a post: a person to look at a hide by the model, a recall    *)
(* once enough reports stand, a reader for text that Tier 0 caught.  Each  *)
(* property is about what handlers leave behind them; its inductive        *)
(* invariant says what the plans of the handlers under way still promise,  *)
(* and that what they have read is still true as far as they act on it.    *)
EXTENDS Moderation, SequenceTheorems, FiniteSetTheorems, TLAPS

USE DEF PostState, ItemState, ActorKind, Action, Call, Fate

-----------------------------------------------------------------------------
(* The plans that handlers start or go on with.                            *)

LEMMA SetType ==
    ASSUME NEW who \in ActorKind, NEW act \in Action, NEW to \in PostState
    PROVE  Set(who, act, to) \in Statement
BY DEF Set, Statement

LEMMA LogType ==
    ASSUME NEW who \in ActorKind, NEW act \in Action
    PROVE  Log(who, act) \in Statement
BY DEF Log, Statement

LEMMA DoType == ASSUME NEW call \in Call PROVE Do(call) \in Statement
BY DEF Do, Statement

LEMMA HoldType == Hold \in Seq(Statement)
BY LogType, DoType DEF Hold

LEMMA ReleaseType == Release \in Seq(Statement)
BY LogType, SetType DEF Release

LEMMA RecallType == Recall \in Seq(Statement)
BY LogType, SetType, DoType DEF Recall

LEMMA DecideType ==
    ASSUME NEW to \in PostState PROVE Decide(to) \in Seq(Statement)
BY LogType, SetType DEF Decide

LEMMA VerdictType ==
    ASSUME NEW answer PROVE Verdict(answer) \in Seq(Statement)
BY LogType, SetType, DoType DEF Verdict

LEMMA AckOfType == ASSUME NEW h PROVE AckOf(h) \in Seq(Statement)
BY DoType DEF AckOf

LEMMA IdleType == Idle \in Run
<1>1. (CHOOSE p \in Posts : TRUE) \in Posts
  BY ModerationAssumption
<1>2. \E u : u \in Users
  BY ModerationAssumption
<1>3. (CHOOSE u \in Users : TRUE) \in Users
  BY <1>2
<1>4. Nowhere \in View
  BY DEF Nowhere, View
<1> QED
  BY <1>1, <1>3, <1>4 DEF Idle, Run

-----------------------------------------------------------------------------
(* What starting, going on with and looking at a handler does to run.      *)

LEMMA StartType ==
    ASSUME TypeOK, NEW h \in Procs, NEW p \in Posts, NEW u \in Users,
           NEW plan \in Seq(Statement), Start(h, p, u, plan)
    PROVE  run' \in [Procs -> Run]
<1>1. Seen(p) \in View
  BY DEF TypeOK, Seen, View
<1>2. [plan |-> plan, post |-> p, seen |-> Seen(p), user |-> u] \in Run
  BY <1>1 DEF Run
<1> QED
  BY <1>2, IdleType DEF Start, TypeOK

LEMMA ContinueType ==
    ASSUME TypeOK, NEW h \in Procs, NEW plan \in Seq(Statement),
           Continue(h, plan)
    PROVE  run' \in [Procs -> Run]
<1>1. run[h] \in Run
  BY DEF TypeOK
<1>2. [run[h] EXCEPT !.plan = plan] \in Run
  BY <1>1 DEF Run
<1> QED
  BY <1>2, IdleType DEF Continue, TypeOK

LEMMA BusyType ==
    ASSUME TypeOK, NEW h \in Procs, Busy(h)
    PROVE  /\ NextCall(h) \in Statement
           /\ Rest(h) \in Seq(Statement)
           /\ run[h].post \in Posts
           /\ run[h].user \in Users
<1>1. run[h] \in Run
  BY DEF TypeOK
<1>2. run[h].plan \in Seq(Statement) /\ run[h].plan # <<>>
  BY <1>1 DEF Run, Busy
<1> QED
  BY <1>1, <1>2 DEF NextCall, Rest, Run

-----------------------------------------------------------------------------
(* Type correctness.                                                       *)

LEMMA InitType == Init => TypeOK
<1> SUFFICES ASSUME Init PROVE TypeOK
  OBVIOUS
<1>1. run \in [Procs -> Run]
  BY IdleType DEF Init
<1> QED
  BY <1>1, ModerationAssumption DEF Init, TypeOK

\* A request reads, and leaves a plan.
LEMMA RequestType ==
    ASSUME TypeOK, NEW h \in Webs, WebRequest(h)
    PROVE  TypeOK'
<1> USE DEF tables, history
<1>0. h \in Procs
  BY DEF Procs
<1>1. ASSUME NEW op, NEW u, Request(h, op, u), run' \in [Procs -> Run]
      PROVE  TypeOK'
  BY <1>1, ModerationAssumption DEF TypeOK, Request
<1>2. PICK p \in Posts : \/ Write(h, p) \/ Edit(h, p) \/ Appeal(h, p)
         \/ \E u \in Users : \/ Delete(h, p, u) \/ Report(h, p, u)
                             \/ DeleteAccount(h, p, u)
                             \/ \E to \in PostState : \/ Review(h, p, u, to)
                                                      \/ SetState(h, p, u, to)
  BY DEF WebRequest
<1>3. Author[p] \in Users
  BY ModerationAssumption
<1>4. ASSUME NEW to \in PostState, NEW call \in Call
      PROVE  Text(call, to) \in Statement
  BY DEF Text, Statement
<1>5. Triaged(p) \subseteq PostState
  BY DEF Triaged
<1>6. CASE Write(h, p)
  <2>1. PICK to \in Triaged(p) :
           Start(h, p, Author[p], <<Text("insert", to)>> \o
                 IF to = "pending" THEN Hold ELSE <<>>)
    BY <1>6 DEF Write
  <2>2. <<Text("insert", to)>> \in Seq(Statement)
    BY <1>4, <1>5
  <2>3. <<Text("insert", to)>> \o (IF to = "pending" THEN Hold ELSE <<>>)
           \in Seq(Statement)
    BY <2>2, HoldType
  <2> QED
    BY <2>1, <2>3, <1>0, <1>1, <1>3, <1>6, StartType DEF Write
<1>7. CASE Edit(h, p)
  <2> DEFINE Text1(to) == <<Text("body", to), Log("user", "edit")>>
             Hold1 == <<Set("rule", "hold", "pending")>> \o Hold
  <2>1. PICK to \in Triaged(p) :
           Start(h, p, Author[p], Text1(to) \o
                 IF to = "pending" /\ state[p] = "visible"
                 THEN Hold1 ELSE <<>>)
    BY <1>7 DEF Edit
  <2>2. Text1(to) \in Seq(Statement)
    BY <1>4, <1>5, LogType
  <2>3. Hold1 \in Seq(Statement)
    BY HoldType, SetType
  <2> HIDE DEF Text1, Hold1
  <2>4. Text1(to) \o (IF to = "pending" /\ state[p] = "visible"
                      THEN Hold1 ELSE <<>>) \in Seq(Statement)
    BY <2>2, <2>3
  <2> QED
    BY <2>1, <2>4, <1>0, <1>1, <1>3, <1>7, StartType DEF Edit
<1>8. CASE Appeal(h, p)
  <2>1. <<Do("open"), Log("user", "appeal")>> \in Seq(Statement)
    BY DoType, LogType
  <2> QED
    BY <2>1, <1>0, <1>1, <1>3, <1>8, StartType DEF Appeal
<1>9. ASSUME NEW u \in Users, Delete(h, p, u) PROVE TypeOK'
  <2>1. <<Set("user", "delete", "deleted"), Log("user", "delete")>>
           \in Seq(Statement)
    BY SetType, LogType
  <2> QED
    BY <2>1, <1>0, <1>1, <1>9, StartType DEF Delete
<1>10. ASSUME NEW u \in Users, Report(h, p, u) PROVE TypeOK'
  <2>1. <<Do("report")>> \in Seq(Statement)
    BY DoType
  <2> QED
    BY <2>1, <1>0, <1>1, <1>10, StartType DEF Report
<1>11. ASSUME NEW u \in Users, DeleteAccount(h, p, u) PROVE TypeOK'
  <2>1. <<Do("forget"), Do("sessions"), Do("tombstone"), Do("record")>> \in Seq(Statement)
    BY DoType
  <2> QED
    BY <2>1, <1>0, <1>1, <1>11, StartType DEF DeleteAccount
<1>12. ASSUME NEW u \in Users, NEW to \in PostState, Review(h, p, u, to)
       PROVE  TypeOK'
  <2>1. [Do("resolve") EXCEPT !.to = to] \in Statement
    BY DEF Do, Statement
  <2>2. <<[Do("resolve") EXCEPT !.to = to]>> \in Seq(Statement)
    BY <2>1
  <2> QED
    BY <2>2, <1>0, <1>1, <1>12, StartType DEF Review
<1>13. ASSUME NEW u \in Users, NEW to \in PostState, SetState(h, p, u, to)
       PROVE  TypeOK'
  <2>1. ActionFor(to) \in Action
    BY DEF ActionFor
  <2>2. <<Set("user", ActionFor(to), to), Log("user", ActionFor(to))>>
           \in Seq(Statement)
    BY <2>1, SetType, LogType
  <2> QED
    BY <2>2, <1>0, <1>1, <1>13, StartType DEF SetState
<1> QED
  BY <1>2, <1>6, <1>7, <1>8, <1>9, <1>10, <1>11, <1>12, <1>13

LEMMA ProcessType ==
    ASSUME TypeOK, NEW h \in Procs, NEW p \in Posts, Process(h, p)
    PROVE  run' \in [Procs -> Run]
<1> DEFINE First(enabled) == IF state[p] # "pending" THEN <<>>
                             ELSE IF enabled THEN <<Do("classify")>> ELSE Release
<1>1. PICK enabled \in PolicyReads :
         Start(h, p, Author[p], First(enabled) \o AckOf(h))
  BY DEF Process
<1>2. First(enabled) \in Seq(Statement)
  BY ReleaseType, DoType
<1> HIDE DEF First
<1>3. First(enabled) \o AckOf(h) \in Seq(Statement)
  BY <1>2, AckOfType
<1>4. Author[p] \in Users
  BY ModerationAssumption
<1> QED
  BY <1>1, <1>3, <1>4, StartType

\* A message or the timer starts the automation.
LEMMA AutomationType ==
    ASSUME TypeOK, NEW h \in Procs,
           \/ \E p \in Posts : Deliver(h, p)
           \/ Sweep(h) \/ SweepNext(h)
    PROVE  TypeOK'
<1> USE DEF tables, history
<1>1. ASSUME NEW p \in Posts, Deliver(h, p) PROVE TypeOK'
  <2>1. run' \in [Procs -> Run]
    BY <1>1, ProcessType DEF Deliver
  <2> QED
    BY <1>1, <2>1 DEF Deliver, TypeOK
<1>2. CASE Sweep(h)
  <2>1. Oldest(SweepLimit, Unattended) \subseteq Posts
    BY DEF Oldest, Unattended
  <2>2. work' \in [Sweepers -> SUBSET Posts]
    BY <1>2, <2>1 DEF Sweep, TypeOK
  <2> QED
    BY <1>2, <2>2 DEF Sweep, TypeOK
<1>3. CASE SweepNext(h)
  <2>1. work[h] \subseteq Posts
    BY <1>3 DEF SweepNext, TypeOK
  <2>2. PICK p \in Oldest(1, work[h]) :
           Process(h, p) /\ work' = [work EXCEPT ![h] = @ \ {p}]
    BY <1>3 DEF SweepNext
  <2>3. p \in Posts
    BY <2>1 DEF Oldest
  <2>4. run' \in [Procs -> Run]
    BY <2>2, <2>3, ProcessType
  <2>5. work' \in [Sweepers -> SUBSET Posts]
    BY <2>2 DEF TypeOK
  <2> QED
    BY <1>3, <2>4, <2>5 DEF SweepNext, TypeOK
<1> QED
  BY <1>1, <1>2, <1>3

\* A store call touches the tables it names, and the caller goes on.
LEMMA StepType ==
    ASSUME TypeOK, NEW h \in Procs, Step(h)
    PROVE  TypeOK'
<1> USE DEF tables, history, quiet
<1>0. Busy(h)
  BY DEF Step, At, ClassifierAnswers, InsertPost, SetPostState, LogAction,
         OpenReview, ResolveReview, AddReport, CountReports, UpdatePostBody,
         EnqueueJob, Acknowledge, SetUserState, DeleteUserSessions, TombstoneUserPosts,
         RecordDeletion
<1> DEFINE p == run[h].post
           s == NextCall(h)
<1>1. /\ s \in Statement /\ Rest(h) \in Seq(Statement)
      /\ p \in Posts /\ run[h].user \in Users
  BY <1>0, BusyType
<1>2. s.who \in ActorKind /\ s.act \in Action /\ s.to \in PostState
  BY <1>1 DEF Statement
<1>3. [who |-> s.who, act |-> s.act] \in Row
  BY <1>2 DEF Row
<1>4. ASSUME NEW plan \in Seq(Statement), Continue(h, plan)
      PROVE  run' \in [Procs -> Run]
  BY <1>4, ContinueType
<1>5. Author[p] \in Users
  BY <1>1, ModerationAssumption
<1> HIDE DEF p, s
<1>6. CASE ClassifierAnswers(h)
  <2>1. PICK answer \in Answers : Continue(h, Verdict(answer) \o Rest(h))
    BY <1>6 DEF ClassifierAnswers
  <2>2. Verdict(answer) \o Rest(h) \in Seq(Statement)
    BY <1>1, VerdictType
  <2>3. run' \in [Procs -> Run]
    BY <2>1, <2>2, <1>4
  <2> QED
    BY <1>6, <2>3 DEF ClassifierAnswers, TypeOK
<1>7. CASE InsertPost(h)
  <2>1. run' \in [Procs -> Run]
    BY <1>1, <1>4, <1>7 DEF InsertPost
  <2>2. state' = [state EXCEPT ![p] = s.to]
    BY <1>7 DEF InsertPost, p, s
  <2>3. caught' \in [Posts -> BOOLEAN]
    BY <1>7 DEF InsertPost, TypeOK
  <2> QED
    BY <1>1, <1>2, <1>7, <2>1, <2>2, <2>3 DEF InsertPost, TypeOK
<1>8. CASE SetPostState(h)
  <2>1. run' \in [Procs -> Run]
    BY <1>1, <1>4, <1>8 DEF SetPostState
  <2>2. /\ state' = [state EXCEPT ![p] = s.to]
        /\ by' = [by EXCEPT ![p] = s.who]
    BY <1>8 DEF SetPostState, p, s
  <2>3. changed' = [changed EXCEPT ![p] = @ \cup {[who |-> s.who, act |-> s.act]}]
    BY <1>8 DEF SetPostState, p, s
  <2>4. passed' \in [Posts -> Fate]
    BY <1>8 DEF SetPostState, TypeOK
  <2>5. \E d \in PostState : decision' = [decision EXCEPT ![p] = d]
    <3>1. decision[p] \in PostState
      BY <1>1 DEF TypeOK
    <3>2. decision' = [decision EXCEPT ![p] =
                         IF s.who # "user" THEN decision[p]
                         ELSE IF s.to = "pending" THEN "none" ELSE s.to]
      BY <1>8 DEF SetPostState, p, s
    <3> QED
      BY <3>1, <3>2, <1>2
  <2>6. /\ state' \in [Posts -> PostState] /\ by' \in [Posts -> ActorKind]
        /\ changed' \in [Posts -> SUBSET Row]
        /\ decision' \in [Posts -> PostState]
    BY <1>1, <1>2, <1>3, <2>2, <2>3, <2>5 DEF TypeOK
  <2> QED
    BY <1>8, <2>1, <2>4, <2>6 DEF SetPostState, TypeOK
<1>9. CASE LogAction(h)
  <2>1. run' \in [Procs -> Run]
    BY <1>1, <1>4, <1>9 DEF LogAction
  <2>2. log' = [log EXCEPT ![p] = @ \cup {[who |-> s.who, act |-> s.act]}]
    BY <1>9 DEF LogAction, p, s
  <2>3. log' \in [Posts -> SUBSET Row]
    BY <1>1, <1>3, <2>2 DEF TypeOK
  <2> QED
    BY <1>9, <2>1, <2>3 DEF LogAction, TypeOK
<1>10. CASE OpenReview(h)
  <2>1. run' \in [Procs -> Run]
    BY <1>1, <1>4, <1>10 DEF OpenReview
  <2> QED
    BY <1>10, <2>1 DEF OpenReview, TypeOK
<1>11. CASE ResolveReview(h)
  <2>1. Decide(s.to) \in Seq(Statement) /\ <<>> \in Seq(Statement)
    BY <1>2, DecideType
  <2>2. run' \in [Procs -> Run]
    BY <1>4, <1>11, <2>1 DEF ResolveReview, s
  <2>3. \/ /\ item' = [item EXCEPT ![p] = "resolved"]
           /\ decisions' = [decisions EXCEPT ![p] = @ + 1]
        \/ UNCHANGED <<item, decisions>>
    BY <1>11 DEF ResolveReview, p
  <2>4. item' \in [Posts -> ItemState]
    BY <1>1, <2>3 DEF TypeOK
  <2>5. decisions' \in [Posts -> Nat]
    <3>1. CASE UNCHANGED decisions
      BY <3>1 DEF TypeOK
    <3>2. CASE decisions' = [decisions EXCEPT ![p] = @ + 1]
      BY <1>1, <3>2 DEF TypeOK
    <3> QED
      BY <2>3, <3>1, <3>2
  <2> QED
    BY <1>11, <2>2, <2>4, <2>5 DEF ResolveReview, TypeOK
<1>12. CASE AddReport(h)
  <2>1. /\ signals' = [signals EXCEPT ![p] = @ \cup {run[h].user}]
        /\ Continue(h, IF run[h].user \in signals[p] THEN <<>> ELSE <<Do("count")>>)
    BY <1>12 DEF AddReport, p
  <2>2. (IF run[h].user \in signals[p] THEN <<>> ELSE <<Do("count")>>) \in Seq(Statement)
    BY DoType
  <2>3. run' \in [Procs -> Run]
    BY <1>4, <2>1, <2>2
  <2>4. signals' \in [Posts -> SUBSET Users]
    BY <1>1, <2>1 DEF TypeOK
  <2> QED
    BY <1>12, <2>3, <2>4 DEF AddReport, TypeOK
<1>13. CASE CountReports(h)
  <2>1. PICK tip \in BOOLEAN :
           Continue(h, <<Log("user", "report")>> \o IF tip THEN Recall ELSE <<>>)
    BY <1>13 DEF CountReports, Tips
  <2>2. <<Log("user", "report")>> \in Seq(Statement)
    BY LogType
  <2>3. (IF tip THEN Recall ELSE <<>>) \in Seq(Statement)
    BY RecallType
  <2>4. <<Log("user", "report")>> \o (IF tip THEN Recall ELSE <<>>) \in Seq(Statement)
    BY <2>2, <2>3
  <2>5. run' \in [Procs -> Run]
    BY <1>4, <2>1, <2>4
  <2> QED
    BY <1>13, <2>5 DEF CountReports, TypeOK
<1>14. CASE UpdatePostBody(h)
  <2>1. run' \in [Procs -> Run]
    BY <1>1, <1>4, <1>14 DEF UpdatePostBody
  <2>2. body' = [body EXCEPT ![p] = @ + 1]
    BY <1>14 DEF UpdatePostBody, p
  <2>3. body' \in [Posts -> Nat]
    BY <1>1, <2>2 DEF TypeOK
  <2>4. /\ caught' \in [Posts -> BOOLEAN] /\ passed' \in [Posts -> Fate]
        /\ decision' \in [Posts -> PostState]
    BY <1>14 DEF UpdatePostBody, TypeOK
  <2> QED
    BY <1>14, <2>1, <2>3, <2>4 DEF UpdatePostBody, TypeOK
<1>15. CASE EnqueueJob(h)
  <2>1. run' \in [Procs -> Run]
    BY <1>1, <1>4, <1>15 DEF EnqueueJob
  <2>2. jobs' \subseteq Posts
    BY <1>1, <1>15 DEF EnqueueJob, TypeOK, p
  <2> QED
    BY <1>15, <2>1, <2>2 DEF EnqueueJob, TypeOK
<1>16. CASE Acknowledge(h)
  <2>1. run' \in [Procs -> Run]
    BY <1>1, <1>4, <1>16 DEF Acknowledge
  <2>2. jobs' \subseteq Posts
    BY <1>1, <1>16 DEF Acknowledge, TypeOK
  <2> QED
    BY <1>16, <2>1, <2>2 DEF Acknowledge, TypeOK
<1>17. CASE SetUserState(h)
  <2>1. run' \in [Procs -> Run]
    BY <1>1, <1>4, <1>17 DEF SetUserState
  <2>2. gone' \subseteq Users
    BY <1>5, <1>17 DEF SetUserState, TypeOK, p
  <2> QED
    BY <1>17, <2>1, <2>2 DEF SetUserState, TypeOK
<1>18. CASE TombstoneUserPosts(h)
  <2>1. run' \in [Procs -> Run]
    BY <1>1, <1>4, <1>18 DEF TombstoneUserPosts
  <2>2. \E hit : /\ state' = [q \in Posts |-> IF q \in hit THEN "deleted" ELSE state[q]]
                 /\ changed' = [q \in Posts |-> IF q \in hit THEN changed[q] \cup {Deletion}
                                                ELSE changed[q]]
                 /\ by' = [q \in Posts |-> IF q \in hit THEN "user" ELSE by[q]]
                 /\ decision' = [q \in Posts |-> IF q \in hit THEN "deleted" ELSE decision[q]]
    BY <1>18 DEF TombstoneUserPosts
  <2>3. /\ state' \in [Posts -> PostState] /\ by' \in [Posts -> ActorKind]
        /\ decision' \in [Posts -> PostState]
    BY <2>2 DEF TypeOK
  <2>4. Deletion \in Row
    BY DEF Deletion, Row
  <2>5. changed' \in [Posts -> SUBSET Row]
    BY <2>2, <2>4 DEF TypeOK
  <2> QED
    BY <1>18, <2>1, <2>3, <2>5 DEF TombstoneUserPosts, TypeOK
<1>19. CASE DeleteUserSessions(h)
  <2>1. run' \in [Procs -> Run]
    BY <1>1, <1>4, <1>19 DEF DeleteUserSessions
  <2> QED
    BY <1>19, <2>1 DEF DeleteUserSessions, TypeOK
<1>20. CASE RecordDeletion(h)
  <2>1. run' \in [Procs -> Run]
    BY <1>1, <1>4, <1>20 DEF RecordDeletion
  <2>2. erased' \subseteq Users
    BY <1>5, <1>20 DEF RecordDeletion, TypeOK, p
  <2> QED
    BY <1>20, <2>1, <2>2 DEF RecordDeletion, TypeOK
<1> QED
  BY <1>6, <1>7, <1>8, <1>9, <1>10, <1>11, <1>12, <1>13, <1>14, <1>15, <1>16,
     <1>17, <1>18, <1>19, <1>20 DEF Step

LEMMA FailType ==
    ASSUME TypeOK, NEW h \in Procs, Fail(h)
    PROVE  TypeOK'
<1>1. run' \in [Procs -> Run]
  <2>1. <<>> \in Seq(Statement) /\ Continue(h, <<>>)
    BY DEF Fail
  <2> QED
    BY <2>1, ContinueType
<1>2. work' \in [Sweepers -> SUBSET Posts]
  <2>1. CASE UNCHANGED work
    BY <2>1 DEF TypeOK
  <2>2. ASSUME h \in Sweepers, NEW left \in {work[h], {}},
               work' = [work EXCEPT ![h] = left]
        PROVE  work' \in [Sweepers -> SUBSET Posts]
    <3>1. left \subseteq Posts
      BY <2>2 DEF TypeOK
    <3> QED
      BY <2>2, <3>1 DEF TypeOK
  <2> QED
    BY <2>1, <2>2 DEF Fail
<1>3. failures' \in 0..MaxFailures
  BY ModerationAssumption DEF Fail, TypeOK
<1> QED
  BY <1>1, <1>2, <1>3 DEF Fail, TypeOK, tables, history

LEMMA LoseJobType ==
    ASSUME TypeOK, NEW p \in Posts, LoseJob(p)
    PROVE  TypeOK'
BY DEF LoseJob, TypeOK, quiet, history

LEMMA NextType == TypeOK /\ [Next]_vars => TypeOK'
<1> SUFFICES ASSUME TypeOK, [Next]_vars PROVE TypeOK'
  OBVIOUS
<1>1. Webs \subseteq Procs /\ Consumers \subseteq Procs /\ Sweepers \subseteq Procs
  BY DEF Procs
<1>2. ASSUME NEW h \in Webs, WebRequest(h) PROVE TypeOK'
  BY <1>2, RequestType
<1>3. ASSUME NEW h \in Consumers, NEW p \in Posts, Deliver(h, p) PROVE TypeOK'
  BY <1>1, <1>3, AutomationType
<1>4. ASSUME NEW h \in Sweepers, Sweep(h) \/ SweepNext(h) PROVE TypeOK'
  BY <1>1, <1>4, AutomationType
<1>5. ASSUME NEW h \in Procs, Step(h) \/ Fail(h) PROVE TypeOK'
  BY <1>5, StepType, FailType
<1>6. ASSUME NEW p \in Posts, LoseJob(p) PROVE TypeOK'
  BY <1>6, LoseJobType
<1>7. CASE UNCHANGED vars
  BY <1>7 DEF vars, tables, history, TypeOK
<1> QED
  BY <1>2, <1>3, <1>4, <1>5, <1>6, <1>7 DEF Next

\* Every table, every plan of every handler and every history variable keeps
\* its type, whatever the interleaving, the failures and the bounds.
THEOREM TypeCorrect == Spec => []TypeOK
BY InitType, NextType, PTL DEF Spec

-----------------------------------------------------------------------------
(* What every plan that a handler starts with has in common.               *)

\* The call that writes the row a change of state calls for.
Closing(s) == IF s.do = "set" THEN Log(s.who, s.act) ELSE Do("record")

Changing == {"set", "tombstone"}

\* A change of state is followed at once by the log row that it calls for.
Paired(plan) ==
    \A i \in 1..Len(plan) :
        plan[i].do \in Changing => i < Len(plan) /\ plan[i + 1] = Closing(plan[i])

ByModel(s) == s.do = "set" /\ s.who = "model"

Classified == [who |-> "model", act |-> "classify"]

Logs(s, row) == s.do = "log" /\ s.who = row.who /\ s.act = row.act

\* A change made by the model comes after the row of its classification, in
\* the plan or among the rows already written.
Foretold(plan, rows) ==
    \A i \in 1..Len(plan) :
        ByModel(plan[i]) =>
            \/ Classified \in rows
            \/ \E j \in 1..Len(plan) : j < i /\ Logs(plan[j], Classified)

\* What a handler may start with: nothing is changed on the model's word.
Fresh(plan) ==
    /\ plan \in Seq(Statement)
    /\ Paired(plan)
    /\ \A i \in 1..Len(plan) : ~ByModel(plan[i])

LEMMA EmptyFresh == Fresh(<<>>)
BY DEF Fresh, Paired

LEMMA PairedConcat ==
    ASSUME NEW a \in Seq(Statement), NEW b \in Seq(Statement),
           Paired(a), Paired(b)
    PROVE  Paired(a \o b)
<1> SUFFICES ASSUME NEW i \in 1..Len(a \o b), (a \o b)[i].do \in Changing
             PROVE  /\ i < Len(a \o b)
                    /\ (a \o b)[i + 1] = Closing((a \o b)[i])
  BY DEF Paired
<1>1. CASE i <= Len(a)
  <2>1. i \in 1..Len(a) /\ (a \o b)[i] = a[i]
    BY <1>1
  <2>2. i < Len(a) /\ a[i + 1] = Closing(a[i])
    BY <2>1 DEF Paired
  <2>3. (a \o b)[i + 1] = a[i + 1]
    BY <2>1, <2>2
  <2> QED
    BY <2>1, <2>2, <2>3
<1>2. CASE i > Len(a)
  <2>1. i - Len(a) \in 1..Len(b) /\ (a \o b)[i] = b[i - Len(a)]
    BY <1>2
  <2>2. /\ i - Len(a) < Len(b)
        /\ b[(i - Len(a)) + 1] = Closing(b[i - Len(a)])
    BY <2>1 DEF Paired
  <2>3. (a \o b)[i + 1] = b[(i - Len(a)) + 1]
    BY <1>2, <2>1, <2>2
  <2> QED
    BY <2>1, <2>2, <2>3
<1> QED
  BY <1>1, <1>2

LEMMA FreshConcat ==
    ASSUME NEW a, NEW b, Fresh(a), Fresh(b)
    PROVE  Fresh(a \o b)
<1>1. a \in Seq(Statement) /\ b \in Seq(Statement) /\ a \o b \in Seq(Statement)
  BY DEF Fresh
<1>2. Paired(a \o b)
  BY <1>1, PairedConcat DEF Fresh
<1>3. ASSUME NEW i \in 1..Len(a \o b) PROVE ~ByModel((a \o b)[i])
  <2>1. CASE i <= Len(a)
    <3>1. i \in 1..Len(a) /\ (a \o b)[i] = a[i]
      BY <1>1, <2>1
    <3> QED
      BY <3>1 DEF Fresh
  <2>2. CASE i > Len(a)
    <3>1. i - Len(a) \in 1..Len(b) /\ (a \o b)[i] = b[i - Len(a)]
      BY <1>1, <2>2
    <3> QED
      BY <3>1 DEF Fresh
  <2> QED
    BY <1>1, <2>1, <2>2
<1> QED
  BY <1>1, <1>2, <1>3 DEF Fresh

\* One call that changes no state, and a change with its row.
LEMMA CallFresh ==
    ASSUME NEW s \in Statement, s.do \notin Changing
    PROVE  Fresh(<<s>>)
BY DEF Fresh, Paired, ByModel, Changing

LEMMA ChangeFresh ==
    ASSUME NEW who \in ActorKind \ {"model"}, NEW act \in Action, NEW to \in PostState
    PROVE  Fresh(<<Set(who, act, to), Log(who, act)>>)
<1> DEFINE plan == <<Set(who, act, to), Log(who, act)>>
<1>1. plan \in Seq(Statement) /\ Len(plan) = 2
  BY SetType, LogType
<1>2. plan[1] = Set(who, act, to) /\ plan[2] = Log(who, act)
  OBVIOUS
<1>3. /\ plan[1].who = who /\ plan[1].act = act
      /\ plan[2].do = "log"
  BY DEF Set, Log
<1> HIDE DEF plan
<1>6. plan[1].do = "set"
  BY <1>2 DEF Set
<1>4. Paired(plan)
  BY <1>1, <1>2, <1>3, <1>6 DEF Paired, Closing, Changing
<1>5. ASSUME NEW i \in 1..Len(plan) PROVE ~ByModel(plan[i])
  BY <1>1, <1>3 DEF ByModel
<1> QED
  BY <1>1, <1>4, <1>5 DEF Fresh, plan

LEMMA DoFresh ==
    ASSUME NEW call \in Call \ {"set", "tombstone"} PROVE Fresh(<<Do(call)>>)
BY DoType, CallFresh DEF Do, Changing

LEMMA LogFresh ==
    ASSUME NEW who \in ActorKind, NEW act \in Action
    PROVE  Fresh(<<Log(who, act)>>)
BY LogType, CallFresh DEF Log, Changing

LEMMA ReleaseFresh == Fresh(Release)
BY ChangeFresh DEF Release

LEMMA DecideFresh == ASSUME NEW to \in PostState PROVE Fresh(Decide(to))
BY ChangeFresh DEF Decide

LEMMA AckOfFresh == ASSUME NEW h PROVE Fresh(AckOf(h))
BY DoFresh, EmptyFresh DEF AckOf

LEMMA JoinOnes ==
    ASSUME NEW a \in Statement, NEW b \in Statement
    PROVE  <<a>> \o <<b>> = <<a, b>>
<1> DEFINE ab == <<a>> \o <<b>>
<1>1. ab \in Seq(Statement) /\ Len(ab) = 2
  OBVIOUS
<1>2. ab[1] = a /\ ab[2] = b
  OBVIOUS
<1>3. <<a, b>> \in Seq(Statement) /\ Len(<<a, b>>) = 2
  OBVIOUS
<1> HIDE DEF ab
<1>4. \A i \in 1..Len(ab) : ab[i] = <<a, b>>[i]
  BY <1>1, <1>2
<1>5. ab = <<a, b>>
  BY <1>1, <1>3, <1>4, SeqEqual
<1> QED
  BY <1>5 DEF ab

LEMMA JoinTwos ==
    ASSUME NEW a \in Statement, NEW b \in Statement,
           NEW c \in Statement, NEW d \in Statement
    PROVE  <<a, b>> \o <<c, d>> = <<a, b, c, d>>
<1> DEFINE cat == <<a, b>> \o <<c, d>>
<1>1. cat \in Seq(Statement) /\ Len(cat) = 4
  OBVIOUS
<1>2. cat[1] = a /\ cat[2] = b /\ cat[3] = c /\ cat[4] = d
  OBVIOUS
<1>3. <<a, b, c, d>> \in Seq(Statement) /\ Len(<<a, b, c, d>>) = 4
  OBVIOUS
<1> HIDE DEF cat
<1>4. \A i \in 1..Len(cat) : cat[i] = <<a, b, c, d>>[i]
  BY <1>1, <1>2
<1>5. cat = <<a, b, c, d>>
  BY <1>1, <1>3, <1>4, SeqEqual
<1> QED
  BY <1>5 DEF cat

LEMMA HoldFresh == Fresh(Hold)
<1>1. Fresh(<<Log("rule", "hold")>> \o <<Do("enqueue")>>)
  BY LogFresh, DoFresh, FreshConcat
<1>2. <<Log("rule", "hold")>> \o <<Do("enqueue")>> = Hold
  BY LogType, DoType, JoinOnes DEF Hold
<1> QED
  BY <1>1, <1>2

LEMMA RecallFresh == Fresh(Recall)
<1>1. Fresh(<<Set("rule", "hold", "pending"), Log("rule", "hold")>>)
  BY ChangeFresh
<1>2. <<Do("open")>> \o <<Do("enqueue")>> = <<Do("open"), Do("enqueue")>>
  BY DoType, JoinOnes
<1>3. Fresh(<<Do("open"), Do("enqueue")>>)
  <2>1. Fresh(<<Do("open")>> \o <<Do("enqueue")>>)
    BY DoFresh, FreshConcat
  <2> QED
    BY <1>2, <2>1
<1>4. <<Set("rule", "hold", "pending"), Log("rule", "hold")>> \o
         <<Do("open"), Do("enqueue")>> = Recall
  BY LogType, SetType, DoType, JoinTwos DEF Recall
<1> QED
  BY <1>1, <1>3, <1>4, FreshConcat

LEMMA PairFresh ==
    ASSUME NEW a \in Statement, NEW b \in Statement,
           Fresh(<<a>>), Fresh(<<b>>)
    PROVE  Fresh(<<a, b>>)
BY JoinOnes, FreshConcat

\* The account's row follows the tombstones of its posts.
LEMMA EraseFresh == Fresh(<<Do("tombstone"), Do("record")>>)
<1> DEFINE plan == <<Do("tombstone"), Do("record")>>
<1>1. plan \in Seq(Statement) /\ Len(plan) = 2
  BY DoType
<1>2. plan[1] = Do("tombstone") /\ plan[2] = Do("record")
  OBVIOUS
<1>3. plan[1].do = "tombstone" /\ plan[2].do = "record"
  BY DEF Do
<1> HIDE DEF plan
<1>4. Paired(plan)
  BY <1>1, <1>2, <1>3 DEF Paired, Closing, Changing
<1>5. ASSUME NEW i \in 1..Len(plan) PROVE ~ByModel(plan[i])
  BY <1>1, <1>3 DEF ByModel
<1> QED
  BY <1>1, <1>4, <1>5 DEF Fresh, plan

\* h was idle; it starts with a plan, and nothing else has happened.
Begins(h) ==
    /\ ~Busy(h)
    /\ UNCHANGED <<tables, history>>
    /\ \E p \in Posts, u \in Users : \E plan : Fresh(plan) /\ Start(h, p, u, plan)

LEMMA RequestBegins ==
    ASSUME NEW h \in Webs, WebRequest(h)
    PROVE  Begins(h)
<1>1. ASSUME NEW op, NEW u, Request(h, op, u)
      PROVE  ~Busy(h) /\ UNCHANGED <<tables, history>>
  BY <1>1 DEF Request, tables, history
<1>2. PICK p \in Posts : \/ Write(h, p) \/ Edit(h, p) \/ Appeal(h, p)
         \/ \E u \in Users : \/ Delete(h, p, u) \/ Report(h, p, u)
                             \/ DeleteAccount(h, p, u)
                             \/ \E to \in PostState : \/ Review(h, p, u, to)
                                                      \/ SetState(h, p, u, to)
  BY DEF WebRequest
<1>3. Author[p] \in Users
  BY ModerationAssumption
<1>4. ASSUME NEW to \in PostState, NEW call \in {"insert", "body"}
      PROVE  Fresh(<<Text(call, to)>>)
  <2>1. Text(call, to) \in Statement /\ Text(call, to).do \notin Changing
    BY DEF Text, Statement, Changing
  <2> QED
    BY <2>1, CallFresh
<1>5. Triaged(p) \subseteq PostState
  BY DEF Triaged
<1>6. CASE Write(h, p)
  <2>1. PICK to \in Triaged(p) :
           Start(h, p, Author[p], <<Text("insert", to)>> \o
                 IF to = "pending" THEN Hold ELSE <<>>)
    BY <1>6 DEF Write
  <2>2. Fresh(<<Text("insert", to)>>) /\ Fresh(IF to = "pending" THEN Hold ELSE <<>>)
    BY <1>4, <1>5, HoldFresh, EmptyFresh
  <2>3. Fresh(<<Text("insert", to)>> \o (IF to = "pending" THEN Hold ELSE <<>>))
    BY <2>2, FreshConcat
  <2> QED
    BY <2>1, <2>3, <1>1, <1>3, <1>6 DEF Write, Begins
<1>7. CASE Edit(h, p)
  <2> DEFINE Text1(to) == <<Text("body", to), Log("user", "edit")>>
             Hold1 == <<Set("rule", "hold", "pending")>> \o Hold
  <2>1. PICK to \in Triaged(p) :
           Start(h, p, Author[p], Text1(to) \o
                 IF to = "pending" /\ state[p] = "visible"
                 THEN Hold1 ELSE <<>>)
    BY <1>7 DEF Edit
  <2>2. Fresh(Text1(to))
    <3>1. Text("body", to) \in Statement /\ Log("user", "edit") \in Statement
      BY <1>5, LogType DEF Text, Statement
    <3>2. Fresh(<<Text("body", to)>>) /\ Fresh(<<Log("user", "edit")>>)
      BY <1>4, <1>5, LogFresh
    <3> QED
      BY <3>1, <3>2, PairFresh
  <2>3. Fresh(Hold1)
    <3> DEFINE set == Set("rule", "hold", "pending")
               held == <<set, Log("rule", "hold")>>
               told == <<Do("enqueue")>>
    <3>1. Fresh(held \o told)
      BY ChangeFresh, DoFresh, FreshConcat
    <3>2. held = <<set>> \o <<Log("rule", "hold")>>
      BY SetType, LogType, JoinOnes
    <3>3. Hold = <<Log("rule", "hold")>> \o told
      BY LogType, DoType, JoinOnes DEF Hold
    <3>4. /\ <<set>> \in Seq(Statement) /\ told \in Seq(Statement)
          /\ <<Log("rule", "hold")>> \in Seq(Statement)
      BY SetType, LogType, DoType
    <3> HIDE DEF set, told
    <3>5. (<<set>> \o <<Log("rule", "hold")>>) \o told
             = <<set>> \o (<<Log("rule", "hold")>> \o told)
      BY <3>4, ConcatAssociative
    <3> QED
      BY <3>1, <3>2, <3>3, <3>5 DEF set
  <2> HIDE DEF Text1, Hold1
  <2>4. Fresh(IF to = "pending" /\ state[p] = "visible" THEN Hold1 ELSE <<>>)
    BY <2>3, EmptyFresh
  <2>5. Fresh(Text1(to) \o (IF to = "pending" /\ state[p] = "visible"
                            THEN Hold1 ELSE <<>>))
    BY <2>2, <2>4, FreshConcat
  <2> QED
    BY <2>1, <2>5, <1>1, <1>3, <1>7 DEF Edit, Begins
<1>8. CASE Appeal(h, p)
  <2>1. Fresh(<<Do("open"), Log("user", "appeal")>>)
    BY DoType, LogType, DoFresh, LogFresh, PairFresh
  <2> QED
    BY <2>1, <1>1, <1>3, <1>8 DEF Appeal, Begins
<1>9. ASSUME NEW u \in Users, Delete(h, p, u) PROVE Begins(h)
  <2>1. Fresh(<<Set("user", "delete", "deleted"), Log("user", "delete")>>)
    BY ChangeFresh
  <2> QED
    BY <2>1, <1>1, <1>9 DEF Delete, Begins
<1>10. ASSUME NEW u \in Users, Report(h, p, u) PROVE Begins(h)
  BY <1>1, <1>10, DoFresh DEF Report, Begins
<1>11. ASSUME NEW u \in Users, DeleteAccount(h, p, u) PROVE Begins(h)
  <2>1. Fresh(<<Do("forget"), Do("sessions")>> \o <<Do("tombstone"), Do("record")>>)
    BY DoType, DoFresh, PairFresh, EraseFresh, FreshConcat DEF Changing
  <2>2. <<Do("forget"), Do("sessions")>> \o <<Do("tombstone"), Do("record")>> =
           <<Do("forget"), Do("sessions"), Do("tombstone"), Do("record")>>
    BY DoType, JoinTwos
  <2> QED
    BY <2>1, <2>2, <1>1, <1>11 DEF DeleteAccount, Begins
<1>12. ASSUME NEW u \in Users, NEW to \in PostState, Review(h, p, u, to)
       PROVE  Begins(h)
  <2> DEFINE resolve == [Do("resolve") EXCEPT !.to = to]
  <2>1. resolve \in Statement /\ resolve.do \notin Changing
    BY DEF Do, Statement, Changing
  <2>2. Fresh(<<resolve>>)
    BY <2>1, CallFresh
  <2> QED
    BY <2>2, <1>1, <1>12 DEF Review, Begins
<1>13. ASSUME NEW u \in Users, NEW to \in PostState, SetState(h, p, u, to)
       PROVE  Begins(h)
  <2>1. ActionFor(to) \in Action
    BY DEF ActionFor
  <2>2. Fresh(<<Set("user", ActionFor(to), to), Log("user", ActionFor(to))>>)
    BY <2>1, ChangeFresh
  <2> QED
    BY <2>2, <1>1, <1>13 DEF SetState, Begins
<1> QED
  BY <1>2, <1>6, <1>7, <1>8, <1>9, <1>10, <1>11, <1>12, <1>13

LEMMA ProcessBegins ==
    ASSUME NEW h \in Procs, NEW p \in Posts, Process(h, p), ~Busy(h),
           UNCHANGED <<tables, history>>
    PROVE  Begins(h)
<1> DEFINE First(enabled) == IF state[p] # "pending" THEN <<>>
                             ELSE IF enabled THEN <<Do("classify")>> ELSE Release
<1>1. PICK enabled \in PolicyReads :
         Start(h, p, Author[p], First(enabled) \o AckOf(h))
  BY DEF Process
<1>2. Fresh(First(enabled))
  BY ReleaseFresh, DoFresh, EmptyFresh
<1> HIDE DEF First
<1>3. Fresh(First(enabled) \o AckOf(h))
  BY <1>2, AckOfFresh, FreshConcat
<1>4. Author[p] \in Users
  BY ModerationAssumption
<1> QED
  BY <1>1, <1>3, <1>4 DEF Begins

-----------------------------------------------------------------------------
(* The shape of every plan, at every moment.                               *)

Shaped(plan, rows) ==
    plan \in Seq(Statement) /\ Paired(plan) /\ Foretold(plan, rows)

AllShaped == \A h \in Procs : Shaped(run[h].plan, log[run[h].post])

LEMMA FreshShaped ==
    ASSUME NEW plan, Fresh(plan), NEW rows
    PROVE  Shaped(plan, rows)
BY DEF Fresh, Shaped, Foretold

LEMMA ShapedConcat ==
    ASSUME NEW a, NEW b, NEW rows, Shaped(a, rows), Shaped(b, rows)
    PROVE  Shaped(a \o b, rows)
<1>1. a \in Seq(Statement) /\ b \in Seq(Statement) /\ a \o b \in Seq(Statement)
  BY DEF Shaped
<1>2. Paired(a \o b)
  BY <1>1, PairedConcat DEF Shaped
<1>3. ASSUME NEW i \in 1..Len(a \o b), ByModel((a \o b)[i]), Classified \notin rows
      PROVE  \E j \in 1..Len(a \o b) : j < i /\ Logs((a \o b)[j], Classified)
  <2>1. CASE i <= Len(a)
    <3>1. i \in 1..Len(a) /\ (a \o b)[i] = a[i]
      BY <1>1, <2>1
    <3>2. PICK j \in 1..Len(a) : j < i /\ Logs(a[j], Classified)
      BY <1>3, <3>1 DEF Shaped, Foretold
    <3>3. j \in 1..Len(a \o b) /\ (a \o b)[j] = a[j]
      BY <1>1
    <3> QED
      BY <3>2, <3>3
  <2>2. CASE i > Len(a)
    <3>1. i - Len(a) \in 1..Len(b) /\ (a \o b)[i] = b[i - Len(a)]
      BY <1>1, <2>2
    <3>2. PICK j \in 1..Len(b) : j < i - Len(a) /\ Logs(b[j], Classified)
      BY <1>3, <3>1 DEF Shaped, Foretold
    <3>3. j + Len(a) \in 1..Len(a \o b) /\ (a \o b)[j + Len(a)] = b[j]
      BY <1>1
    <3>4. j + Len(a) < i
      BY <1>1, <3>2
    <3> QED
      BY <3>2, <3>3, <3>4
  <2> QED
    BY <1>1, <2>1, <2>2
<1> QED
  BY <1>1, <1>2, <1>3 DEF Shaped, Foretold

LEMMA TailShaped ==
    ASSUME NEW plan, NEW rows, NEW more, Shaped(plan, rows), plan # <<>>,
           rows \subseteq more,
           Logs(Head(plan), Classified) => Classified \in more
    PROVE  Shaped(Tail(plan), more)
<1>1. plan \in Seq(Statement)
  BY DEF Shaped
<1>2. /\ Tail(plan) \in Seq(Statement) /\ Len(Tail(plan)) = Len(plan) - 1
      /\ \A i \in 1..Len(Tail(plan)) : Tail(plan)[i] = plan[i + 1]
      /\ Len(plan) \in Nat /\ Head(plan) = plan[1]
  BY <1>1, HeadTailProperties
<1>3. Paired(Tail(plan))
  <2> SUFFICES ASSUME NEW i \in 1..Len(Tail(plan)), Tail(plan)[i].do \in Changing
               PROVE  /\ i < Len(Tail(plan))
                      /\ Tail(plan)[i + 1] = Closing(Tail(plan)[i])
    BY DEF Paired
  <2>1. i + 1 \in 1..Len(plan) /\ Tail(plan)[i] = plan[i + 1]
    BY <1>2
  <2>2. /\ i + 1 < Len(plan)
        /\ plan[(i + 1) + 1] = Closing(plan[i + 1])
    BY <2>1 DEF Shaped, Paired
  <2>3. i + 1 \in 1..Len(Tail(plan))
    BY <1>2, <2>2
  <2>4. Tail(plan)[i + 1] = plan[(i + 1) + 1]
    BY <1>2, <2>3
  <2> QED
    BY <1>2, <2>1, <2>2, <2>4
<1>4. ASSUME NEW i \in 1..Len(Tail(plan)), ByModel(Tail(plan)[i]), Classified \notin more
      PROVE  \E j \in 1..Len(Tail(plan)) : j < i /\ Logs(Tail(plan)[j], Classified)
  <2>1. i + 1 \in 1..Len(plan) /\ ByModel(plan[i + 1]) /\ Classified \notin rows
    BY <1>2, <1>4
  <2>2. PICK j \in 1..Len(plan) : j < i + 1 /\ Logs(plan[j], Classified)
    BY <2>1 DEF Shaped, Foretold
  <2>3. j # 1
    BY <1>2, <1>4, <2>2
  <2>4. j - 1 \in 1..Len(Tail(plan)) /\ j - 1 < i
    BY <1>2, <2>2, <2>3
  <2>5. Tail(plan)[j - 1] = plan[(j - 1) + 1] /\ (j - 1) + 1 = j
    BY <1>2, <2>4
  <2> QED
    BY <2>2, <2>4, <2>5
<1> QED
  BY <1>2, <1>3, <1>4 DEF Shaped, Foretold

\* process_post: the verdict's row, then the change, then its row.
LEMMA AppliedShaped ==
    ASSUME NEW act \in Action, NEW to \in PostState, NEW rows
    PROVE  Shaped(<<Log("model", "classify"), Set("model", act, to),
                    Log("model", act)>>, rows)
<1> DEFINE plan == <<Log("model", "classify"), Set("model", act, to), Log("model", act)>>
<1>1. plan \in Seq(Statement) /\ Len(plan) = 3
  BY SetType, LogType
<1>2. /\ plan[1] = Log("model", "classify")
      /\ plan[2] = Set("model", act, to) /\ plan[3] = Log("model", act)
  OBVIOUS
<1>3. /\ plan[1].do = "log" /\ plan[2].do = "set" /\ plan[3].do = "log"
      /\ plan[2].who = "model" /\ plan[2].act = act
  BY DEF Set, Log
<1>4. Logs(plan[1], Classified)
  BY DEF Logs, Log, Classified
<1> HIDE DEF plan
<1>5. Paired(plan)
  BY <1>1, <1>2, <1>3 DEF Paired, Closing, Changing
<1>6. Foretold(plan, rows)
  BY <1>1, <1>3, <1>4 DEF Foretold, ByModel
<1>7. Shaped(plan, rows)
  BY <1>1, <1>5, <1>6 DEF Shaped
<1> QED
  BY <1>7 DEF plan

LEMMA VerdictShaped == ASSUME NEW answer, NEW rows PROVE Shaped(Verdict(answer), rows)
<1> DEFINE publish == <<Log("model", "classify"), Set("model", "publish", "visible"),
                        Log("model", "publish")>>
           hide == <<Log("model", "classify"), Set("model", "hide", "hidden"),
                     Log("model", "hide")>>
           ask == <<Do("open")>>
<1>1. Shaped(publish, rows) /\ Shaped(hide, rows)
  BY AppliedShaped
<1>2. Fresh(<<Log("model", "classify"), Do("open")>>)
  BY LogType, DoType, LogFresh, DoFresh, PairFresh
<1>3. Fresh(<<Log("system", "classify_failed"), Do("open")>>)
  BY LogType, DoType, LogFresh, DoFresh, PairFresh
<1>4. Shaped(hide \o ask, rows)
  BY <1>1, DoFresh, FreshShaped, ShapedConcat
<1>5. hide \o ask = <<Log("model", "classify"), Set("model", "hide", "hidden"),
                      Log("model", "hide"), Do("open")>>
  <2> DEFINE all == <<Log("model", "classify"), Set("model", "hide", "hidden"),
                      Log("model", "hide"), Do("open")>>
             cat == hide \o ask
  <2>1. /\ all \in Seq(Statement) /\ Len(all) = 4
        /\ hide \in Seq(Statement) /\ Len(hide) = 3
        /\ ask \in Seq(Statement) /\ Len(ask) = 1
    BY LogType, SetType, DoType
  <2>2. cat \in Seq(Statement) /\ Len(cat) = 4
    BY <2>1
  <2>3. cat[1] = all[1] /\ cat[2] = all[2] /\ cat[3] = all[3] /\ cat[4] = all[4]
    BY <2>1
  <2> HIDE DEF all, cat
  <2>4. \A i \in 1..Len(cat) : cat[i] = all[i]
    BY <2>2, <2>3
  <2>5. cat = all
    BY <2>1, <2>2, <2>4, SeqEqual
  <2> QED
    BY <2>5 DEF cat, all
<1> QED
  BY <1>1, <1>2, <1>3, <1>4, <1>5, FreshShaped DEF Verdict

-----------------------------------------------------------------------------
(* The steps, by what they do to plans, logs and changes.                  *)

\* Neither a handler nor a table the theorems are about takes part.
Aside == UNCHANGED <<state, item, signals, log, erased, run, history>>

\* A store call that changes no state and writes no row.
Elsewhere(h) ==
    /\ Busy(h) /\ NextCall(h).do \notin {"set", "log", "tombstone", "record"}
    /\ UNCHANGED <<log, erased, changed>>
    /\ \E plan : /\ Continue(h, plan)
                 /\ \/ plan = Rest(h)
                    \/ Fresh(plan)
                    \/ \E answer : plan = Verdict(answer) \o Rest(h)

LEMMA StepCases ==
    ASSUME TypeOK, NEW h \in Procs, Step(h)
    PROVE  \/ LogAction(h) \/ SetPostState(h) \/ TombstoneUserPosts(h)
           \/ RecordDeletion(h) \/ Elsewhere(h)
<1> USE DEF tables, history, quiet
<1>1. CASE ClassifierAnswers(h)
  BY <1>1 DEF ClassifierAnswers, At, Elsewhere
<1>2. CASE InsertPost(h)
  BY <1>2 DEF InsertPost, At, Elsewhere
<1>3. CASE OpenReview(h)
  BY <1>3 DEF OpenReview, At, Elsewhere
<1>4. CASE ResolveReview(h)
  <2>1. NextCall(h).to \in PostState
    BY <1>4, BusyType DEF ResolveReview, At, Statement
  <2>2. Fresh(Decide(NextCall(h).to)) /\ Fresh(<<>>)
    BY <2>1, DecideFresh, EmptyFresh
  <2>3. /\ Busy(h) /\ NextCall(h).do \notin {"set", "log", "tombstone", "record"}
        /\ UNCHANGED <<log, erased, changed>>
    BY <1>4 DEF ResolveReview, At
  <2>4. Continue(h, Decide(NextCall(h).to)) \/ Continue(h, <<>>)
    BY <1>4 DEF ResolveReview
  <2> QED
    BY <2>2, <2>3, <2>4 DEF Elsewhere
<1>5. CASE AddReport(h)
  <2>1. PICK again \in BOOLEAN : Continue(h, IF again THEN <<>> ELSE <<Do("count")>>)
    BY <1>5 DEF AddReport
  <2>2. Fresh(IF again THEN <<>> ELSE <<Do("count")>>)
    BY EmptyFresh, DoFresh
  <2>3. /\ Busy(h) /\ NextCall(h).do \notin {"set", "log", "tombstone", "record"}
        /\ UNCHANGED <<log, erased, changed>>
    BY <1>5 DEF AddReport, At
  <2> QED
    BY <2>1, <2>2, <2>3 DEF Elsewhere
<1>6. CASE CountReports(h)
  <2>1. PICK tip \in BOOLEAN :
           Continue(h, <<Log("user", "report")>> \o IF tip THEN Recall ELSE <<>>)
    BY <1>6 DEF CountReports, Tips
  <2>2. Fresh(<<Log("user", "report")>>) /\ Fresh(IF tip THEN Recall ELSE <<>>)
    BY LogFresh, RecallFresh, EmptyFresh
  <2>3. Fresh(<<Log("user", "report")>> \o IF tip THEN Recall ELSE <<>>)
    BY <2>2, FreshConcat
  <2>4. /\ Busy(h) /\ NextCall(h).do \notin {"set", "log", "tombstone", "record"}
        /\ UNCHANGED <<log, erased, changed>>
    BY <1>6 DEF CountReports, At
  <2> QED
    BY <2>1, <2>3, <2>4 DEF Elsewhere
<1>7. CASE UpdatePostBody(h)
  BY <1>7 DEF UpdatePostBody, At, Elsewhere
<1>8. CASE EnqueueJob(h)
  BY <1>8 DEF EnqueueJob, At, Elsewhere
<1>9. CASE Acknowledge(h)
  BY <1>9 DEF Acknowledge, At, Elsewhere
<1>10. CASE SetUserState(h)
  BY <1>10 DEF SetUserState, At, Elsewhere
<1>11. CASE DeleteUserSessions(h)
  BY <1>11 DEF DeleteUserSessions, At, Elsewhere
<1> QED
  BY <1>1, <1>2, <1>3, <1>4, <1>5, <1>6, <1>7, <1>8, <1>9, <1>10, <1>11 DEF Step

\* What becomes of the posts of a deleted account.
LEMMA Tombstoned ==
    ASSUME TypeOK, NEW h \in Procs, TombstoneUserPosts(h)
    PROVE  /\ Busy(h) /\ NextCall(h).do = "tombstone" /\ Continue(h, Rest(h))
           /\ UNCHANGED <<log, erased>>
           /\ \A p \in Posts :
                 \/ changed'[p] = changed[p]
                 \/ /\ changed'[p] = changed[p] \cup {Deletion}
                    /\ Author[p] = Author[run[h].post] /\ state'[p] = "deleted"
<1>1. PICK hit : /\ \A p \in hit : Author[p] = Author[run[h].post]
                 /\ state' = [p \in Posts |-> IF p \in hit THEN "deleted" ELSE state[p]]
                 /\ changed' = [p \in Posts |-> IF p \in hit THEN changed[p] \cup {Deletion}
                                                ELSE changed[p]]
  BY DEF TombstoneUserPosts
<1>2. /\ Busy(h) /\ NextCall(h).do = "tombstone" /\ Continue(h, Rest(h))
      /\ UNCHANGED <<log, erased>>
  BY DEF TombstoneUserPosts, At
<1> QED
  BY <1>1, <1>2

LEMMA NextCases ==
    ASSUME TypeOK, [Next]_vars
    PROVE  \/ Aside
           \/ \E h \in Procs : Begins(h) \/ Step(h) \/ Fail(h)
<1>1. Webs \subseteq Procs /\ Consumers \subseteq Procs /\ Sweepers \subseteq Procs
  BY DEF Procs
<1>2. ASSUME NEW h \in Webs, WebRequest(h) PROVE Begins(h)
  BY <1>2, RequestBegins
<1>3. ASSUME NEW h \in Consumers, NEW p \in Posts, Deliver(h, p) PROVE Begins(h)
  BY <1>1, <1>3, ProcessBegins DEF Deliver, tables, history
<1>4. ASSUME NEW h \in Sweepers, SweepNext(h) PROVE Begins(h)
  <2>1. PICK p \in Oldest(1, work[h]) : Process(h, p)
    BY <1>4 DEF SweepNext
  <2>2. ~Busy(h) /\ UNCHANGED <<tables, history>>
    BY <1>4 DEF SweepNext, tables, history
  <2>3. p \in Posts
    BY <2>1 DEF Oldest, TypeOK
  <2> QED
    BY <1>1, <2>1, <2>2, <2>3, ProcessBegins
<1>5. ASSUME NEW h \in Sweepers, Sweep(h) PROVE Aside
  BY <1>5 DEF Sweep, Aside, tables, history
<1>6. ASSUME NEW p \in Posts, LoseJob(p) PROVE Aside
  BY <1>6 DEF LoseJob, Aside, history
<1>7. CASE UNCHANGED vars
  BY <1>7 DEF vars, tables, history, Aside
<1> QED
  BY <1>1, <1>2, <1>3, <1>4, <1>5, <1>6, <1>7 DEF Next

-----------------------------------------------------------------------------
(* One opening of a review item is resolved once.                          *)

\* While an item is open, nobody has resolved this opening.
Undecided == \A p \in Posts : item[p] = "open" => decisions[p] = 0

LEMMA DecisionStep ==
    ASSUME TypeOK, Undecided, OneDecisionPerOpening, [Next]_vars
    PROVE  Undecided' /\ OneDecisionPerOpening'
<1> USE DEF Undecided, OneDecisionPerOpening
<1>1. CASE UNCHANGED <<item, decisions>>
  BY <1>1
<1>2. ASSUME NEW h \in Procs, OpenReview(h)
      PROVE  Undecided' /\ OneDecisionPerOpening'
  BY <1>2 DEF OpenReview, TypeOK
<1>3. ASSUME NEW h \in Procs, ResolveReview(h)
      PROVE  Undecided' /\ OneDecisionPerOpening'
  <2>1. CASE UNCHANGED <<item, decisions>>
    BY <1>1, <2>1
  <2>2. ASSUME NEW p \in Posts, Resolvable(p),
               item' = [item EXCEPT ![p] = "resolved"],
               decisions' = [decisions EXCEPT ![p] = @ + 1]
        PROVE  Undecided' /\ OneDecisionPerOpening'
    <3>1. decisions[p] = 0
      BY <2>2 DEF Resolvable
    <3>2. \A q \in Posts : q # p => item'[q] = item[q] /\ decisions'[q] = decisions[q]
      BY <2>2 DEF TypeOK
    <3>3. item'[p] = "resolved" /\ decisions'[p] = 1
      BY <2>2, <3>1 DEF TypeOK
    <3> QED
      BY <3>2, <3>3
  <2>3. run[h].post \in Posts
    BY <1>3, BusyType DEF ResolveReview, At
  <2> QED
    BY <1>3, <2>1, <2>2, <2>3 DEF ResolveReview
<1>4. ASSUME NEW h \in Procs, Step(h), ~OpenReview(h), ~ResolveReview(h)
      PROVE  UNCHANGED <<item, decisions>>
  BY <1>4 DEF Step, ClassifierAnswers, InsertPost, SetPostState, LogAction,
         AddReport, CountReports, UpdatePostBody, EnqueueJob, Acknowledge,
         SetUserState, DeleteUserSessions, TombstoneUserPosts,
         RecordDeletion, tables, history
<1>5. ASSUME NEW h \in Procs, Begins(h) \/ Fail(h)
      PROVE  UNCHANGED <<item, decisions>>
  BY <1>5 DEF Begins, Fail, tables, history
<1>6. CASE Aside
  BY <1>1, <1>6 DEF Aside, history
<1> QED
  BY <1>1, <1>2, <1>3, <1>4, <1>5, <1>6, NextCases

\* resolve_review: however many moderators press a button on the same item,
\* each opening of it is decided at most once.
THEOREM OneDecision == Spec => []OneDecisionPerOpening
<1>1. Init => Undecided /\ OneDecisionPerOpening
  BY DEF Init, Undecided, OneDecisionPerOpening
<1>2. TypeOK /\ Undecided /\ OneDecisionPerOpening /\ [Next]_vars
         => Undecided' /\ OneDecisionPerOpening'
  BY DecisionStep
<1> QED
  BY <1>1, <1>2, TypeCorrect, PTL DEF Spec

-----------------------------------------------------------------------------
(* The plans keep their shape, and the model is logged first.              *)

LEMMA InitShaped == Init => AllShaped
<1> SUFFICES ASSUME Init, NEW h \in Procs
             PROVE  Shaped(run[h].plan, log[run[h].post])
  BY DEF AllShaped
<1>1. run[h].plan = <<>>
  BY DEF Init, Idle
<1> QED
  BY <1>1, EmptyFresh, FreshShaped

\* A handler that goes on with a shaped plan disturbs nobody else's.
LEMMA OneMoves ==
    ASSUME TypeOK, AllShaped, NEW h \in Procs,
           \A p \in Posts : log[p] \subseteq log'[p],
           \A g \in Procs \ {h} : run'[g] = run[g],
           Shaped(run'[h].plan, log'[run'[h].post])
    PROVE  AllShaped'
<1> SUFFICES ASSUME NEW g \in Procs, g # h
             PROVE  Shaped(run[g].plan, log'[run[g].post])
  BY DEF AllShaped
<1>1. run[g].post \in Posts
  BY DEF TypeOK, Run
<1>2. log[run[g].post] \subseteq log'[run[g].post]
  BY <1>1
<1>3. Shaped(run[g].plan, log[run[g].post])
  BY DEF AllShaped
<1> QED
  BY <1>2, <1>3 DEF Shaped, Foretold

\* What Continue leaves in the handler's record.
LEMMA Continued ==
    ASSUME TypeOK, NEW h \in Procs, NEW plan \in Seq(Statement), Continue(h, plan)
    PROVE  /\ \A g \in Procs \ {h} : run'[g] = run[g]
           /\ run'[h].plan = plan
           /\ plan # <<>> => run'[h].post = run[h].post
<1>1. run[h] \in Run /\ run \in [Procs -> Run]
  BY DEF TypeOK
<1>2. run' = [run EXCEPT ![h] = IF plan = <<>> THEN Idle
                                ELSE [run[h] EXCEPT !.plan = plan]]
  BY DEF Continue
<1>3. \A g \in Procs \ {h} : run'[g] = run[g]
  BY <1>1, <1>2
<1>4. CASE plan = <<>>
  <2>1. run'[h] = Idle
    BY <1>1, <1>2, <1>4
  <2> QED
    BY <1>3, <1>4, <2>1 DEF Idle
<1>5. CASE plan # <<>>
  <2>1. run'[h] = [run[h] EXCEPT !.plan = plan]
    BY <1>1, <1>2, <1>5
  <2>2. run'[h].plan = plan /\ run'[h].post = run[h].post
    BY <1>1, <2>1 DEF Run
  <2> QED
    BY <1>3, <2>2
<1> QED
  BY <1>4, <1>5

LEMMA Begun ==
    ASSUME TypeOK, NEW h \in Procs, Begins(h)
    PROVE  /\ \A g \in Procs \ {h} : run'[g] = run[g]
           /\ Fresh(run'[h].plan)
<1>0. PICK p \in Posts, u \in Users : \E plan : Fresh(plan) /\ Start(h, p, u, plan)
  BY DEF Begins
<1>1. PICK plan : Fresh(plan) /\ Start(h, p, u, plan)
  BY <1>0
<1>2. run' = [run EXCEPT ![h] = IF plan = <<>> THEN Idle
                ELSE [plan |-> plan, post |-> p, seen |-> Seen(p), user |-> u]]
  BY <1>1 DEF Start
<1>3. run'[h] = IF plan = <<>> THEN Idle
                ELSE [plan |-> plan, post |-> p, seen |-> Seen(p), user |-> u]
  BY <1>2 DEF TypeOK
<1>4. run'[h].plan = plan
  BY <1>3 DEF Idle
<1>5. \A g \in Procs \ {h} : run'[g] = run[g]
  BY <1>2 DEF TypeOK
<1> QED
  BY <1>1, <1>4, <1>5

\* Going on with a shaped plan keeps every plan shaped.
LEMMA ShapedMoves ==
    ASSUME TypeOK, AllShaped, NEW h \in Procs, NEW plan,
           \A p \in Posts : log[p] \subseteq log'[p],
           Continue(h, plan), Shaped(plan, log'[run[h].post])
    PROVE  AllShaped'
<1>1. plan \in Seq(Statement)
  BY DEF Shaped
<1>2. /\ \A g \in Procs \ {h} : run'[g] = run[g]
      /\ run'[h].plan = plan
      /\ plan # <<>> => run'[h].post = run[h].post
  BY <1>1, Continued
<1>3. Shaped(run'[h].plan, log'[run'[h].post])
  BY <1>2, EmptyFresh, FreshShaped
<1> QED
  BY <1>2, <1>3, OneMoves

LEMMA ShapedStep ==
    ASSUME TypeOK, AllShaped, [Next]_vars
    PROVE  AllShaped'
<1>1. CASE Aside
  BY <1>1 DEF Aside, AllShaped
<1>2. ASSUME NEW h \in Procs, Begins(h) PROVE AllShaped'
  <2>1. \A p \in Posts : log[p] \subseteq log'[p]
    BY <1>2 DEF Begins, tables
  <2> QED
    BY <1>2, <2>1, Begun, FreshShaped, OneMoves
<1>3. ASSUME NEW h \in Procs, Fail(h) PROVE AllShaped'
  <2>1. Continue(h, <<>>) /\ \A p \in Posts : log[p] \subseteq log'[p]
    BY <1>3 DEF Fail, tables
  <2> QED
    BY <2>1, EmptyFresh, FreshShaped, ShapedMoves
<1>4. ASSUME NEW h \in Procs, Step(h) PROVE AllShaped'
  <2>0. Shaped(run[h].plan, log[run[h].post])
    BY DEF AllShaped
  <2>1. CASE LogAction(h)
    <3>1. Busy(h) /\ Continue(h, Rest(h))
      BY <2>1 DEF LogAction, At
    <3>2. run[h].post \in Posts
      BY <3>1, BusyType
    <3>3. log' = [log EXCEPT ![run[h].post] =
                    @ \cup {[who |-> NextCall(h).who, act |-> NextCall(h).act]}]
      BY <2>1 DEF LogAction
    <3>4. \A p \in Posts : log[p] \subseteq log'[p]
      BY <3>2, <3>3 DEF TypeOK
    <3>5. [who |-> NextCall(h).who, act |-> NextCall(h).act] \in log'[run[h].post]
      BY <3>2, <3>3 DEF TypeOK
    <3>6. Logs(Head(run[h].plan), Classified) => Classified \in log'[run[h].post]
      BY <3>5 DEF Logs, Classified, NextCall
    <3>7. log[run[h].post] \subseteq log'[run[h].post]
      BY <3>2, <3>4
    <3>8. Shaped(Rest(h), log'[run[h].post])
      BY <2>0, <3>1, <3>6, <3>7, TailShaped DEF Rest, Busy
    <3> QED
      BY <3>1, <3>4, <3>8, ShapedMoves
  <2>2. ASSUME Busy(h), NextCall(h).do # "log", log' = log
        PROVE  Shaped(Rest(h), log'[run[h].post])
    <3>1. ~Logs(Head(run[h].plan), Classified)
      BY <2>2 DEF Logs, NextCall
    <3> QED
      BY <2>0, <2>2, <3>1, TailShaped DEF Rest, Busy
  <2>3. CASE SetPostState(h)
    <3>1. /\ Busy(h) /\ NextCall(h).do # "log" /\ log' = log
          /\ Continue(h, Rest(h))
      BY <2>3 DEF SetPostState, At
    <3> QED
      BY <2>2, <3>1, ShapedMoves
  <2>4. CASE Elsewhere(h)
    <3>1. Busy(h) /\ NextCall(h).do # "log" /\ log' = log
      BY <2>4 DEF Elsewhere
    <3>2. PICK plan : /\ Continue(h, plan)
                      /\ \/ plan = Rest(h)
                         \/ Fresh(plan)
                         \/ \E answer : plan = Verdict(answer) \o Rest(h)
      BY <2>4 DEF Elsewhere
    <3>3. Shaped(Rest(h), log'[run[h].post])
      BY <2>2, <3>1
    <3>4. Shaped(plan, log'[run[h].post])
      <4>1. CASE plan = Rest(h)
        BY <3>3, <4>1
      <4>2. CASE Fresh(plan)
        BY <4>2, FreshShaped
      <4>3. ASSUME NEW answer, plan = Verdict(answer) \o Rest(h)
            PROVE  Shaped(plan, log'[run[h].post])
        <5>1. Shaped(Verdict(answer), log'[run[h].post])
          BY VerdictShaped
        <5>2. Shaped(Verdict(answer) \o Rest(h), log'[run[h].post])
          BY <3>3, <5>1, ShapedConcat
        <5> QED
          BY <4>3, <5>2
      <4> QED
        BY <3>2, <4>1, <4>2, <4>3
    <3> QED
      BY <3>1, <3>2, <3>4, ShapedMoves
  <2>5. CASE TombstoneUserPosts(h) \/ RecordDeletion(h)
    <3>1. /\ Busy(h) /\ NextCall(h).do # "log" /\ log' = log
          /\ Continue(h, Rest(h))
      BY <2>5, Tombstoned DEF RecordDeletion, At
    <3> QED
      BY <2>2, <3>1, ShapedMoves
  <2> QED
    BY <1>4, <2>1, <2>3, <2>4, <2>5, StepCases
<1> QED
  BY <1>1, <1>2, <1>3, <1>4, NextCases

LEMMA LoggedFirstStep ==
    ASSUME TypeOK, AllShaped, ModelLoggedFirst, [Next]_vars
    PROVE  ModelLoggedFirst'
<1>1. CASE UNCHANGED <<changed, log>>
  BY <1>1 DEF ModelLoggedFirst
<1>2. ASSUME NEW h \in Procs, LogAction(h) PROVE ModelLoggedFirst'
  <2>1. run[h].post \in Posts
    BY <1>2, BusyType DEF LogAction, At
  <2>2. \A p \in Posts : log[p] \subseteq log'[p]
    BY <1>2, <2>1 DEF LogAction, TypeOK
  <2>3. changed' = changed
    BY <1>2 DEF LogAction, history
  <2> QED
    BY <2>2, <2>3 DEF ModelLoggedFirst
<1>3. ASSUME NEW h \in Procs, SetPostState(h) PROVE ModelLoggedFirst'
  <2> DEFINE q == run[h].post
             s == NextCall(h)
  <2>1. q \in Posts /\ Busy(h) /\ s.do = "set" /\ log' = log
    BY <1>3, BusyType DEF SetPostState, At
  <2>2. changed' = [changed EXCEPT ![q] = @ \cup {[who |-> s.who, act |-> s.act]}]
    BY <1>3 DEF SetPostState
  <2>3. s.who = "model" => Classified \in log[q]
    <3>1. run[h].plan \in Seq(Statement) /\ run[h].plan # <<>>
      BY <2>1 DEF Busy, TypeOK, Run
    <3>2. 1 \in 1..Len(run[h].plan) /\ s = run[h].plan[1]
      BY <3>1 DEF NextCall
    <3>3. ~\E j \in 1..Len(run[h].plan) : j < 1
      BY <3>1
    <3>4. Foretold(run[h].plan, log[q])
      BY DEF AllShaped, Shaped
    <3> QED
      BY <2>1, <3>2, <3>3, <3>4 DEF Foretold, ByModel
  <2>4. ASSUME NEW p \in Posts, NEW r \in changed'[p], r.who = "model"
        PROVE  Classified \in log'[p]
    <3>1. CASE r \in changed[p]
      BY <2>1, <2>4, <3>1 DEF ModelLoggedFirst, Classified
    <3>2. CASE r \notin changed[p]
      <4>1. p = q /\ r = [who |-> s.who, act |-> s.act]
        BY <2>1, <2>2, <2>4, <3>2 DEF TypeOK
      <4> QED
        BY <2>1, <2>3, <2>4, <4>1
    <3> QED
      BY <3>1, <3>2
  <2> QED
    BY <2>4 DEF ModelLoggedFirst, Classified
<1>4. ASSUME NEW h \in Procs, Elsewhere(h) \/ RecordDeletion(h) \/ Begins(h) \/ Fail(h)
      PROVE  UNCHANGED <<changed, log>>
  BY <1>4 DEF Elsewhere, RecordDeletion, Begins, Fail, tables, history
<1>5. CASE Aside
  BY <1>1, <1>5 DEF Aside, history
<1>6. ASSUME NEW h \in Procs, TombstoneUserPosts(h) PROVE ModelLoggedFirst'
  <2>1. ASSUME NEW p \in Posts, NEW r \in changed'[p], r.who = "model"
        PROVE  r \in changed[p] /\ log' = log
    BY <1>6, <2>1, Tombstoned DEF Deletion
  <2> QED
    BY <2>1 DEF ModelLoggedFirst
<1> QED
  BY <1>1, <1>2, <1>3, <1>4, <1>5, <1>6, NextCases, StepCases

LEMMA AlwaysShaped == Spec => []AllShaped
BY InitShaped, ShapedStep, TypeCorrect, PTL DEF Spec

\* pipeline.rs: "the model's output is never applied without being logged
\* first", with any number of handlers, posts and failures.
THEOREM LoggedFirst == Spec => []ModelLoggedFirst
<1>1. Init => ModelLoggedFirst
  BY DEF Init, ModelLoggedFirst
<1>2. TypeOK /\ AllShaped /\ ModelLoggedFirst /\ [Next]_vars => ModelLoggedFirst'
  BY LoggedFirstStep
<1> QED
  BY <1>1, <1>2, TypeCorrect, AlwaysShaped, PTL DEF Spec

-----------------------------------------------------------------------------
(* Every change is logged, but for one by each handler that stops.         *)

\* The very next call of h writes the row r that a change of p calls for.
Owing(h, p, r) ==
    /\ Busy(h)
    /\ \/ run[h].post = p /\ Logs(NextCall(h), r)
       \/ /\ r = Deletion /\ NextCall(h).do = "record"
          /\ Author[run[h].post] = Author[p]

\* Every change has its row, or is owed by a handler, or is one of those in
\* lapsed, which handlers owed when they stopped.
Owed(lapsed) ==
    \A p \in Posts : \A r \in changed[p] :
        \/ r \in RowsOn(p)
        \/ \E h \in Procs : Owing(h, p, r)
        \/ <<Target(p, r), r>> \in lapsed

\* A step of h leaves what the other handlers owe alone.
LEMMA OthersOwe ==
    ASSUME NEW lapsed,
           TypeOK, Owed(lapsed), NEW h \in Procs, NEW p \in Posts, NEW r \in changed[p],
           \A q \in Posts : log[q] \subseteq log'[q], erased \subseteq erased',
           \A g \in Procs \ {h} : run'[g] = run[g],
           ~Owing(h, p, r)
    PROVE  \/ r \in RowsOn(p)'
           \/ \E g \in Procs : Owing(g, p, r)'
           \/ <<Target(p, r), r>> \in lapsed
<1>1. CASE r \in RowsOn(p)
  BY <1>1 DEF RowsOn
<1>2. ASSUME NEW g \in Procs, Owing(g, p, r) PROVE Owing(g, p, r)'
  <2>1. run'[g] = run[g]
    BY <1>2
  <2> QED
    BY <1>2, <2>1 DEF Owing, Busy, NextCall
<1> QED
  BY <1>1, <1>2 DEF Owed

LEMMA SecondCall ==
    ASSUME NEW plan \in Seq(Statement), 1 < Len(plan)
    PROVE  Tail(plan) # <<>> /\ Head(Tail(plan)) = plan[2]
<1>1. plan # <<>> /\ Len(plan) \in Nat
  OBVIOUS
<1>2. PICK rest \in Seq(Statement) : rest = Tail(plan)
  BY <1>1, HeadTailProperties
<1>3. Len(rest) \in Nat /\ Len(rest) > 0 /\ rest[1] = plan[1 + 1]
  BY <1>1, <1>2, HeadTailProperties
<1>4. rest # <<>> /\ Head(rest) = rest[1]
  BY <1>3
<1> QED
  BY <1>2, <1>3, <1>4

\* As long as no handler stops, none of what is owed lapses.
LEMMA OwedStep ==
    ASSUME NEW lapsed, TypeOK, AllShaped, Owed(lapsed), [Next]_vars,
           ~\E h \in Procs : Fail(h)
    PROVE  Owed(lapsed)'
<1> DEFINE Covered(p, r) ==
        \/ r \in RowsOn(p)'
        \/ \E g \in Procs : Owing(g, p, r)'
        \/ <<Target(p, r), r>> \in lapsed
<1>0. SUFFICES ASSUME NEW p \in Posts, NEW r \in changed'[p] PROVE Covered(p, r)
  BY DEF Owed, Target
<1> HIDE DEF Covered
<1>1. CASE Aside
  <2>1. /\ \A g \in Procs : Busy(g)' = Busy(g) /\ NextCall(g)' = NextCall(g)
        /\ run' = run /\ log' = log /\ erased' = erased /\ changed' = changed
    BY <1>1 DEF Aside, history, Busy, NextCall
  <2>2. /\ r \in RowsOn(p) => r \in RowsOn(p)'
        /\ \A g \in Procs : Owing(g, p, r) => Owing(g, p, r)'
    BY <2>1 DEF RowsOn, Owing
  <2> QED
    BY <2>1, <2>2 DEF Owed, Covered
<1>2. ASSUME NEW h \in Procs, Begins(h) PROVE Covered(p, r)
  <2>1. /\ ~Busy(h) /\ changed' = changed
        /\ \A q \in Posts : log[q] \subseteq log'[q]
        /\ erased \subseteq erased'
    BY <1>2 DEF Begins, tables, history
  <2>2. \A g \in Procs \ {h} : run'[g] = run[g]
    BY <1>2, Begun
  <2> QED
    BY <2>1, <2>2, OthersOwe DEF Covered, Owing
<1>3. ASSUME NEW h \in Procs, Fail(h) PROVE FALSE
  BY <1>3
<1>4. ASSUME NEW h \in Procs, LogAction(h) PROVE Covered(p, r)
  <2>1. /\ Busy(h) /\ NextCall(h).do = "log" /\ Continue(h, Rest(h))
        /\ changed' = changed /\ erased' = erased
    BY <1>4 DEF LogAction, At, history
  <2>2. run[h].post \in Posts /\ Rest(h) \in Seq(Statement) /\ NextCall(h) \in Statement
    BY <2>1, BusyType
  <2>3. log' = [log EXCEPT ![run[h].post] =
                  @ \cup {[who |-> NextCall(h).who, act |-> NextCall(h).act]}]
    BY <1>4 DEF LogAction
  <2>4. \A q \in Posts : log[q] \subseteq log'[q]
    BY <2>2, <2>3 DEF TypeOK
  <2>5. \A g \in Procs \ {h} : run'[g] = run[g]
    BY <2>1, <2>2, Continued
  <2>6. CASE run[h].post = p /\ Logs(NextCall(h), r)
    <3>1. r \in Row
      BY <2>1 DEF TypeOK
    <3>2. r = [who |-> NextCall(h).who, act |-> NextCall(h).act]
      BY <2>6, <3>1 DEF Row, Logs
    <3>3. r \in log'[p]
      BY <2>2, <2>3, <2>6, <3>2 DEF TypeOK
    <3> QED
      BY <3>3 DEF Covered, RowsOn
  <2> QED
    BY <2>1, <2>4, <2>5, <2>6, OthersOwe DEF Covered, Owing
<1>5. ASSUME NEW h \in Procs, SetPostState(h) PROVE Covered(p, r)
  <2> DEFINE s == NextCall(h)
             plan == run[h].plan
  <2>1. /\ Busy(h) /\ s.do = "set" /\ Continue(h, Rest(h))
        /\ log' = log /\ erased' = erased
    BY <1>5 DEF SetPostState, At
  <2>2. run[h].post \in Posts /\ Rest(h) \in Seq(Statement)
    BY <2>1, BusyType
  <2>3. /\ \A g \in Procs \ {h} : run'[g] = run[g]
        /\ run'[h].plan = Rest(h)
        /\ Rest(h) # <<>> => run'[h].post = run[h].post
    BY <2>1, <2>2, Continued
  <2>4. changed' = [changed EXCEPT ![run[h].post] =
                      @ \cup {[who |-> s.who, act |-> s.act]}]
    BY <1>5 DEF SetPostState
  <2>5. CASE r \in changed[p]
    <3>1. ~Owing(h, p, r)
      BY <2>1 DEF Logs, Owing
    <3> QED
      BY <2>1, <2>3, <2>5, <3>1, OthersOwe DEF Covered
  <2>6. CASE r \notin changed[p]
    <3>1. p = run[h].post /\ r = [who |-> s.who, act |-> s.act]
      BY <2>2, <2>4, <2>6 DEF TypeOK
    <3>2. plan \in Seq(Statement) /\ plan # <<>> /\ Paired(plan)
      BY <2>1 DEF Busy, AllShaped, Shaped
    <3>3. 1 \in 1..Len(plan) /\ s = plan[1] /\ Rest(h) = Tail(plan)
      BY <3>2 DEF NextCall, Rest
    <3>4. 1 < Len(plan) /\ plan[1 + 1] = Log(s.who, s.act)
      BY <2>1, <3>2, <3>3 DEF Paired, Closing, Changing
    <3>5. Rest(h) # <<>> /\ Head(Rest(h)) = plan[2]
      <4> HIDE DEF plan
      <4> QED
        BY <3>2, <3>3, <3>4, SecondCall
    <3>6. Logs(Head(Rest(h)), r)
      BY <3>1, <3>4, <3>5 DEF Logs, Log
    <3>7. Busy(h)' /\ run'[h].post = p /\ Logs(NextCall(h)', r)
      BY <2>3, <3>1, <3>5, <3>6 DEF Busy, NextCall
    <3> QED
      BY <3>7 DEF Covered, Owing
  <2> QED
    BY <2>5, <2>6
<1>6. ASSUME NEW h \in Procs, Elsewhere(h) PROVE Covered(p, r)
  <2>1. /\ Busy(h) /\ NextCall(h).do \notin {"log", "record"}
        /\ log' = log /\ erased' = erased /\ changed' = changed
    BY <1>6 DEF Elsewhere
  <2>2. PICK plan : Continue(h, plan)
    BY <1>6 DEF Elsewhere
  <2>3. \A g \in Procs \ {h} : run'[g] = run[g]
    BY <2>2 DEF Continue, TypeOK
  <2>4. ~Owing(h, p, r)
    BY <2>1 DEF Logs, Owing
  <2> QED
    BY <2>1, <2>3, <2>4, OthersOwe DEF Covered
<1>7. ASSUME NEW h \in Procs, TombstoneUserPosts(h) PROVE Covered(p, r)
  <2> DEFINE plan == run[h].plan
  <2>1. /\ Busy(h) /\ NextCall(h).do = "tombstone" /\ Continue(h, Rest(h))
        /\ log' = log /\ erased' = erased
    BY <1>7, Tombstoned
  <2>2. run[h].post \in Posts /\ Rest(h) \in Seq(Statement)
    BY <2>1, BusyType
  <2>3. /\ \A g \in Procs \ {h} : run'[g] = run[g]
        /\ run'[h].plan = Rest(h)
        /\ Rest(h) # <<>> => run'[h].post = run[h].post
    BY <2>1, <2>2, Continued
  <2>4. CASE r \in changed[p]
    <3>1. ~Owing(h, p, r)
      BY <2>1 DEF Logs, Owing
    <3> QED
      BY <2>1, <2>3, <2>4, <3>1, OthersOwe DEF Covered
  <2>5. CASE r \notin changed[p]
    <3>1. r = Deletion /\ Author[run[h].post] = Author[p]
      BY <1>7, <2>5, Tombstoned
    <3>2. plan \in Seq(Statement) /\ plan # <<>> /\ Paired(plan)
      BY <2>1 DEF Busy, AllShaped, Shaped
    <3>3. 1 \in 1..Len(plan) /\ NextCall(h) = plan[1] /\ Rest(h) = Tail(plan)
      BY <3>2 DEF NextCall, Rest
    <3>4. 1 < Len(plan) /\ plan[1 + 1] = Do("record")
      BY <2>1, <3>2, <3>3 DEF Paired, Closing, Changing
    <3>5. Rest(h) # <<>> /\ Head(Rest(h)) = plan[2]
      <4> HIDE DEF plan
      <4> QED
        BY <3>2, <3>3, <3>4, SecondCall
    <3>6. Busy(h)' /\ run'[h].post = run[h].post /\ NextCall(h)' = Do("record")
      BY <2>3, <3>4, <3>5 DEF Busy, NextCall
    <3> QED
      BY <3>1, <3>6 DEF Covered, Owing, Do
  <2> QED
    BY <2>4, <2>5
<1>8. ASSUME NEW h \in Procs, RecordDeletion(h) PROVE Covered(p, r)
  <2>1. /\ Busy(h) /\ NextCall(h).do = "record" /\ Continue(h, Rest(h))
        /\ log' = log /\ erased' = erased \cup {Author[run[h].post]}
        /\ changed' = changed
    BY <1>8 DEF RecordDeletion, At, history
  <2>2. Rest(h) \in Seq(Statement)
    BY <2>1, BusyType
  <2>3. \A g \in Procs \ {h} : run'[g] = run[g]
    BY <2>1, <2>2, Continued
  <2>4. CASE Owing(h, p, r)
    <3>1. r = Deletion /\ Author[p] \in erased'
      BY <2>1, <2>4 DEF Owing, Logs
    <3> QED
      BY <3>1 DEF Covered, RowsOn
  <2> QED
    BY <2>1, <2>3, <2>4, OthersOwe DEF Covered
<1> QED
  BY <1>1, <1>2, <1>3, <1>4, <1>5, <1>6, <1>7, <1>8, NextCases, StepCases

\* What h owes when it stops lapses, and that is one change at most.
Lapsing(h) ==
    IF NextCall(h).do = "record" THEN <<Author[run[h].post], Deletion>>
    ELSE LET r == [who |-> NextCall(h).who, act |-> NextCall(h).act]
         IN  <<Target(run[h].post, r), r>>

LEMMA OwedFail ==
    ASSUME NEW lapsed, TypeOK, Owed(lapsed), NEW h \in Procs, Fail(h),
           NEW last, last = Lapsing(h)
    PROVE  Owed(lapsed \cup {last})'
<1>1. /\ Busy(h) /\ Continue(h, <<>>)
      /\ changed' = changed /\ log' = log /\ erased' = erased
  BY DEF Fail, tables, history
<1>2. \A g \in Procs \ {h} : run'[g] = run[g]
  BY <1>1 DEF Continue, TypeOK
<1>3. ASSUME NEW p \in Posts, NEW r \in changed[p]
      PROVE  \/ r \in RowsOn(p)'
             \/ \E g \in Procs : Owing(g, p, r)'
             \/ <<Target(p, r), r>> \in lapsed \cup {last}
  <2>1. CASE Owing(h, p, r)
    <3>1. CASE NextCall(h).do = "record"
      <4>1. r = Deletion /\ Author[run[h].post] = Author[p]
        BY <2>1, <3>1 DEF Owing, Logs
      <4> QED
        BY <3>1, <4>1 DEF Lapsing, Target
    <3>2. CASE NextCall(h).do # "record"
      <4>1. run[h].post = p /\ Logs(NextCall(h), r) /\ r \in Row
        BY <2>1, <3>2 DEF Owing, TypeOK
      <4>2. r = [who |-> NextCall(h).who, act |-> NextCall(h).act]
        BY <4>1 DEF Row, Logs
      <4> QED
        BY <3>2, <4>1, <4>2 DEF Lapsing
    <3> QED
      BY <3>1, <3>2
  <2>2. CASE ~Owing(h, p, r)
    BY <1>1, <1>2, <2>2, OthersOwe
  <2> QED
    BY <2>1, <2>2
<1> QED
  BY <1>1, <1>3 DEF Owed, Target

\* Failures count the handlers that stopped.
LEMMA FailuresCount ==
    ASSUME TypeOK, [Next]_vars
    PROVE  \/ failures' = failures /\ ~\E h \in Procs : Fail(h)
           \/ failures' = failures + 1 /\ \E h \in Procs : Fail(h)
<1>1. ASSUME NEW h \in Procs, Fail(h) PROVE failures' = failures + 1
  BY <1>1 DEF Fail
<1>2. ASSUME NEW h \in Procs, Step(h) PROVE failures' = failures
  BY <1>2 DEF Step, ClassifierAnswers, InsertPost, SetPostState, LogAction,
       OpenReview, ResolveReview, AddReport, CountReports, UpdatePostBody,
       EnqueueJob, Acknowledge, SetUserState, DeleteUserSessions, TombstoneUserPosts,
         RecordDeletion, quiet
<1>3. ASSUME NEW h \in Webs, WebRequest(h) PROVE failures' = failures
  BY <1>3 DEF WebRequest, Write, Edit, Appeal, Delete, Report, DeleteAccount,
       Review, SetState, Request
<1>4. ASSUME NEW h, Sweep(h) \/ SweepNext(h) \/ \E p \in Posts : Deliver(h, p)
      PROVE  failures' = failures
  BY <1>4 DEF Sweep, SweepNext, Deliver
<1>5. ASSUME NEW p, LoseJob(p) PROVE failures' = failures
  BY <1>5 DEF LoseJob, quiet
<1>6. ASSUME UNCHANGED vars PROVE failures' = failures
  BY <1>6 DEF vars
<1>7. failures \in Nat
  BY ModerationAssumption DEF TypeOK
<1>8. failures' = failures \/ \E h \in Procs : Fail(h)
  BY <1>2, <1>3, <1>4, <1>5, <1>6 DEF Next
<1>9. CASE \E h \in Procs : Fail(h)
  BY <1>1, <1>9
<1> QED
  BY <1>1, <1>7, <1>8, <1>9

\* What has lapsed is counted by the failures.
Accounted ==
    \E lapsed : /\ IsFiniteSet(lapsed) /\ Cardinality(lapsed) <= failures
                /\ Owed(lapsed)

LEMMA AccountedStep ==
    ASSUME TypeOK, AllShaped, Accounted, [Next]_vars
    PROVE  Accounted'
<1>1. PICK lapsed : /\ IsFiniteSet(lapsed) /\ Cardinality(lapsed) <= failures
                    /\ Owed(lapsed)
  BY DEF Accounted
<1>2. failures \in Nat /\ Cardinality(lapsed) \in Nat
  BY <1>1, FS_CardinalityType, ModerationAssumption DEF TypeOK
<1>3. CASE ~\E h \in Procs : Fail(h)
  <2>1. Owed(lapsed)' /\ failures' = failures
    BY <1>1, <1>3, OwedStep, FailuresCount
  <2> QED
    BY <1>1, <2>1 DEF Accounted
<1>4. ASSUME NEW h \in Procs, Fail(h) PROVE Accounted'
  <2>0. PICK last : last = Lapsing(h)
    OBVIOUS
  <2>3. PICK more : more = lapsed \cup {last}
    OBVIOUS
  <2>1. Owed(more)' /\ failures' = failures + 1
    BY <1>1, <1>4, <2>0, <2>3, OwedFail, FailuresCount
  <2>2. IsFiniteSet(more) /\ Cardinality(more) <= Cardinality(lapsed) + 1
    <3>1. /\ IsFiniteSet(lapsed \cup {last})
          /\ Cardinality(lapsed \cup {last}) =
                IF last \in lapsed THEN Cardinality(lapsed) ELSE Cardinality(lapsed) + 1
      BY <1>1, FS_AddElement
    <3> QED
      BY <1>2, <2>3, <3>1
  <2>4. Cardinality(more) \in Nat
    BY <2>2, FS_CardinalityType
  <2>5. Cardinality(more) <= failures'
    BY <1>1, <1>2, <2>1, <2>2, <2>4
  <2> QED
    BY <2>1, <2>2, <2>5 DEF Accounted
<1> QED
  BY <1>3, <1>4

\* pipeline.rs: "a post's state only changes alongside an action-log row
\* saying who changed it".  A handler that stops between the two statements,
\* which are not one transaction, leaves one change unlogged and no more.
THEOREM ChangesLogged == Spec => []EveryChangeLogged
<1>1. Init => Accounted
  <2>1. IsFiniteSet({}) /\ Cardinality({}) = 0
    BY FS_EmptySet
  <2> SUFFICES ASSUME Init PROVE Accounted
    OBVIOUS
  <2>2. Owed({}) /\ failures = 0
    BY DEF Init, Owed
  <2> QED
    BY <2>1, <2>2 DEF Accounted
<1>2. TypeOK /\ AllShaped /\ Accounted /\ [Next]_vars => Accounted'
  BY AccountedStep
<1>3. TypeOK /\ Accounted => EveryChangeLogged
  <2> SUFFICES ASSUME TypeOK, Accounted PROVE EveryChangeLogged
    OBVIOUS
  <2>1. PICK lapsed : /\ IsFiniteSet(lapsed) /\ Cardinality(lapsed) <= failures
                      /\ Owed(lapsed)
    BY DEF Accounted
  <2>2. ASSUME NEW p \in Posts, Settled(p), NEW r \in changed[p] \ RowsOn(p)
        PROVE  <<Target(p, r), r>> \in lapsed
    BY <2>1, <2>2 DEF Owed, Owing, Settled
  <2>3. Unlogged \subseteq lapsed
    BY <2>2 DEF Unlogged
  <2>4. Cardinality(Unlogged) <= Cardinality(lapsed)
    BY <2>1, <2>3, FS_Subset
  <2>5. /\ failures \in Nat /\ Cardinality(lapsed) \in Nat
        /\ Cardinality(Unlogged) \in Nat
    BY <2>1, <2>3, FS_Subset, FS_CardinalityType, ModerationAssumption DEF TypeOK
  <2> QED
    BY <2>1, <2>4, <2>5 DEF EveryChangeLogged
<1> QED
  BY <1>1, <1>2, <1>3, TypeCorrect, AlwaysShaped, PTL DEF Spec


-----------------------------------------------------------------------------
(* What the handlers under way still owe to the posts they are about.      *)

\* The calls of a plan, whatever their order.
Todo(plan) == {plan[i] : i \in 1..Len(plan)}

Has(plan, calls) == \E s \in Todo(plan) : s.do \in calls

\* Calls that come first in a plan or not at all.
Leading == {"insert", "body", "resolve", "report", "count"}

\* Calls that only a post already written is given.
Later == {"set", "open", "classify", "resolve", "report", "count", "body"}

\* A call that makes the post public, or may have a later one do so.
Publishes(s) ==
    s.do \in {"classify", "resolve"} \/ (s.do = "set" /\ s.to = "visible")

MayPublish(plan) == \E s \in Todo(plan) : Publishes(s)

ModelHide(s) == ByModel(s) /\ s.to = "hidden"

\* Where the model hides, the plan goes on to open the item.
HidesOpened(plan) ==
    \A i \in 1..Len(plan) :
        ModelHide(plan[i]) => \E j \in 1..Len(plan) : i < j /\ plan[j].do = "open"

\* What may follow the first call of a plan.
Plain(plan) ==
    /\ plan \in Seq(Statement)
    /\ HidesOpened(plan)
    /\ \A s \in Todo(plan) : s.do \notin Leading /\ (s.do = "set" => s.to # "none")

\* A report, a count and a button pressed are the whole plan; what follows a
\* text that is written or rewritten does not publish it.
Led(s, rest) ==
    /\ s \in Statement /\ s.do \in Leading
    /\ Plain(rest)
    /\ s.do \notin {"insert", "body"} => rest = <<>>
    /\ ~MayPublish(rest)
    /\ s.do = "insert" => s.to \in {"visible", "pending"}
    /\ s.do = "resolve" => s.to # "none"

Orderly(plan) == Plain(plan) \/ \E s, rest : Led(s, rest) /\ plan = <<s>> \o rest

\* The handlers and the tables agree on which posts are written.
Existence ==
    /\ \A h \in Procs : Orderly(run[h].plan)
    /\ \A h \in Procs : Has(run[h].plan, Later) => state[run[h].post] # "none"
    /\ \A h \in Procs : Has(run[h].plan, {"insert"}) => state[run[h].post] = "none"
    /\ \A g, h \in Procs :
          (Has(run[g].plan, {"insert"}) /\ Has(run[h].plan, {"insert"}) /\ g # h)
              => run[g].post # run[h].post
    /\ \A p \in Posts : state[p] = "none" => signals[p] = {} /\ item[p] = "none"

\* What a handler read is still true as far as it will act on it.
Informed(h) ==
    LET p == run[h].post IN
    /\ (Has(run[h].plan, {"report", "count"}) /\ state[p] = "visible" /\ changed[p] = {})
          => run[h].seen.state = "visible"
    /\ (MayPublish(run[h].plan) /\ caught[p]) => run[h].seen.body = body[p]
    /\ \A s \in Todo(run[h].plan) :
          (s.do = "body" /\ s.to = "pending" /\ run[h].seen.state = "visible")
              => Has(run[h].plan, {"set"})

AllInformed == \A h \in Procs : Informed(h)

\* Some handler will still make one of these calls for the post.
Coming(p, calls) == \E h \in Procs : run[h].post = p /\ Has(run[h].plan, calls)

HideComing(p) ==
    (state[p] = "hidden" /\ by[p] = "model")
        => item[p] = "open" \/ Coming(p, {"open", "set"})

RecallComing(p) ==
    (state[p] = "visible" /\ changed[p] = {} /\ Cardinality(signals[p]) >= ReportThreshold)
        => Coming(p, {"count", "set"})

ReadingComing(p) ==
    (state[p] = "visible" /\ caught[p]) => passed[p] # "unread" \/ Coming(p, {"set"})

\* As long as no handler has stopped half way.
HidesComing    == failures = 0 => \A p \in Posts : HideComing(p)
RecallsComing  == failures = 0 => \A p \in Posts : RecallComing(p)
ReadingsComing == failures = 0 => \A p \in Posts : ReadingComing(p)

-----------------------------------------------------------------------------
(* Plans as the set of their calls.                                        *)

LEMMA TodoEmpty == Todo(<<>>) = {}
BY DEF Todo

LEMMA TodoOne == ASSUME NEW s \in Statement PROVE Todo(<<s>>) = {s}
BY DEF Todo

LEMMA TodoConcat ==
    ASSUME NEW a \in Seq(Statement), NEW b \in Seq(Statement)
    PROVE  Todo(a \o b) = Todo(a) \cup Todo(b)
<1>1. /\ Len(a) \in Nat /\ Len(b) \in Nat /\ Len(a \o b) = Len(a) + Len(b)
      /\ \A i \in 1..Len(a) : (a \o b)[i] = a[i]
      /\ \A i \in 1..Len(b) : (a \o b)[Len(a) + i] = b[i]
  OBVIOUS
<1>2. ASSUME NEW s \in Todo(a \o b) PROVE s \in Todo(a) \cup Todo(b)
  <2>1. PICK i \in 1..Len(a \o b) : s = (a \o b)[i]
    BY DEF Todo
  <2>2. CASE i <= Len(a)
    <3>1. i \in 1..Len(a) /\ s = a[i]
      BY <1>1, <2>1, <2>2
    <3> QED
      BY <3>1 DEF Todo
  <2>3. CASE i > Len(a)
    <3>1. i - Len(a) \in 1..Len(b) /\ i = Len(a) + (i - Len(a))
      BY <1>1, <2>3
    <3>2. s = b[i - Len(a)]
      BY <1>1, <2>1, <3>1
    <3> QED
      BY <3>1, <3>2 DEF Todo
  <2> QED
    BY <1>1, <2>2, <2>3
<1>3. ASSUME NEW s \in Todo(a) PROVE s \in Todo(a \o b)
  <2>1. PICK i \in 1..Len(a) : s = a[i]
    BY DEF Todo
  <2>2. i \in 1..Len(a \o b) /\ s = (a \o b)[i]
    BY <1>1, <2>1
  <2> QED
    BY <2>2 DEF Todo
<1>4. ASSUME NEW s \in Todo(b) PROVE s \in Todo(a \o b)
  <2>1. PICK i \in 1..Len(b) : s = b[i]
    BY DEF Todo
  <2>2. Len(a) + i \in 1..Len(a \o b) /\ s = (a \o b)[Len(a) + i]
    BY <1>1, <2>1
  <2> QED
    BY <2>2 DEF Todo
<1> QED
  BY <1>2, <1>3, <1>4

LEMMA TodoTail ==
    ASSUME NEW plan \in Seq(Statement), plan # <<>>
    PROVE  /\ Head(plan) \in Statement /\ Tail(plan) \in Seq(Statement)
           /\ plan = <<Head(plan)>> \o Tail(plan)
           /\ Todo(plan) = {Head(plan)} \cup Todo(Tail(plan))
<1>1. PICK s \in Statement, rest \in Seq(Statement) : s = Head(plan) /\ rest = Tail(plan)
  BY HeadTailProperties
<1>2. <<s>> \in Seq(Statement)
  OBVIOUS
<1>3. plan = <<s>> \o rest
  <2> DEFINE cat == <<s>> \o rest
  <2>1. /\ Len(plan) \in Nat /\ Len(plan) > 0 /\ s = plan[1]
        /\ Len(rest) = Len(plan) - 1
        /\ \A i \in 1..Len(rest) : rest[i] = plan[i + 1]
    BY <1>1, HeadTailProperties
  <2>2. cat \in Seq(Statement) /\ Len(cat) = 1 + Len(rest) /\ cat[1] = s
    BY <1>2
  <2>3. \A i \in 1..Len(cat) : i # 1 => cat[i] = rest[i - 1]
    BY <1>2, <2>1
  <2> HIDE DEF cat
  <2>4. ASSUME NEW i \in 1..Len(cat) PROVE cat[i] = plan[i]
    <3>1. CASE i = 1
      BY <2>1, <2>2, <3>1
    <3>2. CASE i # 1
      <4>1. i - 1 \in 1..Len(rest) /\ (i - 1) + 1 = i
        BY <2>1, <2>2, <3>2
      <4>2. rest[i - 1] = plan[(i - 1) + 1]
        BY <2>1, <4>1
      <4> QED
        BY <2>3, <3>2, <4>1, <4>2
    <3> QED
      BY <3>1, <3>2
  <2>5. Len(cat) = Len(plan)
    BY <2>1, <2>2
  <2>6. cat = plan
    BY <2>2, <2>4, <2>5, SeqEqual
  <2> QED
    BY <2>6 DEF cat
<1>4. Todo(<<s>> \o rest) = {s} \cup Todo(rest)
  BY <1>2, TodoOne, TodoConcat
<1> QED
  BY <1>1, <1>3, <1>4

LEMMA ConsTail ==
    ASSUME NEW s \in Statement, NEW rest \in Seq(Statement)
    PROVE  /\ <<s>> \o rest \in Seq(Statement) /\ <<s>> \o rest # <<>>
           /\ Head(<<s>> \o rest) = s /\ Tail(<<s>> \o rest) = rest
           /\ Todo(<<s>> \o rest) = {s} \cup Todo(rest)
<1>1. <<s>> \in Seq(Statement) /\ <<s>> \o rest \in Seq(Statement)
  OBVIOUS
<1>2. <<s>> \o rest # <<>> /\ Head(<<s>> \o rest) = s /\ Tail(<<s>> \o rest) = rest
  BY <1>1
<1>3. Todo(<<s>> \o rest) = {s} \cup Todo(rest)
  BY <1>1, TodoOne, TodoConcat
<1> QED
  BY <1>1, <1>2, <1>3

LEMMA HidesOpenedConcat ==
    ASSUME NEW a \in Seq(Statement), NEW b \in Seq(Statement),
           HidesOpened(a), HidesOpened(b)
    PROVE  HidesOpened(a \o b)
<1>1. /\ Len(a) \in Nat /\ Len(b) \in Nat /\ Len(a \o b) = Len(a) + Len(b)
      /\ \A i \in 1..Len(a) : (a \o b)[i] = a[i]
      /\ \A i \in 1..Len(b) : (a \o b)[Len(a) + i] = b[i]
  OBVIOUS
<1> SUFFICES ASSUME NEW i \in 1..Len(a \o b), ModelHide((a \o b)[i])
             PROVE  \E j \in 1..Len(a \o b) : i < j /\ (a \o b)[j].do = "open"
  BY DEF HidesOpened
<1>2. CASE i <= Len(a)
  <2>1. i \in 1..Len(a) /\ ModelHide(a[i])
    BY <1>1, <1>2
  <2>2. PICK j \in 1..Len(a) : i < j /\ a[j].do = "open"
    BY <2>1 DEF HidesOpened
  <2>3. j \in 1..Len(a \o b) /\ (a \o b)[j] = a[j]
    BY <1>1
  <2> QED
    BY <2>2, <2>3
<1>3. CASE i > Len(a)
  <2>1. i - Len(a) \in 1..Len(b) /\ i = Len(a) + (i - Len(a))
    BY <1>1, <1>3
  <2>2. ModelHide(b[i - Len(a)])
    BY <1>1, <2>1
  <2>3. PICK j \in 1..Len(b) : i - Len(a) < j /\ b[j].do = "open"
    BY <2>1, <2>2 DEF HidesOpened
  <2>4. Len(a) + j \in 1..Len(a \o b) /\ (a \o b)[Len(a) + j] = b[j] /\ i < Len(a) + j
    BY <1>1, <2>3
  <2> QED
    BY <2>3, <2>4
<1> QED
  BY <1>1, <1>2, <1>3

LEMMA HidesOpenedTail ==
    ASSUME NEW plan \in Seq(Statement), plan # <<>>, HidesOpened(plan)
    PROVE  HidesOpened(Tail(plan))
<1>1. /\ Len(plan) \in Nat /\ Len(Tail(plan)) = Len(plan) - 1
      /\ \A i \in 1..Len(Tail(plan)) : Tail(plan)[i] = plan[i + 1]
  BY HeadTailProperties
<1> SUFFICES ASSUME NEW i \in 1..Len(Tail(plan)), ModelHide(Tail(plan)[i])
             PROVE  \E j \in 1..Len(Tail(plan)) : i < j /\ Tail(plan)[j].do = "open"
  BY DEF HidesOpened
<1>2. i + 1 \in 1..Len(plan) /\ ModelHide(plan[i + 1])
  BY <1>1
<1>3. PICK j \in 1..Len(plan) : i + 1 < j /\ plan[j].do = "open"
  BY <1>2 DEF HidesOpened
<1>4. j - 1 \in 1..Len(Tail(plan)) /\ i < j - 1 /\ (j - 1) + 1 = j
  BY <1>1, <1>3
<1>5. Tail(plan)[j - 1] = plan[j]
  BY <1>1, <1>4
<1> QED
  BY <1>3, <1>4, <1>5

\* A plan of a hide of the model holds the opening too.
LEMMA HideOpens ==
    ASSUME NEW plan \in Seq(Statement), plan # <<>>, HidesOpened(plan),
           ModelHide(Head(plan))
    PROVE  Has(Tail(plan), {"open"})
<1>1. /\ Len(plan) \in Nat /\ Len(plan) > 0 /\ Head(plan) = plan[1]
      /\ Len(Tail(plan)) = Len(plan) - 1
      /\ \A i \in 1..Len(Tail(plan)) : Tail(plan)[i] = plan[i + 1]
  BY HeadTailProperties
<1>2. PICK j \in 1..Len(plan) : 1 < j /\ plan[j].do = "open"
  BY <1>1 DEF HidesOpened
<1>3. j - 1 \in 1..Len(Tail(plan)) /\ (j - 1) + 1 = j
  BY <1>1, <1>2
<1>4. Tail(plan)[j - 1] = plan[j]
  BY <1>1, <1>3
<1>5. plan[j] \in Todo(Tail(plan))
  BY <1>3, <1>4 DEF Todo
<1> QED
  BY <1>2, <1>5 DEF Has

LEMMA HasConcat ==
    ASSUME NEW a \in Seq(Statement), NEW b \in Seq(Statement), NEW calls
    PROVE  /\ Has(a \o b, calls) <=> Has(a, calls) \/ Has(b, calls)
           /\ MayPublish(a \o b) <=> MayPublish(a) \/ MayPublish(b)
BY TodoConcat DEF Has, MayPublish

LEMMA PlainConcat ==
    ASSUME NEW a, NEW b, Plain(a), Plain(b)
    PROVE  Plain(a \o b)
<1>1. a \in Seq(Statement) /\ b \in Seq(Statement) /\ a \o b \in Seq(Statement)
  BY DEF Plain
<1>2. Todo(a \o b) = Todo(a) \cup Todo(b) /\ HidesOpened(a \o b)
  BY <1>1, TodoConcat, HidesOpenedConcat DEF Plain
<1> QED
  BY <1>1, <1>2 DEF Plain

\* What is left of an orderly plan after its first call.
LEMMA OrderlyRest ==
    ASSUME NEW plan, Orderly(plan), plan # <<>>
    PROVE  /\ plan \in Seq(Statement) /\ Plain(Tail(plan))
           /\ Head(plan) \in Statement
           /\ Todo(plan) = {Head(plan)} \cup Todo(Tail(plan))
           /\ Plain(plan) \/ Led(Head(plan), Tail(plan))
<1>1. CASE Plain(plan)
  <2>1. plan \in Seq(Statement) /\ HidesOpened(plan)
    BY <1>1 DEF Plain
  <2>2. /\ Head(plan) \in Statement /\ Tail(plan) \in Seq(Statement)
        /\ Todo(plan) = {Head(plan)} \cup Todo(Tail(plan))
        /\ HidesOpened(Tail(plan))
    BY <2>1, TodoTail, HidesOpenedTail
  <2> QED
    BY <1>1, <2>1, <2>2 DEF Plain
<1>2. ASSUME NEW s, NEW rest, Led(s, rest), plan = <<s>> \o rest
      PROVE  /\ plan \in Seq(Statement) /\ Plain(Tail(plan))
             /\ Head(plan) \in Statement
             /\ Todo(plan) = {Head(plan)} \cup Todo(Tail(plan))
             /\ Led(Head(plan), Tail(plan))
  <2>1. s \in Statement /\ Plain(rest) /\ rest \in Seq(Statement)
    BY <1>2 DEF Led, Plain
  <2>2. /\ plan \in Seq(Statement) /\ Head(plan) = s /\ Tail(plan) = rest
        /\ Todo(plan) = {s} \cup Todo(rest)
    BY <1>2, <2>1, ConsTail
  <2> QED
    BY <1>2, <2>1, <2>2
<1> QED
  BY <1>1, <1>2 DEF Orderly

LEMMA EmptyPlain == Plain(<<>>) /\ ~MayPublish(<<>>) /\ \A calls : ~Has(<<>>, calls)
BY DEF Plain, HidesOpened, MayPublish, Has, Todo

LEMMA CallPlain ==
    ASSUME NEW s \in Statement, s.do \notin Leading,
           s.do = "set" => s.to # "none" /\ s.who # "model"
    PROVE  Plain(<<s>>)
<1>1. <<s>> \in Seq(Statement) /\ Len(<<s>>) = 1 /\ <<s>>[1] = s
  OBVIOUS
<1>2. HidesOpened(<<s>>)
  BY <1>1 DEF HidesOpened, ModelHide, ByModel
<1> QED
  BY <1>1, <1>2, TodoOne DEF Plain

LEMMA TodoPair ==
    ASSUME NEW a \in Statement, NEW b \in Statement
    PROVE  <<a, b>> \in Seq(Statement) /\ Todo(<<a, b>>) = {a, b}
<1>0. <<a>> \in Seq(Statement) /\ <<b>> \in Seq(Statement)
  OBVIOUS
<1>1. PICK x \in Seq(Statement), y \in Seq(Statement) : x = <<a>> /\ y = <<b>>
  BY <1>0, Zenon
<1>2. Todo(x) = {a} /\ Todo(y) = {b}
  BY <1>1, TodoOne
<1>3. PICK xy : xy = x \o y
  OBVIOUS
<1>4. xy \in Seq(Statement) /\ Todo(xy) = {a, b}
  BY <1>2, <1>3, TodoConcat
<1>5. xy = <<a, b>>
  BY <1>1, <1>3, JoinOnes
<1> QED
  BY <1>4, <1>5

-----------------------------------------------------------------------------
(* The plans of the handlers.                                              *)

\* calls are all that plan makes.
Only(plan, calls) == Plain(plan) /\ \A s \in Todo(plan) : s.do \in calls

LEMMA OnlyConcat ==
    ASSUME NEW a, NEW b, NEW calls, Only(a, calls), Only(b, calls)
    PROVE  Only(a \o b, calls)
<1>1. a \in Seq(Statement) /\ b \in Seq(Statement)
  BY DEF Only, Plain
<1> QED
  BY <1>1, PlainConcat, TodoConcat DEF Only

LEMMA LogOnly ==
    ASSUME NEW who \in ActorKind, NEW act \in Action
    PROVE  Only(<<Log(who, act)>>, {"log"})
<1>1. Log(who, act) \in Statement /\ Log(who, act).do = "log"
  BY LogType DEF Log
<1> QED
  BY <1>1, CallPlain, TodoOne DEF Only, Leading

LEMMA DoOnly ==
    ASSUME NEW call \in Call \ (Leading \cup {"set"})
    PROVE  Only(<<Do(call)>>, {call})
<1>1. Do(call) \in Statement /\ Do(call).do = call
  BY DoType DEF Do
<1> QED
  BY <1>1, CallPlain, TodoOne DEF Only

LEMMA SetOnly ==
    ASSUME NEW who \in ActorKind \ {"model"}, NEW act \in Action,
           NEW to \in PostState \ {"none"}
    PROVE  /\ Only(<<Set(who, act, to)>>, {"set"})
           /\ Has(<<Set(who, act, to)>>, {"set"})
           /\ to # "visible" => ~MayPublish(<<Set(who, act, to)>>)
<1>0. who \in ActorKind /\ to \in PostState
  OBVIOUS
<1>1. /\ Set(who, act, to) \in Statement /\ Set(who, act, to).do = "set"
      /\ Set(who, act, to).to = to /\ Set(who, act, to).who = who
  <2>1. Set(who, act, to) \in Statement
    BY <1>0, SetType
  <2> QED
    BY <2>1 DEF Set
<1>2. Plain(<<Set(who, act, to)>>)
  BY <1>1, CallPlain DEF Leading
<1> QED
  BY <1>1, <1>2, TodoOne DEF Only, Has, MayPublish, Publishes

LEMMA OnlyWider ==
    ASSUME NEW plan, NEW few, NEW many, Only(plan, few), few \subseteq many
    PROVE  Only(plan, many)
BY DEF Only

LEMMA OnlyPair ==
    ASSUME NEW a \in Statement, NEW b \in Statement, NEW calls,
           Only(<<a>>, calls), Only(<<b>>, calls)
    PROVE  Only(<<a, b>>, calls)
BY JoinOnes, OnlyConcat

LEMMA ChangeOnly ==
    ASSUME NEW who \in ActorKind \ {"model"}, NEW act \in Action,
           NEW to \in PostState \ {"none"}
    PROVE  Only(<<Set(who, act, to), Log(who, act)>>, {"set", "log"})
<1>1. Only(<<Set(who, act, to)>>, {"set", "log"}) /\ Only(<<Log(who, act)>>, {"set", "log"})
  BY SetOnly, LogOnly, OnlyWider
<1> QED
  BY <1>1, SetType, LogType, OnlyPair

LEMMA HoldOnly == Only(Hold, {"log", "enqueue"})
<1>1. Do("enqueue") \in Statement /\ Only(<<Do("enqueue")>>, {"log", "enqueue"})
  BY DoType, DoOnly, OnlyWider DEF Leading
<1>2. Only(<<Log("rule", "hold")>>, {"log", "enqueue"})
  BY LogOnly, OnlyWider
<1> QED
  BY <1>1, <1>2, LogType, OnlyPair DEF Hold

LEMMA RecallOnly ==
    Only(Recall, {"set", "log", "open", "enqueue"}) /\ Has(Recall, {"set"})
    /\ ~MayPublish(Recall)
<1> DEFINE calls == {"set", "log", "open", "enqueue"}
           set == Set("rule", "hold", "pending")
           log1 == Log("rule", "hold")
<1>1. Only(<<set, log1>>, calls)
  BY ChangeOnly, OnlyWider
<1>2. Only(<<Do("open")>>, calls) /\ Only(<<Do("enqueue")>>, calls)
  <2>1. Only(<<Do("open")>>, {"open"}) /\ Only(<<Do("enqueue")>>, {"enqueue"})
    BY DoOnly DEF Leading
  <2>2. {"open"} \subseteq calls /\ {"enqueue"} \subseteq calls
    OBVIOUS
  <2> HIDE DEF calls
  <2> QED
    BY <2>1, <2>2, OnlyWider
<1>3. Only(<<Do("open"), Do("enqueue")>>, calls)
  BY <1>2, DoType, OnlyPair
<1>4. Recall = <<set, log1>> \o <<Do("open"), Do("enqueue")>>
  BY LogType, SetType, DoType, JoinTwos DEF Recall
<1>5. Todo(<<set, log1>>) = {set, log1} /\ <<set, log1>> \in Seq(Statement)
  BY LogType, SetType, TodoPair
<1>6. /\ Todo(<<Do("open"), Do("enqueue")>>) = {Do("open"), Do("enqueue")}
      /\ <<Do("open"), Do("enqueue")>> \in Seq(Statement)
  BY DoType, TodoPair
<1>7. Todo(Recall) = {set, log1, Do("open"), Do("enqueue")}
  <2>1. PICK x \in Seq(Statement), y \in Seq(Statement) :
           x = <<set, log1>> /\ y = <<Do("open"), Do("enqueue")>>
    BY <1>5, <1>6, Zenon
  <2>2. Todo(x \o y) = Todo(x) \cup Todo(y)
    BY TodoConcat
  <2>3. Recall = x \o y
    BY <1>4, <2>1
  <2>4. Todo(x) = {set, log1} /\ Todo(y) = {Do("open"), Do("enqueue")}
    BY <1>5, <1>6, <2>1
  <2> HIDE DEF set, log1
  <2> QED
    BY <2>2, <2>3, <2>4
<1>8. /\ set.do = "set" /\ set.to = "pending" /\ log1.do = "log"
      /\ Do("open").do = "open" /\ Do("enqueue").do = "enqueue"
  BY DEF Set, Log, Do
<1> HIDE DEF set, log1
<1> QED
  BY <1>1, <1>3, <1>4, <1>7, <1>8, OnlyConcat DEF Has, MayPublish, Publishes

LEMMA DecideOnly ==
    ASSUME NEW to \in PostState \ {"none"} PROVE Only(Decide(to), {"set", "log"})
BY ChangeOnly DEF Decide

LEMMA ReleaseOnly == Only(Release, {"set", "log"})
BY ChangeOnly DEF Release

LEMMA AckOfOnly == ASSUME NEW h PROVE Only(AckOf(h), {"ack"})
<1>1. Only(<<>>, {"ack"})
  BY EmptyPlain, TodoEmpty DEF Only
<1>2. Only(<<Do("ack")>>, {"ack"})
  BY DoOnly DEF Leading
<1> QED
  BY <1>1, <1>2 DEF AckOf

LEMMA VerdictOnly == ASSUME NEW answer PROVE Only(Verdict(answer), {"set", "log", "open"})
<1> DEFINE calls == {"set", "log", "open"}
           publish == <<Log("model", "classify"), Set("model", "publish", "visible"),
                        Log("model", "publish")>>
           hide == <<Log("model", "classify"), Set("model", "hide", "hidden"),
                     Log("model", "hide"), Do("open")>>
<1>1. /\ Log("model", "classify").do = "log" /\ Log("model", "publish").do = "log"
      /\ Log("model", "hide").do = "log" /\ Do("open").do = "open"
      /\ Set("model", "publish", "visible").do = "set"
      /\ Set("model", "publish", "visible").to = "visible"
      /\ Set("model", "hide", "hidden").do = "set"
      /\ Set("model", "hide", "hidden").to = "hidden"
  BY DEF Log, Set, Do
<1>2. /\ publish \in Seq(Statement) /\ Len(publish) = 3
      /\ publish[1] = Log("model", "classify")
      /\ publish[2] = Set("model", "publish", "visible")
      /\ publish[3] = Log("model", "publish")
  BY LogType, SetType
<1>3. /\ hide \in Seq(Statement) /\ Len(hide) = 4
      /\ hide[1] = Log("model", "classify") /\ hide[2] = Set("model", "hide", "hidden")
      /\ hide[3] = Log("model", "hide") /\ hide[4] = Do("open")
  BY LogType, SetType, DoType
<1>4. Only(publish, calls)
  <2> HIDE DEF publish
  <2>1. HidesOpened(publish)
    BY <1>1, <1>2 DEF HidesOpened, ModelHide, ByModel
  <2>2. Todo(publish) = {publish[1], publish[2], publish[3]}
    BY <1>2 DEF Todo
  <2> QED
    BY <1>1, <1>2, <2>1, <2>2 DEF Only, Plain, Leading
<1>5. Only(hide, calls)
  <2> HIDE DEF hide
  <2>1. HidesOpened(hide)
    BY <1>1, <1>3 DEF HidesOpened, ModelHide, ByModel
  <2>2. Todo(hide) = {hide[1], hide[2], hide[3], hide[4]}
    BY <1>3 DEF Todo
  <2> QED
    BY <1>1, <1>3, <2>1, <2>2 DEF Only, Plain, Leading
<1>6. Only(<<Do("open")>>, calls)
  <2>1. Only(<<Do("open")>>, {"open"})
    BY DoOnly DEF Leading
  <2>2. {"open"} \subseteq calls
    OBVIOUS
  <2> HIDE DEF calls
  <2> QED
    BY <2>1, <2>2, OnlyWider
<1>7. Only(<<Log("model", "classify"), Do("open")>>, calls)
  <2>1. Only(<<Log("model", "classify")>>, calls)
    BY LogOnly, OnlyWider
  <2> QED
    BY <1>6, <2>1, LogType, DoType, OnlyPair
<1>8. Only(<<Log("system", "classify_failed"), Do("open")>>, calls)
  <2>1. Only(<<Log("system", "classify_failed")>>, calls)
    BY LogOnly, OnlyWider
  <2> QED
    BY <1>6, <2>1, LogType, DoType, OnlyPair
<1> QED
  BY <1>4, <1>5, <1>7, <1>8 DEF Verdict

\* A call that comes first, and what follows it.
LEMMA LedOrderly ==
    ASSUME NEW s, NEW rest, Led(s, rest)
    PROVE  /\ Orderly(<<s>> \o rest)
           /\ Todo(<<s>> \o rest) = {s} \cup Todo(rest)
<1>1. s \in Statement /\ rest \in Seq(Statement)
  BY DEF Led, Plain
<1> QED
  BY <1>1, ConsTail DEF Orderly

LEMMA AloneOrderly ==
    ASSUME NEW s \in Statement, s.do \in Leading \ {"insert", "body"},
           s.do = "resolve" => s.to # "none"
    PROVE  /\ Orderly(<<s>>) /\ Todo(<<s>>) = {s}
<1>1. Led(s, <<>>)
  BY EmptyPlain DEF Led
<1>2. <<s>> \in Seq(Statement)
  OBVIOUS
<1>3. PICK plan \in Seq(Statement) : plan = <<s>>
  BY <1>2, Zenon
<1>4. plan \o <<>> = plan
  OBVIOUS
<1>5. Orderly(<<s>> \o <<>>)
  BY <1>1, LedOrderly
<1> QED
  BY <1>3, <1>4, <1>5, TodoOne

-----------------------------------------------------------------------------
(* Handlers that start.                                                    *)

\* plan is what a handler may start with that has just read p.
Suits(p, plan) ==
    /\ Orderly(plan)
    /\ Has(plan, Later) => state[p] # "none"
    /\ Has(plan, {"insert"}) =>
          state[p] = "none" /\ \A g \in Procs : Busy(g) => run[g].post # p
    /\ \A s \in Todo(plan) :
          (s.do = "body" /\ s.to = "pending" /\ state[p] = "visible")
              => Has(plan, {"set"})

Unmoved == UNCHANGED <<state, body, item, signals, changed, by, caught, passed>>

SetsOut(h) ==
    /\ ~Busy(h)
    /\ Unmoved /\ failures' = failures
    /\ \E p \in Posts, u \in Users : \E plan : Suits(p, plan) /\ Start(h, p, u, plan)

\* A plan that neither writes a post nor rewrites it.
LEMMA OnlySuits ==
    ASSUME NEW p \in Posts, NEW plan, NEW calls, Only(plan, calls),
           calls \cap Later # {} => state[p] # "none"
    PROVE  Suits(p, plan)
<1>1. Plain(plan) /\ \A s \in Todo(plan) : s.do \notin {"insert", "body"}
  BY DEF Only, Plain, Leading
<1>2. Has(plan, Later) => state[p] # "none"
  BY DEF Has, Only
<1> QED
  BY <1>1, <1>2 DEF Suits, Orderly, Has

LEMMA AloneSuits ==
    ASSUME NEW p \in Posts, NEW s \in Statement,
           s.do \in Leading \ {"insert", "body"}, state[p] # "none",
           s.do = "resolve" => s.to # "none"
    PROVE  Suits(p, <<s>>)
<1>1. Orderly(<<s>>) /\ Todo(<<s>>) = {s}
  BY AloneOrderly
<1> QED
  BY <1>1 DEF Suits, Has

LEMMA RequestSetsOut ==
    ASSUME TypeOK, Existence, NEW h \in Webs, WebRequest(h)
    PROVE  SetsOut(h)
<1>1. ASSUME NEW op, NEW u, Request(h, op, u)
      PROVE  ~Busy(h) /\ Unmoved /\ failures' = failures
  BY <1>1 DEF Request, tables, history, Unmoved
<1>2. PICK p \in Posts : \/ Write(h, p) \/ Edit(h, p) \/ Appeal(h, p)
         \/ \E u \in Users : \/ Delete(h, p, u) \/ Report(h, p, u)
                             \/ DeleteAccount(h, p, u)
                             \/ \E to \in PostState : \/ Review(h, p, u, to)
                                                      \/ SetState(h, p, u, to)
  BY DEF WebRequest
<1>3. Author[p] \in Users
  BY ModerationAssumption
<1>4. ASSUME NEW call \in {"insert", "body"}, NEW to \in Triaged(p)
      PROVE  /\ to \in {"visible", "pending"}
             /\ Text(call, to) \in Statement
             /\ Text(call, to).do = call /\ Text(call, to).to = to
  BY DEF Triaged, Text, Statement
<1>6. CASE Write(h, p)
  <2>1. PICK to \in Triaged(p) :
           Start(h, p, Author[p], <<Text("insert", to)>> \o
                 IF to = "pending" THEN Hold ELSE <<>>)
    BY <1>6 DEF Write
  <2>2. PICK s \in Statement : s = Text("insert", to) /\ s.do = "insert" /\ s.to = to
    BY <1>4
  <2>3. PICK rest : rest = IF to = "pending" THEN Hold ELSE <<>>
    OBVIOUS
  <2>4. Plain(rest) /\ \A t \in Todo(rest) : t.do \in {"log", "enqueue"}
    BY <2>3, HoldOnly, EmptyPlain, TodoEmpty DEF Only
  <2>5. Led(s, rest)
    BY <2>2, <2>4, <1>4 DEF Led, Leading, MayPublish, Publishes
  <2>6. PICK plan : plan = <<s>> \o rest /\ Orderly(plan) /\ Todo(plan) = {s} \cup Todo(rest)
    BY <2>5, LedOrderly
  <2>7. state[p] = "none" /\ \A g \in Procs : Busy(g) => run[g].post # p
    BY <1>6 DEF Write
  <2>8. Suits(p, plan)
    BY <2>2, <2>4, <2>6, <2>7 DEF Suits, Has, Later
  <2> QED
    BY <2>1, <2>2, <2>3, <2>6, <2>8, <1>1, <1>3, <1>6 DEF Write, SetsOut
<1>7. CASE Edit(h, p)
  <2> DEFINE set == Set("rule", "hold", "pending")
             Text1(to) == <<Text("body", to), Log("user", "edit")>>
             Hold1 == <<set>> \o Hold
             logged == <<Log("user", "edit")>>
  <2>1. PICK to \in Triaged(p) :
           Start(h, p, Author[p], Text1(to) \o
                 IF to = "pending" /\ state[p] = "visible"
                 THEN Hold1 ELSE <<>>)
    BY <1>7 DEF Edit
  <2>2. PICK s \in Statement : s = Text("body", to) /\ s.do = "body" /\ s.to = to
    BY <1>4
  <2>3. PICK more : more = IF to = "pending" /\ state[p] = "visible"
                           THEN Hold1 ELSE <<>>
    OBVIOUS
  <2>4. /\ Only(logged, {"log"}) /\ Only(Hold, {"log", "enqueue"})
        /\ Only(<<set>>, {"set"}) /\ Has(<<set>>, {"set"}) /\ ~MayPublish(<<set>>)
    BY LogOnly, HoldOnly, SetOnly
  <2> HIDE DEF set
  <2>5. /\ Plain(Hold1) /\ Has(Hold1, {"set"}) /\ ~MayPublish(Hold1)
    <3>1. <<set>> \in Seq(Statement) /\ Hold \in Seq(Statement)
      BY <2>4 DEF Only, Plain
    <3>2. ~MayPublish(Hold)
      BY <2>4 DEF Only, MayPublish, Publishes
    <3> QED
      BY <2>4, <3>1, <3>2, PlainConcat, HasConcat DEF Only
  <2> HIDE DEF Hold1, logged
  <2>6. /\ Plain(more) /\ ~MayPublish(more)
        /\ (to = "pending" /\ state[p] = "visible") => Has(more, {"set"})
    BY <2>3, <2>5, EmptyPlain
  <2>7. /\ Plain(logged \o more) /\ ~MayPublish(logged \o more)
        /\ (to = "pending" /\ state[p] = "visible") => Has(logged \o more, {"set"})
    <3>1. Plain(logged) /\ logged \in Seq(Statement) /\ more \in Seq(Statement)
      BY <2>4, <2>6 DEF Only, Plain
    <3>2. ~MayPublish(logged)
      BY <2>4 DEF Only, MayPublish, Publishes
    <3> QED
      BY <2>6, <3>1, <3>2, PlainConcat, HasConcat
  <2>8. PICK rest : rest = logged \o more
    OBVIOUS
  <2>9. Led(s, rest)
    BY <2>2, <2>7, <2>8 DEF Led, Leading
  <2>10. PICK plan : plan = <<s>> \o rest /\ Orderly(plan) /\ Todo(plan) = {s} \cup Todo(rest)
    BY <2>9, LedOrderly
  <2>11. state[p] # "none"
    BY <1>7 DEF Edit
  <2>12. Suits(p, plan)
    <3>1. \A t \in Todo(rest) : t.do \notin Leading
      BY <2>7, <2>8 DEF Plain
    <3> QED
      BY <2>2, <2>7, <2>8, <2>10, <2>11, <3>1 DEF Suits, Has, Leading
  <2>13. plan = Text1(to) \o more
    <3>1. Log("user", "edit") \in Statement
      BY LogType
    <3>2. PICK x \in Seq(Statement), y \in Seq(Statement), z \in Seq(Statement) :
             x = <<s>> /\ y = logged /\ z = more
      <4>1. <<s>> \in Seq(Statement) /\ logged \in Seq(Statement) /\ more \in Seq(Statement)
        BY <2>4, <2>6 DEF Only, Plain
      <4> QED
        BY <4>1, Zenon
    <3>3. x \o (y \o z) = (x \o y) \o z
      BY ConcatAssociative
    <3>4. x \o y = Text1(to)
      BY <2>2, <3>1, <3>2, JoinOnes DEF logged
    <3> QED
      BY <2>8, <2>10, <3>2, <3>3, <3>4
  <2> QED
    BY <2>1, <2>3, <2>12, <2>13, <1>1, <1>3, <1>7 DEF Edit, SetsOut
<1>8. CASE Appeal(h, p)
  <2>1. Only(<<Do("open"), Log("user", "appeal")>>, {"open", "log"})
    <3>1. Only(<<Do("open")>>, {"open"}) /\ Only(<<Log("user", "appeal")>>, {"log"})
      BY DoOnly, LogOnly DEF Leading
    <3>2. Only(<<Do("open")>>, {"open", "log"}) /\ Only(<<Log("user", "appeal")>>, {"open", "log"})
      BY <3>1, OnlyWider
    <3> QED
      BY <3>2, DoType, LogType, OnlyPair
  <2>2. state[p] # "none"
    BY <1>8 DEF Appeal
  <2> QED
    BY <2>1, <2>2, OnlySuits, <1>1, <1>3, <1>8 DEF Appeal, SetsOut
<1>9. ASSUME NEW u \in Users, Delete(h, p, u) PROVE SetsOut(h)
  <2>1. Only(<<Set("user", "delete", "deleted"), Log("user", "delete")>>, {"set", "log"})
    BY ChangeOnly
  <2>2. state[p] # "none"
    BY <1>9 DEF Delete
  <2> QED
    BY <2>1, <2>2, OnlySuits, <1>1, <1>9 DEF Delete, SetsOut
<1>10. ASSUME NEW u \in Users, Report(h, p, u) PROVE SetsOut(h)
  <2>1. Do("report") \in Statement /\ Do("report").do = "report"
    BY DoType DEF Do
  <2>2. state[p] # "none"
    BY <1>10 DEF Report
  <2>3. Suits(p, <<Do("report")>>)
    BY <2>1, <2>2, AloneSuits DEF Leading
  <2> QED
    BY <2>3, <1>1, <1>10 DEF Report, SetsOut
<1>11. ASSUME NEW u \in Users, DeleteAccount(h, p, u) PROVE SetsOut(h)
  <2> DEFINE first == <<Do("forget"), Do("sessions")>>
             last == <<Do("tombstone"), Do("record")>>
             calls == {"forget", "sessions", "tombstone", "record"}
  <2>1. ASSUME NEW call \in calls PROVE Only(<<Do(call)>>, calls)
    <3>1. Only(<<Do(call)>>, {call})
      BY <2>1, DoOnly DEF Leading
    <3> QED
      BY <2>1, <3>1, OnlyWider
  <2>2. Only(first, calls) /\ Only(last, calls)
    BY <2>1, DoType, OnlyPair
  <2>3. first \o last = <<Do("forget"), Do("sessions"), Do("tombstone"), Do("record")>>
    BY DoType, JoinTwos
  <2>4. calls \cap Later = {}
    BY DEF Later
  <2> HIDE DEF first, last, calls
  <2>5. Only(first \o last, calls)
    BY <2>2, OnlyConcat
  <2>6. Suits(p, first \o last)
    BY <2>4, <2>5, OnlySuits
  <2> QED
    BY <2>3, <2>6, <1>1, <1>11 DEF DeleteAccount, SetsOut
<1>12. ASSUME NEW u \in Users, NEW to \in PostState, Review(h, p, u, to)
       PROVE  SetsOut(h)
  <2> DEFINE s == [Do("resolve") EXCEPT !.to = to]
  <2>1. s \in Statement /\ s.do = "resolve" /\ s.to = to
    BY DEF Do, Statement
  <2> HIDE DEF s
  <2>2. state[p] # "none" /\ to # "none"
    BY <1>12 DEF Review, Existence
  <2>3. Suits(p, <<s>>)
    BY <2>1, <2>2, AloneSuits DEF Leading
  <2> QED
    BY <2>3, <1>1, <1>12 DEF Review, SetsOut, s
<1>13. ASSUME NEW u \in Users, NEW to \in PostState, SetState(h, p, u, to)
       PROVE  SetsOut(h)
  <2>1. ActionFor(to) \in Action
    BY DEF ActionFor
  <2>2. state[p] # "none" /\ to # "none"
    BY <1>13 DEF SetState
  <2>3. Only(<<Set("user", ActionFor(to), to), Log("user", ActionFor(to))>>, {"set", "log"})
    BY <2>1, <2>2, ChangeOnly
  <2> QED
    BY <2>2, <2>3, OnlySuits, <1>1, <1>13 DEF SetState, SetsOut
<1> QED
  BY <1>2, <1>6, <1>7, <1>8, <1>9, <1>10, <1>11, <1>12, <1>13

LEMMA ProcessSetsOut ==
    ASSUME NEW h \in Procs, NEW p \in Posts, Process(h, p), ~Busy(h),
           Unmoved, failures' = failures
    PROVE  SetsOut(h)
<1> DEFINE First(enabled) == IF state[p] # "pending" THEN <<>>
                             ELSE IF enabled THEN <<Do("classify")>> ELSE Release
           calls == {"classify", "set", "log"}
<1>1. PICK enabled \in PolicyReads :
         Start(h, p, Author[p], First(enabled) \o AckOf(h))
  BY DEF Process
<1>2. PICK first : first = First(enabled)
  OBVIOUS
<1>3. Only(AckOf(h), {"ack"}) /\ Only(<<>>, {"ack"})
  BY AckOfOnly, EmptyPlain, TodoEmpty DEF Only
<1>4. Suits(p, first \o AckOf(h))
  <2>1. CASE state[p] # "pending"
    <3>1. Only(first \o AckOf(h), {"ack"})
      BY <1>2, <1>3, <2>1, OnlyConcat
    <3>2. {"ack"} \cap Later = {}
      BY DEF Later
    <3> QED
      BY <3>1, <3>2, OnlySuits
  <2>2. CASE state[p] = "pending"
    <3>1. Only(<<Do("classify")>>, {"classify"}) /\ Only(Release, {"set", "log"})
      BY DoOnly, ReleaseOnly DEF Leading
    <3>2. Only(first, calls)
      BY <1>2, <2>2, <3>1, OnlyWider
    <3>3. Only(first, calls \cup {"ack"}) /\ Only(AckOf(h), calls \cup {"ack"})
      BY <1>3, <3>2, OnlyWider
    <3>4. Only(first \o AckOf(h), calls \cup {"ack"})
      BY <3>3, OnlyConcat
    <3> QED
      BY <2>2, <3>4, OnlySuits
  <2> QED
    BY <2>1, <2>2
<1>5. Author[p] \in Users
  BY ModerationAssumption
<1> QED
  BY <1>1, <1>2, <1>4, <1>5 DEF SetsOut

\* Every step is one of these.
LEMMA DutyCases ==
    ASSUME TypeOK, Existence, [Next]_vars
    PROVE  \/ Unmoved /\ run' = run /\ failures' = failures
           \/ \E h \in Procs : SetsOut(h) \/ Step(h) \/ Fail(h)
<1>1. Webs \subseteq Procs /\ Consumers \subseteq Procs /\ Sweepers \subseteq Procs
  BY DEF Procs
<1>2. ASSUME NEW h \in Webs, WebRequest(h) PROVE SetsOut(h)
  BY <1>2, RequestSetsOut
<1>3. ASSUME NEW h \in Consumers, NEW p \in Posts, Deliver(h, p) PROVE SetsOut(h)
  <2>1. ~Busy(h) /\ Unmoved /\ failures' = failures /\ Process(h, p)
    BY <1>3 DEF Deliver, tables, history, Unmoved
  <2> QED
    BY <1>1, <2>1, ProcessSetsOut
<1>4. ASSUME NEW h \in Sweepers, SweepNext(h) PROVE SetsOut(h)
  <2>1. PICK p \in Oldest(1, work[h]) : Process(h, p)
    BY <1>4 DEF SweepNext
  <2>2. ~Busy(h) /\ Unmoved /\ failures' = failures
    BY <1>4 DEF SweepNext, tables, history, Unmoved
  <2>3. p \in Posts
    BY <2>1 DEF Oldest, TypeOK
  <2> QED
    BY <1>1, <2>1, <2>2, <2>3, ProcessSetsOut
<1>5. ASSUME NEW h \in Sweepers, Sweep(h) PROVE Unmoved /\ run' = run /\ failures' = failures
  BY <1>5 DEF Sweep, tables, history, Unmoved
<1>6. ASSUME NEW p \in Posts, LoseJob(p) PROVE Unmoved /\ run' = run /\ failures' = failures
  BY <1>6 DEF LoseJob, history, quiet, Unmoved
<1>7. CASE UNCHANGED vars
  BY <1>7 DEF vars, tables, history, Unmoved
<1> QED
  BY <1>1, <1>2, <1>3, <1>4, <1>5, <1>6, <1>7 DEF Next

-----------------------------------------------------------------------------
(* Handlers that go on.                                                    *)

\* What h may go on with after the call it now makes.
Goes(h, plan) ==
    /\ Orderly(plan)
    /\ ~Has(plan, {"insert", "body", "report", "resolve"})
    /\ Has(plan, Later) => Has(run[h].plan, Later)
    /\ Has(plan, {"count"}) => Has(run[h].plan, {"report"})
    /\ MayPublish(plan) => MayPublish(run[h].plan)
    /\ \A calls : Has(run[h].plan, calls) => NextCall(h).do \in calls \/ Has(plan, calls)

LEMMA GoesOn ==
    ASSUME TypeOK, NEW h \in Procs, Orderly(run[h].plan), Busy(h)
    PROVE  /\ NextCall(h) \in Statement /\ Plain(Rest(h))
           /\ Todo(run[h].plan) = {NextCall(h)} \cup Todo(Rest(h))
           /\ Plain(run[h].plan) \/ Led(NextCall(h), Rest(h))
           /\ Goes(h, Rest(h))
           /\ NextCall(h).do \in {"report", "count", "resolve"} => Rest(h) = <<>>
<1>1. /\ NextCall(h) \in Statement /\ Plain(Rest(h))
      /\ Todo(run[h].plan) = {NextCall(h)} \cup Todo(Rest(h))
      /\ Plain(run[h].plan) \/ Led(NextCall(h), Rest(h))
  BY OrderlyRest DEF Busy, NextCall, Rest
<1>2. \A s \in Todo(Rest(h)) : s.do \notin Leading
  BY <1>1 DEF Plain
<1>3. NextCall(h).do \in {"report", "count", "resolve"} => Rest(h) = <<>>
  <2>1. NextCall(h) \in Todo(run[h].plan)
    BY <1>1
  <2> QED
    BY <1>1, <2>1 DEF Plain, Led, Leading
<1>4. Goes(h, Rest(h))
  BY <1>1, <1>2 DEF Goes, Orderly, Has, MayPublish, Leading
<1> QED
  BY <1>1, <1>3, <1>4

\* The calls that follow one that stands alone.
LEMMA GoesAlone ==
    ASSUME NEW h \in Procs, Todo(run[h].plan) = {NextCall(h)},
           NEW plan, NEW calls, Only(plan, calls),
           calls \cap Later # {} => NextCall(h).do \in Later,
           MayPublish(plan) => Publishes(NextCall(h))
    PROVE  Goes(h, plan)
<1>1. Orderly(plan) /\ \A s \in Todo(plan) : s.do \notin Leading
  BY DEF Only, Plain, Orderly
<1>2. Has(plan, Later) => Has(run[h].plan, Later)
  BY DEF Only, Has
<1>3. MayPublish(plan) => MayPublish(run[h].plan)
  BY DEF MayPublish
<1>4. ~Has(plan, {"insert", "body", "report", "resolve"}) /\ ~Has(plan, {"count"})
  BY <1>1 DEF Has, Leading
<1>5. \A some : Has(run[h].plan, some) => NextCall(h).do \in some
  BY DEF Has
<1> QED
  BY <1>1, <1>2, <1>3, <1>4, <1>5 DEF Goes

LEMMA VerdictGoes ==
    ASSUME TypeOK, NEW h \in Procs, Orderly(run[h].plan), Busy(h),
           NextCall(h).do = "classify", NEW answer
    PROVE  Goes(h, Verdict(answer) \o Rest(h))
<1>1. /\ NextCall(h) \in Statement /\ Plain(Rest(h)) /\ Goes(h, Rest(h))
      /\ Todo(run[h].plan) = {NextCall(h)} \cup Todo(Rest(h))
  BY GoesOn
<1>2. PICK verdict : verdict = Verdict(answer)
  OBVIOUS
<1>3. Plain(verdict) /\ \A s \in Todo(verdict) : s.do \in {"set", "log", "open"}
  BY <1>2, VerdictOnly DEF Only
<1>4. verdict \in Seq(Statement) /\ Rest(h) \in Seq(Statement)
  BY <1>1, <1>3 DEF Plain
<1>5. PICK plan : plan = verdict \o Rest(h)
  OBVIOUS
<1>6. Plain(plan) /\ Todo(plan) = Todo(verdict) \cup Todo(Rest(h))
  BY <1>1, <1>3, <1>4, <1>5, PlainConcat, TodoConcat
<1>7. Has(run[h].plan, Later) /\ MayPublish(run[h].plan)
  BY <1>1 DEF Has, Later, MayPublish, Publishes
<1>8. \A calls : Has(run[h].plan, calls) => NextCall(h).do \in calls \/ Has(plan, calls)
  BY <1>1, <1>6 DEF Has
<1>9. \A s \in Todo(plan) : s.do \notin Leading
  BY <1>6 DEF Plain
<1>10. ~Has(plan, {"insert", "body", "report", "resolve"}) /\ ~Has(plan, {"count"})
  BY <1>9 DEF Has, Leading
<1>11. Goes(h, plan)
  BY <1>6, <1>7, <1>8, <1>10 DEF Goes, Orderly
<1> QED
  BY <1>2, <1>5, <1>11

LEMMA ReportGoes ==
    ASSUME TypeOK, NEW h \in Procs, Orderly(run[h].plan), Busy(h),
           NextCall(h).do = "report"
    PROVE  Goes(h, <<>>) /\ Goes(h, <<Do("count")>>) /\ Has(<<Do("count")>>, {"count"})
<1>1. /\ NextCall(h) \in Statement /\ Todo(run[h].plan) = {NextCall(h)}
      /\ Rest(h) = <<>> /\ Goes(h, Rest(h))
  BY GoesOn, TodoEmpty
<1>2. Do("count") \in Statement /\ Do("count").do = "count"
  BY DoType DEF Do
<1>3. PICK plan : plan = <<Do("count")>> /\ Orderly(plan) /\ Todo(plan) = {Do("count")}
  BY <1>2, AloneOrderly DEF Leading
<1>4. Has(run[h].plan, Later) /\ Has(run[h].plan, {"report"})
  BY <1>1 DEF Has, Later
<1>5. \A calls : Has(run[h].plan, calls) => NextCall(h).do \in calls
  BY <1>1 DEF Has
<1>6. ~Has(plan, {"insert", "body", "report", "resolve"}) /\ ~MayPublish(plan)
  BY <1>2, <1>3 DEF Has, MayPublish, Publishes
<1>7. Goes(h, plan)
  BY <1>3, <1>4, <1>5, <1>6 DEF Goes
<1> QED
  BY <1>1, <1>2, <1>3, <1>7 DEF Has

LEMMA CountGoes ==
    ASSUME TypeOK, NEW h \in Procs, Orderly(run[h].plan), Busy(h),
           NextCall(h).do = "count", NEW tip \in BOOLEAN
    PROVE  /\ Goes(h, <<Log("user", "report")>> \o IF tip THEN Recall ELSE <<>>)
           /\ tip => Has(<<Log("user", "report")>> \o IF tip THEN Recall ELSE <<>>, {"set"})
<1>1. /\ NextCall(h) \in Statement /\ Todo(run[h].plan) = {NextCall(h)}
  BY GoesOn, TodoEmpty
<1> DEFINE calls == {"set", "log", "open", "enqueue"}
<1>2. PICK first : first = <<Log("user", "report")>> /\ Only(first, {"log"})
  BY LogOnly
<1>3. PICK more : more = IF tip THEN Recall ELSE <<>>
  OBVIOUS
<1>4. Only(more, calls) /\ ~MayPublish(more) /\ (tip => Has(more, {"set"}))
  BY <1>3, RecallOnly, EmptyPlain, TodoEmpty DEF Only
<1>5. first \in Seq(Statement) /\ more \in Seq(Statement)
  BY <1>2, <1>4 DEF Only, Plain
<1>6. ~MayPublish(first)
  BY <1>2 DEF Only, MayPublish, Publishes
<1>7. Only(first, calls)
  BY <1>2, OnlyWider
<1>8. PICK plan : plan = first \o more
  OBVIOUS
<1>9. Only(plan, calls) /\ ~MayPublish(plan) /\ (tip => Has(plan, {"set"}))
  BY <1>4, <1>5, <1>6, <1>7, <1>8, OnlyConcat, HasConcat
<1>10. NextCall(h).do \in Later
  BY DEF Later
<1>11. Goes(h, plan)
  <2> HIDE DEF calls
  <2> QED
    BY <1>1, <1>9, <1>10, GoesAlone
<1> QED
  BY <1>2, <1>3, <1>8, <1>9, <1>11

LEMMA ResolveGoes ==
    ASSUME TypeOK, NEW h \in Procs, Orderly(run[h].plan), Busy(h),
           NextCall(h).do = "resolve"
    PROVE  /\ Goes(h, <<>>) /\ Goes(h, Decide(NextCall(h).to))
           /\ Has(Decide(NextCall(h).to), {"set"})
<1>1. /\ NextCall(h) \in Statement /\ Todo(run[h].plan) = {NextCall(h)}
      /\ Rest(h) = <<>> /\ Goes(h, Rest(h))
      /\ Plain(run[h].plan) \/ Led(NextCall(h), Rest(h))
  BY GoesOn, TodoEmpty
<1>2. ~Plain(run[h].plan)
  BY <1>1 DEF Plain, Leading
<1>3. NextCall(h).to \in PostState \ {"none"}
  BY <1>1, <1>2 DEF Led, Statement
<1>4. PICK plan : plan = Decide(NextCall(h).to) /\ Only(plan, {"set", "log"})
  BY <1>3, DecideOnly
<1>5. NextCall(h).do \in Later /\ Publishes(NextCall(h))
  BY DEF Later, Publishes
<1>6. Goes(h, plan)
  BY <1>1, <1>4, <1>5, GoesAlone
<1>7. Has(plan, {"set"})
  <2>1. ASSUME NEW act \in Action, NEW to \in PostState \ {"none"}
        PROVE  Has(<<Set("user", act, to), Log("user", act)>>, {"set"})
    <3>1. Set("user", act, to) \in Statement /\ Log("user", act) \in Statement
      BY SetType, LogType
    <3>2. Set("user", act, to).do = "set"
      BY DEF Set
    <3> QED
      BY <3>1, <3>2, TodoPair DEF Has
  <2> QED
    BY <1>3, <1>4, <2>1 DEF Decide
<1> QED
  BY <1>1, <1>4, <1>6, <1>7

LEMMA StepGoes ==
    ASSUME TypeOK, Existence, NEW h \in Procs, Step(h)
    PROVE  Busy(h) /\ \E plan : Goes(h, plan) /\ Continue(h, plan)
<1>1. Busy(h)
  BY DEF Step, At, ClassifierAnswers, InsertPost, SetPostState, LogAction,
         OpenReview, ResolveReview, AddReport, CountReports, UpdatePostBody,
         EnqueueJob, Acknowledge, SetUserState, DeleteUserSessions, TombstoneUserPosts,
         RecordDeletion
<1>2. Orderly(run[h].plan)
  BY DEF Existence
<1>3. CASE Continue(h, Rest(h))
  BY <1>1, <1>2, <1>3, GoesOn
<1>4. CASE ClassifierAnswers(h)
  BY <1>1, <1>2, <1>4, VerdictGoes DEF ClassifierAnswers, At
<1>5. CASE ResolveReview(h)
  BY <1>1, <1>2, <1>5, ResolveGoes DEF ResolveReview, At
<1>6. CASE AddReport(h)
  <2>1. Continue(h, <<>>) \/ Continue(h, <<Do("count")>>)
    BY <1>6 DEF AddReport
  <2> QED
    BY <1>1, <1>2, <1>6, <2>1, ReportGoes DEF AddReport, At
<1>7. CASE CountReports(h)
  <2>1. PICK tip \in BOOLEAN :
           Continue(h, <<Log("user", "report")>> \o IF tip THEN Recall ELSE <<>>)
    BY <1>7 DEF CountReports, Tips
  <2> QED
    BY <1>1, <1>2, <1>7, <2>1, CountGoes DEF CountReports, At
<1> QED
  BY <1>1, <1>3, <1>4, <1>5, <1>6, <1>7
     DEF Step, InsertPost, SetPostState, LogAction, OpenReview, UpdatePostBody,
         EnqueueJob, Acknowledge, SetUserState, DeleteUserSessions, TombstoneUserPosts,
         RecordDeletion

\* What Continue leaves in the handler's record, what it knows included.
LEMMA Knows ==
    ASSUME TypeOK, NEW h \in Procs, NEW plan, Continue(h, plan)
    PROVE  /\ \A g \in Procs \ {h} : run'[g] = run[g]
           /\ run'[h].plan = plan
           /\ plan # <<>> => run'[h].post = run[h].post /\ run'[h].seen = run[h].seen
<1>1. run[h] \in Run /\ run \in [Procs -> Run]
  BY DEF TypeOK
<1>2. run'[h] = IF plan = <<>> THEN Idle ELSE [run[h] EXCEPT !.plan = plan]
  BY <1>1 DEF Continue
<1>3. \A g \in Procs \ {h} : run'[g] = run[g]
  BY <1>1 DEF Continue
<1>4. CASE plan = <<>>
  BY <1>2, <1>3, <1>4 DEF Idle
<1>5. CASE plan # <<>>
  BY <1>1, <1>2, <1>3, <1>5 DEF Run
<1> QED
  BY <1>4, <1>5

LEMMA Started ==
    ASSUME TypeOK, NEW h \in Procs, NEW p, NEW u, NEW plan, Start(h, p, u, plan)
    PROVE  /\ \A g \in Procs \ {h} : run'[g] = run[g]
           /\ run'[h].plan = plan
           /\ plan # <<>> => run'[h].post = p /\ run'[h].seen = Seen(p)
<1>1. run \in [Procs -> Run]
  BY DEF TypeOK
<1>2. run'[h] = IF plan = <<>> THEN Idle
                ELSE [plan |-> plan, post |-> p, seen |-> Seen(p), user |-> u]
  BY <1>1 DEF Start
<1>3. \A g \in Procs \ {h} : run'[g] = run[g]
  BY <1>1 DEF Start
<1> QED
  BY <1>2, <1>3 DEF Idle

-----------------------------------------------------------------------------
(* The handlers and the tables agree on which posts are written.           *)

Unwritten == \A p \in Posts : state[p] = "none" => signals[p] = {} /\ item[p] = "none"

LEMMA ExistenceMoves ==
    ASSUME TypeOK, Existence, NEW h \in Procs, NEW plan,
           Continue(h, plan), Goes(h, plan),
           \A p \in Posts : state[p] # "none" => state'[p] # "none",
           \A p \in Posts : (state[p] = "none" /\ state'[p] # "none")
               => run[h].post = p /\ Has(run[h].plan, {"insert"}),
           Unwritten'
    PROVE  Existence'
<1>1. /\ \A g \in Procs \ {h} : run'[g] = run[g]
      /\ run'[h].plan = plan
      /\ plan # <<>> => run'[h].post = run[h].post
  BY Knows
<1>2. \A g \in Procs : run[g].post \in Posts
  BY DEF TypeOK, Run
<1>3. \A g \in Procs : Orderly(run'[g].plan)
  BY <1>1 DEF Existence, Goes
<1>4. ASSUME NEW g \in Procs, Has(run'[g].plan, Later)
      PROVE  state'[run'[g].post] # "none"
  <2>1. CASE g # h
    BY <1>1, <1>2, <1>4, <2>1 DEF Existence
  <2>2. CASE g = h
    <3>1. plan # <<>> /\ Has(run[h].plan, Later)
      BY <1>1, <1>4, <2>2, EmptyPlain DEF Goes
    <3> QED
      BY <1>1, <1>2, <2>2, <3>1 DEF Existence
  <2> QED
    BY <2>1, <2>2
<1>5. ~Has(run'[h].plan, {"insert"})
  BY <1>1 DEF Goes, Has
<1>6. ASSUME NEW g \in Procs, Has(run'[g].plan, {"insert"})
      PROVE  state'[run'[g].post] = "none"
  <2>1. g # h /\ run'[g] = run[g]
    BY <1>1, <1>5, <1>6
  <2>2. state[run[g].post] = "none"
    BY <1>6, <2>1 DEF Existence
  <2>3. state'[run[g].post] # "none" => run[h].post = run[g].post /\ Has(run[h].plan, {"insert"})
    BY <1>2, <2>2
  <2> QED
    BY <1>6, <2>1, <2>3 DEF Existence
<1>7. \A f, g \in Procs :
        (Has(run'[f].plan, {"insert"}) /\ Has(run'[g].plan, {"insert"}) /\ f # g)
            => run'[f].post # run'[g].post
  BY <1>1, <1>5 DEF Existence
<1> QED
  BY <1>3, <1>4, <1>6, <1>7 DEF Existence, Unwritten

LEMMA ExistenceBegins ==
    ASSUME TypeOK, Existence, NEW h \in Procs, SetsOut(h)
    PROVE  Existence'
<1>1. PICK p \in Posts, u \in Users : \E plan : Suits(p, plan) /\ Start(h, p, u, plan)
  BY DEF SetsOut
<1>2. PICK plan : Suits(p, plan) /\ Start(h, p, u, plan)
  BY <1>1
<1>3. /\ \A g \in Procs \ {h} : run'[g] = run[g]
      /\ run'[h].plan = plan
      /\ plan # <<>> => run'[h].post = p
  BY <1>2, Started
<1>4. state' = state /\ signals' = signals /\ item' = item
  BY DEF SetsOut, Unmoved
<1>5. \A g \in Procs : Orderly(run'[g].plan)
  BY <1>2, <1>3 DEF Existence, Suits
<1>6. ASSUME NEW g \in Procs
      PROVE  /\ Has(run'[g].plan, Later) => state'[run'[g].post] # "none"
             /\ Has(run'[g].plan, {"insert"}) => state'[run'[g].post] = "none"
  <2>1. CASE g # h
    BY <1>3, <1>4, <2>1 DEF Existence
  <2>2. CASE g = h
    BY <1>2, <1>3, <1>4, <2>2, EmptyPlain DEF Suits
  <2> QED
    BY <2>1, <2>2
<1>7. ASSUME NEW g \in Procs, g # h,
             Has(run'[g].plan, {"insert"}), Has(run'[h].plan, {"insert"})
      PROVE  run'[g].post # run'[h].post
  <2>1. run'[g] = run[g] /\ Busy(g)
    BY <1>3, <1>7, EmptyPlain DEF Busy
  <2>2. run'[h].post = p
    BY <1>3, <1>7, EmptyPlain
  <2> QED
    BY <1>2, <1>3, <1>7, <2>1, <2>2 DEF Suits
<1>8. \A f, g \in Procs :
        (Has(run'[f].plan, {"insert"}) /\ Has(run'[g].plan, {"insert"}) /\ f # g)
            => run'[f].post # run'[g].post
  BY <1>3, <1>7 DEF Existence
<1> QED
  BY <1>4, <1>5, <1>6, <1>8 DEF Existence

LEMMA FailGoes ==
    ASSUME TypeOK, NEW h \in Procs, Fail(h)
    PROVE  Continue(h, <<>>) /\ Unmoved /\ failures' = failures + 1
BY DEF Fail, tables, history, Unmoved

\* A handler at a call holds it, and has its post written if the call is one
\* that only written posts get.
LEMMA AtCall ==
    ASSUME TypeOK, Existence, NEW h \in Procs, NEW call, At(h, call)
    PROVE  /\ Busy(h) /\ NextCall(h).do = call /\ NextCall(h) \in Statement
           /\ run[h].post \in Posts /\ run[h].user \in Users
           /\ Has(run[h].plan, {call})
           /\ NextCall(h) \in Todo(run[h].plan)
           /\ call \in Later => state[run[h].post] # "none"
<1>1. Busy(h) /\ NextCall(h).do = call
  BY DEF At
<1>2. NextCall(h) \in Todo(run[h].plan)
  BY <1>1, GoesOn DEF Existence
<1>3. Has(run[h].plan, {call}) /\ (call \in Later => Has(run[h].plan, Later))
  BY <1>1, <1>2 DEF Has
<1> QED
  BY <1>1, <1>2, <1>3, BusyType DEF Existence

LEMMA ExistenceStep ==
    ASSUME TypeOK, Existence, [Next]_vars
    PROVE  Existence'
<1>0. Unwritten
  BY DEF Existence, Unwritten
<1>1. CASE Unmoved /\ run' = run
  BY <1>1 DEF Unmoved, Existence
<1>2. ASSUME NEW h \in Procs, SetsOut(h) PROVE Existence'
  BY <1>2, ExistenceBegins
<1>3. ASSUME NEW h \in Procs, Fail(h) PROVE Existence'
  <2>1. Continue(h, <<>>) /\ Unmoved
    BY <1>3, FailGoes
  <2>3. /\ \A g \in Procs \ {h} : run'[g] = run[g]
        /\ run'[h].plan = <<>>
    BY <2>1, Knows
  <2>4. Orderly(<<>>) /\ \A calls : ~Has(<<>>, calls)
    BY EmptyPlain DEF Orderly
  <2>5. state' = state /\ signals' = signals /\ item' = item
    BY <2>1 DEF Unmoved
  <2> QED
    BY <2>3, <2>4, <2>5 DEF Existence
<1>4. ASSUME NEW h \in Procs, Step(h) PROVE Existence'
  <2>1. PICK plan : Goes(h, plan) /\ Continue(h, plan)
    BY <1>4, StepGoes
  <2> DEFINE p == run[h].post
  <2>2. CASE UNCHANGED <<state, signals, item>>
    BY <1>0, <2>1, <2>2, ExistenceMoves DEF Unwritten
  <2>3. CASE InsertPost(h)
    <3>1. /\ Has(run[h].plan, {"insert"}) /\ p \in Posts
          /\ state' = [state EXCEPT ![p] = NextCall(h).to]
          /\ UNCHANGED <<signals, item>>
      BY <2>3, AtCall DEF InsertPost
    <3>2. state[p] = "none" /\ NextCall(h).to # "none"
      <4>1. Busy(h) /\ Orderly(run[h].plan) /\ NextCall(h).do = "insert"
        BY <2>3 DEF InsertPost, At, Existence
      <4>2. NextCall(h).to # "none"
        BY <4>1, GoesOn DEF Plain, Led, Leading
      <4> QED
        BY <3>1, <4>2 DEF Existence
    <3>3. /\ state'[p] # "none"
          /\ \A q \in Posts : q # p => state'[q] = state[q]
      BY <3>1, <3>2 DEF TypeOK
    <3>4. Unwritten'
      BY <1>0, <3>1, <3>3 DEF Unwritten
    <3> QED
      BY <2>1, <3>1, <3>2, <3>3, <3>4, ExistenceMoves
  <2>4. CASE SetPostState(h)
    <3>1. /\ p \in Posts /\ state[p] # "none"
          /\ state' = [state EXCEPT ![p] = NextCall(h).to]
          /\ UNCHANGED <<signals, item>>
      BY <2>4, AtCall DEF SetPostState, Later
    <3>2. NextCall(h).to # "none"
      <4>1. Busy(h) /\ Orderly(run[h].plan) /\ NextCall(h).do = "set"
        BY <2>4 DEF SetPostState, At, Existence
      <4> QED
        BY <4>1, GoesOn DEF Plain, Led, Leading
    <3>3. /\ state'[p] # "none"
          /\ \A q \in Posts : q # p => state'[q] = state[q]
      BY <3>1, <3>2 DEF TypeOK
    <3>4. Unwritten'
      BY <1>0, <3>1, <3>3 DEF Unwritten
    <3> QED
      BY <2>1, <3>1, <3>3, <3>4, ExistenceMoves
  <2>5. CASE OpenReview(h) \/ ResolveReview(h)
    <3>1. /\ p \in Posts /\ state[p] # "none"
      BY <2>5, AtCall DEF OpenReview, ResolveReview, Later
    <3>2. \A q \in Posts : q # p => item'[q] = item[q]
      BY <2>5, <3>1 DEF OpenReview, ResolveReview, TypeOK
    <3>3. UNCHANGED <<state, signals>>
      BY <2>5 DEF OpenReview, ResolveReview
    <3>4. Unwritten'
      BY <1>0, <3>1, <3>2, <3>3 DEF Unwritten
    <3> QED
      BY <2>1, <3>3, <3>4, ExistenceMoves
  <2>6. CASE AddReport(h)
    <3>1. /\ p \in Posts /\ state[p] # "none"
      BY <2>6, AtCall DEF AddReport, Later
    <3>2. \A q \in Posts : q # p => signals'[q] = signals[q]
      BY <2>6, <3>1 DEF AddReport, TypeOK
    <3>3. UNCHANGED <<state, item>>
      BY <2>6 DEF AddReport
    <3>4. Unwritten'
      BY <1>0, <3>1, <3>2, <3>3 DEF Unwritten
    <3> QED
      BY <2>1, <3>3, <3>4, ExistenceMoves
  <2>7. CASE TombstoneUserPosts(h)
    <3>1. PICK hit : /\ \A q \in hit : state[q] # "none"
                     /\ state' = [q \in Posts |-> IF q \in hit THEN "deleted" ELSE state[q]]
      BY <2>7 DEF TombstoneUserPosts
    <3>2. \A q \in Posts : state'[q] = "none" <=> state[q] = "none"
      BY <3>1
    <3>3. UNCHANGED <<signals, item>>
      BY <2>7 DEF TombstoneUserPosts
    <3>4. Unwritten'
      BY <1>0, <3>2, <3>3 DEF Unwritten
    <3> QED
      BY <2>1, <3>2, <3>4, ExistenceMoves
  <2> QED
    BY <1>4, <2>2, <2>3, <2>4, <2>5, <2>6, <2>7
       DEF Step, ClassifierAnswers, LogAction, CountReports, UpdatePostBody,
           EnqueueJob, Acknowledge, SetUserState, DeleteUserSessions,
         RecordDeletion, tables
<1> QED
  BY <1>1, <1>2, <1>3, <1>4, DutyCases

LEMMA AlwaysExistence == Spec => []Existence
<1>1. Init => Existence
  <2> SUFFICES ASSUME Init PROVE Existence
    OBVIOUS
  <2>1. \A h \in Procs : run[h].plan = <<>>
    BY DEF Init, Idle
  <2>2. Orderly(<<>>) /\ \A calls : ~Has(<<>>, calls)
    BY EmptyPlain DEF Orderly
  <2>3. \A p \in Posts : signals[p] = {} /\ item[p] = "none"
    BY DEF Init
  <2> QED
    BY <2>1, <2>2, <2>3 DEF Existence
<1> QED
  BY <1>1, ExistenceStep, TypeCorrect, PTL DEF Spec

-----------------------------------------------------------------------------
(* What the handlers read is still true as far as they will act on it.     *)

LEMMA InformedMoves ==
    ASSUME TypeOK, Existence, AllInformed, NEW h \in Procs, NEW plan,
           Continue(h, plan), Goes(h, plan),
           \A p \in Posts : (state'[p] = "visible" /\ changed'[p] = {})
               => state[p] \in {"visible", "none"} /\ changed[p] = {},
           \A p \in Posts : caught'[p]
               => \/ caught[p] /\ body'[p] = body[p]
                  \/ \A g \in Procs : run[g].post = p => ~MayPublish(run[g].plan)
    PROVE  AllInformed'
<1>1. /\ \A g \in Procs \ {h} : run'[g] = run[g]
      /\ run'[h].plan = plan
      /\ plan # <<>> => run'[h].post = run[h].post /\ run'[h].seen = run[h].seen
  BY Knows
<1>2. \A g \in Procs : run[g].post \in Posts
  BY DEF TypeOK, Run
<1> SUFFICES ASSUME NEW g \in Procs PROVE Informed(g)'
  BY DEF AllInformed
<1>3. Informed(g)
  BY DEF AllInformed
<1> DEFINE p == run[g].post
<1>4. p \in Posts
  BY <1>2
<1>5. (Has(run[g].plan, {"report", "count"}) /\ state'[p] = "visible" /\ changed'[p] = {})
         => run[g].seen.state = "visible"
  <2>1. Has(run[g].plan, {"report", "count"}) => state[p] # "none"
    BY DEF Existence, Has, Later
  <2> QED
    BY <1>3, <1>4, <2>1 DEF Informed
<1>6. (MayPublish(run[g].plan) /\ caught'[p]) => run[g].seen.body = body'[p]
  BY <1>3, <1>4 DEF Informed
<1>7. CASE g # h
  <2>1. run'[g] = run[g]
    BY <1>1, <1>7
  <2> QED
    BY <1>3, <1>5, <1>6, <2>1 DEF Informed
<1>8. CASE g = h /\ plan # <<>>
  <2>1. run'[g].plan = plan /\ run'[g].post = p /\ run'[g].seen = run[g].seen
    BY <1>1, <1>8
  <2>2. Has(plan, {"report", "count"}) => Has(run[g].plan, {"report", "count"})
    BY <1>8 DEF Goes, Has
  <2>3. MayPublish(plan) => MayPublish(run[g].plan)
    BY <1>8 DEF Goes
  <2>4. \A s \in Todo(plan) : s.do # "body"
    BY DEF Goes, Has
  <2> QED
    BY <1>5, <1>6, <2>1, <2>2, <2>3, <2>4 DEF Informed
<1>9. CASE g = h /\ plan = <<>>
  <2>1. run'[g].plan = <<>>
    BY <1>1, <1>9
  <2> QED
    BY <2>1, EmptyPlain, TodoEmpty DEF Informed
<1> QED
  BY <1>7, <1>8, <1>9

LEMMA InformedBegins ==
    ASSUME TypeOK, AllInformed, NEW h \in Procs, SetsOut(h)
    PROVE  AllInformed'
<1>1. PICK p \in Posts, u \in Users : \E plan : Suits(p, plan) /\ Start(h, p, u, plan)
  BY DEF SetsOut
<1>2. PICK plan : Suits(p, plan) /\ Start(h, p, u, plan)
  BY <1>1
<1>3. /\ \A g \in Procs \ {h} : run'[g] = run[g]
      /\ run'[h].plan = plan
      /\ plan # <<>> => run'[h].post = p /\ run'[h].seen = Seen(p)
  BY <1>2, Started
<1>4. /\ state' = state /\ changed' = changed /\ caught' = caught /\ body' = body
  BY DEF SetsOut, Unmoved
<1> SUFFICES ASSUME NEW g \in Procs PROVE Informed(g)'
  BY DEF AllInformed
<1>5. CASE g # h
  <2>1. Informed(g) /\ run'[g] = run[g]
    BY <1>3, <1>5 DEF AllInformed
  <2> QED
    BY <1>4, <2>1 DEF Informed
<1>6. CASE g = h /\ plan # <<>>
  <2>1. /\ run'[g].plan = plan /\ run'[g].post = p
        /\ run'[g].seen.state = state[p] /\ run'[g].seen.body = body[p]
    BY <1>3, <1>6 DEF Seen
  <2> QED
    BY <1>2, <1>4, <2>1 DEF Informed, Suits
<1>7. CASE g = h /\ plan = <<>>
  <2>1. run'[g].plan = <<>>
    BY <1>3, <1>7
  <2> QED
    BY <2>1, EmptyPlain, TodoEmpty DEF Informed
<1> QED
  BY <1>5, <1>6, <1>7

LEMMA InformedStep ==
    ASSUME TypeOK, Existence, AllInformed, [Next]_vars
    PROVE  AllInformed'
<1>1. CASE Unmoved /\ run' = run
  BY <1>1 DEF Unmoved, AllInformed, Informed
<1>2. ASSUME NEW h \in Procs, SetsOut(h) PROVE AllInformed'
  BY <1>2, InformedBegins
<1>3. ASSUME NEW h \in Procs, Fail(h) PROVE AllInformed'
  <2>1. Continue(h, <<>>) /\ Unmoved
    BY <1>3, FailGoes
  <2>2. /\ \A g \in Procs \ {h} : run'[g] = run[g]
        /\ run'[h].plan = <<>>
    BY <2>1, Knows
  <2>3. state' = state /\ changed' = changed /\ caught' = caught /\ body' = body
    BY <2>1 DEF Unmoved
  <2>4. ASSUME NEW g \in Procs, g # h PROVE Informed(g)'
    <3>1. Informed(g) /\ run'[g] = run[g]
      BY <2>2, <2>4 DEF AllInformed
    <3> QED
      BY <2>3, <3>1 DEF Informed
  <2>5. Informed(h)'
    BY <2>2, EmptyPlain, TodoEmpty DEF Informed
  <2> QED
    BY <2>4, <2>5 DEF AllInformed
<1>4. ASSUME NEW h \in Procs, Step(h) PROVE AllInformed'
  <2>1. PICK plan : Goes(h, plan) /\ Continue(h, plan)
    BY <1>4, StepGoes
  <2> DEFINE p == run[h].post
             Known == \A q \in Posts : (state'[q] = "visible" /\ changed'[q] = {})
                        => state[q] \in {"visible", "none"} /\ changed[q] = {}
             Read == \A q \in Posts : caught'[q]
                        => \/ caught[q] /\ body'[q] = body[q]
                           \/ \A g \in Procs : run[g].post = q => ~MayPublish(run[g].plan)
  <2>2. SUFFICES Known /\ Read
    BY <2>1, InformedMoves
  <2>3. CASE UNCHANGED <<state, changed, caught, body>>
    BY <2>3
  <2>4. CASE InsertPost(h)
    <3>1. /\ Has(run[h].plan, {"insert"}) /\ p \in Posts
          /\ state' = [state EXCEPT ![p] = NextCall(h).to]
          /\ caught' = [caught EXCEPT ![p] = NextCall(h).to = "pending"]
          /\ UNCHANGED <<body, changed>>
      BY <2>4, AtCall DEF InsertPost
    <3>2. state[p] = "none"
      BY <3>1 DEF Existence
    <3>3. \A q \in Posts : q # p => state'[q] = state[q] /\ caught'[q] = caught[q]
      BY <3>1 DEF TypeOK
    <3>4. ASSUME NEW g \in Procs, run[g].post = p PROVE ~MayPublish(run[g].plan)
      <4>1. ~Has(run[g].plan, Later)
        BY <3>2, <3>4 DEF Existence
      <4> QED
        BY <4>1 DEF Has, MayPublish, Publishes, Later
    <3>5. Known
      BY <3>1, <3>2, <3>3
    <3>6. Read
      BY <3>1, <3>3, <3>4
    <3> QED
      BY <3>5, <3>6
  <2>5. CASE SetPostState(h)
    <3>1. /\ p \in Posts
          /\ state' = [state EXCEPT ![p] = NextCall(h).to]
          /\ changed' = [changed EXCEPT ![p] =
                            @ \cup {[who |-> NextCall(h).who, act |-> NextCall(h).act]}]
          /\ UNCHANGED <<body, caught>>
      BY <2>5, AtCall DEF SetPostState
    <3>2. changed'[p] # {} /\ \A q \in Posts : q # p => state'[q] = state[q] /\ changed'[q] = changed[q]
      BY <3>1 DEF TypeOK
    <3>3. Known
      BY <3>2
    <3>4. Read
      BY <3>1
    <3> QED
      BY <3>3, <3>4
  <2>6. CASE UpdatePostBody(h)
    <3>1. /\ p \in Posts /\ Busy(h) /\ NextCall(h).do = "body"
          /\ caught' = [caught EXCEPT ![p] = NextCall(h).to = "pending" /\ Undisturbed(h, p)]
          /\ body' = [body EXCEPT ![p] = @ + 1]
          /\ UNCHANGED <<state, changed>>
      BY <2>6, AtCall DEF UpdatePostBody
    <3>2. \A q \in Posts : q # p => caught'[q] = caught[q] /\ body'[q] = body[q]
      BY <3>1 DEF TypeOK
    <3>3. ~MayPublish(run[h].plan)
      <4>1. Orderly(run[h].plan)
        BY DEF Existence
      <4>2. /\ Todo(run[h].plan) = {NextCall(h)} \cup Todo(Rest(h))
            /\ Plain(run[h].plan) \/ Led(NextCall(h), Rest(h))
        BY <3>1, <4>1, GoesOn
      <4>3. ~MayPublish(Rest(h))
        BY <3>1, <4>2 DEF Plain, Leading, Led
      <4> QED
        BY <3>1, <4>2, <4>3 DEF MayPublish, Publishes
    <3>4. ASSUME caught'[p], NEW g \in Procs, run[g].post = p
          PROVE  ~MayPublish(run[g].plan)
      <4>1. Undisturbed(h, p)
        BY <3>1, <3>4 DEF TypeOK
      <4>2. g # h => ~Busy(g)
        BY <3>4, <4>1 DEF Undisturbed
      <4> QED
        BY <3>3, <4>2, EmptyPlain DEF Busy
    <3>5. Known
      BY <3>1
    <3>6. Read
      BY <3>2, <3>4
    <3> QED
      BY <3>5, <3>6
  <2>7. CASE TombstoneUserPosts(h)
    <3>1. PICK hit : state' = [q \in Posts |-> IF q \in hit THEN "deleted" ELSE state[q]]
      BY <2>7 DEF TombstoneUserPosts
    <3>2. UNCHANGED <<body, caught>>
      BY <2>7 DEF TombstoneUserPosts
    <3>5. \A q \in Posts : state'[q] = "visible" => changed'[q] = changed[q]
      BY <2>7, Tombstoned
    <3>3. Known
      BY <3>1, <3>5
    <3>4. Read
      BY <3>2
    <3> QED
      BY <3>3, <3>4
  <2> QED
    BY <1>4, <2>3, <2>4, <2>5, <2>6, <2>7
       DEF Step, ClassifierAnswers, LogAction, OpenReview, ResolveReview, AddReport,
           CountReports, EnqueueJob, Acknowledge, SetUserState, DeleteUserSessions,
         RecordDeletion, tables, history
<1> QED
  BY <1>1, <1>2, <1>3, <1>4, DutyCases

LEMMA AlwaysInformed == Spec => []AllInformed
<1>1. Init => AllInformed
  <2> SUFFICES ASSUME Init, NEW h \in Procs PROVE Informed(h)
    BY DEF AllInformed
  <2>1. run[h].plan = <<>>
    BY DEF Init, Idle
  <2> QED
    BY <2>1, EmptyPlain, TodoEmpty DEF Informed
<1> QED
  BY <1>1, InformedStep, AlwaysExistence, TypeCorrect, PTL DEF Spec

-----------------------------------------------------------------------------
(* What is owed to a post is coming, unless a handler stopped half way.    *)

\* A call that h does not make now is still coming after its step.
LEMMA StillComing ==
    ASSUME TypeOK, NEW h \in Procs, NEW plan, Continue(h, plan), Goes(h, plan),
           NEW p, NEW calls, Coming(p, calls),
           run[h].post = p => NextCall(h).do \notin calls
    PROVE  Coming(p, calls)'
<1>1. /\ \A g \in Procs \ {h} : run'[g] = run[g]
      /\ run'[h].plan = plan
      /\ plan # <<>> => run'[h].post = run[h].post
  BY Knows
<1>2. PICK g \in Procs : run[g].post = p /\ Has(run[g].plan, calls)
  BY DEF Coming
<1>3. CASE g # h
  BY <1>1, <1>2, <1>3 DEF Coming
<1>4. CASE g = h
  <2>1. Has(plan, calls) /\ plan # <<>>
    BY <1>2, <1>4, EmptyPlain DEF Goes
  <2> QED
    BY <1>1, <1>2, <1>4, <2>1 DEF Coming
<1> QED
  BY <1>3, <1>4

\* A call that h goes on with is coming.
LEMMA NowComing ==
    ASSUME TypeOK, NEW h \in Procs, NEW plan, Continue(h, plan),
           NEW p, run[h].post = p, NEW calls, Has(plan, calls)
    PROVE  Coming(p, calls)'
<1>1. plan # <<>>
  BY EmptyPlain
<1>2. run'[h].plan = plan /\ run'[h].post = run[h].post
  BY <1>1, Knows
<1> QED
  BY <1>2 DEF Coming

LEMMA HasWider ==
    ASSUME NEW plan, NEW few, NEW many, Has(plan, few), few \subseteq many
    PROVE  Has(plan, many)
BY DEF Has

LEMMA HideComingStep ==
    ASSUME TypeOK, Existence, NEW h \in Procs, Step(h),
           NEW p \in Posts, HideComing(p)
    PROVE  HideComing(p)'
<1> DEFINE q == run[h].post
           s == NextCall(h)
<1>1. PICK plan : Goes(h, plan) /\ Continue(h, plan)
  BY StepGoes
<1>2. ASSUME item'[p] = item[p], state'[p] = "hidden" => state[p] = "hidden" /\ by'[p] = by[p],
             q = p => s.do \notin {"open", "set"}
      PROVE  HideComing(p)'
  <2>1. Coming(p, {"open", "set"}) => Coming(p, {"open", "set"})'
    BY <1>1, <1>2, StillComing
  <2> QED
    BY <1>2, <2>1 DEF HideComing
<1>3. CASE SetPostState(h)
  <2>1. /\ Busy(h) /\ s.do = "set" /\ q \in Posts /\ Continue(h, Rest(h))
        /\ state' = [state EXCEPT ![q] = s.to]
        /\ by' = [by EXCEPT ![q] = s.who]
        /\ item' = item
    BY <1>3, AtCall DEF SetPostState
  <2>2. CASE q # p
    BY <1>2, <2>1, <2>2 DEF TypeOK
  <2>3. CASE q = p
    <3>1. SUFFICES ASSUME state'[p] = "hidden", by'[p] = "model"
                   PROVE  Coming(p, {"open", "set"})'
      BY DEF HideComing
    <3>2. ModelHide(s)
      BY <2>1, <2>3, <3>1 DEF TypeOK, ModelHide, ByModel
    <3>3. run[h].plan \in Seq(Statement) /\ run[h].plan # <<>> /\ HidesOpened(run[h].plan)
      <4>1. Orderly(run[h].plan)
        BY DEF Existence
      <4>2. Plain(run[h].plan)
        BY <2>1, <4>1, GoesOn DEF Led, Leading
      <4> QED
        BY <2>1, <4>2 DEF Plain, Busy
    <3>4. Has(Rest(h), {"open"})
      BY <3>2, <3>3, HideOpens DEF NextCall, Rest
    <3>5. Has(Rest(h), {"open", "set"})
      BY <3>4, HasWider
    <3> QED
      BY <2>1, <2>3, <3>5, NowComing
  <2> QED
    BY <2>2, <2>3
<1>4. CASE OpenReview(h)
  <2>1. /\ q \in Posts /\ item' = [item EXCEPT ![q] = "open"]
        /\ UNCHANGED <<state, by>>
    BY <1>4, AtCall DEF OpenReview
  <2>2. CASE q # p
    BY <1>2, <2>1, <2>2 DEF TypeOK
  <2>3. CASE q = p
    BY <2>1, <2>3 DEF HideComing, TypeOK
  <2> QED
    BY <2>2, <2>3
<1>5. CASE ResolveReview(h)
  <2>1. /\ q \in Posts /\ s.do = "resolve" /\ Busy(h) /\ UNCHANGED <<state, by>>
    BY <1>5, AtCall DEF ResolveReview
  <2>2. CASE UNCHANGED item
    BY <1>2, <2>1, <2>2
  <2>3. CASE item' = [item EXCEPT ![q] = "resolved"] /\ Continue(h, Decide(s.to))
    <3>1. CASE q # p
      BY <1>2, <2>1, <2>3, <3>1 DEF TypeOK
    <3>2. CASE q = p
      <4>1. Has(Decide(s.to), {"set"})
        BY <2>1, ResolveGoes DEF Existence
      <4>2. Has(Decide(s.to), {"open", "set"})
        BY <4>1, HasWider
      <4>3. Coming(p, {"open", "set"})'
        BY <2>3, <3>2, <4>2, NowComing
      <4> QED
        BY <4>3 DEF HideComing
    <3> QED
      BY <3>1, <3>2
  <2> QED
    BY <1>5, <2>2, <2>3 DEF ResolveReview
<1>6. CASE InsertPost(h)
  <2>1. /\ q \in Posts /\ Busy(h) /\ s.do = "insert"
        /\ state' = [state EXCEPT ![q] = s.to]
        /\ UNCHANGED <<item, by>>
    BY <1>6, AtCall DEF InsertPost
  <2>2. s.to \in {"visible", "pending"}
    BY <2>1, GoesOn DEF Existence, Plain, Led, Leading
  <2> QED
    BY <1>2, <2>1, <2>2 DEF TypeOK
<1>7. CASE TombstoneUserPosts(h)
  <2>1. s.do = "tombstone" /\ item' = item
    BY <1>7 DEF TombstoneUserPosts, At
  <2>2. PICK hit : /\ state' = [r \in Posts |-> IF r \in hit THEN "deleted" ELSE state[r]]
                   /\ by' = [r \in Posts |-> IF r \in hit THEN "user" ELSE by[r]]
    BY <1>7 DEF TombstoneUserPosts
  <2> QED
    BY <1>2, <2>1, <2>2
<1>8. ASSUME UNCHANGED <<state, by, item>>, s.do \notin {"open", "set"}
      PROVE  HideComing(p)'
  BY <1>2, <1>8
<1> HIDE DEF s
<1> QED
  BY <1>3, <1>4, <1>5, <1>6, <1>7, <1>8
     DEF Step, ClassifierAnswers, LogAction, AddReport, UpdatePostBody,
         CountReports, EnqueueJob, Acknowledge, SetUserState, DeleteUserSessions,
         RecordDeletion, tables, history, At, s

LEMMA RecallComingStep ==
    ASSUME ReportThreshold # 0, TypeOK, Existence, AllInformed,
           NEW h \in Procs, Step(h), NEW p \in Posts, RecallComing(p)
    PROVE  RecallComing(p)'
<1> DEFINE q == run[h].post
           s == NextCall(h)
<1>0. PICK plan : Goes(h, plan) /\ Continue(h, plan)
  BY StepGoes
<1>1. ReportThreshold \in Nat /\ ReportThreshold >= 1
  BY ModerationAssumption
<1>2. ASSUME signals'[p] = signals[p],
             state'[p] = "visible" => state[p] = "visible" /\ changed'[p] = changed[p],
             q = p => s.do \notin {"count", "set"}
      PROVE  RecallComing(p)'
  <2>1. Coming(p, {"count", "set"}) => Coming(p, {"count", "set"})'
    BY <1>0, <1>2, StillComing
  <2> QED
    BY <1>2, <2>1 DEF RecallComing
<1>3. CASE SetPostState(h)
  <2>1. /\ q \in Posts /\ signals' = signals
        /\ state' = [state EXCEPT ![q] = s.to]
        /\ changed' = [changed EXCEPT ![q] = @ \cup {[who |-> s.who, act |-> s.act]}]
    BY <1>3, AtCall DEF SetPostState
  <2>2. CASE q # p
    BY <1>2, <2>1, <2>2 DEF TypeOK
  <2>3. CASE q = p
    <3>1. changed'[p] # {}
      BY <2>1, <2>3 DEF TypeOK
    <3> QED
      BY <3>1 DEF RecallComing
  <2> QED
    BY <2>2, <2>3
<1>4. CASE CountReports(h)
  <2>1. /\ Busy(h) /\ s.do = "count" /\ Has(run[h].plan, {"count"}) /\ q \in Posts
        /\ UNCHANGED <<state, changed, signals>>
    BY <1>4, AtCall DEF CountReports, tables, history
  <2>2. CASE q # p
    BY <1>2, <2>1, <2>2
  <2>3. CASE q = p
    <3>1. SUFFICES ASSUME state[p] = "visible", changed[p] = {},
                          Cardinality(signals[p]) >= ReportThreshold
                   PROVE  Coming(p, {"count", "set"})'
      BY <2>1 DEF RecallComing
    <3>2. Has(run[h].plan, {"report", "count"})
      BY <2>1, HasWider
    <3>3. run[h].seen.state = "visible"
      BY <2>3, <3>1, <3>2 DEF AllInformed, Informed
    <3>4. Cardinality(signals[p]) \in Nat
      BY ModerationAssumption, FS_Subset, FS_CardinalityType DEF TypeOK
    <3>5. Tips(h, Cardinality(signals[p]))
      BY <1>1, <3>1, <3>3, <3>4 DEF Tips
    <3>6. Continue(h, <<Log("user", "report")>> \o IF TRUE THEN Recall ELSE <<>>)
      BY <1>4, <2>3, <3>5 DEF CountReports
    <3>7. Has(<<Log("user", "report")>> \o IF TRUE THEN Recall ELSE <<>>, {"set"})
      BY <2>1, CountGoes DEF Existence
    <3>8. Has(<<Log("user", "report")>> \o IF TRUE THEN Recall ELSE <<>>, {"count", "set"})
      BY <3>7, HasWider
    <3> QED
      BY <2>3, <3>6, <3>8, NowComing
  <2> QED
    BY <2>2, <2>3
<1>5. CASE AddReport(h)
  <2>1. /\ Busy(h) /\ s.do = "report" /\ q \in Posts
        /\ signals' = [signals EXCEPT ![q] = @ \cup {run[h].user}]
        /\ UNCHANGED <<state, changed>>
    BY <1>5, AtCall DEF AddReport, history
  <2>2. CASE q # p \/ run[h].user \in signals[p]
    <3>1. signals'[p] = signals[p]
      BY <2>1, <2>2 DEF TypeOK
    <3> QED
      BY <1>2, <2>1, <3>1
  <2>3. CASE q = p /\ run[h].user \notin signals[p]
    <3>1. Continue(h, <<Do("count")>>)
      BY <1>5, <2>3 DEF AddReport
    <3>2. Has(<<Do("count")>>, {"count"})
      BY <2>1, ReportGoes DEF Existence
    <3>3. Has(<<Do("count")>>, {"count", "set"})
      BY <3>2, HasWider
    <3>4. Coming(p, {"count", "set"})'
      BY <2>3, <3>1, <3>3, NowComing
    <3> QED
      BY <3>4 DEF RecallComing
  <2> QED
    BY <2>2, <2>3
<1>6. CASE InsertPost(h)
  <2>1. /\ q \in Posts /\ s.do = "insert" /\ Has(run[h].plan, {"insert"})
        /\ state' = [state EXCEPT ![q] = s.to]
        /\ UNCHANGED <<signals, changed>>
    BY <1>6, AtCall DEF InsertPost
  <2>2. CASE q # p
    BY <1>2, <2>1, <2>2 DEF TypeOK
  <2>3. CASE q = p
    <3>1. signals'[p] = {}
      BY <2>1, <2>3 DEF Existence
    <3>2. ~(Cardinality(signals'[p]) >= ReportThreshold)
      BY <1>1, <3>1, FS_EmptySet
    <3> QED
      BY <3>2 DEF RecallComing
  <2> QED
    BY <2>2, <2>3
<1>7. CASE TombstoneUserPosts(h)
  <2>1. s.do = "tombstone" /\ signals' = signals
    BY <1>7 DEF TombstoneUserPosts, At
  <2>3. state'[p] = "visible" => changed'[p] = changed[p]
    BY <1>7, Tombstoned
  <2>2. PICK hit : state' = [r \in Posts |-> IF r \in hit THEN "deleted" ELSE state[r]]
    BY <1>7 DEF TombstoneUserPosts
  <2> QED
    BY <1>2, <2>1, <2>2, <2>3
<1>8. ASSUME UNCHANGED <<state, changed, signals>>, s.do \notin {"count", "set"}
      PROVE  RecallComing(p)'
  BY <1>2, <1>8
<1> HIDE DEF s
<1> QED
  BY <1>3, <1>4, <1>5, <1>6, <1>7, <1>8
     DEF Step, ClassifierAnswers, LogAction, OpenReview, ResolveReview,
         UpdatePostBody, EnqueueJob, Acknowledge, SetUserState, DeleteUserSessions,
         RecordDeletion, history, At, s, tables

LEMMA ReadingComingStep ==
    ASSUME TypeOK, Existence, AllInformed, NEW h \in Procs, Step(h),
           NEW p \in Posts, ReadingComing(p)
    PROVE  ReadingComing(p)'
<1> DEFINE q == run[h].post
           s == NextCall(h)
<1>0. PICK plan : Goes(h, plan) /\ Continue(h, plan)
  BY StepGoes
<1>2. ASSUME state'[p] = "visible" => state[p] = "visible",
             caught'[p] = caught[p], passed'[p] = passed[p],
             q = p => s.do # "set"
      PROVE  ReadingComing(p)'
  <2>1. Coming(p, {"set"}) => Coming(p, {"set"})'
    BY <1>0, <1>2, StillComing
  <2> QED
    BY <1>2, <2>1 DEF ReadingComing
<1>3. CASE SetPostState(h)
  <2>1. /\ q \in Posts /\ s.do = "set" /\ s \in Todo(run[h].plan)
        /\ state' = [state EXCEPT ![q] = s.to]
        /\ passed' = [passed EXCEPT ![q] = IF run[h].seen.body # body[q] THEN "unread"
                                           ELSE IF s.who = "system" THEN "released"
                                           ELSE "read"]
        /\ caught' = caught
    BY <1>3, AtCall DEF SetPostState
  <2>2. CASE q # p
    BY <1>2, <2>1, <2>2 DEF TypeOK
  <2>3. CASE q = p
    <3>1. SUFFICES ASSUME state'[p] = "visible", caught[p]
                   PROVE  passed'[p] # "unread"
      BY <2>1 DEF ReadingComing
    <3>2. MayPublish(run[h].plan)
      BY <2>1, <2>3, <3>1 DEF MayPublish, Publishes, TypeOK
    <3>3. run[h].seen.body = body[p]
      BY <2>3, <3>1, <3>2 DEF AllInformed, Informed
    <3> QED
      BY <2>1, <2>3, <3>3 DEF TypeOK
  <2> QED
    BY <2>2, <2>3
<1>4. CASE UpdatePostBody(h)
  <2>1. /\ q \in Posts /\ s.do = "body" /\ Busy(h) /\ s \in Todo(run[h].plan)
        /\ caught' = [caught EXCEPT ![q] = s.to = "pending" /\ Undisturbed(h, q)]
        /\ passed' = [passed EXCEPT ![q] = "unread"]
        /\ state' = state /\ Continue(h, Rest(h))
    BY <1>4, AtCall DEF UpdatePostBody
  <2>2. CASE q # p
    BY <1>2, <2>1, <2>2 DEF TypeOK
  <2>3. CASE q = p
    <3>1. SUFFICES ASSUME state[p] = "visible", caught'[p] PROVE Coming(p, {"set"})'
      BY <2>1 DEF ReadingComing
    <3>2. s.to = "pending" /\ run[h].seen.state = "visible"
      BY <2>1, <2>3, <3>1 DEF TypeOK, Undisturbed
    <3>3. Has(run[h].plan, {"set"})
      BY <2>1, <3>2 DEF AllInformed, Informed
    <3>4. Has(Rest(h), {"set"})
      BY <2>1, <3>3, GoesOn DEF Existence, Has
    <3> QED
      BY <2>1, <2>3, <3>4, NowComing
  <2> QED
    BY <2>2, <2>3
<1>5. CASE InsertPost(h)
  <2>1. /\ q \in Posts /\ s.do = "insert"
        /\ state' = [state EXCEPT ![q] = s.to]
        /\ caught' = [caught EXCEPT ![q] = s.to = "pending"]
        /\ passed' = passed
    BY <1>5, AtCall DEF InsertPost
  <2>2. CASE q # p
    BY <1>2, <2>1, <2>2 DEF TypeOK
  <2>3. CASE q = p
    BY <2>1, <2>3 DEF ReadingComing, TypeOK
  <2> QED
    BY <2>2, <2>3
<1>6. CASE TombstoneUserPosts(h)
  <2>1. s.do = "tombstone" /\ UNCHANGED <<caught, passed>>
    BY <1>6 DEF TombstoneUserPosts, At
  <2>2. PICK hit : state' = [r \in Posts |-> IF r \in hit THEN "deleted" ELSE state[r]]
    BY <1>6 DEF TombstoneUserPosts
  <2> QED
    BY <1>2, <2>1, <2>2
<1>7. ASSUME UNCHANGED <<state, caught, passed>>, s.do # "set"
      PROVE  ReadingComing(p)'
  BY <1>2, <1>7
<1> HIDE DEF s
<1> QED
  BY <1>3, <1>4, <1>5, <1>6, <1>7
     DEF Step, ClassifierAnswers, LogAction, OpenReview, ResolveReview, AddReport,
         CountReports, EnqueueJob, Acknowledge, SetUserState, DeleteUserSessions,
         RecordDeletion, history, At, s, tables

\* What is owed is read off the tables and the plans.
LEMMA ComingStays ==
    ASSUME NEW p, NEW calls, Coming(p, calls),
           \A h \in Procs : Busy(h) =>
               run'[h].post = run[h].post /\ run'[h].plan = run[h].plan
    PROVE  Coming(p, calls)'
<1>1. PICK h \in Procs : run[h].post = p /\ Has(run[h].plan, calls)
  BY DEF Coming
<1>2. Busy(h)
  BY <1>1, EmptyPlain DEF Busy
<1> QED
  BY <1>1, <1>2 DEF Coming

LEMMA DutiesStep ==
    ASSUME TypeOK, Existence, AllInformed, [Next]_vars
    PROVE  /\ HidesComing => HidesComing'
           /\ ReportThreshold # 0 /\ RecallsComing => RecallsComing'
           /\ ReadingsComing => ReadingsComing'
<1> DEFINE Kept == /\ HidesComing => HidesComing'
                   /\ ReportThreshold # 0 /\ RecallsComing => RecallsComing'
                   /\ ReadingsComing => ReadingsComing'
<1> USE DEF HidesComing, RecallsComing, ReadingsComing
<1>1. ASSUME Unmoved, failures' = failures,
             \A h \in Procs : Busy(h) =>
               run'[h].post = run[h].post /\ run'[h].plan = run[h].plan
      PROVE  Kept
  <2>1. \A p : \A calls : Coming(p, calls) => Coming(p, calls)'
    BY <1>1, ComingStays
  <2>2. HidesComing => HidesComing'
    BY <1>1, <2>1 DEF Unmoved, HideComing
  <2>3. RecallsComing => RecallsComing'
    BY <1>1, <2>1 DEF Unmoved, RecallComing
  <2>4. ReadingsComing => ReadingsComing'
    BY <1>1, <2>1 DEF Unmoved, ReadingComing
  <2> QED
    BY <2>2, <2>3, <2>4
<1>2. CASE Unmoved /\ run' = run /\ failures' = failures
  BY <1>1, <1>2
<1>3. ASSUME NEW h \in Procs, SetsOut(h) PROVE Kept
  <2>1. \A g \in Procs \ {h} : run'[g] = run[g]
    BY <1>3, Started DEF SetsOut
  <2> QED
    BY <1>1, <1>3, <2>1 DEF SetsOut
<1>4. ASSUME NEW h \in Procs, Fail(h) PROVE Kept
  <2>1. failures' = failures + 1 /\ failures \in 0..MaxFailures
    BY <1>4, FailGoes DEF TypeOK
  <2>2. failures' # 0
    BY <2>1, ModerationAssumption
  <2> QED
    BY <2>2
<1>5. ASSUME NEW h \in Procs, Step(h) PROVE Kept
  <2>1. failures' = failures
    BY <1>5 DEF Step, ClassifierAnswers, InsertPost, SetPostState, LogAction,
         OpenReview, ResolveReview, AddReport, CountReports, UpdatePostBody,
         EnqueueJob, Acknowledge, SetUserState, DeleteUserSessions, TombstoneUserPosts,
         RecordDeletion, quiet
  <2>2. ASSUME NEW p \in Posts
        PROVE  /\ HideComing(p) => HideComing(p)'
               /\ ReportThreshold # 0 /\ RecallComing(p) => RecallComing(p)'
               /\ ReadingComing(p) => ReadingComing(p)'
    BY <1>5, <2>2, HideComingStep, RecallComingStep, ReadingComingStep
  <2> QED
    BY <2>1, <2>2
<1>6. \/ Unmoved /\ run' = run /\ failures' = failures
      \/ \E h \in Procs : SetsOut(h) \/ Step(h) \/ Fail(h)
  BY DutyCases
<1> QED
  BY <1>2, <1>3, <1>4, <1>5, <1>6

\* Nothing is coming to a post that every handler has left alone.
LEMMA NothingComing ==
    ASSUME NEW p, Settled(p), NEW calls
    PROVE  ~Coming(p, calls)
<1>1. ASSUME NEW h \in Procs, run[h].post = p PROVE run[h].plan = <<>>
  BY <1>1 DEF Settled, Busy
<1> QED
  BY <1>1, EmptyPlain DEF Coming

\* process_post: whatever else happens to the post meanwhile, a hide by the
\* model leaves it before a person, unless a handler stopped between the hide
\* and the opening of the item, which are two statements.
THEOREM HideQueued == Spec => [](failures = 0 => ModelHideIsQueued)
<1>1. Init => HidesComing
  BY DEF Init, HidesComing, HideComing
<1>2. TypeOK /\ Existence /\ AllInformed /\ HidesComing /\ [Next]_vars => HidesComing'
  BY DutiesStep
<1>3. HidesComing => (failures = 0 => ModelHideIsQueued)
  BY NothingComing DEF HidesComing, HideComing, ModelHideIsQueued
<1> QED
  BY <1>1, <1>2, <1>3, TypeCorrect, AlwaysExistence, AlwaysInformed, PTL DEF Spec

\* report: any number of reporters may insert and count in any order, one of
\* them sees the threshold reached.  A threshold of 0 acts as 1.
THEOREM ThresholdMet ==
    ASSUME ReportThreshold # 0
    PROVE  Spec => [](failures = 0 => ThresholdNeverMissed)
<1>1. Init => RecallsComing
  BY DEF Init, RecallsComing, RecallComing
<1>2. TypeOK /\ Existence /\ AllInformed /\ RecallsComing /\ [Next]_vars => RecallsComing'
  BY DutiesStep
<1>3. TypeOK /\ RecallsComing => (failures = 0 => ThresholdNeverMissed)
  <2> SUFFICES ASSUME TypeOK, RecallsComing, failures = 0, NEW p \in Posts,
                      Settled(p), state[p] = "visible", changed[p] = {}
               PROVE  Cardinality(signals[p]) < ReportThreshold
    BY DEF ThresholdNeverMissed
  <2>1. ~(Cardinality(signals[p]) >= ReportThreshold)
    BY NothingComing DEF RecallsComing, RecallComing
  <2>2. Cardinality(signals[p]) \in Nat /\ ReportThreshold \in Nat
    BY ModerationAssumption, FS_Subset, FS_CardinalityType DEF TypeOK
  <2> QED
    BY <2>1, <2>2
<1> QED
  BY <1>1, <1>2, <1>3, TypeCorrect, AlwaysExistence, AlwaysInformed, PTL DEF Spec

\* layers.rs, edit.rs and pipeline.rs: text that Tier 0 caught goes public by
\* a handler that had that very text before it, or because moderation was off
\* when it was looked up; a handler that read an older text cannot publish it.
THEOREM CaughtRead == Spec => [](failures = 0 => CaughtTextIsRead)
<1>1. Init => ReadingsComing
  BY DEF Init, ReadingsComing, ReadingComing
<1>2. TypeOK /\ Existence /\ AllInformed /\ ReadingsComing /\ [Next]_vars => ReadingsComing'
  BY DutiesStep
<1>3. ReadingsComing => (failures = 0 => CaughtTextIsRead)
  BY NothingComing DEF ReadingsComing, ReadingComing, CaughtTextIsRead
<1> QED
  BY <1>1, <1>2, <1>3, TypeCorrect, AlwaysExistence, AlwaysInformed, PTL DEF Spec
=============================================================================
