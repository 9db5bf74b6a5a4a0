---------------------------- MODULE Thread_proofs ----------------------------
(* Theorems about a thread's posts and about its log, for any number of     *)
(* replies, any limits on ordinals, depth and retries, any interleaving:    *)
(* racing writers implement a tree that only grows (ThreadTree), and one    *)
(* who is turned away has lost a race for each of its tries.                *)
EXTENDS Thread, Paths_proofs

-----------------------------------------------------------------------------
(* Types.                                                                   *)

\* What a request may still be told, and how often it may have lost.
InTime == \A r \in Replies :
            reply[r].step \in {"idle", "look", "insert"} =>
                path[r] = <<>> /\ reply[r].tries <= MaxRetries

USE DEF Ends, AnyState

LEMMA RowsForType ==
    ASSUME NEW before \in ThreadRow, NEW after \in ThreadRow
    PROVE  RowsFor(before, after) \in Seq(LogRow)
<1>1. /\ [what |-> "edit", to |-> after.title] \in LogRow
      /\ [what |-> "state", to |-> after.state] \in LogRow
  BY DEF ThreadRow, LogRow
<1>2. /\ <<>> \in Seq(LogRow)
      /\ <<[what |-> "edit", to |-> after.title]>> \in Seq(LogRow)
      /\ <<[what |-> "state", to |-> after.state]>> \in Seq(LogRow)
  BY <1>1
<1> QED
  BY <1>2, ConcatProperties DEF RowsFor

LEMMA BlankType == Blank \in ThreadRow
<1>1. \E t : t \in Titles
  BY ThreadAssumption
<1>2. (CHOOSE t \in Titles : TRUE) \in Titles
  BY <1>1
<1> QED
  BY <1>2 DEF Blank, ThreadRow

LEMMA NoEditType == NoEdit \in Edit
BY BlankType DEF NoEdit, Edit

LEMMA InitTyped == Init => TypeOK /\ InTime
<1> SUFFICES ASSUME Init PROVE TypeOK /\ InTime
  OBVIOUS
<1>1. NoReply \in Reply
  BY NoPath, ThreadAssumption DEF NoReply, Reply
<1>2. TypeOK
  BY <1>1, NoPath, BlankType, NoEditType, ThreadAssumption DEF Init, TypeOK
<1>3. InTime
  BY ThreadAssumption DEF Init, InTime, NoReply
<1> QED
  BY <1>2, <1>3

\* One request moves on: what has to be shown of its new record alone.
LEMMA ReplyTyped ==
    ASSUME TypeOK, InTime, NEW r \in Replies, NEW f \in Reply,
           reply' = [reply EXCEPT ![r] = f], path' = path,
           f.step \in {"idle", "look", "insert"} =>
               path[r] = <<>> /\ f.tries <= MaxRetries
    PROVE  reply' \in [Replies -> Reply] /\ InTime'
BY DEF TypeOK, InTime

LEMMA BecomeIs ==
    ASSUME TypeOK, NEW r \in Replies, NEW step, Become(r, step),
           step \in {"idle", "look", "insert"} \cup Ends
    PROVE  /\ reply' = [reply EXCEPT ![r] = [reply[r] EXCEPT !.step = step]]
           /\ [reply[r] EXCEPT !.step = step] \in Reply
<1>1. reply[r] \in Reply
  BY DEF TypeOK
<1> QED
  BY <1>1, Zenon DEF Become, Reply

\* What is last below p is below p, if there is anything.
LEMMA LastIsBelow ==
    ASSUME TypeOK, NEW p \in Path, NEW last \in Tree \cup {<<>>}, LastBelow(p, last)
    PROVE  /\ last \in Path
           /\ last # <<>> => /\ last \in Tree /\ Len(last) > Len(p)
                            /\ SubSeq(last, 1, Len(p)) = p
<1>1. Tree \subseteq Path
  BY DEF Tree, TypeOK
<1> QED
  BY <1>1, NoPath DEF LastBelow, Below

LEMMA TypedStep == TypeOK /\ InTime /\ [Next]_vars => TypeOK' /\ InTime'
<1> SUFFICES ASSUME TypeOK, InTime, [Next]_vars PROVE TypeOK' /\ InTime'
  OBVIOUS
<1> USE DEF thread, moderating
<1>1. CASE UNCHANGED vars
  BY <1>1 DEF vars, TypeOK, InTime
<1>2. CASE CreateThread
  <2>1. Opener \in Replies
    BY ThreadAssumption
  <2>2. Become(Opener, "look") /\ path' = path
    BY <1>2 DEF CreateThread
  <2>3. reply' \in [Replies -> Reply] /\ InTime'
    <3> DEFINE f == [reply[Opener] EXCEPT !.step = "look"]
    <3>1. f.tries = reply[Opener].tries
      BY <2>1 DEF TypeOK, Reply
    <3>2. reply' = [reply EXCEPT ![Opener] = f] /\ f \in Reply
      BY <2>1, <2>2, BecomeIs
    <3>3. path[Opener] = <<>> /\ reply[Opener].tries <= MaxRetries
      BY <1>2, <2>1 DEF CreateThread, InTime
    <3> HIDE DEF f
    <3> QED
      BY <2>1, <2>2, <3>1, <3>2, <3>3, ReplyTyped
  <2>4. head' \in ThreadRow
    BY <1>2 DEF CreateThread, TypeOK, ThreadRow
  <2> QED
    BY <1>2, <2>3, <2>4 DEF CreateThread, TypeOK
<1>3. ASSUME NEW r \in Replies, NEW parent \in Replies \cup {Top, Elsewhere},
             Begin(r, parent)
      PROVE  TypeOK' /\ InTime'
  <2> DEFINE f == [reply[r] EXCEPT !.parent = parent,
                       !.step = IF TakesReplies THEN "look" ELSE "refused"]
  <2>1. f \in Reply /\ f.tries = reply[r].tries
    BY DEF TypeOK, Reply
  <2>2. reply' = [reply EXCEPT ![r] = f] /\ path' = path
    BY <1>3, Zenon DEF Begin
  <2>3. path[r] = <<>> /\ f.tries <= MaxRetries
    BY <1>3, <2>1 DEF Begin, InTime
  <2>4. reply' \in [Replies -> Reply] /\ InTime'
    BY <2>1, <2>2, <2>3, ReplyTyped
  <2>5. met' \in [Replies -> SUBSET Replies]
    BY <1>3 DEF Begin, TypeOK
  <2> QED
    BY <1>3, <2>4, <2>5 DEF Begin, TypeOK
<1>4. ASSUME NEW r \in Replies, Look(r) PROVE TypeOK' /\ InTime'
  <2>1. path' = path /\ path[r] = <<>> /\ reply[r].tries <= MaxRetries
    BY <1>4 DEF Look, InTime
  <2>2. ASSUME NEW step \in Ends, Become(r, step)
        PROVE  reply' \in [Replies -> Reply] /\ InTime'
    <3> DEFINE f == [reply[r] EXCEPT !.step = step]
    <3>1. f.step = step
      BY DEF TypeOK, Reply
    <3>2. reply' = [reply EXCEPT ![r] = f] /\ f \in Reply
      BY <2>2, BecomeIs
    <3>3. f.step \notin {"idle", "look", "insert"}
      BY <2>2, <3>1
    <3> HIDE DEF f
    <3> QED
      BY <2>1, <3>2, <3>3, ReplyTyped
  <2>3. ASSUME NEW last \in Tree \cup {<<>>}, reply[r].parent # Elsewhere,
               LastBelow(PathOf(reply[r].parent), last),
               reply' = [reply EXCEPT ![r].step = "insert",
                           ![r].path = Allocate(PathOf(reply[r].parent), last)]
        PROVE  reply' \in [Replies -> Reply] /\ InTime'
    <3> DEFINE p == PathOf(reply[r].parent)
               f == [reply[r] EXCEPT !.step = "insert", !.path = Allocate(p, last)]
    <3>1. p \in Path
      BY <2>3, NoPath DEF PathOf, TypeOK, Reply
    <3>2. Allocate(p, last) \in Path
      BY <2>3, <3>1, LastIsBelow, AllocateType
    <3>3. f \in Reply /\ f.tries = reply[r].tries
      BY <3>2 DEF TypeOK, Reply
    <3>4. reply' = [reply EXCEPT ![r] = f]
      BY <2>3, Zenon
    <3> QED
      BY <2>1, <3>3, <3>4, ReplyTyped
  <2>4. reply' \in [Replies -> Reply] /\ InTime'
    BY <1>4, <2>2, <2>3 DEF Look
  <2> QED
    BY <1>4, <2>4 DEF Look, TypeOK
<1>5. ASSUME NEW r \in Replies, InsertPost(r) PROVE TypeOK' /\ InTime'
  <2>1. reply[r].path \in Path
    BY DEF TypeOK, Reply
  <2>2. path' \in [Replies -> Path]
    BY <1>5, <2>1 DEF InsertPost, TypeOK
  <2>3. /\ reply' = [reply EXCEPT ![r] = [reply[r] EXCEPT !.step = "posted"]]
        /\ [reply[r] EXCEPT !.step = "posted"] \in Reply
    BY <1>5, BecomeIs DEF InsertPost
  <2>4. [reply[r] EXCEPT !.step = "posted"].step = "posted"
    BY DEF TypeOK, Reply
  <2>5. InTime'
    BY <1>5, <2>3, <2>4 DEF InsertPost, InTime, TypeOK
  <2> QED
    BY <1>5, <2>2, <2>3, <2>5 DEF InsertPost, TypeOK
<1>6. ASSUME NEW r \in Replies, Conflict(r) PROVE TypeOK' /\ InTime'
  <2> DEFINE f == [reply[r] EXCEPT !.tries = reply[r].tries + 1,
                       !.step = IF LastTry(r) THEN "contended" ELSE "look"]
  <2>1. path' = path /\ path[r] = <<>> /\ reply[r].tries <= MaxRetries
    BY <1>6 DEF Conflict, InTime
  <2>2. reply[r] \in Reply /\ reply[r].tries \in Nat
    BY ThreadAssumption DEF TypeOK, Reply
  <2>3. reply[r].tries + 1 \in 0..(MaxRetries + 1)
    BY <2>1, <2>2, ThreadAssumption
  <2>4. /\ f \in Reply /\ f.tries = reply[r].tries + 1
        /\ f.step = IF LastTry(r) THEN "contended" ELSE "look"
    BY <2>2, <2>3 DEF Reply
  <2>5. f.step \in {"idle", "look", "insert"} => f.tries <= MaxRetries
    BY <2>2, <2>4, ThreadAssumption DEF LastTry
  <2>6. reply' = [reply EXCEPT ![r] = f]
    BY <1>6, Zenon DEF Conflict
  <2>7. reply' \in [Replies -> Reply] /\ InTime'
    BY <2>1, <2>4, <2>5, <2>6, ReplyTyped
  <2> QED
    BY <1>6, <2>7 DEF Conflict, TypeOK
<1>7. ASSUME NEW r \in Replies, Fail(r) PROVE TypeOK' /\ InTime'
  <2>1. [reply[r] EXCEPT !.step = "failed"].step = "failed"
    BY DEF TypeOK, Reply
  <2>2. reply' \in [Replies -> Reply] /\ InTime'
    BY <1>7, <2>1, BecomeIs, ReplyTyped DEF Fail
  <2> QED
    BY <1>7, <2>2 DEF Fail, TypeOK
<1>8. ASSUME NEW m \in Mods, OpenForm(m) PROVE TypeOK' /\ InTime'
  <2> DEFINE f == [edit[m] EXCEPT !.step = "form", !.form = head]
  <2>0. f \in Edit
    BY DEF TypeOK, Edit
  <2>1. edit' = [edit EXCEPT ![m] = f]
    BY <1>8, Zenon DEF OpenForm
  <2>2. edits' \in 0..MaxEdits
    BY <1>8, ThreadAssumption DEF OpenForm, TypeOK
  <2>3. edit' \in [Mods -> Edit]
    BY <2>0, <2>1 DEF TypeOK
  <2> QED
    BY <1>8, <2>2, <2>3 DEF OpenForm, TypeOK, InTime
<1>9. ASSUME NEW m \in Mods, NEW state \in ThreadStates \cup {"visible"},
             NEW title \in Titles, Submit(m, state, title)
      PROVE  TypeOK' /\ InTime'
  <2>1. [state |-> state, title |-> title] \in ThreadRow
    BY DEF ThreadRow
  <2> DEFINE f == [edit[m] EXCEPT !.step = "update",
                      !.form = [state |-> state, title |-> title], !.before = head]
  <2>3. f \in Edit
    BY <2>1 DEF TypeOK, Edit
  <2>4. edit' = [edit EXCEPT ![m] = f]
    BY <1>9, Zenon DEF Submit
  <2>2. edit' \in [Mods -> Edit]
    BY <2>3, <2>4 DEF TypeOK
  <2> QED
    BY <1>9, <2>2 DEF Submit, TypeOK, InTime
<1>10. ASSUME NEW m \in Mods, UpdateThread(m) PROVE TypeOK' /\ InTime'
  <2>1. edit[m] \in Edit
    BY DEF TypeOK
  <2>2. RowsFor(edit[m].before, edit[m].form) \in Seq(LogRow)
    BY <2>1, RowsForType DEF Edit
  <2>3. edit' \in [Mods -> Edit] /\ head' \in ThreadRow
    BY <1>10, <2>1, <2>2 DEF UpdateThread, TypeOK, Edit
  <2> QED
    BY <1>10, <2>3 DEF UpdateThread, TypeOK, InTime
<1>11. ASSUME NEW m \in Mods, LogNext(m) PROVE TypeOK' /\ InTime'
  <2>1. edit[m] \in Edit /\ edit[m].rows \in Seq(LogRow)
    BY DEF TypeOK, Edit
  <2>2. CASE edit[m].rows = <<>>
    BY <1>11, <2>2, NoEditType DEF LogNext, TypeOK, InTime
  <2>3. CASE edit[m].rows # <<>>
    <3>1. Head(edit[m].rows) \in LogRow /\ Tail(edit[m].rows) \in Seq(LogRow)
      BY <2>1, <2>3, HeadTailProperties
    <3> DEFINE f == [edit[m] EXCEPT !.rows = Tail(edit[m].rows)]
    <3>2. f \in Edit
      BY <2>1, <3>1 DEF Edit
    <3>3. edit' = [edit EXCEPT ![m] = f] /\ log' = Append(log, Head(edit[m].rows))
      BY <1>11, <2>3, Zenon DEF LogNext
    <3>4. edit' \in [Mods -> Edit]
      BY <3>2, <3>3 DEF TypeOK
    <3>5. log' \in Seq(LogRow)
      BY <3>1, <3>3, AppendProperties DEF TypeOK
    <3>6. lost' \in AnyState
      BY <1>11, <2>3 DEF LogNext, TypeOK
    <3> QED
      BY <1>11, <3>4, <3>5, <3>6 DEF LogNext, TypeOK, InTime
  <2> QED
    BY <2>2, <2>3
<1>12. ASSUME NEW m \in Mods, FailEdit(m) PROVE TypeOK' /\ InTime'
  <2>1. edit' \in [Mods -> Edit]
    BY <1>12, NoEditType DEF FailEdit, TypeOK
  <2>2. Unsaid(m) \subseteq AnyState
    <3>1. edit[m].rows \in Seq(LogRow)
      BY DEF TypeOK, Edit
    <3>2. \A i \in 1..Len(edit[m].rows) :
             edit[m].rows[i].what = "state" => edit[m].rows[i].to \in AnyState
      BY <3>1 DEF LogRow
    <3> QED
      BY <3>2 DEF Unsaid
  <2>3. lost' \in AnyState
    BY <1>12, <2>2 DEF FailEdit, TypeOK
  <2> QED
    BY <1>12, <2>1, <2>3 DEF FailEdit, TypeOK, InTime
<1> QED
  BY <1>1, <1>2, <1>3, <1>4, <1>5, <1>6, <1>7, <1>8, <1>9, <1>10, <1>11, <1>12
  DEF Next, Posting, Moderating

\* Type correctness, for every instance.
THEOREM TypeCorrect == Spec => []TypeOK
<1>1. Spec => [](TypeOK /\ InTime)
  BY InitTyped, TypedStep, PTL DEF Spec
<1> QED
  BY <1>1, PTL

-----------------------------------------------------------------------------
(* With one moderator the log tells the thread's state.                     *)

\* The state is in the last row about it, written or lost.
Told == LogSays(head.state) \/ lost = head.state

\* What is left to log brings the log up to the state the thread is in.
Remains(rows) ==
    /\ \A i \in 1..Len(rows) : rows[i].what = "state" => rows[i].to = head.state
    /\ Told \/ \E i \in 1..Len(rows) : rows[i].what = "state"

Logged ==
    /\ head.state = "none" => log = <<>> /\ \A m \in Mods : edit[m].step = "idle"
    /\ LogTellsState
    /\ \A m \in Mods :
         /\ edit[m].step = "form" => edit[m].form.state # "none"
         /\ edit[m].step = "update" =>
              edit[m].form.state # "none" /\ edit[m].before = head /\ Told
         /\ edit[m].step = "log" => Remains(edit[m].rows)
         /\ edit[m].step # "log" => edit[m].rows = <<>>

\* One row more: a reader learns of a state from it, and of nothing from others.
LEMMA LogGrows ==
    ASSUME TypeOK, NEW row \in LogRow, log' = Append(log, row)
    PROVE  /\ row.what = "state" => LogSays(row.to)'
           /\ row.what # "state" => \A state : LogSays(state) => LogSays(state)'
<1>1. /\ log \in Seq(LogRow) /\ Len(log) \in Nat /\ Len(log') = Len(log) + 1
      /\ \A i \in 1..Len(log) : log'[i] = log[i]
      /\ log'[Len(log) + 1] = row
  BY LenProperties, AppendProperties DEF TypeOK
<1>2. ASSUME row.what = "state" PROVE LogSays(row.to)'
  <2>1. Len(log') \in 1..Len(log') /\ log'[Len(log')] = row
    BY <1>1
  <2>2. (Len(log') + 1)..Len(log') = {}
    BY <1>1
  <2> QED
    BY <1>2, <2>1, <2>2 DEF LogSays, IsStateRow
<1>3. ASSUME row.what # "state", NEW state, LogSays(state) PROVE LogSays(state)'
  <2>0. \A i \in 1..Len(log') : i \in 1..Len(log) \/ log'[i] = row
    BY <1>1
  <2>1. CASE state = "visible" /\ \A i \in 1..Len(log) : ~IsStateRow(i)
    <3>1. \A i \in 1..Len(log') : ~(log'[i].what = "state")
      BY <1>1, <1>3, <2>0, <2>1 DEF IsStateRow
    <3> QED
      BY <2>1, <3>1 DEF LogSays, IsStateRow
  <2>2. CASE \E i \in 1..Len(log) : /\ IsStateRow(i) /\ log[i].to = state
                                    /\ \A j \in (i + 1)..Len(log) : ~IsStateRow(j)
    <3>1. PICK i \in 1..Len(log) : /\ IsStateRow(i) /\ log[i].to = state
                                   /\ \A j \in (i + 1)..Len(log) : ~IsStateRow(j)
      BY <2>2
    <3>2. i \in 1..Len(log') /\ log'[i].what = "state" /\ log'[i].to = state
      BY <1>1, <3>1 DEF IsStateRow
    <3>3. ASSUME NEW j \in (i + 1)..Len(log') PROVE log'[j].what # "state"
      <4>1. j \in 1..Len(log')
        BY <1>1, <3>1
      <4>2. CASE j \in 1..Len(log)
        <5>1. j \in (i + 1)..Len(log)
          BY <1>1, <4>2
        <5> QED
          BY <1>1, <3>1, <4>2, <5>1 DEF IsStateRow
      <4>3. CASE log'[j] = row
        BY <1>3, <4>3
      <4> QED
        BY <2>0, <4>1, <4>2, <4>3
    <3> QED
      BY <3>2, <3>3 DEF LogSays, IsStateRow
  <2> QED
    BY <1>3, <2>1, <2>2 DEF LogSays
<1> QED
  BY <1>2, <1>3

\* What the rows of a form say.
LEMMA RowsForState ==
    ASSUME NEW before \in ThreadRow, NEW after \in ThreadRow
    PROVE  LET rows == RowsFor(before, after) IN
           /\ \A i \in 1..Len(rows) : rows[i].what = "state" => rows[i].to = after.state
           /\ before.state # after.state => \E i \in 1..Len(rows) : rows[i].what = "state"
<1> DEFINE first == IF before.title # after.title
                    THEN <<[what |-> "edit", to |-> after.title]>> ELSE <<>>
           second == IF before.state # after.state
                     THEN <<[what |-> "state", to |-> after.state]>> ELSE <<>>
           rows == first \o second
<1>1. RowsFor(before, after) = rows
  BY DEF RowsFor
<1>2. /\ [what |-> "edit", to |-> after.title] \in LogRow
      /\ [what |-> "state", to |-> after.state] \in LogRow
  BY DEF ThreadRow, LogRow
<1>3. first \in Seq(LogRow) /\ \A i \in 1..Len(first) : first[i].what = "edit"
  BY <1>2
<1>4. /\ second \in Seq(LogRow)
      /\ before.state = after.state => Len(second) = 0
      /\ before.state # after.state =>
           Len(second) = 1 /\ second[1] = [what |-> "state", to |-> after.state]
  BY <1>2
<1> HIDE DEF first, second
<1>5. /\ rows \in Seq(LogRow) /\ Len(rows) = Len(first) + Len(second)
      /\ \A i \in 1..Len(first) + Len(second) :
            rows[i] = IF i <= Len(first) THEN first[i] ELSE second[i - Len(first)]
  BY <1>3, <1>4, ConcatProperties, Zenon
<1>6. Len(first) \in Nat /\ Len(second) \in Nat
  BY <1>3, <1>4, LenProperties
<1> HIDE DEF rows
<1>7. ASSUME NEW i \in 1..Len(rows), rows[i].what = "state" PROVE rows[i].to = after.state
  <2>1. i \in 1..Len(first) + Len(second)
    BY <1>5
  <2>2. ~(i <= Len(first))
    <3>1. i <= Len(first) => i \in 1..Len(first) /\ rows[i] = first[i]
      BY <1>5, <1>6, <2>1
    <3> QED
      BY <1>3, <1>7, <3>1
  <2>3. Len(second) = 1 /\ before.state # after.state
    BY <1>4, <1>6, <2>1, <2>2
  <2>4. i - Len(first) = 1
    BY <1>6, <2>1, <2>2, <2>3
  <2> QED
    BY <1>4, <1>5, <2>1, <2>2, <2>3, <2>4
<1>8. ASSUME before.state # after.state PROVE \E i \in 1..Len(rows) : rows[i].what = "state"
  <2>1. Len(second) = 1 /\ Len(rows) = Len(first) + 1
    BY <1>4, <1>5, <1>8
  <2>2. /\ Len(rows) \in 1..Len(first) + Len(second) /\ Len(rows) \in 1..Len(rows)
        /\ ~(Len(rows) <= Len(first)) /\ Len(rows) - Len(first) = 1
    BY <1>6, <2>1
  <2>3. rows[Len(rows)] = second[1]
    BY <1>5, <2>2
  <2> QED
    BY <1>4, <1>8, <2>2, <2>3
<1> QED
  BY <1>1, <1>7, <1>8

LEMMA InitLogged == Init => Logged
BY DEF Init, Logged, LogTellsState, Blank, NoEdit

LEMMA LoggedStep ==
    ASSUME \A m, n \in Mods : m = n, TypeOK, Logged, [Next]_vars
    PROVE  Logged'
<1> USE DEF thread, moderating
<1>1. ASSUME UNCHANGED <<head, log, lost, edit>> PROVE Logged'
  <2>1. /\ \A state : LogSays(state)' = LogSays(state)
        /\ Told' = Told
    BY <1>1 DEF Told, LogSays, IsStateRow
  <2>2. \A rows : Remains(rows)' = Remains(rows)
    BY <1>1, <2>1 DEF Remains
  <2> QED
    BY <1>1, <2>1, <2>2 DEF Logged, LogTellsState
<1>2. CASE UNCHANGED vars
  BY <1>1, <1>2 DEF vars
<1>3. CASE CreateThread
  <2>1. head.state = "none" /\ head'.state = "visible" /\ UNCHANGED <<log, lost, edit>>
    BY <1>3 DEF CreateThread, TypeOK, ThreadRow
  <2>2. log = <<>> /\ \A m \in Mods : edit[m].step = "idle"
    BY <2>1 DEF Logged
  <2>3. LogSays("visible")'
    BY <2>1, <2>2 DEF LogSays
  <2> QED
    BY <2>1, <2>2, <2>3 DEF Logged, LogTellsState, LogSays, IsStateRow
<1>4. CASE Posting /\ ~CreateThread
  BY <1>1, <1>4 DEF Posting, Begin, Look, InsertPost, Conflict, Fail
<1>5. ASSUME NEW m \in Mods, OpenForm(m) PROVE Logged'
  <2> DEFINE f == [edit[m] EXCEPT !.step = "form", !.form = head]
  <2>1. /\ edit' = [edit EXCEPT ![m] = f]
        /\ UNCHANGED <<head, log, lost>> /\ head.state # "none"
    BY <1>5, Zenon DEF OpenForm
  <2>2. f.step = "form" /\ f.form = head /\ f.rows = edit[m].rows
    BY DEF TypeOK, Edit
  <2> HIDE DEF f
  <2>3. edit'[m] = f /\ edit[m].step = "idle" /\ \A n \in Mods : n = m
    BY <1>5, <2>1 DEF TypeOK, OpenForm
  <2>4. Told'
    BY <2>1, <2>3 DEF Logged, LogTellsState, Told, LogSays, IsStateRow
  <2> QED
    BY <2>1, <2>2, <2>3, <2>4 DEF Logged, LogTellsState, Told
<1>6. ASSUME NEW m \in Mods, NEW state \in ThreadStates \cup {"visible"},
             NEW title \in Titles, Submit(m, state, title)
      PROVE  Logged'
  <2> DEFINE f == [edit[m] EXCEPT !.step = "update",
                      !.form = [state |-> state, title |-> title], !.before = head]
  <2>1. edit' = [edit EXCEPT ![m] = f] /\ UNCHANGED <<head, log, lost>>
    BY <1>6, Zenon DEF Submit
  <2>2. f.step = "update" /\ f.form.state = state /\ f.before = head /\ f.rows = edit[m].rows
    BY DEF TypeOK, Edit
  <2> HIDE DEF f
  <2>3. edit'[m] = f /\ edit[m].step = "form" /\ \A n \in Mods : n = m
    BY <1>6, <2>1 DEF TypeOK, Submit
  <2>4. state # "none"
    BY ThreadAssumption
  <2>5. head.state # "none"
    BY <2>3 DEF Logged
  <2>6. Told'
    BY <2>1, <2>3, <2>5 DEF Logged, LogTellsState, Told, LogSays, IsStateRow
  <2> QED
    BY <2>1, <2>2, <2>3, <2>4, <2>5, <2>6 DEF Logged, LogTellsState, Told
<1>7. ASSUME NEW m \in Mods, UpdateThread(m) PROVE Logged'
  <2> DEFINE f == [edit[m] EXCEPT !.step = "log", !.rows = RowsFor(edit[m].before, edit[m].form)]
  <2>1. edit' = [edit EXCEPT ![m] = f] /\ head' = edit[m].form /\ UNCHANGED <<log, lost>>
    BY <1>7, Zenon DEF UpdateThread
  <2>2. /\ f.step = "log" /\ f.rows = RowsFor(edit[m].before, edit[m].form)
        /\ edit[m].before \in ThreadRow /\ edit[m].form \in ThreadRow
    BY DEF TypeOK, Edit
  <2> HIDE DEF f
  <2>3. /\ edit'[m] = f /\ edit[m].step = "update" /\ \A n \in Mods : n = m
        /\ edit[m].form.state # "none" /\ edit[m].before = head /\ Told
    BY <1>7, <2>1 DEF TypeOK, UpdateThread, Logged
  <2>4. head'.state # "none" /\ edit'[m].step = "log"
    BY <2>1, <2>2, <2>3
  <2>5. Remains(edit[m].rows)'
    <3>1. PICK rows : rows = f.rows
      OBVIOUS
    <3>2. /\ \A i \in 1..Len(rows) : rows[i].what = "state" => rows[i].to = head'.state
          /\ head.state # head'.state => \E i \in 1..Len(rows) : rows[i].what = "state"
      BY <2>1, <2>2, <2>3, <3>1, RowsForState
    <3>3. head.state = head'.state => Told'
      BY <2>1, <2>3 DEF Told, LogSays, IsStateRow
    <3>4. Remains(rows)'
      BY <3>2, <3>3 DEF Remains
    <3>5. rows = edit'[m].rows
      BY <2>3, <3>1
    <3> QED
      BY <3>4, <3>5 DEF Remains
  <2> QED
    BY <2>3, <2>4, <2>5 DEF Logged, LogTellsState
<1>8. ASSUME NEW m \in Mods, LogNext(m) PROVE Logged'
  <2>0. PICK rows \in Seq(LogRow) : rows = edit[m].rows
    BY DEF TypeOK, Edit
  <2>1. edit[m].step = "log" /\ head' = head /\ Remains(rows) /\ head.state # "none"
        /\ \A n \in Mods : n = m
    BY <1>8, <2>0 DEF LogNext, Logged
  <2>2. CASE rows = <<>>
    <3>1. /\ edit' = [edit EXCEPT ![m] = NoEdit] /\ UNCHANGED <<log, lost>>
          /\ edit'[m].step = "idle" /\ edit'[m].rows = <<>>
      BY <1>8, <2>0, <2>2 DEF LogNext, TypeOK, NoEdit
    <3>2. Told'
      <4>1. 1..Len(rows) = {}
        BY <2>2
      <4> QED
        BY <2>1, <3>1, <4>1 DEF Remains, Told, LogSays, IsStateRow
    <3> QED
      BY <2>1, <3>1, <3>2 DEF Logged, LogTellsState, Told
  <2>3. CASE rows # <<>>
    <3> DEFINE f == [edit[m] EXCEPT !.rows = Tail(rows)]
               t == Tail(rows)
    <3>1. /\ edit' = [edit EXCEPT ![m] = f] /\ log' = Append(log, Head(rows))
          /\ lost' = IF Head(rows).what = "state" THEN "none" ELSE lost
      BY <1>8, <2>0, <2>3, Zenon DEF LogNext
    <3>2. f.step = "log" /\ f.rows = t
      BY <2>1 DEF TypeOK, Edit
    <3> HIDE DEF f
    <3>3. edit'[m] = f
      BY <3>1 DEF TypeOK
    <3>4. /\ Head(rows) \in LogRow /\ Head(rows) = rows[1] /\ t \in Seq(LogRow)
          /\ Len(rows) \in Nat /\ Len(rows) >= 1 /\ Len(t) = Len(rows) - 1
          /\ \A i \in 1..Len(t) : t[i] = rows[i + 1]
      <4>1. Len(rows) \in Nat /\ Len(rows) >= 1
        BY <2>3, EmptySeq, LenProperties
      <4> QED
        BY <2>3, <4>1, HeadTailProperties
    <3> HIDE DEF t
    <3>5. PICK row \in LogRow : row = Head(rows)
      BY <3>4
    <3>6. row.what = "state" => Told'
      <4>1. 1 \in 1..Len(rows) /\ row = rows[1]
        BY <3>4, <3>5
      <4>2. row.what = "state" => row.to = head.state
        BY <2>1, <4>1 DEF Remains
      <4>3. row.what = "state" => LogSays(row.to)'
        BY <3>1, <3>5, LogGrows
      <4> QED
        BY <2>1, <4>2, <4>3 DEF Told, LogSays
    <3>7. row.what # "state" /\ Told => Told'
      <4>1. PICK state : state = head.state
        OBVIOUS
      <4>2. row.what # "state" /\ LogSays(state) => LogSays(state)'
        BY <3>1, <3>5, LogGrows
      <4>3. row.what # "state" => lost' = lost
        BY <3>1, <3>5
      <4> QED
        BY <2>1, <4>1, <4>2, <4>3 DEF Told, LogSays
    <3>8. Remains(t)'
      <4>1. \A i \in 1..Len(t) : i + 1 \in 1..Len(rows)
        BY <3>4
      <4>2. \A i \in 1..Len(t) : t[i].what = "state" => t[i].to = head'.state
        BY <2>1, <3>4, <4>1 DEF Remains
      <4>3. ASSUME row.what # "state", NEW i \in 1..Len(rows), rows[i].what = "state"
            PROVE  \E j \in 1..Len(t) : t[j].what = "state"
        <5>1. i # 1
          BY <3>4, <3>5, <4>3
        <5>2. i - 1 \in 1..Len(t) /\ (i - 1) + 1 = i
          BY <3>4, <5>1
        <5> QED
          BY <3>4, <4>3, <5>2
      <4>4. Told' \/ \E j \in 1..Len(t) : t[j].what = "state"
        BY <2>1, <3>6, <3>7, <4>3 DEF Remains
      <4> QED
        BY <4>2, <4>4 DEF Remains
    <3>9. edit'[m].step = "log" /\ edit'[m].rows = t
      BY <3>2, <3>3
    <3> QED
      BY <2>1, <3>8, <3>9 DEF Logged, LogTellsState
  <2> QED
    BY <2>2, <2>3
<1>9. ASSUME NEW m \in Mods, FailEdit(m) PROVE Logged'
  <2>0. PICK rows \in Seq(LogRow) : rows = edit[m].rows
    BY DEF TypeOK, Edit
  <2>1. /\ edit[m].step \in {"update", "log"} /\ UNCHANGED <<head, log>>
        /\ edit'[m].step = "idle" /\ edit'[m].rows = <<>>
        /\ lost' \in IF Unsaid(m) = {} THEN {lost} ELSE Unsaid(m)
    BY <1>9 DEF FailEdit, TypeOK, NoEdit
  <2>2. head.state # "none" /\ \A n \in Mods : n = m
    BY <2>1 DEF Logged
  <2>3. Remains(rows)
    <3>1. CASE edit[m].step = "update"
      <4>1. rows = <<>> /\ Told
        BY <2>0, <3>1 DEF Logged
      <4>2. 1..Len(rows) = {}
        BY <4>1
      <4> QED
        BY <4>1, <4>2 DEF Remains
    <3> QED
      BY <2>0, <2>1, <3>1 DEF Logged
  <2>4. Unsaid(m) = {rows[i].to : i \in {j \in 1..Len(rows) : rows[j].what = "state"}}
    BY <2>0 DEF Unsaid
  <2>5. CASE Unsaid(m) = {}
    <3>1. Told /\ lost' = lost
      BY <2>1, <2>3, <2>4, <2>5 DEF Remains
    <3>2. Told'
      BY <2>1, <3>1 DEF Told, LogSays, IsStateRow
    <3> QED
      BY <2>1, <2>2, <3>2 DEF Logged, LogTellsState, Told
  <2>6. CASE Unsaid(m) # {}
    <3>1. Unsaid(m) \subseteq {head.state}
      BY <2>3, <2>4 DEF Remains
    <3>2. lost' = head'.state
      BY <2>1, <2>6, <3>1
    <3> QED
      BY <2>1, <2>2, <3>2 DEF Logged, LogTellsState
  <2> QED
    BY <2>5, <2>6
<1> QED
  BY <1>2, <1>3, <1>4, <1>5, <1>6, <1>7, <1>8, <1>9 DEF Next, Moderating

\* update_thread logs one row per thing that changed.  As long as one moderator
\* works at a time, a log that is read between two forms tells the state that
\* the thread is in, or would with the one row that went down with its handler
\* between update_thread and log_action.  The run log_of_states shows that two
\* moderators at once are too many, even if no handler fails.
THEOREM LogIsHistory ==
    ASSUME \A m, n \in Mods : m = n
    PROVE  Spec => []LogTellsState
<1>1. TypeOK /\ Logged /\ [Next]_vars => Logged'
  BY LoggedStep
<1>2. Spec => []Logged
  BY <1>1, TypeCorrect, InitLogged, PTL DEF Spec
<1>3. Logged => LogTellsState
  BY DEF Logged
<1> QED
  BY <1>2, <1>3, PTL

-----------------------------------------------------------------------------
(* The inductive invariant.                                                 *)

\* No two posts share a path.
Unique == \A q, r \in Replies : path[q] = path[r] /\ path[q] # <<>> => q = r

\* Every ancestor of a post is a post.
Closed == \A p \in Tree : \A k \in 1..Len(p) : SubSeq(p, 1, k) \in Tree

\* The older siblings of a path that starts below p are all there.
Elders(p, n) == \A j \in 0..(n - 1) : Append(p, j) \in Tree

\* Siblings are numbered without gaps.
Full == \A p \in Tree : Elders(Parent(p), Ordinal(p))

\* The posts that requests answer are there.
Answered == \A r \in Replies :
              reply[r].parent \in Replies => path[reply[r].parent] # <<>>

\* f, the record of a request, aims at a place next to its elder siblings.
Aims(f) == /\ f.parent # Elsewhere
           /\ f.path \in Path /\ f.path # <<>>
           /\ Parent(f.path) = PathOf(f.parent)
           /\ Elders(Parent(f.path), Ordinal(f.path))

Aimed == \A r \in Replies : reply[r].step = "insert" => Aims(reply[r])

\* A post's path and its parent_id agree, and the parent is in this thread.
Hung == \A r \in Replies :
          path[r] # <<>> => /\ reply[r].parent # Elsewhere
                            /\ Parent(path[r]) = PathOf(reply[r].parent)

TreeInv == Unique /\ Closed /\ Full /\ Answered /\ Aimed /\ Hung

LEMMA InitTreeInv == Init => TreeInv
BY ThreadAssumption
DEF Init, TreeInv, Unique, Closed, Full, Answered, Aimed, Hung, Tree, NoReply

-----------------------------------------------------------------------------
(* Steps that leave the tree alone.                                         *)

\* What has to be shown of the one request that moves.
Proper(r, f) ==
    /\ \/ f.parent = reply[r].parent
       \/ /\ path[r] = <<>>
          /\ f.parent \in Replies => path[f.parent] # <<>>
    /\ f.step = "insert" => Aims(f)

LEMMA TreeKept ==
    ASSUME TypeOK, TreeInv, NEW r \in Replies, NEW f \in Reply, Proper(r, f),
           reply' = [reply EXCEPT ![r] = f], path' = path
    PROVE  TreeInv'
<1>1. Tree' = Tree /\ \A p : PathOf(p)' = PathOf(p)
  BY DEF Tree, PathOf
<1>2. /\ reply'[r] = f
      /\ \A q \in Replies \ {r} : reply'[q] = reply[q]
  BY DEF TypeOK
<1>3. \A p, n : Elders(p, n)' = Elders(p, n)
  BY <1>1 DEF Elders
<1>4. Unique' /\ Closed' /\ Full'
  BY <1>1, <1>3 DEF TreeInv, Unique, Closed, Full
<1>5. Answered'
  BY <1>2 DEF TreeInv, Answered, Proper
<1>6. Aimed'
  <2> SUFFICES ASSUME NEW q \in Replies, reply'[q].step = "insert"
               PROVE  Aims(reply[q])'
    BY DEF Aimed
  <2>1. Aims(reply[q])' = Aims(reply'[q])
    BY <1>1, <1>3 DEF Aims
  <2> QED
    BY <1>2, <2>1 DEF TreeInv, Aimed, Proper
<1>7. Hung'
  BY <1>1, <1>2 DEF TreeInv, Hung, Proper
<1> QED
  BY <1>4, <1>5, <1>6, <1>7 DEF TreeInv

-----------------------------------------------------------------------------
(* NextPath::allocate names a place right after the siblings already there. *)

LEMMA AllocateSound ==
    ASSUME TypeOK, TreeInv, NEW p \in Tree \cup {<<>>},
           NEW last \in Tree \cup {<<>>}, LastBelow(p, last),
           Allocate(p, last) # <<>>
    PROVE  /\ Allocate(p, last) \in Path
           /\ Parent(Allocate(p, last)) = p
           /\ Elders(p, Ordinal(Allocate(p, last)))
<1>1. p \in Path /\ last \in Path /\ Len(p) \in Nat
  BY NoPath, PathIsSeq, LenProperties DEF Tree, TypeOK
<1>2. CASE last = <<>>
  <2>1. Allocate(p, last) = Child(p, 0)
    BY <1>2 DEF Allocate
  <2> QED
    BY <1>1, <2>1, ChildOf DEF Elders
<1>3. CASE last # <<>>
  <2> DEFINE s == AncestorAtDepth(last, Len(p))
  <2>1. last \in Tree /\ Len(last) > Len(p) /\ SubSeq(last, 1, Len(p)) = p
    BY <1>1, <1>3, LastIsBelow
  <2>2. s \in Path /\ s # <<>> /\ Len(s) = Len(p) + 1
    BY <1>1, <2>1, AncestorType
  <2>3. s \in Tree
    <3>1. Len(p) + 1 \in 1..Len(last)
      BY <1>1, <2>1, PathIsSeq, LenProperties
    <3> QED
      BY <2>1, <3>1 DEF TreeInv, Closed, AncestorAtDepth
  <2>4. Parent(s) = p
    <3>1. /\ Len(last) \in Nat /\ last \in Seq(0..MaxOrdinal)
          /\ s \in Seq(0..MaxOrdinal)
      BY <1>1, <2>2, PathIsSeq, LenProperties
    <3>2. /\ Len(p) + 1 \in 0..Len(last)
          /\ Len(p) \in 0..Len(last)
          /\ Len(p) \in 0..Len(s)
      BY <1>1, <2>1, <2>2, <3>1
    <3>3. \A i \in 1..(Len(p) + 1) : s[i] = last[i]
      BY <3>1, <3>2, Prefix DEF AncestorAtDepth
    <3>4. /\ SubSeq(s, 1, Len(p)) \in Seq(0..MaxOrdinal)
          /\ Len(SubSeq(s, 1, Len(p))) = Len(p)
          /\ \A i \in 1..Len(p) : SubSeq(s, 1, Len(p))[i] = s[i]
      BY <3>1, <3>2, Prefix
    <3>5. /\ p \in Seq(0..MaxOrdinal)
          /\ \A i \in 1..Len(p) : p[i] = last[i]
      BY <2>1, <3>1, <3>2, Prefix
    <3>6. SubSeq(s, 1, Len(p)) = p
      BY <1>1, <3>3, <3>4, <3>5, SeqEqual
    <3>7. Len(s) - 1 = Len(p)
      BY <1>1, <2>2
    <3> QED
      BY <3>6, <3>7 DEF Parent
  <2>5. /\ s = Append(p, Ordinal(s))
        /\ Ordinal(s) \in Nat
    BY <2>2, <2>4, Rejoin, ThreadAssumption
  <2>6. Allocate(p, last) = Child(p, Ordinal(s) + 1)
    BY <1>3, <2>4 DEF Allocate, NextSibling
  <2>7. /\ Allocate(p, last) \in Path
        /\ Parent(Allocate(p, last)) = p
        /\ Ordinal(Allocate(p, last)) = Ordinal(s) + 1
    BY <1>1, <2>5, <2>6, ChildOf
  <2>8. Elders(p, Ordinal(s))
    BY <2>3, <2>4 DEF TreeInv, Full
  <2>9. Elders(p, Ordinal(s) + 1)
    <3>1. ASSUME NEW n \in Nat, n = Ordinal(s), NEW j \in 0..(n + 1 - 1)
          PROVE  Append(p, j) \in Tree
      <4>1. j = n \/ j \in 0..(n - 1)
        BY <3>1
      <4> QED
        BY <2>3, <2>5, <2>8, <3>1, <4>1 DEF Elders
    <3> QED
      BY <2>5, <3>1 DEF Elders
  <2> QED
    BY <2>7, <2>9
<1> QED
  BY <1>2, <1>3

-----------------------------------------------------------------------------
(* The steps.                                                               *)

LEMMA BecomeKeeps ==
    ASSUME TypeOK, TreeInv, NEW r \in Replies, NEW step, Become(r, step),
           step \in {"idle", "look"} \cup Ends, path' = path
    PROVE  TreeInv'
<1> DEFINE f == [reply[r] EXCEPT !.step = step]
<1>1. reply' = [reply EXCEPT ![r] = f] /\ f \in Reply
  BY BecomeIs
<1>2. f.step = step /\ f.parent = reply[r].parent
  BY DEF TypeOK, Reply
<1>3. Proper(r, f)
  BY <1>2 DEF Proper
<1> HIDE DEF f
<1> QED
  BY <1>1, <1>3, TreeKept

LEMMA BeginKeeps ==
    ASSUME TypeOK, InTime, TreeInv, NEW r \in Replies,
           NEW parent \in Replies \cup {Top, Elsewhere}, Begin(r, parent)
    PROVE  TreeInv'
<1> DEFINE f == [reply[r] EXCEPT !.parent = parent,
                     !.step = IF TakesReplies THEN "look" ELSE "refused"]
<1>1. /\ f \in Reply /\ f.parent = parent
      /\ f.step = IF TakesReplies THEN "look" ELSE "refused"
  BY DEF TypeOK, Reply
<1>2. reply' = [reply EXCEPT ![r] = f] /\ path' = path
  BY Zenon DEF Begin
<1>3. path[r] = <<>>
  BY DEF Begin, InTime
<1>4. parent \in Replies => path[parent] # <<>>
  BY ThreadAssumption DEF Begin
<1>5. Proper(r, f)
  BY <1>1, <1>3, <1>4 DEF Proper
<1> HIDE DEF f
<1> QED
  BY <1>1, <1>2, <1>5, TreeKept

LEMMA LookKeeps ==
    ASSUME TypeOK, TreeInv, NEW r \in Replies, Look(r)
    PROVE  TreeInv'
<1>1. path' = path
  BY DEF Look
<1>2. CASE \E step \in Ends : Become(r, step)
  BY <1>1, <1>2, BecomeKeeps
<1>3. ASSUME NEW last \in Tree \cup {<<>>}, reply[r].parent # Elsewhere,
             LastBelow(PathOf(reply[r].parent), last),
             Allocate(PathOf(reply[r].parent), last) # <<>>,
             reply' = [reply EXCEPT ![r].step = "insert",
                         ![r].path = Allocate(PathOf(reply[r].parent), last)]
      PROVE  TreeInv'
  <2> DEFINE p == PathOf(reply[r].parent)
             next == Allocate(p, last)
             f == [reply[r] EXCEPT !.step = "insert", !.path = next]
  <2>1. p \in Tree \cup {<<>>}
    BY <1>3 DEF PathOf, TypeOK, Reply, Tree
  <2>2. /\ next \in Path /\ next # <<>> /\ Parent(next) = p
        /\ Elders(p, Ordinal(next))
    BY <1>3, <2>1, AllocateSound
  <2>3. /\ f \in Reply /\ f.parent = reply[r].parent
        /\ f.path = next /\ f.step = "insert"
    BY <2>2 DEF TypeOK, Reply
  <2>4. Proper(r, f)
    BY <1>3, <2>2, <2>3 DEF Proper, Aims
  <2>5. reply' = [reply EXCEPT ![r] = f]
    BY <1>3, Zenon
  <2> HIDE DEF f, next, p
  <2> QED
    BY <1>1, <2>3, <2>4, <2>5, TreeKept
<1> QED
  BY <1>2, <1>3 DEF Look

LEMMA ConflictKeeps ==
    ASSUME TypeOK, InTime, TreeInv, NEW r \in Replies, Conflict(r)
    PROVE  TreeInv'
<1> DEFINE f == [reply[r] EXCEPT !.tries = reply[r].tries + 1,
                     !.step = IF LastTry(r) THEN "contended" ELSE "look"]
<1>1. reply[r] \in Reply /\ reply[r].tries \in 0..MaxRetries
  BY ThreadAssumption DEF Conflict, InTime, TypeOK, Reply
<1>2. reply[r].tries + 1 \in 0..(MaxRetries + 1)
  BY <1>1, ThreadAssumption
<1>3. /\ f \in Reply /\ f.parent = reply[r].parent
      /\ f.step = IF LastTry(r) THEN "contended" ELSE "look"
  BY <1>1, <1>2 DEF Reply
<1>4. reply' = [reply EXCEPT ![r] = f] /\ path' = path
  BY Zenon DEF Conflict
<1>5. Proper(r, f)
  BY <1>3 DEF Proper
<1> HIDE DEF f
<1> QED
  BY <1>3, <1>4, <1>5, TreeKept

\* A request that is about to insert: where its post will hang.
LEMMA AboutToInsert ==
    ASSUME TypeOK, InTime, TreeInv, NEW r \in Replies, reply[r].step = "insert"
    PROVE  /\ path[r] = <<>>
           /\ reply[r].path \in Path /\ reply[r].path # <<>>
           /\ reply[r].parent \in Replies \cup {Top}
           /\ Parent(reply[r].path) = PathOf(reply[r].parent)
           /\ Parent(reply[r].path) # <<>> => Parent(reply[r].path) \in Tree
           /\ Elders(Parent(reply[r].path), Ordinal(reply[r].path))
<1>1. Aims(reply[r])
  BY DEF TreeInv, Aimed
<1>2. reply[r].parent \in Replies \cup {Top}
  BY <1>1 DEF Aims, TypeOK, Reply
<1>3. path[r] = <<>>
  BY DEF InTime
<1>4. PathOf(reply[r].parent) # <<>> => PathOf(reply[r].parent) \in Tree
  BY <1>2 DEF PathOf, Tree
<1> QED
  BY <1>1, <1>2, <1>3, <1>4 DEF Aims

LEMMA InsertIs ==
    ASSUME TypeOK, InTime, TreeInv, NEW r \in Replies, InsertPost(r)
    PROVE  /\ path' = [path EXCEPT ![r] = reply[r].path]
           /\ reply[r].path \notin Tree
           /\ Tree' = Tree \cup {reply[r].path}
           /\ \A q \in Replies : reply'[q].parent = reply[q].parent
           /\ \A q \in Replies : reply'[q].step = "insert" => reply'[q] = reply[q]
           /\ \A q \in Replies :
                /\ reply[q].parent = Top => PathOf(reply[q].parent)' = <<>>
                /\ reply[q].parent \in Replies =>
                     PathOf(reply[q].parent)' = PathOf(reply[q].parent)
<1> DEFINE f == [reply[r] EXCEPT !.step = "posted"]
<1>1. /\ path' = [path EXCEPT ![r] = reply[r].path] /\ reply[r].path \notin Tree
      /\ reply[r].step = "insert"
  BY DEF InsertPost, Free
<1>2. path[r] = <<>> /\ reply[r].path # <<>>
  BY <1>1, AboutToInsert
<1>3. Tree' = Tree \cup {reply[r].path}
  BY <1>1, <1>2 DEF Tree, TypeOK
<1>4. reply' = [reply EXCEPT ![r] = f] /\ f.step = "posted" /\ f.parent = reply[r].parent
  <2>1. reply' = [reply EXCEPT ![r] = f]
    BY BecomeIs DEF InsertPost
  <2> QED
    BY <2>1 DEF TypeOK, Reply
<1>5. \A q \in Replies : /\ reply'[q].parent = reply[q].parent
                         /\ reply'[q].step = "insert" => reply'[q] = reply[q]
  <2> HIDE DEF f
  <2> QED
    BY <1>4 DEF TypeOK
<1>6. ASSUME NEW q \in Replies
      PROVE  /\ reply[q].parent = Top => PathOf(reply[q].parent)' = <<>>
             /\ reply[q].parent \in Replies =>
                  PathOf(reply[q].parent)' = PathOf(reply[q].parent)
  <2>1. PathOf(reply[q].parent)' =
          IF reply[q].parent = Top THEN <<>> ELSE path'[reply[q].parent]
    BY <1>5 DEF PathOf
  <2>2. reply[q].parent \in Replies => reply[q].parent # r /\ reply[q].parent # Top
    BY <1>2, ThreadAssumption DEF TreeInv, Answered
  <2> QED
    BY <1>1, <2>1, <2>2 DEF PathOf, TypeOK
<1> QED
  BY <1>1, <1>3, <1>5, <1>6

LEMMA InsertKeeps ==
    ASSUME TypeOK, InTime, TreeInv, NEW r \in Replies, InsertPost(r)
    PROVE  TreeInv'
<1> DEFINE p == reply[r].path
<1>1. /\ path' = [path EXCEPT ![r] = p] /\ p \notin Tree
      /\ Tree' = Tree \cup {p}
      /\ \A q \in Replies : reply'[q].parent = reply[q].parent
      /\ \A q \in Replies : reply'[q].step = "insert" => reply'[q] = reply[q]
  BY InsertIs
<1>2. /\ path[r] = <<>> /\ p \in Path /\ p # <<>>
      /\ reply[r].parent \in Replies \cup {Top}
      /\ Parent(p) = PathOf(reply[r].parent)
      /\ Parent(p) # <<>> => Parent(p) \in Tree
      /\ Elders(Parent(p), Ordinal(p))
  BY AboutToInsert DEF InsertPost
<1>3. \A q, n : Elders(q, n) => Elders(q, n)'
  BY <1>1 DEF Elders
<1>4. ASSUME NEW q \in Replies, reply[q].parent \in Replies \cup {Top}
      PROVE  PathOf(reply[q].parent)' = PathOf(reply[q].parent)
  BY <1>4, InsertIs DEF PathOf
<1>5. Unique'
  BY <1>1, <1>2 DEF TreeInv, Unique, Tree, TypeOK
<1>6. Closed'
  <2> SUFFICES ASSUME NEW t \in Tree', NEW k \in 1..Len(t)
               PROVE  SubSeq(t, 1, k) \in Tree'
    BY DEF Closed
  <2>1. CASE t \in Tree
    BY <1>1, <2>1 DEF TreeInv, Closed
  <2>2. CASE t = p
    <3>1. k = Len(p) /\ SubSeq(p, 1, k) = p => SubSeq(p, 1, k) \in Tree'
      BY <1>1
    <3>2. /\ k \in 1..Len(Parent(p)) /\ Parent(p) # <<>>
          /\ SubSeq(p, 1, k) = SubSeq(Parent(p), 1, k)
          => SubSeq(p, 1, k) \in Tree'
      BY <1>1, <1>2 DEF TreeInv, Closed
    <3> QED
      BY <1>2, <2>2, <3>1, <3>2, PrefixOfParent
  <2> QED
    BY <1>1, <2>1, <2>2
<1>7. Full'
  BY <1>1, <1>2, <1>3 DEF TreeInv, Full
<1>8. Answered'
  BY <1>1, <1>2 DEF TreeInv, Answered, TypeOK
<1>9. Aimed'
  <2> SUFFICES ASSUME NEW q \in Replies, reply'[q].step = "insert"
               PROVE  Aims(reply[q])'
    BY DEF Aimed
  <2>1. reply'[q] = reply[q] /\ Aims(reply[q])
    BY <1>1 DEF TreeInv, Aimed
  <2>2. reply[q].parent \in Replies \cup {Top}
    BY <2>1 DEF Aims, TypeOK, Reply
  <2>3. PathOf(reply[q].parent)' = PathOf(reply[q].parent)
    BY <1>4, <2>2
  <2> QED
    BY <1>3, <2>1, <2>3 DEF Aims
<1>10. Hung'
  <2> SUFFICES ASSUME NEW q \in Replies, path'[q] # <<>>
               PROVE  /\ reply'[q].parent # Elsewhere
                      /\ Parent(path'[q]) = PathOf(reply[q].parent)'
    BY DEF Hung
  <2>1. CASE q = r
    <3>1. path'[q] = p
      BY <1>1, <2>1 DEF TypeOK
    <3> QED
      BY <1>1, <1>2, <1>4, <2>1, <3>1, ThreadAssumption
  <2>2. CASE q # r
    <3>1. path'[q] = path[q]
      BY <1>1, <2>2 DEF TypeOK
    <3>2. reply[q].parent # Elsewhere /\ Parent(path[q]) = PathOf(reply[q].parent)
      BY <3>1 DEF TreeInv, Hung
    <3>3. reply[q].parent \in Replies \cup {Top}
      BY <3>2 DEF TypeOK, Reply
    <3> QED
      BY <1>1, <1>4, <3>1, <3>2, <3>3
  <2> QED
    BY <2>1, <2>2
<1> QED
  BY <1>5, <1>6, <1>7, <1>8, <1>9, <1>10 DEF TreeInv

LEMMA TreeUntouched ==
    ASSUME TreeInv, UNCHANGED <<path, reply>>
    PROVE  TreeInv'
<1>1. /\ path' = path /\ reply' = reply /\ Tree' = Tree
      /\ \A p : PathOf(p)' = PathOf(p)
  BY DEF Tree, PathOf
<1>2. \A p, n : Elders(p, n)' = Elders(p, n)
  BY <1>1 DEF Elders
<1>3. \A r \in Replies : Aims(reply[r])' = Aims(reply[r])
  BY <1>1, <1>2 DEF Aims
<1>4. Unique' /\ Closed' /\ Full'
  BY <1>1, <1>2 DEF TreeInv, Unique, Closed, Full
<1>5. Answered' /\ Aimed' /\ Hung'
  BY <1>1, <1>3 DEF TreeInv, Answered, Aimed, Hung
<1> QED
  BY <1>4, <1>5 DEF TreeInv

LEMMA TreeStep == TypeOK /\ InTime /\ TreeInv /\ [Next]_vars => TreeInv'
<1> SUFFICES ASSUME TypeOK, InTime, TreeInv, [Next]_vars PROVE TreeInv'
  OBVIOUS
<1>1. CASE UNCHANGED vars
  BY <1>1, TreeUntouched DEF vars
<1>2. CASE CreateThread
  BY <1>2, BecomeKeeps, ThreadAssumption DEF CreateThread
<1>3. ASSUME NEW r \in Replies, NEW parent \in Replies \cup {Top, Elsewhere},
             Begin(r, parent)
      PROVE  TreeInv'
  BY <1>3, BeginKeeps
<1>4. ASSUME NEW r \in Replies, Fail(r) PROVE TreeInv'
  BY <1>4, BecomeKeeps DEF Fail
<1>5. CASE Moderating
  <2>1. UNCHANGED <<path, reply>>
    BY <1>5 DEF Moderating, OpenForm, Submit, UpdateThread, LogNext, FailEdit
  <2> QED
    BY <2>1, TreeUntouched
<1> QED
  BY <1>1, <1>2, <1>3, <1>4, <1>5, LookKeeps, InsertKeeps, ConflictKeeps
  DEF Next, Posting

THEOREM TreeInvariant == Spec => [](TypeOK /\ InTime /\ TreeInv)
BY InitTyped, InitTreeInv, TypedStep, TreeStep, PTL DEF Spec

\* A post's path lies directly below the path of the post it answers, for any
\* number of replies and whatever is written between a look and its insert.
THEOREM PathsFollowParents == Spec => []RepliesUnderParents
<1>1. TreeInv => RepliesUnderParents
  BY DEF TreeInv, Hung, RepliesUnderParents
<1> QED
  BY <1>1, TreeInvariant, PTL

-----------------------------------------------------------------------------
(* The refinement.                                                          *)

\* A post has a place in the abstract tree exactly when it has a path.
LEMMA PlacedIs ==
    ASSUME TypeOK
    PROVE  PostTree!Placed = {r \in Replies : path[r] # <<>>}
<1>1. ASSUME NEW r \in Replies, path[r] # <<>>
      PROVE  Place[r] # [parent |-> Top, rank |-> -1]
  <2>1. Ordinal(path[r]) \in 0..MaxOrdinal
    BY <1>1, Rejoin DEF TypeOK
  <2>2. Ordinal(path[r]) # -1
    BY <2>1, ThreadAssumption
  <2>3. Place[r].rank = Ordinal(path[r])
    BY <1>1 DEF Place
  <2> QED
    BY <2>2, <2>3
<1>2. \A r \in Replies : path[r] = <<>> => Place[r] = [parent |-> Top, rank |-> -1]
  BY DEF Place
<1> QED
  BY <1>1, <1>2 DEF PostTree!Placed, PostTree!Unplaced

\* The ranks taken under the parent of a post about to be inserted are those
\* below its own.
LEMMA RanksBelow ==
    ASSUME TypeOK, InTime, TreeInv, NEW r \in Replies, InsertPost(r)
    PROVE  PostTree!Ranks(reply[r].parent) = 0..(Ordinal(reply[r].path) - 1)
<1> DEFINE p == reply[r].path
           above == reply[r].parent
           n == Ordinal(reply[r].path)
<1>1. /\ p \in Path /\ p # <<>> /\ p \notin Tree
      /\ above \in Replies \cup {Top}
      /\ Parent(p) = PathOf(above)
      /\ Elders(Parent(p), n)
  BY AboutToInsert, InsertIs DEF InsertPost
<1>2. n \in 0..MaxOrdinal /\ p = Append(Parent(p), n) /\ Parent(p) \in Path
  BY <1>1, Rejoin
<1>3. \A q \in Replies : path[q] # <<>> =>
          /\ Place[q].parent = reply[q].parent
          /\ Place[q].rank = Ordinal(path[q])
  BY DEF Place
<1>4. ASSUME NEW q \in Replies, path[q] # <<>>, reply[q].parent = above
      PROVE  Ordinal(path[q]) \in 0..(n - 1)
  <2>1. path[q] \in Tree /\ Parent(path[q]) = Parent(p)
    BY <1>1, <1>4 DEF Tree, TreeInv, Hung
  <2>2. /\ Ordinal(path[q]) \in 0..MaxOrdinal
        /\ path[q] = Append(Parent(p), Ordinal(path[q]))
    BY <1>4, <2>1, Rejoin DEF TypeOK
  <2>3. Ordinal(path[q]) # n
    BY <1>1, <1>2, <2>1, <2>2
  <2>4. n \notin 0..(Ordinal(path[q]) - 1)
    BY <1>1, <1>2, <2>1 DEF TreeInv, Full, Elders
  <2> QED
    BY <1>2, <2>2, <2>3, <2>4, ThreadAssumption
<1>5. ASSUME NEW j \in 0..(n - 1)
      PROVE  \E q \in Replies : /\ path[q] # <<>> /\ reply[q].parent = above
                                /\ Ordinal(path[q]) = j
  <2>1. PICK q \in Replies : path[q] = Append(Parent(p), j) /\ path[q] # <<>>
    BY <1>1 DEF Elders, Tree
  <2>2. j \in 0..MaxOrdinal
    BY <1>2, PathsAssumption
  <2>3. Parent(path[q]) = Parent(p) /\ Ordinal(path[q]) = j
    <3>1. /\ path[q] = Append(Parent(path[q]), Ordinal(path[q]))
          /\ Parent(path[q]) \in Seq(0..MaxOrdinal)
          /\ Ordinal(path[q]) \in 0..MaxOrdinal
          /\ Parent(p) \in Seq(0..MaxOrdinal)
      BY <1>2, <2>1, Rejoin, PathIsSeq DEF TypeOK
    <3> QED
      BY <2>1, <2>2, <3>1, AppendInjective
  <2>4. /\ reply[q].parent \in Replies \cup {Top}
        /\ PathOf(reply[q].parent) = PathOf(above)
    BY <1>1, <2>1, <2>3 DEF TreeInv, Hung, TypeOK, Reply
  <2>5. reply[q].parent = above
    BY <1>1, <2>4, ThreadAssumption DEF PathOf, TreeInv, Unique, Answered
  <2> QED
    BY <2>1, <2>3, <2>5
<1>6. PostTree!Ranks(above) =
        {Place[q].rank : q \in {s \in PostTree!Placed : Place[s].parent = above}}
  BY DEF PostTree!Ranks
<1> QED
  BY <1>3, <1>4, <1>5, <1>6, PlacedIs

\* The batch that succeeds is the one step of the abstract tree.
LEMMA InsertAdds ==
    ASSUME TypeOK, InTime, TreeInv, NEW r \in Replies, InsertPost(r)
    PROVE  PostTree!Next
<1> DEFINE p == reply[r].path
           above == reply[r].parent
           n == Ordinal(reply[r].path)
<1>1. /\ path[r] = <<>> /\ p \in Path /\ p # <<>>
      /\ above \in Replies \cup {Top}
  BY AboutToInsert DEF InsertPost
<1>2. n \in 0..MaxOrdinal
  BY <1>1, Rejoin
<1>3. r \notin PostTree!Placed /\ above \in PostTree!Placed \cup {Top}
  BY <1>1, PlacedIs DEF TreeInv, Answered
<1>4. Place' = [Place EXCEPT ![r] = [parent |-> above, rank |-> n]]
  <2>1. /\ path' = [path EXCEPT ![r] = p]
        /\ \A q \in Replies : reply'[q].parent = reply[q].parent
    BY InsertIs
  <2>2. Place' = [q \in Replies |->
                    IF path'[q] = <<>> THEN [parent |-> Top, rank |-> -1]
                    ELSE [parent |-> reply'[q].parent, rank |-> Ordinal(path'[q])]]
    BY DEF Place, Ordinal
  <2> QED
    BY <1>1, <2>1, <2>2 DEF Place, TypeOK
<1>5. PostTree!Add(r, above)
  BY <1>2, <1>3, <1>4, RanksBelow DEF PostTree!Add
<1> QED
  BY <1>1, <1>5 DEF PostTree!Next

LEMMA PlaceStep ==
    ASSUME TypeOK, InTime, TreeInv, [Next]_vars
    PROVE  [PostTree!Next]_Place
<1>1. ASSUME path' = path,
             \A r \in Replies : path[r] # <<>> => reply'[r].parent = reply[r].parent
      PROVE  Place' = Place
  BY <1>1 DEF Place, Ordinal
<1>2. ASSUME NEW r \in Replies, NEW step, Become(r, step)
      PROVE  \A q \in Replies : reply'[q].parent = reply[q].parent
  BY <1>2 DEF Become, TypeOK, Reply
<1>3. CASE UNCHANGED vars
  BY <1>1, <1>3 DEF vars
<1>4. CASE CreateThread
  BY <1>1, <1>2, <1>4, ThreadAssumption DEF CreateThread
<1>5. ASSUME NEW r \in Replies, NEW parent \in Replies \cup {Top, Elsewhere},
             Begin(r, parent)
      PROVE  Place' = Place
  <2>1. path' = path /\ path[r] = <<>>
    BY <1>5 DEF Begin, InTime
  <2>2. \A q \in Replies \ {r} : reply'[q] = reply[q]
    BY <1>5 DEF Begin, TypeOK
  <2> QED
    BY <1>1, <2>1, <2>2
<1>6. ASSUME NEW r \in Replies, Look(r) PROVE Place' = Place
  <2>1. \A q \in Replies : reply'[q].parent = reply[q].parent
    <3>1. CASE \E step \in Ends : Become(r, step)
      BY <1>2, <3>1
    <3>2. ASSUME NEW next,
                 reply' = [reply EXCEPT ![r].step = "insert", ![r].path = next]
          PROVE  \A q \in Replies : reply'[q].parent = reply[q].parent
      BY <3>2 DEF TypeOK, Reply
    <3> QED
      BY <1>6, <3>1, <3>2, Zenon DEF Look
  <2> QED
    BY <1>1, <1>6, <2>1 DEF Look
<1>7. ASSUME NEW r \in Replies, Conflict(r) PROVE Place' = Place
  <2>1. \A q \in Replies : reply'[q].parent = reply[q].parent
    BY <1>7 DEF Conflict, TypeOK, Reply
  <2> QED
    BY <1>1, <1>7, <2>1 DEF Conflict
<1>8. ASSUME NEW r \in Replies, Fail(r) PROVE Place' = Place
  BY <1>1, <1>2, <1>8 DEF Fail
<1>9. CASE Moderating
  <2>1. UNCHANGED <<path, reply>>
    BY <1>9 DEF Moderating, OpenForm, Submit, UpdateThread, LogNext, FailEdit
  <2> QED
    BY <1>1, <2>1
<1> QED
  BY <1>3, <1>4, <1>5, <1>6, <1>7, <1>8, <1>9, InsertAdds DEF Next, Posting

\* Looking, losing, looking again and inserting implement a tree that only
\* grows by youngest children.
THEOREM Implements == Spec => TreeOnlyGrows
<1>1. Init => PostTree!Init
  BY DEF Init, Place, PostTree!Init, PostTree!Unplaced
<1>2. TypeOK /\ InTime /\ TreeInv /\ [Next]_vars => [PostTree!Next]_Place
  BY PlaceStep
<1> QED
  BY <1>1, <1>2, TreeInvariant, PTL DEF Spec, TreeOnlyGrows, PostTree!Spec

-----------------------------------------------------------------------------
(* Whoever is turned away was beaten often enough.                          *)

\* The posts that landed under the parent of r after r began.
Rivals(r) == {q \in Replies \ met[r] :
                path[q] # <<>> /\ Parent(path[q]) = PathOf(reply[r].parent)}

\* Those of them that are not on the place that r is about to try.
Beaten(r) == {q \in Rivals(r) : path[q] # reply[r].path}

Counted(r) ==
    /\ \A q \in met[r] : path[q] # <<>>
    /\ reply[r].step = "idle" \/ reply[r].parent = Elsewhere => reply[r].tries = 0
    /\ reply[r].step = "look" /\ reply[r].parent # Elsewhere =>
          Cardinality(Rivals(r)) >= reply[r].tries
    /\ reply[r].step = "insert" =>
          /\ Cardinality(Beaten(r)) >= reply[r].tries
          /\ \A q \in met[r] : path[q] # reply[r].path
    /\ reply[r].step = "contended" =>
          reply[r].parent # Elsewhere /\ Cardinality(Rivals(r)) > MaxRetries

Raced == \A r \in Replies : Counted(r)

LEMMA RivalsFinite ==
    ASSUME NEW r
    PROVE  /\ IsFiniteSet(Rivals(r)) /\ Cardinality(Rivals(r)) \in Nat
           /\ IsFiniteSet(Beaten(r)) /\ Cardinality(Beaten(r)) \in Nat
<1>1. Rivals(r) \subseteq Replies /\ Beaten(r) \subseteq Replies
  BY DEF Rivals, Beaten
<1>2. IsFiniteSet(Rivals(r)) /\ IsFiniteSet(Beaten(r))
  BY <1>1, FS_Subset, ThreadAssumption
<1> QED
  BY <1>2, FS_CardinalityType

LEMMA InitRaced == Init => Raced
<1> SUFFICES ASSUME Init, NEW r \in Replies PROVE Counted(r)
  BY DEF Raced
<1> QED
  BY DEF Init, Counted, NoReply

\* What one request knows changes; the paths and the others do not.
LEMMA OthersCounted ==
    ASSUME TypeOK, Raced, NEW r \in Replies, NEW f, reply' = [reply EXCEPT ![r] = f],
           path' = path, \A q \in Replies \ {r} : met'[q] = met[q],
           Counted(r)'
    PROVE  Raced'
<1> SUFFICES ASSUME NEW q \in Replies PROVE Counted(q)'
  BY DEF Raced
<1>1. CASE q = r
  BY <1>1
<1>2. CASE q # r
  <2>1. reply'[q] = reply[q] /\ met'[q] = met[q]
    BY <1>2 DEF TypeOK
  <2>2. Rivals(q)' = Rivals(q) /\ Beaten(q)' = Beaten(q)
    BY <2>1 DEF Rivals, Beaten, PathOf
  <2>3. Counted(q)
    BY DEF Raced
  <2> QED
    BY <2>1, <2>2, <2>3 DEF Counted
<1> QED
  BY <1>1, <1>2

\* Only the step changes, to one that is told of no race.
LEMMA BecomeRaced ==
    ASSUME TypeOK, Raced, NEW r \in Replies, NEW step, Become(r, step), path' = path, met' = met,
           \/ step = "look" /\ reply[r].step = "idle"
           \/ step \in Ends \ {"contended"}
    PROVE  Raced'
<1> DEFINE f == [reply[r] EXCEPT !.step = step]
<1>1. reply' = [reply EXCEPT ![r] = f] /\ f \in Reply
  BY BecomeIs
<1>2. f.step = step /\ f.parent = reply[r].parent /\ f.tries = reply[r].tries
  BY DEF TypeOK, Reply
<1>3. reply'[r] = f /\ Counted(r)
  BY <1>1 DEF TypeOK, Raced
<1> HIDE DEF f
<1>4. Cardinality(Rivals(r)') \in Nat
  <2>1. Rivals(r)' \subseteq Replies
    BY DEF Rivals
  <2> QED
    BY <2>1, FS_Subset, FS_CardinalityType, ThreadAssumption
<1>5. Counted(r)'
  BY <1>2, <1>3, <1>4 DEF Counted
<1> QED
  BY <1>1, <1>5, OthersCounted

LEMMA BeginRaced ==
    ASSUME TypeOK, Raced, NEW r \in Replies,
           NEW parent \in Replies \cup {Top, Elsewhere}, Begin(r, parent)
    PROVE  Raced'
<1> DEFINE f == [reply[r] EXCEPT !.parent = parent,
                     !.step = IF TakesReplies THEN "look" ELSE "refused"]
<1>1. /\ f \in Reply /\ f.parent = parent /\ f.tries = reply[r].tries
      /\ f.step = "look" \/ f.step = "refused"
  BY DEF TypeOK, Reply
<1>2. /\ reply' = [reply EXCEPT ![r] = f] /\ path' = path
      /\ met' = [met EXCEPT ![r] = {q \in Replies : path[q] # <<>>}]
  BY Zenon DEF Begin
<1> HIDE DEF f
<1>3. reply'[r] = f /\ met'[r] = {q \in Replies : path[q] # <<>>}
      /\ \A q \in Replies \ {r} : met'[q] = met[q]
  BY <1>2 DEF TypeOK
<1>4. f.tries = 0
  BY <1>1 DEF Begin, Raced, Counted
<1>5. Cardinality(Rivals(r)') \in Nat
  <2>1. Rivals(r)' \subseteq Replies
    BY DEF Rivals
  <2> QED
    BY <2>1, FS_Subset, FS_CardinalityType, ThreadAssumption
<1>6. Counted(r)'
  BY <1>1, <1>2, <1>3, <1>4, <1>5 DEF Counted
<1> QED
  BY <1>2, <1>3, <1>6, OthersCounted

\* Nothing below p is a child of p with the next ordinal, when last is last.
LEMMA NothingAfterLast ==
    ASSUME TypeOK, NEW p \in Path, NEW last \in Tree, LastBelow(p, last), NEW n \in Nat,
           n > last[Len(p) + 1], NEW next \in Tree, Parent(next) = p, Ordinal(next) = n
    PROVE  FALSE
<1>1. Tree \subseteq Path /\ <<>> \notin Tree
  BY DEF Tree, TypeOK
<1>2. /\ p \in Seq(0..MaxOrdinal) /\ last \in Seq(0..MaxOrdinal) /\ next \in Seq(0..MaxOrdinal)
      /\ Len(p) \in Nat /\ Len(last) \in Nat /\ Len(next) \in Nat
  BY <1>1, PathIsSeq, LenProperties
<1>3. next # <<>> /\ Len(next) = Len(p) + 1 /\ next[Len(p) + 1] = n
  <2>1. next # <<>> /\ Len(Parent(next)) = Len(next) - 1
    BY <1>1, Rejoin
  <2> QED
    BY <1>2, <2>1 DEF Ordinal
<1>4. SubSeq(next, 1, Len(p)) = p /\ next \in Below(p)
  <2>1. Len(next) - 1 = Len(p)
    BY <1>2, <1>3
  <2>2. SubSeq(next, 1, Len(p)) = p
    BY <2>1 DEF Parent
  <2> QED
    BY <1>2, <1>3, <2>2 DEF Below
<1>5. /\ last \in Below(p) /\ \A q \in Below(p) \ {last} : Before(q, last)
  BY <1>1, <1>4 DEF LastBelow
<1>6. Len(last) > Len(p) /\ SubSeq(last, 1, Len(p)) = p
  BY <1>5 DEF Below
<1>7. \A i \in 1..Len(p) : next[i] = p[i] /\ last[i] = p[i]
  <2>1. Len(p) \in 0..Len(next) /\ Len(p) \in 0..Len(last)
    BY <1>2, <1>3, <1>6
  <2> QED
    BY <1>2, <1>4, <1>6, <2>1, Prefix
<1>8. last[Len(p) + 1] \in Nat
  <2>1. Len(p) + 1 \in 1..Len(last)
    BY <1>2, <1>6
  <2>2. last[Len(p) + 1] \in 0..MaxOrdinal
    BY <1>2, <2>1, ElementOfSeq
  <2> QED
    BY <2>2, PathsAssumption
<1>9. next # last
  BY <1>3, <1>8
<1>10. PICK k \in 0..(Len(last) - 1) :
         /\ k <= Len(next)
         /\ \A i \in 1..k : next[i] = last[i]
         /\ k < Len(next) => next[k + 1] < last[k + 1]
  BY <1>4, <1>5, <1>9 DEF Before
<1>11. k \in Nat /\ k <= Len(p) + 1
  BY <1>2, <1>3, <1>10
<1>12. CASE k = Len(p) + 1
  <2>1. Len(p) + 1 \in 1..k
    BY <1>2, <1>12
  <2> QED
    BY <1>3, <1>8, <1>10, <2>1
<1>13. CASE k = Len(p)
  BY <1>2, <1>3, <1>8, <1>10, <1>13
<1>14. CASE k < Len(p)
  <2>1. k + 1 \in 1..Len(p) /\ k + 1 \in 1..Len(last) /\ k < Len(next)
    BY <1>2, <1>3, <1>6, <1>11, <1>14
  <2>2. next[k + 1] = last[k + 1] /\ next[k + 1] < last[k + 1]
    BY <1>7, <1>10, <2>1
  <2>3. last[k + 1] \in 0..MaxOrdinal
    BY <1>2, <2>1, ElementOfSeq
  <2> QED
    BY <2>2, <2>3, PathsAssumption
<1> QED
  BY <1>2, <1>11, <1>12, <1>13, <1>14

\* The place next to the siblings that are there is free when it is chosen.
LEMMA AllocateFree ==
    ASSUME TypeOK, TreeInv, NEW p \in Tree \cup {<<>>},
           NEW last \in Tree \cup {<<>>}, LastBelow(p, last), Allocate(p, last) # <<>>
    PROVE  Allocate(p, last) \notin Tree
<1>1. p \in Path /\ last \in Path /\ Len(p) \in Nat
  BY NoPath, PathIsSeq, LenProperties DEF Tree, TypeOK
<1> DEFINE next == Allocate(p, last)
<1>2. next \in Path /\ Parent(next) = p /\ Ordinal(next) \in Nat
  <2>1. next \in Path /\ Parent(next) = p
    BY AllocateSound
  <2>2. Ordinal(next) \in 0..MaxOrdinal
    BY <2>1, Rejoin
  <2> QED
    BY <2>1, <2>2, PathsAssumption
<1> SUFFICES ASSUME next \in Tree PROVE FALSE
  OBVIOUS
<1>3. CASE last = <<>>
  <2>1. Below(p) = {}
    BY <1>3 DEF LastBelow, Below, Tree
  <2>2. next \in Seq(0..MaxOrdinal) /\ Len(next) \in Nat
    BY <1>2, PathIsSeq, LenProperties
  <2>3. Len(p) = Len(next) - 1
    BY <1>2, Rejoin
  <2>4. SubSeq(next, 1, Len(p)) = p /\ Len(next) > Len(p)
    BY <1>1, <1>2, <2>2, <2>3 DEF Parent
  <2> HIDE DEF next
  <2>5. next \in Below(p)
    BY <2>4 DEF Below
  <2> QED
    BY <2>1, <2>5
<1>4. CASE last # <<>>
  <2> DEFINE s == AncestorAtDepth(last, Len(p))
  <2>1. last \in Tree /\ Len(last) > Len(p)
    BY <1>1, <1>4, LastIsBelow
  <2>2. s \in Path /\ s # <<>> /\ Len(s) = Len(p) + 1
    BY <1>1, <2>1, AncestorType
  <2>3. Ordinal(s) = last[Len(p) + 1]
    <3>1. /\ Len(last) \in Nat /\ last \in Seq(0..MaxOrdinal)
      BY <1>1, PathIsSeq, LenProperties
    <3>2. Len(p) + 1 \in 0..Len(last) /\ Len(p) + 1 \in 1..(Len(p) + 1)
      BY <1>1, <2>1, <3>1
    <3>3. s[Len(p) + 1] = last[Len(p) + 1]
      BY <3>1, <3>2, Prefix DEF AncestorAtDepth
    <3> QED
      BY <2>2, <3>3 DEF Ordinal
  <2>4. Ordinal(s) \in Nat /\ Parent(s) \in Path
    <3>1. Ordinal(s) \in 0..MaxOrdinal /\ Parent(s) \in Path
      BY <2>2, Rejoin
    <3> QED
      BY <3>1, PathsAssumption
  <2>5. next = Child(Parent(s), Ordinal(s) + 1)
    BY <1>4 DEF Allocate, NextSibling
  <2>6. Ordinal(next) = Ordinal(s) + 1
    BY <2>4, <2>5, ChildOf
  <2> HIDE DEF next, s
  <2>7. Ordinal(next) > last[Len(p) + 1]
    BY <2>3, <2>4, <2>6
  <2> QED
    BY <1>1, <1>2, <2>1, <2>7, NothingAfterLast
<1> QED
  BY <1>3, <1>4

LEMMA LookRaced ==
    ASSUME TypeOK, TreeInv, Raced, NEW r \in Replies, Look(r)
    PROVE  Raced'
<1>1. path' = path /\ met' = met /\ reply[r].step = "look" /\ Counted(r)
  BY DEF Look, Raced
<1>2. CASE \E step \in Ends \ {"contended"} : Become(r, step)
  BY <1>1, <1>2, BecomeRaced
<1>3. ASSUME NEW last \in Tree \cup {<<>>}, reply[r].parent # Elsewhere,
             LastBelow(PathOf(reply[r].parent), last),
             Allocate(PathOf(reply[r].parent), last) # <<>>,
             reply' = [reply EXCEPT ![r].step = "insert",
                         ![r].path = Allocate(PathOf(reply[r].parent), last)]
      PROVE  Raced'
  <2> DEFINE p == PathOf(reply[r].parent)
             next == Allocate(p, last)
             f == [reply[r] EXCEPT !.step = "insert", !.path = next]
  <2>1. p \in Tree \cup {<<>>}
    BY <1>3 DEF PathOf, TypeOK, Reply, Tree
  <2>2. next \in Path /\ next # <<>> /\ next \notin Tree
    BY <1>3, <2>1, AllocateSound, AllocateFree
  <2>3. /\ f.parent = reply[r].parent /\ f.path = next /\ f.step = "insert"
        /\ f.tries = reply[r].tries
    BY <2>2 DEF TypeOK, Reply
  <2>4. reply' = [reply EXCEPT ![r] = f]
    BY <1>3, Zenon
  <2> HIDE DEF f, next, p
  <2>5. reply'[r] = f
    BY <2>4 DEF TypeOK
  <2>6. \A q \in Replies : path[q] # next
    BY <2>2 DEF Tree
  <2>7. Rivals(r)' = Rivals(r)
    BY <1>1, <2>3, <2>5 DEF Rivals, PathOf
  <2>8. Beaten(r)' = Rivals(r)
    BY <1>1, <2>3, <2>5, <2>6, <2>7 DEF Beaten, Rivals
  <2>9. met[r] \subseteq Replies
    BY DEF TypeOK
  <2>10. Counted(r)'
    BY <1>1, <1>3, <2>3, <2>5, <2>6, <2>8, <2>9 DEF Counted
  <2> QED
    BY <1>1, <2>4, <2>10, OthersCounted
<1>4. \/ \E step \in Ends \ {"contended"} : Become(r, step)
      \/ \E last \in Tree \cup {<<>>} :
           /\ reply[r].parent # Elsewhere
           /\ LastBelow(PathOf(reply[r].parent), last)
           /\ Allocate(PathOf(reply[r].parent), last) # <<>>
           /\ reply' = [reply EXCEPT ![r].step = "insert",
                          ![r].path = Allocate(PathOf(reply[r].parent), last)]
  BY DEF Look
<1> QED
  BY <1>2, <1>3, <1>4

\* A place is lost to somebody who landed after the request began.
LEMMA ConflictRaced ==
    ASSUME TypeOK, InTime, TreeInv, Raced, NEW r \in Replies, Conflict(r)
    PROVE  Raced'
<1> DEFINE f == [reply[r] EXCEPT !.tries = reply[r].tries + 1,
                     !.step = IF LastTry(r) THEN "contended" ELSE "look"]
<1>1. /\ reply[r] \in Reply /\ reply[r].tries \in 0..MaxRetries
      /\ reply[r].step = "insert" /\ reply[r].path \in Tree /\ Counted(r)
  BY ThreadAssumption DEF Conflict, InTime, TypeOK, Reply, Free, Raced
<1>2. /\ f.parent = reply[r].parent /\ f.tries = reply[r].tries + 1
      /\ f.step = IF LastTry(r) THEN "contended" ELSE "look"
  BY <1>1 DEF Reply
<1>3. reply' = [reply EXCEPT ![r] = f] /\ path' = path /\ met' = met
  BY Zenon DEF Conflict
<1> HIDE DEF f
<1>4. reply'[r] = f
  BY <1>3 DEF TypeOK
<1>5. PICK q \in Replies : path[q] = reply[r].path /\ path[q] # <<>>
  BY <1>1 DEF Tree
<1>6. Parent(reply[r].path) = PathOf(reply[r].parent) /\ reply[r].parent # Elsewhere
  BY <1>1 DEF TreeInv, Aimed, Aims
<1>7. q \in Rivals(r) /\ q \notin Beaten(r)
  BY <1>1, <1>5, <1>6 DEF Rivals, Beaten, Counted
<1>8. Cardinality(Beaten(r) \cup {q}) = Cardinality(Beaten(r)) + 1
      /\ IsFiniteSet(Beaten(r) \cup {q})
  BY <1>7, RivalsFinite, FS_AddElement
<1>9. Beaten(r) \cup {q} \subseteq Rivals(r)
  BY <1>7 DEF Beaten
<1>10. Cardinality(Beaten(r) \cup {q}) <= Cardinality(Rivals(r))
  BY <1>9, RivalsFinite, FS_Subset
<1>11. Cardinality(Rivals(r)) >= reply[r].tries + 1
  BY <1>1, <1>8, <1>10, RivalsFinite DEF Counted
<1>12. Rivals(r)' = Rivals(r)
  BY <1>2, <1>3, <1>4 DEF Rivals, PathOf
<1>13. LastTry(r) => reply[r].tries >= MaxRetries
  BY DEF LastTry
<1>14. LastTry(r) => Cardinality(Rivals(r)) > MaxRetries
  <2>1. Cardinality(Rivals(r)) \in Nat
    BY RivalsFinite
  <2> QED
    BY <1>1, <1>11, <1>13, <2>1, ThreadAssumption
<1>15. Counted(r)'
  BY <1>1, <1>2, <1>3, <1>4, <1>6, <1>11, <1>12, <1>14 DEF Counted
<1> QED
  BY <1>3, <1>15, OthersCounted

\* A post that lands is one more rival of those it beats, and no fewer of others.
LEMMA InsertRaced ==
    ASSUME TypeOK, InTime, TreeInv, Raced, NEW r \in Replies, InsertPost(r)
    PROVE  Raced'
<1> SUFFICES ASSUME NEW q \in Replies PROVE Counted(q)'
  BY DEF Raced
<1>1. /\ path' = [path EXCEPT ![r] = reply[r].path] /\ met' = met
      /\ \A k \in Replies : reply'[k].parent = reply[k].parent
      /\ \A k \in Replies : reply'[k].step = "insert" => reply'[k] = reply[k]
      /\ \A k \in Replies :
           /\ reply[k].parent = Top => PathOf(reply[k].parent)' = <<>>
           /\ reply[k].parent \in Replies => PathOf(reply[k].parent)' = PathOf(reply[k].parent)
  BY InsertIs DEF InsertPost
<1>2. path[r] = <<>> /\ reply[r].path # <<>> /\ reply[r].parent \in Replies \cup {Top}
  BY AboutToInsert DEF InsertPost
<1>3. \A k \in Replies : path[k] # <<>> => path'[k] = path[k]
  BY <1>1, <1>2 DEF TypeOK
<1>4. /\ reply'[q].tries = reply[q].tries
      /\ reply'[q].step = IF q = r THEN "posted" ELSE reply[q].step
  <2>1. reply' = [reply EXCEPT ![r] = [reply[r] EXCEPT !.step = "posted"]]
    BY BecomeIs DEF InsertPost
  <2> QED
    BY <2>1 DEF TypeOK, Reply
<1>5. Counted(q)
  BY DEF Raced
<1>6. (\A k \in met[q] : path[k] # <<>>)'
  BY <1>1, <1>2, <1>3, <1>5 DEF Counted, TypeOK
<1>7. /\ IsFiniteSet(Rivals(q)') /\ Cardinality(Rivals(q)') \in Nat
      /\ IsFiniteSet(Beaten(q)') /\ Cardinality(Beaten(q)') \in Nat
  <2>1. Rivals(q)' \subseteq Replies /\ Beaten(q)' \subseteq Replies
    BY DEF Rivals, Beaten
  <2> QED
    BY <2>1, FS_Subset, FS_CardinalityType, ThreadAssumption
<1>8. ASSUME reply[q].parent # Elsewhere
      PROVE  Rivals(q) \subseteq Rivals(q)' /\ Cardinality(Rivals(q)') >= Cardinality(Rivals(q))
  <2>1. reply[q].parent \in Replies \cup {Top}
    BY <1>8 DEF TypeOK, Reply
  <2>2. PathOf(reply[q].parent)' = PathOf(reply[q].parent)
    BY <1>1, <2>1 DEF PathOf
  <2>3. Rivals(q) \subseteq Rivals(q)'
    BY <1>1, <1>2, <1>3, <2>2 DEF Rivals
  <2> QED
    BY <1>7, <2>3, FS_Subset
<1>9. ASSUME q # r, reply[q].step = "insert"
      PROVE  /\ Cardinality(Beaten(q)') >= Cardinality(Beaten(q))
             /\ \A k \in met[q] : path'[k] # reply[q].path
  <2>1. reply'[q] = reply[q] /\ reply[q].parent # Elsewhere
    BY <1>1, <1>4, <1>9 DEF TreeInv, Aimed, Aims
  <2>2. Beaten(q) \subseteq Beaten(q)'
    BY <1>3, <1>8, <2>1 DEF Beaten, Rivals
  <2>3. Cardinality(Beaten(q)') >= Cardinality(Beaten(q))
    BY <1>7, <2>2, FS_Subset
  <2>4. \A k \in met[q] : path'[k] # reply[q].path
    BY <1>3, <1>5, <1>9 DEF Counted, TypeOK
  <2> QED
    BY <2>3, <2>4
<1>10. CASE q = r
  BY <1>1, <1>4, <1>5, <1>6, <1>7, <1>10, AboutToInsert DEF InsertPost, Counted
<1>11. CASE q # r
  <2>1. Cardinality(Rivals(q)) \in Nat /\ Cardinality(Beaten(q)) \in Nat
    BY RivalsFinite
  <2>2. reply[q].tries \in Nat /\ MaxRetries \in Nat
    BY ThreadAssumption DEF TypeOK, Reply
  <2>3. reply'[q].step = reply[q].step /\ reply'[q].parent = reply[q].parent
    BY <1>1, <1>4, <1>11
  <2>4. reply[q].step = "insert" => reply'[q].path = reply[q].path
    BY <1>1, <2>3
  <2>5. reply[q].step = "look" /\ reply[q].parent # Elsewhere =>
           Cardinality(Rivals(q)') >= reply[q].tries
    BY <1>5, <1>7, <1>8, <2>1, <2>2 DEF Counted
  <2>6. reply[q].step = "contended" =>
           reply[q].parent # Elsewhere /\ Cardinality(Rivals(q)') > MaxRetries
    BY <1>5, <1>7, <1>8, <2>1, <2>2 DEF Counted
  <2>7. reply[q].step = "insert" =>
           /\ Cardinality(Beaten(q)') >= reply[q].tries
           /\ \A k \in met[q] : path'[k] # reply[q].path
    BY <1>5, <1>7, <1>9, <1>11, <2>1, <2>2 DEF Counted
  <2> QED
    BY <1>1, <1>4, <1>5, <1>6, <2>3, <2>4, <2>5, <2>6, <2>7 DEF Counted
<1> QED
  BY <1>10, <1>11

LEMMA RacedStep == TypeOK /\ InTime /\ TreeInv /\ Raced /\ [Next]_vars => Raced'
<1> SUFFICES ASSUME TypeOK, InTime, TreeInv, Raced, [Next]_vars PROVE Raced'
  OBVIOUS
<1>1. ASSUME UNCHANGED <<path, reply, met>> PROVE Raced'
  <2> SUFFICES ASSUME NEW q \in Replies PROVE Counted(q)'
    BY DEF Raced
  <2>1. Rivals(q)' = Rivals(q) /\ Beaten(q)' = Beaten(q)
    BY <1>1 DEF Rivals, Beaten, PathOf
  <2>2. Counted(q)
    BY DEF Raced
  <2> QED
    BY <1>1, <2>1, <2>2 DEF Counted
<1>2. CASE UNCHANGED vars
  BY <1>1, <1>2 DEF vars
<1>3. CASE CreateThread
  <2>1. Opener \in Replies /\ Become(Opener, "look") /\ reply[Opener].step = "idle"
        /\ path' = path /\ met' = met
    BY <1>3, ThreadAssumption DEF CreateThread
  <2> QED
    BY <2>1, BecomeRaced
<1>4. ASSUME NEW r \in Replies, NEW parent \in Replies \cup {Top, Elsewhere},
             Begin(r, parent)
      PROVE  Raced'
  BY <1>4, BeginRaced
<1>5. ASSUME NEW r \in Replies, Fail(r) PROVE Raced'
  BY <1>5, BecomeRaced DEF Fail
<1>6. CASE Moderating
  <2>1. UNCHANGED <<path, reply, met>>
    BY <1>6 DEF Moderating, OpenForm, Submit, UpdateThread, LogNext, FailEdit
  <2> QED
    BY <1>1, <2>1
<1> QED
  BY <1>2, <1>3, <1>4, <1>5, <1>6, LookRaced, InsertRaced, ConflictRaced
  DEF Next, Posting

\* reply.rs, Contended: a writer is turned away only when more others than
\* MAX_PATH_RETRIES really landed under the same parent after it began: no
\* place is lost to the writer's own stale look, and none is lost twice.
THEOREM RacesAreReal == Spec => []ContendedMeansRaced
<1>1. TreeInv /\ Raced => ContendedMeansRaced
  BY DEF Raced, Counted, Rivals, ContendedMeansRaced
<1>2. Spec => []Raced
  BY TreeInvariant, InitRaced, RacedStep, PTL DEF Spec
<1> QED
  BY <1>1, <1>2, TreeInvariant, PTL
=============================================================================
