------------------------------- MODULE Thread -------------------------------
(***************************************************************************)
(* One thread: how a post gets its place in the tree, and how a moderator  *)
(* changes the thread above it.                                            *)
(*                                                                         *)
(* A post's place is its path, the ordinals from the root down.  D1 has no *)
(* interactive transaction, so a writer reads the last path below the      *)
(* parent, computes the next one, and inserts it; UNIQUE(thread_id, path)  *)
(* refuses the insert when somebody else was quicker, and the writer looks *)
(* again, a bounded number of times.  Any other handler may run between    *)
(* two of these calls.  On the native server the look and the insert share *)
(* a transaction: there, a Look is always followed by its Insert.          *)
(***************************************************************************)
EXTENDS Paths, FiniteSets

CONSTANTS
    Replies,      \* the posts that may be written, one request each
    Opener,       \* the one compose::create writes with the thread
    Top,          \* the parent of a top-level post
    Elsewhere,    \* a parent that is not in this thread
    Mods,         \* moderators with the thread's form open
    Titles,
    ThreadStates, \* the states a moderator may give the thread
    MaxRetries,   \* reply.rs MAX_PATH_RETRIES
    Failing,      \* TRUE: a handler may end half way
    MaxEdits,     \* bound: thread forms submitted
    MaxRequests   \* bound: posts begun and forms submitted

ASSUME ThreadAssumption ==
    /\ IsFiniteSet(Replies) /\ Opener \in Replies
    /\ Titles # {}
    /\ Top \notin Replies /\ Elsewhere \notin Replies /\ Top # Elsewhere
    /\ ThreadStates \subseteq {"visible", "locked", "pinned", "hidden", "deleted"}
    /\ MaxRetries \in Nat
    /\ Failing \in BOOLEAN
    /\ MaxEdits \in Nat
    /\ MaxRequests \in Nat

VARIABLES
    path,     \* post.path for each post; <<>> before it is written
    head,     \* the thread row: its state ("none" before it exists), its title
    version,  \* thread.cache_version
    log,      \* the action_log rows about the thread, oldest first
    reply,    \* per request: how far it is and what it knows; its parent is
              \* the parent_id of the post
    edit,     \* per moderator: the form, and what is left to log
    edits,
    met,      \* history: the posts that were there when a request began
    lost      \* history: the state named by the last row about the thread's
              \* state, when that row went down with its handler; or "none"

vars == <<path, head, version, log, reply, edit, edits, met, lost>>

AnyState == ThreadStates \cup {"none", "visible"}
ThreadRow == [state : AnyState, title : Titles]
Ends == {"posted", "refused", "missing", "contended", "failed"}
Reply == [step : {"idle", "look", "insert"} \cup Ends,
          parent : Replies \cup {Top, Elsewhere},
          path : Path,
          tries : 0..(MaxRetries + 1)]
LogRow == [what : {"edit"}, to : Titles] \cup [what : {"state"}, to : AnyState]
Edit == [step : {"idle", "form", "update", "log"},
         form : ThreadRow, before : ThreadRow, rows : Seq(LogRow)]

Tree == {path[r] : r \in Replies} \ {<<>>}

-----------------------------------------------------------------------------
(* Places.                                                                 *)

\* The paths strictly between the bounds of NextPath::search_bounds.
Below(p) == {q \in Tree : Len(q) > Len(p) /\ SubSeq(q, 1, Len(p)) = p}

\* LAST_PATH_IN_RANGE: last of all that is below, not only of the children;
\* <<>> when there is nothing.
LastBelow(p, last) ==
    IF Below(p) = {} THEN last = <<>>
    ELSE last \in Below(p) /\ \A q \in Below(p) \ {last} : Before(q, last)

\* The stored path of a parent.
PathOf(parent) == IF parent = Top THEN <<>> ELSE path[parent]

-----------------------------------------------------------------------------
NoReply == [step |-> "idle", parent |-> Top, path |-> <<>>, tries |-> 0]
Blank == [state |-> "none", title |-> CHOOSE t \in Titles : TRUE]
NoEdit == [step |-> "idle", form |-> Blank, before |-> Blank, rows |-> <<>>]

Init ==
    /\ path = [r \in Replies |-> <<>>]
    /\ head = Blank
    /\ version = 0
    /\ log = <<>>
    /\ reply = [r \in Replies |-> NoReply]
    /\ edit = [m \in Mods |-> NoEdit]
    /\ edits = 0
    /\ met = [r \in Replies |-> {}]
    /\ lost = "none"

thread == <<head, version, log, lost>>
moderating == <<edit, edits>>

-----------------------------------------------------------------------------
(* Writing a post.                                                         *)

\* The bound on requests is not reached.
MayStart == edits + Cardinality({r \in Replies : reply[r].step # "idle"}) < MaxRequests

Become(r, step) == reply' = [reply EXCEPT ![r].step = step]

\* compose::create: the thread row first, its opening post by the loop below.
\* The thread is listed, and takes replies, before that post is in it.
CreateThread ==
    /\ head.state = "none" /\ reply[Opener].step = "idle" /\ MayStart
    /\ head' = [head EXCEPT !.state = "visible"]
    /\ Become(Opener, "look")
    /\ UNCHANGED <<path, version, log, lost, moderating, met>>

\* Hidden and deleted threads take no replies either.
TakesReplies == head.state \in {"visible", "pinned"}

\* reply::post up to write_context.  A client can name a post it has seen.
Begin(r, parent) ==
    /\ r # Opener /\ head.state # "none"
    /\ reply[r].step = "idle" /\ MayStart
    /\ parent \in {Top, Elsewhere} \cup {q \in Replies : path[q] # <<>>}
    /\ reply' = [reply EXCEPT ![r].parent = parent,
                              ![r].step = IF TakesReplies THEN "look" ELSE "refused"]
    /\ met' = [met EXCEPT ![r] = {q \in Replies : path[q] # <<>>}]
    /\ UNCHANGED <<path, thread, moderating>>

\* append_post up to the batch.
Look(r) ==
    /\ reply[r].step = "look"
    /\ IF reply[r].parent = Elsewhere
       THEN Become(r, "missing")
       ELSE \E last \in Tree \cup {<<>>} :
              /\ LastBelow(PathOf(reply[r].parent), last)
              /\ LET next == Allocate(PathOf(reply[r].parent), last) IN
                 IF next = <<>> THEN Become(r, "failed")
                 ELSE reply' = [reply EXCEPT ![r].step = "insert", ![r].path = next]
    /\ UNCHANGED <<path, thread, moderating, met>>

\* Mutant of Free: the table has no UNIQUE(thread_id, path).
FreeAlways(p) == TRUE

Free(p) == p \notin Tree

\* Mutant of LastTry: one retry too few.
LastTryEarly(r) == reply[r].tries >= MaxRetries - 1

\* The loop has no further id to try with.
LastTry(r) == reply[r].tries >= MaxRetries

\* The batch: the post and the bump, or a conflict.
InsertPost(r) ==
    /\ reply[r].step = "insert"
    /\ Free(reply[r].path)
    /\ path' = [path EXCEPT ![r] = reply[r].path]
    /\ version' = version + 1
    /\ Become(r, "posted")
    /\ UNCHANGED <<head, log, lost, moderating, met>>

Conflict(r) ==
    /\ reply[r].step = "insert"
    /\ ~Free(reply[r].path)
    /\ reply' = [reply EXCEPT ![r].tries = @ + 1,
                              ![r].step = IF LastTry(r) THEN "contended" ELSE "look"]
    /\ UNCHANGED <<path, thread, moderating, met>>

\* A store error, or the end of the isolate.
Fail(r) ==
    /\ Failing
    /\ reply[r].step \in {"look", "insert"}
    /\ Become(r, "failed")
    /\ UNCHANGED <<path, thread, moderating, met>>

-----------------------------------------------------------------------------
(* admin::update_thread.                                                   *)

\* The form is filled in with what the thread is now.
OpenForm(m) ==
    /\ edit[m].step = "idle" /\ head.state # "none"
    /\ edits < MaxEdits /\ MayStart
    /\ edits' = edits + 1
    /\ edit' = [edit EXCEPT ![m].step = "form", ![m].form = head]
    /\ UNCHANGED <<path, thread, reply, met>>

\* What was not touched on the form is submitted as it was when it was loaded.
Submit(m, state, title) ==
    /\ edit[m].step = "form"
    /\ state \in ThreadStates \cup {edit[m].form.state}
    /\ edit' = [edit EXCEPT ![m].step = "update",
                            ![m].form = [state |-> state, title |-> title],
                            ![m].before = head]
    /\ UNCHANGED <<path, thread, edits, reply, met>>

\* Mutant of RowsFor: a change of state is logged when the title changes too.
RowsForEdit(before, after) ==
    IF before.title # after.title
    THEN <<[what |-> "edit", to |-> after.title], [what |-> "state", to |-> after.state]>>
    ELSE <<>>

\* One log row for each thing that differs from what was read.
RowsFor(before, after) ==
    (IF before.title # after.title
     THEN <<[what |-> "edit", to |-> after.title]>> ELSE <<>>)
    \o (IF before.state # after.state
        THEN <<[what |-> "state", to |-> after.state]>> ELSE <<>>)

\* One statement writes every field of the form.
UpdateThread(m) ==
    /\ edit[m].step = "update"
    /\ head' = edit[m].form
    /\ version' = version + 1
    /\ edit' = [edit EXCEPT ![m].step = "log",
                            ![m].rows = RowsFor(edit[m].before, edit[m].form)]
    /\ UNCHANGED <<path, log, lost, edits, reply, met>>

LogNext(m) ==
    /\ edit[m].step = "log"
    /\ IF edit[m].rows = <<>>
       THEN /\ edit' = [edit EXCEPT ![m] = NoEdit]
            /\ UNCHANGED <<log, lost>>
       ELSE /\ log' = Append(log, Head(edit[m].rows))
            /\ lost' = IF Head(edit[m].rows).what = "state" THEN "none" ELSE lost
            /\ edit' = [edit EXCEPT ![m].rows = Tail(@)]
    /\ UNCHANGED <<path, head, version, edits, reply, met>>

\* The states that m's handler has still to log: one at most.
Unsaid(m) ==
    LET rows == edit[m].rows IN
    {rows[i].to : i \in {j \in 1..Len(rows) : rows[j].what = "state"}}

\* A store error, or the end of the isolate: the form may be applied and rows
\* about it still to be written, each by a statement of its own.
FailEdit(m) ==
    /\ Failing
    /\ edit[m].step \in {"update", "log"}
    /\ edit' = [edit EXCEPT ![m] = NoEdit]
    /\ lost' \in IF Unsaid(m) = {} THEN {lost} ELSE Unsaid(m)
    /\ UNCHANGED <<path, head, version, log, edits, reply, met>>

-----------------------------------------------------------------------------
Posting ==
    \/ CreateThread
    \/ \E r \in Replies :
         \/ \E parent \in Replies \cup {Top, Elsewhere} : Begin(r, parent)
         \/ Look(r) \/ InsertPost(r) \/ Conflict(r) \/ Fail(r)

Moderating ==
    \E m \in Mods :
        \/ OpenForm(m) \/ UpdateThread(m) \/ LogNext(m) \/ FailEdit(m)
        \/ \E state \in ThreadStates \cup {"visible"}, title \in Titles :
             Submit(m, state, title)

Next == Posting \/ Moderating

Spec == Init /\ [][Next]_vars

-----------------------------------------------------------------------------
(* Properties.                                                             *)

TypeOK ==
    /\ path \in [Replies -> Path]
    /\ head \in ThreadRow
    /\ version \in Nat
    /\ log \in Seq(LogRow)
    /\ reply \in [Replies -> Reply]
    /\ edit \in [Mods -> Edit]
    /\ edits \in 0..MaxEdits
    /\ met \in [Replies -> SUBSET Replies]
    /\ lost \in AnyState

\* NextPath: the two records of a post's parent agree: its path lies directly
\* below the path of the post in parent_id, whatever was written below that
\* post, at any depth, between the writer's look and its insert.
RepliesUnderParents ==
    \A r \in Replies :
        path[r] # <<>> => Parent(path[r]) = PathOf(reply[r].parent)

\* The posts as a tree: the parent_id of each, and its path's last ordinal.
Place == [r \in Replies |->
            IF path[r] = <<>> THEN [parent |-> Top, rank |-> -1]
            ELSE [parent |-> reply[r].parent, rank |-> Ordinal(path[r])]]

PostTree == INSTANCE ThreadTree WITH place <- Place, MaxRank <- MaxOrdinal

\* Stale looks, conflicts, retries and failures together implement a tree that
\* only grows, one youngest child at a time: no path is given twice, none is
\* skipped, and none ever changes hands.
TreeOnlyGrows == PostTree!Spec

\* reply.rs, Contended: "lost the ordinal race MAX_PATH_RETRIES times running".
\* A writer is turned away only when that many others, and one more, really
\* landed under the same parent after it began.
ContendedMeansRaced ==
    \A r \in Replies :
        reply[r].step = "contended" =>
            Cardinality({q \in Replies \ met[r] :
                           /\ path[q] # <<>>
                           /\ Parent(path[q]) = PathOf(reply[r].parent)}) > MaxRetries

IsStateRow(i) == log[i].what = "state"

\* What a reader of the log takes the thread's state to be.
LogSays(state) ==
    \/ state = "visible" /\ \A i \in 1..Len(log) : ~IsStateRow(i)
    \/ \E i \in 1..Len(log) : /\ IsStateRow(i) /\ log[i].to = state
                              /\ \A j \in (i + 1)..Len(log) : ~IsStateRow(j)

\* admin.rs, update_thread: "one log row per thing that changed, so the log
\* reads as what happened".  Once no form is being applied, the last row about
\* the thread's state names the state it is in; after a handler that ended
\* between its update and that row, the row it did not write does, until the
\* next change of state is logged.
LogTellsState ==
    (\A m \in Mods : edit[m].step \in {"idle", "form"}) =>
        head.state = "none" \/ LogSays(head.state) \/ lost = head.state
=============================================================================
