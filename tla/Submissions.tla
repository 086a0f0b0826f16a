---------------------------- MODULE Submissions ----------------------------
(***************************************************************************)
(* The correction game of one student, as it runs when deployed: HTTP      *)
(* requests submit texts, save drafts and start the recovery scene; each   *)
(* accepted text is handed to an asynchronous worker execution that grades *)
(* it and advances the chapter.  Requests and workers share the database   *)
(* and nothing else.                                                       *)
(*                                                                         *)
(* Every row of these tables is keyed by the student, so two students      *)
(* never meet and one student is enough.                                   *)
(*                                                                         *)
(* Transactions run at READ COMMITTED: a statement sees the rows committed *)
(* when it starts, a write waits for the row lock of another writer, and   *)
(* the lock is kept until the transaction ends.  A statement is one        *)
(* action.  No transaction here writes a row twice, so the effect of a     *)
(* write is applied by the commit, to the row that cannot have changed     *)
(* since it was locked; `holds' remembers which writes are pending.        *)
(***************************************************************************)
EXTENDS Integers, FiniteSets, ChapterStates

CONSTANTS
    Ids,                    \* submission ids (bounds the submissions ever made)
    Chapters,               \* chapters the student has already unlocked
    Requests,               \* HTTP request executions
    Workers,                \* worker executions
    LastDay,                \* the days are 0..LastDay (bounds Midnight)
    DAILY_SUBMISSION_LIMIT,
    MaxCrashes,             \* bounds the executions that die or blow up late
    MaxDuplicates,          \* bounds the duplicated events
    Overlap,                \* may two executions of one event run at once?
    InvokeMayFail,          \* may the hand-off to the worker fail?
    MayDrop,                \* may an event whose execution died be dropped?
    None

Procs == Requests \cup Workers
Days  == 0..LastDay

ASSUME ProcsAssumption   == Requests \cap Workers = {}
ASSUME BoundsAssumption  == /\ LastDay \in Nat
                            /\ DAILY_SUBMISSION_LIMIT \in Nat \ {0}
                            /\ MaxCrashes \in Nat
                            /\ MaxDuplicates \in Nat
ASSUME SwitchAssumption  == {Overlap, InvokeMayFail, MayDrop} \subseteq BOOLEAN
SubmissionStatus == {"evaluating", "evaluated", "failed"}

ASSUME NoneAssumption    == None \notin Ids \cup Chapters \cup Verdict

VARIABLES
    \* the committed database
    submission,   \* table submissions; "charged" is the day whose tick it took
    evaluation,   \* the current evaluation of a submission, or None
    progress,     \* table chapter_progress
    activity,     \* table daily_activity; "row" says that the row exists
    draft,        \* is there a live draft of the chapter?
    \* the world
    today,
    queue,        \* how many copies of the event of a submission are pending
    crashes, duplicates,
    \* the executions
    pc, holds, loc

rows  == <<submission, evaluation, progress, activity, draft>>
world == <<today, queue, crashes, duplicates>>
vars  == <<rows, world, pc, holds, loc>>

-----------------------------------------------------------------------------
(* Row and key locks.                                                      *)

ActivityRow(d)   == <<"activity", d>>
SubmissionRow(s) == <<"submission", s>>
EvaluationKey(s) == <<"evaluation", s>>
AttemptKey(c, n) == <<"attempt", c, n>>
ProgressRow(c)   == <<"progress", c>>
DraftRow(c)      == <<"draft", c>>

Free(p, lock) == \A q \in Procs \ {p} : lock \notin holds[q]
Lock(p, lock) == /\ Free(p, lock)
                 /\ holds' = [holds EXCEPT ![p] = @ \cup {lock}]

Goto(p, label) == pc' = [pc EXCEPT ![p] = label]

\* What an execution remembers of the submission it works on.
About(s, c, created) ==
    [id |-> s, chapter |-> c, born |-> created, day |-> 0, attempt |-> 0,
     seen |-> "locked", verdict |-> None]

Blank == About(None, None, 0)

\* The execution is over: it has committed or rolled back, and forgets.
End(p) == /\ Goto(p, "idle")
          /\ holds' = [holds EXCEPT ![p] = {}]
          /\ loc'   = [loc EXCEPT ![p] = Blank]

-----------------------------------------------------------------------------

NoRow == [status |-> "none", chapter |-> None, attempt |-> 0,
          born |-> 0, charged |-> 0]

Init ==
    /\ submission = [s \in Ids |-> NoRow]
    /\ evaluation = [s \in Ids |-> None]
    /\ progress   = [c \in Chapters |->
                        [status |-> "available", attempts |-> 0, passing |-> None]]
    /\ activity   = [d \in Days |-> [row |-> FALSE, count |-> 0, approved |-> 0]]
    /\ draft      = [c \in Chapters |-> FALSE]
    /\ today = 0 /\ queue = [s \in Ids |-> 0] /\ crashes = 0 /\ duplicates = 0
    /\ pc    = [p \in Procs |-> "idle"]
    /\ holds = [p \in Procs |-> {}]
    /\ loc   = [p \in Procs |-> Blank]

SubmitPCs  == {"clock", "register", "attempt", "insert", "commit", "invoke"}
RequestPCs == {"idle", "draft", "recovery"} \cup SubmitPCs
GradedPCs  == {"store", "mark", "read", "apply", "approve", "discard", "finish"}
FailurePCs == {"failure", "mark_failed", "withdraw", "finish_failure"}
WorkerPCs  == {"idle", "grade"} \cup GradedPCs \cup FailurePCs

Exists(s) == submission[s].status # "none"
Of(c)     == {s \in Ids : Exists(s) /\ submission[s].chapter = c}

-----------------------------------------------------------------------------
(* POST /chapters/{id}/submissions.                                        *)

\* The transaction starts here, which fixes the created_at of its row; the
\* status is read without a lock and never read again.
SubmitGate(r, c) ==
    /\ pc[r] = "idle"
    /\ progress[c].status \in WRITABLE_STATUSES
    /\ \E s \in Ids :
          /\ ~Exists(s)
          /\ \A q \in Requests : loc[q].id # s
          /\ loc' = [loc EXCEPT ![r] = About(s, c, today)]
    /\ Goto(r, "clock")
    /\ UNCHANGED <<rows, world, holds>>

SubmitClock(r) ==
    /\ pc[r] = "clock"
    /\ loc' = [loc EXCEPT ![r].day = today]
    /\ Goto(r, "register")
    /\ UNCHANGED <<rows, world, holds>>

\* mutant: the limit itself still passes
UnderLimit_Inclusive(d) == activity[d].row => activity[d].count <= DAILY_SUBMISSION_LIMIT

\* INSERT ... ON CONFLICT DO UPDATE ... WHERE submissions_count < limit
UnderLimit(d) == activity[d].row => activity[d].count < DAILY_SUBMISSION_LIMIT

\* mutant: the counter is read and compared, and written only at the end
RegisterSubmission_CheckThenAct(r) ==
    /\ pc[r] = "register"
    /\ UnderLimit(loc[r].day)
    /\ Goto(r, "attempt")
    /\ UNCHANGED <<rows, world, holds, loc>>

RegisterSubmission(r) ==
    /\ pc[r] = "register"
    /\ UnderLimit(loc[r].day)
    /\ Lock(r, ActivityRow(loc[r].day))
    /\ Goto(r, "attempt")
    /\ UNCHANGED <<rows, world, loc>>

DailyLimitReached(r) ==
    /\ pc[r] = "register"
    /\ Free(r, ActivityRow(loc[r].day))
    /\ ~UnderLimit(loc[r].day)
    /\ End(r)
    /\ UNCHANGED <<rows, world>>

\* SELECT coalesce(max(attempt_number), 0) + 1
ReadAttempt(r) ==
    /\ pc[r] = "attempt"
    /\ LET chapter == Of(loc[r].chapter)
       IN  \E n \in {1} \cup {submission[s].attempt + 1 : s \in chapter} :
              /\ \A s \in chapter : submission[s].attempt < n
              /\ loc' = [loc EXCEPT ![r].attempt = n]
    /\ Goto(r, "insert")
    /\ UNCHANGED <<rows, world, holds>>

\* mutant: no unique index on the attempt number
AttemptTaken_Never(r) == FALSE

AttemptTaken(r) ==
    \E s \in Of(loc[r].chapter) : submission[s].attempt = loc[r].attempt

InsertSubmission(r) ==
    /\ pc[r] = "insert"
    /\ ~AttemptTaken(r)
    /\ Lock(r, AttemptKey(loc[r].chapter, loc[r].attempt))
    /\ Goto(r, "commit")
    /\ UNCHANGED <<rows, world, loc>>

\* The unique index refuses the row: the request fails and rolls back.
InsertConflicts(r) ==
    /\ pc[r] = "insert"
    /\ AttemptTaken(r)
    /\ End(r)
    /\ UNCHANGED <<rows, world>>

\* The dispatcher commits before it hands off.
CommitSubmission(r) ==
    /\ pc[r] = "commit"
    /\ submission' = [submission EXCEPT ![loc[r].id] =
          [status |-> "evaluating", chapter |-> loc[r].chapter,
           attempt |-> loc[r].attempt, born |-> loc[r].born, charged |-> loc[r].day]]
    /\ activity' = [activity EXCEPT ![loc[r].day] =
          [row |-> TRUE, count |-> @.count + 1, approved |-> @.approved]]
    /\ holds' = [holds EXCEPT ![r] = {}]
    /\ Goto(r, "invoke")
    /\ UNCHANGED <<evaluation, progress, draft, world, loc>>

Invoke(r) ==
    /\ pc[r] = "invoke"
    /\ queue' = [queue EXCEPT ![loc[r].id] = @ + 1]
    /\ End(r)
    /\ UNCHANGED <<rows, today, crashes, duplicates>>

\* The hand-off raises, or the process dies before it: the rollback that
\* follows finds nothing left to undo.
InvokeFails(r) ==
    /\ InvokeMayFail
    /\ pc[r] = "invoke"
    /\ End(r)
    /\ UNCHANGED <<rows, world>>

\* Any other statement raises, or the process dies: the transaction is undone.
RequestDies(r) ==
    /\ pc[r] \in SubmitPCs \ {"invoke"}
    /\ crashes < MaxCrashes
    /\ crashes' = crashes + 1
    /\ End(r)
    /\ UNCHANGED <<rows, today, queue, duplicates>>

-----------------------------------------------------------------------------
(* PUT /chapters/{id}/draft and POST /chapters/{id}/recovery: the status   *)
(* is read, then one row is written and the request commits.               *)

DraftGate(r, c) ==
    /\ pc[r] = "idle"
    /\ progress[c].status \in WRITABLE_STATUSES
    /\ loc' = [loc EXCEPT ![r].chapter = c]
    /\ Goto(r, "draft")
    /\ UNCHANGED <<rows, world, holds>>

SaveDraft(r) ==
    /\ pc[r] = "draft"
    /\ Free(r, DraftRow(loc[r].chapter))
    /\ draft' = [draft EXCEPT ![loc[r].chapter] = TRUE]
    /\ End(r)
    /\ UNCHANGED <<submission, evaluation, progress, activity, world>>

\* In the recovery scene already, nothing is written.
RecoveryGate(r, c) ==
    /\ pc[r] = "idle"
    /\ progress[c].status = "in_consequence"
    /\ loc' = [loc EXCEPT ![r].chapter = c]
    /\ Goto(r, "recovery")
    /\ UNCHANGED <<rows, world, holds>>

SetRecovery(r) ==
    /\ pc[r] = "recovery"
    /\ Free(r, ProgressRow(loc[r].chapter))
    /\ progress' = [progress EXCEPT ![loc[r].chapter].status = "in_recovery"]
    /\ End(r)
    /\ UNCHANGED <<submission, evaluation, activity, draft, world>>

-----------------------------------------------------------------------------
(* The worker: evaluate_submission in a transaction, and when that raises  *)
(* the failure is recorded in a fresh one.                                 *)

Idle(s) == \A w \in Workers : loc[w].id # s

\* An execution starts and reads the submission; one that is no longer
\* evaluating is left alone.
Deliver(w, s) ==
    /\ pc[w] = "idle"
    /\ queue[s] > 0
    /\ Overlap \/ Idle(s)
    /\ queue' = [queue EXCEPT ![s] = @ - 1]
    /\ IF submission[s].status = "evaluating"
       THEN /\ Goto(w, "grade")
            /\ loc' = [loc EXCEPT ![w] =
                          About(s, submission[s].chapter, submission[s].born)]
       ELSE UNCHANGED <<pc, loc>>
    /\ UNCHANGED <<rows, today, crashes, duplicates, holds>>

\* The pipeline answers, with any verdict: Verdicts.tla says which.
Grade(w) ==
    /\ pc[w] = "grade"
    /\ \E v \in Verdict : loc' = [loc EXCEPT ![w].verdict = v]
    /\ Goto(w, "store")
    /\ UNCHANGED <<rows, world, holds>>

\* mutant: the evaluation is committed on its own
StoreEvaluation_Autocommit(w) ==
    /\ pc[w] = "store"
    /\ evaluation[loc[w].id] = None
    /\ evaluation' = [evaluation EXCEPT ![loc[w].id] = loc[w].verdict]
    /\ Goto(w, "mark")
    /\ UNCHANGED <<submission, progress, activity, draft, world, holds, loc>>

StoreEvaluation(w) ==
    /\ pc[w] = "store"
    /\ evaluation[loc[w].id] = None
    /\ Lock(w, EvaluationKey(loc[w].id))
    /\ Goto(w, "mark")
    /\ UNCHANGED <<rows, world, loc>>

MarkEvaluated(w) ==
    /\ pc[w] = "mark"
    /\ Lock(w, SubmissionRow(loc[w].id))
    /\ Goto(w, "read")
    /\ UNCHANGED <<rows, world, loc>>

\* A late verdict on a passed chapter is only stored.
ReadStatus(w) ==
    /\ pc[w] = "read"
    /\ LET seen == progress[loc[w].chapter].status
       IN  /\ loc' = [loc EXCEPT ![w].seen = seen]
           /\ Goto(w, IF seen = "passed" THEN "finish" ELSE "apply")
    /\ UNCHANGED <<rows, world, holds>>

\* mutant: a technical failure leaves the chapter alone
ApplyResult_SkipsTechnical(w) ==
    /\ pc[w] = "apply"
    /\ IF loc[w].verdict = "failed_technical"
       THEN UNCHANGED holds
       ELSE Lock(w, ProgressRow(loc[w].chapter))
    /\ Goto(w, IF loc[w].verdict = "approved" THEN "approve" ELSE "finish")
    /\ UNCHANGED <<rows, world, loc>>

ApplyResult(w) ==
    /\ pc[w] = "apply"
    /\ Lock(w, ProgressRow(loc[w].chapter))
    /\ Goto(w, IF loc[w].verdict = "approved" THEN "approve" ELSE "finish")
    /\ UNCHANGED <<rows, world, loc>>

\* mutant: the approval is counted on the day of the verdict
RegisterApproval_Today(w) ==
    /\ pc[w] = "approve"
    /\ IF activity[today].row THEN Lock(w, ActivityRow(today)) ELSE UNCHANGED holds
    /\ Goto(w, "discard")
    /\ UNCHANGED <<rows, world, loc>>

\* An UPDATE of the row of the day the submission was created on.
RegisterApproval(w) ==
    /\ pc[w] = "approve"
    /\ IF activity[loc[w].born].row
       THEN Lock(w, ActivityRow(loc[w].born))
       ELSE UNCHANGED holds
    /\ Goto(w, "discard")
    /\ UNCHANGED <<rows, world, loc>>

DiscardDraft(w) ==
    /\ pc[w] = "discard"
    /\ IF draft[loc[w].chapter]
       THEN Lock(w, DraftRow(loc[w].chapter))
       ELSE UNCHANGED holds
    /\ Goto(w, "finish")
    /\ UNCHANGED <<rows, world, loc>>

Advanced(row, w) ==
    LET status == resolve_status_after_evaluation(loc[w].seen, loc[w].verdict)
    IN  [status   |-> status,
         attempts |-> row.attempts + 1,
         passing  |-> IF status = "passed" THEN loc[w].id ELSE row.passing]

CommitVerdict(w) ==
    /\ pc[w] = "finish"
    /\ evaluation' = [evaluation EXCEPT ![loc[w].id] = loc[w].verdict]
    /\ submission' = [submission EXCEPT ![loc[w].id].status = "evaluated"]
    /\ progress' = [c \in Chapters |->
          IF ProgressRow(c) \in holds[w] THEN Advanced(progress[c], w) ELSE progress[c]]
    /\ activity' = [d \in Days |->
          IF ActivityRow(d) \in holds[w]
          THEN [activity[d] EXCEPT !.approved = @ + 1] ELSE activity[d]]
    /\ draft' = [c \in Chapters |-> draft[c] /\ DraftRow(c) \notin holds[w]]
    /\ End(w)
    /\ UNCHANGED world

\* mutant: the exception is logged and nothing else
EvaluationRaises_Swallowed(w) ==
    /\ pc[w] = "grade"
    /\ End(w)
    /\ UNCHANGED <<rows, world>>

\* The evaluation raises and its transaction is undone: the engine failed or
\* the budget is spent, the unique index refuses a second evaluation, or
\* (bounded) any later statement fails.
EvaluationRaises(w) ==
    /\ \/ pc[w] = "grade" /\ UNCHANGED crashes
       \/ pc[w] = "store" /\ evaluation[loc[w].id] # None /\ UNCHANGED crashes
       \/ /\ pc[w] \in GradedPCs
          /\ crashes < MaxCrashes /\ crashes' = crashes + 1
    /\ holds' = [holds EXCEPT ![w] = {}]
    /\ Goto(w, "failure")
    /\ UNCHANGED <<rows, today, queue, duplicates, loc>>

-----------------------------------------------------------------------------

\* mutant: the failure is never recorded
ReadFailed_Ignored(w) ==
    /\ pc[w] = "failure"
    /\ End(w)
    /\ UNCHANGED <<rows, world>>

\* mutant: the tick is refunded before the submission is marked
ReadFailed_RefundFirst(w) ==
    /\ pc[w] = "failure"
    /\ IF submission[loc[w].id].status = "evaluating"
       THEN Lock(w, ActivityRow(loc[w].born)) /\ Goto(w, "mark_failed") /\ UNCHANGED loc
       ELSE End(w)
    /\ UNCHANGED <<rows, world>>

ReadFailed(w) ==
    /\ pc[w] = "failure"
    /\ IF submission[loc[w].id].status = "evaluating"
       THEN Goto(w, "mark_failed") /\ UNCHANGED <<holds, loc>>
       ELSE End(w)
    /\ UNCHANGED <<rows, world>>

MarkFailed(w) ==
    /\ pc[w] = "mark_failed"
    /\ Lock(w, SubmissionRow(loc[w].id))
    /\ Goto(w, "withdraw")
    /\ UNCHANGED <<rows, world, loc>>

\* mutant: a failure keeps its tick
WithdrawSubmission_Never(w) ==
    /\ pc[w] = "withdraw"
    /\ Goto(w, "finish_failure")
    /\ UNCHANGED <<rows, world, holds, loc>>

\* mutant: the UPDATE has no submissions_count > 0
WithdrawSubmission_Unguarded(w) ==
    /\ pc[w] = "withdraw"
    /\ IF activity[loc[w].born].row
       THEN Lock(w, ActivityRow(loc[w].born))
       ELSE UNCHANGED holds
    /\ Goto(w, "finish_failure")
    /\ UNCHANGED <<rows, world, loc>>

WithdrawSubmission(w) ==
    /\ pc[w] = "withdraw"
    /\ IF activity[loc[w].born].count > 0
       THEN Lock(w, ActivityRow(loc[w].born))
       ELSE UNCHANGED holds
    /\ Goto(w, "finish_failure")
    /\ UNCHANGED <<rows, world, loc>>

CommitFailure(w) ==
    /\ pc[w] = "finish_failure"
    /\ submission' = [submission EXCEPT ![loc[w].id].status = "failed"]
    /\ activity' = [d \in Days |->
          IF ActivityRow(d) \in holds[w]
          THEN [activity[d] EXCEPT !.count = @ - 1] ELSE activity[d]]
    /\ End(w)
    /\ UNCHANGED <<evaluation, progress, draft, world>>

\* The execution is killed, or recording the failure raises: the open
\* transaction is undone and the event is retried, unless it is dropped.
WorkerDies(w) ==
    /\ pc[w] # "idle"
    /\ crashes < MaxCrashes
    /\ crashes' = crashes + 1
    /\ \/ queue' = [queue EXCEPT ![loc[w].id] = @ + 1]
       \/ MayDrop /\ UNCHANGED queue
    /\ End(w)
    /\ UNCHANGED <<rows, today, duplicates>>

\* Events are delivered at least once.
Duplicate(s) ==
    /\ queue[s] > 0
    /\ duplicates < MaxDuplicates
    /\ duplicates' = duplicates + 1
    /\ queue' = [queue EXCEPT ![s] = @ + 1]
    /\ UNCHANGED <<rows, today, crashes, pc, holds, loc>>

Midnight ==
    /\ today < LastDay
    /\ today' = today + 1
    /\ UNCHANGED <<rows, queue, crashes, duplicates, pc, holds, loc>>

-----------------------------------------------------------------------------

RequestStep(r) ==
    \/ SubmitClock(r) \/ RegisterSubmission(r) \/ DailyLimitReached(r)
    \/ ReadAttempt(r) \/ InsertSubmission(r) \/ InsertConflicts(r)
    \/ CommitSubmission(r) \/ Invoke(r) \/ SaveDraft(r) \/ SetRecovery(r)

RequestStart(r) ==
    \E c \in Chapters : SubmitGate(r, c) \/ DraftGate(r, c) \/ RecoveryGate(r, c)

WorkerStep(w) ==
    \/ Grade(w) \/ StoreEvaluation(w) \/ MarkEvaluated(w) \/ ReadStatus(w)
    \/ ApplyResult(w) \/ RegisterApproval(w) \/ DiscardDraft(w) \/ CommitVerdict(w)
    \/ EvaluationRaises(w) \/ ReadFailed(w) \/ MarkFailed(w)
    \/ WithdrawSubmission(w) \/ CommitFailure(w)

Next ==
    \/ \E r \in Requests :
          RequestStart(r) \/ RequestStep(r) \/ InvokeFails(r) \/ RequestDies(r)
    \/ \E w \in Workers :
          WorkerStep(w) \/ WorkerDies(w) \/ \E s \in Ids : Deliver(w, s)
    \/ \E s \in Ids : Duplicate(s)
    \/ Midnight

Spec == Init /\ [][Next]_vars

\* A started execution goes on (statements and the engine call have timeouts)
\* and a pending event finds an execution.
Fairness ==
    /\ \A r \in Requests : WF_vars(RequestStep(r))
    /\ \A w \in Workers  : WF_vars(WorkerStep(w))
    /\ \A s \in Ids      : WF_vars(\E w \in Workers : Deliver(w, s))

FairSpec == Spec /\ Fairness

-----------------------------------------------------------------------------
(* Properties.                                                             *)

SubmissionRows ==
    [status : SubmissionStatus \cup {"none"}, chapter : Chapters \cup {None},
     attempt : Nat, born : Days, charged : Days]
ProgressRows == [status : ChapterStatus, attempts : Nat, passing : Ids \cup {None}]
ActivityRows == [row : BOOLEAN, count : Nat, approved : Nat]
Locals == [id : Ids \cup {None}, chapter : Chapters \cup {None}, born : Days,
           day : Days, attempt : Nat, seen : ChapterStatus,
           verdict : Verdict \cup {None}]
Locks ==
    ({"activity"} \X Days) \cup ({"submission", "evaluation"} \X Ids)
    \cup ({"progress", "draft"} \X Chapters) \cup ({"attempt"} \X Chapters \X Nat)

RowsOK ==
    /\ submission \in [Ids -> SubmissionRows]
    /\ \A s \in Ids :
          submission[s].status = "evaluating" => submission[s].chapter \in Chapters
    /\ evaluation \in [Ids -> Verdict \cup {None}]
    /\ progress \in [Chapters -> ProgressRows]
    /\ activity \in [Days -> ActivityRows]
    /\ draft \in [Chapters -> BOOLEAN]

WorldOK ==
    /\ today \in Days
    /\ queue \in [Ids -> Nat]
    /\ crashes \in Nat
    /\ duplicates \in Nat

ControlOK ==
    /\ pc \in [Procs -> RequestPCs \cup WorkerPCs]
    /\ \A r \in Requests : pc[r] \in RequestPCs
    /\ \A w \in Workers : pc[w] \in WorkerPCs

\* An execution at work knows what it works on.
ArgumentsOK ==
    /\ \A p \in Procs : pc[p] # "idle" => loc[p].chapter \in Chapters
    /\ \A r \in Requests : pc[r] \in SubmitPCs <=> loc[r].id \in Ids
    /\ \A w \in Workers : pc[w] # "idle" <=> loc[w].id \in Ids
    /\ \A w \in Workers : pc[w] \in GradedPCs => loc[w].verdict \in Verdict

\* Every row, queue and execution stays in its domain; above all a daily
\* counter never goes below zero, whatever is refunded.
TypeOK ==
    /\ RowsOK
    /\ WorldOK
    /\ ControlOK
    /\ holds \in [Procs -> SUBSET Locks]
    /\ loc \in [Procs -> Locals]
    /\ ArgumentsOK

\* The counter that pays for corrections never exceeds the daily limit,
\* however many requests pass the gate at once (register_submission).
DailyCap == \A d \in Days : activity[d].count <= DAILY_SUBMISSION_LIMIT

\* No submission was created on one day and charged to the next.
NoSkew == \A s \in Ids : Exists(s) => submission[s].born = submission[s].charged

Charged(d) == {s \in Ids : Exists(s) /\ submission[s].charged = d}

\* The counter of a day is the number of its submissions that are, or may
\* still be, corrected: a failure refunds exactly its own tick, once, and with
\* DailyCap a day gives no more corrections than its limit (docs/DER.md), also
\* when failures were resubmitted.  It needs that no submission straddled
\* midnight.
TicksExact ==
    NoSkew => \A d \in Days :
        activity[d].count =
            Cardinality({s \in Charged(d) : submission[s].status # "failed"})

\* The attempts of a chapter are numbered 1..n without gap or repetition,
\* although max + 1 is read without a lock (create_pending).
AttemptsContiguous ==
    \A c \in Chapters :
        {submission[s].attempt : s \in Of(c)} = 1..Cardinality(Of(c))

\* Two requests of one day never compute the same attempt number: the row of
\* daily_activity serialises them.  Only submissions charged to different
\* days can collide.
CollisionsStraddleMidnight ==
    \A r \in Requests :
        pc[r] = "insert" /\ AttemptTaken(r) =>
            \E s \in Of(loc[r].chapter) :
                /\ submission[s].attempt = loc[r].attempt
                /\ submission[s].charged # loc[r].day

Evaluations(c) == {s \in Of(c) : evaluation[s] # None}

\* Until the chapter is passed its attempts are the verdicts given on it, and
\* never more than those afterwards: no concurrent verdict is lost or applied
\* twice (apply_result).
AttemptsMatchVerdicts ==
    \A c \in Chapters :
        /\ progress[c].attempts <= Cardinality(Evaluations(c))
        /\ progress[c].passing = None =>
              progress[c].attempts = Cardinality(Evaluations(c))

\* A chapter is where a verdict sent it: passed, drafting and in_consequence
\* each need a stored evaluation of that chapter with the matching verdict,
\* the recovery scene one that failed by persuasion, and the passing
\* submission is one of the chapter that was approved.
StatusHasVerdict ==
    \A c \in Chapters :
        LET given == {evaluation[s] : s \in Evaluations(c)}
            status == progress[c].status
        IN  /\ status = "passed" => progress[c].passing # None
            /\ progress[c].passing # None =>
                  progress[c].passing \in Of(c) /\ evaluation[progress[c].passing] = "approved"
            /\ status = "drafting" => "failed_technical" \in given
            /\ status \in {"in_consequence", "in_recovery"} => "failed_persuasion" \in given

\* The result is present exactly when the status is evaluated, as the polling
\* endpoint documents (presentation/fastapi/submissions.py).
ResultExactlyWhenEvaluated ==
    \A s \in Ids : submission[s].status = "evaluated" <=> evaluation[s] # None

\* A submission that is evaluating has an event pending, an execution at work
\* on it or a request about to hand it off: nothing is forgotten.
NoOrphan ==
    \A s \in Ids :
        submission[s].status = "evaluating" =>
            \/ queue[s] > 0
            \/ \E w \in Workers : loc[w].id = s
            \/ \E r \in Requests : pc[r] = "invoke" /\ loc[r].id = s

\* The step makes s the passing submission of its chapter.
Passes(s) == \E c \in Chapters : progress[c].passing # s /\ progress'[c].passing = s

\* A day counts an approval once for each submission created on it that passed
\* its chapter (register_approval).  A submission passes a chapter only with the
\* first result it ever gets, an approval, and adds one to the day it was charged
\* on, also when the verdict lands after midnight; nothing else moves the count,
\* so a late approval of a chapter seen as passed does not, and no result is
\* replaced, so no submission can be counted again.  That the count is reached
\* needs that the submission did not straddle midnight.
ApprovalReachesItsDay ==
    [][/\ \A s \in Ids : Passes(s) =>
             /\ evaluation[s] = None /\ evaluation'[s] = "approved"
             /\ LET d == submission[s].charged
                IN  submission[s].born = d =>
                        activity'[d].approved = activity[d].approved + 1
       /\ \A d \in Days : activity'[d].approved # activity[d].approved =>
             /\ activity'[d].approved = activity[d].approved + 1
             /\ \E s \in Ids : Passes(s) /\ submission[s].born = d
       /\ \A s \in Ids : evaluation[s] # None => evaluation'[s] = evaluation[s]]_vars

\* The lock the next statement of an execution asks for.
Wanted(p) ==
    LET l == loc[p]
    IN  CASE pc[p] = "register" -> {ActivityRow(l.day)}
          [] pc[p] = "insert"   -> {AttemptKey(l.chapter, l.attempt)}
          [] pc[p] = "draft"    -> {DraftRow(l.chapter)}
          [] pc[p] = "recovery" -> {ProgressRow(l.chapter)}
          [] pc[p] = "store"    -> {EvaluationKey(l.id)}
          [] pc[p] \in {"mark", "mark_failed"} -> {SubmissionRow(l.id)}
          [] pc[p] = "apply"    -> {ProgressRow(l.chapter)}
          [] pc[p] \in {"approve", "withdraw"} -> {ActivityRow(l.born)}
          [] pc[p] = "discard"  -> {DraftRow(l.chapter)}
          [] OTHER -> {}

\* No set of executions waits on itself: the statements take their row locks
\* in one order, so the database never has a deadlock to break.
NoLockCycle ==
    \A S \in (SUBSET Procs) \ {{}} :
        \E p \in S : \A q \in S \ {p} : Wanted(p) \cap holds[q] = {}

\* Every correction ends: evaluating leads to evaluated or failed.
EventuallySettled ==
    \A s \in Ids :
        submission[s].status = "evaluating"
            ~> submission[s].status \in {"evaluated", "failed"}

-----------------------------------------------------------------------------
(* What the repository says of this code, and the code does not do.        *)

\* domain/submission.py: "passed is final, a late verdict never regresses".
PassedIsFinal ==
    [][\A c \in Chapters :
        progress[c].status = "passed" => progress'[c].status = "passed"]_vars

\* domain/enums.py: "evaluated is final".
EvaluatedIsFinal ==
    [][\A s \in Ids :
        submission[s].status = "evaluated" => submission'[s].status = "evaluated"]_vars

\* submit_argument.py: the tick "rolls back with the request transaction if
\* the hand-off fails", so a request that ended without handing off its
\* submission leaves neither the tick nor the row behind.
HandOffIsAtomic ==
    [][\A r \in Requests :
        pc[r] = "invoke" /\ pc'[r] = "idle" =>
            queue'[loc[r].id] > 0 \/ submission'[loc[r].id].status = "none"]_vars

\* docs/DER.md: the draft is erased when the chapter is approved, so a passed
\* chapter that nobody is writing to has none.
NoDraftOnceApproved ==
    \A c \in Chapters : progress[c].status = "passed" => ~draft[c]

\* record_evaluation_failure.py: a failure "refunds the daily tick", the one
\* the submission took.
RefundReachesTick ==
    [][\A s \in Ids :
        submission[s].status = "evaluating" /\ submission'[s].status = "failed" =>
            LET d == submission[s].charged
            IN  activity'[d].count = activity[d].count - 1]_vars

=============================================================================
