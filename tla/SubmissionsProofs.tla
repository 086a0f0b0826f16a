------------------------- MODULE SubmissionsProofs -------------------------
(***************************************************************************)
(* The counters, the locks and the life of one submission, proved: a day   *)
(* never counts over its limit, no set of transactions waits on itself,    *)
(* nothing that is evaluating is forgotten as long as hand-offs and        *)
(* retries work, and when no two executions of one event run at once a     *)
(* correction ends exactly once.  Then what the rows of a chapter and of a *)
(* day add up to: attempts are numbered without gaps, a chapter is where a *)
(* stored verdict sent it and counts exactly its verdicts, an approval     *)
(* reaches its day, and a day has charged exactly the submissions it may   *)
(* still correct.                                                          *)
(***************************************************************************)
EXTENDS Submissions, FiniteSetTheorems, TLAPS

USE DEF Procs, Days

(* The row locks are exclusive, and a pending write of a counter still has *)
(* the precondition its WHERE clause checked.                              *)

LocksExclusive ==
    \A p, q \in Procs : p # q => holds[p] \cap holds[q] = {}

TickPending(r) == pc[r] \in {"attempt", "insert", "commit"}

TickLocked ==
    \A r \in Requests : TickPending(r) =>
        ActivityRow(loc[r].day) \in holds[r] /\ UnderLimit(loc[r].day)

RefundLocked ==
    \A w \in Workers :
        /\ pc[w] \in {"failure", "mark_failed", "withdraw"} =>
              \A d \in Days : ActivityRow(d) \notin holds[w]
        /\ pc[w] = "finish_failure" =>
              \A d \in Days : ActivityRow(d) \in holds[w] => activity[d].count > 0

CountedRows == \A d \in Days : ~activity[d].row => activity[d].count = 0

CounterInv == /\ TypeOK /\ LocksExclusive /\ TickLocked /\ RefundLocked
              /\ CountedRows /\ DailyCap

-----------------------------------------------------------------------------

LEMMA InitType == Init => TypeOK
  BY BoundsAssumption, NoneAssumption
  DEF Init, TypeOK, RowsOK, WorldOK, ControlOK, ArgumentsOK, NoRow, Blank, About,
      SubmissionRows, ProgressRows, ActivityRows, Locals, RequestPCs, WorkerPCs,
      SubmitPCs, GradedPCs, FailurePCs, ChapterStatus, Locks

(* The label and the memory an execution may be left with by a step.       *)
Fits(p, label, x) ==
    /\ x \in Locals
    /\ label # "idle" => x.chapter \in Chapters
    /\ p \in Requests => /\ label \in RequestPCs
                         /\ label \in SubmitPCs <=> x.id \in Ids
    /\ p \in Workers => /\ label \in WorkerPCs
                        /\ label # "idle" <=> x.id \in Ids
                        /\ label \in GradedPCs => x.verdict \in Verdict

ExecutionsOK == ControlOK /\ loc \in [Procs -> Locals] /\ ArgumentsOK

LEMMA MoveType ==
  ASSUME TypeOK, NEW p \in Procs, NEW label, NEW x, Fits(p, label, x),
         Goto(p, label), loc' = [loc EXCEPT ![p] = x]
  PROVE  ExecutionsOK'
<1>1. ControlOK'
  BY DEF TypeOK, ControlOK, Goto, Fits
<1>2. loc' \in [Procs -> Locals]
  BY DEF TypeOK, Fits
<1>3. ArgumentsOK'
  BY DEF TypeOK, ControlOK, ArgumentsOK, Goto, Fits
<1> QED
  BY <1>1, <1>2, <1>3 DEF ExecutionsOK

LEMMA GotoType ==
  ASSUME TypeOK, NEW p \in Procs, NEW label, Fits(p, label, loc[p]),
         Goto(p, label), loc' = loc
  PROVE  ExecutionsOK'
<1>1. loc' = [loc EXCEPT ![p] = loc[p]]
  BY DEF TypeOK
<1> QED
  BY <1>1, MoveType

LEMMA EndType ==
  ASSUME TypeOK, NEW p \in Procs, End(p)
  PROVE  ExecutionsOK' /\ holds' \in [Procs -> SUBSET Locks]
<1>1. Fits(p, "idle", Blank)
  BY BoundsAssumption, NoneAssumption
  DEF Fits, Blank, About, Locals, ChapterStatus, RequestPCs, WorkerPCs, SubmitPCs, GradedPCs
<1>2. ExecutionsOK'
  BY <1>1, MoveType DEF End
<1> QED
  BY <1>2 DEF TypeOK, End

LEMMA LockType ==
  ASSUME TypeOK, NEW p \in Procs, NEW lock \in Locks, Lock(p, lock)
  PROVE  holds' \in [Procs -> SUBSET Locks]
  BY DEF TypeOK, Lock

LEMMA AboutType ==
  ASSUME NEW s \in Ids, NEW c \in Chapters, NEW d \in Days
  PROVE  /\ About(s, c, d) \in Locals
         /\ About(s, c, d).id = s /\ About(s, c, d).chapter = c
         /\ About(s, c, d).born = d
  BY BoundsAssumption DEF About, Locals, ChapterStatus

LEMMA SetStatusType ==
  ASSUME RowsOK, NEW s \in Ids, NEW status \in SubmissionStatus \ {"evaluating"},
         submission' = [submission EXCEPT ![s].status = status]
  PROVE  /\ submission' \in [Ids -> SubmissionRows]
         /\ \A t \in Ids :
               submission'[t].status = "evaluating" => submission'[t].chapter \in Chapters
<1>1. submission'[s] = [submission[s] EXCEPT !.status = status]
  BY DEF RowsOK
<1>2. submission'[s] \in SubmissionRows /\ submission'[s].status = status
  BY <1>1 DEF RowsOK, SubmissionRows
<1>3. \A t \in Ids \ {s} : submission'[t] = submission[t]
  BY DEF RowsOK
<1> QED
  BY <1>2, <1>3 DEF RowsOK

LEMMA UnchangedType ==
  ASSUME TypeOK
  PROVE  (rows' = rows => RowsOK') /\ (world' = world => WorldOK')
  BY DEF TypeOK, RowsOK, WorldOK, rows, world

-----------------------------------------------------------------------------
(* A step of a request keeps the types.                                    *)
LEMMA RequestType ==
  ASSUME TypeOK, NEW r \in Requests,
         RequestStart(r) \/ RequestStep(r) \/ InvokeFails(r) \/ RequestDies(r)
  PROVE  TypeOK'
<1> USE ProcsAssumption, NoneAssumption, UnchangedType DEF TypeOK
<1>w. r \notin Workers
  OBVIOUS
<1>e. End(r) => ExecutionsOK' /\ holds' \in [Procs -> SUBSET Locks]
  BY EndType
<1>q. ExecutionsOK' /\ RowsOK' /\ WorldOK' /\ holds' \in [Procs -> SUBSET Locks] => TypeOK'
  BY DEF ExecutionsOK
<1>a. ASSUME pc[r] \in SubmitPCs, NEW label \in SubmitPCs, Goto(r, label), loc' = loc
      PROVE  ExecutionsOK'
  <2>1. Fits(r, label, loc[r])
    BY <1>a, <1>w DEF Fits, ArgumentsOK, SubmitPCs, RequestPCs
  <2> QED BY <1>a, <2>1, GotoType
<1>1. ASSUME NEW c \in Chapters, SubmitGate(r, c) PROVE TypeOK'
  <2>1. PICK s \in Ids : loc' = [loc EXCEPT ![r] = About(s, c, today)]
    BY <1>1 DEF SubmitGate
  <2>2. Fits(r, "clock", About(s, c, today))
    BY AboutType, <1>w DEF Fits, WorldOK, RequestPCs, SubmitPCs
  <2> QED BY <1>1, <1>q, <2>1, <2>2, MoveType DEF SubmitGate
<1>2. ASSUME NEW c \in Chapters,
             NEW label \in {"draft", "recovery"}, pc[r] = "idle", Goto(r, label),
             loc' = [loc EXCEPT ![r].chapter = c], UNCHANGED <<rows, world, holds>>
      PROVE  TypeOK'
  <2> DEFINE x == [loc[r] EXCEPT !.chapter = c]
  <2>1. x \in Locals /\ x.id = loc[r].id /\ x.chapter = c
    BY DEF Locals
  <2>2. Fits(r, label, x)
    BY <1>2, <1>w, <2>1 DEF Fits, ArgumentsOK, RequestPCs, SubmitPCs
  <2>3. loc' = [loc EXCEPT ![r] = x]
    BY <1>2
  <2> QED BY <1>2, <1>q, <2>2, <2>3, MoveType
<1>4. CASE SubmitClock(r)
  <2> DEFINE x == [loc[r] EXCEPT !.day = today]
  <2>1. x \in Locals /\ x.id = loc[r].id /\ x.chapter = loc[r].chapter
    BY DEF Locals, WorldOK
  <2>2. Fits(r, "register", x)
    BY <1>4, <1>w, <2>1 DEF SubmitClock, Fits, ArgumentsOK, RequestPCs, SubmitPCs
  <2>3. loc' = [loc EXCEPT ![r] = x]
    BY <1>4 DEF SubmitClock
  <2> QED BY <1>4, <1>q, <2>2, <2>3, MoveType DEF SubmitClock
<1>5. CASE RegisterSubmission(r)
  <2>1. ActivityRow(loc[r].day) \in Locks
    BY DEF ActivityRow, Locks, Locals
  <2>2. holds' \in [Procs -> SUBSET Locks]
    BY <1>5, <2>1, LockType DEF RegisterSubmission
  <2> QED BY <1>5, <1>q, <1>a, <2>2 DEF RegisterSubmission, SubmitPCs
<1>6. CASE DailyLimitReached(r)
  BY <1>6, <1>q, <1>e DEF DailyLimitReached
<1>7. CASE ReadAttempt(r)
  <2>1. PICK n \in {1} \cup {submission[s].attempt + 1 : s \in Of(loc[r].chapter)} :
          loc' = [loc EXCEPT ![r].attempt = n]
    BY <1>7 DEF ReadAttempt
  <2>2. n \in Nat
    BY <2>1 DEF Of, RowsOK, SubmissionRows
  <2> DEFINE x == [loc[r] EXCEPT !.attempt = n]
  <2>3. x \in Locals /\ x.id = loc[r].id /\ x.chapter = loc[r].chapter
    BY <2>2 DEF Locals
  <2>4. Fits(r, "insert", x)
    BY <1>7, <1>w, <2>3 DEF ReadAttempt, Fits, ArgumentsOK, RequestPCs, SubmitPCs
  <2>5. loc' = [loc EXCEPT ![r] = x]
    BY <2>1
  <2> QED BY <1>7, <1>q, <2>4, <2>5, MoveType DEF ReadAttempt
<1>8. CASE InsertSubmission(r)
  <2>1. AttemptKey(loc[r].chapter, loc[r].attempt) \in Locks
    BY <1>8 DEF InsertSubmission, ArgumentsOK, AttemptKey, Locks, Locals
  <2>2. holds' \in [Procs -> SUBSET Locks]
    BY <1>8, <2>1, LockType DEF InsertSubmission
  <2> QED BY <1>8, <1>q, <1>a, <2>2 DEF InsertSubmission, SubmitPCs
<1>9. CASE InsertConflicts(r)
  BY <1>9, <1>q, <1>e DEF InsertConflicts
<1>10. CASE CommitSubmission(r)
  <2>1. loc[r].id \in Ids /\ loc[r].chapter \in Chapters /\ loc[r] \in Locals
    BY <1>10 DEF CommitSubmission, ArgumentsOK, SubmitPCs
  <2>2. submission' \in [Ids -> SubmissionRows]
    BY <1>10, <2>1 DEF CommitSubmission, RowsOK, SubmissionRows, SubmissionStatus, Locals
  <2>3. \A s \in Ids :
             submission'[s].status = "evaluating" => submission'[s].chapter \in Chapters
    BY <1>10, <2>1 DEF CommitSubmission, RowsOK
  <2>4. activity' \in [Days -> ActivityRows]
    <3> DEFINE d == loc[r].day
    <3>1. d \in Days /\ activity[d] \in ActivityRows
      BY <2>1 DEF RowsOK, Locals
    <3>2. [row |-> TRUE, count |-> activity[d].count + 1,
           approved |-> activity[d].approved] \in ActivityRows
      BY <3>1 DEF ActivityRows
    <3> QED BY <1>10, <3>1, <3>2 DEF CommitSubmission, RowsOK
  <2>5. RowsOK'
    BY <1>10, <2>2, <2>3, <2>4 DEF CommitSubmission, RowsOK
  <2>6. holds' \in [Procs -> SUBSET Locks]
    BY <1>10 DEF CommitSubmission
  <2> QED BY <1>10, <1>q, <1>a, <2>5, <2>6 DEF CommitSubmission, SubmitPCs
<1>11. CASE Invoke(r)
  <2>1. WorldOK'
    BY <1>11 DEF Invoke, WorldOK, ArgumentsOK, SubmitPCs
  <2> QED BY <1>11, <1>q, <1>e, <2>1 DEF Invoke
<1>12. CASE SaveDraft(r)
  <2>1. RowsOK'
    BY <1>12 DEF SaveDraft, RowsOK
  <2> QED BY <1>12, <1>q, <1>e, <2>1 DEF SaveDraft
<1>13. CASE SetRecovery(r)
  <2>1. RowsOK'
    BY <1>13 DEF SetRecovery, RowsOK, ProgressRows, ChapterStatus
  <2> QED BY <1>13, <1>q, <1>e, <2>1 DEF SetRecovery
<1>14. CASE InvokeFails(r)
  BY <1>14, <1>q, <1>e DEF InvokeFails
<1>15. CASE RequestDies(r)
  <2>1. WorldOK'
    BY <1>15 DEF RequestDies, WorldOK
  <2> QED BY <1>15, <1>q, <1>e, <2>1 DEF RequestDies
<1> QED
  BY <1>1, <1>2, <1>4, <1>5, <1>6, <1>7, <1>8, <1>9, <1>10, <1>11, <1>12,
     <1>13, <1>14, <1>15 DEF RequestStart, RequestStep, DraftGate, RecoveryGate

(* A step of a worker keeps the types: a refund never takes a counter      *)
(* below zero, because its row is locked since the count was seen positive.*)
LEMMA WorkerType ==
  ASSUME TypeOK, RefundLocked, NEW w \in Workers,
         \/ WorkerStep(w) \/ WorkerDies(w)
         \/ \E s \in Ids : Deliver(w, s)
  PROVE  TypeOK'
<1> USE ProcsAssumption, NoneAssumption, UnchangedType DEF TypeOK
<1>w. w \notin Requests
  OBVIOUS
<1>e. End(w) => ExecutionsOK' /\ holds' \in [Procs -> SUBSET Locks]
  BY EndType
<1>q. ExecutionsOK' /\ RowsOK' /\ WorldOK' /\ holds' \in [Procs -> SUBSET Locks] => TypeOK'
  BY DEF ExecutionsOK
<1>i. ASSUME pc[w] # "idle"
      PROVE  loc[w] \in Locals /\ loc[w].id \in Ids /\ loc[w].chapter \in Chapters
  BY <1>i DEF ArgumentsOK
<1>a. ASSUME pc[w] # "idle", NEW label \in WorkerPCs \ {"idle"},
             label \in GradedPCs => pc[w] \in GradedPCs, Goto(w, label), loc' = loc
      PROVE  ExecutionsOK'
  <2>1. Fits(w, label, loc[w])
    BY <1>a, <1>w DEF Fits, ArgumentsOK
  <2> QED BY <1>a, <2>1, GotoType
<1>l. ASSUME pc[w] # "idle",
             NEW lock \in {SubmissionRow(loc[w].id), EvaluationKey(loc[w].id),
                           ProgressRow(loc[w].chapter), DraftRow(loc[w].chapter),
                           ActivityRow(loc[w].born)},
             Lock(w, lock)
      PROVE  holds' \in [Procs -> SUBSET Locks]
  <2>1. lock \in Locks
    BY <1>l, <1>i DEF SubmissionRow, EvaluationKey, ProgressRow, DraftRow, ActivityRow,
                      Locks, Locals
  <2> QED BY <1>l, <2>1, LockType
<1>1. ASSUME NEW s \in Ids, Deliver(w, s) PROVE TypeOK'
  <2>1. WorldOK'
    BY <1>1 DEF Deliver, WorldOK
  <2>2. CASE submission[s].status = "evaluating"
    <3> DEFINE x == About(s, submission[s].chapter, submission[s].born)
    <3>1. submission[s].chapter \in Chapters /\ submission[s].born \in Days
      BY <2>2 DEF RowsOK, SubmissionRows
    <3>2. x \in Locals /\ x.id = s /\ x.chapter \in Chapters
      BY <3>1, AboutType
    <3>3. Fits(w, "grade", x)
      BY <3>2, <1>w DEF Fits, WorkerPCs, GradedPCs
    <3>4. Goto(w, "grade") /\ loc' = [loc EXCEPT ![w] = x]
      BY <1>1, <2>2 DEF Deliver
    <3>5. ExecutionsOK'
      BY <3>3, <3>4, MoveType
    <3> QED BY <1>1, <1>q, <2>1, <3>5 DEF Deliver
  <2>3. CASE submission[s].status # "evaluating"
    BY <1>1, <2>1, <2>3 DEF Deliver, ControlOK, ArgumentsOK
  <2> QED BY <2>2, <2>3
<1>2. CASE Grade(w)
  <2>1. PICK v \in Verdict : loc' = [loc EXCEPT ![w].verdict = v]
    BY <1>2 DEF Grade
  <2> DEFINE x == [loc[w] EXCEPT !.verdict = v]
  <2>2. x \in Locals /\ x.id = loc[w].id /\ x.chapter = loc[w].chapter /\ x.verdict = v
    BY DEF Locals
  <2>3. Fits(w, "store", x)
    BY <1>2, <1>w, <1>i, <2>2 DEF Grade, Fits, WorkerPCs, GradedPCs
  <2>4. loc' = [loc EXCEPT ![w] = x]
    BY <2>1
  <2> QED BY <1>2, <1>q, <2>3, <2>4, MoveType DEF Grade
<1>3. CASE StoreEvaluation(w)
  BY <1>3, <1>q, <1>a, <1>l DEF StoreEvaluation, WorkerPCs, GradedPCs
<1>4. CASE MarkEvaluated(w)
  BY <1>4, <1>q, <1>a, <1>l DEF MarkEvaluated, WorkerPCs, GradedPCs
<1>5. CASE ReadStatus(w)
  <2> DEFINE seen == progress[loc[w].chapter].status
             x == [loc[w] EXCEPT !.seen = seen]
             label == IF seen = "passed" THEN "finish" ELSE "apply"
  <2>1. seen \in ChapterStatus /\ pc[w] \in GradedPCs
    BY <1>5, <1>i DEF ReadStatus, RowsOK, ProgressRows, GradedPCs
  <2>2. x \in Locals /\ x.id = loc[w].id /\ x.chapter = loc[w].chapter
        /\ x.verdict = loc[w].verdict
    BY <2>1 DEF Locals
  <2>3. label \in WorkerPCs \ {"idle"}
    BY DEF WorkerPCs, GradedPCs
  <2>4. Fits(w, label, x)
    BY <1>5, <1>w, <1>i, <2>1, <2>2, <2>3 DEF ReadStatus, Fits, ArgumentsOK
  <2>5. Goto(w, label) /\ loc' = [loc EXCEPT ![w] = x]
    BY <1>5 DEF ReadStatus
  <2>6. ExecutionsOK'
    BY <2>4, <2>5, MoveType
  <2> QED BY <1>5, <1>q, <2>6 DEF ReadStatus
<1>6. CASE ApplyResult(w)
  BY <1>6, <1>q, <1>a, <1>l DEF ApplyResult, WorkerPCs, GradedPCs
<1>7. CASE RegisterApproval(w)
  <2>1. holds' \in [Procs -> SUBSET Locks]
    BY <1>7, <1>l DEF RegisterApproval
  <2> QED BY <1>7, <1>q, <1>a, <2>1 DEF RegisterApproval, WorkerPCs, GradedPCs
<1>8. CASE DiscardDraft(w)
  <2>1. holds' \in [Procs -> SUBSET Locks]
    BY <1>8, <1>l DEF DiscardDraft
  <2> QED BY <1>8, <1>q, <1>a, <2>1 DEF DiscardDraft, WorkerPCs, GradedPCs
<1>9. CASE CommitVerdict(w)
  <2>1. loc[w] \in Locals /\ loc[w].id \in Ids /\ loc[w].verdict \in Verdict
    BY <1>9, <1>i DEF CommitVerdict, ArgumentsOK, GradedPCs
  <2>2. evaluation' \in [Ids -> Verdict \cup {None}]
    BY <1>9, <2>1 DEF CommitVerdict, RowsOK
  <2>3. submission' \in [Ids -> SubmissionRows]
        /\ \A s \in Ids :
             submission'[s].status = "evaluating" => submission'[s].chapter \in Chapters
    <3>1. submission' = [submission EXCEPT ![loc[w].id].status = "evaluated"]
      BY <1>9 DEF CommitVerdict
    <3>2. "evaluated" \in SubmissionStatus \ {"evaluating"}
      BY DEF SubmissionStatus
    <3> QED BY <2>1, <3>1, <3>2, SetStatusType
  <2>4. progress' \in [Chapters -> ProgressRows]
    <3>1. \A c \in Chapters : Advanced(progress[c], w) \in ProgressRows
      BY <2>1 DEF Advanced, resolve_status_after_evaluation, next_status_for, RowsOK,
                  ProgressRows, ChapterStatus, Locals
    <3> QED BY <1>9, <3>1 DEF CommitVerdict, RowsOK
  <2>5. activity' \in [Days -> ActivityRows]
    BY <1>9 DEF CommitVerdict, RowsOK, ActivityRows
  <2>6. draft' \in [Chapters -> BOOLEAN]
    BY <1>9 DEF CommitVerdict
  <2>7. RowsOK'
    BY <2>2, <2>3, <2>4, <2>5, <2>6 DEF RowsOK
  <2> QED BY <1>9, <1>q, <1>e, <2>7 DEF CommitVerdict
<1>10. CASE EvaluationRaises(w)
  <2>1. pc[w] # "idle"
    BY <1>10 DEF EvaluationRaises, GradedPCs
  <2>2. ExecutionsOK'
    BY <1>10, <1>a, <2>1 DEF EvaluationRaises, WorkerPCs, FailurePCs, GradedPCs
  <2>3. WorldOK' /\ RowsOK' /\ holds' \in [Procs -> SUBSET Locks]
    BY <1>10 DEF EvaluationRaises, WorldOK
  <2> QED BY <1>q, <2>2, <2>3
<1>11. CASE ReadFailed(w)
  BY <1>11, <1>q, <1>a, <1>e DEF ReadFailed, WorkerPCs, FailurePCs, GradedPCs
<1>12. CASE MarkFailed(w)
  BY <1>12, <1>q, <1>a, <1>l DEF MarkFailed, WorkerPCs, FailurePCs, GradedPCs
<1>13. CASE WithdrawSubmission(w)
  <2>1. holds' \in [Procs -> SUBSET Locks]
    BY <1>13, <1>l DEF WithdrawSubmission
  <2> QED BY <1>13, <1>q, <1>a, <2>1 DEF WithdrawSubmission, WorkerPCs, FailurePCs, GradedPCs
<1>14. CASE CommitFailure(w)
  <2>1. loc[w].id \in Ids
    BY <1>14, <1>i DEF CommitFailure
  <2>2. submission' \in [Ids -> SubmissionRows]
        /\ \A s \in Ids :
             submission'[s].status = "evaluating" => submission'[s].chapter \in Chapters
    <3>1. submission' = [submission EXCEPT ![loc[w].id].status = "failed"]
      BY <1>14 DEF CommitFailure
    <3>2. "failed" \in SubmissionStatus \ {"evaluating"}
      BY DEF SubmissionStatus
    <3> QED BY <2>1, <3>1, <3>2, SetStatusType
  <2>3. \A d \in Days : ActivityRow(d) \in holds[w] => activity[d].count > 0
    BY <1>14 DEF CommitFailure, RefundLocked
  <2>4. activity' \in [Days -> ActivityRows]
    BY <1>14, <2>3 DEF CommitFailure, RowsOK, ActivityRows
  <2>5. RowsOK'
    BY <1>14, <2>2, <2>4 DEF CommitFailure, RowsOK
  <2> QED BY <1>14, <1>q, <1>e, <2>5 DEF CommitFailure
<1>15. CASE WorkerDies(w)
  <2>1. WorldOK'
    BY <1>15, <1>i DEF WorkerDies, WorldOK
  <2> QED BY <1>15, <1>q, <1>e, <2>1 DEF WorkerDies
<1> QED
  BY <1>1, <1>2, <1>3, <1>4, <1>5, <1>6, <1>7, <1>8, <1>9, <1>10, <1>11, <1>12,
     <1>13, <1>14, <1>15 DEF WorkerStep

-----------------------------------------------------------------------------
(* What a step of one execution leaves alone: the labels, the memory and   *)
(* the locks of the others; and a lock it takes was free.                  *)

RequestActs(r) == RequestStart(r) \/ RequestStep(r) \/ InvokeFails(r) \/ RequestDies(r)
WorkerActs(w)  == WorkerStep(w) \/ WorkerDies(w) \/ \E s \in Ids : Deliver(w, s)
Acts(p) == (p \in Requests /\ RequestActs(p)) \/ (p \in Workers /\ WorkerActs(p))

OthersWait(p) ==
    \A q \in Procs \ {p} : pc'[q] = pc[q] /\ loc'[q] = loc[q] /\ holds'[q] = holds[q]

TakesFreeLock(p) ==
    \A q \in Procs \ {p} : holds'[p] \cap holds[q] = {}

LEMMA EndLocal ==
  ASSUME TypeOK, NEW p \in Procs, End(p)
  PROVE  OthersWait(p) /\ holds'[p] = {} /\ pc'[p] = "idle"
  BY DEF TypeOK, ControlOK, End, Goto, OthersWait

LEMMA LockLocal ==
  ASSUME TypeOK, LocksExclusive, NEW p \in Procs, NEW lock, Lock(p, lock)
  PROVE  /\ \A q \in Procs \ {p} : holds'[q] = holds[q]
         /\ holds'[p] = holds[p] \cup {lock}
         /\ TakesFreeLock(p)
  BY DEF TypeOK, Lock, Free, LocksExclusive, TakesFreeLock

LEMMA RequestLocal ==
  ASSUME TypeOK, LocksExclusive, NEW r \in Requests, RequestActs(r)
  PROVE  OthersWait(r) /\ TakesFreeLock(r)
<1> USE DEF TypeOK, ControlOK
<1>e. End(r) => OthersWait(r) /\ TakesFreeLock(r)
  BY EndLocal DEF TakesFreeLock
<1>g. ASSUME NEW label, NEW x, Goto(r, label), loc' = [loc EXCEPT ![r] = x] \/ loc' = loc,
             holds' = holds \/ holds' = [holds EXCEPT ![r] = {}]
      PROVE  OthersWait(r) /\ TakesFreeLock(r)
  BY <1>g DEF Goto, OthersWait, TakesFreeLock, LocksExclusive
<1>l. ASSUME NEW label, NEW lock, Goto(r, label), loc' = loc, Lock(r, lock)
      PROVE  OthersWait(r) /\ TakesFreeLock(r)
  BY <1>l, LockLocal DEF Goto, OthersWait
<1>1. CASE RequestStart(r)
  BY <1>1, <1>g DEF RequestStart, SubmitGate, DraftGate, RecoveryGate
<1>2. CASE SubmitClock(r) \/ ReadAttempt(r) \/ CommitSubmission(r)
  BY <1>2, <1>g DEF SubmitClock, ReadAttempt, CommitSubmission
<1>3. CASE RegisterSubmission(r) \/ InsertSubmission(r)
  BY <1>3, <1>l DEF RegisterSubmission, InsertSubmission
<1>4. CASE \/ DailyLimitReached(r) \/ InsertConflicts(r) \/ Invoke(r) \/ SaveDraft(r)
           \/ SetRecovery(r) \/ InvokeFails(r) \/ RequestDies(r)
  BY <1>4, <1>e DEF DailyLimitReached, InsertConflicts, Invoke, SaveDraft, SetRecovery,
                    InvokeFails, RequestDies
<1> QED
  BY <1>1, <1>2, <1>3, <1>4 DEF RequestActs, RequestStep

LEMMA WorkerLocal ==
  ASSUME TypeOK, LocksExclusive, NEW w \in Workers, WorkerActs(w)
  PROVE  OthersWait(w) /\ TakesFreeLock(w)
<1> USE DEF TypeOK, ControlOK
<1>e. End(w) => OthersWait(w) /\ TakesFreeLock(w)
  BY EndLocal DEF TakesFreeLock
<1>g. ASSUME NEW label, NEW x, Goto(w, label), loc' = [loc EXCEPT ![w] = x] \/ loc' = loc,
             holds' = holds \/ holds' = [holds EXCEPT ![w] = {}]
      PROVE  OthersWait(w) /\ TakesFreeLock(w)
  BY <1>g DEF Goto, OthersWait, TakesFreeLock, LocksExclusive
<1>l. ASSUME NEW label, NEW lock, Goto(w, label), loc' = loc, Lock(w, lock)
      PROVE  OthersWait(w) /\ TakesFreeLock(w)
  BY <1>l, LockLocal DEF Goto, OthersWait
<1>1. ASSUME NEW s \in Ids, Deliver(w, s) PROVE OthersWait(w) /\ TakesFreeLock(w)
  <2>1. CASE submission[s].status = "evaluating"
    BY <1>1, <1>g, <2>1 DEF Deliver
  <2>2. CASE submission[s].status # "evaluating"
    BY <1>1, <2>2 DEF Deliver, OthersWait, TakesFreeLock, LocksExclusive
  <2> QED BY <2>1, <2>2
<1>2. CASE Grade(w) \/ ReadStatus(w) \/ EvaluationRaises(w)
  BY <1>2, <1>g DEF Grade, ReadStatus, EvaluationRaises
<1>3. CASE StoreEvaluation(w) \/ MarkEvaluated(w) \/ ApplyResult(w) \/ MarkFailed(w)
  BY <1>3, <1>l DEF StoreEvaluation, MarkEvaluated, ApplyResult, MarkFailed
<1>4. CASE RegisterApproval(w) \/ DiscardDraft(w) \/ WithdrawSubmission(w)
  BY <1>4, <1>l, <1>g DEF RegisterApproval, DiscardDraft, WithdrawSubmission
<1>5. CASE CommitVerdict(w) \/ CommitFailure(w) \/ WorkerDies(w)
  BY <1>5, <1>e DEF CommitVerdict, CommitFailure, WorkerDies
<1>6. CASE ReadFailed(w)
  BY <1>6, <1>e, <1>g DEF ReadFailed
<1> QED
  BY <1>1, <1>2, <1>3, <1>4, <1>5, <1>6 DEF WorkerActs, WorkerStep

(* So the locks stay exclusive.                                            *)
LEMMA LocksStep ==
  ASSUME TypeOK, LocksExclusive, NEW p \in Procs, Acts(p)
  PROVE  LocksExclusive'
  BY RequestLocal, WorkerLocal DEF Acts, LocksExclusive, OthersWait, TakesFreeLock

-----------------------------------------------------------------------------
(* The daily counter.                                                      *)

LEMMA LocksDiffer ==
  ASSUME NEW d, NEW e, NEW s
  PROVE  /\ ActivityRow(d) = ActivityRow(e) => d = e
         /\ ActivityRow(d) # SubmissionRow(s)
  BY DEF ActivityRow, SubmissionRow

(* Only the holder of its row changes a counter; it raises it below the    *)
(* limit, or lowers it.                                                    *)
LEMMA CounterStep ==
  ASSUME CounterInv, NEW p \in Procs, Acts(p), NEW d \in Days
  PROVE  /\ \/ activity'[d].row = activity[d].row /\ activity'[d].count = activity[d].count
            \/ ActivityRow(d) \in holds[p] /\ holds'[p] = {} /\ activity'[d].row
         /\ activity'[d].count <= DAILY_SUBMISSION_LIMIT
         /\ ~activity'[d].row => activity'[d].count = 0
<1> USE DEF CounterInv, TypeOK, RowsOK
<1>1. CASE activity' = activity
  BY <1>1 DEF DailyCap, CountedRows
<1>2. CASE p \in Requests /\ CommitSubmission(p)
  <2>1. ActivityRow(loc[p].day) \in holds[p] /\ UnderLimit(loc[p].day) /\ loc[p].day \in Days
    BY <1>2 DEF CommitSubmission, TickLocked, TickPending, Locals
  <2>2. holds'[p] = {}
    BY <1>2 DEF CommitSubmission
  <2>3. CASE d = loc[p].day
    <3>1. activity'[d].row /\ activity'[d].count = activity[d].count + 1
      BY <1>2, <2>3 DEF CommitSubmission
    <3>2. activity[d].count < DAILY_SUBMISSION_LIMIT /\ activity[d].count \in Nat
      BY <2>1, <2>3, BoundsAssumption DEF UnderLimit, CountedRows, ActivityRows
    <3>3. activity'[d].count <= DAILY_SUBMISSION_LIMIT
      BY <3>1, <3>2, BoundsAssumption
    <3>4. ActivityRow(d) \in holds[p]
      BY <2>1, <2>3
    <3> QED BY <2>2, <3>1, <3>3, <3>4
  <2>4. CASE d # loc[p].day
    BY <1>2, <2>4 DEF CommitSubmission, DailyCap, CountedRows
  <2> QED BY <2>3, <2>4
<1>3. CASE p \in Workers /\ CommitVerdict(p)
  <2>1. activity'[d].row = activity[d].row /\ activity'[d].count = activity[d].count
    BY <1>3 DEF CommitVerdict, ActivityRows
  <2> QED BY <2>1 DEF DailyCap, CountedRows
<1>4. CASE p \in Workers /\ CommitFailure(p)
  <2>1. CASE ActivityRow(d) \in holds[p]
    <3>1. activity[d].count > 0 /\ activity[d].count \in Nat
      BY <1>4, <2>1 DEF CommitFailure, RefundLocked, ActivityRows
    <3>2. activity'[d].row = activity[d].row /\ activity'[d].count = activity[d].count - 1
      BY <1>4, <2>1 DEF CommitFailure, ActivityRows
    <3>3. activity[d].row /\ holds'[p] = {}
      BY <1>4, <3>1, EndLocal DEF CommitFailure, CountedRows
    <3> QED BY <2>1, <3>1, <3>2, <3>3, BoundsAssumption DEF DailyCap
  <2>2. CASE ActivityRow(d) \notin holds[p]
    BY <1>4, <2>2 DEF CommitFailure, DailyCap, CountedRows
  <2> QED BY <2>1, <2>2
<1>5. \/ activity' = activity
      \/ p \in Requests /\ CommitSubmission(p)
      \/ p \in Workers /\ (CommitVerdict(p) \/ CommitFailure(p))
  <2>1. CASE p \in Requests /\ RequestActs(p)
    BY <2>1 DEF RequestActs, RequestStart, RequestStep, SubmitGate, DraftGate, RecoveryGate,
                SubmitClock, RegisterSubmission, DailyLimitReached, ReadAttempt,
                InsertSubmission, InsertConflicts, Invoke, InvokeFails, RequestDies,
                SaveDraft, SetRecovery, rows
  <2>2. CASE p \in Workers /\ WorkerActs(p)
    BY <2>2 DEF WorkerActs, WorkerStep, Deliver, Grade, StoreEvaluation, MarkEvaluated,
                ReadStatus, ApplyResult, RegisterApproval, DiscardDraft, EvaluationRaises,
                ReadFailed, MarkFailed, WithdrawSubmission, WorkerDies, rows
  <2> QED BY <2>1, <2>2 DEF Acts
<1> QED
  BY <1>1, <1>2, <1>3, <1>4, <1>5

LEMMA TickStep ==
  ASSUME CounterInv, NEW p \in Procs, Acts(p)
  PROVE  TickLocked'
<1> USE ProcsAssumption DEF CounterInv
<1>0. OthersWait(p)
  BY RequestLocal, WorkerLocal DEF Acts
<1> SUFFICES ASSUME NEW r \in Requests, TickPending(r)'
             PROVE  (ActivityRow(loc[r].day) \in holds[r] /\ UnderLimit(loc[r].day))'
  BY DEF TickLocked
<1>1. CASE p # r
  <2>1. loc'[r] = loc[r] /\ pc'[r] = pc[r] /\ holds'[r] = holds[r]
    BY <1>0, <1>1 DEF OthersWait
  <2>2. ActivityRow(loc[r].day) \in holds[r] /\ UnderLimit(loc[r].day)
    BY <2>1 DEF TickLocked, TickPending
  <2>3. ActivityRow(loc[r].day) \notin holds[p] /\ loc[r].day \in Days
    BY <1>1, <2>2 DEF LocksExclusive, TypeOK, Locals
  <2>4. activity'[loc[r].day].row = activity[loc[r].day].row
        /\ activity'[loc[r].day].count = activity[loc[r].day].count
    BY <2>3, CounterStep
  <2> QED BY <2>1, <2>2, <2>4 DEF UnderLimit
<1>2. CASE p = r
  <2>1. pc' \in [Procs -> RequestPCs \cup WorkerPCs] /\ RequestActs(r)
    BY <1>2, RequestType DEF Acts, RequestActs, TypeOK, ControlOK
  <2>e. ~End(r)
    BY EndLocal DEF TickPending
  <2>2. CASE RegisterSubmission(r)
    <3>1. ActivityRow(loc[r].day) \in holds'[r]
      BY <2>2, LockLocal DEF RegisterSubmission
    <3> QED BY <2>2, <3>1 DEF RegisterSubmission, UnderLimit, rows
  <2>3. CASE ReadAttempt(r)
    <3>1. PICK n \in {1} \cup {submission[s].attempt + 1 : s \in Of(loc[r].chapter)} :
            loc' = [loc EXCEPT ![r].attempt = n]
      BY <2>3 DEF ReadAttempt
    <3>2. loc'[r].day = loc[r].day
      BY <3>1 DEF TypeOK, Locals
    <3>3. ActivityRow(loc[r].day) \in holds[r] /\ UnderLimit(loc[r].day)
      BY <2>3 DEF ReadAttempt, TickLocked, TickPending
    <3> QED BY <2>3, <3>2, <3>3 DEF ReadAttempt, UnderLimit, rows
  <2>4. CASE InsertSubmission(r)
    <3>1. ActivityRow(loc[r].day) \in holds[r] /\ UnderLimit(loc[r].day)
      BY <2>4 DEF InsertSubmission, TickLocked, TickPending
    <3>2. holds[r] \subseteq holds'[r]
      BY <2>4, LockLocal DEF InsertSubmission
    <3> QED BY <2>4, <3>1, <3>2 DEF InsertSubmission, UnderLimit, rows
  <2>5. ASSUME NEW label \in {"clock", "register", "invoke", "draft", "recovery"}, Goto(r, label)
        PROVE  FALSE
    BY <2>5 DEF Goto, TypeOK, ControlOK, TickPending
  <2> QED
    BY <2>1, <2>e, <2>2, <2>3, <2>4, <2>5
    DEF RequestActs, RequestStart, RequestStep, SubmitGate, DraftGate, RecoveryGate,
        SubmitClock, DailyLimitReached, InsertConflicts, CommitSubmission, Invoke,
        SaveDraft, SetRecovery, InvokeFails, RequestDies
<1> QED
  BY <1>1, <1>2

LEMMA RefundStep ==
  ASSUME CounterInv, NEW p \in Procs, Acts(p)
  PROVE  RefundLocked'
<1> USE ProcsAssumption DEF CounterInv
<1>0. OthersWait(p)
  BY RequestLocal, WorkerLocal DEF Acts
<1> DEFINE Safe(w) ==
      /\ pc[w] \in {"failure", "mark_failed", "withdraw"} =>
            \A d \in Days : ActivityRow(d) \notin holds[w]
      /\ pc[w] = "finish_failure" =>
            \A d \in Days : ActivityRow(d) \in holds[w] => activity[d].count > 0
<1> SUFFICES ASSUME NEW w \in Workers PROVE Safe(w)'
  BY DEF RefundLocked
<1>1. CASE p # w
  <2>1. pc'[w] = pc[w] /\ holds'[w] = holds[w]
    BY <1>0, <1>1 DEF OthersWait
  <2>2. \A d \in Days : ActivityRow(d) \in holds[w] => activity'[d].count = activity[d].count
    BY <1>1, CounterStep DEF LocksExclusive
  <2> QED BY <2>1, <2>2 DEF RefundLocked
<1>2. CASE p = w
  <2>1. WorkerActs(w)
    BY <1>2 DEF Acts
  <2>e. CASE End(w)
    BY <2>e, EndLocal
  <2>2. CASE EvaluationRaises(w)
    BY <2>2 DEF EvaluationRaises, Goto, TypeOK, ControlOK
  <2>3. CASE ReadFailed(w)
    <3>1. CASE End(w)
      BY <2>e, <3>1
    <3>2. CASE ~End(w)
      BY <2>3, <3>2 DEF ReadFailed, RefundLocked, Goto, TypeOK, ControlOK
    <3> QED BY <3>1, <3>2
  <2>4. CASE MarkFailed(w)
    <3>1. holds'[w] = holds[w] \cup {SubmissionRow(loc[w].id)} /\ pc'[w] = "withdraw"
      BY <2>4, LockLocal DEF MarkFailed, Goto, TypeOK, ControlOK
    <3>2. \A d \in Days : ActivityRow(d) \notin holds[w]
      BY <2>4 DEF MarkFailed, RefundLocked
    <3> QED BY <3>1, <3>2, LocksDiffer
  <2>5. CASE WithdrawSubmission(w)
    <3>1. pc'[w] = "finish_failure" /\ activity' = activity
      BY <2>5 DEF WithdrawSubmission, Goto, TypeOK, ControlOK, rows
    <3>2. \A d \in Days : ActivityRow(d) \notin holds[w]
      BY <2>5 DEF WithdrawSubmission, RefundLocked
    <3>3. CASE activity[loc[w].born].count > 0
      <4>1. holds'[w] = holds[w] \cup {ActivityRow(loc[w].born)}
        BY <2>5, <3>3, LockLocal DEF WithdrawSubmission
      <4> QED BY <3>1, <3>2, <3>3, <4>1, LocksDiffer
    <3>4. CASE ~(activity[loc[w].born].count > 0)
      BY <2>5, <3>1, <3>2, <3>4 DEF WithdrawSubmission
    <3> QED BY <3>3, <3>4
  <2>6. ASSUME NEW label \in {"grade"} \cup GradedPCs, Goto(w, label)
        PROVE  Safe(w)'
    BY <2>6 DEF Goto, TypeOK, ControlOK, GradedPCs
  <2>7. ASSUME NEW s \in Ids, Deliver(w, s) PROVE Safe(w)'
    <3>1. CASE submission[s].status = "evaluating"
      BY <2>6, <2>7, <3>1 DEF Deliver
    <3>2. CASE submission[s].status # "evaluating"
      BY <2>7, <3>2 DEF Deliver
    <3> QED BY <3>1, <3>2
  <2>8. CASE \/ Grade(w) \/ StoreEvaluation(w) \/ MarkEvaluated(w) \/ ReadStatus(w)
             \/ ApplyResult(w) \/ RegisterApproval(w) \/ DiscardDraft(w)
    BY <2>8, <2>6 DEF Grade, StoreEvaluation, MarkEvaluated, ReadStatus, ApplyResult,
                      RegisterApproval, DiscardDraft, GradedPCs
  <2>9. CASE CommitVerdict(w) \/ CommitFailure(w) \/ WorkerDies(w)
    BY <2>9, <2>e DEF CommitVerdict, CommitFailure, WorkerDies
  <2> QED
    BY <2>1, <2>2, <2>3, <2>4, <2>5, <2>7, <2>8, <2>9 DEF WorkerActs, WorkerStep
<1> QED
  BY <1>1, <1>2

-----------------------------------------------------------------------------
(* The counter invariant is inductive.                                     *)

LEMMA CounterInit == Init => CounterInv
<1> SUFFICES ASSUME Init PROVE CounterInv
  OBVIOUS
<1>1. TypeOK
  BY InitType
<1>2. LocksExclusive /\ TickLocked /\ RefundLocked
  BY DEF Init, LocksExclusive, TickLocked, TickPending, RefundLocked
<1>3. CountedRows /\ DailyCap
  BY BoundsAssumption DEF Init, CountedRows, DailyCap
<1> QED
  BY <1>1, <1>2, <1>3 DEF CounterInv

LEMMA CounterNext == CounterInv /\ [Next]_vars => CounterInv'
<1> SUFFICES ASSUME CounterInv, [Next]_vars PROVE CounterInv'
  OBVIOUS
<1>1. ASSUME NEW p \in Procs, Acts(p) PROVE CounterInv'
  <2>1. TypeOK'
    BY <1>1, RequestType, WorkerType DEF Acts, RequestActs, WorkerActs, CounterInv
  <2>2. LocksExclusive' /\ TickLocked' /\ RefundLocked'
    BY <1>1, LocksStep, TickStep, RefundStep DEF CounterInv
  <2>3. CountedRows' /\ DailyCap'
    BY <1>1, CounterStep DEF CountedRows, DailyCap
  <2> QED BY <2>1, <2>2, <2>3 DEF CounterInv
<1>2. CASE Midnight \/ (\E s \in Ids : Duplicate(s)) \/ UNCHANGED vars
  <2>1. UNCHANGED <<rows, pc, holds, loc>>
    BY <1>2 DEF Midnight, Duplicate, vars
  <2>2. WorldOK'
    BY <1>2, BoundsAssumption
    DEF CounterInv, TypeOK, WorldOK, Midnight, Duplicate, vars, world
  <2>3. TypeOK'
    BY <2>1, <2>2 DEF CounterInv, TypeOK, RowsOK, ControlOK, ArgumentsOK, rows
  <2>4. LocksExclusive' /\ TickLocked' /\ RefundLocked' /\ CountedRows' /\ DailyCap'
    BY <2>1 DEF CounterInv, LocksExclusive, TickLocked, TickPending, UnderLimit,
                RefundLocked, CountedRows, DailyCap, rows
  <2> QED BY <2>3, <2>4 DEF CounterInv
<1> QED
  BY <1>1, <1>2 DEF Next, Acts, RequestActs, WorkerActs

LEMMA CounterInvariant == Spec => []CounterInv
<1> QED
  BY CounterInit, CounterNext, PTL DEF Spec

(* Whatever the requests, failures, crashes and redeliveries, every row    *)
(* keeps its type; in particular no refund takes a daily counter below     *)
(* zero (withdraw_submission).                                             *)
THEOREM TypeCorrect == Spec => []TypeOK
<1>1. CounterInv => TypeOK
  BY DEF CounterInv
<1> QED
  BY <1>1, CounterInvariant, PTL

(* The counter that pays for corrections never exceeds the daily limit,    *)
(* for any number of requests racing through register_submission.          *)
THEOREM DailyCapHolds == Spec => []DailyCap
<1>1. CounterInv => DailyCap
  BY DEF CounterInv
<1> QED
  BY <1>1, CounterInvariant, PTL

-----------------------------------------------------------------------------
(* The order in which the executions take their row locks.                 *)

Rank(lock) ==
    CASE lock[1] = "evaluation" -> 1
      [] lock[1] = "submission" -> 2
      [] lock[1] = "progress"   -> 3
      [] lock[1] = "activity"   -> 4
      [] lock[1] = "draft"      -> 5
      [] OTHER                  -> 6

\* The highest rank an execution may hold at a label.
Reached(label) ==
    CASE label = "mark"                -> 1
      [] label \in {"read", "apply", "withdraw"} -> 2
      [] label = "approve"             -> 3
      [] label \in {"attempt", "insert", "discard", "finish_failure"} -> 4
      [] label = "finish"              -> 5
      [] label = "commit"              -> 6
      [] OTHER                         -> 0

LocksInOrder ==
    \A p \in Procs : \A lock \in holds[p] : Rank(lock) <= Reached(pc[p])

LEMMA Ranks ==
  ASSUME NEW x, NEW y
  PROVE  /\ Rank(EvaluationKey(x)) = 1 /\ Rank(SubmissionRow(x)) = 2
         /\ Rank(ProgressRow(x)) = 3   /\ Rank(ActivityRow(x)) = 4
         /\ Rank(DraftRow(x)) = 5      /\ Rank(AttemptKey(x, y)) = 6
  BY DEF Rank, EvaluationKey, SubmissionRow, ProgressRow, ActivityRow, DraftRow, AttemptKey

LEMMA RanksBounded ==
  ASSUME NEW lock
  PROVE  Rank(lock) \in 1..6
  BY DEF Rank

(* A step to a label keeps the order when what is held still fits it.      *)
LEMMA OrderMove ==
  ASSUME TypeOK, LocksInOrder, NEW p \in Procs, NEW label, Goto(p, label),
         \A q \in Procs \ {p} : holds'[q] = holds[q],
         \A lock \in holds'[p] : Rank(lock) <= Reached(label)
  PROVE  LocksInOrder'
  BY DEF TypeOK, ControlOK, Goto, LocksInOrder

LEMMA OrderEnd ==
  ASSUME TypeOK, LocksInOrder, NEW p \in Procs, End(p)
  PROVE  LocksInOrder'
  BY EndLocal, OrderMove DEF End, OthersWait

LEMMA OrderGoto ==
  ASSUME TypeOK, LocksInOrder, NEW p \in Procs, NEW label, Goto(p, label),
         holds' = holds, Reached(pc[p]) <= Reached(label)
  PROVE  LocksInOrder'
<1>1. \A lock \in holds'[p] : Rank(lock) <= Reached(label)
  BY RanksBounded DEF LocksInOrder, Reached
<1> QED
  BY <1>1, OrderMove

LEMMA OrderLock ==
  ASSUME TypeOK, LocksExclusive, LocksInOrder, NEW p \in Procs, NEW label, NEW lock,
         Goto(p, label), Lock(p, lock),
         Reached(pc[p]) <= Reached(label), Rank(lock) <= Reached(label)
  PROVE  LocksInOrder'
<1>1. holds'[p] = holds[p] \cup {lock} /\ \A q \in Procs \ {p} : holds'[q] = holds[q]
  BY LockLocal
<1>2. \A k \in holds'[p] : Rank(k) <= Reached(label)
  BY <1>1, RanksBounded DEF LocksInOrder, Reached
<1> QED
  BY <1>1, <1>2, OrderMove

LEMMA OrderRequest ==
  ASSUME TypeOK, LocksExclusive, LocksInOrder, NEW r \in Requests, RequestActs(r)
  PROVE  LocksInOrder'
<1> USE OrderEnd, OrderGoto, OrderLock
<1>1. CASE RequestStart(r)
  BY <1>1 DEF RequestStart, SubmitGate, DraftGate, RecoveryGate, Reached
<1>2. CASE SubmitClock(r) \/ ReadAttempt(r)
  BY <1>2 DEF SubmitClock, ReadAttempt, Reached
<1>3. CASE RegisterSubmission(r) \/ InsertSubmission(r)
  BY <1>3, Ranks DEF RegisterSubmission, InsertSubmission, Reached
<1>4. CASE CommitSubmission(r)
  <2>1. Goto(r, "invoke") /\ holds' = [holds EXCEPT ![r] = {}]
    BY <1>4 DEF CommitSubmission
  <2>2. holds'[r] = {} /\ \A q \in Procs \ {r} : holds'[q] = holds[q]
    BY <2>1 DEF TypeOK
  <2> QED BY <2>1, <2>2, OrderMove
<1>5. CASE \/ DailyLimitReached(r) \/ InsertConflicts(r) \/ Invoke(r) \/ SaveDraft(r)
           \/ SetRecovery(r) \/ InvokeFails(r) \/ RequestDies(r)
  BY <1>5 DEF DailyLimitReached, InsertConflicts, Invoke, SaveDraft, SetRecovery,
                    InvokeFails, RequestDies
<1> QED
  BY <1>1, <1>2, <1>3, <1>4, <1>5 DEF RequestActs, RequestStep

LEMMA OrderWorker ==
  ASSUME TypeOK, LocksExclusive, LocksInOrder, NEW w \in Workers, WorkerActs(w)
  PROVE  LocksInOrder'
<1> USE OrderEnd, OrderGoto, OrderLock
<1>1. ASSUME NEW s \in Ids, Deliver(w, s) PROVE LocksInOrder'
  BY <1>1 DEF Deliver, Reached, LocksInOrder
<1>2. CASE Grade(w) \/ ReadStatus(w)
  BY <1>2 DEF Grade, ReadStatus, Reached
<1>3. CASE StoreEvaluation(w) \/ MarkEvaluated(w) \/ ApplyResult(w) \/ MarkFailed(w)
  BY <1>3, Ranks DEF StoreEvaluation, MarkEvaluated, ApplyResult, MarkFailed, Reached
<1>4. CASE RegisterApproval(w) \/ DiscardDraft(w) \/ WithdrawSubmission(w)
  BY <1>4, Ranks
  DEF RegisterApproval, DiscardDraft, WithdrawSubmission, Reached
<1>5. CASE EvaluationRaises(w)
  <2>1. Goto(w, "failure") /\ holds' = [holds EXCEPT ![w] = {}]
    BY <1>5 DEF EvaluationRaises
  <2>2. holds'[w] = {} /\ \A q \in Procs \ {w} : holds'[q] = holds[q]
    BY <2>1 DEF TypeOK
  <2> QED BY <2>1, <2>2, OrderMove
<1>6. CASE ReadFailed(w)
  BY <1>6 DEF ReadFailed, Reached
<1>7. CASE CommitVerdict(w) \/ CommitFailure(w) \/ WorkerDies(w)
  BY <1>7 DEF CommitVerdict, CommitFailure, WorkerDies
<1> QED
  BY <1>1, <1>2, <1>3, <1>4, <1>5, <1>6, <1>7 DEF WorkerActs, WorkerStep

LEMMA OrderInvariant == Spec => []LocksInOrder
<1>1. Init => LocksInOrder
  BY DEF Init, LocksInOrder
<1>2. CounterInv /\ LocksInOrder /\ [Next]_vars => LocksInOrder'
  <2> SUFFICES ASSUME CounterInv, LocksInOrder, [Next]_vars PROVE LocksInOrder'
    OBVIOUS
  <2>1. ASSUME NEW r \in Requests, RequestActs(r) PROVE LocksInOrder'
    BY <2>1, OrderRequest DEF CounterInv
  <2>2. ASSUME NEW w \in Workers, WorkerActs(w) PROVE LocksInOrder'
    BY <2>2, OrderWorker DEF CounterInv
  <2>3. CASE Midnight \/ (\E s \in Ids : Duplicate(s)) \/ UNCHANGED vars
    BY <2>3 DEF Midnight, Duplicate, vars, LocksInOrder
  <2> QED BY <2>1, <2>2, <2>3 DEF Next, RequestActs, WorkerActs
<1> QED
  BY <1>1, <1>2, CounterInvariant, PTL DEF Spec

(* What an execution waits for ranks above everything it holds.            *)
LEMMA WaitsUpwards ==
  ASSUME LocksInOrder, NEW p \in Procs, NEW lock \in Wanted(p), NEW held \in holds[p]
  PROVE  Rank(held) < Rank(lock)
<1>1. Rank(held) <= Reached(pc[p]) /\ Rank(held) \in 1..6
  BY RanksBounded DEF LocksInOrder
<1>2. Reached(pc[p]) \in 0..6 /\ Reached(pc[p]) < Rank(lock) /\ Rank(lock) \in 1..6
  BY Ranks, RanksBounded DEF Wanted, Reached
<1> QED
  BY <1>1, <1>2

LEMMA OneWanted ==
  ASSUME NEW p \in Procs, NEW j \in Wanted(p), NEW k \in Wanted(p)
  PROVE  j = k
  BY DEF Wanted

LEMMA OrderBreaksCycles ==
  ASSUME LocksInOrder PROVE NoLockCycle
<1> SUFFICES ASSUME NEW S \in (SUBSET Procs) \ {{}},
                    \A p \in S : \E q \in S \ {p} : Wanted(p) \cap holds[q] # {}
             PROVE  FALSE
  BY DEF NoLockCycle
<1> DEFINE Waits(n) == \E p \in S : \E lock \in Wanted(p) : Rank(lock) = n
<1>1. ASSUME NEW n \in 1..6, Waits(n)
      PROVE  \E m \in 1..6 : m > n /\ Waits(m)
  <2>1. PICK p \in S : \E lock \in Wanted(p) : Rank(lock) = n
    BY <1>1
  <2>2. PICK q \in S \ {p} : Wanted(p) \cap holds[q] # {}
    OBVIOUS
  <2>3. PICK held \in holds[q] : held \in Wanted(p)
    BY <2>2
  <2>4. Rank(held) = n
    BY <2>1, <2>3, OneWanted
  <2>5. PICK lock \in Wanted(q) : TRUE
    OBVIOUS
  <2>6. Rank(held) < Rank(lock) /\ Rank(lock) \in 1..6
    BY <2>3, <2>5, WaitsUpwards, RanksBounded
  <2> QED BY <2>4, <2>5, <2>6
<1>2. PICK n \in 1..6 : Waits(n)
  <2>1. PICK p \in S : TRUE
    OBVIOUS
  <2>2. PICK lock \in Wanted(p) : TRUE
    BY <2>1
  <2> QED BY <2>1, <2>2, RanksBounded
<1> HIDE DEF Waits
<1> QED
  BY <1>1, <1>2

(* No set of executions of the correction game waits on itself, for any    *)
(* number of requests and workers and also when executions of one event    *)
(* overlap: every transaction takes its row locks in one order             *)
(* (evaluate_submission.py, submit_argument.py,                            *)
(* record_evaluation_failure.py), so PostgreSQL never has to break a       *)
(* deadlock between them.                                                  *)
THEOREM NoLockCycleHolds == Spec => []NoLockCycle
  BY OrderBreaksCycles, OrderInvariant, PTL

-----------------------------------------------------------------------------
(* The life of one submission.                                             *)

(* Who works on what.                                                      *)

FreshIds ==
    \A r \in Requests : pc[r] \in SubmitPCs \ {"invoke"} => ~Exists(loc[r].id)

RequestsApart ==
    \A r, q \in Requests : r # q /\ loc[r].id \in Ids => loc[r].id # loc[q].id

\* What a worker remembers of its submission is still what the row says.
Known ==
    \A w \in Workers : pc[w] # "idle" =>
        LET s == loc[w].id
        IN  /\ Exists(s)
            /\ submission[s].chapter = loc[w].chapter
            /\ submission[s].born = loc[w].born

IdsInv == TypeOK /\ LocksExclusive /\ FreshIds /\ RequestsApart /\ Known

WorkersApart ==
    \A w, v \in Workers : w # v /\ loc[w].id \in Ids => loc[w].id # loc[v].id

AtWork ==
    \A w \in Workers :
        pc[w] # "idle" => submission[loc[w].id].status = "evaluating"

LifecycleInv == IdsInv /\ WorkersApart /\ AtWork /\ ResultExactlyWhenEvaluated

-----------------------------------------------------------------------------
(* The steps of a request, by what they do to its submission.              *)
LEMMA RequestKinds ==
  ASSUME TypeOK, NEW r \in Requests, RequestActs(r)
  PROVE  /\ evaluation' = evaluation
         /\ \/ End(r) /\ submission' = submission
            \/ /\ submission' = submission /\ pc'[r] = "clock"
               /\ \E s \in Ids : /\ loc'[r].id = s /\ ~Exists(s)
                                 /\ \A q \in Requests : loc[q].id # s
            \/ /\ submission' = submission /\ loc'[r].id = loc[r].id
               /\ pc'[r] \in SubmitPCs \ {"invoke"} => pc[r] \in SubmitPCs \ {"invoke"}
               /\ pc[r] # "invoke"
            \/ CommitSubmission(r) /\ pc'[r] = "invoke" /\ loc' = loc
<1> USE DEF TypeOK, ControlOK
<1>1. ASSUME NEW c \in Chapters, SubmitGate(r, c)
      PROVE  /\ pc'[r] = "clock" /\ submission' = submission /\ evaluation' = evaluation
             /\ \E s \in Ids : /\ loc'[r].id = s /\ ~Exists(s)
                               /\ \A q \in Requests : loc[q].id # s
  <2>1. PICK s \in Ids : /\ loc' = [loc EXCEPT ![r] = About(s, c, today)]
                         /\ ~Exists(s) /\ \A q \in Requests : loc[q].id # s
    BY <1>1 DEF SubmitGate
  <2>2. loc'[r].id = s
    BY <2>1 DEF About
  <2> QED BY <1>1, <2>1, <2>2 DEF SubmitGate, Goto, rows
<1>2. ASSUME NEW c \in Chapters, DraftGate(r, c) \/ RecoveryGate(r, c)
      PROVE  /\ submission' = submission /\ evaluation' = evaluation
             /\ loc'[r].id = loc[r].id /\ pc[r] # "invoke" /\ pc'[r] \notin SubmitPCs
  <2>1. loc'[r].id = loc[r].id
    BY <1>2 DEF DraftGate, RecoveryGate, Locals
  <2> QED BY <1>2, <2>1 DEF DraftGate, RecoveryGate, Goto, SubmitPCs, rows
<1>3. CASE SubmitClock(r) \/ ReadAttempt(r)
  <2>1. loc'[r].id = loc[r].id
    BY <1>3 DEF SubmitClock, ReadAttempt, Locals
  <2> QED BY <1>3, <2>1 DEF SubmitClock, ReadAttempt, Goto, SubmitPCs, rows
<1>4. CASE RegisterSubmission(r) \/ InsertSubmission(r)
  BY <1>4 DEF RegisterSubmission, InsertSubmission, Goto, SubmitPCs, rows
<1>5. CASE CommitSubmission(r)
  <2>1. evaluation' = evaluation /\ pc'[r] = "invoke" /\ loc' = loc
    BY <1>5 DEF CommitSubmission, Goto
  <2> QED BY <1>5, <2>1
<1>6. CASE \/ DailyLimitReached(r) \/ InsertConflicts(r) \/ Invoke(r) \/ SaveDraft(r)
           \/ SetRecovery(r) \/ InvokeFails(r) \/ RequestDies(r)
  BY <1>6 DEF DailyLimitReached, InsertConflicts, Invoke, SaveDraft, SetRecovery,
              InvokeFails, RequestDies, rows
<1> QED
  BY <1>1, <1>2, <1>3, <1>4, <1>5, <1>6 DEF RequestActs, RequestStart, RequestStep

(* The steps of a worker, by what they do to its submission.               *)
LEMMA WorkerKinds ==
  ASSUME TypeOK, NEW w \in Workers, WorkerActs(w)
  PROVE  \/ /\ submission' = submission /\ evaluation' = evaluation
            /\ \/ End(w)
               \/ loc'[w].id = loc[w].id /\ (pc'[w] # "idle" <=> pc[w] # "idle")
               \/ \E s \in Ids : /\ loc'[w].id = s /\ pc'[w] # "idle"
                                 /\ Overlap \/ Idle(s)
                                 /\ submission[s].status = "evaluating"
         \/ CommitVerdict(w) /\ pc[w] \in GradedPCs
         \/ CommitFailure(w) /\ pc[w] # "idle" /\ evaluation' = evaluation
<1> USE DEF TypeOK, ControlOK
<1>1. ASSUME NEW s \in Ids, Deliver(w, s)
      PROVE  /\ submission' = submission /\ evaluation' = evaluation
             /\ \/ loc'[w].id = loc[w].id /\ (pc'[w] # "idle" <=> pc[w] # "idle")
                \/ /\ loc'[w].id = s /\ pc'[w] # "idle"
                   /\ Overlap \/ Idle(s)
                   /\ submission[s].status = "evaluating"
  BY <1>1 DEF Deliver, About, Goto, rows
<1>2. CASE Grade(w) \/ ReadStatus(w)
  <2>1. loc'[w].id = loc[w].id
    BY <1>2 DEF Grade, ReadStatus, Locals
  <2> QED BY <1>2, <2>1 DEF Grade, ReadStatus, Goto, rows
<1>3. CASE \/ StoreEvaluation(w) \/ MarkEvaluated(w) \/ ApplyResult(w) \/ RegisterApproval(w)
           \/ DiscardDraft(w) \/ MarkFailed(w) \/ WithdrawSubmission(w) \/ EvaluationRaises(w)
  BY <1>3 DEF StoreEvaluation, MarkEvaluated, ApplyResult, RegisterApproval, DiscardDraft,
              MarkFailed, WithdrawSubmission, EvaluationRaises, GradedPCs, Goto, rows
<1>4. CASE ReadFailed(w)
  BY <1>4 DEF ReadFailed, Goto, rows
<1>5. CASE WorkerDies(w)
  BY <1>5 DEF WorkerDies, rows
<1>6. CASE CommitVerdict(w)
  BY <1>6 DEF CommitVerdict, GradedPCs
<1>7. CASE CommitFailure(w)
  BY <1>7 DEF CommitFailure
<1> QED
  BY <1>1, <1>2, <1>3, <1>4, <1>5, <1>6, <1>7 DEF WorkerActs, WorkerStep

-----------------------------------------------------------------------------
(* What a statement does to the rows of the submissions.                   *)

LEMMA StatusChange ==
  ASSUME RowsOK, NEW id \in Ids, NEW status,
         submission' = [submission EXCEPT ![id].status = status]
  PROVE  /\ submission'[id].status = status
         /\ \A s \in Ids \ {id} : submission'[s] = submission[s]
         /\ \A s \in Ids : /\ submission'[s].chapter = submission[s].chapter
                           /\ submission'[s].attempt = submission[s].attempt
                           /\ submission'[s].born = submission[s].born
                           /\ submission'[s].charged = submission[s].charged
<1>1. submission'[id] = [submission[id] EXCEPT !.status = status]
  BY DEF RowsOK
<1>2. /\ submission'[id].status = status
      /\ submission'[id].chapter = submission[id].chapter
      /\ submission'[id].attempt = submission[id].attempt
      /\ submission'[id].born = submission[id].born
      /\ submission'[id].charged = submission[id].charged
  BY <1>1 DEF RowsOK, SubmissionRows
<1>3. \A s \in Ids \ {id} : submission'[s] = submission[s]
  BY DEF RowsOK
<1> QED
  BY <1>2, <1>3

LEMMA NewRow ==
  ASSUME TypeOK, FreshIds, NEW r \in Requests, CommitSubmission(r)
  PROVE  /\ pc[r] = "commit" /\ loc[r] \in Locals
         /\ loc[r].id \in Ids /\ loc[r].chapter \in Chapters /\ loc[r].day \in Days
         /\ ~Exists(loc[r].id)
         /\ submission'[loc[r].id].status = "evaluating"
         /\ submission'[loc[r].id].chapter = loc[r].chapter
         /\ submission'[loc[r].id].attempt = loc[r].attempt
         /\ submission'[loc[r].id].born = loc[r].born
         /\ submission'[loc[r].id].charged = loc[r].day
         /\ \A s \in Ids \ {loc[r].id} : submission'[s] = submission[s]
<1>1. pc[r] = "commit"
  BY DEF CommitSubmission
<1>2. loc[r].id \in Ids /\ loc[r].chapter \in Chapters /\ loc[r] \in Locals
  BY <1>1 DEF TypeOK, ArgumentsOK, SubmitPCs
<1>3. loc[r].day \in Days /\ ~Exists(loc[r].id)
  BY <1>1, <1>2 DEF Locals, FreshIds, SubmitPCs
<1>4. /\ submission'[loc[r].id] =
               [status |-> "evaluating", chapter |-> loc[r].chapter,
                attempt |-> loc[r].attempt, born |-> loc[r].born, charged |-> loc[r].day]
      /\ \A s \in Ids \ {loc[r].id} : submission'[s] = submission[s]
  BY <1>2 DEF CommitSubmission, TypeOK, RowsOK
<1> QED
  BY <1>1, <1>2, <1>3, <1>4

(* A worker that ends with a result changes the status of its row alone.   *)
LEMMA RowOfWorker ==
  ASSUME TypeOK, Known, NEW w \in Workers, CommitVerdict(w) \/ CommitFailure(w)
  PROVE  /\ pc[w] # "idle" /\ loc[w] \in Locals
         /\ loc[w].id \in Ids /\ Exists(loc[w].id)
         /\ submission'[loc[w].id].status # "none"
         /\ \A s \in Ids \ {loc[w].id} : submission'[s] = submission[s]
         /\ \A s \in Ids : /\ submission'[s].chapter = submission[s].chapter
                           /\ submission'[s].attempt = submission[s].attempt
                           /\ submission'[s].born = submission[s].born
                           /\ submission'[s].charged = submission[s].charged
<1>1. pc[w] # "idle" /\ loc[w].id \in Ids /\ loc[w] \in Locals
  BY DEF CommitVerdict, CommitFailure, TypeOK, ArgumentsOK
<1>2. PICK status \in {"evaluated", "failed"} :
         submission' = [submission EXCEPT ![loc[w].id].status = status]
  BY DEF CommitVerdict, CommitFailure
<1>3. submission'[loc[w].id].status = status
  BY <1>1, <1>2, StatusChange DEF TypeOK
<1>4. Exists(loc[w].id) /\ submission'[loc[w].id].status # "none"
  BY <1>1, <1>3 DEF Known
<1> QED
  BY <1>1, <1>2, <1>4, StatusChange DEF TypeOK

(* No row disappears, and what identifies it never changes.                *)
RowsKept ==
    \A s \in Ids : Exists(s) =>
        /\ Exists(s)'
        /\ submission'[s].chapter = submission[s].chapter
        /\ submission'[s].attempt = submission[s].attempt
        /\ submission'[s].born = submission[s].born
        /\ submission'[s].charged = submission[s].charged

LEMMA RowsStay ==
  ASSUME IdsInv, NEW p \in Procs, Acts(p)
  PROVE  /\ RowsKept
         /\ \A s \in Ids : Exists(s)' /\ ~Exists(s) =>
                p \in Requests /\ CommitSubmission(p) /\ s = loc[p].id
<1> USE DEF IdsInv
<1>1. CASE submission' = submission
  BY <1>1 DEF RowsKept, Exists
<1>2. CASE p \in Requests /\ CommitSubmission(p)
  BY <1>2, NewRow DEF RowsKept, Exists
<1>3. CASE p \in Workers /\ (CommitVerdict(p) \/ CommitFailure(p))
  BY <1>3, RowOfWorker DEF RowsKept, Exists
<1>4. CASE p \in Requests /\ RequestActs(p)
  BY <1>1, <1>2, <1>4, RequestKinds
<1>5. CASE p \in Workers /\ WorkerActs(p)
  BY <1>1, <1>3, <1>5, WorkerKinds
<1> QED
  BY <1>4, <1>5 DEF Acts

-----------------------------------------------------------------------------
(* A submission has one request, and a worker knows its row: also when     *)
(* executions of one event overlap.                                        *)

LEMMA RequestIds ==
  ASSUME IdsInv, NEW r \in Requests, RequestActs(r)
  PROVE  FreshIds' /\ RequestsApart'
<1> USE ProcsAssumption, NoneAssumption DEF IdsInv
<1>0. OthersWait(r)
  BY RequestLocal
<1>1. CASE End(r) /\ submission' = submission
  <2>1. loc'[r].id \notin Ids /\ pc'[r] = "idle"
    BY <1>1 DEF End, Goto, Blank, About, TypeOK, ControlOK
  <2> QED BY <1>0, <1>1, <2>1 DEF OthersWait, FreshIds, RequestsApart, Exists, SubmitPCs
<1>2. CASE /\ submission' = submission
           /\ \E s \in Ids : /\ loc'[r].id = s /\ ~Exists(s)
                             /\ \A q \in Requests : loc[q].id # s
  BY <1>0, <1>2 DEF OthersWait, FreshIds, RequestsApart, Exists
<1>3. CASE /\ submission' = submission /\ loc'[r].id = loc[r].id
           /\ pc'[r] \in SubmitPCs \ {"invoke"} => pc[r] \in SubmitPCs \ {"invoke"}
  BY <1>0, <1>3 DEF OthersWait, FreshIds, RequestsApart, Exists
<1>4. CASE CommitSubmission(r) /\ pc'[r] = "invoke" /\ loc' = loc
  <2>1. loc[r].id \in Ids /\ \A s \in Ids \ {loc[r].id} : submission'[s] = submission[s]
    BY <1>4, NewRow
  <2> QED
    BY <1>0, <1>4, <2>1 DEF OthersWait, FreshIds, RequestsApart, Exists, TypeOK, ArgumentsOK
<1> QED
  BY <1>1, <1>2, <1>3, <1>4, RequestKinds

LEMMA WorkerIds ==
  ASSUME IdsInv, NEW w \in Workers, WorkerActs(w)
  PROVE  FreshIds' /\ RequestsApart'
<1> USE ProcsAssumption DEF IdsInv
<1>1. OthersWait(w)
  BY WorkerLocal
<1>2. \A s \in Ids : Exists(s)' => Exists(s)
  BY RowsStay DEF Acts
<1> QED
  BY <1>1, <1>2 DEF OthersWait, FreshIds, RequestsApart, TypeOK, ArgumentsOK, SubmitPCs

LEMMA KnownStep ==
  ASSUME IdsInv, NEW p \in Procs, Acts(p)
  PROVE  Known'
<1> USE ProcsAssumption, NoneAssumption DEF IdsInv
<1> DEFINE Knows(w) == /\ Exists(loc[w].id)
                       /\ submission[loc[w].id].chapter = loc[w].chapter
                       /\ submission[loc[w].id].born = loc[w].born
<1> SUFFICES ASSUME NEW w \in Workers, pc'[w] # "idle" PROVE Knows(w)'
  BY DEF Known
<1>0. OthersWait(p) /\ RowsKept
  BY RequestLocal, WorkerLocal, RowsStay DEF Acts
<1>k. ASSUME pc[w] # "idle", loc'[w].id = loc[w].id, loc'[w].chapter = loc[w].chapter,
             loc'[w].born = loc[w].born
      PROVE  Knows(w)'
  <2>1. loc[w].id \in Ids /\ Knows(w)
    BY <1>k DEF TypeOK, ArgumentsOK, Known
  <2>2. Exists(loc[w].id)' <=> submission'[loc'[w].id].status # "none"
    BY DEF Exists
  <2> QED BY <1>0, <1>k, <2>1, <2>2 DEF RowsKept, Exists
<1>1. CASE p # w
  BY <1>0, <1>1, <1>k DEF OthersWait
<1>2. CASE p = w
  <2>1. WorkerActs(w) /\ ~End(w)
    BY <1>2, EndLocal DEF Acts
  <2>2. ASSUME NEW s \in Ids, Deliver(w, s) PROVE Knows(w)'
    <3>1. submission[s].status = "evaluating"
          /\ loc' = [loc EXCEPT ![w] = About(s, submission[s].chapter, submission[s].born)]
      BY <2>2 DEF Deliver
    <3>2. loc'[w].id = s /\ loc'[w].chapter = submission[s].chapter
          /\ loc'[w].born = submission[s].born
      BY <3>1 DEF About, TypeOK
    <3>3. submission' = submission
      BY <2>2 DEF Deliver, rows
    <3> QED BY <3>1, <3>2, <3>3 DEF Exists
  <2>3. CASE Grade(w) \/ ReadStatus(w)
    <3>1. pc[w] # "idle" /\ loc'[w].id = loc[w].id /\ loc'[w].chapter = loc[w].chapter
          /\ loc'[w].born = loc[w].born
      BY <2>3 DEF Grade, ReadStatus, TypeOK, Locals
    <3> QED BY <1>k, <3>1
  <2>4. CASE ~Grade(w) /\ ~ReadStatus(w) /\ ~\E s \in Ids : Deliver(w, s)
    <3>1. pc[w] # "idle" /\ loc' = loc
      BY <2>1, <2>4 DEF WorkerActs, WorkerStep, StoreEvaluation, MarkEvaluated, ApplyResult,
         RegisterApproval, DiscardDraft, EvaluationRaises, ReadFailed, MarkFailed,
         WithdrawSubmission, CommitVerdict, CommitFailure, WorkerDies, GradedPCs
    <3> QED BY <1>k, <3>1
  <2> QED BY <2>2, <2>3, <2>4
<1> QED
  BY <1>1, <1>2

LEMMA WorldNext ==
  ASSUME Midnight \/ (\E s \in Ids : Duplicate(s)) \/ UNCHANGED vars
  PROVE  UNCHANGED <<rows, pc, holds, loc>>
  BY DEF Midnight, Duplicate, vars

LEMMA IdsInvariant == Spec => []IdsInv
<1>1. Init => FreshIds /\ RequestsApart /\ Known
  BY ProcsAssumption, NoneAssumption
  DEF Init, Blank, About, SubmitPCs, FreshIds, RequestsApart, Known
<1>2. CounterInv => TypeOK /\ LocksExclusive
  BY DEF CounterInv
<1>3. IdsInv /\ [Next]_vars => FreshIds' /\ RequestsApart' /\ Known'
  <2> SUFFICES ASSUME IdsInv, [Next]_vars PROVE FreshIds' /\ RequestsApart' /\ Known'
    OBVIOUS
  <2>1. ASSUME NEW p \in Procs, Acts(p) PROVE FreshIds' /\ RequestsApart' /\ Known'
    BY <2>1, RequestIds, WorkerIds, KnownStep DEF Acts
  <2>2. CASE Midnight \/ (\E s \in Ids : Duplicate(s)) \/ UNCHANGED vars
    BY <2>2, WorldNext DEF IdsInv, FreshIds, RequestsApart, Known, Exists, rows
  <2> QED BY <2>1, <2>2 DEF Next, Acts, RequestActs, WorkerActs
<1> QED
  BY <1>1, <1>2, <1>3, CounterInvariant, PTL DEF Spec, IdsInv

-----------------------------------------------------------------------------
(* Nothing is forgotten.                                                   *)

OrphanInv == TypeOK /\ NoOrphan

Kept(s) == \/ queue[s] > 0
           \/ \E w \in Workers : loc[w].id = s
           \/ \E r \in Requests : pc[r] = "invoke" /\ loc[r].id = s

LEMMA OrphanRequest ==
  ASSUME OrphanInv, ~InvokeMayFail, NEW r \in Requests, RequestActs(r), OthersWait(r)
  PROVE  NoOrphan'
<1> USE ProcsAssumption, NoneAssumption DEF OrphanInv
<1> SUFFICES ASSUME NEW s \in Ids, submission'[s].status = "evaluating"
             PROVE  Kept(s)'
  BY DEF NoOrphan, Kept
<1>w. \A w \in Workers : loc'[w] = loc[w]
  BY DEF OthersWait
<1>1. CASE Invoke(r)
  <2>1. submission' = submission /\ Kept(s)
    BY <1>1 DEF Invoke, rows, NoOrphan, Kept
  <2>2. loc[r].id \in Ids
    BY <1>1 DEF Invoke, TypeOK, ArgumentsOK, SubmitPCs
  <2>3. CASE s = loc[r].id
    BY <1>1, <2>2, <2>3 DEF Invoke, Kept, TypeOK, WorldOK
  <2>4. CASE s # loc[r].id
    BY <1>1, <1>w, <2>1, <2>2, <2>4 DEF Invoke, Kept, TypeOK, WorldOK, OthersWait
  <2> QED BY <2>3, <2>4
<1>2. CASE CommitSubmission(r)
  <2>1. pc'[r] = "invoke" /\ loc' = loc /\ queue' = queue
    BY <1>2 DEF CommitSubmission, Goto, TypeOK, ControlOK, world
  <2>2. CASE s = loc[r].id
    BY <2>1, <2>2 DEF Kept
  <2>3. CASE s # loc[r].id
    <3>1. submission'[s] = submission[s] /\ pc[r] = "commit"
      BY <1>2, <2>3 DEF CommitSubmission, TypeOK, RowsOK
    <3>2. Kept(s)
      BY <3>1 DEF NoOrphan, Kept
    <3> QED BY <2>1, <3>1, <3>2 DEF Kept, OthersWait
  <2> QED BY <2>2, <2>3
<1>3. CASE ~Invoke(r) /\ ~CommitSubmission(r)
  <2>1. queue' = queue /\ submission' = submission /\ pc[r] # "invoke"
    <3>1. CASE RequestStart(r)
      BY <3>1 DEF RequestStart, SubmitGate, DraftGate, RecoveryGate, rows, world
    <3>2. CASE ~RequestStart(r)
      BY <1>3, <3>2 DEF RequestActs, RequestStep, SubmitClock, RegisterSubmission,
         DailyLimitReached, ReadAttempt, InsertSubmission, InsertConflicts, SaveDraft,
         SetRecovery, InvokeFails, RequestDies, rows, world
    <3> QED BY <3>1, <3>2
  <2>2. Kept(s)
    BY <2>1 DEF NoOrphan, Kept
  <2> QED BY <1>w, <2>1, <2>2 DEF Kept, OthersWait
<1> QED
  BY <1>1, <1>2, <1>3

LEMMA OrphanWorker ==
  ASSUME OrphanInv, ~MayDrop, NEW w \in Workers, WorkerActs(w), OthersWait(w)
  PROVE  NoOrphan'
<1> USE ProcsAssumption, NoneAssumption DEF OrphanInv
<1> SUFFICES ASSUME NEW s \in Ids, submission'[s].status = "evaluating"
             PROVE  Kept(s)'
  BY DEF NoOrphan, Kept
<1>r. \A r \in Requests : loc'[r] = loc[r] /\ pc'[r] = pc[r]
  BY DEF OthersWait
<1>i. pc[w] # "idle" <=> loc[w].id \in Ids
  BY DEF TypeOK, ArgumentsOK
<1>1. CASE submission' = submission
  <2>1. submission[s].status = "evaluating" /\ Kept(s)
    BY <1>1 DEF NoOrphan, Kept
  <2>2. CASE WorkerDies(w)
    <3>1. queue' = [queue EXCEPT ![loc[w].id] = @ + 1] /\ loc[w].id \in Ids
      BY <1>i, <2>2 DEF WorkerDies
    <3>2. (queue[s] > 0 \/ s = loc[w].id) => queue'[s] > 0
      BY <3>1 DEF TypeOK, WorldOK
    <3> QED BY <1>r, <2>1, <3>2 DEF Kept, OthersWait
  <2>3. ASSUME NEW t \in Ids, Deliver(w, t) PROVE Kept(s)'
    <3>1. pc[w] = "idle" /\ loc[w].id # s /\ queue' = [queue EXCEPT ![t] = @ - 1]
      BY <1>i, <2>3 DEF Deliver
    <3>2. CASE s = t
      <4>1. loc' = [loc EXCEPT ![w] = About(s, submission[s].chapter, submission[s].born)]
        BY <2>1, <2>3, <3>2 DEF Deliver
      <4>2. loc'[w].id = s
        BY <4>1 DEF About, TypeOK
      <4> QED BY <4>2 DEF Kept
    <3>3. CASE s # t
      <4>1. queue'[s] = queue[s]
        BY <3>1, <3>3 DEF TypeOK, WorldOK
      <4> QED BY <1>r, <2>1, <3>1, <4>1 DEF Kept, OthersWait
    <3> QED BY <3>2, <3>3
  <2>4. CASE ReadFailed(w)
    <3>1. s = loc[w].id => loc' = loc
      BY <2>1, <2>4 DEF ReadFailed
    <3>2. queue' = queue
      BY <2>4 DEF ReadFailed, world
    <3> QED BY <1>r, <2>1, <3>1, <3>2 DEF Kept, OthersWait
  <2>5. CASE CommitVerdict(w) \/ CommitFailure(w)
    <3>1. loc[w].id # s
      <4>1. loc[w].id = s => submission'[s].status # "evaluating"
        BY <2>5 DEF CommitVerdict, CommitFailure, TypeOK, RowsOK, SubmissionRows
      <4> QED BY <4>1
    <3>2. queue' = queue
      BY <2>5 DEF CommitVerdict, CommitFailure, world
    <3> QED BY <1>r, <2>1, <3>1, <3>2 DEF Kept, OthersWait
  <2>6. CASE ~WorkerDies(w) /\ ~ReadFailed(w) /\ ~CommitVerdict(w) /\ ~CommitFailure(w)
             /\ ~\E t \in Ids : Deliver(w, t)
    <3>1. queue' = queue
      BY <2>6 DEF WorkerActs, WorkerStep, Grade, StoreEvaluation, MarkEvaluated, ReadStatus,
         ApplyResult, RegisterApproval, DiscardDraft, EvaluationRaises, MarkFailed,
         WithdrawSubmission, world
    <3>2. loc'[w].id = loc[w].id
      <4>1. CASE Grade(w) \/ ReadStatus(w)
        BY <4>1 DEF Grade, ReadStatus, TypeOK, Locals
      <4>2. CASE ~Grade(w) /\ ~ReadStatus(w)
        BY <2>6, <4>2 DEF WorkerActs, WorkerStep, StoreEvaluation, MarkEvaluated,
           ApplyResult, RegisterApproval, DiscardDraft, EvaluationRaises, MarkFailed,
           WithdrawSubmission
      <4> QED BY <4>1, <4>2
    <3> QED BY <1>r, <2>1, <3>1, <3>2 DEF Kept, OthersWait
  <2> QED BY <2>2, <2>3, <2>4, <2>5, <2>6
<1>2. CASE CommitVerdict(w) \/ CommitFailure(w)
  <2>1. loc[w].id \in Ids
    BY <1>2, <1>i DEF CommitVerdict, CommitFailure
  <2>2. loc[w].id # s
    <3>1. loc[w].id = s => submission'[s].status # "evaluating"
      BY <1>2, <2>1, SetStatusType DEF CommitVerdict, CommitFailure, TypeOK, RowsOK, SubmissionRows
    <3> QED BY <3>1
  <2>3. submission'[s] = submission[s] /\ queue' = queue
    BY <1>2, <2>2 DEF CommitVerdict, CommitFailure, TypeOK, RowsOK, world
  <2>4. Kept(s)
    BY <2>3 DEF NoOrphan, Kept
  <2> QED BY <1>r, <2>2, <2>3, <2>4 DEF Kept, OthersWait
<1> QED
  BY <1>1, <1>2, WorkerKinds DEF TypeOK

(* While hand-offs and retries work, an evaluating submission always has   *)
(* an event, an execution or a request that will carry it on: no crash,    *)
(* failure, redelivery or race loses it (evaluation_worker.py).            *)
THEOREM NothingForgotten ==
  ASSUME ~InvokeMayFail, ~MayDrop
  PROVE  Spec => []NoOrphan
<1>1. Init => NoOrphan
  BY DEF Init, NoRow, NoOrphan
<1>2. TypeOK /\ LocksExclusive /\ NoOrphan /\ [Next]_vars => NoOrphan'
  <2> SUFFICES ASSUME TypeOK, LocksExclusive, NoOrphan, [Next]_vars PROVE NoOrphan'
    OBVIOUS
  <2>1. ASSUME NEW r \in Requests, RequestActs(r) PROVE NoOrphan'
    BY <2>1, RequestLocal, OrphanRequest DEF OrphanInv
  <2>2. ASSUME NEW w \in Workers, WorkerActs(w) PROVE NoOrphan'
    BY <2>2, WorkerLocal, OrphanWorker DEF OrphanInv
  <2>3. ASSUME NEW s \in Ids, Duplicate(s) PROVE NoOrphan'
    <3>1. \A t \in Ids : queue[t] > 0 => queue'[t] > 0
      BY <2>3 DEF Duplicate, TypeOK, WorldOK
    <3> QED BY <2>3, <3>1 DEF Duplicate, NoOrphan, rows
  <2>4. CASE Midnight \/ UNCHANGED vars
    BY <2>4 DEF Midnight, NoOrphan, vars, rows, world
  <2> QED BY <2>1, <2>2, <2>3, <2>4 DEF Next, RequestActs, WorkerActs
<1>3. CounterInv => TypeOK /\ LocksExclusive
  BY DEF CounterInv
<1> QED
  BY <1>1, <1>2, <1>3, CounterInvariant, PTL DEF Spec

-----------------------------------------------------------------------------
(* One correction, one end.                                                *)

LEMMA LifecycleRequest ==
  ASSUME LifecycleInv, NEW r \in Requests, RequestActs(r)
  PROVE  /\ WorkersApart' /\ AtWork' /\ ResultExactlyWhenEvaluated'
         /\ \A s \in Ids :
              submission[s].status = "evaluated" => submission'[s].status = "evaluated"
<1> USE ProcsAssumption, NoneAssumption DEF LifecycleInv, IdsInv
<1>0. OthersWait(r)
  BY RequestLocal
<1>1. CASE submission' = submission /\ evaluation' = evaluation
  BY <1>0, <1>1 DEF OthersWait, WorkersApart, AtWork, ResultExactlyWhenEvaluated
<1>2. CASE CommitSubmission(r) /\ evaluation' = evaluation
  <2> DEFINE id == loc[r].id
  <2>1. id \in Ids /\ ~Exists(id) /\ submission'[id].status = "evaluating"
        /\ \A s \in Ids \ {id} : submission'[s] = submission[s]
    BY <1>2, NewRow
  <2>2. submission[id].status = "none" /\ evaluation[id] = None
    BY <2>1 DEF Exists, ResultExactlyWhenEvaluated, TypeOK, RowsOK
  <2>3. WorkersApart' /\ AtWork'
    BY <1>0, <2>1 DEF OthersWait, WorkersApart, AtWork, TypeOK, ArgumentsOK
  <2>4. ResultExactlyWhenEvaluated'
    BY <1>2, <2>1, <2>2 DEF ResultExactlyWhenEvaluated
  <2> QED BY <2>1, <2>2, <2>3, <2>4
<1> QED
  BY <1>1, <1>2, RequestKinds

LEMMA LifecycleWorker ==
  ASSUME LifecycleInv, ~Overlap, NEW w \in Workers, WorkerActs(w)
  PROVE  /\ WorkersApart' /\ AtWork' /\ ResultExactlyWhenEvaluated'
         /\ \A s \in Ids :
              submission[s].status = "evaluated" => submission'[s].status = "evaluated"
<1> USE ProcsAssumption, NoneAssumption DEF LifecycleInv, IdsInv
<1> DEFINE id == loc[w].id
<1>0. OthersWait(w)
  BY WorkerLocal
<1>1. CASE submission' = submission /\ evaluation' = evaluation
  <2>1. WorkersApart' /\ AtWork'
    <3>1. CASE End(w)
      <4>1. loc'[w].id \notin Ids /\ pc'[w] = "idle"
        BY <3>1 DEF End, Goto, Blank, About, TypeOK, ControlOK
      <4> QED BY <1>0, <1>1, <4>1 DEF OthersWait, WorkersApart, AtWork
    <3>2. CASE loc'[w].id = id /\ (pc'[w] # "idle" <=> pc[w] # "idle")
      BY <1>0, <1>1, <3>2 DEF OthersWait, WorkersApart, AtWork
    <3>3. CASE \E s \in Ids : /\ loc'[w].id = s /\ pc'[w] # "idle"
                              /\ Overlap \/ Idle(s)
                              /\ submission[s].status = "evaluating"
      BY <1>0, <1>1, <3>3 DEF OthersWait, WorkersApart, AtWork, Idle
    <3>4. CASE CommitVerdict(w) \/ CommitFailure(w)
      BY <3>1, <3>4 DEF CommitVerdict, CommitFailure
    <3> QED BY <3>1, <3>2, <3>3, <3>4, WorkerKinds
  <2> QED BY <1>1, <2>1 DEF ResultExactlyWhenEvaluated
<1>2. CASE CommitVerdict(w) \/ CommitFailure(w)
  <2>1. id \in Ids /\ submission[id].status = "evaluating" /\ evaluation[id] = None
        /\ \A s \in Ids \ {id} : submission'[s] = submission[s]
    BY <1>2, RowOfWorker DEF AtWork, ResultExactlyWhenEvaluated, TypeOK, RowsOK
  <2>2. \A s \in Ids \ {id} : evaluation'[s] = evaluation[s]
    BY <1>2, <2>1 DEF CommitVerdict, CommitFailure, TypeOK, RowsOK
  <2>3. /\ submission'[id].status \in {"evaluated", "failed"}
        /\ submission'[id].status = "evaluated" <=> evaluation'[id] # None
    <3>1. CASE CommitVerdict(w)
      <4>1. submission' = [submission EXCEPT ![id].status = "evaluated"]
            /\ evaluation' = [evaluation EXCEPT ![id] = loc[w].verdict]
            /\ loc[w].verdict \in Verdict
        BY <3>1 DEF CommitVerdict, TypeOK, ArgumentsOK, GradedPCs
      <4>2. submission'[id].status = "evaluated" /\ evaluation'[id] \in Verdict
        BY <2>1, <4>1, StatusChange DEF TypeOK, RowsOK
      <4> QED BY <4>2
    <3>2. CASE CommitFailure(w)
      <4>1. submission' = [submission EXCEPT ![id].status = "failed"] /\ evaluation' = evaluation
        BY <3>2 DEF CommitFailure
      <4>2. submission'[id].status = "failed"
        BY <2>1, <4>1, StatusChange DEF TypeOK
      <4> QED BY <2>1, <4>1, <4>2
    <3> QED BY <1>2, <3>1, <3>2
  <2>4. loc'[w].id \notin Ids /\ pc'[w] = "idle"
    BY <1>2 DEF CommitVerdict, CommitFailure, End, Goto, Blank, About, TypeOK, ControlOK
  <2>5. WorkersApart' /\ AtWork'
    BY <1>0, <2>1, <2>4 DEF OthersWait, WorkersApart, AtWork, TypeOK, ArgumentsOK
  <2>6. ResultExactlyWhenEvaluated'
    BY <2>1, <2>2, <2>3 DEF ResultExactlyWhenEvaluated
  <2> QED BY <2>1, <2>5, <2>6
<1> QED
  BY <1>1, <1>2, WorkerKinds

LEMMA LifecycleInit == Init => WorkersApart /\ AtWork /\ ResultExactlyWhenEvaluated
  BY ProcsAssumption, NoneAssumption
  DEF Init, NoRow, Blank, About, WorkersApart, AtWork, ResultExactlyWhenEvaluated

LEMMA LifecycleNext ==
  ASSUME ~Overlap, LifecycleInv, [Next]_vars
  PROVE  /\ WorkersApart' /\ AtWork' /\ ResultExactlyWhenEvaluated'
         /\ \A s \in Ids :
              submission[s].status = "evaluated" => submission'[s].status = "evaluated"
<1>1. CASE Midnight \/ (\E s \in Ids : Duplicate(s)) \/ UNCHANGED vars
  BY <1>1, WorldNext DEF LifecycleInv, WorkersApart, AtWork, ResultExactlyWhenEvaluated, rows
<1> QED
  BY <1>1, LifecycleRequest, LifecycleWorker DEF Next, RequestActs, WorkerActs

LEMMA LifecycleInvariant ==
  ASSUME ~Overlap
  PROVE  Spec => []LifecycleInv
<1>1. LifecycleInv /\ [Next]_vars =>
        WorkersApart' /\ AtWork' /\ ResultExactlyWhenEvaluated'
  BY LifecycleNext
<1> QED
  BY <1>1, LifecycleInit, IdsInvariant, PTL DEF Spec, LifecycleInv

(* Unless two executions of one event overlap, the polling endpoint finds  *)
(* a result exactly when it reports evaluated: a failure is never recorded *)
(* over a stored evaluation, nor an evaluation stored over a failure.      *)
THEOREM ResultConsistent ==
  ASSUME ~Overlap
  PROVE  Spec => []ResultExactlyWhenEvaluated
<1>1. LifecycleInv => ResultExactlyWhenEvaluated
  BY DEF LifecycleInv
<1> QED
  BY <1>1, LifecycleInvariant, PTL

(* Unless two executions of one event overlap, evaluated is final          *)
(* (domain/enums.py); mark_failed, which updates unconditionally, is why   *)
(* that is assumed.                                                        *)
THEOREM EvaluatedStays ==
  ASSUME ~Overlap
  PROVE  Spec => EvaluatedIsFinal
<1>1. LifecycleInv /\ [Next]_vars =>
        [\A s \in Ids :
            submission[s].status = "evaluated" => submission'[s].status = "evaluated"]_vars
  BY LifecycleNext
<1> QED
  BY <1>1, LifecycleInvariant, PTL DEF Spec, EvaluatedIsFinal

-----------------------------------------------------------------------------
(* What a worker holds, by its label, its memory and its locks.            *)

\* Its evaluation is not stored yet, and nobody else can store it.
StoreLocked(label, x, held) ==
    label \in GradedPCs \ {"store"} =>
        EvaluationKey(x.id) \in held /\ evaluation[x.id] = None

\* It is about to commit an approval.
Approving(label, x, held) ==
    /\ label \in {"discard", "finish"}
    /\ ProgressRow(x.chapter) \in held
    /\ x.verdict = "approved"

\* The only chapter and the only day it may write are those of its submission;
\* the day only to count an approval or to give a tick back.
OwnRows(label, x, held) ==
    /\ \A c \in Chapters : ProgressRow(c) \in held =>
          /\ c = x.chapter /\ x.seen # "passed"
          /\ label \in {"approve", "discard", "finish"}
    /\ \A d \in Days : ActivityRow(d) \in held =>
          d = x.born /\ (Approving(label, x, held) \/ label = "finish_failure")

\* It writes the chapter unless it saw it passed, and a passed chapter has a
\* passing submission for good.
ChapterLocked(label, x, held) ==
    /\ label = "apply" => x.seen # "passed"
    /\ label \in {"approve", "discard"} =>
          ProgressRow(x.chapter) \in held /\ x.verdict = "approved"
    /\ label = "finish" =>
          ProgressRow(x.chapter) \in held \/ progress[x.chapter].passing # None

\* An approval has the row of the day it is counted on.
DayLocked(label, x, held) ==
    Approving(label, x, held) /\ submission[x.id].charged = x.born =>
        ActivityRow(x.born) \in held

Holding(label, x, held) ==
    /\ StoreLocked(label, x, held) /\ OwnRows(label, x, held)
    /\ ChapterLocked(label, x, held) /\ DayLocked(label, x, held)

WorkersHold == \A w \in Workers : Holding(pc[w], loc[w], holds[w])

\* A chapter that was passed keeps a passing submission, and a day that was
\* charged has its row.
PassedOnce == \A c \in Chapters :
    progress[c].status = "passed" => progress[c].passing # None
ChargedRows == \A s \in Ids : Exists(s) => activity[submission[s].charged].row

HoldInv == IdsInv /\ WorkersHold /\ PassedOnce /\ ChargedRows

LEMMA KeysDiffer ==
  ASSUME NEW x, NEW y
  PROVE  /\ ActivityRow(x) = ActivityRow(y) <=> x = y
         /\ ProgressRow(x) = ProgressRow(y) <=> x = y
         /\ EvaluationKey(x) = EvaluationKey(y) <=> x = y
         /\ ActivityRow(x) \notin {SubmissionRow(y), EvaluationKey(y), ProgressRow(y),
                                   DraftRow(y)}
         /\ ProgressRow(x) \notin {SubmissionRow(y), EvaluationKey(y), DraftRow(y),
                                   ActivityRow(y)}
  BY DEF ActivityRow, SubmissionRow, EvaluationKey, ProgressRow, DraftRow

LEMMA AdvancedFields ==
  ASSUME NEW row, NEW w
  PROVE  LET status == resolve_status_after_evaluation(loc[w].seen, loc[w].verdict)
         IN  /\ Advanced(row, w).status = status
             /\ Advanced(row, w).attempts = row.attempts + 1
             /\ status = "passed" => Advanced(row, w).passing = loc[w].id
             /\ status # "passed" => Advanced(row, w).passing = row.passing
  BY DEF Advanced

-----------------------------------------------------------------------------
(* Only four statements write the rows that are counted here.              *)
LEMMA Writers ==
  ASSUME NEW p \in Procs, Acts(p)
  PROVE  \/ UNCHANGED <<submission, evaluation, progress, activity>>
         \/ p \in Requests /\ (CommitSubmission(p) \/ SetRecovery(p))
         \/ p \in Workers /\ (CommitVerdict(p) \/ CommitFailure(p))
<1>1. CASE p \in Requests /\ RequestActs(p)
  BY <1>1 DEF RequestActs, RequestStart, RequestStep, SubmitGate, DraftGate, RecoveryGate,
              SubmitClock, RegisterSubmission, DailyLimitReached, ReadAttempt,
              InsertSubmission, InsertConflicts, Invoke, InvokeFails, RequestDies,
              SaveDraft, rows
<1>2. CASE p \in Workers /\ WorkerActs(p)
  BY <1>2 DEF WorkerActs, WorkerStep, Deliver, Grade, StoreEvaluation, MarkEvaluated,
              ReadStatus, ApplyResult, RegisterApproval, DiscardDraft, EvaluationRaises,
              ReadFailed, MarkFailed, WithdrawSubmission, WorkerDies, rows
<1> QED
  BY <1>1, <1>2 DEF Acts

(* The chapters and days a verdict writes are those the worker has locked. *)
LEMMA VerdictWrites ==
  ASSUME HoldInv, NEW w \in Workers, CommitVerdict(w)
  PROVE  /\ loc[w].id \in Ids /\ loc[w].verdict \in Verdict /\ evaluation[loc[w].id] = None
         /\ evaluation' = [evaluation EXCEPT ![loc[w].id] = loc[w].verdict]
         /\ EvaluationKey(loc[w].id) \in holds[w]
         /\ loc[w].chapter \in Chapters
         /\ \A c \in Chapters \ {loc[w].chapter} : progress'[c] = progress[c]
         /\ ProgressRow(loc[w].chapter) \in holds[w] =>
               progress'[loc[w].chapter] = Advanced(progress[loc[w].chapter], w)
               /\ loc[w].seen # "passed"
         /\ ProgressRow(loc[w].chapter) \notin holds[w] =>
               progress'[loc[w].chapter] = progress[loc[w].chapter]
               /\ progress[loc[w].chapter].passing # None
<1> USE DEF HoldInv, IdsInv, TypeOK
<1>1. pc[w] = "finish" /\ loc[w].id \in Ids /\ loc[w].verdict \in Verdict
      /\ loc[w].chapter \in Chapters
  BY DEF CommitVerdict, ArgumentsOK, GradedPCs
<1>2. Holding("finish", loc[w], holds[w])
  BY <1>1 DEF WorkersHold
<1>3. EvaluationKey(loc[w].id) \in holds[w] /\ evaluation[loc[w].id] = None
  BY <1>2 DEF Holding, StoreLocked, GradedPCs
<1>4. \A c \in Chapters : ProgressRow(c) \in holds[w] =>
          c = loc[w].chapter /\ loc[w].seen # "passed"
  BY <1>2 DEF Holding, OwnRows
<1>5. \/ ProgressRow(loc[w].chapter) \in holds[w]
      \/ progress[loc[w].chapter].passing # None
  BY <1>2 DEF Holding, ChapterLocked
<1>6. \A c \in Chapters : progress'[c] =
          IF ProgressRow(c) \in holds[w] THEN Advanced(progress[c], w) ELSE progress[c]
  BY DEF CommitVerdict
<1>7. evaluation' = [evaluation EXCEPT ![loc[w].id] = loc[w].verdict]
  BY DEF CommitVerdict
<1> QED
  BY <1>1, <1>3, <1>4, <1>5, <1>6, <1>7

(* What no step undoes.                                                    *)
LEMMA LedgerKept ==
  ASSUME HoldInv, NEW p \in Procs, Acts(p)
  PROVE  /\ \A c \in Chapters : progress[c].passing # None => progress'[c].passing # None
         /\ \A d \in Days : activity[d].row => activity'[d].row
         /\ \A s \in Ids : \/ evaluation'[s] = evaluation[s]
                           \/ EvaluationKey(s) \in holds[p]
<1> USE NoneAssumption DEF HoldInv, IdsInv, TypeOK
<1>1. CASE UNCHANGED <<submission, evaluation, progress, activity>>
  BY <1>1
<1>2. CASE p \in Requests /\ CommitSubmission(p)
  <2>1. loc[p].day \in Days
    BY <1>2, NewRow
  <2>2. \A d \in Days : activity[d].row => activity'[d].row
    BY <1>2, <2>1 DEF CommitSubmission, RowsOK
  <2> QED BY <1>2, <2>2 DEF CommitSubmission
<1>3. CASE p \in Requests /\ SetRecovery(p)
  BY <1>3 DEF SetRecovery, RowsOK, ProgressRows
<1>4. CASE p \in Workers /\ CommitVerdict(p)
  <2>1. \A c \in Chapters : progress[c].passing # None => progress'[c].passing # None
    BY <1>4, VerdictWrites, AdvancedFields
  <2>2. \A d \in Days : activity'[d].row = activity[d].row
    BY <1>4 DEF CommitVerdict, RowsOK, ActivityRows
  <2>3. \A s \in Ids : evaluation'[s] = evaluation[s] \/ EvaluationKey(s) \in holds[p]
    BY <1>4, VerdictWrites DEF RowsOK
  <2> QED BY <2>1, <2>2, <2>3
<1>5. CASE p \in Workers /\ CommitFailure(p)
  <2>1. \A d \in Days : activity'[d].row = activity[d].row
    BY <1>5 DEF CommitFailure, RowsOK, ActivityRows
  <2> QED BY <1>5, <2>1 DEF CommitFailure
<1> QED
  BY <1>1, <1>2, <1>3, <1>4, <1>5, Writers

-----------------------------------------------------------------------------
(* The steps keep it.                                                      *)

LEMMA HoldOthers ==
  ASSUME HoldInv, NEW p \in Procs, Acts(p), NEW w \in Workers \ {p}
  PROVE  Holding(pc[w], loc[w], holds[w])'
<1> USE DEF HoldInv, IdsInv
<1>0. pc'[w] = pc[w] /\ loc'[w] = loc[w] /\ holds'[w] = holds[w]
  BY RequestLocal, WorkerLocal DEF Acts, OthersWait
<1> DEFINE x == loc[w]
<1>1. Holding(pc[w], x, holds[w]) /\ holds[w] \cap holds[p] = {}
  BY DEF WorkersHold, LocksExclusive
<1>2. pc[w] # "idle" => /\ x.id \in Ids /\ x.chapter \in Chapters
                        /\ submission'[x.id].charged = submission[x.id].charged
  BY RowsStay DEF TypeOK, ArgumentsOK, Known, RowsKept
<1>3. StoreLocked(pc[w], loc[w], holds[w])'
  BY <1>0, <1>1, <1>2, LedgerKept DEF Holding, StoreLocked, GradedPCs
<1>4. OwnRows(pc[w], loc[w], holds[w])'
  BY <1>0, <1>1 DEF Holding, OwnRows
<1>5. ChapterLocked(pc[w], loc[w], holds[w])'
  BY <1>0, <1>1, <1>2, LedgerKept DEF Holding, ChapterLocked
<1>6. DayLocked(pc[w], loc[w], holds[w])'
  BY <1>0, <1>1, <1>2 DEF Holding, DayLocked, Approving
<1> QED
  BY <1>3, <1>4, <1>5, <1>6 DEF Holding

LEMMA HoldMove ==
  ASSUME NEW w \in Workers, NEW label, NEW x, NEW held, Holding(label, x, held),
         UNCHANGED rows, pc'[w] = label, loc'[w] = x, holds'[w] = held
  PROVE  Holding(pc[w], loc[w], holds[w])'
  BY DEF Holding, StoreLocked, OwnRows, ChapterLocked, DayLocked, Approving, rows

LEMMA NothingHeld ==
  ASSUME NEW x, NEW label \in {"idle", "grade", "store"} \cup FailurePCs,
         NEW held, \A c \in Chapters : ProgressRow(c) \notin held,
         \A d \in Days : ActivityRow(d) \notin held
  PROVE  Holding(label, x, held)
  BY DEF Holding, StoreLocked, OwnRows, ChapterLocked, DayLocked, Approving, GradedPCs,
         FailurePCs

LEMMA HoldWorker ==
  ASSUME HoldInv, NEW w \in Workers, WorkerActs(w)
  PROVE  Holding(pc[w], loc[w], holds[w])'
<1> USE DEF HoldInv, IdsInv, TypeOK, ControlOK
<1> DEFINE x == loc[w]
           held == holds[w]
<1>h. Holding(pc[w], x, held)
  BY DEF WorkersHold
<1>i. pc[w] # "idle" => x \in Locals /\ x.id \in Ids /\ x.chapter \in Chapters /\ x.born \in Days
  BY DEF ArgumentsOK, Locals
<1>n. pc[w] \notin {"approve", "discard", "finish", "finish_failure"} =>
        /\ \A c \in Chapters : ProgressRow(c) \notin held
        /\ \A d \in Days : ActivityRow(d) \notin held
  BY <1>h DEF Holding, OwnRows, Approving
<1>e. CASE End(w)
  <2>1. pc'[w] = "idle" /\ holds'[w] = {}
    BY <1>e, EndLocal
  <2> QED BY <2>1 DEF Holding, StoreLocked, OwnRows, ChapterLocked, DayLocked, Approving,
                      GradedPCs
<1>1. ASSUME NEW s \in Ids, Deliver(w, s) PROVE Holding(pc[w], loc[w], holds[w])'
  <2>1. UNCHANGED rows /\ holds'[w] = held /\ pc[w] = "idle" /\ pc'[w] \in {"idle", "grade"}
    BY <1>1 DEF Deliver, Goto
  <2>2. Holding(pc'[w], loc'[w], held)
    BY <1>n, <2>1, NothingHeld
  <2> QED BY <2>1, <2>2, HoldMove
<1>2. CASE Grade(w)
  <2>1. UNCHANGED rows /\ holds'[w] = held /\ pc[w] = "grade" /\ pc'[w] = "store"
    BY <1>2 DEF Grade, Goto
  <2>2. Holding(pc'[w], loc'[w], held)
    BY <1>n, <2>1, NothingHeld
  <2> QED BY <2>1, <2>2, HoldMove
<1>3. CASE StoreEvaluation(w)
  <2> DEFINE h == held \cup {EvaluationKey(x.id)}
  <2>1. UNCHANGED rows /\ holds'[w] = h /\ pc'[w] = "mark" /\ loc'[w] = x
        /\ evaluation[x.id] = None /\ pc[w] = "store"
    BY <1>3, LockLocal DEF StoreEvaluation, Goto
  <2>2. /\ \A c \in Chapters : ProgressRow(c) \notin h
        /\ \A d \in Days : ActivityRow(d) \notin h
    <3>1. /\ \A c \in Chapters : ProgressRow(c) # EvaluationKey(x.id)
          /\ \A d \in Days : ActivityRow(d) # EvaluationKey(x.id)
      BY KeysDiffer
    <3> QED BY <1>n, <2>1, <3>1
  <2>3. Holding("mark", x, h)
    BY <2>1, <2>2 DEF Holding, StoreLocked, OwnRows, ChapterLocked, DayLocked, Approving
  <2> QED BY <2>1, <2>3, HoldMove
<1>4. CASE MarkEvaluated(w)
  <2> DEFINE h == held \cup {SubmissionRow(x.id)}
  <2>1. UNCHANGED rows /\ holds'[w] = h /\ pc'[w] = "read" /\ loc'[w] = x /\ pc[w] = "mark"
    BY <1>4, LockLocal DEF MarkEvaluated, Goto
  <2>2. /\ \A c \in Chapters : ProgressRow(c) \notin h
        /\ \A d \in Days : ActivityRow(d) \notin h
    BY <1>n, <2>1, KeysDiffer
  <2>3. Holding("read", x, h)
    BY <1>h, <2>1, <2>2
    DEF Holding, StoreLocked, OwnRows, ChapterLocked, DayLocked, Approving, GradedPCs
  <2> QED BY <2>1, <2>3, HoldMove
<1>5. CASE ReadStatus(w)
  <2> DEFINE seen == progress[x.chapter].status
             y == [x EXCEPT !.seen = seen]
             label == IF seen = "passed" THEN "finish" ELSE "apply"
  <2>1. UNCHANGED rows /\ holds'[w] = held /\ pc'[w] = label /\ loc'[w] = y /\ pc[w] = "read"
    BY <1>5 DEF ReadStatus, Goto
  <2>2. y.id = x.id /\ y.chapter = x.chapter /\ y.born = x.born /\ y.seen = seen
        /\ y.verdict = x.verdict
    BY <1>i, <2>1 DEF Locals
  <2>3. seen = "passed" => progress[y.chapter].passing # None
    BY <1>i, <2>1, <2>2 DEF PassedOnce
  <2>4. Holding(label, y, held)
    <3>1. StoreLocked(label, y, held)
      BY <1>h, <2>1, <2>2 DEF Holding, StoreLocked, GradedPCs
    <3>2. OwnRows(label, y, held)
      BY <1>n, <2>1 DEF OwnRows
    <3>3. ChapterLocked(label, y, held)
      BY <2>2, <2>3 DEF ChapterLocked
    <3>4. DayLocked(label, y, held)
      BY <1>i, <1>n, <2>1, <2>2 DEF DayLocked, Approving
    <3> QED BY <3>1, <3>2, <3>3, <3>4 DEF Holding
  <2> QED BY <2>1, <2>4, HoldMove
<1>6. CASE ApplyResult(w)
  <2> DEFINE h == held \cup {ProgressRow(x.chapter)}
             label == IF x.verdict = "approved" THEN "approve" ELSE "finish"
  <2>1. UNCHANGED rows /\ holds'[w] = h /\ pc'[w] = label /\ loc'[w] = x /\ pc[w] = "apply"
    BY <1>6, LockLocal DEF ApplyResult, Goto
  <2>2. x.seen # "passed"
    BY <1>h, <2>1 DEF Holding, ChapterLocked
  <2>3. StoreLocked(label, x, h) /\ ChapterLocked(label, x, h) /\ DayLocked(label, x, h)
    BY <1>h, <2>1 DEF Holding, StoreLocked, ChapterLocked, DayLocked, Approving, GradedPCs
  <2>4. OwnRows(label, x, h)
    BY <1>n, <2>1, <2>2, KeysDiffer DEF OwnRows
  <2>5. Holding(label, x, h)
    BY <2>3, <2>4 DEF Holding
  <2> QED BY <2>1, <2>5, HoldMove
<1>7. CASE RegisterApproval(w)
  <2> DEFINE h == IF activity[x.born].row THEN held \cup {ActivityRow(x.born)} ELSE held
  <2>1. UNCHANGED rows /\ holds'[w] = h /\ pc'[w] = "discard" /\ loc'[w] = x
        /\ pc[w] = "approve"
    BY <1>7, LockLocal DEF RegisterApproval, Goto
  <2>2. submission[x.id].charged = x.born => activity[x.born].row
    BY <1>i, <2>1 DEF Known, ChargedRows
  <2>3. StoreLocked("discard", x, h) /\ ChapterLocked("discard", x, h)
        /\ DayLocked("discard", x, h)
    BY <1>h, <2>1, <2>2
    DEF Holding, StoreLocked, ChapterLocked, DayLocked, Approving, GradedPCs
  <2>4. OwnRows("discard", x, h)
    <3>1. Approving("discard", x, h)
      BY <1>h, <2>1 DEF Holding, ChapterLocked, Approving
    <3>2. \A d \in Days : ActivityRow(d) \in h => d = x.born
      BY <1>h, <2>1, KeysDiffer DEF Holding, OwnRows
    <3>3. \A c \in Chapters : ProgressRow(c) \in h => c = x.chapter /\ x.seen # "passed"
      BY <1>h, <2>1, KeysDiffer DEF Holding, OwnRows
    <3> QED BY <3>1, <3>2, <3>3 DEF OwnRows
  <2>5. Holding("discard", x, h)
    BY <2>3, <2>4 DEF Holding
  <2> QED BY <2>1, <2>5, HoldMove
<1>8. CASE DiscardDraft(w)
  <2> DEFINE h == IF draft[x.chapter] THEN held \cup {DraftRow(x.chapter)} ELSE held
  <2>1. UNCHANGED rows /\ holds'[w] = h /\ pc'[w] = "finish" /\ loc'[w] = x
        /\ pc[w] = "discard"
    BY <1>8, LockLocal DEF DiscardDraft, Goto
  <2>2. /\ \A c \in Chapters : ProgressRow(c) \in h <=> ProgressRow(c) \in held
        /\ \A d \in Days : ActivityRow(d) \in h <=> ActivityRow(d) \in held
        /\ held \subseteq h
    BY KeysDiffer
  <2>3. StoreLocked("finish", x, h) /\ ChapterLocked("finish", x, h)
        /\ DayLocked("finish", x, h)
    BY <1>h, <1>i, <2>1, <2>2
    DEF Holding, StoreLocked, ChapterLocked, DayLocked, Approving, GradedPCs
  <2>4. OwnRows("finish", x, h)
    <3>1. Approving("finish", x, h)
      BY <1>h, <2>1, <2>2 DEF Holding, ChapterLocked, Approving
    <3> QED BY <1>h, <2>1, <2>2, <3>1 DEF Holding, OwnRows
  <2>5. Holding("finish", x, h)
    BY <2>3, <2>4 DEF Holding
  <2> QED BY <2>1, <2>5, HoldMove
<1>9. CASE EvaluationRaises(w)
  <2>1. UNCHANGED rows /\ holds'[w] = {} /\ pc'[w] = "failure"
    BY <1>9 DEF EvaluationRaises, Goto
  <2>2. Holding("failure", loc'[w], {})
    BY NothingHeld DEF FailurePCs
  <2> QED BY <2>1, <2>2, HoldMove
<1>10. CASE ReadFailed(w)
  <2>1. CASE submission[x.id].status = "evaluating"
    <3>1. UNCHANGED rows /\ holds'[w] = held /\ pc'[w] = "mark_failed" /\ pc[w] = "failure"
      BY <1>10, <2>1 DEF ReadFailed, Goto
    <3>2. Holding("mark_failed", loc'[w], held)
      BY <1>n, <3>1, NothingHeld DEF FailurePCs
    <3> QED BY <3>1, <3>2, HoldMove
  <2> QED BY <1>e, <1>10, <2>1 DEF ReadFailed
<1>11. CASE MarkFailed(w)
  <2> DEFINE h == held \cup {SubmissionRow(x.id)}
  <2>1. UNCHANGED rows /\ holds'[w] = h /\ pc'[w] = "withdraw" /\ pc[w] = "mark_failed"
    BY <1>11, LockLocal DEF MarkFailed, Goto
  <2>2. /\ \A c \in Chapters : ProgressRow(c) \notin h
        /\ \A d \in Days : ActivityRow(d) \notin h
    <3>1. ASSUME NEW y
          PROVE  ProgressRow(y) # SubmissionRow(x.id) /\ ActivityRow(y) # SubmissionRow(x.id)
      BY KeysDiffer
    <3>2. /\ \A c \in Chapters : ProgressRow(c) \notin held
          /\ \A d \in Days : ActivityRow(d) \notin held
      BY <1>n, <2>1
    <3> QED BY <3>1, <3>2
  <2>3. Holding("withdraw", loc'[w], h)
    BY <2>2, NothingHeld DEF FailurePCs
  <2> QED BY <2>1, <2>3, HoldMove
<1>12. CASE WithdrawSubmission(w)
  <2> DEFINE h == IF activity[x.born].count > 0
                  THEN held \cup {ActivityRow(x.born)} ELSE held
  <2>1. UNCHANGED rows /\ holds'[w] = h /\ pc'[w] = "finish_failure" /\ loc'[w] = x
        /\ pc[w] = "withdraw"
    BY <1>12, LockLocal DEF WithdrawSubmission, Goto
  <2>2. /\ \A c \in Chapters : ProgressRow(c) \notin h
        /\ \A d \in Days : ActivityRow(d) \in h => d = x.born
    BY <1>n, <2>1, KeysDiffer
  <2>3. Holding("finish_failure", x, h)
    BY <2>2 DEF Holding, StoreLocked, OwnRows, ChapterLocked, DayLocked, Approving, GradedPCs
  <2> QED BY <2>1, <2>3, HoldMove
<1>13. CASE CommitVerdict(w) \/ CommitFailure(w) \/ WorkerDies(w)
  BY <1>e, <1>13 DEF CommitVerdict, CommitFailure, WorkerDies
<1> QED
  BY <1>1, <1>2, <1>3, <1>4, <1>5, <1>6, <1>7, <1>8, <1>9, <1>10, <1>11, <1>12, <1>13
  DEF WorkerActs, WorkerStep

LEMMA PassedStep ==
  ASSUME HoldInv, NEW p \in Procs, Acts(p)
  PROVE  PassedOnce' /\ ChargedRows'
<1> USE NoneAssumption DEF HoldInv, IdsInv, TypeOK
<1>1. ChargedRows'
  <2>1. CASE p \in Requests /\ CommitSubmission(p)
    <3>1. /\ loc[p].id \in Ids /\ loc[p].day \in Days
          /\ submission'[loc[p].id].charged = loc[p].day
      BY <2>1, NewRow
    <3>2. activity'[loc[p].day].row
      BY <2>1, <3>1 DEF CommitSubmission, RowsOK
    <3> QED BY <3>1, <3>2, LedgerKept, RowsStay DEF ChargedRows, RowsKept, RowsOK, SubmissionRows
  <2>2. CASE ~(p \in Requests /\ CommitSubmission(p))
    BY <2>2, LedgerKept, RowsStay DEF ChargedRows, RowsKept, RowsOK, SubmissionRows
  <2> QED BY <2>1, <2>2
<1>2. PassedOnce'
  <2>1. CASE progress' = progress
    BY <2>1 DEF PassedOnce
  <2>2. CASE p \in Requests /\ SetRecovery(p)
    BY <2>2 DEF SetRecovery, PassedOnce, RowsOK, ProgressRows
  <2>3. CASE p \in Workers /\ CommitVerdict(p)
    BY <2>3, VerdictWrites, AdvancedFields DEF PassedOnce
  <2>4. CASE \/ p \in Requests /\ CommitSubmission(p)
             \/ p \in Workers /\ CommitFailure(p)
    BY <2>1, <2>4 DEF CommitSubmission, CommitFailure
  <2> QED BY <2>1, <2>2, <2>3, <2>4, Writers
<1> QED
  BY <1>1, <1>2

LEMMA HoldInvariant == Spec => []HoldInv
<1>1. Init => WorkersHold /\ PassedOnce /\ ChargedRows
  <2> SUFFICES ASSUME Init PROVE WorkersHold /\ PassedOnce /\ ChargedRows
    OBVIOUS
  <2>1. \A w \in Workers : pc[w] = "idle" /\ holds[w] = {}
    BY DEF Init
  <2>2. WorkersHold
    BY <2>1, NothingHeld DEF WorkersHold
  <2>3. PassedOnce /\ ChargedRows
    BY DEF Init, NoRow, PassedOnce, ChargedRows, Exists
  <2> QED BY <2>2, <2>3
<1>2. HoldInv /\ [Next]_vars => WorkersHold' /\ PassedOnce' /\ ChargedRows'
  <2> SUFFICES ASSUME HoldInv, [Next]_vars PROVE WorkersHold' /\ PassedOnce' /\ ChargedRows'
    OBVIOUS
  <2>1. ASSUME NEW p \in Procs, Acts(p) PROVE WorkersHold'
    BY <2>1, ProcsAssumption, HoldOthers, HoldWorker DEF WorkersHold, Acts
  <2>2. ASSUME NEW p \in Procs, Acts(p) PROVE PassedOnce' /\ ChargedRows'
    BY <2>2, PassedStep
  <2>3. CASE Midnight \/ (\E s \in Ids : Duplicate(s)) \/ UNCHANGED vars
    <3>1. UNCHANGED <<rows, pc, holds, loc>>
      BY <2>3, WorldNext
    <3>2. \A w \in Workers : Holding(pc[w], loc[w], holds[w])'
      BY <3>1, HoldMove DEF HoldInv, WorkersHold
    <3> QED BY <3>1, <3>2 DEF HoldInv, WorkersHold, PassedOnce, ChargedRows, Exists, rows
  <2> QED BY <2>1, <2>2, <2>3 DEF Next, Acts, RequestActs, WorkerActs
<1> QED
  BY <1>1, <1>2, IdsInvariant, PTL DEF Spec, HoldInv

-----------------------------------------------------------------------------
(* The submissions of a chapter.                                           *)

LEMMA OfKept ==
  ASSUME IdsInv, NEW p \in Procs, Acts(p), ~(p \in Requests /\ CommitSubmission(p)),
         NEW c
  PROVE  Of(c)' = Of(c)
<1>1. \A s \in Ids : Exists(s)' <=> Exists(s)
  BY RowsStay DEF RowsKept
<1>2. \A s \in Ids : Exists(s) => submission'[s].chapter = submission[s].chapter
  BY RowsStay DEF RowsKept
<1>3. Of(c)' = {s \in Ids : Exists(s)' /\ submission'[s].chapter = c}
  BY DEF Of
<1> QED
  BY <1>1, <1>2, <1>3 DEF Of

LEMMA OfGrows ==
  ASSUME IdsInv, NEW r \in Requests, CommitSubmission(r), NEW c
  PROVE  /\ loc[r].id \notin Of(c)
         /\ Of(c)' = IF c = loc[r].chapter THEN Of(c) \cup {loc[r].id} ELSE Of(c)
<1>1. /\ loc[r].id \in Ids /\ ~Exists(loc[r].id)
      /\ submission'[loc[r].id].status = "evaluating"
      /\ submission'[loc[r].id].chapter = loc[r].chapter
      /\ \A s \in Ids \ {loc[r].id} : submission'[s] = submission[s]
  BY NewRow DEF IdsInv
<1>2. Of(c)' = {s \in Ids : submission'[s].status # "none" /\ submission'[s].chapter = c}
  BY DEF Of, Exists
<1> QED
  BY <1>1, <1>2 DEF Of, Exists

(* There are finitely many rows: every one was made by one step.           *)
FiniteRows == IsFiniteSet({s \in Ids : Exists(s)})

LEMMA FiniteStep ==
  ASSUME IdsInv, FiniteRows, NEW p \in Procs, Acts(p)
  PROVE  FiniteRows'
<1> DEFINE Made == {s \in Ids : Exists(s)}
<1>1. Made' \in SUBSET (Made \cup {loc[p].id})
  BY RowsStay
<1>2. IsFiniteSet(Made \cup {loc[p].id})
  BY FS_AddElement DEF FiniteRows
<1> QED
  BY <1>1, <1>2, FS_Subset DEF FiniteRows

LEMMA FiniteInvariant == Spec => []FiniteRows
<1>1. Init => FiniteRows
  <2>1. Init => {s \in Ids : Exists(s)} = {}
    BY DEF Init, NoRow, Exists
  <2> QED BY <2>1, FS_EmptySet DEF FiniteRows
<1>2. IdsInv /\ FiniteRows /\ [Next]_vars => FiniteRows'
  <2>1. CASE Midnight \/ (\E s \in Ids : Duplicate(s)) \/ UNCHANGED vars
    BY <2>1, WorldNext DEF FiniteRows, Exists, rows
  <2> QED BY <2>1, FiniteStep DEF Next, Acts, RequestActs, WorkerActs
<1> QED
  BY <1>1, <1>2, IdsInvariant, PTL DEF Spec

LEMMA OfFinite ==
  ASSUME FiniteRows, NEW c
  PROVE  IsFiniteSet(Of(c)) /\ Cardinality(Of(c)) \in Nat
<1>1. Of(c) \in SUBSET {s \in Ids : Exists(s)}
  BY DEF Of
<1> QED
  BY <1>1, FS_Subset, FS_CardinalityType DEF FiniteRows

LEMMA OfCounted ==
  ASSUME IdsInv, FiniteRows, NEW p \in Procs, Acts(p), NEW c
  PROVE  LET adds == p \in Requests /\ CommitSubmission(p) /\ c = loc[p].chapter
         IN  /\ adds => Cardinality(Of(c)') = Cardinality(Of(c)) + 1
             /\ ~adds => Cardinality(Of(c)') = Cardinality(Of(c))
<1>1. IsFiniteSet(Of(c))
  BY OfFinite
<1>2. CASE p \in Requests /\ CommitSubmission(p) /\ c = loc[p].chapter
  <2>1. Of(c)' = Of(c) \cup {loc[p].id} /\ loc[p].id \notin Of(c)
    BY <1>2, OfGrows
  <2> QED BY <1>1, <1>2, <2>1, FS_AddElement
<1>3. CASE ~(p \in Requests /\ CommitSubmission(p) /\ c = loc[p].chapter)
  BY <1>3, OfGrows, OfKept
<1> QED
  BY <1>2, <1>3

-----------------------------------------------------------------------------
(* Attempt numbers.                                                        *)

\* The number a request read is at most one above those in use, and the one
\* it has locked is exactly that.
NumberNext ==
    \A r \in Requests :
        LET used == Cardinality(Of(loc[r].chapter))
        IN  /\ pc[r] = "insert" => loc[r].attempt \in 1..(used + 1)
            /\ pc[r] = "commit" =>
                  /\ loc[r].attempt = used + 1
                  /\ AttemptKey(loc[r].chapter, loc[r].attempt) \in holds[r]

\* Only a submission charged to another day can have taken that number.
NumberFresh ==
    \A r \in Requests : pc[r] \in {"insert", "commit"} =>
        \A s \in Of(loc[r].chapter) :
            submission[s].attempt = loc[r].attempt => submission[s].charged # loc[r].day

NumberInv == AttemptsContiguous /\ NumberNext /\ NumberFresh

Numbered == CounterInv /\ IdsInv /\ FiniteRows /\ NumberInv

LEMMA CountingUp ==
  ASSUME NEW n \in Nat
  PROVE  (1..n) \cup {n + 1} = 1..(n + 1)
  OBVIOUS

LEMMA NextNumber ==
  ASSUME NEW k \in Nat, NEW n \in Nat, \A m \in 1..k : m < n,
         n = 1 \/ \E m \in 1..k : n = m + 1
  PROVE  n = k + 1
  OBVIOUS

(* The only ways to reach a label of a request.                            *)
LEMMA ReachesInsert ==
  ASSUME TypeOK, NEW r \in Requests, RequestActs(r), pc'[r] \in {"insert", "commit"}
  PROVE  \/ ReadAttempt(r) /\ pc'[r] = "insert"
         \/ InsertSubmission(r) /\ pc'[r] = "commit"
<1> USE DEF TypeOK, ControlOK, Goto
<1>1. ~End(r)
  BY EndLocal
<1>2. ASSUME NEW label \in {"clock", "register", "attempt", "invoke", "draft", "recovery"},
             Goto(r, label)
      PROVE  FALSE
  BY <1>2
<1>3. ReadAttempt(r) => pc'[r] = "insert"
  BY DEF ReadAttempt
<1>4. InsertSubmission(r) => pc'[r] = "commit"
  BY DEF InsertSubmission
<1> QED
  BY <1>1, <1>2, <1>3, <1>4
  DEF RequestActs, RequestStart, RequestStep, SubmitGate, DraftGate, RecoveryGate,
      SubmitClock, RegisterSubmission, DailyLimitReached, InsertConflicts, CommitSubmission,
      Invoke, SaveDraft, SetRecovery, InvokeFails, RequestDies

LEMMA ReachesRecovery ==
  ASSUME TypeOK, NEW r \in Requests, RequestActs(r), pc'[r] = "recovery"
  PROVE  \E c \in Chapters : RecoveryGate(r, c)
<1> USE DEF TypeOK, ControlOK, Goto
<1>1. ~End(r)
  BY EndLocal
<1>2. ASSUME NEW label \in SubmitPCs \cup {"draft"}, Goto(r, label)
      PROVE  FALSE
  BY <1>2 DEF SubmitPCs
<1> QED
  BY <1>1, <1>2
  DEF RequestActs, RequestStart, RequestStep, SubmitGate, DraftGate, SubmitClock,
      RegisterSubmission, DailyLimitReached, ReadAttempt, InsertSubmission, InsertConflicts,
      CommitSubmission, Invoke, SaveDraft, SetRecovery, InvokeFails, RequestDies, SubmitPCs

(* max + 1, read without a lock, is one above the attempts in use.         *)
LEMMA ReadNumber ==
  ASSUME Numbered, NEW r \in Requests, ReadAttempt(r)
  PROVE  /\ loc'[r].attempt = Cardinality(Of(loc[r].chapter)) + 1
         /\ loc'[r].chapter = loc[r].chapter /\ loc'[r].day = loc[r].day
         /\ \A s \in Of(loc[r].chapter) : submission[s].attempt # loc'[r].attempt
<1> USE DEF Numbered, NumberInv
<1> DEFINE c == loc[r].chapter
           k == Cardinality(Of(c))
           taken == {submission[s].attempt : s \in Of(c)}
<1>1. PICK n \in {1} \cup {submission[s].attempt + 1 : s \in Of(c)} :
         /\ \A s \in Of(c) : submission[s].attempt < n
         /\ loc' = [loc EXCEPT ![r].attempt = n]
  BY DEF ReadAttempt
<1>2. c \in Chapters /\ loc[r] \in Locals
  BY DEF ReadAttempt, IdsInv, TypeOK, ArgumentsOK
<1>3. loc'[r].attempt = n /\ loc'[r].chapter = c /\ loc'[r].day = loc[r].day
  BY <1>1, <1>2 DEF IdsInv, TypeOK, Locals
<1>4. taken = 1..k /\ k \in Nat
  BY <1>2, OfFinite DEF AttemptsContiguous
<1>5. \A m \in taken : m < n
  BY <1>1
<1>6. n = 1 \/ \E m \in taken : n = m + 1
  BY <1>1
<1>7. \A s \in Of(c) : submission[s].attempt \in Nat
  BY DEF Of, IdsInv, TypeOK, RowsOK, SubmissionRows
<1>8. n \in Nat /\ \A s \in Of(c) : submission[s].attempt # n
  BY <1>1, <1>7
<1> HIDE DEF taken, k
<1>9. n = k + 1
  BY <1>4, <1>5, <1>6, <1>8, NextNumber
<1> QED
  BY <1>3, <1>8, <1>9 DEF k

LEMMA ContiguousStep ==
  ASSUME Numbered, NEW p \in Procs, Acts(p)
  PROVE  AttemptsContiguous'
<1> USE DEF Numbered, NumberInv
<1> SUFFICES ASSUME NEW c \in Chapters
             PROVE  {submission'[s].attempt : s \in Of(c)'} = 1..Cardinality(Of(c)')
  BY DEF AttemptsContiguous
<1>1. {submission[s].attempt : s \in Of(c)} = 1..Cardinality(Of(c))
      /\ Cardinality(Of(c)) \in Nat
  BY OfFinite DEF AttemptsContiguous
<1>2. \A s \in Of(c) : submission'[s].attempt = submission[s].attempt
  BY RowsStay DEF RowsKept, Of
<1>3. CASE p \in Requests /\ CommitSubmission(p) /\ c = loc[p].chapter
  <2>1. Of(c)' = Of(c) \cup {loc[p].id} /\ Cardinality(Of(c)') = Cardinality(Of(c)) + 1
    BY <1>3, OfGrows, OfCounted
  <2>2. submission'[loc[p].id].attempt = loc[p].attempt
    BY <1>3, NewRow DEF IdsInv
  <2>3. loc[p].attempt = Cardinality(Of(c)) + 1
    BY <1>3 DEF NumberNext, CommitSubmission
  <2>4. {submission'[s].attempt : s \in Of(c)'}
           = (1..Cardinality(Of(c))) \cup {Cardinality(Of(c)) + 1}
    BY <1>1, <1>2, <2>1, <2>2, <2>3
  <2> QED BY <1>1, <2>1, <2>4, CountingUp
<1>4. CASE ~(p \in Requests /\ CommitSubmission(p) /\ c = loc[p].chapter)
  <2>1. Of(c)' = Of(c)
    BY <1>4, OfGrows, OfKept
  <2> QED BY <1>1, <1>2, <2>1
<1> QED
  BY <1>3, <1>4

LEMMA NumberOthers ==
  ASSUME Numbered, NEW p \in Procs, Acts(p), NEW r \in Requests \ {p},
         pc'[r] \in {"insert", "commit"}, NEW c, c = loc[r].chapter
  PROVE  LET used == Cardinality(Of(c)')
         IN  /\ pc'[r] = pc[r] /\ loc'[r] = loc[r] /\ holds'[r] = holds[r]
             /\ pc[r] = "insert" => loc[r].attempt \in 1..(used + 1)
             /\ pc[r] = "commit" => loc[r].attempt = used + 1
<1> USE DEF Numbered, NumberInv, IdsInv
<1>0. pc'[r] = pc[r] /\ loc'[r] = loc[r] /\ holds'[r] = holds[r]
  BY RequestLocal, WorkerLocal DEF Acts, OthersWait
<1>1. Cardinality(Of(c)) \in Nat
  BY OfFinite
<1>2. CASE p \in Requests /\ CommitSubmission(p) /\ c = loc[p].chapter
  <2>1. Cardinality(Of(c)') = Cardinality(Of(c)) + 1
    BY <1>2, OfCounted
  <2>2. pc[r] # "commit"
    <3>1. pc[p] = "commit"
      BY <1>2 DEF CommitSubmission
    <3>2. AttemptKey(c, Cardinality(Of(c)) + 1) \in holds[p]
      BY <1>2, <3>1 DEF NumberNext
    <3>3. pc[r] = "commit" => AttemptKey(c, Cardinality(Of(c)) + 1) \in holds[r]
      BY DEF NumberNext
    <3> QED BY <3>2, <3>3 DEF LocksExclusive
  <2>3. pc[r] = "insert" => loc[r].attempt \in 1..(Cardinality(Of(c)) + 1)
    BY DEF NumberNext
  <2> QED BY <1>0, <1>1, <2>1, <2>2, <2>3
<1>3. CASE ~(p \in Requests /\ CommitSubmission(p) /\ c = loc[p].chapter)
  <2>1. Cardinality(Of(c)') = Cardinality(Of(c))
    BY <1>3, OfCounted
  <2> QED BY <1>0, <2>1 DEF NumberNext
<1> QED
  BY <1>2, <1>3

(* A number that is not taken, and at most one above those in use, is the  *)
(* next one.                                                               *)
LEMMA NumberSelf ==
  ASSUME Numbered, NEW r \in Requests, RequestActs(r), pc'[r] \in {"insert", "commit"},
         NEW c, c = loc[r].chapter
  PROVE  /\ Of(c)' = Of(c) /\ submission' = submission
         /\ loc'[r].chapter = c /\ loc'[r].day = loc[r].day
         /\ loc'[r].attempt = Cardinality(Of(c)) + 1
         /\ \A s \in Of(c) : submission[s].attempt # loc'[r].attempt
         /\ pc'[r] = "commit" => AttemptKey(c, Cardinality(Of(c)) + 1) \in holds'[r]
<1> USE DEF Numbered, NumberInv, IdsInv
<1> DEFINE k == Cardinality(Of(c))
<1>u. submission' = submission => Of(c)' = Of(c)
  BY DEF Of, Exists
<1>1. CASE ReadAttempt(r) /\ pc'[r] = "insert"
  <2>1. submission' = submission
    BY <1>1 DEF ReadAttempt, rows
  <2> QED BY <1>1, <1>u, <2>1, ReadNumber
<1>2. CASE InsertSubmission(r) /\ pc'[r] = "commit"
  <2>1. /\ pc[r] = "insert" /\ loc' = loc /\ submission' = submission
        /\ \A s \in Of(c) : submission[s].attempt # loc[r].attempt
        /\ c \in Chapters
    BY <1>2 DEF InsertSubmission, AttemptTaken, rows, TypeOK, ArgumentsOK
  <2>2. loc[r].attempt \in 1..(k + 1) /\ k \in Nat
    BY <2>1, OfFinite DEF NumberNext
  <2>3. loc[r].attempt \notin 1..k
    BY <2>1 DEF AttemptsContiguous
  <2>4. loc[r].attempt = k + 1
    BY <2>2, <2>3
  <2>5. AttemptKey(c, loc[r].attempt) \in holds'[r]
    BY <1>2, LockLocal DEF InsertSubmission
  <2> QED BY <1>u, <2>1, <2>4, <2>5
<1> QED
  BY <1>1, <1>2, ReachesInsert

LEMMA NumberNextStep ==
  ASSUME Numbered, NEW p \in Procs, Acts(p)
  PROVE  NumberNext'
<1> DEFINE Numbers(r) ==
             LET used == Cardinality(Of(loc[r].chapter))
             IN  /\ pc[r] = "insert" => loc[r].attempt \in 1..(used + 1)
                 /\ pc[r] = "commit" =>
                       /\ loc[r].attempt = used + 1
                       /\ AttemptKey(loc[r].chapter, loc[r].attempt) \in holds[r]
<1> SUFFICES ASSUME NEW r \in Requests, pc'[r] \in {"insert", "commit"} PROVE Numbers(r)'
  BY DEF NumberNext
<1> DEFINE c == loc[r].chapter
<1>0. PICK d : d = c
  OBVIOUS
<1>f. Cardinality(Of(d)) \in Nat
  BY OfFinite DEF Numbered
<1>1. CASE r # p
  <2>1. loc'[r].chapter = d
    BY <1>0, <1>1, NumberOthers
  <2> QED BY <1>0, <1>1, <2>1, NumberOthers DEF Numbered, NumberInv, NumberNext
<1>2. CASE r = p
  <2>1. RequestActs(r)
    BY <1>2, ProcsAssumption DEF Acts
  <2> QED BY <1>0, <1>f, <2>1, NumberSelf
<1> QED
  BY <1>1, <1>2

LEMMA NumberFreshStep ==
  ASSUME Numbered, NEW p \in Procs, Acts(p)
  PROVE  NumberFresh'
<1> USE DEF Numbered, NumberInv, IdsInv
<1> SUFFICES ASSUME NEW r \in Requests, pc'[r] \in {"insert", "commit"},
                    NEW c, c = loc'[r].chapter, NEW s \in Of(c)',
                    submission'[s].attempt = loc'[r].attempt
             PROVE  submission'[s].charged # loc'[r].day
  BY DEF NumberFresh, Of, Exists
<1>s. s \in Ids
  BY DEF Of
<1>1. CASE r # p
  <2>1. pc'[r] = pc[r] /\ loc'[r] = loc[r] /\ c = loc[r].chapter
    BY <1>1, RequestLocal, WorkerLocal DEF Acts, OthersWait
  <2>2. CASE s \in Of(c)
    <3>1. /\ submission'[s].attempt = submission[s].attempt
          /\ submission'[s].charged = submission[s].charged
      BY <2>2, RowsStay DEF RowsKept, Of
    <3> QED BY <2>1, <2>2, <3>1 DEF NumberFresh
  <2>3. CASE s \notin Of(c)
    <3>1. p \in Requests /\ CommitSubmission(p) /\ s = loc[p].id
      BY <2>3, OfGrows, OfKept
    <3>2. submission'[s].charged = loc[p].day /\ loc[p].day \in Days /\ pc[p] = "commit"
      BY <3>1, NewRow
    <3>3. ActivityRow(loc[p].day) \in holds[p] /\ ActivityRow(loc[r].day) \in holds[r]
      BY <2>1, <3>2, <3>1 DEF CounterInv, TickLocked, TickPending
    <3> QED BY <1>1, <2>1, <3>2, <3>3 DEF LocksExclusive
  <2> QED BY <2>2, <2>3
<1>2. CASE r = p
  <2>1. RequestActs(r)
    BY <1>2, ProcsAssumption DEF Acts
  <2>2. PICK d : d = loc[r].chapter
    OBVIOUS
  <2>3. submission' = submission /\ c = d /\ Of(d)' = Of(d)
        /\ \A t \in Of(d) : submission[t].attempt # loc'[r].attempt
    BY <2>1, <2>2, NumberSelf
  <2> QED BY <2>3
<1> QED
  BY <1>1, <1>2

LEMMA NumberInvariant == Spec => []Numbered
<1>1. Init => NumberInv
  <2> SUFFICES ASSUME Init PROVE NumberInv
    OBVIOUS
  <2>1. \A c : Of(c) = {}
    BY DEF Init, NoRow, Of, Exists
  <2>2. AttemptsContiguous
    BY <2>1, FS_EmptySet DEF AttemptsContiguous
  <2>3. NumberNext /\ NumberFresh
    BY <2>1 DEF Init, NumberNext, NumberFresh
  <2> QED BY <2>2, <2>3 DEF NumberInv
<1>2. Numbered /\ [Next]_vars => NumberInv'
  <2> SUFFICES ASSUME Numbered, [Next]_vars PROVE NumberInv'
    OBVIOUS
  <2>1. ASSUME NEW p \in Procs, Acts(p) PROVE NumberInv'
    BY <2>1, ContiguousStep, NumberNextStep, NumberFreshStep DEF NumberInv
  <2>2. CASE Midnight \/ (\E s \in Ids : Duplicate(s)) \/ UNCHANGED vars
    <3>1. UNCHANGED <<submission, pc, holds, loc>>
      BY <2>2, WorldNext DEF rows
    <3>2. \A c : Of(c)' = Of(c)
      BY <3>1 DEF Of, Exists
    <3> QED BY <3>1, <3>2
            DEF Numbered, NumberInv, AttemptsContiguous, NumberNext, NumberFresh
  <2> QED BY <2>1, <2>2 DEF Next, Acts, RequestActs, WorkerActs
<1> QED
  BY <1>1, <1>2, IdsInvariant, CounterInvariant, FiniteInvariant, PTL DEF Spec, Numbered

(* Attempts are numbered 1..n without gap or repetition, although max + 1  *)
(* is read without a lock (create_pending).                                *)
THEOREM AttemptsNumbered == Spec => []AttemptsContiguous
<1>1. Numbered => AttemptsContiguous
  BY DEF Numbered, NumberInv
<1> QED
  BY <1>1, NumberInvariant, PTL

(* The unique index refuses an attempt number only to submissions charged  *)
(* to different days: within a day the row of daily_activity serialises    *)
(* the requests that compute one.                                          *)
THEOREM CollisionsOnlyAtMidnight == Spec => []CollisionsStraddleMidnight
<1>1. Numbered => CollisionsStraddleMidnight
  BY DEF Numbered, NumberInv, NumberFresh, AttemptTaken, CollisionsStraddleMidnight
<1> QED
  BY <1>1, NumberInvariant, PTL

-----------------------------------------------------------------------------
(* The verdicts given on a chapter.                                        *)

Given(c) == {evaluation[s] : s \in Evaluations(c)}

EvaluatedExist == \A s \in Ids : evaluation[s] # None => Exists(s)

\* Nobody sets the recovery scene of a chapter that never failed by persuasion.
RecoveryEarned ==
    \A r \in Requests : pc[r] = "recovery" => "failed_persuasion" \in Given(loc[r].chapter)

VerdictInv == /\ HoldInv /\ FiniteRows /\ EvaluatedExist
              /\ StatusHasVerdict /\ RecoveryEarned /\ AttemptsMatchVerdicts

(* Only the commit of a verdict adds one, to the chapter it was given on.  *)
LEMMA EvaluationsStep ==
  ASSUME HoldInv, EvaluatedExist, NEW p \in Procs, Acts(p), NEW c
  PROVE  LET commits == p \in Workers /\ CommitVerdict(p)
         IN  /\ EvaluatedExist'
             /\ \A s \in Evaluations(c) : evaluation'[s] = evaluation[s]
             /\ ~commits => Evaluations(c)' = Evaluations(c)
             /\ commits => loc[p].id \notin Evaluations(c)
             /\ commits /\ c # loc[p].chapter => Evaluations(c)' = Evaluations(c)
             /\ commits /\ c = loc[p].chapter =>
                   Evaluations(c)' = Evaluations(c) \cup {loc[p].id}
<1> USE NoneAssumption DEF HoldInv, IdsInv
<1> DEFINE id == loc[p].id
<1>1. \A s \in Ids : Exists(s) => Exists(s)'
  BY RowsStay DEF RowsKept
<1>2. Evaluations(c)' = {s \in Of(c)' : evaluation'[s] # None}
  BY DEF Evaluations
<1>3. CASE p \in Workers /\ CommitVerdict(p)
  <2>1. /\ id \in Ids /\ loc[p].verdict \in Verdict /\ evaluation[id] = None
        /\ evaluation' = [evaluation EXCEPT ![id] = loc[p].verdict]
    BY <1>3, VerdictWrites
  <2>2. evaluation'[id] = loc[p].verdict /\ evaluation'[id] # None
        /\ \A s \in Ids \ {id} : evaluation'[s] = evaluation[s]
    BY <2>1 DEF TypeOK, RowsOK
  <2>3. Exists(id) /\ submission[id].chapter = loc[p].chapter
    BY <1>3 DEF CommitVerdict, Known
  <2>4. Of(c)' = Of(c)
    BY <1>3, OfKept, ProcsAssumption
  <2>5. \A s \in Of(c) : s \in Ids /\ (s = id => c = loc[p].chapter)
    BY <2>3 DEF Of
  <2>6. c = loc[p].chapter => id \in Of(c)
    BY <2>1, <2>3 DEF Of
  <2>7. EvaluatedExist'
    BY <1>1, <2>2, <2>3 DEF EvaluatedExist
  <2> QED BY <1>2, <1>3, <2>1, <2>2, <2>4, <2>5, <2>6, <2>7 DEF Evaluations
<1>4. CASE ~(p \in Workers /\ CommitVerdict(p))
  <2>1. evaluation' = evaluation
    BY <1>4, Writers DEF CommitSubmission, SetRecovery, CommitFailure
  <2>2. Of(c)' = Of(c) \/ \E s \in Ids : ~Exists(s) /\ Of(c)' = Of(c) \cup {s}
    BY OfKept, OfGrows, NewRow
  <2>3. Evaluations(c)' = Evaluations(c)
    BY <1>2, <2>1, <2>2 DEF Evaluations, EvaluatedExist
  <2>4. EvaluatedExist'
    BY <1>1, <2>1 DEF EvaluatedExist
  <2> QED BY <1>4, <2>1, <2>3, <2>4
<1> QED
  BY <1>3, <1>4

LEMMA GivenGrows ==
  ASSUME HoldInv, EvaluatedExist, NEW p \in Procs, Acts(p), NEW c
  PROVE  Given(c) \subseteq Given(c)'
<1>1. Evaluations(c) \subseteq Evaluations(c)'
  BY EvaluationsStep
<1>2. Given(c)' = {evaluation'[s] : s \in Evaluations(c)'}
  BY DEF Given
<1> QED
  BY <1>1, <1>2, EvaluationsStep DEF Given

LEMMA EvaluationsCounted ==
  ASSUME VerdictInv, NEW p \in Procs, Acts(p), NEW c
  PROVE  LET adds == p \in Workers /\ CommitVerdict(p) /\ c = loc[p].chapter
         IN  /\ Cardinality(Evaluations(c)) \in Nat
             /\ adds => Cardinality(Evaluations(c)') = Cardinality(Evaluations(c)) + 1
             /\ ~adds => Cardinality(Evaluations(c)') = Cardinality(Evaluations(c))
<1>1. Evaluations(c) \in SUBSET Of(c)
  BY DEF Evaluations
<1>2. IsFiniteSet(Evaluations(c)) /\ Cardinality(Evaluations(c)) \in Nat
  BY <1>1, OfFinite, FS_Subset, FS_CardinalityType DEF VerdictInv
<1>3. CASE p \in Workers /\ CommitVerdict(p) /\ c = loc[p].chapter
  <2>1. Evaluations(c)' = Evaluations(c) \cup {loc[p].id} /\ loc[p].id \notin Evaluations(c)
    BY <1>3, EvaluationsStep DEF VerdictInv
  <2> QED BY <1>2, <1>3, <2>1, FS_AddElement
<1>4. CASE ~(p \in Workers /\ CommitVerdict(p) /\ c = loc[p].chapter)
  BY <1>2, <1>4, EvaluationsStep DEF VerdictInv
<1> QED
  BY <1>3, <1>4

-----------------------------------------------------------------------------
(* A chapter is where a verdict sent it.                                   *)

Earned(c) ==
    LET row == progress[c]
    IN  /\ row.status = "passed" => row.passing # None
        /\ row.passing # None => row.passing \in Of(c) /\ evaluation[row.passing] = "approved"
        /\ row.status = "drafting" => "failed_technical" \in Given(c)
        /\ row.status \in {"in_consequence", "in_recovery"} => "failed_persuasion" \in Given(c)

LEMMA EarnedIs == StatusHasVerdict <=> \A c \in Chapters : Earned(c)
  BY DEF StatusHasVerdict, Earned, Given

LEMMA EarnedStep ==
  ASSUME VerdictInv, NEW p \in Procs, Acts(p), NEW c \in Chapters
  PROVE  Earned(c)'
<1> USE NoneAssumption DEF VerdictInv, HoldInv, IdsInv
<1>1. Earned(c) /\ Given(c) \subseteq Given(c)'
  BY EarnedIs, GivenGrows
<1>2. \A s \in Of(c) : s \in Of(c)'
  BY OfKept, OfGrows
<1>3. \A s \in Of(c) : evaluation[s] # None => evaluation'[s] = evaluation[s]
  BY EvaluationsStep DEF Evaluations
<1>4. progress[c].passing # None =>
         /\ progress[c].passing \in Of(c)' /\ evaluation'[progress[c].passing] = "approved"
  BY <1>1, <1>2, <1>3 DEF Earned, Verdict
<1>5. CASE progress'[c] = progress[c]
  BY <1>1, <1>4, <1>5 DEF Earned
<1>6. CASE p \in Requests /\ SetRecovery(p) /\ c = loc[p].chapter
  <2>1. progress'[c].status = "in_recovery" /\ progress'[c].passing = progress[c].passing
    BY <1>6 DEF SetRecovery, TypeOK, RowsOK, ProgressRows
  <2>2. "failed_persuasion" \in Given(c)
    BY <1>6 DEF SetRecovery, RecoveryEarned
  <2> QED BY <1>1, <1>4, <2>1, <2>2 DEF Earned
<1>7. CASE p \in Workers /\ CommitVerdict(p) /\ progress'[c] = Advanced(progress[c], p)
           /\ c = loc[p].chapter /\ loc[p].seen # "passed"
  <2> DEFINE id == loc[p].id
             v  == loc[p].verdict
  <2>1. id \in Evaluations(c)' /\ evaluation'[id] = v /\ v \in Verdict
    <3>1. id \in Ids /\ v \in Verdict /\ evaluation' = [evaluation EXCEPT ![id] = v]
      BY <1>7, VerdictWrites
    <3>2. evaluation'[id] = v
      BY <3>1 DEF TypeOK, RowsOK
    <3>3. id \in Evaluations(c)'
      BY <1>7, EvaluationsStep
    <3> QED BY <3>1, <3>2, <3>3
  <2>2. v \in Given(c)' /\ id \in Of(c)'
    BY <2>1 DEF Given, Evaluations
  <2>3. \/ v = "approved" /\ progress'[c].status = "passed" /\ progress'[c].passing = id
        \/ v = "failed_technical" /\ progress'[c].status = "drafting"
           /\ progress'[c].passing = progress[c].passing
        \/ v = "failed_persuasion" /\ progress'[c].status = "in_consequence"
           /\ progress'[c].passing = progress[c].passing
    BY <1>7, <2>1, AdvancedFields
    DEF resolve_status_after_evaluation, next_status_for, Verdict
  <2>4. id # None
    BY <1>7, VerdictWrites
  <2> QED BY <1>4, <2>1, <2>2, <2>3, <2>4 DEF Earned
<1> QED
  <2>1. CASE UNCHANGED progress
    BY <1>5, <2>1
  <2>2. CASE p \in Requests /\ SetRecovery(p)
    BY <1>5, <1>6, <2>2 DEF SetRecovery, TypeOK, RowsOK
  <2>3. CASE p \in Workers /\ CommitVerdict(p)
    BY <1>5, <1>7, <2>3, VerdictWrites
  <2> QED BY <2>1, <2>2, <2>3, Writers DEF CommitSubmission, CommitFailure

LEMMA RecoveryStep ==
  ASSUME VerdictInv, NEW p \in Procs, Acts(p)
  PROVE  RecoveryEarned'
<1> USE DEF VerdictInv, HoldInv, IdsInv
<1> SUFFICES ASSUME NEW r \in Requests, pc'[r] = "recovery", NEW c, c = loc'[r].chapter
             PROVE  "failed_persuasion" \in Given(c)'
  BY DEF RecoveryEarned, Given, Evaluations, Of, Exists
<1>1. CASE r # p
  <2>1. pc'[r] = pc[r] /\ loc'[r] = loc[r]
    BY <1>1, RequestLocal, WorkerLocal DEF Acts, OthersWait
  <2> QED BY <2>1, GivenGrows DEF RecoveryEarned
<1>2. CASE r = p
  <2>1. RequestActs(r)
    BY <1>2, ProcsAssumption DEF Acts
  <2>2. \E d \in Chapters : RecoveryGate(r, d)
    BY <2>1, ReachesRecovery
  <2>3. PICK d \in Chapters : RecoveryGate(r, d)
    BY <2>2
  <2>4. c = d /\ progress[d].status = "in_consequence"
    BY <2>3 DEF RecoveryGate, TypeOK, Locals
  <2> QED BY <2>4, EarnedIs, GivenGrows DEF Earned
<1> QED
  BY <1>1, <1>2

LEMMA AttemptsStep ==
  ASSUME VerdictInv, NEW p \in Procs, Acts(p)
  PROVE  AttemptsMatchVerdicts'
<1> USE NoneAssumption DEF VerdictInv, HoldInv, IdsInv, TypeOK
<1> DEFINE Matches(c) ==
             /\ progress[c].attempts <= Cardinality(Evaluations(c))
             /\ progress[c].passing = None =>
                   progress[c].attempts = Cardinality(Evaluations(c))
<1> SUFFICES ASSUME NEW c \in Chapters PROVE Matches(c)'
  BY DEF AttemptsMatchVerdicts
<1>0. Matches(c) /\ progress[c].attempts \in Nat
  BY DEF AttemptsMatchVerdicts, RowsOK, ProgressRows
<1>1. CASE p \in Workers /\ CommitVerdict(p) /\ c = loc[p].chapter
  <2>1. /\ Cardinality(Evaluations(c)') = Cardinality(Evaluations(c)) + 1
        /\ Cardinality(Evaluations(c)) \in Nat
    BY <1>1, EvaluationsCounted
  <2>2. CASE ProgressRow(c) \in holds[p]
    <3>1. progress'[c] = Advanced(progress[c], p) /\ loc[p].id # None
      BY <1>1, <2>2, VerdictWrites
    <3>2. progress'[c].attempts = progress[c].attempts + 1
          /\ (progress'[c].passing = None => progress[c].passing = None)
      BY <3>1, AdvancedFields
    <3> QED BY <1>0, <2>1, <3>2
  <2>3. CASE ProgressRow(c) \notin holds[p]
    <3>1. progress'[c] = progress[c] /\ progress[c].passing # None
      BY <1>1, <2>3, VerdictWrites
    <3> QED BY <1>0, <2>1, <3>1
  <2> QED BY <2>2, <2>3
<1>2. CASE ~(p \in Workers /\ CommitVerdict(p) /\ c = loc[p].chapter)
  <2>1. Cardinality(Evaluations(c)') = Cardinality(Evaluations(c))
    BY <1>2, EvaluationsCounted
  <2>2. progress'[c].attempts = progress[c].attempts
        /\ progress'[c].passing = progress[c].passing
    <3>1. CASE p \in Requests /\ SetRecovery(p)
      BY <3>1 DEF SetRecovery, RowsOK, ProgressRows
    <3>2. CASE p \in Workers /\ CommitVerdict(p)
      BY <1>2, <3>2, VerdictWrites
    <3> QED BY <3>1, <3>2, Writers DEF CommitSubmission, CommitFailure
  <2> QED BY <1>0, <2>1, <2>2
<1> QED
  BY <1>1, <1>2

LEMMA VerdictInvariant == Spec => []VerdictInv
<1>1. Init => EvaluatedExist /\ StatusHasVerdict /\ RecoveryEarned /\ AttemptsMatchVerdicts
  <2> SUFFICES ASSUME Init
               PROVE  EvaluatedExist /\ StatusHasVerdict /\ RecoveryEarned
                      /\ AttemptsMatchVerdicts
    OBVIOUS
  <2>1. \A c : Evaluations(c) = {}
    BY DEF Init, NoRow, Evaluations, Of, Exists
  <2>2. EvaluatedExist /\ StatusHasVerdict /\ RecoveryEarned
    BY DEF Init, EvaluatedExist, StatusHasVerdict, RecoveryEarned
  <2>3. \A c : Cardinality(Evaluations(c)) = 0
    BY <2>1, FS_EmptySet
  <2>4. AttemptsMatchVerdicts
    BY <2>3 DEF Init, AttemptsMatchVerdicts
  <2> QED BY <2>2, <2>4
<1>2. VerdictInv /\ [Next]_vars =>
        EvaluatedExist' /\ StatusHasVerdict' /\ RecoveryEarned' /\ AttemptsMatchVerdicts'
  <2> SUFFICES ASSUME VerdictInv, [Next]_vars
               PROVE  EvaluatedExist' /\ StatusHasVerdict' /\ RecoveryEarned'
                      /\ AttemptsMatchVerdicts'
    OBVIOUS
  <2>1. ASSUME NEW p \in Procs, Acts(p)
        PROVE  EvaluatedExist' /\ StatusHasVerdict' /\ RecoveryEarned' /\ AttemptsMatchVerdicts'
    <3>1. StatusHasVerdict'
      <4>1. StatusHasVerdict' <=> \A c \in Chapters : Earned(c)'
        BY EarnedIs DEF StatusHasVerdict, Earned, Given
      <4> QED BY <2>1, <4>1, EarnedStep
    <3>2. EvaluatedExist'
      BY <2>1, EvaluationsStep DEF VerdictInv
    <3> QED BY <2>1, <3>1, <3>2, RecoveryStep, AttemptsStep
  <2>2. CASE Midnight \/ (\E s \in Ids : Duplicate(s)) \/ UNCHANGED vars
    <3>1. UNCHANGED <<submission, evaluation, progress, pc, loc>>
      BY <2>2, WorldNext DEF rows
    <3>2. \A c : Of(c)' = Of(c) /\ Evaluations(c)' = Evaluations(c) /\ Given(c)' = Given(c)
      BY <3>1 DEF Evaluations, Of, Exists, Given
    <3>3. EvaluatedExist' /\ RecoveryEarned'
      BY <3>1, <3>2 DEF VerdictInv, EvaluatedExist, Exists, RecoveryEarned
    <3>4. StatusHasVerdict' /\ AttemptsMatchVerdicts'
      BY <3>1, <3>2 DEF VerdictInv, StatusHasVerdict, AttemptsMatchVerdicts
    <3> QED BY <3>3, <3>4
  <2> QED BY <2>1, <2>2 DEF Next, Acts, RequestActs, WorkerActs
<1> QED
  BY <1>1, <1>2, HoldInvariant, FiniteInvariant, PTL DEF Spec, VerdictInv

(* A chapter is where a stored verdict sent it: nobody reaches the recovery *)
(* scene, or passes, without the evaluation that says so, whatever other    *)
(* executions commit between a status read and the write based on it.       *)
THEOREM StatusEarned == Spec => []StatusHasVerdict
<1>1. VerdictInv => StatusHasVerdict
  BY DEF VerdictInv
<1> QED
  BY <1>1, VerdictInvariant, PTL

(* The attempts of a chapter are exactly the verdicts given on it, until it *)
(* is passed, and never more: no concurrent verdict is lost or applied      *)
(* twice (apply_result), also when executions of one event overlap.         *)
THEOREM AttemptsAreVerdicts == Spec => []AttemptsMatchVerdicts
<1>1. VerdictInv => AttemptsMatchVerdicts
  BY DEF VerdictInv
<1> QED
  BY <1>1, VerdictInvariant, PTL

-----------------------------------------------------------------------------
(* An approval reaches its day, once.                                      *)

\* The three things a step may not do to the approvals of the days.
PassesOnce ==
    \A s \in Ids : Passes(s) =>
        /\ evaluation[s] = None /\ evaluation'[s] = "approved"
        /\ LET d == submission[s].charged
           IN  submission[s].born = d =>
                   activity'[d].approved = activity[d].approved + 1

CountsPassing ==
    \A d \in Days : activity'[d].approved # activity[d].approved =>
        /\ activity'[d].approved = activity[d].approved + 1
        /\ \E s \in Ids : Passes(s) /\ submission[s].born = d

ResultsStay == \A s \in Ids : evaluation[s] # None => evaluation'[s] = evaluation[s]

(* Only a verdict moves the approvals of a day, the passing submission of  *)
(* a chapter or a result.                                                  *)
LEMMA ApprovalOthers ==
  ASSUME HoldInv, NEW p \in Procs, Acts(p), ~(p \in Workers /\ CommitVerdict(p))
  PROVE  /\ \A c \in Chapters : progress'[c].passing = progress[c].passing
         /\ \A d \in Days : activity'[d].approved = activity[d].approved
         /\ evaluation' = evaluation
<1> USE DEF HoldInv, IdsInv, TypeOK
<1>1. CASE p \in Requests /\ SetRecovery(p)
  BY <1>1 DEF SetRecovery, RowsOK, ProgressRows
<1>2. CASE p \in Requests /\ CommitSubmission(p)
  BY <1>2 DEF CommitSubmission, RowsOK, ActivityRows
<1>3. CASE p \in Workers /\ CommitFailure(p)
  BY <1>3 DEF CommitFailure, RowsOK, ActivityRows
<1> QED
  BY <1>1, <1>2, <1>3, Writers

(* What a verdict does to the passing submission of its chapter.           *)
LEMMA VerdictPasses ==
  ASSUME VerdictInv, NEW w \in Workers, CommitVerdict(w)
  PROVE  LET x == loc[w]
         IN  /\ \A s \in Ids : Passes(s) =>
                    s = x.id /\ Approving(pc[w], x, holds[w])
             /\ Approving(pc[w], x, holds[w]) => Passes(x.id)
<1> USE NoneAssumption DEF VerdictInv, HoldInv, IdsInv, TypeOK
<1> DEFINE x == loc[w]
<1>1. pc[w] = "finish" /\ x.chapter \in Chapters /\ x.verdict \in Verdict
      /\ evaluation[x.id] = None /\ x.id \in Ids
  BY VerdictWrites DEF CommitVerdict
<1>2. ASSUME NEW s \in Ids, Passes(s)
      PROVE  s = x.id /\ Approving(pc[w], x, holds[w])
  <2>1. PICK c \in Chapters : progress[c].passing # s /\ progress'[c].passing = s
    BY <1>2 DEF Passes
  <2>2. c = x.chapter /\ ProgressRow(c) \in holds[w] /\ x.seen # "passed"
        /\ progress'[c] = Advanced(progress[c], w)
    BY <2>1, VerdictWrites
  <2>3. resolve_status_after_evaluation(x.seen, x.verdict) = "passed" /\ s = x.id
    BY <2>1, <2>2, AdvancedFields
  <2>4. x.verdict = "approved"
    BY <1>1, <2>2, <2>3 DEF resolve_status_after_evaluation, next_status_for, Verdict
  <2> QED BY <1>1, <2>2, <2>3, <2>4 DEF Approving
<1>3. ASSUME Approving(pc[w], x, holds[w])
      PROVE  Passes(x.id)
  <2>1. progress'[x.chapter] = Advanced(progress[x.chapter], w) /\ x.seen # "passed"
    BY <1>3, VerdictWrites DEF Approving
  <2>2. resolve_status_after_evaluation(x.seen, x.verdict) = "passed"
    BY <1>3, <2>1 DEF Approving, resolve_status_after_evaluation, next_status_for
  <2>3. progress'[x.chapter].passing = x.id
    BY <2>1, <2>2, AdvancedFields
  <2>4. progress[x.chapter].passing # x.id
    BY <1>1 DEF StatusHasVerdict, Verdict
  <2> QED BY <1>1, <2>3, <2>4 DEF Passes
<1> QED
  BY <1>2, <1>3

LEMMA ApprovalStep ==
  ASSUME VerdictInv, NEW p \in Procs, Acts(p)
  PROVE  PassesOnce /\ CountsPassing /\ ResultsStay
<1> USE DEF VerdictInv, HoldInv, IdsInv, TypeOK
<1>1. CASE ~(p \in Workers /\ CommitVerdict(p))
  BY <1>1, ApprovalOthers DEF PassesOnce, CountsPassing, ResultsStay, Passes
<1>2. CASE p \in Workers /\ CommitVerdict(p)
  <2> DEFINE x == loc[p]
  <2>1. pc[p] = "finish" /\ x.id \in Ids /\ evaluation[x.id] = None /\ x.born \in Days
        /\ submission[x.id].born = x.born
    BY <1>2, VerdictWrites DEF CommitVerdict, Known, Locals
  <2>2. /\ evaluation'[x.id] = x.verdict
        /\ \A s \in Ids \ {x.id} : evaluation'[s] = evaluation[s]
    BY <1>2, VerdictWrites DEF RowsOK
  <2>3. \A d \in Days : activity'[d].approved =
            IF ActivityRow(d) \in holds[p] THEN activity[d].approved + 1
                                           ELSE activity[d].approved
    BY <1>2 DEF CommitVerdict, RowsOK, ActivityRows
  <2>4. Holding("finish", x, holds[p])
    BY <1>2, <2>1 DEF WorkersHold
  <2>5. PassesOnce
    <3> SUFFICES ASSUME NEW s \in Ids, Passes(s)
                 PROVE  /\ evaluation[s] = None /\ evaluation'[s] = "approved"
                        /\ submission[s].born = submission[s].charged =>
                              activity'[submission[s].charged].approved =
                                  activity[submission[s].charged].approved + 1
      BY DEF PassesOnce
    <3>1. s = x.id /\ Approving("finish", x, holds[p])
      BY <1>2, <2>1, VerdictPasses
    <3>2. submission[s].charged = x.born => ActivityRow(x.born) \in holds[p]
      BY <2>4, <3>1 DEF Holding, DayLocked
    <3> QED BY <2>1, <2>2, <2>3, <3>1, <3>2 DEF Approving
  <2>6. CountsPassing
    <3> SUFFICES ASSUME NEW d \in Days, activity'[d].approved # activity[d].approved
                 PROVE  /\ activity'[d].approved = activity[d].approved + 1
                        /\ \E s \in Ids : Passes(s) /\ submission[s].born = d
      BY DEF CountsPassing
    <3>1. ActivityRow(d) \in holds[p] /\ activity'[d].approved = activity[d].approved + 1
      BY <2>3
    <3>2. d = x.born /\ Approving("finish", x, holds[p])
      BY <2>4, <3>1 DEF Holding, OwnRows
    <3>3. Passes(x.id)
      BY <1>2, <2>1, <3>2, VerdictPasses
    <3> QED BY <2>1, <3>1, <3>2, <3>3
  <2>7. ResultsStay
    BY <2>1, <2>2 DEF ResultsStay
  <2> QED BY <2>5, <2>6, <2>7
<1> QED
  BY <1>1, <1>2

LEMMA ApprovalNext ==
  VerdictInv /\ [Next]_vars => [PassesOnce /\ CountsPassing /\ ResultsStay]_vars
<1> SUFFICES ASSUME VerdictInv, Next
             PROVE  PassesOnce /\ CountsPassing /\ ResultsStay
  OBVIOUS
<1>1. CASE Midnight \/ (\E s \in Ids : Duplicate(s))
  BY <1>1 DEF Midnight, Duplicate, rows, PassesOnce, CountsPassing, ResultsStay, Passes
<1>2. CASE \E p \in Procs : Acts(p)
  BY <1>2, ApprovalStep
<1> QED
  BY <1>1, <1>2 DEF Next, Acts, RequestActs, WorkerActs

(* A day counts an approval for the submissions created on it that passed  *)
(* their chapter, for each exactly once and for nothing else, whatever     *)
(* other executions do between the statements of a verdict and however     *)
(* late it lands (register_approval).                                      *)
THEOREM ApprovalReaches == Spec => ApprovalReachesItsDay
<1>1. VerdictInv /\ [Next]_vars =>
        [/\ \A s \in Ids : Passes(s) =>
               /\ evaluation[s] = None /\ evaluation'[s] = "approved"
               /\ LET d == submission[s].charged
                  IN  submission[s].born = d =>
                          activity'[d].approved = activity[d].approved + 1
         /\ \A d \in Days : activity'[d].approved # activity[d].approved =>
               /\ activity'[d].approved = activity[d].approved + 1
               /\ \E s \in Ids : Passes(s) /\ submission[s].born = d
         /\ \A s \in Ids : evaluation[s] # None => evaluation'[s] = evaluation[s]]_vars
  BY ApprovalNext DEF PassesOnce, CountsPassing, ResultsStay
<1> QED
  BY <1>1, VerdictInvariant, PTL DEF Spec, ApprovalReachesItsDay

-----------------------------------------------------------------------------
(* So a day never counts more approvals than it has approved submissions.  *)

ApprovedOf(d) == {s \in Ids : Exists(s) /\ evaluation[s] = "approved" /\ submission[s].born = d}

ApprovedBounded == \A d \in Days : activity[d].approved <= Cardinality(ApprovedOf(d))

ApprovedInv == VerdictInv /\ ApprovedBounded

LEMMA ApprovedGrows ==
  ASSUME VerdictInv, NEW p \in Procs, Acts(p), NEW d \in Days
  PROVE  /\ ApprovedOf(d) \subseteq ApprovedOf(d)'
         /\ \A s \in Ids : Passes(s) /\ submission[s].born = d =>
               s \in ApprovedOf(d)' /\ s \notin ApprovedOf(d)
         /\ IsFiniteSet(ApprovedOf(d)) /\ IsFiniteSet(ApprovedOf(d)')
<1> USE NoneAssumption DEF VerdictInv, HoldInv, IdsInv
<1>1. \A s \in Ids : evaluation[s] # None => evaluation'[s] = evaluation[s]
  BY ApprovalStep DEF ResultsStay
<1>2. ApprovedOf(d) \subseteq ApprovedOf(d)'
  BY <1>1, RowsStay DEF ApprovedOf, RowsKept, Verdict
<1>3. ASSUME NEW s \in Ids, Passes(s), submission[s].born = d
      PROVE  s \in ApprovedOf(d)' /\ s \notin ApprovedOf(d)
  <2>1. evaluation[s] = None /\ evaluation'[s] = "approved"
    BY <1>3, ApprovalStep DEF PassesOnce
  <2>2. EvaluatedExist'
    BY EvaluationsStep
  <2>3. Exists(s)'
    BY <2>1, <2>2 DEF EvaluatedExist, Verdict
  <2>4. Exists(s)
    BY <1>3, <2>3, RowsStay, ApprovalOthers, ProcsAssumption
    DEF Passes
  <2>5. submission'[s].born = d
    BY <1>3, <2>4, RowsStay DEF RowsKept
  <2> QED BY <2>1, <2>3, <2>5 DEF ApprovedOf, Verdict
<1>4. IsFiniteSet(ApprovedOf(d)) /\ IsFiniteSet(ApprovedOf(d)')
  <2>1. FiniteRows'
    BY FiniteStep
  <2>2. ApprovedOf(d) \in SUBSET {s \in Ids : Exists(s)}
        /\ ApprovedOf(d)' \in SUBSET {s \in Ids : Exists(s)'}
    BY DEF ApprovedOf
  <2> QED BY <2>1, <2>2, FS_Subset DEF FiniteRows
<1> QED
  BY <1>2, <1>3, <1>4

LEMMA ApprovedStep ==
  ASSUME ApprovedInv, NEW p \in Procs, Acts(p), NEW d \in Days
  PROVE  activity'[d].approved <= Cardinality(ApprovedOf(d)')
<1> USE DEF ApprovedInv
<1>1. /\ Cardinality(ApprovedOf(d)) \in Nat /\ Cardinality(ApprovedOf(d)') \in Nat
      /\ Cardinality(ApprovedOf(d)) <= Cardinality(ApprovedOf(d)')
  BY ApprovedGrows, FS_CardinalityType, FS_Subset
<1>2. activity[d].approved \in Nat /\ activity[d].approved <= Cardinality(ApprovedOf(d))
  BY DEF ApprovedBounded, VerdictInv, HoldInv, IdsInv, TypeOK, RowsOK, ActivityRows
<1>3. CASE activity'[d].approved = activity[d].approved
  BY <1>1, <1>2, <1>3
<1>4. CASE activity'[d].approved # activity[d].approved
  <2>1. PICK s \in Ids : Passes(s) /\ submission[s].born = d
    BY <1>4, ApprovalStep DEF CountsPassing
  <2>2. activity'[d].approved = activity[d].approved + 1
    BY <1>4, ApprovalStep DEF CountsPassing
  <2>3. s \notin ApprovedOf(d) /\ ApprovedOf(d) \cup {s} \in SUBSET ApprovedOf(d)'
    BY <2>1, ApprovedGrows
  <2>4. /\ Cardinality(ApprovedOf(d) \cup {s}) = Cardinality(ApprovedOf(d)) + 1
        /\ Cardinality(ApprovedOf(d) \cup {s}) <= Cardinality(ApprovedOf(d)')
    BY <2>3, ApprovedGrows, FS_AddElement, FS_Subset
  <2> QED BY <1>1, <1>2, <2>2, <2>4
<1> QED
  BY <1>3, <1>4

LEMMA ApprovedInvariant == Spec => []ApprovedInv
<1>1. Init => ApprovedBounded
  <2> SUFFICES ASSUME Init, NEW d \in Days
               PROVE  activity[d].approved <= Cardinality(ApprovedOf(d))
    BY DEF ApprovedBounded
  <2>1. ApprovedOf(d) = {} /\ activity[d].approved = 0
    BY DEF Init, NoRow, ApprovedOf, Exists
  <2> QED BY <2>1, FS_EmptySet
<1>2. ApprovedInv /\ [Next]_vars => ApprovedBounded'
  <2> SUFFICES ASSUME ApprovedInv, [Next]_vars PROVE ApprovedBounded'
    OBVIOUS
  <2>1. CASE Midnight \/ (\E s \in Ids : Duplicate(s)) \/ UNCHANGED vars
    <3>1. UNCHANGED <<submission, evaluation, activity>>
      BY <2>1, WorldNext DEF rows
    <3> QED BY <3>1 DEF ApprovedInv, ApprovedBounded, ApprovedOf, Exists
  <2>2. CASE \E p \in Procs : Acts(p)
    BY <2>2, ApprovedStep DEF ApprovedBounded
  <2> QED BY <2>1, <2>2 DEF Next, Acts, RequestActs, WorkerActs
<1> QED
  BY <1>1, <1>2, VerdictInvariant, PTL DEF Spec, ApprovedInv

(* However many verdicts are delivered twice, overlap or come late, a day  *)
(* never counts more approvals than it has approved submissions.           *)
THEOREM ApprovalsCountedOnce == Spec => []ApprovedBounded
<1>1. ApprovedInv => ApprovedBounded
  BY DEF ApprovedInv
<1> QED
  BY <1>1, ApprovedInvariant, PTL

-----------------------------------------------------------------------------
(* A day has charged exactly the submissions it may still correct.         *)

Live(d) == {s \in Charged(d) : submission[s].status # "failed"}

\* Unless a submission straddled midnight, a failure about to be committed
\* has found its tick to refund.
RefundReady ==
    NoSkew => \A w \in Workers :
        pc[w] = "finish_failure" => ActivityRow(loc[w].born) \in holds[w]

TickInv == /\ CounterInv /\ LifecycleInv /\ HoldInv /\ FiniteRows
           /\ TicksExact /\ RefundReady

LEMMA LiveFinite ==
  ASSUME FiniteRows, NEW d
  PROVE  IsFiniteSet(Live(d)) /\ Cardinality(Live(d)) \in Nat
<1>1. Live(d) \in SUBSET {s \in Ids : Exists(s)}
  BY DEF Live, Charged
<1> QED
  BY <1>1, FS_Subset, FS_CardinalityType DEF FiniteRows

LEMMA SkewStays ==
  ASSUME IdsInv, NEW p \in Procs, Acts(p), NoSkew'
  PROVE  NoSkew
  BY RowsStay DEF RowsKept, NoSkew

(* The submission a worker is at work on is live, on the day it was        *)
(* created unless it straddled midnight.                                   *)
LEMMA WorkIsLive ==
  ASSUME TickInv, NoSkew, NEW w \in Workers, pc[w] # "idle"
  PROVE  /\ loc[w].id \in Live(loc[w].born) /\ loc[w].born \in Days
         /\ activity[loc[w].born].count = Cardinality(Live(loc[w].born))
         /\ activity[loc[w].born].count > 0
<1> USE DEF TickInv, LifecycleInv, IdsInv
<1> DEFINE s == loc[w].id
           d == loc[w].born
<1>1. s \in Ids /\ d \in Days
  BY DEF TypeOK, ArgumentsOK, Locals
<1>2. Exists(s) /\ submission[s].born = d /\ submission[s].status = "evaluating"
  BY DEF Known, AtWork
<1>3. s \in Live(d)
  BY <1>1, <1>2 DEF NoSkew, Live, Charged
<1>4. activity[d].count = Cardinality(Live(d))
  BY <1>1 DEF TicksExact, Live
<1>5. Cardinality(Live(d)) \in Nat /\ Cardinality(Live(d)) # 0
  <2>1. IsFiniteSet(Live(d)) /\ Cardinality(Live(d)) \in Nat
    BY LiveFinite
  <2>2. Cardinality(Live(d)) = 0 => Live(d) = {}
    BY <2>1, FS_EmptySet
  <2> QED BY <1>3, <2>1, <2>2
<1> QED
  BY <1>1, <1>3, <1>4, <1>5

LEMMA TicksStep ==
  ASSUME TickInv, NEW p \in Procs, Acts(p)
  PROVE  TicksExact'
<1> USE DEF TickInv, LifecycleInv, HoldInv, IdsInv
<1> SUFFICES ASSUME NoSkew', NEW d \in Days
             PROVE  activity'[d].count = Cardinality(Live(d)')
  BY DEF TicksExact, Live
<1>0. NoSkew /\ activity[d].count = Cardinality(Live(d)) /\ IsFiniteSet(Live(d))
      /\ Cardinality(Live(d)) \in Nat
  BY SkewStays, LiveFinite DEF TicksExact, Live
<1>l. Live(d)' = {s \in Ids : /\ submission'[s].status \notin {"none", "failed"}
                              /\ submission'[s].charged = d}
  BY DEF Live, Charged, Exists
<1>m. Live(d) = {s \in Ids : /\ submission[s].status \notin {"none", "failed"}
                             /\ submission[s].charged = d}
  BY DEF Live, Charged, Exists
<1>1. CASE p \in Requests /\ CommitSubmission(p)
  <2> DEFINE id == loc[p].id
  <2>1. /\ id \in Ids /\ loc[p].day \in Days /\ submission[id].status = "none"
        /\ submission'[id].status = "evaluating" /\ submission'[id].charged = loc[p].day
        /\ \A s \in Ids \ {id} : submission'[s] = submission[s]
    BY <1>1, NewRow DEF Exists
  <2>2. activity'[d].count = IF d = loc[p].day THEN activity[d].count + 1 ELSE activity[d].count
    BY <1>1, <2>1 DEF CommitSubmission, TypeOK, RowsOK
  <2>3. Live(d)' = (IF d = loc[p].day THEN Live(d) \cup {id} ELSE Live(d)) /\ id \notin Live(d)
    BY <2>1, <1>l, <1>m
  <2>4. Cardinality(Live(d) \cup {id}) = Cardinality(Live(d)) + 1
    BY <1>0, <2>3, FS_AddElement
  <2> QED BY <1>0, <2>2, <2>3, <2>4
<1>2. CASE p \in Workers /\ CommitVerdict(p)
  <2> DEFINE id == loc[p].id
  <2>1. pc[p] # "idle"
    BY <1>2, RowOfWorker
  <2>2. /\ id \in Ids /\ submission[id].status = "evaluating"
        /\ \A s \in Ids \ {id} : submission'[s] = submission[s]
        /\ \A s \in Ids : submission'[s].charged = submission[s].charged
    BY <1>2, <2>1, RowOfWorker DEF AtWork
  <2>3. submission'[id].status = "evaluated"
    BY <1>2, <2>2, StatusChange DEF CommitVerdict, TypeOK
  <2>4. Live(d)' = Live(d)
    BY <2>2, <2>3, <1>l, <1>m
  <2>5. activity'[d].count = activity[d].count
    BY <1>2 DEF CommitVerdict, TypeOK, RowsOK, ActivityRows
  <2> QED BY <1>0, <2>4, <2>5
<1>3. CASE p \in Workers /\ CommitFailure(p)
  <2> DEFINE id == loc[p].id
  <2>1. pc[p] = "finish_failure"
    BY <1>3 DEF CommitFailure
  <2>2. /\ id \in Ids /\ submission[id].status = "evaluating"
        /\ \A s \in Ids \ {id} : submission'[s] = submission[s]
        /\ \A s \in Ids : submission'[s].charged = submission[s].charged
    BY <1>3, <2>1, RowOfWorker DEF AtWork
  <2>3. submission'[id].status = "failed"
    BY <1>3, <2>2, StatusChange DEF CommitFailure, TypeOK
  <2>4. Live(d)' = Live(d) \ {id}
    BY <2>2, <2>3, <1>l, <1>m
  <2>5. ActivityRow(d) \in holds[p] <=> d = loc[p].born
    BY <1>0, <1>3, <2>1 DEF RefundReady, WorkersHold, Holding, OwnRows
  <2>6. id \in Live(d) <=> d = loc[p].born
    <3>1. id \in Live(loc[p].born)
      BY <1>0, <1>3, <2>1, WorkIsLive
    <3> QED BY <3>1 DEF Live, Charged
  <2>7. activity'[d].count =
            IF d = loc[p].born THEN activity[d].count - 1 ELSE activity[d].count
    BY <1>3, <2>5 DEF CommitFailure, TypeOK, RowsOK, ActivityRows
  <2>8. id \in Live(d) => Cardinality(Live(d) \ {id}) = Cardinality(Live(d)) - 1
    BY <1>0, FS_RemoveElement
  <2>9. id \notin Live(d) => Live(d) \ {id} = Live(d)
    OBVIOUS
  <2> QED BY <1>0, <2>4, <2>6, <2>7, <2>8, <2>9
<1>4. CASE submission' = submission /\ activity' = activity
  BY <1>0, <1>4, <1>l, <1>m
<1> QED
  BY <1>1, <1>2, <1>3, <1>4, Writers DEF SetRecovery

LEMMA ReadyStep ==
  ASSUME TickInv, NEW p \in Procs, Acts(p)
  PROVE  RefundReady'
<1> USE DEF TickInv, LifecycleInv, HoldInv, IdsInv
<1> SUFFICES ASSUME NoSkew', NEW w \in Workers, pc'[w] = "finish_failure"
             PROVE  ActivityRow(loc'[w].born) \in holds'[w]
  BY DEF RefundReady
<1>0. NoSkew
  BY SkewStays
<1>1. CASE w # p
  <2>1. pc'[w] = pc[w] /\ loc'[w] = loc[w] /\ holds'[w] = holds[w]
    BY <1>1, RequestLocal, WorkerLocal DEF Acts, OthersWait
  <2> QED BY <1>0, <2>1 DEF RefundReady
<1>2. CASE w = p
  <2>1. WithdrawSubmission(w)
    <3> USE DEF TypeOK, ControlOK, Goto
    <3>1. ~End(w)
      BY EndLocal
    <3>2. ASSUME NEW label \in WorkerPCs \ {"finish_failure"}, Goto(w, label) PROVE FALSE
      BY <3>2
    <3>3. ASSUME NEW s \in Ids, Deliver(w, s) PROVE FALSE
      BY <3>3 DEF Deliver
    <3> QED
      BY <1>2, <3>1, <3>2, <3>3, ProcsAssumption
      DEF Acts, WorkerActs, WorkerStep, Grade, StoreEvaluation, MarkEvaluated, ReadStatus,
          ApplyResult, RegisterApproval, DiscardDraft, CommitVerdict, EvaluationRaises,
          ReadFailed, MarkFailed, CommitFailure, WorkerDies, WorkerPCs, GradedPCs, FailurePCs
  <2>2. loc' = loc /\ activity[loc[w].born].count > 0
    BY <1>0, <2>1, WorkIsLive DEF WithdrawSubmission
  <2>3. Lock(w, ActivityRow(loc[w].born))
    BY <2>1, <2>2 DEF WithdrawSubmission
  <2> QED BY <2>2, <2>3, LockLocal
<1> QED
  BY <1>1, <1>2

LEMMA TickInvariant ==
  ASSUME ~Overlap
  PROVE  Spec => []TickInv
<1>1. Init => TicksExact /\ RefundReady
  <2> SUFFICES ASSUME Init PROVE TicksExact /\ RefundReady
    OBVIOUS
  <2>1. \A d : Live(d) = {}
    BY DEF Init, NoRow, Live, Charged, Exists
  <2>2. \A d : Cardinality(Live(d)) = 0
    BY <2>1, FS_EmptySet
  <2>3. TicksExact
    BY <2>2 DEF Init, TicksExact, Live
  <2> QED BY <2>3 DEF Init, RefundReady
<1>2. TickInv /\ [Next]_vars => TicksExact' /\ RefundReady'
  <2> SUFFICES ASSUME TickInv, [Next]_vars PROVE TicksExact' /\ RefundReady'
    OBVIOUS
  <2>1. ASSUME NEW p \in Procs, Acts(p) PROVE TicksExact' /\ RefundReady'
    BY <2>1, TicksStep, ReadyStep
  <2>2. CASE Midnight \/ (\E s \in Ids : Duplicate(s)) \/ UNCHANGED vars
    <3>1. UNCHANGED <<submission, activity, pc, loc, holds>>
      BY <2>2, WorldNext DEF rows
    <3> QED BY <3>1 DEF TickInv, TicksExact, RefundReady, NoSkew, Charged, Exists
  <2> QED BY <2>1, <2>2 DEF Next, Acts, RequestActs, WorkerActs
<1> QED
  BY <1>1, <1>2, CounterInvariant, LifecycleInvariant, HoldInvariant, FiniteInvariant, PTL
  DEF Spec, TickInv

(* Unless two executions of one event overlap, and unless a submission      *)
(* straddled midnight, the counter of a day is the number of its            *)
(* submissions that are, or may still be, corrected: a failure refunds its  *)
(* own tick exactly once (record_evaluation_failure.py).                    *)
THEOREM TicksCounted ==
  ASSUME ~Overlap
  PROVE  Spec => []TicksExact
<1>1. TickInv => TicksExact
  BY DEF TickInv
<1> QED
  BY <1>1, TickInvariant, PTL

=============================================================================
