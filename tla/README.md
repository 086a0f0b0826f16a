# A TLA+ model of the Argumenta API

Argumenta is the backend of a writing game: a student works through stories made of chapters, submits an
argumentative text to each chapter, an LLM grades the text, a deterministic rule turns the grades into a
verdict, and the verdict moves the chapter on. This directory models the parts of it where the order of
steps matters, checks them with TLC and proves the main invariants with TLAPS. Paths below are relative to
the repository; `argumenta/` stands for `src/argumenta/`.

## 1. Inventory

One AWS Lambda function serves everything (`infrastructure/main.tf`): an HTTP event runs one request of the
FastAPI application, a task event runs the evaluation worker (`entrypoints/lambda_handler.py`). Executions
share nothing but the PostgreSQL database. A request is one transaction (`presentation/fastapi/dependencies.py`,
`get_db`), a worker execution one, plus a second one when the first failed. Three jobs run beside them, each
in one transaction: the purge, the streak reminders (`entrypoints/purge_accounts.py`, `remind_streak.py`) and
the content seed of every deploy (`seed_content.py`).

| Part | State it keeps | Operations | What makes it correct |
|---|---|---|---|
| Submission lifecycle | `submissions`, `evaluations`, `chapter_progress` | submit, dispatch, evaluate, store the verdict, advance the chapter, record a failure | one evaluation per submission, no verdict lost or applied twice, passed and evaluated are final, nothing stays evaluating |
| Daily limit | `daily_activity` | take a tick, refund it, count an approval | never above the limit, exactly the corrections that happened are paid |
| Drafts, recovery scene | `drafts`, `chapter_progress` | autosave, discard, start the recovery | no draft of a passed chapter, no scene without its verdict |
| Polling, history | none (reads) | get a submission, list attempts | a result exactly when evaluated |
| Evaluation pipeline | none (a call) | budget gate, engine call, contract check, verdict rule | verdict decided by the base dimensions and the ruler alone |
| Exam lenses | none (pure) | what to grade, how to show it | every stored correction has a total |
| Track | `chapter_progress` | unlock the next chapter on reading the track, derive story states | chapters open in order, an unlock never undoes progress |
| Streaks | none (reads `daily_activity`) | current and longest streak, streaks at risk | the three agree on what a streak is |
| Streak reminders | `users.last_streak_reminder_at`, `push_devices` | find who is at risk, send in chunks, retire dead tokens, mark | one reminder a day, unless a run failed |
| Reactions, LLM budget | `character_reactions`, token sums | get or create the line of a character, gate by the month's tokens | one line per beat, every billed token counted |
| Accounts, sessions | `users`, `auth_identities`, JWTs | register, log in, refresh, delete, purge | one live account per e-mail and per Google subject, nothing of a deleted account works |
| Exam targets | `user_exam_targets` | add, remove, activate | at most one active target |
| Push devices | `push_devices` | register, unregister | a token belongs to one account |
| Rate limiter | memory of one process | check, reset | at most N attempts in any window |
| Telemetry | `telemetry_events` | record a batch | only own submissions are referenced |
| Progress statistics | none (reads) | trends, streaks, milestones | a milestone once shown stays |
| Content and its seeds | `themes`, `stories`, `characters`, `chapters`, `chapter_beats` | insert a story once, list what is published, the scene of a chapter | a story is there as a whole, once, and can be played through |
| Routes, observability, spelling, OAuth and push clients | | | not modelled, see section 7 |

Hard behaviours: requests and workers interleave at READ COMMITTED with reads that take no lock; the
evaluation holds a status read minutes old when it writes; the dispatcher commits before it hands off;
asynchronous invokes are repeated and retried; an execution can be killed at its timeout; two clocks (the
start of the transaction in the database, `datetime.now` in the code) decide on which day something counts.
`PROJECT.json` lists each hazard at its line with the properties that watch it.

## 2. The core: `Submissions`

`Submissions.tla` models one student (every row involved is keyed by the user) with `Requests` HTTP
executions and `Workers` worker executions.

| Variable | Code |
|---|---|
| `submission` | table `submissions`: status, chapter, attempt number, `born` the day of `created_at`; `charged` is a history field, the day whose tick was taken |
| `evaluation` | the current row of `evaluations` of a submission: its verdict, or none |
| `progress` | table `chapter_progress`: status, attempts, passing submission |
| `activity` | table `daily_activity`, one row per day: whether it exists, submissions and approvals counted |
| `draft` | whether `drafts` has a live row of the chapter |
| `today`, `queue` | the UTC day, the pending task events of each submission |
| `crashes`, `duplicates` | how often the environment misbehaved, to bound it |
| `pc`, `holds`, `loc` | the statement each execution is at, its row locks, what it has read |

**Transactions.** A statement of the code is an action. Reads see committed rows. A write takes a row or
key lock (`Lock`) which it keeps until the transaction ends, and waits while another execution has it. No
transaction of this component writes one row twice, so the effect of its writes is applied by its commit
(`CommitSubmission`, `CommitVerdict`, `CommitFailure`); a rollback only forgets (`End`). An `ON CONFLICT`
upsert, a unique index and an `UPDATE ... WHERE` evaluate their condition on the row as it is once the lock
is theirs, as PostgreSQL does.

**Requests.** `SubmitGate` (the transaction starts, the status is read) · `SubmitClock` (the day of the tick)
· `RegisterSubmission` or `DailyLimitReached` · `ReadAttempt` (max + 1, no lock) · `InsertSubmission` or
`InsertConflicts` · `CommitSubmission` (the dispatcher commits) · `Invoke` or `InvokeFails`. `DraftGate`,
`SaveDraft` are the autosave, `RecoveryGate`, `SetRecovery` the recovery scene. `RequestDies` rolls back.

**Workers.** `Deliver` (an event starts an execution; a submission that is not evaluating is left alone) ·
`Grade` (the engine answers, any verdict) · `StoreEvaluation` · `MarkEvaluated` · `ReadStatus` ·
`ApplyResult` · `RegisterApproval` · `DiscardDraft` · `CommitVerdict`. `EvaluationRaises` undoes it and goes
on to `ReadFailed` · `MarkFailed` · `WithdrawSubmission` · `CommitFailure`. `WorkerDies` is a kill or a
second exception: the event is retried, or dropped when `MayDrop` holds. `Duplicate` repeats an event.

**Environment switches.** `Overlap` (may two executions of one event run at once?), `InvokeMayFail` and
`MayDrop` separate what holds always from what holds only while the platform behaves.

**Abstracted.** Texts, word counts, scores, annotations and the tables below an evaluation (the verdict
stands for them); the main/recovery context of a submission, which nothing decides on; ids are picked at the
gate rather than by the insert; soft deletes of submissions and progress, which no code here performs;
chapters are already unlocked (unlocking is the track's).

### The pipeline inside `Grade`: `Verdicts`

In `Submissions` the action `Grade` takes any verdict. `Verdicts.tla` says which one, for several students
who hand in the same text against the same chapter (a confronto or a boss), each with an exam of their own.

| Variable | Code |
|---|---|
| `kind` | `chapters.kind` |
| `grades` | what the engine thinks of the text in each dimension; the text itself is not in the model |
| `active` | the active row of `user_exam_targets` of each student, or none |
| `stage`, `exam` | where the worker is in `EvaluateSubmissionUseCase`, and the exam it read |
| `correction` | the rows of `evaluations` and `evaluation_scores`: verdict, scores, exam |

`Begin` reads the exam and settles what is asked of the engine; `PipelineRaises` is a spent budget, a provider
error or an invalid payload; `Grade` is the answer, its contract check (`ensure_graded_exactly`), the rule
(`decide_verdict`) and the row; `ChangeExam` may come at any time. The answer lists for each dimension the
scores it was given: as asked, one missing, one twice, one under another's name, or with a dimension nobody
asked for. Averages are compared without division; the lens (`project_lens`) rounds halves up in integers.
Scores are the same for both students because the property is about everything else: an engine that grades
one text differently twice is outside it.

### The track: `Track` implements `TrackOrder`

`TrackOrder.tla` is the promise: a set of open chapters and a set of passed ones, `Open(c)` only when every
chapter before `c` is passed, `Pass(c)` only of an open one, nothing ever taken back. `Track.tla` is the code.

| Variable | Code |
|---|---|
| `progress` | the status in `chapter_progress`; `"locked"` stands for no row, as `status_of` reads it |
| `passing` | the chapters whose `passing_submission_id` is set |
| `reader` | a `GET /track`: the statuses it read, then those it answered with |
| `writer` | a text on its way to a verdict, or a recovery request: the chapter, the status read |

`ReadStatuses` then `Unlock` are `GetTrackUseCase` (the upsert writes only where there is no row), `Submit`,
`ReadStatus`, `ApplyResult` the life of a text as the track sees it, `RecoveryGate`, `SetRecovery` the recovery
scene. The stories' states and the chapter each one offers (`derive_story_state`, `Cursor`) are operators over
a reading. The refinement maps `open` to the chapters with a row and `passed` to `passing`: not to the status,
which a late verdict can take back (`passed_is_final`). When that has happened the promise still holds, but a
later story may offer a chapter that is still locked. `OffersOpenChapters` speaks of every reading and says that this is
the only way to it: what an answer offers has a row, or lies behind a chapter it shows as taken back (`TakenBack`), one
with a passing submission, no longer passed, before one that is open. Without the exception TLC finds the locked offer.
`StoriesInTurn` is stated for readings in order only. `ChapterStates.tla` has the rules of `domain/submission.py` both models use.

A published story has a chapter (the seeds have no other), and the published content does not change. A commit
that fails after the answer was sent is not modelled.

### Reactions and the month's budget: `Reactions`

| Variable | Code |
|---|---|
| `month` | the month of the clock |
| `evaluations`, `reactions` | the committed rows of `evaluations` and `character_reactions`: verdict or line, tokens (both directions), the month of `created_at` |
| `step`, `asked`, `since`, `seen`, `made`, `held` | a request or a worker: where it is, its submission, the month its transaction began in, what the first sum of the check returned, what the engine returned, the row it wrote and has not committed |
| `answers`, `billed`, `spentAtCheck`, `calls` | history: lines shown, tokens of committed calls, the month's true sum when a check began, calls so far |

A submission stands for its worker too, which passes the same check before it grades. `AskStored` and
`AskMissing` are the lookup of `GetCharacterReactionUseCase`, `SumEvaluations`, `WithinBudget` and
`OverBudget` are `ensure_within_budget` (two statements, so the rows change in between), `Generate`, `Evaluate`
and `EngineFails` the call, `StoreOrGet` the upsert, which waits for the key, `Commit` the end of the request.
Falling back to the authored line stores nothing, so only the end of the request is seen. A call that fails is
billed nothing in the model: the code could not count it either.

### Accounts, devices, lenses and the jobs over them: `Accounts`

| Variable | Code |
|---|---|
| `db` | the committed rows of `users`, `auth_identities`, `push_devices`, `user_exam_targets`; a request creates at most one row of each table, so a row is named by its table and its request |
| `pending` | what each open transaction has written and not committed: an overlay over `db` |
| `pc`, `cmd`, `begun`, `memo` | the statement a transaction is at, the command of a request, the `now()` of its transaction, what it keeps of its reads |
| `attempts` | `SlidingWindowRateLimiter._attempts`, of one process |
| `clock` | a tick is a day for the purge and the reminders; the login window counts ticks of its own |
| `plan`, `runs`, `crashes` | the scenario, and the bounds used up so far |
| `beside`, `tried`, `notified` | history, for the properties only |

**Statements and locks.** A write is one action and goes through `Statement(p, next)`: it waits while
`Blockers` is not empty (another transaction wrote the row, holds one of its unique keys, or is on the other side
of a foreign key), and ends the request when an index or a foreign key refuses it (`Refused`). Once unblocked it
sees the committed rows, as an `UPDATE` re-evaluates its condition on the row it has waited for; only the first
`UPDATE` of `set_active` may find no row it would find later, so the rows of its snapshot are read in
`FindActive`. When transactions wait for each other, `BreakDeadlock` rolls one back.

**Requests.** Registration and Google sign-in (`FindSubject`, `FindEmail`, `InsertUser`, `InsertIdentity`), login
behind the limiter (`CheckLimit`, `LoginEmail`, `Verify`, `ResetLimit`), `Rename`, deletion (`Delete`,
`DeleteAgain`, `RetireCredentials`), devices (`Register`, `Unregister`), targets (`TargetExists`, `IsFirst`,
`Add`, `GetTarget`, `Remove`, `FindActive`, `Clear`, `Set`). `Begin` asks, as `get_current_user_id` does, that the
account of a session is live. Everything ends in `Commit`, in a refusal or in `RequestDies`.

**Jobs.** `DueForPurge`, `PurgeNext`, `Commit` are a batch of the purge, `PurgeDies` a run that fails.
`RemindBegins`, `AtRisk`, `GetTokens`, `SendSome`, `UnregisterDead`, `MarkSent`, `Commit` are a run of the reminders;
any users may be at risk, since what they practised is not in this module (`Habit` has the query).

What the properties say, and where they stop. `ports.py` promises that identities and devices of a deleted account
"stop working at once": a Google identity or a device another transaction inserts beside the deletion is not seen
by its `UPDATE` and works until the purge, and `OnlyLateArrivals` says that nothing else does. While it is there, its Google
subject cannot sign up again, and its device is reminded by every run, since `already_reminded` asks for live
accounts (`RemindedOnce` says so). The reminder job retires devices and then writes users, a deletion writes the
user and then the devices: they can deadlock, and if the job is the victim it has sent and marks nobody.
`DeadlocksNeedTheReminder` shows that this is the only pair. `GuessesBounded` is about one process.

Left out: nicknames and password hashes; a Google e-mail that is not verified (refused before anything is read);
the time between the limiter's reading of its clock and its lock; the tables below `users` that the purge empties by
the same cascade.

### Content: `SeedForms`, `TutorialSeed`, `EnemCareSeed`, `FuvestTrafficSeed`, `Content`

`SeedForms` has the dataclasses of `adapters/db/seed/story.py`; the three seed modules are the three stories, with their
characters, chapters, word limits and rulers. All thirteen chapters tell their beats in one form (`Told`): which
branch and type, in which order, and who speaks. What is said is left out.

`content` holds the committed rows of the five tables, `seeder` the runs of `seed_content.py`: at which statement,
with which rows written. `LookUp`, `FindTheme`, `InsertStory`, `InsertCharacters`, `InsertChapter` are
`insert_story`; `CommitSeed` and `SeederDies` end a run. `InsertStory` waits for a run that holds the slug or the position and is
refused when that run commits. Themes have no index of their own: what keeps them single is that the same transaction
goes on to the story's slug. Deploys are serialised by the pipeline, so overlapping runs are a deploy and a `make
seed` by hand. `list_published_stories`, `get_chapter` and `list_beats` are what the readers see.

### One student over the weeks: `Habit` and `Journey`

`Habit` has the loops of `domain/habit.py` and the query of the streaks at risk. `Journey` composes it with the
content, the track and the chapter rules: `statuses` (`chapter_progress`), `count` (`daily_activity`), `text` (texts on
their way to a verdict, with the status their worker read), `page` (what `GetProgressUseCase` has read so far: the
practice days, then the stories, then the praises, then the bosses, each a statement of its own) and `shown`, the
milestones of the last screen. `lost` is history: a practice day that was refunded away, a passed chapter a late verdict
took back. The statements inside a submission are those of `Submissions`; a recovery request is one step here.

The scenarios of `MCJourney` are the questions: `Releases`, two seed runs over none to three released stories,
under a student who goes on playing; `Calendar`, a week of texts of which any may be refunded; `Screens`, the end of the
tutorial with two texts on their way and the screen open; `Streaks`, the screen over a streak that is made, refunded and broken.

## 3. Runs

| Run | Bounds | Shows |
|---|---|---|
| `submissions_day` | 3 submissions, 1 chapter, 2 requests, 2 workers, limit 2, one day, 1 crash, 1 duplicate, hand-offs fail, events may be dropped | `DailyCap`, `TicksExact`, `AttemptsMatchVerdicts`, `ResultExactlyWhenEvaluated` |
| `submissions_midnight` | 2 submissions, 2 chapters, 2 requests, 2 workers, limit 1, two days, 1 crash | `AttemptsContiguous`, `CollisionsStraddleMidnight`, `NoOrphan`, `StatusHasVerdict`, `ApprovalReachesItsDay` |
| `submissions_settle` | 2 submissions, 1 chapter, 2 requests, 2 workers, limit 1, 1 crash, 1 duplicate, overlapping executions, fairness | `TypeOK`, `NoLockCycle`, `EventuallySettled` |
| `verdicts` | 2 students, both kinds, 3 scores (one under, on and above the floor), every order of exam changes | `TypeOK`, `ExamBlind`, `NeverDistorted`, `HonestTotal`, `BetterNeverWorse` |
| `track` | 3 chapters, stories of 1 and 2, 2 readers, 2 writers | `TypeOK`, `OffersOpenChapters`, `StoriesInTurn`, `OpensInOrder`, `StartedNeverReset` |
| `reactions` | 2 submissions, 2 requests, 2 lines, calls of 1 or 2 tokens, budget 3, 5 calls, 2 months | `TypeOK`, `AnswersAreStored`, `TokensOfBeat`, `NoCallOnceSpent`, `StoredLineStays` |
| `accounts` | 2 requests, 2 old accounts, both jobs, batch, chunk, window and login limit 1, grace 1, four groups of scenarios (credentials, phones, lenses, departures) | `TypeOK`, `LiveHasCredential`, `OnlyLateArrivals`, `ExactlyOneLens`, `GuessesBounded`, `RemindedOnce`, `DeadlocksNeedTheReminder`, `GraceKept`, `ActivationLands`, `TracesLeave` |
| `journey` | the 3 stories, 2 seed runs, 2 texts, limit 2, a "week" of 2 days, up to 7 days, four groups of scenarios | `StoriesWhole`, `StreaksAgree`, `MilestonesStay` |
| `passed_is_final` | 2 submissions in flight | violated: see below |
| `hand_off` | 1 submission, the invoke fails | violated |
| `draft_erased` | 1 submission, an autosave | violated |
| `refund_day` | 1 submission, two days | violated |

**Why these bounds are enough.** The races of this code are between two executions over one row, or one
execution and itself across a crash; two requests and two workers give every pair, and a limit of 1 or 2
with one submission more than the limit reaches it, passes it after a refund and fills it again. Attempts
collide with two submissions. Two days are needed to tell the two clocks apart, a third adds nothing since
a transaction spans at most the day it starts and the next. `CHECK_DEADLOCK FALSE`: ids and days are bounded, and a student who
submits no more leaves the system at rest.

In `verdicts`, with the floor 50 and the minimum 60 of a shipped story, the scores 49, 50 and 81 give averages
on both sides of the minimum with and without a dimension under the floor, and halves to round; two students
give every pair of exams.

In `track` the stories of one and two chapters have a boundary before an unlock and one inside a story; a second
reader unlocks what the first one decided on, and a second writer takes a passed chapter back.

In `reactions`, five calls grade both submissions, lose a race and retry after a rollback; the budget of 3 is
reached by two calls, so every order of a check and a commit around it occurs. `CHECK_DEADLOCK FALSE`: the calls
are bounded.

In `accounts`, a race is between two requests, or a request and a job: two requests and both jobs give every pair and
the triples with a job. Grace 1 lets an account be deleted, wait and be purged within two ticks, with a failed purge on the
way; batch and chunk 1 make every batch stop in the middle, two reminder runs make the second meet what the first left. The scenarios
keep apart commands that share no row. In `journey` the content is whole, nothing of it is made smaller; only numbers of days are: a limit of 2
instead of 3 and a week of 2 days instead of 7, both of which are reached, passed and missed. Seven days cover every
pattern of a week for the streak loops. `CHECK_DEADLOCK FALSE` in both: requests, texts and days are bounded.

**Fairness** (`FairSpec`). A started execution takes its next step: statements and engine calls have
timeouts, and row locks are released by executions that are themselves fair (`NoLockCycle` shows no cycle).
A pending event finds an execution: that is what an asynchronous invoke promises. No fairness is asked of
students, of the clock or of failures. `EventuallySettled` additionally has no dropped events and one crash,
which the retries of the platform cover. In `accounts`, `WF_vars(Progress)`: the clock goes on, requests that have
begun take their next statement, the purge is run again and again, deadlocks are broken by the database. The purge is
"meant to run scheduled" (`entrypoints/purge_accounts.py:2`), but nothing in the repository schedules it:
`infrastructure/main.tf` has no such rule, the one workflow with a schedule is `calibration.yml`, and the `Makefile` has
`make purge` for a hand. That it runs again and again is therefore an assumption about operations, which the code does not
justify, and `TracesLeave` rests on it: where nobody runs the purge, the traces of a deleted account stay. The same is
true of the reminder job, of which no fairness is asked, nor of students or of failures. `TracesLeave` has one failed
purge run. `journey` has no fairness: it states no liveness.

**Disagreements with the repository's own words.** Each of these runs checks a sentence of the repository
and TLC gives the steps that break it.

- `passed_is_final`: "passed is final, a late verdict never regresses" (`domain/submission.py`). Two
  submissions of one chapter in flight; both workers read `drafting`, one passes the chapter, the other one
  then writes its failure over `passed`. `apply_result` updates unconditionally.
- `hand_off`: the tick "rolls back with the request transaction if the hand-off fails"
  (`submit_argument.py`). The Lambda dispatcher commits first, so nothing is left to roll back; the
  submission stays evaluating and costs a tick.
- `draft_erased`: the draft is erased when the chapter is approved (`docs/DER.md`). An autosave that passed
  its check before the approval committed revives it.
- `refund_day`: a failure "refunds the daily tick" (`record_evaluation_failure.py`). The tick is charged to
  `datetime.now` and refunded to `created_at`; across midnight these are different days.

With overlapping executions of one event, two more things break that hold otherwise (section 4):
`EvaluatedIsFinal`, since `mark_failed` updates unconditionally, and `TicksExact`, since a verdict is
stored after the failure of the other execution gave the tick back.

## 4. Proofs

`SubmissionsProofs` (from the named assumptions of `Submissions`, for any finite or infinite sets of
requests, workers, submissions and chapters, and any limit and number of days):

- `TypeCorrect`: `Spec => []TypeOK`. The hard part is that `activity[d].count - 1` stays a natural number.
- `DailyCapHolds`: `Spec => []DailyCap`.

Neither is inductive. `CounterInv` adds that two executions never hold one lock (`LocksExclusive`); that a
request between the upsert and its commit holds the row of its day, which is below the limit (`TickLocked`);
that an execution about to commit a refund holds a row whose counter is above zero (`RefundLocked`); and that a
counter is zero while its row does not exist (`CountedRows`). The lock is what carries the value tested by
the upsert to the commit that uses it: without it the tested value would be stale. Further, some with a
switch of the environment as an assumption of the theorem:

- `NothingForgotten`: without failing hand-offs and dropped events, `Spec => []NoOrphan`.
- `ResultConsistent`: without overlapping executions, `Spec => []ResultExactlyWhenEvaluated`.
- `EvaluatedStays`: without overlapping executions, `Spec => EvaluatedIsFinal`.
- `NoLockCycleHolds`: `Spec => []NoLockCycle`, with any switches.

The second and third rest on an invariant saying that one event has one execution at most and that the
submission of an execution past its check is still evaluating: the stale read of the code is harmless only
then. The last needs `LocksInOrder`: the locks have ranks (key of an evaluation, submission, progress, day, draft,
attempt), an execution at a label holds none above the rank that label has reached, and what it waits for there is
above it. In a wait cycle somebody would hold a lock below what it holds already.

And, of the numbers the tables keep about each other:

- `AttemptsNumbered`: `Spec => []AttemptsContiguous`; `CollisionsOnlyAtMidnight`: `Spec => []CollisionsStraddleMidnight`.
  `NumberInv` adds that the number a request has read without a lock is at most one above those in use, that
  the one it has locked is exactly that (`NumberNext`), and that a submission which has taken the number
  meanwhile is charged to another day (`NumberFresh`): on the same day it would have waited for the row of the day.
- `ApprovalReaches`: `Spec => ApprovalReachesItsDay`: a submission passes a chapter only with its first result, an
  approval; a day's approvals grow by one, and only when a submission created on that day passes its chapter; no result is
  replaced. `ApprovalsCountedOnce`: hence a day never counts more approvals than it has approved submissions. Both rest on
  `VerdictInv`: the worker that is to commit holds the row of a day only for an approval of its own submission or for
  a refund (`OwnRows`, `Approving`), and the evaluation's key, so that nobody has stored a result before it.
- `StatusEarned`, `AttemptsAreVerdicts`: `Spec => []StatusHasVerdict` and `Spec => []AttemptsMatchVerdicts`, also when
  executions overlap. `VerdictInv` adds that only existing submissions have an evaluation, that a request on its
  way to the recovery scene has a failed verdict behind it (`RecoveryEarned`), and, in `HoldInv`, what a worker holds and still
  knows at each label.
- `TicksCounted`: without overlapping executions, `Spec => []TicksExact`. `TickInv` adds that a failure about to be
  committed holds the row of the day it refunds (`RefundReady`).

`Sums` has lemmas only, for `VerdictsProofs`, `TrackProofs` and `ReactionsProofs`. A sum over a set is a fold of the library, and an induction
theorem with an operator parameter cannot be used. `SmallestSet` replaces it: if a finite set has subsets of some kind,
one of them has no smaller one of that kind below it (the strict subset order of a finite set is well-founded).
With the set of counterexamples for the kind, this is induction. From it: a fold does not depend on the order it picks
(`TakeOut`), a sum grows with its set and with its terms (`SumGrows`, `SumFunctionGrows`), the sum of equal
terms is a product (`SumOfEqual`).

`VerdictsProofs` (from the assumptions that scores are 0 to 100 and the ruler natural numbers; any students):

- `ExamBlindHolds`, `NeverDistortedHolds`, `VerdictsTyped`: `Spec => []` the property. The invariant
  (`DecidedInv`) is that a stored correction lists each base dimension once with the engine's grade, and has
  the rule's verdict on them. It needs that an answer with as many scores as dimensions asked, and the same
  dimensions, lists each once (`GradedOnce`), and that the rule reads nothing but the base (`RuleReadsBase`).
- `RuleMonotone`, `BetterNeverWorseHolds`: a better score never gets a worse verdict.
- `HonestTotalHolds`: `Spec => []HonestTotal`. The third part of `DecidedInv` is that a stored correction answers exactly the
  dimensions the exam it is stored under requires; then every criterion of its page is a sum over answered
  dimensions and within its scale, and so is the total.

`TrackProofs` (from: there is a chapter, and the last one ends a story):

- `TrackImplementsOrder`: `Spec => OpensInOrder`, the refinement. `TrackInv` adds to the types that whatever a
  status says or said to a reader is passed has a passing submission, and that only open chapters do: the
  old reading is right because what it is used for never stops being true.
- `TrackTyped`: `Spec => []TypeOK`.
- `OffersOpenChaptersHolds`, `StoriesInTurnHolds`: `Spec => []` the property; `StartedNeverResetHolds`: `Spec => StartedNeverReset`.
  The first is of every reading, also one a late verdict has regressed, with the exception its statement names; that
  exception covers all the readings out of order because the chapters before an open one have passing submissions
  (`OpenBehindPassing`, from the refinement). The second is of readings in order. `ReadingInv` says that whatever a reader has read as open is open, and that an answer leaves nothing to unlock. The
  first chapter of a story, and the first one not passed, exist by the argument of `Sums`.

`ReactionsProofs` (from: prices and budget are natural numbers, requests are not submissions, `None` is no row):

- `AnswersAreStoredHolds`, `StoredLineStaysHolds`, `TokensOfBeatHolds`. `RInv` adds that one request at most holds
  the key of a beat (`OneHolder`) and that what it holds was computed from the row that is still there
  (`HeldFollows`); the waiting upsert is what makes both true.
- `NoCallOnceSpentHolds`: `Spec => []NoCallOnceSpent`; `ReactionsTyped`: `Spec => []TypeOK`. `BudgetInv` (`BudgetInvariant`) adds that
  what a check has seen when it comes to its second sum covers what had been spent when it began (`SeenCovers`):
  rows of evaluations and lines are only added or grow, so the sums do too.

`AccountsProofs` (from `BoundsAssumption` and `ScenariosAssumption`: limits are natural numbers, the names of requests,
jobs and first rows are apart, and a scenario starts from typed rows where a live account has a credential; any
requests, accounts and asks):

- `GraceHolds`: `Spec => GraceKept`; `CredentialHolds`: `Spec => []LiveHasCredential`; `TypeCorrect`: `Spec => []TypeOK`.

None is inductive, since what breaks them happens in overlays long before a commit shows it. `Inv` says of what the
open transactions have written: no row is written by two of them (`Exclusive`); a dead account stays dead in
every overlay, with its date (`UserWrites`); an identity keeps its account and is retired only where the account
is ended in the same transaction (`IdentityWrites`); the purger has chosen and deleted only doomed accounts
(`PurgerInv`, `PurgeWrites`); a request creates an account together with its credential (`NewAccount`), in rows
nobody else can have written before (`Fresh`, `OwnRows`). `StatementData` shows that any statement within `WriteOK`
keeps this, one lemma per statement shows that it is within, and rows change at a commit only (`OnlyCommits`).

- `GuessesBoundedHolds`: `Spec => []GuessesBounded`. The bound on every window is not inductive: `LimiterInv` adds
  that nothing was let through later than the clock and that what was let through and is still in the window is
  among the attempts the limiter remembers (`Remembered`), so the check, which counts only those, counts them all.

`TablesProofs` (on top of `AccountsProofs`, and from `StartAssumption`: the first rows obey the indexes and foreign
keys, nothing works of an account deleted before, and a student with targets has a lens or has removed a target;
any number of requests, so any number of transactions at once). `Moves` sorts the steps by what they do to a
transaction: it ends, reads, writes, commits, or deletes an account. On it rest five invariants:

- `SchemaHolds`: `Schema` says that indexes and foreign keys hold of the committed rows and of what each transaction
  sees, and that no two overlays take one key or hold a child of a user the other deletes (`Apart`). A commit keeps it
  because whoever would break it had to wait (`Blockers`); every theorem below uses it.
- `RemindedOnceHolds`: `Spec => []RemindedOnce`. `ReminderSafe` adds that a past run that did not fail has left its
  mark, with its day, on every account it sent to that is live (`SentInv`), what the run still going on remembers (`RunInv`),
  and what it may have written (`ReminderHolds`); `KeepsMark`, that no other overlay changes the mark of a live account.
- `OnlyLateArrivalsHolds`: `Spec => []OnlyLateArrivals`. `Late` adds which rows a deletion has written at each of
  its statements, and that whatever it has passed and did not see is in `beside` (`DeletionHeld`).
- `ActivationHolds`: `Spec => ActivationLands`, from `TargetsHeld`, what a request has written of its student's targets;
  `ExactlyOneLensHolds`: `Spec => []ExactlyOneLens`. At most one is the index of the lens; at least one is `Lens`:
  of a student's targets one is the lens or was removed. A first target read an empty list, or a list whose rows
  are still there when it commits (`Listed`); an activation that has cleared the lens commits only with a new one.
- `DeadlocksHold`: `Spec => []DeadlocksNeedTheReminder`. In a cycle everybody holds a row and waits (`Entangled`), which
  leaves four places (`EntangledAt`): a deletion past its first update waits for none of the others (`DeletionFree`),
  an activation that has cleared the lens for deletions only (`ActivationFree`), the purge for those two (`PurgeFree`), a
  registration past its first insert for those three (`CreationFree`).

`JourneyProofs` (from `JourneyAssumption`; any number of days, texts and seed runs):

- `StreaksAgreeHolds`: `Spec => []StreaksAgree`. The loops are recursive functions over the days. Instead of an
  induction, what a loop computes is compared with a function defined without recursion (the distance to the
  latest break, `WalkBackIs`; the streak that ends at each sorted day, `RunsIs`), and where they first differed a turn of
  the loop would be wrong. `SortedIs` says that sorting lists each day once, in order, by counting those before it.

- `StoriesWholeHolds`: `Spec => []StoriesWhole`. `SeedsInv` says that for some K the content is exactly the rows of the first K
  seeds, each with one writer (`ContentIs`), that a run has looked up or written what its stage says (`RunIs`), all of
  it of seeds past K, and that one run at most has written a story: the others wait at the index or find the slug. A
  commit then takes K to 3 (`RunCommits`); no two seeds share a theme or a slug (`ThemesApart`, `SlugsApart`). `JourneyOK` adds that a
  chapter with a status other than locked, or with a text on its way, is there. Then beats, branches and places of the
  committed rows are those of the seeds, read by position (`ByIs`, `BranchIs`, `ContentPlayable`).
- `MilestonesStayHolds`: `Spec => MilestonesStay`. `MilestonesOK` says of each milestone shown, and of each part of the screen
  already read, that what it was told from is still so or its loss is on record (`Steady` is that of one step); the
  week needs that more days make no shorter a record (`LongestGrows`).

**Only model-checked**: what needs ENABLED or fairness, `EventuallySettled` and `TracesLeave`. Every other property of a
passing run has its theorem. Nothing is proved of the four runs that show a disagreement: their properties do not hold.

## 5. Plan

What would come next, in order:

1. `CorrectionLifecycle`: the abstract promise of a submission (pending, then graded or failed, once), the poll
   that may call it failed early, and `Submissions` shown to implement it; it needs the age of a row.
2. The purge of an account beside a worker that evaluates one of its submissions: `Submissions` and `Accounts` composed.
3. The telemetry batches and their limiter.

## 6. Files

`Submissions.tla` model and properties · `MCSubmissions.tla` symmetry for TLC · `SubmissionsProofs.tla`
its proofs · `Sums.tla` lemmas about sums over sets · `Verdicts.tla`, `MCVerdicts.tla`, `VerdictsProofs.tla` the same for
the pipeline · `Track.tla`, `TrackOrder.tla`, `MCTrack.tla`, `TrackProofs.tla` for the track ·
`Reactions.tla`, `MCReactions.tla`, `ReactionsProofs.tla` for reactions and budget · `Accounts.tla`,
`MCAccounts.tla`, `AccountsProofs.tla`, `TablesProofs.tla` for accounts and jobs · `SeedForms.tla`, `TutorialSeed.tla`, `EnemCareSeed.tla`, `FuvestTrafficSeed.tla`,
`Content.tla` for the content · `Habit.tla`, `Journey.tla`, `MCJourney.tla`, `JourneyProofs.tla` for the student · `ChapterStates.tla`
the rules shared · one `.cfg` per run · `PROJECT.json` components, runs, mutants (operators named
`X_Variant`, each a plausible bug that one property must catch), the map from definitions to source lines,
findings, hazards and theorems.

## 7. Not modelled

Vendor SDK adapters, OAuth and push clients, spelling (their answers are inputs); routes and schemas (layout);
the request body limit (a counter nothing shares); telemetry (one insert nothing reads back); migrations as steps (run
before the executions modelled); observability (nothing reads it). Of sessions, signing and refresh of tokens; of the progress
screen, the trends and the active exam; of polling, the failed status derived from an old row, since no module has a clock
finer than the day beside submissions. The inline dispatcher of development is not modelled. The reason for each
part is in `PROJECT.json`.
