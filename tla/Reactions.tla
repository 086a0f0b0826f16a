----------------------------- MODULE Reactions -----------------------------
(***************************************************************************)
(* The character's reaction to a graded submission, and the monthly token  *)
(* budget that reactions and evaluations share.                            *)
(*                                                                         *)
(* A request holds one transaction: it looks for the stored line, checks   *)
(* the budget in two sums, calls the engine for seconds, and stores what   *)
(* it got unless somebody stored a line meanwhile.  The worker of a        *)
(* submission passes the same budget check before it grades; of its        *)
(* transaction (see Submissions.tla) only the evaluation row matters here. *)
(* A rolled back transaction leaves no row, although its call was billed.  *)
(***************************************************************************)
EXTENDS Integers, Functions, ChapterStates

CONSTANTS
    Submissions,   \* submissions; each also stands for the worker that grades it
    Callers,       \* requests for a reaction
    Lines,         \* what the engine may make a character say
    Costs,         \* the tokens one call is billed, both directions
    Budget,        \* llm_monthly_token_budget
    MaxCalls,      \* bound: calls of the engine in a behaviour
    LastMonth,     \* bound: months are 0..LastMonth
    None           \* no row, no beat

ASSUME CostsAssumption  == Costs \subseteq Nat
ASSUME BudgetAssumption == Budget \in Nat
ASSUME BoundsAssumption == MaxCalls \in Nat /\ LastMonth \in Nat
ASSUME NamesAssumption  ==
    /\ Callers \cap Submissions = {}
    /\ None \notin Submissions
    /\ None \notin Lines
    /\ None \notin [line : Lines, tokens : Nat, month : 0..LastMonth]

Callees == Callers \cup Submissions

VARIABLES
    month,         \* the month of the clock
    evaluations,   \* evaluations[s]: the committed row of a submission, or None
    reactions,     \* reactions[s]: the committed line of a submission's beat, or None
    step,          \* where a request or a worker is
    asked,         \* the submission a request is about
    since,         \* the month its transaction began in: the created_at of its rows
    seen,          \* month_start, and the sum over evaluations from there on
    made,          \* what its call returned
    held,          \* the row it wrote and has not committed
    answers,       \* ghost: the lines shown to students as the reaction
    billed,        \* ghost: tokens of the committed calls for a beat
    spentAtCheck,  \* ghost: what the month had really spent when its check began
    calls          \* ghost: calls of the engine so far

rows  == <<evaluations, reactions>>
local == <<asked, since, seen, made, held>>
ghost == <<answers, billed, spentAtCheck, calls>>
vars  == <<month, rows, step, local, ghost>>

-----------------------------------------------------------------------------
(* Only an argument that was judged gets a reaction.                       *)
\* mutant: a technical failure gets a rebuttal too
reaction_beat_for_All(verdict) ==
    IF verdict = "approved" THEN "convinced" ELSE "rebuttal"

reaction_beat_for(verdict) ==
    CASE verdict = "approved"          -> "convinced"
      [] verdict = "failed_persuasion" -> "rebuttal"
      [] OTHER                         -> None

\* The submissions get_context finds, whose verdict has a beat.
Reacts(s) == evaluations[s] # None /\ reaction_beat_for(evaluations[s].verdict) # None

\* The tokens of one table in the rows created from month_start on.
TokensSince(table, start) ==
    SumFunction([s \in {u \in Submissions : table[u] # None /\ table[u].month >= start}
                     |-> table[s].tokens])

Spent == TokensSince(evaluations, month) + TokensSince(reactions, month)

-----------------------------------------------------------------------------
NoCall == [line |-> None, tokens |-> 0]
NoSums == [start |-> 0, tokens |-> 0]

Init ==
    /\ month = 0
    /\ evaluations = [s \in Submissions |-> None]
    /\ reactions = [s \in Submissions |-> None]
    /\ step = [p \in Callees |-> "idle"]
    /\ asked = [p \in Callees |-> None]
    /\ since = [p \in Callees |-> 0]
    /\ seen = [p \in Callees |-> NoSums]
    /\ made = [p \in Callees |-> NoCall]
    /\ held = [p \in Callees |-> None]
    /\ answers = {}
    /\ billed = [s \in Submissions |-> 0]
    /\ spentAtCheck = [p \in Callees |-> 0]
    /\ calls = 0

\* The transaction of p ends, and with it everything p knows.
Ends(p, how) ==
    /\ step' = [step EXCEPT ![p] = how]
    /\ asked' = [asked EXCEPT ![p] = None]
    /\ since' = [since EXCEPT ![p] = 0]
    /\ seen' = [seen EXCEPT ![p] = NoSums]
    /\ made' = [made EXCEPT ![p] = NoCall]
    /\ held' = [held EXCEPT ![p] = None]
    /\ spentAtCheck' = [spentAtCheck EXCEPT ![p] = 0]

-----------------------------------------------------------------------------
(* A request, POST /submissions/{id}/reaction.                             *)

\* The line is stored: it is the answer.
AskStored(c, s) ==
    /\ step[c] = "idle"
    /\ Reacts(s)
    /\ reactions[s] # None
    /\ answers' = answers \cup {[submission |-> s, line |-> reactions[s].line]}
    /\ UNCHANGED <<month, rows, step, local, billed, spentAtCheck, calls>>

\* There is none yet.
AskMissing(c, s) ==
    /\ step[c] = "idle"
    /\ Reacts(s)
    /\ reactions[s] = None
    /\ step' = [step EXCEPT ![c] = "check"]
    /\ asked' = [asked EXCEPT ![c] = s]
    /\ since' = [since EXCEPT ![c] = month]
    /\ UNCHANGED <<month, rows, seen, made, held, ghost>>

\* A worker begins to evaluate.
BeginEvaluation(s) ==
    /\ step[s] = "idle"
    /\ evaluations[s] = None
    /\ step' = [step EXCEPT ![s] = "check"]
    /\ since' = [since EXCEPT ![s] = month]
    /\ UNCHANGED <<month, rows, asked, seen, made, held, ghost>>

-----------------------------------------------------------------------------
(* ensure_within_budget, the same for both.  A budget of 0 disables it: the *)
(* code then reads no sums, here it reads and ignores them.                *)

SumEvaluations(p) ==
    /\ step[p] = "check"
    /\ step' = [step EXCEPT ![p] = "sum"]
    /\ seen' = [seen EXCEPT ![p] =
           [start |-> month, tokens |-> TokensSince(evaluations, month)]]
    /\ spentAtCheck' = [spentAtCheck EXCEPT ![p] = Spent]
    /\ UNCHANGED <<month, rows, asked, since, made, held, answers, billed, calls>>

\* mutant: what reactions cost is not counted
SpentSeen_EvaluationsOnly(p) == seen[p].tokens

\* The sum the check compares: the second one is read in a statement of its own.
SpentSeen(p) == seen[p].tokens + TokensSince(reactions, seen[p].start)

WithinBudget(p) ==
    /\ step[p] = "sum"
    /\ Budget = 0 \/ SpentSeen(p) < Budget
    /\ step' = [step EXCEPT ![p] = "call"]
    /\ UNCHANGED <<month, rows, local, ghost>>

\* A request shows the authored line and stores nothing; a worker records a failure.
FallsBack(p) == Ends(p, IF p \in Callers THEN "idle" ELSE "failed")

OverBudget(p) ==
    /\ step[p] = "sum"
    /\ Budget > 0 /\ SpentSeen(p) >= Budget
    /\ FallsBack(p)
    /\ UNCHANGED <<month, rows, answers, billed, calls>>

-----------------------------------------------------------------------------
(* The engine.                                                             *)

Generate(c) ==
    /\ step[c] = "call"
    /\ calls < MaxCalls
    /\ \E line \in Lines, tokens \in Costs :
           made' = [made EXCEPT ![c] = [line |-> line, tokens |-> tokens]]
    /\ step' = [step EXCEPT ![c] = "store"]
    /\ calls' = calls + 1
    /\ UNCHANGED <<month, rows, asked, since, seen, held, answers, billed, spentAtCheck>>

EngineFails(p) ==
    /\ step[p] = "call"
    /\ FallsBack(p)
    /\ UNCHANGED <<month, rows, answers, billed, calls>>

\* The worker grades, and commits the evaluation.
Evaluate(s) ==
    /\ step[s] = "call"
    /\ calls < MaxCalls
    /\ \E verdict \in Verdict, tokens \in Costs :
           evaluations' = [evaluations EXCEPT ![s] =
               [verdict |-> verdict, tokens |-> tokens, month |-> since[s]]]
    /\ calls' = calls + 1
    /\ Ends(s, "idle")
    /\ UNCHANGED <<month, reactions, answers, billed>>

-----------------------------------------------------------------------------
(* store_or_get: the statement waits for whoever holds the key.            *)

KeyFree(s) == \A c \in Callers : asked[c] = s => held[c] = None

\* mutant: DO NOTHING instead of adding the tokens of the loser
Upserted_DoNothing(old, new) == IF old = None THEN new ELSE old

\* mutant: the last line wins
Upserted_LastWins(old, new) ==
    IF old = None THEN new
    ELSE [line |-> new.line, tokens |-> old.tokens + new.tokens, month |-> old.month]

Upserted(old, new) ==
    IF old = None THEN new
    ELSE [line |-> old.line, tokens |-> old.tokens + new.tokens, month |-> old.month]

StoreOrGet(c) ==
    /\ step[c] = "store"
    /\ KeyFree(asked[c])
    /\ held' = [held EXCEPT ![c] =
           Upserted(reactions[asked[c]],
                    [line |-> made[c].line, tokens |-> made[c].tokens, month |-> since[c]])]
    /\ step' = [step EXCEPT ![c] = "commit"]
    /\ UNCHANGED <<month, rows, asked, since, seen, made, ghost>>

\* mutant: the line just generated is shown, not the one RETURNING gives back
Shown_Generated(c) == made[c].line

Shown(c) == held[c].line

\* The request commits and answers.
Commit(c) ==
    /\ step[c] = "commit"
    /\ reactions' = [reactions EXCEPT ![asked[c]] = held[c]]
    /\ answers' = answers \cup {[submission |-> asked[c], line |-> Shown(c)]}
    /\ billed' = [billed EXCEPT ![asked[c]] = @ + made[c].tokens]
    /\ Ends(c, "idle")
    /\ UNCHANGED <<month, evaluations, calls>>

\* The transaction is rolled back; the event of a worker is delivered again.
Dies(p) ==
    /\ step[p] \notin {"idle", "failed"}
    /\ Ends(p, "idle")
    /\ UNCHANGED <<month, rows, answers, billed, calls>>

NextMonth ==
    /\ month < LastMonth
    /\ month' = month + 1
    /\ UNCHANGED <<rows, step, local, ghost>>

-----------------------------------------------------------------------------
CallerStep(c) ==
    \/ \E s \in Submissions : AskStored(c, s) \/ AskMissing(c, s)
    \/ Generate(c)
    \/ StoreOrGet(c)
    \/ Commit(c)

BudgetStep(p) ==
    \/ SumEvaluations(p)
    \/ WithinBudget(p)
    \/ OverBudget(p)
    \/ EngineFails(p)
    \/ Dies(p)

Next ==
    \/ \E c \in Callers : CallerStep(c)
    \/ \E s \in Submissions : BeginEvaluation(s) \/ Evaluate(s)
    \/ \E p \in Callees : BudgetStep(p)
    \/ NextMonth

Spec == Init /\ [][Next]_vars

-----------------------------------------------------------------------------
Evaluation == [verdict : Verdict, tokens : Nat, month : 0..LastMonth]
Reaction   == [line : Lines, tokens : Nat, month : 0..LastMonth]

(* Rows and requests have their types; who waits to store, or to commit, has
   what it needs, and only a beat that reacts has a line (domain/reactions.py:13-20). *)
TypeOK ==
    /\ month \in 0..LastMonth
    /\ evaluations \in [Submissions -> Evaluation \cup {None}]
    /\ reactions \in [Submissions -> Reaction \cup {None}]
    /\ step \in [Callees -> {"idle", "check", "sum", "call", "store", "commit", "failed"}]
    /\ asked \in [Callees -> Submissions \cup {None}]
    /\ since \in [Callees -> 0..LastMonth]
    /\ seen \in [Callees -> [start : 0..LastMonth, tokens : Int]]
    /\ made \in [Callees -> [line : Lines \cup {None}, tokens : Nat]]
    /\ held \in [Callees -> Reaction \cup {None}]
    /\ answers \subseteq [submission : Submissions, line : Lines]
    /\ billed \in [Submissions -> Nat]
    /\ spentAtCheck \in [Callees -> Int]
    /\ calls \in 0..MaxCalls
    /\ \A c \in Callers : /\ step[c] \in {"store", "commit"} => made[c].line \in Lines
                          /\ step[c] \notin {"idle", "failed"} => asked[c] \in Submissions
                          /\ step[c] = "commit" <=> held[c] # None
    /\ \A s \in Submissions : reactions[s] # None =>
           evaluations[s] # None /\ evaluations[s].verdict # "failed_technical"

(* Every line a student was shown as the reaction is the line in the database:
   two requests racing for a beat, and every later one, show the same words
   (reactions.py:61-72). *)
AnswersAreStored ==
    \A a \in answers : /\ reactions[a.submission] # None
                       /\ reactions[a.submission].line = a.line

(* The tokens of a beat are those of every call for it that was committed, the
   losers of the race included (reactions.py:84-92). *)
TokensOfBeat ==
    \A s \in Submissions :
        billed[s] = IF reactions[s] = None THEN 0 ELSE reactions[s].tokens

(* Nobody calls the engine whose check began when the month had already spent
   the budget: only the calls under way at that moment may go over it, although
   the check reads two sums at two moments (llm_budget.py:26-50). *)
NoCallOnceSpent ==
    \A p \in Callees :
        Budget > 0 /\ step[p] \in {"call", "store", "commit"} => spentAtCheck[p] < Budget

(* A stored line is never changed nor removed, and its tokens only grow. *)
StoredLineStays ==
    [][\A s \in Submissions :
           reactions[s] # None =>
               /\ reactions'[s] # None
               /\ reactions'[s].line = reactions[s].line
               /\ reactions'[s].month = reactions[s].month
               /\ reactions'[s].tokens >= reactions[s].tokens]_vars

=============================================================================
