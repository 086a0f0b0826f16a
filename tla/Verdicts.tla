------------------------------ MODULE Verdicts ------------------------------
(***************************************************************************)
(* How a text becomes a verdict, and a verdict a page: the correction      *)
(* pipeline of application/evaluation and the exam lenses of               *)
(* domain/lenses.py.  Several students write the same text against the     *)
(* same chapter, each with an exam of their own in the profile, which they *)
(* may change while the engine is grading and afterwards.                  *)
(*                                                                         *)
(* What the engine thinks of the text is one function, grades, fixed in    *)
(* Init; what it ANSWERS may leave a required dimension out, answer one    *)
(* twice, or grade one nobody asked for.  Submissions.tla has the          *)
(* submission's life around this pipeline, where Grade takes any verdict.  *)
(***************************************************************************)
EXTENDS Integers, Sequences, FiniteSets, FiniteSetsExt

CONSTANTS
    Students,
    Scores,             \* the scores the engine gives
    dimension_floor,    \* the frozen ruler of the story
    min_average

ASSUME ScoresAssumption == Scores \subseteq 0..100
ASSUME RulerAssumption == dimension_floor \in Nat /\ min_average \in Nat

BASE_DIMENSIONS ==
    {"norma_culta", "coesao", "coerencia", "repertorio", "persuasao"}
LANGUAGE_DIMENSIONS == {"norma_culta", "coesao"}
Dimension == BASE_DIMENSIONS \cup {"proposta_intervencao"}

Exam == {"enem", "fuvest"}
NoExam == "none"                      \* no active exam target
DEFAULT_EXAM == "enem"
ChapterKind == {"confronto", "chefe"}
Verdict == {"approved", "failed_technical", "failed_persuasion"}

VARIABLES
    kind,        \* the kind of the chapter
    grades,      \* what the engine thinks of the text, dimension by dimension
    active,      \* active[s]: the exam target s has active, or NoExam
    stage,       \* stage[s]: where the correction of s's submission is
    exam,        \* exam[s]: the exam the worker read when it began
    correction   \* correction[s]: the evaluation stored for s's submission

vars == <<kind, grades, active, stage, exam, correction>>

-----------------------------------------------------------------------------
(* What is asked of the engine, and what it answers.  An answer gives each *)
(* dimension the sequence of the scores it was given.                      *)

GradesProposal(e) == e = "enem"       \* ExamLens.grades_intervention_proposal

required_dimensions(k, e) ==
    IF k = "chefe" /\ GradesProposal(e) THEN Dimension ELSE BASE_DIMENSIONS

Answer == [Dimension -> {q \in Seq(0..100) : Len(q) <= 2}]

Faithful(required) ==
    [d \in Dimension |-> IF d \in required THEN <<grades[d]>> ELSE <<>>]

\* The engine's answer: what the prompt asks; without one of the dimensions; with
\* one listed twice; with e's score under d's name; or with the proposal added.
Answers(required) ==
    LET ok == Faithful(required)
    IN  {ok}
        \cup {[ok EXCEPT ![d] = <<>>] : d \in required}
        \cup {[ok EXCEPT ![d] = Append(@, a)] : d \in required, a \in Scores}
        \cup {[ok EXCEPT ![d] = Append(@, grades[e]), ![e] = <<>>] : d, e \in required}
        \cup {[ok EXCEPT !["proposta_intervencao"] = <<grades["proposta_intervencao"]>>]}

-----------------------------------------------------------------------------
(* The verdict: our rule over the scores, never the engine's opinion.      *)

Answered(a) == {d \in Dimension : a[d] # <<>>}

\* len(scores): how many scores the answer lists.
Listed(a) ==
    Len(a["norma_culta"]) + Len(a["coesao"]) + Len(a["coerencia"])
        + Len(a["repertorio"]) + Len(a["persuasao"]) + Len(a["proposta_intervencao"])

ensure_graded_exactly_NothingElse(a, required) == Answered(a) \subseteq required

ensure_graded_exactly(a, required) ==
    Listed(a) = Cardinality(required) /\ Answered(a) = required

\* The points a dimension brings to the sum.
Points(s) == CASE Len(s) = 0 -> 0
               [] Len(s) = 1 -> s[1]
               [] OTHER      -> s[1] + s[2]

BasePoints(a) ==
    Points(a["norma_culta"]) + Points(a["coesao"]) + Points(a["coerencia"])
        + Points(a["repertorio"]) + Points(a["persuasao"])

BaseListed_All(a) == Listed(a)

BaseListed(a) == Listed(a) - Len(a["proposta_intervencao"])

Failed(a) ==
    {d \in BASE_DIMENSIONS : \E i \in 1..Len(a[d]) : a[d][i] < dimension_floor}

\* average < min_average, without the division.
BelowAverage(a) == BasePoints(a) < min_average * BaseListed(a)

decide_verdict_AverageFirst(a) ==
    IF BelowAverage(a) THEN "failed_persuasion"
    ELSE IF Failed(a) \cap LANGUAGE_DIMENSIONS # {} THEN "failed_technical"
    ELSE IF Failed(a) # {} THEN "failed_persuasion"
    ELSE "approved"

decide_verdict(a) ==
    IF Failed(a) \cap LANGUAGE_DIMENSIONS # {} THEN "failed_technical"
    ELSE IF Failed(a) # {} \/ BelowAverage(a) THEN "failed_persuasion"
    ELSE "approved"

-----------------------------------------------------------------------------
(* The lens: what the student is shown of it.                              *)

Criterion(dims, max, boss) == [dimensions |-> dims, scale_max |-> max, boss_only |-> boss]

\* ENEM_LENS.criteria and FUVEST_LENS.criteria.
Criteria(e) ==
    IF e = "enem"
    THEN [C1 |-> Criterion({"norma_culta"}, 200, FALSE),
          C2 |-> Criterion({"repertorio"}, 200, FALSE),
          C3 |-> Criterion({"coerencia"}, 200, FALSE),
          C4 |-> Criterion({"coesao"}, 200, FALSE),
          C5 |-> Criterion({"proposta_intervencao"}, 200, TRUE)]
    ELSE [E1 |-> Criterion({"repertorio"}, 100, FALSE),
          E2 |-> Criterion({"coesao", "coerencia"}, 100, FALSE),
          E3 |-> Criterion({"norma_culta"}, 100, FALSE)]

official_for(e, k) ==
    {c \in DOMAIN Criteria(e) : ~Criteria(e)[c].boss_only \/ k = "chefe"}

\* n / m, the halves rounded up (ROUND_HALF_UP of a number never negative).
HalfUp(n, m) == (2 * n + m) \div (2 * m)

\* by_dimension: the last of the scores listed for the dimension.
ByDimension(a, d) == a[d][Len(a[d])]

GradedOf(a, c) == c.dimensions \cap Answered(a)

\* _view: the mean of the dimensions graded, on the scale of the criterion.
CriterionScore(a, c) ==
    LET graded == GradedOf(a, c)
        points == MapThenSumSet(LAMBDA d : ByDimension(a, d), graded)
    IN  HalfUp(points * c.scale_max, 100 * Cardinality(graded))

\* extra_criteria of both lenses: shown beside the official ones.
ARG == Criterion({"persuasao"}, 100, FALSE)

NoTotal == -1     \* the None of LensView.total and LensView.total_max

\* _total: FUVEST (normalize_to = 100) brings the sum to our scale.
Total_Sum(shown, maximum, e) == shown

Total(shown, maximum, e) ==
    IF e = "fuvest" THEN HalfUp(shown * 100, maximum) ELSE shown

project_lens(a, e, k) ==
    LET criteria == Criteria(e)
        official == {c \in official_for(e, k) : GradedOf(a, criteria[c]) # {}}
        score    == [c \in official |-> CriterionScore(a, criteria[c])]
        maximum  == MapThenSumSet(LAMBDA c : criteria[c].scale_max, official)
        complete == official = official_for(e, k)
    IN  [criteria  |-> score,
         extra     |-> IF GradedOf(a, ARG) = {} THEN {} ELSE {CriterionScore(a, ARG)},
         total     |-> IF complete
                       THEN Total(MapThenSumSet(LAMBDA c : score[c], official), maximum, e)
                       ELSE NoTotal,
         total_max |-> IF ~complete THEN NoTotal
                       ELSE IF e = "fuvest" THEN 100 ELSE maximum,
         source    |-> IF e = "enem" /\ k = "chefe" THEN "board" ELSE "argumenta"]

-----------------------------------------------------------------------------
NoCorrection == [verdict |-> "none"]

Stage == {"waiting", "grading", "failed", "evaluated"}

Init ==
    /\ kind \in ChapterKind
    /\ grades \in [Dimension -> Scores]
    /\ active \in [Students -> Exam \cup {NoExam}]
    /\ stage = [s \in Students |-> "waiting"]
    /\ exam = [s \in Students |-> NoExam]
    /\ correction = [s \in Students |-> NoCorrection]

\* The student adds, removes or switches the active exam target.
ChangeExam(s, e) ==
    /\ active[s] # e
    /\ active' = [active EXCEPT ![s] = e]
    /\ UNCHANGED <<kind, grades, stage, exam, correction>>

\* The worker reads the active exam, or takes the default one: what the engine
\* is asked, and the lens the correction is stored under, are settled here.
Begin_NoDefault(s) ==
    /\ stage[s] = "waiting"
    /\ exam' = [exam EXCEPT ![s] = active[s]]
    /\ stage' = [stage EXCEPT ![s] = "grading"]
    /\ UNCHANGED <<kind, grades, active, correction>>

Begin(s) ==
    /\ stage[s] = "waiting"
    /\ exam' = [exam EXCEPT ![s] = IF active[s] = NoExam THEN DEFAULT_EXAM ELSE active[s]]
    /\ stage' = [stage EXCEPT ![s] = "grading"]
    /\ UNCHANGED <<kind, grades, active, correction>>

\* The monthly budget is spent, the provider gives up or its payload does not
\* validate: nothing is stored.
PipelineRaises(s) ==
    /\ stage[s] = "grading"
    /\ stage' = [stage EXCEPT ![s] = "failed"]
    /\ UNCHANGED <<kind, grades, active, exam, correction>>

\* uq_evaluation_scores_evaluation_dimension: a second row for a dimension.
ScoreTwice(a) == \E d \in Dimension : Len(a[d]) > 1

\* The correction row: the verdict, the scores, and the exam of the lens.
Stored_Rereads(s, a) ==
    [verdict |-> decide_verdict(a), scores |-> a,
     exam |-> IF active[s] = NoExam THEN DEFAULT_EXAM ELSE active[s]]

Stored(s, a) == [verdict |-> decide_verdict(a), scores |-> a, exam |-> exam[s]]

\* The engine answers: refused whole unless it graded exactly what was asked, and
\* rolled back if the rows conflict.
Grade(s) ==
    /\ stage[s] = "grading"
    /\ LET required == required_dimensions(kind, exam[s])
       IN  \E a \in Answers(required) :
               IF ensure_graded_exactly(a, required) /\ ~ScoreTwice(a)
               THEN /\ correction' = [correction EXCEPT ![s] = Stored(s, a)]
                    /\ stage' = [stage EXCEPT ![s] = "evaluated"]
               ELSE /\ stage' = [stage EXCEPT ![s] = "failed"]
                    /\ UNCHANGED correction
    /\ UNCHANGED <<kind, grades, active, exam>>

Next ==
    \E s \in Students :
        \/ \E e \in Exam \cup {NoExam} : ChangeExam(s, e)
        \/ Begin(s)
        \/ PipelineRaises(s)
        \/ Grade(s)

Spec == Init /\ [][Next]_vars

-----------------------------------------------------------------------------
(* What is shown: the poll and the history project the stored scores.      *)

Evaluated(s) == correction[s] # NoCorrection

View(s) == project_lens(correction[s].scores, correction[s].exam, kind)

\* The type invariant.
TypeOK ==
    /\ kind \in ChapterKind
    /\ grades \in [Dimension -> Scores]
    /\ active \in [Students -> Exam \cup {NoExam}]
    /\ stage \in [Students -> Stage]
    /\ exam \in [Students -> Exam \cup {NoExam}]
    /\ correction \in [Students ->
           {NoCorrection} \cup [verdict : Verdict, scores : Answer, exam : Exam]]
    /\ \A s \in Students :
           /\ stage[s] \in {"grading", "evaluated"} => exam[s] \in Exam
           /\ stage[s] = "evaluated" <=> Evaluated(s)

\* Two students who hand in the same text get the same outcome, whichever
\* vestibular each of them picked, before or during the correction
\* (lenses.py:4-9): the proposal an ENEM boss essay is also graded on stays out
\* of the verdict.
ExamBlind ==
    \A s, t \in Students :
        Evaluated(s) /\ Evaluated(t) => correction[s].verdict = correction[t].verdict

\* A verdict is what the rule says of the text: an answer that left a required
\* dimension out, or listed one twice, never decided one (evaluation.py:136-139).
NeverDistorted ==
    \A s \in Students :
        Evaluated(s) => correction[s].verdict = decide_verdict(Faithful(BASE_DIMENSIONS))

\* Whatever the student does to the profile, and whenever, a correction is shown
\* with the total its lens promises: it was graded on everything that lens adds up.
\* Every grade is on the scale it is shown with, the total too, and the total is
\* called the board's own only out of the thousand points of the five competences.
HonestTotal ==
    \A s \in Students :
        Evaluated(s) =>
            LET view == View(s)
            IN  /\ view.total # NoTotal
                /\ view.total <= view.total_max
                /\ view.source = "board" => view.total_max \in {NoTotal, 1000}
                /\ \A c \in DOMAIN view.criteria :
                       view.criteria[c] \in 0..Criteria(correction[s].exam)[c].scale_max

\* How far the character was convinced: the technical failure comes first.
Rank(v) == CASE v = "failed_technical" -> 0
             [] v = "failed_persuasion" -> 1
             [] v = "approved" -> 2

\* A better score in any dimension, all the others alike, never gets a worse
\* verdict.
BetterNeverWorse ==
    \A s \in Students : \A d \in Dimension : \A a \in Scores :
        Evaluated(s) /\ correction[s].scores[d] # <<>> /\ a >= ByDimension(correction[s].scores, d)
            => Rank(decide_verdict([correction[s].scores EXCEPT ![d] = <<a>>]))
                   >= Rank(correction[s].verdict)

=============================================================================
