--------------------------- MODULE VerdictsProofs ---------------------------
(***************************************************************************)
(* What Verdicts.tla guarantees for any number of students, any scores and *)
(* any ruler.  The argument: an answer that passes the checks of Grade     *)
(* lists every base dimension once, with the score the engine thinks of    *)
(* it; so every correction was decided on the same five scores, whatever   *)
(* the exam.  That the rule never punishes a better score is arithmetic,   *)
(* and so is that a page adds up: nothing its lens shows was left out.     *)
(***************************************************************************)
EXTENDS Verdicts, Sums, SequenceTheorems

LEMMA Percent == 0..100 \subseteq Nat
OBVIOUS

\* How many dimensions there are to be graded.
LEMMA Sizes ==
    /\ Cardinality(BASE_DIMENSIONS) = 5
    /\ Cardinality(Dimension) = 6
<1>1. /\ IsFiniteSet({}) /\ Cardinality({}) = 0
    BY FS_EmptySet
<1>2. \A S : \A x : IsFiniteSet(S) /\ x \notin S =>
          IsFiniteSet(S \cup {x}) /\ Cardinality(S \cup {x}) = Cardinality(S) + 1
    BY FS_AddElement
<1> DEFINE S1 == {} \cup {"norma_culta"}
           S2 == S1 \cup {"coesao"}
           S3 == S2 \cup {"coerencia"}
           S4 == S3 \cup {"repertorio"}
           S5 == S4 \cup {"persuasao"}
           S6 == S5 \cup {"proposta_intervencao"}
<1>3. IsFiniteSet(S1) /\ Cardinality(S1) = 1
    BY <1>1, <1>2
<1>4. IsFiniteSet(S2) /\ Cardinality(S2) = 2
    <2>1. "coesao" \notin S1
        OBVIOUS
    <2> HIDE DEF S1
    <2> QED BY <1>2, <1>3, <2>1
<1>5. IsFiniteSet(S3) /\ Cardinality(S3) = 3
    <2>1. "coerencia" \notin S2
        OBVIOUS
    <2> HIDE DEF S2
    <2> QED BY <1>2, <1>4, <2>1
<1>6. IsFiniteSet(S4) /\ Cardinality(S4) = 4
    <2>1. "repertorio" \notin S3
        OBVIOUS
    <2> HIDE DEF S3
    <2> QED BY <1>2, <1>5, <2>1
<1>7. IsFiniteSet(S5) /\ Cardinality(S5) = 5
    <2>1. "persuasao" \notin S4
        OBVIOUS
    <2> HIDE DEF S4
    <2> QED BY <1>2, <1>6, <2>1
<1>8. IsFiniteSet(S6) /\ Cardinality(S6) = 6
    <2>1. "proposta_intervencao" \notin S5
        OBVIOUS
    <2> HIDE DEF S5
    <2> QED BY <1>2, <1>7, <2>1
<1>9. S5 = BASE_DIMENSIONS /\ S6 = Dimension
    BY DEF BASE_DIMENSIONS, Dimension
<1> QED BY <1>7, <1>8, <1>9

\* An answer to what was asked, once, lists each dimension asked exactly once.
LEMMA GradedOnce ==
    ASSUME NEW a \in Answer, NEW required \in {BASE_DIMENSIONS, Dimension},
           ensure_graded_exactly(a, required)
    PROVE  \A d \in required : Len(a[d]) = 1
<1> DEFINE n(d) == Len(a[d])
<1>1. \A d \in Dimension : a[d] \in Seq(0..100) /\ n(d) \in Nat /\ n(d) <= 2
    BY DEF Answer
<1>2. \A d \in Dimension : n(d) = 0 <=> a[d] = <<>>
    BY <1>1
<1>3. \A d \in required : n(d) >= 1
    BY <1>1, <1>2 DEF ensure_graded_exactly, Answered
<1>4. \A d \in Dimension \ required : n(d) = 0
    BY <1>1, <1>2 DEF ensure_graded_exactly, Answered
<1>5. n("norma_culta") + n("coesao") + n("coerencia") + n("repertorio")
          + n("persuasao") + n("proposta_intervencao") = Cardinality(required)
    BY DEF ensure_graded_exactly, Listed
<1> HIDE DEF n
<1>6. \A d \in required : n(d) = 1
    <2>1. CASE required = BASE_DIMENSIONS
        BY <2>1, <1>1, <1>3, <1>4, <1>5, Sizes DEF BASE_DIMENSIONS, Dimension
    <2>2. CASE required = Dimension
        BY <2>2, <1>1, <1>3, <1>5, Sizes DEF BASE_DIMENSIONS, Dimension
    <2> QED BY <2>1, <2>2
<1> QED BY <1>6 DEF n

\* The engine's answers are lists of at most two scores for each dimension, and
\* one that lists a base dimension once gives it the score the engine thinks of.
LEMMA AnswersAreAnswers ==
    ASSUME grades \in [Dimension -> Scores],
           NEW required \in {BASE_DIMENSIONS, Dimension},
           NEW a \in Answers(required)
    PROVE  /\ a \in Answer
           /\ \A d \in BASE_DIMENSIONS : Len(a[d]) = 1 => a[d] = <<grades[d]>>
<1>0. Scores \subseteq 0..100 /\ required \subseteq Dimension /\ BASE_DIMENSIONS \subseteq Dimension
    BY ScoresAssumption DEF BASE_DIMENSIONS, Dimension
<1> DEFINE ok == Faithful(required)
           Lists == {q \in Seq(0..100) : Len(q) <= 2}
<1>1. \A x \in 0..100 : <<x>> \in Lists /\ Len(<<x>>) = 1
    OBVIOUS
<1>2. <<>> \in Lists /\ Len(<<>>) = 0
    OBVIOUS
<1>3. \A d \in Dimension : grades[d] \in 0..100
    BY <1>0
<1>4. ok = [d \in Dimension |-> IF d \in required THEN <<grades[d]>> ELSE <<>>]
    BY DEF Faithful
<1>5. \A d \in Dimension : ok[d] \in Lists /\ ok[d] \in {<<>>, <<grades[d]>>}
    <2> HIDE DEF Lists
    <2> QED BY <1>1, <1>2, <1>3, <1>4
<1>6. \A d \in required, x \in 0..100 :
          Append(ok[d], x) \in Lists /\ Len(Append(ok[d], x)) = 2
    <2> SUFFICES ASSUME NEW d \in required, NEW x \in 0..100
                 PROVE  Append(ok[d], x) \in Lists /\ Len(Append(ok[d], x)) = 2
        OBVIOUS
    <2>1. ok[d] = <<grades[d]>> /\ grades[d] \in 0..100
        BY <1>0, <1>3, <1>4
    <2>2. ok[d] \in Seq(0..100) /\ Len(ok[d]) = 1
        BY <2>1
    <2>3. \A q \in Seq(0..100) : \A y \in 0..100 :
              Append(q, y) \in Seq(0..100) /\ Len(Append(q, y)) = Len(q) + 1
        OBVIOUS
    <2>4. Append(ok[d], x) \in Seq(0..100) /\ Len(Append(ok[d], x)) = 1 + 1
        <3> HIDE DEF ok
        <3> QED BY <2>2, <2>3
    <2> QED BY <2>4
<1> DEFINE Good(b) == /\ b \in [Dimension -> Lists]
                      /\ \A d \in Dimension : Len(b[d]) = 1 => b[d] = <<grades[d]>>
<1>7. ok \in [Dimension -> Lists]
    <2> HIDE DEF Lists
    <2> QED BY <1>4, <1>5
<1>8. Good(ok)
    <2> HIDE DEF ok, Lists
    <2> QED BY <1>2, <1>5, <1>7
<1>9. \A d \in required : Good([ok EXCEPT ![d] = <<>>])
    <2> SUFFICES ASSUME NEW d \in required
                 PROVE  Good([ok EXCEPT ![d] = <<>>])
        OBVIOUS
    <2> DEFINE cut == [ok EXCEPT ![d] = <<>>]
    <2>1. cut \in [Dimension -> Lists] /\ \A x \in Dimension : cut[x] \in {ok[x], <<>>}
        <3> HIDE DEF ok, Lists
        <3> QED BY <1>0, <1>2, <1>8
    <2>2. \A x \in Dimension : Len(ok[x]) = 1 => ok[x] = <<grades[x]>>
        BY <1>8
    <2>3. \A x \in Dimension : Len(cut[x]) = 1 => cut[x] = <<grades[x]>>
        <3> HIDE DEF cut, ok, Lists, Good
        <3> SUFFICES ASSUME NEW x \in Dimension, Len(cut[x]) = 1
                     PROVE  cut[x] = <<grades[x]>>
            OBVIOUS
        <3>1. cut[x] = ok[x] \/ cut[x] = <<>>
            BY <2>1
        <3>2. cut[x] # <<>>
            BY <1>2
        <3> QED BY <2>2, <3>1, <3>2
    <2> QED BY <2>1, <2>3
<1>10. \A d \in required, x \in Scores : Good([ok EXCEPT ![d] = Append(@, x)])
    <2> SUFFICES ASSUME NEW d \in required, NEW x \in Scores
                 PROVE  Good([ok EXCEPT ![d] = Append(@, x)])
        OBVIOUS
    <2>1. Append(ok[d], x) \in Lists /\ Len(Append(ok[d], x)) = 2
        BY <1>0, <1>6
    <2> HIDE DEF ok, Lists
    <2> QED BY <1>0, <1>8, <2>1
<1>11. \A d, e \in required :
           Good([ok EXCEPT ![d] = Append(@, grades[e]), ![e] = <<>>])
    <2> SUFFICES ASSUME NEW d \in required, NEW e \in required
                 PROVE  Good([ok EXCEPT ![d] = Append(@, grades[e]), ![e] = <<>>])
        OBVIOUS
    <2>1. Append(ok[d], grades[e]) \in Lists /\ Len(Append(ok[d], grades[e])) = 2
        BY <1>0, <1>3, <1>6
    <2> DEFINE b == [ok EXCEPT ![d] = Append(@, grades[e])]
    <2>2. Good(b)
        <3> HIDE DEF ok, Lists
        <3> QED BY <1>0, <1>8, <2>1
    <2>3. Good([b EXCEPT ![e] = <<>>])
        <3> HIDE DEF b, Lists
        <3> QED BY <1>0, <1>2, <2>2
    <2> QED BY <2>3
<1>12. Good([ok EXCEPT !["proposta_intervencao"] = <<grades["proposta_intervencao"]>>])
    <2>1. "proposta_intervencao" \in Dimension
        BY DEF Dimension
    <2> HIDE DEF ok, Lists
    <2> QED BY <1>1, <1>3, <1>8, <2>1
<1>13. Good(a)
    <2> HIDE DEF ok, Good
    <2> QED BY <1>8, <1>9, <1>10, <1>11, <1>12 DEF Answers, ok
<1> QED BY <1>0, <1>13 DEF Answer

\* The rule reads nothing but the base dimensions.
LEMMA RuleReadsBase ==
    ASSUME NEW a \in Answer, NEW b \in Answer,
           \A d \in BASE_DIMENSIONS : a[d] = b[d]
    PROVE  decide_verdict(a) = decide_verdict(b)
<1>1. BasePoints(a) = BasePoints(b)
    BY DEF BasePoints, BASE_DIMENSIONS
<1>2. BaseListed(a) = BaseListed(b)
    <2> DEFINE n(c, d) == Len(c[d])
    <2>1. \A c \in Answer : \A d \in Dimension : n(c, d) \in Nat
        BY DEF Answer
    <2>2. \A c \in Answer : BaseListed(c) =
              n(c, "norma_culta") + n(c, "coesao") + n(c, "coerencia")
                  + n(c, "repertorio") + n(c, "persuasao")
        <3>1. \A c \in Answer : BaseListed(c) =
                  n(c, "norma_culta") + n(c, "coesao") + n(c, "coerencia")
                      + n(c, "repertorio") + n(c, "persuasao")
                      + n(c, "proposta_intervencao") - n(c, "proposta_intervencao")
            BY DEF BaseListed, Listed
        <3> HIDE DEF n
        <3> QED BY <2>1, <3>1 DEF Dimension, BASE_DIMENSIONS
    <2> QED BY <2>2 DEF BASE_DIMENSIONS
<1>3. Failed(a) = Failed(b)
    BY DEF Failed
<1> QED BY <1>1, <1>2, <1>3 DEF decide_verdict, BelowAverage

LEMMA VerdictType == \A a : decide_verdict(a) \in Verdict
BY DEF decide_verdict, Verdict

-----------------------------------------------------------------------------
(* A better score never gets a worse verdict.                              *)

\* The sum and the number of scores the average is made of, when each base
\* dimension is listed once.
LEMMA AverageOfFive ==
    ASSUME NEW a \in Answer, \A d \in BASE_DIMENSIONS : Len(a[d]) = 1
    PROVE  /\ BaseListed(a) = 5
           /\ \A d \in BASE_DIMENSIONS : a[d][1] \in Nat
           /\ BasePoints(a) = a["norma_culta"][1] + a["coesao"][1]
                  + a["coerencia"][1] + a["repertorio"][1] + a["persuasao"][1]
<1>1. \A d \in Dimension : a[d] \in Seq(0..100) /\ Len(a[d]) \in Nat
    BY DEF Answer
<1>2. \A d \in BASE_DIMENSIONS : a[d][1] \in Nat
    <2>1. \A q \in Seq(0..100) : Len(q) = 1 => q[1] \in Nat
        <3> SUFFICES ASSUME NEW q \in Seq(0..100), Len(q) = 1 PROVE q[1] \in Nat
            OBVIOUS
        <3>1. 1 \in 1..Len(q)
            OBVIOUS
        <3>2. q[1] \in 0..100
            BY <3>1, ElementOfSeq
        <3> QED BY <3>2, Percent
    <2> QED BY <1>1, <2>1 DEF Dimension
<1>3. \A d \in BASE_DIMENSIONS : Points(a[d]) = a[d][1]
    BY DEF Points
<1>4. BasePoints(a) = a["norma_culta"][1] + a["coesao"][1]
          + a["coerencia"][1] + a["repertorio"][1] + a["persuasao"][1]
    BY <1>3 DEF BasePoints, BASE_DIMENSIONS
<1>5. BaseListed(a) = 5
    <2> DEFINE n(d) == Len(a[d])
    <2>1. BaseListed(a) = n("norma_culta") + n("coesao") + n("coerencia")
              + n("repertorio") + n("persuasao")
              + n("proposta_intervencao") - n("proposta_intervencao")
        BY DEF BaseListed, Listed
    <2>2. n("proposta_intervencao") \in Nat
        BY <1>1 DEF Dimension
    <2>3. /\ n("norma_culta") = 1 /\ n("coesao") = 1 /\ n("coerencia") = 1
          /\ n("repertorio") = 1 /\ n("persuasao") = 1
        BY DEF BASE_DIMENSIONS
    <2> HIDE DEF n
    <2> QED BY <2>1, <2>2, <2>3
<1> QED BY <1>2, <1>4, <1>5

\* The rule is monotone in the five base scores, for any floor and any minimum.
THEOREM RuleMonotone ==
    ASSUME NEW a \in Answer, NEW b \in Answer,
           \A d \in BASE_DIMENSIONS :
               Len(a[d]) = 1 /\ Len(b[d]) = 1 /\ a[d][1] <= b[d][1]
    PROVE  Rank(decide_verdict(a)) <= Rank(decide_verdict(b))
<1>1. \A d \in BASE_DIMENSIONS : a[d][1] \in Nat /\ b[d][1] \in Nat
    BY AverageOfFive
<1>2. Failed(b) \subseteq Failed(a)
    <2> SUFFICES ASSUME NEW d \in BASE_DIMENSIONS,
                        \E i \in 1..Len(b[d]) : b[d][i] < dimension_floor
                 PROVE  \E i \in 1..Len(a[d]) : a[d][i] < dimension_floor
        BY DEF Failed
    <2>1. b[d][1] < dimension_floor
        OBVIOUS
    <2>2. a[d][1] < dimension_floor
        BY <1>1, <2>1, RulerAssumption
    <2> QED BY <2>2
<1>3. BelowAverage(b) => BelowAverage(a)
    <2>1. BasePoints(a) \in Nat /\ BasePoints(b) \in Nat /\ BasePoints(a) <= BasePoints(b)
        <3> DEFINE p(d) == a[d][1]
                   q(d) == b[d][1]
        <3>1. \A d \in BASE_DIMENSIONS : p(d) \in Nat /\ q(d) \in Nat /\ p(d) <= q(d)
            BY <1>1
        <3>2. BasePoints(a) = p("norma_culta") + p("coesao") + p("coerencia")
                  + p("repertorio") + p("persuasao")
            BY AverageOfFive
        <3>3. BasePoints(b) = q("norma_culta") + q("coesao") + q("coerencia")
                  + q("repertorio") + q("persuasao")
            BY AverageOfFive
        <3> HIDE DEF p, q
        <3> QED BY <3>1, <3>2, <3>3 DEF BASE_DIMENSIONS
    <2>2. BaseListed(a) = BaseListed(b)
        BY AverageOfFive
    <2>3. min_average * BaseListed(a) = min_average * BaseListed(b)
        BY <2>2
    <2>4. min_average * BaseListed(a) \in Nat
        BY AverageOfFive, RulerAssumption
    <2> QED BY <2>1, <2>3, <2>4 DEF BelowAverage
<1> QED BY <1>2, <1>3 DEF decide_verdict, Rank

-----------------------------------------------------------------------------
(* Every correction was decided on what the engine thinks of the text.     *)

\* A stored correction has each base dimension once, with the engine's score,
\* the verdict the rule gives it, and nothing but what its exam asks for.
Decided(s) ==
    /\ \A d \in BASE_DIMENSIONS : correction[s].scores[d] = <<grades[d]>>
    /\ correction[s].verdict = decide_verdict(correction[s].scores)
    /\ Answered(correction[s].scores) = required_dimensions(kind, correction[s].exam)

\* The inductive invariant.
DecidedInv == TypeOK /\ \A s \in Students : Evaluated(s) => Decided(s)

LEMMA RequiredDimensions ==
    \A k, e : /\ required_dimensions(k, e) \in {BASE_DIMENSIONS, Dimension}
              /\ BASE_DIMENSIONS \subseteq required_dimensions(k, e)
BY DEF required_dimensions, BASE_DIMENSIONS, Dimension

LEMMA InitDecided == Init => DecidedInv
BY DEF Init, DecidedInv, TypeOK, Evaluated, Stage, NoCorrection, NoExam

LEMMA StepDecided == DecidedInv /\ [Next]_vars => DecidedInv'
<1> SUFFICES ASSUME DecidedInv, [Next]_vars PROVE DecidedInv'
    OBVIOUS
<1> USE DEF DecidedInv
<1>0. NoExam \notin Exam /\ DEFAULT_EXAM \in Exam
    BY DEF NoExam, Exam, DEFAULT_EXAM
<1>1. CASE UNCHANGED vars
    <2>1. TypeOK'
        BY <1>1 DEF vars, TypeOK, Evaluated
    <2>2. \A t \in Students : Evaluated(t)' => Decided(t)'
        BY <1>1 DEF vars, Evaluated, Decided
    <2> QED BY <2>1, <2>2
<1>2. ASSUME NEW s \in Students, NEW e \in Exam \cup {NoExam}, ChangeExam(s, e)
      PROVE  DecidedInv'
    <2>1. TypeOK'
        BY <1>2 DEF ChangeExam, TypeOK, Evaluated
    <2>2. \A t \in Students : Evaluated(t)' => Decided(t)'
        BY <1>2 DEF ChangeExam, Evaluated, Decided
    <2> QED BY <2>1, <2>2
<1>3. ASSUME NEW s \in Students, Begin(s) PROVE DecidedInv'
    <2>1. TypeOK'
        BY <1>0, <1>3 DEF Begin, TypeOK, Evaluated, Stage
    <2>2. \A t \in Students : Evaluated(t)' => Decided(t)'
        BY <1>3 DEF Begin, Evaluated, Decided
    <2> QED BY <2>1, <2>2
<1>4. ASSUME NEW s \in Students, PipelineRaises(s) PROVE DecidedInv'
    <2>1. TypeOK'
        BY <1>4 DEF PipelineRaises, TypeOK, Evaluated, Stage
    <2>2. \A t \in Students : Evaluated(t)' => Decided(t)'
        BY <1>4 DEF PipelineRaises, Evaluated, Decided
    <2> QED BY <2>1, <2>2
<1>5. ASSUME NEW s \in Students, Grade(s) PROVE DecidedInv'
    <2> DEFINE required == required_dimensions(kind, exam[s])
    <2>1. PICK a \in Answers(required) :
              IF ensure_graded_exactly(a, required) /\ ~ScoreTwice(a)
              THEN /\ correction' = [correction EXCEPT ![s] = Stored(s, a)]
                   /\ stage' = [stage EXCEPT ![s] = "evaluated"]
              ELSE /\ stage' = [stage EXCEPT ![s] = "failed"]
                   /\ UNCHANGED correction
        BY <1>5 DEF Grade
    <2>2. required \in {BASE_DIMENSIONS, Dimension} /\ BASE_DIMENSIONS \subseteq required
        BY RequiredDimensions
    <2>3. /\ a \in Answer
          /\ \A d \in BASE_DIMENSIONS : Len(a[d]) = 1 => a[d] = <<grades[d]>>
        BY <2>2, AnswersAreAnswers DEF TypeOK
    <2>4. UNCHANGED <<kind, grades, active, exam>> /\ stage[s] = "grading"
        BY <1>5 DEF Grade
    <2>5. exam[s] \in Exam
        BY <2>4 DEF TypeOK
    <2>6. CASE ensure_graded_exactly(a, required) /\ ~ScoreTwice(a)
        <3>1. \A d \in BASE_DIMENSIONS : a[d] = <<grades[d]>>
            BY <2>2, <2>3, <2>6, GradedOnce
        <3> DEFINE c == [verdict |-> decide_verdict(a), scores |-> a, exam |-> exam[s]]
        <3>2. c \in [verdict : Verdict, scores : Answer, exam : Exam]
            BY <2>3, <2>5, VerdictType
        <3>3. c # NoCorrection
            <4>1. c.verdict # NoCorrection.verdict
                BY VerdictType DEF NoCorrection, Verdict
            <4> QED BY <4>1
        <3>4. /\ correction' = [correction EXCEPT ![s] = c]
              /\ stage' = [stage EXCEPT ![s] = "evaluated"]
            BY <2>1, <2>6 DEF Stored
        <3>5. /\ c.scores = a /\ c.verdict = decide_verdict(a) /\ c.exam = exam[s]
              /\ Answered(a) = required_dimensions(kind, exam[s])
            BY <2>6 DEF ensure_graded_exactly
        <3> HIDE DEF c
        <3>6. TypeOK'
            <4>1. \A t \in Students : Evaluated(t)' <=> (t = s \/ Evaluated(t))
                BY <3>3, <3>4 DEF Evaluated, TypeOK
            <4> QED BY <2>4, <2>5, <3>2, <3>4, <4>1 DEF TypeOK, Stage
        <3>7. \A t \in Students \ {s} : Evaluated(t)' => Decided(t)'
            <4>1. \A t \in Students \ {s} : correction'[t] = correction[t]
                BY <3>4 DEF TypeOK
            <4> QED BY <2>4, <4>1 DEF Evaluated, Decided
        <3>8. Decided(s)'
            <4>1. correction'[s] = c
                BY <3>4 DEF TypeOK
            <4> QED BY <2>4, <3>1, <3>5, <4>1 DEF Decided
        <3> QED BY <3>6, <3>7, <3>8
    <2>7. CASE ~(ensure_graded_exactly(a, required) /\ ~ScoreTwice(a))
        <3>1. stage' = [stage EXCEPT ![s] = "failed"] /\ correction' = correction
            BY <2>1, <2>7
        <3>2. TypeOK'
            BY <2>4, <3>1 DEF TypeOK, Evaluated, Stage
        <3>3. \A t \in Students : Evaluated(t)' => Decided(t)'
            BY <2>4, <3>1 DEF Evaluated, Decided
        <3> QED BY <3>2, <3>3
    <2> QED BY <2>6, <2>7
<1> QED BY <1>1, <1>2, <1>3, <1>4, <1>5 DEF Next

THEOREM AlwaysDecided == Spec => []DecidedInv
BY InitDecided, StepDecided, PTL DEF Spec

-----------------------------------------------------------------------------
(* The properties.                                                         *)

\* The states of Verdicts.tla keep their types, for any students and ruler.
THEOREM VerdictsTyped == Spec => []TypeOK
BY AlwaysDecided, PTL DEF DecidedInv

\* What the engine thinks of the text, as it lists it.
LEMMA FaithfulAnswer ==
    ASSUME grades \in [Dimension -> Scores]
    PROVE  /\ Faithful(BASE_DIMENSIONS) \in Answer
           /\ \A d \in BASE_DIMENSIONS : Faithful(BASE_DIMENSIONS)[d] = <<grades[d]>>
<1>1. Faithful(BASE_DIMENSIONS) \in Answers(BASE_DIMENSIONS)
    BY DEF Answers
<1>2. Faithful(BASE_DIMENSIONS) \in Answer
    BY <1>1, AnswersAreAnswers
<1> QED BY <1>2 DEF Faithful, Dimension

\* No answer that left a required dimension out or listed one twice decides a
\* verdict (ensure_graded_exactly): it is the rule's, on the engine's grades.
THEOREM NeverDistortedHolds == Spec => []NeverDistorted
<1>1. DecidedInv => NeverDistorted
    <2> SUFFICES ASSUME DecidedInv, NEW s \in Students, Evaluated(s)
                 PROVE  correction[s].verdict = decide_verdict(Faithful(BASE_DIMENSIONS))
        BY DEF NeverDistorted
    <2>1. correction[s].scores \in Answer
        BY DEF DecidedInv, TypeOK, Evaluated
    <2>2. \A d \in BASE_DIMENSIONS : correction[s].scores[d] = Faithful(BASE_DIMENSIONS)[d]
        BY FaithfulAnswer DEF DecidedInv, TypeOK, Decided
    <2>3. decide_verdict(correction[s].scores) = decide_verdict(Faithful(BASE_DIMENSIONS))
        BY <2>1, <2>2, FaithfulAnswer, RuleReadsBase DEF DecidedInv, TypeOK
    <2> QED BY <2>3 DEF DecidedInv, Decided
<1> QED BY <1>1, AlwaysDecided, PTL

\* Two students with the same text get the same verdict, whatever exam each of
\* them has picked (evaluation.py:20-23, lenses.py:4-9).
THEOREM ExamBlindHolds == Spec => []ExamBlind
<1>1. NeverDistorted => ExamBlind
    BY DEF NeverDistorted, ExamBlind
<1> QED BY <1>1, NeverDistortedHolds, PTL

\* Raising one score of a stored correction never makes its verdict worse: the
\* case of RuleMonotone the corrections stored are in.
THEOREM BetterNeverWorseHolds == Spec => []BetterNeverWorse
<1>1. DecidedInv => BetterNeverWorse
    <2> SUFFICES ASSUME DecidedInv, NEW s \in Students, NEW d \in Dimension,
                        NEW x \in Scores, Evaluated(s),
                        x >= ByDimension(correction[s].scores, d)
                 PROVE  Rank(decide_verdict([correction[s].scores EXCEPT ![d] = <<x>>]))
                            >= Rank(correction[s].verdict)
        BY DEF BetterNeverWorse
    <2> DEFINE a == correction[s].scores
               b == [a EXCEPT ![d] = <<x>>]
    <2>1. a \in Answer /\ \A e \in BASE_DIMENSIONS : a[e] = <<grades[e]>> /\ grades[e] \in Nat
        <3>1. a \in Answer
            BY DEF DecidedInv, TypeOK, Evaluated
        <3>2. \A e \in BASE_DIMENSIONS : a[e] = <<grades[e]>>
            BY DEF DecidedInv, Decided
        <3>3. \A e \in BASE_DIMENSIONS : grades[e] \in Nat
            <4>1. \A e \in BASE_DIMENSIONS : grades[e] \in Scores
                BY DEF DecidedInv, TypeOK, Dimension
            <4> QED BY <4>1, ScoresAssumption, Percent
        <3> QED BY <3>1, <3>2, <3>3
    <2>2. x \in 0..100 /\ <<x>> \in Seq(0..100) /\ Len(<<x>>) <= 2
        BY ScoresAssumption
    <2>3. b \in Answer
        BY <2>1, <2>2 DEF Answer
    <2>4. \A e \in BASE_DIMENSIONS :
              Len(a[e]) = 1 /\ Len(b[e]) = 1 /\ a[e][1] <= b[e][1]
        <3> SUFFICES ASSUME NEW e \in BASE_DIMENSIONS
                     PROVE  Len(a[e]) = 1 /\ Len(b[e]) = 1 /\ a[e][1] <= b[e][1]
            OBVIOUS
        <3>1. a[e] = <<grades[e]>> /\ grades[e] \in Nat
            BY <2>1
        <3>2. CASE e = d
            <4>1. b[e] = <<x>>
                BY <2>1, <3>2 DEF Answer
            <4>2. x >= a[d][Len(a[d])]
                BY DEF ByDimension
            <4>3. Len(a[d]) = 1 /\ a[d][1] = grades[e]
                <5> HIDE DEF a
                <5> QED BY <3>1, <3>2
            <4>4. x >= grades[e]
                BY <4>2, <4>3
            <4> QED BY <2>2, <3>1, <4>1, <4>4
        <3>3. CASE e # d
            <4>1. b[e] = a[e]
                BY <2>1, <3>3 DEF Answer, Dimension
            <4> QED BY <3>1, <4>1
        <3> QED BY <3>2, <3>3
    <2>5. Rank(decide_verdict(a)) <= Rank(decide_verdict(b))
        <3> HIDE DEF a, b
        <3> QED BY <2>1, <2>3, <2>4, RuleMonotone
    <2>6. decide_verdict(a) = correction[s].verdict
        BY DEF DecidedInv, Decided
    <2>7. \A v \in Verdict : Rank(v) \in Nat
        BY DEF Verdict, Rank
    <2> QED BY <2>5, <2>6, <2>7, VerdictType
<1> QED BY <1>1, AlwaysDecided, PTL

-----------------------------------------------------------------------------
(* The page a correction is shown on.                                      *)

\* The three sums of a page: the points of a criterion, the scales, the scores.
PointsOf(a, G) == MapThenSumSet(LAMBDA d : ByDimension(a, d), G)
ScaleOf(criteria, O) == MapThenSumSet(LAMBDA c : criteria[c].scale_max, O)
ShownOf(score, O) == MapThenSumSet(LAMBDA c : score[c], O)

\* Each adds a number for each element of its set, once.
LEMMA PointsAdd ==
    ASSUME NEW a, NEW G, IsFiniteSet(G)
    PROVE  \E h : Adds(h, [d \in G |-> ByDimension(a, d)], G) /\ PointsOf(a, G) = h[G]
<1> DEFINE w == [d \in G |-> ByDimension(a, d)]
           term(s) == ByDimension(a, CHOOSE x \in s : TRUE)
           sum == CHOOSE h : h = [s \in SUBSET G |->
                      IF s = {} THEN 0
                      ELSE term(s) + h[s \ {CHOOSE x \in s : TRUE}]]
<1>1. PointsOf(a, G) = sum[G]
    BY Zenon DEF PointsOf, MapThenSumSet, MapThenFoldSet
<1>2. PICK h : Adds(h, w, G)
    BY AddsExists
<1>3. \A s \in SUBSET G : s # {} => term(s) = w[First(s)]
    BY FirstIn DEF First
<1>4. h = [s \in SUBSET G |-> IF s = {} THEN 0 ELSE w[First(s)] + h[s \ {First(s)}]]
    BY <1>2 DEF Adds
<1>5. h = [s \in SUBSET G |-> IF s = {} THEN 0 ELSE term(s) + h[s \ {CHOOSE x \in s : TRUE}]]
    <2> HIDE DEF w, term
    <2> QED BY <1>3, <1>4 DEF First
<1>6. sum = [s \in SUBSET G |-> IF s = {} THEN 0 ELSE term(s) + sum[s \ {CHOOSE x \in s : TRUE}]]
    <2> HIDE DEF term
    <2> QED BY <1>5, Zenon
<1>7. Adds(sum, w, G)
    <2> HIDE DEF sum, w, term
    <2>1. sum = [s \in SUBSET G |-> IF s = {} THEN 0 ELSE w[First(s)] + sum[s \ {First(s)}]]
        BY <1>3, <1>6 DEF First
    <2> QED BY <2>1, Zenon DEF Adds
<1> QED BY <1>1, <1>7

LEMMA ScaleAdds ==
    ASSUME NEW criteria, NEW O, IsFiniteSet(O)
    PROVE  \E h : Adds(h, [c \in O |-> criteria[c].scale_max], O) /\ ScaleOf(criteria, O) = h[O]
<1> DEFINE w == [c \in O |-> criteria[c].scale_max]
           term(s) == criteria[CHOOSE x \in s : TRUE].scale_max
           sum == CHOOSE h : h = [s \in SUBSET O |->
                      IF s = {} THEN 0
                      ELSE term(s) + h[s \ {CHOOSE x \in s : TRUE}]]
<1>1. ScaleOf(criteria, O) = sum[O]
    BY Zenon DEF ScaleOf, MapThenSumSet, MapThenFoldSet
<1>2. PICK h : Adds(h, w, O)
    BY AddsExists
<1>3. \A s \in SUBSET O : s # {} => term(s) = w[First(s)]
    BY FirstIn DEF First
<1>4. h = [s \in SUBSET O |-> IF s = {} THEN 0 ELSE w[First(s)] + h[s \ {First(s)}]]
    BY <1>2 DEF Adds
<1>5. h = [s \in SUBSET O |-> IF s = {} THEN 0 ELSE term(s) + h[s \ {CHOOSE x \in s : TRUE}]]
    <2> HIDE DEF w, term
    <2> QED BY <1>3, <1>4 DEF First
<1>6. sum = [s \in SUBSET O |-> IF s = {} THEN 0 ELSE term(s) + sum[s \ {CHOOSE x \in s : TRUE}]]
    <2> HIDE DEF term
    <2> QED BY <1>5, Zenon
<1>7. Adds(sum, w, O)
    <2> HIDE DEF sum, w, term
    <2>1. sum = [s \in SUBSET O |-> IF s = {} THEN 0 ELSE w[First(s)] + sum[s \ {First(s)}]]
        BY <1>3, <1>6 DEF First
    <2> QED BY <2>1, Zenon DEF Adds
<1> QED BY <1>1, <1>7

LEMMA ShownAdds ==
    ASSUME NEW score, NEW O, IsFiniteSet(O)
    PROVE  \E h : Adds(h, score, O) /\ ShownOf(score, O) = h[O]
<1> DEFINE sum == CHOOSE h : h = [s \in SUBSET O |->
                      IF s = {} THEN 0
                      ELSE score[CHOOSE x \in s : TRUE] + h[s \ {CHOOSE x \in s : TRUE}]]
<1>1. ShownOf(score, O) = sum[O]
    BY Zenon DEF ShownOf, MapThenSumSet, MapThenFoldSet
<1>2. sum = CHOOSE h : Adds(h, score, O)
    BY Zenon DEF Adds, First
<1>3. Adds(sum, score, O)
    BY <1>2, AddsExists, Zenon
<1> QED BY <1>1, <1>3

\* The score of a criterion, by that sum.
LEMMA ScoreIs == \A a, c : CriterionScore(a, c) =
    HalfUp(PointsOf(a, GradedOf(a, c)) * c.scale_max, 100 * Cardinality(GradedOf(a, c)))
BY Zenon DEF CriterionScore, PointsOf, MapThenSumSet, MapThenFoldSet

\* The last score listed is on the scale of the engine.
LEMMA GradeOnScale ==
    ASSUME NEW a \in Answer, NEW d \in Answered(a)
    PROVE  ByDimension(a, d) \in 0..100
<1>1. a[d] \in Seq(0..100) /\ a[d] # <<>>
    BY DEF Answered, Answer
<1>2. Len(a[d]) \in 1..Len(a[d])
    <2> DEFINE q == a[d]
    <2>1. q \in Seq(0..100) /\ q # <<>>
        BY <1>1
    <2> HIDE DEF q
    <2>2. Len(q) \in Nat /\ Len(q) # 0
        BY <2>1, EmptySeq, LenProperties
    <2>3. Len(q) \in 1..Len(q)
        BY <2>2
    <2> QED BY <2>3 DEF q
<1> QED BY <1>1, <1>2, ElementOfSeq DEF ByDimension

\* A mean of one or two grades, brought to a scale of 100 or 200 points.
LEMMA Scaled ==
    \A p \in 0..100 : HalfUp(p * 100, 100) \in 0..100 /\ HalfUp(p * 200, 100) \in 0..200
BY DEF HalfUp

LEMMA ScaledMean ==
    \A p \in 0..200 : HalfUp(p * 100, 200) \in 0..100
BY DEF HalfUp

LEMMA PointsOfOne ==
    ASSUME NEW a, NEW x, ByDimension(a, x) \in 0..100
    PROVE  PointsOf(a, {x}) \in 0..100
<1> DEFINE w == [d \in {x} |-> ByDimension(a, d)]
<1>1. IsFiniteSet({x})
    BY FS_Singleton
<1>2. PICK h : Adds(h, w, {x}) /\ PointsOf(a, {x}) = h[{x}]
    BY <1>1, PointsAdd
<1>3. w[x] \in 0..100 /\ \A d \in {x} : w[d] \in Int
    OBVIOUS
<1>4. h[{x}] = w[x] + h[{x} \ {x}] /\ h[{}] = 0
    <2> HIDE DEF w
    <2> QED BY <1>1, <1>2, <1>3, AnyFirst, SumOfNone
<1>5. {x} \ {x} = {}
    OBVIOUS
<1> HIDE DEF w
<1> QED BY <1>2, <1>3, <1>4, <1>5

LEMMA PointsOfTwo ==
    ASSUME NEW a, NEW x, NEW y, x # y,
           ByDimension(a, x) \in 0..100, ByDimension(a, y) \in 0..100
    PROVE  PointsOf(a, {x, y}) \in 0..200
<1> DEFINE G == {x, y}
           w == [d \in G |-> ByDimension(a, d)]
<1>1. IsFiniteSet(G)
    <2>1. IsFiniteSet({x}) /\ G = {x} \cup {y}
        BY FS_Singleton
    <2> QED BY <2>1, FS_AddElement
<1>2. PICK h : Adds(h, w, G) /\ PointsOf(a, G) = h[G]
    BY <1>1, PointsAdd
<1>3. w[x] \in 0..100 /\ w[y] \in 0..100 /\ \A d \in G : w[d] \in Int
    OBVIOUS
<1>4. h[{x, y}] = w[x] + w[y]
    <2>1. /\ x # y /\ w[x] \in Int /\ w[y] \in Int
          /\ Adds(h, w, G) /\ x \in G /\ y \in G /\ \A z \in G : z = x \/ z = y
        BY <1>2, <1>3
    <2> HIDE DEF w, G
    <2>2. h[G] = w[x] + w[y]
        BY <2>1, SumOfTwo
    <2> QED BY <2>1, <2>2
<1>5. PointsOf(a, {x, y}) = h[{x, y}]
    BY <1>2
<1> HIDE DEF w, G
<1> QED BY <1>3, <1>4, <1>5

LEMMA AddedToOne ==
    \A S, y : IsFiniteSet(S) /\ Cardinality(S) = 1 /\ y \notin S => Cardinality(S \cup {y}) = 2
<1> SUFFICES ASSUME NEW S, NEW y, IsFiniteSet(S), Cardinality(S) = 1, y \notin S
             PROVE  Cardinality(S \cup {y}) = 2
    OBVIOUS
<1>1. Cardinality(S \cup {y}) = Cardinality(S) + 1
    BY FS_AddElement
<1> QED BY <1>1

\* A criterion is shown on its scale when all its dimensions are graded.
LEMMA CriterionOnScale ==
    ASSUME NEW a \in Answer, NEW c,
           \/ /\ c.scale_max \in {100, 200}
              /\ \E x \in Answered(a) : c.dimensions = {x}
           \/ /\ c.scale_max = 100
              /\ \E x, y \in Answered(a) : x # y /\ c.dimensions = {x, y}
    PROVE  /\ GradedOf(a, c) # {}
           /\ CriterionScore(a, c) \in 0..c.scale_max
<1>1. ASSUME c.scale_max \in {100, 200}, NEW x \in Answered(a), c.dimensions = {x}
      PROVE  GradedOf(a, c) # {} /\ CriterionScore(a, c) \in 0..c.scale_max
    <2>1. GradedOf(a, c) = {x}
        BY <1>1 DEF GradedOf
    <2>2. Cardinality({x}) = 1
        BY FS_Singleton
    <2>3. PointsOf(a, {x}) \in 0..100
        BY GradeOnScale, PointsOfOne
    <2>4. CriterionScore(a, c) = HalfUp(PointsOf(a, {x}) * c.scale_max, 100)
        BY <2>1, <2>2, ScoreIs
    <2>5. GradedOf(a, c) # {}
        BY <2>1
    <2> DEFINE pts == PointsOf(a, {x})
    <2>6. HalfUp(pts * 100, 100) \in 0..100 /\ HalfUp(pts * 200, 100) \in 0..200
        <3>1. pts \in 0..100
            BY <2>3
        <3> HIDE DEF pts
        <3> QED BY <3>1, Scaled
    <2>9. pts \in 0..100 /\ CriterionScore(a, c) = HalfUp(pts * c.scale_max, 100)
        BY <2>3, <2>4
    <2>7. CASE c.scale_max = 100
        <3>1. CriterionScore(a, c) = HalfUp(pts * 100, 100)
            <4> HIDE DEF pts
            <4> QED BY <2>9, <2>7
        <3>2. CriterionScore(a, c) \in 0..100
            <4> HIDE DEF pts
            <4> QED BY <2>6, <3>1
        <3> QED BY <2>5, <2>7, <3>2
    <2>8. CASE c.scale_max = 200
        <3>1. CriterionScore(a, c) = HalfUp(pts * 200, 100)
            <4> HIDE DEF pts
            <4> QED BY <2>9, <2>8
        <3>2. CriterionScore(a, c) \in 0..200
            <4> HIDE DEF pts
            <4> QED BY <2>6, <3>1
        <3> QED BY <2>5, <2>8, <3>2
    <2> QED BY <1>1, <2>5, <2>7, <2>8
<1>2. ASSUME c.scale_max = 100, NEW x \in Answered(a), NEW y \in Answered(a),
             x # y, c.dimensions = {x, y}
      PROVE  GradedOf(a, c) # {} /\ CriterionScore(a, c) \in 0..c.scale_max
    <2>1. GradedOf(a, c) = {x, y}
        BY <1>2 DEF GradedOf
    <2>2. Cardinality({x, y}) = 2
        <3> DEFINE One == {x}
        <3>1. Cardinality(One) = 1 /\ IsFiniteSet(One)
            BY FS_Singleton
        <3>2. y \notin One
            BY <1>2
        <3>3. One \cup {y} = {x, y}
            OBVIOUS
        <3> HIDE DEF One
        <3>4. Cardinality(One \cup {y}) = 2
            BY <3>1, <3>2, AddedToOne
        <3> QED BY <3>3, <3>4
    <2>3. PointsOf(a, {x, y}) \in 0..200
        BY <1>2, GradeOnScale, PointsOfTwo
    <2>4. CriterionScore(a, c) = HalfUp(PointsOf(a, {x, y}) * 100, 200)
        BY <1>2, <2>1, <2>2, ScoreIs
    <2> DEFINE pts == PointsOf(a, {x, y})
    <2>5. HalfUp(pts * 100, 200) \in 0..100
        <3>1. pts \in 0..200
            BY <2>3
        <3> HIDE DEF pts
        <3> QED BY <3>1, ScaledMean
    <2>6. GradedOf(a, c) # {}
        BY <2>1
    <2> QED BY <1>2, <2>4, <2>5, <2>6
<1> QED BY <1>1, <1>2

\* What project_lens finds official, and what it shows of each.
Official(a, e, k) == {c \in official_for(e, k) : GradedOf(a, Criteria(e)[c]) # {}}
Shown(a, e, k) == [c \in Official(a, e, k) |-> CriterionScore(a, Criteria(e)[c])]

\* A page all of whose criteria are graded.
LEMMA LensIs ==
    ASSUME NEW a, NEW e, NEW k, Official(a, e, k) = official_for(e, k)
    PROVE  LET view == project_lens(a, e, k)
               O == official_for(e, k)
           IN  /\ view.criteria = Shown(a, e, k)
               /\ view.total = Total(ShownOf(Shown(a, e, k), O), ScaleOf(Criteria(e), O), e)
               /\ view.total_max = IF e = "fuvest" THEN 100 ELSE ScaleOf(Criteria(e), O)
               /\ view.source = IF e = "enem" /\ k = "chefe" THEN "board" ELSE "argumenta"
<1> DEFINE view == project_lens(a, e, k)
           O == official_for(e, k)
<1>1. view.total = IF Official(a, e, k) = official_for(e, k)
           THEN Total(ShownOf(Shown(a, e, k), Official(a, e, k)),
                      ScaleOf(Criteria(e), Official(a, e, k)), e)
           ELSE NoTotal
    BY Zenon DEF project_lens, ShownOf, ScaleOf, Official, Shown, MapThenSumSet, MapThenFoldSet
<1>2. view.total_max = IF ~(Official(a, e, k) = official_for(e, k)) THEN NoTotal
           ELSE IF e = "fuvest" THEN 100 ELSE ScaleOf(Criteria(e), Official(a, e, k))
    BY Zenon DEF project_lens, ScaleOf, Official, MapThenSumSet, MapThenFoldSet
<1>3. /\ view.criteria = Shown(a, e, k)
      /\ view.source = IF e = "enem" /\ k = "chefe" THEN "board" ELSE "argumenta"
    BY Zenon DEF project_lens, Official, Shown, MapThenSumSet, MapThenFoldSet
<1> HIDE DEF view
<1> QED BY <1>1, <1>2, <1>3, Zenon DEF view

\* What is shown never exceeds the scale, and neither is below zero.
LEMMA ShownWithinScale ==
    ASSUME NEW criteria, NEW score, NEW O, IsFiniteSet(O),
           \A c \in O : criteria[c].scale_max \in Nat /\ score[c] \in 0..criteria[c].scale_max
    PROVE  ShownOf(score, O) \in 0..ScaleOf(criteria, O)
<1> DEFINE w == [c \in O |-> criteria[c].scale_max]
<1>1. PICK h : Adds(h, score, O) /\ ShownOf(score, O) = h[O]
    BY ShownAdds
<1>2. PICK k : Adds(k, w, O) /\ ScaleOf(criteria, O) = k[O]
    BY ScaleAdds
<1>3. \A c \in O : score[c] \in Nat /\ w[c] \in Nat /\ score[c] <= w[c]
    OBVIOUS
<1> HIDE DEF w
<1>4. h[O] <= k[O]
    BY <1>1, <1>2, <1>3, SumGrows
<1>5. h[O] \in Int /\ k[O] \in Int
    BY <1>1, <1>2, <1>3, SumType
<1>6. PICK z : Adds(z, score, {})
    BY FS_EmptySet, AddsExists
<1>7. z[{}] <= h[O] /\ z[{}] = 0
    BY <1>1, <1>3, <1>6, FS_EmptySet, SumGrows, SumOfNone
<1> QED BY <1>1, <1>2, <1>4, <1>5, <1>7


\* The criteria of each page.
LEMMA OfficialIs ==
    /\ official_for("enem", "chefe") = {"C1", "C2", "C3", "C4", "C5"}
    /\ official_for("enem", "confronto") = {"C1", "C2", "C3", "C4"}
    /\ \A k : official_for("fuvest", k) = {"E1", "E2", "E3"}
<1>1. DOMAIN Criteria("enem") = {"C1", "C2", "C3", "C4", "C5"}
    BY DEF Criteria
<1>2. DOMAIN Criteria("fuvest") = {"E1", "E2", "E3"}
    BY DEF Criteria
<1>3. /\ \A c \in {"C1", "C2", "C3", "C4"} : ~Criteria("enem")[c].boss_only
      /\ Criteria("enem")["C5"].boss_only
    BY DEF Criteria, Criterion
<1>4. \A c \in {"E1", "E2", "E3"} : ~Criteria("fuvest")[c].boss_only
    BY DEF Criteria, Criterion
<1>5. \A k : official_for("fuvest", k) = {"E1", "E2", "E3"}
    BY <1>2, <1>4 DEF official_for
<1>6. official_for("enem", "chefe") = {"C1", "C2", "C3", "C4", "C5"}
    BY <1>1, <1>3 DEF official_for
<1>7. official_for("enem", "confronto") = {"C1", "C2", "C3", "C4"}
    BY <1>1, <1>3 DEF official_for
<1> QED BY <1>5, <1>6, <1>7

LEMMA FiveCompetences ==
    LET S == {"C1", "C2", "C3", "C4", "C5"} IN IsFiniteSet(S) /\ Cardinality(S) = 5
<1>1. \A S : \A x : IsFiniteSet(S) /\ x \notin S =>
          IsFiniteSet(S \cup {x}) /\ Cardinality(S \cup {x}) = Cardinality(S) + 1
    BY FS_AddElement
<1> DEFINE A == {"C1"}
           B == A \cup {"C2"}
           C == B \cup {"C3"}
           D == C \cup {"C4"}
           E == D \cup {"C5"}
<1>2. "C2" \notin A /\ "C3" \notin B /\ "C4" \notin C /\ "C5" \notin D
    OBVIOUS
<1>3. IsFiniteSet(A) /\ Cardinality(A) = 1
    BY FS_Singleton
<1>4. IsFiniteSet(B) /\ Cardinality(B) = 2
    <2> HIDE DEF A
    <2> QED BY <1>1, <1>2, <1>3
<1>5. IsFiniteSet(C) /\ Cardinality(C) = 3
    <2> HIDE DEF B
    <2> QED BY <1>1, <1>2, <1>4
<1>6. IsFiniteSet(D) /\ Cardinality(D) = 4
    <2> HIDE DEF C
    <2> QED BY <1>1, <1>2, <1>5
<1>7. IsFiniteSet(E) /\ Cardinality(E) = 5
    <2> HIDE DEF D
    <2> QED BY <1>1, <1>2, <1>6
<1>8. E = {"C1", "C2", "C3", "C4", "C5"}
    OBVIOUS
<1> QED BY <1>7, <1>8, Zenon

LEMMA ThreeParameters ==
    LET S == {"E1", "E2", "E3"} IN IsFiniteSet(S) /\ Cardinality(S) = 3
<1>1. \A S : \A x : IsFiniteSet(S) /\ x \notin S =>
          IsFiniteSet(S \cup {x}) /\ Cardinality(S \cup {x}) = Cardinality(S) + 1
    BY FS_AddElement
<1> DEFINE A == {"E1"}
           B == A \cup {"E2"}
           C == B \cup {"E3"}
<1>2. "E2" \notin A /\ "E3" \notin B
    OBVIOUS
<1>3. IsFiniteSet(A) /\ Cardinality(A) = 1
    BY FS_Singleton
<1>4. IsFiniteSet(B) /\ Cardinality(B) = 2
    <2> HIDE DEF A
    <2> QED BY <1>1, <1>2, <1>3
<1>5. IsFiniteSet(C) /\ Cardinality(C) = 3
    <2> HIDE DEF B
    <2> QED BY <1>1, <1>2, <1>4
<1>6. C = {"E1", "E2", "E3"}
    OBVIOUS
<1> QED BY <1>5, <1>6, Zenon

LEMMA FiniteOfficial ==
    ASSUME NEW e \in Exam, NEW k \in ChapterKind
    PROVE  IsFiniteSet(official_for(e, k))
<1>1. {"C1", "C2", "C3", "C4"} \subseteq {"C1", "C2", "C3", "C4", "C5"}
    OBVIOUS
<1>2. IsFiniteSet({"C1", "C2", "C3", "C4"})
    BY <1>1, FiveCompetences, FS_Subset
<1> QED BY <1>2, FiveCompetences, ThreeParameters, OfficialIs DEF Exam, ChapterKind

\* The five competences add up to the thousand points of the board; the three
\* parameters of FUVEST to three hundred, which its total brings to a hundred.
LEMMA Maxima ==
    /\ ScaleOf(Criteria("enem"), {"C1", "C2", "C3", "C4", "C5"}) = 1000
    /\ ScaleOf(Criteria("fuvest"), {"E1", "E2", "E3"}) = 300
<1>1. ASSUME NEW e, NEW n \in Int, NEW O, IsFiniteSet(O),
             \A c \in O : Criteria(e)[c].scale_max = n
      PROVE  ScaleOf(Criteria(e), O) = n * Cardinality(O)
    <2> DEFINE w == [c \in O |-> Criteria(e)[c].scale_max]
    <2>1. PICK h : Adds(h, w, O) /\ ScaleOf(Criteria(e), O) = h[O]
        BY <1>1, ScaleAdds
    <2>2. \A c \in O : w[c] = n
        BY <1>1
    <2> HIDE DEF w
    <2> QED BY <1>1, <2>1, <2>2, SumOfEqual
<1>2. \A c \in {"C1", "C2", "C3", "C4", "C5"} : Criteria("enem")[c].scale_max = 200
    BY DEF Criteria, Criterion
<1>3. \A c \in {"E1", "E2", "E3"} : Criteria("fuvest")[c].scale_max = 100
    BY DEF Criteria, Criterion
<1>4. ScaleOf(Criteria("enem"), {"C1", "C2", "C3", "C4", "C5"}) = 200 * 5
    <2> DEFINE O == {"C1", "C2", "C3", "C4", "C5"}
    <2>1. IsFiniteSet(O) /\ Cardinality(O) = 5
        BY FiveCompetences
    <2> HIDE DEF O
    <2>2. ScaleOf(Criteria("enem"), O) = 200 * Cardinality(O)
        BY <1>1, <1>2, <2>1 DEF O
    <2>3. ScaleOf(Criteria("enem"), O) = 200 * 5
        BY <2>1, <2>2
    <2> QED BY <2>3 DEF O
<1>5. ScaleOf(Criteria("fuvest"), {"E1", "E2", "E3"}) = 100 * 3
    <2> DEFINE O == {"E1", "E2", "E3"}
    <2>1. IsFiniteSet(O) /\ Cardinality(O) = 3
        BY ThreeParameters
    <2> HIDE DEF O
    <2>2. ScaleOf(Criteria("fuvest"), O) = 100 * Cardinality(O)
        BY <1>1, <1>3, <2>1 DEF O
    <2>3. ScaleOf(Criteria("fuvest"), O) = 100 * 3
        BY <2>1, <2>2
    <2> QED BY <2>3 DEF O
<1> QED BY <1>4, <1>5

\* The sum of FUVEST, brought to a hundred.
LEMMA ToHundred == \A n \in 0..300 : HalfUp(n * 100, 300) \in 0..100
BY DEF HalfUp

\* Whatever is graded on all its exam asks for is on every scale of its lens.
LEMMA AllOnScale ==
    ASSUME NEW a \in Answer, NEW e \in Exam, NEW k \in ChapterKind,
           Answered(a) = required_dimensions(k, e), NEW c \in official_for(e, k)
    PROVE  /\ Criteria(e)[c].scale_max \in Nat
           /\ GradedOf(a, Criteria(e)[c]) # {}
           /\ CriterionScore(a, Criteria(e)[c]) \in 0..Criteria(e)[c].scale_max
<1>1. BASE_DIMENSIONS \subseteq Answered(a)
    BY RequiredDimensions
<1> DEFINE x == Criteria(e)[c]
<1>2. CASE e = "fuvest" /\ c = "E2"
    <2>1. x.scale_max = 100 /\ x.dimensions = {"coesao", "coerencia"}
        BY <1>2 DEF Criteria, Criterion
    <2>2. "coesao" \in Answered(a) /\ "coerencia" \in Answered(a)
        BY <1>1 DEF BASE_DIMENSIONS
    <2> HIDE DEF x
    <2>3. GradedOf(a, x) # {} /\ CriterionScore(a, x) \in 0..x.scale_max
        BY <2>1, <2>2, CriterionOnScale
    <2> QED BY <2>1, <2>3 DEF x
<1>3. CASE e = "enem" /\ c = "C5"
    <2>1. x.scale_max = 200 /\ x.dimensions = {"proposta_intervencao"}
        BY <1>3 DEF Criteria, Criterion
    <2>2. k = "chefe"
        BY <1>3, OfficialIs DEF ChapterKind
    <2>3. "proposta_intervencao" \in Answered(a)
        BY <1>3, <2>2 DEF required_dimensions, GradesProposal, Dimension
    <2> HIDE DEF x
    <2>4. GradedOf(a, x) # {} /\ CriterionScore(a, x) \in 0..x.scale_max
        BY <2>1, <2>3, CriterionOnScale
    <2> QED BY <2>1, <2>4 DEF x
<1>4. CASE \/ e = "enem" /\ c \in {"C1", "C2", "C3", "C4"}
           \/ e = "fuvest" /\ c \in {"E1", "E3"}
    <2>1. x.scale_max \in {100, 200} /\ \E d \in BASE_DIMENSIONS : x.dimensions = {d}
        BY <1>4 DEF Criteria, Criterion, BASE_DIMENSIONS
    <2> HIDE DEF x
    <2>2. GradedOf(a, x) # {} /\ CriterionScore(a, x) \in 0..x.scale_max
        BY <1>1, <2>1, CriterionOnScale
    <2> QED BY <2>1, <2>2 DEF x
<1> QED BY <1>2, <1>3, <1>4, OfficialIs DEF Exam, ChapterKind

\* A page that is whole, on its scales, and the board's only out of a thousand.
Honest(view, e) ==
    /\ view.total # NoTotal
    /\ view.total <= view.total_max
    /\ view.source = "board" => view.total_max \in {NoTotal, 1000}
    /\ \A c \in DOMAIN view.criteria : view.criteria[c] \in 0..Criteria(e)[c].scale_max

LEMMA HonestView ==
    ASSUME NEW a \in Answer, NEW e \in Exam, NEW k \in ChapterKind,
           Answered(a) = required_dimensions(k, e), NEW view, view = project_lens(a, e, k)
    PROVE  Honest(view, e)
<1> USE DEF Honest
<1> DEFINE O == official_for(e, k)
           score == Shown(a, e, k)
           most == ScaleOf(Criteria(e), O)
           sum == ShownOf(score, O)
<1>1. \A c \in O : /\ Criteria(e)[c].scale_max \in Nat
                    /\ GradedOf(a, Criteria(e)[c]) # {}
                    /\ CriterionScore(a, Criteria(e)[c]) \in 0..Criteria(e)[c].scale_max
    BY AllOnScale
<1>2. Official(a, e, k) = O
    BY <1>1 DEF Official
<1>3. /\ view.criteria = score
      /\ view.total = Total(sum, most, e)
      /\ view.total_max = IF e = "fuvest" THEN 100 ELSE most
      /\ view.source = IF e = "enem" /\ k = "chefe" THEN "board" ELSE "argumenta"
    BY <1>2, LensIs
<1>4. DOMAIN score = O /\ \A c \in O : score[c] \in 0..Criteria(e)[c].scale_max
    BY <1>1, <1>2 DEF Shown
<1>5. sum \in 0..most
    <2>1. IsFiniteSet(O)
        BY FiniteOfficial
    <2> HIDE DEF O, score
    <2> QED BY <1>1, <1>4, <2>1, ShownWithinScale
<1>6. CASE e = "fuvest"
    <2>1. most = 300
        BY <1>6, OfficialIs, Maxima
    <2>2. view.total = HalfUp(sum * 100, 300) /\ view.total_max = 100 /\ view.source = "argumenta"
        <3> HIDE DEF sum, most
        <3> QED BY <1>3, <1>6, <2>1 DEF Total
    <2>3. view.total \in 0..100
        <3> HIDE DEF sum, most
        <3> QED BY <1>5, <2>1, <2>2, ToHundred
    <2> HIDE DEF score
    <2> QED BY <1>3, <1>4, <2>2, <2>3 DEF NoTotal
<1>7. CASE e = "enem"
    <2>1. view.total = sum /\ view.total_max = most
        <3> HIDE DEF sum, most
        <3> QED BY <1>3, <1>7 DEF Total
    <2>2. view.source = "board" => most = 1000
        <3>1. view.source = "board" => k = "chefe"
            BY <1>3
        <3> QED BY <1>7, <3>1, OfficialIs, Maxima
    <2> HIDE DEF score, sum, most
    <2>3. sum # NoTotal /\ sum <= most
        BY <1>5 DEF NoTotal
    <2> QED BY <1>3, <1>4, <2>1, <2>2, <2>3
<1> QED BY <1>6, <1>7 DEF Exam

\* Whatever the student does to the profile, and whenever, a correction is shown
\* with the total its lens promises, every grade and the total on their scales:
\* the exam it was graded for is the exam it is stored and shown under
\* (evaluate_submission.py:57, get_submission.py:58).
THEOREM HonestTotalHolds == Spec => []HonestTotal
<1>1. DecidedInv => HonestTotal
    <2> SUFFICES ASSUME DecidedInv, NEW s \in Students, Evaluated(s)
                 PROVE  Honest(View(s), correction[s].exam)
        BY DEF HonestTotal, Honest
    <2>1. /\ correction[s].scores \in Answer /\ correction[s].exam \in Exam
          /\ kind \in ChapterKind
        BY DEF DecidedInv, TypeOK, Evaluated
    <2>2. Answered(correction[s].scores) = required_dimensions(kind, correction[s].exam)
        BY DEF DecidedInv, Decided
    <2> QED BY <2>1, <2>2, HonestView DEF View
<1> QED BY <1>1, AlwaysDecided, PTL

=============================================================================
