------------------------------- MODULE Habit -------------------------------
(***************************************************************************)
(* Streaks: the arithmetic of domain/habit.py over the days a student      *)
(* practised on, and the query of the streaks at risk (repositories/       *)
(* track.py), which counts nothing and compares two days.                  *)
(***************************************************************************)
EXTENDS Integers, Sequences, FiniteSets

\* The loop walks back from the cursor while it meets practice days.
WalkBack(days, cursor) ==
    LET streak[d \in -2 .. cursor] == IF d \in days THEN 1 + streak[d - 1] ELSE 0
    IN  streak[cursor]

\* Variant: a day without a text yet is a break.
current_streak_TodayBreaks(days, today) == WalkBack(days, today)
current_streak(days, today) == WalkBack(days, IF today \in days THEN today ELSE today - 1)

\* The loop over the sorted days; a run starts anew after a gap.
longest_streak(days) ==
    LET sorted == [i \in 1 .. Cardinality(days) |->
                       CHOOSE day \in days : Cardinality({d \in days : d < day}) = i - 1]
        run[i \in 0 .. Len(sorted)] ==
            IF i = 0 THEN 0 ELSE IF i > 1 /\ sorted[i] - sorted[i - 1] = 1 THEN run[i - 1] + 1 ELSE 1
    IN  CHOOSE best \in {run[i] : i \in DOMAIN run} : \A i \in DOMAIN run : run[i] <= best

\* get_users_with_streak_at_risk, for one student: yesterday, and not today.
AtRisk(days, today) == today - 1 \in days /\ today \notin days

-----------------------------------------------------------------------------
(* What a streak is: n days in a row, each of them practised on. *)

InARow(days, n, last) == last - n + 1 .. last \subseteq days
Longest(days, n, lasts) ==
    /\ \E last \in lasts : InARow(days, n, last)
    /\ \A last \in lasts : ~InARow(days, n + 1, last)
=============================================================================
