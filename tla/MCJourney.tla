----------------------------- MODULE MCJourney -----------------------------
EXTENDS Journey, TLC

CONSTANTS s1, s2, t1, t2

\* Two seed runs over what the releases before have left, while a student who has the
\* tutorial's boss ahead, if there is a tutorial, plays on into the next story.
Release(k) ==
    [released |-> k, passed |-> IF k = 0 THEN 0 ELSE 2, seeders |-> {s1, s2}, texts |-> 1, verdicts |-> Verdict,
     praises |-> {FALSE}, days |-> 1, pages |-> FALSE]
Releases == {Release(k) : k \in 0 .. 3}
\* A student who never gets a text through, day after day.
Calendar ==
    [released |-> 1, passed |-> 0, seeders |-> {}, texts |-> 1, verdicts |-> {"failed_technical"},
     praises |-> {FALSE}, days |-> 6, pages |-> FALSE]
\* The end of the tutorial, with two texts at once and the screen open.
Screens ==
    [released |-> 1, passed |-> 2, seeders |-> {}, texts |-> 2, verdicts |-> {"approved", "failed_technical"},
     praises |-> BOOLEAN, days |-> 2, pages |-> TRUE]
\* The screen over the days of a streak that is made, refunded and broken.
Streaks ==
    [released |-> 1, passed |-> 1, seeders |-> {}, texts |-> 1, verdicts |-> {"failed_technical"},
     praises |-> {FALSE}, days |-> 3, pages |-> TRUE]
MCScenarios == Releases \union {Calendar, Screens, Streaks}

Symmetry == Permutations({s1, s2}) \union Permutations({t1, t2})
=============================================================================
