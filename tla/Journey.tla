------------------------------ MODULE Journey ------------------------------
(***************************************************************************)
(* One student through the stories: the track opens chapters as stories    *)
(* are released, texts use up the day's corrections and pass chapters, and *)
(* the progress screen tells the streaks and milestones out of what it     *)
(* reads, statement after statement.                                       *)
(*                                                                         *)
(* Submissions.tla and Track.tla have the statements of a submission and   *)
(* of the track; here a text is on its way until its worker reads the      *)
(* chapter's status, and then until it writes it.                          *)
(***************************************************************************)
EXTENDS Content, Habit, ChapterStates, SequencesExt

CONSTANTS Texts,       \* texts that can be on their way at once
          Scenarios,   \* what was released, what may happen, for how many days
          None,        \* no text, or no status read yet
          Limit,       \* DAILY_SUBMISSION_LIMIT
          WEEK_WITHOUT_MISSING_DAYS

ASSUME JourneyAssumption ==
    /\ Limit \in Nat \ {0} /\ WEEK_WITHOUT_MISSING_DAYS \in Nat \ {0}
    /\ \A s \in Scenarios : /\ s.days \in Nat /\ s.released \in 0 .. Len(SEEDS) /\ s.passed \in 0 .. Limit
                            /\ s.seeders \subseteq Seeders

VARIABLES plan,      \* the scenario: released, passed, seeders, texts, verdicts, praises, days, pages
          today,
          statuses,  \* chapter_progress: a status for each chapter with a row
          count,     \* submissions_count of daily_activity, per day
          text,      \* of each text on its way: chapter, day, and the status its worker read
          praised,   \* some evaluation has a repertoire_praise annotation
          page,      \* what the progress screen has read
          shown,     \* history: the milestones the screen last showed as done
          lost       \* history: a practice day was refunded, a passed chapter regressed

vars == <<contents, plan, today, statuses, count, text, praised, page, shown, lost>>
student == <<statuses, count, text, praised, lost>>
screen == <<page, shown>>

AllChapters == UNION {{<<SEEDS[k].slug, n>> : n \in DOMAIN SEEDS[k].chapters} : k \in DOMAIN SEEDS}
Page(stage, days, day, tutorial, praise) ==
    [stage |-> stage, days |-> days, today |-> day, tutorial |-> tutorial, praised |-> praise]
NoPage == Page("idle", {}, 0, FALSE, FALSE)

\* The chapters of the track, in its order.
TrackIds == FlattenSeq([p \in DOMAIN list_published_stories |-> list_published_stories[p].chapter_ids])

\* The first chapters of the track may have been passed at once, on the first day.
Init ==
    /\ plan \in Scenarios
    /\ ContentInit(plan.released) /\ plan.passed <= Len(TrackIds)
    /\ today = 0
    /\ statuses = [c \in AllChapters |->
           IF \E i \in 1 .. plan.passed : TrackIds[i] = c THEN "passed" ELSE "locked"]
    /\ count = [d \in 0 .. plan.days |-> IF d = 0 THEN plan.passed ELSE 0]
    /\ text = [t \in Texts |-> None]
    /\ praised = FALSE
    /\ page = NoPage /\ shown = {} /\ lost = {}

\* practice_days: a day counts while some text of it was not refunded.
PracticeDays == {d \in DOMAIN count : count[d] > 0}

-----------------------------------------------------------------------------
(* The student. *)

\* GetTrackUseCase: the first chapter not passed, in track order, opens if it is locked.
next_playable_chapter ==
    {TrackIds[i] : i \in {j \in DOMAIN TrackIds :
        /\ statuses[TrackIds[j]] = "locked"
        /\ \A k \in 1 .. j - 1 : statuses[TrackIds[k]] = "passed"}}
GetTrack ==
    /\ \E c \in next_playable_chapter : statuses' = [statuses EXCEPT ![c] = "available"]
    /\ UNCHANGED <<contents, plan, today, count, text, praised, screen, lost>>

\* A text is accepted: the chapter takes one, and the day has a correction left.
Submit(t, c) ==
    /\ text[t] = None /\ Cardinality({u \in Texts : text[u] # None}) < plan.texts
    /\ get_chapter(c) # {} /\ statuses[c] \in WRITABLE_STATUSES
    /\ count[today] < Limit
    /\ text' = [text EXCEPT ![t] = [chapter |-> c, day |-> today, seen |-> None]]
    /\ count' = [count EXCEPT ![today] = count[today] + 1]
    /\ UNCHANGED <<contents, plan, today, statuses, praised, screen, lost>>

\* Its evaluation is stored, with a praise or without; on a passed chapter that is all.
ReadStatus(t) ==
    /\ text[t] # None /\ text[t].seen = None
    /\ text' = [text EXCEPT ![t].seen = statuses[text[t].chapter]]
    /\ UNCHANGED <<contents, plan, today, statuses, count, praised, screen, lost>>
Verdicts(t) == IF text[t].seen = "passed" THEN {"passed"} ELSE {next_status_for(v) : v \in plan.verdicts}
Evaluate(t, status, praise) ==
    LET c == text[t].chapter IN
    /\ statuses' = [statuses EXCEPT ![c] = IF text[t].seen = "passed" THEN @ ELSE status]
    /\ praised' = (praised \/ praise)
    /\ text' = [text EXCEPT ![t] = None]
    /\ lost' = IF statuses[c] = "passed" /\ statuses'[c] # "passed" THEN lost \union {"pass"} ELSE lost
    /\ UNCHANGED <<contents, plan, today, count, screen>>

\* Its evaluation fails: the day it was written on gets its correction back.
Fail(t) ==
    LET d == text[t].day IN
    /\ text[t] # None
    /\ count' = [count EXCEPT ![d] = IF @ > 0 THEN @ - 1 ELSE 0]
    /\ lost' = IF count[d] = 1 THEN lost \union {"day"} ELSE lost
    /\ text' = [text EXCEPT ![t] = None]
    /\ UNCHANGED <<contents, plan, today, statuses, praised, screen>>

\* The scene of a chapter is that of the branch its status is in.
branch_for_status(status) ==
    CASE status = "in_consequence" -> "consequence"
      [] status = "in_recovery" -> "recovery"
      [] OTHER -> "main"

StartRecovery(c) ==
    /\ statuses[c] = "in_consequence"
    /\ statuses' = [statuses EXCEPT ![c] = "in_recovery"]
    /\ UNCHANGED <<contents, plan, today, count, text, praised, screen, lost>>

NextDay ==
    /\ today < plan.days
    /\ today' = today + 1
    /\ UNCHANGED <<contents, plan, student, screen>>

-----------------------------------------------------------------------------
(* The progress screen. *)

Completed(story) == \A i \in DOMAIN story.chapter_ids : statuses[story.chapter_ids[i]] = "passed"
\* fold_stories over the statuses: the tutorial is completed or not.
TutorialCompleted ==
    LET stories == list_published_stories IN
    \E p \in DOMAIN stories : stories[p].is_tutorial /\ Completed(stories[p])

\* practice_days, read with the clock of the request.
OpenScreen ==
    /\ page.stage = "idle" /\ plan.pages
    /\ page' = Page("stories", PracticeDays, today, FALSE, FALSE)
    /\ UNCHANGED <<contents, plan, today, student, shown>>

ReadStories ==
    /\ page.stage = "stories"
    /\ page' = Page("praises", page.days, page.today, TutorialCompleted, FALSE)
    /\ UNCHANGED <<contents, plan, today, student, shown>>

ReadPraises ==
    /\ page.stage = "praises"
    /\ page' = Page("bosses", page.days, page.today, page.tutorial, praised)
    /\ UNCHANGED <<contents, plan, today, student, shown>>

\* Variant: the week is asked of the current streak.
milestones_CurrentWeek(bosses) ==
    {m \in {"tutorial_completed", "first_repertoire_praise", "first_boss_essay", "week_without_missing"} :
        CASE m = "tutorial_completed" -> page.tutorial
          [] m = "first_repertoire_praise" -> page.praised
          [] m = "first_boss_essay" -> bosses > 0
          [] m = "week_without_missing" ->
                 current_streak(page.days, page.today) >= WEEK_WITHOUT_MISSING_DAYS}
milestones(bosses) ==
    {m \in {"tutorial_completed", "first_repertoire_praise", "first_boss_essay", "week_without_missing"} :
        CASE m = "tutorial_completed" -> page.tutorial
          [] m = "first_repertoire_praise" -> page.praised
          [] m = "first_boss_essay" -> bosses > 0
          [] m = "week_without_missing" -> longest_streak(page.days) >= WEEK_WITHOUT_MISSING_DAYS}

passed_boss_chapters ==
    Cardinality({c \in AllChapters : statuses[c] = "passed" /\ \E row \in get_chapter(c) : row.kind = "chefe"})
ReadBosses ==
    /\ page.stage = "bosses"
    /\ shown' = milestones(passed_boss_chapters)
    /\ page' = NoPage
    /\ UNCHANGED <<contents, plan, today, student>>

-----------------------------------------------------------------------------
Next ==
    \/ \E s \in plan.seeders : SeedStep(s) /\ UNCHANGED <<plan, today, student, screen>>
    \/ GetTrack
    \/ \E t \in Texts : (\E c \in AllChapters : Submit(t, c)) \/ ReadStatus(t) \/ Fail(t)
    \/ \E t \in Texts : /\ text[t] # None /\ text[t].seen # None
                        /\ \E status \in Verdicts(t), praise \in plan.praises : Evaluate(t, status, praise)
    \/ \E c \in AllChapters : StartRecovery(c)
    \/ NextDay
    \/ OpenScreen \/ ReadStories \/ ReadPraises \/ ReadBosses

Spec == Init /\ [][Next]_vars

-----------------------------------------------------------------------------
\* A story that can be seen is there as a whole, whatever seed runs overlap or fail:
\* one row per slug, place and theme, places without a gap, the chapters in order up to
\* a boss that comes last, each against a character of its own story.
Numbered(rows) == {row.position : row \in rows} = 1 .. Cardinality(rows)
Whole ==
    /\ Numbered(content.stories)
    /\ \A story \in content.stories :
        LET its == {row \in content.chapters : row.story = story.slug} IN
        /\ \A other \in content.stories \ {story} : other.slug # story.slug
        /\ its # {} /\ Numbered(its)
        /\ \A row \in its :
            /\ row.kind = "chefe" <=> row.position = Cardinality(its)
            /\ \E who \in content.characters : who.story = story.slug /\ who.name = row.antagonist
    /\ \A theme, other \in content.themes :
        theme # other => theme.exam # other.exam \/ theme.year # other.year \/ theme.title # other.title

\* Wherever a verdict sends the student, the chapter has a scene to show: it opens with
\* the narrator, its character speaks, and it sets an objective exactly when a text is taken.
Playable ==
    \A c \in AllChapters : statuses[c] # "locked" =>
        \E chapter \in get_chapter(c) :
            LET beats == list_beats(c, branch_for_status(statuses[c]))
                has(type) == {i \in DOMAIN beats : beats[i].beat_type = type} IN
            /\ beats # <<>> /\ beats[1].beat_type = "narration"
            /\ \A i \in DOMAIN beats : beats[i].position = i
            /\ \E i \in has("dialogue") : beats[i].character = chapter.antagonist
            /\ statuses[c] \in WRITABLE_STATUSES => Cardinality(has("objective")) = 1
            /\ statuses[c] = "in_consequence" => has("objective") = {}

StoriesWhole == Whole /\ Playable

\* The three answers to "how is the streak": the screen's two loops count what a streak
\* is, and the reminder's query calls at risk exactly the streaks that end yesterday.
StreaksAgree ==
    LET days == PracticeDays
        current == current_streak(days, today) IN
    /\ Longest(days, current, {today - 1, today})
    /\ Longest(days, longest_streak(days), DOMAIN count)
    /\ current <= longest_streak(days)
    /\ AtRisk(days, today) <=> current > 0 /\ ~InARow(days, 1, today)

\* A milestone once shown is shown again (domain/progress.py: it "cannot go stale"),
\* although nothing of it is stored; only a refund that empties a day may take the week
\* back, only a regressed chapter the tutorial and the boss, and nothing the praise.
MilestonesStay ==
    [][/\ page.stage = "bosses" /\ page'.stage = "idle"
       => \A m \in shown \ shown' :
            \/ m = "week_without_missing" /\ "day" \in lost
            \/ m \in {"tutorial_completed", "first_boss_essay"} /\ "pass" \in lost]_vars
=============================================================================
