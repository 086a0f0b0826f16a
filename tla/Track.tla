------------------------------- MODULE Track -------------------------------
(***************************************************************************)
(* The track of one student: GET /track reads the progress of every        *)
(* chapter, materialises the next unlock and answers with the state of     *)
(* every story, while verdicts and recovery scenes move the chapters that  *)
(* are already open.                                                       *)
(*                                                                         *)
(* A request reads in one statement and writes in a later one, on rows     *)
(* others may have changed in between; each transaction here writes one    *)
(* row, so its write and its commit are one action.  Submissions.tla has   *)
(* the statements between a text and its verdict; here a submission is in  *)
(* flight until its worker reads the status, and then until it writes it.  *)
(***************************************************************************)
EXTENDS Integers, FiniteSets, ChapterStates

CONSTANTS
    NChapters,     \* the published chapters are 1..NChapters, in track order
    StoryEnds,     \* the last chapter of each story
    Readers,       \* requests for the track
    Writers        \* worker executions and recovery requests

ASSUME ChaptersAssumption == NChapters \in Nat \ {0}
ASSUME StoriesAssumption  == StoryEnds \subseteq 1..NChapters /\ NChapters \in StoryEnds

Chapters == 1..NChapters

VARIABLES
    progress,    \* status of chapter_progress; "locked" while there is no row
    passing,     \* the chapters with a passing_submission_id
    reader,      \* reader[r]: what the request has read, and what it answered
    writer       \* writer[w]: the chapter, and the status a worker read

vars == <<progress, passing, reader, writer>>

-----------------------------------------------------------------------------
(* The pure rules of domain/track.py, over a reading of the progress.      *)

\* The first chapter not passed, if it has no row yet: as a set, empty for None.
next_playable_chapter_FirstLocked(statuses) ==
    {c \in Chapters : statuses[c] = "locked" /\ \A d \in 1..(c - 1) : statuses[d] # "locked"}

next_playable_chapter_WithinStory(statuses) ==
    {c \in Chapters : /\ statuses[c] = "locked"
                      /\ c - 1 \notin StoryEnds
                      /\ \A d \in 1..(c - 1) : statuses[d] = "passed"}

next_playable_chapter(statuses) ==
    {c \in Chapters : /\ statuses[c] = "locked"
                      /\ \A d \in 1..(c - 1) : statuses[d] = "passed"}

\* The chapters of the story that ends with e.
StoryChapters(e) == {c \in 1..e : \A f \in StoryEnds : f < e => f < c}

Started == {"drafting", "in_consequence", "in_recovery", "passed"}

Completed(e, statuses) == \A c \in StoryChapters(e) : statuses[c] = "passed"

\* previous_completed: the story before, if there is one, derives as completed.
PreviousCompleted_Started(e, statuses) ==
    \A f \in StoryEnds :
        f < e => \E c \in StoryChapters(f) : statuses[c] \in Started

PreviousCompleted(e, statuses) ==
    \A f \in StoryEnds :
        f < e /\ (\A g \in StoryEnds : g < e => g <= f) => Completed(f, statuses)

derive_story_state(e, statuses) ==
    LET has(set) == \E c \in StoryChapters(e) : statuses[c] \in set
    IN  CASE Completed(e, statuses) -> "completed"
          [] ~Completed(e, statuses) /\ has(Started) -> "in_progress"
          [] ~has(Started) /\ (has({"available"}) \/ PreviousCompleted(e, statuses))
                 -> "available"
          [] OTHER -> "locked"

\* _cursor: the chapter the screen opens in a story, as a set, empty for None.
Cursor(e, statuses) ==
    IF derive_story_state(e, statuses) \in {"locked", "completed"} THEN {}
    ELSE {c \in StoryChapters(e) :
              /\ statuses[c] # "passed"
              /\ \A d \in StoryChapters(e) : d < c => statuses[d] = "passed"}

-----------------------------------------------------------------------------
NoStatuses == [c \in Chapters |-> "locked"]
IdleReader == [stage |-> "idle", statuses |-> NoStatuses]
IdleWriter == [stage |-> "idle", chapter |-> 0, seen |-> "locked"]

Init ==
    /\ progress = NoStatuses
    /\ passing = {}
    /\ reader = [r \in Readers |-> IdleReader]
    /\ writer = [w \in Writers |-> IdleWriter]

\* GET /track: the progress is read.
ReadStatuses(r) ==
    /\ reader[r].stage # "unlock"
    /\ reader' = [reader EXCEPT ![r] =
           [stage    |-> IF next_playable_chapter(progress) = {} THEN "answered" ELSE "unlock",
            statuses |-> progress]]
    /\ UNCHANGED <<progress, passing, writer>>

\* ... and the upsert writes a row only where there is none; the answer shows the
\* chapter as available, whatever the row was.
Unlock_Overwrites(r) ==
    /\ reader[r].stage = "unlock"
    /\ \E c \in next_playable_chapter(reader[r].statuses) :
           /\ progress' = [progress EXCEPT ![c] = "available"]
           /\ reader' = [reader EXCEPT ![r] =
                  [stage |-> "answered", statuses |-> [@.statuses EXCEPT ![c] = "available"]]]
    /\ UNCHANGED <<passing, writer>>

Unlock(r) ==
    /\ reader[r].stage = "unlock"
    /\ \E c \in next_playable_chapter(reader[r].statuses) :
           /\ progress' = [progress EXCEPT ![c] = IF @ = "locked" THEN "available" ELSE @]
           /\ reader' = [reader EXCEPT ![r] =
                  [stage |-> "answered", statuses |-> [@.statuses EXCEPT ![c] = "available"]]]
    /\ UNCHANGED <<passing, writer>>

\* The request fails before it commits.
ReaderDies(r) ==
    /\ reader[r].stage = "unlock"
    /\ reader' = [reader EXCEPT ![r] = IdleReader]
    /\ UNCHANGED <<progress, passing, writer>>

\* POST of a text: the gate lets it through and it is on its way to a worker.
Submit_NoGate(w, c) ==
    /\ writer[w].stage = "idle"
    /\ writer' = [writer EXCEPT ![w] =
           [stage |-> "evaluating", chapter |-> c, seen |-> "locked"]]
    /\ UNCHANGED <<progress, passing, reader>>

Submit(w, c) ==
    /\ writer[w].stage = "idle"
    /\ progress[c] \in WRITABLE_STATUSES
    /\ writer' = [writer EXCEPT ![w] =
           [stage |-> "evaluating", chapter |-> c, seen |-> "locked"]]
    /\ UNCHANGED <<progress, passing, reader>>

\* The verdict has landed and the worker reads the status; on a passed chapter it
\* stops.  A failed evaluation stops it too.
ReadStatus(w) ==
    /\ writer[w].stage = "evaluating"
    /\ \/ /\ progress[writer[w].chapter] # "passed"
          /\ writer' = [writer EXCEPT ![w] =
                 [stage |-> "apply", chapter |-> @.chapter, seen |-> progress[@.chapter]]]
       \/ writer' = [writer EXCEPT ![w] = IdleWriter]
    /\ UNCHANGED <<progress, passing, reader>>

\* The worker writes the status it derives from its reading.
ApplyResult(w) ==
    /\ writer[w].stage = "apply"
    /\ \E verdict \in Verdict :
           LET status == resolve_status_after_evaluation(writer[w].seen, verdict)
           IN  /\ progress' = [progress EXCEPT ![writer[w].chapter] = status]
               /\ passing' = IF status = "passed" THEN passing \cup {writer[w].chapter}
                             ELSE passing
    /\ writer' = [writer EXCEPT ![w] = IdleWriter]
    /\ UNCHANGED reader

\* POST of the recovery scene: the status is read, then written.
RecoveryGate(w, c) ==
    /\ writer[w].stage = "idle"
    /\ progress[c] = "in_consequence"
    /\ writer' = [writer EXCEPT ![w] =
           [stage |-> "recover", chapter |-> c, seen |-> "locked"]]
    /\ UNCHANGED <<progress, passing, reader>>

SetRecovery(w) ==
    /\ writer[w].stage = "recover"
    /\ progress' = [progress EXCEPT ![writer[w].chapter] = "in_recovery"]
    /\ writer' = [writer EXCEPT ![w] = IdleWriter]
    /\ UNCHANGED <<passing, reader>>

Read(r)  == ReadStatuses(r) \/ Unlock(r) \/ ReaderDies(r)
Write(w) == \/ \E c \in Chapters : Submit(w, c) \/ RecoveryGate(w, c)
            \/ ReadStatus(w) \/ ApplyResult(w) \/ SetRecovery(w)

Next == (\E r \in Readers : Read(r)) \/ (\E w \in Writers : Write(w))

Spec == Init /\ [][Next]_vars

-----------------------------------------------------------------------------
Opened == {c \in Chapters : progress[c] # "locked"}

\* The track keeps its promise: chapters open one at a time and in order, behind
\* chapters with a passing submission, whatever readers and verdicts race.
Order == INSTANCE TrackOrder WITH open <- Opened, passed <- passing
OpensInOrder == Order!Spec

\* The type invariant.
TypeOK ==
    /\ progress \in [Chapters -> ChapterStatus]
    /\ passing \subseteq Chapters
    /\ reader \in [Readers -> [stage : {"idle", "unlock", "answered"},
                              statuses : [Chapters -> ChapterStatus]]]
    /\ writer \in [Writers -> [stage : {"idle", "evaluating", "apply", "recover"},
                              chapter : 0..NChapters, seen : ChapterStatus]]
    /\ \A w \in Writers : writer[w].stage # "idle" => writer[w].chapter \in Opened

\* A reader that decided to unlock on an old reading never throws back a chapter
\* the student has started meanwhile (the WHERE of the upsert).
StartedNeverReset ==
    [][\A c \in Chapters : progress'[c] = "available" => progress[c] \in {"locked", "available"}]_vars

\* The reading has each open chapter behind passed ones only: no late verdict has
\* taken a passed chapter back.
Orderly(statuses) ==
    \A c, d \in Chapters : c < d /\ statuses[d] # "locked" => statuses[c] = "passed"

\* The chapters that had been passed when this reading was made, one behind them
\* being open, and that it does not show as passed: a late verdict took them back.
TakenBack(statuses) ==
    {d \in passing : /\ statuses[d] # "passed"
                     /\ \E c \in Chapters : d < c /\ statuses[c] # "locked"}

\* What the answer offers to open can be opened, its chapter has a row, although
\* the reading is old and two readers may unlock at once (domain/track.py).  The
\* one exception is a chapter behind one that a late verdict has taken back.
OffersOpenChapters ==
    \A r \in Readers :
        reader[r].stage = "answered" =>
            \A e \in StoryEnds : \A c \in Cursor(e, reader[r].statuses) :
                c \in Opened \/ \E d \in TakenBack(reader[r].statuses) : d < c

\* The answer shows one story in hand at most, after completed ones and before
\* locked ones, and one until the whole track is completed.
StoriesInTurn ==
    \A r \in Readers :
        reader[r].stage = "answered" /\ Orderly(reader[r].statuses) =>
            LET state(e) == derive_story_state(e, reader[r].statuses)
            IN  /\ \A e, f \in StoryEnds :
                       e < f /\ state(f) # "locked" => state(e) = "completed"
                /\ \/ \E e \in StoryEnds : Cursor(e, reader[r].statuses) # {}
                   \/ \A c \in Chapters : reader[r].statuses[c] = "passed"

=============================================================================
