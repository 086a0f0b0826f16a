---------------------------- MODULE TrackProofs ----------------------------
(***************************************************************************)
(* Track.tla implements TrackOrder.tla, for any number of chapters, any    *)
(* cut into stories, and any readers and writers.  The argument: a reader  *)
(* unlocks on an old reading, but what makes the unlock right, that the    *)
(* chapters before have a passing submission, never stops being true.      *)
(* What an answer shows follows from two facts of its reading, whatever it *)
(* has open is open and it leaves nothing to unlock, and from one of the   *)
(* track: the chapters before an open one have a passing submission.       *)
(***************************************************************************)
EXTENDS Track, Sums

\* A chapter that is passed, or was when somebody read it, has a passing
\* submission: unlike the status, that is never taken back.
PassedHasPassing ==
    /\ \A c \in Chapters : progress[c] = "passed" => c \in passing
    /\ \A r \in Readers : \A c \in Chapters :
           reader[r].stage = "unlock" /\ reader[r].statuses[c] = "passed" => c \in passing

\* The inductive invariant.
TrackInv == TypeOK /\ PassedHasPassing /\ passing \subseteq Opened

ReaderType == [stage : {"idle", "unlock", "answered"},
               statuses : [Chapters -> ChapterStatus]]
WriterType == [stage : {"idle", "evaluating", "apply", "recover"},
               chapter : 0..NChapters, seen : ChapterStatus]

\* A verdict never locks a chapter.
LEMMA VerdictStatus ==
    \A current, verdict :
        resolve_status_after_evaluation(current, verdict)
            \in {"passed", "drafting", "in_consequence"}
BY DEF resolve_status_after_evaluation, next_status_for

LEMMA InitTrack == Init => TrackInv
<1> SUFFICES ASSUME Init PROVE TrackInv
    OBVIOUS
<1>1. NoStatuses \in [Chapters -> ChapterStatus]
    BY DEF NoStatuses, ChapterStatus
<1>2. IdleReader \in ReaderType
    BY <1>1 DEF IdleReader, ReaderType
<1>3. IdleWriter \in WriterType
    BY ChaptersAssumption DEF IdleWriter, WriterType, ChapterStatus
<1>4. TypeOK
    BY <1>1, <1>2, <1>3 DEF Init, TypeOK, ReaderType, WriterType, IdleWriter
<1>5. PassedHasPassing /\ passing \subseteq Opened
    BY DEF Init, PassedHasPassing, NoStatuses, IdleReader
<1> QED BY <1>4, <1>5 DEF TrackInv

-----------------------------------------------------------------------------
(* The steps that touch nothing but one reader, or nothing but one writer. *)

LEMMA ReaderStep ==
    ASSUME TrackInv, NEW r \in Readers, NEW v \in ReaderType,
           reader' = [reader EXCEPT ![r] = v],
           v.stage = "unlock" => \A c \in Chapters : v.statuses[c] = "passed" => c \in passing,
           UNCHANGED <<progress, passing, writer>>
    PROVE  TrackInv'
<1> USE DEF TrackInv
<1>1. reader' \in [Readers -> ReaderType]
    BY DEF TypeOK, ReaderType
<1>2. TypeOK'
    BY <1>1 DEF TypeOK, ReaderType, Opened
<1>3. PassedHasPassing'
    BY DEF PassedHasPassing, TypeOK
<1>4. (passing \subseteq Opened)'
    BY DEF Opened
<1> QED BY <1>2, <1>3, <1>4

LEMMA WriterStep ==
    ASSUME TrackInv, NEW w \in Writers, NEW v \in WriterType,
           writer' = [writer EXCEPT ![w] = v],
           v.stage # "idle" => v.chapter \in Opened,
           UNCHANGED <<progress, passing, reader>>
    PROVE  TrackInv'
<1> USE DEF TrackInv
<1>1. writer' \in [Writers -> WriterType]
    BY DEF TypeOK, WriterType
<1>2. \A x \in Writers : writer'[x].stage # "idle" => writer'[x].chapter \in Opened
    BY DEF TypeOK
<1>3. TypeOK'
    BY <1>1, <1>2 DEF TypeOK, WriterType, Opened
<1>4. PassedHasPassing'
    BY DEF PassedHasPassing
<1>5. (passing \subseteq Opened)'
    BY DEF Opened
<1> QED BY <1>3, <1>4, <1>5

\* A writer sets the status of its chapter, to one that is not locked, and a
\* passed one with its passing submission.
LEMMA ProgressStep ==
    ASSUME TrackInv, NEW w \in Writers, writer[w].stage # "idle",
           NEW status \in ChapterStatus \ {"locked"},
           progress' = [progress EXCEPT ![writer[w].chapter] = status],
           passing' = IF status = "passed" THEN passing \cup {writer[w].chapter} ELSE passing,
           writer' = [writer EXCEPT ![w] = IdleWriter],
           UNCHANGED reader
    PROVE  TrackInv' /\ Opened' = Opened /\ writer[w].chapter \in Opened
<1> USE DEF TrackInv
<1> DEFINE c == writer[w].chapter
<1>1. c \in Opened /\ c \in Chapters
    BY DEF TypeOK, Opened
<1> HIDE DEF c
<1>2. /\ progress' = [progress EXCEPT ![c] = status]
      /\ passing' = IF status = "passed" THEN passing \cup {c} ELSE passing
    BY DEF c
<1>3. progress' \in [Chapters -> ChapterStatus]
    BY <1>1, <1>2 DEF TypeOK
<1>4. Opened' = Opened
    BY <1>1, <1>2 DEF TypeOK, Opened
<1>5. passing \subseteq passing' /\ passing' \subseteq Opened
    BY <1>1, <1>2
<1>6. writer' \in [Writers -> WriterType] /\
          \A x \in Writers : writer'[x].stage # "idle" => writer'[x].chapter \in Opened
    <2>1. IdleWriter \in WriterType /\ IdleWriter.stage = "idle"
        BY ChaptersAssumption DEF IdleWriter, WriterType, ChapterStatus
    <2> HIDE DEF IdleWriter
    <2> QED BY <2>1 DEF TypeOK, WriterType
<1>7. TypeOK'
    BY <1>3, <1>4, <1>5, <1>6 DEF TypeOK, WriterType, Opened
<1>8. PassedHasPassing'
    <2>1. \A d \in Chapters : progress'[d] = "passed" => d \in passing'
        BY <1>1, <1>2 DEF PassedHasPassing, TypeOK
    <2> QED BY <1>5, <2>1 DEF PassedHasPassing
<1> QED BY <1>1, <1>4, <1>5, <1>7, <1>8 DEF c

-----------------------------------------------------------------------------
(* Every step keeps the invariant and is a step of the abstract track.     *)

Promised == [Order!Next]_<<Opened, passing>>

LEMMA StepTrack == TrackInv /\ [Next]_vars => TrackInv' /\ Promised
<1> SUFFICES ASSUME TrackInv, [Next]_vars PROVE TrackInv' /\ Promised
    OBVIOUS
<1> USE DEF TrackInv
<1>0. UNCHANGED <<progress, passing>> => Promised
    BY DEF Promised, Opened
<1>1. CASE UNCHANGED vars
    <2>1. TypeOK'
        BY <1>1 DEF vars, TypeOK, Opened
    <2>2. PassedHasPassing' /\ (passing \subseteq Opened)'
        BY <1>1 DEF vars, PassedHasPassing, Opened
    <2> QED BY <1>0, <1>1, <2>1, <2>2 DEF vars
<1>2. ASSUME NEW r \in Readers, ReadStatuses(r) PROVE TrackInv' /\ Promised
    <2> DEFINE v == [stage |-> IF next_playable_chapter(progress) = {}
                               THEN "answered" ELSE "unlock",
                     statuses |-> progress]
    <2>1. v \in ReaderType
        BY DEF TypeOK, ReaderType
    <2>2. \A c \in Chapters : v.statuses[c] = "passed" => c \in passing
        BY DEF PassedHasPassing
    <2>3. reader' = [reader EXCEPT ![r] = v] /\ UNCHANGED <<progress, passing, writer>>
        BY <1>2 DEF ReadStatuses
    <2> HIDE DEF v
    <2> QED BY <1>0, <2>1, <2>2, <2>3, ReaderStep
<1>3. ASSUME NEW r \in Readers, ReaderDies(r) PROVE TrackInv' /\ Promised
    <2>1. IdleReader \in ReaderType /\ IdleReader.stage # "unlock"
        BY DEF IdleReader, ReaderType, NoStatuses, ChapterStatus
    <2>2. reader' = [reader EXCEPT ![r] = IdleReader] /\ UNCHANGED <<progress, passing, writer>>
        BY <1>3 DEF ReaderDies
    <2> QED BY <1>0, <2>1, <2>2, ReaderStep
<1>4. ASSUME NEW r \in Readers, Unlock(r) PROVE TrackInv' /\ Promised
    <2> DEFINE statuses == reader[r].statuses
    <2>1. PICK c \in next_playable_chapter(statuses) :
              /\ progress' = [progress EXCEPT ![c] = IF @ = "locked" THEN "available" ELSE @]
              /\ reader' = [reader EXCEPT ![r] =
                     [stage |-> "answered", statuses |-> [@.statuses EXCEPT ![c] = "available"]]]
        BY <1>4 DEF Unlock
    <2>2. UNCHANGED <<passing, writer>> /\ reader[r].stage = "unlock"
        BY <1>4 DEF Unlock
    <2>3. c \in Chapters /\ \A d \in 1..(c - 1) : statuses[d] = "passed"
        BY DEF next_playable_chapter
    <2>4. 1..(c - 1) \subseteq passing
        <3>1. 1..(c - 1) \subseteq Chapters
            BY <2>3, ChaptersAssumption DEF Chapters
        <3> QED BY <2>2, <2>3, <3>1 DEF PassedHasPassing
    <2>5. Opened' = Opened \cup {c}
        BY <2>1, <2>3 DEF Opened, TypeOK
    <2>6. progress' \in [Chapters -> ChapterStatus]
        BY <2>1, <2>3 DEF TypeOK, ChapterStatus
    <2> DEFINE v == [stage |-> "answered", statuses |-> [statuses EXCEPT ![c] = "available"]]
    <2>7. v \in ReaderType /\ v.stage # "unlock"
        <3>1. statuses \in [Chapters -> ChapterStatus]
            BY DEF TypeOK
        <3>2. [statuses EXCEPT ![c] = "available"] \in [Chapters -> ChapterStatus]
            BY <3>1 DEF ChapterStatus
        <3> QED BY <3>2 DEF ReaderType
    <2>8. reader' = [reader EXCEPT ![r] = v]
        BY <2>1
    <2> HIDE DEF v
    <2>9. TypeOK'
        <3>1. reader' \in [Readers -> ReaderType]
            BY <2>7, <2>8 DEF TypeOK, ReaderType
        <3> QED BY <2>2, <2>5, <2>6, <3>1 DEF TypeOK, ReaderType
    <2>10. PassedHasPassing'
        <3>1. \A d \in Chapters : progress'[d] = "passed" => d \in passing'
            BY <2>1, <2>2, <2>3 DEF PassedHasPassing, TypeOK
        <3>2. \A q \in Readers : \A d \in Chapters :
                  reader'[q].stage = "unlock" /\ reader'[q].statuses[d] = "passed" => d \in passing'
            BY <2>2, <2>7, <2>8 DEF PassedHasPassing, TypeOK
        <3> QED BY <3>1, <3>2 DEF PassedHasPassing
    <2>11. Promised
        <3>1. CASE c \in Opened
            BY <2>2, <2>5, <3>1 DEF Promised
        <3>2. CASE c \notin Opened
            <4>1. Order!Open(c)
                BY <2>2, <2>3, <2>4, <2>5, <3>2 DEF Order!Open, Order!Chapters, Chapters
            <4> QED BY <2>3, <4>1 DEF Promised, Order!Next, Order!Chapters, Chapters
        <3> QED BY <3>1, <3>2
    <2> QED BY <2>2, <2>5, <2>9, <2>10, <2>11
<1>5. ASSUME NEW w \in Writers, NEW c \in Chapters, Submit(w, c) PROVE TrackInv' /\ Promised
    <2> DEFINE v == [stage |-> "evaluating", chapter |-> c, seen |-> "locked"]
    <2>1. v \in WriterType
        BY DEF WriterType, ChapterStatus, Chapters
    <2>2. v.chapter \in Opened
        BY <1>5 DEF Submit, Opened, WRITABLE_STATUSES
    <2>3. writer' = [writer EXCEPT ![w] = v] /\ UNCHANGED <<progress, passing, reader>>
        BY <1>5 DEF Submit
    <2> HIDE DEF v
    <2> QED BY <1>0, <2>1, <2>2, <2>3, WriterStep
<1>6. ASSUME NEW w \in Writers, NEW c \in Chapters, RecoveryGate(w, c) PROVE TrackInv' /\ Promised
    <2> DEFINE v == [stage |-> "recover", chapter |-> c, seen |-> "locked"]
    <2>1. v \in WriterType
        BY DEF WriterType, ChapterStatus, Chapters
    <2>2. v.chapter \in Opened
        BY <1>6 DEF RecoveryGate, Opened
    <2>3. writer' = [writer EXCEPT ![w] = v] /\ UNCHANGED <<progress, passing, reader>>
        BY <1>6 DEF RecoveryGate
    <2> HIDE DEF v
    <2> QED BY <1>0, <2>1, <2>2, <2>3, WriterStep
<1>7. ASSUME NEW w \in Writers, ReadStatus(w) PROVE TrackInv' /\ Promised
    <2> DEFINE v == [stage |-> "apply", chapter |-> writer[w].chapter,
                     seen |-> progress[writer[w].chapter]]
    <2>1. IdleWriter \in WriterType /\ IdleWriter.stage = "idle"
        BY ChaptersAssumption DEF IdleWriter, WriterType, ChapterStatus
    <2>2. writer[w].chapter \in Opened /\ writer[w].chapter \in Chapters
        BY <1>7 DEF ReadStatus, TypeOK, Opened
    <2>3. v \in WriterType
        BY <2>2 DEF WriterType, TypeOK, Chapters
    <2>4. (writer' = [writer EXCEPT ![w] = v] \/ writer' = [writer EXCEPT ![w] = IdleWriter])
              /\ UNCHANGED <<progress, passing, reader>>
        BY <1>7 DEF ReadStatus
    <2>5. v.chapter \in Opened
        BY <2>2
    <2> HIDE DEF v, IdleWriter
    <2> QED BY <1>0, <2>1, <2>3, <2>4, <2>5, WriterStep
<1>8. ASSUME NEW w \in Writers, ApplyResult(w) PROVE TrackInv' /\ Promised
    <2> DEFINE c == writer[w].chapter
    <2>1. PICK verdict \in Verdict :
              LET status == resolve_status_after_evaluation(writer[w].seen, verdict)
              IN  /\ progress' = [progress EXCEPT ![c] = status]
                  /\ passing' = IF status = "passed" THEN passing \cup {c} ELSE passing
        BY <1>8 DEF ApplyResult
    <2> DEFINE status == resolve_status_after_evaluation(writer[w].seen, verdict)
    <2>2. status \in ChapterStatus \ {"locked"}
        BY VerdictStatus DEF ChapterStatus
    <2>3. /\ progress' = [progress EXCEPT ![c] = status]
          /\ passing' = IF status = "passed" THEN passing \cup {c} ELSE passing
        BY <2>1
    <2>4. /\ writer[w].stage # "idle" /\ UNCHANGED reader
          /\ writer' = [writer EXCEPT ![w] = IdleWriter]
        BY <1>8 DEF ApplyResult
    <2> HIDE DEF status
    <2>5. TrackInv' /\ Opened' = Opened /\ c \in Opened
        BY <2>2, <2>3, <2>4, ProgressStep
    <2>6. Promised
        <3>1. CASE passing' = passing
            BY <2>5, <3>1 DEF Promised
        <3>2. CASE passing' # passing
            <4>1. Order!Pass(c)
                BY <2>3, <2>5, <3>2 DEF Order!Pass
            <4>2. c \in Chapters
                BY <2>5 DEF Opened
            <4> QED BY <4>1, <4>2 DEF Promised, Order!Next, Order!Chapters, Chapters
        <3> QED BY <3>1, <3>2
    <2> QED BY <2>5, <2>6
<1>9. ASSUME NEW w \in Writers, SetRecovery(w) PROVE TrackInv' /\ Promised
    <2> DEFINE status == "in_recovery"
    <2>1. /\ writer[w].stage # "idle" /\ UNCHANGED <<passing, reader>>
          /\ progress' = [progress EXCEPT ![writer[w].chapter] = status]
          /\ writer' = [writer EXCEPT ![w] = IdleWriter]
        BY <1>9 DEF SetRecovery
    <2>2. status \in ChapterStatus \ {"locked"} /\ status # "passed"
        BY DEF ChapterStatus
    <2> HIDE DEF status
    <2>3. TrackInv' /\ Opened' = Opened
        BY <2>1, <2>2, ProgressStep
    <2> QED BY <2>1, <2>3 DEF Promised
<1> QED BY <1>1, <1>2, <1>3, <1>4, <1>5, <1>6, <1>7, <1>8, <1>9 DEF Next, Read, Write

-----------------------------------------------------------------------------
\* The rows of the track keep their types, and no execution works on a chapter
\* that is not open.
THEOREM TrackTyped == Spec => []TypeOK
<1>1. TrackInv => TypeOK
    BY DEF TrackInv
<1> QED BY <1>1, InitTrack, StepTrack, PTL DEF Spec

\* The track implements its promise (TrackOrder): chapters open one at a time, in
\* order, behind chapters with a passing submission, however readers and verdicts
\* race (next_playable_chapter on an old reading, unlock's upsert).
THEOREM TrackImplementsOrder == Spec => OpensInOrder
<1>1. Init => Order!Init
    BY DEF Init, Order!Init, Opened, NoStatuses
<1>2. TrackInv /\ [Next]_vars => [Order!Next]_<<Opened, passing>>
    BY StepTrack DEF Promised
<1> QED BY <1>1, <1>2, InitTrack, StepTrack, PTL DEF Spec, OpensInOrder, Order!Spec

-----------------------------------------------------------------------------
(* What an answer shows.                                                   *)

\* What a reader has read was open, and an answer leaves nothing to unlock.
ReadingInv ==
    \A r \in Readers :
        /\ \A c \in Chapters : reader[r].statuses[c] # "locked" => c \in Opened
        /\ reader[r].stage = "answered" => next_playable_chapter(reader[r].statuses) = {}

LEMMA OpenedGrows == Promised => Opened \subseteq Opened'
BY DEF Promised, Order!Next, Order!Open, Order!Pass

\* Once the next chapter is shown as available there is no other to open.
LEMMA NoneLeft ==
    ASSUME NEW statuses \in [Chapters -> ChapterStatus],
           NEW c \in next_playable_chapter(statuses)
    PROVE  next_playable_chapter([statuses EXCEPT ![c] = "available"]) = {}
<1> DEFINE after == [statuses EXCEPT ![c] = "available"]
<1>1. c \in Chapters /\ \A d \in 1..(c - 1) : statuses[d] = "passed"
    BY DEF next_playable_chapter
<1>2. /\ after[c] = "available"
      /\ \A d \in Chapters : d # c => after[d] = statuses[d]
    BY <1>1
<1> HIDE DEF after
<1>3. ASSUME NEW d \in Chapters, after[d] = "locked",
             \A x \in 1..(d - 1) : after[x] = "passed"
      PROVE  FALSE
    <2>1. d # c /\ c \in Int /\ d \in Int /\ 1 <= c /\ 1 <= d
        BY <1>1, <1>2, <1>3, ChaptersAssumption DEF Chapters
    <2>2. CASE c < d
        <3>1. c \in 1..(d - 1)
            BY <2>1, <2>2
        <3> QED BY <1>2, <1>3, <3>1
    <2>3. CASE d < c
        <3>1. d \in 1..(c - 1)
            BY <2>1, <2>3
        <3>2. after[d] = statuses[d]
            BY <1>2, <2>1
        <3> QED BY <1>1, <1>3, <3>1, <3>2
    <2> QED BY <2>1, <2>2, <2>3
<1>4. next_playable_chapter(after) = {}
    BY <1>3 DEF next_playable_chapter
<1> QED BY <1>4 DEF after

\* Every step keeps it: what is open stays open.
LEMMA StepReading == TrackInv /\ ReadingInv /\ [Next]_vars => ReadingInv'
<1> SUFFICES ASSUME TrackInv, ReadingInv, [Next]_vars PROVE ReadingInv'
    OBVIOUS
<1>0. Opened \subseteq Opened'
    BY StepTrack, OpenedGrows
<1>1. ASSUME UNCHANGED reader PROVE ReadingInv'
    BY <1>0, <1>1 DEF ReadingInv, next_playable_chapter
<1>2. ASSUME NEW r \in Readers, NEW v, reader' = [reader EXCEPT ![r] = v],
             \A c \in Chapters : v.statuses[c] # "locked" => c \in Opened',
             v.stage = "answered" => next_playable_chapter(v.statuses) = {}
      PROVE  ReadingInv'
    <2>1. \A q \in Readers : reader'[q] = IF q = r THEN v ELSE reader[q]
        BY <1>2 DEF TrackInv, TypeOK
    <2> QED BY <1>0, <1>2, <2>1 DEF ReadingInv, next_playable_chapter
<1>3. ASSUME NEW r \in Readers, ReadStatuses(r) PROVE ReadingInv'
    <2> DEFINE v == [stage |-> IF next_playable_chapter(progress) = {}
                               THEN "answered" ELSE "unlock",
                     statuses |-> progress]
    <2>1. reader' = [reader EXCEPT ![r] = v]
        BY <1>3 DEF ReadStatuses
    <2>2. /\ v.statuses = progress
          /\ v.stage = "answered" => next_playable_chapter(progress) = {}
        OBVIOUS
    <2> HIDE DEF v
    <2>3. \A c \in Chapters : v.statuses[c] # "locked" => c \in Opened'
        BY <1>0, <2>2 DEF Opened
    <2> QED BY <1>2, <2>1, <2>2, <2>3
<1>4. ASSUME NEW r \in Readers, Unlock(r) PROVE ReadingInv'
    <2> DEFINE statuses == reader[r].statuses
    <2>1. PICK c \in next_playable_chapter(statuses) :
              /\ progress' = [progress EXCEPT ![c] = IF @ = "locked" THEN "available" ELSE @]
              /\ reader' = [reader EXCEPT ![r] =
                     [stage |-> "answered", statuses |-> [@.statuses EXCEPT ![c] = "available"]]]
        BY <1>4 DEF Unlock
    <2> DEFINE after == [statuses EXCEPT ![c] = "available"]
               v == [stage |-> "answered", statuses |-> after]
    <2>2. statuses \in [Chapters -> ChapterStatus] /\ c \in Chapters
        BY DEF TrackInv, TypeOK, next_playable_chapter
    <2>3. next_playable_chapter(after) = {}
        BY <2>2, NoneLeft
    <2>4. reader' = [reader EXCEPT ![r] = v]
        BY <2>1
    <2>5. c \in Opened'
        BY <2>1, <2>2 DEF Opened, TrackInv, TypeOK
    <2>6. \A d \in Chapters : after[d] # "locked" => d \in Opened'
        <3>1. \A d \in Chapters : d # c => after[d] = statuses[d]
            BY <2>2
        <3>2. \A d \in Chapters : statuses[d] # "locked" => d \in Opened
            BY DEF ReadingInv
        <3> HIDE DEF after
        <3> QED BY <1>0, <2>5, <3>1, <3>2
    <2> HIDE DEF after
    <2>7. v.statuses = after
        OBVIOUS
    <2> HIDE DEF v
    <2> QED BY <1>2, <2>3, <2>4, <2>6, <2>7
<1>5. ASSUME NEW r \in Readers, ReaderDies(r) PROVE ReadingInv'
    <2>1. reader' = [reader EXCEPT ![r] = IdleReader]
        BY <1>5 DEF ReaderDies
    <2>2. IdleReader.stage = "idle" /\ \A c \in Chapters : IdleReader.statuses[c] = "locked"
        BY DEF IdleReader, NoStatuses
    <2> HIDE DEF IdleReader
    <2> QED BY <1>2, <2>1, <2>2
<1>6. ASSUME NEW w \in Writers, Write(w) PROVE ReadingInv'
    BY <1>1, <1>6 DEF Write, Submit, RecoveryGate, ReadStatus, ApplyResult, SetRecovery
<1>7. CASE UNCHANGED vars
    BY <1>1, <1>7 DEF vars
<1> QED BY <1>3, <1>4, <1>5, <1>6, <1>7 DEF Next, Read

LEMMA InitReading == Init => ReadingInv
<1> SUFFICES ASSUME Init PROVE ReadingInv
    OBVIOUS
<1>1. \A r \in Readers : reader[r] = IdleReader
    BY DEF Init
<1>2. IdleReader.stage = "idle" /\ \A c \in Chapters : IdleReader.statuses[c] = "locked"
    BY DEF IdleReader, NoStatuses
<1> QED BY <1>1, <1>2 DEF ReadingInv

THEOREM ReadingInvariant == Spec => [](TrackInv /\ ReadingInv)
BY InitTrack, StepTrack, InitReading, StepReading, PTL DEF Spec

\* A reader that decided to unlock on an old reading never throws back a chapter
\* the student has started meanwhile: only an unlock makes a chapter available,
\* and only one that had no row (the WHERE of the upsert).
THEOREM StartedNeverResetHolds == Spec => StartedNeverReset
<1> DEFINE Kept == \A c \in Chapters :
               progress'[c] = "available" => progress[c] \in {"locked", "available"}
<1>1. TrackInv /\ [Next]_vars => [Kept]_vars
    <2> SUFFICES ASSUME TrackInv, Next PROVE Kept
        OBVIOUS
    <2>1. CASE UNCHANGED progress
        BY <2>1
    <2>2. ASSUME NEW r \in Readers, Unlock(r) PROVE Kept
        BY <2>2 DEF Unlock, TrackInv, TypeOK
    <2>3. ASSUME NEW w \in Writers, ApplyResult(w) PROVE Kept
        <3>1. \A current, verdict : resolve_status_after_evaluation(current, verdict) # "available"
            BY VerdictStatus
        <3> QED BY <2>3, <3>1 DEF ApplyResult, TrackInv, TypeOK
    <2>4. ASSUME NEW w \in Writers, SetRecovery(w) PROVE Kept
        BY <2>4 DEF SetRecovery, TrackInv, TypeOK
    <2> QED BY <2>1, <2>2, <2>3, <2>4
            DEF Next, Read, Write, ReadStatuses, ReaderDies, Submit, RecoveryGate, ReadStatus
<1> QED BY <1>1, InitTrack, StepTrack, PTL DEF Spec, StartedNeverReset

-----------------------------------------------------------------------------
(* Stories over a reading.                                                 *)

\* Some chapters have a first one, and a last one.
LEMMA FirstChapter ==
    ASSUME NEW S, S \subseteq Chapters, S # {}
    PROVE  \E c \in S : \A d \in S : c <= d
<1>0. IsFiniteSet(Chapters) /\ \A c \in Chapters : c \in Int /\ 1 <= c /\ c <= NChapters
    BY FS_Interval, ChaptersAssumption DEF Chapters
<1> DEFINE upto(c) == 1..c
           T == {upto(c) : c \in S}
<1>1. \A c \in S : upto(c) \subseteq Chapters
    BY <1>0, ChaptersAssumption DEF Chapters
<1>2. \A c, d \in S : d < c => upto(d) \subseteq upto(c) /\ upto(d) # upto(c)
    <2> SUFFICES ASSUME NEW c \in S, NEW d \in S, d < c
                 PROVE  upto(d) \subseteq upto(c) /\ c \in upto(c) /\ c \notin upto(d)
        OBVIOUS
    <2>1. c \in Int /\ d \in Int /\ 1 <= c
        BY <1>0
    <2> QED BY <2>1
<1> HIDE DEF upto
<1>3. T \subseteq SUBSET Chapters /\ T # {}
    BY <1>1
<1>4. PICK t \in T : \A u \in T : u \subseteq t => u = t
    <2> HIDE DEF T
    <2> QED BY <1>0, <1>3, SmallestSet
<1>5. PICK c \in S : t = upto(c)
    OBVIOUS
<1>6. \A d \in S : ~(d < c)
    BY <1>2, <1>4, <1>5
<1> QED BY <1>0, <1>6

LEMMA LastChapter ==
    ASSUME NEW S, S \subseteq Chapters, S # {}
    PROVE  \E c \in S : \A d \in S : d <= c
<1>0. IsFiniteSet(Chapters) /\ \A c \in Chapters : c \in Int /\ 1 <= c /\ c <= NChapters
    BY FS_Interval, ChaptersAssumption DEF Chapters
<1> DEFINE from(c) == c..NChapters
           T == {from(c) : c \in S}
<1>1. \A c \in S : from(c) \subseteq Chapters
    BY <1>0, ChaptersAssumption DEF Chapters
<1>2. \A c, d \in S : c < d => from(d) \subseteq from(c) /\ from(d) # from(c)
    <2> SUFFICES ASSUME NEW c \in S, NEW d \in S, c < d
                 PROVE  from(d) \subseteq from(c) /\ c \in from(c) /\ c \notin from(d)
        OBVIOUS
    <2>1. c \in Int /\ d \in Int /\ c <= NChapters
        BY <1>0
    <2> QED BY <2>1, ChaptersAssumption
<1> HIDE DEF from
<1>3. T \subseteq SUBSET Chapters /\ T # {}
    BY <1>1
<1>4. PICK t \in T : \A u \in T : u \subseteq t => u = t
    <2> HIDE DEF T
    <2> QED BY <1>0, <1>3, SmallestSet
<1>5. PICK c \in S : t = from(c)
    OBVIOUS
<1>6. \A d \in S : ~(c < d)
    BY <1>2, <1>4, <1>5
<1> QED BY <1>0, <1>6

\* A story is the chapters after the story before, up to its own last one.
LEMMA StoryIs ==
    ASSUME NEW e \in StoryEnds
    PROVE  /\ e \in StoryChapters(e)
           /\ StoryChapters(e) \subseteq Chapters
           /\ \A c \in StoryChapters(e) : c <= e /\ \A f \in StoryEnds : f < e => f < c
BY StoriesAssumption, ChaptersAssumption DEF StoryChapters, Chapters

\* A chapter open in an orderly reading has all before it passed.
LEMMA BehindPassed ==
    ASSUME NEW statuses, Orderly(statuses), NEW d \in Chapters, statuses[d] # "locked",
           NEW e \in StoryEnds, e < d
    PROVE  Completed(e, statuses)
<1>1. \A c \in StoryChapters(e) : c \in Chapters /\ c < d
    BY StoryIs, ChaptersAssumption, StoriesAssumption DEF Chapters
<1> QED BY <1>1 DEF Completed, Orderly

\* A story that is not locked has an open chapter, or follows a completed one.
LEMMA NotLocked ==
    ASSUME NEW statuses, NEW f \in StoryEnds, derive_story_state(f, statuses) # "locked"
    PROVE  \/ \E d \in StoryChapters(f) : statuses[d] # "locked"
           \/ PreviousCompleted(f, statuses)
BY StoryIs DEF derive_story_state, Completed, Started

\* A story is completed when all its chapters are passed, and only then.
LEMMA CompletedIs ==
    ASSUME NEW statuses, NEW e \in StoryEnds
    PROVE  derive_story_state(e, statuses) = "completed" <=> Completed(e, statuses)
<1>1. CASE Completed(e, statuses)
    <2>1. \E c \in StoryChapters(e) : statuses[c] \in Started
        BY <1>1, StoryIs DEF Completed, Started
    <2> QED BY <1>1, <2>1 DEF derive_story_state
<1>2. CASE ~Completed(e, statuses)
    <2>1. derive_story_state(e, statuses) \in {"in_progress", "available", "locked"}
        BY <1>2 DEF derive_story_state
    <2> QED BY <1>2, <2>1
<1> QED BY <1>1, <1>2

\* Only the stories after completed ones are not locked.
LEMMA OnlyAfterCompleted ==
    ASSUME NEW statuses, Orderly(statuses), NEW e \in StoryEnds, NEW f \in StoryEnds,
           e < f, derive_story_state(f, statuses) # "locked"
    PROVE  derive_story_state(e, statuses) = "completed"
<1>0. \A c \in StoryEnds : c \in Chapters /\ c \in Int
    BY StoriesAssumption, ChaptersAssumption DEF Chapters
<1>1. CASE \E d \in StoryChapters(f) : statuses[d] # "locked"
    <2>1. PICK d \in StoryChapters(f) : statuses[d] # "locked"
        BY <1>1
    <2>2. d \in Chapters /\ e < d
        BY StoryIs
    <2>3. Completed(e, statuses)
        BY <2>1, <2>2, BehindPassed
    <2> QED BY <2>3, CompletedIs
<1>2. CASE PreviousCompleted(f, statuses)
    <2> DEFINE S == {g \in StoryEnds : g < f}
    <2>1. S \subseteq Chapters /\ S # {}
        BY <1>0
    <2>2. PICK g \in S : \A h \in S : h <= g
        <3> HIDE DEF S
        <3> QED BY <2>1, LastChapter
    <2>3. g \in StoryEnds /\ g < f /\ (\A h \in StoryEnds : h < f => h <= g) /\ e <= g
        BY <2>2
    <2>4. Completed(g, statuses)
        BY <1>2, <2>3 DEF PreviousCompleted
    <2>5. CASE e = g
        BY <2>4, <2>5, CompletedIs
    <2>6. CASE e < g
        <3>1. statuses[g] # "locked" /\ g \in Chapters
            BY <1>0, <2>3, <2>4, StoryIs DEF Completed
        <3>2. Completed(e, statuses)
            BY <2>6, <3>1, BehindPassed
        <3> QED BY <3>2, CompletedIs
    <2> QED BY <1>0, <2>3, <2>5, <2>6
<1> QED BY <1>1, <1>2, NotLocked

\* When nothing is left to open, the first chapter not passed is offered by its story.
LEMMA OneInHand ==
    ASSUME NEW statuses \in [Chapters -> ChapterStatus], next_playable_chapter(statuses) = {},
           NEW b \in Chapters, statuses[b] # "passed"
    PROVE  \E e \in StoryEnds : Cursor(e, statuses) # {}
<1>0. /\ \A c \in Chapters : c \in Int /\ 1 <= c /\ c <= NChapters
      /\ StoryEnds \subseteq Chapters /\ NChapters \in StoryEnds
    BY StoriesAssumption, ChaptersAssumption DEF Chapters
<1> DEFINE S == {c \in Chapters : statuses[c] # "passed"}
<1>1. PICK c \in S : \A d \in S : c <= d
    <2>1. S \subseteq Chapters /\ S # {}
        OBVIOUS
    <2> HIDE DEF S
    <2> QED BY <2>1, FirstChapter
<1>2. /\ c \in Chapters /\ statuses[c] # "passed"
      /\ \A d \in Chapters : d < c => statuses[d] = "passed"
    BY <1>0, <1>1
<1>3. statuses[c] # "locked"
    <2>1. \A d \in 1..(c - 1) : d \in Chapters /\ d < c
        BY <1>0, <1>2, ChaptersAssumption DEF Chapters
    <2> QED BY <1>2, <2>1 DEF next_playable_chapter
<1> DEFINE E == {e \in StoryEnds : c <= e}
<1>4. PICK e \in E : \A f \in E : e <= f
    <2>1. E \subseteq Chapters /\ E # {}
        BY <1>0, <1>2
    <2> HIDE DEF E
    <2> QED BY <2>1, FirstChapter
<1>5. e \in StoryEnds /\ c <= e /\ \A f \in StoryEnds : f < e => f < c
    BY <1>0, <1>2, <1>4
<1>6. c \in StoryChapters(e)
    BY <1>0, <1>2, <1>5 DEF StoryChapters, Chapters
<1>7. ~Completed(e, statuses)
    BY <1>2, <1>6 DEF Completed
<1>8. statuses[c] \in Started \cup {"available"}
    BY <1>2, <1>3 DEF ChapterStatus, Started
<1>9. derive_story_state(e, statuses) \in {"in_progress", "available"}
    BY <1>6, <1>7, <1>8 DEF derive_story_state
<1>10. c \in Cursor(e, statuses)
    BY <1>2, <1>5, <1>6, <1>9, StoryIs DEF Cursor
<1> QED BY <1>5, <1>10

\* What a story offers is open in the reading, or behind a chapter that the reading
\* does not show as passed although one behind it is open.
LEMMA CursorOpen ==
    ASSUME NEW statuses \in [Chapters -> ChapterStatus], next_playable_chapter(statuses) = {},
           NEW e \in StoryEnds, NEW c \in Cursor(e, statuses), statuses[c] = "locked"
    PROVE  \E d, x \in Chapters :
               d < c /\ d < x /\ statuses[d] # "passed" /\ statuses[x] # "locked"
<1>0. /\ \A d \in Chapters : d \in Int /\ 1 <= d /\ d <= NChapters
      /\ StoryEnds \subseteq Chapters
    BY StoriesAssumption, ChaptersAssumption DEF Chapters
<1>1. /\ derive_story_state(e, statuses) # "locked"
      /\ c \in StoryChapters(e) /\ c \in Chapters
      /\ \A d \in StoryChapters(e) : d < c => statuses[d] = "passed"
    BY StoryIs DEF Cursor
<1>2. PICK d \in 1..(c - 1) : statuses[d] # "passed"
    BY <1>1 DEF next_playable_chapter
<1>3. d \in Chapters /\ d < c
    BY <1>0, <1>1, ChaptersAssumption DEF Chapters
<1>4. d \notin StoryChapters(e)
    BY <1>1, <1>2, <1>3
<1>5. PICK f \in StoryEnds : f < e /\ d <= f
    BY <1>0, <1>1, <1>3, <1>4, StoryIs DEF StoryChapters, Chapters
<1>6. CASE \E x \in StoryChapters(e) : statuses[x] # "locked"
    <2>1. PICK x \in StoryChapters(e) : statuses[x] # "locked"
        BY <1>6
    <2>2. x \in Chapters /\ f < x
        BY <1>5, <2>1, StoryIs
    <2> QED BY <1>0, <1>2, <1>3, <1>5, <2>1, <2>2
<1>7. CASE PreviousCompleted(e, statuses)
    <2> DEFINE S == {g \in StoryEnds : g < e}
    <2>1. S \subseteq Chapters /\ S # {}
        BY <1>0, <1>5
    <2>2. PICK g \in S : \A h \in S : h <= g
        <3> HIDE DEF S
        <3> QED BY <2>1, LastChapter
    <2>3. g \in StoryEnds /\ g < e /\ (\A h \in StoryEnds : h < e => h <= g) /\ f <= g
        BY <1>5, <2>2
    <2>4. statuses[g] = "passed" /\ g \in Chapters
        BY <1>0, <1>7, <2>3, StoryIs DEF PreviousCompleted, Completed
    <2>5. d < g
        BY <1>0, <1>2, <1>3, <1>5, <2>3, <2>4
    <2> QED BY <1>2, <1>3, <2>4, <2>5
<1> QED BY <1>1, <1>6, <1>7, NotLocked

\* The chapters before an open one have a passing submission: TrackOrder opens none
\* before, and never takes one back.
OpenBehindPassing == \A c \in Opened : \A d \in Chapters : d < c => d \in passing

LEMMA StepBehind == TrackInv /\ OpenBehindPassing /\ [Next]_vars => OpenBehindPassing'
<1> SUFFICES ASSUME OpenBehindPassing, Promised PROVE OpenBehindPassing'
    BY StepTrack
<1>1. ASSUME NEW c \in Order!Chapters, Order!Open(c) PROVE OpenBehindPassing'
    <2>1. /\ Opened' = Opened \cup {c} /\ passing' = passing /\ c \in Chapters
          /\ \A d \in 1..(c - 1) : d \in passing
        BY <1>1 DEF Order!Open, Order!Chapters, Chapters
    <2>2. \A d \in Chapters : d < c => d \in 1..(c - 1)
        BY <2>1, ChaptersAssumption DEF Chapters
    <2> QED BY <2>1, <2>2 DEF OpenBehindPassing
<1>2. ASSUME NEW c \in Order!Chapters, Order!Pass(c) PROVE OpenBehindPassing'
    BY <1>2 DEF Order!Pass, OpenBehindPassing
<1>3. CASE UNCHANGED <<Opened, passing>>
    BY <1>3 DEF OpenBehindPassing
<1> QED BY <1>1, <1>2, <1>3 DEF Promised, Order!Next

LEMMA BehindInvariant == Spec => []OpenBehindPassing
<1>1. Init => OpenBehindPassing
    BY DEF Init, Opened, NoStatuses, OpenBehindPassing
<1> QED BY <1>1, StepBehind, ReadingInvariant, PTL DEF Spec

\* What the answer offers to open can be opened, its chapter has a row, although
\* the reading is old and two readers may unlock at once; the one exception is a
\* chapter behind one that a late verdict has taken back (domain/track.py).
THEOREM OffersOpenChaptersHolds == Spec => []OffersOpenChapters
<1>1. TrackInv /\ ReadingInv /\ OpenBehindPassing => OffersOpenChapters
    <2> SUFFICES ASSUME TrackInv, ReadingInv, OpenBehindPassing, NEW r \in Readers,
                        reader[r].stage = "answered",
                        NEW e \in StoryEnds, NEW c \in Cursor(e, reader[r].statuses)
                 PROVE  c \in Opened \/ \E d \in TakenBack(reader[r].statuses) : d < c
        BY DEF OffersOpenChapters
    <2> DEFINE statuses == reader[r].statuses
    <2>1. statuses \in [Chapters -> ChapterStatus] /\ next_playable_chapter(statuses) = {}
        BY DEF TrackInv, TypeOK, ReadingInv
    <2>2. \A x \in Chapters : statuses[x] # "locked" => x \in Opened
        BY DEF ReadingInv
    <2>3. c \in Chapters
        BY StoryIs DEF Cursor
    <2> HIDE DEF statuses
    <2>4. CASE statuses[c] # "locked"
        BY <2>2, <2>3, <2>4
    <2>5. CASE statuses[c] = "locked"
        <3>1. c \in Cursor(e, statuses)
            BY DEF statuses
        <3>2. PICK d, x \in Chapters :
                  d < c /\ d < x /\ statuses[d] # "passed" /\ statuses[x] # "locked"
            BY <2>1, <2>5, <3>1, CursorOpen
        <3>3. d \in passing
            BY <2>2, <3>2 DEF OpenBehindPassing
        <3>4. d \in TakenBack(statuses)
            BY <3>2, <3>3 DEF TakenBack
        <3> QED BY <3>2, <3>4 DEF statuses
    <2> QED BY <2>4, <2>5
<1> QED BY <1>1, ReadingInvariant, BehindInvariant, PTL

\* The answer shows one story in hand at most, after completed ones and before
\* locked ones, and one until the whole track is completed.
THEOREM StoriesInTurnHolds == Spec => []StoriesInTurn
<1>1. TrackInv /\ ReadingInv => StoriesInTurn
    <2> SUFFICES ASSUME TrackInv, ReadingInv, NEW r \in Readers,
                        reader[r].stage = "answered", Orderly(reader[r].statuses)
                 PROVE  /\ \A e, f \in StoryEnds :
                               e < f /\ derive_story_state(f, reader[r].statuses) # "locked" =>
                                   derive_story_state(e, reader[r].statuses) = "completed"
                        /\ \/ \E e \in StoryEnds : Cursor(e, reader[r].statuses) # {}
                           \/ \A c \in Chapters : reader[r].statuses[c] = "passed"
        BY DEF StoriesInTurn
    <2>1. reader[r].statuses \in [Chapters -> ChapterStatus]
        BY DEF TrackInv, TypeOK
    <2>2. next_playable_chapter(reader[r].statuses) = {}
        BY DEF ReadingInv
    <2>3. \A e, f \in StoryEnds :
              e < f /\ derive_story_state(f, reader[r].statuses) # "locked" =>
                  derive_story_state(e, reader[r].statuses) = "completed"
        BY OnlyAfterCompleted
    <2>4. \/ \E e \in StoryEnds : Cursor(e, reader[r].statuses) # {}
          \/ \A c \in Chapters : reader[r].statuses[c] = "passed"
        BY <2>1, <2>2, OneInHand
    <2> QED BY <2>3, <2>4
<1> QED BY <1>1, ReadingInvariant, PTL

=============================================================================
