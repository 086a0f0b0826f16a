--------------------------- MODULE ChapterStates ---------------------------
(***************************************************************************)
(* The states of a chapter and the rules of domain/submission.py that move *)
(* it: shared by the submissions of a chapter and by the track.            *)
(***************************************************************************)

ChapterStatus == {"locked", "available", "drafting", "in_consequence",
                  "in_recovery", "passed"}
Verdict == {"approved", "failed_technical", "failed_persuasion"}
WRITABLE_STATUSES == {"available", "drafting", "in_recovery"}

\* mutant: the two failures swapped
next_status_for_Swapped(verdict) ==
    CASE verdict = "approved"         -> "passed"
      [] verdict = "failed_technical" -> "in_consequence"
      [] OTHER                        -> "drafting"

next_status_for(verdict) ==
    CASE verdict = "approved"         -> "passed"
      [] verdict = "failed_technical" -> "drafting"
      [] OTHER                        -> "in_consequence"

resolve_status_after_evaluation(current, verdict) ==
    IF current = "passed" THEN "passed" ELSE next_status_for(verdict)

=============================================================================
