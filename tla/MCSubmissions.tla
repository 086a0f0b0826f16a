--------------------------- MODULE MCSubmissions ---------------------------
(* Instances of Submissions for TLC.  Identifiers are model values.         *)
EXTENDS Submissions, TLC

Symmetry == Permutations(Ids) \cup Permutations(Requests) \cup Permutations(Workers)
=============================================================================
