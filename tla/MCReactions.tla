---------------------------- MODULE MCReactions ----------------------------
EXTENDS Reactions, TLC

\* Submissions, requests and the engine's lines are interchangeable.
Symmetry == Permutations(Submissions) \cup Permutations(Callers) \cup Permutations(Lines)

=============================================================================
