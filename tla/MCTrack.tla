------------------------------ MODULE MCTrack ------------------------------
EXTENDS Track, TLC

\* Requests for the track are alike, and so are the executions that write.
ExecutionSymmetry == Permutations(Readers) \cup Permutations(Writers)

=============================================================================
