----------------------------- MODULE MCVerdicts -----------------------------
EXTENDS Verdicts, TLC

\* The students are alike: their submissions, profiles and corrections are
\* indexed by them and by nothing else.
StudentSymmetry == Permutations(Students)

=============================================================================
