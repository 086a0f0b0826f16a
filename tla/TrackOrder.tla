----------------------------- MODULE TrackOrder -----------------------------
(***************************************************************************)
(* What the track promises: chapters open one at a time and in order, each *)
(* only when every chapter before it has been passed; what was opened      *)
(* stays open, and what was passed stays passed.                           *)
(***************************************************************************)
EXTENDS Integers

CONSTANT NChapters       \* the chapters are 1..NChapters, in track order

Chapters == 1..NChapters

VARIABLES open, passed

Init == open = {} /\ passed = {}

Open(c) ==
    /\ c \in Chapters \ open
    /\ 1..(c - 1) \subseteq passed
    /\ open' = open \cup {c}
    /\ UNCHANGED passed

Pass(c) ==
    /\ c \in open \ passed
    /\ passed' = passed \cup {c}
    /\ UNCHANGED open

Next == \E c \in Chapters : Open(c) \/ Pass(c)

Spec == Init /\ [][Next]_<<open, passed>>

=============================================================================
