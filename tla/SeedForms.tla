----------------------------- MODULE SeedForms -----------------------------
(***************************************************************************)
(* The forms a story is written in before it reaches the content tables    *)
(* (adapters/db/seed/story.py).  What is said is left out: of a beat, its  *)
(* body; of a character, the persona; of a chapter, its title and briefs.  *)
(* A name or a title is written with _ for a space, and without its dots.  *)
(***************************************************************************)
EXTENDS Integers, Sequences

Branches == {"main", "consequence", "recovery"}
BeatTypes == {"narration", "dialogue", "objective", "hint"}
Nobody == "nobody"      \* a beat no character speaks

BeatSeed(branch, beat_type, character) ==
    [branch |-> branch, beat_type |-> beat_type, character |-> character]

\* Every chapter of the three stories is told in this form: only its character speaks.
Told(character) ==
    <<BeatSeed("main", "narration", Nobody),
      BeatSeed("main", "dialogue", character),
      BeatSeed("main", "objective", Nobody),
      BeatSeed("main", "hint", Nobody),
      BeatSeed("consequence", "narration", Nobody),
      BeatSeed("consequence", "dialogue", character),
      BeatSeed("consequence", "narration", Nobody),
      BeatSeed("recovery", "narration", Nobody),
      BeatSeed("recovery", "dialogue", character),
      BeatSeed("recovery", "objective", Nobody),
      BeatSeed("recovery", "hint", Nobody)>>

ChapterSeed(kind, antagonist, min_words, max_words, beats) ==
    [kind |-> kind, antagonist |-> antagonist,
     min_words |-> min_words, max_words |-> max_words, beats |-> beats]

Confronto(antagonist, beats) == ChapterSeed("confronto", antagonist, 120, 250, beats)
Chefe(antagonist, beats) == ChapterSeed("chefe", antagonist, 250, 450, beats)

ThemeSeed(exam, year, title) == [exam |-> exam, year |-> year, title |-> title]

\* The theme is a set, empty for a story that is not of an exam.
StorySeed(slug, position, is_tutorial, dimension_floor, min_average, characters, chapters, theme) ==
    [slug |-> slug, position |-> position, is_tutorial |-> is_tutorial,
     dimension_floor |-> dimension_floor, min_average |-> min_average,
     characters |-> characters, chapters |-> chapters, theme |-> theme]
=============================================================================
