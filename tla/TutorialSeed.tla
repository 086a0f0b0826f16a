---------------------------- MODULE TutorialSeed ----------------------------
(* The tutorial story (adapters/db/seed/tutorial.py). *)
EXTENDS SeedForms

STORY_SLUG == "o-gremio"
CHARACTERS == {"Dona_Marta", "Seu_Tenorio", "Ana_Flor"}

c1_beats == Told("Dona_Marta")
c2_beats == Told("Seu_Tenorio")
c3_beats == Told("Ana_Flor")

chapters ==
    <<Confronto("Dona_Marta", c1_beats),
      Confronto("Seu_Tenorio", c2_beats),
      Chefe("Ana_Flor", c3_beats)>>

seed_tutorial == StorySeed(STORY_SLUG, 1, TRUE, 40, 50, CHARACTERS, chapters, {})
=============================================================================
