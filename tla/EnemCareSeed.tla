---------------------------- MODULE EnemCareSeed ----------------------------
(* The story of the ENEM theme of 2023 (adapters/db/seed/enem_care.py). *)
EXTENDS SeedForms

STORY_SLUG == "cuidado-invisivel"
THEME == ThemeSeed("enem", 2023, "invisibilidade_do_trabalho_de_cuidado")
CHARACTERS == {"Tia_Bete", "Tio_Marcos", "Dona_Cida", "Rosana", "Dra_Neusa"}

c1_beats == Told("Tia_Bete")
c2_beats == Told("Tio_Marcos")
c3_beats == Told("Dona_Cida")
c4_beats == Told("Rosana")
c5_beats == Told("Dra_Neusa")

chapters ==
    <<Confronto("Tia_Bete", c1_beats),
      Confronto("Tio_Marcos", c2_beats),
      Confronto("Dona_Cida", c3_beats),
      Confronto("Rosana", c4_beats),
      Chefe("Dra_Neusa", c5_beats)>>

seed_enem_care == StorySeed(STORY_SLUG, 2, FALSE, 50, 60, CHARACTERS, chapters, {THEME})
=============================================================================
