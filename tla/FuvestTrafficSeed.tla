------------------------- MODULE FuvestTrafficSeed -------------------------
(* The story of the FUVEST theme of 2021 (adapters/db/seed/fuvest_traffic.py). *)
EXTENDS SeedForms

STORY_SLUG == "sinal-fechado"
THEME == ThemeSeed("fuvest", 2021, "O_mundo_contemporaneo_esta_fora_de_ordem")
CHARACTERS == {"Luciana", "Roberto", "Sargento_Moura", "Jonas", "Prof_Carlos"}

c1_beats == Told("Luciana")
c2_beats == Told("Roberto")
c3_beats == Told("Sargento_Moura")
c4_beats == Told("Jonas")
c5_beats == Told("Prof_Carlos")

chapters ==
    <<Confronto("Luciana", c1_beats),
      Confronto("Roberto", c2_beats),
      Confronto("Sargento_Moura", c3_beats),
      Confronto("Jonas", c4_beats),
      Chefe("Prof_Carlos", c5_beats)>>

seed_fuvest_traffic == StorySeed(STORY_SLUG, 3, FALSE, 55, 65, CHARACTERS, chapters, {THEME})
=============================================================================
