------------------------------ MODULE Content ------------------------------
(***************************************************************************)
(* The stories, and the deploys that write them (entrypoints/seed_content, *)
(* adapters/db/seed): one transaction runs the three seeds, each of which  *)
(* looks its slug up and writes the story when it is not there.  A deploy  *)
(* and a seed run by hand may overlap: the unique indexes on the slug and  *)
(* the position of a story make the second wait for the first and refuse   *)
(* it once the first has committed, and the whole run rolls back.          *)
(***************************************************************************)
EXTENDS Integers, Sequences, FiniteSets

CONSTANTS Seeders,   \* runs of the seed
          Before     \* who wrote the stories of earlier releases

Tutorial == INSTANCE TutorialSeed
EnemCare == INSTANCE EnemCareSeed
FuvestTraffic == INSTANCE FuvestTrafficSeed

SEEDS == <<Tutorial!seed_tutorial, EnemCare!seed_enem_care, FuvestTraffic!seed_fuvest_traffic>>

VARIABLES content,   \* the committed rows of the content tables
          seeder     \* of each run: where it is, and the rows it has written

contents == <<content, seeder>>

-----------------------------------------------------------------------------
(* Rows, named by who they belong to. *)

Tables == {"themes", "stories", "characters", "chapters", "beats"}
NoRows == [t \in Tables |-> {}]
Row(table, row) == [NoRows EXCEPT ![table] = {row}]
With(rows, more) == [t \in Tables |-> rows[t] \union more[t]]

\* _theme_id: the row of the same exam, year and title, or a new one.
SameTheme(rows, theme) ==
    \E row \in rows.themes : row.exam = theme.exam /\ row.year = theme.year /\ row.title = theme.title
ThemeId(rows, by, seed) ==
    [NoRows EXCEPT !.themes =
        {[by |-> by, exam |-> theme.exam, year |-> theme.year, title |-> theme.title] :
            theme \in {asked \in seed.theme : ~SameTheme(rows, asked)}}]

StoryRow(by, seed) ==
    Row("stories", [by |-> by, slug |-> seed.slug, position |-> seed.position,
                    is_tutorial |-> seed.is_tutorial, dimension_floor |-> seed.dimension_floor,
                    min_average |-> seed.min_average, status |-> "published"])
Characters(by, seed) ==
    [NoRows EXCEPT !.characters = {[by |-> by, story |-> seed.slug, name |-> c] : c \in seed.characters}]

\* Variant: one counter for the beats of all branches.
BeatPosition_OneCounter(beats, i) == i
\* The beats of each branch are counted apart.
BeatPosition(beats, i) == Cardinality({j \in 1 .. i : beats[j].branch = beats[i].branch})
Beats(by, seed, n) ==
    LET beats == seed.chapters[n].beats IN
    {[by |-> by, story |-> seed.slug, chapter |-> n, branch |-> beats[i].branch,
      position |-> BeatPosition(beats, i), beat_type |-> beats[i].beat_type,
      character |-> beats[i].character] : i \in DOMAIN beats}
ChapterRow(by, seed, n) ==
    LET chapter == seed.chapters[n] IN
    [NoRows EXCEPT !.chapters = {[by |-> by, story |-> seed.slug, position |-> n, kind |-> chapter.kind,
                                  antagonist |-> chapter.antagonist,
                                  min_words |-> chapter.min_words, max_words |-> chapter.max_words]},
                   !.beats = Beats(by, seed, n)]

\* What a release with the first k seeds has left in the tables.
Chapters(by, seed) ==
    [t \in Tables |-> UNION {ChapterRow(by, seed, n)[t] : n \in DOMAIN seed.chapters}]
Released[k \in 0 .. Len(SEEDS)] ==
    IF k = 0 THEN NoRows
    ELSE LET seed == SEEDS[k] IN
         With(With(With(With(Released[k - 1], ThemeId(Released[k - 1], Before, seed)),
              StoryRow(Before, seed)), Characters(Before, seed)), Chapters(Before, seed))

-----------------------------------------------------------------------------
Run(stage, seed, chapter, rows) == [stage |-> stage, seed |-> seed, chapter |-> chapter, rows |-> rows]
Idle == Run("idle", 0, 0, NoRows)

ContentInit(k) == content = Released[k] /\ seeder = [s \in Seeders |-> Idle]

Seed(s) == SEEDS[seeder[s].seed]
View(s) == With(content, seeder[s].rows)
Goes(s, run) == seeder' = [seeder EXCEPT ![s] = run]
Writes(s, rows, stage) == Goes(s, Run(stage, seeder[s].seed, seeder[s].chapter, With(seeder[s].rows, rows)))

SeedBegins(s) ==
    /\ seeder[s].stage = "idle"
    /\ Goes(s, Run("lookup", 1, 0, NoRows))
    /\ UNCHANGED content

\* The next seed of SEEDS, or the commit.
NextSeed(r, rows) ==
    IF r.seed < Len(SEEDS) THEN Run("lookup", r.seed + 1, r.chapter, rows)
    ELSE Run("commit", r.seed, r.chapter, rows)

\* insert_story: a slug that is there is left alone.
LookUp(s) ==
    /\ seeder[s].stage = "lookup"
    /\ IF \E row \in View(s).stories : row.slug = Seed(s).slug
       THEN Goes(s, NextSeed(seeder[s], seeder[s].rows))
       ELSE Goes(s, Run("theme", seeder[s].seed, seeder[s].chapter, seeder[s].rows))
    /\ UNCHANGED content
FindTheme(s) ==
    /\ seeder[s].stage = "theme"
    /\ Writes(s, ThemeId(View(s), s, Seed(s)), "story")
    /\ UNCHANGED content

\* The unique indexes on slug and position, over the other stories.
Taken(stories, seed) ==
    \E row \in stories : row.slug = seed.slug \/ row.position = seed.position
InsertStory(s) ==
    /\ seeder[s].stage = "story"
    /\ \A q \in Seeders \ {s} : ~Taken(seeder[q].rows.stories, Seed(s))
    /\ IF Taken(View(s).stories, Seed(s)) THEN Goes(s, Idle)
       ELSE Writes(s, StoryRow(s, Seed(s)), "characters")
    /\ UNCHANGED content
InsertCharacters(s) ==
    /\ seeder[s].stage = "characters"
    /\ Goes(s, Run("chapter", seeder[s].seed, 1, With(seeder[s].rows, Characters(s, Seed(s)))))
    /\ UNCHANGED content

\* _insert_chapter: the chapter and its beats; the antagonist is one of the characters
\* (a KeyError otherwise, and the run rolls back).
InsertChapter(s) ==
    LET n == seeder[s].chapter
        rows == With(seeder[s].rows, ChapterRow(s, Seed(s), n)) IN
    /\ seeder[s].stage = "chapter"
    /\ Seed(s).chapters[n].antagonist \in Seed(s).characters
    /\ Goes(s, IF n < Len(Seed(s).chapters) THEN Run("chapter", seeder[s].seed, n + 1, rows)
                ELSE NextSeed(seeder[s], rows))
    /\ UNCHANGED content

CommitSeed(s) ==
    /\ seeder[s].stage = "commit"
    /\ content' = View(s)
    /\ Goes(s, Idle)
SeederDies(s) ==
    /\ seeder[s].stage # "idle"
    /\ Goes(s, Idle)
    /\ UNCHANGED content

SeedStep(s) ==
    \/ SeedBegins(s) \/ LookUp(s) \/ FindTheme(s) \/ InsertStory(s) \/ InsertCharacters(s)
    \/ InsertChapter(s) \/ CommitSeed(s) \/ SeederDies(s)

-----------------------------------------------------------------------------
(* What the readers of the content see. *)

\* list_published_stories: the published stories by position, each with the ids of its
\* chapters by position; an id is here the slug and the position.
By(rows) ==
    [i \in 1 .. Cardinality(rows) |->
        CHOOSE row \in rows : Cardinality({r \in rows : r.position < row.position}) = i - 1]
ChapterIds(story) ==
    LET rows == By({row \in content.chapters : row.story = story.slug}) IN
    [n \in DOMAIN rows |-> <<story.slug, rows[n].position>>]
list_published_stories ==
    LET rows == By({row \in content.stories : row.status = "published"}) IN
    [p \in DOMAIN rows |-> [slug |-> rows[p].slug, is_tutorial |-> rows[p].is_tutorial,
                           chapter_ids |-> ChapterIds(rows[p])]]

\* get_chapter and list_beats: a chapter with its antagonist, and the beats of a branch.
get_chapter(id) == {row \in content.chapters : <<row.story, row.position>> = id}
list_beats(id, branch) ==
    By({row \in content.beats : <<row.story, row.chapter>> = id /\ row.branch = branch})
=============================================================================
