---------------------------- MODULE MCClassifier -----------------------------
(* Classifier and Filters composed: the directories of config.example.yml,    *)
(* and two with size limits in groups of their own.  A folder that gains and  *)
(* loses episodes, subtitles and a checksum, with equal biggest files and an  *)
(* empty folder; a file with the folder's name, and a file that is an episode.*)
EXTENDS Classifier

CONSTANT none

MCIds == {"i1", "i2", "i3"}

Checksum == "\\b[a-fA-F0-9]{8}\\b"
File(p, s) == [path |-> p, coll |-> FALSE, size |-> s]
Folder(p) == [path |-> p, coll |-> TRUE, size |-> 0]

Film == [id |-> "i1", name |-> "film", coll |-> TRUE, size |-> 0,
         descendants |-> <<File(<<"film.mkv">>, 2)>>]
Series == [Film EXCEPT !.descendants =
             @ \o <<Folder(<<"s">>), File(<<"s", "S01E01.mkv">>, 2), Folder(<<"s", "a">>)>>]
Subtitled == [Film EXCEPT !.descendants =
                <<File(<<"film.mkv">>, 1), Folder(<<"s">>), File(<<"s", "S01E01.srt">>, 3)>>]
Anime == [Series EXCEPT !.descendants = Append(@, File(<<"ABCDEF12.mkv">>, 1))]
Plain == [id |-> "i2", name |-> "film", coll |-> FALSE, size |-> 1, descendants |-> <<>>]
Episode == [id |-> "i3", name |-> "S01E01.mkv", coll |-> FALSE, size |-> 1,
            descendants |-> <<>>]
MCLibrary == {Film, Series, Subtitled, Anime, Plain, Episode}
Names == {"film", "film.mkv", "S01E01.mkv", "S01E01.srt", "ABCDEF12.mkv"}

Filter(k, v) == [kind |-> k, value |-> v]
MCFiltersOf ==
  ("anime" :> {Filter("regex", Checksum), Filter("any_file_inside_regex", Checksum)})
  @@ ("shows" :> {Filter("has_episodes", TRUE)})
  @@ ("movies" :> {Filter("regex", ".*")})
  @@ ("/small" :> {Filter("any_file_inside_size_lte", 1)})
  @@ ("best" :> {Filter("size_gte", 3)})

MCFilters == UNION {MCFiltersOf[d] : d \in DOMAIN MCFiltersOf}

F == INSTANCE Filters WITH
  Hits <- ({".*"} \X Names) \cup {<<Checksum, "ABCDEF12.mkv">>},
  Occurs <- {}, Lower <- [n \in Names |-> n],
  Videos <- {"film.mkv", "S01E01.mkv", "ABCDEF12.mkv"},
  Episodes <- {"S01E01.mkv", "S01E01.srt"},
  Conditions <- MCFilters, Depth <- [c \in MCFilters |-> 0],
  Extras <- {}, Items <- MCLibrary, MaxFiles <- 3, Width <- 8, item <- Film

Dir(n, g, o, b, lte) ==
  [name |-> n, group |-> g, order |-> o, biggest |-> b, gte |-> 0, lte |-> lte]
MCDirectories ==
  {Dir("anime", "media", 10, FALSE, 9), Dir("shows", "media", 20, FALSE, 9),
   Dir("movies", "media", 30, TRUE, 9),
   Dir("/small", none, 0, FALSE, 1), Dir("best", none, 0, TRUE, 2)}

MCAccepts == [d \in DOMAIN MCFiltersOf |->
                {x \in MCLibrary : F!DirectoryMatches(MCFiltersOf[d], x)}]
MCClean == ("/small" :> "small")
           @@ [n \in Names \cup {"anime", "shows", "movies", "best"} |-> n]
MCAlphabet == <<"__directory__/small", "__directory__best", "anime", "best", "media",
                "movies", "shows", "small">>

-----------------------------------------------------------------------------
\* With the example configuration every item is in exactly one of its directories,
\* from refresh to refresh: anime if a name in it has a checksum, else shows if a
\* video in it is an episode, else movies; it moves when it gains or loses such a
\* file.
SortedByExample ==
  \A x \in Present :
    LET files == {Last(x.descendants[k].path) : k \in DOMAIN x.descendants} \cup {x.name}
        category == IF "ABCDEF12.mkv" \in files THEN "anime"
                    ELSE IF "S01E01.mkv" \in files THEN "shows" ELSE "movies"
    IN {Parent(p) : p \in {p \in Aliases(tree, x.id) : Len(p) = 2}}
         \cap {<<"anime">>, <<"shows">>, <<"movies">>} = {<<category>>}
=============================================================================
