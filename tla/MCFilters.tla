------------------------------ MODULE MCFilters ------------------------------
(* A folder, and a file in the place of one; every kind of filter, and nested *)
(* ones; names that differ in case only, an episode that is no video.         *)
EXTENDS Filters

MCLower == ("Show" :> "show") @@ ("show" :> "show") @@ ("S01E02.mkv" :> "s01e02.mkv")
           @@ ("S01E02.srt" :> "s01e02.srt") @@ ("SHOW.ts" :> "show.ts")
           @@ ("s01e02.mkv" :> "s01e02.mkv") @@ ("s01e02.srt" :> "s01e02.srt")
           @@ ("show.ts" :> "show.ts")
MCHits == {<<"S.*2", "S01E02.mkv">>, <<"S.*2", "S01E02.srt">>, <<".*", "Show">>}
MCOccurs == {<<"Show", "Show">>, <<"show", "show">>, <<"show", "show.ts">>}
MCVideos == {"S01E02.mkv", "SHOW.ts"}
MCEpisodes == {"S01E02.mkv", "S01E02.srt"}

File(n, s) == [path |-> <<n>>, coll |-> FALSE, size |-> s]
MCExtras == {File("S01E02.mkv", 2), File("S01E02.srt", 1), File("SHOW.ts", 3),
             [path |-> <<"Show">>, coll |-> TRUE, size |-> 0]}
MCItems == {[id |-> "i", name |-> "Show", coll |-> TRUE, size |-> 0, descendants |-> <<>>],
            [id |-> "j", name |-> "SHOW.ts", coll |-> FALSE, size |-> 3, descendants |-> <<>>]}

Filter(k, v) == [kind |-> k, value |-> v]
Texts == {Filter(k, v) : k \in {"contains", "contains_strict", "any_file_inside_contains",
                                "any_file_inside_contains_strict"}, v \in {"Show", "show"}}
Regexes == {Filter(k, v) : k \in {"regex", "any_file_inside_regex"}, v \in {"S.*2", ".*"}}
Measures == {Filter(k, n) : k \in {"size_gte", "size_lte", "any_file_inside_size_gte",
                                   "any_file_inside_size_lte"}, n \in {2, 4}}
Simple == Texts \cup Regexes \cup Measures
          \cup {Filter("has_episodes", b) : b \in BOOLEAN} \cup {Filter("id", "i")}
Ors == {Filter("or", <<Filter("has_episodes", TRUE), g>>) : g \in Texts}
Ands == {Filter("and", <<f, o>>) : f \in Measures, o \in Ors}
MCConditions == Simple \cup {Filter(k, <<>>) : k \in {"and", "or"}} \cup Ors \cup Ands
MCDepth == [c \in MCConditions |-> IF c \in Ands THEN 2 ELSE IF c \in Ors THEN 1 ELSE 0]
=============================================================================
