------------------------------- MODULE Filters -------------------------------
(***************************************************************************)
(* The filters of a directory (filter.rs): how one of the configuration is *)
(* compiled and what it says of an item, whose files come and go from one  *)
(* crawl to the next.  Texts are taken apart no further than filters do:   *)
(* which pattern matches which name, and which text occurs in which, are   *)
(* relations given as constants.                                           *)
(*                                                                         *)
(* An item is [id, name, coll, size, descendants] and a descendant         *)
(* [path, coll, size], its path relative to the item, as in Classifier.    *)
(***************************************************************************)
EXTENDS Naturals, FiniteSets, SequencesExt

CONSTANTS
  Hits,       \* <<pattern, name>>: the regex matches the name
  Occurs,     \* <<text, name>>: the text occurs in the name, case and all
  Lower,      \* text or name -> the same in lower case
  Videos,     \* names with the extension of a video
  Episodes,   \* names that the episode pattern matches
  Conditions, \* the filters of the configuration that are looked at
  Depth,      \* filter -> how deep filters are nested in it
  Extras,     \* descendants an item may gain or lose
  Items,      \* the items at the beginning
  MaxFiles,   \* bound: descendants
  Width       \* 2^64, where the sum of the sizes wraps

VARIABLE item

Resources == [path : Seq(STRING), coll : BOOLEAN, size : Nat]
ItemType == [id : STRING, name : STRING, coll : BOOLEAN, size : Nat,
             descendants : Seq(Resources)]

\* The values that serde lets through: a size is unsigned, has_episodes a Boolean, and a
\* filter is read from finitely many characters, so nesting ends.
ASSUME FilterAssumption ==
  /\ IsFiniteSet(Conditions)
  /\ Depth \in [Conditions -> 0..Cardinality(Conditions)]
  /\ \A c \in Conditions :
       /\ c = [kind |-> c.kind, value |-> c.value]
       /\ c.kind \in {"size_gte", "size_lte", "any_file_inside_size_gte",
                     "any_file_inside_size_lte"} => c.value \in Nat
       /\ c.kind = "has_episodes" => c.value \in BOOLEAN
       /\ c.kind \in {"and", "or"} =>
            \A k \in DOMAIN c.value :
              c.value[k] \in Conditions /\ Depth[c.value[k]] < Depth[c]
ASSUME ItemAssumption ==
  Extras \subseteq Resources /\ Items \subseteq ItemType /\ Width \in Nat \ {0}

-----------------------------------------------------------------------------
(* Filter::compile.                                                        *)

Negated == [regex |-> "not_regex", contains |-> "not_contains",
            contains_strict |-> "not_contains_strict",
            any_file_inside_regex |-> "any_file_inside_not_regex",
            any_file_inside_contains |-> "any_file_inside_not_contains",
            any_file_inside_contains_strict |-> "any_file_inside_not_contains_strict"]
Negative == {Negated[k] : k \in DOMAIN Negated}
Positive(kind) == IF kind \in Negative THEN CHOOSE k \in DOMAIN Negated : Negated[k] = kind
                  ELSE kind

\* The six pairs of text filters are a test with an invert flag; a text that
\* is compared without case is lowered once.
Compile(c) ==
  LET test == Positive(c.kind)
  IN [test |-> test, invert |-> c.kind \in Negative,
      value |-> IF test \in {"contains", "any_file_inside_contains"}
                THEN Lower[c.value] ELSE c.value]

-----------------------------------------------------------------------------
(* Filter::matches.                                                        *)

Name(r) == Last(r.path)

\* mutant: an item that is a file has none
FilesBelow(x) == {r \in Range(x.descendants) : ~r.coll}

\* item_files: the descendants that are files, or the item if it is one.
ItemFiles(x) ==
  {r \in Range(x.descendants) : ~r.coll}
    \cup IF x.coll THEN {} ELSE {[path |-> <<x.name>>, coll |-> FALSE, size |-> x.size]}

\* total_size: in a release build the sum of u64 wraps.
SumOfFiles(ds) ==
  LET sum[n \in 0..Len(ds)] ==
        IF n = 0 THEN 0 ELSE sum[n - 1] + IF ds[n].coll THEN 0 ELSE ds[n].size
  IN sum[Len(ds)]
TrueSize(x) == IF x.coll THEN SumOfFiles(x.descendants) ELSE x.size
TotalSize(x) == TrueSize(x) % Width

\* mutant: all videos have to be episodes
HasEpisodesOnly(x) == \A r \in ItemFiles(x) : Name(r) \in Videos => Name(r) \in Episodes

HasEpisodes(x) == \E r \in ItemFiles(x) : Name(r) \in Videos /\ Name(r) \in Episodes

\* The test of a compiled text filter on one name.
InName(f, name) ==
  \/ f.test \in {"regex", "any_file_inside_regex"} /\ <<f.value, name>> \in Hits
  \/ f.test \in {"contains_strict", "any_file_inside_contains_strict"}
     /\ <<f.value, name>> \in Occurs
  \/ f.test \in {"contains", "any_file_inside_contains"}
     /\ <<f.value, Lower[name]>> \in Occurs

\* What a compiled test says of an item.
Holds(f, x) ==
  \/ f.test = "id" /\ x.id = f.value
  \/ f.test \in {"regex", "contains", "contains_strict"} /\ InName(f, x.name)
  \/ f.test \in {"any_file_inside_regex", "any_file_inside_contains",
                 "any_file_inside_contains_strict"}
     /\ \E r \in ItemFiles(x) : InName(f, Name(r))
  \/ f.test = "has_episodes" /\ HasEpisodes(x) = f.value
  \/ f.test = "size_gte" /\ TotalSize(x) >= f.value
  \/ f.test = "size_lte" /\ TotalSize(x) <= f.value
  \/ f.test = "any_file_inside_size_gte" /\ \E r \in ItemFiles(x) : r.size >= f.value
  \/ f.test = "any_file_inside_size_lte" /\ \E r \in ItemFiles(x) : r.size <= f.value

\* A filter that is not made of others.
Says(c, x) == Holds(Compile(c), x) # Compile(c).invert

Matches(c, x) ==
  LET matches[f \in Conditions] ==
        \/ f.kind = "and" /\ \A k \in DOMAIN f.value : matches[f.value[k]]
        \/ f.kind = "or" /\ \E k \in DOMAIN f.value : matches[f.value[k]]
        \/ f.kind \notin {"and", "or"} /\ Says(f, x)
  IN matches[c]

\* CompiledDirectory::matches: any of its filters.
DirectoryMatches(filters, x) == \E c \in filters : Matches(c, x)

-----------------------------------------------------------------------------
(* The item from crawl to crawl.                                           *)

FiltersInit == item \in Items

Gain ==
  /\ item.coll
  /\ Len(item.descendants) < MaxFiles
  /\ \E r \in Extras : item' = [item EXCEPT !.descendants = Append(@, r)]

Lose ==
  \E k \in DOMAIN item.descendants :
    item' = [item EXCEPT !.descendants = RemoveAt(@, k)]

\* A plain file is written anew.
Rewrite ==
  /\ ~item.coll
  /\ \E r \in Extras : item' = [item EXCEPT !.size = r.size]

FiltersNext == Gain \/ Lose \/ Rewrite

FiltersSpec == FiltersInit /\ [][FiltersNext]_item

-----------------------------------------------------------------------------
(* Properties.                                                             *)

OfName == [any_file_inside_regex |-> "regex", any_file_inside_contains |-> "contains",
           any_file_inside_contains_strict |-> "contains_strict"]

\* any_file_inside_... accepts an item if one of its files, as an item of its own,
\* would pass the filter without any_file_inside_, and any_file_inside_not_... if
\* none would: "not" is about all files.  An item that is a file is its own file.
AnyFileMeansSome ==
  \A c \in Conditions : c.kind \in DOMAIN OfName =>
    LET Passes(name) ==
          Says([c EXCEPT !.kind = OfName[@]], [item EXCEPT !.name = name])
        some == \/ \E k \in DOMAIN item.descendants :
                     ~item.descendants[k].coll /\ Passes(Name(item.descendants[k]))
                \/ ~item.coll /\ Passes(item.name)
    IN /\ Matches(c, item) <=> some
       /\ Says([c EXCEPT !.kind = Negated[@]], item) <=> ~some

\* Filters that ask for something to be there.
Growing(c) ==
  LET grows[f \in Conditions] ==
        \/ f.kind \in {"any_file_inside_regex", "any_file_inside_contains", "size_gte",
                       "any_file_inside_contains_strict", "any_file_inside_size_gte",
                       "any_file_inside_size_lte"}
        \/ f.kind = "has_episodes" /\ f.value
        \/ f.kind \in {"and", "or"} /\ \A k \in DOMAIN f.value : grows[f.value[k]]
  IN grows[c]

\* An item that a directory shows for what is in it stays there when more comes
\* in, file by file in whatever order crawls see them; the sum of the sizes must
\* fit a u64 for that.
MoreIsNeverLess ==
  [][/\ Len(item'.descendants) > Len(item.descendants)
     /\ TrueSize(item') < Width
     => \A c \in Conditions : Growing(c) /\ Matches(c, item) => Matches(c, item')]_item
=============================================================================
