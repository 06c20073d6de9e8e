----------------------------- MODULE Classifier ------------------------------
(***************************************************************************)
(* The classifier (filter.rs) and the tree it builds out of a library,     *)
(* edited by Index::delete_item between two builds.  What a filter says of *)
(* an item is the constant Accepts.                                        *)
(***************************************************************************)
EXTENDS Tree, Integers, SequencesExt

CONSTANTS
  Library,      \* the items upstream may hold, in all their versions
  Directories,  \* the directories of the configuration
  Accepts,      \* directory name -> the items its filters accept
  Clean,        \* clean_name: name -> the segment it becomes
  Alphabet      \* the strings sorted by, in order

VARIABLES
  built,        \* the items of the last refresh, in the order they arrived
  gone,         \* ids of those deleted since
  tree          \* the tree being served
cvars == <<built, gone, tree>>

\* A descendant is [path, coll, size], its path relative to the item.
ASSUME LibraryAssumption ==
  /\ IsFiniteSet(Ids)
  /\ \A x \in Library :
       /\ x.id \in Ids /\ x.coll \in BOOLEAN
       /\ x.descendants \in Seq([path: Seq(STRING), coll: BOOLEAN, size: Nat])
       /\ ~x.coll => x.descendants = <<>>
       /\ \A j, k \in DOMAIN x.descendants :
            x.descendants[j].path = x.descendants[k].path => j = k
       /\ \A k \in DOMAIN x.descendants :
            LET p == x.descendants[k].path
            IN /\ p # Root
               /\ Len(p) > 1 => \E j \in DOMAIN x.descendants :
                    x.descendants[j].path = Parent(p) /\ x.descendants[j].coll

-----------------------------------------------------------------------------
(* Classifier::compile.                                                    *)

Rank(s) == CHOOSE k \in DOMAIN Alphabet : Alphabet[k] = s

Group(d) == IF d.group = None THEN "__directory__" \o d.name ELSE d.group

\* mutant: group_order is not looked at
SortsByName(d, e) ==
  \/ Rank(Group(d)) < Rank(Group(e))
  \/ Group(d) = Group(e) /\ Rank(Clean[d.name]) < Rank(Clean[e.name])

SortsBefore(d, e) ==
  \/ Rank(Group(d)) < Rank(Group(e))
  \/ /\ Group(d) = Group(e)
     /\ \/ d.order < e.order
        \/ d.order = e.order /\ Rank(Clean[d.name]) < Rank(Clean[e.name])

\* Two directories whose names normalize alike are refused.
Compiles == \A d, e \in Directories : Clean[d.name] = Clean[e.name] => d = e

ASSUME ConfigAssumption ==
  /\ IsFiniteSet(Directories)
  /\ \A d \in Directories : /\ d.order \in Int /\ d.biggest \in BOOLEAN
                            /\ d.gte \in Nat /\ d.lte \in Nat
  /\ Compiles

ASSUME AlphabetAssumption ==
  /\ Alphabet \in Seq(STRING)
  /\ \A d \in Directories : {Group(d), Clean[d.name]} \subseteq Range(Alphabet)

Sorted == CHOOSE s \in [1..Cardinality(Directories) -> Directories] :
            /\ Range(s) = Directories
            /\ \A j, k \in DOMAIN s : j < k => SortsBefore(s[j], s[k])

-----------------------------------------------------------------------------
(* add_item.                                                               *)

CategoryPath(d) == <<Clean[d.name]>>

\* mutant: the name is taken whether it is free or not
UniqueNameAssumed(t, parent, desired, id) == desired

Digested(name, id) == name \o "~" \o id

\* Eight digits of SHA-256 tell the items apart, and from all other names.
ASSUME DigestAssumption ==
  \A x, y \in Library :
    LET digested == Digested(Clean[x.name], x.id)
    IN digested # Clean[y.name]
       /\ (digested = Digested(Clean[y.name], y.id) => x.id = y.id)

\* A name that is taken gets a digest of the item's id.
UniqueName(t, parent, desired, id) ==
  IF Append(parent, desired) \in DOMAIN t.resources THEN Digested(desired, id)
  ELSE desired

Fits(d, r) == d.gte <= r.size /\ r.size <= d.lte

Files(x) == {k \in DOMAIN x.descendants : ~x.descendants[k].coll}

\* max_by_key: the last of the biggest.
Biggest(x, files) ==
  {k \in files : \A j \in files :
     \/ x.descendants[j].size < x.descendants[k].size
     \/ x.descendants[j].size = x.descendants[k].size /\ j <= k}

\* mutant: the size limits come after the choice of the biggest file
VisibleFilesUnlimited(d, x) ==
  {k \in IF d.biggest THEN Biggest(x, Files(x)) ELSE Files(x) : Fits(d, x.descendants[k])}

\* The files within the size limits, or the last of the biggest of them.
VisibleFiles(d, x) ==
  LET files == {k \in Files(x) : Fits(d, x.descendants[k])}
  IN IF d.biggest THEN Biggest(x, files) ELSE files

\* The visible files and the folders they are in, down to below the item, as
\* far as the listing has them.
Selected(d, x) ==
  {k \in DOMAIN x.descendants :
     \E f \in VisibleFiles(d, x) : IsPrefix(x.descendants[k].path, x.descendants[f].path)}

AddItem(t, d, x) ==
  LET item == Append(CategoryPath(d),
                     UniqueName(t, CategoryPath(d), Clean[x.name], x.id))
      top == [root |-> x.id, below |-> Root, coll |-> x.coll, size |-> x.size]
      Shown(k) == [root |-> x.id, below |-> x.descendants[k].path,
                   coll |-> x.descendants[k].coll, size |-> x.descendants[k].size]
      At(k) == item \o x.descendants[k].path
  IN InsertAll(t,
       [p \in {item} \cup {At(k) : k \in Selected(d, x)} |->
          IF p = item THEN top ELSE Shown(CHOOSE k \in Selected(d, x) : At(k) = p)])

-----------------------------------------------------------------------------
(* build_snapshot.                                                         *)

\* The tree with the categories of the configuration, all empty.
Categories ==
  InsertAll(EmptyTree, [p \in {CategoryPath(d) : d \in Directories} |-> Directory])

\* Put x in the directories in their order, except where its group is used.
PlaceUsing(t, x, groups) ==
  LET placed[k \in 0..Len(Sorted)] ==
        IF k = 0 THEN [used |-> groups, tree |-> t]
        ELSE LET s == placed[k - 1]
                 d == Sorted[k]
             IN IF Group(d) \in s.used \/ x \notin Accepts[d.name] THEN s
                ELSE [used |-> s.used \cup {Group(d)}, tree |-> AddItem(s.tree, d, x)]
  IN placed[Len(Sorted)].tree

\* mutant: the groups used are not those of this item
PlaceSharingGroups(t, x) ==
  PlaceUsing(t, x, {Group(d) : d \in {e \in Directories : Listed(t, CategoryPath(e)) # {}}})

\* One item goes to the first directory of each group that accepts it.
Place(t, x) == PlaceUsing(t, x, {})

BuildSnapshot(items) ==
  LET build[n \in 0..Len(items)] ==
        IF n = 0 THEN Categories ELSE Place(build[n - 1], items[n])
  IN build[Len(items)]

-----------------------------------------------------------------------------
(* Index::changed_roots.                                                   *)

Under(t, c) == {p \in DOMAIN t.resources : p # Root /\ <<p[1]>> = c}

\* mutant: only what is new is looked at
ChangedRootsForward(prev, new) ==
  {c \in Listed(prev, Root) \cup Listed(new, Root) :
     \E p \in Under(new, c) : p \notin DOMAIN prev.resources
                              \/ prev.resources[p] # new.resources[p]}

ChangedRoots(prev, new) ==
  {c \in Listed(prev, Root) \cup Listed(new, Root) :
     \/ \E p \in Under(prev, c) : p \notin DOMAIN new.resources
                                  \/ new.resources[p] # prev.resources[p]
     \/ \E p \in Under(new, c) : p \notin DOMAIN prev.resources
                                 \/ prev.resources[p] # new.resources[p]}

-----------------------------------------------------------------------------
(* The tree from refresh to refresh.                                       *)

\* What upstream may answer: at most one version of each item, in the order
\* in which the crawls finish.
ItemLists ==
  {s \in UNION {[1..n -> Library] : n \in 0..Cardinality(Ids)} :
     \A j, k \in DOMAIN s : s[j].id = s[k].id => j = k}

Init ==
  /\ built = <<>>
  /\ gone = {}
  /\ tree = EmptyTree

Refresh ==
  \E items \in ItemLists :
    /\ built' = items
    /\ gone' = {}
    /\ tree' = BuildSnapshot(items)

Delete ==
  \E i \in Ids :
    /\ Aliases(tree, i) # {}
    /\ gone' = gone \cup {i}
    /\ tree' = RemoveItem(tree, i)
    /\ UNCHANGED built

Next == Refresh \/ Delete

Spec == Init /\ [][Next]_cvars

-----------------------------------------------------------------------------
(* Properties.                                                             *)

Present == {built[k] : k \in {j \in DOMAIN built : built[j].id \notin gone}}

\* The aliases of x in the category of d, without what is below them.
Tops(d, x) ==
  {p \in Aliases(tree, x.id) : Len(p) = 2 /\ Parent(p) = CategoryPath(d)}

\* No sequence of refreshes and deletions leaves a dangling or an unreachable
\* entry: what GET can name PROPFIND can find, and nothing else.
TreeWellFormed == WellFormed(tree)

\* Every item present has one alias in the first directory of each group that
\* accepts it, by group_order and name, and none elsewhere, also when several
\* items go by the same name.
ShownWhereItBelongs ==
  tree # EmptyTree =>
    \A x \in Present, d \in Directories :
      Cardinality(Tops(d, x)) =
        IF /\ x \in Accepts[d.name]
           /\ ~ \E e \in Directories : /\ Group(e) = Group(d)
                                       /\ SortsBefore(e, d)
                                       /\ x \in Accepts[e.name]
        THEN 1 ELSE 0

\* An alias of a folder shows the files within the size limits, or one of the
\* biggest of them, and a folder only on the way to one.
ShowsSelectedFiles ==
  \A x \in Present, d \in Directories : \A top \in Tops(d, x) : x.coll =>
    LET below == {p \in Aliases(tree, x.id) : Len(p) > 2 /\ SubSeq(p, 1, 2) = top}
        files == {p \in below : ~tree.resources[p].coll}
        fits == {x.descendants[k] : k \in {j \in DOMAIN x.descendants :
                   /\ ~x.descendants[j].coll
                   /\ x.descendants[j].size \in d.gte..d.lte}}
        Source(p) == CHOOSE r \in fits : r.path = tree.resources[p].below
    IN /\ \A p \in files : /\ tree.resources[p].below \in {r.path : r \in fits}
                           /\ p = top \o tree.resources[p].below
                           /\ tree.resources[p].size = Source(p).size
       /\ IF d.biggest
          THEN /\ fits # {} => Cardinality(files) = 1
               /\ \A p \in files : \A r \in fits : r.size <= Source(p).size
          ELSE Cardinality(files) = Cardinality(fits)
       /\ \A p \in below \ files : \E f \in files : IsPrefix(p, f)

DistinctNames(items) ==
  \A j, k \in DOMAIN items : Clean[items[j].name] = Clean[items[k].name] => j = k

\* Deleting items from the tree leaves what a refresh without those items would
\* build, if no two items of the last refresh go by the same name.
DeleteMatchesRebuild ==
  tree # EmptyTree /\ DistinctNames(built) =>
    \A items \in ItemLists : ToSet(items) = Present => tree = BuildSnapshot(items)

\* The order in which crawls finish does not show in the tree, if no two items
\* go by the same name.
ArrivalOrderIrrelevant ==
  tree # EmptyTree /\ gone = {} /\ DistinctNames(built) =>
    \A items \in ItemLists :
      ToSet(items) = ToSet(built) => BuildSnapshot(items) = tree

\* What a client finds below c: the entries, and the lists that name them.
View(t, c) ==
  [entries |-> Restrict(t.resources, {p \in DOMAIN t.resources : IsPrefix(c, p)}),
   lists |-> Restrict(t.children, {p \in DOMAIN t.children : IsPrefix(c, p)})]

\* A refresh tells the update command exactly the directories in which a client
\* finds, after it, something else than before it, be it an entry or a list: no
\* directory is missed, and none is told in vain.  (A deletion tells none.)
ToldOfChanges ==
  [][Refresh => ChangedRoots(tree, tree') =
                  {c \in {CategoryPath(d) : d \in Directories} :
                     View(tree, c) # View(tree', c)}]_cvars
=============================================================================
