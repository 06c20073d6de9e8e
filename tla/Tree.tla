-------------------------------- MODULE Tree ---------------------------------
(***************************************************************************)
(* The virtual tree a snapshot holds (model.rs) and the two edits made to  *)
(* it: insert (filter.rs), by which the classifier builds it, and the      *)
(* removal of one item by Index::delete_item.  A path is the sequence of   *)
(* its segments, the root being <<>>.  The children of a collection are a  *)
(* set: build_snapshot sorts them and drops duplicates.                    *)
(***************************************************************************)
EXTENDS Naturals, Sequences

CONSTANTS
  Ids,        \* ids of source items
  None        \* Option::None

ASSUME NoneAssumption == None \notin Ids

Root == <<>>
Parent(p) == SubSeq(p, 1, Len(p) - 1)

\* A virtual resource: the item it belongs to and its metadata.  The source
\* path is that of the item followed by below.
Directory == [root |-> None, below |-> Root, coll |-> TRUE, size |-> 0]

Listed(t, p) == IF p \in DOMAIN t.children THEN t.children[p] ELSE {}

EmptyTree == [resources |-> [p \in {Root} |-> Directory],
              children |-> [p \in {Root} |-> {}]]

\* mutant: a collection gets no entry of its own
InsertLeaves(t, new) ==
  [resources |-> [p \in DOMAIN t.resources \cup DOMAIN new |->
                    IF p \in DOMAIN new THEN new[p] ELSE t.resources[p]],
   children |-> [p \in DOMAIN t.children \cup {Parent(q) : q \in DOMAIN new} |->
                   Listed(t, p) \cup {q \in DOMAIN new : Parent(q) = p}]]

\* Insert the resources new, path -> resource.  Their order does not show: the
\* resources are a map, and so are the lists, which a parent and a collection
\* get if they have none.
InsertAll(t, new) ==
  [resources |-> [p \in DOMAIN t.resources \cup DOMAIN new |->
                    IF p \in DOMAIN new THEN new[p] ELSE t.resources[p]],
   children |-> [p \in DOMAIN t.children \cup {Parent(q) : q \in DOMAIN new}
                         \cup {q \in DOMAIN new : new[q].coll} |->
                   Listed(t, p) \cup {q \in DOMAIN new : Parent(q) = p}]]

Insert(t, p, r) == InsertAll(t, [q \in {p} |-> r])

Aliases(t, i) == {p \in DOMAIN t.resources : t.resources[p].root = i}

\* mutant: the removed paths stay in the lists of their parents
RemoveUnlisted(t, i) ==
  [resources |-> [p \in DOMAIN t.resources \ Aliases(t, i) |-> t.resources[p]],
   children |-> [p \in DOMAIN t.children \ Aliases(t, i) |-> t.children[p]]]

\* Remove every alias of item i and all below it.
RemoveItem(t, i) ==
  [resources |-> [p \in DOMAIN t.resources \ Aliases(t, i) |-> t.resources[p]],
   children |-> [p \in DOMAIN t.children \ Aliases(t, i) |->
                   t.children[p] \ Aliases(t, i)]]

\* What PROPFIND with Depth 1 lists below p.
ChildrenOf(t, p) == Listed(t, p) \cap DOMAIN t.resources

-----------------------------------------------------------------------------
\* The root is there, and what is not the root is listed by its parent, a
\* collection, which shows it under the same item.
Connected(t) ==
  /\ Root \in DOMAIN t.resources
  /\ t.resources[Root].root = None
  /\ \A p \in DOMAIN t.resources \ {Root} :
       /\ Parent(p) \in DOMAIN t.resources
       /\ t.resources[Parent(p)].coll
       /\ p \in Listed(t, Parent(p))
       /\ t.resources[Parent(p)].root \in {None, t.resources[p].root}

\* The lists are those of the collections, and name only what is there.
ListsExact(t) ==
  /\ DOMAIN t.children = {p \in DOMAIN t.resources : t.resources[p].coll}
  /\ \A p \in DOMAIN t.children : \A c \in t.children[p] :
       c \in DOMAIN t.resources /\ c # Root /\ Parent(c) = p

WellFormed(t) == Connected(t) /\ ListsExact(t)

\* What the server goes by: all this, paths of strings, and the directories of the
\* configuration at the top, which belong to no item.
Servable(t) ==
  /\ DOMAIN t = {"resources", "children"}
  /\ WellFormed(t)
  /\ t.resources[Root].coll
  /\ \A p \in DOMAIN t.resources : /\ p \in Seq(STRING)
                                   /\ t.resources[p].coll \in BOOLEAN
                                   /\ t.resources[p].root \in Ids \cup {None}
  /\ \A p \in Listed(t, Root) : t.resources[p].root = None
=============================================================================
