------------------------------- MODULE Catalog -------------------------------
(***************************************************************************)
(* What the index promises, whatever tasks drive it (Index::refresh,       *)
(* Index::delete_item, Index::new): a catalogue with one copy that is      *)
(* served and one copy on disk, updated write-ahead by one draft at a      *)
(* time.  A draft is based on the copy served when it is made, it is       *)
(* stored before it is served, and a restart serves the stored copy.  A    *)
(* draft may be dropped, before or after it was stored.  A draft dropped   *)
(* while its write was in progress is an orphan: the write may still land. *)
(***************************************************************************)
EXTENDS Naturals

CONSTANTS
  Contents,   \* what a version can hold
  MaxGen      \* the last generation number, where counting stops

ASSUME GenAssumption == MaxGen \in Nat \ {0}

VARIABLES
  served,     \* the version requests are answered from
  stored,     \* the version on disk
  draft,      \* the version being stored, NoDraft if there is none
  orphans     \* dropped drafts whose write may still land

catalogVars == <<served, stored, draft, orphans>>

Version == [gen: 0..MaxGen, resources: Contents]
Draft == [stage: {"prepared", "stored"}, version: Version]
NoDraft == [stage |-> "none"]

\* saturating_add(1).
Succ(g) == IF g < MaxGen THEN g + 1 ELSE g

CatalogTypeOK ==
  /\ served \in Version
  /\ stored \in Version
  /\ draft \in Draft \cup {NoDraft}
  /\ orphans \subseteq Version

CatalogInit ==
  /\ served \in Version
  /\ served.gen = 0
  /\ stored = served
  /\ draft = NoDraft
  /\ orphans = {}

\* mutant: the generation is counted from the copy on disk
PrepareFromStored ==
  /\ draft = NoDraft
  /\ draft' \in Draft
  /\ draft'.stage = "prepared"
  /\ draft'.version.gen = Succ(stored.gen)
  /\ UNCHANGED <<served, stored, orphans>>

\* A new version is made from the served one.
Prepare ==
  /\ draft = NoDraft
  /\ draft' \in Draft
  /\ draft'.stage = "prepared"
  /\ draft'.version.gen = Succ(served.gen)
  /\ UNCHANGED <<served, stored, orphans>>

StoreDraft ==
  /\ draft.stage = "prepared"
  /\ stored' = draft.version
  /\ draft' = [stage |-> "stored", version |-> draft.version]
  /\ UNCHANGED <<served, orphans>>

Serve ==
  /\ draft.stage = "stored"
  /\ served' = draft.version
  /\ draft' = NoDraft
  /\ UNCHANGED <<stored, orphans>>

\* The write failed, or its result is not wanted any more.
Drop ==
  /\ draft # NoDraft
  /\ draft' = NoDraft
  /\ UNCHANGED <<served, stored, orphans>>

Orphan ==
  /\ draft.stage = "prepared"
  /\ orphans' = orphans \cup {draft.version}
  /\ draft' = NoDraft
  /\ UNCHANGED <<served, stored>>

\* Equal orphans are one element of the set, and may land more than once.
OrphanLands ==
  \E v \in orphans :
    /\ stored' = v
    /\ orphans' \in {orphans, orphans \ {v}}
    /\ UNCHANGED <<served, draft>>

OrphanFails ==
  \E v \in orphans :
    /\ orphans' = orphans \ {v}
    /\ UNCHANGED <<served, stored, draft>>

Restart ==
  /\ served' = stored
  /\ draft' = NoDraft
  /\ orphans' = {}
  /\ UNCHANGED stored

CatalogNext ==
  \/ Prepare \/ StoreDraft \/ Serve \/ Drop
  \/ Orphan \/ OrphanLands \/ OrphanFails \/ Restart

CatalogSpec == CatalogInit /\ [][CatalogNext]_catalogVars

-----------------------------------------------------------------------------
\* The disk is never more than one update ahead of what is served, not even
\* after writes landed late: a restart brings back at most one update that was
\* given up or whose answer was lost.
AtMostOneAhead == stored.gen <= Succ(served.gen)

\* What is served goes back in time only by a restart.
ServedAdvances == [][served'.gen < served.gen => served' = stored]_catalogVars
=============================================================================
