---------------------------- MODULE CatalogProofs ----------------------------
(* Proofs about the abstract catalogue, for any contents and any MaxGen.   *)
EXTENDS Catalog, TLAPS

\* Every version in play is at most one update ahead of the served one, and a
\* draft is exactly one ahead.
AheadInv ==
  /\ CatalogTypeOK
  /\ AtMostOneAhead
  /\ draft # NoDraft => draft.version.gen = Succ(served.gen)
  /\ \A v \in orphans : v.gen <= Succ(served.gen)

\* Counting stops at MaxGen and never runs backwards.
LEMMA SuccFacts ==
  ASSUME NEW g \in 0..MaxGen
  PROVE  Succ(g) \in 0..MaxGen /\ g <= Succ(g) /\ Succ(g) <= Succ(Succ(g))
BY GenAssumption DEF Succ

LEMMA AheadStart == CatalogInit => AheadInv
<1> SUFFICES ASSUME CatalogInit PROVE AheadInv
  OBVIOUS
<1>1. served.gen \in 0..MaxGen /\ stored.gen = served.gen
  BY DEF CatalogInit, Version
<1> QED
  BY <1>1, SuccFacts, GenAssumption
     DEF CatalogInit, AheadInv, CatalogTypeOK, AtMostOneAhead

LEMMA AheadStep == AheadInv /\ [CatalogNext]_catalogVars => AheadInv'
<1> SUFFICES ASSUME AheadInv, [CatalogNext]_catalogVars PROVE AheadInv'
  OBVIOUS
<1> USE DEF AheadInv, CatalogTypeOK, AtMostOneAhead
<1>1. /\ served.gen \in 0..MaxGen /\ stored.gen \in 0..MaxGen
      /\ \A v \in orphans : v.gen \in 0..MaxGen
      /\ draft # NoDraft => /\ draft \in Draft
                            /\ draft.version \in Version
                            /\ draft.version.gen \in 0..MaxGen
  BY DEF Version, Draft
<1>2. \A x \in Draft : x # NoDraft
  BY DEF Draft, NoDraft
<1>3. CASE Prepare
  BY <1>2, <1>3 DEF Prepare
<1>4. ASSUME draft.stage = "prepared" \/ draft.stage = "stored"
      PROVE  draft # NoDraft
  BY <1>4 DEF NoDraft
<1>5. CASE StoreDraft
  <2>1. draft' \in Draft /\ draft'.version = draft.version
    BY <1>1, <1>4, <1>5 DEF StoreDraft, Draft
  <2>2. stored' \in Version /\ stored'.gen = Succ(served.gen)
    BY <1>1, <1>4, <1>5 DEF StoreDraft
  <2>3. Succ(served.gen) \in 0..MaxGen
    BY <1>1, SuccFacts
  <2>4. served' = served /\ orphans' = orphans
    BY <1>5 DEF StoreDraft
  <2>5. stored'.gen <= Succ(served'.gen)
    BY <2>2, <2>3, <2>4
  <2>6. draft'.version.gen = Succ(served'.gen)
    <3>1. draft.version.gen = Succ(served.gen)
      BY <1>4, <1>5 DEF StoreDraft
    <3> QED
      BY <2>1, <2>4, <3>1
  <2>7. CatalogTypeOK'
    BY <2>1, <2>2, <2>4
  <2>8. \A v \in orphans' : v.gen <= Succ(served'.gen)
    BY <2>4
  <2> QED
    BY <2>5, <2>6, <2>7, <2>8
<1>6. CASE Serve
  <2>1. served'.gen = Succ(served.gen) /\ served' \in Version
    BY <1>1, <1>4, <1>6 DEF Serve
  <2>2. Succ(served.gen) \in 0..MaxGen /\ Succ(served.gen) <= Succ(served'.gen)
    BY <1>1, <2>1, SuccFacts
  <2>3. stored' = stored /\ orphans' = orphans /\ draft' = NoDraft
    BY <1>6 DEF Serve
  <2>4. \A g \in 0..MaxGen : g <= Succ(served.gen) => g <= Succ(served'.gen)
    <3>1. Succ(served'.gen) \in 0..MaxGen
      BY <2>1, <2>2, SuccFacts
    <3> QED
      BY <2>2, <3>1
  <2>5. stored'.gen <= Succ(served'.gen)
    BY <1>1, <2>3, <2>4
  <2>6. \A v \in orphans' : v.gen <= Succ(served'.gen)
    BY <1>1, <2>3, <2>4
  <2> QED
    BY <2>1, <2>3, <2>5, <2>6
<1>7. CASE Drop
  BY <1>7 DEF Drop
<1>8. CASE Orphan
  BY <1>1, <1>4, <1>8 DEF Orphan
<1>9. CASE OrphanLands
  BY <1>9 DEF OrphanLands
<1>10. CASE OrphanFails
  BY <1>10 DEF OrphanFails
<1>11. CASE Restart
  BY <1>1, <1>11, SuccFacts DEF Restart
<1>12. CASE UNCHANGED catalogVars
  BY <1>12 DEF catalogVars
<1> QED
  BY <1>3, <1>5, <1>6, <1>7, <1>8, <1>9, <1>10, <1>11, <1>12 DEF CatalogNext

\* The stored copy is never more than one update ahead of the served one.
THEOREM StoredAhead == CatalogSpec => []AtMostOneAhead
<1>1. AheadInv => AtMostOneAhead
  BY DEF AheadInv
<1> QED
  BY <1>1, AheadStart, AheadStep, PTL DEF CatalogSpec

LEMMA AdvanceStep ==
  AheadInv /\ CatalogNext => (served'.gen < served.gen => served' = stored)
<1> SUFFICES ASSUME AheadInv, CatalogNext, served' # stored
             PROVE  ~(served'.gen < served.gen)
  OBVIOUS
<1>1. served.gen \in 0..MaxGen
  BY DEF AheadInv, CatalogTypeOK, Version
<1>2. CASE Serve
  <2>1. served'.gen = Succ(served.gen)
    <3>1. draft # NoDraft
      BY <1>2 DEF Serve, NoDraft
    <3> QED
      BY <1>2, <3>1 DEF Serve, AheadInv
  <2> QED
    BY <1>1, <2>1, SuccFacts
<1>3. CASE UNCHANGED served
  BY <1>1, <1>3
<1> QED
  BY <1>2, <1>3 DEF CatalogNext, Prepare, StoreDraft, Drop, Orphan,
     OrphanLands, OrphanFails, Restart

\* What is served goes back only by a restart, to what was stored.
THEOREM ServedOnlyAdvances == CatalogSpec => ServedAdvances
<1>1. AheadInv /\ [CatalogNext]_catalogVars
        => [served'.gen < served.gen => served' = stored]_catalogVars
  BY AdvanceStep
<1> QED
  BY <1>1, AheadStart, AheadStep, PTL DEF CatalogSpec, ServedAdvances
=============================================================================
