----------------------------- MODULE CrawlProofs -----------------------------
(***************************************************************************)
(* Proofs about discover and crawl_item for a library of any size and any  *)
(* number of changes: types, that what a scan returns hangs together, and  *)
(* that it misses nothing that was there all the time and makes nothing    *)
(* up.  And about parse_multistatus for documents of any length: it reads  *)
(* what they say.                                                          *)
(***************************************************************************)
EXTENDS Crawl, Multistatus, PathLemmas, FiniteSetTheorems

-----------------------------------------------------------------------------
(* Paths.                                                                  *)

\* Upstream takes the path of every request for what it is: no name reads as
\* percent-encoded text.
PlainNames == \A n \in Names : Unescaped[n] = n

LEMMA PlacesAreSequences ==
  /\ Base \in Seq(STRING)
  /\ \A p \in Places : p \in Seq(STRING) /\ p # <<>>
  /\ \A p \in Places : Front(p) \in Places \cup {Base}
<1>1. Base \in Seq(STRING) /\ Base = <<>>
  BY DEF Base
<1> QED
  BY <1>1, PlacesAssumption

LEMMA RequestedPlain ==
  ASSUME PlainNames, NEW p \in Places \cup {Base}
  PROVE  Requested(p) = p
<1>1. CASE p \in Places
  <2>1. p \in Seq(STRING)
    BY <1>1, PlacesAreSequences
  <2>2. \A k \in DOMAIN p : p[k] \in Names
    BY <1>1 DEF Names, ToSet
  <2>3. \A k \in DOMAIN p : Unescaped[p[k]] = p[k]
    BY <2>2 DEF PlainNames
  <2>4. p = [k \in DOMAIN p |-> p[k]]
    BY <2>1
  <2> QED
    BY <2>3, <2>4 DEF Requested
<1>2. CASE p = Base
  BY <1>2 DEF Requested, Base
<1> QED
  BY <1>1, <1>2

\* What is under a path goes, what is not stays as it is.
LEMMA WithoutIs ==
  ASSUME NEW lib, NEW p
  PROVE  /\ DOMAIN Without(lib, p) = DOMAIN lib \ Under(p)
         /\ \A q \in DOMAIN lib \ Under(p) : Without(lib, p)[q] = lib[q]
BY DEF Without, Restrict

LEMMA UnderClosed ==
  ASSUME NEW S, NEW p \in Seq(S), NEW q \in Places, q \in Seq(S),
         Front(q) \in Under(p)
  PROVE  q \in Under(p)
<1>1. Front(q) \in Places /\ IsPrefix(p, Front(q)) /\ q # <<>>
  BY PlacesAreSequences DEF Under
<1> QED
  BY <1>1, PrefixOfFront DEF Under

-----------------------------------------------------------------------------
(* Listings.                                                               *)

LEMMA AtIs ==
  ASSUME NEW lib, lib \in [DOMAIN lib -> Entry],
         DOMAIN lib \subseteq Places \cup {Base}, NEW p \in DOMAIN lib
  PROVE  /\ At(lib, p) \in Resource
         /\ At(lib, p).path = p
         /\ At(lib, p).coll = lib[p].coll
         /\ At(lib, p).version = lib[p].version
BY DEF Entry, Resource, At

LEMMA ResourcesTyped ==
  ASSUME NEW lib, lib \in [DOMAIN lib -> Entry],
         DOMAIN lib \subseteq Places \cup {Base}
  PROVE  Resources(lib) \subseteq Resource
BY AtIs DEF Resources

\* A listing names the collection itself and what is directly in it, each path
\* once; it is finite.
LEMMA ListingIs ==
  ASSUME TypeOK, NEW p
  PROVE  /\ Listing(p) \subseteq Resource
         /\ IsFiniteSet(Listing(p))
         /\ \A r \in Listing(p) :
              /\ r.path \in DOMAIN library /\ r = At(library, r.path)
              /\ r.path = p \/ (r.path # Base /\ Front(r.path) = p)
         /\ \A q \in DOMAIN library \ {Base} :
              Front(q) = p => At(library, q) \in Listing(p)
<1>1. \A r \in Listing(p) :
        /\ r \in Resource
        /\ r.path \in DOMAIN library /\ r = At(library, r.path)
        /\ r.path = p \/ (r.path # Base /\ Front(r.path) = p)
  BY AtIs DEF Listing, TypeOK
<1>2. IsFiniteSet(Listing(p))
  <2> DEFINE f == [r \in Listing(p) |-> r.path]
  <2>1. f \in [Listing(p) -> Places \cup {Base}]
    BY <1>1 DEF TypeOK
  <2>2. \A r, s \in Listing(p) : f[r] = f[s] => r = s
    BY <1>1
  <2> HIDE DEF f
  <2>3. f \in Injection(Listing(p), Places \cup {Base})
    BY <2>1, <2>2 DEF Injection, IsInjective
  <2>4. IsFiniteSet(Places \cup {Base})
    BY PlacesAssumption, FS_AddElement
  <2> QED
    BY <2>3, <2>4, FS_Injection
<1>3. \A q \in DOMAIN library \ {Base} :
        Front(q) = p => At(library, q) \in Listing(p)
  BY DEF Listing
<1> QED
  BY <1>1, <1>2, <1>3

\* An order of a finite set has all its elements once.
LEMMA OrderIs ==
  ASSUME NEW S, IsFiniteSet(S), NEW order \in SetToSeqs(S)
  PROVE  /\ order \in Seq(S)
         /\ \A k \in DOMAIN order : order[k] \in S
         /\ \A j, k \in DOMAIN order : order[j] = order[k] => j = k
         /\ \A r \in S : \E k \in DOMAIN order : order[k] = r
<1> DEFINE n == Cardinality(S)
<1>1. n \in Nat
  BY FS_CardinalityType
<1>2. /\ order \in [1..n -> S]
      /\ \A i, j \in 1..n : i # j => order[i] # order[j]
  BY DEF SetToSeqs
<1> HIDE DEF n
<1>3. order \in Injection(1..n, S)
  BY <1>2 DEF Injection, IsInjective
<1>4. Cardinality(1..n) = n
  BY <1>1, FS_Interval
<1>5. order \in Surjection(1..n, S)
  BY <1>3, <1>4, FS_Injection DEF n
<1>6. order \in Seq(S)
  BY <1>1, <1>2
<1>7. \A r \in S : \E k \in 1..n : order[k] = r
  BY <1>5 DEF Surjection
<1> QED
  BY <1>2, <1>6, <1>7

\* The recursion of Collections has a solution for every order.
LEMMA PushedExists ==
  ASSUME NEW order, Len(order) \in Nat
  PROVE  \E f : f = [n \in 0..Len(order) |->
                       IF n = 0 THEN <<>>
                       ELSE IF order[n].coll THEN Append(f[n - 1], order[n].path)
                       ELSE f[n - 1]]
<1> DEFINE Next1(n, s) == IF order[n].coll THEN Append(s, order[n].path) ELSE s
           Solves(f, n) ==
             /\ f = [m \in 0..n |-> f[m]]
             /\ \A m \in 0..n : f[m] = IF m = 0 THEN <<>> ELSE Next1(m, f[m - 1])
           T == {n \in Nat : \E f : Solves(f, n)}
<1> HIDE DEF Next1
<1>1. 0 \in T
  <2>1. Solves([m \in 0..0 |-> <<>>], 0)
    OBVIOUS
  <2> HIDE DEF Solves
  <2> QED
    BY <2>1
<1>2. ASSUME NEW n \in Nat, n \in T
      PROVE  n + 1 \in T
  <2>1. PICK f : Solves(f, n)
    BY <1>2
  <2> DEFINE g == [m \in 0..(n + 1) |-> IF m = n + 1 THEN Next1(n + 1, f[n]) ELSE f[m]]
  <2>2. g = [m \in 0..(n + 1) |-> g[m]]
    OBVIOUS
  <2>3. g[n + 1] = Next1(n + 1, g[n])
    OBVIOUS
  <2>4. ASSUME NEW m \in 0..n
        PROVE  g[m] = f[m] /\ (m # 0 => g[m - 1] = f[m - 1])
    OBVIOUS
  <2>5. ASSUME NEW m \in 0..(n + 1)
        PROVE  g[m] = IF m = 0 THEN <<>> ELSE Next1(m, g[m - 1])
    <3>1. CASE m = n + 1
      <4>1. m # 0 /\ m - 1 = n
        BY <3>1
      <4> HIDE DEF g
      <4> QED
        BY <2>3, <3>1, <4>1
    <3>2. CASE m \in 0..n
      <4> HIDE DEF g
      <4> QED
        BY <2>1, <2>4, <3>2
    <3> QED
      BY <3>1, <3>2
  <2>6. Solves(g, n + 1)
    <3> HIDE DEF g
    <3> QED
      BY <2>2, <2>5
  <2> HIDE DEF Solves, g
  <2> QED
    BY <2>6
<1>3. Len(order) \in T
  <2> HIDE DEF T
  <2> QED
    BY <1>1, <1>2, SetInduction
<1>4. PICK f : Solves(f, Len(order))
  BY <1>3
<1>5. f = [n \in 0..Len(order) |-> IF n = 0 THEN <<>> ELSE Next1(n, f[n - 1])]
  BY <1>4
<1> QED
  BY <1>5 DEF Next1

\* Collections has the path of each collection in the order, and each once if
\* the order has no path twice.
LEMMA CollectionsAre ==
  ASSUME NEW P, NEW order, Len(order) \in Nat, DOMAIN order = 1..Len(order),
         \A k \in DOMAIN order : order[k].path \in P,
         \A j, k \in DOMAIN order : order[j].path = order[k].path => j = k
  PROVE  /\ Collections(order) \in Seq(P)
         /\ \A m \in DOMAIN Collections(order) : \E k \in DOMAIN order :
              order[k].coll /\ order[k].path = Collections(order)[m]
         /\ \A k \in DOMAIN order : order[k].coll =>
              \E m \in DOMAIN Collections(order) : order[k].path = Collections(order)[m]
         /\ \A l, m \in DOMAIN Collections(order) :
              Collections(order)[l] = Collections(order)[m] => l = m
<1> DEFINE Pushed(f) == f = [n \in 0..Len(order) |->
                              IF n = 0 THEN <<>>
                              ELSE IF order[n].coll
                                   THEN Append(f[n - 1], order[n].path)
                              ELSE f[n - 1]]
           g == CHOOSE f : Pushed(f)
           Holds(n, s) ==
             /\ s \in Seq(P)
             /\ \A m \in DOMAIN s : \E k \in 1..n :
                  order[k].coll /\ order[k].path = s[m]
             /\ \A k \in 1..n : order[k].coll =>
                  \E m \in DOMAIN s : order[k].path = s[m]
             /\ \A l, m \in DOMAIN s : s[l] = s[m] => l = m
           T == {n \in Nat : n <= Len(order) => Holds(n, g[n])}
<1>1. Collections(order) = g[Len(order)]
  BY Zenon DEF Collections
<1>2. Pushed(g)
  <2>1. \E f : Pushed(f)
    BY PushedExists
  <2> HIDE DEF Pushed
  <2> QED
    BY <2>1
<1> HIDE DEF g
<1>3. ASSUME NEW n \in 0..Len(order)
      PROVE  g[n] = IF n = 0 THEN <<>>
                    ELSE IF order[n].coll THEN Append(g[n - 1], order[n].path)
                    ELSE g[n - 1]
  BY <1>2
<1> HIDE DEF Pushed
<1>4. 0 \in T
  <2>1. g[0] = <<>>
    BY <1>3
  <2>2. Holds(0, <<>>)
    OBVIOUS
  <2> QED
    BY <2>1, <2>2
<1>5. ASSUME NEW n \in Nat, n \in T
      PROVE  n + 1 \in T
  <2> SUFFICES ASSUME n + 1 <= Len(order)
               PROVE  Holds(n + 1, g[n + 1])
    OBVIOUS
  <2> DEFINE s == g[n]
             r == order[n + 1]
  <2>1. Holds(n, s)
    BY <1>5
  <2>2. n + 1 \in DOMAIN order /\ r.path \in P
    OBVIOUS
  <2>3. g[n + 1] = IF r.coll THEN Append(s, r.path) ELSE s
    <3>1. n + 1 \in 0..Len(order) /\ n + 1 # 0 /\ (n + 1) - 1 = n
      OBVIOUS
    <3> QED
      BY <1>3, <3>1
  <2>4. \A k \in 1..n : k \in DOMAIN order /\ order[k].path # r.path
    BY <2>2
  <2>5. 1..(n + 1) = 1..n \cup {n + 1}
    OBVIOUS
  <2> HIDE DEF s
  <2>6. CASE ~r.coll
    BY <2>1, <2>3, <2>5, <2>6
  <2>7. CASE r.coll
    <3> DEFINE t == Append(s, r.path)
    <3>1. /\ t \in Seq(P) /\ Len(t) = Len(s) + 1 /\ Len(s) \in Nat
          /\ DOMAIN s = 1..Len(s) /\ DOMAIN t = 1..Len(t)
          /\ \A m \in 1..Len(s) : t[m] = s[m]
          /\ t[Len(s) + 1] = r.path
      BY <2>1, <2>2, AppendProperties
    <3> HIDE DEF t
    <3>2. DOMAIN t = DOMAIN s \cup {Len(s) + 1} /\ Len(s) + 1 \notin DOMAIN s
      BY <3>1
    <3>3. \A m \in DOMAIN t : \E k \in 1..(n + 1) :
            order[k].coll /\ order[k].path = t[m]
      BY <2>1, <2>5, <2>7, <3>1, <3>2
    <3>4. \A k \in 1..(n + 1) : order[k].coll =>
            \E m \in DOMAIN t : order[k].path = t[m]
      BY <2>1, <2>5, <3>1, <3>2
    <3>5. \A m \in DOMAIN s : t[m] = s[m] /\ s[m] # r.path
      BY <2>1, <2>4, <3>1
    <3>6. \A l, m \in DOMAIN t : t[l] = t[m] => l = m
      BY <2>1, <3>1, <3>2, <3>5
    <3>7. g[n + 1] = t
      BY <2>3, <2>7 DEF t
    <3> QED
      BY <3>1, <3>3, <3>4, <3>6, <3>7
  <2> QED
    BY <2>6, <2>7
<1>6. Len(order) \in T
  <2> HIDE DEF T
  <2> QED
    BY <1>4, <1>5, SetInduction
<1>7. Holds(Len(order), g[Len(order)])
  BY <1>6
<1> DEFINE c == Collections(order)
<1>8. c = g[Len(order)]
  BY <1>1
<1> HIDE DEF c
<1>9. /\ c \in Seq(P)
      /\ \A m \in DOMAIN c : \E k \in DOMAIN order :
           order[k].coll /\ order[k].path = c[m]
      /\ \A k \in DOMAIN order : order[k].coll =>
           \E m \in DOMAIN c : order[k].path = c[m]
      /\ \A l, m \in DOMAIN c : c[l] = c[m] => l = m
  BY <1>7, <1>8
<1> QED
  BY <1>9 DEF c

-----------------------------------------------------------------------------
(* Types.                                                                  *)

\* Everything but the base is in a collection.
LibraryOK ==
  \A p \in DOMAIN library \ {Base} :
    Front(p) \in DOMAIN library /\ library[Front(p)].coll

LEMMA NoCrawls == DOMAIN <<>> = {} /\ <<>> \in [{} -> Crawling]
<1>1. DOMAIN <<>> = {}
  OBVIOUS
<1> QED
  BY <1>1

LEMMA CrawlInitTypes == Init => TypeOK /\ LibraryOK
<1> SUFFICES ASSUME Init PROVE TypeOK /\ LibraryOK
  OBVIOUS
<1>1. /\ Base \in DOMAIN library
      /\ library \in [DOMAIN library -> Entry]
      /\ DOMAIN library \subseteq Places \cup {Base}
      /\ LibraryOK
  <2>1. PICK P \in SUBSET Places :
          library \in [P \cup {Base} -> [coll: BOOLEAN, version: {0}]]
    BY DEF Init, Libraries
  <2>2. 0 \in 0..MaxChanges
    BY BoundsAssumption
  <2>3. [coll: BOOLEAN, version: {0}] \subseteq Entry
    BY <2>2 DEF Entry
  <2>4. LibraryOK
    BY DEF Init, Libraries, LibraryOK
  <2> QED
    BY <2>1, <2>3, <2>4
<1>2. 0 \in 0..MaxChanges /\ 0 \in 0..MaxFaults
  BY BoundsAssumption
<1> QED
  BY <1>1, <1>2, NoCrawls DEF Init, TypeOK

\* A change of the library.
LEMMA ChangeTypes ==
  ASSUME TypeOK, NEW lib, Change(lib),
         Base \in DOMAIN lib, lib \in [DOMAIN lib -> Entry],
         DOMAIN lib \subseteq Places \cup {Base}
  PROVE  TypeOK'
<1>1. Resources(lib) \subseteq Resource
  BY ResourcesTyped
<1>2. changes' \in 0..MaxChanges
  BY BoundsAssumption DEF Change, TypeOK
<1>3. always' \subseteq Resource /\ ever' \subseteq Resource
  BY <1>1 DEF Change, TypeOK
<1> QED
  BY <1>2, <1>3 DEF Change, TypeOK

LEMMA PutTypes ==
  ASSUME TypeOK, LibraryOK, Put
  PROVE  TypeOK' /\ LibraryOK'
<1>1. PICK p \in Places, kind \in BOOLEAN :
        /\ Front(p) \in DOMAIN library /\ library[Front(p)].coll
        /\ Change(With(Without(library, p), p,
                       [coll |-> kind, version |-> changes + 1]))
  BY DEF Put
<1> DEFINE old == Without(library, p)
           new == [coll |-> kind, version |-> changes + 1]
           lib == With(old, p, new)
<1>2. new \in Entry
  BY <1>1, BoundsAssumption DEF Change, TypeOK, Entry
<1>3. p \in Seq(STRING) /\ p # Base /\ p # <<>>
  BY PlacesAreSequences DEF Base
<1>4. /\ DOMAIN old = DOMAIN library \ Under(p)
      /\ \A q \in DOMAIN old : old[q] = library[q]
  BY WithoutIs
<1>5. /\ DOMAIN lib = DOMAIN old \cup {p}
      /\ lib[p] = new
      /\ \A q \in DOMAIN old : q # p => lib[q] = old[q]
  <2> HIDE DEF old, new
  <2> QED
    BY DEF With
<1>6. lib = [q \in DOMAIN lib |-> lib[q]]
  BY DEF With
<1>7. p \in Under(p) /\ Front(p) \notin Under(p) /\ Base \notin Under(p)
  <2>1. p \in Under(p)
    BY <1>3, PrefixReflexive DEF Under
  <2>2. Base \notin Under(p)
    BY PlacesAssumption DEF Under
  <2>3. ASSUME Front(p) \in Under(p)
        PROVE  FALSE
    <3>1. Front(p) \in Seq(STRING) /\ IsPrefix(p, Front(p))
      BY <1>3, <2>3, FrontIs DEF Under
    <3> QED
      BY <1>3, <3>1, PrefixOfFront
  <2> QED
    BY <2>1, <2>2, <2>3
<1>8. Change(lib)
  BY <1>1
<1> HIDE DEF lib, old, new
<1>9. /\ Base \in DOMAIN lib
      /\ DOMAIN lib \subseteq Places \cup {Base}
      /\ \A q \in DOMAIN lib : lib[q] \in Entry
  BY <1>2, <1>4, <1>5, <1>7 DEF TypeOK
<1>10. lib \in [DOMAIN lib -> Entry]
  BY <1>6, <1>9
<1>11. TypeOK'
  BY <1>8, <1>9, <1>10, ChangeTypes
<1>12. ASSUME NEW q \in DOMAIN lib \ {Base}
       PROVE  Front(q) \in DOMAIN lib /\ lib[Front(q)].coll
  <2>1. CASE q = p
    BY <1>1, <1>4, <1>5, <1>7, <2>1
  <2>2. CASE q # p
    <3>1. q \in DOMAIN library \ Under(p) /\ q \in Places /\ q \in Seq(STRING)
      BY <1>4, <1>5, <1>9, <2>2, PlacesAreSequences
    <3>2. Front(q) \in DOMAIN library /\ library[Front(q)].coll
      BY <1>12, <3>1 DEF LibraryOK
    <3>3. Front(q) \notin Under(p)
      BY <1>3, <3>1, UnderClosed
    <3> QED
      BY <1>4, <1>5, <1>7, <3>2, <3>3
  <2> QED
    BY <2>1, <2>2
<1>13. LibraryOK'
  BY <1>8, <1>12 DEF Change, LibraryOK
<1> QED
  BY <1>11, <1>13

LEMMA TouchTypes ==
  ASSUME TypeOK, LibraryOK, Touch
  PROVE  TypeOK' /\ LibraryOK'
<1>1. PICK p \in DOMAIN library \ {Base} :
        Change([library EXCEPT ![p].version = changes + 1])
  BY DEF Touch
<1> DEFINE lib == [library EXCEPT ![p].version = changes + 1]
<1>2. changes + 1 \in 0..MaxChanges
  BY <1>1, BoundsAssumption DEF Change, TypeOK
<1>3. /\ DOMAIN lib = DOMAIN library
      /\ lib \in [DOMAIN lib -> Entry]
      /\ \A q \in DOMAIN library : lib[q].coll = library[q].coll
  BY <1>2 DEF TypeOK, Entry
<1>4. Change(lib)
  BY <1>1
<1> HIDE DEF lib
<1>5. TypeOK'
  BY <1>3, <1>4, ChangeTypes DEF TypeOK
<1>6. LibraryOK'
  BY <1>3, <1>4 DEF Change, LibraryOK
<1> QED
  BY <1>5, <1>6

\* What hangs under a path, as others remove it or a DELETE does.
LEMMA RemovalTypes ==
  ASSUME TypeOK, LibraryOK, NEW S, NEW p \in Seq(S)
  PROVE  LET lib == Without(library, p)
         IN /\ Base \in DOMAIN lib
            /\ DOMAIN lib \subseteq Places \cup {Base}
            /\ lib \in [DOMAIN lib -> Entry]
            /\ \A q \in DOMAIN lib \ {Base} :
                 Front(q) \in DOMAIN lib /\ lib[Front(q)].coll
<1> DEFINE lib == Without(library, p)
<1>1. /\ DOMAIN lib = DOMAIN library \ Under(p)
      /\ \A q \in DOMAIN lib : lib[q] = library[q]
  BY WithoutIs
<1>2. lib = [q \in DOMAIN lib |-> lib[q]]
  BY DEF Without, Restrict
<1> HIDE DEF lib
<1>3. Base \notin Under(p)
  BY PlacesAssumption DEF Under
<1>4. /\ Base \in DOMAIN lib
      /\ DOMAIN lib \subseteq Places \cup {Base}
      /\ \A q \in DOMAIN lib : lib[q] \in Entry
  BY <1>1, <1>3 DEF TypeOK
<1>5. ASSUME NEW q \in DOMAIN lib \ {Base}
      PROVE  Front(q) \in DOMAIN lib /\ lib[Front(q)].coll
  <2>1. /\ q \in DOMAIN library \ Under(p) /\ q \in Places /\ q \in Seq(STRING)
        /\ p \in Seq(S \cup STRING) /\ q \in Seq(S \cup STRING)
    BY <1>1, <1>4, PlacesAreSequences, SeqWider
  <2>2. Front(q) \in DOMAIN library /\ library[Front(q)].coll
    BY <1>5, <2>1 DEF LibraryOK
  <2>3. Front(q) \notin Under(p)
    BY <2>1, UnderClosed
  <2> QED
    BY <1>1, <2>2, <2>3
<1> QED
  BY <1>2, <1>4, <1>5 DEF lib

LEMMA VanishTypes ==
  ASSUME TypeOK, LibraryOK, Vanish
  PROVE  TypeOK' /\ LibraryOK'
<1>1. PICK p \in DOMAIN library \ {Base} : Change(Without(library, p))
  BY DEF Vanish
<1>2. p \in Seq(STRING)
  BY PlacesAreSequences DEF TypeOK
<1> DEFINE lib == Without(library, p)
<1>3. /\ Base \in DOMAIN lib
      /\ DOMAIN lib \subseteq Places \cup {Base}
      /\ lib \in [DOMAIN lib -> Entry]
      /\ \A q \in DOMAIN lib \ {Base} :
           Front(q) \in DOMAIN lib /\ lib[Front(q)].coll
  BY <1>2, RemovalTypes
<1>4. Change(lib)
  BY <1>1
<1> HIDE DEF lib
<1>5. TypeOK'
  BY <1>3, <1>4, ChangeTypes
<1> QED
  BY <1>3, <1>4, <1>5 DEF Change, LibraryOK

LEMMA DiscoverTypes ==
  ASSUME TypeOK, LibraryOK, Discover
  PROVE  TypeOK' /\ LibraryOK'
<1>1. waiting' \subseteq Resource
  BY ListingIs DEF Discover, Children
<1>2. Resources(library) \subseteq Resource
  BY ResourcesTyped DEF TypeOK
<1>3. DOMAIN crawls' = {} /\ crawls' \in [{} -> Crawling]
  BY NoCrawls DEF Discover
<1>4. LibraryOK'
  BY DEF Discover, LibraryOK
<1> QED
  BY <1>1, <1>2, <1>3, <1>4 DEF Discover, TypeOK

\* What Begin makes of an item that was waiting.
Begun(r) ==
  [root |-> r,
   queue |-> IF r.coll /\ Cached(r) = {} THEN <<r.path>> ELSE <<>>,
   descendants |-> IF Cached(r) = {} THEN <<>>
                   ELSE (CHOOSE i \in Cached(r) : TRUE).descendants]

LEMMA BegunIs ==
  ASSUME TypeOK, NEW r \in waiting
  PROVE  /\ Begun(r) \in Crawling /\ Begun(r).root = r
         /\ \/ /\ Cached(r) = {}
               /\ Begun(r).queue = IF r.coll THEN <<r.path>> ELSE <<>>
               /\ Begun(r).descendants = <<>>
            \/ /\ Begun(r).queue = <<>> /\ ~full
               /\ \E i \in catalogue : /\ i.root = r
                                      /\ i.descendants = Begun(r).descendants
<1> DEFINE c == Begun(r)
<1>1. r \in Resource /\ r.path \in Places \cup {Base}
  BY DEF TypeOK, Resource
<1>2. <<r.path>> \in Seq(Places \cup {Base}) /\ <<>> \in Seq(Places \cup {Base})
      /\ <<>> \in Seq(Resource)
  BY <1>1
<1>3. CASE Cached(r) = {}
  BY <1>1, <1>2, <1>3 DEF Begun, Crawling
<1>4. CASE Cached(r) # {}
  <2>1. PICK i \in Cached(r) : i = CHOOSE j \in Cached(r) : TRUE
    BY <1>4
  <2>2. i \in catalogue /\ i.root = r /\ ~full /\ i \in Item
    BY <2>1 DEF Cached, TypeOK
  <2>3. c = [root |-> r, queue |-> <<>>, descendants |-> i.descendants]
    BY <1>4, <2>1 DEF Begun
  <2> QED
    BY <1>1, <1>2, <2>2, <2>3 DEF Crawling, Item
<1> QED
  BY <1>3, <1>4

LEMMA BeginIs ==
  ASSUME Begin
  PROVE  \E r \in waiting :
           /\ waiting' = waiting \ {r}
           /\ crawls' = With(crawls, r.path, Begun(r))
BY DEF Begin, Begun

LEMMA BeginTypes ==
  ASSUME TypeOK, LibraryOK, Begin
  PROVE  TypeOK' /\ LibraryOK'
<1>1. PICK r \in waiting : /\ waiting' = waiting \ {r}
                          /\ crawls' = With(crawls, r.path, Begun(r))
  BY BeginIs
<1>2. Begun(r) \in Crawling
  BY BegunIs
<1> DEFINE c == Begun(r)
<1> HIDE DEF c
<1>3. crawls' \in [DOMAIN crawls' -> Crawling]
  <2>1. crawls' = With(crawls, r.path, c) /\ c \in Crawling
    BY <1>1, <1>2 DEF c
  <2> QED
    BY <2>1 DEF With, TypeOK
<1>4. scanning
  BY <1>1 DEF TypeOK
<1>5. LibraryOK'
  BY DEF Begin, LibraryOK
<1>6. stalled' \subseteq DOMAIN crawls' \cup {Base}
  <2>1. DOMAIN crawls \subseteq DOMAIN crawls'
    BY <1>1 DEF With
  <2> QED
    BY <2>1 DEF Begin, TypeOK
<1> QED
  BY <1>1, <1>3, <1>4, <1>5, <1>6 DEF Begin, TypeOK

\* One turn of the loop, apart from its effect on the queue.
Unseen(c, at) == {r \in Listing(at) : r.path \notin Seen(c)}

LEMMA CrawlStepIs ==
  ASSUME TypeOK, NEW p, CrawlStep(p)
  PROVE  /\ p \in DOMAIN crawls /\ crawls[p] \in Crawling
         /\ crawls[p].queue # <<>>
         /\ Requested(Head(crawls[p].queue)) \in DOMAIN library
         /\ \E order \in SetToSeqs(Unseen(crawls[p], Requested(Head(crawls[p].queue)))) :
              crawls' = [crawls EXCEPT ![p] =
                [root |-> crawls[p].root,
                 queue |-> Tail(crawls[p].queue) \o Collections(order),
                 descendants |-> crawls[p].descendants \o order]]
<1>1. p \in DOMAIN crawls /\ crawls[p] \in Crawling /\ crawls[p].queue # <<>>
  BY DEF CrawlStep, InFlight, TypeOK
<1> QED
  BY <1>1 DEF CrawlStep, Unseen

\* What a turn of the loop has listed.
LEMMA UnseenOrder ==
  ASSUME TypeOK, NEW c, NEW at, NEW order \in SetToSeqs(Unseen(c, at))
  PROVE  /\ order \in Seq(Resource)
         /\ \A k \in DOMAIN order : order[k] \in Unseen(c, at)
         /\ \A j, k \in DOMAIN order : order[j].path = order[k].path => j = k
         /\ \A r \in Unseen(c, at) : \E k \in DOMAIN order : order[k] = r
<1> DEFINE S == Unseen(c, at)
<1>1. S \subseteq Resource /\ IsFiniteSet(S)
  <2>1. S \in SUBSET Listing(at)
    BY DEF Unseen
  <2>2. Listing(at) \subseteq Resource /\ IsFiniteSet(Listing(at))
    BY ListingIs
  <2> HIDE DEF S
  <2> QED
    BY <2>1, <2>2, FS_Subset
<1>2. \A r, s \in S : r.path = s.path => r = s
  BY ListingIs DEF Unseen
<1> HIDE DEF S
<1>3. /\ order \in Seq(S)
      /\ \A k \in DOMAIN order : order[k] \in S
      /\ \A j, k \in DOMAIN order : order[j] = order[k] => j = k
      /\ \A r \in S : \E k \in DOMAIN order : order[k] = r
  BY <1>1, OrderIs DEF S
<1>4. order \in Seq(Resource)
  BY <1>1, <1>3, SeqWider
<1> QED
  BY <1>2, <1>3, <1>4 DEF S

LEMMA QueueIs ==
  ASSUME NEW order \in Seq(Resource),
         \A j, k \in DOMAIN order : order[j].path = order[k].path => j = k
  PROVE  /\ Collections(order) \in Seq(Places \cup {Base})
         /\ \A m \in DOMAIN Collections(order) : \E k \in DOMAIN order :
              order[k].coll /\ order[k].path = Collections(order)[m]
         /\ \A k \in DOMAIN order : order[k].coll =>
              \E m \in DOMAIN Collections(order) : order[k].path = Collections(order)[m]
         /\ \A l, m \in DOMAIN Collections(order) :
              Collections(order)[l] = Collections(order)[m] => l = m
<1> DEFINE P == Places \cup {Base}
<1>1. Len(order) \in Nat /\ DOMAIN order = 1..Len(order)
  OBVIOUS
<1>2. \A k \in DOMAIN order : order[k].path \in P
  <2>1. \A k \in DOMAIN order : order[k] \in Resource
    OBVIOUS
  <2> QED
    BY <2>1 DEF Resource
<1> HIDE DEF P
<1> QED
  BY <1>1, <1>2, CollectionsAre DEF P

LEMMA CrawlStepTypes ==
  ASSUME TypeOK, LibraryOK, NEW p, CrawlStep(p)
  PROVE  TypeOK' /\ LibraryOK'
<1> DEFINE c == crawls[p]
           at == Requested(Head(c.queue))
<1>1. p \in DOMAIN crawls /\ c \in Crawling /\ c.queue # <<>>
  BY CrawlStepIs
<1>2. PICK order \in SetToSeqs(Unseen(c, at)) :
        crawls' = [crawls EXCEPT ![p] =
          [root |-> c.root, queue |-> Tail(c.queue) \o Collections(order),
           descendants |-> c.descendants \o order]]
  BY CrawlStepIs
<1> HIDE DEF at, c
<1>3. /\ order \in Seq(Resource)
      /\ Collections(order) \in Seq(Places \cup {Base})
  BY UnseenOrder, QueueIs
<1>4. Tail(c.queue) \o Collections(order) \in Seq(Places \cup {Base})
  BY <1>1, <1>3 DEF Crawling
<1>5. c.descendants \o order \in Seq(Resource)
  BY <1>1, <1>3 DEF Crawling
<1>6. [root |-> c.root, queue |-> Tail(c.queue) \o Collections(order),
       descendants |-> c.descendants \o order] \in Crawling
  BY <1>1, <1>4, <1>5 DEF Crawling
<1>7. crawls' \in [DOMAIN crawls' -> Crawling]
  BY <1>2, <1>6 DEF TypeOK
<1>8. scanning
  BY <1>1, NoCrawls DEF TypeOK
<1>9. LibraryOK'
  BY DEF CrawlStep, LibraryOK
<1> QED
  BY <1>7, <1>8, <1>9 DEF CrawlStep, TypeOK

LEMMA AbandonTypes ==
  ASSUME TypeOK, LibraryOK, Abandon, faults' \in 0..MaxFaults
  PROVE  TypeOK' /\ LibraryOK'
<1>1. DOMAIN crawls' = {} /\ crawls' \in [{} -> Crawling]
  BY NoCrawls DEF Abandon
<1>2. LibraryOK'
  BY DEF Abandon, LibraryOK
<1> QED
  BY <1>1, <1>2 DEF Abandon, TypeOK

LEMMA CollectTypes ==
  ASSUME TypeOK, LibraryOK, Collect
  PROVE  TypeOK' /\ LibraryOK'
<1>1. DOMAIN crawls' = {} /\ crawls' \in [{} -> Crawling]
  BY NoCrawls DEF Collect
<1>2. \A p \in DOMAIN crawls : crawls[p] \in Crawling
  BY DEF TypeOK
<1>3. catalogue' \subseteq Item
  BY <1>2 DEF Collect, Crawling, Item
<1>4. waiting' = {} /\ stalled' = {}
  BY DEF Collect, Finished
<1>5. LibraryOK'
  BY DEF Collect, LibraryOK
<1> QED
  BY <1>1, <1>3, <1>4, <1>5 DEF Collect, TypeOK

LEMMA DeleteTypes ==
  ASSUME TypeOK, LibraryOK, NEW i, DeleteItem(i)
  PROVE  TypeOK' /\ LibraryOK'
<1> DEFINE p == Requested(i.root.path)
<1>1. p \in DOMAIN library /\ library' = Without(library, p)
  BY DEF DeleteItem
<1>2. p \in Seq(STRING)
  BY <1>1, PlacesAreSequences DEF TypeOK
<1> HIDE DEF p
<1> DEFINE lib == Without(library, p)
<1>3. /\ Base \in DOMAIN lib
      /\ DOMAIN lib \subseteq Places \cup {Base}
      /\ lib \in [DOMAIN lib -> Entry]
      /\ \A q \in DOMAIN lib \ {Base} :
           Front(q) \in DOMAIN lib /\ lib[Front(q)].coll
  BY <1>2, RemovalTypes
<1>4. library' = lib
  BY <1>1
<1> HIDE DEF lib
<1>5. LibraryOK'
  BY <1>3, <1>4 DEF LibraryOK
<1> QED
  BY <1>3, <1>4, <1>5 DEF DeleteItem, TypeOK

LEMMA CrawlStepKeepsTypes ==
  TypeOK /\ LibraryOK /\ [Next]_vars => TypeOK' /\ LibraryOK'
<1> SUFFICES ASSUME TypeOK, LibraryOK, [Next]_vars
             PROVE  TypeOK' /\ LibraryOK'
  OBVIOUS
<1>1. ASSUME NEW p, CrawlMissing(p)
      PROVE  TypeOK' /\ LibraryOK'
  BY <1>1, AbandonTypes DEF CrawlMissing, TypeOK
<1>2. CASE PropfindFails
  <2>1. faults' \in 0..MaxFaults
    BY <1>2, BoundsAssumption DEF PropfindFails, TypeOK
  <2> QED
    BY <1>2, <2>1, AbandonTypes DEF PropfindFails
<1>3. CASE UNCHANGED vars
  BY <1>3 DEF vars, TypeOK, LibraryOK
<1>4. CASE BodyStalls \/ BodyResumes
  <2>1. Receiving \subseteq DOMAIN crawls \cup {Base}
    BY DEF Receiving, InFlight
  <2>2. stalled' \subseteq DOMAIN crawls \cup {Base} /\ faults' \in 0..MaxFaults
    BY <1>4, <2>1, BoundsAssumption DEF BodyStalls, BodyResumes, TypeOK
  <2>3. stalled' # {} => scanning
    BY <1>4 DEF BodyStalls, BodyResumes, TypeOK
  <2> QED
    BY <1>4, <2>2, <2>3 DEF BodyStalls, BodyResumes, TypeOK, LibraryOK
<1> QED
  BY <1>1, <1>2, <1>3, <1>4, PutTypes, TouchTypes, VanishTypes, DiscoverTypes,
     BeginTypes, CrawlStepTypes, CollectTypes, DeleteTypes DEF Next, ScanStep

LEMMA CrawlTyped == Spec => [](TypeOK /\ LibraryOK)
BY CrawlInitTypes, CrawlStepKeepsTypes, PTL DEF Spec

\* Every variable keeps its type; in particular nothing is left of a scan that
\* has ended, however it ended.
THEOREM CrawlTypeCorrect == Spec => []TypeOK
BY CrawlTyped, PTL

-----------------------------------------------------------------------------
(* What an item has below it hangs together.                               *)

ItemOK(root, d) ==
  /\ ~root.coll => d = <<>>
  /\ \A j, k \in DOMAIN d : d[j].path = d[k].path => j = k
  /\ \A k \in DOMAIN d :
       /\ d[k].path # Base /\ d[k].path # root.path
       /\ \/ Front(d[k].path) = root.path
          \/ \E j \in 1..(k - 1) : d[j].path = Front(d[k].path) /\ d[j].coll

\* A crawl asks for its item and for collections it has listed.
QueueOK(root, queue, d) ==
  \A m \in DOMAIN queue :
    /\ root.coll
    /\ \/ queue[m] = root.path
       \/ \E j \in DOMAIN d : d[j].path = queue[m] /\ d[j].coll

ItemsOK ==
  /\ \A i \in catalogue : ItemOK(i.root, i.descendants)
  /\ \A p \in DOMAIN crawls :
       /\ ItemOK(crawls[p].root, crawls[p].descendants)
       /\ QueueOK(crawls[p].root, crawls[p].queue, crawls[p].descendants)

LEMMA JoinIs ==
  ASSUME NEW S, NEW s \in Seq(S), NEW t \in Seq(S)
  PROVE  /\ s \o t \in Seq(S) /\ Len(s) \in Nat /\ Len(t) \in Nat
         /\ DOMAIN s = 1..Len(s) /\ DOMAIN t = 1..Len(t)
         /\ DOMAIN (s \o t) = 1..(Len(s) + Len(t))
         /\ \A k \in DOMAIN s : k \in DOMAIN (s \o t) /\ (s \o t)[k] = s[k]
         /\ \A k \in DOMAIN t :
              Len(s) + k \in DOMAIN (s \o t) /\ (s \o t)[Len(s) + k] = t[k]
         /\ \A k \in DOMAIN (s \o t) :
              k \in DOMAIN s \/ \E l \in DOMAIN t : k = Len(s) + l
<1>1. /\ s \o t \in Seq(S) /\ Len(s) \in Nat /\ Len(t) \in Nat
      /\ DOMAIN s = 1..Len(s) /\ DOMAIN t = 1..Len(t)
      /\ DOMAIN (s \o t) = 1..(Len(s) + Len(t))
      /\ \A k \in DOMAIN s : (s \o t)[k] = s[k]
      /\ \A k \in DOMAIN t : (s \o t)[Len(s) + k] = t[k]
  OBVIOUS
<1>2. ASSUME NEW k \in DOMAIN (s \o t), k \notin DOMAIN s
      PROVE  \E l \in DOMAIN t : k = Len(s) + l
  <2>1. k - Len(s) \in DOMAIN t /\ k = Len(s) + (k - Len(s))
    BY <1>1, <1>2
  <2> QED
    BY <2>1
<1>3. /\ \A k \in DOMAIN s : k \in DOMAIN (s \o t)
      /\ \A k \in DOMAIN t : Len(s) + k \in DOMAIN (s \o t)
  BY <1>1
<1> QED
  BY <1>1, <1>2, <1>3

LEMMA TailIs ==
  ASSUME NEW S, NEW q \in Seq(S), q # <<>>
  PROVE  /\ Head(q) = q[1] /\ Head(q) \in S /\ 1 \in DOMAIN q
         /\ Tail(q) \in Seq(S)
         /\ \A m \in DOMAIN Tail(q) : m + 1 \in DOMAIN q /\ Tail(q)[m] = q[m + 1]
         /\ \A m \in DOMAIN q : m # 1 =>
              \E l \in DOMAIN Tail(q) : m = l + 1 /\ Tail(q)[l] = q[m]
<1>1. /\ Len(q) \in Nat \ {0} /\ Head(q) = q[1] /\ DOMAIN q = 1..Len(q)
      /\ Tail(q) \in Seq(S) /\ Len(Tail(q)) = Len(q) - 1
      /\ DOMAIN Tail(q) = 1..(Len(q) - 1)
      /\ \A m \in 1..(Len(q) - 1) : Tail(q)[m] = q[m + 1]
  OBVIOUS
<1>2. ASSUME NEW m \in DOMAIN q, m # 1
      PROVE  \E l \in DOMAIN Tail(q) : m = l + 1 /\ Tail(q)[l] = q[m]
  <2>1. m - 1 \in DOMAIN Tail(q) /\ m = (m - 1) + 1
    BY <1>1, <1>2
  <2> QED
    BY <1>1, <2>1
<1>3. q[1] \in S
  BY <1>1
<1> QED
  BY <1>1, <1>2, <1>3

LEMMA SeenIs ==
  ASSUME NEW c
  PROVE  /\ c.root.path \in Seen(c)
         /\ \A k \in DOMAIN c.descendants : c.descendants[k].path \in Seen(c)
         /\ \A p \in Seen(c) :
              p = c.root.path \/ \E k \in DOMAIN c.descendants : p = c.descendants[k].path
BY DEF Seen, Descendants, ToSet

\* What is asked for next, and what its listing has that was not seen.
LEMMA TurnIs ==
  ASSUME TypeOK, PlainNames, NEW c \in Crawling, c.queue # <<>>,
         QueueOK(c.root, c.queue, c.descendants)
  PROVE  LET at == Requested(Head(c.queue))
         IN /\ at = c.queue[1] /\ at \in Places \cup {Base} /\ at \in Seen(c)
            /\ c.root.coll
            /\ at = c.root.path \/ \E j \in DOMAIN c.descendants :
                 c.descendants[j].path = at /\ c.descendants[j].coll
            /\ \A r \in Unseen(c, at) :
                 r.path # Base /\ Front(r.path) = at /\ r.path \notin Seen(c)
<1> DEFINE at == Requested(Head(c.queue))
<1>1. c.queue \in Seq(Places \cup {Base})
  BY DEF Crawling
<1>2. Head(c.queue) = c.queue[1] /\ Head(c.queue) \in Places \cup {Base}
      /\ 1 \in DOMAIN c.queue
  BY <1>1, TailIs
<1>3. at = c.queue[1] /\ at \in Places \cup {Base}
  BY <1>2, RequestedPlain
<1> HIDE DEF at
<1>4. /\ c.root.coll
      /\ at = c.root.path \/ \E j \in DOMAIN c.descendants :
           c.descendants[j].path = at /\ c.descendants[j].coll
  BY <1>2, <1>3 DEF QueueOK
<1>5. at \in Seen(c)
  BY <1>4, SeenIs
<1>6. \A r \in Unseen(c, at) :
        r.path # Base /\ Front(r.path) = at /\ r.path \notin Seen(c)
  BY <1>5, ListingIs DEF Unseen
<1> QED
  BY <1>3, <1>4, <1>5, <1>6 DEF at

\* A turn of the loop adds to an item what is in a collection it has.
LEMMA TurnKeepsItem ==
  ASSUME TypeOK, PlainNames, NEW c \in Crawling, c.queue # <<>>,
         ItemOK(c.root, c.descendants), QueueOK(c.root, c.queue, c.descendants),
         NEW order \in SetToSeqs(Unseen(c, Requested(Head(c.queue))))
  PROVE  /\ ItemOK(c.root, c.descendants \o order)
         /\ QueueOK(c.root, Tail(c.queue) \o Collections(order),
                    c.descendants \o order)
<1> DEFINE at == Requested(Head(c.queue))
           root == c.root
           d == c.descendants
           e == d \o order
           pushed == Collections(order)
           t == Tail(c.queue)
           queue == t \o pushed
<1>1. /\ at \in Seen(c) /\ root.coll
      /\ at = root.path \/ \E j \in DOMAIN d : d[j].path = at /\ d[j].coll
      /\ \A r \in Unseen(c, at) :
           r.path # Base /\ Front(r.path) = at /\ r.path \notin Seen(c)
  BY TurnIs
<1> HIDE DEF at
<1>2. /\ order \in Seq(Resource)
      /\ \A k \in DOMAIN order : order[k] \in Unseen(c, at)
      /\ \A j, k \in DOMAIN order : order[j].path = order[k].path => j = k
  BY UnseenOrder DEF at
<1>3. d \in Seq(Resource) /\ c.queue \in Seq(Places \cup {Base})
  BY DEF Crawling
<1>4. /\ Len(d) \in Nat /\ DOMAIN d = 1..Len(d) /\ DOMAIN order \subseteq Nat \ {0}
      /\ \A k \in DOMAIN d : k \in DOMAIN e /\ e[k] = d[k]
      /\ \A k \in DOMAIN order :
           Len(d) + k \in DOMAIN e /\ e[Len(d) + k] = order[k]
      /\ \A k \in DOMAIN e :
           k \in DOMAIN d \/ \E l \in DOMAIN order : k = Len(d) + l
  <2> HIDE DEF d, root
  <2>1. d \in Seq(Resource) /\ order \in Seq(Resource)
    BY <1>2, <1>3
  <2>2. Len(order) \in Nat /\ DOMAIN order = 1..Len(order)
    BY <2>1
  <2> QED
    BY <2>1, <2>2, JoinIs
<1>5. \A k \in DOMAIN d : d[k].path \in Seen(c)
  BY SeenIs
<1>6. root.path \in Seen(c)
  BY SeenIs
<1>7. \A k \in DOMAIN order :
        /\ order[k].path # Base /\ Front(order[k].path) = at
        /\ order[k].path \notin Seen(c)
  BY <1>1, <1>2
<1>8. ItemOK(root, d) /\ QueueOK(root, c.queue, d)
  OBVIOUS
<1> HIDE DEF root, d, e
<1>9. ItemOK(root, e)
  <2>1. ASSUME NEW j \in DOMAIN e, NEW k \in DOMAIN e, e[j].path = e[k].path
        PROVE  j = k
    <3>1. CASE j \in DOMAIN d /\ k \in DOMAIN d
      BY <1>4, <1>8, <2>1, <3>1 DEF ItemOK
    <3>2. ASSUME NEW l \in DOMAIN order, NEW m \in DOMAIN order,
                 j = Len(d) + l, k = Len(d) + m
          PROVE  j = k
      BY <1>2, <1>4, <2>1, <3>2
    <3>3. ASSUME NEW l \in DOMAIN order, e[k].path \in Seen(c), j = Len(d) + l
          PROVE  FALSE
      BY <1>4, <1>7, <2>1, <3>3
    <3>4. ASSUME NEW l \in DOMAIN order, e[j].path \in Seen(c), k = Len(d) + l
          PROVE  FALSE
      BY <1>4, <1>7, <2>1, <3>4
    <3> QED
      BY <1>4, <1>5, <3>1, <3>2, <3>3, <3>4
  <2>2. ASSUME NEW k \in DOMAIN e
        PROVE  /\ e[k].path # Base /\ e[k].path # root.path
               /\ \/ Front(e[k].path) = root.path
                  \/ \E j \in 1..(k - 1) : e[j].path = Front(e[k].path) /\ e[j].coll
    <3>1. CASE k \in DOMAIN d
      <4>1. \A j \in 1..(k - 1) : j \in DOMAIN d
        BY <1>4, <3>1
      <4> QED
        BY <1>4, <1>8, <3>1, <4>1 DEF ItemOK
    <3>2. ASSUME NEW l \in DOMAIN order, k = Len(d) + l
          PROVE  /\ e[k].path # Base /\ e[k].path # root.path
                 /\ \/ Front(e[k].path) = root.path
                    \/ \E j \in 1..(k - 1) : e[j].path = Front(e[k].path) /\ e[j].coll
      <4>1. \A j \in DOMAIN d : j \in 1..(k - 1)
        BY <1>4, <3>2
      <4>2. e[k].path # Base /\ e[k].path # root.path /\ Front(e[k].path) = at
        BY <1>4, <1>6, <1>7, <3>2
      <4> QED
        BY <1>1, <1>4, <4>1, <4>2
    <3> QED
      BY <1>4, <3>1, <3>2
  <2> QED
    BY <1>1, <2>1, <2>2 DEF ItemOK
<1>10. QueueOK(root, queue, e)
  <2>1. pushed \in Seq(Places \cup {Base})
        /\ \A m \in DOMAIN pushed : \E k \in DOMAIN order :
             order[k].coll /\ order[k].path = pushed[m]
    BY <1>2, QueueIs
  <2>2. /\ Tail(c.queue) \in Seq(Places \cup {Base})
        /\ \A m \in DOMAIN Tail(c.queue) :
             m + 1 \in DOMAIN c.queue /\ Tail(c.queue)[m] = c.queue[m + 1]
    BY <1>3, TailIs
  <2> HIDE DEF t, pushed
  <2>3. /\ \A m \in DOMAIN t : queue[m] = t[m]
        /\ \A m \in DOMAIN pushed : queue[Len(t) + m] = pushed[m]
        /\ \A m \in DOMAIN queue :
             m \in DOMAIN t \/ \E l \in DOMAIN pushed : m = Len(t) + l
    <3>1. t \in Seq(Places \cup {Base}) /\ pushed \in Seq(Places \cup {Base})
      BY <2>1, <2>2 DEF t, pushed
    <3> QED
      BY <3>1, JoinIs
  <2> HIDE DEF queue
  <2>4. ASSUME NEW m \in DOMAIN queue
        PROVE  \/ queue[m] = root.path
               \/ \E j \in DOMAIN e : e[j].path = queue[m] /\ e[j].coll
    <3>1. CASE m \in DOMAIN t
      BY <1>4, <1>8, <2>2, <2>3, <3>1 DEF QueueOK, t
    <3>2. ASSUME NEW l \in DOMAIN pushed, m = Len(t) + l
          PROVE  \E j \in DOMAIN e : e[j].path = queue[m] /\ e[j].coll
      BY <1>4, <2>1, <2>3, <3>2 DEF pushed
    <3> QED
      BY <2>3, <2>4, <3>1, <3>2
  <2> QED
    BY <1>1, <2>4 DEF QueueOK
<1> QED
  BY <1>9, <1>10 DEF root, d, e

LEMMA CrawlStepKeepsItems ==
  ASSUME TypeOK, ItemsOK, PlainNames, NEW p, CrawlStep(p)
  PROVE  ItemsOK'
<1> DEFINE c == crawls[p]
           at == Requested(Head(c.queue))
<1>1. p \in DOMAIN crawls /\ c \in Crawling /\ c.queue # <<>>
  BY CrawlStepIs
<1>2. PICK order \in SetToSeqs(Unseen(c, at)) :
        crawls' = [crawls EXCEPT ![p] =
          [root |-> c.root, queue |-> Tail(c.queue) \o Collections(order),
           descendants |-> c.descendants \o order]]
  BY CrawlStepIs
<1>3. ItemOK(c.root, c.descendants) /\ QueueOK(c.root, c.queue, c.descendants)
  BY <1>1 DEF ItemsOK
<1> DEFINE q == Tail(c.queue) \o Collections(order)
           d == c.descendants \o order
<1> HIDE DEF c
<1>4. ItemOK(c.root, d) /\ QueueOK(c.root, q, d)
  BY <1>1, <1>3, TurnKeepsItem
<1> HIDE DEF q, d
<1>5. DOMAIN crawls' = DOMAIN crawls
      /\ crawls'[p] = [root |-> c.root, queue |-> q, descendants |-> d]
      /\ \A o \in DOMAIN crawls : o # p => crawls'[o] = crawls[o]
  BY <1>1, <1>2 DEF q, d
<1>6. \A o \in DOMAIN crawls' :
        /\ ItemOK(crawls'[o].root, crawls'[o].descendants)
        /\ QueueOK(crawls'[o].root, crawls'[o].queue, crawls'[o].descendants)
  BY <1>4, <1>5 DEF ItemsOK
<1>7. catalogue' = catalogue
  BY DEF CrawlStep
<1> QED
  BY <1>6, <1>7 DEF ItemsOK

LEMMA BeginKeepsItems ==
  ASSUME TypeOK, ItemsOK, Begin
  PROVE  ItemsOK'
<1>1. PICK r \in waiting : /\ waiting' = waiting \ {r}
                          /\ crawls' = With(crawls, r.path, Begun(r))
  BY BeginIs
<1> DEFINE c == Begun(r)
<1>2. ItemOK(c.root, c.descendants) /\ QueueOK(c.root, c.queue, c.descendants)
  <2>1. CASE /\ c.queue = IF r.coll THEN <<r.path>> ELSE <<>>
             /\ c.descendants = <<>> /\ c.root = r
    <3> HIDE DEF c
    <3>1. DOMAIN <<>> = {} /\ DOMAIN <<r.path>> = {1} /\ <<r.path>>[1] = r.path
      OBVIOUS
    <3> QED
      BY <2>1, <3>1 DEF ItemOK, QueueOK
  <2>2. CASE /\ c.queue = <<>> /\ c.root = r
             /\ \E i \in catalogue : i.root = r /\ i.descendants = c.descendants
    <3> HIDE DEF c
    <3>1. DOMAIN <<>> = {}
      OBVIOUS
    <3> QED
      BY <2>2, <3>1 DEF ItemsOK, QueueOK
  <2> QED
    BY <2>1, <2>2, BegunIs
<1> HIDE DEF c
<1>3. /\ DOMAIN crawls' = DOMAIN crawls \cup {r.path}
      /\ crawls'[r.path] = c
      /\ \A p \in DOMAIN crawls : p # r.path => crawls'[p] = crawls[p]
  <2>1. crawls' = With(crawls, r.path, c)
    BY <1>1 DEF c
  <2> QED
    BY <2>1 DEF With
<1>4. catalogue' = catalogue
  BY DEF Begin
<1> QED
  BY <1>2, <1>3, <1>4 DEF ItemsOK

LEMMA NextKeepsItems ==
  PlainNames /\ TypeOK /\ ItemsOK /\ [Next]_vars => ItemsOK'
<1> SUFFICES ASSUME PlainNames, TypeOK, ItemsOK, [Next]_vars
             PROVE  ItemsOK'
  OBVIOUS
<1>1. CASE UNCHANGED <<catalogue, crawls>>
  BY <1>1 DEF ItemsOK
<1>2. CASE crawls' = <<>> /\ catalogue' \subseteq catalogue
  BY <1>2, NoCrawls DEF ItemsOK
<1>3. CASE Collect
  <2>1. \A i \in catalogue' : ItemOK(i.root, i.descendants)
    BY <1>3 DEF Collect, ItemsOK
  <2>2. crawls' = <<>>
    BY <1>3 DEF Collect
  <2> QED
    BY <2>1, <2>2, NoCrawls DEF ItemsOK
<1>4. ASSUME NEW i, DeleteItem(i)
      PROVE  ItemsOK'
  BY <1>4 DEF DeleteItem, ItemsOK
<1>5. CASE Put \/ Touch \/ Vanish \/ BodyStalls \/ BodyResumes \/ UNCHANGED vars
  BY <1>1, <1>5 DEF Put, Touch, Vanish, Change, BodyStalls, BodyResumes, vars
<1>6. CASE Discover \/ PropfindFails \/ \E p : CrawlMissing(p)
  BY <1>2, <1>6 DEF Discover, PropfindFails, CrawlMissing, Abandon
<1> QED
  BY <1>3, <1>4, <1>5, <1>6, BeginKeepsItems, CrawlStepKeepsItems
     DEF Next, ScanStep

LEMMA ItemsInvariant == ASSUME PlainNames PROVE Spec => []ItemsOK
<1>1. Init => ItemsOK
  BY NoCrawls DEF Init, ItemsOK
<1>2. TypeOK /\ ItemsOK /\ [Next]_vars => ItemsOK'
  BY NextKeepsItems
<1> QED
  BY <1>1, <1>2, CrawlTypeCorrect, PTL DEF Spec

\* However the library changes while an item is crawled, what the item has below
\* it is there once and comes after the collection it is in.
THEOREM ItemsAlwaysConnected == ASSUME PlainNames PROVE Spec => []ItemsConnected
<1>1. ItemsOK => ItemsConnected
  BY DEF ItemsOK, ItemOK, ItemsConnected
<1> QED
  BY <1>1, ItemsInvariant, PTL

-----------------------------------------------------------------------------
(* What a scan returns is there.                                           *)

IsTop(p) == p # Base /\ Front(p) = Base

Recorded ==
  /\ always \subseteq Resources(library)
  /\ scanning => Resources(library) \subseteq ever
  /\ ~scanning => always = {}

\* An item is waiting, being crawled or crawled as long as the scan goes on; a
\* file has nothing below it that was there all the time.
TopsOK ==
  /\ \A i \in catalogue : IsTop(i.root.path)
  /\ \A p \in DOMAIN crawls : IsTop(crawls[p].root.path) /\ crawls[p].root \in ever
  /\ \A w \in waiting :
       /\ IsTop(w.path) /\ w.path \notin DOMAIN crawls /\ w \in ever
       /\ ~w.coll => Below(always, w.path) = {}
  /\ \A v, w \in waiting : v.path = w.path => v = w
  /\ scanning =>
       Tops(always) \subseteq waiting \cup {crawls[p].root : p \in DOMAIN crawls}

\* An item of the previous scan is taken as it was.
Reused(root, queue, d) ==
  queue = <<>> /\ ~full /\ \E i \in catalogue : i.root = root /\ i.descendants = d

\* What has been there all the time below an item was listed or is below a
\* collection still to be asked for, and all that was listed was there.
Covered(root, queue, d) ==
  /\ full \/ root \notin {i.root : i \in catalogue}
  /\ ToSet(d) \subseteq ever
  /\ \A r \in Below(always, root.path) :
       \/ r \in ToSet(d)
       \/ \E m \in DOMAIN queue : IsPrefix(queue[m], r.path) /\ queue[m] # r.path

\* No collection is asked for twice, or after something in it was listed.
Unlisted(queue, d) ==
  /\ \A m, n \in DOMAIN queue : queue[m] = queue[n] => m = n
  /\ \A m \in DOMAIN queue, r \in ToSet(d) : Front(r.path) # queue[m]

CrawlsOK ==
  \A p \in DOMAIN crawls :
    LET c == crawls[p]
    IN \/ Reused(c.root, c.queue, c.descendants)
       \/ /\ Covered(c.root, c.queue, c.descendants)
          /\ Unlisted(c.queue, c.descendants)

FaithInv == Recorded /\ TopsOK /\ CrawlsOK

\* The tops are the paths of one name.
LEMMA TopIs ==
  ASSUME NEW p \in Places \cup {Base}
  PROVE  Len(p) = 1 <=> IsTop(p)
<1>1. CASE p = Base
  BY <1>1 DEF IsTop, Base
<1>2. CASE p \in Places
  <2>1. p \in Seq(STRING) /\ p # <<>> /\ p # Base
    BY <1>2, PlacesAreSequences DEF Base
  <2>2. Len(p) \in Nat \ {0} /\ Front(p) \in Seq(STRING) /\ Len(Front(p)) = Len(p) - 1
    BY <2>1, FrontIs
  <2>3. Len(Front(p)) = 0 <=> Front(p) = Base
    BY <2>2 DEF Base
  <2> QED
    BY <2>1, <2>2, <2>3 DEF IsTop
<1> QED
  BY <1>1, <1>2

\* The collections on the way to something in the library are in it.
LEMMA WayIs ==
  ASSUME TypeOK, LibraryOK, NEW p \in Seq(STRING), NEW r \in DOMAIN library,
         IsPrefix(p, r), p # r
  PROVE  p \in DOMAIN library /\ library[p].coll
<1> DEFINE Leads(q) == IsPrefix(p, q) /\ p # q => p \in DOMAIN library /\ library[p].coll
           T == {n \in Nat : \A q \in DOMAIN library : Len(q) = n => Leads(q)}
<1>1. \A q \in DOMAIN library : q \in Seq(STRING)
  BY PlacesAreSequences DEF TypeOK
<1>2. 0 \in T
  <2>1. ASSUME NEW q \in DOMAIN library, Len(q) = 0, IsPrefix(p, q), p # q
        PROVE  FALSE
    <3>1. q \in Seq(STRING) /\ q = <<>>
      BY <1>1, <2>1
    <3> QED
      BY <2>1, <3>1, PrefixOfFront
  <2> QED
    BY <2>1
<1>3. ASSUME NEW n \in Nat, n \in T
      PROVE  n + 1 \in T
  <2>1. ASSUME NEW q \in DOMAIN library, Len(q) = n + 1, IsPrefix(p, q), p # q
        PROVE  p \in DOMAIN library /\ library[p].coll
    <3>1. q \in Seq(STRING) /\ q # <<>> /\ IsPrefix(p, Front(q))
      BY <1>1, <2>1, PrefixOfFront
    <3>2. Front(q) \in DOMAIN library /\ library[Front(q)].coll
      BY <3>1 DEF LibraryOK, Base
    <3>3. Len(Front(q)) = n
      BY <2>1, <3>1, FrontIs
    <3> QED
      BY <1>3, <3>1, <3>2, <3>3
  <2> QED
    BY <2>1
<1>4. Len(r) \in T
  <2>1. Len(r) \in Nat
    BY <1>1
  <2> HIDE DEF T
  <2> QED
    BY <1>2, <1>3, <2>1, SetInduction
<1> QED
  BY <1>4

LEMMA ShownIs ==
  ASSUME TypeOK, NEW r \in Resources(library)
  PROVE  /\ r \in Resource /\ r.path \in DOMAIN library \ {Base}
         /\ r.path \in Places /\ r.path \in Seq(STRING) /\ r.path # <<>>
         /\ r = At(library, r.path) /\ r.coll = library[r.path].coll
<1>1. PICK p \in DOMAIN library \ {Base} : r = At(library, p)
  BY DEF Resources
<1>2. r \in Resource /\ r.path = p /\ r.coll = library[p].coll
  BY <1>1, AtIs DEF TypeOK
<1>3. p \in Places
  BY <1>1 DEF TypeOK
<1> QED
  BY <1>1, <1>2, <1>3, PlacesAreSequences

LEMMA NothingBelowFiles ==
  ASSUME TypeOK, LibraryOK, NEW w \in Resources(library), ~w.coll
  PROVE  Below(Resources(library), w.path) = {}
<1>1. /\ w.path \in DOMAIN library /\ ~library[w.path].coll
      /\ w.path \in Seq(STRING)
  BY ShownIs
<1>2. ASSUME NEW r \in Below(Resources(library), w.path)
      PROVE  FALSE
  <2>1. r.path \in DOMAIN library /\ r.path # w.path /\ IsPrefix(w.path, r.path)
    BY <1>2, ShownIs DEF Below
  <2> QED
    BY <1>1, <2>1, WayIs
<1> QED
  BY <1>2

\* What was there all the time below the collection that is listed now is
\* listed now itself, or below a collection that is.
LEMMA TurnReaches ==
  ASSUME TypeOK, LibraryOK, NEW c, NEW at \in Seq(STRING),
         NEW r \in Resources(library), IsPrefix(at, r.path), at # r.path,
         \A p \in Seen(c) : p = Base \/ Front(p) # at
  PROVE  \/ r \in Unseen(c, at)
         \/ \E x \in Unseen(c, at) :
              x.coll /\ IsPrefix(x.path, r.path) /\ x.path # r.path
<1>1. /\ r.path \in DOMAIN library \ {Base} /\ r = At(library, r.path)
      /\ r.path \in Seq(STRING)
  BY ShownIs
<1>2. PICK a \in Seq(STRING) : a # <<>> /\ Front(a) = at /\ IsPrefix(a, r.path)
  BY <1>1, FirstStep
<1>3. a \in DOMAIN library /\ (a # r.path => library[a].coll)
  BY <1>1, <1>2, WayIs
<1>4. a # Base
  BY <1>2 DEF Base
<1> DEFINE x == At(library, a)
<1>5. x \in Listing(at) /\ x.path = a /\ x.coll = library[a].coll
  BY <1>2, <1>3, <1>4, ListingIs, AtIs DEF TypeOK
<1>6. a \notin Seen(c)
  BY <1>2, <1>4
<1> HIDE DEF x
<1>7. x \in Unseen(c, at)
  BY <1>5, <1>6 DEF Unseen
<1>8. CASE a = r.path
  BY <1>1, <1>7, <1>8 DEF x
<1>9. CASE a # r.path
  BY <1>2, <1>3, <1>5, <1>7, <1>9
<1> QED
  BY <1>8, <1>9

LEMMA JoinedSet ==
  ASSUME NEW S, NEW s \in Seq(S), NEW t \in Seq(S)
  PROVE  ToSet(s \o t) = ToSet(s) \cup ToSet(t)
<1> DEFINE u == s \o t
<1>1. /\ \A k \in DOMAIN s : k \in DOMAIN u /\ u[k] = s[k]
      /\ \A k \in DOMAIN t : Len(s) + k \in DOMAIN u /\ u[Len(s) + k] = t[k]
      /\ \A k \in DOMAIN u : k \in DOMAIN s \/ \E l \in DOMAIN t : k = Len(s) + l
  BY JoinIs
<1> HIDE DEF u
<1>2. ToSet(u) \subseteq ToSet(s) \cup ToSet(t)
  BY <1>1 DEF ToSet
<1>3. ToSet(s) \cup ToSet(t) \subseteq ToSet(u)
  BY <1>1 DEF ToSet
<1>4. ToSet(u) = ToSet(s) \cup ToSet(t)
  BY <1>2, <1>3
<1> QED
  BY <1>4 DEF u

LEMMA TurnKeepsCover ==
  ASSUME TypeOK, LibraryOK, Recorded, scanning, PlainNames,
         NEW c \in Crawling, c.queue # <<>>, IsTop(c.root.path),
         ItemOK(c.root, c.descendants), QueueOK(c.root, c.queue, c.descendants),
         Covered(c.root, c.queue, c.descendants), Unlisted(c.queue, c.descendants),
         NEW order \in SetToSeqs(Unseen(c, Requested(Head(c.queue))))
  PROVE  /\ Covered(c.root, Tail(c.queue) \o Collections(order),
                    c.descendants \o order)
         /\ Unlisted(Tail(c.queue) \o Collections(order), c.descendants \o order)
<1> DEFINE at == Requested(Head(c.queue))
           root == c.root
           d == c.descendants
           e == d \o order
           new == Unseen(c, at)
           pushed == Collections(order)
           t == Tail(c.queue)
           queue == t \o pushed
<1>1. /\ at = c.queue[1] /\ at \in Places \cup {Base} /\ at \in Seen(c)
      /\ at = root.path \/ \E j \in DOMAIN d : d[j].path = at /\ d[j].coll
      /\ \A r \in new : r.path # Base /\ Front(r.path) = at /\ r.path \notin Seen(c)
  BY TurnIs
<1> HIDE DEF at
<1>2. /\ order \in Seq(Resource)
      /\ \A k \in DOMAIN order : order[k] \in new
      /\ \A j, k \in DOMAIN order : order[j].path = order[k].path => j = k
      /\ \A r \in new : \E k \in DOMAIN order : order[k] = r
  BY UnseenOrder DEF at
<1>3. d \in Seq(Resource) /\ c.queue \in Seq(Places \cup {Base})
  BY DEF Crawling
<1> HIDE DEF new
<1>4. ToSet(e) = ToSet(d) \cup new
  <2>1. ToSet(order) = new
    BY <1>2 DEF ToSet
  <2> HIDE DEF d
  <2> QED
    BY <1>2, <1>3, <2>1, JoinedSet
<1>5. /\ pushed \in Seq(Places \cup {Base})
      /\ \A m \in DOMAIN pushed : \E k \in DOMAIN order :
           order[k].coll /\ order[k].path = pushed[m]
      /\ \A k \in DOMAIN order : order[k].coll =>
           \E m \in DOMAIN pushed : order[k].path = pushed[m]
      /\ \A l, m \in DOMAIN pushed : pushed[l] = pushed[m] => l = m
  BY <1>2, QueueIs
<1> HIDE DEF pushed
<1>6. /\ \A m \in DOMAIN pushed : \E r \in new : r.path = pushed[m]
      /\ \A r \in new : r.coll => \E m \in DOMAIN pushed : r.path = pushed[m]
  BY <1>2, <1>5
<1>7. /\ t \in Seq(Places \cup {Base}) /\ 1 \in DOMAIN c.queue
      /\ \A m \in DOMAIN t : m + 1 \in DOMAIN c.queue /\ t[m] = c.queue[m + 1]
      /\ \A m \in DOMAIN c.queue : m # 1 =>
           \E l \in DOMAIN t : m = l + 1 /\ t[l] = c.queue[m]
  BY <1>3, TailIs
<1> HIDE DEF t
<1>8. /\ Len(t) \in Nat /\ DOMAIN t = 1..Len(t) /\ DOMAIN pushed \subseteq Nat
      /\ \A m \in DOMAIN t : m \in DOMAIN queue /\ queue[m] = t[m]
      /\ \A m \in DOMAIN pushed :
           Len(t) + m \in DOMAIN queue /\ queue[Len(t) + m] = pushed[m]
      /\ \A m \in DOMAIN queue :
           m \in DOMAIN t \/ \E l \in DOMAIN pushed : m = Len(t) + l
  <2>1. Len(pushed) \in Nat /\ DOMAIN pushed = 1..Len(pushed)
    BY <1>5
  <2> QED
    BY <1>5, <1>7, <2>1, JoinIs
<1> HIDE DEF queue
<1>9. \A k \in DOMAIN d : d[k].path \in Seen(c)
  BY SeenIs
<1>10. \A r \in ToSet(d) : \E k \in DOMAIN d : r = d[k]
  BY DEF ToSet
<1>11. /\ ItemOK(root, d) /\ QueueOK(root, c.queue, d)
       /\ Covered(root, c.queue, d) /\ Unlisted(c.queue, d)
       /\ IsTop(root.path) /\ root.path \in Seen(c)
  BY SeenIs
<1>12. \A p \in Seen(c) :
         p = root.path \/ \E k \in DOMAIN d : p = d[k].path
  BY SeenIs
<1> HIDE DEF root, d, e
<1>13. at # Base
  BY <1>1, <1>11 DEF ItemOK, IsTop
<1>14. \A p \in Seen(c) : Front(p) # at
  <2>1. Front(root.path) # at
    BY <1>11, <1>13 DEF IsTop
  <2>2. \A k \in DOMAIN d : d[k] \in ToSet(d)
    BY DEF ToSet
  <2>3. \A k \in DOMAIN d : Front(d[k].path) # at
    BY <1>1, <1>7, <1>11, <2>2 DEF Unlisted
  <2> QED
    BY <1>12, <2>1, <2>3
<1>15. Covered(root, queue, e)
  <2>1. new \subseteq ever
    <3>1. ASSUME NEW r \in new
          PROVE  r \in Resources(library)
      <4>1. r.path \in DOMAIN library \ {Base} /\ r = At(library, r.path)
        BY <1>1, ListingIs DEF Unseen, new
      <4> QED
        BY <4>1 DEF Resources
    <3> QED
      BY <3>1 DEF Recorded
  <2>2. ToSet(e) \subseteq ever
    BY <1>4, <1>11, <2>1 DEF Covered
  <2>3. ASSUME NEW r \in Below(always, root.path)
        PROVE  \/ r \in ToSet(e)
               \/ \E m \in DOMAIN queue : IsPrefix(queue[m], r.path) /\ queue[m] # r.path
    <3>1. CASE r \in ToSet(d)
      BY <1>4, <3>1
    <3>2. ASSUME NEW m \in DOMAIN c.queue, m # 1,
                 IsPrefix(c.queue[m], r.path), c.queue[m] # r.path
          PROVE  \E l \in DOMAIN queue : IsPrefix(queue[l], r.path) /\ queue[l] # r.path
      BY <1>7, <1>8, <3>2
    <3>3. CASE IsPrefix(at, r.path) /\ at # r.path
      <4>1. r \in Resources(library)
        BY DEF Below, Recorded
      <4>2. at \in Seq(STRING)
        BY <1>1, PlacesAreSequences
      <4>3. \/ r \in new
            \/ \E x \in new : x.coll /\ IsPrefix(x.path, r.path) /\ x.path # r.path
        BY <1>14, <3>3, <4>1, <4>2, TurnReaches DEF new
      <4> QED
        BY <1>4, <1>6, <1>8, <4>3
    <3> QED
      BY <1>1, <1>11, <3>1, <3>2, <3>3 DEF Covered
  <2> QED
    BY <1>11, <2>2, <2>3 DEF Covered
<1>16. Unlisted(queue, e)
  <2>1. \A m \in DOMAIN t : t[m] \in Seen(c)
    BY <1>7, <1>9, <1>11 DEF QueueOK
  <2>2. \A m \in DOMAIN pushed : pushed[m] \notin Seen(c)
    BY <1>1, <1>6
  <2>3. \A l, m \in DOMAIN t : t[l] = t[m] => l = m
    <3>1. \A m \in DOMAIN t : m \in Nat
      BY <1>8
    <3> QED
      BY <1>7, <1>11, <3>1 DEF Unlisted
  <2>4. \A l, m \in DOMAIN queue : queue[l] = queue[m] => l = m
    BY <1>5, <1>8, <2>1, <2>2, <2>3
  <2>5. ASSUME NEW r \in ToSet(e)
        PROVE  \/ r \in ToSet(d) /\ Front(r.path) \in Seen(c)
               \/ r \in new /\ Front(r.path) = at
    <3>1. CASE r \in new
      BY <1>1, <3>1
    <3>2. CASE r \in ToSet(d)
      <4>1. PICK k \in DOMAIN d : r = d[k]
        BY <1>10, <3>2
      <4>2. k \in Nat /\ DOMAIN d = 1..Len(d) /\ Len(d) \in Nat
        BY <1>3, <4>1 DEF d
      <4>3. \A j \in 1..(k - 1) : j \in DOMAIN d
        BY <4>1, <4>2
      <4>4. Front(r.path) = root.path
            \/ \E j \in 1..(k - 1) : d[j].path = Front(r.path) /\ d[j].coll
        BY <1>11, <4>1 DEF ItemOK
      <4> QED
        BY <1>9, <1>11, <3>2, <4>3, <4>4
    <3> QED
      BY <1>4, <3>1, <3>2
  <2>6. ASSUME NEW m \in DOMAIN t, NEW r \in ToSet(e)
        PROVE  Front(r.path) # t[m]
    <3>1. m + 1 \in DOMAIN c.queue /\ t[m] = c.queue[m + 1] /\ m + 1 # 1
      BY <1>7, <1>8
    <3>2. c.queue[m + 1] # at
      BY <1>1, <1>7, <1>11, <3>1 DEF Unlisted
    <3> QED
      BY <1>11, <2>5, <3>1, <3>2 DEF Unlisted
  <2>7. ASSUME NEW m \in DOMAIN pushed, NEW r \in ToSet(e)
        PROVE  Front(r.path) # pushed[m]
    BY <1>1, <2>2, <2>5
  <2>8. \A m \in DOMAIN queue, r \in ToSet(e) : Front(r.path) # queue[m]
    BY <1>8, <2>6, <2>7
  <2> QED
    BY <2>4, <2>8 DEF Unlisted
<1> QED
  BY <1>15, <1>16 DEF root, d, e, queue, t, pushed

LEMMA FaithInit == Init => FaithInv
BY NoCrawls DEF Init, FaithInv, Recorded, TopsOK, CrawlsOK

\* A change of the library under a scan.
LEMMA ChangeKeepsFaith ==
  ASSUME FaithInv, NEW lib, Change(lib)
  PROVE  FaithInv'
<1>1. /\ UNCHANGED <<scanning, full, waiting, crawls, catalogue>>
      /\ always' \subseteq always /\ ever \subseteq ever'
      /\ always' \subseteq Resources(lib) /\ library' = lib
      /\ scanning => Resources(lib) \subseteq ever'
  BY DEF Change
<1>2. \A p : Below(always', p) \subseteq Below(always, p)
  BY <1>1 DEF Below
<1>3. Recorded'
  BY <1>1 DEF FaithInv, Recorded, Resources, At
<1>4. TopsOK'
  <2>1. Tops(always') \subseteq Tops(always)
    BY <1>1 DEF Tops
  <2> QED
    BY <1>1, <1>2, <2>1 DEF FaithInv, TopsOK
<1>5. ASSUME NEW root, NEW queue, NEW d, Covered(root, queue, d)
      PROVE  Covered(root, queue, d)'
  BY <1>1, <1>2, <1>5 DEF Covered
<1>6. CrawlsOK'
  <2>1. \A root, queue, d : Reused(root, queue, d) => Reused(root, queue, d)'
    BY <1>1 DEF Reused
  <2> QED
    BY <1>1, <1>5, <2>1 DEF FaithInv, CrawlsOK
<1> QED
  BY <1>3, <1>4, <1>6 DEF FaithInv

LEMMA DiscoverKeepsFaith ==
  ASSUME TypeOK, LibraryOK, FaithInv, ~BaseEncoded, Discover
  PROVE  FaithInv'
<1>1. /\ scanning' /\ waiting' = Children /\ crawls' = <<>>
      /\ always' = Resources(library) /\ ever' = Resources(library)
      /\ UNCHANGED <<library, catalogue>>
  BY DEF Discover
<1>2. \A w \in Children :
        /\ w \in Resources(library) /\ IsTop(w.path) /\ w = At(library, w.path)
  <2>1. \A w \in Children :
          /\ w.path \in DOMAIN library \ {Base} /\ w = At(library, w.path)
          /\ Front(w.path) = Base
    BY ListingIs DEF Children
  <2> QED
    BY <2>1 DEF Resources, IsTop
<1>3. \A r \in Tops(Resources(library)) : r \in Children
  <2>1. ASSUME NEW r \in Resources(library), Len(r.path) = 1
        PROVE  r \in Children
    <3>1. r.path \in DOMAIN library \ {Base} /\ r = At(library, r.path)
          /\ r.path \in Places
      BY ShownIs
    <3>2. Front(r.path) = Base /\ r.path # Base
      BY <2>1, <3>1, TopIs DEF IsTop
    <3> QED
      BY <3>1, <3>2, ListingIs DEF Children
  <2> QED
    BY <2>1 DEF Tops
<1>4. \A w \in Children : ~w.coll => Below(Resources(library), w.path) = {}
  BY <1>2, NothingBelowFiles
<1>5. Recorded'
  <2>1. always' = Resources(library)' /\ ever' = Resources(library)'
    BY <1>1 DEF Resources, At
  <2> QED
    BY <1>1, <2>1 DEF Recorded
<1>6. TopsOK'
  <2>1. \A w \in Children : /\ IsTop(w.path) /\ w \in ever'
                            /\ ~w.coll => Below(always', w.path) = {}
    BY <1>1, <1>2, <1>4
  <2>2. \A v, w \in Children : v.path = w.path => v = w
    BY <1>2
  <2>3. Tops(always') \subseteq Children
    BY <1>1, <1>3
  <2>4. DOMAIN crawls' = {}
    BY <1>1, NoCrawls
  <2> QED
    BY <1>1, <2>1, <2>2, <2>3, <2>4 DEF FaithInv, TopsOK
<1>7. CrawlsOK'
  BY <1>1, NoCrawls DEF CrawlsOK
<1> QED
  BY <1>5, <1>6, <1>7 DEF FaithInv

LEMMA BeginKeepsFaith ==
  ASSUME TypeOK, FaithInv, Begin
  PROVE  FaithInv'
<1>1. PICK r \in waiting : /\ waiting' = waiting \ {r}
                          /\ crawls' = With(crawls, r.path, Begun(r))
  BY BeginIs
<1> DEFINE c == Begun(r)
<1>2. UNCHANGED <<library, scanning, full, catalogue, always, ever>>
  BY DEF Begin
<1>3. /\ IsTop(r.path) /\ r.path \notin DOMAIN crawls /\ r \in ever
      /\ ~r.coll => Below(always, r.path) = {}
      /\ \A w \in waiting : w.path = r.path => w = r
  BY DEF FaithInv, TopsOK
<1>4. /\ c.root = r
      /\ \/ /\ Cached(r) = {}
            /\ c.queue = IF r.coll THEN <<r.path>> ELSE <<>>
            /\ c.descendants = <<>>
         \/ /\ c.queue = <<>> /\ ~full
            /\ \E i \in catalogue : i.root = r /\ i.descendants = c.descendants
  BY BegunIs
<1> HIDE DEF c
<1>5. /\ DOMAIN crawls' = DOMAIN crawls \cup {r.path}
      /\ crawls'[r.path] = c
      /\ \A p \in DOMAIN crawls : crawls'[p] = crawls[p]
  <2>1. crawls' = With(crawls, r.path, c)
    BY <1>1 DEF c
  <2> QED
    BY <1>3, <2>1 DEF With
<1>6. \/ Reused(r, c.queue, c.descendants)
      \/ Covered(r, c.queue, c.descendants) /\ Unlisted(c.queue, c.descendants)
  <2>1. CASE /\ Cached(r) = {}
             /\ c.queue = IF r.coll THEN <<r.path>> ELSE <<>>
             /\ c.descendants = <<>>
    <3>1. /\ DOMAIN <<>> = {} /\ DOMAIN <<r.path>> = {1} /\ <<r.path>>[1] = r.path
          /\ ToSet(c.descendants) = {}
      BY <2>1 DEF ToSet
    <3>2. full \/ r \notin {i.root : i \in catalogue}
      BY <2>1 DEF Cached
    <3>3. ASSUME NEW s \in Below(always, r.path)
          PROVE  \E m \in DOMAIN c.queue : IsPrefix(c.queue[m], s.path) /\ c.queue[m] # s.path
      <4>1. r.coll /\ IsPrefix(r.path, s.path) /\ r.path # s.path
        BY <1>3, <3>3 DEF Below
      <4> QED
        BY <2>1, <3>1, <4>1
    <3>4. Covered(r, c.queue, c.descendants)
      BY <3>1, <3>2, <3>3 DEF Covered
    <3>5. Unlisted(c.queue, c.descendants)
      BY <2>1, <3>1 DEF Unlisted
    <3> QED
      BY <3>4, <3>5
  <2>2. CASE /\ c.queue = <<>> /\ ~full
             /\ \E i \in catalogue : i.root = r /\ i.descendants = c.descendants
    BY <2>2 DEF Reused
  <2> QED
    BY <1>4, <2>1, <2>2
<1>7. Recorded'
  BY <1>2 DEF FaithInv, Recorded, Resources, At
<1>8. TopsOK'
  <2>1. \A p \in DOMAIN crawls' :
          IsTop(crawls'[p].root.path) /\ crawls'[p].root \in ever
    BY <1>3, <1>4, <1>5 DEF FaithInv, TopsOK
  <2>2. \A w \in waiting' :
          /\ IsTop(w.path) /\ w.path \notin DOMAIN crawls' /\ w \in ever
          /\ ~w.coll => Below(always, w.path) = {}
    BY <1>1, <1>3, <1>5 DEF FaithInv, TopsOK
  <2>3. \A v, w \in waiting' : v.path = w.path => v = w
    BY <1>1 DEF FaithInv, TopsOK
  <2>4. waiting \cup {crawls[p].root : p \in DOMAIN crawls}
        \subseteq waiting' \cup {crawls'[p].root : p \in DOMAIN crawls'}
    BY <1>1, <1>4, <1>5
  <2>5. scanning => Tops(always) \subseteq waiting' \cup {crawls'[p].root : p \in DOMAIN crawls'}
    BY <2>4 DEF FaithInv, TopsOK
  <2>6. \A i \in catalogue : IsTop(i.root.path)
    BY DEF FaithInv, TopsOK
  <2> QED
    BY <1>2, <2>1, <2>2, <2>3, <2>5, <2>6 DEF TopsOK
<1>9. CrawlsOK'
  <2>1. /\ \A root, queue, d : Reused(root, queue, d) => Reused(root, queue, d)'
        /\ \A root, queue, d : Covered(root, queue, d) => Covered(root, queue, d)'
    BY <1>2 DEF Reused, Covered
  <2>2. ASSUME NEW p \in DOMAIN crawls'
        PROVE  LET b == crawls'[p]
               IN \/ Reused(b.root, b.queue, b.descendants)
                  \/ /\ Covered(b.root, b.queue, b.descendants)
                     /\ Unlisted(b.queue, b.descendants)
    BY <1>4, <1>5, <1>6 DEF FaithInv, CrawlsOK
  <2> QED
    BY <2>1, <2>2 DEF CrawlsOK
<1> QED
  BY <1>7, <1>8, <1>9 DEF FaithInv

LEMMA CrawlStepKeepsFaith ==
  ASSUME TypeOK, LibraryOK, ItemsOK, FaithInv, PlainNames, NEW p, CrawlStep(p)
  PROVE  FaithInv'
<1> DEFINE c == crawls[p]
           at == Requested(Head(c.queue))
<1>1. p \in DOMAIN crawls /\ c \in Crawling /\ c.queue # <<>>
  BY CrawlStepIs
<1>2. PICK order \in SetToSeqs(Unseen(c, at)) :
        crawls' = [crawls EXCEPT ![p] =
          [root |-> c.root, queue |-> Tail(c.queue) \o Collections(order),
           descendants |-> c.descendants \o order]]
  BY CrawlStepIs
<1>3. UNCHANGED <<library, scanning, full, waiting, catalogue, always, ever>>
  BY DEF CrawlStep
<1>4. scanning
  BY <1>1, NoCrawls DEF TypeOK
<1>5. /\ ItemOK(c.root, c.descendants) /\ QueueOK(c.root, c.queue, c.descendants)
      /\ IsTop(c.root.path) /\ c.root \in ever
      /\ \/ Reused(c.root, c.queue, c.descendants)
         \/ /\ Covered(c.root, c.queue, c.descendants)
            /\ Unlisted(c.queue, c.descendants)
  BY <1>1 DEF ItemsOK, FaithInv, TopsOK, CrawlsOK
<1>6. Covered(c.root, c.queue, c.descendants) /\ Unlisted(c.queue, c.descendants)
  BY <1>1, <1>5 DEF Reused
<1> DEFINE q == Tail(c.queue) \o Collections(order)
           d == c.descendants \o order
<1> HIDE DEF c
<1>7. Covered(c.root, q, d) /\ Unlisted(q, d)
  BY <1>1, <1>4, <1>5, <1>6, TurnKeepsCover DEF FaithInv
<1> HIDE DEF q, d
<1>8. /\ DOMAIN crawls' = DOMAIN crawls
      /\ crawls'[p] = [root |-> c.root, queue |-> q, descendants |-> d]
      /\ \A o \in DOMAIN crawls : o # p => crawls'[o] = crawls[o]
  BY <1>1, <1>2 DEF q, d
<1>9. \A o \in DOMAIN crawls' : crawls'[o].root = crawls[o].root
  BY <1>8 DEF c
<1>10. Recorded'
  BY <1>3 DEF FaithInv, Recorded, Resources, At
<1>11. TopsOK'
  <2>1. {crawls'[o].root : o \in DOMAIN crawls'} = {crawls[o].root : o \in DOMAIN crawls}
    BY <1>8, <1>9
  <2> QED
    BY <1>3, <1>8, <1>9, <2>1 DEF FaithInv, TopsOK
<1>12. CrawlsOK'
  <2>1. /\ \A root, queue, b : Reused(root, queue, b) => Reused(root, queue, b)'
        /\ \A root, queue, b : Covered(root, queue, b) => Covered(root, queue, b)'
    BY <1>3 DEF Reused, Covered
  <2>2. ASSUME NEW o \in DOMAIN crawls'
        PROVE  LET b == crawls'[o]
               IN \/ Reused(b.root, b.queue, b.descendants)
                  \/ /\ Covered(b.root, b.queue, b.descendants)
                     /\ Unlisted(b.queue, b.descendants)
    BY <1>7, <1>8 DEF FaithInv, CrawlsOK
  <2> QED
    BY <2>1, <2>2 DEF CrawlsOK
<1> QED
  BY <1>10, <1>11, <1>12 DEF FaithInv

\* A scan that ends leaves nothing of its own but the catalogue.
LEMMA EndKeepsFaith ==
  ASSUME FaithInv, ~scanning', waiting' = {}, crawls' = <<>>, always' = {},
         \A i \in catalogue' : IsTop(i.root.path)
  PROVE  FaithInv'
BY NoCrawls DEF FaithInv, Recorded, TopsOK, CrawlsOK

LEMMA NextKeepsFaith ==
  /\ PlainNames /\ ~BaseEncoded
  /\ TypeOK /\ LibraryOK /\ ItemsOK /\ FaithInv /\ [Next]_vars
  => FaithInv'
<1> SUFFICES ASSUME PlainNames, ~BaseEncoded, TypeOK, LibraryOK, ItemsOK, FaithInv,
                    [Next]_vars
             PROVE  FaithInv'
  OBVIOUS
<1>1. \A i \in catalogue : IsTop(i.root.path)
  BY DEF FaithInv, TopsOK
<1>2. CASE Put \/ Touch \/ Vanish
  BY <1>2, ChangeKeepsFaith DEF Put, Touch, Vanish
<1>3. CASE PropfindFails \/ \E p : CrawlMissing(p)
  BY <1>1, <1>3, EndKeepsFaith DEF PropfindFails, CrawlMissing, Abandon
<1>4. CASE Collect
  <2>1. \A i \in catalogue' : IsTop(i.root.path)
    BY <1>4 DEF Collect, FaithInv, TopsOK
  <2> QED
    BY <1>4, <2>1, EndKeepsFaith DEF Collect, Finished
<1>5. ASSUME NEW i, DeleteItem(i)
      PROVE  FaithInv'
  <2>1. crawls = <<>> /\ waiting = {} /\ always = {}
    BY <1>5 DEF DeleteItem, TypeOK, FaithInv, Recorded
  <2> QED
    BY <1>1, <1>5, <2>1, EndKeepsFaith DEF DeleteItem
<1>6. CASE BodyStalls \/ BodyResumes \/ UNCHANGED vars
  <2>1. UNCHANGED <<library, scanning, full, waiting, crawls, catalogue, always, ever>>
    BY <1>6 DEF BodyStalls, BodyResumes, vars
  <2> QED
    BY <2>1 DEF FaithInv, Recorded, TopsOK, CrawlsOK, Resources, At, Reused, Covered
<1> QED
  BY <1>2, <1>3, <1>4, <1>5, <1>6, DiscoverKeepsFaith, BeginKeepsFaith,
     CrawlStepKeepsFaith DEF Next, ScanStep

LEMMA FaithInvariant ==
  ASSUME PlainNames, ~BaseEncoded
  PROVE  Spec => [](TypeOK /\ LibraryOK /\ ItemsOK /\ FaithInv)
<1>1. TypeOK /\ LibraryOK /\ ItemsOK /\ FaithInv /\ [Next]_vars => FaithInv'
  BY NextKeepsFaith
<1> QED
  BY <1>1, FaithInit, CrawlTyped, ItemsInvariant, PTL DEF Spec

LEMMA CollectIsFaithful ==
  ASSUME TypeOK, FaithInv, Collect
  PROVE  /\ IsBetween(Tops(always), {i.root : i \in catalogue'}, ever)
         /\ \A i \in catalogue' :
              \/ ~full /\ i \in catalogue
              \/ /\ full \/ i.root \notin {c.root : c \in catalogue}
                 /\ IsBetween(Below(always, i.root.path), Descendants(i), ever)
<1>1. /\ scanning /\ waiting = {}
      /\ \A p \in DOMAIN crawls : crawls[p].queue = <<>>
      /\ catalogue' = {[root |-> crawls[p].root, descendants |-> crawls[p].descendants] :
                         p \in DOMAIN crawls}
  BY DEF Collect, Finished, InFlight
<1>2. {i.root : i \in catalogue'} = {crawls[p].root : p \in DOMAIN crawls}
  <2>1. \A i \in catalogue' : \E p \in DOMAIN crawls : i.root = crawls[p].root
    BY <1>1
  <2>2. \A p \in DOMAIN crawls : \E i \in catalogue' : i.root = crawls[p].root
    <3>1. ASSUME NEW p \in DOMAIN crawls
          PROVE  \E i \in catalogue' : i.root = crawls[p].root
      <4> DEFINE i == [root |-> crawls[p].root, descendants |-> crawls[p].descendants]
      <4>1. i \in catalogue' /\ i.root = crawls[p].root
        BY <1>1
      <4> QED
        BY <4>1
    <3> QED
      BY <3>1
  <2> QED
    BY <2>1, <2>2
<1>3. IsBetween(Tops(always), {i.root : i \in catalogue'}, ever)
  BY <1>1, <1>2 DEF FaithInv, TopsOK, IsBetween
<1>4. ASSUME NEW i \in catalogue'
      PROVE  \/ ~full /\ i \in catalogue
             \/ /\ full \/ i.root \notin {c.root : c \in catalogue}
                /\ IsBetween(Below(always, i.root.path), Descendants(i), ever)
  <2>1. PICK p \in DOMAIN crawls :
          i = [root |-> crawls[p].root, descendants |-> crawls[p].descendants]
    BY <1>1
  <2> DEFINE root == crawls[p].root
             d == crawls[p].descendants
  <2>2. \/ Reused(root, <<>>, d)
        \/ Covered(root, <<>>, d)
    BY <1>1 DEF FaithInv, CrawlsOK
  <2> HIDE DEF root, d
  <2>3. i = [root |-> root, descendants |-> d]
    BY <2>1 DEF root, d
  <2>4. CASE Reused(root, <<>>, d)
    <3>1. PICK j \in catalogue : j.root = root /\ j.descendants = d
      BY <2>4 DEF Reused
    <3>2. j \in Item
      BY DEF TypeOK
    <3>3. j = [root |-> j.root, descendants |-> j.descendants]
      BY <3>2 DEF Item
    <3> QED
      BY <2>3, <2>4, <3>1, <3>3 DEF Reused
  <2>5. CASE Covered(root, <<>>, d)
    <3>1. DOMAIN <<>> = {}
      OBVIOUS
    <3>2. Below(always, root.path) \subseteq ToSet(d) /\ ToSet(d) \subseteq ever
      BY <2>5, <3>1 DEF Covered
    <3>3. i.root = root /\ Descendants(i) = ToSet(d)
      BY <2>3 DEF Descendants
    <3> QED
      BY <2>5, <3>2, <3>3 DEF Covered, IsBetween
  <2> QED
    BY <2>2, <2>4, <2>5
<1> QED
  BY <1>3, <1>4

\* A scan under which the library changes misses nothing that was there all the
\* time and returns nothing that never was.
THEOREM ScanIsFaithful ==
  ASSUME PlainNames, ~BaseEncoded PROVE Spec => ScanFaithful
<1>1. TypeOK /\ FaithInv =>
        (Collect =>
           /\ IsBetween(Tops(always), {i.root : i \in catalogue'}, ever)
           /\ \A i \in catalogue' :
                \/ ~full /\ i \in catalogue
                \/ /\ full \/ i.root \notin {c.root : c \in catalogue}
                   /\ IsBetween(Below(always, i.root.path), Descendants(i), ever))
  BY CollectIsFaithful
<1> QED
  BY <1>1, FaithInvariant, PTL DEF Spec, ScanFaithful

-----------------------------------------------------------------------------
(* What a sequence of events makes of the response that is being filled.   *)

TextEvent(text) == [kind |-> "text", text |-> text]
TagNames == {"multistatus", "response", "href", "propstat", "prop", "status",
             "resourcetype", "collection", "getcontentlength", "getetag"}
EventSet ==
  [kind: {"start", "end", "self"}, name: TagNames] \cup {[kind |-> "other"]}
    \cup [kind: {"text"}, text: Seq(Words \cup {"HTTP"})]

\* The response and the active name after an event that does not end a response.
NextResponse(x, a, e) ==
  IF e.kind = "start"
  THEN IF e.name = "response" THEN NoResponse
       ELSE IF e.name = "collection" /\ x # None THEN [x EXCEPT !.collection = TRUE] ELSE x
  ELSE IF e.kind = "self"
  THEN IF e.name = "collection" /\ x # None THEN [x EXCEPT !.collection = TRUE] ELSE x
  ELSE IF e.kind = "text"
  THEN IF x = None THEN None
       ELSE CASE a = "href" -> [x EXCEPT !.href = e.text]
              [] a = "getcontentlength" -> [x EXCEPT !.size = Parsed(e.text)]
              [] a = "getetag" -> [x EXCEPT !.etag = e.text]
              [] OTHER -> x
  ELSE x
NextActive(a, e) ==
  IF e.kind = "start" THEN e.name ELSE IF e.kind = "end" THEN "" ELSE a

\* f and g are the responses and active names, from x on, while s is read.
Runs(f, g, s, x) ==
  /\ f[0] = x
  /\ \A i \in 1..Len(s) : /\ f[i] = NextResponse(f[i - 1], g[i - 1], s[i])
                          /\ g[i] = NextActive(g[i - 1], s[i])

\* The events of s are inside a response, and make y of x.
Yields(s, x, y) ==
  /\ s \in Seq(EventSet)
  /\ \A i \in 1..Len(s) : s[i] # End("response")
  /\ \A f, g : Runs(f, g, s, x) => f[Len(s)] = y

LEMMA RunEmpty ==
  ASSUME NEW x
  PROVE  Yields(<<>>, x, x)
BY DEF Yields, Runs

LEMMA RunEmptySame ==
  ASSUME NEW x, NEW y, Yields(<<>>, x, y)
  PROVE  x = y
<1> DEFINE f == [i \in 0..0 |-> x]
<1>1. Runs(f, f, <<>>, x)
  BY DEF Runs
<1>2. f[Len(<<>>)] = x
  OBVIOUS
<1> HIDE DEF f
<1> QED
  BY <1>1, <1>2 DEF Yields

LEMMA RunOne ==
  ASSUME NEW e \in EventSet, e # End("response"), NEW x, NEW y,
         \A a : NextResponse(x, a, e) = y
  PROVE  Yields(<<e>>, x, y)
<1> DEFINE s == <<e>>
<1>1. s \in Seq(EventSet) /\ Len(s) = 1 /\ s[1] = e
  OBVIOUS
<1> HIDE DEF s
<1>2. ASSUME NEW f, NEW g, Runs(f, g, s, x)
      PROVE  f[Len(s)] = y
  BY <1>1, <1>2 DEF Runs
<1>3. \A i \in 1..Len(s) : s[i] # End("response")
  BY <1>1
<1> QED
  BY <1>1, <1>2, <1>3 DEF Yields, s

LEMMA RunJoin ==
  ASSUME NEW s, NEW t, NEW x, NEW y, NEW z, Yields(s, x, y), Yields(t, y, z)
  PROVE  Yields(s \o t, x, z)
<1>1. s \in Seq(EventSet) /\ t \in Seq(EventSet) /\ Len(s) \in Nat /\ Len(t) \in Nat
  BY DEF Yields
<1> DEFINE u == s \o t
<1>2. /\ u \in Seq(EventSet) /\ Len(u) = Len(s) + Len(t)
      /\ \A i \in 1..Len(s) + Len(t) : u[i] = IF i <= Len(s) THEN s[i] ELSE t[i - Len(s)]
  BY <1>1, ConcatProperties
<1> HIDE DEF u
<1>3. \A i \in 1..Len(u) : u[i] # End("response")
  BY <1>1, <1>2 DEF Yields
<1>4. ASSUME NEW f, NEW g, Runs(f, g, u, x)
      PROVE  f[Len(u)] = z
  <2>1. Runs(f, g, s, x)
    BY <1>1, <1>2, <1>4 DEF Runs
  <2>2. f[Len(s)] = y
    BY <2>1 DEF Yields
  <2> DEFINE f2 == [i \in 0..Len(t) |-> f[Len(s) + i]]
             g2 == [i \in 0..Len(t) |-> g[Len(s) + i]]
  <2>3. \A i \in 0..Len(t) : f2[i] = f[Len(s) + i] /\ g2[i] = g[Len(s) + i]
    OBVIOUS
  <2>4. f2[0] = y
    BY <1>1, <2>2
  <2>5. ASSUME NEW i \in 1..Len(t)
        PROVE  /\ f2[i] = NextResponse(f2[i - 1], g2[i - 1], t[i])
               /\ g2[i] = NextActive(g2[i - 1], t[i])
    <3> HIDE DEF f2, g2
    <3>1. /\ Len(s) + i \in 1..Len(u) /\ (Len(s) + i) - 1 = Len(s) + (i - 1)
          /\ i \in 0..Len(t) /\ i - 1 \in 0..Len(t)
          /\ u[Len(s) + i] = t[i]
      <4>1. Len(s) + i \in 1..Len(u) /\ (Len(s) + i) - 1 = Len(s) + (i - 1)
        BY <1>1, <1>2
      <4>2. i \in 0..Len(t) /\ i - 1 \in 0..Len(t)
        BY <1>1
      <4>3. ~ (Len(s) + i <= Len(s)) /\ (Len(s) + i) - Len(s) = i
        BY <1>1
      <4> QED
        BY <1>2, <4>1, <4>2, <4>3
    <3>2. /\ f[Len(s) + i] = NextResponse(f[Len(s) + (i - 1)], g[Len(s) + (i - 1)], t[i])
          /\ g[Len(s) + i] = NextActive(g[Len(s) + (i - 1)], t[i])
      BY <1>4, <3>1 DEF Runs
    <3> QED
      BY <2>3, <3>1, <3>2
  <2> HIDE DEF f2, g2
  <2>6. Runs(f2, g2, t, y)
    BY <2>4, <2>5 DEF Runs
  <2>7. f2[Len(t)] = z
    BY <2>6 DEF Yields
  <2> QED
    BY <1>1, <1>2, <2>3, <2>7
<1> QED
  BY <1>2, <1>3, <1>4 DEF Yields, u

\* The elements that are not dealt with when they begin or end.
Ordinary == TagNames \ {"response", "collection"}

LEMMA OrdinaryNames ==
  /\ "href" \in Ordinary /\ "getcontentlength" \in Ordinary /\ "getetag" \in Ordinary
  /\ "resourcetype" \in Ordinary /\ "prop" \in Ordinary /\ "status" \in Ordinary
  /\ "propstat" \in Ordinary
BY DEF Ordinary, TagNames

LEMMA TagsTyped ==
  ASSUME NEW name \in TagNames
  PROVE  /\ Start(name) \in EventSet /\ Self(name) \in EventSet /\ End(name) \in EventSet
         /\ Start(name) # End("response") /\ Self(name) # End("response")
         /\ name # "response" => End(name) # End("response")
BY DEF Start, Self, End, Tag, EventSet

LEMMA RunElement ==
  ASSUME NEW name \in Ordinary, NEW inner, NEW x, NEW y,
         Yields(inner, x, y)
  PROVE  Yields(Element(name, inner), x, y)
<1>1. Yields(<<Start(name)>>, x, x)
  <2>1. Start(name) \in EventSet /\ Start(name) # End("response")
    BY TagsTyped DEF Ordinary
  <2>2. \A a : NextResponse(x, a, Start(name)) = x
    BY DEF NextResponse, Start, Tag, Ordinary
  <2> QED
    BY <2>1, <2>2, RunOne
<1>2. Yields(<<End(name)>>, y, y)
  <2>1. End(name) \in EventSet /\ End(name) # End("response")
    BY TagsTyped DEF Ordinary
  <2>2. \A a : NextResponse(y, a, End(name)) = y
    BY DEF NextResponse, End, Tag
  <2> QED
    BY <2>1, <2>2, RunOne
<1>3. Yields(<<Start(name)>> \o inner, x, y)
  BY <1>1, RunJoin
<1>4. Yields((<<Start(name)>> \o inner) \o <<End(name)>>, x, y)
  BY <1>2, <1>3, RunJoin
<1> QED
  BY <1>4 DEF Element

LEMMA ThreeJoined ==
  ASSUME NEW S, NEW a \in S, NEW b \in S, NEW c \in S
  PROVE  LET s == <<a>> \o <<b>> \o <<c>>
         IN s \in Seq(S) /\ Len(s) = 3 /\ s[1] = a /\ s[2] = b /\ s[3] = c
<1> DEFINE s == <<a>>
           t == <<b>>
           u == <<c>>
<1>1. /\ s \in Seq(S) /\ t \in Seq(S) /\ u \in Seq(S)
      /\ Len(s) = 1 /\ Len(t) = 1 /\ Len(u) = 1 /\ s[1] = a /\ t[1] = b /\ u[1] = c
  OBVIOUS
<1> HIDE DEF s, t, u
<1>2. /\ s \o t \in Seq(S) /\ Len(s \o t) = 2 /\ (s \o t)[1] = a /\ (s \o t)[2] = b
  BY <1>1, ConcatProperties
<1>3. /\ (s \o t) \o u \in Seq(S) /\ Len((s \o t) \o u) = 3
      /\ ((s \o t) \o u)[1] = a /\ ((s \o t) \o u)[2] = b /\ ((s \o t) \o u)[3] = c
  BY <1>1, <1>2, ConcatProperties
<1> QED
  BY <1>3 DEF s, t, u

\* A text is that of the element around it.
LEMMA RunText ==
  ASSUME NEW name \in Ordinary,
         NEW text \in Seq(Words \cup {"HTTP"}), NEW x
  PROVE  Yields(Element(name, <<TextEvent(text)>>), x, NextResponse(x, name, TextEvent(text)))
<1> DEFINE s == Element(name, <<TextEvent(text)>>)
           y == NextResponse(x, name, TextEvent(text))
<1>1. /\ Start(name) \in EventSet /\ End(name) \in EventSet /\ TextEvent(text) \in EventSet
      /\ Start(name) # End("response") /\ End(name) # End("response")
      /\ TextEvent(text) # End("response")
  BY TagsTyped DEF End, Tag, TextEvent, EventSet, Ordinary
<1>2. s = <<Start(name)>> \o <<TextEvent(text)>> \o <<End(name)>>
  BY DEF Element
<1> HIDE DEF s
<1>3. /\ s \in Seq(EventSet) /\ Len(s) = 3
      /\ s[1] = Start(name) /\ s[2] = TextEvent(text) /\ s[3] = End(name)
  <2> HIDE DEF y
  <2>1. LET t == <<Start(name)>> \o <<TextEvent(text)>> \o <<End(name)>>
        IN /\ t \in Seq(EventSet) /\ Len(t) = 3
           /\ t[1] = Start(name) /\ t[2] = TextEvent(text) /\ t[3] = End(name)
    BY <1>1, ThreeJoined
  <2> QED
    BY <1>2, <2>1
<1>4. \A z, a : /\ NextResponse(z, a, Start(name)) = z /\ NextActive(a, Start(name)) = name
                /\ NextResponse(z, a, End(name)) = z
  BY DEF NextResponse, NextActive, Start, End, Tag, Ordinary
<1>5. ASSUME NEW f, NEW g, Runs(f, g, s, x)
      PROVE  f[Len(s)] = y
  <2>1. f[0] = x /\ f[1] = x /\ g[1] = name
    BY <1>3, <1>4, <1>5 DEF Runs
  <2>2. f[2] = y
    BY <1>3, <1>5, <2>1 DEF Runs
  <2>3. f[3] = f[2]
    BY <1>3, <1>4, <1>5 DEF Runs
  <2> QED
    BY <1>3, <2>2, <2>3
<1>6. \A i \in 1..Len(s) : s[i] # End("response")
  <2>1. \A i \in 1..3 : i = 1 \/ i = 2 \/ i = 3
    OBVIOUS
  <2> QED
    BY <1>1, <1>3, <2>1
<1> HIDE DEF y
<1>7. Yields(s, x, y)
  BY <1>3, <1>5, <1>6 DEF Yields
<1> QED
  BY <1>7 DEF s, y

-----------------------------------------------------------------------------
(* Sequences that are joined.                                              *)

JoinedBy(f, seqs) ==
  f = [i \in 1..Len(seqs) |-> IF i = 1 THEN seqs[i] ELSE f[i - 1] \o seqs[i]]

LEMMA JoinExists ==
  ASSUME NEW S, NEW seqs \in Seq(S)
  PROVE  \E f : JoinedBy(f, seqs)
<1> DEFINE Step(f, i) == IF i = 1 THEN seqs[i] ELSE f[i - 1] \o seqs[i]
           T == {n \in Nat : \E f : f = [i \in 1..n |-> Step(f, i)]}
<1>1. 0 \in T
  <2> DEFINE f == [i \in 1..0 |-> 0]
  <2>1. f = [i \in 1..0 |-> Step(f, i)]
    OBVIOUS
  <2> HIDE DEF f, Step
  <2> QED
    BY <2>1
<1>2. ASSUME NEW n \in Nat, n \in T
      PROVE  n + 1 \in T
  <2>1. PICK f : f = [i \in 1..n |-> Step(f, i)]
    BY <1>2
  <2> DEFINE g == [i \in 1..(n + 1) |-> Step(f, i)]
  <2>2. \A i \in 1..n : g[i] = f[i]
    <3> HIDE DEF Step
    <3>1. \A i \in 1..n : i \in 1..(n + 1)
      OBVIOUS
    <3> QED
      BY <2>1, <3>1
  <2>3. ASSUME NEW i \in 1..(n + 1)
        PROVE  Step(g, i) = Step(f, i)
    <3>1. i # 1 => i - 1 \in 1..n
      OBVIOUS
    <3>2. i # 1 => g[i - 1] = f[i - 1]
      <4> HIDE DEF g
      <4> QED
        BY <2>2, <3>1
    <3> HIDE DEF g
    <3> QED
      BY <3>2
  <2>4. g = [i \in 1..(n + 1) |-> Step(g, i)]
    <3> HIDE DEF Step
    <3> QED
      BY <2>3
  <2> HIDE DEF g, Step
  <2> QED
    BY <2>4
<1> DEFINE N == Len(seqs)
<1>3. N \in Nat
  OBVIOUS
<1>4. N \in T
  <2> HIDE DEF T, N
  <2>1. Nat \subseteq T
    BY <1>1, <1>2, SetInduction
  <2> QED
    BY <1>3, <2>1
<1>5. PICK f : f = [i \in 1..N |-> Step(f, i)]
  <2> HIDE DEF N, Step
  <2> QED
    BY <1>4
<1> QED
  BY <1>5 DEF JoinedBy

\* What FlattenSeq does.
LEMMA FlattenIs ==
  ASSUME NEW S, NEW seqs \in Seq(S)
  PROVE  /\ Len(seqs) = 0 => FlattenSeq(seqs) = <<>>
         /\ Len(seqs) > 0 =>
              \E f : /\ FlattenSeq(seqs) = f[Len(seqs)] /\ f[1] = seqs[1]
                     /\ \A i \in 2..Len(seqs) : f[i] = f[i - 1] \o seqs[i]
<1>1. Len(seqs) \in Nat /\ (Len(seqs) = 0 => seqs = <<>>)
  OBVIOUS
<1> DEFINE f == CHOOSE f : JoinedBy(f, seqs)
<1>2. Len(seqs) # 0 => FlattenSeq(seqs) = f[Len(seqs)]
  BY Zenon DEF FlattenSeq, JoinedBy
<1>3. Len(seqs) = 0 => FlattenSeq(seqs) = <<>>
  BY <1>1 DEF FlattenSeq
<1>4. JoinedBy(f, seqs)
  BY JoinExists
<1> HIDE DEF f
<1>5. Len(seqs) > 0 => /\ f[1] = seqs[1]
                       /\ \A i \in 2..Len(seqs) : f[i] = f[i - 1] \o seqs[i]
  <2> SUFFICES ASSUME Len(seqs) > 0
               PROVE  f[1] = seqs[1] /\ \A i \in 2..Len(seqs) : f[i] = f[i - 1] \o seqs[i]
    OBVIOUS
  <2>1. 1 \in 1..Len(seqs) /\ \A i \in 2..Len(seqs) : i \in 1..Len(seqs) /\ i # 1
    BY <1>1
  <2>2. \A i \in 1..Len(seqs) : f[i] = IF i = 1 THEN seqs[i] ELSE f[i - 1] \o seqs[i]
    <3> DEFINE b(i) == IF i = 1 THEN seqs[i] ELSE f[i - 1] \o seqs[i]
    <3>1. f = [i \in 1..Len(seqs) |-> b(i)]
      BY <1>4 DEF JoinedBy
    <3> HIDE DEF b
    <3>2. \A i \in 1..Len(seqs) : f[i] = b(i)
      BY <3>1
    <3> QED
      BY <3>2 DEF b
  <2> QED
    BY <2>1, <2>2
<1>6. Len(seqs) > 0 => FlattenSeq(seqs) = f[Len(seqs)]
  BY <1>1, <1>2
<1> QED
  BY <1>3, <1>5, <1>6, Zenon

LEMMA FlattenOne ==
  ASSUME NEW S, NEW seqs \in Seq(S), Len(seqs) = 1
  PROVE  FlattenSeq(seqs) = seqs[1]
<1>1. PICK f : FlattenSeq(seqs) = f[Len(seqs)] /\ f[1] = seqs[1]
  <2>1. Len(seqs) > 0
    OBVIOUS
  <2> QED
    BY <2>1, FlattenIs
<1> QED
  BY <1>1

\* Where each of the sequences is in the whole: p is where the first ones end.
PlacedAt(p, whole, seqs) ==
  /\ p \in [0..Len(seqs) -> Nat] /\ p[0] = 0 /\ Len(whole) = p[Len(seqs)]
  /\ \A k \in 1..Len(seqs) :
       /\ p[k] = p[k - 1] + Len(seqs[k])
       /\ \A j \in 1..Len(seqs[k]) : whole[p[k - 1] + j] = seqs[k][j]

LEMMA JoinPlaces ==
  ASSUME NEW S, NEW seqs \in Seq(Seq(S))
  PROVE  FlattenSeq(seqs) \in Seq(S) /\ \E p : PlacedAt(p, FlattenSeq(seqs), seqs)
<1>1. Len(seqs) \in Nat /\ \A k \in 1..Len(seqs) : seqs[k] \in Seq(S) /\ Len(seqs[k]) \in Nat
  OBVIOUS
<1>2. CASE Len(seqs) = 0
  <2>1. FlattenSeq(seqs) = <<>>
    BY <1>2, FlattenIs
  <2> DEFINE p == [k \in 0..0 |-> 0]
  <2>2. p \in [0..0 -> Nat] /\ p[0] = 0
    OBVIOUS
  <2> HIDE DEF p
  <2>3. PlacedAt(p, <<>>, seqs)
    BY <1>2, <2>2 DEF PlacedAt
  <2> QED
    BY <2>1, <2>3
<1>3. CASE Len(seqs) > 0
  <2>1. PICK f : /\ FlattenSeq(seqs) = f[Len(seqs)] /\ f[1] = seqs[1]
                 /\ \A i \in 2..Len(seqs) : f[i] = f[i - 1] \o seqs[i]
    BY <1>3, FlattenIs
  <2> DEFINE p == [k \in 0..Len(seqs) |-> IF k = 0 THEN 0 ELSE Len(f[k])]
  <2>2. p[0] = 0 /\ \A k \in 1..Len(seqs) : p[k] = Len(f[k])
    BY <1>1
  <2>3. DOMAIN p = 0..Len(seqs) /\ p = [k \in 0..Len(seqs) |-> p[k]]
    OBVIOUS
  <2> HIDE DEF p
  <2> DEFINE Good(n) == /\ f[n] \in Seq(S) /\ Len(f[n]) \in Nat
                        /\ \A k \in 1..n :
                             /\ p[k - 1] \in Nat /\ p[k] = p[k - 1] + Len(seqs[k])
                             /\ p[k] <= Len(f[n])
                             /\ \A j \in 1..Len(seqs[k]) : f[n][p[k - 1] + j] = seqs[k][j]
             T == {n \in Nat : n + 1 <= Len(seqs) => Good(n + 1)}
  <2>4. 0 \in T
    <3>1. 0 + 1 = 1
      OBVIOUS
    <3>2. f[1] \in Seq(S) /\ Len(f[1]) \in Nat
      BY <1>1, <1>3, <2>1
    <3>3. p[1 - 1] = 0 /\ p[1] = Len(seqs[1])
      BY <1>1, <1>3, <2>1, <2>2
    <3>4. \A j \in 1..Len(seqs[1]) : f[1][0 + j] = seqs[1][j]
      BY <1>1, <1>3, <2>1
    <3>5. Good(1)
      <4>1. \A k \in 1..1 : k = 1
        OBVIOUS
      <4>2. p[1] = p[1 - 1] + Len(seqs[1]) /\ p[1] <= Len(f[1])
        BY <1>1, <1>3, <2>1, <3>3
      <4> QED
        BY <3>2, <3>3, <3>4, <4>1, <4>2
    <3> HIDE DEF Good
    <3> QED
      BY <3>1, <3>5
  <2>5. ASSUME NEW n \in Nat, n \in T
        PROVE  n + 1 \in T
    <3> SUFFICES ASSUME (n + 1) + 1 <= Len(seqs)
                 PROVE  Good((n + 1) + 1)
      OBVIOUS
    <3> DEFINE m == n + 1
    <3>1. m \in 1..Len(seqs) /\ m + 1 \in 1..Len(seqs) /\ m + 1 \in 2..Len(seqs)
          /\ (m + 1) - 1 = m /\ m \in Nat
      BY <1>1
    <3>2. Good(m)
      BY <1>1, <2>5
    <3> HIDE DEF m
    <3>3. f[m + 1] = f[m] \o seqs[m + 1]
      BY <2>1, <3>1
    <3>4. seqs[m + 1] \in Seq(S) /\ Len(seqs[m + 1]) \in Nat
      BY <1>1, <3>1
    <3>5. f[m] \in Seq(S) /\ Len(f[m]) \in Nat
      BY <3>2
    <3> HIDE DEF Good
    <3>6. /\ f[m + 1] \in Seq(S)
          /\ Len(f[m + 1]) = Len(f[m]) + Len(seqs[m + 1])
          /\ \A i \in 1..Len(f[m]) + Len(seqs[m + 1]) :
               f[m + 1][i] = IF i <= Len(f[m]) THEN f[m][i] ELSE seqs[m + 1][i - Len(f[m])]
      <4> DEFINE s == f[m]
                 t == seqs[m + 1]
      <4>1. s \in Seq(S) /\ t \in Seq(S)
        BY <3>4, <3>5
      <4> HIDE DEF s, t
      <4>2. /\ s \o t \in Seq(S) /\ Len(s \o t) = Len(s) + Len(t)
            /\ \A i \in 1..Len(s) + Len(t) :
                 (s \o t)[i] = IF i <= Len(s) THEN s[i] ELSE t[i - Len(s)]
        BY <4>1, ConcatProperties
      <4> QED
        BY <3>3, <4>2 DEF s, t
    <3> DEFINE a == Len(f[m])
               b == Len(seqs[m + 1])
    <3>9. a \in Nat /\ b \in Nat
      BY <3>4, <3>5
    <3>7. ASSUME NEW k \in 1..(m + 1)
          PROVE  /\ p[k - 1] \in Nat /\ p[k] = p[k - 1] + Len(seqs[k])
                 /\ p[k] <= Len(f[m + 1])
                 /\ \A j \in 1..Len(seqs[k]) : f[m + 1][p[k - 1] + j] = seqs[k][j]
      <4>1. CASE k = m + 1
        <5>1. p[k - 1] = Len(f[m]) /\ p[k] = Len(f[m + 1])
          BY <2>2, <3>1, <4>1
        <5>2. ASSUME NEW j \in 1..Len(seqs[k])
              PROVE  f[m + 1][Len(f[m]) + j] = seqs[k][j]
          <6>1. /\ Len(f[m]) + j \in 1..Len(f[m]) + Len(seqs[m + 1])
                /\ ~ (Len(f[m]) + j <= Len(f[m])) /\ (Len(f[m]) + j) - Len(f[m]) = j
            <7>1. j \in 1..b
              BY <4>1
            <7> HIDE DEF a, b
            <7>2. a + j \in 1..a + b /\ ~ (a + j <= a) /\ (a + j) - a = j
              BY <3>9, <7>1
            <7> QED
              BY <7>2 DEF a, b
          <6> QED
            BY <3>6, <4>1, <6>1
        <5> QED
          BY <3>4, <3>5, <3>6, <4>1, <5>1, <5>2
      <4>2. CASE k # m + 1
        <5>1. k \in 1..m /\ k \in 1..Len(seqs)
          BY <3>1, <4>2
        <5>2. /\ p[k - 1] \in Nat /\ p[k] = p[k - 1] + Len(seqs[k])
              /\ p[k] <= Len(f[m])
              /\ \A j \in 1..Len(seqs[k]) : f[m][p[k - 1] + j] = seqs[k][j]
          BY <3>2, <5>1 DEF Good
        <5>3. Len(seqs[k]) \in Nat
          BY <1>1, <5>1
        <5>4. ASSUME NEW j \in 1..Len(seqs[k])
              PROVE  f[m + 1][p[k - 1] + j] = seqs[k][j]
          <6>1. /\ p[k - 1] + j \in 1..Len(f[m]) + Len(seqs[m + 1])
                /\ p[k - 1] + j <= Len(f[m])
            <7> DEFINE c == p[k - 1]
                       l == Len(seqs[k])
            <7>1. c \in Nat /\ l \in Nat /\ j \in 1..l /\ c + l <= a
              BY <5>2, <5>3
            <7> HIDE DEF a, b, c, l
            <7>2. c + j \in 1..a + b /\ c + j <= a
              BY <3>9, <7>1
            <7> QED
              BY <7>2 DEF a, b, c
          <6> QED
            BY <3>6, <5>2, <6>1
        <5>5. p[k] <= Len(f[m + 1])
          <6> DEFINE c == p[k]
                     l == Len(f[m + 1])
          <6>1. c \in Nat /\ c <= a /\ l = a + b
            BY <3>6, <5>2, <5>3
          <6> HIDE DEF a, b, c, l
          <6>2. c <= l
            BY <3>9, <6>1
          <6> QED
            BY <6>2 DEF c, l
        <5> QED
          BY <5>2, <5>4, <5>5
      <4> QED
        BY <4>1, <4>2
    <3>8. Good(m + 1)
      <4>1. Len(f[m + 1]) \in Nat
        <5> DEFINE l == Len(f[m + 1])
        <5>1. l = a + b
          BY <3>6
        <5> HIDE DEF a, b, l
        <5>2. l \in Nat
          BY <3>9, <5>1
        <5> QED
          BY <5>2 DEF l
      <4> QED
        BY <3>6, <3>7, <4>1 DEF Good
    <3> QED
      BY <3>8 DEF m
  <2>6. Len(seqs) - 1 \in Nat /\ (Len(seqs) - 1) + 1 = Len(seqs)
    BY <1>1, <1>3
  <2>7. Good(Len(seqs))
    <3> HIDE DEF Good
    <3>1. Nat \subseteq T
      <4> HIDE DEF T
      <4> QED
        BY <2>4, <2>5, SetInduction
    <3>2. Len(seqs) - 1 \in T
      BY <2>6, <3>1
    <3>3. \A q \in T : q + 1 <= Len(seqs) => Good(q + 1)
      OBVIOUS
    <3> QED
      BY <1>1, <2>6, <3>2, <3>3
  <2> DEFINE whole == FlattenSeq(seqs)
  <2>8. \A k \in 0..Len(seqs) : p[k] \in Nat
    <3>1. \A k \in 1..Len(seqs) : p[k - 1] \in Nat /\ p[k] = p[k - 1] + Len(seqs[k])
      BY <2>7
    <3>2. \A k \in 0..Len(seqs) : k = 0 \/ k \in 1..Len(seqs)
      BY <1>1
    <3> QED
      BY <1>1, <2>2, <3>1, <3>2
  <2>9. PlacedAt(p, whole, seqs)
    <3>1. p \in [0..Len(seqs) -> Nat]
      BY <2>3, <2>8
    <3>2. Len(whole) = p[Len(seqs)]
      BY <1>1, <1>3, <2>1, <2>2
    <3> QED
      BY <2>1, <2>2, <2>7, <3>1, <3>2 DEF PlacedAt
  <2> QED
    BY <2>1, <2>7, <2>9
<1> QED
  BY <1>1, <1>2, <1>3

-----------------------------------------------------------------------------
(* A response is read as what it says.                                     *)

\* The server writes each text in one piece.
Plain(content) ==
  content = None \/ (Len(content) <= 1 /\ \A i \in DOMAIN content : ~content[i].ref)

LEMMA TrimmedText ==
  ASSUME NEW text \in Seq(Words)
  PROVE  Trimmed(text) \in Seq(Words)
<1> DEFINE words == {k \in DOMAIN text : ~IsBlank(text[k])}
<1>1. CASE words = {}
  BY <1>1 DEF Trimmed
<1>2. CASE words # {}
  <2>1. Len(text) \in Nat /\ words \subseteq 1..Len(text)
    OBVIOUS
  <2> DEFINE first == CHOOSE k \in words : \A j \in words : k <= j
             last == CHOOSE k \in words : \A j \in words : j <= k
  <2>2. Trimmed(text) = SubSeq(text, first, last)
    BY <1>2 DEF Trimmed
  <2> HIDE DEF words
  <2>3. first \in words
    <3>1. \E k \in words : \A j \in words : k <= j
      <4>1. words \subseteq Nat
        BY <2>1
      <4> QED
        BY <1>2, <4>1, Smallest
    <3> QED
      BY <3>1
  <2>4. last \in words
    <3> DEFINE l == Len(text)
               back == {l - k : k \in words}
    <3>0. l \in Nat /\ words \subseteq 1..l
      BY <2>1
    <3> HIDE DEF l
    <3>1. back \subseteq Nat /\ back # {}
      <4>1. \A k \in words : l - k \in Nat
        BY <3>0
      <4>2. \E k \in words : TRUE
        BY <1>2
      <4> QED
        BY <4>1, <4>2
    <3>2. PICK b \in back : \A c \in back : b <= c
      <4> HIDE DEF back
      <4> QED
        BY <3>1, Smallest
    <3>3. PICK k \in words : b = l - k
      BY <3>2
    <3>4. \A j \in words : l - k <= l - j
      BY <3>2, <3>3
    <3>5. \A j \in words : j <= k
      BY <3>0, <3>4
    <3> QED
      BY <3>5
  <2> HIDE DEF first, last
  <2>5. first \in 1..Len(text) /\ last \in 1..Len(text)
    BY <2>1, <2>3, <2>4
  <2>6. \A i \in first..last : text[i] \in Words
    BY <2>1, <2>5
  <2> QED
    BY <2>2, <2>5, <2>6, SubSeqProperties
<1> QED
  BY <1>1, <1>2

LEMMA PlainPieces ==
  ASSUME NEW content \in Content, Plain(content), content # None
  PROVE  /\ Text(content) \in Seq(Words)
         /\ Pieces(content) = IF Text(content) = <<>> THEN <<>>
                              ELSE <<TextEvent(Text(content))>>
<1>1. content \in Seq(Piece) /\ Len(content) \in Nat /\ Len(content) <= 1
  BY DEF Plain, Content
<1>2. Trimmed(<<>>) = <<>>
  BY DEF Trimmed
<1> DEFINE event(p) == IF p.ref THEN <<[kind |-> "other"]>>
                       ELSE IF Trimmed(p.text) = <<>> THEN <<>>
                       ELSE <<[kind |-> "text", text |-> Trimmed(p.text)]>>
           texts == [k \in DOMAIN content |-> content[k].text]
           events == [k \in DOMAIN content |-> event(content[k])]
<1>3. Text(content) = Trimmed(FlattenSeq(texts)) /\ Pieces(content) = FlattenSeq(events)
  BY DEF Text, Pieces
<1>4. CASE Len(content) = 0
  <2>1. texts = <<>> /\ events = <<>>
    BY <1>1, <1>4
  <2>2. FlattenSeq(<<>>) = <<>>
    BY DEF FlattenSeq
  <2> HIDE DEF texts, events
  <2>3. Text(content) = <<>>
    BY <1>2, <1>3, <2>1, <2>2
  <2>4. Pieces(content) = <<>>
    BY <1>3, <2>1, <2>2
  <2>5. <<>> \in Seq(Words)
    OBVIOUS
  <2> QED
    BY <2>3, <2>4, <2>5
<1>5. CASE Len(content) = 1
  <2>1. content[1] \in Piece /\ DOMAIN content = 1..1
    BY <1>1, <1>5
  <2>2. content[1].text \in Seq(Words) /\ ~content[1].ref
    BY <2>1 DEF Piece, Plain
  <2>3. texts = [k \in 1..1 |-> content[k].text] /\ events = [k \in 1..1 |-> event(content[k])]
    BY <2>1
  <2> HIDE DEF event
  <2>4. texts \in Seq({content[1].text}) /\ Len(texts) = 1 /\ texts[1] = content[1].text
    BY <2>3
  <2>5. events \in Seq({event(content[1])}) /\ Len(events) = 1
        /\ events[1] = event(content[1])
    BY <2>3
  <2> HIDE DEF texts, events
  <2>6. FlattenSeq(texts) = content[1].text /\ FlattenSeq(events) = event(content[1])
    BY <2>4, <2>5, FlattenOne
  <2>7. Text(content) = Trimmed(content[1].text)
    BY <1>3, <2>6
  <2> QED
    <3>1. Text(content) \in Seq(Words)
      BY <2>2, <2>7, TrimmedText
    <3>2. Pieces(content) = event(content[1])
      BY <1>3, <2>6
    <3>3. event(content[1]) = IF Trimmed(content[1].text) = <<>> THEN <<>>
                              ELSE <<TextEvent(Trimmed(content[1].text))>>
      BY <2>2 DEF event, TextEvent
    <3> QED
      BY <2>7, <3>1, <3>2, <3>3
<1>6. Len(content) = 0 \/ Len(content) = 1
  <2> DEFINE l == Len(content)
  <2>1. l \in Nat /\ l <= 1
    BY <1>1
  <2> HIDE DEF l
  <2>2. l = 0 \/ l = 1
    BY <2>1
  <2> QED
    BY <2>2 DEF l
<1> QED
  BY <1>4, <1>5, <1>6

LEMMA PlainProperty ==
  ASSUME NEW content \in Content, Plain(content), NEW x,
         NEW name \in Ordinary
  PROVE  Yields(Property(name, content), x,
                IF Text(content) = <<>> THEN x
                ELSE NextResponse(x, name, TextEvent(Text(content))))
<1>1. CASE content = None
  <2>1. Property(name, content) = <<>> /\ Text(content) = <<>>
    BY <1>1 DEF Property, Text
  <2> QED
    BY <2>1, RunEmpty
<1>2. CASE content # None /\ Text(content) = <<>>
  <2>1. Property(name, content) = Element(name, <<>>)
    BY <1>2, PlainPieces DEF Property
  <2> QED
    BY <1>2, <2>1, RunEmpty, RunElement
<1>3. CASE content # None /\ Text(content) # <<>>
  <2>1. Property(name, content) = Element(name, <<TextEvent(Text(content))>>)
    BY <1>3, PlainPieces DEF Property
  <2>2. Text(content) \in Seq(Words \cup {"HTTP"})
    <3>1. Text(content) \in Seq(Words)
      BY <1>3, PlainPieces
    <3> QED
      BY <3>1
  <2> QED
    BY <1>3, <2>1, <2>2, RunText
<1> QED
  BY <1>1, <1>2, <1>3

LEMMA TextTyped ==
  ASSUME NEW content \in Content, Plain(content)
  PROVE  Text(content) \in Seq(Words) /\ (content = None => Text(content) = <<>>)
<1>1. content = None => Text(content) = <<>>
  BY DEF Text
<1>2. <<>> \in Seq(Words)
  OBVIOUS
<1> QED
  BY <1>1, <1>2, PlainPieces

Marked(x, form) == IF form = "file" THEN x ELSE [x EXCEPT !.collection = TRUE]

LEMMA TypeRead ==
  ASSUME NEW form \in Forms, NEW x, x # None
  PROVE  Yields(ResourceType(form), x, Marked(x, form))
<1>1. CASE form = "file"
  <2>1. ResourceType(form) = <<Self("resourcetype")>>
    BY <1>1 DEF ResourceType
  <2>2. Self("resourcetype") \in EventSet /\ Self("resourcetype") # End("response")
    <3> DEFINE name == "resourcetype"
    <3>1. name \in TagNames
      BY DEF TagNames
    <3> HIDE DEF name
    <3>2. Self(name) \in EventSet /\ Self(name) # End("response")
      BY <3>1, TagsTyped
    <3> QED
      BY <3>2 DEF name
  <2>3. \A a : NextResponse(x, a, Self("resourcetype")) = x
    BY DEF NextResponse, Self, Tag
  <2> QED
    BY <1>1, <2>1, <2>2, <2>3, RunOne DEF Marked
<1> DEFINE y == [x EXCEPT !.collection = TRUE]
<1>2. CASE form = "empty"
  <2>1. ResourceType(form) = Element("resourcetype", <<Self("collection")>>)
    BY <1>2 DEF ResourceType
  <2>2. Self("collection") \in EventSet /\ Self("collection") # End("response")
    <3> DEFINE name == "collection"
    <3>1. name \in TagNames
      BY DEF TagNames
    <3> HIDE DEF name
    <3>2. Self(name) \in EventSet /\ Self(name) # End("response")
      BY <3>1, TagsTyped
    <3> QED
      BY <3>2 DEF name
  <2>3. \A a : NextResponse(x, a, Self("collection")) = y
    BY DEF NextResponse, Self, Tag
  <2> HIDE DEF y
  <2>4. Yields(<<Self("collection")>>, x, y)
    BY <2>2, <2>3, RunOne
  <2>5. Yields(Element("resourcetype", <<Self("collection")>>), x, y)
    BY <2>4, OrdinaryNames, RunElement
  <2> QED
    BY <1>2, <2>1, <2>5 DEF Marked, y
<1>3. CASE form = "pair"
  <2>1. ResourceType(form) = Element("resourcetype", Element("collection", <<>>))
    BY <1>3 DEF ResourceType
  <2>2. /\ Start("collection") \in EventSet /\ Start("collection") # End("response")
        /\ End("collection") \in EventSet /\ End("collection") # End("response")
    <3> DEFINE name == "collection"
    <3>1. name \in TagNames /\ name # "response"
      BY DEF TagNames
    <3> HIDE DEF name
    <3>2. /\ Start(name) \in EventSet /\ Start(name) # End("response")
          /\ End(name) \in EventSet /\ End(name) # End("response")
      BY <3>1, TagsTyped
    <3> QED
      BY <3>2 DEF name
  <2>3. \A a : NextResponse(x, a, Start("collection")) = y
    BY DEF NextResponse, Start, Tag
  <2> HIDE DEF y
  <2>4. \A a : NextResponse(y, a, End("collection")) = y
    BY DEF NextResponse, End, Tag
  <2>5. Yields(<<Start("collection")>>, x, y) /\ Yields(<<End("collection")>>, y, y)
    BY <2>2, <2>3, <2>4, RunOne
  <2>6. Yields(<<Start("collection")>> \o <<>>, x, y)
    BY <2>5, RunEmpty, RunJoin
  <2>7. Yields((<<Start("collection")>> \o <<>>) \o <<End("collection")>>, x, y)
    BY <2>5, <2>6, RunJoin
  <2>8. Yields(Element("collection", <<>>), x, y)
    BY <2>7 DEF Element
  <2>9. Yields(Element("resourcetype", Element("collection", <<>>)), x, y)
    BY <2>8, OrdinaryNames, RunElement
  <2> QED
    BY <1>3, <2>1, <2>9 DEF Marked, y
<1> QED
  BY <1>1, <1>2, <1>3 DEF Forms

LEMMA MissingRead ==
  ASSUME NEW r, NEW x
  PROVE  Yields(Missing(r), x, x)
<1>1. ASSUME NEW name \in Ordinary
      PROVE  Yields(<<Self(name)>>, x, x)
  <2>1. Self(name) \in EventSet /\ Self(name) # End("response")
    BY TagsTyped DEF Ordinary
  <2>2. \A a : NextResponse(x, a, Self(name)) = x
    BY DEF NextResponse, Self, Tag, Ordinary
  <2> QED
    BY <2>1, <2>2, RunOne
<1>2. Yields(IF r.size = None THEN <<Self("getcontentlength")>> ELSE <<>>, x, x)
  BY <1>1, OrdinaryNames, RunEmpty
<1>3. Yields(IF r.etag = None THEN <<Self("getetag")>> ELSE <<>>, x, x)
  BY <1>1, OrdinaryNames, RunEmpty
<1> QED
  BY <1>2, <1>3, RunJoin DEF Missing

LEMMA PropstatRead ==
  ASSUME NEW props, NEW x, NEW y, Yields(props, x, y)
  PROVE  Yields(Propstat(props), x, y)
<1>1. CASE props = <<>>
  BY <1>1, RunEmpty, RunEmptySame DEF Propstat
<1>2. CASE props # <<>>
  <2> DEFINE status == Element("status", <<[kind |-> "text", text |-> <<"HTTP">>]>>)
  <2>1. Yields(Element("prop", props), x, y)
    BY OrdinaryNames, RunElement
  <2>2. Yields(status, y, y)
    <3>1. <<"HTTP">> \in Seq(Words \cup {"HTTP"})
      OBVIOUS
    <3>2. Yields(Element("status", <<TextEvent(<<"HTTP">>)>>), y,
                 NextResponse(y, "status", TextEvent(<<"HTTP">>)))
      BY <3>1, OrdinaryNames, RunText
    <3>3. NextResponse(y, "status", TextEvent(<<"HTTP">>)) = y
      BY DEF NextResponse, TextEvent
    <3> QED
      BY <3>2, <3>3 DEF TextEvent
  <2> HIDE DEF status
  <2>3. Yields(Element("prop", props) \o status, x, y)
    BY <2>1, <2>2, RunJoin
  <2>4. Yields(Element("propstat", Element("prop", props) \o status), x, y)
    BY <2>3, OrdinaryNames, RunElement
  <2> QED
    BY <1>2, <2>4 DEF Propstat, status
<1> QED
  BY <1>1, <1>2

\* All events of a response but the last.
Body(r) ==
  <<Start("response")>>
  \o (Property("href", r.href)
      \o Propstat(ResourceType(r.form) \o Property("getcontentlength", r.size)
                  \o Property("getetag", r.etag))
      \o Propstat(Missing(r)))

\* What the response is before the last.
Full(r) ==
  [href |-> Text(r.href), collection |-> r.form # "file",
   size |-> IF Text(r.size) = <<>> THEN 0 ELSE Parsed(Text(r.size)),
   etag |-> IF Text(r.etag) = <<>> THEN None ELSE Text(r.etag)]

PlainResponse(r) == Plain(r.href) /\ Plain(r.size) /\ Plain(r.etag)

LEMMA ParsedNat ==
  ASSUME NEW text
  PROVE  Parsed(text) \in Nat
BY ValuesAssumption DEF Parsed

LEMMA BodyRead ==
  ASSUME NEW r \in Responses, PlainResponse(r), NEW x
  PROVE  Yields(Body(r), x, Full(r))
<1> DEFINE h == Text(r.href)
           c == r.form # "file"
           n == IF Text(r.size) = <<>> THEN 0 ELSE Parsed(Text(r.size))
           e == IF Text(r.etag) = <<>> THEN None ELSE Text(r.etag)
           x1 == [href |-> h, collection |-> FALSE, size |-> 0, etag |-> None]
           x2 == [href |-> h, collection |-> c, size |-> 0, etag |-> None]
           x3 == [href |-> h, collection |-> c, size |-> n, etag |-> None]
           x4 == [href |-> h, collection |-> c, size |-> n, etag |-> e]
<1>1. /\ r.href \in Content /\ r.size \in Content /\ r.etag \in Content /\ r.form \in Forms
      /\ Plain(r.href) /\ Plain(r.size) /\ Plain(r.etag)
  BY DEF Responses, PlainResponse
<1>2. h \in Seq(Words) /\ Text(r.size) \in Seq(Words) /\ Text(r.etag) \in Seq(Words)
  BY <1>1, TextTyped
<1>3. <<>> \in Seq(Words) /\ c \in BOOLEAN /\ n \in Nat /\ e \in {None} \cup Seq(Words)
  BY <1>2, ParsedNat
<1>4. NoResponse # None /\ x1 # None /\ x2 # None /\ x3 # None
  <2> HIDE DEF h, c, n, e
  <2>1. NoResponse \in DavResponse
    BY <1>3 DEF NoResponse, DavResponse
  <2>2. x1 \in DavResponse /\ x2 \in DavResponse /\ x3 \in DavResponse
    BY <1>2, <1>3 DEF DavResponse
  <2> QED
    BY <2>1, <2>2, ValuesAssumption
<1>5. Yields(<<Start("response")>>, x, NoResponse)
  <2>1. Start("response") \in EventSet /\ Start("response") # End("response")
    <3> DEFINE name == "response"
    <3>1. name \in TagNames
      BY DEF TagNames
    <3> HIDE DEF name
    <3>2. Start(name) \in EventSet /\ Start(name) # End("response")
      BY <3>1, TagsTyped
    <3> QED
      BY <3>2 DEF name
  <2>2. \A a : NextResponse(x, a, Start("response")) = NoResponse
    BY DEF NextResponse, Start, Tag
  <2> QED
    BY <2>1, <2>2, RunOne
<1>6. Yields(Property("href", r.href), NoResponse, x1)
  <2>1. (IF h = <<>> THEN NoResponse ELSE NextResponse(NoResponse, "href", TextEvent(h))) = x1
    <3> HIDE DEF h
    <3> QED
      BY <1>4 DEF NextResponse, TextEvent, NoResponse
  <2>2. Yields(Property("href", r.href), NoResponse,
               IF h = <<>> THEN NoResponse ELSE NextResponse(NoResponse, "href", TextEvent(h)))
    BY <1>1, OrdinaryNames, PlainProperty
  <2> HIDE DEF h, x1
  <2> QED
    BY <2>1, <2>2
<1>7. Yields(ResourceType(r.form), x1, x2)
  <2>1. Yields(ResourceType(r.form), x1, Marked(x1, r.form))
    BY <1>1, <1>4, TypeRead
  <2>2. Marked(x1, r.form) = x2
    <3> HIDE DEF h
    <3> QED
      BY DEF Marked
  <2> HIDE DEF x1, x2
  <2> QED
    BY <2>1, <2>2
<1>8. Yields(Property("getcontentlength", r.size), x2, x3)
  <2> DEFINE t == Text(r.size)
  <2>1. (IF t = <<>> THEN x2 ELSE NextResponse(x2, "getcontentlength", TextEvent(t))) = x3
    <3> HIDE DEF h, c, t
    <3> QED
      BY <1>4 DEF NextResponse, TextEvent, t
  <2>2. Yields(Property("getcontentlength", r.size), x2,
               IF t = <<>> THEN x2 ELSE NextResponse(x2, "getcontentlength", TextEvent(t)))
    <3> HIDE DEF x2
    <3> QED
      BY <1>1, OrdinaryNames, PlainProperty
  <2> HIDE DEF t, x2, x3
  <2> QED
    BY <2>1, <2>2
<1>9. Yields(Property("getetag", r.etag), x3, x4)
  <2> DEFINE t == Text(r.etag)
  <2>1. (IF t = <<>> THEN x3 ELSE NextResponse(x3, "getetag", TextEvent(t))) = x4
    <3> HIDE DEF h, c, n, t
    <3> QED
      BY <1>4 DEF NextResponse, TextEvent, t
  <2>2. Yields(Property("getetag", r.etag), x3,
               IF t = <<>> THEN x3 ELSE NextResponse(x3, "getetag", TextEvent(t)))
    <3> HIDE DEF x3
    <3> QED
      BY <1>1, OrdinaryNames, PlainProperty
  <2> HIDE DEF t, x3, x4
  <2> QED
    BY <2>1, <2>2
<1>10. x4 = Full(r)
  BY DEF Full
<1> HIDE DEF x1, x2, x3, x4
<1>11. Yields(ResourceType(r.form) \o Property("getcontentlength", r.size), x1, x3)
  BY <1>7, <1>8, RunJoin
<1>12. Yields((ResourceType(r.form) \o Property("getcontentlength", r.size))
              \o Property("getetag", r.etag), x1, x4)
  BY <1>9, <1>11, RunJoin
<1> DEFINE props == ResourceType(r.form) \o Property("getcontentlength", r.size)
                    \o Property("getetag", r.etag)
<1>13. Yields(props, x1, x4)
  BY <1>12
<1> HIDE DEF props
<1>14. Yields(Propstat(props), x1, x4) /\ Yields(Propstat(Missing(r)), x4, x4)
  BY <1>13, PropstatRead, MissingRead
<1>15. Yields(Property("href", r.href) \o Propstat(props), NoResponse, x4)
  BY <1>6, <1>14, RunJoin
<1>16. Yields((Property("href", r.href) \o Propstat(props)) \o Propstat(Missing(r)),
              NoResponse, x4)
  BY <1>14, <1>15, RunJoin
<1>17. Yields(<<Start("response")>>
              \o ((Property("href", r.href) \o Propstat(props)) \o Propstat(Missing(r))), x, x4)
  BY <1>5, <1>16, RunJoin
<1> QED
  BY <1>10, <1>17 DEF Body, props

\* Of a response that has an href the resource says what the response says.
LEMMA FullMeans ==
  ASSUME NEW r \in Responses, PlainResponse(r)
  PROVE  IntoResource(Full(r)) = Meaning(r)
<1>1. /\ r.size \in Content /\ r.etag \in Content
      /\ Plain(r.size) /\ Plain(r.etag)
  BY DEF Responses, PlainResponse
<1>2. (r.size = None => Text(r.size) = <<>>) /\ (r.etag = None => Text(r.etag) = <<>>)
  BY <1>1, TextTyped
<1>3. Parsed(<<>>) = 0
  BY DEF Parsed
<1> QED
  BY <1>2, <1>3 DEF IntoResource, Full, Meaning

-----------------------------------------------------------------------------
(* Where the events of each response are in those of the document.         *)

\* o[k] is how many events there are up to the end of the k-th response.
Layout(o, d) ==
  /\ o \in [0..Len(d) -> Nat] /\ o[0] = 2
  /\ Events(d) \in Seq(EventSet) /\ Len(Events(d)) = o[Len(d)] + 1
  /\ Events(d)[1] = [kind |-> "other"] /\ Events(d)[2] = Start("multistatus")
  /\ Events(d)[o[Len(d)] + 1] = End("multistatus")
  /\ \A k \in 1..Len(d) :
       /\ o[k] = o[k - 1] + Len(Body(d[k])) + 1
       /\ \A j \in 1..Len(Body(d[k])) : Events(d)[o[k - 1] + j] = Body(d[k])[j]
       /\ Events(d)[o[k]] = End("response")

LEMMA Single ==
  ASSUME NEW S, NEW x \in S
  PROVE  <<x>> \in Seq(S) /\ Len(<<x>>) = 1 /\ <<x>>[1] = x
OBVIOUS

\* What quick-xml reports of a response is its body and the end tag.
LEMMA ResponseParts ==
  ASSUME NEW r \in Responses, PlainResponse(r)
  PROVE  /\ Body(r) \in Seq(EventSet) /\ Len(Body(r)) \in Nat \ {0}
         /\ Response(r) \in Seq(EventSet) /\ Len(Response(r)) = Len(Body(r)) + 1
         /\ \A j \in 1..Len(Body(r)) : Response(r)[j] = Body(r)[j]
         /\ Response(r)[Len(Body(r)) + 1] = End("response")
         /\ \A j \in 1..Len(Body(r)) : Body(r)[j] # End("response")
<1> DEFINE b == Body(r)
           e == <<End("response")>>
           inner == Property("href", r.href)
                    \o Propstat(ResourceType(r.form) \o Property("getcontentlength", r.size)
                                \o Property("getetag", r.etag))
                    \o Propstat(Missing(r))
<1>1. b \in Seq(EventSet) /\ \A j \in 1..Len(b) : b[j] # End("response")
  <2>1. Yields(b, None, Full(r))
    BY BodyRead
  <2> HIDE DEF b
  <2> QED
    BY <2>1 DEF Yields
<1>2. Response(r) = b \o e
  BY DEF Response, Body, Element
<1>3. e \in Seq(EventSet) /\ Len(e) = 1 /\ e[1] = End("response")
  <2>1. End("response") \in EventSet
    BY TagsTyped DEF TagNames
  <2> QED
    BY <2>1, Single
<1>4. Len(b) \in Nat /\ b # <<>>
  <2>1. b = <<Start("response")>> \o inner
    BY DEF Body
  <2>2. Yields(b, [none |-> 0], Full(r)) /\ Yields(b, [none |-> 1], Full(r))
    BY BodyRead
  <2>3. [none |-> 0] # [none |-> 1]
    <3>1. [none |-> 0].none # [none |-> 1].none
      OBVIOUS
    <3> QED
      BY <3>1
  <2> HIDE DEF b
  <2>4. b # <<>>
    BY <2>2, <2>3, RunEmptySame
  <2> QED
    BY <1>1, <2>4
<1> HIDE DEF b, e
<1>5. /\ b \o e \in Seq(EventSet) /\ Len(b \o e) = Len(b) + 1
      /\ \A i \in 1..Len(b) + 1 : (b \o e)[i] = IF i <= Len(b) THEN b[i] ELSE e[i - Len(b)]
  BY <1>1, <1>3, ConcatProperties
<1>6. Len(b) # 0
  BY <1>1, <1>4
<1>7. /\ \A j \in 1..Len(b) : (b \o e)[j] = b[j]
      /\ (b \o e)[Len(b) + 1] = End("response")
  BY <1>3, <1>4, <1>5
<1> QED
  BY <1>1, <1>2, <1>4, <1>5, <1>6, <1>7 DEF b

PlainDocument(d) == d \in Seq(Responses) /\ \A k \in DOMAIN d : PlainResponse(d[k])

LEMMA LayoutExists ==
  ASSUME NEW d, PlainDocument(d)
  PROVE  \E o : Layout(o, d)
<1> DEFINE s == [k \in DOMAIN d |-> Response(d[k])]
           flat == FlattenSeq(s)
           n == Len(d)
<1>1. n \in Nat /\ DOMAIN d = 1..n /\ \A k \in 1..n : d[k] \in Responses /\ PlainResponse(d[k])
  BY DEF PlainDocument
<1>2. \A k \in 1..n : Response(d[k]) \in Seq(EventSet)
  BY <1>1, ResponseParts
<1>3. s \in Seq(Seq(EventSet)) /\ Len(s) = n /\ \A k \in 1..n : s[k] = Response(d[k])
  <2> HIDE DEF n
  <2> QED
    BY <1>1, <1>2
<1> HIDE DEF s
<1>4. flat \in Seq(EventSet) /\ \E p : PlacedAt(p, flat, s)
  BY <1>3, JoinPlaces
<1>5. PICK p : PlacedAt(p, flat, s)
  BY <1>4
<1> DEFINE a == <<[kind |-> "other"]>>
           b == <<Start("multistatus")>>
           c == <<End("multistatus")>>
<1>6. Events(d) = a \o (b \o flat \o c)
  BY DEF Events, Element, s
<1>7. /\ a \in Seq(EventSet) /\ Len(a) = 1 /\ a[1] = [kind |-> "other"]
      /\ b \in Seq(EventSet) /\ Len(b) = 1 /\ b[1] = Start("multistatus")
      /\ c \in Seq(EventSet) /\ Len(c) = 1 /\ c[1] = End("multistatus")
  <2>1. /\ Start("multistatus") \in EventSet /\ End("multistatus") \in EventSet
        /\ [kind |-> "other"] \in EventSet
    BY TagsTyped DEF TagNames, EventSet
  <2>2. a \in Seq(EventSet) /\ Len(a) = 1 /\ a[1] = [kind |-> "other"]
    BY <2>1, Single
  <2>3. b \in Seq(EventSet) /\ Len(b) = 1 /\ b[1] = Start("multistatus")
    BY <2>1, Single
  <2>4. c \in Seq(EventSet) /\ Len(c) = 1 /\ c[1] = End("multistatus")
    BY <2>1, Single
  <2> QED
    BY <2>2, <2>3, <2>4
<1> HIDE DEF flat, n, a, b, c
<1>8. Len(flat) \in Nat
  BY <1>4
<1>9. /\ b \o flat \in Seq(EventSet) /\ Len(b \o flat) = 1 + Len(flat)
      /\ (b \o flat)[1] = Start("multistatus")
      /\ \A i \in 1..Len(flat) : (b \o flat)[i + 1] = flat[i]
  <2>1. /\ b \o flat \in Seq(EventSet) /\ Len(b \o flat) = Len(b) + Len(flat)
        /\ \A i \in 1..Len(b) + Len(flat) :
             (b \o flat)[i] = IF i <= Len(b) THEN b[i] ELSE flat[i - Len(b)]
    BY <1>4, <1>7, ConcatProperties
  <2>2. \A i \in 1..Len(flat) :
          i + 1 \in 1..1 + Len(flat) /\ ~ (i + 1 <= 1) /\ (i + 1) - 1 = i
    BY <1>8
  <2>3. 1 \in 1..1 + Len(flat)
    BY <1>8
  <2> QED
    BY <1>7, <2>1, <2>2, <2>3
<1> DEFINE bf == b \o flat
<1> HIDE DEF bf
<1>10. /\ bf \in Seq(EventSet) /\ Len(bf) = 1 + Len(flat) /\ bf[1] = Start("multistatus")
       /\ \A i \in 1..Len(flat) : bf[i + 1] = flat[i]
  BY <1>9 DEF bf
<1>11. /\ bf \o c \in Seq(EventSet) /\ Len(bf \o c) = 2 + Len(flat)
       /\ (bf \o c)[1] = Start("multistatus")
       /\ \A i \in 1..Len(flat) : (bf \o c)[i + 1] = flat[i]
       /\ (bf \o c)[Len(flat) + 2] = End("multistatus")
  <2>1. /\ bf \o c \in Seq(EventSet) /\ Len(bf \o c) = Len(bf) + Len(c)
        /\ \A i \in 1..Len(bf) + Len(c) :
             (bf \o c)[i] = IF i <= Len(bf) THEN bf[i] ELSE c[i - Len(bf)]
    BY <1>7, <1>10, ConcatProperties
  <2>2. \A i \in 1..Len(flat) : i + 1 \in 1..(1 + Len(flat)) + 1 /\ i + 1 <= 1 + Len(flat)
    BY <1>8
  <2>3. /\ 1 \in 1..(1 + Len(flat)) + 1 /\ 1 <= 1 + Len(flat)
        /\ (1 + Len(flat)) + 1 = 2 + Len(flat) /\ Len(flat) + 2 \in 1..(1 + Len(flat)) + 1
        /\ ~ (Len(flat) + 2 <= 1 + Len(flat)) /\ (Len(flat) + 2) - (1 + Len(flat)) = 1
    BY <1>8
  <2> QED
    BY <1>7, <1>10, <2>1, <2>2, <2>3
<1> DEFINE bfc == bf \o c
<1> HIDE DEF bfc
<1>12. /\ bfc \in Seq(EventSet) /\ Len(bfc) = 2 + Len(flat) /\ bfc[1] = Start("multistatus")
       /\ \A i \in 1..Len(flat) : bfc[i + 1] = flat[i]
       /\ bfc[Len(flat) + 2] = End("multistatus")
  BY <1>11 DEF bfc
<1> DEFINE whole == Events(d)
<1>13. whole = a \o bfc
  BY <1>6 DEF bfc, bf
<1> HIDE DEF whole
<1>14. /\ whole \in Seq(EventSet) /\ Len(whole) = 3 + Len(flat)
       /\ whole[1] = [kind |-> "other"] /\ whole[2] = Start("multistatus")
       /\ \A i \in 1..Len(flat) : whole[i + 2] = flat[i]
       /\ whole[Len(flat) + 3] = End("multistatus")
  <2>1. /\ a \o bfc \in Seq(EventSet) /\ Len(a \o bfc) = Len(a) + Len(bfc)
        /\ \A i \in 1..Len(a) + Len(bfc) :
             (a \o bfc)[i] = IF i <= Len(a) THEN a[i] ELSE bfc[i - Len(a)]
    BY <1>7, <1>12, ConcatProperties
  <2>2. \A i \in 1..Len(flat) :
          i + 2 \in 1..1 + (2 + Len(flat)) /\ ~ (i + 2 <= 1) /\ (i + 2) - 1 = i + 1
    BY <1>8
  <2>3. /\ 1 \in 1..1 + (2 + Len(flat)) /\ 2 \in 1..1 + (2 + Len(flat)) /\ ~ (2 <= 1)
        /\ 2 - 1 = 1 /\ 1 + (2 + Len(flat)) = 3 + Len(flat)
        /\ Len(flat) + 3 \in 1..1 + (2 + Len(flat))
        /\ ~ (Len(flat) + 3 <= 1) /\ (Len(flat) + 3) - 1 = Len(flat) + 2
    BY <1>8
  <2> QED
    BY <1>7, <1>12, <1>13, <2>1, <2>2, <2>3
<1>15. /\ p \in [0..n -> Nat] /\ p[0] = 0 /\ Len(flat) = p[n]
       /\ \A k \in 1..n :
            /\ p[k] = p[k - 1] + Len(Response(d[k]))
            /\ \A j \in 1..Len(Response(d[k])) : flat[p[k - 1] + j] = Response(d[k])[j]
  BY <1>1, <1>3, <1>5 DEF PlacedAt
<1> DEFINE o == [k \in 0..n |-> p[k] + 2]
<1>16. o \in [0..n -> Nat] /\ o[0] = 2 /\ o[n] = Len(flat) + 2
       /\ \A k \in 0..n : o[k] = p[k] + 2 /\ p[k] \in Nat
  BY <1>1, <1>15
<1> HIDE DEF o
<1>17. Len(whole) = o[n] + 1 /\ whole[o[n] + 1] = End("multistatus")
  <2>1. 3 + Len(flat) = (Len(flat) + 2) + 1 /\ Len(flat) + 3 = (Len(flat) + 2) + 1
    BY <1>8
  <2> QED
    BY <1>14, <1>16, <2>1
<1>18. \A k \in 1..n : p[k] <= Len(flat)
  <2> DEFINE T == {m \in Nat : m <= n => p[n - m] <= Len(flat)}
  <2>1. 0 \in T
    BY <1>1, <1>8, <1>15
  <2>2. ASSUME NEW m \in Nat, m \in T
        PROVE  m + 1 \in T
    <3> SUFFICES ASSUME m + 1 <= n
                 PROVE  p[n - (m + 1)] <= Len(flat)
      OBVIOUS
    <3>1. /\ n - m \in 1..n /\ (n - m) - 1 = n - (m + 1) /\ n - (m + 1) \in 0..n
          /\ n - m \in 0..n
      BY <1>1
    <3>2. p[n - m] <= Len(flat)
      BY <1>1, <2>2
    <3>3. p[n - m] = p[n - (m + 1)] + Len(Response(d[n - m]))
      BY <1>15, <3>1
    <3>4. Len(Response(d[n - m])) \in Nat /\ p[n - m] \in Nat /\ p[n - (m + 1)] \in Nat
      BY <1>2, <1>16, <3>1
    <3> QED
      BY <1>8, <3>2, <3>3, <3>4
  <2>3. Nat \subseteq T
    <3> HIDE DEF T
    <3> QED
      BY <2>1, <2>2, SetInduction
  <2>4. ASSUME NEW k \in 1..n
        PROVE  p[k] <= Len(flat)
    <3> DEFINE m == n - k
    <3>1. m \in Nat /\ m <= n /\ n - m = k
      BY <1>1
    <3> HIDE DEF m
    <3>2. m \in T
      <4> HIDE DEF T
      <4> QED
        BY <2>3, <3>1
    <3>3. p[n - m] <= Len(flat)
      BY <3>1, <3>2
    <3> QED
      BY <3>1, <3>3
  <2> QED
    BY <2>4
<1>19. ASSUME NEW k \in 1..n
       PROVE  /\ o[k] = o[k - 1] + Len(Body(d[k])) + 1
              /\ \A j \in 1..Len(Body(d[k])) : whole[o[k - 1] + j] = Body(d[k])[j]
              /\ whole[o[k]] = End("response")
  <2> DEFINE q == p[k - 1]
             l == Len(Body(d[k]))
  <2>1. /\ l \in Nat /\ Len(Response(d[k])) = l + 1
        /\ \A j \in 1..l : Response(d[k])[j] = Body(d[k])[j]
        /\ Response(d[k])[l + 1] = End("response")
    BY <1>1, ResponseParts
  <2>2. /\ q \in Nat /\ o[k - 1] = q + 2 /\ p[k] = q + (l + 1) /\ o[k] = p[k] + 2
    <3>1. k \in 0..n /\ k - 1 \in 0..n
      BY <1>1
    <3> HIDE DEF l
    <3> QED
      BY <1>15, <1>16, <2>1, <3>1
  <2>3. \A j \in 1..(l + 1) : flat[q + j] = Response(d[k])[j]
    BY <1>15, <2>1
  <2>4. q + (l + 1) <= Len(flat)
    BY <1>18, <2>2
  <2> HIDE DEF q, l
  <2>5. \A j \in 1..(l + 1) : q + j \in 1..Len(flat) /\ (q + j) + 2 = (q + 2) + j
    BY <1>8, <2>1, <2>2, <2>4
  <2>6. \A j \in 1..(l + 1) : whole[(q + 2) + j] = Response(d[k])[j]
    BY <1>14, <2>3, <2>5
  <2>7. \A j \in 1..l : j \in 1..(l + 1)
    BY <2>1
  <2>8. /\ l + 1 \in 1..(l + 1) /\ o[k] = (q + 2) + (l + 1)
        /\ (q + 2) + (l + 1) = ((q + 2) + l) + 1
    <3> DEFINE u == o[k]
               v == p[k]
    <3>1. l \in Nat
      BY <2>1
    <3>2. q \in Nat /\ v = q + (l + 1) /\ u = v + 2
      BY <2>2
    <3> HIDE DEF u, v
    <3>3. l + 1 \in 1..(l + 1)
      BY <3>1
    <3>4. u = (q + 2) + (l + 1) /\ (q + 2) + (l + 1) = ((q + 2) + l) + 1
      BY <3>1, <3>2
    <3> QED
      BY <3>3, <3>4 DEF u
  <2> QED
    BY <2>1, <2>2, <2>6, <2>7, <2>8 DEF l
<1>20. Layout(o, d)
  BY <1>14, <1>16, <1>17, <1>19 DEF Layout, n, whole
<1> QED
  BY <1>20

LEMMA LayoutGrows ==
  ASSUME NEW d, PlainDocument(d), NEW o, Layout(o, d)
  PROVE  /\ Len(d) \in Nat /\ \A k \in 0..Len(d) : o[k] \in Nat
         /\ \A k \in 1..Len(d) : o[k - 1] < o[k]
         /\ \A a, b \in 0..Len(d) : a < b => o[a] < o[b]
<1> DEFINE n == Len(d)
<1>1. n \in Nat /\ DOMAIN d = 1..n /\ \A k \in 1..n : d[k] \in Responses /\ PlainResponse(d[k])
  BY DEF PlainDocument
<1>2. \A k \in 0..n : o[k] \in Nat
  BY DEF Layout
<1>3. ASSUME NEW k \in 1..n
      PROVE  o[k - 1] < o[k]
  <2> DEFINE l == Len(Body(d[k]))
  <2>1. l \in Nat
    BY <1>1, ResponseParts
  <2>2. o[k] = o[k - 1] + l + 1
    BY DEF Layout
  <2> HIDE DEF l
  <2>3. k - 1 \in 0..n
    BY <1>1
  <2>4. o[k - 1] \in Nat
    BY <1>2, <2>3
  <2> QED
    BY <2>1, <2>2, <2>4
<1> DEFINE T == {m \in Nat : \A a \in 0..n : a + m + 1 <= n => o[a] < o[a + m + 1]}
<1> HIDE DEF n
<1>4. 0 \in T
  <2>1. \A a \in 0..n : a + 0 + 1 <= n => a + 0 + 1 \in 1..n /\ (a + 0 + 1) - 1 = a
    BY <1>1
  <2> QED
    BY <1>3, <2>1
<1>5. ASSUME NEW m \in Nat, m \in T
      PROVE  m + 1 \in T
  <2> SUFFICES ASSUME NEW a \in 0..n, a + (m + 1) + 1 <= n
               PROVE  o[a] < o[a + (m + 1) + 1]
    OBVIOUS
  <2> DEFINE c == a + m + 1
  <2>1. c \in 0..n /\ c + 1 \in 1..n /\ (c + 1) - 1 = c /\ a + (m + 1) + 1 = c + 1
        /\ c + 1 \in 0..n
    BY <1>1
  <2>2. o[a] < o[c]
    BY <1>1, <1>5
  <2> HIDE DEF c
  <2>3. o[c] < o[c + 1]
    BY <1>3, <2>1
  <2> QED
    BY <1>2, <2>1, <2>2, <2>3
<1>6. Nat \subseteq T
  <2> HIDE DEF T
  <2> QED
    BY <1>4, <1>5, SetInduction
<1>7. ASSUME NEW a \in 0..n, NEW b \in 0..n, a < b
      PROVE  o[a] < o[b]
  <2> DEFINE m == b - a - 1
  <2>1. m \in Nat /\ a + m + 1 = b /\ a + m + 1 <= n
    BY <1>1, <1>7
  <2> HIDE DEF m
  <2>2. m \in T
    <3> HIDE DEF T
    <3> QED
      BY <1>6, <2>1
  <2>3. o[a] < o[a + m + 1]
    BY <2>1, <2>2
  <2> QED
    BY <2>1, <2>3
<1> QED
  BY <1>1, <1>2, <1>3, <1>7 DEF n

\* A response ends at the places of the layout and nowhere else.
LEMMA EndsAt ==
  ASSUME NEW d, PlainDocument(d), NEW o, Layout(o, d), NEW i \in 1..Len(Events(d))
  PROVE  Events(d)[i] = End("response") <=> \E k \in 1..Len(d) : i = o[k]
<1> DEFINE n == Len(d)
           E == Events(d)
<1>1. /\ n \in Nat /\ DOMAIN d = 1..n
      /\ \A k \in 1..n : d[k] \in Responses /\ PlainResponse(d[k])
      /\ \A k \in 0..n : o[k] \in Nat
      /\ \A k \in 1..n : o[k - 1] < o[k]
  BY LayoutGrows DEF PlainDocument
<1>2. /\ o[0] = 2 /\ Len(E) = o[n] + 1
      /\ E[1] = [kind |-> "other"] /\ E[2] = Start("multistatus")
      /\ E[o[n] + 1] = End("multistatus")
      /\ \A k \in 1..n :
           /\ o[k] = o[k - 1] + Len(Body(d[k])) + 1
           /\ \A j \in 1..Len(Body(d[k])) : E[o[k - 1] + j] = Body(d[k])[j]
           /\ E[o[k]] = End("response")
  BY DEF Layout
<1>3. /\ [kind |-> "other"] # End("response") /\ Start("multistatus") # End("response")
      /\ End("multistatus") # End("response")
  <2>1. [kind |-> "other"] # End("response")
    <3>1. [kind |-> "other"].kind = "other" /\ End("response").kind = "end"
      BY DEF End, Tag
    <3> QED
      BY <3>1
  <2> QED
    BY <2>1, TagsTyped DEF TagNames
<1> HIDE DEF n, E
<1>4. (\E k \in 1..n : i = o[k]) => E[i] = End("response")
  BY <1>2
<1>5. ASSUME E[i] = End("response")
      PROVE  \E k \in 1..n : i = o[k]
  <2>1. i \in Nat /\ i # 1 /\ i # 2 /\ i # o[n] + 1 /\ i <= o[n] + 1 /\ i > 2
    <3>1. i \in 1..Len(E)
      BY DEF E
    <3>2. i # 1 /\ i # 2 /\ i # o[n] + 1
      BY <1>2, <1>3, <1>5
    <3>3. o[n] \in Nat
      BY <1>1
    <3> QED
      BY <1>2, <3>1, <3>2, <3>3
  <2> DEFINE U == {k \in 0..n : i <= o[k]}
  <2>2. n \in U
    BY <1>1, <2>1
  <2>3. U \subseteq Nat
    OBVIOUS
  <2>4. PICK k \in U : \A m \in U : k <= m
    <3> HIDE DEF U
    <3> QED
      BY <2>2, <2>3, Smallest
  <2>5. k \in 0..n /\ i <= o[k] /\ k # 0
    BY <1>2, <2>1
  <2>6. k \in 1..n /\ k - 1 \in 0..n
    BY <1>1, <2>5
  <2>7. o[k - 1] < i
    <3>1. k - 1 \notin U
      <4>1. ~ (k <= k - 1)
        BY <2>6
      <4> HIDE DEF U
      <4> QED
        BY <2>4, <4>1
    <3>2. ~ (i <= o[k - 1])
      BY <2>6, <3>1
    <3>3. o[k - 1] \in Nat
      BY <1>1, <2>6
    <3> QED
      BY <2>1, <3>2, <3>3
  <2> DEFINE l == Len(Body(d[k]))
             j == i - o[k - 1]
  <2>8. /\ l \in Nat /\ \A m \in 1..l : Body(d[k])[m] # End("response")
    BY <1>1, <2>6, ResponseParts
  <2>9. /\ o[k] = o[k - 1] + l + 1 /\ o[k - 1] \in Nat /\ o[k] \in Nat
        /\ \A m \in 1..l : E[o[k - 1] + m] = Body(d[k])[m]
    BY <1>1, <1>2, <2>6
  <2> HIDE DEF l
  <2>10. i # o[k] => j \in 1..l /\ o[k - 1] + j = i
    BY <2>1, <2>5, <2>7, <2>8, <2>9
  <2> HIDE DEF j
  <2>11. i = o[k]
    BY <1>5, <2>8, <2>9, <2>10
  <2> QED
    BY <2>6, <2>11
<1> QED
  BY <1>4, <1>5 DEF n, E

\* So the ends still to come count the responses still to be read.
LEMMA EndsToCome ==
  ASSUME NEW d, PlainDocument(d), NEW o, Layout(o, d),
         NEW n \in 0..Len(Events(d)), NEW k \in 0..Len(d),
         k = 0 \/ o[k] <= n, k = Len(d) \/ n < o[k + 1]
  PROVE  LET s == SubSeq(Events(d), n + 1, Len(Events(d)))
         IN Cardinality({i \in DOMAIN s : s[i] = End("response")}) = Len(d) - k
<1> DEFINE N == Len(d)
           E == Events(d)
           L == Len(E)
           s == SubSeq(E, n + 1, L)
           X == {i \in DOMAIN s : s[i] = End("response")}
<1>1. /\ N \in Nat /\ \A m \in 0..N : o[m] \in Nat
      /\ \A a, b \in 0..N : a < b => o[a] < o[b]
  BY LayoutGrows
<1>2. E \in Seq(EventSet) /\ L = o[N] + 1
  BY DEF Layout
<1>3. \A i \in 1..L : E[i] = End("response") <=> \E m \in 1..N : i = o[m]
  BY EndsAt
<1> HIDE DEF N, E
<1>4. L \in Nat /\ n \in 0..L /\ k \in 0..N
  BY <1>2 DEF E, N
<1> HIDE DEF L
<1>5. Len(s) = L - n /\ DOMAIN s = 1..(L - n) /\ \A i \in 1..(L - n) : s[i] = E[n + i]
  <2>1. \A i \in (n + 1)..L : E[i] \in EventSet
    BY <1>2, <1>4 DEF L
  <2>2. n + 1 \in Int /\ L \in Int
    BY <1>4
  <2>3. /\ s \in Seq(EventSet) /\ Len(s) = IF n + 1 <= L THEN L - (n + 1) + 1 ELSE 0
        /\ \A i \in 1..(L - (n + 1) + 1) : s[i] = E[(n + 1) + i - 1]
    BY <2>1, <2>2, SubSeqProperties
  <2> HIDE DEF s
  <2>4. Len(s) = L - n
    BY <1>4, <2>3
  <2>5. \A i \in 1..(L - n) : i \in 1..(L - (n + 1) + 1) /\ (n + 1) + i - 1 = n + i
    BY <1>4
  <2>6. \A i \in 1..(L - n) : s[i] = E[n + i]
    BY <2>3, <2>5
  <2> QED
    BY <2>3, <2>4, <2>6
<1> HIDE DEF s
<1>6. X = {i \in 1..(L - n) : \E m \in 1..N : n + i = o[m]}
  <2>1. \A i \in 1..(L - n) : n + i \in 1..L
    BY <1>4
  <2> QED
    BY <1>3, <1>5, <2>1
<1> HIDE DEF X
<1>7. ASSUME NEW m \in 1..N
      PROVE  m \in (k + 1)..N <=> n < o[m]
  <2>1. m \in 0..N /\ o[m] \in Nat
    BY <1>1
  <2>2. CASE m <= k
    <3>1. k # 0 /\ o[k] <= n /\ o[k] \in Nat
      BY <1>1, <1>4, <2>2
    <3>2. o[m] <= o[k]
      BY <1>1, <1>4, <2>1, <2>2, <3>1
    <3> QED
      BY <1>4, <2>1, <2>2, <3>1, <3>2
  <2>3. CASE ~ (m <= k)
    <3>1. k # N /\ k + 1 \in 0..N
      BY <1>1, <1>4, <2>3
    <3>2. n < o[k + 1] /\ o[k + 1] \in Nat
      BY <1>1, <3>1 DEF N
    <3>3. o[k + 1] <= o[m]
      BY <1>1, <1>4, <2>1, <2>3, <3>1, <3>2
    <3> QED
      BY <1>4, <2>1, <2>3, <3>2, <3>3
  <2> QED
    BY <2>2, <2>3
<1> DEFINE R == (k + 1)..N
           b == [m \in R |-> o[m] - n]
<1>8. \A m \in R : m \in 1..N /\ m \in 0..N
  BY <1>1, <1>4
<1>9. ASSUME NEW m \in R
      PROVE  o[m] - n \in X
  <2>1. n < o[m] /\ o[m] \in Nat
    BY <1>1, <1>7, <1>8
  <2>2. o[m] <= o[N] /\ o[N] \in Nat
    BY <1>1, <1>8, <2>1
  <2> DEFINE p == o[m]
             z == o[N]
  <2>4. L = z + 1 /\ z \in Nat /\ p \in Nat /\ n < p /\ p <= z /\ n \in Nat
    BY <1>2, <1>4, <2>1, <2>2 DEF L
  <2> HIDE DEF p, z
  <2>5. p - n \in 1..(L - n) /\ n + (p - n) = p
    BY <2>4
  <2>3. o[m] - n \in 1..(L - n) /\ n + (o[m] - n) = o[m]
    BY <2>5 DEF p
  <2> QED
    BY <1>6, <1>8, <2>3
<1>10. \A a, c \in R : b[a] = b[c] => a = c
  <2> SUFFICES ASSUME NEW a \in R, NEW c \in R, o[a] - n = o[c] - n
               PROVE  a = c
    OBVIOUS
  <2>1. o[a] \in Nat /\ o[c] \in Nat
    BY <1>1, <1>8
  <2>2. o[a] = o[c]
    BY <1>4, <2>1
  <2>3. ~ (o[a] < o[c]) /\ ~ (o[c] < o[a])
    BY <2>1, <2>2
  <2>4. ~ (a < c) /\ ~ (c < a)
    BY <1>1, <1>8, <2>3
  <2> QED
    BY <1>4, <2>4
<1>11. ASSUME NEW i \in X
       PROVE  \E m \in R : b[m] = i
  <2>1. PICK m \in 1..N : n + i = o[m]
    BY <1>6
  <2>2. i \in 1..(L - n)
    BY <1>6
  <2>3. n < o[m] /\ o[m] - n = i
    BY <1>4, <2>1, <2>2
  <2>4. m \in R
    BY <1>7, <2>3
  <2> QED
    BY <2>3, <2>4
<1>12. b \in Bijection(R, X)
  <2>1. b \in [R -> X]
    BY <1>9
  <2> HIDE DEF b, R
  <2> QED
    BY <1>10, <1>11, <2>1 DEF Bijection, Injection, Surjection, IsInjective
<1>13. IsFiniteSet(R) /\ Cardinality(R) = N - k
  <2>1. k + 1 \in Int /\ N \in Int
    BY <1>1, <1>4
  <2>2. IsFiniteSet(R) /\ Cardinality(R) = IF k + 1 > N THEN 0 ELSE N - (k + 1) + 1
    BY <2>1, FS_Interval
  <2> QED
    BY <1>1, <1>4, <2>2
<1>14. Cardinality(X) = N - k
  <2>1. ExistsBijection(R, X)
    BY <1>12 DEF ExistsBijection
  <2> QED
    BY <1>13, <2>1, FS_Bijection
<1> QED
  BY <1>14 DEF X, s, L, E, N

-----------------------------------------------------------------------------
(* The loop: how far the document is read, and what that has given.        *)

\* f and g are the responses and active names of the first j events of s.
Partly(f, g, s, j, x) ==
  /\ f[0] = x
  /\ \A i \in 1..j : /\ f[i] = NextResponse(f[i - 1], g[i - 1], s[i])
                     /\ g[i] = NextActive(g[i - 1], s[i])
Within(s, j, x, a) == \E f, g : Partly(f, g, s, j, None) /\ x = f[j] /\ a = g[j]

LEMMA WithinStarts ==
  ASSUME NEW s, NEW a
  PROVE  Within(s, 0, None, a)
<1> DEFINE f == [i \in {0} |-> None]
           g == [i \in {0} |-> a]
<1>1. f[0] = None /\ g[0] = a
  OBVIOUS
<1> HIDE DEF f, g
<1>2. Partly(f, g, s, 0, None)
  BY <1>1 DEF Partly
<1> QED
  BY <1>1, <1>2 DEF Within

LEMMA WithinGoesOn ==
  ASSUME NEW s, NEW j \in Nat, NEW x, NEW a, Within(s, j, x, a)
  PROVE  Within(s, j + 1, NextResponse(x, a, s[j + 1]), NextActive(a, s[j + 1]))
<1>1. PICK f, g : Partly(f, g, s, j, None) /\ x = f[j] /\ a = g[j]
  BY DEF Within
<1> DEFINE y == NextResponse(x, a, s[j + 1])
           b == NextActive(a, s[j + 1])
           h == [i \in 0..(j + 1) |-> IF i <= j THEN f[i] ELSE y]
           m == [i \in 0..(j + 1) |-> IF i <= j THEN g[i] ELSE b]
<1> HIDE DEF y, b
<1>2. /\ \A i \in 0..j : h[i] = f[i] /\ m[i] = g[i]
      /\ h[j + 1] = y /\ m[j + 1] = b
  OBVIOUS
<1> HIDE DEF h, m
<1>3. h[0] = None
  BY <1>1, <1>2 DEF Partly
<1>4. ASSUME NEW i \in 1..(j + 1)
      PROVE  h[i] = NextResponse(h[i - 1], m[i - 1], s[i]) /\ m[i] = NextActive(m[i - 1], s[i])
  <2>1. i - 1 \in 0..j
    OBVIOUS
  <2>2. h[i - 1] = f[i - 1] /\ m[i - 1] = g[i - 1]
    BY <1>2, <2>1
  <2>3. CASE i = j + 1
    <3>1. i - 1 = j
      BY <2>3
    <3> QED
      BY <1>1, <1>2, <2>2, <2>3, <3>1 DEF y, b
  <2>4. CASE i # j + 1
    <3>1. i \in 1..j /\ i \in 0..j
      BY <2>4
    <3>2. f[i] = NextResponse(f[i - 1], g[i - 1], s[i]) /\ g[i] = NextActive(g[i - 1], s[i])
      BY <1>1, <3>1 DEF Partly
    <3> QED
      BY <1>2, <2>2, <3>1, <3>2
  <2> QED
    BY <2>3, <2>4
<1>5. Partly(h, m, s, j + 1, None)
  BY <1>3, <1>4 DEF Partly
<1> QED
  BY <1>2, <1>5 DEF Within, y, b

\* Reached its end tag a response is what the server wrote, whatever was read before it.
LEMMA WithinEnds ==
  ASSUME NEW r \in Responses, PlainResponse(r), NEW x, NEW a,
         Within(Body(r), Len(Body(r)), x, a)
  PROVE  x = Full(r)
<1> DEFINE s == Body(r)
<1>1. Yields(s, None, Full(r))
  BY BodyRead
<1>2. PICK f, g : Partly(f, g, s, Len(s), None) /\ x = f[Len(s)] /\ a = g[Len(s)]
  BY DEF Within
<1> HIDE DEF s
<1>3. Runs(f, g, s, None)
  BY <1>2 DEF Runs, Partly
<1> QED
  BY <1>1, <1>2, <1>3 DEF Yields

\* n events of d are read, k responses among them: x is the response being filled.
Reached(d, o, n, k, x, a) ==
  \/ n < 2 /\ k = 0 /\ x = None
  \/ /\ k < Len(d)
     /\ \E j \in 0..Len(Body(d[k + 1])) : n = o[k] + j /\ Within(Body(d[k + 1]), j, x, a)
  \/ k = Len(d) /\ n \in {o[Len(d)], o[Len(d)] + 1} /\ x = None

\* s are the events still to come, rs the resources read.
ReadSoFar(d, o, n, k, s, x, a, rs) ==
  /\ Layout(o, d) /\ n \in 0..Len(Events(d)) /\ k \in 0..Len(d)
  /\ s = SubSeq(Events(d), n + 1, Len(Events(d)))
  /\ rs = [i \in 1..k |-> Meaning(d[i])]
  /\ Reached(d, o, n, k, x, a)

\* After a response comes the next one or the end of the document.
LEMMA ResponseOver ==
  ASSUME NEW d, PlainDocument(d), NEW o, Layout(o, d), NEW k \in 0..Len(d), NEW a
  PROVE  Reached(d, o, o[k], k, None, a)
<1>1. CASE k = Len(d)
  BY <1>1 DEF Reached
<1>2. CASE k # Len(d)
  <2> DEFINE l == Len(Body(d[k + 1]))
  <2>1. Len(d) \in Nat /\ k < Len(d) /\ k + 1 \in DOMAIN d /\ DOMAIN d = 1..Len(d)
    BY <1>2 DEF PlainDocument
  <2>2. d[k + 1] \in Responses /\ PlainResponse(d[k + 1])
    BY <2>1 DEF PlainDocument
  <2>3. l \in Nat /\ o[k] \in Nat
    BY <2>2, ResponseParts, LayoutGrows
  <2> HIDE DEF l
  <2>4. 0 \in 0..l /\ o[k] = o[k] + 0
    BY <2>3
  <2>5. Within(Body(d[k + 1]), 0, None, a)
    BY WithinStarts
  <2> QED
    BY <2>1, <2>4, <2>5 DEF Reached, l
<1> QED
  BY <1>1, <1>2

\* The next event is the next of the document.
LEMMA EventTaken ==
  ASSUME NEW E \in Seq(EventSet), NEW n \in 0..Len(E), NEW s,
         s = SubSeq(E, n + 1, Len(E)), s # <<>>
  PROVE  /\ n + 1 \in 0..Len(E) /\ n < Len(E) /\ Head(s) = E[n + 1] /\ E[n + 1] \in EventSet
         /\ Tail(s) = SubSeq(E, (n + 1) + 1, Len(E))
<1> DEFINE L == Len(E)
           t == SubSeq(E, (n + 1) + 1, L)
<1>1. L \in Nat
  OBVIOUS
<1>2. \A i \in 1..L : E[i] \in EventSet
  OBVIOUS
<1> HIDE DEF L
<1>3. /\ s \in Seq(EventSet) /\ Len(s) = IF n + 1 <= L THEN L - (n + 1) + 1 ELSE 0
      /\ \A i \in 1..(L - (n + 1) + 1) : s[i] = E[(n + 1) + i - 1]
  <2>1. \A i \in (n + 1)..L : E[i] \in EventSet
    BY <1>1, <1>2 DEF L
  <2>2. n + 1 \in Int /\ L \in Int
    BY <1>1 DEF L
  <2>3. s = SubSeq(E, n + 1, L)
    BY DEF L
  <2> QED
    BY <2>1, <2>2, <2>3, SubSeqProperties
<1>4. n < L /\ n + 1 \in 0..L /\ n + 1 \in 1..L /\ Len(s) = L - n
  <2>1. n \in 0..L
    BY DEF L
  <2>2. Len(s) # 0
    BY <1>3
  <2> QED
    BY <1>1, <1>3, <2>1, <2>2
<1>5. Head(s) = E[n + 1]
  <2>1. 1 \in 1..(L - (n + 1) + 1) /\ (n + 1) + 1 - 1 = n + 1 /\ Head(s) = s[1]
    BY <1>1, <1>3, <1>4
  <2> QED
    BY <1>3, <2>1
<1>6. /\ t \in Seq(EventSet) /\ Len(t) = L - n - 1
      /\ \A i \in 1..(L - n - 1) : t[i] = E[n + 1 + i]
  <2>1. \A i \in ((n + 1) + 1)..L : E[i] \in EventSet
    BY <1>1, <1>2, <1>4
  <2>2. (n + 1) + 1 \in Int /\ L \in Int
    BY <1>1, <1>4
  <2>3. /\ t \in Seq(EventSet)
        /\ Len(t) = IF (n + 1) + 1 <= L THEN L - ((n + 1) + 1) + 1 ELSE 0
        /\ \A i \in 1..(L - ((n + 1) + 1) + 1) : t[i] = E[((n + 1) + 1) + i - 1]
    BY <2>1, <2>2, SubSeqProperties
  <2> HIDE DEF t
  <2>4. Len(t) = L - n - 1
    BY <1>1, <1>4, <2>3
  <2>5. \A i \in 1..(L - n - 1) :
          i \in 1..(L - ((n + 1) + 1) + 1) /\ ((n + 1) + 1) + i - 1 = n + 1 + i
    BY <1>1, <1>4
  <2> QED
    BY <2>3, <2>4, <2>5
<1> HIDE DEF t
<1>7. Tail(s) = t
  <2>1. /\ Tail(s) \in Seq(EventSet) /\ Len(Tail(s)) = Len(s) - 1
        /\ \A i \in 1..Len(Tail(s)) : Tail(s)[i] = s[i + 1]
    BY <1>3, HeadTailProperties
  <2>2. Len(Tail(s)) = Len(t)
    BY <1>1, <1>4, <1>6, <2>1
  <2>3. ASSUME NEW i \in 1..Len(t)
        PROVE  Tail(s)[i] = t[i]
    <3>1. i \in 1..(L - n - 1) /\ i + 1 \in 1..(L - (n + 1) + 1)
          /\ (n + 1) + (i + 1) - 1 = n + 1 + i
      BY <1>1, <1>4, <1>6
    <3>2. s[i + 1] = E[n + 1 + i]
      BY <1>3, <3>1
    <3> QED
      BY <1>6, <2>1, <2>2, <3>1, <3>2
  <2> DEFINE u == Tail(s)
  <2> HIDE DEF u
  <2>4. u \in Seq(EventSet) /\ Len(u) = Len(t) /\ \A i \in 1..Len(t) : u[i] = t[i]
    BY <2>1, <2>2, <2>3 DEF u
  <2>5. u = t
    BY <1>6, <2>4, SeqEqual
  <2> QED
    BY <2>5 DEF u
<1> QED
  BY <1>1, <1>2, <1>4, <1>5, <1>7 DEF L, t

LEMMA FullIsResponse ==
  ASSUME NEW r \in Responses, PlainResponse(r)
  PROVE  Full(r) # None /\ Full(r).href = Text(r.href)
<1>1. /\ r.href \in Content /\ r.size \in Content /\ r.etag \in Content
      /\ Plain(r.href) /\ Plain(r.size) /\ Plain(r.etag)
  BY DEF Responses, PlainResponse
<1>2. Text(r.href) \in Seq(Words) /\ Text(r.etag) \in Seq(Words)
  BY <1>1, TextTyped
<1>3. (IF Text(r.size) = <<>> THEN 0 ELSE Parsed(Text(r.size))) \in Nat
  BY ParsedNat
<1>4. (IF Text(r.etag) = <<>> THEN None ELSE Text(r.etag)) \in {None} \cup Seq(Words)
  BY <1>2
<1>5. (r.form # "file") \in BOOLEAN
  OBVIOUS
<1>6. Full(r) \in DavResponse
  BY <1>2, <1>3, <1>4, <1>5 DEF Full, DavResponse
<1> QED
  BY <1>6, ValuesAssumption DEF Full

\* An event inside a response or around them.
GoesOn(d, o, t, x, a, e, rs) ==
  \E m, l : ReadSoFar(d, o, m, l, t, NextResponse(x, a, e), NextActive(a, e), rs)
\* The end of a response.
Ends(d, o, t, x, rs) ==
  /\ x # None /\ x.href # <<>>
  /\ \E m, l : ReadSoFar(d, o, m, l, t, None, "", Append(rs, IntoResource(x)))

LEMMA EventRead ==
  ASSUME NEW d, PlainDocument(d), \A i \in DOMAIN d : Text(d[i].href) # <<>>,
         NEW o, NEW n, NEW k, NEW s, NEW x, NEW a, NEW rs,
         ReadSoFar(d, o, n, k, s, x, a, rs), s # <<>>
  PROVE  /\ Head(s) \in EventSet
         /\ Head(s) # End("response") => GoesOn(d, o, Tail(s), x, a, Head(s), rs)
         /\ Head(s) = End("response") => Ends(d, o, Tail(s), x, rs)
<1> DEFINE N == Len(d)
           E == Events(d)
           e == Head(s)
           t == Tail(s)
<1>1. /\ Layout(o, d) /\ n \in 0..Len(E) /\ k \in 0..N
      /\ s = SubSeq(E, n + 1, Len(E)) /\ rs = [i \in 1..k |-> Meaning(d[i])]
      /\ Reached(d, o, n, k, x, a)
  BY DEF ReadSoFar
<1>2. /\ E \in Seq(EventSet) /\ o[0] = 2 /\ Len(E) = o[N] + 1
      /\ E[1] = [kind |-> "other"] /\ E[2] = Start("multistatus")
      /\ E[o[N] + 1] = End("multistatus")
  BY <1>1 DEF Layout
<1>3. N \in Nat /\ DOMAIN d = 1..N
      /\ \A i \in 1..N : d[i] \in Responses /\ PlainResponse(d[i]) /\ Text(d[i].href) # <<>>
  BY DEF PlainDocument
<1>4. \A i \in 0..N : o[i] \in Nat
  BY <1>1, LayoutGrows
<1>5. /\ n + 1 \in 0..Len(E) /\ n < Len(E) /\ e = E[n + 1] /\ E[n + 1] \in EventSet
      /\ t = SubSeq(E, (n + 1) + 1, Len(E))
  BY <1>1, <1>2, EventTaken
<1> HIDE DEF E, e, t
<1>6. n \in Nat /\ k \in Nat /\ k <= N
  <2>1. Len(E) \in Nat
    BY <1>2
  <2> QED
    BY <1>1, <1>3, <2>1
<1>7. [kind |-> "other"] # End("response")
  <2>1. [kind |-> "other"].kind = "other" /\ End("response").kind = "end"
    BY DEF End, Tag
  <2> QED
    BY <2>1
<1>8. /\ "multistatus" \in TagNames /\ Start("multistatus") # End("response")
      /\ End("multistatus") # End("response")
  BY TagsTyped DEF TagNames
\* The next place, if the event is no end of a response.
<1>9. ASSUME Reached(d, o, n + 1, k, NextResponse(x, a, e), NextActive(a, e))
      PROVE  GoesOn(d, o, t, x, a, e, rs)
  BY <1>1, <1>5, <1>9 DEF GoesOn, ReadSoFar, E
<1>10. CASE n < 2 /\ k = 0 /\ x = None
  <2>1. CASE n = 0
    <3>1. e = [kind |-> "other"]
      BY <1>2, <1>5, <2>1
    <3>2. NextResponse(x, a, e) = None
      BY <1>10, <3>1 DEF NextResponse
    <3>3. n + 1 < 2
      BY <2>1
    <3>4. Reached(d, o, n + 1, k, NextResponse(x, a, e), NextActive(a, e))
      BY <1>10, <3>2, <3>3 DEF Reached
    <3> QED
      BY <1>5, <1>7, <1>9, <3>1, <3>4 DEF e, t
  <2>2. CASE n = 1
    <3>1. e = Start("multistatus")
      BY <1>2, <1>5, <2>2
    <3>2. NextResponse(x, a, e) = None
      BY <1>10, <3>1 DEF NextResponse, Start, Tag
    <3>3. n + 1 = o[k] /\ k \in 0..Len(d)
      BY <1>1, <1>2, <1>10, <2>2
    <3>4. Reached(d, o, o[k], k, None, NextActive(a, e))
      BY <1>1, <3>3, ResponseOver
    <3> QED
      BY <1>5, <1>8, <1>9, <3>1, <3>2, <3>3, <3>4 DEF e, t
  <2> QED
    BY <1>6, <1>10, <2>1, <2>2
<1>11. ASSUME k < N, NEW j \in 0..Len(Body(d[k + 1])), n = o[k] + j,
              Within(Body(d[k + 1]), j, x, a)
       PROVE  /\ e # End("response") => GoesOn(d, o, t, x, a, e, rs)
              /\ e = End("response") => Ends(d, o, t, x, rs)
  <2> DEFINE r == d[k + 1]
             b == Body(r)
             l == Len(b)
  <2>1. k + 1 \in 1..N /\ k \in 0..N /\ k + 1 \in 0..N /\ (k + 1) - 1 = k
    BY <1>3, <1>6, <1>11
  <2>2. r \in Responses /\ PlainResponse(r) /\ Text(r.href) # <<>>
    BY <1>3, <2>1
  <2>3. /\ o[k + 1] = o[k] + l + 1 /\ E[o[k + 1]] = End("response")
        /\ \A i \in 1..l : E[o[k] + i] = b[i]
    BY <1>1, <2>1 DEF Layout, E
  <2>4. l \in Nat /\ \A i \in 1..l : b[i] # End("response")
    BY <2>2, ResponseParts
  <2>5. j \in 0..l /\ Within(b, j, x, a)
    BY <1>11
  <2>6. o[k] \in Nat
    BY <1>4, <2>1
  <2> HIDE DEF r, b, l
  <2>7. CASE j < l
    <3>1. j + 1 \in 1..l /\ j + 1 \in 0..l /\ j \in Nat
      BY <2>4, <2>5, <2>7
    <3>2. n + 1 = o[k] + (j + 1)
      BY <1>11, <2>6, <3>1
    <3>3. e = b[j + 1]
      BY <1>5, <2>3, <3>1, <3>2
    <3>4. Within(b, j + 1, NextResponse(x, a, e), NextActive(a, e))
      BY <2>5, <3>1, <3>3, WithinGoesOn
    <3>5. Reached(d, o, n + 1, k, NextResponse(x, a, e), NextActive(a, e))
      BY <1>11, <3>1, <3>2, <3>4 DEF Reached, r, b, l
    <3> QED
      BY <1>9, <2>4, <3>1, <3>3, <3>5
  <2>8. CASE j = l
    <3>1. n + 1 = o[k + 1]
      BY <1>11, <2>3, <2>4, <2>6, <2>8
    <3>2. e = End("response")
      BY <1>5, <2>3, <3>1
    <3>3. x = Full(r)
      <4>1. Within(Body(r), Len(Body(r)), x, a)
        BY <2>5, <2>8 DEF b, l
      <4> QED
        BY <2>2, <4>1, WithinEnds
    <3>4. x # None /\ x.href # <<>>
      BY <2>2, <3>3, FullIsResponse
    <3>5. IntoResource(x) = Meaning(d[k + 1])
      BY <2>2, <3>3, FullMeans DEF r
    <3>6. Append(rs, IntoResource(x)) = [i \in 1..(k + 1) |-> Meaning(d[i])]
      <4> DEFINE M == [i \in 1..N |-> Meaning(d[i])]
      <4>1. M \in Seq({Meaning(d[i]) : i \in 1..N}) /\ Len(M) = N
        BY <1>3
      <4>2. \A i \in 1..N : M[i] = Meaning(d[i])
        OBVIOUS
      <4> HIDE DEF M
      <4>3. Append([i \in 1..((k + 1) - 1) |-> M[i]], M[k + 1]) = [i \in 1..(k + 1) |-> M[i]]
        BY <2>1, <4>1, PrefixesOf
      <4>4. \A i \in 1..(k + 1) : i \in 1..N
        BY <1>3, <1>6, <2>1
      <4>5. [i \in 1..((k + 1) - 1) |-> M[i]] = rs
        <5>1. \A i \in 1..k : i \in 1..N
          BY <1>3, <1>6
        <5> QED
          BY <1>1, <2>1, <4>2, <5>1
      <4>6. [i \in 1..(k + 1) |-> M[i]] = [i \in 1..(k + 1) |-> Meaning(d[i])]
        BY <4>2, <4>4
      <4> QED
        BY <2>1, <3>5, <4>2, <4>3, <4>5, <4>6
    <3>7. Reached(d, o, n + 1, k + 1, None, "")
      <4>1. Reached(d, o, o[k + 1], k + 1, None, "")
        BY <1>1, <2>1, ResponseOver
      <4> QED
        BY <3>1, <4>1
    <3>8. ReadSoFar(d, o, n + 1, k + 1, t, None, "", Append(rs, IntoResource(x)))
      BY <1>1, <1>5, <2>1, <3>6, <3>7 DEF ReadSoFar, E
    <3> QED
      BY <3>2, <3>4, <3>8 DEF Ends
  <2> QED
    BY <2>4, <2>5, <2>7, <2>8
<1>12. CASE k = N /\ n \in {o[N], o[N] + 1} /\ x = None
  <2>1. o[N] \in Nat
    BY <1>3, <1>4
  <2>2. n = o[N]
    BY <1>2, <1>5, <1>12, <2>1
  <2>3. e = End("multistatus")
    BY <1>2, <1>5, <2>2
  <2>4. NextResponse(x, a, e) = None
    BY <1>12, <2>3 DEF NextResponse, End, Tag
  <2>5. Reached(d, o, n + 1, k, NextResponse(x, a, e), NextActive(a, e))
    BY <1>12, <2>2, <2>4 DEF Reached
  <2> QED
    BY <1>5, <1>8, <1>9, <2>3, <2>5 DEF e, t
<1>13. /\ e # End("response") => GoesOn(d, o, t, x, a, e, rs)
       /\ e = End("response") => Ends(d, o, t, x, rs)
  <2>1. CASE k < N /\ \E j \in 0..Len(Body(d[k + 1])) :
               n = o[k] + j /\ Within(Body(d[k + 1]), j, x, a)
    BY <1>11, <2>1
  <2> QED
    BY <1>1, <1>10, <1>12, <2>1 DEF Reached, e, t
<1> QED
  BY <1>5, <1>13 DEF e, t

\* Upstream writes every text in one piece, without a reference, and an href in
\* every response.
PlainTexts == \A d \in Documents : \A k \in DOMAIN d : PlainResponse(d[k])
HrefsGiven == \A d \in Documents : \A k \in DOMAIN d : Text(d[k].href) # <<>>

\* The inductive invariant: the loop is somewhere in its document, has read the
\* responses before, and holds what the open one has said so far.
ParseInv ==
  /\ doc \in Documents
  /\ \E o, n, k : ReadSoFar(doc, o, n, k, input, response, active, resources)

LEMMA ParseStarts ==
  ASSUME PlainTexts, ParseInit
  PROVE  ParseInv
<1>1. doc \in Documents /\ PlainDocument(doc)
  BY DocumentsAssumption DEF ParseInit, PlainTexts, PlainDocument
<1>2. PICK o : Layout(o, doc)
  BY <1>1, LayoutExists
<1> DEFINE E == Events(doc)
<1>3. E \in Seq(EventSet)
  BY <1>2 DEF Layout
<1> HIDE DEF E
<1>4. 0 \in 0..Len(E) /\ input = SubSeq(E, 0 + 1, Len(E))
  <2>1. input = E
    BY DEF ParseInit, E
  <2>2. E = SubSeq(E, 1, Len(E))
    BY <1>3
  <2> QED
    BY <1>3, <2>1, <2>2
<1>5. 0 \in 0..Len(doc)
  BY <1>1 DEF PlainDocument
<1>6. Reached(doc, o, 0, 0, response, active)
  <2>1. response = None
    BY Zenon DEF ParseInit
  <2>2. 0 < 2
    OBVIOUS
  <2> QED
    BY <2>1, <2>2, Zenon DEF Reached
<1>7. resources = [i \in 1..0 |-> Meaning(doc[i])]
  <2> DEFINE m == [i \in 1..0 |-> Meaning(doc[i])]
  <2>1. m = [i \in 1..0 |-> m[i]]
    OBVIOUS
  <2> HIDE DEF m
  <2>2. m = <<>>
    BY <2>1
  <2> QED
    BY <2>2 DEF ParseInit, m
<1>8. ReadSoFar(doc, o, 0, 0, input, response, active, resources)
  BY <1>2, <1>4, <1>5, <1>6, <1>7 DEF ReadSoFar, E
<1> QED
  BY <1>1, <1>8 DEF ParseInv

\* What the actions do with an event.
LEMMA EventActs ==
  ASSUME ReadStart \/ ReadSelf \/ ReadText \/ ReadEnd \/ ReadOther, Event \in EventSet
  PROVE  /\ input # <<>> /\ doc' = doc /\ input' = Tail(input)
         /\ Event # End("response") =>
              /\ response' = NextResponse(response, active, Event)
              /\ active' = NextActive(active, Event) /\ resources' = resources
         /\ Event = End("response") /\ response # None /\ response.href # <<>> =>
              /\ response' = None /\ active' = ""
              /\ resources' = Append(resources, IntoResource(response))
<1> DEFINE e == Event
<1>1. input # <<>> /\ doc' = doc /\ input' = Tail(input)
  BY DEF ReadStart, ReadSelf, ReadText, ReadEnd, ReadOther, Reading, Advance
<1>2. e.kind = "end" /\ e.name = "response" => e = End("response")
  <2> HIDE DEF e
  <2>1. e \in EventSet
    BY DEF e
  <2> QED
    BY <2>1 DEF EventSet, End, Tag
<1>3. End("response").kind = "end" /\ End("response").name = "response"
  BY DEF End, Tag
<1>4. CASE ReadStart
  <2>1. e.kind = "start"
    BY <1>4 DEF ReadStart
  <2> QED
    BY <1>1, <1>3, <1>4, <2>1 DEF ReadStart, Opened, NextResponse, NextActive
<1>5. CASE ReadSelf
  <2>1. e.kind = "self"
    BY <1>5 DEF ReadSelf
  <2> QED
    BY <1>1, <1>3, <1>5, <2>1 DEF ReadSelf, NextResponse, NextActive
<1>6. CASE ReadText
  <2>1. e.kind = "text"
    BY <1>6 DEF ReadText
  <2> QED
    BY <1>1, <1>3, <1>6, <2>1 DEF ReadText, NextResponse, NextActive
<1>7. CASE ReadEnd
  <2>1. e.kind = "end"
    BY <1>7 DEF ReadEnd
  <2> QED
    BY <1>1, <1>2, <1>3, <1>7, <2>1 DEF ReadEnd, NextResponse, NextActive
<1>8. CASE ReadOther
  <2>1. e.kind = "other"
    BY <1>8 DEF ReadOther
  <2> QED
    BY <1>1, <1>3, <1>8, <2>1 DEF ReadOther, NextResponse, NextActive
<1> QED
  BY <1>4, <1>5, <1>6, <1>7, <1>8

LEMMA ParseGoesOn ==
  ASSUME PlainTexts, HrefsGiven, ParseInv, [ParseNext]_parsing
  PROVE  ParseInv'
<1>1. /\ doc \in Documents /\ PlainDocument(doc)
      /\ \A i \in DOMAIN doc : Text(doc[i].href) # <<>>
  BY DocumentsAssumption DEF ParseInv, PlainTexts, HrefsGiven, PlainDocument
<1>2. PICK o, n, k : ReadSoFar(doc, o, n, k, input, response, active, resources)
  BY DEF ParseInv
<1>3. CASE ReadStart \/ ReadSelf \/ ReadText \/ ReadEnd \/ ReadOther
  <2>1. input # <<>>
    BY <1>3 DEF ReadStart, ReadSelf, ReadText, ReadEnd, ReadOther, Reading
  <2>2. /\ Event \in EventSet
        /\ Event # End("response") =>
             GoesOn(doc, o, Tail(input), response, active, Event, resources)
        /\ Event = End("response") => Ends(doc, o, Tail(input), response, resources)
    BY <1>1, <1>2, <2>1, EventRead DEF Event
  <2>3. CASE Event # End("response")
    BY <1>1, <1>3, <2>2, <2>3, EventActs DEF GoesOn, ParseInv
  <2>4. CASE Event = End("response")
    BY <1>1, <1>3, <2>2, <2>4, EventActs DEF Ends, ParseInv
  <2> QED
    BY <2>3, <2>4
<1>4. CASE ReadStop \/ UNCHANGED parsing
  BY <1>1, <1>2, <1>4 DEF ReadStop, parsing, ParseInv
<1> QED
  BY <1>3, <1>4 DEF ParseNext

LEMMA ReadSoFarIsRead ==
  ASSUME PlainTexts, ParseInv
  PROVE  ReadsWhatIsWritten
<1>1. doc \in Documents /\ PlainDocument(doc)
  BY DocumentsAssumption DEF ParseInv, PlainTexts, PlainDocument
<1>2. PICK o, n, k : ReadSoFar(doc, o, n, k, input, response, active, resources)
  BY DEF ParseInv
<1> DEFINE N == Len(doc)
           E == Events(doc)
<1>3. /\ Layout(o, doc) /\ n \in 0..Len(E) /\ k \in 0..N
      /\ input = SubSeq(E, n + 1, Len(E))
      /\ resources = [i \in 1..k |-> Meaning(doc[i])]
      /\ Reached(doc, o, n, k, response, active)
  BY <1>2 DEF ReadSoFar
<1>4. /\ N \in Nat /\ \A i \in 0..N : o[i] \in Nat
      /\ \A i \in 1..N : o[i - 1] < o[i]
      /\ o[0] = 2
  BY <1>1, <1>3, LayoutGrows DEF Layout
<1>5. k \in Nat /\ k <= N
  BY <1>3, <1>4
<1>6. (k = 0 \/ o[k] <= n) /\ (k = N \/ n < o[k + 1])
  <2>1. CASE n < 2 /\ k = 0
    <3>1. k # N => 1 \in 0..N /\ 1 \in 1..N /\ k + 1 = 1 /\ 1 - 1 = 0
      BY <1>4, <1>5, <2>1
    <3>2. k # N => n < o[k + 1]
      <4>1. n \in Nat
        <5>1. Len(E) \in Nat
          BY <1>3 DEF Layout
        <5> QED
          BY <1>3, <5>1
      <4>2. k # N => o[1] \in Nat /\ 2 < o[1]
        BY <1>4, <3>1
      <4> QED
        BY <2>1, <3>1, <4>1, <4>2
    <3> QED
      BY <2>1, <3>2
  <2>2. ASSUME k < N, NEW j \in 0..Len(Body(doc[k + 1])), n = o[k] + j
        PROVE  o[k] <= n /\ n < o[k + 1]
    <3> DEFINE l == Len(Body(doc[k + 1]))
    <3>1. k + 1 \in 1..N /\ k \in 0..N /\ (k + 1) - 1 = k
      BY <1>4, <1>5, <2>2
    <3>2. doc[k + 1] \in Responses /\ PlainResponse(doc[k + 1])
      BY <1>1, <3>1 DEF PlainDocument
    <3>3. l \in Nat
      BY <3>2, ResponseParts
    <3>4. o[k + 1] = o[k] + l + 1
      BY <1>3, <3>1 DEF Layout
    <3>5. o[k] \in Nat /\ j \in 0..l
      BY <1>4, <3>1
    <3> HIDE DEF l
    <3> QED
      BY <2>2, <3>3, <3>4, <3>5
  <2>3. CASE k = N /\ n \in {o[N], o[N] + 1}
    <3>1. o[N] \in Nat
      BY <1>4
    <3> QED
      BY <2>3, <3>1
  <2> QED
    BY <1>3, <2>1, <2>2, <2>3 DEF Reached
<1>7. Cardinality({i \in DOMAIN input : input[i] = End("response")}) = N - k
  BY <1>1, <1>3, <1>6, EndsToCome
<1>8. Closed = k
  BY <1>4, <1>5, <1>7 DEF Closed
<1> QED
  BY <1>3, <1>8 DEF ReadsWhatIsWritten

\* Each response that has been read is one resource, with its own values and
\* nothing of the responses before it, in their order.
THEOREM WhatIsWrittenIsRead ==
  ASSUME PlainTexts, HrefsGiven
  PROVE  ParseSpec => []ReadsWhatIsWritten
<1>1. ParseInit => ParseInv
  BY ParseStarts
<1>2. ParseInv /\ [ParseNext]_parsing => ParseInv'
  BY ParseGoesOn
<1>3. ParseInv => ReadsWhatIsWritten
  BY ReadSoFarIsRead
<1> QED
  BY <1>1, <1>2, <1>3, PTL DEF ParseSpec
=============================================================================
