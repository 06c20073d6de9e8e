--------------------------- MODULE ClassifierProofs ---------------------------
(***************************************************************************)
(* Proofs about the classifier, for libraries and configurations of any    *)
(* size: what build_snapshot builds is described in closed form, as the    *)
(* tree of a set of placements and of the names they got, and so is what   *)
(* delete_item makes of it.                                                *)
(***************************************************************************)
EXTENDS Classifier, Filters, PathLemmas, FiniteSetTheorems

-----------------------------------------------------------------------------
(* Paths.                                                                  *)

\* All that is a segment of a virtual path.
Segments ==
  STRING \cup {Clean[d.name] : d \in Directories} \cup {Clean[x.name] : x \in Library}
         \cup {Digested(Clean[x.name], x.id) : x \in Library}

\* The path of an entry of an item: that of the item and then the entry's own.
Join(c, n, q) == <<c, n>> \o q

LEMMA Joined ==
  ASSUME NEW S, NEW c \in S, NEW n \in S, NEW q \in Seq(S)
  PROVE  /\ Join(c, n, q) \in Seq(S)
         /\ Len(Join(c, n, q)) = 2 + Len(q) /\ Len(q) \in Nat
         /\ Join(c, n, q)[1] = c /\ Join(c, n, q)[2] = n
         /\ \A k \in 1..Len(q) : Join(c, n, q)[k + 2] = q[k]
<1> DEFINE t == <<c, n>>
<1>1. t \in Seq(S) /\ Len(t) = 2 /\ t[1] = c /\ t[2] = n
  OBVIOUS
<1>2. Len(q) \in Nat
  OBVIOUS
<1> HIDE DEF t
<1>3. /\ t \o q \in Seq(S) /\ Len(t \o q) = 2 + Len(q)
      /\ \A k \in 1..2 : (t \o q)[k] = t[k]
      /\ \A k \in 1..Len(q) : (t \o q)[k + 2] = q[k]
  <2>1. /\ t \o q \in Seq(S) /\ Len(t \o q) = Len(t) + Len(q)
        /\ \A k \in 1..Len(t) + Len(q) : (t \o q)[k] =
             IF k <= Len(t) THEN t[k] ELSE q[k - Len(t)]
    BY <1>1, ConcatProperties
  <2>2. ASSUME NEW k \in 1..Len(q)
        PROVE  (t \o q)[k + 2] = q[k]
    <3>1. k + 2 \in 1..Len(t) + Len(q) /\ ~ (k + 2 <= Len(t)) /\ (k + 2) - Len(t) = k
      BY <1>1, <1>2
    <3> QED
      BY <2>1, <3>1
  <2> QED
    BY <1>1, <1>2, <2>1, <2>2
<1> QED
  BY <1>1, <1>2, <1>3 DEF t, Join

\* It is neither the root nor a category.
LEMMA JoinedDeep ==
  ASSUME NEW S, NEW c \in S, NEW n \in S, NEW q \in Seq(S)
  PROVE  /\ Join(c, n, Root) = <<c, n>>
         /\ Join(c, n, q) # Root /\ \A e : Join(c, n, q) # <<e>>
<1>1. Join(c, n, Root) = <<c, n>>
  <2> DEFINE t == <<c, n>>
  <2>1. t \in Seq(S)
    OBVIOUS
  <2> HIDE DEF t
  <2>2. t \o <<>> = t
    BY <2>1
  <2> QED
    BY <2>2 DEF t, Join, Root
<1>2. Len(Join(c, n, q)) = 2 + Len(q) /\ Len(q) \in Nat
  BY Joined
<1>3. Len(Join(c, n, q)) # 0 /\ Len(Join(c, n, q)) # 1
  BY <1>2
<1>4. Len(<<>>) = 0 /\ \A e : Len(<<e>>) = 1
  OBVIOUS
<1> QED
  BY <1>1, <1>3, <1>4 DEF Root

\* Its item and its own path can be read off it.
LEMMA JoinedOnce ==
  ASSUME NEW S, NEW c \in S, NEW n \in S, NEW q \in Seq(S),
         NEW d \in S, NEW m \in S, NEW r \in Seq(S)
  PROVE  Join(c, n, q) = Join(d, m, r) => c = d /\ n = m /\ q = r
<1>1. /\ Len(Join(c, n, q)) = 2 + Len(q) /\ Len(q) \in Nat
      /\ Join(c, n, q)[1] = c /\ Join(c, n, q)[2] = n
      /\ \A k \in 1..Len(q) : Join(c, n, q)[k + 2] = q[k]
  BY Joined
<1>2. /\ Len(Join(d, m, r)) = 2 + Len(r) /\ Len(r) \in Nat
      /\ Join(d, m, r)[1] = d /\ Join(d, m, r)[2] = m
      /\ \A k \in 1..Len(r) : Join(d, m, r)[k + 2] = r[k]
  BY Joined
<1>3. ASSUME Join(c, n, q) = Join(d, m, r)
      PROVE  c = d /\ n = m /\ q = r
  <2>1. c = d /\ n = m /\ Len(q) = Len(r)
    BY <1>1, <1>2, <1>3
  <2>2. \A k \in 1..Len(q) : q[k] = r[k]
    BY <1>1, <1>2, <1>3, <2>1
  <2> QED
    BY <2>1, <2>2, SeqEqual
<1> QED
  BY <1>3

\* It is what an item's name makes of the path of its category.
LEMMA JoinedItem ==
  ASSUME NEW S, NEW c \in S, NEW n \in S
  PROVE  Append(<<c>>, n) = Join(c, n, Root)
<1> DEFINE s == Append(<<c>>, n)
           u == <<c, n>>
<1>1. <<c>> \in Seq(S) /\ Len(<<c>>) = 1 /\ <<c>>[1] = c
  OBVIOUS
<1>2. u \in Seq(S) /\ Len(u) = 2 /\ u[1] = c /\ u[2] = n
  OBVIOUS
<1>3. /\ s \in Seq(S) /\ Len(s) = Len(<<c>>) + 1 /\ s[Len(<<c>>) + 1] = n
      /\ \A k \in 1..Len(<<c>>) : s[k] = <<c>>[k]
  BY <1>1, AppendProperties
<1>4. u = Join(c, n, Root)
  <2>1. <<>> \in Seq(S)
    OBVIOUS
  <2> QED
    BY <2>1, JoinedDeep
<1> HIDE DEF s, u
<1>5. Len(s) = 2 /\ s[1] = c /\ s[2] = n
  BY <1>1, <1>3
<1>6. \A k \in 1..2 : s[k] = u[k]
  BY <1>2, <1>5
<1>7. s = u
  BY <1>2, <1>3, <1>5, <1>6, SeqEqual
<1> QED
  BY <1>4, <1>7 DEF s

\* The parents of a category and of an item.
LEMMA JoinedParent ==
  ASSUME NEW S, NEW c \in S, NEW n \in S
  PROVE  /\ Parent(<<c>>) = Root
         /\ Parent(Join(c, n, Root)) = <<c>>
<1>1. /\ <<c>> \in Seq(S) /\ Len(<<c>>) = 1 /\ <<c>>[1] = c /\ <<c>> # <<>>
      /\ <<c, n>> \in Seq(S) /\ Len(<<c, n>>) = 2 /\ <<c, n>>[1] = c /\ <<c, n>> # <<>>
  OBVIOUS
<1>2. Parent(<<c>>) \in Seq(S) /\ Len(Parent(<<c>>)) = 0
  BY <1>1, FrontIs DEF Front, Parent
<1>3. /\ Parent(<<c, n>>) \in Seq(S) /\ Len(Parent(<<c, n>>)) = 1
      /\ Parent(<<c, n>>)[1] = c
  BY <1>1, FrontIs DEF Front, Parent
<1>4. Parent(<<c>>) = <<>>
  BY <1>2
<1>5. Parent(<<c, n>>) = <<c>>
  BY <1>1, <1>3, SeqEqual
<1>6. <<>> \in Seq(S)
  OBVIOUS
<1>7. Join(c, n, Root) = <<c, n>>
  BY <1>6, JoinedDeep
<1> QED
  BY <1>4, <1>5, <1>7 DEF Root

\* The parent of an entry below an item.
LEMMA JoinedFolder ==
  ASSUME NEW S, NEW c \in S, NEW n \in S, NEW q \in Seq(S), q # Root
  PROVE  /\ Parent(q) \in Seq(S)
         /\ Parent(Join(c, n, q)) = Join(c, n, Parent(q))
<1> DEFINE p == Join(c, n, q)
           f == Join(c, n, Parent(q))
<1>1. /\ p \in Seq(S) /\ Len(p) = 2 + Len(q) /\ Len(q) \in Nat
      /\ p[1] = c /\ p[2] = n
      /\ \A k \in 1..Len(q) : p[k + 2] = q[k]
  BY Joined
<1>0. p # <<>>
  BY JoinedDeep DEF Root
<1>2. /\ Parent(q) \in Seq(S) /\ Len(Parent(q)) = Len(q) - 1 /\ Len(q) # 0
      /\ \A k \in 1..(Len(q) - 1) : Parent(q)[k] = q[k]
  BY FrontIs DEF Front, Parent, Root
<1>3. /\ f \in Seq(S) /\ Len(f) = 2 + Len(Parent(q))
      /\ f[1] = c /\ f[2] = n
      /\ \A k \in 1..Len(Parent(q)) : f[k + 2] = Parent(q)[k]
  BY <1>2, Joined
<1>4. /\ Parent(p) \in Seq(S) /\ Len(Parent(p)) = Len(p) - 1
      /\ \A k \in 1..(Len(p) - 1) : Parent(p)[k] = p[k]
  <2> HIDE DEF p
  <2> QED
    BY <1>0, <1>1, FrontIs DEF Front, Parent
<1> HIDE DEF p, f
<1>5. Len(Parent(p)) = Len(f)
  BY <1>1, <1>2, <1>3, <1>4
<1>6. ASSUME NEW k \in 1..Len(f)
      PROVE  Parent(p)[k] = f[k]
  <2>1. Parent(p)[k] = p[k]
    BY <1>4, <1>5
  <2>2. CASE k = 1 \/ k = 2
    BY <1>1, <1>3, <2>1, <2>2
  <2>3. CASE k # 1 /\ k # 2
    <3>1. k - 2 \in 1..(Len(q) - 1) /\ k - 2 \in 1..Len(q) /\ k = (k - 2) + 2
      BY <1>1, <1>2, <1>3, <2>3
    <3>2. f[k] = q[k - 2] /\ p[k] = q[k - 2]
      BY <1>1, <1>2, <1>3, <3>1
    <3> QED
      BY <2>1, <3>2
  <2> QED
    BY <2>2, <2>3
<1>7. Parent(p) = f
  BY <1>3, <1>4, <1>5, <1>6, SeqEqual
<1> QED
  BY <1>2, <1>7 DEF p, f

-----------------------------------------------------------------------------
(* One item in one directory: a placement is a pair of the two.            *)

\* The paths shown of it, relative to the item.
Below(a) == {Root} \cup {a[2].descendants[k].path : k \in Selected(a[1], a[2])}

\* What is shown at such a path.
Shows(x, q) ==
  IF q = Root THEN [root |-> x.id, below |-> Root, coll |-> x.coll, size |-> x.size]
  ELSE LET r == x.descendants[CHOOSE k \in DOMAIN x.descendants : x.descendants[k].path = q]
       IN [root |-> x.id, below |-> q, coll |-> r.coll, size |-> r.size]

\* What an item is.
LEMMA ItemFacts ==
  ASSUME NEW x \in Library
  PROVE  /\ x.id \in Ids /\ x.coll \in BOOLEAN
         /\ DOMAIN x.descendants = 1..Len(x.descendants) /\ Len(x.descendants) \in Nat
         /\ \A k \in DOMAIN x.descendants :
              /\ x.descendants[k].path \in Seq(STRING) /\ x.descendants[k].path # Root
              /\ x.descendants[k].coll \in BOOLEAN /\ x.descendants[k].size \in Nat
         /\ \A j, k \in DOMAIN x.descendants :
              x.descendants[j].path = x.descendants[k].path => j = k
         /\ DOMAIN x.descendants # {} => x.coll = TRUE
<1> DEFINE s == x.descendants
           R == [path: Seq(STRING), coll: BOOLEAN, size: Nat]
<1>1. /\ x.id \in Ids /\ x.coll \in BOOLEAN /\ s \in Seq(R)
      /\ ~x.coll => s = <<>>
      /\ \A j, k \in DOMAIN s : s[j].path = s[k].path => j = k
      /\ \A k \in DOMAIN s : s[k].path # Root
  BY LibraryAssumption
<1>2. \A r \in R : r.path \in Seq(STRING) /\ r.coll \in BOOLEAN /\ r.size \in Nat
  OBVIOUS
<1> HIDE DEF s, R
<1>3. DOMAIN s = 1..Len(s) /\ Len(s) \in Nat /\ \A k \in DOMAIN s : s[k] \in R
  BY <1>1
<1>4. DOMAIN s # {} => x.coll = TRUE
  BY <1>1
<1> QED
  BY <1>1, <1>2, <1>3, <1>4 DEF s

\* What is shown of an entry that the listing has.
LEMMA ShowsEntry ==
  ASSUME NEW x \in Library, NEW k \in DOMAIN x.descendants
  PROVE  Shows(x, x.descendants[k].path) =
           [root |-> x.id, below |-> x.descendants[k].path,
            coll |-> x.descendants[k].coll, size |-> x.descendants[k].size]
<1> DEFINE q == x.descendants[k].path
           c == CHOOSE j \in DOMAIN x.descendants : x.descendants[j].path = q
<1>1. q # Root /\ \A j \in DOMAIN x.descendants : x.descendants[j].path = q => j = k
  BY ItemFacts
<1>2. c \in DOMAIN x.descendants /\ x.descendants[c].path = q
  OBVIOUS
<1>3. c = k
  BY <1>1, <1>2
<1> QED
  BY <1>1, <1>3 DEF Shows

\* What is shown of an item belongs to it, and hangs together: below the item
\* itself nothing is shown without the folder it is in.
LEMMA BelowHangs ==
  ASSUME NEW d \in Directories, NEW x \in Library, NEW q \in Below(<<d, x>>)
  PROVE  /\ q \in Seq(STRING)
         /\ Shows(x, q).root = x.id /\ Shows(x, q).below = q
         /\ Shows(x, q).coll \in BOOLEAN
         /\ q # Root => /\ Parent(q) \in Below(<<d, x>>)
                        /\ Shows(x, Parent(q)).coll = TRUE
<1>1. CASE q = Root
  <2>1. Shows(x, q) = [root |-> x.id, below |-> Root, coll |-> x.coll, size |-> x.size]
    BY <1>1 DEF Shows
  <2>2. q \in Seq(STRING)
    BY <1>1 DEF Root
  <2>3. x.coll \in BOOLEAN
    BY ItemFacts
  <2>4. /\ Shows(x, q).root = x.id /\ Shows(x, q).below = Root
        /\ Shows(x, q).coll = x.coll
    BY <2>1
  <2> QED
    BY <1>1, <2>2, <2>3, <2>4
<1>2. CASE q # Root
  <2> DEFINE s == x.descendants
  <2>1. PICK k \in Selected(d, x) : q = s[k].path
    BY <1>2 DEF Below
  <2>2. k \in DOMAIN s /\ \E f \in VisibleFiles(d, x) : IsPrefix(q, s[f].path)
    BY <2>1 DEF Selected
  <2>3. PICK f \in VisibleFiles(d, x) : IsPrefix(q, s[f].path)
    BY <2>2
  <2>4. f \in DOMAIN s
    BY DEF VisibleFiles, Files, Biggest
  <2>5. q \in Seq(STRING) /\ s[f].path \in Seq(STRING)
    BY <2>1, <2>2, <2>4, ItemFacts
  <2>6. Shows(x, q) = [root |-> x.id, below |-> q, coll |-> s[k].coll, size |-> s[k].size]
    BY <2>1, <2>2, ShowsEntry
  <2>7. s[k].coll \in BOOLEAN /\ x.coll = TRUE
    BY <2>2, ItemFacts
  <2>8. Len(q) \in Nat /\ Len(q) # 0 /\ Parent(q) \in Seq(STRING) /\ Len(Parent(q)) = Len(q) - 1
    BY <1>2, <2>5, FrontIs DEF Parent, Front, Root
  <2>9. Parent(q) \in Below(<<d, x>>) /\ Shows(x, Parent(q)).coll = TRUE
    <3>1. CASE Len(q) = 1
      <4>1. Parent(q) = Root
        BY <2>8, <3>1 DEF Root
      <4> QED
        BY <2>7, <4>1 DEF Below, Shows
    <3>2. CASE Len(q) # 1
      <4>1. PICK j \in DOMAIN s : s[j].path = Parent(q) /\ s[j].coll
        <5>1. Len(q) > 1
          BY <2>8, <3>2
        <5> QED
          BY <2>1, <2>2, <5>1, LibraryAssumption
      <4>2. IsPrefix(Parent(q), q)
        <5>1. Parent(q) = Front(q) /\ q # <<>>
          BY <1>2 DEF Parent, Front, Root
        <5>2. IsPrefix(Parent(q), Front(q))
          BY <2>8, <5>1, PrefixReflexive
        <5> QED
          BY <2>5, <2>8, <5>1, <5>2, PrefixOfFront
      <4>3. IsPrefix(Parent(q), s[f].path)
        BY <2>3, <2>5, <2>8, <4>2, PrefixTransitive
      <4>4. j \in Selected(d, x)
        BY <4>1, <4>3 DEF Selected
      <4>5. Shows(x, Parent(q)).coll = s[j].coll
        <5>1. Shows(x, s[j].path) = [root |-> x.id, below |-> s[j].path,
                                     coll |-> s[j].coll, size |-> s[j].size]
          BY ShowsEntry
        <5>2. Shows(x, s[j].path).coll = s[j].coll
          BY <5>1
        <5> QED
          BY <4>1, <5>2
      <4>6. s[j].coll = TRUE
        BY <4>1, ItemFacts
      <4> QED
        BY <4>1, <4>4, <4>5, <4>6 DEF Below
    <3> QED
      BY <3>1, <3>2
  <2> QED
    BY <1>2, <2>5, <2>6, <2>7, <2>9
<1> QED
  BY <1>1, <1>2

-----------------------------------------------------------------------------
(* The tree in closed form.  A set A of placements, with the name N[a] that *)
(* the item of each got in the directory of it.                             *)

At(a, N, q) == Join(Clean[a[1].name], N[a], q)

\* Every item has its clean name or that with its digest; in one directory no
\* two have the same; and the digest is only there if another item goes by the
\* same name.
Naming(A, N) ==
  /\ A \subseteq Directories \X Library
  /\ \A a \in A : N[a] \in {Clean[a[2].name], Digested(Clean[a[2].name], a[2].id)}
  /\ \A a, b \in A : a[1] = b[1] /\ N[a] = N[b] => a = b

Needed(A, N) ==
  \A a \in A : N[a] = Clean[a[2].name]
               \/ \E b \in A : b[2] # a[2] /\ Clean[b[2].name] = Clean[a[2].name]

ShowsAll(r, A, N) ==
  /\ r = [p \in DOMAIN r |-> r[p]]
  /\ DOMAIN r = {Root} \cup {CategoryPath(d) : d \in Directories}
                \cup UNION {{At(a, N, q) : q \in Below(a)} : a \in A}
  /\ r[Root] = Directory
  /\ \A d \in Directories : r[CategoryPath(d)] = Directory
  /\ \A a \in A : \A q \in Below(a) : r[At(a, N, q)] = Shows(a[2], q)

ListsOf(r) ==
  [p \in {p \in DOMAIN r : r[p].coll} |-> {q \in DOMAIN r \ {Root} : Parent(q) = p}]

TreeOf(t, A, N) ==
  /\ t = [resources |-> t.resources, children |-> ListsOf(t.resources)]
  /\ ShowsAll(t.resources, A, N)

\* Where an entry is.
LEMMA EntryPlace ==
  ASSUME NEW a \in Directories \X Library, NEW N,
         N[a] \in {Clean[a[2].name], Digested(Clean[a[2].name], a[2].id)},
         NEW q \in Below(a)
  PROVE  /\ a[1] \in Directories /\ a[2] \in Library /\ a = <<a[1], a[2]>>
         /\ Clean[a[1].name] \in Segments /\ N[a] \in Segments /\ q \in Seq(Segments)
         /\ At(a, N, q) # Root /\ \A d \in Directories : At(a, N, q) # CategoryPath(d)
         /\ Parent(At(a, N, q)) = IF q = Root THEN CategoryPath(a[1])
                                  ELSE At(a, N, Parent(q))
<1>1. a[1] \in Directories /\ a[2] \in Library /\ a = <<a[1], a[2]>>
  OBVIOUS
<1>2. Clean[a[1].name] \in Segments /\ N[a] \in Segments
  BY <1>1 DEF Segments
<1>3. q \in Seq(Segments)
  <2>1. q \in Seq(STRING)
    <3> DEFINE d == a[1]
               x == a[2]
    <3>1. d \in Directories /\ x \in Library /\ q \in Below(<<d, x>>)
      BY <1>1
    <3> HIDE DEF d, x
    <3> QED
      BY <3>1, BelowHangs
  <2>2. STRING \subseteq Segments
    BY DEF Segments
  <2> HIDE DEF Segments
  <2> QED
    BY <2>1, <2>2, SeqWider
<1>4. At(a, N, q) # Root /\ \A d \in Directories : At(a, N, q) # CategoryPath(d)
  <2> DEFINE c == Clean[a[1].name]
             n == N[a]
  <2>1. c \in Segments /\ n \in Segments
    BY <1>2
  <2> HIDE DEF c, n
  <2>2. Join(c, n, q) # Root /\ \A e : Join(c, n, q) # <<e>>
    BY <1>3, <2>1, JoinedDeep
  <2> QED
    BY <2>2 DEF At, CategoryPath, c, n
<1>5. Parent(At(a, N, q)) = IF q = Root THEN CategoryPath(a[1]) ELSE At(a, N, Parent(q))
  <2> DEFINE c == Clean[a[1].name]
             n == N[a]
  <2>1. c \in Segments /\ n \in Segments
    BY <1>2
  <2> HIDE DEF c, n
  <2>2. Parent(Join(c, n, Root)) = <<c>>
    BY <1>3, <2>1, JoinedParent
  <2>3. q # Root => Parent(Join(c, n, q)) = Join(c, n, Parent(q))
    BY <1>3, <2>1, JoinedFolder
  <2> QED
    BY <2>2, <2>3 DEF At, CategoryPath, c, n
<1> QED
  BY <1>1, <1>2, <1>3, <1>4, <1>5

\* Entries of two placements are in two places.
LEMMA EntriesApart ==
  ASSUME NEW a \in Directories \X Library, NEW b \in Directories \X Library, NEW N, NEW M,
         N[a] \in {Clean[a[2].name], Digested(Clean[a[2].name], a[2].id)},
         M[b] \in {Clean[b[2].name], Digested(Clean[b[2].name], b[2].id)},
         NEW q \in Below(a), NEW r \in Below(b), At(a, N, q) = At(b, M, r)
  PROVE  a[1] = b[1] /\ N[a] = M[b] /\ q = r
<1>1. /\ a[1] \in Directories
      /\ Clean[a[1].name] \in Segments /\ N[a] \in Segments /\ q \in Seq(Segments)
  BY EntryPlace
<1>2. /\ b[1] \in Directories
      /\ Clean[b[1].name] \in Segments /\ M[b] \in Segments /\ r \in Seq(Segments)
  BY EntryPlace
<1>3. Clean[a[1].name] = Clean[b[1].name] /\ N[a] = M[b] /\ q = r
  <2> DEFINE c == Clean[a[1].name]
             n == N[a]
             d == Clean[b[1].name]
             m == M[b]
  <2>1. /\ c \in Segments /\ n \in Segments /\ d \in Segments /\ m \in Segments
        /\ q \in Seq(Segments) /\ r \in Seq(Segments)
    BY <1>1, <1>2
  <2>2. Join(c, n, q) = Join(d, m, r)
    BY DEF At
  <2> HIDE DEF c, n, d, m
  <2>3. c = d /\ n = m /\ q = r
    BY <2>1, <2>2, JoinedOnce
  <2> QED
    BY <2>3 DEF c, n, d, m
<1> QED
  BY <1>1, <1>2, <1>3, ConfigAssumption DEF Compiles

\* What there is in such a tree: the root, the categories, and entries whose
\* folders are there too.
LEMMA TreeHangs ==
  ASSUME NEW r, NEW A, NEW N, ShowsAll(r, A, N), Naming(A, N)
  PROVE  /\ Root \in DOMAIN r /\ r[Root].root = None
         /\ \A p \in DOMAIN r : r[p].coll \in BOOLEAN
         /\ \A p \in DOMAIN r \ {Root} : /\ Parent(p) \in DOMAIN r
                                         /\ r[Parent(p)].coll = TRUE
                                         /\ r[Parent(p)].root \in {None, r[p].root}
<1>0. Directory.coll = TRUE /\ Directory.root = None
  BY DEF Directory
<1>1. Root \in DOMAIN r /\ r[Root] = Directory
  BY DEF ShowsAll
<1>2. ASSUME NEW d \in Directories
      PROVE  /\ CategoryPath(d) \in DOMAIN r /\ r[CategoryPath(d)] = Directory
             /\ Parent(CategoryPath(d)) = Root
  <2>1. Clean[d.name] \in Segments /\ <<>> \in Seq(Segments)
    BY DEF Segments
  <2>2. Parent(CategoryPath(d)) = Root
    BY <2>1, JoinedParent DEF CategoryPath
  <2> QED
    BY <2>2 DEF ShowsAll
<1>3. ASSUME NEW a \in A, NEW q \in Below(a)
      PROVE  /\ At(a, N, q) \in DOMAIN r /\ r[At(a, N, q)] = Shows(a[2], q)
             /\ Shows(a[2], q).coll \in BOOLEAN
             /\ Parent(At(a, N, q)) \in DOMAIN r
             /\ r[Parent(At(a, N, q))].coll = TRUE
             /\ r[Parent(At(a, N, q))].root \in {None, Shows(a[2], q).root}
  <2>1. /\ a \in Directories \X Library
        /\ N[a] \in {Clean[a[2].name], Digested(Clean[a[2].name], a[2].id)}
    BY DEF Naming
  <2>2. /\ a[1] \in Directories /\ a[2] \in Library /\ a = <<a[1], a[2]>>
        /\ Parent(At(a, N, q)) = IF q = Root THEN CategoryPath(a[1])
                                 ELSE At(a, N, Parent(q))
    BY <2>1, EntryPlace
  <2>3. /\ Shows(a[2], q).root = a[2].id /\ Shows(a[2], q).coll \in BOOLEAN
        /\ q # Root => /\ Parent(q) \in Below(a)
                       /\ Shows(a[2], Parent(q)).coll = TRUE
                       /\ Shows(a[2], Parent(q)).root = a[2].id
    <3> DEFINE d == a[1]
               x == a[2]
    <3>1. d \in Directories /\ x \in Library /\ a = <<d, x>> /\ q \in Below(<<d, x>>)
      BY <2>2
    <3> HIDE DEF d, x
    <3>2. /\ Shows(x, q).root = x.id /\ Shows(x, q).coll \in BOOLEAN
          /\ q # Root => /\ Parent(q) \in Below(<<d, x>>)
                         /\ Shows(x, Parent(q)).coll = TRUE
      BY <3>1, BelowHangs
    <3>3. q # Root => Shows(x, Parent(q)).root = x.id
      BY <3>1, <3>2, BelowHangs
    <3> QED
      BY <3>1, <3>2, <3>3 DEF x
  <2>4. \A u \in Below(a) : At(a, N, u) \in DOMAIN r /\ r[At(a, N, u)] = Shows(a[2], u)
    BY DEF ShowsAll
  <2>5. CASE q = Root
    BY <1>0, <1>2, <2>2, <2>3, <2>4, <2>5
  <2>6. CASE q # Root
    BY <2>2, <2>3, <2>4, <2>6
  <2> QED
    BY <2>5, <2>6
<1>4. ASSUME NEW p \in DOMAIN r
      PROVE  \/ p = Root
             \/ \E d \in Directories : p = CategoryPath(d)
             \/ \E a \in A : \E q \in Below(a) : p = At(a, N, q)
  BY DEF ShowsAll
<1> QED
  <2>1. ASSUME NEW p \in DOMAIN r
        PROVE  /\ r[p].coll \in BOOLEAN
               /\ p # Root => /\ Parent(p) \in DOMAIN r
                              /\ r[Parent(p)].coll = TRUE
                              /\ r[Parent(p)].root \in {None, r[p].root}
    <3>1. CASE p = Root
      BY <1>0, <1>1, <3>1
    <3>2. CASE \E d \in Directories : p = CategoryPath(d)
      BY <1>0, <1>1, <1>2, <3>2
    <3>3. CASE \E a \in A : \E q \in Below(a) : p = At(a, N, q)
      BY <1>3, <3>3
    <3> QED
      BY <1>4, <3>1, <3>2, <3>3
  <2> QED
    BY <1>0, <1>1, <2>1

\* Such a tree is well-formed.
LEMMA TreeOfWellFormed ==
  ASSUME NEW t, NEW A, NEW N, TreeOf(t, A, N), Naming(A, N)
  PROVE  WellFormed(t)
<1> DEFINE r == t.resources
<1>1. /\ Root \in DOMAIN r /\ r[Root].root = None
      /\ \A p \in DOMAIN r : r[p].coll \in BOOLEAN
      /\ \A p \in DOMAIN r \ {Root} : /\ Parent(p) \in DOMAIN r
                                      /\ r[Parent(p)].coll = TRUE
                                      /\ r[Parent(p)].root \in {None, r[p].root}
  BY TreeHangs DEF TreeOf
<1>2. t.children = ListsOf(r)
  BY DEF TreeOf
<1> HIDE DEF r
<1>3. /\ DOMAIN t.children = {p \in DOMAIN r : r[p].coll}
      /\ \A p \in DOMAIN t.children : t.children[p] = {q \in DOMAIN r \ {Root} : Parent(q) = p}
  BY <1>2 DEF ListsOf
<1>4. ASSUME NEW p \in DOMAIN r \ {Root}
      PROVE  p \in Listed(t, Parent(p))
  BY <1>1, <1>3 DEF Listed
<1>5. Connected(t)
  BY <1>1, <1>4 DEF Connected, r
<1>6. ListsExact(t)
  <2>1. \A p \in DOMAIN t.children : \A c \in t.children[p] :
          c \in DOMAIN r /\ c # Root /\ Parent(c) = p
    BY <1>3
  <2> QED
    BY <1>3, <2>1 DEF ListsExact, r
<1> QED
  BY <1>5, <1>6 DEF WellFormed

-----------------------------------------------------------------------------
(* The placements and the names determine the tree.                        *)

LEMMA EntriesListed ==
  ASSUME NEW r, NEW A, NEW N, ShowsAll(r, A, N), NEW p
  PROVE  p \in DOMAIN r <=> \/ p = Root
                            \/ \E d \in Directories : p = CategoryPath(d)
                            \/ \E a \in A : \E q \in Below(a) : p = At(a, N, q)
<1>1. DOMAIN r = {Root} \cup {CategoryPath(d) : d \in Directories}
                 \cup UNION {{At(a, N, q) : q \in Below(a)} : a \in A}
  BY DEF ShowsAll
<1>2. p \in UNION {{At(a, N, q) : q \in Below(a)} : a \in A} <=>
        \E a \in A : \E q \in Below(a) : p = At(a, N, q)
  OBVIOUS
<1> QED
  BY <1>1, <1>2

LEMMA TreeOfUnique ==
  ASSUME NEW t, NEW u, NEW A, NEW N, NEW M, TreeOf(t, A, N), TreeOf(u, A, M),
         \A a \in A : N[a] = M[a]
  PROVE  t = u
<1> DEFINE r == t.resources
           s == u.resources
<1>1. ShowsAll(r, A, N) /\ ShowsAll(s, A, M)
  BY DEF TreeOf
<1>2. t = [resources |-> r, children |-> ListsOf(r)] /\ u = [resources |-> s, children |-> ListsOf(s)]
  BY DEF TreeOf
<1> HIDE DEF r, s
<1>3. \A a \in A : \A q : At(a, N, q) = At(a, M, q)
  BY DEF At
<1>4. ASSUME NEW p
      PROVE  p \in DOMAIN r <=> p \in DOMAIN s
  BY <1>1, <1>3, EntriesListed
<1>5. DOMAIN r = DOMAIN s
  BY <1>4
<1>6. ASSUME NEW p \in DOMAIN r
      PROVE  r[p] = s[p]
  <2>1. CASE p = Root
    BY <1>1, <2>1 DEF ShowsAll
  <2>2. CASE \E d \in Directories : p = CategoryPath(d)
    BY <1>1, <2>2 DEF ShowsAll
  <2>3. CASE \E a \in A : \E q \in Below(a) : p = At(a, N, q)
    <3>1. PICK a \in A : \E q \in Below(a) : p = At(a, N, q)
      BY <2>3
    <3>2. PICK q \in Below(a) : p = At(a, N, q)
      BY <3>1
    <3>3. p = At(a, M, q)
      BY <1>3, <3>2
    <3>4. r[At(a, N, q)] = Shows(a[2], q)
      BY <1>1 DEF ShowsAll
    <3>5. s[At(a, M, q)] = Shows(a[2], q)
      BY <1>1 DEF ShowsAll
    <3> QED
      BY <3>2, <3>3, <3>4, <3>5
  <2> QED
    BY <1>1, <2>1, <2>2, <2>3, EntriesListed
<1>7. r = [p \in DOMAIN r |-> r[p]] /\ s = [p \in DOMAIN s |-> s[p]]
  BY <1>1 DEF ShowsAll
<1>8. r = s
  BY <1>5, <1>6, <1>7
<1> QED
  BY <1>2, <1>8

\* The aliases of an item are its entries.
LEMMA AliasesListed ==
  ASSUME NEW t, NEW A, NEW N, TreeOf(t, A, N), Naming(A, N), NEW i \in Ids, NEW p
  PROVE  p \in Aliases(t, i) <=>
           \E a \in A : a[2].id = i /\ \E q \in Below(a) : p = At(a, N, q)
<1> DEFINE r == t.resources
<1>1. ShowsAll(r, A, N)
  BY DEF TreeOf
<1>2. p \in Aliases(t, i) <=> p \in DOMAIN r /\ r[p].root = i
  BY DEF Aliases
<1> HIDE DEF r
<1>3. Directory.root # i
  BY NoneAssumption DEF Directory
<1>4. r[Root] = Directory /\ \A d \in Directories : r[CategoryPath(d)] = Directory
  BY <1>1 DEF ShowsAll
<1>5. ASSUME NEW a \in A, NEW q \in Below(a)
      PROVE  At(a, N, q) \in DOMAIN r /\ r[At(a, N, q)].root = a[2].id
  <2> DEFINE d == a[1]
             x == a[2]
  <2>1. d \in Directories /\ x \in Library /\ q \in Below(<<d, x>>)
    <3>1. a \in Directories \X Library
      BY DEF Naming
    <3>2. a = <<a[1], a[2]>>
      BY <3>1
    <3> QED
      BY <3>1, <3>2
  <2>2. r[At(a, N, q)] = Shows(x, q)
    BY <1>1 DEF ShowsAll
  <2> HIDE DEF d, x
  <2>3. Shows(x, q).root = x.id
    BY <2>1, BelowHangs
  <2>4. At(a, N, q) \in DOMAIN r
    BY <1>1, EntriesListed
  <2> QED
    BY <2>2, <2>3, <2>4 DEF x
<1>6. ASSUME p \in DOMAIN r, r[p].root = i
      PROVE  \E a \in A : a[2].id = i /\ \E q \in Below(a) : p = At(a, N, q)
  <2>1. p # Root /\ ~ \E d \in Directories : p = CategoryPath(d)
    BY <1>3, <1>4, <1>6
  <2>2. PICK a \in A : \E q \in Below(a) : p = At(a, N, q)
    BY <1>1, <1>6, <2>1, EntriesListed
  <2>3. PICK q \in Below(a) : p = At(a, N, q)
    BY <2>2
  <2>4. a[2].id = i
    BY <1>5, <1>6, <2>3
  <2> QED
    BY <2>3, <2>4
<1> QED
  BY <1>2, <1>5, <1>6

\* delete_item takes away the placements of the item, and leaves the names.
LEMMA RemoveTree ==
  ASSUME NEW t, NEW A, NEW N, TreeOf(t, A, N), Naming(A, N), NEW i \in Ids
  PROVE  TreeOf(RemoveItem(t, i), {a \in A : a[2].id # i}, N)
<1> DEFINE r == t.resources
           X == Aliases(t, i)
           u == RemoveItem(t, i)
           s == u.resources
           B == {a \in A : a[2].id # i}
<1>1. ShowsAll(r, A, N) /\ t.children = ListsOf(r) /\ X \subseteq DOMAIN r
  BY DEF TreeOf, Aliases
<1>2. /\ u = [resources |-> s, children |-> u.children]
      /\ s = [p \in DOMAIN r \ X |-> r[p]]
      /\ u.children = [p \in DOMAIN t.children \ X |-> t.children[p] \ X]
  BY DEF RemoveItem
<1>3. \A p : p \in X <=> \E a \in A : a[2].id = i /\ \E q \in Below(a) : p = At(a, N, q)
  BY AliasesListed
<1> HIDE DEF r, X, u, s
<1>4. DOMAIN s = DOMAIN r \ X /\ \A p \in DOMAIN s : s[p] = r[p]
  BY <1>2
<1>5. u.children = ListsOf(s)
  <2> DEFINE C == {p \in DOMAIN r : r[p].coll}
             D == {p \in DOMAIN s : s[p].coll}
  <2>1. D = C \ X
    BY <1>4
  <2>2. DOMAIN t.children = C /\ \A p \in C : t.children[p] = {q \in DOMAIN r \ {Root} : Parent(q) = p}
    BY <1>1 DEF ListsOf
  <2>3. ASSUME NEW p \in D
        PROVE  t.children[p] \ X = {q \in DOMAIN s \ {Root} : Parent(q) = p}
    <3>1. t.children[p] = {q \in DOMAIN r \ {Root} : Parent(q) = p}
      BY <2>1, <2>2
    <3> QED
      BY <1>4, <3>1
  <2>4. u.children = [p \in D |-> t.children[p] \ X]
    BY <1>2, <2>1, <2>2
  <2> QED
    BY <2>3, <2>4 DEF ListsOf
<1>6. ShowsAll(s, B, N)
  <2>1. \A a \in A : \A q \in Below(a) :
          /\ At(a, N, q) # Root /\ \A d \in Directories : At(a, N, q) # CategoryPath(d)
          /\ \A b \in A : \A v \in Below(b) : At(a, N, q) = At(b, N, v) => a = b
    <3>1. ASSUME NEW a \in A, NEW q \in Below(a)
          PROVE  At(a, N, q) # Root /\ \A d \in Directories : At(a, N, q) # CategoryPath(d)
      BY EntryPlace DEF Naming
    <3>2. ASSUME NEW a \in A, NEW q \in Below(a), NEW b \in A, NEW v \in Below(b),
                 At(a, N, q) = At(b, N, v)
          PROVE  a = b
      <4>1. a[1] = b[1] /\ N[a] = N[b]
        BY <3>2, EntriesApart DEF Naming
      <4> QED
        BY <4>1 DEF Naming
    <3> QED
      BY <3>1, <3>2
  <2>2. ASSUME NEW p
        PROVE  p \in DOMAIN s <=> \/ p = Root
                                  \/ \E d \in Directories : p = CategoryPath(d)
                                  \/ \E a \in B : \E q \in Below(a) : p = At(a, N, q)
    <3>1. p \in DOMAIN r <=> \/ p = Root
                             \/ \E d \in Directories : p = CategoryPath(d)
                             \/ \E a \in A : \E q \in Below(a) : p = At(a, N, q)
      BY <1>1, EntriesListed
    <3>2. p \in DOMAIN s <=> p \in DOMAIN r /\ p \notin X
      BY <1>4
    <3>3. (p = Root \/ \E d \in Directories : p = CategoryPath(d)) => p \notin X
      BY <1>3, <2>1
    <3>4. (\E a \in B : \E q \in Below(a) : p = At(a, N, q)) => p \notin X
      BY <1>3, <2>1
    <3>5. (\E a \in A : \E q \in Below(a) : p = At(a, N, q)) /\ p \notin X
             => \E a \in B : \E q \in Below(a) : p = At(a, N, q)
      BY <1>3
    <3> QED
      BY <3>1, <3>2, <3>3, <3>4, <3>5
  <2>3. DOMAIN s = {Root} \cup {CategoryPath(d) : d \in Directories}
                   \cup UNION {{At(a, N, q) : q \in Below(a)} : a \in B}
    <3> HIDE DEF B
    <3>1. \A p : p \in UNION {{At(a, N, q) : q \in Below(a)} : a \in B} <=>
                   \E a \in B : \E q \in Below(a) : p = At(a, N, q)
      OBVIOUS
    <3> QED
      BY <2>2, <3>1
  <2>4. s[Root] = Directory /\ \A d \in Directories : s[CategoryPath(d)] = Directory
    BY <1>1, <1>4, <2>2 DEF ShowsAll
  <2>5. \A a \in B : \A q \in Below(a) : s[At(a, N, q)] = Shows(a[2], q)
    BY <1>1, <1>4, <2>2 DEF ShowsAll
  <2>6. s = [p \in DOMAIN s |-> s[p]]
    BY <1>2
  <2> HIDE DEF B
  <2> QED
    BY <2>3, <2>4, <2>5, <2>6 DEF ShowsAll
<1> QED
  BY <1>2, <1>5, <1>6 DEF TreeOf, s, u

-----------------------------------------------------------------------------
(* Insertion.                                                              *)

\* What hangs together from the root.
Rooted(r) ==
  /\ Root \in DOMAIN r
  /\ \A p \in DOMAIN r : r[p].coll \in BOOLEAN
  /\ \A p \in DOMAIN r \ {Root} : Parent(p) \in DOMAIN r /\ r[Parent(p)].coll = TRUE

\* Inserting what is new, folders with their contents, keeps the lists right.
LEMMA InsertLists ==
  ASSUME NEW t, NEW new, Rooted(t.resources), t.children = ListsOf(t.resources),
         DOMAIN t.resources \cap DOMAIN new = {},
         Rooted(InsertAll(t, new).resources)
  PROVE  InsertAll(t, new).children = ListsOf(InsertAll(t, new).resources)
<1> DEFINE r == t.resources
           u == InsertAll(t, new)
           s == u.resources
           below(p) == {q \in DOMAIN new : Parent(q) = p}
           parents == {Parent(q) : q \in DOMAIN new}
           folders == {q \in DOMAIN new : new[q].coll}
           C == {p \in DOMAIN r : r[p].coll}
           D == {p \in DOMAIN s : s[p].coll}
<1>1. /\ DOMAIN s = DOMAIN r \cup DOMAIN new
      /\ \A p \in DOMAIN new : s[p] = new[p]
      /\ \A p \in DOMAIN r : s[p] = r[p]
  BY DEF InsertAll
<1>2. u.children = [p \in DOMAIN t.children \cup parents \cup folders |->
                      Listed(t, p) \cup below(p)]
  BY DEF InsertAll
<1>3. DOMAIN t.children = C /\ \A p \in C : t.children[p] = {q \in DOMAIN r \ {Root} : Parent(q) = p}
  BY DEF ListsOf
<1>4. DOMAIN r \cap DOMAIN new = {} /\ Rooted(r) /\ Rooted(s)
  OBVIOUS
<1> HIDE DEF r, u, s
<1>5. parents \subseteq D
  <2>1. ASSUME NEW q \in DOMAIN new
        PROVE  Parent(q) \in D
    <3>1. q \in DOMAIN s \ {Root}
      BY <1>1, <1>4 DEF Rooted
    <3> QED
      BY <1>4, <3>1 DEF Rooted
  <2> HIDE DEF D
  <2> QED
    BY <2>1
<1>6. DOMAIN t.children \cup parents \cup folders = D
  <2>1. C \subseteq D /\ folders \subseteq D
    BY <1>1
  <2>2. D \subseteq C \cup folders
    BY <1>1
  <2> HIDE DEF C, D, parents, folders
  <2> QED
    BY <1>3, <1>5, <2>1, <2>2
<1>7. ASSUME NEW p \in D
      PROVE  Listed(t, p) \cup below(p) = {q \in DOMAIN s \ {Root} : Parent(q) = p}
  <2>1. Root \notin DOMAIN new
    BY <1>4 DEF Rooted
  <2>2. Listed(t, p) = {q \in DOMAIN r \ {Root} : Parent(q) = p}
    <3>1. CASE p \in C
      BY <1>3, <3>1 DEF Listed
    <3>2. CASE p \notin C
      <4>1. Listed(t, p) = {}
        BY <1>3, <3>2 DEF Listed
      <4>2. \A q \in DOMAIN r \ {Root} : Parent(q) # p
        BY <1>4, <3>2 DEF Rooted
      <4> QED
        BY <4>1, <4>2
    <3> QED
      BY <3>1, <3>2
  <2> QED
    BY <1>1, <2>1, <2>2
<1>8. u.children = [p \in D |-> {q \in DOMAIN s \ {Root} : Parent(q) = p}]
  <2> HIDE DEF D, parents, folders, below
  <2> QED
    BY <1>2, <1>6, <1>7
<1> QED
  BY <1>8 DEF ListsOf, s, u

LEMMA TreeRooted ==
  ASSUME NEW r, NEW A, NEW N, ShowsAll(r, A, N), Naming(A, N)
  PROVE  Rooted(r)
BY TreeHangs DEF Rooted

\* The categories, before any item.
LEMMA CategoriesTree == ASSUME NEW N PROVE TreeOf(Categories, {}, N)
<1> DEFINE new == [p \in {CategoryPath(d) : d \in Directories} |-> Directory]
           u == InsertAll(EmptyTree, new)
<1>1. /\ EmptyTree.resources = [p \in {Root} |-> Directory]
      /\ EmptyTree.children = [p \in {Root} |-> {}]
  BY DEF EmptyTree
<1>2. u = [resources |-> u.resources, children |-> u.children]
      /\ u.resources = [p \in {Root} \cup DOMAIN new |-> IF p \in DOMAIN new THEN new[p] ELSE EmptyTree.resources[p]]
  BY <1>1 DEF InsertAll
<1>3. DOMAIN new = {CategoryPath(d) : d \in Directories} /\ \A p \in DOMAIN new : new[p] = Directory
  OBVIOUS
<1> HIDE DEF new, u
<1>4. Root \notin DOMAIN new
  BY <1>3 DEF CategoryPath, Root
<1>5. ShowsAll(u.resources, {}, N)
  <2>1. /\ DOMAIN u.resources = {Root} \cup {CategoryPath(d) : d \in Directories}
        /\ u.resources = [p \in DOMAIN u.resources |-> u.resources[p]]
    BY <1>2, <1>3
  <2>2. u.resources[Root] = Directory
    BY <1>1, <1>2, <1>4
  <2>3. \A d \in Directories : u.resources[CategoryPath(d)] = Directory
    BY <1>2, <1>3
  <2>4. UNION {{At(a, N, q) : q \in Below(a)} : a \in {}} = {}
    OBVIOUS
  <2> QED
    BY <2>1, <2>2, <2>3, <2>4 DEF ShowsAll
<1>6. Rooted(u.resources)
  <2>1. Naming({}, N)
    BY DEF Naming
  <2> QED
    BY <1>5, <2>1, TreeRooted
<1>7. Rooted(EmptyTree.resources) /\ EmptyTree.children = ListsOf(EmptyTree.resources)
  <2>1. DOMAIN EmptyTree.resources = {Root} /\ EmptyTree.resources[Root].coll = TRUE
    BY <1>1 DEF Directory
  <2>2. {p \in DOMAIN EmptyTree.resources : EmptyTree.resources[p].coll} = {Root}
    BY <2>1
  <2>3. \A p : {q \in DOMAIN EmptyTree.resources \ {Root} : Parent(q) = p} = {}
    BY <2>1
  <2>4. EmptyTree.children = ListsOf(EmptyTree.resources)
    BY <1>1, <2>2, <2>3 DEF ListsOf
  <2> QED
    BY <2>1, <2>4 DEF Rooted
<1>8. u.children = ListsOf(u.resources)
  <2>1. DOMAIN EmptyTree.resources \cap DOMAIN new = {}
    BY <1>1, <1>4
  <2>2. Rooted(InsertAll(EmptyTree, new).resources)
    BY <1>6 DEF u
  <2> QED
    BY <1>7, <2>1, <2>2, InsertLists DEF u
<1> QED
  BY <1>2, <1>5, <1>8 DEF TreeOf, Categories, new, u

-----------------------------------------------------------------------------
(* add_item.                                                               *)

\* The name is free, and the item's own unless it is that of another item too.
LEMMA UniqueNameFree ==
  ASSUME NEW t, NEW A, NEW N, TreeOf(t, A, N), Naming(A, N),
         NEW d \in Directories, NEW x \in Library,
         \A b \in A : b[2].id = x.id => b[2] = x /\ b[1] # d,
         NEW name, name = UniqueName(t, CategoryPath(d), Clean[x.name], x.id)
  PROVE  /\ name \in {Clean[x.name], Digested(Clean[x.name], x.id)}
         /\ \A b \in A : b[1] = d => N[b] # name
         /\ name # Clean[x.name] =>
              \E b \in A : b[2] # x /\ Clean[b[2].name] = Clean[x.name]
<1> DEFINE r == t.resources
           c == Clean[d.name]
           n == Clean[x.name]
           p == Join(c, n, Root)
<1>0. /\ ShowsAll(r, A, N) /\ c \in Segments /\ n \in Segments /\ Root \in Seq(Segments)
  BY DEF TreeOf, Segments, Root
<1>1. Append(CategoryPath(d), n) = p
  <2>1. CategoryPath(d) = <<c>>
    BY DEF CategoryPath
  <2> HIDE DEF c, n
  <2> QED
    BY <1>0, <2>1, JoinedItem
<1>2. name = IF p \in DOMAIN r THEN Digested(n, x.id) ELSE n
  BY <1>1 DEF UniqueName
<1>3. ASSUME NEW b \in A
      PROVE  /\ b[2] \in Library
             /\ N[b] \in {Clean[b[2].name], Digested(Clean[b[2].name], b[2].id)}
             /\ Digested(Clean[b[2].name], b[2].id) # n
             /\ Digested(n, x.id) # Clean[b[2].name]
             /\ Digested(n, x.id) = Digested(Clean[b[2].name], b[2].id) => x.id = b[2].id
  <2>1. b[2] \in Library
    BY DEF Naming
  <2>2. /\ Digested(Clean[b[2].name], b[2].id) # n
        /\ Digested(n, x.id) # Clean[b[2].name]
        /\ Digested(n, x.id) = Digested(Clean[b[2].name], b[2].id) => x.id = b[2].id
    BY <2>1, DigestAssumption
  <2> QED
    BY <2>1, <2>2 DEF Naming
<1>4. ASSUME NEW b \in A, b[1] = d, N[b] = n
      PROVE  p \in DOMAIN r
  <2>1. Root \in Below(b) /\ p = At(b, N, Root)
    BY <1>4 DEF Below, At
  <2> HIDE DEF p, r
  <2> QED
    BY <1>0, <2>1, EntriesListed
<1>5. ASSUME p \in DOMAIN r
      PROVE  \E b \in A : b[1] = d /\ N[b] = n
  <2> HIDE DEF r
  <2>1. p # Root /\ \A e \in Directories : p # CategoryPath(e)
    <3> HIDE DEF c, n
    <3> QED
      BY <1>0, JoinedDeep DEF CategoryPath
  <2>2. PICK b \in A : \E q \in Below(b) : p = At(b, N, q)
    <3> HIDE DEF p
    <3> QED
      BY <1>0, <1>5, <2>1, EntriesListed
  <2>3. PICK q \in Below(b) : p = At(b, N, q)
    BY <2>2
  <2>4. /\ b[1] \in Directories /\ Clean[b[1].name] \in Segments /\ N[b] \in Segments
        /\ q \in Seq(Segments)
    BY EntryPlace DEF Naming
  <2>5. Clean[b[1].name] = c /\ N[b] = n
    <3> DEFINE e == Clean[b[1].name]
               m == N[b]
    <3>1. p = Join(e, m, q) /\ e \in Segments /\ m \in Segments
      BY <2>3, <2>4 DEF At
    <3> HIDE DEF e, m, c, n
    <3>2. Join(e, m, q) = Join(c, n, Root)
      BY <3>1
    <3>3. e = c /\ m = n
      BY <1>0, <2>4, <3>1, <3>2, JoinedOnce
    <3> QED
      BY <3>3 DEF e, m
  <2>6. b[1] = d
    BY <2>4, <2>5, ConfigAssumption DEF Compiles
  <2> QED
    BY <2>5, <2>6
<1> HIDE DEF p, r, n
<1>6. CASE p \in DOMAIN r
  <2>1. name = Digested(n, x.id)
    BY <1>2, <1>6
  <2>2. ASSUME NEW b \in A, b[1] = d
        PROVE  N[b] # name
    BY <1>3, <2>1, <2>2
  <2>3. \E b \in A : b[2] # x /\ Clean[b[2].name] = n
    <3>1. PICK b \in A : b[1] = d /\ N[b] = n
      BY <1>5, <1>6
    <3>2. Clean[b[2].name] = n
      BY <1>3, <3>1
    <3> QED
      BY <3>1, <3>2
  <2> QED
    BY <2>1, <2>2, <2>3 DEF n
<1>7. CASE p \notin DOMAIN r
  BY <1>2, <1>4, <1>7 DEF n
<1> QED
  BY <1>6, <1>7

\* What add_item inserts: the entries of the placement, under the name it got.
Inserts(new, a, M) ==
  /\ \A p : p \in DOMAIN new <=> \E q \in Below(a) : p = At(a, M, q)
  /\ \A q \in Below(a) : new[At(a, M, q)] = Shows(a[2], q)

LEMMA NewEntries ==
  ASSUME NEW t, NEW d \in Directories, NEW x \in Library, NEW M,
         M[<<d, x>>] = UniqueName(t, CategoryPath(d), Clean[x.name], x.id),
         M[<<d, x>>] \in Segments
  PROVE  \E new : AddItem(t, d, x) = InsertAll(t, new) /\ Inserts(new, <<d, x>>, M)
<1> DEFINE c == Clean[d.name]
           name == M[<<d, x>>]
           itemAt == Append(CategoryPath(d), name)
           ds == x.descendants
           sel == Selected(d, x)
           top == [root |-> x.id, below |-> Root, coll |-> x.coll, size |-> x.size]
           Shown(k) == [root |-> x.id, below |-> ds[k].path, coll |-> ds[k].coll, size |-> ds[k].size]
           Place1(k) == itemAt \o ds[k].path
           new == [p \in {itemAt} \cup {Place1(k) : k \in sel} |->
                     IF p = itemAt THEN top ELSE Shown(CHOOSE k \in sel : Place1(k) = p)]
<1>1. AddItem(t, d, x) = InsertAll(t, new)
  BY DEF AddItem
<1>2. c \in Segments /\ name \in Segments /\ Root \in Seq(Segments)
  BY DEF Segments, Root
<1>3. itemAt = Join(c, name, Root)
  BY <1>2, JoinedItem DEF CategoryPath
<1>4. itemAt = <<c, name>>
  BY <1>2, <1>3, JoinedDeep
<1>5. \A k : Place1(k) = Join(c, name, ds[k].path)
  BY <1>4 DEF Join
<1>6. ASSUME NEW k \in sel
      PROVE  k \in DOMAIN ds /\ ds[k].path \in Seq(Segments) /\ ds[k].path # Root
  <2>1. k \in DOMAIN ds
    BY DEF Selected
  <2>2. ds[k].path \in Seq(STRING) /\ ds[k].path # Root
    BY <2>1, ItemFacts
  <2>3. STRING \subseteq Segments
    BY DEF Segments
  <2> HIDE DEF ds
  <2> QED
    BY <2>1, <2>2, <2>3, SeqWider
<1>7. \A q : At(<<d, x>>, M, q) = Join(c, name, q)
  BY DEF At
<1>8. Below(<<d, x>>) = {Root} \cup {ds[k].path : k \in sel}
  BY DEF Below
<1>9. \A k \in sel : Shows(x, ds[k].path) = Shown(k)
  BY <1>6, ShowsEntry
<1>10. Shows(x, Root) = top
  BY DEF Shows
<1>11. \A j, k \in sel : ds[j].path = ds[k].path => j = k
  BY <1>6, ItemFacts
<1> HIDE DEF c, name, itemAt, ds, sel, top, Shown, Place1
<1>12. /\ DOMAIN new = {itemAt} \cup {Place1(k) : k \in sel}
       /\ \A p \in DOMAIN new : new[p] = IF p = itemAt THEN top
                                         ELSE Shown(CHOOSE k \in sel : Place1(k) = p)
  OBVIOUS
<1> HIDE DEF new
<1>13. ASSUME NEW k \in sel
       PROVE  Place1(k) # itemAt /\ \A j \in sel : Place1(j) = Place1(k) => j = k
  <2>1. Place1(k) # itemAt
    BY <1>2, <1>3, <1>5, <1>6, JoinedOnce
  <2>2. ASSUME NEW j \in sel, Place1(j) = Place1(k)
        PROVE  j = k
    <3>1. Join(c, name, ds[j].path) = Join(c, name, ds[k].path)
      BY <1>5, <2>2
    <3>2. ds[j].path = ds[k].path
      BY <1>2, <1>6, <3>1, JoinedOnce
    <3> QED
      BY <1>11, <3>2
  <2> QED
    BY <2>1, <2>2
<1>14. ASSUME NEW k \in sel
       PROVE  new[Place1(k)] = Shown(k)
  <2>1. (CHOOSE j \in sel : Place1(j) = Place1(k)) = k
    BY <1>13
  <2>2. Place1(k) \in DOMAIN new /\ Place1(k) # itemAt
    BY <1>12, <1>13
  <2>3. new[Place1(k)] = Shown(CHOOSE j \in sel : Place1(j) = Place1(k))
    BY <1>12, <2>2
  <2> QED
    BY <2>1, <2>3
<1>15. new[itemAt] = top
  BY <1>12
<1>16. ASSUME NEW p
       PROVE  p \in DOMAIN new <=> \E q \in Below(<<d, x>>) : p = At(<<d, x>>, M, q)
  BY <1>3, <1>5, <1>7, <1>8, <1>12
<1>17. ASSUME NEW q \in Below(<<d, x>>)
       PROVE  new[At(<<d, x>>, M, q)] = Shows(x, q)
  <2>1. CASE q = Root
    BY <1>3, <1>7, <1>10, <1>15, <2>1
  <2>2. CASE q # Root
    <3>1. PICK k \in sel : q = ds[k].path
      BY <1>8, <2>2
    <3>2. At(<<d, x>>, M, q) = Place1(k)
      BY <1>5, <1>7, <3>1
    <3> QED
      BY <1>9, <1>14, <3>1, <3>2
  <2> QED
    BY <2>1, <2>2
<1>18. Inserts(new, <<d, x>>, M)
  BY <1>16, <1>17 DEF Inserts
<1> QED
  BY <1>1, <1>18

\* add_item adds one placement.
LEMMA AddTree ==
  ASSUME NEW t, NEW A, NEW N, TreeOf(t, A, N), Naming(A, N), Needed(A, N),
         NEW d \in Directories, NEW x \in Library,
         \A b \in A : b[2].id = x.id => b[2] = x /\ b[1] # d,
         NEW B, B = A \cup {<<d, x>>}
  PROVE  \E M : TreeOf(AddItem(t, d, x), B, M) /\ Naming(B, M) /\ Needed(B, M)
<1> DEFINE a == <<d, x>>
           name == UniqueName(t, CategoryPath(d), Clean[x.name], x.id)
           M == [b \in B |-> IF b = a THEN name ELSE N[b]]
           r == t.resources
<1>1. /\ name \in {Clean[x.name], Digested(Clean[x.name], x.id)}
      /\ \A b \in A : b[1] = d => N[b] # name
      /\ name # Clean[x.name] =>
           \E b \in A : b[2] # x /\ Clean[b[2].name] = Clean[x.name]
  <2> DEFINE m == name
  <2>1. m = UniqueName(t, CategoryPath(d), Clean[x.name], x.id)
    OBVIOUS
  <2> HIDE DEF m
  <2>2. /\ m \in {Clean[x.name], Digested(Clean[x.name], x.id)}
        /\ \A b \in A : b[1] = d => N[b] # m
        /\ m # Clean[x.name] =>
             \E b \in A : b[2] # x /\ Clean[b[2].name] = Clean[x.name]
    BY <2>1, UniqueNameFree
  <2> QED
    BY <2>2 DEF m
<1>2. a[1] = d /\ a[2] = x /\ a \in Directories \X Library /\ a \notin A
  OBVIOUS
<1>3. M[a] = name /\ \A b \in A : M[b] = N[b]
  BY <1>2
<1>4. name \in Segments
  BY <1>1 DEF Segments
<1>5. \E new : AddItem(t, d, x) = InsertAll(t, new) /\ Inserts(new, a, M)
  <2>1. /\ M[<<d, x>>] = UniqueName(t, CategoryPath(d), Clean[x.name], x.id)
        /\ M[<<d, x>>] \in Segments
    BY <1>3, <1>4
  <2> HIDE DEF M, name
  <2>2. d \in Directories /\ x \in Library
    OBVIOUS
  <2> QED
    BY <2>1, <2>2, NewEntries
<1> HIDE DEF a, name, M
<1>6. Naming(B, M)
  <2>1. B \subseteq Directories \X Library
    BY <1>2 DEF Naming, a
  <2>2. \A b \in B : b \in A \/ b = a
    BY DEF a
  <2>3. \A b \in B : M[b] \in {Clean[b[2].name], Digested(Clean[b[2].name], b[2].id)}
    BY <1>1, <1>2, <1>3, <2>2 DEF Naming
  <2>4. ASSUME NEW e \in B, NEW b \in B, e[1] = b[1], M[e] = M[b]
        PROVE  e = b
    <3>1. CASE e \in A /\ b \in A
      BY <1>3, <2>4, <3>1 DEF Naming
    <3>2. CASE e = a /\ b \in A
      BY <1>1, <1>2, <1>3, <2>4, <3>2
    <3>3. CASE e \in A /\ b = a
      BY <1>1, <1>2, <1>3, <2>4, <3>3
    <3> QED
      BY <2>2, <3>1, <3>2, <3>3
  <2> QED
    BY <2>1, <2>3, <2>4 DEF Naming
<1>7. Needed(B, M)
  <2>1. A \subseteq B /\ \A b \in B : b \in A \/ b = a
    BY DEF a
  <2>2. ASSUME NEW b \in A, M[b] # Clean[b[2].name]
        PROVE  \E e \in B : e[2] # b[2] /\ Clean[e[2].name] = Clean[b[2].name]
    BY <1>3, <2>1, <2>2 DEF Needed
  <2>3. M[a] # Clean[x.name] => \E e \in B : e[2] # x /\ Clean[e[2].name] = Clean[x.name]
    BY <1>1, <1>3, <2>1
  <2> QED
    BY <1>2, <2>1, <2>2, <2>3 DEF Needed
<1>0. PICK new : AddItem(t, d, x) = InsertAll(t, new) /\ Inserts(new, a, M)
  BY <1>5
<1>8. /\ AddItem(t, d, x) = InsertAll(t, new)
      /\ \A p : p \in DOMAIN new <=> \E q \in Below(a) : p = At(a, M, q)
      /\ \A q \in Below(a) : new[At(a, M, q)] = Shows(x, q)
  BY <1>0, <1>2 DEF Inserts
<1> DEFINE u == InsertAll(t, new)
           s == u.resources
<1>9. ShowsAll(r, A, N) /\ t.children = ListsOf(r)
  BY DEF TreeOf
<1>10. /\ u = [resources |-> s, children |-> u.children]
       /\ s = [p \in DOMAIN r \cup DOMAIN new |-> IF p \in DOMAIN new THEN new[p] ELSE r[p]]
  BY DEF InsertAll
<1> HIDE DEF r, u, s
<1>11. \A b \in A : \A q : At(b, N, q) = At(b, M, q)
  BY <1>3 DEF At
<1>12. DOMAIN r \cap DOMAIN new = {}
  <2> SUFFICES ASSUME NEW p \in DOMAIN r, p \in DOMAIN new PROVE FALSE
    OBVIOUS
  <2>1. PICK q \in Below(a) : p = At(a, M, q)
    BY <1>8
  <2>2. a \in B /\ a \in Directories \X Library /\ M[a] \in {Clean[a[2].name], Digested(Clean[a[2].name], a[2].id)}
    BY <1>6 DEF Naming, a
  <2>3. p # Root /\ \A e \in Directories : p # CategoryPath(e)
    BY <2>1, <2>2, EntryPlace
  <2>4. PICK b \in A : \E v \in Below(b) : p = At(b, N, v)
    BY <1>9, <2>3, EntriesListed
  <2>5. PICK v \in Below(b) : p = At(b, M, v)
    BY <1>11, <2>4
  <2>6. b \in B /\ b \in Directories \X Library /\ M[b] \in {Clean[b[2].name], Digested(Clean[b[2].name], b[2].id)}
    BY <1>6 DEF Naming
  <2>7. At(a, M, q) = At(b, M, v)
    BY <2>1, <2>5
  <2>8. a[1] = b[1] /\ M[a] = M[b]
    BY <2>2, <2>6, <2>7, EntriesApart
  <2>9. a = b
    BY <1>6, <2>2, <2>6, <2>8 DEF Naming
  <2> QED
    BY <1>2, <2>9
<1>13. ShowsAll(s, B, M)
  <2>1. /\ DOMAIN s = DOMAIN r \cup DOMAIN new
        /\ \A p \in DOMAIN r : s[p] = r[p]
        /\ \A p \in DOMAIN new : s[p] = new[p]
    BY <1>10, <1>12
  <2>2. ASSUME NEW p
        PROVE  p \in DOMAIN s <=> \/ p = Root
                                  \/ \E e \in Directories : p = CategoryPath(e)
                                  \/ \E b \in B : \E q \in Below(b) : p = At(b, M, q)
    <3>1. p \in DOMAIN r <=> \/ p = Root
                             \/ \E e \in Directories : p = CategoryPath(e)
                             \/ \E b \in A : \E q \in Below(b) : p = At(b, M, q)
      BY <1>9, <1>11, EntriesListed
    <3>2. p \in DOMAIN new <=> \E q \in Below(a) : p = At(a, M, q)
      BY <1>8
    <3>3. (\E b \in B : \E q \in Below(b) : p = At(b, M, q)) <=>
             \/ \E b \in A : \E q \in Below(b) : p = At(b, M, q)
             \/ \E q \in Below(a) : p = At(a, M, q)
      BY DEF a
    <3> QED
      BY <2>1, <3>1, <3>2, <3>3
  <2>3. DOMAIN s = {Root} \cup {CategoryPath(e) : e \in Directories}
                   \cup UNION {{At(b, M, q) : q \in Below(b)} : b \in B}
    <3>1. \A p : p \in UNION {{At(b, M, q) : q \in Below(b)} : b \in B} <=>
                   \E b \in B : \E q \in Below(b) : p = At(b, M, q)
      OBVIOUS
    <3> QED
      BY <2>2, <3>1
  <2>4. s[Root] = Directory /\ \A e \in Directories : s[CategoryPath(e)] = Directory
    <3>1. /\ Root \in DOMAIN r /\ r[Root] = Directory
          /\ \A e \in Directories : CategoryPath(e) \in DOMAIN r /\ r[CategoryPath(e)] = Directory
      BY <1>9, EntriesListed DEF ShowsAll
    <3> QED
      BY <2>1, <3>1
  <2>5. ASSUME NEW b \in B, NEW q \in Below(b)
        PROVE  s[At(b, M, q)] = Shows(b[2], q)
    <3>1. CASE b = a
      <4>1. At(a, M, q) \in DOMAIN new /\ new[At(a, M, q)] = Shows(x, q)
        BY <1>8, <3>1
      <4> QED
        BY <1>2, <2>1, <3>1, <4>1
    <3>2. CASE b \in A
      <4>1. At(b, N, q) \in DOMAIN r /\ r[At(b, N, q)] = Shows(b[2], q)
        BY <1>9, <3>2, EntriesListed DEF ShowsAll
      <4> QED
        BY <1>11, <2>1, <3>2, <4>1
    <3> QED
      BY <3>1, <3>2 DEF a
  <2>6. s = [p \in DOMAIN s |-> s[p]]
    BY <1>10
  <2> QED
    BY <2>3, <2>4, <2>5, <2>6 DEF ShowsAll
<1>14. u.children = ListsOf(s)
  <2>1. Rooted(r) /\ Rooted(s)
    BY <1>6, <1>9, <1>13, TreeRooted
  <2>2. Rooted(t.resources) /\ t.children = ListsOf(t.resources)
    BY <1>9, <2>1 DEF r
  <2>3. DOMAIN t.resources \cap DOMAIN new = {} /\ Rooted(InsertAll(t, new).resources)
    BY <1>12, <2>1 DEF r, s, u
  <2> QED
    BY <2>2, <2>3, InsertLists DEF s, u
<1>15. TreeOf(u, B, M)
  BY <1>10, <1>13, <1>14 DEF TreeOf, s
<1> QED
  BY <1>6, <1>7, <1>8, <1>15 DEF u

-----------------------------------------------------------------------------
(* The order of the directories.                                           *)

\* SortsBefore is a strict total order.
LEMMA SortsTotal ==
  ASSUME NEW d \in Directories, NEW e \in Directories
  PROVE  /\ d # e => SortsBefore(d, e) \/ SortsBefore(e, d)
         /\ ~ (SortsBefore(d, e) /\ SortsBefore(e, d))
         /\ \A f \in Directories : SortsBefore(d, e) /\ SortsBefore(e, f) => SortsBefore(d, f)
<1>1. ASSUME NEW s \in Range(Alphabet)
      PROVE  Rank(s) \in Int /\ Alphabet[Rank(s)] = s
  <2>1. DOMAIN Alphabet = 1..Len(Alphabet) /\ Len(Alphabet) \in Nat
    BY AlphabetAssumption
  <2>2. \E k \in DOMAIN Alphabet : Alphabet[k] = s
    BY DEF Range
  <2>3. Rank(s) \in DOMAIN Alphabet /\ Alphabet[Rank(s)] = s
    BY <2>2 DEF Rank
  <2> QED
    BY <2>1, <2>3
<1>2. ASSUME NEW f \in Directories
      PROVE  /\ Group(f) \in Range(Alphabet) /\ Clean[f.name] \in Range(Alphabet)
             /\ f.order \in Int
  BY AlphabetAssumption, ConfigAssumption
<1> DEFINE g(f) == Rank(Group(f))
           n(f) == Rank(Clean[f.name])
<1>3. \A f, h \in Directories :
        /\ g(f) \in Int /\ n(f) \in Int /\ f.order \in Int
        /\ g(f) = g(h) <=> Group(f) = Group(h)
        /\ n(f) = n(h) => f = h
  BY <1>1, <1>2, ConfigAssumption DEF Compiles
<1>4. ASSUME NEW f \in Directories, NEW h \in Directories
      PROVE  SortsBefore(f, h) <=>
               \/ g(f) < g(h)
               \/ g(f) = g(h) /\ (f.order < h.order \/ (f.order = h.order /\ n(f) < n(h)))
  <2>1. g(f) = g(h) <=> Group(f) = Group(h)
    BY <1>3
  <2>2. SortsBefore(f, h) <=>
          \/ g(f) < g(h)
          \/ /\ Group(f) = Group(h)
             /\ \/ f.order < h.order
                \/ f.order = h.order /\ n(f) < n(h)
    BY Zenon DEF SortsBefore
  <2> HIDE DEF g, n
  <2> QED
    BY <2>1, <2>2
<1> HIDE DEF g, n
<1>5. d # e => SortsBefore(d, e) \/ SortsBefore(e, d)
  <2>1. SortsBefore(d, e) <=>
          \/ g(d) < g(e)
          \/ g(d) = g(e) /\ (d.order < e.order \/ (d.order = e.order /\ n(d) < n(e)))
    BY <1>4
  <2>2. SortsBefore(e, d) <=>
          \/ g(e) < g(d)
          \/ g(e) = g(d) /\ (e.order < d.order \/ (e.order = d.order /\ n(e) < n(d)))
    BY <1>4
  <2>3. /\ g(d) \in Int /\ n(d) \in Int /\ d.order \in Int
        /\ g(e) \in Int /\ n(e) \in Int /\ e.order \in Int
        /\ n(d) = n(e) => d = e
    BY <1>3
  <2> QED
    BY <2>1, <2>2, <2>3
<1>6. ~ (SortsBefore(d, e) /\ SortsBefore(e, d))
  BY <1>3, <1>4
<1>7. ASSUME NEW f \in Directories
      PROVE  SortsBefore(d, e) /\ SortsBefore(e, f) => SortsBefore(d, f)
  BY <1>3, <1>4
<1> QED
  BY <1>5, <1>6, <1>7

\* What is left of a set of directories without one of them.
LEMMA WithoutOne ==
  ASSUME NEW D, D \subseteq Directories, NEW n \in Nat, Cardinality(D) = n + 1, NEW d \in D
  PROVE  Cardinality(D \ {d}) = n
<1>1. IsFiniteSet(D)
  BY ConfigAssumption, FS_Subset
<1>2. Cardinality(D \ {d}) = Cardinality(D) - 1
  BY <1>1, FS_RemoveElement
<1> QED
  BY <1>2

LEMMA SomeOne ==
  ASSUME NEW D, D \subseteq Directories, NEW n \in Nat, Cardinality(D) = n + 1
  PROVE  \E d : d \in D
<1>1. D # {}
  BY FS_EmptySet
<1> QED
  BY <1>1

\* One of them is the last.
LEMMA LastDirectory ==
  ASSUME NEW D, D \subseteq Directories, NEW n \in Nat, Cardinality(D) = n + 1
  PROVE  \E m \in D : \A d \in D \ {m} : SortsBefore(d, m)
<1> DEFINE HasLast(E) == \E m \in E : \A d \in E \ {m} : SortsBefore(d, m)
           T == {k \in Nat : \A E \in SUBSET Directories : Cardinality(E) = k + 1 => HasLast(E)}
<1>1. 0 \in T
  <2> SUFFICES ASSUME NEW E \in SUBSET Directories, Cardinality(E) = 0 + 1
               PROVE  HasLast(E)
    OBVIOUS
  <2>1. PICK d : d \in E
    BY SomeOne
  <2>2. IsFiniteSet(E \ {d}) /\ Cardinality(E \ {d}) = 0
    BY <2>1, WithoutOne, ConfigAssumption, FS_Subset
  <2>3. E \ {d} = {}
    BY <2>2, FS_EmptySet
  <2> QED
    BY <2>1, <2>3
<1>2. ASSUME NEW k \in Nat, k \in T
      PROVE  k + 1 \in T
  <2> SUFFICES ASSUME NEW E \in SUBSET Directories, Cardinality(E) = (k + 1) + 1
               PROVE  HasLast(E)
    OBVIOUS
  <2>1. PICK d : d \in E
    BY SomeOne
  <2>2. Cardinality(E \ {d}) = k + 1
    BY <2>1, WithoutOne
  <2>3. PICK m \in E \ {d} : \A e \in (E \ {d}) \ {m} : SortsBefore(e, m)
    BY <1>2, <2>2
  <2>4. CASE SortsBefore(d, m)
    BY <2>3, <2>4
  <2>5. CASE SortsBefore(m, d)
    <3>1. \A e \in E \ {d} : SortsBefore(e, d)
      BY <2>1, <2>3, <2>5, SortsTotal
    <3> QED
      BY <2>1, <3>1
  <2> QED
    BY <2>1, <2>3, <2>4, <2>5, SortsTotal
<1>3. n \in T
  <2> HIDE DEF T
  <2> QED
    BY <1>1, <1>2, SetInduction
<1> QED
  BY <1>3

\* Sorted has every directory, in order.
LEMMA SortedIs ==
  /\ DOMAIN Sorted = 1..Cardinality(Directories) /\ Cardinality(Directories) \in Nat
  /\ Len(Sorted) = Cardinality(Directories)
  /\ \A k \in DOMAIN Sorted : Sorted[k] \in Directories
  /\ \A d \in Directories : \E k \in DOMAIN Sorted : Sorted[k] = d
  /\ \A j, k \in DOMAIN Sorted : j < k <=> SortsBefore(Sorted[j], Sorted[k])
<1> DEFINE Orders(s, n, D) ==
             /\ s \in [1..n -> D]
             /\ \A d \in D : \E k \in 1..n : s[k] = d
             /\ \A j, k \in 1..n : j < k => SortsBefore(s[j], s[k])
           T == {n \in Nat : \A D \in SUBSET Directories :
                   Cardinality(D) = n => \E s : Orders(s, n, D)}
           c == Cardinality(Directories)
<1>1. 0 \in T
  <2> SUFFICES ASSUME NEW D \in SUBSET Directories, Cardinality(D) = 0
               PROVE  \E s : Orders(s, 0, D)
    OBVIOUS
  <2>1. IsFiniteSet(D)
    BY ConfigAssumption, FS_Subset
  <2>2. D = {}
    BY <2>1, FS_EmptySet
  <2>3. Orders([k \in 1..0 |-> 0], 0, D)
    BY <2>2
  <2> QED
    BY <2>3
<1>2. ASSUME NEW n \in Nat, n \in T
      PROVE  n + 1 \in T
  <2> SUFFICES ASSUME NEW D \in SUBSET Directories, Cardinality(D) = n + 1
               PROVE  \E s : Orders(s, n + 1, D)
    OBVIOUS
  <2>1. PICK m \in D : \A d \in D \ {m} : SortsBefore(d, m)
    BY LastDirectory
  <2>2. Cardinality(D \ {m}) = n
    BY WithoutOne
  <2>3. PICK s : Orders(s, n, D \ {m})
    BY <1>2, <2>2
  <2> DEFINE u == [k \in 1..(n + 1) |-> IF k = n + 1 THEN m ELSE s[k]]
  <2>4. u[n + 1] = m /\ \A k \in 1..n : u[k] = s[k] /\ u[k] \in D \ {m}
    BY <2>3
  <2>5. u \in [1..(n + 1) -> D]
    BY <2>4
  <2> HIDE DEF u
  <2>6. \A k \in 1..(n + 1) : k = n + 1 \/ k \in 1..n
    OBVIOUS
  <2>7. ASSUME NEW d \in D
        PROVE  \E k \in 1..(n + 1) : u[k] = d
    <3>1. CASE d = m
      BY <2>4, <3>1
    <3>2. CASE d # m
      <4>1. PICK k \in 1..n : s[k] = d
        BY <2>3, <3>2
      <4> QED
        BY <2>4, <4>1
    <3> QED
      BY <3>1, <3>2
  <2>8. ASSUME NEW j \in 1..(n + 1), NEW k \in 1..(n + 1), j < k
        PROVE  SortsBefore(u[j], u[k])
    <3>1. j \in 1..n
      BY <2>8
    <3>2. CASE k = n + 1
      BY <2>1, <2>4, <3>1, <3>2
    <3>3. CASE k \in 1..n
      BY <2>3, <2>4, <2>8, <3>1, <3>3
    <3> QED
      BY <2>6, <3>2, <3>3
  <2>9. Orders(u, n + 1, D)
    BY <2>5, <2>7, <2>8
  <2> QED
    BY <2>9
<1>3. c \in Nat
  BY ConfigAssumption, FS_CardinalityType
<1>4. \E s : Orders(s, c, Directories)
  <2>1. c \in T
    <3> HIDE DEF T, c
    <3> QED
      BY <1>1, <1>2, <1>3, SetInduction
  <2> QED
    BY <2>1
<1>5. \E s \in [1..c -> Directories] :
        /\ Range(s) = Directories
        /\ \A j, k \in DOMAIN s : j < k => SortsBefore(s[j], s[k])
  <2>1. PICK s : Orders(s, c, Directories)
    BY <1>4
  <2> HIDE DEF c
  <2>2. DOMAIN s = 1..c /\ s \in [1..c -> Directories]
    BY <2>1
  <2>3. Range(s) = Directories
    BY <2>1, <2>2 DEF Range
  <2> QED
    BY <2>1, <2>2, <2>3
<1> DEFINE S == Sorted
<1>6. /\ S \in [1..c -> Directories] /\ Range(S) = Directories
      /\ \A j, k \in DOMAIN S : j < k => SortsBefore(S[j], S[k])
  BY <1>5 DEF Sorted
<1> HIDE DEF S, c
<1>7. DOMAIN S = 1..c /\ \A k \in DOMAIN S : S[k] \in Directories
  BY <1>6
<1>8. \A d \in Directories : \E k \in DOMAIN S : S[k] = d
  BY <1>6 DEF Range
<1>9. Len(S) = c
  BY <1>3, <1>6
<1>10. ASSUME NEW j \in DOMAIN S, NEW k \in DOMAIN S
       PROVE  j < k <=> SortsBefore(S[j], S[k])
  <2>1. j \in Int /\ k \in Int /\ S[j] \in Directories /\ S[k] \in Directories
    BY <1>3, <1>7
  <2>2. j < k => SortsBefore(S[j], S[k])
    BY <1>6
  <2>3. k < j => SortsBefore(S[k], S[j])
    BY <1>6
  <2>4. j < k \/ j = k \/ k < j
    BY <2>1
  <2>5. ~ (SortsBefore(S[j], S[k]) /\ SortsBefore(S[k], S[j]))
    BY <2>1, SortsTotal
  <2> QED
    BY <2>2, <2>3, <2>4, <2>5
<1> QED
  BY <1>3, <1>7, <1>8, <1>9, <1>10 DEF S, c

-----------------------------------------------------------------------------
(* build_snapshot: one item in the directories of the configuration.       *)

\* Where an item belongs: in the first directory of each group that accepts it.
Belongs(d, x) ==
  /\ x \in Accepts[d.name]
  /\ ~ \E e \in Directories : /\ Group(e) = Group(d)
                              /\ SortsBefore(e, d)
                              /\ x \in Accepts[e.name]

Placements(X) == {a \in Directories \X X : Belongs(a[1], a[2])}

\* What one directory does to the state of the loop.
Try(x, s, d) ==
  IF Group(d) \in s.used \/ x \notin Accepts[d.name] THEN s
  ELSE [used |-> s.used \cup {Group(d)}, tree |-> AddItem(s.tree, d, x)]

\* The loop over the directories, and that there is one.
Loop(f, t, x) ==
  f = [k \in 0..Len(Sorted) |-> IF k = 0 THEN [used |-> {}, tree |-> t]
                                ELSE Try(x, f[k - 1], Sorted[k])]

LEMMA LoopExists == ASSUME NEW t, NEW x PROVE \E f : Loop(f, t, x)
<1> DEFINE base == [used |-> {}, tree |-> t]
           Solves(f, n) ==
             /\ f = [m \in 0..n |-> f[m]]
             /\ \A m \in 0..n : f[m] = IF m = 0 THEN base ELSE Try(x, f[m - 1], Sorted[m])
           T == {n \in Nat : \E f : Solves(f, n)}
<1> HIDE DEF base
<1>1. 0 \in T
  <2>1. Solves([m \in 0..0 |-> base], 0)
    OBVIOUS
  <2> HIDE DEF Solves
  <2> QED
    BY <2>1
<1>2. ASSUME NEW n \in Nat, n \in T
      PROVE  n + 1 \in T
  <2>1. PICK f : Solves(f, n)
    BY <1>2
  <2> DEFINE g == [m \in 0..(n + 1) |-> IF m = n + 1 THEN Try(x, f[n], Sorted[n + 1]) ELSE f[m]]
  <2>2. g = [m \in 0..(n + 1) |-> g[m]]
    OBVIOUS
  <2>3. g[n + 1] = Try(x, g[n], Sorted[n + 1])
    OBVIOUS
  <2>4. ASSUME NEW m \in 0..n
        PROVE  g[m] = f[m] /\ (m # 0 => g[m - 1] = f[m - 1])
    OBVIOUS
  <2>5. ASSUME NEW m \in 0..(n + 1)
        PROVE  g[m] = IF m = 0 THEN base ELSE Try(x, g[m - 1], Sorted[m])
    <3>1. CASE m = n + 1
      <4>1. m # 0 /\ m - 1 = n
        BY <3>1
      <4> HIDE DEF g
      <4> QED
        BY <2>3, <3>1, <4>1
    <3>2. CASE m \in 0..n
      <4> HIDE DEF g
      <4> QED
        BY <2>1, <2>4, <3>2
    <3> QED
      BY <3>1, <3>2
  <2>6. Solves(g, n + 1)
    <3> HIDE DEF g
    <3> QED
      BY <2>2, <2>5
  <2> HIDE DEF Solves, g
  <2> QED
    BY <2>6
<1>3. Len(Sorted) \in T
  <2> HIDE DEF T
  <2> QED
    BY <1>1, <1>2, SetInduction, SortedIs
<1>4. PICK f : Solves(f, Len(Sorted))
  BY <1>3
<1>5. f = [k \in 0..Len(Sorted) |-> IF k = 0 THEN base ELSE Try(x, f[k - 1], Sorted[k])]
  BY <1>4
<1> QED
  BY <1>5 DEF base, Loop

\* What it is.
LEMMA PlaceIs ==
  ASSUME NEW t, NEW x
  PROVE  \E f : /\ f[0] = [used |-> {}, tree |-> t]
                /\ \A k \in 1..Len(Sorted) : f[k] = Try(x, f[k - 1], Sorted[k])
                /\ Place(t, x) = f[Len(Sorted)].tree
<1> DEFINE placed == CHOOSE f : Loop(f, t, x)
<1>1. Place(t, x) = placed[Len(Sorted)].tree
  BY Zenon DEF Place, PlaceUsing, Loop, Try
<1>2. Loop(placed, t, x)
  BY LoopExists, Zenon
<1> HIDE DEF placed
<1>3. Len(Sorted) \in Nat
  BY SortedIs
<1>4. /\ placed[0] = [used |-> {}, tree |-> t]
      /\ \A k \in 1..Len(Sorted) : placed[k] = Try(x, placed[k - 1], Sorted[k])
  <2>1. \A k \in 0..Len(Sorted) : placed[k] = IF k = 0 THEN [used |-> {}, tree |-> t]
                                              ELSE Try(x, placed[k - 1], Sorted[k])
    BY <1>2 DEF Loop
  <2>2. 0 \in 0..Len(Sorted) /\ \A k \in 1..Len(Sorted) : k \in 0..Len(Sorted) /\ k # 0
    BY <1>3
  <2>3. placed[0] = [used |-> {}, tree |-> t]
    BY <2>1, <2>2
  <2>4. ASSUME NEW k \in 1..Len(Sorted)
        PROVE  placed[k] = Try(x, placed[k - 1], Sorted[k])
    BY <2>1, <2>2
  <2> QED
    BY <2>3, <2>4
<1> QED
  BY <1>1, <1>4

Built(t, A, N) == TreeOf(t, A, N) /\ Naming(A, N) /\ Needed(A, N)

\* An item is placed where it belongs, and nowhere else.
LEMMA PlaceTree ==
  ASSUME NEW t, NEW A, NEW N, Built(t, A, N), NEW x \in Library,
         \A b \in A : b[2].id # x.id
  PROVE  \E M : Built(Place(t, x), A \cup Placements({x}), M)
<1> DEFINE c == Len(Sorted)
           Seen(k) == {j \in 1..k : x \in Accepts[Sorted[j].name]}
           Used(k) == {Group(Sorted[j]) : j \in Seen(k)}
           Held(k) == {<<Sorted[j], x>> : j \in {i \in 1..k : Belongs(Sorted[i], x)}}
<1>1. PICK f : /\ f[0] = [used |-> {}, tree |-> t]
               /\ \A k \in 1..c : f[k] = Try(x, f[k - 1], Sorted[k])
               /\ Place(t, x) = f[c].tree
  BY PlaceIs
<1>2. /\ c \in Nat /\ DOMAIN Sorted = 1..c
      /\ \A k \in 1..c : Sorted[k] \in Directories
      /\ \A d \in Directories : \E k \in 1..c : Sorted[k] = d
      /\ \A j, k \in 1..c : j < k <=> SortsBefore(Sorted[j], Sorted[k])
  BY SortedIs
<1> DEFINE Good(k) == f[k].used = Used(k) /\ \E M : Built(f[k].tree, A \cup Held(k), M)
           T == {k \in Nat : k <= c => Good(k)}
<1> HIDE DEF c
<1>3. 0 \in T
  <2>1. f[0].used = {} /\ f[0].tree = t
    BY <1>1
  <2>2. Used(0) = {} /\ A \cup Held(0) = A
    OBVIOUS
  <2> QED
    BY <2>1, <2>2
<1>4. ASSUME NEW k \in Nat, k \in T
      PROVE  k + 1 \in T
  <2> SUFFICES ASSUME k + 1 <= c PROVE Good(k + 1)
    OBVIOUS
  <2> DEFINE d == Sorted[k + 1]
             s == f[k]
  <2>1. Good(k) /\ k + 1 \in 1..c /\ (k + 1) - 1 = k
    <3>1. k <= c => Good(k)
      BY <1>4
    <3> HIDE DEF Good
    <3> QED
      BY <1>2, <3>1
  <2>2. PICK M : Built(s.tree, A \cup Held(k), M)
    BY <2>1
  <2>3. s.used = Used(k) /\ f[k + 1] = Try(x, s, d) /\ d \in Directories
    BY <1>1, <1>2, <2>1
  <2>4. Group(d) \in Used(k) <=> \E e \in Directories : /\ Group(e) = Group(d)
                                                         /\ SortsBefore(e, d)
                                                         /\ x \in Accepts[e.name]
    <3>1. ASSUME Group(d) \in Used(k)
          PROVE  \E e \in Directories : /\ Group(e) = Group(d)
                                        /\ SortsBefore(e, d)
                                        /\ x \in Accepts[e.name]
      <4>1. PICK j \in 1..k : x \in Accepts[Sorted[j].name] /\ Group(Sorted[j]) = Group(d)
        BY <3>1
      <4>2. j \in 1..c /\ j < k + 1
        BY <1>2, <2>1
      <4> QED
        BY <1>2, <2>1, <4>1, <4>2
    <3>2. ASSUME NEW e \in Directories, Group(e) = Group(d), SortsBefore(e, d),
                 x \in Accepts[e.name]
          PROVE  Group(d) \in Used(k)
      <4>1. PICK j \in 1..c : Sorted[j] = e
        BY <1>2
      <4>2. j < k + 1
        BY <1>2, <2>1, <3>2, <4>1
      <4>3. j \in Seen(k)
        BY <1>2, <2>1, <3>2, <4>1, <4>2
      <4> QED
        BY <3>2, <4>1, <4>3
    <3> QED
      BY <3>1, <3>2
  <2>5. (Group(d) \in s.used \/ x \notin Accepts[d.name]) <=> ~Belongs(d, x)
    BY <2>3, <2>4 DEF Belongs
  <2>6. /\ 1..(k + 1) = 1..k \cup {k + 1}
        /\ Used(k + 1) = Used(k) \cup (IF x \in Accepts[d.name] THEN {Group(d)} ELSE {})
        /\ Held(k + 1) = Held(k) \cup (IF Belongs(d, x) THEN {<<d, x>>} ELSE {})
    <3>1. 1..(k + 1) = 1..k \cup {k + 1}
      OBVIOUS
    <3>2. \A j : j \in Seen(k + 1) <=> j \in Seen(k) \/ (j = k + 1 /\ x \in Accepts[d.name])
      BY <3>1
    <3>3. Used(k + 1) = Used(k) \cup (IF x \in Accepts[d.name] THEN {Group(d)} ELSE {})
      <4> HIDE DEF Seen
      <4> QED BY <3>2
    <3>4. Held(k + 1) = Held(k) \cup (IF Belongs(d, x) THEN {<<d, x>>} ELSE {})
      BY <3>1
    <3> QED
      BY <3>1, <3>3, <3>4
  <2>7. CASE Belongs(d, x)
    <3>1. x \in Accepts[d.name] /\ Group(d) \notin s.used
      BY <2>5, <2>7
    <3>2. f[k + 1] = [used |-> s.used \cup {Group(d)}, tree |-> AddItem(s.tree, d, x)]
      BY <2>3, <3>1 DEF Try
    <3>3. f[k + 1].used = s.used \cup {Group(d)} /\ f[k + 1].tree = AddItem(s.tree, d, x)
      BY <3>2
    <3>4. f[k + 1].used = Used(k + 1)
      <4> HIDE DEF Used, s, d
      <4> QED
        BY <2>3, <2>6, <3>1, <3>3
    <3>5. \A b \in A \cup Held(k) : b[2].id = x.id => b[2] = x /\ b[1] # d
      <4>1. ASSUME NEW j \in 1..k
            PROVE  Sorted[j] # d
        <5>1. j \in 1..c /\ j < k + 1
          BY <1>2, <2>1
        <5>2. SortsBefore(Sorted[j], d) /\ Sorted[j] \in Directories
          BY <1>2, <2>1, <5>1
        <5> QED
          BY <2>3, <5>2, SortsTotal
      <4> QED
        BY <4>1
    <3>6. A \cup Held(k + 1) = (A \cup Held(k)) \cup {<<d, x>>}
      BY <2>6, <2>7
    <3> DEFINE B == A \cup Held(k)
               C == A \cup Held(k + 1)
               u == s.tree
    <3>7. \E L : Built(AddItem(u, d, x), C, L)
      <4>1. /\ TreeOf(u, B, M) /\ Naming(B, M) /\ Needed(B, M)
            /\ C = B \cup {<<d, x>>}
            /\ \A b \in B : b[2].id = x.id => b[2] = x /\ b[1] # d
        BY <2>2, <3>5, <3>6 DEF Built
      <4> HIDE DEF B, C, u, d
      <4>2. \E L : TreeOf(AddItem(u, d, x), C, L) /\ Naming(C, L) /\ Needed(C, L)
        BY <2>3, <4>1, AddTree
      <4> QED
        BY <4>2 DEF Built
    <3> QED
      BY <3>3, <3>4, <3>7
  <2>8. CASE ~Belongs(d, x)
    <3>1. f[k + 1] = s
      BY <2>3, <2>5, <2>8 DEF Try
    <3>2. A \cup Held(k + 1) = A \cup Held(k)
      BY <2>6, <2>8
    <3>3. s.used = Used(k + 1)
      <4>1. x \in Accepts[d.name] => Group(d) \in Used(k)
        BY <2>3, <2>5, <2>8
      <4> HIDE DEF Used, s, d
      <4> QED
        BY <2>3, <2>6, <4>1
    <3> QED
      BY <2>2, <3>1, <3>2, <3>3
  <2> QED
    BY <2>7, <2>8
<1>5. c \in T
  <2> HIDE DEF T
  <2> QED
    BY <1>2, <1>3, <1>4, SetInduction
<1>6. Held(c) = Placements({x})
  <2>1. ASSUME NEW a \in Held(c)
        PROVE  a \in Placements({x})
    <3>1. PICK j \in 1..c : Belongs(Sorted[j], x) /\ a = <<Sorted[j], x>>
      OBVIOUS
    <3> QED
      BY <1>2, <3>1 DEF Placements
  <2>2. ASSUME NEW a \in Placements({x})
        PROVE  a \in Held(c)
    <3>1. a[1] \in Directories /\ a = <<a[1], x>> /\ Belongs(a[1], x)
      BY DEF Placements
    <3>2. PICK j \in 1..c : Sorted[j] = a[1]
      BY <1>2, <3>1
    <3> QED
      BY <3>1, <3>2
  <2> HIDE DEF Held
  <2> QED
    BY <2>1, <2>2
<1>7. Good(c)
  <2>1. c <= c => Good(c)
    BY <1>5
  <2> HIDE DEF Good
  <2> QED
    BY <1>2, <2>1
<1>8. PICK M : Built(f[c].tree, A \cup Held(c), M)
  BY <1>7
<1> HIDE DEF Held
<1> QED
  BY <1>1, <1>6, <1>8

-----------------------------------------------------------------------------
(* build_snapshot: all the items of a refresh.                             *)

Building(f, items) ==
  f = [n \in 0..Len(items) |-> IF n = 0 THEN Categories ELSE Place(f[n - 1], items[n])]

LEMMA BuildingExists ==
  ASSUME NEW items, Len(items) \in Nat
  PROVE  \E f : Building(f, items)
<1> DEFINE Solves(f, n) ==
             /\ f = [m \in 0..n |-> f[m]]
             /\ \A m \in 0..n : f[m] = IF m = 0 THEN Categories ELSE Place(f[m - 1], items[m])
           T == {n \in Nat : \E f : Solves(f, n)}
<1>1. 0 \in T
  <2>1. Solves([m \in 0..0 |-> Categories], 0)
    OBVIOUS
  <2> HIDE DEF Solves
  <2> QED
    BY <2>1
<1>2. ASSUME NEW n \in Nat, n \in T
      PROVE  n + 1 \in T
  <2>1. PICK f : Solves(f, n)
    BY <1>2
  <2> DEFINE g == [m \in 0..(n + 1) |-> IF m = n + 1 THEN Place(f[n], items[n + 1]) ELSE f[m]]
  <2>2. g = [m \in 0..(n + 1) |-> g[m]]
    OBVIOUS
  <2>3. g[n + 1] = Place(g[n], items[n + 1])
    OBVIOUS
  <2>4. ASSUME NEW m \in 0..n
        PROVE  g[m] = f[m] /\ (m # 0 => g[m - 1] = f[m - 1])
    OBVIOUS
  <2>5. ASSUME NEW m \in 0..(n + 1)
        PROVE  g[m] = IF m = 0 THEN Categories ELSE Place(g[m - 1], items[m])
    <3>1. CASE m = n + 1
      <4>1. m # 0 /\ m - 1 = n
        BY <3>1
      <4> HIDE DEF g
      <4> QED
        BY <2>3, <3>1, <4>1
    <3>2. CASE m \in 0..n
      <4> HIDE DEF g
      <4> QED
        BY <2>1, <2>4, <3>2
    <3> QED
      BY <3>1, <3>2
  <2>6. Solves(g, n + 1)
    <3> HIDE DEF g
    <3> QED
      BY <2>2, <2>5
  <2> HIDE DEF Solves, g
  <2> QED
    BY <2>6
<1>3. Len(items) \in T
  <2> HIDE DEF T
  <2> QED
    BY <1>1, <1>2, SetInduction
<1>4. PICK f : Solves(f, Len(items))
  BY <1>3
<1>5. f = [n \in 0..Len(items) |-> IF n = 0 THEN Categories ELSE Place(f[n - 1], items[n])]
  BY <1>4
<1> QED
  BY <1>5 DEF Building

LEMMA BuildIs ==
  ASSUME NEW items, Len(items) \in Nat
  PROVE  \E f : /\ f[0] = Categories
                /\ \A n \in 1..Len(items) : f[n] = Place(f[n - 1], items[n])
                /\ BuildSnapshot(items) = f[Len(items)]
<1> DEFINE build == CHOOSE f : Building(f, items)
<1>1. BuildSnapshot(items) = build[Len(items)]
  BY Zenon DEF BuildSnapshot, Building
<1>2. Building(build, items)
  BY BuildingExists, Zenon
<1> HIDE DEF build
<1>3. \A n \in 0..Len(items) : build[n] = IF n = 0 THEN Categories
                                          ELSE Place(build[n - 1], items[n])
  BY <1>2 DEF Building
<1>4. 0 \in 0..Len(items) /\ \A n \in 1..Len(items) : n \in 0..Len(items) /\ n # 0
  OBVIOUS
<1>5. build[0] = Categories
  BY <1>3, <1>4
<1>6. ASSUME NEW n \in 1..Len(items)
      PROVE  build[n] = Place(build[n - 1], items[n])
  BY <1>3, <1>4
<1> QED
  BY <1>1, <1>5, <1>6

\* What upstream may answer.
LEMMA ItemListsAre ==
  ASSUME NEW items \in ItemLists
  PROVE  /\ Len(items) \in Nat /\ DOMAIN items = 1..Len(items)
         /\ \A k \in DOMAIN items : items[k] \in Library
         /\ \A j, k \in DOMAIN items : items[j].id = items[k].id => j = k
<1>1. Cardinality(Ids) \in Nat
  BY LibraryAssumption, FS_CardinalityType
<1>2. PICK n \in 0..Cardinality(Ids) : items \in [1..n -> Library]
  BY DEF ItemLists
<1>3. n \in Nat
  BY <1>1
<1>4. Len(items) = n
  BY <1>2, <1>3
<1>5. \A j, k \in DOMAIN items : items[j].id = items[k].id => j = k
  BY DEF ItemLists
<1> QED
  BY <1>2, <1>3, <1>4, <1>5

\* What is built is the tree of all the placements of the items.
LEMMA BuildTree ==
  ASSUME NEW items \in ItemLists
  PROVE  \E N : Built(BuildSnapshot(items), Placements(ToSet(items)), N)
<1> DEFINE c == Len(items)
           First(n) == {items[j] : j \in 1..n}
<1>1. /\ c \in Nat /\ DOMAIN items = 1..c
      /\ \A k \in 1..c : items[k] \in Library
      /\ \A j, k \in 1..c : items[j].id = items[k].id => j = k
  BY ItemListsAre
<1>2. PICK f : /\ f[0] = Categories
               /\ \A n \in 1..c : f[n] = Place(f[n - 1], items[n])
               /\ BuildSnapshot(items) = f[c]
  BY <1>1, BuildIs
<1> DEFINE Good(n) == \E N : Built(f[n], Placements(First(n)), N)
           T == {n \in Nat : n <= c => Good(n)}
<1> HIDE DEF c
<1>3. 0 \in T
  <2>1. Placements(First(0)) = {}
    BY DEF Placements
  <2>2. \A N : Built(f[0], {}, N)
    BY <1>2, CategoriesTree DEF Built, Naming, Needed
  <2>3. Good(0)
    <3> HIDE DEF First
    <3> QED
      BY <2>1, <2>2
  <2> HIDE DEF Good
  <2> QED
    BY <2>3
<1>4. ASSUME NEW n \in Nat, n \in T
      PROVE  n + 1 \in T
  <2> HIDE DEF Good
  <2> SUFFICES ASSUME n + 1 <= c PROVE Good(n + 1)
    OBVIOUS
  <2> USE DEF Good
  <2> DEFINE x == items[n + 1]
             A == Placements(First(n))
             t == f[n]
  <2>1. Good(n) /\ n + 1 \in 1..c /\ (n + 1) - 1 = n
    <3>1. n <= c => Good(n)
      BY <1>4
    <3> HIDE DEF Good
    <3> QED
      BY <1>1, <3>1
  <2>2. PICK N : Built(t, A, N)
    BY <2>1
  <2>3. x \in Library /\ f[n + 1] = Place(t, x)
    BY <1>1, <1>2, <2>1
  <2>4. \A b \in A : b[2].id # x.id
    <3>1. ASSUME NEW j \in 1..n
          PROVE  items[j].id # x.id
      <4>1. j \in 1..c /\ j # n + 1
        BY <1>1, <2>1
      <4> QED
        BY <1>1, <2>1, <4>1
    <3> QED
      BY <3>1 DEF Placements
  <2>5. Placements(First(n + 1)) = A \cup Placements({x})
    <3>1. First(n + 1) = First(n) \cup {x}
      OBVIOUS
    <3> HIDE DEF First, x
    <3> QED
      BY <3>1 DEF Placements
  <2> HIDE DEF A, t, x
  <2>6. \E M : Built(Place(t, x), A \cup Placements({x}), M)
    BY <2>2, <2>3, <2>4, PlaceTree
  <2> HIDE DEF First
  <2> QED
    BY <2>3, <2>5, <2>6
<1>5. Good(c)
  <2>1. c \in T
    <3> HIDE DEF T
    <3> QED
      BY <1>1, <1>3, <1>4, SetInduction
  <2>2. c <= c => Good(c)
    BY <2>1
  <2> HIDE DEF Good
  <2> QED
    BY <1>1, <2>2
<1>6. First(c) = ToSet(items)
  BY <1>1 DEF ToSet
<1> HIDE DEF First
<1> QED
  BY <1>2, <1>5, <1>6

-----------------------------------------------------------------------------
(* The inductive invariant: the tree is that of the items present, in the  *)
(* names they got when they were built; if no two items of the refresh go  *)
(* by the same name, they got their clean names.                           *)

PlainNames(A, N) == \A a \in A : N[a] = Clean[a[2].name]

\* t shows the items X of a refresh with those items.
Displays(t, X, items) ==
  \E N : /\ TreeOf(t, Placements(X), N)
         /\ Naming(Placements(X), N)
         /\ DistinctNames(items) => PlainNames(Placements(X), N)

CInv ==
  /\ built \in ItemLists
  /\ gone \subseteq Ids
  /\ tree = EmptyTree \/ Displays(tree, Present, built)

LEMMA PresentIs ==
  ASSUME built \in ItemLists
  PROVE  Present \subseteq Library /\ Present = {x \in ToSet(built) : x.id \notin gone}
<1>1. \A k \in DOMAIN built : built[k] \in Library
  BY ItemListsAre
<1> QED
  BY <1>1 DEF Present, ToSet

\* A refresh displays all it was given.
LEMMA BuildDisplays ==
  ASSUME NEW items \in ItemLists
  PROVE  Displays(BuildSnapshot(items), ToSet(items), items)
<1> DEFINE t == BuildSnapshot(items)
           A == Placements(ToSet(items))
<1>1. PICK N : Built(t, A, N)
  BY BuildTree
<1>2. \A a \in A : a[2] \in ToSet(items)
  BY DEF Placements
<1>3. DistinctNames(items) => PlainNames(A, N)
  <2> SUFFICES ASSUME DistinctNames(items), NEW a \in A
               PROVE  N[a] = Clean[a[2].name]
    BY DEF PlainNames
  <2>1. ASSUME NEW b \in A, Clean[b[2].name] = Clean[a[2].name]
        PROVE  b[2] = a[2]
    <3>1. PICK j \in DOMAIN items : items[j] = a[2]
      BY <1>2 DEF ToSet
    <3>2. PICK k \in DOMAIN items : items[k] = b[2]
      BY <1>2, <2>1 DEF ToSet
    <3>3. j = k
      BY <2>1, <3>1, <3>2 DEF DistinctNames
    <3> QED
      BY <3>1, <3>2, <3>3
  <2>2. Needed(A, N)
    BY <1>1 DEF Built
  <2> HIDE DEF A
  <2> QED
    BY <2>1, <2>2 DEF Needed
<1> HIDE DEF t, A
<1>4. TreeOf(t, A, N) /\ Naming(A, N)
  BY <1>1 DEF Built
<1> QED
  BY <1>3, <1>4 DEF Displays, t, A

LEMMA CInvInit == Init => CInv
<1> SUFFICES ASSUME Init PROVE CInv
  OBVIOUS
<1>1. Cardinality(Ids) \in Nat
  BY LibraryAssumption, FS_CardinalityType
<1>2. 0 \in 0..Cardinality(Ids)
  BY <1>1
<1>3. << >> \in [1..0 -> Library]
  OBVIOUS
<1>4. << >> \in ItemLists
  BY <1>2, <1>3 DEF ItemLists
<1> QED
  BY <1>4 DEF Init, CInv

LEMMA CInvRefresh == Refresh => CInv'
<1> SUFFICES ASSUME Refresh PROVE CInv'
  OBVIOUS
<1>1. PICK items \in ItemLists : built' = items /\ gone' = {} /\ tree' = BuildSnapshot(items)
  BY DEF Refresh
<1>2. Present' = ToSet(items)
  BY <1>1 DEF Present, ToSet
<1>3. Displays(BuildSnapshot(items), ToSet(items), items)
  BY BuildDisplays
<1>4. Displays(tree', Present', built')
  BY <1>1, <1>2, <1>3
<1> QED
  BY <1>1, <1>4 DEF CInv

\* What is present without one item is placed as before.
LEMMA PlacementsWithout ==
  ASSUME NEW X, NEW i
  PROVE  Placements({x \in X : x.id # i}) = {a \in Placements(X) : a[2].id # i}
BY DEF Placements

LEMMA CInvDelete == CInv /\ Delete => CInv'
<1> SUFFICES ASSUME CInv, Delete PROVE CInv'
  OBVIOUS
<1>1. PICK i \in Ids : /\ Aliases(tree, i) # {}
                       /\ gone' = gone \cup {i}
                       /\ tree' = RemoveItem(tree, i)
                       /\ built' = built
  BY DEF Delete
<1>2. tree # EmptyTree
  <2>1. Aliases(EmptyTree, i) = {}
    BY NoneAssumption DEF Aliases, EmptyTree, Directory
  <2> QED
    BY <1>1, <2>1
<1> DEFINE X == Present
           A == Placements(X)
           B == {a \in A : a[2].id # i}
<1>3. PICK N : TreeOf(tree, A, N) /\ Naming(A, N) /\ (DistinctNames(built) => PlainNames(A, N))
  BY <1>2 DEF CInv, Displays
<1>4. Present' = {x \in X : x.id # i}
  BY <1>1 DEF Present
<1> HIDE DEF X
<1>5. Placements(Present') = B
  BY <1>4, PlacementsWithout
<1> HIDE DEF A
<1>6. TreeOf(tree', B, N)
  BY <1>1, <1>3, RemoveTree
<1>7. Naming(B, N) /\ (DistinctNames(built) => PlainNames(B, N))
  BY <1>3 DEF Naming, PlainNames
<1> HIDE DEF B
<1>8. Displays(tree', Present', built')
  BY <1>1, <1>5, <1>6, <1>7 DEF Displays
<1> QED
  BY <1>1, <1>8 DEF CInv

\* The tree is always that of the items present, after any refreshes (build_snapshot)
\* and deletions (delete_item).
THEOREM ClassifierInvariant == Spec => []CInv
<1>1. CInv /\ UNCHANGED cvars => CInv'
  BY DEF CInv, Present, cvars
<1>2. CInv /\ [Next]_cvars => CInv'
  BY <1>1, CInvRefresh, CInvDelete DEF Next
<1> QED
  BY <1>2, CInvInit, PTL DEF Spec

-----------------------------------------------------------------------------
(* What follows.                                                           *)

\* No sequence of refreshes and deletions leaves a dangling or unreachable entry.
THEOREM TreeIsWellFormed == Spec => []TreeWellFormed
<1>1. WellFormed(EmptyTree)
  BY DEF WellFormed, Connected, ListsExact, EmptyTree, Directory, Listed
<1>2. CInv => TreeWellFormed
  <2> SUFFICES ASSUME CInv, tree # EmptyTree PROVE WellFormed(tree)
    BY <1>1 DEF TreeWellFormed
  <2>1. PICK N : TreeOf(tree, Placements(Present), N) /\ Naming(Placements(Present), N)
    BY DEF CInv, Displays
  <2> QED
    BY <2>1, TreeOfWellFormed
<1> QED
  BY <1>2, ClassifierInvariant, PTL

\* A tree with plain names is the one of its items, whichever way it came about.
LEMMA SameDisplay ==
  ASSUME NEW t, NEW u, NEW X, NEW items, NEW others,
         Displays(t, X, items), Displays(u, X, others),
         DistinctNames(items), DistinctNames(others)
  PROVE  t = u
<1> DEFINE A == Placements(X)
<1>1. PICK N : TreeOf(t, A, N) /\ PlainNames(A, N)
  BY DEF Displays
<1>2. PICK M : TreeOf(u, A, M) /\ PlainNames(A, M)
  BY DEF Displays
<1> HIDE DEF A
<1>3. \A a \in A : N[a] = M[a]
  BY <1>1, <1>2 DEF PlainNames
<1> QED
  BY <1>1, <1>2, <1>3, TreeOfUnique

\* Fewer items in another order have distinct names too.
LEMMA FewerNames ==
  ASSUME NEW items \in ItemLists, NEW fewer \in ItemLists,
         ToSet(fewer) \subseteq ToSet(items), DistinctNames(items)
  PROVE  DistinctNames(fewer)
<1> SUFFICES ASSUME NEW j \in DOMAIN fewer, NEW k \in DOMAIN fewer,
                    Clean[fewer[j].name] = Clean[fewer[k].name]
             PROVE  j = k
  BY DEF DistinctNames
<1>1. fewer[j] \in ToSet(items) /\ fewer[k] \in ToSet(items)
  BY DEF ToSet
<1>2. PICK m \in DOMAIN items : items[m] = fewer[j]
  BY <1>1 DEF ToSet
<1>3. PICK n \in DOMAIN items : items[n] = fewer[k]
  BY <1>1 DEF ToSet
<1>4. m = n
  BY <1>2, <1>3 DEF DistinctNames
<1>5. fewer[j].id = fewer[k].id
  BY <1>2, <1>3, <1>4
<1> QED
  BY <1>5, ItemListsAre

\* Deleting items leaves what a refresh without them would build.
THEOREM DeleteIsRebuild == Spec => []DeleteMatchesRebuild
<1>1. CInv => DeleteMatchesRebuild
  <2> SUFFICES ASSUME CInv, tree # EmptyTree, DistinctNames(built),
                      NEW items \in ItemLists, ToSet(items) = Present
               PROVE  tree = BuildSnapshot(items)
    BY DEF DeleteMatchesRebuild
  <2>1. Displays(tree, Present, built)
    BY DEF CInv
  <2>2. Displays(BuildSnapshot(items), Present, items)
    BY BuildDisplays
  <2>3. Present \subseteq ToSet(built) /\ built \in ItemLists
    BY PresentIs DEF CInv
  <2>4. DistinctNames(items)
    BY <2>3, FewerNames
  <2> QED
    BY <2>1, <2>2, <2>4, SameDisplay
<1> QED
  BY <1>1, ClassifierInvariant, PTL

\* The order in which the crawls finish does not show in the tree.
THEOREM OrderIsIrrelevant == Spec => []ArrivalOrderIrrelevant
<1>1. CInv => ArrivalOrderIrrelevant
  <2> SUFFICES ASSUME CInv, tree # EmptyTree, gone = {}, DistinctNames(built),
                      NEW items \in ItemLists, ToSet(items) = ToSet(built)
               PROVE  BuildSnapshot(items) = tree
    BY DEF ArrivalOrderIrrelevant
  <2>1. Displays(tree, Present, built)
    BY DEF CInv
  <2>2. Present = ToSet(items)
    BY PresentIs DEF CInv
  <2>3. Displays(BuildSnapshot(items), Present, items)
    BY <2>2, BuildDisplays
  <2>4. DistinctNames(items)
    BY FewerNames DEF CInv
  <2> QED
    BY <2>1, <2>3, <2>4, SameDisplay
<1> QED
  BY <1>1, ClassifierInvariant, PTL

-----------------------------------------------------------------------------
(* Where the items present are shown.                                      *)

\* The tree displays the items present, with the names N.
Named(N) ==
  /\ TreeOf(tree, Placements(Present), N)
  /\ Naming(Placements(Present), N)

\* The item and the category of an entry, as the properties read them off it.
LEMMA AtIs ==
  ASSUME NEW A, NEW N, Naming(A, N), NEW a \in A, NEW q \in Below(a)
  PROVE  /\ At(a, N, q) \in Seq(Segments) /\ q \in Seq(Segments)
         /\ Len(q) \in Nat /\ Len(At(a, N, q)) = 2 + Len(q)
         /\ At(a, N, q)[1] = Clean[a[1].name]
         /\ SubSeq(At(a, N, q), 1, 2) = At(a, N, Root)
         /\ At(a, N, q) = At(a, N, Root) \o q
<1> DEFINE c == Clean[a[1].name]
           n == N[a]
           p == Join(c, n, q)
<1>1. c \in Segments /\ n \in Segments /\ q \in Seq(Segments)
  <2>1. a \in Directories \X Library
        /\ n \in {Clean[a[2].name], Digested(Clean[a[2].name], a[2].id)}
    BY DEF Naming
  <2> QED
    BY <2>1, EntryPlace
<1> HIDE DEF c, n
<1>2. /\ p \in Seq(Segments) /\ Len(p) = 2 + Len(q) /\ Len(q) \in Nat
      /\ p[1] = c /\ p[2] = n
  BY <1>1, Joined
<1>3. Join(c, n, Root) = <<c, n>>
  BY <1>1, JoinedDeep
<1>4. SubSeq(p, 1, 2) = <<c, n>>
  <2> HIDE DEF p
  <2>1. \A k \in 1..2 : p[k] \in Segments
    BY <1>1, <1>2
  <2> DEFINE s == SubSeq(p, 1, 2)
             u == <<c, n>>
  <2>2. /\ s \in Seq(Segments) /\ Len(s) = IF 1 <= 2 THEN 2 - 1 + 1 ELSE 0
        /\ \A k \in 1..(2 - 1 + 1) : s[k] = p[1 + k - 1]
    BY <2>1, SubSeqProperties
  <2>3. u \in Seq(Segments) /\ Len(u) = 2 /\ u[1] = c /\ u[2] = n
    BY <1>1
  <2> HIDE DEF s, u
  <2>4. Len(s) = 2 /\ s[1] = c /\ s[2] = n
    BY <1>2, <2>2
  <2>5. \A k \in 1..2 : s[k] = u[k]
    BY <2>3, <2>4
  <2>6. s = u
    BY <2>2, <2>3, <2>4, <2>5, SeqEqual
  <2> QED
    BY <2>6 DEF s, u
<1>5. p = <<c, n>> \o q
  BY DEF Join
<1> QED
  BY <1>1, <1>2, <1>3, <1>4, <1>5 DEF At, c, n

\* p is an entry of a placement of x.
ShownAt(N, x, p) ==
  \E e \in Directories : /\ <<e, x>> \in Placements(Present)
                         /\ \E q \in Below(<<e, x>>) : p = At(<<e, x>>, N, q)

\* The aliases of an item present are the entries of its placements.
LEMMA AliasesOf ==
  ASSUME CInv, NEW N, Named(N), NEW x \in Present, NEW p
  PROVE  p \in Aliases(tree, x.id) <=> ShownAt(N, x, p)
<1> DEFINE A == Placements(Present)
<1>1. x \in Library /\ x.id \in Ids
  BY PresentIs, ItemFacts DEF CInv
<1>2. p \in Aliases(tree, x.id) <=>
        \E a \in A : a[2].id = x.id /\ \E q \in Below(a) : p = At(a, N, q)
  <2> HIDE DEF A
  <2> QED
    BY <1>1, AliasesListed DEF Named, A
<1>3. \A y \in Present : y.id = x.id => y = x
  <2>1. \A y \in Present : \E k \in DOMAIN built : built[k] = y
    BY DEF Present
  <2>2. \A j, k \in DOMAIN built : built[j].id = built[k].id => j = k
    BY ItemListsAre DEF CInv
  <2> QED
    BY <2>1, <2>2
<1>4. \A a \in A : a[1] \in Directories /\ a[2] \in Present /\ a = <<a[1], a[2]>>
  BY DEF Placements
<1>5. ASSUME NEW a \in A, a[2].id = x.id
      PROVE  a[1] \in Directories /\ a = <<a[1], x>>
  BY <1>3, <1>4, <1>5
<1>6. ASSUME NEW e \in Directories
      PROVE  <<e, x>>[2].id = x.id
  OBVIOUS
<1> HIDE DEF A
<1>7. ASSUME p \in Aliases(tree, x.id)
      PROVE  \E e \in Directories : /\ <<e, x>> \in A
                                    /\ \E q \in Below(<<e, x>>) : p = At(<<e, x>>, N, q)
  <2>1. PICK a \in A : a[2].id = x.id /\ \E q \in Below(a) : p = At(a, N, q)
    BY <1>2, <1>7
  <2>2. a[1] \in Directories /\ a = <<a[1], x>>
    BY <1>5, <2>1
  <2> QED
    BY <2>1, <2>2
<1>8. ASSUME NEW e \in Directories, <<e, x>> \in A,
             \E q \in Below(<<e, x>>) : p = At(<<e, x>>, N, q)
      PROVE  p \in Aliases(tree, x.id)
  BY <1>2, <1>6, <1>8
<1> QED
  BY <1>7, <1>8 DEF A, ShownAt

\* An item has one alias in the category of each directory it is placed in.
LEMMA TopsAre ==
  ASSUME CInv, NEW N, Named(N), NEW x \in Present, NEW d \in Directories
  PROVE  Tops(d, x) = IF <<d, x>> \in Placements(Present) THEN {At(<<d, x>>, N, Root)}
                      ELSE {}
<1> DEFINE A == Placements(Present)
           a == <<d, x>>
<1>1. Naming(A, N)
  BY DEF Named
<1>2. \A b \in A : Root \in Below(b)
  BY DEF Below
<1>3. ASSUME NEW e \in Directories, <<e, x>> \in A, NEW q \in Below(<<e, x>>),
             Len(At(<<e, x>>, N, q)) = 2
      PROVE  q = Root /\ Parent(At(<<e, x>>, N, q)) = CategoryPath(e)
  <2> DEFINE b == <<e, x>>
  <2>1. Len(q) \in Nat /\ 2 + Len(q) = 2 /\ q \in Seq(Segments)
    BY <1>1, <1>3, AtIs
  <2>2. q = Root
    BY <2>1 DEF Root
  <2>3. b \in Directories \X Library
        /\ N[b] \in {Clean[b[2].name], Digested(Clean[b[2].name], b[2].id)}
    BY <1>1, <1>3 DEF Naming
  <2>4. Parent(At(b, N, q)) = CategoryPath(b[1])
    <3> HIDE DEF b
    <3> QED
      BY <1>3, <2>2, <2>3, EntryPlace DEF b
  <2> QED
    BY <2>2, <2>4
<1>4. \A e \in Directories : CategoryPath(e) = CategoryPath(d) => e = d
  BY ConfigAssumption DEF CategoryPath, Compiles
<1>5. ASSUME NEW p
      PROVE  p \in Tops(d, x) <=> a \in A /\ p = At(a, N, Root)
  <2>1. p \in Tops(d, x) <=> /\ p \in Aliases(tree, x.id)
                             /\ Len(p) = 2 /\ Parent(p) = CategoryPath(d)
    BY DEF Tops
  <2>2. p \in Aliases(tree, x.id) <=>
          \E e \in Directories : /\ <<e, x>> \in A
                                 /\ \E q \in Below(<<e, x>>) : p = At(<<e, x>>, N, q)
    <3>1. p \in Aliases(tree, x.id) <=> ShownAt(N, x, p)
      BY AliasesOf
    <3> QED
      BY <3>1 DEF ShownAt
  <2> HIDE DEF A
  <2>3. ASSUME p \in Tops(d, x)
        PROVE  a \in A /\ p = At(a, N, Root)
    <3>1. PICK e \in Directories :
            <<e, x>> \in A /\ \E q \in Below(<<e, x>>) : p = At(<<e, x>>, N, q)
      BY <2>1, <2>2, <2>3
    <3>2. PICK q \in Below(<<e, x>>) : p = At(<<e, x>>, N, q)
      BY <3>1
    <3>3. q = Root /\ CategoryPath(e) = CategoryPath(d)
      BY <1>3, <2>1, <2>3, <3>1, <3>2
    <3> QED
      BY <1>4, <3>1, <3>2, <3>3
  <2>4. ASSUME a \in A, p = At(a, N, Root)
        PROVE  p \in Tops(d, x)
    <3>1. Root \in Below(a)
      BY <1>2, <2>4
    <3>2. Len(At(a, N, Root)) = 2 + Len(Root)
      BY <1>1, <2>4, <3>1, AtIs
    <3>3. Len(Root) = 0
      BY DEF Root
    <3>4. Len(p) = 2
      BY <2>4, <3>2, <3>3
    <3>5. Parent(p) = CategoryPath(d)
      BY <1>3, <2>4, <3>1, <3>4
    <3> QED
      BY <2>1, <2>2, <2>4, <3>1, <3>4, <3>5
  <2> QED
    BY <2>3, <2>4
<1> HIDE DEF A, a
<1> QED
  BY <1>5 DEF A, a

\* Every item is shown where it belongs, once, and nowhere else.
THEOREM ItemsShownOnce == Spec => []ShownWhereItBelongs
<1>1. CInv => ShownWhereItBelongs
  <2> SUFFICES ASSUME CInv, tree # EmptyTree, NEW x \in Present, NEW d \in Directories
               PROVE  Cardinality(Tops(d, x)) = IF Belongs(d, x) THEN 1 ELSE 0
    BY DEF ShownWhereItBelongs, Belongs
  <2>1. PICK N : Named(N)
    BY DEF CInv, Displays, Named
  <2>2. <<d, x>> \in Placements(Present) <=> Belongs(d, x)
    BY DEF Placements
  <2>3. Tops(d, x) = IF Belongs(d, x) THEN {At(<<d, x>>, N, Root)} ELSE {}
    BY <2>1, <2>2, TopsAre
  <2> QED
    BY <2>3, FS_Singleton, FS_EmptySet
<1> QED
  BY <1>1, ClassifierInvariant, PTL

-----------------------------------------------------------------------------
(* Which of its files a folder shows.                                      *)

\* There is one last of the biggest.
LEMMA OneBiggest ==
  ASSUME NEW x \in Library, NEW F \in SUBSET DOMAIN x.descendants, F # {}
  PROVE  \E k \in F : Biggest(x, F) = {k}
<1> DEFINE c == Len(x.descendants)
           size(k) == x.descendants[k].size
           Before(j, k) == size(j) < size(k) \/ (size(j) = size(k) /\ j <= k)
           HasLast(G) == \E k \in G : \A j \in G : Before(j, k)
           T == {n \in Nat : \A G \in SUBSET (1..c) : G \subseteq 1..n /\ G # {} => HasLast(G)}
<1>1. c \in Nat /\ DOMAIN x.descendants = 1..c /\ \A k \in 1..c : size(k) \in Nat
  BY ItemFacts
<1> HIDE DEF c, size
<1>2. 0 \in T
  <2>1. \A G : G \subseteq 1..0 => G = {}
    OBVIOUS
  <2> HIDE DEF HasLast
  <2> QED
    BY <2>1
<1>3. ASSUME NEW n \in Nat, n \in T
      PROVE  n + 1 \in T
  <2> SUFFICES ASSUME NEW G \in SUBSET (1..c), G \subseteq 1..(n + 1), G # {}
               PROVE  HasLast(G)
    <3> HIDE DEF HasLast
    <3> QED
      OBVIOUS
  <2> DEFINE H == G \ {n + 1}
  <2>1. H \in SUBSET (1..c) /\ H \subseteq 1..n
    OBVIOUS
  <2>2. H # {} => HasLast(H)
    <3> HIDE DEF HasLast, H
    <3> QED
      BY <1>3, <2>1
  <2>3. CASE n + 1 \notin G
    <3>1. H = G
      BY <2>3
    <3> HIDE DEF HasLast, H
    <3> QED
      BY <2>2, <3>1
  <2>4. CASE n + 1 \in G /\ H = {}
    <3>1. \A j \in G : j = n + 1
      BY <2>4
    <3>2. Before(n + 1, n + 1)
      OBVIOUS
    <3> HIDE DEF Before
    <3> QED
      BY <2>4, <3>1, <3>2
  <2>5. CASE n + 1 \in G /\ H # {}
    <3>1. PICK k \in H : \A j \in H : Before(j, k)
      BY <2>2, <2>5
    <3>2. k \in 1..n /\ size(k) \in Nat /\ size(n + 1) \in Nat
      BY <1>1, <2>1, <2>5
    <3>3. \A j \in G : j = n + 1 \/ (j \in H /\ j \in 1..n /\ size(j) \in Nat)
      BY <1>1, <2>1
    <3>4. CASE size(k) <= size(n + 1)
      <4>1. ASSUME NEW j \in G
            PROVE  Before(j, n + 1)
        <5>1. CASE j = n + 1
          BY <5>1
        <5>2. CASE j \in H
          <6>1. Before(j, k) /\ j \in 1..n /\ size(j) \in Nat
            BY <1>1, <2>1, <3>1, <5>2
          <6> QED
            BY <3>2, <3>4, <6>1
        <5> QED
          BY <5>1, <5>2
      <4> HIDE DEF Before
      <4> QED
        BY <2>5, <4>1
    <3>5. CASE ~ (size(k) <= size(n + 1))
      <4>1. ASSUME NEW j \in G
            PROVE  Before(j, k)
        <5>1. CASE j = n + 1
          BY <3>2, <3>5, <5>1
        <5>2. CASE j \in H
          BY <3>1, <5>2
        <5> QED
          BY <5>1, <5>2
      <4>2. k \in G
        OBVIOUS
      <4> HIDE DEF Before
      <4> QED
        BY <4>1, <4>2
    <3> QED
      BY <3>4, <3>5
  <2> QED
    BY <2>3, <2>4, <2>5
<1>4. HasLast(F)
  <2>1. c \in T
    <3> HIDE DEF T
    <3> QED
      BY <1>1, <1>2, <1>3, SetInduction
  <2>2. F \in SUBSET (1..c) /\ F \subseteq 1..c
    BY <1>1
  <2> HIDE DEF HasLast
  <2> QED
    BY <2>1, <2>2
<1>5. PICK k \in F : \A j \in F : Before(j, k)
  BY <1>4
<1>6. \A m : m \in Biggest(x, F) <=> m \in F /\ \A j \in F : Before(j, m)
  BY DEF Biggest, size
<1>7. ASSUME NEW m \in F, Before(k, m), Before(m, k)
      PROVE  m = k
  <2>1. m \in Nat /\ k \in Nat /\ size(m) \in Nat /\ size(k) \in Nat
    BY <1>1
  <2> QED
    BY <1>7, <2>1
<1> HIDE DEF Before
<1>8. \A m : m \in Biggest(x, F) <=> m = k
  BY <1>5, <1>6, <1>7
<1> QED
  BY <1>8

\* What has something below it is a folder.
LEMMA PrefixesAreFolders ==
  ASSUME NEW x \in Library, NEW k \in DOMAIN x.descendants, NEW f \in DOMAIN x.descendants,
         IsPrefix(x.descendants[k].path, x.descendants[f].path), k # f
  PROVE  x.descendants[k].coll
<1> DEFINE D == DOMAIN x.descendants
           path(j) == x.descendants[j].path
           coll(j) == x.descendants[j].coll
           T == {n \in Nat : \A g \in D : Len(path(g)) = n /\ IsPrefix(path(k), path(g)) /\ k # g
                               => coll(k)}
<1>1. /\ \A j \in D : path(j) \in Seq(STRING) /\ path(j) # Root
      /\ \A i, j \in D : path(i) = path(j) => i = j
      /\ k \in D /\ f \in D
  BY ItemFacts
<1>2. \A j \in D : Len(path(j)) > 1 => \E i \in D : path(i) = Parent(path(j)) /\ coll(i)
  BY LibraryAssumption
<1> HIDE DEF D, path, coll
<1>3. 0 \in T
  <2>1. \A j \in D : Len(path(j)) # 0
    BY <1>1 DEF Root
  <2> QED
    BY <2>1
<1>4. ASSUME NEW n \in Nat, n \in T
      PROVE  n + 1 \in T
  <2> SUFFICES ASSUME NEW g \in D, Len(path(g)) = n + 1, IsPrefix(path(k), path(g)), k # g
               PROVE  coll(k)
    OBVIOUS
  <2> DEFINE p == path(g)
             q == path(k)
  <2>1. /\ p \in Seq(STRING) /\ q \in Seq(STRING) /\ p # Root /\ q # Root /\ q # p
        /\ IsPrefix(q, p) /\ Len(p) = n + 1
    BY <1>1
  <2> HIDE DEF p, q
  <2>2. IsPrefix(q, Parent(p)) /\ Parent(p) \in Seq(STRING) /\ Len(Parent(p)) = n
    <3>1. Parent(p) = Front(p)
      BY DEF Parent, Front
    <3> QED
      BY <2>1, <3>1, PrefixOfFront, FrontIs DEF Root
  <2>3. Len(q) <= n /\ Len(q) \in Nat /\ Len(q) # 0
    <3>1. Len(q) <= Len(Parent(p))
      BY <2>1, <2>2, PrefixIs
    <3> QED
      BY <2>1, <2>2, <3>1 DEF Root
  <2>4. PICK i \in D : path(i) = Parent(p) /\ coll(i)
    BY <1>2, <2>1, <2>3 DEF p
  <2>5. CASE i = k
    BY <2>4, <2>5
  <2>6. CASE i # k
    <3>1. Len(path(i)) = n /\ IsPrefix(path(k), path(i)) /\ k # i
      BY <2>2, <2>4, <2>6 DEF q
    <3> QED
      BY <1>4, <3>1
  <2> QED
    BY <2>5, <2>6
<1>5. Len(path(f)) \in T
  <2>1. Len(path(f)) \in Nat
    BY <1>1
  <2> HIDE DEF T
  <2> QED
    BY <1>3, <1>4, <2>1, SetInduction
<1>6. coll(k)
  <2>1. IsPrefix(path(k), path(f))
    BY DEF path
  <2> QED
    BY <1>1, <1>5, <2>1
<1> QED
  BY <1>6 DEF coll

\* The files selected are the visible ones.
LEMMA FilesSelected ==
  ASSUME NEW d, NEW x \in Library
  PROVE  /\ VisibleFiles(d, x) \subseteq Files(x)
         /\ {k \in Selected(d, x) : ~x.descendants[k].coll} = VisibleFiles(d, x)
<1>1. VisibleFiles(d, x) \subseteq Files(x)
  BY DEF VisibleFiles, Biggest
<1>2. ASSUME NEW k \in VisibleFiles(d, x)
      PROVE  k \in Selected(d, x) /\ ~x.descendants[k].coll
  <2>1. k \in DOMAIN x.descendants /\ ~x.descendants[k].coll
    BY <1>1 DEF Files
  <2>2. x.descendants[k].path \in Seq(STRING)
    BY <2>1, ItemFacts
  <2>3. IsPrefix(x.descendants[k].path, x.descendants[k].path)
    BY <2>2, PrefixReflexive
  <2> QED
    BY <2>1, <2>3 DEF Selected
<1>3. ASSUME NEW k \in Selected(d, x), ~x.descendants[k].coll
      PROVE  k \in VisibleFiles(d, x)
  <2>1. PICK f \in VisibleFiles(d, x) : IsPrefix(x.descendants[k].path, x.descendants[f].path)
    BY DEF Selected
  <2>2. k \in DOMAIN x.descendants /\ f \in DOMAIN x.descendants
    BY <1>1 DEF Selected, Files
  <2>3. k = f
    BY <1>3, <2>1, <2>2, PrefixesAreFolders
  <2> QED
    BY <2>3
<1> QED
  BY <1>1, <1>2, <1>3

\* As many as there are indices.
LEMMA CountedBy ==
  ASSUME NEW S, IsFiniteSet(S), NEW f, DOMAIN f = S, f = [k \in S |-> f[k]],
         \A j, k \in S : f[j] = f[k] => j = k,
         NEW T, T = {f[k] : k \in S}
  PROVE  Cardinality(T) = Cardinality(S)
<1>1. f \in [S -> T]
  OBVIOUS
<1>2. f \in Bijection(S, T)
  BY <1>1 DEF Bijection, Injection, Surjection, IsInjective
<1> QED
  BY <1>2, FS_Bijection DEF ExistsBijection

\* The entries below an alias of a folder.
BelowOf(top, x) == {p \in Aliases(tree, x.id) : Len(p) > 2 /\ SubSeq(p, 1, 2) = top}

\* The paths of the entries selected for an alias.
Entries(x, d, N) == [k \in Selected(d, x) |-> At(<<d, x>>, N, x.descendants[k].path)]

\* The entries below the alias top are E: those selected, in their places.
FolderIs(x, d, E, top) ==
  /\ BelowOf(top, x) = {E[k] : k \in Selected(d, x)}
  /\ \A k \in Selected(d, x) :
       /\ tree.resources[E[k]] = [root |-> x.id, below |-> x.descendants[k].path,
                                  coll |-> x.descendants[k].coll,
                                  size |-> x.descendants[k].size]
       /\ E[k] = top \o x.descendants[k].path
  /\ \A j, k \in Selected(d, x) :
       /\ E[j] = E[k] => j = k
       /\ IsPrefix(x.descendants[j].path, x.descendants[k].path) => IsPrefix(E[j], E[k])

LEMMA FolderShows ==
  ASSUME CInv, NEW N, Named(N), NEW x \in Present, NEW d \in Directories,
         <<d, x>> \in Placements(Present)
  PROVE  FolderIs(x, d, Entries(x, d, N), At(<<d, x>>, N, Root))
<1> SUFFICES ASSUME NEW a, a = <<d, x>>, a \in Placements(Present),
                    NEW E, E = [k \in Selected(d, x) |-> At(a, N, x.descendants[k].path)],
                    NEW top, top = At(a, N, Root)
             PROVE  FolderIs(x, d, E, top)
  BY DEF Entries
<1> DEFINE A == Placements(Present)
           K == Selected(d, x)
           path(k) == x.descendants[k].path
<1>1. x \in Library /\ Naming(A, N) /\ ShowsAll(tree.resources, A, N)
  BY PresentIs DEF CInv, Named, TreeOf
<1>2. Below(a) = {Root} \cup {path(k) : k \in K}
  BY DEF Below
<1>3. \A k \in K : k \in DOMAIN x.descendants
  BY DEF Selected
<1>4. \A k \in K : path(k) # Root /\ path(k) \in Below(a)
  BY <1>1, <1>2, <1>3, ItemFacts
<1>5. \A k \in K : E[k] = At(a, N, path(k))
  OBVIOUS
<1>6. ASSUME NEW q \in Below(a)
      PROVE  /\ At(a, N, q) \in Seq(Segments) /\ q \in Seq(Segments)
             /\ Len(q) \in Nat /\ Len(At(a, N, q)) = 2 + Len(q)
             /\ SubSeq(At(a, N, q), 1, 2) = top
             /\ At(a, N, q) = top \o q
  <2>1. ASSUME NEW b \in A, NEW r \in Below(b)
        PROVE  /\ At(b, N, r) \in Seq(Segments) /\ r \in Seq(Segments)
               /\ Len(r) \in Nat /\ Len(At(b, N, r)) = 2 + Len(r)
               /\ SubSeq(At(b, N, r), 1, 2) = At(b, N, Root)
               /\ At(b, N, r) = At(b, N, Root) \o r
    BY <1>1, AtIs
  <2>2. a \in A
    OBVIOUS
  <2> HIDE DEF A, K, path
  <2> QED
    BY <2>1, <2>2
<1>7. ASSUME NEW k \in K
      PROVE  /\ tree.resources[E[k]] = [root |-> x.id, below |-> path(k),
                                        coll |-> x.descendants[k].coll,
                                        size |-> x.descendants[k].size]
             /\ E[k] = top \o path(k)
  <2>1. tree.resources[At(a, N, path(k))] = Shows(a[2], path(k))
    <3> DEFINE q == path(k)
    <3>1. q \in Below(a) /\ a \in A
      BY <1>4
    <3> HIDE DEF q, A
    <3>2. tree.resources[At(a, N, q)] = Shows(a[2], q)
      BY <1>1, <3>1 DEF ShowsAll
    <3> QED
      BY <3>2 DEF q
  <2>2. a[2] = x
    OBVIOUS
  <2>3. Shows(x, path(k)) = [root |-> x.id, below |-> path(k),
                             coll |-> x.descendants[k].coll,
                             size |-> x.descendants[k].size]
    BY <1>1, <1>3, ShowsEntry
  <2>4. At(a, N, path(k)) = top \o path(k)
    BY <1>4, <1>6
  <2> QED
    BY <1>5, <2>1, <2>2, <2>3, <2>4
<1>8. ASSUME NEW j \in K, NEW k \in K, E[j] = E[k]
      PROVE  j = k
  <2> DEFINE c == Clean[d.name]
             n == N[a]
             q == path(j)
             r == path(k)
  <2>1. c \in Segments /\ n \in Segments /\ q \in Seq(Segments) /\ r \in Seq(Segments)
    <3>1. n \in {Clean[a[2].name], Digested(Clean[a[2].name], a[2].id)} /\ a[2] = x
      BY <1>1 DEF Naming
    <3>2. c \in Segments /\ n \in Segments
      BY <1>1, <3>1 DEF Segments
    <3> QED
      BY <1>4, <1>6, <3>2
  <2>2. a[1] = d
    OBVIOUS
  <2>3. Join(c, n, q) = Join(c, n, r)
    BY <1>5, <1>8, <2>2 DEF At
  <2>4. q = r
    <3> HIDE DEF c, n, q, r
    <3> QED
      BY <2>1, <2>3, JoinedOnce
  <2> QED
    BY <1>1, <1>3, <2>4, ItemFacts
<1>9. ASSUME NEW j \in K, NEW k \in K, IsPrefix(path(j), path(k))
      PROVE  IsPrefix(E[j], E[k])
  <2> DEFINE c == Clean[d.name]
             n == N[a]
             q == path(j)
             r == path(k)
  <2>1. c \in Segments /\ n \in Segments /\ q \in Seq(Segments) /\ r \in Seq(Segments)
    <3>1. n \in {Clean[a[2].name], Digested(Clean[a[2].name], a[2].id)} /\ a[2] = x
      BY <1>1 DEF Naming
    <3>2. c \in Segments /\ n \in Segments
      BY <1>1, <3>1 DEF Segments
    <3> QED
      BY <1>4, <1>6, <3>2
  <2>2. E[j] = Join(c, n, q) /\ E[k] = Join(c, n, r)
    BY <1>5 DEF At
  <2>3. IsPrefix(q, r)
    BY <1>9
  <2> HIDE DEF c, n, q, r
  <2>4. Len(q) <= Len(r) /\ \A m \in 1..Len(q) : q[m] = r[m]
    BY <2>1, <2>3, PrefixIs
  <2> DEFINE u == Join(c, n, q)
             v == Join(c, n, r)
  <2>5. /\ u \in Seq(Segments) /\ Len(u) = 2 + Len(q) /\ Len(q) \in Nat
        /\ u[1] = c /\ u[2] = n /\ \A m \in 1..Len(q) : u[m + 2] = q[m]
    BY <2>1, Joined
  <2>6. /\ v \in Seq(Segments) /\ Len(v) = 2 + Len(r) /\ Len(r) \in Nat
        /\ v[1] = c /\ v[2] = n /\ \A m \in 1..Len(r) : v[m + 2] = r[m]
    BY <2>1, Joined
  <2> HIDE DEF u, v
  <2>7. ASSUME NEW m \in 1..Len(u)
        PROVE  u[m] = v[m]
    <3>1. CASE m = 1 \/ m = 2
      BY <2>5, <2>6, <3>1
    <3>2. CASE m # 1 /\ m # 2
      <4>1. m - 2 \in 1..Len(q) /\ m - 2 \in 1..Len(r) /\ (m - 2) + 2 = m
        BY <2>4, <2>5, <2>6, <3>2
      <4>2. u[m] = q[m - 2] /\ v[m] = r[m - 2]
        BY <2>5, <2>6, <4>1
      <4> QED
        BY <2>4, <4>1, <4>2
    <3> QED
      BY <3>1, <3>2
  <2>8. Len(u) <= Len(v)
    BY <2>4, <2>5, <2>6
  <2>9. IsPrefix(u, v)
    BY <2>5, <2>6, <2>7, <2>8, PrefixIs
  <2> QED
    BY <2>2, <2>9 DEF u, v
<1>10. ASSUME NEW p
       PROVE  p \in BelowOf(top, x) <=> \E k \in K : p = E[k]
  <2>1. p \in BelowOf(top, x) <=> ShownAt(N, x, p) /\ Len(p) > 2 /\ SubSeq(p, 1, 2) = top
    <3>1. p \in Aliases(tree, x.id) <=> ShownAt(N, x, p)
      BY AliasesOf
    <3> QED
      BY <3>1 DEF BelowOf
  <2>2. ASSUME p \in BelowOf(top, x)
        PROVE  \E k \in K : p = E[k]
    <3>1. PICK e \in Directories :
            <<e, x>> \in A /\ \E q \in Below(<<e, x>>) : p = At(<<e, x>>, N, q)
      BY <2>1, <2>2 DEF ShownAt
    <3>2. PICK q \in Below(<<e, x>>) : p = At(<<e, x>>, N, q)
      BY <3>1
    <3> DEFINE b == <<e, x>>
    <3>3. /\ Len(q) \in Nat /\ Len(p) = 2 + Len(q)
          /\ SubSeq(p, 1, 2) = At(b, N, Root)
      BY <1>1, <3>1, <3>2, AtIs
    <3>4. e = d
      <4>1. At(b, N, Root)[1] = Clean[b[1].name]
        <5>1. Root \in Below(b) /\ b \in A
          BY <3>1 DEF Below
        <5> HIDE DEF b
        <5> QED
          BY <1>1, <5>1, AtIs
      <4>2. top[1] = Clean[a[1].name]
        <5>1. Root \in Below(a) /\ a \in A
          BY DEF Below
        <5> QED
          BY <1>1, <5>1, AtIs
      <4>3. b[1] = e /\ a[1] = d
        OBVIOUS
      <4>4. Clean[e.name] = Clean[d.name]
        BY <2>1, <2>2, <3>3, <4>1, <4>2, <4>3
      <4> QED
        BY <4>4, ConfigAssumption DEF Compiles
    <3>5. q # Root
      <4>1. Len(Root) = 0
        BY DEF Root
      <4> QED
        BY <2>1, <2>2, <3>3, <4>1
    <3>6. PICK k \in K : q = path(k)
      BY <1>2, <3>2, <3>4, <3>5
    <3> QED
      BY <1>5, <3>2, <3>4, <3>6
  <2>3. ASSUME NEW k \in K, p = E[k]
        PROVE  p \in BelowOf(top, x)
    <3> DEFINE q == path(k)
    <3>1. q \in Below(a) /\ q # Root /\ p = At(a, N, q)
      BY <1>4, <1>5, <2>3
    <3> HIDE DEF q
    <3>2. /\ Len(q) \in Nat /\ Len(p) = 2 + Len(q) /\ SubSeq(p, 1, 2) = top
          /\ q \in Seq(Segments)
      BY <1>6, <3>1
    <3>3. Len(q) # 0
      BY <3>1, <3>2 DEF Root
    <3>4. ShownAt(N, x, p)
      BY <3>1 DEF ShownAt
    <3> QED
      BY <2>1, <3>2, <3>3, <3>4
  <2> QED
    BY <2>2, <2>3
<1>11. BelowOf(top, x) = {E[k] : k \in K}
  <2> HIDE DEF K
  <2> QED
    BY <1>10
<1> QED
  BY <1>7, <1>8, <1>9, <1>11 DEF FolderIs

\* A folder shows the files within the size limits of the directory, or the
\* last of the biggest of them, and the folders they are in.
THEOREM FoldersShowSelected == Spec => []ShowsSelectedFiles
<1>1. CInv => ShowsSelectedFiles
  <2> SUFFICES ASSUME CInv, NEW x \in Present, NEW d \in Directories,
                      NEW top \in Tops(d, x), x.coll
               PROVE  LET below == BelowOf(top, x)
                          files == {p \in below : ~tree.resources[p].coll}
                          fits == {x.descendants[k] : k \in {j \in DOMAIN x.descendants :
                                     /\ ~x.descendants[j].coll
                                     /\ x.descendants[j].size \in d.gte..d.lte}}
                          Source(p) == CHOOSE r \in fits : r.path = tree.resources[p].below
                      IN /\ \A p \in files : /\ tree.resources[p].below \in {r.path : r \in fits}
                                             /\ p = top \o tree.resources[p].below
                                             /\ tree.resources[p].size = Source(p).size
                         /\ IF d.biggest
                            THEN /\ fits # {} => Cardinality(files) = 1
                                 /\ \A p \in files : \A r \in fits : r.size <= Source(p).size
                            ELSE Cardinality(files) = Cardinality(fits)
                         /\ \A p \in below \ files : \E f \in files : IsPrefix(p, f)
    BY DEF ShowsSelectedFiles, BelowOf
  <2> DEFINE s == x.descendants
             K == Selected(d, x)
             F == {j \in DOMAIN s : ~s[j].coll /\ s[j].size \in d.gte..d.lte}
             V == VisibleFiles(d, x)
             below == BelowOf(top, x)
             files == {p \in below : ~tree.resources[p].coll}
             fits == {s[k] : k \in F}
             Source(p) == CHOOSE r \in fits : r.path = tree.resources[p].below
             a == <<d, x>>
  <2>1. /\ x \in Library /\ DOMAIN s = 1..Len(s) /\ Len(s) \in Nat
        /\ \A j \in DOMAIN s : s[j].size \in Nat
        /\ \A j, k \in DOMAIN s : s[j].path = s[k].path => j = k
    BY PresentIs, ItemFacts DEF CInv
  <2>2. tree # EmptyTree
    <3>1. \A p : p \in Aliases(EmptyTree, x.id) => FALSE
      BY <2>1, ItemFacts, NoneAssumption DEF Aliases, EmptyTree, Directory
    <3> QED
      BY <3>1 DEF Tops
  <2>3. PICK N : Named(N)
    BY <2>2 DEF CInv, Displays, Named
  <2>4. a \in Placements(Present) /\ top = At(a, N, Root)
    BY <2>3, TopsAre
  <2> DEFINE E == Entries(x, d, N)
  <2>5. /\ below = {E[k] : k \in K}
        /\ \A k \in K :
             /\ tree.resources[E[k]] = [root |-> x.id, below |-> s[k].path,
                                        coll |-> s[k].coll, size |-> s[k].size]
             /\ E[k] = top \o s[k].path
        /\ \A j, k \in K : /\ E[j] = E[k] => j = k
                           /\ IsPrefix(s[j].path, s[k].path) => IsPrefix(E[j], E[k])
    <3>1. FolderIs(x, d, E, top)
      BY <2>3, <2>4, FolderShows
    <3> HIDE DEF E
    <3> QED
      BY <3>1 DEF FolderIs
  <2> HIDE DEF E
  <2>6. ASSUME NEW k \in K
        PROVE  /\ tree.resources[E[k]].below = s[k].path
               /\ tree.resources[E[k]].coll = s[k].coll
               /\ tree.resources[E[k]].size = s[k].size
    <3>1. tree.resources[E[k]] = [root |-> x.id, below |-> s[k].path,
                                  coll |-> s[k].coll, size |-> s[k].size]
      BY <2>5
    <3> HIDE DEF s, K
    <3> QED
      BY <3>1
  <2>7. {k \in K : ~s[k].coll} = V /\ V \subseteq Files(x)
    BY <2>1, FilesSelected
  <2>8. F \subseteq DOMAIN s /\ V = IF d.biggest THEN Biggest(x, F) ELSE F
    <3>1. d.gte \in Nat /\ d.lte \in Nat
      BY ConfigAssumption
    <3>2. \A j \in DOMAIN s : s[j].size \in d.gte..d.lte <=> Fits(d, s[j])
      BY <2>1, <3>1 DEF Fits
    <3>3. F = {k \in Files(x) : Fits(d, x.descendants[k])}
      BY <3>2 DEF Files
    <3> QED
      BY <3>3 DEF VisibleFiles
  <2>9. V \subseteq F /\ V \subseteq K
    BY <2>7, <2>8 DEF Biggest
  <2> HIDE DEF F, V, K, below, s
  <2>10. files = {E[k] : k \in V}
    BY <2>5, <2>6, <2>7
  <2>11. ASSUME NEW k \in V
         PROVE  /\ s[k] \in fits /\ tree.resources[E[k]].below = s[k].path
                /\ Source(E[k]) = s[k]
    <3>1. s[k] \in fits /\ tree.resources[E[k]].below = s[k].path
      BY <2>6, <2>9
    <3>2. \A r \in fits : r.path = s[k].path => r = s[k]
      BY <2>1, <2>8, <2>9
    <3> HIDE DEF fits
    <3> QED
      BY <3>1, <3>2
  <2>12. ASSUME NEW p \in files
         PROVE  /\ tree.resources[p].below \in {r.path : r \in fits}
                /\ p = top \o tree.resources[p].below
                /\ tree.resources[p].size = Source(p).size
    <3>1. PICK k \in V : p = E[k]
      BY <2>10
    <3> HIDE DEF fits, files, Source
    <3> QED
      BY <2>5, <2>6, <2>9, <2>11, <3>1
  <2>13. ASSUME d.biggest
         PROVE  /\ fits # {} => Cardinality(files) = 1
                /\ \A p \in files : \A r \in fits : r.size <= Source(p).size
    <3>1. CASE F = {}
      <4>1. fits = {}
        BY <3>1
      <4> HIDE DEF fits
      <4> QED
        BY <4>1
    <3>2. CASE F # {}
      <4>1. PICK k \in F : V = {k}
        <5>1. F \in SUBSET DOMAIN x.descendants
          BY <2>8 DEF s
        <5> QED
          BY <2>1, <2>8, <2>13, <3>2, <5>1, OneBiggest
      <4>2. files = {E[k]}
        <5> HIDE DEF files
        <5> QED
          BY <2>10, <4>1
      <4>3. \A j \in F : s[j].size <= s[k].size
        <5>1. k \in Biggest(x, F)
          BY <2>8, <2>13, <4>1
        <5>2. \A j \in F : s[j].size < s[k].size \/ s[j].size = s[k].size
          BY <5>1 DEF Biggest, s
        <5>3. \A j \in F : s[j].size \in Nat
          BY <2>1, <2>8
        <5> QED
          BY <5>2, <5>3, <4>1
      <4>4. \A r \in fits : r.size <= Source(E[k]).size
        <5>1. Source(E[k]) = s[k]
          BY <2>11, <4>1
        <5> HIDE DEF Source
        <5> QED
          BY <4>3, <5>1
      <4>5. Cardinality(files) = 1
        BY <4>2, FS_Singleton
      <4> HIDE DEF files, fits, Source
      <4> QED
        BY <4>2, <4>4, <4>5
    <3> QED
      BY <3>1, <3>2
  <2>14. ASSUME ~d.biggest
         PROVE  Cardinality(files) = Cardinality(fits)
    <3>1. V = F /\ IsFiniteSet(F)
      <4>1. IsFiniteSet(1..Len(s))
        BY <2>1, FS_Interval
      <4> QED
        BY <2>1, <2>8, <2>14, <4>1, FS_Subset
    <3>2. Cardinality(files) = Cardinality(F)
      <4> DEFINE f == [k \in F |-> E[k]]
      <4>1. /\ DOMAIN f = F /\ f = [k \in F |-> f[k]]
            /\ \A j, k \in F : f[j] = f[k] => j = k
        BY <2>5, <2>9, <3>1
      <4>2. files = {f[k] : k \in F}
        <5> HIDE DEF files
        <5> QED
          BY <2>10, <3>1
      <4> HIDE DEF f, files
      <4> QED
        BY <3>1, <4>1, <4>2, CountedBy
    <3>3. Cardinality(fits) = Cardinality(F)
      <4> DEFINE f == [k \in F |-> s[k]]
      <4>1. /\ DOMAIN f = F /\ f = [k \in F |-> f[k]]
            /\ \A j, k \in F : f[j] = f[k] => j = k
        BY <2>1, <2>8
      <4>2. fits = {f[k] : k \in F}
        OBVIOUS
      <4> HIDE DEF f, fits
      <4> QED
        BY <3>1, <4>1, <4>2, CountedBy
    <3> QED
      BY <3>2, <3>3
  <2>15. ASSUME NEW p \in below \ files
         PROVE  \E f \in files : IsPrefix(p, f)
    <3>1. PICK k \in K : p = E[k]
      BY <2>5
    <3>2. PICK f \in V : IsPrefix(s[k].path, s[f].path)
      BY <3>1 DEF K, V, Selected, s
    <3>3. IsPrefix(E[k], E[f]) /\ E[f] \in files
      BY <2>5, <2>9, <2>10, <3>2
    <3> HIDE DEF files
    <3> QED
      BY <3>1, <3>3
  <2> HIDE DEF files, fits, Source
  <2>16. /\ \A p \in files : /\ tree.resources[p].below \in {r.path : r \in fits}
                             /\ p = top \o tree.resources[p].below
                             /\ tree.resources[p].size = Source(p).size
         /\ IF d.biggest
            THEN /\ fits # {} => Cardinality(files) = 1
                 /\ \A p \in files : \A r \in fits : r.size <= Source(p).size
            ELSE Cardinality(files) = Cardinality(fits)
         /\ \A p \in below \ files : \E f \in files : IsPrefix(p, f)
    BY <2>12, <2>13, <2>14, <2>15
  <2> QED
    BY <2>16 DEF files, fits, Source, below, F, s
<1> QED
  BY <1>1, ClassifierInvariant, PTL

-----------------------------------------------------------------------------
(* What the update command is told.                                        *)

\* A tree whose lists are those of its resources, and whose root lists none but
\* the categories.
Regular(t) ==
  /\ t.children = ListsOf(t.resources)
  /\ DOMAIN t.resources \subseteq Seq(Segments)
  /\ Listed(t, Root) \subseteq {CategoryPath(d) : d \in Directories}

LEMMA TreeRegular ==
  ASSUME NEW t, NEW A, NEW N, TreeOf(t, A, N), Naming(A, N)
  PROVE  Regular(t) /\ Listed(t, Root) = {CategoryPath(d) : d \in Directories}
<1> DEFINE r == t.resources
           cats == {CategoryPath(d) : d \in Directories}
<1>1. ShowsAll(r, A, N) /\ t.children = ListsOf(r)
  BY DEF TreeOf
<1> HIDE DEF r
<1>2. /\ Root \in DOMAIN r /\ r[Root].coll = TRUE
      /\ \A d \in Directories : CategoryPath(d) \in DOMAIN r
  <2>1. r[Root] = Directory
    BY <1>1 DEF ShowsAll
  <2> QED
    BY <1>1, <2>1, TreeHangs DEF ShowsAll, Directory
<1>3. ASSUME NEW d \in Directories
      PROVE  /\ CategoryPath(d) \in Seq(Segments) /\ CategoryPath(d) # Root
             /\ Parent(CategoryPath(d)) = Root
  <2> DEFINE c == Clean[d.name]
  <2>1. c \in Segments
    BY DEF Segments
  <2> HIDE DEF c
  <2>2. <<c>> \in Seq(Segments) /\ <<c>> # <<>>
    BY <2>1
  <2>3. Parent(<<c>>) = Root
    BY <2>1, JoinedParent
  <2> QED
    BY <2>2, <2>3 DEF CategoryPath, Root, c
<1>4. ASSUME NEW a \in A, NEW q \in Below(a)
      PROVE  At(a, N, q) \in Seq(Segments) /\ Parent(At(a, N, q)) # Root
  <2>1. a \in Directories \X Library
        /\ N[a] \in {Clean[a[2].name], Digested(Clean[a[2].name], a[2].id)}
    BY DEF Naming
  <2>2. q # Root => Parent(q) \in Below(a)
    <3> DEFINE d == a[1]
               x == a[2]
    <3>1. d \in Directories /\ x \in Library /\ a = <<d, x>>
      BY <2>1
    <3> HIDE DEF d, x
    <3> QED
      BY <3>1, BelowHangs
  <2>3. Parent(At(a, N, q)) = IF q = Root THEN CategoryPath(a[1]) ELSE At(a, N, Parent(q))
    BY <2>1, EntryPlace
  <2>4. CategoryPath(a[1]) # Root
    BY DEF CategoryPath, Root
  <2>5. q # Root => At(a, N, Parent(q)) # Root
    BY <2>1, <2>2, EntryPlace
  <2> QED
    BY <2>3, <2>4, <2>5, AtIs
<1>5. ASSUME NEW p \in DOMAIN r
      PROVE  /\ p \in Seq(Segments)
             /\ p # Root /\ Parent(p) = Root => p \in cats
  <2>1. \/ p = Root
        \/ \E d \in Directories : p = CategoryPath(d)
        \/ \E a \in A : \E q \in Below(a) : p = At(a, N, q)
    BY <1>1, EntriesListed
  <2>2. <<>> \in Seq(Segments)
    OBVIOUS
  <2>3. CASE p = Root
    BY <2>2, <2>3 DEF Root
  <2>4. CASE \E d \in Directories : p = CategoryPath(d)
    BY <1>3, <2>4
  <2>5. CASE \E a \in A : \E q \in Below(a) : p = At(a, N, q)
    BY <1>4, <2>5
  <2> QED
    BY <2>1, <2>3, <2>4, <2>5
<1>6. Listed(t, Root) = {q \in DOMAIN r \ {Root} : Parent(q) = Root}
  BY <1>1, <1>2 DEF ListsOf, Listed
<1>7. Listed(t, Root) = cats
  BY <1>2, <1>3, <1>5, <1>6
<1> QED
  BY <1>1, <1>5, <1>7 DEF Regular, r

\* Below a category all paths begin alike.
LEMMA UnderIs ==
  ASSUME NEW t, Regular(t), NEW d \in Directories
  PROVE  LET c == CategoryPath(d) IN
         /\ Under(t, c) = {p \in DOMAIN t.resources : IsPrefix(c, p)}
         /\ \A p \in DOMAIN t.resources : p # Root /\ IsPrefix(c, Parent(p)) => IsPrefix(c, p)
<1> DEFINE n == Clean[d.name]
           r == t.resources
           S == Segments
<1>1. n \in S /\ DOMAIN r \subseteq Seq(S)
  BY DEF Segments, Regular
<1> HIDE DEF n, r, S
<1>2. <<n>> \in Seq(S) /\ Len(<<n>>) = 1 /\ <<n>>[1] = n
  BY <1>1
<1>3. ASSUME NEW p \in DOMAIN r
      PROVE  IsPrefix(<<n>>, p) <=> p # Root /\ <<p[1]>> = <<n>>
  <2>1. p \in Seq(S) /\ (p # <<>> <=> 1 <= Len(p)) /\ Len(p) \in Nat
    BY <1>1
  <2> DEFINE c == <<n>>
  <2>2. c \in Seq(S) /\ Len(c) = 1 /\ c[1] = n
    BY <1>2
  <2> HIDE DEF c
  <2>3. IsPrefix(c, p) <=> Len(c) <= Len(p) /\ \A k \in 1..Len(c) : c[k] = p[k]
    BY <2>1, <2>2, PrefixIs
  <2>4. IsPrefix(c, p) <=> 1 <= Len(p) /\ n = p[1]
    BY <2>2, <2>3
  <2> QED
    BY <2>1, <2>4 DEF Root, c
<1>4. ASSUME NEW p \in DOMAIN r, p # Root, IsPrefix(<<n>>, Parent(p))
      PROVE  IsPrefix(<<n>>, p)
  <2>1. p \in Seq(S) /\ Parent(p) = Front(p)
    BY <1>1 DEF Parent, Front
  <2> QED
    BY <1>2, <1>4, <2>1, PrefixOfFront DEF Root
<1>5. Under(t, <<n>>) = {p \in DOMAIN r : IsPrefix(<<n>>, p)}
  BY <1>3 DEF Under, r
<1> QED
  BY <1>4, <1>5 DEF CategoryPath, n, r

\* What is told of a category is whether its view differs.
LEMMA ChangesSeen ==
  ASSUME NEW t, NEW u, Regular(t), Regular(u), NEW d \in Directories
  PROVE  LET c == CategoryPath(d) IN
           View(t, c) = View(u, c) <=>
             /\ \A p \in Under(t, c) :
                  p \in DOMAIN u.resources /\ u.resources[p] = t.resources[p]
             /\ \A p \in Under(u, c) :
                  p \in DOMAIN t.resources /\ t.resources[p] = u.resources[p]
<1> DEFINE c == CategoryPath(d)
           r == t.resources
           s == u.resources
           P == Under(t, c)
           Q == Under(u, c)
           Lists(f, X) == [p \in {p \in X : f[p].coll} |->
                             {q \in X : q # Root /\ Parent(q) = p}]
<1>1. /\ P = {p \in DOMAIN r : IsPrefix(c, p)}
      /\ Q = {p \in DOMAIN s : IsPrefix(c, p)}
      /\ \A p \in DOMAIN r : p # Root /\ IsPrefix(c, Parent(p)) => IsPrefix(c, p)
      /\ \A p \in DOMAIN s : p # Root /\ IsPrefix(c, Parent(p)) => IsPrefix(c, p)
  BY UnderIs
<1>2. t.children = ListsOf(r) /\ u.children = ListsOf(s)
  BY DEF Regular
<1> HIDE DEF c, r, s, P, Q
<1>3. /\ Restrict(ListsOf(r), {p \in DOMAIN ListsOf(r) : IsPrefix(c, p)}) = Lists(r, P)
      /\ Restrict(ListsOf(s), {p \in DOMAIN ListsOf(s) : IsPrefix(c, p)}) = Lists(s, Q)
  BY <1>1 DEF Restrict, ListsOf
<1>4. /\ View(t, c) = [entries |-> [p \in P |-> r[p]], lists |-> Lists(r, P)]
      /\ View(u, c) = [entries |-> [p \in Q |-> s[p]], lists |-> Lists(s, Q)]
  BY <1>1, <1>2, <1>3 DEF View, Restrict, r, s
<1> DEFINE Same == /\ \A p \in P : p \in DOMAIN s /\ s[p] = r[p]
                   /\ \A p \in Q : p \in DOMAIN r /\ r[p] = s[p]
<1>5. ASSUME [p \in P |-> r[p]] = [p \in Q |-> s[p]]
      PROVE  Same
  <2>1. P = DOMAIN [p \in P |-> r[p]] /\ Q = DOMAIN [p \in Q |-> s[p]]
    OBVIOUS
  <2>2. P = Q
    BY <1>5, <2>1
  <2>3. \A p \in P : r[p] = [q \in P |-> r[q]][p] /\ s[p] = [q \in Q |-> s[q]][p]
    BY <2>2
  <2> QED
    BY <1>1, <1>5, <2>2, <2>3
<1>6. ASSUME Same
      PROVE  P = Q /\ \A p \in P : r[p] = s[p]
  BY <1>1, <1>6
<1>7. ASSUME P = Q, \A p \in P : r[p] = s[p]
      PROVE  [p \in P |-> r[p]] = [p \in Q |-> s[p]] /\ Lists(r, P) = Lists(s, Q)
  BY <1>7
<1> HIDE DEF Lists, Same
<1>8. View(t, c) = View(u, c) <=> Same
  <2>1. View(t, c) = View(u, c) => [p \in P |-> r[p]] = [p \in Q |-> s[p]]
    BY <1>4
  <2>2. Same => View(t, c) = View(u, c)
    BY <1>4, <1>6, <1>7
  <2> QED
    BY <1>5, <2>1, <2>2
<1> QED
  BY <1>8 DEF Same, P, Q, r, s, c

TreeIsRegular == Regular(tree)

\* A refresh tells the update command exactly the directories in which clients
\* find something else than before, in an entry or in a list: none is missed, and
\* none is told in vain.
THEOREM ChangesAreTold == Spec => ToldOfChanges
<1> DEFINE cats == {CategoryPath(d) : d \in Directories}
<1>1. Regular(EmptyTree)
  <2> DEFINE r == EmptyTree.resources
  <2>1. r = [p \in {Root} |-> Directory] /\ EmptyTree.children = [p \in {Root} |-> {}]
    BY DEF EmptyTree
  <2>2. DOMAIN r = {Root} /\ r[Root].coll = TRUE
    BY <2>1 DEF Directory
  <2> HIDE DEF r
  <2>3. ListsOf(r) = [p \in {Root} |-> {}]
    BY <2>2 DEF ListsOf
  <2>4. <<>> \in Seq(Segments)
    OBVIOUS
  <2>5. Listed(EmptyTree, Root) = {}
    BY <2>1 DEF Listed
  <2> QED
    BY <2>1, <2>2, <2>3, <2>4, <2>5 DEF Regular, Root, r
<1>2. CInv => TreeIsRegular
  <2> SUFFICES ASSUME CInv, tree # EmptyTree PROVE Regular(tree)
    BY <1>1 DEF TreeIsRegular
  <2>1. PICK N : TreeOf(tree, Placements(Present), N) /\ Naming(Placements(Present), N)
    BY DEF CInv, Displays
  <2> QED
    BY <2>1, TreeRegular
<1>3. Refresh => Regular(tree') /\ Listed(tree', Root) = cats
  <2> SUFFICES ASSUME Refresh PROVE Regular(tree') /\ Listed(tree', Root) = cats
    OBVIOUS
  <2>1. PICK items \in ItemLists : tree' = BuildSnapshot(items)
    BY DEF Refresh
  <2>2. Displays(BuildSnapshot(items), ToSet(items), items)
    BY BuildDisplays
  <2>3. PICK N : TreeOf(tree', Placements(ToSet(items)), N) /\ Naming(Placements(ToSet(items)), N)
    BY <2>1, <2>2 DEF Displays
  <2> QED
    BY <2>3, TreeRegular
<1>4. ASSUME Regular(tree), Regular(tree'), Listed(tree', Root) = cats
      PROVE  ChangedRoots(tree, tree') = {c \in cats : View(tree, c) # View(tree', c)}
  <2> DEFINE Differs(c) ==
               \/ \E p \in Under(tree, c) : p \notin DOMAIN tree'.resources
                                            \/ tree'.resources[p] # tree.resources[p]
               \/ \E p \in Under(tree', c) : p \notin DOMAIN tree.resources
                                             \/ tree.resources[p] # tree'.resources[p]
  <2>1. Listed(tree, Root) \cup Listed(tree', Root) = cats
    BY <1>4 DEF Regular
  <2>2. ChangedRoots(tree, tree') = {c \in cats : Differs(c)}
    BY <2>1 DEF ChangedRoots
  <2>3. ASSUME NEW d \in Directories
        PROVE  Differs(CategoryPath(d)) <=>
                 View(tree, CategoryPath(d)) # View(tree', CategoryPath(d))
    BY <1>4, ChangesSeen
  <2> HIDE DEF Differs
  <2> QED
    BY <2>2, <2>3
<1>5. CInv => (Refresh => ChangedRoots(tree, tree') =
                            {c \in cats : View(tree, c) # View(tree', c)})
  BY <1>2, <1>3, <1>4 DEF TreeIsRegular
<1> QED
  BY <1>5, ClassifierInvariant, PTL DEF Spec, ToldOfChanges

-----------------------------------------------------------------------------
(* What the server may rely on.                                            *)

LEMMA TreeServable ==
  ASSUME NEW t, NEW A, NEW N, TreeOf(t, A, N), Naming(A, N), Segments = STRING
  PROVE  Servable(t) /\ Listed(t, Root) = {CategoryPath(d) : d \in Directories}
<1> DEFINE r == t.resources
           cats == {CategoryPath(d) : d \in Directories}
<1>1. /\ t = [resources |-> r, children |-> ListsOf(r)] /\ ShowsAll(r, A, N)
      /\ WellFormed(t)
  BY TreeOfWellFormed DEF TreeOf
<1>2. DOMAIN t = {"resources", "children"}
  <2> HIDE DEF r
  <2> QED
    BY <1>1
<1>3. DOMAIN r \subseteq Seq(STRING) /\ Listed(t, Root) = cats
  BY TreeRegular DEF Regular
<1> HIDE DEF r
<1>4. /\ \A p \in DOMAIN r : r[p].coll \in BOOLEAN
      /\ Root \in DOMAIN r /\ r[Root] = Directory
      /\ \A d \in Directories : CategoryPath(d) \in DOMAIN r /\ r[CategoryPath(d)] = Directory
  BY <1>1, TreeHangs DEF ShowsAll
<1>5. Directory.coll = TRUE /\ Directory.root = None
  BY DEF Directory
<1>6. ASSUME NEW a \in A, NEW q \in Below(a)
      PROVE  r[At(a, N, q)].root \in Ids
  <2>1. a[1] \in Directories /\ a[2] \in Library /\ a = <<a[1], a[2]>>
    BY DEF Naming
  <2>2. Shows(a[2], q).root \in Ids
    <3> DEFINE d == a[1]
               x == a[2]
    <3>1. d \in Directories /\ x \in Library /\ a = <<d, x>>
      BY <2>1
    <3> HIDE DEF d, x
    <3>2. q \in Below(<<d, x>>)
      BY <3>1
    <3>3. Shows(x, q).root = x.id
      BY <3>1, <3>2, BelowHangs
    <3>4. x.id \in Ids
      BY <3>1, ItemFacts
    <3> QED
      BY <3>3, <3>4 DEF x
  <2>3. r[At(a, N, q)] = Shows(a[2], q)
    BY <1>1 DEF ShowsAll
  <2> QED
    BY <2>2, <2>3
<1>7. ASSUME NEW p \in DOMAIN r
      PROVE  r[p].root \in Ids \cup {None}
  <2>1. \/ p = Root
        \/ \E d \in Directories : p = CategoryPath(d)
        \/ \E a \in A : \E q \in Below(a) : p = At(a, N, q)
    BY <1>1, EntriesListed
  <2> QED
    BY <1>4, <1>5, <1>6, <2>1
<1>8. \A p \in Listed(t, Root) : r[p].root = None
  BY <1>3, <1>4, <1>5
<1> QED
  BY <1>1, <1>2, <1>3, <1>4, <1>5, <1>7, <1>8 DEF Servable, r

\* The snapshots of the classifier are what the server supposes of them (Server's
\* SnapshotsAssumption), after any refreshes and deletions, and at the top they have
\* the directories of the configuration, no more and no less.  It takes clean_name,
\* and the digest, to give strings.
SnapshotServable ==
  tree # EmptyTree =>
    Servable(tree) /\ Listed(tree, Root) = {CategoryPath(d) : d \in Directories}

THEOREM SnapshotsAreServable ==
  ASSUME Segments = STRING
  PROVE  Spec => []SnapshotServable
<1>1. CInv => SnapshotServable
  <2> SUFFICES ASSUME CInv, tree # EmptyTree
               PROVE  Servable(tree)
                      /\ Listed(tree, Root) = {CategoryPath(d) : d \in Directories}
    BY DEF SnapshotServable
  <2>1. PICK N : TreeOf(tree, Placements(Present), N) /\ Naming(Placements(Present), N)
    BY DEF CInv, Displays
  <2> QED
    BY <2>1, TreeServable
<1> QED
  BY <1>1, ClassifierInvariant, PTL

-----------------------------------------------------------------------------
(* What filters say.                                                       *)

\* A value of the recursive functions over filters: all, some, or what is said
\* of a filter that is not made of others.
Rule(f, c, all, some, said) ==
  \/ c.kind \in {"and", "or"} /\ c \in all /\ \A k \in DOMAIN c.value : f[c.value[k]]
  \/ c.kind \in {"and", "or"} /\ c \in some /\ \E k \in DOMAIN c.value : f[c.value[k]]
  \/ c \in said

RuledBy(m, all, some, said) == m = [c \in Conditions |-> Rule(m, c, all, some, said)]

\* Such a function exists, as nesting ends.
LEMMA RuleHasFunction ==
  ASSUME NEW all, NEW some, NEW said
  PROVE  \E f : RuledBy(f, all, some, said)
<1> DEFINE Shallow(n) == {c \in Conditions : Depth[c] < n}
           T == {n \in Nat : \E f : f = [c \in Shallow(n) |-> Rule(f, c, all, some, said)]}
<1>1. 0 \in T
  <2>1. Shallow(0) = {}
    BY FilterAssumption
  <2> DEFINE f == [c \in {} |-> FALSE]
  <2>2. f = [c \in Shallow(0) |-> Rule(f, c, all, some, said)]
    BY <2>1
  <2> QED
    BY <2>2
<1>2. ASSUME NEW n \in Nat, n \in T
      PROVE  n + 1 \in T
  <2>1. PICK f : f = [c \in Shallow(n) |-> Rule(f, c, all, some, said)]
    BY <1>2
  <2> DEFINE g == [c \in Shallow(n + 1) |-> Rule(f, c, all, some, said)]
  <2>2. \A c \in Shallow(n) : c \in Shallow(n + 1) /\ f[c] = Rule(f, c, all, some, said)
    BY <2>1, FilterAssumption
  <2>3. \A c \in Shallow(n) : g[c] = f[c]
    BY <2>2
  <2>4. ASSUME NEW c \in Shallow(n + 1)
        PROVE  Rule(g, c, all, some, said) = Rule(f, c, all, some, said)
    <3>1. ASSUME c.kind \in {"and", "or"}, NEW k \in DOMAIN c.value
          PROVE  g[c.value[k]] = f[c.value[k]]
      <4>1. c.value[k] \in Shallow(n)
        BY <3>1, FilterAssumption, FS_CardinalityType
      <4> QED
        BY <4>1, <2>3
    <3> HIDE DEF g
    <3> QED
      BY <3>1 DEF Rule
  <2>5. g = [c \in Shallow(n + 1) |-> Rule(g, c, all, some, said)]
    <3> DEFINE h == [c \in Shallow(n + 1) |-> Rule(g, c, all, some, said)]
    <3>1. \A c \in Shallow(n + 1) : g[c] = h[c]
      BY <2>4
    <3>2. DOMAIN g = DOMAIN h
      OBVIOUS
    <3> QED
      BY <3>1, <3>2
  <2> HIDE DEF g, Shallow
  <2> QED
    BY <2>5
<1> DEFINE m == Cardinality(Conditions) + 1
<1>3. m \in Nat /\ Shallow(m) = Conditions
  BY FilterAssumption, FS_CardinalityType
<1>4. m \in T
  <2> HIDE DEF m, T
  <2>1. Nat \subseteq T
    BY <1>1, <1>2, SetInduction
  <2> QED
    BY <1>3, <2>1
<1> HIDE DEF m, Shallow
<1> QED
  BY <1>3, <1>4 DEF RuledBy

MatchesBy(m, x) ==
  m = [f \in Conditions |->
        \/ f.kind = "and" /\ \A k \in DOMAIN f.value : m[f.value[k]]
        \/ f.kind = "or" /\ \E k \in DOMAIN f.value : m[f.value[k]]
        \/ f.kind \notin {"and", "or"} /\ Says(f, x)]

LEMMA MatchesIs ==
  ASSUME NEW x, NEW c \in Conditions
  PROVE  Matches(c, x) <=>
           \/ c.kind = "and" /\ \A k \in DOMAIN c.value : Matches(c.value[k], x)
           \/ c.kind = "or" /\ \E k \in DOMAIN c.value : Matches(c.value[k], x)
           \/ c.kind \notin {"and", "or"} /\ Says(c, x)
<1> DEFINE m == CHOOSE m : MatchesBy(m, x)
<1>1. \A f : Matches(f, x) <=> m[f]
  BY Zenon DEF Matches, MatchesBy
<1>2. \E f : MatchesBy(f, x)
  <2> DEFINE all == {f \in Conditions : f.kind = "and"}
             some == {f \in Conditions : f.kind = "or"}
             said == {f \in Conditions : f.kind \notin {"and", "or"} /\ Says(f, x)}
  <2>1. PICK g : RuledBy(g, all, some, said)
    <3> HIDE DEF all, some, said
    <3> QED
      BY RuleHasFunction
  <2> DEFINE b(f) == \/ f.kind = "and" /\ \A k \in DOMAIN f.value : g[f.value[k]]
                     \/ f.kind = "or" /\ \E k \in DOMAIN f.value : g[f.value[k]]
                     \/ f.kind \notin {"and", "or"} /\ Says(f, x)
  <2>2. \A f \in Conditions : Rule(g, f, all, some, said) = b(f)
    BY DEF Rule
  <2>3. g = [f \in Conditions |-> b(f)]
    <3> HIDE DEF all, some, said, b
    <3> QED
      BY <2>1, <2>2 DEF RuledBy
  <2> QED
    BY <2>3 DEF MatchesBy
<1>3. MatchesBy(m, x)
  <2> QED BY <1>2
<1> HIDE DEF m
<1>4. m[c] <=> \/ c.kind = "and" /\ \A k \in DOMAIN c.value : m[c.value[k]]
               \/ c.kind = "or" /\ \E k \in DOMAIN c.value : m[c.value[k]]
               \/ c.kind \notin {"and", "or"} /\ Says(c, x)
  BY <1>3 DEF MatchesBy
<1> QED
  BY <1>1, <1>4

TextTests == {"regex", "contains", "contains_strict"}
FileTests == {"any_file_inside_regex", "any_file_inside_contains",
              "any_file_inside_contains_strict"}

\* How the pairs of text filters are compiled.
LEMMA CompiledText ==
  ASSUME NEW c \in Conditions, c.kind \in FileTests
  PROVE  LET bare == Compile([c EXCEPT !.kind = OfName[@]])
             not == Compile([c EXCEPT !.kind = Negated[@]])
         IN /\ Compile(c).test = c.kind /\ ~Compile(c).invert
            /\ bare.test \in TextTests /\ ~bare.invert
            /\ bare.test = OfName[c.kind] /\ bare.value = Compile(c).value
            /\ not.test = c.kind /\ not.invert /\ not.value = Compile(c).value
<1>1. c = [kind |-> c.kind, value |-> c.value]
  BY FilterAssumption
<1>2. /\ [c EXCEPT !.kind = OfName[@]] = [kind |-> OfName[c.kind], value |-> c.value]
      /\ [c EXCEPT !.kind = Negated[@]] = [kind |-> Negated[c.kind], value |-> c.value]
  BY <1>1
<1>3. /\ Positive(c.kind) = c.kind /\ c.kind \notin Negative
      /\ OfName[c.kind] \in TextTests
      /\ Positive(OfName[c.kind]) = OfName[c.kind] /\ OfName[c.kind] \notin Negative
      /\ Positive(Negated[c.kind]) = c.kind /\ Negated[c.kind] \in Negative
  BY DEF FileTests, TextTests, Positive, Negative, Negated, OfName
<1>4. c.kind \in {"contains", "any_file_inside_contains"}
        <=> OfName[c.kind] \in {"contains", "any_file_inside_contains"}
  BY DEF FileTests, OfName
<1> QED
  BY <1>2, <1>3, <1>4 DEF Compile

\* One name is tested in the same way by both filters of a pair.
LEMMA SameTest ==
  ASSUME NEW c \in Conditions, c.kind \in FileTests, NEW name
  PROVE  InName(Compile([c EXCEPT !.kind = OfName[@]]), name) <=> InName(Compile(c), name)
<1>1. \/ c.kind = "any_file_inside_regex" /\ OfName[c.kind] = "regex"
      \/ c.kind = "any_file_inside_contains" /\ OfName[c.kind] = "contains"
      \/ c.kind = "any_file_inside_contains_strict" /\ OfName[c.kind] = "contains_strict"
  BY DEF FileTests, OfName
<1> QED
  BY <1>1, CompiledText DEF InName

\* A text filter on files says what its test says of one of them.
LEMMA FilesTested ==
  ASSUME NEW f, NEW x, f.test \in FileTests
  PROVE  Holds(f, x) <=> \E r \in ItemFiles(x) : InName(f, Name(r))
BY DEF Holds, FileTests

LEMMA NameTested ==
  ASSUME NEW f, NEW x, f.test \in TextTests
  PROVE  Holds(f, x) <=> InName(f, x.name)
BY DEF Holds, TextTests

LEMMA SaysPlain ==
  ASSUME NEW c, NEW x, ~Compile(c).invert
  PROVE  Says(c, x) <=> Holds(Compile(c), x)
<1>1. Compile(c).invert = FALSE
  BY DEF Compile
<1>2. Holds(Compile(c), x) \in BOOLEAN
  BY DEF Holds
<1> QED
  BY <1>1, <1>2 DEF Says

LEMMA SaysNot ==
  ASSUME NEW c, NEW x, Compile(c).invert
  PROVE  Says(c, x) <=> ~Holds(Compile(c), x)
<1>1. Compile(c).invert = TRUE
  BY DEF Compile
<1>2. Holds(Compile(c), x) \in BOOLEAN
  BY DEF Holds
<1> QED
  BY <1>1, <1>2 DEF Says

\* An item has the fields of its type from crawl to crawl.
ItemOK == item \in ItemType

LEMMA RemovedAt ==
  ASSUME NEW S, NEW s \in Seq(S), NEW k \in DOMAIN s
  PROVE  RemoveAt(s, k) \in Seq(S) /\ Len(RemoveAt(s, k)) < Len(s)
<1>1. Len(s) \in Nat /\ k \in 1..Len(s)
  OBVIOUS
<1>2. /\ SubSeq(s, 1, k - 1) \in Seq(S) /\ Len(SubSeq(s, 1, k - 1)) = k - 1
      /\ SubSeq(s, k + 1, Len(s)) \in Seq(S) /\ Len(SubSeq(s, k + 1, Len(s))) = Len(s) - k
  BY <1>1, SubSeqProperties
<1> QED
  BY <1>1, <1>2, ConcatProperties DEF RemoveAt

LEMMA Changes ==
  ASSUME ItemOK, FiltersNext
  PROVE  /\ ItemOK'
         /\ \/ item.coll /\ \E r \in Extras :
                 item' = [item EXCEPT !.descendants = Append(@, r)]
            \/ Len(item'.descendants) <= Len(item.descendants)
<1>1. Len(item.descendants) \in Nat /\ item.descendants \in Seq(Resources)
  BY DEF ItemOK, ItemType
<1>2. CASE Gain
  <2>1. PICK r \in Extras : item' = [item EXCEPT !.descendants = Append(@, r)]
    BY <1>2 DEF Gain
  <2>2. Append(item.descendants, r) \in Seq(Resources)
    BY <1>1, ItemAssumption
  <2>3. item' \in ItemType
    BY <2>1, <2>2 DEF ItemOK, ItemType
  <2> QED
    BY <1>2, <2>1, <2>3 DEF Gain, ItemOK
<1>3. CASE Lose
  <2>1. PICK k \in DOMAIN item.descendants :
          item' = [item EXCEPT !.descendants = RemoveAt(@, k)]
    BY <1>3 DEF Lose
  <2>2. /\ RemoveAt(item.descendants, k) \in Seq(Resources)
        /\ Len(RemoveAt(item.descendants, k)) < Len(item.descendants)
    BY <1>1, RemovedAt
  <2>3. Len(item'.descendants) \in Nat /\ item' \in ItemType
    BY <2>1, <2>2 DEF ItemOK, ItemType
  <2>4. item'.descendants = RemoveAt(item.descendants, k)
    BY <2>1 DEF ItemOK, ItemType
  <2> QED
    BY <1>1, <2>2, <2>3, <2>4 DEF ItemOK
<1>4. CASE Rewrite
  <2>1. PICK r \in Extras : item' = [item EXCEPT !.size = r.size]
    BY <1>4 DEF Rewrite
  <2>2. item' \in ItemType /\ item'.descendants = item.descendants
    BY <2>1, ItemAssumption DEF ItemOK, ItemType, Resources
  <2> QED
    BY <1>1, <2>2 DEF ItemOK
<1> QED
  BY <1>2, <1>3, <1>4 DEF FiltersNext

LEMMA ItemTyped == FiltersSpec => []ItemOK
<1>1. FiltersInit => ItemOK
  BY ItemAssumption DEF FiltersInit, ItemOK
<1>2. ItemOK /\ [FiltersNext]_item => ItemOK'
  <2>1. ItemOK /\ FiltersNext => ItemOK'
    BY Changes
  <2>2. ItemOK /\ UNCHANGED item => ItemOK'
    BY DEF ItemOK
  <2> QED
    BY <2>1, <2>2
<1> QED
  BY <1>1, <1>2, PTL DEF FiltersSpec

\* The names of the files of an item.
LEMMA FileNames ==
  ASSUME NEW f, NEW x \in ItemType
  PROVE  (\E r \in ItemFiles(x) : InName(f, Name(r))) <=>
           \/ \E k \in DOMAIN x.descendants :
                ~x.descendants[k].coll /\ InName(f, Name(x.descendants[k]))
           \/ ~x.coll /\ InName(f, x.name)
<1> DEFINE own == [path |-> <<x.name>>, coll |-> FALSE, size |-> x.size]
<1>1. Name(own) = x.name
  BY DEF Name, Last
<1>2. \A r : r \in ItemFiles(x) <=>
        \/ \E k \in DOMAIN x.descendants : r = x.descendants[k] /\ ~r.coll
        \/ ~x.coll /\ r = own
  BY DEF ItemFiles, Range
<1> HIDE DEF own
<1> QED
  BY <1>1, <1>2

LEMMA OneFile ==
  ASSUME NEW c \in Conditions, c.kind \in FileTests, NEW x \in ItemType, NEW name
  PROVE  Says([c EXCEPT !.kind = OfName[@]], [x EXCEPT !.name = name])
           <=> InName(Compile(c), name)
<1> DEFINE bare == [c EXCEPT !.kind = OfName[@]]
           y == [x EXCEPT !.name = name]
<1>1. Compile(bare).test \in TextTests /\ ~Compile(bare).invert
  BY CompiledText
<1>2. InName(Compile(bare), name) <=> InName(Compile(c), name)
  BY SameTest
<1>3. y.name = name
  BY DEF ItemType
<1> HIDE DEF bare, y
<1>4. Says(bare, y) <=> Holds(Compile(bare), y)
  BY <1>1, SaysPlain
<1>5. Holds(Compile(bare), y) <=> InName(Compile(bare), y.name)
  BY <1>1, NameTested
<1> QED
  BY <1>2, <1>3, <1>4, <1>5 DEF bare, y

\* AnyFileMeansSome of the item as it is: the text filters on files ask for one
\* file, and the negative ones for none (filter.rs, matches and item_files).
LEMMA AnyFileIsSome == ItemOK => AnyFileMeansSome
<1> SUFFICES ASSUME ItemOK,
                    NEW c \in Conditions, c.kind \in DOMAIN OfName
             PROVE  LET Passes(name) ==
                          Says([c EXCEPT !.kind = OfName[@]], [item EXCEPT !.name = name])
                        some == \/ \E k \in DOMAIN item.descendants :
                                     /\ ~item.descendants[k].coll
                                     /\ Passes(Name(item.descendants[k]))
                                \/ ~item.coll /\ Passes(item.name)
                    IN /\ Matches(c, item) <=> some
                       /\ Says([c EXCEPT !.kind = Negated[@]], item) <=> ~some
  BY DEF AnyFileMeansSome
<1>1. c.kind \in FileTests /\ c.kind \notin {"and", "or"}
  BY DEF OfName, FileTests
<1> DEFINE not == [c EXCEPT !.kind = Negated[@]]
           any == \E r \in ItemFiles(item) : InName(Compile(c), Name(r))
<1>2. Matches(c, item) <=> any
  <2>1. Matches(c, item) <=> Says(c, item)
    BY <1>1, MatchesIs
  <2>2. Says(c, item) <=> Holds(Compile(c), item)
    BY <1>1, CompiledText, SaysPlain
  <2>3. Compile(c).test \in FileTests
    BY <1>1, CompiledText
  <2> QED
    BY <2>1, <2>2, <2>3, FilesTested
<1>3. Says(not, item) <=> ~any
  <2>1. /\ Compile(not).test = c.kind /\ Compile(not).invert
        /\ Compile(not).value = Compile(c).value /\ Compile(c).test = c.kind
    BY <1>1, CompiledText
  <2>2. Says(not, item) <=> ~Holds(Compile(not), item)
    BY <2>1, SaysNot
  <2>3. Holds(Compile(not), item)
          <=> \E r \in ItemFiles(item) : InName(Compile(not), Name(r))
    BY <1>1, <2>1, FilesTested
  <2>4. \A name : InName(Compile(not), name) <=> InName(Compile(c), name)
    BY <2>1 DEF InName
  <2> QED
    BY <2>2, <2>3, <2>4
<1>4. any <=>
        \/ \E k \in DOMAIN item.descendants :
             /\ ~item.descendants[k].coll
             /\ InName(Compile(c), Name(item.descendants[k]))
        \/ ~item.coll /\ InName(Compile(c), item.name)
  BY FileNames DEF ItemOK
<1>5. \A name : Says([c EXCEPT !.kind = OfName[@]], [item EXCEPT !.name = name])
                  <=> InName(Compile(c), name)
  BY <1>1, OneFile DEF ItemOK
<1> HIDE DEF not, any
<1> QED
  BY <1>2, <1>3, <1>4, <1>5 DEF not

\* AnyFileMeansSome always: with "any_file_inside_not_..." a directory shows the items
\* of which no file passes, however they change (config.rs, filter.rs).
THEOREM AnyFileAlwaysMeansSome == FiltersSpec => []AnyFileMeansSome
BY ItemTyped, AnyFileIsSome, PTL

-----------------------------------------------------------------------------
(* The sum of the sizes.                                                   *)

FileSize(r) == IF r.coll THEN 0 ELSE r.size

SummedBy(sum, ds) ==
  sum = [n \in 0..Len(ds) |->
          IF n = 0 THEN 0 ELSE sum[n - 1] + IF ds[n].coll THEN 0 ELSE ds[n].size]

LEMMA SumExists ==
  ASSUME NEW ds \in Seq(Resources)
  PROVE  \E sum : SummedBy(sum, ds)
<1> DEFINE Step(s, n) == IF n = 0 THEN 0 ELSE s[n - 1] + FileSize(ds[n])
           T == {n \in Nat : \E s : s = [m \in 0..n |-> Step(s, m)]}
<1>1. 0 \in T
  <2> DEFINE s == [m \in 0..0 |-> 0]
  <2>1. s = [m \in 0..0 |-> Step(s, m)]
    OBVIOUS
  <2> HIDE DEF s, Step
  <2> QED
    BY <2>1
<1>2. ASSUME NEW n \in Nat, n \in T
      PROVE  n + 1 \in T
  <2>1. PICK s : s = [m \in 0..n |-> Step(s, m)]
    BY <1>2
  <2> DEFINE g == [m \in 0..(n + 1) |-> Step(s, m)]
  <2>2. \A m \in 0..n : g[m] = s[m]
    BY <2>1
  <2>3. \A m \in 0..(n + 1) : Step(g, m) = Step(s, m)
    <3>1. \A m \in 0..(n + 1) : m # 0 => m - 1 \in 0..n
      OBVIOUS
    <3> HIDE DEF g
    <3> QED
      BY <2>2, <3>1
  <2>4. g = [m \in 0..(n + 1) |-> Step(g, m)]
    <3> HIDE DEF Step
    <3> QED
      BY <2>3
  <2> HIDE DEF g, Step
  <2> QED
    BY <2>4
<1> DEFINE N == Len(ds)
<1>3. N \in Nat
  OBVIOUS
<1>4. N \in T
  <2> HIDE DEF T, N
  <2>1. Nat \subseteq T
    BY <1>1, <1>2, SetInduction
  <2> QED
    BY <1>3, <2>1
<1>5. PICK s : s = [m \in 0..N |-> Step(s, m)]
  <2> HIDE DEF N, Step
  <2> QED
    BY <1>4
<1> QED
  BY <1>5 DEF SummedBy, FileSize

LEMMA SumIs ==
  ASSUME NEW ds \in Seq(Resources)
  PROVE  \E sum : /\ SumOfFiles(ds) = sum[Len(ds)] /\ sum[0] = 0
                  /\ \A n \in 1..Len(ds) : sum[n] = sum[n - 1] + FileSize(ds[n])
<1> DEFINE sum == CHOOSE sum : SummedBy(sum, ds)
<1>1. SumOfFiles(ds) = sum[Len(ds)]
  BY Zenon DEF SumOfFiles, SummedBy
<1>2. SummedBy(sum, ds)
  BY SumExists
<1> HIDE DEF sum
<1>3. Len(ds) \in Nat
  OBVIOUS
<1>4. sum[0] = 0 /\ \A n \in 1..Len(ds) : sum[n] = sum[n - 1] + FileSize(ds[n])
  BY <1>2, <1>3 DEF SummedBy, FileSize
<1> QED
  BY <1>1, <1>4

\* A file more makes the sum no smaller.
LEMMA SumGrows ==
  ASSUME NEW ds \in Seq(Resources), NEW r \in Resources
  PROVE  /\ SumOfFiles(ds) \in Nat /\ SumOfFiles(Append(ds, r)) \in Nat
         /\ SumOfFiles(ds) <= SumOfFiles(Append(ds, r))
<1> DEFINE es == Append(ds, r)
<1>1. /\ es \in Seq(Resources) /\ Len(ds) \in Nat /\ Len(es) = Len(ds) + 1
      /\ \A n \in 1..Len(ds) : es[n] = ds[n]
      /\ es[Len(ds) + 1] = r
  OBVIOUS
<1>2. \A q \in Resources : FileSize(q) \in Nat
  BY DEF Resources, FileSize
<1>3. PICK a : /\ SumOfFiles(ds) = a[Len(ds)] /\ a[0] = 0
               /\ \A n \in 1..Len(ds) : a[n] = a[n - 1] + FileSize(ds[n])
  BY SumIs
<1> HIDE DEF es
<1>4. PICK b : /\ SumOfFiles(es) = b[Len(es)] /\ b[0] = 0
               /\ \A n \in 1..Len(es) : b[n] = b[n - 1] + FileSize(es[n])
  BY <1>1, SumIs
<1> DEFINE T == {n \in Nat : n <= Len(ds) => a[n] \in Nat /\ a[n] = b[n]}
<1>5. 0 \in T
  BY <1>3, <1>4
<1>6. ASSUME NEW n \in Nat, n \in T
      PROVE  n + 1 \in T
  <2> SUFFICES ASSUME n + 1 <= Len(ds)
               PROVE  a[n + 1] \in Nat /\ a[n + 1] = b[n + 1]
    OBVIOUS
  <2>1. n + 1 \in 1..Len(ds) /\ n + 1 \in 1..Len(es) /\ (n + 1) - 1 = n
    BY <1>1
  <2>2. ds[n + 1] \in Resources /\ es[n + 1] = ds[n + 1]
    BY <1>1, <2>1
  <2>3. a[n] \in Nat /\ a[n] = b[n]
    BY <1>1, <1>6
  <2> QED
    BY <1>2, <1>3, <1>4, <2>1, <2>2, <2>3
<1>7. Nat \subseteq T
  <2> HIDE DEF T
  <2> QED
    BY <1>5, <1>6, SetInduction
<1>8. a[Len(ds)] \in Nat /\ a[Len(ds)] = b[Len(ds)]
  BY <1>1, <1>7
<1>9. b[Len(es)] = b[Len(ds)] + FileSize(r)
  BY <1>1, <1>4
<1> QED
  BY <1>2, <1>3, <1>4, <1>8, <1>9 DEF es

-----------------------------------------------------------------------------
(* More is never less.                                                     *)

GrowingBy(m) ==
  m = [f \in Conditions |->
        \/ f.kind \in {"any_file_inside_regex", "any_file_inside_contains", "size_gte",
                       "any_file_inside_contains_strict", "any_file_inside_size_gte",
                       "any_file_inside_size_lte"}
        \/ f.kind = "has_episodes" /\ f.value
        \/ f.kind \in {"and", "or"} /\ \A k \in DOMAIN f.value : m[f.value[k]]]

LEMMA GrowingIs ==
  ASSUME NEW c \in Conditions
  PROVE  Growing(c) <=>
           \/ c.kind \in {"any_file_inside_regex", "any_file_inside_contains", "size_gte",
                          "any_file_inside_contains_strict", "any_file_inside_size_gte",
                          "any_file_inside_size_lte"}
           \/ c.kind = "has_episodes" /\ c.value
           \/ c.kind \in {"and", "or"} /\ \A k \in DOMAIN c.value : Growing(c.value[k])
<1> DEFINE m == CHOOSE m : GrowingBy(m)
<1>1. \A f : Growing(f) <=> m[f]
  BY Zenon DEF Growing, GrowingBy
<1>2. \E f : GrowingBy(f)
  <2> DEFINE all == {f \in Conditions : f.kind \in {"and", "or"}}
             leaf(f) == \/ f.kind \in {"any_file_inside_regex", "any_file_inside_contains",
                                       "size_gte", "any_file_inside_contains_strict",
                                       "any_file_inside_size_gte",
                                       "any_file_inside_size_lte"}
                        \/ f.kind = "has_episodes" /\ f.value
             said == {f \in Conditions : leaf(f)}
  <2>1. PICK g : RuledBy(g, all, {}, said)
    <3> HIDE DEF all, said
    <3> QED
      BY RuleHasFunction
  <2> DEFINE b(f) == \/ leaf(f)
                     \/ f.kind \in {"and", "or"} /\ \A k \in DOMAIN f.value : g[f.value[k]]
  <2>2. \A f \in Conditions : Rule(g, f, all, {}, said) = b(f)
    <3> HIDE DEF leaf
    <3> QED
      BY DEF Rule
  <2>3. g = [f \in Conditions |-> b(f)]
    <3> HIDE DEF all, said, b
    <3> QED
      BY <2>1, <2>2 DEF RuledBy
  <2> QED
    BY <2>3 DEF GrowingBy
<1>3. GrowingBy(m)
  <2> QED BY <1>2
<1> HIDE DEF m
<1>4. m[c] <=>
        \/ c.kind \in {"any_file_inside_regex", "any_file_inside_contains", "size_gte",
                       "any_file_inside_contains_strict", "any_file_inside_size_gte",
                       "any_file_inside_size_lte"}
        \/ c.kind = "has_episodes" /\ c.value
        \/ c.kind \in {"and", "or"} /\ \A k \in DOMAIN c.value : m[c.value[k]]
  BY <1>3 DEF GrowingBy
<1> QED
  BY <1>1, <1>4

Measures == {"size_gte", "any_file_inside_size_gte", "any_file_inside_size_lte",
             "has_episodes"}

LEMMA CompiledMeasure ==
  ASSUME NEW c, c.kind \in Measures
  PROVE  /\ Compile(c).test = c.kind /\ ~Compile(c).invert
         /\ Compile(c).value = c.value
<1>1. Positive(c.kind) = c.kind /\ c.kind \notin Negative
  BY DEF Measures, Positive, Negative, Negated
<1>2. c.kind \notin {"contains", "any_file_inside_contains"}
  BY DEF Measures
<1> QED
  BY <1>1, <1>2 DEF Compile

LEMMA MoreFiles ==
  ASSUME NEW x \in ItemType, x.coll, NEW r \in Resources, NEW y,
         y = [x EXCEPT !.descendants = Append(@, r)]
  PROVE  /\ y \in ItemType /\ y.coll /\ y.descendants = Append(x.descendants, r)
         /\ ItemFiles(x) \subseteq ItemFiles(y)
         /\ TrueSize(x) \in Nat /\ TrueSize(y) \in Nat /\ TrueSize(x) <= TrueSize(y)
<1>1. /\ Append(x.descendants, r) \in Seq(Resources)
      /\ \A k \in DOMAIN x.descendants :
           /\ k \in DOMAIN Append(x.descendants, r)
           /\ Append(x.descendants, r)[k] = x.descendants[k]
  BY DEF ItemType
<1>2. y \in ItemType /\ y.coll /\ y.descendants = Append(x.descendants, r)
  BY <1>1 DEF ItemType
<1>3. ItemFiles(x) \subseteq ItemFiles(y)
  BY <1>1, <1>2 DEF ItemFiles, Range
<1>4. TrueSize(x) = SumOfFiles(x.descendants) /\ TrueSize(y) = SumOfFiles(y.descendants)
  BY <1>2 DEF TrueSize
<1>5. x.descendants \in Seq(Resources)
  BY DEF ItemType
<1> QED
  BY <1>2, <1>3, <1>4, <1>5, SumGrows

LEMMA LeafStays ==
  ASSUME NEW c \in Conditions, c.kind \notin {"and", "or"}, Growing(c),
         NEW x \in ItemType, NEW y, ItemFiles(x) \subseteq ItemFiles(y),
         TrueSize(x) \in Nat, TrueSize(y) \in Nat, TrueSize(x) <= TrueSize(y),
         TrueSize(y) < Width, Says(c, x)
  PROVE  Says(c, y)
<1>1. \/ c.kind \in FileTests
      \/ c.kind \in Measures /\ (c.kind = "has_episodes" => c.value)
  BY GrowingIs DEF FileTests, Measures
<1>2. CASE c.kind \in FileTests
  <2>1. Compile(c).test \in FileTests /\ ~Compile(c).invert
    BY <1>2, CompiledText
  <2>2. \A z : Says(c, z) <=> \E r \in ItemFiles(z) : InName(Compile(c), Name(r))
    BY <2>1, SaysPlain, FilesTested
  <2> QED
    BY <2>2
<1>3. CASE c.kind \in Measures /\ (c.kind = "has_episodes" => c.value)
  <2> DEFINE f == Compile(c)
  <2>1. f.test = c.kind /\ ~f.invert /\ f.value = c.value
    BY <1>3, CompiledMeasure
  <2>2. \A z : Says(c, z) <=> Holds(f, z)
    BY <2>1, SaysPlain
  <2> HIDE DEF f
  <2>3. CASE c.kind = "has_episodes"
    <3>1. f.value = TRUE
      BY <1>3, <2>1, <2>3, FilterAssumption
    <3>2. \A z : HasEpisodes(z) \in BOOLEAN
      BY DEF HasEpisodes
    <3>3. \A z : Holds(f, z) <=> HasEpisodes(z) = f.value
      BY <2>1, <2>3 DEF Holds
    <3>4. HasEpisodes(x) => HasEpisodes(y)
      BY DEF HasEpisodes
    <3> QED
      BY <2>2, <3>1, <3>2, <3>3, <3>4
  <2>4. CASE c.kind = "size_gte"
    <3>1. \A z : Holds(f, z) <=> TotalSize(z) >= f.value
      BY <2>1, <2>4 DEF Holds
    <3>2. f.value \in Nat /\ Width \in Nat \ {0}
      BY <2>1, <2>4, FilterAssumption, ItemAssumption
    <3>3. TotalSize(x) = TrueSize(x) /\ TotalSize(y) = TrueSize(y)
      BY <3>2 DEF TotalSize
    <3> QED
      BY <2>2, <3>1, <3>2, <3>3
  <2>5. CASE c.kind = "any_file_inside_size_gte"
    <3>1. \A z : Holds(f, z) <=> \E r \in ItemFiles(z) : r.size >= f.value
      BY <2>1, <2>5 DEF Holds
    <3> QED
      BY <2>2, <3>1
  <2>6. CASE c.kind = "any_file_inside_size_lte"
    <3>1. \A z : Holds(f, z) <=> \E r \in ItemFiles(z) : r.size <= f.value
      BY <2>1, <2>6 DEF Holds
    <3> QED
      BY <2>2, <3>1
  <2> QED
    BY <1>3, <2>3, <2>4, <2>5, <2>6 DEF Measures
<1> QED
  BY <1>1, <1>2, <1>3

\* By induction on how deep filters are nested.
LEMMA GrowingStays ==
  ASSUME NEW x \in ItemType, NEW y, ItemFiles(x) \subseteq ItemFiles(y),
         TrueSize(x) \in Nat, TrueSize(y) \in Nat, TrueSize(x) <= TrueSize(y),
         TrueSize(y) < Width
  PROVE  \A c \in Conditions : Growing(c) /\ Matches(c, x) => Matches(c, y)
<1> DEFINE Stays(c) == Growing(c) /\ Matches(c, x) => Matches(c, y)
           T == {n \in Nat : \A c \in Conditions : Depth[c] < n => Stays(c)}
<1>0. Cardinality(Conditions) \in Nat /\ \A c \in Conditions : Depth[c] \in Nat
  BY FilterAssumption, FS_CardinalityType
<1>1. 0 \in T
  BY <1>0
<1>2. ASSUME NEW n \in Nat, n \in T
      PROVE  n + 1 \in T
  <2> SUFFICES ASSUME NEW c \in Conditions, Depth[c] < n + 1,
                      Growing(c), Matches(c, x)
               PROVE  Matches(c, y)
    BY DEF Stays
  <2>1. CASE c.kind \in {"and", "or"}
    <3>1. \A k \in DOMAIN c.value :
            c.value[k] \in Conditions /\ Depth[c.value[k]] < Depth[c]
      BY <2>1, FilterAssumption
    <3>2. \A k \in DOMAIN c.value : Growing(c.value[k])
      BY <2>1, GrowingIs
    <3>3. ASSUME NEW k \in DOMAIN c.value, Matches(c.value[k], x)
          PROVE  Matches(c.value[k], y)
      <4>1. c.value[k] \in Conditions /\ Depth[c.value[k]] < n
        BY <1>0, <3>1
      <4>2. Stays(c.value[k])
        BY <1>2, <4>1
      <4> QED
        BY <3>2, <3>3, <4>2
    <3> QED
      BY <2>1, <3>3, MatchesIs
  <2>2. CASE c.kind \notin {"and", "or"}
    <3>1. \A z : Matches(c, z) <=> Says(c, z)
      BY <2>2, MatchesIs
    <3> QED
      BY <2>2, <3>1, LeafStays
  <2> QED
    BY <2>1, <2>2
<1>3. Nat \subseteq T
  <2> HIDE DEF T
  <2> QED
    BY <1>1, <1>2, SetInduction
<1>4. \A c \in Conditions : Depth[c] < Depth[c] + 1 /\ Depth[c] + 1 \in T
  BY <1>0, <1>3
<1> QED
  BY <1>0, <1>4

\* MoreIsNeverLess always: an item that a directory shows for what is in it stays there
\* when a file more is in it, whatever filters are nested how deep (Filter::matches).
THEOREM MoreIsAlwaysNoLess == FiltersSpec => MoreIsNeverLess
<1>1. ItemOK => (FiltersNext \/ UNCHANGED item =>
                   (/\ Len(item'.descendants) > Len(item.descendants)
                    /\ TrueSize(item') < Width
                    => \A c \in Conditions :
                         Growing(c) /\ Matches(c, item) => Matches(c, item')))
  <2> SUFFICES ASSUME ItemOK, FiltersNext \/ UNCHANGED item,
                      Len(item'.descendants) > Len(item.descendants),
                      TrueSize(item') < Width
               PROVE  \A c \in Conditions :
                        Growing(c) /\ Matches(c, item) => Matches(c, item')
    OBVIOUS
  <2>1. Len(item.descendants) \in Nat
    BY DEF ItemOK, ItemType
  <2>2. FiltersNext
    BY <2>1
  <2>3. ItemOK'
    BY <2>2, Changes
  <2>4. Len(item'.descendants) \in Nat
    BY <2>3 DEF ItemOK, ItemType
  <2>5. PICK r \in Extras : item.coll /\ item' = [item EXCEPT !.descendants = Append(@, r)]
    BY <2>1, <2>2, <2>4, Changes
  <2> DEFINE y == item'
  <2>6. /\ ItemFiles(item) \subseteq ItemFiles(y)
        /\ TrueSize(item) \in Nat /\ TrueSize(y) \in Nat /\ TrueSize(item) <= TrueSize(y)
    BY <2>5, MoreFiles, ItemAssumption DEF ItemOK
  <2> QED
    BY <2>6, GrowingStays DEF ItemOK
<1> QED
  BY <1>1, ItemTyped, PTL DEF FiltersSpec, MoreIsNeverLess
=============================================================================
