----------------------------- MODULE ServerProofs -----------------------------
(***************************************************************************)
(* Proofs about the server for any snapshots, clients and requests: types, *)
(* what needs credentials, that the directories stay, and that a client    *)
(* who walks the hrefs finds everything that is served and nothing else.   *)
(* And about its streaming proxy (Streaming), for files and histories of   *)
(* any length.                                                             *)
(***************************************************************************)
EXTENDS Server, Streaming, PathLemmas

-----------------------------------------------------------------------------
(* The edits of the virtual tree, for trees of any size.                   *)

\* Where the Connected and the ListsExact half of a well-formed tree meet: the
\* parent of whatever is not the root has a list.
LEMMA ParentHasList ==
  ASSUME NEW t, WellFormed(t), NEW p \in DOMAIN t.resources, p # Root
  PROVE  /\ Parent(p) \in DOMAIN t.children
         /\ p \in t.children[Parent(p)]
BY DEF WellFormed, Connected, ListsExact, Listed

\* Snapshot::empty is a well-formed tree.
THEOREM EmptyWellFormed == WellFormed(EmptyTree)
<1>1. /\ DOMAIN EmptyTree.resources = {Root}
      /\ DOMAIN EmptyTree.children = {Root}
      /\ EmptyTree.resources[Root] = Directory
      /\ EmptyTree.children[Root] = {}
  BY DEF EmptyTree
<1>2. Directory.root = None /\ Directory.coll = TRUE
  BY DEF Directory
<1> QED
  BY <1>1, <1>2 DEF WellFormed, Connected, ListsExact

\* insert keeps the tree well-formed if the path is new and its parent is a
\* collection already there, of the same item or of none.  The classifier
\* adds an item before what is below it, and shallow paths before deep ones.
THEOREM InsertKeepsWellFormed ==
  ASSUME NEW t, WellFormed(t),
         NEW p, p # Root, p \notin DOMAIN t.resources,
         Parent(p) \in DOMAIN t.children,
         NEW r, r.coll \in BOOLEAN,
         t.resources[Parent(p)].root \in {None, r.root}
  PROVE  WellFormed(Insert(t, p, r))
<1> DEFINE u == Insert(t, p, r)
           q == Parent(p)
<1>1. /\ Root \in DOMAIN t.resources
      /\ DOMAIN t.children = {x \in DOMAIN t.resources : t.resources[x].coll}
      /\ q \in DOMAIN t.resources /\ q # p /\ Root # p
      /\ p \notin DOMAIN t.children
  BY DEF WellFormed, Connected, ListsExact
<1> DEFINE new == [x \in {p} |-> r]
<1>2. /\ DOMAIN u.resources = DOMAIN t.resources \cup {p}
      /\ u.resources[p] = r
      /\ \A x \in DOMAIN t.resources : u.resources[x] = t.resources[x]
  BY <1>1 DEF Insert, InsertAll
<1>3. /\ DOMAIN u.children = DOMAIN t.children \cup (IF r.coll THEN {p} ELSE {})
      /\ u.children[q] = t.children[q] \cup {p}
      /\ \A x \in DOMAIN t.children \ {q} : u.children[x] = t.children[x]
      /\ r.coll => u.children[p] = {}
  <2> DEFINE below(x) == {y \in DOMAIN new : Parent(y) = x}
             colls == {y \in DOMAIN new : new[y].coll}
  <2>1. DOMAIN new = {p} /\ new[p] = r
    OBVIOUS
  <2>2. /\ {Parent(y) : y \in DOMAIN new} = {q}
        /\ colls = IF r.coll THEN {p} ELSE {}
        /\ below(q) = {p}
        /\ \A x : x # q => below(x) = {}
    <3> HIDE DEF new
    <3> QED BY <2>1
  <2>3. u.children = [x \in DOMAIN t.children \cup {Parent(y) : y \in DOMAIN new} \cup colls |->
                        Listed(t, x) \cup below(x)]
    BY DEF Insert, InsertAll
  <2> HIDE DEF u, new, below, colls
  <2>4. DOMAIN u.children = DOMAIN t.children \cup (IF r.coll THEN {p} ELSE {})
    BY <2>2, <2>3
  <2>5. \A x \in DOMAIN u.children : u.children[x] = Listed(t, x) \cup below(x)
    BY <2>2, <2>3
  <2>6. \A x \in DOMAIN t.children : Listed(t, x) = t.children[x]
    BY DEF Listed
  <2>7. Listed(t, p) = {}
    BY <1>1 DEF Listed
  <2>8. q # p /\ q \in DOMAIN t.children
    BY <1>1
  <2>9. u.children[q] = t.children[q] \cup {p}
    BY <2>2, <2>4, <2>5, <2>6, <2>8
  <2>10. ASSUME NEW x \in DOMAIN t.children \ {q}
         PROVE  u.children[x] = t.children[x]
    <3>1. below(x) = {} /\ x \in DOMAIN u.children /\ Listed(t, x) = t.children[x]
      BY <2>2, <2>4, <2>6
    <3> QED
      BY <2>5, <3>1
  <2>11. r.coll => u.children[p] = {}
    BY <2>2, <2>4, <2>5, <2>7, <2>8
  <2> QED
    BY <2>4, <2>9, <2>10, <2>11
<1> HIDE DEF u
<1>4. ListsExact(u)
  <2>1. DOMAIN u.children = {x \in DOMAIN u.resources : u.resources[x].coll}
    BY <1>1, <1>2, <1>3
  <2>2. ASSUME NEW x \in DOMAIN u.children, NEW c \in u.children[x]
        PROVE  c \in DOMAIN u.resources /\ c # Root /\ Parent(c) = x
    <3>1. \A y \in DOMAIN t.children : \A d \in t.children[y] :
            d \in DOMAIN t.resources /\ d # Root /\ Parent(d) = y
      BY DEF WellFormed, ListsExact
    <3> QED
      BY <1>2, <1>3, <2>2, <3>1
  <2> QED
    BY <2>1, <2>2 DEF ListsExact
<1>5. Connected(u)
  <2>1. Root \in DOMAIN u.resources /\ u.resources[Root].root = None
    BY <1>1, <1>2 DEF WellFormed, Connected
  <2>2. ASSUME NEW x \in DOMAIN u.resources \ {Root}
        PROVE  /\ Parent(x) \in DOMAIN u.resources
               /\ u.resources[Parent(x)].coll
               /\ x \in Listed(u, Parent(x))
               /\ u.resources[Parent(x)].root \in {None, u.resources[x].root}
    <3>1. CASE x = p
      BY <1>1, <1>2, <1>3, <3>1 DEF Listed
    <3>2. CASE x # p
      <4>1. /\ x \in DOMAIN t.resources \ {Root}
            /\ Parent(x) \in DOMAIN t.resources
            /\ t.resources[Parent(x)].coll
            /\ t.resources[Parent(x)].root \in {None, t.resources[x].root}
        BY <1>2, <3>2 DEF WellFormed, Connected
      <4>2. Parent(x) \in DOMAIN t.children /\ x \in t.children[Parent(x)]
        BY <4>1, ParentHasList
      <4>3. x \in u.children[Parent(x)]
        BY <1>3, <4>2
      <4> QED
        BY <1>2, <1>3, <4>1, <4>2, <4>3 DEF Listed
    <3> QED
      BY <3>1, <3>2
  <2> QED
    BY <2>1, <2>2 DEF Connected
<1> QED
  BY <1>4, <1>5 DEF WellFormed, u

\* delete_item keeps the tree well-formed: what is left of a tree without the
\* aliases of an item dangles nowhere and lists nothing that is gone.
THEOREM RemovalKeepsWellFormed ==
  ASSUME NEW t, WellFormed(t), NEW i \in Ids
  PROVE  WellFormed(RemoveItem(t, i))
<1> DEFINE u == RemoveItem(t, i)
           A == Aliases(t, i)
<1>1. /\ DOMAIN u.resources = DOMAIN t.resources \ A
      /\ \A x \in DOMAIN u.resources : u.resources[x] = t.resources[x]
      /\ DOMAIN u.children = DOMAIN t.children \ A
      /\ \A x \in DOMAIN u.children : u.children[x] = t.children[x] \ A
  BY DEF RemoveItem
<1>2. \A x \in DOMAIN t.resources : x \in A <=> t.resources[x].root = i
  BY DEF Aliases
<1> HIDE DEF u, A
<1>3. ListsExact(u)
  <2>1. /\ DOMAIN t.children = {x \in DOMAIN t.resources : t.resources[x].coll}
        /\ \A x \in DOMAIN t.children : \A c \in t.children[x] :
             c \in DOMAIN t.resources /\ c # Root /\ Parent(c) = x
    BY DEF WellFormed, ListsExact
  <2>2. DOMAIN u.children = {x \in DOMAIN u.resources : u.resources[x].coll}
    BY <1>1, <2>1
  <2>3. ASSUME NEW x \in DOMAIN u.children, NEW c \in u.children[x]
        PROVE  c \in DOMAIN u.resources /\ c # Root /\ Parent(c) = x
    BY <1>1, <2>1, <2>3
  <2> QED
    BY <2>2, <2>3 DEF ListsExact
<1>4. Connected(u)
  <2>1. Root \in DOMAIN u.resources /\ u.resources[Root].root = None
    <3>1. Root \in DOMAIN t.resources /\ t.resources[Root].root = None
      BY DEF WellFormed, Connected
    <3> QED
      BY <1>1, <1>2, <3>1, NoneAssumption
  <2>2. ASSUME NEW x \in DOMAIN u.resources \ {Root}
        PROVE  /\ Parent(x) \in DOMAIN u.resources
               /\ u.resources[Parent(x)].coll
               /\ x \in Listed(u, Parent(x))
               /\ u.resources[Parent(x)].root \in {None, u.resources[x].root}
    <3>1. /\ x \in DOMAIN t.resources \ {Root} /\ x \notin A
          /\ Parent(x) \in DOMAIN t.resources
          /\ t.resources[Parent(x)].coll
          /\ t.resources[Parent(x)].root \in {None, t.resources[x].root}
      BY <1>1 DEF WellFormed, Connected
    <3>2. Parent(x) \notin A
      BY <1>2, <3>1, NoneAssumption
    <3>3. Parent(x) \in DOMAIN t.children /\ x \in t.children[Parent(x)]
      BY <3>1, ParentHasList
    <3>4. Parent(x) \in DOMAIN u.children /\ x \in u.children[Parent(x)]
      BY <1>1, <3>1, <3>2, <3>3
    <3> QED
      BY <1>1, <3>1, <3>2, <3>4 DEF Listed
  <2> QED
    BY <2>1, <2>2 DEF Connected
<1> QED
  BY <1>3, <1>4 DEF WellFormed, u

-----------------------------------------------------------------------------
(* The tree being served.                                                  *)

TreeOK ==
  /\ DOMAIN tree = {"resources", "children"}
  /\ WellFormed(tree)
  /\ tree.resources[Root].coll
  /\ \A p \in DOMAIN tree.resources :
       /\ p \in Seq(STRING) /\ Len(p) <= MaxDepth
       /\ tree.resources[p].coll \in BOOLEAN
       /\ tree.resources[p].root \in Ids \cup {None}

\* What a request without credentials may be answered.
Refuses(method, status, entries) ==
  (method \in Public \/ status = "UNAUTHORIZED") /\ entries = {}

\* The last request was, if it came without credentials and they are needed.
NothingLeaked ==
  config.auth /\ ~last.credentials => Refuses(last.method, last.status, last.entries)

SInv == ServerTypeOK /\ TreeOK /\ NothingLeaked

\* delete_item keeps the tree what it is.
LEMMA RemovalKeepsTree ==
  ASSUME TreeOK, NEW i \in Ids, tree' = RemoveItem(tree, i)
  PROVE  TreeOK'
<1>1. /\ DOMAIN tree' = {"resources", "children"}
      /\ DOMAIN tree'.resources = DOMAIN tree.resources \ Aliases(tree, i)
      /\ \A p \in DOMAIN tree'.resources :
           tree'.resources[p] = tree.resources[p]
      /\ DOMAIN tree'.children = DOMAIN tree.children \ Aliases(tree, i)
      /\ \A p \in DOMAIN tree'.children :
           tree'.children[p] = tree.children[p] \ Aliases(tree, i)
  BY DEF RemoveItem
<1>2. WellFormed(tree')
  BY RemovalKeepsWellFormed DEF TreeOK
<1>3. Root \in DOMAIN tree'.resources
  BY <1>2 DEF WellFormed, Connected
<1> QED
  BY <1>1, <1>2, <1>3 DEF TreeOK

LEMMA SnapshotTree ==
  ASSUME tree' \in Snapshots
  PROVE  TreeOK'
BY SnapshotsAssumption DEF TreeOK, Servable

LEMMA ServerInit == Init => SInv
<1> SUFFICES ASSUME Init PROVE SInv
  OBVIOUS
<1>1. TreeOK
  <2>1. CASE tree = EmptyTree /\ refreshed = FALSE
    <3>1. /\ DOMAIN tree = {"resources", "children"}
          /\ DOMAIN tree.resources = {Root}
          /\ tree.resources[Root] = Directory
      BY <2>1 DEF EmptyTree
    <3>2. Root \in Seq(STRING) /\ Len(Root) <= MaxDepth
      BY SnapshotsAssumption DEF Root
    <3>3. Directory.coll = TRUE /\ Directory.root = None
      BY DEF Directory
    <3> QED
      BY <2>1, <3>1, <3>2, <3>3, EmptyWellFormed DEF TreeOK
  <2>2. CASE tree \in Snapshots
    BY <2>2, SnapshotsAssumption
       DEF TreeOK, Servable
  <2> QED
    BY <2>1, <2>2 DEF Init
<1>2. last = Nothing /\ last.method \in Public /\ last.entries = {}
  BY DEF Init, Nothing, Public
<1> QED
  BY <1>1, <1>2 DEF Init, TreeOK, SInv, ServerTypeOK, NothingLeaked, Refuses

\* A request that is answered at once.
LEMMA Answered ==
  ASSUME SInv, UNCHANGED <<config, tree, refreshed, pc, target>>,
         requested' \in BOOLEAN,
         NEW method \in Methods, NEW credentials \in BOOLEAN, NEW status,
         NEW entries, Respond(method, credentials, status, entries),
         config.auth /\ ~credentials => Refuses(method, status, entries)
  PROVE  SInv'
<1>1. TreeOK'
  BY DEF SInv, TreeOK
<1>2. /\ last'.method = method /\ last'.credentials = credentials
      /\ last'.status = status /\ last'.entries = entries
  BY DEF Respond
<1>3. NothingLeaked'
  BY <1>2 DEF NothingLeaked
<1>4. ServerTypeOK'
  BY <1>2 DEF SInv, ServerTypeOK
<1> QED
  BY <1>1, <1>3, <1>4 DEF SInv

LEMMA ServerRequest ==
  ASSUME SInv, NEW c \in Clients, NEW credentials \in BOOLEAN,
         Request(c, credentials)
  PROVE  SInv'
<1> USE DEF Methods, Passes, Refuses, Public
<1>1. requested \in BOOLEAN
  BY DEF SInv, ServerTypeOK
<1>2. CASE Healthz(c, credentials)
  BY <1>1, <1>2, Answered DEF Healthz
<1>3. CASE Ready(c, credentials)
  BY <1>1, <1>3, Answered DEF Ready
<1>4. CASE Unauthorized(c, credentials)
  BY <1>1, <1>4, Answered DEF Unauthorized
<1>5. CASE Metrics(c, credentials)
  BY <1>1, <1>5, Answered DEF Metrics
<1>6. CASE Refresh(c, credentials)
  BY <1>6, Answered DEF Refresh
<1>7. CASE Options(c, credentials)
  BY <1>1, <1>7, Answered DEF Options
<1>8. CASE OtherMethod(c, credentials)
  BY <1>1, <1>8, Answered DEF OtherMethod
<1>9. ASSUME NEW raw \in Raws, NEW depth, Propfind(c, credentials, raw, depth)
      PROVE  SInv'
  BY <1>1, <1>9, Answered DEF Propfind
<1>10. ASSUME NEW raw \in Raws, NEW method \in {"GET", "HEAD"},
              Proxy(c, credentials, raw, method)
       PROVE  SInv'
  BY <1>1, <1>10, Answered DEF Proxy
<1>11. ASSUME NEW raw \in Raws, DeleteRefused(c, credentials, raw)
       PROVE  SInv'
  BY <1>1, <1>11, Answered DEF DeleteRefused
<1>12. ASSUME NEW raw \in Raws, DeleteItem(c, credentials, raw)
       PROVE  SInv'
  <2> DEFINE i == tree.resources[CanonicalPath(raw)].root
  <2>1. i \in Ids
    <3>1. CanonicalPath(raw) \in DOMAIN tree.resources /\ i # None
      BY <1>12 DEF DeleteItem, DeleteStatus, Lookup
    <3> QED
      BY <3>1 DEF SInv, TreeOK
  <2>2. /\ target' = [target EXCEPT ![c] = i]
        /\ pc' = [pc EXCEPT ![c] = "deleting"]
        /\ Respond("DELETE", credentials, "ACCEPTED", {})
        /\ UNCHANGED <<config, tree, refreshed, requested>>
    BY <1>12 DEF DeleteItem
  <2> HIDE DEF i
  <2>3. /\ last'.method = "DELETE" /\ last'.credentials = credentials
        /\ last'.entries = {}
    BY <2>2 DEF Respond
  <2>4. ServerTypeOK'
    BY <2>1, <2>2, <2>3, NoItemAssumption DEF SInv, ServerTypeOK
  <2>5. TreeOK' /\ NothingLeaked'
    <3>1. config.auth => credentials
      BY <1>12 DEF DeleteItem
    <3> QED
      BY <2>2, <2>3, <3>1 DEF SInv, TreeOK, NothingLeaked
  <2> QED
    BY <2>4, <2>5 DEF SInv
<1> QED
  BY <1>2, <1>3, <1>4, <1>5, <1>6, <1>7, <1>8, <1>9, <1>10, <1>11, <1>12
     DEF Request

LEMMA ServerDelete ==
  ASSUME SInv, NEW c \in Clients, DeleteDone(c)
  PROVE  SInv'
<1>1. target[c] \in Ids
  BY DEF DeleteDone, SInv, ServerTypeOK
<1>2. \/ tree' = RemoveItem(tree, target[c])
      \/ tree' = tree
  BY DEF DeleteDone
<1>3. TreeOK'
  <2>1. CASE tree' = tree
    BY <2>1 DEF DeleteDone, SInv, TreeOK
  <2>2. CASE tree' = RemoveItem(tree, target[c])
    BY <1>1, <2>2, RemovalKeepsTree DEF DeleteDone, SInv
  <2> QED
    BY <1>2, <2>1, <2>2
<1>4. /\ last'.method = "DELETE" /\ last'.credentials = TRUE
      /\ last'.entries = {}
  BY DEF DeleteDone, Respond
<1>5. ServerTypeOK'
  BY <1>3, <1>4 DEF DeleteDone, SInv, ServerTypeOK, TreeOK, Methods
<1> QED
  BY <1>3, <1>4, <1>5 DEF SInv, NothingLeaked

LEMMA ServerStep == SInv /\ [Next]_svars => SInv'
<1> SUFFICES ASSUME SInv, [Next]_svars PROVE SInv'
  OBVIOUS
<1>1. CASE Publish
  <2>1. TreeOK'
    BY <1>1, SnapshotTree DEF Publish
  <2> QED
    BY <1>1, <2>1 DEF Publish, SInv, ServerTypeOK, TreeOK, NothingLeaked
<1>2. CASE UNCHANGED svars
  BY <1>2 DEF svars, SInv, ServerTypeOK, TreeOK, NothingLeaked
<1> QED
  BY <1>1, <1>2, ServerRequest, ServerDelete DEF Next

\* The inductive invariant of the server.
LEMMA ServerInvariant == Spec => []SInv
BY ServerInit, ServerStep, PTL DEF Spec

\* Every variable keeps its type: in particular what a DELETE hands to
\* delete_item is always the id of an item, never that of a directory.
THEOREM ServerTypeCorrect == Spec => []ServerTypeOK
<1>1. SInv => ServerTypeOK
  BY DEF SInv
<1> QED
  BY <1>1, ServerInvariant, PTL

\* Where credentials are configured, a request without them gets UNAUTHORIZED from
\* every route and method but the two probes, nothing of the tree is shown to it,
\* and neither a refresh nor a DELETE begins with it.
THEOREM CredentialsGuarded == Spec => CredentialsGuard
<1> DEFINE Guard ==
      config.auth =>
        /\ ~last'.credentials =>
             /\ last'.method \in Public \/ last'.status = "UNAUTHORIZED"
             /\ last'.entries = {}
        /\ requested' /\ ~requested => last'.credentials
        /\ \A c \in Clients :
             pc[c] = "idle" /\ pc'[c] = "deleting" => last'.credentials
        /\ \/ tree' \in Snapshots \cup {tree}
           \/ \E c \in Clients : pc[c] = "deleting" /\ pc'[c] = "idle"
<1>1. SInv /\ SInv' /\ [Next]_svars => [Guard]_svars
  <2> SUFFICES ASSUME SInv, SInv', Next, config.auth PROVE Guard
    OBVIOUS
  <2>1. config' = config
    BY DEF Next, Request, Healthz, Ready, Unauthorized, Metrics, Refresh,
           Options, OtherMethod, Propfind, Proxy, DeleteRefused, DeleteItem,
           DeleteDone, Publish
  <2>2. ~last'.credentials =>
          /\ last'.method \in Public \/ last'.status = "UNAUTHORIZED"
          /\ last'.entries = {}
    BY <2>1 DEF SInv, NothingLeaked, Refuses
  <2>3. ASSUME UNCHANGED <<tree, requested, pc>>
        PROVE  Guard
    BY <2>2, <2>3
  <2>4. ASSUME NEW c \in Clients, NEW credentials \in BOOLEAN,
               Refresh(c, credentials)
        PROVE  Guard
    <3>1. last'.credentials
      BY <2>4 DEF Refresh, Passes, Respond
    <3> QED
      BY <2>4, <3>1 DEF Refresh
  <2>5. ASSUME NEW c \in Clients, NEW credentials \in BOOLEAN,
               NEW raw \in Raws, DeleteItem(c, credentials, raw)
        PROVE  Guard
    <3>1. last'.credentials
      BY <2>5 DEF DeleteItem, Passes, Respond
    <3> QED
      BY <2>5, <3>1 DEF DeleteItem
  <2>6. ASSUME NEW c \in Clients, DeleteDone(c)
        PROVE  Guard
    <3>1. /\ pc[c] = "deleting" /\ pc'[c] = "idle" /\ requested' = requested
          /\ \A k \in Clients : pc'[k] = "deleting" => pc[k] = "deleting"
      BY <2>6 DEF DeleteDone, SInv, ServerTypeOK
    <3> QED
      BY <2>2, <3>1
  <2>7. CASE Publish
    BY <2>2, <2>7 DEF Publish
  <2> HIDE DEF Guard
  <2> QED
    BY <2>3, <2>4, <2>5, <2>6, <2>7
       DEF Next, Request, Healthz, Ready, Unauthorized, Metrics, Options,
           OtherMethod, Propfind, Proxy, DeleteRefused
<1> QED
  BY <1>1, ServerInvariant, PTL DEF Spec, CredentialsGuard

-----------------------------------------------------------------------------
(* Paths: what encode_path writes, canonical_path reads back.              *)

\* Segments is what any function with its recursion makes of the path.
LEMMA SegmentsAre ==
  ASSUME NEW raw, Len(raw) \in Nat, NEW w,
         w = [n \in 0..Len(raw) |->
                IF n = 0 THEN <<>>
                ELSE IF raw[n] \in Dropped THEN w[n - 1]
                ELSE Append(w[n - 1], raw[n])]
  PROVE  Segments(raw) = w[Len(raw)]
<1> DEFINE Kept(f) == f = [n \in 0..Len(raw) |->
                             IF n = 0 THEN <<>>
                             ELSE IF raw[n] \in Dropped THEN f[n - 1]
                             ELSE Append(f[n - 1], raw[n])]
           g == CHOOSE f : Kept(f)
<1>1. Segments(raw) = g[Len(raw)]
  BY Zenon DEF Segments
<1>2. Kept(g)
  <2>1. Kept(w)
    OBVIOUS
  <2> HIDE DEF Kept
  <2> QED
    BY <2>1
<1> HIDE DEF g
<1>3. ASSUME NEW n \in 0..Len(raw)
      PROVE  g[n] = IF n = 0 THEN <<>>
                    ELSE IF raw[n] \in Dropped THEN g[n - 1]
                    ELSE Append(g[n - 1], raw[n])
  BY <1>2
<1>4. ASSUME NEW n \in 0..Len(raw)
      PROVE  w[n] = IF n = 0 THEN <<>>
                    ELSE IF raw[n] \in Dropped THEN w[n - 1]
                    ELSE Append(w[n - 1], raw[n])
  OBVIOUS
<1> DEFINE T == {n \in Nat : n <= Len(raw) => g[n] = w[n]}
<1>5. 0 \in T
  <2>1. 0 \in 0..Len(raw)
    OBVIOUS
  <2>2. g[0] = <<>> /\ w[0] = <<>>
    BY <1>3, <1>4, <2>1
  <2> QED
    BY <2>2
<1>6. ASSUME NEW n \in Nat, n \in T
      PROVE  n + 1 \in T
  <2>1. ASSUME n + 1 <= Len(raw)
        PROVE  g[n + 1] = w[n + 1]
    <3>1. g[n] = w[n]
      BY <1>6, <2>1
    <3>2. n + 1 \in 0..Len(raw) /\ (n + 1) - 1 = n /\ n + 1 # 0
      BY <2>1
    <3>3. /\ g[n + 1] = IF raw[n + 1] \in Dropped THEN g[n]
                        ELSE Append(g[n], raw[n + 1])
          /\ w[n + 1] = IF raw[n + 1] \in Dropped THEN w[n]
                        ELSE Append(w[n], raw[n + 1])
      BY <1>3, <1>4, <3>2
    <3> QED
      BY <3>1, <3>3
  <2> QED
    BY <2>1
<1>7. Nat \subseteq T
  <2> HIDE DEF T
  <2> QED
    BY <1>5, <1>6, SetInduction
<1>8. g[Len(raw)] = w[Len(raw)]
  BY <1>7
<1> QED
  BY <1>1, <1>8

\* The path of an href: that of a collection ends in a slash.
LEMMA Slashed ==
  ASSUME NEW S, NEW e \in S, NEW v \in Seq(S),
         NEW raw, raw = v \/ raw = Append(v, e)
  PROVE  /\ Len(v) \in Nat /\ Len(raw) \in Nat
         /\ \/ Len(raw) = Len(v)
            \/ Len(raw) = Len(v) + 1 /\ raw[Len(raw)] = e
         /\ \A k \in 1..Len(v) : raw[k] = v[k]
<1>1. CASE raw = v
  BY <1>1
<1>2. CASE raw = Append(v, e)
  <2>1. /\ Len(raw) = Len(v) + 1 /\ raw[Len(v) + 1] = e
        /\ \A k \in 1..Len(v) : raw[k] = v[k]
    BY <1>2
  <2>2. Len(v) \in Nat
    OBVIOUS
  <2> QED
    BY <2>1, <2>2
<1> QED
  BY <1>1, <1>2

\* A segment is dropped if it is empty or a dot, and only then.
LEMMA SegmentsRead ==
  ASSUME NEW S, NEW e \in S, e \in Dropped,
         NEW v \in Seq(S), \A k \in 1..Len(v) : v[k] \notin Dropped,
         NEW raw, raw = v \/ raw = Append(v, e)
  PROVE  Segments(raw) = v
<1> DEFINE w == [n \in 0..Len(raw) |->
                   IF n <= Len(v) THEN [k \in 1..n |-> v[k]] ELSE v]
           u == [n \in 0..Len(raw) |->
                     IF n = 0 THEN <<>>
                     ELSE IF raw[n] \in Dropped THEN w[n - 1]
                     ELSE Append(w[n - 1], raw[n])]
<1>1. Len(v) \in Nat
  BY Slashed
<1>2. \/ Len(raw) = Len(v)
      \/ Len(raw) = Len(v) + 1 /\ raw[Len(raw)] = e
  BY Slashed
<1>3. \A k \in 1..Len(v) : raw[k] = v[k] /\ raw[k] \notin Dropped
  BY Slashed
<1>4. Len(raw) \in Nat
  BY Slashed
<1>5. /\ \A n \in 0..Len(v) : w[n] = [k \in 1..n |-> v[k]]
      /\ Len(raw) = Len(v) + 1 => w[Len(raw)] = v
      /\ w = [n \in 0..Len(raw) |-> w[n]]
  <2>1. 0..Len(v) \subseteq 0..Len(raw)
    BY <1>1, <1>2
  <2>2. ASSUME NEW n \in 0..Len(v)
        PROVE  w[n] = [k \in 1..n |-> v[k]]
    <3>1. n \in 0..Len(raw) /\ n <= Len(v)
      BY <1>1, <2>1
    <3> QED
      BY <3>1
  <2>3. ASSUME Len(raw) = Len(v) + 1
        PROVE  w[Len(raw)] = v
    <3>1. Len(raw) \in 0..Len(raw) /\ ~(Len(raw) <= Len(v))
      BY <1>1, <2>3
    <3> QED
      BY <3>1
  <2>4. w = [n \in 0..Len(raw) |-> w[n]]
    OBVIOUS
  <2> QED
    BY <2>2, <2>3, <2>4
<1>6. w[0] = <<>> /\ w[Len(v)] = v
  <2>1. w[0] = [k \in 1..0 |-> v[k]] /\ w[Len(v)] = [k \in 1..Len(v) |-> v[k]]
    BY <1>1, <1>5
  <2> HIDE DEF w
  <2> QED
    BY <2>1, PrefixesOf
<1> HIDE DEF w
<1>7. ASSUME NEW n \in 0..Len(raw)
      PROVE  w[n] = u[n]
  <2>1. CASE n = 0
    BY <1>6, <2>1
  <2>2. CASE n \in 1..Len(v)
    <3>0. n \in 0..Len(v) /\ n - 1 \in 0..Len(v)
      BY <1>1, <2>2
    <3>1. /\ w[n] = [k \in 1..n |-> v[k]]
          /\ w[n - 1] = [k \in 1..(n - 1) |-> v[k]]
      BY <1>5, <3>0
    <3>2. Append([k \in 1..(n - 1) |-> v[k]], v[n]) = [k \in 1..n |-> v[k]]
      BY <2>2, PrefixesOf
    <3>3. n # 0 /\ raw[n] = v[n] /\ raw[n] \notin Dropped
      BY <1>1, <1>3, <2>2
    <3> QED
      BY <3>1, <3>2, <3>3
  <2>3. CASE n = Len(v) + 1 /\ Len(raw) = Len(v) + 1 /\ raw[n] = e
    <3>1. w[n] = v /\ n # 0 /\ n - 1 = Len(v) /\ raw[n] \in Dropped
      BY <1>1, <1>5, <2>3
    <3>2. w[n - 1] = v
      BY <1>6, <3>1
    <3> QED
      BY <3>1, <3>2
  <2> QED
    BY <1>1, <1>2, <2>1, <2>2, <2>3
<1>8. w = u
  <2>1. u = [n \in 0..Len(raw) |-> u[n]]
    OBVIOUS
  <2> HIDE DEF u
  <2> QED
    BY <1>5, <1>7, <2>1
<1>9. w[Len(raw)] = v
  BY <1>2, <1>5, <1>6
<1>10. Segments(raw) = w[Len(raw)]
  BY <1>4, <1>8, SegmentsAre
<1> QED
  BY <1>9, <1>10

\* A path that ends in a slash, which is an empty segment e.
LEMMA SlashAdded ==
  ASSUME NEW S, NEW v \in Seq(S), NEW e \in S
  PROVE  /\ <<>> \o v \o <<>> = v
         /\ <<>> \o v \o <<e>> = Append(v, e)
         /\ Append(v, e) \in Seq(S)
         /\ Append(v, e) # <<>>
         /\ Head(Append(v, e)) = IF v = <<>> THEN e ELSE Head(v)
         /\ \A k \in DOMAIN Append(v, e) :
              Append(v, e)[k] = e \/ (k \in DOMAIN v /\ Append(v, e)[k] = v[k])
OBVIOUS

\* A path under the prefix d.
LEMMA PrefixAdded ==
  ASSUME NEW S, NEW v \in Seq(S), NEW d \in S
  PROVE  /\ <<d>> \o v \o <<>> = <<d>> \o v
         /\ \A e \in S : <<d>> \o v \o <<e>> = <<d>> \o Append(v, e)
         /\ <<d>> \o v # <<>>
         /\ Head(<<d>> \o v) = d
         /\ Tail(<<d>> \o v) = v
         /\ \A k \in DOMAIN (<<d>> \o v) :
              \/ (<<d>> \o v)[k] = d
              \/ k - 1 \in DOMAIN v /\ (<<d>> \o v)[k] = v[k - 1]
<1>1. /\ <<d>> \o v \in Seq(S)
      /\ <<d>> \o v \o <<>> = <<d>> \o v
      /\ <<d>> \o v # <<>>
      /\ Head(<<d>> \o v) = d
      /\ Tail(<<d>> \o v) = v
  OBVIOUS
<1>2. ASSUME NEW k \in DOMAIN (<<d>> \o v)
      PROVE  \/ (<<d>> \o v)[k] = d
             \/ k - 1 \in DOMAIN v /\ (<<d>> \o v)[k] = v[k - 1]
  OBVIOUS
<1>3. ASSUME NEW e \in S
      PROVE  <<d>> \o v \o <<e>> = <<d>> \o Append(v, e)
  <2>1. /\ <<d>> \o v \o <<e>> \in Seq(S) /\ Append(v, e) \in Seq(S)
        /\ Len(<<d>> \o v \o <<e>>) = Len(<<d>> \o Append(v, e))
        /\ <<d>> \o Append(v, e) \in Seq(S)
    OBVIOUS
  <2>2. \A k \in 1..(Len(v) + 2) :
          (<<d>> \o v \o <<e>>)[k] = (<<d>> \o Append(v, e))[k]
    OBVIOUS
  <2> QED
    BY <2>1, <2>2
<1> QED
  BY <1>1, <1>2, <1>3

\* What encode_path writes, canonical_path reads back.
LEMMA HrefRead ==
  ASSUME NEW v \in Seq(STRING),
         \A k \in DOMAIN v : v[k] \notin Dropped \cup Refused,
         ~HasDavPrefix(v),
         NEW coll \in BOOLEAN, NEW davPrefix \in BOOLEAN
  PROVE  /\ CanonicalPath(EncodePath(v, coll, davPrefix)) = v
         /\ HasDavPrefix(EncodePath(v, coll, davPrefix)) = davPrefix
<1>1. PICK e, d : e = "" /\ d = "dav"
  OBVIOUS
<1> DEFINE S == STRING \cup {e, d}
           r == IF coll THEN Append(v, e) ELSE v
           raw == EncodePath(v, coll, davPrefix)
<1>2. e \in S /\ d \in S /\ STRING \subseteq S
  OBVIOUS
<1> HIDE DEF S
<1>3. v \in Seq(S)
  BY <1>2, SeqWider
<1>4. e # d /\ e \in Dropped /\ e \notin Refused /\ d \notin Refused
  BY <1>1 DEF Dropped, Refused
<1>5. /\ r \in Seq(S)
      /\ r # <<>> => Head(r) # d
      /\ \A k \in DOMAIN r : r[k] \notin Refused
  <2>1. CASE coll
    <3>1. r = Append(v, e)
      BY <2>1
    <3>2. /\ r \in Seq(S)
          /\ Head(r) = IF v = <<>> THEN e ELSE Head(v)
          /\ \A k \in DOMAIN r : r[k] = e \/ (k \in DOMAIN v /\ r[k] = v[k])
      BY <1>2, <1>3, <3>1, SlashAdded
    <3>3. v # <<>> => Head(v) # d
      BY <1>1 DEF HasDavPrefix
    <3> HIDE DEF r
    <3> QED
      BY <1>4, <3>2, <3>3
  <2>2. CASE ~coll
    BY <1>1, <1>3, <2>2 DEF HasDavPrefix
  <2> QED
    BY <2>1, <2>2
<1>6. Segments(r) = v
  <2>1. \A k \in 1..Len(v) : v[k] \notin Dropped
    OBVIOUS
  <2>2. r = v \/ r = Append(v, e)
    OBVIOUS
  <2> HIDE DEF r
  <2> QED
    BY <1>2, <1>3, <1>4, <2>1, <2>2, SegmentsRead
<1>7. raw = IF davPrefix THEN <<d>> \o r ELSE r
  <2>1. raw = (IF davPrefix THEN <<d>> ELSE <<>>) \o v \o (IF coll THEN <<e>> ELSE <<>>)
    BY <1>1 DEF EncodePath
  <2>2. /\ <<>> \o v \o <<e>> = Append(v, e)
        /\ <<>> \o v \o <<>> = v
    BY <1>2, <1>3, SlashAdded
  <2>3. <<d>> \o v \o <<e>> = <<d>> \o Append(v, e)
    BY <1>2, <1>3, PrefixAdded
  <2>4. <<d>> \o v \o <<>> = <<d>> \o v
    BY <1>2, <1>3, PrefixAdded
  <2> HIDE DEF raw
  <2> QED
    BY <2>1, <2>2, <2>3, <2>4
<1> HIDE DEF r, raw
<1>8. CASE davPrefix
  <2>1. raw = <<d>> \o r
    BY <1>7, <1>8
  <2>2. raw # <<>> /\ Head(raw) = d /\ Tail(raw) = r
    BY <1>2, <1>5, <2>1, PrefixAdded
  <2>3. \A k \in DOMAIN raw :
          raw[k] = d \/ (k - 1 \in DOMAIN r /\ raw[k] = r[k - 1])
    BY <1>2, <1>5, <2>1, PrefixAdded
  <2>4. \A k \in DOMAIN raw : raw[k] \notin Refused
    BY <1>4, <1>5, <2>3
  <2>5. HasDavPrefix(raw)
    BY <1>1, <2>2 DEF HasDavPrefix
  <2>6. CanonicalPath(raw) = v
    BY <1>6, <2>2, <2>4, <2>5 DEF CanonicalPath
  <2> QED
    BY <1>8, <2>5, <2>6 DEF raw
<1>9. CASE ~davPrefix
  <2>1. raw = r
    BY <1>7, <1>9
  <2>2. HasDavPrefix(raw) = FALSE
    BY <1>1, <1>5, <2>1 DEF HasDavPrefix
  <2>3. CanonicalPath(raw) = v
    BY <1>5, <1>6, <2>1, <2>2 DEF CanonicalPath
  <2> QED
    BY <1>9, <2>2, <2>3 DEF raw
<1> QED
  BY <1>8, <1>9

-----------------------------------------------------------------------------
(* The walk.                                                               *)

\* Every path that is served can be written as an href and read back.
PathsOrdinary ==
  \A p \in DOMAIN tree.resources :
    /\ \A k \in DOMAIN p : p[k] \notin Dropped \cup Refused
    /\ ~HasDavPrefix(p)

\* The href of a resource, and those of all that lie n levels deep at most.
Href(p, davPrefix) == EncodePath(p, tree.resources[p].coll, davPrefix)
HrefsTo(n, davPrefix) ==
  {Href(p, davPrefix) : p \in {q \in DOMAIN tree.resources : Len(q) <= n}}

LEMMA HrefServed ==
  ASSUME TreeOK, PathsOrdinary, NEW p \in DOMAIN tree.resources,
         NEW davPrefix \in BOOLEAN
  PROVE  /\ CanonicalPath(Href(p, davPrefix)) = p
         /\ HasDavPrefix(Href(p, davPrefix)) = davPrefix
         /\ p # BadRequest
<1>1. /\ p \in Seq(STRING) /\ tree.resources[p].coll \in BOOLEAN
      /\ \A k \in DOMAIN p : p[k] \notin Dropped \cup Refused
      /\ ~HasDavPrefix(p)
  BY DEF TreeOK, PathsOrdinary
<1>2. /\ CanonicalPath(Href(p, davPrefix)) = p
      /\ HasDavPrefix(Href(p, davPrefix)) = davPrefix
  BY <1>1, HrefRead DEF Href
<1>3. p # BadRequest
  <2>1. 1 \in DOMAIN BadRequest /\ BadRequest[1] \in Refused
    BY DEF BadRequest, Refused
  <2> QED
    BY <1>1, <2>1
<1> QED
  BY <1>2, <1>3

\* PROPFIND with Depth 1 shows a resource and its children.
LEMMA EntriesShown ==
  ASSUME TreeOK, PathsOrdinary, NEW p \in DOMAIN tree.resources,
         NEW davPrefix \in BOOLEAN
  PROVE  {e.href : e \in PropfindEntries(tree, Href(p, davPrefix), "1")}
           = {Href(v, davPrefix) :
                v \in {p} \cup {c \in DOMAIN tree.resources \ {Root} : Parent(c) = p}}
<1> DEFINE raw == Href(p, davPrefix)
           shown == {p} \cup {c \in DOMAIN tree.resources \ {Root} : Parent(c) = p}
<1>1. /\ CanonicalPath(raw) = p /\ HasDavPrefix(raw) = davPrefix
      /\ p # BadRequest
  BY HrefServed
<1> HIDE DEF raw
<1>2. PropfindStatus(tree, raw, "1") = "MULTI_STATUS"
  BY <1>1 DEF PropfindStatus
<1>3. {p} \cup (IF tree.resources[p].coll THEN ChildrenOf(tree, p) ELSE {}) = shown
  <2>1. ASSUME NEW c \in DOMAIN tree.resources, c # Root, Parent(c) = p
        PROVE  tree.resources[p].coll /\ c \in ChildrenOf(tree, p)
    BY <2>1 DEF ChildrenOf, TreeOK, WellFormed, Connected
  <2>2. ASSUME NEW c \in ChildrenOf(tree, p)
        PROVE  c \in DOMAIN tree.resources /\ c # Root /\ Parent(c) = p
    <3>1. p \in DOMAIN tree.children /\ c \in tree.children[p]
      BY <2>2 DEF ChildrenOf, Listed
    <3> QED
      BY <3>1 DEF TreeOK, WellFormed, ListsExact
  <2> QED
    BY <2>1, <2>2
<1>4. PropfindEntries(tree, raw, "1")
        = {[path |-> v,
            href |-> EncodePath(v, tree.resources[v].coll, davPrefix)] : v \in shown}
  <2> HIDE DEF shown
  <2> QED
    BY <1>1, <1>2, <1>3 DEF PropfindEntries
<1> HIDE DEF shown
<1>5. {e.href : e \in PropfindEntries(tree, raw, "1")}
        = {Href(v, davPrefix) : v \in shown}
  <2>1. ASSUME NEW e \in PropfindEntries(tree, raw, "1")
        PROVE  e.href \in {Href(v, davPrefix) : v \in shown}
    <3>1. PICK v \in shown :
            e = [path |-> v,
                 href |-> EncodePath(v, tree.resources[v].coll, davPrefix)]
      BY <1>4, <2>1
    <3> QED
      BY <3>1 DEF Href
  <2>2. ASSUME NEW v \in shown
        PROVE  \E e \in PropfindEntries(tree, raw, "1") : e.href = Href(v, davPrefix)
    <3> DEFINE e == [path |-> v,
                     href |-> EncodePath(v, tree.resources[v].coll, davPrefix)]
    <3>1. e \in PropfindEntries(tree, raw, "1")
      BY <1>4, <2>2
    <3>2. e.href = Href(v, davPrefix)
      BY DEF Href
    <3> QED
      BY <3>1, <3>2
  <2> QED
    BY <2>1, <2>2
<1> QED
  BY <1>5 DEF raw, shown

LEMMA ParentShorter ==
  ASSUME NEW S, NEW p \in Seq(S), p # Root
  PROVE  Len(Parent(p)) = Len(p) - 1
<1>1. Len(p) \in Nat /\ Len(p) # 0
  BY DEF Root
<1>2. \A k \in 1..(Len(p) - 1) : p[k] \in S
  BY <1>1
<1>3. Len(p) - 1 \in Int
  BY <1>1
<1>4. Len(SubSeq(p, 1, Len(p) - 1)) =
        IF 1 <= Len(p) - 1 THEN (Len(p) - 1) - 1 + 1 ELSE 0
  BY <1>2, <1>3, SubSeqProperties
<1>5. Len(SubSeq(p, 1, Len(p) - 1)) = Len(p) - 1
  <2> DEFINE n == Len(p)
             m == Len(SubSeq(p, 1, Len(p) - 1))
  <2>1. /\ n \in Nat /\ n # 0
        /\ m = IF 1 <= n - 1 THEN (n - 1) - 1 + 1 ELSE 0
    BY <1>1, <1>4
  <2> HIDE DEF n, m
  <2>2. m = n - 1
    BY <2>1
  <2> QED
    BY <2>2 DEF n, m
<1> QED
  BY <1>5 DEF Parent

\* One round of listings reaches one level deeper.
LEMMA OneLevelDeeper ==
  ASSUME TreeOK, PathsOrdinary, NEW davPrefix \in BOOLEAN, NEW n \in Nat
  PROVE  HrefsTo(n + 1, davPrefix)
           = HrefsTo(n, davPrefix) \cup
             UNION {{e.href : e \in PropfindEntries(tree, r, "1")} :
                      r \in HrefsTo(n, davPrefix)}
<1>1. ASSUME NEW c \in DOMAIN tree.resources, Len(c) <= n + 1
      PROVE  \/ Len(c) <= n
             \/ /\ c # Root /\ Parent(c) \in DOMAIN tree.resources
                /\ Len(Parent(c)) <= n
  <2>1. c \in Seq(STRING)
    BY DEF TreeOK
  <2>2. CASE c = Root
    BY <2>2 DEF Root
  <2>3. CASE c # Root
    <3>1. Len(c) \in Nat /\ Len(c) # 0
      BY <2>1, <2>3 DEF Root
    <3>2. Len(Parent(c)) = Len(c) - 1
      BY <2>1, <2>3, ParentShorter
    <3>3. Parent(c) \in DOMAIN tree.resources
      BY <2>3 DEF TreeOK, WellFormed, Connected
    <3> QED
      BY <1>1, <2>3, <3>1, <3>2, <3>3
  <2> QED
    BY <2>2, <2>3
<1>2. ASSUME NEW p \in DOMAIN tree.resources, Len(p) <= n,
             NEW c \in DOMAIN tree.resources, c # Root, Parent(c) = p
      PROVE  Len(c) <= n + 1
  <2>1. c \in Seq(STRING)
    BY DEF TreeOK
  <2>2. Len(c) \in Nat /\ Len(c) # 0
    BY <1>2, <2>1 DEF Root
  <2>3. Len(Parent(c)) = Len(c) - 1
    BY <1>2, <2>1, ParentShorter
  <2> QED
    BY <1>2, <2>2, <2>3
<1>3. ASSUME NEW h \in HrefsTo(n + 1, davPrefix)
      PROVE  \/ h \in HrefsTo(n, davPrefix)
             \/ \E r \in HrefsTo(n, davPrefix) :
                  h \in {e.href : e \in PropfindEntries(tree, r, "1")}
  <2>1. PICK c \in DOMAIN tree.resources : Len(c) <= n + 1 /\ h = Href(c, davPrefix)
    BY DEF HrefsTo
  <2>2. CASE Len(c) <= n
    BY <2>1, <2>2 DEF HrefsTo
  <2>3. CASE ~ (Len(c) <= n)
    <3>1. c # Root /\ Parent(c) \in DOMAIN tree.resources /\ Len(Parent(c)) <= n
      BY <1>1, <2>1, <2>3
    <3>2. Href(Parent(c), davPrefix) \in HrefsTo(n, davPrefix)
      BY <3>1 DEF HrefsTo
    <3>3. h \in {e.href : e \in PropfindEntries(tree, Href(Parent(c), davPrefix), "1")}
      BY <2>1, <3>1, EntriesShown
    <3> QED
      BY <3>2, <3>3
  <2> QED
    BY <2>2, <2>3
<1>4. ASSUME NEW r \in HrefsTo(n, davPrefix),
             NEW h \in {e.href : e \in PropfindEntries(tree, r, "1")}
      PROVE  h \in HrefsTo(n + 1, davPrefix)
  <2>1. PICK p \in DOMAIN tree.resources : Len(p) <= n /\ r = Href(p, davPrefix)
    BY DEF HrefsTo
  <2>2. PICK v \in {p} \cup {c \in DOMAIN tree.resources \ {Root} : Parent(c) = p} :
          h = Href(v, davPrefix)
    <3>1. h \in {Href(v, davPrefix) :
                    v \in {p} \cup {c \in DOMAIN tree.resources \ {Root} : Parent(c) = p}}
      BY <1>4, <2>1, EntriesShown
    <3> QED
      BY <3>1
  <2>3. v \in DOMAIN tree.resources /\ Len(v) <= n + 1
    <3>1. Len(p) \in Nat
      BY DEF TreeOK
    <3> QED
      BY <1>2, <2>1, <2>2, <3>1
  <2> QED
    BY <2>2, <2>3 DEF HrefsTo
<1>5. HrefsTo(n, davPrefix) \subseteq HrefsTo(n + 1, davPrefix)
  <2>1. \A p \in DOMAIN tree.resources : Len(p) \in Nat
    BY DEF TreeOK
  <2>2. \A p \in DOMAIN tree.resources : Len(p) <= n => Len(p) <= n + 1
    BY <2>1
  <2> QED
    BY <2>2 DEF HrefsTo
<1> QED
  BY <1>3, <1>4, <1>5

\* Walk is what any function with its recursion makes of it.
LEMMA WalkIs ==
  ASSUME NEW raw, NEW w,
         w = [n \in 0..MaxDepth |->
                IF n = 0 THEN {raw}
                ELSE w[n - 1] \cup
                     UNION {{e.href : e \in PropfindEntries(tree, r, "1")} :
                              r \in w[n - 1]}]
  PROVE  Walk(raw) = w[MaxDepth]
<1> DEFINE Found(s) == s \cup UNION {{e.href : e \in PropfindEntries(tree, r, "1")} :
                                       r \in s}
           Known(f) == f = [n \in 0..MaxDepth |->
                              IF n = 0 THEN {raw} 
                              ELSE f[n - 1] \cup
                                   UNION {{e.href : e \in PropfindEntries(tree, r, "1")} :
                                            r \in f[n - 1]}]
           g == CHOOSE f : Known(f)
<1>1. Walk(raw) = g[MaxDepth]
  BY Zenon DEF Walk
<1>2. Known(g)
  <2>1. Known(w)
    OBVIOUS
  <2> HIDE DEF Known
  <2> QED
    BY <2>1
<1> HIDE DEF g
<1>3. ASSUME NEW n \in 0..MaxDepth
      PROVE  g[n] = IF n = 0 THEN {raw} ELSE Found(g[n - 1])
  BY <1>2
<1>4. ASSUME NEW n \in 0..MaxDepth
      PROVE  w[n] = IF n = 0 THEN {raw} ELSE Found(w[n - 1])
  OBVIOUS
<1> HIDE DEF Found
<1>5. MaxDepth \in Nat
  BY SnapshotsAssumption
<1> DEFINE T == {n \in Nat : n <= MaxDepth => g[n] = w[n]}
<1>6. 0 \in T
  <2>1. 0 \in 0..MaxDepth
    BY <1>5
  <2>2. g[0] = {raw} /\ w[0] = {raw}
    BY <1>3, <1>4, <2>1
  <2> QED
    BY <2>2
<1>7. ASSUME NEW n \in Nat, n \in T
      PROVE  n + 1 \in T
  <2>1. ASSUME n + 1 <= MaxDepth
        PROVE  g[n + 1] = w[n + 1]
    <3>1. g[n] = w[n]
      BY <1>5, <1>7, <2>1
    <3>2. n + 1 \in 0..MaxDepth /\ (n + 1) - 1 = n /\ n + 1 # 0
      BY <1>5, <2>1
    <3>3. g[n + 1] = Found(g[n]) /\ w[n + 1] = Found(w[n])
      BY <1>3, <1>4, <3>2
    <3> QED
      BY <3>1, <3>3
  <2> QED
    BY <2>1
<1>8. Nat \subseteq T
  <2> HIDE DEF T
  <2> QED
    BY <1>6, <1>7, SetInduction
<1>9. g[MaxDepth] = w[MaxDepth]
  <2>1. MaxDepth \in T
    BY <1>5, <1>8
  <2> QED
    BY <1>5, <2>1
<1> QED
  BY <1>1, <1>9

\* The walk from the root reaches everything that is served.
LEMMA WalkReaches ==
  ASSUME TreeOK, PathsOrdinary, NEW davPrefix \in BOOLEAN
  PROVE  Walk(Href(Root, davPrefix))
           = {Href(p, davPrefix) : p \in DOMAIN tree.resources}
<1> DEFINE w == [n \in 0..MaxDepth |-> HrefsTo(n, davPrefix)]
           Found(s) == s \cup UNION {{e.href : e \in PropfindEntries(tree, r, "1")} :
                                       r \in s}
           u == [n \in 0..MaxDepth |->
                   IF n = 0 THEN {Href(Root, davPrefix)}
                   ELSE w[n - 1] \cup
                        UNION {{e.href : e \in PropfindEntries(tree, r, "1")} :
                                 r \in w[n - 1]}]
<1>1. MaxDepth \in Nat
  BY SnapshotsAssumption
<1>2. HrefsTo(0, davPrefix) = {Href(Root, davPrefix)}
  <2>1. {q \in DOMAIN tree.resources : Len(q) <= 0} = {Root}
    <3>1. Root \in DOMAIN tree.resources /\ Len(Root) = 0
      BY DEF Root, TreeOK, WellFormed, Connected
    <3>2. \A q \in DOMAIN tree.resources : q \in Seq(STRING)
      BY DEF TreeOK
    <3>3. \A q \in DOMAIN tree.resources : Len(q) <= 0 => q = Root
      BY <3>2 DEF Root
    <3> QED
      BY <3>1, <3>3
  <2> QED
    BY <2>1 DEF HrefsTo
<1>3. ASSUME NEW n \in 0..MaxDepth
      PROVE  w[n] = u[n]
  <2>1. CASE n = 0
    BY <1>2, <2>1
  <2>2. CASE n # 0
    <3>1. n - 1 \in Nat /\ n - 1 \in 0..MaxDepth /\ (n - 1) + 1 = n
      BY <1>1, <2>2
    <3>2. HrefsTo(n, davPrefix) = Found(HrefsTo(n - 1, davPrefix))
      BY <3>1, OneLevelDeeper
    <3>3. w[n] = HrefsTo(n, davPrefix) /\ w[n - 1] = HrefsTo(n - 1, davPrefix)
      BY <3>1
    <3>4. u[n] = Found(w[n - 1])
      BY <2>2
    <3> HIDE DEF u, w, Found
    <3> QED
      BY <3>2, <3>3, <3>4
  <2> QED
    BY <2>1, <2>2
<1>4. w = u
  <2>1. w = [n \in 0..MaxDepth |-> w[n]] /\ u = [n \in 0..MaxDepth |-> u[n]]
    OBVIOUS
  <2> HIDE DEF w, u
  <2> QED
    BY <1>3, <2>1
<1>5. w[MaxDepth] = HrefsTo(MaxDepth, davPrefix)
  BY <1>1
<1>6. Walk(Href(Root, davPrefix)) = w[MaxDepth]
  <2> HIDE DEF w
  <2> QED
    BY <1>4, WalkIs
<1>7. HrefsTo(MaxDepth, davPrefix) = {Href(p, davPrefix) : p \in DOMAIN tree.resources}
  BY DEF HrefsTo, TreeOK
<1> QED
  BY <1>5, <1>6, <1>7

\* The hrefs of the root.
LEMMA RootHrefs ==
  ASSUME NEW S, NEW d \in S, NEW e \in S
  PROVE  /\ <<>> \o <<>> \o <<e>> = <<e>>
         /\ <<d>> \o <<>> \o <<e>> = <<d, e>>
<1>1. <<d>> \in Seq(S) /\ <<e>> \in Seq(S) /\ <<d, e>> \in Seq(S)
  OBVIOUS
<1>2. <<>> \o <<>> \o <<e>> = <<e>>
  OBVIOUS
<1>3. <<d>> \o <<>> \o <<e>> = <<d, e>>
  <2>1. <<d>> \o <<>> = <<d>>
    BY <1>1, ConcatEmptySeq
  <2>2. <<d>> \o <<e>> = <<d, e>>
    <3>1. /\ <<d>> \o <<e>> \in Seq(S) /\ Len(<<d>> \o <<e>>) = 2
          /\ (<<d>> \o <<e>>)[1] = d /\ (<<d>> \o <<e>>)[2] = e
      BY <1>1, ConcatProperties
    <3>2. Len(<<d, e>>) = 2 /\ <<d, e>>[1] = d /\ <<d, e>>[2] = e
      OBVIOUS
    <3> DEFINE a == <<d>> \o <<e>>
               b == <<d, e>>
    <3>3. a \in Seq(S) /\ b \in Seq(S) /\ Len(a) = Len(b)
      BY <1>1, <3>1, <3>2
    <3>4. \A i \in 1..Len(a) : a[i] = b[i]
      <4>1. 1..2 = {1, 2}
        OBVIOUS
      <4>2. Len(a) = 2 /\ a[1] = b[1] /\ a[2] = b[2]
        BY <3>1, <3>2
      <4> HIDE DEF a, b
      <4> QED
        BY <4>1, <4>2
    <3> HIDE DEF a, b
    <3>5. a = b
      BY <3>3, <3>4, SeqEqual
    <3> QED
      BY <3>5 DEF a, b
  <2> QED
    BY <2>1, <2>2
<1> QED
  BY <1>2, <1>3

LEMMA WalkFinds ==
  ASSUME TreeOK, PathsOrdinary
  PROVE  WalkFindsAll
<1> SUFFICES ASSUME NEW start \in {<<"">>, <<"dav", "">>}
             PROVE  /\ {CanonicalPath(r) : r \in Walk(start)} = DOMAIN tree.resources
                    /\ \A r \in Walk(start) :
                         ProxyStatus(tree, r, "HEAD") \in {"OK", "STREAMED"}
  BY DEF WalkFindsAll
<1>1. PICK davPrefix \in BOOLEAN : start = Href(Root, davPrefix)
  <2>1. tree.resources[Root].coll = TRUE
    BY DEF TreeOK, WellFormed, Connected
  <2>2. \A e : <<>> \o <<>> \o <<e>> = <<e>>
    <3>1. \A e : e \in {e}
      OBVIOUS
    <3> QED
      BY <3>1, RootHrefs
  <2>3. \A e, d : <<d>> \o <<>> \o <<e>> = <<d, e>>
    <3>1. \A e, d : e \in {d, e} /\ d \in {d, e}
      OBVIOUS
    <3> QED
      BY <3>1, RootHrefs
  <2>4. Href(Root, FALSE) = <<>> \o <<>> \o <<"">>
    BY <2>1 DEF Href, EncodePath, Root
  <2>5. Href(Root, TRUE) = <<"dav">> \o <<>> \o <<"">>
    BY <2>1 DEF Href, EncodePath, Root
  <2>6. Href(Root, FALSE) = <<"">> /\ Href(Root, TRUE) = <<"dav", "">>
    BY <2>2, <2>3, <2>4, <2>5, Zenon
  <2> QED
    BY <2>6
<1>2. Walk(start) = {Href(p, davPrefix) : p \in DOMAIN tree.resources}
  BY <1>1, WalkReaches
<1>3. ASSUME NEW p \in DOMAIN tree.resources
      PROVE  /\ CanonicalPath(Href(p, davPrefix)) = p
             /\ ProxyStatus(tree, Href(p, davPrefix), "HEAD") \in {"OK", "STREAMED"}
  <2>1. CanonicalPath(Href(p, davPrefix)) = p /\ p # BadRequest
    BY HrefServed
  <2> QED
    <3>1. Lookup(tree, Href(p, davPrefix)) = "FOUND"
      BY <2>1 DEF Lookup
    <3>2. CASE tree.resources[p].coll
      BY <2>1, <3>1, <3>2 DEF ProxyStatus
    <3>3. CASE ~tree.resources[p].coll
      BY <2>1, <3>1, <3>3 DEF ProxyStatus
    <3> QED
      BY <2>1, <3>2, <3>3
<1>4. {CanonicalPath(r) : r \in Walk(start)} = DOMAIN tree.resources
  <2>1. \A r \in Walk(start) : \E p \in DOMAIN tree.resources : CanonicalPath(r) = p
    BY <1>2, <1>3
  <2>2. \A p \in DOMAIN tree.resources : \E r \in Walk(start) : CanonicalPath(r) = p
    BY <1>2, <1>3
  <2> QED
    BY <2>1, <2>2
<1>5. \A r \in Walk(start) : ProxyStatus(tree, r, "HEAD") \in {"OK", "STREAMED"}
  BY <1>2, <1>3
<1> QED
  BY <1>4, <1>5

\* Nothing but a snapshot brings names in.
LEMMA NamesStayOrdinary ==
  ASSUME OrdinaryNames
  PROVE  Spec => []PathsOrdinary
<1>1. Init => PathsOrdinary
  <2> SUFFICES ASSUME Init PROVE PathsOrdinary
    OBVIOUS
  <2>1. CASE tree = EmptyTree
    <3>1. DOMAIN tree.resources = {Root}
      BY <2>1 DEF EmptyTree
    <3>2. DOMAIN Root = {} /\ ~HasDavPrefix(Root)
      BY DEF Root, HasDavPrefix
    <3> QED
      BY <3>1, <3>2 DEF PathsOrdinary
  <2>2. CASE tree \in Snapshots
    BY <2>2 DEF OrdinaryNames, PathsOrdinary
  <2> QED
    BY <2>1, <2>2 DEF Init
<1>2. PathsOrdinary /\ [Next]_svars => PathsOrdinary'
  <2> SUFFICES ASSUME PathsOrdinary, [Next]_svars PROVE PathsOrdinary'
    OBVIOUS
  <2>1. ASSUME tree' = tree
        PROVE  PathsOrdinary'
    BY <2>1 DEF PathsOrdinary
  <2>2. ASSUME NEW c \in Clients, DeleteDone(c)
        PROVE  PathsOrdinary'
    <3>1. CASE tree' = RemoveItem(tree, target[c])
      BY <3>1 DEF RemoveItem, PathsOrdinary
    <3> QED
      BY <2>1, <2>2, <3>1 DEF DeleteDone
  <2>3. CASE Publish
    BY <2>3 DEF Publish, OrdinaryNames, PathsOrdinary
  <2> QED
    BY <2>1, <2>2, <2>3
       DEF Next, Request, Healthz, Ready, Unauthorized, Metrics, Refresh,
           Options, OtherMethod, Propfind, Proxy, DeleteRefused, DeleteItem,
           svars
<1> QED
  BY <1>1, <1>2, PTL DEF Spec

\* Whatever has been published, deleted or restored, a client that mounts the
\* server at / or at /dav/ and follows the hrefs finds all that is served,
\* and only that, as long as every name reads back as it is written.
THEOREM WalkAlwaysFindsAll ==
  ASSUME OrdinaryNames
  PROVE  Spec => []WalkFindsAll
<1>1. SInv /\ PathsOrdinary => WalkFindsAll
  BY WalkFinds DEF SInv
<1> QED
  BY <1>1, ServerInvariant, NamesStayOrdinary, PTL

-----------------------------------------------------------------------------
(* The streaming proxy.                                                    *)

(***************************************************************************)
(* A part that is on its way has the ETag of the copy, because a request   *)
(* for the rest of a copy carries the copy's ETag to upstream.             *)
(***************************************************************************)
InFlight ==
  /\ phase = "sent" /\ request.range # Gone /\ Have # {} =>
       request.ifRange = etag \/ request.ifMatch = etag
  /\ phase = "body" /\ body.at <= Parts => body.version = etag /\ body.version # Gone

StreamInv == TypeOK /\ OneVersion /\ InFlight

\* The initial states satisfy the invariant.
LEMMA StreamInitially == StreamInit => StreamInv
<1> SUFFICES ASSUME StreamInit PROVE StreamInv
  OBVIOUS
<1> USE StreamingAssumption DEF StreamInit, Versions
<1>1. TypeOK
  BY DEF TypeOK, ClientRequest, NoRequest, NoBody, NoCopy
<1>2. OneVersion /\ InFlight
  BY DEF OneVersion, InFlight, Have, NoCopy
<1> QED
  BY <1>1, <1>2 DEF StreamInv

\* What upstream may answer.
LEMMA Answers ==
  ASSUME NEW r \in ClientRequest, NEW v \in Versions \cup {Gone},
         NEW a, a = Answer(v, r)
  PROVE  /\ a.status \in {200, 206, 304, 404, 412}
         /\ a.at \in 1..(Parts + 1)
         /\ a.at <= Parts => v # Gone /\ r.method = "GET" /\ a.status \in {200, 206}
         /\ a.status \in {200, 206} => a.headers.etag = v
         /\ a.headers.etag \in Versions \cup {Gone}
         /\ a.status = 200 /\ r.method = "GET" => a.at = 1
         /\ a.status = 206 =>
              /\ r.range # Gone /\ a.at = r.range /\ a.headers.contentRange = r.range
              /\ r.ifRange \in {Gone, v} /\ r.ifMatch \in {Gone, v} /\ v # Gone
<1> USE StreamingAssumption DEF ClientRequest
<1>1. CASE v = Gone
  BY <1>1 DEF Answer
<1>2. CASE v # Gone /\ r.ifMatch \notin {Gone, v}
  BY <1>2 DEF Answer
<1>3. CASE v # Gone /\ r.ifMatch \in {Gone, v} /\ r.ifNoneMatch = v
  BY <1>3 DEF Answer
<1>4. CASE v # Gone /\ r.ifMatch \in {Gone, v} /\ r.ifNoneMatch # v
  BY <1>4 DEF Answer
<1> QED
  BY <1>1, <1>2, <1>3, <1>4

\* The answer comes: the client's copy and what is on its way agree.
LEMMA RespondKeeps ==
  ASSUME StreamInv, AnswerClient
  PROVE  StreamInv'
<1> USE StreamingAssumption
<1> DEFINE a == Answer(files[source], request)
<1> DEFINE v == files[source]
<1>1. /\ phase = "sent" /\ source \in Sources /\ request \in ClientRequest
      /\ v \in Versions \cup {Gone}
  BY DEF AnswerClient, StreamInv, TypeOK
<1>2. /\ a.status \in {200, 206, 304, 404, 412}
      /\ a.at \in 1..(Parts + 1)
      /\ a.at <= Parts => v # Gone /\ request.method = "GET" /\ a.status \in {200, 206}
      /\ a.status \in {200, 206} => a.headers.etag = v
      /\ a.headers.etag \in Versions \cup {Gone}
      /\ a.status = 200 /\ request.method = "GET" => a.at = 1
      /\ a.status = 206 =>
           /\ request.range # Gone /\ a.at = request.range
           /\ a.headers.contentRange = request.range
           /\ request.ifRange \in {Gone, v} /\ request.ifMatch \in {Gone, v} /\ v # Gone
  BY <1>1, Answers
<1>3. /\ body' = [at |-> a.at, version |-> v] /\ phase' = "body"
      /\ UNCHANGED <<files, version, alias, source, request>>
  BY DEF AnswerClient
<1> HIDE DEF a, v
<1>4. Gone \notin Versions /\ Gone \notin 1..Parts
  BY DEF Versions
<1>5. request.method \in {"GET", "HEAD"} /\ request.range \in 1..Parts \cup {Gone}
  BY <1>1 DEF ClientRequest
<1>6. NoCopy \in [1..Parts -> Versions \cup {Gone}] /\ \A k \in 1..Parts : NoCopy[k] = Gone
  BY DEF NoCopy
<1>7. ASSUME copy' \in [1..Parts -> Versions \cup {Gone}], etag' \in Versions \cup {Gone},
             place' \in 1..(Parts + 1),
             \A k \in 1..Parts : copy'[k] # Gone => copy'[k] = etag',
             a.at <= Parts => place' = a.at /\ etag' = v
      PROVE  StreamInv'
  <2>1. TypeOK'
    BY <1>1, <1>2, <1>3, <1>7 DEF TypeOK, StreamInv
  <2>2. OneVersion' /\ InFlight'
    BY <1>2, <1>3, <1>7 DEF OneVersion, InFlight, Have
  <2> QED
    BY <2>1, <2>2 DEF StreamInv
<1>8. /\ copy \in [1..Parts -> Versions \cup {Gone}] /\ etag \in Versions \cup {Gone}
      /\ \A k \in 1..Parts : copy[k] # Gone => copy[k] = etag
      /\ 1 \in 1..(Parts + 1)
  BY DEF StreamInv, TypeOK, OneVersion, Have
<1>9. CASE a.status = 200 /\ request.method = "GET"
  <2>1. copy' = NoCopy /\ etag' = a.headers.etag /\ place' = 1
    BY <1>9 DEF AnswerClient, Copied, a, v
  <2> QED
    BY <1>2, <1>6, <1>7, <1>8, <1>9, <2>1
<1>10. CASE a.status = 200 /\ request.method = "HEAD"
  <2>1. /\ copy' = IF a.headers.etag = etag THEN copy ELSE NoCopy
        /\ etag' = a.headers.etag /\ place' = 1
    BY <1>10 DEF AnswerClient, Copied, a, v
  <2> QED
    BY <1>2, <1>6, <1>7, <1>8, <1>10, <2>1
<1>11. CASE a.status = 206
  <2>1. /\ copy' = copy
        /\ etag' = IF Have = {} THEN a.headers.etag ELSE etag
        /\ place' = a.headers.contentRange
    BY <1>11 DEF AnswerClient, Copied, a, v
  <2>2. place' = a.at /\ place' \in 1..(Parts + 1)
    BY <1>2, <1>11, <2>1
  <2>3. Have # {} => etag # Gone
    BY <1>8 DEF Have
  <2>4. etag' = v
    BY <1>1, <1>2, <1>11, <2>1, <2>3 DEF StreamInv, InFlight
  <2>5. \A k \in 1..Parts : copy'[k] # Gone => copy'[k] = etag'
    BY <1>8, <2>1 DEF Have
  <2> QED
    BY <1>1, <1>7, <1>8, <2>1, <2>2, <2>4, <2>5
<1>12. CASE a.status = 412
  <2>1. copy' = NoCopy /\ etag' = Gone /\ place' = 1
    BY <1>12 DEF AnswerClient, Copied, a, v
  <2> QED
    BY <1>2, <1>6, <1>7, <1>8, <1>12, <2>1
<1>13. CASE a.status \in {304, 404}
  <2>1. copy' = copy /\ etag' = etag /\ place' = 1
    BY <1>13 DEF AnswerClient, Copied, a, v
  <2> QED
    BY <1>2, <1>7, <1>8, <1>13, <2>1
<1> QED
  BY <1>2, <1>5, <1>9, <1>10, <1>11, <1>12, <1>13

\* A part of the body arrives.
LEMMA PartKeeps ==
  ASSUME StreamInv, BodyPart
  PROVE  StreamInv'
<1> USE StreamingAssumption
<1>1. /\ phase = "body" /\ place = body.at /\ body.version = etag /\ etag # Gone
      /\ place \in 1..Parts
  BY DEF BodyPart, StreamInv, TypeOK, OneVersion, InFlight
<1>2. /\ body' = [body EXCEPT !.at = @ + 1] /\ place' = place + 1
      /\ copy' = [copy EXCEPT ![place] = etag]
      /\ UNCHANGED <<files, version, alias, phase, source, request, etag>>
  BY <1>1 DEF BodyPart
<1>3. TypeOK'
  BY <1>1, <1>2 DEF StreamInv, TypeOK
<1>4. \A k \in 1..Parts : copy'[k] # Gone => copy'[k] = etag
  BY <1>1, <1>2 DEF StreamInv, TypeOK, OneVersion, Have
<1>5. body'.at = place' /\ body'.version = etag
  BY <1>1, <1>2 DEF StreamInv, TypeOK
<1>6. OneVersion' /\ InFlight'
  BY <1>1, <1>2, <1>4, <1>5 DEF OneVersion, InFlight, Have
<1> QED
  BY <1>3, <1>6 DEF StreamInv

\* Every step keeps the invariant.
LEMMA StreamStep == StreamInv /\ [StreamNext]_vars => StreamInv'
<1> SUFFICES ASSUME StreamInv, [StreamNext]_vars PROVE StreamInv'
  OBVIOUS
<1> USE StreamingAssumption DEF StreamInv
<1>1. CASE UNCHANGED vars
  BY <1>1 DEF vars, TypeOK, OneVersion, InFlight, Have
<1>2. CASE UpstreamChange
  <2>1. files' \in [Sources -> Versions \cup {Gone}] /\ version' \in 0..MaxVersion
    BY <1>2 DEF UpstreamChange, TypeOK, Versions
  <2> QED
    BY <1>2, <2>1 DEF UpstreamChange, TypeOK, OneVersion, InFlight, Have
<1>3. CASE Republish
  BY <1>3 DEF Republish, TypeOK, OneVersion, InFlight, Have
<1>4. ASSUME NEW r \in Requests, Ask(r)
      PROVE  StreamInv'
  <2>1. /\ r \in ClientRequest /\ request' = r /\ phase' = "sent" /\ source' = alias /\ alias # Gone
        /\ UNCHANGED <<files, version, alias, body, place, copy, etag>>
    BY <1>4 DEF Ask, Forwarded, Requests
  <2>2. TypeOK' /\ OneVersion'
    BY <2>1 DEF TypeOK, OneVersion, Have
  <2>3. Have # {} => etag # Gone
    BY DEF OneVersion, Have
  <2>4. InFlight'
    BY <1>4, <2>1, <2>3 DEF InFlight, Requests, Have
  <2> QED
    BY <2>2, <2>4
<1>5. CASE BadGateway \/ BodyEnds
  BY <1>5
  DEF BadGateway, BodyEnds, EndRequest, NoBody, NoRequest, ClientRequest, TypeOK, OneVersion,
      InFlight, Have
<1> QED
  BY <1>1, <1>2, <1>3, <1>4, <1>5, RespondKeeps, PartKeeps DEF StreamNext

\* Every behaviour of Streaming satisfies the invariant.
LEMMA StreamInvariant == StreamSpec => []StreamInv
  BY StreamInitially, StreamStep, PTL DEF StreamSpec

-----------------------------------------------------------------------------
\* All variables keep their types: no part is put where there is no place for it.
THEOREM StreamTypeCorrect == StreamSpec => []TypeOK
<1>1. StreamInv => TypeOK
  BY DEF StreamInv
<1> QED
  BY <1>1, StreamInvariant, PTL

\* For files of any length, any number of them, and any history of changes, what
\* a client puts together from ranges is one version of one file.
THEOREM RangesFit == StreamSpec => []OneVersion
<1>1. StreamInv => OneVersion
  BY DEF StreamInv
<1> QED
  BY <1>1, StreamInvariant, PTL
=============================================================================
