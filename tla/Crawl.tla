-------------------------------- MODULE Crawl --------------------------------
(***************************************************************************)
(* Upstream::discover (upstream.rs) at the grain of one PROPFIND: a scan   *)
(* lists the base collection, then crawls its items, several at a time,    *)
(* each breadth first, while others change the library.  What the scan     *)
(* returns is the catalogue of items that the next scan may reuse and that *)
(* DELETE requests refer to.                                               *)
(*                                                                         *)
(* A path is a sequence of names below the base collection, a listed       *)
(* resource [path, coll, version]; version stands for its metadata.  Names *)
(* are what the hrefs of a listing decode to.                              *)
(***************************************************************************)
EXTENDS Naturals, SequencesExt

CONSTANTS
  Places,       \* the paths at which upstream may have something
  Unescaped,    \* name -> the name it is when read as percent-encoded text
  BaseEncoded,  \* the path of the configured URL has percent-encoded characters
  Concurrency,  \* crawl_concurrency
  MaxChanges,   \* bound: upstream changes
  MaxFaults     \* bound: failed PROPFINDs and stalls

Base == <<>>
Under(p) == {q \in Places : IsPrefix(p, q)}
Names == UNION {ToSet(p) : p \in Places}

ASSUME PlacesAssumption ==
  /\ IsFiniteSet(Places)
  /\ Places \subseteq Seq(STRING)
  /\ Base \notin Places
  /\ \A p \in Places : Front(p) \in Places \cup {Base}

ASSUME NamesAssumption ==
  /\ DOMAIN Unescaped = Names
  /\ BaseEncoded \in BOOLEAN

ASSUME BoundsAssumption ==
  /\ Concurrency \in Nat \ {0}
  /\ MaxChanges \in Nat
  /\ MaxFaults \in Nat

VARIABLES
  library,    \* upstream: path -> [coll, version]
  scanning,   \* discover is running
  full,       \* its argument
  waiting,    \* listed items whose crawl has not started
  crawls,     \* path of an item -> its crawl: root, queue, descendants
  stalled,    \* whose response body does not arrive: a crawl's, or the base listing's
  catalogue,  \* the items the last scan returned, without those deleted since
  always,     \* history: resources that have been there since the scan began
  ever,       \* history: resources that were there at some time since then
  changes,
  faults
vars == <<library, scanning, full, waiting, crawls, stalled, catalogue, always,
          ever, changes, faults>>

Entry == [coll: BOOLEAN, version: 0..MaxChanges]
Resource == [path: Places \cup {Base}, coll: BOOLEAN, version: 0..MaxChanges]
Item == [root: Resource, descendants: Seq(Resource)]

At(lib, p) == [path |-> p, coll |-> lib[p].coll, version |-> lib[p].version]
Resources(lib) == {At(lib, p) : p \in DOMAIN lib \ {Base}}
Descendants(i) == ToSet(i.descendants)
Crawling == [root: Resource, queue: Seq(Places \cup {Base}),
             descendants: Seq(Resource)]

TypeOK ==
  /\ Base \in DOMAIN library
  /\ library \in [DOMAIN library -> Entry]
  /\ DOMAIN library \subseteq Places \cup {Base}
  /\ scanning \in BOOLEAN /\ full \in BOOLEAN
  /\ ~scanning => waiting = {} /\ crawls = <<>> /\ stalled = {}
  /\ waiting \subseteq Resource
  /\ crawls \in [DOMAIN crawls -> Crawling]
  /\ stalled \subseteq DOMAIN crawls \cup {Base}
  /\ catalogue \subseteq Item
  /\ always \subseteq Resource /\ ever \subseteq Resource
  /\ changes \in 0..MaxChanges /\ faults \in 0..MaxFaults

\* Every entry but the base is in a collection.
Libraries ==
  {lib \in UNION {[P \cup {Base} -> [coll: BOOLEAN, version: {0}]] : P \in SUBSET Places} :
     /\ lib[Base].coll
     /\ \A p \in DOMAIN lib \ {Base} : Front(p) \in DOMAIN lib /\ lib[Front(p)].coll}

Init ==
  /\ library \in Libraries
  /\ scanning = FALSE
  /\ full = TRUE
  /\ waiting = {}
  /\ crawls = <<>>
  /\ stalled = {}
  /\ catalogue = {}
  /\ always = {} /\ ever = {}
  /\ changes = 0
  /\ faults = 0

-----------------------------------------------------------------------------
(* The upstream server, changed by others at any time.                     *)

With(f, x, v) == [y \in DOMAIN f \cup {x} |-> IF y = x THEN v ELSE f[y]]
Without(lib, p) == Restrict(lib, DOMAIN lib \ Under(p))

Change(lib) ==
  /\ changes < MaxChanges
  /\ changes' = changes + 1
  /\ library' = lib
  /\ always' = always \cap Resources(lib)
  /\ ever' = IF scanning THEN ever \cup Resources(lib) ELSE ever
  /\ UNCHANGED <<scanning, full, waiting, crawls, stalled, catalogue, faults>>

\* Something appears, or is replaced by something of the same or another kind.
Put ==
  \E p \in Places, kind \in BOOLEAN :
    /\ Front(p) \in DOMAIN library /\ library[Front(p)].coll
    /\ Change(With(Without(library, p), p, [coll |-> kind, version |-> changes + 1]))

\* The metadata of something changes, what is below it stays.
Touch ==
  \E p \in DOMAIN library \ {Base} :
    Change([library EXCEPT ![p].version = changes + 1])

Vanish ==
  \E p \in DOMAIN library \ {Base} : Change(Without(library, p))

-----------------------------------------------------------------------------
(* propfind.                                                               *)

\* The resource that a request with source_path p is about: Url::set_path
\* escapes what cannot be in a path but leaves a percent sign as it is, so that
\* text which looks percent-encoded is taken for an encoding.
Requested(p) == [k \in DOMAIN p |-> Unescaped[p[k]]]

\* mutant: the listing of a collection has what is deeper as well
ListingInfinite(p) == {At(library, q) : q \in {q \in DOMAIN library : IsPrefix(p, q)}}

\* Depth 1: the resource itself and what is directly in it.
Listing(p) ==
  {At(library, q) : q \in {q \in DOMAIN library : q = p \/ (q # Base /\ Front(q) = p)}}

-----------------------------------------------------------------------------
(* discover.                                                               *)

\* The base appears in its own listing.  Its path is compared in the encoded
\* form of the URL, the listed ones are decoded.
Children == {r \in Listing(Base) : r.path # Base \/ BaseEncoded}

Discover ==
  /\ ~scanning
  /\ scanning' = TRUE
  /\ full' \in BOOLEAN
  /\ waiting' = Children
  /\ crawls' = <<>>
  /\ always' = Resources(library) /\ ever' = Resources(library)
  /\ UNCHANGED <<library, stalled, catalogue, changes, faults>>

InFlight == {p \in DOMAIN crawls : crawls[p].queue # <<>>}

\* mutant: an item is reused by its id alone
CachedById(root) == {i \in catalogue : i.root.path = root.path /\ ~full}

Cached(root) == {i \in catalogue : i.root = root /\ ~full}

\* A slot of buffer_unordered is free: the next item is reused, or crawled from
\* its own collection, or is a plain file with nothing to crawl.  The listing of
\* the base has arrived.
Begin ==
  /\ Cardinality(InFlight) < Concurrency
  /\ Base \in stalled => Base \in DOMAIN crawls
  /\ \E r \in waiting :
       /\ waiting' = waiting \ {r}
       /\ crawls' = With(crawls, r.path,
            [root |-> r,
             queue |-> IF r.coll /\ Cached(r) = {} THEN <<r.path>> ELSE <<>>,
             descendants |-> IF Cached(r) = {} THEN <<>>
                             ELSE (CHOOSE i \in Cached(r) : TRUE).descendants])
  /\ UNCHANGED <<library, scanning, full, stalled, catalogue, always, ever, changes,
                 faults>>

\* crawl_item: the paths in its set `seen`.
Seen(c) == {c.root.path} \cup {r.path : r \in Descendants(c)}

\* The collections among listed resources, in their order.
Collections(order) ==
  LET pushed[n \in 0..Len(order)] ==
        IF n = 0 THEN <<>>
        ELSE IF order[n].coll THEN Append(pushed[n - 1], order[n].path)
        ELSE pushed[n - 1]
  IN pushed[Len(order)]

\* One turn of the loop: the listing of the next collection in the queue.
CrawlStep(p) ==
  /\ p \in InFlight \ stalled
  /\ LET c == crawls[p]
         at == Requested(Head(c.queue))
     IN /\ at \in DOMAIN library
        /\ \E order \in SetToSeqs({r \in Listing(at) : r.path \notin Seen(c)}) :
             crawls' = [crawls EXCEPT ![p] =
               [root |-> c.root,
                queue |-> Tail(c.queue) \o Collections(order),
                descendants |-> c.descendants \o order]]
  /\ UNCHANGED <<library, scanning, full, waiting, stalled, catalogue, always, ever,
                 changes, faults>>

\* mutant: crawls in flight are tasks of their own
AbandonDetached ==
  /\ scanning' = FALSE
  /\ always' = {} /\ ever' = {}
  /\ UNCHANGED <<library, full, waiting, crawls, stalled, catalogue, changes>>

\* One failed PROPFIND fails the scan; crawls in flight are dropped.
Abandon ==
  /\ scanning' = FALSE
  /\ waiting' = {}
  /\ crawls' = <<>>
  /\ stalled' = {}
  /\ always' = {} /\ ever' = {}
  /\ UNCHANGED <<library, full, catalogue, changes>>

\* mutant: what is gone is asked for again
CrawlMissingRetried(p) ==
  /\ p \in InFlight \ stalled
  /\ Requested(Head(crawls[p].queue)) \notin DOMAIN library
  /\ UNCHANGED vars

\* What was listed a moment ago is gone.
CrawlMissing(p) ==
  /\ p \in InFlight \ stalled
  /\ Requested(Head(crawls[p].queue)) \notin DOMAIN library
  /\ Abandon
  /\ UNCHANGED faults

PropfindFails ==
  /\ scanning
  /\ faults < MaxFaults
  /\ faults' = faults + 1
  /\ Abandon

\* The response bodies under way; the listing of the base is one until the first
\* item is taken up.
Receiving == InFlight \cup {p \in {Base} : crawls = <<>>}

\* The header timeout does not cover the body.
BodyStalls ==
  /\ scanning
  /\ faults < MaxFaults
  /\ \E p \in Receiving \ stalled : stalled' = stalled \cup {p}
  /\ faults' = faults + 1
  /\ UNCHANGED <<library, scanning, full, waiting, crawls, catalogue, always, ever,
                 changes>>

BodyResumes ==
  /\ \E p \in stalled : stalled' = stalled \ {p}
  /\ UNCHANGED <<library, scanning, full, waiting, crawls, catalogue, always, ever,
                 changes, faults>>

Finished == waiting = {} /\ InFlight = {} /\ stalled = {}

\* try_collect has all items.
Collect ==
  /\ scanning
  /\ Finished
  /\ catalogue' = {[root |-> crawls[p].root, descendants |-> crawls[p].descendants] :
                     p \in DOMAIN crawls}
  /\ scanning' = FALSE
  /\ crawls' = <<>>
  /\ always' = {} /\ ever' = {}
  /\ UNCHANGED <<library, full, waiting, stalled, changes, faults>>

-----------------------------------------------------------------------------
\* delete_item for an item of the catalogue: upstream removes what the request
\* is about, with all that is below it (of the base, all but the base itself).
DeleteItem(i) ==
  /\ ~scanning
  /\ i \in catalogue
  /\ Requested(i.root.path) \in DOMAIN library
  /\ library' = Without(library, Requested(i.root.path))
  /\ catalogue' = catalogue \ {i}
  /\ UNCHANGED <<scanning, full, waiting, crawls, stalled, always, ever, changes,
                 faults>>

ScanStep ==
  \/ Begin
  \/ \E p \in DOMAIN crawls : CrawlStep(p) \/ CrawlMissing(p)
  \/ Collect

Next ==
  \/ Put \/ Touch \/ Vanish
  \/ Discover \/ ScanStep \/ PropfindFails
  \/ BodyStalls \/ BodyResumes
  \/ \E i \in catalogue : DeleteItem(i)

\* A scan goes on where it has something to go on with: connections are made and
\* headers answered in time or not at all.  Nothing makes upstream change, fail or
\* delete, nor a stalled body resume.
Spec == Init /\ [][Next]_vars /\ WF_vars(ScanStep)

-----------------------------------------------------------------------------
(* Properties.                                                             *)

\* What the classifier takes for granted when it skips a selected folder it does
\* not know (filter.rs): what an item has below it is there once, and comes after
\* the collection it is in, however upstream changed during the crawl.
ItemsConnected ==
  \A i \in catalogue :
    LET d == i.descendants
    IN /\ ~i.root.coll => d = <<>>
       /\ \A j, k \in DOMAIN d : d[j].path = d[k].path => j = k
       /\ \A k \in DOMAIN d :
            /\ d[k].path # i.root.path
            /\ \/ Front(d[k].path) = i.root.path
               \/ \E j \in 1..(k - 1) : d[j].path = Front(d[k].path) /\ d[j].coll

Tops(resources) == {r \in resources : Len(r.path) = 1}
Below(resources, p) == {r \in resources : r.path # p /\ IsPrefix(p, r.path)}
IsBetween(low, set, high) == low \subseteq set /\ set \subseteq high

\* A scan of a library that changes under way returns everything that was there
\* all the time and nothing that never was, for the items and below each item it
\* crawled; of a quiet library that is the library itself.  An item it did not
\* crawl is one of the previous scan whose own metadata has not changed.
ScanFaithful ==
  [][Collect =>
       /\ IsBetween(Tops(always), {i.root : i \in catalogue'}, ever)
       /\ \A i \in catalogue' :
            \/ ~full /\ i \in catalogue
            \/ /\ full \/ i.root \notin {c.root : c \in catalogue}
               /\ IsBetween(Below(always, i.root.path), Descendants(i), ever)]_vars

\* "deleting an item or any descendant deletes the entire corresponding
\* top-level upstream item": that item, all of it, and no other.
DeletesThatItem ==
  [][\A i \in catalogue : DeleteItem(i) =>
       /\ Len(i.root.path) = 1
       /\ library' = Without(library, i.root.path)]_vars

\* No body stays stalled for good.
BodiesArrive == \A p \in Places \cup {Base} : []<>(p \notin stalled)

\* A scan ends, by returning items or an error, whatever changes, vanishes or
\* fails under way, if every body that stalls resumes: nothing in the code sees to
\* that.
ScanEnds == BodiesArrive => (scanning ~> ~scanning)
=============================================================================
