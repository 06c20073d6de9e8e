# A specification of webdav-filter

webdav-filter crawls an upstream WebDAV library, sorts its top-level items into
virtual directories, and answers PROPFIND, GET, HEAD and DELETE from the
resulting snapshot. This directory holds TLA+ modules that model it, TLC
configurations that check them on small instances, and proofs that TLAPS checks
for all instances. Paths below are relative to the repository (`src/index.rs` is
the Rust file); `PROJECT.json` writes them with the checkout's `src/` in front.

Run `tlc -config X.cfg M` for the runs of the table below, and `tlapm M.tla` for
the proof modules.

## Inventory

| part | source | state | operations |
|---|---|---|---|
| Index | `index.rs` | served snapshot, `refresh_lock`, cached source items, time of the last full refresh and of the last hook call | `new`, `refresh`, `delete_item`, `snapshot`, `ready` |
| Snapshot store | `store.rs` | one SQLite row | `open`, `load`, `save` |
| Snapshot | `model.rs` | resources and child lists by virtual path | `empty`, `get`, `children_of` |
| Classifier | `filter.rs` | none after `compile` | `build_snapshot`, `add_item`, `visible_files`, `unique_name` |
| Filters | `filter.rs` | none | `matches` over one item |
| Upstream client | `upstream.rs` | none | `discover`, `crawl_item`, `propfind`, `delete_item`, `call_hook` |
| Multistatus parser | `upstream.rs` | the response being read, the active element | `parse_multistatus`, `into_resource` |
| Refresh hook | `index.rs`, `upstream.rs` | time of the last call | `maybe_call_hook`, `call_hook` |
| Update command | `index.rs` | none | `changed_roots`, `run_library_update` |
| Server | `server.rs` | none of its own | one handler per route and method |
| Streaming proxy | `server.rs` | none of its own | `proxy`, `copy_response_headers` |
| Start-up and loop | `main.rs` | the bound address, the refresh loop | start stage by stage, initial refresh, then one per interval; graceful shutdown |
| Configuration | `config.rs` | none | parse, validate, read secrets |
| Metrics, logging | `server.rs`, `main.rs`, `index.rs` | none | not modelled |
| Build, deployment | `Cargo.toml`, `Dockerfile`, `tests` | none | not modelled |

How they interact. The loop of `main.rs`, every `POST /-/refresh` (a spawned
task) and every DELETE call the one `Index`. `refresh` *tries* the lock and gives
up if it is held; `delete_item` waits for it. Both call upstream while they hold
it, derive a new snapshot from the served one, save it on a blocking thread, and
only then publish it with an atomic pointer swap, which is all that the reading
handlers look at. A refresh also hands its crawled items to the next one as a
cache, and runs the configured update command, lock still held, if the tree has
changed.

What is hard. Futures can be dropped at every await (a client leaves during its
DELETE), but a blocking save cannot be, so it may outlive the lock. Upstream
changes while it is crawled. Metadata of a collection need not show changes
below it. Save, crash and publication may come in any order of failure. Names in
the tree depend on the order in which crawls finish. Paths are decoded, stripped
of a prefix, and encoded again. `PROJECT.json` lists these hazards at their lines
with the properties that cover them.

What makes each part correct:

- Index: its critical sections exclude each other and never leak the lock; what
  is served was stored first; what is stored is at most one update ahead; a
  deleted item stays away; a snapshot shows what was listed; it becomes current.
- Classifier and tree: no entry dangles or is unreachable; each item is shown
  once per group, in the right directory, with the right files; editing the tree
  gives what rebuilding it would.
- Crawl and parser: a scan returns what is there, item by item connected, and
  ends; a response is read as what it says, with nothing of the one before it.
- Filters: "not" means all files; an item does not leave its directory because
  more files arrive.
- Hook and command: the provider is asked no more often than agreed and never
  waited for without end; a refresh tells the command exactly the directories that
  look different.
- Server: every resource is reachable by following hrefs; without credentials only
  the probes answer; what a client downloads in ranges is one version of one file.
- Processes: of those started for one address one refreshes, with authentication as
  configured.

## Modules

| module | models |
|---|---|
| `Catalog` | abstract: a served and a stored version, updated write-ahead by one draft at a time |
| `Index` | `index.rs` with the tasks that drive it, `store.rs`, and the failures of both |
| `Tree` | `model.rs`, `insert`, and the removal of an item |
| `Classifier` | `filter.rs` and `changed_roots`, on `Tree` |
| `Server` | `server.rs`, on `Tree` |
| `LibraryUpdates` | `Index` composed with the update command and what it knows |
| `Crawl` | `Upstream::discover` with a library that changes under it |
| `Multistatus` | `parse_multistatus` on the events of quick-xml |
| `Filters` | `Filter::compile` and `matches`, on an item that changes |
| `RefreshHook` | `maybe_call_hook` and `call_hook` with time |
| `Process` | `main.rs` and the validation of `config.rs`, for several processes |
| `Streaming` | `proxy` between a downloading client and upstream |
| `MC…` | instances of each for TLC; `MCClassifier` composes `Classifier` with `Filters` |
| `…Proofs` | theorems about the module of that name; `IndexProofs` has those of `LibraryUpdates` too, `ServerProofs` those of `Tree` and `Streaming`, `ClassifierProofs` those of `Filters`, `CrawlProofs` those of `Multistatus` |
| `PathLemmas` | what the proofs need of sequences: prefixes, the path above a path, induction over sets of numbers |

### Index

Each task is a process: the loop `Sched`, the spawned refreshes `Manual`, the
requests `Deleters`. A step is the code between two awaits, or the effect of an
upstream call together with the code up to the next await. The snapshot's
resources are aliases `[cat, root, meta]`: a category, an item, the item's
content. Content is two stamps of one clock: `root` for the metadata that the
listing shows, `desc` for everything below it. `ShownIn`, a constant, says which
categories an item with that content is in. So a snapshot can be wrong in the
ways that matter: an item too many or too few, metadata of one moment with
descendants of another.

| code | model |
|---|---|
| `snapshot`, `source_items`, `last_full_refresh` | `snapshot`, `cache`, `fullDue` |
| `refresh_lock` and its queue | `lock`, `waiters` |
| locals of `refresh` | `run` |
| the row of `snapshots` | `db` |
| `spawn_blocking(store.save)` | `next` (what to save), `job` (how far it is) |
| upstream | `up`, `clock` |

`refresh` is `RefreshBegin` or `RefreshSkip`, `RefreshList`, `RefreshCrawl` per
item, `RefreshBuild`, `RefreshPublish`, `RefreshCommandDone`, and the errors
between them. `delete_item` is `DeleteRequest`, `DeleteUpstream` (or refused, or
failed with or without effect), `DeletePublish`. `SaveWrite` and `SaveFail` are the
save job. `Disconnect` drops the future of a DELETE at any await: the lock goes to
the next waiter, the job runs on. `Crash` restarts the process from `db`.

Left out of Index, with the reason:

- `baseline_ready` and `log_entry_changes` decide only what is logged;
  `refreshed_at` is set exactly when the generation is above 0.
- Waiters are served in any order, a superset of Tokio's first-come order.
- `full` is sampled a moment before the listing; it is read in `RefreshList`,
  where nothing that happens in between can make a difference to it but the
  interval's end, which then counts one refresh earlier.
- Publishing and updating `source_items` are one step. The mutex of
  `source_items` is only taken under `refresh_lock`, so nobody can see the
  difference while the process lives, and a crash forgets the cache anyway.
- A graceful shutdown waits for requests in progress and then ends the process:
  a case of `Crash`.
- That a 2xx answer to DELETE (207 is one) need not mean that the item is gone is
  the switch `PartialDeletes`, on in `Index_partial` only: with it no property
  about deleted items can hold.
- A plain file always shows changes in its metadata.

### Tree and Classifier

A path is a sequence of segments and a tree two functions, resources and
children. Sorting and deduplication of the child lists at the end of
`build_snapshot` make them sets, so the resources of one alias can be inserted at
once (`InsertAll`): their order does not show. `BuildSnapshot` goes through the items
in order of arrival, `Place` for each through the sorted directories with the set of
groups already used, both as functions on the numbers of the steps, which the provers
can reason about. A descendant's path is relative to its item. What filters say of an
item is the constant `Accepts`. The state machine is a refresh with any items in any
order (replacing the tree) and the deletion of any item shown.

What is assumed of the constants: descendants have different, nonempty paths and the
folder of each deeper one is a descendant too (`LibraryAssumption`; it is what
`ItemsConnected` says of a crawl). The directories compile, so no two have the same
segment (`ConfigAssumption`). The strings that they are sorted by have an order
(`AlphabetAssumption`). The eight digits of SHA-256 in `unique_name` differ from item to
item, and a name with them is unlike any name without (`DigestAssumption`): this the code
does not check, it overwrites the earlier entry if it is false.

### LibraryUpdates

Each action of `Index` that publishes or ends a command is extended by what the
command gets to know: `roots`, the arguments of the running command, and `told`, by
directory what was there when the command last ran for it. `missed` is a history of
the three ways in which knowledge is lost: a DELETE runs no command, a crash
forgets what to tell, a failed command is not repeated. A command that is given up
after its 30 seconds is not killed by the code; it ends here as a failed one, and
what it reads later counts for nothing. All other steps of `Index` are `Elsewhere`.

### Crawl

| code | model |
|---|---|
| the remote collections | `library`, with the changes `Put`, `Touch`, `Vanish` |
| the base listing, filtered | `Children`, `waiting` |
| the futures in `buffer_unordered` | `crawls`: queue and descendants of each item |
| `seen` of `crawl_item` | `Seen`, which its descendants determine |
| the result, and the next scan's cache | `catalogue` |

`Discover` lists the base, `Begin` takes an item into a free slot (reused if its
cached metadata is the same and the scan is not full), `CrawlStep` is one PROPFIND
with depth 1 and any order of its entries, `CrawlMissing` and `PropfindFails` end
the scan, `Collect` returns it. `BodyStalls` stops a response body under way
(`Receiving`: a crawl's, or at first that of the base listing) until `BodyResumes`,
which may be never. `DeleteItem` is the request that `delete_item` sends.
A resource's metadata is one version number, never used twice, so that different
metadata differ: servers that reuse an ETag, or have none for collections, are
`Index`'s matter. `Requested` is what `Url::set_path` makes of a path.

### Multistatus

`Response` is what a server writes for one resource, `Events` the whole document, both
as quick-xml 0.41 reports them: trimmed texts, entity references as events of their own,
self-closing elements, a second propstat with empty properties. The loop has one action
per kind of event and `ReadStop` for the end of the input, wherever it is. Dates are
left out: `getlastmodified` is a string like `getetag` to this code.

### Filters

`Compile` and `Matches` have the source's cases; `Says` is a filter that is not made of
others. A regular expression is the set of names it matches, a substring test the set of
names a text occurs in, lower case a function. Nested filters are evaluated by a function
over `Conditions`, the filters of the configuration with those inside them; `Depth` says how
deep each goes, which is finite because a configuration is. The state is one item that
gains and loses files between crawls. Sizes add up modulo `Width`, the code's 2^64.
`MCClassifier` gives `Classifier` the
`Accepts` that `Filters` computes for the directories of `config.example.yml` and two
more.

### RefreshHook

`Begin` is a refresh that got the lock, with the decision of `maybe_call_hook`;
`LoopSkips` one that did not. `HookSucceeds`, `HookError` and `HookTimeout` end the
call, `Scan` and `ScanFails` the refresh, `Restart` the process. The provider's media
and what its server lists are versions of one counter; `indexed` catches up by a
call. Timers may be late but never early.

### Process

Each process goes through the stages of `main`: load and validate, the upstream
secret, the store, the downstream secret, the address; then it serves, drains and
ends. A stage refuses for what the configuration says or for what it finds (a file,
a variable, the address). `Config` has the fields that validation compares; filters
and directory names are one Boolean, whether all compile and no two names collide.
`Refresh` is one step here, `Index` has its inside.

### Streaming

`Ask` looks the path up and sends the request, `AnswerClient` is upstream's answer by RFC
9110 with the headers that the proxy copies, `BodyPart` one part of the stream. The
client of the model resumes with If-Range or If-Match of the ETag it has. ETags are
taken to be different for different files as well as versions, and upstream to
stream what it had when it sent its headers. Preconditions with dates are left out.

### Server

Every route and method is an action, handled in one step but for DELETE, which
waits for the index; `Publish` replaces the snapshot between any two steps. A
segment stands for its decoded text: `encode_path` escapes everything but letters
and digits and `canonical_path` decodes before it splits, so decoding what was
encoded gives the segment back, as no segment holds a slash (`clean_name` replaces
them). The stripping and adding of `/dav`, empty and dot segments, refused
segments and the final slash of collections are modelled as they are. Both
settings of `downstream_auth` and `delete.enabled` are explored in every run.

## Runs

| run | instance | what it shows |
|---|---|---|
| `Index_tasks` | 1 item, loop, 1 manual refresh, 2 DELETEs, update command, disconnects, stalls, 2 stamps, 1 fault, generations to 3 | `TypeOK`, `LockDiscipline`, `PersistedIsServed`, `StoredAtMostOneAhead`, `ServedAdvances`, that Index implements Catalog; `Converges`, `DeleteAnswered` under fairness |
| `Index_contents` | `LibraryUpdates` with 2 items (a folder, a file), loop, 1 DELETE, update command, 3 stamps, 1 fault | `NoResurrection`, `NewSnapshotReflectsListing`, `FullMeansValidated`, `ToldUnlessMissed` |
| `Catalog_promise` | 2 contents, generations to 3 | the catalogue's own invariant and `ServedAdvances` |
| `Classifier_tree` | 3 items in 6 versions; the directories of `config.example.yml` and 2 with size limits, in 3 groups | the five invariants of the tree, `ToldOfChanges`, and `SortedByExample` |
| `Server_walk` | 2 clients, 3 snapshots, 10 request paths | `ServerTypeOK`, `WalkFindsAll`, `CredentialsGuard` |
| `Crawl_scan` | up to 4 entries in 3 levels, 2 crawls at a time, 2 changes, 2 faults | `TypeOK`, `ItemsConnected`, `ScanFaithful`; `ScanEnds` under fairness |
| `Multistatus_read` | documents of up to 2 responses in all forms, cut anywhere | `ReadsWhatIsWritten` |
| `Filters_item` | a folder of up to 4 files, a file; 2^64 is 8 | `AnyFileMeansSome`, `MoreIsNeverLess` |
| `RefreshHook_calls` | interval 2, cooldown 3, timeout 2, 8 ticks, 2 changes, 1 fault | `CallsSpaced`, `ScanIsCurrent`, `HookNeverBlocks` |
| `Process_starts` | 2 processes; all configurations that differ from an accepted one in up to 2 fields | `OneRefresher`, `AuthAsConfigured` |
| `Streaming_ranges` | 2 files of 3 parts, 3 versions | `OneVersion` |
| `Index_late_save`, `Index_manual`, `Index_stall`, `Index_partial`, `Crawl_base`, `Crawl_percent`, `Multistatus_entity`, `Process_checked`, `Process_drain`, `Server_dav`, `Server_ready` | the least in which it happens | one property each that the documents claim and the code violates, see below |

The module of a run is the `MC` module of its component: `MCIndex`, but `MCUpdates` for
`Index_contents`; `RefreshHook` and `Streaming` need none. The type invariants of
`Process`, `RefreshHook` and `Streaming` are theorems.

Bounds. `MaxStamp` bounds upstream changes: one stamp for the initial content, one for a
change after a listing, one more for a change after a deletion is what the content
properties can tell apart. `MaxGen` is the `u64::MAX` of the code, so the runs meet
saturation. `MaxFaults` counts failed calls, stalls and crashes: one at any moment,
after which a behaviour must recover; with any number of them the invariants of the
lock, the jobs and the catalogue are proved. A second DELETE is needed for a waiter
behind a waiter, and for a deletion after an abandoned one; a second item for a DELETE
of one while another is served from the cache. The library of `Classifier_tree` is
chosen for equal names, equal biggest files, a file beyond the limits, an empty folder,
and versions that leave their directory. `Server`'s `MaxDepth` is the longest path of
its snapshots.

`Crawl`: three levels are the least at which a crawl goes on from what it found; two
slots and two items, so that crawls overlap; two changes are one before a reuse and one
during it; two faults, as a body may stall and another PROPFIND then fail. `Multistatus`: two responses, since
nothing but the last one can carry over. `RefreshHook`: in eight ticks (`MaxTime`) two
cooldowns and a late answer pass; two changes (`MaxMedia`) are one before and one after
a call; the cooldown is no multiple of the interval and the timeout reaches into it. No
refresh begins later than `MaxTime - Patience`, so that time does not end during a call.
`Filters`: four files can pass `Width`. `Process`: values at and below each limit; two
processes are a predecessor and a successor. Its `MaxGen` allows a snapshot of each.
`Streaming`: three parts are one had, one in the way and one to come; three versions are
a change for each of two requests. `CHECK_DEADLOCK FALSE` is set where time or the
document ends.

Fairness (`Index!Fairness`). Weak fairness of every step of a running refresh
and DELETE, of the loop's next call, of the save jobs and of the end of the full
interval: Tokio runs ready tasks, timers and blocking jobs; calls to upstream end
by answer or by the header timeout. No fairness for upstream changes, requests,
disconnects, failures, crashes, or for a stalled body to resume: `Converges` and
`DeleteAnswered` suppose that no stall lasts for good (`BodiesArrive`), because with
one that does nothing is live (see `Index_stall`). `DeleteStep` is enabled for good
once the lock was handed to the DELETE. A waiter cannot starve: `lock().await` gets
the permit directly, and no `try_lock` overtakes it.

In `Crawl`, weak fairness of `ScanStep`, which a stalled body is no part of: headers
come in time or the PROPFIND fails, and a body that does not stall arrives. There is none
for `BodyResumes`, as `upstream.rs:152` reads the body without a timeout; so `ScanEnds`, too,
supposes `BodiesArrive`. Upstream need not change, fail or be asked. In `RefreshHook`, weak
fairness of time, of the timeout and of the scan: timers fire, and the provider owes no
answer.

Two safety properties are conditional on `~lateWrite`, a history variable that
turns true when a save abandoned by its DELETE reaches the database. That this
happens, and what it does, is `Index_late_save`; `StoredAtMostOneAhead`,
`ServedAdvances` and the refinement hold with it.

Every property of a passing run has a mutant: a second version of one definition, written next to
it, with a plausible mistake that violates the property in the same run.

## Disagreements with the repository's documents

Each is a configuration of its own, with a counterexample to one property that quotes the
document, run like the others. The first is one of the regular runs in `PROJECT.json`; the
others show hazards that `PROJECT.json` lists with no property, as none that holds can
cover them.

- `Index_late_save`: a DELETE whose client leaves releases the lock while its
  save runs on (`index.rs:148`); the save may then overwrite the snapshot of a
  later refresh, and a restart serves the older one.
- `Index_manual`: a manual refresh during a DELETE is answered 202 and dropped
  (`index.rs:72`), not coalesced.
- `Index_stall`: the body of a PROPFIND has no timeout (`upstream.rs:152`); one
  that stops arriving ends all refreshing, and with the lock held all DELETEs.
- `Index_partial`: any 2xx is a successful DELETE (`upstream.rs:160`), 207 for one that
  failed in part too; the client is told that the item is gone.
- `Crawl_base`: if the configured URL has characters that are percent-encoded, the
  base collection does not recognize itself in its listing (`upstream.rs:90`) and
  becomes an item, which can be deleted, and the library with it.
- `Crawl_percent`: `set_path` does not escape percent signs (`upstream.rs:62`): requests
  for an item called `50%20off`, DELETE too, are about `50 off`.
- `Multistatus_entity`: an entity reference splits a text in three events, and each
  text event overwrites the last (`upstream.rs:229`).
- `Process_checked`: `--check-config` calls a `downstream_auth` without a secret valid
  (`main.rs:50`), and the start refuses it (`main.rs:60`).
- `Process_drain`: a process that drains its connections goes on refreshing
  (`main.rs:102`) and overwrites what its successor has stored.
- `Server_dav`: a directory called `dav` cannot be listed at `/` (`server.rs:256`).
- `Server_ready`: readiness does not ask for credentials (`server.rs:41`).

## Theorems

All are proved for any value of the constants that satisfies the `ASSUME`s of the
modules: tasks are distinct, `Free` is not a task, `MaxGen` and `MaxStamp` are
positive, folders are items, `None` is not an id, filters are nested to a finite depth and
have values of their types, documents are sequences of responses; for `Classifier`,
`Server` and `Crawl` also what their sections, above and at the end of this one, say.

- `CatalogProofs`: `StoredAhead` and `ServedOnlyAdvances`. `AtMostOneAhead` alone is
  not inductive; `AheadInv` adds that the draft is exactly one ahead of what is
  served, and no orphan more than one.
- `IndexProofs`: `TypeCorrect`; `LockDisciplined`, inductive together with the types:
  one lemma for each way to let go of the lock, one case per action.
  `JobsDisciplined` is the invariant `JInv` that the refinement needs: a save job
  belongs to the task that waits for it, or to a DELETE whose client left while it
  was pending. With it the holder's job is the catalogue's draft and all others
  are orphans, so `CatalogueImplemented` maps every step of Index to one of
  Catalog or to a stutter. `StoredOneAhead` and `ServedNeverGoesBack` then follow
  from the catalogue's theorems. About contents there are three more layers, each
  inductive with those below it, and `UInv` beside them:
  - `SInv` (`PersistedServed`) says what the database may hold: what is served, the
    stored draft of the holder, or what is served less the item of an abandoned DELETE.
  - `DInv` (`SnapshotReflectsListing`, `FullValidates`) dates things: no stamp upstream or
    in a listing lies in the future, what was listed of an item is no newer than what is
    there now, each item dealt with has the metadata of the listing and, in a full refresh,
    descendants from after it.
  - `FInv` (`DeletedStaysAway`) adds what a DELETE cuts off:
    once upstream accepted it, what is there is newer; once it is answered, so is what the
    cache, a running refresh and the snapshot have. It supposes `~PartialDeletes`, that a 2xx
    means that the item is gone: `Index_partial` shows that it is false without.
  - `UInv` (`ToldOfEveryRefresh`) adds to `JInv` that directories are being told of only
    while a command runs, under the lock.
- `ServerProofs`: the empty tree is well-formed, and insertion and removal keep it so;
  these are the steps by which the classifier builds a tree and a DELETE edits it.
  With `SInv`, which adds to the types that the served tree is well-formed, and that the
  last answer to a request without credentials was a refusal (`NothingLeaked`), follow
  `ServerTypeCorrect` and `CredentialsGuarded`.
  `WalkAlwaysFindsAll` adds that hrefs read back: `canonical_path` of what `encode_path`
  wrote is the path. It supposes `OrdinaryNames`, as `Server_dav` shows that it must:
  no directory called `dav`, no segment that `canonical_path` drops or refuses. The walk
  reaches each resource after as many steps as its path has segments.
- `CrawlProofs`: `CrawlTypeCorrect`, with the invariant that all but the base is in a
  collection. `ItemsAlwaysConnected` needs the queue: `ItemsOK` says that a crawl asks
  for its item and for collections that it has listed. `ScanIsFaithful` needs
  `FaithInv`: every item that was there all the time is waiting or being crawled, and
  what was there all the time below an item is listed or below a collection in the
  queue (`Covered`), in which nothing was listed before (`Unlisted`). A turn of the loop
  keeps that, since the next collection on the way to something that was always there is
  in the listing now. The theorems suppose `PlainNames` (no name reads as percent-encoded text) and the last one
  `~BaseEncoded`; `Crawl_percent` and `Crawl_base` show what happens without.
- `ProcessProofs`: `ProcessTypeCorrect`, `RefresherUnique` and `AuthNeverLost` by
  `StageInv`: what the stage of a process says of what it has behind it (authentication
  set, address bound).
- `RefreshHookProofs`: `HookTypeCorrect`, and `CallsAreSpaced`. `CallsSpaced` does not
  say why the next call is late enough; `CallTimes` does: no call is later than
  `hookLast`. `ScansAreCurrent` needs what an earlier answer is worth: a refresh under
  way knows of a call less than a cooldown before it began (`CallBefore`), and once one
  was answered, upstream lists what the provider has, or that has changed since
  (`AnswerHolds`).
- `ServerProofs`, on `Streaming`: `StreamTypeCorrect` and `RangesFit`. `InFlight` adds that
  a request for the rest of a copy carries its ETag, and a part under way is of that version.
- `ClassifierProofs`: what `build_snapshot` computes step by step is described in closed form.
  A directory *belongs* to an item if it is the first of its group that accepts it; the
  `Placements` are these pairs. Given the name that each placement got (`Naming`: no name
  twice in a directory, each the clean one or the one with the digest), the tree is
  determined down to the last entry (`TreeOf`, `TreeOfUnique`), and well-formed
  (`TreeOfWellFormed`). `AddItem` adds one placement (`AddTree`), `Place` those of an item
  (`PlaceTree`), `BuildSnapshot` those of all items (`BuildTree`), and `RemoveItem` takes
  those of one item away and leaves the names of the others. So `CInv`
  (`ClassifierInvariant`) is inductive: the tree is the empty one or that of the
  placements of the items present, under clean names if no two items of the refresh share
  one. `TreeIsWellFormed`, `ItemsShownOnce` and `FoldersShowSelected` are read off the closed
  form. `DeleteIsRebuild` and `OrderIsIrrelevant` follow because it is determined by the
  set of items and the names; with equal names it is not, which is why both properties
  suppose different ones. `ChangesAreTold` needs that the lists are determined by the
  resources, and that the root lists the directories of the configuration (`Regular`,
  `TreeRegular`): then two views of a directory differ exactly if their resources do
  (`ChangesSeen`), which is what `changed_roots` compares. `SnapshotsAreServable` is the seam to `Server`: the trees are `Servable`, which
  `Server` assumes of its `Snapshots`, and all list the directories of the configuration.
- `ClassifierProofs`, on `Filters`: that the function over the filters exists is shown by
  induction on their depth (`RuleHasFunction`). Then `AnyFileAlwaysMeansSome`, and
  `MoreIsAlwaysNoLess` by a second induction on depth (`GrowingStays`), where the sum of the
  sizes does not shrink when a file is appended (`SumGrows`).
- `CrawlProofs`, on `Multistatus`: `WhatIsWrittenIsRead`. `Yields(s, x, y)` says that the events
  `s` make the response `y` of `x`, whatever element was active before, and that no response
  ends in them; it composes (`RunJoin`), and `BodyRead` is that the events of a response make
  of anything, the rest of an earlier response included, what it says. `Layout` gives the
  place of each response in the document. The inductive invariant `ParseInv`: some number
  of events is read, the resources are those of the responses that ended before, and what
  is being filled is what the events of the open response make of nothing. It supposes
  `PlainTexts`, that a text comes in one piece and without references
  (`Multistatus_entity` shows what happens otherwise), and `HrefsGiven`: a response without an
  href, which RFC 4918 does not allow, is dropped by the code. The documents of
  `Multistatus_read` satisfy both.

The recursive definitions that theorems depend on (`Segments`, `Collections` and the walk in
`Server` and `Crawl`; `PlaceUsing` and `BuildSnapshot`; `SumOfFiles`, `Matches` and `Growing`;
`FlattenSeq` of the library) are functions, over an interval of numbers or over the filters.
That they have a value at all, and what it is, is proved by induction on the set of numbers
for which it holds: `SetInduction` of `PathLemmas` takes a set where the library's theorem
takes an operator.

Besides what is said of names, the assumptions of `Server` are what the classifier makes
true (`SnapshotsAreServable`): the snapshots are well-formed trees with strings for
segments. Those of `Crawl` are that the places are
finitely many, and closed upwards.

Only model-checked: liveness (`Converges`, `DeleteAnswered`, `ScanEnds`, `HookNeverBlocks`:
fairness is beyond the prover); and `SortedByExample`, which is about one configuration, the
example's, and so has no more general form.

## Not modelled

- What a regular expression matches, which extension is a video's, and how a date is
  parsed: relations and constants stand for them, or nothing depends on them.
- XML syntax and serde: quick-xml and serde decide what is well-formed, the models
  begin with events and with fields.
- Metrics and logging, which no state depends on (`baseline_ready` included); the
  health check, which answers always; packaging and the test suite.
- A loss of power, after which SQLite may have forgotten the last commits; a crash in
  `Index` leaves the operating system with all pages written.
- A snapshot of an older configuration, served until the first refresh: `Process`
  keeps one configuration, as the documents promise nothing else.
- Preconditions with dates, and headers that no property is about.

`PROJECT.json` gives the reason for each component that is left out, and for each
hazard that no property covers.

## Plan

1. Done: the modules above with their runs, and theorems about all safety properties
   of the passing runs but `SortedByExample`.
2. Liveness, if it is to be proved, needs another prover, or at least the ENABLED conditions
   of `Index!Fairness` worked out by hand.
3. Where the models of two components meet in a constant, the one should be shown to give what
   the other assumes. `SnapshotsAreServable` does that for `Snapshots` of `Server`; for the
   descendants in `Classifier`, whose paths are relative, `ItemsConnected` of `Crawl` says the
   same of absolute ones.
