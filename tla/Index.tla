-------------------------------- MODULE Index --------------------------------
(***************************************************************************)
(* The index of webdav-filter (src/src/index.rs) together with the tasks   *)
(* that drive it: the scheduled refresh loop of main.rs, the manual        *)
(* refreshes spawned by POST /-/refresh, and the DELETE requests of        *)
(* server.rs.  Each task is a process; a step of a process is the code     *)
(* between two await points.  The snapshot store (store.rs) is the         *)
(* variable db, written by blocking save jobs that outlive the future      *)
(* which spawned them.                                                     *)
(*                                                                         *)
(* The contents of an upstream item are abstracted to two stamps: root is  *)
(* the stamp of the last change its own metadata shows (etag, date, size   *)
(* in the root listing), desc the stamp of the last change anywhere below  *)
(* it.  Stamps come from one clock; the root stamp Undated stands for      *)
(* metadata that always looks the same (a folder with no etag and no date).*)
(***************************************************************************)
EXTENDS Naturals

CONSTANTS
  Items,         \* top-level upstream entries, named by their source_path
  Folders,       \* the items that are collections
  Categories,    \* the virtual directories of the configuration
  ShownIn,       \* <<item, desc stamp>> -> the categories its aliases are in
  Sched,         \* the scheduled refresh loop
  Manual,        \* refresh tasks spawned by POST /-/refresh
  Deleters,      \* DELETE requests
  Free,          \* the value of lock when nobody holds it
  UpdateCommand, \* on_library_update is configured
  Disconnects,   \* a client may go away before its DELETE is answered
  Stalls,        \* a PROPFIND response body may stop arriving
  PartialDeletes,\* upstream may answer 207 to a DELETE that failed in part
  MaxStamp,      \* bound: upstream changes
  MaxGen,        \* u64::MAX, where saturating_add stops
  MaxFaults      \* bound: failed calls, stalls and crashes

Refreshers == {Sched} \cup Manual
Workers == Refreshers \cup Deleters

Stamps == 0..MaxStamp
Meta == [root: Stamps, desc: Stamps]
Absent == [root |-> 0, desc |-> 0]
Undated == 1

ASSUME WorkersAssumption ==
  /\ Sched \notin Manual
  /\ Refreshers \cap Deleters = {}
  /\ Free \notin Workers

ASSUME ItemsAssumption ==
  /\ Items # {}
  /\ Folders \subseteq Items

ASSUME ClassifierAssumption ==
  ShownIn \in [Items \X Stamps -> SUBSET Categories]

ASSUME BoundsAssumption ==
  /\ MaxStamp \in Nat \ {0}
  /\ MaxGen \in Nat \ {0}
  /\ MaxFaults \in Nat

ASSUME SwitchesAssumption ==
  /\ UpdateCommand \in BOOLEAN
  /\ Disconnects \in BOOLEAN
  /\ Stalls \in BOOLEAN
  /\ PartialDeletes \in BOOLEAN

VARIABLES
  up,        \* upstream: item -> its stamps, Absent if it is not there
  clock,     \* the last stamp used
  db,        \* the snapshot row of the database, Empty if there is none
  snapshot,  \* Index::snapshot, what requests are answered from
  cache,     \* Index::source_items
  fullDue,   \* last_full_refresh is None or full_interval has elapsed
  lock,      \* refresh_lock: its holder or Free
  waiters,   \* DELETE requests queued on refresh_lock
  pc,        \* where each task is
  run,       \* the locals of a running refresh
  stalled,   \* refreshes waiting for a body that does not arrive
  target,    \* the item_root a DELETE resolved before it asked for the lock
  cut,       \* history: clock when upstream accepted the DELETE
  next,      \* the snapshot a task has handed to its save job
  job,       \* the state of that save job
  lateWrite, \* history: a save abandoned by its request reached the database
  faults     \* failures so far

upstreamVars == <<up, clock>>
indexVars == <<snapshot, cache, fullDue>>
lockVars == <<lock, waiters>>
deleteVars == <<target, cut>>
saveVars == <<next, job>>
storeVars == <<db, lateWrite>>
vars == <<up, clock, db, snapshot, cache, fullDue, lock, waiters, pc, run,
          stalled, target, cut, next, job, lateWrite, faults>>

-----------------------------------------------------------------------------
(* Snapshots (model.rs, filter.rs).  A resource is one alias of an item.   *)

Resource == [cat: Categories, root: Items, meta: Meta]
Snapshot == [gen: 0..MaxGen, resources: SUBSET Resource]
Empty == [gen |-> 0, resources |-> {}]

NextGenUnbounded(g) == g + 1   \* mutant: plain addition

\* saturating_add(1).
NextGen(g) == IF g < MaxGen THEN g + 1 ELSE g

\* Every alias of every item present in f.
Classify(f) ==
  {r \in Resource : /\ f[r.root] # Absent
                    /\ r.meta = f[r.root]
                    /\ r.cat \in ShownIn[<<r.root, r.meta.desc>>]}

\* The snapshot delete_item derives: no alias of i, next generation.
Without(s, i) == [gen |-> NextGen(s.gen),
                  resources |-> {r \in s.resources : r.root # i}]

InCategory(s, c) == {r \in s.resources : r.cat = c}

\* mutant: what disappeared is not looked at
ChangedRootsForward(prev, new) ==
  {c \in Categories : ~ InCategory(new, c) \subseteq InCategory(prev, c)}

ChangedRoots(prev, new) ==
  {c \in Categories : InCategory(prev, c) # InCategory(new, c)}

-----------------------------------------------------------------------------
NothingListed == [i \in Items |-> Absent]
NoRun == [full |-> FALSE, seen |-> NothingListed, todo |-> {},
          got |-> NothingListed]
Run == [full: BOOLEAN, seen: [Items -> Meta], todo: SUBSET Items,
        got: [Items -> Meta]]

RefresherStates == {"idle", "list", "crawl", "saving", "command", "done", "dropped"}
DeleterStates == {"idle", "wait", "saving", "deleted", "failed", "gone"}
Jobs == {"none", "pending", "ok", "err"}

TypeOK ==
  /\ up \in [Items -> Meta]
  /\ clock \in Stamps
  /\ db \in Snapshot
  /\ snapshot \in Snapshot
  /\ cache \in [Items -> Meta]
  /\ fullDue \in BOOLEAN
  /\ lock \in Workers \cup {Free}
  /\ waiters \subseteq Deleters
  /\ pc \in [Workers -> RefresherStates \cup DeleterStates]
  /\ run \in [Refreshers -> Run]
  /\ stalled \subseteq Refreshers
  /\ target \in [Deleters -> Items]
  /\ cut \in [Deleters -> Stamps]
  /\ next \in [Workers -> Snapshot]
  /\ job \in [Workers -> Jobs]
  /\ lateWrite \in BOOLEAN
  /\ faults \in 0..MaxFaults

Init ==
  /\ up \in [Items -> {Absent, [root |-> Undated, desc |-> Undated]}]
  /\ clock = Undated
  /\ db = Empty
  /\ snapshot = Empty
  /\ cache = NothingListed
  /\ fullDue = TRUE
  /\ lock = Free
  /\ waiters = {}
  /\ pc = [w \in Workers |-> "idle"]
  /\ run = [w \in Refreshers |-> NoRun]
  /\ stalled = {}
  /\ target = [d \in Deleters |-> CHOOSE i \in Items : TRUE]
  /\ cut = [d \in Deleters |-> 0]
  /\ next = [w \in Workers |-> Empty]
  /\ job = [w \in Workers |-> "none"]
  /\ lateWrite = FALSE
  /\ faults = 0

-----------------------------------------------------------------------------
(* Failures and time.                                                      *)

Fault == faults < MaxFaults /\ faults' = faults + 1

\* mutant: the waiters are not woken
ReleaseForgetsWaiters == lock' = Free /\ UNCHANGED waiters

\* refresh_lock is dropped: the permit goes straight to a waiting DELETE, so
\* that no try_lock can overtake it.  Tokio serves waiters in order; the model
\* lets any waiter be next.
Release ==
  \/ waiters = {} /\ lock' = Free /\ UNCHANGED waiters
  \/ \E d \in waiters : lock' = d /\ waiters' = waiters \ {d}

TryLockIgnored == TRUE         \* mutant: a failed try_lock is ignored

\* refresh_lock.try_lock() succeeds.
TryLock == lock = Free

NotAwaited(d) == TRUE          \* mutant: lock() is not awaited

\* refresh_lock.lock().await has returned.
HasLock(d) == lock = d

FullIntervalElapses ==
  /\ ~fullDue
  /\ fullDue' = TRUE
  /\ UNCHANGED <<upstreamVars, storeVars, snapshot, cache, lockVars, pc, run,
                 stalled, deleteVars, saveVars, faults>>

-----------------------------------------------------------------------------
(* The upstream server, changed by others at any time.                     *)

Tick == clock < MaxStamp /\ clock' = clock + 1

UpstreamChange ==
  /\ \/ \E i \in Items :            \* added
          /\ up[i] = Absent
          /\ Tick
          /\ \E r \in {clock'} \cup (IF i \in Folders THEN {Undated} ELSE {}) :
               up' = [up EXCEPT ![i] = [root |-> r, desc |-> clock']]
     \/ \E i \in Items :            \* changed, and its metadata shows it
          /\ up[i] # Absent
          /\ Tick
          /\ up' = [up EXCEPT ![i] = [root |-> clock', desc |-> clock']]
     \/ \E i \in Folders :          \* changed below, its metadata unchanged
          /\ up[i] # Absent
          /\ Tick
          /\ up' = [up EXCEPT ![i].desc = clock']
     \/ \E i \in Items :            \* removed
          /\ up[i] # Absent
          /\ up' = [up EXCEPT ![i] = Absent]
          /\ UNCHANGED clock
  /\ UNCHANGED <<storeVars, indexVars, lockVars, pc, run, stalled, deleteVars,
                 saveVars, faults>>

-----------------------------------------------------------------------------
(* Index::refresh.                                                         *)

\* Where a refresh task goes when its call returns: the scheduler's loop
\* sleeps and calls again, a spawned task ends.
Returned(w) == IF w = Sched THEN "idle" ELSE "done"

EndRefresh(w) ==
  /\ pc' = [pc EXCEPT ![w] = Returned(w)]
  /\ run' = [run EXCEPT ![w] = NoRun]
  /\ Release

\* try_lock succeeds; the hook is called before anything is read.
RefreshBegin(w) ==
  /\ pc[w] = "idle"
  /\ TryLock
  /\ lock' = w
  /\ pc' = [pc EXCEPT ![w] = "list"]
  /\ UNCHANGED <<upstreamVars, storeVars, indexVars, waiters, run, stalled,
                 deleteVars, saveVars, faults>>

\* try_lock fails: Ok(false), nothing is remembered.
RefreshSkip(w) ==
  /\ pc[w] = "idle"
  /\ ~TryLock
  /\ pc' = [pc EXCEPT ![w] = IF w = Sched THEN "idle" ELSE "dropped"]
  /\ UNCHANGED <<upstreamVars, storeVars, indexVars, lockVars, run, stalled,
                 deleteVars, saveVars, faults>>

\* mutants: the metadata is not compared; a full refresh reuses items too
ReusableByName(i, full) == ~full /\ cache[i] # Absent
ReusableAlways(i, full) == cache[i] # Absent /\ cache[i].root = up[i].root

\* A listed item whose cached copy discover may return instead of crawling.
Reusable(i, full) == /\ ~full
                     /\ cache[i] # Absent
                     /\ cache[i].root = up[i].root

\* The root PROPFIND answers.  Items that were not reused have to be crawled.
\* The code sees the root stamps of seen only; its desc stamps are history.
RefreshList(w) ==
  /\ pc[w] = "list" /\ w \notin stalled
  /\ LET listed == {i \in Items : up[i] # Absent}
         reused == {i \in listed : Reusable(i, fullDue)}
     IN run' = [run EXCEPT ![w] =
          [full |-> fullDue, seen |-> up, todo |-> listed \ reused,
           got |-> [i \in Items |-> IF i \in reused THEN cache[i] ELSE Absent]]]
  /\ pc' = [pc EXCEPT ![w] = "crawl"]
  /\ UNCHANGED <<upstreamVars, storeVars, indexVars, lockVars, stalled,
                 deleteVars, saveVars, faults>>

\* crawl_item: the root metadata is the one listed, the descendants are read
\* now.  A plain file has none and asks upstream nothing.
RefreshCrawl(w, i) ==
  /\ pc[w] = "crawl" /\ w \notin stalled
  /\ i \in run[w].todo
  /\ i \in Folders => up[i] # Absent
  /\ run' = [run EXCEPT ![w].todo = @ \ {i},
                        ![w].got[i] =
                           [root |-> run[w].seen[i].root,
                            desc |-> IF i \in Folders THEN up[i].desc
                                     ELSE run[w].seen[i].root]]
  /\ UNCHANGED <<upstreamVars, storeVars, indexVars, lockVars, pc, stalled,
                 deleteVars, saveVars, faults>>

\* A folder listed a moment ago is gone: its PROPFIND is refused, and one
\* error fails the whole discovery.
RefreshCrawlMissing(w, i) ==
  /\ pc[w] = "crawl" /\ w \notin stalled
  /\ i \in run[w].todo \cap Folders
  /\ up[i] = Absent
  /\ EndRefresh(w)
  /\ UNCHANGED <<upstreamVars, storeVars, indexVars, stalled, deleteVars,
                 saveVars, faults>>

\* Any other error of a PROPFIND: timeout, refused, bad status, bad XML.
RefreshDiscoverError(w) ==
  /\ pc[w] \in {"list", "crawl"}
  /\ Fault
  /\ EndRefresh(w)
  /\ stalled' = stalled \ {w}
  /\ UNCHANGED <<upstreamVars, storeVars, indexVars, deleteVars, saveVars>>

\* propfind reads the response body without a timeout.
BodyStalls(w) ==
  /\ Stalls
  /\ pc[w] \in {"list", "crawl"} /\ w \notin stalled
  /\ Fault
  /\ stalled' = stalled \cup {w}
  /\ UNCHANGED <<upstreamVars, storeVars, indexVars, lockVars, pc, run,
                 deleteVars, saveVars>>

BodyResumes(w) ==
  /\ w \in stalled
  /\ stalled' = stalled \ {w}
  /\ UNCHANGED <<upstreamVars, storeVars, indexVars, lockVars, pc, run,
                 deleteVars, saveVars, faults>>

\* Everything is discovered: build_snapshot, and spawn the save job.
RefreshBuild(w) ==
  /\ pc[w] = "crawl" /\ w \notin stalled
  /\ run[w].todo = {}
  /\ next' = [next EXCEPT ![w] = [gen |-> NextGen(snapshot.gen),
                                  resources |-> Classify(run[w].got)]]
  /\ job' = [job EXCEPT ![w] = "pending"]
  /\ pc' = [pc EXCEPT ![w] = "saving"]
  /\ UNCHANGED <<upstreamVars, storeVars, indexVars, lockVars, run, stalled,
                 deleteVars, faults>>

SavedOrNot(w) == job[w] # "none"   \* mutant: the save's result is not awaited

\* The save job returned Ok.
Saved(w) == job[w] = "ok"

FullDueNever(w) == FALSE       \* mutant: any refresh restarts the interval

\* Whether a full refresh is due after the one of w.
FullDueAfter(w) == IF run[w].full THEN FALSE ELSE fullDue

\* The save succeeded: publish the snapshot, then the cache and the clock of
\* full refreshes.  The update command runs with the lock still held.
RefreshPublish(w) ==
  /\ pc[w] = "saving" /\ Saved(w)
  /\ snapshot' = next[w]
  /\ cache' = run[w].got
  /\ fullDue' = FullDueAfter(w)
  /\ next' = [next EXCEPT ![w] = Empty]
  /\ job' = [job EXCEPT ![w] = "none"]
  /\ IF UpdateCommand /\ ChangedRoots(snapshot, next[w]) # {}
     THEN /\ pc' = [pc EXCEPT ![w] = "command"]
          /\ run' = [run EXCEPT ![w] = NoRun]
          /\ UNCHANGED lockVars
     ELSE EndRefresh(w)
  /\ UNCHANGED <<upstreamVars, storeVars, stalled, deleteVars, faults>>

\* The command exits, cannot start, or is given up after 30 seconds.
RefreshCommandDone(w) ==
  /\ pc[w] = "command"
  /\ EndRefresh(w)
  /\ UNCHANGED <<upstreamVars, storeVars, indexVars, stalled, deleteVars,
                 saveVars, faults>>

RefreshSaveError(w) ==
  /\ pc[w] = "saving" /\ job[w] = "err"
  /\ EndRefresh(w)
  /\ next' = [next EXCEPT ![w] = Empty]
  /\ job' = [job EXCEPT ![w] = "none"]
  /\ UNCHANGED <<upstreamVars, storeVars, indexVars, stalled, deleteVars,
                 faults>>

-----------------------------------------------------------------------------
(* SnapshotStore::save on a blocking thread.                               *)

SaveWrite(w) ==
  /\ job[w] = "pending"
  /\ db' = next[w]
  /\ lateWrite' = (lateWrite \/ pc[w] = "gone")
  /\ job' = [job EXCEPT ![w] = IF pc[w] = "gone" THEN "none" ELSE "ok"]
  /\ next' = [next EXCEPT ![w] = IF pc[w] = "gone" THEN Empty ELSE @]
  /\ UNCHANGED <<upstreamVars, indexVars, lockVars, pc, run, stalled,
                 deleteVars, faults>>

SaveFail(w) ==
  /\ job[w] = "pending"
  /\ Fault
  /\ job' = [job EXCEPT ![w] = IF pc[w] = "gone" THEN "none" ELSE "err"]
  /\ next' = [next EXCEPT ![w] = IF pc[w] = "gone" THEN Empty ELSE @]
  /\ UNCHANGED <<upstreamVars, storeVars, indexVars, lockVars, pc, run,
                 stalled, deleteVars>>

-----------------------------------------------------------------------------
(* DELETE: the handler of server.rs and Index::delete_item.                *)

\* The request names an alias of i in the snapshot it loads, and asks for the
\* lock.
DeleteRequest(d, i) ==
  /\ pc[d] = "idle"
  /\ \E r \in snapshot.resources : r.root = i
  /\ target' = [target EXCEPT ![d] = i]
  /\ pc' = [pc EXCEPT ![d] = "wait"]
  /\ IF lock = Free
     THEN lock' = d /\ UNCHANGED waiters
     ELSE waiters' = waiters \cup {d} /\ UNCHANGED lock
  /\ UNCHANGED <<upstreamVars, storeVars, indexVars, run, stalled, cut,
                 saveVars, faults>>

EndDelete(d, answer) ==
  /\ pc' = [pc EXCEPT ![d] = answer]
  /\ Release

\* Upstream removes the item and says so, or removes part of a folder and says
\* that with another 2xx; the new snapshot is derived from the current one and
\* its save job spawned.
DeleteUpstream(d) ==
  /\ pc[d] = "wait" /\ HasLock(d)
  /\ up[target[d]] # Absent
  /\ \/ up' = [up EXCEPT ![target[d]] = Absent]
     \/ PartialDeletes /\ target[d] \in Folders /\ UNCHANGED up
  /\ cut' = [cut EXCEPT ![d] = clock]
  /\ next' = [next EXCEPT ![d] = Without(snapshot, target[d])]
  /\ job' = [job EXCEPT ![d] = "pending"]
  /\ pc' = [pc EXCEPT ![d] = "saving"]
  /\ UNCHANGED <<clock, storeVars, indexVars, lockVars, run, stalled, target,
                 faults>>

\* There is nothing to remove any more: the answer is an error.
DeleteRefused(d) ==
  /\ pc[d] = "wait" /\ HasLock(d)
  /\ up[target[d]] = Absent
  /\ EndDelete(d, "failed")
  /\ UNCHANGED <<upstreamVars, storeVars, indexVars, run, stalled, deleteVars,
                 saveVars, faults>>

\* The call fails or times out, before or after upstream removed the item.
DeleteUpstreamError(d) ==
  /\ pc[d] = "wait" /\ HasLock(d)
  /\ Fault
  /\ up' \in {up, [up EXCEPT ![target[d]] = Absent]}
  /\ EndDelete(d, "failed")
  /\ UNCHANGED <<clock, storeVars, indexVars, run, stalled, deleteVars,
                 saveVars>>

CacheKept(i) == cache          \* mutant: source_items is not updated

CacheWithout(i) == [cache EXCEPT ![i] = Absent]

DeletePublish(d) ==
  /\ pc[d] = "saving" /\ Saved(d)
  /\ snapshot' = next[d]
  /\ cache' = CacheWithout(target[d])
  /\ next' = [next EXCEPT ![d] = Empty]
  /\ job' = [job EXCEPT ![d] = "none"]
  /\ EndDelete(d, "deleted")
  /\ UNCHANGED <<upstreamVars, storeVars, fullDue, run, stalled, deleteVars,
                 faults>>

DeleteSaveError(d) ==
  /\ pc[d] = "saving" /\ job[d] = "err"
  /\ next' = [next EXCEPT ![d] = Empty]
  /\ job' = [job EXCEPT ![d] = "none"]
  /\ EndDelete(d, "failed")
  /\ UNCHANGED <<upstreamVars, storeVars, indexVars, run, stalled, deleteVars,
                 faults>>

\* The client goes away and the server drops the request's future, wherever it
\* is suspended.  A save job it has spawned runs on; an upstream call in
\* flight may or may not take effect.
Disconnect(d) ==
  /\ Disconnects
  /\ pc[d] \in {"wait", "saving"}
  /\ IF lock = d
     THEN EndDelete(d, "gone")
     ELSE /\ waiters' = waiters \ {d}
          /\ pc' = [pc EXCEPT ![d] = "gone"]
          /\ UNCHANGED lock
  /\ IF lock = d /\ pc[d] = "wait"
     THEN up' \in {up, [up EXCEPT ![target[d]] = Absent]}
     ELSE UNCHANGED up
  /\ IF job[d] \in {"none", "pending"}
     THEN UNCHANGED saveVars
     ELSE /\ job' = [job EXCEPT ![d] = "none"]
          /\ next' = [next EXCEPT ![d] = Empty]
  /\ UNCHANGED <<clock, storeVars, indexVars, run, stalled, deleteVars, faults>>

-----------------------------------------------------------------------------
LoadedNothing == Empty         \* mutant: the stored snapshot is not loaded

\* What Index::new starts from.
Loaded == db

\* The process dies and starts again: Index::new loads the stored snapshot and
\* everything else is as new.  Requests in progress lose their connection.
Crash ==
  /\ Fault
  /\ snapshot' = Loaded
  /\ cache' = NothingListed
  /\ fullDue' = TRUE
  /\ lock' = Free
  /\ waiters' = {}
  /\ pc' = [w \in Workers |->
              IF w \in Deleters
              THEN IF pc[w] \in {"wait", "saving"} THEN "gone" ELSE pc[w]
              ELSE IF pc[w] \in {"list", "crawl", "saving", "command"}
                   THEN Returned(w) ELSE pc[w]]
  /\ run' = [w \in Refreshers |-> NoRun]
  /\ stalled' = {}
  /\ next' = [w \in Workers |-> Empty]
  /\ job' = [w \in Workers |-> "none"]
  /\ UNCHANGED <<upstreamVars, storeVars, deleteVars>>

-----------------------------------------------------------------------------
RefreshStep(w) ==
  \/ RefreshList(w)
  \/ \E i \in Items : RefreshCrawl(w, i)
  \/ \E i \in Items : RefreshCrawlMissing(w, i)
  \/ RefreshBuild(w)
  \/ RefreshPublish(w)
  \/ RefreshSaveError(w)
  \/ RefreshCommandDone(w)

DeleteStep(d) ==
  \/ DeleteUpstream(d)
  \/ DeleteRefused(d)
  \/ DeletePublish(d)
  \/ DeleteSaveError(d)

Next ==
  \/ UpstreamChange
  \/ FullIntervalElapses
  \/ Crash
  \/ \E w \in Refreshers :
       \/ RefreshBegin(w)
       \/ RefreshSkip(w)
       \/ RefreshStep(w)
       \/ RefreshDiscoverError(w)
       \/ BodyStalls(w)
       \/ BodyResumes(w)
  \/ \E d \in Deleters :
       \/ \E i \in Items : DeleteRequest(d, i)
       \/ DeleteStep(d)
       \/ DeleteUpstreamError(d)
       \/ Disconnect(d)
  \/ \E w \in Workers : SaveWrite(w) \/ SaveFail(w)

Spec == Init /\ [][Next]_vars

\* Tokio polls every ready task, runs every blocking job and fires every timer;
\* calls to upstream are answered or time out.  Nothing obliges the rest of
\* the world to change upstream, to send requests, to disconnect or to fail,
\* nor a stalled body to resume.
Fairness ==
  /\ WF_vars(FullIntervalElapses)
  /\ WF_vars(RefreshBegin(Sched))
  /\ \A w \in Refreshers : WF_vars(RefreshStep(w))
  /\ \A d \in Deleters : WF_vars(DeleteStep(d))
  /\ \A w \in Workers : WF_vars(SaveWrite(w))

FairSpec == Spec /\ Fairness

-----------------------------------------------------------------------------
(* Properties.                                                             *)

Critical(w) ==
  IF w \in Refreshers THEN pc[w] \in {"list", "crawl", "saving", "command"}
  ELSE pc[w] = "saving" \/ (pc[w] = "wait" /\ w \notin waiters)

\* The critical sections of refresh and delete_item exclude each other, and a
\* held lock always has a live holder: no return, error, disconnect or handover
\* leaks the permit or loses a waiter.
LockDiscipline ==
  /\ \A w \in Workers : Critical(w) <=> lock = w
  /\ \A d \in Deleters : d \in waiters => pc[d] = "wait"
  /\ lock = Free => waiters = {}

\* Between updates the database holds the snapshot being served, whatever
\* failed before: the only exception is a DELETE whose client left after its
\* save, so that the database is one deletion ahead.  A save abandoned by its
\* request and written late voids this.
PersistedIsServed ==
  lock = Free /\ ~lateWrite =>
    \/ db = snapshot
    \/ \E d \in Deleters : pc[d] = "gone" /\ db = Without(snapshot, target[d])

\* Once a DELETE was answered with success, no alias of that incarnation of the
\* item is served again, by a refresh, another DELETE, or a restart, unless an
\* abandoned save was written late.  Only content newer than the DELETE may
\* appear under the name.
NoResurrection ==
  ~lateWrite =>
    \A d \in Deleters : pc[d] = "deleted" =>
      \A r \in snapshot.resources : r.root = target[d] => r.meta.desc > cut[d]

\* "deleting an item or any descendant deletes the entire corresponding
\* top-level upstream item": after a DELETE answered with success, what is
\* upstream under the item's name was created later.
DeletedIsGone ==
  \A d \in Deleters : pc[d] = "deleted" =>
    up[target[d]] = Absent \/ up[target[d]].desc > cut[d]

\* The snapshot a refresh is about to save shows exactly the items listed at
\* its start, each with the metadata listed and with descendants read no
\* earlier than that metadata changed; if the refresh is full, with descendants
\* no older than the listing.
NewSnapshotReflectsListing ==
  \A w \in Refreshers : pc[w] = "saving" =>
    /\ \A r \in next[w].resources :
         /\ run[w].seen[r.root] # Absent
         /\ r.meta.root = run[w].seen[r.root].root
         /\ r.meta.desc >= r.meta.root
         /\ run[w].full => r.meta.desc >= run[w].seen[r.root].desc
    /\ \A i \in Items : run[w].seen[i] # Absent =>
         \E v \in Stamps :
           {r.cat : r \in {x \in next[w].resources : x.root = i}} = ShownIn[<<i, v>>]

\* A full refresh counts as done only by publishing what it validated: the
\* interval is not restarted by a refresh that failed or reused an item.
FullMeansValidated ==
  [][fullDue /\ ~fullDue' =>
       \E w \in Refreshers :
         /\ pc[w] = "saving" /\ snapshot' = next[w]
         /\ \A r \in snapshot'.resources :
              r.meta.desc >= run[w].seen[r.root].desc]_vars

\* What is served shows upstream as it is.
Current == snapshot.resources = Classify(up)

\* No body stays stalled for good.
BodiesArrive == \A w \in Refreshers : []<>(w \notin stalled)

\* When upstream stops changing, the served snapshot becomes and stays current,
\* after any mixture of failures, crashes, deletions, silent changes, and stalls
\* that end.
Converges == BodiesArrive => <>[]Current

\* Every DELETE is answered unless its client leaves or the body of a PROPFIND
\* never arrives.
DeleteAnswered ==
  BodiesArrive =>
    \A d \in Deleters :
      pc[d] = "wait" ~> pc[d] \in {"deleted", "failed", "gone"}

\* The snapshot in the hands of the task that holds the lock.
DraftInHand ==
  IF lock # Free /\ job[lock] # "none"
  THEN [stage |-> IF job[lock] = "ok" THEN "stored" ELSE "prepared",
        version |-> next[lock]]
  ELSE [stage |-> "none"]

\* The DELETEs whose clients left while the save was running.
Orphaned == {d \in Deleters : pc[d] = "gone" /\ job[d] = "pending"}

\* The served and the stored snapshot, seen as a write-ahead catalogue.
Catalogue == INSTANCE Catalog WITH
  Contents <- SUBSET Resource,
  served <- snapshot,
  stored <- db,
  draft <- DraftInHand,
  orphans <- {next[d] : d \in Orphaned}

\* Whatever tasks run and however they are interleaved, the index behaves as
\* the catalogue: one draft at a time, based on what is served, stored first.
ImplementsCatalogue == Catalogue!CatalogSpec

\* The database is at most one update ahead of what is served.
StoredAtMostOneAhead == db.gen <= NextGen(snapshot.gen)

\* While the process lives, what is served never goes back to an earlier
\* generation; after a restart it is what was stored.
ServedAdvances == [][snapshot'.gen < snapshot.gen => snapshot' = db]_vars

\* "SQLite persists that snapshot across restarts": the database never holds a
\* snapshot older than the one served.
PersistedNotOlder == db.gen >= snapshot.gen

\* "POST /-/refresh requests an immediate coalesced refresh": one that does not
\* run itself meets another refresh, and is never just dropped.
ManualCoalesced ==
  [][\A m \in Manual : pc[m] = "idle" /\ pc'[m] = "dropped" =>
                         lock \in Refreshers]_vars

\* "Refreshes run every five seconds by default": the loop always comes round to
\* the next one.
KeepsRefreshing == []<>(pc[Sched] = "idle")
=============================================================================
