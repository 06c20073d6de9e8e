----------------------------- MODULE IndexProofs -----------------------------
(***************************************************************************)
(* Proofs about the index for any number of items, tasks and stamps:       *)
(* types, the discipline of refresh_lock, that the index implements the    *)
(* abstract catalogue, what the database holds between updates, what a     *)
(* refresh saves, that what was deleted stays away, and what the update    *)
(* command gets to know (LibraryUpdates).                                  *)
(***************************************************************************)
EXTENDS LibraryUpdates, TLAPS

USE DEF Refreshers, Workers, TryLock, HasLock, Saved, FullDueAfter,
        CacheWithout, Loaded

-----------------------------------------------------------------------------
(* The operators on snapshots.                                             *)

\* saturating_add stays within u64.
LEMMA NextGenType ==
  ASSUME NEW g \in 0..MaxGen
  PROVE  NextGen(g) \in 0..MaxGen
BY BoundsAssumption DEF NextGen

\* build_snapshot yields resources of known items and categories.
LEMMA ClassifyType ==
  ASSUME NEW f
  PROVE  Classify(f) \in SUBSET Resource
BY DEF Classify

\* delete_item derives a snapshot.
LEMMA WithoutType ==
  ASSUME NEW s \in Snapshot, NEW i
  PROVE  Without(s, i) \in Snapshot
<1>1. NextGen(s.gen) \in 0..MaxGen
  BY NextGenType DEF Snapshot
<1>2. {r \in s.resources : r.root # i} \in SUBSET Resource
  BY DEF Snapshot
<1> QED
  BY <1>1, <1>2 DEF Without, Snapshot

LEMMA StampTypes ==
  /\ 0 \in Stamps
  /\ Undated \in Stamps
  /\ Absent \in Meta
  /\ Empty \in Snapshot
  /\ NoRun \in Run
  /\ NothingListed \in [Items -> Meta]
BY BoundsAssumption
   DEF Stamps, Undated, Absent, Meta, Empty, Snapshot, NoRun, Run, NothingListed

-----------------------------------------------------------------------------
(* Type correctness.                                                       *)

\* Handing over the lock keeps it with a task, and only DELETEs wait.
LEMMA ReleaseType ==
  ASSUME TypeOK, Release
  PROVE  /\ lock' \in Workers \cup {Free}
         /\ waiters' \subseteq Deleters
BY DEF TypeOK, Release

\* The end of a refresh leaves lock, tasks and locals well typed.
LEMMA EndRefreshType ==
  ASSUME TypeOK, NEW w \in Refreshers, EndRefresh(w)
  PROVE  /\ lock' \in Workers \cup {Free}
         /\ waiters' \subseteq Deleters
         /\ pc' \in [Workers -> RefresherStates \cup DeleterStates]
         /\ run' \in [Refreshers -> Run]
<1>1. Returned(w) \in RefresherStates
  BY DEF Returned, RefresherStates
<1> QED
  BY <1>1, ReleaseType, StampTypes DEF EndRefresh, TypeOK

LEMMA TypeInit == Init => TypeOK
<1> SUFFICES ASSUME Init PROVE TypeOK
  OBVIOUS
<1>1. [root |-> Undated, desc |-> Undated] \in Meta
  BY StampTypes DEF Meta
<1>2. up \in [Items -> Meta]
  BY <1>1, StampTypes DEF Init
<1>3. target \in [Deleters -> Items]
  BY ItemsAssumption DEF Init
<1>4. clock \in Stamps /\ cut \in [Deleters -> Stamps]
  BY StampTypes DEF Init
<1>5. pc \in [Workers -> RefresherStates \cup DeleterStates]
  BY DEF Init, RefresherStates
<1>6. run \in [Refreshers -> Run] /\ next \in [Workers -> Snapshot]
  BY StampTypes DEF Init
<1>7. job \in [Workers -> Jobs]
  BY DEF Init, Jobs
<1>8. faults \in 0..MaxFaults
  BY BoundsAssumption DEF Init
<1>9. db \in Snapshot /\ snapshot \in Snapshot /\ cache \in [Items -> Meta]
  BY StampTypes DEF Init
<1>10. /\ lock \in Workers \cup {Free} /\ waiters \subseteq Deleters
       /\ stalled \subseteq Refreshers /\ fullDue \in BOOLEAN
       /\ lateWrite \in BOOLEAN
  BY DEF Init
<1> QED
  BY <1>2, <1>3, <1>4, <1>5, <1>6, <1>7, <1>8, <1>9, <1>10 DEF TypeOK

USE DEF upstreamVars, indexVars, lockVars, deleteVars, saveVars, storeVars

\* Counting a fault keeps within the bound.
LEMMA FaultType == TypeOK /\ Fault => faults' \in 0..MaxFaults
BY BoundsAssumption DEF TypeOK, Fault

\* The upstream server and time.
LEMMA EnvironmentType ==
  ASSUME TypeOK, UpstreamChange \/ FullIntervalElapses
  PROVE  TypeOK'
<1>1. CASE FullIntervalElapses
  BY <1>1 DEF TypeOK, FullIntervalElapses
<1>2. CASE UpstreamChange
  <2>1. ASSUME Tick
        PROVE  clock' \in Stamps
    BY <2>1, BoundsAssumption DEF TypeOK, Tick, Stamps
  <2> DEFINE Typed == up' \in [Items -> Meta] /\ clock' \in Stamps
  <2>2. Typed
    <3>1. ASSUME NEW i \in Items, Tick,
                 \E r \in {clock'} \cup (IF i \in Folders THEN {Undated} ELSE {}) :
                   up' = [up EXCEPT ![i] = [root |-> r, desc |-> clock']]
          PROVE  Typed
      BY <3>1, <2>1, StampTypes DEF TypeOK, Meta
    <3>2. ASSUME NEW i \in Items, Tick,
                 up' = [up EXCEPT ![i] = [root |-> clock', desc |-> clock']]
          PROVE  Typed
      BY <3>2, <2>1 DEF TypeOK, Meta
    <3>3. ASSUME NEW i \in Folders, Tick, up' = [up EXCEPT ![i].desc = clock']
          PROVE  Typed
      BY <3>3, <2>1, ItemsAssumption DEF TypeOK, Meta
    <3>4. ASSUME NEW i \in Items, up' = [up EXCEPT ![i] = Absent],
                 UNCHANGED clock
          PROVE  Typed
      BY <3>4, StampTypes DEF TypeOK
    <3> QED
      BY <1>2, <3>1, <3>2, <3>3, <3>4 DEF UpstreamChange
  <2> QED
    BY <1>2, <2>2 DEF UpstreamChange, TypeOK
<1> QED
  BY <1>1, <1>2

\* The steps of Index::refresh.
LEMMA RefreshType ==
  ASSUME TypeOK, NEW w \in Refreshers,
         \/ RefreshBegin(w) \/ RefreshSkip(w) \/ RefreshStep(w)
         \/ RefreshDiscoverError(w) \/ BodyStalls(w) \/ BodyResumes(w)
  PROVE  TypeOK'
<1>1. CASE RefreshBegin(w)
  BY <1>1 DEF TypeOK, RefreshBegin, RefresherStates
<1>2. CASE RefreshSkip(w)
  BY <1>2 DEF TypeOK, RefreshSkip, RefresherStates
<1>3. CASE RefreshList(w)
  <2> DEFINE listed == {i \in Items : up[i] # Absent}
             reused == {i \in listed : Reusable(i, fullDue)}
             got == [i \in Items |-> IF i \in reused THEN cache[i] ELSE Absent]
  <2>1. got \in [Items -> Meta]
    BY StampTypes DEF TypeOK
  <2>2. run' \in [Refreshers -> Run]
    <3>1. run' = [run EXCEPT ![w] = [full |-> fullDue, seen |-> up,
                                     todo |-> listed \ reused, got |-> got]]
      BY <1>3 DEF RefreshList
    <3>2. [full |-> fullDue, seen |-> up, todo |-> listed \ reused,
           got |-> got] \in Run
      BY <2>1 DEF TypeOK, Run
    <3> QED
      BY <3>1, <3>2 DEF TypeOK
  <2>3. pc' \in [Workers -> RefresherStates \cup DeleterStates]
    BY <1>3 DEF RefreshList, TypeOK, RefresherStates
  <2> QED
    BY <1>3, <2>2, <2>3 DEF RefreshList, TypeOK
<1>4. ASSUME NEW i \in Items, RefreshCrawl(w, i)
      PROVE  TypeOK'
  <2>1. run[w] \in Run
    BY DEF TypeOK
  <2>2. run[w].todo \in SUBSET Items /\ run[w].got \in [Items -> Meta]
    BY <2>1 DEF Run
  <2>3. [root |-> run[w].seen[i].root,
         desc |-> IF i \in Folders THEN up[i].desc
                  ELSE run[w].seen[i].root] \in Meta
    BY <2>1 DEF TypeOK, Run, Meta
  <2>4. run' \in [Refreshers -> Run]
    BY <1>4, <2>1, <2>2, <2>3 DEF TypeOK, RefreshCrawl, Run
  <2> QED
    BY <1>4, <2>4 DEF TypeOK, RefreshCrawl
<1>5. ASSUME NEW i \in Items, RefreshCrawlMissing(w, i)
      PROVE  TypeOK'
  <2>1. EndRefresh(w)
    BY <1>5 DEF RefreshCrawlMissing
  <2> QED
    BY <1>5, <2>1, EndRefreshType DEF TypeOK, RefreshCrawlMissing
<1>6. CASE RefreshBuild(w)
  <2>1. NextGen(snapshot.gen) \in 0..MaxGen
    BY NextGenType DEF TypeOK, Snapshot
  <2>2. [gen |-> NextGen(snapshot.gen), resources |-> Classify(run[w].got)]
          \in Snapshot
    BY <2>1, ClassifyType DEF Snapshot
  <2> QED
    BY <1>6, <2>2 DEF TypeOK, RefreshBuild, RefresherStates, Jobs
<1>7. CASE RefreshPublish(w)
  <2>1. snapshot' \in Snapshot /\ fullDue' \in BOOLEAN
    BY <1>7 DEF TypeOK, RefreshPublish
  <2>2. cache' \in [Items -> Meta]
    BY <1>7 DEF TypeOK, RefreshPublish, Run
  <2>3. next' \in [Workers -> Snapshot] /\ job' \in [Workers -> Jobs]
    BY <1>7, StampTypes DEF TypeOK, RefreshPublish, Jobs
  <2>4. /\ pc' \in [Workers -> RefresherStates \cup DeleterStates]
        /\ run' \in [Refreshers -> Run]
        /\ lock' \in Workers \cup {Free} /\ waiters' \subseteq Deleters
    <3>1. CASE EndRefresh(w)
      BY <3>1, EndRefreshType
    <3>2. CASE ~EndRefresh(w)
      BY <1>7, <3>2, StampTypes DEF TypeOK, RefreshPublish, RefresherStates
    <3> QED
      BY <3>1, <3>2
  <2> QED
    BY <1>7, <2>1, <2>2, <2>3, <2>4 DEF TypeOK, RefreshPublish
<1>8. CASE RefreshSaveError(w)
  <2>1. EndRefresh(w)
    BY <1>8 DEF RefreshSaveError
  <2>2. next' \in [Workers -> Snapshot] /\ job' \in [Workers -> Jobs]
    BY <1>8, StampTypes DEF TypeOK, RefreshSaveError, Jobs
  <2> QED
    BY <1>8, <2>1, <2>2, EndRefreshType DEF TypeOK, RefreshSaveError
<1>9. CASE RefreshCommandDone(w)
  <2>1. EndRefresh(w)
    BY <1>9 DEF RefreshCommandDone
  <2> QED
    BY <1>9, <2>1, EndRefreshType DEF TypeOK, RefreshCommandDone
<1>10. CASE RefreshDiscoverError(w)
  <2>1. EndRefresh(w) /\ faults' \in 0..MaxFaults
    BY <1>10, FaultType DEF RefreshDiscoverError
  <2> QED
    BY <1>10, <2>1, EndRefreshType DEF TypeOK, RefreshDiscoverError
<1>11. CASE BodyStalls(w)
  BY <1>11, FaultType DEF TypeOK, BodyStalls
<1>12. CASE BodyResumes(w)
  BY <1>12 DEF TypeOK, BodyResumes
<1> QED
  BY <1>1, <1>2, <1>3, <1>4, <1>5, <1>6, <1>7, <1>8, <1>9, <1>10, <1>11, <1>12
     DEF RefreshStep

\* The save jobs.
LEMMA SaveType ==
  ASSUME TypeOK, NEW w \in Workers, SaveWrite(w) \/ SaveFail(w)
  PROVE  TypeOK'
<1>1. CASE SaveWrite(w)
  BY <1>1, StampTypes DEF TypeOK, SaveWrite, Jobs
<1>2. CASE SaveFail(w)
  BY <1>2, FaultType, StampTypes DEF TypeOK, SaveFail, Jobs
<1> QED
  BY <1>1, <1>2

\* The steps of the DELETE handler.
LEMMA DeleteType ==
  ASSUME TypeOK, NEW d \in Deleters,
         \/ \E i \in Items : DeleteRequest(d, i)
         \/ DeleteStep(d) \/ DeleteUpstreamError(d) \/ Disconnect(d)
  PROVE  TypeOK'
<1>1. ASSUME NEW i \in Items, DeleteRequest(d, i)
      PROVE  TypeOK'
  BY <1>1 DEF TypeOK, DeleteRequest, DeleterStates
<1>2. ASSUME NEW answer \in DeleterStates, EndDelete(d, answer)
      PROVE  /\ lock' \in Workers \cup {Free}
             /\ waiters' \subseteq Deleters
             /\ pc' \in [Workers -> RefresherStates \cup DeleterStates]
  BY <1>2, ReleaseType DEF EndDelete, TypeOK
<1>3. {"deleted", "failed", "gone"} \subseteq DeleterStates
  BY DEF DeleterStates
<1>4. CASE DeleteUpstream(d)
  <2>1. next' \in [Workers -> Snapshot]
    BY <1>4, WithoutType DEF TypeOK, DeleteUpstream
  <2>2. up' \in [Items -> Meta] /\ cut' \in [Deleters -> Stamps]
    BY <1>4, StampTypes DEF TypeOK, DeleteUpstream
  <2> QED
    BY <1>4, <2>1, <2>2 DEF TypeOK, DeleteUpstream, DeleterStates, Jobs
<1>5. CASE DeleteRefused(d)
  <2>1. EndDelete(d, "failed")
    BY <1>5 DEF DeleteRefused
  <2> QED
    BY <1>2, <1>3, <1>5, <2>1 DEF TypeOK, DeleteRefused
<1>6. CASE DeleteUpstreamError(d)
  <2>1. EndDelete(d, "failed") /\ faults' \in 0..MaxFaults
    BY <1>6, FaultType DEF DeleteUpstreamError
  <2>2. up' \in [Items -> Meta]
    BY <1>6, StampTypes DEF TypeOK, DeleteUpstreamError
  <2> QED
    BY <1>2, <1>3, <1>6, <2>1, <2>2 DEF TypeOK, DeleteUpstreamError
<1>7. CASE DeletePublish(d)
  <2>1. EndDelete(d, "deleted")
    BY <1>7 DEF DeletePublish
  <2>2. /\ snapshot' \in Snapshot /\ cache' \in [Items -> Meta]
        /\ next' \in [Workers -> Snapshot] /\ job' \in [Workers -> Jobs]
    BY <1>7, StampTypes DEF TypeOK, DeletePublish, Jobs
  <2> QED
    BY <1>2, <1>3, <1>7, <2>1, <2>2 DEF TypeOK, DeletePublish
<1>8. CASE DeleteSaveError(d)
  <2>1. EndDelete(d, "failed")
    BY <1>8 DEF DeleteSaveError
  <2>2. next' \in [Workers -> Snapshot] /\ job' \in [Workers -> Jobs]
    BY <1>8, StampTypes DEF TypeOK, DeleteSaveError, Jobs
  <2> QED
    BY <1>2, <1>3, <1>8, <2>1, <2>2 DEF TypeOK, DeleteSaveError
<1>9. CASE Disconnect(d)
  <2>1. /\ lock' \in Workers \cup {Free} /\ waiters' \subseteq Deleters
        /\ pc' \in [Workers -> RefresherStates \cup DeleterStates]
    <3>1. CASE EndDelete(d, "gone")
      BY <3>1, <1>2, <1>3
    <3>2. CASE ~EndDelete(d, "gone")
      BY <1>9, <3>2, <1>3 DEF TypeOK, Disconnect
    <3> QED
      BY <3>1, <3>2
  <2>2. up' \in [Items -> Meta]
    BY <1>9, StampTypes DEF TypeOK, Disconnect
  <2>3. next' \in [Workers -> Snapshot] /\ job' \in [Workers -> Jobs]
    BY <1>9, StampTypes DEF TypeOK, Disconnect, Jobs
  <2> QED
    BY <1>9, <2>1, <2>2, <2>3 DEF TypeOK, Disconnect
<1> QED
  BY <1>1, <1>4, <1>5, <1>6, <1>7, <1>8, <1>9 DEF DeleteStep

\* A restart.
LEMMA CrashType == TypeOK /\ Crash => TypeOK'
<1> SUFFICES ASSUME TypeOK, Crash PROVE TypeOK'
  OBVIOUS
<1>1. \A w \in Workers : pc'[w] \in RefresherStates \cup DeleterStates
  BY DEF TypeOK, Crash, Returned, RefresherStates, DeleterStates
<1>2. pc' \in [Workers -> RefresherStates \cup DeleterStates]
  BY <1>1 DEF Crash
<1>3. faults' \in 0..MaxFaults
  BY FaultType DEF Crash
<1>4. /\ run' \in [Refreshers -> Run] /\ next' \in [Workers -> Snapshot]
      /\ job' \in [Workers -> Jobs]
  BY StampTypes DEF Crash, Jobs
<1> QED
  BY <1>2, <1>3, <1>4, StampTypes DEF TypeOK, Crash

LEMMA TypeStep == TypeOK /\ [Next]_vars => TypeOK'
<1> SUFFICES ASSUME TypeOK, [Next]_vars PROVE TypeOK'
  OBVIOUS
<1>1. CASE UNCHANGED vars
  BY <1>1 DEF TypeOK, vars
<1>2. CASE Next
  BY <1>2, EnvironmentType, RefreshType, DeleteType, SaveType, CrashType DEF Next
<1> QED
  BY <1>1, <1>2

\* Every variable keeps its type: in particular generations never pass MaxGen,
\* and the wait queue of refresh_lock only ever holds DELETE requests.
THEOREM TypeCorrect == Spec => []TypeOK
<1>1. Init => TypeOK
  BY TypeInit
<1>2. TypeOK /\ [Next]_vars => TypeOK'
  BY TypeStep
<1> QED
  BY <1>1, <1>2, PTL DEF Spec

-----------------------------------------------------------------------------
(* The discipline of refresh_lock.                                         *)

USE DEF Critical

\* The holder v leaves its critical section and hands the lock over.
LEMMA LockReleased ==
  ASSUME TypeOK, LockDiscipline, NEW v \in Workers, lock = v, Release,
         NEW s, s \notin {"list", "crawl", "saving", "command", "wait"},
         pc' = [pc EXCEPT ![v] = s]
  PROVE  LockDiscipline'
<1>1. CASE waiters = {} /\ lock' = Free /\ UNCHANGED waiters
  <2>1. \A w \in Workers : ~(Critical(w))'
    BY <1>1, WorkersAssumption DEF TypeOK, LockDiscipline
  <2> QED
    BY <1>1, <2>1, WorkersAssumption DEF TypeOK, LockDiscipline
<1>2. ASSUME NEW d \in waiters, lock' = d, waiters' = waiters \ {d}
      PROVE  LockDiscipline'
  <2>1. d \in Deleters /\ pc[d] = "wait" /\ d # v
    BY <1>2, WorkersAssumption DEF TypeOK, LockDiscipline
  <2>2. \A w \in Workers : (Critical(w))' <=> lock' = w
    BY <1>2, <2>1, WorkersAssumption DEF TypeOK, LockDiscipline
  <2>3. \A x \in Deleters : x \in waiters' => pc'[x] = "wait"
    BY <1>2, WorkersAssumption DEF TypeOK, LockDiscipline
  <2> QED
    BY <1>2, <2>1, <2>2, <2>3, WorkersAssumption DEF LockDiscipline
<1> QED
  BY <1>1, <1>2 DEF Release

LEMMA LockAtEndOfRefresh ==
  ASSUME TypeOK, LockDiscipline, NEW w \in Refreshers, EndRefresh(w),
         pc[w] \in {"list", "crawl", "saving", "command"}
  PROVE  LockDiscipline'
<1>1. lock = w
  BY DEF LockDiscipline
<1>2. Returned(w) \notin {"list", "crawl", "saving", "command", "wait"}
  BY DEF Returned
<1> QED
  BY <1>1, <1>2, LockReleased DEF EndRefresh

LEMMA LockAtEndOfDelete ==
  ASSUME TypeOK, LockDiscipline, NEW d \in Deleters, lock = d,
         NEW answer \in {"deleted", "failed", "gone"}, EndDelete(d, answer)
  PROVE  LockDiscipline'
BY LockReleased DEF EndDelete

\* A step inside a critical section.
LEMMA LockKept ==
  ASSUME TypeOK, LockDiscipline, NEW w \in Workers, lock = w,
         UNCHANGED lockVars,
         NEW s, pc' = [pc EXCEPT ![w] = s],
         w \in Refreshers => s \in {"list", "crawl", "saving", "command"},
         w \in Deleters => s = "saving"
  PROVE  LockDiscipline'
<1>1. w \notin waiters
  BY WorkersAssumption DEF TypeOK, LockDiscipline
<1>2. \A v \in Workers : (Critical(v))' <=> lock' = v
  BY WorkersAssumption DEF TypeOK, LockDiscipline
<1> QED
  BY <1>1, <1>2, WorkersAssumption DEF TypeOK, LockDiscipline

\* A step that does not concern the lock.
LEMMA LockUntouched ==
  ASSUME TypeOK, LockDiscipline, UNCHANGED <<lockVars, pc>>
  PROVE  LockDiscipline'
BY DEF LockDiscipline

LEMMA LockRefresh ==
  ASSUME TypeOK, LockDiscipline, NEW w \in Refreshers,
         \/ RefreshBegin(w) \/ RefreshSkip(w) \/ RefreshStep(w)
         \/ RefreshDiscoverError(w) \/ BodyStalls(w) \/ BodyResumes(w)
  PROVE  LockDiscipline'
<1>1. CASE RefreshBegin(w)
  <2>1. \A v \in Workers : (Critical(v))' <=> lock' = v
    BY <1>1, WorkersAssumption DEF TypeOK, LockDiscipline, RefreshBegin
  <2> QED
    BY <1>1, <2>1, WorkersAssumption DEF TypeOK, LockDiscipline, RefreshBegin
<1>2. CASE RefreshSkip(w)
  <2>1. \A v \in Workers : (Critical(v))' <=> Critical(v)
    BY <1>2, WorkersAssumption DEF TypeOK, RefreshSkip
  <2> QED
    BY <1>2, <2>1, WorkersAssumption DEF TypeOK, LockDiscipline, RefreshSkip
<1>3. CASE RefreshList(w)
  BY <1>3, LockKept, WorkersAssumption DEF RefreshList, LockDiscipline
<1>4. ASSUME NEW i \in Items, RefreshCrawl(w, i)
      PROVE  LockDiscipline'
  BY <1>4, LockUntouched DEF RefreshCrawl
<1>5. ASSUME NEW i \in Items, RefreshCrawlMissing(w, i)
      PROVE  LockDiscipline'
  BY <1>5, LockAtEndOfRefresh DEF RefreshCrawlMissing
<1>6. CASE RefreshBuild(w)
  BY <1>6, LockKept, WorkersAssumption DEF RefreshBuild, LockDiscipline
<1>7. CASE RefreshPublish(w)
  <2>1. CASE EndRefresh(w)
    BY <1>7, <2>1, LockAtEndOfRefresh DEF RefreshPublish
  <2>2. CASE ~EndRefresh(w)
    BY <1>7, <2>2, LockKept, WorkersAssumption DEF RefreshPublish, LockDiscipline
  <2> QED
    BY <2>1, <2>2
<1>8. CASE RefreshSaveError(w)
  BY <1>8, LockAtEndOfRefresh DEF RefreshSaveError
<1>9. CASE RefreshCommandDone(w)
  BY <1>9, LockAtEndOfRefresh DEF RefreshCommandDone
<1>10. CASE RefreshDiscoverError(w)
  BY <1>10, LockAtEndOfRefresh DEF RefreshDiscoverError
<1>11. CASE BodyStalls(w)
  BY <1>11, LockUntouched DEF BodyStalls
<1>12. CASE BodyResumes(w)
  BY <1>12, LockUntouched DEF BodyResumes
<1> QED
  BY <1>1, <1>2, <1>3, <1>4, <1>5, <1>6, <1>7, <1>8, <1>9, <1>10, <1>11, <1>12
     DEF RefreshStep

LEMMA LockDelete ==
  ASSUME TypeOK, LockDiscipline, NEW d \in Deleters,
         \/ \E i \in Items : DeleteRequest(d, i)
         \/ DeleteStep(d) \/ DeleteUpstreamError(d) \/ Disconnect(d)
  PROVE  LockDiscipline'
<1>1. ASSUME NEW i \in Items, DeleteRequest(d, i)
      PROVE  LockDiscipline'
  <2>1. d \notin waiters
    BY <1>1 DEF LockDiscipline, DeleteRequest
  <2>2. \A v \in Workers : (Critical(v))' <=> lock' = v
    BY <1>1, <2>1, WorkersAssumption DEF TypeOK, LockDiscipline, DeleteRequest
  <2> QED
    BY <1>1, <2>1, <2>2, WorkersAssumption DEF TypeOK, LockDiscipline, DeleteRequest
<1>2. CASE DeleteUpstream(d)
  BY <1>2, LockKept, WorkersAssumption DEF DeleteUpstream
<1>3. CASE DeleteRefused(d)
  BY <1>3, LockAtEndOfDelete DEF DeleteRefused
<1>4. CASE DeleteUpstreamError(d)
  BY <1>4, LockAtEndOfDelete DEF DeleteUpstreamError
<1>5. CASE DeletePublish(d)
  <2>1. lock = d
    BY <1>5, WorkersAssumption DEF DeletePublish, LockDiscipline
  <2> QED
    BY <1>5, <2>1, LockAtEndOfDelete DEF DeletePublish
<1>6. CASE DeleteSaveError(d)
  <2>1. lock = d
    BY <1>6, WorkersAssumption DEF DeleteSaveError, LockDiscipline
  <2> QED
    BY <1>6, <2>1, LockAtEndOfDelete DEF DeleteSaveError
<1>7. CASE Disconnect(d)
  <2>1. CASE lock = d
    BY <1>7, <2>1, LockAtEndOfDelete DEF Disconnect
  <2>2. CASE lock # d
    <3>1. /\ d \in waiters /\ waiters' = waiters \ {d}
          /\ pc' = [pc EXCEPT ![d] = "gone"] /\ lock' = lock
      BY <1>7, <2>2, WorkersAssumption DEF LockDiscipline, Disconnect
    <3>2. \A v \in Workers : (Critical(v))' <=> lock' = v
      BY <2>2, <3>1, WorkersAssumption DEF TypeOK, LockDiscipline
    <3> QED
      BY <2>2, <3>1, <3>2, WorkersAssumption DEF TypeOK, LockDiscipline
  <2> QED
    BY <2>1, <2>2
<1> QED
  BY <1>1, <1>2, <1>3, <1>4, <1>5, <1>6, <1>7 DEF DeleteStep

LEMMA LockCrash == TypeOK /\ LockDiscipline /\ Crash => LockDiscipline'
<1> SUFFICES ASSUME TypeOK, LockDiscipline, Crash PROVE LockDiscipline'
  OBVIOUS
<1>1. \A w \in Workers : ~(Critical(w))'
  BY WorkersAssumption DEF Crash, Returned
<1> QED
  BY <1>1, WorkersAssumption DEF Crash, LockDiscipline

LEMMA LockInit == Init => LockDiscipline
BY WorkersAssumption DEF Init, LockDiscipline

LEMMA LockStep ==
  TypeOK /\ LockDiscipline /\ [Next]_vars => LockDiscipline'
<1> SUFFICES ASSUME TypeOK, LockDiscipline, [Next]_vars PROVE LockDiscipline'
  OBVIOUS
<1>1. CASE UpstreamChange \/ FullIntervalElapses
  BY <1>1, LockUntouched DEF UpstreamChange, FullIntervalElapses
<1>2. ASSUME NEW w \in Workers, SaveWrite(w) \/ SaveFail(w)
      PROVE  LockDiscipline'
  BY <1>2, LockUntouched DEF SaveWrite, SaveFail
<1>3. CASE UNCHANGED vars
  BY <1>3, LockUntouched DEF vars
<1>4. CASE Next
  BY <1>1, <1>2, <1>4, LockRefresh, LockDelete, LockCrash DEF Next
<1> QED
  BY <1>3, <1>4

\* At any time at most one refresh or DELETE is between taking refresh_lock and
\* giving it back, a held lock has a live holder, and no waiter is forgotten.
THEOREM LockDisciplined == Spec => []LockDiscipline
<1>1. Init => TypeOK /\ LockDiscipline
  BY TypeInit, LockInit
<1>2. TypeOK /\ LockDiscipline /\ [Next]_vars => (TypeOK /\ LockDiscipline)'
  BY TypeStep, LockStep
<1> QED
  BY <1>1, <1>2, PTL DEF Spec

-----------------------------------------------------------------------------
(* The save jobs and the tasks they belong to.                             *)

\* A save job belongs to a task that waits for it, or to a DELETE whose client
\* left while the job was running; a task that waits has a job.
JobDiscipline ==
  /\ \A w \in Refreshers : pc[w] \in RefresherStates
  /\ \A w \in Workers : pc[w] = "saving" => job[w] # "none"
  /\ \A w \in Workers : job[w] # "none" =>
       \/ pc[w] = "saving"
       \/ pc[w] = "gone" /\ job[w] = "pending"

JInv == TypeOK /\ LockDiscipline /\ JobDiscipline

\* A task with a job is the holder of the lock, or gone.
LEMMA JobHolder ==
  ASSUME JInv, NEW w \in Workers, job[w] # "none", lock # w
  PROVE  w \in Deleters /\ pc[w] = "gone" /\ job[w] = "pending"
BY WorkersAssumption
   DEF JInv, JobDiscipline, LockDiscipline, RefresherStates

\* Whoever gets the lock has no job yet.
LEMMA ReleaseJob ==
  ASSUME JInv, Release, lock' # Free
  PROVE  lock' \in Deleters /\ job[lock'] = "none" /\ pc[lock'] = "wait"
BY DEF Release, JInv, JobDiscipline, LockDiscipline, TypeOK

LEMMA JobInit == Init => JobDiscipline
BY DEF Init, JobDiscipline, RefresherStates

LEMMA JobRefresh ==
  ASSUME JInv, NEW w \in Refreshers,
         \/ RefreshBegin(w) \/ RefreshSkip(w) \/ RefreshStep(w)
         \/ RefreshDiscoverError(w) \/ BodyStalls(w) \/ BodyResumes(w)
  PROVE  JobDiscipline'
<1> USE DEF JInv, JobDiscipline
<1>1. CASE RefreshBegin(w)
  BY <1>1 DEF RefreshBegin, RefresherStates, TypeOK
<1>2. CASE RefreshSkip(w)
  BY <1>2 DEF RefreshSkip, RefresherStates, TypeOK
<1>3. CASE RefreshList(w)
  BY <1>3 DEF RefreshList, RefresherStates, TypeOK
<1>4. ASSUME NEW i \in Items, RefreshCrawl(w, i)
      PROVE  JobDiscipline'
  BY <1>4 DEF RefreshCrawl
<1>5. ASSUME EndRefresh(w), UNCHANGED job, job[w] = "none"
      PROVE  JobDiscipline'
  BY <1>5 DEF EndRefresh, Returned, RefresherStates, TypeOK
<1>6. ASSUME NEW i \in Items, RefreshCrawlMissing(w, i)
      PROVE  JobDiscipline'
  BY <1>5, <1>6 DEF RefreshCrawlMissing
<1>7. CASE RefreshBuild(w)
  BY <1>7 DEF RefreshBuild, RefresherStates, TypeOK
<1>8. CASE RefreshPublish(w)
  <2>1. pc' = [pc EXCEPT ![w] = Returned(w)] \/ pc' = [pc EXCEPT ![w] = "command"]
    BY <1>8 DEF RefreshPublish, EndRefresh
  <2> QED
    BY <1>8, <2>1 DEF RefreshPublish, Returned, RefresherStates, TypeOK
<1>9. CASE RefreshSaveError(w)
  BY <1>9 DEF RefreshSaveError, EndRefresh, Returned, RefresherStates, TypeOK
<1>10. CASE RefreshCommandDone(w)
  BY <1>5, <1>10 DEF RefreshCommandDone
<1>11. CASE RefreshDiscoverError(w)
  BY <1>5, <1>11 DEF RefreshDiscoverError
<1>12. CASE BodyStalls(w)
  BY <1>12 DEF BodyStalls
<1>13. CASE BodyResumes(w)
  BY <1>13 DEF BodyResumes
<1> QED
  BY <1>1, <1>2, <1>3, <1>4, <1>6, <1>7, <1>8, <1>9, <1>10, <1>11, <1>12, <1>13
     DEF RefreshStep

LEMMA JobDelete ==
  ASSUME JInv, NEW d \in Deleters,
         \/ \E i \in Items : DeleteRequest(d, i)
         \/ DeleteStep(d) \/ DeleteUpstreamError(d) \/ Disconnect(d)
  PROVE  JobDiscipline'
<1> USE WorkersAssumption DEF JInv, JobDiscipline
<1>1. ASSUME NEW i \in Items, DeleteRequest(d, i)
      PROVE  JobDiscipline'
  BY <1>1 DEF DeleteRequest, TypeOK
<1>2. CASE DeleteUpstream(d)
  BY <1>2 DEF DeleteUpstream, TypeOK
<1>3. ASSUME NEW answer \in {"deleted", "failed", "gone"}, EndDelete(d, answer),
             \/ UNCHANGED job /\ job[d] = "none"
             \/ job' = [job EXCEPT ![d] = "none"]
      PROVE  JobDiscipline'
  BY <1>3 DEF EndDelete, TypeOK
<1>4. CASE DeleteRefused(d)
  BY <1>3, <1>4 DEF DeleteRefused
<1>5. CASE DeleteUpstreamError(d)
  BY <1>3, <1>5 DEF DeleteUpstreamError
<1>6. CASE DeletePublish(d)
  BY <1>3, <1>6 DEF DeletePublish
<1>7. CASE DeleteSaveError(d)
  BY <1>3, <1>7 DEF DeleteSaveError
<1>8. CASE Disconnect(d)
  <2>1. pc' = [pc EXCEPT ![d] = "gone"]
    BY <1>8 DEF Disconnect, EndDelete
  <2>2. \/ job[d] \in {"none", "pending"} /\ job' = job
        \/ job' = [job EXCEPT ![d] = "none"]
    BY <1>8 DEF Disconnect
  <2> QED
    BY <2>1, <2>2 DEF TypeOK
<1> QED
  BY <1>1, <1>2, <1>4, <1>5, <1>6, <1>7, <1>8 DEF DeleteStep

LEMMA JobSave ==
  ASSUME JInv, NEW w \in Workers, SaveWrite(w) \/ SaveFail(w)
  PROVE  JobDiscipline'
<1>1. UNCHANGED pc
  BY DEF SaveWrite, SaveFail
<1>2. \/ pc[w] = "gone" /\ job' = [job EXCEPT ![w] = "none"]
      \/ /\ pc[w] = "saving"
         /\ \E j \in {"ok", "err"} : job' = [job EXCEPT ![w] = j]
  BY DEF SaveWrite, SaveFail, JInv, JobDiscipline
<1> QED
  BY <1>1, <1>2 DEF JInv, JobDiscipline, TypeOK

LEMMA JobCrash == JInv /\ Crash => JobDiscipline'
BY WorkersAssumption
   DEF JInv, JobDiscipline, Crash, Returned, RefresherStates

LEMMA JobStep == JInv /\ [Next]_vars => JInv'
<1> SUFFICES ASSUME JInv, [Next]_vars PROVE JobDiscipline'
  BY TypeStep, LockStep DEF JInv
<1>1. CASE UpstreamChange \/ FullIntervalElapses \/ UNCHANGED vars
  BY <1>1 DEF UpstreamChange, FullIntervalElapses, vars, JInv, JobDiscipline
<1>2. CASE Next
  BY <1>1, <1>2, JobRefresh, JobDelete, JobSave, JobCrash DEF Next
<1> QED
  BY <1>1, <1>2

\* The inductive invariant of the lock and the jobs.
THEOREM JobsDisciplined == Spec => []JInv
<1>1. Init => JInv
  BY TypeInit, LockInit, JobInit DEF JInv
<1> QED
  BY <1>1, JobStep, PTL DEF Spec

-----------------------------------------------------------------------------
(* The index implements the catalogue.                                     *)

USE DEF Catalogue!catalogVars

\* Nothing the catalogue shows has moved.
LEMMA OrphansKept ==
  ASSUME \A d \in Deleters : d \in Orphaned' <=> d \in Orphaned,
         \A d \in Orphaned : next'[d] = next[d]
  PROVE  {next[d] : d \in Orphaned}' = {next[d] : d \in Orphaned}
<1>1. Orphaned' = Orphaned
  BY DEF Orphaned
<1> QED
  BY <1>1

\* A step that leaves snapshots, jobs and gone DELETEs alone while no draft is
\* in hand, before or after, is a stutter of the catalogue.
LEMMA QuietStep ==
  ASSUME JInv, UNCHANGED <<snapshot, db, job, next>>,
         lock = Free \/ job[lock] = "none",
         lock' = Free \/ job[lock'] = "none",
         \A d \in Deleters : job[d] = "pending" => pc'[d] = pc[d]
  PROVE  UNCHANGED Catalogue!catalogVars
<1>1. DraftInHand' = DraftInHand
  BY DEF DraftInHand
<1>2. {next[d] : d \in Orphaned}' = {next[d] : d \in Orphaned}
  BY OrphansKept DEF Orphaned, JInv, JobDiscipline
<1> QED
  BY <1>1, <1>2

\* The same with the lock untouched, whatever is in hand.
LEMMA LockedStep ==
  ASSUME JInv, UNCHANGED <<snapshot, db, job, next, lock>>,
         \A d \in Deleters : job[d] = "pending" => pc'[d] = pc[d]
  PROVE  UNCHANGED Catalogue!catalogVars
<1>1. DraftInHand' = DraftInHand
  BY DEF DraftInHand
<1>2. {next[d] : d \in Orphaned}' = {next[d] : d \in Orphaned}
  BY OrphansKept DEF Orphaned, JInv, JobDiscipline
<1> QED
  BY <1>1, <1>2

\* Taking up a new snapshot is preparing a draft.
LEMMA PrepareStep ==
  ASSUME JInv, TypeOK', NEW w \in Workers, lock = w, job[w] = "none",
         UNCHANGED <<snapshot, db, lock>>, pc[w] # "gone",
         next' = [next EXCEPT ![w] = next'[w]],
         next'[w].gen = NextGen(snapshot.gen),
         job' = [job EXCEPT ![w] = "pending"],
         pc' = [pc EXCEPT ![w] = "saving"]
  PROVE  Catalogue!Prepare
<1>1. DraftInHand = Catalogue!NoDraft
  BY DEF DraftInHand, Catalogue!NoDraft
<1>2. DraftInHand' = [stage |-> "prepared", version |-> next'[w]]
  BY WorkersAssumption DEF DraftInHand, JInv, TypeOK
<1>3. next'[w] \in Catalogue!Version
  BY DEF TypeOK, Snapshot, Catalogue!Version
<1>4. {next[d] : d \in Orphaned}' = {next[d] : d \in Orphaned}
  BY OrphansKept DEF Orphaned, JInv, TypeOK
<1> QED
  BY <1>1, <1>2, <1>3, <1>4
     DEF Catalogue!Prepare, Catalogue!Draft, Catalogue!Succ, NextGen

\* Publishing a saved snapshot is serving the draft.
LEMMA ServeStep ==
  ASSUME JInv, NEW w \in Workers, pc[w] = "saving", job[w] = "ok",
         snapshot' = next[w], UNCHANGED db,
         next' = [next EXCEPT ![w] = Empty],
         job' = [job EXCEPT ![w] = "none"],
         NEW s, pc' = [pc EXCEPT ![w] = s], s # "gone",
         lock' = w \/ Release
  PROVE  Catalogue!Serve
<1>1. lock = w
  BY JobHolder DEF JInv
<1>2. DraftInHand = [stage |-> "stored", version |-> next[w]]
  BY <1>1, WorkersAssumption DEF DraftInHand
<1>3. lock' = Free \/ job'[lock'] = "none"
  BY ReleaseJob, WorkersAssumption DEF JInv, TypeOK
<1>4. DraftInHand' = Catalogue!NoDraft
  BY <1>3 DEF DraftInHand, Catalogue!NoDraft
<1>5. {next[d] : d \in Orphaned}' = {next[d] : d \in Orphaned}
  BY OrphansKept DEF Orphaned, JInv, TypeOK
<1> QED
  BY <1>2, <1>4, <1>5 DEF Catalogue!Serve

\* Forgetting about a job, whatever became of it, is dropping the draft.
LEMMA DropStep ==
  ASSUME JInv, NEW w \in Workers, lock = w, job[w] # "none",
         UNCHANGED <<snapshot, db>>,
         next' = [next EXCEPT ![w] = Empty],
         job' = [job EXCEPT ![w] = "none"],
         NEW s, pc' = [pc EXCEPT ![w] = s], Release
  PROVE  Catalogue!Drop
<1>1. DraftInHand # Catalogue!NoDraft
  <2>1. DraftInHand.stage # "none"
    BY WorkersAssumption DEF DraftInHand
  <2> QED
    BY <2>1 DEF Catalogue!NoDraft
<1>2. lock' = Free \/ job'[lock'] = "none"
  BY ReleaseJob DEF JInv, TypeOK
<1>3. DraftInHand' = Catalogue!NoDraft
  BY <1>2 DEF DraftInHand, Catalogue!NoDraft
<1>4. pc[w] # "gone"
  BY WorkersAssumption DEF JInv, LockDiscipline
<1>5. {next[d] : d \in Orphaned}' = {next[d] : d \in Orphaned}
  BY <1>4, OrphansKept DEF Orphaned, JInv, TypeOK
<1> QED
  BY <1>1, <1>3, <1>5 DEF Catalogue!Drop

\* A refresh that ends before it has anything to save.
LEMMA QuietEnd ==
  ASSUME JInv, NEW w \in Refreshers, EndRefresh(w), job[w] = "none", lock = w,
         UNCHANGED <<snapshot, db, job, next>>
  PROVE  UNCHANGED Catalogue!catalogVars
<1>1. lock' = Free \/ job[lock'] = "none"
  BY ReleaseJob DEF EndRefresh
<1> QED
  BY <1>1, QuietStep, WorkersAssumption DEF EndRefresh

LEMMA RefineRefresh ==
  ASSUME JInv, TypeOK', NEW w \in Refreshers,
         \/ RefreshBegin(w) \/ RefreshSkip(w) \/ RefreshStep(w)
         \/ RefreshDiscoverError(w) \/ BodyStalls(w) \/ BodyResumes(w)
  PROVE  [Catalogue!CatalogNext]_(Catalogue!catalogVars)
<1>1. ASSUME pc[w] \in {"list", "crawl", "saving", "command"}
      PROVE  lock = w /\ (pc[w] # "saving" => job[w] = "none")
  BY <1>1 DEF JInv, LockDiscipline, JobDiscipline
<1>2. CASE RefreshBegin(w)
  <2>1. job[w] = "none"
    BY <1>2 DEF RefreshBegin, JInv, JobDiscipline
  <2> QED
    BY <1>2, <2>1, QuietStep, WorkersAssumption DEF RefreshBegin
<1>3. CASE RefreshSkip(w)
  BY <1>3, LockedStep, WorkersAssumption DEF RefreshSkip
<1>4. CASE RefreshList(w)
  BY <1>4, LockedStep, WorkersAssumption DEF RefreshList
<1>5. ASSUME NEW i \in Items, RefreshCrawl(w, i)
      PROVE  UNCHANGED Catalogue!catalogVars
  BY <1>5, LockedStep DEF RefreshCrawl
<1>6. ASSUME NEW i \in Items, RefreshCrawlMissing(w, i)
      PROVE  UNCHANGED Catalogue!catalogVars
  BY <1>1, <1>6, QuietEnd DEF RefreshCrawlMissing
<1>7. CASE RefreshBuild(w)
  <2> DEFINE new == [gen |-> NextGen(snapshot.gen),
                     resources |-> Classify(run[w].got)]
  <2>1. next' = [next EXCEPT ![w] = next'[w]] /\ next'[w].gen = NextGen(snapshot.gen)
    <3>1. next' = [next EXCEPT ![w] = new]
      BY <1>7 DEF RefreshBuild
    <3>2. next'[w] = new
      BY <3>1 DEF JInv, TypeOK
    <3>3. next'[w].gen = NextGen(snapshot.gen)
      BY <3>2
    <3> HIDE DEF new
    <3> QED
      BY <3>1, <3>2, <3>3
  <2>2. /\ lock = w /\ job[w] = "none" /\ pc[w] # "gone"
        /\ UNCHANGED <<snapshot, db, lock>>
        /\ job' = [job EXCEPT ![w] = "pending"]
        /\ pc' = [pc EXCEPT ![w] = "saving"]
    BY <1>1, <1>7 DEF RefreshBuild
  <2>3. Catalogue!Prepare
    BY <2>1, <2>2, PrepareStep
  <2> QED
    BY <2>3 DEF Catalogue!CatalogNext
<1>8. CASE RefreshPublish(w)
  <2>1. \/ lock' = w /\ pc' = [pc EXCEPT ![w] = "command"]
        \/ Release /\ pc' = [pc EXCEPT ![w] = Returned(w)]
    BY <1>1, <1>8 DEF RefreshPublish, EndRefresh
  <2>2. Returned(w) # "gone"
    BY DEF Returned
  <2>3. Catalogue!Serve
    BY <1>8, <2>1, <2>2, ServeStep DEF RefreshPublish
  <2> QED
    BY <2>3 DEF Catalogue!CatalogNext
<1>9. CASE RefreshSaveError(w)
  <2>1. Catalogue!Drop
    BY <1>1, <1>9, DropStep DEF RefreshSaveError, EndRefresh
  <2> QED
    BY <2>1 DEF Catalogue!CatalogNext
<1>10. CASE RefreshCommandDone(w)
  BY <1>1, <1>10, QuietEnd DEF RefreshCommandDone
<1>11. CASE RefreshDiscoverError(w)
  BY <1>1, <1>11, QuietEnd DEF RefreshDiscoverError
<1>12. CASE BodyStalls(w)
  BY <1>12, LockedStep DEF BodyStalls
<1>13. CASE BodyResumes(w)
  BY <1>13, LockedStep DEF BodyResumes
<1> QED
  BY <1>2, <1>3, <1>4, <1>5, <1>6, <1>7, <1>8, <1>9, <1>10, <1>11, <1>12, <1>13
     DEF RefreshStep

LEMMA RefineDelete ==
  ASSUME JInv, TypeOK', NEW d \in Deleters,
         \/ \E i \in Items : DeleteRequest(d, i)
         \/ DeleteStep(d) \/ DeleteUpstreamError(d) \/ Disconnect(d)
  PROVE  [Catalogue!CatalogNext]_(Catalogue!catalogVars)
<1>1. ASSUME pc[d] # "saving", pc[d] # "gone"
      PROVE  job[d] = "none"
  BY <1>1 DEF JInv, JobDiscipline
<1>2. ASSUME pc[d] = "saving"
      PROVE  lock = d /\ job[d] # "none"
  BY <1>2, WorkersAssumption DEF JInv, LockDiscipline, JobDiscipline
<1>3. ASSUME NEW i \in Items, DeleteRequest(d, i)
      PROVE  UNCHANGED Catalogue!catalogVars
  <2>1. job[d] = "none" /\ pc' = [pc EXCEPT ![d] = "wait"]
    BY <1>1, <1>3 DEF DeleteRequest
  <2>2. \A x \in Deleters : job[x] = "pending" => pc'[x] = pc[x]
    BY <2>1
  <2>3. CASE lock = Free
    BY <1>3, <2>1, <2>2, <2>3, QuietStep DEF DeleteRequest
  <2>4. CASE lock # Free
    BY <1>3, <2>2, <2>4, LockedStep DEF DeleteRequest
  <2> QED
    BY <2>3, <2>4
<1>4. CASE DeleteUpstream(d)
  <2> DEFINE new == Without(snapshot, target[d])
  <2>1. next' = [next EXCEPT ![d] = new]
    BY <1>4 DEF DeleteUpstream
  <2>2. next'[d] = new
    BY <2>1 DEF JInv, TypeOK
  <2>3. next'[d].gen = NextGen(snapshot.gen)
    BY <2>2 DEF Without
  <2> HIDE DEF new
  <2>4. next' = [next EXCEPT ![d] = next'[d]]
    BY <2>1, <2>2
  <2>5. /\ lock = d /\ job[d] = "none" /\ pc[d] # "gone"
        /\ UNCHANGED <<snapshot, db, lock>>
        /\ job' = [job EXCEPT ![d] = "pending"]
        /\ pc' = [pc EXCEPT ![d] = "saving"]
    BY <1>1, <1>4 DEF DeleteUpstream
  <2>6. Catalogue!Prepare
    BY <2>3, <2>4, <2>5, PrepareStep
  <2> QED
    BY <2>6 DEF Catalogue!CatalogNext
<1>5. ASSUME NEW answer, EndDelete(d, answer), lock = d, job[d] = "none",
             UNCHANGED <<snapshot, db, job, next>>
      PROVE  UNCHANGED Catalogue!catalogVars
  <2>1. lock' = Free \/ job[lock'] = "none"
    BY <1>5, ReleaseJob DEF EndDelete
  <2> QED
    BY <1>5, <2>1, QuietStep DEF EndDelete
<1>6. CASE DeleteRefused(d)
  BY <1>1, <1>5, <1>6 DEF DeleteRefused
<1>7. CASE DeleteUpstreamError(d)
  BY <1>1, <1>5, <1>7 DEF DeleteUpstreamError
<1>8. CASE DeletePublish(d)
  <2>1. Catalogue!Serve
    BY <1>8, ServeStep DEF DeletePublish, EndDelete
  <2> QED
    BY <2>1 DEF Catalogue!CatalogNext
<1>9. CASE DeleteSaveError(d)
  <2>1. Catalogue!Drop
    BY <1>2, <1>9, DropStep DEF DeleteSaveError, EndDelete
  <2> QED
    BY <2>1 DEF Catalogue!CatalogNext
<1>10. CASE Disconnect(d)
  <2>1. ASSUME lock = d
        PROVE  EndDelete(d, "gone") /\ UNCHANGED <<snapshot, db>>
    BY <1>10, <2>1 DEF Disconnect
  <2>2. CASE lock # d
    <3>1. job[d] = "none"
      BY <1>1, <1>2, <1>10, <2>2 DEF Disconnect
    <3>2. /\ pc' = [pc EXCEPT ![d] = "gone"]
          /\ UNCHANGED <<snapshot, db, job, next, lock>>
      BY <1>10, <2>2, <3>1 DEF Disconnect
    <3>3. \A x \in Deleters : job[x] = "pending" => pc'[x] = pc[x]
      BY <3>1, <3>2
    <3> QED
      BY <3>2, <3>3, LockedStep
  <2>3. CASE lock = d /\ job[d] = "none"
    BY <1>5, <1>10, <2>1, <2>3 DEF Disconnect
  <2>4. CASE lock = d /\ job[d] \in {"ok", "err"}
    <3>1. /\ next' = [next EXCEPT ![d] = Empty]
          /\ job' = [job EXCEPT ![d] = "none"]
      BY <1>10, <2>4 DEF Disconnect
    <3>2. Catalogue!Drop
      BY <2>1, <2>4, <3>1, DropStep DEF EndDelete
    <3> QED
      BY <3>2 DEF Catalogue!CatalogNext
  <2>5. CASE lock = d /\ job[d] = "pending"
    <3>1. UNCHANGED <<next, job>> /\ pc' = [pc EXCEPT ![d] = "gone"] /\ Release
      BY <1>10, <2>1, <2>5 DEF Disconnect, EndDelete
    <3>2. DraftInHand = [stage |-> "prepared", version |-> next[d]]
      BY <2>5, WorkersAssumption DEF DraftInHand
    <3>3. lock' = Free \/ job[lock'] = "none"
      BY <3>1, ReleaseJob
    <3>4. DraftInHand' = Catalogue!NoDraft
      BY <3>1, <3>3 DEF DraftInHand, Catalogue!NoDraft
    <3>5. Orphaned' = Orphaned \cup {d}
      BY <2>5, <3>1, WorkersAssumption DEF Orphaned, JInv, TypeOK
    <3>6. {next[x] : x \in Orphaned}' = {next[x] : x \in Orphaned} \cup {next[d]}
      BY <3>1, <3>5
    <3>7. Catalogue!Orphan
      BY <2>1, <2>5, <3>2, <3>4, <3>6 DEF Catalogue!Orphan
    <3> QED
      BY <3>7 DEF Catalogue!CatalogNext
  <2> QED
    BY <2>2, <2>3, <2>4, <2>5 DEF JInv, TypeOK, Jobs
<1> QED
  BY <1>3, <1>4, <1>6, <1>7, <1>8, <1>9, <1>10 DEF DeleteStep

LEMMA RefineSave ==
  ASSUME JInv, TypeOK', NEW w \in Workers, SaveWrite(w) \/ SaveFail(w)
  PROVE  [Catalogue!CatalogNext]_(Catalogue!catalogVars)
<1>1. CASE pc[w] = "gone"
  <2>1. w \in Orphaned /\ lock # w
    BY <1>1, WorkersAssumption
       DEF SaveWrite, SaveFail, Orphaned, JInv, JobDiscipline, LockDiscipline,
           RefresherStates
  <2>2. /\ job' = [job EXCEPT ![w] = "none"]
        /\ next' = [next EXCEPT ![w] = Empty]
        /\ UNCHANGED <<snapshot, lock, pc>>
    BY <1>1 DEF SaveWrite, SaveFail
  <2>3. DraftInHand' = DraftInHand
    BY <2>1, <2>2 DEF DraftInHand, JInv, TypeOK
  <2>4. Orphaned' = Orphaned \ {w}
    BY <2>1, <2>2 DEF Orphaned, JInv, TypeOK
  <2>5. {next[d] : d \in Orphaned}' = {next[d] : d \in Orphaned \ {w}}
    <3>1. \A d \in Orphaned \ {w} : next'[d] = next[d]
      BY <2>2 DEF Orphaned, JInv, TypeOK
    <3> QED
      BY <2>4, <3>1
  <2>6. \/ {next[d] : d \in Orphaned \ {w}} = {next[d] : d \in Orphaned}
        \/ {next[d] : d \in Orphaned \ {w}}
             = {next[d] : d \in Orphaned} \ {next[w]}
    <3>1. CASE \E d \in Orphaned \ {w} : next[d] = next[w]
      BY <3>1
    <3>2. CASE ~ \E d \in Orphaned \ {w} : next[d] = next[w]
      BY <2>1, <3>2
    <3> QED
      BY <3>1, <3>2
  <2>7. next[w] \in {next[d] : d \in Orphaned}
    BY <2>1
  <2>8. CASE SaveWrite(w)
    <3>1. db' = next[w]
      BY <2>8 DEF SaveWrite
    <3>2. Catalogue!OrphanLands
      BY <2>2, <2>3, <2>5, <2>6, <2>7, <3>1 DEF Catalogue!OrphanLands
    <3> QED
      BY <3>2 DEF Catalogue!CatalogNext
  <2>9. CASE SaveFail(w)
    <3>1. db' = db
      BY <2>9 DEF SaveFail
    <3>2. Catalogue!OrphanFails \/ UNCHANGED Catalogue!catalogVars
      BY <2>2, <2>3, <2>5, <2>6, <2>7, <3>1 DEF Catalogue!OrphanFails
    <3> QED
      BY <3>2 DEF Catalogue!CatalogNext
  <2> QED
    BY <2>8, <2>9
<1>2. CASE pc[w] # "gone"
  <2>1. job[w] = "pending" /\ lock = w
    BY <1>2, JobHolder DEF SaveWrite, SaveFail
  <2>2. UNCHANGED <<snapshot, lock, pc, next>>
    BY <1>2 DEF SaveWrite, SaveFail, JInv, TypeOK
  <2>3. {next[d] : d \in Orphaned}' = {next[d] : d \in Orphaned}
    <3>1. \A d \in Deleters : d \in Orphaned' <=> d \in Orphaned
      BY <1>2, <2>2 DEF SaveWrite, SaveFail, Orphaned, JInv, TypeOK
    <3> QED
      BY <2>2, <3>1, OrphansKept
  <2>4. DraftInHand = [stage |-> "prepared", version |-> next[w]]
    BY <2>1, WorkersAssumption DEF DraftInHand
  <2>5. CASE SaveWrite(w)
    <3>1. DraftInHand' = [stage |-> "stored", version |-> next[w]]
      BY <1>2, <2>1, <2>2, <2>5, WorkersAssumption
         DEF SaveWrite, DraftInHand, JInv, TypeOK
    <3>2. Catalogue!StoreDraft
      BY <2>2, <2>3, <2>4, <2>5, <3>1 DEF SaveWrite, Catalogue!StoreDraft
    <3> QED
      BY <3>2 DEF Catalogue!CatalogNext
  <2>6. CASE SaveFail(w)
    <3>1. DraftInHand' = DraftInHand
      BY <1>2, <2>1, <2>2, <2>4, <2>6, WorkersAssumption
         DEF SaveFail, DraftInHand, JInv, TypeOK
    <3> QED
      BY <2>2, <2>3, <2>6, <3>1 DEF SaveFail
  <2> QED
    BY <2>5, <2>6
<1> QED
  BY <1>1, <1>2

LEMMA RefineCrash == Crash => Catalogue!Restart
<1> SUFFICES ASSUME Crash PROVE Catalogue!Restart
  OBVIOUS
<1>1. DraftInHand' = Catalogue!NoDraft
  BY DEF Crash, DraftInHand, Catalogue!NoDraft
<1>2. Orphaned' = {}
  BY WorkersAssumption DEF Crash, Orphaned
<1>3. {next[d] : d \in Orphaned}' = {}
  BY <1>2
<1> QED
  BY <1>1, <1>3 DEF Crash, Catalogue!Restart

LEMMA RefineInit == Init => Catalogue!CatalogInit
<1> SUFFICES ASSUME Init PROVE Catalogue!CatalogInit
  OBVIOUS
<1>1. DraftInHand = Catalogue!NoDraft
  BY DEF Init, DraftInHand, Catalogue!NoDraft
<1>2. Orphaned = {}
  BY DEF Init, Orphaned
<1>3. {next[d] : d \in Orphaned} = {}
  BY <1>2
<1>4. snapshot \in Catalogue!Version /\ snapshot.gen = 0 /\ db = snapshot
  BY BoundsAssumption DEF Init, Empty, Catalogue!Version
<1> QED
  BY <1>1, <1>3, <1>4 DEF Catalogue!CatalogInit

LEMMA RefineStep ==
  JInv /\ JInv' /\ [Next]_vars => [Catalogue!CatalogNext]_(Catalogue!catalogVars)
<1> SUFFICES ASSUME JInv, JInv', [Next]_vars
             PROVE  [Catalogue!CatalogNext]_(Catalogue!catalogVars)
  OBVIOUS
<1> USE DEF JInv
<1>1. CASE UpstreamChange \/ FullIntervalElapses \/ UNCHANGED vars
  BY <1>1, LockedStep DEF UpstreamChange, FullIntervalElapses, vars
<1>2. CASE Next
  BY <1>1, <1>2, RefineRefresh, RefineDelete, RefineSave, RefineCrash
     DEF Next, Catalogue!CatalogNext
<1> QED
  BY <1>1, <1>2

\* Refreshes, DELETEs, save jobs, disconnects and crashes, in any number and
\* any order, keep the promise of the catalogue: one draft at a time, based on
\* what is served, stored before it is served, and served again after a restart.
THEOREM CatalogueImplemented == Spec => ImplementsCatalogue
<1>1. Init => Catalogue!CatalogInit
  BY RefineInit
<1>2. JInv /\ JInv' /\ [Next]_vars
        => [Catalogue!CatalogNext]_(Catalogue!catalogVars)
  BY RefineStep
<1> QED
  BY <1>1, <1>2, JobsDisciplined, PTL
     DEF Spec, ImplementsCatalogue, Catalogue!CatalogSpec

-----------------------------------------------------------------------------
(* What holds of the catalogue holds of the index.                         *)

Promise == INSTANCE CatalogProofs WITH
  Contents <- SUBSET Resource,
  served <- snapshot,
  stored <- db,
  draft <- DraftInHand,
  orphans <- {next[d] : d \in Orphaned}

\* CatalogProofs is about the same catalogue.
LEMMA SameCatalogue ==
  /\ Catalogue!CatalogInit => Promise!CatalogInit
  /\ [Catalogue!CatalogNext]_(Catalogue!catalogVars)
       => [Promise!CatalogNext]_(Promise!catalogVars)
<1>1. Catalogue!CatalogInit => Promise!CatalogInit
  BY DEF Catalogue!CatalogInit, Promise!CatalogInit, Catalogue!Version,
         Promise!Version, Catalogue!NoDraft, Promise!NoDraft
<1>2. Catalogue!Prepare => Promise!Prepare
  BY DEF Catalogue!Prepare, Promise!Prepare, Catalogue!Draft, Promise!Draft,
         Catalogue!Version, Promise!Version, Catalogue!NoDraft,
         Promise!NoDraft, Catalogue!Succ, Promise!Succ
<1>3. /\ Catalogue!StoreDraft => Promise!StoreDraft
      /\ Catalogue!Serve => Promise!Serve
      /\ Catalogue!Drop => Promise!Drop
      /\ Catalogue!Orphan => Promise!Orphan
      /\ Catalogue!OrphanLands => Promise!OrphanLands
      /\ Catalogue!OrphanFails => Promise!OrphanFails
      /\ Catalogue!Restart => Promise!Restart
  BY DEF Catalogue!StoreDraft, Promise!StoreDraft, Catalogue!Serve,
         Promise!Serve, Catalogue!Drop, Promise!Drop, Catalogue!Orphan,
         Promise!Orphan, Catalogue!OrphanLands, Promise!OrphanLands,
         Catalogue!OrphanFails, Promise!OrphanFails, Catalogue!Restart,
         Promise!Restart, Catalogue!NoDraft, Promise!NoDraft
<1>4. UNCHANGED Catalogue!catalogVars => UNCHANGED Promise!catalogVars
  BY DEF Catalogue!catalogVars, Promise!catalogVars
<1> QED
  BY <1>1, <1>2, <1>3, <1>4 DEF Catalogue!CatalogNext, Promise!CatalogNext

LEMMA PromiseKept == Spec => Promise!CatalogSpec
<1>1. Catalogue!CatalogSpec => Promise!CatalogSpec
  BY SameCatalogue, PTL DEF Catalogue!CatalogSpec, Promise!CatalogSpec
<1> QED
  BY <1>1, CatalogueImplemented DEF ImplementsCatalogue

\* A restart brings back at most one update that was given up or whose answer
\* was lost, whatever failed, disconnected or landed late before it.
THEOREM StoredOneAhead == Spec => []StoredAtMostOneAhead
<1>1. Promise!CatalogSpec => []Promise!AtMostOneAhead
  BY Promise!StoredAhead, BoundsAssumption, PTL
<1>2. Promise!AtMostOneAhead => StoredAtMostOneAhead
  BY DEF Promise!AtMostOneAhead, Promise!Succ, StoredAtMostOneAhead, NextGen
<1> QED
  BY <1>1, <1>2, PromiseKept, PTL

\* Clients never see an older generation again while the process lives; after a
\* restart they see what was stored.
THEOREM ServedNeverGoesBack == Spec => ServedAdvances
<1>1. Promise!CatalogSpec => Promise!ServedAdvances
  BY Promise!ServedOnlyAdvances, BoundsAssumption, PTL
<1>2. TypeOK /\ [snapshot'.gen < snapshot.gen => snapshot' = db]_(Promise!catalogVars)
        => [snapshot'.gen < snapshot.gen => snapshot' = db]_vars
  <2> SUFFICES ASSUME TypeOK, UNCHANGED snapshot
               PROVE  ~(snapshot'.gen < snapshot.gen)
    BY DEF Promise!catalogVars
  <2> QED
    BY BoundsAssumption DEF TypeOK, Snapshot
<1> QED
  BY <1>1, <1>2, TypeCorrect, PromiseKept, PTL
     DEF Promise!ServedAdvances, ServedAdvances

-----------------------------------------------------------------------------
(* What the database holds.                                                *)

\* A save that has returned Ok has left its snapshot in the database.
DraftStored ==
  ~lateWrite => \A w \in Workers : job[w] = "ok" => db = next[w]

\* What a DELETE saves is still derived from what is served: nobody publishes
\* while it holds the lock.
DeletionDrafted ==
  \A d \in Deleters : pc[d] = "saving" => next[d] = Without(snapshot, target[d])

\* PersistedIsServed with the lock held: the database may also be ahead by the
\* saved draft of the holder.
Settled ==
  ~lateWrite =>
    \/ db = snapshot
    \/ \E d \in Deleters : pc[d] = "gone" /\ db = Without(snapshot, target[d])
    \/ lock # Free /\ job[lock] = "ok"

StoreDiscipline == DraftStored /\ DeletionDrafted /\ Settled

SInv == JInv /\ StoreDiscipline

\* Only the holder of the lock can have a finished save or be a DELETE that
\* saves.
LEMMA HolderOnly ==
  ASSUME JInv, NEW w \in Workers,
         \/ job[w] \in {"ok", "err"} \/ pc[w] = "saving"
         \/ w \in Refreshers /\ job[w] # "none"
  PROVE  lock = w
BY JobHolder, WorkersAssumption DEF JInv, LockDiscipline

\* A step that saves, publishes and drops nothing.
LEMMA StoreUntouched ==
  ASSUME SInv, UNCHANGED <<db, snapshot, lateWrite, next, job>>,
         lock # Free /\ job[lock] = "ok" => lock' = lock,
         \A d \in Deleters : pc'[d] = "saving" => pc[d] = "saving",
         \A d \in Deleters : pc[d] = "gone" => pc'[d] = "gone",
         \A d \in Deleters : pc[d] \in {"saving", "gone"} => target'[d] = target[d]
  PROVE  StoreDiscipline'
BY DEF SInv, StoreDiscipline, DraftStored, DeletionDrafted, Settled

\* The holder v takes up a draft.
LEMMA StorePrepare ==
  ASSUME SInv, NEW v \in Workers, lock = v, lock' = lock, job[v] = "none",
         pc[v] # "gone",
         UNCHANGED <<db, snapshot, lateWrite, target>>,
         NEW draft, next' = [next EXCEPT ![v] = draft],
         v \in Deleters => draft = Without(snapshot, target[v]),
         job' = [job EXCEPT ![v] = "pending"],
         pc' = [pc EXCEPT ![v] = "saving"]
  PROVE  StoreDiscipline'
<1>1. \A w \in Workers : job[w] # "ok"
  BY HolderOnly DEF SInv
<1>2. DraftStored'
  BY <1>1 DEF SInv, JInv, TypeOK, DraftStored
<1>3. DeletionDrafted'
  BY HolderOnly DEF SInv, JInv, TypeOK, StoreDiscipline, DeletionDrafted
<1>4. Settled'
  BY <1>1 DEF SInv, JInv, TypeOK, StoreDiscipline, Settled
<1> QED
  BY <1>2, <1>3, <1>4 DEF StoreDiscipline

\* The holder v lets go of its draft, saved or not: what is served then is what
\* the caller says.
LEMMA StoreRelease ==
  ASSUME SInv, NEW v \in Workers, lock = v, UNCHANGED <<db, lateWrite, target>>,
         job' = [job EXCEPT ![v] = "none"],
         next' = [next EXCEPT ![v] = Empty],
         NEW s, s # "saving", pc' = [pc EXCEPT ![v] = s],
         ~lateWrite => \/ db = snapshot'
                       \/ \E d \in Deleters : /\ pc'[d] = "gone"
                                              /\ db = Without(snapshot', target[d])
  PROVE  StoreDiscipline'
<1>1. \A w \in Workers : job'[w] # "ok"
  BY HolderOnly DEF SInv, JInv, TypeOK
<1>2. \A d \in Deleters : pc'[d] # "saving"
  BY HolderOnly DEF SInv, JInv, TypeOK
<1> QED
  BY <1>1, <1>2 DEF StoreDiscipline, DraftStored, DeletionDrafted, Settled

LEMMA StoreRefresh ==
  ASSUME SInv, NEW w \in Refreshers,
         \/ RefreshBegin(w) \/ RefreshSkip(w) \/ RefreshStep(w)
         \/ RefreshDiscoverError(w) \/ BodyStalls(w) \/ BodyResumes(w)
  PROVE  StoreDiscipline'
<1> USE WorkersAssumption
<1>1. ASSUME pc[w] \in {"list", "crawl", "saving", "command"}
      PROVE  lock = w /\ (pc[w] # "saving" => job[w] = "none")
  BY <1>1 DEF SInv, JInv, LockDiscipline, JobDiscipline
<1>2. ASSUME NEW s, pc' = [pc EXCEPT ![w] = s]
      PROVE  \A d \in Deleters : pc'[d] = pc[d]
  BY <1>2 DEF SInv, JInv, TypeOK
<1>3. CASE RefreshBegin(w)
  BY <1>2, <1>3, StoreUntouched DEF RefreshBegin
<1>4. CASE RefreshSkip(w)
  BY <1>2, <1>4, StoreUntouched DEF RefreshSkip
<1>5. CASE RefreshList(w)
  BY <1>2, <1>5, StoreUntouched DEF RefreshList
<1>6. ASSUME NEW i \in Items, RefreshCrawl(w, i)
      PROVE  StoreDiscipline'
  BY <1>6, StoreUntouched DEF RefreshCrawl
<1>7. ASSUME EndRefresh(w), job[w] = "none", lock = w,
             UNCHANGED <<storeVars, snapshot, saveVars, target>>
      PROVE  StoreDiscipline'
  BY <1>2, <1>7, StoreUntouched DEF EndRefresh
<1>8. ASSUME NEW i \in Items, RefreshCrawlMissing(w, i)
      PROVE  StoreDiscipline'
  BY <1>1, <1>7, <1>8 DEF RefreshCrawlMissing
<1>9. CASE RefreshBuild(w)
  BY <1>1, <1>9, StorePrepare DEF RefreshBuild
<1>10. CASE RefreshPublish(w)
  <2>1. lock = w /\ (~lateWrite => db = snapshot')
    BY <1>1, <1>10 DEF RefreshPublish, SInv, StoreDiscipline, DraftStored
  <2>2. \/ pc' = [pc EXCEPT ![w] = "command"]
        \/ pc' = [pc EXCEPT ![w] = Returned(w)]
    BY <1>10 DEF RefreshPublish, EndRefresh
  <2>3. Returned(w) # "saving"
    BY DEF Returned
  <2> QED
    BY <1>10, <2>1, <2>2, <2>3, StoreRelease DEF RefreshPublish
<1>11. CASE RefreshSaveError(w)
  <2>1. lock = w /\ job[lock] # "ok"
    BY <1>1, <1>11 DEF RefreshSaveError
  <2>2. /\ pc' = [pc EXCEPT ![w] = Returned(w)] /\ Returned(w) # "saving"
        /\ UNCHANGED <<db, snapshot, lateWrite, target>>
    BY <1>11 DEF RefreshSaveError, EndRefresh, Returned
  <2>3. ~lateWrite => \/ db = snapshot'
                      \/ \E d \in Deleters : /\ pc'[d] = "gone"
                                             /\ db = Without(snapshot', target[d])
    BY <1>2, <2>1, <2>2 DEF SInv, StoreDiscipline, Settled
  <2> QED
    BY <1>11, <2>1, <2>2, <2>3, StoreRelease DEF RefreshSaveError
<1>12. CASE RefreshCommandDone(w)
  BY <1>1, <1>7, <1>12 DEF RefreshCommandDone
<1>13. CASE RefreshDiscoverError(w)
  BY <1>1, <1>7, <1>13 DEF RefreshDiscoverError
<1>14. CASE BodyStalls(w)
  BY <1>14, StoreUntouched DEF BodyStalls
<1>15. CASE BodyResumes(w)
  BY <1>15, StoreUntouched DEF BodyResumes
<1> QED
  BY <1>3, <1>4, <1>5, <1>6, <1>8, <1>9, <1>10, <1>11, <1>12, <1>13, <1>14, <1>15
     DEF RefreshStep

LEMMA StoreDelete ==
  ASSUME SInv, NEW d \in Deleters,
         \/ \E i \in Items : DeleteRequest(d, i)
         \/ DeleteStep(d) \/ DeleteUpstreamError(d) \/ Disconnect(d)
  PROVE  StoreDiscipline'
<1> USE WorkersAssumption
<1>1. ASSUME pc[d] \in {"idle", "wait"}
      PROVE  job[d] = "none"
  BY <1>1 DEF SInv, JInv, JobDiscipline
<1>2. ASSUME NEW i \in Items, DeleteRequest(d, i)
      PROVE  StoreDiscipline'
  <2>1. /\ pc[d] = "idle" /\ pc' = [pc EXCEPT ![d] = "wait"]
        /\ target' = [target EXCEPT ![d] = i]
        /\ lock # Free => lock' = lock
        /\ UNCHANGED <<db, snapshot, lateWrite, next, job>>
    BY <1>2 DEF DeleteRequest
  <2> QED
    BY <2>1, StoreUntouched DEF SInv, JInv, TypeOK
<1>3. CASE DeleteUpstream(d)
  BY <1>1, <1>3, StorePrepare DEF DeleteUpstream
<1>4. ASSUME NEW s, EndDelete(d, s), s # "saving", pc[d] = "wait", lock = d,
             UNCHANGED <<db, snapshot, lateWrite, next, job, target>>
      PROVE  StoreDiscipline'
  BY <1>1, <1>4, StoreUntouched DEF EndDelete, SInv, JInv, TypeOK
<1>5. CASE DeleteRefused(d)
  BY <1>4, <1>5 DEF DeleteRefused
<1>6. CASE DeleteUpstreamError(d)
  BY <1>4, <1>6 DEF DeleteUpstreamError
<1>7. ASSUME pc[d] = "saving"
      PROVE  lock = d
  BY <1>7, HolderOnly DEF SInv
<1>8. CASE DeletePublish(d)
  <2>1. ~lateWrite => db = snapshot'
    BY <1>8 DEF DeletePublish, SInv, StoreDiscipline, DraftStored
  <2> QED
    BY <1>7, <1>8, <2>1, StoreRelease DEF DeletePublish, EndDelete
<1>9. ASSUME lock = d, pc[d] = "saving", NEW s, EndDelete(d, s), s # "saving",
             job[d] # "ok", UNCHANGED <<db, snapshot, lateWrite, target>>,
             next' = [next EXCEPT ![d] = Empty],
             job' = [job EXCEPT ![d] = "none"]
      PROVE  StoreDiscipline'
  <2>1. \A x \in Deleters : pc[x] = "gone" => pc'[x] = "gone"
    BY <1>9 DEF EndDelete, SInv, JInv, TypeOK
  <2>2. ~lateWrite => \/ db = snapshot'
                      \/ \E x \in Deleters : /\ pc'[x] = "gone"
                                             /\ db = Without(snapshot', target[x])
    BY <1>9, <2>1 DEF SInv, StoreDiscipline, Settled
  <2> QED
    BY <1>9, <2>2, StoreRelease DEF EndDelete
<1>10. CASE DeleteSaveError(d)
  BY <1>7, <1>9, <1>10 DEF DeleteSaveError
<1>11. CASE Disconnect(d)
  <2>1. /\ UNCHANGED <<db, snapshot, lateWrite, target>>
        /\ pc' = [pc EXCEPT ![d] = "gone"]
        /\ pc[d] \in {"wait", "saving"}
    BY <1>11 DEF Disconnect, EndDelete
  <2>2. CASE lock # d
    <3>1. job[d] = "none" /\ lock' = lock
      BY <1>1, <1>7, <1>11, <2>1, <2>2 DEF Disconnect
    <3> QED
      BY <1>11, <2>1, <3>1, StoreUntouched DEF Disconnect, SInv, JInv, TypeOK
  <2>3. CASE lock = d /\ job[d] \in {"none", "pending"}
    <3>1. UNCHANGED <<next, job>>
      BY <1>11, <2>3 DEF Disconnect
    <3> QED
      BY <2>1, <2>3, <3>1, StoreUntouched DEF SInv, JInv, TypeOK
  <2>4. CASE lock = d /\ job[d] = "err"
    <3>1. pc[d] = "saving"
      BY <1>1, <2>1, <2>4
    <3> QED
      BY <1>9, <1>11, <2>1, <2>4, <3>1 DEF Disconnect
  <2>5. CASE lock = d /\ job[d] = "ok"
    <3>1. pc[d] = "saving"
      BY <1>1, <2>1, <2>5
    <3>2. ~lateWrite => db = Without(snapshot', target[d])
      BY <2>1, <2>5, <3>1
         DEF SInv, StoreDiscipline, DraftStored, DeletionDrafted
    <3>3. pc'[d] = "gone"
      BY <2>1 DEF SInv, JInv, TypeOK
    <3> QED
      BY <1>11, <2>1, <2>5, <3>2, <3>3, StoreRelease DEF Disconnect
  <2> QED
    BY <2>2, <2>3, <2>4, <2>5 DEF SInv, JInv, TypeOK, Jobs
<1> QED
  BY <1>2, <1>3, <1>5, <1>6, <1>8, <1>10, <1>11 DEF DeleteStep

LEMMA StoreSave ==
  ASSUME SInv, NEW w \in Workers, SaveWrite(w) \/ SaveFail(w)
  PROVE  StoreDiscipline'
<1>1. UNCHANGED <<pc, lock, snapshot, target>> /\ job[w] = "pending"
  BY DEF SaveWrite, SaveFail
<1>2. CASE pc[w] = "gone"
  <2>1. /\ job' = [job EXCEPT ![w] = "none"]
        /\ next' = [next EXCEPT ![w] = Empty]
    BY <1>2 DEF SaveWrite, SaveFail
  <2>2. DeletionDrafted'
    BY <1>1, <1>2, <2>1
       DEF SInv, JInv, TypeOK, StoreDiscipline, DeletionDrafted
  <2>3. CASE SaveWrite(w)
    BY <1>2, <2>2, <2>3 DEF SaveWrite, StoreDiscipline, DraftStored, Settled
  <2>4. CASE SaveFail(w)
    <3>1. DraftStored'
      BY <2>1, <2>4
         DEF SaveFail, SInv, JInv, TypeOK, StoreDiscipline, DraftStored
    <3>2. Settled'
      BY <1>1, <2>1, <2>4
         DEF SaveFail, SInv, JInv, TypeOK, StoreDiscipline, Settled
    <3> QED
      BY <2>2, <3>1, <3>2 DEF StoreDiscipline
  <2> QED
    BY <2>3, <2>4
<1>3. CASE pc[w] # "gone"
  <2>1. lock = w /\ w # Free
    BY <1>1, <1>3, JobHolder, WorkersAssumption DEF SInv
  <2>2. next' = next /\ lateWrite' = lateWrite
    BY <1>3 DEF SaveWrite, SaveFail, SInv, JInv, TypeOK
  <2>3. \A v \in Workers : job[v] # "ok"
    BY <1>1, <2>1, HolderOnly DEF SInv
  <2>4. DeletionDrafted'
    BY <1>1, <2>2 DEF SInv, StoreDiscipline, DeletionDrafted
  <2>5. CASE SaveWrite(w)
    <3>1. db' = next[w] /\ job' = [job EXCEPT ![w] = "ok"]
      BY <1>3, <2>5 DEF SaveWrite
    <3>2. DraftStored' /\ Settled'
      BY <1>1, <2>1, <2>2, <2>3, <3>1
         DEF SInv, JInv, TypeOK, DraftStored, Settled
    <3> QED
      BY <2>4, <3>2 DEF StoreDiscipline
  <2>6. CASE SaveFail(w)
    <3>1. db' = db /\ job' = [job EXCEPT ![w] = "err"]
      BY <1>3, <2>6 DEF SaveFail
    <3>2. DraftStored' /\ Settled'
      BY <1>1, <2>1, <2>2, <2>3, <3>1
         DEF SInv, JInv, TypeOK, StoreDiscipline, DraftStored, Settled
    <3> QED
      BY <2>4, <3>2 DEF StoreDiscipline
  <2> QED
    BY <2>5, <2>6
<1> QED
  BY <1>2, <1>3

\* After a restart the stored snapshot is served.
LEMMA StoreCrash == SInv /\ Crash => StoreDiscipline'
<1> SUFFICES ASSUME SInv, Crash PROVE StoreDiscipline'
  OBVIOUS
<1>1. /\ \A w \in Workers : job'[w] = "none"
      /\ \A d \in Deleters : pc'[d] # "saving"
      /\ db' = snapshot'
  BY WorkersAssumption DEF Crash
<1> QED
  BY <1>1 DEF StoreDiscipline, DraftStored, DeletionDrafted, Settled

LEMMA StoreInit == Init => StoreDiscipline
BY WorkersAssumption
   DEF Init, StoreDiscipline, DraftStored, DeletionDrafted, Settled

LEMMA StoreStep == SInv /\ [Next]_vars => SInv'
<1> SUFFICES ASSUME SInv, [Next]_vars PROVE StoreDiscipline'
  BY JobStep DEF SInv
<1>1. CASE UpstreamChange \/ FullIntervalElapses \/ UNCHANGED vars
  BY <1>1, StoreUntouched DEF UpstreamChange, FullIntervalElapses, vars
<1>2. CASE Next
  BY <1>1, <1>2, StoreRefresh, StoreDelete, StoreSave, StoreCrash DEF Next
<1> QED
  BY <1>1, <1>2

\* The inductive invariant of the database.
LEMMA StoreDisciplined == Spec => []SInv
<1>1. Init => SInv
  BY TypeInit, LockInit, JobInit, StoreInit DEF SInv, JInv
<1> QED
  BY <1>1, StoreStep, PTL DEF Spec

\* Whatever failed, was dropped or restarted before, between updates a restart
\* would serve what is served now, less at most the item of one DELETE that was
\* carried out for a client who left.
THEOREM PersistedServed == Spec => []PersistedIsServed
<1>1. SInv => PersistedIsServed
  BY DEF SInv, StoreDiscipline, Settled, PersistedIsServed
<1> QED
  BY <1>1, StoreDisciplined, PTL

-----------------------------------------------------------------------------
(* What a refresh has in hand: the stamps of the listing and of the crawl.  *)

\* A change of the metadata is a change, and no change lies in the future.
UpstreamDated ==
  \A i \in Items :
    /\ up[i] # Absent => Undated <= up[i].root
    /\ up[i].root <= up[i].desc /\ up[i].desc <= clock
    /\ i \notin Folders => up[i].root = up[i].desc

CacheDated == \A i \in Items : cache[i].root <= cache[i].desc

\* What was listed of i is as well formed, and upstream has not gone back on it.
Listed(seen, i) ==
  /\ seen # Absent => Undated <= seen.root
  /\ seen.root <= seen.desc /\ seen.desc <= clock
  /\ i \notin Folders => seen.root = seen.desc
  /\ up[i] # Absent => seen.desc <= up[i].desc

\* An item is to be crawled or has been dealt with, as the listing has it and,
\* in a full refresh, not from before the listing.
Followed(r, i) ==
  /\ i \in r.todo => r.seen[i] # Absent /\ r.got[i] = Absent
  /\ i \notin r.todo => (r.seen[i] = Absent <=> r.got[i] = Absent)
  /\ r.got[i] # Absent =>
       /\ r.got[i].root = r.seen[i].root /\ r.got[i].root <= r.got[i].desc
       /\ r.full => r.seen[i].desc <= r.got[i].desc

\* The refresh of w, while it crawls or saves.
RunFollows(w) ==
  /\ \A i \in Items : Listed(run[w].seen[i], i) /\ Followed(run[w], i)
  /\ pc[w] \notin {"crawl", "saving"} => run[w] = NoRun
  /\ pc[w] = "saving" => /\ run[w].todo = {}
                         /\ next[w].resources = Classify(run[w].got)

RunDiscipline == \A w \in Refreshers : RunFollows(w)

DInv == SInv /\ UpstreamDated /\ CacheDated /\ RunDiscipline

\* Whatever is found upstream later is what is there now or newer.
UpstreamAges ==
  /\ clock <= clock'
  /\ \A i \in Items : up'[i] # Absent =>
       \/ up[i] # Absent /\ up[i].desc <= up'[i].desc
       \/ clock < up'[i].desc

LEMMA StampsAreNumbers ==
  /\ \A s \in Stamps : s \in Nat
  /\ \A m \in Meta : m.root \in Nat /\ m.desc \in Nat
  /\ Undated \in Nat
BY DEF Stamps, Meta, Undated

\* A DELETE takes an item away, or nothing.
LEMMA UpstreamRemoved ==
  ASSUME TypeOK, UpstreamDated, NEW i \in Items, clock' = clock,
         up' \in {up, [up EXCEPT ![i] = Absent]}
  PROVE  UpstreamDated' /\ UpstreamAges
BY StampsAreNumbers DEF TypeOK, UpstreamDated, UpstreamAges, Absent

LEMMA UpstreamChanged ==
  ASSUME TypeOK, UpstreamDated, UpstreamChange
  PROVE  UpstreamDated' /\ UpstreamAges
<1> DEFINE Aged == UpstreamDated' /\ UpstreamAges
<1>1. \A i \in Items : up[i].root \in Nat /\ up[i].desc \in Nat
  BY StampsAreNumbers DEF TypeOK
<1>2. clock \in Nat
  BY StampsAreNumbers DEF TypeOK
<1>3. ASSUME NEW i \in Items, Tick,
             NEW r \in {clock'} \cup (IF i \in Folders THEN {Undated} ELSE {}),
             up' = [up EXCEPT ![i] = [root |-> r, desc |-> clock']]
      PROVE  Aged
  <2>1. clock' = clock + 1 /\ Undated <= clock'
    BY <1>2, <1>3 DEF Tick, Undated
  <2>2. r \in Nat /\ Undated <= r /\ r <= clock' /\ (i \notin Folders => r = clock')
    BY <1>2, <2>1 DEF Undated
  <2>3. up'[i] = [root |-> r, desc |-> clock']
        /\ \A j \in Items \ {i} : up'[j] = up[j]
    BY <1>3 DEF TypeOK
  <2>4. UpstreamDated'
    BY <1>1, <1>2, <2>1, <2>2, <2>3 DEF UpstreamDated, Undated
  <2>5. UpstreamAges
    BY <1>1, <1>2, <2>1, <2>3 DEF UpstreamAges
  <2> QED
    BY <2>4, <2>5
<1>4. ASSUME NEW i \in Items, Tick,
             up' = [up EXCEPT ![i] = [root |-> clock', desc |-> clock']]
      PROVE  Aged
  BY <1>3, <1>4
<1>5. ASSUME NEW i \in Folders, up[i] # Absent, Tick,
             up' = [up EXCEPT ![i].desc = clock']
      PROVE  Aged
  <2>1. clock' = clock + 1 /\ i \in Items
    BY <1>2, <1>5, ItemsAssumption DEF Tick
  <2>2. /\ up'[i].root = up[i].root /\ up'[i].desc = clock'
        /\ \A j \in Items \ {i} : up'[j] = up[j]
    BY <1>5, <2>1 DEF TypeOK, Meta
  <2>3. UpstreamDated'
    BY <1>1, <1>2, <1>5, <2>1, <2>2 DEF UpstreamDated
  <2>4. UpstreamAges
    BY <1>1, <1>2, <2>1, <2>2 DEF UpstreamAges
  <2> QED
    BY <2>3, <2>4
<1>6. ASSUME NEW i \in Items, up' = [up EXCEPT ![i] = Absent], UNCHANGED clock
      PROVE  Aged
  BY <1>6, UpstreamRemoved
<1> QED
  BY <1>3, <1>4, <1>5, <1>6 DEF UpstreamChange

LEMMA UpstreamStep ==
  ASSUME TypeOK, UpstreamDated, [Next]_vars
  PROVE  UpstreamDated' /\ UpstreamAges
<1>1. ASSUME UNCHANGED upstreamVars
      PROVE  UpstreamDated' /\ UpstreamAges
  BY <1>1, StampsAreNumbers DEF TypeOK, UpstreamDated, UpstreamAges
<1>2. ASSUME NEW w \in Refreshers,
             \/ RefreshBegin(w) \/ RefreshSkip(w) \/ RefreshStep(w)
             \/ RefreshDiscoverError(w) \/ BodyStalls(w) \/ BodyResumes(w)
      PROVE  UNCHANGED upstreamVars
  BY <1>2 DEF RefreshBegin, RefreshSkip, RefreshStep, RefreshDiscoverError,
       BodyStalls, BodyResumes, RefreshList, RefreshCrawl, RefreshCrawlMissing,
       RefreshBuild, RefreshPublish, RefreshSaveError, RefreshCommandDone
<1>3. ASSUME NEW d \in Deleters,
             \/ \E i \in Items : DeleteRequest(d, i)
             \/ DeleteStep(d) \/ DeleteUpstreamError(d) \/ Disconnect(d)
      PROVE  clock' = clock /\ up' \in {up, [up EXCEPT ![target[d]] = Absent]}
  BY <1>3 DEF DeleteRequest, DeleteStep, DeleteUpstream, DeleteRefused,
       DeletePublish, DeleteSaveError, DeleteUpstreamError, Disconnect
<1>4. ASSUME NEW d \in Deleters,
             \/ \E i \in Items : DeleteRequest(d, i)
             \/ DeleteStep(d) \/ DeleteUpstreamError(d) \/ Disconnect(d)
      PROVE  UpstreamDated' /\ UpstreamAges
  BY <1>3, <1>4, UpstreamRemoved DEF TypeOK
<1>5. CASE FullIntervalElapses \/ Crash \/ UNCHANGED vars
  BY <1>1, <1>5 DEF FullIntervalElapses, Crash, vars
<1>6. ASSUME NEW w \in Workers, SaveWrite(w) \/ SaveFail(w)
      PROVE  UNCHANGED upstreamVars
  BY <1>6 DEF SaveWrite, SaveFail
<1>7. CASE Next
  BY <1>1, <1>2, <1>4, <1>5, <1>6, <1>7, UpstreamChanged DEF Next
<1> QED
  BY <1>5, <1>7

\* A refresh that the step leaves alone.
LEMMA RunUntouched ==
  ASSUME TypeOK, TypeOK', UpstreamAges, NEW w \in Refreshers, RunFollows(w),
         run'[w] = run[w], pc'[w] = pc[w], next'[w] = next[w]
  PROVE  RunFollows(w)'
<1>1. ASSUME NEW i \in Items
      PROVE  Listed(run[w].seen[i], i)'
  <2>1. run[w].seen[i] \in Meta /\ up[i] \in Meta /\ up'[i] \in Meta
    BY DEF TypeOK, Run
  <2>2. clock \in Nat /\ clock' \in Nat
    BY StampsAreNumbers DEF TypeOK
  <2>3. Listed(run[w].seen[i], i)
    BY DEF RunFollows
  <2>4. run'[w].seen[i] = run[w].seen[i]
    OBVIOUS
  <2> QED
    BY <2>1, <2>2, <2>3, <2>4, StampsAreNumbers DEF UpstreamAges, Listed
<1>2. \A i \in Items : Followed(run[w], i)'
  BY DEF RunFollows, Followed
<1> QED
  BY <1>1, <1>2 DEF RunFollows

\* A refresh that is not crawling or saving.
LEMMA RunEnded ==
  ASSUME TypeOK', NEW w \in Refreshers, run'[w] = NoRun,
         pc'[w] \notin {"crawl", "saving"}
  PROVE  RunFollows(w)'
<1>1. \A i \in Items : /\ run'[w].seen[i] = Absent /\ run'[w].got[i] = Absent
                       /\ i \notin run'[w].todo
  BY DEF NoRun, NothingListed
<1>2. \A i \in Items : Listed(run[w].seen[i], i)'
  BY <1>1, StampsAreNumbers DEF Listed, TypeOK, Absent
<1>3. \A i \in Items : Followed(run[w], i)'
  BY <1>1 DEF Followed
<1> QED
  BY <1>2, <1>3 DEF RunFollows

\* The other refreshes, in a step of w.
LEMMA OthersUntouched ==
  ASSUME DInv, TypeOK', UpstreamAges, NEW w \in Workers,
         \A v \in Refreshers \ {w} :
           run'[v] = run[v] /\ pc'[v] = pc[v] /\ next'[v] = next[v],
         w \in Refreshers => RunFollows(w)'
  PROVE  RunDiscipline'
<1>1. \A v \in Refreshers \ {w} : RunFollows(v)'
  BY RunUntouched DEF DInv, SInv, JInv, RunDiscipline
<1> QED
  BY <1>1 DEF RunDiscipline

LEMMA RunListed ==
  ASSUME DInv, TypeOK', UpstreamDated', NEW w \in Refreshers, RefreshList(w)
  PROVE  RunFollows(w)'
<1> DEFINE listed == {i \in Items : up[i] # Absent}
           reused == {i \in listed : Reusable(i, fullDue)}
           got == [i \in Items |-> IF i \in reused THEN cache[i] ELSE Absent]
           r == [full |-> fullDue, seen |-> up, todo |-> listed \ reused,
                 got |-> got]
<1>1. run'[w] = r /\ pc'[w] = "crawl" /\ UNCHANGED upstreamVars
  BY DEF RefreshList, DInv, SInv, JInv, TypeOK
<1>2. ASSUME NEW i \in Items
      PROVE  Listed(run[w].seen[i], i)'
  <2>1. run'[w].seen[i] = up[i] /\ up'[i] = up[i] /\ clock' = clock
    BY <1>1
  <2> QED
    BY <2>1, StampsAreNumbers DEF Listed, DInv, UpstreamDated, SInv, JInv, TypeOK
<1>3. ASSUME NEW i \in Items
      PROVE  Followed(r, i)
  <2>1. CASE i \in reused
    <3>1. /\ ~fullDue /\ cache[i] # Absent /\ cache[i].root = up[i].root
          /\ r.got[i] = cache[i] /\ up[i] # Absent /\ i \notin r.todo
      BY <2>1 DEF Reusable
    <3>2. cache[i].root <= cache[i].desc
      BY DEF DInv, CacheDated
    <3> QED
      BY <3>1, <3>2 DEF Followed
  <2>2. CASE i \notin reused
    <3>1. r.got[i] = Absent /\ (i \in r.todo <=> r.seen[i] # Absent)
      BY <2>2
    <3> QED
      BY <3>1 DEF Followed
  <2> QED
    BY <2>1, <2>2
<1>4. \A i \in Items : Followed(run[w], i)'
  <2> HIDE DEF r
  <2> QED
    BY <1>1, <1>3 DEF Followed
<1> QED
  BY <1>1, <1>2, <1>4 DEF RunFollows

LEMMA RunCrawled ==
  ASSUME DInv, TypeOK', NEW w \in Refreshers, NEW i \in Items, RefreshCrawl(w, i)
  PROVE  RunFollows(w)'
<1> DEFINE s == run[w].seen[i]
           g == [root |-> s.root,
                 desc |-> IF i \in Folders THEN up[i].desc ELSE s.root]
<1>1. /\ pc[w] = "crawl" /\ i \in run[w].todo
      /\ i \in Folders => up[i] # Absent
      /\ UNCHANGED <<upstreamVars, pc>>
  BY DEF RefreshCrawl
<1>2. RunFollows(w) /\ run[w] \in Run
  BY DEF DInv, RunDiscipline, SInv, JInv, TypeOK
<1>3. /\ run'[w].seen = run[w].seen /\ run'[w].full = run[w].full
      /\ run'[w].todo = run[w].todo \ {i}
      /\ run'[w].got = [run[w].got EXCEPT ![i] = g]
  BY <1>2 DEF RefreshCrawl, DInv, SInv, JInv, TypeOK, Run
<1>4. s \in Meta /\ up[i] \in Meta /\ s # Absent
  BY <1>1, <1>2 DEF RunFollows, Followed, DInv, SInv, JInv, TypeOK, Run
<1>5. Listed(s, i)
  BY <1>2 DEF RunFollows
<1>6. Undated <= s.root /\ s.root <= s.desc
  BY <1>4, <1>5 DEF Listed
<1>7. g # Absent /\ g.root = s.root /\ g.root <= g.desc /\ s.desc <= g.desc
  BY <1>1, <1>4, <1>5, <1>6, StampsAreNumbers DEF Listed, Absent, Undated
<1>8. \A j \in Items : Listed(run[w].seen[j], j)'
  BY <1>1, <1>2, <1>3 DEF RunFollows, Listed
<1>9. ASSUME NEW j \in Items
      PROVE  Followed(run[w], j)'
  <2> HIDE DEF g
  <2>1. CASE j = i
    <3>1. run'[w].got[i] = g
      BY <1>2, <1>3 DEF Run
    <3> QED
      BY <1>3, <1>4, <1>7, <2>1, <3>1 DEF Followed
  <2>2. CASE j # i
    <3>1. Followed(run[w], j)
      BY <1>2 DEF RunFollows
    <3>2. run'[w].got[j] = run[w].got[j]
      BY <1>2, <1>3, <2>2 DEF Run
    <3> QED
      BY <1>3, <2>2, <3>1, <3>2 DEF Followed
  <2> QED
    BY <2>1, <2>2
<1> QED
  BY <1>1, <1>8, <1>9 DEF RunFollows

LEMMA RunBuilt ==
  ASSUME DInv, TypeOK', UpstreamAges, NEW w \in Refreshers, RefreshBuild(w)
  PROVE  RunFollows(w)'
<1>1. /\ run'[w] = run[w] /\ run[w].todo = {} /\ pc'[w] = "saving"
      /\ next'[w].resources = Classify(run[w].got) /\ UNCHANGED upstreamVars
  BY DEF RefreshBuild, DInv, SInv, JInv, TypeOK
<1>2. RunFollows(w)
  BY DEF DInv, RunDiscipline
<1>3. \A i \in Items : Listed(run[w].seen[i], i)' /\ Followed(run[w], i)'
  BY <1>1, <1>2 DEF RunFollows, Listed, Followed
<1>4. Classify(run[w].got)' = Classify(run'[w].got)
  BY DEF Classify
<1> QED
  BY <1>1, <1>3, <1>4 DEF RunFollows

\* A refresh that ends, whatever became of it.
LEMMA RunReturns ==
  ASSUME DInv, TypeOK', NEW w \in Refreshers, EndRefresh(w)
  PROVE  RunFollows(w)'
BY RunEnded DEF EndRefresh, Returned, DInv, SInv, JInv, TypeOK

LEMMA RunRefresh ==
  ASSUME DInv, TypeOK', UpstreamDated', UpstreamAges, NEW w \in Refreshers,
         \/ RefreshBegin(w) \/ RefreshSkip(w) \/ RefreshStep(w)
         \/ RefreshDiscoverError(w) \/ BodyStalls(w) \/ BodyResumes(w)
  PROVE  RunDiscipline' /\ CacheDated'
<1> USE WorkersAssumption
<1>1. RunFollows(w) /\ TypeOK
  BY DEF DInv, RunDiscipline, SInv, JInv
<1>2. ASSUME RunFollows(w)', UNCHANGED cache,
             \A v \in Refreshers \ {w} :
               run'[v] = run[v] /\ pc'[v] = pc[v] /\ next'[v] = next[v]
      PROVE  RunDiscipline' /\ CacheDated'
  BY <1>2, OthersUntouched DEF DInv, CacheDated
<1>3. CASE RefreshBegin(w)
  <2>1. run'[w] = NoRun /\ pc'[w] = "list"
    BY <1>1, <1>3 DEF RefreshBegin, RunFollows, TypeOK
  <2> QED
    BY <1>1, <1>2, <1>3, <2>1, RunEnded DEF RefreshBegin, TypeOK
<1>4. CASE RefreshSkip(w)
  <2>1. run'[w] = NoRun /\ pc'[w] \in {"idle", "dropped"}
    BY <1>1, <1>4 DEF RefreshSkip, RunFollows, TypeOK
  <2> QED
    BY <1>1, <1>2, <1>4, <2>1, RunEnded DEF RefreshSkip, TypeOK
<1>5. CASE RefreshList(w)
  BY <1>1, <1>2, <1>5, RunListed DEF RefreshList, TypeOK
<1>6. ASSUME NEW i \in Items, RefreshCrawl(w, i)
      PROVE  RunDiscipline' /\ CacheDated'
  BY <1>1, <1>2, <1>6, RunCrawled DEF RefreshCrawl, TypeOK
<1>7. ASSUME EndRefresh(w), UNCHANGED <<next, cache>>
      PROVE  RunDiscipline' /\ CacheDated'
  BY <1>1, <1>2, <1>7, RunReturns DEF EndRefresh, TypeOK
<1>8. ASSUME NEW i \in Items, RefreshCrawlMissing(w, i)
      PROVE  RunDiscipline' /\ CacheDated'
  BY <1>7, <1>8 DEF RefreshCrawlMissing
<1>9. CASE RefreshBuild(w)
  BY <1>1, <1>2, <1>9, RunBuilt DEF RefreshBuild, TypeOK
<1>10. CASE RefreshPublish(w)
  <2>1. CacheDated'
    <3>1. ASSUME NEW i \in Items
          PROVE  cache'[i].root <= cache'[i].desc
      <4>1. cache'[i] = run[w].got[i] /\ Followed(run[w], i)
        BY <1>1, <1>10 DEF RefreshPublish, RunFollows
      <4>2. CASE run[w].got[i] = Absent
        BY <4>1, <4>2 DEF Absent
      <4>3. CASE run[w].got[i] # Absent
        BY <4>1, <4>3 DEF Followed
      <4> QED
        BY <4>2, <4>3
    <3> QED
      BY <3>1 DEF CacheDated
  <2>2. /\ run' = [run EXCEPT ![w] = NoRun]
        /\ next' = [next EXCEPT ![w] = Empty]
        /\ \/ pc' = [pc EXCEPT ![w] = "command"]
           \/ pc' = [pc EXCEPT ![w] = Returned(w)]
    BY <1>10 DEF RefreshPublish, EndRefresh
  <2>3. RunFollows(w)'
    BY <1>1, <2>2, RunEnded DEF Returned, TypeOK
  <2>4. RunDiscipline'
    BY <1>1, <2>2, <2>3, OthersUntouched DEF TypeOK
  <2> QED
    BY <2>1, <2>4
<1>11. CASE RefreshSaveError(w)
  BY <1>1, <1>2, <1>11, RunReturns DEF RefreshSaveError, EndRefresh, TypeOK
<1>12. CASE RefreshCommandDone(w)
  BY <1>7, <1>12 DEF RefreshCommandDone
<1>13. CASE RefreshDiscoverError(w)
  BY <1>7, <1>13 DEF RefreshDiscoverError
<1>14. CASE BodyStalls(w)
  BY <1>1, <1>2, <1>14, RunUntouched DEF BodyStalls
<1>15. CASE BodyResumes(w)
  BY <1>1, <1>2, <1>15, RunUntouched DEF BodyResumes
<1> QED
  BY <1>3, <1>4, <1>5, <1>6, <1>8, <1>9, <1>10, <1>11, <1>12, <1>13, <1>14, <1>15
     DEF RefreshStep

LEMMA RunDelete ==
  ASSUME DInv, TypeOK', UpstreamAges, NEW d \in Deleters,
         \/ \E i \in Items : DeleteRequest(d, i)
         \/ DeleteStep(d) \/ DeleteUpstreamError(d) \/ Disconnect(d)
  PROVE  RunDiscipline' /\ CacheDated'
<1> USE WorkersAssumption
<1>1. /\ run' = run
      /\ \A w \in Refreshers : pc'[w] = pc[w] /\ next'[w] = next[w]
  BY DEF DeleteRequest, DeleteStep, DeleteUpstream, DeleteRefused,
         DeletePublish, DeleteSaveError, DeleteUpstreamError, Disconnect,
         EndDelete, DInv, SInv, JInv, TypeOK
<1>2. cache' = cache \/ cache' = [cache EXCEPT ![target[d]] = Absent]
  BY DEF DeleteRequest, DeleteStep, DeleteUpstream, DeleteRefused,
         DeletePublish, DeleteSaveError, DeleteUpstreamError, Disconnect
<1>3. CacheDated'
  BY <1>2 DEF DInv, CacheDated, SInv, JInv, TypeOK, Absent
<1> QED
  BY <1>1, <1>3, OthersUntouched

LEMMA DatesInit == Init => UpstreamDated /\ CacheDated /\ RunDiscipline
<1> SUFFICES ASSUME Init PROVE UpstreamDated /\ CacheDated /\ RunDiscipline
  OBVIOUS
<1>1. UpstreamDated
  BY DEF Init, UpstreamDated, Absent, Undated
<1>2. CacheDated
  <2>1. \A i \in Items : cache[i] = Absent
    BY DEF Init, NothingListed
  <2>2. Absent.root = 0 /\ Absent.desc = 0
    BY DEF Absent
  <2>3. \A i \in Items : cache[i].root = 0 /\ cache[i].desc = 0
    BY <2>1, <2>2
  <2>4. 0 <= 0
    OBVIOUS
  <2> QED
    BY <2>3, <2>4, Zenon DEF CacheDated
<1>3. ASSUME NEW w \in Refreshers
      PROVE  RunFollows(w)
  <2>1. /\ run[w] = NoRun /\ pc[w] = "idle"
        /\ \A i \in Items : /\ run[w].seen[i] = Absent /\ run[w].got[i] = Absent
                            /\ i \notin run[w].todo
    BY DEF Init, NoRun, NothingListed
  <2>2. \A i \in Items : up[i] # Absent => up[i].desc = Undated
    BY DEF Init
  <2>3. clock = Undated /\ Absent.root = 0 /\ Absent.desc = 0
    BY DEF Init, Absent
  <2>4. ASSUME NEW i \in Items
        PROVE  Listed(run[w].seen[i], i)
    <3>1. run[w].seen[i] = Absent
      BY <2>1
    <3>2. Listed(Absent, i)
      BY <2>2, <2>3 DEF Listed, Undated
    <3> QED
      BY <3>1, <3>2
  <2> QED
    BY <2>1, <2>4 DEF RunFollows, Followed
<1> QED
  BY <1>1, <1>2, <1>3 DEF RunDiscipline

LEMMA DatesStep == DInv /\ [Next]_vars => DInv'
<1> SUFFICES ASSUME DInv, [Next]_vars PROVE DInv'
  OBVIOUS
<1>1. SInv' /\ TypeOK' /\ TypeOK
  BY StoreStep DEF DInv, SInv, JInv
<1>2. UpstreamDated' /\ UpstreamAges
  BY <1>1, UpstreamStep DEF DInv
<1> SUFFICES RunDiscipline' /\ CacheDated'
  BY <1>1, <1>2 DEF DInv
<1>3. ASSUME UNCHANGED <<run, pc, cache>>,
             \A w \in Refreshers : next'[w] = next[w]
      PROVE  RunDiscipline' /\ CacheDated'
  BY <1>1, <1>2, <1>3, RunUntouched DEF DInv, RunDiscipline, CacheDated
<1>4. CASE UpstreamChange \/ FullIntervalElapses \/ UNCHANGED vars
  <2>1. UNCHANGED <<run, pc, cache, next>>
    BY <1>4 DEF UpstreamChange, FullIntervalElapses, vars
  <2> QED
    BY <1>3, <2>1
<1>5. ASSUME NEW w \in Workers, SaveWrite(w) \/ SaveFail(w)
      PROVE  RunDiscipline' /\ CacheDated'
  <2>1. \A v \in Refreshers : next'[v] = next[v]
    BY <1>1, <1>5
       DEF SaveWrite, SaveFail, DInv, SInv, JInv, JobDiscipline,
           RefresherStates, TypeOK
  <2> QED
    BY <1>3, <1>5, <2>1 DEF SaveWrite, SaveFail
<1>6. CASE Crash
  <2>1. \A w \in Refreshers : run'[w] = NoRun /\ pc'[w] \notin {"crawl", "saving"}
    BY <1>6, WorkersAssumption DEF Crash, Returned
  <2>2. RunDiscipline'
    BY <1>1, <2>1, RunEnded DEF RunDiscipline
  <2>3. \A i \in Items : cache'[i] = Absent
    BY <1>6 DEF Crash, NothingListed
  <2>4. CacheDated'
    BY <2>3, StampsAreNumbers DEF CacheDated, Absent
  <2> QED
    BY <2>2, <2>4
<1>7. CASE Next
  BY <1>1, <1>2, <1>4, <1>5, <1>6, <1>7, RunRefresh, RunDelete DEF Next
<1> QED
  BY <1>4, <1>7

\* The inductive invariant of the stamps.
LEMMA DatesDisciplined == Spec => []DInv
<1>1. Init => DInv
  BY TypeInit, LockInit, JobInit, StoreInit, DatesInit DEF DInv, SInv, JInv
<1> QED
  BY <1>1, DatesStep, PTL DEF Spec

\* What a resource in the snapshot of a saving refresh shows.
LEMMA ClassifiedFollows ==
  ASSUME DInv, NEW w \in Refreshers, pc[w] = "saving", NEW r \in next[w].resources
  PROVE  /\ r.root \in Items /\ r.meta = run[w].got[r.root] /\ r.meta # Absent
         /\ Followed(run[w], r.root) /\ r.root \notin run[w].todo
<1>1. RunFollows(w)
  BY DEF DInv, RunDiscipline
<1>2. r \in Classify(run[w].got) /\ run[w].todo = {}
  BY <1>1 DEF RunFollows
<1>3. r.root \in Items /\ r.meta = run[w].got[r.root] /\ r.meta # Absent
  BY <1>2 DEF Classify, Resource
<1> QED
  BY <1>1, <1>2, <1>3 DEF RunFollows

\* However upstream changes while it crawls, what a refresh saves is the
\* listing it started from, with descendants at least as new.
THEOREM SnapshotReflectsListing == Spec => []NewSnapshotReflectsListing
<1>1. DInv => NewSnapshotReflectsListing
  <2> SUFFICES ASSUME DInv, NEW w \in Refreshers, pc[w] = "saving"
               PROVE  /\ \A r \in next[w].resources :
                           /\ run[w].seen[r.root] # Absent
                           /\ r.meta.root = run[w].seen[r.root].root
                           /\ r.meta.desc >= r.meta.root
                           /\ run[w].full => r.meta.desc >= run[w].seen[r.root].desc
                      /\ \A i \in Items : run[w].seen[i] # Absent =>
                           \E v \in Stamps :
                             {r.cat : r \in {x \in next[w].resources : x.root = i}}
                               = ShownIn[<<i, v>>]
    BY DEF NewSnapshotReflectsListing
  <2>1. run[w] \in Run /\ RunFollows(w)
    BY DEF DInv, RunDiscipline, SInv, JInv, TypeOK
  <2>2. ASSUME NEW r \in next[w].resources
        PROVE  /\ run[w].seen[r.root] # Absent
               /\ r.meta.root = run[w].seen[r.root].root
               /\ r.meta.desc >= r.meta.root
               /\ run[w].full => r.meta.desc >= run[w].seen[r.root].desc
    <3>1. /\ r.root \in Items /\ r.meta = run[w].got[r.root] /\ r.meta # Absent
          /\ Followed(run[w], r.root) /\ r.root \notin run[w].todo
      BY ClassifiedFollows
    <3>2. run[w].got[r.root] \in Meta /\ run[w].seen[r.root] \in Meta
      BY <2>1, <3>1 DEF Run
    <3> QED
      BY <3>1, <3>2, StampsAreNumbers DEF Followed
  <2>3. ASSUME NEW i \in Items, run[w].seen[i] # Absent
        PROVE  \E v \in Stamps :
                 {r.cat : r \in {x \in next[w].resources : x.root = i}}
                   = ShownIn[<<i, v>>]
    <3> DEFINE g == run[w].got[i]
    <3>1. g \in Meta /\ g.desc \in Stamps
      BY <2>1 DEF Run, Meta
    <3>2. g # Absent /\ next[w].resources = Classify(run[w].got)
      BY <2>1, <2>3 DEF RunFollows, Followed
    <3>3. ShownIn[<<i, g.desc>>] \subseteq Categories
      BY <3>1, ClassifierAssumption
    <3> HIDE DEF g
    <3>4. {x \in next[w].resources : x.root = i}
            = {[cat |-> c, root |-> i, meta |-> g] : c \in ShownIn[<<i, g.desc>>]}
      BY <3>1, <3>2, <3>3 DEF Classify, Resource, g
    <3>5. {r.cat : r \in {[cat |-> c, root |-> i, meta |-> g] :
                            c \in ShownIn[<<i, g.desc>>]}}
            = ShownIn[<<i, g.desc>>]
      <4> DEFINE S == ShownIn[<<i, g.desc>>]
                 alias(c) == [cat |-> c, root |-> i, meta |-> g]
      <4>1. \A c \in S : alias(c).cat = c
        OBVIOUS
      <4> HIDE DEF S, alias
      <4>2. ASSUME NEW c \in S
            PROVE  c \in {r.cat : r \in {alias(x) : x \in S}}
        BY <4>1
      <4>3. ASSUME NEW r \in {alias(x) : x \in S}
            PROVE  r.cat \in S
        BY <4>1
      <4>4. {r.cat : r \in {alias(x) : x \in S}} = S
        BY <4>2, <4>3
      <4> QED
        BY <4>4 DEF S, alias
    <3> QED
      BY <3>1, <3>4, <3>5
  <2> QED
    BY <2>2, <2>3
<1> QED
  BY <1>1, DatesDisciplined, PTL

\* A refresh that failed, or reused what it had, never restarts the interval of
\* full refreshes.
THEOREM FullValidates == Spec => FullMeansValidated
<1> DEFINE Validated ==
      fullDue /\ ~fullDue' =>
        \E w \in Refreshers :
          /\ pc[w] = "saving" /\ snapshot' = next[w]
          /\ \A r \in snapshot'.resources :
               r.meta.desc >= run[w].seen[r.root].desc
<1>1. DInv /\ [Next]_vars => [Validated]_vars
  <2> SUFFICES ASSUME DInv, Next, fullDue, ~fullDue' PROVE Validated
    OBVIOUS
  <2>1. PICK w \in Refreshers : RefreshPublish(w) /\ run[w].full
    <3>1. ASSUME NEW w \in Refreshers,
                 \/ RefreshBegin(w) \/ RefreshSkip(w) \/ RefreshStep(w)
                 \/ RefreshDiscoverError(w) \/ BodyStalls(w) \/ BodyResumes(w)
          PROVE  RefreshPublish(w) /\ run[w].full
      BY <3>1 DEF RefreshBegin, RefreshSkip, RefreshStep, RefreshDiscoverError,
           BodyStalls, BodyResumes, RefreshList, RefreshCrawl,
           RefreshCrawlMissing, RefreshBuild, RefreshPublish,
           RefreshSaveError, RefreshCommandDone
    <3>2. ASSUME NEW d \in Deleters,
                 \/ \E i \in Items : DeleteRequest(d, i)
                 \/ DeleteStep(d) \/ DeleteUpstreamError(d) \/ Disconnect(d)
          PROVE  FALSE
      BY <3>2 DEF DeleteRequest, DeleteStep, DeleteUpstream, DeleteRefused,
           DeletePublish, DeleteSaveError, DeleteUpstreamError, Disconnect
    <3>3. ASSUME NEW w \in Workers, SaveWrite(w) \/ SaveFail(w)
          PROVE  FALSE
      BY <3>3 DEF SaveWrite, SaveFail
    <3>4. ~UpstreamChange /\ ~FullIntervalElapses /\ ~Crash
      BY DEF UpstreamChange, FullIntervalElapses, Crash
    <3> QED
      BY <3>1, <3>2, <3>3, <3>4 DEF Next
  <2>2. pc[w] = "saving" /\ snapshot' = next[w]
    BY <2>1 DEF RefreshPublish
  <2>3. ASSUME NEW r \in next[w].resources
        PROVE  r.meta.desc >= run[w].seen[r.root].desc
    <3>1. /\ r.root \in Items /\ r.meta = run[w].got[r.root] /\ r.meta # Absent
          /\ Followed(run[w], r.root) /\ r.root \notin run[w].todo
      BY <2>2, ClassifiedFollows
    <3>2. run[w].got[r.root] \in Meta /\ run[w].seen[r.root] \in Meta
      BY <3>1 DEF DInv, SInv, JInv, TypeOK, Run
    <3> QED
      BY <2>1, <3>1, <3>2, StampsAreNumbers DEF Followed
  <2> QED
    BY <2>2, <2>3
<1> QED
  BY <1>1, DatesDisciplined, PTL DEF Spec, FullMeansValidated

-----------------------------------------------------------------------------
(* What was deleted stays away.  Upstream is taken at its word here: a 2xx  *)
(* answer to a DELETE says that the whole item is gone.                     *)

\* There is nothing, or something newer than c.
Newer(m, c) == m = Absent \/ m.desc > c

\* From the moment upstream accepted the DELETE, what is there is newer.
Cut(d) ==
  /\ cut[d] <= clock
  /\ pc[d] \in {"saving", "deleted"} => Newer(up[target[d]], cut[d])

\* And once it is answered, so is all that is kept of upstream anywhere.
Forgotten(d) ==
  pc[d] = "deleted" =>
    /\ Newer(cache[target[d]], cut[d])
    /\ \A w \in Refreshers : /\ Newer(run[w].seen[target[d]], cut[d])
                             /\ Newer(run[w].got[target[d]], cut[d])
    /\ ~lateWrite => \A r \in snapshot.resources :
                       r.root = target[d] => r.meta.desc > cut[d]

FInv == DInv /\ \A d \in Deleters : Cut(d) /\ Forgotten(d)

\* A DELETE that the step does not take to its next stage.
DeletionKept(d) ==
  /\ cut'[d] = cut[d]
  /\ pc'[d] \in {"saving", "deleted"} => pc'[d] = pc[d] /\ target'[d] = target[d]

LEMMA DeletionFrame ==
  ASSUME TypeOK, [Next]_vars, NEW d \in Deleters,
         ~DeleteUpstream(d), ~DeletePublish(d)
  PROVE  DeletionKept(d)
<1> USE WorkersAssumption
<1>1. ASSUME NEW w \in Refreshers,
             \/ RefreshBegin(w) \/ RefreshSkip(w) \/ RefreshStep(w)
             \/ RefreshDiscoverError(w) \/ BodyStalls(w) \/ BodyResumes(w)
      PROVE  DeletionKept(d)
  <2>1. UNCHANGED deleteVars /\ pc'[d] = pc[d]
    BY <1>1 DEF RefreshBegin, RefreshSkip, RefreshStep, RefreshDiscoverError,
         BodyStalls, BodyResumes, RefreshList, RefreshCrawl,
         RefreshCrawlMissing, RefreshBuild, RefreshPublish, RefreshSaveError,
         RefreshCommandDone, EndRefresh, TypeOK
  <2> QED
    BY <2>1 DEF DeletionKept
<1>2. ASSUME NEW x \in Deleters,
             \/ \E i \in Items : DeleteRequest(x, i)
             \/ DeleteStep(x) \/ DeleteUpstreamError(x) \/ Disconnect(x)
      PROVE  DeletionKept(d)
  <2>1. ASSUME NEW i \in Items, DeleteRequest(x, i)
        PROVE  DeletionKept(d)
    BY <2>1 DEF DeleteRequest, DeletionKept, TypeOK
  <2>2. ASSUME NEW s \in {"failed", "gone"}, pc' = [pc EXCEPT ![x] = s],
               UNCHANGED deleteVars
        PROVE  DeletionKept(d)
    BY <2>2 DEF DeletionKept, TypeOK
  <2>3. CASE DeleteRefused(x) \/ DeleteUpstreamError(x) \/ DeleteSaveError(x)
             \/ Disconnect(x)
    BY <2>2, <2>3 DEF DeleteRefused, DeleteUpstreamError, DeleteSaveError,
         Disconnect, EndDelete
  <2>4. CASE (DeleteUpstream(x) \/ DeletePublish(x)) /\ x # d
    BY <2>4 DEF DeleteUpstream, DeletePublish, EndDelete, DeletionKept, TypeOK
  <2> QED
    BY <1>2, <2>1, <2>3, <2>4 DEF DeleteStep
<1>3. ASSUME NEW w \in Workers, SaveWrite(w) \/ SaveFail(w)
      PROVE  DeletionKept(d)
  BY <1>3 DEF SaveWrite, SaveFail, DeletionKept
<1>4. CASE UpstreamChange \/ FullIntervalElapses \/ UNCHANGED vars
  <2>1. UNCHANGED <<deleteVars, pc>>
    BY <1>4 DEF UpstreamChange, FullIntervalElapses, vars
  <2> QED
    BY <2>1 DEF DeletionKept
<1>5. CASE Crash
  BY <1>5 DEF Crash, DeletionKept
<1> QED
  BY <1>1, <1>2, <1>3, <1>4, <1>5 DEF Next

LEMMA CutStep ==
  ASSUME FInv, [Next]_vars, ~PartialDeletes, NEW d \in Deleters
  PROVE  Cut(d)'
<1>1. TypeOK /\ UpstreamAges /\ Cut(d)
  BY UpstreamStep DEF FInv, DInv, SInv, JInv
<1>2. TypeOK'
  BY <1>1, TypeStep
<1>3. clock \in Nat /\ clock' \in Nat /\ cut[d] \in Nat /\ cut'[d] \in Nat
  BY <1>1, <1>2, StampsAreNumbers DEF TypeOK
<1>4. CASE DeleteUpstream(d)
  <2>1. /\ cut'[d] = clock /\ clock' = clock /\ target'[d] = target[d]
        /\ up'[target[d]] = Absent
    BY <1>1, <1>4 DEF DeleteUpstream, TypeOK
  <2> QED
    BY <1>3, <2>1 DEF Cut, Newer
<1>5. CASE DeletePublish(d)
  <2>1. UNCHANGED <<up, clock, cut, target>> /\ pc[d] = "saving"
    BY <1>5 DEF DeletePublish
  <2> QED
    BY <1>1, <2>1 DEF Cut
<1>6. CASE ~DeleteUpstream(d) /\ ~DeletePublish(d)
  <2>1. DeletionKept(d)
    BY <1>1, <1>6, DeletionFrame
  <2>2. cut'[d] <= clock'
    BY <1>1, <1>3, <2>1 DEF DeletionKept, Cut, UpstreamAges
  <2>3. ASSUME pc'[d] \in {"saving", "deleted"}
        PROVE  Newer(up'[target'[d]], cut'[d])
    <3> DEFINE t == target[d]
    <3>1. target'[d] = t /\ cut'[d] = cut[d] /\ Newer(up[t], cut[d])
      BY <1>1, <2>1, <2>3 DEF DeletionKept, Cut
    <3>2. t \in Items /\ up[t] \in Meta /\ up'[t] \in Meta
      BY <1>1, <1>2 DEF TypeOK
    <3> HIDE DEF t
    <3> QED
      BY <1>1, <1>3, <3>1, <3>2, StampsAreNumbers DEF Newer, UpstreamAges, Cut
  <2> QED
    BY <2>2, <2>3 DEF Cut
<1> QED
  BY <1>4, <1>5, <1>6

\* Where the cache gets its items from.
LEMMA CacheSources ==
  ASSUME TypeOK, [Next]_vars, NEW i \in Items
  PROVE  \/ cache'[i] = cache[i] \/ cache'[i] = Absent
         \/ \E w \in Refreshers : cache'[i] = run[w].got[i]
<1>1. ASSUME NEW w \in Refreshers,
             \/ RefreshBegin(w) \/ RefreshSkip(w) \/ RefreshStep(w)
             \/ RefreshDiscoverError(w) \/ BodyStalls(w) \/ BodyResumes(w)
      PROVE  cache' = cache \/ cache' = run[w].got
  BY <1>1 DEF RefreshBegin, RefreshSkip, RefreshStep, RefreshDiscoverError,
       BodyStalls, BodyResumes, RefreshList, RefreshCrawl, RefreshCrawlMissing,
       RefreshBuild, RefreshPublish, RefreshSaveError, RefreshCommandDone
<1>2. ASSUME NEW d \in Deleters,
             \/ \E x \in Items : DeleteRequest(d, x)
             \/ DeleteStep(d) \/ DeleteUpstreamError(d) \/ Disconnect(d)
      PROVE  cache' = cache \/ cache' = [cache EXCEPT ![target[d]] = Absent]
  BY <1>2 DEF DeleteRequest, DeleteStep, DeleteUpstream, DeleteRefused,
       DeletePublish, DeleteSaveError, DeleteUpstreamError, Disconnect
<1>3. CASE UpstreamChange \/ FullIntervalElapses \/ UNCHANGED vars
  BY <1>3 DEF UpstreamChange, FullIntervalElapses, vars
<1>4. ASSUME NEW w \in Workers, SaveWrite(w) \/ SaveFail(w)
      PROVE  cache' = cache
  BY <1>4 DEF SaveWrite, SaveFail
<1>5. CASE Crash
  BY <1>5 DEF Crash, NothingListed
<1>6. CASE \E d \in Deleters : \/ \E x \in Items : DeleteRequest(d, x)
                               \/ DeleteStep(d) \/ DeleteUpstreamError(d)
                               \/ Disconnect(d)
  BY <1>2, <1>6 DEF TypeOK
<1> QED
  BY <1>1, <1>3, <1>4, <1>5, <1>6 DEF Next

\* Where a refresh gets its listing and its items from: nothing older than what
\* is upstream, in the cache, or in its hands.
LEMMA RunSources ==
  ASSUME DInv, [Next]_vars, NEW w \in Refreshers, NEW i \in Items,
         NEW c \in Stamps, Newer(up[i], c), Newer(cache[i], c),
         Newer(run[w].seen[i], c), Newer(run[w].got[i], c)
  PROVE  Newer(run'[w].seen[i], c) /\ Newer(run'[w].got[i], c)
<1> USE WorkersAssumption
<1>1. TypeOK /\ RunFollows(w) /\ run[w] \in Run
  BY DEF DInv, RunDiscipline, SInv, JInv, TypeOK
<1>2. CASE run'[w] = run[w]
  BY <1>2
<1>3. CASE run'[w] = NoRun
  BY <1>3 DEF NoRun, NothingListed, Newer
<1>4. CASE RefreshList(w)
  <2> DEFINE listed == {j \in Items : up[j] # Absent}
             reused == {j \in listed : Reusable(j, fullDue)}
             got == [j \in Items |-> IF j \in reused THEN cache[j] ELSE Absent]
  <2>1. run'[w].seen = up /\ run'[w].got = got
    BY <1>1, <1>4 DEF RefreshList, TypeOK
  <2>2. got[i] = cache[i] \/ got[i] = Absent
    OBVIOUS
  <2> HIDE DEF got
  <2> QED
    BY <2>1, <2>2 DEF Newer
<1>5. ASSUME NEW j \in Items, RefreshCrawl(w, j)
      PROVE  Newer(run'[w].seen[i], c) /\ Newer(run'[w].got[i], c)
  <2> DEFINE s == run[w].seen[j]
             g == [root |-> s.root,
                   desc |-> IF j \in Folders THEN up[j].desc ELSE s.root]
  <2>1. /\ run'[w].seen = run[w].seen
        /\ run'[w].got = [run[w].got EXCEPT ![j] = g]
    BY <1>1, <1>5 DEF RefreshCrawl, TypeOK, Run
  <2>2. CASE j # i
    BY <1>1, <2>1, <2>2 DEF Run
  <2>3. CASE j = i
    <3>1. run'[w].got[i] = g
      BY <1>1, <2>1, <2>3 DEF Run
    <3>2. s # Absent /\ (i \notin Folders => s.root = s.desc)
          /\ (i \in Folders => up[i] # Absent)
      BY <1>1, <1>5, <2>3 DEF RefreshCrawl, RunFollows, Followed, Listed
    <3>3. g.desc = IF i \in Folders THEN up[i].desc ELSE s.desc
      BY <2>3, <3>2
    <3>4. g.desc > c
      BY <2>3, <3>2, <3>3 DEF Newer
    <3> QED
      BY <2>1, <3>1, <3>4 DEF Newer
  <2> QED
    BY <2>2, <2>3
<1>6. ASSUME NEW v \in Refreshers,
             \/ RefreshBegin(v) \/ RefreshSkip(v) \/ RefreshStep(v)
             \/ RefreshDiscoverError(v) \/ BodyStalls(v) \/ BodyResumes(v),
             ~RefreshList(w), ~ \E j \in Items : RefreshCrawl(w, j)
      PROVE  run'[w] = run[w] \/ run'[w] = NoRun
  BY <1>1, <1>6 DEF RefreshBegin, RefreshSkip, RefreshStep,
       RefreshDiscoverError, BodyStalls, BodyResumes, RefreshList,
       RefreshCrawl, RefreshCrawlMissing, RefreshBuild, RefreshPublish,
       RefreshSaveError, RefreshCommandDone, EndRefresh, TypeOK
<1>7. ASSUME NEW d \in Deleters,
             \/ \E x \in Items : DeleteRequest(d, x)
             \/ DeleteStep(d) \/ DeleteUpstreamError(d) \/ Disconnect(d)
      PROVE  run' = run
  BY <1>7 DEF DeleteRequest, DeleteStep, DeleteUpstream, DeleteRefused,
       DeletePublish, DeleteSaveError, DeleteUpstreamError, Disconnect
<1>8. ASSUME NEW v \in Workers, SaveWrite(v) \/ SaveFail(v)
      PROVE  run' = run
  BY <1>8 DEF SaveWrite, SaveFail
<1>9. ASSUME UpstreamChange \/ FullIntervalElapses \/ UNCHANGED vars
      PROVE  run' = run
  BY <1>9 DEF UpstreamChange, FullIntervalElapses, vars
<1>10. ASSUME Crash
       PROVE  run'[w] = NoRun
  BY <1>10 DEF Crash
<1> QED
  BY <1>2, <1>3, <1>4, <1>5, <1>6, <1>7, <1>8, <1>9, <1>10 DEF Next

\* Where the served snapshot gets its resources from.
LEMMA SnapshotSources ==
  ASSUME DInv, [Next]_vars, ~lateWrite, NEW r \in snapshot'.resources
  PROVE  \/ r \in snapshot.resources
         \/ \E w \in Refreshers : /\ r.meta = run[w].got[r.root]
                                  /\ r.meta # Absent
<1> USE WorkersAssumption
<1> DEFINE Sourced(x) == \/ x \in snapshot.resources
                         \/ \E w \in Refreshers : /\ x.meta = run[w].got[x.root]
                                                  /\ x.meta # Absent
<1>1. ASSUME NEW w \in Refreshers, pc[w] = "saving", NEW x \in next[w].resources
      PROVE  Sourced(x)
  BY <1>1, ClassifiedFollows
<1>2. ASSUME NEW i, NEW x \in Without(snapshot, i).resources
      PROVE  Sourced(x)
  BY <1>2 DEF Without
<1>3. ASSUME NEW d \in Deleters, pc[d] = "saving", NEW x \in next[d].resources
      PROVE  Sourced(x)
  <2>1. next[d] = Without(snapshot, target[d])
    BY <1>3 DEF DInv, SInv, StoreDiscipline, DeletionDrafted
  <2> QED
    BY <1>2, <1>3, <2>1
<1>4. ASSUME NEW w \in Refreshers,
             \/ RefreshBegin(w) \/ RefreshSkip(w) \/ RefreshStep(w)
             \/ RefreshDiscoverError(w) \/ BodyStalls(w) \/ BodyResumes(w)
      PROVE  snapshot' = snapshot \/ (pc[w] = "saving" /\ snapshot' = next[w])
  BY <1>4 DEF RefreshBegin, RefreshSkip, RefreshStep, RefreshDiscoverError,
       BodyStalls, BodyResumes, RefreshList, RefreshCrawl, RefreshCrawlMissing,
       RefreshBuild, RefreshPublish, RefreshSaveError, RefreshCommandDone
<1>5. ASSUME NEW d \in Deleters,
             \/ \E x \in Items : DeleteRequest(d, x)
             \/ DeleteStep(d) \/ DeleteUpstreamError(d) \/ Disconnect(d)
      PROVE  snapshot' = snapshot \/ (pc[d] = "saving" /\ snapshot' = next[d])
  BY <1>5 DEF DeleteRequest, DeleteStep, DeleteUpstream, DeleteRefused,
       DeletePublish, DeleteSaveError, DeleteUpstreamError, Disconnect
<1>6. ASSUME NEW w \in Workers, SaveWrite(w) \/ SaveFail(w)
      PROVE  snapshot' = snapshot
  BY <1>6 DEF SaveWrite, SaveFail
<1>7. ASSUME UpstreamChange \/ FullIntervalElapses \/ UNCHANGED vars
      PROVE  snapshot' = snapshot
  BY <1>7 DEF UpstreamChange, FullIntervalElapses, vars
<1>8. ASSUME Crash
      PROVE  Sourced(r)
  <2>1. snapshot' = db
    BY <1>8 DEF Crash
  <2>2. CASE lock # Free /\ job[lock] = "ok"
    <3>1. lock \in Workers /\ pc[lock] = "saving" /\ db = next[lock]
      BY <2>2 DEF DInv, SInv, JInv, TypeOK, LockDiscipline, JobDiscipline,
                  StoreDiscipline, DraftStored
    <3> QED
      BY <1>1, <1>3, <2>1, <3>1
  <2>3. CASE ~(lock # Free /\ job[lock] = "ok")
    <3>1. db = snapshot \/ \E d \in Deleters : db = Without(snapshot, target[d])
      BY <2>3 DEF DInv, SInv, StoreDiscipline, Settled
    <3> QED
      BY <1>2, <2>1, <3>1
  <2> QED
    BY <2>2, <2>3
<1> HIDE DEF Sourced
<1>9. Sourced(r)
  <2>1. CASE snapshot' = snapshot
    BY <2>1 DEF Sourced
  <2>2. CASE Crash
    BY <1>8, <2>2
  <2>3. \/ snapshot' = snapshot \/ Crash
        \/ \E w \in Workers : pc[w] = "saving" /\ snapshot' = next[w]
    BY <1>4, <1>5, <1>6, <1>7 DEF Next
  <2> QED
    BY <1>1, <1>3, <2>1, <2>2, <2>3
<1> QED
  BY <1>9 DEF Sourced

\* A late write is remembered.
LEMMA LateWriteRemembered == [Next]_vars /\ lateWrite => lateWrite'
<1> SUFFICES ASSUME [Next]_vars, lateWrite PROVE lateWrite'
  OBVIOUS
<1>1. ASSUME NEW w \in Refreshers,
             \/ RefreshBegin(w) \/ RefreshSkip(w) \/ RefreshStep(w)
             \/ RefreshDiscoverError(w) \/ BodyStalls(w) \/ BodyResumes(w)
      PROVE  UNCHANGED lateWrite
  BY <1>1 DEF RefreshBegin, RefreshSkip, RefreshStep, RefreshDiscoverError,
       BodyStalls, BodyResumes, RefreshList, RefreshCrawl, RefreshCrawlMissing,
       RefreshBuild, RefreshPublish, RefreshSaveError, RefreshCommandDone
<1>2. ASSUME NEW d \in Deleters,
             \/ \E x \in Items : DeleteRequest(d, x)
             \/ DeleteStep(d) \/ DeleteUpstreamError(d) \/ Disconnect(d)
      PROVE  UNCHANGED lateWrite
  BY <1>2 DEF DeleteRequest, DeleteStep, DeleteUpstream, DeleteRefused,
       DeletePublish, DeleteSaveError, DeleteUpstreamError, Disconnect
<1>3. ASSUME NEW w \in Workers, SaveWrite(w) \/ SaveFail(w)
      PROVE  lateWrite'
  BY <1>3 DEF SaveWrite, SaveFail
<1>4. CASE UpstreamChange \/ FullIntervalElapses \/ Crash \/ UNCHANGED vars
  BY <1>4 DEF UpstreamChange, FullIntervalElapses, Crash, vars
<1> QED
  BY <1>1, <1>2, <1>3, <1>4 DEF Next

LEMMA ForgottenStep ==
  ASSUME FInv, [Next]_vars, NEW d \in Deleters
  PROVE  Forgotten(d)'
<1> USE WorkersAssumption
<1>1. DInv /\ TypeOK /\ Cut(d) /\ Forgotten(d)
  BY DEF FInv, DInv, SInv, JInv
<1> DEFINE t == target[d]
<1>2. t \in Items /\ cut[d] \in Stamps
  BY <1>1 DEF TypeOK
<1>3. CASE DeletePublish(d)
  <2>1. /\ pc[d] = "saving" /\ snapshot' = next[d] /\ run' = run
        /\ cache' = [cache EXCEPT ![t] = Absent]
        /\ UNCHANGED deleteVars
    BY <1>3 DEF DeletePublish
  <2>2. lock = d
    BY <2>1 DEF FInv, DInv, SInv, JInv, LockDiscipline
  <2>3. \A w \in Refreshers : run[w] = NoRun
    BY <2>2 DEF FInv, DInv, RunDiscipline, RunFollows, SInv, JInv, LockDiscipline
  <2>4. \A w \in Refreshers : run[w].seen[t] = Absent /\ run[w].got[t] = Absent
    BY <1>2, <2>3 DEF NoRun, NothingListed
  <2>5. cache'[t] = Absent
    BY <1>1, <1>2, <2>1 DEF TypeOK
  <2>6. \A r \in snapshot'.resources : r.root # t
    <3>1. next[d] = Without(snapshot, t)
      BY <2>1 DEF FInv, DInv, SInv, StoreDiscipline, DeletionDrafted
    <3> QED
      BY <2>1, <3>1 DEF Without
  <2>7. target'[d] = t
    BY <2>1
  <2> HIDE DEF t
  <2> QED
    BY <2>1, <2>4, <2>5, <2>6, <2>7 DEF Forgotten, Newer
<1>4. CASE ~DeletePublish(d) /\ pc'[d] = "deleted"
  <2>1. ~DeleteUpstream(d)
    BY <1>1, <1>4 DEF DeleteUpstream, TypeOK
  <2>2. target'[d] = t /\ cut'[d] = cut[d] /\ pc[d] = "deleted"
    BY <1>1, <1>4, <2>1, DeletionFrame DEF DeletionKept
  <2>3. /\ Newer(up[t], cut[d]) /\ Newer(cache[t], cut[d])
        /\ \A w \in Refreshers : /\ Newer(run[w].seen[t], cut[d])
                                 /\ Newer(run[w].got[t], cut[d])
    BY <1>1, <2>2 DEF Cut, Forgotten
  <2>4. ~lateWrite => \A r \in snapshot.resources :
                        r.root = t => r.meta.desc > cut[d]
    BY <1>1, <2>2 DEF Forgotten
  <2> HIDE DEF t
  <2>5. Newer(cache'[t], cut[d])
    BY <1>1, <1>2, <2>3, CacheSources DEF Newer
  <2>6. \A w \in Refreshers : /\ Newer(run'[w].seen[t], cut[d])
                              /\ Newer(run'[w].got[t], cut[d])
    BY <1>1, <1>2, <2>3, RunSources
  <2>7. ASSUME ~lateWrite', NEW r \in snapshot'.resources, r.root = t
        PROVE  r.meta.desc > cut[d]
    <3>1. ~lateWrite
      BY <2>7, LateWriteRemembered
    <3>2. CASE r \in snapshot.resources
      BY <2>4, <2>7, <3>1, <3>2
    <3>3. ASSUME NEW w \in Refreshers, r.meta = run[w].got[t], r.meta # Absent
          PROVE  r.meta.desc > cut[d]
      BY <2>3, <3>3 DEF Newer
    <3> QED
      BY <1>1, <2>7, <3>1, <3>2, <3>3, SnapshotSources
  <2> QED
    BY <2>2, <2>5, <2>6, <2>7 DEF Forgotten
<1>5. CASE pc'[d] # "deleted"
  BY <1>5 DEF Forgotten
<1> QED
  BY <1>3, <1>4, <1>5

LEMMA ForgetsInit == Init => FInv
<1> SUFFICES ASSUME Init PROVE FInv
  OBVIOUS
<1>1. DInv
  BY TypeInit, LockInit, JobInit, StoreInit, DatesInit DEF DInv, SInv, JInv
<1>2. ASSUME NEW d \in Deleters
      PROVE  Cut(d) /\ Forgotten(d)
  <2>1. cut[d] = 0 /\ clock = Undated /\ pc[d] = "idle"
    BY DEF Init
  <2> QED
    BY <2>1 DEF Cut, Forgotten, Undated
<1> QED
  BY <1>1, <1>2 DEF FInv

\* The inductive invariant of the deletions.
LEMMA DeletionsForgotten ==
  ASSUME ~PartialDeletes
  PROVE  Spec => []FInv
<1>1. FInv /\ [Next]_vars => FInv'
  BY DatesStep, CutStep, ForgottenStep DEF FInv
<1> QED
  BY <1>1, ForgetsInit, PTL DEF Spec

\* Where upstream deletes all or says no, nothing of what a successful DELETE
\* removed is ever served again: not by the refresh that had already listed or
\* crawled it, not from the cache, and not after a restart.
THEOREM DeletedStaysAway ==
  ASSUME ~PartialDeletes
  PROVE  Spec => []NoResurrection
<1>1. FInv => NoResurrection
  BY DEF FInv, Forgotten, NoResurrection
<1> QED
  BY <1>1, DeletionsForgotten, PTL

-----------------------------------------------------------------------------
(* What the update command gets to know (LibraryUpdates).                  *)

USE DEF updateVars

\* Directories are being told of only while a command runs.
RootsOfCommand == roots # {} => \E w \in Refreshers : pc[w] = "command"

UInv == JInv /\ RootsOfCommand /\ ToldUnlessMissed

\* The history of LibraryUpdates adds nothing to what the index can do.
LEMMA UpdatesOfIndex == [UpdatesNext]_<<vars, updateVars>> => [Next]_vars
<1> SUFFICES ASSUME UpdatesNext PROVE Next
  OBVIOUS
<1>1. ASSUME NEW w \in Refreshers, Publish(w) \/ CommandDone(w)
      PROVE  Next
  BY <1>1 DEF Publish, CommandDone, Next, RefreshStep
<1>2. ASSUME NEW d \in Deleters, PublishDeletion(d)
      PROVE  Next
  BY <1>2 DEF PublishDeletion, Next, DeleteStep
<1>3. CASE CrashUntold \/ Elsewhere
  BY <1>3 DEF CrashUntold, Elsewhere, Next
<1> QED
  BY <1>1, <1>2, <1>3 DEF UpdatesNext

\* No other step changes what is served, or takes a task out of its command.
LEMMA ElsewhereQuiet ==
  ASSUME TypeOK, Elsewhere
  PROVE  /\ snapshot' = snapshot
         /\ \A w \in Refreshers : pc[w] = "command" => pc'[w] = "command"
<1> USE WorkersAssumption
<1> DEFINE Quiet == /\ snapshot' = snapshot
                    /\ \A w \in Refreshers : pc[w] = "command" => pc'[w] = "command"
<1>1. ASSUME NEW v \in Refreshers,
             \/ RefreshBegin(v) \/ RefreshSkip(v) \/ RefreshStep(v)
             \/ RefreshDiscoverError(v) \/ BodyStalls(v) \/ BodyResumes(v),
             ~RefreshPublish(v), ~RefreshCommandDone(v)
      PROVE  Quiet
  <2>1. /\ snapshot' = snapshot
        /\ pc' = pc \/ (pc[v] # "command" /\ \E s : pc' = [pc EXCEPT ![v] = s])
    BY <1>1 DEF RefreshBegin, RefreshSkip, RefreshStep, RefreshDiscoverError,
         BodyStalls, BodyResumes, RefreshList, RefreshCrawl,
         RefreshCrawlMissing, RefreshBuild, RefreshSaveError, EndRefresh
  <2> QED
    BY <2>1 DEF TypeOK
<1>2. ASSUME NEW d \in Deleters,
             \/ \E x \in Items : DeleteRequest(d, x)
             \/ DeleteStep(d) \/ DeleteUpstreamError(d) \/ Disconnect(d),
             ~DeletePublish(d)
      PROVE  Quiet
  <2>1. snapshot' = snapshot /\ \E s : pc' = [pc EXCEPT ![d] = s]
    BY <1>2 DEF DeleteRequest, DeleteStep, DeleteUpstream, DeleteRefused,
         DeleteSaveError, DeleteUpstreamError, Disconnect, EndDelete
  <2> QED
    BY <2>1 DEF TypeOK
<1>3. ASSUME NEW w \in Workers, SaveWrite(w) \/ SaveFail(w)
      PROVE  Quiet
  BY <1>3 DEF SaveWrite, SaveFail
<1>4. CASE UpstreamChange \/ FullIntervalElapses
  <2>1. UNCHANGED <<snapshot, pc>>
    BY <1>4 DEF UpstreamChange, FullIntervalElapses
  <2> QED
    BY <2>1
<1> QED
  BY <1>1, <1>2, <1>3, <1>4 DEF Elsewhere, Next

\* A publication while no command runs: nothing is being told of.
LEMMA NoCommandRuns ==
  ASSUME UInv, NEW w \in Workers, pc[w] = "saving"
  PROVE  roots = {}
BY WorkersAssumption DEF UInv, RootsOfCommand, JInv, LockDiscipline

LEMMA ToldPublish ==
  ASSUME UInv, NEW w \in Refreshers, Publish(w)
  PROVE  RootsOfCommand' /\ ToldUnlessMissed'
<1>1. roots = {}
  BY NoCommandRuns DEF Publish, RefreshPublish
<1>2. CASE UpdateCommand /\ ChangedRoots(snapshot, snapshot') # {}
  <2>1. pc'[w] = "command"
    BY <1>2 DEF Publish, RefreshPublish, UInv, JInv, TypeOK
  <2>2. /\ roots' = ChangedRoots(snapshot, snapshot')
        /\ UNCHANGED <<told, missed>>
    BY <2>1 DEF Publish
  <2>3. RootsOfCommand'
    BY <2>1 DEF RootsOfCommand
  <2>4. ASSUME NEW c \in Categories
        PROVE  InCategory(snapshot', c) = told'[c] \/ c \in missed' \cup roots'
    BY <1>1, <1>2, <2>2 DEF UInv, ToldUnlessMissed, ChangedRoots
  <2> QED
    BY <2>3, <2>4 DEF ToldUnlessMissed
<1>3. CASE ~(UpdateCommand /\ ChangedRoots(snapshot, snapshot') # {})
  <2>1. snapshot' = next[w] /\ UNCHANGED <<told, missed>>
    BY DEF Publish, RefreshPublish
  <2>2. roots' = {}
    <3>1. EndRefresh(w)
      BY <1>3, <2>1 DEF Publish, RefreshPublish
    <3>2. pc'[w] # "command"
      BY <3>1 DEF EndRefresh, Returned, UInv, JInv, TypeOK
    <3> QED
      BY <3>2 DEF Publish
  <2>3. ASSUME UpdateCommand, NEW c \in Categories
        PROVE  InCategory(snapshot', c) = told'[c] \/ c \in missed' \cup roots'
    BY <1>1, <1>3, <2>1, <2>2, <2>3 DEF UInv, ToldUnlessMissed, ChangedRoots
  <2> QED
    BY <2>2, <2>3 DEF RootsOfCommand, ToldUnlessMissed
<1> QED
  BY <1>2, <1>3

LEMMA ToldStep ==
  UInv /\ [UpdatesNext]_<<vars, updateVars>> => UInv'
<1> SUFFICES ASSUME UInv, [UpdatesNext]_<<vars, updateVars>>
             PROVE  RootsOfCommand' /\ ToldUnlessMissed'
  BY UpdatesOfIndex, JobStep DEF UInv
<1>1. ASSUME UNCHANGED <<snapshot, updateVars>>,
             \A w \in Refreshers : pc[w] = "command" => pc'[w] = "command"
      PROVE  RootsOfCommand' /\ ToldUnlessMissed'
  BY <1>1 DEF UInv, RootsOfCommand, ToldUnlessMissed, InCategory
<1>2. ASSUME NEW w \in Refreshers, CommandDone(w)
      PROVE  RootsOfCommand' /\ ToldUnlessMissed'
  <2>1. roots' = {} /\ snapshot' = snapshot
    BY <1>2 DEF CommandDone, RefreshCommandDone
  <2>2. ASSUME UpdateCommand, NEW c \in Categories
        PROVE  InCategory(snapshot', c) = told'[c] \/ c \in missed' \cup roots'
    BY <1>2, <2>1, <2>2 DEF CommandDone, UInv, ToldUnlessMissed
  <2> QED
    BY <2>1, <2>2 DEF RootsOfCommand, ToldUnlessMissed
<1>3. ASSUME NEW d \in Deleters, PublishDeletion(d)
      PROVE  RootsOfCommand' /\ ToldUnlessMissed'
  <2>1. roots = {} /\ roots' = {} /\ told' = told /\ missed' = missed \cup Changed
    BY <1>3, NoCommandRuns DEF PublishDeletion, DeletePublish
  <2>2. ASSUME UpdateCommand, NEW c \in Categories
        PROVE  InCategory(snapshot', c) = told'[c] \/ c \in missed' \cup roots'
    BY <2>1, <2>2 DEF UInv, ToldUnlessMissed, Changed
  <2> QED
    BY <2>1, <2>2 DEF RootsOfCommand, ToldUnlessMissed
<1>4. CASE CrashUntold
  <2>1. roots' = {} /\ told' = told /\ missed' = missed \cup roots \cup Changed
    BY <1>4 DEF CrashUntold
  <2>2. ASSUME UpdateCommand, NEW c \in Categories
        PROVE  InCategory(snapshot', c) = told'[c] \/ c \in missed' \cup roots'
    BY <2>1, <2>2 DEF UInv, ToldUnlessMissed, Changed
  <2> QED
    BY <2>1, <2>2 DEF RootsOfCommand, ToldUnlessMissed
<1>5. CASE Elsewhere
  <2>1. UNCHANGED updateVars
    BY <1>5 DEF Elsewhere
  <2> QED
    BY <1>1, <1>5, <2>1, ElsewhereQuiet DEF UInv, JInv
<1>6. CASE UNCHANGED <<vars, updateVars>>
  BY <1>1, <1>6 DEF vars
<1> QED
  BY <1>2, <1>3, <1>4, <1>5, <1>6, ToldPublish DEF UpdatesNext

LEMMA ToldInit == UpdatesInit => UInv
<1> SUFFICES ASSUME UpdatesInit PROVE UInv
  OBVIOUS
<1>1. Init /\ roots = {} /\ told = [c \in Categories |-> {}]
  BY DEF UpdatesInit
<1>2. \A c \in Categories : InCategory(snapshot, c) = {}
  BY <1>1 DEF Init, Empty, InCategory
<1> QED
  BY <1>1, <1>2, TypeInit, LockInit, JobInit
     DEF UInv, JInv, RootsOfCommand, ToldUnlessMissed

\* Whatever a refresh shows to clients, the update command was started for
\* before anybody else could publish; what it may not know of is exactly what
\* DELETEs, crashes and failed commands left behind.
THEOREM ToldOfEveryRefresh == UpdatesSpec => []ToldUnlessMissed
<1>1. UpdatesSpec => []UInv
  BY ToldInit, ToldStep, PTL DEF UpdatesSpec
<1>2. UInv => ToldUnlessMissed
  BY DEF UInv
<1> QED
  BY <1>1, <1>2, PTL
=============================================================================
