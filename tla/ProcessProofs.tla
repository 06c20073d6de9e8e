---------------------------- MODULE ProcessProofs ----------------------------
(* Theorems about Process, for any number of processes and any configuration. *)
EXTENDS Process, FiniteSetTheorems, TLAPS

(***************************************************************************)
(* What the stage of a process says of what it has behind it: its          *)
(* authentication is set up, its address is bound.                         *)
(***************************************************************************)
Authorized == {"bind", "serving", "draining"}

StageInv ==
  \A p \in Procs :
    /\ at[p] \in Authorized => (auth[p] <=> config.downstream_auth # Absent)
    /\ at[p] = "serving" => address = p
    /\ p \in looping => at[p] \in {"serving", "draining"}

ProcessInv == TypeOK /\ StageInv

\* The initial states satisfy the invariant.
LEMMA ProcessInitially == Init => ProcessInv
<1> SUFFICES ASSUME Init PROVE ProcessInv
  OBVIOUS
<1>1. Empty \in Snapshot
  BY ConfigsAssumption DEF Empty, Snapshot
<1>2. TypeOK
  BY <1>1 DEF Init, TypeOK, Stages
<1>3. StageInv
  BY DEF Init, StageInv, Authorized
<1> QED
  BY <1>2, <1>3 DEF ProcessInv

\* A process that has not bound the address goes to another stage.
LEMMA StageMoves ==
  ASSUME ProcessInv, NEW p \in Procs, NEW s \in Stages,
         at[p] # "serving", GoTo(p, s)
  PROVE  /\ at' \in [Procs -> Stages]
         /\ address \in {q \in Procs : at'[q] = "serving"} \cup {Absent}
         /\ \A q \in Procs : q # p => at'[q] = at[q]
         /\ at'[p] = s
  BY DEF ProcessInv, TypeOK, GoTo

\* Starting a process, up to the address.
LEMMA StartKeeps ==
  ASSUME ProcessInv, NEW p \in Procs,
         \/ \E mode \in {"check", "load"} : Launch(p, mode)
         \/ Load(p) \/ UpstreamSecret(p) \/ OpenStore(p)
  PROVE  ProcessInv'
<1> USE ConfigsAssumption
<1> /\ {"off", "check", "load", "secret", "store", "auth"} \subseteq Stages
    /\ Procs \cap looping \subseteq {q \in Procs : at[q] \in {"serving", "draining"}}
  BY DEF Stages, ProcessInv, StageInv
<1>1. ASSUME NEW mode \in {"check", "load"}, Launch(p, mode)
      PROVE  ProcessInv'
  <2>1. at[p] # "serving" /\ GoTo(p, mode)
    BY <1>1 DEF Launch
  <2> QED
    BY <1>1, <2>1, StageMoves
    DEF Launch, ProcessInv, TypeOK, StageInv, Authorized
<1>2. CASE Load(p)
  <2>1. at[p] # "serving" /\ at[p] \in {"check", "load"}
    BY <1>2 DEF Load
  <2>2. \E s \in {"off", "secret"} :
          GoTo(p, s)
    BY <1>2 DEF Load, Refuse
  <2>3. PICK s \in {"off", "secret"} : GoTo(p, s)
    BY <2>2
  <2>4. /\ at' \in [Procs -> Stages]
        /\ address \in {q \in Procs : at'[q] = "serving"} \cup {Absent}
        /\ \A q \in Procs : q # p => at'[q] = at[q]
        /\ at'[p] = s
    BY <2>1, <2>3, StageMoves
  <2>5. verified' \in BOOLEAN /\ refusal' \in {"none", "config", "environment"}
    BY <1>2 DEF Load, Refuse, ProcessInv, TypeOK
  <2>6. UNCHANGED <<config, auth, address, looping, served, db>>
    BY <1>2 DEF Load
  <2> QED
    BY <2>1, <2>3, <2>4, <2>5, <2>6
    DEF ProcessInv, TypeOK, StageInv, Authorized
<1>3. CASE UpstreamSecret(p)
  <2>1. at[p] = "secret" /\ UNCHANGED <<config, verified, auth, address, looping, served, db>>
    BY <1>3 DEF UpstreamSecret
  <2>2. PICK s \in {"off", "store"} : GoTo(p, s)
    BY <1>3 DEF UpstreamSecret, Refuse
  <2>3. refusal' \in {"none", "config", "environment"}
    BY <1>3 DEF UpstreamSecret, Refuse, ProcessInv, TypeOK
  <2>4. /\ at' \in [Procs -> Stages]
        /\ address \in {q \in Procs : at'[q] = "serving"} \cup {Absent}
        /\ \A q \in Procs : q # p => at'[q] = at[q]
        /\ at'[p] = s
    BY <2>1, <2>2, StageMoves
  <2> QED
    BY <2>1, <2>2, <2>3, <2>4
    DEF ProcessInv, TypeOK, StageInv, Authorized
<1>4. CASE OpenStore(p)
  <2>1. at[p] = "store" /\ UNCHANGED <<config, verified, auth, address, looping, db>>
    BY <1>4 DEF OpenStore
  <2>2. PICK s \in {"off", "auth"} : GoTo(p, s)
    BY <1>4 DEF OpenStore, Refuse
  <2>3. /\ refusal' \in {"none", "config", "environment"}
        /\ served' \in [Procs -> Snapshot]
    BY <1>4 DEF OpenStore, Refuse, ProcessInv, TypeOK
  <2>4. /\ at' \in [Procs -> Stages]
        /\ address \in {q \in Procs : at'[q] = "serving"} \cup {Absent}
        /\ \A q \in Procs : q # p => at'[q] = at[q]
        /\ at'[p] = s
    BY <2>1, <2>2, StageMoves
  <2> QED
    BY <2>1, <2>2, <2>3, <2>4
    DEF ProcessInv, TypeOK, StageInv, Authorized
<1> QED
  BY <1>1, <1>2, <1>3, <1>4

\* The password that clients must give.
LEMMA AuthKeeps ==
  ASSUME ProcessInv, NEW p \in Procs, DownstreamSecret(p)
  PROVE  ProcessInv'
<1> USE ConfigsAssumption
<1>1. at[p] = "auth" /\ UNCHANGED <<config, verified, address, looping, served, db>>
  BY DEF DownstreamSecret
<1>2. PICK s \in {"off", "bind"} : GoTo(p, s)
  BY DEF DownstreamSecret, Refuse
<1>3. {"off", "bind"} \subseteq Stages
  BY DEF Stages
<1>4. /\ at' \in [Procs -> Stages]
      /\ address \in {q \in Procs : at'[q] = "serving"} \cup {Absent}
      /\ \A q \in Procs : q # p => at'[q] = at[q]
      /\ at'[p] = s
  BY <1>1, <1>2, <1>3, StageMoves
<1>5. /\ refusal' \in {"none", "config", "environment"}
      /\ auth' \in [Procs -> BOOLEAN]
  BY DEF DownstreamSecret, Refuse, ProcessInv, TypeOK
<1>6. /\ \A q \in Procs : q # p => auth'[q] = auth[q]
      /\ s = "bind" => (auth'[p] <=> config.downstream_auth # Absent)
  <2>1. CASE Anonymous(p) /\ auth' = [auth EXCEPT ![p] = FALSE]
    BY <2>1 DEF Anonymous, ProcessInv, TypeOK
  <2>2. CASE ~Anonymous(p) /\ auth' = [auth EXCEPT ![p] = TRUE]
    BY <2>2 DEF Anonymous, ProcessInv, TypeOK
  <2>3. CASE GoTo(p, "off") /\ UNCHANGED auth
    <3>1. s = "off"
      BY <1>2, <2>3 DEF GoTo, ProcessInv, TypeOK
    <3> QED
      BY <2>3, <3>1
  <2> QED
    BY <2>1, <2>2, <2>3 DEF DownstreamSecret, Refuse
<1> QED
  BY <1>1, <1>2, <1>4, <1>5, <1>6
  DEF ProcessInv, TypeOK, StageInv, Authorized

\* Binding the address, by a process that is alone with it.
LEMMA BindKeeps ==
  ASSUME ProcessInv, NEW p \in Procs, Bind(p)
  PROVE  ProcessInv'
<1> USE ConfigsAssumption
<1>1. at[p] = "bind" /\ UNCHANGED <<config, verified, auth, served, db>>
  BY DEF Bind
<1>2. {"off", "serving"} \subseteq Stages
  BY DEF Stages
<1>3. CASE address # Absent /\ Refuse(p, "environment") /\ UNCHANGED <<address, looping>>
  BY <1>1, <1>2, <1>3, StageMoves
  DEF Refuse, ProcessInv, TypeOK, StageInv, Authorized
<1>4. CASE /\ address = Absent /\ address' = p /\ looping' = looping \cup {p}
           /\ GoTo(p, "serving") /\ UNCHANGED refusal
  <2>1. /\ at' \in [Procs -> Stages]
        /\ \A q \in Procs : q # p => at'[q] = at[q]
        /\ at'[p] = "serving"
    BY <1>1, <1>2, <1>4, StageMoves
  <2>2. \A q \in Procs : at[q] # "serving"
    BY <1>4 DEF ProcessInv, StageInv
  <2> QED
    BY <1>1, <1>4, <2>1, <2>2
    DEF ProcessInv, TypeOK, StageInv, Authorized
<1> QED
  BY <1>3, <1>4 DEF Bind

\* Refreshing, and ending.
LEMMA ServingKeeps ==
  ASSUME ProcessInv, NEW p \in Procs, Refresh(p) \/ Shutdown(p) \/ Exit(p)
  PROVE  ProcessInv'
<1> USE ConfigsAssumption
<1>1. CASE Refresh(p)
  <2>1. served'[p] \in Snapshot /\ served' \in [Procs -> Snapshot]
    BY <1>1 DEF Refresh, ProcessInv, TypeOK, Snapshot
  <2> QED
    BY <1>1, <2>1
    DEF Refresh, ProcessInv, TypeOK, StageInv
<1>2. ASSUME NEW s \in {"off", "draining"}, GoTo(p, s), Released(p),
             s = "draining" => at[p] = "serving",
             looping' \subseteq looping, s = "off" => p \notin looping',
             UNCHANGED <<config, verified, refusal, auth, served, db>>
      PROVE  ProcessInv'
  <2>1. /\ at' \in [Procs -> Stages]
        /\ \A q \in Procs : q # p => at'[q] = at[q]
        /\ at'[p] = s
    BY <1>2 DEF GoTo, ProcessInv, TypeOK, Stages
  <2>2. /\ address' \in {q \in Procs : at'[q] = "serving"} \cup {Absent}
        /\ \A q \in Procs : at'[q] = "serving" => address' = q
    BY <1>2, <2>1 DEF Released, ProcessInv, TypeOK, StageInv
  <2> QED
    BY <1>2, <2>1, <2>2
    DEF ProcessInv, TypeOK, StageInv, Authorized
<1>3. CASE Shutdown(p)
  BY <1>2, <1>3 DEF Shutdown
<1>4. CASE Exit(p)
  BY <1>2, <1>4 DEF Exit
<1> QED
  BY <1>1, <1>3, <1>4

\* Every step keeps the invariant.
LEMMA ProcessNext == ProcessInv /\ [Next]_vars => ProcessInv'
<1> SUFFICES ASSUME ProcessInv, [Next]_vars PROVE ProcessInv'
  OBVIOUS
<1>1. CASE UNCHANGED vars
  BY <1>1 DEF vars, ProcessInv, TypeOK, StageInv
<1>2. CASE Next
  BY <1>2, StartKeeps, AuthKeeps, BindKeeps, ServingKeeps DEF Next
<1> QED
  BY <1>1, <1>2

\* Every behaviour of Process satisfies the invariant.
LEMMA ProcessInvariant == Spec => []ProcessInv
  BY ProcessInitially, ProcessNext, PTL DEF Spec

-----------------------------------------------------------------------------
\* All variables keep their types, whatever starts are refused.
THEOREM ProcessTypeCorrect == Spec => []TypeOK
<1>1. ProcessInv => TypeOK
  BY DEF ProcessInv
<1> QED
  BY <1>1, ProcessInvariant, PTL

\* Of any number of processes at most one refreshes without being on its way
\* out, because the address is bound before the loop is spawned.
THEOREM RefresherUnique == Spec => []OneRefresher
<1>1. ProcessInv => OneRefresher
  <2> SUFFICES ASSUME ProcessInv PROVE OneRefresher
    OBVIOUS
  <2> DEFINE Serving == {p \in looping : at[p] = "serving"}
  <2>1. Serving \subseteq {address}
    BY DEF ProcessInv, TypeOK, StageInv
  <2>2. Cardinality({address}) = 1 /\ IsFiniteSet({address})
    BY FS_Singleton
  <2>3. Cardinality(Serving) <= 1
    BY <2>1, <2>2, FS_Subset
  <2> QED
    BY <2>3 DEF OneRefresher, ProcessInv, TypeOK, StageInv
<1> QED
  BY <1>1, ProcessInvariant, PTL

\* Whoever answers requests asks for credentials exactly if the configuration
\* has a section for them: a secret that cannot be had never turns into no check.
THEOREM AuthNeverLost == Spec => []AuthAsConfigured
<1>1. ProcessInv => AuthAsConfigured
  BY DEF ProcessInv, StageInv, AuthAsConfigured, Authorized
<1> QED
  BY <1>1, ProcessInvariant, PTL
=============================================================================
