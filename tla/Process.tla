------------------------------- MODULE Process -------------------------------
(***************************************************************************)
(* The life of webdav-filter's processes: main.rs with the validation of   *)
(* config.rs.  A process starts up stage by stage, each of which may       *)
(* refuse, serves and refreshes, drains its connections after a signal,    *)
(* and ends; the next one starts from the same configuration file and the  *)
(* same database, perhaps before the last has ended.                       *)
(***************************************************************************)
EXTENDS Naturals, FiniteSets

CONSTANTS
  Procs,         \* processes that may run at the same time
  Configs,       \* what the configuration file may say
  MinSeconds,    \* the least interval and cooldown accepted
  Absent,        \* a section that is not in the file; a free address
  MaxGen         \* bound: generations

\* filters: every directory has a filter, all compile, no two names normalize
\* alike.  A secret is in an environment variable, a file, both or neither.
Secret == {"none", "env", "file", "both"}
Config == [version: {1, 2}, directories: Nat, filters: BOOLEAN,
           interval_secs: Nat, hook_cooldown: Nat \cup {Absent},
           crawl_concurrency: Nat, https: BOOLEAN, allow_http: BOOLEAN,
           upstream: Secret, downstream_auth: Secret \cup {Absent}]

ASSUME ConfigsAssumption ==
  /\ Configs \subseteq Config
  /\ Absent \notin Nat \cup Secret \cup Procs
  /\ MaxGen \in Nat

VARIABLES
  config,    \* the configuration file
  verified,  \* history: --check-config has found it valid
  refusal,   \* history: whose fault the last refused start was
  at,        \* the stage of each process
  auth,      \* AppState::downstream_auth is set
  address,   \* the process that listens, Absent if none does
  looping,   \* processes whose refresh loop is running
  served,    \* the snapshot of each process
  db         \* the stored snapshot
vars == <<config, verified, refusal, at, auth, address, looping, served, db>>

Stages == {"off", "check", "load", "secret", "store", "auth", "bind", "serving",
           "draining"}
Snapshot == [gen: 0..MaxGen, by: Procs \cup {Absent}]
Empty == [gen |-> 0, by |-> Absent]

TypeOK ==
  /\ config \in Configs
  /\ verified \in BOOLEAN
  /\ refusal \in {"none", "config", "environment"}
  /\ at \in [Procs -> Stages]
  /\ auth \in [Procs -> BOOLEAN]
  /\ address \in {p \in Procs : at[p] = "serving"} \cup {Absent}
  /\ looping \subseteq Procs
  /\ served \in [Procs -> Snapshot]
  /\ db \in Snapshot

Init ==
  /\ config \in Configs
  /\ verified = FALSE
  /\ refusal = "none"
  /\ at = [p \in Procs |-> "off"]
  /\ auth = [p \in Procs |-> FALSE]
  /\ address = Absent
  /\ looping = {}
  /\ served = [p \in Procs |-> Empty]
  /\ db = Empty

-----------------------------------------------------------------------------
(* Config::validate and Classifier::compile.                               *)

Valid(c) ==
  /\ c.version = 1
  /\ c.directories > 0
  /\ c.interval_secs >= MinSeconds
  /\ c.hook_cooldown # Absent => c.hook_cooldown >= MinSeconds
  /\ c.crawl_concurrency > 0
  /\ c.https \/ c.allow_http
  /\ c.upstream # "both"
  /\ c.downstream_auth # "both"

Accepted == Valid(config) /\ config.filters

-----------------------------------------------------------------------------
(* Starting up.                                                            *)

GoTo(p, stage) == at' = [at EXCEPT ![p] = stage]

\* main returns an error: for what the file says, or for what it refers to.
Refuse(p, fault) == GoTo(p, "off") /\ refusal' = fault

Launch(p, mode) ==
  /\ at[p] = "off"
  /\ GoTo(p, mode)
  /\ UNCHANGED <<config, verified, refusal, auth, address, looping, served, db>>

\* Config::load and compile; --check-config ends here.
Load(p) ==
  /\ at[p] \in {"check", "load"}
  /\ \/ Refuse(p, "environment") /\ UNCHANGED verified
     \/ ~Accepted /\ Refuse(p, "config") /\ UNCHANGED verified
     \/ /\ Accepted
        /\ GoTo(p, IF at[p] = "check" THEN "off" ELSE "secret")
        /\ verified' = (verified \/ at[p] = "check")
        /\ UNCHANGED refusal
  /\ UNCHANGED <<config, auth, address, looping, served, db>>

\* read_secret fails if the variable is not set or the file cannot be read.
UpstreamSecret(p) ==
  /\ at[p] = "secret"
  /\ \/ GoTo(p, "store") /\ UNCHANGED refusal
     \/ config.upstream # "none" /\ Refuse(p, "environment")
  /\ UNCHANGED <<config, verified, auth, address, looping, served, db>>

\* SnapshotStore::open, Index::new.
OpenStore(p) ==
  /\ at[p] = "store"
  /\ \/ /\ GoTo(p, "auth")
        /\ served' = [served EXCEPT ![p] = db]
        /\ UNCHANGED refusal
     \/ Refuse(p, "environment") /\ UNCHANGED served
  /\ UNCHANGED <<config, verified, auth, address, looping, db>>

\* mutant: without a password there is nothing to check
Unprotected(p) == config.downstream_auth \in {Absent, "none"}

Anonymous(p) == config.downstream_auth = Absent

\* downstream_auth needs a password.
DownstreamSecret(p) ==
  /\ at[p] = "auth"
  /\ \/ /\ Anonymous(p)
        /\ GoTo(p, "bind")
        /\ auth' = [auth EXCEPT ![p] = FALSE]
        /\ UNCHANGED refusal
     \/ /\ ~Anonymous(p)
        /\ config.downstream_auth # "none"
        /\ GoTo(p, "bind")
        /\ auth' = [auth EXCEPT ![p] = TRUE]
        /\ UNCHANGED refusal
     \/ /\ ~Anonymous(p)
        /\ Refuse(p, IF config.downstream_auth = "none" THEN "config" ELSE "environment")
        /\ UNCHANGED auth
  /\ UNCHANGED <<config, verified, address, looping, served, db>>

\* mutant: the loop is spawned before the address is bound
BindLast(p) ==
  /\ at[p] = "bind"
  /\ looping' = looping \cup {p}
  /\ \/ address = Absent /\ address' = p /\ GoTo(p, "serving")
     \/ address # Absent /\ UNCHANGED <<address, at>>
  /\ UNCHANGED <<config, verified, refusal, auth, served, db>>

\* The address is free, and the refresh loop starts; or it is taken.
Bind(p) ==
  /\ at[p] = "bind"
  /\ \/ /\ address = Absent
        /\ address' = p
        /\ looping' = looping \cup {p}
        /\ GoTo(p, "serving")
        /\ UNCHANGED refusal
     \/ /\ address # Absent
        /\ Refuse(p, "environment")
        /\ UNCHANGED <<address, looping>>
  /\ UNCHANGED <<config, verified, auth, served, db>>

-----------------------------------------------------------------------------
(* Serving and ending.                                                     *)

\* A refresh, from its listing to its publication.
Refresh(p) ==
  /\ p \in looping
  /\ served[p].gen < MaxGen
  /\ served' = [served EXCEPT ![p] = [gen |-> @.gen + 1, by |-> p]]
  /\ db' = served'[p]
  /\ UNCHANGED <<config, verified, refusal, at, auth, address, looping>>

Released(p) == address' = IF address = p THEN Absent ELSE address

\* SIGTERM or Ctrl-C: axum stops listening and waits for the connections.  The
\* refresh loop is a task of its own and goes on.
Shutdown(p) ==
  /\ at[p] = "serving"
  /\ GoTo(p, "draining")
  /\ Released(p)
  /\ UNCHANGED <<config, verified, refusal, auth, looping, served, db>>

\* The last connection is closed, or the process is killed.
Exit(p) ==
  /\ at[p] # "off"
  /\ GoTo(p, "off")
  /\ looping' = looping \ {p}
  /\ Released(p)
  /\ UNCHANGED <<config, verified, refusal, auth, served, db>>

Next ==
  \E p \in Procs :
    \/ \E mode \in {"check", "load"} : Launch(p, mode)
    \/ Load(p) \/ UpstreamSecret(p) \/ OpenStore(p) \/ DownstreamSecret(p) \/ Bind(p)
    \/ Refresh(p) \/ Shutdown(p) \/ Exit(p)

Spec == Init /\ [][Next]_vars

-----------------------------------------------------------------------------
(* Properties.                                                             *)

\* Of the processes started for one address at most one refreshes, but for those
\* that are shutting down; a start that is refused, for a taken address too, has
\* not touched upstream or the database.
OneRefresher ==
  /\ \A p \in looping : at[p] \in {"serving", "draining"}
  /\ Cardinality({p \in looping : at[p] = "serving"}) <= 1

\* A process that answers requests asks for credentials exactly if the
\* configuration has a section for them, whatever became of their secret.
AuthAsConfigured ==
  \A p \in Procs : at[p] \in {"serving", "draining"} =>
    (auth[p] <=> config.downstream_auth # Absent)

\* "configuration is valid", says --check-config: no start refuses it then for
\* what it says.
CheckedConfigStarts == verified => refusal # "config"

\* "SQLite persists that snapshot across restarts": what a listening process has
\* published is what the next one will start from.
PublishedIsStored ==
  \A p \in Procs : at[p] = "serving" /\ served[p].by = p => db = served[p]
=============================================================================
