--------------------------- MODULE LibraryUpdates ----------------------------
(***************************************************************************)
(* What the update command of the configuration (on_library_update) gets   *)
(* to know.  Index is extended by what the program has been told of each   *)
(* directory, as a media library that reads the directory when it is told  *)
(* to: refresh_lock is held while the command is awaited, so that it reads *)
(* the snapshot it was started for.  A command given up after its 30       *)
(* seconds goes on by itself, and what it then reads counts for nothing.   *)
(***************************************************************************)
EXTENDS Index

VARIABLES
  roots,   \* the directories the running command was started with
  told,    \* directory -> its contents when the command last ran for it
  missed   \* history: directories changed by a DELETE or a restart, or told
           \* of in vain, since the command last ran for them
updateVars == <<roots, told, missed>>

UpdatesInit ==
  /\ Init
  /\ roots = {}
  /\ told = [c \in Categories |-> {}]
  /\ missed = {}

\* The directories whose contents the step changes, for this module's history.
Changed == {c \in Categories : InCategory(snapshot, c) # InCategory(snapshot', c)}

\* A refresh publishes: the command is started with the changed directories.
Publish(w) ==
  /\ RefreshPublish(w)
  /\ roots' = IF pc'[w] = "command" THEN ChangedRoots(snapshot, snapshot') ELSE {}
  /\ UNCHANGED <<told, missed>>

\* The command ends: with success, or it fails, cannot start, or is given up.
CommandDone(w) ==
  /\ RefreshCommandDone(w)
  /\ roots' = {}
  /\ \/ /\ told' = [c \in Categories |-> IF c \in roots THEN InCategory(snapshot, c)
                                         ELSE told[c]]
        /\ missed' = missed \ roots
     \/ /\ missed' = missed \cup roots
        /\ UNCHANGED told

\* A DELETE changes what is served and starts no command.
PublishDeletion(d) ==
  /\ DeletePublish(d)
  /\ missed' = missed \cup Changed
  /\ UNCHANGED <<roots, told>>

\* A crash ends a running command's chance to be noted, and the restart may
\* serve a stored snapshot that was never published.
CrashUntold ==
  /\ Crash
  /\ missed' = missed \cup roots \cup Changed
  /\ roots' = {}
  /\ UNCHANGED told

\* No other step of Index changes what is served.
Elsewhere ==
  /\ Next
  /\ ~ \E w \in Refreshers : RefreshPublish(w) \/ RefreshCommandDone(w)
  /\ ~ \E d \in Deleters : DeletePublish(d)
  /\ ~ Crash
  /\ UNCHANGED updateVars

UpdatesNext ==
  \/ \E w \in Refreshers : Publish(w) \/ CommandDone(w)
  \/ \E d \in Deleters : PublishDeletion(d)
  \/ CrashUntold
  \/ Elsewhere

UpdatesSpec == UpdatesInit /\ [][UpdatesNext]_<<vars, updateVars>>

-----------------------------------------------------------------------------
(* Properties.                                                             *)

\* Whatever a refresh shows to clients the command has been told of before the
\* next task gets the lock.  What it may not know is what a DELETE took away,
\* what changed around a crash, and what it was told of in vain: no refresh
\* makes up for these unless the directory changes again.
ToldUnlessMissed ==
  UpdateCommand =>
    \A c \in Categories :
      InCategory(snapshot, c) = told[c] \/ c \in missed \cup roots
=============================================================================
