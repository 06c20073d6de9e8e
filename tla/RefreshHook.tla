----------------------------- MODULE RefreshHook -----------------------------
(***************************************************************************)
(* The hook that a refresh calls before it scans (Index::maybe_call_hook,  *)
(* Upstream::call_hook), with time, under the refresh loop of main.rs and  *)
(* manual refreshes.                                                       *)
(*                                                                         *)
(* The provider behind upstream has media, of which its WebDAV server      *)
(* lists what it indexed last; a hook call makes it index again.  Both are *)
(* versions of one counter.  A tick of now is a unit of the configured     *)
(* times.  A timer never fires early and may fire late.                    *)
(***************************************************************************)
EXTENDS Naturals, Sequences

CONSTANTS
  Interval,   \* refresh.interval_secs
  Cooldown,   \* refresh.hook.cooldown_secs
  Patience,   \* the shorter of hook.timeout_secs and header_timeout_secs
  Never,      \* hook_last_called is None
  MaxTime,    \* bound: ticks
  MaxMedia,   \* bound: versions of the media
  MaxFaults   \* bound: failed scans, crashes

ASSUME TimesAssumption ==
  /\ Interval \in Nat \ {0}
  /\ Cooldown \in Nat \ {0}
  /\ Patience \in Nat
  /\ Never \notin Nat

ASSUME BoundsAssumption == MaxTime \in Nat /\ MaxMedia \in Nat /\ MaxFaults \in Nat

VARIABLES
  now,
  media,      \* what the provider has
  changedAt,  \* history: since when
  indexed,    \* what upstream lists
  visible,    \* what the served snapshot shows
  sendable,   \* the configured method and headers are valid
  holder,     \* the refresh that holds refresh_lock, "none" if it is free
  pc,         \* where that refresh is
  begun,      \* when it looked at the cooldown and, if due, sent its call
  wake,       \* when the loop calls refresh next
  hookLast,   \* Index::hook_last_called
  answered,   \* history: the last call of this process succeeded
  calls,      \* history: the times of the calls of this process
  faults
providerVars == <<media, changedAt, indexed>>
hookVars == <<hookLast, answered, calls>>
vars == <<now, providerVars, visible, sendable, holder, pc, begun, wake,
          hookVars, faults>>

Times == 0..MaxTime

TypeOK ==
  /\ now \in Times /\ changedAt \in Times /\ begun \in Times
  /\ media \in 0..MaxMedia /\ indexed \in 0..media /\ visible \in 0..media
  /\ sendable \in BOOLEAN /\ answered \in BOOLEAN
  /\ holder \in {"none", "loop", "manual"}
  /\ pc \in {"idle", "hook", "scan"}
  /\ holder = "none" <=> pc = "idle"
  /\ wake \in 0..(MaxTime + Interval)
  /\ hookLast \in Times \cup {Never}
  /\ calls \in Seq(Times)
  /\ faults \in 0..MaxFaults

Init ==
  /\ now = 0
  /\ media = 0 /\ changedAt = 0 /\ indexed = 0 /\ visible = 0
  /\ sendable \in BOOLEAN
  /\ holder = "none" /\ pc = "idle" /\ begun = 0
  /\ wake = 0
  /\ hookLast = Never /\ answered = FALSE /\ calls = <<>>
  /\ faults = 0

Tick ==
  /\ now < MaxTime
  /\ now' = now + 1
  /\ UNCHANGED <<providerVars, visible, sendable, holder, pc, begun, wake,
                 hookVars, faults>>

MediaChange ==
  /\ media < MaxMedia
  /\ media' = media + 1
  /\ changedAt' = now
  /\ UNCHANGED <<now, indexed, visible, sendable, holder, pc, begun, wake,
                 hookVars, faults>>

-----------------------------------------------------------------------------
(* maybe_call_hook, at the start of every refresh that gets the lock.      *)

DueOnce == hookLast = Never    \* mutant: only the first refresh calls

Due == hookLast = Never \/ now - hookLast >= Cooldown

\* The loop comes round, or POST /-/refresh.  The cooldown starts before it is
\* known whether the call can be sent, let alone how it ends.
Begin(w) ==
  /\ pc = "idle"
  /\ w = "loop" => now >= wake
  /\ now + Patience <= MaxTime
  /\ holder' = w
  /\ begun' = now
  /\ IF Due
     THEN /\ hookLast' = now
          /\ IF sendable
             THEN pc' = "hook" /\ calls' = Append(calls, now) /\ UNCHANGED answered
             ELSE pc' = "scan" /\ answered' = FALSE /\ UNCHANGED calls
     ELSE pc' = "scan" /\ UNCHANGED hookVars
  /\ UNCHANGED <<now, providerVars, visible, sendable, wake, faults>>

\* try_lock fails: the loop sleeps on.
LoopSkips ==
  /\ pc # "idle" /\ holder # "loop"
  /\ now >= wake
  /\ wake' = now + Interval
  /\ UNCHANGED <<now, providerVars, visible, sendable, holder, pc, begun,
                 hookVars, faults>>

HookSucceeds ==
  /\ pc = "hook"
  /\ pc' = "scan"
  /\ indexed' = media
  /\ answered' = TRUE
  /\ UNCHANGED <<now, media, changedAt, visible, sendable, holder, begun, wake,
                 hookLast, calls, faults>>

LastAfterFailure == Never      \* mutant: a call that failed does not count

LastKept == hookLast

\* The provider may have indexed or not; the scan goes on without its answer.
HookFailed ==
  /\ pc = "hook"
  /\ pc' = "scan"
  /\ indexed' \in {indexed, media}
  /\ answered' = FALSE
  /\ hookLast' = LastKept
  /\ UNCHANGED <<now, media, changedAt, visible, sendable, holder, begun, wake,
                 calls, faults>>

HookError == HookFailed

NoTimeout == FALSE /\ HookFailed   \* mutant: nothing limits the wait

HookTimeout == now >= begun + Patience /\ HookFailed

-----------------------------------------------------------------------------
\* The refresh returns; the loop sleeps for the interval from now on.
End ==
  /\ pc' = "idle" /\ holder' = "none"
  /\ wake' = IF holder = "loop" THEN now + Interval ELSE wake

\* Discovery and publication.
Scan ==
  /\ pc = "scan"
  /\ visible' = indexed
  /\ End
  /\ UNCHANGED <<now, providerVars, sendable, begun, hookVars, faults>>

Fault == faults < MaxFaults /\ faults' = faults + 1

ScanFails ==
  /\ pc = "scan"
  /\ Fault
  /\ End
  /\ UNCHANGED <<now, providerVars, visible, sendable, begun, hookVars>>

\* The process starts again: the loop's first refresh is due, and nothing is
\* known of earlier calls.
Restart ==
  /\ Fault
  /\ pc' = "idle" /\ holder' = "none"
  /\ wake' = now
  /\ hookLast' = Never /\ answered' = FALSE /\ calls' = <<>>
  /\ UNCHANGED <<now, providerVars, visible, sendable, begun>>

Next ==
  \/ Tick \/ MediaChange
  \/ \E w \in {"loop", "manual"} : Begin(w)
  \/ LoopSkips
  \/ HookSucceeds \/ HookError \/ HookTimeout
  \/ Scan \/ ScanFails \/ Restart

\* Time passes and timers fire; the provider owes no answer.
Spec ==
  /\ Init /\ [][Next]_vars
  /\ WF_vars(Tick) /\ WF_vars(HookTimeout) /\ WF_vars(Scan)

-----------------------------------------------------------------------------
(* Properties.                                                             *)

\* A provider is not called more often than the cooldown allows, by whatever
\* mixture of scheduled and manual refreshes, failed and slow calls, as long as
\* the process lives.
CallsSpaced ==
  \A j, k \in DOMAIN calls : j < k => calls[k] - calls[j] >= Cooldown

\* "can ask an upstream provider to update its own index before scanning": what
\* a scan publishes leaves out nothing that is older than the cooldown, whether
\* this refresh called the hook or relied on an earlier call that succeeded.
ScanIsCurrent ==
  [][Scan /\ answered /\ changedAt + Cooldown <= begun => visible' = media]_vars

\* A provider that does not answer holds up a refresh, and the lock, for no
\* longer than the timeout.
HookNeverBlocks == pc = "hook" ~> pc # "hook"
=============================================================================
