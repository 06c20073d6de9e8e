-------------------------- MODULE RefreshHookProofs --------------------------
(* Theorems about RefreshHook, for any times and bounds.                      *)
EXTENDS RefreshHook, SequenceTheorems, TLAPS

(***************************************************************************)
(* CallsSpaced is not inductive: nothing in it keeps the next call away    *)
(* from the last.  That is what hookLast is for, which no call is later    *)
(* than, also when the last due call could not be sent.                    *)
(***************************************************************************)
CallTimes ==
  /\ now \in Times
  /\ calls \in Seq(Times)
  /\ hookLast \in Times \cup {Never}
  /\ hookLast # Never => hookLast <= now
  /\ \A k \in DOMAIN calls : hookLast # Never /\ calls[k] <= hookLast

HookInv == CallTimes /\ CallsSpaced

\* The initial states satisfy the invariant.
LEMMA HookInitially == Init => HookInv
  BY BoundsAssumption DEF Init, HookInv, CallTimes, CallsSpaced, Times

\* Steps that neither call nor restart.
LEMMA NoCall ==
  ASSUME HookInv, UNCHANGED <<calls, hookLast>>, now' \in Times, now' >= now
  PROVE  HookInv'
  BY TimesAssumption, BoundsAssumption DEF HookInv, CallTimes, CallsSpaced, Times

\* A refresh that is due comes Cooldown after every call so far.
LEMMA CallKeeps ==
  ASSUME HookInv, Due, now' = now, hookLast' = now, calls' \in {calls, Append(calls, now)}
  PROVE  HookInv'
<1> USE TimesAssumption, BoundsAssumption DEF Times
<1>1. \A k \in DOMAIN calls : now - calls[k] >= Cooldown /\ calls[k] \in Times
  <2> TAKE k \in DOMAIN calls
  <2>1. calls[k] \in Times /\ calls[k] <= hookLast /\ hookLast \in Times
    BY DEF HookInv, CallTimes
  <2>2. now - hookLast >= Cooldown /\ now \in Times
    BY <2>1 DEF Due, HookInv, CallTimes
  <2> QED
    BY <2>1, <2>2
<1>2. CASE calls' = calls
  BY <1>1, <1>2 DEF HookInv, CallTimes, CallsSpaced
<1>3. CASE calls' = Append(calls, now)
  <2>1. now \in Times /\ calls \in Seq(Times)
    BY DEF HookInv, CallTimes
  <2>2. /\ calls' \in Seq(Times) /\ DOMAIN calls' = 1..(Len(calls) + 1)
        /\ DOMAIN calls = 1..Len(calls) /\ Len(calls) \in Nat
        /\ \A k \in 1..Len(calls) : calls'[k] = calls[k]
        /\ calls'[Len(calls) + 1] = now
    BY <1>3, <2>1
  <2>3. CallTimes'
    BY <1>1, <2>1, <2>2 DEF CallTimes
  <2>4. CallsSpaced'
    BY <1>1, <2>2 DEF CallsSpaced, HookInv
  <2> QED
    BY <2>3, <2>4 DEF HookInv
<1> QED
  BY <1>2, <1>3

\* Every step keeps the invariant.
LEMMA HookNext == HookInv /\ [Next]_vars => HookInv'
<1> SUFFICES ASSUME HookInv, [Next]_vars PROVE HookInv'
  OBVIOUS
<1> USE TimesAssumption, BoundsAssumption
<1>0. now \in Nat /\ now \in Times
  BY DEF HookInv, CallTimes, Times
<1>1. CASE UNCHANGED vars
  BY <1>0, <1>1, NoCall DEF vars, hookVars
<1>2. CASE Tick
  BY <1>0, <1>2, NoCall DEF Tick, hookVars, Times
<1>3. CASE MediaChange \/ LoopSkips \/ HookSucceeds \/ Scan \/ ScanFails
  BY <1>0, <1>3, NoCall
  DEF MediaChange, LoopSkips, HookSucceeds, Scan, ScanFails, hookVars
<1>4. ASSUME NEW w \in {"loop", "manual"}, Begin(w)
      PROVE  HookInv'
  <2>1. CASE Due
    BY <1>4, <2>1, CallKeeps DEF Begin, hookVars
  <2>2. CASE ~Due
    BY <1>0, <1>4, <2>2, NoCall DEF Begin, hookVars
  <2> QED
    BY <2>1, <2>2
<1>5. CASE HookError \/ HookTimeout
  BY <1>0, <1>5, NoCall DEF HookError, HookTimeout, HookFailed, LastKept
<1>6. CASE Restart
  BY <1>0, <1>6 DEF Restart, HookInv, CallTimes, CallsSpaced
<1> QED
  BY <1>1, <1>2, <1>3, <1>4, <1>5, <1>6 DEF Next

\* Types: those of the lock and the clocks hang together, the rest is as it looks.
LEMMA HookTypeNext == TypeOK /\ [Next]_vars => TypeOK'
<1> SUFFICES ASSUME TypeOK, [Next]_vars PROVE TypeOK'
  OBVIOUS
<1> USE TimesAssumption, BoundsAssumption DEF TypeOK, Times
<1>1. CASE UNCHANGED vars
  BY <1>1 DEF vars, hookVars, providerVars
<1>2. CASE Tick
  BY <1>2 DEF Tick, hookVars, providerVars
<1>3. CASE MediaChange
  BY <1>3 DEF MediaChange, hookVars
<1>4. ASSUME NEW w \in {"loop", "manual"}, Begin(w)
      PROVE  TypeOK'
  <2>1. Append(calls, now) \in Seq(Times)
    BY DEF Times
  <2> QED
    BY <1>4, <2>1 DEF Begin, hookVars, providerVars
<1>5. CASE LoopSkips
  BY <1>5 DEF LoopSkips, hookVars, providerVars
<1>6. CASE HookSucceeds
  BY <1>6 DEF HookSucceeds
<1>7. CASE HookError \/ HookTimeout
  <2>1. HookFailed
    BY <1>7 DEF HookError, HookTimeout
  <2>2. indexed' \in 0..media /\ hookLast' = hookLast /\ answered' = FALSE /\ pc' = "scan"
    BY <2>1 DEF HookFailed, LastKept
  <2> QED
    BY <2>1, <2>2 DEF HookFailed
<1>8. CASE Scan \/ ScanFails
  <2>1. pc' = "idle" /\ holder' = "none" /\ wake' \in 0..(MaxTime + Interval)
    BY <1>8 DEF Scan, ScanFails, End
  <2>2. visible' \in 0..media /\ faults' \in 0..MaxFaults
    BY <1>8 DEF Scan, ScanFails, Fault
  <2>3. UNCHANGED <<now, providerVars, sendable, begun, hookVars>>
    BY <1>8 DEF Scan, ScanFails
  <2> QED
    BY <2>1, <2>2, <2>3 DEF hookVars, providerVars
<1>9. CASE Restart
  <2>1. hookLast' \in Times \cup {Never} /\ answered' \in BOOLEAN /\ calls' \in Seq(Times)
    <3>1. hookLast' = Never /\ calls' = <<>>
      BY <1>9 DEF Restart
    <3>2. answered' \in BOOLEAN
      BY <1>9, Zenon DEF Restart
    <3>3. <<>> \in Seq(Times)
      OBVIOUS
    <3> QED
      BY <3>1, <3>2, <3>3, Zenon
  <2>2. wake' \in 0..(MaxTime + Interval) /\ faults' \in 0..MaxFaults
    BY <1>9 DEF Restart, Fault
  <2>3. pc' = "idle" /\ holder' = "none"
        /\ UNCHANGED <<now, providerVars, visible, sendable, begun>>
    BY <1>9 DEF Restart
  <2> QED
    BY <2>1, <2>2, <2>3 DEF providerVars
<1> QED
  BY <1>1, <1>2, <1>3, <1>4, <1>5, <1>6, <1>7, <1>8, <1>9 DEF Next

-----------------------------------------------------------------------------
\* All variables keep their types, and the lock is held exactly while a refresh
\* is somewhere, for any times and bounds.
THEOREM HookTypeCorrect == Spec => []TypeOK
<1>1. Init => TypeOK
  <2> SUFFICES ASSUME Init PROVE TypeOK
    OBVIOUS
  <2> USE TimesAssumption, BoundsAssumption DEF Init
  <2>1. calls \in Seq(Times) /\ answered \in BOOLEAN /\ sendable \in BOOLEAN
    <3>1. <<>> \in Seq(Times)
      OBVIOUS
    <3> QED
      BY <3>1, Zenon
  <2>2. now \in Times /\ wake \in 0..(MaxTime + Interval)
    BY DEF Times
  <2> QED
    BY <2>1, <2>2 DEF TypeOK, Times
<1> QED
  BY <1>1, HookTypeNext, PTL DEF Spec

\* For any interval, cooldown and timeout the provider is called at most once per
\* cooldown as long as the process lives.
THEOREM CallsAreSpaced == Spec => []CallsSpaced
<1>1. HookInv => CallsSpaced
  BY DEF HookInv
<1> QED
  BY <1>1, HookInitially, HookNext, PTL DEF Spec

-----------------------------------------------------------------------------
(***************************************************************************)
(* What the answer of an earlier call is worth.  A refresh under way knows *)
(* of a call less than a cooldown before it began; once that was answered, *)
(* upstream lists what the provider has, or the provider has changed since.*)
(***************************************************************************)
CallBefore ==
  /\ pc = "hook" => hookLast = begun
  /\ pc = "scan" => /\ hookLast # Never
                    /\ hookLast <= begun /\ begun < hookLast + Cooldown

AnswerHolds ==
  answered /\ pc # "hook" =>
    hookLast # Never /\ (indexed = media \/ hookLast <= changedAt)

CurrentInv == TypeOK /\ HookInv /\ CallBefore /\ AnswerHolds

LEMMA CurrentBegin ==
  ASSUME CurrentInv, NEW w \in {"loop", "manual"}, Begin(w)
  PROVE  CallBefore' /\ AnswerHolds'
<1> USE TimesAssumption DEF Times
<1>1. now \in Nat /\ (hookLast # Never => hookLast \in Nat /\ hookLast <= now)
  BY BoundsAssumption DEF CurrentInv, HookInv, CallTimes
<1>2. begun' = now /\ pc = "idle" /\ UNCHANGED <<now, media, changedAt, indexed>>
  BY DEF Begin, providerVars
<1>3. CASE Due
  <2>1. hookLast' = now
    BY <1>3 DEF Begin
  <2>2. pc' = "hook" \/ (pc' = "scan" /\ answered' = FALSE)
    BY <1>3 DEF Begin
  <2> QED
    BY <1>1, <1>2, <2>1, <2>2 DEF CallBefore, AnswerHolds
<1>4. CASE ~Due
  <2>1. pc' = "scan" /\ UNCHANGED <<hookLast, answered>>
    BY <1>4 DEF Begin, hookVars
  <2>2. hookLast # Never /\ hookLast \in Nat /\ hookLast <= now
        /\ now < hookLast + Cooldown
    BY <1>1, <1>4 DEF Due
  <2>3. CallBefore'
    BY <1>2, <2>1, <2>2 DEF CallBefore
  <2>4. AnswerHolds'
    BY <1>2, <2>1, <2>2 DEF AnswerHolds, CurrentInv
  <2> QED
    BY <2>3, <2>4
<1> QED
  BY <1>3, <1>4

LEMMA CurrentNext == CurrentInv /\ [Next]_vars => CurrentInv'
<1> SUFFICES ASSUME CurrentInv, [Next]_vars
             PROVE  CallBefore' /\ AnswerHolds'
  BY HookNext, HookTypeNext DEF CurrentInv
<1>1. now \in Nat /\ (hookLast # Never => hookLast \in Nat /\ hookLast <= now)
  BY BoundsAssumption DEF CurrentInv, HookInv, CallTimes, Times
<1>2. CASE UNCHANGED <<pc, begun, hookLast, answered, indexed, media, changedAt>>
  BY <1>2 DEF CurrentInv, CallBefore, AnswerHolds
<1>3. CASE UNCHANGED vars \/ Tick \/ LoopSkips
  BY <1>2, <1>3 DEF vars, providerVars, hookVars, Tick, LoopSkips
<1>4. CASE MediaChange
  BY <1>1, <1>4 DEF MediaChange, hookVars, CurrentInv, CallBefore, AnswerHolds
<1>5. CASE HookSucceeds \/ HookError \/ HookTimeout
  <2>1. /\ pc = "hook" /\ pc' = "scan"
        /\ UNCHANGED <<begun, hookLast, media>>
        /\ answered' = FALSE \/ indexed' = media
    BY <1>5 DEF HookSucceeds, HookError, HookTimeout, HookFailed, LastKept
  <2>2. begun \in Nat /\ begun = hookLast /\ hookLast # Never
    BY <2>1, TimesAssumption, BoundsAssumption DEF CurrentInv, CallBefore, TypeOK, Times
  <2>3. CallBefore'
    BY <2>1, <2>2, TimesAssumption DEF CallBefore
  <2> QED
    BY <2>1, <2>2, <2>3 DEF AnswerHolds
<1>6. CASE Scan \/ ScanFails
  <2>1. /\ pc = "scan" /\ pc' = "idle"
        /\ UNCHANGED <<begun, hookLast, answered, media, changedAt, indexed>>
    BY <1>6 DEF Scan, ScanFails, End, hookVars, providerVars
  <2> QED
    BY <2>1 DEF CurrentInv, CallBefore, AnswerHolds
<1>7. CASE Restart
  <2>1. pc' = "idle" /\ answered' = FALSE
    BY <1>7 DEF Restart
  <2> QED
    BY <2>1 DEF CallBefore, AnswerHolds
<1> QED
  BY <1>3, <1>4, <1>5, <1>6, <1>7, CurrentBegin DEF Next

\* A refresh that relies on a call, its own or an earlier one, publishes all that
\* is older than the cooldown, for any times.
THEOREM ScansAreCurrent == Spec => ScanIsCurrent
<1>1. Init => CallBefore /\ AnswerHolds
  <2> SUFFICES ASSUME Init PROVE CallBefore /\ AnswerHolds
    OBVIOUS
  <2>1. pc = "idle" /\ answered = FALSE
    BY Zenon DEF Init
  <2> QED
    BY <2>1 DEF CallBefore, AnswerHolds
<1>2. CurrentInv =>
        (Scan /\ answered /\ changedAt + Cooldown <= begun => visible' = media)
  <2> SUFFICES ASSUME CurrentInv, Scan, answered, changedAt + Cooldown <= begun
               PROVE  indexed = media
    BY DEF Scan
  <2>1. pc = "scan"
    BY DEF Scan
  <2>2. begun \in Nat /\ changedAt \in Nat /\ hookLast \in Nat
    BY <2>1, BoundsAssumption DEF CurrentInv, CallBefore, TypeOK, Times
  <2>3. begun < hookLast + Cooldown
    BY <2>1 DEF CurrentInv, CallBefore
  <2>4. ~(hookLast <= changedAt)
    BY <2>2, <2>3, TimesAssumption
  <2> QED
    BY <2>1, <2>4 DEF CurrentInv, AnswerHolds
<1>3. Init => HookInv
  BY HookInitially
<1>4. Spec => []CurrentInv
  <2>1. Spec => []TypeOK
    BY HookTypeCorrect
  <2>2. Spec => []HookInv
    BY <1>3, HookNext, PTL DEF Spec
  <2>3. TypeOK /\ HookInv /\ CallBefore /\ AnswerHolds /\ [Next]_vars
        => (CallBefore /\ AnswerHolds)'
    BY CurrentNext DEF CurrentInv
  <2>4. Spec => [](TypeOK /\ HookInv /\ CallBefore /\ AnswerHolds)
    BY <1>1, <2>1, <2>2, <2>3, PTL DEF Spec
  <2> QED
    BY <2>4, PTL DEF CurrentInv
<1> QED
  BY <1>2, <1>4, PTL DEF Spec, ScanIsCurrent
=============================================================================
