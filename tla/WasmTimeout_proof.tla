------------------------- MODULE WasmTimeout_proof -------------------------
(***************************************************************************)
(* Proofs about WasmTimeout: the race never loses a wakeup and never       *)
(* leaves a timer behind; when the host's timers can hold the durations,   *)
(* it is never early, and its steps are those of TimeoutContract.          *)
(***************************************************************************)
EXTENDS WasmTimeout, TLAPS

\* The host's timers can hold every duration, as MCWasmTimeout.cfg has it: setTimeout
\* takes longer ones for negative and fires at once.
DurationsFit == \A ms \in Durations : 2 * ms < DelayRange

\* A parked future has its timer pending, its waker registered, and nothing to
\* be polled for.  This is inductive only together with who owns the timer.
Parked == task = "parked" => sleep = "alive" /\ inner = "pending" /\ ~fired /\ waker

\* A live Sleep has a timer pending until it fires, and no other Sleep has.
TimerOwned ==
    /\ timer # NoTimer => sleep = "alive" /\ ~fired
    /\ sleep = "alive" /\ ~fired => timer # NoTimer
    /\ fired => sleep # "none"

\* A future that has ended has no Sleep.
Ended == sleep = "dropped" <=> task \in {"done", "dropped"}

WakeInv == TypeOK /\ Parked /\ TimerOwned /\ Ended

-----------------------------------------------------------------------------
(* Wakeups and timers, for every duration and every host. *)

\* What the host's timer is set to is a delay, never NoTimer.
LEMMA DelayInRange ==
    ASSUME NEW ms \in Durations
    PROVE  HostDelay(Saturated(ms)) \in 0..(DelayRange - 1)
BY DurationsAssumption, DelayRangeAssumption DEF HostDelay, Saturated

\* The wake invariant holds initially and is kept by every step.
LEMMA WakeInvInit == Init => WakeInv
<1> SUFFICES ASSUME Init PROVE WakeInv
  OBVIOUS
<1>1. TypeOK
  <2>1. /\ duration \in Durations
        /\ task \in {"ready", "parked", "done", "dropped"}
        /\ inner \in {"pending", "finished"}
        /\ sleep \in {"none", "alive", "dropped"}
        /\ outcome \in {"none", "ok", "elapsed"}
    BY DEF Init
  <2>2. fired \in BOOLEAN /\ waker \in BOOLEAN
    BY DEF Init
  <2>3. elapsed \in 0..MaxWait /\ timer \in {NoTimer} \cup 0..(DelayRange - 1)
    BY MaxWaitAssumption DEF Init
  <2>4. outcome # "none" <=> task = "done"
    BY DEF Init
  <2>5. QED
    BY <2>1, <2>2, <2>3, <2>4 DEF TypeOK
<1>2. Parked /\ TimerOwned /\ Ended
  BY DEF Init, Parked, TimerOwned, Ended
<1>3. QED
  BY <1>1, <1>2 DEF WakeInv

LEMMA WakeInvStep == WakeInv /\ [Next]_vars => WakeInv'
<1> SUFFICES ASSUME WakeInv, [Next]_vars PROVE WakeInv'
  OBVIOUS
<1> USE MaxWaitAssumption, DelayRangeAssumption
    DEF WakeInv, TypeOK, Parked, TimerOwned, Ended, NoTimer
<1>1. CASE PollOk
  BY <1>1 DEF PollOk
<1>2. CASE PollElapsed
  BY <1>2 DEF PollElapsed
<1>3. CASE PollPending
  BY <1>3, DelayInRange DEF PollPending, Arm
<1>4. CASE Fire
  BY <1>4 DEF Fire, Woken
<1>5. CASE Tick
  BY <1>5 DEF Tick
<1>6. CASE InnerFinishes
  BY <1>6 DEF InnerFinishes, Woken
<1>7. CASE SpuriousWake
  BY <1>7 DEF SpuriousWake
<1>8. CASE DropFuture
  BY <1>8 DEF DropFuture
<1>9. CASE UNCHANGED vars
  BY <1>9 DEF vars
<1>10. QED
  BY <1>1, <1>2, <1>3, <1>4, <1>5, <1>6, <1>7, <1>8, <1>9 DEF Next, Poll

THEOREM WakeInvariance == Spec => []WakeInv
BY WakeInvInit, WakeInvStep, PTL DEF Spec

\* No parked future misses its timer or its inner future.
THEOREM NoWakeupLost == Spec => []NoLostWakeup
<1>1. WakeInv => NoLostWakeup
  BY DEF WakeInv, Parked, NoLostWakeup, TypeOK
<1>2. QED
  BY <1>1, WakeInvariance, PTL

\* A pending timer always has the Sleep that owns it.
THEOREM NoTimerOrphaned == Spec => []NoOrphanTimer
<1>1. WakeInv => NoOrphanTimer
  BY DEF WakeInv, TimerOwned, NoOrphanTimer
<1>2. QED
  BY <1>1, WakeInvariance, PTL

-----------------------------------------------------------------------------
(* Timing, when the host's timers can hold the durations. *)

\* The timer is set to the duration, so it fires no earlier.
TimerHonest ==
    /\ timer # NoTimer => timer = duration
    /\ fired => elapsed >= duration
    /\ NeverEarly

TimeInv == WakeInv /\ TimerHonest

LEMMA TimeInvStep ==
    ASSUME DurationsFit, TimeInv, [Next]_vars
    PROVE  TimeInv'
<1>1. WakeInv'
  BY WakeInvStep DEF TimeInv
<1> USE DurationsAssumption, MaxWaitAssumption
    DEF TimeInv, TimerHonest, NeverEarly, WakeInv, TypeOK, NoTimer
<1>2. HostDelay(Saturated(duration)) = duration
  BY DelayRangeAssumption DEF DurationsFit, HostDelay, Saturated
<1>3. CASE PollOk
  BY <1>1, <1>3 DEF PollOk
<1>4. CASE PollElapsed
  BY <1>1, <1>4 DEF PollElapsed
<1>5. CASE PollPending
  BY <1>1, <1>2, <1>5 DEF PollPending, Arm
<1>6. CASE Fire
  BY <1>1, <1>6 DEF Fire
<1>7. CASE Tick
  <2>1. sleep = "alive" /\ outcome = "none"
    BY <1>7 DEF Tick, Ended
  <2>2. QED
    BY <1>1, <1>7, <2>1 DEF Tick
<1>8. CASE InnerFinishes
  BY <1>1, <1>8 DEF InnerFinishes
<1>9. CASE SpuriousWake
  BY <1>1, <1>9 DEF SpuriousWake
<1>10. CASE DropFuture
  BY <1>1, <1>10 DEF DropFuture
<1>11. CASE UNCHANGED vars
  BY <1>1, <1>11 DEF vars
<1>12. QED
  BY <1>3, <1>4, <1>5, <1>6, <1>7, <1>8, <1>9, <1>10, <1>11 DEF Next, Poll

THEOREM TimeInvariance == ASSUME DurationsFit PROVE Spec => []TimeInv
<1>1. Init => TimeInv
  BY WakeInvInit DEF Init, TimeInv, TimerHonest, NeverEarly, NoTimer
<1>2. TimeInv /\ [Next]_vars => TimeInv'
  BY TimeInvStep
<1>3. QED
  BY <1>1, <1>2, PTL DEF Spec

\* Elapsed is never reported before the duration has passed.
THEOREM ElapsedNeverEarly == ASSUME DurationsFit PROVE Spec => []NeverEarly
<1>1. TimeInv => NeverEarly
  BY DEF TimeInv, TimerHonest
<1>2. QED
  BY <1>1, TimeInvariance, PTL
-----------------------------------------------------------------------------
(* Refinement: the steps of the contract. *)

\* The initial states are initial states of the contract.
LEMMA ContractInit == Init => Contract!Init
BY DEF Init, Contract!Init

\* Every step is a step of the contract or leaves its state alone.
LEMMA ContractStep ==
    ASSUME TimeInv, TimeInv', [Next]_vars
    PROVE  [Contract!Next]_Contract!vars
<1> USE DEF Contract!vars
<1> USE DurationsAssumption, MaxWaitAssumption DEF TimeInv, WakeInv, TypeOK, Ended
<1>1. CASE PollOk
  <2>1. Contract!ResolveOk
    BY <1>1 DEF PollOk, Contract!ResolveOk
  <2>2. QED
    BY <2>1 DEF Contract!Next
<1>2. CASE PollElapsed
  <2>1. Contract!ResolveElapsed
    BY <1>2 DEF PollElapsed, TimerHonest, NeverEarly, Contract!ResolveElapsed
  <2>2. QED
    BY <2>1 DEF Contract!Next
<1>3. CASE PollPending
  BY <1>3 DEF PollPending
<1>4. CASE Fire
  BY <1>4 DEF Fire, Woken
<1>5. CASE Tick
  <2>1. CASE elapsed < duration /\ elapsed' >= duration
    <3>1. Contract!DurationPasses
      BY <1>5, <2>1 DEF Tick, Contract!DurationPasses
    <3>2. QED
      BY <3>1 DEF Contract!Next
  <2>2. CASE ~(elapsed < duration /\ elapsed' >= duration)
    BY <1>5, <2>2 DEF Tick
  <2>3. QED
    BY <2>1, <2>2
<1>6. CASE InnerFinishes
  <2>1. Contract!InnerFinishes
    BY <1>6 DEF InnerFinishes, Woken, Contract!InnerFinishes
  <2>2. QED
    BY <2>1 DEF Contract!Next
<1>7. CASE SpuriousWake
  BY <1>7 DEF SpuriousWake
<1>8. CASE DropFuture
  <2>1. Contract!Drop
    BY <1>8 DEF DropFuture, Contract!Drop
  <2>2. QED
    BY <2>1 DEF Contract!Next
<1>9. CASE UNCHANGED vars
  BY <1>9 DEF vars
<1>10. QED
  BY <1>1, <1>2, <1>3, <1>4, <1>5, <1>6, <1>7, <1>8, <1>9 DEF Next, Poll

\* The safety part of ImplementsContract: the race on wasm32 takes the steps the
\* contract of rt::timeout allows, and no others.
THEOREM RefinesContractSafely ==
    ASSUME DurationsFit PROVE Spec => Contract!Init /\ [][Contract!Next]_Contract!vars
<1>1. Init /\ [][Next]_vars /\ []TimeInv => [][Contract!Next]_Contract!vars
  BY ContractStep, PTL
<1>2. QED
  BY <1>1, ContractInit, TimeInvariance, PTL DEF Spec
=============================================================================
