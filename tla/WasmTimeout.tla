---------------------------- MODULE WasmTimeout ----------------------------
(***************************************************************************)
(* rt::timeout on wasm32 (core/src/rt.rs): a future races its inner future *)
(* against a Sleep, a hand-written future on the host's setTimeout.  The   *)
(* host is single-threaded: a poll, a timer callback, a completion of the  *)
(* inner future and a drop are each atomic, in any order; the host may run *)
(* a callback late and a poll may come for another reason (a spurious      *)
(* wake).  Time is counted in milliseconds since the first poll.           *)
(***************************************************************************)
EXTENDS Integers

CONSTANTS
    Durations,          \* what timeout is called with, in milliseconds
    DelayRange,         \* how many delays the host's integers tell apart (2^32)
    MaxWait             \* bound on the time a waiting future lives

ASSUME DurationsAssumption == Durations \subseteq Nat
ASSUME DelayRangeAssumption == DelayRange \in Nat \ {0}
ASSUME MaxWaitAssumption == MaxWait \in Nat

VARIABLES
    duration,
    task,               \* the future: "ready" to be polled, "parked", "done", "dropped"
    inner,              \* the inner future: "pending", "finished"
    sleep,              \* the Sleep: "none" before the first poll, "alive", "dropped"
    fired, waker,       \* Shared: has the timer fired, is a waker registered
    timer,              \* the host's pending timer: when it is due, or NoTimer
    elapsed,            \* milliseconds since the first poll
    outcome

vars == <<duration, task, inner, sleep, fired, waker, timer, elapsed, outcome>>

NoTimer == -1

Init ==
    /\ duration \in Durations
    /\ task = "ready"
    /\ inner = "pending"
    /\ sleep = "none"
    /\ fired = FALSE
    /\ waker = FALSE
    /\ timer = NoTimer
    /\ elapsed = 0
    /\ outcome = "none"

\* The delay sleep asks for: duration, saturated at u32::MAX.
Saturated(ms) == IF ms >= DelayRange THEN DelayRange - 1 ELSE ms

\* The host takes the delay for a signed integer of the same width and fires at
\* once when that is negative.
HostDelay(ms) == IF 2 * ms >= DelayRange THEN 0 ELSE ms

\* The inner future is polled first; the Sleep goes and takes its timer along.
PollOk ==
    /\ task = "ready"
    /\ inner = "finished"
    /\ task' = "done"
    /\ outcome' = "ok"
    /\ sleep' = "dropped"
    /\ timer' = NoTimer
    /\ UNCHANGED <<duration, inner, fired, waker, elapsed>>

\* Mutant: the Sleep is polled before the inner future.
PollElapsedFirst ==
    /\ task = "ready"
    /\ fired
    /\ task' = "done"
    /\ outcome' = "elapsed"
    /\ sleep' = "dropped"
    /\ UNCHANGED <<duration, inner, fired, waker, timer, elapsed>>

PollElapsed ==
    /\ task = "ready"
    /\ inner = "pending"
    /\ fired
    /\ task' = "done"
    /\ outcome' = "elapsed"
    /\ sleep' = "dropped"
    /\ UNCHANGED <<duration, inner, fired, waker, timer, elapsed>>

\* The first poll creates the Sleep, which sets the host's timer.
Arm ==
    \/ /\ sleep = "none"
       /\ sleep' = "alive"
       /\ timer' = HostDelay(Saturated(duration))
    \/ /\ sleep = "alive"
       /\ UNCHANGED <<sleep, timer>>

\* Mutant: the waker is registered by the first poll alone.
PollPendingOnce ==
    /\ task = "ready"
    /\ inner = "pending"
    /\ ~fired
    /\ Arm
    /\ waker' = (sleep = "none")
    /\ task' = "parked"
    /\ UNCHANGED <<duration, inner, fired, elapsed, outcome>>

PollPending ==
    /\ task = "ready"
    /\ inner = "pending"
    /\ ~fired
    /\ Arm
    /\ waker' = TRUE
    /\ task' = "parked"
    /\ UNCHANGED <<duration, inner, fired, elapsed, outcome>>

Woken == IF task = "parked" THEN "ready" ELSE task

\* The timer's callback.
Fire ==
    /\ timer # NoTimer
    /\ elapsed >= timer
    /\ timer' = NoTimer
    /\ fired' = TRUE
    /\ waker' = FALSE
    /\ task' = IF waker THEN Woken ELSE task
    /\ UNCHANGED <<duration, inner, sleep, elapsed, outcome>>

\* The inner future finishes and wakes the task that polled it.
InnerFinishes ==
    /\ inner = "pending"
    /\ inner' = "finished"
    /\ task' = Woken
    /\ UNCHANGED <<duration, sleep, fired, waker, timer, elapsed, outcome>>

SpuriousWake ==
    /\ task = "parked"
    /\ task' = "ready"
    /\ UNCHANGED <<duration, inner, sleep, fired, waker, timer, elapsed, outcome>>

\* Mutant: Sleep has no Drop.
DropLeavingTimer ==
    /\ task \in {"ready", "parked"}
    /\ task' = "dropped"
    /\ sleep' = "dropped"
    /\ UNCHANGED <<duration, inner, fired, waker, timer, elapsed, outcome>>

\* The caller drops the future; Sleep::drop clears a pending timer.
DropFuture ==
    /\ task \in {"ready", "parked"}
    /\ task' = "dropped"
    /\ sleep' = "dropped"
    /\ timer' = NoTimer
    /\ UNCHANGED <<duration, inner, fired, waker, elapsed, outcome>>

Tick ==
    /\ sleep = "alive"
    /\ elapsed < MaxWait
    /\ elapsed' = elapsed + 1
    /\ UNCHANGED <<duration, task, inner, sleep, fired, waker, timer, outcome>>

Poll == PollOk \/ PollElapsed \/ PollPending

Next ==
    \/ Poll \/ Fire \/ Tick
    \/ InnerFinishes \/ SpuriousWake \/ DropFuture

\* The host's event loop polls woken tasks and runs due timers; time passes.
Fairness == WF_vars(Tick) /\ WF_vars(Fire) /\ WF_vars(Poll)

Spec == Init /\ [][Next]_vars /\ Fairness

-----------------------------------------------------------------------------
(* Properties. *)

TypeOK ==
    /\ duration \in Durations
    /\ task \in {"ready", "parked", "done", "dropped"}
    /\ inner \in {"pending", "finished"}
    /\ sleep \in {"none", "alive", "dropped"}
    /\ fired \in BOOLEAN
    /\ waker \in BOOLEAN
    /\ timer \in {NoTimer} \cup 0..(DelayRange - 1)
    /\ elapsed \in 0..MaxWait
    /\ outcome \in {"none", "ok", "elapsed"}
    /\ outcome # "none" <=> task = "done"

\* No timeout before its time: Elapsed is reported only once the duration has
\* passed, whatever polls, wakes and callbacks happen before.
NeverEarly == outcome = "elapsed" => elapsed >= duration

\* The host never calls into a closure that is gone: a pending timer has a live
\* Sleep, however the race ends or the future is dropped.
NoOrphanTimer == timer # NoTimer => sleep = "alive"

\* A parked future is waiting for something: neither a timer that has fired nor
\* an inner future that has finished is left unnoticed.
NoLostWakeup == task = "parked" => ~fired /\ inner = "pending"

\* "Semantics are identical across targets": the race implements the contract.
Contract ==
    INSTANCE TimeoutContract WITH
        status <- CASE outcome # "none" -> outcome
                    [] task = "dropped" -> "dropped"
                    [] OTHER -> "waiting",
        ready <- inner = "finished",
        due <- elapsed >= duration

ImplementsContract == Contract!Spec
=============================================================================
