-------------------------- MODULE EvaluateContract --------------------------
(***************************************************************************)
(* What Pipeline::evaluate promises its callers (core/src/pipeline.rs,     *)
(* core/README.md): every registered signal is evaluated at most once per  *)
(* call, at most Limit signals are inside their evaluate at any time over  *)
(* all calls of the pipeline, and a call answers only when every signal is *)
(* accounted for.  How the limit is kept, and in which order, is left open.*)
(***************************************************************************)
EXTENDS Integers, FiniteSets

CONSTANTS
    Calls,
    MaxSignals,
    Limit

VARIABLES
    size,               \* registered signals
    phase,              \* of each call
    progress            \* of each signal in each call

vars == <<size, phase, progress>>

Signals == 1..MaxSignals
Tasks == Calls \X Signals

Phases == {"idle", "open", "returned", "dropped"}

Active == {t \in Tasks : progress[t] = "active"}

Init ==
    /\ size = 0
    /\ phase = [c \in Calls |-> "idle"]
    /\ progress = [t \in Tasks |-> "waiting"]

Register ==
    /\ \A c \in Calls : phase[c] # "open"
    /\ size < MaxSignals
    /\ size' = size + 1
    /\ UNCHANGED <<phase, progress>>

\* A call on a pipeline without signals is answered at once.
Open(c) ==
    /\ phase[c] = "idle"
    /\ phase' = [phase EXCEPT ![c] = IF size = 0 THEN "returned" ELSE "open"]
    /\ UNCHANGED <<size, progress>>

Answer(c) ==
    /\ phase[c] = "open"
    /\ \A i \in 1..size : progress[<<c, i>>] = "reported"
    /\ phase' = [phase EXCEPT ![c] = "returned"]
    /\ UNCHANGED <<size, progress>>

Abandon(c) ==
    /\ phase[c] = "open"
    /\ phase' = [phase EXCEPT ![c] = "dropped"]
    /\ UNCHANGED <<size, progress>>

Begin(t) ==
    /\ phase[t[1]] \in {"open", "dropped"}
    /\ progress[t] = "waiting"
    /\ Cardinality(Active) < Limit
    /\ progress' = [progress EXCEPT ![t] = "active"]
    /\ UNCHANGED <<size, phase>>

End(t) ==
    /\ progress[t] = "active"
    /\ progress' = [progress EXCEPT ![t] = "over"]
    /\ UNCHANGED <<size, phase>>

\* A signal of an abandoned call need never begin.
Discard(t) ==
    /\ phase[t[1]] = "dropped"
    /\ progress[t] = "waiting"
    /\ progress' = [progress EXCEPT ![t] = "over"]
    /\ UNCHANGED <<size, phase>>

Report(t) ==
    /\ phase[t[1]] = "open"
    /\ progress[t] = "over"
    /\ progress' = [progress EXCEPT ![t] = "reported"]
    /\ UNCHANGED <<size, phase>>

Next ==
    \/ Register
    \/ \E c \in Calls : Open(c) \/ Answer(c) \/ Abandon(c)
    \/ \E t \in Tasks : Begin(t) \/ End(t) \/ Discard(t) \/ Report(t)

Spec == Init /\ [][Next]_vars
=============================================================================
