-------------------------- MODULE TimeoutContract --------------------------
(***************************************************************************)
(* What rt::timeout(duration, future) promises on every target             *)
(* (core/src/rt.rs): it resolves to the future's output if the future      *)
(* finishes first and to Elapsed otherwise, not before the duration has    *)
(* passed; and it does resolve, unless it is dropped.                      *)
(***************************************************************************)

VARIABLES
    status,     \* "waiting", "ok", "elapsed", "dropped"
    ready,      \* the inner future has finished
    due         \* the duration has passed

vars == <<status, ready, due>>

\* A duration of zero has passed at once.
Init == status = "waiting" /\ ready = FALSE /\ due \in BOOLEAN

InnerFinishes == ~ready /\ ready' = TRUE /\ UNCHANGED <<status, due>>

DurationPasses ==
    /\ status = "waiting"
    /\ ~due
    /\ due' = TRUE
    /\ UNCHANGED <<status, ready>>

ResolveOk == status = "waiting" /\ ready /\ status' = "ok" /\ UNCHANGED <<ready, due>>

ResolveElapsed ==
    /\ status = "waiting"
    /\ due
    /\ ~ready
    /\ status' = "elapsed"
    /\ UNCHANGED <<ready, due>>

Drop == status = "waiting" /\ status' = "dropped" /\ UNCHANGED <<ready, due>>

Next == InnerFinishes \/ DurationPasses \/ ResolveOk \/ ResolveElapsed \/ Drop

Spec ==
    /\ Init
    /\ [][Next]_vars
    /\ WF_vars(DurationPasses)
    /\ WF_vars(ResolveOk \/ ResolveElapsed)
=============================================================================
