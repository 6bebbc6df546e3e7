---------------------------- MODULE NativeHandle ----------------------------
(***************************************************************************)
(* The Go Pipeline (go/c12n_cgo.go) over the C library (core/src/ffi.rs):  *)
(* goroutines that share one handle, its mutex, and what the library has   *)
(* allocated for it: the boxed pipeline and the result strings.            *)
(*                                                                         *)
(* A thread takes one step per lock, native call and release; the deferred *)
(* calls of Evaluate run in the order Go runs them, last deferred first.   *)
(***************************************************************************)
EXTENDS Naturals, FiniteSets

CONSTANTS Threads

VARIABLES
    mu,         \* Pipeline.mu: the thread that holds it, or Nobody
    closed,     \* Pipeline.closed
    boxed,      \* the FfiPipeline behind ptr: "live" or "freed"
    pc,         \* Threads -> where the thread is
    call,       \* Threads -> the method it is in
    result,     \* Threads -> its result string: "none", "live" or "freed"
    copied,     \* Threads -> whether the string was copied to Go memory
    answer      \* Threads -> what the last call answered
vars == <<mu, closed, boxed, pc, call, result, copied, answer>>

Nobody == "nobody"
ASSUME NobodyAssumption == Nobody \notin Threads

Init ==
    /\ mu = Nobody
    /\ closed = FALSE
    /\ boxed = "live"
    /\ pc = [t \in Threads |-> "idle"]
    /\ call = [t \in Threads |-> "none"]
    /\ result = [t \in Threads |-> "none"]
    /\ copied = [t \in Threads |-> FALSE]
    /\ answer = [t \in Threads |-> "none"]

Goto(t, from, to) == pc[t] = from /\ pc' = [pc EXCEPT ![t] = to]

Call(t) ==
    /\ Goto(t, "idle", "locking")
    /\ \E c \in {"evaluate", "close"} : call' = [call EXCEPT ![t] = c]
    /\ result' = [result EXCEPT ![t] = "none"]
    /\ copied' = [copied EXCEPT ![t] = FALSE]
    /\ answer' = [answer EXCEPT ![t] = "none"]
    /\ UNCHANGED <<mu, closed, boxed>>

\* Mutant: the mutex is not waited for.
LockWithoutWaiting(t) ==
    /\ Goto(t, "locking", "locked")
    /\ mu' = t
    /\ UNCHANGED <<closed, boxed, call, result, copied, answer>>

Lock(t) ==
    /\ Goto(t, "locking", "locked")
    /\ mu = Nobody
    /\ mu' = t
    /\ UNCHANGED <<closed, boxed, call, result, copied, answer>>

-----------------------------------------------------------------------------
(* Evaluate *)

\* The handle is closed, or the context cannot be marshalled.
Refuse(t) ==
    /\ call[t] = "evaluate"
    /\ Goto(t, "locked", "unlocking")
    /\ \E a \in IF closed THEN {"closed"} ELSE {"failed"} : answer' = [answer EXCEPT ![t] = a]
    /\ UNCHANGED <<mu, closed, boxed, call, result, copied>>

\* Mutant: the closed flag is not looked at.
EnterNativeUnchecked(t) ==
    /\ call[t] = "evaluate"
    /\ Goto(t, "locked", "native")
    /\ UNCHANGED <<mu, closed, boxed, call, result, copied, answer>>

\* c12n_pipeline_evaluate begins: it uses the box until it returns.
EnterNative(t) ==
    /\ call[t] = "evaluate"
    /\ ~closed
    /\ Goto(t, "locked", "native")
    /\ UNCHANGED <<mu, closed, boxed, call, result, copied, answer>>

\* It returns a new string, a result or an error envelope, or null.
LeaveNative(t) ==
    /\ \/ /\ Goto(t, "native", "copying")
          /\ result' = [result EXCEPT ![t] = "live"]
          /\ UNCHANGED answer
       \/ /\ Goto(t, "native", "unlocking")
          /\ answer' = [answer EXCEPT ![t] = "failed"]
          /\ UNCHANGED result
    /\ UNCHANGED <<mu, closed, boxed, call, copied>>

\* C.GoString, the return value, is evaluated before the deferred calls.
Copy(t) ==
    /\ Goto(t, "copying", "freeing")
    /\ copied' = [copied EXCEPT ![t] = result[t] = "live"]
    /\ answer' = [answer EXCEPT ![t] = "json"]
    /\ UNCHANGED <<mu, closed, boxed, call, result>>

\* Mutant: the string is not freed.
FreeResultNever(t) ==
    /\ Goto(t, "freeing", "unlocking")
    /\ UNCHANGED <<mu, closed, boxed, call, result, copied, answer>>

\* The deferred c12n_result_free.
FreeResult(t) ==
    /\ Goto(t, "freeing", "unlocking")
    /\ result' = [result EXCEPT ![t] = "freed"]
    /\ UNCHANGED <<mu, closed, boxed, call, copied, answer>>

-----------------------------------------------------------------------------
(* Close *)

\* A second Close.
CloseAgain(t) ==
    /\ call[t] = "close"
    /\ closed
    /\ Goto(t, "locked", "unlocking")
    /\ answer' = [answer EXCEPT ![t] = "done"]
    /\ UNCHANGED <<mu, closed, boxed, call, result, copied>>

\* The first Close: closed is set before the box is freed.
SetClosed(t) ==
    /\ call[t] = "close"
    /\ ~closed
    /\ Goto(t, "locked", "free")
    /\ closed' = TRUE
    /\ UNCHANGED <<mu, boxed, call, result, copied, answer>>

\* c12n_pipeline_free.
FreeBox(t) ==
    /\ Goto(t, "free", "unlocking")
    /\ boxed' = "freed"
    /\ answer' = [answer EXCEPT ![t] = "done"]
    /\ UNCHANGED <<mu, closed, call, result, copied>>

\* The deferred Unlock, and the return.
Unlock(t) ==
    /\ Goto(t, "unlocking", "idle")
    /\ mu' = Nobody
    /\ call' = [call EXCEPT ![t] = "none"]
    /\ UNCHANGED <<closed, boxed, result, copied, answer>>

Step(t) ==
    \/ Lock(t) \/ Refuse(t) \/ EnterNative(t) \/ LeaveNative(t) \/ Copy(t) \/ FreeResult(t)
    \/ CloseAgain(t) \/ SetClosed(t) \/ FreeBox(t) \/ Unlock(t)

Next == \E t \in Threads : Call(t) \/ Step(t)

\* A goroutine that can run does, native calls return, and sync.Mutex starves nobody.
Spec == Init /\ [][Next]_vars /\ \A t \in Threads : WF_vars(Step(t)) /\ SF_vars(Lock(t))

-----------------------------------------------------------------------------
(* Properties *)

\* The state is of its types, and a thread between its Lock and its Unlock is the
\* one that holds the mutex.
TypeOK ==
    /\ mu \in Threads \cup {Nobody}
    /\ closed \in BOOLEAN
    /\ boxed \in {"live", "freed"}
    /\ \A t \in Threads :
        /\ pc[t] \in {"idle", "locking", "locked", "native", "copying", "freeing", "free", "unlocking"}
        /\ call[t] \in {"none", "evaluate", "close"}
        /\ result[t] \in {"none", "live", "freed"}
        /\ mu = t <=> pc[t] \notin {"idle", "locking"}

\* The library never runs on a freed pipeline, whichever goroutines close it meanwhile.
NoUseAfterFree == \A t \in Threads : pc[t] = "native" => boxed = "live"

\* However often and from wherever Close is called, the pipeline is freed once.
NoDoubleFree == [][\A t \in Threads : FreeBox(t) => boxed = "live"]_vars

\* A call that has returned left no string behind, and what it answered was copied
\* while the string was there.
StringsAreReturned ==
    \A t \in Threads :
        /\ pc[t] = "idle" => result[t] # "live"
        /\ answer[t] = "json" => copied[t]

\* The handle is one whose calls take effect one at a time and end, and that Close
\* ends for good: of the two writes of Close it is the freeing that takes effect.
Contract == INSTANCE HandleContract WITH open <- boxed = "live"
ImplementsContract == Contract!Spec
=============================================================================
