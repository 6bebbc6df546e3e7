--------------------------- MODULE SignalPipeline ---------------------------
(***************************************************************************)
(* core/src/pipeline.rs with the native core/src/rt.rs timeout: concurrent *)
(* calls of Pipeline::evaluate on one Pipeline.  Each call spawns one task *)
(* per registered signal into its own JoinSet; all tasks of all calls wait *)
(* for a permit of the one FIFO semaphore the Pipeline owns, and the       *)
(* timeout of a signal starts only once its task has a permit.  A caller   *)
(* may drop the future it awaits: its JoinSet then aborts the tasks, which *)
(* the runtime destroys one by one, later.                                 *)
(*                                                                         *)
(* A signal is its index in the vector `signals'; a task is the pair of    *)
(* its call and its signal.                                                *)
(***************************************************************************)
EXTENDS Integers, Sequences, FiniteSets, SequencesExt

CONSTANTS
    Calls,              \* the evaluate futures, each polled to its end once
    MaxSignals,         \* bound on add_signal
    MaxConcurrency,     \* the constructor's argument
    Hangs               \* signals whose evaluate stays pending for ever

ASSUME CallsAssumption == IsFiniteSet(Calls)
ASSUME MaxSignalsAssumption == MaxSignals \in Nat
ASSUME MaxConcurrencyAssumption == MaxConcurrency \in Nat
ASSUME HangsAssumption == Hangs \subseteq 1..MaxSignals

VARIABLES
    registered,         \* signals.len()
    call,               \* where each evaluate future stands
    spawned,            \* how far its spawn loop got
    task,               \* the state of every task
    permits,            \* permits no task holds
    waiters,            \* the semaphore's queue
    doomed,             \* aborted tasks that will not be polled again
    overdue,            \* running tasks whose deadline has passed
    results, errors     \* the vectors each call fills

vars == <<registered, call, spawned, task, permits, waiters, doomed, overdue,
          results, errors>>

Signals == 1..MaxSignals
Tasks == Calls \X Signals

\* Semaphore::new(max_concurrency.max(1))
Permits == IF MaxConcurrency > 1 THEN MaxConcurrency ELSE 1

CallStates == {"idle", "spawning", "joining", "returned", "dropped"}
Outcomes == {"ok", "failed", "timeout", "panicked"}
TaskStates == {"none", "spawned", "queued", "granted", "running", "joined", "reaped"}
                \cup Outcomes
ErrorKinds == {"NoSignals", "SignalFailed", "Timeout"}

\* The error names its signal, 0 stands for a name that is not a signal's:
\* "unknown", or none at all.
Errors == [kind : ErrorKinds, name : 0..MaxSignals]

TypeOK ==
    /\ registered \in 0..MaxSignals
    /\ call \in [Calls -> CallStates]
    /\ spawned \in [Calls -> 0..MaxSignals]
    /\ task \in [Tasks -> TaskStates]
    /\ permits \in 0..Permits
    /\ waiters \in Seq(Tasks)
    /\ doomed \subseteq Tasks
    /\ overdue \subseteq Tasks
    /\ results \in [Calls -> Seq(Signals)]
    /\ errors \in [Calls -> Seq(Errors)]

Init ==
    /\ registered = 0
    /\ call = [c \in Calls |-> "idle"]
    /\ spawned = [c \in Calls |-> 0]
    /\ task = [t \in Tasks |-> "none"]
    /\ permits = Permits
    /\ waiters = <<>>
    /\ doomed = {}
    /\ overdue = {}
    /\ results = [c \in Calls |-> <<>>]
    /\ errors = [c \in Calls |-> <<>>]

InFlight(c) == call[c] \in {"spawning", "joining"}

\* Tasks that hold a permit, handed over by the semaphore or taken.
Holders == {t \in Tasks : task[t] \in {"granted", "running"}}

-----------------------------------------------------------------------------
(* The caller's side. *)

\* add_signal takes &mut self: no evaluate future borrows the pipeline, though
\* aborted tasks of a dropped one may still be alive.
AddSignal ==
    /\ \A c \in Calls : ~InFlight(c)
    /\ registered < MaxSignals
    /\ registered' = registered + 1
    /\ UNCHANGED <<call, spawned, task, permits, waiters, doomed, overdue, results, errors>>

EvaluateEmpty(c) ==
    /\ call[c] = "idle"
    /\ registered = 0
    /\ call' = [call EXCEPT ![c] = "returned"]
    /\ errors' = [errors EXCEPT ![c] = <<[kind |-> "NoSignals", name |-> 0]>>]
    /\ UNCHANGED <<registered, spawned, task, permits, waiters, doomed, overdue, results>>

EvaluateStart(c) ==
    /\ call[c] = "idle"
    /\ registered > 0
    /\ call' = [call EXCEPT ![c] = "spawning"]
    /\ UNCHANGED <<registered, spawned, task, permits, waiters, doomed, overdue, results, errors>>

\* One turn of the spawn loop; the loop has no await, other threads run tasks
\* meanwhile.
SpawnSignal(c) ==
    /\ call[c] = "spawning"
    /\ spawned[c] < registered
    /\ spawned' = [spawned EXCEPT ![c] = @ + 1]
    /\ task' = [task EXCEPT ![<<c, spawned[c] + 1>>] = "spawned"]
    /\ UNCHANGED <<registered, call, permits, waiters, doomed, overdue, results, errors>>

AwaitJoin(c) ==
    /\ call[c] = "spawning"
    /\ spawned[c] = registered
    /\ call' = [call EXCEPT ![c] = "joining"]
    /\ UNCHANGED <<registered, spawned, task, permits, waiters, doomed, overdue, results, errors>>

\* The errors vector's entry for a task that did not answer.
ErrorOf(outcome, i) ==
    [kind |-> IF outcome = "timeout" THEN "Timeout" ELSE "SignalFailed",
     name |-> IF outcome = "panicked" THEN 0 ELSE i]

\* Mutant: a task that panicked leaves no entry.
JoinNextIgnoringPanics(c, i) ==
    /\ call[c] = "joining"
    /\ task[<<c, i>>] \in Outcomes
    /\ task' = [task EXCEPT ![<<c, i>>] = "joined"]
    /\ results' = IF task[<<c, i>>] = "ok" THEN [results EXCEPT ![c] = Append(@, i)] ELSE results
    /\ errors' = IF task[<<c, i>>] \in {"failed", "timeout"}
                 THEN [errors EXCEPT ![c] = Append(@, ErrorOf(task[<<c, i>>], i))] ELSE errors
    /\ UNCHANGED <<registered, call, spawned, permits, waiters, doomed, overdue>>

JoinNext(c, i) ==
    /\ call[c] = "joining"
    /\ task[<<c, i>>] \in Outcomes
    /\ task' = [task EXCEPT ![<<c, i>>] = "joined"]
    /\ \/ /\ task[<<c, i>>] = "ok"
          /\ results' = [results EXCEPT ![c] = Append(@, i)]
          /\ UNCHANGED errors
       \/ /\ task[<<c, i>>] # "ok"
          /\ errors' = [errors EXCEPT ![c] = Append(@, ErrorOf(task[<<c, i>>], i))]
          /\ UNCHANGED results
    /\ UNCHANGED <<registered, call, spawned, permits, waiters, doomed, overdue>>

\* Mutant: the join loop ends with the first outcome.
ReturnAfterFirst(c) ==
    /\ call[c] = "joining"
    /\ \E i \in 1..spawned[c] : task[<<c, i>>] = "joined"
    /\ call' = [call EXCEPT ![c] = "returned"]
    /\ UNCHANGED <<registered, spawned, task, permits, waiters, doomed, overdue, results, errors>>

\* join_next answers None once the JoinSet is empty.
Return(c) ==
    /\ call[c] = "joining"
    /\ \A i \in 1..spawned[c] : task[<<c, i>>] = "joined"
    /\ call' = [call EXCEPT ![c] = "returned"]
    /\ UNCHANGED <<registered, spawned, task, permits, waiters, doomed, overdue, results, errors>>

\* The caller drops the future at its only await.  A queued task is not being
\* polled, so the abort takes hold before it can run again; any other task may
\* be in the middle of a poll and get further.
DropFuture(c) ==
    /\ call[c] = "joining"
    /\ call' = [call EXCEPT ![c] = "dropped"]
    /\ doomed' = doomed \cup {t \in Tasks : t[1] = c /\ task[t] = "queued"}
    /\ UNCHANGED <<registered, spawned, task, permits, waiters, overdue, results, errors>>

-----------------------------------------------------------------------------
(* The tasks and the semaphore. *)

\* The task t gives its permit back and goes to `next': the permit passes to
\* the head of the queue, whose Acquire future completes at its next poll.
Release(t, next) ==
    \/ /\ waiters = <<>>
       /\ permits' = permits + 1
       /\ task' = [task EXCEPT ![t] = next]
       /\ UNCHANGED waiters
    \/ /\ waiters # <<>>
       /\ task' = [task EXCEPT ![t] = next, ![Head(waiters)] = "granted"]
       /\ waiters' = Tail(waiters)
       /\ UNCHANGED permits

\* sem.acquire().await finds a permit and signal.evaluate begins.
AcquireNow(t) ==
    /\ task[t] = "spawned"
    /\ permits > 0
    /\ permits' = permits - 1
    /\ task' = [task EXCEPT ![t] = "running"]
    /\ UNCHANGED <<registered, call, spawned, waiters, doomed, overdue, results, errors>>

AcquireWait(t) ==
    /\ task[t] = "spawned"
    /\ permits = 0
    /\ task' = [task EXCEPT ![t] = "queued"]
    /\ waiters' = Append(waiters, t)
    /\ doomed' = IF call[t[1]] = "dropped" THEN doomed \cup {t} ELSE doomed
    /\ UNCHANGED <<registered, call, spawned, permits, overdue, results, errors>>

Begin(t) ==
    /\ task[t] = "granted"
    /\ t \notin doomed
    /\ task' = [task EXCEPT ![t] = "running"]
    /\ UNCHANGED <<registered, call, spawned, permits, waiters, doomed, overdue, results, errors>>

DeadlineElapses(t) ==
    /\ task[t] = "running"
    /\ t \notin overdue
    /\ overdue' = overdue \cup {t}
    /\ UNCHANGED <<registered, call, spawned, task, permits, waiters, doomed, results, errors>>

\* Mutant: a panicking signal takes its permit with it.
FinishLeakingOnPanic(t, outcome) ==
    /\ task[t] = "running"
    /\ outcome \in {"ok", "failed", "panicked"}
    /\ t[2] \notin Hangs
    /\ \/ outcome # "panicked" /\ Release(t, outcome)
       \/ /\ outcome = "panicked"
          /\ task' = [task EXCEPT ![t] = outcome]
          /\ UNCHANGED <<permits, waiters>>
    /\ overdue' = overdue \ {t}
    /\ UNCHANGED <<registered, call, spawned, doomed, results, errors>>

\* The signal's future is polled before the deadline is looked at: it may still
\* answer when the deadline has passed.
Finish(t, outcome) ==
    /\ task[t] = "running"
    /\ outcome \in {"ok", "failed", "panicked"}
    /\ t[2] \notin Hangs
    /\ Release(t, outcome)
    /\ overdue' = overdue \ {t}
    /\ UNCHANGED <<registered, call, spawned, doomed, results, errors>>

TimeOut(t) ==
    /\ task[t] = "running"
    /\ t \in overdue
    /\ Release(t, "timeout")
    /\ overdue' = overdue \ {t}
    /\ UNCHANGED <<registered, call, spawned, doomed, results, errors>>

\* Mutant: a permit handed to an aborted waiter stays with it.
ReapKeepingGrant(t) ==
    /\ call[t[1]] = "dropped"
    /\ task[t] \in {"spawned", "granted"} \cup Outcomes
    /\ task' = [task EXCEPT ![t] = "reaped"]
    /\ doomed' = doomed \ {t}
    /\ UNCHANGED <<registered, call, spawned, permits, waiters, overdue, results, errors>>

\* The runtime drops the future of an aborted task: an Acquire leaves the queue,
\* a permit goes back.
Reap(t) ==
    /\ call[t[1]] = "dropped"
    /\ \/ /\ task[t] \in {"spawned"} \cup Outcomes
          /\ task' = [task EXCEPT ![t] = "reaped"]
          /\ UNCHANGED <<permits, waiters>>
       \/ /\ task[t] = "queued"
          /\ \E k \in 1..Len(waiters) :
                /\ waiters[k] = t
                /\ waiters' = RemoveAt(waiters, k)
          /\ task' = [task EXCEPT ![t] = "reaped"]
          /\ UNCHANGED permits
       \/ /\ task[t] \in {"granted", "running"}
          /\ Release(t, "reaped")
    /\ doomed' = doomed \ {t}
    /\ overdue' = overdue \ {t}
    /\ UNCHANGED <<registered, call, spawned, results, errors>>

CallStep(c) ==
    \/ EvaluateEmpty(c)
    \/ EvaluateStart(c)
    \/ SpawnSignal(c)
    \/ AwaitJoin(c)
    \/ \E i \in Signals : JoinNext(c, i)
    \/ Return(c)
    \/ DropFuture(c)

TaskStep(t) ==
    \/ AcquireNow(t)
    \/ AcquireWait(t)
    \/ Begin(t)
    \/ DeadlineElapses(t)
    \/ \E outcome \in Outcomes : Finish(t, outcome)
    \/ TimeOut(t)
    \/ Reap(t)

Next ==
    \/ AddSignal
    \/ \E c \in Calls : CallStep(c)
    \/ \E t \in Tasks : TaskStep(t)

\* The runtime polls what is ready and its timer fires; no signal has to answer,
\* no caller has to start, register or drop anything.
Fairness ==
    /\ \A c \in Calls :
          WF_vars(SpawnSignal(c) \/ AwaitJoin(c) \/ Return(c) \/ \E i \in Signals : JoinNext(c, i))
    /\ \A t \in Tasks :
          /\ WF_vars(AcquireNow(t) \/ AcquireWait(t) \/ Begin(t))
          /\ WF_vars(DeadlineElapses(t))
          /\ WF_vars(TimeOut(t))
          /\ WF_vars(Reap(t))

Spec == Init /\ [][Next]_vars /\ Fairness

-----------------------------------------------------------------------------
(* Properties. *)

\* The concurrency limit the constructor takes holds over all calls together,
\* the tasks an abandoned call left behind included.
ConcurrencyBound == Cardinality({t \in Tasks : task[t] = "running"}) <= Permits

\* No permit is lost or invented, whichever way a task ends: answer, error,
\* panic, timeout, or abort while queued, granted or running.
PermitConservation == permits + Cardinality(Holders) = Permits

\* What the pipeline promises its callers: the refinement maps what a task does
\* to the progress of its signal.
Progress(t) ==
    CASE task[t] \in {"none", "spawned", "queued", "granted"} -> "waiting"
      [] task[t] = "running" -> "active"
      [] task[t] = "joined" -> "reported"
      [] OTHER -> "over"

Phase(c) == IF InFlight(c) THEN "open" ELSE call[c]

Contract == INSTANCE EvaluateContract
    WITH Limit <- Permits, size <- registered,
         phase <- [c \in Calls |-> Phase(c)],
         progress <- [t \in Tasks |-> Progress(t)]

\* The queue holds the queued tasks, each once, and only when no permit is
\* left: a permit given back never lies idle while a task waits for it.
QueueSound ==
    /\ \A t \in Tasks : task[t] = "queued" <=> \E k \in 1..Len(waiters) : waiters[k] = t
    /\ \A j, k \in 1..Len(waiters) : waiters[j] = waiters[k] => j = k
    /\ waiters # <<>> => permits = 0

\* Where a call has accounted for signal i.
InResults(c, i) == {k \in 1..Len(results[c]) : results[c][k] = i}
InErrors(c, i) == {k \in 1..Len(errors[c]) : errors[c][k].name = i}

\* A call that returns accounts for every signal registered when it began by
\* exactly one entry, in `results' or in `errors'; the entries that name no
\* signal are as many as the signals no entry names (the panicked ones); and
\* NoSignals is the whole answer of an empty pipeline and of no other.
OneOutcomeEach ==
    \A c \in Calls : call[c] = "returned" =>
        /\ spawned[c] > 0 => Len(results[c]) + Len(errors[c]) = spawned[c]
        /\ \A i \in Signals : Cardinality(InResults(c, i)) + Cardinality(InErrors(c, i)) <= 1
        /\ spawned[c] = 0 <=> \E k \in 1..Len(errors[c]) : errors[c][k].kind = "NoSignals"

\* Every evaluate that got going returns, unless its caller drops it, even when
\* a signal never answers.
CallsEnd ==
    \A c \in Calls : InFlight(c) ~> call[c] \in {"returned", "dropped"}

\* In the end all permits are back, whatever was dropped in whichever state.
PermitsRecovered == <>[](permits = Permits)

\* Seen from its callers, evaluate does what EvaluateContract promises.
ImplementsContract == Contract!Spec

=============================================================================
