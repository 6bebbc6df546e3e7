------------------------ MODULE SignalPipeline_proof ------------------------
(***************************************************************************)
(* Proofs about SignalPipeline, for every number of calls, signals and     *)
(* permits.                                                                *)
(***************************************************************************)
EXTENDS SignalPipeline, FiniteSetTheorems, SequenceTheorems, TLAPS

\* A spawn loop never reaches a task that is alive already.
SpawnedPrefix ==
    \A c \in Calls, i \in Signals : i > spawned[c] => task[<<c, i>>] = "none"

\* The inductive invariant of the semaphore: the bound on running signals holds
\* because no permit is ever lost or invented, and that in turn because the head
\* of the queue, which receives a permit, is a queued task and so holds none.
PermitInv == TypeOK /\ PermitConservation /\ QueueSound /\ SpawnedPrefix

-----------------------------------------------------------------------------
(* Lemmas about data. *)

LEMMA PermitsPositive == Permits \in Nat \ {0}
BY MaxConcurrencyAssumption DEF Permits

\* Tasks, hence every set of tasks, are finite.
LEMMA TasksFinite == \A S \in SUBSET Tasks : IsFiniteSet(S) /\ Cardinality(S) \in Nat
<1>1. IsFiniteSet(Signals)
  BY MaxSignalsAssumption, FS_Interval DEF Signals
<1>2. IsFiniteSet(Tasks)
  BY <1>1, CallsAssumption, FS_Product DEF Tasks
<1>3. QED
  BY <1>2, FS_Subset, FS_CardinalityType

\* What is left of a sequence when position k is taken out.
LEMMA RemoveAtProperties ==
  ASSUME NEW S, NEW s \in Seq(S), NEW k \in 1..Len(s)
  PROVE  /\ RemoveAt(s, k) \in Seq(S)
         /\ Len(RemoveAt(s, k)) = Len(s) - 1
         /\ \A j \in 1..(Len(s) - 1) : RemoveAt(s, k)[j] = IF j < k THEN s[j] ELSE s[j + 1]
<1> DEFINE a == SubSeq(s, 1, k - 1)
           b == SubSeq(s, k + 1, Len(s))
<1>0. Len(s) \in Nat /\ \A j \in 1..Len(s) : s[j] \in S
  BY LenProperties, ElementOfSeq
<1>1. a \in Seq(S) /\ Len(a) = k - 1 /\ \A j \in 1..(k - 1) : a[j] = s[j]
  <2>1. \A j \in 1..(k - 1) : s[j] \in S
    BY <1>0
  <2>2. QED
    BY <2>1, <1>0, SubSeqProperties
<1>2. b \in Seq(S) /\ Len(b) = Len(s) - k /\ \A j \in 1..(Len(s) - k) : b[j] = s[k + j]
  <2>1. \A j \in (k + 1)..Len(s) : s[j] \in S
    BY <1>0
  <2>2. /\ SubSeq(s, k + 1, Len(s)) \in Seq(S)
        /\ Len(SubSeq(s, k + 1, Len(s))) = IF k + 1 <= Len(s) THEN Len(s) - (k + 1) + 1 ELSE 0
        /\ \A i \in 1..(Len(s) - (k + 1) + 1) : SubSeq(s, k + 1, Len(s))[i] = s[(k + 1) + i - 1]
    BY <2>1, <1>0, SubSeqProperties
  <2>3. QED
    BY <2>2, <1>0
<1>3. RemoveAt(s, k) = a \o b
  BY DEF RemoveAt
<1> HIDE DEF a, b
<1>4. /\ a \o b \in Seq(S)
      /\ Len(a \o b) = Len(a) + Len(b)
      /\ \A i \in 1..(Len(a) + Len(b)) :
            (a \o b)[i] = IF i <= Len(a) THEN a[i] ELSE b[i - Len(a)]
  BY <1>1, <1>2, ConcatProperties
<1>5. QED
  BY <1>0, <1>1, <1>2, <1>3, <1>4

-----------------------------------------------------------------------------
(* The semaphore. *)

LEMMA InitPermitInv == Init => PermitInv
<1> SUFFICES ASSUME Init PROVE PermitInv
  OBVIOUS
<1>1. TypeOK
  BY PermitsPositive, MaxSignalsAssumption
  DEF Init, TypeOK, CallStates, TaskStates, Errors
<1>2. Holders = {}
  BY DEF Init, Holders
<1>3. PermitConservation
  BY <1>2, FS_EmptySet, PermitsPositive DEF Init, PermitConservation
<1>4. QueueSound
  BY DEF Init, QueueSound
<1>5. SpawnedPrefix
  BY DEF Init, SpawnedPrefix, Tasks
<1>6. QED
  BY <1>1, <1>3, <1>4, <1>5 DEF PermitInv

\* Giving a permit back, whether to the queue or to the pool.
LEMMA ReleaseKeeps ==
  ASSUME PermitInv, NEW t \in Tasks, task[t] \in {"granted", "running"},
         NEW next \in {"reaped"} \cup Outcomes, Release(t, next)
  PROVE  /\ permits' \in 0..Permits
         /\ task' \in [Tasks -> TaskStates]
         /\ waiters' \in Seq(Tasks)
         /\ PermitConservation'
         /\ QueueSound'
         /\ \A u \in Tasks : task[u] = "none" => task'[u] = "none"
<1> USE DEF PermitInv, TypeOK
<1>1. next \in TaskStates /\ next \notin {"granted", "running", "queued"}
  BY DEF TaskStates, Outcomes
<1>2. IsFiniteSet(Holders) /\ Cardinality(Holders) \in Nat /\ t \in Holders
  BY TasksFinite DEF Holders
<1>3. IsFiniteSet(Holders \ {t}) /\ Cardinality(Holders \ {t}) = Cardinality(Holders) - 1
  BY <1>2, FS_RemoveElement
<1>4. Cardinality(Holders \ {t}) \in Nat
  BY <1>3, FS_CardinalityType
<1>5. CASE waiters = <<>>
  <2>1. /\ permits' = permits + 1
        /\ task' = [task EXCEPT ![t] = next]
        /\ waiters' = waiters
    BY <1>5 DEF Release
  <2>2. Holders' = Holders \ {t}
    BY <2>1, <1>1 DEF Holders
  <2>3. PermitConservation'
    BY <2>1, <2>2, <1>2, <1>3, PermitsPositive DEF PermitConservation
  <2>4. permits' \in 0..Permits
    BY <2>1, <1>2, <1>3, <1>4, PermitsPositive DEF PermitConservation
  <2>5. QueueSound'
    BY <2>1, <1>1, <1>5 DEF QueueSound
  <2>6. task' \in [Tasks -> TaskStates]
    BY <2>1, <1>1
  <2>7. \A u \in Tasks : task[u] = "none" => task'[u] = "none"
    BY <2>1
  <2>8. QED
    BY <2>1, <2>3, <2>4, <2>5, <2>6, <2>7
<1>6. CASE waiters # <<>>
  <2> DEFINE h == Head(waiters)
  <2>1. /\ permits' = permits
        /\ task' = [task EXCEPT ![t] = next, ![h] = "granted"]
        /\ waiters' = Tail(waiters)
    BY <1>6 DEF Release
  <2>2. /\ Len(waiters) \in Nat \ {0}
        /\ h = waiters[1]
        /\ h \in Tasks
        /\ waiters' \in Seq(Tasks)
        /\ Len(waiters') = Len(waiters) - 1
        /\ \A k \in 1..Len(waiters') : waiters'[k] = waiters[k + 1]
    BY <2>1, <1>6, HeadTailProperties, EmptySeq
  <2>3. task[h] = "queued"
    BY <2>2 DEF QueueSound
  <2> HIDE DEF h
  <2>4. h # t /\ h \notin Holders
    BY <2>3 DEF Holders
  <2>5. /\ task' \in [Tasks -> TaskStates]
        /\ task'[h] = "granted"
        /\ task'[t] = next
        /\ \A u \in Tasks \ {t, h} : task'[u] = task[u]
    <3>1. "granted" \in TaskStates
      BY DEF TaskStates
    <3>2. QED
      BY <2>1, <2>2, <2>4, <1>1, <3>1
  <2>6. Holders' = (Holders \ {t}) \cup {h}
    BY <2>2, <2>4, <2>5, <1>1 DEF Holders
  <2>7. PermitConservation'
    <3>1. Cardinality((Holders \ {t}) \cup {h}) = Cardinality(Holders \ {t}) + 1
      BY <2>4, <1>3, FS_AddElement
    <3>2. QED
      BY <3>1, <2>1, <2>6, <1>2, <1>3, PermitsPositive DEF PermitConservation
  <2>8. QueueSound'
    <3>1. ASSUME NEW u \in Tasks
          PROVE  task'[u] = "queued" <=> \E k \in 1..Len(waiters') : waiters'[k] = u
      <4>1. CASE u = h
        <5>1. \A k \in 1..Len(waiters') : waiters[k + 1] # h
          BY <2>2 DEF QueueSound
        <5>2. QED
          BY <5>1, <4>1, <2>2, <2>5
      <4>2. CASE u # h
        <5>1. task'[u] = "queued" <=> task[u] = "queued"
          BY <4>2, <2>5, <1>1
        <5>2. (\E k \in 1..Len(waiters) : waiters[k] = u)
                <=> \E k \in 1..Len(waiters') : waiters'[k] = u
          <6>1. ASSUME NEW k \in 1..Len(waiters), waiters[k] = u
                PROVE  \E j \in 1..Len(waiters') : waiters'[j] = u
            <7>1. k # 1 /\ k - 1 \in 1..Len(waiters')
              BY <6>1, <4>2, <2>2
            <7>2. waiters'[k - 1] = u
              BY <6>1, <7>1, <2>2
            <7>3. QED
              BY <7>1, <7>2
          <6>2. ASSUME NEW k \in 1..Len(waiters'), waiters'[k] = u
                PROVE  \E j \in 1..Len(waiters) : waiters[j] = u
            <7>1. k + 1 \in 1..Len(waiters) /\ waiters[k + 1] = u
              BY <6>2, <2>2
            <7>2. QED
              BY <7>1
          <6>3. QED
            BY <6>1, <6>2
        <5>3. QED
          BY <5>1, <5>2 DEF QueueSound
      <4>3. QED
        BY <4>1, <4>2
    <3>2. ASSUME NEW j \in 1..Len(waiters'), NEW k \in 1..Len(waiters'),
                 waiters'[j] = waiters'[k]
          PROVE  j = k
      <4>1. j + 1 \in 1..Len(waiters) /\ k + 1 \in 1..Len(waiters)
        BY <2>2
      <4>2. waiters[j + 1] = waiters[k + 1]
        BY <3>2, <2>2
      <4>3. QED
        BY <4>1, <4>2, <2>2 DEF QueueSound
    <3>3. permits' = 0
      BY <1>6, <2>1 DEF QueueSound
    <3>4. QED
      BY <3>1, <3>2, <3>3 DEF QueueSound
  <2>9. \A u \in Tasks : task[u] = "none" => task'[u] = "none"
    BY <2>3, <2>5
  <2>10. QED
    BY <2>1, <2>2, <2>5, <2>7, <2>8, <2>9
<1>7. QED
  BY <1>5, <1>6

\* A step that moves no task into or out of the queue or the permits' holders.
QuietFor(t) ==
    /\ task'[t] = "queued" <=> task[t] = "queued"
    /\ task'[t] \in {"granted", "running"} <=> task[t] \in {"granted", "running"}

LEMMA QuietKeeps ==
  ASSUME PermitInv, permits' = permits, waiters' = waiters, \A t \in Tasks : QuietFor(t)
  PROVE  PermitConservation' /\ QueueSound'
<1>1. Holders' = Holders
  BY DEF QuietFor, Holders
<1>2. PermitConservation'
  BY <1>1 DEF PermitInv, PermitConservation
<1>3. QueueSound'
  BY DEF PermitInv, QueueSound, QuietFor
<1>4. QED
  BY <1>2, <1>3

\* The prefix invariant survives as long as tasks not yet spawned are left alone.
LEMMA PrefixKeeps ==
  ASSUME PermitInv, spawned' = spawned, \A t \in Tasks : task[t] = "none" => task'[t] = "none"
  PROVE  SpawnedPrefix'
BY DEF PermitInv, SpawnedPrefix, Tasks

\* The steps of a call.
LEMMA CallStepKeeps ==
  ASSUME PermitInv, NEW c \in Calls, CallStep(c)
  PROVE  PermitInv'
<1> USE DEF TypeOK, PermitInv
<1> DEFINE NoError == [kind |-> "NoSignals", name |-> 0]
<1>0. /\ {"spawning", "joining", "returned", "dropped"} \subseteq CallStates
      /\ {"spawned", "joined"} \subseteq TaskStates
  BY DEF CallStates, TaskStates
<1>1. CASE EvaluateEmpty(c)
  <2>1. NoError \in Errors
    BY MaxSignalsAssumption DEF Errors, ErrorKinds
  <2>2. <<NoError>> \in Seq(Errors)
    BY <2>1
  <2>3. TypeOK'
    BY <2>2, <1>0, <1>1 DEF EvaluateEmpty
  <2>4. PermitConservation' /\ QueueSound'
    BY <1>1, QuietKeeps DEF EvaluateEmpty, QuietFor
  <2>5. QED
    BY <2>3, <2>4, <1>1, PrefixKeeps DEF EvaluateEmpty
<1>2. CASE EvaluateStart(c) \/ AwaitJoin(c) \/ Return(c)
  <2>1. TypeOK'
    BY <1>0, <1>2 DEF EvaluateStart, AwaitJoin, Return
  <2>2. PermitConservation' /\ QueueSound'
    BY <1>2, QuietKeeps DEF EvaluateStart, AwaitJoin, Return, QuietFor
  <2>3. QED
    BY <2>1, <2>2, <1>2, PrefixKeeps DEF EvaluateStart, AwaitJoin, Return
<1>3. CASE SpawnSignal(c)
  <2> DEFINE n == <<c, spawned[c] + 1>>
  <2>1. n \in Tasks /\ task[n] = "none" /\ spawned[c] + 1 \in 0..MaxSignals
    BY <1>3, MaxSignalsAssumption DEF SpawnSignal, SpawnedPrefix, Tasks, Signals
  <2>2. task' = [task EXCEPT ![n] = "spawned"]
    BY <1>3 DEF SpawnSignal
  <2>3. TypeOK'
    BY <2>1, <2>2, <1>0, <1>3 DEF SpawnSignal
  <2>4. \A t \in Tasks : QuietFor(t)
    BY <2>1, <2>2 DEF QuietFor
  <2>5. PermitConservation' /\ QueueSound'
    BY <2>4, <1>3, QuietKeeps DEF SpawnSignal
  <2>6. SpawnedPrefix'
    <3>1. ASSUME NEW d \in Calls, NEW i \in Signals, i > spawned'[d]
          PROVE  task'[<<d, i>>] = "none"
      <4>1. i > spawned[d] /\ <<d, i>> # n /\ <<d, i>> \in Tasks
        BY <3>1, <1>3 DEF SpawnSignal, Signals, Tasks
      <4>2. QED
        BY <4>1, <2>2 DEF SpawnedPrefix
    <3>2. QED
      BY <3>1 DEF SpawnedPrefix
  <2>7. QED
    BY <2>3, <2>5, <2>6
<1>4. ASSUME NEW i \in Signals, JoinNext(c, i)
      PROVE  PermitInv'
  <2> DEFINE e == ErrorOf(task[<<c, i>>], i)
  <2>1. <<c, i>> \in Tasks /\ task[<<c, i>>] \in Outcomes /\ task' = [task EXCEPT ![<<c, i>>] = "joined"]
    BY <1>4 DEF JoinNext, Tasks
  <2>2. e \in Errors
    BY MaxSignalsAssumption DEF ErrorOf, Errors, ErrorKinds, Signals
  <2> HIDE DEF e
  <2>3. results' \in [Calls -> Seq(Signals)] /\ errors' \in [Calls -> Seq(Errors)]
    <3>1. Append(results[c], i) \in Seq(Signals) /\ Append(errors[c], e) \in Seq(Errors)
      BY <2>2, AppendProperties
    <3>2. CASE task[<<c, i>>] = "ok"
      BY <3>1, <3>2, <1>4 DEF JoinNext
    <3>3. CASE task[<<c, i>>] # "ok"
      <4>1. errors' = [errors EXCEPT ![c] = Append(@, e)] /\ results' = results
        BY <3>3, <1>4 DEF JoinNext, e
      <4>2. QED
        BY <3>1, <4>1
    <3>4. QED
      BY <3>2, <3>3
  <2>4. TypeOK'
    BY <2>1, <2>3, <1>0, <1>4 DEF JoinNext
  <2>5. \A t \in Tasks : QuietFor(t) /\ (task[t] = "none" => task'[t] = "none")
    BY <2>1 DEF QuietFor, Outcomes
  <2>6. PermitConservation' /\ QueueSound'
    BY <2>5, <1>4, QuietKeeps DEF JoinNext
  <2>7. QED
    BY <2>4, <2>5, <2>6, <1>4, PrefixKeeps DEF JoinNext
<1>5. CASE DropFuture(c)
  <2>1. TypeOK'
    BY <1>0, <1>5 DEF DropFuture
  <2>2. PermitConservation' /\ QueueSound'
    BY <1>5, QuietKeeps DEF DropFuture, QuietFor
  <2>3. QED
    BY <2>1, <2>2, <1>5, PrefixKeeps DEF DropFuture
<1>6. QED
  BY <1>1, <1>2, <1>3, <1>4, <1>5 DEF CallStep

\* The steps of a task.
LEMMA TaskStepKeeps ==
  ASSUME PermitInv, NEW t \in Tasks, TaskStep(t)
  PROVE  PermitInv'
<1> USE DEF TypeOK, PermitInv
<1>0. {"queued", "running", "reaped"} \subseteq TaskStates
  BY DEF TaskStates
<1>1. CASE AcquireNow(t)
  <2>1. /\ task[t] = "spawned" /\ permits > 0 /\ permits' = permits - 1 /\ waiters' = waiters
        /\ task' = [task EXCEPT ![t] = "running"]
    BY <1>1 DEF AcquireNow
  <2>2. TypeOK'
    BY <2>1, <1>0, <1>1, PermitsPositive DEF AcquireNow
  <2>3. t \notin Holders /\ Holders' = Holders \cup {t}
    BY <2>1 DEF Holders
  <2>4. IsFiniteSet(Holders) /\ Cardinality(Holders) \in Nat
    BY TasksFinite DEF Holders
  <2>5. Cardinality(Holders') = Cardinality(Holders) + 1
    BY <2>3, <2>4, FS_AddElement
  <2>6. PermitConservation'
    BY <2>1, <2>4, <2>5, PermitsPositive DEF PermitConservation
  <2>7. QueueSound'
    BY <2>1 DEF QueueSound
  <2>8. QED
    BY <2>1, <2>2, <2>6, <2>7, <1>1, PrefixKeeps DEF AcquireNow
<1>2. CASE AcquireWait(t)
  <2>1. /\ task[t] = "spawned" /\ permits = 0 /\ permits' = 0
        /\ task' = [task EXCEPT ![t] = "queued"]
        /\ waiters' = Append(waiters, t)
    BY <1>2 DEF AcquireWait
  <2>2. /\ waiters' \in Seq(Tasks)
        /\ Len(waiters) \in Nat
        /\ Len(waiters') = Len(waiters) + 1
        /\ \A k \in 1..Len(waiters) : waiters'[k] = waiters[k]
        /\ waiters'[Len(waiters) + 1] = t
    BY <2>1, AppendProperties, LenProperties
  <2>3. TypeOK'
    BY <2>1, <2>2, <1>0, <1>2 DEF AcquireWait
  <2>4. Holders' = Holders
    BY <2>1 DEF Holders
  <2>5. PermitConservation'
    BY <2>1, <2>4 DEF PermitConservation
  <2>6. \A k \in 1..Len(waiters) : waiters[k] # t
    BY <2>1 DEF QueueSound
  <2>7. \A u \in Tasks : task'[u] = "queued" <=> \E k \in 1..Len(waiters') : waiters'[k] = u
    <3>1. ASSUME NEW u \in Tasks, u # t
          PROVE  task'[u] = "queued" <=> \E k \in 1..Len(waiters') : waiters'[k] = u
      <4>1. task'[u] = task[u]
        BY <3>1, <2>1
      <4>2. (\E k \in 1..Len(waiters') : waiters'[k] = u) <=> \E k \in 1..Len(waiters) : waiters[k] = u
        <5>1. ASSUME NEW k \in 1..Len(waiters'), waiters'[k] = u
              PROVE  \E i \in 1..Len(waiters) : waiters[i] = u
          <6>1. k # Len(waiters) + 1
            BY <5>1, <3>1, <2>2
          <6>2. k \in 1..Len(waiters)
            BY <6>1, <2>2
          <6>3. QED
            BY <6>2, <5>1, <2>2
        <5>2. ASSUME NEW k \in 1..Len(waiters), waiters[k] = u
              PROVE  \E i \in 1..Len(waiters') : waiters'[i] = u
          <6>1. k \in 1..Len(waiters') /\ waiters'[k] = u
            BY <5>2, <2>2
          <6>2. QED
            BY <6>1
        <5>3. QED
          BY <5>1, <5>2
      <4>3. QED
        BY <4>1, <4>2 DEF QueueSound
    <3>2. task'[t] = "queued"
      BY <2>1
    <3>3. Len(waiters) + 1 \in 1..Len(waiters') /\ waiters'[Len(waiters) + 1] = t
      BY <2>2
    <3>4. QED
      BY <3>1, <3>2, <3>3
  <2>8. \A j, k \in 1..Len(waiters') : waiters'[j] = waiters'[k] => j = k
    <3>1. ASSUME NEW j \in 1..Len(waiters'), NEW k \in 1..Len(waiters'), waiters'[j] = waiters'[k]
          PROVE  j = k
      <4>1. CASE j \in 1..Len(waiters) /\ k \in 1..Len(waiters)
        BY <4>1, <3>1, <2>2 DEF QueueSound
      <4>2. ASSUME NEW i \in 1..Len(waiters'), waiters'[i] = t
            PROVE  i = Len(waiters) + 1
        <5>1. CASE i \in 1..Len(waiters)
          BY <5>1, <4>2, <2>2, <2>6
        <5>2. QED
          BY <5>1, <2>2
      <4>3. CASE j = Len(waiters) + 1 \/ k = Len(waiters) + 1
        BY <4>2, <4>3, <3>1, <2>2
      <4>4. QED
        BY <4>1, <4>3, <2>2
    <3>2. QED
      BY <3>1
  <2>9. QueueSound'
    BY <2>1, <2>7, <2>8 DEF QueueSound
  <2>10. QED
    BY <2>1, <2>3, <2>5, <2>9, <1>2, PrefixKeeps DEF AcquireWait
<1>3. CASE Begin(t)
  <2>1. TypeOK'
    BY <1>0, <1>3 DEF Begin
  <2>2. \A u \in Tasks : QuietFor(u) /\ (task[u] = "none" => task'[u] = "none")
    BY <1>3 DEF Begin, QuietFor
  <2>3. PermitConservation' /\ QueueSound'
    BY <2>2, <1>3, QuietKeeps DEF Begin
  <2>4. QED
    BY <2>1, <2>2, <2>3, <1>3, PrefixKeeps DEF Begin
<1>4. CASE DeadlineElapses(t)
  <2>1. TypeOK'
    BY <1>4 DEF DeadlineElapses
  <2>2. PermitConservation' /\ QueueSound'
    BY <1>4, QuietKeeps DEF DeadlineElapses, QuietFor
  <2>3. QED
    BY <2>1, <2>2, <1>4, PrefixKeeps DEF DeadlineElapses
<1>5. ASSUME NEW next \in {"reaped"} \cup Outcomes, Release(t, next),
             task[t] \in {"granted", "running"},
             UNCHANGED <<registered, call, spawned, results, errors>>,
             doomed' \subseteq doomed, overdue' \subseteq overdue
      PROVE  PermitInv'
  <2>1. TypeOK' /\ PermitConservation' /\ QueueSound'
    BY <1>5, ReleaseKeeps
  <2>2. \A u \in Tasks : task[u] = "none" => task'[u] = "none"
    BY <1>5, ReleaseKeeps
  <2>3. QED
    BY <2>1, <2>2, <1>5, PrefixKeeps
<1>6. ASSUME NEW outcome \in Outcomes, Finish(t, outcome)
      PROVE  PermitInv'
  BY <1>5, <1>6 DEF Finish
<1>7. CASE TimeOut(t)
  <2>1. "timeout" \in Outcomes
    BY DEF Outcomes
  <2>2. QED
    BY <2>1, <1>5, <1>7 DEF TimeOut
<1>8. CASE Reap(t)
  <2>0. TypeOK' <=> permits' \in 0..Permits /\ task' \in [Tasks -> TaskStates] /\ waiters' \in Seq(Tasks)
    BY <1>8 DEF Reap
  <2>1. CASE task[t] \in {"spawned"} \cup Outcomes
    <3>1. task' = [task EXCEPT ![t] = "reaped"] /\ permits' = permits /\ waiters' = waiters
      BY <2>1, <1>8 DEF Reap, Outcomes
    <3>2. \A u \in Tasks : QuietFor(u) /\ (task[u] = "none" => task'[u] = "none")
      BY <3>1, <2>1 DEF QuietFor, Outcomes
    <3>3. PermitConservation' /\ QueueSound'
      BY <3>1, <3>2, QuietKeeps
    <3>4. QED
      BY <2>0, <3>1, <3>2, <3>3, <1>0, <1>8, PrefixKeeps DEF Reap
  <2>2. CASE task[t] = "queued"
    <3>1. /\ permits' = permits /\ task' = [task EXCEPT ![t] = "reaped"]
          /\ \E k \in 1..Len(waiters) : waiters[k] = t /\ waiters' = RemoveAt(waiters, k)
      BY <2>2, <1>8 DEF Reap, Outcomes
    <3>2. PICK k \in 1..Len(waiters) : waiters[k] = t /\ waiters' = RemoveAt(waiters, k)
      BY <3>1
    <3>3. /\ waiters' \in Seq(Tasks)
          /\ Len(waiters) \in Nat
          /\ Len(waiters') = Len(waiters) - 1
          /\ \A j \in 1..(Len(waiters) - 1) :
                waiters'[j] = IF j < k THEN waiters[j] ELSE waiters[j + 1]
      BY <3>2, RemoveAtProperties, LenProperties
    <3>4. TypeOK' /\ \A u \in Tasks : task[u] = "none" => task'[u] = "none"
      BY <2>0, <2>2, <3>1, <3>3, <1>0
    <3>5. Holders' = Holders
      BY <2>2, <3>1 DEF Holders
    <3>6. PermitConservation'
      BY <3>1, <3>5 DEF PermitConservation
    <3>7. \A u \in Tasks : task'[u] = "queued" <=> \E j \in 1..Len(waiters') : waiters'[j] = u
      <4>1. ASSUME NEW u \in Tasks, u # t
            PROVE  task'[u] = "queued" <=> \E j \in 1..Len(waiters') : waiters'[j] = u
        <5>1. task'[u] = "queued" <=> \E j \in 1..Len(waiters) : waiters[j] = u
          BY <3>1, <4>1 DEF QueueSound
        <5>2. ASSUME NEW j \in 1..Len(waiters), waiters[j] = u
              PROVE  \E i \in 1..Len(waiters') : waiters'[i] = u
          <6>1. CASE j < k
            <7>1. j \in 1..Len(waiters') /\ waiters'[j] = u
              BY <6>1, <5>2, <3>3
            <7>2. QED
              BY <7>1
          <6>2. CASE j > k
            <7>1. j - 1 \in 1..Len(waiters') /\ waiters'[j - 1] = waiters[(j - 1) + 1]
              BY <6>2, <3>3
            <7>2. QED
              BY <7>1, <5>2
          <6>3. j # k
            BY <3>2, <4>1, <5>2
          <6>4. QED
            BY <6>1, <6>2, <6>3
        <5>3. ASSUME NEW j \in 1..Len(waiters'), waiters'[j] = u
              PROVE  \E i \in 1..Len(waiters) : waiters[i] = u
          <6>1. j \in 1..Len(waiters) /\ j + 1 \in 1..Len(waiters)
            BY <3>3
          <6>2. QED
            BY <6>1, <5>3, <3>3
        <5>4. QED
          BY <5>1, <5>2, <5>3
      <4>2. task'[t] # "queued"
        BY <3>1
      <4>3. \A j \in 1..Len(waiters') : waiters'[j] # t
        BY <3>2, <3>3 DEF QueueSound
      <4>4. QED
        BY <4>1, <4>2, <4>3
    <3>8. \A i, j \in 1..Len(waiters') : waiters'[i] = waiters'[j] => i = j
      <4>1. ASSUME NEW i \in 1..Len(waiters'), NEW j \in 1..Len(waiters'), waiters'[i] = waiters'[j]
            PROVE  i = j
        <5>1. /\ i \in 1..Len(waiters) /\ i + 1 \in 1..Len(waiters)
              /\ j \in 1..Len(waiters) /\ j + 1 \in 1..Len(waiters)
          BY <3>3
        <5>2. QED
          BY <4>1, <5>1, <3>3 DEF QueueSound
      <4>2. QED
        BY <4>1
    <3>9. waiters # <<>>
      BY <3>2
    <3>10. QueueSound'
      BY <3>1, <3>7, <3>8, <3>9 DEF QueueSound
    <3>11. QED
      BY <3>4, <3>6, <3>10, <1>8, PrefixKeeps DEF Reap
  <2>3. CASE task[t] \in {"granted", "running"}
    <3>1. Release(t, "reaped")
      BY <2>3, <1>8 DEF Reap, Outcomes
    <3>2. QED
      BY <3>1, <2>3, <1>5, <1>8 DEF Reap
  <2>4. QED
    BY <2>1, <2>2, <2>3, <1>8 DEF Reap
<1>9. QED
  BY <1>1, <1>2, <1>3, <1>4, <1>6, <1>7, <1>8 DEF TaskStep

LEMMA NextKeeps == PermitInv /\ [Next]_vars => PermitInv'
<1> SUFFICES ASSUME PermitInv, [Next]_vars PROVE PermitInv'
  OBVIOUS
<1> USE DEF TypeOK, PermitInv
<1>1. CASE AddSignal
  <2>1. TypeOK'
    BY <1>1, MaxSignalsAssumption DEF AddSignal
  <2>2. PermitConservation' /\ QueueSound'
    BY <1>1, QuietKeeps DEF AddSignal, QuietFor
  <2>3. QED
    BY <2>1, <2>2, <1>1, PrefixKeeps DEF AddSignal
<1>2. CASE UNCHANGED vars
  <2>1. PermitConservation' /\ QueueSound'
    BY <1>2, QuietKeeps DEF vars, QuietFor
  <2>2. QED
    BY <2>1, <1>2, PrefixKeeps DEF vars
<1>3. QED
  BY <1>1, <1>2, CallStepKeeps, TaskStepKeeps DEF Next

-----------------------------------------------------------------------------
(* Theorems. *)

\* The invariant holds in every reachable state of Pipeline::evaluate.
THEOREM PermitInvariance == Spec => []PermitInv
<1>1. Init => PermitInv
  BY InitPermitInv
<1>2. PermitInv /\ [Next]_vars => PermitInv'
  BY NextKeeps
<1>3. QED
  BY <1>1, <1>2, PTL DEF Spec

\* Types: among others, the semaphore's count stays within 0..Permits.
THEOREM TypeCorrect == Spec => []TypeOK
BY PermitInvariance, PTL DEF PermitInv

\* However the tasks of all calls end or are aborted, every permit is either
\* free or held by exactly one task.
THEOREM PermitsConserved == Spec => []PermitConservation
BY PermitInvariance, PTL DEF PermitInv

\* A queued task is in the queue exactly once, and a permit never lies idle
\* while a task is queued.
THEOREM QueueIsSound == Spec => []QueueSound
BY PermitInvariance, PTL DEF PermitInv

\* max_concurrency bounds the running signals of all calls together, for any
\* number of calls, signals and permits.
THEOREM ConcurrencyBounded == Spec => []ConcurrencyBound
<1>1. PermitInv => ConcurrencyBound
  <2> SUFFICES ASSUME PermitInv PROVE ConcurrencyBound
    OBVIOUS
  <2> DEFINE R == {t \in Tasks : task[t] = "running"}
  <2>1. R \in SUBSET Holders /\ Holders \in SUBSET Tasks
    BY DEF Holders
  <2>2. Cardinality(R) <= Cardinality(Holders) /\ Cardinality(R) \in Nat /\ Cardinality(Holders) \in Nat
    BY <2>1, TasksFinite, FS_Subset
  <2>3. permits \in Nat /\ permits + Cardinality(Holders) = Permits
    BY DEF PermitInv, TypeOK, PermitConservation
  <2>4. QED
    BY <2>2, <2>3, PermitsPositive DEF ConcurrencyBound
<1>2. QED
  BY <1>1, PermitInvariance, PTL

-----------------------------------------------------------------------------
(* The answers.  OneOutcomeEach is not inductive: that each signal has one  *)
(* entry at the end rests on which are joined while the call goes on.       *)

\* The signals whose outcome call c has accounted for.
Joined(c) == {i \in Signals : task[<<c, i>>] = "joined"}

\* The vectors rs and es of a call that spawned n tasks hold one entry for each signal
\* of J, and nothing else.
Accounted(rs, es, n, J) ==
    /\ \A k \in 1..Len(rs) : rs[k] \in J
    /\ \A k \in 1..Len(es) : es[k].name # 0 => es[k].name \in J
    /\ \A j, k \in 1..Len(rs) : rs[j] = rs[k] => j = k
    /\ \A j, k \in 1..Len(es) : es[j].name = es[k].name /\ es[j].name # 0 => j = k
    /\ \A j \in 1..Len(rs), k \in 1..Len(es) : rs[j] # es[k].name
    /\ n > 0 => /\ Len(rs) + Len(es) = Cardinality(J)
                /\ \A k \in 1..Len(es) : es[k].kind # "NoSignals"

Accounts(c) == Accounted(results[c], errors[c], spawned[c], Joined(c))

\* Where a call stands tells how far it got: it joins only what it spawned, spawns
\* something, and returns when all of it is joined.
Stands(c) ==
    /\ call[c] = "idle" => spawned[c] = 0
    /\ call[c] \in {"idle", "spawning"} =>
          results[c] = <<>> /\ errors[c] = <<>> /\ Joined(c) = {}
    /\ call[c] = "spawning" => registered > 0
    /\ call[c] = "joining" => spawned[c] > 0
    /\ call[c] = "returned" =>
          \/ spawned[c] = 0 /\ Len(errors[c]) = 1 /\ errors[c][1].kind = "NoSignals"
                /\ errors[c][1].name = 0 /\ results[c] = <<>>
          \/ spawned[c] > 0 /\ 1..spawned[c] \subseteq Joined(c)

OutcomeInv == \A c \in Calls : Accounts(c) /\ Stands(c)

\* One more signal joined, and one more entry of the results or of the errors.
LEMMA OneMoreAccounted ==
  ASSUME NEW rs \in Seq(Signals), NEW es \in Seq(Errors), NEW n \in Nat, NEW J \in SUBSET Signals,
         Accounted(rs, es, n, J), NEW i \in Signals, i \notin J, n > 0,
         NEW e \in Errors, e.kind # "NoSignals", e.name \in {0, i}
  PROVE  /\ Accounted(Append(rs, i), es, n, J \cup {i})
         /\ Accounted(rs, Append(es, e), n, J \cup {i})
<1>1. IsFiniteSet(J) /\ Cardinality(J) \in Nat
  <2>1. IsFiniteSet(Signals)
    BY MaxSignalsAssumption, FS_Interval DEF Signals
  <2>2. QED
    BY <2>1, FS_Subset, FS_CardinalityType
<1>2. Cardinality(J \cup {i}) = Cardinality(J) + 1
  BY <1>1, FS_AddElement
<1>3. Len(rs) \in Nat /\ Len(es) \in Nat /\ i # 0 /\ 0 \notin J
  BY LenProperties, MaxSignalsAssumption DEF Signals
<1>4. Len(rs) + Len(es) = Cardinality(J) /\ \A k \in 1..Len(es) : es[k].kind # "NoSignals"
  BY DEF Accounted
<1>5. Accounted(Append(rs, i), es, n, J \cup {i})
  <2> DEFINE r == Append(rs, i)
  <2>1. /\ Len(r) = Len(rs) + 1 /\ r[Len(rs) + 1] = i
        /\ \A k \in 1..Len(rs) : r[k] = rs[k]
    BY AppendProperties
  <2> HIDE DEF r
  <2>2. \A k \in 1..Len(r) : r[k] = i \/ (k \in 1..Len(rs) /\ r[k] = rs[k] /\ r[k] \in J)
    BY <1>3, <2>1 DEF Accounted
  <2>3. \A k \in 1..Len(r) : r[k] \in J \cup {i}
    BY <2>2
  <2>4. \A j, k \in 1..Len(r) : r[j] = r[k] => j = k
    BY <1>3, <2>1, <2>2 DEF Accounted
  <2>5. \A j \in 1..Len(r), k \in 1..Len(es) : r[j] # es[k].name
    BY <1>3, <2>2 DEF Accounted
  <2>6. Len(r) + Len(es) = Cardinality(J \cup {i})
    BY <1>1, <1>2, <1>3, <1>4, <2>1
  <2>7. \A k \in 1..Len(es) : es[k].name # 0 => es[k].name \in J \cup {i}
    BY DEF Accounted
  <2>8. \A j, k \in 1..Len(es) : es[j].name = es[k].name /\ es[j].name # 0 => j = k
    BY DEF Accounted
  <2>9. QED
    BY <1>4, <2>3, <2>4, <2>5, <2>6, <2>7, <2>8 DEF Accounted, r
<1>6. Accounted(rs, Append(es, e), n, J \cup {i})
  <2> DEFINE r == Append(es, e)
  <2>1. /\ Len(r) = Len(es) + 1 /\ r[Len(es) + 1] = e
        /\ \A k \in 1..Len(es) : r[k] = es[k]
    BY AppendProperties
  <2> HIDE DEF r
  <2>2. \A k \in 1..Len(r) : (k = Len(es) + 1 /\ r[k] = e) \/ (k \in 1..Len(es) /\ r[k] = es[k])
    BY <1>3, <2>1
  <2>3. \A k \in 1..Len(es) : es[k].name # 0 => es[k].name \in J
    BY DEF Accounted
  <2>4. \A k \in 1..Len(r) : r[k].name # 0 => r[k].name \in J \cup {i}
    BY <2>2, <2>3
  <2>5. \A j, k \in 1..Len(es) : es[j].name = es[k].name /\ es[j].name # 0 => j = k
    BY DEF Accounted
  <2>6. \A j, k \in 1..Len(r) : r[j].name = r[k].name /\ r[j].name # 0 => j = k
    <3>1. e.name # 0 => \A k \in 1..Len(es) : es[k].name # e.name
      BY <1>3, <2>3
    <3>2. QED
      BY <2>2, <2>5, <3>1
  <2>7. \A j \in 1..Len(rs), k \in 1..Len(r) : rs[j] # r[k].name
    <3>1. \A j \in 1..Len(rs) : rs[j] \in J /\ rs[j] # e.name
      BY <1>3 DEF Accounted
    <3>2. \A j \in 1..Len(rs), k \in 1..Len(es) : rs[j] # es[k].name
      BY DEF Accounted
    <3>3. QED
      BY <2>2, <3>1, <3>2
  <2>8. Len(rs) + Len(r) = Cardinality(J \cup {i})
    BY <1>1, <1>2, <1>3, <1>4, <2>1
  <2>9. \A k \in 1..Len(r) : r[k].kind # "NoSignals"
    BY <1>4, <2>2
  <2>10. (\A k \in 1..Len(rs) : rs[k] \in J \cup {i})
            /\ \A j, k \in 1..Len(rs) : rs[j] = rs[k] => j = k
    BY DEF Accounted
  <2>11. QED
    BY <2>4, <2>6, <2>7, <2>8, <2>9, <2>10 DEF Accounted, r
<1>7. QED
  BY <1>5, <1>6

\* Whoever leaves the vectors, the spawn loops and the joined tasks alone.
LEMMA OthersKeep ==
  ASSUME OutcomeInv, NEW d \in Calls, UNCHANGED <<registered>>,
         call'[d] = call[d], spawned'[d] = spawned[d],
         results'[d] = results[d], errors'[d] = errors[d], Joined(d)' = Joined(d)
  PROVE  (Accounts(d) /\ Stands(d))'
<1>1. Accounts(d) /\ Stands(d)
  BY DEF OutcomeInv
<1>2. Accounts(d)'
  BY <1>1 DEF Accounts
<1>3. Stands(d)'
  BY <1>1 DEF Stands
<1>4. QED
  BY <1>2, <1>3

\* A permit that is given back goes to a queued task, which is not joined by it.
LEMMA ReleaseJoinsNobody ==
  ASSUME PermitInv, NEW t \in Tasks, task[t] \in {"granted", "running"},
         NEW next \in {"reaped"} \cup Outcomes, Release(t, next)
  PROVE  \A u \in Tasks : task'[u] = "joined" <=> task[u] = "joined"
<1>1. next # "joined"
  BY DEF Outcomes
<1>2. CASE waiters = <<>>
  BY <1>1, <1>2 DEF Release, PermitInv, TypeOK
<1>3. CASE waiters # <<>>
  <2> DEFINE h == Head(waiters)
  <2>1. task' = [task EXCEPT ![t] = next, ![h] = "granted"]
    BY <1>3 DEF Release
  <2>2. task[h] = "queued"
    <3>1. Len(waiters) \in Nat \ {0} /\ h = waiters[1] /\ h \in Tasks
      BY <1>3, HeadTailProperties, EmptySeq DEF PermitInv, TypeOK
    <3>2. QED
      BY <3>1 DEF PermitInv, QueueSound
  <2> HIDE DEF h
  <2>3. QED
    BY <1>1, <2>1, <2>2 DEF PermitInv, TypeOK
<1>4. QED
  BY <1>2, <1>3

\* A task joins nothing: only its call's join loop does.
LEMMA TaskStepJoinsNobody ==
  ASSUME PermitInv, NEW t \in Tasks, TaskStep(t)
  PROVE  /\ \A u \in Tasks : task'[u] = "joined" <=> task[u] = "joined"
         /\ UNCHANGED <<registered, call, spawned, results, errors>>
<1>1. UNCHANGED <<registered, call, spawned, results, errors>>
  BY DEF TaskStep, AcquireNow, AcquireWait, Begin, DeadlineElapses, Finish, TimeOut, Reap
<1>2. CASE AcquireNow(t) \/ AcquireWait(t) \/ Begin(t) \/ DeadlineElapses(t)
  BY <1>2 DEF AcquireNow, AcquireWait, Begin, DeadlineElapses, PermitInv, TypeOK
<1>3. ASSUME NEW outcome \in Outcomes, Finish(t, outcome)
      PROVE  \A u \in Tasks : task'[u] = "joined" <=> task[u] = "joined"
  BY <1>3, ReleaseJoinsNobody DEF Finish
<1>4. CASE TimeOut(t)
  BY <1>4, ReleaseJoinsNobody DEF TimeOut, Outcomes
<1>5. CASE Reap(t)
  <2>1. CASE task[t] \in {"granted", "running"}
    BY <1>5, <2>1, ReleaseJoinsNobody DEF Reap, Outcomes
  <2>2. CASE task[t] \notin {"granted", "running"}
    <3>1. task[t] # "joined" /\ task' = [task EXCEPT ![t] = "reaped"]
      BY <1>5, <2>2 DEF Reap, Outcomes
    <3>2. QED
      BY <1>1, <3>1 DEF PermitInv, TypeOK
  <2>3. QED
    BY <2>1, <2>2
<1>6. QED
  BY <1>1, <1>2, <1>3, <1>4, <1>5 DEF TaskStep

\* One turn of the join loop.
LEMMA JoinNextAccounts ==
  ASSUME PermitInv, OutcomeInv, NEW c \in Calls, NEW i \in Signals, JoinNext(c, i)
  PROVE  (Accounts(c) /\ Stands(c))'
<1> DEFINE e == ErrorOf(task[<<c, i>>], i)
<1>1. /\ <<c, i>> \in Tasks /\ task' = [task EXCEPT ![<<c, i>>] = "joined"]
      /\ task[<<c, i>>] # "joined"
  BY DEF JoinNext, Tasks, Outcomes
<1>2. Joined(c)' = Joined(c) \cup {i} /\ i \notin Joined(c) /\ Joined(c) \in SUBSET Signals
  BY <1>1 DEF Joined, PermitInv, TypeOK, Tasks
<1>3. /\ registered' = registered /\ call' = call /\ spawned' = spawned
      /\ call[c] = "joining" /\ Accounts(c) /\ Stands(c)
  BY DEF JoinNext, OutcomeInv
<1>4. spawned[c] \in Nat /\ spawned[c] > 0
  BY <1>3, MaxSignalsAssumption DEF Stands, PermitInv, TypeOK
<1>5. e \in Errors /\ e.kind # "NoSignals" /\ e.name \in {0, i}
  BY MaxSignalsAssumption DEF ErrorOf, Errors, ErrorKinds, Signals
<1> HIDE DEF e
<1>6. results[c] \in Seq(Signals) /\ errors[c] \in Seq(Errors)
  BY DEF PermitInv, TypeOK
<1>7. /\ Accounted(Append(results[c], i), errors[c], spawned[c], Joined(c) \cup {i})
      /\ Accounted(results[c], Append(errors[c], e), spawned[c], Joined(c) \cup {i})
  BY <1>2, <1>3, <1>4, <1>5, <1>6, OneMoreAccounted DEF Accounts
<1>8. \/ results'[c] = Append(results[c], i) /\ errors'[c] = errors[c]
      \/ results'[c] = results[c] /\ errors'[c] = Append(errors[c], e)
  BY DEF JoinNext, PermitInv, TypeOK, e
<1>9. Accounts(c)'
  BY <1>2, <1>3, <1>7, <1>8 DEF Accounts
<1>10. Stands(c)'
  BY <1>3, <1>4 DEF Stands
<1>11. QED
  BY <1>9, <1>10

\* A step of one call touches neither the vectors nor the tasks of another.
LEMMA OtherCallsKeep ==
  ASSUME PermitInv, OutcomeInv, NEW c \in Calls, CallStep(c), NEW d \in Calls, d # c
  PROVE  (Accounts(d) /\ Stands(d))'
<1>1. /\ UNCHANGED registered /\ call'[d] = call[d] /\ spawned'[d] = spawned[d]
      /\ results'[d] = results[d] /\ errors'[d] = errors[d]
  BY DEF CallStep, EvaluateEmpty, EvaluateStart, SpawnSignal, AwaitJoin, JoinNext, Return,
         DropFuture, PermitInv, TypeOK
<1>2. \A i \in Signals : task'[<<d, i>>] = task[<<d, i>>]
  <2>1. CASE task' = task
    BY <2>1
  <2>2. CASE SpawnSignal(c) \/ \E i \in Signals : JoinNext(c, i)
    BY <2>2 DEF SpawnSignal, JoinNext, PermitInv, TypeOK, Tasks
  <2>3. QED
    BY <2>1, <2>2 DEF CallStep, EvaluateEmpty, EvaluateStart, AwaitJoin, Return, DropFuture
<1>3. Joined(d)' = Joined(d)
  BY <1>2 DEF Joined
<1>4. QED
  BY <1>1, <1>3, OthersKeep

\* A step of a call keeps its own vectors in order.
LEMMA OwnCallKeeps ==
  ASSUME PermitInv, OutcomeInv, NEW c \in Calls, CallStep(c)
  PROVE  (Accounts(c) /\ Stands(c))'
<1>0. Accounts(c) /\ Stands(c) /\ spawned[c] \in Nat /\ registered \in Nat
  BY MaxSignalsAssumption DEF OutcomeInv, PermitInv, TypeOK
<1>1. CASE EvaluateEmpty(c)
  <2> DEFINE e == [kind |-> "NoSignals", name |-> 0]
  <2>1. /\ call'[c] = "returned" /\ errors'[c] = <<e>> /\ results'[c] = <<>>
        /\ spawned'[c] = 0 /\ Joined(c)' = {}
    BY <1>0, <1>1 DEF EvaluateEmpty, Stands, Joined, PermitInv, TypeOK
  <2>2. Len(<<e>>) = 1 /\ <<e>>[1] = e /\ Len(<<>>) = 0
    OBVIOUS
  <2>3. Accounted(<<>>, <<e>>, 0, {})
    BY <2>2 DEF Accounted
  <2>4. Accounts(c)'
    BY <2>1, <2>3 DEF Accounts
  <2>5. Stands(c)'
    BY <2>1, <2>2 DEF Stands
  <2>6. QED
    BY <2>4, <2>5
<1>2. CASE EvaluateStart(c) \/ AwaitJoin(c) \/ DropFuture(c)
  <2>1. /\ results' = results /\ errors' = errors /\ spawned' = spawned /\ registered' = registered
        /\ Joined(c)' = Joined(c)
    BY <1>2 DEF EvaluateStart, AwaitJoin, DropFuture, Joined
  <2>2. Accounts(c)'
    BY <1>0, <2>1 DEF Accounts
  <2>3. Stands(c)'
    BY <1>0, <1>2, <2>1 DEF Stands, EvaluateStart, AwaitJoin, DropFuture, PermitInv, TypeOK
  <2>4. QED
    BY <2>2, <2>3
<1>3. CASE SpawnSignal(c)
  <2>1. /\ results' = results /\ errors' = errors /\ call' = call /\ registered' = registered
        /\ call[c] = "spawning"
    BY <1>3 DEF SpawnSignal
  <2>2. results[c] = <<>> /\ errors[c] = <<>> /\ Joined(c) = {} /\ registered > 0
    BY <1>0, <2>1 DEF Stands
  <2>3. Joined(c)' = {}
    BY <1>3, <2>2 DEF SpawnSignal, Joined, PermitInv, TypeOK, Tasks
  <2>4. Accounted(<<>>, <<>>, spawned'[c], {})
    BY FS_EmptySet DEF Accounted
  <2>5. Accounts(c)'
    BY <2>1, <2>2, <2>3, <2>4 DEF Accounts
  <2>6. Stands(c)'
    BY <2>1, <2>2, <2>3 DEF Stands
  <2>7. QED
    BY <2>5, <2>6
<1>4. ASSUME NEW i \in Signals, JoinNext(c, i)
      PROVE  (Accounts(c) /\ Stands(c))'
  BY <1>4, JoinNextAccounts
<1>5. CASE Return(c)
  <2>1. /\ results' = results /\ errors' = errors /\ spawned' = spawned
        /\ Joined(c)' = Joined(c) /\ call'[c] = "returned" /\ spawned[c] > 0
    BY <1>0, <1>5 DEF Return, Joined, Stands, PermitInv, TypeOK
  <2>2. 1..spawned[c] \subseteq Joined(c)
    BY <1>0, <1>5, MaxSignalsAssumption DEF Return, Joined, Signals, PermitInv, TypeOK
  <2>3. Accounts(c)'
    BY <1>0, <2>1 DEF Accounts
  <2>4. Stands(c)'
    BY <2>1, <2>2 DEF Stands
  <2>5. QED
    BY <2>3, <2>4
<1>6. QED
  BY <1>1, <1>2, <1>3, <1>4, <1>5 DEF CallStep

LEMMA InitOutcome == Init => OutcomeInv
<1> SUFFICES ASSUME Init, NEW c \in Calls PROVE Accounts(c) /\ Stands(c)
  BY DEF OutcomeInv
<1>1. /\ results[c] = <<>> /\ errors[c] = <<>> /\ spawned[c] = 0 /\ call[c] = "idle"
      /\ Joined(c) = {}
  BY DEF Init, Joined, Tasks
<1>2. Accounted(<<>>, <<>>, 0, {})
  BY DEF Accounted
<1>3. QED
  BY <1>1, <1>2 DEF Accounts, Stands

LEMMA NextOutcome == PermitInv /\ OutcomeInv /\ [Next]_vars => OutcomeInv'
<1> SUFFICES ASSUME PermitInv, OutcomeInv, [Next]_vars, NEW d \in Calls
             PROVE  (Accounts(d) /\ Stands(d))'
  BY DEF OutcomeInv
<1>1. CASE AddSignal
  <2>1. /\ call' = call /\ spawned' = spawned /\ results' = results /\ errors' = errors
        /\ Joined(d)' = Joined(d) /\ (registered > 0 => registered' > 0)
    BY <1>1 DEF AddSignal, Joined, PermitInv, TypeOK
  <2>2. Accounts(d) /\ Stands(d)
    BY DEF OutcomeInv
  <2>3. QED
    BY <2>1, <2>2 DEF Accounts, Stands
<1>2. ASSUME NEW c \in Calls, CallStep(c) PROVE (Accounts(d) /\ Stands(d))'
  BY <1>2, OwnCallKeeps, OtherCallsKeep
<1>3. ASSUME NEW t \in Tasks, TaskStep(t) PROVE (Accounts(d) /\ Stands(d))'
  <2>1. /\ UNCHANGED <<registered, call, spawned, results, errors>>
        /\ \A u \in Tasks : task'[u] = "joined" <=> task[u] = "joined"
    BY <1>3, TaskStepJoinsNobody
  <2>2. Joined(d)' = Joined(d)
    BY <2>1 DEF Joined, Tasks
  <2>3. QED
    BY <2>1, <2>2, OthersKeep
<1>4. CASE UNCHANGED vars
  <2>1. Joined(d)' = Joined(d)
    BY <1>4 DEF vars, Joined
  <2>2. QED
    BY <1>4, <2>1, OthersKeep DEF vars
<1>5. QED
  BY <1>1, <1>2, <1>3, <1>4 DEF Next

\* What the invariant says of a call that has returned.
LEMMA OutcomesFollow == PermitInv /\ OutcomeInv => OneOutcomeEach
<1> SUFFICES ASSUME PermitInv, OutcomeInv, NEW c \in Calls, call[c] = "returned"
             PROVE  /\ spawned[c] > 0 => Len(results[c]) + Len(errors[c]) = spawned[c]
                    /\ \A i \in Signals : Cardinality(InResults(c, i)) + Cardinality(InErrors(c, i)) <= 1
                    /\ spawned[c] = 0 <=> \E k \in 1..Len(errors[c]) : errors[c][k].kind = "NoSignals"
  BY DEF OneOutcomeEach
<1>1. /\ Accounted(results[c], errors[c], spawned[c], Joined(c)) /\ Stands(c)
      /\ spawned[c] \in 0..MaxSignals
  BY DEF OutcomeInv, Accounts, PermitInv, TypeOK
<1>2. ASSUME spawned[c] > 0 PROVE Len(results[c]) + Len(errors[c]) = spawned[c]
  <2>1. Joined(c) = 1..spawned[c]
    <3>1. 1..spawned[c] \subseteq Joined(c)
      BY <1>1, <1>2 DEF Stands
    <3>2. \A i \in Joined(c) : ~(i > spawned[c])
      BY DEF Joined, PermitInv, SpawnedPrefix
    <3>3. QED
      BY <1>1, <3>1, <3>2, MaxSignalsAssumption DEF Joined, Signals
  <2>2. Cardinality(1..spawned[c]) = spawned[c]
    BY <1>1, <1>2, MaxSignalsAssumption, FS_Interval
  <2>3. QED
    BY <1>1, <1>2, <2>1, <2>2 DEF Accounted
<1>3. ASSUME NEW i \in Signals
      PROVE  Cardinality(InResults(c, i)) + Cardinality(InErrors(c, i)) <= 1
  <2>1. i # 0
    BY MaxSignalsAssumption DEF Signals
  <2>2. InResults(c, i) = {} \/ \E k \in 1..Len(results[c]) : InResults(c, i) = {k}
    BY <1>1 DEF Accounted, InResults
  <2>3. InErrors(c, i) = {} \/ \E k \in 1..Len(errors[c]) : InErrors(c, i) = {k}
    BY <1>1, <2>1 DEF Accounted, InErrors
  <2>4. InResults(c, i) = {} \/ InErrors(c, i) = {}
    BY <1>1 DEF Accounted, InResults, InErrors
  <2>5. Cardinality({}) = 0
    BY FS_EmptySet
  <2>6. Cardinality(InResults(c, i)) \in {0, 1}
    <3>1. CASE InResults(c, i) = {}
      BY <2>5, <3>1
    <3>2. ASSUME NEW k \in 1..Len(results[c]), InResults(c, i) = {k}
          PROVE  Cardinality(InResults(c, i)) \in {0, 1}
      <4>1. Cardinality({k}) = 1
        BY FS_Singleton
      <4>2. QED
        BY <3>2, <4>1
    <3>3. QED
      BY <2>2, <3>1, <3>2
  <2>7. Cardinality(InErrors(c, i)) \in {0, 1}
    <3>1. CASE InErrors(c, i) = {}
      BY <2>5, <3>1
    <3>2. ASSUME NEW k \in 1..Len(errors[c]), InErrors(c, i) = {k}
          PROVE  Cardinality(InErrors(c, i)) \in {0, 1}
      <4>1. Cardinality({k}) = 1
        BY FS_Singleton
      <4>2. QED
        BY <3>2, <4>1
    <3>3. QED
      BY <2>3, <3>1, <3>2
  <2>8. CASE InResults(c, i) = {}
    <3>1. Cardinality(InResults(c, i)) = 0
      BY <2>5, <2>8
    <3>2. QED
      BY <2>7, <3>1
  <2>9. CASE InErrors(c, i) = {}
    <3>1. Cardinality(InErrors(c, i)) = 0
      BY <2>5, <2>9
    <3>2. QED
      BY <2>6, <3>1
  <2>10. QED
    BY <2>4, <2>8, <2>9
<1>4. spawned[c] = 0 <=> \E k \in 1..Len(errors[c]) : errors[c][k].kind = "NoSignals"
  <2>1. CASE spawned[c] = 0
    <3>1. Len(errors[c]) = 1 /\ errors[c][1].kind = "NoSignals"
      BY <1>1, <2>1 DEF Stands
    <3>2. 1 \in 1..Len(errors[c])
      BY <3>1
    <3>3. QED
      BY <2>1, <3>1, <3>2
  <2>2. CASE spawned[c] > 0
    <3>1. \A k \in 1..Len(errors[c]) : errors[c][k].kind # "NoSignals"
      BY <1>1, <2>2 DEF Accounted
    <3>2. spawned[c] # 0
      BY <1>1, <2>2, MaxSignalsAssumption
    <3>3. QED
      BY <3>1, <3>2
  <2>3. QED
    BY <1>1, <2>1, <2>2, MaxSignalsAssumption
<1>5. QED
  BY <1>2, <1>3, <1>4

\* Every signal registered when a call of evaluate begins has one outcome in its answer,
\* whatever the others do and however many calls share the pipeline.
THEOREM OneOutcome == Spec => []OneOutcomeEach
<1>1. Spec => []OutcomeInv
  BY PermitInvariance, InitOutcome, NextOutcome, PTL DEF Spec
<1>2. QED
  BY PermitInvariance, OutcomesFollow, <1>1, PTL

-----------------------------------------------------------------------------
(* The refinement of EvaluateContract. *)

\* No signal is added while a call is in flight, so a call that joins has spawned all.
SpawnedAll == \A c \in Calls : call[c] = "joining" => spawned[c] = registered

ContractInv == PermitInv /\ OutcomeInv /\ SpawnedAll

LEMMA InitSpawnedAll == Init => SpawnedAll
BY DEF Init, SpawnedAll

LEMMA SpawnedAllStep == PermitInv /\ SpawnedAll /\ [Next]_vars => SpawnedAll'
<1> SUFFICES ASSUME PermitInv, SpawnedAll, [Next]_vars, NEW d \in Calls,
                    call'[d] = "joining"
             PROVE  spawned'[d] = registered'
  BY DEF SpawnedAll
<1> USE DEF SpawnedAll, PermitInv, TypeOK
<1>1. CASE AddSignal
  BY <1>1 DEF AddSignal, InFlight
<1>2. ASSUME NEW c \in Calls, CallStep(c) PROVE spawned'[d] = registered'
  BY <1>2 DEF CallStep, EvaluateEmpty, EvaluateStart, SpawnSignal, AwaitJoin, JoinNext,
              Return, DropFuture
<1>3. ASSUME NEW t \in Tasks, TaskStep(t) PROVE spawned'[d] = registered'
  BY <1>3 DEF TaskStep, AcquireNow, AcquireWait, Begin, DeadlineElapses, Finish, TimeOut, Reap
<1>4. CASE UNCHANGED vars
  BY <1>4 DEF vars
<1>5. QED
  BY <1>1, <1>2, <1>3, <1>4 DEF Next

LEMMA ContractInvariance == Spec => []ContractInv
BY PermitInvariance, InitOutcome, NextOutcome, InitSpawnedAll, SpawnedAllStep, PTL
   DEF Spec, ContractInv

\* One step of the abstract state: the phase of one call, the progress of one signal.
PhaseMoves(c, p) == Phase(c)' = p /\ \A d \in Calls \ {c} : Phase(d)' = Phase(d)
ProgressMoves(t, p) == Progress(t)' = p /\ \A u \in Tasks \ {t} : Progress(u)' = Progress(u)

LEMMA PhaseMapped ==
  ASSUME NEW c \in Calls, NEW p, PhaseMoves(c, p)
  PROVE  [d \in Calls |-> Phase(d)]' = [[d \in Calls |-> Phase(d)] EXCEPT ![c] = p]
BY DEF PhaseMoves

LEMMA ProgressMapped ==
  ASSUME NEW t \in Tasks, NEW p, ProgressMoves(t, p)
  PROVE  [u \in Tasks |-> Progress(u)]' = [[u \in Tasks |-> Progress(u)] EXCEPT ![t] = p]
BY DEF ProgressMoves

\* A task that is alive belongs to a call that is in flight or was dropped.
LEMMA AliveOfOpen ==
  ASSUME ContractInv, NEW t \in Tasks, task[t] \notin {"none", "joined"}
  PROVE  Phase(t[1]) \in {"open", "dropped"}
<1> DEFINE c == t[1]
           i == t[2]
<1>1. c \in Calls /\ i \in Signals /\ t = <<c, i>>
  BY DEF Tasks
<1>2. i \in Nat \ {0} /\ spawned[c] \in Nat /\ call[c] \in CallStates
  BY <1>1, MaxSignalsAssumption DEF Signals, ContractInv, PermitInv, TypeOK
<1>3. i <= spawned[c]
  BY <1>1, <1>2 DEF ContractInv, PermitInv, SpawnedPrefix
<1>4. Stands(c)
  BY <1>1 DEF ContractInv, OutcomeInv
<1>5. call[c] # "idle"
  BY <1>2, <1>3, <1>4 DEF Stands
<1>6. call[c] # "returned"
  <2>1. i \notin Joined(c)
    BY <1>1 DEF Joined
  <2>2. QED
    BY <1>2, <1>3, <1>4, <2>1 DEF Stands
<1>7. QED
  BY <1>2, <1>5, <1>6 DEF CallStates, Phase, InFlight

\* The permit a task gives back moves no other signal's progress.
LEMMA ReleaseMapped ==
  ASSUME PermitInv, NEW t \in Tasks, task[t] \in {"granted", "running"},
         NEW next \in {"reaped"} \cup Outcomes, Release(t, next)
  PROVE  ProgressMoves(t, "over")
<1>1. CASE waiters = <<>>
  <2>1. task' = [task EXCEPT ![t] = next]
    BY <1>1 DEF Release
  <2>2. QED
    BY <2>1 DEF ProgressMoves, Progress, PermitInv, TypeOK, Outcomes
<1>2. CASE waiters # <<>>
  <2> DEFINE h == Head(waiters)
  <2>1. task' = [task EXCEPT ![t] = next, ![h] = "granted"]
    BY <1>2 DEF Release
  <2>2. h \in Tasks /\ task[h] = "queued"
    <3>1. Len(waiters) \in Nat \ {0} /\ h = waiters[1] /\ h \in Tasks
      BY <1>2, HeadTailProperties, EmptySeq DEF PermitInv, TypeOK
    <3>2. QED
      BY <3>1 DEF PermitInv, QueueSound
  <2> HIDE DEF h
  <2>3. task'[t] = next /\ \A u \in Tasks \ {t} :
           task'[u] = task[u] \/ (task[u] = "queued" /\ task'[u] = "granted")
    BY <2>1, <2>2 DEF PermitInv, TypeOK
  <2>4. QED
    BY <2>3 DEF ProgressMoves, Progress, Outcomes
<1>3. QED
  BY <1>1, <1>2

\* A signal begins within the limit, since its task holds a permit while it waits or
\* takes one that is left.
LEMMA RoomToBegin ==
  ASSUME PermitInv, NEW t \in Tasks, task[t] = "granted" \/ (task[t] = "spawned" /\ permits > 0)
  PROVE  Cardinality({u \in Tasks : task[u] = "running"}) < Permits
<1> DEFINE R == {u \in Tasks : task[u] = "running"}
<1>1. /\ IsFiniteSet(Holders) /\ Cardinality(Holders) \in Nat
      /\ IsFiniteSet(R) /\ Cardinality(R) \in Nat
  BY TasksFinite DEF Holders
<1>2. permits \in Nat /\ permits + Cardinality(Holders) = Permits
  BY PermitsPositive DEF PermitInv, TypeOK, PermitConservation
<1>3. CASE task[t] = "granted"
  <2>1. t \in Holders /\ R \subseteq Holders \ {t}
    BY <1>3 DEF Holders
  <2>2. IsFiniteSet(Holders \ {t}) /\ Cardinality(Holders \ {t}) = Cardinality(Holders) - 1
    BY <1>1, <2>1, FS_RemoveElement
  <2>3. Cardinality(R) <= Cardinality(Holders \ {t})
    BY <2>1, <2>2, FS_Subset
  <2>4. QED
    BY <1>1, <1>2, <2>2, <2>3, PermitsPositive
<1>4. CASE permits > 0
  <2>1. R \subseteq Holders
    BY DEF Holders
  <2>2. Cardinality(R) <= Cardinality(Holders)
    BY <1>1, <2>1, FS_Subset
  <2>3. QED
    BY <1>1, <1>2, <1>4, <2>2, PermitsPositive
<1>5. QED
  BY <1>3, <1>4

LEMMA ContractInit == Init => Contract!Init
BY DEF Init, Contract!Init, Contract!Tasks, Contract!Signals, Tasks, Signals, Phase, InFlight,
       Progress

\* A step of a call is a step of its phase, of the progress of one signal, or neither.
LEMMA CallStepMapped ==
  ASSUME ContractInv, NEW c \in Calls, CallStep(c)
  PROVE  Contract!Next \/ UNCHANGED Contract!vars
<1> USE DEF PermitInv, TypeOK
<1>0. PermitInv /\ Stands(c) /\ (call[c] = "joining" => spawned[c] = registered)
  BY DEF ContractInv, OutcomeInv, SpawnedAll
<1>1. ASSUME NEW p, UNCHANGED <<registered, task>>, PhaseMoves(c, p)
      PROVE  /\ [d \in Calls |-> Phase(d)]' = [[d \in Calls |-> Phase(d)] EXCEPT ![c] = p]
             /\ [t \in Tasks |-> Progress(t)]' = [t \in Tasks |-> Progress(t)]
             /\ registered' = registered
  BY <1>1, PhaseMapped DEF Progress
<1>2. CASE EvaluateEmpty(c)
  <2>1. PhaseMoves(c, "returned") /\ Phase(c) = "idle" /\ registered = 0
    BY <1>0, <1>2 DEF EvaluateEmpty, PhaseMoves, Phase, InFlight
  <2>2. Contract!Open(c)
    BY <1>1, <1>2, <2>1 DEF EvaluateEmpty, Contract!Open
  <2>3. QED
    BY <2>2 DEF Contract!Next
<1>3. CASE EvaluateStart(c)
  <2>1. PhaseMoves(c, "open") /\ Phase(c) = "idle" /\ registered # 0
    BY <1>0, <1>3 DEF EvaluateStart, PhaseMoves, Phase, InFlight
  <2>2. Contract!Open(c)
    BY <1>1, <1>3, <2>1 DEF EvaluateStart, Contract!Open
  <2>3. QED
    BY <2>2 DEF Contract!Next
<1>4. CASE SpawnSignal(c)
  <2>1. UNCHANGED <<registered, call>>
    BY <1>4 DEF SpawnSignal
  <2> DEFINE t == <<c, spawned[c] + 1>>
  <2>2. t \in Tasks /\ task[t] = "none"
    BY <1>0, <1>4, MaxSignalsAssumption DEF SpawnSignal, SpawnedPrefix, Tasks, Signals
  <2>3. task' = [task EXCEPT ![t] = "spawned"]
    BY <1>4 DEF SpawnSignal
  <2> HIDE DEF t
  <2>4. \A u \in Tasks : Progress(u)' = Progress(u)
    BY <1>0, <2>2, <2>3 DEF Progress
  <2>5. QED
    BY <2>1, <2>4 DEF Contract!vars, Phase, InFlight
<1>5. CASE AwaitJoin(c)
  <2>1. UNCHANGED <<registered, task>> /\ \A d \in Calls : Phase(d)' = Phase(d)
    BY <1>0, <1>5 DEF AwaitJoin, Phase, InFlight
  <2>2. QED
    BY <2>1 DEF Contract!vars, Progress
<1>6. ASSUME NEW i \in Signals, JoinNext(c, i)
      PROVE  Contract!Next
  <2> DEFINE t == <<c, i>>
  <2>1. t \in Tasks /\ t[1] = c /\ Phase(c) = "open" /\ Progress(t) = "over"
    BY <1>6 DEF JoinNext, Phase, InFlight, Progress, Outcomes, Tasks
  <2>2. ProgressMoves(t, "reported")
    BY <1>0, <1>6 DEF JoinNext, ProgressMoves, Progress, Tasks
  <2>3. UNCHANGED <<registered, call>>
    BY <1>6 DEF JoinNext
  <2> HIDE DEF t
  <2>4. Contract!Report(t)
    BY <2>1, <2>2, <2>3, ProgressMapped DEF Contract!Report, Phase, InFlight
  <2>5. QED
    BY <2>1, <2>4 DEF Contract!Next, Contract!Tasks, Contract!Signals, Tasks, Signals
<1>7. CASE Return(c)
  <2>1. PhaseMoves(c, "returned") /\ Phase(c) = "open"
    BY <1>0, <1>7 DEF Return, PhaseMoves, Phase, InFlight
  <2>2. \A i \in 1..registered : <<c, i>> \in Tasks /\ Progress(<<c, i>>) = "reported"
    BY <1>0, <1>7, MaxSignalsAssumption DEF Return, Progress, Tasks, Signals
  <2>3. Contract!Answer(c)
    BY <1>1, <1>7, <2>1, <2>2 DEF Return, Contract!Answer
  <2>4. QED
    BY <2>3 DEF Contract!Next
<1>8. CASE DropFuture(c)
  <2>1. PhaseMoves(c, "dropped") /\ Phase(c) = "open"
    BY <1>0, <1>8 DEF DropFuture, PhaseMoves, Phase, InFlight
  <2>2. Contract!Abandon(c)
    BY <1>1, <1>8, <2>1 DEF DropFuture, Contract!Abandon
  <2>3. QED
    BY <2>2 DEF Contract!Next
<1>9. QED
  BY <1>2, <1>3, <1>4, <1>5, <1>6, <1>7, <1>8 DEF CallStep

\* A step of a task begins its signal, ends it, discards it, or is none of the caller's
\* business.
LEMMA TaskStepMapped ==
  ASSUME ContractInv, NEW t \in Tasks, TaskStep(t)
  PROVE  Contract!Next \/ UNCHANGED Contract!vars
<1> USE DEF PermitInv, TypeOK
<1>0. PermitInv /\ t[1] \in Calls
  BY DEF ContractInv, Tasks
<1>1. UNCHANGED <<registered, call>> /\ \A c \in Calls : Phase(c)' = Phase(c)
  BY DEF TaskStep, AcquireNow, AcquireWait, Begin, DeadlineElapses, Finish, TimeOut, Reap,
         Phase, InFlight
<1>2. t \in Contract!Tasks
  BY DEF Contract!Tasks, Contract!Signals, Tasks, Signals
<1>3. ASSUME \A u \in Tasks : Progress(u)' = Progress(u) PROVE UNCHANGED Contract!vars
  BY <1>1, <1>3 DEF Contract!vars
<1>4. ASSUME task[t] = "granted" \/ (task[t] = "spawned" /\ permits > 0),
             ProgressMoves(t, "active")
      PROVE  Contract!Next
  <2>1. Phase(t[1]) \in {"open", "dropped"} /\ Progress(t) = "waiting"
    BY <1>4, AliveOfOpen DEF Progress
  <2>2. Contract!Active = {u \in Tasks : task[u] = "running"}
    BY DEF Contract!Active, Contract!Tasks, Contract!Signals, Tasks, Signals, Progress
  <2>3. Contract!Cardinality(Contract!Active) < Permits
    <3>1. Contract!Cardinality(Contract!Active) = Cardinality(Contract!Active)
      BY DEF Contract!Cardinality, Cardinality
    <3>2. QED
      BY <1>0, <1>4, <2>2, <3>1, RoomToBegin
  <2>4. Contract!Begin(t)
    BY <1>0, <1>1, <1>4, <2>1, <2>3, ProgressMapped DEF Contract!Begin
  <2>5. QED
    BY <1>2, <2>4 DEF Contract!Next
<1>5. ASSUME task[t] = "running", ProgressMoves(t, "over") PROVE Contract!Next
  <2>1. Contract!End(t)
    BY <1>1, <1>5, ProgressMapped DEF Contract!End, Progress
  <2>2. QED
    BY <1>2, <2>1 DEF Contract!Next
<1>6. ASSUME call[t[1]] = "dropped", task[t] \in {"spawned", "queued", "granted"},
             ProgressMoves(t, "over")
      PROVE  Contract!Next
  <2>1. Contract!Discard(t)
    BY <1>0, <1>1, <1>6, ProgressMapped DEF Contract!Discard, Progress, Phase, InFlight
  <2>2. QED
    BY <1>2, <2>1 DEF Contract!Next
<1>7. CASE AcquireNow(t)
  <2>1. ProgressMoves(t, "active")
    BY <1>0, <1>7 DEF AcquireNow, ProgressMoves, Progress
  <2>2. QED
    BY <1>4, <1>7, <2>1 DEF AcquireNow
<1>8. CASE AcquireWait(t)
  <2>1. \A u \in Tasks : Progress(u)' = Progress(u)
    BY <1>0, <1>8 DEF AcquireWait, Progress
  <2>2. QED
    BY <1>3, <2>1
<1>9. CASE Begin(t)
  <2>1. ProgressMoves(t, "active")
    BY <1>0, <1>9 DEF Begin, ProgressMoves, Progress
  <2>2. QED
    BY <1>4, <1>9, <2>1 DEF Begin
<1>10. CASE DeadlineElapses(t)
  <2>1. \A u \in Tasks : Progress(u)' = Progress(u)
    BY <1>10 DEF DeadlineElapses, Progress
  <2>2. QED
    BY <1>3, <2>1
<1>11. ASSUME NEW outcome \in Outcomes, Finish(t, outcome) PROVE Contract!Next
  BY <1>0, <1>5, <1>11, ReleaseMapped DEF Finish
<1>12. CASE TimeOut(t)
  BY <1>0, <1>5, <1>12, ReleaseMapped DEF TimeOut, Outcomes
<1>13. CASE Reap(t)
  <2>0. call[t[1]] = "dropped"
    BY <1>13 DEF Reap
  <2>1. CASE task[t] \in Outcomes
    <3>1. task' = [task EXCEPT ![t] = "reaped"]
      BY <1>13, <2>1 DEF Reap, Outcomes
    <3>2. \A u \in Tasks : Progress(u)' = Progress(u)
      BY <1>0, <2>1, <3>1 DEF Progress, Outcomes
    <3>3. QED
      BY <1>3, <3>2
  <2>2. CASE task[t] \in {"spawned", "queued"}
    <3>1. task' = [task EXCEPT ![t] = "reaped"]
      BY <1>13, <2>2 DEF Reap, Outcomes
    <3>2. ProgressMoves(t, "over")
      BY <1>0, <3>1 DEF ProgressMoves, Progress
    <3>3. QED
      BY <1>6, <2>0, <2>2, <3>2
  <2>3. CASE task[t] \in {"granted", "running"}
    <3>1. Release(t, "reaped")
      BY <1>13, <2>3 DEF Reap, Outcomes
    <3>2. ProgressMoves(t, "over")
      BY <1>0, <2>3, <3>1, ReleaseMapped
    <3>3. QED
      BY <1>5, <1>6, <2>0, <2>3, <3>2
  <2>4. QED
    BY <1>13, <2>1, <2>2, <2>3 DEF Reap
<1>14. QED
  BY <1>7, <1>8, <1>9, <1>10, <1>11, <1>12, <1>13 DEF TaskStep

LEMMA ContractStep == ContractInv /\ [Next]_vars => [Contract!Next]_Contract!vars
<1> SUFFICES ASSUME ContractInv, [Next]_vars PROVE Contract!Next \/ UNCHANGED Contract!vars
  OBVIOUS
<1>1. CASE AddSignal
  <2>1. /\ \A c \in Calls : Phase(c) # "open"
        /\ \A c \in Calls : Phase(c)' = Phase(c)
        /\ \A t \in Tasks : Progress(t)' = Progress(t)
        /\ registered < MaxSignals /\ registered' = registered + 1
    BY <1>1 DEF AddSignal, Phase, InFlight, Progress, ContractInv, PermitInv, TypeOK, CallStates
  <2>2. Contract!Register
    BY <2>1 DEF Contract!Register
  <2>3. QED
    BY <2>2 DEF Contract!Next
<1>2. CASE UNCHANGED vars
  BY <1>2 DEF vars, Contract!vars, Phase, InFlight, Progress
<1>3. QED
  BY <1>1, <1>2, CallStepMapped, TaskStepMapped DEF Next

\* Whatever the tasks, the semaphore, timeouts and dropped callers do, callers see what
\* EvaluateContract promises: at most Permits signals inside their evaluate, and an answer
\* only when every signal is accounted for.
THEOREM PipelineRefinesContract == Spec => ImplementsContract
BY ContractInit, ContractStep, ContractInvariance, PTL
   DEF Spec, ImplementsContract, Contract!Spec

=============================================================================
