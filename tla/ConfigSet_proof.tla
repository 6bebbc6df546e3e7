-------------------------- MODULE ConfigSet_proof --------------------------
(***************************************************************************)
(* Proofs about ConfigSet, for every set of processes, keys and values.    *)
(***************************************************************************)
EXTENDS ConfigSet, TLAPS

\* A key without a value is no string.
Plain(f) == \A k \in Keys : f[k].value = None => ~f[k].string

\* Each string that should have a type was left by a set that is yet to give it one.
Owned(f, except) ==
    \A k \in TypedKeys \ except : f[k].string =>
        \E q \in Procs : pc[q] \in {"kitWrite", "reread", "truncate"} /\ job[q].key = k

\* The entries of all keys but some hold what the keys were last given, unless a set
\* other than p emptied the file.
Kept(f, except, others) ==
    \/ \A k \in Keys \ except : f[k].value = intended[k]
    \/ \E q \in others : Filling(q)

\* What an active process has read is what the file holds, or held before it was emptied.
ReaderInv(p) ==
    /\ pc[p] \in {"kitOpen", "truncate"} => buffer[p] = file
    /\ pc[p] \in {"kitOpen", "reread", "truncate"} => ~torn
    /\ pc[p] \in {"reread", "truncate", "write"} => intended[job[p].key] = job[p].value
    /\ Filling(p) => /\ Owned(buffer[p], {job[p].key})
                     /\ Kept(buffer[p], {job[p].key}, Procs \ {p})

ConfigInv ==
    /\ TypeOK
    /\ Plain(file)
    /\ \A p \in Procs : Plain(buffer[p])
    /\ ~overlapped =>
          /\ \A p, q \in Procs : Active(p) /\ Active(q) => p = q
          /\ \A p \in Procs : Active(p) => ReaderInv(p)
          /\ Owned(file, {})
          /\ Kept(file, {}, Procs)
          /\ torn => \E p \in Procs : Filling(p)

-----------------------------------------------------------------------------

\* No entry that a part of f has of a key is a string unless f's is, and none has a value
\* unless f's has.
LEMMA PartsAre ==
    ASSUME NEW f, f \in [Keys -> Entries], NEW g \in Parts(f), NEW k \in Keys
    PROVE  /\ g \in [Keys -> Entries]
           /\ g[k].string => f[k].string /\ g[k] = f[k]
  BY DEF Parts, Entries, Nothing

LEMMA InitConfig == Init => ConfigInv
<1> SUFFICES ASSUME Init PROVE ConfigInv
  OBVIOUS
<1>1. Empty \in [Keys -> Entries]
  BY DEF Empty, Nothing, Entries
<1>2. TypeOK
  BY <1>1 DEF Init, TypeOK
<1>3. Plain(Empty)
  BY DEF Plain, Empty, Nothing
<1>4. Plain(file) /\ \A p \in Procs : Plain(buffer[p])
  BY <1>3 DEF Init
<1>5. \A p \in Procs : ~Active(p)
  BY DEF Init, Active, Rewriting
<1>6. Owned(file, {})
  BY KeysAssumption DEF Init, Owned, Empty, Nothing
<1>7. Kept(file, {}, Procs)
  BY DEF Init, Kept, Empty, Nothing
<1>8. ~torn
  BY DEF Init
<1>9. QED
  BY <1>8, <1>2, <1>4, <1>5, <1>6, <1>7 DEF ConfigInv

\* What a process writes is a file.
LEMMA TargetIs ==
    ASSUME TypeOK, NEW p \in Procs
    PROVE  /\ Target(p) \in [Keys -> Entries]
           /\ Target(p)[job[p].key].value = job[p].value
           /\ Target(p)[job[p].key].string <=> pc[p] = "kitWrite"
           /\ \A k \in Keys \ {job[p].key} : Target(p)[k] = buffer[p][k]
           /\ job[p].key \in Keys /\ job[p].value \in Values /\ job[p].value # None
<1>1. buffer[p] \in [Keys -> Entries] /\ job[p].key \in Keys /\ job[p].value \in Values
  BY DEF TypeOK, Jobs
<1> DEFINE written == [value |-> job[p].value, string |-> pc[p] = "kitWrite"]
<1>2. /\ written \in Entries /\ written.value = job[p].value
      /\ written.string <=> pc[p] = "kitWrite"
  BY <1>1 DEF Entries
<1>3. Target(p) = [buffer[p] EXCEPT ![job[p].key] = written]
  BY DEF Target
<1> HIDE DEF written
<1>4. Target(p)[job[p].key] = written
  BY <1>1, <1>3
<1>5. QED
  BY <1>1, <1>2, <1>3, <1>4, KeysAssumption

\* Every step keeps each variable in its type.
LEMMA StepType == TypeOK /\ [Next]_vars => TypeOK'
<1> SUFFICES ASSUME TypeOK, [Next]_vars PROVE TypeOK'
  OBVIOUS
<1>0. Empty \in [Keys -> Entries]
  BY DEF Empty, Nothing, Entries
<1> USE KeysAssumption DEF TypeOK, Rewriting
<1>1. ASSUME NEW p \in Procs, Load(p) PROVE TypeOK'
  BY <1>1 DEF Load
<1>2. ASSUME NEW p \in Procs, KitRead(p) PROVE TypeOK'
  BY <1>2 DEF KitRead
<1>3. ASSUME NEW p \in Procs, KitWrite(p) PROVE TypeOK'
  BY <1>0, <1>3, TargetIs DEF KitWrite
<1>4. ASSUME NEW p \in Procs, Reread(p) PROVE TypeOK'
  BY <1>4 DEF Reread
<1>5. ASSUME NEW p \in Procs, KitOpen(p) \/ Truncate(p) PROVE TypeOK'
  BY <1>0, <1>5 DEF KitOpen, Truncate, Open
<1>6. ASSUME NEW p \in Procs, Write(p) PROVE TypeOK'
  BY <1>0, <1>6, TargetIs DEF Write
<1>7. ASSUME NEW p \in Procs, Interrupt(p) PROVE TypeOK'
  BY <1>0, <1>7 DEF Interrupt
<1>8. ASSUME NEW k \in Keys, NEW v \in Values, HandEdit(k, v) PROVE TypeOK'
  BY <1>8 DEF HandEdit, Entries
<1>9. ASSUME NEW p \in Procs, WritePart(p) PROVE TypeOK'
  BY <1>9 DEF WritePart, Parts
<1>10. CASE UNCHANGED vars
  BY <1>10 DEF vars
<1>11. QED
  BY <1>1, <1>2, <1>3, <1>4, <1>5, <1>6, <1>7, <1>8, <1>9, <1>10 DEF Next

\* No step makes a string of a key without a value.
LEMMA StepPlain ==
    ASSUME TypeOK, Plain(file), \A p \in Procs : Plain(buffer[p]), [Next]_vars
    PROVE  Plain(file') /\ \A p \in Procs : Plain(buffer'[p])
<1>0. Plain(Empty)
  BY DEF Plain, Empty, Nothing
<1>a. ASSUME NEW p \in Procs PROVE Plain(Target(p))
  <2>1. ASSUME NEW k \in Keys, Target(p)[k].value = None PROVE ~Target(p)[k].string
    <3>1. k # job[p].key
      BY <2>1, TargetIs
    <3>2. Target(p)[k] = buffer[p][k]
      BY <3>1, TargetIs
    <3>3. QED
      BY <2>1, <3>2 DEF Plain
  <2>2. QED
    BY <2>1 DEF Plain
<1>1. ASSUME NEW p \in Procs, Load(p) \/ Interrupt(p)
      PROVE  Plain(file') /\ \A q \in Procs : Plain(buffer'[q])
  BY <1>0, <1>1 DEF Load, Interrupt, TypeOK
<1>2. ASSUME NEW p \in Procs, KitRead(p) \/ Reread(p)
      PROVE  Plain(file') /\ \A q \in Procs : Plain(buffer'[q])
  BY <1>2 DEF KitRead, Reread, TypeOK
<1>3. ASSUME NEW p \in Procs, KitWrite(p) \/ Write(p)
      PROVE  Plain(file') /\ \A q \in Procs : Plain(buffer'[q])
  BY <1>0, <1>a, <1>3 DEF KitWrite, Write, TypeOK
<1>4. ASSUME NEW p \in Procs, KitOpen(p) \/ Truncate(p)
      PROVE  Plain(file') /\ \A q \in Procs : Plain(buffer'[q])
  BY <1>0, <1>4 DEF KitOpen, Truncate, Open
<1>5. ASSUME NEW k \in Keys, NEW v \in Values, HandEdit(k, v)
      PROVE  Plain(file') /\ \A q \in Procs : Plain(buffer'[q])
  BY <1>5, KeysAssumption DEF HandEdit, Plain, TypeOK
<1>6. ASSUME NEW p \in Procs, WritePart(p)
      PROVE  Plain(file') /\ \A q \in Procs : Plain(buffer'[q])
  <2>1. file' \in Parts(Target(p)) /\ buffer' = buffer
    BY <1>6 DEF WritePart
  <2>2. \A k \in Keys : file'[k].string => Target(p)[k].string /\ file'[k] = Target(p)[k]
    BY <2>1, TargetIs, PartsAre
  <2>3. \A k \in Keys : Target(p)[k].value = None => ~Target(p)[k].string
    BY <1>a DEF Plain
  <2>4. Plain(file')
    BY <2>2, <2>3 DEF Plain
  <2>5. QED
    BY <2>1, <2>4
<1>7. CASE UNCHANGED vars
  BY <1>7 DEF vars
<1>8. QED
  BY <1>1, <1>2, <1>3, <1>4, <1>5, <1>6, <1>7 DEF Next

\* What holds as long as nothing overlapped.
Calm ==
    /\ \A p, q \in Procs : Active(p) /\ Active(q) => p = q
    /\ \A p \in Procs : Active(p) => ReaderInv(p)
    /\ Owned(file, {})
    /\ Kept(file, {}, Procs)
    /\ torn => \E p \in Procs : Filling(p)

LEMMA StepCalm ==
    ASSUME ConfigInv, Calm, ~overlapped', [Next]_vars
    PROVE  Calm'
<1> USE KeysAssumption DEF ConfigInv, TypeOK, Calm, Active, Rewriting
<1>0. /\ \A p \in Procs : job[p].key \in Keys
      /\ Owned(Empty, {})
  BY DEF Jobs, Owned, Empty, Nothing
<1>1. ASSUME NEW p \in Procs, Load(p) PROVE Calm'
  <2>1. /\ pc[p] = "start" /\ pc'[p] \in {"kitRead", "failed"}
        /\ \A q \in Procs \ {p} : pc'[q] = pc[q]
        /\ UNCHANGED <<file, torn, job, buffer, stopped, intended>>
    BY <1>1 DEF Load, At
  <2>2. /\ \A q \in Procs : Active(q)' => q # p /\ Active(q)
        /\ \A q \in Procs : Filling(q)' <=> Filling(q)
    BY <2>1 DEF Filling
  <2>3. ASSUME NEW q \in Procs, Active(q)' PROVE ReaderInv(q)'
    <3>1. q # p /\ pc'[q] = pc[q] /\ ReaderInv(q)
      BY <2>1, <2>2, <2>3
    <3>2. ASSUME Filling(q) PROVE Owned(buffer[q], {job[q].key})'
      <4>1. Owned(buffer[q], {job[q].key})
        BY <3>1, <3>2 DEF ReaderInv
      <4>2. QED
        BY ONLY <2>1, <4>1 DEF Owned
    <3>3. ASSUME Filling(q) PROVE Kept(buffer[q], {job[q].key}, Procs \ {q})'
      <4>1. Kept(buffer[q], {job[q].key}, Procs \ {q})
        BY <3>1, <3>3 DEF ReaderInv
      <4>2. QED
        BY ONLY <2>1, <2>2, <4>1 DEF Kept
    <3>4. QED
      BY <2>1, <2>2, <3>1, <3>2, <3>3 DEF ReaderInv
  <2>4. Owned(file, {})'
    BY <2>1 DEF Owned
  <2>5. Kept(file, {}, Procs)'
    BY <2>1, <2>2 DEF Kept
  <2>6. (torn => \E q \in Procs : Filling(q))'
    BY <2>1, <2>2
  <2>7. QED
    BY <2>2, <2>3, <2>4, <2>5, <2>6
<1>2. ASSUME NEW p \in Procs, KitRead(p) PROVE Calm'
  <2>1. \A q \in Procs : ~Active(q)
    BY <1>2 DEF KitRead
  <2>2. /\ pc[p] = "kitRead" /\ pc' = [pc EXCEPT ![p] = IF torn THEN "failed" ELSE "kitOpen"]
        /\ buffer'[p] = file
        /\ UNCHANGED <<file, torn, job, stopped, intended>>
    BY <1>2 DEF KitRead, At
  <2>3. /\ \A q \in Procs : Active(q)' => q = p
        /\ \A q \in Procs : Filling(q)' <=> Filling(q)
    BY <2>1, <2>2 DEF Filling
  <2>4. Active(p)' => ReaderInv(p)'
    BY <2>2, <2>3 DEF ReaderInv, Filling
  <2>5. Owned(file, {})'
    BY <2>2 DEF Owned
  <2>6. Kept(file, {}, Procs)'
    BY <2>2, <2>3 DEF Kept
  <2>7. QED
    BY <2>2, <2>3, <2>4, <2>5, <2>6
<1>3. ASSUME NEW p \in Procs, KitOpen(p) \/ Truncate(p) PROVE Calm'
  <2> DEFINE key == job[p].key
  <2>1. /\ pc[p] \in {"kitOpen", "truncate"} /\ p \notin stopped /\ key \in Keys
        /\ buffer[p] = file
        /\ pc[p] = "truncate" => intended[key] = job[p].value
    BY <1>0, <1>3 DEF KitOpen, Truncate, Open, At, ReaderInv
  <2>2. /\ file' = Empty /\ ~torn' /\ UNCHANGED <<job, stopped, intended, buffer>>
        /\ pc' = [pc EXCEPT ![p] = IF pc[p] = "kitOpen" THEN "kitWrite" ELSE "write"]
    BY <1>3 DEF KitOpen, Truncate, Open, At
  <2>3. /\ \A q \in Procs : Active(q)' => q = p
        /\ \A q \in Procs \ {p} : Filling(q)' <=> Filling(q)
        /\ Filling(p)' /\ ~Filling(p)
    BY <2>1, <2>2 DEF Filling
  <2>4. Owned(buffer[p], {key})'
    BY <2>1, <2>2 DEF Owned
  <2>5. Kept(buffer[p], {key}, Procs \ {p})'
    BY <2>1, <2>2, <2>3 DEF Kept
  <2>6. ReaderInv(p)'
    BY <2>1, <2>2, <2>4, <2>5 DEF ReaderInv
  <2>7. Owned(file, {})'
    BY <2>2 DEF Owned, Empty, Nothing
  <2>8. Kept(file, {}, Procs)'
    BY <2>3 DEF Kept
  <2>9. QED
    BY <2>2, <2>3, <2>6, <2>7, <2>8
<1>4. ASSUME NEW p \in Procs, WritePart(p) PROVE Calm'
  <2> DEFINE key == job[p].key
  <2>1. /\ Filling(p) /\ p \notin stopped /\ file' \in Parts(Target(p))
        /\ UNCHANGED <<pc, job, buffer, stopped, intended>>
    BY <1>4 DEF WritePart
  <2>2. Owned(buffer[p], {key})
    BY <2>1 DEF ReaderInv, Filling
  <2>3. /\ \A q \in Procs : (Active(q)' <=> Active(q)) /\ (Filling(q)' <=> Filling(q))
        /\ \A q \in Procs : Active(q) => q = p
    BY <2>1 DEF Filling
  <2>4. Owned(file, {})'
    <3> SUFFICES ASSUME NEW k \in TypedKeys, file'[k].string
                 PROVE  \E q \in Procs : pc[q] \in {"kitWrite", "reread", "truncate"} /\ job[q].key = k
      BY <2>1 DEF Owned
    <3>1. Target(p)[k].string
      BY <2>1, TargetIs, PartsAre
    <3>2. CASE k = key
      BY <3>1, <3>2, TargetIs
    <3>3. CASE k # key
      BY <2>2, <3>1, <3>3, TargetIs DEF Owned
    <3>4. QED
      BY <3>2, <3>3
  <2>5. ReaderInv(p)'
    <3>1. Owned(buffer[p], {key})' /\ Kept(buffer[p], {key}, Procs \ {p})'
      BY <2>1, <2>2 DEF ReaderInv, Owned, Kept, Filling
    <3>2. QED
      BY <2>1, <3>1 DEF ReaderInv, Filling
  <2>6. Kept(file, {}, Procs)' /\ Filling(p)'
    BY <2>1, <2>3 DEF Kept
  <2>7. QED
    BY <2>3, <2>4, <2>5, <2>6
<1>5. ASSUME NEW p \in Procs, KitWrite(p) \/ Write(p) PROVE Calm'
  <2> DEFINE key == job[p].key
  <2>1. /\ Filling(p) /\ p \notin stopped /\ key \in Keys
        /\ Owned(buffer[p], {key}) /\ Kept(buffer[p], {key}, Procs \ {p})
        /\ pc[p] = "write" => intended[key] = job[p].value
    BY <1>0, <1>5 DEF KitWrite, Write, At, ReaderInv, Filling
  <2>2. /\ file' = Target(p) /\ ~torn' /\ UNCHANGED <<job, stopped>>
        /\ intended' = [intended EXCEPT ![key] = job[p].value]
        /\ pc' = [pc EXCEPT ![p] =
                      IF pc[p] = "kitWrite" /\ key \in TypedKeys THEN "reread" ELSE "done"]
    BY <1>5, <2>1 DEF KitWrite, Write, At, Retypes
  <2>3. /\ \A q \in Procs : Active(q)' => q = p
        /\ \A q \in Procs \ {p} : pc'[q] = pc[q] /\ (Filling(q)' <=> Filling(q))
    BY <2>1, <2>2 DEF Filling
  <2>4. Active(p)' => ReaderInv(p)'
    BY <2>1, <2>2 DEF ReaderInv, Filling
  <2>5. Owned(file, {})'
    <3> SUFFICES ASSUME NEW k \in TypedKeys, file'[k].string
                 PROVE  \E q \in Procs : pc'[q] \in {"kitWrite", "reread", "truncate"} /\ job[q].key = k
      BY <2>2 DEF Owned
    <3>1. CASE k = key
      BY <2>2, <3>1, TargetIs
    <3>2. CASE k # key
      <4>1. buffer[p][k].string
        BY <2>2, <3>2, TargetIs
      <4>2. PICK q \in Procs : pc[q] \in {"kitWrite", "reread", "truncate"} /\ job[q].key = k
        BY <2>1, <3>2, <4>1 DEF Owned
      <4>3. q # p
        BY <3>2, <4>2
      <4>4. QED
        BY <2>3, <4>2, <4>3
    <3>3. QED
      BY <3>1, <3>2
  <2>6. Kept(file, {}, Procs)'
    <3>1. CASE \E q \in Procs \ {p} : Filling(q)
      BY <2>3, <3>1 DEF Kept
    <3>2. CASE \A k \in Keys \ {key} : buffer[p][k].value = intended[k]
      BY <2>1, <2>2, <3>2, TargetIs DEF Kept
    <3>3. QED
      BY <2>1, <3>1, <3>2 DEF Kept
  <2>7. QED
    BY <2>2, <2>3, <2>4, <2>5, <2>6
<1>6. ASSUME NEW p \in Procs, Reread(p) PROVE Calm'
  <2> DEFINE key == job[p].key
  <2>1. /\ pc[p] = "reread" /\ p \notin stopped /\ key \in Keys /\ ~torn
        /\ intended[key] = job[p].value
    BY <1>0, <1>6 DEF Reread, At, ReaderInv
  <2>2. /\ UNCHANGED <<file, torn, job, stopped, intended>>
        /\ buffer'[p] = file
        /\ pc' = [pc EXCEPT ![p] = IF file[key].value = None THEN "done" ELSE "truncate"]
    BY <1>6, <2>1 DEF Reread
  <2>3. /\ \A q \in Procs : Active(q)' => q = p
        /\ \A q \in Procs : Filling(q)' <=> Filling(q)
    BY <2>1, <2>2 DEF Filling
  <2>4. Active(p)' => ReaderInv(p)'
    BY <2>1, <2>2 DEF ReaderInv, Filling
  <2>5. Owned(file, {})'
    <3> SUFFICES ASSUME NEW k \in TypedKeys, file[k].string
                 PROVE  \E q \in Procs : pc'[q] \in {"kitWrite", "reread", "truncate"} /\ job[q].key = k
      BY <2>2 DEF Owned
    <3>1. PICK q \in Procs : pc[q] \in {"kitWrite", "reread", "truncate"} /\ job[q].key = k
      BY DEF Owned
    <3>2. q = p => file[key].value # None
      BY <3>1 DEF Plain
    <3>3. pc'[q] \in {"kitWrite", "reread", "truncate"}
      BY <2>2, <3>1, <3>2
    <3>4. QED
      BY <3>1, <3>3
  <2>6. Kept(file, {}, Procs)'
    BY <2>2, <2>3 DEF Kept
  <2>7. QED
    BY <2>1, <2>2, <2>3, <2>4, <2>5, <2>6
<1>7. ASSUME NEW p \in Procs, Interrupt(p) PROVE Calm'
  <2>1. /\ UNCHANGED <<file, torn, pc, job, intended>> /\ p \in stopped'
        /\ \A q \in Procs \ {p} : buffer'[q] = buffer[q]
        /\ \A q \in Procs : q \notin stopped' => q \notin stopped
    BY <1>7 DEF Interrupt
  <2>2. /\ \A q \in Procs : Filling(q)' <=> Filling(q)
        /\ \A q \in Procs : Active(q)' => Active(q) /\ q # p
    BY <2>1 DEF Filling
  <2>3. ASSUME NEW q \in Procs, Active(q)' PROVE ReaderInv(q)'
    <3>1. ReaderInv(q) /\ buffer'[q] = buffer[q]
      BY <2>1, <2>2, <2>3
    <3>2. ASSUME Filling(q)
          PROVE  Owned(buffer[q], {job[q].key})' /\ Kept(buffer[q], {job[q].key}, Procs \ {q})'
      <4>1. Owned(buffer[q], {job[q].key}) /\ Kept(buffer[q], {job[q].key}, Procs \ {q})
        BY <3>1, <3>2 DEF ReaderInv
      <4>2. Owned(buffer[q], {job[q].key})'
        BY ONLY <2>1, <3>1, <4>1 DEF Owned
      <4>3. Kept(buffer[q], {job[q].key}, Procs \ {q})'
        BY ONLY <2>1, <2>2, <3>1, <4>1 DEF Kept
      <4>4. QED
        BY <4>2, <4>3
    <3>3. QED
      BY <2>1, <2>2, <3>1, <3>2 DEF ReaderInv
  <2>4. Owned(file, {})' /\ Kept(file, {}, Procs)'
    BY <2>1, <2>2 DEF Owned, Kept
  <2>5. QED
    BY <2>1, <2>2, <2>3, <2>4
<1>8. ASSUME NEW k \in Keys, NEW v \in Values, HandEdit(k, v) PROVE Calm'
  <2>1. \A q \in Procs : ~Active(q)'
    BY <1>8 DEF HandEdit
  <2>2. Owned(file, {})'
    BY <1>8 DEF HandEdit, Owned
  <2>3. Kept(file, {}, Procs)'
    BY <1>8 DEF HandEdit, Kept, Filling
  <2>4. ~torn'
    BY <1>8 DEF HandEdit
  <2>5. QED
    BY <2>1, <2>2, <2>3, <2>4
<1>9. CASE UNCHANGED vars
  BY <1>9 DEF vars, ReaderInv, Owned, Kept, Filling
<1>10. QED
  BY <1>1, <1>2, <1>3, <1>4, <1>5, <1>6, <1>7, <1>8, <1>9 DEF Next

\* An overlap is never forgotten.
LEMMA StepOverlap == ASSUME TypeOK, [Next]_vars, overlapped PROVE overlapped'
  BY DEF Next, vars, Load, KitRead, KitOpen, KitWrite, Reread, Truncate, Open, Write, WritePart, Interrupt,
         HandEdit

LEMMA StepConfig == ConfigInv /\ [Next]_vars => ConfigInv'
<1> SUFFICES ASSUME ConfigInv, [Next]_vars PROVE ConfigInv'
  OBVIOUS
<1>1. TypeOK'
  BY StepType DEF ConfigInv
<1>2. Plain(file)' /\ \A p \in Procs : Plain(buffer[p])'
  BY StepPlain DEF ConfigInv, Plain
<1>3. ASSUME ~overlapped' PROVE Calm'
  <2>1. ~overlapped
    BY <1>3, StepOverlap DEF ConfigInv
  <2>2. Calm
    BY <2>1 DEF ConfigInv, Calm
  <2>3. QED
    BY <1>3, <2>2, StepCalm
<1>4. QED
  BY <1>1, <1>2, <1>3 DEF ConfigInv, Calm

LEMMA AlwaysConfig == Spec => []ConfigInv
  BY InitConfig, StepConfig, PTL DEF Spec

-----------------------------------------------------------------------------

\* The configuration file of config_cmd.go and what the commands have read of it are
\* entries of the schema's keys at every step.
THEOREM ConfigType == Spec => []TypeOK
  BY AlwaysConfig, PTL DEF ConfigInv

\* However many commands set whichever keys: without overlap, only a set between its two
\* writes, at work or stopped there, leaves a file that no command can load.
THEOREM LoadsUnlessInterruptedHolds == Spec => []LoadsUnlessInterrupted
<1>1. ConfigInv => LoadsUnlessInterrupted
  BY KeysAssumption DEF ConfigInv, LoadsUnlessInterrupted, Loadable, Owned, Filling
<1>2. QED
  BY AlwaysConfig, <1>1, PTL

\* Without overlap every key has the value it was last given, except after a file was
\* emptied and not filled again.
THEOREM SettingsKeptHolds == Spec => []SettingsKept
<1>1. ConfigInv => SettingsKept
  BY DEF ConfigInv, SettingsKept, Kept
<1>2. QED
  BY AlwaysConfig, <1>1, PTL

\* However many commands are started on a file that does not load, none of them changes
\* it, and none gets past its load.
THEOREM OnlyHandsRepairHolds == Spec => OnlyHandsRepair
<1>1. ASSUME Broken, [Next]_vars
      PROVE  (Broken' /\ UNCHANGED <<file, torn>>) \/ \E k \in Keys, v \in Values : HandEdit(k, v)
  <2>1. ASSUME NEW p \in Procs, Load(p) PROVE Broken' /\ UNCHANGED <<file, torn>>
    BY <1>1, <2>1 DEF Load, At, Broken, Loadable
  <2>2. ASSUME NEW p \in Procs, Interrupt(p) PROVE Broken' /\ UNCHANGED <<file, torn>>
    BY <1>1, <2>2 DEF Interrupt, Broken, Loadable
  <2>3. ASSUME NEW p \in Procs,
               KitRead(p) \/ KitOpen(p) \/ KitWrite(p) \/ Reread(p) \/ Truncate(p)
               \/ Write(p) \/ WritePart(p)
        PROVE  FALSE
    BY <1>1, <2>3 DEF KitRead, KitOpen, KitWrite, Reread, Truncate, Open, Write, WritePart, Filling,
                      At, Broken
  <2>4. CASE UNCHANGED vars
    BY <1>1, <2>4 DEF vars, Broken, Loadable
  <2>5. QED
    BY <1>1, <2>1, <2>2, <2>3, <2>4 DEF Next
<1>2. QED
  BY <1>1, PTL DEF Spec, OnlyHandsRepair
=============================================================================
