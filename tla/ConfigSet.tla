----------------------------- MODULE ConfigSet -----------------------------
(***************************************************************************)
(* `c12n config set' (go/cmd/c12n/config_cmd.go): processes that each set  *)
(* one key of one configuration file, and people who edit it.  A process   *)
(* loads the configuration before its command runs (root.go).  config.Set  *)
(* of the external kit then reads the file and writes it with the value    *)
(* as a string, and retypeConfigScalar reads it again and writes it with   *)
(* the type the schema gives the key.  os.WriteFile, which the kit is      *)
(* taken to use too, empties a file before it fills it, and any part of    *)
(* the new text may be there between.  A process may be killed, or its     *)
(* next call fail, anywhere.                                               *)
(***************************************************************************)
EXTENDS Integers

CONSTANTS
    Procs,          \* the commands, one for each process
    Keys,           \* the keys of the schema
    TypedKeys,      \* those that hold a number or a boolean
    Values,         \* the values the schema accepts
    None            \* no value

ASSUME KeysAssumption == TypedKeys \subseteq Keys /\ None \notin Values

VARIABLES
    file,           \* key -> its value, and whether it is written as a string
    torn,           \* the file ends where no YAML can end
    pc,             \* process -> what it does next
    job,            \* process -> the key and the value it sets
    buffer,         \* process -> what it has read and is yet to write
    stopped,        \* the processes that were killed or failed where they are
    overlapped,     \* a process or a person came upon the file while a process rewrote it
    intended        \* key -> the value it was last given

vars == <<file, torn, pc, job, buffer, stopped, overlapped, intended>>

Entries == [value : Values \cup {None}, string : BOOLEAN]
Nothing == [value |-> None, string |-> FALSE]
Empty == [k \in Keys |-> Nothing]
Jobs == [key : Keys, value : Values]

\* A process between its first read of the file and its last write.
Rewriting == {"kitOpen", "kitWrite", "reread", "truncate", "write"}
\* One that has emptied it and is yet to fill it, or was stopped before it could.
Filling(p) == pc[p] \in {"kitWrite", "write"}
Active(p) == pc[p] \in Rewriting /\ p \notin stopped

TypeOK ==
    /\ file \in [Keys -> Entries]
    /\ torn \in BOOLEAN
    /\ pc \in [Procs -> {"start", "kitRead", "done", "failed"} \cup Rewriting]
    /\ job \in [Procs -> Jobs]
    /\ buffer \in [Procs -> [Keys -> Entries]]
    /\ stopped \in SUBSET Procs
    /\ overlapped \in BOOLEAN
    /\ intended \in [Keys -> Values \cup {None}]

Init ==
    /\ file = Empty
    /\ torn = FALSE
    /\ pc = [p \in Procs |-> "start"]
    /\ job \in [Procs -> Jobs]
    /\ buffer = [p \in Procs |-> Empty]
    /\ stopped = {}
    /\ overlapped = FALSE
    /\ intended = [k \in Keys |-> None]

-----------------------------------------------------------------------------

At(p, step) == pc[p] = step /\ p \notin stopped

\* Decoding refuses a string where the schema wants a number or a boolean.
Loadable == ~torn /\ \A k \in TypedKeys : ~file[k].string

\* Mutant: a configuration that does not load is no reason to stop.
LoadAnyway(p) ==
    /\ At(p, "start")
    /\ pc' = [pc EXCEPT ![p] = "kitRead"]
    /\ UNCHANGED <<file, torn, job, buffer, stopped, overlapped, intended>>

\* PersistentPreRunE: the configuration loads, or no command runs.
Load(p) ==
    /\ At(p, "start")
    /\ pc' = [pc EXCEPT ![p] = IF Loadable THEN "kitRead" ELSE "failed"]
    /\ UNCHANGED <<file, torn, job, buffer, stopped, overlapped, intended>>

KitRead(p) ==
    /\ At(p, "kitRead")
    /\ buffer' = [buffer EXCEPT ![p] = file]
    /\ overlapped' = (overlapped \/ \E q \in Procs : Active(q))
    /\ pc' = [pc EXCEPT ![p] = IF torn THEN "failed" ELSE "kitOpen"]
    /\ UNCHANGED <<file, torn, job, stopped, intended>>

\* os.WriteFile empties the file.
Open(p, before, after) ==
    /\ At(p, before)
    /\ file' = Empty /\ torn' = FALSE
    /\ pc' = [pc EXCEPT ![p] = after]
    /\ UNCHANGED <<job, buffer, stopped, overlapped, intended>>

KitOpen(p) == Open(p, "kitOpen", "kitWrite")

\* Mutant: numbers and booleans keep the tag of a string.
RetypesNothing(key) == FALSE

\* yamlTagForField: the keys whose value config.Set writes with the wrong tag.
Retypes(key) == key \in TypedKeys

\* What p writes: what it has read with its value, which config.Set writes as a string.
Target(p) ==
    [buffer[p] EXCEPT ![job[p].key] = [value |-> job[p].value, string |-> pc[p] = "kitWrite"]]

\* Some of the keys of f, where one bare value may have lost its end.
Parts(f) ==
    {g \in [Keys -> Entries] : \E cut \in Keys : \A k \in Keys :
        \/ g[k] \in {f[k], Nothing}
        \/ k = cut /\ f[k].value # None /\ ~f[k].string /\ g[k].value # None /\ ~g[k].string}

WritePart(p) ==
    /\ Filling(p) /\ p \notin stopped
    /\ file' \in Parts(Target(p)) /\ torn' \in BOOLEAN
    /\ UNCHANGED <<pc, job, buffer, stopped, overlapped, intended>>

KitWrite(p) ==
    /\ At(p, "kitWrite")
    /\ file' = Target(p) /\ torn' = FALSE
    /\ intended' = [intended EXCEPT ![job[p].key] = job[p].value]
    /\ pc' = [pc EXCEPT ![p] = IF Retypes(job[p].key) THEN "reread" ELSE "done"]
    /\ buffer' = [buffer EXCEPT ![p] = Empty]
    /\ UNCHANGED <<job, stopped, overlapped>>

\* A file that is no YAML fails the command, one without the key is left alone.
Reread(p) ==
    /\ At(p, "reread")
    /\ buffer' = [buffer EXCEPT ![p] = file]
    /\ pc' = [pc EXCEPT ![p] = IF torn THEN "failed"
                               ELSE IF file[job[p].key].value = None THEN "done" ELSE "truncate"]
    /\ UNCHANGED <<file, torn, job, stopped, overlapped, intended>>

Truncate(p) == Open(p, "truncate", "write")

\* Mutant: the file is encoded from the key alone.
WriteKeyAlone(p) ==
    /\ At(p, "write")
    /\ file' = [Empty EXCEPT ![job[p].key] = [value |-> job[p].value, string |-> FALSE]]
    /\ torn' = FALSE
    /\ pc' = [pc EXCEPT ![p] = "done"]
    /\ buffer' = [buffer EXCEPT ![p] = Empty]
    /\ UNCHANGED <<job, stopped, overlapped, intended>>

Write(p) ==
    /\ At(p, "write")
    /\ file' = Target(p) /\ torn' = FALSE
    /\ pc' = [pc EXCEPT ![p] = "done"]
    /\ buffer' = [buffer EXCEPT ![p] = Empty]
    /\ UNCHANGED <<job, stopped, overlapped, intended>>

Interrupt(p) ==
    /\ pc[p] \notin {"done", "failed"} /\ p \notin stopped
    /\ stopped' = stopped \cup {p}
    /\ buffer' = [buffer EXCEPT ![p] = Empty]
    /\ UNCHANGED <<file, torn, pc, job, overlapped, intended>>

\* A person gives a key a value of its type, and leaves a file that is YAML.
HandEdit(k, v) ==
    /\ file' = [file EXCEPT ![k] = [value |-> v, string |-> FALSE]]
    /\ torn' = FALSE
    /\ intended' = [intended EXCEPT ![k] = v]
    /\ overlapped' = (overlapped \/ \E q \in Procs : Active(q))
    /\ UNCHANGED <<pc, job, buffer, stopped>>

Next ==
    \/ \E p \in Procs :
          \/ Load(p) \/ KitRead(p) \/ KitOpen(p) \/ KitWrite(p) \/ Reread(p)
          \/ Truncate(p) \/ Write(p) \/ WritePart(p) \/ Interrupt(p)
    \/ \E k \in Keys, v \in Values : HandEdit(k, v)

Spec == Init /\ [][Next]_vars

-----------------------------------------------------------------------------
(* Properties *)

\* The file stops loading, and every later command with it, only while a set is in one of
\* its writes or between the two, where one was stopped there, or when sets or edits
\* overlapped.
LoadsUnlessInterrupted ==
    ~Loadable => overlapped \/ \E p \in Procs : Filling(p) \/ pc[p] \in {"reread", "truncate"}

\* Only the named key is rewritten: every key has the value it was last given, unless a
\* set that has emptied the file is yet to fill it, or was stopped before it could, or
\* sets or edits overlapped.
SettingsKept ==
    \/ \A k \in Keys : file[k].value = intended[k]
    \/ overlapped
    \/ \E p \in Procs : Filling(p)

\* The file does not load, and every command has ended or is yet to load it.
Broken ==
    ~Loadable /\ \A p \in Procs : p \in stopped \/ pc[p] \in {"start", "done", "failed"}

\* No command gets anywhere on a file that does not load, not even the `config set' of
\* the key at fault: the file stays as it is, broken, until a person edits it.
OnlyHandsRepair ==
    [][Broken => (Broken' /\ UNCHANGED <<file, torn>>) \/ \E k \in Keys, v \in Values : HandEdit(k, v)]_vars
=============================================================================
