--------------------------- MODULE JailbreakCache ---------------------------
(***************************************************************************)
(* JailbreakSignal::evaluate (core/src/signals/safety.rs): concurrent      *)
(* evaluations share a map from the hash of a text to the result stored    *)
(* for it.  The map's lock is held for the lookup and for the store, never *)
(* while the detector chain runs, so an evaluation acts on a lookup that   *)
(* may be stale by then.  The pipeline's timeout may drop an evaluation at *)
(* any of its awaits.                                                      *)
(***************************************************************************)
EXTENDS Integers

CONSTANTS
    Requests,           \* evaluations, each run once
    Prompts,            \* texts
    Hash                \* hash_text

ASSUME HashAssumption == DOMAIN Hash = Prompts

VARIABLES
    stage,              \* where each evaluation is
    asked, verdict,     \* its text and its result
    cache,              \* cached_result: from hashes to results, Absent if none
    judged              \* history: what the chain answered, for which text

cacheVars == <<stage, asked, verdict, cache, judged>>

Keys == {Hash[t] : t \in Prompts}
Absent == "absent"

\* What the chain can answer, and the result built from it.
Answers == {"clean", "attack", "error"}
Results == {"clean", "attack", "error_failclosed"}
ResultOf(answer) == IF answer = "error" THEN "error_failclosed" ELSE answer

CacheTypeOK ==
    /\ stage \in [Requests -> {"idle", "lookup", "detect", "store", "done", "dropped"}]
    /\ asked \in [Requests -> Prompts]
    /\ verdict \in [Requests -> Results \cup {Absent}]
    /\ cache \in [Keys -> Results \cup {Absent}]
    /\ judged \subseteq Prompts \X Answers

CacheInit ==
    /\ stage = [r \in Requests |-> "idle"]
    /\ asked \in [Requests -> Prompts]
    /\ verdict = [r \in Requests |-> Absent]
    /\ cache = [k \in Keys |-> Absent]
    /\ judged = {}

Key(r) == Hash[asked[r]]

Evaluate(r) ==
    /\ stage[r] = "idle"
    /\ stage' = [stage EXCEPT ![r] = "lookup"]
    /\ UNCHANGED <<asked, verdict, cache, judged>>

Hit(r) ==
    /\ stage[r] = "lookup"
    /\ cache[Key(r)] # Absent
    /\ verdict' = [verdict EXCEPT ![r] = cache[Key(r)]]
    /\ stage' = [stage EXCEPT ![r] = "done"]
    /\ UNCHANGED <<asked, cache, judged>>

\* Mutant: the lookup may miss a stored result.
MissAnyway(r) ==
    /\ stage[r] = "lookup"
    /\ stage' = [stage EXCEPT ![r] = "detect"]
    /\ UNCHANGED <<asked, verdict, cache, judged>>

Miss(r) ==
    /\ stage[r] = "lookup"
    /\ cache[Key(r)] = Absent
    /\ stage' = [stage EXCEPT ![r] = "detect"]
    /\ UNCHANGED <<asked, verdict, cache, judged>>

\* Mutant: a failing chain counts as clean.
DetectFailOpen(r, answer) ==
    /\ stage[r] = "detect"
    /\ judged' = judged \cup {<<asked[r], answer>>}
    /\ verdict' = [verdict EXCEPT ![r] = IF answer = "error" THEN "clean" ELSE answer]
    /\ stage' = [stage EXCEPT ![r] = "store"]
    /\ UNCHANGED <<asked, cache>>

\* The chain answers; when all its tiers fail the text counts as a jailbreak.
Detect(r, answer) ==
    /\ stage[r] = "detect"
    /\ judged' = judged \cup {<<asked[r], answer>>}
    /\ verdict' = [verdict EXCEPT ![r] = ResultOf(answer)]
    /\ stage' = [stage EXCEPT ![r] = "store"]
    /\ UNCHANGED <<asked, cache>>

\* insert overwrites what a concurrent evaluation stored meanwhile.
Store(r) ==
    /\ stage[r] = "store"
    /\ cache' = [cache EXCEPT ![Key(r)] = verdict[r]]
    /\ stage' = [stage EXCEPT ![r] = "done"]
    /\ UNCHANGED <<asked, verdict, judged>>

\* Dropped by the pipeline's timeout: nothing is answered, nothing stored.
Drop(r) ==
    /\ stage[r] \in {"lookup", "detect", "store"}
    /\ stage' = [stage EXCEPT ![r] = "dropped"]
    /\ verdict' = [verdict EXCEPT ![r] = Absent]
    /\ UNCHANGED <<asked, cache, judged>>

Step(r) ==
    \/ Hit(r)
    \/ Miss(r)
    \/ \E answer \in Answers : Detect(r, answer)
    \/ Store(r)

CacheNext == \E r \in Requests : Evaluate(r) \/ Step(r) \/ Drop(r)

CacheSpec == CacheInit /\ [][CacheNext]_cacheVars

-----------------------------------------------------------------------------
(* Properties. *)

\* A result is one the chain gave for a text of the same hash, its own text when
\* no hashes collide; in particular nothing passes as clean that the chain never
\* found clean, however evaluations overlap, fail or are dropped.
ResultsJudged ==
    \A r \in Requests : stage[r] = "done" =>
        \E t \in Prompts, answer \in Answers :
            Hash[t] = Key(r) /\ <<t, answer>> \in judged /\ verdict[r] = ResultOf(answer)

\* Evaluations that have not looked up yet, or have stored, cannot change the
\* stored result for a key.
Settled(k) ==
    /\ cache[k] # Absent
    /\ \A r \in Requests : stage[r] \in {"detect", "store"} => Key(r) # k

\* Once no evaluation of a key is between its lookup and its store, the stored
\* result is final: a fail-closed result, once settled, is never revised.
SettledForEver ==
    \A k \in Keys, v \in Results : [](Settled(k) /\ cache[k] = v => [](cache[k] = v))
=============================================================================
