------------------------------ MODULE TierChain ------------------------------
(***************************************************************************)
(* core/src/chain.rs: a detector chain is built (by its constructors or    *)
(* from a config string) and evaluated; its strategy decides which tiers   *)
(* are asked, whose answer is returned and what the provenance record says.*)
(*                                                                         *)
(* Tiers are numbered from 1 (the code counts from 0).  Confidences are    *)
(* levels of a small ordered scale whose top is 1.0; NaN is a confidence   *)
(* no comparison holds of.  A tier's value is its confidence, its labels   *)
(* with their scores (entities, categories, languages; jailbreak labels    *)
(* score 0), and whether the chain takes it for empty.  The dedup key of a *)
(* PII entity is one label.  A confidence and a score are so many parts of *)
(* the value's whole: of TopLevel in what a tier answers, of the total of  *)
(* the scores in merged categories, which the code divides by it.  The     *)
(* order of a list of labels is left out.                                  *)
(***************************************************************************)
EXTENDS Integers, Sequences, FiniteSets

LOCAL INSTANCE FiniteSetsExt

CONSTANTS
    Kinds,              \* the detector traits of this instance
    MaxTiers,           \* bound on the tiers of a chain
    Labels,
    TopLevel,           \* the level of confidence 1.0
    NaNs                \* TRUE if a detector may report NaN

ASSUME KindsAssumption ==
    Kinds \subseteq {"pii", "toxicity", "category", "jailbreak", "language", "satisfaction",
                     "tokenizer", "embedding", "preference"}
ASSUME MaxTiersAssumption == MaxTiers \in Nat \ {0}
ASSUME TopLevelAssumption == TopLevel \in Nat \ {0}
ASSUME NaNsAssumption == NaNs \in BOOLEAN

NaN == -1
Levels == 0..TopLevel
RawConfidences == IF NaNs THEN Levels \cup {NaN} ELSE Levels

\* IEEE comparison and f64::max.
Above(a, b) == a # NaN /\ b # NaN /\ a > b
FMax(a, b) == IF b = NaN \/ Above(a, b) THEN a ELSE b

MaxLevel(S) == CHOOSE x \in S : \A y \in S : y <= x
MaxScore(labels) == MaxLevel({0} \cup {labels[l] : l \in DOMAIN labels})

\* ChainableTier::SUPPORTS_CONFIDENCE
SupportsConfidence(kind) == kind \notin {"tokenizer", "embedding", "preference"}
ListKind(kind) == kind \in {"pii", "toxicity", "category"}
Infallible(kind) == kind \in {"language", "tokenizer"}

SignalErrors == {"configuration", "inference"}

LabelMaps == UNION {[D -> Levels] : D \in SUBSET Labels}
Value(conf, labels, empty) == [conf |-> conf, labels |-> labels, empty |-> empty, whole |-> TopLevel]
NoLabels == [l \in {} |-> 0]

\* What the tiers of each trait can answer.
Values(kind) ==
    CASE ListKind(kind) -> {Value(MaxScore(f), f, DOMAIN f = {}) : f \in LabelMaps}
      [] kind = "jailbreak" ->
            {Value(c, [l \in D |-> 0], D = {}) : c \in RawConfidences, D \in SUBSET Labels}
      [] kind = "language" ->
            {Value(c, f, FALSE) : c \in RawConfidences, f \in LabelMaps}
                \cup {Value(0, f, TRUE) : f \in LabelMaps}
      [] kind = "satisfaction" -> {Value(c, NoLabels, FALSE) : c \in RawConfidences}
      [] OTHER -> {Value(0, NoLabels, FALSE)}

Ok(value) == [ok |-> TRUE, value |-> value]
Err(error) == [ok |-> FALSE, error |-> error]

Answers(kind) ==
    {Ok(v) : v \in Values(kind)} \cup (IF Infallible(kind) THEN {} ELSE {Err(e) : e \in SignalErrors})

AnswersOf == [kind \in Kinds |-> Answers(kind)]

VARIABLES
    chain,              \* the chain built, or NoChain
    phase,
    answers,            \* what the tiers of this evaluation have answered
    attempted, winner, tierErrors,      \* ChainProvenance
    best,               \* the best tier that was not accepted, 0 for none
    merged,
    result

vars == <<chain, phase, answers, attempted, winner, tierErrors, best, merged, result>>

evaluation == <<answers, attempted, winner, tierErrors, best, merged, result>>

NoChain == [kind |-> "none"]
NoResult == [ok |-> FALSE, error |-> "none"]

Init ==
    /\ chain = NoChain
    /\ phase = "config"
    /\ answers = <<>>
    /\ attempted = <<>>
    /\ winner = 0
    /\ tierErrors = <<>>
    /\ best = 0
    /\ merged = Value(0, NoLabels, TRUE)
    /\ result = NoResult

-----------------------------------------------------------------------------
(* Construction. *)

Strategies == {"escalate", "merge_all", "fallback_on_error"}

\* Chain::new takes any f64 as threshold, also one above every confidence.
Thresholds == RawConfidences \cup {TopLevel + 1}

Legal(kind, strategy, tiers) ==
    /\ tiers > 0
    /\ strategy \in {"escalate", "merge_all"} => SupportsConfidence(kind)

Built(kind, strategy, threshold, tiers) ==
    /\ phase = "config"
    /\ \/ /\ Legal(kind, strategy, tiers)
          /\ chain' = [kind |-> kind, strategy |-> strategy, tiers |-> tiers,
                       threshold |-> IF strategy = "escalate" THEN threshold ELSE 0]
          /\ phase' = "ready"
       \/ /\ ~Legal(kind, strategy, tiers)
          /\ phase' = "rejected"
          /\ UNCHANGED chain
    /\ UNCHANGED evaluation

New(kind, strategy, threshold, tiers) == Built(kind, strategy, threshold, tiers)

\* One tier, never rejected.
Single(kind) == Built(kind, "fallback_on_error", 0, 1)

\* The config string, split at its colon: Absent when there is none, Garbage for
\* what does not parse as a number.
Absent == -2
Garbage == -3
Specs == {"escalate", "merge_all", "merge", "fallback_on_error", "fallback", "other"}
            \X ({Absent, Garbage, NaN, TopLevel + 1} \cup Levels)
DefaultThreshold == (TopLevel + 1) \div 2

ParsedStrategy(spec) ==
    CASE spec[1] = "escalate" -> IF spec[2] \in {Absent} \cup Levels THEN "escalate" ELSE "invalid"
      [] spec[1] \in {"merge_all", "merge"} -> "merge_all"
      [] spec[1] \in {"fallback_on_error", "fallback"} -> "fallback_on_error"
      [] OTHER -> "invalid"

ParsedThreshold(spec) == IF spec[2] \in Levels THEN spec[2] ELSE DefaultThreshold

FromSpec(kind, spec, tiers) ==
    \/ /\ phase = "config"
       /\ ParsedStrategy(spec) = "invalid"
       /\ phase' = "rejected"
       /\ UNCHANGED <<chain, evaluation>>
    \/ /\ ParsedStrategy(spec) # "invalid"
       /\ Built(kind, ParsedStrategy(spec), ParsedThreshold(spec), tiers)

\* The registry: what configuration may name, by slot.
DetectorNames == {"regex", "heuristic", "stopword", "approx"}

Available(slot) ==
    CASE slot = "pii" -> {"regex"}
      [] slot = "jailbreak" -> {"heuristic"}
      [] slot = "language" -> {"stopword"}
      [] slot = "tokenizer" -> {"approx"}
      [] OTHER -> {}

\* A chain of named tiers, for the three slots that have one.  The names are looked
\* up before the strategy is parsed.
FromNames(kind, names, spec) ==
    /\ kind \in {"pii", "jailbreak", "language"}
    /\ \/ /\ phase = "config"
          /\ \E i \in DOMAIN names : names[i] \notin Available(kind)
          /\ phase' = "rejected"
          /\ UNCHANGED <<chain, evaluation>>
       \/ /\ \A i \in DOMAIN names : names[i] \in Available(kind)
          /\ FromSpec(kind, spec, Len(names))

-----------------------------------------------------------------------------
(* Evaluation. *)

Merging == chain.strategy = "merge_all"

Start ==
    /\ phase \in {"ready", "done"}
    /\ phase' = "running"
    /\ answers' = <<>>
    /\ attempted' = <<>>
    /\ winner' = 0
    /\ tierErrors' = <<>>
    /\ best' = 0
    /\ merged' = Value(IF chain.kind = "satisfaction" THEN NaN ELSE 0, NoLabels, TRUE)
    /\ result' = NoResult
    /\ UNCHANGED chain

\* Mutant: an empty result may clear the bar.
AcceptsEmpty(value) ==
    chain.strategy = "escalate" =>
        /\ value.conf # NaN /\ chain.threshold # NaN
        /\ value.conf >= chain.threshold

\* Does a tier's result clear the bar?
Accepts(value) ==
    chain.strategy = "escalate" =>
        /\ ~value.empty
        /\ value.conf # NaN /\ chain.threshold # NaN
        /\ value.conf >= chain.threshold

MergeLabels(f, g) ==
    [l \in DOMAIN f \cup DOMAIN g |->
        IF l \notin DOMAIN g THEN f[l]
        ELSE IF l \notin DOMAIN f THEN g[l]
        ELSE FMax(f[l], g[l])]

Merge(acc, value) ==
    LET labels == MergeLabels(acc.labels, value.labels)
    IN  Value(IF chain.kind \in {"jailbreak", "satisfaction"}
                 THEN FMax(acc.conf, value.conf) ELSE MaxScore(labels),
              labels,
              chain.kind # "satisfaction" /\ DOMAIN labels = {})

Next1 == Len(answers) + 1

Asked(answer) ==
    /\ phase = "running"
    /\ chain.kind # "tokenizer"
    /\ Next1 <= chain.tiers
    /\ answers' = Append(answers, answer)
    /\ attempted' = Append(attempted, Next1)

\* Mutant: the error of a tier that is skipped is dropped.
TierFailsSilently(answer) ==
    /\ Asked(answer)
    /\ ~answer.ok
    /\ UNCHANGED <<chain, phase, winner, tierErrors, best, merged, result>>

TierFails(answer) ==
    /\ Asked(answer)
    /\ ~answer.ok
    /\ tierErrors' = Append(tierErrors, Next1)
    /\ UNCHANGED <<chain, phase, winner, best, merged, result>>

TierMerged(answer) ==
    /\ Asked(answer)
    /\ answer.ok
    /\ Merging
    /\ merged' = Merge(merged, answer.value)
    /\ UNCHANGED <<chain, phase, winner, tierErrors, best, result>>

TierAccepted(answer) ==
    /\ Asked(answer)
    /\ answer.ok
    /\ ~Merging
    /\ Accepts(answer.value)
    /\ winner' = Next1
    /\ result' = answer
    /\ phase' = "done"
    /\ UNCHANGED <<chain, tierErrors, best, merged>>

\* Mutant: a tie goes to the later tier.
TierNotAcceptedLaterWins(answer) ==
    /\ Asked(answer)
    /\ answer.ok
    /\ ~Merging
    /\ ~Accepts(answer.value)
    /\ best' = IF best > 0 /\ Above(answers[best].value.conf, answer.value.conf)
               THEN best ELSE Next1
    /\ UNCHANGED <<chain, phase, winner, tierErrors, merged, result>>

\* A tie keeps the earlier tier; the first tier beats f64::NEG_INFINITY.
TierNotAccepted(answer) ==
    /\ Asked(answer)
    /\ answer.ok
    /\ ~Merging
    /\ ~Accepts(answer.value)
    /\ best' = IF \/ best = 0 /\ answer.value.conf # NaN
                  \/ best > 0 /\ Above(answer.value.conf, answers[best].value.conf)
               THEN Next1 ELSE best
    /\ UNCHANGED <<chain, phase, winner, tierErrors, merged, result>>

\* A single-tier chain passes its error through; several become one Inference.
AllFailed ==
    IF chain.tiers = 1 /\ tierErrors # <<>> THEN answers[1] ELSE Err("inference")

Exhausted ==
    /\ phase = "running"
    /\ chain.kind # "tokenizer"
    /\ Len(answers) = chain.tiers

Total(labels) == MapThenSumSet(LAMBDA l : labels[l], DOMAIN labels)

\* Mutant: the scores are scaled to the highest of them.
RenormalizedByHighest(value) ==
    IF chain.kind = "category" /\ MaxScore(value.labels) > 0
    THEN [value EXCEPT !.whole = MaxScore(value.labels)] ELSE value

\* Merged categories are a distribution again, unless every score is 0.
Renormalized(value) ==
    IF chain.kind = "category" /\ Total(value.labels) > 0
    THEN [value EXCEPT !.whole = Total(value.labels)] ELSE value

\* Mutant: one failed tier fails the merge.
EndMergedStrict ==
    /\ Exhausted
    /\ Merging
    /\ result' = IF tierErrors # <<>> THEN AllFailed ELSE Ok(Renormalized(merged))
    /\ phase' = "done"
    /\ UNCHANGED <<chain, answers, attempted, winner, tierErrors, best, merged>>

EndMerged ==
    /\ Exhausted
    /\ Merging
    /\ result' = IF Len(tierErrors) = chain.tiers THEN AllFailed ELSE Ok(Renormalized(merged))
    /\ phase' = "done"
    /\ UNCHANGED <<chain, answers, attempted, winner, tierErrors, best, merged>>

EndBest ==
    /\ Exhausted
    /\ ~Merging
    /\ winner' = best
    /\ result' = IF best > 0 THEN answers[best]
                 ELSE IF chain.kind = "language" THEN Ok(Value(0, NoLabels, TRUE))
                 ELSE AllFailed
    /\ phase' = "done"
    /\ UNCHANGED <<chain, answers, attempted, tierErrors, best, merged>>

\* Tokenizers are infallible: count_tokens asks tier 0 and no other.
CountTokens ==
    /\ phase = "running"
    /\ chain.kind = "tokenizer"
    /\ answers' = <<Ok(Value(0, NoLabels, FALSE))>>
    /\ attempted' = <<1>>
    /\ winner' = 1
    /\ result' = answers'[1]
    /\ phase' = "done"
    /\ UNCHANGED <<chain, tierErrors, best, merged>>

Next ==
    \/ /\ phase = "config"
       /\ \E kind \in Kinds :
            \/ Single(kind)
            \/ \E tiers \in 0..MaxTiers :
                \/ \E strategy \in Strategies, threshold \in Thresholds :
                        New(kind, strategy, threshold, tiers)
                \/ \E spec \in Specs :
                    \/ FromSpec(kind, spec, tiers)
                    \/ \E names \in [1..tiers -> DetectorNames] : FromNames(kind, names, spec)
    \/ Start
    \/ /\ phase = "running"
       /\ \E answer \in AnswersOf[chain.kind] :
            TierFails(answer) \/ TierMerged(answer) \/ TierAccepted(answer) \/ TierNotAccepted(answer)
    \/ EndMerged
    \/ EndBest
    \/ CountTokens

Spec == Init /\ [][Next]_vars

-----------------------------------------------------------------------------
(* Properties. *)

Chains == [kind : Kinds, strategy : Strategies, threshold : Thresholds, tiers : 1..MaxTiers]
AllAnswers == UNION {AnswersOf[kind] : kind \in Kinds}

TypeOK ==
    /\ chain \in Chains \cup {NoChain}
    /\ phase \in {"config", "rejected", "ready", "running", "done"}
    /\ answers \in Seq(AllAnswers)
    /\ attempted \in Seq(1..MaxTiers)
    /\ winner \in 0..MaxTiers
    /\ tierErrors \in Seq(1..MaxTiers)
    /\ best \in 0..MaxTiers
    /\ phase \in {"running", "done"} => chain \in Chains

Answered == {i \in 1..Len(answers) : answers[i].ok}
Conf(i) == answers[i].value.conf

\* Tier i's answer ends the search.
Clears(i) ==
    /\ i \in Answered
    /\ \/ chain.strategy = "fallback_on_error"
       \/ /\ chain.strategy = "escalate"
          /\ ~answers[i].value.empty
          /\ Conf(i) = chain.threshold \/ Above(Conf(i), chain.threshold)
          /\ Conf(i) # NaN

\* No tier is asked once one has cleared the bar, none is left out before that,
\* and a merge asks them all: a costly tier runs exactly when it is needed.
AsksWhatIsNeeded ==
    /\ \A i \in 1..Len(answers) : Clears(i) => phase = "done" /\ winner = i /\ i = Len(answers)
    /\ phase = "done" /\ chain.kind # "tokenizer" =>
          Len(answers) = chain.tiers \/ Clears(Len(answers))

\* What a strategy other than merging returns: the answer of the tier that
\* cleared the bar or else, of all tiers that answered, the most confident one's,
\* the earliest of equals.
ReturnsBest ==
    phase = "done" /\ ~Merging /\ result.ok /\ winner # 0 =>
        /\ winner \in Answered
        /\ result = answers[winner]
        /\ \/ Clears(winner)
           \/ \A i \in Answered \ {winner} :
                 ~Above(Conf(i), Conf(winner)) /\ (i < winner => Conf(i) # Conf(winner))

\* The provenance record tells what happened: every tier asked, in order; every
\* error that was swallowed; a winner exactly when one tier's answer is returned.
ProvenanceTrue ==
    /\ attempted = [i \in 1..Len(answers) |-> i]
    /\ \A i \in 1..Len(answers) : ~answers[i].ok <=> \E k \in 1..Len(tierErrors) : tierErrors[k] = i
    /\ \A k \in 1..Len(tierErrors) : tierErrors[k] \in 1..Len(answers)
    /\ \A j, k \in 1..Len(tierErrors) : j < k => tierErrors[j] < tierErrors[k]
    /\ phase = "done" => (winner = 0 <=> Merging \/ ~result.ok)

\* A chain fails only if every one of its tiers failed, and then it does; one
\* tier's error keeps its variant.
FailsOnlyWithAll ==
    phase = "done" =>
        /\ ~result.ok <=> Answered = {} /\ Len(answers) = chain.tiers
        /\ ~result.ok /\ chain.tiers = 1 => result = answers[1]

\* A merge returns every label any tier reported and nothing else, whatever tiers
\* failed in between: each at the highest of its scores, and for categories at the
\* share this has of the sum of all the labels' highest scores, so that they are a
\* distribution.
MergesUnion ==
    phase = "done" /\ Merging /\ result.ok =>
        LET of(l) == {i \in Answered : l \in DOMAIN answers[i].value.labels}
            reported == {l \in Labels : of(l) # {}}
            highest == [l \in reported |-> MaxLevel({answers[i].value.labels[l] : i \in of(l)})]
            distributed == chain.kind = "category" /\ Total(highest) > 0
        IN  /\ result.value.labels = highest
            /\ result.value.whole = IF distributed THEN Total(highest) ELSE TopLevel

\* A trait without confidences never has an answer thrown away: its chain stops
\* at the first one.
ScalarAnswersKept ==
    phase = "done" /\ ~SupportsConfidence(chain.kind) => Cardinality(Answered) <= 1

=============================================================================
