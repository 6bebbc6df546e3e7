------------------------------ MODULE Signals ------------------------------
(***************************************************************************)
(* What each signal of core/src/signals answers to one context, and each   *)
(* built-in detector to one text.  A signal keeps no state: an evaluation  *)
(* is one step from its input to its answer.  What a chain of detectors    *)
(* finds is part of the input (TierChain models the chain).                *)
(*                                                                         *)
(* A label stands for its index in the signal's table wherever its name    *)
(* does not matter.  Which of its expressions match the text is what a     *)
(* signal made of regular expressions gets.                                *)
(***************************************************************************)
EXTENDS Scoring

CONSTANT Inputs     \* the evaluations an instance asks for, in families of one shape each

VARIABLES
    input,          \* the signal and what it is given
    answer          \* its result

vars == <<input, answer>>

Pending == [error |-> "pending", confidence |-> 0, labels |-> <<>>]
Result(confidence, labels) == [error |-> "none", confidence |-> confidence, labels |-> labels]
Failure(error) == [Pending EXCEPT !.error = error]

Init ==
    /\ \E family \in DOMAIN Inputs : input \in Inputs[family]
    /\ answer = Pending

Asked(signal) == answer.error = "pending" /\ input.signal = signal

Answer(result) ==
    /\ answer' = result
    /\ UNCHANGED input

\* What the chain of a signal fails with is what the signal fails with.
AnswerIfChain(result) ==
    Answer(IF input.chain = "fails" THEN Failure("Inference") ELSE result)

-----------------------------------------------------------------------------
(* Signals over rules and expressions *)

\* The first rule that reaches its threshold; an invalid one before it is an error.
EvaluateKeyword ==
    /\ Asked("keyword")
    /\ LET rules == input.rules
           score == [i \in DOMAIN rules |-> RuleScore(input.text, rules[i])]
           ends == {i \in DOMAIN rules : score[i] = Invalid \/ score[i] >= rules[i].threshold}
       IN  Answer(IF ends = {} THEN Result(0, <<>>)
                  ELSE IF score[Min(ends)] = Invalid THEN Failure("Configuration")
                  ELSE Result(score[Min(ends)], <<Min(ends)>>))

EvaluateStructure ==
    /\ Asked("structure")
    /\ LET rules == input.rules
           passes == [i \in DOMAIN rules |-> CheckRule(input.text, rules[i])]
           matched == {i \in DOMAIN rules : passes[i] = "passes"}
       IN  Answer(IF rules = <<>> THEN Result(0, {})
                  ELSE IF \E i \in DOMAIN rules : passes[i] = "error" THEN Failure("Configuration")
                  ELSE Result((Unit * Cardinality(matched)) \div Len(rules), matched))

\* Mutant: the languages set the confidence instead of raising it.
CodeConfidenceLast(evidence) ==
    IF "intent" \in evidence THEN Percent(85)
    ELSE IF "language" \in evidence THEN Percent(80)
    ELSE IF "fence" \in evidence THEN Percent(90)
    ELSE IF "keyword" \in evidence THEN Percent(50)
    ELSE 0

\* A keyword counts only without a language and an intent.
CodeConfidence(evidence) ==
    Max({0} \cup {Percent(90) : e \in evidence \cap {"fence"}}
            \cup {Percent(80) : e \in evidence \cap {"language"}}
            \cup {Percent(85) : e \in evidence \cap {"intent"}}
            \cup {Percent(50) : e \in {k \in evidence : k = "keyword"
                                          /\ {"language", "intent"} \cap evidence = {}}})

\* Explicit formats keep the inferred ones out.
FormatConfidence(evidence) ==
    IF "explicit" \in evidence THEN Unit
    ELSE IF "inferred" \in evidence THEN Percent(60)
    ELSE 0

\* Each verb is an indicator, as are a reference to time and a question of state.
ToolConfidence(evidence) ==
    LET base == CASE Cardinality(evidence) = 0 -> 0
                  [] Cardinality(evidence) = 1 -> Percent(50)
                  [] Cardinality(evidence) = 2 -> Percent(75)
                  [] OTHER -> Percent(90)
    IN  IF "state" \in evidence THEN Maximum(base, Percent(80)) ELSE base

\* The indicators the expressions of each signal look for.
CodeEvidence == {"fence", "language", "intent", "keyword"}
FormatEvidence == {"explicit", "inferred"}
ToolEvidence == {"verb", "otherVerb", "temporal", "state"}
JailbreakEvidence == {"injection", "roleplay", "encoding", "delimiter", "exfiltration"}

Evidence == [code |-> CodeEvidence, format |-> FormatEvidence,
             tool |-> ToolEvidence, jailbreak |-> JailbreakEvidence]

ConfidenceOf(signal, evidence) ==
    CASE signal = "code" -> CodeConfidence(evidence)
      [] signal = "format" -> FormatConfidence(evidence)
      [] signal = "tool" -> ToolConfidence(evidence)
      [] signal = "jailbreak" -> JailbreakConfidence(evidence)

EvaluateCode ==
    /\ Asked("code")
    /\ Answer(Result(CodeConfidence(input.evidence), input.evidence \cap {"language", "intent"}))

EvaluateFormat ==
    /\ Asked("format")
    /\ Answer(Result(FormatConfidence(input.evidence),
                     IF "explicit" \in input.evidence THEN {"explicit"} ELSE input.evidence))

EvaluateTool ==
    /\ Asked("tool")
    /\ Answer(Result(ToolConfidence(input.evidence),
                     input.evidence \cup {"tool_calling" : e \in input.evidence}))

\* The cost of a request by each model, in thousandths.
EvaluateCost ==
    /\ Asked("cost")
    /\ LET tier(cost) == CASE cost < 1 -> "micro" [] cost \in 1..9 -> "small"
                           [] cost \in 10..99 -> "medium" [] OTHER -> "large"
           tierOf(i) == <<i, tier(input.costs[i])>>
       IN  Answer(Result(Unit, <<tier(Min(ToSet(input.costs) \cup {MaxFloat}))>>
                               \o [i \in DOMAIN input.costs |-> tierOf(i)]))

-----------------------------------------------------------------------------
(* Signals over embeddings *)

\* Mutant: only the first prototype has its width looked at.
NewBankOfFirst(bank) ==
    LET n == Len(bank.widths)
        bad == {i \in 1..n : bank.weights[i] < 0}
    IN  CASE n = 0 -> "Empty"
          [] n > 0 /\ (Len(bank.weights) # n \/ bank.best \notin 0..4) -> "InvalidWeight"
          [] n > 0 /\ Len(bank.weights) = n /\ bank.best \in 0..4 ->
                IF bank.widths[1] = 0 THEN "Empty"
                ELSE IF bad = {} THEN "none" ELSE "InvalidWeight"

\* PrototypeBank::new of prototypes of these widths, or its error.
NewBank(bank) ==
    LET n == Len(bank.widths)
        bad == {i \in 1..n : bank.widths[i] # bank.widths[1] \/ bank.weights[i] < 0}
    IN  CASE n = 0 -> "Empty"
          [] n > 0 /\ (Len(bank.weights) # n \/ bank.best \notin 0..4) -> "InvalidWeight"
          [] n > 0 /\ Len(bank.weights) = n /\ bank.best \in 0..4 ->
                IF bank.widths[1] = 0 THEN "Empty"
                ELSE IF bad = {} THEN "none"
                ELSE IF bank.widths[Min(bad)] # bank.widths[1] THEN "DimensionMismatch"
                ELSE "InvalidWeight"

\* A signal has banks the constructor returned, whose similarities to a query are those
\* of cosine_similarity, and a chain of at least one engine.
IsBank(bank) ==
    /\ bank.widths \in Seq(Nat) /\ bank.weights \in Seq(Int) /\ bank.top \in Nat
    /\ NewBank(bank) = "none"
    /\ \A i \in DOMAIN bank.weights : bank.similarities[i] \in -Unit..Unit
IsChain(engines) == engines # <<>> /\ engines \in Seq([fails : BOOLEAN, width : Nat])

BuildBank ==
    /\ Asked("bank")
    /\ Answer(Failure(NewBank(input.bank)))

\* PrototypeBank::score, from the similarities of the query: the part best/4 of the
\* highest weighted one and the rest of the mean of the top m.
BankScore(bank) ==
    LET prototypes == DOMAIN bank.weights
        weighted(i) == bank.weights[i] * bank.similarities[i]
        m == Minimum(Maximum(bank.top, 1), Len(bank.weights))
        highest == CHOOSE S \in kSubset(m, prototypes) :
                      \A i \in S, j \in prototypes \ S : weighted(i) >= weighted(j)
    IN  (bank.best * m * Max({weighted(i) : i \in prototypes})
            + (4 - bank.best) * MapThenSumSet(weighted, highest)) \div (4 * m)

\* What keeps a bank from scoring a query: its width, or an assertion on a prototype's.
Obstacle(bank, width) ==
    IF width # bank.widths[1] THEN "DimensionMismatch"
    ELSE IF \E i \in DOMAIN bank.widths : bank.widths[i] # width THEN "Panic"
    ELSE "none"

\* The engine of a chain that answers, for either form of embed; 0 is none.
Answering(engines) ==
    LET alive == {i \in DOMAIN engines : ~engines[i].fails}
    IN  IF alive = {} THEN 0 ELSE Min(alive)

\* Chain::validate_dimensions.
Validated(engines) == \A i \in DOMAIN engines : engines[i].width = engines[1].width

\* The first rule at its threshold, or else the best few: rules of one score in any order.
EvaluateEmbedding ==
    /\ Asked("embedding")
    /\ LET rules == input.rules
           winner == Answering(input.engines)
           obstacle(i) == Obstacle(rules[i].bank, input.engines[winner].width)
           score == [i \in DOMAIN rules |-> BankScore(rules[i].bank)]
           ends == {i \in DOMAIN rules : obstacle(i) # "none" \/ score[i] >= rules[i].threshold}
           k == IF rules = <<>> THEN 0
                ELSE Minimum(Max({rules[i].top : i \in DOMAIN rules}), Len(rules))
           ranked == {order \in [DOMAIN rules -> DOMAIN rules] :
                        \A i, j \in DOMAIN rules :
                            i < j => order[i] # order[j] /\ score[order[i]] >= score[order[j]]}
       IN  IF input.empty THEN Answer(Failure("InvalidInput"))
           ELSE IF winner = 0 THEN Answer(Failure("Inference"))
           ELSE IF ends = {}
           THEN \E order \in ranked :
                   Answer(Result(IF rules = <<>> THEN 0 ELSE score[order[1]],
                                 SubSeq(order, 1, k)))
           ELSE Answer(CASE obstacle(Min(ends)) = "DimensionMismatch" -> Failure("Internal")
                         [] obstacle(Min(ends)) = "Panic" -> Failure("Panic")
                         [] obstacle(Min(ends)) = "none" ->
                               Result(score[Min(ends)], <<Min(ends)>>))

EvaluateComplexity ==
    /\ Asked("complexity")
    /\ LET hard == BankScore(input.hard)
           easy == BankScore(input.easy)
           winner == Answering(input.engines)
           obstacles == {Obstacle(bank, input.engines[winner].width) :
                            bank \in {input.hard, input.easy}}
       IN  Answer(
               IF winner = 0 \/ "DimensionMismatch" \in obstacles THEN Failure("Inference")
               ELSE IF "Panic" \in obstacles THEN Failure("Panic")
               ELSE IF hard - easy > input.margin THEN Result(hard, <<"complex">>)
               ELSE IF easy - hard > input.margin THEN Result(easy, <<"simple">>)
               ELSE Result(Percent(50), <<"moderate">>))

\* "similarity" to the text before is empty where there is none: one call embeds both.
EvaluateFeedback ==
    /\ Asked("feedback")
    /\ LET satisfaction == IF input.score >= Percent(70) THEN "satisfied"
                           ELSE IF input.score >= Percent(40) THEN "neutral" ELSE "dissatisfied"
           reasked == {s \in input.similarity : s > input.threshold}
       IN  AnswerIfChain(
               IF input.similarity # {} /\ Answering(input.engines) = 0 THEN Failure("Inference")
               ELSE IF reasked = {}
               THEN Result(2 * Maximum(input.score - Percent(50), Percent(50) - input.score),
                           <<satisfaction>>)
               ELSE Result(Max(reasked), <<satisfaction, "reask">>))

\* The sums the similarity of two vectors is the quotient of.
CompareVectors ==
    /\ Asked("cosine")
    /\ Answer(Result(0, <<LaneSum(input.a, input.b), LaneSum(input.a, input.a),
                          LaneSum(input.b, input.b)>>))

-----------------------------------------------------------------------------
(* Signals over a chain's judgment *)

\* The labels the response contains, of those the signal was built with.
EvaluatePreference ==
    /\ Asked("preference")
    /\ LET label == CASE input.found # {} -> Min(input.found)
                      [] input.found = {} /\ input.labels # <<>> -> Head(input.labels)
                      [] OTHER -> 0             \* "unknown"
           sure == Cardinality({i \in DOMAIN input.labels : input.labels[i] \in input.found}) = 1
       IN  IF input.late THEN Answer(Failure("Timeout"))
           ELSE AnswerIfChain(Result(Percent(IF sure THEN 100 ELSE 50), <<label>>))

\* "spread" is the entropy's part of the highest one, "uncertain" that it reaches the threshold.
EvaluateDomain ==
    /\ Asked("domain")
    /\ LET p == input.distribution
           likely == SelectSeq(Indices(Len(p)), LAMBDA i : p[i] >= input.least)
       IN  IF input.empty THEN Answer(Failure("InvalidInput"))
           ELSE AnswerIfChain(
               IF p = <<>> THEN Failure("Inference")
               ELSE IF ~input.uncertain THEN Result(p[1], <<1>>)
               ELSE Result(Unit - input.spread, IF likely = <<>> THEN <<1>> ELSE likely))

EvaluateToxicity ==
    /\ Asked("toxicity")
    /\ LET flagged == {i \in DOMAIN input.scores : input.scores[i] > input.threshold}
       IN  AnswerIfChain(Result(Max({0} \cup {input.scores[i] : i \in flagged}), flagged))

EvaluateContext ==
    /\ Asked("context")
    /\ Answer(Result(Unit, CASE input.tokens < 100 -> <<"short">>
                             [] input.tokens \in 100..999 -> <<"medium">>
                             [] input.tokens \in 1000..4999 -> <<"long">>
                             [] OTHER -> <<"very_long">>))

\* The stopword detector alone: its ranking, and what detect names.
EvaluateLanguage ==
    /\ Asked("language")
    /\ LET primary == Detect(input.hits, input.total)
       IN  Answer(IF primary = <<>> THEN Result(0, <<>>)
                  ELSE Result(primary[1].confidence, <<primary[1].language>>))

-----------------------------------------------------------------------------
(* The other built-in detectors *)

ScanPii ==
    /\ Asked("pii")
    /\ Answer(Result(0, InOrder(Scan(input.matches))))

ScanCard ==
    /\ Asked("card")
    /\ Answer(IF KnownCardPrefix(input.digits) THEN Result(CardConfidence(input.digits), <<"card">>)
              ELSE Result(0, <<>>))

ScanJailbreak ==
    /\ Asked("jailbreak")
    /\ Answer(Result(JailbreakConfidence(input.evidence), input.evidence))

Tokenize ==
    /\ Asked("tokens")
    /\ Answer(Result(0, <<CountTokens(input.text, ForModel(input.ratio))>>))

\* What the constructors of the signals and the type system of Rust leave possible.
ASSUME InputsAssumption ==
    \A family \in DOMAIN Inputs : \A i \in Inputs[family] :
        /\ i.signal = "keyword" =>
              /\ IsASequence(i.text) /\ \A word \in ToSet(i.text) : IsASequence(word)
              /\ IsASequence(i.rules)
              /\ \A rule \in ToSet(i.rules) : rule.strategy = "fuzzy" =>
                    /\ rule.maxDist \in Nat
                    /\ \A pattern \in ToSet(rule.patterns) :
                          IsASequence(pattern) /\ \A word \in ToSet(pattern) : IsASequence(word)
        /\ i.signal = "embedding" =>
              /\ IsChain(i.engines)
              /\ IsASequence(i.rules) /\ \A rule \in ToSet(i.rules) : IsBank(rule.bank)
        /\ i.signal = "complexity" =>
              IsChain(i.engines) /\ IsBank(i.hard) /\ IsBank(i.easy)
        /\ i.signal = "structure" =>
              /\ IsASequence(i.text) /\ IsASequence(i.rules)
              /\ \A rule \in ToSet(i.rules) : rule.kind = "sequence" =>
                    IsASequence(rule.patterns)
                        /\ \A word \in ToSet(rule.patterns) : IsASequence(word)
        /\ i.signal = "pii" =>
              /\ IsASequence(i.matches)
              /\ \A type \in DOMAIN i.matches :
                    /\ IsASequence(i.matches[type])
                    /\ \A k \in DOMAIN i.matches[type] :
                          LET span == i.matches[type][k].span
                          IN  span[1] \in Nat /\ span[2] \in Nat /\ span[1] < span[2]
        /\ i.signal = "cosine" =>
              i.a \in Seq(Int) /\ i.b \in Seq(Int) /\ Len(i.a) = Len(i.b)

\* What a detector or a classifier is asked for, and its doc comment promises: scores and
\* probabilities between 0 and 1.  score_regex and score_bm25 clamp theirs; no word of a
\* text is counted for a language twice.
ASSUME ScoresAssumption ==
    \A family \in DOMAIN Inputs : \A i \in Inputs[family] :
        /\ i.signal = "keyword" =>
              \A rule \in ToSet(i.rules) :
                 /\ rule.operator \in {"or", "and", "nor"} /\ IsASequence(rule.patterns)
                 /\ rule.strategy \in {"given", "trigram", "fuzzy"}
                 /\ rule.strategy = "given" => ToSet(rule.patterns) \subseteq {Invalid} \cup 0..Unit
                 /\ rule.strategy = "trigram" =>
                       \A pattern \in ToSet(rule.patterns) :
                          IsASequence(pattern) /\ \A word \in ToSet(pattern) : IsASequence(word)
        /\ i.signal \in DOMAIN Evidence => i.evidence \subseteq Evidence[i.signal]
        /\ i.signal = "feedback" =>
              i.score \in 0..Unit /\ i.similarity \subseteq -Unit..Unit /\ i.threshold \in Int
        /\ i.signal = "domain" =>
              /\ IsASequence(i.distribution) /\ ToSet(i.distribution) \subseteq 0..Unit
              /\ i.spread \in 0..Unit
        /\ i.signal = "toxicity" => ToSet(i.scores) \subseteq 0..Unit
        /\ i.signal = "language" =>
              /\ IsASequence(i.hits) /\ i.total \in Nat
              /\ ToSet(i.hits) \subseteq 0..i.total

Next ==
    \/ EvaluateKeyword \/ EvaluateStructure \/ EvaluateCode \/ EvaluateFormat
    \/ EvaluateTool \/ EvaluateCost \/ EvaluateEmbedding \/ EvaluateComplexity
    \/ EvaluateFeedback \/ EvaluatePreference \/ EvaluateDomain \/ EvaluateToxicity
    \/ EvaluateContext \/ EvaluateLanguage \/ BuildBank \/ CompareVectors
    \/ ScanPii \/ ScanCard \/ ScanJailbreak \/ Tokenize

Spec == Init /\ [][Next]_vars

-----------------------------------------------------------------------------
(* Properties *)

Answered(signal) == input.signal = signal /\ answer.error = "none"

\* A rule that asks for all of no patterns, which keyword.rs lets pass with f64::MAX.
EmptyConjunction ==
    /\ Answered("keyword") /\ answer.labels # <<>>
    /\ LET rule == input.rules[answer.labels[1]]
       IN  rule.operator = "and" /\ rule.patterns = <<>>

\* The heaviest weight of the banks of an evaluation.
Heaviest ==
    LET banks == CASE input.signal = "embedding" -> {rule.bank : rule \in ToSet(input.rules)}
                   [] input.signal = "complexity" -> {input.hard, input.easy}
    IN  Max({1} \cup UNION {ToSet(bank.weights) : bank \in banks})

\* Every confidence lies between 0 and 1, where a reader of results compares it with
\* thresholds; those that are similarities may be negative, and exceed 1 only by a
\* weight that does (prototype.rs bounds no weight from above).  Feedback answers with a
\* similarity above its threshold, so it is negative only behind a negative threshold,
\* which feedback.rs takes.  Otherwise only a keyword rule that asks for all of no
\* patterns exceeds the range.
ConfidenceInRange ==
    \/ IF input.signal \in {"embedding", "complexity"}
       THEN answer.confidence \in -(Heaviest * Unit)..(Heaviest * Unit)
       ELSE IF input.signal = "feedback"
       THEN answer.confidence \in Minimum(input.threshold, 0)..Unit
       ELSE answer.confidence \in 0..Unit
    \/ EmptyConjunction

\* No evaluation compares vectors of two widths, which the assertion in
\* cosine_similarity turns into a panic: after a failover to an engine of another width
\* a bank answers an error.  Behind a chain that validate_dimensions accepts, with banks
\* of its width, a failover is never an error: only a chain without an answer is.
FailoverKeepsWidth ==
    answer.error # "pending" /\ input.signal \in {"embedding", "complexity"} =>
        LET banks == IF input.signal = "complexity" THEN {input.hard, input.easy}
                     ELSE {rule.bank : rule \in ToSet(input.rules)}
            fit == Validated(input.engines)
                      /\ \A bank \in banks : bank.widths[1] = input.engines[1].width
            failed == answer.error \in {"Inference", "Internal"}
        IN  /\ answer.error # "Panic"
            /\ fit /\ failed => \A i \in DOMAIN input.engines : input.engines[i].fails

\* The four lanes and the tail of cosine_similarity cover every element once, whatever
\* the length leaves after whole chunks, so the quotient of their sums is a similarity
\* between -1 and 1.
LanesCoverVectors ==
    Answered("cosine") =>
        LET sum(u, v) == MapThenSumSet(LAMBDA i : u[i] * v[i], DOMAIN u)
        IN  /\ answer.labels = <<sum(input.a, input.b), sum(input.a, input.a),
                                 sum(input.b, input.b)>>
            /\ answer.labels[1] * answer.labels[1] <= answer.labels[2] * answer.labels[3]

\* More indicators in a text never lower the confidence of the signals that count
\* them (code.rs, format.rs, toolcall.rs, jailbreak_heuristic.rs), although each signal
\* lets some of its indicators decide alone.
EvidenceNeverHurts ==
    answer.error = "none" /\ input.signal \in DOMAIN Evidence =>
        \A more \in SUBSET Evidence[input.signal] :
            input.evidence \subseteq more =>
                answer.confidence <= ConfidenceOf(input.signal, more)

\* The ways to lay one word beside another, each character beside at most one and in order.
Alignments(a, b) ==
    {m \in SUBSET ((DOMAIN a) \X (DOMAIN b)) :
        \A p, q \in m : p = q \/ (p[1] < q[1] /\ p[2] < q[2]) \/ (q[1] < p[1] /\ q[2] < p[2])}

\* What an alignment replaces, deletes and inserts.
Edits(m, a, b) ==
    Cardinality({p \in m : a[p[1]] # b[p[2]]}) + Len(a) + Len(b) - 2 * Cardinality(m)

\* A fuzzy rule accepts a text just where each word of its pattern is within the rule's
\* distance of some word: the two rows of keyword.rs's levenshtein find the fewest edits.
FuzzyWithinDistance ==
    Answered("keyword") =>
        \A i \in DOMAIN input.rules :
            LET rule == input.rules[i] IN
            rule.strategy = "fuzzy" =>
                \A pattern \in ToSet(rule.patterns) :
                    FuzzyScore(input.text, pattern, rule.maxDist) > 0 <=>
                        /\ pattern # <<>> /\ input.text # <<>>
                        /\ \A p \in ToSet(pattern) : \E word \in ToSet(input.text) :
                              \E m \in Alignments(p, word) : Edits(m, p, word) <= rule.maxDist

\* A sequence rule passes just where its patterns occur one after the other: searching
\* each in the rest of the text, with offsets into that rest, misses no occurrence and
\* invents none.
SequenceFound ==
    Answered("structure") =>
        \A i \in DOMAIN input.rules :
            LET rule == input.rules[i] IN
            rule.kind = "sequence" =>
                (i \in answer.labels) =
                    \E at \in [DOMAIN rule.patterns -> 1..(Len(input.text) + 1)] :
                        /\ \A k \in DOMAIN at : at[k] \in Found(rule.patterns[k], input.text)
                        /\ \A k, l \in DOMAIN at :
                              k < l => at[k] + Len(rule.patterns[k]) <= at[l]

\* The entities of pii_regex.rs's scan are disjoint and in order, and a match of an
\* expression is left out only for an entity of a type at least as precise: a match that
\* turns out to be implausible claims nothing.
SpansClaimed ==
    Answered("pii") =>
        /\ \A i, j \in DOMAIN answer.labels :
              i < j => answer.labels[i].span[2] <= answer.labels[j].span[1]
        /\ \A type \in DOMAIN input.matches : \A match \in ToSet(input.matches[type]) :
              Plausible(type, match.value) =>
                  \E i \in DOMAIN answer.labels :
                      /\ answer.labels[i].type <= type
                      /\ answer.labels[i].span[1] < match.span[2]
                      /\ match.span[1] < answer.labels[i].span[2]

=============================================================================
