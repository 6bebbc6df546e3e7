------------------------------ MODULE Scoring ------------------------------
(***************************************************************************)
(* How the rule signals and the built-in detectors score a text:           *)
(* KeywordSignal and StructureSignal (core/src/signals/keyword.rs and      *)
(* structure.rs) and core/src/signals/detectors/*.rs.                      *)
(*                                                                         *)
(* A word is a sequence of characters, a regular expression is a word it   *)
(* finds literally.  Scores are whole numbers of 1/Unit: every fraction    *)
(* the instances meet is one.                                              *)
(***************************************************************************)
EXTENDS Integers, Sequences, SequencesExt, FiniteSetsExt

CONSTANT Unit       \* the score 1.0

\* Every percentage of the code is a whole number of units.
ASSUME UnitAssumption == Unit \in Nat \ {0} /\ Unit % 100 = 0

Percent(n) == (n * Unit) \div 100
Minimum(a, b) == IF a < b THEN a ELSE b
Maximum(a, b) == IF a < b THEN b ELSE a
Indices(n) == [i \in 1..n |-> i]
IsASequence(s) == Len(s) \in Nat /\ s = [i \in 1..Len(s) |-> s[i]]

-----------------------------------------------------------------------------
(* KeywordSignal: the strategies *)

\* Mutant: curr[0] is not set to i.
NextRowFromZero(prev, i, x, b) ==
    FoldLeft(LAMBDA curr, j :
                Append(curr, Min({prev[j + 1] + 1, Last(curr) + 1,
                                  prev[j] + (IF x = b[j] THEN 0 ELSE 1)})),
             <<0>>, Indices(Len(b)))

\* The row of the i-th character x of one word against the other, from the row before.
NextRow(prev, i, x, b) ==
    FoldLeft(LAMBDA curr, j :
                Append(curr, Min({prev[j + 1] + 1, Last(curr) + 1,
                                  prev[j] + (IF x = b[j] THEN 0 ELSE 1)})),
             <<i>>, Indices(Len(b)))

Levenshtein(a, b) ==
    Last(FoldLeftDomain(LAMBDA prev, i : NextRow(prev, i, a[i], b),
                        [j \in 1..(Len(b) + 1) |-> j - 1], a))

\* The words of the pattern against those of the text: the worst of the best distances.
FuzzyScore(text, pattern, maxDist) ==
    LET best(word) == Min({Levenshtein(word, w) : w \in ToSet(text)})
        worst == Max({best(word) : word \in ToSet(pattern)})
    IN  IF pattern = <<>> \/ text = <<>> THEN 0
        ELSE IF worst > maxDist THEN 0
        ELSE IF maxDist = 0 THEN Unit
        ELSE Unit - (worst * Unit) \div (maxDist + 1)

Trigrams(word) == [i \in 1..Maximum(Len(word) - 2, 0) |-> SubSeq(word, i, i + 2)]

TrigramScore(text, pattern) ==
    LET t == Trigrams(text)
        p == Trigrams(pattern)
        shared == {i \in DOMAIN p : Contains(t, p[i])}
    IN  IF p = <<>> THEN 0
        ELSE (Unit * Cardinality(shared)) \div Maximum(Len(t), Len(p))

-----------------------------------------------------------------------------
(* KeywordSignal: the rules *)

Invalid == -1              \* the score of an invalid regular expression
MaxFloat == 1000 * Unit    \* f64::MAX, where AND begins to look for the least score

\* "given" is a regular expression or BM25: the pattern stands for its score.
PatternScore(text, pattern, rule) ==
    CASE rule.strategy = "given" -> pattern
      [] rule.strategy = "trigram" -> TrigramScore(FlattenSeq(text), FlattenSeq(pattern))
      [] rule.strategy = "fuzzy" -> FuzzyScore(text, pattern, rule.maxDist)

\* One invalid pattern makes the rule invalid.
RuleScore(text, rule) ==
    LET scores == {PatternScore(text, pattern, rule) : pattern \in ToSet(rule.patterns)}
        all(low) == \A s \in scores : (s >= rule.threshold) = low
    IN  IF Invalid \in scores THEN Invalid
        ELSE CASE rule.operator = "or" -> Max(scores \cup {0})
               [] rule.operator = "and" -> IF all(TRUE) THEN Min(scores \cup {MaxFloat}) ELSE 0
               [] rule.operator = "nor" -> IF all(FALSE) THEN Unit ELSE 0

-----------------------------------------------------------------------------
(* StructureSignal *)

BadPattern == <<"(">>      \* not a regular expression

\* Where the word is found in the text.
Found(word, text) ==
    {i \in 1..(Len(text) - Len(word) + 1) : SubSeq(text, i, i + Len(word) - 1) = word}

\* find_iter: matches from the left that do not overlap.
MatchCount(word, text) ==
    FoldLeft(LAMBDA m, i : IF i >= m.next /\ i \in Found(word, text)
                           THEN [next |-> i + Len(word), count |-> m.count + 1] ELSE m,
             [next |-> 1, count |-> 0], Indices(Len(text))).count

Compare(a, b) == IF a < b THEN "less" ELSE IF a = b THEN "equal" ELSE "greater"

\* Mutant: the end of a match in the rest is taken for one in the text.
SearchNextRelative(text, search, word) ==
    LET rest == SubSeq(text, search.start + 1, Len(text))
        found == Found(word, rest)
    IN  IF search.outcome # "passes" THEN search
        ELSE IF word = BadPattern THEN [search EXCEPT !.outcome = "error"]
        ELSE IF found = {} THEN [search EXCEPT !.outcome = "fails"]
        ELSE [search EXCEPT !.start = Min(found) - 1 + Len(word)]

\* One turn of the loop of Sequence: the pattern is searched in the rest of the text.
SearchNext(text, search, word) ==
    LET rest == SubSeq(text, search.start + 1, Len(text))
        found == Found(word, rest)
    IN  IF search.outcome # "passes" THEN search
        ELSE IF word = BadPattern THEN [search EXCEPT !.outcome = "error"]
        ELSE IF found = {} THEN [search EXCEPT !.outcome = "fails"]
        ELSE [search EXCEPT !.start = @ + Min(found) - 1 + Len(word)]

SearchSequence(text, patterns) ==
    FoldLeft(LAMBDA search, word : SearchNext(text, search, word),
             [start |-> 0, outcome |-> "passes"], patterns).outcome

\* A density is in percent of the bytes of the text, and 0 in an empty one.
CheckRule(text, rule) ==
    LET passes(b) == IF b THEN "passes" ELSE "fails"
        count == MatchCount(rule.pattern, text)
    IN  CASE rule.kind = "sequence" -> SearchSequence(text, rule.patterns)
          [] rule.kind # "sequence" /\ rule.pattern = BadPattern -> "error"
          [] rule.kind = "exists" /\ rule.pattern # BadPattern -> passes(Found(rule.pattern, text) # {})
          [] rule.kind = "count" /\ rule.pattern # BadPattern ->
                passes(Compare(count, rule.threshold) = rule.ordering)
          [] rule.kind = "density" /\ rule.pattern # BadPattern ->
                passes(rule.ordering = IF text = <<>> THEN Compare(0, rule.threshold)
                                       ELSE Compare(100 * count, rule.threshold * Len(text)))

-----------------------------------------------------------------------------
(* RegexPiiDetector::scan *)

\* Mutant: only a span that starts inside another one overlaps it.
OverlapsAtStart(a, b) == a[1] <= b[1] /\ b[1] < a[2]

Overlaps(a, b) == a[1] < b[2] /\ b[1] < a[2]

\* A span overlapping one already taken is left out.
Push(taken, type, span) ==
    IF \E t \in taken : Overlaps(t.span, span) THEN taken
    ELSE taken \cup {[type |-> type, span |-> span]}

\* Area, group and serial number of an SSN that is issued.
PlausibleSsn(ssn) ==
    /\ ssn[1] \in (1..899) \ {666}
    /\ ssn[2] # 0
    /\ ssn[3] # 0

Number(digits) == FoldLeft(LAMBDA n, d : 10 * n + d, 0, digits)

\* The issuers' prefixes and lengths.
KnownCardPrefix(digits) ==
    LET len == Len(digits)
        prefix(k) == Number(SubSeq(digits, 1, k))
    IN  \/ prefix(1) = 4 /\ len \in {13, 16, 19}
        \/ len = 16 /\ \/ prefix(2) \in (51..55) \cup {65}
                       \/ prefix(3) \in 644..649
                       \/ prefix(4) \in (2221..2720) \cup {6011}
        \/ len = 15 /\ prefix(2) \in {34, 37}
        \/ len \in 16..19 /\ prefix(4) \in 3528..3589
        \/ len = 14 /\ \/ prefix(2) \in {36, 38, 39}
                       \/ prefix(3) \in 300..305
                       \/ prefix(4) = 3095

\* Each octet is a sequence of digits.
ValidIpv4(octets) == \A i \in DOMAIN octets : Number(octets[i]) <= 255

\* A zero leads a later octet, or a dot or a v stands beside the address.
LooksLikeVersion(address) ==
    \/ \E i \in DOMAIN address.octets \ {1} :
          Len(address.octets[i]) > 1 /\ address.octets[i][1] = 0
    \/ address.beside \in {"dot", "v"}

\* What a match must be for its type: an SSN that may have been issued, a card of a known
\* issuer, an address that is no version.
Plausible(type, value) ==
    CASE type = 2 -> PlausibleSsn(value)
      [] type = 3 -> KnownCardPrefix(value)
      [] type = 5 -> ValidIpv4(value.octets) /\ ~LooksLikeVersion(value)
      [] type \in {1, 4} -> TRUE

\* The matches of each pattern, in the order of their precision: e-mail addresses, SSNs,
\* cards, phones and IP addresses.
Scan(matches) ==
    FoldLeftDomain(LAMBDA out, type :
            FoldLeft(LAMBDA taken, match : IF Plausible(type, match.value)
                                           THEN Push(taken, type, match.span) ELSE taken,
                     out, matches[type]),
        {}, matches)

\* The elements of a set, none after one it has to come before.
SortedBy(S, before(_, _)) ==
    CHOOSE order \in Bijection(1..Cardinality(S), S) :
        \A i, j \in DOMAIN order : i < j => before(order[i], order[j])

\* The entities by their start.
InOrder(entities) == SortedBy(entities, LAMBDA d, e : d.span[1] <= e.span[1])

LuhnTerm(digit, second) ==
    IF ~second THEN digit ELSE IF 2 * digit > 9 THEN 2 * digit - 9 ELSE 2 * digit

LuhnValid(digits) ==
    /\ Len(digits) >= 2
    /\ MapThenSumSet(LAMBDA i : LuhnTerm(digits[i], (Len(digits) - i) % 2 = 1),
                     DOMAIN digits) % 10 = 0

CardConfidence(digits) == IF LuhnValid(digits) THEN Percent(90) ELSE Percent(60)

-----------------------------------------------------------------------------
(* The other built-in detectors *)

\* Mutant: the confidence does not saturate.
JailbreakConfidenceUnbounded(vectors) ==
    IF vectors = {} THEN 0 ELSE Percent(35) + Percent(20) * Cardinality(vectors)

\* HeuristicJailbreakDetector::scan, of the vectors that fired.
JailbreakConfidence(vectors) ==
    IF vectors = {} THEN 0
    ELSE Minimum(Percent(35) + Percent(20) * Minimum(Cardinality(vectors), 3), Percent(95))

\* StopwordLanguageDetector::score: the languages with enough hits among `total' tokens.
Scored(hits, total) ==
    SortedBy({l \in DOMAIN hits : hits[l] >= 2 /\ 100 * hits[l] >= 8 * total},
             LAMBDA l, m : hits[l] > hits[m] \/ (hits[l] = hits[m] /\ l <= m))

\* to_detected; the margin is the part num/den of the winner's hits.
ToDetected(l, hits, total, num, den) ==
    [language |-> l,
     confidence |-> Minimum(Percent(45) + Minimum((Unit * hits[l]) \div total, Percent(35))
                                + (Percent(15) * num) \div den,
                            Percent(95))]

\* The winner, by its margin over the runner-up.
Winner(scored, hits, total) ==
    IF Len(scored) > 1
    THEN ToDetected(scored[1], hits, total, hits[scored[1]] - hits[scored[2]], hits[scored[1]])
    ELSE ToDetected(scored[1], hits, total, 1, 1)

DetectMultiple(hits, total) ==
    LET scored == Scored(hits, total)
    IN  [i \in DOMAIN scored |->
            IF i = 1 THEN Winner(scored, hits, total)
            ELSE ToDetected(scored[i], hits, total, 0, 1)]

Detect(hits, total) ==
    LET scored == Scored(hits, total)
    IN  IF scored = <<>> THEN <<>> ELSE <<Winner(scored, hits, total)>>

\* ApproxTokenizer::for_model, in half characters per token; four whole ones for what is
\* not positive.
ForModel(ratio) == IF ratio > 0 THEN ratio ELSE 8

\* ApproxTokenizer::count_tokens: a CJK character is a token, the first of a run of
\* punctuation half a one more than another character, and a part of a token is one.
CountTokens(text, ratio) ==
    LET cost(i) == CASE text[i] = "cjk" -> 2 * ratio
                     [] text[i] = "punct" -> IF i > 1 /\ text[i - 1] = "punct" THEN 4 ELSE 4 + ratio
                     [] OTHER -> 4
    IN  (MapThenSumSet(cost, DOMAIN text) + 2 * ratio - 1) \div (2 * ratio)

-----------------------------------------------------------------------------
(* cosine_similarity of core/src/embedding.rs *)

\* Mutant: the tail starts one element late.
LaneSumLate(a, b) ==
    LET whole == 4 * (Len(a) \div 4)
        product(i) == a[i] * b[i]
        lane(j) == MapThenSumSet(product, {i \in 1..whole : (i - 1) % 4 = j})
    IN  lane(0) + lane(1) + lane(2) + lane(3)
            + MapThenSumSet(product, (whole + 2)..Len(a))

\* The sum of the products of two vectors: four lanes over whole chunks of four, then
\* the tail.
LaneSum(a, b) ==
    LET whole == 4 * (Len(a) \div 4)
        product(i) == a[i] * b[i]
        lane(j) == MapThenSumSet(product, {i \in 1..whole : (i - 1) % 4 = j})
    IN  lane(0) + lane(1) + lane(2) + lane(3)
            + MapThenSumSet(product, (whole + 1)..Len(a))
=============================================================================
