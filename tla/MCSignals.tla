----------------------------- MODULE MCSignals -----------------------------
(* Instances of Signals for TLC: every evaluation over small texts, rules and scores. *)
EXTENDS SignalRouter

Letters == {"a", "b"}
Words(n) == BoundedSeq(Letters, n)
NonEmpty(S) == S \ {<<>>}
Thresholds == {0, Unit \div 2, Unit}
Scores == {0, Percent(40), Unit \div 2, Percent(70), Unit}
Similarities == {-Unit, 0, Unit}
ChainEnds == {"fails", "answers"}

Fuzzy(pattern, d, t) ==
    [strategy |-> "fuzzy", operator |-> "or", maxDist |-> d, threshold |-> t, patterns |-> <<pattern>>]
FuzzyInputs ==
    {[signal |-> "keyword", text |-> <<w>>, rules |-> <<Fuzzy(<<p>>, d, Unit \div 2)>>] :
        w \in NonEmpty(Words(3)), p \in NonEmpty(Words(3)), d \in 0..2} \cup
    {[signal |-> "keyword", text |-> t, rules |-> <<Fuzzy(ps, d, Unit \div 2)>>] :
        t \in BoundedSeq({<<"b">>, <<"a", "a">>}, 2), ps \in BoundedSeq(NonEmpty(Words(2)), 2), d \in 0..2}

Trigram(t) ==
    [strategy |-> "trigram", operator |-> "or", maxDist |-> 0, threshold |-> t,
     patterns |-> <<<<<<"a", "b", "a">>>>, <<<<"b", "a">>>>>>]
Given(op, t, scores) ==
    [strategy |-> "given", operator |-> op, maxDist |-> 0, threshold |-> t, patterns |-> scores]
TrigramInputs ==
    {[signal |-> "keyword", text |-> <<w>>, rules |-> <<Trigram(t)>>] :
        w \in {<<"a", "b", "a", "b">>, <<"b", "b">>}, t \in Thresholds}
Rules ==
    {Given(op, t, scores) : op \in {"or", "and", "nor"}, t \in Thresholds,
                            scores \in BoundedSeq({Invalid, 0, Unit \div 2, Unit}, 2)}
KeywordInputs ==
    {[signal |-> "keyword", text |-> <<<<"a">>>>, rules |-> <<r>>] : r \in Rules} \cup
    {[signal |-> "keyword", text |-> <<<<"a">>>>, rules |-> <<r, q>>] :
        r \in {Given("or", Unit, <<Unit \div 2>>), Given("nor", Unit, <<Unit>>)}, q \in Rules}

SequenceRule(patterns) == [kind |-> "sequence", patterns |-> patterns]
Counting(kind, pattern, ordering, threshold) ==
    [kind |-> kind, pattern |-> pattern, ordering |-> ordering, threshold |-> threshold]
StructureInputs ==
    {[signal |-> "structure", text |-> t, rules |-> <<SequenceRule(ps)>>] :
        t \in Words(4), ps \in BoundedSeq(NonEmpty(Words(2)) \cup {BadPattern}, 3)} \cup
    {[signal |-> "structure", text |-> t, rules |-> <<Counting(kind, w, o, n), SequenceRule(<<<<"a">>>>)>>] :
        t \in Words(3), kind \in {"exists", "count", "density"}, w \in {<<"a">>, <<"a", "a">>, BadPattern},
        o \in {"less", "equal", "greater"}, n \in {0, 1, 50}} \cup
    {[signal |-> "structure", text |-> <<"a">>, rules |-> <<>>]}

EvidenceInputs ==
    UNION {{[signal |-> s, evidence |-> e] : e \in SUBSET Evidence[s]} : s \in DOMAIN Evidence}

CostInputs == {[signal |-> "cost", costs |-> c] : c \in BoundedSeq({0, 1, 9, 10, 99, 100}, 2)}

Engines == UNION {[1..n -> [fails : BOOLEAN, width : {3, 4}]] : n \in 1..2}
Steady == <<[fails |-> FALSE, width |-> 3]>>
Bank(widths, weights, similarities, best, top) ==
    [widths |-> widths, weights |-> weights, similarities |-> similarities, best |-> best, top |-> top]
OneBank(s, w) == Bank(<<w>>, <<1>>, <<s>>, 4, 1)
\* The banks that an instance holds are those the constructor returns.
Built(banks) == {bank \in banks : NewBank(bank) = "none"}
Banks ==
    Built({Bank(ws, vs, ss, b, m) :
              ws \in {<<3>>, <<3, 3>>, <<3, 4>>}, vs \in BoundedSeq({-1, 0, 1, 2}, 2),
              ss \in [1..2 -> Similarities], b \in {0, 3, 4, 5}, m \in {0, 1, 2}})
BankInputs ==
    {[signal |-> "bank", bank |-> Bank(ws, vs, <<>>, b, 1)] :
        ws \in BoundedSeq({0, 3, 4}, 2), vs \in BoundedSeq({-1, 1}, 2), b \in {-1, 0, 4, 5}}
EmbeddingRules ==
    {[bank |-> OneBank(s, w), threshold |-> Unit \div 2, top |-> k] :
        s \in {0, Unit \div 4, Unit}, w \in {3, 4}, k \in 0..2}
EmbeddingInputs ==
    {[signal |-> "embedding", empty |-> FALSE, engines |-> Steady, rules |-> rs] :
        rs \in BoundedSeq(EmbeddingRules, 2) \cup
               {<<[bank |-> b, threshold |-> 0, top |-> 1]>> : b \in Banks}} \cup
    {[signal |-> "embedding", empty |-> e, engines |-> es, rules |-> rs] :
        e \in BOOLEAN, es \in Engines,
        rs \in {<<>>} \cup {<<[bank |-> OneBank(0, w), threshold |-> 0, top |-> 1]>> : w \in {3, 4}}}
ComplexityInputs ==
    {[signal |-> "complexity", engines |-> es, hard |-> OneBank(h, x), easy |-> OneBank(e, 3),
      margin |-> g] : es \in Engines, h \in Similarities, e \in Similarities, x \in {3, 4}, g \in {0, Unit}}
FeedbackInputs ==
    {[signal |-> "feedback", chain |-> c, score |-> s, similarity |-> v, threshold |-> t,
      engines |-> <<[fails |-> x, width |-> 3]>>] :
        c \in ChainEnds, s \in Scores, v \in {{}} \cup {{x} : x \in Similarities \cup {-(Unit \div 2)}},
        t \in Thresholds \cup {-Unit}, x \in BOOLEAN}
VectorInputs ==
    UNION {{[signal |-> "cosine", a |-> [i \in 1..n |-> i * (3 - i)], b |-> b] :
               b \in [1..n -> {0, 1, -2}]} : n \in 0..6} \cup
    UNION {{[signal |-> "cosine", a |-> [i \in 1..n |-> i - 4], b |-> b] : b \in [1..n -> 0..1]} :
              n \in 7..9}

PreferenceInputs ==
    UNION {{[signal |-> "preference", chain |-> c, late |-> l, labels |-> ls, found |-> f] :
               c \in ChainEnds, l \in BOOLEAN, f \in SUBSET ToSet(ls)} : ls \in BoundedSeq({1, 2}, 2)}
DomainInputs ==
    {[signal |-> "domain", empty |-> e, chain |-> c, distribution |-> d, uncertain |-> u,
      spread |-> s, least |-> t] :
        e \in BOOLEAN, c \in ChainEnds, u \in BOOLEAN, s \in Thresholds, t \in Thresholds,
        d \in {<<>>, <<Unit>>, <<Percent(50), Percent(50)>>, <<Percent(70), Percent(30)>>}}
ToxicityInputs ==
    {[signal |-> "toxicity", chain |-> c, scores |-> s, threshold |-> t] :
        c \in ChainEnds, s \in BoundedSeq(Scores, 2), t \in Thresholds}
ContextInputs ==
    {[signal |-> "context", tokens |-> n] : n \in {0, 99, 100, 999, 1000, 4999, 5000}}
LanguageInputs ==
    {[signal |-> "language", hits |-> h, total |-> n] : h \in [1..3 -> 0..4], n \in {4, 30}}

Span(i, j) == <<i, j>>
Runs3 ==
    {<<>>, <<Span(0, 1)>>, <<Span(0, 2)>>, <<Span(0, 3)>>, <<Span(1, 2)>>, <<Span(1, 3)>>, <<Span(2, 3)>>,
     <<Span(0, 1), Span(1, 2)>>, <<Span(0, 1), Span(2, 3)>>, <<Span(0, 1), Span(1, 3)>>,
     <<Span(0, 2), Span(2, 3)>>, <<Span(1, 2), Span(2, 3)>>}
\* Matches at these spans that all have this value.
Matches(spans, value) == [i \in DOMAIN spans |-> [span |-> spans[i], value |-> value]]
Zeros(n) == [i \in 1..n |-> 0]
Ssns == {<<a, g, n>> : a \in {0, 1, 665, 666, 899, 900}, g \in {0, 1}, n \in {0, 1}}
Card(prefix, rest) == <<prefix \div 1000, (prefix \div 100) % 10, (prefix \div 10) % 10, prefix % 10>> \o rest
Issuers == {2220, 2221, 2720, 2721, 3000, 3059, 3060, 3095, 3400, 3527, 3528, 3589, 3590, 3600, 3700,
             3900, 4000, 5099, 5100, 5599, 5600, 6010, 6011, 6439, 6440, 6499, 6500, 6600}
Octets == {<<0>>, <<1>>, <<0, 1>>, <<2, 5, 5>>, <<2, 5, 6>>}
Addresses == {[octets |-> <<a, b, <<1>>, <<1>>>>, beside |-> x] :
                 a \in Octets, b \in Octets, x \in {"space", "dot", "v"}}
PiiInputs ==
    {[signal |-> "pii", matches |-> <<Matches(m1, "email"), Matches(m2, <<a, 1, 1>>),
                                      Matches(m3, Card(p, Zeros(12))), <<>>, m5>>] :
        m1 \in {<<>>, <<Span(1, 2)>>, <<Span(0, 1), Span(2, 3)>>}, m2 \in Runs3, m3 \in Runs3, a \in {1, 666}, p \in {4000, 6600},
        m5 \in {<<>>, Matches(<<Span(0, 3)>>,
                              [octets |-> <<<<1>>, <<1>>, <<1>>, <<1>>>>, beside |-> "space"])}} \cup
    {[signal |-> "pii", matches |-> <<<<>>, Matches(<<Span(0, 1)>>, ssn), <<>>, Matches(<<Span(0, 2)>>, "phone"),
                                      Matches(<<Span(1, 3)>>, address)>>] :
        ssn \in Ssns, address \in Addresses}
CardInputs ==
    UNION {{[signal |-> "card", digits |-> Card(p, Zeros(n - 6) \o <<a, b>>)] :
               p \in Issuers, a \in {0, 7}, b \in 0..9} : n \in 12..19}
TokenInputs ==
    {[signal |-> "tokens", text |-> t, ratio |-> r] :
        t \in BoundedSeq({"cjk", "punct", "other"}, 4), r \in {0, 3, 7, 8}}

Settings ==
    [whole : {"object"}, concurrency : {Absent, Wrong, 0, 1, 8, 20, 21, 30, 31, 40, 41}, timeout : {Absent, Wrong, 0, 1, 2, 10000}] \cup
    [whole : {"null", "garbage"}, concurrency : {Absent}, timeout : {Absent}]
PlainContext == [text |-> "given", history |-> "full", headers |-> "empty", config |-> "absent"]
Chosen == [whole |-> "object", concurrency |-> 1, timeout |-> 2]
RequestInputs ==
    {request \in [signal : {"request"}, client : Clients, settings : Settings, context : Contexts] :
        /\ request.settings = Chosen \/ request.context = PlainContext
        /\ CanAsk(request.client, request.settings, request.context)}

Rates == <<0, Unit \div 2, Unit>>
RouteRules(n) ==
    {[i \in 1..n |-> [type |-> types[i], needs |-> needs[i], priority |-> priority[i], rate |-> Rates[i]]] :
        types \in [1..n -> {"Complexity", "Keyword"}],
        needs \in [1..n -> {{}, {"labels"}, {"labels", "confidence"}, {"raises"}}],
        priority \in [1..n -> 0..1]}
SignalResults ==
    [type : {"Complexity", "Keyword", "Domain"},
     meets : {{}, {"positive"}, {"positive", "labels"}, {"positive", "labels", "confidence"}}]
RouteInputs ==
    {[signal |-> "route", raises |-> FALSE, fallback |-> Unit, default |-> Percent(50),
      threshold |-> Unit \div 2, rules |-> rules, results |-> results] :
        rules \in RouteRules(1) \cup RouteRules(2), results \in BoundedSeq(SignalResults, 2)} \cup
    {[signal |-> "route", raises |-> TRUE, fallback |-> f, default |-> Percent(50),
      threshold |-> Unit \div 2, rules |-> <<>>, results |-> <<>>] : f \in {0, Unit}}

AllInputs ==
    <<FuzzyInputs, TrigramInputs, KeywordInputs, StructureInputs, EvidenceInputs, CostInputs,
      EmbeddingInputs, ComplexityInputs, FeedbackInputs, PreferenceInputs, DomainInputs,
      ToxicityInputs, ContextInputs, LanguageInputs, PiiInputs, CardInputs, TokenInputs,
      BankInputs, VectorInputs, RequestInputs, RouteInputs>>
=============================================================================
