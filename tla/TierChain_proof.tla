-------------------------- MODULE TierChain_proof --------------------------
(***************************************************************************)
(* Proofs about TierChain, for every set of traits and labels, every       *)
(* number of tiers and every confidence scale.                             *)
(***************************************************************************)
EXTENDS TierChain, FiniteSetTheorems, SequenceTheorems, WellFoundedInduction, TLAPS

-----------------------------------------------------------------------------
(* Lemmas about data. *)

\* A non-empty set of levels has a greatest one.
LEMMA MaxLevelIsMax ==
    ASSUME NEW S, S \subseteq Levels, S # {}
    PROVE  MaxLevel(S) \in S /\ \A y \in S : y <= MaxLevel(S)
<1> USE TopLevelAssumption DEF Levels
<1> DEFINE Gaps == {TopLevel - x : x \in S}
<1>1. Gaps \subseteq Nat /\ Gaps # {}
  <2>1. PICK x \in S : TRUE
    OBVIOUS
  <2>2. TopLevel - x \in Gaps
    OBVIOUS
  <2>3. Gaps \subseteq Nat
    OBVIOUS
  <2>4. QED
    BY <2>2, <2>3
<1>2. PICK gap \in Gaps : \A y \in Gaps : ~(<<y, gap>> \in OpToRel(<, Nat))
  BY <1>1, WFMin, NatLessThanWellFounded
<1>3. \A y \in Gaps : ~(y < gap)
  BY <1>1, <1>2 DEF OpToRel
<1>4. PICK x \in S : gap = TopLevel - x
  OBVIOUS
<1>5. \A y \in S : y <= x
  <2> TAKE y \in S
  <2>1. ~(TopLevel - y < gap)
    BY <1>3
  <2>2. QED
    BY <1>4, <2>1
<1>6. QED
  BY <1>5 DEF MaxLevel

\* The score of a set of labels is a level.
LEMMA MaxScoreInLevels ==
    ASSUME NEW labels \in LabelMaps
    PROVE  MaxScore(labels) \in Levels
<1> DEFINE S == {0} \cup {labels[l] : l \in DOMAIN labels}
<1>1. S \subseteq Levels /\ S # {}
  BY TopLevelAssumption DEF LabelMaps, Levels
<1>2. QED
  BY <1>1, MaxLevelIsMax DEF MaxScore

\* What the tiers of a list-valued trait, and of a jailbreak detector, can answer.
LEMMA ListValues ==
    ASSUME NEW kind \in Kinds, ListKind(kind), NEW v \in Values(kind)
    PROVE  \E f \in LabelMaps : v = Value(MaxScore(f), f, DOMAIN f = {})
<1> USE DEF Value
<1>1. Values(kind) = {Value(MaxScore(f), f, DOMAIN f = {}) : f \in LabelMaps}
  BY DEF Values, ListKind
<1>2. PICK f \in LabelMaps : v = Value(MaxScore(f), f, DOMAIN f = {})
  BY <1>1
<1>3. QED
  BY <1>2

LEMMA JailbreakValues ==
    ASSUME NEW v \in Values("jailbreak")
    PROVE  \E c \in RawConfidences, D \in SUBSET Labels : v = Value(c, [l \in D |-> 0], D = {})
<1>1. Values("jailbreak") =
        {Value(c, [l \in D |-> 0], D = {}) : c \in RawConfidences, D \in SUBSET Labels}
  BY DEF Values, ListKind
<1>2. QED
  BY <1>1 DEF Value

\* The confidences a tier reports: levels, or NaN where the instance has it.
LEMMA ConfidenceOfValue ==
    ASSUME NEW kind \in Kinds, NEW v \in Values(kind)
    PROVE  v.conf \in RawConfidences
<1> USE TopLevelAssumption DEF RawConfidences, Value
<1>0. 0 \in Levels
  BY DEF Levels
<1>1. CASE ListKind(kind)
  BY <1>1, ListValues, MaxScoreInLevels
<1>2. CASE kind = "jailbreak"
  BY <1>2 DEF Values, ListKind
<1>3. CASE kind = "language"
  BY <1>0, <1>3 DEF Values, ListKind
<1>4. CASE kind = "satisfaction"
  BY <1>4 DEF Values, ListKind
<1>5. CASE ~ListKind(kind) /\ kind \notin {"jailbreak", "language", "satisfaction"}
  BY <1>0, <1>5 DEF Values
<1>6. QED
  BY <1>1, <1>2, <1>3, <1>4, <1>5

\* An answer is a value of its trait or an error; infallible traits have no errors.
LEMMA AnswerShape ==
    ASSUME NEW kind \in Kinds, NEW a \in AnswersOf[kind]
    PROVE  /\ a \in AllAnswers
           /\ a.ok \in BOOLEAN
           /\ a.ok => a.value.conf \in RawConfidences
           /\ ~a.ok => ~Infallible(kind)
<1>1. AnswersOf[kind] = Answers(kind) /\ a \in Answers(kind)
  BY DEF AnswersOf
<1>2. a \in AllAnswers
  BY <1>1 DEF AllAnswers
<1>3. CASE \E v \in Values(kind) : a = Ok(v)
  BY <1>2, <1>3, ConfidenceOfValue DEF Ok
<1>4. CASE ~Infallible(kind) /\ \E e \in SignalErrors : a = Err(e)
  BY <1>2, <1>4 DEF Err
<1>5. QED
  BY <1>1, <1>3, <1>4 DEF Answers

\* What a config string can mean is a strategy and a threshold.
LEMMA ParsedSpec ==
    ASSUME NEW spec \in Specs
    PROVE  /\ ParsedThreshold(spec) \in Thresholds
           /\ ParsedStrategy(spec) # "invalid" => ParsedStrategy(spec) \in Strategies
<1>1. DefaultThreshold \in Levels
  BY TopLevelAssumption DEF DefaultThreshold, Levels
<1>2. QED
  BY <1>1 DEF ParsedThreshold, ParsedStrategy, Strategies, Thresholds, RawConfidences
-----------------------------------------------------------------------------
(* The inductive invariant. *)

\* A chain that can be evaluated passed the constructor's guards.
Constructed ==
    phase \in {"ready", "running", "done"} =>
        chain \in Chains /\ Legal(chain.kind, chain.strategy, chain.tiers)

\* The answers are those of the chain's trait, one per tier at most.
OneAnswerEach ==
    /\ phase \in {"running", "done"} =>
          /\ Len(answers) <= chain.tiers
          /\ \A i \in 1..Len(answers) : answers[i] \in AnswersOf[chain.kind]
    /\ phase \notin {"running", "done"} => answers = <<>>

\* What ProvenanceTrue says of the tiers asked and of their errors, and how many
\* errors there are when no tier has answered.
Recorded ==
    /\ attempted = [i \in 1..Len(answers) |-> i]
    /\ \A i \in 1..Len(answers) : ~answers[i].ok <=> \E k \in 1..Len(tierErrors) : tierErrors[k] = i
    /\ \A k \in 1..Len(tierErrors) : tierErrors[k] \in 1..Len(answers)
    /\ \A j, k \in 1..Len(tierErrors) : j < k => tierErrors[j] < tierErrors[k]
    /\ Len(tierErrors) <= Len(answers)
    /\ Len(tierErrors) = Len(answers) <=> Answered = {}

\* While the chain runs no tier has cleared the bar.
Searching ==
    phase = "running" =>
        /\ winner = 0
        /\ \A i \in 1..Len(answers) : ~Clears(i)
        /\ chain.kind = "tokenizer" => answers = <<>>

\* The best tier so far is the most confident one that answered, the earliest of
\* equals; there is none only while every confidence was NaN.
BestSoFar ==
    phase = "running" /\ ~Merging =>
        /\ best = 0 => \A i \in Answered : Conf(i) = NaN
        /\ best # 0 =>
              /\ best \in Answered
              /\ Conf(best) # NaN
              /\ \A i \in Answered \ {best} :
                    ~Above(Conf(i), Conf(best)) /\ (i < best => Conf(i) # Conf(best))

LoopInv == TypeOK /\ Constructed /\ OneAnswerEach /\ Recorded /\ Searching /\ BestSoFar

\* Without NaN an answer always makes a best tier, so that only a chain whose
\* tiers all failed can fail.
Outcome ==
    phase = "done" =>
        /\ winner = 0 <=> Merging \/ ~result.ok
        /\ ~result.ok <=> Answered = {} /\ Len(answers) = chain.tiers
        /\ ~result.ok /\ chain.tiers = 1 => result = answers[1]

ChainInv ==
    /\ LoopInv
    /\ AsksWhatIsNeeded
    /\ ReturnsBest
    /\ ~NaNs => Outcome

-----------------------------------------------------------------------------
(* What one turn of the tier loop does to the answers. *)

LEMMA AnswersAppended ==
    ASSUME LoopInv, NEW answer \in AnswersOf[chain.kind], Asked(answer)
    PROVE  /\ phase = "running"
           /\ chain \in Chains
           /\ Len(answers) \in Nat
           /\ Next1 \in 1..chain.tiers
           /\ Next1 \in 1..MaxTiers
           /\ Next1 = Len(answers) + 1
           /\ answers' \in Seq(AllAnswers)
           /\ Len(answers') = Next1
           /\ answers'[Next1] = answer
           /\ \A i \in 1..Len(answers) : answers'[i] = answers[i]
           /\ attempted' \in Seq(1..MaxTiers)
           /\ attempted' = [i \in 1..Next1 |-> i]
           /\ Answered' = IF answer.ok THEN Answered \cup {Next1} ELSE Answered
<1> USE DEF LoopInv
<1>1. /\ phase = "running" /\ chain \in Chains /\ Next1 = Len(answers) + 1
      /\ answers \in Seq(AllAnswers) /\ attempted \in Seq(1..MaxTiers)
      /\ Len(answers) \in Nat
  BY DEF Asked, TypeOK, Next1
<1>2. Next1 \in 1..chain.tiers /\ Next1 \in 1..MaxTiers
  BY <1>1, MaxTiersAssumption DEF Asked, Chains
<1>3. answer \in AllAnswers /\ answer.ok \in BOOLEAN
  BY <1>1, AnswerShape DEF Chains
<1>4. /\ answers' \in Seq(AllAnswers)
      /\ Len(answers') = Next1
      /\ answers'[Next1] = answer
      /\ \A i \in 1..Len(answers) : answers'[i] = answers[i]
  BY <1>1, <1>3, AppendProperties DEF Asked
<1>5. attempted' \in Seq(1..MaxTiers)
  BY <1>1, <1>2, AppendProperties DEF Asked
<1>6. attempted' = [i \in 1..Next1 |-> i]
  <2>1. /\ Len(attempted) = Len(answers)
        /\ \A i \in 1..Len(answers) : attempted[i] = i
    BY <1>1 DEF Recorded
  <2>2. /\ Len(attempted') = Next1
        /\ \A i \in 1..Next1 : attempted'[i] = i
    BY <1>1, <1>2, <2>1, AppendProperties DEF Asked
  <2>3. DOMAIN attempted' = 1..Next1
    BY <1>5, <2>2
  <2>4. attempted' = [i \in DOMAIN attempted' |-> attempted'[i]]
    BY <1>5
  <2>5. QED
    BY <2>2, <2>3, <2>4
<1>7. Answered' = IF answer.ok THEN Answered \cup {Next1} ELSE Answered
  BY <1>1, <1>3, <1>4 DEF Answered
<1>8. QED
  BY <1>1, <1>2, <1>4, <1>5, <1>6, <1>7
\* A failed tier is recorded, after those before it.
LEMMA RecordedOnFailure ==
    ASSUME LoopInv, NEW answer \in AnswersOf[chain.kind], TierFails(answer)
    PROVE  Recorded' /\ tierErrors' \in Seq(1..MaxTiers)
<1>0. Asked(answer) /\ ~answer.ok /\ tierErrors' = Append(tierErrors, Next1)
  BY DEF TierFails
<1> DEFINE n == Len(tierErrors)
<1>1. /\ tierErrors \in Seq(1..MaxTiers)
      /\ n \in Nat
      /\ Recorded
  BY DEF LoopInv, TypeOK
<1>2. /\ Len(answers) \in Nat
      /\ Next1 = Len(answers) + 1
      /\ Next1 \in 1..MaxTiers
      /\ Len(answers') = Next1
      /\ answers'[Next1] = answer
      /\ \A i \in 1..Len(answers) : answers'[i] = answers[i]
      /\ attempted' = [i \in 1..Next1 |-> i]
      /\ Answered' = Answered
  BY <1>0, AnswersAppended
<1>3. /\ tierErrors' \in Seq(1..MaxTiers)
      /\ Len(tierErrors') = n + 1
      /\ tierErrors'[n + 1] = Next1
      /\ \A k \in 1..n : tierErrors'[k] = tierErrors[k]
  BY <1>0, <1>1, <1>2, AppendProperties
<1> HIDE DEF n
<1>4. \A k \in 1..n : tierErrors[k] \in 1..Len(answers)
  BY <1>1 DEF Recorded, n
<1>5. ASSUME NEW i \in 1..Next1
      PROVE  ~answers'[i].ok <=> \E k \in 1..(n + 1) : tierErrors'[k] = i
  <2>1. CASE i = Next1
    BY <1>0, <1>1, <1>2, <1>3, <2>1
  <2>2. CASE i # Next1
    <3>1. i \in 1..Len(answers) /\ answers'[i] = answers[i]
      BY <1>2, <2>2
    <3>2. ~answers[i].ok <=> \E k \in 1..n : tierErrors[k] = i
      BY <1>1, <3>1 DEF Recorded, n
    <3>3. (\E k \in 1..n : tierErrors[k] = i) <=> (\E k \in 1..(n + 1) : tierErrors'[k] = i)
      BY <1>1, <1>3, <2>2
    <3>4. QED
      BY <3>1, <3>2, <3>3
  <2>3. QED
    BY <2>1, <2>2
<1>6. \A k \in 1..(n + 1) : tierErrors'[k] \in 1..Next1
  BY <1>1, <1>2, <1>3, <1>4
<1>7. \A j, k \in 1..n : j < k => tierErrors[j] < tierErrors[k]
  BY <1>1 DEF Recorded, n
<1>8. ASSUME NEW j \in 1..(n + 1), NEW k \in 1..(n + 1), j < k
      PROVE  tierErrors'[j] < tierErrors'[k]
  <2>1. j \in 1..n /\ tierErrors'[j] = tierErrors[j]
    BY <1>1, <1>3, <1>8
  <2>2. CASE k = n + 1
    BY <1>2, <1>3, <1>4, <2>1, <2>2
  <2>3. CASE k # n + 1
    <3>1. k \in 1..n /\ tierErrors'[k] = tierErrors[k]
      BY <1>1, <1>3, <2>3
    <3>2. QED
      BY <1>7, <1>8, <2>1, <3>1
  <2>4. QED
    BY <2>2, <2>3
<1>9. n + 1 <= Next1 /\ (n + 1 = Next1 <=> Answered' = {})
  BY <1>1, <1>2 DEF Recorded, n
<1>10. QED
  BY <1>2, <1>3, <1>5, <1>6, <1>8, <1>9 DEF Recorded

\* An answer leaves the errors as they are; from now on they are fewer.
LEMMA RecordedOnAnswer ==
    ASSUME LoopInv, NEW answer \in AnswersOf[chain.kind], Asked(answer), answer.ok,
           tierErrors' = tierErrors
    PROVE  Recorded'
<1> DEFINE n == Len(tierErrors)
<1>1. /\ tierErrors \in Seq(1..MaxTiers)
      /\ n \in Nat
      /\ Recorded
  BY DEF LoopInv, TypeOK
<1>2. /\ Len(answers) \in Nat
      /\ Next1 = Len(answers) + 1
      /\ Len(answers') = Next1
      /\ answers'[Next1] = answer
      /\ \A i \in 1..Len(answers) : answers'[i] = answers[i]
      /\ attempted' = [i \in 1..Next1 |-> i]
      /\ Answered' = Answered \cup {Next1}
  BY AnswersAppended
<1> HIDE DEF n
<1>3. \A k \in 1..n : tierErrors[k] \in 1..Len(answers)
  BY <1>1 DEF Recorded, n
<1>4. \A k \in 1..n : tierErrors[k] \in 1..Next1 /\ tierErrors[k] # Next1
  BY <1>2, <1>3
<1>5. ASSUME NEW i \in 1..Next1
      PROVE  ~answers'[i].ok <=> \E k \in 1..n : tierErrors[k] = i
  <2>1. CASE i = Next1
    BY <1>2, <1>4, <2>1
  <2>2. CASE i # Next1
    <3>1. i \in 1..Len(answers) /\ answers'[i] = answers[i]
      BY <1>2, <2>2
    <3>2. QED
      BY <1>1, <3>1 DEF Recorded, n
  <2>3. QED
    BY <2>1, <2>2
<1>6. \A j, k \in 1..n : j < k => tierErrors[j] < tierErrors[k]
  BY <1>1 DEF Recorded, n
<1>7. n <= Next1 /\ n # Next1 /\ Answered' # {}
  BY <1>1, <1>2 DEF Recorded, n
<1>8. Len(tierErrors') = n /\ \A k \in 1..n : tierErrors'[k] = tierErrors[k]
  BY DEF n
<1>9. QED
  BY <1>2, <1>4, <1>5, <1>6, <1>7, <1>8 DEF Recorded
\* The new answer clears the bar exactly if the chain accepts it.
LEMMA BarAfterTurn ==
    ASSUME LoopInv, NEW answer \in AnswersOf[chain.kind], Asked(answer), chain' = chain,
           NEW n, n = Next1
    PROVE  /\ \A i \in 1..Len(answers) : ~Clears(i)' /\ Conf(i)' = Conf(i)
           /\ Conf(n)' = answer.value.conf
           /\ answer.ok => answer.value.conf \in RawConfidences
           /\ Clears(n)' <=> answer.ok /\ ~Merging /\ Accepts(answer.value)
<1>1. /\ phase = "running"
      /\ chain \in Chains
      /\ n = Len(answers) + 1
      /\ Len(answers) \in Nat
      /\ answers'[n] = answer
      /\ \A i \in 1..Len(answers) : answers'[i] = answers[i] /\ i # n
      /\ Answered' = IF answer.ok THEN Answered \cup {n} ELSE Answered
      /\ n \notin Answered
  BY AnswersAppended DEF Answered
<1>2. answer.ok => answer.value.conf \in RawConfidences
  BY <1>1, AnswerShape DEF Chains
<1>3. chain.strategy \in Strategies /\ chain.threshold \in Thresholds
  BY <1>1 DEF Chains
<1>4. ASSUME NEW i \in 1..Len(answers)
      PROVE  ~Clears(i)' /\ Conf(i)' = Conf(i)
  <2>1. ~Clears(i)
    BY <1>1 DEF LoopInv, Searching
  <2>2. Clears(i)' <=> Clears(i)
    BY <1>1 DEF Clears, Conf
  <2>3. QED
    BY <1>1, <2>1, <2>2 DEF Conf
<1>5. Clears(n)' <=> answer.ok /\ ~Merging /\ Accepts(answer.value)
  <2>1. CASE ~answer.ok
    BY <1>1, <2>1 DEF Clears
  <2>2. CASE answer.ok
    <3>1. n \in Answered'
      BY <1>1, <2>2
    <3>2. CASE chain.strategy # "escalate"
      BY <1>1, <1>3, <3>1, <3>2, <2>2 DEF Clears, Accepts, Merging, Strategies
    <3>3. CASE chain.strategy = "escalate"
      BY <1>1, <1>2, <1>3, <3>1, <3>3, <2>2, TopLevelAssumption
         DEF Clears, Conf, Accepts, Merging, Above, Thresholds, RawConfidences, Levels, NaN
    <3>4. QED
      BY <3>2, <3>3
  <2>3. QED
    BY <2>1, <2>2
<1>6. Conf(n)' = answer.value.conf
  BY <1>1 DEF Conf
<1>7. QED
  BY <1>2, <1>4, <1>5, <1>6
\* What every turn keeps, whatever its answer does to the rest of the state.
LEMMA TurnKeeps ==
    ASSUME LoopInv, NEW answer \in AnswersOf[chain.kind], Asked(answer), chain' = chain,
           phase' \in {"running", "done"}
    PROVE  Constructed' /\ OneAnswerEach'
<1>1. /\ phase = "running" /\ chain \in Chains
      /\ Len(answers) \in Nat
      /\ Next1 = Len(answers) + 1
      /\ Next1 \in 1..chain.tiers
      /\ Len(answers') = Next1
      /\ answers'[Next1] = answer
      /\ \A i \in 1..Len(answers) : answers'[i] = answers[i]
  BY AnswersAppended
<1>2. \A i \in 1..Len(answers) : answers[i] \in AnswersOf[chain.kind]
  BY <1>1 DEF LoopInv, OneAnswerEach
<1>3. \A i \in 1..Len(answers') : answers'[i] \in AnswersOf[chain'.kind]
  BY <1>1, <1>2
<1>4. Len(answers') <= chain'.tiers
  BY <1>1 DEF Chains
<1>5. Constructed'
  BY <1>1 DEF LoopInv, Constructed
<1>6. QED
  BY <1>3, <1>4, <1>5 DEF OneAnswerEach

LEMMA TierFailsKeeps ==
    ASSUME LoopInv, NEW answer \in AnswersOf[chain.kind], TierFails(answer)
    PROVE  ChainInv'
<1>0. /\ Asked(answer) /\ ~answer.ok
      /\ UNCHANGED <<chain, phase, winner, best, merged, result>>
  BY DEF TierFails
<1>1. PICK n : n = Next1
  OBVIOUS
<1>2. /\ phase = "running" /\ chain \in Chains
      /\ n = Len(answers) + 1 /\ Len(answers) \in Nat
      /\ Len(answers') = n
      /\ answers' \in Seq(AllAnswers) /\ attempted' \in Seq(1..MaxTiers)
      /\ Answered' = Answered
  BY <1>0, <1>1, AnswersAppended
<1>3. Recorded' /\ tierErrors' \in Seq(1..MaxTiers)
  BY RecordedOnFailure
<1>4. /\ \A i \in 1..Len(answers) : ~Clears(i)' /\ Conf(i)' = Conf(i)
      /\ ~Clears(n)'
  BY <1>0, <1>1, BarAfterTurn
<1>5. TypeOK'
  BY <1>0, <1>2, <1>3 DEF LoopInv, TypeOK
<1>6. Constructed' /\ OneAnswerEach'
  BY <1>0, <1>2, TurnKeeps
<1>7. Searching'
  <2>1. \A i \in 1..Len(answers') : ~Clears(i)'
    <3> TAKE i \in 1..Len(answers')
    <3>1. CASE i = n
      BY <1>4, <3>1 DEF Clears, Answered, Conf
    <3>2. CASE i # n
      <4>1. i \in 1..Len(answers)
        BY <1>2, <3>2
      <4>2. QED
        BY <1>4, <4>1
    <3>3. QED
      BY <3>1, <3>2
  <2>2. chain'.kind # "tokenizer" /\ winner' = 0
    BY <1>0, <1>2 DEF Asked, LoopInv, Searching
  <2>3. QED
    BY <2>1, <2>2 DEF Searching
<1>8. BestSoFar'
  <2>1. \A i \in Answered : Conf(i)' = Conf(i)
    BY <1>4 DEF Answered
  <2>2. Merging' <=> Merging
    BY <1>0 DEF Merging
  <2>3. QED
    BY <1>0, <1>2, <2>1, <2>2 DEF LoopInv, BestSoFar
<1>9. QED
  BY <1>0, <1>2, <1>3, <1>5, <1>6, <1>7, <1>8 DEF LoopInv, ChainInv, AsksWhatIsNeeded, ReturnsBest, Outcome, Searching

LEMMA TierMergedKeeps ==
    ASSUME LoopInv, NEW answer \in AnswersOf[chain.kind], TierMerged(answer)
    PROVE  ChainInv'
<1>0. /\ Asked(answer) /\ answer.ok /\ Merging
      /\ UNCHANGED <<chain, phase, winner, tierErrors, best, result>>
  BY DEF TierMerged
<1>1. PICK n : n = Next1
  OBVIOUS
<1>2. /\ phase = "running" /\ chain \in Chains
      /\ n = Len(answers) + 1 /\ Len(answers) \in Nat
      /\ Len(answers') = n
      /\ answers' \in Seq(AllAnswers) /\ attempted' \in Seq(1..MaxTiers)
  BY <1>0, <1>1, AnswersAppended
<1>3. Recorded'
  BY <1>0, RecordedOnAnswer
<1>4. (\A i \in 1..Len(answers) : ~Clears(i)') /\ ~Clears(n)'
  BY <1>0, <1>1, BarAfterTurn
<1>5. TypeOK'
  BY <1>0, <1>2 DEF LoopInv, TypeOK
<1>6. Constructed' /\ OneAnswerEach'
  BY <1>0, <1>2, TurnKeeps
<1>7. Searching'
  <2>1. \A i \in 1..Len(answers') : ~Clears(i)'
    <3> TAKE i \in 1..Len(answers')
    <3>1. CASE i = n
      BY <1>4, <3>1 DEF Clears, Answered, Conf
    <3>2. CASE i # n
      <4>1. i \in 1..Len(answers)
        BY <1>2, <3>2
      <4>2. QED
        BY <1>4, <4>1
    <3>3. QED
      BY <3>1, <3>2
  <2>2. chain'.kind # "tokenizer" /\ winner' = 0
    BY <1>0, <1>2 DEF Asked, LoopInv, Searching
  <2>3. QED
    BY <2>1, <2>2 DEF Searching
<1>8. BestSoFar'
  BY <1>0 DEF BestSoFar, Merging
<1>9. QED
  BY <1>0, <1>2, <1>3, <1>5, <1>6, <1>7, <1>8 DEF LoopInv, ChainInv, AsksWhatIsNeeded, ReturnsBest, Outcome, Searching

LEMMA TierNotAcceptedKeeps ==
    ASSUME LoopInv, NEW answer \in AnswersOf[chain.kind], TierNotAccepted(answer)
    PROVE  ChainInv'
<1>0. /\ Asked(answer) /\ answer.ok /\ ~Merging /\ ~Accepts(answer.value)
      /\ UNCHANGED <<chain, phase, winner, tierErrors, merged, result>>
  BY DEF TierNotAccepted
<1>1. PICK n : n = Next1
  OBVIOUS
<1>2. /\ phase = "running" /\ chain \in Chains
      /\ n = Len(answers) + 1 /\ Len(answers) \in Nat
      /\ n \in 1..MaxTiers
      /\ Len(answers') = n
      /\ answers' \in Seq(AllAnswers) /\ attempted' \in Seq(1..MaxTiers)
      /\ Answered' = Answered \cup {n}
  BY <1>0, <1>1, AnswersAppended
<1>3. Recorded'
  BY <1>0, RecordedOnAnswer
<1>4. /\ \A i \in 1..Len(answers) : ~Clears(i)' /\ Conf(i)' = Conf(i)
      /\ ~Clears(n)'
      /\ Conf(n)' = answer.value.conf
      /\ answer.value.conf \in RawConfidences
  BY <1>0, <1>1, BarAfterTurn
<1>5. best' = IF \/ best = 0 /\ answer.value.conf # NaN
                 \/ best > 0 /\ Above(answer.value.conf, Conf(best))
              THEN n ELSE best
  BY <1>1 DEF TierNotAccepted, Conf
<1>6. TypeOK'
  BY <1>0, <1>2, <1>5 DEF LoopInv, TypeOK
<1>7. Constructed' /\ OneAnswerEach'
  BY <1>0, <1>2, TurnKeeps
<1>8. Searching'
  <2>1. \A i \in 1..Len(answers') : ~Clears(i)'
    <3> TAKE i \in 1..Len(answers')
    <3>1. CASE i = n
      BY <1>4, <3>1 DEF Clears, Answered, Conf
    <3>2. CASE i # n
      <4>1. i \in 1..Len(answers)
        BY <1>2, <3>2
      <4>2. QED
        BY <1>4, <4>1
    <3>3. QED
      BY <3>1, <3>2
  <2>2. chain'.kind # "tokenizer" /\ winner' = 0
    BY <1>0, <1>2 DEF Asked, LoopInv, Searching
  <2>3. QED
    BY <2>1, <2>2 DEF Searching
<1>9. BestSoFar'
  <2>1. \A i \in Answered : Conf(i)' = Conf(i) /\ i \in 1..(n - 1)
    BY <1>2, <1>4 DEF Answered
  <2>2. \A i \in Answered : Conf(i) \in RawConfidences
    <3>1. \A i \in 1..Len(answers) : answers[i] \in AnswersOf[chain.kind]
      BY <1>2 DEF LoopInv, OneAnswerEach
    <3>2. chain.kind \in Kinds
      BY <1>2 DEF Chains
    <3>3. QED
      BY <3>1, <3>2, AnswerShape DEF Answered, Conf
  <2>3. best \in Nat
    BY DEF LoopInv, TypeOK
  <2>4. /\ best = 0 => \A i \in Answered : Conf(i) = NaN
        /\ best # 0 =>
              /\ best \in Answered
              /\ Conf(best) # NaN
              /\ \A i \in Answered \ {best} :
                    ~Above(Conf(i), Conf(best)) /\ (i < best => Conf(i) # Conf(best))
    BY <1>0, <1>2 DEF LoopInv, BestSoFar
  <2> DEFINE c == answer.value.conf
  <2> USE TopLevelAssumption DEF RawConfidences, Levels, NaN, Above
  <2>5. CASE best = 0 /\ c = NaN
    <3>1. best' = 0
      BY <1>5, <2>5
    <3>2. \A i \in Answered' : Conf(i)' = NaN
      BY <1>2, <1>4, <2>1, <2>4, <2>5
    <3>3. QED
      BY <3>1, <3>2 DEF BestSoFar
  <2>6. CASE \/ best = 0 /\ c # NaN
             \/ best # 0 /\ Above(c, Conf(best))
    <3>1. best' = n /\ n # 0
      BY <1>2, <1>5, <2>3, <2>6
    <3>2. c # NaN /\ Conf(n)' = c /\ n \in Answered'
      BY <1>2, <1>4, <2>6
    <3>3. \A i \in Answered : ~Above(Conf(i), c) /\ Conf(i) # c
      BY <1>4, <2>2, <2>4, <2>6, <3>2
    <3>4. \A i \in Answered' \ {n} : ~Above(Conf(i)', c) /\ Conf(i)' # c
      BY <1>2, <2>1, <3>3
    <3>5. Conf(best)' = c
      BY <3>1, <3>2 DEF Conf
    <3>6. QED
      BY <3>1, <3>2, <3>4, <3>5 DEF BestSoFar
  <2>7. CASE best # 0 /\ ~Above(c, Conf(best))
    <3>1. best' = best
      BY <1>5, <2>3, <2>7
    <3>2. best \in Answered' /\ Conf(best)' = Conf(best) /\ best < n
      <4>1. best \in Answered /\ best \in 1..(n - 1)
        BY <2>1, <2>4, <2>7
      <4>2. PICK b : b = best
        OBVIOUS
      <4>3. Conf(b)' = Conf(b)
        BY <2>1, <4>1, <4>2
      <4>4. Conf(best)' = Conf(b)'
        BY <3>1, <4>2 DEF Conf
      <4>5. QED
        BY <1>2, <4>1, <4>2, <4>3, <4>4
    <3>3. \A i \in Answered' \ {best} :
             ~Above(Conf(i)', Conf(best)) /\ (i < best => Conf(i)' # Conf(best))
      <4> TAKE i \in Answered' \ {best}
      <4>1. CASE i = n
        <5>1. Conf(i)' = c
          BY <1>4, <4>1 DEF Conf
        <5>2. ~(i < best)
          BY <1>2, <2>3, <3>2, <4>1
        <5>3. QED
          BY <2>7, <5>1, <5>2
      <4>2. CASE i # n
        <5>1. i \in Answered \ {best} /\ Conf(i)' = Conf(i)
          BY <1>2, <2>1, <4>2
        <5>2. QED
          BY <2>4, <2>7, <5>1
      <4>3. QED
        BY <4>1, <4>2
    <3>4. Conf(best) # NaN
      BY <2>4, <2>7
    <3>5. QED
      BY <2>7, <3>1, <3>2, <3>3, <3>4 DEF BestSoFar
  <2>8. QED
    BY <2>5, <2>6, <2>7
<1>10. QED
  BY <1>0, <1>2, <1>3, <1>6, <1>7, <1>8, <1>9 DEF LoopInv, ChainInv, AsksWhatIsNeeded, ReturnsBest, Outcome, Searching
LEMMA TierAcceptedKeeps ==
    ASSUME LoopInv, NEW answer \in AnswersOf[chain.kind], TierAccepted(answer)
    PROVE  ChainInv'
<1>0. /\ Asked(answer) /\ answer.ok /\ ~Merging /\ Accepts(answer.value)
      /\ winner' = Next1 /\ result' = answer /\ phase' = "done"
      /\ UNCHANGED <<chain, tierErrors, best, merged>>
  BY DEF TierAccepted
<1>1. PICK n : n = Next1
  OBVIOUS
<1>2. /\ phase = "running" /\ chain \in Chains
      /\ n = Len(answers) + 1 /\ Len(answers) \in Nat
      /\ n \in 1..MaxTiers
      /\ Len(answers') = n /\ answers'[n] = answer
      /\ answers' \in Seq(AllAnswers) /\ attempted' \in Seq(1..MaxTiers)
      /\ Answered' = Answered \cup {n}
  BY <1>0, <1>1, AnswersAppended
<1>3. Recorded'
  BY <1>0, RecordedOnAnswer
<1>4. (\A i \in 1..Len(answers) : ~Clears(i)') /\ Clears(n)'
  BY <1>0, <1>1, BarAfterTurn
<1>5. TypeOK'
  BY <1>0, <1>1, <1>2 DEF LoopInv, TypeOK
<1>6. Constructed' /\ OneAnswerEach'
  BY <1>0, TurnKeeps
<1>7. Searching' /\ BestSoFar'
  BY <1>0 DEF Searching, BestSoFar
<1>8. AsksWhatIsNeeded'
  <2>1. \A i \in 1..Len(answers') : Clears(i)' => i = n
    <3> TAKE i \in 1..Len(answers')
    <3>1. CASE i # n
      <4>1. i \in 1..Len(answers)
        BY <1>2, <3>1
      <4>2. QED
        BY <1>4, <4>1
    <3>2. QED
      BY <3>1
  <2>2. Clears(Len(answers))'
    BY <1>2, <1>4 DEF Clears, Answered, Conf
  <2>3. QED
    BY <1>0, <1>1, <1>2, <2>1, <2>2 DEF AsksWhatIsNeeded
<1>9. ReturnsBest'
  <2>1. Clears(winner)'
    BY <1>0, <1>1, <1>4 DEF Clears, Answered, Conf
  <2>2. QED
    BY <1>0, <1>1, <1>2, <2>1 DEF ReturnsBest
<1>10. Outcome'
  <2>1. winner' # 0 /\ Answered' # {}
    BY <1>0, <1>1, <1>2
  <2>2. ~Merging'
    BY <1>0 DEF Merging
  <2>3. QED
    BY <1>0, <2>1, <2>2 DEF Outcome
<1>11. QED
  BY <1>3, <1>5, <1>6, <1>7, <1>8, <1>9, <1>10 DEF LoopInv, ChainInv

-----------------------------------------------------------------------------
(* The other steps. *)

\* The state other than the outcome is left alone by the end of a loop.
LEMMA LoopEndKeeps ==
    ASSUME LoopInv, Exhausted, phase' = "done", winner' \in 0..MaxTiers,
           UNCHANGED <<chain, answers, attempted, tierErrors, best, merged>>
    PROVE  LoopInv' /\ AsksWhatIsNeeded'
<1>1. TypeOK' /\ Constructed' /\ OneAnswerEach' /\ Recorded' /\ Searching' /\ BestSoFar'
  BY DEF LoopInv, TypeOK, Constructed, OneAnswerEach, Recorded, Searching, BestSoFar,
         Answered, Exhausted
<1>2. \A i \in 1..Len(answers) : ~Clears(i)
  BY DEF LoopInv, Searching, Exhausted
<1>3. \A i \in 1..Len(answers') : ~Clears(i)'
  BY <1>2 DEF Clears, Answered, Conf
<1>4. Len(answers') = chain'.tiers
  BY DEF Exhausted
<1>5. QED
  BY <1>1, <1>3, <1>4 DEF LoopInv, AsksWhatIsNeeded

\* A chain fails with what AllFailed says exactly when no tier has answered.
LEMMA FailureKept ==
    ASSUME LoopInv, Exhausted, Answered = {}
    PROVE  ~AllFailed.ok /\ (chain.tiers = 1 => AllFailed = answers[1])
<1>1. /\ chain \in Chains /\ Len(answers) = chain.tiers
      /\ Len(tierErrors) = Len(answers)
      /\ chain.tiers \in Nat \ {0}
  BY MaxTiersAssumption DEF LoopInv, Exhausted, TypeOK, Recorded, Chains
<1>2. 1 \in 1..Len(answers) /\ ~answers[1].ok
  BY <1>1 DEF Answered
<1>3. tierErrors # <<>>
  BY <1>1
<1>4. QED
  BY <1>2, <1>3 DEF AllFailed, Err

LEMMA EndMergedKeeps == ASSUME LoopInv, EndMerged PROVE ChainInv'
<1>0. Exhausted /\ Merging /\ Merging'
  BY DEF EndMerged, Merging
<1>1. LoopInv' /\ AsksWhatIsNeeded'
  BY LoopEndKeeps DEF EndMerged, LoopInv, TypeOK
<1>2. ReturnsBest'
  BY <1>0 DEF ReturnsBest
<1>3. Len(tierErrors) = chain.tiers <=> Answered = {}
  BY <1>0 DEF LoopInv, Recorded, Exhausted
<1>4. Outcome'
  <2>1. winner' = 0 /\ Answered' = Answered /\ Len(answers') = chain'.tiers
    BY <1>0 DEF EndMerged, Exhausted, LoopInv, Searching, Answered
  <2>2. CASE Answered = {}
    BY <1>0, <1>3, <2>1, <2>2, FailureKept DEF EndMerged, Outcome
  <2>3. CASE Answered # {}
    BY <1>0, <1>3, <2>1, <2>3 DEF EndMerged, Outcome, Ok
  <2>4. QED
    BY <2>2, <2>3
<1>5. QED
  BY <1>1, <1>2, <1>4 DEF ChainInv

LEMMA EndBestKeeps == ASSUME LoopInv, EndBest PROVE ChainInv'
<1>0. /\ Exhausted /\ ~Merging /\ ~Merging'
      /\ winner' = best /\ phase' = "done"
      /\ UNCHANGED <<chain, answers, best>>
      /\ Answered' = Answered
  BY DEF EndBest, Merging, Answered
<1>1. LoopInv' /\ AsksWhatIsNeeded'
  BY LoopEndKeeps DEF EndBest, LoopInv, TypeOK
<1>2. /\ best = 0 => \A i \in Answered : Conf(i) = NaN
      /\ best # 0 =>
            /\ best \in Answered
            /\ \A i \in Answered \ {best} :
                  ~Above(Conf(i), Conf(best)) /\ (i < best => Conf(i) # Conf(best))
  BY <1>0 DEF LoopInv, BestSoFar, Exhausted
<1>3. best # 0 => result' = answers[best] /\ answers[best].ok
  <2>1. best # 0 => best > 0
    BY MaxTiersAssumption DEF LoopInv, TypeOK
  <2>2. QED
    BY <1>2, <2>1 DEF EndBest, Answered
<1>4. ReturnsBest'
  <2> SUFFICES ASSUME best # 0 PROVE ReturnsBest'
    BY <1>0 DEF ReturnsBest
  <2>1. \A i \in Answered' : Conf(i)' = Conf(i)
    BY <1>0 DEF Conf
  <2>2. Conf(winner)' = Conf(best)
    BY <1>0 DEF Conf
  <2>3. winner' \in Answered' /\ result' = answers'[winner']
    BY <1>0, <1>2, <1>3
  <2>4. \A i \in Answered' \ {winner'} :
           ~Above(Conf(i)', Conf(winner)') /\ (i < winner' => Conf(i)' # Conf(winner)')
    BY <1>0, <1>2, <2>1, <2>2
  <2>5. QED
    BY <2>3, <2>4 DEF ReturnsBest
<1>5. ~NaNs => Outcome'
  <2> SUFFICES ASSUME ~NaNs PROVE Outcome'
    OBVIOUS
  <2>1. chain \in Chains /\ Len(answers) = chain.tiers /\ chain.tiers \in Nat \ {0}
    BY <1>0, MaxTiersAssumption DEF LoopInv, Exhausted, TypeOK, Chains
  <2>2. \A i \in 1..Len(answers) :
           /\ answers[i].ok => answers[i].value.conf \in RawConfidences
           /\ ~answers[i].ok => ~Infallible(chain.kind)
    <3>1. chain.kind \in Kinds
      BY <2>1 DEF Chains
    <3>2. \A i \in 1..Len(answers) : answers[i] \in AnswersOf[chain.kind]
      BY <1>0 DEF LoopInv, OneAnswerEach, Exhausted
    <3>3. QED
      BY <3>1, <3>2, AnswerShape
  <2>3. CASE best # 0
    BY <1>0, <1>2, <1>3, <2>1, <2>3 DEF Outcome
  <2>4. CASE best = 0
    <3>1. Answered = {}
      BY <1>2, <2>2, <2>4 DEF Answered, Conf, RawConfidences, Levels, NaN
    <3>2. chain.kind # "language"
      BY <2>1, <2>2, <3>1 DEF Answered, Infallible
    <3>3. result' = AllFailed
      BY <2>4, <3>2 DEF EndBest
    <3>4. QED
      BY <1>0, <2>1, <2>4, <3>1, <3>3, FailureKept DEF Outcome
  <2>5. QED
    BY <2>3, <2>4
<1>6. QED
  BY <1>1, <1>4, <1>5 DEF ChainInv
\* A tokenizer chain is scalar, so it does not merge and its only answer counts.
LEMMA CountTokensKeeps == ASSUME LoopInv, CountTokens PROVE ChainInv'
<1> DEFINE a == Ok(Value(0, NoLabels, FALSE))
<1>1. /\ phase = "running" /\ chain.kind = "tokenizer" /\ chain \in Chains
      /\ chain.strategy = "fallback_on_error"
      /\ chain.tiers \in Nat \ {0}
      /\ answers = <<>> /\ tierErrors = <<>>
  <2>1. phase = "running" /\ chain.kind = "tokenizer" /\ chain \in Chains
    BY DEF CountTokens, LoopInv, TypeOK
  <2>2. chain.strategy \in Strategies /\ chain.tiers \in Nat \ {0}
    BY <2>1, MaxTiersAssumption DEF Chains
  <2>3. chain.strategy = "fallback_on_error"
    BY <2>1, <2>2 DEF LoopInv, Constructed, Legal, SupportsConfidence, Strategies
  <2>4. answers = <<>>
    BY <2>1 DEF LoopInv, Searching
  <2>5. tierErrors = <<>>
    BY <2>4, EmptySeq DEF LoopInv, TypeOK, Recorded
  <2>6. QED
    BY <2>1, <2>2, <2>3, <2>4, <2>5
<1>2. a \in AnswersOf[chain.kind] /\ a.ok /\ a \in AllAnswers
  <2>1. chain.kind \in Kinds
    BY <1>1 DEF Chains
  <2>2. Value(0, NoLabels, FALSE) \in Values(chain.kind)
    BY <1>1 DEF Values, ListKind
  <2>3. a \in AnswersOf[chain.kind]
    BY <2>1, <2>2 DEF AnswersOf, Answers
  <2>4. QED
    BY <2>1, <2>3, AnswerShape DEF Ok
<1> HIDE DEF a
<1>3. /\ answers' = <<a>> /\ attempted' = <<1>> /\ winner' = 1 /\ result' = a
      /\ phase' = "done"
      /\ UNCHANGED <<chain, tierErrors, best, merged>>
  BY DEF CountTokens, a
<1>4. Answered' = {1}
  BY <1>2, <1>3 DEF Answered
<1>5. TypeOK'
  BY <1>1, <1>2, <1>3, MaxTiersAssumption DEF LoopInv, TypeOK
<1>6. Constructed' /\ OneAnswerEach'
  BY <1>1, <1>2, <1>3 DEF LoopInv, Constructed, OneAnswerEach
<1>7. Recorded'
  BY <1>1, <1>2, <1>3, <1>4 DEF Recorded
<1>8. Searching' /\ BestSoFar'
  BY <1>3 DEF Searching, BestSoFar
<1>9. AsksWhatIsNeeded' /\ ReturnsBest'
  <2>1. Clears(winner)' /\ Clears(1)'
    BY <1>1, <1>3, <1>4 DEF Clears
  <2>2. QED
    BY <1>1, <1>3, <1>4, <2>1 DEF AsksWhatIsNeeded, ReturnsBest
<1>10. Outcome'
  BY <1>1, <1>2, <1>3, <1>4 DEF Outcome, Merging
<1>11. QED
  BY <1>5, <1>6, <1>7, <1>8, <1>9, <1>10 DEF LoopInv, ChainInv

\* A chain with no evaluation behind it.
Fresh ==
    /\ answers = <<>>
    /\ attempted = <<>>
    /\ tierErrors = <<>>
    /\ winner = 0
    /\ best = 0

FreshlyBuilt ==
    /\ Fresh
    /\ Constructed
    /\ chain \in Chains \cup {NoChain}
    /\ phase \in {"config", "rejected", "ready", "running"}

LEMMA FreshChain == FreshlyBuilt => ChainInv
<1> SUFFICES ASSUME FreshlyBuilt PROVE ChainInv
  OBVIOUS
<1> USE DEF FreshlyBuilt
<1>1. Answered = {}
  BY DEF Fresh, Answered
<1>2. TypeOK
  BY MaxTiersAssumption, EmptySeq DEF Fresh, TypeOK, Constructed
<1>3. Recorded
  <2>1. attempted = [i \in 1..Len(answers) |-> i]
    BY DEF Fresh
  <2>2. QED
    BY <1>1, <2>1 DEF Fresh, Recorded
<1>4. OneAnswerEach
  <2>1. phase = "running" => chain.tiers \in Nat
    BY MaxTiersAssumption DEF Constructed, Chains
  <2>2. QED
    BY <2>1 DEF OneAnswerEach, Fresh
<1>5. Searching /\ BestSoFar
  BY <1>1 DEF Searching, BestSoFar, Fresh
<1>6. QED
  BY <1>2, <1>3, <1>4, <1>5
     DEF Fresh, LoopInv, ChainInv, AsksWhatIsNeeded, ReturnsBest, Outcome

LEMMA ChainInvInit == Init => ChainInv
<1> SUFFICES ASSUME Init PROVE ChainInv
  OBVIOUS
<1>1. Fresh /\ Constructed /\ phase = "config" /\ chain = NoChain
  BY DEF Init, Fresh, Constructed
<1>2. QED
  BY <1>1, FreshChain DEF FreshlyBuilt

\* The same of the state after a step.
LEMMA FreshChainNext == FreshlyBuilt' => ChainInv'
BY FreshChain, PTL

\* Before a chain is built there is nothing in the state to keep.
Unbuilt == phase = "config" => Fresh /\ chain = NoChain

LEMMA BuiltKeeps ==
    ASSUME LoopInv, Unbuilt, NEW kind \in Kinds, NEW strategy \in Strategies,
           NEW threshold \in Thresholds, NEW tiers \in 0..MaxTiers,
           Built(kind, strategy, threshold, tiers)
    PROVE  ChainInv'
<1>1. Fresh'
  BY DEF Built, Unbuilt, Fresh, evaluation
<1>2. CASE Legal(kind, strategy, tiers)
  <2>1. tiers \in 1..MaxTiers
    BY <1>2, MaxTiersAssumption DEF Legal
  <2>2. PICK bar \in Thresholds :
           chain' = [kind |-> kind, strategy |-> strategy, tiers |-> tiers, threshold |-> bar]
    <3>1. 0 \in Thresholds
      BY TopLevelAssumption DEF Thresholds, RawConfidences, Levels
    <3>2. QED
      BY <1>2, <3>1 DEF Built
  <2>3. phase' = "ready" /\ chain' \in Chains
    BY <1>2, <2>1, <2>2 DEF Built, Chains
  <2>4. Constructed'
    BY <1>2, <2>2, <2>3 DEF Constructed
  <2>5. QED
    BY <1>1, <2>3, <2>4, FreshChainNext DEF FreshlyBuilt
<1>3. CASE ~Legal(kind, strategy, tiers)
  <2>1. phase' = "rejected" /\ chain' = NoChain
    BY <1>3 DEF Built, Unbuilt
  <2>2. QED
    BY <1>1, <2>1, FreshChainNext DEF FreshlyBuilt, Constructed
<1>4. QED
  BY <1>2, <1>3

LEMMA StartKeeps == ASSUME LoopInv, Start PROVE ChainInv'
<1>1. Fresh' /\ phase' = "running" /\ chain' = chain
  BY DEF Start, Fresh
<1>2. Constructed' /\ chain \in Chains
  BY <1>1 DEF Start, LoopInv, Constructed
<1>3. QED
  BY <1>1, <1>2, FreshChainNext DEF FreshlyBuilt

-----------------------------------------------------------------------------
(* The theorems. *)

LEMMA ChainInvStep == ChainInv /\ Unbuilt /\ [Next]_vars => (ChainInv /\ Unbuilt)'
<1> SUFFICES ASSUME ChainInv, Unbuilt, [Next]_vars PROVE ChainInv' /\ Unbuilt'
  OBVIOUS
<1>0. LoopInv
  BY DEF ChainInv
<1>1. ASSUME NEW kind \in Kinds, Single(kind) PROVE ChainInv' /\ Unbuilt'
  <2>1. Built(kind, "fallback_on_error", 0, 1)
    BY <1>1 DEF Single
  <2>2. 0 \in Thresholds /\ 1 \in 0..MaxTiers /\ "fallback_on_error" \in Strategies
    BY TopLevelAssumption, MaxTiersAssumption DEF Thresholds, RawConfidences, Levels, Strategies
  <2>3. QED
    BY <1>0, <2>1, <2>2, BuiltKeeps DEF Built, Unbuilt
<1>2. ASSUME NEW kind \in Kinds, NEW tiers \in 0..MaxTiers,
             NEW strategy \in Strategies, NEW threshold \in Thresholds,
             New(kind, strategy, threshold, tiers)
      PROVE  ChainInv' /\ Unbuilt'
  BY <1>0, <1>2, BuiltKeeps DEF New, Built, Unbuilt
<1>12. ASSUME NEW kind \in Kinds, NEW tiers \in 0..MaxTiers, NEW spec \in Specs,
              FromSpec(kind, spec, tiers)
       PROVE  ChainInv' /\ Unbuilt'
  <2>1. CASE ParsedStrategy(spec) = "invalid"
    <3>1. phase = "config" /\ phase' = "rejected" /\ UNCHANGED <<chain, evaluation>>
      BY <1>12, <2>1 DEF FromSpec
    <3>2. Fresh' /\ chain' = NoChain
      BY <3>1 DEF Unbuilt, Fresh, evaluation
    <3>3. QED
      BY <3>1, <3>2, FreshChainNext DEF FreshlyBuilt, Constructed, Unbuilt
  <2>2. CASE ParsedStrategy(spec) # "invalid"
    <3>1. Built(kind, ParsedStrategy(spec), ParsedThreshold(spec), tiers)
      BY <1>12, <2>2 DEF FromSpec
    <3>2. QED
      BY <1>0, <2>2, <3>1, ParsedSpec, BuiltKeeps DEF Built, Unbuilt
  <2>3. QED
    BY <2>1, <2>2
<1>3. ASSUME NEW kind \in Kinds, NEW tiers \in 0..MaxTiers, NEW spec \in Specs,
             \/ FromSpec(kind, spec, tiers)
             \/ \E names \in [1..tiers -> DetectorNames] : FromNames(kind, names, spec)
      PROVE  ChainInv' /\ Unbuilt'
  <2>1. CASE FromSpec(kind, spec, tiers)
    BY <1>12, <2>1
  <2>2. ASSUME NEW names \in [1..tiers -> DetectorNames], FromNames(kind, names, spec)
        PROVE  ChainInv' /\ Unbuilt'
    <3>1. CASE phase = "config" /\ phase' = "rejected" /\ UNCHANGED <<chain, evaluation>>
      <4>1. Fresh' /\ chain' = NoChain
        BY <3>1 DEF Unbuilt, Fresh, evaluation
      <4>2. QED
        BY <3>1, <4>1, FreshChainNext DEF FreshlyBuilt, Constructed, Unbuilt
    <3>2. CASE FromSpec(kind, spec, Len(names))
      <4>1. Len(names) = tiers
        BY <2>2
      <4>2. QED
        BY <1>12, <3>2, <4>1
    <3>3. QED
      BY <2>2, <3>1, <3>2 DEF FromNames
  <2>3. QED
    BY <1>3, <2>1, <2>2
<1>4. CASE Start
  BY <1>0, <1>4, StartKeeps DEF Start, Unbuilt
<1>5. ASSUME phase = "running", NEW answer \in AnswersOf[chain.kind],
             TierFails(answer) \/ TierMerged(answer) \/ TierAccepted(answer) \/ TierNotAccepted(answer)
      PROVE  ChainInv' /\ Unbuilt'
  <2>1. ChainInv'
    BY <1>0, <1>5, TierFailsKeeps, TierMergedKeeps, TierAcceptedKeeps, TierNotAcceptedKeeps
  <2>2. Unbuilt'
    BY <1>5 DEF TierFails, TierMerged, TierAccepted, TierNotAccepted, Unbuilt
  <2>3. QED
    BY <2>1, <2>2
<1>6. CASE EndMerged
  BY <1>0, <1>6, EndMergedKeeps DEF EndMerged, Unbuilt
<1>7. CASE EndBest
  BY <1>0, <1>7, EndBestKeeps DEF EndBest, Unbuilt
<1>8. CASE CountTokens
  BY <1>0, <1>8, CountTokensKeeps DEF CountTokens, Unbuilt
<1>9. CASE UNCHANGED vars
  <2> USE <1>9 DEF vars, Answered, Conf, Clears, Merging
  <2>1. TypeOK' /\ Constructed' /\ OneAnswerEach' /\ Recorded'
    BY <1>0 DEF LoopInv, TypeOK, Constructed, OneAnswerEach, Recorded
  <2>2. Searching' /\ BestSoFar'
    BY <1>0 DEF LoopInv, Searching, BestSoFar
  <2>3. AsksWhatIsNeeded'
    BY DEF ChainInv, AsksWhatIsNeeded
  <2>4. ReturnsBest'
    BY DEF ChainInv, ReturnsBest
  <2>5. (~NaNs => Outcome') /\ Unbuilt'
    BY DEF ChainInv, Outcome, Unbuilt, Fresh
  <2>6. QED
    BY <2>1, <2>2, <2>3, <2>4, <2>5 DEF ChainInv, LoopInv
<1>10. QED
  BY <1>1, <1>2, <1>3, <1>4, <1>5, <1>6, <1>7, <1>8, <1>9 DEF Next

THEOREM ChainInvariance == Spec => []ChainInv
<1>1. Init => ChainInv /\ Unbuilt
  BY ChainInvInit DEF Init, Unbuilt, Fresh
<1>2. QED
  BY <1>1, ChainInvStep, PTL DEF Spec

\* Types hold: in particular no config string yields a threshold out of range.
THEOREM ChainTypeCorrect == Spec => []TypeOK
<1>1. ChainInv => TypeOK
  BY DEF ChainInv, LoopInv
<1>2. QED
  BY <1>1, ChainInvariance, PTL

\* Tiers are asked until one clears the bar, and no further.
THEOREM TiersAskedAsNeeded == Spec => []AsksWhatIsNeeded
<1>1. ChainInv => AsksWhatIsNeeded
  BY DEF ChainInv
<1>2. QED
  BY <1>1, ChainInvariance, PTL

\* The answer returned is the accepted one or the most confident, NaN or not.
THEOREM BestReturned == Spec => []ReturnsBest
<1>1. ChainInv => ReturnsBest
  BY DEF ChainInv
<1>2. QED
  BY <1>1, ChainInvariance, PTL

\* No trait without confidences ever has two answers to choose from.
THEOREM ScalarsKept == Spec => []ScalarAnswersKept
<1>1. ChainInv => ScalarAnswersKept
  <2> SUFFICES ASSUME ChainInv, phase = "done", ~SupportsConfidence(chain.kind)
               PROVE  Cardinality(Answered) <= 1
    BY DEF ScalarAnswersKept
  <2>1. chain \in Chains /\ chain.strategy = "fallback_on_error"
    BY DEF ChainInv, LoopInv, TypeOK, Constructed, Legal, Chains, Strategies
  <2>2. \A i \in Answered : i = Len(answers)
    BY <2>1 DEF ChainInv, AsksWhatIsNeeded, Clears, Answered
  <2>3. Answered \subseteq {Len(answers)}
    BY <2>2
  <2>4. /\ IsFiniteSet({Len(answers)})
        /\ Cardinality({Len(answers)}) = 1
    BY FS_Singleton
  <2>5. QED
    BY <2>3, <2>4, FS_Subset
<1>2. QED
  BY <1>1, ChainInvariance, PTL

\* Without NaN confidences the provenance record tells the truth.
THEOREM ProvenanceIsTrue == ASSUME ~NaNs PROVE Spec => []ProvenanceTrue
<1>1. ChainInv => ProvenanceTrue
  BY DEF ChainInv, LoopInv, Recorded, Outcome, ProvenanceTrue
<1>2. QED
  BY <1>1, ChainInvariance, PTL

\* Without NaN confidences a chain fails exactly when every tier has.
THEOREM ChainFailsOnlyWithAll == ASSUME ~NaNs PROVE Spec => []FailsOnlyWithAll
<1>1. ChainInv => FailsOnlyWithAll
  BY DEF ChainInv, Outcome, FailsOnlyWithAll
<1>2. QED
  BY <1>1, ChainInvariance, PTL
-----------------------------------------------------------------------------
(* Merging. *)

\* A map of labels holds what the answers of some tiers say: every label any of
\* them reports, at the highest of its scores.
UnionOf(labels, tiers, as) ==
    /\ labels \in LabelMaps
    /\ \A i \in tiers : as[i].value.labels \in LabelMaps
    /\ \A l \in Labels :
          l \in DOMAIN labels <=> \E i \in tiers : l \in DOMAIN as[i].value.labels
    /\ \A l \in DOMAIN labels :
          /\ \E i \in tiers : l \in DOMAIN as[i].value.labels /\ as[i].value.labels[l] = labels[l]
          /\ \A i \in tiers : l \in DOMAIN as[i].value.labels => as[i].value.labels[l] <= labels[l]

\* The accumulator holds the union of the answers so far, and the result is it,
\* renormalized.
MergeInv ==
    phase \in {"running", "done"} /\ Merging =>
        /\ UnionOf(merged.labels, Answered, answers)
        /\ merged = Value(merged.conf, merged.labels, merged.empty)
        /\ phase = "done" /\ result.ok => result.value = Renormalized(merged)

\* The labels of every answer are a map of labels.
LEMMA LabelsOfAnswer ==
    ASSUME NEW kind \in Kinds, NEW a \in AnswersOf[kind], a.ok
    PROVE  a.value.labels \in LabelMaps
<1>1. PICK v \in Values(kind) : a = Ok(v)
  <2>1. a \in Answers(kind)
    BY DEF AnswersOf
  <2>2. \A e \in SignalErrors : a # Err(e)
    BY DEF Err
  <2>3. QED
    BY <2>1, <2>2 DEF Answers
<1>2. NoLabels \in LabelMaps
  <2>1. {} \in SUBSET Labels /\ NoLabels \in [{} -> Levels]
    BY DEF NoLabels
  <2>2. QED
    BY <2>1 DEF LabelMaps
<1>3. v.labels \in LabelMaps
  <2>1. CASE ListKind(kind)
    BY <2>1, ListValues DEF Value
  <2>2. CASE kind = "jailbreak"
    <3>1. PICK c \in RawConfidences, D \in SUBSET Labels : v = Value(c, [l \in D |-> 0], D = {})
      BY <2>2, JailbreakValues
    <3>2. [l \in D |-> 0] \in [D -> Levels]
      BY TopLevelAssumption DEF Levels
    <3>3. v.labels = [l \in D |-> 0]
      BY <3>1 DEF Value
    <3>4. QED
      BY <3>2, <3>3 DEF LabelMaps
  <2>3. CASE kind = "language"
    BY <2>3 DEF Values, ListKind, Value
  <2>4. CASE ~ListKind(kind) /\ kind \notin {"jailbreak", "language"}
    BY <1>2, <2>4 DEF Values, ListKind, Value
  <2>5. QED
    BY <2>1, <2>2, <2>3, <2>4
<1>4. QED
  BY <1>1, <1>3 DEF Ok

\* One more answer in the union.
LEMMA UnionGrows ==
    ASSUME NEW f \in LabelMaps, NEW g \in LabelMaps, NEW tiers, NEW as, NEW as2, NEW n,
           UnionOf(f, tiers, as), \A i \in tiers : as2[i] = as[i], as2[n].value.labels = g
    PROVE  UnionOf(MergeLabels(f, g), tiers \cup {n}, as2)
<1> DEFINE h == MergeLabels(f, g)
<1>1. /\ DOMAIN h = DOMAIN f \cup DOMAIN g
      /\ \A l \in DOMAIN h :
            h[l] = IF l \notin DOMAIN g THEN f[l] ELSE IF l \notin DOMAIN f THEN g[l] ELSE FMax(f[l], g[l])
  BY DEF MergeLabels
<1>2. /\ \A l \in DOMAIN f : l \in Labels /\ f[l] \in Levels
      /\ \A l \in DOMAIN g : l \in Labels /\ g[l] \in Levels
  BY DEF LabelMaps
<1>3. \A a, b \in Levels :
         FMax(a, b) \in {a, b} /\ a <= FMax(a, b) /\ b <= FMax(a, b) /\ a <= a
  BY TopLevelAssumption DEF FMax, Above, Levels, NaN
<1>4. h \in [DOMAIN f \cup DOMAIN g -> Levels]
  BY <1>1, <1>2, <1>3 DEF MergeLabels
<1>5. h \in LabelMaps
  BY <1>2, <1>4 DEF LabelMaps
<1> HIDE DEF h
<1>6. ASSUME NEW l \in Labels
      PROVE  l \in DOMAIN h <=> \E i \in tiers \cup {n} : l \in DOMAIN as2[i].value.labels
  BY <1>1 DEF UnionOf
<1>7. ASSUME NEW l \in DOMAIN h
      PROVE  /\ \E i \in tiers \cup {n} : l \in DOMAIN as2[i].value.labels /\ as2[i].value.labels[l] = h[l]
             /\ \A i \in tiers \cup {n} : l \in DOMAIN as2[i].value.labels => as2[i].value.labels[l] <= h[l]
  <2>1. l \in Labels
    BY <1>1, <1>2
  <2>2. l \in DOMAIN f <=> \E i \in tiers : l \in DOMAIN as[i].value.labels
    BY <2>1 DEF UnionOf
  <2>3. l \in DOMAIN f =>
           /\ \E i \in tiers : l \in DOMAIN as[i].value.labels /\ as[i].value.labels[l] = f[l]
           /\ \A i \in tiers : l \in DOMAIN as[i].value.labels => as[i].value.labels[l] <= f[l]
    BY DEF UnionOf
  <2>4. \A i \in tiers \cup {n} :
           /\ as2[i].value.labels \in LabelMaps
           /\ i \notin tiers => as2[i].value.labels = g
    BY DEF UnionOf
  <2>5. \A i \in tiers \cup {n} : l \in DOMAIN as2[i].value.labels => as2[i].value.labels[l] \in Levels
    BY <2>4 DEF LabelMaps
  <2>6. \E i \in tiers \cup {n} : l \in DOMAIN as2[i].value.labels /\ as2[i].value.labels[l] = h[l]
    <3>1. (l \in DOMAIN f /\ h[l] = f[l]) \/ (l \in DOMAIN g /\ h[l] = g[l])
      BY <1>1, <1>2, <1>3
    <3>2. QED
      BY <2>3, <3>1
  <2>7. /\ h[l] \in Levels
        /\ l \in DOMAIN f => f[l] \in Levels /\ f[l] <= h[l]
        /\ l \in DOMAIN g => g[l] \in Levels /\ g[l] <= h[l]
    BY <1>1, <1>2, <1>3
  <2>8. ASSUME NEW i \in tiers \cup {n}, l \in DOMAIN as2[i].value.labels
        PROVE  as2[i].value.labels[l] <= h[l]
    <3>1. CASE i \in tiers
      <4>1. l \in DOMAIN f /\ as2[i].value.labels[l] <= f[l]
        BY <2>1, <2>2, <2>3, <2>8, <3>1
      <4>2. as2[i].value.labels[l] \in Levels
        BY <2>5, <2>8
      <4>3. QED
        BY <2>7, <4>1, <4>2, TopLevelAssumption DEF Levels
    <3>2. CASE i \notin tiers
      <4>1. as2[i].value.labels = g /\ l \in DOMAIN g /\ g[l] \in Levels
        BY <1>2, <2>4, <2>8, <3>2
      <4>2. QED
        BY <2>7, <4>1
    <3>3. QED
      BY <3>1, <3>2
  <2>9. QED
    BY <2>6, <2>8
<1>8. \A i \in tiers \cup {n} : as2[i].value.labels \in LabelMaps
  BY DEF UnionOf
<1>9. UnionOf(h, tiers \cup {n}, as2)
  BY <1>5, <1>6, <1>7, <1>8 DEF UnionOf
<1>10. QED
  BY <1>9 DEF h
LEMMA MergeInvStep ==
    ASSUME LoopInv, LoopInv', MergeInv, [Next]_vars
    PROVE  MergeInv'
<1> USE DEF Merging
<1>1. CASE UNCHANGED vars
  BY <1>1 DEF vars, MergeInv, Answered, Renormalized
<1>2. ASSUME NEW kind \in Kinds, NEW tiers, NEW strategy, NEW threshold,
             Built(kind, strategy, threshold, tiers)
      PROVE  MergeInv'
  BY <1>2 DEF Built, MergeInv
<1>3. ASSUME NEW kind, NEW spec, phase' = "rejected" PROVE MergeInv'
  BY <1>3 DEF MergeInv
<1>4. CASE Start
  <2>1. /\ merged'.labels = NoLabels /\ (merged = Value(merged.conf, merged.labels, merged.empty))'
        /\ Answered' = {} /\ phase' = "running"
    BY <1>4 DEF Start, Value, Answered
  <2>2. UnionOf(NoLabels, {}, answers')
    <3>1. NoLabels \in LabelMaps /\ DOMAIN NoLabels = {}
      BY DEF NoLabels, LabelMaps
    <3>2. QED
      BY <3>1 DEF UnionOf
  <2>3. QED
    BY <2>1, <2>2 DEF MergeInv
<1>5. ASSUME NEW answer \in AnswersOf[chain.kind], TierMerged(answer) PROVE MergeInv'
  <2>0. Asked(answer) /\ answer.ok /\ Merging /\ merged' = Merge(merged, answer.value)
        /\ UNCHANGED <<chain, phase>>
    BY <1>5 DEF TierMerged
  <2>1. PICK n : n = Next1
    OBVIOUS
  <2>2. /\ phase = "running" /\ chain \in Chains
        /\ n = Len(answers) + 1
        /\ answers'[n] = answer
        /\ \A i \in 1..Len(answers) : answers'[i] = answers[i]
        /\ Answered' = Answered \cup {n}
    BY <2>0, <2>1, AnswersAppended
  <2>3. UnionOf(merged.labels, Answered, answers)
    BY <2>0, <2>2 DEF MergeInv
  <2>4. answer.value.labels \in LabelMaps
    BY <2>0, <2>2, LabelsOfAnswer DEF Chains
  <2>5. /\ merged'.labels = MergeLabels(merged.labels, answer.value.labels)
        /\ (merged = Value(merged.conf, merged.labels, merged.empty))'
    BY <2>0 DEF Merge, Value
  <2>6. \A i \in Answered : answers'[i] = answers[i]
    BY <2>2 DEF Answered
  <2>7. merged.labels \in LabelMaps
    BY <2>3 DEF UnionOf
  <2>8. UnionOf(MergeLabels(merged.labels, answer.value.labels), Answered \cup {n}, answers')
    BY <2>2, <2>3, <2>4, <2>6, <2>7, UnionGrows
  <2>9. QED
    BY <2>0, <2>2, <2>5, <2>8 DEF MergeInv
<1>6. ASSUME NEW answer \in AnswersOf[chain.kind], TierFails(answer) PROVE MergeInv'
  <2>0. Asked(answer) /\ ~answer.ok /\ UNCHANGED <<chain, phase, merged, result>>
    BY <1>6 DEF TierFails
  <2>1. /\ phase = "running"
        /\ \A i \in Answered : answers'[i] = answers[i]
        /\ Answered' = Answered
    BY <2>0, AnswersAppended DEF Answered
  <2>2. QED
    BY <2>0, <2>1 DEF MergeInv, UnionOf
<1>7. CASE EndMerged
  <2>1. /\ Exhausted /\ Merging /\ phase = "running" /\ Answered' = Answered
        /\ UNCHANGED <<chain, answers, merged>>
        /\ result' = IF Len(tierErrors) = chain.tiers THEN AllFailed ELSE Ok(Renormalized(merged))
    BY <1>7 DEF EndMerged, Exhausted, Answered
  <2>2. Len(tierErrors) = chain.tiers => ~AllFailed.ok
    BY <2>1, FailureKept DEF LoopInv, Recorded, Exhausted
  <2>3. QED
    BY <2>1, <2>2 DEF MergeInv, UnionOf, Ok, Renormalized
<1>8. ASSUME NEW answer, TierAccepted(answer) \/ TierNotAccepted(answer) PROVE MergeInv'
  BY <1>8 DEF TierAccepted, TierNotAccepted, MergeInv
<1>9. CASE EndBest
  BY <1>9 DEF EndBest, MergeInv
<1>10. CASE CountTokens
  <2>1. chain' = chain /\ chain.kind = "tokenizer" /\ phase = "running"
    BY <1>10 DEF CountTokens
  <2>2. ~Merging
    BY <2>1 DEF LoopInv, Constructed, Legal, SupportsConfidence
  <2>3. QED
    BY <2>1, <2>2 DEF MergeInv
<1>11. QED
  BY <1>1, <1>2, <1>3, <1>4, <1>5, <1>6, <1>7, <1>8, <1>9, <1>10 DEF Next, Single, New, FromSpec, FromNames

\* The greatest of a set of levels is the one no other exceeds.
LEMMA MaxLevelIs ==
    ASSUME NEW S, S \subseteq Levels, NEW x \in S, \A y \in S : y <= x
    PROVE  MaxLevel(S) = x
<1>1. MaxLevel(S) \in S /\ \A y \in S : y <= MaxLevel(S)
  BY MaxLevelIsMax
<1>2. MaxLevel(S) <= x /\ x <= MaxLevel(S) /\ MaxLevel(S) \in Levels /\ x \in Levels
  BY <1>1
<1>3. QED
  BY <1>2, TopLevelAssumption DEF Levels

\* A merge returns the union of the answers at their highest scores, and merged
\* categories as shares of the sum of these.
THEOREM MergeReturnsUnion == Spec => []MergesUnion
<1>1. Init => MergeInv
  BY DEF Init, MergeInv
<1>2. ChainInv /\ MergeInv /\ ChainInv' /\ [Next]_vars => MergeInv'
  BY MergeInvStep DEF ChainInv
<1>3. MergeInv => MergesUnion
  <2> DEFINE of(l) == {i \in Answered : l \in DOMAIN answers[i].value.labels}
             reported == {l \in Labels : of(l) # {}}
             scores(l) == {answers[i].value.labels[l] : i \in of(l)}
             highest == [l \in reported |-> MaxLevel(scores(l))]
             distributed == chain.kind = "category" /\ Total(highest) > 0
  <2> SUFFICES ASSUME MergeInv, phase = "done", Merging, result.ok
               PROVE  /\ result.value.labels = highest
                      /\ result.value.whole = IF distributed THEN Total(highest) ELSE TopLevel
    BY DEF MergesUnion
  <2>1. UnionOf(merged.labels, Answered, answers) /\ merged = Value(merged.conf, merged.labels, merged.empty)
    BY DEF MergeInv
  <2>2. DOMAIN merged.labels = reported
    BY <2>1 DEF UnionOf, LabelMaps
  <2>3. ASSUME NEW l \in reported PROVE merged.labels[l] = MaxLevel(scores(l))
    <3>1. \A i \in of(l) : answers[i].value.labels \in LabelMaps
      BY <2>1 DEF UnionOf
    <3>2. scores(l) \subseteq Levels
      BY <3>1 DEF LabelMaps
    <3>3. merged.labels[l] \in scores(l) /\ \A y \in scores(l) : y <= merged.labels[l]
      BY <2>1, <2>2, <2>3 DEF UnionOf
    <3> HIDE DEF scores
    <3>4. QED
      BY <3>2, <3>3, MaxLevelIs
  <2>4. merged.labels = [l \in DOMAIN merged.labels |-> merged.labels[l]]
    BY <2>1 DEF UnionOf, LabelMaps
  <2>5. merged.labels = highest
    BY <2>2, <2>3, <2>4
  <2>6. /\ result.value = Renormalized(merged)
        /\ Renormalized(merged) = IF chain.kind = "category" /\ Total(merged.labels) > 0
                                  THEN [merged EXCEPT !.whole = Total(merged.labels)] ELSE merged
    BY DEF MergeInv, Renormalized
  <2>7. merged = [conf |-> merged.conf, labels |-> merged.labels, empty |-> merged.empty, whole |-> TopLevel]
    BY <2>1 DEF Value
  <2> HIDE DEF highest
  <2>8. QED
    BY <2>1, <2>5, <2>6, <2>7
<1>4. QED
  BY <1>1, <1>2, <1>3, ChainInvariance, PTL DEF Spec
=============================================================================
