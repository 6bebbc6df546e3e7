---------------------------- MODULE Safety_proof ----------------------------
(***************************************************************************)
(* Proofs about the two signals of core/src/signals/safety.rs.  PiiSignal, *)
(* for every chunk size, every text length, every number of tiers and      *)
(* every deny list; and below it JailbreakCache, for every set of          *)
(* evaluations and prompts and every hash.                                 *)
(***************************************************************************)
EXTENDS PiiSignal, JailbreakCache, SequenceTheorems, WellFoundedInduction, TLAPS

-----------------------------------------------------------------------------
(* Lemmas about offsets. *)

\* A non-empty set of naturals has a least element.
LEMMA LeastIsLeast ==
    ASSUME NEW S, S \subseteq Nat, S # {}
    PROVE  Least(S) \in S /\ \A y \in S : Least(S) <= y
<1>1. PICK x \in S : \A y \in S : ~(<<y, x>> \in OpToRel(<, Nat))
  BY WFMin, NatLessThanWellFounded
<1>2. \A y \in S : ~(y < x)
  BY <1>1 DEF OpToRel
<1>3. \A y \in S : x <= y
  <2> TAKE y \in S
  <2>1. x \in Nat /\ y \in Nat /\ ~(y < x)
    BY <1>2
  <2>2. QED
    BY <2>1
<1>4. QED
  BY <1>3 DEF Least

\* A non-empty set of naturals below a bound has a greatest element.
LEMMA GreatestIsGreatest ==
    ASSUME NEW n \in Nat, NEW S, S \subseteq 0..n, S # {}
    PROVE  Greatest(S) \in S /\ \A y \in S : y <= Greatest(S)
<1> DEFINE Gaps == {n - x : x \in S}
<1>1. Gaps \subseteq Nat /\ Gaps # {}
  <2>1. PICK x \in S : TRUE
    OBVIOUS
  <2>2. n - x \in Gaps
    OBVIOUS
  <2>3. Gaps \subseteq Nat
    OBVIOUS
  <2>4. QED
    BY <2>2, <2>3
<1>2. Least(Gaps) \in Gaps /\ \A g \in Gaps : Least(Gaps) <= g
  BY <1>1, LeastIsLeast
<1>3. PICK x \in S : Least(Gaps) = n - x
  BY <1>2
<1>4. \A y \in S : y <= x
  <2> TAKE y \in S
  <2>1. n - x <= n - y
    BY <1>2, <1>3
  <2>2. QED
    BY <2>1
<1>5. QED
  BY <1>4 DEF Greatest

\* Texts are sequences of bytes of which the first is no continuation.
LEMMA TextsAreBytes ==
    ASSUME NEW t \in Texts
    PROVE  /\ Len(t) \in Nat
           /\ DOMAIN t = 1..Len(t)
           /\ t \in Seq(Bytes)
           /\ WellFormed(t)
           /\ Boundary(t, 0)
<1>1. PICK n \in 0..MaxText : t \in [1..n -> Bytes]
  BY DEF Texts
<1>2. n \in Nat /\ t \in Seq(Bytes) /\ Len(t) = n
  BY <1>1, MaxTextAssumption
<1>3. WellFormed(t)
  BY DEF Texts
<1>4. Boundary(t, 0)
  BY <1>1, <1>2, <1>3 DEF WellFormed, Boundary, Byte
<1>5. QED
  BY <1>1, <1>2, <1>3, <1>4

\* What the search for the end of a chunk finds: the end of the window, or a place in
\* it where whitespace starts; and the end of the window only when it has none.
LEMMA ActualEndIsEnd ==
    ASSUME NEW t \in Texts, NEW s \in 0..Len(t)
    PROVE  /\ ActualEnd(t, s) \in s..Len(t)
           /\ ActualEnd(t, s) - s <= MaxSize
           /\ \/ ActualEnd(t, s) = Len(t)
              \/ ActualEnd(t, s) < Len(t) /\ SpaceStarts(t, ActualEnd(t, s))
              \/ /\ ActualEnd(t, s) = s + MaxSize
                 /\ \A p \in s..(s + MaxSize - 1) : ~SpaceStarts(t, p)
<1> USE MaxSizeAssumption
<1> DEFINE e == End(t, s)
           spaces == {p \in s..(e - 1) : SpaceStarts(t, p)}
<1>1. Len(t) \in Nat /\ s \in Nat /\ s <= Len(t)
  BY TextsAreBytes
<1>2. /\ e \in s..Len(t) /\ e - s <= MaxSize
      /\ e < Len(t) => e = s + MaxSize
  BY <1>1 DEF End
<1>3. ActualEnd(t, s) = IF e < Len(t) /\ spaces # {} THEN Greatest(spaces) ELSE e
  BY DEF ActualEnd
<1> HIDE DEF e
<1>4. CASE e < Len(t) /\ spaces # {}
  <2>1. spaces \subseteq 0..Len(t)
    BY <1>1, <1>2
  <2>2. Greatest(spaces) \in spaces
    BY <1>1, <1>4, <2>1, GreatestIsGreatest
  <2>3. Greatest(spaces) \in s..(e - 1) /\ SpaceStarts(t, Greatest(spaces))
    BY <2>2
  <2> HIDE DEF spaces
  <2>4. QED
    BY <1>1, <1>2, <1>3, <1>4, <2>3
<1>5. CASE e < Len(t) /\ spaces = {}
  <2>1. ActualEnd(t, s) = e
    BY <1>3, <1>5
  <2>2. \A p \in s..(e - 1) : ~SpaceStarts(t, p)
    BY <1>5
  <2>3. QED
    BY <1>1, <1>2, <1>5, <2>1, <2>2
<1>6. CASE ~(e < Len(t))
  <2>1. ActualEnd(t, s) = e
    BY <1>3, <1>6
  <2>2. QED
    BY <1>1, <1>2, <1>6, <2>1
<1>7. QED
  BY <1>4, <1>5, <1>6

\* What is skipped is whitespace, and all of it.
LEMMA SkipSpaceSkips ==
    ASSUME NEW t \in Texts, NEW o \in 0..Len(t)
    PROVE  /\ SkipSpace(t, o) \in o..Len(t)
           /\ \A p \in o..(SkipSpace(t, o) - 1) : SpaceStarts(t, p)
           /\ SkipSpace(t, o) = Len(t) \/ ~SpaceStarts(t, SkipSpace(t, o))
<1> DEFINE S == {p \in o..Len(t) : p < Len(t) => ~SpaceStarts(t, p)}
<1>1. Len(t) \in Nat /\ o \in Nat /\ o <= Len(t)
  BY TextsAreBytes
<1>2. Len(t) \in S /\ S \subseteq Nat
  BY <1>1
<1>3. SkipSpace(t, o) \in S /\ \A p \in S : SkipSpace(t, o) <= p
  BY <1>2, LeastIsLeast DEF SkipSpace
<1>4. SkipSpace(t, o) \in o..Len(t)
  BY <1>3
<1>5. SkipSpace(t, o) = Len(t) \/ ~SpaceStarts(t, SkipSpace(t, o))
  BY <1>1, <1>3, <1>4
<1>6. ASSUME NEW p \in o..(SkipSpace(t, o) - 1), ~SpaceStarts(t, p)
      PROVE  FALSE
  <2>1. p \in o..Len(t) /\ p < SkipSpace(t, o)
    BY <1>1, <1>4
  <2>2. p \in S
    BY <1>6, <2>1
  <2>3. SkipSpace(t, o) <= p
    BY <1>3, <2>2
  <2> HIDE DEF S
  <2>4. QED
    BY <1>1, <1>4, <2>1, <2>3
<1>7. QED
  BY <1>4, <1>5, <1>6

-----------------------------------------------------------------------------
(* The invariant: ChunksSound and WordsKept need to know that the chunks   *)
(* lie before start, and that start is not inside a character.             *)

CutsBehind ==
    /\ pc = "idle" => chunks = <<>> /\ start = 0
    /\ pc = "cutting" =>
        /\ \A k \in DOMAIN chunks : chunks[k][2] <= start
        /\ Boundary(text, start)

PiiInv == TypeOK /\ ChunksSound /\ WordsKept /\ CutsBehind

LEMMA InitPii == Init => PiiInv
<1> SUFFICES ASSUME Init PROVE PiiInv
  OBVIOUS
<1>1. text \in Texts
  <2>1. <<>> \in [1..0 -> Bytes] /\ 0 \in 0..MaxText
    BY MaxTextAssumption
  <2>2. WellFormed(<<>>)
    BY DEF WellFormed
  <2>3. QED
    BY <2>1, <2>2 DEF Texts, Init
<1>2. TypeOK
  BY <1>1, TiersAssumption DEF Init, TypeOK, NoProvenance
<1>3. ChunksSound /\ WordsKept /\ CutsBehind
  BY DEF Init, ChunksSound, WordsKept, CutsBehind
<1>4. QED
  BY <1>2, <1>3 DEF PiiInv

\* Steps that leave the chunks as they are, and what has been passed of the text.
LEMMA SameChunks ==
    ASSUME PiiInv, UNCHANGED <<text, start, chunks>>, pc \in {"cutting", "asking"},
           pc' \in {"asking", "done", "failed", "panicked"},
           pc = "cutting" /\ pc' \in {"asking", "done"} => start >= Len(text)
    PROVE  ChunksSound' /\ WordsKept' /\ CutsBehind'
<1>1. WordsKept'
  BY DEF PiiInv, WordsKept
<1>2. CutsBehind'
  BY DEF CutsBehind
<1>3. ChunksSound'
  <2>1. \A o : Covered(o) <=> Covered(o)'
    BY DEF Covered
  <2>2. Len(text) \in Nat /\ start \in 0..Len(text)
    BY TextsAreBytes DEF PiiInv, TypeOK
  <2>3. pc' \in {"asking", "done"} =>
          \A o \in 0..(Len(text) - 1) : InSpace(text, o) \/ Covered(o)
    <3>1. CASE pc = "cutting"
      BY <2>2, <3>1 DEF PiiInv, ChunksSound
    <3>2. CASE pc = "asking"
      BY <3>2 DEF PiiInv, ChunksSound
    <3>3. QED
      BY <3>1, <3>2
  <2>4. QED
    BY <2>1, <2>3 DEF PiiInv, ChunksSound
<1>4. QED
  BY <1>1, <1>2, <1>3

LEMMA BeginPii == PiiInv /\ Begin => PiiInv'
<1> SUFFICES ASSUME PiiInv, Begin PROVE PiiInv'
  OBVIOUS
<1>1. text' \in Texts /\ Len(text') \in Nat /\ Boundary(text', 0)
  BY TextsAreBytes DEF Begin
<1>2. chunks = <<>> /\ start = 0 /\ start' = 0 /\ next' = next
  BY DEF PiiInv, CutsBehind, Begin
<1>3. next = 1
  BY <1>2 DEF PiiInv, TypeOK
<1>4. CASE Len(text') <= MaxSize
  <2>1. pc' = "asking" /\ chunks' = <<<<0, Len(text')>>>>
    BY <1>4 DEF Begin
  <2>2. DOMAIN chunks' = {1} /\ Len(chunks') = 1 /\ chunks'[1][1] = 0 /\ chunks'[1][2] = Len(text')
    BY <2>1
  <2>3. TypeOK'
    BY <1>1, <1>2, <1>3, <2>1, <2>2 DEF PiiInv, TypeOK, Begin
  <2>4. ChunksSound'
    BY <1>1, <1>4, <2>1, <2>2 DEF ChunksSound, Covered
  <2>5. WordsKept' /\ CutsBehind'
    BY <1>1, <2>1, <2>2 DEF WordsKept, CutsBehind
  <2>6. QED
    BY <2>3, <2>4, <2>5 DEF PiiInv
<1>5. CASE ~(Len(text') <= MaxSize)
  <2>1. pc' = "cutting" /\ chunks' = <<>>
    BY <1>2, <1>5 DEF Begin
  <2>2. TypeOK'
    BY <1>1, <1>2, <1>3, <2>1 DEF PiiInv, TypeOK, Begin
  <2>3. ChunksSound' /\ WordsKept' /\ CutsBehind'
    BY <1>1, <1>2, <2>1 DEF ChunksSound, WordsKept, CutsBehind
  <2>4. QED
    BY <2>2, <2>3 DEF PiiInv
<1>6. QED
  BY <1>4, <1>5

LEMMA CutPii == PiiInv /\ Cut => PiiInv'
<1> SUFFICES ASSUME PiiInv, Cut PROVE PiiInv'
  OBVIOUS
<1> DEFINE e == ActualEnd(text, start)
           n == Len(chunks)
<1>1. /\ text \in Texts /\ Len(text) \in Nat /\ text' = text
      /\ start \in Nat /\ start < Len(text) /\ start \in 0..Len(text)
      /\ MaxSize \in Nat
  BY TextsAreBytes, MaxSizeAssumption DEF PiiInv, TypeOK, Cut
<1>2. /\ e \in start..Len(text)
      /\ e - start <= MaxSize
      /\ \/ e = Len(text)
         \/ e < Len(text) /\ SpaceStarts(text, e)
         \/ /\ e = start + MaxSize
            /\ \A p \in start..(start + MaxSize - 1) : ~SpaceStarts(text, p)
  BY <1>1, ActualEndIsEnd
<1>3. start' = SkipSpace(text, e) /\ chunks' = Append(chunks, <<start, e>>)
  BY DEF Cut
<1>4. Boundary(text, start')
  BY <1>3 DEF Cut, CutPanics
<1> HIDE DEF e
<1>5. /\ start' \in e..Len(text)
      /\ \A p \in e..(start' - 1) : SpaceStarts(text, p)
  BY <1>1, <1>2, <1>3, SkipSpaceSkips
<1>6. /\ chunks \in Seq((0..Len(text)) \X (0..Len(text)))
      /\ n \in Nat /\ DOMAIN chunks = 1..n /\ Len(chunks') = n + 1 /\ DOMAIN chunks' = 1..(n + 1)
      /\ \A k \in 1..n : chunks'[k] = chunks[k]
      /\ \A k \in 1..n : chunks[k][1] \in 0..Len(text) /\ chunks[k][2] \in 0..Len(text)
      /\ chunks'[n + 1] = <<start, e>>
      /\ chunks' \in Seq((0..Len(text)) \X (0..Len(text)))
  <2>1. chunks \in Seq((0..Len(text)) \X (0..Len(text)))
    BY DEF PiiInv, TypeOK
  <2>2. <<start, e>> \in (0..Len(text)) \X (0..Len(text))
    BY <1>1, <1>2
  <2>3. \A k \in 1..n : chunks[k] \in (0..Len(text)) \X (0..Len(text))
    BY <2>1
  <2>4. QED
    BY <1>3, <2>1, <2>2, <2>3
<1>7. chunks'[n + 1][1] = start /\ chunks'[n + 1][2] = e
  BY <1>6
<1> HIDE DEF n
<1>8. \A k \in 1..n : chunks[k][2] <= start
  BY <1>6 DEF PiiInv, CutsBehind, Cut
<1>9. \A k \in 1..n : chunks'[k][2] = chunks[k][2] /\ chunks[k][2] \in Int
  <2> TAKE k \in 1..n
  <2>1. chunks[k][2] \in 0..Len(text)
    BY <1>6
  <2>2. QED
    BY <1>6, <2>1
<1>10. TypeOK'
  <2>1. next' \in 1..(Len(chunks') + 1)
    BY <1>6 DEF PiiInv, TypeOK, Cut, n
  <2>2. start' \in 0..Len(text')
    BY <1>1, <1>2, <1>5
  <2>3. QED
    BY <1>1, <1>6, <2>1, <2>2 DEF PiiInv, TypeOK, Cut
<1>11. ChunksSound'
  <2>1. ASSUME NEW k \in 1..(n + 1)
        PROVE  chunks'[k][1] <= chunks'[k][2] /\ chunks'[k][2] - chunks'[k][1] <= MaxSize
    <3>1. CASE k = n + 1
      BY <1>1, <1>2, <1>7, <3>1
    <3>2. CASE k \in 1..n
      BY <1>6, <3>2 DEF PiiInv, ChunksSound
    <3>3. QED
      BY <1>6, <3>1, <3>2
  <2>2. ASSUME NEW j \in 1..(n + 1), NEW k \in 1..(n + 1), j < k
        PROVE  chunks'[j][2] <= chunks'[k][1]
    <3>1. j \in 1..n
      BY <1>6, <2>2
    <3>2. CASE k = n + 1
      BY <1>6, <1>7, <1>8, <3>1, <3>2
    <3>3. CASE k \in 1..n
      BY <1>6, <2>2, <3>1, <3>3 DEF PiiInv, ChunksSound
    <3>4. QED
      BY <1>6, <3>2, <3>3
  <2>3. ASSUME NEW o \in 0..(start' - 1)
        PROVE  InSpace(text, o) \/ Covered(o)'
    <3>1. CASE o < start
      <4>1. InSpace(text, o) \/ Covered(o)
        BY <1>1, <3>1 DEF PiiInv, ChunksSound, Cut
      <4>2. ASSUME NEW k \in 1..n, chunks[k][1] <= o /\ o < chunks[k][2]
            PROVE  Covered(o)'
        <5>1. k \in DOMAIN chunks' /\ chunks'[k] = chunks[k]
          BY <1>6
        <5>2. QED
          BY <4>2, <5>1 DEF Covered
      <4>3. Covered(o) => \E k \in 1..n : chunks[k][1] <= o /\ o < chunks[k][2]
        BY <1>6 DEF Covered
      <4>4. QED
        BY <4>1, <4>2, <4>3
    <3>2. CASE start <= o /\ o < e
      <4>1. n + 1 \in DOMAIN chunks'
        BY <1>6
      <4>2. QED
        BY <1>7, <3>2, <4>1 DEF Covered
    <3>3. CASE e <= o
      <4>1. o \in e..(start' - 1)
        BY <3>3
      <4>2. QED
        BY <1>5, <4>1 DEF InSpace
    <3>4. QED
      BY <1>1, <1>2, <1>5, <3>1, <3>2, <3>3
  <2>4. pc' = "cutting"
    BY DEF Cut
  <2>5. QED
    BY <1>1, <1>6, <2>1, <2>2, <2>3, <2>4 DEF ChunksSound
<1>12. WordsKept'
  <2> SUFFICES ASSUME NEW k \in 1..(n + 1), 0 < chunks'[k][2], chunks'[k][2] < Len(text),
                      ~InSpace(text, chunks'[k][2]), ~InSpace(text, chunks'[k][2] - 1)
               PROVE  /\ chunks'[k][2] >= MaxSize
                      /\ \A o \in (chunks'[k][2] - MaxSize)..(chunks'[k][2] - 1) : ~InSpace(text, o)
    BY <1>1, <1>6 DEF WordsKept
  <2>1. CASE k \in 1..n
    BY <1>6, <2>1 DEF PiiInv, WordsKept
  <2>2. CASE k = n + 1
    <3>1. /\ e = start + MaxSize
          /\ \A p \in start..(start + MaxSize - 1) : ~SpaceStarts(text, p)
      BY <1>2, <1>7, <2>2 DEF InSpace
    <3>2. ASSUME NEW o \in start..(e - 1)
          PROVE  ~InSpace(text, o)
      <4>1. ~SpaceStarts(text, o)
        BY <1>1, <3>1
      <4>2. CASE o = start
        <5>1. Byte(text, o) # "cont"
          BY <1>1, <4>2 DEF PiiInv, CutsBehind, Boundary, Cut
        <5>2. QED
          BY <4>1, <5>1 DEF InSpace
      <4>3. CASE o > start
        <5>1. o - 1 \in start..(start + MaxSize - 1)
          BY <1>1, <3>1, <4>3
        <5>2. ~SpaceStarts(text, o - 1)
          BY <3>1, <5>1
        <5>3. QED
          BY <4>1, <5>2 DEF InSpace, SpaceStarts
      <4>4. QED
        BY <1>1, <4>2, <4>3
    <3>3. QED
      BY <1>1, <1>7, <2>2, <3>1, <3>2
  <2>3. QED
    BY <1>6, <2>1, <2>2
<1>13. CutsBehind'
  <2>1. \A k \in 1..(n + 1) : chunks'[k][2] <= start'
    <3> TAKE k \in 1..(n + 1)
    <3>1. CASE k \in 1..n
      BY <1>1, <1>2, <1>5, <1>8, <1>9, <3>1
    <3>2. CASE k = n + 1
      BY <1>1, <1>2, <1>5, <1>7, <3>2
    <3>3. QED
      BY <1>6, <3>1, <3>2
  <2>2. QED
    BY <1>1, <1>4, <1>6, <2>1 DEF CutsBehind, Cut
<1>14. QED
  BY <1>10, <1>11, <1>12, <1>13 DEF PiiInv

LEMMA AskPii == PiiInv /\ Ask => PiiInv'
<1> SUFFICES ASSUME PiiInv, Ask PROVE PiiInv'
  OBVIOUS
<1>1. PICK p \in Provenances : prov' = Folded(prov, p)
  BY DEF Ask
<1>2. /\ prov' \in [tiers : SUBSET (1..Tiers), errors : SUBSET (1..Tiers), winner : 0..Tiers]
      /\ prov'.errors \subseteq prov'.tiers
      /\ prov'.winner \in {0} \cup prov'.tiers
  BY <1>1, TiersAssumption DEF PiiInv, TypeOK, Provenances, Folded
<1>3. next' \in 1..(Len(chunks') + 1)
  BY DEF PiiInv, TypeOK, Ask
<1>4. TypeOK'
  BY <1>2, <1>3 DEF PiiInv, TypeOK, Ask
<1>5. ChunksSound' /\ WordsKept' /\ CutsBehind'
  BY SameChunks DEF Ask
<1>6. QED
  BY <1>4, <1>5 DEF PiiInv

LEMMA NextPii == PiiInv /\ [Next]_vars => PiiInv'
<1> SUFFICES ASSUME PiiInv, [Next]_vars PROVE PiiInv'
  OBVIOUS
<1>1. CASE Begin
  BY <1>1, BeginPii
<1>2. CASE Cut
  BY <1>2, CutPii
<1>3. CASE CutPanicked
  <2>1. ChunksSound' /\ WordsKept' /\ CutsBehind'
    BY <1>3, SameChunks DEF CutPanicked
  <2>2. QED
    BY <1>3, <2>1 DEF CutPanicked, PiiInv, TypeOK
<1>4. CASE CutDone
  <2>1. ChunksSound' /\ WordsKept' /\ CutsBehind'
    BY <1>4, SameChunks DEF CutDone
  <2>2. QED
    BY <1>4, <2>1 DEF CutDone, PiiInv, TypeOK
<1>5. CASE Ask
  BY <1>5, AskPii
<1>6. CASE AskFails
  <2>1. ChunksSound' /\ WordsKept' /\ CutsBehind'
    BY <1>6, SameChunks DEF AskFails
  <2>2. QED
    BY <1>6, <2>1 DEF AskFails, PiiInv, TypeOK
<1>7. CASE Finish
  <2>1. ChunksSound' /\ WordsKept' /\ CutsBehind'
    BY <1>7, SameChunks DEF Finish
  <2>2. QED
    BY <1>7, <2>1 DEF Finish, PiiInv, TypeOK
<1>8. CASE UNCHANGED vars
  BY <1>8 DEF vars, PiiInv, TypeOK, ChunksSound, Covered, WordsKept, CutsBehind
<1>9. QED
  BY <1>1, <1>2, <1>3, <1>4, <1>5, <1>6, <1>7, <1>8 DEF Next

\* PiiInv is an invariant: the argument all of the following rests on.
THEOREM PiiInvariance == Spec => []PiiInv
<1>1. QED
  BY InitPii, NextPii, PTL DEF Spec

\* PiiSignal is type correct, the folded provenance of its chunks included.
THEOREM PiiTypeCorrect == Spec => []TypeOK
<1>1. PiiInv => TypeOK
  BY DEF PiiInv
<1>2. QED
  BY <1>1, PiiInvariance, PTL

\* chunk_text: ordered chunks that do not overlap, none too long, no part of a word lost.
THEOREM ChunksAreSound == Spec => []ChunksSound
<1>1. PiiInv => ChunksSound
  BY DEF PiiInv
<1>2. QED
  BY <1>1, PiiInvariance, PTL

\* chunk_text: no word that fits into a chunk is cut.
THEOREM WordsAreKept == Spec => []WordsKept
<1>1. PiiInv => WordsKept
  BY DEF PiiInv
<1>2. QED
  BY <1>1, PiiInvariance, PTL

\* chunk_text: with a chunk size of at least one byte every turn of the loop gets further.
THEOREM EveryCutAdvances == ASSUME MaxSize > 0 PROVE Spec => CutAdvances
<1>1. ASSUME PiiInv, Cut PROVE start' > start
  <2> DEFINE e == ActualEnd(text, start)
  <2>1. /\ text \in Texts /\ Len(text) \in Nat
        /\ start \in Nat /\ start < Len(text) /\ start \in 0..Len(text)
        /\ MaxSize \in Nat
    BY <1>1, TextsAreBytes, MaxSizeAssumption DEF PiiInv, TypeOK, Cut
  <2>2. /\ e \in start..Len(text)
        /\ \/ e = Len(text)
           \/ e < Len(text) /\ SpaceStarts(text, e)
           \/ e = start + MaxSize
    BY <2>1, ActualEndIsEnd
  <2>3. start' = SkipSpace(text, e)
    BY <1>1 DEF Cut
  <2> HIDE DEF e
  <2>4. start' \in e..Len(text) /\ (start' = Len(text) \/ ~SpaceStarts(text, start'))
    BY <2>1, <2>2, <2>3, SkipSpaceSkips
  <2>5. QED
    BY <2>1, <2>2, <2>4
<1>2. PiiInv /\ [Next]_vars => [Cut => start' > start]_vars
  BY <1>1
<1>3. QED
  BY <1>2, PiiInvariance, PTL DEF Spec, CutAdvances

-----------------------------------------------------------------------------
(* Words of a text and of its chunks. *)

\* The bytes x up to y are all of a word, though not the whole word.
InWord(t, x, y) == \A o \in x..(y - 1) : ~InSpace(t, o)

\* Such bytes extend to a word of the text.
LEMMA ExtendsToWord ==
    ASSUME NEW t, Len(t) \in Nat, NEW x \in 0..Len(t), NEW y \in 0..Len(t), x < y, InWord(t, x, y)
    PROVE  \E w \in Words(t, 0, Len(t)) : w[1] <= x /\ y <= w[2]
<1> DEFINE L == Len(t)
           A == {p \in 0..x : InWord(t, p, x)}
           B == {q \in y..L : InWord(t, y, q)}
           s == Least(A)
           e == Greatest(B)
<1>1. s \in A /\ \A p \in A : s <= p
  <2>1. A \subseteq Nat /\ x \in A
    BY DEF InWord
  <2> HIDE DEF A
  <2>2. QED
    BY <2>1, LeastIsLeast
<1>2. e \in B /\ \A q \in B : q <= e
  <2>1. B \subseteq 0..L /\ y \in B
    BY DEF InWord
  <2> HIDE DEF B
  <2>2. QED
    BY <2>1, GreatestIsGreatest
<1> HIDE DEF s, e
<1>3. s = 0 \/ InSpace(t, s - 1)
  <2> SUFFICES ASSUME s # 0, ~InSpace(t, s - 1) PROVE FALSE
    OBVIOUS
  <2>1. s - 1 \in 0..x /\ InWord(t, s - 1, x)
    BY <1>1 DEF InWord
  <2>2. QED
    BY <1>1, <2>1
<1>4. e = L \/ InSpace(t, e)
  <2> SUFFICES ASSUME e # L, ~InSpace(t, e) PROVE FALSE
    OBVIOUS
  <2>1. e + 1 \in y..L /\ InWord(t, y, e + 1)
    BY <1>2 DEF InWord
  <2>2. QED
    BY <1>2, <2>1
<1>5. \A o \in s..(e - 1) : ~InSpace(t, o)
  <2>1. InWord(t, s, x) /\ InWord(t, y, e) /\ s \in 0..x /\ e \in y..L
    BY <1>1, <1>2
  <2>2. QED
    BY <2>1 DEF InWord
<1>6. <<s, e>> \in Words(t, 0, L)
  <2>1. s \in 0..L /\ e \in 0..L /\ s < e
    BY <1>1, <1>2
  <2>2. QED
    BY <1>3, <1>4, <1>5, <2>1 DEF Words
<1>7. QED
  BY <1>1, <1>2, <1>6

\* Every word of the text fits into a chunk.
AllFit == \A w \in Words(text, 0, Len(text)) : w[2] - w[1] <= MaxSize

\* Then a chunk ends beside whitespace, or where the text ends.
LEMMA EndsBesideSpace ==
    ASSUME PiiInv, AllFit, NEW k \in DOMAIN chunks,
           0 < chunks[k][2], chunks[k][2] < Len(text)
    PROVE  InSpace(text, chunks[k][2]) \/ InSpace(text, chunks[k][2] - 1)
<1> DEFINE e == chunks[k][2]
<1> SUFFICES ASSUME ~InSpace(text, e), ~InSpace(text, e - 1) PROVE FALSE
  OBVIOUS
<1>1. Len(text) \in Nat /\ e \in 0..Len(text) /\ MaxSize \in Nat
  BY TextsAreBytes, MaxSizeAssumption DEF PiiInv, TypeOK
<1>2. e >= MaxSize /\ \A o \in (e - MaxSize)..(e - 1) : ~InSpace(text, o)
  BY DEF PiiInv, WordsKept
<1> HIDE DEF e
<1>3. /\ e - MaxSize \in 0..Len(text) /\ e + 1 \in 0..Len(text) /\ e - MaxSize < e + 1
      /\ InWord(text, e - MaxSize, e + 1)
  BY <1>1, <1>2 DEF e, InWord
<1>4. PICK w \in Words(text, 0, Len(text)) : w[1] <= e - MaxSize /\ e + 1 <= w[2]
  BY <1>1, <1>3, ExtendsToWord
<1>5. w[1] \in Nat /\ w[2] \in Nat /\ w[2] - w[1] <= MaxSize
  BY <1>1 DEF AllFit, Words
<1>6. QED
  BY <1>1, <1>4, <1>5

\* A word of a chunk is one of the text.
LEMMA ChunkWordIsWord ==
    ASSUME PiiInv, AllFit, pc = "done", NEW k \in DOMAIN chunks,
           NEW w \in Words(text, chunks[k][1], chunks[k][2])
    PROVE  w \in Words(text, 0, Len(text))
<1> DEFINE a == chunks[k][1]
           b == chunks[k][2]
<1>1. Len(text) \in Nat /\ a \in 0..Len(text) /\ b \in 0..Len(text)
  BY TextsAreBytes DEF PiiInv, TypeOK
<1>2. /\ w \in (a..b) \X (a..b) /\ w[1] < w[2]
      /\ \A o \in w[1]..(w[2] - 1) : ~InSpace(text, o)
      /\ w[1] = a \/ InSpace(text, w[1] - 1)
      /\ w[2] = b \/ InSpace(text, w[2])
  BY DEF Words
<1>3. w[1] \in a..b /\ w[2] \in a..b
  BY <1>2
<1>4. w[1] = 0 \/ InSpace(text, w[1] - 1)
  <2> SUFFICES ASSUME w[1] = a, a > 0, ~InSpace(text, a - 1) PROVE FALSE
    BY <1>1, <1>2
  <2>1. PICK j \in DOMAIN chunks : chunks[j][1] <= a - 1 /\ a - 1 < chunks[j][2]
    BY <1>1 DEF PiiInv, ChunksSound, Covered
  <2>2. chunks[j][1] \in 0..Len(text) /\ chunks[j][2] \in 0..Len(text) /\ j \in Nat /\ k \in Nat
    <3>1. chunks \in Seq((0..Len(text)) \X (0..Len(text)))
      BY DEF PiiInv, TypeOK
    <3>2. j \in 1..Len(chunks) /\ k \in 1..Len(chunks) /\ Len(chunks) \in Nat
      BY <3>1
    <3>3. chunks[j] \in (0..Len(text)) \X (0..Len(text))
      BY <3>1, <3>2
    <3>4. QED
      BY <3>2, <3>3
  <2>3. j < k
    <3>1. j # k
      BY <1>1, <2>1
    <3>2. ASSUME k < j PROVE FALSE
      <4>1. b <= chunks[j][1]
        BY <3>2 DEF PiiInv, ChunksSound
      <4>2. QED
        BY <1>1, <1>2, <1>3, <2>1, <2>2, <4>1
    <3>3. QED
      BY <2>2, <3>1, <3>2
  <2>4. chunks[j][2] = a
    <3>1. chunks[j][2] <= a
      BY <2>3 DEF PiiInv, ChunksSound
    <3>2. QED
      BY <1>1, <2>1, <2>2, <3>1
  <2>5. ~InSpace(text, a)
    BY <1>1, <1>2, <1>3
  <2>6. a < Len(text)
    BY <1>1, <1>2, <1>3
  <2>7. QED
    BY <2>4, <2>5, <2>6, EndsBesideSpace
<1>5. w[2] = Len(text) \/ InSpace(text, w[2])
  <2> SUFFICES ASSUME w[2] = b, b < Len(text), ~InSpace(text, b) PROVE FALSE
    BY <1>1, <1>2
  <2>1. 0 < b /\ ~InSpace(text, b - 1)
    BY <1>1, <1>2, <1>3
  <2>2. QED
    BY <2>1, EndsBesideSpace
<1>6. w \in (0..Len(text)) \X (0..Len(text))
  BY <1>1, <1>2
<1>7. QED
  BY <1>2, <1>4, <1>5, <1>6 DEF Words

\* A word of the text is one of the chunk that holds its first byte.
LEMMA WordIsChunkWord ==
    ASSUME PiiInv, AllFit, pc = "done", NEW w \in Words(text, 0, Len(text))
    PROVE  \E k \in DOMAIN chunks : w \in Words(text, chunks[k][1], chunks[k][2])
<1>1. Len(text) \in Nat
  BY TextsAreBytes DEF PiiInv, TypeOK
<1>2. /\ w \in (0..Len(text)) \X (0..Len(text)) /\ w[1] < w[2]
      /\ \A o \in w[1]..(w[2] - 1) : ~InSpace(text, o)
      /\ w[1] = 0 \/ InSpace(text, w[1] - 1)
      /\ w[2] = Len(text) \/ InSpace(text, w[2])
  BY DEF Words
<1>3. w[1] \in 0..Len(text) /\ w[2] \in 0..Len(text)
  BY <1>2
<1>4. PICK k \in DOMAIN chunks : chunks[k][1] <= w[1] /\ w[1] < chunks[k][2]
  BY <1>1, <1>2, <1>3 DEF PiiInv, ChunksSound, Covered
<1> DEFINE a == chunks[k][1]
           b == chunks[k][2]
<1>5. a \in 0..Len(text) /\ b \in 0..Len(text)
  BY DEF PiiInv, TypeOK
<1>6. w[2] <= b
  <2> SUFFICES ASSUME b < w[2] PROVE FALSE
    BY <1>3, <1>5
  <2>1. ~InSpace(text, b) /\ ~InSpace(text, b - 1) /\ 0 < b /\ b < Len(text)
    BY <1>1, <1>2, <1>3, <1>4, <1>5
  <2>2. QED
    BY <2>1, EndsBesideSpace
<1>7. w[1] \in a..b /\ w[2] \in a..b
  BY <1>1, <1>2, <1>3, <1>4, <1>5, <1>6
<1>8. w \in (a..b) \X (a..b)
  BY <1>2, <1>7
<1>9. w[1] = a \/ InSpace(text, w[1] - 1)
  BY <1>2, <1>4, <1>5
<1>10. w[2] = b \/ InSpace(text, w[2])
  BY <1>1, <1>2, <1>3, <1>5, <1>6
<1>11. w \in Words(text, a, b)
  BY <1>2, <1>8, <1>9, <1>10 DEF Words
<1>12. QED
  BY <1>11

-----------------------------------------------------------------------------
(* What is found. *)

\* The entities of words, at their place in the text.
InPlace(t, words) == {[type |-> Byte(t, w[1]), start |-> w[1], end |-> w[2]] : w \in words}

\* Both offsets of an entity moved by one amount.
LEMMA EntityMoved ==
    ASSUME NEW T, NEW e \in [type : T, start : Int, end : Int], NEW o \in Int
    PROVE  [e EXCEPT !.start = @ + o, !.end = @ + o]
               = [type |-> e.type, start |-> e.start + o, end |-> e.end + o]
<1> DEFINE Shape == [type : T, start : Int, end : Int]
<1>1. ASSUME NEW p \in Int, NEW q \in Int
      PROVE  [e EXCEPT !.start = p, !.end = q] = [type |-> e.type, start |-> p, end |-> q]
  <2> DEFINE m == [e EXCEPT !.start = p, !.end = q]
             r == [type |-> e.type, start |-> p, end |-> q]
  <2>1. r \in Shape /\ r.type = e.type /\ r.start = p /\ r.end = q
    OBVIOUS
  <2>2. m \in Shape
    OBVIOUS
  <2>3. m.type = e.type /\ m.start = p /\ m.end = q
    OBVIOUS
  <2> HIDE DEF m, r
  <2>4. m = r
    BY <2>1, <2>2, <2>3
  <2>5. QED
    BY <2>4 DEF m, r
<1>2. e.start + o \in Int /\ e.end + o \in Int
  OBVIOUS
<1>3. [e EXCEPT !.start = @ + o, !.end = @ + o]
          = [e EXCEPT !.start = e.start + o, !.end = e.end + o]
  OBVIOUS
<1>4. QED
  BY <1>1, <1>2, <1>3

\* The offsets into a chunk, moved by where it starts, are offsets into the text.
LEMMA PlacedInText ==
    ASSUME NEW t, NEW c \in Nat \X Nat
    PROVE  Placed(c, Entities(t, c)) = InPlace(t, Words(t, c[1], c[2]))
<1> DEFINE E(w) == [type |-> Byte(t, w[1]), start |-> w[1] - c[1], end |-> w[2] - c[1]]
           P(w) == [type |-> Byte(t, w[1]), start |-> w[1], end |-> w[2]]
           M(e) == [e EXCEPT !.start = @ + c[1], !.end = @ + c[1]]
<1>1. ASSUME NEW w \in Words(t, c[1], c[2]) PROVE M(E(w)) = P(w)
  <2> DEFINE e == E(w)
  <2>1. w[1] \in Int /\ w[2] \in Int /\ c[1] \in Int /\ w[1] - c[1] \in Int /\ w[2] - c[1] \in Int
    BY DEF Words
  <2>2. /\ e \in [type : {Byte(t, w[1])}, start : Int, end : Int]
        /\ e.type = Byte(t, w[1]) /\ e.start = w[1] - c[1] /\ e.end = w[2] - c[1]
    BY <2>1
  <2> HIDE DEF e, E
  <2>3. M(e) = [type |-> e.type, start |-> e.start + c[1], end |-> e.end + c[1]]
    BY <2>1, <2>2, EntityMoved
  <2> HIDE DEF M
  <2>4. e.start + c[1] = w[1] /\ e.end + c[1] = w[2]
    BY <2>1, <2>2
  <2>5. M(e) = P(w)
    BY <2>2, <2>3, <2>4
  <2>6. QED
    BY <2>5 DEF e
<1>2. Placed(c, Entities(t, c)) = {M(e) : e \in {E(w) : w \in Words(t, c[1], c[2])}}
  BY DEF Placed, Entities
<1>3. InPlace(t, Words(t, c[1], c[2])) = {P(w) : w \in Words(t, c[1], c[2])}
  BY DEF InPlace
<1> HIDE DEF E, P, M
<1>4. QED
  BY <1>1, <1>2, <1>3

\* What has been found in the chunks asked about so far.
FoundSoFar ==
    UNION {Placed(chunks[k], Entities(text, chunks[k])) : k \in 1..(next - 1)}

FoundInv ==
    /\ pc \in {"idle", "cutting"} => found = {} /\ next = 1
    /\ pc \in {"asking", "done"} => found = FoundSoFar
    /\ pc = "done" =>
        /\ next = Len(chunks) + 1
        /\ result.flagged \cup result.suppressed = found
        /\ deny = {} => result.suppressed = {}

LEMMA InitFound == Init => FoundInv
BY DEF Init, FoundInv

LEMMA NextFound == PiiInv /\ FoundInv /\ [Next]_vars => FoundInv'
<1> SUFFICES ASSUME PiiInv, FoundInv, [Next]_vars PROVE FoundInv'
  OBVIOUS
<1>0. /\ next \in Nat /\ next >= 1 /\ next <= Len(chunks) + 1 /\ Len(chunks) \in Nat
  BY DEF PiiInv, TypeOK
<1>1. CASE Begin \/ CutDone
  <2>1. found' = {} /\ next' = 1 /\ pc' # "done"
    BY <1>1 DEF Begin, CutDone, FoundInv
  <2>2. FoundSoFar' = {}
    BY <2>1 DEF FoundSoFar
  <2>3. QED
    BY <2>1, <2>2 DEF FoundInv
<1>2. CASE Cut \/ CutPanicked
  BY <1>2 DEF Cut, CutPanicked, FoundInv
<1>3. CASE Ask
  <2>1. /\ pc = "asking" /\ pc' = pc /\ next' = next + 1 /\ chunks' = chunks /\ text' = text
        /\ found' = found \cup Placed(chunks[next], Entities(text, chunks[next]))
    BY <1>3 DEF Ask
  <2>2. 1..(next' - 1) = 1..(next - 1) \cup {next}
    BY <1>0, <2>1
  <2>3. FoundSoFar' = FoundSoFar \cup Placed(chunks[next], Entities(text, chunks[next]))
    <3> DEFINE F(k) == Placed(chunks[k], Entities(text, chunks[k]))
    <3>1. \A k : F(k)' = F(k)
      BY <2>1
    <3>2. FoundSoFar = UNION {F(k) : k \in 1..(next - 1)}
      BY DEF FoundSoFar
    <3>3. FoundSoFar' = UNION {F(k) : k \in 1..(next' - 1)}
      BY <2>1 DEF FoundSoFar
    <3> HIDE DEF F
    <3>4. UNION {F(k) : k \in (1..(next - 1)) \cup {next}}
             = (UNION {F(k) : k \in 1..(next - 1)}) \cup F(next)
      OBVIOUS
    <3>5. QED
      BY <2>2, <3>2, <3>3, <3>4 DEF F
  <2>4. QED
    BY <2>1, <2>3 DEF FoundInv
<1>4. CASE AskFails
  BY <1>4 DEF AskFails, FoundInv
<1>5. CASE Finish
  <2>1. /\ pc = "asking" /\ pc' = "done" /\ UNCHANGED <<deny, text, chunks, next, found>>
        /\ next > Len(chunks)
        /\ result' = [flagged |-> {e \in found : IsFlagged(e.type)},
                      suppressed |-> {e \in found : ~IsFlagged(e.type)}]
    BY <1>5 DEF Finish
  <2>2. result'.flagged \cup result'.suppressed = found
    BY <2>1
  <2>3. deny = {} => result'.suppressed = {}
    BY <2>1 DEF IsFlagged
  <2>4. found' = FoundSoFar'
    BY <2>1 DEF FoundInv, FoundSoFar
  <2>5. QED
    BY <1>0, <2>1, <2>2, <2>3, <2>4 DEF FoundInv
<1>6. CASE UNCHANGED vars
  BY <1>6 DEF vars, FoundInv, FoundSoFar
<1>7. QED
  BY <1>1, <1>2, <1>3, <1>4, <1>5, <1>6 DEF Next

\* What is found in all chunks is what the detector finds in the text.
LEMMA AllFound ==
    ASSUME PiiInv, FoundInv, pc = "done", AllFit
    PROVE  found = Entities(text, <<0, Len(text)>>)
<1>1. Len(text) \in Nat /\ Len(chunks) \in Nat /\ DOMAIN chunks = 1..Len(chunks)
      /\ \A k \in DOMAIN chunks : chunks[k] \in Nat \X Nat
  BY TextsAreBytes DEF PiiInv, TypeOK
<1>2. found = UNION {InPlace(text, Words(text, chunks[k][1], chunks[k][2])) : k \in DOMAIN chunks}
  <2>1. 1..(next - 1) = DOMAIN chunks
    BY <1>1 DEF FoundInv
  <2>2. \A k \in DOMAIN chunks :
           Placed(chunks[k], Entities(text, chunks[k]))
               = InPlace(text, Words(text, chunks[k][1], chunks[k][2]))
    BY <1>1, PlacedInText
  <2>3. QED
    BY <2>1, <2>2 DEF FoundInv, FoundSoFar
<1>3. Entities(text, <<0, Len(text)>>) = InPlace(text, Words(text, 0, Len(text)))
  <2>1. \A w \in Words(text, 0, Len(text)) : w[1] - 0 = w[1] /\ w[2] - 0 = w[2]
    BY <1>1 DEF Words
  <2>2. QED
    BY <2>1 DEF Entities, InPlace
<1>4. ASSUME NEW k \in DOMAIN chunks
      PROVE  InPlace(text, Words(text, chunks[k][1], chunks[k][2]))
                 \subseteq InPlace(text, Words(text, 0, Len(text)))
  BY ChunkWordIsWord DEF InPlace
<1>5. ASSUME NEW w \in Words(text, 0, Len(text))
      PROVE  \E k \in DOMAIN chunks :
                 [type |-> Byte(text, w[1]), start |-> w[1], end |-> w[2]]
                     \in InPlace(text, Words(text, chunks[k][1], chunks[k][2]))
  BY WordIsChunkWord DEF InPlace
<1>6. InPlace(text, Words(text, 0, Len(text))) =
          UNION {InPlace(text, Words(text, chunks[k][1], chunks[k][2])) : k \in DOMAIN chunks}
  <2>1. ASSUME NEW x \in InPlace(text, Words(text, 0, Len(text)))
        PROVE  \E k \in DOMAIN chunks : x \in InPlace(text, Words(text, chunks[k][1], chunks[k][2]))
    <3>1. PICK w \in Words(text, 0, Len(text)) :
             x = [type |-> Byte(text, w[1]), start |-> w[1], end |-> w[2]]
      BY DEF InPlace
    <3>2. QED
      BY <1>5, <3>1
  <2>2. QED
    BY <1>4, <2>1
<1>7. QED
  BY <1>2, <1>3, <1>6

\* PiiSignal: where every word fits into a chunk, the entities reported are those of the
\* whole text, at their places, for every text, chunk size and deny list.
THEOREM ChunkingIsInvisible == Spec => []ChunkingInvisible
<1>1. PiiInv /\ FoundInv => ChunkingInvisible
  BY AllFound DEF FoundInv, AllFit, ChunkingInvisible
<1>2. Spec => []FoundInv
  BY InitFound, NextFound, PiiInvariance, PTL DEF Spec
<1>3. QED
  BY <1>1, <1>2, PiiInvariance, PTL

-----------------------------------------------------------------------------
(* JailbreakCache. *)

\* By history j, the result v is one the chain gave for some text of hash k.
Judged(j, k, v) ==
    \E t \in Prompts, answer \in Answers :
        Hash[t] = k /\ <<t, answer>> \in j /\ v = ResultOf(answer)

\* What is about to be stored, and what is stored, was judged: a hit answers with
\* what another evaluation stored, so ResultsJudged alone is not inductive.
PendingJudged ==
    \A r \in Requests : stage[r] \in {"store", "done"} => Judged(judged, Hash[asked[r]], verdict[r])
CacheJudged == \A k \in Keys : cache[k] # Absent => Judged(judged, k, cache[k])

\* Whoever is answered leaves an answer for the evaluations after it, a failure
\* of the chain included.
AnsweredIsCached == \A r \in Requests : stage[r] = "done" => cache[Key(r)] # Absent

CacheInv == CacheTypeOK /\ PendingJudged /\ CacheJudged /\ AnsweredIsCached

-----------------------------------------------------------------------------

\* What was judged stays judged as the history grows.
LEMMA JudgedGrows ==
    ASSUME NEW j, NEW j2, NEW k, NEW v, Judged(j, k, v), j \subseteq j2
    PROVE  Judged(j2, k, v)
BY DEF Judged

\* A judged result is one of Results.
LEMMA JudgedResult ==
    ASSUME NEW j, NEW k, NEW v, Judged(j, k, v)
    PROVE  v \in Results /\ v # Absent
BY DEF Judged, Answers, ResultOf, Results, Absent

\* The invariant holds initially.
LEMMA CacheInvInit == CacheInit => CacheInv
BY DEF CacheInit, CacheInv, CacheTypeOK, PendingJudged, CacheJudged, AnsweredIsCached, Results, Keys

\* Every step keeps it.
LEMMA CacheInvStep == CacheInv /\ [CacheNext]_cacheVars => CacheInv'
<1> SUFFICES ASSUME CacheInv, [CacheNext]_cacheVars PROVE CacheInv'
  OBVIOUS
<1> USE DEF CacheInv, PendingJudged, CacheJudged, AnsweredIsCached, Key
<1>0. \A r \in Requests : Hash[asked[r]] \in Keys
  BY DEF CacheTypeOK, Keys
<1>1. ASSUME NEW r \in Requests, Evaluate(r) PROVE CacheInv'
  BY <1>1 DEF Evaluate, CacheTypeOK
<1>2. ASSUME NEW r \in Requests, Hit(r) PROVE CacheInv'
  <2>1. Judged(judged, Hash[asked[r]], cache[Hash[asked[r]]])
    BY <1>0, <1>2 DEF Hit
  <2>2. CacheTypeOK'
    BY <1>2, <2>1, JudgedResult DEF Hit, CacheTypeOK
  <2>3. PendingJudged'
    BY <1>2, <2>1 DEF Hit, CacheTypeOK
  <2>4. CacheJudged' /\ AnsweredIsCached'
    BY <1>2 DEF Hit, CacheTypeOK
  <2>5. QED
    BY <2>2, <2>3, <2>4
<1>3. ASSUME NEW r \in Requests, Miss(r) PROVE CacheInv'
  BY <1>3 DEF Miss, CacheTypeOK
<1>4. ASSUME NEW r \in Requests, NEW answer \in Answers, Detect(r, answer) PROVE CacheInv'
  <2>1. judged \subseteq judged'
    BY <1>4 DEF Detect
  <2>2. Judged(judged', Hash[asked[r]], ResultOf(answer))
    BY <1>4 DEF Detect, CacheTypeOK, Judged
  <2>3. CacheTypeOK'
    BY <1>4, <2>2, JudgedResult DEF Detect, CacheTypeOK
  <2>4. CacheJudged'
    BY <1>4, <2>1, JudgedGrows DEF Detect
  <2>5. ASSUME NEW q \in Requests, stage'[q] \in {"store", "done"}
        PROVE  Judged(judged', Hash[asked'[q]], verdict'[q])
    <3>1. CASE q = r
      BY <1>4, <2>2, <3>1 DEF Detect, CacheTypeOK
    <3>2. CASE q # r
      <4>1. Judged(judged, Hash[asked[q]], verdict[q])
        BY <1>4, <2>5, <3>2 DEF Detect, CacheTypeOK
      <4>2. Judged(judged', Hash[asked[q]], verdict[q])
        BY <2>1, <4>1, JudgedGrows
      <4>3. QED
        BY <1>4, <3>2, <4>2 DEF Detect, CacheTypeOK
    <3>3. QED
      BY <3>1, <3>2
  <2>6. AnsweredIsCached'
    BY <1>4 DEF Detect, CacheTypeOK
  <2>7. QED
    BY <2>3, <2>4, <2>5, <2>6
<1>5. ASSUME NEW r \in Requests, Store(r) PROVE CacheInv'
  <2>1. Judged(judged, Hash[asked[r]], verdict[r])
    BY <1>5 DEF Store
  <2>2. verdict[r] \in Results /\ verdict[r] # Absent
    BY <2>1, JudgedResult
  <2>3. CacheTypeOK'
    BY <1>0, <1>5, <2>2 DEF Store, CacheTypeOK
  <2>4. CacheJudged'
    BY <1>0, <1>5, <2>1 DEF Store, CacheTypeOK
  <2>5. PendingJudged'
    BY <1>5 DEF Store, CacheTypeOK
  <2>6. AnsweredIsCached'
    BY <1>0, <1>5, <2>2 DEF Store, CacheTypeOK
  <2>7. QED
    BY <2>3, <2>4, <2>5, <2>6
<1>6. ASSUME NEW r \in Requests, Drop(r) PROVE CacheInv'
  BY <1>6 DEF Drop, CacheTypeOK
<1>7. CASE UNCHANGED cacheVars
  BY <1>7 DEF cacheVars, CacheTypeOK
<1>8. QED
  BY <1>1, <1>2, <1>3, <1>4, <1>5, <1>6, <1>7 DEF CacheNext, Step

THEOREM CacheInvariance == CacheSpec => []CacheInv
BY CacheInvInit, CacheInvStep, PTL DEF CacheSpec

\* Types hold: in particular no raw error is ever stored.
THEOREM CacheTypeCorrect == CacheSpec => []CacheTypeOK
<1>1. CacheInv => CacheTypeOK
  BY DEF CacheInv
<1>2. QED
  BY <1>1, CacheInvariance, PTL

\* No result is answered that the chain did not give for a text of that hash.
THEOREM EveryResultJudged == CacheSpec => []ResultsJudged
<1>1. CacheInv => ResultsJudged
  BY DEF CacheInv, PendingJudged, Judged, ResultsJudged, Key
<1>2. QED
  BY <1>1, CacheInvariance, PTL

\* A settled key keeps its result, and stays settled: the step that
\* SettledForEver is the closure of.
THEOREM SettledStaysSettled ==
    ASSUME NEW k \in Keys, NEW v \in Results
    PROVE  CacheSpec => [](Settled(k) /\ cache[k] = v => [](cache[k] = v))
<1>1. CacheInv /\ (Settled(k) /\ cache[k] = v) /\ [CacheNext]_cacheVars => (Settled(k) /\ cache[k] = v)'
  <2> SUFFICES ASSUME CacheInv, Settled(k), cache[k] = v, [CacheNext]_cacheVars
               PROVE  Settled(k)' /\ cache'[k] = v
    OBVIOUS
  <2> USE DEF CacheInv, CacheTypeOK, Settled, Key
  <2>1. CASE UNCHANGED cacheVars
    BY <2>1 DEF cacheVars
  <2>2. ASSUME NEW r \in Requests, Evaluate(r) PROVE Settled(k)' /\ cache'[k] = v
    BY <2>2 DEF Evaluate
  <2>3. ASSUME NEW r \in Requests, Hit(r) PROVE Settled(k)' /\ cache'[k] = v
    BY <2>3 DEF Hit
  <2>4. ASSUME NEW r \in Requests, Miss(r) PROVE Settled(k)' /\ cache'[k] = v
    BY <2>4 DEF Miss
  <2>5. ASSUME NEW r \in Requests, NEW answer \in Answers, Detect(r, answer)
        PROVE  Settled(k)' /\ cache'[k] = v
    BY <2>5 DEF Detect
  <2>6. ASSUME NEW r \in Requests, Store(r) PROVE Settled(k)' /\ cache'[k] = v
    BY <2>6 DEF Store
  <2>7. ASSUME NEW r \in Requests, Drop(r) PROVE Settled(k)' /\ cache'[k] = v
    BY <2>7 DEF Drop
  <2>8. QED
    BY <2>1, <2>2, <2>3, <2>4, <2>5, <2>6, <2>7 DEF CacheNext, Step
<1>2. QED
  BY <1>1, CacheInvariance, PTL DEF CacheSpec

\* SettledForEver, of all keys and results.
THEOREM SettledIsForEver == CacheSpec => SettledForEver
BY SettledStaysSettled DEF SettledForEver
=============================================================================
