---------------------------- MODULE Signals_proof ----------------------------
(***************************************************************************)
(* Proofs about Signals, Bindings and SignalRouter, for every input that   *)
(* their assumptions allow: texts, patterns, vectors, matches and results  *)
(* of any length.  An evaluation is one step from its input to its answer, *)
(* so the inductive invariant says that the input is one that was asked    *)
(* for, and the work is in the lemmas about the operators: a fold over a   *)
(* sequence is the last of a run of its steps, and what holds after each   *)
(* step is shown by induction, from the least counterexample.              *)
(***************************************************************************)
EXTENDS SignalRouter, FiniteSetTheorems, SequenceTheorems, WellFoundedInduction, TLAPS

-----------------------------------------------------------------------------
(* Induction, least and greatest elements *)

\* A non-empty set of naturals has a least element.
LEMMA LeastExists ==
    ASSUME NEW S, S \subseteq Nat, S # {}
    PROVE  \E x \in S : \A y \in S : x <= y
<1>1. PICK x \in S : \A y \in S : ~(<<y, x>> \in OpToRel(<, Nat))
  BY WFMin, NatLessThanWellFounded
<1>2. \A y \in S : ~(y < x)
  BY <1>1 DEF OpToRel
<1>3. \A y \in S : x <= y
  <2> TAKE y \in S
  <2>1. x \in Nat /\ y \in Nat /\ ~(y < x)
    BY <1>2
  <2>2. QED
    BY <2>1
<1>4. QED
  BY <1>3

\* What holds of 0, and of the next number whenever it holds of one, holds up to n.
LEMMA UpTo ==
    ASSUME NEW n \in Nat, NEW G, 0 \in G, \A k \in 0..(n - 1) : k \in G => k + 1 \in G
    PROVE  \A k \in 0..n : k \in G
<1> DEFINE Bad == (0..n) \ G
<1> SUFFICES ASSUME Bad # {} PROVE FALSE
  OBVIOUS
<1>1. PICK k \in Bad : \A j \in Bad : k <= j
  <2>1. Bad \subseteq Nat
    OBVIOUS
  <2> HIDE DEF Bad
  <2>2. QED
    BY <2>1, LeastExists
<1>2. k \in 0..n /\ k \notin G /\ k # 0
  OBVIOUS
<1>3. k - 1 \in 0..(n - 1) /\ k - 1 \in 0..n /\ (k - 1) + 1 = k /\ ~(k <= k - 1)
  BY <1>2
<1>4. k - 1 \in G
  BY <1>1, <1>3
<1>5. QED
  BY <1>2, <1>3, <1>4

\* Min and Max are what their names say.
LEMMA MinIsLeast ==
    ASSUME NEW S, S \subseteq Nat, S # {}
    PROVE  Min(S) \in S /\ \A y \in S : Min(S) <= y
<1>1. PICK x \in S : \A y \in S : x <= y
  BY LeastExists
<1>2. QED
  BY <1>1 DEF Min

\* Max is the element no other exceeds.
LEMMA MaxIs ==
    ASSUME NEW S, S \subseteq Int, NEW x \in S, \A y \in S : y <= x
    PROVE  Max(S) = x
<1>1. \A z \in S : (\A y \in S : z >= y) => z = x
  OBVIOUS
<1>2. x \in S /\ \A y \in S : x >= y
  OBVIOUS
<1>3. QED
  BY <1>1, <1>2 DEF Max

\* The greatest of the first k numbers, and the others.
LEMMA MaxOfFirst ==
    ASSUME NEW n \in Nat
    PROVE  /\ \A s \in SUBSET (1..n) : s # {} => Max(s) \in s
           /\ \A k \in 1..n : 1..k # {} /\ Max(1..k) = k /\ (1..k) \ {k} = 1..(k - 1)
<1>1. ASSUME NEW s \in SUBSET (1..n), s # {} PROVE Max(s) \in s
  <2> DEFINE Gaps == {n - x : x \in s}
  <2>1. PICK g \in Gaps : \A y \in Gaps : g <= y
    <3>1. PICK x \in s : TRUE
      BY <1>1
    <3>2. n - x \in Gaps
      OBVIOUS
    <3>3. Gaps \subseteq Nat
      OBVIOUS
    <3> HIDE DEF Gaps
    <3>4. QED
      BY <3>2, <3>3, LeastExists
  <2>2. PICK x \in s : g = n - x
    BY <2>1
  <2>3. \A y \in s : x >= y
    <3> TAKE y \in s
    <3>1. n - x <= n - y
      BY <2>1, <2>2
    <3>2. QED
      BY <3>1
  <2>4. QED
    BY <2>3 DEF Max
<1>2. ASSUME NEW k \in 1..n PROVE 1..k # {} /\ Max(1..k) = k /\ (1..k) \ {k} = 1..(k - 1)
  <2>1. k \in 1..k /\ \A y \in 1..k : k >= y
    OBVIOUS
  <2>2. \A x \in 1..k : (\A y \in 1..k : x >= y) => x = k
    BY <2>1
  <2>3. Max(1..k) = k
    BY <2>1, <2>2 DEF Max
  <2>4. QED
    BY <2>1, <2>3
<1>3. QED
  BY <1>1, <1>2

\* What IsASequence says of a sequence.
LEMMA SequenceIs ==
    ASSUME NEW s, IsASequence(s)
    PROVE  /\ Len(s) \in Nat /\ DOMAIN s = 1..Len(s)
           /\ s \in Seq(ToSet(s))
           /\ \A i \in 1..Len(s) : s[i] \in ToSet(s)
<1>1. Len(s) \in Nat /\ s = [i \in 1..Len(s) |-> s[i]]
  BY DEF IsASequence
<1>2. DOMAIN s = 1..Len(s) /\ \A i \in 1..Len(s) : s[i] \in ToSet(s)
  BY <1>1 DEF ToSet
<1>3. s \in [1..Len(s) -> ToSet(s)]
  BY <1>1, <1>2
<1>4. QED
  BY <1>1, <1>2, <1>3

\* The parts of an interval are finite.
LEMMA PartsAreFinite ==
    ASSUME NEW n \in Nat
    PROVE  \A S \in SUBSET (1..n) : IsFiniteSet(S) /\ Cardinality(S) \in Nat
<1>1. IsFiniteSet(1..n)
  BY FS_Interval
<1>2. ASSUME NEW S \in SUBSET (1..n) PROVE IsFiniteSet(S)
  BY <1>1, FS_Subset
<1>3. QED
  BY <1>2, FS_CardinalityType

\* One of the first numbers is not exceeded.
LEMMA GreatestExists ==
    ASSUME NEW n \in Nat \ {0}, NEW f \in [1..n -> Int]
    PROVE  \E j \in 1..n : \A i \in 1..n : f[i] <= f[j]
<1> DEFINE G == {k \in 0..n : k = 0 \/ \E j \in 1..k : \A i \in 1..k : f[i] <= f[j]}
<1>1. 0 \in G
  OBVIOUS
<1>2. ASSUME NEW k \in 0..(n - 1), k \in G PROVE k + 1 \in G
  <2>1. \A i \in 1..(k + 1) : f[i] \in Int /\ (i = k + 1 \/ i \in 1..k)
    OBVIOUS
  <2>2. CASE k = 0
    <3>1. \A i \in 1..(k + 1) : f[i] <= f[k + 1]
      BY <2>1, <2>2
    <3>2. QED
      BY <3>1
  <2>3. CASE k # 0
    <3>1. PICK j \in 1..k : \A i \in 1..k : f[i] <= f[j]
      BY <1>2, <2>3
    <3>2. CASE f[j] <= f[k + 1]
      <4>1. \A i \in 1..(k + 1) : f[i] <= f[k + 1]
        BY <2>1, <3>1, <3>2
      <4>2. QED
        BY <4>1
    <3>3. CASE f[k + 1] < f[j]
      <4>1. ASSUME NEW i \in 1..(k + 1) PROVE f[i] <= f[j]
        <5>1. CASE i \in 1..k
          BY <3>1, <5>1
        <5>2. CASE i = k + 1
          <6>1. f[i] \in Int /\ f[j] \in Int
            BY <2>1
          <6>2. QED
            BY <3>3, <5>2, <6>1
        <5>3. QED
          BY <2>1, <5>1, <5>2
      <4>2. QED
        BY <4>1
    <3>4. QED
      BY <2>1, <3>2, <3>3
  <2>4. QED
    BY <2>2, <2>3
<1>3. n \in G
  <2> HIDE DEF G
  <2>1. \A k \in 0..n : k \in G
    BY <1>1, <1>2, UpTo
  <2>2. QED
    BY <2>1
<1>4. QED
  BY <1>3

\* The maximum of a set with an upper bound is one of its elements.
LEMMA MaxBounded ==
    ASSUME NEW S, S \subseteq Int, S # {}, NEW b \in Int, \A y \in S : y <= b
    PROVE  Max(S) \in S /\ \A y \in S : y <= Max(S)
<1> DEFINE Gaps == {b - y : y \in S}
<1>1. PICK g \in Gaps : \A y \in Gaps : g <= y
  <2>1. Gaps \subseteq Nat /\ Gaps # {}
    OBVIOUS
  <2> HIDE DEF Gaps
  <2>2. QED
    BY <2>1, LeastExists
<1>2. PICK x \in S : g = b - x
  BY <1>1
<1>3. \A y \in S : y <= x
  <2> TAKE y \in S
  <2>1. b - x <= b - y
    BY <1>1, <1>2
  <2>2. QED
    BY <2>1
<1>4. QED
  BY <1>3, MaxIs

-----------------------------------------------------------------------------
(* Sorting *)

\* R orders any two elements of E, and consistently.
Orders(R, E) ==
    /\ \A a, b \in E : <<a, b>> \in R \/ <<b, a>> \in R
    /\ \A a, b, c \in E : <<a, b>> \in R /\ <<b, c>> \in R => <<a, c>> \in R

\* All of E, by R.
IsOrder(order, R, E) ==
    /\ order \in Bijection(1..Cardinality(E), E)
    /\ \A i, j \in 1..Cardinality(E) : i < j => <<order[i], order[j]>> \in R

\* There is such an order.
Sortable(R, E) == \E order : IsOrder(order, R, E)

\* A finite set has an element that comes before every one.
LEMMA FirstExists ==
    ASSUME NEW E, IsFiniteSet(E), E # {}, NEW R, Orders(R, E)
    PROVE  \E e \in E : \A f \in E : <<e, f>> \in R
<1> DEFINE G == {k \in Nat : \A F \in SUBSET E :
                    F # {} /\ Cardinality(F) = k => \E e \in F : \A f \in F : <<e, f>> \in R}
           n == Cardinality(E)
<1>1. n \in Nat
  BY FS_CardinalityType
<1>2. 0 \in G
  <2> SUFFICES ASSUME NEW F \in SUBSET E, Cardinality(F) = 0 PROVE F = {}
    OBVIOUS
  <2>1. QED
    BY FS_Subset, FS_EmptySet
<1>3. \A k \in 0..(n - 1) : k \in G => k + 1 \in G
  <2> SUFFICES ASSUME NEW k \in 0..(n - 1), k \in G, NEW F \in SUBSET E, F # {}, Cardinality(F) = k + 1
               PROVE  \E e \in F : \A f \in F : <<e, f>> \in R
    OBVIOUS
  <2>1. PICK x \in F : TRUE
    OBVIOUS
  <2>2. Cardinality(F \ {x}) = k
    <3>1. Cardinality(F \ {x}) = Cardinality(F) - 1
      BY FS_Subset, FS_RemoveElement
    <3>2. QED
      BY <3>1
  <2>3. <<x, x>> \in R
    BY DEF Orders
  <2>4. CASE F \ {x} = {}
    BY <2>3, <2>4
  <2>5. CASE F \ {x} # {}
    <3>1. PICK e \in F \ {x} : \A f \in F \ {x} : <<e, f>> \in R
      BY <2>2, <2>5
    <3>2. CASE <<e, x>> \in R
      BY <3>1, <3>2
    <3>3. CASE <<x, e>> \in R
      <4>1. \A f \in F : <<x, f>> \in R
        <5> TAKE f \in F
        <5>1. CASE f = x
          BY <2>3, <5>1
        <5>2. CASE f # x
          <6>1. <<e, f>> \in R /\ x \in E /\ e \in E /\ f \in E
            BY <3>1, <5>2
          <6>2. QED
            BY <3>3, <6>1 DEF Orders
        <5>3. QED
          BY <5>1, <5>2
      <4>2. QED
        BY <4>1
    <3>4. QED
      BY <3>2, <3>3 DEF Orders
  <2>6. QED
    BY <2>4, <2>5
<1> HIDE DEF G
<1>4. n \in G
  <2> HIDE DEF n
  <2>1. \A k \in 0..n : k \in G
    BY <1>1, <1>2, <1>3, UpTo
  <2>2. QED
    BY <1>1, <2>1
<1>5. QED
  BY <1>4 DEF G

\* The first element can be put before the others in their order.
LEMMA SortOneMore ==
    ASSUME NEW E, IsFiniteSet(E), E # {}, NEW R, Orders(R, E),
           \A e \in E : Sortable(R, E \ {e})
    PROVE  Sortable(R, E)
<1> DEFINE m == Cardinality(E)
<1>1. PICK e \in E : \A f \in E : <<e, f>> \in R
  BY FirstExists
<1>2. m \in Nat /\ Cardinality(E \ {e}) = m - 1 /\ m - 1 \in Nat
  <2>1. /\ m \in Nat /\ Cardinality(E \ {e}) = m - 1
    BY FS_CardinalityType, FS_RemoveElement
  <2>2. IsFiniteSet(E \ {e})
    BY FS_RemoveElement
  <2>3. QED
    BY <2>1, <2>2, FS_CardinalityType
<1> HIDE DEF m
<1>3. PICK rest : IsOrder(rest, R, E \ {e})
  BY DEF Sortable
<1>4. /\ rest \in [1..(m - 1) -> E \ {e}]
      /\ \A i, j \in 1..(m - 1) : rest[i] = rest[j] => i = j
      /\ \A f \in E \ {e} : \E i \in 1..(m - 1) : rest[i] = f
      /\ \A i, j \in 1..(m - 1) : i < j => <<rest[i], rest[j]>> \in R
  BY <1>2, <1>3 DEF IsOrder, Bijection, Injection, Surjection, IsInjective
<1> DEFINE order == [i \in 1..m |-> IF i = 1 THEN e ELSE rest[i - 1]]
<1>5. \A i \in 1..m : i # 1 => i - 1 \in 1..(m - 1)
  BY <1>2
<1>6. order \in [1..m -> E]
  BY <1>4, <1>5
<1>7. \A i, j \in 1..m : order[i] = order[j] => i = j
  <2> SUFFICES ASSUME NEW i \in 1..m, NEW j \in 1..m, order[i] = order[j] PROVE i = j
    OBVIOUS
  <2>1. CASE i = 1 /\ j = 1
    BY <2>1
  <2>2. CASE i = 1 /\ j # 1
    BY <1>4, <1>5, <2>2
  <2>3. CASE i # 1 /\ j = 1
    BY <1>4, <1>5, <2>3
  <2>4. CASE i # 1 /\ j # 1
    <3>1. i - 1 \in 1..(m - 1) /\ j - 1 \in 1..(m - 1) /\ rest[i - 1] = rest[j - 1]
      BY <1>5, <2>4
    <3>2. i - 1 = j - 1
      BY <1>4, <3>1
    <3>3. QED
      BY <3>2
  <2>5. QED
    BY <2>1, <2>2, <2>3, <2>4
<1>8. \A f \in E : \E i \in 1..m : order[i] = f
  <2> TAKE f \in E
  <2>1. CASE f = e
    BY <1>2, <2>1
  <2>2. CASE f # e
    <3>1. PICK i \in 1..(m - 1) : rest[i] = f
      BY <1>4, <2>2
    <3>2. i + 1 \in 1..m /\ i + 1 # 1 /\ (i + 1) - 1 = i
      BY <1>2
    <3>3. QED
      BY <3>1, <3>2
  <2>3. QED
    BY <2>1, <2>2
<1>9. \A i, j \in 1..m : i < j => <<order[i], order[j]>> \in R
  <2> SUFFICES ASSUME NEW i \in 1..m, NEW j \in 1..m, i < j
               PROVE  <<order[i], order[j]>> \in R
    OBVIOUS
  <2>1. j # 1 /\ order[j] \in E
    BY <1>6
  <2>2. CASE i = 1
    <3>1. order[i] = e
      BY <2>2
    <3> HIDE DEF order
    <3>2. QED
      BY <1>1, <2>1, <3>1
  <2>3. CASE i # 1
    <3>1. i - 1 \in 1..(m - 1) /\ j - 1 \in 1..(m - 1) /\ i - 1 < j - 1
      BY <1>5, <2>1, <2>3
    <3>2. order[i] = rest[i - 1] /\ order[j] = rest[j - 1]
      BY <2>1, <2>3
    <3> HIDE DEF order
    <3>3. QED
      BY <1>4, <3>1, <3>2
  <2>4. QED
    BY <2>2, <2>3
<1> HIDE DEF order
<1>10. DOMAIN order = 1..m
  BY <1>6
<1>11. IsOrder(order, R, E)
  BY <1>6, <1>7, <1>8, <1>9, <1>10 DEF IsOrder, Bijection, Injection, Surjection, IsInjective, m
<1>12. QED
  BY <1>11 DEF Sortable

\* Any finite set can be sorted.
LEMMA OrderExists ==
    ASSUME NEW E, IsFiniteSet(E), NEW R, Orders(R, E)
    PROVE  Sortable(R, E)
<1> DEFINE G == {k \in Nat : \A F \in SUBSET E : Cardinality(F) = k => Sortable(R, F)}
           n == Cardinality(E)
<1>1. n \in Nat
  BY FS_CardinalityType
<1>2. \A F \in SUBSET E : IsFiniteSet(F) /\ Orders(R, F)
  BY FS_Subset DEF Orders
<1>3. 0 \in G
  <2> SUFFICES ASSUME NEW F \in SUBSET E, Cardinality(F) = 0 PROVE Sortable(R, F)
    OBVIOUS
  <2>1. F = {} /\ 1..0 = {}
    BY <1>2, FS_EmptySet
  <2>2. [i \in {} |-> i] \in [1..0 -> {}]
    BY <2>1
  <2>3. IsOrder([i \in {} |-> i], R, F)
    BY <2>1, <2>2 DEF IsOrder, Bijection, Injection, Surjection, IsInjective
  <2>4. QED
    BY <2>3 DEF Sortable
<1>4. \A k \in 0..(n - 1) : k \in G => k + 1 \in G
  <2> SUFFICES ASSUME NEW k \in 0..(n - 1), k \in G, NEW F \in SUBSET E, Cardinality(F) = k + 1
               PROVE  Sortable(R, F)
    OBVIOUS
  <2>1. F # {}
    BY FS_EmptySet
  <2>2. \A e \in F : Sortable(R, F \ {e})
    <3> TAKE e \in F
    <3>1. Cardinality(F \ {e}) = Cardinality(F) - 1
      BY <1>2, FS_RemoveElement
    <3>2. Cardinality(F \ {e}) = k
      BY <3>1
    <3>3. QED
      BY <3>2
  <2>3. QED
    BY <1>2, <2>1, <2>2, SortOneMore
<1> HIDE DEF G
<1>5. \A k \in 0..n : k \in G
  <2> HIDE DEF n
  <2>1. QED
    BY <1>1, <1>3, <1>4, UpTo
<1>6. n \in G
  BY <1>1, <1>5
<1>7. QED
  BY <1>6 DEF G

\* So is that of a finite set.
LEMMA MaxOfFinite ==
    ASSUME NEW S, S \subseteq Int, IsFiniteSet(S), S # {}
    PROVE  Max(S) \in S /\ \A y \in S : y <= Max(S)
<1> DEFINE R == {p \in S \X S : p[1] >= p[2]}
<1>1. Orders(R, S)
  BY DEF Orders
<1>2. \A x, y \in S : <<x, y>> \in R <=> x >= y
  OBVIOUS
<1> HIDE DEF R
<1>3. PICK x \in S : \A y \in S : <<x, y>> \in R
  BY <1>1, FirstExists
<1>4. \A y \in S : y <= x
  BY <1>2, <1>3
<1>5. QED
  BY <1>4, MaxIs

-----------------------------------------------------------------------------
(* Folds *)

\* The recursive function inside a fold exists, when what it folds keeps to V: h folds one
\* more element in, and c chooses which.
FoldOf(f, S, V, base, h, c) ==
    /\ f \in [SUBSET S -> V]
    /\ \A s \in SUBSET S : f[s] = IF s = {} THEN base ELSE h[<<f[s \ {c[s]}], c[s]>>]

\* Such a function exists for every finite set, by induction on the size of its subsets.
LEMMA FoldDefined ==
    ASSUME NEW S, IsFiniteSet(S), NEW V, NEW base \in V, NEW h, h \in [V \X S -> V],
           NEW c, \A s \in SUBSET S : s # {} => c[s] \in s
    PROVE  \E f : FoldOf(f, S, V, base, h, c)
<1> DEFINE Sets(k) == {s \in SUBSET S : Cardinality(s) <= k}
           Turn(f, s) == IF s = {} THEN base ELSE h[<<f[s \ {c[s]}], c[s]>>]
           Good(k) == \E f \in [Sets(k) -> V] : \A s \in Sets(k) : f[s] = Turn(f, s)
<1>1. Good(0)
  <2>1. Sets(0) = {{}}
    <3>1. \A s \in SUBSET S : IsFiniteSet(s) /\ Cardinality(s) \in Nat
      BY FS_Subset, FS_CardinalityType
    <3>2. QED
      BY <3>1, FS_EmptySet
  <2>2. [s \in Sets(0) |-> base] \in [Sets(0) -> V]
    OBVIOUS
  <2>3. QED
    BY <2>1, <2>2
<1>2. ASSUME NEW k \in Nat, Good(k) PROVE Good(k + 1)
  <2>1. PICK f \in [Sets(k) -> V] : \A s \in Sets(k) : f[s] = Turn(f, s)
    BY <1>2
  <2>2. \A s \in Sets(k + 1) : s # {} => s \ {c[s]} \in Sets(k)
    <3> SUFFICES ASSUME NEW s \in Sets(k + 1), s # {} PROVE s \ {c[s]} \in Sets(k)
      OBVIOUS
    <3>1. IsFiniteSet(s) /\ Cardinality(s) \in Nat /\ c[s] \in s
      BY FS_Subset, FS_CardinalityType
    <3>2. Cardinality(s \ {c[s]}) = Cardinality(s) - 1
      BY <3>1, FS_RemoveElement
    <3>3. QED
      BY <3>1, <3>2
  <2> DEFINE g == [s \in Sets(k + 1) |-> Turn(f, s)]
  <2>3. g \in [Sets(k + 1) -> V]
    <3> SUFFICES ASSUME NEW s \in Sets(k + 1) PROVE Turn(f, s) \in V
      OBVIOUS
    <3>1. CASE s = {}
      BY <3>1
    <3>2. CASE s # {}
      <4>1. <<f[s \ {c[s]}], c[s]>> \in V \X S
        BY <2>1, <2>2, <3>2
      <4>2. QED
        BY <3>2, <4>1
    <3>3. QED
      BY <3>1, <3>2
  <2>4. \A s \in Sets(k) : s \in Sets(k + 1) /\ g[s] = f[s]
    <3> SUFFICES ASSUME NEW s \in Sets(k) PROVE s \in Sets(k + 1) /\ g[s] = f[s]
      OBVIOUS
    <3>1. Cardinality(s) \in Nat
      BY FS_Subset, FS_CardinalityType
    <3>2. s \in Sets(k + 1)
      BY <3>1
    <3>3. QED
      BY <2>1, <3>2
  <2>5. \A s \in Sets(k + 1) : g[s] = Turn(g, s)
    <3> SUFFICES ASSUME NEW s \in Sets(k + 1) PROVE Turn(f, s) = Turn(g, s)
      OBVIOUS
    <3>1. QED
      BY <2>2, <2>4
  <2> HIDE DEF g
  <2>6. QED
    BY <2>3, <2>5
<1>3. \A k \in 0..Cardinality(S) : k \in {j \in Nat : Good(j)}
  <2> DEFINE G == {j \in Nat : Good(j)}
  <2> HIDE DEF Good
  <2>1. 0 \in G /\ \A k \in 0..(Cardinality(S) - 1) : k \in G => k + 1 \in G
    BY <1>1, <1>2
  <2> HIDE DEF G
  <2>2. \A k \in 0..Cardinality(S) : k \in G
    BY <2>1, FS_CardinalityType, UpTo
  <2>3. QED
    BY <2>2 DEF G
<1>4. Good(Cardinality(S))
  <2> HIDE DEF Good
  <2>1. QED
    BY <1>3, FS_CardinalityType
<1>5. Sets(Cardinality(S)) = SUBSET S
  BY FS_Subset
<1>6. QED
  BY <1>4, <1>5 DEF FoldOf

\* What a fold unfolds to.
Unfolds(f, n, V, base, h) ==
    /\ f \in [SUBSET (1..n) -> V]
    /\ \A s \in SUBSET (1..n) : f[s] = IF s = {} THEN base ELSE h[<<f[s \ {Max(s)}], Max(s)>>]

\* Something unfolds that way.
Unfoldable(n, V, base, h) == \E f : Unfolds(f, n, V, base, h)

\* A fold over 1..n that takes the greatest element last is well defined.
LEMMA FoldUnfolds ==
    ASSUME NEW n \in Nat, NEW V, NEW base \in V, NEW h, h \in [V \X (1..n) -> V]
    PROVE  Unfoldable(n, V, base, h)
<1> DEFINE c == [s \in SUBSET (1..n) |-> Max(s)]
<1>1. IsFiniteSet(1..n)
  BY FS_Interval
<1>2. \A s \in SUBSET (1..n) : c[s] = Max(s) /\ (s # {} => c[s] \in s)
  BY MaxOfFirst
<1> HIDE DEF c
<1>3. PICK f : FoldOf(f, 1..n, V, base, h, c)
  BY <1>1, <1>2, FoldDefined
<1>4. Unfolds(f, n, V, base, h)
  BY <1>2, <1>3 DEF FoldOf, Unfolds
<1>5. QED
  BY <1>4 DEF Unfoldable

\* What a fold over 1..n in its order returns is the last of a run that starts from base.
RunOf(g, n, V, base, h) ==
    /\ g \in [0..n -> V]
    /\ g[0] = base
    /\ \A k \in 1..n : g[k] = h[<<g[k - 1], k>>]

\* A fold that goes on with h as long as it keeps to V.
FoldsOn(it, n, V, base, h) ==
    /\ it[{}] = base
    /\ \A k \in 1..n : it[1..(k - 1)] \in V => it[1..k] = h[<<it[1..(k - 1)], k>>]

\* What it returns for 1..n is where such a run ends.
Runs(it, n, V, base, h) == \E g : RunOf(g, n, V, base, h) /\ it[1..n] = g[n]

\* A fold that goes on with h follows a run of h.
LEMMA FoldRuns ==
    ASSUME NEW n \in Nat, NEW V, NEW base \in V, NEW h, h \in [V \X (1..n) -> V],
           NEW it, FoldsOn(it, n, V, base, h)
    PROVE  Runs(it, n, V, base, h)
<1> USE DEF FoldsOn
<1> DEFINE G == {k \in 0..n : it[1..k] \in V}
           g == [k \in 0..n |-> it[1..k]]
<1>1. \A k \in 0..n : it[1..k] \in V
  <2>1. 0 \in G
    <3>1. 1..0 = {}
      OBVIOUS
    <3>2. QED
      BY <3>1
  <2>2. \A k \in 0..(n - 1) : k \in G => k + 1 \in G
    <3> SUFFICES ASSUME NEW k \in 0..(n - 1), it[1..k] \in V PROVE it[1..(k + 1)] \in V
      OBVIOUS
    <3>1. k + 1 \in 1..n /\ (k + 1) - 1 = k
      OBVIOUS
    <3>2. <<it[1..k], k + 1>> \in V \X (1..n)
      BY <3>1
    <3>3. it[1..(k + 1)] = h[<<it[1..k], k + 1>>]
      BY <3>1
    <3>4. QED
      BY <3>2, <3>3
  <2>3. \A k \in 0..n : k \in G
    <3> HIDE DEF G
    <3>1. QED
      BY <2>1, <2>2, UpTo
  <2>4. QED
    BY <2>3
<1>2. g \in [0..n -> V]
  BY <1>1
<1>3. g[0] = base
  <2>1. 1..0 = {}
    OBVIOUS
  <2>2. QED
    BY <2>1
<1>4. \A k \in 1..n : g[k] = h[<<g[k - 1], k>>]
  <2> TAKE k \in 1..n
  <2>1. k - 1 \in 0..n /\ k \in 0..n
    OBVIOUS
  <2>2. QED
    BY <1>1, <2>1
<1>5. it[1..n] = g[n]
  OBVIOUS
<1> HIDE DEF g
<1>6. QED
  BY <1>2, <1>3, <1>4, <1>5 DEF RunOf, Runs

-----------------------------------------------------------------------------
(* Steps *)

\* The input is one that was asked for, and stays.
InputInv == \E family \in DOMAIN Inputs : input \in Inputs[family]

\* An evaluation is one step, of the action of its signal.
Evaluated ==
    /\ input' = input /\ answer.error = "pending"
    /\ input.signal = "keyword" => EvaluateKeyword
    /\ input.signal = "structure" => EvaluateStructure
    /\ input.signal = "code" => EvaluateCode
    /\ input.signal = "format" => EvaluateFormat
    /\ input.signal = "tool" => EvaluateTool
    /\ input.signal = "embedding" => EvaluateEmbedding
    /\ input.signal = "complexity" => EvaluateComplexity
    /\ input.signal = "cosine" => CompareVectors
    /\ input.signal = "pii" => ScanPii
    /\ input.signal = "jailbreak" => ScanJailbreak
    /\ input.signal = "request" => Request
    /\ input.signal = "route" => Route

\* A step answers the input, as the action of its signal says, or changes neither.
LEMMA StepEvaluates == [RouterNext]_vars => UNCHANGED <<input, answer>> \/ Evaluated
<1> SUFFICES ASSUME RouterNext PROVE Evaluated
  BY DEF vars
<1> USE DEF Evaluated, Asked, Answer
<1>1. CASE EvaluateKeyword
  BY <1>1 DEF EvaluateKeyword
<1>2. CASE EvaluateStructure
  BY <1>2 DEF EvaluateStructure
<1>3. CASE EvaluateCode
  BY <1>3 DEF EvaluateCode
<1>4. CASE EvaluateFormat
  BY <1>4 DEF EvaluateFormat
<1>5. CASE EvaluateTool
  BY <1>5 DEF EvaluateTool
<1>6. CASE EvaluateEmbedding
  <2>1. answer.error = "pending" /\ input.signal = "embedding" /\ input' = input
    BY <1>6 DEF EvaluateEmbedding
  <2>2. QED
    BY <1>6, <2>1
<1>7. CASE EvaluateComplexity
  BY <1>7 DEF EvaluateComplexity
<1>8. CASE CompareVectors
  BY <1>8 DEF CompareVectors
<1>9. CASE ScanPii
  BY <1>9 DEF ScanPii
<1>10. CASE ScanJailbreak
  BY <1>10 DEF ScanJailbreak
<1>11. CASE Request
  BY <1>11 DEF Request
<1>12. CASE Route
  BY <1>12 DEF Route
<1>13. CASE EvaluateCost \/ EvaluateFeedback \/ EvaluatePreference \/ EvaluateDomain \/ EvaluateToxicity
  BY <1>13 DEF EvaluateCost, EvaluateFeedback, EvaluatePreference, EvaluateDomain, EvaluateToxicity,
               AnswerIfChain
<1>14. CASE EvaluateContext \/ EvaluateLanguage \/ BuildBank \/ ScanCard \/ Tokenize
  BY <1>14 DEF EvaluateContext, EvaluateLanguage, BuildBank, ScanCard, Tokenize
<1>15. QED
  BY <1>1, <1>2, <1>3, <1>4, <1>5, <1>6, <1>7, <1>8, <1>9, <1>10, <1>11, <1>12, <1>13, <1>14
     DEF RouterNext, BindingsNext, Next

\* The first state holds an input that can be asked, without an answer.
LEMMA InitInput == Init => InputInv /\ answer = Pending
  BY DEF Init, InputInv

\* No evaluation changes the input.
LEMMA NextInput == InputInv /\ [RouterNext]_vars => InputInv'
  BY StepEvaluates DEF InputInv, Evaluated

-----------------------------------------------------------------------------
(* EvidenceNeverHurts *)

\* The percentages the confidences are made of, in their order.
LEMMA PercentValues ==
    /\ \A n \in {50, 75, 80, 85, 90, 95, 60} : Percent(n) \in Nat /\ Percent(n) <= Unit
    /\ Percent(50) <= Percent(60) /\ Percent(50) <= Percent(75) /\ Percent(75) <= Percent(80)
    /\ Percent(80) <= Percent(85) /\ Percent(85) <= Percent(90) /\ Percent(90) <= Percent(95)
  BY UnitAssumption DEF Percent

\* The confidence of code is that of the strongest indicator.
CodeStrength(evidence) ==
    IF "fence" \in evidence THEN Percent(90)
    ELSE IF "intent" \in evidence THEN Percent(85)
    ELSE IF "language" \in evidence THEN Percent(80)
    ELSE IF "keyword" \in evidence THEN Percent(50)
    ELSE 0

\* The maximum over the evidence of code is the strength of the strongest indicator.
LEMMA CodeConfidenceIs ==
    ASSUME NEW evidence
    PROVE  CodeConfidence(evidence) = CodeStrength(evidence)
<1> DEFINE K == {k \in evidence : k = "keyword" /\ {"language", "intent"} \cap evidence = {}}
           S == {0} \cup {Percent(90) : e \in evidence \cap {"fence"}}
                    \cup {Percent(80) : e \in evidence \cap {"language"}}
                    \cup {Percent(85) : e \in evidence \cap {"intent"}}
                    \cup {Percent(50) : e \in K}
<1>1. \A x : x \in S <=> \/ x = 0
                         \/ x = Percent(90) /\ "fence" \in evidence
                         \/ x = Percent(80) /\ "language" \in evidence
                         \/ x = Percent(85) /\ "intent" \in evidence
                         \/ x = Percent(50) /\ "keyword" \in evidence
                              /\ "language" \notin evidence /\ "intent" \notin evidence
  OBVIOUS
<1>2. CodeConfidence(evidence) = Max(S)
  BY DEF CodeConfidence
<1> HIDE DEF S
<1>3. /\ S \subseteq Int /\ CodeStrength(evidence) \in S
      /\ \A y \in S : y <= CodeStrength(evidence)
  BY <1>1, PercentValues DEF CodeStrength
<1>4. QED
  BY <1>2, <1>3, MaxIs

\* More indicators of code never lower its confidence.
LEMMA CodeGrows ==
    ASSUME NEW more, NEW evidence \in SUBSET more
    PROVE  CodeConfidence(evidence) <= CodeConfidence(more)
  BY CodeConfidenceIs, PercentValues DEF CodeStrength

\* More evidence of a format never lowers its confidence.
LEMMA FormatGrows ==
    ASSUME NEW more, NEW evidence \in SUBSET more
    PROVE  FormatConfidence(evidence) <= FormatConfidence(more)
  BY PercentValues, UnitAssumption DEF FormatConfidence

\* More evidence of a tool call never lowers its confidence.
LEMMA ToolGrows ==
    ASSUME NEW more, IsFiniteSet(more), NEW evidence \in SUBSET more
    PROVE  ToolConfidence(evidence) <= ToolConfidence(more)
<1>1. /\ Cardinality(evidence) \in Nat /\ Cardinality(more) \in Nat
      /\ Cardinality(evidence) <= Cardinality(more)
  BY FS_Subset, FS_CardinalityType
<1>2. QED
  BY <1>1, PercentValues DEF ToolConfidence, Maximum

\* More matched patterns never lower the confidence of a jailbreak.
LEMMA JailbreakGrows ==
    ASSUME NEW more, IsFiniteSet(more), NEW evidence \in SUBSET more
    PROVE  JailbreakConfidence(evidence) <= JailbreakConfidence(more)
<1> DEFINE confidence(n) == Minimum(Percent(35) + Percent(20) * Minimum(n, 3), Percent(95))
<1>1. /\ Cardinality(evidence) \in Nat /\ Cardinality(more) \in Nat
      /\ Cardinality(evidence) <= Cardinality(more)
  BY FS_Subset, FS_CardinalityType
<1>2. Percent(35) \in Nat /\ Percent(20) \in Nat /\ Percent(95) \in Nat
  BY UnitAssumption DEF Percent
<1>3. \A m, n \in Nat : m <= n => Minimum(m, 3) \in {0, 1, 2, 3} /\ Minimum(n, 3) \in {0, 1, 2, 3}
                                    /\ Minimum(m, 3) <= Minimum(n, 3)
  BY DEF Minimum
<1>4. \A m, n \in Nat : m <= n => confidence(m) <= confidence(n) /\ 0 <= confidence(n)
  <2> TAKE m, n \in Nat
  <2> HAVE m <= n
  <2> DEFINE a == Minimum(m, 3)
             b == Minimum(n, 3)
  <2>1. a \in {0, 1, 2, 3} /\ b \in {0, 1, 2, 3} /\ a <= b
    BY <1>3
  <2> HIDE DEF a, b
  <2>2. Percent(20) * a <= Percent(20) * b /\ 0 <= Percent(20) * b /\ Percent(20) * a \in Int /\ Percent(20) * b \in Int
    BY <1>2, <2>1
  <2>3. Minimum(Percent(35) + Percent(20) * a, Percent(95)) <= Minimum(Percent(35) + Percent(20) * b, Percent(95))
    BY <1>2, <2>2 DEF Minimum
  <2>4. 0 <= Minimum(Percent(35) + Percent(20) * b, Percent(95))
    BY <1>2, <2>2 DEF Minimum
  <2>5. QED
    BY <2>3, <2>4 DEF a, b
<1>5. JailbreakConfidence(evidence) = (IF evidence = {} THEN 0 ELSE confidence(Cardinality(evidence)))
      /\ JailbreakConfidence(more) = (IF more = {} THEN 0 ELSE confidence(Cardinality(more)))
  BY DEF JailbreakConfidence
<1> HIDE DEF confidence
<1>6. QED
  BY <1>1, <1>4, <1>5

\* No evaluation answers with more than further evidence would give.
LEMMA EvidenceStep ==
    ASSUME InputInv, EvidenceNeverHurts, [RouterNext]_vars
    PROVE  EvidenceNeverHurts'
<1>1. CASE UNCHANGED <<input, answer>>
  BY <1>1 DEF EvidenceNeverHurts
<1>2. CASE Evaluated
  <2> SUFFICES ASSUME input.signal \in DOMAIN Evidence,
                      NEW more \in SUBSET Evidence[input.signal], input.evidence \subseteq more
               PROVE  answer'.confidence <= ConfidenceOf(input.signal, more)
    BY <1>2 DEF EvidenceNeverHurts, Evaluated
  <2>1. input.signal \in {"code", "format", "tool", "jailbreak"}
    BY DEF Evidence
  <2>2. answer'.confidence = ConfidenceOf(input.signal, input.evidence)
    BY <1>2, <2>1 DEF Evaluated, EvaluateCode, EvaluateFormat, EvaluateTool, ScanJailbreak,
                      Answer, Result, ConfidenceOf
  <2>3. IsFiniteSet(Evidence[input.signal])
    <3>1. IsFiniteSet(CodeEvidence) /\ IsFiniteSet(FormatEvidence)
          /\ IsFiniteSet(ToolEvidence) /\ IsFiniteSet(JailbreakEvidence)
      <4>1. \A a, b, c, d, e : IsFiniteSet({a, b}) /\ IsFiniteSet({a, b, c, d})
                                  /\ IsFiniteSet({a, b, c, d, e})
        <5> TAKE a, b, c, d, e
        <5>1. IsFiniteSet({a})
          BY FS_Singleton
        <5>2. IsFiniteSet({a} \cup {b})
          BY <5>1, FS_AddElement
        <5>3. IsFiniteSet({a, b} \cup {c})
          BY <5>2, FS_AddElement
        <5>4. IsFiniteSet({a, b, c} \cup {d})
          BY <5>3, FS_AddElement
        <5>5. IsFiniteSet({a, b, c, d} \cup {e})
          BY <5>4, FS_AddElement
        <5>6. QED
          BY <5>2, <5>4, <5>5
      <4>2. QED
        BY <4>1 DEF CodeEvidence, FormatEvidence, ToolEvidence, JailbreakEvidence
    <3>2. QED
      BY <2>1, <3>1 DEF Evidence
  <2>4. IsFiniteSet(more)
    BY <2>3, FS_Subset
  <2>5. ConfidenceOf(input.signal, input.evidence) <= ConfidenceOf(input.signal, more)
    BY <2>1, <2>4, CodeGrows, FormatGrows, ToolGrows, JailbreakGrows DEF ConfidenceOf
  <2>6. QED
    BY <2>2, <2>5
<1>3. QED
  BY <1>1, <1>2, StepEvaluates

\* EvidenceNeverHurts: the evaluators of code, format, tool calls and jailbreaks answer with no more
\* confidence than any superset of the evidence gives.
THEOREM EvidenceGrows == RouterSpec => []EvidenceNeverHurts
<1>1. Init => InputInv /\ EvidenceNeverHurts
  BY InitInput DEF EvidenceNeverHurts, Pending
<1>2. QED
  BY <1>1, EvidenceStep, NextInput, PTL DEF RouterSpec

-----------------------------------------------------------------------------
(* FailoverKeepsWidth *)

\* The banks of an evaluation are those a constructor returned.
BanksOf(i) == IF i.signal = "complexity" THEN {i.hard, i.easy} ELSE {rule.bank : rule \in ToSet(i.rules)}

\* What the input of an embedding or a complexity evaluation is made of.
Banked ==
    input.signal \in {"embedding", "complexity"} =>
        /\ IsChain(input.engines)
        /\ \A bank \in BanksOf(input) : IsBank(bank)
        /\ input.signal = "embedding" => IsASequence(input.rules)

\* The inputs that can be asked are made of that.
LEMMA InputBanked == InputInv => Banked
<1> SUFFICES ASSUME InputInv PROVE Banked
  OBVIOUS
<1>1. CASE input.signal = "embedding"
  <2>1. /\ IsChain(input.engines) /\ IsASequence(input.rules)
        /\ \A rule \in ToSet(input.rules) : IsBank(rule.bank)
    BY <1>1, InputsAssumption DEF InputInv
  <2>2. QED
    BY <1>1, <2>1 DEF Banked, BanksOf
<1>2. CASE input.signal = "complexity"
  <2>1. IsChain(input.engines) /\ IsBank(input.hard) /\ IsBank(input.easy)
    BY <1>2, InputsAssumption DEF InputInv
  <2>2. QED
    BY <1>2, <2>1 DEF Banked, BanksOf
<1>3. QED
  BY <1>1, <1>2 DEF Banked

\* A bank holds a prototype, and all of them have the width of the first and a weight.
LEMMA BankIs ==
    ASSUME NEW bank, IsBank(bank)
    PROVE  /\ \A i \in DOMAIN bank.widths : bank.widths[i] = bank.widths[1]
           /\ Len(bank.weights) \in Nat \ {0} /\ DOMAIN bank.weights = 1..Len(bank.weights)
           /\ \A i \in 1..Len(bank.weights) : bank.weights[i] \in Nat
           /\ bank.best \in 0..4
<1> DEFINE n == Len(bank.widths)
           bad == {i \in 1..n : bank.widths[i] # bank.widths[1] \/ bank.weights[i] < 0}
           matching == Len(bank.weights) = n /\ bank.best \in 0..4
<1>1. n \in Nat /\ DOMAIN bank.widths = 1..n
  BY DEF IsBank
<1>2. NewBank(bank) = CASE n = 0 -> "Empty"
          [] n > 0 /\ ~matching -> "InvalidWeight"
          [] n > 0 /\ matching ->
                IF bank.widths[1] = 0 THEN "Empty"
                ELSE IF bad = {} THEN "none"
                ELSE IF bank.widths[Min(bad)] # bank.widths[1] THEN "DimensionMismatch"
                ELSE "InvalidWeight"
  BY Zenon DEF NewBank
<1>3. NewBank(bank) = "none"
  BY DEF IsBank
<1> HIDE DEF bad, matching
<1>4. bad = {} /\ n > 0 /\ matching
  <2>1. CASE n = 0
    BY <1>2, <1>3, <2>1
  <2>2. CASE n > 0 /\ ~matching
    BY <1>2, <1>3, <2>2
  <2>3. CASE n > 0 /\ matching
    BY <1>2, <1>3, <2>3
  <2>4. QED
    BY <1>1, <2>1, <2>2, <2>3
<1>5. \A i \in 1..n : bank.widths[i] = bank.widths[1] /\ ~(bank.weights[i] < 0)
  BY <1>4 DEF bad
<1>6. Len(bank.weights) = n /\ bank.best \in 0..4
  BY <1>4 DEF matching
<1>7. DOMAIN bank.weights = 1..n /\ \A i \in 1..n : bank.weights[i] \in Int
  BY <1>6 DEF IsBank
<1> HIDE DEF n
<1>8. QED
  BY <1>1, <1>4, <1>5, <1>6, <1>7

\* An engine answers unless each one fails.
LEMMA AnsweringIs ==
    ASSUME NEW engines, IsChain(engines)
    PROVE  /\ Answering(engines) \in {0} \cup DOMAIN engines
           /\ Answering(engines) = 0 => \A i \in DOMAIN engines : engines[i].fails
           /\ 0 \notin DOMAIN engines
<1> DEFINE alive == {i \in DOMAIN engines : ~engines[i].fails}
<1>1. alive \subseteq DOMAIN engines /\ DOMAIN engines \subseteq Nat /\ 0 \notin DOMAIN engines
      /\ \A i \in DOMAIN engines : engines[i].fails \in BOOLEAN
  <2>1. /\ engines \in [1..Len(engines) -> [fails : BOOLEAN, width : Nat]]
        /\ Len(engines) \in Nat /\ DOMAIN engines = 1..Len(engines)
    BY LenProperties DEF IsChain
  <2>2. QED
    BY <2>1
<1>2. Answering(engines) = IF alive = {} THEN 0 ELSE Min(alive)
  BY DEF Answering
<1>3. alive # {} => Min(alive) \in alive
  <2> HIDE DEF alive
  <2>1. QED
    BY <1>1, MinIsLeast
<1>4. QED
  BY <1>1, <1>2, <1>3

\* No evaluation against banks panics, or fails though a live engine of the right width is there.
LEMMA FailoverStep ==
    ASSUME InputInv, FailoverKeepsWidth, [RouterNext]_vars
    PROVE  FailoverKeepsWidth'
<1>1. CASE UNCHANGED <<input, answer>>
  BY <1>1 DEF FailoverKeepsWidth
<1>2. CASE Evaluated
  <2> DEFINE engines == input.engines
             winner == Answering(engines)
             width == engines[winner].width
             fit == Validated(engines) /\ \A bank \in BanksOf(input) : bank.widths[1] = engines[1].width
             failed == answer'.error \in {"Inference", "Internal"}
  <2> SUFFICES ASSUME input.signal \in {"embedding", "complexity"}
               PROVE  /\ answer'.error # "Panic"
                      /\ fit /\ failed => winner = 0
    <3>1. input.signal \in {"embedding", "complexity"} => IsChain(engines)
      BY InputBanked DEF Banked
    <3>2. input' = input
      BY <1>2 DEF Evaluated
    <3>3. SUFFICES ASSUME input.signal \in {"embedding", "complexity"}
                   PROVE  /\ answer'.error # "Panic"
                          /\ fit /\ failed => \A i \in DOMAIN engines : engines[i].fails
      <4>1. BanksOf(input) = IF input.signal = "complexity" THEN {input.hard, input.easy}
                             ELSE {rule.bank : rule \in ToSet(input.rules)}
        BY DEF BanksOf
      <4> HIDE DEF fit, failed, engines
      <4>2. QED
        BY <3>2, <4>1 DEF FailoverKeepsWidth, fit, failed, engines
    <3>4. QED
      BY <3>1, <3>3, AnsweringIs
  <2>1. /\ IsChain(engines) /\ winner \in {0} \cup DOMAIN engines
        /\ \A bank \in BanksOf(input) : IsBank(bank)
    BY InputBanked, AnsweringIs DEF Banked
  <2>2. \A bank \in BanksOf(input) :
            /\ Obstacle(bank, width) \in {"none", "DimensionMismatch"}
            /\ fit /\ winner # 0 => Obstacle(bank, width) = "none"
    <3> TAKE bank \in BanksOf(input)
    <3>1. \A i \in DOMAIN bank.widths : bank.widths[i] = bank.widths[1]
      BY <2>1, BankIs
    <3>2. fit /\ winner # 0 => width = bank.widths[1]
      BY <2>1 DEF Validated
    <3>3. QED
      BY <3>1, <3>2 DEF Obstacle
  <2>3. \A e : Failure(e).error = e /\ \A c, l : Result(c, l).error = "none"
    BY DEF Failure, Pending, Result
  <2>4. CASE input.signal = "complexity"
    <3> DEFINE obstacles == {Obstacle(bank, width) : bank \in BanksOf(input)}
    <3>1. EvaluateComplexity /\ BanksOf(input) = {input.hard, input.easy}
      BY <1>2, <2>4 DEF Evaluated, BanksOf
    <3>2. \/ answer'.error = "Inference" /\ (winner = 0 \/ "DimensionMismatch" \in obstacles)
          \/ answer'.error = "Panic" /\ "Panic" \in obstacles
          \/ answer'.error = "none"
      BY <2>3, <3>1 DEF EvaluateComplexity, Answer
    <3>3. QED
      BY <2>2, <3>2
  <2>5. CASE input.signal = "embedding"
    <3> DEFINE rules == input.rules
               obstacle(i) == Obstacle(rules[i].bank, width)
               score == [i \in DOMAIN rules |-> BankScore(rules[i].bank)]
               ends == {i \in DOMAIN rules : obstacle(i) # "none" \/ score[i] >= rules[i].threshold}
    <3>1. EvaluateEmbedding
      BY <1>2, <2>5 DEF Evaluated
    <3>2. \/ answer'.error = "InvalidInput"
          \/ answer'.error = "Inference" /\ winner = 0
          \/ winner # 0 /\ answer'.error = "none"
          \/ /\ winner # 0 /\ ends # {}
             /\ answer' = CASE obstacle(Min(ends)) = "DimensionMismatch" -> Failure("Internal")
                            [] obstacle(Min(ends)) = "Panic" -> Failure("Panic")
                            [] obstacle(Min(ends)) = "none" -> Result(score[Min(ends)], <<Min(ends)>>)
      <4> DEFINE result == CASE obstacle(Min(ends)) = "DimensionMismatch" -> Failure("Internal")
                             [] obstacle(Min(ends)) = "Panic" -> Failure("Panic")
                             [] obstacle(Min(ends)) = "none" -> Result(score[Min(ends)], <<Min(ends)>>)
      <4>1. \/ answer' = Failure("InvalidInput")
            \/ answer' = Failure("Inference") /\ winner = 0
            \/ winner # 0 /\ ends = {} /\ \E c, l : answer' = Result(c, l)
            \/ winner # 0 /\ ends # {} /\ answer' = result
        <5>1. CASE input.empty
          BY <3>1, <5>1, Zenon DEF EvaluateEmbedding, Answer
        <5>2. CASE ~input.empty /\ winner = 0
          BY <3>1, <5>2, Zenon DEF EvaluateEmbedding, Answer
        <5>3. CASE ~input.empty /\ winner # 0 /\ ends = {}
          <6> DEFINE ranked == {order \in [DOMAIN rules -> DOMAIN rules] :
                                   \A i, j \in DOMAIN rules :
                                       i < j => order[i] # order[j] /\ score[order[i]] >= score[order[j]]}
                     k == IF rules = <<>> THEN 0
                          ELSE Minimum(Max({rules[i].top : i \in DOMAIN rules}), Len(rules))
          <6>1. \E order \in ranked :
                    answer' = Result(IF rules = <<>> THEN 0 ELSE score[order[1]], SubSeq(order, 1, k))
            BY <3>1, <5>3, Zenon DEF EvaluateEmbedding, Answer
          <6> HIDE DEF ranked, k, score
          <6>2. QED
            BY <5>3, <6>1, Zenon
        <5>4. CASE ~input.empty /\ winner # 0 /\ ends # {}
          BY <3>1, <5>4, Zenon DEF EvaluateEmbedding, Answer
        <5>5. QED
          BY <5>1, <5>2, <5>3, <5>4
      <4> HIDE DEF result, ends, winner, obstacle, score
      <4>2. CASE winner # 0 /\ ends # {} /\ answer' = result
        BY <4>2, Zenon DEF result
      <4>3. CASE ~(winner # 0 /\ ends # {} /\ answer' = result)
        BY <2>3, <4>1, <4>3
      <4>4. QED
        BY <4>2, <4>3
    <3>3. ends # {} => obstacle(Min(ends)) \in {"none", "DimensionMismatch"}
                          /\ (fit /\ winner # 0 => obstacle(Min(ends)) = "none")
      <4>1. ends \subseteq DOMAIN rules /\ DOMAIN rules = 1..Len(rules) /\ Len(rules) \in Nat
        BY <2>5, InputBanked DEF Banked, IsASequence
      <4> HIDE DEF ends
      <4>2. ends # {} => Min(ends) \in DOMAIN rules
        BY <4>1, MinIsLeast
      <4>3. \A i \in DOMAIN rules : rules[i].bank \in BanksOf(input)
        BY <2>5 DEF BanksOf, ToSet
      <4>4. QED
        BY <2>2, <4>2, <4>3
    <3> HIDE DEF ends, obstacle, winner, fit
    <3>4. CASE winner # 0 /\ ends # {} /\ obstacle(Min(ends)) = "none" /\ answer' = Result(score[Min(ends)], <<Min(ends)>>)
      BY <2>3, <3>4
    <3>5. CASE winner # 0 /\ ends # {} /\ obstacle(Min(ends)) = "DimensionMismatch" /\ answer' = Failure("Internal")
      BY <2>3, <3>3, <3>5
    <3>6. QED
      BY <3>2, <3>3, <3>4, <3>5
  <2>6. QED
    BY <2>4, <2>5
<1>3. QED
  BY <1>1, <1>2, StepEvaluates

\* FailoverKeepsWidth: with a validated chain, an embedding or a complexity evaluation fails only when no
\* engine answers, and it never compares vectors of different widths.
THEOREM FailoverIsFit == RouterSpec => []FailoverKeepsWidth
<1>1. Init => InputInv /\ FailoverKeepsWidth
  BY InitInput DEF FailoverKeepsWidth, Pending
<1>2. QED
  BY <1>1, FailoverStep, NextInput, PTL DEF RouterSpec

-----------------------------------------------------------------------------
(* NeverSilent and BindingsAgree *)

\* The settings and the context of a request are of their types.
Requested ==
    input.signal = "request" =>
        /\ input.client \in Clients /\ input.settings \in SomeSettings /\ input.context \in Contexts
        /\ CanAsk(input.client, input.settings, input.context)

\* The inputs that can be asked are of those types.
LEMMA InputRequested == InputInv => Requested
  BY RequestsAssumption DEF InputInv, Requested

\* A request is answered only by an engine.
LEMMA OutcomeIs ==
    ASSUME NEW client, NEW s, NEW ctx
    PROVE  /\ Engine(client, s) = Refused => Outcome(client, s, ctx) = Failure("Refused")
           /\ Engine(client, s) = Crashed => Outcome(client, s, ctx) = Failure("Crashed")
           /\ Engine(client, s) \notin {Refused, Crashed} => Outcome(client, s, ctx) = Evaluation(client, ctx)
<1>1. Refused # Crashed
  BY DEF Refused, Crashed
<1> HIDE DEF Refused, Crashed
<1>2. QED
  BY <1>1 DEF Outcome

\* A client that answers without a result has been told that it cannot be read.
LEMMA SilentClient ==
    ASSUME NEW client \in Clients, NEW s \in SomeSettings, NEW ctx \in Contexts,
           CanAsk(client, s, ctx),
           Outcome(client, s, ctx).error = "none", Outcome(client, s, ctx).labels = <<>>
    PROVE  client = "go" /\ ctx.config = "deep"
<1>1. Outcome(client, s, ctx) = Evaluation(client, ctx)
  <2>1. Failure("Refused").error # "none" /\ Failure("Crashed").error # "none"
    BY DEF Failure, Pending
  <2>2. QED
    BY <2>1, OutcomeIs
<1>2. NoSignals.error = "none" /\ NoSignals.labels # <<>> /\ ErrorEnvelope.error = "Envelope"
      /\ \A e : Failure(e).error = e
  BY DEF NoSignals, ErrorEnvelope, Result, Failure, Pending
<1>3. NoSignals # ErrorEnvelope /\ Failure("Evaluate") # ErrorEnvelope
  BY <1>2
<1>4. client = "go"
  <2>1. \A x : FfiEvaluate(x) = NoSignals \/ FfiEvaluate(x) = ErrorEnvelope
    BY DEF FfiEvaluate
  <2>2. \A x : WasmEvaluate(x) = NoSignals \/ WasmEvaluate(x) = Failure("Evaluate")
    BY DEF WasmEvaluate
  <2>3. client # "c"
    BY <1>1, <1>2, <2>1 DEF Evaluation
  <2>4. client # "js" /\ client # "ts"
    BY <1>1, <1>2, <2>2 DEF Evaluation, TsResult
  <2>5. client # "php"
    BY <1>1, <1>2, <2>1 DEF Evaluation, PhpResult, PhpEvaluate
  <2>6. client # "python"
    BY <1>1, <1>2 DEF Evaluation, PyEvaluate
  <2>7. client # "rust"
    BY <1>1, <1>2 DEF Evaluation, SdkEvaluate
  <2>8. QED
    BY <2>3, <2>4, <2>5, <2>6, <2>7 DEF Clients
<1>5. ctx.config = "deep"
  <2> DEFINE sent == [c \in DOMAIN ctx |-> IF ctx[c] \in {"null", "absent"} THEN "empty" ELSE ctx[c]]
  <2>1. ctx.config # "unwritable" /\ FfiEvaluate(sent) = ErrorEnvelope
    BY <1>1, <1>2, <1>3, <1>4 DEF Evaluation, GoResult, GoEvaluate, FfiEvaluate
  <2>2. ~ReadableJson(sent)
    BY <1>3, <2>1 DEF FfiEvaluate
  <2>3. ctx.text = "given" /\ \A c \in Collections : ctx[c] # "wrong"
    BY <1>4 DEF CanAsk, Untyped, Contexts, Collections
  <2>4. DOMAIN ctx = {"text", "history", "headers", "config"}
    BY DEF Contexts
  <2>5. sent.text = "given" /\ \A c \in Collections : sent[c] \in {"empty", ctx[c]}
    BY <2>3, <2>4 DEF Collections
  <2>6. PICK c \in Collections : ctx[c] = "deep"
    BY <2>2, <2>3, <2>5 DEF ReadableJson, Readable
  <2>7. QED
    BY <2>6 DEF Collections, Contexts
<1>6. QED
  BY <1>4, <1>5

\* Only a Go client with a context too deep to parse is answered with nothing.
LEMMA SilentStep ==
    ASSUME InputInv, NeverSilent, [RouterNext]_vars
    PROVE  NeverSilent'
<1>1. CASE UNCHANGED <<input, answer>>
  BY <1>1 DEF NeverSilent
<1>2. CASE Evaluated
  <2> SUFFICES ASSUME input.signal = "request", answer'.error = "none", answer'.labels = <<>>
               PROVE  input.client = "go" /\ input.context.config = "deep"
    BY <1>2 DEF NeverSilent, Evaluated
  <2>1. answer' = Outcome(input.client, input.settings, input.context)
    BY <1>2 DEF Evaluated, Request, Answer
  <2>2. QED
    BY <2>1, InputRequested, SilentClient DEF Requested
<1>3. QED
  BY <1>1, <1>2, StepEvaluates

\* NeverSilent, of every request a client can make.
THEOREM NeverSilentHolds == RouterSpec => []NeverSilent
<1>1. Init => InputInv /\ NeverSilent
  BY InitInput DEF NeverSilent, Pending
<1>2. QED
  BY <1>1, SilentStep, NextInput, PTL DEF RouterSpec

\* The engine the settings ask for.
EngineMeant(s) ==
    IF s.whole = "object" THEN FromSettings(s, 8, 10000, NativePermits) ELSE Refused

\* Every client that conveys the settings builds that engine.
LEMMA EngineIsMeant ==
    ASSUME NEW client \in Clients, NEW s \in SomeSettings, NEW ctx \in Contexts,
           CanAsk(client, s, ctx), Conveys(client, s, ctx), s.whole # "null"
    PROVE  Engine(client, s) = EngineMeant(s)
<1> USE DEF Absent, Wrong
<1>1. /\ s.whole \in {"object", "garbage"}
      /\ s.concurrency \in Nat \cup {Absent, Wrong} /\ s.timeout \in Nat \cup {Absent, Wrong}
      /\ s = [whole |-> s.whole, concurrency |-> s.concurrency, timeout |-> s.timeout]
  BY DEF SomeSettings
<1>2. CASE client \in {"c", "js", "ts"}
  <2>1. CASE client = "c"
    BY <1>1, <2>1 DEF Engine, FfiNew, FfiConfig, EngineMeant
  <2>2. CASE client \in {"js", "ts"}
    <3>1. /\ s.concurrency <= WasmPermits /\ WasmPermits \in Nat /\ WasmUsize \in Nat
          /\ NativePermits \in Nat /\ 8 <= WasmPermits
          /\ WasmPermits < WasmUsize /\ WasmPermits < NativePermits
      BY <2>2, PermitsAssumption DEF Conveys
    <3>2. ~(s.concurrency > WasmUsize)
      BY <1>1, <3>1
    <3>3. ~(Setting(s.concurrency, 8) > WasmPermits) /\ ~(Setting(s.concurrency, 8) > NativePermits)
      BY <1>1, <3>1 DEF Setting
    <3>4. WasmConfig(s) = FromSettings(s, 8, 10000, NativePermits)
      <4> DEFINE c == Setting(s.concurrency, 8)
                 t == Setting(s.timeout, 10000)
      <4>1. NewPipeline(c, t, WasmPermits) = NewPipeline(c, t, NativePermits)
        BY <3>3 DEF NewPipeline
      <4>2. WasmConfig(s) = FromSettings(s, 8, 10000, WasmPermits)
        BY <3>2 DEF WasmConfig
      <4> HIDE DEF c, t
      <4>3. QED
        BY <4>1, <4>2 DEF FromSettings, c, t
    <3>5. WasmNew(s) = EngineMeant(s)
      <4>1. CASE s.whole = "object"
        BY <3>4, <4>1 DEF WasmNew, EngineMeant
      <4>2. CASE s.whole = "garbage"
        BY <4>2 DEF WasmNew, EngineMeant
      <4>3. QED
        BY <1>1, <4>1, <4>2
    <3>6. TsNew(s) = WasmNew(s)
      BY DEF TsNew
    <3>7. QED
      BY <2>2, <3>5, <3>6 DEF Engine
  <2>3. QED
    BY <1>2, <2>1, <2>2
<1>3. CASE client \notin {"c", "js", "ts"}
  <2>1. s.whole = "object"
    BY <1>1, <1>3 DEF CanAsk, Untyped
  <2>2. CASE client = "go"
    <3>1. s.concurrency # Absent /\ s.timeout # Absent /\ ~(s.timeout > 0 /\ s.timeout % 2 = 1)
      BY <2>2 DEF Conveys
    <3>2. s.timeout > 0 => 2 * (s.timeout \div 2) = s.timeout
      BY <1>1, <3>1
    <3>3. [s EXCEPT !.concurrency = Setting(@, 0),
                    !.timeout = IF @ > 0 THEN 2 * (@ \div 2) ELSE Setting(@, 0)] = s
      BY <1>1, <3>1, <3>2 DEF Setting, SomeSettings
    <3>4. QED
      BY <2>1, <2>2, <3>3 DEF Engine, GoNew, FfiNew, FfiConfig, EngineMeant
  <2>3. CASE client = "php"
    <3> DEFINE filled == [s EXCEPT !.concurrency = Setting(@, 8), !.timeout = Setting(@, 10000)]
    <3>1. /\ filled.whole = s.whole /\ filled.concurrency = Setting(s.concurrency, 8)
          /\ filled.timeout = Setting(s.timeout, 10000)
      BY DEF SomeSettings
    <3> HIDE DEF filled
    <3>2. FromSettings(filled, 8, 10000, NativePermits) = FromSettings(s, 8, 10000, NativePermits)
      BY <1>1, <3>1 DEF FromSettings, Setting
    <3>3. Engine(client, s) = FfiNew(filled)
      BY <2>3 DEF Engine, PhpNew, filled
    <3>4. QED
      BY <2>1, <3>1, <3>2, <3>3 DEF FfiNew, FfiConfig, EngineMeant
  <2>4. CASE client = "python"
    BY <2>1, <2>4 DEF Engine, PyNew, EngineMeant
  <2>5. CASE client = "rust"
    <3>1. s.concurrency # Wrong /\ s.timeout # Wrong
      BY <2>5 DEF CanAsk
    <3>2. QED
      BY <2>1, <2>5, <3>1 DEF Engine, SdkNew, FromSettings, EngineMeant
  <2>6. QED
    BY <1>3, <2>2, <2>3, <2>4, <2>5 DEF Clients
<1>4. QED
  BY <1>2, <1>3

\* Every client gets an answer for exactly the contexts that it can read.
LEMMA AnswerIsMeant ==
    ASSUME NEW client \in Clients, NEW s \in SomeSettings, NEW ctx \in Contexts,
           CanAsk(client, s, ctx), Conveys(client, s, ctx), ctx.config # "deep"
    PROVE  Evaluation(client, ctx).error = "none" <=> Readable(ctx, {"wrong", "unwritable"})
<1>1. /\ NoSignals.error = "none" /\ ErrorEnvelope.error = "Envelope"
      /\ \A e : Failure(e).error = e /\ \A l : Result(0, l).error = "none"
  BY DEF NoSignals, ErrorEnvelope, Result, Failure, Pending
<1>2. /\ DOMAIN ctx = {"text", "history", "headers", "config"}
      /\ ctx.history # "deep" /\ ctx.headers # "deep"
      /\ ctx.history # "unwritable" /\ ctx.headers # "unwritable"
  BY DEF Contexts
<1>3. CASE client = "c"
  <2>1. \A c \in Collections : ctx[c] # "unwritable"
    BY <1>3 DEF CanAsk
  <2>2. QED
    BY <1>1, <1>2, <1>3, <2>1
       DEF Evaluation, FfiEvaluate, ReadableJson, Readable, Collections
<1>4. CASE client \in {"js", "ts"}
  BY <1>1, <1>4 DEF Evaluation, WasmEvaluate, TsResult
<1>5. CASE client \notin Untyped
  <2>1. ctx.text = "given"
    BY <1>5 DEF CanAsk, Untyped
  <2>2. Readable(ctx, {"wrong", "unwritable"}) <=>
            /\ ctx.history # "wrong" /\ ctx.headers # "wrong"
            /\ ctx.config \notin {"wrong", "unwritable"}
    BY <1>2, <2>1 DEF Readable, Collections
  <2>3. /\ client \notin {"python", "php"} => ctx.history # "wrong" /\ ctx.headers # "wrong"
        /\ client # "python" => ctx.config # "wrong"
    BY <1>5 DEF CanAsk, Untyped, Collections
  <2>4. client \in {"python", "rust"} => ctx.config # "unwritable"
    BY DEF CanAsk, Collections
  <2>5. CASE client = "go"
    <3> DEFINE sent == [c \in DOMAIN ctx |-> IF ctx[c] \in {"null", "absent"} THEN "empty" ELSE ctx[c]]
    <3>1. /\ sent.text = "given"
          /\ sent.history \notin {"wrong", "deep"} /\ sent.headers \notin {"wrong", "deep"}
          /\ sent.config \notin {"wrong", "deep"}
      BY <1>2, <2>1, <2>3, <2>5
    <3>2. ReadableJson(sent)
      BY <3>1 DEF ReadableJson, Readable, Collections
    <3>3. ctx.config # "unwritable" => Evaluation(client, ctx) = GoResult(NoSignals)
      BY <2>5, <3>2 DEF Evaluation, GoEvaluate, FfiEvaluate
    <3>4. ctx.config = "unwritable" => Evaluation(client, ctx) = GoResult(Failure("Evaluate"))
      BY <2>5 DEF Evaluation, GoEvaluate
    <3>5. Failure("Evaluate") # ErrorEnvelope
      BY <1>1
    <3>6. QED
      BY <1>1, <2>2, <2>3, <2>5, <3>3, <3>4, <3>5 DEF GoResult
  <2>6. CASE client = "php"
    <3> DEFINE sent == ToFfiJson(ctx)
    <3>1. ctx.headers # "numbered" /\ ctx.config # "numbered" /\ ctx.history # "numbered"
      BY <2>6 DEF Conveys, Contexts
    <3>2. \A c \in {"text", "history", "headers", "config"} :
              ctx[c] # "numbered" => sent[c] = ctx[c] \/ (sent[c] = "empty" /\ ctx[c] \in {"empty", "absent"})
      BY <1>2, Zenon DEF ToFfiJson
    <3>3. /\ sent.text = "given"
          /\ sent.history = ctx.history \/ (sent.history = "empty" /\ ctx.history \in {"empty", "absent"})
          /\ sent.headers = ctx.headers \/ (sent.headers = "empty" /\ ctx.headers \in {"empty", "absent"})
          /\ sent.config = ctx.config \/ (sent.config = "empty" /\ ctx.config \in {"empty", "absent"})
      BY <2>1, <3>1, <3>2
    <3> HIDE DEF sent
    <3>4. ReadableJson(sent) <=> ctx.history # "wrong" /\ ctx.headers # "wrong"
      BY <1>2, <2>3, <2>6, <3>3 DEF ReadableJson, Readable, Collections
    <3>5. ctx.config # "unwritable" => Evaluation(client, ctx) = PhpResult(FfiEvaluate(sent))
      BY <2>6 DEF Evaluation, PhpEvaluate, sent
    <3>6. ctx.config = "unwritable" => Evaluation(client, ctx) = PhpResult(Failure("Evaluate"))
      BY <2>6 DEF Evaluation, PhpEvaluate
    <3>7. Failure("Evaluate") # ErrorEnvelope /\ NoSignals # ErrorEnvelope
      BY <1>1
    <3>8. QED
      BY <1>1, <2>2, <2>3, <2>6, <3>4, <3>5, <3>6, <3>7 DEF PhpResult, FfiEvaluate
  <2>7. CASE client = "python"
    <3>1. ReadableJson(ctx) <=> Readable(ctx, {"wrong", "unwritable"})
      BY <1>2, <2>1, <2>2, <2>4, <2>7 DEF ReadableJson, Readable, Collections
    <3>2. ctx.config # "null"
      BY <2>7 DEF Conveys
    <3>3. QED
      BY <1>1, <2>7, <3>1, <3>2 DEF Evaluation, PyEvaluate
  <2>8. CASE client = "rust"
    BY <1>1, <2>2, <2>3, <2>4, <2>8 DEF Evaluation, SdkEvaluate
  <2>9. QED
    BY <1>5, <2>5, <2>6, <2>7, <2>8 DEF Clients, Untyped
<1>6. QED
  BY <1>3, <1>4, <1>5 DEF Untyped

\* No two clients that can make the request get different engines or answers.
LEMMA AgreeStep ==
    ASSUME InputInv, BindingsAgree, [RouterNext]_vars
    PROVE  BindingsAgree'
<1>1. CASE UNCHANGED <<input, answer>>
  BY <1>1 DEF BindingsAgree
<1>2. CASE Evaluated
  <2> DEFINE s == input.settings
             ctx == input.context
  <2> SUFFICES ASSUME input.signal = "request", NEW other \in Clients,
                      \A client \in {input.client, other} : Conveys(client, s, ctx),
                      CanAsk(other, s, ctx), s.whole # "null", ctx.config # "deep"
               PROVE  /\ Engine(other, s) = Engine(input.client, s)
                      /\ (Outcome(other, s, ctx).error = "none") = (answer'.error = "none")
    BY <1>2 DEF BindingsAgree, Evaluated
  <2>1. answer' = Outcome(input.client, s, ctx)
    BY <1>2 DEF Evaluated, Request, Answer
  <2>2. /\ input.client \in Clients /\ s \in SomeSettings /\ ctx \in Contexts
        /\ CanAsk(input.client, s, ctx)
    BY InputRequested DEF Requested
  <2> HIDE DEF s, ctx
  <2>3. Engine(other, s) = EngineMeant(s) /\ Engine(input.client, s) = EngineMeant(s)
    BY <2>2, EngineIsMeant
  <2>4. /\ Evaluation(other, ctx).error = "none" <=> Readable(ctx, {"wrong", "unwritable"})
        /\ Evaluation(input.client, ctx).error = "none" <=> Readable(ctx, {"wrong", "unwritable"})
    BY <2>2, AnswerIsMeant
  <2>5. (Outcome(other, s, ctx).error = "none") <=> (Outcome(input.client, s, ctx).error = "none")
    <3>1. Failure("Refused").error # "none" /\ Failure("Crashed").error # "none"
      BY DEF Failure, Pending
    <3>2. QED
      BY <2>3, <2>4, <3>1, OutcomeIs
  <2>6. QED
    BY <2>1, <2>3, <2>5
<1>3. QED
  BY <1>1, <1>2, StepEvaluates

\* BindingsAgree, for every request and any two clients that can make it.
THEOREM BindingsDoAgree == RouterSpec => []BindingsAgree
<1>1. Init => InputInv /\ BindingsAgree
  BY InitInput DEF BindingsAgree, Pending
<1>2. QED
  BY <1>1, AgreeStep, NextInput, PTL DEF RouterSpec

-----------------------------------------------------------------------------
(* SequenceFound *)

\* How the search for the patterns of a sequence can stand.
Outcomes == {"passes", "fails", "error"}
\* What a search holds, and the first.
Searches == [start : Nat, outcome : Outcomes]
FirstSearch == [start |-> 0, outcome |-> "passes"]

\* SearchSequence is the last of a run of searches.
SearchesBy(text, patterns, n, h) ==
    \E g : RunOf(g, n, Searches, FirstSearch, h) /\ SearchSequence(text, patterns) = g[n].outcome

\* The fold of SearchSequence is such a run.
LEMMA SearchRuns ==
    ASSUME NEW text, NEW patterns, NEW n \in Nat, DOMAIN patterns = 1..n,
           NEW h, h \in [Searches \X (1..n) -> Searches],
           \A p \in Searches \X (1..n) : h[p] = SearchNext(text, p[1], patterns[p[2]])
    PROVE  SearchesBy(text, patterns, n, h)
<1> DEFINE base == FirstSearch
           next(f, s) == IF s = {} THEN base ELSE SearchNext(text, f[s \ {Max(s)}], patterns[Max(s)])
<1>0. base \in Searches
  BY DEF FirstSearch, Searches, Outcomes
<1>1. PICK f : Unfolds(f, n, Searches, base, h)
  <2> HIDE DEF base
  <2>1. Unfoldable(n, Searches, base, h)
    BY <1>0, FoldUnfolds
  <2>2. QED
    BY <2>1 DEF Unfoldable
<1>2. f = [s \in SUBSET (1..n) |-> next(f, s)]
  <2> SUFFICES ASSUME NEW s \in SUBSET (1..n) PROVE f[s] = next(f, s)
    BY <1>1 DEF Unfolds
  <2>1. CASE s = {}
    BY <1>1, <2>1 DEF Unfolds
  <2>2. CASE s # {}
    <3>1. Max(s) \in 1..n /\ f[s \ {Max(s)}] \in Searches
      BY <1>1, <2>2, MaxOfFirst DEF Unfolds
    <3>2. f[s] = h[<<f[s \ {Max(s)}], Max(s)>>]
      BY <1>1, <2>2 DEF Unfolds
    <3>3. QED
      BY <2>2, <3>1, <3>2
  <2>3. QED
    BY <2>1, <2>2
<1>3. \E it : it = [s \in SUBSET (1..n) |-> next(it, s)] /\ SearchSequence(text, patterns) = it[1..n].outcome
  <2> DEFINE it == CHOOSE it : it = [s \in SUBSET (1..n) |-> next(it, s)]
  <2>1. it = [s \in SUBSET (1..n) |-> next(it, s)]
    BY <1>2
  <2>2. SearchSequence(text, patterns) = it[1..n].outcome
    BY DEF SearchSequence, FoldLeft, MapThenFoldSet, FirstSearch
  <2> HIDE DEF it
  <2>3. QED
    BY <2>1, <2>2
<1>4. PICK it : it = [s \in SUBSET (1..n) |-> next(it, s)] /\ SearchSequence(text, patterns) = it[1..n].outcome
  BY <1>3
<1>5. \A s \in SUBSET (1..n) : it[s] = next(it, s)
  <2> HIDE DEF next
  <2>1. QED
    BY <1>4
<1>6. it[{}] = base
  BY <1>5
<1>7. ASSUME NEW k \in 1..n, it[1..(k - 1)] \in Searches PROVE it[1..k] = h[<<it[1..(k - 1)], k>>]
  <2>1. it[1..k] = next(it, 1..k)
    <3> HIDE DEF next
    <3>1. QED
      BY <1>5
  <2>2. 1..k # {} /\ Max(1..k) = k /\ (1..k) \ {k} = 1..(k - 1)
    BY MaxOfFirst
  <2>3. QED
    BY <1>7, <2>1, <2>2
<1>8. FoldsOn(it, n, Searches, base, h)
  BY <1>6, <1>7 DEF FoldsOn
<1>9. PICK g : RunOf(g, n, Searches, base, h) /\ it[1..n] = g[n]
  <2> HIDE DEF base
  <2>1. Runs(it, n, Searches, base, h)
    BY <1>0, <1>8, FoldRuns
  <2>2. QED
    BY <2>1 DEF Runs
<1>10. QED
  BY <1>4, <1>9 DEF SearchesBy

\* A word is found where each of its characters is.
LEMMA FoundIs ==
    ASSUME NEW text, IsASequence(text), NEW word, IsASequence(word), NEW i
    PROVE  i \in Found(word, text) <=>
              /\ i \in 1..(Len(text) - Len(word) + 1)
              /\ \A c \in 1..Len(word) : text[i + c - 1] = word[c]
<1> DEFINE there == SubSeq(text, i, i + Len(word) - 1)
<1>1. /\ Len(text) \in Nat /\ Len(word) \in Nat
      /\ \A c \in 1..Len(text) : text[c] \in ToSet(text)
      /\ \A c \in 1..Len(word) : word[c] \in ToSet(word)
      /\ word \in Seq(ToSet(word))
  BY SequenceIs
<1>2. CASE i \in 1..(Len(text) - Len(word) + 1)
  <2>1. i \in Int /\ i + Len(word) - 1 \in Int
        /\ \A c \in i..(i + Len(word) - 1) : text[c] \in ToSet(text)
    BY <1>1, <1>2
  <2>2. /\ there \in Seq(ToSet(text))
        /\ Len(there) = IF i <= i + Len(word) - 1 THEN (i + Len(word) - 1) - i + 1 ELSE 0
        /\ \A c \in 1..((i + Len(word) - 1) - i + 1) : there[c] = text[i + c - 1]
    BY <2>1, SubSeqProperties
  <2>3. Len(there) = Len(word)
        /\ \A c \in 1..Len(word) : there[c] = text[i + c - 1]
    BY <1>1, <2>1, <2>2
  <2> HIDE DEF there
  <2>4. (\A c \in 1..Len(word) : text[i + c - 1] = word[c]) => there = word
    <3> DEFINE both == ToSet(text) \cup ToSet(word)
    <3>1. there \in Seq(both) /\ word \in Seq(both)
      BY <1>1, <2>2
    <3> SUFFICES ASSUME \A c \in 1..Len(word) : text[i + c - 1] = word[c] PROVE there = word
      OBVIOUS
    <3>2. \A c \in 1..Len(there) : there[c] = word[c]
      BY <2>3
    <3> HIDE DEF both
    <3>3. QED
      BY <2>3, <3>1, <3>2, SeqEqual
  <2>5. there = word => \A c \in 1..Len(word) : text[i + c - 1] = word[c]
    BY <2>3
  <2>6. i \in Found(word, text) <=> there = word
    BY <1>2 DEF Found, there
  <2>7. QED
    BY <1>2, <2>4, <2>5, <2>6
<1>3. QED
  BY <1>2 DEF Found

\* What is found in the rest of a text is found in the text, that much further on.
LEMMA RestFound ==
    ASSUME NEW text, IsASequence(text), NEW word, IsASequence(word), NEW s \in 0..Len(text), NEW j \in Int
    PROVE  j \in Found(word, SubSeq(text, s + 1, Len(text))) <=> j >= 1 /\ s + j \in Found(word, text)
<1> DEFINE rest == SubSeq(text, s + 1, Len(text))
<1>1. /\ Len(text) \in Nat /\ Len(word) \in Nat
      /\ \A c \in 1..Len(text) : text[c] \in ToSet(text)
  BY SequenceIs
<1>2. s + 1 \in Int /\ \A c \in (s + 1)..Len(text) : text[c] \in ToSet(text)
  BY <1>1
<1>3. /\ rest \in Seq(ToSet(text))
      /\ Len(rest) = Len(text) - s
      /\ \A c \in 1..(Len(text) - s) : rest[c] = text[s + c]
  <2>1. /\ rest \in Seq(ToSet(text))
        /\ Len(rest) = IF s + 1 <= Len(text) THEN Len(text) - (s + 1) + 1 ELSE 0
        /\ \A c \in 1..(Len(text) - (s + 1) + 1) : rest[c] = text[(s + 1) + c - 1]
    BY <1>1, <1>2, SubSeqProperties
  <2>2. QED
    BY <1>1, <2>1
<1>4. IsASequence(rest)
  <2>1. rest \in [1..Len(rest) -> ToSet(text)] /\ Len(rest) \in Nat
    BY <1>3, LenProperties
  <2>2. QED
    BY <2>1 DEF IsASequence
<1> HIDE DEF rest
<1>5. j \in Found(word, rest) <=> /\ j \in 1..(Len(rest) - Len(word) + 1)
                                  /\ \A c \in 1..Len(word) : rest[j + c - 1] = word[c]
  BY <1>4, FoundIs
<1>6. s + j \in Found(word, text) <=> /\ s + j \in 1..(Len(text) - Len(word) + 1)
                                      /\ \A c \in 1..Len(word) : text[s + j + c - 1] = word[c]
  BY FoundIs
<1>7. j \in 1..(Len(rest) - Len(word) + 1) =>
          \A c \in 1..Len(word) : rest[j + c - 1] = text[s + j + c - 1]
  <2> SUFFICES ASSUME j \in 1..(Len(rest) - Len(word) + 1), NEW c \in 1..Len(word)
               PROVE  rest[j + c - 1] = text[s + j + c - 1]
    OBVIOUS
  <2>1. j + c - 1 \in 1..(Len(text) - s) /\ s + (j + c - 1) = s + j + c - 1
    BY <1>1, <1>3
  <2>2. QED
    BY <1>3, <2>1
<1>8. j \in 1..(Len(rest) - Len(word) + 1) <=> j >= 1 /\ s + j \in 1..(Len(text) - Len(word) + 1)
  BY <1>1, <1>3
<1>9. QED
  BY <1>5, <1>6, <1>7, <1>8 DEF rest

\* The first k patterns at these places, one after the other, and where they end.
Placed(text, patterns, at, k) ==
    /\ \A j \in 1..k : at[j] \in Found(patterns[j], text)
    /\ \A j, l \in 1..k : j < l => at[j] + Len(patterns[j]) <= at[l]

\* The last position the first k patterns take.
PlacedUpTo(patterns, at, k) == IF k = 0 THEN 0 ELSE at[k] + Len(patterns[k]) - 1

\* Where patterns may be placed.
Places(text, patterns) == [1..Len(patterns) -> 1..(Len(text) + 1)]

\* A search that passes has come to the least end of all placements, one that fails shows that there is none.
Greedy(text, patterns, k, search) ==
    /\ search.outcome = "passes" =>
          /\ search.start \in 0..Len(text)
          /\ \E at \in Places(text, patterns) :
                Placed(text, patterns, at, k) /\ PlacedUpTo(patterns, at, k) = search.start
          /\ \A at \in Places(text, patterns) :
                Placed(text, patterns, at, k) => search.start <= PlacedUpTo(patterns, at, k)
    /\ search.outcome = "fails" => \A at \in Places(text, patterns) : ~Placed(text, patterns, at, k)

\* A text and patterns, each a sequence.
Words(text, patterns) ==
    /\ IsASequence(text) /\ IsASequence(patterns)
    /\ \A k \in 1..Len(patterns) : IsASequence(patterns[k])

\* The next pattern found at x goes after a placement that ends before it.
LEMMA PlaceNext ==
    ASSUME NEW text, NEW patterns, Words(text, patterns), NEW k \in Nat, k + 1 <= Len(patterns),
           NEW at \in Places(text, patterns), Placed(text, patterns, at, k),
           NEW x \in Found(patterns[k + 1], text), PlacedUpTo(patterns, at, k) < x
    PROVE  /\ [at EXCEPT ![k + 1] = x] \in Places(text, patterns)
           /\ Placed(text, patterns, [at EXCEPT ![k + 1] = x], k + 1)
           /\ PlacedUpTo(patterns, [at EXCEPT ![k + 1] = x], k + 1) = x + Len(patterns[k + 1]) - 1
<1> DEFINE new == [at EXCEPT ![k + 1] = x]
<1>1. /\ Len(text) \in Nat /\ Len(patterns) \in Nat
      /\ \A j \in 1..Len(patterns) : Len(patterns[j]) \in Nat
  BY SequenceIs DEF Words
<1>2. x \in 1..(Len(text) + 1)
  BY <1>1 DEF Found
<1>3. /\ new \in Places(text, patterns) /\ new[k + 1] = x
      /\ \A j \in 1..k : new[j] = at[j] /\ at[j] \in Nat /\ Len(patterns[j]) \in Nat
  <2>1. k + 1 \in 1..Len(patterns) /\ at \in [1..Len(patterns) -> 1..(Len(text) + 1)]
    BY <1>1 DEF Places
  <2>2. new \in Places(text, patterns) /\ new[k + 1] = x
    BY <1>2, <2>1 DEF Places
  <2>3. ASSUME NEW j \in 1..k
        PROVE  new[j] = at[j] /\ at[j] \in Nat /\ Len(patterns[j]) \in Nat
    <3>1. j \in 1..Len(patterns) /\ j # k + 1
      BY <1>1
    <3>2. at[j] \in 1..(Len(text) + 1)
      BY <2>1, <3>1
    <3>3. QED
      BY <1>1, <2>1, <3>1, <3>2
  <2>4. QED
    BY <2>2, <2>3
<1> HIDE DEF new
<1>4. \A j \in 1..k : at[j] + Len(patterns[j]) <= x
  <2> TAKE j \in 1..k
  <2>1. at[k] + Len(patterns[k]) <= x /\ at[k] \in Nat /\ Len(patterns[k]) \in Nat
    <3>1. k \in 1..k /\ x \in Int
      BY <1>2
    <3>2. QED
      BY <1>3, <3>1 DEF PlacedUpTo
  <2>2. CASE j = k
    BY <2>1, <2>2
  <2>3. CASE j < k
    <3>1. at[j] + Len(patterns[j]) <= at[k]
      BY <2>3 DEF Placed
    <3>2. at[j] \in Nat /\ Len(patterns[j]) \in Nat /\ x \in Nat
      BY <1>1, <1>2, <1>3
    <3>3. QED
      BY <2>1, <3>1, <3>2
  <2>4. QED
    BY <2>2, <2>3
<1>5. Placed(text, patterns, new, k + 1)
  <2>1. \A j \in 1..(k + 1) : j \in 1..k \/ j = k + 1
    OBVIOUS
  <2>2. \A j \in 1..(k + 1) : new[j] \in Found(patterns[j], text)
    BY <1>3, <2>1 DEF Placed
  <2>3. ASSUME NEW j \in 1..(k + 1), NEW l \in 1..(k + 1), j < l
        PROVE  new[j] + Len(patterns[j]) <= new[l]
    <3>1. j \in 1..k
      BY <2>3
    <3>2. CASE l = k + 1
      BY <1>3, <1>4, <3>1, <3>2
    <3>3. CASE l # k + 1
      <4>1. l \in 1..k
        BY <3>3
      <4>2. at[j] + Len(patterns[j]) <= at[l]
        BY <2>3, <3>1, <4>1 DEF Placed
      <4>3. QED
        BY <1>3, <3>1, <4>1, <4>2
    <3>4. QED
      BY <3>2, <3>3
  <2>4. QED
    BY <2>2, <2>3 DEF Placed
<1>6. PlacedUpTo(patterns, new, k + 1) = x + Len(patterns[k + 1]) - 1
  BY <1>3 DEF PlacedUpTo
<1>7. QED
  BY <1>3, <1>5, <1>6 DEF new

\* A placement of one pattern more is one of the patterns before, and goes on after it.
LEMMA PlaceBefore ==
    ASSUME NEW text, NEW patterns, Words(text, patterns), NEW k \in Nat, k + 1 <= Len(patterns),
           NEW at \in Places(text, patterns), Placed(text, patterns, at, k + 1)
    PROVE  /\ Placed(text, patterns, at, k)
           /\ at[k + 1] \in Found(patterns[k + 1], text)
           /\ PlacedUpTo(patterns, at, k) \in Nat /\ at[k + 1] \in Nat
           /\ PlacedUpTo(patterns, at, k) < at[k + 1]
           /\ PlacedUpTo(patterns, at, k + 1) = at[k + 1] + Len(patterns[k + 1]) - 1
<1>1. /\ Len(text) \in Nat /\ Len(patterns) \in Nat
      /\ \A j \in 1..Len(patterns) : Len(patterns[j]) \in Nat
  BY SequenceIs DEF Words
<1>2. \A j \in 1..(k + 1) : at[j] \in Nat /\ at[j] >= 1
  BY <1>1 DEF Places
<1>3. \A j \in 1..k : j \in 1..(k + 1)
  OBVIOUS
<1>4. Placed(text, patterns, at, k)
  BY <1>3 DEF Placed
<1>5. k + 1 \in 1..(k + 1) /\ at[k + 1] \in Found(patterns[k + 1], text)
  BY DEF Placed
<1>6. PlacedUpTo(patterns, at, k) \in Nat /\ PlacedUpTo(patterns, at, k) < at[k + 1]
  <2>1. CASE k = 0
    BY <1>2, <1>5, <2>1 DEF PlacedUpTo
  <2>2. CASE k # 0
    <3>1. k \in 1..(k + 1) /\ k < k + 1 /\ k \in 1..Len(patterns)
      BY <1>1, <2>2
    <3>2. at[k] + Len(patterns[k]) <= at[k + 1]
      BY <1>5, <3>1 DEF Placed
    <3>3. /\ at[k] \in Nat /\ at[k] >= 1 /\ Len(patterns[k]) \in Nat /\ at[k + 1] \in Nat
          /\ PlacedUpTo(patterns, at, k) = at[k] + Len(patterns[k]) - 1
      BY <1>1, <1>2, <1>5, <2>2, <3>1 DEF PlacedUpTo
    <3>4. QED
      BY <3>2, <3>3
  <2>3. QED
    BY <2>1, <2>2
<1>7. PlacedUpTo(patterns, at, k + 1) = at[k + 1] + Len(patterns[k + 1]) - 1
  BY DEF PlacedUpTo
<1>8. QED
  BY <1>2, <1>4, <1>5, <1>6, <1>7

\* One more search keeps to the least end: a placement that ends later leaves less of the text to search.
LEMMA GreedyNext ==
    ASSUME NEW text, NEW patterns, Words(text, patterns), NEW k \in Nat, k + 1 <= Len(patterns),
           NEW search \in Searches, Greedy(text, patterns, k, search)
    PROVE  Greedy(text, patterns, k + 1, SearchNext(text, search, patterns[k + 1]))
<1> DEFINE word == patterns[k + 1]
           next == SearchNext(text, search, word)
           found == Found(word, SubSeq(text, search.start + 1, Len(text)))
<1>1. Len(text) \in Nat /\ Len(patterns) \in Nat /\ Len(word) \in Nat /\ IsASequence(word) /\ IsASequence(text)
  BY SequenceIs DEF Words
<1>2. next = IF search.outcome # "passes" THEN search
             ELSE IF word = BadPattern THEN [search EXCEPT !.outcome = "error"]
             ELSE IF found = {} THEN [search EXCEPT !.outcome = "fails"]
             ELSE [search EXCEPT !.start = @ + Min(found) - 1 + Len(word)]
  BY DEF SearchNext
<1>3. CASE search.outcome # "passes"
  <2>1. next = search
    BY <1>2, <1>3
  <2>2. search.outcome = "fails" =>
            \A at \in Places(text, patterns) : ~Placed(text, patterns, at, k + 1)
    BY PlaceBefore DEF Greedy
  <2>3. QED
    BY <1>3, <2>1, <2>2 DEF Greedy
<1>4. CASE search.outcome = "passes"
  <2> DEFINE s == search.start
  <2>1. s \in 0..Len(text) /\ s \in Nat
    BY <1>1, <1>4 DEF Greedy
  <2>2. \A j \in Int : j \in found <=> j >= 1 /\ s + j \in Found(word, text)
    BY <1>1, <2>1, RestFound
  <2>3. ASSUME NEW at \in Places(text, patterns), Placed(text, patterns, at, k + 1)
        PROVE  at[k + 1] - s \in found /\ at[k + 1] \in Nat
                 /\ PlacedUpTo(patterns, at, k + 1) = at[k + 1] + Len(word) - 1
    <3>1. /\ Placed(text, patterns, at, k)
          /\ at[k + 1] \in Found(word, text)
          /\ PlacedUpTo(patterns, at, k) \in Nat /\ at[k + 1] \in Nat
          /\ PlacedUpTo(patterns, at, k) < at[k + 1]
          /\ PlacedUpTo(patterns, at, k + 1) = at[k + 1] + Len(word) - 1
      BY <2>3, PlaceBefore
    <3>2. s <= PlacedUpTo(patterns, at, k)
      BY <1>4, <3>1 DEF Greedy
    <3>3. at[k + 1] - s \in Int /\ at[k + 1] - s >= 1 /\ s + (at[k + 1] - s) = at[k + 1]
      BY <2>1, <3>1, <3>2
    <3>4. QED
      BY <2>2, <3>1, <3>3
  <2> HIDE DEF found, next, word
  <2>4. CASE word = BadPattern
    <3>1. next.outcome = "error"
      BY <1>2, <1>4, <2>4 DEF Searches
    <3>2. QED
      BY <3>1 DEF Greedy, next, word
  <2>5. CASE word # BadPattern /\ found = {}
    <3>1. next.outcome = "fails"
      BY <1>2, <1>4, <2>5 DEF Searches
    <3>2. \A at \in Places(text, patterns) : ~Placed(text, patterns, at, k + 1)
      BY <2>3, <2>5
    <3>3. QED
      BY <3>1, <3>2 DEF Greedy, next, word
  <2>6. CASE word # BadPattern /\ found # {}
    <3> DEFINE j == Min(found)
               x == s + j
    <3>1. j \in found /\ j \in Nat /\ \A i \in found : j <= i
      <4>1. found \subseteq Nat
        BY DEF found, Found
      <4>2. QED
        BY <2>6, <4>1, MinIsLeast
    <3> HIDE DEF j
    <3>2. j >= 1 /\ x \in Found(word, text) /\ x \in Nat
      BY <2>1, <2>2, <3>1
    <3>3. next.outcome = "passes" /\ next.start = x + Len(word) - 1
      <4>1. next = [search EXCEPT !.start = @ + j - 1 + Len(word)]
        BY <1>2, <1>4, <2>6 DEF j
      <4> HIDE DEF next
      <4>2. next.outcome = "passes" /\ next.start = s + j - 1 + Len(word)
        BY <1>4, <4>1 DEF Searches
      <4>3. s \in Nat /\ j \in Nat /\ Len(word) \in Nat
        BY <1>1, <2>1, <3>1
      <4> HIDE DEF x, word, s, found
      <4>4. s + j - 1 + Len(word) = (s + j) + Len(word) - 1
        BY <4>3
      <4>5. QED
        BY <4>2, <4>4 DEF x
    <3>4. x + Len(word) - 1 \in 0..Len(text)
      BY <1>1, <3>2 DEF Found
    <3>5. \E at \in Places(text, patterns) :
              Placed(text, patterns, at, k + 1) /\ PlacedUpTo(patterns, at, k + 1) = x + Len(word) - 1
      <4>1. PICK at \in Places(text, patterns) :
                Placed(text, patterns, at, k) /\ PlacedUpTo(patterns, at, k) = s
        BY <1>4 DEF Greedy
      <4>2. PlacedUpTo(patterns, at, k) < x
        BY <2>1, <3>1, <3>2, <4>1
      <4>3. QED
        BY <3>2, <4>1, <4>2, PlaceNext DEF word
    <3> HIDE DEF x
    <3>6. \A at \in Places(text, patterns) :
              Placed(text, patterns, at, k + 1) => x + Len(word) - 1 <= PlacedUpTo(patterns, at, k + 1)
      <4> SUFFICES ASSUME NEW at \in Places(text, patterns), Placed(text, patterns, at, k + 1)
                   PROVE  x + Len(word) - 1 <= PlacedUpTo(patterns, at, k + 1)
        OBVIOUS
      <4>1. /\ at[k + 1] - s \in found /\ at[k + 1] \in Nat
            /\ PlacedUpTo(patterns, at, k + 1) = at[k + 1] + Len(word) - 1
        BY <2>3
      <4>2. j <= at[k + 1] - s
        BY <3>1, <4>1
      <4>3. QED
        BY <1>1, <2>1, <3>1, <4>1, <4>2 DEF x
    <3>7. QED
      BY <3>3, <3>4, <3>5, <3>6 DEF Greedy, next, word
  <2>7. QED
    BY <2>4, <2>5, <2>6
<1>5. QED
  BY <1>3, <1>4

\* No patterns end at 0, the least there is.
LEMMA GreedyFirst ==
    ASSUME NEW text, NEW patterns, Words(text, patterns)
    PROVE  Greedy(text, patterns, 0, FirstSearch)
<1> DEFINE at == [j \in 1..Len(patterns) |-> 1]
<1>1. Len(text) \in Nat /\ Len(patterns) \in Nat
  BY SequenceIs DEF Words
<1>2. at \in Places(text, patterns)
  BY <1>1 DEF Places
<1>3. Placed(text, patterns, at, 0) /\ \A a : PlacedUpTo(patterns, a, 0) = 0
  BY DEF Placed, PlacedUpTo
<1> HIDE DEF at
<1>4. FirstSearch.start = 0 /\ FirstSearch.outcome = "passes"
  BY DEF FirstSearch
<1>5. QED
  BY <1>1, <1>2, <1>3, <1>4 DEF Greedy

\* The search passes just where the patterns can be placed one after the other.
LEMMA SearchFinds ==
    ASSUME NEW text, NEW patterns, Words(text, patterns)
    PROVE  /\ SearchSequence(text, patterns) \in Outcomes
           /\ SearchSequence(text, patterns) = "passes" =>
                 \E at \in Places(text, patterns) : Placed(text, patterns, at, Len(patterns))
           /\ SearchSequence(text, patterns) = "fails" =>
                 \A at \in Places(text, patterns) : ~Placed(text, patterns, at, Len(patterns))
<1> DEFINE n == Len(patterns)
           h == [p \in Searches \X (1..n) |-> SearchNext(text, p[1], patterns[p[2]])]
<1>1. /\ n \in Nat /\ DOMAIN patterns = 1..n
      /\ \A k \in 1..n : Len(patterns[k]) \in Nat
  BY SequenceIs DEF Words
<1>2. ASSUME NEW search \in Searches, NEW k \in 1..n
      PROVE  SearchNext(text, search, patterns[k]) \in Searches
  <2> DEFINE word == patterns[k]
             found == Found(word, SubSeq(text, search.start + 1, Len(text)))
  <2>1. SearchNext(text, search, word)
            = IF search.outcome # "passes" THEN search
              ELSE IF word = BadPattern THEN [search EXCEPT !.outcome = "error"]
              ELSE IF found = {} THEN [search EXCEPT !.outcome = "fails"]
              ELSE [search EXCEPT !.start = @ + Min(found) - 1 + Len(word)]
    BY DEF SearchNext
  <2>2. found # {} => Min(found) \in Nat /\ Min(found) >= 1
    <3>1. found \subseteq Nat /\ \A j \in found : j >= 1
      BY DEF Found
    <3> HIDE DEF found
    <3>2. QED
      BY <3>1, MinIsLeast
  <2>3. Len(word) \in Nat /\ search.start \in Nat
    BY <1>1 DEF Searches
  <2> HIDE DEF found, word
  <2>4. found # {} => search.start + Min(found) - 1 + Len(word) \in Nat
    BY <2>2, <2>3
  <2>5. SearchNext(text, search, word) \in Searches
    BY <2>1, <2>4 DEF Searches, Outcomes
  <2>6. QED
    BY <2>5 DEF word
<1>3. /\ h \in [Searches \X (1..n) -> Searches]
      /\ \A p \in Searches \X (1..n) : h[p] = SearchNext(text, p[1], patterns[p[2]])
  BY <1>2
<1> HIDE DEF h
<1>4. PICK g : RunOf(g, n, Searches, FirstSearch, h) /\ SearchSequence(text, patterns) = g[n].outcome
  <2> HIDE DEF n
  <2>1. SearchesBy(text, patterns, n, h)
    BY <1>1, <1>3, SearchRuns
  <2>2. QED
    BY <2>1 DEF SearchesBy
<1>5. /\ g[0] = FirstSearch
      /\ \A k \in 0..n : g[k] \in Searches
      /\ \A k \in 0..n : k + 1 <= n => g[k + 1] = SearchNext(text, g[k], patterns[k + 1])
  <2>1. g[0] = FirstSearch /\ \A k \in 0..n : g[k] \in Searches
    BY <1>4 DEF RunOf
  <2>2. ASSUME NEW k \in 0..n, k + 1 <= n PROVE g[k + 1] = SearchNext(text, g[k], patterns[k + 1])
    <3>1. k + 1 \in 1..n /\ (k + 1) - 1 = k
      BY <1>1, <2>2
    <3>2. g[k + 1] = h[<<g[k], k + 1>>]
      BY <1>4, <3>1 DEF RunOf
    <3>3. <<g[k], k + 1>> \in Searches \X (1..n)
      BY <2>1, <3>1
    <3>4. QED
      BY <1>3, <3>2, <3>3
  <2>3. QED
    BY <2>1, <2>2
<1> DEFINE G == {k \in 0..n : Greedy(text, patterns, k, g[k])}
<1>6. \A k \in 0..n : k \in G
  <2>1. 0 \in G
    BY <1>1, <1>5, GreedyFirst
  <2>2. \A k \in 0..(n - 1) : k \in G => k + 1 \in G
    <3> SUFFICES ASSUME NEW k \in 0..(n - 1), Greedy(text, patterns, k, g[k])
                 PROVE  k + 1 \in G
      OBVIOUS
    <3>1. k \in 0..n /\ k \in Nat /\ k + 1 \in 0..n /\ k + 1 <= n
      BY <1>1
    <3>2. g[k] \in Searches /\ g[k + 1] = SearchNext(text, g[k], patterns[k + 1])
      BY <1>5, <3>1
    <3>3. Greedy(text, patterns, k + 1, SearchNext(text, g[k], patterns[k + 1]))
      BY <3>1, <3>2, GreedyNext
    <3>4. QED
      BY <3>1, <3>2, <3>3
  <2> HIDE DEF G
  <2>3. QED
    BY <1>1, <2>1, <2>2, UpTo
<1>7. n \in 0..n /\ Greedy(text, patterns, n, g[n])
  BY <1>1, <1>6
<1>8. g[n] \in Searches
  BY <1>5, <1>7
<1>9. QED
  BY <1>4, <1>7, <1>8 DEF Greedy, Searches

\* A sequence rule is checked by SearchSequence.
LEMMA SequenceRule ==
    ASSUME NEW text, NEW rule, rule.kind = "sequence"
    PROVE  CheckRule(text, rule) = SearchSequence(text, rule.patterns)
  BY Zenon DEF CheckRule

\* The rules and texts of structure signals are sequences.
Structured ==
    input.signal = "structure" =>
        /\ IsASequence(input.text) /\ IsASequence(input.rules)
        /\ \A i \in DOMAIN input.rules :
              input.rules[i].kind = "sequence" => Words(input.text, input.rules[i].patterns)

\* The inputs that can be asked are such texts and rules.
LEMMA InputStructured == InputInv => Structured
<1> SUFFICES ASSUME InputInv, input.signal = "structure"
             PROVE  /\ IsASequence(input.text) /\ IsASequence(input.rules)
                    /\ \A i \in DOMAIN input.rules :
                          input.rules[i].kind = "sequence" => Words(input.text, input.rules[i].patterns)
  BY DEF Structured
<1>1. /\ IsASequence(input.text) /\ IsASequence(input.rules)
      /\ \A rule \in ToSet(input.rules) : rule.kind = "sequence" =>
            IsASequence(rule.patterns) /\ \A word \in ToSet(rule.patterns) : IsASequence(word)
  BY InputsAssumption DEF InputInv
<1>2. ASSUME NEW i \in DOMAIN input.rules, input.rules[i].kind = "sequence"
      PROVE  Words(input.text, input.rules[i].patterns)
  <2> DEFINE patterns == input.rules[i].patterns
  <2>1. input.rules[i] \in ToSet(input.rules)
    BY DEF ToSet
  <2>2. IsASequence(patterns) /\ \A word \in ToSet(patterns) : IsASequence(word)
    BY <1>1, <1>2, <2>1
  <2> HIDE DEF patterns
  <2>3. \A k \in 1..Len(patterns) : IsASequence(patterns[k])
    BY <2>2, SequenceIs
  <2>4. Words(input.text, patterns)
    BY <1>1, <2>2, <2>3 DEF Words
  <2>5. QED
    BY <2>4 DEF patterns
<1>3. QED
  BY <1>1, <1>2

\* A structure evaluation reports a sequence rule if and only if its patterns can be placed.
LEMMA SequenceStep ==
    ASSUME InputInv, SequenceFound, [RouterNext]_vars
    PROVE  SequenceFound'
<1>1. CASE UNCHANGED <<input, answer>>
  BY <1>1 DEF SequenceFound, Answered
<1>2. CASE Evaluated
  <2> DEFINE text == input.text
             found(patterns) == \E at \in [DOMAIN patterns -> 1..(Len(text) + 1)] :
                        /\ \A k \in DOMAIN at : at[k] \in Found(patterns[k], text)
                        /\ \A k, l \in DOMAIN at : k < l => at[k] + Len(patterns[k]) <= at[l]
  <2> SUFFICES ASSUME input.signal = "structure", answer'.error = "none",
                      NEW i \in DOMAIN input.rules, input.rules[i].kind = "sequence"
               PROVE  (i \in answer'.labels) = found(input.rules[i].patterns)
    <3>1. input' = input
      BY <1>2 DEF Evaluated
    <3>2. QED
      BY <3>1 DEF SequenceFound, Answered
  <2> DEFINE rule == input.rules[i]
  <2>1. Words(text, rule.patterns)
    BY InputStructured DEF Structured
  <2>2. /\ \A e : Failure(e).error = e
        /\ \A c, l : Result(c, l).error = "none" /\ Result(c, l).labels = l
    BY DEF Failure, Pending, Result
  <2>3. /\ CheckRule(text, rule) # "error"
        /\ i \in answer'.labels <=> CheckRule(text, rule) = "passes"
    <3> DEFINE passes == [j \in DOMAIN input.rules |-> CheckRule(text, input.rules[j])]
               matched == {j \in DOMAIN input.rules : passes[j] = "passes"}
    <3>1. input.rules # <<>>
      OBVIOUS
    <3>2. answer' = IF \E j \in DOMAIN input.rules : passes[j] = "error" THEN Failure("Configuration")
                    ELSE Result((Unit * Cardinality(matched)) \div Len(input.rules), matched)
      BY <1>2, <3>1 DEF Evaluated, EvaluateStructure, Answer
    <3>3. passes[i] = CheckRule(text, rule)
      OBVIOUS
    <3> HIDE DEF passes
    <3>4. QED
      BY <2>2, <3>2, <3>3
  <2>4. CheckRule(text, rule) = SearchSequence(text, rule.patterns)
    BY SequenceRule
  <2> DEFINE patterns == rule.patterns
  <2>5. found(patterns) <=>
            \E at \in Places(text, patterns) : Placed(text, patterns, at, Len(patterns))
    <3>1. DOMAIN patterns = 1..Len(patterns)
      BY <2>1, SequenceIs DEF Words
    <3> HIDE DEF patterns, text
    <3>2. \A at \in Places(text, patterns) : DOMAIN at = 1..Len(patterns)
      BY DEF Places
    <3>3. Places(text, patterns) = [DOMAIN patterns -> 1..(Len(text) + 1)]
      BY <3>1 DEF Places
    <3>4. QED
      BY <3>2, <3>3 DEF Placed
  <2>6. SearchSequence(text, patterns) \in {"passes", "fails"}
    BY <2>1, <2>3, <2>4, SearchFinds DEF Outcomes
  <2>7. SearchSequence(text, patterns) = "passes" <=> found(patterns)
    BY <2>1, <2>5, <2>6, SearchFinds
  <2>8. (i \in answer'.labels) \in BOOLEAN /\ found(patterns) \in BOOLEAN
    OBVIOUS
  <2>9. i \in answer'.labels <=> found(patterns)
    BY <2>3, <2>4, <2>7
  <2> HIDE DEF found
  <2>10. QED
    BY <2>8, <2>9
<1>3. QED
  BY <1>1, <1>2, StepEvaluates

\* SequenceFound: the one greedy pass of a sequence rule finds its patterns in order and apart whenever some
\* placement of them does.
THEOREM SequenceIsFound == RouterSpec => []SequenceFound
<1>1. Init => InputInv /\ SequenceFound
  <2>1. Init => InputInv /\ answer.error # "none"
    BY InitInput DEF Pending
  <2>2. QED
    BY <2>1 DEF SequenceFound, Answered
<1>2. QED
  BY <1>1, SequenceStep, NextInput, PTL DEF RouterSpec

-----------------------------------------------------------------------------
(* SpansClaimed *)

\* Spans that start somewhere.
Starts(E) == \A e \in E : e.span[1] \in Nat

\* All of E, by the start of the spans.
InOrderBy(order, E) ==
    /\ order \in Bijection(1..Cardinality(E), E)
    /\ \A i, j \in DOMAIN order : i < j => order[i].span[1] <= order[j].span[1]

\* InOrder is such an order, and not an arbitrary value.
LEMMA InOrderIs ==
    ASSUME NEW E, IsFiniteSet(E), Starts(E)
    PROVE  InOrderBy(InOrder(E), E)
<1> DEFINE R == {p \in E \X E : p[1].span[1] <= p[2].span[1]}
<1>1. Orders(R, E)
  BY DEF Orders, Starts
<1>2. \A a, b \in E : <<a, b>> \in R <=> a.span[1] <= b.span[1]
  OBVIOUS
<1> HIDE DEF R
<1>3. PICK order : IsOrder(order, R, E)
  BY <1>1, OrderExists DEF Sortable
<1>4. /\ order \in Bijection(1..Cardinality(E), E)
      /\ \A i, j \in DOMAIN order : i < j => order[i].span[1] <= order[j].span[1]
  BY <1>2, <1>3 DEF IsOrder, Bijection, Injection
<1>5. InOrder(E) = CHOOSE o \in Bijection(1..Cardinality(E), E) :
                       \A i, j \in DOMAIN o : i < j => o[i].span[1] <= o[j].span[1]
  BY DEF InOrder, SortedBy
<1>6. QED
  BY <1>4, <1>5 DEF InOrderBy

\* One match, and those of one type.
TakeMatch(taken, type, match) ==
    IF Plausible(type, match.value) THEN Push(taken, type, match.span) ELSE taken

\* The scan of the matches of one type, after those in out.
ScanType(out, type, matches) ==
    FoldLeft(LAMBDA taken, match : IF Plausible(type, match.value)
                                   THEN Push(taken, type, match.span) ELSE taken,
             out, matches[type])

\* The sets of entities the matches can give.
Candidates(matches) ==
    UNION {{[type |-> t, span |-> matches[t][k].span] : k \in DOMAIN matches[t]} : t \in DOMAIN matches}

\* The scan of a type is where a run over its matches ends.
TypeScans(out, type, matches, n, h) ==
    \E g : RunOf(g, n, SUBSET Candidates(matches), out, h) /\ ScanType(out, type, matches) = g[n]

\* The fold over the matches of a type is such a run.
LEMMA TypeScanRuns ==
    ASSUME NEW matches, NEW type \in DOMAIN matches, NEW n \in Nat, DOMAIN matches[type] = 1..n,
           NEW out \in SUBSET Candidates(matches),
           NEW h, h \in [(SUBSET Candidates(matches)) \X (1..n) -> SUBSET Candidates(matches)],
           \A p \in (SUBSET Candidates(matches)) \X (1..n) :
               h[p] = TakeMatch(p[1], type, matches[type][p[2]])
    PROVE  TypeScans(out, type, matches, n, h)
<1> DEFINE V == SUBSET Candidates(matches)
           next(f, s) == IF s = {} THEN out
                         ELSE TakeMatch(f[s \ {Max(s)}], type, matches[type][Max(s)])
<1>1. PICK f : Unfolds(f, n, V, out, h)
  <2> HIDE DEF V
  <2>1. Unfoldable(n, V, out, h)
    BY FoldUnfolds DEF V
  <2>2. QED
    BY <2>1 DEF Unfoldable
<1>2. f = [s \in SUBSET (1..n) |-> next(f, s)]
  <2> SUFFICES ASSUME NEW s \in SUBSET (1..n) PROVE f[s] = next(f, s)
    BY <1>1 DEF Unfolds
  <2>1. CASE s = {}
    BY <1>1, <2>1 DEF Unfolds
  <2>2. CASE s # {}
    <3>1. Max(s) \in 1..n /\ f[s \ {Max(s)}] \in V
      BY <1>1, <2>2, MaxOfFirst DEF Unfolds
    <3>2. f[s] = h[<<f[s \ {Max(s)}], Max(s)>>]
      BY <1>1, <2>2 DEF Unfolds
    <3>3. QED
      BY <2>2, <3>1, <3>2
  <2>3. QED
    BY <2>1, <2>2
<1>3. \E it : it = [s \in SUBSET (1..n) |-> next(it, s)] /\ ScanType(out, type, matches) = it[1..n]
  <2> DEFINE it == CHOOSE it : it = [s \in SUBSET (1..n) |-> next(it, s)]
  <2>1. it = [s \in SUBSET (1..n) |-> next(it, s)]
    BY <1>2
  <2>2. ScanType(out, type, matches) = it[1..n]
    BY DEF ScanType, FoldLeft, MapThenFoldSet, TakeMatch
  <2> HIDE DEF it
  <2>3. QED
    BY <2>1, <2>2
<1>4. PICK it : it = [s \in SUBSET (1..n) |-> next(it, s)] /\ ScanType(out, type, matches) = it[1..n]
  BY <1>3
<1>5. \A s \in SUBSET (1..n) : it[s] = next(it, s)
  <2> HIDE DEF next
  <2>1. QED
    BY <1>4
<1>6. it[{}] = out
  BY <1>5
<1>7. ASSUME NEW k \in 1..n, it[1..(k - 1)] \in V PROVE it[1..k] = h[<<it[1..(k - 1)], k>>]
  <2>1. it[1..k] = next(it, 1..k)
    <3> HIDE DEF next
    <3>1. QED
      BY <1>5
  <2>2. 1..k # {} /\ Max(1..k) = k /\ (1..k) \ {k} = 1..(k - 1)
    BY MaxOfFirst
  <2>3. QED
    BY <1>7, <2>1, <2>2
<1>8. FoldsOn(it, n, V, out, h)
  BY <1>6, <1>7 DEF FoldsOn
<1>9. Runs(it, n, V, out, h)
  <2> HIDE DEF V
  <2>1. out \in V /\ h \in [V \X (1..n) -> V]
    BY DEF V
  <2>2. QED
    BY <1>8, <2>1, FoldRuns
<1>10. QED
  BY <1>4, <1>9 DEF Runs, TypeScans

\* The scan of all types is where a run over the types ends.
Scans(matches, n, h) ==
    \E g : RunOf(g, n, SUBSET Candidates(matches), {}, h) /\ Scan(matches) = g[n]

\* The fold over the types is such a run.
LEMMA ScanRuns ==
    ASSUME NEW matches, NEW n \in Nat, DOMAIN matches = 1..n,
           NEW h, h \in [(SUBSET Candidates(matches)) \X (1..n) -> SUBSET Candidates(matches)],
           \A p \in (SUBSET Candidates(matches)) \X (1..n) : h[p] = ScanType(p[1], p[2], matches)
    PROVE  Scans(matches, n, h)
<1> DEFINE V == SUBSET Candidates(matches)
           next(f, s) == IF s = {} THEN {}
                         ELSE ScanType(f[s \ {Max(s)}], [i \in 1..n |-> i][Max(s)], matches)
<1>1. PICK f : Unfolds(f, n, V, {}, h)
  <2> HIDE DEF V
  <2>1. {} \in V
    BY DEF V
  <2>2. Unfoldable(n, V, {}, h)
    BY <2>1, FoldUnfolds DEF V
  <2>3. QED
    BY <2>2 DEF Unfoldable
<1>2. f = [s \in SUBSET (1..n) |-> next(f, s)]
  <2> HIDE DEF next, V
  <2>0. DOMAIN f = SUBSET (1..n) /\ f = [s \in DOMAIN f |-> f[s]]
    BY <1>1 DEF Unfolds
  <2> SUFFICES ASSUME NEW s \in SUBSET (1..n) PROVE f[s] = next(f, s)
    BY <2>0
  <2> USE DEF next, V
  <2>1. CASE s = {}
    BY <1>1, <2>1 DEF Unfolds
  <2>2. CASE s # {}
    <3>1. Max(s) \in 1..n /\ f[s \ {Max(s)}] \in V
      BY <1>1, <2>2, MaxOfFirst DEF Unfolds
    <3>2. f[s] = h[<<f[s \ {Max(s)}], Max(s)>>]
      BY <1>1, <2>2 DEF Unfolds
    <3>3. QED
      BY <2>2, <3>1, <3>2
  <2>3. QED
    BY <2>1, <2>2
<1>3. \E it : it = [s \in SUBSET (1..n) |-> next(it, s)] /\ Scan(matches) = it[1..n]
  <2> DEFINE it == CHOOSE it : it = [s \in SUBSET (1..n) |-> next(it, s)]
  <2>1. it = [s \in SUBSET (1..n) |-> next(it, s)]
    BY <1>2
  <2>2. Scan(matches) = it[1..n]
    <3>1. DOMAIN [i \in DOMAIN matches |-> i] = 1..n
      OBVIOUS
    <3>2. Scan(matches) = FoldLeft(LAMBDA out, type : ScanType(out, type, matches), {}, [i \in 1..n |-> i])
      BY DEF Scan, FoldLeftDomain, ScanType
    <3>3. QED
      BY <3>2 DEF FoldLeft, MapThenFoldSet
  <2> HIDE DEF it
  <2>3. QED
    BY <2>1, <2>2
<1>4. PICK it : it = [s \in SUBSET (1..n) |-> next(it, s)] /\ Scan(matches) = it[1..n]
  BY <1>3
<1>5. \A s \in SUBSET (1..n) : it[s] = next(it, s)
  <2> HIDE DEF next
  <2>1. QED
    BY <1>4
<1>6. it[{}] = {}
  BY <1>5
<1>7. ASSUME NEW k \in 1..n, it[1..(k - 1)] \in V PROVE it[1..k] = h[<<it[1..(k - 1)], k>>]
  <2>1. it[1..k] = next(it, 1..k)
    <3> HIDE DEF next
    <3>1. QED
      BY <1>5
  <2>2. 1..k # {} /\ Max(1..k) = k /\ (1..k) \ {k} = 1..(k - 1)
    BY MaxOfFirst
  <2>3. QED
    BY <1>7, <2>1, <2>2
<1>8. FoldsOn(it, n, V, {}, h)
  BY <1>6, <1>7 DEF FoldsOn
<1>9. Runs(it, n, V, {}, h)
  <2> HIDE DEF V
  <2>1. {} \in V /\ h \in [V \X (1..n) -> V]
    BY DEF V
  <2>2. QED
    BY <1>8, <2>1, FoldRuns
<1>10. QED
  BY <1>4, <1>9 DEF Runs, Scans

\* What the input of a pii evaluation is.
AreMatches(matches) ==
    /\ IsASequence(matches)
    /\ \A type \in DOMAIN matches :
          /\ IsASequence(matches[type])
          /\ \A k \in DOMAIN matches[type] :
                LET span == matches[type][k].span
                IN  span[1] \in Nat /\ span[2] \in Nat /\ span[1] < span[2]

\* The first k matches of this type and all of the types before are scanned.
ScannedTo(u, j, type, k) == u < type \/ (u = type /\ j <= k)

\* An entity of this type or one before overlaps the span.
Covered(E, u, span) == \E e \in E : e.type <= u /\ Overlaps(e.span, span)

\* A span that is not empty.
ASpan(span) == span[1] \in Nat /\ span[2] \in Nat /\ span[1] < span[2]

\* The entities claimed so far do not overlap, and cover every plausible match scanned.
Scanned(matches, E, type, k) ==
    /\ IsFiniteSet(E)
    /\ \A e \in E : e.type \in Nat /\ e.type <= type /\ ASpan(e.span)
    /\ \A e, f \in E : e # f => ~Overlaps(e.span, f.span)
    /\ \A u \in DOMAIN matches : \A j \in DOMAIN matches[u] :
          ScannedTo(u, j, type, k) /\ Plausible(u, matches[u][j].value) =>
              Covered(E, u, matches[u][j].span)

\* Taking the next match keeps that: it is pushed, or what it overlaps is there already.
LEMMA ScanOneMore ==
    ASSUME NEW matches, AreMatches(matches), NEW type \in DOMAIN matches, NEW k \in Nat,
           k + 1 \in DOMAIN matches[type], NEW E \in SUBSET Candidates(matches), Scanned(matches, E, type, k)
    PROVE  Scanned(matches, TakeMatch(E, type, matches[type][k + 1]), type, k + 1)
<1> DEFINE match == matches[type][k + 1]
           F == TakeMatch(E, type, match)
           new == [type |-> type, span |-> match.span]
<1>1. /\ type \in Nat
      /\ \A u \in DOMAIN matches : u \in Nat /\ \A j \in DOMAIN matches[u] : j \in Nat /\ ASpan(matches[u][j].span)
  <2>1. DOMAIN matches \subseteq Nat
    BY SequenceIs DEF AreMatches
  <2>2. ASSUME NEW u \in DOMAIN matches PROVE DOMAIN matches[u] \subseteq Nat
    BY SequenceIs DEF AreMatches
  <2>3. QED
    BY <2>1, <2>2 DEF AreMatches, ASpan
<1>2. ASpan(match.span) /\ new.type = type /\ new.span = match.span
  BY <1>1
<1> HIDE DEF new, match
<1>3. \/ F = E /\ ~Plausible(type, match.value)
      \/ F = E /\ \E e \in E : Overlaps(e.span, match.span)
      \/ F = E \cup {new} /\ \A e \in E : ~Overlaps(e.span, match.span)
  BY DEF TakeMatch, Push, new
<1>4. E \subseteq F
  BY <1>3
<1>5. IsFiniteSet(F)
  BY <1>3, FS_AddElement DEF Scanned
<1>6. \A e \in F : e.type \in Nat /\ e.type <= type /\ ASpan(e.span)
  <2> TAKE e \in F
  <2>1. e \in E \/ e = new
    BY <1>3
  <2>2. CASE e \in E
    BY <2>2 DEF Scanned
  <2>3. CASE e = new
    BY <1>1, <1>2, <2>3
  <2>4. QED
    BY <2>1, <2>2, <2>3
<1>7. \A e, f \in F : e # f => ~Overlaps(e.span, f.span)
  <2> SUFFICES ASSUME NEW e \in F, NEW f \in F, e # f PROVE ~Overlaps(e.span, f.span)
    OBVIOUS
  <2>1. CASE e \in E /\ f \in E
    BY <2>1 DEF Scanned
  <2>2. CASE e \in E /\ f \notin E
    BY <1>2, <1>3, <2>2
  <2>3. CASE e \notin E /\ f \in E
    BY <1>2, <1>3, <2>3 DEF Overlaps
  <2>4. CASE e \notin E /\ f \notin E
    BY <1>3, <2>4
  <2>5. QED
    BY <2>1, <2>2, <2>3, <2>4
<1>8. Plausible(type, match.value) => Covered(F, type, match.span)
  <2> SUFFICES ASSUME Plausible(type, match.value) PROVE Covered(F, type, match.span)
    OBVIOUS
  <2>1. CASE F = E /\ \E e \in E : Overlaps(e.span, match.span)
    BY <2>1 DEF Scanned, Covered
  <2>2. CASE F = E \cup {new}
    <3>1. new \in F /\ new.type <= type
      BY <1>1, <1>2, <2>2
    <3>2. Overlaps(new.span, match.span)
      BY <1>2 DEF Overlaps, ASpan
    <3>3. QED
      BY <3>1, <3>2 DEF Covered
  <2>3. QED
    BY <1>3, <2>1, <2>2
<1> HIDE DEF F
<1>9. ASSUME NEW u \in DOMAIN matches, NEW j \in DOMAIN matches[u],
             ScannedTo(u, j, type, k + 1), Plausible(u, matches[u][j].value)
      PROVE  Covered(F, u, matches[u][j].span)
  <2>1. ScannedTo(u, j, type, k) \/ (u = type /\ j = k + 1)
    <3>1. u \in Nat /\ j \in Nat
      BY <1>1
    <3>2. QED
      BY <1>1, <1>9, <3>1 DEF ScannedTo
  <2>2. CASE ScannedTo(u, j, type, k)
    <3>1. Covered(E, u, matches[u][j].span)
      BY <1>9, <2>2 DEF Scanned
    <3>2. QED
      BY <1>4, <3>1 DEF Covered
  <2>3. CASE u = type /\ j = k + 1
    BY <1>8, <1>9, <2>3 DEF match
  <2>4. QED
    BY <2>1, <2>2, <2>3
<1>10. Scanned(matches, F, type, k + 1)
  BY <1>5, <1>6, <1>7, <1>9 DEF Scanned
<1>11. QED
  BY <1>10 DEF F, match

\* What is pushed comes from a match.
LEMMA CandidateTaken ==
    ASSUME NEW matches, NEW type \in DOMAIN matches, NEW k \in DOMAIN matches[type],
           NEW E \in SUBSET Candidates(matches)
    PROVE  TakeMatch(E, type, matches[type][k]) \in SUBSET Candidates(matches)
<1>1. [type |-> type, span |-> matches[type][k].span] \in Candidates(matches)
  BY DEF Candidates
<1>2. QED
  BY <1>1 DEF TakeMatch, Push

\* The entities after each match of a type.
TypeRun(out, type, matches) ==
    \E g : /\ g[0] = out
           /\ \A k \in 0..Len(matches[type]) : g[k] \in SUBSET Candidates(matches)
           /\ \A k \in 1..Len(matches[type]) : g[k] = TakeMatch(g[k - 1], type, matches[type][k])
           /\ ScanType(out, type, matches) = g[Len(matches[type])]

\* The matches of every type can be counted.
LEMMA MatchesAre ==
    ASSUME NEW matches, AreMatches(matches)
    PROVE  /\ Len(matches) \in Nat /\ DOMAIN matches = 1..Len(matches)
           /\ \A u \in DOMAIN matches :
                 Len(matches[u]) \in Nat /\ DOMAIN matches[u] = 1..Len(matches[u])
<1>1. Len(matches) \in Nat /\ DOMAIN matches = 1..Len(matches)
  BY SequenceIs DEF AreMatches
<1>2. ASSUME NEW u \in DOMAIN matches
      PROVE  Len(matches[u]) \in Nat /\ DOMAIN matches[u] = 1..Len(matches[u])
  BY SequenceIs DEF AreMatches
<1>3. QED
  BY <1>1, <1>2

\* Scanning a type goes through such entities.
LEMMA TypeRunIs ==
    ASSUME NEW matches, AreMatches(matches), NEW type \in DOMAIN matches,
           NEW out \in SUBSET Candidates(matches)
    PROVE  TypeRun(out, type, matches)
<1> DEFINE n == Len(matches[type])
           V == SUBSET Candidates(matches)
           h == [p \in V \X (1..n) |-> TakeMatch(p[1], type, matches[type][p[2]])]
<1>1. n \in Nat /\ DOMAIN matches[type] = 1..n
  BY MatchesAre
<1>2. /\ h \in [V \X (1..n) -> V]
      /\ \A p \in V \X (1..n) : h[p] = TakeMatch(p[1], type, matches[type][p[2]])
  <2>1. \A p \in V \X (1..n) : TakeMatch(p[1], type, matches[type][p[2]]) \in V
    <3> TAKE p \in V \X (1..n)
    <3>1. p[1] \in V /\ p[2] \in DOMAIN matches[type]
      BY <1>1
    <3>2. QED
      BY <3>1, CandidateTaken
  <2> HIDE DEF V
  <2>2. QED
    BY <2>1
<1> HIDE DEF h
<1>3. PICK g : RunOf(g, n, V, out, h) /\ ScanType(out, type, matches) = g[n]
  <2> HIDE DEF n
  <2>1. TypeScans(out, type, matches, n, h)
    BY <1>1, <1>2, TypeScanRuns
  <2>2. QED
    BY <2>1 DEF TypeScans
<1>4. g[0] = out /\ \A k \in 0..n : g[k] \in V
  BY <1>3 DEF RunOf
<1>5. ASSUME NEW k \in 1..n PROVE g[k] = TakeMatch(g[k - 1], type, matches[type][k])
  <2>1. g[k] = h[<<g[k - 1], k>>]
    BY <1>3 DEF RunOf
  <2>2. <<g[k - 1], k>> \in V \X (1..n)
    BY <1>1, <1>4
  <2>3. QED
    BY <1>2, <2>1, <2>2
<1>6. QED
  BY <1>3, <1>4, <1>5 DEF TypeRun

\* After the scan of a type all of its matches are scanned.
LEMMA TypeScanned ==
    ASSUME NEW matches, AreMatches(matches), NEW type \in DOMAIN matches,
           NEW out \in SUBSET Candidates(matches)
    PROVE  /\ ScanType(out, type, matches) \in SUBSET Candidates(matches)
           /\ Scanned(matches, out, type, 0) =>
                 Scanned(matches, ScanType(out, type, matches), type + 1, 0)
<1> DEFINE n == Len(matches[type])
           V == SUBSET Candidates(matches)
<1>1. n \in Nat /\ DOMAIN matches[type] = 1..n /\ type \in Nat
  BY MatchesAre
<1>2. PICK g : /\ g[0] = out
               /\ \A k \in 0..n : g[k] \in V
               /\ \A k \in 1..n : g[k] = TakeMatch(g[k - 1], type, matches[type][k])
               /\ ScanType(out, type, matches) = g[n]
  BY TypeRunIs DEF TypeRun
<1>3. n \in 0..n /\ g[n] \in V
  BY <1>1, <1>2
<1>4. ASSUME Scanned(matches, out, type, 0)
      PROVE  Scanned(matches, g[n], type + 1, 0)
  <2> DEFINE G == {k \in 0..n : Scanned(matches, g[k], type, k)}
  <2>1. \A k \in 0..n : k \in G
    <3>1. 0 \in G
      BY <1>1, <1>2, <1>4
    <3>2. \A k \in 0..(n - 1) : k \in G => k + 1 \in G
      <4> SUFFICES ASSUME NEW k \in 0..(n - 1), Scanned(matches, g[k], type, k)
                   PROVE  k + 1 \in G
        OBVIOUS
      <4>1. k \in Nat /\ k \in 0..n /\ k + 1 \in 1..n /\ k + 1 \in 0..n /\ (k + 1) - 1 = k
            /\ k + 1 \in DOMAIN matches[type]
        BY <1>1
      <4>2. g[k] \in V /\ g[k + 1] = TakeMatch(g[k], type, matches[type][k + 1])
        BY <1>2, <4>1
      <4>3. Scanned(matches, TakeMatch(g[k], type, matches[type][k + 1]), type, k + 1)
        BY <4>1, <4>2, ScanOneMore
      <4>4. QED
        BY <4>1, <4>2, <4>3
    <3> HIDE DEF G
    <3>3. QED
      BY <1>1, <3>1, <3>2, UpTo
  <2>2. Scanned(matches, g[n], type, n)
    BY <1>3, <2>1
  <2>3. \A u \in DOMAIN matches : \A j \in DOMAIN matches[u] :
            ScannedTo(u, j, type + 1, 0) => ScannedTo(u, j, type, n)
    <3> TAKE u \in DOMAIN matches
    <3> TAKE j \in DOMAIN matches[u]
    <3>1. u \in Nat /\ j \in Nat /\ j > 0 /\ (u = type => j <= n)
      BY MatchesAre
    <3>2. QED
      BY <1>1, <3>1 DEF ScannedTo
  <2>4. \A e \in g[n] : e.type <= type + 1
    BY <1>1, <2>2 DEF Scanned
  <2>5. QED
    BY <2>2, <2>3, <2>4 DEF Scanned
<1>5. QED
  BY <1>2, <1>3, <1>4

\* After the whole scan all matches are.
LEMMA AllScanned ==
    ASSUME NEW matches, AreMatches(matches)
    PROVE  Scanned(matches, Scan(matches), Len(matches) + 1, 0)
<1> DEFINE n == Len(matches)
           V == SUBSET Candidates(matches)
           h == [p \in V \X (1..n) |-> ScanType(p[1], p[2], matches)]
<1>1. n \in Nat /\ DOMAIN matches = 1..n
  BY MatchesAre
<1>2. /\ h \in [V \X (1..n) -> V]
      /\ \A p \in V \X (1..n) : h[p] = ScanType(p[1], p[2], matches)
  <2>1. \A p \in V \X (1..n) : ScanType(p[1], p[2], matches) \in V
    <3> TAKE p \in V \X (1..n)
    <3>1. p[1] \in V /\ p[2] \in DOMAIN matches
      BY <1>1
    <3>2. QED
      BY <3>1, TypeScanned
  <2> HIDE DEF V
  <2>2. QED
    BY <2>1
<1> HIDE DEF h
<1>3. PICK g : RunOf(g, n, V, {}, h) /\ Scan(matches) = g[n]
  <2> HIDE DEF n
  <2>1. Scans(matches, n, h)
    BY <1>1, <1>2, ScanRuns
  <2>2. QED
    BY <2>1 DEF Scans
<1>4. g[0] = {} /\ \A k \in 0..n : g[k] \in V
  BY <1>3 DEF RunOf
<1>5. ASSUME NEW k \in 1..n PROVE g[k] = ScanType(g[k - 1], k, matches)
  <2>1. g[k] = h[<<g[k - 1], k>>]
    BY <1>3 DEF RunOf
  <2>2. <<g[k - 1], k>> \in V \X (1..n)
    BY <1>1, <1>4
  <2>3. QED
    BY <1>2, <2>1, <2>2
<1>6. Scanned(matches, {}, 1, 0)
  <2>1. \A u \in DOMAIN matches : \A j \in DOMAIN matches[u] : ~ScannedTo(u, j, 1, 0)
    BY MatchesAre DEF ScannedTo
  <2>2. QED
    BY <2>1, FS_EmptySet DEF Scanned
<1> DEFINE G == {k \in 0..n : Scanned(matches, g[k], k + 1, 0)}
<1>7. \A k \in 0..n : k \in G
  <2>1. 0 \in G
    <3>1. g[0] = {} /\ 0 + 1 = 1 /\ 0 \in 0..n
      BY <1>1, <1>4
    <3>2. QED
      BY <1>6, <3>1
  <2>2. \A k \in 0..(n - 1) : k \in G => k + 1 \in G
    <3> SUFFICES ASSUME NEW k \in 0..(n - 1), Scanned(matches, g[k], k + 1, 0)
                 PROVE  k + 1 \in G
      OBVIOUS
    <3>1. k \in 0..n /\ k + 1 \in 1..n /\ k + 1 \in 0..n /\ (k + 1) - 1 = k /\ k + 1 \in DOMAIN matches
      BY <1>1
    <3>2. g[k] \in V /\ g[k + 1] = ScanType(g[k], k + 1, matches)
      BY <1>4, <1>5, <3>1
    <3>3. Scanned(matches, ScanType(g[k], k + 1, matches), (k + 1) + 1, 0)
      BY <3>1, <3>2, TypeScanned
    <3>4. QED
      BY <3>1, <3>2, <3>3
  <2> HIDE DEF G
  <2>3. QED
    BY <1>1, <2>1, <2>2, UpTo
<1>8. n \in 0..n
  BY <1>1
<1>9. QED
  BY <1>3, <1>7, <1>8

\* Entities in order that do not overlap come one after the other, and none is lost.
LEMMA OrderedEntities ==
    ASSUME NEW matches, AreMatches(matches), NEW labels, labels = InOrder(Scan(matches))
    PROVE  /\ \A i, j \in DOMAIN labels : i < j => labels[i].span[2] <= labels[j].span[1]
           /\ \A type \in DOMAIN matches : \A match \in ToSet(matches[type]) :
                 Plausible(type, match.value) =>
                     \E i \in DOMAIN labels :
                         /\ labels[i].type <= type
                         /\ labels[i].span[1] < match.span[2]
                         /\ match.span[1] < labels[i].span[2]
<1> DEFINE E == Scan(matches)
<1>1. Scanned(matches, E, Len(matches) + 1, 0)
  BY AllScanned
<1> HIDE DEF E
<1>2. /\ IsFiniteSet(E)
      /\ \A e \in E : ASpan(e.span)
      /\ \A e, f \in E : e # f => ~Overlaps(e.span, f.span)
  BY <1>1 DEF Scanned
<1>3. InOrderBy(labels, E)
  <2>1. Starts(E)
    BY <1>2 DEF Starts, ASpan
  <2>2. QED
    BY <1>2, <2>1, InOrderIs DEF E
<1>4. /\ labels \in [1..Cardinality(E) -> E]
      /\ \A i, j \in DOMAIN labels : labels[i] = labels[j] => i = j
      /\ \A e \in E : \E i \in DOMAIN labels : labels[i] = e
      /\ \A i, j \in DOMAIN labels : i < j => labels[i].span[1] <= labels[j].span[1]
  BY <1>3 DEF InOrderBy, Bijection, Injection, Surjection, IsInjective
<1>5. ASSUME NEW i \in DOMAIN labels, NEW j \in DOMAIN labels, i < j
      PROVE  labels[i].span[2] <= labels[j].span[1]
  <2> DEFINE a == labels[i].span
             b == labels[j].span
  <2>1. Cardinality(E) \in Nat /\ i \in 1..Cardinality(E) /\ j \in 1..Cardinality(E)
    BY <1>2, <1>4, FS_CardinalityType
  <2>2. labels[i] \in E /\ labels[j] \in E /\ labels[i] # labels[j] /\ a[1] <= b[1]
    BY <1>4, <1>5, <2>1
  <2>3. ASpan(a) /\ ASpan(b) /\ ~Overlaps(a, b)
    BY <1>2, <2>2
  <2> HIDE DEF a, b
  <2>4. a[2] <= b[1]
    BY <2>2, <2>3 DEF ASpan, Overlaps
  <2>5. QED
    BY <2>4 DEF a, b
<1>6. ASSUME NEW type \in DOMAIN matches, NEW match \in ToSet(matches[type]), Plausible(type, match.value)
      PROVE  \E i \in DOMAIN labels :
                 /\ labels[i].type <= type
                 /\ labels[i].span[1] < match.span[2]
                 /\ match.span[1] < labels[i].span[2]
  <2>1. PICK k \in DOMAIN matches[type] : match = matches[type][k]
    BY DEF ToSet
  <2>2. ScannedTo(type, k, Len(matches) + 1, 0)
    BY MatchesAre DEF ScannedTo
  <2>3. Covered(E, type, match.span)
    BY <1>1, <1>6, <2>1, <2>2 DEF Scanned
  <2>4. PICK e \in E : e.type <= type /\ Overlaps(e.span, match.span)
    BY <2>3 DEF Covered
  <2>5. PICK i \in DOMAIN labels : labels[i] = e
    BY <1>4
  <2>6. QED
    BY <2>4, <2>5 DEF Overlaps
<1>7. QED
  BY <1>5, <1>6

\* A PII evaluation claims every plausible match once, and returns the entities in order.
LEMMA SpansStep ==
    ASSUME InputInv, SpansClaimed, [RouterNext]_vars
    PROVE  SpansClaimed'
<1>1. CASE UNCHANGED <<input, answer>>
  BY <1>1 DEF SpansClaimed, Answered
<1>2. CASE Evaluated
  <2> DEFINE matches == input.matches
  <2> SUFFICES ASSUME input.signal = "pii"
               PROVE  answer'.labels = InOrder(Scan(matches)) /\ AreMatches(matches)
    <3>1. input' = input
      BY <1>2 DEF Evaluated
    <3> DEFINE labels == answer'.labels
    <3>2. input.signal = "pii" =>
             /\ \A i, j \in DOMAIN labels : i < j => labels[i].span[2] <= labels[j].span[1]
             /\ \A type \in DOMAIN matches : \A match \in ToSet(matches[type]) :
                   Plausible(type, match.value) =>
                       \E i \in DOMAIN labels :
                           /\ labels[i].type <= type
                           /\ labels[i].span[1] < match.span[2]
                           /\ match.span[1] < labels[i].span[2]
      <4> HIDE DEF matches, labels
      <4>1. QED
        BY OrderedEntities DEF labels
    <3>3. QED
      BY <3>1, <3>2 DEF SpansClaimed, Answered
  <2>1. answer'.labels = InOrder(Scan(matches))
    BY <1>2 DEF Evaluated, ScanPii, Answer, Result
  <2>2. AreMatches(matches)
    BY InputsAssumption DEF InputInv, AreMatches
  <2>3. QED
    BY <2>1, <2>2
<1>3. QED
  BY <1>1, <1>2, StepEvaluates

\* SpansClaimed: no two entities of a PII answer overlap, they are in the order of the text, and each plausible
\* match overlaps one of its own type or of one before.
THEOREM SpansAreClaimed == RouterSpec => []SpansClaimed
<1>1. Init => InputInv /\ SpansClaimed
  <2>1. Init => InputInv /\ answer.error # "none"
    BY InitInput DEF Pending
  <2>2. QED
    BY <2>1 DEF SpansClaimed, Answered
<1>2. QED
  BY <1>1, SpansStep, NextInput, PTL DEF RouterSpec

-----------------------------------------------------------------------------
(* LanesCoverVectors *)

\* F adds up f over the subsets of 1..n, in whatever order.
IsSum(F, f, n) ==
    /\ F \in [SUBSET (1..n) -> Int]
    /\ F[{}] = 0
    /\ \A s \in SUBSET (1..n) : \A x \in s : F[s] = f[x] + F[s \ {x}]

\* f can be added up.
HasSum(f, n) == \E F : IsSum(F, f, n)

\* With one more summand it still can.
LEMMA SumOfOneMore ==
    ASSUME NEW k \in Nat, NEW f, \A i \in 1..(k + 1) : f[i] \in Int, HasSum(f, k)
    PROVE  HasSum(f, k + 1)
<1>1. PICK F : IsSum(F, f, k)
  BY DEF HasSum
<1>2. /\ F \in [SUBSET (1..k) -> Int] /\ F[{}] = 0
      /\ \A s \in SUBSET (1..k) : \A x \in s : F[s] = f[x] + F[s \ {x}]
  BY <1>1 DEF IsSum
<1> DEFINE last == k + 1
           G == [s \in SUBSET (1..last) |-> IF last \in s THEN f[last] + F[s \ {last}] ELSE F[s]]
<1>3. \A s \in SUBSET (1..last) : s \ {last} \in SUBSET (1..k) /\ (last \notin s => s \in SUBSET (1..k))
  <2> TAKE s \in SUBSET (1..last)
  <2>1. \A x \in s : x # last => x \in 1..k
    OBVIOUS
  <2>2. QED
    BY <2>1
<1>4. last \in 1..last /\ f[last] \in Int
  OBVIOUS
<1> HIDE DEF last
<1>5. G \in [SUBSET (1..last) -> Int]
  BY <1>2, <1>3, <1>4
<1>6. G[{}] = 0
  BY <1>2
<1>7. ASSUME NEW s \in SUBSET (1..last), NEW x \in s PROVE G[s] = f[x] + G[s \ {x}]
  <2>1. s \ {x} \in SUBSET (1..last)
    OBVIOUS
  <2>2. CASE x = last
    BY <2>1, <2>2
  <2>3. CASE x # last /\ last \in s
    <3>1. G[s] = f[last] + F[s \ {last}]
      BY <2>3
    <3>2. G[s \ {x}] = f[last] + F[(s \ {x}) \ {last}]
      BY <2>1, <2>3
    <3>3. x \in s \ {last} /\ (s \ {last}) \ {x} = (s \ {x}) \ {last}
      BY <2>3
    <3>4. F[s \ {last}] = f[x] + F[(s \ {x}) \ {last}]
      <4>1. s \ {last} \in SUBSET (1..k)
        BY <1>3
      <4>2. F[s \ {last}] = f[x] + F[(s \ {last}) \ {x}]
        BY <1>2, <3>3, <4>1
      <4>3. QED
        BY <3>3, <4>2
    <3>5. F[(s \ {x}) \ {last}] \in Int /\ f[x] \in Int
      <4>1. (s \ {x}) \ {last} \in SUBSET (1..k) /\ x \in 1..last
        BY <1>3, <2>1
      <4>2. QED
        BY <1>2, <4>1 DEF last
    <3> HIDE DEF G
    <3>6. QED
      BY <1>4, <3>1, <3>2, <3>4, <3>5
  <2>4. CASE last \notin s
    <3>1. G[s] = F[s] /\ G[s \ {x}] = F[s \ {x}] /\ s \in SUBSET (1..k)
      BY <1>3, <2>1, <2>4
    <3>2. QED
      BY <1>2, <3>1
  <2>5. QED
    BY <2>2, <2>3, <2>4
<1> HIDE DEF G
<1>8. IsSum(G, f, last)
  BY <1>5, <1>6, <1>7 DEF IsSum
<1>9. QED
  BY <1>8 DEF HasSum, last

\* Any integers can be added up.
LEMMA SumExists ==
    ASSUME NEW n \in Nat, NEW f, \A i \in 1..n : f[i] \in Int
    PROVE  HasSum(f, n)
<1> DEFINE G == {k \in 0..n : HasSum(f, k)}
<1>1. 0 \in G
  <2> DEFINE F == [s \in SUBSET (1..0) |-> 0]
  <2>1. 1..0 = {}
    OBVIOUS
  <2>2. IsSum(F, f, 0)
    BY <2>1 DEF IsSum
  <2> HIDE DEF F
  <2>3. HasSum(f, 0)
    BY <2>2 DEF HasSum
  <2>4. QED
    BY <2>3
<1>2. \A k \in 0..(n - 1) : k \in G => k + 1 \in G
  <2> SUFFICES ASSUME NEW k \in 0..(n - 1), HasSum(f, k) PROVE k + 1 \in G
    OBVIOUS
  <2>1. k \in Nat /\ k + 1 \in 0..n /\ \A i \in 1..(k + 1) : f[i] \in Int
    OBVIOUS
  <2>2. HasSum(f, k + 1)
    BY <2>1, SumOfOneMore
  <2>3. QED
    BY <2>1, <2>2
<1>3. \A k \in 0..n : k \in G
  <2> HIDE DEF G
  <2>1. QED
    BY <1>1, <1>2, UpTo
<1>4. QED
  BY <1>3

\* Sums over sets without a common element add up.
AddsUp(F, n) == \A A, B \in SUBSET (1..n) : A \cap B = {} => F[A \cup B] = F[A] + F[B]

\* The sum of a disjoint union is that of the two parts.
LEMMA SumsAdd ==
    ASSUME NEW n \in Nat, NEW f, \A i \in 1..n : f[i] \in Int, NEW F, IsSum(F, f, n)
    PROVE  AddsUp(F, n)
<1> SUFFICES ASSUME NEW A \in SUBSET (1..n), NEW B \in SUBSET (1..n), A \cap B = {}
             PROVE  F[A \cup B] = F[A] + F[B]
  BY DEF AddsUp
<1> DEFINE G == {k \in Nat : \A S \in SUBSET A : Cardinality(S) = k => F[S \cup B] = F[S] + F[B]}
<1>1. /\ \A s \in SUBSET (1..n) : F[s] \in Int
      /\ F[{}] = 0
      /\ \A s \in SUBSET (1..n) : \A x \in s : F[s] = f[x] + F[s \ {x}]
  BY DEF IsSum
<1>2. \A S \in SUBSET (1..n) : IsFiniteSet(S) /\ Cardinality(S) \in Nat
  BY PartsAreFinite
<1>3. 0 \in G
  <2> SUFFICES ASSUME NEW S \in SUBSET A, Cardinality(S) = 0 PROVE F[S \cup B] = F[S] + F[B]
    OBVIOUS
  <2>1. S = {} /\ S \cup B = B
    BY <1>2, FS_EmptySet
  <2>2. QED
    BY <1>1, <2>1
<1>4. \A k \in 0..(Cardinality(A) - 1) : k \in G => k + 1 \in G
  <2> SUFFICES ASSUME NEW k \in 0..(Cardinality(A) - 1), k \in G,
                      NEW S \in SUBSET A, Cardinality(S) = k + 1
               PROVE  F[S \cup B] = F[S] + F[B]
    OBVIOUS
  <2>1. PICK x \in S : TRUE
    <3>1. k \in Nat /\ Cardinality(S) # 0
      BY <1>2
    <3>2. S # {}
      BY <3>1, FS_EmptySet
    <3>3. QED
      BY <3>2
  <2> DEFINE R == S \ {x}
  <2>2. /\ R \in SUBSET A /\ R \in SUBSET (1..n) /\ S \in SUBSET (1..n)
        /\ S \cup B \in SUBSET (1..n) /\ R \cup B \in SUBSET (1..n)
        /\ (S \cup B) \ {x} = R \cup B /\ x \in 1..n
    OBVIOUS
  <2>3. Cardinality(R) = k
    <3>1. Cardinality(R) = Cardinality(S) - 1
      BY <1>2, FS_RemoveElement
    <3>2. QED
      BY <3>1
  <2>4. F[R \cup B] = F[R] + F[B]
    <3> HIDE DEF R
    <3>1. QED
      BY <2>2, <2>3
  <2>5. F[S] = f[x] + F[R] /\ F[S \cup B] = f[x] + F[R \cup B]
    <3>1. x \in S /\ x \in S \cup B /\ R = S \ {x}
      BY <2>1
    <3> HIDE DEF R
    <3>2. F[S] = f[x] + F[R]
      BY <1>1, <2>2, <3>1
    <3>3. F[S \cup B] = f[x] + F[(S \cup B) \ {x}]
      BY <1>1, <2>2, <3>1
    <3>4. QED
      BY <2>2, <3>2, <3>3
  <2>6. F[R] \in Int /\ F[B] \in Int /\ f[x] \in Int
    BY <1>1, <2>2
  <2> HIDE DEF R
  <2>7. QED
    BY <2>4, <2>5, <2>6
<1>5. Cardinality(A) \in G
  <2> DEFINE n0 == Cardinality(A)
  <2>1. n0 \in Nat
    BY <1>2
  <2> HIDE DEF G, n0
  <2>2. \A k \in 0..n0 : k \in G
    BY <1>3, <1>4, <2>1, UpTo DEF n0
  <2>3. QED
    BY <2>1, <2>2 DEF n0
<1>6. QED
  BY <1>5

\* The sum the community modules fold, of the products of two vectors.
SumOf(a, b, T) == MapThenSumSet(LAMBDA i : a[i] * b[i], T)

\* It is F.
IsTotal(F, a, b, n) == \A T \in SUBSET (1..n) : SumOf(a, b, T) = F[T]

\* The fold takes the elements in an order of its own choice, and the sum is the same.
LEMMA FoldIsSum ==
    ASSUME NEW n \in Nat, NEW a, NEW b, NEW f, f = [i \in 1..n |-> a[i] * b[i]],
           NEW F, IsSum(F, f, n)
    PROVE  IsTotal(F, a, b, n)
<1> SUFFICES ASSUME NEW T \in SUBSET (1..n)
             PROVE  SumOf(a, b, T) = F[T]
  BY DEF IsTotal
<1> DEFINE first(s) == CHOOSE x \in s : TRUE
           next(it, s) == IF s = {} THEN 0 ELSE a[first(s)] * b[first(s)] + it[s \ {first(s)}]
           sums == [s \in SUBSET T |-> F[s]]
<1>1. \A s \in SUBSET T : s # {} =>
          /\ first(s) \in s /\ first(s) \in 1..n /\ s \ {first(s)} \in SUBSET T
          /\ f[first(s)] = a[first(s)] * b[first(s)]
  <2> TAKE s \in SUBSET T
  <2> HAVE s # {}
  <2>1. first(s) \in s
    OBVIOUS
  <2> HIDE DEF first
  <2>2. first(s) \in 1..n
    BY <2>1
  <2>3. QED
    BY <2>1, <2>2
<1>2. \A s \in SUBSET T : F[s] = IF s = {} THEN 0 ELSE f[first(s)] + F[s \ {first(s)}]
  <2> TAKE s \in SUBSET T
  <2> HIDE DEF first
  <2>1. F[{}] = 0 /\ \A x \in s : F[s] = f[x] + F[s \ {x}]
    BY DEF IsSum
  <2>2. s # {} => first(s) \in s
    BY <1>1
  <2>3. QED
    BY <2>1, <2>2
<1>3. sums = [s \in SUBSET T |-> next(sums, s)]
  <2> HIDE DEF next
  <2> SUFFICES ASSUME NEW s \in SUBSET T PROVE F[s] = next(sums, s)
    OBVIOUS
  <2> USE DEF next
  <2> HIDE DEF first
  <2>1. s # {} => sums[s \ {first(s)}] = F[s \ {first(s)}]
    BY <1>1
  <2> HIDE DEF sums
  <2>2. QED
    BY <1>1, <1>2, <2>1
<1> HIDE DEF sums
<1>4. \E it : it = [s \in SUBSET T |-> next(it, s)] /\ SumOf(a, b, T) = it[T]
  <2> DEFINE it == CHOOSE it : it = [s \in SUBSET T |-> next(it, s)]
  <2>1. it = [s \in SUBSET T |-> next(it, s)]
    BY <1>3
  <2>2. SumOf(a, b, T) = it[T]
    BY DEF SumOf, MapThenSumSet, MapThenFoldSet
  <2> HIDE DEF it
  <2>3. QED
    BY <2>1, <2>2
<1>5. PICK it : it = [s \in SUBSET T |-> next(it, s)] /\ SumOf(a, b, T) = it[T]
  BY <1>4
<1>6. \A s \in SUBSET T : it[s] = next(it, s)
  <2> HIDE DEF next
  <2>1. QED
    BY <1>5
<1> HIDE DEF first
<1>7. \A s \in SUBSET T : IsFiniteSet(s) /\ Cardinality(s) \in Nat
  <2>1. \A s \in SUBSET T : s \in SUBSET (1..n)
    OBVIOUS
  <2>2. QED
    BY <2>1, PartsAreFinite
<1> DEFINE G == {k \in Nat : \A s \in SUBSET T : Cardinality(s) = k => it[s] = F[s]}
<1>8. 0 \in G
  <2> SUFFICES ASSUME NEW s \in SUBSET T, Cardinality(s) = 0 PROVE it[s] = F[s]
    OBVIOUS
  <2>1. s = {}
    BY <1>7, FS_EmptySet
  <2>2. QED
    BY <1>2, <1>6, <2>1
<1>9. \A k \in 0..(Cardinality(T) - 1) : k \in G => k + 1 \in G
  <2> SUFFICES ASSUME NEW k \in 0..(Cardinality(T) - 1), k \in G,
                      NEW s \in SUBSET T, Cardinality(s) = k + 1
               PROVE  it[s] = F[s]
    OBVIOUS
  <2> DEFINE x == first(s)
             R == s \ {x}
  <2>1. s # {}
    <3>1. k \in Nat /\ Cardinality(s) # 0
      BY <1>7
    <3>2. QED
      BY <3>1, FS_EmptySet
  <2>2. x \in s /\ R \in SUBSET T
    BY <1>1, <2>1
  <2>3. Cardinality(R) = k
    <3>1. Cardinality(R) = Cardinality(s) - 1
      BY <1>7, <2>2, FS_RemoveElement
    <3>2. QED
      BY <3>1
  <2>4. it[R] = F[R]
    <3> HIDE DEF R
    <3>1. QED
      BY <2>2, <2>3
  <2>5. it[s] = a[x] * b[x] + it[R] /\ F[s] = a[x] * b[x] + F[R]
    BY <1>1, <1>2, <1>6, <2>1
  <2>6. QED
    BY <2>4, <2>5
<1>10. Cardinality(T) \in G
  <2> DEFINE n0 == Cardinality(T)
  <2>1. n0 \in Nat
    BY <1>7
  <2> HIDE DEF G, n0
  <2>2. \A k \in 0..n0 : k \in G
    BY <1>8, <1>9, <2>1, UpTo DEF n0
  <2>3. QED
    BY <2>1, <2>2 DEF n0
<1>11. QED
  BY <1>5, <1>10
\* The lanes and the tail are disjoint parts of 1..n that make up all of it.
LEMMA LanesAdd ==
    ASSUME NEW a, NEW b, a \in Seq(Int), b \in Seq(Int), Len(a) = Len(b)
    PROVE  LaneSum(a, b) = SumOf(a, b, DOMAIN a)
<1> DEFINE n == Len(a)
           whole == 4 * (n \div 4)
           lane(j) == {i \in 1..whole : (i - 1) % 4 = j}
           tail == (whole + 1)..n
           f == [i \in 1..n |-> a[i] * b[i]]
<1>1. /\ n \in Nat /\ DOMAIN a = 1..n
      /\ \A i \in 1..n : a[i] \in Int /\ b[i] \in Int
  <2>1. /\ n \in Nat /\ DOMAIN a = 1..n /\ a \in [1..n -> Int] /\ b \in [1..n -> Int]
    BY LenProperties
  <2>2. QED
    BY <2>1
<1>2. \A i \in 1..n : f[i] \in Int
  BY <1>1
<1> HIDE DEF f
<1>3. PICK F : IsSum(F, f, n)
  <2>1. HasSum(f, n)
    BY <1>1, <1>2, SumExists
  <2>2. QED
    BY <2>1 DEF HasSum
<1>4. whole \in Nat /\ whole <= n
  BY <1>1
<1>5. \A T \in SUBSET (1..n) : SumOf(a, b, T) = F[T] /\ F[T] \in Int
  <2>1. f = [i \in 1..n |-> a[i] * b[i]]
    BY DEF f
  <2> HIDE DEF n
  <2>2. IsTotal(F, a, b, n)
    BY <1>1, <1>3, <2>1, FoldIsSum
  <2>3. \A T \in SUBSET (1..n) : F[T] \in Int
    BY <1>3 DEF IsSum
  <2>4. QED
    BY <2>2, <2>3 DEF IsTotal
<1>6. LaneSum(a, b) = SumOf(a, b, lane(0)) + SumOf(a, b, lane(1)) + SumOf(a, b, lane(2))
                          + SumOf(a, b, lane(3)) + SumOf(a, b, tail)
  BY DEF LaneSum, SumOf
<1> HIDE DEF whole
<1>7. /\ \A j : lane(j) \in SUBSET (1..n)
      /\ tail \in SUBSET (1..n)
  BY <1>1, <1>4
<1> DEFINE A1 == lane(0) \cup lane(1)
           A2 == A1 \cup lane(2)
           A3 == A2 \cup lane(3)
<1>8. /\ lane(0) \cap lane(1) = {} /\ A1 \cap lane(2) = {} /\ A2 \cap lane(3) = {}
      /\ A1 \in SUBSET (1..n) /\ A2 \in SUBSET (1..n) /\ A3 \in SUBSET (1..n)
  BY <1>7
<1>9. A3 = 1..whole
  <2>1. \A i \in 1..whole : (i - 1) % 4 \in {0, 1, 2, 3}
    <3> TAKE i \in 1..whole
    <3>1. i - 1 \in Nat
      BY <1>4
    <3>2. QED
      BY <3>1
  <2>2. QED
    BY <2>1
<1>10. A3 \cap tail = {} /\ A3 \cup tail = 1..n
  <2> HIDE DEF A3
  <2>1. QED
    BY <1>1, <1>4, <1>9
<1> HIDE DEF lane, tail, n
<1>11. \A S, T \in SUBSET (1..n) : S \cap T = {} => F[S \cup T] = F[S] + F[T]
  <2>1. AddsUp(F, n)
    BY <1>1, <1>2, <1>3, SumsAdd
  <2>2. QED
    BY <2>1 DEF AddsUp
<1>12. F[A1] = F[lane(0)] + F[lane(1)]
  BY <1>7, <1>8, <1>11
<1> HIDE DEF A1
<1>13. F[A2] = F[A1] + F[lane(2)]
  BY <1>7, <1>8, <1>11
<1> HIDE DEF A2
<1>14. F[A3] = F[A2] + F[lane(3)] /\ F[A3 \cup tail] = F[A3] + F[tail]
  BY <1>7, <1>8, <1>10, <1>11
<1> HIDE DEF A3
<1>15. LaneSum(a, b) = F[lane(0)] + F[lane(1)] + F[lane(2)] + F[lane(3)] + F[tail]
  <2>1. /\ SumOf(a, b, lane(0)) = F[lane(0)] /\ SumOf(a, b, lane(1)) = F[lane(1)]
        /\ SumOf(a, b, lane(2)) = F[lane(2)] /\ SumOf(a, b, lane(3)) = F[lane(3)]
        /\ SumOf(a, b, tail) = F[tail]
    BY <1>5, <1>7
  <2>2. QED
    BY <1>6, <2>1
<1>16. /\ F[lane(0)] \in Int /\ F[lane(1)] \in Int /\ F[lane(2)] \in Int /\ F[lane(3)] \in Int
       /\ F[tail] \in Int /\ F[A1] \in Int /\ F[A2] \in Int /\ F[A3] \in Int
  BY <1>5, <1>7, <1>8
<1>17. LaneSum(a, b) = F[1..n]
  BY <1>10, <1>12, <1>13, <1>14, <1>15, <1>16
<1>18. QED
  BY <1>1, <1>5, <1>17

\* Both sides of an inequality can be multiplied.
LEMMA MultiplyBoth ==
    ASSUME NEW p \in Int, NEW q \in Int, NEW r \in Int, p <= q, 0 <= r
    PROVE  p * r <= q * r
  OBVIOUS

\* No square is negative.
LEMMA Squares == \A p \in Int : 0 <= p * p
  OBVIOUS

\* The geometric mean is not above the arithmetic one.
LEMMA TwiceTheMean ==
    ASSUME NEW u \in Nat, NEW v \in Nat, NEW w \in Int, w * w <= u * v
    PROVE  2 * w <= u + v
<1>1. 0 <= (u - v) * (u - v)
  BY Squares
<1>2. 4 * (u * v) <= (u + v) * (u + v)
  BY <1>1
<1>3. (2 * w) * (2 * w) <= (u + v) * (u + v)
  BY <1>2
<1>4. ASSUME u + v < 2 * w PROVE FALSE
  <2>1. (u + v) * (u + v) <= (2 * w) * (u + v)
    BY <1>4, MultiplyBoth
  <2>2. (u + v) * (2 * w) < (2 * w) * (2 * w)
    BY <1>4
  <2>3. QED
    BY <1>3, <2>1, <2>2
<1>5. QED
  BY <1>4

\* One more element does not break the inequality of Cauchy and Schwarz.
LEMMA OneMoreProduct ==
    ASSUME NEW A \in Nat, NEW B \in Nat, NEW C \in Int, NEW x \in Int, NEW y \in Int, C * C <= A * B
    PROVE  (x * y + C) * (x * y + C) <= (x * x + A) * (y * y + B)
<1> DEFINE u == A * (y * y)
           v == B * (x * x)
           w == C * (x * y)
           z == (x * y) * (x * y)
<1>1. u \in Nat /\ v \in Nat /\ w \in Int /\ z \in Nat
  <2>1. 0 <= y * y /\ 0 <= x * x /\ 0 <= z
    BY Squares
  <2>2. 0 * (y * y) <= A * (y * y) /\ 0 * (x * x) <= B * (x * x)
    BY <2>1, MultiplyBoth
  <2>3. QED
    BY <2>1, <2>2
<1>2. (C * C) * z <= (A * B) * z
  BY <1>1, MultiplyBoth
<1>3. w * w = (C * C) * z /\ u * v = (A * B) * z
  OBVIOUS
<1>4. 2 * w <= u + v
  <2> HIDE DEF u, v, w
  <2>1. w * w <= u * v
    BY <1>2, <1>3
  <2>2. QED
    BY <1>1, <2>1, TwiceTheMean
<1>5. /\ (x * y + C) * (x * y + C) = z + 2 * w + C * C
      /\ (x * x + A) * (y * y + B) = z + (u + v) + A * B
  OBVIOUS
<1>6. C * C \in Int /\ A * B \in Int
  OBVIOUS
<1> HIDE DEF u, v, w, z
<1>7. QED
  BY <1>1, <1>4, <1>5, <1>6

\* A sum of products, one product at a time.
LEMMA ProductSums ==
    ASSUME NEW n \in Nat, NEW a, NEW b, \A i \in 1..n : a[i] \in Int /\ b[i] \in Int
    PROVE  \E P : /\ P \in [0..n -> Int] /\ P[0] = 0
                  /\ \A k \in 1..n : P[k] = a[k] * b[k] + P[k - 1]
                  /\ P[n] = SumOf(a, b, 1..n)
<1> DEFINE f == [i \in 1..n |-> a[i] * b[i]]
<1>1. f = [i \in 1..n |-> a[i] * b[i]] /\ \A i \in 1..n : f[i] \in Int
  OBVIOUS
<1> HIDE DEF f
<1>2. PICK F : IsSum(F, f, n)
  <2>1. HasSum(f, n)
    BY <1>1, SumExists
  <2>2. QED
    BY <2>1 DEF HasSum
<1>3. IsTotal(F, a, b, n)
  BY <1>1, <1>2, FoldIsSum
<1>4. /\ \A s \in SUBSET (1..n) : F[s] \in Int
      /\ F[{}] = 0
      /\ \A s \in SUBSET (1..n) : \A x \in s : F[s] = f[x] + F[s \ {x}]
  BY <1>2 DEF IsSum
<1> DEFINE P == [k \in 0..n |-> F[1..k]]
<1>5. \A k \in 0..n : 1..k \in SUBSET (1..n)
  OBVIOUS
<1>6. P \in [0..n -> Int]
  BY <1>4, <1>5
<1>7. P[0] = 0
  <2>1. 1..0 = {} /\ 0 \in 0..n
    OBVIOUS
  <2>2. QED
    BY <1>4, <2>1
<1>8. \A k \in 1..n : P[k] = a[k] * b[k] + P[k - 1]
  <2> TAKE k \in 1..n
  <2>1. k \in 0..n /\ k - 1 \in 0..n /\ k \in 1..k /\ (1..k) \ {k} = 1..(k - 1)
    OBVIOUS
  <2>2. F[1..k] = f[k] + F[(1..k) \ {k}]
    BY <1>4, <1>5, <2>1
  <2>3. QED
    BY <1>1, <2>1, <2>2
<1>9. P[n] = SumOf(a, b, 1..n)
  BY <1>3 DEF IsTotal
<1> HIDE DEF P
<1>10. QED
  BY <1>6, <1>7, <1>8, <1>9

\* The inequality of Cauchy and Schwarz, for integers.
LEMMA CauchySchwarz ==
    ASSUME NEW n \in Nat, NEW a, NEW b, \A i \in 1..n : a[i] \in Int /\ b[i] \in Int
    PROVE  SumOf(a, b, 1..n) * SumOf(a, b, 1..n) <= SumOf(a, a, 1..n) * SumOf(b, b, 1..n)
<1>1. PICK C : /\ C \in [0..n -> Int] /\ C[0] = 0
               /\ \A k \in 1..n : C[k] = a[k] * b[k] + C[k - 1]
               /\ C[n] = SumOf(a, b, 1..n)
  BY ProductSums
<1>2. PICK A : /\ A \in [0..n -> Int] /\ A[0] = 0
               /\ \A k \in 1..n : A[k] = a[k] * a[k] + A[k - 1]
               /\ A[n] = SumOf(a, a, 1..n)
  BY ProductSums
<1>3. PICK B : /\ B \in [0..n -> Int] /\ B[0] = 0
               /\ \A k \in 1..n : B[k] = b[k] * b[k] + B[k - 1]
               /\ B[n] = SumOf(b, b, 1..n)
  BY ProductSums
<1> DEFINE G == {k \in 0..n : A[k] \in Nat /\ B[k] \in Nat /\ C[k] * C[k] <= A[k] * B[k]}
<1>4. \A k \in 0..n : k \in G
  <2>1. 0 \in G
    BY <1>1, <1>2, <1>3
  <2>2. \A k \in 0..(n - 1) : k \in G => k + 1 \in G
    <3> SUFFICES ASSUME NEW k \in 0..(n - 1), A[k] \in Nat, B[k] \in Nat, C[k] * C[k] <= A[k] * B[k]
                 PROVE  k + 1 \in G
      OBVIOUS
    <3> DEFINE p == A[k]
               q == B[k]
               r == C[k]
               x == a[k + 1]
               y == b[k + 1]
    <3>1. k \in 0..n /\ k + 1 \in 0..n /\ k + 1 \in 1..n /\ (k + 1) - 1 = k
      OBVIOUS
    <3>2. p \in Nat /\ q \in Nat /\ r \in Int /\ r * r <= p * q /\ x \in Int /\ y \in Int
      BY <1>1, <3>1
    <3>3. A[k + 1] = x * x + p /\ B[k + 1] = y * y + q /\ C[k + 1] = x * y + r
      BY <1>1, <1>2, <1>3, <3>1
    <3> HIDE DEF p, q, r, x, y
    <3>4. (x * y + r) * (x * y + r) <= (x * x + p) * (y * y + q)
      BY <3>2, OneMoreProduct
    <3>5. 0 <= x * x /\ 0 <= y * y
      BY <3>2, Squares
    <3>6. x * x + p \in Nat /\ y * y + q \in Nat
      BY <3>2, <3>5
    <3>7. QED
      BY <3>1, <3>3, <3>4, <3>6
  <2> HIDE DEF G
  <2>3. QED
    BY <2>1, <2>2, UpTo
<1>5. n \in 0..n
  OBVIOUS
<1>6. C[n] * C[n] <= A[n] * B[n]
  BY <1>4, <1>5
<1>7. QED
  BY <1>1, <1>2, <1>3, <1>6

\* The sums of an answer are those over all elements.
Covers(a, b, labels) ==
    /\ labels = <<SumOf(a, b, DOMAIN a), SumOf(a, a, DOMAIN a), SumOf(b, b, DOMAIN b)>>
    /\ labels[1] * labels[1] <= labels[2] * labels[3]

\* LanesCoverVectors without an operator argument.
LanesCovered == Answered("cosine") => Covers(input.a, input.b, answer.labels)

\* A comparison adds up every element once, whatever lane it falls to.
LEMMA LanesStep ==
    ASSUME InputInv, LanesCovered, [RouterNext]_vars
    PROVE  LanesCovered'
<1>1. CASE UNCHANGED <<input, answer>>
  BY <1>1 DEF LanesCovered, Answered
<1>2. CASE Evaluated
  <2> DEFINE a == input.a
             b == input.b
             labels == answer'.labels
  <2> SUFFICES ASSUME input.signal = "cosine"
               PROVE  Covers(a, b, labels)
    BY <1>2 DEF LanesCovered, Answered, Evaluated
  <2>1. a \in Seq(Int) /\ b \in Seq(Int) /\ Len(a) = Len(b)
    BY InputsAssumption DEF InputInv
  <2>2. labels = <<LaneSum(a, b), LaneSum(a, a), LaneSum(b, b)>>
    BY <1>2 DEF Evaluated, CompareVectors, Answer, Result
  <2> HIDE DEF a, b, labels
  <2>3. /\ LaneSum(a, b) = SumOf(a, b, DOMAIN a) /\ LaneSum(a, a) = SumOf(a, a, DOMAIN a)
        /\ LaneSum(b, b) = SumOf(b, b, DOMAIN b)
    BY <2>1, LanesAdd
  <2> DEFINE n == Len(a)
  <2>4. n \in Nat /\ DOMAIN a = 1..n /\ DOMAIN b = 1..n /\ \A i \in 1..n : a[i] \in Int /\ b[i] \in Int
    <3>1. n \in Nat /\ DOMAIN a = 1..n /\ DOMAIN b = 1..n /\ a \in [1..n -> Int] /\ b \in [1..n -> Int]
      BY <2>1, LenProperties
    <3>2. QED
      BY <3>1
  <2> HIDE DEF n
  <2>5. SumOf(a, b, 1..n) * SumOf(a, b, 1..n) <= SumOf(a, a, 1..n) * SumOf(b, b, 1..n)
    BY <2>4, CauchySchwarz
  <2>6. QED
    BY <2>2, <2>3, <2>4, <2>5 DEF Covers
<1>3. QED
  BY <1>1, <1>2, StepEvaluates

\* LanesCoverVectors: the eight lanes and the remainder of a dot product cover each element once, and the
\* sums can be normalised (the square of the product is at most the product of the squares).
THEOREM LanesDoCover == RouterSpec => []LanesCoverVectors
<1>1. Init => InputInv /\ LanesCovered
  <2>1. Init => InputInv /\ answer.error # "none"
    BY InitInput DEF Pending
  <2>2. QED
    BY <2>1 DEF LanesCovered, Answered
<1>2. LanesCovered => LanesCoverVectors
  BY DEF LanesCovered, LanesCoverVectors, Covers, SumOf
<1>3. QED
  BY <1>1, <1>2, LanesStep, NextInput, PTL DEF RouterSpec

-----------------------------------------------------------------------------
(* FuzzyWithinDistance *)

\* The alignments of the first i characters of one word with the first j of another.
AlignedTo(i, j) ==
    {m \in SUBSET ((1..i) \X (1..j)) :
        \A p, q \in m : p = q \/ (p[1] < q[1] /\ p[2] < q[2]) \/ (q[1] < p[1] /\ q[2] < p[2])}

\* The characters an alignment replaces.
Replaced(m, a, b) == {p \in m : a[p[1]] # b[p[2]]}

\* What it costs of these characters.
EditsTo(m, a, b, i, j) == Cardinality(Replaced(m, a, b)) + i + j - 2 * Cardinality(m)

\* No alignment of them costs less than d, and one costs that.
Shortest(d, a, b, i, j) ==
    /\ \E m \in AlignedTo(i, j) : EditsTo(m, a, b, i, j) = d
    /\ \A m \in AlignedTo(i, j) : d <= EditsTo(m, a, b, i, j)

\* Alignments are finite.
LEMMA AlignedIsFinite ==
    ASSUME NEW i \in Nat, NEW j \in Nat, NEW m \in AlignedTo(i, j), NEW a, NEW b
    PROVE  /\ IsFiniteSet(m) /\ Cardinality(m) \in Nat
           /\ IsFiniteSet(Replaced(m, a, b)) /\ Cardinality(Replaced(m, a, b)) \in Nat
<1>1. IsFiniteSet((1..i) \X (1..j))
  <2>1. IsFiniteSet(1..i) /\ IsFiniteSet(1..j)
    BY FS_Interval
  <2>2. QED
    BY <2>1, FS_Product
<1>2. m \in SUBSET ((1..i) \X (1..j))
  BY DEF AlignedTo
<1>3. IsFiniteSet(m)
  BY <1>1, <1>2, FS_Subset
<1>4. IsFiniteSet(Replaced(m, a, b))
  BY <1>3, FS_Subset DEF Replaced
<1>5. QED
  BY <1>3, <1>4, FS_CardinalityType

\* Aligning one more character of both costs nothing, or a replacement.
LEMMA OneMorePair ==
    ASSUME NEW i \in Nat, NEW j \in Nat, NEW m \in AlignedTo(i, j), NEW a, NEW b
    PROVE  /\ m \cup {<<i + 1, j + 1>>} \in AlignedTo(i + 1, j + 1)
           /\ EditsTo(m \cup {<<i + 1, j + 1>>}, a, b, i + 1, j + 1)
                = EditsTo(m, a, b, i, j) + (IF a[i + 1] = b[j + 1] THEN 0 ELSE 1)
<1> DEFINE new == <<i + 1, j + 1>>
           more == m \cup {new}
<1>1. \A p \in m : p[1] \in 1..i /\ p[2] \in 1..j /\ p \in (1..(i + 1)) \X (1..(j + 1))
  BY DEF AlignedTo
<1>2. new \notin m /\ new \in (1..(i + 1)) \X (1..(j + 1)) /\ new[1] = i + 1 /\ new[2] = j + 1
  BY <1>1
<1>3. more \in AlignedTo(i + 1, j + 1)
  <2>1. \A p, q \in m : p = q \/ (p[1] < q[1] /\ p[2] < q[2]) \/ (q[1] < p[1] /\ q[2] < p[2])
    BY DEF AlignedTo
  <2>2. \A p \in m : p[1] < new[1] /\ p[2] < new[2]
    BY <1>1, <1>2
  <2>3. more \in SUBSET ((1..(i + 1)) \X (1..(j + 1)))
    BY <1>1, <1>2
  <2> HIDE DEF new
  <2>4. \A p, q \in more : p = q \/ (p[1] < q[1] /\ p[2] < q[2]) \/ (q[1] < p[1] /\ q[2] < p[2])
    BY <2>1, <2>2
  <2>5. QED
    BY <2>3, <2>4 DEF AlignedTo
<1>4. /\ IsFiniteSet(m) /\ Cardinality(m) \in Nat
      /\ IsFiniteSet(Replaced(m, a, b)) /\ Cardinality(Replaced(m, a, b)) \in Nat
  BY AlignedIsFinite
<1>5. Cardinality(more) = Cardinality(m) + 1
  <2> HIDE DEF new
  <2>1. QED
    BY <1>2, <1>4, FS_AddElement
<1>6. Cardinality(Replaced(more, a, b))
        = Cardinality(Replaced(m, a, b)) + (IF a[i + 1] = b[j + 1] THEN 0 ELSE 1)
  <2>1. CASE a[i + 1] = b[j + 1]
    <3>1. Replaced(more, a, b) = Replaced(m, a, b)
      BY <1>2, <2>1 DEF Replaced
    <3>2. QED
      BY <1>4, <2>1, <3>1
  <2>2. CASE a[i + 1] # b[j + 1]
    <3>1. Replaced(more, a, b) = Replaced(m, a, b) \cup {new} /\ new \notin Replaced(m, a, b)
      BY <1>2, <2>2 DEF Replaced
    <3> HIDE DEF new, more
    <3>2. QED
      BY <1>4, <2>2, <3>1, FS_AddElement
  <2>3. QED
    BY <2>1, <2>2
<1> HIDE DEF more
<1>7. EditsTo(more, a, b, i + 1, j + 1) = EditsTo(m, a, b, i, j) + (IF a[i + 1] = b[j + 1] THEN 0 ELSE 1)
  BY <1>4, <1>5, <1>6 DEF EditsTo
<1>8. QED
  BY <1>3, <1>7 DEF more

\* An alignment of more characters aligns the last two, or does without one of them.
LEMMA LastPair ==
    ASSUME NEW i \in Nat, NEW j \in Nat, NEW m \in AlignedTo(i + 1, j + 1)
    PROVE  \/ m \in AlignedTo(i, j + 1)
           \/ m \in AlignedTo(i + 1, j)
           \/ \E r \in AlignedTo(i, j) : m = r \cup {<<i + 1, j + 1>>}
<1>1. /\ m \in SUBSET ((1..(i + 1)) \X (1..(j + 1)))
      /\ \A p, q \in m : p = q \/ (p[1] < q[1] /\ p[2] < q[2]) \/ (q[1] < p[1] /\ q[2] < p[2])
  BY DEF AlignedTo
<1>2. \A p \in m : p[1] \in 1..(i + 1) /\ p[2] \in 1..(j + 1) /\ p = <<p[1], p[2]>>
  BY <1>1
<1>3. CASE \A p \in m : p[1] # i + 1
  <2>1. \A p \in m : p[1] \in 1..i
    BY <1>2, <1>3
  <2>2. m \in SUBSET ((1..i) \X (1..(j + 1)))
    BY <1>2, <2>1
  <2>3. QED
    BY <1>1, <2>2 DEF AlignedTo
<1>4. CASE \A p \in m : p[2] # j + 1
  <2>1. \A p \in m : p[2] \in 1..j
    BY <1>2, <1>4
  <2>2. m \in SUBSET ((1..(i + 1)) \X (1..j))
    BY <1>2, <2>1
  <2>3. QED
    BY <1>1, <2>2 DEF AlignedTo
<1>5. ASSUME NEW p \in m, p[1] = i + 1, NEW q \in m, q[2] = j + 1
      PROVE  \E r \in AlignedTo(i, j) : m = r \cup {<<i + 1, j + 1>>}
  <2> DEFINE last == <<i + 1, j + 1>>
             r == m \ {last}
  <2>1. p = q
    <3>1. ~(p[1] < q[1]) /\ ~(q[2] < p[2])
      BY <1>2, <1>5
    <3>2. QED
      BY <1>1, <1>5, <3>1
  <2>2. p = last
    BY <1>2, <1>5, <2>1
  <2>3. \A s \in r : s[1] < i + 1 /\ s[2] < j + 1
    <3> TAKE s \in r
    <3>1. s # p /\ s \in m
      BY <2>2
    <3>2. (s[1] < p[1] /\ s[2] < p[2]) \/ (p[1] < s[1] /\ p[2] < s[2])
      BY <1>1, <1>5, <3>1
    <3>3. ~(p[1] < s[1])
      BY <1>2, <1>5, <3>1
    <3>4. QED
      BY <1>5, <2>1, <3>2, <3>3
  <2>4. \A s \in r : s[1] \in 1..i /\ s[2] \in 1..j /\ s = <<s[1], s[2]>>
    BY <1>2, <2>3
  <2>5. r \in AlignedTo(i, j)
    BY <1>1, <2>4 DEF AlignedTo
  <2>6. m = r \cup {last}
    BY <1>5, <2>2
  <2>7. QED
    BY <2>5, <2>6
<1>6. QED
  BY <1>3, <1>4, <1>5

\* Against nothing, every character is deleted or inserted.
LEMMA ShortestOfNothing ==
    ASSUME NEW a, NEW b, NEW i \in Nat, NEW j \in Nat, i = 0 \/ j = 0
    PROVE  Shortest(i + j, a, b, i, j)
<1>1. (1..i) \X (1..j) = {}
  <2>1. 1..i = {} \/ 1..j = {}
    OBVIOUS
  <2>2. QED
    BY <2>1
<1>2. AlignedTo(i, j) = {{}}
  BY <1>1 DEF AlignedTo
<1>3. Replaced({}, a, b) = {}
  BY DEF Replaced
<1>4. EditsTo({}, a, b, i, j) = i + j
  BY <1>3, FS_EmptySet DEF EditsTo
<1>5. QED
  BY <1>2, <1>4 DEF Shortest

\* A distance is that of one character less, on one side or both.
LEMMA ShortestOfOneMore ==
    ASSUME NEW a, NEW b, NEW i \in Nat, NEW j \in Nat,
           NEW x \in Int, Shortest(x, a, b, i, j + 1), NEW y \in Int, Shortest(y, a, b, i + 1, j),
           NEW z \in Int, Shortest(z, a, b, i, j), NEW c, c = (IF a[i + 1] = b[j + 1] THEN 0 ELSE 1),
           NEW d \in {x + 1, y + 1, z + c}, d <= x + 1, d <= y + 1, d <= z + c
    PROVE  Shortest(d, a, b, i + 1, j + 1)
<1> DEFINE cost(m, k, l) == EditsTo(m, a, b, k, l)
<1>1. ASSUME NEW m \in AlignedTo(i, j + 1)
      PROVE  m \in AlignedTo(i + 1, j + 1) /\ cost(m, i + 1, j + 1) = cost(m, i, j + 1) + 1
  <2>1. m \in AlignedTo(i + 1, j + 1)
    BY DEF AlignedTo
  <2>2. Cardinality(m) \in Nat /\ Cardinality(Replaced(m, a, b)) \in Nat
    BY AlignedIsFinite
  <2>3. QED
    BY <2>1, <2>2 DEF EditsTo
<1>2. ASSUME NEW m \in AlignedTo(i + 1, j)
      PROVE  m \in AlignedTo(i + 1, j + 1) /\ cost(m, i + 1, j + 1) = cost(m, i + 1, j) + 1
  <2>1. m \in AlignedTo(i + 1, j + 1)
    BY DEF AlignedTo
  <2>2. Cardinality(m) \in Nat /\ Cardinality(Replaced(m, a, b)) \in Nat
    BY AlignedIsFinite
  <2>3. QED
    BY <2>1, <2>2 DEF EditsTo
<1>3. ASSUME NEW m \in AlignedTo(i, j)
      PROVE  /\ m \cup {<<i + 1, j + 1>>} \in AlignedTo(i + 1, j + 1)
             /\ cost(m \cup {<<i + 1, j + 1>>}, i + 1, j + 1) = cost(m, i, j) + c
  BY OneMorePair
<1>4. \A k, l \in Nat : \A m \in AlignedTo(k, l) : cost(m, k, l) \in Int
  <2> TAKE k, l \in Nat
  <2> TAKE m \in AlignedTo(k, l)
  <2>1. Cardinality(m) \in Nat /\ Cardinality(Replaced(m, a, b)) \in Nat
    BY AlignedIsFinite
  <2>2. QED
    BY <2>1 DEF EditsTo
<1> HIDE DEF cost
<1>5. /\ \E m \in AlignedTo(i, j + 1) : cost(m, i, j + 1) = x
      /\ \A m \in AlignedTo(i, j + 1) : x <= cost(m, i, j + 1)
      /\ \E m \in AlignedTo(i + 1, j) : cost(m, i + 1, j) = y
      /\ \A m \in AlignedTo(i + 1, j) : y <= cost(m, i + 1, j)
      /\ \E m \in AlignedTo(i, j) : cost(m, i, j) = z
      /\ \A m \in AlignedTo(i, j) : z <= cost(m, i, j)
  BY DEF Shortest, cost
<1>6. \E m \in AlignedTo(i + 1, j + 1) : cost(m, i + 1, j + 1) = d
  <2>1. CASE d = x + 1
    BY <1>1, <1>5, <2>1
  <2>2. CASE d = y + 1
    BY <1>2, <1>5, <2>2
  <2>3. CASE d = z + c
    BY <1>3, <1>5, <2>3
  <2>4. QED
    BY <2>1, <2>2, <2>3
<1>7. ASSUME NEW m \in AlignedTo(i + 1, j + 1)
      PROVE  d <= cost(m, i + 1, j + 1)
  <2>0. c \in Int /\ d \in Int
    OBVIOUS
  <2>1. CASE m \in AlignedTo(i, j + 1)
    <3>1. x <= cost(m, i, j + 1) /\ cost(m, i + 1, j + 1) = cost(m, i, j + 1) + 1 /\ cost(m, i, j + 1) \in Int
      BY <1>1, <1>4, <1>5, <2>1
    <3>2. QED
      BY <2>0, <3>1
  <2>2. CASE m \in AlignedTo(i + 1, j)
    <3>1. y <= cost(m, i + 1, j) /\ cost(m, i + 1, j + 1) = cost(m, i + 1, j) + 1 /\ cost(m, i + 1, j) \in Int
      BY <1>2, <1>4, <1>5, <2>2
    <3>2. QED
      BY <2>0, <3>1
  <2>3. ASSUME NEW r \in AlignedTo(i, j), m = r \cup {<<i + 1, j + 1>>}
        PROVE  d <= cost(m, i + 1, j + 1)
    <3>1. z <= cost(r, i, j) /\ cost(m, i + 1, j + 1) = cost(r, i, j) + c /\ cost(r, i, j) \in Int
      BY <1>3, <1>4, <1>5, <2>3
    <3>2. QED
      BY <2>0, <3>1
  <2>4. QED
    BY <2>1, <2>2, <2>3, LastPair
<1>8. QED
  BY <1>6, <1>7 DEF Shortest, cost

\* Rows of distances, and what the next entry of one is.
Rows == {row \in Seq(Nat) : row # <<>>}
Cell(prev, curr, x, b, j) ==
    Min({prev[j + 1] + 1, Last(curr) + 1, prev[j] + (IF x = b[j] THEN 0 ELSE 1)})

\* Naturals add up to naturals.
LEMMA SumsAreNatural == 1 \in Nat /\ \A p, q \in Nat : p + q \in Nat
  OBVIOUS

\* The least of three numbers.
LEMMA LeastOfThree ==
    ASSUME NEW p \in Nat, NEW q \in Nat, NEW r \in Nat
    PROVE  LET d == Min({p, q, r}) IN d \in {p, q, r} /\ d <= p /\ d <= q /\ d <= r
<1> DEFINE S == {p, q, r}
<1>1. S \subseteq Nat /\ S # {}
  OBVIOUS
<1> HIDE DEF S
<1>2. Min(S) \in S /\ \A i \in S : Min(S) <= i
  BY <1>1, MinIsLeast
<1>3. QED
  BY <1>2 DEF S

\* NextRow is where a run over the characters of the other word ends.
RowEnds(prev, i, x, b, n, h) ==
    \E g : RunOf(g, n, Rows, <<i>>, h) /\ NextRow(prev, i, x, b) = g[n]

\* The fold of NextRow is such a run.
LEMMA RowRuns ==
    ASSUME NEW prev, NEW i \in Nat, NEW x, NEW b, NEW n \in Nat, Len(b) = n,
           NEW h, h \in [Rows \X (1..n) -> Rows],
           \A p \in Rows \X (1..n) : h[p] = Append(p[1], Cell(prev, p[1], x, b, p[2]))
    PROVE  RowEnds(prev, i, x, b, n, h)
<1> DEFINE base == <<i>>
           next(f, s) == IF s = {} THEN base
                         ELSE Append(f[s \ {Max(s)}], Cell(prev, f[s \ {Max(s)}], x, b, [j \in 1..n |-> j][Max(s)]))
<1>0. base \in Rows
  BY DEF Rows
<1>1. PICK f : Unfolds(f, n, Rows, base, h)
  <2> HIDE DEF base
  <2>1. Unfoldable(n, Rows, base, h)
    BY <1>0, FoldUnfolds
  <2>2. QED
    BY <2>1 DEF Unfoldable
<1>2. f = [s \in SUBSET (1..n) |-> next(f, s)]
  <2> HIDE DEF next
  <2>0. DOMAIN f = SUBSET (1..n) /\ f = [s \in DOMAIN f |-> f[s]]
    BY <1>1 DEF Unfolds
  <2> SUFFICES ASSUME NEW s \in SUBSET (1..n) PROVE f[s] = next(f, s)
    BY <2>0
  <2> USE DEF next
  <2>1. CASE s = {}
    BY <1>1, <2>1 DEF Unfolds
  <2>2. CASE s # {}
    <3>1. Max(s) \in 1..n /\ f[s \ {Max(s)}] \in Rows
      BY <1>1, <2>2, MaxOfFirst DEF Unfolds
    <3>2. f[s] = h[<<f[s \ {Max(s)}], Max(s)>>]
      BY <1>1, <2>2 DEF Unfolds
    <3>3. QED
      BY <2>2, <3>1, <3>2
  <2>3. QED
    BY <2>1, <2>2
<1>3. \E it : it = [s \in SUBSET (1..n) |-> next(it, s)] /\ NextRow(prev, i, x, b) = it[1..n]
  <2> DEFINE it == CHOOSE it : it = [s \in SUBSET (1..n) |-> next(it, s)]
  <2>1. it = [s \in SUBSET (1..n) |-> next(it, s)]
    BY <1>2
  <2>2. NextRow(prev, i, x, b) = it[1..n]
    BY DEF NextRow, Indices, FoldLeft, MapThenFoldSet, Cell
  <2> HIDE DEF it
  <2>3. QED
    BY <2>1, <2>2
<1>4. PICK it : it = [s \in SUBSET (1..n) |-> next(it, s)] /\ NextRow(prev, i, x, b) = it[1..n]
  BY <1>3
<1>5. \A s \in SUBSET (1..n) : it[s] = next(it, s)
  <2> HIDE DEF next
  <2>1. QED
    BY <1>4
<1>6. it[{}] = base
  BY <1>5
<1>7. ASSUME NEW k \in 1..n, it[1..(k - 1)] \in Rows PROVE it[1..k] = h[<<it[1..(k - 1)], k>>]
  <2>1. it[1..k] = next(it, 1..k)
    <3> HIDE DEF next
    <3>1. QED
      BY <1>5
  <2>2. 1..k # {} /\ Max(1..k) = k /\ (1..k) \ {k} = 1..(k - 1)
    BY MaxOfFirst
  <2>3. QED
    BY <1>7, <2>1, <2>2
<1>8. FoldsOn(it, n, Rows, base, h)
  BY <1>6, <1>7 DEF FoldsOn
<1>9. PICK g : RunOf(g, n, Rows, base, h) /\ it[1..n] = g[n]
  <2> HIDE DEF base
  <2>1. Runs(it, n, Rows, base, h)
    BY <1>0, <1>8, FoldRuns
  <2>2. QED
    BY <2>1 DEF Runs
<1>10. QED
  BY <1>4, <1>9 DEF RowEnds

\* A row up to entry k, made from the one before.
RowUpTo(row, prev, i, x, b, k) ==
    /\ row \in Seq(Nat) /\ Len(row) = k + 1 /\ row[1] = i
    /\ \A j \in 1..k : LET c == IF x = b[j] THEN 0 ELSE 1 IN
          /\ row[j + 1] \in {prev[j + 1] + 1, row[j] + 1, prev[j] + c}
          /\ row[j + 1] <= prev[j + 1] + 1 /\ row[j + 1] <= row[j] + 1 /\ row[j + 1] <= prev[j] + c

\* Each entry of the next row is the least of its three neighbours, one edit further.
LEMMA NextRowIs ==
    ASSUME NEW b, NEW n \in Nat, Len(b) = n, NEW prev \in Seq(Nat), Len(prev) = n + 1,
           NEW i \in Nat, NEW x
    PROVE  RowUpTo(NextRow(prev, i, x, b), prev, i, x, b, n)
<1> DEFINE c(j) == IF x = b[j] THEN 0 ELSE 1
           h == [p \in Rows \X (1..n) |-> Append(p[1], Cell(prev, p[1], x, b, p[2]))]
<1>1. \A j \in 1..n : prev[j] \in Nat /\ prev[j + 1] \in Nat /\ c(j) \in Nat
  OBVIOUS
<1>2. ASSUME NEW curr \in Rows, NEW j \in 1..n
      PROVE  LET d == Cell(prev, curr, x, b, j) IN
             /\ Len(curr) \in Nat /\ Len(curr) >= 1 /\ Last(curr) = curr[Len(curr)]
             /\ d \in Nat /\ d \in {prev[j + 1] + 1, Last(curr) + 1, prev[j] + c(j)}
             /\ d <= prev[j + 1] + 1 /\ d <= Last(curr) + 1 /\ d <= prev[j] + c(j)
             /\ Append(curr, d) \in Rows
  <2> HIDE DEF h
  <2>1. Len(curr) \in Nat /\ Len(curr) >= 1 /\ Last(curr) = curr[Len(curr)] /\ Last(curr) \in Nat
    BY DEF Rows, Last
  <2>2. prev[j + 1] + 1 \in Nat /\ Last(curr) + 1 \in Nat /\ prev[j] + c(j) \in Nat
    <3> HIDE DEF c
    <3>1. prev[j] \in Nat /\ prev[j + 1] \in Nat /\ c(j) \in Nat
      BY <1>1
    <3>2. Last(curr) \in Nat
      BY <2>1
    <3>3. QED
      BY ONLY <3>1, <3>2, SumsAreNatural
  <2> DEFINE d == Cell(prev, curr, x, b, j)
  <2>3. /\ d \in {prev[j + 1] + 1, Last(curr) + 1, prev[j] + c(j)}
        /\ d <= prev[j + 1] + 1 /\ d <= Last(curr) + 1 /\ d <= prev[j] + c(j)
    <3> HIDE DEF c
    <3>1. d = Min({prev[j + 1] + 1, Last(curr) + 1, prev[j] + c(j)})
      BY DEF Cell, c
    <3> HIDE DEF d
    <3>2. QED
      BY <2>2, <3>1, LeastOfThree
  <2> HIDE DEF c, d
  <2>4. d \in Nat
    BY <2>2, <2>3
  <2>5. Append(curr, d) \in Rows
    <3>1. curr \in Seq(Nat)
      BY DEF Rows
    <3>2. Append(curr, d) \in Seq(Nat) /\ Append(curr, d) # <<>>
      BY ONLY <2>4, <3>1, AppendProperties, ZenonT(30)
    <3>3. QED
      BY <3>2 DEF Rows
  <2>6. QED
    BY <2>1, <2>3, <2>4, <2>5 DEF d
<1>3. h \in [Rows \X (1..n) -> Rows]
  BY <1>2
<1>4. PICK g : RunOf(g, n, Rows, <<i>>, h) /\ NextRow(prev, i, x, b) = g[n]
  <2> HIDE DEF h
  <2>1. \A p \in Rows \X (1..n) : h[p] = Append(p[1], Cell(prev, p[1], x, b, p[2]))
    BY DEF h
  <2>2. RowEnds(prev, i, x, b, n, h)
    BY <1>3, <2>1, RowRuns
  <2>3. QED
    BY <2>2 DEF RowEnds
<1>5. g \in [0..n -> Rows] /\ g[0] = <<i>>
  BY <1>4 DEF RunOf
<1>6. \A k \in 1..n : g[k] = Append(g[k - 1], Cell(prev, g[k - 1], x, b, k))
  <2> TAKE k \in 1..n
  <2>1. g[k] = h[<<g[k - 1], k>>] /\ g[k - 1] \in Rows
    <3> HIDE DEF h
    <3>1. k - 1 \in 0..n
      OBVIOUS
    <3>2. QED
      BY <1>4, <1>5, <3>1 DEF RunOf
  <2>2. QED
    BY <2>1
<1> DEFINE G == {k \in 0..n : RowUpTo(g[k], prev, i, x, b, k)}
<1>7. 0 \in G
  <2>1. <<i>> \in Seq(Nat) /\ Len(<<i>>) = 1 /\ <<i>>[1] = i
    OBVIOUS
  <2>2. RowUpTo(<<i>>, prev, i, x, b, 0)
    BY <2>1 DEF RowUpTo
  <2>3. QED
    BY <1>5, <2>2
<1>8. ASSUME NEW k \in 0..(n - 1), k \in G PROVE k + 1 \in G
  <2> DEFINE curr == g[k]
             d == Cell(prev, curr, x, b, k + 1)
             row == Append(curr, d)
  <2>1. /\ curr \in Rows /\ curr \in Seq(Nat) /\ Len(curr) = k + 1 /\ curr[1] = i
        /\ \A j \in 1..k :
              /\ curr[j + 1] \in {prev[j + 1] + 1, curr[j] + 1, prev[j] + c(j)}
              /\ curr[j + 1] <= prev[j + 1] + 1 /\ curr[j + 1] <= curr[j] + 1
              /\ curr[j + 1] <= prev[j] + c(j)
    BY <1>5, <1>8 DEF RowUpTo
  <2>2. /\ d \in Nat /\ d \in {prev[(k + 1) + 1] + 1, Last(curr) + 1, prev[k + 1] + c(k + 1)}
        /\ d <= prev[(k + 1) + 1] + 1 /\ d <= Last(curr) + 1 /\ d <= prev[k + 1] + c(k + 1)
        /\ Last(curr) = curr[k + 1]
    <3> HIDE DEF d, c
    <3>1. k + 1 \in 1..n
      OBVIOUS
    <3>2. QED
      BY <1>2, <2>1, <3>1 DEF d
  <2>3. g[k + 1] = row
    <3>1. k + 1 \in 1..n /\ (k + 1) - 1 = k
      OBVIOUS
    <3>2. QED
      BY <1>6, <3>1
  <2> HIDE DEF d, c, curr, h
  <2>4. /\ row \in Seq(Nat) /\ Len(row) = k + 2 /\ row[k + 2] = d
        /\ \A j \in 1..(k + 1) : row[j] = curr[j]
    BY <2>1, <2>2
  <2> HIDE DEF row
  <2>5. ASSUME NEW j \in 1..(k + 1)
        PROVE  /\ row[j + 1] \in {prev[j + 1] + 1, row[j] + 1, prev[j] + c(j)}
               /\ row[j + 1] <= prev[j + 1] + 1 /\ row[j + 1] <= row[j] + 1
               /\ row[j + 1] <= prev[j] + c(j)
    <3>1. CASE j = k + 1
      <4>1. row[j + 1] = d /\ row[j] = Last(curr)
        BY <2>2, <2>4, <3>1
      <4>2. QED
        BY ONLY <2>2, <3>1, <4>1
    <3>2. CASE j \in 1..k
      <4>1. row[j] = curr[j] /\ row[j + 1] = curr[j + 1]
        BY <2>4, <3>2
      <4>2. QED
        BY <2>1, <3>2, <4>1
    <3>3. QED
      BY <3>1, <3>2
  <2>6. RowUpTo(row, prev, i, x, b, k + 1)
    <3>1. row \in Seq(Nat) /\ Len(row) = (k + 1) + 1 /\ row[1] = i
      BY <2>1, <2>4
    <3>2. QED
      BY <2>5, <3>1 DEF RowUpTo, c
  <2>7. QED
    BY <2>3, <2>6
<1>9. \A k \in 0..n : k \in G
  <2> HIDE DEF G
  <2>1. QED
    BY <1>7, <1>8, UpTo
<1>10. QED
  BY <1>4, <1>9

\* Row i of the distances between a and b: entry j + 1 is that of a's first i characters
\* and b's first j.
IsRow(row, a, b, i, n) ==
    /\ row \in Seq(Nat) /\ Len(row) = n + 1
    /\ \A j \in 0..n : Shortest(row[j + 1], a, b, i, j)

\* The next row is the next row of distances.
LEMMA NextRowMeasures ==
    ASSUME NEW a, NEW b, NEW n \in Nat, Len(b) = n, NEW i \in Nat, NEW prev, IsRow(prev, a, b, i, n)
    PROVE  IsRow(NextRow(prev, i + 1, a[i + 1], b), a, b, i + 1, n)
<1> DEFINE row == NextRow(prev, i + 1, a[i + 1], b)
<1>1. prev \in Seq(Nat) /\ Len(prev) = n + 1 /\ \A j \in 0..n : Shortest(prev[j + 1], a, b, i, j)
  BY DEF IsRow
<1>2. RowUpTo(row, prev, i + 1, a[i + 1], b, n)
  BY <1>1, NextRowIs
<1> HIDE DEF row
<1>3. row \in Seq(Nat) /\ Len(row) = n + 1 /\ row[1] = i + 1
  BY <1>2 DEF RowUpTo
<1> DEFINE G == {j \in 0..n : Shortest(row[j + 1], a, b, i + 1, j)}
<1>4. 0 \in G
  <2>1. Shortest((i + 1) + 0, a, b, i + 1, 0)
    BY ShortestOfNothing
  <2>2. (i + 1) + 0 = row[0 + 1]
    BY <1>3
  <2>3. QED
    BY <2>1, <2>2
<1>5. ASSUME NEW j \in 0..(n - 1), j \in G PROVE j + 1 \in G
  <2> DEFINE c == IF a[i + 1] = b[j + 1] THEN 0 ELSE 1
             x == prev[(j + 1) + 1]
             y == row[j + 1]
             z == prev[j + 1]
             d == row[(j + 1) + 1]
  <2>1. j \in Nat /\ j + 1 \in 1..n /\ j + 1 \in 0..n /\ j \in 0..n
    OBVIOUS
  <2>2. x \in Int /\ y \in Int /\ z \in Int /\ d \in Int
    BY <1>1, <1>3
  <2>3. Shortest(x, a, b, i, j + 1) /\ Shortest(z, a, b, i, j)
    BY <1>1, <2>1
  <2>4. Shortest(y, a, b, i + 1, j)
    BY <1>5
  <2>5. d \in {x + 1, y + 1, z + c} /\ d <= x + 1 /\ d <= y + 1 /\ d <= z + c
    BY <1>2, <2>1 DEF RowUpTo
  <2> HIDE DEF x, y, z, d
  <2>6. Shortest(d, a, b, i + 1, j + 1)
    <3>1. c = IF a[i + 1] = b[j + 1] THEN 0 ELSE 1
      OBVIOUS
    <3>2. i \in Nat
      OBVIOUS
    <3> HIDE DEF c, G
    <3>3. QED
      BY ONLY <2>1, <2>2, <2>3, <2>4, <2>5, <3>1, <3>2, ShortestOfOneMore, ZenonT(40)
  <2>7. QED
    BY <2>1, <2>6 DEF d
<1>6. \A j \in 0..n : j \in G
  <2> HIDE DEF G
  <2>1. QED
    BY <1>4, <1>5, UpTo
<1>7. QED
  BY <1>3, <1>6 DEF IsRow, row

\* Levenshtein is the last entry of where a run over the characters of a word ends.
WordRows(n) == {row \in Seq(Nat) : Len(row) = n + 1}
WordEnds(a, b, h) ==
    \E g : /\ RunOf(g, Len(a), WordRows(Len(b)), [j \in 1..(Len(b) + 1) |-> j - 1], h)
           /\ Levenshtein(a, b) = Last(g[Len(a)])

\* The fold of Levenshtein is such a run.
LEMMA WordRuns ==
    ASSUME NEW a, NEW b, NEW n \in Nat, NEW k \in Nat, Len(a) = n, DOMAIN a = 1..n, Len(b) = k,
           NEW h, h \in [WordRows(k) \X (1..n) -> WordRows(k)],
           \A p \in WordRows(k) \X (1..n) : h[p] = NextRow(p[1], p[2], a[p[2]], b)
    PROVE  WordEnds(a, b, h)
<1> DEFINE V == WordRows(k)
           base == [j \in 1..(k + 1) |-> j - 1]
           next(f, s) == IF s = {} THEN base
                         ELSE NextRow(f[s \ {Max(s)}], [j \in 1..n |-> j][Max(s)],
                                      a[[j \in 1..n |-> j][Max(s)]], b)
<1>0. base \in V
  <2>1. base \in [1..(k + 1) -> Nat]
    OBVIOUS
  <2>2. base \in Seq(Nat) /\ Len(base) = k + 1
    BY <2>1
  <2>3. QED
    BY <2>2 DEF WordRows
<1>1. PICK f : Unfolds(f, n, V, base, h)
  <2> HIDE DEF base, V
  <2>0. h \in [V \X (1..n) -> V]
    BY DEF V
  <2>1. Unfoldable(n, V, base, h)
    BY <1>0, <2>0, FoldUnfolds
  <2>2. QED
    BY <2>1 DEF Unfoldable
<1> HIDE DEF base
<1>2. f = [s \in SUBSET (1..n) |-> next(f, s)]
  <2> HIDE DEF next, V
  <2>0. DOMAIN f = SUBSET (1..n) /\ f = [s \in DOMAIN f |-> f[s]]
    BY <1>1 DEF Unfolds
  <2> SUFFICES ASSUME NEW s \in SUBSET (1..n) PROVE f[s] = next(f, s)
    BY <2>0
  <2> USE DEF next, V
  <2>1. CASE s = {}
    BY <1>1, <2>1 DEF Unfolds
  <2>2. CASE s # {}
    <3>1. Max(s) \in 1..n /\ f[s \ {Max(s)}] \in V
      BY <1>1, <2>2, MaxOfFirst DEF Unfolds
    <3>2. f[s] = h[<<f[s \ {Max(s)}], Max(s)>>]
      BY <1>1, <2>2 DEF Unfolds
    <3>3. QED
      BY <2>2, <3>1, <3>2
  <2>3. QED
    BY <2>1, <2>2
<1>3. \E it : it = [s \in SUBSET (1..n) |-> next(it, s)] /\ Levenshtein(a, b) = Last(it[1..n])
  <2> DEFINE it == CHOOSE it : it = [s \in SUBSET (1..n) |-> next(it, s)]
             walk == FoldLeftDomain(LAMBDA prev, i : NextRow(prev, i, a[i], b), base, a)
  <2>1. it = [s \in SUBSET (1..n) |-> next(it, s)]
    BY <1>2
  <2>2. walk = it[1..n]
    <3>1. [i \in DOMAIN a |-> i] = [i \in 1..n |-> i] /\ DOMAIN [i \in 1..n |-> i] = 1..n
      OBVIOUS
    <3>2. walk = FoldLeft(LAMBDA prev, i : NextRow(prev, i, a[i], b), base, [i \in 1..n |-> i])
      BY DEF FoldLeftDomain, NextRow
    <3>3. QED
      BY <3>2 DEF FoldLeft, MapThenFoldSet
  <2>3. Levenshtein(a, b) = Last(walk)
    BY DEF Levenshtein, base
  <2> HIDE DEF it, walk
  <2>4. QED
    BY <2>1, <2>2, <2>3
<1>4. PICK it : it = [s \in SUBSET (1..n) |-> next(it, s)] /\ Levenshtein(a, b) = Last(it[1..n])
  BY <1>3
<1>5. \A s \in SUBSET (1..n) : it[s] = next(it, s)
  <2> HIDE DEF next
  <2>1. QED
    BY <1>4
<1>6. it[{}] = base
  BY <1>5
<1>7. ASSUME NEW j \in 1..n, it[1..(j - 1)] \in V PROVE it[1..j] = h[<<it[1..(j - 1)], j>>]
  <2>1. it[1..j] = next(it, 1..j)
    <3> HIDE DEF next
    <3>1. QED
      BY <1>5
  <2>2. 1..j # {} /\ Max(1..j) = j /\ (1..j) \ {j} = 1..(j - 1)
    BY MaxOfFirst
  <2>3. QED
    BY <1>7, <2>1, <2>2
<1>8. FoldsOn(it, n, V, base, h)
  BY <1>6, <1>7 DEF FoldsOn
<1>9. PICK g : RunOf(g, n, V, base, h) /\ it[1..n] = g[n]
  <2> HIDE DEF V
  <2>1. h \in [V \X (1..n) -> V]
    BY DEF V
  <2>2. Runs(it, n, V, base, h)
    BY <1>0, <1>8, <2>1, FoldRuns
  <2>3. QED
    BY <2>2 DEF Runs
<1>10. QED
  BY <1>4, <1>9 DEF WordEnds, base

\* The two rows find the distance between two words.
LEMMA LevenshteinIsShortest ==
    ASSUME NEW a, NEW b, Len(a) \in Nat, DOMAIN a = 1..Len(a), Len(b) \in Nat
    PROVE  Levenshtein(a, b) \in Nat /\ Shortest(Levenshtein(a, b), a, b, Len(a), Len(b))
<1> DEFINE n == Len(a)
           k == Len(b)
           base == [j \in 1..(k + 1) |-> j - 1]
           h == [p \in WordRows(k) \X (1..n) |-> NextRow(p[1], p[2], a[p[2]], b)]
<1>1. n \in Nat /\ k \in Nat /\ DOMAIN a = 1..n
  OBVIOUS
<1> HIDE DEF n
<1>2. ASSUME NEW prev \in WordRows(k), NEW i \in 1..n
      PROVE  NextRow(prev, i, a[i], b) \in WordRows(k)
  <2>1. prev \in Seq(Nat) /\ Len(prev) = k + 1
    BY DEF WordRows
  <2>2. RowUpTo(NextRow(prev, i, a[i], b), prev, i, a[i], b, k)
    <3>1. i \in Nat
      BY <1>1
    <3>2. QED
      BY ONLY <1>1, <2>1, <3>1, NextRowIs DEF k
  <2>3. QED
    BY <2>2 DEF RowUpTo, WordRows
<1>3. h \in [WordRows(k) \X (1..n) -> WordRows(k)]
  BY <1>2
<1>4. PICK g : RunOf(g, n, WordRows(k), base, h) /\ Levenshtein(a, b) = Last(g[n])
  <2>1. \A p \in WordRows(k) \X (1..n) : h[p] = NextRow(p[1], p[2], a[p[2]], b)
    OBVIOUS
  <2> HIDE DEF h
  <2>2. WordEnds(a, b, h)
    BY <1>1, <1>3, <2>1, WordRuns DEF n
  <2>3. QED
    BY <2>2 DEF WordEnds, n
<1> DEFINE G == {i \in 0..n : IsRow(g[i], a, b, i, k)}
<1>5. 0 \in G
  <2>1. base \in [1..(k + 1) -> Nat]
    BY <1>1
  <2>2. base \in Seq(Nat) /\ Len(base) = k + 1
    BY <1>1, <2>1
  <2>3. ASSUME NEW j \in 0..k PROVE Shortest(base[j + 1], a, b, 0, j)
    <3>1. Shortest(0 + j, a, b, 0, j)
      <4>1. 0 \in Nat /\ j \in Nat
        BY <1>1
      <4>2. QED
        BY ONLY <4>1, ShortestOfNothing
    <3>2. 0 + j = base[j + 1]
      BY <1>1
    <3>3. QED
      BY <3>1, <3>2
  <2>4. g[0] = base
    BY <1>4 DEF RunOf
  <2> HIDE DEF base
  <2>5. QED
    BY <1>1, <2>2, <2>3, <2>4 DEF IsRow
<1>6. ASSUME NEW i \in 0..(n - 1), i \in G PROVE i + 1 \in G
  <2>1. i \in Nat /\ i + 1 \in 1..n /\ i + 1 \in 0..n /\ (i + 1) - 1 = i /\ i \in 0..n
    BY <1>1
  <2>2. g[i] \in WordRows(k) /\ g[i + 1] = h[<<g[i], i + 1>>]
    <3> HIDE DEF h
    <3>1. QED
      BY <1>4, <2>1 DEF RunOf
  <2>3. g[i + 1] = NextRow(g[i], i + 1, a[i + 1], b)
    BY <2>1, <2>2
  <2>4. IsRow(NextRow(g[i], i + 1, a[i + 1], b), a, b, i + 1, k)
    <3>1. IsRow(g[i], a, b, i, k)
      BY <1>6
    <3>2. QED
      BY <1>1, <2>1, <3>1, NextRowMeasures
  <2>5. QED
    BY <2>1, <2>3, <2>4
<1>7. n \in G
  <2> HIDE DEF G
  <2>1. \A i \in 0..n : i \in G
    BY <1>1, <1>5, <1>6, UpTo
  <2>2. QED
    BY <1>1, <2>1
<1>8. /\ g[n] \in Seq(Nat) /\ Len(g[n]) = k + 1 /\ Shortest(g[n][k + 1], a, b, n, k)
  BY <1>1, <1>7 DEF IsRow
<1>9. Last(g[n]) = g[n][k + 1] /\ g[n][k + 1] \in Nat
  BY <1>1, <1>8 DEF Last
<1>10. QED
  BY <1>4, <1>8, <1>9 DEF n

\* Two words are within d of each other.
Within(p, w, d) == \E m \in Alignments(p, w) : Edits(m, p, w) <= d

\* That is what Levenshtein tells.
LEMMA LevenshteinTells ==
    ASSUME NEW p, IsASequence(p), NEW w, IsASequence(w), NEW d \in Nat
    PROVE  /\ Levenshtein(p, w) \in Nat
           /\ Levenshtein(p, w) <= d <=> Within(p, w, d)
<1> DEFINE dist == Levenshtein(p, w)
<1>1. /\ Len(p) \in Nat /\ DOMAIN p = 1..Len(p)
      /\ Len(w) \in Nat /\ DOMAIN w = 1..Len(w)
  BY SequenceIs
<1>2. dist \in Nat /\ Shortest(dist, p, w, Len(p), Len(w))
  BY <1>1, LevenshteinIsShortest
<1>3. Alignments(p, w) = AlignedTo(Len(p), Len(w))
  BY <1>1 DEF Alignments, AlignedTo
<1>4. \A m \in Alignments(p, w) : Edits(m, p, w) = EditsTo(m, p, w, Len(p), Len(w))
  BY DEF Edits, EditsTo, Replaced
<1>5. \A m \in Alignments(p, w) : Edits(m, p, w) \in Int
  <2> TAKE m \in Alignments(p, w)
  <2>1. Cardinality(m) \in Nat /\ Cardinality(Replaced(m, p, w)) \in Nat
    BY <1>1, <1>3, AlignedIsFinite
  <2>2. QED
    BY <1>1, <1>4, <2>1 DEF EditsTo
<1> HIDE DEF dist
<1>6. /\ \E m \in Alignments(p, w) : Edits(m, p, w) = dist
      /\ \A m \in Alignments(p, w) : dist <= Edits(m, p, w)
  BY <1>2, <1>3, <1>4 DEF Shortest
<1>7. dist <= d <=> Within(p, w, d)
  BY <1>2, <1>5, <1>6 DEF Within
<1>8. QED
  BY <1>2, <1>7 DEF dist

\* The words of a text and a pattern.
AreWords(s) == IsASequence(s) /\ \A w \in ToSet(s) : IsASequence(w)

\* A score is a part of 1, and positive unless some word of the pattern is too far from
\* all of the text.
LEMMA FuzzyScoreTells ==
    ASSUME NEW text, AreWords(text), NEW pattern, AreWords(pattern), NEW d \in Nat
    PROVE  /\ FuzzyScore(text, pattern, d) > 0 <=>
               /\ pattern # <<>> /\ text # <<>>
               /\ \A p \in ToSet(pattern) : \E w \in ToSet(text) : Within(p, w, d)
           /\ FuzzyScore(text, pattern, d) \in 0..Unit
<1> DEFINE best(p) == Min({Levenshtein(p, w) : w \in ToSet(text)})
           worst == Max({best(p) : p \in ToSet(pattern)})
<1>0. Unit \in Nat /\ Unit > 0
  BY UnitAssumption
<1>1. CASE pattern = <<>> \/ text = <<>>
  BY <1>0, <1>1 DEF FuzzyScore
<1>2. CASE pattern # <<>> /\ text # <<>>
  <2>1. /\ Len(text) \in Nat /\ DOMAIN text = 1..Len(text)
        /\ Len(pattern) \in Nat /\ DOMAIN pattern = 1..Len(pattern)
        /\ text = [i \in 1..Len(text) |-> text[i]] /\ pattern = [i \in 1..Len(pattern) |-> pattern[i]]
    BY SequenceIs DEF AreWords, IsASequence
  <2>2. ToSet(text) # {} /\ Len(pattern) # 0
    <3>1. Len(text) # 0 /\ Len(pattern) # 0
      BY <1>2, <2>1
    <3>2. 1 \in DOMAIN text
      BY <2>1, <3>1
    <3>3. QED
      BY <3>1, <3>2 DEF ToSet
  <2>3. ASSUME NEW p \in ToSet(pattern)
        PROVE  /\ best(p) \in Nat
               /\ best(p) <= d <=> \E w \in ToSet(text) : Within(p, w, d)
    <3> DEFINE S == {Levenshtein(p, w) : w \in ToSet(text)}
    <3>1. \A w \in ToSet(text) : /\ Levenshtein(p, w) \in Nat
                                 /\ Levenshtein(p, w) <= d <=> Within(p, w, d)
      BY LevenshteinTells DEF AreWords
    <3>2. S \subseteq Nat /\ S # {}
      BY <2>2, <3>1
    <3>3. Min(S) \in S /\ \A y \in S : Min(S) <= y
      <4> HIDE DEF S
      <4>1. QED
        BY <3>2, MinIsLeast
    <3>4. PICK v \in ToSet(text) : Min(S) = Levenshtein(p, v)
      BY <3>3
    <3>5. \A w \in ToSet(text) : Min(S) <= Levenshtein(p, w)
      BY <3>3
    <3>6. best(p) = Min(S)
      OBVIOUS
    <3> HIDE DEF S, best
    <3>7. QED
      BY <3>1, <3>4, <3>5, <3>6
  <2> DEFINE f == [k \in 1..Len(pattern) |-> best(pattern[k])]
             B == {best(p) : p \in ToSet(pattern)}
  <2>4. ToSet(pattern) = {pattern[k] : k \in 1..Len(pattern)}
    BY <2>1 DEF ToSet
  <2>5. PICK j \in 1..Len(pattern) : \A k \in 1..Len(pattern) : f[k] <= f[j]
    <3>1. f \in [1..Len(pattern) -> Int] /\ Len(pattern) \in Nat \ {0}
      <4> HIDE DEF best
      <4>1. QED
        BY <2>1, <2>2, <2>3, <2>4
    <3> HIDE DEF f
    <3>2. QED
      BY <3>1, GreatestExists
  <2>6. worst = best(pattern[j]) /\ worst \in Nat /\ \A p \in ToSet(pattern) : best(p) <= worst
    <3> HIDE DEF best
    <3>1. \A k \in 1..Len(pattern) : best(pattern[k]) <= best(pattern[j])
      BY <2>5
    <3>2. pattern[j] \in ToSet(pattern) /\ \A p \in ToSet(pattern) : best(p) <= best(pattern[j])
      BY <2>4, <3>1
    <3>3. B \subseteq Int /\ best(pattern[j]) \in B /\ \A y \in B : y <= best(pattern[j])
      BY <2>3, <3>2
    <3> HIDE DEF B
    <3>4. Max(B) = best(pattern[j])
      BY <3>3, MaxIs
    <3>5. worst = Max(B)
      BY DEF B
    <3> HIDE DEF worst
    <3>6. QED
      BY <2>3, <3>2, <3>4, <3>5
  <2>7. worst <= d <=> \A p \in ToSet(pattern) : \E w \in ToSet(text) : Within(p, w, d)
    <3>1. pattern[j] \in ToSet(pattern)
      BY <2>4
    <3> HIDE DEF best, worst
    <3>2. QED
      BY <2>3, <2>6, <3>1
  <2>8. FuzzyScore(text, pattern, d) = IF worst > d THEN 0
                                       ELSE IF d = 0 THEN Unit
                                       ELSE Unit - (worst * Unit) \div (d + 1)
    BY <1>2 DEF FuzzyScore
  <2>9. ASSUME worst <= d PROVE (worst * Unit) \div (d + 1) < Unit
    <3> HIDE DEF worst
    <3>1. worst * Unit < (d + 1) * Unit
      BY <1>0, <2>6, <2>9
    <3>2. worst * Unit \in Nat
      BY <1>0, <2>6
    <3> DEFINE x == worst * Unit
               q == x \div (d + 1)
    <3>3. x \in Nat /\ x < (d + 1) * Unit
      BY <3>1, <3>2
    <3> HIDE DEF x
    <3>4. q \in Int /\ (d + 1) * q <= x
      BY <3>3
    <3> HIDE DEF q
    <3>5. (d + 1) * q < (d + 1) * Unit
      BY <1>0, <3>3, <3>4
    <3>6. q < Unit
      <4>1. SUFFICES ASSUME Unit <= q PROVE FALSE
        BY <1>0, <3>4
      <4>2. (d + 1) * Unit <= (d + 1) * q
        BY <1>0, <3>4, <4>1
      <4>3. QED
        BY <1>0, <3>4, <3>5, <4>2
    <3>7. QED
      BY <3>6 DEF q, x
  <2>10. (worst * Unit) \div (d + 1) \in Nat
    <3> HIDE DEF worst
    <3>1. worst * Unit \in Nat /\ d + 1 \in Int /\ d + 1 > 0
      BY <1>0, <2>6
    <3>2. QED
      BY <3>1
  <2>11. /\ FuzzyScore(text, pattern, d) > 0 <=> worst <= d
         /\ FuzzyScore(text, pattern, d) \in 0..Unit
    <3> DEFINE part == (worst * Unit) \div (d + 1)
    <3> HIDE DEF worst, part
    <3>1. part \in Nat /\ (worst <= d => part < Unit)
      BY <2>9, <2>10 DEF part
    <3>2. FuzzyScore(text, pattern, d) = IF worst > d THEN 0 ELSE IF d = 0 THEN Unit ELSE Unit - part
      BY <2>8 DEF part
    <3>3. QED
      BY <1>0, <2>6, <3>1, <3>2
  <2>12. QED
    BY <1>2, <2>7, <2>11
<1>3. QED
  BY <1>1, <1>2

\* FuzzyWithinDistance: for words, patterns and distances of every length, the two rows the distance is kept in
\* find the fewest edits, and the rule's score is positive exactly within its distance.
THEOREM FuzzyIsDistance == RouterSpec => []FuzzyWithinDistance
<1>1. InputInv => FuzzyWithinDistance
  <2> SUFFICES ASSUME InputInv, input.signal = "keyword",
                      NEW i \in DOMAIN input.rules, input.rules[i].strategy = "fuzzy",
                      NEW pattern \in ToSet(input.rules[i].patterns)
               PROVE  FuzzyScore(input.text, pattern, input.rules[i].maxDist) > 0 <=>
                        /\ pattern # <<>> /\ input.text # <<>>
                        /\ \A p \in ToSet(pattern) : \E word \in ToSet(input.text) :
                              Within(p, word, input.rules[i].maxDist)
    BY DEF FuzzyWithinDistance, Answered, Within
  <2>1. input.rules[i] \in ToSet(input.rules)
    BY DEF ToSet
  <2>2. /\ IsASequence(input.text) /\ \A word \in ToSet(input.text) : IsASequence(word)
        /\ \A rule \in ToSet(input.rules) : rule.strategy = "fuzzy" =>
              /\ rule.maxDist \in Nat
              /\ \A q \in ToSet(rule.patterns) :
                    IsASequence(q) /\ \A word \in ToSet(q) : IsASequence(word)
    BY InputsAssumption DEF InputInv
  <2>3. AreWords(input.text) /\ AreWords(pattern) /\ input.rules[i].maxDist \in Nat
    BY <2>1, <2>2 DEF AreWords
  <2>4. QED
    BY <2>3, FuzzyScoreTells
<1>2. QED
  BY <1>1, InitInput, NextInput, PTL DEF RouterSpec

-----------------------------------------------------------------------------
(* Fractions of Unit *)

\* A multiple is no less than that of no more.
LEMMA TimesKeeps ==
    ASSUME NEW d \in Nat, NEW a \in Int, NEW b \in Int, a <= b
    PROVE  d * a \in Int /\ d * b \in Int /\ d * a <= d * b
<1>1. b - a \in Nat
  OBVIOUS
<1>2. d * (b - a) >= 0
  BY <1>1
<1>3. d * (b - a) = d * b - d * a
  OBVIOUS
<1>4. QED
  BY <1>2, <1>3

\* What lies between two multiples of d lies between their quotients when d divides it.
LEMMA QuotientBetween ==
    ASSUME NEW d \in Nat \ {0}, NEW x \in Int, NEW a \in Int, NEW b \in Int,
           d * a <= x, x <= d * b
    PROVE  x \div d \in a..b
<1> DEFINE q == x \div d
<1>1. q \in Int /\ d * q <= x /\ x < d * (q + 1)
  OBVIOUS
<1> HIDE DEF q
<1>2. a <= q
  <2>1. SUFFICES ASSUME q + 1 <= a PROVE FALSE
    BY <1>1
  <2>2. d * (q + 1) <= d * a /\ d * (q + 1) \in Int /\ d * a \in Int
    BY <1>1, <2>1, TimesKeeps
  <2>3. QED
    BY <1>1, <2>2
<1>3. q <= b
  <2>1. SUFFICES ASSUME b + 1 <= q PROVE FALSE
    BY <1>1
  <2>2. d * (b + 1) <= d * q /\ d * (b + 1) \in Int /\ d * q \in Int
    BY <1>1, <2>1, TimesKeeps
  <2>3. d * (b + 1) = d * b + d /\ d * b \in Int
    OBVIOUS
  <2>4. QED
    BY <1>1, <2>2, <2>3
<1>4. q \in a..b
  BY <1>1, <1>2, <1>3
<1>5. QED
  BY <1>4 DEF q

\* The part c of n of a whole.
LEMMA PartOfUnit ==
    ASSUME NEW n \in Nat \ {0}, NEW c \in 0..n
    PROVE  (Unit * c) \div n \in 0..Unit
<1>1. Unit \in Nat
  BY UnitAssumption
<1>2. Unit * c <= Unit * n /\ 0 <= Unit * c /\ Unit * c \in Int
  BY <1>1, TimesKeeps
<1>3. n * 0 <= Unit * c /\ Unit * c <= n * Unit
  BY <1>1, <1>2
<1>4. QED
  BY <1>1, <1>2, <1>3, QuotientBetween

\* The percentages lie between 0 and 1.
LEMMA PercentInRange ==
    ASSUME NEW p \in 0..100
    PROVE  Percent(p) \in 0..Unit
<1>1. Unit \in Nat
  BY UnitAssumption
<1>2. Unit * p <= Unit * 100 /\ 0 <= Unit * p /\ Unit * p \in Int
  BY <1>1, TimesKeeps
<1>3. 100 * 0 <= p * Unit /\ p * Unit <= 100 * Unit /\ p * Unit \in Int
  BY <1>1, <1>2
<1>4. (p * Unit) \div 100 \in 0..Unit
  BY <1>1, <1>3, QuotientBetween
<1>5. QED
  BY <1>4 DEF Percent

-----------------------------------------------------------------------------
(* The language *)

\* The languages a text may be in, of which the first has the most hits.
IsScored(order, hits, total) ==
    LET likely == {l \in DOMAIN hits : hits[l] >= 2 /\ 100 * hits[l] >= 8 * total}
    IN  /\ order \in Bijection(1..Cardinality(likely), likely)
        /\ Cardinality(likely) \in Nat
        /\ \A i, j \in 1..Cardinality(likely) : i < j => hits[order[i]] >= hits[order[j]]

\* That is what score returns.
LEMMA ScoredIs ==
    ASSUME NEW hits, IsASequence(hits), ToSet(hits) \subseteq Nat, NEW total \in Nat
    PROVE  IsScored(Scored(hits, total), hits, total)
<1> DEFINE E == {l \in DOMAIN hits : hits[l] >= 2 /\ 100 * hits[l] >= 8 * total}
           R == {p \in E \X E : hits[p[1]] > hits[p[2]] \/ (hits[p[1]] = hits[p[2]] /\ p[1] <= p[2])}
<1>1. /\ E \subseteq 1..Len(hits) /\ Len(hits) \in Nat /\ \A l \in E : l \in Nat /\ hits[l] \in Nat
  BY SequenceIs
<1>2. IsFiniteSet(E) /\ Cardinality(E) \in Nat
  BY <1>1, PartsAreFinite
<1>3. \A l, m \in E : <<l, m>> \in R <=> hits[l] > hits[m] \/ (hits[l] = hits[m] /\ l <= m)
  OBVIOUS
<1> DEFINE order == Scored(hits, total)
           n == Cardinality(E)
           falls(q) == \A i, j \in DOMAIN q : i < j => \/ hits[q[i]] > hits[q[j]]
                                                       \/ hits[q[i]] = hits[q[j]] /\ q[i] <= q[j]
<1>4. order = CHOOSE o \in Bijection(1..n, E) : falls(o)
  BY DEF Scored, SortedBy
<1> HIDE DEF E, R, order, n, falls
<1>5. Orders(R, E)
  <2>1. \A l, m \in E : <<l, m>> \in R \/ <<m, l>> \in R
    <3> TAKE l, m \in E
    <3>1. l \in Nat /\ m \in Nat /\ hits[l] \in Nat /\ hits[m] \in Nat
      BY <1>1
    <3>2. QED
      BY <1>3, <3>1
  <2>2. \A l, m, k \in E : <<l, m>> \in R /\ <<m, k>> \in R => <<l, k>> \in R
    <3> TAKE l, m, k \in E
    <3>1. /\ l \in Nat /\ m \in Nat /\ k \in Nat
          /\ hits[l] \in Nat /\ hits[m] \in Nat /\ hits[k] \in Nat
      BY <1>1
    <3>2. QED
      BY <1>3, <3>1
  <2>3. QED
    BY <2>1, <2>2 DEF Orders
<1>6. PICK o : IsOrder(o, R, E)
  BY <1>2, <1>5, OrderExists DEF Sortable
<1>7. o \in Bijection(1..n, E) /\ falls(o)
  <2>1. o \in Bijection(1..n, E) /\ \A i, j \in 1..n : i < j => <<o[i], o[j]>> \in R
    BY <1>6 DEF IsOrder, n
  <2>2. o \in [1..n -> E]
    BY <2>1 DEF Bijection, Injection
  <2>3. QED
    BY <1>3, <2>1, <2>2 DEF falls
<1>8. order \in Bijection(1..n, E) /\ falls(order)
  BY <1>4, <1>7
<1>9. order \in [1..n -> E]
  BY <1>8 DEF Bijection, Injection
<1>10. \A i, j \in 1..n : i < j => hits[order[i]] >= hits[order[j]]
  <2> SUFFICES ASSUME NEW i \in 1..n, NEW j \in 1..n, i < j PROVE hits[order[i]] >= hits[order[j]]
    OBVIOUS
  <2>1. hits[order[i]] > hits[order[j]] \/ hits[order[i]] = hits[order[j]]
    BY <1>8, <1>9 DEF falls
  <2>2. hits[order[i]] \in Nat /\ hits[order[j]] \in Nat
    BY <1>1, <1>9
  <2>3. QED
    BY ONLY <2>1, <2>2
<1>11. QED
  BY <1>2, <1>8, <1>10 DEF IsScored, E, n, order

\* The confidence in a language lies between 0 and 1, whatever the margin.
LEMMA DetectedInRange ==
    ASSUME NEW l, NEW hits, hits[l] \in Nat, NEW total \in Nat \ {0},
           NEW num \in Nat, NEW den \in Nat \ {0}
    PROVE  ToDetected(l, hits, total, num, den).confidence \in 0..Unit
<1> DEFINE ratio == (Unit * hits[l]) \div total
           margin == (Percent(15) * num) \div den
<1>1. Unit \in Nat
  BY UnitAssumption
<1>2. Percent(45) \in 0..Unit /\ Percent(35) \in 0..Unit /\ Percent(15) \in 0..Unit /\ Percent(95) \in 0..Unit
  BY PercentInRange
<1>3. \A x \in Nat : \A d \in Nat \ {0} : x \div d \in Nat
  OBVIOUS
<1>4. Unit * hits[l] \in Nat /\ Percent(15) * num \in Nat
  <2>1. \A a, b \in Nat : a * b \in Nat
    OBVIOUS
  <2>2. QED
    BY <1>1, <1>2, <2>1
<1>5. ratio \in Nat /\ margin \in Nat
  BY <1>3, <1>4
<1>6. ToDetected(l, hits, total, num, den).confidence =
          Minimum(Percent(45) + Minimum(ratio, Percent(35)) + margin, Percent(95))
  BY DEF ToDetected
<1> HIDE DEF ratio, margin
<1>7. QED
  BY <1>1, <1>2, <1>5, <1>6 DEF Minimum

\* What is detected, if anything is.
LEMMA LanguageInRange ==
    ASSUME NEW hits, IsASequence(hits), NEW total \in Nat, ToSet(hits) \subseteq 0..total
    PROVE  Detect(hits, total) # <<>> => Detect(hits, total)[1].confidence \in 0..Unit
<1> DEFINE E == {l \in DOMAIN hits : hits[l] >= 2 /\ 100 * hits[l] >= 8 * total}
           n == Cardinality(E)
           scored == Scored(hits, total)
<1>1. IsScored(scored, hits, total)
  BY ScoredIs
<1>2. /\ scored \in [1..n -> E] /\ n \in Nat
      /\ \A i, j \in 1..n : i < j => hits[scored[i]] >= hits[scored[j]]
  BY <1>1 DEF IsScored, Bijection, Injection
<1>3. \A l \in E : hits[l] \in Nat /\ hits[l] >= 2 /\ hits[l] <= total
  BY SequenceIs
<1>4. Detect(hits, total) = IF scored = <<>> THEN <<>> ELSE <<Winner(scored, hits, total)>>
  BY DEF Detect
<1> HIDE DEF E, n, scored
<1>5. SUFFICES ASSUME scored # <<>> PROVE Winner(scored, hits, total).confidence \in 0..Unit
  BY <1>4
<1>6. DOMAIN scored = 1..n /\ Len(scored) = n /\ n # 0
  <2>1. DOMAIN scored = 1..n /\ scored \in Seq(E) /\ Len(scored) = n
    BY <1>2
  <2>2. QED
    BY <1>5, <2>1
<1>7. scored[1] \in E /\ total \in Nat \ {0} /\ hits[scored[1]] \in Nat \ {0}
  <2>1. 1 \in 1..n
    BY <1>2, <1>6
  <2>2. scored[1] \in E
    BY <1>2, <2>1
  <2>3. QED
    BY <1>3, <2>2
<1>8. CASE n = 1
  <2>1. Winner(scored, hits, total) = ToDetected(scored[1], hits, total, 1, 1)
    BY <1>6, <1>8 DEF Winner
  <2>2. QED
    BY <1>7, <2>1, DetectedInRange
<1>9. CASE n > 1
  <2>1. 1 \in 1..n /\ 2 \in 1..n
    BY <1>2, <1>9
  <2>2. scored[2] \in E /\ hits[scored[1]] >= hits[scored[2]]
    BY <1>2, <2>1
  <2>3. hits[scored[1]] - hits[scored[2]] \in Nat
    BY <1>3, <1>7, <2>2
  <2>4. Winner(scored, hits, total) =
            ToDetected(scored[1], hits, total, hits[scored[1]] - hits[scored[2]], hits[scored[1]])
    BY <1>6, <1>9 DEF Winner
  <2>5. QED
    BY <1>7, <2>3, <2>4, DetectedInRange
<1>10. QED
  BY <1>2, <1>6, <1>8, <1>9

-----------------------------------------------------------------------------
(* Keyword rules *)

\* The words of a text one after the other, up to the k-th.
Joined(g, seqs, C) ==
    /\ g \in [1..Len(seqs) -> Seq(C)]
    /\ \A k \in 1..Len(seqs) : g[k] = IF k = 1 THEN seqs[k] ELSE g[k - 1] \o seqs[k]

\* There are such.
LEMMA JoinedExists ==
    ASSUME NEW C, NEW seqs \in Seq(Seq(C)), Len(seqs) # 0
    PROVE  \E g : Joined(g, seqs, C)
<1> DEFINE n == Len(seqs)
           V == Seq(C)
           h == [p \in V \X (1..n) |-> p[1] \o seqs[p[2]]]
<1>1. n \in Nat \ {0} /\ \A k \in 1..n : seqs[k] \in V
  BY LenProperties
<1>2. <<>> \in V /\ \A s, t \in V : s \o t \in V /\ <<>> \o t = t
  BY EmptySeq, ConcatProperties, ConcatEmptySeq
<1>3. h \in [V \X (1..n) -> V]
  BY <1>1, <1>2
<1>4. \A s \in V : \A k \in 1..n : h[<<s, k>>] = s \o seqs[k]
  OBVIOUS
<1> HIDE DEF n, V, h
<1>5. PICK f : Unfolds(f, n, V, <<>>, h)
  BY <1>1, <1>2, <1>3, FoldUnfolds DEF Unfoldable
<1> DEFINE g == [k \in 1..n |-> f[1..k]]
<1>6. \A k \in 1..n : f[1..(k - 1)] \in V /\ f[1..k] = f[1..(k - 1)] \o seqs[k]
  <2> TAKE k \in 1..n
  <2>1. 1..k # {} /\ Max(1..k) = k /\ (1..k) \ {k} = 1..(k - 1)
    BY <1>1, MaxOfFirst
  <2>2. 1..k \in SUBSET (1..n) /\ 1..(k - 1) \in SUBSET (1..n)
    BY <1>1
  <2>3. f[1..(k - 1)] \in V
    BY <1>5, <2>2 DEF Unfolds
  <2>4. f[1..k] = h[<<f[1..(k - 1)], k>>]
    BY <1>5, <2>1, <2>2 DEF Unfolds
  <2>5. QED
    BY <1>4, <2>3, <2>4
<1>7. g \in [1..n -> V]
  <2> SUFFICES ASSUME NEW k \in 1..n PROVE f[1..k] \in V
    OBVIOUS
  <2>1. f[1..(k - 1)] \in V /\ f[1..k] = f[1..(k - 1)] \o seqs[k] /\ seqs[k] \in V
    BY <1>1, <1>6
  <2>2. QED
    BY <1>2, <2>1
<1>8. \A k \in 1..n : g[k] = IF k = 1 THEN seqs[k] ELSE g[k - 1] \o seqs[k]
  <2> SUFFICES ASSUME NEW k \in 1..n PROVE g[k] = IF k = 1 THEN seqs[k] ELSE g[k - 1] \o seqs[k]
    OBVIOUS
  <2>1. CASE k = 1
    <3>1. f[{}] = <<>>
      BY <1>5 DEF Unfolds
    <3>2. 1..(k - 1) = {}
      BY <2>1
    <3>3. f[1..(k - 1)] = <<>>
      BY <3>1, <3>2
    <3>4. g[k] = <<>> \o seqs[k]
      BY <1>6, <3>3
    <3>5. QED
      BY <1>1, <1>2, <2>1, <3>4
  <2>2. CASE k # 1
    <3>1. k - 1 \in 1..n
      BY <1>1, <2>2
    <3>2. QED
      BY <1>6, <2>2, <3>1
  <2>3. QED
    BY <2>1, <2>2
<1> HIDE DEF g
<1>9. Joined(g, seqs, C)
  BY <1>7, <1>8 DEF Joined, n, V
<1>10. QED
  BY <1>9

\* Words make up one sequence of characters.
LEMMA FlattenIs ==
    ASSUME NEW words, AreWords(words)
    PROVE  Len(FlattenSeq(words)) \in Nat
<1> DEFINE C == UNION {ToSet(w) : w \in ToSet(words)}
           n == Len(words)
           next(g, k) == IF k = 1 THEN words[k] ELSE g[k - 1] \o words[k]
<1>1. n \in Nat /\ words \in Seq(ToSet(words))
  BY SequenceIs DEF AreWords
<1>2. ToSet(words) \subseteq Seq(C)
  <2> SUFFICES ASSUME NEW w \in ToSet(words) PROVE w \in Seq(C)
    OBVIOUS
  <2>1. w \in Seq(ToSet(w)) /\ ToSet(w) \subseteq C
    BY SequenceIs DEF AreWords
  <2> HIDE DEF C
  <2>2. QED
    BY <2>1
<1> HIDE DEF C
<1>3. words \in Seq(Seq(C))
  BY <1>1, <1>2
<1>4. CASE n = 0
  BY <1>1, <1>4 DEF FlattenSeq
<1>5. CASE n # 0
  <2>1. PICK g : Joined(g, words, C)
    BY <1>3, <1>5, JoinedExists
  <2>2. g = [k \in 1..n |-> next(g, k)] /\ g \in [1..n -> Seq(C)]
    BY <2>1 DEF Joined
  <2> DEFINE flatten == CHOOSE it : it = [k \in 1..n |-> next(it, k)]
  <2>3. flatten = [k \in 1..n |-> next(flatten, k)]
    BY <2>2
  <2>4. FlattenSeq(words) = flatten[n]
    BY <1>5 DEF FlattenSeq
  <2> HIDE DEF flatten
  <2>5. \A k \in 1..n : flatten[k] = next(flatten, k) /\ g[k] = next(g, k)
    BY <2>2, <2>3
  <2> HIDE DEF next
  <2> DEFINE G == {k \in 0..n : k # 0 => flatten[k] = g[k]}
  <2>6. 0 \in G
    BY <1>1
  <2>7. \A k \in 0..(n - 1) : k \in G => k + 1 \in G
    <3> SUFFICES ASSUME NEW k \in 0..(n - 1), k # 0 => flatten[k] = g[k] PROVE flatten[k + 1] = g[k + 1]
      BY <1>1
    <3>1. k + 1 \in 1..n /\ (k + 1) - 1 = k /\ (k + 1 = 1 <=> k = 0)
      BY <1>1
    <3>2. next(flatten, k + 1) = next(g, k + 1)
      BY <3>1 DEF next
    <3>3. QED
      BY <2>5, <3>1, <3>2
  <2>8. n \in G
    <3> HIDE DEF G
    <3>1. \A k \in 0..n : k \in G
      BY <1>1, <2>6, <2>7, UpTo
    <3>2. QED
      BY <1>1, <3>1
  <2>9. FlattenSeq(words) \in Seq(C)
    BY <1>1, <1>5, <2>2, <2>4, <2>8
  <2>10. QED
    BY <2>9, LenProperties
<1>6. QED
  BY <1>4, <1>5

\* The part of the trigrams two words share.
LEMMA TrigramInRange ==
    ASSUME NEW text, Len(text) \in Nat, NEW pattern, Len(pattern) \in Nat
    PROVE  TrigramScore(text, pattern) \in 0..Unit
<1> DEFINE t == Trigrams(text)
           p == Trigrams(pattern)
           shared == {i \in DOMAIN p : Contains(t, p[i])}
           n == Maximum(Len(t), Len(p))
<1>1. TrigramScore(text, pattern) = IF p = <<>> THEN 0 ELSE (Unit * Cardinality(shared)) \div n
  BY DEF TrigramScore
<1>2. \A w : Len(w) \in Nat => Len(Trigrams(w)) \in Nat /\ DOMAIN Trigrams(w) = 1..Len(Trigrams(w))
                                  /\ (Len(Trigrams(w)) = 0 => Trigrams(w) = <<>>)
  <2> SUFFICES ASSUME NEW w, Len(w) \in Nat
               PROVE  Len(Trigrams(w)) \in Nat /\ DOMAIN Trigrams(w) = 1..Len(Trigrams(w))
                         /\ (Len(Trigrams(w)) = 0 => Trigrams(w) = <<>>)
    OBVIOUS
  <2> DEFINE k == Maximum(Len(w) - 2, 0)
  <2>1. k \in Nat
    BY DEF Maximum
  <2>2. Trigrams(w) = [i \in 1..k |-> SubSeq(w, i, i + 2)]
    BY DEF Trigrams
  <2> HIDE DEF k
  <2>3. DOMAIN Trigrams(w) = 1..k /\ Len(Trigrams(w)) = k
    BY <2>1, <2>2
  <2>4. k = 0 => Trigrams(w) = <<>>
    BY <2>2
  <2>5. QED
    BY <2>1, <2>3, <2>4
<1>3. /\ Len(t) \in Nat /\ Len(p) \in Nat /\ DOMAIN p = 1..Len(p) /\ (Len(p) = 0 => p = <<>>)
  BY <1>2
<1>4. Cardinality(shared) \in 0..Len(p)
  <2>1. shared \subseteq 1..Len(p)
    BY <1>3
  <2> HIDE DEF shared
  <2>2. IsFiniteSet(1..Len(p)) /\ Cardinality(1..Len(p)) = Len(p)
    <3> DEFINE k == Len(p)
    <3>1. k \in Nat
      BY <1>3
    <3> HIDE DEF k
    <3>2. Cardinality(1..k) = IF 1 > k THEN 0 ELSE k - 1 + 1
      BY <3>1, FS_Interval
    <3>3. IsFiniteSet(1..k) /\ Cardinality(1..k) = k
      BY <3>1, <3>2, FS_Interval
    <3>4. QED
      BY <3>3 DEF k
  <2>3. IsFiniteSet(shared) /\ Cardinality(shared) \in Nat /\ Cardinality(shared) <= Cardinality(1..Len(p))
    BY <2>1, <2>2, FS_Subset, FS_CardinalityType
  <2> HIDE DEF p
  <2>4. QED
    BY <1>3, <2>2, <2>3
<1> HIDE DEF t, p, shared
<1>5. p # <<>> => n \in Nat \ {0} /\ Cardinality(shared) \in 0..n
  BY <1>3, <1>4 DEF Maximum
<1> HIDE DEF n
<1>6. p # <<>> => (Unit * Cardinality(shared)) \div n \in 0..Unit
  BY <1>5, PartOfUnit
<1>7. QED
  BY <1>1, <1>6, UnitAssumption

\* What a rule of a keyword signal is made of.
IsKeywordRule(rule) ==
    /\ rule.operator \in {"or", "and", "nor"} /\ IsASequence(rule.patterns)
    /\ rule.strategy \in {"given", "trigram", "fuzzy"}
    /\ rule.strategy = "given" => ToSet(rule.patterns) \subseteq {Invalid} \cup 0..Unit
    /\ rule.strategy = "trigram" => \A pattern \in ToSet(rule.patterns) : AreWords(pattern)
    /\ rule.strategy = "fuzzy" =>
          rule.maxDist \in Nat /\ \A pattern \in ToSet(rule.patterns) : AreWords(pattern)

\* Every pattern is scored in the range, or is invalid.
LEMMA PatternInRange ==
    ASSUME NEW text, AreWords(text), NEW rule, IsKeywordRule(rule), NEW pattern \in ToSet(rule.patterns)
    PROVE  PatternScore(text, pattern, rule) \in {Invalid} \cup 0..Unit
<1>1. CASE rule.strategy = "given"
  <2>1. PatternScore(text, pattern, rule) = pattern
    BY <1>1 DEF PatternScore
  <2>2. QED
    BY <1>1, <2>1 DEF IsKeywordRule
<1>2. CASE rule.strategy = "trigram"
  <2>1. PatternScore(text, pattern, rule) = TrigramScore(FlattenSeq(text), FlattenSeq(pattern))
    BY <1>2 DEF PatternScore
  <2>2. AreWords(pattern)
    BY <1>2 DEF IsKeywordRule
  <2>3. Len(FlattenSeq(text)) \in Nat /\ Len(FlattenSeq(pattern)) \in Nat
    BY <2>2, FlattenIs
  <2>4. TrigramScore(FlattenSeq(text), FlattenSeq(pattern)) \in 0..Unit
    BY <2>3, TrigramInRange
  <2>5. QED
    BY <2>1, <2>4
<1>3. CASE rule.strategy = "fuzzy"
  <2>1. PatternScore(text, pattern, rule) = FuzzyScore(text, pattern, rule.maxDist)
    BY <1>3 DEF PatternScore
  <2>2. AreWords(pattern) /\ rule.maxDist \in Nat
    BY <1>3 DEF IsKeywordRule
  <2>3. FuzzyScore(text, pattern, rule.maxDist) \in 0..Unit
    BY <2>2, FuzzyScoreTells
  <2>4. QED
    BY <2>1, <2>3
<1>4. QED
  BY <1>1, <1>2, <1>3 DEF IsKeywordRule

\* So is every rule but one that asks for all of no patterns.
LEMMA RuleInRange ==
    ASSUME NEW text, AreWords(text), NEW rule, IsKeywordRule(rule)
    PROVE  \/ RuleScore(text, rule) \in {Invalid} \cup 0..Unit
           \/ rule.operator = "and" /\ rule.patterns = <<>>
<1> DEFINE scores == {PatternScore(text, pattern, rule) : pattern \in ToSet(rule.patterns)}
           all(low) == \A s \in scores : (s >= rule.threshold) = low
           combined == CASE rule.operator = "or" -> Max(scores \cup {0})
                         [] rule.operator = "and" -> IF all(TRUE) THEN Min(scores \cup {MaxFloat}) ELSE 0
                         [] rule.operator = "nor" -> IF all(FALSE) THEN Unit ELSE 0
<1>1. RuleScore(text, rule) = IF Invalid \in scores THEN Invalid ELSE combined
  BY Zenon DEF RuleScore
<1>2. scores \subseteq {Invalid} \cup 0..Unit
  BY PatternInRange
<1>3. rule.patterns # <<>> => scores # {}
  <2>1. Len(rule.patterns) \in Nat /\ rule.patterns = [i \in 1..Len(rule.patterns) |-> rule.patterns[i]]
        /\ \A i \in 1..Len(rule.patterns) : rule.patterns[i] \in ToSet(rule.patterns)
    BY SequenceIs DEF IsKeywordRule, IsASequence
  <2>2. rule.patterns # <<>> => 1 \in 1..Len(rule.patterns)
    BY <2>1
  <2>3. QED
    BY <2>1, <2>2
<1>4. Unit \in Nat /\ MaxFloat \in Nat /\ Unit <= MaxFloat
  BY UnitAssumption DEF MaxFloat
<1> HIDE DEF scores, combined
<1>5. SUFFICES ASSUME Invalid \notin scores, ~(rule.operator = "and" /\ rule.patterns = <<>>)
               PROVE  combined \in 0..Unit
  BY <1>1
<1>6. scores \subseteq 0..Unit
  BY <1>2, <1>5
<1>7. CASE rule.operator = "or"
  <2>1. combined = Max(scores \cup {0})
    BY <1>7 DEF combined
  <2>2. scores \cup {0} \subseteq 0..Unit /\ scores \cup {0} \subseteq Int /\ scores \cup {0} # {}
        /\ \A y \in scores \cup {0} : y <= Unit
    BY <1>4, <1>6
  <2>3. Max(scores \cup {0}) \in scores \cup {0}
    BY <1>4, <2>2, MaxBounded
  <2>4. QED
    BY <2>1, <2>2, <2>3
<1>8. CASE rule.operator = "and"
  <2>1. PICK s \in scores : TRUE
    BY <1>3, <1>5, <1>8
  <2>2. combined \in {Min(scores \cup {MaxFloat}), 0}
    BY <1>8 DEF combined
  <2>3. scores \cup {MaxFloat} \subseteq Nat /\ scores \cup {MaxFloat} # {}
    BY <1>4, <1>6
  <2>4. Min(scores \cup {MaxFloat}) \in Nat /\ Min(scores \cup {MaxFloat}) <= s
    BY <2>3, MinIsLeast
  <2>5. Min(scores \cup {MaxFloat}) \in 0..Unit
    BY <1>4, <1>6, <2>1, <2>4
  <2>6. QED
    BY <1>4, <2>2, <2>5
<1>9. CASE rule.operator = "nor"
  <2>1. combined = IF all(FALSE) THEN Unit ELSE 0
    BY <1>9 DEF combined
  <2> HIDE DEF all
  <2>2. QED
    BY <1>4, <2>1
<1>10. QED
  BY <1>7, <1>8, <1>9 DEF IsKeywordRule

-----------------------------------------------------------------------------
(* The first win rate *)

\* Of some rules there is a first.
LEMMA FirstRuleIs ==
    ASSUME NEW rules, IsASequence(rules), \A i \in DOMAIN rules : rules[i].priority \in Int,
           NEW firing, firing \subseteq DOMAIN rules, firing # {}
    PROVE  FirstOf(firing, rules) \in firing
<1> DEFINE R == {p \in firing \X firing : \/ rules[p[1]].priority > rules[p[2]].priority
                                          \/ rules[p[1]].priority = rules[p[2]].priority /\ p[1] <= p[2]}
           first(i) == \A j \in firing : \/ rules[i].priority > rules[j].priority
                                         \/ rules[i].priority = rules[j].priority /\ i <= j
<1>1. firing \in SUBSET (1..Len(rules)) /\ Len(rules) \in Nat /\ \A i \in firing : i \in Nat /\ rules[i].priority \in Int
  BY SequenceIs
<1>2. IsFiniteSet(firing)
  BY <1>1, PartsAreFinite
<1>3. \A i, j \in firing : <<i, j>> \in R <=> \/ rules[i].priority > rules[j].priority
                                              \/ rules[i].priority = rules[j].priority /\ i <= j
  OBVIOUS
<1> HIDE DEF R
<1>4. Orders(R, firing)
  <2>1. \A i, j \in firing : <<i, j>> \in R \/ <<j, i>> \in R
    <3> TAKE i, j \in firing
    <3>1. i \in Nat /\ j \in Nat /\ rules[i].priority \in Int /\ rules[j].priority \in Int
      BY <1>1
    <3>2. QED
      BY <1>3, <3>1
  <2>2. \A i, j, k \in firing : <<i, j>> \in R /\ <<j, k>> \in R => <<i, k>> \in R
    <3> TAKE i, j, k \in firing
    <3>1. /\ i \in Nat /\ j \in Nat /\ k \in Nat
          /\ rules[i].priority \in Int /\ rules[j].priority \in Int /\ rules[k].priority \in Int
      BY <1>1
    <3>2. QED
      BY <1>3, <3>1
  <2>3. QED
    BY <2>1, <2>2 DEF Orders
<1>5. PICK i \in firing : \A j \in firing : <<i, j>> \in R
  BY <1>2, <1>4, FirstExists
<1>6. first(i)
  BY <1>3, <1>5
<1>7. FirstOf(firing, rules) = CHOOSE k \in firing : first(k)
  BY DEF FirstOf
<1> HIDE DEF first
<1>8. QED
  BY <1>6, <1>7

-----------------------------------------------------------------------------
(* Banks *)

\* The values of a function on a finite set are finitely many.
LEMMA ValuesAreFinite ==
    ASSUME NEW S, IsFiniteSet(S), NEW f
    PROVE  IsFiniteSet({f[x] : x \in S})
<1> DEFINE g == [x \in S |-> f[x]]
           T == {f[x] : x \in S}
<1>1. g \in Surjection(S, T)
  BY DEF Surjection
<1> HIDE DEF g, T
<1>2. QED
  BY <1>1, FS_Surjection DEF T

\* m of the first n numbers are the highest by w.
Highest(S, w, n, m) ==
    /\ S \in kSubset(m, 1..n)
    /\ \A i \in S, j \in (1..n) \ S : w[i] >= w[j]

\* Some are.
LEMMA HighestExist ==
    ASSUME NEW n \in Nat, NEW w \in [1..n -> Int], NEW m \in 0..n
    PROVE  \E S : Highest(S, w, n, m)
<1> DEFINE G == {k \in 0..m : \E S : Highest(S, w, n, k)}
<1>1. m \in Nat /\ \A S \in SUBSET (1..n) : IsFiniteSet(S) /\ Cardinality(S) \in Nat
  <2>1. m \in Nat
    OBVIOUS
  <2>2. \A S \in SUBSET (1..n) : IsFiniteSet(S) /\ Cardinality(S) \in Nat
    BY PartsAreFinite
  <2>3. QED
    BY <2>1, <2>2
<1>2. 0 \in G
  <2>1. Cardinality({}) = 0
    BY FS_EmptySet
  <2>2. Highest({}, w, n, 0)
    BY <2>1 DEF Highest, kSubset
  <2>3. QED
    BY <1>1, <2>2
<1>3. \A k \in 0..(m - 1) : k \in G => k + 1 \in G
  <2> SUFFICES ASSUME NEW k \in 0..(m - 1), NEW S, Highest(S, w, n, k)
               PROVE  \E T : Highest(T, w, n, k + 1)
    BY <1>1
  <2> DEFINE rest == (1..n) \ S
             R == {p \in rest \X rest : w[p[1]] >= w[p[2]]}
  <2>1. S \in SUBSET (1..n) /\ Cardinality(S) = k /\ \A i \in S, j \in rest : w[i] >= w[j]
    BY DEF Highest, kSubset
  <2>2. rest # {}
    <3>1. SUFFICES ASSUME rest = {} PROVE FALSE
      OBVIOUS
    <3>2. S = 1..n
      BY <2>1, <3>1
    <3>3. Cardinality(1..n) = IF 1 > n THEN 0 ELSE n - 1 + 1
      BY FS_Interval
    <3>4. Cardinality(S) = n
      BY <3>2, <3>3
    <3>5. QED
      BY <2>1, <3>4
  <2>3. IsFiniteSet(rest)
    <3>1. rest \in SUBSET (1..n)
      OBVIOUS
    <3> HIDE DEF rest
    <3>2. QED
      BY <1>1, <3>1
  <2>4. \A x, y \in rest : (<<x, y>> \in R <=> w[x] >= w[y]) /\ w[x] \in Int
    OBVIOUS
  <2>5. Orders(R, rest)
    <3> HIDE DEF R, rest
    <3>1. \A x, y \in rest : <<x, y>> \in R \/ <<y, x>> \in R
      <4> TAKE x, y \in rest
      <4>1. w[x] \in Int /\ w[y] \in Int
        BY <2>4
      <4>2. QED
        BY <2>4, <4>1
    <3>2. \A x, y, z \in rest : <<x, y>> \in R /\ <<y, z>> \in R => <<x, z>> \in R
      <4> TAKE x, y, z \in rest
      <4>1. w[x] \in Int /\ w[y] \in Int /\ w[z] \in Int
        BY <2>4
      <4>2. QED
        BY <2>4, <4>1
    <3>3. QED
      BY <3>1, <3>2 DEF Orders
  <2> HIDE DEF R
  <2>6. PICK x \in rest : \A y \in rest : <<x, y>> \in R
    <3> HIDE DEF rest
    <3>1. QED
      BY <2>2, <2>3, <2>5, FirstExists
  <2>7. \A y \in rest : w[x] >= w[y]
    BY <2>4, <2>6
  <2>8. Cardinality(S \cup {x}) = k + 1
    <3>1. x \notin S /\ IsFiniteSet(S)
      BY <1>1, <2>1
    <3>2. QED
      BY <2>1, <3>1, FS_AddElement
  <2>9. S \cup {x} \in SUBSET (1..n) /\ (1..n) \ (S \cup {x}) \in SUBSET rest
    BY <2>1
  <2>10. \A i \in S \cup {x}, j \in (1..n) \ (S \cup {x}) : w[i] >= w[j]
    <3> HIDE DEF rest
    <3>1. QED
      BY <2>1, <2>7, <2>9
  <2>11. Highest(S \cup {x}, w, n, k + 1)
    BY <2>8, <2>9, <2>10 DEF Highest, kSubset
  <2>12. QED
    BY <2>11
<1> HIDE DEF G
<1>4. m \in G
  <2>1. \A k \in 0..m : k \in G
    BY <1>1, <1>2, <1>3, UpTo
  <2>2. QED
    BY <1>1, <2>1
<1>5. QED
  BY <1>4 DEF G

\* k numbers between -b and b add up to one between k times as much.
LEMMA SumBounded ==
    ASSUME NEW n \in Nat, NEW b \in Nat, NEW f, \A i \in 1..n : f[i] \in -b..b,
           NEW F, IsSum(F, f, n), NEW T \in SUBSET (1..n)
    PROVE  F[T] \in -(Cardinality(T) * b)..(Cardinality(T) * b)
<1> DEFINE G == {k \in Nat : \A S \in SUBSET T : Cardinality(S) = k => F[S] \in -(k * b)..(k * b)}
           m == Cardinality(T)
<1>1. \A S \in SUBSET T : IsFiniteSet(S) /\ Cardinality(S) \in Nat /\ S \in SUBSET (1..n)
  <2>1. \A S \in SUBSET T : S \in SUBSET (1..n)
    OBVIOUS
  <2>2. QED
    BY <2>1, PartsAreFinite
<1>2. /\ F[{}] = 0
      /\ \A s \in SUBSET (1..n) : \A x \in s : F[s] = f[x] + F[s \ {x}]
  BY DEF IsSum
<1>3. m \in Nat
  <2>1. T \in SUBSET T
    OBVIOUS
  <2>2. QED
    BY <1>1, <2>1
<1>4. 0 \in G
  <2> SUFFICES ASSUME NEW S \in SUBSET T, Cardinality(S) = 0 PROVE F[S] \in -(0 * b)..(0 * b)
    OBVIOUS
  <2>1. S = {} /\ 0 * b = 0
    BY <1>1, FS_EmptySet
  <2>2. QED
    BY <1>2, <2>1
<1>5. \A k \in 0..(m - 1) : k \in G => k + 1 \in G
  <2> SUFFICES ASSUME NEW k \in 0..(m - 1), k \in G, NEW S \in SUBSET T, Cardinality(S) = k + 1
               PROVE  F[S] \in -((k + 1) * b)..((k + 1) * b)
    OBVIOUS
  <2>1. PICK x \in S : TRUE
    <3>1. k \in Nat /\ Cardinality(S) # 0
      BY <1>1
    <3>2. S # {}
      BY <3>1, FS_EmptySet
    <3>3. QED
      BY <3>2
  <2> DEFINE R == S \ {x}
  <2>2. Cardinality(R) = k
    <3>1. Cardinality(R) = Cardinality(S) - 1
      BY <1>1, FS_RemoveElement
    <3>2. QED
      BY <3>1
  <2>3. F[R] \in -(k * b)..(k * b)
    BY <2>2
  <2>4. F[S] = f[x] + F[R] /\ f[x] \in -b..b
    BY <1>1, <1>2, <2>1
  <2>5. (k + 1) * b = k * b + b /\ k * b \in Int
    OBVIOUS
  <2> HIDE DEF R
  <2> DEFINE c == k * b
             d == (k + 1) * b
  <2>6. F[R] \in -c..c /\ d = c + b /\ c \in Int
    BY <2>3, <2>5
  <2> HIDE DEF c, d
  <2>7. F[S] \in -d..d
    BY <2>4, <2>6
  <2>8. QED
    BY <2>7 DEF d
<1> HIDE DEF G, m
<1>6. m \in G
  <2>1. \A k \in 0..m : k \in G
    BY <1>3, <1>4, <1>5, UpTo
  <2>2. QED
    BY <1>3, <2>1
<1>7. QED
  BY <1>6 DEF G, m

\* A similarity with a weight up to h.
LEMMA WeightedBounded ==
    ASSUME NEW h \in Nat, NEW u \in Nat, NEW w \in 0..h, NEW s \in -u..u
    PROVE  w * s \in -(h * u)..(h * u)
<1>1. w * s <= w * u /\ w * (-u) <= w * s /\ w * s \in Int /\ w * u \in Int /\ w * (-u) \in Int
  BY TimesKeeps
<1>2. u * w <= u * h /\ u * w \in Int /\ u * h \in Int
  BY TimesKeeps
<1>3. w * (-u) = -(w * u) /\ u * w = w * u /\ u * h = h * u
  OBVIOUS
<1>4. QED
  BY <1>1, <1>2, <1>3

\* The part c of 4 of the highest and the rest of a mean of m lie where both do.
LEMMA BlendBounded ==
    ASSUME NEW c \in 0..4, NEW m \in Nat \ {0}, NEW b \in Nat,
           NEW high \in -b..b, NEW sum \in -(m * b)..(m * b)
    PROVE  (c * m * high + (4 - c) * sum) \div (4 * m) \in -b..b
<1> DEFINE p == m * b
           q == m * high
<1>1. q <= p /\ m * (-b) <= q /\ p \in Int /\ q \in Int
  BY TimesKeeps
<1>2. m * (-b) = -p
  OBVIOUS
<1>3. c * m * high = c * q
  OBVIOUS
<1>4. sum \in -p..p
  OBVIOUS
<1> HIDE DEF p, q
<1>5. -(4 * p) <= c * q + (4 - c) * sum /\ c * q + (4 - c) * sum <= 4 * p
      /\ c * q + (4 - c) * sum \in Int
  <2>1. c \in {0, 1, 2, 3, 4}
    OBVIOUS
  <2>2. QED
    BY <1>1, <1>2, <1>4, <2>1
<1>6. (4 * m) * b = 4 * p /\ (4 * m) * (-b) = -(4 * p)
  BY DEF p
<1>7. 4 * m \in Nat \ {0}
  OBVIOUS
<1>8. (c * q + (4 - c) * sum) \div (4 * m) \in (-b)..b
  <2> DEFINE d == 4 * m
             x == c * q + (4 - c) * sum
  <2>1. d \in Nat \ {0} /\ x \in Int /\ d * (-b) <= x /\ x <= d * b
    BY <1>5, <1>6, <1>7
  <2> HIDE DEF d, x
  <2>2. x \div d \in (-b)..b
    BY <2>1, QuotientBetween
  <2>3. QED
    BY <2>2 DEF d, x
<1>9. QED
  BY <1>3, <1>8

\* The score of a bank lies between its similarities, times its heaviest weight.
LEMMA BankScoreBounded ==
    ASSUME NEW bank, IsBank(bank), NEW h \in Nat, \A i \in 1..Len(bank.weights) : bank.weights[i] <= h
    PROVE  BankScore(bank) \in -(h * Unit)..(h * Unit)
<1> DEFINE n == Len(bank.weights)
           b == h * Unit
           a == bank.weights
           s == bank.similarities
           w == [i \in 1..n |-> a[i] * s[i]]
           m == Minimum(Maximum(bank.top, 1), n)
           values == {a[i] * s[i] : i \in 1..n}
           above(S) == \A i \in S, j \in (1..n) \ S : a[i] * s[i] >= a[j] * s[j]
           highest == CHOOSE S \in kSubset(m, 1..n) : above(S)
<1>1. /\ n \in Nat \ {0} /\ DOMAIN a = 1..n /\ bank.best \in 0..4
      /\ \A i \in 1..n : a[i] \in 0..h /\ s[i] \in -Unit..Unit
  <2>1. /\ n \in Nat \ {0} /\ DOMAIN a = 1..n /\ bank.best \in 0..4
        /\ \A i \in 1..n : a[i] \in Nat
    BY BankIs
  <2>2. \A i \in 1..n : s[i] \in -Unit..Unit
    BY <2>1 DEF IsBank
  <2>3. QED
    BY <2>1, <2>2
<1>2. Unit \in Nat /\ b \in Nat
  BY UnitAssumption
<1>3. m \in Nat \ {0} /\ m \in 0..n
  <2>1. bank.top \in Nat
    BY DEF IsBank
  <2> HIDE DEF n
  <2>2. QED
    BY <1>1, <2>1 DEF Minimum, Maximum
<1>4. BankScore(bank) = (bank.best * m * Max(values) + (4 - bank.best) * SumOf(a, s, highest)) \div (4 * m)
  BY <1>1 DEF BankScore, SumOf
<1> HIDE DEF n, a, s, m
<1>5. \A i \in 1..n : w[i] = a[i] * s[i] /\ w[i] \in -b..b /\ w[i] \in Int
  <2> SUFFICES ASSUME NEW i \in 1..n PROVE a[i] * s[i] \in -b..b /\ a[i] * s[i] \in Int
    OBVIOUS
  <2>1. a[i] \in 0..h /\ s[i] \in -Unit..Unit
    BY <1>1
  <2>2. a[i] * s[i] \in -b..b
    BY <1>2, <2>1, WeightedBounded
  <2> HIDE DEF b
  <2>3. QED
    BY <1>2, <2>2
<1> HIDE DEF above, values
<1>6. \A S : Highest(S, w, n, m) => above(S) /\ S \in kSubset(m, 1..n)
  <2> SUFFICES ASSUME NEW S, Highest(S, w, n, m) PROVE above(S) /\ S \in kSubset(m, 1..n)
    OBVIOUS
  <2>1. S \in kSubset(m, 1..n) /\ S \in SUBSET (1..n) /\ \A i \in S, j \in (1..n) \ S : w[i] >= w[j]
    BY DEF Highest, kSubset
  <2> HIDE DEF w
  <2>2. above(S)
    BY <1>5, <2>1 DEF above
  <2>3. QED
    BY <2>1, <2>2
<1>7. highest \in kSubset(m, 1..n)
  <2>1. w \in [1..n -> Int]
    BY <1>5
  <2> HIDE DEF w
  <2>2. PICK S : Highest(S, w, n, m)
    BY <1>1, <1>3, <2>1, HighestExist
  <2>3. QED
    BY <1>6, <2>2
<1>8. highest \in SUBSET (1..n) /\ Cardinality(highest) = m
  BY <1>7 DEF kSubset
<1> HIDE DEF highest, w
<1>9. SumOf(a, s, highest) \in -(m * b)..(m * b)
  <2>1. PICK F : IsSum(F, w, n)
    <3>1. HasSum(w, n)
      BY <1>1, <1>5, SumExists
    <3>2. QED
      BY <3>1 DEF HasSum
  <2>2. IsTotal(F, a, s, n)
    BY <1>1, <2>1, FoldIsSum DEF w
  <2>3. SumOf(a, s, highest) = F[highest]
    BY <1>8, <2>2 DEF IsTotal
  <2> HIDE DEF b
  <2>4. F[highest] \in -(Cardinality(highest) * b)..(Cardinality(highest) * b)
    BY <1>1, <1>2, <1>5, <1>8, <2>1, SumBounded
  <2>5. QED
    BY <1>8, <2>3, <2>4
<1>10. Max(values) \in -b..b
  <2>1. \A y \in values : y \in -b..b
    BY <1>5 DEF values
  <2>2. values # {}
    <3>1. 1 \in 1..n
      BY <1>1
    <3>2. QED
      BY <3>1 DEF values
  <2> HIDE DEF b
  <2>3. values \subseteq Int /\ b \in Int /\ \A y \in values : y <= b
    BY <1>2, <2>1
  <2>4. Max(values) \in values
    BY ONLY <2>2, <2>3, MaxBounded, Zenon
  <2>5. QED
    BY <2>1, <2>4
<1>11. QED
  <2> DEFINE high == Max(values)
             sum == SumOf(a, s, highest)
  <2>1. high \in -b..b /\ sum \in -(m * b)..(m * b)
    BY <1>9, <1>10
  <2> HIDE DEF b, high, sum
  <2>2. (bank.best * m * high + (4 - bank.best) * sum) \div (4 * m) \in -b..b
    BY <1>1, <1>2, <1>3, <2>1, BlendBounded
  <2>3. QED
    BY <1>4, <2>2 DEF b, high, sum

\* There are finitely many banks, each of their weights is at most the heaviest, and so is 1.
LEMMA HeaviestIs ==
    ASSUME Banked, input.signal \in {"embedding", "complexity"}
    PROVE  /\ Heaviest \in Nat \ {0}
           /\ \A bank \in BanksOf(input) : \A i \in 1..Len(bank.weights) : bank.weights[i] <= Heaviest
<1> DEFINE banks == BanksOf(input)
           weights == {ToSet(bank.weights) : bank \in banks}
           all == {1} \cup UNION weights
<1>1. /\ \A bank \in banks : IsBank(bank)
      /\ input.signal = "embedding" => IsASequence(input.rules)
  BY DEF Banked
<1>2. Heaviest = Max(all)
  <2>1. CASE input.signal = "embedding"
    <3>1. BanksOf(input) = {rule.bank : rule \in ToSet(input.rules)}
      BY <2>1 DEF BanksOf
    <3>2. QED
      BY <2>1, <3>1, Zenon DEF Heaviest
  <2>2. CASE input.signal = "complexity"
    <3>1. BanksOf(input) = {input.hard, input.easy}
      BY <2>2 DEF BanksOf
    <3>2. QED
      BY <2>2, <3>1, Zenon DEF Heaviest
  <2>3. QED
    BY <2>1, <2>2
<1>3. IsFiniteSet(banks)
  <2>1. CASE input.signal = "embedding"
    <3> DEFINE rules == input.rules
               of == [rule \in ToSet(rules) |-> rule.bank]
    <3>0. IsASequence(rules)
      BY <1>1, <2>1
    <3>1. Len(rules) \in Nat /\ DOMAIN rules = 1..Len(rules)
      <4> HIDE DEF rules
      <4>1. QED
        BY ONLY <3>0, SequenceIs
    <3>2. IsFiniteSet(1..Len(rules))
      <4> HIDE DEF rules
      <4>1. 1 \in Int /\ Len(rules) \in Int
        BY ONLY <3>1
      <4>2. QED
        BY ONLY <4>1, FS_Interval, Zenon
    <3>3. IsFiniteSet({rules[i] : i \in 1..Len(rules)})
      BY <3>2, ValuesAreFinite
    <3>4. IsFiniteSet(ToSet(rules))
      BY <3>1, <3>3 DEF ToSet
    <3>5. IsFiniteSet({of[rule] : rule \in ToSet(rules)})
      <4> HIDE DEF of
      <4>1. QED
        BY <3>4, ValuesAreFinite
    <3>6. banks = {of[rule] : rule \in ToSet(rules)}
      BY <2>1 DEF BanksOf
    <3>7. QED
      BY <3>5, <3>6
  <2>2. CASE input.signal = "complexity"
    <3>1. banks = {input.hard} \cup {input.easy}
      BY <2>2 DEF BanksOf
    <3>2. IsFiniteSet({input.hard}) /\ IsFiniteSet({input.easy})
      BY FS_Singleton
    <3> HIDE DEF banks
    <3>3. QED
      BY <3>1, <3>2, FS_Union
  <2>3. QED
    BY <2>1, <2>2
<1>4. \A bank \in banks : /\ Len(bank.weights) \in Nat /\ DOMAIN bank.weights = 1..Len(bank.weights)
                          /\ \A i \in 1..Len(bank.weights) : bank.weights[i] \in Nat
  <2> TAKE bank \in banks
  <2>1. IsBank(bank)
    BY <1>1
  <2>2. QED
    BY <2>1, BankIs
<1> HIDE DEF banks
<1>5. \A bank \in banks : IsFiniteSet(ToSet(bank.weights)) /\ ToSet(bank.weights) \subseteq Nat
  <2> TAKE bank \in banks
  <2> DEFINE n == Len(bank.weights)
             w == bank.weights
  <2>1. n \in Nat /\ DOMAIN w = 1..n /\ \A i \in 1..n : w[i] \in Nat
    BY <1>4
  <2>2. IsFiniteSet(1..n)
    BY <2>1, FS_Interval
  <2> HIDE DEF n, w
  <2>3. IsFiniteSet({w[i] : i \in 1..n})
    BY <2>2, ValuesAreFinite
  <2>4. ToSet(w) = {w[i] : i \in 1..n}
    BY <2>1 DEF ToSet
  <2>5. QED
    BY <2>1, <2>3, <2>4 DEF w
<1>6. IsFiniteSet(weights)
  <2> DEFINE of == [bank \in banks |-> ToSet(bank.weights)]
  <2>1. weights = {of[bank] : bank \in banks}
    OBVIOUS
  <2> HIDE DEF of, weights
  <2>2. QED
    BY ONLY <1>3, <2>1, ValuesAreFinite
<1>7. IsFiniteSet(all)
  <2>1. \A T \in weights : IsFiniteSet(T)
    BY <1>5
  <2> HIDE DEF weights
  <2>2. IsFiniteSet(UNION weights)
    BY <1>6, <2>1, FS_UNION
  <2>3. IsFiniteSet({1})
    BY FS_Singleton
  <2>4. QED
    BY <2>2, <2>3, FS_Union
<1>8. all \subseteq Nat /\ 1 \in all
  BY <1>5
<1>9. Max(all) \in Nat \ {0} /\ \A y \in all : y <= Max(all)
  <2> HIDE DEF all
  <2>1. all \subseteq Int /\ all # {}
    BY <1>8
  <2>2. Max(all) \in all /\ \A y \in all : y <= Max(all)
    BY <1>7, <2>1, MaxOfFinite
  <2>3. Max(all) \in Nat /\ 1 <= Max(all)
    BY <1>8, <2>2
  <2>4. Max(all) \in Nat \ {0}
    BY ONLY <2>3
  <2>5. QED
    BY <2>2, <2>4
<1>10. \A bank \in banks : \A i \in 1..Len(bank.weights) : bank.weights[i] \in all
  BY <1>4 DEF ToSet
<1>11. QED
  <2> HIDE DEF all
  <2>1. QED
    BY <1>2, <1>9, <1>10 DEF banks

\* Every bank of an evaluation scores within its heaviest weight.
LEMMA BanksInRange ==
    ASSUME Banked, input.signal \in {"embedding", "complexity"}
    PROVE  \A bank \in BanksOf(input) : BankScore(bank) \in -(Heaviest * Unit)..(Heaviest * Unit)
<1> TAKE bank \in BanksOf(input)
<1>1. Heaviest \in Nat \ {0} /\ \A i \in 1..Len(bank.weights) : bank.weights[i] <= Heaviest
  BY HeaviestIs
<1>2. IsBank(bank)
  BY DEF Banked
<1>3. QED
  BY <1>1, <1>2, BankScoreBounded

-----------------------------------------------------------------------------
(* ConfidenceInRange *)

\* The confidences an input may be answered with.
Allowed ==
    IF input.signal \in {"embedding", "complexity"} THEN -(Heaviest * Unit)..(Heaviest * Unit)
    ELSE IF input.signal = "feedback" THEN Minimum(input.threshold, 0)..Unit
    ELSE 0..Unit

\* They include those between 0 and 1, but for similarities, and 0 for all.
LEMMA RangeAllowed ==
    ASSUME InputInv
    PROVE  /\ 0 \in Allowed
           /\ input.signal \notin {"embedding", "complexity"} => \A c \in 0..Unit : c \in Allowed
<1>1. Unit \in Nat
  BY UnitAssumption
<1>2. CASE input.signal \in {"embedding", "complexity"}
  <2>1. Heaviest \in Nat
    BY <1>2, InputBanked, HeaviestIs
  <2>2. Heaviest * Unit \in Nat
    BY <1>1, <2>1
  <2>3. Allowed = -(Heaviest * Unit)..(Heaviest * Unit)
    BY <1>2 DEF Allowed
  <2>4. QED
    BY <1>2, <2>2, <2>3
<1>3. CASE input.signal = "feedback"
  <2>1. input.threshold \in Int
    BY <1>3, ScoresAssumption DEF InputInv
  <2>2. Minimum(input.threshold, 0) \in Int /\ Minimum(input.threshold, 0) <= 0
    BY <2>1 DEF Minimum
  <2>3. Allowed = Minimum(input.threshold, 0)..Unit
    BY <1>3 DEF Allowed
  <2>4. QED
    BY <1>1, <1>3, <2>2, <2>3
<1>4. CASE input.signal \notin {"embedding", "complexity", "feedback"}
  BY <1>1, <1>4 DEF Allowed
<1>5. QED
  BY <1>2, <1>3, <1>4

\* An answer to the input within them satisfies the property.
LEMMA AllowedSuffices ==
    ASSUME input' = input, answer'.confidence \in Allowed
    PROVE  ConfidenceInRange'
<1>1. Heaviest' = Heaviest
  BY Zenon DEF Heaviest
<1>2. QED
  BY <1>1 DEF Allowed, ConfidenceInRange

\* What the records of results hold.
LEMMA ResultIs ==
    /\ \A c, l : Result(c, l).confidence = c /\ Result(c, l).labels = l /\ Result(c, l).error = "none"
    /\ \A e : Failure(e).confidence = 0
  BY DEF Result, Failure, Pending

\* The signals that answer with a constant.
LEMMA ConstantStep ==
    ASSUME InputInv, \/ EvaluateCost \/ EvaluateContext \/ BuildBank \/ CompareVectors \/ ScanPii
                     \/ Tokenize \/ EvaluatePreference
    PROVE  answer'.confidence \in Allowed
<1>1. Unit \in 0..Unit /\ Percent(100) \in 0..Unit /\ Percent(50) \in 0..Unit
  <2>1. Unit \in Nat
    BY UnitAssumption
  <2>2. 50 \in 0..100 /\ 100 \in 0..100
    OBVIOUS
  <2>3. QED
    BY <2>1, <2>2, PercentInRange
<1>2. input.signal \notin {"embedding", "complexity"}
  BY DEF EvaluateCost, EvaluateContext, BuildBank, CompareVectors, ScanPii, Tokenize, EvaluatePreference, Asked
<1>3. answer'.confidence \in {0, Unit, Percent(50), Percent(100)}
  <2>1. CASE EvaluateCost
    BY <2>1, ResultIs DEF EvaluateCost, Answer
  <2>2. CASE EvaluateContext
    <3> DEFINE label == CASE input.tokens < 100 -> <<"short">>
                          [] input.tokens \in 100..999 -> <<"medium">>
                          [] input.tokens \in 1000..4999 -> <<"long">>
                          [] OTHER -> <<"very_long">>
    <3>1. answer' = Result(Unit, label)
      BY <2>2, Zenon DEF EvaluateContext, Answer
    <3> HIDE DEF label
    <3>2. QED
      BY <3>1, ResultIs
  <2>3. CASE BuildBank
    BY <2>3, ResultIs DEF BuildBank, Answer
  <2>4. CASE CompareVectors
    BY <2>4, ResultIs DEF CompareVectors, Answer
  <2>5. CASE ScanPii
    BY <2>5, ResultIs DEF ScanPii, Answer
  <2>6. CASE Tokenize
    BY <2>6, ResultIs DEF Tokenize, Answer
  <2>7. CASE EvaluatePreference
    <3>1. \/ answer' = Failure("Timeout") \/ answer' = Failure("Inference")
          \/ \E l : answer' = Result(Percent(100), l) \/ answer' = Result(Percent(50), l)
      BY <2>7, Zenon DEF EvaluatePreference, Answer, AnswerIfChain
    <3>2. QED
      BY <3>1, ResultIs
  <2>8. QED
    BY <2>1, <2>2, <2>3, <2>4, <2>5, <2>6, <2>7
<1>4. QED
  BY <1>1, <1>2, <1>3, RangeAllowed

\* The signals that count evidence.
LEMMA EvidenceInRange ==
    ASSUME InputInv, EvaluateCode \/ EvaluateFormat \/ EvaluateTool \/ ScanJailbreak \/ ScanCard
    PROVE  answer'.confidence \in Allowed
<1> DEFINE e == input.evidence
<1>1. /\ Unit \in Nat
      /\ \A p \in {20, 35, 50, 60, 75, 80, 85, 90, 95} : Percent(p) \in 0..Unit
  <2>1. \A p \in {20, 35, 50, 60, 75, 80, 85, 90, 95} : p \in 0..100
    OBVIOUS
  <2>2. QED
    BY <2>1, PercentInRange, UnitAssumption
<1>2. CASE EvaluateCode
  <2>1. answer'.confidence = CodeStrength(e)
    BY <1>2, ResultIs, CodeConfidenceIs DEF EvaluateCode, Answer
  <2>2. CodeStrength(e) \in 0..Unit
    BY <1>1 DEF CodeStrength
  <2>3. QED
    BY <1>2, <2>1, <2>2, RangeAllowed DEF EvaluateCode, Asked
<1>3. CASE EvaluateFormat
  <2>1. answer'.confidence = FormatConfidence(e)
    BY <1>3, ResultIs DEF EvaluateFormat, Answer
  <2>2. FormatConfidence(e) \in 0..Unit
    BY <1>1 DEF FormatConfidence
  <2>3. QED
    BY <1>3, <2>1, <2>2, RangeAllowed DEF EvaluateFormat, Asked
<1>4. CASE EvaluateTool
  <2>1. answer'.confidence = ToolConfidence(e)
    BY <1>4, ResultIs DEF EvaluateTool, Answer
  <2>2. ToolConfidence(e) \in 0..Unit
    <3> DEFINE n == Cardinality(e)
               base == CASE n = 0 -> 0 [] n = 1 -> Percent(50) [] n = 2 -> Percent(75) [] OTHER -> Percent(90)
    <3>1. base \in {0, Percent(50), Percent(75), Percent(90)}
      <4>1. base = 0 \/ base = Percent(50) \/ base = Percent(75) \/ base = Percent(90)
        <5>1. CASE n = 0
          BY <5>1
        <5>2. CASE n = 1
          BY <5>2
        <5>3. CASE n = 2
          BY <5>3
        <5>4. CASE n # 0 /\ n # 1 /\ n # 2
          BY <5>4
        <5>5. QED
          BY <5>1, <5>2, <5>3, <5>4
      <4> HIDE DEF base
      <4>2. QED
        BY <4>1
    <3>2. ToolConfidence(e) = IF "state" \in e THEN Maximum(base, Percent(80)) ELSE base
      BY Zenon DEF ToolConfidence
    <3> HIDE DEF base
    <3>3. QED
      BY <1>1, <3>1, <3>2 DEF Maximum
  <2>3. QED
    BY <1>4, <2>1, <2>2, RangeAllowed DEF EvaluateTool, Asked
<1>5. CASE ScanJailbreak
  <2>1. answer'.confidence = JailbreakConfidence(e)
    BY <1>5, ResultIs DEF ScanJailbreak, Answer
  <2>2. Cardinality(e) \in Nat
    <3>1. input.signal = "jailbreak"
      BY <1>5 DEF ScanJailbreak, Asked
    <3>2. e \subseteq JailbreakEvidence
      BY <3>1, ScoresAssumption DEF InputInv, Evidence
    <3>3. IsFiniteSet(JailbreakEvidence)
      <4>1. IsFiniteSet({"injection"})
        BY FS_Singleton
      <4>2. IsFiniteSet({"injection"} \cup {"roleplay"})
        BY <4>1, FS_AddElement
      <4>3. IsFiniteSet({"injection", "roleplay"} \cup {"encoding"})
        BY <4>2, FS_AddElement
      <4>4. IsFiniteSet({"injection", "roleplay", "encoding"} \cup {"delimiter"})
        BY <4>3, FS_AddElement
      <4>5. IsFiniteSet({"injection", "roleplay", "encoding", "delimiter"} \cup {"exfiltration"})
        BY <4>4, FS_AddElement
      <4>6. QED
        BY <4>5 DEF JailbreakEvidence
    <3>4. QED
      BY <3>2, <3>3, FS_Subset, FS_CardinalityType
  <2>3. JailbreakConfidence(e) \in 0..Unit
    <3> DEFINE m == Minimum(Cardinality(e), 3)
    <3>1. m \in {0, 1, 2, 3}
      BY <2>2 DEF Minimum
    <3>2. Percent(20) * m \in Nat
      BY <1>1, <3>1
    <3> HIDE DEF m
    <3>3. Minimum(Percent(35) + Percent(20) * m, Percent(95)) \in 0..Unit
      BY <1>1, <3>2 DEF Minimum
    <3>4. JailbreakConfidence(e) = IF e = {} THEN 0 ELSE Minimum(Percent(35) + Percent(20) * m, Percent(95))
      BY DEF JailbreakConfidence, m
    <3>5. QED
      BY <1>1, <3>3, <3>4
  <2>4. QED
    BY <1>5, <2>1, <2>3, RangeAllowed DEF ScanJailbreak, Asked
<1>6. CASE ScanCard
  <2>1. answer'.confidence \in {0, Percent(60), Percent(90)}
    BY <1>6, ResultIs DEF ScanCard, Answer, CardConfidence
  <2>2. QED
    BY <1>1, <1>6, <2>1, RangeAllowed DEF ScanCard, Asked
<1>7. QED
  BY <1>2, <1>3, <1>4, <1>5, <1>6

\* The share of the rules that match.
LEMMA StructureInRange ==
    ASSUME InputInv, EvaluateStructure
    PROVE  answer'.confidence \in Allowed
<1> DEFINE rules == input.rules
           n == Len(rules)
           matched == {i \in DOMAIN rules : CheckRule(input.text, rules[i]) = "passes"}
<1>1. input.signal = "structure"
  BY DEF EvaluateStructure, Asked
<1>2. IsASequence(rules)
  BY <1>1, InputsAssumption DEF InputInv
<1>3. n \in Nat /\ DOMAIN rules = 1..n /\ rules \in Seq(ToSet(rules))
  <2> HIDE DEF rules
  <2>1. QED
    BY ONLY <1>2, SequenceIs
<1>4. Cardinality(matched) \in 0..n
  <2>1. IsFiniteSet(1..n) /\ Cardinality(1..n) = n
    <3>1. 1 \in Int /\ n \in Int
      BY <1>3
    <3>2. IsFiniteSet(1..n) /\ Cardinality(1..n) = IF 1 > n THEN 0 ELSE n - 1 + 1
      BY <3>1, FS_Interval
    <3>3. QED
      BY <1>3, <3>2
  <2>2. matched \in SUBSET (1..n)
    BY <1>3
  <2> HIDE DEF matched, n
  <2>3. IsFiniteSet(matched) /\ Cardinality(matched) <= Cardinality(1..n)
    BY <2>1, <2>2, FS_Subset
  <2>4. Cardinality(matched) \in Nat
    BY <2>3, FS_CardinalityType
  <2>5. QED
    BY <1>3, <2>1, <2>3, <2>4
<1>5. answer'.confidence \in {0, (Unit * Cardinality(matched)) \div n} /\ (rules = <<>> => answer'.confidence = 0)
  <2> DEFINE passes == [i \in DOMAIN rules |-> CheckRule(input.text, rules[i])]
             found == {i \in DOMAIN rules : passes[i] = "passes"}
  <2>1. answer' = IF rules = <<>> THEN Result(0, {})
                  ELSE IF \E i \in DOMAIN rules : passes[i] = "error" THEN Failure("Configuration")
                  ELSE Result((Unit * Cardinality(found)) \div Len(rules), found)
    BY Zenon DEF EvaluateStructure, Answer
  <2>2. found = matched
    OBVIOUS
  <2> HIDE DEF found, matched, passes, rules
  <2>3. QED
    BY <2>1, <2>2, ResultIs
<1>6. CASE rules = <<>>
  BY <1>1, <1>5, <1>6, RangeAllowed
<1>7. CASE rules # <<>>
  <2>1. n # 0
    BY <1>3, <1>7, EmptySeq
  <2> HIDE DEF matched, n
  <2>2. (Unit * Cardinality(matched)) \div n \in 0..Unit
    BY <1>3, <1>4, <2>1, PartOfUnit
  <2>3. QED
    BY <1>1, <1>5, <2>2, RangeAllowed
<1>8. QED
  BY <1>6, <1>7

\* A probability, or what an entropy leaves of 1.
LEMMA DomainInRange ==
    ASSUME InputInv, EvaluateDomain
    PROVE  answer'.confidence \in Allowed
<1> DEFINE p == input.distribution
           likely == SelectSeq(Indices(Len(p)), LAMBDA i : p[i] >= input.least)
           labels == IF likely = <<>> THEN <<1>> ELSE likely
<1>1. input.signal = "domain"
  BY DEF EvaluateDomain, Asked
<1>2. IsASequence(p) /\ ToSet(p) \subseteq 0..Unit /\ input.spread \in 0..Unit
  BY <1>1, ScoresAssumption DEF InputInv
<1>3. \/ \E e : answer' = Failure(e)
      \/ p # <<>> /\ answer' = Result(p[1], <<1>>)
      \/ answer' = Result(Unit - input.spread, labels)
  BY Zenon DEF EvaluateDomain, Answer, AnswerIfChain
<1> HIDE DEF labels
<1>4. \/ answer'.confidence = 0
      \/ p # <<>> /\ answer'.confidence = p[1]
      \/ answer'.confidence = Unit - input.spread
  BY <1>3, ResultIs
<1>5. p # <<>> => p[1] \in 0..Unit
  <2>1. Len(p) \in Nat /\ p \in Seq(ToSet(p)) /\ \A i \in 1..Len(p) : p[i] \in ToSet(p)
    BY <1>2, SequenceIs
  <2>2. p # <<>> => Len(p) # 0
    BY <2>1, EmptySeq
  <2>3. QED
    BY <1>2, <2>1, <2>2
<1>6. Unit - input.spread \in 0..Unit
  BY <1>2, UnitAssumption
<1>7. QED
  BY <1>1, <1>4, <1>5, <1>6, RangeAllowed

\* The highest of the scores that are flagged.
LEMMA ToxicityInRange ==
    ASSUME InputInv, EvaluateToxicity
    PROVE  answer'.confidence \in Allowed
<1> DEFINE flagged == {i \in DOMAIN input.scores : input.scores[i] > input.threshold}
           S == {0} \cup {input.scores[i] : i \in flagged}
<1>1. input.signal = "toxicity"
  BY DEF EvaluateToxicity, Asked
<1>2. S \subseteq 0..Unit /\ Unit \in Int
  <2>1. ToSet(input.scores) \subseteq 0..Unit
    BY <1>1, ScoresAssumption DEF InputInv
  <2>2. \A i \in DOMAIN input.scores : input.scores[i] \in 0..Unit
    BY <2>1 DEF ToSet
  <2>3. Unit \in Nat
    BY UnitAssumption
  <2>4. QED
    BY <2>2, <2>3
<1>3. answer' = Failure("Inference") \/ answer' = Result(Max(S), flagged)
  BY Zenon DEF EvaluateToxicity, Answer, AnswerIfChain
<1>4. S # {}
  OBVIOUS
<1> HIDE DEF S, flagged
<1>5. Max(S) \in S
  <2>1. S \subseteq Int /\ \A y \in S : y <= Unit
    BY <1>2
  <2>2. QED
    BY <1>2, <1>4, <2>1, MaxBounded
<1>6. answer'.confidence = 0 \/ answer'.confidence = Max(S)
  BY <1>3, ResultIs
<1>7. QED
  BY <1>1, <1>2, <1>5, <1>6, RangeAllowed

\* What the winner's hits say.
LEMMA LanguageStep ==
    ASSUME InputInv, EvaluateLanguage
    PROVE  answer'.confidence \in Allowed
<1> DEFINE primary == Detect(input.hits, input.total)
           c == primary[1].confidence
           l == primary[1].language
<1>1. input.signal = "language"
  BY DEF EvaluateLanguage, Asked
<1>2. IsASequence(input.hits) /\ input.total \in Nat /\ ToSet(input.hits) \subseteq 0..input.total
  BY <1>1, ScoresAssumption DEF InputInv
<1>3. primary # <<>> => primary[1].confidence \in 0..Unit
  BY <1>2, LanguageInRange
<1>4. answer' = IF primary = <<>> THEN Result(0, <<>>)
                ELSE Result(c, <<l>>)
  BY Zenon DEF EvaluateLanguage, Answer
<1> HIDE DEF primary, c, l
<1>5. answer'.confidence = 0 \/ (primary # <<>> /\ answer'.confidence = c)
  BY <1>4, ResultIs
<1>6. QED
  BY <1>1, <1>3, <1>5, RangeAllowed DEF c

\* The distance of the score from the middle, or a similarity above the threshold.
LEMMA FeedbackInRange ==
    ASSUME InputInv, EvaluateFeedback
    PROVE  answer'.confidence \in Allowed
<1> DEFINE reasked == {s \in input.similarity : s > input.threshold}
           half == Percent(50)
           distance == 2 * Maximum(input.score - half, half - input.score)
           satisfaction == IF input.score >= Percent(70) THEN "satisfied"
                           ELSE IF input.score >= Percent(40) THEN "neutral" ELSE "dissatisfied"
<1>1. input.signal = "feedback"
  BY DEF EvaluateFeedback, Asked
<1>2. input.score \in 0..Unit /\ input.similarity \subseteq -Unit..Unit /\ input.threshold \in Int
  BY <1>1, ScoresAssumption DEF InputInv
<1>3. \/ answer' = Failure("Inference")
      \/ answer' = Result(distance, <<satisfaction>>)
      \/ reasked # {} /\ answer' = Result(Max(reasked), <<satisfaction, "reask">>)
  BY Zenon DEF EvaluateFeedback, Answer, AnswerIfChain
<1>4. distance \in 0..Unit
  <2>1. half \in Nat /\ 2 * half = Unit
    BY UnitAssumption DEF Percent
  <2> HIDE DEF half
  <2>2. QED
    BY <1>2, <2>1 DEF Maximum
<1> HIDE DEF distance, satisfaction, half, reasked
<1>5. \/ answer'.confidence = 0
      \/ answer'.confidence = distance
      \/ reasked # {} /\ answer'.confidence = Max(reasked)
  BY <1>3, ResultIs
<1>6. CASE reasked # {} /\ answer'.confidence = Max(reasked)
  <2>1. Unit \in Int /\ \A y \in reasked : y \in Int /\ y <= Unit /\ y > input.threshold
    BY <1>2, UnitAssumption DEF reasked
  <2>2. reasked \subseteq Int /\ \A y \in reasked : y <= Unit
    BY <2>1
  <2>3. Max(reasked) \in reasked
    BY <1>6, <2>1, <2>2, MaxBounded
  <2>4. Max(reasked) \in Minimum(input.threshold, 0)..Unit
    BY <1>2, <2>1, <2>3 DEF Minimum
  <2>5. QED
    BY <1>1, <1>6, <2>4 DEF Allowed
<1>7. CASE answer'.confidence = 0 \/ answer'.confidence = distance
  BY <1>1, <1>4, <1>7, RangeAllowed
<1>8. QED
  BY <1>5, <1>6, <1>7

\* A request finds no signal, or fails.
LEMMA RequestInRange ==
    ASSUME InputInv, Request
    PROVE  answer'.confidence \in Allowed
<1> DEFINE client == input.client
           s == input.settings
           ctx == input.context
<1>1. input.signal = "request"
  BY DEF Request, Asked
<1>2. client \in Clients
  BY <1>1, InputRequested DEF Requested
<1>3. answer' \in {Failure("Refused"), Failure("Crashed"), Evaluation(client, ctx)}
  <2>1. answer' = Outcome(client, s, ctx)
    BY DEF Request, Answer
  <2>2. QED
    BY <2>1, OutcomeIs
<1>4. NoSignals.confidence = 0 /\ ErrorEnvelope.confidence = 0
  BY ResultIs DEF NoSignals, ErrorEnvelope
<1>5. \A x : FfiEvaluate(x).confidence = 0 /\ WasmEvaluate(x).confidence = 0
  BY <1>4, ResultIs DEF FfiEvaluate, WasmEvaluate
<1>6. Evaluation(client, ctx).confidence = 0
  <2>1. CASE client = "c"
    BY <1>5, <2>1 DEF Evaluation
  <2>2. CASE client = "go"
    <3>1. GoEvaluate(ctx).confidence = 0
      BY <1>5, ResultIs DEF GoEvaluate
    <3>2. GoResult(GoEvaluate(ctx)).confidence = 0
      BY <3>1, ResultIs DEF GoResult
    <3>3. QED
      BY <2>2, <3>2 DEF Evaluation
  <2>3. CASE client = "php"
    <3>1. PhpEvaluate(ctx).confidence = 0
      BY <1>5, ResultIs DEF PhpEvaluate
    <3>2. PhpResult(PhpEvaluate(ctx)).confidence = 0
      BY <3>1, ResultIs DEF PhpResult
    <3>3. QED
      BY <2>3, <3>2 DEF Evaluation
  <2>4. CASE client \in {"js", "ts"}
    BY <1>5, <2>4 DEF Evaluation, TsResult
  <2>5. CASE client = "python"
    BY <1>4, <2>5, ResultIs DEF Evaluation, PyEvaluate
  <2>6. CASE client = "rust"
    BY <1>4, <2>6 DEF Evaluation, SdkEvaluate
  <2>7. QED
    BY <1>2, <2>1, <2>2, <2>3, <2>4, <2>5, <2>6 DEF Clients
<1>7. QED
  BY <1>1, <1>3, <1>6, ResultIs, RangeAllowed

\* A decision has the rate of a rule, of the default, or of the fallback.
LEMMA RouteInRange ==
    ASSUME InputInv, Route
    PROVE  answer'.confidence \in Allowed
<1> DEFINE rules == input.rules
           firing == {i \in DOMAIN rules : \E result \in Kept(input.results) : Fires(rules[i], result)}
           rate == IF input.raises THEN input.fallback ELSE WinRate(rules, input.results, input.default)
           label == IF rate >= input.threshold THEN "strong" ELSE "weak"
<1>1. input.signal = "route"
  BY DEF Route, Asked
<1>2. /\ IsASequence(rules) /\ input.default \in 0..Unit /\ input.fallback \in 0..Unit
      /\ \A rule \in ToSet(rules) : rule.rate \in 0..Unit /\ rule.priority \in Int
  BY <1>1, ResultsAssumption DEF InputInv
<1>3. \A i \in DOMAIN rules : rules[i].rate \in 0..Unit /\ rules[i].priority \in Int
  BY <1>2 DEF ToSet
<1>4. WinRate(rules, input.results, input.default) = IF firing = {} THEN input.default
                                                     ELSE rules[FirstOf(firing, rules)].rate
  BY DEF WinRate
<1>5. firing \subseteq DOMAIN rules
  OBVIOUS
<1> HIDE DEF firing
<1>6. firing # {} => FirstOf(firing, rules) \in firing
  <2> HIDE DEF rules
  <2>1. QED
    BY <1>2, <1>3, <1>5, FirstRuleIs
<1>7. WinRate(rules, input.results, input.default) \in 0..Unit
  BY <1>2, <1>3, <1>4, <1>5, <1>6
<1>8. answer' = Result(rate, <<label>>)
  BY Zenon DEF Route, Answer
<1>9. rate \in 0..Unit
  <2> HIDE DEF rules
  <2>1. QED
    BY <1>2, <1>7
<1> HIDE DEF rate, label
<1>10. answer'.confidence = rate
  BY <1>8, ResultIs
<1>11. QED
  BY <1>1, <1>9, <1>10, RangeAllowed

\* The score of the first rule at its threshold.
LEMMA KeywordInRange ==
    ASSUME InputInv, EvaluateKeyword
    PROVE  answer'.confidence \in Allowed \/ EmptyConjunction'
<1> DEFINE rules == input.rules
           score == [i \in DOMAIN rules |-> RuleScore(input.text, rules[i])]
           ends == {i \in DOMAIN rules : score[i] = Invalid \/ score[i] >= rules[i].threshold}
           k == Min(ends)
<1>1. input.signal = "keyword" /\ input' = input
  BY DEF EvaluateKeyword, Asked, Answer
<1>2. /\ AreWords(input.text) /\ IsASequence(rules)
      /\ \A rule \in ToSet(rules) : IsKeywordRule(rule)
  BY <1>1, InputsAssumption, ScoresAssumption DEF InputInv, AreWords, IsKeywordRule
<1>3. /\ DOMAIN rules = 1..Len(rules) /\ Len(rules) \in Nat /\ \A i \in DOMAIN rules : rules[i] \in ToSet(rules)
  <2> HIDE DEF rules
  <2>1. QED
    BY <1>2, SequenceIs
<1>4. answer' = IF ends = {} THEN Result(0, <<>>)
                ELSE IF score[k] = Invalid THEN Failure("Configuration")
                ELSE Result(score[k], <<k>>)
  BY Zenon DEF EvaluateKeyword, Answer
<1>5. ends \subseteq DOMAIN rules
  OBVIOUS
<1>6. ends # {} => k \in DOMAIN rules
  <2> HIDE DEF ends, rules
  <2>1. ends # {} => k \in ends
    BY <1>3, <1>5, MinIsLeast
  <2>2. QED
    BY <1>5, <2>1
<1>7. \A i \in DOMAIN rules : \/ score[i] \in {Invalid} \cup 0..Unit
                              \/ rules[i].operator = "and" /\ rules[i].patterns = <<>>
  <2> TAKE i \in DOMAIN rules
  <2>1. IsKeywordRule(rules[i])
    BY <1>2, <1>3
  <2>2. score[i] = RuleScore(input.text, rules[i])
    OBVIOUS
  <2>3. QED
    BY <1>2, <2>1, <2>2, RuleInRange
<1> HIDE DEF ends, score, k
<1>8. CASE ends = {} \/ (ends # {} /\ score[k] = Invalid)
  BY <1>1, <1>4, <1>8, ResultIs, RangeAllowed
<1>9. CASE ends # {} /\ score[k] # Invalid
  <2>1. answer' = Result(score[k], <<k>>)
    BY <1>4, <1>9, Zenon
  <2>2. answer'.confidence = score[k] /\ answer'.error = "none" /\ answer'.labels = <<k>>
    BY <2>1, ResultIs
  <2>3. CASE score[k] \in 0..Unit
    BY <1>1, <2>2, <2>3, RangeAllowed
  <2>4. CASE rules[k].operator = "and" /\ rules[k].patterns = <<>>
    <3>1. <<k>> # <<>> /\ <<k>>[1] = k
      OBVIOUS
    <3>2. QED
      BY <1>1, <2>2, <2>4, <3>1 DEF EmptyConjunction, Answered
  <2>5. QED
    BY <1>6, <1>7, <1>9, <2>3, <2>4
<1>10. QED
  BY <1>8, <1>9

\* The score of a bank.
LEMMA ComplexityInRange ==
    ASSUME InputInv, EvaluateComplexity
    PROVE  answer'.confidence \in Allowed
<1> DEFINE hard == BankScore(input.hard)
           easy == BankScore(input.easy)
<1>1. input.signal = "complexity"
  BY DEF EvaluateComplexity, Asked
<1>2. Banked /\ BanksOf(input) = {input.hard, input.easy}
  BY <1>1, InputBanked DEF BanksOf
<1>3. Allowed = -(Heaviest * Unit)..(Heaviest * Unit)
  BY <1>1 DEF Allowed
<1>4. hard \in Allowed /\ easy \in Allowed
  BY <1>1, <1>2, <1>3, BanksInRange
<1>5. Percent(50) \in Allowed
  <2>1. Heaviest \in Nat \ {0}
    BY <1>1, <1>2, HeaviestIs
  <2>2. Unit \in Nat
    BY UnitAssumption
  <2>3. Percent(50) \in 0..Unit
    <3>1. 50 \in 0..100
      OBVIOUS
    <3>2. QED
      BY <3>1, PercentInRange
  <2>4. Unit * 1 <= Unit * Heaviest /\ Unit * Heaviest = Heaviest * Unit /\ Heaviest * Unit \in Nat
    <3>1. 1 \in Int /\ Heaviest \in Int /\ 1 <= Heaviest
      BY <2>1
    <3>2. Unit * 1 <= Unit * Heaviest
      BY <2>2, <3>1, TimesKeeps
    <3>3. QED
      BY <2>1, <2>2, <3>2
  <2>5. Unit <= Heaviest * Unit
    BY <2>2, <2>4
  <2>6. QED
    BY <1>3, <2>2, <2>3, <2>4, <2>5
<1>6. \/ \E e : answer' = Failure(e)
      \/ answer' = Result(hard, <<"complex">>)
      \/ answer' = Result(easy, <<"simple">>)
      \/ answer' = Result(Percent(50), <<"moderate">>)
  BY Zenon DEF EvaluateComplexity, Answer
<1> HIDE DEF hard, easy
<1>7. QED
  BY <1>4, <1>5, <1>6, ResultIs, RangeAllowed

\* The score of the bank of one rule.
LEMMA EmbeddingInRange ==
    ASSUME InputInv, EvaluateEmbedding
    PROVE  answer'.confidence \in Allowed
<1> DEFINE rules == input.rules
           winner == Answering(input.engines)
           obstacle(i) == Obstacle(rules[i].bank, input.engines[winner].width)
           score == [i \in DOMAIN rules |-> BankScore(rules[i].bank)]
           ends == {i \in DOMAIN rules : obstacle(i) # "none" \/ score[i] >= rules[i].threshold}
           first == Min(ends)
           k == IF rules = <<>> THEN 0
                ELSE Minimum(Max({rules[i].top : i \in DOMAIN rules}), Len(rules))
           ranked == {order \in [DOMAIN rules -> DOMAIN rules] :
                        \A i, j \in DOMAIN rules :
                            i < j => order[i] # order[j] /\ score[order[i]] >= score[order[j]]}
           result == CASE obstacle(first) = "DimensionMismatch" -> Failure("Internal")
                       [] obstacle(first) = "Panic" -> Failure("Panic")
                       [] obstacle(first) = "none" -> Result(score[first], <<first>>)
<1>1. input.signal = "embedding"
  BY DEF EvaluateEmbedding, Asked
<1>2. Banked /\ IsChain(input.engines) /\ IsASequence(rules)
  BY <1>1, InputBanked DEF Banked
<1>3. /\ DOMAIN rules = 1..Len(rules) /\ Len(rules) \in Nat /\ rules \in Seq(ToSet(rules))
      /\ \A i \in DOMAIN rules : rules[i] \in ToSet(rules)
  <2> HIDE DEF rules
  <2>1. QED
    BY <1>2, SequenceIs
<1>4. \A i \in DOMAIN rules : score[i] \in Allowed
  <2> TAKE i \in DOMAIN rules
  <2>1. rules[i].bank \in BanksOf(input)
    BY <1>1, <1>3 DEF BanksOf
  <2>2. score[i] = BankScore(rules[i].bank)
    OBVIOUS
  <2>3. BankScore(rules[i].bank) \in -(Heaviest * Unit)..(Heaviest * Unit)
    BY <1>1, <1>2, <2>1, BanksInRange
  <2>4. QED
    BY <1>1, <2>2, <2>3 DEF Allowed
<1>5. CASE input.empty
  <2>1. answer' = Failure("InvalidInput")
    BY <1>5, Zenon DEF EvaluateEmbedding, Answer
  <2>2. QED
    BY <2>1, ResultIs, RangeAllowed
<1>6. CASE ~input.empty /\ winner = 0
  <2>1. answer' = Failure("Inference")
    BY <1>6, Zenon DEF EvaluateEmbedding, Answer
  <2>2. QED
    BY <2>1, ResultIs, RangeAllowed
<1>7. CASE ~input.empty /\ winner # 0 /\ ends = {}
  <2>1. PICK order \in ranked :
            answer' = Result(IF rules = <<>> THEN 0 ELSE score[order[1]], SubSeq(order, 1, k))
    BY <1>7, Zenon DEF EvaluateEmbedding, Answer
  <2>2. order \in [DOMAIN rules -> DOMAIN rules]
    OBVIOUS
  <2> HIDE DEF ranked, score, k
  <2>3. answer'.confidence = IF rules = <<>> THEN 0 ELSE score[order[1]]
    BY <2>1, ResultIs
  <2>4. CASE rules = <<>>
    BY <2>3, <2>4, RangeAllowed
  <2>5. CASE rules # <<>>
    <3>1. Len(rules) # 0
      BY <1>3, <2>5, EmptySeq
    <3>2. order[1] \in DOMAIN rules
      <4>1. 1 \in DOMAIN rules
        BY <1>3, <3>1
      <4>2. QED
        BY <2>2, <4>1
    <3>3. QED
      BY <1>4, <2>3, <2>5, <3>2
  <2>6. QED
    BY <2>4, <2>5
<1>8. CASE ~input.empty /\ winner # 0 /\ ends # {}
  <2>1. answer' = result
    BY <1>8, Zenon DEF EvaluateEmbedding, Answer
  <2>2. first \in DOMAIN rules
    <3>1. ends \subseteq DOMAIN rules /\ DOMAIN rules \subseteq Nat
      BY <1>3
    <3> HIDE DEF ends
    <3>2. first \in ends
      BY <1>8, <3>1, MinIsLeast
    <3>3. QED
      BY <3>1, <3>2
  <2>3. obstacle(first) \in {"DimensionMismatch", "Panic", "none"}
    BY DEF Obstacle
  <2> HIDE DEF score, first, obstacle
  <2>4. \/ \E e : answer' = Failure(e)
        \/ answer' = Result(score[first], <<first>>)
    <3>1. CASE obstacle(first) = "DimensionMismatch"
      <4>1. result = Failure("Internal")
        BY <3>1, Zenon
      <4> HIDE DEF result
      <4>2. QED
        BY <2>1, <4>1
    <3>2. CASE obstacle(first) = "Panic"
      <4>1. result = Failure("Panic")
        BY <3>2
      <4> HIDE DEF result
      <4>2. QED
        BY <2>1, <4>1
    <3>3. CASE obstacle(first) = "none"
      <4>1. result = Result(score[first], <<first>>)
        BY <3>3
      <4> HIDE DEF result
      <4>2. QED
        BY <2>1, <4>1
    <3>4. QED
      BY <2>3, <3>1, <3>2, <3>3
  <2> HIDE DEF result
  <2>5. answer'.confidence = 0 \/ answer'.confidence = score[first]
    BY <2>4, ResultIs
  <2>6. QED
    BY <1>4, <2>2, <2>5, RangeAllowed
<1>9. QED
  BY <1>5, <1>6, <1>7, <1>8

\* No evaluation answers outside of what its input allows, but for an empty conjunction.
LEMMA ConfidenceStep ==
    ASSUME InputInv, ConfidenceInRange, [RouterNext]_vars
    PROVE  ConfidenceInRange'
<1>1. CASE UNCHANGED <<input, answer>>
  <2>1. Heaviest' = Heaviest
    BY <1>1, Zenon DEF Heaviest
  <2>2. EmptyConjunction' <=> EmptyConjunction
    BY <1>1 DEF EmptyConjunction, Answered
  <2>3. QED
    BY <1>1, <2>1, <2>2 DEF ConfidenceInRange
<1>2. CASE RouterNext
  <2>1. input' = input
    <3>1. CASE UNCHANGED <<input, answer>>
      BY <3>1
    <3>2. CASE Evaluated
      BY <3>2 DEF Evaluated
    <3>3. QED
      BY <1>2, <3>1, <3>2, StepEvaluates
  <2>2. answer'.confidence \in Allowed \/ EmptyConjunction'
    <3>1. CASE EvaluateCost \/ EvaluateContext \/ BuildBank \/ CompareVectors \/ ScanPii
                  \/ Tokenize \/ EvaluatePreference
      BY <3>1, ConstantStep
    <3>2. CASE EvaluateCode \/ EvaluateFormat \/ EvaluateTool \/ ScanJailbreak \/ ScanCard
      BY <3>2, EvidenceInRange
    <3>3. CASE EvaluateKeyword
      BY <3>3, KeywordInRange
    <3>4. CASE EvaluateStructure
      BY <3>4, StructureInRange
    <3>5. CASE EvaluateEmbedding
      BY <3>5, EmbeddingInRange
    <3>6. CASE EvaluateComplexity
      BY <3>6, ComplexityInRange
    <3>7. CASE EvaluateFeedback
      BY <3>7, FeedbackInRange
    <3>8. CASE EvaluateDomain
      BY <3>8, DomainInRange
    <3>9. CASE EvaluateToxicity
      BY <3>9, ToxicityInRange
    <3>10. CASE EvaluateLanguage
      BY <3>10, LanguageStep
    <3>11. CASE Request
      BY <3>11, RequestInRange
    <3>12. CASE Route
      BY <3>12, RouteInRange
    <3>13. QED
      BY <1>2, <3>1, <3>2, <3>3, <3>4, <3>5, <3>6, <3>7, <3>8, <3>9, <3>10, <3>11, <3>12
         DEF RouterNext, BindingsNext, Next
  <2>3. CASE answer'.confidence \in Allowed
    BY <2>1, <2>3, AllowedSuffices
  <2>4. CASE EmptyConjunction'
    BY <2>4 DEF ConfidenceInRange
  <2>5. QED
    BY <2>2, <2>3, <2>4
<1>3. QED
  BY <1>1, <1>2 DEF vars

\* ConfidenceInRange: whatever a signal is given, its confidence lies between 0 and 1, but for
\* similarities, which their heaviest weight bounds, and the conjunction of no patterns.
THEOREM ConfidenceIsInRange == RouterSpec => []ConfidenceInRange
<1>1. Init => InputInv /\ ConfidenceInRange
  <2> SUFFICES ASSUME Init PROVE InputInv /\ ConfidenceInRange
    OBVIOUS
  <2>1. InputInv /\ answer = Pending
    BY InitInput
  <2>2. answer.confidence = 0
    BY <2>1 DEF Pending
  <2>3. 0 \in Allowed
    BY <2>1, RangeAllowed
  <2>4. QED
    BY <2>1, <2>2, <2>3 DEF Allowed, ConfidenceInRange
<1>2. QED
  BY <1>1, ConfidenceStep, NextInput, PTL DEF RouterSpec
=============================================================================
