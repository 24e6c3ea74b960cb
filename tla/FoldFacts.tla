----------------------------- MODULE FoldFacts ------------------------------
(***************************************************************************)
(* What the folds that Player, Trade and Shops are written with compute,   *)
(* for every finite set and sequence.  The induction behind them is put in *)
(* first-order form: a set of counterexamples, if not empty, has a         *)
(* smallest member (WFMin), which leads to a contradiction.                *)
(***************************************************************************)
EXTENDS Integers, Sequences, FiniteSets, FiniteSetsExt, SequencesExt,
        FiniteSetTheorems, WellFoundedInduction, TLAPS

\* A set of natural numbers that is not empty has a least element.
LEMMA LeastNat ==
    ASSUME NEW T \in SUBSET Nat, T # {}
    PROVE  \E n \in T : \A m \in T : n <= m
<1>1. IsWellFoundedOn(OpToRel(<, Nat), Nat)
  BY NatLessThanWellFounded
<1>2. PICK n \in T : \A m \in T : ~(<<m, n>> \in OpToRel(<, Nat))
  BY <1>1, WFMin, Zenon
<1>3. \A m \in T : ~(m < n)
  BY <1>2 DEF OpToRel
<1> QED BY <1>3

\* Min of a set of natural numbers that is not empty is its least element.
LEMMA MinNat ==
    ASSUME NEW T \in SUBSET Nat, T # {}
    PROVE  Min(T) \in T /\ \A m \in T : Min(T) <= m
BY LeastNat DEF Min

\* Max of a finite set of natural numbers that is not empty belongs to it.
LEMMA MaxNat ==
    ASSUME NEW n \in Nat, NEW T \in SUBSET (0..n), T # {}
    PROVE  Max(T) \in T /\ \A m \in T : m <= Max(T)
<1> DEFINE U == {k \in Nat : \E t \in T : t = n - k}
<1>1. PICK t \in T : TRUE OBVIOUS
<1>2. n - t \in U OBVIOUS
<1> HIDE DEF U
<1>3. U \in SUBSET Nat BY DEF U
<1>4. PICK k \in U : \A m \in U : k <= m BY <1>2, <1>3, LeastNat
<1>5. n - k \in T /\ \A m \in T : m <= n - k
  <2>1. n - k \in T BY <1>4 DEF U
  <2>2. ASSUME NEW m \in T PROVE m <= n - k
    <3>1. n - m \in U BY DEF U
    <3> QED BY <3>1, <1>4, <1>3
  <2> QED BY <2>1, <2>2
<1> QED BY <1>5 DEF Max

\* A set of subsets of a finite set that is not empty has a member none of whose
\* elements can be taken away.
LEMMA LeastSubset ==
    ASSUME NEW S, IsFiniteSet(S), NEW T, T \subseteq SUBSET S, T # {}
    PROVE  \E s \in T : \A x \in s : s \ {x} \notin T
<1>1. IsWellFoundedOn(StrictSubsetOrdering(S), FiniteSubsetsOf(S))
  BY FS_StrictSubsetOrderingWellFounded
<1>2. T \subseteq FiniteSubsetsOf(S)
  BY FS_Subset DEF FiniteSubsetsOf
<1>3. PICK s \in T : \A t \in T : ~(<<t, s>> \in StrictSubsetOrdering(S))
  BY <1>1, <1>2, WFMin, Zenon
<1>4. ASSUME NEW x \in s, s \ {x} \in T PROVE FALSE
  BY <1>3, <1>4 DEF StrictSubsetOrdering
<1> QED BY <1>4

-----------------------------------------------------------------------------
(***************************************************************************)
(* Recursion over the subsets of a finite set.  pick[s] is the element     *)
(* treated last, step[s, y] the result for s when y is the one for the     *)
(* others, V a set that holds all results.                                 *)
(***************************************************************************)
Picks(pick, S) == \A s \in (SUBSET S) \ {{}} : pick[s] \in s
Steps(step, D, V) == step \in [D \X V -> V]
Follows(g, S, V, base, step, pick) ==
    /\ g \in [SUBSET S -> V]
    /\ \A s \in SUBSET S : g[s] = IF s = {} THEN base ELSE step[<<s, g[s \ {pick[s]}]>>]

\* The recursion has a solution.
LEMMA SubsetRecursion ==
    ASSUME NEW S, IsFiniteSet(S), NEW pick, Picks(pick, S),
           NEW V, NEW base \in V, NEW step, Steps(step, SUBSET S, V)
    PROVE  \E g : Follows(g, S, V, base, step, pick)
<1> USE DEF Steps
<1> DEFINE Dom(n) == {s \in SUBSET S : Cardinality(s) <= n}
           Solves(g, D) == /\ g \in [D -> V]
                           /\ \A s \in D : g[s] = IF s = {} THEN base ELSE step[<<s, g[s \ {pick[s]}]>>]
           Bad == {n \in Nat : ~ \E g : Solves(g, Dom(n))}
<1>a. ASSUME NEW s \in SUBSET S
      PROVE  /\ IsFiniteSet(s) /\ Cardinality(s) \in Nat /\ Cardinality(s) <= Cardinality(S)
             /\ s # {} => /\ s \ {pick[s]} \in SUBSET S
                          /\ Cardinality(s \ {pick[s]}) = Cardinality(s) - 1
                          /\ Cardinality(s) # 0
  <2>1. IsFiniteSet(s) /\ Cardinality(s) \in Nat /\ Cardinality(s) <= Cardinality(S)
    BY FS_Subset, FS_CardinalityType
  <2>2. ASSUME s # {} PROVE Cardinality(s \ {pick[s]}) = Cardinality(s) - 1 /\ Cardinality(s) # 0
    BY <2>1, <2>2, FS_RemoveElement, FS_EmptySet DEF Picks
  <2> QED BY <2>1, <2>2
<1>1. Bad = {}
  <2>1. SUFFICES ASSUME Bad # {} PROVE FALSE OBVIOUS
  <2>2. PICK n \in Bad : \A m \in Bad : n <= m BY <2>1, LeastNat
  <2>3. n \in Nat OBVIOUS
  <2>4. ~ \E g : Solves(g, Dom(n)) OBVIOUS
  <2>5. CASE n = 0
    <3> DEFINE g == [s \in Dom(0) |-> base]
    <3>1. ASSUME NEW s \in Dom(0) PROVE s = {}
      <4>1. s \in SUBSET S /\ Cardinality(s) <= 0 OBVIOUS
      <4>2. Cardinality(s) \in Nat /\ (s # {} => Cardinality(s) # 0) BY <4>1, <1>a
      <4> QED BY <4>1, <4>2
    <3>2. Solves(g, Dom(0)) BY <3>1
    <3> QED BY <2>4, <2>5, <3>2
  <2>6. CASE n # 0
    <3>1. n - 1 \in Nat /\ n - 1 \notin Bad
      <4> HIDE DEF Bad
      <4> QED BY <2>2, <2>3, <2>6
    <3>2. PICK h : Solves(h, Dom(n - 1)) BY <3>1
    <3> DEFINE g == [s \in Dom(n) |-> IF s = {} THEN base ELSE step[<<s, h[s \ {pick[s]}]>>]]
    <3>3. ASSUME NEW s \in Dom(n), s # {} PROVE s \ {pick[s]} \in Dom(n - 1)
      <4>1. s \in SUBSET S /\ Cardinality(s) <= n OBVIOUS
      <4>2. /\ Cardinality(s) \in Nat /\ s \ {pick[s]} \in SUBSET S
            /\ Cardinality(s \ {pick[s]}) = Cardinality(s) - 1
        BY <3>3, <4>1, <1>a
      <4>3. Cardinality(s \ {pick[s]}) <= n - 1 BY <4>1, <4>2, <2>3
      <4> QED BY <4>2, <4>3
    <3>4. ASSUME NEW s \in Dom(n - 1) PROVE s \in Dom(n)
      <4>1. s \in SUBSET S /\ Cardinality(s) <= n - 1 OBVIOUS
      <4>2. Cardinality(s) \in Nat BY <4>1, <1>a
      <4>3. Cardinality(s) <= n BY <4>1, <4>2, <2>3
      <4> QED BY <4>1, <4>3
    <3> HIDE DEF Dom
    <3>5. \A s \in Dom(n - 1) : h[s] \in V /\ g[s] = h[s]
      BY <3>2, <3>4
    <3>6. \A s \in Dom(n) : s \in SUBSET S BY DEF Dom
    <3>7. g \in [Dom(n) -> V] BY <3>3, <3>5, <3>6
    <3>8. \A s \in Dom(n) : g[s] = IF s = {} THEN base ELSE step[<<s, g[s \ {pick[s]}]>>]
      BY <3>3, <3>5
    <3> QED BY <2>4, <3>7, <3>8
  <2> QED BY <2>5, <2>6
<1>2. Cardinality(S) \in Nat BY FS_CardinalityType
<1>3. PICK g : Solves(g, Dom(Cardinality(S))) BY <1>1, <1>2
<1>4. Dom(Cardinality(S)) = SUBSET S BY <1>a
<1> QED BY <1>3, <1>4 DEF Follows

\* Induction along the recursion: P is the set of subsets with the property.
LEMMA SubsetInduction ==
    ASSUME NEW S, IsFiniteSet(S), NEW pick, Picks(pick, S), NEW P, {} \in P,
           \A s \in (SUBSET S) \ {{}} : s \ {pick[s]} \in P => s \in P
    PROVE  \A s \in SUBSET S : s \in P
<1> DEFINE Bad == (SUBSET S) \ P
<1>1. SUFFICES ASSUME Bad # {} PROVE FALSE OBVIOUS
<1>2. Bad \subseteq SUBSET S /\ Bad # {} BY <1>1
<1>3. PICK s \in Bad : \A x \in s : s \ {x} \notin Bad
  <2> HIDE DEF Bad
  <2> QED BY <1>2, LeastSubset
<1>4. s \in (SUBSET S) \ {{}} OBVIOUS
<1>5. pick[s] \in s BY <1>4 DEF Picks
<1> QED BY <1>3, <1>4, <1>5

(***************************************************************************)
(* Recursion over 0..n, and induction.                                     *)
(***************************************************************************)
LEMMA UpTo ==
    ASSUME NEW n \in Nat, NEW P, 0 \in P, \A i \in 1..n : i - 1 \in P => i \in P
    PROVE  \A i \in 0..n : i \in P
<1> DEFINE Bad == (0..n) \ P
<1>1. SUFFICES ASSUME Bad # {} PROVE FALSE OBVIOUS
<1>2. Bad \in SUBSET Nat OBVIOUS
<1>3. PICK i \in Bad : \A m \in Bad : i <= m
  <2> HIDE DEF Bad
  <2> QED BY <1>1, <1>2, LeastNat
<1>4. i \in 1..n BY <1>3
<1>5. i - 1 \notin Bad BY <1>2, <1>3, <1>4
<1>6. i - 1 \in P BY <1>4, <1>5
<1> QED BY <1>4, <1>6

Climbs(g, n, V, base, step) ==
    /\ g \in [0..n -> V]
    /\ \A i \in 0..n : g[i] = IF i = 0 THEN base ELSE step[<<i, g[i - 1]>>]

-----------------------------------------------------------------------------
(***************************************************************************)
(* Sums over a finite set.                                                 *)
(***************************************************************************)
Some(s) == CHOOSE x \in s : TRUE
SumOf(h, S) == MapThenSumSet(LAMBDA x : h[x], S)

\* sum[s] is the sum over s, for every subset s.
IsSum(sum, h, S) ==
    /\ sum \in [SUBSET S -> Int]
    /\ \A s \in SUBSET S : sum[s] = IF s = {} THEN 0 ELSE h[Some(s)] + sum[s \ {Some(s)}]

\* The element CHOOSE takes from a set is one of its elements.
LEMMA SomePicks == ASSUME NEW S PROVE Picks([s \in SUBSET S |-> Some(s)], S)
BY DEF Picks, Some

\* The sum over S is reached by adding one element after the other.
LEMMA SumUnfold ==
    ASSUME NEW S, IsFiniteSet(S), NEW h \in [S -> Int]
    PROVE  \E sum : IsSum(sum, h, S) /\ SumOf(h, S) = sum[S]
<1> DEFINE pick == [s \in SUBSET S |-> Some(s)]
           step == [sy \in (SUBSET S) \X Int |-> IF sy[1] = {} THEN 0 ELSE h[Some(sy[1])] + sy[2]]
           F(g) == [s \in SUBSET S |-> IF s = {} THEN 0 ELSE h[Some(s)] + g[s \ {Some(s)}]]
           sum == CHOOSE g : g = F(g)
<1>1. \A s \in SUBSET S : s # {} => Some(s) \in S /\ h[Some(s)] \in Int
  BY DEF Some
<1>2. step \in [(SUBSET S) \X Int -> Int] BY <1>1
<1>3. PICK g : Follows(g, S, Int, 0, step, pick)
  <2>1. Picks(pick, S) BY SomePicks
  <2>2. Steps(step, SUBSET S, Int) BY <1>2 DEF Steps
  <2>3. 0 \in Int OBVIOUS
  <2> HIDE DEF pick, step
  <2> QED BY <2>1, <2>2, <2>3, SubsetRecursion
<1>4. \A s \in SUBSET S : g[s] = IF s = {} THEN 0 ELSE h[Some(s)] + g[s \ {Some(s)}]
  <2>1. g \in [SUBSET S -> Int] /\ \A s \in SUBSET S : g[s] = IF s = {} THEN 0 ELSE step[<<s, g[s \ {pick[s]}]>>]
    <3> HIDE DEF step, pick
    <3> QED BY <1>3 DEF Follows
  <2>2. \A s \in SUBSET S : s # {} => pick[s] = Some(s) /\ g[s \ {Some(s)}] \in Int BY <2>1
  <2> QED BY <2>1, <2>2
<1>5. g = F(g) BY <1>3, <1>4 DEF Follows
<1>6. sum = F(sum) BY <1>5
<1>7. SumOf(h, S) = sum[S] BY DEF SumOf, MapThenSumSet, MapThenFoldSet, Some
<1> HIDE DEF sum
<1>8. \A s \in SUBSET S : sum[s] = IF s = {} THEN 0 ELSE h[Some(s)] + sum[s \ {Some(s)}]
  BY <1>6
<1>9. sum \in [SUBSET S -> Int]
  <2> DEFINE P == {s \in SUBSET S : sum[s] \in Int}
  <2>1. {} \in P
    <3>1. sum[{}] = 0 BY <1>8
    <3> QED BY <3>1
  <2>2. ASSUME NEW s \in (SUBSET S) \ {{}}, s \ {pick[s]} \in P PROVE s \in P
    <3>1. s \in SUBSET S /\ s # {} OBVIOUS
    <3>2. sum[s \ {Some(s)}] \in Int BY <2>2, <3>1
    <3>3. h[Some(s)] \in Int BY <1>1, <3>1
    <3>4. sum[s] = h[Some(s)] + sum[s \ {Some(s)}] BY <1>8, <3>1
    <3>5. sum[s] \in Int BY <3>2, <3>3, <3>4
    <3> QED BY <3>1, <3>5
  <2>3. Picks(pick, S) BY SomePicks
  <2>4. \A s \in SUBSET S : s \in P
    <3> HIDE DEF P, pick
    <3> QED BY <2>1, <2>2, <2>3, SubsetInduction
  <2>5. sum = [s \in SUBSET S |-> sum[s]] BY <1>6
  <2> QED BY <2>4, <2>5
<1>10. IsSum(sum, h, S) BY <1>8, <1>9 DEF IsSum
<1> QED BY <1>7, <1>10

\* Sums of natural numbers are natural numbers.
LEMMA SumNat ==
    ASSUME NEW S, IsFiniteSet(S), NEW h \in [S -> Nat]
    PROVE  SumOf(h, S) \in Nat
<1> DEFINE pick == [s \in SUBSET S |-> Some(s)]
<1>1. h \in [S -> Int] OBVIOUS
<1>2. PICK sum : IsSum(sum, h, S) /\ SumOf(h, S) = sum[S] BY <1>1, SumUnfold
<1> DEFINE P == {s \in SUBSET S : sum[s] \in Nat}
<1>3. {} \in P
  <2>1. sum[{}] = 0 BY <1>2 DEF IsSum
  <2> QED BY <2>1
<1>4. ASSUME NEW s \in (SUBSET S) \ {{}}, s \ {pick[s]} \in P PROVE s \in P
  <2>1. s \in SUBSET S /\ s # {} OBVIOUS
  <2>2. sum[s \ {Some(s)}] \in Nat BY <1>4, <2>1
  <2>3. h[Some(s)] \in Nat BY <2>1 DEF Some
  <2>4. sum[s] = h[Some(s)] + sum[s \ {Some(s)}] BY <1>2, <2>1 DEF IsSum
  <2>5. sum[s] \in Nat BY <2>2, <2>3, <2>4
  <2> QED BY <2>1, <2>5
<1>5. Picks(pick, S) BY SomePicks
<1>6. \A s \in SUBSET S : s \in P
  <2> HIDE DEF P, pick
  <2> QED BY <1>3, <1>4, <1>5, SubsetInduction
<1> QED BY <1>2, <1>6

\* The sums over no and over one element.
LEMMA SumSmall ==
    ASSUME NEW x, NEW h \in [{x} -> Int], NEW g \in [{} -> Int]
    PROVE  SumOf(h, {x}) = h[x] /\ SumOf(g, {}) = 0
<1>1. IsFiniteSet({x}) /\ IsFiniteSet({}) BY FS_Singleton, FS_EmptySet
<1>2. PICK sum : IsSum(sum, h, {x}) /\ SumOf(h, {x}) = sum[{x}] BY <1>1, SumUnfold
<1>3. PICK none : IsSum(none, g, {}) /\ SumOf(g, {}) = none[{}] BY <1>1, SumUnfold
<1>4. Some({x}) = x /\ {x} \ {x} = {} BY DEF Some
<1>5. sum[{}] = 0 BY <1>2 DEF IsSum
<1>6. sum[{x}] = h[x] + 0 BY <1>2, <1>4, <1>5 DEF IsSum
<1>7. none[{}] = 0 /\ h[x] \in Int BY <1>3 DEF IsSum
<1> QED BY <1>2, <1>3, <1>6, <1>7

\* When one summand changes the sum changes by the difference.
LEMMA SumChange ==
    ASSUME NEW S, IsFiniteSet(S), NEW h \in [S -> Int], NEW k \in [S -> Int],
           NEW x \in S, \A y \in S \ {x} : k[y] = h[y]
    PROVE  SumOf(k, S) = SumOf(h, S) + k[x] - h[x]
<1> DEFINE v == k[x]
           pick == [s \in SUBSET S |-> Some(s)]
<1>2. PICK a : IsSum(a, h, S) /\ SumOf(h, S) = a[S] BY SumUnfold
<1>3. PICK b : IsSum(b, k, S) /\ SumOf(k, S) = b[S] BY SumUnfold
<1> DEFINE D(s) == IF x \in s THEN v - h[x] ELSE 0
           P == {s \in SUBSET S : b[s] = a[s] + D(s)}
<1>4. {} \in P
  <2>1. a[{}] = 0 /\ b[{}] = 0 BY <1>2, <1>3 DEF IsSum
  <2> QED BY <2>1
<1>5. ASSUME NEW s \in (SUBSET S) \ {{}}, s \ {pick[s]} \in P PROVE s \in P
  <2> DEFINE y == Some(s)
             t == s \ {y}
  <2>1. s \in SUBSET S /\ s # {} OBVIOUS
  <2>2. y \in s /\ y \in S BY <2>1 DEF Some
  <2>3. t \in SUBSET S /\ b[t] = a[t] + D(t) BY <1>5, <2>1
  <2>4. a[s] = h[y] + a[t] /\ b[s] = k[y] + b[t] BY <1>2, <1>3, <2>1 DEF IsSum
  <2>5. a[t] \in Int /\ h[y] \in Int /\ h[x] \in Int /\ v \in Int BY <1>2, <2>2, <2>3 DEF IsSum
  <2>6. b[s] = a[s] + D(s)
    <3>1. CASE y = x
      <4>1. D(t) = 0 /\ D(s) = v - h[x] /\ k[y] = v BY <2>2, <3>1
      <4> HIDE DEF D, t, y
      <4> QED BY <2>3, <2>4, <2>5, <3>1, <4>1
    <3>2. CASE y # x
      <4>1. D(t) = D(s) /\ k[y] = h[y] /\ D(s) \in Int BY <2>2, <2>5, <3>2
      <4> HIDE DEF D, t, y
      <4> QED BY <2>3, <2>4, <2>5, <4>1
    <3> QED BY <3>1, <3>2
  <2> QED BY <2>1, <2>6
<1>6. Picks(pick, S) BY SomePicks
<1>7. \A s \in SUBSET S : s \in P
  <2> HIDE DEF P, pick
  <2> QED BY <1>4, <1>5, <1>6, SubsetInduction
<1>8. b[S] = a[S] + (v - h[x]) BY <1>7
<1>9. a[S] \in Int /\ h[x] \in Int /\ v \in Int BY <1>2 DEF IsSum
<1> QED BY <1>2, <1>3, <1>8, <1>9

-----------------------------------------------------------------------------
(***************************************************************************)
(* Folds over a sequence of length n: FoldLeft recurs over the subsets of  *)
(* 1..n and treats the largest index last, so that along the prefixes it   *)
(* applies one step after the other.                                       *)
(***************************************************************************)
\* it solves the recursion that FoldLeft is defined by, as far as it stays in V.
Folds(it, n, V, base, step) ==
    \A s \in SUBSET (1..n) :
        IF s = {} THEN it[s] = base
        ELSE it[s \ {Max(s)}] \in V => it[s] = step[<<Max(s), it[s \ {Max(s)}]>>]

Unfolds(it, n, V, base, step) ==
    /\ it \in [SUBSET (1..n) -> V]
    /\ \A s \in SUBSET (1..n) : it[s] = IF s = {} THEN base ELSE step[<<Max(s), it[s \ {Max(s)}]>>]

\* The recursion has a solution with values in V.
LEMMA FoldExists ==
    ASSUME NEW n \in Nat, NEW V, NEW base \in V, NEW step, Steps(step, 1..n, V)
    PROVE  \E g : Unfolds(g, n, V, base, step)
<1> DEFINE S == 1..n
           pick == [s \in SUBSET S |-> Max(s)]
           big == [sy \in (SUBSET S) \X V |-> IF sy[1] = {} THEN base ELSE step[<<Max(sy[1]), sy[2]>>]]
<1>1. \A s \in SUBSET S : s # {} => Max(s) \in s
  <2> SUFFICES ASSUME NEW s \in SUBSET S, s # {} PROVE Max(s) \in s OBVIOUS
  <2>1. s \in SUBSET (0..n) OBVIOUS
  <2> QED BY <2>1, MaxNat
<1>2. Picks(pick, S) BY <1>1 DEF Picks
<1>3. Steps(big, SUBSET S, V)
  <2>1. \A s \in SUBSET S, y \in V : s # {} => step[<<Max(s), y>>] \in V BY <1>1 DEF Steps
  <2> HIDE DEF S
  <2> QED BY <2>1 DEF Steps
<1>4. IsFiniteSet(S) BY FS_Interval
<1>5. PICK g : Follows(g, S, V, base, big, pick)
  <2> HIDE DEF S, pick, big
  <2> QED BY <1>2, <1>3, <1>4, SubsetRecursion
<1>6. g \in [SUBSET S -> V] /\ \A s \in SUBSET S : g[s] = IF s = {} THEN base ELSE big[<<s, g[s \ {pick[s]}]>>]
  <2> HIDE DEF S, pick, big
  <2> QED BY <1>5 DEF Follows
<1> HIDE DEF S
<1>7. \A s \in SUBSET S : s # {} => big[<<s, g[s \ {pick[s]}]>>] = step[<<Max(s), g[s \ {Max(s)}]>>]
  BY <1>6
<1>8. \A s \in SUBSET S : g[s] = IF s = {} THEN base ELSE step[<<Max(s), g[s \ {Max(s)}]>>]
  <2> HIDE DEF big, pick
  <2> QED BY <1>6, <1>7
<1> QED BY <1>6, <1>8 DEF S, Unfolds

\* Whatever solves it climbs along the prefixes.
LEMMA FoldClimbs ==
    ASSUME NEW n \in Nat, NEW V, NEW base \in V, NEW step, Steps(step, 1..n, V),
           NEW it, Folds(it, n, V, base, step)
    PROVE  Climbs([i \in 0..n |-> it[1..i]], n, V, base, step)
<1> DEFINE g == [i \in 0..n |-> it[1..i]]
           P == {i \in 0..n : it[1..i] \in V}
<1>1. it[1..0] = base
  <2>1. 1..0 = {} /\ {} \in SUBSET (1..n) OBVIOUS
  <2> QED BY <2>1 DEF Folds
<1>2. ASSUME NEW i \in 1..n, it[1..(i - 1)] \in V
      PROVE  it[1..i] = step[<<i, it[1..(i - 1)]>>]
  <2>0. i \in 1..i /\ (1..i) \ {i} = 1..(i - 1) OBVIOUS
  <2>1. 1..i \in SUBSET (1..n) OBVIOUS
  <2>3. 1..i # {} BY <2>0
  <2>2. Max(1..i) = i
    <3>1. 1..i \in SUBSET (0..n) OBVIOUS
    <3>2. Max(1..i) \in 1..i /\ \A m \in 1..i : m <= Max(1..i) BY <2>3, <3>1, MaxNat
    <3> QED BY <3>2
  <2> QED BY <1>2, <2>0, <2>1, <2>2, <2>3 DEF Folds
<1>3. 0 \in P BY <1>1
<1>4. ASSUME NEW i \in 1..n, i - 1 \in P PROVE i \in P
  <2>1. it[1..(i - 1)] \in V BY <1>4
  <2>2. it[1..i] \in V BY <1>2, <2>1 DEF Steps
  <2> QED BY <2>2
<1>5. \A i \in 0..n : i \in P
  <2> HIDE DEF P
  <2> QED BY <1>3, <1>4, UpTo
<1>6. g \in [0..n -> V] BY <1>5
<1>7. ASSUME NEW i \in 0..n PROVE g[i] = IF i = 0 THEN base ELSE step[<<i, g[i - 1]>>]
  <2>1. CASE i = 0 BY <1>1, <2>1
  <2>2. CASE i # 0
    <3>1. i \in 1..n /\ i - 1 \in 0..n BY <2>2
    <3>2. it[1..(i - 1)] \in V BY <1>5, <3>1
    <3> QED BY <1>2, <2>2, <3>1, <3>2
  <2> QED BY <2>1, <2>2
<1> QED BY <1>6, <1>7 DEF Climbs

\* A climb stays in its values and takes one step at a time.
LEMMA ClimbsFacts ==
    ASSUME NEW n \in Nat, NEW V, NEW base, NEW step, NEW g, Climbs(g, n, V, base, step)
    PROVE  /\ g \in [0..n -> V] /\ g[0] = base
           /\ \A i \in 1..n : g[i - 1] \in V /\ g[i] = step[<<i, g[i - 1]>>]
<1>0. 0 \in 0..n OBVIOUS
<1>1. g \in [0..n -> V] /\ g[0] = base BY <1>0 DEF Climbs
<1>2. ASSUME NEW i \in 1..n PROVE g[i - 1] \in V /\ g[i] = step[<<i, g[i - 1]>>]
  <2>1. i \in 0..n /\ i - 1 \in 0..n /\ i # 0 OBVIOUS
  <2> QED BY <1>1, <2>1 DEF Climbs
<1> QED BY <1>1, <1>2

(***************************************************************************)
(* The entries of s that are in X, in their order.  take[i] is what is     *)
(* taken from the first i entries.                                         *)
(***************************************************************************)
Selected(s, X) == FoldLeft(LAMBDA kept, e : IF e \in X THEN Append(kept, e) ELSE kept, <<>>, s)

IsSelection(take, s, E, X) ==
    /\ take \in [0..Len(s) -> Seq(E)]
    /\ \A i \in 0..Len(s) : take[i] = IF i = 0 THEN <<>>
                                       ELSE IF s[i] \in X THEN Append(take[i - 1], s[i]) ELSE take[i - 1]

\* A selection is reached by taking or leaving one entry after the other.
LEMMA SelectUnfold ==
    ASSUME NEW E, NEW s \in Seq(E), NEW X
    PROVE  \E take : IsSelection(take, s, E, X) /\ Selected(s, X) = take[Len(s)]
<1> DEFINE n == Len(s)
           V == Seq(E)
           step == [iy \in (1..n) \X V |-> IF s[iy[1]] \in X THEN Append(iy[2], s[iy[1]]) ELSE iy[2]]
           F(g) == [t \in SUBSET (DOMAIN s) |->
                       IF t = {} THEN <<>>
                       ELSE IF s[Max(t)] \in X THEN Append(g[t \ {Max(t)}], s[Max(t)]) ELSE g[t \ {Max(t)}]]
           it == CHOOSE g : g = F(g)
<1>1. n \in Nat /\ DOMAIN s = 1..n /\ <<>> \in V OBVIOUS
<1>2. Selected(s, X) = it[1..n] BY <1>1 DEF Selected, FoldLeft, MapThenFoldSet
<1>3. \A i \in 1..n, y \in V : step[<<i, y>>] = (IF s[i] \in X THEN Append(y, s[i]) ELSE y) /\ step[<<i, y>>] \in V
  OBVIOUS
<1>4. Steps(step, 1..n, V)
  <2>1. \A iy \in (1..n) \X V : (IF s[iy[1]] \in X THEN Append(iy[2], s[iy[1]]) ELSE iy[2]) \in V OBVIOUS
  <2> QED BY <2>1 DEF Steps
<1>m. \A t \in SUBSET (1..n) : t # {} => Max(t) \in 1..n
  <2> SUFFICES ASSUME NEW t \in SUBSET (1..n), t # {} PROVE Max(t) \in 1..n OBVIOUS
  <2>1. t \in SUBSET (0..n) OBVIOUS
  <2> QED BY <1>1, <2>1, MaxNat
<1> HIDE DEF n, V, step
<1>5. PICK g : Unfolds(g, n, V, <<>>, step)
  BY <1>1, <1>4, FoldExists
<1>6. g = F(g)
  <2>1. \A t \in SUBSET (1..n) : g[t] = IF t = {} THEN <<>>
                       ELSE IF s[Max(t)] \in X THEN Append(g[t \ {Max(t)}], s[Max(t)]) ELSE g[t \ {Max(t)}]
    BY <1>3, <1>5, <1>m DEF Unfolds
  <2> QED BY <1>1, <1>5, <2>1 DEF Unfolds
<1>7. it = F(it) BY <1>6
<1> HIDE DEF it
<1>8. Folds(it, n, V, <<>>, step)
  <2> SUFFICES ASSUME NEW t \in SUBSET (1..n)
               PROVE  IF t = {} THEN it[t] = <<>>
                      ELSE it[t \ {Max(t)}] \in V => it[t] = step[<<Max(t), it[t \ {Max(t)}]>>]
    BY DEF Folds
  <2>1. it[t] = IF t = {} THEN <<>>
                ELSE IF s[Max(t)] \in X THEN Append(it[t \ {Max(t)}], s[Max(t)]) ELSE it[t \ {Max(t)}]
    BY <1>1, <1>7
  <2> QED BY <2>1, <1>3, <1>m
<1> DEFINE take == [i \in 0..n |-> it[1..i]]
<1>9. Climbs(take, n, V, <<>>, step) BY <1>1, <1>4, <1>8, FoldClimbs
<1>10. take[n] = it[1..n] BY <1>1
<1> HIDE DEF take
<1>11. /\ take \in [0..n -> V] /\ take[0] = <<>>
       /\ \A i \in 1..n : take[i - 1] \in V /\ take[i] = step[<<i, take[i - 1]>>]
  BY <1>1, <1>9, ClimbsFacts
<1>12. \A i \in 0..n : take[i] = IF i = 0 THEN <<>> ELSE IF s[i] \in X THEN Append(take[i - 1], s[i]) ELSE take[i - 1]
  <2> TAKE i \in 0..n
  <2>1. CASE i = 0 BY <1>11, <2>1
  <2>2. CASE i # 0
    <3>1. i \in 1..n BY <1>1, <2>2
    <3> QED BY <1>3, <1>11, <2>2, <3>1
  <2> QED BY <2>1, <2>2
<1>13. IsSelection(take, s, E, X) BY <1>11, <1>12 DEF IsSelection, n, V
<1> QED BY <1>2, <1>10, <1>13 DEF n

Apart(s) == \A i, j \in DOMAIN s : i # j => s[i].of # s[j].of

\* What is selected comes from the sequence and passes the test, is not longer, and
\* has no two entries about the same thing if the sequence has none.
LEMMA SelectFacts ==
    ASSUME NEW E, NEW s \in Seq(E), NEW X
    PROVE  /\ Selected(s, X) \in Seq(E)
           /\ Len(Selected(s, X)) <= Len(s)
           /\ \A k \in DOMAIN Selected(s, X) :
                  Selected(s, X)[k] \in X /\ \E j \in DOMAIN s : Selected(s, X)[k] = s[j]
           /\ Apart(s) => Apart(Selected(s, X))
<1>1. PICK take : IsSelection(take, s, E, X) /\ Selected(s, X) = take[Len(s)] BY SelectUnfold
<1>n. Len(s) \in Nat OBVIOUS
<1> DEFINE From(i, q) == /\ Len(q) <= i
                         /\ \A k \in DOMAIN q : q[k] \in X /\ \E j \in 1..i : q[k] = s[j]
                         /\ Apart(s) => Apart(q)
           P == {i \in 0..Len(s) : From(i, take[i])}
<1>2. 0 \in P
  <2>1. take[0] = <<>> BY <1>1 DEF IsSelection
  <2>2. From(0, <<>>) BY DEF Apart
  <2> HIDE DEF From
  <2> QED BY <2>1, <2>2
<1>3. ASSUME NEW i \in 1..Len(s), i - 1 \in P PROVE i \in P
  <2> DEFINE q == take[i - 1]
  <2>1. From(i - 1, q) BY <1>3
  <2>2. /\ q \in Seq(E) /\ s[i] \in E
        /\ take[i] = IF s[i] \in X THEN Append(q, s[i]) ELSE q
    <3>1. i \in 0..Len(s) /\ i # 0 /\ i - 1 \in 0..Len(s) /\ i \in DOMAIN s OBVIOUS
    <3>2. take[i - 1] \in Seq(E) BY <1>1, <3>1 DEF IsSelection
    <3>3. take[i] = IF s[i] \in X THEN Append(take[i - 1], s[i]) ELSE take[i - 1] BY <1>1, <3>1 DEF IsSelection
    <3> QED BY <3>1, <3>2, <3>3
  <2> HIDE DEF q
  <2>3. CASE s[i] \notin X
    <3>1. From(i, q) BY <2>1, <2>2
    <3> HIDE DEF From
    <3> QED BY <2>2, <2>3, <3>1
  <2>4. CASE s[i] \in X
    <3> DEFINE r == Append(q, s[i])
    <3>1. r \in Seq(E) /\ Len(r) = Len(q) + 1 /\ \A k \in DOMAIN r : r[k] = IF k = Len(q) + 1 THEN s[i] ELSE q[k]
      BY <2>2
    <3>2. \A k \in DOMAIN r : k # Len(q) + 1 => k \in DOMAIN q BY <2>2
    <3> HIDE DEF r
    <3>3. Len(r) <= i BY <2>1, <2>2, <3>1
    <3>4. \A k \in DOMAIN r : r[k] \in X /\ \E j \in 1..i : r[k] = s[j]
      BY <2>1, <2>4, <3>1, <3>2
    <3>5. ASSUME Apart(s) PROVE Apart(r)
      <4> SUFFICES ASSUME NEW a \in DOMAIN r, NEW b \in DOMAIN r, a # b, a # Len(q) + 1 PROVE r[a].of # r[b].of
        BY DEF Apart
      <4>1. a \in DOMAIN q /\ r[a] = q[a] BY <3>1, <3>2
      <4>2. CASE b # Len(q) + 1
        BY <2>1, <3>1, <3>2, <3>5, <4>1, <4>2 DEF Apart
      <4>3. CASE b = Len(q) + 1
        <5>1. PICK j \in 1..(i - 1) : q[a] = s[j] BY <2>1, <4>1
        <5>2. j \in DOMAIN s /\ i \in DOMAIN s /\ j # i OBVIOUS
        <5>3. s[j].of # s[i].of BY <3>5, <5>2 DEF Apart
        <5> QED BY <3>1, <4>1, <4>3, <5>1, <5>3
      <4> QED BY <4>2, <4>3
    <3>6. From(i, r) BY <3>3, <3>4, <3>5
    <3>7. take[i] = r BY <2>2, <2>4 DEF r
    <3> HIDE DEF From
    <3> QED BY <3>6, <3>7
  <2> QED BY <2>3, <2>4
<1>4. \A i \in 0..Len(s) : i \in P
  <2> HIDE DEF P
  <2> QED BY <1>n, <1>2, <1>3, UpTo
<1>5. Len(s) \in P BY <1>4
<1>6. From(Len(s), take[Len(s)]) BY <1>5
<1>7. take[Len(s)] \in Seq(E) BY <1>1 DEF IsSelection
<1> QED BY <1>1, <1>6, <1>7

=============================================================================
