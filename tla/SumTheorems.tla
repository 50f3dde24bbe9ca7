---------------------------- MODULE SumTheorems -----------------------------
(***************************************************************************)
(* What the sums of the models are: SumFunctionOnSet(f, S), which the      *)
(* community modules define by a recursive function over the subsets of S  *)
(* that takes one CHOSEn element away at a time, is the same whichever     *)
(* element is taken away first.  The budget of the limiter (ratelimiter.rs *)
(* adds up what was charged), the balances of a venue (what open orders    *)
(* reserve) and the ledger of the paper exchange are such sums.            *)
(*                                                                         *)
(* A definition by recursion says nothing until a function that satisfies  *)
(* it is shown to exist.  That takes an induction, which is stated here    *)
(* over sets, so that no operator is a parameter: a subset of Nat that has *)
(* 0 and each successor is Nat, because < is well founded on it            *)
(* (InductionOverNat).  Tables of folds exist level by level of the        *)
(* cardinality (FoldsExist), the sum is the last entry of its table        *)
(* (SumOfTable), and any element may be split off first (SumSplit).  What  *)
(* goes through a list or a range step by step has a function, too         *)
(* (StepsExist), and keeps what each step keeps (UpTo).                    *)
(***************************************************************************)
EXTENDS Integers, Functions, FiniteSets, FiniteSetTheorems, WellFoundedInduction, TLAPS

\* Induction, over a set of numbers in the place of a predicate.
LEMMA InductionOverNat ==
  ASSUME NEW T \in SUBSET Nat, 0 \in T, \A n \in T : n + 1 \in T
  PROVE  T = Nat
<1>1. SUFFICES ASSUME Nat \ T # {} PROVE FALSE
  OBVIOUS
<1> DEFINE R == {ss \in Nat \X Nat : ss[1] < ss[2]}
<1>2. IsWellFoundedOn(R, Nat)
  BY NatLessThanWellFounded, Zenon DEF OpToRel
<1>3. PICK n \in Nat \ T : \A y \in Nat \ T : <<y, n>> \notin R
  <2> HIDE DEF R
  <2> QED
    BY <1>1, <1>2, WFMin
<1>4. n # 0 /\ n - 1 \in Nat
  OBVIOUS
<1>5. n - 1 \notin T
  BY <1>4
<1>6. <<n - 1, n>> \in R
  BY <1>4
<1> QED
  BY <1>3, <1>4, <1>5, <1>6

(***************************************************************************)
(* A rule that makes a value of the one before it has a function.          *)
(***************************************************************************)
Follows(g, n, base, step) ==
  \A i \in 0..n : g[i] = IF i = 0 THEN base ELSE step[<<i, g[i - 1]>>]

LEMMA StepsExist ==
  ASSUME NEW n \in Nat, NEW V, NEW base \in V, NEW step \in [(1..n) \X V -> V]
  PROVE  \E g \in [0..n -> V] : Follows(g, n, base, step)
<1> DEFINE Rule(g, i) == IF i = 0 THEN base ELSE step[<<i, g[i - 1]>>]
           Made(m) == \E g \in [0..m -> V] : \A i \in 0..m : g[i] = Rule(g, i)
           T == {m \in Nat : m <= n => Made(m)}
<1>1. 0 \in T
  <2> DEFINE g == [i \in 0..0 |-> base]
  <2>1. g \in [0..0 -> V] /\ \A i \in 0..0 : g[i] = Rule(g, i)
    OBVIOUS
  <2> QED
    BY <2>1
<1>2. ASSUME NEW m \in T PROVE m + 1 \in T
  <2> SUFFICES ASSUME m + 1 <= n PROVE Made(m + 1)
    OBVIOUS
  <2>1. PICK h \in [0..m -> V] : \A i \in 0..m : h[i] = Rule(h, i)
    OBVIOUS
  <2> DEFINE g == [i \in 0..m + 1 |-> Rule(h, i)]
  <2>2. \A i \in 0..m : g[i] = h[i]
    BY <2>1
  <2>3. ASSUME NEW i \in 0..m + 1 PROVE g[i] \in V /\ g[i] = Rule(g, i)
    <3>1. CASE i = 0
      BY <3>1
    <3>2. CASE i # 0
      <4>1. i - 1 \in 0..m /\ i \in 1..n
        BY <3>2
      <4>2. g[i - 1] = h[i - 1] /\ h[i - 1] \in V
        BY <2>2, <4>1
      <4>3. g[i] = step[<<i, h[i - 1]>>]
        BY <3>2
      <4> HIDE DEF g
      <4> QED
        BY <3>2, <4>1, <4>2, <4>3
    <3> QED
      BY <3>1, <3>2
  <2>4. g \in [0..m + 1 -> V]
    <3>1. g = [i \in 0..m + 1 |-> g[i]]
      BY DEF Rule
    <3> HIDE DEF g
    <3> QED
      BY <2>3, <3>1
  <2> HIDE DEF g, Rule
  <2> QED
    BY <2>3, <2>4
<1>3. T = Nat
  <2> HIDE DEF T
  <2> QED
    BY <1>1, <1>2, InductionOverNat DEF T
<1> QED
  BY <1>3 DEF Follows

\* Induction up to a bound.
LEMMA UpTo ==
  ASSUME NEW n \in Nat, NEW Q, Q \in SUBSET Nat, 0 \in Q,
         \A i \in 1..n : i - 1 \in Q => i \in Q
  PROVE  \A i \in 0..n : i \in Q
<1> DEFINE T == {i \in Nat : i <= n => i \in Q}
<1>1. 0 \in T
  OBVIOUS
<1>2. \A i \in T : i + 1 \in T
  <2> TAKE i \in T
  <2> SUFFICES ASSUME i + 1 <= n PROVE i + 1 \in Q
    OBVIOUS
  <2>1. i + 1 \in 1..n /\ (i + 1) - 1 = i /\ i \in Q
    OBVIOUS
  <2> QED
    BY <2>1
<1>3. T = Nat
  <2> HIDE DEF T
  <2> QED
    BY <1>1, <1>2, InductionOverNat DEF T
<1> QED
  BY <1>3

(***************************************************************************)
(* h folds the subsets of S, one chosen element at a time.                 *)
(***************************************************************************)
Folds(h, S, chosen, base, step) ==
  \A s \in SUBSET S :
    h[s] = IF s = {} THEN base ELSE step[<<chosen[s], h[s \ {chosen[s]}]>>]

\* chosen takes an element of every subset of S that has one.
ChoosesIn(chosen, S) == \A s \in SUBSET S : s # {} => chosen[s] \in s

\* Every step function has a table of its folds over the subsets of a finite set.
LEMMA FoldsExist ==
  ASSUME NEW S, IsFiniteSet(S), NEW chosen, ChoosesIn(chosen, S),
         NEW V, NEW base \in V, NEW step \in [S \X V -> V]
  PROVE  \E h \in [SUBSET S -> V] : Folds(h, S, chosen, base, step)
<1> DEFINE Level(n) == {s \in SUBSET S : Cardinality(s) <= n}
           Rule(h, s) == IF s = {} THEN base ELSE step[<<chosen[s], h[s \ {chosen[s]}]>>]
           Built(n) == \E h \in [Level(n) -> V] : \A s \in Level(n) : h[s] = Rule(h, s)
           T == {n \in Nat : Built(n)}
<1>1. 0 \in T
  <2> DEFINE h == [s \in Level(0) |-> base]
  <2>1. \A s \in Level(0) : s = {}
    <3> TAKE s \in Level(0)
    <3>1. IsFiniteSet(s)
      BY FS_Subset
    <3> QED
      BY <3>1, FS_EmptySet, FS_CardinalityType
  <2>2. h \in [Level(0) -> V] /\ \A s \in Level(0) : h[s] = Rule(h, s)
    BY <2>1
  <2> QED
    BY <2>2
<1>2. ASSUME NEW n \in T PROVE n + 1 \in T
  <2>1. PICK h \in [Level(n) -> V] : \A s \in Level(n) : h[s] = Rule(h, s)
    OBVIOUS
  <2> DEFINE g == [s \in Level(n + 1) |-> Rule(h, s)]
  <2>2. \A s \in Level(n + 1) : s # {} => chosen[s] \in s /\ s \ {chosen[s]} \in Level(n)
    <3> SUFFICES ASSUME NEW s \in Level(n + 1), s # {}
                 PROVE  chosen[s] \in s /\ s \ {chosen[s]} \in Level(n)
      OBVIOUS
    <3>1. chosen[s] \in s
      BY DEF ChoosesIn
    <3>2. IsFiniteSet(s)
      BY FS_Subset
    <3>3. Cardinality(s \ {chosen[s]}) = Cardinality(s) - 1
      BY ZenonT(40), <3>1, <3>2, FS_RemoveElement
    <3> QED
      BY <3>1, <3>2, <3>3, FS_CardinalityType
  <2>3. \A s \in Level(n) : s \in Level(n + 1) /\ g[s] = h[s]
    <3>1. \A s \in Level(n) : s \in Level(n + 1)
      BY FS_Subset, FS_CardinalityType
    <3> QED
      BY <2>1, <3>1
  <2>4. ASSUME NEW s \in Level(n + 1) PROVE g[s] \in V /\ g[s] = Rule(g, s)
    <3>1. CASE s = {}
      BY <3>1
    <3>2. CASE s # {}
      <4>1. /\ chosen[s] \in S /\ s \ {chosen[s]} \in Level(n)
            /\ h[s \ {chosen[s]}] \in V /\ g[s \ {chosen[s]}] = h[s \ {chosen[s]}]
        BY <2>1, <2>2, <2>3, <3>2
      <4>2. g[s] = step[<<chosen[s], h[s \ {chosen[s]}]>>]
        BY <3>2
      <4> HIDE DEF g
      <4> QED
        BY <3>2, <4>1, <4>2
    <3> QED
      BY <3>1, <3>2
  <2>5. g \in [Level(n + 1) -> V]
    <3>1. \A s \in Level(n + 1) : g[s] \in V
      BY <2>4
    <3>2. g = [s \in Level(n + 1) |-> g[s]]
      BY DEF Rule
    <3> HIDE DEF g
    <3> QED
      BY <3>1, <3>2
  <2>6. Built(n + 1)
    <3> HIDE DEF g, Rule, Level
    <3> WITNESS g \in [Level(n + 1) -> V]
    <3> QED
      BY <2>4, <2>5
  <2> HIDE DEF Built
  <2> QED
    BY <2>6
<1>3. T = Nat
  <2> HIDE DEF T
  <2> QED
    BY <1>1, <1>2, InductionOverNat DEF T
<1>4. Cardinality(S) \in Nat /\ Level(Cardinality(S)) = SUBSET S
  BY FS_CardinalityType, FS_Subset
<1>5. Built(Cardinality(S))
  BY <1>3, <1>4
<1> QED
  BY <1>4, <1>5 DEF Folds


\* A set of subsets that has the empty one, and every subset that it has without
\* the chosen element, has them all.
LEMMA SetInduction ==
  ASSUME NEW S, IsFiniteSet(S), NEW chosen, ChoosesIn(chosen, S),
         NEW N \in SUBSET (SUBSET S), {} \in N,
         \A s \in SUBSET S : s # {} /\ s \ {chosen[s]} \in N => s \in N
  PROVE  N = SUBSET S
<1> DEFINE All(n) == \A s \in SUBSET S : Cardinality(s) = n => s \in N
           T == {n \in Nat : All(n)}
<1>1. 0 \in T
  BY FS_Subset, FS_EmptySet
<1>2. ASSUME NEW n \in T PROVE n + 1 \in T
  <2> SUFFICES ASSUME NEW s \in SUBSET S, Cardinality(s) = n + 1 PROVE s \in N
    OBVIOUS
  <2>1. s # {} /\ IsFiniteSet(s)
    BY FS_Subset, FS_EmptySet
  <2>2. chosen[s] \in s
    BY <2>1 DEF ChoosesIn
  <2>3. Cardinality(s \ {chosen[s]}) = Cardinality(s) - 1
    BY ZenonT(40), <2>1, <2>2, FS_RemoveElement
  <2>4. s \ {chosen[s]} \in N
    BY <2>3
  <2> QED
    BY <2>1, <2>4
<1>3. T = Nat
  <2> HIDE DEF T
  <2> QED
    BY <1>1, <1>2, InductionOverNat DEF T
<1>4. \A s \in SUBSET S : Cardinality(s) \in Nat
  BY FS_Subset, FS_CardinalityType
<1> QED
  BY <1>3, <1>4

-----------------------------------------------------------------------------
\* What SumFunctionOnSet's recursion asks of a table h of sums.
SumRule(h, f, S) ==
  \A s \in SUBSET S :
    h[s] = IF s = {} THEN 0
           ELSE f[CHOOSE x \in s : TRUE] + h[s \ {CHOOSE x \in s : TRUE}]

\* Such a table exists.
LEMMA SumTableExists ==
  ASSUME NEW S, IsFiniteSet(S), NEW f, \A x \in S : f[x] \in Int
  PROVE  \E h \in [SUBSET S -> Int] : SumRule(h, f, S)
<1> DEFINE chosen == [s \in SUBSET S |-> CHOOSE x \in s : TRUE]
           step   == [p \in S \X Int |-> f[p[1]] + p[2]]
<1>1. ChoosesIn(chosen, S)
  BY DEF ChoosesIn
<1>2. PICK h \in [SUBSET S -> Int] : Folds(h, S, chosen, 0, step)
  <2>1. step \in [S \X Int -> Int]
    OBVIOUS
  <2>2. 0 \in Int
    OBVIOUS
  <2> HIDE DEF step, chosen
  <2> QED
    BY <1>1, <2>1, <2>2, FoldsExist, Zenon
<1>3. ASSUME NEW s \in SUBSET S, s # {}
      PROVE  h[s] = f[CHOOSE x \in s : TRUE] + h[s \ {CHOOSE x \in s : TRUE}]
  <2>1. chosen[s] \in S /\ chosen[s] = CHOOSE x \in s : TRUE
    BY <1>1, <1>3 DEF ChoosesIn
  <2>2. h[s \ {chosen[s]}] \in Int
    OBVIOUS
  <2>3. h[s] = step[<<chosen[s], h[s \ {chosen[s]}]>>]
    BY <1>2, <1>3 DEF Folds
  <2>4. h[s] = f[chosen[s]] + h[s \ {chosen[s]}]
    <3> HIDE DEF chosen
    <3> QED
      BY <2>1, <2>2, <2>3
  <2> QED
    BY <2>1, <2>4
<1>4. h[{}] = 0
  BY <1>2 DEF Folds
<1> QED
  BY <1>3, <1>4 DEF SumRule

\* And the sum is its entry, whichever table it is.
LEMMA SumOfTable ==
  ASSUME NEW S, IsFiniteSet(S), NEW f, \A x \in S : f[x] \in Int,
         NEW g, SumRule(g, f, S)
  PROVE  SumFunctionOnSet(f, S) = g[S]
<1> DEFINE Iter(h) == h = [s \in SUBSET S |->
                             IF s = {} THEN 0
                             ELSE f[CHOOSE x \in s : TRUE] + h[s \ {CHOOSE x \in s : TRUE}]]
           k == CHOOSE h : Iter(h)
           chosen == [s \in SUBSET S |-> CHOOSE x \in s : TRUE]
<1>1. SumFunctionOnSet(f, S) = k[S]
  BY DEF SumFunctionOnSet, FoldFunctionOnSet, MapThenFoldSet
<1>2. PICK h \in [SUBSET S -> Int] : SumRule(h, f, S)
  BY SumTableExists
<1>3. Iter(h)
  BY <1>2 DEF SumRule
<1>4. Iter(k)
  <2> HIDE DEF Iter
  <2> QED
    BY <1>3
<1>5. SumRule(k, f, S)
  <2> HIDE DEF k
  <2> QED
    BY <1>4 DEF SumRule
<1> DEFINE N == {s \in SUBSET S : k[s] = g[s]}
<1>6. N = SUBSET S
  <2>1. ChoosesIn(chosen, S)
    BY DEF ChoosesIn
  <2>2. {} \in N
    BY <1>5 DEF SumRule
  <2>3. ASSUME NEW s \in SUBSET S, s # {}, s \ {chosen[s]} \in N PROVE s \in N
    BY <1>5, <2>3 DEF SumRule
  <2> HIDE DEF N, chosen
  <2>4. N \in SUBSET (SUBSET S)
    BY DEF N
  <2> QED
    BY <2>1, <2>2, <2>3, <2>4, SetInduction
<1> QED
  BY <1>1, <1>6

\* h is the table of all sums of f over the subsets of S.
Sums(h, f, S) ==
  /\ SumRule(h, f, S)
  /\ h \in [SUBSET S -> Int]
  /\ \A s \in SUBSET S : SumFunctionOnSet(f, s) = h[s]

\* There is one for every finite set of integers, with one entry per sum.
LEMMA SumsExist ==
  ASSUME NEW S, IsFiniteSet(S), NEW f, \A x \in S : f[x] \in Int
  PROVE  \E h : Sums(h, f, S)
<1>1. PICK h \in [SUBSET S -> Int] : SumRule(h, f, S)
  BY SumTableExists
<1>2. ASSUME NEW s \in SUBSET S PROVE SumFunctionOnSet(f, s) = h[s]
  <2>1. IsFiniteSet(s) /\ \A x \in s : f[x] \in Int
    BY FS_Subset
  <2>2. SumRule(h, f, s)
    BY <1>1 DEF SumRule
  <2> QED
    BY <2>1, <2>2, SumOfTable
<1> QED
  BY <1>1, <1>2 DEF Sums

\* Nothing adds up to zero: an account without open orders has nothing locked,
\* a window without a request nothing charged.
THEOREM SumEmpty == ASSUME NEW f PROVE SumFunctionOnSet(f, {}) = 0
<1>1. IsFiniteSet({}) /\ \A x \in {} : f[x] \in Int
  BY FS_EmptySet
<1>2. PICK h : Sums(h, f, {})
  BY <1>1, SumsExist
<1> QED
  BY <1>2 DEF SumRule, Sums

\* The sum of finitely many integers is an integer.
THEOREM SumType ==
  ASSUME NEW S, IsFiniteSet(S), NEW f, \A x \in S : f[x] \in Int
  PROVE  SumFunctionOnSet(f, S) \in Int
<1>1. PICK h : Sums(h, f, S)
  BY SumsExist
<1> QED
  BY <1>1 DEF Sums

\* Any element of the set can be split off its sum, not only the chosen one: a
\* step that changes one order changes the sum by that order's part.
THEOREM SumSplit ==
  ASSUME NEW S, IsFiniteSet(S), NEW f, \A x \in S : f[x] \in Int, NEW e \in S
  PROVE  SumFunctionOnSet(f, S) = f[e] + SumFunctionOnSet(f, S \ {e})
<1>1. PICK h : Sums(h, f, S)
  BY SumsExist
<1> DEFINE Splits(s) == \A x \in s : h[s] = f[x] + h[s \ {x}]
           T == {n \in Nat : \A s \in SUBSET S : Cardinality(s) = n => Splits(s)}
<1>2. 0 \in T
  BY FS_Subset, FS_EmptySet
<1>3. ASSUME NEW n \in T PROVE n + 1 \in T
  <2> SUFFICES ASSUME NEW s \in SUBSET S, Cardinality(s) = n + 1, NEW x \in s
               PROVE  h[s] = f[x] + h[s \ {x}]
    OBVIOUS
  <2> DEFINE c == CHOOSE y \in s : TRUE
  <2>1. c \in s
    OBVIOUS
  <2>2. h[s] = f[c] + h[s \ {c}]
    BY <1>1 DEF SumRule, Sums
  <2>3. \A y \in s : Splits(s \ {y})
    <3> SUFFICES ASSUME NEW y \in s PROVE Cardinality(s \ {y}) = n
      BY DEF T
    <3>1. Cardinality(s \ {y}) = Cardinality(s) - 1
      BY FS_Subset, FS_RemoveElement
    <3> QED
      BY <3>1
  <2> HIDE DEF c
  <2>4. CASE x = c
    BY <2>2, <2>4
  <2>5. CASE x # c
    <3>1. h[s \ {c}] = f[x] + h[(s \ {c}) \ {x}]
      BY <2>1, <2>3, <2>5
    <3>2. h[s \ {x}] = f[c] + h[(s \ {x}) \ {c}]
      BY <2>1, <2>3, <2>5
    <3>3. (s \ {c}) \ {x} = (s \ {x}) \ {c}
      OBVIOUS
    <3>4. f[x] \in Int /\ f[c] \in Int /\ h[(s \ {x}) \ {c}] \in Int
      BY <1>1, <2>1 DEF Sums
    <3>5. h[s] = f[c] + (f[x] + h[(s \ {x}) \ {c}])
      BY <2>2, <3>1, <3>3
    <3> QED
      BY <3>2, <3>4, <3>5
  <2> QED
    BY <2>4, <2>5
<1>4. T = Nat
  <2> HIDE DEF T
  <2> QED
    BY <1>2, <1>3, InductionOverNat DEF T
<1>5. Splits(S)
  BY <1>4, FS_CardinalityType
<1> QED
  BY <1>1, <1>5 DEF Sums

\* Sums over the same set of functions that agree there are equal.
THEOREM SumSame ==
  ASSUME NEW S, IsFiniteSet(S), NEW f, NEW g, \A x \in S : f[x] \in Int,
         \A x \in S : f[x] = g[x]
  PROVE  SumFunctionOnSet(f, S) = SumFunctionOnSet(g, S)
<1>1. PICK h : Sums(h, f, S)
  BY SumsExist
<1>2. SumRule(h, g, S)
  <2>1. \A s \in SUBSET S : s # {} => f[CHOOSE x \in s : TRUE] = g[CHOOSE x \in s : TRUE]
    OBVIOUS
  <2> QED
    BY <1>1, <2>1 DEF SumRule, Sums
<1>3. SumFunctionOnSet(g, S) = h[S]
  BY <1>2, SumOfTable
<1> QED
  BY <1>1, <1>3 DEF Sums

\* The greater the parts, the greater the sum.
THEOREM SumAtMost ==
  ASSUME NEW S, IsFiniteSet(S), NEW f, NEW g, \A x \in S : f[x] \in Int /\ g[x] \in Int,
         \A x \in S : f[x] <= g[x]
  PROVE  SumFunctionOnSet(f, S) <= SumFunctionOnSet(g, S)
<1>1. PICK h : Sums(h, f, S)
  BY SumsExist
<1>2. PICK k : Sums(k, g, S)
  BY SumsExist
<1> DEFINE chosen == [s \in SUBSET S |-> CHOOSE x \in s : TRUE]
           N == {s \in SUBSET S : h[s] <= k[s]}
<1>3. ChoosesIn(chosen, S)
  BY DEF ChoosesIn
<1>4. {} \in N
  BY <1>1, <1>2 DEF Sums, SumRule
<1>5. ASSUME NEW s \in SUBSET S, s # {}, s \ {chosen[s]} \in N PROVE s \in N
  <2> DEFINE c == chosen[s]
  <2>1. /\ c \in S /\ s \ {c} \in SUBSET S
        /\ h[s] = f[c] + h[s \ {c}] /\ k[s] = g[c] + k[s \ {c}]
    BY <1>1, <1>2, <1>3, <1>5 DEF Sums, SumRule, ChoosesIn
  <2> HIDE DEF c
  <2>2. h[s \ {c}] \in Int /\ k[s \ {c}] \in Int /\ f[c] \in Int /\ g[c] \in Int
    BY <1>1, <1>2, <2>1 DEF Sums
  <2>3. h[s \ {c}] <= k[s \ {c}] /\ f[c] <= g[c]
    BY <1>5, <2>1 DEF c
  <2> QED
    BY <2>1, <2>2, <2>3
<1>6. N = SUBSET S
  <2> HIDE DEF N, chosen
  <2>1. N \in SUBSET (SUBSET S)
    BY DEF N
  <2> QED
    BY <1>3, <1>4, <1>5, <2>1, SetInduction
<1> QED
  BY <1>1, <1>2, <1>6 DEF Sums

\* Orders that reserve nothing reserve nothing together.
THEOREM SumOfZeros ==
  ASSUME NEW S, IsFiniteSet(S)
  PROVE  SumFunctionOnSet([x \in S |-> 0], S) = 0
<1> DEFINE f == [x \in S |-> 0]
           g == [s \in SUBSET S |-> 0]
<1>1. SumRule(g, f, S)
  BY DEF SumRule
<1>2. \A x \in S : f[x] \in Int
  OBVIOUS
<1>3. SumFunctionOnSet(f, S) = g[S]
  <2> HIDE DEF f, g
  <2> QED
    BY <1>1, <1>2, SumOfTable
<1> QED
  BY <1>3

\* The sum of natural numbers is one: what is charged or held is never negative.
THEOREM SumIsNatural ==
  ASSUME NEW S, IsFiniteSet(S), NEW f, \A x \in S : f[x] \in Nat
  PROVE  SumFunctionOnSet(f, S) \in Nat
<1> DEFINE zero == [x \in S |-> 0]
<1>1. \A x \in S : zero[x] \in Int /\ f[x] \in Int /\ zero[x] <= f[x]
  OBVIOUS
<1>2. SumFunctionOnSet(zero, S) = 0
  BY SumOfZeros, Zenon
<1> HIDE DEF zero
<1>3. SumFunctionOnSet(f, S) \in Int /\ SumFunctionOnSet(zero, S) <= SumFunctionOnSet(f, S)
  BY <1>1, SumType, SumAtMost
<1> QED
  BY <1>2, <1>3

(***************************************************************************)
(* Sums over the numbers up to n, one number at a time.                    *)
(***************************************************************************)
THEOREM SumUpTo ==
  ASSUME NEW n \in Nat, NEW f, \A i \in 0..n : f[i] \in Int
  PROVE  /\ SumFunctionOnSet(f, 0..n) \in Int /\ SumFunctionOnSet(f, 0..(n - 1)) \in Int
         /\ SumFunctionOnSet(f, 0..n) = f[n] + SumFunctionOnSet(f, 0..(n - 1))
<1>1. IsFiniteSet(0..n) /\ IsFiniteSet(0..(n - 1))
  <2>1. 0 \in Int /\ n \in Int /\ n - 1 \in Int
    OBVIOUS
  <2> QED
    BY <2>1, FS_Interval
<1>2. n \in 0..n /\ (0..n) \ {n} = 0..(n - 1) /\ \A i \in 0..(n - 1) : f[i] \in Int
  OBVIOUS
<1>3. SumFunctionOnSet(f, 0..n) \in Int /\ SumFunctionOnSet(f, 0..(n - 1)) \in Int
  BY <1>1, <1>2, SumType
<1>4. SumFunctionOnSet(f, 0..n) = f[n] + SumFunctionOnSet(f, (0..n) \ {n})
  BY <1>1, <1>2, SumSplit
<1> QED
  BY <1>2, <1>3, <1>4
=============================================================================
