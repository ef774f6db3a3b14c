--------------------------- MODULE DataInduction ---------------------------
(***************************************************************************)
(* Induction over numbers and finite sets, in a first-order form: the      *)
(* formula is a set.  From it, what the recursive definitions the models   *)
(* use compute: sums over finite sets and concatenations of sequences.     *)
(***************************************************************************)
EXTENDS Powers, SequencesExt, FiniteSetsExt, FiniteSetTheorems, SequenceTheorems, TLAPS

LEMMA LeastNumber ==
  ASSUME NEW T, T \subseteq Nat, T # {}
  PROVE  \E x \in T : \A y \in T : x <= y
<1> DEFINE R == OpToRel(<, Nat)
<1>1. IsWellFoundedOn(R, Nat)
  BY NatLessThanWellFounded
<1>2. R = {r \in Nat \X Nat : r[1] < r[2]}
  BY DEF OpToRel
<1> HIDE DEF R
<1>3. PICK x \in T : \A y \in T : ~ (<<y, x>> \in R)
  BY <1>1, WFMin
<1>4. ASSUME NEW y \in T PROVE x <= y
  <2>1. ~ (y < x)
    BY <1>2, <1>3
  <2> QED BY <2>1
<1> QED BY <1>4

LEMMA Induction ==
  ASSUME NEW S, 0 \in S, \A n \in Nat : n \in S => n + 1 \in S
  PROVE  Nat \subseteq S
<1> SUFFICES ASSUME Nat \ S # {} PROVE FALSE
  OBVIOUS
<1>1. PICK n \in Nat \ S : \A m \in Nat \ S : n <= m
  BY LeastNumber
<1>2. n - 1 \in Nat /\ n - 1 \in S
  BY <1>1
<1> QED BY <1>1, <1>2

-----------------------------------------------------------------------------
(* Recursion over the subsets of a finite set, an element at a time. *)

LEMMA SmallerSet ==
  ASSUME NEW S, IsFiniteSet(S), NEW s \in SUBSET S, NEW x \in s
  PROVE  /\ IsFiniteSet(s) /\ Cardinality(s) \in Nat /\ Cardinality(s) > 0
         /\ s \ {x} \in SUBSET S /\ IsFiniteSet(s \ {x})
         /\ Cardinality(s \ {x}) = Cardinality(s) - 1
<1>1. IsFiniteSet(s) /\ Cardinality(s) \in Nat
  BY FS_Subset, FS_CardinalityType
<1>2. Cardinality(s) # 0
  BY <1>1, FS_EmptySet
<1>3. /\ IsFiniteSet(s \ {x})
      /\ Cardinality(s \ {x}) = Cardinality(s) - 1
  BY <1>1, FS_RemoveElement
<1> QED BY <1>1, <1>2, <1>3

\* Of all properties of the subsets: those of no more than n elements have it for every n.
LEMMA SubsetInduction ==
  ASSUME NEW S, IsFiniteSet(S), NEW P,
         \A s \in SUBSET S : (\A x \in s : s \ {x} \in P) => s \in P
  PROVE  SUBSET S \subseteq P
<1> DEFINE Good == {n \in Nat : \A s \in SUBSET S : Cardinality(s) <= n => s \in P}
<1>1. 0 \in Good
  <2> SUFFICES ASSUME NEW s \in SUBSET S, Cardinality(s) <= 0 PROVE s \in P
    OBVIOUS
  <2>1. ASSUME NEW x \in s PROVE FALSE
    <3>1. Cardinality(s) \in Nat /\ Cardinality(s) > 0
      BY SmallerSet
    <3> QED BY <3>1
  <2> QED BY <2>1
<1>2. ASSUME NEW n \in Nat, n \in Good PROVE n + 1 \in Good
  <2> SUFFICES ASSUME NEW s \in SUBSET S, Cardinality(s) <= n + 1 PROVE s \in P
    OBVIOUS
  <2>1. \A x \in s : s \ {x} \in P
    BY <1>2, SmallerSet
  <2> QED BY <2>1
<1>3. Nat \subseteq Good
  <2> HIDE DEF Good
  <2> QED BY <1>1, <1>2, Induction
<1>4. ASSUME NEW s \in SUBSET S PROVE s \in P
  <2>1. Cardinality(s) \in Nat
    BY FS_Subset, FS_CardinalityType
  <2> QED BY <1>3, <2>1
<1> QED BY <1>4

\* pick takes an element of every subset of S, step computes with an element and a value,
\* and f is defined by recursion with them.
Picks(pick, S) == \A s \in SUBSET S : s # {} => pick[s] \in s
Steps(step, S, V) == \A x \in S, v \in V : step[<<x, v>>] \in V
IsRecursive(f, S, base, pick, step) ==
    \A s \in SUBSET S :
       /\ s = {} => f[s] = base
       /\ s # {} => f[s] = step[<<pick[s], f[s \ {pick[s]}]>>]

LEMMA SubsetRecursion ==
  ASSUME NEW S, IsFiniteSet(S), NEW V, NEW base \in V,
         NEW pick, Picks(pick, S), NEW step, Steps(step, S, V)
  PROVE  \E f \in [SUBSET S -> V] : IsRecursive(f, S, base, pick, step)
<1> USE DEF Picks, Steps
<1> DEFINE Sub(n) == {s \in SUBSET S : Cardinality(s) <= n}
           Is(f, s) == f[s] = IF s = {} THEN base ELSE step[<<pick[s], f[s \ {pick[s]}]>>]
           Good == {n \in Nat : \E f \in [Sub(n) -> V] : \A s \in Sub(n) : Is(f, s)}
<1>1. 0 \in Good
  <2>1. \A s \in Sub(0) : s = {}
    <3> SUFFICES ASSUME NEW s \in Sub(0), NEW x \in s PROVE FALSE
      OBVIOUS
    <3>1. Cardinality(s) \in Nat /\ Cardinality(s) > 0
      BY SmallerSet
    <3> QED BY <3>1
  <2> DEFINE f == [s \in Sub(0) |-> base]
  <2>2. f \in [Sub(0) -> V] /\ \A s \in Sub(0) : Is(f, s)
    BY <2>1
  <2> QED BY <2>2
<1>2. ASSUME NEW n \in Nat, n \in Good PROVE n + 1 \in Good
  <2>1. PICK f \in [Sub(n) -> V] : \A s \in Sub(n) : Is(f, s)
    BY <1>2
  <2>2. \A s \in Sub(n + 1) : s # {} => pick[s] \in S /\ s \ {pick[s]} \in Sub(n)
    <3> SUFFICES ASSUME NEW s \in Sub(n + 1), NEW x \in s, x = pick[s]
                 PROVE  pick[s] \in S /\ s \ {pick[s]} \in Sub(n)
      OBVIOUS
    <3>1. /\ Cardinality(s) \in Nat /\ s \ {x} \in SUBSET S
          /\ Cardinality(s \ {x}) = Cardinality(s) - 1
      BY SmallerSet
    <3> QED BY <3>1
  <2> DEFINE h == [s \in Sub(n + 1) |-> IF s = {} THEN base
                                        ELSE step[<<pick[s], f[s \ {pick[s]}]>>]]
  <2>3. h \in [Sub(n + 1) -> V]
    BY <2>1, <2>2
  <2>4. \A s \in Sub(n) : s \in Sub(n + 1) /\ h[s] = f[s]
    <3> TAKE s \in Sub(n)
    <3>1. Cardinality(s) \in Nat
      BY FS_Subset, FS_CardinalityType
    <3>2. s \in Sub(n + 1)
      BY <3>1
    <3> QED BY <2>1, <3>2
  <2>5. ASSUME NEW s \in Sub(n + 1) PROVE Is(h, s)
    <3>1. h[s] = IF s = {} THEN base ELSE step[<<pick[s], f[s \ {pick[s]}]>>]
      OBVIOUS
    <3>2. s # {} => h[s \ {pick[s]}] = f[s \ {pick[s]}]
      BY <2>2, <2>4
    <3> HIDE DEF h
    <3> QED BY <3>1, <3>2
  <2> HIDE DEF h, Is, Sub
  <2>6. \E f1 \in [Sub(n + 1) -> V] : \A s \in Sub(n + 1) : Is(f1, s)
    BY <2>3, <2>5
  <2>7. n + 1 \in Nat
    OBVIOUS
  <2> QED BY <2>6, <2>7
<1>3. Cardinality(S) \in Good
  <2> HIDE DEF Good
  <2> QED BY <1>1, <1>2, Induction, FS_CardinalityType
<1>4. SUBSET S = Sub(Cardinality(S))
  BY FS_Subset
<1>5. \E f \in [SUBSET S -> V] : \A s \in SUBSET S : Is(f, s)
  <2> HIDE DEF Sub, Is
  <2> QED BY <1>3, <1>4
<1> HIDE DEF Sub, Good
<1> QED BY <1>5 DEF IsRecursive

-----------------------------------------------------------------------------
(* Sums over finite sets: what MapThenSumSet computes does not depend on the *)
(* order in which CHOOSE takes the elements.                                 *)

\* The function with which MapThenSumSet adds up the values of g over S.
SumsTo(sum, g, S) ==
    sum = [s \in SUBSET S |->
              IF s = {} THEN 0
              ELSE g[CHOOSE x \in s : TRUE] + sum[s \ {CHOOSE x \in s : TRUE}]]

SumOf(g, S) == MapThenSumSet(LAMBDA i : g[i], S)

LEMMA SumExists ==
  ASSUME NEW S, IsFiniteSet(S), NEW g, \A i \in S : g[i] \in Int
  PROVE  \E sum \in [SUBSET S -> Int] : SumsTo(sum, g, S)
<1> DEFINE pick == [s \in SUBSET S |-> CHOOSE x \in s : TRUE]
           step == [p \in S \X Int |-> g[p[1]] + p[2]]
           Is(f) == \A s \in SUBSET S :
                       /\ s = {} => f[s] = 0
                       /\ s # {} => f[s] = step[<<pick[s], f[s \ {pick[s]}]>>]
<1>1. \A s \in SUBSET S : s # {} => pick[s] \in s
  OBVIOUS
<1>2. \A x \in S, v \in Int : step[<<x, v>>] = g[x] + v
  OBVIOUS
<1>3. \A x \in S, v \in Int : step[<<x, v>>] \in Int
  <2> TAKE x \in S, v \in Int
  <2>1. g[x] + v \in Int
    OBVIOUS
  <2>2. step[<<x, v>>] = g[x] + v
    BY <1>2
  <2> QED BY <2>1, <2>2
<1>4. \A s \in SUBSET S : pick[s] = CHOOSE x \in s : TRUE
  OBVIOUS
<1> HIDE DEF pick, step
<1>5. \E f \in [SUBSET S -> Int] : Is(f)
  <2>1. Picks(pick, S) /\ Steps(step, S, Int) /\ 0 \in Int
    BY <1>1, <1>3 DEF Picks, Steps
  <2>2. \E f \in [SUBSET S -> Int] : IsRecursive(f, S, 0, pick, step)
    BY <2>1, SubsetRecursion
  <2> QED BY <2>2 DEF IsRecursive
<1>6. PICK f \in [SUBSET S -> Int] : Is(f)
  BY <1>5
<1>7. \A s \in SUBSET S : s # {} =>
         step[<<pick[s], f[s \ {pick[s]}]>>] = g[pick[s]] + f[s \ {pick[s]}]
  <2> TAKE s \in SUBSET S
  <2> HAVE s # {}
  <2>1. pick[s] \in S /\ f[s \ {pick[s]}] \in Int
    BY <1>1, <1>6
  <2> QED BY <1>2, <2>1
<1>8. f = [s \in SUBSET S |-> f[s]]
  BY <1>6
<1>9. \A s \in SUBSET S :
         f[s] = IF s = {} THEN 0
                ELSE g[CHOOSE x \in s : TRUE] + f[s \ {CHOOSE x \in s : TRUE}]
  <2> TAKE s \in SUBSET S
  <2>1. f[s] = IF s = {} THEN 0 ELSE g[pick[s]] + f[s \ {pick[s]}]
    BY <1>6, <1>7
  <2> QED BY <1>4, <2>1
<1>10. SumsTo(f, g, S)
  BY <1>8, <1>9 DEF SumsTo
<1> QED BY <1>6, <1>10

LEMMA SumStep ==
  ASSUME NEW S, NEW g, NEW sum, SumsTo(sum, g, S), NEW s \in SUBSET S, s # {}
  PROVE  \E x \in s : x = (CHOOSE y \in s : TRUE) /\ sum[s] = g[x] + sum[s \ {x}]
<1>1. (CHOOSE y \in s : TRUE) \in s
  OBVIOUS
<1> QED BY <1>1 DEF SumsTo

LEMMA SumType ==
  ASSUME NEW S, IsFiniteSet(S), NEW g, \A i \in S : g[i] \in Int,
         NEW sum, SumsTo(sum, g, S)
  PROVE  \A s \in SUBSET S : sum[s] \in Int
<1> DEFINE P == {s \in SUBSET S : sum[s] \in Int}
<1>1. ASSUME NEW s \in SUBSET S, \A x \in s : s \ {x} \in P
      PROVE  s \in P
  <2>1. CASE s = {}
    BY <2>1 DEF SumsTo
  <2>2. CASE s # {}
    <3>1. PICK c \in s : sum[s] = g[c] + sum[s \ {c}]
      BY <2>2, SumStep
    <3> QED BY <1>1, <3>1
  <2> QED BY <2>1, <2>2
<1>2. SUBSET S \subseteq P
  <2> HIDE DEF P
  <2> QED BY <1>1, SubsetInduction
<1> QED BY <1>2

\* Any element may be the last to be added.
LEMMA SumRemove ==
  ASSUME NEW S, IsFiniteSet(S), NEW g, \A i \in S : g[i] \in Int,
         NEW sum, SumsTo(sum, g, S)
  PROVE  \A s \in SUBSET S : \A x \in s : sum[s] = g[x] + sum[s \ {x}]
<1> DEFINE P == {s \in SUBSET S : \A x \in s : sum[s] = g[x] + sum[s \ {x}]}
<1>1. ASSUME NEW s \in SUBSET S, \A x \in s : s \ {x} \in P
      PROVE  s \in P
  <2>1. CASE s = {}
    BY <2>1
  <2>2. CASE s # {}
    <3>1. PICK c \in s : sum[s] = g[c] + sum[s \ {c}]
      BY <2>2, SumStep
    <3>2. s \ {c} \in P /\ g[c] \in Int
      BY <1>1
    <3>3. ASSUME NEW x \in s, x # c PROVE sum[s] = g[x] + sum[s \ {x}]
      <4>1. s \ {x} \in P /\ g[x] \in Int
        BY <1>1
      <4>2. /\ sum[s \ {c}] = g[x] + sum[(s \ {c}) \ {x}]
            /\ sum[s \ {x}] = g[c] + sum[(s \ {x}) \ {c}]
        BY <3>2, <3>3, <4>1
      <4>3. (s \ {c}) \ {x} = (s \ {x}) \ {c}
        OBVIOUS
      <4>4. sum[(s \ {c}) \ {x}] \in Int
        BY SumType
      <4> DEFINE rest == sum[(s \ {c}) \ {x}]
      <4>5. /\ sum[s \ {c}] = g[x] + rest /\ sum[s \ {x}] = g[c] + rest
            /\ g[x] \in Int /\ g[c] \in Int /\ rest \in Int
        BY <3>2, <4>1, <4>2, <4>3, <4>4
      <4> HIDE DEF rest, P
      <4> QED BY <3>1, <4>5
    <3> QED BY <3>1, <3>3
  <2> QED BY <2>1, <2>2
<1>2. SUBSET S \subseteq P
  <2> HIDE DEF P
  <2> QED BY <1>1, SubsetInduction
<1> QED BY <1>2

LEMMA SumSame ==
  ASSUME NEW S, NEW g, NEW sum, SumsTo(sum, g, S),
         NEW T, NEW h, NEW sum2, SumsTo(sum2, h, T),
         NEW s, s \subseteq S, s \subseteq T, IsFiniteSet(s), \A i \in s : g[i] = h[i]
  PROVE  sum[s] = sum2[s]
<1> DEFINE P == {t \in SUBSET s : sum[t] = sum2[t]}
<1>1. ASSUME NEW t \in SUBSET s, \A x \in t : t \ {x} \in P PROVE t \in P
  <2>1. CASE t = {}
    BY <2>1 DEF SumsTo
  <2>2. CASE t # {}
    <3>1. PICK x \in t : x = (CHOOSE y \in t : TRUE) /\ sum[t] = g[x] + sum[t \ {x}]
      BY <2>2, SumStep
    <3>2. PICK y \in t : y = (CHOOSE z \in t : TRUE) /\ sum2[t] = h[y] + sum2[t \ {y}]
      BY <2>2, SumStep
    <3> QED BY <1>1, <3>1, <3>2
  <2> QED BY <2>1, <2>2
<1>2. SUBSET s \subseteq P
  <2> HIDE DEF P
  <2> QED BY <1>1, SubsetInduction
<1> QED BY <1>2

LEMMA SumIs ==
  ASSUME NEW S, IsFiniteSet(S), NEW g, \A i \in S : g[i] \in Int
  PROVE  \E sum : SumsTo(sum, g, S) /\ SumOf(g, S) = sum[S]
<1> DEFINE sum == CHOOSE f : SumsTo(f, g, S)
<1>1. SumsTo(sum, g, S)
  BY SumExists
<1>2. SumOf(g, S) = sum[S]
  BY Zenon DEF SumOf, MapThenSumSet, MapThenFoldSet, SumsTo
<1> QED BY <1>1, <1>2

LEMMA SumOfEmpty == ASSUME NEW g PROVE SumOf(g, {}) = 0
<1>1. PICK sum : SumsTo(sum, g, {}) /\ SumOf(g, {}) = sum[{}]
  BY SumIs, FS_EmptySet
<1> QED BY <1>1 DEF SumsTo

LEMMA SumOfAdd ==
  ASSUME NEW S, IsFiniteSet(S), NEW x, x \notin S,
         NEW g, \A i \in S \cup {x} : g[i] \in Int
  PROVE  /\ SumOf(g, S) \in Int
         /\ SumOf(g, S \cup {x}) = SumOf(g, S) + g[x]
<1>1. IsFiniteSet(S \cup {x}) /\ (S \cup {x}) \ {x} = S
  BY FS_AddElement
<1>2. PICK sum : SumsTo(sum, g, S) /\ SumOf(g, S) = sum[S]
  BY SumIs
<1>3. PICK all : SumsTo(all, g, S \cup {x}) /\ SumOf(g, S \cup {x}) = all[S \cup {x}]
  BY <1>1, SumIs
<1>4. sum[S] \in Int
  BY <1>2, SumType
<1>5. all[S \cup {x}] = g[x] + all[S]
  <2>1. S \cup {x} \in SUBSET (S \cup {x}) /\ x \in S \cup {x}
    OBVIOUS
  <2> DEFINE U == S \cup {x}
  <2>2. SumsTo(all, g, U) /\ IsFiniteSet(U) /\ U \in SUBSET U /\ x \in U /\ \A i \in U : g[i] \in Int
    BY <1>1, <1>3
  <2> HIDE DEF U
  <2>3. all[U] = g[x] + all[U \ {x}]
    BY <2>2, SumRemove
  <2> QED BY <1>1, <2>3 DEF U
<1>6. all[S] = sum[S]
  BY <1>2, <1>3, SumSame
<1> QED BY <1>2, <1>3, <1>4, <1>5, <1>6

LEMMA SumOfSame ==
  ASSUME NEW S, IsFiniteSet(S), NEW g, NEW h,
         \A i \in S : g[i] \in Int /\ g[i] = h[i]
  PROVE  SumOf(g, S) = SumOf(h, S)
<1>1. PICK sum : SumsTo(sum, g, S) /\ SumOf(g, S) = sum[S]
  BY SumIs
<1>2. PICK sum2 : SumsTo(sum2, h, S) /\ SumOf(h, S) = sum2[S]
  BY SumIs
<1> QED BY <1>1, <1>2, SumSame

LEMMA SumFunctionIs ==
  ASSUME NEW f PROVE SumFunction(f) = SumOf(f, DOMAIN f)
BY Zenon DEF SumFunction, SumFunctionOnSet, FoldFunctionOnSet, SumOf, MapThenSumSet, MapThenFoldSet

\* A list of numbers that is one longer.
LEMMA SumFunctionAppend ==
  ASSUME NEW n \in Nat, NEW f \in [1..n -> Int], NEW g \in [1..(n + 1) -> Int],
         \A i \in 1..n : g[i] = f[i]
  PROVE  SumFunction(f) \in Int /\ SumFunction(g) = SumFunction(f) + g[n + 1]
<1>1. SumFunction(f) = SumOf(f, 1..n) /\ SumFunction(g) = SumOf(g, 1..(n + 1))
  BY SumFunctionIs
<1>2. /\ IsFiniteSet(1..n) /\ n + 1 \notin 1..n
      /\ 1..(n + 1) = (1..n) \cup {n + 1}
  <2>1. IsFiniteSet(1..n)
    BY FS_Interval
  <2>2. n + 1 \notin 1..n /\ 1..(n + 1) = (1..n) \cup {n + 1}
    OBVIOUS
  <2> QED BY <2>1, <2>2
<1>3. /\ SumOf(g, 1..n) \in Int
      /\ SumOf(g, (1..n) \cup {n + 1}) = SumOf(g, 1..n) + g[n + 1]
  BY <1>2, SumOfAdd
<1>4. SumOf(f, 1..n) = SumOf(g, 1..n)
  BY <1>2, SumOfSame
<1> QED BY <1>1, <1>2, <1>3, <1>4

LEMMA SumFunctionOfEmpty ==
  ASSUME NEW f, DOMAIN f = {} PROVE SumFunction(f) = 0
BY SumFunctionIs, SumOfEmpty

-----------------------------------------------------------------------------
(* Finite sets in an order R, which is a set of pairs. *)

Orders(R, S) ==
    /\ \A x, y \in S : x # y => <<x, y>> \in R \/ <<y, x>> \in R
    /\ \A x, y, z \in S : <<x, y>> \in R /\ <<y, z>> \in R => <<x, z>> \in R

LEMMA Greatest ==
  ASSUME NEW S, IsFiniteSet(S), NEW R, Orders(R, S)
  PROVE  \A T \in SUBSET S : T # {} =>
            \E m \in T : \A y \in T : y # m => <<y, m>> \in R
<1> DEFINE Has(T) == \E m \in T : \A y \in T : y # m => <<y, m>> \in R
           P == {T \in SUBSET S : T # {} => Has(T)}
<1>1. ASSUME NEW T \in SUBSET S, \A x \in T : T \ {x} \in P PROVE T \in P
  <2> SUFFICES ASSUME NEW x \in T PROVE Has(T)
    OBVIOUS
  <2>1. CASE T = {x}
    BY <2>1
  <2>2. CASE T # {x}
    <3>1. PICK m \in T \ {x} : \A y \in T \ {x} : y # m => <<y, m>> \in R
      BY <1>1, <2>2
    <3>2. <<x, m>> \in R \/ <<m, x>> \in R
      BY <3>1 DEF Orders
    <3>3. CASE <<x, m>> \in R
      BY <3>1, <3>3
    <3>4. CASE <<m, x>> \in R
      <4>1. ASSUME NEW y \in T, y # x PROVE <<y, x>> \in R
        BY <3>1, <3>4, <4>1 DEF Orders
      <4> QED BY <4>1
    <3> QED BY <3>2, <3>3, <3>4
  <2> QED BY <2>1, <2>2
<1>2. SUBSET S \subseteq P
  <2> HIDE DEF P
  <2> QED BY <1>1, SubsetInduction
<1> QED BY <1>2

LEMMA GreatestNumber ==
  ASSUME NEW T, IsFiniteSet(T), T \subseteq Int, T # {}
  PROVE  Max(T) \in T /\ \A y \in T : y <= Max(T)
<1> DEFINE R == {p \in T \X T : p[1] < p[2]}
<1>1. \A x, y \in T : (<<x, y>> \in R) = (x < y)
  OBVIOUS
<1> HIDE DEF R
<1>2. Orders(R, T)
  BY <1>1 DEF Orders
<1>3. PICK m \in T : \A y \in T : y # m => <<y, m>> \in R
  <2>1. T \in SUBSET T
    OBVIOUS
  <2> QED BY <1>2, <2>1, Greatest
<1>4. ASSUME NEW y \in T PROVE m >= y
  <2>1. y # m => y < m
    BY <1>1, <1>3
  <2> QED BY <2>1
<1>5. Max(T) \in T /\ \A y \in T : Max(T) >= y
  BY <1>4, Zenon DEF Max
<1> QED BY <1>5

\* A finite set can be sorted.
LEMMA SortExists ==
  ASSUME NEW S, IsFiniteSet(S), NEW R, Orders(R, S)
  PROVE  \A T \in SUBSET S :
            \E seq \in SetToSeqs(T) :
               \A i, j \in DOMAIN seq : i < j => <<seq[i], seq[j]>> \in R
<1> DEFINE Is(seq, T) == /\ seq \in SetToSeqs(T)
                         /\ \A i, j \in DOMAIN seq : i < j => <<seq[i], seq[j]>> \in R
           P == {T \in SUBSET S : \E seq : Is(seq, T)}
<1>1. ASSUME NEW T \in SUBSET S, \A x \in T : T \ {x} \in P PROVE T \in P
  <2>1. CASE T = {}
    <3> DEFINE seq == [i \in 1..0 |-> 0]
    <3>1. Cardinality(T) = 0
      BY <2>1, FS_EmptySet
    <3>2. seq \in [1..0 -> T] /\ \A i \in 1..0 : FALSE
      OBVIOUS
    <3>3. Is(seq, T)
      <4> HIDE DEF seq
      <4> QED BY <3>1, <3>2 DEF SetToSeqs
    <3> QED BY <3>3
  <2>2. CASE T # {}
    <3>1. PICK m \in T : \A y \in T : y # m => <<y, m>> \in R
      BY <2>2, Greatest
    <3> DEFINE U == T \ {m}
               n == Cardinality(U)
    <3>2. PICK seq : Is(seq, U)
      BY <1>1
    <3>3. n \in Nat /\ Cardinality(T) = n + 1
      <4>1. IsFiniteSet(U) /\ Cardinality(T) \in Nat /\ Cardinality(U) = Cardinality(T) - 1
        BY SmallerSet
      <4>2. Cardinality(U) \in Nat
        BY <4>1, FS_CardinalityType
      <4> HIDE DEF U
      <4> QED BY <4>1, <4>2
    <3>4. /\ seq \in [1..n -> U] /\ \A i, j \in 1..n : i # j => seq[i] # seq[j]
          /\ \A i, j \in 1..n : i < j => <<seq[i], seq[j]>> \in R
      BY <3>2 DEF SetToSeqs
    <3> DEFINE all == [i \in 1..(n + 1) |-> IF i = n + 1 THEN m ELSE seq[i]]
    <3> HIDE DEF n, P
    <3>5. \A i \in 1..(n + 1) : i # n + 1 => i \in 1..n
      BY <3>3
    <3>6. all \in [1..(n + 1) -> T]
      BY <3>4, <3>5
    <3>7. ASSUME NEW i \in 1..(n + 1), NEW j \in 1..(n + 1), i < j
          PROVE  all[i] # all[j] /\ <<all[i], all[j]>> \in R
      <4>1. i \in 1..n /\ all[i] = seq[i] /\ seq[i] \in T /\ seq[i] # m
        <5>1. i \in 1..n
          BY <3>3, <3>7
        <5>2. all[i] = seq[i]
          BY <3>3, <5>1
        <5> QED BY <3>4, <5>1, <5>2
      <4>2. CASE j = n + 1
        BY <3>1, <4>1, <4>2
      <4>3. CASE j # n + 1
        <5>1. j \in 1..n /\ all[j] = seq[j] /\ i # j
          BY <3>3, <3>5, <3>7, <4>3
        <5> QED BY <3>4, <3>7, <4>1, <5>1
      <4> QED BY <4>2, <4>3
    <3>8. \A i, j \in 1..(n + 1) : i # j => all[i] # all[j]
      <4> HIDE DEF all
      <4>1. \A i, j \in 1..(n + 1) : i # j => i < j \/ j < i
        BY <3>3
      <4> QED BY <3>7, <4>1
    <3>9. Is(all, T)
      <4> HIDE DEF all
      <4> QED BY <3>3, <3>6, <3>7, <3>8 DEF SetToSeqs
    <3> QED BY <3>9 DEF P
  <2> QED BY <2>1, <2>2
<1>2. SUBSET S \subseteq P
  <2> HIDE DEF P
  <2> QED BY <1>1, SubsetInduction
<1> QED BY <1>2

-----------------------------------------------------------------------------
(* Recursion over the numbers up to a bound. *)

\* f is defined at every number from its value at a smaller one.
IsRecursiveTo(f, n, base, prev, step) ==
    /\ f[0] = base
    /\ \A i \in 1..n : f[i] = step[<<i, f[prev[i]]>>]

LEMMA NumberRecursion ==
  ASSUME NEW N \in Nat, NEW V, NEW base \in V,
         NEW prev, \A i \in 1..N : prev[i] \in 0..(i - 1),
         NEW step, \A i \in 1..N, v \in V : step[<<i, v>>] \in V
  PROVE  \E f \in [0..N -> V] : IsRecursiveTo(f, N, base, prev, step)
<1> DEFINE Good == {n \in Nat : n <= N => \E f \in [0..n -> V] : IsRecursiveTo(f, n, base, prev, step)}
<1>1. 0 \in Good
  <2> DEFINE f == [i \in 0..0 |-> base]
  <2>1. f \in [0..0 -> V] /\ f[0] = base
    OBVIOUS
  <2> HIDE DEF f
  <2>2. \A i \in 1..0 : FALSE
    OBVIOUS
  <2>3. IsRecursiveTo(f, 0, base, prev, step)
    BY <2>1, <2>2 DEF IsRecursiveTo
  <2> QED BY <2>1, <2>3
<1>2. ASSUME NEW n \in Nat, n \in Good PROVE n + 1 \in Good
  <2> SUFFICES ASSUME n + 1 <= N
               PROVE  \E f \in [0..(n + 1) -> V] : IsRecursiveTo(f, n + 1, base, prev, step)
    OBVIOUS
  <2>1. PICK f \in [0..n -> V] : IsRecursiveTo(f, n, base, prev, step)
    BY <1>2
  <2> DEFINE last == step[<<n + 1, f[prev[n + 1]]>>]
             h == [i \in 0..(n + 1) |-> IF i = n + 1 THEN last ELSE f[i]]
  <2>2. n + 1 \in 1..N /\ prev[n + 1] \in 0..n
    OBVIOUS
  <2>3. last \in V
    BY <2>1, <2>2
  <2> HIDE DEF last
  <2>4. h \in [0..(n + 1) -> V] /\ h[n + 1] = last /\ \A i \in 0..n : h[i] = f[i]
    BY <2>1, <2>3
  <2> HIDE DEF h
  <2>5. \A i \in 1..n : h[i] = step[<<i, h[prev[i]]>>]
    <3> TAKE i \in 1..n
    <3>1. prev[i] \in 0..n /\ i \in 0..n
      OBVIOUS
    <3> QED BY <2>1, <2>4, <3>1 DEF IsRecursiveTo
  <2>6. h[n + 1] = step[<<n + 1, h[prev[n + 1]]>>]
    BY <2>2, <2>4 DEF last
  <2>7. h[0] = base
    BY <2>1, <2>4 DEF IsRecursiveTo
  <2>8. \A i \in 1..(n + 1) : i \in 1..n \/ i = n + 1
    OBVIOUS
  <2>9. IsRecursiveTo(h, n + 1, base, prev, step)
    BY <2>5, <2>6, <2>7, <2>8 DEF IsRecursiveTo
  <2> QED BY <2>4, <2>9
<1>3. Nat \subseteq Good
  <2> HIDE DEF Good
  <2> QED BY <1>1, <1>2, Induction
<1> QED BY <1>3

-----------------------------------------------------------------------------
(* Powers. *)

\* power is the recursive function that Power(base, n) chooses.
ArePowers(power, base, n) ==
    power = [i \in 0..n |-> IF i = 0 THEN 1 ELSE base * power[i - 1]]

LEMMA PowersExist ==
  ASSUME NEW base \in Nat \ {0}, NEW n \in Nat
  PROVE  \E power : ArePowers(power, base, n) /\ Power(base, n) = power[n]
<1> DEFINE prev == [i \in 1..n |-> i - 1]
           step == [p \in (1..n) \X Nat |-> base * p[2]]
           chosen == CHOOSE power : ArePowers(power, base, n)
<1>1. \A i \in 1..n : prev[i] = i - 1 /\ prev[i] \in 0..(i - 1)
  OBVIOUS
<1>2. \A i \in 1..n, v \in Nat : step[<<i, v>>] = base * v /\ step[<<i, v>>] \in Nat
  OBVIOUS
<1> HIDE DEF prev, step
<1>3. \E f \in [0..n -> Nat] : IsRecursiveTo(f, n, 1, prev, step)
  BY <1>1, <1>2, NumberRecursion
<1>4. PICK f \in [0..n -> Nat] : IsRecursiveTo(f, n, 1, prev, step)
  BY <1>3
<1>5. \A i \in 0..n : f[i] = IF i = 0 THEN 1 ELSE base * f[i - 1]
  <2> TAKE i \in 0..n
  <2>1. CASE i = 0
    BY <1>4, <2>1 DEF IsRecursiveTo
  <2>2. CASE i # 0
    <3>1. i \in 1..n /\ i - 1 \in 0..n
      BY <2>2
    <3>2. f[i] = step[<<i, f[i - 1]>>] /\ f[i - 1] \in Nat
      BY <1>1, <1>4, <3>1 DEF IsRecursiveTo
    <3> QED BY <1>2, <2>2, <3>1, <3>2
  <2> QED BY <2>1, <2>2
<1>6. f = [i \in 0..n |-> f[i]]
  BY <1>4
<1>7. ArePowers(f, base, n)
  BY <1>5, <1>6 DEF ArePowers
<1>8. ArePowers(chosen, base, n)
  BY <1>7
<1>9. Power(base, n) = chosen[n]
  BY Zenon DEF Power, ArePowers
<1> HIDE DEF chosen
<1> QED BY <1>8, <1>9

LEMMA PowersAgree ==
  ASSUME NEW base \in Nat \ {0}, NEW n \in Nat, NEW m \in Nat, n <= m,
         NEW p, ArePowers(p, base, n), NEW q, ArePowers(q, base, m)
  PROVE  p[n] = q[n] /\ q[n] \in Nat \ {0}
<1> DEFINE Good == {k \in Nat : k <= n => p[k] = q[k] /\ q[k] \in Nat \ {0}}
<1>1. /\ \A i \in 0..n : p[i] = IF i = 0 THEN 1 ELSE base * p[i - 1]
      /\ \A i \in 0..m : q[i] = IF i = 0 THEN 1 ELSE base * q[i - 1]
  BY DEF ArePowers
<1>2. 0 \in Good
  BY <1>1
<1>3. ASSUME NEW k \in Nat, k \in Good PROVE k + 1 \in Good
  <2> SUFFICES ASSUME k + 1 <= n PROVE p[k + 1] = q[k + 1] /\ q[k + 1] \in Nat \ {0}
    OBVIOUS
  <2>1. p[k] = q[k] /\ q[k] \in Nat \ {0}
    BY <1>3
  <2>2. k + 1 \in 0..n /\ k + 1 \in 0..m /\ k + 1 # 0 /\ k + 1 - 1 = k
    OBVIOUS
  <2>3. p[k + 1] = base * p[k] /\ q[k + 1] = base * q[k]
    BY <1>1, <2>2
  <2> QED BY <2>1, <2>3
<1>4. n \in Good
  <2> HIDE DEF Good
  <2> QED BY <1>2, <1>3, Induction
<1> QED BY <1>4

LEMMA PowerStep ==
  ASSUME NEW base \in Nat \ {0}
  PROVE  /\ Power(base, 0) = 1
         /\ \A n \in Nat : /\ Power(base, n) \in Nat \ {0}
                           /\ Power(base, n + 1) = base * Power(base, n)
<1>1. Power(base, 0) = 1
  <2>1. PICK p : ArePowers(p, base, 0) /\ Power(base, 0) = p[0]
    BY PowersExist
  <2> QED BY <2>1 DEF ArePowers
<1>2. ASSUME NEW n \in Nat
      PROVE  Power(base, n) \in Nat \ {0} /\ Power(base, n + 1) = base * Power(base, n)
  <2>1. PICK p : ArePowers(p, base, n) /\ Power(base, n) = p[n]
    BY PowersExist
  <2>2. PICK q : ArePowers(q, base, n + 1) /\ Power(base, n + 1) = q[n + 1]
    BY PowersExist
  <2>3. p[n] = q[n] /\ q[n] \in Nat \ {0}
    BY <2>1, <2>2, PowersAgree
  <2>4. q[n + 1] = base * q[n]
    BY <2>2 DEF ArePowers
  <2> QED BY <2>1, <2>2, <2>3, <2>4
<1> QED BY <1>1, <1>2

LEMMA PowersDouble ==
  /\ PowerOfTwo(0) = 1
  /\ \A n \in Nat : /\ PowerOfTwo(n) \in Nat \ {0}
                    /\ PowerOfTwo(n + 1) = 2 * PowerOfTwo(n)
<1>1. 2 \in Nat \ {0}
  OBVIOUS
<1> QED BY <1>1, PowerStep DEF PowerOfTwo

-----------------------------------------------------------------------------
(* Concatenations. *)

\* The function with which FlattenSeq concatenates.
IsFlatten(flatten, seqs) ==
    flatten = [i \in 1..Len(seqs) |-> IF i = 1 THEN seqs[i] ELSE flatten[i - 1] \o seqs[i]]

LEMMA FlattenExists ==
  ASSUME NEW S, NEW seqs \in Seq(Seq(S))
  PROVE  \E flatten \in [1..Len(seqs) -> Seq(S)] : IsFlatten(flatten, seqs)
<1> DEFINE N == Len(seqs)
           prev == [i \in 1..N |-> i - 1]
           step == [p \in (1..N) \X Seq(S) |-> p[2] \o seqs[p[1]]]
<1>1. N \in Nat /\ DOMAIN seqs = 1..N /\ \A i \in 1..N : seqs[i] \in Seq(S)
  OBVIOUS
<1>2. \A i \in 1..N : prev[i] = i - 1 /\ prev[i] \in 0..(i - 1)
  BY <1>1
<1>3. \A i \in 1..N, v \in Seq(S) : step[<<i, v>>] = v \o seqs[i]
  OBVIOUS
<1> HIDE DEF prev, step, N
<1>4. \A i \in 1..N, v \in Seq(S) : step[<<i, v>>] \in Seq(S)
  <2> TAKE i \in 1..N, v \in Seq(S)
  <2>1. v \o seqs[i] \in Seq(S)
    BY <1>1
  <2> QED BY <1>3, <2>1
<1>5. <<>> \in Seq(S)
  OBVIOUS
<1>6. \E f \in [0..N -> Seq(S)] : IsRecursiveTo(f, N, <<>>, prev, step)
  BY <1>1, <1>2, <1>4, <1>5, NumberRecursion
<1>7. PICK f \in [0..N -> Seq(S)] : IsRecursiveTo(f, N, <<>>, prev, step)
  BY <1>6
<1>8. \A i \in 1..N : i - 1 \in 0..N /\ f[i - 1] \in Seq(S) /\ f[i] = f[i - 1] \o seqs[i]
  <2> TAKE i \in 1..N
  <2>1. i - 1 \in 0..N
    BY <1>1
  <2>2. f[i] = step[<<i, f[i - 1]>>]
    BY <1>2, <1>7 DEF IsRecursiveTo
  <2> QED BY <1>3, <2>1, <2>2
<1> DEFINE flatten == [i \in 1..N |-> f[i]]
<1>9. flatten \in [1..N -> Seq(S)]
  BY <1>1
<1>10. \A i \in 1..N : flatten[i] = IF i = 1 THEN seqs[i] ELSE flatten[i - 1] \o seqs[i]
  <2> TAKE i \in 1..N
  <2>1. flatten[i] = f[i - 1] \o seqs[i] /\ seqs[i] \in Seq(S)
    BY <1>1, <1>8
  <2>2. CASE i = 1
    <3>1. f[i - 1] = <<>>
      BY <1>7, <2>2 DEF IsRecursiveTo
    <3> QED BY <2>1, <2>2, <3>1, ConcatEmptySeq
  <2>3. CASE i # 1
    <3>1. i - 1 \in 1..N
      BY <1>1, <2>3
    <3> QED BY <2>1, <2>3, <3>1
  <2> QED BY <2>2, <2>3
<1>11. IsFlatten(flatten, seqs)
  <2>1. flatten = [i \in 1..N |-> flatten[i]]
    OBVIOUS
  <2> HIDE DEF flatten
  <2> QED BY <1>10, <2>1 DEF IsFlatten, N
<1> QED BY <1>9, <1>11 DEF N

LEMMA FlattenIs ==
  ASSUME NEW S, NEW seqs \in Seq(Seq(S))
  PROVE  \E flatten : /\ IsFlatten(flatten, seqs)
                      /\ FlattenSeq(seqs) = IF Len(seqs) = 0 THEN <<>> ELSE flatten[Len(seqs)]
<1> DEFINE flatten == CHOOSE f : IsFlatten(f, seqs)
<1>1. IsFlatten(flatten, seqs)
  BY FlattenExists
<1>2. Len(seqs) = 0 => FlattenSeq(seqs) = <<>>
  BY EmptySeq DEF FlattenSeq
<1>3. Len(seqs) # 0 => FlattenSeq(seqs) = flatten[Len(seqs)]
  BY Zenon DEF FlattenSeq, IsFlatten
<1> QED BY <1>1, <1>2, <1>3

\* The first n of s and t are the same.
Agree(s, t, n) ==
    /\ n \in Nat /\ Len(s) \in Nat /\ Len(t) \in Nat
    /\ n <= Len(s) /\ n <= Len(t) /\ \A i \in 1..n : s[i] = t[i]

LEMMA FlattenSame ==
  ASSUME NEW s, NEW t, NEW n, Agree(s, t, n),
         NEW f, IsFlatten(f, s), NEW g, IsFlatten(g, t)
  PROVE  \A i \in 1..n : f[i] = g[i]
<1> USE DEF Agree
<1> DEFINE Good == {i \in Nat : i \in 1..n => f[i] = g[i]}
<1>1. 0 \in Good
  OBVIOUS
<1>2. ASSUME NEW i \in Nat, i \in Good PROVE i + 1 \in Good
  <2> SUFFICES ASSUME i + 1 \in 1..n PROVE f[i + 1] = g[i + 1]
    OBVIOUS
  <2>1. /\ i + 1 \in 1..Len(s) /\ i + 1 \in 1..Len(t) /\ s[i + 1] = t[i + 1]
        /\ (i + 1) - 1 = i
    OBVIOUS
  <2>2. /\ f[i + 1] = IF i + 1 = 1 THEN s[i + 1] ELSE f[i] \o s[i + 1]
        /\ g[i + 1] = IF i + 1 = 1 THEN t[i + 1] ELSE g[i] \o t[i + 1]
    BY <2>1 DEF IsFlatten
  <2>3. i + 1 # 1 => f[i] = g[i]
    BY <1>2
  <2> QED BY <2>1, <2>2, <2>3
<1>3. Nat \subseteq Good
  <2> HIDE DEF Good
  <2> QED BY <1>1, <1>2, Induction
<1> QED BY <1>3

LEMMA FlattenEmpty == FlattenSeq(<<>>) = <<>>
  BY EmptySeq DEF FlattenSeq

LEMMA FlattenType ==
  ASSUME NEW S, NEW seqs \in Seq(Seq(S))
  PROVE  FlattenSeq(seqs) \in Seq(S)
<1>1. PICK f : /\ IsFlatten(f, seqs)
               /\ FlattenSeq(seqs) = IF Len(seqs) = 0 THEN <<>> ELSE f[Len(seqs)]
  BY FlattenIs
<1>2. PICK g \in [1..Len(seqs) -> Seq(S)] : IsFlatten(g, seqs)
  BY FlattenExists
<1>3. Len(seqs) \in Nat
  OBVIOUS
<1>4. \A i \in 1..Len(seqs) : f[i] = g[i]
  <2>1. Agree(seqs, seqs, Len(seqs))
    BY <1>3 DEF Agree
  <2> QED BY <1>1, <1>2, <2>1, FlattenSame
<1>5. CASE Len(seqs) = 0
  BY <1>1, <1>5
<1>6. CASE Len(seqs) # 0
  <2>1. Len(seqs) \in 1..Len(seqs)
    BY <1>3, <1>6
  <2> QED BY <1>1, <1>2, <1>4, <1>6, <2>1
<1> QED BY <1>5, <1>6

LEMMA FlattenAppend ==
  ASSUME NEW S, NEW seqs \in Seq(Seq(S)), NEW last \in Seq(S)
  PROVE  FlattenSeq(Append(seqs, last)) = FlattenSeq(seqs) \o last
<1> DEFINE n == Len(seqs)
           all == Append(seqs, last)
<1>1. /\ n \in Nat /\ all \in Seq(Seq(S)) /\ Len(all) = n + 1
      /\ \A i \in 1..n : all[i] = seqs[i]
      /\ all[n + 1] = last
  BY AppendProperties
<1> HIDE DEF all
<1>2. PICK f : /\ IsFlatten(f, seqs)
               /\ FlattenSeq(seqs) = IF n = 0 THEN <<>> ELSE f[n]
  BY FlattenIs
<1>3. PICK g : /\ IsFlatten(g, all)
               /\ FlattenSeq(all) = IF Len(all) = 0 THEN <<>> ELSE g[Len(all)]
  BY <1>1, FlattenIs
<1> HIDE DEF n
<1>4. FlattenSeq(all) = g[n + 1]
  BY <1>1, <1>3
<1>5. g[n + 1] = IF n + 1 = 1 THEN last ELSE g[n] \o last
  <2>1. n + 1 \in 1..Len(all) /\ (n + 1) - 1 = n
    BY <1>1
  <2> QED BY <1>1, <1>3, <2>1 DEF IsFlatten
<1>6. CASE n = 0
  <2>1. FlattenSeq(seqs) = <<>> /\ <<>> \o last = last
    BY <1>2, <1>6, ConcatEmptySeq
  <2> QED BY <1>4, <1>5, <1>6, <2>1 DEF all
<1>7. CASE n # 0
  <2>1. \A i \in 1..n : g[i] = f[i]
    <3>1. Agree(all, seqs, n)
      BY <1>1 DEF Agree, n
    <3> QED BY <1>2, <1>3, <3>1, FlattenSame
  <2>2. g[n] = f[n] /\ n + 1 # 1
    BY <1>1, <1>7, <2>1
  <2>3. FlattenSeq(all) = f[n] \o last
    BY <1>4, <1>5, <2>2
  <2> QED BY <1>2, <1>7, <2>3 DEF all
<1> QED BY <1>6, <1>7

LEMMA FlattenConcat ==
  ASSUME NEW S, NEW s \in Seq(Seq(S)), NEW t \in Seq(Seq(S))
  PROVE  FlattenSeq(s \o t) = FlattenSeq(s) \o FlattenSeq(t)
<1> DEFINE T == Seq(S)
           Good == {n \in Nat : \A u \in Seq(T) : Len(u) = n =>
                       FlattenSeq(s \o u) = FlattenSeq(s) \o FlattenSeq(u)}
<1>1. 0 \in Good
  <2> SUFFICES ASSUME NEW u \in Seq(T), Len(u) = 0
               PROVE  FlattenSeq(s \o u) = FlattenSeq(s) \o FlattenSeq(u)
    OBVIOUS
  <2>1. u = <<>> /\ s \o u = s
    BY EmptySeq, ConcatEmptySeq
  <2>2. FlattenSeq(s) \in Seq(S)
    BY FlattenType
  <2> QED BY <2>1, <2>2, FlattenEmpty, ConcatEmptySeq
<1>2. ASSUME NEW n \in Nat, n \in Good PROVE n + 1 \in Good
  <2> SUFFICES ASSUME NEW u \in Seq(T), Len(u) = n + 1
               PROVE  FlattenSeq(s \o u) = FlattenSeq(s) \o FlattenSeq(u)
    OBVIOUS
  <2> HIDE DEF T
  <2>1. PICK v \in Seq(T), last \in T : u = Append(v, last)
    <3>1. u # <<>>
      OBVIOUS
    <3> QED BY <3>1, SequenceEmptyOrAppend
  <2>2. Len(v) = n
    BY <2>1, AppendProperties, LenProperties
  <2>3. FlattenSeq(s \o v) = FlattenSeq(s) \o FlattenSeq(v)
    BY <1>2, <2>1, <2>2
  <2>4. s \in Seq(T) /\ s \o v \in Seq(T) /\ s \o u = Append(s \o v, last)
    <3>1. s \in Seq(T)
      BY DEF T
    <3>2. s \o v \in Seq(T) /\ <<last>> \in Seq(T)
      BY <2>1, <3>1, ConcatProperties
    <3>3. u = v \o <<last>> /\ Append(s \o v, last) = (s \o v) \o <<last>>
      BY <2>1, <3>2, AppendIsConcat
    <3> QED BY <2>1, <3>1, <3>2, <3>3, ConcatAssociative
  <2>5. FlattenSeq(s \o u) = FlattenSeq(s \o v) \o last
    BY <2>1, <2>4, FlattenAppend DEF T
  <2>6. FlattenSeq(u) = FlattenSeq(v) \o last
    BY <2>1, FlattenAppend DEF T
  <2>7. FlattenSeq(s) \in Seq(S) /\ FlattenSeq(v) \in Seq(S) /\ last \in Seq(S)
    BY <2>1, FlattenType DEF T
  <2>8. (FlattenSeq(s) \o FlattenSeq(v)) \o last = FlattenSeq(s) \o (FlattenSeq(v) \o last)
    <3> DEFINE a == FlattenSeq(s)
               b == FlattenSeq(v)
    <3>1. a \in Seq(S) /\ b \in Seq(S) /\ last \in Seq(S)
      BY <2>7
    <3> HIDE DEF a, b, Good
    <3>2. (a \o b) \o last = a \o (b \o last)
      BY <3>1, ConcatAssociative
    <3> QED BY <3>2 DEF a, b
  <2> QED BY <2>3, <2>5, <2>6, <2>8, Zenon
<1>3. Nat \subseteq Good
  <2> HIDE DEF Good
  <2> QED BY <1>1, <1>2, Induction
<1>4. Len(t) \in Nat
  OBVIOUS
<1> QED BY <1>3, <1>4

LEMMA FlattenSingle ==
  ASSUME NEW S, NEW s \in Seq(S) PROVE FlattenSeq(<<s>>) = s
<1>1. <<s>> = Append(<<>>, s) /\ <<>> \in Seq(Seq(S))
  OBVIOUS
<1>2. FlattenSeq(<<s>>) = FlattenSeq(<<>>) \o s
  BY <1>1, FlattenAppend
<1> QED BY <1>2, FlattenEmpty, ConcatEmptySeq
\* Concatenation, a sequence at a time.
LEMMA FlattenSteps ==
  ASSUME NEW S, NEW seqs \in Seq(Seq(S))
  PROVE  \E f \in [1..Len(seqs) -> Seq(S)] :
            /\ \A i \in 1..Len(seqs) : f[i] = IF i = 1 THEN seqs[i] ELSE f[i - 1] \o seqs[i]
            /\ FlattenSeq(seqs) = IF Len(seqs) = 0 THEN <<>> ELSE f[Len(seqs)]
<1>1. PICK f : /\ IsFlatten(f, seqs)
               /\ FlattenSeq(seqs) = IF Len(seqs) = 0 THEN <<>> ELSE f[Len(seqs)]
  BY FlattenIs
<1>2. PICK g \in [1..Len(seqs) -> Seq(S)] : IsFlatten(g, seqs)
  BY FlattenExists
<1>3. \A i \in 1..Len(seqs) : f[i] = g[i]
  <2>1. Agree(seqs, seqs, Len(seqs))
    BY DEF Agree
  <2> QED BY <1>1, <1>2, <2>1, FlattenSame
<1>4. Len(seqs) # 0 => FlattenSeq(seqs) = g[Len(seqs)]
  <2> SUFFICES ASSUME Len(seqs) # 0 PROVE FlattenSeq(seqs) = g[Len(seqs)]
    OBVIOUS
  <2>1. Len(seqs) \in 1..Len(seqs)
    OBVIOUS
  <2> QED BY <1>1, <1>3, <2>1
<1>5. \A i \in 1..Len(seqs) : g[i] = IF i = 1 THEN seqs[i] ELSE g[i - 1] \o seqs[i]
  BY <1>2 DEF IsFlatten
<1> QED BY <1>1, <1>2, <1>4, <1>5

\* What is in a concatenation.
LEMMA FlattenRange ==
  ASSUME NEW S, NEW seqs \in Seq(Seq(S)), NEW x
  PROVE  x \in Range(FlattenSeq(seqs)) <=> \E i \in 1..Len(seqs) : x \in Range(seqs[i])
<1> DEFINE N == Len(seqs)
           In(s) == x \in Range(s)
<1>1. N \in Nat /\ \A i \in 1..N : seqs[i] \in Seq(S)
  OBVIOUS
<1>2. PICK f \in [1..N -> Seq(S)] :
         /\ \A i \in 1..N : f[i] = IF i = 1 THEN seqs[i] ELSE f[i - 1] \o seqs[i]
         /\ FlattenSeq(seqs) = IF N = 0 THEN <<>> ELSE f[N]
  BY FlattenSteps
<1>3. \A s, t \in Seq(S) : In(s \o t) <=> In(s) \/ In(t)
  <2> SUFFICES ASSUME NEW s \in Seq(S), NEW t \in Seq(S) PROVE In(s \o t) <=> In(s) \/ In(t)
    OBVIOUS
  <2>1. \A j \in DOMAIN s : j \in DOMAIN (s \o t) /\ (s \o t)[j] = s[j]
    OBVIOUS
  <2>2. \A j \in DOMAIN t : j + Len(s) \in DOMAIN (s \o t) /\ (s \o t)[j + Len(s)] = t[j]
    OBVIOUS
  <2>3. \A j \in DOMAIN (s \o t) :
           \/ j \in DOMAIN s /\ (s \o t)[j] = s[j]
           \/ j - Len(s) \in DOMAIN t /\ (s \o t)[j] = t[j - Len(s)]
    OBVIOUS
  <2>4. \A u : In(u) <=> \E j \in DOMAIN u : u[j] = x
    BY DEF Range
  <2> HIDE DEF In
  <2>5. ASSUME In(s \o t) PROVE In(s) \/ In(t)
    <3>1. PICK j \in DOMAIN (s \o t) : (s \o t)[j] = x
      BY <2>4, <2>5
    <3> QED BY <2>3, <2>4, <3>1
  <2>6. ASSUME In(s) PROVE In(s \o t)
    <3>1. PICK j \in DOMAIN s : s[j] = x
      BY <2>4, <2>6
    <3> QED BY <2>1, <2>4, <3>1
  <2>7. ASSUME In(t) PROVE In(s \o t)
    <3>1. PICK j \in DOMAIN t : t[j] = x
      BY <2>4, <2>7
    <3> QED BY <2>2, <2>4, <3>1
  <2> QED BY <2>5, <2>6, <2>7
<1> HIDE DEF In, N
<1> DEFINE Good == {i \in Nat : i \in 1..N => (In(f[i]) <=> \E k \in 1..i : In(seqs[k]))}
<1>4. 0 \in Good
  OBVIOUS
<1>5. ASSUME NEW i \in Nat, i \in Good PROVE i + 1 \in Good
  <2> SUFFICES ASSUME i + 1 \in 1..N
               PROVE  In(f[i + 1]) <=> \E k \in 1..(i + 1) : In(seqs[k])
    OBVIOUS
  <2>1. CASE i = 0
    <3>1. i + 1 = 1 /\ 1 \in 1..N /\ \A k \in 1..(i + 1) : k = i + 1
      BY <2>1
    <3>2. f[1] = seqs[1]
      BY <1>2, <3>1
    <3> QED BY <3>1, <3>2
  <2>2. CASE i # 0
    <3>1. i \in 1..N /\ (i + 1) - 1 = i /\ i + 1 # 1
      BY <1>1, <2>2
    <3>2. f[i + 1] = f[i] \o seqs[i + 1] /\ f[i] \in Seq(S) /\ seqs[i + 1] \in Seq(S)
      BY <1>1, <1>2, <3>1
    <3>3. In(f[i + 1]) <=> In(f[i]) \/ In(seqs[i + 1])
      BY <1>3, <3>2
    <3>4. In(f[i]) <=> \E k \in 1..i : In(seqs[k])
      BY <1>5, <3>1
    <3>5. 1..(i + 1) = 1..i \cup {i + 1}
      OBVIOUS
    <3> QED BY <3>3, <3>4, <3>5
  <2> QED BY <2>1, <2>2
<1>6. N \in Good
  <2> HIDE DEF Good
  <2> QED BY <1>1, <1>4, <1>5, Induction
<1>7. CASE N = 0
  <2>1. ~ In(<<>>)
    BY DEF In, Range
  <2> QED BY <1>2, <1>7, <2>1 DEF In, N
<1>8. CASE N # 0
  <2>1. N \in 1..N
    BY <1>1, <1>8
  <2> QED BY <1>2, <1>6, <1>8, <2>1 DEF In, N
<1> QED BY <1>7, <1>8

LEMMA SumsOrdered ==
  /\ \A a, b, c, d \in Nat : a <= c /\ b <= d => a + b <= c + d
  /\ \A a, c, d \in Nat : a <= c => a <= c + d
  OBVIOUS

\* Longer sequences, and more of them, make a concatenation longer.
LEMMA FlattenGrows ==
  ASSUME NEW S, NEW s \in Seq(Seq(S)), NEW T, NEW t \in Seq(Seq(T)),
         Len(s) <= Len(t), \A i \in 1..Len(s) : Len(s[i]) <= Len(t[i])
  PROVE  Len(FlattenSeq(s)) <= Len(FlattenSeq(t))
<1> DEFINE M == Len(s)
           N == Len(t)
<1>1. /\ M \in Nat /\ N \in Nat /\ M <= N
      /\ \A i \in 1..M : s[i] \in Seq(S) /\ Len(s[i]) <= Len(t[i])
      /\ \A i \in 1..N : t[i] \in Seq(T)
  OBVIOUS
<1>2. PICK f \in [1..M -> Seq(S)] :
         /\ \A i \in 1..M : f[i] = IF i = 1 THEN s[i] ELSE f[i - 1] \o s[i]
         /\ FlattenSeq(s) = IF M = 0 THEN <<>> ELSE f[M]
  BY FlattenSteps
<1>3. PICK g \in [1..N -> Seq(T)] :
         /\ \A i \in 1..N : g[i] = IF i = 1 THEN t[i] ELSE g[i - 1] \o t[i]
         /\ FlattenSeq(t) = IF N = 0 THEN <<>> ELSE g[N]
  BY FlattenSteps
<1> HIDE DEF M, N
<1> DEFINE least(i) == IF i <= M THEN i ELSE M
           Good == {i \in Nat : i \in 1..N /\ M # 0 => Len(f[least(i)]) <= Len(g[i])}
<1>4. 0 \in Good
  OBVIOUS
<1>5. ASSUME NEW i \in Nat, i \in Good PROVE i + 1 \in Good
  <2> SUFFICES ASSUME i + 1 \in 1..N, M # 0
               PROVE  Len(f[least(i + 1)]) <= Len(g[i + 1])
    OBVIOUS
  <2>1. CASE i = 0
    <3>1. 1 \in 1..M /\ 1 \in 1..N /\ least(i + 1) = 1 /\ i + 1 = 1
      BY <1>1, <2>1
    <3>2. f[1] = s[1] /\ g[1] = t[1] /\ Len(s[1]) <= Len(t[1])
      BY <1>1, <1>2, <1>3, <3>1
    <3> HIDE DEF least
    <3> QED BY <3>1, <3>2
  <2>2. CASE i # 0
    <3>1. i \in 1..N /\ (i + 1) - 1 = i /\ i + 1 # 1
      BY <1>1, <2>2
    <3>2. g[i + 1] = g[i] \o t[i + 1] /\ g[i] \in Seq(T) /\ t[i + 1] \in Seq(T)
      BY <1>1, <1>3, <3>1
    <3>3. /\ Len(g[i + 1]) = Len(g[i]) + Len(t[i + 1])
          /\ Len(g[i]) \in Nat /\ Len(t[i + 1]) \in Nat
      BY <3>2
    <3>4. Len(f[least(i)]) <= Len(g[i])
      BY <1>5, <3>1
    <3>5. CASE i + 1 <= M
      <4>1. i + 1 \in 1..M /\ i \in 1..M
        BY <1>1, <2>2, <3>5
      <4>2. f[i + 1] = f[i] \o s[i + 1] /\ f[i] \in Seq(S) /\ s[i + 1] \in Seq(S)
        BY <1>1, <1>2, <3>1, <4>1
      <4>3. /\ Len(f[i + 1]) = Len(f[i]) + Len(s[i + 1])
            /\ Len(f[i]) \in Nat /\ Len(s[i + 1]) \in Nat
        BY <4>2
      <4>4. Len(s[i + 1]) <= Len(t[i + 1]) /\ least(i) = i /\ least(i + 1) = i + 1
        BY <1>1, <3>5, <4>1
      <4> HIDE DEF least
      <4>5. Len(f[i]) <= Len(g[i])
        BY <3>4, <4>4
      <4>6. Len(f[i]) + Len(s[i + 1]) <= Len(g[i]) + Len(t[i + 1])
        BY <3>3, <4>3, <4>4, <4>5, SumsOrdered
      <4>7. Len(f[i + 1]) <= Len(g[i + 1])
        BY <3>3, <4>3, <4>6
      <4> QED BY <4>4, <4>7
    <3>6. CASE ~ (i + 1 <= M)
      <4>1. least(i) = M /\ least(i + 1) = M /\ M \in 1..M
        BY <1>1, <3>6
      <4>2. Len(f[M]) \in Nat
        BY <1>2, <4>1
      <4> HIDE DEF least
      <4>3. Len(f[M]) <= Len(g[i])
        BY <3>4, <4>1
      <4>4. Len(f[M]) <= Len(g[i]) + Len(t[i + 1])
        BY <3>3, <4>2, <4>3, SumsOrdered
      <4> QED BY <3>3, <4>1, <4>4
    <3> QED BY <3>5, <3>6
  <2> QED BY <2>1, <2>2
<1>6. N \in Good
  <2> HIDE DEF Good
  <2> QED BY <1>1, <1>4, <1>5, Induction
<1>7. CASE M = 0
  <2>1. Len(FlattenSeq(t)) \in Nat
    BY FlattenType
  <2>2. Len(FlattenSeq(s)) = 0
    BY <1>2, <1>7
  <2> QED BY <2>1, <2>2
<1>8. CASE M # 0
  <2>1. N \in 1..N /\ N # 0 /\ least(N) = M
    BY <1>1, <1>8
  <2> QED BY <1>2, <1>3, <1>6, <1>8, <2>1
<1> QED BY <1>7, <1>8

LEMMA ConcatEnd ==
  ASSUME NEW S, NEW s \in Seq(S), NEW t \in Seq(S), Len(t) # 0
  PROVE  Len(s \o t) # 0 /\ (s \o t)[Len(s \o t)] = t[Len(t)]
<1>1. Len(s) \in Nat /\ Len(t) \in Nat /\ Len(t) > 0 /\ Len(s \o t) = Len(s) + Len(t)
  BY ConcatProperties
<1>2. Len(s) + Len(t) \in 1..(Len(s) + Len(t)) /\ Len(s) + Len(t) > Len(s)
  BY <1>1
<1>3. (s \o t)[Len(s) + Len(t)] = t[(Len(s) + Len(t)) - Len(s)]
  BY <1>1, <1>2, ConcatProperties
<1> QED BY <1>1, <1>2, <1>3

\* The last element, when nothing follows the sequence it is in.
LEMMA FlattenLast ==
  ASSUME NEW S, NEW seqs \in Seq(Seq(S)), NEW m \in 1..Len(seqs), Len(seqs[m]) # 0,
         \A i \in 1..Len(seqs) : i > m => Len(seqs[i]) = 0
  PROVE  /\ Len(FlattenSeq(seqs)) # 0
         /\ Last(FlattenSeq(seqs)) = Last(seqs[m])
<1> DEFINE N == Len(seqs)
           Ends(s) == Len(s) # 0 /\ s[Len(s)] = seqs[m][Len(seqs[m])]
<1>1. N \in Nat /\ m \in 1..N /\ \A i \in 1..N : seqs[i] \in Seq(S)
  OBVIOUS
<1>2. PICK f \in [1..N -> Seq(S)] :
         /\ \A i \in 1..N : f[i] = IF i = 1 THEN seqs[i] ELSE f[i - 1] \o seqs[i]
         /\ FlattenSeq(seqs) = IF N = 0 THEN <<>> ELSE f[N]
  BY FlattenSteps
<1>3. Ends(f[m])
  <2>1. CASE m = 1
    <3>1. f[m] = seqs[m]
      BY <1>1, <1>2, <2>1
    <3> QED BY <3>1
  <2>2. CASE m # 1
    <3>1. m - 1 \in 1..N
      BY <1>1, <2>2
    <3>2. f[m] = f[m - 1] \o seqs[m] /\ f[m - 1] \in Seq(S) /\ seqs[m] \in Seq(S)
      BY <1>1, <1>2, <2>2, <3>1
    <3>3. Ends(f[m - 1] \o seqs[m])
      BY <3>2, ConcatEnd
    <3> HIDE DEF Ends
    <3> QED BY <3>2, <3>3
  <2> QED BY <2>1, <2>2
<1>4. \A i \in 1..N : i > m => Len(seqs[i]) = 0
  OBVIOUS
<1> HIDE DEF Ends, N
<1> DEFINE Good == {i \in Nat : i \in m..N => Ends(f[i])}
<1>5. 0 \in Good
  BY <1>1
<1>6. ASSUME NEW i \in Nat, i \in Good PROVE i + 1 \in Good
  <2> SUFFICES ASSUME i + 1 \in m..N, i + 1 # m PROVE Ends(f[i + 1])
    BY <1>3
  <2>1. i \in m..N /\ i \in 1..N /\ i + 1 \in 1..N /\ i + 1 > m /\ (i + 1) - 1 = i /\ i + 1 # 1
    BY <1>1
  <2>2. f[i + 1] = f[i] \o seqs[i + 1] /\ f[i] \in Seq(S) /\ seqs[i + 1] \in Seq(S)
    BY <1>1, <1>2, <2>1
  <2>3. Len(seqs[i + 1]) = 0
    BY <1>4, <2>1
  <2>4. seqs[i + 1] = <<>> /\ f[i + 1] = f[i]
    BY <2>2, <2>3, EmptySeq, ConcatEmptySeq
  <2> QED BY <1>6, <2>1, <2>4
<1>7. N \in Good
  <2> HIDE DEF Good
  <2> QED BY <1>1, <1>5, <1>6, Induction
<1>8. Ends(f[N])
  BY <1>1, <1>7
<1>9. FlattenSeq(seqs) = f[N]
  BY <1>1, <1>2
<1> QED BY <1>8, <1>9 DEF Ends, Last
=============================================================================
