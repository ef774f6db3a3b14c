---------------------- MODULE WitnessCalculator_proofs ----------------------
(***************************************************************************)
(* Proofs about WitnessCalculator, for every circuit with an input, every  *)
(* size of words and numbers, any inputs and any number of calls: a call   *)
(* is rejected exactly if its input does not fit, and one that no other    *)
(* call overlaps returns the witness of its own input.                     *)
(***************************************************************************)
EXTENDS WitnessCalculatorProps, DataInduction

-----------------------------------------------------------------------------
(* Sequences and powers. *)

LEMMA AppendInduction ==
  ASSUME NEW S, NEW P, <<>> \in P,
         \A s \in Seq(S), e \in S : s \in P => Append(s, e) \in P
  PROVE  Seq(S) \subseteq P
<1> DEFINE Good == {n \in Nat : \A s \in Seq(S) : Len(s) = n => s \in P}
<1>1. 0 \in Good
  BY EmptySeq
<1>2. ASSUME NEW n \in Nat, n \in Good PROVE n + 1 \in Good
  <2> SUFFICES ASSUME NEW s \in Seq(S), Len(s) = n + 1 PROVE s \in P
    OBVIOUS
  <2>1. PICK t \in Seq(S), e \in S : s = Append(t, e)
    <3>1. s # <<>>
      OBVIOUS
    <3> QED BY <3>1, SequenceEmptyOrAppend
  <2>2. Len(t) = n
    BY <2>1, AppendProperties
  <2> QED BY <1>2, <2>1, <2>2
<1>3. Nat \subseteq Good
  <2> HIDE DEF Good
  <2> QED BY <1>1, <1>2, Induction
<1> QED BY <1>3

LEMMA FunctionIsSeq ==
  ASSUME NEW S, NEW n \in Nat, NEW f \in [1..n -> S]
  PROVE  f \in Seq(S) /\ Len(f) = n
OBVIOUS

LEMMA Products ==
  /\ \A a, b \in Nat \ {0} : a * b \in Nat \ {0}
  /\ \A a, b, c \in Int : (a * b) * c = a * (b * c)
  /\ \A a, b \in Int : a * b \in Int /\ a * b = b * a
  /\ \A a, b, c \in Int : a * (b + c) = a * b + a * c /\ (b + c) * a = b * a + c * a
  OBVIOUS

LEMMA PowerOfSum ==
  ASSUME NEW base \in Nat \ {0}, NEW m \in Nat, NEW n \in Nat
  PROVE  Power(base, m + n) = Power(base, m) * Power(base, n)
<1> DEFINE Good == {k \in Nat : Power(base, m + k) = Power(base, m) * Power(base, k)}
<1>1. 0 \in Good
  <2>1. Power(base, m) \in Nat /\ Power(base, 0) = 1 /\ m + 0 = m
    BY PowerStep
  <2> QED BY <2>1
<1>2. ASSUME NEW k \in Nat, k \in Good PROVE k + 1 \in Good
  <2> DEFINE p == Power(base, m)
             q == Power(base, k)
  <2>1. p \in Nat /\ q \in Nat /\ Power(base, k + 1) = base * q
    BY PowerStep
  <2>2. Power(base, (m + k) + 1) = base * Power(base, m + k) /\ (m + k) + 1 = m + (k + 1)
    BY PowerStep
  <2>3. Power(base, m + k) = p * q
    BY <1>2
  <2> HIDE DEF p, q
  <2>4. base * (p * q) = p * (base * q)
    BY <2>1
  <2> QED BY <2>1, <2>2, <2>3, <2>4 DEF p
<1>3. n \in Good
  <2> HIDE DEF Good
  <2> QED BY <1>1, <1>2, Induction
<1> QED BY <1>3

-----------------------------------------------------------------------------
(* The number that a sequence of digits denotes. *)

\* sum is the recursive function that Number(base, ds) chooses.
AreSums(sum, base, ds) ==
    sum = [i \in 0..Len(ds) |-> IF i = 0 THEN 0 ELSE sum[i - 1] * base + ds[i]]

LEMMA NumberExists ==
  ASSUME NEW base \in Int, NEW ds \in Seq(Int)
  PROVE  \E sum : /\ AreSums(sum, base, ds) /\ Number(base, ds) = sum[Len(ds)]
                  /\ sum[Len(ds)] \in Int
<1> DEFINE n == Len(ds)
           prev == [i \in 1..n |-> i - 1]
           next == [p \in (1..n) \X Int |-> p[2] * base + ds[p[1]]]
           chosen == CHOOSE sum : AreSums(sum, base, ds)
<1>1. n \in Nat /\ \A i \in 1..n : ds[i] \in Int
  OBVIOUS
<1>2. \A i \in 1..n : prev[i] = i - 1 /\ prev[i] \in 0..(i - 1)
  BY <1>1
<1>3. \A i \in 1..n, v \in Int : next[<<i, v>>] = v * base + ds[i] /\ next[<<i, v>>] \in Int
  BY <1>1
<1> HIDE DEF prev, next
<1>4. \E f \in [0..n -> Int] : IsRecursiveTo(f, n, 0, prev, next)
  <2>1. /\ n \in Nat /\ 0 \in Int
        /\ \A i \in 1..n : prev[i] \in 0..(i - 1)
        /\ \A i \in 1..n, v \in Int : next[<<i, v>>] \in Int
    BY <1>1, <1>2, <1>3
  <2> HIDE DEF n
  <2> QED BY <2>1, NumberRecursion, Zenon
<1>5. PICK f \in [0..n -> Int] : IsRecursiveTo(f, n, 0, prev, next)
  BY <1>4
<1>6. \A i \in 0..n : f[i] = IF i = 0 THEN 0 ELSE f[i - 1] * base + ds[i]
  <2> TAKE i \in 0..n
  <2>1. CASE i = 0
    BY <1>5, <2>1 DEF IsRecursiveTo
  <2>2. CASE i # 0
    <3>1. i \in 1..n /\ i - 1 \in 0..n
      BY <1>1, <2>2
    <3>2. f[i] = next[<<i, f[i - 1]>>] /\ f[i - 1] \in Int
      BY <1>2, <1>5, <3>1 DEF IsRecursiveTo
    <3> QED BY <1>3, <2>2, <3>1, <3>2
  <2> QED BY <2>1, <2>2
<1>7. f = [i \in 0..n |-> f[i]]
  BY <1>5
<1>8. AreSums(f, base, ds)
  BY <1>6, <1>7 DEF AreSums
<1>9. AreSums(chosen, base, ds)
  BY <1>8
<1>10. Number(base, ds) = chosen[n]
  BY Zenon DEF Number, AreSums
<1> HIDE DEF chosen
<1>11. \A i \in 0..n : chosen[i] = IF i = 0 THEN 0 ELSE chosen[i - 1] * base + ds[i]
  BY <1>9 DEF AreSums
<1> DEFINE Good == {k \in Nat : k <= n => chosen[k] \in Int}
<1>12. 0 \in Good
  BY <1>1, <1>11
<1>13. ASSUME NEW k \in Nat, k \in Good PROVE k + 1 \in Good
  <2> SUFFICES ASSUME k + 1 <= n PROVE chosen[k + 1] \in Int
    OBVIOUS
  <2>1. k + 1 \in 0..n /\ k + 1 \in 1..n /\ k + 1 # 0 /\ k + 1 - 1 = k /\ chosen[k] \in Int
    BY <1>1, <1>13
  <2>2. chosen[k + 1] = chosen[k] * base + ds[k + 1]
    BY <1>11, <2>1
  <2> QED BY <1>1, <2>1, <2>2
<1>14. n \in Good
  <2> HIDE DEF Good, n
  <2> QED BY <1>1, <1>12, <1>13, Induction
<1> QED BY <1>1, <1>9, <1>10, <1>14

LEMMA NumberType ==
  ASSUME NEW base \in Int, NEW ds \in Seq(Int)
  PROVE  Number(base, ds) \in Int
BY NumberExists

LEMMA NumberOfNone ==
  ASSUME NEW base \in Int PROVE Number(base, <<>>) = 0
<1>1. <<>> \in Seq(Int) /\ Len(<<>>) = 0
  BY EmptySeq
<1>2. PICK sum : AreSums(sum, base, <<>>) /\ Number(base, <<>>) = sum[0]
  BY <1>1, NumberExists
<1> QED BY <1>1, <1>2 DEF AreSums

LEMMA NumberAppend ==
  ASSUME NEW base \in Int, NEW ds \in Seq(Int), NEW d \in Int
  PROVE  Number(base, Append(ds, d)) = Number(base, ds) * base + d
<1> DEFINE es == Append(ds, d)
           n == Len(ds)
<1>1. /\ es \in Seq(Int) /\ Len(es) = n + 1 /\ es[n + 1] = d /\ n \in Nat
      /\ \A i \in 1..n : es[i] = ds[i]
  OBVIOUS
<1> HIDE DEF es, n
<1>2. PICK s : AreSums(s, base, ds) /\ Number(base, ds) = s[n]
  BY NumberExists DEF n
<1>3. PICK t : AreSums(t, base, es) /\ Number(base, es) = t[n + 1]
  BY <1>1, NumberExists
<1>4. /\ \A i \in 0..n : s[i] = IF i = 0 THEN 0 ELSE s[i - 1] * base + ds[i]
      /\ \A i \in 0..(n + 1) : t[i] = IF i = 0 THEN 0 ELSE t[i - 1] * base + es[i]
  BY <1>1, <1>2, <1>3 DEF AreSums, n
<1> DEFINE Good == {k \in Nat : k <= n => s[k] = t[k]}
<1>5. 0 \in Good
  BY <1>1, <1>4
<1>6. ASSUME NEW k \in Nat, k \in Good PROVE k + 1 \in Good
  <2> SUFFICES ASSUME k + 1 <= n PROVE s[k + 1] = t[k + 1]
    OBVIOUS
  <2>1. /\ k + 1 \in 0..n /\ k + 1 \in 0..(n + 1) /\ k + 1 \in 1..n
        /\ k + 1 # 0 /\ k + 1 - 1 = k /\ s[k] = t[k]
    BY <1>1, <1>6
  <2> QED BY <1>1, <1>4, <2>1
<1>7. s[n] = t[n]
  <2>1. n \in Good
    <3> HIDE DEF Good
    <3> QED BY <1>1, <1>5, <1>6, Induction
  <2> QED BY <1>1, <2>1
<1>8. n + 1 \in 0..(n + 1) /\ n + 1 # 0 /\ n + 1 - 1 = n
  BY <1>1
<1>9. t[n + 1] = t[n] * base + es[n + 1]
  <2>1. \A i \in 0..(n + 1), j \in Int : i # 0 /\ j = i - 1 => t[i] = t[j] * base + es[i]
    BY <1>4
  <2> QED BY <1>1, <1>8, <2>1
<1> QED BY <1>1, <1>2, <1>3, <1>7, <1>9 DEF es

\* The digits s, then as many more as t has.
LEMMA NumberConcat ==
  ASSUME NEW base \in Nat \ {0}, NEW s \in Seq(Int), NEW t \in Seq(Int)
  PROVE  Number(base, s \o t) = Number(base, s) * Power(base, Len(t)) + Number(base, t)
<1> DEFINE Is(u) == Number(base, s \o u)
                       = Number(base, s) * Power(base, Len(u)) + Number(base, u)
           P == {u \in Seq(Int) : Is(u)}
<1>1. Number(base, s) \in Int /\ base \in Int
  BY NumberType
<1>2. <<>> \in P
  <2>1. <<>> \in Seq(Int) /\ Len(<<>>) = 0 /\ s \o <<>> = s
    BY EmptySeq, ConcatEmptySeq
  <2> QED BY <1>1, <2>1, NumberOfNone, PowerStep
<1>3. ASSUME NEW u \in Seq(Int), NEW d \in Int, u \in P PROVE Append(u, d) \in P
  <2> DEFINE a == Number(base, s)
             b == Number(base, u)
             p == Power(base, Len(u))
  <2>1. /\ Append(u, d) \in Seq(Int) /\ Len(Append(u, d)) = Len(u) + 1 /\ Len(u) \in Nat
        /\ s \o u \in Seq(Int)
    BY ConcatProperties
  <2>2. s \o Append(u, d) = Append(s \o u, d)
    OBVIOUS
  <2>3. a \in Int /\ b \in Int /\ p \in Nat /\ Power(base, Len(u) + 1) = base * p
    BY <1>1, <2>1, NumberType, PowerStep
  <2>4. /\ Number(base, Append(s \o u, d)) = Number(base, s \o u) * base + d
        /\ Number(base, Append(u, d)) = b * base + d
    BY <1>1, <2>1, NumberAppend
  <2>5. Number(base, s \o u) = a * p + b
    BY <1>3
  <2> HIDE DEF a, b, p
  <2>6. (a * p + b) * base + d = a * (base * p) + (b * base + d)
    BY <2>3
  <2>7. Is(Append(u, d))
    BY <2>1, <2>2, <2>3, <2>4, <2>5, <2>6 DEF a, b, p
  <2> QED BY <2>1, <2>7
<1>4. Seq(Int) \subseteq P
  <2> HIDE DEF P
  <2> QED BY <1>2, <1>3, AppendInduction
<1> QED BY <1>4

LEMMA NumberBound ==
  ASSUME NEW base \in Nat \ {0}, NEW ds \in Seq(0..(base - 1))
  PROVE  Number(base, ds) \in 0..(Power(base, Len(ds)) - 1)
<1> DEFINE Is(u) == Number(base, u) \in 0..(Power(base, Len(u)) - 1)
           P == {u \in Seq(0..(base - 1)) : Is(u)}
<1>1. <<>> \in P
  <2>1. Number(base, <<>>) = 0 /\ Power(base, 0) = 1 /\ Len(<<>>) = 0
    BY EmptySeq, NumberOfNone, PowerStep
  <2>2. Is(<<>>)
    BY <2>1
  <2> HIDE DEF Is
  <2> QED BY <2>2, EmptySeq
<1>2. ASSUME NEW u \in Seq(0..(base - 1)), NEW d \in 0..(base - 1), u \in P
      PROVE  Append(u, d) \in P
  <2> DEFINE b == Number(base, u)
             p == Power(base, Len(u))
  <2>1. /\ Append(u, d) \in Seq(0..(base - 1)) /\ Len(Append(u, d)) = Len(u) + 1
        /\ Len(u) \in Nat /\ u \in Seq(Int)
    OBVIOUS
  <2>2. p \in Nat \ {0} /\ Power(base, Len(u) + 1) = base * p
    BY <2>1, PowerStep
  <2>3. Number(base, Append(u, d)) = b * base + d
    BY <2>1, NumberAppend
  <2>4. b \in 0..(p - 1)
    BY <1>2
  <2> HIDE DEF b, p
  <2>5. b * base + d \in 0..(base * p - 1)
    <3>1. b * base >= 0 /\ b * base \in Int
      BY <2>4
    <3>2. b * base <= (p - 1) * base /\ (p - 1) * base = base * p - base
      BY <2>2, <2>4
    <3> QED BY <2>2, <3>1, <3>2
  <2> QED BY <2>1, <2>2, <2>3, <2>5
<1>3. Seq(0..(base - 1)) \subseteq P
  <2> HIDE DEF P
  <2> QED BY <1>1, <1>2, AppendInduction
<1> QED BY <1>3

-----------------------------------------------------------------------------
(* Digits is the inverse of Number, and a small number has few digits. *)

LEMMA Division ==
  ASSUME NEW base \in Nat \ {0, 1}, NEW n \in Nat \ {0}
  PROVE  /\ n \div base \in 0..(n - 1) /\ n % base \in 0..(base - 1)
         /\ n = (n \div base) * base + (n % base)
<1> DEFINE q == n \div base
           r == n % base
<1>1. q \in Int /\ r \in 0..(base - 1) /\ n = base * q + r
  OBVIOUS
<1> HIDE DEF q, r
<1>2. q >= 0
  <2> SUFFICES ASSUME q <= -1 PROVE FALSE
    BY <1>1
  <2>1. base * q <= base * (-1)
    BY <1>1
  <2> QED BY <1>1, <2>1
<1>3. q < n
  <2> SUFFICES ASSUME q >= n PROVE FALSE
    BY <1>1
  <2>1. base * q >= 2 * q
    BY <1>1, <1>2
  <2> QED BY <1>1, <2>1
<1>4. base * q = q * base
  BY <1>1
<1> QED BY <1>1, <1>2, <1>3, <1>4 DEF q, r

\* of is the recursive function that Digits(base, size) chooses.
AreDigits(of, base, size) ==
    of = [n \in 0..size |-> IF n = 0 THEN <<>> ELSE Append(of[n \div base], n % base)]

LEMMA DigitsExist ==
  ASSUME NEW base \in Nat \ {0, 1}, NEW size \in Nat
  PROVE  \E of : AreDigits(of, base, size) /\ Digits(base, size) = of[size]
<1> DEFINE S == 0..(base - 1)
           prev == [n \in 1..size |-> n \div base]
           next == [p \in (1..size) \X Seq(S) |-> Append(p[2], p[1] % base)]
           chosen == CHOOSE of : AreDigits(of, base, size)
<1>1. \A n \in 1..size : prev[n] = n \div base /\ prev[n] \in 0..(n - 1) /\ n % base \in S
  <2> TAKE n \in 1..size
  <2>1. n \in Nat \ {0} /\ prev[n] = n \div base
    OBVIOUS
  <2> HIDE DEF prev
  <2> QED BY <2>1, Division
<1>2. \A n \in 1..size, v \in Seq(S) :
         next[<<n, v>>] = Append(v, n % base) /\ next[<<n, v>>] \in Seq(S)
  <2> TAKE n \in 1..size, v \in Seq(S)
  <2>1. next[<<n, v>>] = Append(v, n % base)
    OBVIOUS
  <2>2. n % base \in S
    BY <1>1
  <2> HIDE DEF next, S
  <2>3. Append(v, n % base) \in Seq(S)
    BY <2>2, AppendProperties
  <2> QED BY <2>1, <2>3
<1> HIDE DEF prev, next
<1>3. PICK f \in [0..size -> Seq(S)] : IsRecursiveTo(f, size, <<>>, prev, next)
  <2>1. /\ size \in Nat /\ <<>> \in Seq(S)
        /\ \A n \in 1..size : prev[n] \in 0..(n - 1)
        /\ \A n \in 1..size, v \in Seq(S) : next[<<n, v>>] \in Seq(S)
    BY <1>1, <1>2, EmptySeq
  <2> HIDE DEF S
  <2>2. \E f \in [0..size -> Seq(S)] : IsRecursiveTo(f, size, <<>>, prev, next)
    BY <2>1, NumberRecursion, Zenon
  <2> QED BY <2>2
<1>4. \A n \in 0..size : f[n] = IF n = 0 THEN <<>> ELSE Append(f[n \div base], n % base)
  <2> TAKE n \in 0..size
  <2>1. CASE n = 0
    BY <1>3, <2>1 DEF IsRecursiveTo
  <2>2. CASE n # 0
    <3>1. n \in 1..size
      BY <2>2
    <3>2. n \div base \in 0..size
      <4>1. n \div base \in 0..(n - 1)
        BY <1>1, <3>1
      <4> QED BY <4>1
    <3>3. f[n] = next[<<n, f[n \div base]>>] /\ f[n \div base] \in Seq(S)
      BY <1>1, <1>3, <3>1, <3>2 DEF IsRecursiveTo
    <3> QED BY <1>2, <2>2, <3>1, <3>3
  <2> QED BY <2>1, <2>2
<1>5. f = [n \in 0..size |-> f[n]]
  BY <1>3
<1>6. AreDigits(f, base, size)
  BY <1>4, <1>5 DEF AreDigits
<1>7. AreDigits(chosen, base, size)
  BY <1>6
<1>8. size >= 0
  OBVIOUS
<1>9. Digits(base, size) = chosen[size]
  BY <1>8, Zenon DEF Digits, AreDigits
<1> QED BY <1>7, <1>9

LEMMA DigitsOf ==
  ASSUME NEW base \in Nat \ {0, 1}, NEW size \in Nat
  PROVE  /\ Digits(base, size) \in Seq(0..(base - 1))
         /\ Number(base, Digits(base, size)) = size
         /\ \A k \in Nat : size < Power(base, k) => Len(Digits(base, size)) <= k
<1> DEFINE S == 0..(base - 1)
<1>1. PICK of : AreDigits(of, base, size) /\ Digits(base, size) = of[size]
  BY DigitsExist
<1>2. \A n \in 0..size : of[n] = IF n = 0 THEN <<>> ELSE Append(of[n \div base], n % base)
  BY <1>1 DEF AreDigits
<1> DEFINE Is(n) == /\ of[n] \in Seq(S) /\ Number(base, of[n]) = n
                    /\ \A k \in Nat : n < Power(base, k) => Len(of[n]) <= k
           Good == {m \in Nat : \A n \in 0..size : n <= m => Is(n)}
<1>3. Is(0)
  <2>1. of[0] = <<>> /\ Len(<<>>) = 0 /\ Number(base, <<>>) = 0
    BY <1>2, EmptySeq, NumberOfNone
  <2> QED BY <2>1, EmptySeq
<1>4. 0 \in Good
  BY <1>3
<1>5. ASSUME NEW m \in Nat, m \in Good PROVE m + 1 \in Good
  <2> SUFFICES ASSUME NEW n \in 0..size, n = m + 1 PROVE Is(n)
    BY <1>5
  <2> DEFINE q == n \div base
             r == n % base
  <2>1. q \in 0..(n - 1) /\ r \in S /\ n = q * base + r
    <3>1. n \in Nat \ {0}
      OBVIOUS
    <3> QED BY <3>1, Division
  <2>2. of[n] = Append(of[q], r) /\ n # 0
    <3>1. of[n] = IF n = 0 THEN <<>> ELSE Append(of[q], r)
      BY <1>2
    <3> HIDE DEF q, r
    <3> QED BY <3>1
  <2>3. q \in 0..size /\ q <= m
    BY <2>1
  <2>4. Is(q)
    BY <1>5, <2>3
  <2> HIDE DEF q, r
  <2>5. of[n] \in Seq(S) /\ Len(of[n]) = Len(of[q]) + 1 /\ of[q] \in Seq(Int) /\ r \in Int
    <3>1. of[q] \in Seq(S) /\ r \in S /\ S \subseteq Int
      BY <2>1, <2>4
    <3> HIDE DEF S
    <3>2. Append(of[q], r) \in Seq(S) /\ Len(Append(of[q], r)) = Len(of[q]) + 1
      BY <3>1, AppendProperties
    <3> QED BY <2>2, <3>1, <3>2, SeqMonotonic
  <2>6. Number(base, of[n]) = n
    <3>1. Number(base, of[n]) = Number(base, of[q]) * base + r
      BY <2>2, <2>5, NumberAppend
    <3> QED BY <2>1, <2>4, <3>1
  <2>7. ASSUME NEW k \in Nat, n < Power(base, k) PROVE Len(of[n]) <= k
    <3>1. k # 0
      BY <2>7, PowerStep
    <3> DEFINE p == Power(base, k - 1)
    <3>2. k - 1 \in Nat /\ p \in Nat /\ Power(base, k) = base * p
      BY <3>1, PowerStep
    <3>3. q < p
      <4> HIDE DEF p
      <4> SUFFICES ASSUME q >= p PROVE FALSE
        BY <2>1, <3>2
      <4>1. q * base >= p * base /\ p * base = base * p
        BY <2>1, <3>2
      <4> QED BY <2>1, <2>7, <3>2, <4>1
    <3>4. Len(of[q]) <= k - 1
      BY <2>4, <3>2, <3>3
    <3>5. Len(of[q]) \in Nat
      BY <2>5
    <3> QED BY <2>5, <3>4, <3>5
  <2> QED BY <2>5, <2>6, <2>7
<1>6. Is(size)
  <2>1. size \in Good
    <3> HIDE DEF Good
    <3> QED BY <1>4, <1>5, Induction
  <2> QED BY <2>1
<1> QED BY <1>1, <1>6

\* Leading zeros.
LEMMA PaddedOf ==
  ASSUME NEW base \in Nat \ {0, 1}, NEW ds \in Seq(0..(base - 1)), NEW size \in Nat,
         Len(ds) <= size
  PROVE  /\ Padded(ds, size) \in Seq(0..(base - 1)) /\ Len(Padded(ds, size)) = size
         /\ Number(base, Padded(ds, size)) = Number(base, ds)
<1> DEFINE zeros == [i \in 1..(size - Len(ds)) |-> 0]
           Zeros(n) == [i \in 1..n |-> 0]
<1>1. Len(ds) \in Nat /\ size - Len(ds) \in Nat
  OBVIOUS
<1>2. Max({0, size - Len(ds)}) = size - Len(ds)
  <2> DEFINE T == {0, size - Len(ds)}
  <2>1. IsFiniteSet({0}) /\ T = {0} \cup {size - Len(ds)}
    BY FS_Singleton
  <2>2. T \subseteq Int /\ T # {}
    BY <1>1
  <2>3. IsFiniteSet(T)
    <3> HIDE DEF T
    <3> QED BY <2>1, FS_AddElement
  <2> HIDE DEF T
  <2>4. Max(T) \in T /\ \A y \in T : y <= Max(T)
    BY <2>2, <2>3, GreatestNumber
  <2> QED BY <1>1, <2>4 DEF T
<1>3. Padded(ds, size) = zeros \o ds
  BY <1>2 DEF Padded
<1>4. zeros \in Seq(0..(base - 1)) /\ Len(zeros) = size - Len(ds)
  BY <1>1
<1>5. \A n \in Nat : Zeros(n) \in Seq(Int)
  OBVIOUS
<1> DEFINE Good == {n \in Nat : Number(base, Zeros(n)) = 0}
<1>6. 0 \in Good
  <2>1. Zeros(0) = <<>>
    OBVIOUS
  <2> HIDE DEF Zeros
  <2> QED BY <2>1, NumberOfNone
<1>7. ASSUME NEW n \in Nat, n \in Good PROVE n + 1 \in Good
  <2>1. Zeros(n + 1) = Append(Zeros(n), 0)
    <3>1. /\ Zeros(n + 1) \in Seq(Int) /\ Append(Zeros(n), 0) \in Seq(Int)
          /\ Len(Zeros(n + 1)) = n + 1 /\ Len(Append(Zeros(n), 0)) = n + 1
      OBVIOUS
    <3>2. \A i \in 1..(n + 1) : Zeros(n + 1)[i] = 0 /\ Append(Zeros(n), 0)[i] = 0
      OBVIOUS
    <3> HIDE DEF Zeros
    <3> QED BY <3>1, <3>2, SeqEqual
  <2> HIDE DEF Zeros
  <2>2. Number(base, Zeros(n + 1)) = Number(base, Zeros(n)) * base + 0
    <3>1. base \in Int /\ Zeros(n) \in Seq(Int) /\ 0 \in Int
      BY <1>5
    <3> QED BY <2>1, <3>1, NumberAppend
  <2> QED BY <1>7, <2>2
<1>8. Number(base, zeros) = 0
  <2>1. size - Len(ds) \in Good
    <3> HIDE DEF Good
    <3> QED BY <1>1, <1>6, <1>7, Induction
  <2> QED BY <2>1
<1> HIDE DEF zeros
<1>9. zeros \in Seq(Int) /\ ds \in Seq(Int)
  BY <1>4
<1>10. Number(base, zeros \o ds) = Number(base, zeros) * Power(base, Len(ds)) + Number(base, ds)
  BY <1>9, NumberConcat
<1>11. Power(base, Len(ds)) \in Nat /\ Number(base, ds) \in Int
  <2>1. base \in Int /\ base \in Nat \ {0}
    OBVIOUS
  <2> QED BY <1>1, <1>9, <2>1, PowerStep, NumberType
<1>12. Number(base, zeros \o ds) = Number(base, ds)
  BY <1>8, <1>10, <1>11
<1>13. zeros \o ds \in Seq(0..(base - 1)) /\ Len(zeros \o ds) = size
  BY <1>1, <1>4, ConcatProperties
<1> QED BY <1>3, <1>12, <1>13

-----------------------------------------------------------------------------
(* Words. *)

LEMMA Sizes ==
  /\ HexBase \in Nat \ {0, 1} /\ HexPerWord \in Nat \ {0} /\ n32 \in Nat \ {0}
  /\ Radix \in Nat \ {0, 1} /\ Power(Radix, n32) \in Nat \ {0}
  /\ Power(HexBase, 2 * HexPerWord) = Radix * Radix /\ Radix * Radix \in Nat
<1>1. HexBase \in Nat \ {0, 1} /\ HexPerWord \in Nat \ {0} /\ n32 \in Nat \ {0}
  BY WitnessAssumption
<1>2. Radix \in Nat \ {0, 1}
  <2> DEFINE p == Power(HexBase, HexPerWord - 1)
  <2>1. HexPerWord - 1 \in Nat /\ (HexPerWord - 1) + 1 = HexPerWord
    BY <1>1
  <2>2. p \in Nat \ {0} /\ Power(HexBase, (HexPerWord - 1) + 1) = HexBase * p
    BY <1>1, <2>1, PowerStep
  <2> HIDE DEF p
  <2>3. HexBase * p >= 2 * p /\ HexBase * p \in Int
    BY <1>1, <2>2
  <2> QED BY <2>1, <2>2, <2>3 DEF Radix
<1>3. Power(Radix, n32) \in Nat \ {0}
  BY <1>1, <1>2, PowerStep
<1>4. Power(HexBase, HexPerWord + HexPerWord) = Radix * Radix
  BY <1>1, PowerOfSum DEF Radix
<1>5. HexPerWord + HexPerWord = 2 * HexPerWord
  BY <1>1
<1> QED BY <1>1, <1>2, <1>3, <1>4, <1>5, Products

\* The words of a number that fits are n32, and denote the number.
LEMMA WordsOf ==
  ASSUME NEW number \in FieldNumbers
  PROVE  /\ toArray32(number, n32) \in Seq(0..(Radix - 1))
         /\ Len(toArray32(number, n32)) = n32
         /\ fromArray32(toArray32(number, n32)) = number
<1>1. /\ number \in Nat /\ number < Power(Radix, n32) /\ Radix \in Nat \ {0, 1}
      /\ n32 \in Nat
  BY Sizes DEF FieldNumbers
<1> DEFINE ds == Digits(Radix, number)
<1>2. /\ ds \in Seq(0..(Radix - 1)) /\ Number(Radix, ds) = number /\ Len(ds) <= n32
  BY <1>1, DigitsOf
<1> HIDE DEF ds
<1>3. /\ Padded(ds, n32) \in Seq(0..(Radix - 1)) /\ Len(Padded(ds, n32)) = n32
      /\ Number(Radix, Padded(ds, n32)) = Number(Radix, ds)
  BY <1>1, <1>2, PaddedOf
<1> QED BY <1>2, <1>3 DEF ds, toArray32, fromArray32

LEMMA ReverseType ==
  ASSUME NEW S, NEW s \in Seq(S)
  PROVE  Reverse(s) \in Seq(S) /\ Len(Reverse(s)) = Len(s)
BY DEF Reverse

LEMMA ReverseOf ==
  ASSUME NEW S, NEW s \in Seq(S)
  PROVE  Reverse(s) \in Seq(S) /\ Len(Reverse(s)) = Len(s) /\ Reverse(Reverse(s)) = s
<1>1. Reverse(s) \in Seq(S) /\ Len(Reverse(s)) = Len(s)
  BY ReverseType
<1>2. \A i \in 1..Len(s) : Reverse(s)[i] = s[(Len(s) - i) + 1]
  BY DEF Reverse
<1>3. Reverse(Reverse(s)) \in Seq(S) /\ Len(Reverse(Reverse(s))) = Len(s)
  BY <1>1, ReverseType
<1>4. \A i \in 1..Len(s) : Reverse(Reverse(s))[i] = s[i]
  <2> TAKE i \in 1..Len(s)
  <2>1. Reverse(Reverse(s))[i] = Reverse(s)[(Len(s) - i) + 1]
    BY <1>1 DEF Reverse
  <2>2. (Len(s) - i) + 1 \in 1..Len(s) /\ (Len(s) - ((Len(s) - i) + 1)) + 1 = i
    OBVIOUS
  <2> QED BY <1>2, <2>1, <2>2
<1> QED BY <1>1, <1>3, <1>4, SeqEqual

\* What is stored of a number that fits is the number.
LEMMA StoredIs ==
  ASSUME NEW number \in FieldNumbers
  PROVE  Stored(SubSeq(toArray32(number, n32), 1, n32)) = number
<1> DEFINE words == toArray32(number, n32)
<1>1. words \in Seq(0..(Radix - 1)) /\ Len(words) = n32 /\ Number(Radix, words) = number
  BY WordsOf DEF fromArray32
<1>2. Radix \in Nat \ {0, 1} /\ n32 \in Nat
  BY Sizes
<1> HIDE DEF words
<1>3. SubSeq(words, 1, n32) = words
  BY <1>1, SubSeqFull
<1>4. \A w \in 0..(Radix - 1) : w % Radix = w
  BY <1>2
<1>5. \A j \in 1..n32 : words[j] \in 0..(Radix - 1)
  <2> DEFINE S == 0..(Radix - 1)
  <2>1. words \in Seq(S) /\ Len(words) = n32
    BY <1>1
  <2> HIDE DEF S
  <2>2. \A j \in 1..n32 : words[j] \in S
    BY <2>1, ElementOfSeq
  <2> QED BY <2>2 DEF S
<1>6. [j \in 1..n32 |-> words[j] % Radix] = [j \in 1..n32 |-> words[j]]
  BY <1>4, <1>5
<1>7. [j \in 1..n32 |-> words[j]] = words
  BY <1>1
<1> QED BY <1>1, <1>3, <1>6, <1>7 DEF Stored, words

\* A name is looked up by the two words of its hash.
LEMMA HashIs ==
  ASSUME NEW name \in DOMAIN HashOf
  PROVE  fnvHash(name)[1] * Radix + fnvHash(name)[2] = HashOf[name]
<1> DEFINE hash == HashOf[name]
           hex == PadHash(Digits(HexBase, hash))
           k == HexPerWord
           high == SubSeq(hex, 1, k)
           low == SubSeq(hex, k + 1, 2 * k)
           Hex == 0..(HexBase - 1)
<1>1. /\ HexBase \in Nat \ {0, 1} /\ k \in Nat \ {0} /\ 2 * k \in Nat
      /\ hash \in Nat /\ hash < Power(HexBase, 2 * k)
  BY Sizes, WitnessAssumption
<1>2. hex \in Seq(Hex) /\ Len(hex) = 2 * k /\ Number(HexBase, hex) = hash
  <2> DEFINE ds == Digits(HexBase, hash)
  <2>1. ds \in Seq(Hex) /\ Number(HexBase, ds) = hash /\ Len(ds) <= 2 * k
    <3> HIDE DEF hash, k
    <3> QED BY <1>1, DigitsOf
  <2> HIDE DEF ds, hash, k
  <2>2. /\ Padded(ds, 2 * k) \in Seq(Hex) /\ Len(Padded(ds, 2 * k)) = 2 * k
        /\ Number(HexBase, Padded(ds, 2 * k)) = Number(HexBase, ds)
    BY <1>1, <2>1, PaddedOf
  <2> QED BY <2>1, <2>2 DEF PadHash, ds, k
<1>3. fnvHash(name)[1] = Number(HexBase, high) /\ fnvHash(name)[2] = Number(HexBase, low)
  BY DEF fnvHash
<1> HIDE DEF hash, hex
<1>4. high \in Seq(Hex) /\ low \in Seq(Hex) /\ Len(low) = k /\ hex = high \o low
  <2> HIDE DEF Hex, k
  <2>1. \A i \in 1..(2 * k) : hex[i] \in Hex
    BY <1>2
  <2>2. SubSeq(hex, 1, k) \in Seq(Hex)
    BY <1>1, <2>1, SubSeqProperties
  <2>3. SubSeq(hex, k + 1, 2 * k) \in Seq(Hex) /\ Len(SubSeq(hex, k + 1, 2 * k)) = k
    BY <1>1, <2>1, SubSeqProperties
  <2>4. /\ 1 \in 1..(Len(hex) + 1) /\ k \in 0..Len(hex) /\ 2 * k \in k..Len(hex)
    BY <1>1, <1>2
  <2>5. SubSeq(hex, 1, k) \o SubSeq(hex, k + 1, 2 * k) = SubSeq(hex, 1, 2 * k)
    BY <1>2, <2>4, ConcatAdjacentSubSeq
  <2>6. SubSeq(hex, 1, 2 * k) = hex
    BY <1>2, SubSeqFull
  <2> QED BY <2>2, <2>3, <2>5, <2>6
<1> HIDE DEF high, low
<1>5. high \in Seq(Int) /\ low \in Seq(Int)
  BY <1>1, <1>4
<1>6. Number(HexBase, hex) = Number(HexBase, high) * Power(HexBase, k) + Number(HexBase, low)
  BY <1>1, <1>4, <1>5, NumberConcat
<1> QED BY <1>2, <1>3, <1>6 DEF Radix, hash, hex

LEMMA SignalIs ==
  ASSUME NEW name \in DOMAIN HashOf
  PROVE  SignalOf(fnvHash(name)) = {name} \cap DOMAIN Signals
<1>1. SignalOf(fnvHash(name)) = {s \in DOMAIN Signals : HashOf[s] = HashOf[name]}
  BY HashIs DEF SignalOf
<1>2. \A s \in DOMAIN Signals : HashOf[s] = HashOf[name] => s = name
  BY WitnessAssumption
<1> QED BY <1>1, <1>2

-----------------------------------------------------------------------------
(* Values: however deep the arrays, flatArray returns their numbers. *)

\* of is the recursive function that Values chooses.
AreLevels(of, n) ==
    of = [i \in 0..n |-> IF i = 0 THEN [num : Int]
                         ELSE of[i - 1] \cup [array : Seq(of[i - 1])]]

LEMMA LevelsExist == \E of : AreLevels(of, MaxNesting) /\ Values = of[MaxNesting]
<1> DEFINE Good == {n \in Nat : \E of : AreLevels(of, n)}
           chosen == CHOOSE of : AreLevels(of, MaxNesting)
<1>1. 0 \in Good
  <2> DEFINE f == [i \in 0..0 |-> [num : Int]]
  <2>1. f = [i \in 0..0 |-> IF i = 0 THEN [num : Int]
                            ELSE f[i - 1] \cup [array : Seq(f[i - 1])]]
    OBVIOUS
  <2> HIDE DEF f
  <2>2. AreLevels(f, 0)
    BY <2>1 DEF AreLevels
  <2> QED BY <2>2
<1>2. ASSUME NEW n \in Nat, n \in Good PROVE n + 1 \in Good
  <2>1. PICK f : AreLevels(f, n)
    BY <1>2
  <2> DEFINE top == f[n] \cup [array : Seq(f[n])]
             g == [i \in 0..(n + 1) |-> IF i = n + 1 THEN top ELSE f[i]]
  <2>2. \A i \in 0..n : f[i] = IF i = 0 THEN [num : Int]
                               ELSE f[i - 1] \cup [array : Seq(f[i - 1])]
    BY <2>1 DEF AreLevels
  <2>3. g = [i \in 0..(n + 1) |-> g[i]] /\ g[n + 1] = top /\ \A i \in 0..n : g[i] = f[i]
    <3> HIDE DEF top
    <3> QED OBVIOUS
  <2> HIDE DEF g
  <2>4. \A i \in 0..(n + 1) : g[i] = IF i = 0 THEN [num : Int]
                                     ELSE g[i - 1] \cup [array : Seq(g[i - 1])]
    <3> TAKE i \in 0..(n + 1)
    <3>1. CASE i = 0
      <4>1. 0 \in 0..n
        OBVIOUS
      <4> QED BY <2>2, <2>3, <3>1, <4>1
    <3>2. CASE i = n + 1
      <4>1. i - 1 = n /\ n \in 0..n /\ i # 0
        BY <3>2
      <4> QED BY <2>3, <3>2, <4>1
    <3>3. CASE i # 0 /\ i # n + 1
      <4>1. i \in 0..n /\ i - 1 \in 0..n
        BY <3>3
      <4>2. g[i] = f[i] /\ g[i - 1] = f[i - 1]
        BY <2>3, <4>1
      <4> QED BY <2>2, <3>3, <4>1, <4>2
    <3> QED BY <3>1, <3>2, <3>3
  <2>5. AreLevels(g, n + 1)
    BY <2>3, <2>4 DEF AreLevels
  <2> QED BY <2>5
<1>3. MaxNesting \in Good
  <2>1. MaxNesting \in Nat
    BY WitnessAssumption
  <2> HIDE DEF Good
  <2> QED BY <1>1, <1>2, <2>1, Induction
<1>4. AreLevels(chosen, MaxNesting)
  BY <1>3
<1>5. Values = chosen[MaxNesting]
  BY Zenon DEF Values, AreLevels
<1> QED BY <1>4, <1>5

\* A value of a level is a number, or an array of values of the level below.
LEMMA LevelsOf ==
  ASSUME NEW of, AreLevels(of, MaxNesting)
  PROVE  /\ of[0] = [num : Int]
         /\ \A n \in 1..MaxNesting :
               /\ [num : Int] \subseteq of[n - 1]
               /\ of[n] \subseteq [num : Int] \cup [array : Seq(of[n - 1])]
<1> DEFINE Nums == [num : Int]
           Arrays(T) == [array : Seq(T)]
           Is(n) == /\ Nums \subseteq of[n - 1]
                    /\ of[n] \subseteq Nums \cup Arrays(of[n - 1])
<1>1. MaxNesting \in Nat
  BY WitnessAssumption
<1>2. \A i \in 0..MaxNesting : of[i] = IF i = 0 THEN Nums ELSE of[i - 1] \cup Arrays(of[i - 1])
  BY DEF AreLevels
<1>3. ASSUME NEW S, NEW T, S \subseteq T PROVE Arrays(S) \subseteq Arrays(T)
  <2>1. Seq(S) \subseteq Seq(T)
    BY <1>3, SeqMonotonic
  <2> QED BY <2>1
<1> HIDE DEF Nums, Arrays
<1> DEFINE Good == {n \in Nat : n \in 1..MaxNesting => Is(n)}
<1>4. of[0] = Nums
  <2>1. 0 \in 0..MaxNesting
    BY <1>1
  <2> QED BY <1>2, <2>1
<1>5. 0 \in Good
  OBVIOUS
<1>6. ASSUME NEW n \in Nat, n \in Good PROVE n + 1 \in Good
  <2> SUFFICES ASSUME n + 1 \in 1..MaxNesting PROVE Is(n + 1)
    OBVIOUS
  <2>1. n \in 0..MaxNesting /\ n + 1 \in 0..MaxNesting /\ (n + 1) - 1 = n /\ n + 1 # 0
    BY <1>1
  <2>2. of[n + 1] = of[n] \cup Arrays(of[n])
    BY <1>2, <2>1
  <2>3. CASE n = 0
    BY <1>4, <2>1, <2>2, <2>3
  <2>4. CASE n # 0
    <3>1. n \in 1..MaxNesting /\ Is(n)
      BY <1>6, <2>1, <2>4
    <3>2. of[n] = of[n - 1] \cup Arrays(of[n - 1])
      BY <1>2, <2>1, <2>4
    <3>3. Arrays(of[n - 1]) \subseteq Arrays(of[n])
      BY <1>3, <3>2
    <3> QED BY <2>1, <2>2, <3>1, <3>2, <3>3
  <2> QED BY <2>3, <2>4
<1>7. Nat \subseteq Good
  <2> HIDE DEF Good
  <2> QED BY <1>5, <1>6, Induction
<1>8. \A n \in 1..MaxNesting : Is(n)
  BY <1>7
<1> QED BY <1>4, <1>8 DEF Nums, Arrays

LEMMA OpenedType ==
  ASSUME NEW T, [num : Int] \subseteq T,
         NEW values \in Seq([num : Int] \cup [array : Seq(T)])
  PROVE  Opened(values) \in Seq(T)
<1> DEFINE parts == [i \in DOMAIN values |->
                        IF "num" \in DOMAIN values[i] THEN <<values[i]>> ELSE values[i].array]
<1>1. \A i \in DOMAIN values : parts[i] \in Seq(T)
  <2> TAKE i \in DOMAIN values
  <2>1. values[i] \in [num : Int] \cup [array : Seq(T)]
    OBVIOUS
  <2>2. CASE values[i] \in [num : Int]
    <3>1. "num" \in DOMAIN values[i] /\ values[i] \in T
      BY <2>2
    <3> QED BY <3>1
  <2>3. CASE values[i] \in [array : Seq(T)]
    <3>1. "num" \notin DOMAIN values[i] /\ values[i].array \in Seq(T)
      BY <2>3
    <3> QED BY <3>1
  <2> QED BY <2>1, <2>2, <2>3
<1>2. DOMAIN parts = 1..Len(values) /\ DOMAIN values = 1..Len(values) /\ Len(values) \in Nat
  OBVIOUS
<1>3. parts = [i \in 1..Len(values) |-> parts[i]]
  BY <1>2
<1>4. Opened(values) = FlattenSeq(parts)
  BY DEF Opened
<1> HIDE DEF parts
<1>5. parts \in Seq(Seq(T))
  <2>1. parts \in [1..Len(values) -> Seq(T)]
    <3>1. \A i \in 1..Len(values) : parts[i] \in Seq(T)
      BY <1>1, <1>2
    <3> QED BY <1>2, <1>3, <3>1
  <2> QED BY <1>2, <2>1, FunctionIsSeq
<1> QED BY <1>4, <1>5, FlattenType

\* fill is the recursive function that flatArray(value) chooses.
AreFills(fill, value) ==
    fill = [n \in 0..MaxNesting |-> IF n = 0 THEN <<value>> ELSE Opened(fill[n - 1])]

LEMMA FlatArrayType ==
  ASSUME NEW value \in Values
  PROVE  flatArray(value) \in Seq(Int)
<1> DEFINE N == MaxNesting
           chosen == CHOOSE fill : AreFills(fill, value)
<1>1. N \in Nat
  BY WitnessAssumption
<1>2. PICK of : AreLevels(of, N) /\ Values = of[N]
  BY LevelsExist
<1>3. /\ of[0] = [num : Int]
      /\ \A n \in 1..N : /\ [num : Int] \subseteq of[n - 1]
                         /\ of[n] \subseteq [num : Int] \cup [array : Seq(of[n - 1])]
  BY <1>2, LevelsOf
<1>4. \A n \in 1..N : \A s \in Seq(of[n]) : Opened(s) \in Seq(of[n - 1])
  <2> TAKE n \in 1..N
  <2> TAKE s \in Seq(of[n])
  <2> DEFINE T == of[n - 1]
             U == [num : Int] \cup [array : Seq(T)]
  <2>1. [num : Int] \subseteq T /\ of[n] \subseteq U
    BY <1>3
  <2> HIDE DEF U
  <2>2. s \in Seq(U)
    BY <2>1, SeqMonotonic
  <2> HIDE DEF T
  <2>3. Opened(s) \in Seq(T)
    BY <2>1, <2>2, OpenedType DEF U
  <2> QED BY <2>3 DEF T
<1> DEFINE all == UNION {Seq(of[i]) : i \in 0..N}
           prev == [n \in 1..N |-> n - 1]
           next == [p \in (1..N) \X all |-> IF p[2] \in Seq(of[(N - p[1]) + 1])
                                            THEN Opened(p[2]) ELSE <<>>]
<1>5. <<value>> \in Seq(of[N]) /\ N \in 0..N
  <2>1. value \in of[N] /\ N \in 0..N
    BY <1>1, <1>2
  <2> DEFINE T == of[N]
  <2>2. value \in T
    BY <2>1
  <2> HIDE DEF T
  <2>3. <<value>> \in Seq(T)
    BY <2>2
  <2> QED BY <2>1, <2>3 DEF T
<1>6. \A n \in 1..N : prev[n] = n - 1 /\ prev[n] \in 0..(n - 1)
  BY <1>1
<1>7. \A n \in 1..N, v \in all :
         /\ next[<<n, v>>] \in all
         /\ v \in Seq(of[(N - n) + 1]) =>
               next[<<n, v>>] = Opened(v) /\ Opened(v) \in Seq(of[N - n])
  <2> TAKE n \in 1..N, v \in all
  <2>1. /\ (N - n) + 1 \in 1..N /\ N - n \in 0..N /\ ((N - n) + 1) - 1 = N - n
    BY <1>1
  <2>2. next[<<n, v>>] = IF v \in Seq(of[(N - n) + 1]) THEN Opened(v) ELSE <<>>
    OBVIOUS
  <2>3. v \in Seq(of[(N - n) + 1]) => Opened(v) \in Seq(of[N - n])
    BY <1>4, <2>1
  <2>4. <<>> \in Seq(of[N - n])
    BY EmptySeq
  <2> QED BY <2>1, <2>2, <2>3, <2>4
<1> HIDE DEF prev, next
<1>8. <<value>> \in all
  BY <1>5
<1> HIDE DEF all
<1>9. PICK f \in [0..N -> all] : IsRecursiveTo(f, N, <<value>>, prev, next)
  <2>1. /\ N \in Nat /\ <<value>> \in all
        /\ \A n \in 1..N : prev[n] \in 0..(n - 1)
        /\ \A n \in 1..N, v \in all : next[<<n, v>>] \in all
    BY <1>1, <1>6, <1>7, <1>8
  <2> HIDE DEF N
  <2>2. \E f \in [0..N -> all] : IsRecursiveTo(f, N, <<value>>, prev, next)
    BY <2>1, NumberRecursion, Zenon
  <2> QED BY <2>2
<1> HIDE DEF N
<1>10. \A n \in 1..N : f[n] = next[<<n, f[n - 1]>>] /\ n - 1 \in 0..N /\ f[n - 1] \in all
  <2> TAKE n \in 1..N
  <2>1. f[n] = next[<<n, f[prev[n]]>>] /\ prev[n] = n - 1
    BY <1>6, <1>9 DEF IsRecursiveTo
  <2>2. n - 1 \in 0..N
    BY <1>1
  <2> QED BY <1>9, <2>1, <2>2
<1> DEFINE Good == {n \in Nat : n \in 0..N => f[n] \in Seq(of[N - n])}
<1>11. 0 \in Good
  <2>1. f[0] = <<value>> /\ N - 0 = N
    BY <1>1, <1>9 DEF IsRecursiveTo
  <2> QED BY <1>5, <2>1
<1>12. ASSUME NEW n \in Nat, n \in Good PROVE n + 1 \in Good
  <2> SUFFICES ASSUME n + 1 \in 0..N PROVE f[n + 1] \in Seq(of[N - (n + 1)])
    OBVIOUS
  <2>1. n \in 0..N /\ n + 1 \in 1..N /\ (n + 1) - 1 = n /\ N - n = (N - (n + 1)) + 1
    BY <1>1
  <2>2. f[n] \in Seq(of[(N - (n + 1)) + 1]) /\ f[n] \in all /\ f[n + 1] = next[<<n + 1, f[n]>>]
    BY <1>10, <1>12, <2>1
  <2> QED BY <1>7, <2>1, <2>2
<1>13. \A n \in 0..N : f[n] \in Seq(of[N - n])
  <2>1. Nat \subseteq Good
    <3> HIDE DEF Good
    <3> QED BY <1>11, <1>12, Induction
  <2> QED BY <1>1, <2>1
<1>14. \A n \in 0..N : f[n] = IF n = 0 THEN <<value>> ELSE Opened(f[n - 1])
  <2> TAKE n \in 0..N
  <2>1. CASE n = 0
    BY <1>9, <2>1 DEF IsRecursiveTo
  <2>2. CASE n # 0
    <3>1. n \in 1..N /\ n - 1 \in 0..N /\ N - (n - 1) = (N - n) + 1
      BY <1>1, <2>2
    <3>2. f[n - 1] \in Seq(of[(N - n) + 1])
      BY <1>13, <3>1
    <3>3. f[n] = Opened(f[n - 1])
      BY <1>7, <1>10, <3>1, <3>2
    <3> QED BY <2>2, <3>3
  <2> QED BY <2>1, <2>2
<1>15. f = [n \in 0..N |-> f[n]]
  BY <1>9
<1>16. AreFills(f, value)
  BY <1>14, <1>15 DEF AreFills, N
<1>17. AreFills(chosen, value)
  BY <1>16
<1>18. flatArray(value) = [i \in DOMAIN chosen[N] |-> chosen[N][i].num]
  BY Zenon DEF flatArray, AreFills, N
<1> HIDE DEF chosen
<1>19. \A n \in 0..N : chosen[n] = IF n = 0 THEN <<value>> ELSE Opened(chosen[n - 1])
  BY <1>17 DEF AreFills, N
<1> DEFINE Best == {n \in Nat : n \in 0..N => chosen[n] \in Seq(of[N - n])}
<1>20. 0 \in Best
  <2>1. N - 0 = N /\ 0 \in 0..N
    BY <1>1
  <2>2. chosen[0] = <<value>>
    BY <1>19, <2>1
  <2> QED BY <1>5, <2>1, <2>2
<1>21. ASSUME NEW n \in Nat, n \in Best PROVE n + 1 \in Best
  <2> SUFFICES ASSUME n + 1 \in 0..N PROVE chosen[n + 1] \in Seq(of[N - (n + 1)])
    OBVIOUS
  <2>1. /\ n \in 0..N /\ n + 1 # 0 /\ (n + 1) - 1 = n
        /\ N - n \in 1..N /\ (N - n) - 1 = N - (n + 1)
    BY <1>1
  <2>2. chosen[n + 1] = Opened(chosen[n]) /\ chosen[n] \in Seq(of[N - n])
    BY <1>19, <1>21, <2>1
  <2> QED BY <1>4, <2>1, <2>2
<1>22. chosen[N] \in Seq([num : Int])
  <2>1. N \in Best
    <3> HIDE DEF Best
    <3> QED BY <1>1, <1>20, <1>21, Induction
  <2>2. N \in 0..N /\ N - N = 0
    BY <1>1
  <2> QED BY <1>3, <2>1, <2>2
<1> DEFINE last == chosen[N]
           nums == [i \in DOMAIN last |-> last[i].num]
<1>23. nums \in Seq(Int)
  <2>1. last \in Seq([num : Int])
    BY <1>22
  <2> HIDE DEF last
  <2>2. Len(last) \in Nat /\ DOMAIN last = 1..Len(last)
    BY <2>1
  <2>3. \A i \in 1..Len(last) : last[i].num \in Int
    <3>1. \A i \in 1..Len(last) : last[i] \in [num : Int]
      BY <2>1, ElementOfSeq
    <3> QED BY <3>1
  <2>4. nums \in [1..Len(last) -> Int]
    BY <2>2, <2>3
  <2> HIDE DEF nums
  <2> QED BY <2>2, <2>4, FunctionIsSeq
<1> QED BY <1>18, <1>23

ElementRecords == [key : DOMAIN HashOf, position : Nat, number : Int]

LEMMA ElementsType ==
  ASSUME NEW input \in Inputs
  PROVE  Elements(input) \in Seq(ElementRecords)
<1> DEFINE part(k) == LET fArr == flatArray(input[k].value)
                      IN  [i \in DOMAIN fArr |-> [key |-> input[k].key, position |-> i - 1,
                                                  number |-> fArr[i]]]
           parts == [k \in DOMAIN input |-> part(k)]
<1>1. input \in Seq([key : DOMAIN HashOf, value : Values])
  BY WitnessAssumption
<1>2. DOMAIN input = 1..Len(input) /\ Len(input) \in Nat
  BY <1>1
<1>3. ASSUME NEW k \in 1..Len(input) PROVE part(k) \in Seq(ElementRecords)
  <2> DEFINE fArr == flatArray(input[k].value)
             key == input[k].key
  <2>1. input[k] \in [key : DOMAIN HashOf, value : Values]
    BY <1>1, ElementOfSeq
  <2>2. key \in DOMAIN HashOf /\ fArr \in Seq(Int)
    BY <2>1, FlatArrayType
  <2>3. part(k) = [i \in DOMAIN fArr |-> [key |-> key, position |-> i - 1, number |-> fArr[i]]]
    OBVIOUS
  <2> HIDE DEF fArr, key
  <2>4. DOMAIN fArr = 1..Len(fArr) /\ Len(fArr) \in Nat
    BY <2>2
  <2>5. \A i \in 1..Len(fArr) : fArr[i] \in Int /\ i - 1 \in Nat
    BY <2>2
  <2>6. part(k) \in [1..Len(fArr) -> ElementRecords]
    BY <2>2, <2>3, <2>4, <2>5 DEF ElementRecords
  <2> HIDE DEF part
  <2> QED BY <2>4, <2>6, FunctionIsSeq
<1> HIDE DEF part
<1>4. parts \in [1..Len(input) -> Seq(ElementRecords)]
  BY <1>2, <1>3
<1>5. parts \in Seq(Seq(ElementRecords))
  BY <1>2, <1>4, FunctionIsSeq
<1>6. Elements(input) = FlattenSeq(parts)
  BY DEF Elements, part
<1> QED BY <1>5, <1>6, FlattenType

-----------------------------------------------------------------------------
(* Setting the elements of an input one after the other. *)

Position(e) == <<e.key, e.position>>

LEMMA InputSignalsAre ==
  \A s \in InputSignals : s = <<s[1], s[2]>> /\ s[1] \in DOMAIN Signals
BY DEF InputSignals

IsInstance(inst) == DOMAIN inst = {"set", "asserting", "witness", "failed"}

\* f with value v at x.
Extended(f, x, v) == [y \in {x} \cup DOMAIN f |-> IF y = x THEN v ELSE f[y]]

\* One element set in an instance that has not failed.
LEMMA SetStep ==
  ASSUME NEW inst, IsInstance(inst), NEW e \in ElementRecords, e.number \in FieldNumbers,
         NEW next, next = SetInputSignal(inst, fnvHash(e.key), e.position,
                                         SubSeq(toArray32(e.number, n32), 1, n32))
  PROVE  /\ IsInstance(next) /\ next.asserting = inst.asserting
         /\ Position(e) \in InputSignals \ DOMAIN inst.set =>
               LET set == Extended(inst.set, Position(e), e.number % Prime)
               IN  /\ next.set = set
                   /\ next.witness = IF DOMAIN set = InputSignals THEN Witness(set)
                                     ELSE inst.witness
                   /\ next.failed = (DOMAIN set = InputSignals /\ inst.asserting
                                     /\ ~ Asserts(set))
         /\ ~ (Position(e) \in InputSignals \ DOMAIN inst.set) => next.failed = TRUE
<1> DEFINE hash == fnvHash(e.key)
           words == SubSeq(toArray32(e.number, n32), 1, n32)
           found == {<<s, e.position>> : s \in SignalOf(hash)} \cap InputSignals
           ok == found # {} /\ found \cap DOMAIN inst.set = {}
           input == CHOOSE x \in found : TRUE
           set == Extended(inst.set, input, Stored(words) % Prime)
           runs == DOMAIN set = InputSignals
<1>1. next = IF ~ ok THEN [inst EXCEPT !.failed = TRUE]
             ELSE [inst EXCEPT !.set = set,
                               !.witness = IF runs THEN Witness(set) ELSE @,
                               !.failed = runs /\ inst.asserting /\ ~ Asserts(set)]
  BY DEF SetInputSignal, Extended
<1>2. SignalOf(hash) = {e.key} \cap DOMAIN Signals
  BY SignalIs DEF ElementRecords
<1>3. found = {Position(e)} \cap InputSignals
  BY <1>2, InputSignalsAre DEF Position
<1>4. Stored(words) = e.number
  BY StoredIs
<1> HIDE DEF hash, words, found
<1>5. ok <=> Position(e) \in InputSignals \ DOMAIN inst.set
  BY <1>3
<1>6. ok => input = Position(e)
  BY <1>3
<1> HIDE DEF ok, input
<1>7. CASE ok
  <2>1. set = Extended(inst.set, Position(e), e.number % Prime)
    BY <1>4, <1>6, <1>7
  <2> HIDE DEF set
  <2>2. next = [inst EXCEPT !.set = set,
                            !.witness = IF runs THEN Witness(set) ELSE @,
                            !.failed = runs /\ inst.asserting /\ ~ Asserts(set)]
    BY <1>1, <1>7
  <2>3. /\ DOMAIN next = DOMAIN inst /\ next.asserting = inst.asserting
        /\ next.set = set /\ next.witness = IF runs THEN Witness(set) ELSE inst.witness
        /\ next.failed = (runs /\ inst.asserting /\ ~ Asserts(set))
    BY <2>2 DEF IsInstance
  <2> QED BY <1>5, <1>7, <2>1, <2>3 DEF IsInstance
<1>8. CASE ~ ok
  <2>1. next = [inst EXCEPT !.failed = TRUE]
    BY <1>1, <1>8
  <2>2. /\ DOMAIN next = DOMAIN inst /\ next.asserting = inst.asserting
        /\ next.failed = TRUE
    BY <2>1 DEF IsInstance
  <2> QED BY <1>5, <1>8, <2>2 DEF IsInstance
<1> QED BY <1>7, <1>8

SetOneOf(inst, e) ==
    IF inst.failed THEN inst
    ELSE SetInputSignal(inst, fnvHash(e.key), e.position,
                        SubSeq(toArray32(e.number, n32), 1, n32))

\* after is the recursive function that DoCalculateWitness chooses.
AreSteps(after, es, first) ==
    after = [i \in 0..Len(es) |-> IF i = 0 THEN first ELSE SetOneOf(after[i - 1], es[i])]

LEMMA StepsExist ==
  ASSUME NEW es \in Seq(ElementRecords), NEW first
  PROVE  \E after : AreSteps(after, es, first)
<1> DEFINE L == Len(es)
           Are(f, n) == /\ f = [i \in 0..n |-> f[i]]
                        /\ \A i \in 0..n :
                              f[i] = IF i = 0 THEN first ELSE SetOneOf(f[i - 1], es[i])
           Good == {n \in Nat : \E f : Are(f, n)}
<1>1. 0 \in Good
  <2> DEFINE f == [i \in 0..0 |-> first]
  <2>1. Are(f, 0)
    OBVIOUS
  <2> HIDE DEF Are
  <2> QED BY <2>1
<1>2. ASSUME NEW n \in Nat, n \in Good PROVE n + 1 \in Good
  <2>1. PICK f : Are(f, n)
    BY <1>2
  <2> DEFINE top == SetOneOf(f[n], es[n + 1])
             g == [i \in 0..(n + 1) |-> IF i = n + 1 THEN top ELSE f[i]]
  <2>2. g = [i \in 0..(n + 1) |-> g[i]] /\ g[n + 1] = top /\ \A i \in 0..n : g[i] = f[i]
    <3> HIDE DEF top
    <3> QED OBVIOUS
  <2> HIDE DEF g
  <2>3. \A i \in 0..(n + 1) : g[i] = IF i = 0 THEN first ELSE SetOneOf(g[i - 1], es[i])
    <3> TAKE i \in 0..(n + 1)
    <3>1. CASE i = 0
      <4>1. 0 \in 0..n
        OBVIOUS
      <4> QED BY <2>1, <2>2, <3>1, <4>1
    <3>2. CASE i = n + 1
      <4>1. i - 1 = n /\ n \in 0..n /\ i # 0
        BY <3>2
      <4> QED BY <2>2, <3>2, <4>1
    <3>3. CASE i # 0 /\ i # n + 1
      <4>1. i \in 0..n /\ i - 1 \in 0..n
        BY <3>3
      <4>2. g[i] = f[i] /\ g[i - 1] = f[i - 1]
        BY <2>2, <4>1
      <4> QED BY <2>1, <3>3, <4>1, <4>2
    <3> QED BY <3>1, <3>2, <3>3
  <2>4. Are(g, n + 1)
    BY <2>2, <2>3
  <2> HIDE DEF Are
  <2> QED BY <2>4
<1>3. L \in Good
  <2>1. L \in Nat
    OBVIOUS
  <2> HIDE DEF Good, L
  <2> QED BY <1>1, <1>2, <2>1, Induction
<1>4. PICK f : Are(f, L)
  BY <1>3
<1>5. AreSteps(f, es, first)
  BY <1>4 DEF AreSteps
<1> QED BY <1>5

\* The first n elements are different inputs; Chosen are those, and f their values.
Different(es, n) ==
    /\ \A i \in 1..n : Position(es[i]) \in InputSignals
    /\ \A i, j \in 1..n : Position(es[i]) = Position(es[j]) => i = j
Chosen(es, n) == {Position(es[i]) : i \in 1..n}
Sets(f, es, n) ==
    /\ f = [s \in Chosen(es, n) |-> f[s]]
    /\ \A i \in 1..n : f[Position(es[i])] = es[i].number % Prime

\* The instance after n elements: without failure, they are different inputs, and set;
\* if they are all the inputs, the assertions hold and the witness is theirs.
IsAfter(inst, es, n) ==
    /\ IsInstance(inst) /\ inst.asserting = TRUE /\ inst.failed \in BOOLEAN
    /\ ~ inst.failed =>
          /\ Different(es, n) /\ Sets(inst.set, es, n)
          /\ Chosen(es, n) = InputSignals =>
                Asserts(inst.set) /\ inst.witness = Witness(inst.set)
    /\ inst.failed /\ Different(es, n) =>
          /\ Chosen(es, n) = InputSignals /\ Sets(inst.set, es, n)
          /\ ~ Asserts(inst.set)

LEMMA AfterNone ==
  ASSUME NEW es PROVE IsAfter(Cleared(TRUE), es, 0)
<1>1. \A i \in 1..0 : FALSE
  OBVIOUS
<1>2. Chosen(es, 0) = {}
  BY <1>1 DEF Chosen
<1>3. Chosen(es, 0) # InputSignals
  BY <1>2, WitnessAssumption
<1> DEFINE inst == Cleared(TRUE)
<1>4. /\ DOMAIN inst = {"set", "asserting", "witness", "failed"}
      /\ inst.asserting = TRUE /\ inst.failed = FALSE /\ inst.set = <<>>
  BY DEF Cleared
<1> HIDE DEF inst
<1>5. Sets(inst.set, es, 0)
  BY <1>1, <1>2, <1>4 DEF Sets
<1>6. Different(es, 0)
  BY <1>1 DEF Different
<1> QED BY <1>3, <1>4, <1>5, <1>6 DEF IsAfter, IsInstance, inst

LEMMA AfterStep ==
  ASSUME NEW es \in Seq(ElementRecords), NEW n \in Nat, n + 1 <= Len(es),
         es[n + 1].number \in FieldNumbers, NEW inst, IsAfter(inst, es, n)
  PROVE  IsAfter(SetOneOf(inst, es[n + 1]), es, n + 1)
<1> DEFINE e == es[n + 1]
           p == Position(e)
           next == SetOneOf(inst, e)
<1>1. e \in ElementRecords
  <2>1. n + 1 \in 1..Len(es)
    OBVIOUS
  <2> QED BY <2>1, ElementOfSeq
<1>2. /\ 1..(n + 1) = 1..n \cup {n + 1} /\ n + 1 \notin 1..n
  OBVIOUS
<1>3. Chosen(es, n + 1) = Chosen(es, n) \cup {p}
  BY <1>2 DEF Chosen
<1>4. Different(es, n + 1) <=> /\ Different(es, n)
                               /\ p \in InputSignals /\ p \notin Chosen(es, n)
  <2>1. ASSUME Different(es, n + 1)
        PROVE  Different(es, n) /\ p \in InputSignals /\ p \notin Chosen(es, n)
    BY <1>2, <2>1 DEF Different, Chosen
  <2>2. ASSUME Different(es, n), p \in InputSignals, p \notin Chosen(es, n)
        PROVE  Different(es, n + 1)
    <3>1. \A i \in 1..n : Position(es[i]) # p
      BY <2>2 DEF Chosen
    <3> QED BY <1>2, <2>2, <3>1 DEF Different
  <2> QED BY <2>1, <2>2
<1>5. CASE inst.failed
  <2>1. next = inst
    BY <1>5 DEF SetOneOf
  <2>2. ~ Different(es, n + 1)
    BY <1>4, <1>5 DEF IsAfter
  <2> QED BY <1>5, <2>1, <2>2 DEF IsAfter
<1>6. CASE ~ inst.failed
  <2> DEFINE f == inst.set
             set == Extended(f, p, e.number % Prime)
             free == p \in InputSignals \ DOMAIN f
  <2>1. /\ IsInstance(inst) /\ inst.asserting = TRUE
        /\ Different(es, n) /\ Sets(f, es, n)
    BY <1>6 DEF IsAfter
  <2>2. DOMAIN f = Chosen(es, n)
    BY <2>1 DEF Sets
  <2>3. next = SetInputSignal(inst, fnvHash(e.key), e.position,
                              SubSeq(toArray32(e.number, n32), 1, n32))
    BY <1>6 DEF SetOneOf
  <2> HIDE DEF e, next, p
  <2>4. e.number \in FieldNumbers
    BY DEF e
  <2>5. /\ IsInstance(next) /\ next.asserting = TRUE
        /\ free => /\ next.set = set
                   /\ next.witness = IF DOMAIN set = InputSignals THEN Witness(set)
                                     ELSE inst.witness
                   /\ next.failed = (DOMAIN set = InputSignals /\ inst.asserting
                                     /\ ~ Asserts(set))
        /\ ~ free => next.failed = TRUE
    BY <1>1, <2>1, <2>3, <2>4, SetStep DEF p
  <2>6. free <=> Different(es, n + 1)
    BY <1>4, <2>1, <2>2
  <2>7. CASE free
    <3> DEFINE v == e.number % Prime
    <3>0. /\ set = [x \in {p} \cup DOMAIN f |-> set[x]] /\ set[p] = v
          /\ \A x \in DOMAIN f : x # p => set[x] = f[x]
      BY DEF Extended
    <3> HIDE DEF set
    <3>1. DOMAIN set = Chosen(es, n + 1)
      BY <1>3, <2>2, <3>0
    <3>2. Sets(set, es, n + 1)
      <4>1. set = [s \in Chosen(es, n + 1) |-> set[s]]
        BY <1>3, <2>2, <3>0
      <4>2. set[p] = e.number % Prime
        BY <3>0
      <4>3. \A i \in 1..n : set[Position(es[i])] = es[i].number % Prime
        <5> TAKE i \in 1..n
        <5>1. Position(es[i]) \in Chosen(es, n) /\ f[Position(es[i])] = es[i].number % Prime
          BY <2>1 DEF Chosen, Sets
        <5>2. Position(es[i]) # p
          BY <2>2, <2>7, <5>1
        <5> QED BY <2>2, <3>0, <5>1, <5>2
      <4>4. \A i \in 1..(n + 1) : set[Position(es[i])] = es[i].number % Prime
        BY <1>2, <4>2, <4>3 DEF p, e
      <4> QED BY <4>1, <4>4 DEF Sets
    <3>3. /\ next.set = set
          /\ next.witness = IF Chosen(es, n + 1) = InputSignals THEN Witness(set)
                            ELSE inst.witness
          /\ next.failed = (Chosen(es, n + 1) = InputSignals /\ ~ Asserts(set))
      BY <2>1, <2>5, <2>7, <3>1 DEF set
    <3> QED BY <2>5, <2>6, <2>7, <3>2, <3>3 DEF IsAfter, next, e
  <2>8. CASE ~ free
    BY <2>5, <2>6, <2>8 DEF IsAfter, next, e
  <2> QED BY <2>7, <2>8
<1>7. inst.failed \in BOOLEAN
  BY DEF IsAfter
<1> QED BY <1>5, <1>6

\* That an input object fits, in terms of the order in which it is set.
LEMMA FitsIs ==
  ASSUME NEW input \in Inputs
  PROVE  LET es == Elements(input)
             n == Len(es)
         IN  /\ Fits(input) <=> Different(es, n) /\ Chosen(es, n) = InputSignals
             /\ \A f : Fits(input) /\ Sets(f, es, n) => f = Assignment(input)
<1> DEFINE es == Elements(input)
           n == Len(es)
           G(s) == Given(input, s[1], s[2])
<1>1. es \in Seq(ElementRecords) /\ n \in Nat /\ DOMAIN es = 1..n
  BY ElementsType
<1>2. \A s \in InputSignals : G(s) = {i \in 1..n : Position(es[i]) = s}
  <2> TAKE s \in InputSignals
  <2>1. s = <<s[1], s[2]>>
    BY InputSignalsAre
  <2>2. \A i \in 1..n : Position(es[i]) = s <=> es[i].key = s[1] /\ es[i].position = s[2]
    <3> HIDE DEF es, n
    <3> QED BY <2>1 DEF Position
  <2> QED BY <1>1, <2>2 DEF Given
<1>3. \A s \in InputSignals : IsFiniteSet(G(s))
  <2>1. IsFiniteSet(1..n)
    BY <1>1, FS_Interval
  <2>2. \A s \in InputSignals : G(s) \in SUBSET (1..n)
    BY <1>2
  <2> HIDE DEF G, n
  <2> QED BY <2>1, <2>2, FS_Subset
<1>4. Fits(input) <=> /\ \A i \in 1..n : Position(es[i]) \in InputSignals
                      /\ \A s \in InputSignals : Cardinality(G(s)) = 1
  BY <1>1 DEF Fits, Position
<1>5. Assignment(input)
        = [s \in InputSignals |-> es[CHOOSE i \in G(s) : TRUE].number % Prime]
  BY DEF Assignment
<1> HIDE DEF es, n, G
<1>6. ASSUME Fits(input) PROVE Different(es, n) /\ Chosen(es, n) = InputSignals
  <2>1. \A s \in InputSignals : \E i : G(s) = {i}
    <3> TAKE s \in InputSignals
    <3>1. Cardinality(G(s)) = 1 /\ IsFiniteSet(G(s))
      BY <1>3, <1>4, <1>6
    <3> QED BY <3>1, FS_Singleton
  <2>2. ASSUME NEW i \in 1..n, NEW j \in 1..n, Position(es[i]) = Position(es[j])
        PROVE  i = j
    <3>1. Position(es[i]) \in InputSignals
      BY <1>4, <1>6
    <3>2. i \in G(Position(es[i])) /\ j \in G(Position(es[i]))
      BY <1>2, <2>2, <3>1
    <3> QED BY <2>1, <3>1, <3>2
  <2>3. ASSUME NEW s \in InputSignals PROVE s \in Chosen(es, n)
    <3>1. PICK i : G(s) = {i}
      BY <2>1
    <3>2. i \in 1..n /\ Position(es[i]) = s
      BY <1>2, <3>1
    <3> QED BY <3>2 DEF Chosen
  <2>4. Different(es, n) /\ Chosen(es, n) \subseteq InputSignals
    BY <1>4, <1>6, <2>2 DEF Different, Chosen
  <2> QED BY <2>3, <2>4
<1>7. ASSUME Different(es, n), Chosen(es, n) = InputSignals PROVE Fits(input)
  <2>1. ASSUME NEW s \in InputSignals PROVE Cardinality(G(s)) = 1
    <3>1. PICK i \in 1..n : s = Position(es[i])
      BY <1>7 DEF Chosen
    <3>2. G(s) = {i}
      BY <1>2, <1>7, <3>1 DEF Different
    <3> QED BY <3>2, FS_Singleton
  <2>2. \A i \in 1..n : Position(es[i]) \in InputSignals
    BY <1>7 DEF Different
  <2> QED BY <1>4, <2>1, <2>2
<1>8. ASSUME NEW f, Fits(input), Sets(f, es, n) PROVE f = Assignment(input)
  <2>1. f = [s \in InputSignals |-> f[s]]
    BY <1>6, <1>8 DEF Sets
  <2>2. ASSUME NEW s \in InputSignals
        PROVE  f[s] = es[CHOOSE i \in G(s) : TRUE].number % Prime
    <3> DEFINE i == CHOOSE i \in G(s) : TRUE
    <3>1. s \in Chosen(es, n)
      BY <1>6, <1>8
    <3>2. \E j : j \in G(s)
      BY <1>2, <3>1 DEF Chosen
    <3>3. i \in G(s)
      BY <3>2
    <3> HIDE DEF i
    <3>4. i \in 1..n /\ Position(es[i]) = s
      BY <1>2, <3>3
    <3>5. f[s] = es[i].number % Prime
      BY <1>8, <3>4 DEF Sets
    <3> QED BY <3>5 DEF i
  <2> QED BY <1>5, <2>1, <2>2
<1> QED BY <1>6, <1>7, <1>8 DEF es, n

\* What _doCalculateWitness leaves: it fails exactly if the input is not valid, and
\* otherwise the witness is that of the input.
LEMMA DoCalculateWitnessIs ==
  ASSUME NEW input \in Inputs, InRange(input), NEW sanityCheck
  PROVE  LET last == DoCalculateWitness(input, sanityCheck)
         IN  /\ last.failed <=> ~ Valid(input)
             /\ Valid(input) => last.witness = Witness(Assignment(input))
<1> DEFINE es == Elements(input)
           n == Len(es)
           first == InstanceInit(Asserting(sanityCheck))
           after == CHOOSE a : AreSteps(a, es, first)
           last == after[n]
           NotAllSet == Cardinality(DOMAIN last.set) < Cardinality(InputSignals)
           result == DoCalculateWitness(input, sanityCheck)
<1>1. es \in Seq(ElementRecords) /\ n \in Nat /\ DOMAIN es = 1..n
  BY ElementsType
<1>2. \A i \in 1..n : es[i].number \in FieldNumbers
  BY <1>1 DEF InRange
<1>3. /\ Fits(input) <=> Different(es, n) /\ Chosen(es, n) = InputSignals
      /\ \A f : Fits(input) /\ Sets(f, es, n) => f = Assignment(input)
  BY FitsIs
<1>4. AreSteps(after, es, first)
  <2> HIDE DEF es, first
  <2> QED BY <1>1, StepsExist
<1>5. result = [last EXCEPT !.failed = @ \/ NotAllSet]
  BY Zenon DEF DoCalculateWitness, AreSteps, SetOneOf
<1> HIDE DEF es, after, result
<1>6. \A i \in 0..n : after[i] = IF i = 0 THEN first ELSE SetOneOf(after[i - 1], es[i])
  BY <1>4 DEF AreSteps
<1>7. first = Cleared(TRUE)
  BY DEF InstanceInit, Asserting
<1> HIDE DEF first, n
<1> DEFINE Good == {i \in Nat : i <= n => IsAfter(after[i], es, i)}
<1>8. 0 \in Good
  <2>1. 0 \in 0..n
    BY <1>1
  <2>2. after[0] = Cleared(TRUE)
    BY <1>6, <1>7, <2>1
  <2> QED BY <2>2, AfterNone
<1>9. ASSUME NEW i \in Nat, i \in Good PROVE i + 1 \in Good
  <2> SUFFICES ASSUME i + 1 <= n PROVE IsAfter(after[i + 1], es, i + 1)
    OBVIOUS
  <2>1. i + 1 \in 0..n /\ i + 1 \in 1..n /\ i + 1 # 0 /\ (i + 1) - 1 = i /\ i <= n
    BY <1>1
  <2>2. after[i + 1] = SetOneOf(after[i], es[i + 1])
    BY <1>6, <2>1
  <2>3. IsAfter(after[i], es, i) /\ es[i + 1].number \in FieldNumbers
    BY <1>2, <1>9, <2>1
  <2> QED BY <1>1, <2>1, <2>2, <2>3, AfterStep DEF n
<1>10. IsAfter(last, es, n)
  <2>1. n \in Good
    <3> HIDE DEF Good
    <3> QED BY <1>1, <1>8, <1>9, Induction
  <2> QED BY <1>1, <2>1
<1> HIDE DEF last
<1>11. result.failed = (last.failed \/ NotAllSet) /\ result.witness = last.witness
  <2> HIDE DEF NotAllSet
  <2> QED BY <1>5, <1>10 DEF IsAfter, IsInstance
<1>12. Valid(input) <=> Fits(input) /\ Asserts(Assignment(input))
  BY DEF Valid
<1>13. CASE last.failed
  <2>1. ~ Valid(input)
    <3> SUFFICES ASSUME Valid(input) PROVE FALSE
      OBVIOUS
    <3>1. Sets(last.set, es, n) /\ ~ Asserts(last.set)
      BY <1>3, <1>10, <1>12, <1>13 DEF IsAfter
    <3> QED BY <1>3, <1>12, <3>1
  <2> QED BY <1>11, <1>13, <2>1 DEF result
<1>14. CASE ~ last.failed
  <2>1. Different(es, n) /\ Sets(last.set, es, n)
    BY <1>10, <1>14 DEF IsAfter
  <2>2. DOMAIN last.set = Chosen(es, n) /\ Chosen(es, n) \subseteq InputSignals
    BY <2>1 DEF Sets, Different, Chosen
  <2>3. NotAllSet <=> Chosen(es, n) # InputSignals
    <3>1. IsFiniteSet(InputSignals)
      BY WitnessAssumption
    <3>2. /\ IsFiniteSet(Chosen(es, n))
          /\ Cardinality(Chosen(es, n)) <= Cardinality(InputSignals)
          /\ Cardinality(InputSignals) = Cardinality(Chosen(es, n)) =>
                InputSignals = Chosen(es, n)
      BY <2>2, <3>1, FS_Subset
    <3>3. Cardinality(InputSignals) \in Nat /\ Cardinality(Chosen(es, n)) \in Nat
      BY <3>1, <3>2, FS_CardinalityType
    <3> QED BY <2>2, <3>2, <3>3
  <2> HIDE DEF NotAllSet
  <2>4. CASE Chosen(es, n) = InputSignals
    <3>1. Asserts(last.set) /\ last.witness = Witness(last.set)
      BY <1>10, <1>14, <2>4 DEF IsAfter
    <3>2. Fits(input) /\ last.set = Assignment(input)
      BY <1>3, <2>1, <2>4
    <3> QED BY <1>11, <1>12, <1>14, <2>3, <2>4, <3>1, <3>2 DEF result
  <2>5. CASE Chosen(es, n) # InputSignals
    BY <1>3, <1>11, <1>12, <2>3, <2>5 DEF result
  <2> QED BY <2>4, <2>5
<1> QED BY <1>13, <1>14

-----------------------------------------------------------------------------
(* The forms in which a witness is returned. *)

LEMMA EndOfConcat ==
  ASSUME NEW S, NEW s \in Seq(S), NEW t \in Seq(S), Len(t) # 0
  PROVE  SubSeq(s \o t, Len(s) + 1, Len(s) + Len(t)) = t
<1> DEFINE m == Len(s) + 1
           n == Len(s) + Len(t)
<1>1. /\ m \in (Len(s) + 1)..(Len(s) + Len(t)) /\ n \in (Len(s) + 1)..(Len(s) + Len(t))
      /\ m - Len(s) = 1 /\ n - Len(s) = Len(t)
  OBVIOUS
<1> HIDE DEF m, n
<1>2. SubSeq(s \o t, m, n) = SubSeq(t, m - Len(s), n - Len(s))
  BY <1>1, SubSeqOfConcat2
<1> QED BY <1>1, <1>2, SubSeqFull DEF m, n

\* Pieces of one length, one after the other.
LEMMA PiecesOf ==
  ASSUME NEW S, NEW n \in Nat \ {0}, NEW ss \in Seq(Seq(S)),
         \A i \in 1..Len(ss) : Len(ss[i]) = n
  PROVE  /\ FlattenSeq(ss) \in Seq(S) /\ Len(FlattenSeq(ss)) = Len(ss) * n
         /\ \A i \in 1..Len(ss) :
               /\ (i - 1) * n + 1 \in 1..Len(FlattenSeq(ss))
               /\ (i - 1) * n + n \in 1..Len(FlattenSeq(ss))
               /\ SubSeq(FlattenSeq(ss), (i - 1) * n + 1, (i - 1) * n + n) = ss[i]
<1> DEFINE Pieces == {s \in Seq(S) : Len(s) = n}
           In(i, l) == (i - 1) * n + 1 \in 1..l /\ (i - 1) * n + n \in 1..l
           Piece(all, i) == SubSeq(all, (i - 1) * n + 1, (i - 1) * n + n)
           Is(t) == /\ FlattenSeq(t) \in Seq(S) /\ Len(FlattenSeq(t)) = Len(t) * n
                    /\ \A i \in 1..Len(t) : Piece(FlattenSeq(t), i) = t[i]
           P == {t \in Seq(Pieces) : Is(t)}
<1>1. Pieces \subseteq Seq(S) /\ Seq(Pieces) \subseteq Seq(Seq(S))
  <2>1. Pieces \subseteq Seq(S)
    OBVIOUS
  <2> HIDE DEF Pieces
  <2> QED BY <2>1, SeqMonotonic
<1>2. \A l \in Nat : \A i \in 1..l : In(i, l * n)
  <2> TAKE l \in Nat
  <2> TAKE i \in 1..l
  <2>1. (i - 1) * n >= 0 /\ (i - 1) * n \in Int
    OBVIOUS
  <2>2. (i - 1) * n + n = i * n /\ i * n <= l * n /\ i * n \in Int /\ l * n \in Int
    OBVIOUS
  <2> DEFINE a == (i - 1) * n
             b == i * n
             c == l * n
  <2>3. a \in Int /\ a >= 0 /\ a + n = b /\ b <= c /\ b \in Int /\ c \in Int
    BY <2>1, <2>2
  <2> HIDE DEF a, b, c
  <2>4. a + 1 \in 1..c /\ a + n \in 1..c
    BY <2>3
  <2> QED BY <2>4 DEF a, b, c
<1>3. <<>> \in P
  <2>1. Is(<<>>)
    <3>1. <<>> \in Seq(S) /\ Len(<<>>) = 0 /\ 0 * n = 0 /\ \A i \in 1..0 : FALSE
      BY EmptySeq
    <3>2. FlattenSeq(<<>>) = <<>>
      BY FlattenEmpty
    <3> HIDE DEF Piece
    <3> QED BY <3>1, <3>2
  <2> HIDE DEF Is, Pieces
  <2> QED BY <2>1, EmptySeq
<1>4. ASSUME NEW t \in Seq(Pieces), NEW e \in Pieces, t \in P PROVE Append(t, e) \in P
  <2> DEFINE l == Len(t)
             f == FlattenSeq(t)
             u == Append(t, e)
  <2>1. /\ t \in Seq(Seq(S)) /\ e \in Seq(S) /\ Len(e) = n /\ l \in Nat
        /\ f \in Seq(S) /\ Len(f) = l * n /\ \A i \in 1..l : Piece(f, i) = t[i]
    BY <1>1, <1>4
  <2>2. FlattenSeq(u) = f \o e
    BY <2>1, FlattenAppend
  <2>3. /\ u \in Seq(Pieces) /\ Len(u) = l + 1 /\ u[l + 1] = e /\ \A i \in 1..l : u[i] = t[i]
    <3> HIDE DEF Pieces
    <3> QED BY AppendProperties
  <2> HIDE DEF u, f, l
  <2>4. f \o e \in Seq(S) /\ Len(f \o e) = (l + 1) * n /\ l * n \in Nat
    <3>1. f \o e \in Seq(S) /\ Len(f \o e) = l * n + n
      <4>1. f \in Seq(S) /\ e \in Seq(S)
        BY <2>1
      <4>2. f \o e \in Seq(S) /\ Len(f \o e) = Len(f) + Len(e)
        BY <4>1, ConcatProperties
      <4> QED BY <2>1, <4>2
    <3>2. l * n + n = (l + 1) * n /\ l * n \in Nat
      BY <2>1
    <3> QED BY <3>1, <3>2
  <2>5. ASSUME NEW i \in 1..l PROVE Piece(f \o e, i) = t[i]
    <3> DEFINE a == (i - 1) * n + 1
               b == (i - 1) * n + n
    <3>1. a \in 1..Len(f) /\ b \in 1..Len(f)
      BY <1>2, <2>1
    <3> HIDE DEF a, b
    <3>2. SubSeq(f \o e, a, b) = SubSeq(f, a, b)
      BY <2>1, <3>1, SubSeqOfConcat1
    <3> QED BY <2>1, <3>2 DEF a, b
  <2>6. Piece(f \o e, l + 1) = e
    <3> DEFINE k == Len(f)
    <3>1. (l + 1) - 1 = l /\ k \in Nat /\ k = l * n /\ Len(e) = n
      BY <2>1, <2>4
    <3> HIDE DEF k
    <3>2. f \in Seq(S) /\ e \in Seq(S) /\ Len(e) # 0
      BY <2>1
    <3>3. SubSeq(f \o e, k + 1, k + n) = e
      BY <3>1, <3>2, EndOfConcat DEF k
    <3> QED BY <3>1, <3>3
  <2> HIDE DEF Piece
  <2>7. \A i \in 1..(l + 1) : Piece(f \o e, i) = u[i]
    <3>1. 1..(l + 1) = 1..l \cup {l + 1}
      BY <2>1
    <3> QED BY <2>3, <2>5, <2>6, <3>1
  <2>8. Is(u)
    BY <2>2, <2>3, <2>4, <2>7
  <2> HIDE DEF Is
  <2> QED BY <2>3, <2>8 DEF u
<1>5. ss \in Seq(Pieces)
  <2>1. \A i \in 1..Len(ss) : ss[i] \in Pieces
    OBVIOUS
  <2>2. Len(ss) \in Nat /\ ss = [i \in 1..Len(ss) |-> ss[i]]
    OBVIOUS
  <2> HIDE DEF Pieces
  <2>3. ss \in [1..Len(ss) -> Pieces]
    BY <2>1, <2>2
  <2> QED BY <2>2, <2>3, FunctionIsSeq
<1>6. Is(ss)
  <2> HIDE DEF P
  <2>1. Seq(Pieces) \subseteq P
    BY <1>3, <1>4, AppendInduction
  <2>2. ss \in P
    BY <1>5, <2>1
  <2> QED BY <2>2 DEF P
<1>7. Len(ss) \in Nat
  OBVIOUS
<1> QED BY <1>2, <1>6, <1>7

\* An instance with a witness in the circuit's field.
HasWitness == instance.witness \in [1..witnessSize -> 0..(Prime - 1)]

LEMMA WitnessNumbers ==
  ASSUME HasWitness
  PROVE  /\ witnessSize \in Nat \ {0} /\ Prime \in FieldNumbers
         /\ \A i \in 1..witnessSize : instance.witness[i] \in FieldNumbers
<1>1. Prime \in FieldNumbers /\ witnessSize \in Nat \ {0}
  BY WitnessAssumption
<1>2. \A i \in 1..witnessSize : instance.witness[i] \in 0..(Prime - 1)
  BY DEF HasWitness
<1>3. \A x \in 0..(Prime - 1) : x \in FieldNumbers
  BY <1>1, Sizes DEF FieldNumbers
<1> QED BY <1>1, <1>2, <1>3

\* The words of a number as they are read, least significant first.
LEMMA LowWordsOf ==
  ASSUME NEW number \in FieldNumbers
  PROVE  LET words == Reverse(toArray32(number, n32))
         IN  /\ words \in Seq(Int) /\ Len(words) = n32
             /\ fromArray32(Reverse(words)) = number
<1> DEFINE S == 0..(Radix - 1)
           ds == toArray32(number, n32)
<1>1. ds \in Seq(S) /\ Len(ds) = n32 /\ fromArray32(ds) = number
  BY WordsOf
<1>2. S \subseteq Int
  OBVIOUS
<1> HIDE DEF S, ds
<1>3. ds \in Seq(Int)
  BY <1>1, <1>2, SeqMonotonic
<1>4. Reverse(ds) \in Seq(Int) /\ Len(Reverse(ds)) = n32 /\ Reverse(Reverse(ds)) = ds
  BY <1>1, <1>3, ReverseOf
<1> QED BY <1>1, <1>4 DEF ds

LEMMA CalculateWitnessIs ==
  ASSUME HasWitness PROVE calculateWitness = instance.witness
<1>1. \A i \in 1..witnessSize : fromArray32(Reverse(WitnessWords(i))) = instance.witness[i]
  BY WitnessNumbers, LowWordsOf DEF WitnessWords
<1>2. calculateWitness = [i \in 1..witnessSize |-> instance.witness[i]]
  BY <1>1 DEF calculateWitness
<1> QED BY <1>2 DEF HasWitness

\* The words of the witness: those of each element where a reader looks for them.
LEMMA AllWordsAre ==
  ASSUME HasWitness
  PROVE  /\ AllWords \in Seq(Int) /\ Len(AllWords) = witnessSize * n32
         /\ \A i \in 1..witnessSize :
               /\ (i - 1) * n32 + 1 \in 1..Len(AllWords)
               /\ (i - 1) * n32 + n32 \in 1..Len(AllWords)
               /\ SubSeq(AllWords, (i - 1) * n32 + 1, (i - 1) * n32 + n32) = WitnessWords(i)
<1> DEFINE ss == [i \in 1..witnessSize |-> WitnessWords(i)]
<1>1. \A i \in 1..witnessSize : WitnessWords(i) \in Seq(Int) /\ Len(WitnessWords(i)) = n32
  BY WitnessNumbers, LowWordsOf DEF WitnessWords
<1>2. witnessSize \in Nat /\ n32 \in Nat \ {0}
  BY WitnessNumbers, Sizes
<1>3. ss \in [1..witnessSize -> Seq(Int)] /\ \A i \in 1..witnessSize : ss[i] = WitnessWords(i)
  BY <1>1
<1>4. AllWords = FlattenSeq(ss)
  BY DEF AllWords
<1> HIDE DEF ss
<1>5. ss \in Seq(Seq(Int)) /\ Len(ss) = witnessSize
  BY <1>2, <1>3, FunctionIsSeq
<1>6. \A i \in 1..Len(ss) : Len(ss[i]) = n32
  BY <1>1, <1>3, <1>5
<1>7. /\ FlattenSeq(ss) \in Seq(Int) /\ Len(FlattenSeq(ss)) = Len(ss) * n32
      /\ \A i \in 1..Len(ss) :
            /\ (i - 1) * n32 + 1 \in 1..Len(FlattenSeq(ss))
            /\ (i - 1) * n32 + n32 \in 1..Len(FlattenSeq(ss))
            /\ SubSeq(FlattenSeq(ss), (i - 1) * n32 + 1, (i - 1) * n32 + n32) = ss[i]
  BY <1>2, <1>5, <1>6, PiecesOf
<1> QED BY <1>3, <1>4, <1>5, <1>7

\* What a reader finds at a place of a file.
LEMMA WordsAt ==
  ASSUME NEW number \in FieldNumbers, NEW file, NEW from \in Int,
         SubSeq(file, from, from + (n32 - 1)) = Reverse(toArray32(number, n32))
  PROVE  Words(file, from) = number
<1>1. from + n32 - 1 = from + (n32 - 1)
  BY Sizes
<1> QED BY <1>1, LowWordsOf DEF Words

LEMMA Quotients ==
  ASSUME NEW n \in Nat \ {0}, NEW m \in Nat
  PROVE  (m * n) \div n = m
<1> DEFINE q == (m * n) \div n
           r == (m * n) % n
<1>1. q \in Int /\ r \in 0..(n - 1) /\ m * n = n * q + r
  OBVIOUS
<1> HIDE DEF q, r
<1>2. ~ (q < m)
  <2> SUFFICES ASSUME q <= m - 1 PROVE FALSE
    BY <1>1
  <2>1. n * q <= n * (m - 1) /\ n * (m - 1) = m * n - n
    BY <1>1
  <2> QED BY <1>1, <2>1
<1>3. ~ (q > m)
  <2> SUFFICES ASSUME q >= m + 1 PROVE FALSE
    BY <1>1
  <2>1. n * q >= n * (m + 1) /\ n * (m + 1) = m * n + n
    BY <1>1
  <2> QED BY <1>1, <2>1
<1> QED BY <1>1, <1>2, <1>3 DEF q

LEMMA BinWitnessIs ==
  ASSUME HasWitness
  PROVE  Denoted("calculateBinWitness", AllWords) = instance.witness
<1>1. witnessSize \in Nat \ {0} /\ n32 \in Nat \ {0}
  BY WitnessNumbers, Sizes
<1>2. Len(AllWords) \div n32 = witnessSize
  BY <1>1, AllWordsAre, Quotients
<1>3. ASSUME NEW i \in 1..witnessSize
      PROVE  Words(AllWords, (i - 1) * n32 + 1) = instance.witness[i]
  <2> DEFINE a == (i - 1) * n32
  <2>1. a \in Int
    BY <1>1
  <2>2. SubSeq(AllWords, a + 1, a + n32) = WitnessWords(i)
    BY AllWordsAre
  <2> HIDE DEF a
  <2>3. (a + 1) + (n32 - 1) = a + n32 /\ a + 1 \in Int
    BY <1>1, <2>1
  <2>4. instance.witness[i] \in FieldNumbers
    BY WitnessNumbers
  <2> QED BY <2>2, <2>3, <2>4, WordsAt DEF WitnessWords, a
<1>4. Denoted("calculateBinWitness", AllWords)
        = [i \in 1..witnessSize |-> Words(AllWords, (i - 1) * n32 + 1)]
  BY <1>2 DEF Denoted
<1>5. instance.witness = [i \in 1..witnessSize |-> instance.witness[i]]
  BY DEF HasWitness
<1> QED BY <1>3, <1>4, <1>5

LEMMA SmallerIs ==
  ASSUME NEW a \in Int, NEW b \in Int PROVE Min({a, b}) = IF a <= b THEN a ELSE b
<1> DEFINE least == IF a <= b THEN a ELSE b
<1>1. least \in {a, b} /\ \A y \in {a, b} : least <= y
  OBVIOUS
<1>2. \A x \in {a, b} : (\A y \in {a, b} : x <= y) => x = least
  OBVIOUS
<1>3. Min({a, b}) = CHOOSE x \in {a, b} : \A y \in {a, b} : x <= y
  BY DEF Min
<1> HIDE DEF least
<1> QED BY <1>1, <1>2, <1>3 DEF least

\* A length of one word is the first of the two words, and the second is 0.
LEMMA LengthWordsAre ==
  ASSUME NEW length \in Nat, length < Radix PROVE LengthWords(length) = <<length, 0>>
<1> DEFINE hex == Digits(HexBase, length)
           k == HexPerWord
           Slice(from, to) == SubSeq(hex, from, Min({to, Len(hex)}))
           Hex == 0..(HexBase - 1)
<1>1. HexBase \in Nat \ {0, 1} /\ k \in Nat \ {0} /\ length < Power(HexBase, k)
  BY Sizes DEF Radix
<1>2. hex \in Seq(Hex) /\ Number(HexBase, hex) = length /\ Len(hex) <= k
  <2> HIDE DEF k
  <2> QED BY <1>1, DigitsOf
<1> HIDE DEF hex, Hex
<1>3. Len(hex) \in Nat
  BY <1>2
<1>4. Min({k, Len(hex)}) = Len(hex)
  <2> HIDE DEF k
  <2> QED BY <1>1, <1>2, <1>3, SmallerIs
<1>5. Min({2 * k, Len(hex)}) = Len(hex)
  <2>1. 2 * k \in Int /\ Len(hex) <= 2 * k
    BY <1>1, <1>2, <1>3
  <2> HIDE DEF k
  <2> QED BY <1>3, <2>1, SmallerIs
<1>6. Slice(1, k) = hex
  BY <1>2, <1>4, SubSeqFull
<1>7. Slice(k + 1, 2 * k) = <<>>
  <2>1. k + 1 \in Int /\ Len(hex) \in Int /\ Len(hex) < k + 1
    BY <1>1, <1>2, <1>3
  <2> HIDE DEF k
  <2> QED BY <1>5, <2>1, SubSeqEmpty
<1>8. LengthWords(length)
        = <<Number(HexBase, Slice(1, k)), Number(HexBase, Slice(k + 1, 2 * k))>>
  BY DEF LengthWords, hex
<1>9. Number(HexBase, <<>>) = 0
  BY <1>1, NumberOfNone
<1> HIDE DEF Slice
<1> QED BY <1>2, <1>6, <1>7, <1>8, <1>9

\* The file's two headers, put together.
LEMMA HeadIs ==
  ASSUME NEW S, NEW a \in S, NEW b \in S, NEW c \in S, NEW d \in S, NEW e \in S,
         NEW f \in S, NEW g \in S
  PROVE  <<a, b, c>> \o <<d>> \o <<e, f>> \o <<g>> = <<a, b, c, d, e, f, g>>
<1>1. <<a, b, c>> \o <<d>> = <<a, b, c, d>>
  <2> DEFINE s == <<a, b, c>> \o <<d>>
             t == <<a, b, c, d>>
  <2>1. s \in Seq(S) /\ Len(s) = 4 /\ t \in Seq(S) /\ Len(t) = 4
    OBVIOUS
  <2>2. \A i \in 1..4 : s[i] = t[i]
    OBVIOUS
  <2> HIDE DEF s, t
  <2>3. s = t
    BY <2>1, <2>2, SeqEqual
  <2> QED BY <2>3 DEF s, t
<1>2. <<a, b, c, d>> \o <<e, f>> = <<a, b, c, d, e, f>>
  <2> DEFINE s == <<a, b, c, d>> \o <<e, f>>
             t == <<a, b, c, d, e, f>>
  <2>1. s \in Seq(S) /\ Len(s) = 6 /\ t \in Seq(S) /\ Len(t) = 6
    OBVIOUS
  <2>2. \A i \in 1..6 : s[i] = t[i]
    OBVIOUS
  <2> HIDE DEF s, t
  <2>3. s = t
    BY <2>1, <2>2, SeqEqual
  <2> QED BY <2>3 DEF s, t
<1>3. <<a, b, c, d, e, f>> \o <<g>> = <<a, b, c, d, e, f, g>>
  <2> DEFINE s == <<a, b, c, d, e, f>> \o <<g>>
             t == <<a, b, c, d, e, f, g>>
  <2>1. s \in Seq(S) /\ Len(s) = 7 /\ t \in Seq(S) /\ Len(t) = 7
    OBVIOUS
  <2>2. \A i \in 1..7 : s[i] = t[i]
    OBVIOUS
  <2> HIDE DEF s, t
  <2>3. s = t
    BY <2>1, <2>2, SeqEqual
  <2> QED BY <2>3 DEF s, t
<1> QED BY <1>1, <1>2, <1>3

LEMMA TailIs ==
  ASSUME NEW S, NEW a \in S, NEW b \in S, NEW c \in S, NEW d \in S
  PROVE  <<a>> \o <<b>> \o <<c, d>> = <<a, b, c, d>>
<1>1. <<a>> \o <<b>> = <<a, b>>
  <2> DEFINE s == <<a>> \o <<b>>
             t == <<a, b>>
  <2>1. s \in Seq(S) /\ Len(s) = 2 /\ t \in Seq(S) /\ Len(t) = 2
    OBVIOUS
  <2>2. \A i \in 1..2 : s[i] = t[i]
    OBVIOUS
  <2> HIDE DEF s, t
  <2>3. s = t
    BY <2>1, <2>2, SeqEqual
  <2> QED BY <2>3 DEF s, t
<1>2. <<a, b>> \o <<c, d>> = <<a, b, c, d>>
  <2> DEFINE s == <<a, b>> \o <<c, d>>
             t == <<a, b, c, d>>
  <2>1. s \in Seq(S) /\ Len(s) = 4 /\ t \in Seq(S) /\ Len(t) = 4
    OBVIOUS
  <2>2. \A i \in 1..4 : s[i] = t[i]
    OBVIOUS
  <2> HIDE DEF s, t
  <2>3. s = t
    BY <2>1, <2>2, SeqEqual
  <2> QED BY <2>3 DEF s, t
<1> QED BY <1>1, <1>2

\* Where the parts of a .wtns file are.
LEMMA FileIs ==
  ASSUME HasWitness
  PROVE  LET file == calculateWTNSBin
         IN  /\ SubSeq(file, 8, 7 + n32) = Reverse(toArray32(Prime, n32))
             /\ file[5] = SectionLength1 /\ file[6] = 0
             /\ file[10 + n32] = SectionLength2 /\ file[11 + n32] = 0
             /\ \A a, b \in 1..Len(AllWords) :
                   SubSeq(file, (11 + n32) + a, (11 + n32) + b) = SubSeq(AllWords, a, b)
<1> DEFINE S == {"wtns"} \cup Int
           l1 == SectionLength1
           l2 == SectionLength2
           head == <<"wtns", 2, 2>> \o <<1>> \o <<l1, 0>> \o <<n8>>
           prime == Reverse(toArray32(Prime, n32))
           tail == <<witnessSize>> \o <<2>> \o <<l2, 0>>
           start == head \o prime
           front == start \o tail
           file == front \o AllWords
<1>1. /\ n32 \in Nat \ {0} /\ witnessSize \in Nat \ {0}
      /\ n8 = 4 * n32 /\ l1 = 8 + 4 * n32 /\ l2 = 4 * n32 * witnessSize
  <2>1. n32 \in Nat \ {0} /\ witnessSize \in Nat \ {0}
    BY Sizes, WitnessNumbers
  <2>2. n8 = 4 * n32
    BY <2>1 DEF n8, BytesPerWord
  <2> QED BY <2>1, <2>2 DEF SectionLength1, SectionLength2
<1>2. l1 \in Nat /\ l2 \in Nat /\ n8 \in Nat /\ l1 < Radix /\ l2 < Radix
  <2>1. 4 * n32 * witnessSize < Radix /\ 8 + 4 * n32 < Radix
    BY WitnessAssumption
  <2>2. 4 * n32 \in Nat /\ \A x \in Nat : x * witnessSize \in Nat
    BY <1>1
  <2> QED BY <1>1, <2>1, <2>2
<1> HIDE DEF l1, l2
<1>3. LengthWords(l1) = <<l1, 0>> /\ LengthWords(l2) = <<l2, 0>>
  BY <1>2, LengthWordsAre
<1>4. prime \in Seq(S) /\ Len(prime) = n32 /\ AllWords \in Seq(S)
  <2>1. prime \in Seq(Int) /\ Len(prime) = n32 /\ AllWords \in Seq(Int)
    BY WitnessNumbers, LowWordsOf, AllWordsAre
  <2>2. Int \subseteq S
    OBVIOUS
  <2> HIDE DEF S, prime
  <2> QED BY <2>1, <2>2, SeqMonotonic
<1> HIDE DEF prime
<1>5. head = <<"wtns", 2, 2, 1, l1, 0, n8>> /\ tail = <<witnessSize, 2, l2, 0>>
  <2>1. /\ "wtns" \in S /\ 2 \in S /\ 1 \in S /\ 0 \in S
        /\ l1 \in S /\ l2 \in S /\ n8 \in S /\ witnessSize \in S
    BY <1>1, <1>2
  <2> HIDE DEF S
  <2> QED BY <2>1, HeadIs, TailIs
<1>6. calculateWTNSBin = file
  <2> DEFINE b == start \o <<witnessSize>>
             c == b \o <<2>>
  <2>1. /\ start \in Seq(S) /\ <<witnessSize>> \in Seq(S) /\ <<2>> \in Seq(S)
        /\ <<l2, 0>> \in Seq(S)
    <3>1. head \in Seq(S)
      BY <1>1, <1>2, <1>5
    <3>2. start \in Seq(S)
      <4> HIDE DEF head, S
      <4> QED BY <1>4, <3>1, ConcatProperties
    <3> QED BY <1>1, <1>2, <3>2
  <2>2. (c \o <<l2, 0>>) = front
    <3> HIDE DEF S, start
    <3>1. <<witnessSize>> \o <<2>> \in Seq(S)
      BY <2>1, ConcatProperties
    <3>2. c = start \o (<<witnessSize>> \o <<2>>)
      BY <2>1, ConcatAssociative
    <3> DEFINE d == <<witnessSize>> \o <<2>>
               e == <<l2, 0>>
    <3>3. c = start \o d /\ d \in Seq(S) /\ e \in Seq(S) /\ tail = d \o e
      BY <2>1, <3>1, <3>2
    <3> HIDE DEF c, d, e, tail
    <3>4. (start \o d) \o e = start \o (d \o e)
      BY <2>1, <3>3, ConcatAssociative
    <3> QED BY <3>3, <3>4 DEF e
  <2>3. calculateWTNSBin = (c \o <<l2, 0>>) \o AllWords
    BY <1>3 DEF calculateWTNSBin, l1, l2, prime
  <2> QED BY <2>2, <2>3
<1>7. /\ head \in Seq(S) /\ Len(head) = 7 /\ head[5] = l1 /\ head[6] = 0
      /\ tail \in Seq(S) /\ Len(tail) = 4 /\ tail[3] = l2 /\ tail[4] = 0
  BY <1>1, <1>2, <1>5
<1> HIDE DEF head, tail, S
<1>8. start \in Seq(S) /\ Len(start) = 7 + n32
  <2>1. start \in Seq(S) /\ Len(start) = Len(head) + Len(prime)
    BY <1>4, <1>7, ConcatProperties
  <2> HIDE DEF start
  <2> QED BY <1>1, <1>4, <1>7, <2>1
<1> HIDE DEF start
<1>9. front \in Seq(S) /\ Len(front) = 11 + n32
  <2>1. front \in Seq(S) /\ Len(front) = Len(start) + Len(tail)
    BY <1>7, <1>8, ConcatProperties
  <2> HIDE DEF front
  <2> QED BY <1>1, <1>7, <1>8, <2>1
<1> HIDE DEF front
<1>10. \A i \in 1..(11 + n32) : file[i] = front[i]
  BY <1>1, <1>4, <1>9, ConcatProperties
<1>11. \A i \in 1..(7 + n32) : front[i] = start[i]
  BY <1>1, <1>7, <1>8, ConcatProperties DEF front
<1>12. \A i \in 1..4 : front[(7 + n32) + i] = tail[i]
  <2> TAKE i \in 1..4
  <2> DEFINE m == (7 + n32) + i
  <2>1. /\ m \in 1..(Len(start) + Len(tail)) /\ ~ (m <= Len(start)) /\ m - Len(start) = i
    BY <1>1, <1>7, <1>8
  <2> HIDE DEF m
  <2>2. (start \o tail)[m] = tail[m - Len(start)]
    BY <1>7, <1>8, <2>1, ConcatProperties
  <2> QED BY <2>1, <2>2 DEF m, front
<1>13. \A i \in 1..7 : start[i] = head[i]
  <2> TAKE i \in 1..7
  <2>1. i \in 1..(Len(head) + Len(prime)) /\ i <= Len(head)
    BY <1>1, <1>4, <1>7
  <2>2. (head \o prime)[i] = head[i]
    BY <1>4, <1>7, <2>1, ConcatProperties
  <2> QED BY <2>2 DEF start
<1>14. file[5] = l1 /\ file[6] = 0
  <2>1. /\ 5 \in 1..7 /\ 6 \in 1..7 /\ 5 \in 1..(7 + n32) /\ 6 \in 1..(7 + n32)
        /\ 5 \in 1..(11 + n32) /\ 6 \in 1..(11 + n32)
    BY <1>1
  <2> HIDE DEF file
  <2> QED BY <1>7, <1>10, <1>11, <1>13, <2>1
<1>15. file[10 + n32] = l2 /\ file[11 + n32] = 0
  <2>1. /\ 10 + n32 = (7 + n32) + 3 /\ 11 + n32 = (7 + n32) + 4 /\ 3 \in 1..4 /\ 4 \in 1..4
        /\ 10 + n32 \in 1..(11 + n32) /\ 11 + n32 \in 1..(11 + n32)
    BY <1>1
  <2>2. front[(7 + n32) + 3] = l2 /\ front[(7 + n32) + 4] = 0
    BY <1>7, <1>12, <2>1
  <2> HIDE DEF file
  <2> QED BY <1>10, <2>1, <2>2
<1>16. SubSeq(file, 8, 7 + n32) = prime
  <2>1. /\ 8 \in 1..(7 + n32) /\ 7 + n32 \in 1..(7 + n32)
        /\ 8 \in 1..(11 + n32) /\ 7 + n32 \in 1..(11 + n32)
    BY <1>1
  <2>2. SubSeq(file, 8, 7 + n32) = SubSeq(front, 8, 7 + n32)
    BY <1>4, <1>9, <2>1, SubSeqOfConcat1
  <2>3. SubSeq(front, 8, 7 + n32) = SubSeq(start, 8, 7 + n32)
    BY <1>7, <1>8, <2>1, SubSeqOfConcat1 DEF front
  <2>4. SubSeq(head \o prime, Len(head) + 1, Len(head) + Len(prime)) = prime
    BY <1>1, <1>4, <1>7, EndOfConcat
  <2>5. Len(head) + 1 = 8 /\ Len(head) + Len(prime) = 7 + n32
    BY <1>4, <1>7
  <2> QED BY <2>2, <2>3, <2>4, <2>5 DEF start
<1>17. \A a, b \in 1..Len(AllWords) :
          SubSeq(file, (11 + n32) + a, (11 + n32) + b) = SubSeq(AllWords, a, b)
  <2> TAKE a, b \in 1..Len(AllWords)
  <2> DEFINE m == (11 + n32) + a
             n == (11 + n32) + b
  <2>1. /\ m \in (Len(front) + 1)..(Len(front) + Len(AllWords))
        /\ n \in (Len(front) + 1)..(Len(front) + Len(AllWords))
        /\ m - Len(front) = a /\ n - Len(front) = b
    <3>1. Len(AllWords) \in Nat
      BY <1>4
    <3> QED BY <1>1, <1>9, <3>1
  <2> HIDE DEF m, n
  <2>2. SubSeq(front \o AllWords, m, n) = SubSeq(AllWords, m - Len(front), n - Len(front))
    BY <1>4, <1>9, <2>1, SubSeqOfConcat2
  <2> QED BY <2>1, <2>2 DEF m, n
<1> QED BY <1>6, <1>14, <1>15, <1>16, <1>17 DEF prime, l1, l2

\* A reader of the file finds the prime and the witness.
LEMMA WTNSBinIs ==
  ASSUME HasWitness
  PROVE  /\ Denoted("calculateWTNSBin", calculateWTNSBin) = instance.witness
         /\ ReadPrime(calculateWTNSBin) = Prime
<1> DEFINE file == calculateWTNSBin
<1>1. witnessSize \in Nat \ {0} /\ n32 \in Nat \ {0} /\ Radix \in Nat
  BY WitnessNumbers, Sizes
<1>2. /\ SubSeq(file, 8, 7 + n32) = Reverse(toArray32(Prime, n32))
      /\ file[5] = SectionLength1 /\ file[6] = 0
      /\ file[10 + n32] = SectionLength2 /\ file[11 + n32] = 0
      /\ \A a, b \in 1..Len(AllWords) :
            SubSeq(file, (11 + n32) + a, (11 + n32) + b) = SubSeq(AllWords, a, b)
  BY FileIs
<1> HIDE DEF file
<1>3. ReadPrime(file) = Prime
  <2>1. 8 + (n32 - 1) = 7 + n32 /\ 8 \in Int
    BY <1>1
  <2>2. SubSeq(file, 8, 8 + (n32 - 1)) = Reverse(toArray32(Prime, n32))
    BY <1>2, <2>1
  <2>3. Prime \in FieldNumbers
    BY WitnessNumbers
  <2>4. Words(file, 8) = Prime
    BY <2>1, <2>2, <2>3, WordsAt
  <2> QED BY <2>4 DEF ReadPrime
<1>4. After1(file) = 8 + n32
  <2>1. 5 + 1 = 6 /\ Radix * 0 = 0 /\ SectionLength1 = (2 + n32) * 4 /\ 2 + n32 \in Nat
    BY <1>1 DEF SectionLength1, n8, BytesPerWord
  <2>2. FileLength(file, 5) = (2 + n32) * 4
    BY <1>2, <2>1 DEF FileLength
  <2>3. ((2 + n32) * 4) \div 4 = 2 + n32
    BY <2>1, Quotients
  <2>4. After1(file) = 6 + (2 + n32)
    BY <2>2, <2>3 DEF After1, BytesPerWord
  <2> QED BY <1>1, <2>4
<1>5. FileLength(file, After1(file) + 2) \div BytesPerWord = witnessSize * n32
  <2> DEFINE m == witnessSize * n32
  <2>1. (8 + n32) + 2 = 10 + n32 /\ (10 + n32) + 1 = 11 + n32 /\ Radix * 0 = 0
    BY <1>1
  <2>2. m \in Nat /\ SectionLength2 = m * 4
    BY <1>1 DEF SectionLength2, n8, BytesPerWord
  <2> HIDE DEF m
  <2>3. file[10 + n32] = m * 4 /\ file[11 + n32] = 0 /\ m * 4 + 0 = m * 4
    BY <1>2, <2>2
  <2>4. FileLength(file, After1(file) + 2) = m * 4
    BY <1>4, <2>1, <2>3 DEF FileLength
  <2>5. (m * 4) \div 4 = m
    BY <2>2, Quotients
  <2> QED BY <2>4, <2>5 DEF m, BytesPerWord
<1>6. (witnessSize * n32) \div n32 = witnessSize
  BY <1>1, Quotients
<1>7. After1(file) + 4 = 12 + n32
  BY <1>1, <1>4
<1>8. ReadWitness(file)
        = [i \in 1..witnessSize |-> Words(file, (12 + n32) + (i - 1) * n32)]
  BY <1>5, <1>6, <1>7 DEF ReadWitness
<1>9. ASSUME NEW i \in 1..witnessSize
      PROVE  Words(file, (12 + n32) + (i - 1) * n32) = instance.witness[i]
  <2> DEFINE a == (i - 1) * n32
             from == (12 + n32) + a
  <2>1. a \in Int
    BY <1>1
  <2>2. /\ a + 1 \in 1..Len(AllWords) /\ a + n32 \in 1..Len(AllWords)
        /\ SubSeq(AllWords, a + 1, a + n32) = WitnessWords(i)
    BY AllWordsAre
  <2> HIDE DEF a
  <2>3. SubSeq(file, (11 + n32) + (a + 1), (11 + n32) + (a + n32)) = WitnessWords(i)
    BY <1>2, <2>2
  <2>4. /\ (11 + n32) + (a + 1) = from /\ (11 + n32) + (a + n32) = from + (n32 - 1)
        /\ from \in Int
    BY <1>1, <2>1
  <2>5. instance.witness[i] \in FieldNumbers
    BY WitnessNumbers
  <2> HIDE DEF from
  <2>6. SubSeq(file, from, from + (n32 - 1)) = Reverse(toArray32(instance.witness[i], n32))
    BY <2>3, <2>4 DEF WitnessWords
  <2>7. Words(file, from) = instance.witness[i]
    BY <2>4, <2>5, <2>6, WordsAt
  <2> QED BY <2>7 DEF from, a
<1>10. ReadWitness(file) = instance.witness
  <2>1. instance.witness = [i \in 1..witnessSize |-> instance.witness[i]]
    BY DEF HasWitness
  <2> QED BY <1>8, <1>9, <2>1
<1>11. Denoted("calculateWTNSBin", file) = ReadWitness(file)
  BY DEF Denoted
<1> QED BY <1>3, <1>10, <1>11 DEF file

LEMMA ResultIs ==
  ASSUME HasWitness, NEW method \in Methods
  PROVE  /\ Denoted(method, Result(method)) = instance.witness
         /\ method = "calculateWTNSBin" => ReadPrime(Result(method)) = Prime
<1>1. CASE method = "calculateWitness"
  <2>1. Result(method) = calculateWitness
    BY <1>1 DEF Result
  <2>2. Denoted(method, Result(method)) = Result(method)
    BY <1>1 DEF Denoted
  <2> QED BY <1>1, <2>1, <2>2, CalculateWitnessIs
<1>2. CASE method = "calculateBinWitness"
  <2>1. Result(method) = AllWords
    BY <1>2 DEF Result
  <2> QED BY <1>2, <2>1, BinWitnessIs
<1>3. CASE method = "calculateWTNSBin"
  <2>1. Result(method) = calculateWTNSBin
    BY <1>3 DEF Result
  <2> QED BY <1>3, <2>1, WTNSBinIs
<1> QED BY <1>1, <1>2, <1>3 DEF Methods

-----------------------------------------------------------------------------
(* The calls. *)

\* What holds of a call in every state: its record is that of its method and input, and
\* - its promise is rejected exactly if the input is not valid;
\* - while it awaits and no other call has begun, the instance holds its witness;
\* - if none began during its await, what it returned denotes its witness.
CallInv(c) ==
    LET r == call[c]
    IN  r # NotMade =>
           /\ r.at \in {"rejected", "await", "resolved"} /\ r.method \in Methods
           /\ r.input \in Inputs
           /\ InRange(r.input) =>
                 /\ r.at = "rejected" <=> ~ Valid(r.input)
                 /\ r.at = "await" /\ c \notin overlapped =>
                       instance.witness = Witness(Assignment(r.input))
                 /\ r.at = "resolved" /\ c \notin overlapped =>
                       /\ Denoted(r.method, r.result) = Witness(Assignment(r.input))
                       /\ r.method = "calculateWTNSBin" => ReadPrime(r.result) = Prime

WitnessInv ==
    /\ DOMAIN call = Calls
    /\ \A c \in Calls : CallInv(c)

LEMMA NotMadeAt == NotMade.at \notin {"rejected", "await", "resolved"}
BY DEF NotMade

LEMMA WitnessInvInit == Init => WitnessInv
BY DEF Init, WitnessInv, CallInv

LEMMA WitnessInvNext == WitnessInv /\ [Next]_vars => WitnessInv'
<1> SUFFICES ASSUME WitnessInv, [Next]_vars PROVE WitnessInv'
  OBVIOUS
<1>1. CASE UNCHANGED vars
  BY <1>1 DEF WitnessInv, CallInv, vars, Denoted, ReadWitness, ReadPrime
<1>2. ASSUME NEW c \in Calls, NEW method \in Methods, NEW input \in Inputs,
             NEW sanityCheck \in BOOLEAN, Begin(c, method, input, sanityCheck)
      PROVE  WitnessInv'
  <2> DEFINE after == DoCalculateWitness(input, sanityCheck)
             r == [at |-> IF after.failed THEN "rejected" ELSE "await",
                   method |-> method, input |-> input]
  <2>1. /\ call[c] = NotMade /\ instance' = after /\ call' = [call EXCEPT ![c] = r]
        /\ overlapped' = overlapped \cup Waiting
    BY <1>2 DEF Begin
  <2>2. InRange(input) =>
           /\ after.failed <=> ~ Valid(input)
           /\ Valid(input) => after.witness = Witness(Assignment(input))
    BY DoCalculateWitnessIs
  <2> HIDE DEF after
  <2>3. DOMAIN call' = Calls /\ call'[c] = r /\ \A d \in Calls \ {c} : call'[d] = call[d]
    BY <2>1 DEF WitnessInv
  <2>4. CallInv(c)'
    <3>1. /\ r.at \in {"rejected", "await"} /\ r.method = method /\ r.input = input
          /\ r.at = "rejected" <=> after.failed
      OBVIOUS
    <3> HIDE DEF r
    <3> QED BY <2>1, <2>2, <2>3, <3>1 DEF CallInv
  <2>5. ASSUME NEW d \in Calls \ {c} PROVE CallInv(d)'
    <3>1. CallInv(d) /\ call'[d] = call[d]
      BY <2>3 DEF WitnessInv
    <3>2. call[d].at = "await" => d \in overlapped'
      BY <2>1 DEF Waiting
    <3>3. overlapped \subseteq overlapped'
      BY <2>1
    <3> QED BY <3>1, <3>2, <3>3 DEF CallInv
  <2> QED BY <2>3, <2>4, <2>5 DEF WitnessInv
<1>3. ASSUME NEW c \in Calls, Finish(c) PROVE WitnessInv'
  <2> DEFINE old == call[c]
             r == [at |-> "resolved", method |-> old.method, input |-> old.input,
                   result |-> Result(old.method)]
  <2>1. /\ old.at = "await" /\ call' = [call EXCEPT ![c] = r]
        /\ instance' = instance /\ overlapped' = overlapped
    BY <1>3 DEF Finish, Waiting
  <2>2. DOMAIN call' = Calls /\ call'[c] = r /\ \A d \in Calls \ {c} : call'[d] = call[d]
    BY <2>1 DEF WitnessInv
  <2>3. old # NotMade
    <3> HIDE DEF old
    <3> QED BY <2>1, NotMadeAt
  <2>4. /\ CallInv(c) /\ old.method \in Methods /\ old.input \in Inputs
        /\ InRange(old.input) => Valid(old.input)
        /\ InRange(old.input) /\ c \notin overlapped =>
              instance.witness = Witness(Assignment(old.input))
    BY <2>1, <2>3 DEF WitnessInv, CallInv
  <2>5. InRange(old.input) /\ c \notin overlapped =>
           /\ Denoted(old.method, Result(old.method)) = Witness(Assignment(old.input))
           /\ old.method = "calculateWTNSBin" => ReadPrime(Result(old.method)) = Prime
    <3> SUFFICES ASSUME InRange(old.input), c \notin overlapped
                 PROVE  /\ Denoted(old.method, Result(old.method))
                             = Witness(Assignment(old.input))
                        /\ old.method = "calculateWTNSBin" =>
                              ReadPrime(Result(old.method)) = Prime
      OBVIOUS
    <3>1. HasWitness
      <4>1. Fits(old.input)
        BY <2>4 DEF Valid
      <4>2. Witness(Assignment(old.input)) \in [1..witnessSize -> 0..(Prime - 1)]
        BY <2>4, <4>1, CircuitAssumption
      <4> QED BY <2>4, <4>2 DEF HasWitness
    <3> QED BY <2>4, <3>1, ResultIs
  <2>6. CallInv(c)'
    <3>1. /\ r.at = "resolved" /\ r.method = old.method /\ r.input = old.input
          /\ r.result = Result(old.method)
      OBVIOUS
    <3> HIDE DEF r, old
    <3> QED BY <2>1, <2>2, <2>4, <2>5, <3>1 DEF CallInv
  <2>7. ASSUME NEW d \in Calls \ {c} PROVE CallInv(d)'
    <3>1. CallInv(d) /\ call'[d] = call[d]
      BY <2>2 DEF WitnessInv
    <3> QED BY <2>1, <3>1 DEF CallInv
  <2> QED BY <2>2, <2>6, <2>7 DEF WitnessInv
<1> QED BY <1>1, <1>2, <1>3 DEF Next

\* A call is rejected exactly if its input does not fit the circuit, or fails one of its
\* assertions, whatever earlier calls have left in the instance.
THEOREM WitnessCalculatorRejects == Spec => []RejectedIfInvalid
<1>1. WitnessInv => RejectedIfInvalid
  BY DEF WitnessInv, CallInv, RejectedIfInvalid
<1> QED BY <1>1, WitnessInvInit, WitnessInvNext, PTL DEF Spec

\* A call that no other began during returns the witness of its own input, and the prime.
THEOREM WitnessCalculatorReturns == Spec => []OwnWitness
<1>1. WitnessInv => OwnWitness
  <2> SUFFICES ASSUME WitnessInv, NEW c \in Calls \ overlapped, call[c].at = "resolved",
                      InRange(call[c].input)
               PROVE  /\ Denoted(call[c].method, call[c].result)
                           = Witness(Assignment(call[c].input))
                      /\ call[c].method = "calculateWTNSBin" =>
                            ReadPrime(call[c].result) = Prime
    BY DEF OwnWitness
  <2>1. call[c] # NotMade
    BY NotMadeAt
  <2> QED BY <2>1 DEF WitnessInv, CallInv
<1> QED BY <1>1, WitnessInvInit, WitnessInvNext, PTL DEF Spec
=============================================================================
