-------------------------- MODULE FrontEnd_proofs --------------------------
(***************************************************************************)
(* Every token has its leaf whatever the receivers do, the root covers the *)
(* leaves up to the largest power of two and proves those whose pairs are  *)
(* sorted, and what the page shows errs on the known side: for any supply, *)
(* users, panels and number of calls.                                      *)
(***************************************************************************)
EXTENDS FrontEndProps, DataInduction, SequenceTheorems, TLAPS

-----------------------------------------------------------------------------
(* The levels of the tree. *)

\* L is the recursive function level of createTree(h).
IsLevels(L, h) ==
    L = [k \in 1..Len(h) |-> IF k = 1 THEN h ELSE NextLevel(L[k - 1])]

\* The function level of createTree exists, and the tree is the levels in a row.
LEMMA LevelsExist ==
  ASSUME NEW H, NEW h \in Seq(H)
  PROVE  \E L : IsLevels(L, h) /\ createTree(h) = FlattenSeq(L)
<1> DEFINE Is(L, n) == L = [k \in 1..n |-> IF k = 1 THEN h ELSE NextLevel(L[k - 1])]
           Good == {n \in Nat : \E L : Is(L, n)}
           chosen == CHOOSE L : IsLevels(L, h)
<1>1. 0 \in Good
  <2> DEFINE L == [k \in 1..0 |-> h]
  <2>1. Is(L, 0)
    OBVIOUS
  <2> HIDE DEF L, Is
  <2> QED BY <2>1
<1>2. ASSUME NEW n \in Nat, n \in Good PROVE n + 1 \in Good
  <2>1. PICK L : Is(L, n)
    BY <1>2
  <2> DEFINE M == [k \in 1..(n + 1) |-> IF k <= n THEN L[k] ELSE IF k = 1 THEN h ELSE NextLevel(L[k - 1])]
  <2>2. \A k \in 1..n : L[k] = IF k = 1 THEN h ELSE NextLevel(L[k - 1])
    BY <2>1
  <2>3. \A k \in 1..(n + 1) : k # 1 => k - 1 \in 1..n
    OBVIOUS
  <2>4. \A k \in 1..n : M[k] = L[k] /\ k \in 1..(n + 1)
    OBVIOUS
  <2>5. \A k \in 1..(n + 1) : M[k] = IF k = 1 THEN h ELSE NextLevel(L[k - 1])
    <3> TAKE k \in 1..(n + 1)
    <3>1. CASE k <= n
      <4>1. k \in 1..n
        BY <3>1
      <4> QED BY <2>2, <2>4, <4>1
    <3>2. CASE ~ (k <= n)
      BY <3>2
    <3> QED BY <3>1, <3>2
  <2>6. M = [k \in 1..(n + 1) |-> M[k]]
    OBVIOUS
  <2> HIDE DEF M
  <2>7. \A k \in 1..(n + 1) : M[k] = IF k = 1 THEN h ELSE NextLevel(M[k - 1])
    BY <2>3, <2>4, <2>5
  <2>8. Is(M, n + 1)
    BY <2>6, <2>7
  <2> HIDE DEF Is
  <2> QED BY <2>8
<1>3. Len(h) \in Good
  <2> HIDE DEF Good
  <2> QED BY <1>1, <1>2, Induction
<1>4. IsLevels(chosen, h)
  <2>1. \E L : IsLevels(L, h)
    BY <1>3 DEF IsLevels
  <2> QED BY <2>1
<1>5. createTree(h) = FlattenSeq([k \in 1..Len(h) |-> chosen[k]])
  BY Zenon DEF createTree, IsLevels
<1>6. chosen = [k \in 1..Len(h) |-> chosen[k]]
  <2> HIDE DEF chosen
  <2> QED BY <1>4 DEF IsLevels
<1> HIDE DEF chosen
<1> QED BY <1>4, <1>5, <1>6, Zenon

\* A list is one over its own elements.
LEMMA ListOfRange ==
  ASSUME NEW n \in Nat, NEW V, NEW s \in [1..n -> V]
  PROVE  Len(s) = n /\ s \in Seq(Range(s))
<1> DEFINE W == Range(s)
<1>1. s \in [1..n -> W]
  BY DEF Range
<1> HIDE DEF W
<1>2. s \in Seq(W) /\ Len(s) = n
  BY <1>1
<1> QED BY <1>2 DEF W

\* A number halved, rounded down.
LEMMA Halves ==
  \A n \in Nat : /\ n \div 2 \in Nat /\ 2 * (n \div 2) <= n /\ n <= 2 * (n \div 2) + 1
                 /\ \A i \in 1..(n \div 2) : 2 * i - 1 \in 1..n /\ 2 * i \in 1..n
  OBVIOUS

Nodes(L) == UNION {Range(L[k]) : k \in DOMAIN L}

\* Of n levels each has half of the nodes of the one below, over pairs of them.
Halving(L, n) ==
    \A k \in 1..n :
       /\ Len(L[k]) \in Nat
       /\ k + 1 \in 1..n =>
             /\ Len(L[k + 1]) = Len(L[k]) \div 2
             /\ \A i \in 1..Len(L[k + 1]) :
                   /\ 2 * i - 1 \in 1..Len(L[k]) /\ 2 * i \in 1..Len(L[k])
                   /\ L[k + 1][i] = Parent(L[k][2 * i - 1], L[k][2 * i])

\* The levels are lists, the first has the leaves, and each next one halves.
LEMMA LevelFacts ==
  ASSUME NEW H, NEW h \in Seq(H), NEW L, IsLevels(L, h)
  PROVE  /\ L \in Seq(Seq(Nodes(L))) /\ Len(L) = Len(h)
         /\ \A k \in 1..Len(h) : L[k] \in Seq(Nodes(L)) /\ Len(L[k]) \in Nat
         /\ Len(h) # 0 => L[1] = h
         /\ Halving(L, Len(h))
<1> DEFINE n == Len(h)
           Seqs(s) == Len(s) \in Nat /\ s \in Seq(Range(s))
           Good == {k \in Nat : k \in 1..n => Seqs(L[k])}
<1>1. n \in Nat /\ DOMAIN L = 1..n /\ \A k \in 1..n : L[k] = IF k = 1 THEN h ELSE NextLevel(L[k - 1])
  BY DEF IsLevels
<1>2. Seqs(h)
  <2>1. h \in [1..Len(h) -> H] /\ Len(h) \in Nat
    OBVIOUS
  <2>2. h \in Seq(Range(h))
    BY <2>1, ListOfRange
  <2> QED BY <2>1, <2>2
<1> HIDE DEF n
<1>3. ASSUME NEW s, Len(s) \in Nat
      PROVE  Seqs(NextLevel(s)) /\ Len(NextLevel(s)) = Len(s) \div 2
  <2> DEFINE t == NextLevel(s)
             m == Len(s) \div 2
             V == {Parent(s[2 * i - 1], s[2 * i]) : i \in 1..m}
  <2>1. m \in Nat
    BY <1>3, Halves
  <2>2. t \in [1..m -> V]
    BY DEF NextLevel
  <2> HIDE DEF t, m, V
  <2>3. t \in Seq(Range(t)) /\ Len(t) = m
    BY <2>1, <2>2, ListOfRange
  <2> QED BY <2>1, <2>3 DEF t, m
<1>4. 0 \in Good
  OBVIOUS
<1>5. ASSUME NEW k \in Nat, k \in Good PROVE k + 1 \in Good
  <2> SUFFICES ASSUME k + 1 \in 1..n PROVE Seqs(L[k + 1])
    OBVIOUS
  <2>1. CASE k = 0
    <3>1. L[k + 1] = h
      BY <1>1, <2>1
    <3> HIDE DEF Seqs
    <3> QED BY <1>2, <3>1
  <2>2. CASE k # 0
    <3>1. k \in 1..n /\ L[k + 1] = NextLevel(L[k])
      <4>1. k + 1 # 1 /\ (k + 1) - 1 = k /\ k \in 1..n
        BY <1>1, <2>2
      <4> QED BY <1>1, <4>1
    <3>2. Len(L[k]) \in Nat
      BY <1>5, <3>1
    <3> HIDE DEF Seqs
    <3> QED BY <1>3, <3>1, <3>2
  <2> QED BY <2>1, <2>2
<1>6. Nat \subseteq Good
  <2> HIDE DEF Good
  <2> QED BY <1>4, <1>5, Induction
<1>7. \A k \in 1..n : L[k] \in Seq(Nodes(L)) /\ Len(L[k]) \in Nat
  <2> TAKE k \in 1..n
  <2>1. Seqs(L[k])
    BY <1>6
  <2>2. Range(L[k]) \subseteq Nodes(L)
    BY <1>1 DEF Nodes
  <2> QED BY <2>1, <2>2
<1>8. L \in Seq(Seq(Nodes(L))) /\ Len(L) = n
  <2>1. L = [k \in 1..n |-> L[k]]
    BY DEF IsLevels, n
  <2>2. L \in [1..n -> Seq(Nodes(L))]
    BY <1>7, <2>1
  <2> QED BY <1>1, <2>2
<1>9. n # 0 => L[1] = h
  <2>1. n # 0 => 1 \in 1..n
    BY <1>1
  <2> QED BY <1>1, <2>1
<1>10. ASSUME NEW k \in 1..n, k + 1 \in 1..n
       PROVE  /\ Len(L[k + 1]) = Len(L[k]) \div 2
              /\ \A i \in 1..Len(L[k + 1]) :
                    /\ 2 * i - 1 \in 1..Len(L[k]) /\ 2 * i \in 1..Len(L[k])
                    /\ L[k + 1][i] = Parent(L[k][2 * i - 1], L[k][2 * i])
  <2>1. L[k + 1] = NextLevel(L[k]) /\ Len(L[k]) \in Nat
    <3>1. k + 1 # 1 /\ (k + 1) - 1 = k
      BY <1>1
    <3> QED BY <1>1, <1>7, <1>10, <3>1
  <2>2. Len(L[k + 1]) = Len(L[k]) \div 2
    BY <1>3, <2>1
  <2>3. \A i \in 1..(Len(L[k]) \div 2) :
           /\ 2 * i - 1 \in 1..Len(L[k]) /\ 2 * i \in 1..Len(L[k])
    BY <2>1, Halves
  <2>4. \A i \in 1..(Len(L[k]) \div 2) :
           NextLevel(L[k])[i] = Parent(L[k][2 * i - 1], L[k][2 * i])
    BY DEF NextLevel
  <2> QED BY <2>1, <2>2, <2>3, <2>4
<1>11. Halving(L, n)
  BY <1>7, <1>10 DEF Halving
<1> QED BY <1>7, <1>8, <1>9, <1>11 DEF n

\* With one leaf more every level is what it was, or longer by a node.
LEMMA LevelsGrow ==
  ASSUME NEW H, NEW h \in Seq(H), NEW x \in H, NEW L, IsLevels(L, h),
         NEW M, IsLevels(M, Append(h, x))
  PROVE  \A k \in 1..Len(h) :
            /\ k \in 1..Len(Append(h, x))
            /\ Len(L[k]) <= Len(M[k]) /\ \A i \in 1..Len(L[k]) : M[k][i] = L[k][i]
<1> DEFINE g == Append(h, x)
           n == Len(h)
           Good == {k \in Nat : k \in 1..n =>
                       /\ Len(L[k]) <= Len(M[k])
                       /\ \A i \in 1..Len(L[k]) : M[k][i] = L[k][i]}
<1>1. n \in Nat /\ g \in Seq(H) /\ Len(g) = n + 1 /\ \A i \in 1..n : g[i] = h[i]
  BY AppendProperties
<1>2. IsLevels(M, g)
  OBVIOUS
<1> HIDE DEF g
<1>3. Halving(L, n) /\ (n # 0 => L[1] = h)
  BY LevelFacts
<1>4. Halving(M, n + 1) /\ M[1] = g
  <2> HIDE DEF Good
  <2>1. Halving(M, Len(g)) /\ (Len(g) # 0 => M[1] = g)
    BY <1>1, <1>2, LevelFacts
  <2> QED BY <1>1, <2>1
<1> HIDE DEF n
<1>5. 0 \in Good
  OBVIOUS
<1>6. ASSUME NEW k \in Nat, k \in Good PROVE k + 1 \in Good
  <2> SUFFICES ASSUME k + 1 \in 1..n
               PROVE  /\ Len(L[k + 1]) <= Len(M[k + 1])
                      /\ \A i \in 1..Len(L[k + 1]) : M[k + 1][i] = L[k + 1][i]
    OBVIOUS
  <2>1. CASE k = 0
    <3>1. L[k + 1] = h /\ M[k + 1] = g /\ Len(h) = n /\ n <= n + 1
      BY <1>1, <1>3, <1>4, <2>1 DEF n
    <3> QED BY <1>1, <3>1
  <2>2. CASE k # 0
    <3>1. k \in 1..n /\ k \in 1..(n + 1) /\ k + 1 \in 1..(n + 1)
      BY <1>1, <2>2
    <3>2. Len(L[k]) <= Len(M[k]) /\ \A i \in 1..Len(L[k]) : M[k][i] = L[k][i]
      BY <1>6, <3>1
    <3>3. Len(L[k + 1]) = Len(L[k]) \div 2 /\ Len(M[k + 1]) = Len(M[k]) \div 2
      BY <1>3, <1>4, <3>1 DEF Halving
    <3>4. Len(L[k]) \in Nat /\ Len(M[k]) \in Nat
      BY <1>3, <1>4, <3>1 DEF Halving
    <3>5. Len(L[k + 1]) <= Len(M[k + 1])
      <4>1. \A a, b \in Nat : a <= b => a \div 2 <= b \div 2
        OBVIOUS
      <4> HIDE DEF Good
      <4> QED BY <3>2, <3>3, <3>4, <4>1
    <3>6. ASSUME NEW i \in 1..Len(L[k + 1]) PROVE M[k + 1][i] = L[k + 1][i]
      <4>1. /\ 2 * i - 1 \in 1..Len(L[k]) /\ 2 * i \in 1..Len(L[k])
            /\ L[k + 1][i] = Parent(L[k][2 * i - 1], L[k][2 * i])
        BY <1>3, <3>1 DEF Halving
      <4>2. i \in 1..Len(M[k + 1])
        <5>1. Len(L[k + 1]) \in Nat /\ Len(M[k + 1]) \in Nat
          BY <1>3, <1>4, <3>1 DEF Halving
        <5> HIDE DEF Good
        <5> QED BY <3>5, <5>1
      <4>3. M[k + 1][i] = Parent(M[k][2 * i - 1], M[k][2 * i])
        BY <1>4, <3>1, <4>2 DEF Halving
      <4> QED BY <3>2, <4>1, <4>3
    <3> QED BY <3>5, <3>6
  <2> QED BY <2>1, <2>2
<1>7. Nat \subseteq Good
  <2> HIDE DEF Good
  <2> QED BY <1>5, <1>6, Induction
<1>8. \A k \in 1..n : k \in 1..(n + 1)
  BY <1>1
<1> QED BY <1>1, <1>7, <1>8 DEF n, g

\* The hashes of the tree are those of its levels.
LEMMA TreeRange ==
  ASSUME NEW H, NEW h \in Seq(H), NEW L, IsLevels(L, h), createTree(h) = FlattenSeq(L), NEW x
  PROVE  x \in Range(createTree(h)) <=> \E k \in 1..Len(h) : \E i \in 1..Len(L[k]) : x = L[k][i]
<1>1. /\ L \in Seq(Seq(Nodes(L))) /\ Len(L) = Len(h)
      /\ \A k \in 1..Len(h) : L[k] \in Seq(Nodes(L))
  BY LevelFacts
<1>2. x \in Range(FlattenSeq(L)) <=> \E k \in 1..Len(L) : x \in Range(L[k])
  BY <1>1, FlattenRange
<1>3. \A k \in 1..Len(h) : x \in Range(L[k]) <=> \E i \in 1..Len(L[k]) : x = L[k][i]
  <2> TAKE k \in 1..Len(h)
  <2>1. DOMAIN L[k] = 1..Len(L[k])
    BY <1>1
  <2> QED BY <2>1 DEF Range
<1> QED BY <1>1, <1>2, <1>3

\* The tree loses nothing when a leaf is added, and does not become shorter.
LEMMA TreeGrows ==
  ASSUME NEW H, NEW h \in Seq(H), NEW x \in H
  PROVE  /\ Len(createTree(h)) \in Nat /\ Len(createTree(Append(h, x))) \in Nat
         /\ Len(createTree(h)) <= Len(createTree(Append(h, x)))
         /\ Range(createTree(h)) \subseteq Range(createTree(Append(h, x)))
<1> DEFINE g == Append(h, x)
           S == createTree(h)
           T == createTree(g)
<1>1. g \in Seq(H) /\ Len(g) = Len(h) + 1 /\ Len(h) \in Nat
  BY AppendProperties
<1>2. PICK L : IsLevels(L, h) /\ S = FlattenSeq(L)
  BY LevelsExist
<1>3. PICK M : IsLevels(M, g) /\ T = FlattenSeq(M)
  BY <1>1, LevelsExist
<1>4. \A k \in 1..Len(h) : /\ k \in 1..Len(g)
                           /\ Len(L[k]) <= Len(M[k])
                           /\ \A i \in 1..Len(L[k]) : M[k][i] = L[k][i]
  BY <1>2, <1>3, LevelsGrow
<1> HIDE DEF g
<1>5. /\ L \in Seq(Seq(Nodes(L))) /\ Len(L) = Len(h)
      /\ \A k \in 1..Len(h) : Len(L[k]) \in Nat
  BY <1>2, LevelFacts
<1>6. /\ M \in Seq(Seq(Nodes(M))) /\ Len(M) = Len(g)
      /\ \A k \in 1..Len(g) : Len(M[k]) \in Nat
  BY <1>1, <1>3, LevelFacts
<1>7. Len(S) \in Nat /\ Len(T) \in Nat
  <2>1. S \in Seq(Nodes(L)) /\ T \in Seq(Nodes(M))
    BY <1>2, <1>3, <1>5, <1>6, FlattenType
  <2> HIDE DEF S, T
  <2> QED BY <2>1
<1>8. Len(S) <= Len(T)
  <2>1. Len(L) <= Len(M)
    BY <1>1, <1>5, <1>6
  <2>2. Len(FlattenSeq(L)) <= Len(FlattenSeq(M))
    BY <1>4, <1>5, <1>6, <2>1, FlattenGrows
  <2> QED BY <1>2, <1>3, <2>2
<1>9. ASSUME NEW y \in Range(S) PROVE y \in Range(T)
  <2>0. PICK k \in 1..Len(h) : \E i \in 1..Len(L[k]) : y = L[k][i]
    BY <1>2, TreeRange
  <2>1. PICK i \in 1..Len(L[k]) : y = L[k][i]
    BY <2>0
  <2>2. k \in 1..Len(g) /\ i \in 1..Len(M[k]) /\ y = M[k][i]
    <3>1. k \in 1..Len(g) /\ Len(L[k]) <= Len(M[k]) /\ y = M[k][i]
      BY <1>4, <2>1
    <3>2. Len(L[k]) \in Nat /\ Len(M[k]) \in Nat
      BY <1>5, <1>6, <3>1
    <3> QED BY <2>1, <3>1, <3>2
  <2> QED BY <1>1, <1>3, <2>2, TreeRange
<1> QED BY <1>7, <1>8, <1>9 DEF g

-----------------------------------------------------------------------------
(* The contract's storage, now and at every moment an open mint may roll back to. *)

Data == [from : Users, receiver : Users, id : Ids, tokenURI : [json : URIs]]
Leaves == {Leaf(data) : data \in Data}
OnIds(S) == UNION {[D -> S] : D \in SUBSET Ids}

Storages == [tokenIds : 0..Supply, NFTsLeft : Int,
             readableURI : OnIds(URIs), leafData : OnIds(Data),
             hashes : Seq(Leaves), leaves : [Ids -> Leaves \cup {Zero}],
             tree : {createTree(h) : h \in Seq(Leaves)}]

Mints == [from : Users, receiver : Users, uri : URIs, id : Ids, before : Storages]

\* Storage c, when the mints of the ids open have not returned.
AllTaken(c, open) ==
    /\ open \cap DOMAIN c.leafData = {}
    /\ open \cup DOMAIN c.leafData = 0..(c.tokenIds - 1)

AllListed(readableURI, leafData, hashes, leaves) ==
    /\ DOMAIN readableURI = DOMAIN leafData
    /\ \A id \in DOMAIN leafData :
          /\ leaves[id] = Leaf(leafData[id])
          /\ leafData[id].id = id
          /\ leafData[id].tokenURI = tokenURI(readableURI[id])
          /\ \E i \in 1..Len(hashes) : hashes[i] = leaves[id]
    /\ \A i \in 1..Len(hashes) : \E id \in DOMAIN leafData : hashes[i] = leaves[id]
    /\ \A i, j \in 1..Len(hashes) : hashes[i] = hashes[j] => i = j
    /\ Len(hashes) = Cardinality(DOMAIN leafData)

Consistent(c, open) ==
    /\ AllTaken(c, open)
    /\ AllListed(c.readableURI, c.leafData, c.hashes, c.leaves)
    /\ c.NFTsLeft = Supply - Len(c.hashes)
    /\ c.tree = createTree(c.hashes)

\* Storage d is of a later moment than c, and nothing was rolled back in between.
Grows(c, d) ==
    /\ d.NFTsLeft <= c.NFTsLeft
    /\ Len(c.tree) <= Len(d.tree)
    /\ Range(c.tree) \subseteq Range(d.tree)

\* The storage c and the stack of open mints s: what storage the call k + 1 would be
\* rolled back to, and which mints waited then.
Before(c, s, k) == IF k = Len(s) THEN c ELSE s[k + 1].before
Open(s, k) == {s[i].id : i \in 1..k}

StackInv(c, s) ==
    /\ c \in Storages /\ s \in Seq(Mints)
    /\ \A i \in 1..Len(s) : s[i].id = s[i].before.tokenIds
    /\ \A k \in 0..Len(s) : Consistent(Before(c, s, k), Open(s, k))
    /\ \A i, j \in 0..Len(s) : i <= j => Grows(Before(c, s, i), Before(c, s, j))

NFTInv == StackInv(nft, calls)

\* The storage after the last whole transaction.
Mined == Before(nft, calls, 0)

\* The stored tree is a list.
LEMMA TreeIsList == ASSUME NEW c \in Storages PROVE \E V : c.tree \in Seq(V)
<1>1. PICK h \in Seq(Leaves) : c.tree = createTree(h)
  BY DEF Storages
<1>2. PICK L : IsLevels(L, h) /\ createTree(h) = FlattenSeq(L)
  BY LevelsExist
<1>3. L \in Seq(Seq(Nodes(L)))
  BY <1>2, LevelFacts
<1>4. createTree(h) \in Seq(Nodes(L))
  BY <1>2, <1>3, FlattenType
<1> QED BY <1>1, <1>4

\* Its length is a number.
LEMMA TreeLength == ASSUME NEW c \in Storages PROVE Len(c.tree) \in Nat
<1>1. PICK V : c.tree \in Seq(V)
  BY TreeIsList
<1> QED BY <1>1

\* A storage is no older than itself.
LEMMA GrowsItself == ASSUME NEW c \in Storages PROVE Grows(c, c)
<1>1. Len(c.tree) \in Nat /\ c.NFTsLeft \in Int
  BY TreeLength DEF Storages
<1> QED BY <1>1 DEF Grows

\* What grew twice grew.
LEMMA GrowsOn ==
  ASSUME NEW c \in Storages, NEW d \in Storages, NEW e \in Storages, Grows(c, d), Grows(d, e)
  PROVE  Grows(c, e)
<1>1. /\ Len(c.tree) \in Nat /\ Len(d.tree) \in Nat /\ Len(e.tree) \in Nat
      /\ c.NFTsLeft \in Int /\ d.NFTsLeft \in Int /\ e.NFTsLeft \in Int
  BY TreeLength DEF Storages
<1>2. Range(c.tree) \subseteq Range(e.tree)
  BY DEF Grows
<1> QED BY <1>1, <1>2 DEF Grows

\* The id is taken.
LEMMA TakeKeeps ==
  ASSUME NFTAssumption, NEW c \in Storages, NEW open, Consistent(c, open), c.tokenIds # Supply
  PROVE  LET d == [c EXCEPT !.tokenIds = @ + 1]
         IN  /\ d \in Storages /\ c.tokenIds \in Ids /\ c.tokenIds \notin open
             /\ Consistent(d, open \cup {c.tokenIds})
             /\ Grows(c, d)
<1> DEFINE d == [c EXCEPT !.tokenIds = @ + 1]
           id == c.tokenIds
<1>1. /\ id \in 0..Supply /\ id # Supply /\ Supply \in Nat \ {0} /\ Ids = 0..(Supply - 1)
  BY DEF Storages, NFTAssumption, Ids
<1>2. /\ id \in Nat /\ id \in Ids /\ id + 1 \in 0..Supply
      /\ id \notin 0..(id - 1) /\ 0..((id + 1) - 1) = 0..(id - 1) \cup {id}
  BY <1>1
<1>3. /\ d.tokenIds = id + 1 /\ d.NFTsLeft = c.NFTsLeft /\ d.readableURI = c.readableURI
      /\ d.leafData = c.leafData /\ d.hashes = c.hashes /\ d.leaves = c.leaves
      /\ d.tree = c.tree
  BY DEF Storages
<1>4. d \in Storages
  BY <1>2 DEF Storages
<1>5. id \notin open /\ id \notin DOMAIN c.leafData
  BY <1>2 DEF Consistent, AllTaken, id
<1> HIDE DEF d, id
<1>6. Consistent(d, open \cup {id})
  <2>1. open \cap DOMAIN c.leafData = {} /\ open \cup DOMAIN c.leafData = 0..(id - 1)
    BY DEF Consistent, AllTaken, id
  <2>2. AllTaken(d, open \cup {id})
    BY <1>2, <1>3, <1>5, <2>1 DEF AllTaken
  <2> QED BY <1>3, <2>2 DEF Consistent
<1>7. Grows(c, d)
  <2>1. Grows(c, c)
    BY GrowsItself
  <2> QED BY <1>3, <2>1 DEF Grows
<1> QED BY <1>2, <1>4, <1>5, <1>6, <1>7 DEF d, id

\* The leaf is added.
LEMMA CommitKeeps ==
  ASSUME NFTAssumption, NEW c \in Storages, NEW open, Consistent(c, open),
         NEW mint, mint.from \in Users, mint.receiver \in Users, mint.uri \in URIs,
         mint.id \in open, mint.id \in Ids
  PROVE  LET d == Committed(c, mint)
         IN  /\ d \in Storages
             /\ Consistent(d, open \ {mint.id})
             /\ Grows(c, d)
<1> DEFINE d == Committed(c, mint)
           id == mint.id
           data == [from |-> mint.from, receiver |-> mint.receiver, id |-> id,
                    tokenURI |-> tokenURI(mint.uri)]
           x == Leaf(data)
<1>1. data \in Data /\ x \in Leaves
  BY DEF Data, Leaves, tokenURI
<1>2. /\ d.tokenIds = c.tokenIds /\ d.NFTsLeft = c.NFTsLeft - 1
      /\ d.readableURI = With(c.readableURI, id, mint.uri)
      /\ d.leafData = With(c.leafData, id, data)
      /\ d.hashes = Append(c.hashes, x)
      /\ d.leaves = [c.leaves EXCEPT ![id] = x]
      /\ d.tree = createTree(Append(c.hashes, x))
  BY DEF Committed, Kept, Storages
<1>3. data.id = id /\ data.tokenURI = tokenURI(mint.uri) /\ x = Leaf(data)
  OBVIOUS
<1>4. d \in Storages
  <2>1. \A S : \A f \in OnIds(S), v \in S : With(f, id, v) \in OnIds(S)
    <3> SUFFICES ASSUME NEW S, NEW f \in OnIds(S), NEW v \in S PROVE With(f, id, v) \in OnIds(S)
      OBVIOUS
    <3>1. PICK D \in SUBSET Ids : f \in [D -> S]
      BY DEF OnIds
    <3>2. D \cup {id} \in SUBSET Ids /\ With(f, id, v) \in [D \cup {id} -> S]
      BY <3>1 DEF With
    <3> QED BY <3>2 DEF OnIds
  <2>2. /\ c.readableURI \in OnIds(URIs) /\ c.leafData \in OnIds(Data) /\ c.NFTsLeft \in Int
        /\ c.hashes \in Seq(Leaves) /\ c.leaves \in [Ids -> Leaves \cup {Zero}]
        /\ c.tokenIds \in 0..Supply
    BY DEF Storages
  <2>3. /\ With(c.readableURI, id, mint.uri) \in OnIds(URIs)
        /\ With(c.leafData, id, data) \in OnIds(Data)
    BY <1>1, <2>1, <2>2
  <2> HIDE DEF data, x
  <2>4. /\ c.NFTsLeft - 1 \in Int /\ Append(c.hashes, x) \in Seq(Leaves)
        /\ [c.leaves EXCEPT ![id] = x] \in [Ids -> Leaves \cup {Zero}]
    BY <1>1, <2>2
  <2>5. createTree(Append(c.hashes, x)) \in {createTree(h) : h \in Seq(Leaves)}
    BY <2>4
  <2> DEFINE left == c.NFTsLeft - 1
             uris == With(c.readableURI, id, mint.uri)
             datas == With(c.leafData, id, data)
             hs == Append(c.hashes, x)
             ls == [c.leaves EXCEPT ![id] = x]
             tr == createTree(hs)
  <2>6. d = [c EXCEPT !.NFTsLeft = left, !.readableURI = uris, !.leafData = datas,
                      !.hashes = hs, !.leaves = ls, !.tree = tr]
    BY Zenon DEF Committed, Kept, data, x
  <2>7. /\ left \in Int /\ uris \in OnIds(URIs) /\ datas \in OnIds(Data)
        /\ hs \in Seq(Leaves) /\ ls \in [Ids -> Leaves \cup {Zero}]
        /\ tr \in {createTree(h) : h \in Seq(Leaves)}
    BY <2>3, <2>4, <2>5
  <2> HIDE DEF d, left, uris, datas, hs, ls, tr
  <2> QED BY <2>6, <2>7 DEF Storages
<1>5. id \notin DOMAIN c.leafData /\ id \in open
  BY DEF Consistent, AllTaken
<1>6. DOMAIN c.readableURI = DOMAIN c.leafData
  BY DEF Consistent, AllListed
<1>7. /\ c.hashes \in Seq(Leaves) /\ Len(c.hashes) \in Nat
      /\ c.leaves \in [Ids -> Leaves \cup {Zero}] /\ DOMAIN c.leafData \subseteq Ids
  BY DEF Storages, OnIds
<1> HIDE DEF d, id, data, x
<1>8. /\ DOMAIN d.leafData = DOMAIN c.leafData \cup {id}
      /\ \A k \in DOMAIN c.leafData : d.leafData[k] = c.leafData[k]
      /\ d.leafData[id] = data
      /\ DOMAIN d.readableURI = DOMAIN c.leafData \cup {id}
      /\ \A k \in DOMAIN c.leafData : d.readableURI[k] = c.readableURI[k]
      /\ d.readableURI[id] = mint.uri
  BY <1>2, <1>5, <1>6 DEF With
<1>9. /\ \A k \in DOMAIN c.leafData : d.leaves[k] = c.leaves[k]
      /\ d.leaves[id] = x
  BY <1>2, <1>5, <1>7 DEF id
<1>10. /\ Len(d.hashes) = Len(c.hashes) + 1
       /\ \A i \in 1..Len(c.hashes) : d.hashes[i] = c.hashes[i]
       /\ d.hashes[Len(c.hashes) + 1] = x
  BY <1>1, <1>2, <1>7
<1>11. AllTaken(d, open \ {id})
  BY <1>2, <1>5, <1>8 DEF Consistent, AllTaken
<1>12. AllListed(d.readableURI, d.leafData, d.hashes, d.leaves)
  <2> DEFINE n == Len(c.hashes)
  <2>1. AllListed(c.readableURI, c.leafData, c.hashes, c.leaves)
    BY DEF Consistent
  <2>2. \A k \in DOMAIN c.leafData :
           /\ c.leaves[k] = Leaf(c.leafData[k])
           /\ c.leafData[k].id = k
           /\ c.leafData[k].tokenURI = tokenURI(c.readableURI[k])
           /\ \E i \in 1..n : c.hashes[i] = c.leaves[k]
    BY <2>1 DEF AllListed
  <2>3. \A i \in 1..n : \E k \in DOMAIN c.leafData : c.hashes[i] = c.leaves[k]
    BY <2>1 DEF AllListed
  <2>4. \A i, j \in 1..n : c.hashes[i] = c.hashes[j] => i = j
    BY <2>1 DEF AllListed
  <2>5. n = Cardinality(DOMAIN c.leafData)
    BY <2>1 DEF AllListed
  <2> HIDE DEF n
  <2>6. n \in Nat /\ 1..(n + 1) = 1..n \cup {n + 1}
    BY <1>7 DEF n
  <2>7. \A k \in DOMAIN d.leafData :
           /\ d.leaves[k] = Leaf(d.leafData[k])
           /\ d.leafData[k].id = k
           /\ d.leafData[k].tokenURI = tokenURI(d.readableURI[k])
    <3> TAKE k \in DOMAIN d.leafData
    <3>1. CASE k = id
      BY <1>3, <1>8, <1>9, <3>1
    <3>2. CASE k # id
      <4>1. k \in DOMAIN c.leafData
        BY <1>8, <3>2
      <4> QED BY <1>8, <1>9, <2>2, <4>1
    <3> QED BY <3>1, <3>2
  <2>8. \A k \in DOMAIN d.leafData : \E i \in 1..(n + 1) : d.hashes[i] = d.leaves[k]
    <3> TAKE k \in DOMAIN d.leafData
    <3>1. CASE k = id
      BY <1>9, <1>10, <2>6, <3>1 DEF n
    <3>2. CASE k # id
      <4>1. k \in DOMAIN c.leafData
        BY <1>8, <3>2
      <4>2. PICK i \in 1..n : c.hashes[i] = c.leaves[k]
        BY <2>2, <4>1
      <4> QED BY <1>9, <1>10, <2>6, <4>1, <4>2 DEF n
    <3> QED BY <3>1, <3>2
  <2>9. \A i \in 1..(n + 1) : \E k \in DOMAIN d.leafData : d.hashes[i] = d.leaves[k]
    <3> TAKE i \in 1..(n + 1)
    <3>1. CASE i = n + 1
      BY <1>8, <1>9, <1>10, <3>1 DEF n
    <3>2. CASE i # n + 1
      <4>1. i \in 1..n
        BY <2>6, <3>2
      <4>2. PICK k \in DOMAIN c.leafData : c.hashes[i] = c.leaves[k]
        BY <2>3, <4>1
      <4> QED BY <1>8, <1>9, <1>10, <4>1, <4>2 DEF n
    <3> QED BY <3>1, <3>2
  <2>10. \A i \in 1..n : c.hashes[i] # x
    <3> SUFFICES ASSUME NEW i \in 1..n, c.hashes[i] = x PROVE FALSE
      OBVIOUS
    <3>1. PICK k \in DOMAIN c.leafData : c.hashes[i] = c.leaves[k]
      BY <2>3
    <3>2. Leaf(c.leafData[k]) = Leaf(data)
      BY <1>3, <2>2, <3>1
    <3>3. c.leafData[k] = data
      BY <3>2 DEF Leaf
    <3> QED BY <1>3, <1>5, <2>2, <3>1, <3>3
  <2>11. \A i, j \in 1..(n + 1) : d.hashes[i] = d.hashes[j] => i = j
    <3> SUFFICES ASSUME NEW i \in 1..(n + 1), NEW j \in 1..(n + 1), d.hashes[i] = d.hashes[j],
                        i # j
                 PROVE  FALSE
      OBVIOUS
    <3>1. CASE i \in 1..n /\ j \in 1..n
      BY <1>10, <2>4, <3>1 DEF n
    <3>2. CASE i = n + 1
      <4>1. j \in 1..n
        BY <2>6, <3>2
      <4> QED BY <1>10, <2>10, <3>2, <4>1 DEF n
    <3>3. CASE j = n + 1
      <4>1. i \in 1..n
        BY <2>6, <3>3
      <4> QED BY <1>10, <2>10, <3>3, <4>1 DEF n
    <3> QED BY <2>6, <3>1, <3>2, <3>3
  <2>12. n + 1 = Cardinality(DOMAIN d.leafData)
    <3>1. IsFiniteSet(Ids)
      BY FS_Interval DEF Ids, NFTAssumption
    <3>2. IsFiniteSet(DOMAIN c.leafData)
      BY <1>7, <3>1, FS_Subset
    <3>3. Cardinality(DOMAIN c.leafData \cup {id}) = Cardinality(DOMAIN c.leafData) + 1
      BY <1>5, <3>2, FS_AddElement
    <3> QED BY <1>8, <2>5, <3>3
  <2>13. Len(d.hashes) = n + 1
    BY <1>10 DEF n
  <2> QED BY <1>8, <2>7, <2>8, <2>9, <2>11, <2>12, <2>13 DEF AllListed
<1>13. d.NFTsLeft = Supply - Len(d.hashes) /\ c.NFTsLeft \in Int /\ d.NFTsLeft <= c.NFTsLeft
  <2>1. c.NFTsLeft = Supply - Len(c.hashes) /\ c.NFTsLeft \in Int /\ Supply \in Nat
    BY DEF Consistent, Storages, NFTAssumption
  <2> QED BY <1>2, <1>7, <1>10, <2>1
<1>14. d.tree = createTree(d.hashes) /\ c.tree = createTree(c.hashes)
  BY <1>2 DEF Consistent
<1>15. Consistent(d, open \ {id})
  BY <1>11, <1>12, <1>13, <1>14 DEF Consistent
<1>16. Grows(c, d)
  <2>1. /\ Len(createTree(c.hashes)) <= Len(createTree(Append(c.hashes, x)))
        /\ Range(createTree(c.hashes)) \subseteq Range(createTree(Append(c.hashes, x)))
    BY <1>1, <1>7, TreeGrows
  <2> QED BY <1>2, <1>13, <1>14, <2>1 DEF Grows
<1> QED BY <1>4, <1>15, <1>16 DEF d, id

-----------------------------------------------------------------------------
(* The stack of open mints. *)

\* What the invariant says of the storages of the stack.
LEMMA StackTypes ==
  ASSUME NEW c, NEW s, StackInv(c, s)
  PROVE  /\ Len(s) \in Nat /\ c \in Storages /\ s \in Seq(Mints)
         /\ \A i \in 1..Len(s) : s[i] \in Mints /\ s[i].before \in Storages /\ s[i].id \in Ids
         /\ \A k \in 0..Len(s) : Before(c, s, k) \in Storages
         /\ Before(c, s, Len(s)) = c
         /\ \A k \in 0..Len(s) : k # Len(s) => Before(c, s, k) = s[k + 1].before
<1>1. Len(s) \in Nat /\ c \in Storages /\ s \in Seq(Mints)
  BY DEF StackInv
<1>2. \A i \in 1..Len(s) : s[i] \in Mints
  BY <1>1
<1>3. \A m \in Mints : m.before \in Storages /\ m.id \in Ids
  BY DEF Mints
<1>4. \A i \in 1..Len(s) : s[i].before \in Storages /\ s[i].id \in Ids
  BY <1>2, <1>3
<1>5. \A k \in 0..Len(s) : k # Len(s) => k + 1 \in 1..Len(s)
  BY <1>1
<1>6. Before(c, s, Len(s)) = c
  BY DEF Before
<1>7. \A k \in 0..Len(s) : k # Len(s) => Before(c, s, k) = s[k + 1].before
  BY DEF Before
<1>8. \A k \in 0..Len(s) : Before(c, s, k) \in Storages
  BY <1>1, <1>4, <1>5, <1>6, <1>7
<1> QED BY <1>1, <1>2, <1>4, <1>6, <1>7, <1>8

\* A step that leaves the first m storages as they are and ends with storage d above them.
LEMMA StackKeeps ==
  ASSUME NEW c, NEW s, StackInv(c, s), NEW d \in Storages, NEW r \in Seq(Mints),
         NEW m \in Nat, m = Len(r), m <= Len(s) + 1,
         \A i \in 1..m : r[i].id = r[i].before.tokenIds,
         \A k \in 0..m : k # m => Before(c, s, k) = Before(d, r, k) /\ Open(s, k) = Open(r, k),
         Consistent(d, Open(r, m)),
         NEW b \in 0..Len(s), m <= b + 1, Grows(Before(c, s, b), d)
  PROVE  StackInv(d, r) /\ Grows(Before(c, s, 0), Before(d, r, 0))
<1>1. /\ Len(s) \in Nat
      /\ \A k \in 0..Len(s) : Before(c, s, k) \in Storages
  BY StackTypes
<1>2. Before(d, r, m) = d
  BY DEF Before
<1>3. \A k \in 0..m : k # m => k \in 0..Len(s) /\ k <= b
  BY <1>1
<1>4. \A k \in 0..m : Consistent(Before(d, r, k), Open(r, k))
  <2> TAKE k \in 0..m
  <2>1. CASE k = m
    BY <1>2, <2>1
  <2>2. CASE k # m
    <3>1. Consistent(Before(c, s, k), Open(s, k))
      BY <1>3, <2>2 DEF StackInv
    <3> QED BY <2>2, <3>1
  <2> QED BY <2>1, <2>2
<1>5. \A k \in 0..m : k # m => Grows(Before(d, r, k), d)
  <2> SUFFICES ASSUME NEW k \in 0..m, k # m PROVE Grows(Before(d, r, k), d)
    OBVIOUS
  <2>1. k \in 0..Len(s) /\ k <= b /\ Before(c, s, k) = Before(d, r, k)
    BY <1>3
  <2>2. Grows(Before(c, s, k), Before(c, s, b))
    BY <2>1 DEF StackInv
  <2>3. Grows(Before(c, s, k), d)
    BY <1>1, <2>1, <2>2, GrowsOn
  <2> QED BY <2>1, <2>3
<1>6. \A i, j \in 0..m : i <= j => Grows(Before(d, r, i), Before(d, r, j))
  <2> SUFFICES ASSUME NEW i \in 0..m, NEW j \in 0..m, i <= j
               PROVE  Grows(Before(d, r, i), Before(d, r, j))
    OBVIOUS
  <2>1. CASE j # m
    <3>1. i # m
      BY <2>1
    <3>2. Grows(Before(c, s, i), Before(c, s, j))
      BY <1>3, <2>1, <3>1 DEF StackInv
    <3> QED BY <2>1, <3>1, <3>2
  <2>2. CASE j = m /\ i # m
    BY <1>2, <1>5, <2>2
  <2>3. CASE j = m /\ i = m
    BY <1>2, <2>3, GrowsItself
  <2> QED BY <2>1, <2>2, <2>3
<1>7. StackInv(d, r)
  BY <1>4, <1>6 DEF StackInv
<1>8. Grows(Before(c, s, 0), Before(d, r, 0))
  <2>1. CASE m # 0
    <3>1. 0 \in 0..m /\ Before(c, s, 0) = Before(d, r, 0) /\ Before(c, s, 0) \in Storages
      BY <1>1, <2>1
    <3> QED BY <3>1, GrowsItself
  <2>2. CASE m = 0
    <3>1. 0 \in 0..Len(s) /\ 0 <= b
      BY <1>1
    <3>2. Grows(Before(c, s, 0), Before(c, s, b))
      BY <3>1 DEF StackInv
    <3>3. Grows(Before(c, s, 0), d)
      BY <1>1, <3>1, <3>2, GrowsOn
    <3> QED BY <1>2, <2>2, <3>3
  <2> QED BY <2>1, <2>2
<1> QED BY <1>7, <1>8

MintArgs(from, receiver, uri) == from \in Users /\ receiver \in Users /\ uri \in URIs

\* What a new mint consists of, and the storage with its id taken.
LEMMA MintTypes ==
  ASSUME NFTAssumption, NFTInv, NEW from, NEW receiver, NEW uri, MintArgs(from, receiver, uri),
         MayMint(from)
  PROVE  /\ Taken \in Storages /\ Grows(nft, Taken)
         /\ Mint(from, receiver, uri) \in Mints
         /\ Mint(from, receiver, uri).id = nft.tokenIds
         /\ Mint(from, receiver, uri).before = nft
         /\ nft.tokenIds \notin Open(calls, Len(calls))
         /\ Consistent(Taken, Open(calls, Len(calls)) \cup {nft.tokenIds})
<1> DEFINE n == Len(calls)
           open == Open(calls, n)
<1>1. n \in Nat /\ nft \in Storages /\ Before(nft, calls, n) = nft
  BY StackTypes DEF NFTInv
<1>2. Consistent(nft, open)
  <2>1. n \in 0..Len(calls)
    BY <1>1
  <2> QED BY <1>1, <2>1 DEF NFTInv, StackInv
<1> HIDE DEF open, n
<1>3. nft.tokenIds # Supply
  BY DEF MayMint
<1>4. /\ Taken \in Storages /\ nft.tokenIds \in Ids /\ nft.tokenIds \notin open
      /\ Consistent(Taken, open \cup {nft.tokenIds})
      /\ Grows(nft, Taken)
  BY <1>1, <1>2, <1>3, TakeKeeps DEF Taken
<1>5. Mint(from, receiver, uri) \in Mints
  BY <1>1, <1>4 DEF Mint, Mints, newTokenId, MintArgs
<1>6. /\ Mint(from, receiver, uri).id = nft.tokenIds
      /\ Mint(from, receiver, uri).before = nft
  BY DEF Mint, newTokenId
<1> QED BY <1>4, <1>5, <1>6 DEF open, n

\* A mint to an account is whole at once.
LEMMA AccountKeeps ==
  ASSUME NFTAssumption, NFTInv, NEW from, NEW receiver, NEW uri, MintArgs(from, receiver, uri),
         MintToAccount(from, receiver, uri)
  PROVE  NFTInv' /\ Grows(Mined, Mined')
<1> DEFINE n == Len(calls)
           open == Open(calls, n)
           mint == Mint(from, receiver, uri)
           id == nft.tokenIds
           d == Committed(Taken, mint)
<1>1. /\ n \in Nat /\ nft \in Storages /\ calls \in Seq(Mints)
      /\ Before(nft, calls, n) = nft
      /\ \A i \in 1..n : calls[i].id = calls[i].before.tokenIds
  BY StackTypes DEF NFTInv, StackInv
<1>2. nft' = d /\ calls' = calls /\ MayMint(from)
  BY DEF MintToAccount
<1>3. /\ Taken \in Storages /\ Grows(nft, Taken) /\ mint \in Mints /\ mint.id = id
      /\ id \notin open /\ Consistent(Taken, open \cup {id})
  BY <1>2, MintTypes
<1>4. mint.from \in Users /\ mint.receiver \in Users /\ mint.uri \in URIs /\ mint.id \in Ids
  <2> HIDE DEF mint
  <2> QED BY <1>3 DEF Mints
<1> HIDE DEF mint, id, open, n
<1>5. /\ d \in Storages /\ Consistent(d, (open \cup {id}) \ {mint.id}) /\ Grows(Taken, d)
  <2>1. mint.id \in open \cup {id}
    BY <1>3
  <2> QED BY <1>3, <1>4, <2>1, CommitKeeps
<1> HIDE DEF d
<1>6. (open \cup {id}) \ {mint.id} = open
  BY <1>3
<1>7. Consistent(d, Open(calls, n))
  BY <1>5, <1>6 DEF open
<1>8. Grows(Before(nft, calls, n), d)
  BY <1>1, <1>3, <1>5, GrowsOn
<1>9. \A k \in 0..n : k # n => Before(nft, calls, k) = Before(d, calls, k)
  BY DEF Before, n
<1>10. StackInv(d, calls) /\ Grows(Before(nft, calls, 0), Before(d, calls, 0))
  <2>1. n <= n + 1 /\ n \in 0..n /\ n = Len(calls) /\ StackInv(nft, calls)
    BY <1>1 DEF n, NFTInv
  <2> HIDE DEF NFTInv
  <2> QED BY <1>1, <1>5, <1>7, <1>8, <1>9, <2>1, StackKeeps
<1> QED BY <1>2, <1>10 DEF NFTInv, Mined

\* A mint to a contract opens a call.
LEMMA ContractKeeps ==
  ASSUME NFTAssumption, NFTInv, NEW from, NEW receiver, NEW uri, MintArgs(from, receiver, uri),
         MintToContract(from, receiver, uri)
  PROVE  NFTInv' /\ Grows(Mined, Mined')
<1> DEFINE n == Len(calls)
           mint == Mint(from, receiver, uri)
           r == Append(calls, mint)
<1>1. /\ n \in Nat /\ nft \in Storages /\ calls \in Seq(Mints)
      /\ Before(nft, calls, n) = nft
      /\ \A i \in 1..n : calls[i].id = calls[i].before.tokenIds
  BY StackTypes DEF NFTInv, StackInv
<1>2. nft' = Taken /\ calls' = r /\ MayMint(from)
  BY DEF MintToContract
<1>3. /\ Taken \in Storages /\ Grows(nft, Taken) /\ mint \in Mints
      /\ mint.id = nft.tokenIds /\ mint.before = nft
      /\ Consistent(Taken, Open(calls, n) \cup {nft.tokenIds})
  BY <1>2, MintTypes
<1>4. /\ r \in Seq(Mints) /\ Len(r) = n + 1 /\ \A i \in 1..n : r[i] = calls[i]
      /\ r[n + 1] = mint
  <2> HIDE DEF mint
  <2> QED BY <1>1, <1>3
<1> HIDE DEF mint, r
<1>5. \A i \in 1..(n + 1) : i \in 1..n \/ i = n + 1
  BY <1>1
<1> HIDE DEF n
<1>6. \A k \in 0..n : Open(calls, k) = Open(r, k)
  <2> TAKE k \in 0..n
  <2>1. \A i \in 1..k : r[i] = calls[i]
    BY <1>1, <1>4
  <2> QED BY <2>1 DEF Open
<1>7. Open(r, n + 1) = Open(calls, n) \cup {nft.tokenIds}
  <2>1. 1..(n + 1) = 1..n \cup {n + 1}
    BY <1>1
  <2> QED BY <1>3, <1>4, <2>1 DEF Open
<1>8. \A k \in 0..(n + 1) : k # n + 1 => Before(nft, calls, k) = Before(Taken, r, k)
  <2> SUFFICES ASSUME NEW k \in 0..n
               PROVE  Before(nft, calls, k) = Before(Taken, r, k)
    BY <1>1
  <2>1. Before(Taken, r, k) = r[k + 1].before
    BY <1>1, <1>4 DEF Before
  <2>2. CASE k = n
    BY <1>1, <1>3, <1>4, <2>1, <2>2
  <2>3. CASE k # n
    <3>1. k + 1 \in 1..n
      BY <1>1, <2>3
    <3> QED BY <1>4, <2>1, <2>3, <3>1 DEF Before, n
  <2> QED BY <2>2, <2>3
<1>9. \A i \in 1..(n + 1) : r[i].id = r[i].before.tokenIds
  BY <1>1, <1>3, <1>4, <1>5
<1>10. StackInv(Taken, r) /\ Grows(Before(nft, calls, 0), Before(Taken, r, 0))
  <2>1. n + 1 \in Nat /\ n \in 0..n /\ n = Len(calls) /\ StackInv(nft, calls)
        /\ n + 1 <= Len(calls) + 1 /\ n + 1 <= n + 1
    BY <1>1 DEF n, NFTInv
  <2>2. \A k \in 0..(n + 1) : k # n + 1 => Open(calls, k) = Open(r, k)
    BY <1>1, <1>6
  <2>3. Consistent(Taken, Open(r, n + 1)) /\ Grows(Before(nft, calls, n), Taken)
    BY <1>1, <1>3, <1>7
  <2> HIDE DEF NFTInv
  <2> QED BY <1>3, <1>4, <1>8, <1>9, <2>1, <2>2, <2>3, StackKeeps
<1> QED BY <1>2, <1>10 DEF NFTInv, Mined

\* The innermost call ends with storage d.
LEMMA PopKeeps ==
  ASSUME NFTInv, calls # <<>>, calls' = Front(calls), NEW d \in Storages, nft' = d,
         Consistent(d, Open(calls, Len(calls) - 1)),
         Grows(Before(nft, calls, Len(calls) - 1), d)
  PROVE  NFTInv' /\ Grows(Mined, Mined')
<1> DEFINE n == Len(calls)
           r == Front(calls)
<1>1. /\ n \in Nat /\ nft \in Storages /\ calls \in Seq(Mints)
      /\ \A i \in 1..n : calls[i].id = calls[i].before.tokenIds
  BY StackTypes DEF NFTInv, StackInv
<1>2. n # 0 /\ n - 1 \in Nat
  BY <1>1, EmptySeq
<1>3. r \in Seq(Mints) /\ Len(r) = n - 1 /\ \A i \in 1..(n - 1) : r[i] = calls[i]
  <2>1. r = SubSeq(calls, 1, n - 1) /\ \A i \in 1..(n - 1) : calls[i] \in Mints
    BY <1>1, <1>2 DEF Front
  <2> HIDE DEF r, n
  <2>2. /\ 1 \in Int /\ n - 1 \in Int
        /\ (IF 1 <= n - 1 THEN (n - 1) - 1 + 1 ELSE 0) = n - 1 /\ (n - 1) - 1 + 1 = n - 1
        /\ \A i \in 1..(n - 1) : 1 + i - 1 = i
    BY <1>1, <1>2
  <2>3. /\ SubSeq(calls, 1, n - 1) \in Seq(Mints)
        /\ Len(SubSeq(calls, 1, n - 1)) = IF 1 <= n - 1 THEN (n - 1) - 1 + 1 ELSE 0
        /\ \A i \in 1..((n - 1) - 1 + 1) : SubSeq(calls, 1, n - 1)[i] = calls[1 + i - 1]
    BY <2>1, <2>2, SubSeqProperties
  <2> QED BY <2>1, <2>2, <2>3
<1> HIDE DEF r, n
<1>4. \A k \in 0..(n - 1) : Open(calls, k) = Open(r, k)
  <2> TAKE k \in 0..(n - 1)
  <2>1. \A i \in 1..k : r[i] = calls[i]
    BY <1>2, <1>3
  <2> QED BY <2>1 DEF Open
<1>5. \A k \in 0..(n - 1) : k # n - 1 => Before(nft, calls, k) = Before(d, r, k)
  <2> SUFFICES ASSUME NEW k \in 0..(n - 1), k # n - 1
               PROVE  Before(nft, calls, k) = Before(d, r, k)
    OBVIOUS
  <2>1. k + 1 \in 1..(n - 1) /\ k # n
    BY <1>2
  <2> QED BY <1>3, <2>1 DEF Before, n
<1>6. \A i \in 1..(n - 1) : r[i].id = r[i].before.tokenIds
  <2>1. \A i \in 1..(n - 1) : i \in 1..n
    BY <1>1
  <2> QED BY <1>1, <1>3, <2>1
<1>7. StackInv(d, r) /\ Grows(Before(nft, calls, 0), Before(d, r, 0))
  <2>1. /\ n - 1 \in 0..Len(calls) /\ StackInv(nft, calls)
        /\ n - 1 <= Len(calls) + 1 /\ n - 1 <= (n - 1) + 1
    BY <1>1, <1>2 DEF n, NFTInv
  <2>2. Consistent(d, Open(r, n - 1)) /\ Grows(Before(nft, calls, n - 1), d)
    <3>1. n - 1 \in 0..(n - 1)
      BY <1>2
    <3> QED BY <1>4, <3>1 DEF n
  <2> HIDE DEF NFTInv
  <2> QED BY <1>2, <1>3, <1>4, <1>5, <1>6, <2>1, <2>2, StackKeeps
<1>8. calls' = r
  BY DEF r
<1> QED BY <1>7, <1>8 DEF NFTInv, Mined

\* The receiver accepts, and the leaf is added.
LEMMA ReturnKeeps ==
  ASSUME NFTAssumption, NFTInv, ReceiverReturns
  PROVE  NFTInv' /\ Grows(Mined, Mined')
<1> DEFINE n == Len(calls)
           mint == calls[n]
           d == Committed(nft, mint)
<1>1. /\ n \in Nat /\ nft \in Storages
      /\ Before(nft, calls, n) = nft
      /\ \A i \in 1..n : calls[i] \in Mints /\ calls[i].before \in Storages
      /\ \A k \in 0..n : k # n => Before(nft, calls, k) = calls[k + 1].before
      /\ \A k \in 0..n : Before(nft, calls, k) \in Storages
  BY StackTypes DEF NFTInv
<1>2. calls # <<>> /\ calls' = Front(calls) /\ nft' = d
  BY DEF ReceiverReturns, Last
<1>3. n \in 1..n /\ n - 1 \in 0..n /\ n \in 0..n /\ (n - 1) + 1 = n /\ n - 1 # n
  <2>1. calls \in Seq(Mints)
    BY DEF NFTInv, StackInv
  <2>2. n # 0
    BY <1>2, <2>1, EmptySeq
  <2> QED BY <1>1, <2>2
<1>4. mint \in Mints /\ Before(nft, calls, n - 1) = mint.before
  BY <1>1, <1>3
<1>5. /\ mint.from \in Users /\ mint.receiver \in Users /\ mint.uri \in URIs /\ mint.id \in Ids
      /\ mint.before \in Storages
  <2> HIDE DEF mint
  <2> QED BY <1>4 DEF Mints
<1>6. mint.id = mint.before.tokenIds
  BY <1>3 DEF NFTInv, StackInv
<1>7. /\ Consistent(nft, Open(calls, n)) /\ Consistent(mint.before, Open(calls, n - 1))
      /\ Grows(mint.before, nft)
  <2>1. Consistent(Before(nft, calls, n), Open(calls, n))
    BY <1>3 DEF NFTInv, StackInv
  <2>2. Consistent(Before(nft, calls, n - 1), Open(calls, n - 1))
    BY <1>3 DEF NFTInv, StackInv
  <2>3. Grows(Before(nft, calls, n - 1), Before(nft, calls, n))
    <3>1. n - 1 <= n
      BY <1>1
    <3>2. \A i, j \in 0..n : i <= j => Grows(Before(nft, calls, i), Before(nft, calls, j))
      BY DEF NFTInv, StackInv
    <3> HIDE DEF n
    <3> QED BY <1>3, <3>1, <3>2
  <2> QED BY <1>1, <1>4, <2>1, <2>2, <2>3
<1>8. Open(calls, n) = Open(calls, n - 1) \cup {mint.id}
  <2>1. 1..n = 1..(n - 1) \cup {n}
    <3> HIDE DEF n
    <3> QED BY <1>1, <1>3
  <2> QED BY <2>1 DEF Open
<1> HIDE DEF mint, n
<1>9. mint.id \notin Open(calls, n - 1)
  <2>1. Open(calls, n - 1) \subseteq 0..(mint.before.tokenIds - 1)
    BY <1>7 DEF Consistent, AllTaken
  <2>2. mint.before.tokenIds \in Int
    BY <1>5 DEF Storages
  <2> QED BY <1>6, <2>1, <2>2
<1>10. d \in Storages /\ Consistent(d, Open(calls, n) \ {mint.id}) /\ Grows(nft, d)
  BY <1>1, <1>5, <1>7, <1>8, CommitKeeps
<1> HIDE DEF d
<1>11. Open(calls, n) \ {mint.id} = Open(calls, n - 1)
  BY <1>8, <1>9
<1>12. Grows(mint.before, d)
  BY <1>1, <1>5, <1>7, <1>10, GrowsOn
<1>13. Consistent(d, Open(calls, Len(calls) - 1)) /\ Grows(Before(nft, calls, Len(calls) - 1), d)
  BY <1>4, <1>10, <1>11, <1>12 DEF n
<1> QED BY <1>2, <1>10, <1>13, PopKeeps

\* The receiver fails, and its mint is undone.
LEMMA FailKeeps ==
  ASSUME NFTInv, ReceiverFails
  PROVE  NFTInv' /\ Grows(Mined, Mined')
<1> DEFINE n == Len(calls)
           d == calls[n].before
<1>1. calls # <<>> /\ calls' = Front(calls) /\ nft' = d
  BY DEF ReceiverFails, Rollback, Last
<1>2. /\ n \in Nat
      /\ \A i \in 1..n : calls[i].before \in Storages
      /\ \A k \in 0..n : k # n => Before(nft, calls, k) = calls[k + 1].before
  BY StackTypes DEF NFTInv
<1>3. n \in 1..n /\ n - 1 \in 0..n /\ (n - 1) + 1 = n /\ n - 1 # n
  <2>1. calls \in Seq(Mints)
    BY DEF NFTInv, StackInv
  <2>2. n # 0
    BY <1>1, <2>1, EmptySeq
  <2> QED BY <1>2, <2>2
<1>4. d \in Storages /\ Before(nft, calls, n - 1) = d
  BY <1>2, <1>3
<1>5. Consistent(d, Open(calls, n - 1)) /\ Grows(d, d)
  <2>1. Consistent(Before(nft, calls, n - 1), Open(calls, n - 1))
    BY <1>3 DEF NFTInv, StackInv
  <2> QED BY <1>4, <2>1, GrowsItself
<1> QED BY <1>1, <1>4, <1>5, PopKeeps

\* The constructor establishes the invariant.
LEMMA InitNFT == ASSUME NFTAssumption, Init PROVE NFTInv
<1>1. calls = <<>> /\ Len(calls) = 0 /\ calls \in Seq(Mints)
  BY DEF Init
<1> DEFINE none == [id \in Ids |-> Zero]
<1>2. /\ nft.tokenIds = 0 /\ nft.NFTsLeft = Supply /\ nft.readableURI = <<>>
      /\ nft.leafData = <<>> /\ nft.hashes = <<>> /\ nft.tree = <<>>
      /\ nft.leaves = none
  BY DEF Init
<1>3. createTree(<<>>) = <<>> /\ <<>> \in Seq(Leaves)
  <2>1. <<>> \in Seq(Leaves) /\ Len(<<>>) = 0
    OBVIOUS
  <2>2. PICK L : IsLevels(L, <<>>) /\ createTree(<<>>) = FlattenSeq(L)
    BY <2>1, LevelsExist
  <2>3. L \in Seq(Seq(Nodes(L))) /\ Len(L) = 0
    BY <2>1, <2>2, LevelFacts
  <2>4. L = <<>>
    BY <2>3, EmptySeq
  <2> QED BY <2>1, <2>2, <2>4, FlattenEmpty
<1>4. nft \in Storages
  <2>1. \A S : <<>> \in OnIds(S)
    <3> TAKE S
    <3>1. <<>> \in [{} -> S] /\ {} \in SUBSET Ids
      OBVIOUS
    <3> QED BY <3>1 DEF OnIds
  <2>2. none \in [Ids -> Leaves \cup {Zero}]
    OBVIOUS
  <2>3. 0 \in 0..Supply /\ Supply \in Int
    BY DEF NFTAssumption
  <2>4. <<>> \in {createTree(h) : h \in Seq(Leaves)}
    BY <1>3
  <2>5. nft = [tokenIds |-> 0, NFTsLeft |-> Supply, readableURI |-> <<>>, leafData |-> <<>>,
               hashes |-> <<>>, leaves |-> none, tree |-> <<>>]
    BY DEF Init
  <2> HIDE DEF none
  <2> QED BY <1>3, <2>1, <2>2, <2>3, <2>4, <2>5 DEF Storages
<1>5. Consistent(nft, Open(calls, 0))
  <2>1. Open(calls, 0) = {}
    BY DEF Open
  <2>2. DOMAIN nft.leafData = {} /\ DOMAIN nft.readableURI = {} /\ Len(nft.hashes) = 0
    BY <1>2
  <2>3. AllTaken(nft, {})
    BY <1>2, <2>2 DEF AllTaken
  <2>4. AllListed(nft.readableURI, nft.leafData, nft.hashes, nft.leaves)
    BY <2>2, FS_EmptySet DEF AllListed
  <2>5. Supply = Supply - 0
    BY DEF NFTAssumption
  <2> QED BY <1>2, <1>3, <2>1, <2>2, <2>3, <2>4, <2>5 DEF Consistent
<1>6. \A k \in 0..Len(calls) : k = 0 /\ Before(nft, calls, k) = nft
  BY <1>1 DEF Before
<1>7. Grows(nft, nft)
  BY <1>4, GrowsItself
<1> QED BY <1>1, <1>4, <1>5, <1>6, <1>7 DEF NFTInv, StackInv

\* Every step keeps it, and what whole transactions left only grows.
LEMMA NextNFT ==
  ASSUME NFTAssumption, NFTInv, [Next]_vars
  PROVE  NFTInv' /\ Grows(Mined, Mined')
<1>1. ASSUME NEW from \in Users, NEW receiver \in Users, NEW uri \in URIs,
             MintToAccount(from, receiver, uri)
      PROVE  NFTInv' /\ Grows(Mined, Mined')
  BY <1>1, AccountKeeps DEF MintArgs
<1>2. ASSUME NEW from \in Users, NEW receiver \in Users, NEW uri \in URIs,
             MintToContract(from, receiver, uri)
      PROVE  NFTInv' /\ Grows(Mined, Mined')
  BY <1>2, ContractKeeps DEF MintArgs
<1>3. CASE ReceiverReturns
  BY <1>3, ReturnKeeps
<1>4. CASE ReceiverFails
  BY <1>4, FailKeeps
<1>5. CASE UNCHANGED vars
  <2>1. nft' = nft /\ calls' = calls
    BY <1>5 DEF vars
  <2>2. Mined \in Storages /\ Mined' = Mined
    BY <2>1, StackTypes DEF NFTInv, Mined
  <2> QED BY <2>1, <2>2, GrowsItself DEF NFTInv
<1> QED BY <1>1, <1>2, <1>3, <1>4, <1>5 DEF Next

\* The invariant implies the property.
LEMMA InvCommitted == ASSUME NFTAssumption, NFTInv PROVE EveryTokenCommitted
<1> DEFINE n == Len(calls)
           open == Open(calls, n)
<1>1. /\ n \in Nat /\ nft \in Storages /\ calls \in Seq(Mints)
      /\ Before(nft, calls, n) = nft
  BY StackTypes DEF NFTInv
<1>2. Consistent(nft, open)
  <2>1. n \in 0..n
    BY <1>1
  <2> QED BY <1>1, <2>1 DEF NFTInv, StackInv
<1>3. open = {calls[i].id : i \in DOMAIN calls}
  BY <1>1 DEF Open
<1> HIDE DEF open, n
<1>4. AllTaken(nft, open) /\ AllListed(nft.readableURI, nft.leafData, nft.hashes, nft.leaves)
  BY <1>2 DEF Consistent
<1>5. ASSUME NEW id \in DOMAIN nft.leafData PROVE Committed1(id)
  <2>1. /\ nft.leaves[id] = Leaf(nft.leafData[id]) /\ nft.leafData[id].id = id
        /\ nft.leafData[id].tokenURI = tokenURI(nft.readableURI[id])
    BY <1>4 DEF AllListed
  <2>2. PICK i \in 1..Len(nft.hashes) : nft.hashes[i] = nft.leaves[id]
    BY <1>4 DEF AllListed
  <2>3. \A j \in 1..Len(nft.hashes) : nft.hashes[j] = nft.leaves[id] => j = i
    BY <1>4, <2>2 DEF AllListed
  <2>4. DOMAIN nft.hashes = 1..Len(nft.hashes)
    BY <1>1 DEF Storages
  <2>5. {j \in DOMAIN nft.hashes : nft.hashes[j] = nft.leaves[id]} = {i}
    BY <2>2, <2>3, <2>4
  <2> QED BY <2>1, <2>5, FS_Singleton DEF Committed1
<1> QED BY <1>2, <1>3, <1>4, <1>5 DEF EveryTokenCommitted, AllTaken, AllListed, Consistent

-----------------------------------------------------------------------------
(* The page. *)

\* A step of the page or of the chain is at most a step of the contract.
LEMMA PageStepsAreCalls == ASSUME NFTAssumption, PageAssumption, [PageNext]_allVars PROVE [Next]_vars
<1>1. account \in Users /\ PageURI \in URIs /\ Contracts \subseteq Users
  BY DEF NFTAssumption, PageAssumption
<1>2. CASE Load \/ MintNFT \/ \E user \in Users : TypeReceiver(user)
  BY <1>2 DEF Load, MintNFT, TypeReceiver, Click
<1>3. ASSUME NEW p \in Used, GetPanel(p) \/ HandleCopy(p) \/ TimerFires(p) PROVE UNCHANGED vars
  BY <1>3 DEF GetPanel, Start, HandleCopy, TimerFires, Click
<1>4. ASSUME NEW i \in DOMAIN tasks,
             NodeAnswers(i) \/ WalletSends(i) \/ Refused(i) \/ Continue(i) \/ ContinueMint(i)
      PROVE  UNCHANGED vars
  BY <1>4 DEF NodeAnswers, WalletSends, Refused, Continue, ContinueMint
<1>5. CASE MineSent
  BY <1>1, <1>5 DEF MineSent, MintToAccount, MintToContract, Next
<1>6. CASE OthersMint
  BY <1>6 DEF OthersMint, Next
<1>7. CASE ReceiverDecides
  BY <1>7 DEF ReceiverDecides, Next
<1>8. CASE UNCHANGED allVars
  BY <1>8 DEF allVars, vars
<1> QED BY <1>2, <1>3, <1>4, <1>5, <1>6, <1>7, <1>8 DEF PageNext

\* Every token that was minted has one leaf with its own data, the open mints aside, also
\* when receivers mint in their turn and fail: NFTsLeft and the tree agree with it.
THEOREM TokensAreCommitted == PageSpec => []EveryTokenCommitted
<1>1. PageInit => NFTInv
  BY NFTAssumption, InitNFT DEF PageInit
<1>2. NFTInv /\ [PageNext]_allVars => NFTInv'
  BY NFTAssumption, PageAssumption, PageStepsAreCalls, NextNFT
<1>3. NFTInv => EveryTokenCommitted
  BY NFTAssumption, InvCommitted
<1> QED BY <1>1, <1>2, <1>3, PTL DEF PageSpec

-----------------------------------------------------------------------------
(* The root. *)

\* Injective hashes.
LEMMA Hashes ==
  /\ \A d, x, y : Leaf(d) # Parent(x, y)
  /\ \A x, y, z, w : Parent(x, y) = Parent(z, w) => x = z /\ y = w
BY DEF Leaf, Parent

\* A proof of one node leads to the hash of the pair in its order.
SortedPair(x, y) == IF AtMost(x, y) THEN Parent(x, y) ELSE Parent(y, x)

LEMMA OneSibling ==
  ASSUME NEW h, NEW sibling
  PROVE  processProof(<<sibling>>, h) = SortedPair(h, sibling)
<1> DEFINE proof == <<sibling>>
           step(x, k) == IF AtMost(x, proof[k]) THEN Parent(x, proof[k]) ELSE Parent(proof[k], x)
           Is(g) == g = [s \in SUBSET {1} |-> IF s = {} THEN h ELSE step(g[s \ {Max(s)}], Max(s))]
           chosen == CHOOSE g : Is(g)
           pair == SortedPair(h, sibling)
           f == [s \in SUBSET {1} |-> IF s = {} THEN h ELSE pair]
<1>1. DOMAIN proof = {1} /\ proof[1] = sibling /\ SUBSET {1} = {{}, {1}} /\ {1} \ {1} = {}
  OBVIOUS
<1>2. Max({1}) = 1
  <2>1. IsFiniteSet({1}) /\ {1} \subseteq Int /\ {1} # {}
    BY FS_Singleton
  <2>2. Max({1}) \in {1}
    BY <2>1, GreatestNumber
  <2> QED BY <2>2
<1>3. processProof(proof, h) = chosen[{1}]
  <2> HIDE DEF proof
  <2> QED BY <1>1, Zenon DEF processProof, FoldLeft, MapThenFoldSet
<1> HIDE DEF proof
<1>4. step(h, 1) = pair
  BY <1>1 DEF SortedPair
<1> HIDE DEF step, pair
<1>5. Is(f)
  <2>1. \A s \in SUBSET {1} : f[s] = IF s = {} THEN h ELSE step(f[s \ {Max(s)}], Max(s))
    <3>1. f[{}] = h /\ f[{1}] = pair
      BY <1>1
    <3> HIDE DEF f
    <3> QED BY <1>1, <1>2, <1>4, <3>1
  <2> QED BY <2>1
<1>6. ASSUME NEW g, Is(g) PROVE g[{1}] = pair
  <2>1. \A s \in SUBSET {1} : g[s] = IF s = {} THEN h ELSE step(g[s \ {Max(s)}], Max(s))
    BY <1>6
  <2> HIDE DEF Is
  <2>2. g[{}] = h /\ g[{1}] = step(g[{1} \ {1}], 1)
    BY <1>1, <1>2, <2>1
  <2> QED BY <1>1, <1>4, <2>2
<1> HIDE DEF Is
<1>7. Is(chosen)
  BY <1>5
<1> HIDE DEF chosen
<1>8. processProof(proof, h) = pair
  BY <1>3, <1>6, <1>7
<1> QED BY <1>8 DEF proof, pair

\* The nodes of a level above the leaves.
LEMMA UpperNodes ==
  ASSUME NEW h \in Seq(Leaves), NEW L, IsLevels(L, h)
  PROVE  \A k \in 1..Len(h) : \A m \in 1..Len(L[k]) : k # 1 =>
            /\ k - 1 \in 1..Len(h) /\ (k - 1) + 1 = k
            /\ 2 * m - 1 \in 1..Len(L[k - 1]) /\ 2 * m \in 1..Len(L[k - 1])
            /\ L[k][m] = Parent(L[k - 1][2 * m - 1], L[k - 1][2 * m])
<1> TAKE k \in 1..Len(h)
<1> TAKE m \in 1..Len(L[k])
<1> HAVE k # 1
<1> DEFINE j == k - 1
<1>1. Len(h) \in Nat /\ Halving(L, Len(h))
  BY LevelFacts
<1>2. j \in 1..Len(h) /\ j + 1 = k
  BY <1>1
<1> HIDE DEF j
<1>3. /\ 2 * m - 1 \in 1..Len(L[j]) /\ 2 * m \in 1..Len(L[j])
      /\ L[j + 1][m] = Parent(L[j][2 * m - 1], L[j][2 * m])
  BY <1>1, <1>2 DEF Halving
<1> QED BY <1>2, <1>3 DEF j

\* No hash is twice in the tree if no leaf is.
LEMMA NodesDiffer ==
  ASSUME NEW h \in Seq(Leaves), \A i, j \in 1..Len(h) : h[i] = h[j] => i = j,
         NEW L, IsLevels(L, h)
  PROVE  \A j, k \in 1..Len(h) : \A i \in 1..Len(L[j]), m \in 1..Len(L[k]) :
            L[j][i] = L[k][m] => j = k /\ i = m
<1> DEFINE n == Len(h)
           Good == {j \in Nat : j \in 1..n =>
                      \A k \in 1..n : \A i \in 1..Len(L[j]), m \in 1..Len(L[k]) :
                         L[j][i] = L[k][m] => j = k /\ i = m}
<1>1. n \in Nat /\ (n # 0 => L[1] = h) /\ \A k \in 1..n : Len(L[k]) \in Nat
  BY LevelFacts
<1>2. \A k \in 1..n : \A m \in 1..Len(L[k]) : k # 1 =>
            /\ k - 1 \in 1..n /\ (k - 1) + 1 = k
            /\ 2 * m - 1 \in 1..Len(L[k - 1]) /\ 2 * m \in 1..Len(L[k - 1])
            /\ L[k][m] = Parent(L[k - 1][2 * m - 1], L[k - 1][2 * m])
  BY UpperNodes
<1>3. \A i \in 1..Len(h) : \E d : h[i] = Leaf(d)
  <2>1. \A i \in 1..Len(h) : h[i] \in Leaves
    OBVIOUS
  <2> QED BY <2>1 DEF Leaves
<1>4. 0 \in Good
  OBVIOUS
<1>5. ASSUME NEW j \in Nat, j \in Good PROVE j + 1 \in Good
  <2> SUFFICES ASSUME j + 1 \in 1..n, NEW k \in 1..n,
                      NEW i \in 1..Len(L[j + 1]), NEW m \in 1..Len(L[k]), L[j + 1][i] = L[k][m]
               PROVE  j + 1 = k /\ i = m
    OBVIOUS
  <2>1. CASE j = 0 /\ k = 1
    <3>1. L[j + 1] = h /\ L[k] = h
      BY <1>1, <2>1
    <3> QED BY <2>1, <3>1
  <2>2. CASE j = 0 /\ k # 1
    <3>1. L[j + 1] = h
      BY <1>1, <2>2
    <3>2. PICK d : L[j + 1][i] = Leaf(d)
      BY <1>3, <3>1
    <3> HIDE DEF Good
    <3> QED BY <1>2, <2>2, <3>2, Hashes
  <2>3. CASE j # 0 /\ k = 1
    <3>1. L[k] = h /\ j + 1 # 1
      BY <1>1, <2>3
    <3>2. PICK d : L[k][m] = Leaf(d)
      BY <1>3, <3>1
    <3> HIDE DEF Good
    <3> QED BY <1>2, <3>1, <3>2, Hashes
  <2>4. CASE j # 0 /\ k # 1
    <3>1. /\ j \in 1..n
          /\ 2 * i - 1 \in 1..Len(L[j]) /\ L[j + 1][i] = Parent(L[j][2 * i - 1], L[j][2 * i])
      <4> DEFINE g == j + 1
      <4>1. g \in 1..n /\ i \in 1..Len(L[g]) /\ g # 1 /\ g - 1 = j
        BY <2>4
      <4> HIDE DEF Good, g
      <4>2. /\ g - 1 \in 1..n
            /\ 2 * i - 1 \in 1..Len(L[g - 1])
            /\ L[g][i] = Parent(L[g - 1][2 * i - 1], L[g - 1][2 * i])
        BY <1>2, <4>1
      <4> QED BY <4>1, <4>2 DEF g
    <3>2. /\ k - 1 \in 1..n
          /\ 2 * m - 1 \in 1..Len(L[k - 1]) /\ L[k][m] = Parent(L[k - 1][2 * m - 1], L[k - 1][2 * m])
      BY <1>2, <2>4
    <3>3. \A g \in 1..n : \A a \in 1..Len(L[j]), b \in 1..Len(L[g]) :
             L[j][a] = L[g][b] => j = g /\ a = b
      BY <1>5, <3>1
    <3> HIDE DEF Good
    <3> DEFINE g == k - 1
               a == 2 * i - 1
               b == 2 * m - 1
               y == L[j][2 * i]
               z == L[k - 1][2 * m]
    <3>4. Parent(L[j][a], y) = Parent(L[g][b], z)
      BY <3>1, <3>2
    <3>5. g \in 1..n /\ a \in 1..Len(L[j]) /\ b \in 1..Len(L[g])
      BY <3>1, <3>2
    <3> HIDE DEF g, a, b, y, z
    <3>6. L[j][a] = L[g][b]
      BY <3>4, Hashes
    <3>7. j = g /\ a = b
      BY <3>3, <3>5, <3>6
    <3>8. i \in Int /\ m \in Int /\ k \in Int /\ j \in Int
      BY <1>1
    <3> QED BY <3>7, <3>8 DEF g, a, b
  <2> QED BY <2>1, <2>2, <2>3, <2>4
<1>6. Nat \subseteq Good
  <2> HIDE DEF Good
  <2> QED BY <1>4, <1>5, Induction
<1> QED BY <1>1, <1>6

\* The nodes over a node, in the tree of the leaves h.
OverIn(x, tree) ==
    {p \in Range(tree) : Len(p) = 2 /\ p \in {Parent(x, p[2]), Parent(p[1], x)}}

\* It is the parent, and there is one unless the node is the last of an odd number.
LEMMA ParentIs ==
  ASSUME NEW h \in Seq(Leaves), \A i, j \in 1..Len(h) : h[i] = h[j] => i = j,
         NEW L, IsLevels(L, h), createTree(h) = FlattenSeq(L)
  PROVE  \A k \in 1..Len(h) : k + 1 \in 1..Len(h) =>
            \A m \in 1..Len(L[k]) : \A p : p = (m + 1) \div 2 =>
               /\ p \in 1..Len(L[k + 1]) => OverIn(L[k][m], createTree(h)) = {L[k + 1][p]}
               /\ p \notin 1..Len(L[k + 1]) => OverIn(L[k][m], createTree(h)) = {}
<1> TAKE k \in 1..Len(h)
<1> HAVE k + 1 \in 1..Len(h)
<1> TAKE m \in 1..Len(L[k])
<1> TAKE p
<1> HAVE p = (m + 1) \div 2
<1> DEFINE n == Len(h)
           x == L[k][m]
           T == Range(createTree(h))
           above == OverIn(x, createTree(h))
<1>1. /\ n \in Nat /\ \A j \in 1..n : Len(L[j]) \in Nat
  BY LevelFacts
<1>2. \A j \in 1..n : \A i \in 1..Len(L[j]) : j # 1 =>
            /\ j - 1 \in 1..n /\ (j - 1) + 1 = j
            /\ 2 * i - 1 \in 1..Len(L[j - 1]) /\ 2 * i \in 1..Len(L[j - 1])
            /\ L[j][i] = Parent(L[j - 1][2 * i - 1], L[j - 1][2 * i])
  BY UpperNodes
<1>3. \A i, j \in 1..n : \A a \in 1..Len(L[i]), b \in 1..Len(L[j]) :
            L[i][a] = L[j][b] => i = j /\ a = b
  BY NodesDiffer
<1>4. \A y : y \in T <=> \E j \in 1..n : \E i \in 1..Len(L[j]) : y = L[j][i]
  BY TreeRange
<1>5. \A y : y \in above <=> y \in T /\ \E s \in T : y = Parent(x, s) \/ y = Parent(s, x)
  <2>1. \A y : y \in above <=>
                  y \in T /\ Len(y) = 2 /\ (y = Parent(x, y[2]) \/ y = Parent(y[1], x))
    BY DEF OverIn
  <2>2. \A a, b : Len(Parent(a, b)) = 2 /\ Parent(a, b)[1] = a /\ Parent(a, b)[2] = b
    BY DEF Parent
  <2>3. \A d : Len(Leaf(d)) # 2
    BY DEF Leaf
  <2>4. ASSUME NEW y \in T, Len(y) = 2 PROVE y[1] \in T /\ y[2] \in T
    <3>0. PICK j \in 1..n : \E i \in 1..Len(L[j]) : y = L[j][i]
      BY <1>4, <2>4
    <3>1. PICK i \in 1..Len(L[j]) : y = L[j][i]
      BY <3>0
    <3>2. ASSUME j = 1 PROVE FALSE
      <4>1. L[1] = h
        BY DEF IsLevels
      <4>2. i \in 1..Len(h) /\ y = h[i]
        BY <3>1, <3>2, <4>1
      <4>3. h[i] \in Leaves
        BY <4>2
      <4>4. PICK d : y = Leaf(d)
        BY <4>2, <4>3 DEF Leaves
      <4> QED BY <2>3, <2>4, <4>4, Zenon
    <3>3. /\ y = Parent(L[j - 1][2 * i - 1], L[j - 1][2 * i])
          /\ L[j - 1][2 * i - 1] \in T /\ L[j - 1][2 * i] \in T
      BY <1>2, <1>4, <3>1, <3>2
    <3> QED BY <2>2, <3>3
  <2> HIDE DEF above, T
  <2>5. ASSUME NEW y \in above PROVE \E s \in T : y = Parent(x, s) \/ y = Parent(s, x)
    BY <2>1, <2>4, <2>5
  <2>6. ASSUME NEW y \in T, NEW s, y = Parent(x, s) \/ y = Parent(s, x) PROVE y \in above
    BY <2>1, <2>2, <2>6
  <2> QED BY <2>1, <2>5, <2>6
<1>6. m \in Nat \ {0} /\ p \in Nat \ {0} /\ (m = 2 * p - 1 \/ m = 2 * p)
  <2>1. \A a \in Nat \ {0} : /\ (a + 1) \div 2 \in Nat \ {0}
                             /\ a = 2 * ((a + 1) \div 2) - 1 \/ a = 2 * ((a + 1) \div 2)
    OBVIOUS
  <2>2. m \in Nat \ {0}
    BY <1>1
  <2> QED BY <2>1, <2>2
<1>7. \A a, b \in Int : /\ 2 * a = 2 * b => a = b
                        /\ 2 * a - 1 = 2 * b - 1 => a = b
                        /\ 2 * a # 2 * b - 1
  OBVIOUS
<1> HIDE DEF n, T, above, x
<1>8. ASSUME NEW y \in above PROVE p \in 1..Len(L[k + 1]) /\ y = L[k + 1][p]
  <2>1. PICK j \in 1..n : \E i \in 1..Len(L[j]) : y = L[j][i]
    BY <1>4, <1>5
  <2>2. PICK i \in 1..Len(L[j]) : y = L[j][i]
    BY <2>1
  <2>3. j # 1
    <3>1. PICK a, b : y = Parent(a, b)
      BY <1>5
    <3>2. ASSUME j = 1 PROVE FALSE
      <4>1. L[1] = h
        BY <1>1, <3>2, LevelFacts DEF n
      <4>2. i \in 1..Len(h) /\ y = h[i]
        BY <2>2, <3>2, <4>1
      <4>3. h[i] \in Leaves
        BY <4>2
      <4>4. PICK d : h[i] = Leaf(d)
        BY <4>3 DEF Leaves
      <4> QED BY <3>1, <4>2, <4>4, Hashes
    <3> QED BY <3>2
  <2> DEFINE g == j - 1
  <2>4. /\ g \in 1..n /\ g + 1 = j
        /\ 2 * i - 1 \in 1..Len(L[g]) /\ 2 * i \in 1..Len(L[g])
        /\ y = Parent(L[g][2 * i - 1], L[g][2 * i])
    BY <1>2, <2>2, <2>3
  <2> HIDE DEF g
  <2>5. x = L[g][2 * i - 1] \/ x = L[g][2 * i]
    <3>1. PICK s \in T : y = Parent(x, s) \/ y = Parent(s, x)
      BY <1>5
    <3> DEFINE a == L[g][2 * i - 1]
               b == L[g][2 * i]
    <3>2. y = Parent(a, b)
      BY <2>4
    <3> HIDE DEF a, b
    <3>3. x = a \/ x = b
      BY <3>1, <3>2, Hashes
    <3> QED BY <3>3 DEF a, b
  <2>6. k = g /\ (m = 2 * i - 1 \/ m = 2 * i)
    <3>1. k \in 1..n /\ m \in 1..Len(L[k])
      BY DEF n
    <3>2. \A c \in 1..Len(L[g]) : L[k][m] = L[g][c] => k = g /\ m = c
      BY <1>3, <2>4, <3>1
    <3> QED BY <2>4, <2>5, <3>2 DEF x
  <2>7. i = p
    <3>1. i \in Int /\ p \in Int
      BY <1>1, <1>6
    <3> QED BY <1>6, <1>7, <2>6, <3>1
  <2> QED BY <2>2, <2>4, <2>6, <2>7
<1>9. ASSUME p \in 1..Len(L[k + 1]) PROVE L[k + 1][p] \in above
  <2>1. k + 1 \in 1..n /\ k \in 1..n /\ k + 1 # 1 /\ (k + 1) - 1 = k
    BY DEF n
  <2>2. /\ 2 * p - 1 \in 1..Len(L[k]) /\ 2 * p \in 1..Len(L[k])
        /\ L[k + 1][p] = Parent(L[k][2 * p - 1], L[k][2 * p])
    BY <1>2, <1>9, <2>1
  <2>3. L[k][2 * p - 1] \in T /\ L[k][2 * p] \in T /\ L[k + 1][p] \in T
    BY <1>4, <1>9, <2>1, <2>2
  <2>4. x = L[k][2 * p - 1] \/ x = L[k][2 * p]
    BY <1>6 DEF x
  <2> QED BY <1>5, <2>2, <2>3, <2>4
<1>10. /\ p \in 1..Len(L[k + 1]) => above = {L[k + 1][p]}
       /\ p \notin 1..Len(L[k + 1]) => above = {}
  BY <1>8, <1>9
<1> QED BY <1>10 DEF above, x

\* Powers of two outgrow the numbers, so that Depth finds one.
LEMMA PowersGrow == \A n \in Nat : n + 1 <= PowerOfTwo(n)
<1> DEFINE P(n) == PowerOfTwo(n)
           Good == {n \in Nat : n + 1 <= P(n)}
<1>1. P(0) = 1 /\ \A n \in Nat : P(n) \in Nat \ {0} /\ P(n + 1) = 2 * P(n)
  BY PowersDouble
<1> HIDE DEF P
<1>2. 0 \in Good
  BY <1>1
<1>3. ASSUME NEW n \in Nat, n \in Good PROVE n + 1 \in Good
  <2>1. P(n) \in Nat /\ P(n + 1) = 2 * P(n) /\ n + 1 <= P(n)
    BY <1>1, <1>3
  <2> QED BY <2>1
<1>4. Nat \subseteq Good
  <2> HIDE DEF Good
  <2> QED BY <1>2, <1>3, Induction
<1> QED BY <1>4 DEF P

\* Depth is the largest power of two up to a number.
LEMMA DepthIs ==
  ASSUME NEW n \in Nat, n # 0
  PROVE  /\ Depth(n) \in 0..(n - 1)
         /\ PowerOfTwo(Depth(n)) <= n /\ n < 2 * PowerOfTwo(Depth(n))
<1> DEFINE P(k) == PowerOfTwo(k)
           Between(k, m) == P(k) <= m /\ m < P(k + 1)
           Good == {m \in Nat : m # 0 => \E k \in Nat : Between(k, m)}
<1>1. P(0) = 1 /\ \A k \in Nat : P(k) \in Nat \ {0} /\ P(k + 1) = 2 * P(k) /\ k + 1 <= P(k)
  BY PowersDouble, PowersGrow
<1>2. Depth(n) = CHOOSE k \in 0..n : Between(k, n)
  BY DEF Depth
<1> HIDE DEF P
<1>3. 0 \in Good
  OBVIOUS
<1>4. ASSUME NEW m \in Nat, m \in Good PROVE m + 1 \in Good
  <2>1. CASE m = 0
    <3>1. P(0) = 1 /\ P(0 + 1) = 2
      BY <1>1
    <3>2. Between(0, m + 1)
      BY <2>1, <3>1
    <3> QED BY <3>2
  <2>2. CASE m # 0
    <3>1. PICK k \in Nat : Between(k, m)
      BY <1>4, <2>2
    <3>2. /\ P(k) \in Nat /\ P(k + 1) = 2 * P(k) /\ P(k + 1) \in Nat
          /\ P((k + 1) + 1) = 2 * P(k + 1) /\ P(k + 1) # 0
      BY <1>1
    <3>3. CASE m + 1 < P(k + 1)
      <4>1. Between(k, m + 1)
        BY <3>1, <3>2, <3>3
      <4> QED BY <4>1
    <3>4. CASE ~ m + 1 < P(k + 1)
      <4>1. Between(k + 1, m + 1)
        BY <3>1, <3>2, <3>4
      <4> QED BY <4>1
    <3> QED BY <3>3, <3>4
  <2> QED BY <2>1, <2>2
<1>5. Nat \subseteq Good
  <2> HIDE DEF Good
  <2> QED BY <1>3, <1>4, Induction
<1>6. PICK k \in Nat : Between(k, n)
  BY <1>5
<1>7. k \in 0..n
  <2>1. P(k) \in Nat /\ k + 1 <= P(k)
    BY <1>1
  <2> QED BY <1>6, <2>1
<1>8. Depth(n) \in 0..n /\ Between(Depth(n), n)
  <2> HIDE DEF Between
  <2> QED BY <1>2, <1>6, <1>7
<1> DEFINE K == Depth(n)
<1> HIDE DEF K
<1>9. P(K) \in Nat /\ P(K + 1) = 2 * P(K) /\ K + 1 <= P(K) /\ K \in 0..n /\ Between(K, n)
  BY <1>1, <1>8 DEF K
<1>10. K \in 0..(n - 1) /\ P(K) <= n /\ n < 2 * P(K)
  BY <1>9
<1> QED BY <1>10 DEF K, P

\* The level j above the leaves covers the first leaves by groups of 2^j.
LEMMA LevelSizes ==
  ASSUME NEW H, NEW h \in Seq(H), Len(h) # 0, NEW L, IsLevels(L, h)
  PROVE  LET K == Depth(Len(h))
         IN  \A j \in 0..K : /\ j + 1 \in 1..Len(h)
                             /\ PowerOfTwo(K - j) <= Len(L[j + 1])
                             /\ Len(L[j + 1]) < 2 * PowerOfTwo(K - j)
<1> DEFINE n == Len(h)
           K == Depth(n)
           P(k) == PowerOfTwo(k)
           Good == {j \in Nat : j \in 0..K => P(K - j) <= Len(L[j + 1]) /\ Len(L[j + 1]) < 2 * P(K - j)}
<1>1. /\ n \in Nat /\ L[1] = h /\ \A k \in 1..n : Len(L[k]) \in Nat
      /\ Halving(L, n)
  BY LevelFacts
<1>2. /\ P(0) = 1 /\ \A k \in Nat : P(k) \in Nat \ {0} /\ P(k + 1) = 2 * P(k)
      /\ K \in 0..(n - 1) /\ P(K) <= n /\ n < 2 * P(K)
  BY <1>1, PowersDouble, DepthIs
<1> HIDE DEF P, K
<1>3. \A j \in 0..K : j + 1 \in 1..n
  BY <1>1, <1>2
<1>4. 0 \in Good
  <2>1. K - 0 = K /\ 0 + 1 = 1
    BY <1>1, <1>2
  <2>2. Len(L[0 + 1]) = n
    BY <1>1
  <2> QED BY <1>2, <2>1, <2>2
<1>5. ASSUME NEW j \in Nat, j \in Good PROVE j + 1 \in Good
  <2> SUFFICES ASSUME j + 1 \in 0..K
               PROVE  /\ P(K - (j + 1)) <= Len(L[(j + 1) + 1])
                      /\ Len(L[(j + 1) + 1]) < 2 * P(K - (j + 1))
    OBVIOUS
  <2>1. j \in 0..K /\ j + 1 \in 1..n /\ (j + 1) + 1 \in 1..n
    <3>1. j \in 0..K
      BY <1>1, <1>2
    <3> QED BY <1>3, <3>1
  <2>2. P(K - j) <= Len(L[j + 1]) /\ Len(L[j + 1]) < 2 * P(K - j)
    BY <1>5, <2>1
  <2> DEFINE i == K - (j + 1)
  <2>3. i \in Nat /\ i + 1 = K - j
    BY <1>1, <1>2, <2>1
  <2>4. Len(L[(j + 1) + 1]) = Len(L[j + 1]) \div 2 /\ Len(L[j + 1]) \in Nat
    BY <1>1, <2>1 DEF Halving
  <2> HIDE DEF i, Good
  <2>5. P(i) \in Nat /\ P(K - j) = 2 * P(i)
    BY <1>2, <2>3
  <2>6. \A a, b \in Nat : 2 * a <= b /\ b < 2 * (2 * a) => a <= b \div 2 /\ b \div 2 < 2 * a
    OBVIOUS
  <2>7. P(i) <= Len(L[j + 1]) \div 2 /\ Len(L[j + 1]) \div 2 < 2 * P(i)
    BY <2>2, <2>4, <2>5, <2>6
  <2> QED BY <2>4, <2>7 DEF i
<1>6. Nat \subseteq Good
  <2> HIDE DEF Good
  <2> QED BY <1>4, <1>5, Induction
<1>7. \A j \in 0..K : /\ j + 1 \in 1..n
                      /\ P(K - j) <= Len(L[j + 1]) /\ Len(L[j + 1]) < 2 * P(K - j)
  <2>1. \A j \in 0..K : j \in Nat
    BY <1>1, <1>2
  <2> QED BY <1>3, <1>6, <2>1
<1> QED BY <1>7 DEF K, P

\* The root is the node above them all.
LEMMA RootIs ==
  ASSUME NEW H, NEW h \in Seq(H), Len(h) # 0, NEW L, IsLevels(L, h),
         createTree(h) = FlattenSeq(L)
  PROVE  LET K == Depth(Len(h))
         IN  Len(L[K + 1]) = 1 /\ Last(createTree(h)) = L[K + 1][1]
<1> DEFINE n == Len(h)
           K == Depth(n)
           Good == {j \in Nat : j \in 1..n /\ j > K + 1 => Len(L[j]) = 0}
<1>1. /\ n \in Nat /\ L[1] = h /\ \A k \in 1..n : Len(L[k]) \in Nat
      /\ Halving(L, n) /\ L \in Seq(Seq(Nodes(L))) /\ Len(L) = n
  BY LevelFacts
<1>2. K \in 0..(n - 1)
  BY <1>1, DepthIs
<1>3. Len(L[K + 1]) = 1 /\ K + 1 \in 1..n
  <2>1. K \in 0..K
    BY <1>1, <1>2
  <2>2. PowerOfTwo(K - K) <= Len(L[K + 1]) /\ Len(L[K + 1]) < 2 * PowerOfTwo(K - K) /\ K + 1 \in 1..n
    BY <2>1, LevelSizes
  <2> DEFINE p == PowerOfTwo(K - K)
             len == Len(L[K + 1])
  <2> HIDE DEF K
  <2>3. K - K = 0 /\ len \in Nat
    BY <1>1, <1>2, <2>2
  <2>4. p = 1 /\ p <= len /\ len < 2 * p
    BY <2>2, <2>3, PowersDouble
  <2> HIDE DEF p, len
  <2>5. len = 1
    BY <2>3, <2>4
  <2> QED BY <2>2, <2>5 DEF len
<1> HIDE DEF K
<1>4. 0 \in Good
  OBVIOUS
<1>5. ASSUME NEW j \in Nat, j \in Good PROVE j + 1 \in Good
  <2> SUFFICES ASSUME j + 1 \in 1..n, j + 1 > K + 1 PROVE Len(L[j + 1]) = 0
    OBVIOUS
  <2>1. j \in 1..n /\ (j = K + 1 \/ j > K + 1)
    BY <1>1, <1>2
  <2>2. Len(L[j]) \in {0, 1}
    BY <1>3, <1>5, <2>1
  <2>3. Len(L[j + 1]) = Len(L[j]) \div 2
    BY <1>1, <2>1 DEF Halving
  <2> HIDE DEF Good
  <2>4. 0 \div 2 = 0 /\ 1 \div 2 = 0
    OBVIOUS
  <2> QED BY <2>2, <2>3, <2>4
<1>6. Nat \subseteq Good
  <2> HIDE DEF Good
  <2> QED BY <1>4, <1>5, Induction
<1>7. \A i \in 1..Len(L) : i > K + 1 => Len(L[i]) = 0
  BY <1>1, <1>6
<1>8. Last(FlattenSeq(L)) = Last(L[K + 1])
  <2>1. K + 1 \in 1..Len(L) /\ Len(L[K + 1]) # 0
    BY <1>1, <1>3
  <2> QED BY <1>1, <1>7, <2>1, FlattenLast
<1>9. Last(L[K + 1]) = L[K + 1][1]
  BY <1>3 DEF Last
<1> QED BY <1>3, <1>8, <1>9 DEF K

\* From a leaf upwards, level by level, in a tree of nodes T: up leads from a set of nodes
\* to those above them.
Climbs(f, leaf, k, up, V) ==
  /\ f = [j \in 0..k |-> f[j]]
  /\ \A j \in 0..k : f[j] = (IF j = 0 THEN {leaf} ELSE up[f[j - 1]]) /\ f[j] \in V

LEMMA ClimbExists ==
  \A leaf, k, V, up : k \in Nat /\ {leaf} \in V /\ (\A S \in V : up[S] \in V)
                        => \E f : Climbs(f, leaf, k, up, V)
<1> SUFFICES ASSUME NEW leaf, NEW k \in Nat, NEW V, NEW up, {leaf} \in V,
                    \A S \in V : up[S] \in V
             PROVE  \E f : Climbs(f, leaf, k, up, V)
  OBVIOUS
<1> DEFINE prev == [i \in 1..k |-> i - 1]
           step == [p \in (1..k) \X V |-> up[p[2]]]
<1>3. \A i \in 1..k : prev[i] = i - 1 /\ prev[i] \in 0..(i - 1)
  OBVIOUS
<1>4. \A i \in 1..k, S \in V : step[<<i, S>>] = up[S] /\ step[<<i, S>>] \in V
  OBVIOUS
<1> HIDE DEF prev, step
<1>5. PICK f \in [0..k -> V] : IsRecursiveTo(f, k, {leaf}, prev, step)
  BY <1>3, <1>4, NumberRecursion
<1>6. \A j \in 0..k : f[j] = (IF j = 0 THEN {leaf} ELSE up[f[j - 1]]) /\ f[j] \in V
  <2> TAKE j \in 0..k
  <2>1. CASE j = 0
    BY <1>5, <2>1 DEF IsRecursiveTo
  <2>2. CASE j # 0
    <3>1. j \in 1..k /\ j - 1 \in 0..k
      BY <2>2
    <3>2. f[j] = step[<<j, f[j - 1]>>] /\ f[j - 1] \in V
      BY <1>3, <1>5, <3>1 DEF IsRecursiveTo
    <3> QED BY <1>4, <1>5, <2>2, <3>1, <3>2
  <2> QED BY <2>1, <2>2
<1>7. f = [j \in 0..k |-> f[j]]
  BY <1>5
<1> QED BY <1>6, <1>7 DEF Climbs

IsLineage(over, leaf, k) ==
  /\ over[0] = {leaf}
  /\ \A j \in 1..k : over[j] = UNION {Over(x) : x \in over[j - 1]}

IsReached(after, leaf, k) ==
  /\ after[0] = {leaf}
  /\ \A j \in 1..k : after[j] = UNION {Above(x) : x \in after[j - 1]}

\* The recursive function that Reached chooses.
LEMMA ReachedIs ==
  \A leaf : \A k \in Nat : \E after : IsReached(after, leaf, k) /\ Reached(leaf, k) = after[k]
<1> SUFFICES ASSUME NEW leaf, NEW k \in Nat
             PROVE  \E after : IsReached(after, leaf, k) /\ Reached(leaf, k) = after[k]
  OBVIOUS
<1> DEFINE V == SUBSET (Range(nft.tree) \cup {leaf})
           all(S) == UNION {Above(x) : x \in S}
           up == [S \in V |-> all(S)]
           Is(f) == f = [j \in 0..k |-> IF j = 0 THEN {leaf} ELSE all(f[j - 1])]
           chosen == CHOOSE f : Is(f)
<1>1. \A S : all(S) \in V
  <2>1. \A x : Above(x) \subseteq Range(nft.tree)
    BY DEF Above, Over
  <2> QED BY <2>1
<1>2. {leaf} \in V
  OBVIOUS
<1> HIDE DEF all, V
<1>3. \A S \in V : up[S] = all(S) /\ up[S] \in V
  BY <1>1
<1> HIDE DEF up
<1>4. PICK f : Climbs(f, leaf, k, up, V)
  <2>1. \A S \in V : up[S] \in V
    BY <1>3
  <2>2. k \in Nat
    OBVIOUS
  <2> QED BY <1>2, <2>1, <2>2, ClimbExists, Zenon
<1>5. \A j \in 0..k : f[j] = IF j = 0 THEN {leaf} ELSE all(f[j - 1])
  <2>1. \A j \in 0..k : j # 0 => j - 1 \in 0..k
    OBVIOUS
  <2> QED BY <1>3, <1>4, <2>1 DEF Climbs
<1>6. Is(f)
  BY <1>4, <1>5 DEF Climbs
<1>9. ASSUME NEW g, Is(g)
      PROVE  g[0] = {leaf} /\ \A j \in 1..k : g[j] = all(g[j - 1])
  <2>1. \A j \in 0..k : g[j] = IF j = 0 THEN {leaf} ELSE all(g[j - 1])
    BY <1>9
  <2>2. 0 \in 0..k /\ \A j \in 1..k : j \in 0..k /\ j # 0
    OBVIOUS
  <2> HIDE DEF Is
  <2> QED BY <2>1, <2>2
<1>10. Reached(leaf, k) = chosen[k]
  BY Zenon DEF Reached, all
<1> HIDE DEF Is
<1>11. Is(chosen)
  BY <1>6
<1> HIDE DEF chosen
<1>12. chosen[0] = {leaf} /\ \A j \in 1..k : chosen[j] = all(chosen[j - 1])
  BY <1>9, <1>11
<1>13. \A j \in 1..k : chosen[j] = UNION {Above(x) : x \in chosen[j - 1]}
  BY <1>12 DEF all
<1> QED BY <1>10, <1>12, <1>13 DEF IsReached

\* The recursive function that Lineage chooses.
LEMMA LineageIs ==
  \A leaf : \A k \in Nat : IsLineage(Lineage(leaf, k), leaf, k)
<1> SUFFICES ASSUME NEW leaf, NEW k \in Nat PROVE IsLineage(Lineage(leaf, k), leaf, k)
  OBVIOUS
<1> DEFINE V == SUBSET (Range(nft.tree) \cup {leaf})
           all(S) == UNION {Over(x) : x \in S}
           up == [S \in V |-> all(S)]
           Is(f) == f = [j \in 0..k |-> IF j = 0 THEN {leaf} ELSE all(f[j - 1])]
           chosen == CHOOSE f : Is(f)
<1>1. \A S : all(S) \in V
  <2>1. \A x : Over(x) \subseteq Range(nft.tree)
    BY DEF Over
  <2> QED BY <2>1
<1>2. {leaf} \in V
  OBVIOUS
<1> HIDE DEF all, V
<1>3. \A S \in V : up[S] = all(S) /\ up[S] \in V
  BY <1>1
<1> HIDE DEF up
<1>4. PICK f : Climbs(f, leaf, k, up, V)
  <2>1. \A S \in V : up[S] \in V
    BY <1>3
  <2>2. k \in Nat
    OBVIOUS
  <2> QED BY <1>2, <2>1, <2>2, ClimbExists, Zenon
<1>5. \A j \in 0..k : f[j] = IF j = 0 THEN {leaf} ELSE all(f[j - 1])
  <2>1. \A j \in 0..k : j # 0 => j - 1 \in 0..k
    OBVIOUS
  <2> QED BY <1>3, <1>4, <2>1 DEF Climbs
<1>6. Is(f)
  BY <1>4, <1>5 DEF Climbs
<1>9. ASSUME NEW g, Is(g)
      PROVE  g[0] = {leaf} /\ \A j \in 1..k : g[j] = all(g[j - 1])
  <2>1. \A j \in 0..k : g[j] = IF j = 0 THEN {leaf} ELSE all(g[j - 1])
    BY <1>9
  <2>2. 0 \in 0..k /\ \A j \in 1..k : j \in 0..k /\ j # 0
    OBVIOUS
  <2> HIDE DEF Is
  <2> QED BY <2>1, <2>2
<1>10. Lineage(leaf, k) = chosen
  BY Zenon DEF Lineage, all
<1> HIDE DEF Is
<1>11. Is(chosen)
  BY <1>6
<1> HIDE DEF chosen
<1>12. chosen[0] = {leaf} /\ \A j \in 1..k : chosen[j] = all(chosen[j - 1])
  BY <1>9, <1>11
<1>13. \A j \in 1..k : chosen[j] = UNION {Over(x) : x \in chosen[j - 1]}
  BY <1>12 DEF all
<1>14. IsLineage(chosen, leaf, k)
  BY <1>12, <1>13 DEF IsLineage
<1> QED BY <1>10, <1>14

\* From the leaf i one node is reached at every level, until the last of an odd number.
LEMMA ProofsClimb ==
  ASSUME NEW h \in Seq(Leaves), \A i, j \in 1..Len(h) : h[i] = h[j] => i = j, Len(h) # 0,
         NEW L, IsLevels(L, h), createTree(h) = FlattenSeq(L), nft.tree = createTree(h),
         NEW K, K = Depth(Len(h)), NEW i \in 1..Len(h),
         NEW after, IsLineage(after, h[i], K)
  PROVE  /\ IF i <= PowerOfTwo(K) THEN after[K] = {L[K + 1][1]} ELSE after[K] = {}
         /\ \A j \in 0..K : \A x, y \in after[j] : x = y
<1>0. \A k \in 1..Len(h) : k + 1 \in 1..Len(h) =>
         \A m \in 1..Len(L[k]) : \A p : p = (m + 1) \div 2 =>
            /\ p \in 1..Len(L[k + 1]) => OverIn(L[k][m], createTree(h)) = {L[k + 1][p]}
            /\ p \notin 1..Len(L[k + 1]) => OverIn(L[k][m], createTree(h)) = {}
  BY ParentIs
<1> DEFINE n == Len(h)
           P(k) == PowerOfTwo(k)
           Climbed(S, j, m) == /\ m \in 1..Len(L[j + 1]) /\ S = {L[j + 1][m]}
                               /\ m <= P(K - j) <=> i <= P(K)
           Good == {j \in Nat : j \in 0..K =>
                       \/ \E m \in Nat : Climbed(after[j], j, m)
                       \/ after[j] = {} /\ ~ i <= P(K)}
<1>1. /\ n \in Nat /\ L[1] = h /\ \A k \in 1..n : Len(L[k]) \in Nat
  BY LevelFacts
<1>2. /\ P(0) = 1 /\ \A k \in Nat : P(k) \in Nat \ {0} /\ P(k + 1) = 2 * P(k)
      /\ K \in 0..(n - 1)
  BY <1>1, PowersDouble, DepthIs
<1>3. \A j \in 0..K : /\ j + 1 \in 1..n
                      /\ P(K - j) <= Len(L[j + 1]) /\ Len(L[j + 1]) < 2 * P(K - j)
  BY LevelSizes
<1>4. Len(L[K + 1]) = 1 /\ K \in Nat
  <2>1. K \in Nat
    <3> HIDE DEF n
    <3> QED BY <1>1, <1>2
  <2> QED BY <2>1, RootIs
<1>5. \A x : Over(x) = OverIn(x, createTree(h))
  BY DEF Over, OverIn
<1> HIDE DEF P
<1> USE DEF IsLineage
<1>6. 0 \in Good
  <2>1. K - 0 = K /\ 0 + 1 = 1 /\ i \in Nat /\ i \in 1..n
    BY <1>1, <1>2
  <2>2. Climbed(after[0], 0, i)
    BY <1>1, <2>1
  <2> QED BY <2>1, <2>2
<1>7. ASSUME NEW j \in Nat, j \in Good PROVE j + 1 \in Good
  <2> SUFFICES ASSUME j + 1 \in 0..K
               PROVE  \/ \E m \in Nat : Climbed(after[j + 1], j + 1, m)
                      \/ after[j + 1] = {} /\ ~ i <= P(K)
    OBVIOUS
  <2>1. j \in 0..K /\ j + 1 \in 1..n /\ (j + 1) + 1 \in 1..n
    <3>1. j \in 0..K
      BY <1>1, <1>2
    <3> QED BY <1>3, <3>1
  <2>2. after[j + 1] = UNION {Over(x) : x \in after[j]}
    <3>1. j + 1 \in 1..K /\ (j + 1) - 1 = j
      BY <1>1, <1>2
    <3> HIDE DEF Good
    <3> QED BY <3>1
  <2> HIDE DEF IsLineage
  <2>3. CASE after[j] = {} /\ ~ i <= P(K)
    BY <2>2, <2>3
  <2>4. ASSUME NEW m \in Nat, Climbed(after[j], j, m)
        PROVE  \/ \E q \in Nat : Climbed(after[j + 1], j + 1, q)
               \/ after[j + 1] = {} /\ ~ i <= P(K)
    <3> HIDE DEF Good
    <3> DEFINE p == (m + 1) \div 2
               up == Over(L[j + 1][m])
               k == K - (j + 1)
    <3>1. after[j + 1] = up
      BY <2>2, <2>4
    <3>2. /\ p \in 1..Len(L[(j + 1) + 1]) => up = {L[(j + 1) + 1][p]}
          /\ p \notin 1..Len(L[(j + 1) + 1]) => up = {}
      <4> DEFINE g == j + 1
      <4>1. g \in 1..Len(h) /\ g + 1 \in 1..Len(h) /\ m \in 1..Len(L[g])
        BY <2>1, <2>4
      <4>2. p = (m + 1) \div 2
        OBVIOUS
      <4> HIDE DEF g, p
      <4>3. up = OverIn(L[g][m], createTree(h))
        BY <1>5 DEF g
      <4> HIDE DEF up
      <4>4. /\ p \in 1..Len(L[g + 1]) => up = {L[g + 1][p]}
            /\ p \notin 1..Len(L[g + 1]) => up = {}
        BY <1>0, <4>1, <4>2, <4>3
      <4> QED BY <4>4 DEF g
    <3>3. k \in Nat /\ k + 1 = K - j
      BY <1>4, <2>1
    <3>4. P(k) <= Len(L[(j + 1) + 1]) /\ Len(L[(j + 1) + 1]) \in Nat
      BY <1>1, <1>3, <2>1
    <3>5. m \in Nat \ {0}
      BY <2>4
    <3> HIDE DEF up, k
    <3>6. P(k) \in Nat /\ P(K - j) = 2 * P(k)
      BY <1>2, <3>3
    <3>7. \A a \in Nat, b \in Nat \ {0} : /\ b <= 2 * a <=> (b + 1) \div 2 <= a
                                          /\ (b + 1) \div 2 \in Nat \ {0}
      OBVIOUS
    <3>8. (m <= P(K - j) <=> p <= P(k)) /\ p \in Nat \ {0}
      BY <3>5, <3>6, <3>7
    <3>9. p <= P(k) <=> i <= P(K)
      BY <2>4, <3>8
    <3> HIDE DEF p
    <3>10. CASE p \in 1..Len(L[(j + 1) + 1])
      <4>1. Climbed(after[j + 1], j + 1, p)
        BY <3>1, <3>2, <3>9, <3>10 DEF k
      <4> HIDE DEF Climbed
      <4> QED BY <3>8, <4>1
    <3>11. CASE p \notin 1..Len(L[(j + 1) + 1])
      <4>1. ~ p <= P(k)
        BY <3>4, <3>6, <3>8, <3>11
      <4> QED BY <3>1, <3>2, <3>9, <3>11, <4>1
    <3> QED BY <3>10, <3>11
  <2> HIDE DEF Climbed
  <2> QED BY <1>7, <2>1, <2>3, <2>4
<1> HIDE DEF IsLineage
<1>8. Nat \subseteq Good
  <2> HIDE DEF Good
  <2> QED BY <1>6, <1>7, Induction
<1>9. K \in Nat /\ K \in 0..K /\ K - K = 0
  BY <1>4
<1>10. \/ \E m \in Nat : Climbed(after[K], K, m)
       \/ after[K] = {} /\ ~ i <= P(K)
  <2> HIDE DEF Climbed
  <2> QED BY <1>8, <1>9
<1>11. ASSUME NEW m \in Nat, Climbed(after[K], K, m)
       PROVE  i <= P(K) /\ after[K] = {L[K + 1][1]}
  <2>1. m = 1
    BY <1>4, <1>11
  <2>2. m <= P(K - K)
    <3>1. P(K - K) = 1
      BY <1>2, <1>9
    <3> QED BY <2>1, <3>1
  <2> QED BY <1>11, <2>1, <2>2
<1> HIDE DEF Climbed
<1>12. IF i <= P(K) THEN after[K] = {L[K + 1][1]} ELSE after[K] = {}
  BY <1>10, <1>11
<1>13. \A j \in 0..K : \A x, y \in after[j] : x = y
  <2> TAKE j \in 0..K
  <2>1. \/ \E m \in Nat : Climbed(after[j], j, m)
        \/ after[j] = {} /\ ~ i <= P(K)
    <3>1. j \in Nat
      BY <1>4
    <3> QED BY <1>8, <3>1 DEF Good
  <2> QED BY <2>1 DEF Climbed
<1> QED BY <1>12, <1>13 DEF P

\* Hashes are compared as numbers.
TotalOrder ==
    /\ \A x, y : AtMost(x, y) \/ AtMost(y, x)
    /\ \A x, y : AtMost(x, y) /\ AtMost(y, x) => x = y

\* A proof leads to the nodes over a hash whose pair ascends.
LEMMA AboveIs ==
  ASSUME TotalOrder, NEW x
  PROVE  Above(x) = {p \in Over(x) : Ascends(p)}
<1>1. \A p : p \in Above(x) <=>
               p \in Over(x) /\ (SortedPair(x, p[1]) = p \/ SortedPair(x, p[2]) = p)
  <2>1. \A p, s : verify(<<s>>, p, x) <=> SortedPair(x, s) = p
    BY OneSibling DEF verify
  <2> QED BY <2>1 DEF Above
<1>2. ASSUME NEW p \in Over(x)
      PROVE  \E a, b : /\ p = Parent(a, b) /\ p[1] = a /\ p[2] = b
                       /\ a = x \/ b = x
  <2>1. PICK s : p = Parent(x, s) \/ p = Parent(s, x)
    BY DEF Over
  <2>2. \A a, b : Parent(a, b)[1] = a /\ Parent(a, b)[2] = b
    BY DEF Parent
  <2> QED BY <2>1, <2>2, Zenon
<1>3. ASSUME NEW p \in Over(x)
      PROVE  (SortedPair(x, p[1]) = p \/ SortedPair(x, p[2]) = p) <=> Ascends(p)
  <2>1. PICK a, b : p = Parent(a, b) /\ p[1] = a /\ p[2] = b /\ (a = x \/ b = x)
    BY <1>2
  <2>2. Ascends(p) <=> AtMost(a, b)
    BY <2>1, Zenon DEF Ascends
  <2>3. \A c, d : Parent(c, d) = p => c = a /\ d = b
    BY <2>1 DEF Parent
  <2>4. CASE AtMost(a, b)
    <3>1. SortedPair(x, a) = p \/ SortedPair(x, b) = p
      <4>1. CASE a = x
        BY <2>1, <2>4, <4>1 DEF SortedPair
      <4>2. CASE b = x
        <5>1. AtMost(b, a) => a = b
          BY <2>4 DEF TotalOrder
        <5> QED BY <2>1, <4>2, <5>1 DEF SortedPair
      <4> QED BY <2>1, <4>1, <4>2
    <3> QED BY <2>1, <2>2, <2>4, <3>1
  <2>5. CASE ~ AtMost(a, b)
    <3>1. ASSUME NEW s, SortedPair(x, s) = p PROVE FALSE
      <4>1. CASE AtMost(x, s)
        BY <2>3, <2>5, <3>1, <4>1 DEF SortedPair
      <4>2. CASE ~ AtMost(x, s)
        <5>1. AtMost(s, x)
          BY <4>2 DEF TotalOrder
        <5> QED BY <2>3, <2>5, <3>1, <4>2, <5>1 DEF SortedPair
      <4> QED BY <4>1, <4>2
    <3> QED BY <2>2, <2>5, <3>1
  <2> QED BY <2>4, <2>5
<1> QED BY <1>1, <1>3

\* Proofs follow the nodes over a leaf as long as their pairs ascend.
LEMMA ReachedFollows ==
  ASSUME TotalOrder, NEW K \in Nat, NEW leaf,
         NEW over, IsLineage(over, leaf, K), \A j \in 0..K : \A x, y \in over[j] : x = y,
         NEW after, IsReached(after, leaf, K)
  PROVE  after[K] = IF \A j \in 1..K : \A p \in over[j] : Ascends(p) THEN over[K] ELSE {}
<1> DEFINE sorted(k) == \A j \in 1..k : \A p \in over[j] : Ascends(p)
           Follows(k) == after[k] = IF sorted(k) THEN over[k] ELSE {}
           Good == {k \in Nat : k \in 0..K => Follows(k)}
<1>1. 0 \in Good
  <2>1. sorted(0)
    OBVIOUS
  <2>2. after[0] = over[0]
    BY DEF IsLineage, IsReached
  <2> HIDE DEF sorted
  <2> QED BY <2>1, <2>2
<1>2. ASSUME NEW k \in Nat, k \in Good PROVE k + 1 \in Good
  <2> SUFFICES ASSUME k + 1 \in 0..K PROVE Follows(k + 1)
    OBVIOUS
  <2>1. k \in 0..K /\ k + 1 \in 1..K /\ (k + 1) - 1 = k /\ 1..(k + 1) = 1..k \cup {k + 1}
    OBVIOUS
  <2>2. after[k] = IF sorted(k) THEN over[k] ELSE {}
    BY <1>2, <2>1
  <2>3. /\ over[k + 1] = UNION {Over(x) : x \in over[k]}
        /\ after[k + 1] = UNION {Above(x) : x \in after[k]}
    BY <2>1 DEF IsLineage, IsReached
  <2>4. \A x, y \in over[k + 1] : x = y
    BY <2>1
  <2>5. sorted(k + 1) <=> sorted(k) /\ \A p \in over[k + 1] : Ascends(p)
    BY <2>1
  <2> HIDE DEF sorted
  <2>6. CASE ~ sorted(k)
    <3>1. after[k + 1] = {} /\ ~ sorted(k + 1)
      BY <2>2, <2>3, <2>5, <2>6
    <3> QED BY <3>1
  <2>7. CASE sorted(k)
    <3>1. after[k + 1] = {p \in over[k + 1] : Ascends(p)}
      <4>1. after[k + 1] = UNION {Above(x) : x \in over[k]}
        BY <2>2, <2>3, <2>7
      <4>2. \A p : p \in after[k + 1] <=> \E x \in over[k] : p \in Above(x)
        BY <4>1
      <4>3. \A p : p \in over[k + 1] <=> \E x \in over[k] : p \in Over(x)
        BY <2>3
      <4>4. \A x, p : p \in Above(x) <=> p \in Over(x) /\ Ascends(p)
        BY AboveIs
      <4> QED BY <4>2, <4>3, <4>4
    <3>2. CASE \A p \in over[k + 1] : Ascends(p)
      BY <2>5, <2>7, <3>1, <3>2
    <3>3. ASSUME NEW p \in over[k + 1], ~ Ascends(p) PROVE Follows(k + 1)
      <4>1. after[k + 1] = {} /\ ~ sorted(k + 1)
        BY <2>4, <2>5, <3>1, <3>3
      <4> QED BY <4>1
    <3> HIDE DEF Follows
    <3> QED BY <3>2, <3>3
  <2> QED BY <2>6, <2>7
<1>3. Nat \subseteq Good
  <2> HIDE DEF Good
  <2> QED BY <1>1, <1>2, Induction
<1>4. K \in 0..K
  OBVIOUS
<1> QED BY <1>3, <1>4

\* The invariant implies the property.
LEMMA InvRoot == ASSUME NFTAssumption, TotalOrder, NFTInv PROVE RootCoversPowerOfTwo
<1> DEFINE h == nft.hashes
           n == Len(h)
           K == Depth(n)
<1> SUFFICES ASSUME n > 0, NEW i \in 1..n
             PROVE  LET over == Lineage(h[i], K)
                    IN  /\ getRoot \in over[K] <=> i <= PowerOfTwo(K)
                        /\ getRoot \in Reached(h[i], K)
                              <=> i <= PowerOfTwo(K) /\ \A j \in 1..K : \A p \in over[j] : Ascends(p)
  BY DEF RootCoversPowerOfTwo
<1>1. /\ h \in Seq(Leaves) /\ \A a, b \in 1..Len(h) : h[a] = h[b] => a = b
      /\ nft.tree = createTree(h)
  <2>1. nft \in Storages /\ Len(calls) \in Nat /\ Before(nft, calls, Len(calls)) = nft
    BY StackTypes DEF NFTInv
  <2>2. Consistent(nft, Open(calls, Len(calls)))
    <3>1. Len(calls) \in 0..Len(calls)
      BY <2>1
    <3> QED BY <2>1, <3>1 DEF NFTInv, StackInv
  <2> QED BY <2>1, <2>2 DEF Storages, Consistent, AllListed
<1> HIDE DEF h
<1>2. n \in Nat /\ n # 0
  BY <1>1
<1>3. PICK L : IsLevels(L, h) /\ createTree(h) = FlattenSeq(L)
  BY <1>1, LevelsExist
<1>4. Last(createTree(h)) = L[K + 1][1]
  BY <1>1, <1>2, <1>3, RootIs
<1>5. K \in Nat
  <2>1. K \in 0..(n - 1)
    BY <1>2, DepthIs
  <2> QED BY <1>2, <2>1
<1> DEFINE over == Lineage(h[i], K)
<1>6. IsLineage(over, h[i], K)
  <2> HIDE DEF K
  <2> QED BY <1>5, LineageIs, Zenon
<1> HIDE DEF over
<1>7. /\ IF i <= PowerOfTwo(K) THEN over[K] = {L[K + 1][1]} ELSE over[K] = {}
      /\ \A j \in 0..K : \A x, y \in over[j] : x = y
  <2> DEFINE k == K
  <2>1. k = Depth(Len(h)) /\ IsLineage(over, h[i], k)
    BY <1>6
  <2> HIDE DEF k
  <2>2. /\ IF i <= PowerOfTwo(k) THEN over[k] = {L[k + 1][1]} ELSE over[k] = {}
        /\ \A j \in 0..k : \A x, y \in over[j] : x = y
    BY <1>1, <1>2, <1>3, <2>1, ProofsClimb
  <2> QED BY <2>2 DEF k
<1>8. getRoot = L[K + 1][1]
  BY <1>1, <1>4 DEF getRoot
<1> DEFINE reached == Reached(h[i], K)
           covered == i <= PowerOfTwo(K)
           sorted == \A j \in 1..K : \A p \in over[j] : Ascends(p)
<1>10. PICK after : IsReached(after, h[i], K) /\ reached = after[K]
  <2> HIDE DEF K
  <2> QED BY <1>5, ReachedIs, Zenon
<1>11. after[K] = IF sorted THEN over[K] ELSE {}
  <2> DEFINE k == K
             first == h[i]
  <2>1. k \in Nat /\ IsLineage(over, first, k) /\ IsReached(after, first, k)
    BY <1>5, <1>6, <1>10
  <2>2. \A j \in 0..k : \A x, y \in over[j] : x = y
    BY <1>7
  <2> HIDE DEF k, first
  <2>3. after[k] = IF \A j \in 1..k : \A p \in over[j] : Ascends(p) THEN over[k] ELSE {}
    BY <2>1, <2>2, ReachedFollows
  <2> QED BY <2>3 DEF k
<1>12. over[K] = IF covered THEN {getRoot} ELSE {}
  BY <1>7, <1>8
<1> HIDE DEF reached, covered, sorted
<1>13. getRoot \in over[K] <=> covered
  BY <1>12
<1>14. getRoot \in reached <=> covered /\ sorted
  BY <1>10, <1>11, <1>12
<1> QED BY <1>13, <1>14 DEF reached, covered, sorted, over

\* The root covers the first 2^k of n leaves, 2^k being the largest power of two up to n,
\* and of these exactly those can be proved on whose way to the root every pair ascends:
\* for any supply and any total order of the hashes.
THEOREM RootProvesPowerOfTwo == ASSUME TotalOrder PROVE PageSpec => []RootCoversPowerOfTwo
<1>1. PageInit => NFTInv
  BY NFTAssumption, InitNFT DEF PageInit
<1>2. NFTInv /\ [PageNext]_allVars => NFTInv'
  BY NFTAssumption, PageAssumption, PageStepsAreCalls, NextNFT
<1>3. NFTInv => RootCoversPowerOfTwo
  BY NFTAssumption, InvRoot
<1> QED BY <1>1, <1>2, <1>3, PTL DEF PageSpec

-----------------------------------------------------------------------------
(* What the page has, and what its calls have been told. *)

\* What the page shows is no older than c allows: the bounds hold for storage c.
Fields == {"address", "NFTsNr", "receiver", "root", "leaves", "leavesLength", "tree", "treeLength"}

PageOK(p, c) ==
    /\ DOMAIN p = Fields
    /\ p.NFTsNr # <<>> => p.NFTsNr[1] \in Int /\ c.NFTsLeft <= p.NFTsNr[1]
    /\ p.root # <<>> => p.root[1] \in Range(c.tree)
    /\ p.tree # <<>> => /\ Range(p.tree[1]) \subseteq Range(c.tree)
                        /\ Len(p.tree[1]) <= p.treeLength[1]

\* How far a call is that asks once, or twice.
AfterOne(t, view) == DOMAIN t.got = IF t.at = "asked" THEN {} ELSE {view}
AfterTwo(t, first, second) ==
    DOMAIN t.got \in IF t.at = "asked" THEN {{}, {first}} ELSE {{first}, {first, second}}

\* Its answers so far.  Those of a mint are a receiver only.
AnswersOK(got, c) ==
    /\ "NFTsLeft" \in DOMAIN got => got["NFTsLeft"] \in Int /\ c.NFTsLeft <= got["NFTsLeft"]
    /\ "getRoot" \in DOMAIN got => got["getRoot"] \in Range(c.tree)
    /\ "getTree" \in DOMAIN got => /\ Len(got["getTree"]) \in Nat
                                   /\ Len(got["getTree"]) <= Len(c.tree)
                                   /\ Range(got["getTree"]) \subseteq Range(c.tree)
    /\ "getTreeLength" \in DOMAIN got => /\ got["getTreeLength"] \in Int
                                         /\ Len(got["getTree"]) <= got["getTreeLength"]

Stage(t) ==
    \/ t.fn = "loadWeb3"  /\ AfterOne(t, "eth_requestAccounts")
    \/ t.fn = "nftsleft"  /\ AfterOne(t, "NFTsLeft")
    \/ t.fn = "getRoot"   /\ AfterOne(t, "getRoot")
    \/ t.fn = "getLeaves" /\ AfterTwo(t, "getLeaves", "getLeavesLength")
    \/ t.fn = "getTree"   /\ AfterTwo(t, "getTree", "getTreeLength")
    \/ t.fn = "mintNFT"   /\ DOMAIN t.got = {"receiver"}

TaskOK(t, c) ==
    /\ DOMAIN t = {"fn", "at", "got"} /\ t.at \in {"asked", "answered"}
    /\ Stage(t)
    /\ AnswersOK(t.got, c)

TasksOK(s, c) == \E S : s \in Seq(S) /\ \A t \in S : TaskOK(t, c)

PageInv == \/ page = <<>> /\ tasks = <<>>
           \/ PageOK(page, Mined) /\ TasksOK(tasks, Mined)

\* What the page shows stays right as the storage grows.
LEMMA PageStays ==
  ASSUME NEW c \in Storages, NEW d \in Storages, Grows(c, d), NEW p, PageOK(p, c)
  PROVE  PageOK(p, d)
<1>1. /\ c.NFTsLeft \in Int /\ d.NFTsLeft \in Int /\ d.NFTsLeft <= c.NFTsLeft
      /\ Range(c.tree) \subseteq Range(d.tree)
  BY DEF Storages, Grows
<1>2. p.NFTsNr # <<>> => p.NFTsNr[1] \in Int /\ d.NFTsLeft <= p.NFTsNr[1]
  BY <1>1 DEF PageOK
<1> QED BY <1>1, <1>2 DEF PageOK

\* So do the answers that the calls hold.
LEMMA TasksStay ==
  ASSUME NEW c \in Storages, NEW d \in Storages, Grows(c, d), NEW s, TasksOK(s, c)
  PROVE  TasksOK(s, d)
<1>1. /\ c.NFTsLeft \in Int /\ d.NFTsLeft \in Int /\ d.NFTsLeft <= c.NFTsLeft
      /\ Range(c.tree) \subseteq Range(d.tree)
      /\ Len(c.tree) \in Nat /\ Len(d.tree) \in Nat /\ Len(c.tree) <= Len(d.tree)
  BY TreeLength DEF Storages, Grows
<1>2. ASSUME NEW got, AnswersOK(got, c) PROVE AnswersOK(got, d)
  <2>1. "NFTsLeft" \in DOMAIN got => got["NFTsLeft"] \in Int /\ d.NFTsLeft <= got["NFTsLeft"]
    BY <1>1, <1>2 DEF AnswersOK
  <2>2. "getTree" \in DOMAIN got => /\ Len(got["getTree"]) \in Nat
                                    /\ Len(got["getTree"]) <= Len(d.tree)
                                    /\ Range(got["getTree"]) \subseteq Range(d.tree)
    BY <1>1, <1>2 DEF AnswersOK
  <2> QED BY <1>1, <1>2, <2>1, <2>2 DEF AnswersOK
<1>3. ASSUME NEW t, TaskOK(t, c) PROVE TaskOK(t, d)
  BY <1>2, <1>3 DEF TaskOK
<1> QED BY <1>3 DEF TasksOK

\* A call is added.
LEMMA AddTask ==
  ASSUME NEW c, NEW s, TasksOK(s, c), NEW t, TaskOK(t, c)
  PROVE  TasksOK(Append(s, t), c)
<1>1. PICK S : s \in Seq(S) /\ \A u \in S : TaskOK(u, c)
  BY DEF TasksOK
<1> DEFINE T == S \cup {t}
<1>2. s \in Seq(T) /\ t \in T
  BY <1>1
<1>3. \A u \in T : TaskOK(u, c)
  BY <1>1
<1> HIDE DEF T
<1>4. Append(s, t) \in Seq(T)
  BY <1>2
<1> QED BY <1>3, <1>4 DEF TasksOK

\* A call goes on.
LEMMA ReplaceTask ==
  ASSUME NEW c, NEW s, TasksOK(s, c), NEW i \in DOMAIN s, NEW t, TaskOK(t, c)
  PROVE  TasksOK([s EXCEPT ![i] = t], c)
<1>1. PICK S : s \in Seq(S) /\ \A u \in S : TaskOK(u, c)
  BY DEF TasksOK
<1> DEFINE T == S \cup {t}
<1>2. s \in Seq(T) /\ t \in T
  BY <1>1
<1>3. \A u \in T : TaskOK(u, c)
  BY <1>1
<1> HIDE DEF T
<1>4. [s EXCEPT ![i] = t] \in Seq(T)
  BY <1>2
<1> QED BY <1>3, <1>4 DEF TasksOK

\* A call ends.
LEMMA DropTask ==
  ASSUME NEW c, NEW s, TasksOK(s, c), NEW i \in DOMAIN s
  PROVE  TasksOK(RemoveAt(s, i), c)
<1>1. PICK S : s \in Seq(S) /\ \A u \in S : TaskOK(u, c)
  BY DEF TasksOK
<1>2. Len(s) \in Nat /\ i \in 1..Len(s) /\ \A j \in 1..Len(s) : s[j] \in S
  BY <1>1
<1>3. SubSeq(s, 1, i - 1) \in Seq(S)
  <2>1. i - 1 \in Int /\ \A j \in 1..(i - 1) : s[j] \in S
    BY <1>2
  <2> QED BY <2>1, SubSeqProperties
<1>4. SubSeq(s, i + 1, Len(s)) \in Seq(S)
  <2>1. i + 1 \in Int /\ Len(s) \in Int /\ \A j \in (i + 1)..Len(s) : s[j] \in S
    BY <1>2
  <2> QED BY <2>1, SubSeqProperties
<1>5. RemoveAt(s, i) \in Seq(S)
  BY <1>3, <1>4, ConcatProperties DEF RemoveAt
<1> QED BY <1>1, <1>5 DEF TasksOK

\* Each call is as the invariant says.
LEMMA TheTask ==
  ASSUME NEW c, NEW s, TasksOK(s, c), NEW i \in DOMAIN s PROVE TaskOK(s[i], c)
<1>1. PICK S : s \in Seq(S) /\ \A u \in S : TaskOK(u, c)
  BY DEF TasksOK
<1> QED BY <1>1

\* A call that was told nothing.
LEMMA NewCall ==
  ASSUME NEW c, NEW fn \in {"loadWeb3", "nftsleft", "getRoot", "getLeaves", "getTree"}
  PROVE  TaskOK(Call(fn), c)
<1>1. /\ Call(fn).fn = fn /\ Call(fn).at = "asked" /\ DOMAIN Call(fn).got = {}
      /\ DOMAIN Call(fn) = {"fn", "at", "got"}
  BY DEF Call
<1> QED BY <1>1 DEF TaskOK, Stage, AfterOne, AfterTwo, AnswersOK

\* A mint that the wallet is asked for.
LEMMA NewMint ==
  ASSUME NEW c, NEW who
  PROVE  TaskOK([Call("mintNFT") EXCEPT !.got = [receiver |-> who]], c)
<1> DEFINE t == [Call("mintNFT") EXCEPT !.got = [receiver |-> who]]
<1>1. /\ t.fn = "mintNFT" /\ t.at = "asked" /\ DOMAIN t.got = {"receiver"}
      /\ DOMAIN t = {"fn", "at", "got"}
  BY DEF Call
<1> HIDE DEF t
<1>2. TaskOK(t, c)
  BY <1>1 DEF TaskOK, Stage, AnswersOK
<1> QED BY <1>2 DEF t

\* Which view a call asks next.
LEMMA AwaitedIs ==
  ASSUME NEW t
  PROVE  /\ t.fn = "loadWeb3" /\ DOMAIN t.got = {} => Awaited(t) = "eth_requestAccounts"
         /\ t.fn = "nftsleft" /\ DOMAIN t.got = {} => Awaited(t) = "NFTsLeft"
         /\ t.fn = "getRoot" /\ DOMAIN t.got = {} => Awaited(t) = "getRoot"
         /\ t.fn = "getLeaves" /\ DOMAIN t.got = {} => Awaited(t) = "getLeaves"
         /\ t.fn = "getLeaves" /\ DOMAIN t.got = {"getLeaves"} => Awaited(t) = "getLeavesLength"
         /\ t.fn = "getTree" /\ DOMAIN t.got = {} => Awaited(t) = "getTree"
         /\ t.fn = "getTree" /\ DOMAIN t.got = {"getTree"} => Awaited(t) = "getTreeLength"
<1>1. Cardinality({}) = 0 /\ \A x : Cardinality({x}) = 1
  BY FS_EmptySet, FS_Singleton
<1>2. /\ Reads("loadWeb3") = <<"eth_requestAccounts">>
      /\ Reads("nftsleft") = <<"NFTsLeft">>
      /\ Reads("getRoot") = <<"getRoot">>
      /\ Reads("getLeaves") = <<"getLeaves", "getLeavesLength">>
      /\ Reads("getTree") = <<"getTree", "getTreeLength">>
  BY DEF Reads, TreeReads
<1>3. ASSUME DOMAIN t.got = {} PROVE Awaited(t) = Reads(t.fn)[1]
  BY <1>1, <1>3 DEF Awaited
<1>4. ASSUME NEW x, DOMAIN t.got = {x} PROVE Awaited(t) = Reads(t.fn)[2]
  <2>1. Cardinality(DOMAIN t.got) = 1
    BY <1>1, <1>4
  <2> DEFINE n == Cardinality(DOMAIN t.got) + 1
  <2>2. n = 2
    BY <2>1
  <2> HIDE DEF n
  <2>3. Awaited(t) = Reads(t.fn)[n]
    BY DEF Awaited, n
  <2> QED BY <2>2, <2>3
<1>5. t.fn = "loadWeb3" /\ DOMAIN t.got = {} => Awaited(t) = "eth_requestAccounts"
  BY <1>2, <1>3
<1>6. t.fn = "nftsleft" /\ DOMAIN t.got = {} => Awaited(t) = "NFTsLeft"
  BY <1>2, <1>3
<1>7. t.fn = "getRoot" /\ DOMAIN t.got = {} => Awaited(t) = "getRoot"
  BY <1>2, <1>3
<1>8. t.fn = "getLeaves" /\ DOMAIN t.got = {} => Awaited(t) = "getLeaves"
  BY <1>2, <1>3
<1>9. ASSUME t.fn = "getLeaves", DOMAIN t.got = {"getLeaves"} PROVE Awaited(t) = "getLeavesLength"
  <2>1. Awaited(t) = Reads(t.fn)[2]
    BY <1>4, <1>9
  <2> QED BY <1>2, <1>9, <2>1
<1>10. t.fn = "getTree" /\ DOMAIN t.got = {} => Awaited(t) = "getTree"
  BY <1>2, <1>3
<1>11. ASSUME t.fn = "getTree", DOMAIN t.got = {"getTree"} PROVE Awaited(t) = "getTreeLength"
  <2>1. Awaited(t) = Reads(t.fn)[2]
    BY <1>4, <1>11
  <2> QED BY <1>2, <1>11, <2>1
<1> QED BY <1>5, <1>6, <1>7, <1>8, <1>9, <1>10, <1>11

\* A call gets one more answer, of a storage that grew no further than c.
LEMMA AnswerKeeps ==
  ASSUME nft \in Storages, NEW t, TaskOK(t, nft), t.at = "asked", t.fn # "mintNFT",
         Awaited(t) = "getRoot" => nft.tree # <<>>
  PROVE  TaskOK([[t EXCEPT !.got = With(@, Awaited(t), Answer(Awaited(t)))] EXCEPT !.at = "answered"],
                nft)
<1> DEFINE view == Awaited(t)
           got == With(t.got, view, Answer(view))
           u == [[t EXCEPT !.got = With(@, Awaited(t), Answer(Awaited(t)))] EXCEPT !.at = "answered"]
<1>1. /\ DOMAIN u = {"fn", "at", "got"} /\ u.fn = t.fn /\ u.at = "answered" /\ u.got = got
  BY DEF TaskOK
<1> DEFINE before == t.got
           value == Answer(view)
<1>2. /\ DOMAIN got = DOMAIN t.got \cup {view} /\ got[view] = Answer(view)
      /\ \A j \in DOMAIN t.got : j # view => got[j] = t.got[j]
  <2>1. got = With(before, view, value)
    OBVIOUS
  <2> HIDE DEF before, view, value, got, u
  <2>2. DOMAIN got = DOMAIN before \cup {view} /\ got[view] = value
    BY <2>1 DEF With
  <2>3. \A j \in DOMAIN before : j # view => got[j] = before[j]
    BY <2>1 DEF With
  <2> QED BY <2>2, <2>3 DEF before, value
<1>3. AnswersOK(t.got, nft) /\ Stage(t)
  BY DEF TaskOK
<1> HIDE DEF view, got, u, before, value
<1>4. /\ nft.NFTsLeft \in Int /\ Len(nft.tree) \in Nat
  BY TreeLength DEF Storages
<1>5. CASE t.fn = "loadWeb3" \/ t.fn = "getLeaves"
  <2>1. \/ t.fn = "loadWeb3" /\ DOMAIN t.got = {} /\ view = "eth_requestAccounts"
        \/ t.fn = "getLeaves" /\ DOMAIN t.got = {} /\ view = "getLeaves"
        \/ t.fn = "getLeaves" /\ DOMAIN t.got = {"getLeaves"} /\ view = "getLeavesLength"
    BY <1>3, <1>5, AwaitedIs DEF Stage, AfterOne, AfterTwo, view
  <2>2. Stage(u)
    BY <1>1, <1>2, <2>1 DEF Stage, AfterOne, AfterTwo
  <2>3. AnswersOK(got, nft)
    BY <1>2, <2>1 DEF AnswersOK
  <2>9. TaskOK(u, nft)
    BY <1>1, <2>2, <2>3 DEF TaskOK
  <2> QED BY <2>9 DEF u
<1>6. CASE t.fn = "nftsleft"
  <2>1. DOMAIN t.got = {} /\ view = "NFTsLeft"
    BY <1>3, <1>6, AwaitedIs DEF Stage, AfterOne, view
  <2>2. DOMAIN got = {"NFTsLeft"} /\ got["NFTsLeft"] = nft.NFTsLeft
    BY <1>2, <2>1 DEF Answer
  <2>3. Stage(u)
    BY <1>1, <1>6, <2>2 DEF Stage, AfterOne
  <2>4. AnswersOK(got, nft)
    BY <1>4, <2>2 DEF AnswersOK
  <2>9. TaskOK(u, nft)
    BY <1>1, <2>3, <2>4 DEF TaskOK
  <2> QED BY <2>9 DEF u
<1>7. CASE t.fn = "getRoot"
  <2>1. DOMAIN t.got = {} /\ view = "getRoot"
    BY <1>3, <1>7, AwaitedIs DEF Stage, AfterOne, view
  <2>2. DOMAIN got = {"getRoot"} /\ got["getRoot"] = Last(nft.tree)
    BY <1>2, <2>1 DEF Answer, getRoot
  <2>3. Last(nft.tree) \in Range(nft.tree)
    <3>1. PICK V : nft.tree \in Seq(V)
      BY TreeIsList
    <3>2. nft.tree # <<>>
      BY <2>1 DEF view
    <3>3. Len(nft.tree) # 0
      BY <3>1, <3>2, EmptySeq
    <3>4. Len(nft.tree) \in DOMAIN nft.tree
      BY <3>1, <3>3
    <3> QED BY <3>4 DEF Last, Range
  <2>4. Stage(u)
    BY <1>1, <1>7, <2>2 DEF Stage, AfterOne
  <2>5. AnswersOK(got, nft)
    BY <2>2, <2>3 DEF AnswersOK
  <2>9. TaskOK(u, nft)
    BY <1>1, <2>4, <2>5 DEF TaskOK
  <2> QED BY <2>9 DEF u
<1>8. CASE t.fn = "getTree" /\ DOMAIN t.got = {}
  <2>1. view = "getTree"
    BY <1>8, AwaitedIs DEF view
  <2>2. DOMAIN got = {"getTree"} /\ got["getTree"] = nft.tree
    BY <1>2, <1>8, <2>1 DEF Answer
  <2>3. Stage(u)
    BY <1>1, <1>8, <2>2 DEF Stage, AfterTwo
  <2>4. AnswersOK(got, nft)
    BY <1>4, <2>2 DEF AnswersOK
  <2>9. TaskOK(u, nft)
    BY <1>1, <2>3, <2>4 DEF TaskOK
  <2> QED BY <2>9 DEF u
<1>9. CASE t.fn = "getTree" /\ DOMAIN t.got = {"getTree"}
  <2>1. view = "getTreeLength"
    BY <1>9, AwaitedIs DEF view
  <2>2. /\ DOMAIN got = {"getTree", "getTreeLength"} /\ got["getTree"] = t.got["getTree"]
        /\ got["getTreeLength"] = Len(nft.tree)
    BY <1>2, <1>9, <2>1 DEF Answer
  <2>3. Stage(u)
    BY <1>1, <1>9, <2>2 DEF Stage, AfterTwo
  <2>4. /\ Len(t.got["getTree"]) \in Nat /\ Len(t.got["getTree"]) <= Len(nft.tree)
        /\ Range(t.got["getTree"]) \subseteq Range(nft.tree)
    BY <1>3, <1>9 DEF AnswersOK
  <2>5. AnswersOK(got, nft)
    BY <1>4, <2>2, <2>4 DEF AnswersOK
  <2>9. TaskOK(u, nft)
    BY <1>1, <2>3, <2>5 DEF TaskOK
  <2> QED BY <2>9 DEF u
<1>10. \/ t.fn = "loadWeb3" \/ t.fn = "getLeaves"
       \/ t.fn = "nftsleft"
       \/ t.fn = "getRoot"
       \/ t.fn = "getTree" /\ DOMAIN t.got = {}
       \/ t.fn = "getTree" /\ DOMAIN t.got = {"getTree"}
  BY <1>3 DEF Stage, AfterTwo
<1> QED BY <1>5, <1>6, <1>7, <1>8, <1>9, <1>10

\* The code after the last await.
LEMMA SettledKeeps ==
  ASSUME NEW c, PageOK(page, c), NEW t, TaskOK(t, c), t.at = "answered", t.fn # "mintNFT",
         Complete(t)
  PROVE  PageOK(Settled(t.fn, t.got), c)
<1> DEFINE p == Settled(t.fn, t.got)
<1>1. DOMAIN page = Fields /\ AnswersOK(t.got, c) /\ Stage(t)
  BY DEF PageOK, TaskOK
<1>2. CASE t.fn = "loadWeb3"
  <2>1. p = [page EXCEPT !.address = <<t.got.eth_requestAccounts>>]
    BY <1>2 DEF Settled
  <2> HIDE DEF p
  <2>2. /\ DOMAIN p = Fields /\ p.NFTsNr = page.NFTsNr /\ p.root = page.root
        /\ p.tree = page.tree /\ p.treeLength = page.treeLength
    BY <1>1, <2>1 DEF Fields
  <2>3. PageOK(p, c)
    BY <2>2 DEF PageOK
  <2> QED BY <2>3 DEF p
<1>3. CASE t.fn = "nftsleft"
  <2>1. p = [page EXCEPT !.NFTsNr = <<t.got["NFTsLeft"]>>]
    BY <1>3 DEF Settled
  <2> HIDE DEF p
  <2>2. /\ DOMAIN p = Fields /\ p.NFTsNr = <<t.got["NFTsLeft"]>> /\ p.root = page.root
        /\ p.tree = page.tree /\ p.treeLength = page.treeLength
    BY <1>1, <2>1 DEF Fields
  <2>3. "NFTsLeft" \in DOMAIN t.got
    BY <1>1, <1>3 DEF Stage, AfterOne
  <2>4. PageOK(p, c)
    BY <1>1, <2>2, <2>3 DEF PageOK, AnswersOK
  <2> QED BY <2>4 DEF p
<1>4. CASE t.fn = "getLeaves"
  <2>1. p = [page EXCEPT !.leaves = <<t.got.getLeaves>>, !.leavesLength = <<t.got.getLeavesLength>>]
    BY <1>4 DEF Settled
  <2> HIDE DEF p
  <2>2. /\ DOMAIN p = Fields /\ p.NFTsNr = page.NFTsNr /\ p.root = page.root
        /\ p.tree = page.tree /\ p.treeLength = page.treeLength
    BY <1>1, <2>1 DEF Fields
  <2>3. PageOK(p, c)
    BY <2>2 DEF PageOK
  <2> QED BY <2>3 DEF p
<1>5. CASE t.fn = "getRoot"
  <2>1. p = [page EXCEPT !.root = <<t.got["getRoot"]>>]
    BY <1>5 DEF Settled
  <2> HIDE DEF p
  <2>2. /\ DOMAIN p = Fields /\ p.root = <<t.got["getRoot"]>> /\ p.NFTsNr = page.NFTsNr
        /\ p.tree = page.tree /\ p.treeLength = page.treeLength
    BY <1>1, <2>1 DEF Fields
  <2>3. "getRoot" \in DOMAIN t.got
    BY <1>1, <1>5 DEF Stage, AfterOne
  <2>4. PageOK(p, c)
    BY <1>1, <2>2, <2>3 DEF PageOK, AnswersOK
  <2> QED BY <2>4 DEF p
<1>6. CASE t.fn = "getTree"
  <2>1. p = [page EXCEPT !.tree = <<t.got["getTree"]>>, !.treeLength = <<t.got["getTreeLength"]>>]
    BY <1>6 DEF Settled
  <2> HIDE DEF p
  <2>2. /\ DOMAIN p = Fields /\ p.NFTsNr = page.NFTsNr /\ p.root = page.root
        /\ p.tree = <<t.got["getTree"]>> /\ p.treeLength = <<t.got["getTreeLength"]>>
    BY <1>1, <2>1 DEF Fields
  <2>3. "getTree" \in DOMAIN t.got /\ "getTreeLength" \in DOMAIN t.got
    <3> DEFINE r == <<"getTree", "getTreeLength">>
    <3>1. DOMAIN t.got = Range(r)
      BY <1>6 DEF Complete, Reads, TreeReads
    <3>2. 1 \in DOMAIN r /\ 2 \in DOMAIN r /\ r[1] = "getTree" /\ r[2] = "getTreeLength"
      OBVIOUS
    <3> HIDE DEF r
    <3> QED BY <3>1, <3>2 DEF Range
  <2>4. /\ Range(t.got["getTree"]) \subseteq Range(c.tree)
        /\ Len(t.got["getTree"]) <= t.got["getTreeLength"]
    BY <1>1, <2>3 DEF AnswersOK
  <2>5. /\ p.tree[1] = t.got["getTree"] /\ p.treeLength[1] = t.got["getTreeLength"]
    BY <2>2
  <2>6. PageOK(p, c)
    BY <2>2, <2>4, <2>5 DEF PageOK
  <2> QED BY <2>6 DEF p
<1> QED BY <1>1, <1>2, <1>3, <1>4, <1>5, <1>6 DEF Stage

\* The code after another await.
LEMMA AsksAgain ==
  ASSUME NEW c, NEW t, TaskOK(t, c), t.at = "answered", t.fn # "mintNFT", ~ Complete(t)
  PROVE  TaskOK([t EXCEPT !.at = "asked"], c)
<1> DEFINE u == [t EXCEPT !.at = "asked"]
<1>1. DOMAIN u = {"fn", "at", "got"} /\ u.fn = t.fn /\ u.at = "asked" /\ u.got = t.got
  BY DEF TaskOK
<1>2. Stage(t) /\ AnswersOK(t.got, c)
  BY DEF TaskOK
<1> HIDE DEF u
<1>3. \A x : Range(<<x>>) = {x}
  <2> TAKE x
  <2> DEFINE r == <<x>>
  <2>1. DOMAIN r = {1} /\ r[1] = x
    OBVIOUS
  <2> HIDE DEF r
  <2>2. Range(r) = {x}
    BY <2>1 DEF Range
  <2> QED BY <2>2 DEF r
<1>4. \A x, y : Range(<<x, y>>) = {x, y}
  <2> TAKE x, y
  <2> DEFINE r == <<x, y>>
  <2>1. DOMAIN r = {1, 2} /\ r[1] = x /\ r[2] = y
    OBVIOUS
  <2> HIDE DEF r
  <2>2. Range(r) = {x, y}
    BY <2>1 DEF Range
  <2> QED BY <2>2 DEF r
<1>5. t.fn # "loadWeb3" /\ t.fn # "nftsleft" /\ t.fn # "getRoot"
  BY <1>2, <1>3 DEF Stage, AfterOne, Complete, Reads
<1>6. CASE t.fn = "getLeaves"
  <2>1. DOMAIN t.got # {"getLeaves", "getLeavesLength"}
    BY <1>4, <1>6 DEF Complete, Reads
  <2>2. DOMAIN t.got = {"getLeaves"}
    BY <1>2, <1>6, <2>1 DEF Stage, AfterTwo
  <2>3. Stage(u)
    BY <1>1, <1>6, <2>2 DEF Stage, AfterTwo
  <2>4. TaskOK(u, c)
    BY <1>1, <1>2, <2>3 DEF TaskOK
  <2> QED BY <2>4 DEF u
<1>7. CASE t.fn = "getTree"
  <2>1. DOMAIN t.got # {"getTree", "getTreeLength"}
    BY <1>4, <1>7 DEF Complete, Reads, TreeReads
  <2>2. DOMAIN t.got = {"getTree"}
    BY <1>2, <1>7, <2>1 DEF Stage, AfterTwo
  <2>3. Stage(u)
    BY <1>1, <1>7, <2>2 DEF Stage, AfterTwo
  <2>4. TaskOK(u, c)
    BY <1>1, <1>2, <2>3 DEF TaskOK
  <2> QED BY <2>4 DEF u
<1> QED BY <1>2, <1>5, <1>6, <1>7 DEF Stage

-----------------------------------------------------------------------------
(* The steps of the page: those of the chain, and those that leave it alone. *)

\* The chain goes on behind the page.
LEMMA ChainGoesOn ==
  ASSUME NFTAssumption, NFTInv, PageInv, [Next]_vars, page' = page, tasks' = tasks
  PROVE  PageInv'
<1>1. Mined \in Storages /\ Mined' \in Storages /\ Grows(Mined, Mined')
  BY NextNFT, StackTypes DEF NFTInv, Mined
<1>2. ASSUME PageOK(page, Mined), TasksOK(tasks, Mined)
      PROVE  PageOK(page, Mined') /\ TasksOK(tasks, Mined')
  BY <1>1, <1>2, PageStays, TasksStay
<1>3. CASE page = <<>> /\ tasks = <<>>
  BY <1>3 DEF PageInv
<1>4. CASE PageOK(page, Mined) /\ TasksOK(tasks, Mined)
  BY <1>2, <1>4 DEF PageInv
<1> QED BY <1>3, <1>4 DEF PageInv

\* The page changes and the chain does not.
LEMMA PageChanges ==
  ASSUME UNCHANGED vars, PageOK(page', Mined), TasksOK(tasks', Mined)
  PROVE  PageInv'
<1>1. Mined' = Mined
  BY DEF vars, Mined
<1> QED BY <1>1 DEF PageInv

\* The page is opened.
LEMMA OpensPage == ASSUME NFTAssumption, NFTInv, PageInv, Load PROVE PageInv'
<1> DEFINE c == Mined
<1>1. PageOK(Blank, c)
  BY DEF PageOK, Blank, Fields
<1>2. TaskOK(Call("loadWeb3"), c) /\ TaskOK(Call("nftsleft"), c)
  BY NewCall
<1>3. TasksOK(<<Call("loadWeb3"), Call("nftsleft")>>, c)
  <2> DEFINE a == Call("loadWeb3")
             b == Call("nftsleft")
  <2>1. TaskOK(a, c) /\ TaskOK(b, c)
    BY <1>2
  <2> HIDE DEF a, b, c
  <2> DEFINE S == {a, b}
             s == <<a, b>>
  <2>2. s \in Seq(S) /\ \A t \in S : TaskOK(t, c)
    BY <2>1
  <2> HIDE DEF S, s
  <2>3. TasksOK(s, c)
    BY <2>2 DEF TasksOK
  <2> QED BY <2>3 DEF s, a, b
<1>4. UNCHANGED vars /\ page' = Blank /\ tasks' = <<Call("loadWeb3"), Call("nftsleft")>>
  BY DEF Load, Click
<1> QED BY <1>1, <1>3, <1>4, PageChanges

\* A page with calls is loaded.
LEMMA WhenLoaded ==
  ASSUME PageInv, Loaded \/ tasks # <<>>
  PROVE  PageOK(page, Mined) /\ TasksOK(tasks, Mined)
BY DEF PageInv, Loaded

\* The user types, clicks and mints.
LEMMA UserActs ==
  ASSUME PageAssumption, PageInv, Loaded,
         \/ MintNFT
         \/ \E user \in Users : TypeReceiver(user)
         \/ \E p \in Used : GetPanel(p) \/ HandleCopy(p)
  PROVE  PageInv'
<1>1. PageOK(page, Mined) /\ TasksOK(tasks, Mined)
  BY WhenLoaded
<1>2. CASE MintNFT
  <2>1. TasksOK(tasks', Mined)
    BY <1>1, <1>2, NewMint, AddTask DEF MintNFT
  <2>2. UNCHANGED vars /\ page' = page
    BY <1>2 DEF MintNFT, Click
  <2> QED BY <1>1, <2>1, <2>2, PageChanges
<1>3. ASSUME NEW user \in Users, TypeReceiver(user) PROVE PageInv'
  <2>1. UNCHANGED vars /\ tasks' = tasks /\ page' = [page EXCEPT !.receiver = <<user>>]
    BY <1>3 DEF TypeReceiver, Click
  <2>2. DOMAIN page = Fields
    BY <1>1 DEF PageOK
  <2>3. /\ DOMAIN page' = Fields /\ page'.NFTsNr = page.NFTsNr /\ page'.root = page.root
        /\ page'.tree = page.tree /\ page'.treeLength = page.treeLength
    BY <2>1, <2>2 DEF Fields
  <2>4. PageOK(page', Mined)
    BY <1>1, <2>3 DEF PageOK
  <2> QED BY <1>1, <2>1, <2>4, PageChanges
<1>4. ASSUME NEW p \in Used, GetPanel(p) PROVE PageInv'
  <2>1. p \in {"leaves", "tree", "root"}
    BY DEF PageAssumption, Panels
  <2>2. PICK fn \in {"getLeaves", "getTree", "getRoot"} : Start(fn)
    BY <1>4, <2>1 DEF GetPanel
  <2>3. TasksOK(tasks', Mined)
    BY <1>1, <2>2, NewCall, AddTask DEF Start
  <2>4. UNCHANGED vars /\ page' = page
    BY <2>2 DEF Start, Click
  <2> QED BY <1>1, <2>3, <2>4, PageChanges
<1>5. ASSUME NEW p \in Used, HandleCopy(p) PROVE PageInv'
  <2>1. UNCHANGED vars /\ page' = page /\ tasks' = tasks
    BY <1>5 DEF HandleCopy, Click
  <2> QED BY <1>1, <2>1, PageChanges
<1> QED BY <1>2, <1>3, <1>4, <1>5

\* A call is answered, refused or continued.
LEMMA CallGoesOn ==
  ASSUME NFTAssumption, NFTInv, PageInv, NEW i \in DOMAIN tasks,
         NodeAnswers(i) \/ WalletSends(i) \/ Refused(i) \/ Continue(i) \/ ContinueMint(i)
  PROVE  PageInv'
<1>1. PageOK(page, Mined) /\ TasksOK(tasks, Mined)
  <2>1. DOMAIN <<>> = {}
    OBVIOUS
  <2>2. tasks # <<>>
    BY <2>1
  <2> QED BY <2>2, WhenLoaded
<1>2. TaskOK(tasks[i], Mined)
  BY <1>1, TheTask
<1> DEFINE t == tasks[i]
<1>3. UNCHANGED vars
  BY DEF NodeAnswers, WalletSends, Refused, Continue, ContinueMint
<1>4. CASE NodeAnswers(i)
  <2>1. nft \in Storages /\ Mined = nft
    <3>1. calls = <<>>
      BY <1>4 DEF NodeAnswers
    <3>2. calls \in Seq(Mints) /\ Len(calls) = 0 /\ nft \in Storages
      BY <3>1, StackTypes DEF NFTInv
    <3> QED BY <3>2 DEF Mined, Before
  <2> DEFINE u == [[t EXCEPT !.got = With(@, Awaited(t), Answer(Awaited(t)))] EXCEPT !.at = "answered"]
  <2>2. TaskOK(u, nft)
    <3>1. t.at = "asked" /\ t.fn # "mintNFT" /\ (Awaited(t) = "getRoot" => nft.tree # <<>>)
      BY <1>4 DEF NodeAnswers
    <3>2. TaskOK(t, nft)
      BY <1>2, <2>1
    <3> HIDE DEF t
    <3> QED BY <2>1, <3>1, <3>2, AnswerKeeps
  <2>3. tasks' = [tasks EXCEPT ![i] = u]
    BY <1>4 DEF NodeAnswers
  <2> HIDE DEF u
  <2>4. TasksOK(tasks', Mined)
    BY <1>1, <2>1, <2>2, <2>3, ReplaceTask
  <2>5. page' = page
    BY <1>4 DEF NodeAnswers
  <2> QED BY <1>1, <1>3, <2>4, <2>5, PageChanges
<1>5. CASE WalletSends(i)
  <2> DEFINE u == [t EXCEPT !.at = "answered"]
  <2>1. tasks' = [tasks EXCEPT ![i] = u] /\ page' = page /\ t.fn = "mintNFT"
    BY <1>5 DEF WalletSends
  <2>2. /\ DOMAIN u = {"fn", "at", "got"} /\ u.fn = t.fn /\ u.at = "answered" /\ u.got = t.got
    BY <1>2 DEF TaskOK
  <2> HIDE DEF u
  <2>3. DOMAIN t.got = {"receiver"} /\ AnswersOK(t.got, Mined)
    BY <1>2, <2>1 DEF TaskOK, Stage
  <2>4. TaskOK(u, Mined)
    BY <2>1, <2>2, <2>3 DEF TaskOK, Stage
  <2>5. TasksOK(tasks', Mined)
    BY <1>1, <2>1, <2>4, ReplaceTask
  <2> QED BY <1>1, <1>3, <2>1, <2>5, PageChanges
<1>6. CASE Refused(i)
  <2>1. tasks' = RemoveAt(tasks, i) /\ page' = page
    BY <1>6 DEF Refused
  <2> QED BY <1>1, <1>3, <2>1, DropTask, PageChanges
<1>7. CASE Continue(i) /\ Complete(t)
  <2>1. /\ tasks' = RemoveAt(tasks, i) /\ page' = Settled(t.fn, t.got)
        /\ t.at = "answered" /\ t.fn # "mintNFT"
    BY <1>7 DEF Continue
  <2> HIDE DEF t
  <2>2. PageOK(Settled(t.fn, t.got), Mined)
    BY <1>1, <1>2, <1>7, <2>1, SettledKeeps DEF t
  <2> QED BY <1>1, <1>3, <2>1, <2>2, DropTask, PageChanges
<1>8. CASE Continue(i) /\ ~ Complete(t)
  <2> DEFINE u == [t EXCEPT !.at = "asked"]
  <2>1. /\ tasks' = [tasks EXCEPT ![i] = u] /\ page' = page
        /\ t.at = "answered" /\ t.fn # "mintNFT"
    BY <1>8 DEF Continue
  <2>2. TaskOK(u, Mined)
    BY <1>2, <1>8, <2>1, AsksAgain
  <2> HIDE DEF u
  <2>3. TasksOK(tasks', Mined)
    BY <1>1, <2>1, <2>2, ReplaceTask
  <2> QED BY <1>1, <1>3, <2>1, <2>3, PageChanges
<1>9. CASE ContinueMint(i)
  <2> DEFINE s == RemoveAt(tasks, i)
             u == Call("nftsleft")
  <2>1. tasks' = s \o <<u, u>> /\ page' = page
    BY <1>9 DEF ContinueMint
  <2>2. TasksOK(s, Mined) /\ TaskOK(u, Mined)
    BY <1>1, DropTask, NewCall
  <2> HIDE DEF s, u
  <2>3. TasksOK(Append(Append(s, u), u), Mined)
    BY <2>2, AddTask
  <2>4. s \o <<u, u>> = Append(Append(s, u), u)
    <3>1. PICK S : s \in Seq(S) /\ \A v \in S : TaskOK(v, Mined)
      BY <2>2 DEF TasksOK
    <3> DEFINE T == S \cup {u}
    <3>2. s \in Seq(T) /\ u \in T
      BY <3>1
    <3> HIDE DEF T
    <3>3. <<u, u>> \in Seq(T) /\ Len(<<u, u>>) = 2 /\ <<u, u>>[1] = u /\ <<u, u>>[2] = u
      BY <3>2
    <3> QED BY <3>2, <3>3
  <2> QED BY <1>1, <1>3, <2>1, <2>3, <2>4, PageChanges
<1> QED BY <1>4, <1>5, <1>6, <1>7, <1>8, <1>9

\* Every step keeps the invariant of the page.
LEMMA PageStep ==
  ASSUME NFTAssumption, PageAssumption, NFTInv, PageInv, [PageNext]_allVars
  PROVE  PageInv'
<1>1. CASE Load
  BY <1>1, OpensPage
<1>2. CASE MintNFT \/ \E user \in Users : TypeReceiver(user)
  BY <1>2, UserActs DEF MintNFT, TypeReceiver
<1>3. ASSUME NEW p \in Used, GetPanel(p) \/ HandleCopy(p) PROVE PageInv'
  BY <1>3, UserActs DEF GetPanel, Start, HandleCopy
<1>4. ASSUME NEW p \in Used, TimerFires(p) PROVE PageInv'
  BY <1>4, ChainGoesOn DEF TimerFires, vars
<1>5. ASSUME NEW i \in DOMAIN tasks,
             NodeAnswers(i) \/ WalletSends(i) \/ Refused(i) \/ Continue(i) \/ ContinueMint(i)
      PROVE  PageInv'
  BY <1>5, CallGoesOn
<1>6. CASE MineSent \/ OthersMint \/ ReceiverDecides
  <2>1. [Next]_vars
    BY <1>6, PageStepsAreCalls DEF PageNext
  <2>2. page' = page /\ tasks' = tasks
    BY <1>6 DEF MineSent, OthersMint, ReceiverDecides, pageVars
  <2> QED BY <2>1, <2>2, ChainGoesOn
<1>7. CASE UNCHANGED allVars
  BY <1>7, ChainGoesOn DEF allVars, pageVars
<1> QED BY <1>1, <1>2, <1>3, <1>4, <1>5, <1>6, <1>7 DEF PageNext

\* The invariants imply the property.
LEMMA InvBounds == ASSUME NFTAssumption, NFTInv, PageInv PROVE CountsAreUpperBounds
<1> SUFFICES ASSUME Loaded PROVE CountsAreUpperBounds
  BY DEF CountsAreUpperBounds
<1>1. PageOK(page, Mined)
  BY WhenLoaded
<1>2. nft \in Storages /\ Mined \in Storages /\ nft.NFTsLeft <= Mined.NFTsLeft
  <2>1. /\ Len(calls) \in Nat /\ nft \in Storages /\ Before(nft, calls, Len(calls)) = nft
        /\ Mined \in Storages
    BY StackTypes DEF NFTInv, Mined
  <2>2. Grows(Mined, nft)
    <3>1. 0 \in 0..Len(calls) /\ Len(calls) \in 0..Len(calls) /\ 0 <= Len(calls)
      BY <2>1
    <3>2. Grows(Before(nft, calls, 0), Before(nft, calls, Len(calls)))
      BY <3>1 DEF NFTInv, StackInv
    <3> QED BY <2>1, <3>2 DEF Mined
  <2> QED BY <2>1, <2>2 DEF Grows
<1>3. page.NFTsNr # <<>> => nft.NFTsLeft <= page.NFTsNr[1]
  <2>1. nft.NFTsLeft \in Int /\ Mined.NFTsLeft \in Int
    BY <1>2 DEF Storages
  <2> QED BY <1>1, <1>2, <2>1 DEF PageOK
<1>4. Rendered.left = page.NFTsNr
  BY DEF Rendered, NFTsLeftButton
<1>5. Rendered.panels["tree"].value = page.tree /\ Rendered.panels["tree"].count = page.treeLength
  BY DEF Rendered, Panel, Panels
<1> QED BY <1>1, <1>3, <1>4, <1>5 DEF CountsAreUpperBounds, PageOK

\* The invariants imply the property.
LEMMA InvShown == ASSUME NFTAssumption, NFTInv, PageInv PROVE ShownStaysInTree
<1> SUFFICES ASSUME Loaded, calls = <<>> PROVE ShownStaysInTree
  BY DEF ShownStaysInTree
<1>1. PageOK(page, Mined)
  BY WhenLoaded
<1>2. Mined = nft
  <2>1. Len(calls) = 0
    OBVIOUS
  <2> QED BY <2>1 DEF Mined, Before
<1>3. Rendered.panels["root"].value = page.root /\ Rendered.panels["tree"].value = page.tree
  BY DEF Rendered, Panel, Panels
<1> QED BY <1>1, <1>2, <1>3 DEF ShownStaysInTree, PageOK

\* However its calls overtake each other and whatever was mined in between, the page
\* never says that fewer NFTs are left than there are, nor shows a length too small for
\* the tree beside it.
THEOREM CountsErrOnOneSide == PageSpec => []CountsAreUpperBounds
<1>1. PageInit => NFTInv /\ PageInv
  BY NFTAssumption, InitNFT DEF PageInit, PageInv
<1>2. NFTInv /\ PageInv /\ [PageNext]_allVars => (NFTInv /\ PageInv)'
  BY NFTAssumption, PageAssumption, PageStepsAreCalls, NextNFT, PageStep
<1>3. NFTInv /\ PageInv => CountsAreUpperBounds
  BY NFTAssumption, InvBounds
<1> QED BY <1>1, <1>2, <1>3, PTL DEF PageSpec

\* A root or a tree that the page shows stays part of the contract's tree.
THEOREM ShownIsNeverUndone == PageSpec => []ShownStaysInTree
<1>1. PageInit => NFTInv /\ PageInv
  BY NFTAssumption, InitNFT DEF PageInit, PageInv
<1>2. NFTInv /\ PageInv /\ [PageNext]_allVars => (NFTInv /\ PageInv)'
  BY NFTAssumption, PageAssumption, PageStepsAreCalls, NextNFT, PageStep
<1>3. NFTInv /\ PageInv => ShownStaysInTree
  BY NFTAssumption, InvShown
<1> QED BY <1>1, <1>2, <1>3, PTL DEF PageSpec

=============================================================================
