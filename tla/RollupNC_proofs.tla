-------------------------- MODULE RollupNC_proofs --------------------------
(***************************************************************************)
(* The balance root has every subtree that was processed and every batch   *)
(* that was proved, and the queue hands the deposits on in their order:    *)
(* for any users, tokens, transactions and depth, however many proofs      *)
(* wait, whatever is mined before them and whichever heights the           *)
(* coordinator claims.  If it claims the stored ones, the queue is a       *)
(* binary counter and deposits are never blocked.                          *)
(***************************************************************************)
EXTENDS RollupNCProps, DataInduction, SequenceTheorems, TLAPS

RootOf(slots, batches) == [slots |-> slots, batches |-> batches]

\* A waiting proof adds its batch to the root it was computed over, and nothing else.
PreparedInv ==
    \A proof \in prepared : proof.new = RootOf(proof.old.slots, proof.old.batches + 1)

\* s is a sequence of length n.
IsSequence(s, n) == s = [i \in 1..n |-> s[i]] /\ Len(s) = n

\* The root's slots hold the processed nodes, one each, in their order.
RootInv ==
    /\ currentRoot = RootOf(currentRoot.slots, updateNumber)
    /\ \E n \in Nat : /\ IsSequence(currentRoot.slots, n) /\ IsSequence(processed, n)
                     /\ \A i \in 1..n : processed[i] = currentRoot.slots[i].node

LosslessInv == PreparedInv /\ RootInv

-----------------------------------------------------------------------------
LEMMA InitLossless == Init => LosslessInv
<1> SUFFICES ASSUME Init PROVE LosslessInv
  OBVIOUS
<1>1. currentRoot = RootOf(<<>>, 0) /\ updateNumber = 0 /\ processed = <<>> /\ prepared = {}
  BY DEF Init, RootOf
<1>2. currentRoot.slots = <<>>
  BY <1>1 DEF RootOf
<1>3. RootInv
  <2>1. IsSequence(currentRoot.slots, 0) /\ IsSequence(processed, 0)
    BY <1>1, <1>2 DEF IsSequence
  <2> QED BY <1>1, <1>2, <2>1 DEF RootInv
<1> QED BY <1>1, <1>3 DEF LosslessInv, PreparedInv

\* Appending keeps two sequences in step.
LEMMA AppendInStep ==
  ASSUME NEW n \in Nat, NEW s, NEW e, IsSequence(s, n)
  PROVE  Append(s, e) = [i \in 1..(n + 1) |-> IF i = n + 1 THEN e ELSE s[i]]
         /\ Len(Append(s, e)) = n + 1
<1> DEFINE S == {s[i] : i \in 1..n} \cup {e}
           f == [i \in 1..n |-> s[i]]
<1>1. f \in [1..n -> S]
  OBVIOUS
<1>2. s \in Seq(S)
  BY <1>1 DEF IsSequence
<1> HIDE DEF S
<1>3. e \in S
  BY DEF S
<1>4. /\ Append(s, e) \in Seq(S) /\ Len(Append(s, e)) = n + 1
      /\ \A i \in 1..n : Append(s, e)[i] = s[i]
      /\ Append(s, e)[n + 1] = e
  BY <1>2, <1>3, AppendProperties DEF IsSequence
<1>5. Append(s, e) = [i \in 1..(n + 1) |-> Append(s, e)[i]]
  <2>1. Append(s, e) \in [1..(n + 1) -> S]
    BY <1>4, LenProperties
  <2> QED BY <2>1
<1>6. \A i \in 1..(n + 1) : Append(s, e)[i] = IF i = n + 1 THEN e ELSE s[i]
  BY <1>4
<1> QED BY <1>4, <1>5, <1>6

LEMMA ProcessKeepsRoot ==
  ASSUME RootInv, NEW k, NEW pos, ProcessDeposits(k, pos)
  PROVE  RootInv'
<1> DEFINE node == Head(pendingDeposits)
           slots == currentRoot.slots
           slot == [height |-> k, pos |-> pos, node |-> node]
<1>1. /\ currentRoot' = [currentRoot EXCEPT !.slots = Append(@, slot)]
      /\ processed' = Append(processed, node) /\ updateNumber' = updateNumber
  BY DEF ProcessDeposits, Inserted, updateVars
<1>2. currentRoot = [slots |-> slots, batches |-> updateNumber]
  BY DEF RootInv, RootOf
<1>3. PICK n \in Nat : /\ IsSequence(slots, n) /\ IsSequence(processed, n)
                       /\ \A i \in 1..n : processed[i] = slots[i].node
  BY DEF RootInv
<1>4. slot.node = node
  OBVIOUS
<1> HIDE DEF node, slots, slot
<1>5. currentRoot' = [slots |-> Append(slots, slot), batches |-> updateNumber]
  BY <1>1, <1>2
<1>6. currentRoot'.slots = Append(slots, slot)
  BY <1>5
<1>7. /\ currentRoot'.slots = [i \in 1..(n + 1) |-> IF i = n + 1 THEN slot ELSE slots[i]]
      /\ Len(currentRoot'.slots) = n + 1
  <2>1. /\ Append(slots, slot) = [i \in 1..(n + 1) |-> IF i = n + 1 THEN slot ELSE slots[i]]
        /\ Len(Append(slots, slot)) = n + 1
    BY <1>3, AppendInStep
  <2> QED BY <1>6, <2>1
<1>8. /\ processed' = [i \in 1..(n + 1) |-> IF i = n + 1 THEN node ELSE processed[i]]
      /\ Len(processed') = n + 1
  BY <1>1, <1>3, AppendInStep
<1>9. IsSequence(currentRoot'.slots, n + 1) /\ IsSequence(processed', n + 1)
  BY <1>7, <1>8 DEF IsSequence
<1>10. \A i \in 1..(n + 1) : processed'[i] = currentRoot'.slots[i].node
  BY <1>3, <1>4, <1>7, <1>8
<1>11. currentRoot' = RootOf(currentRoot'.slots, updateNumber')
  BY <1>1, <1>5, <1>6 DEF RootOf
<1>12. n + 1 \in Nat
  OBVIOUS
<1> QED BY <1>9, <1>10, <1>11, <1>12 DEF RootInv

\* A proof is only accepted over the root it was computed for.
LEMMA UpdateKeepsRoot ==
  ASSUME LosslessInv, NEW proof \in prepared, UpdateState(proof)
  PROVE  RootInv'
<1>1. /\ currentRoot = proof.old /\ currentRoot' = proof.new
      /\ updateNumber' = updateNumber + 1 /\ processed' = processed
  BY DEF UpdateState, MatchesRoot
<1>2. currentRoot' = RootOf(currentRoot.slots, updateNumber + 1)
  BY <1>1 DEF LosslessInv, PreparedInv, RootInv, RootOf
<1>3. currentRoot'.slots = currentRoot.slots
  BY <1>2 DEF RootOf
<1> QED BY <1>1, <1>2, <1>3 DEF LosslessInv, RootInv

LEMMA PrepareKeepsPrepared ==
  ASSUME LosslessInv, NEW r, PrepareUpdate(r)
  PROVE  PreparedInv'
<1>1. prepared' = prepared \cup
          {[old |-> currentRoot, txRoot |-> r,
            new |-> [currentRoot EXCEPT !.batches = @ + 1]]}
  BY DEF PrepareUpdate
<1>2. [currentRoot EXCEPT !.batches = @ + 1]
         = RootOf(currentRoot.slots, currentRoot.batches + 1)
  BY DEF LosslessInv, RootInv, RootOf
<1> QED BY <1>1, <1>2 DEF LosslessInv, PreparedInv

LEMMA NextLossless == LosslessInv /\ [Next]_vars => LosslessInv'
<1> SUFFICES ASSUME LosslessInv, [Next]_vars PROVE LosslessInv'
  OBVIOUS
<1>1. ASSUME UNCHANGED <<currentRoot, updateNumber, processed>> PROVE RootInv'
  BY <1>1 DEF LosslessInv, RootInv
<1>2. ASSUME UNCHANGED prepared PROVE PreparedInv'
  BY <1>2 DEF LosslessInv, PreparedInv
<1>3. ASSUME NEW u, NEW t, NEW amount, NEW value, Deposit(u, t, amount, value)
      PROVE  LosslessInv'
  BY <1>1, <1>2, <1>3 DEF Deposit, updateVars, LosslessInv
<1>4. ASSUME NEW k, NEW pos, ProcessDeposits(k, pos) PROVE LosslessInv'
  BY <1>2, <1>4, ProcessKeepsRoot DEF ProcessDeposits, updateVars, LosslessInv
<1>5. ASSUME NEW r, PrepareUpdate(r) PROVE LosslessInv'
  BY <1>1, <1>5, PrepareKeepsPrepared DEF PrepareUpdate, LosslessInv
<1>6. ASSUME NEW proof \in prepared, UpdateState(proof) PROVE LosslessInv'
  BY <1>2, <1>6, UpdateKeepsRoot DEF UpdateState, LosslessInv
<1>7. ASSUME NEW tx, Withdraw(tx) PROVE LosslessInv'
  BY <1>1, <1>2, <1>7 DEF Withdraw, updateVars, LosslessInv
<1>8. ASSUME NEW token, RegisterToken(token) \/ ApproveToken(token) PROVE LosslessInv'
  BY <1>1, <1>2, <1>8 DEF RegisterToken, ApproveToken, updateVars, LosslessInv
<1>9. CASE UNCHANGED vars
  BY <1>1, <1>2, <1>9 DEF vars, updateVars, LosslessInv
<1> QED BY <1>3, <1>4, <1>5, <1>6, <1>7, <1>8, <1>9 DEF Next, Others

\* No processed subtree and no proved batch is missing from the balance root.
THEOREM NoUpdateIsLost == Spec => []NothingLostFromRoot
<1>1. Init => LosslessInv
  BY InitLossless
<1>2. LosslessInv /\ [Next]_vars => LosslessInv'
  BY NextLossless
<1>3. ASSUME LosslessInv PROVE NothingLostFromRoot
  <2>1. PICK n \in Nat : /\ IsSequence(currentRoot.slots, n) /\ IsSequence(processed, n)
                         /\ \A i \in 1..n : processed[i] = currentRoot.slots[i].node
    BY <1>3 DEF LosslessInv, RootInv
  <2>2. DOMAIN currentRoot.slots = 1..n
    BY <2>1 DEF IsSequence
  <2>3. processed = [i \in 1..n |-> currentRoot.slots[i].node]
    BY <2>1 DEF IsSequence
  <2>4. currentRoot.batches = updateNumber
    BY <1>3 DEF LosslessInv, RootInv, RootOf
  <2> QED BY <2>2, <2>3, <2>4 DEF NothingLostFromRoot
<1> QED BY <1>1, <1>2, <1>3, PTL DEF Spec

-----------------------------------------------------------------------------
(* The queue of pending subtrees. *)

Entry == [id : Nat, amount : Nat, tokenType : TokenTypes]

Node == [height : Nat, leaves : Seq(Entry)]

\* halvings is the recursive function that Halvings(n) chooses.
AreHalvings(halvings, n) ==
    halvings = [tmp \in 1..n |-> IF tmp % 2 = 0 THEN 1 + halvings[tmp \div 2] ELSE 0]

\* The loop over tmp ends.
LEMMA HalvingsExist ==
  ASSUME NEW n \in Nat
  PROVE  \E halvings : AreHalvings(halvings, n) /\ Halvings(n) = halvings[n]
<1> DEFINE prev == [i \in 1..n |-> i \div 2]
           step == [p \in (1..n) \X Nat |-> IF p[1] % 2 = 0 THEN 1 + p[2] ELSE 0]
           chosen == CHOOSE h : AreHalvings(h, n)
<1>1. \A i \in 1..n : prev[i] = i \div 2 /\ prev[i] \in 0..(i - 1)
  OBVIOUS
<1>2. \A i \in 1..n, v \in Nat : step[<<i, v>>] = IF i % 2 = 0 THEN 1 + v ELSE 0
  OBVIOUS
<1> HIDE DEF prev, step
<1>3. \A i \in 1..n, v \in Nat : step[<<i, v>>] \in Nat
  <2> TAKE i \in 1..n, v \in Nat
  <2>1. 1 + v \in Nat /\ 0 \in Nat
    OBVIOUS
  <2>2. step[<<i, v>>] = IF i % 2 = 0 THEN 1 + v ELSE 0
    BY <1>2
  <2> QED BY <2>1, <2>2
<1>4. \E f \in [0..n -> Nat] : IsRecursiveTo(f, n, 0, prev, step)
  BY <1>1, <1>3, NumberRecursion
<1>5. PICK f \in [0..n -> Nat] : IsRecursiveTo(f, n, 0, prev, step)
  BY <1>4
<1>6. \A i \in 1..n : f[i] = IF i % 2 = 0 THEN 1 + f[i \div 2] ELSE 0
  <2> TAKE i \in 1..n
  <2>1. i \div 2 \in 0..n
    OBVIOUS
  <2>2. f[i \div 2] \in Nat /\ f[i] = step[<<i, f[i \div 2]>>]
    BY <1>1, <1>5, <2>1 DEF IsRecursiveTo
  <2> QED BY <1>2, <2>2
<1>7. \A i \in 1..n : i % 2 = 0 => i \div 2 \in 1..n
  OBVIOUS
<1> DEFINE h == [i \in 1..n |-> f[i]]
<1>8. AreHalvings(h, n)
  <2>1. h = [i \in 1..n |-> h[i]]
    OBVIOUS
  <2>2. \A i \in 1..n : h[i] = IF i % 2 = 0 THEN 1 + h[i \div 2] ELSE 0
    BY <1>6, <1>7
  <2> HIDE DEF h
  <2> QED BY <2>1, <2>2 DEF AreHalvings
<1> HIDE DEF h
<1>9. AreHalvings(chosen, n)
  BY <1>8
<1>10. Halvings(n) = chosen[n]
  BY Zenon DEF Halvings, AreHalvings
<1> HIDE DEF chosen
<1> QED BY <1>9, <1>10

LEMMA HalvingsAgree ==
  ASSUME NEW n \in Nat, NEW m \in Nat, n <= m,
         NEW f, AreHalvings(f, n), NEW g, AreHalvings(g, m)
  PROVE  \A i \in 1..n : f[i] = g[i] /\ g[i] \in Nat
<1> DEFINE Good == {k \in Nat : \A i \in 1..n : i <= k => f[i] = g[i] /\ g[i] \in Nat}
<1>1. /\ \A i \in 1..n : f[i] = IF i % 2 = 0 THEN 1 + f[i \div 2] ELSE 0
      /\ \A i \in 1..m : g[i] = IF i % 2 = 0 THEN 1 + g[i \div 2] ELSE 0
  BY DEF AreHalvings
<1>2. 0 \in Good
  OBVIOUS
<1>3. ASSUME NEW k \in Nat, k \in Good PROVE k + 1 \in Good
  <2> SUFFICES ASSUME NEW i \in 1..n, i = k + 1 PROVE f[i] = g[i] /\ g[i] \in Nat
    BY <1>3
  <2>1. /\ f[i] = IF i % 2 = 0 THEN 1 + f[i \div 2] ELSE 0
        /\ g[i] = IF i % 2 = 0 THEN 1 + g[i \div 2] ELSE 0
    <3>1. i \in 1..m
      OBVIOUS
    <3> QED BY <1>1, <3>1
  <2>2. i % 2 = 0 => i \div 2 \in 1..n /\ i \div 2 <= k
    OBVIOUS
  <2>3. i % 2 = 0 => f[i \div 2] = g[i \div 2] /\ g[i \div 2] \in Nat
    BY <1>3, <2>2
  <2> QED BY <2>1, <2>3
<1>4. n \in Good
  <2> HIDE DEF Good
  <2> QED BY <1>2, <1>3, Induction
<1>5. \A i \in 1..n : i <= n
  OBVIOUS
<1> QED BY <1>4, <1>5

LEMMA HalvingsSteps ==
  ASSUME NEW n \in Nat \ {0}
  PROVE  /\ Halvings(n) \in Nat
         /\ n % 2 = 1 => Halvings(n) = 0
         /\ Halvings(2 * n) = 1 + Halvings(n)
<1> DEFINE m == 2 * n
<1>1. m \in Nat /\ n <= m /\ n \in 1..n /\ m \in 1..m /\ m % 2 = 0 /\ m \div 2 = n
  OBVIOUS
<1> HIDE DEF m
<1>2. PICK f : AreHalvings(f, n) /\ Halvings(n) = f[n]
  BY HalvingsExist
<1>3. PICK g : AreHalvings(g, m) /\ Halvings(m) = g[m]
  BY <1>1, HalvingsExist
<1>4. f[n] = g[n] /\ g[n] \in Nat
  BY <1>1, <1>2, <1>3, HalvingsAgree
<1>5. f[n] = IF n % 2 = 0 THEN 1 + f[n \div 2] ELSE 0
  BY <1>1, <1>2 DEF AreHalvings
<1>6. g[m] = 1 + g[n]
  BY <1>1, <1>3 DEF AreHalvings
<1>7. n % 2 = 1 => n % 2 # 0
  OBVIOUS
<1>8. Halvings(n) \in Nat /\ (n % 2 = 1 => Halvings(n) = 0)
  BY <1>2, <1>4, <1>5, <1>7
<1>9. Halvings(m) = 1 + Halvings(n)
  BY <1>2, <1>3, <1>4, <1>6
<1> QED BY <1>8, <1>9 DEF m

LEMMA LeavesAreSeqs ==
  ASSUME NEW nodes \in Seq(Node)
  PROVE  /\ [i \in DOMAIN nodes |-> nodes[i].leaves] \in Seq(Seq(Entry))
         /\ LeavesOf(nodes) \in Seq(Entry)
<1>1. [i \in DOMAIN nodes |-> nodes[i].leaves] \in Seq(Seq(Entry))
  <2>1. Len(nodes) \in Nat /\ DOMAIN nodes = 1..Len(nodes)
    OBVIOUS
  <2>2. \A i \in 1..Len(nodes) : nodes[i].leaves \in Seq(Entry)
    <3>1. \A i \in 1..Len(nodes) : nodes[i] \in Node
      OBVIOUS
    <3> QED BY <3>1 DEF Node
  <2> QED BY <2>1, <2>2
<1> QED BY <1>1, FlattenType DEF LeavesOf

LEMMA LeavesOfConcat ==
  ASSUME NEW s \in Seq(Node), NEW t \in Seq(Node)
  PROVE  LeavesOf(s \o t) = LeavesOf(s) \o LeavesOf(t)
<1> DEFINE L(nodes) == [i \in DOMAIN nodes |-> nodes[i].leaves]
           m == Len(s)
           n == Len(t)
           a == L(s)
           b == L(t)
           c == L(s \o t)
<1>1. a \in Seq(Seq(Entry)) /\ b \in Seq(Seq(Entry)) /\ c \in Seq(Seq(Entry))
  BY LeavesAreSeqs, ConcatProperties
<1>2. /\ m \in Nat /\ n \in Nat
      /\ DOMAIN s = 1..m /\ DOMAIN t = 1..n /\ DOMAIN (s \o t) = 1..(m + n)
      /\ \A i \in 1..(m + n) : (s \o t)[i] = IF i <= m THEN s[i] ELSE t[i - m]
  BY ConcatProperties, LenProperties
<1>3. /\ Len(a) = m /\ Len(b) = n /\ Len(c) = m + n
      /\ \A i \in 1..m : a[i] = s[i].leaves
      /\ \A i \in 1..n : b[i] = t[i].leaves
      /\ \A i \in 1..(m + n) : c[i] = (s \o t)[i].leaves
  BY <1>1, <1>2
<1> HIDE DEF a, b, c, m, n
<1>4. /\ a \o b \in Seq(Seq(Entry))
      /\ Len(a \o b) = m + n
      /\ \A i \in 1..(m + n) : (a \o b)[i] = IF i <= m THEN a[i] ELSE b[i - m]
  BY <1>1, <1>3, ConcatProperties
<1>5. ASSUME NEW i \in 1..(m + n) PROVE c[i] = (a \o b)[i]
  <2> DEFINE st == s \o t
             ab == a \o b
  <2>1. /\ c[i] = st[i].leaves
        /\ st[i] = IF i <= m THEN s[i] ELSE t[i - m]
        /\ ab[i] = IF i <= m THEN a[i] ELSE b[i - m]
    BY <1>2, <1>3, <1>4
  <2> HIDE DEF st, ab
  <2>2. CASE i <= m
    <3>1. i \in 1..m
      BY <1>2, <2>2
    <3>2. a[i] = s[i].leaves
      BY <1>3, <3>1
    <3> QED BY <2>1, <2>2, <3>2 DEF ab
  <2>3. CASE ~ (i <= m)
    <3>1. i - m \in 1..n
      BY <1>2, <2>3
    <3>2. b[i - m] = t[i - m].leaves
      BY <1>3, <3>1
    <3> QED BY <2>1, <2>3, <3>2 DEF ab
  <2> QED BY <2>2, <2>3
<1>6. c = a \o b
  BY <1>1, <1>3, <1>4, <1>5, SeqEqual
<1>7. FlattenSeq(a \o b) = FlattenSeq(a) \o FlattenSeq(b)
  BY <1>1, FlattenConcat
<1> QED BY <1>6, <1>7 DEF LeavesOf, a, b, c

LEMMA LeavesOfOne ==
  ASSUME NEW node \in Node PROVE LeavesOf(<<node>>) = node.leaves
<1>1. [i \in DOMAIN <<node>> |-> <<node>>[i].leaves] = <<node.leaves>>
  OBVIOUS
<1>2. node.leaves \in Seq(Entry)
  BY DEF Node
<1> QED BY <1>1, <1>2, FlattenSingle DEF LeavesOf

LEMMA LeavesOfNone == LeavesOf(<<>>) = <<>>
<1>1. [i \in DOMAIN <<>> |-> <<>>[i].leaves] = <<>>
  OBVIOUS
<1> QED BY <1>1, FlattenEmpty DEF LeavesOf

\* The function with which FoldRight hashes nodes into the one given last.
IsHashing(hash, nodes, last) ==
    hash = [s \in SUBSET DOMAIN nodes |->
               IF s = {} THEN last ELSE HashMiMC(nodes[Min(s)], hash[s \ {Min(s)}])]

LEMMA HashIsNode ==
  ASSUME NEW l \in Node, NEW r \in Node
  PROVE  HashMiMC(l, r) \in Node /\ HashMiMC(l, r).leaves = l.leaves \o r.leaves
<1>1. l.height + 1 \in Nat /\ l.leaves \o r.leaves \in Seq(Entry)
  BY ConcatProperties DEF Node
<1> QED BY <1>1 DEF HashMiMC, Node

LEMMA MinIsLeast ==
  ASSUME NEW s, s # {}, s \subseteq Nat
  PROVE  Min(s) \in s /\ \A x \in s : Min(s) <= x
  BY LeastNumber DEF Min

LEMMA HashingExists ==
  ASSUME NEW nodes \in Seq(Node), NEW last \in Node
  PROVE  \E hash \in [SUBSET DOMAIN nodes -> Node] : IsHashing(hash, nodes, last)
<1> DEFINE S == DOMAIN nodes
           pick == [s \in SUBSET S |-> Min(s)]
           step == [p \in S \X Node |-> HashMiMC(nodes[p[1]], p[2])]
<1>1. /\ S = 1..Len(nodes) /\ Len(nodes) \in Nat
      /\ \A i \in S : nodes[i] \in Node
  OBVIOUS
<1>2. IsFiniteSet(S)
  BY <1>1, FS_Interval
<1>3. \A s \in SUBSET S : s # {} => Min(s) \in s
  BY <1>1, MinIsLeast
<1>4. \A s \in SUBSET S : pick[s] = Min(s)
  OBVIOUS
<1>5. \A x \in S, v \in Node : step[<<x, v>>] = HashMiMC(nodes[x], v)
  OBVIOUS
<1> HIDE DEF S, pick, step
<1>6. Picks(pick, S)
  BY <1>3, <1>4 DEF Picks
<1>7. Steps(step, S, Node)
  <2>1. ASSUME NEW x \in S, NEW v \in Node PROVE step[<<x, v>>] \in Node
    <3>1. nodes[x] \in Node
      BY <1>1
    <3> QED BY <1>5, <3>1, HashIsNode
  <2> QED BY <2>1 DEF Steps
<1>8. PICK f \in [SUBSET S -> Node] : IsRecursive(f, S, last, pick, step)
  BY <1>2, <1>6, <1>7, SubsetRecursion
<1>9. \A s \in SUBSET S :
         f[s] = IF s = {} THEN last ELSE HashMiMC(nodes[Min(s)], f[s \ {Min(s)}])
  <2> TAKE s \in SUBSET S
  <2>1. CASE s = {}
    BY <1>8, <2>1 DEF IsRecursive
  <2>2. CASE s # {}
    <3>1. Min(s) \in S /\ f[s \ {Min(s)}] \in Node
      BY <1>3, <1>8, <2>2
    <3>2. f[s] = step[<<Min(s), f[s \ {Min(s)}]>>]
      BY <1>4, <1>8, <2>2 DEF IsRecursive
    <3> QED BY <1>5, <2>2, <3>1, <3>2
  <2> QED BY <2>1, <2>2
<1>10. f = [s \in SUBSET S |-> f[s]]
  BY <1>8
<1> QED BY <1>8, <1>9, <1>10 DEF IsHashing, S

LEMMA LeavesAssociate ==
  \A s, t, u \in Seq(Entry) : (s \o t) \o u = s \o (t \o u)
<1> TAKE s \in Seq(Entry), t \in Seq(Entry), u \in Seq(Entry)
<1> QED BY ConcatAssociative

\* tops are the nodes that FoldRight makes one by one, from the last backwards.
AreTops(tops, nodes, last) ==
    /\ tops \in [0..Len(nodes) -> Node]
    /\ tops[0] = last
    /\ \A k \in 0..(Len(nodes) - 1) :
          tops[k + 1] = HashMiMC(nodes[Len(nodes) - k], tops[k])

LEMMA TopsExist ==
  ASSUME NEW nodes \in Seq(Node), NEW last \in Node
  PROVE  \E tops : /\ AreTops(tops, nodes, last)
                   /\ FoldRight(HashMiMC, nodes, last) = tops[Len(nodes)]
<1> DEFINE hash == CHOOSE h : IsHashing(h, nodes, last)
           n == Len(nodes)
           S == DOMAIN nodes
           Rest(k) == (n - k + 1)..n
           tops == [k \in 0..n |-> hash[Rest(k)]]
<1>1. FoldRight(HashMiMC, nodes, last) = hash[S]
  BY Zenon DEF FoldRight, MapThenFoldSet, IsHashing
<1>2. PICK f \in [SUBSET S -> Node] : IsHashing(f, nodes, last)
  BY HashingExists
<1>3. IsHashing(hash, nodes, last)
  BY <1>2
<1> HIDE DEF hash
<1>4. n \in Nat /\ S = 1..n /\ \A i \in 1..n : nodes[i] \in Node
  OBVIOUS
<1>5. \A k \in 0..n : tops[k] = hash[Rest(k)]
  OBVIOUS
<1> HIDE DEF n, S
<1>6. tops[0] = last
  <2>1. Rest(0) = {} /\ {} \in SUBSET DOMAIN nodes /\ 0 \in 0..n
    BY <1>4
  <2> HIDE DEF Rest, tops
  <2> QED BY <1>3, <1>5, <2>1 DEF IsHashing
<1>7. ASSUME NEW k \in 0..(n - 1) PROVE tops[k + 1] = HashMiMC(nodes[n - k], tops[k])
  <2> DEFINE i == n - k
             X == Rest(k + 1)
             Y == Rest(k)
  <2>1. /\ i \in X /\ X \subseteq Nat /\ X \ {i} = Y /\ X \in SUBSET S /\ i \in Int
        /\ \A x \in X : i <= x
    BY <1>4
  <2>2. k \in 0..n /\ k + 1 \in 0..n
    BY <1>4
  <2>3. tops[k + 1] = hash[X] /\ tops[k] = hash[Y]
    <3> HIDE DEF tops
    <3> QED BY <1>5, <2>2
  <2> HIDE DEF i, X, Y, tops
  <2>4. Min(X) \in X /\ Min(X) <= i
    BY <2>1, MinIsLeast
  <2>5. Min(X) = i
    <3>1. i <= Min(X) /\ Min(X) \in Nat
      BY <2>1, <2>4
    <3> QED BY <2>1, <2>4, <3>1
  <2>6. hash[X] = HashMiMC(nodes[Min(X)], hash[X \ {Min(X)}])
    BY <1>3, <2>1 DEF IsHashing, S
  <2>7. hash[X] = HashMiMC(nodes[i], hash[Y])
    BY <2>1, <2>5, <2>6
  <2> QED BY <2>3, <2>7 DEF i
<1>8. Rest(n) = S /\ n \in 0..n
  BY <1>4
<1>9. tops[n] = hash[S]
  BY <1>8
<1> HIDE DEF tops, Rest
<1>10. \A k \in 0..n : tops[k] \in Node
  <2> DEFINE Good == {k \in Nat : k <= n => tops[k] \in Node}
  <2>1. 0 \in Good
    BY <1>6
  <2>2. ASSUME NEW k \in Nat, k \in Good PROVE k + 1 \in Good
    <3> SUFFICES ASSUME k + 1 <= n PROVE tops[k + 1] \in Node
      OBVIOUS
    <3>1. k \in 0..(n - 1) /\ tops[k] \in Node /\ n - k \in 1..n
      BY <1>4, <2>2
    <3>2. nodes[n - k] \in Node
      BY <1>4, <3>1
    <3>3. tops[k + 1] = HashMiMC(nodes[n - k], tops[k])
      BY <1>7, <3>1
    <3> QED BY <3>1, <3>2, <3>3, HashIsNode
  <2>3. Nat \subseteq Good
    <3> HIDE DEF Good
    <3> QED BY <2>1, <2>2, Induction
  <2> QED BY <1>4, <2>3
<1>11. tops \in [0..n -> Node]
  BY <1>10 DEF tops
<1>12. AreTops(tops, nodes, last)
  BY <1>6, <1>7, <1>11 DEF AreTops, n
<1> QED BY <1>1, <1>9, <1>12 DEF n

\* Hashing keeps the leaves in their order.
LEMMA HashAll ==
  ASSUME NEW nodes \in Seq(Node), NEW last \in Node
  PROVE  LET all == FoldRight(HashMiMC, nodes, last)
         IN  all \in Node /\ all.leaves = LeavesOf(nodes) \o last.leaves
<1> DEFINE n == Len(nodes)
           Tail_(k) == SubSeq(nodes, n - k + 1, n)
<1>1. PICK tops : /\ AreTops(tops, nodes, last)
                  /\ FoldRight(HashMiMC, nodes, last) = tops[n]
  BY TopsExist
<1>2. n \in Nat /\ \A i \in 1..n : nodes[i] \in Node
  OBVIOUS
<1>3. /\ tops \in [0..n -> Node] /\ tops[0] = last
      /\ \A k \in 0..(n - 1) : tops[k + 1] = HashMiMC(nodes[n - k], tops[k])
  BY <1>1 DEF AreTops
<1> HIDE DEF n
<1>4. tops[0].leaves = LeavesOf(Tail_(0)) \o last.leaves
  <2>1. Tail_(0) = <<>>
    BY <1>2, SubSeqEmpty
  <2>2. last.leaves \in Seq(Entry)
    BY DEF Node
  <2>3. <<>> \o last.leaves = last.leaves
    BY <2>2, ConcatEmptySeq
  <2> QED BY <1>3, <2>1, <2>3, LeavesOfNone
<1>5. ASSUME NEW k \in 0..(n - 1), tops[k].leaves = LeavesOf(Tail_(k)) \o last.leaves
      PROVE  tops[k + 1].leaves = LeavesOf(Tail_(k + 1)) \o last.leaves
  <2> DEFINE i == n - k
             rest == Tail_(k)
             one == <<nodes[i]>>
             a == nodes[i].leaves
             b == LeavesOf(rest)
             c == last.leaves
  <2>1. i \in 1..n /\ n \in i..n /\ i + 1 \in Int /\ n \in Int
        /\ n - k + 1 = i + 1 /\ n - (k + 1) + 1 = i /\ k \in 0..n
    BY <1>2
  <2>2. nodes[i] \in Node /\ tops[k] \in Node
    BY <1>2, <1>3, <2>1
  <2>3. tops[k + 1].leaves = a \o tops[k].leaves
    BY <1>3, <2>2, HashIsNode
  <2>4. rest = SubSeq(nodes, i + 1, n) /\ Tail_(k + 1) = SubSeq(nodes, i, n)
    BY <2>1
  <2> HIDE DEF i, rest
  <2>5. rest \in Seq(Node)
    <3>1. \A j \in (i + 1)..n : nodes[j] \in Node
      BY <1>2, <2>1
    <3> QED BY <2>1, <2>4, <3>1, SubSeqProperties
  <2>6. Tail_(k + 1) = one \o rest
    <3>1. SubSeq(nodes, i, n) = <<nodes[i]>> \o SubSeq(nodes, i + 1, n)
      BY <2>1, SubSeqRecursiveFirst DEF n
    <3> QED BY <2>4, <3>1
  <2>7. one \in Seq(Node) /\ LeavesOf(one) = a
    BY <2>2, LeavesOfOne
  <2> HIDE DEF one
  <2>8. LeavesOf(one \o rest) = LeavesOf(one) \o LeavesOf(rest)
    BY <2>5, <2>7, LeavesOfConcat
  <2>9. a \in Seq(Entry) /\ b \in Seq(Entry) /\ c \in Seq(Entry)
    BY <2>2, <2>5, LeavesAreSeqs DEF Node
  <2>10. tops[k].leaves = b \o c
    BY <1>5 DEF rest
  <2> HIDE DEF Tail_
  <2>11. tops[k + 1].leaves = a \o (b \o c) /\ LeavesOf(Tail_(k + 1)) = a \o b
    BY <2>3, <2>6, <2>7, <2>8, <2>10
  <2> HIDE DEF a, b, c
  <2>12. (a \o b) \o c = a \o (b \o c)
    BY <2>9, Zenon, LeavesAssociate
  <2> QED BY <2>11, <2>12 DEF c
<1> DEFINE Keeps(k) == tops[k].leaves = LeavesOf(Tail_(k)) \o last.leaves
           Good == {k \in Nat : k <= n => Keeps(k)}
<1>6. Keeps(n)
  <2>1. /\ Keeps(0)
        /\ \A k \in 0..(n - 1) : Keeps(k) => Keeps(k + 1)
    BY <1>4, <1>5
  <2> HIDE DEF Keeps
  <2>2. 0 \in Good
    BY <2>1
  <2>3. ASSUME NEW k \in Nat, k \in Good PROVE k + 1 \in Good
    BY <1>2, <2>1, <2>3
  <2>4. n \in Good
    <3> HIDE DEF Good
    <3> QED BY <1>2, <2>2, <2>3, Induction
  <2>5. n <= n
    BY <1>2
  <2> QED BY <2>4, <2>5
<1>7. Tail_(n) = nodes
  <2>1. n - n + 1 = 1
    BY <1>2
  <2>2. SubSeq(nodes, 1, n) = nodes
    BY SubSeqFull DEF n
  <2> QED BY <2>1, <2>2
<1>8. tops[n] \in Node
  BY <1>2, <1>3
<1> HIDE DEF Tail_
<1> QED BY <1>1, <1>6, <1>7, <1>8

\* Merging the last nodes keeps the leaves of the whole queue, in their order.
LEMMA MerklizeKeepsLeaves ==
  ASSUME NEW nodes \in Seq(Node), NEW j \in Nat, j < Len(nodes)
  PROVE  Merklize(nodes, j) \in Seq(Node) /\ LeavesOf(Merklize(nodes, j)) = LeavesOf(nodes)
<1> DEFINE n == Len(nodes)
           keep == n - j - 1
           kept == SubSeq(nodes, 1, keep)
           merged == SubSeq(nodes, keep + 1, n - 1)
           all == FoldRight(HashMiMC, merged, Last(nodes))
<1>1. /\ n \in Nat /\ keep \in 0..(n - 1) /\ n >= 1
      /\ \A i \in 1..n : nodes[i] \in Node
  OBVIOUS
<1>2. Last(nodes) = nodes[n] /\ nodes[n] \in Node
  BY <1>1 DEF Last
<1>3. kept \in Seq(Node) /\ merged \in Seq(Node)
  <2>1. /\ \A i \in 1..keep : nodes[i] \in Node
        /\ \A i \in (keep + 1)..(n - 1) : nodes[i] \in Node
        /\ keep \in Int /\ keep + 1 \in Int /\ n - 1 \in Int
    BY <1>1
  <2> HIDE DEF n, keep
  <2> QED BY <2>1, SubSeqProperties
<1>4. kept \o (merged \o <<nodes[n]>>) = nodes
  <2>1. keep + 1 \in 1..n /\ n \in (keep + 1)..n /\ 1 \in 1..(n + 1)
        /\ keep \in (1 - 1)..n /\ n \in keep..n
    BY <1>1
  <2> HIDE DEF keep
  <2>2. SubSeq(nodes, keep + 1, n) = merged \o <<nodes[n]>>
    BY <2>1, SubSeqRecursiveSecond
  <2>3. SubSeq(nodes, 1, keep) \o SubSeq(nodes, keep + 1, n) = SubSeq(nodes, 1, n)
    BY <2>1, ConcatAdjacentSubSeq
  <2>4. SubSeq(nodes, 1, n) = nodes
    BY SubSeqFull
  <2> QED BY <2>2, <2>3, <2>4
<1>5. Merklize(nodes, j) = Append(kept, all)
  BY DEF Merklize
<1> HIDE DEF n, kept, merged, keep
<1>6. all \in Node /\ all.leaves = LeavesOf(merged) \o nodes[n].leaves
  BY <1>2, <1>3, HashAll
<1> HIDE DEF all
<1> DEFINE last == <<nodes[n]>>
           top == <<all>>
<1>7. /\ last \in Seq(Node) /\ LeavesOf(last) = nodes[n].leaves
      /\ top \in Seq(Node) /\ LeavesOf(top) = all.leaves
  BY <1>2, <1>6, LeavesOfOne
<1>8. Merklize(nodes, j) = kept \o top /\ Merklize(nodes, j) \in Seq(Node)
  BY <1>3, <1>5, <1>6, AppendIsConcat, AppendProperties
<1> HIDE DEF last, top
<1> DEFINE rest == merged \o last
<1>9. LeavesOf(kept \o top) = LeavesOf(kept) \o LeavesOf(top)
  BY <1>3, <1>7, LeavesOfConcat
<1>10. rest \in Seq(Node) /\ LeavesOf(rest) = LeavesOf(merged) \o LeavesOf(last)
  BY <1>3, <1>7, LeavesOfConcat, ConcatProperties
<1>11. kept \o rest = nodes
  BY <1>4 DEF last
<1> HIDE DEF rest
<1>12. LeavesOf(kept \o rest) = LeavesOf(kept) \o LeavesOf(rest)
  BY <1>3, <1>10, LeavesOfConcat
<1> QED BY <1>6, <1>7, <1>8, <1>9, <1>10, <1>11, <1>12

\* The types of the queue, and that it holds what was accepted and not yet processed.
QueueInv ==
    /\ pendingDeposits \in Seq(Node) /\ processed \in Seq(Node)
    /\ accepted \in Seq(Entry)
    /\ queueNumber \in Nat /\ depositSubtreeHeight \in Nat
    /\ DepositsInOrder

LEMMA InitQueue == Init => QueueInv
<1> SUFFICES ASSUME Init PROVE QueueInv
  OBVIOUS
<1>1. /\ pendingDeposits = <<>> /\ processed = <<>> /\ accepted = <<>>
      /\ queueNumber = 0 /\ depositSubtreeHeight = 0
  BY DEF Init
<1>2. <<>> \o <<>> = <<>>
  BY ConcatEmptySeq, EmptySeq
<1> QED BY <1>1, <1>2, LeavesOfNone DEF QueueInv, DepositsInOrder

LEMMA DepositKeepsQueue ==
  ASSUME QueueInv, NEW user, NEW tokenType \in TokenTypes,
         NEW amount \in Amounts, NEW value \in Amounts, Deposit(user, tokenType, amount, value)
  PROVE  QueueInv'
<1> DEFINE n == (queueNumber + 1) % Word
           d == [id |-> Len(accepted) + 1, amount |-> amount, tokenType |-> tokenType]
           leaf == Leaf(d)
           nodes == Append(pendingDeposits, leaf)
           a == LeavesOf(processed)
           b == LeavesOf(pendingDeposits)
           c == leaf.leaves
<1>1. /\ QueueAllows(n) /\ queueNumber' = n
      /\ pendingDeposits' = Merklize(nodes, Halvings(n))
      /\ depositSubtreeHeight' \in {Halvings(n), depositSubtreeHeight}
      /\ accepted' = Append(accepted, d) /\ processed' = processed
  BY DEF Deposit
<1>2. n \in Nat
  BY RollupAssumption DEF QueueInv
<1>3. d \in Entry /\ accepted \in Seq(Entry)
  BY RollupAssumption DEF QueueInv, Entry
<1> HIDE DEF n, d
<1>4. Halvings(n) \in Nat /\ Halvings(n) <= Len(pendingDeposits)
  BY <1>1, <1>2, HalvingsSteps DEF QueueAllows
<1>5. c = <<d>> /\ leaf \in Node /\ c \in Seq(Entry)
  BY <1>3 DEF Leaf, Node
<1> HIDE DEF leaf
<1>6. /\ nodes \in Seq(Node) /\ Len(nodes) = Len(pendingDeposits) + 1
      /\ nodes = pendingDeposits \o <<leaf>>
  BY <1>5, AppendProperties, AppendIsConcat DEF QueueInv
<1>7. LeavesOf(nodes) = b \o c
  <2>1. pendingDeposits \in Seq(Node) /\ <<leaf>> \in Seq(Node)
    BY <1>5 DEF QueueInv
  <2>2. LeavesOf(pendingDeposits \o <<leaf>>) = b \o LeavesOf(<<leaf>>)
    BY <2>1, LeavesOfConcat
  <2> QED BY <1>5, <1>6, <2>2, LeavesOfOne
<1>8. Halvings(n) < Len(nodes)
  <2>1. Len(pendingDeposits) \in Nat
    BY DEF QueueInv
  <2> QED BY <1>4, <1>6, <2>1
<1> HIDE DEF nodes
<1>9. pendingDeposits' \in Seq(Node) /\ LeavesOf(pendingDeposits') = b \o c
  BY <1>1, <1>4, <1>6, <1>7, <1>8, MerklizeKeepsLeaves
<1>10. a \in Seq(Entry) /\ b \in Seq(Entry) /\ a \o b = accepted
  BY LeavesAreSeqs DEF QueueInv, DepositsInOrder
<1>11. accepted' = (a \o b) \o c /\ accepted' \in Seq(Entry)
  <2> HIDE DEF a, b, c
  <2>1. accepted' = accepted \o <<d>>
    BY <1>1, <1>3, AppendIsConcat
  <2> QED BY <1>1, <1>3, <1>5, <1>10, <2>1, AppendProperties
<1> HIDE DEF a, b, c
<1>12. (a \o b) \o c = a \o (b \o c)
  <2>1. a \in Seq(Entry) /\ b \in Seq(Entry) /\ c \in Seq(Entry)
    BY <1>5, <1>10
  <2> QED BY <2>1, ConcatAssociative
<1>13. DepositsInOrder'
  BY <1>1, <1>9, <1>11, <1>12 DEF DepositsInOrder, a
<1>14. queueNumber' \in Nat /\ depositSubtreeHeight' \in Nat /\ processed' \in Seq(Node)
  BY <1>1, <1>2, <1>4 DEF QueueInv
<1> QED BY <1>9, <1>11, <1>13, <1>14 DEF QueueInv

\* Whatever the height that is claimed and the counter, one node moves from the head of
\* the queue to the end of what was processed.
LEMMA ProcessKeepsQueue ==
  ASSUME QueueInv, NEW k, NEW pos, ProcessDeposits(k, pos)
  PROVE  QueueInv'
<1> DEFINE hd == Head(pendingDeposits)
           tl == Tail(pendingDeposits)
           one == <<hd>>
<1>1. /\ pendingDeposits # <<>> /\ pendingDeposits' = tl /\ queueNumber' = Dequeued
      /\ processed' = Append(processed, hd)
      /\ depositSubtreeHeight' = depositSubtreeHeight /\ accepted' = accepted
  BY DEF ProcessDeposits
<1>2. hd \in Node /\ tl \in Seq(Node) /\ one \in Seq(Node) /\ pendingDeposits = one \o tl
  <2>1. pendingDeposits \in Seq(Node)
    BY DEF QueueInv
  <2>2. hd \in Node /\ tl \in Seq(Node)
    BY <1>1, <2>1, HeadTailProperties
  <2>3. pendingDeposits = one \o tl
    BY <1>1, <2>1
  <2> QED BY <2>2, <2>3
<1>3. queueNumber' \in Nat
  <2>1. PowerOfTwo(depositSubtreeHeight) \in Int
    BY PowersDouble DEF QueueInv
  <2> HIDE DEF hd, tl, one
  <2>2. ASSUME NEW x \in Int PROVE (queueNumber - x) % Word \in Nat
    BY RollupAssumption DEF QueueInv
  <2> QED BY <1>1, <2>1, <2>2 DEF Dequeued
<1> HIDE DEF hd, tl
<1>4. processed \in Seq(Node) /\ processed' = processed \o one /\ processed' \in Seq(Node)
  BY <1>1, <1>2, AppendIsConcat, AppendProperties DEF QueueInv
<1> HIDE DEF one
<1> DEFINE a == LeavesOf(processed)
           b == LeavesOf(one)
           c == LeavesOf(tl)
<1>5. a \in Seq(Entry) /\ b \in Seq(Entry) /\ c \in Seq(Entry)
  BY <1>2, <1>4, LeavesAreSeqs
<1>6. LeavesOf(processed') = a \o b /\ LeavesOf(pendingDeposits) = b \o c
  <2>1. LeavesOf(processed \o one) = a \o b
    BY <1>2, <1>4, LeavesOfConcat
  <2>2. LeavesOf(one \o tl) = b \o c
    BY <1>2, LeavesOfConcat
  <2> QED BY <1>2, <1>4, <2>1, <2>2
<1>7. a \o (b \o c) = accepted
  BY <1>6 DEF QueueInv, DepositsInOrder
<1>8. LeavesOf(pendingDeposits') = c
  BY <1>1
<1> HIDE DEF a, b, c
<1>9. (a \o b) \o c = a \o (b \o c)
  BY <1>5, ConcatAssociative
<1>10. DepositsInOrder'
  BY <1>1, <1>6, <1>7, <1>8, <1>9 DEF DepositsInOrder
<1> QED BY <1>1, <1>2, <1>3, <1>4, <1>10 DEF QueueInv

LEMMA NextQueue == QueueInv /\ [Next]_vars => QueueInv'
<1> SUFFICES ASSUME QueueInv, [Next]_vars PROVE QueueInv'
  OBVIOUS
<1>1. ASSUME UNCHANGED <<depositVars, accepted, processed>> PROVE QueueInv'
  BY <1>1 DEF QueueInv, DepositsInOrder, depositVars
<1>2. ASSUME NEW user \in Users, NEW t \in TokenTypes, NEW amount \in Amounts,
             NEW value \in Amounts, Deposit(user, t, amount, value)
      PROVE  QueueInv'
  BY <1>2, DepositKeepsQueue
<1>3. ASSUME NEW k, NEW pos, ProcessDeposits(k, pos) PROVE QueueInv'
  BY <1>3, ProcessKeepsQueue
<1>4. ASSUME NEW r, PrepareUpdate(r) PROVE QueueInv'
  BY <1>1, <1>4 DEF PrepareUpdate
<1>5. ASSUME NEW proof, UpdateState(proof) PROVE QueueInv'
  BY <1>1, <1>5 DEF UpdateState
<1>6. ASSUME NEW tx, Withdraw(tx) PROVE QueueInv'
  BY <1>1, <1>6 DEF Withdraw
<1>7. ASSUME NEW token, RegisterToken(token) \/ ApproveToken(token) PROVE QueueInv'
  BY <1>1, <1>7 DEF RegisterToken, ApproveToken
<1>8. CASE UNCHANGED vars
  BY <1>1, <1>8 DEF vars
<1> QED BY <1>2, <1>3, <1>4, <1>5, <1>6, <1>7, <1>8 DEF Next, Others

\* No deposit is lost, doubled or overtaken, for any modulus of the counter, any depth of
\* the tree and whichever heights the coordinator claims.
THEOREM DepositsKeepTheirOrder == Spec => []DepositsInOrder
<1>1. Init => QueueInv
  BY InitQueue
<1>2. QueueInv /\ [Next]_vars => QueueInv'
  BY NextQueue
<1>3. QueueInv => DepositsInOrder
  BY DEF QueueInv
<1> QED BY <1>1, <1>2, <1>3, PTL DEF Spec

-----------------------------------------------------------------------------
(* The disciplined coordinator: the queue is a binary counter. *)

\* The loop counts how often two divides a number.
LEMMA HalvingsCountTwos ==
  ASSUME NEW r \in Nat, NEW q \in Nat
  PROVE  Halvings((2 * q + 1) * PowerOfTwo(r)) = r
<1> DEFINE odd == 2 * q + 1
           Good == {k \in Nat : Halvings(odd * PowerOfTwo(k)) = k}
<1>1. odd \in Nat \ {0} /\ odd % 2 = 1
  OBVIOUS
<1> HIDE DEF odd
<1>2. 0 \in Good
  <2>1. odd * PowerOfTwo(0) = odd
    BY <1>1, PowersDouble
  <2> QED BY <1>1, <2>1, HalvingsSteps
<1>3. ASSUME NEW k \in Nat, k \in Good PROVE k + 1 \in Good
  <2> DEFINE p == PowerOfTwo(k)
  <2>1. p \in Nat \ {0} /\ PowerOfTwo(k + 1) = 2 * p
    BY PowersDouble
  <2> HIDE DEF p
  <2>2. odd * p \in Nat \ {0} /\ odd * (2 * p) = 2 * (odd * p)
    BY <1>1, <2>1
  <2> DEFINE x == odd * p
  <2>3. Halvings(x) = k
    BY <1>3 DEF p
  <2>4. x \in Nat \ {0}
    BY <2>2
  <2> HIDE DEF x
  <2>5. Halvings(2 * x) = 1 + k
    BY <2>3, <2>4, HalvingsSteps
  <2>6. Halvings(odd * PowerOfTwo(k + 1)) = k + 1
    BY <2>1, <2>2, <2>5 DEF x
  <2> QED BY <2>6
<1>4. r \in Good
  <2> HIDE DEF Good
  <2> QED BY <1>2, <1>3, Induction
<1> QED BY <1>4 DEF odd

Perfect(node) == Len(node.leaves) = PowerOfTwo(node.height)

\* Two perfect subtrees of one height hash to one of the next height.
LEMMA HashIsPerfect ==
  ASSUME NEW l \in Node, NEW r \in Node, Perfect(l), Perfect(r), l.height = r.height
  PROVE  Perfect(HashMiMC(l, r)) /\ HashMiMC(l, r).height = l.height + 1
<1> DEFINE a == l.leaves
           b == r.leaves
           h == l.height
           top == HashMiMC(l, r)
<1>1. a \in Seq(Entry) /\ b \in Seq(Entry) /\ h \in Nat
  BY DEF Node
<1>2. top.height = h + 1 /\ top.leaves = a \o b
  BY DEF HashMiMC
<1>3. Len(a) = PowerOfTwo(h) /\ Len(b) = PowerOfTwo(h)
  BY DEF Perfect
<1> HIDE DEF a, b, h, top
<1>4. Len(a \o b) = Len(a) + Len(b)
  BY <1>1, ConcatProperties
<1>5. PowerOfTwo(h + 1) = 2 * PowerOfTwo(h) /\ PowerOfTwo(h) \in Nat
  BY <1>1, PowersDouble
<1> QED BY <1>2, <1>3, <1>4, <1>5 DEF Perfect, top, h

\* Nodes of the heights n - 1, ..., 0 and a leaf hash to one node of height n.
LEMMA HashRun ==
  ASSUME NEW nodes \in Seq(Node), NEW leaf \in Node, leaf.height = 0, Perfect(leaf),
         \A i \in 1..Len(nodes) : Perfect(nodes[i]) /\ nodes[i].height = Len(nodes) - i
  PROVE  LET all == FoldRight(HashMiMC, nodes, leaf)
         IN  all \in Node /\ Perfect(all) /\ all.height = Len(nodes)
<1> DEFINE n == Len(nodes)
<1>1. PICK tops : /\ AreTops(tops, nodes, leaf)
                  /\ FoldRight(HashMiMC, nodes, leaf) = tops[n]
  BY TopsExist
<1>2. n \in Nat /\ \A i \in 1..n : nodes[i] \in Node
  OBVIOUS
<1>3. /\ tops \in [0..n -> Node] /\ tops[0] = leaf
      /\ \A k \in 0..(n - 1) : tops[k + 1] = HashMiMC(nodes[n - k], tops[k])
  BY <1>1 DEF AreTops
<1>4. \A i \in 1..n : Perfect(nodes[i]) /\ nodes[i].height = n - i
  OBVIOUS
<1> HIDE DEF n
<1> DEFINE Good == {k \in Nat : k <= n => Perfect(tops[k]) /\ tops[k].height = k}
<1>5. 0 \in Good
  BY <1>3
<1>6. ASSUME NEW k \in Nat, k \in Good PROVE k + 1 \in Good
  <2> SUFFICES ASSUME k + 1 <= n PROVE Perfect(tops[k + 1]) /\ tops[k + 1].height = k + 1
    OBVIOUS
  <2> DEFINE l == nodes[n - k]
             r == tops[k]
  <2>1. k \in 0..(n - 1) /\ k \in 0..n /\ n - k \in 1..n /\ n - (n - k) = k
    BY <1>2
  <2>2. l \in Node /\ Perfect(l) /\ l.height = k
    BY <1>2, <1>4, <2>1
  <2>3. r \in Node /\ Perfect(r) /\ r.height = k
    BY <1>3, <1>6, <2>1
  <2>4. tops[k + 1] = HashMiMC(l, r)
    BY <1>3, <2>1
  <2> HIDE DEF l, r
  <2> QED BY <2>2, <2>3, <2>4, HashIsPerfect
<1>7. n \in Good /\ n <= n
  <2>1. n <= n
    BY <1>2
  <2> HIDE DEF Good
  <2>2. n \in Good
    BY <1>2, <1>5, <1>6, Induction
  <2> QED BY <2>1, <2>2
<1>8. tops[n] \in Node
  BY <1>2, <1>3
<1> QED BY <1>1, <1>7, <1>8 DEF n

Falling(nodes) == \A i, j \in 1..Len(nodes) : i < j => nodes[i].height > nodes[j].height
AllPerfect(nodes) == \A i \in 1..Len(nodes) : Perfect(nodes[i])

\* The last r nodes have the heights r - 1, ..., 0, and those before them are higher.
EndsInRun(nodes, r) ==
    /\ r \in 0..Len(nodes)
    /\ \A i \in 0..(r - 1) : nodes[Len(nodes) - i].height = i
    /\ \A i \in 1..(Len(nodes) - r) : nodes[i].height > r

LEMMA RunExists ==
  ASSUME NEW nodes \in Seq(Node), Falling(nodes)
  PROVE  \E r : EndsInRun(nodes, r)
<1> DEFINE m == Len(nodes)
           h == [i \in 1..m |-> nodes[i].height]
           R == {r \in 0..m : r = m \/ h[m - r] # r}
<1>1. m \in Nat /\ \A i \in 1..m : h[i] \in Nat /\ h[i] = nodes[i].height
  <2>1. \A i \in 1..m : nodes[i] \in Node
    OBVIOUS
  <2> QED BY <2>1 DEF Node
<1>2. \A i, j \in 1..m : i < j => h[i] > h[j]
  BY DEF Falling
<1> HIDE DEF m, h
<1>3. m \in R /\ R \subseteq Nat
  BY <1>1
<1>4. PICK r \in R : \A x \in R : r <= x
  <2> HIDE DEF R
  <2> QED BY <1>3, LeastNumber
<1>5. r \in 0..m /\ (r = m \/ h[m - r] # r)
  OBVIOUS
<1>6. \A i \in 0..(r - 1) : m - i \in 1..m /\ h[m - i] = i
  BY <1>1, <1>4, <1>5
<1>7. r # m => h[m - r] > r
  <2> SUFFICES ASSUME r # m PROVE h[m - r] > r
    OBVIOUS
  <2>1. m - r \in 1..m /\ h[m - r] \in Nat /\ h[m - r] # r
    BY <1>1, <1>5
  <2>2. CASE r = 0
    BY <2>1, <2>2
  <2>3. CASE r # 0
    <3>1. r - 1 \in 0..(r - 1) /\ m - (r - 1) \in 1..m /\ m - r < m - (r - 1)
      BY <1>1, <1>5, <2>3
    <3>2. h[m - (r - 1)] = r - 1
      BY <1>6, <3>1
    <3>3. h[m - r] > r - 1
      BY <1>2, <2>1, <3>1, <3>2
    <3> QED BY <1>1, <1>5, <2>1, <3>3
  <2> QED BY <2>2, <2>3
<1>8. \A i \in 1..(m - r) : i \in 1..m /\ h[i] > r
  <2> TAKE i \in 1..(m - r)
  <2>1. i \in 1..m /\ m - r \in 1..m /\ r # m /\ i <= m - r
    BY <1>1, <1>5
  <2>2. h[i] >= h[m - r]
    BY <1>1, <1>2, <2>1
  <2>3. h[i] \in Nat /\ h[m - r] \in Nat /\ h[m - r] > r
    BY <1>1, <1>7, <2>1
  <2> QED BY <1>1, <1>5, <2>1, <2>2, <2>3
<1>9. EndsInRun(nodes, r)
  BY <1>1, <1>5, <1>6, <1>8 DEF EndsInRun, m
<1> QED BY <1>9

LEMMA PowersDivide ==
  ASSUME NEW h \in Nat, NEW k \in Nat
  PROVE  \E q \in Nat : PowerOfTwo(h + k) = q * PowerOfTwo(h)
<1> DEFINE p == PowerOfTwo(h)
           Good == {i \in Nat : \E q \in Nat : PowerOfTwo(h + i) = q * p}
<1>1. p \in Nat
  BY PowersDouble
<1> HIDE DEF p
<1>2. 0 \in Good
  <2>1. PowerOfTwo(h + 0) = 1 * p
    BY <1>1 DEF p
  <2> QED BY <2>1
<1>3. ASSUME NEW i \in Nat, i \in Good PROVE i + 1 \in Good
  <2>1. PICK q \in Nat : PowerOfTwo(h + i) = q * p
    BY <1>3
  <2>2. h + i \in Nat /\ h + (i + 1) = (h + i) + 1
    OBVIOUS
  <2>3. PowerOfTwo(h + (i + 1)) = 2 * PowerOfTwo(h + i)
    BY <2>2, PowersDouble
  <2>4. PowerOfTwo(h + (i + 1)) = (2 * q) * p /\ 2 * q \in Nat
    BY <1>1, <2>1, <2>3
  <2> QED BY <2>4
<1>4. k \in Good
  <2> HIDE DEF Good
  <2> QED BY <1>2, <1>3, Induction
<1> QED BY <1>4 DEF p

\* Perfect subtrees of at least one height have a multiple of leaves of one of them.
LEMMA LeavesAreMultiple ==
  ASSUME NEW nodes \in Seq(Node), AllPerfect(nodes), NEW h \in Nat,
         \A i \in 1..Len(nodes) : nodes[i].height >= h
  PROVE  \E q \in Nat : Len(LeavesOf(nodes)) = q * PowerOfTwo(h)
<1> DEFINE n == Len(nodes)
           p == PowerOfTwo(h)
           Upto(k) == SubSeq(nodes, 1, k)
           Divides(k) == \E q \in Nat : Len(LeavesOf(Upto(k))) = q * p
           Good == {k \in Nat : k <= n => Divides(k)}
<1>1. n \in Nat /\ \A i \in 1..n : nodes[i] \in Node
  OBVIOUS
<1>2. \A i \in 1..n : Perfect(nodes[i]) /\ nodes[i].height >= h
  BY DEF AllPerfect
<1>3. p \in Nat
  BY PowersDouble
<1> HIDE DEF n, p
<1>4. Divides(0)
  <2>1. Upto(0) = <<>>
    BY SubSeqEmpty
  <2>2. Len(LeavesOf(Upto(0))) = 0
    <3> HIDE DEF Upto
    <3>1. Len(<<>>) = 0
      OBVIOUS
    <3> QED BY <2>1, <3>1, LeavesOfNone
  <2>3. 0 = 0 * p /\ 0 \in Nat
    BY <1>3
  <2> QED BY <2>2, <2>3
<1>5. ASSUME NEW k \in 0..(n - 1), Divides(k) PROVE Divides(k + 1)
  <2> DEFINE node == nodes[k + 1]
             start == Upto(k)
             a == LeavesOf(start)
             b == node.leaves
  <2>1. k + 1 \in 1..n /\ 1 \in 1..(k + 1) /\ k + 1 - 1 = k
    BY <1>1
  <2>2. node \in Node /\ Perfect(node) /\ node.height >= h
    BY <1>1, <1>2, <2>1
  <2>3. start \in Seq(Node)
    <3>1. \A i \in 1..k : nodes[i] \in Node
      BY <1>1
    <3>2. 1 \in Int /\ k \in Int
      OBVIOUS
    <3> QED BY <3>1, <3>2, SubSeqProperties
  <2>4. Upto(k + 1) = start \o <<node>>
    <3>1. 1 \in 1..Len(nodes) /\ k + 1 \in 1..Len(nodes)
      BY <2>1 DEF n
    <3>2. SubSeq(nodes, 1, k + 1) = SubSeq(nodes, 1, k + 1 - 1) \o <<nodes[k + 1]>>
      BY <3>1, SubSeqRecursiveSecond
    <3> QED BY <2>1, <3>2
  <2>5. PICK q \in Nat : Len(a) = q * p
    BY <1>5
  <2>6. PICK r \in Nat : Len(b) = r * p
    <3>1. node.height \in Nat /\ node.height - h \in Nat /\ h + (node.height - h) = node.height
      BY <2>2 DEF Node
    <3>2. Len(b) = PowerOfTwo(node.height)
      BY <2>2 DEF Perfect
    <3> HIDE DEF node
    <3>3. \E r \in Nat : PowerOfTwo(h + (node.height - h)) = r * PowerOfTwo(h)
      BY <3>1, PowersDivide
    <3> QED BY <3>1, <3>2, <3>3 DEF p
  <2> HIDE DEF Upto, node, start
  <2>7. LeavesOf(start \o <<node>>) = a \o b
    <3>1. <<node>> \in Seq(Node) /\ LeavesOf(<<node>>) = b
      BY <2>2, LeavesOfOne
    <3> QED BY <2>3, <3>1, LeavesOfConcat
  <2>8. a \in Seq(Entry) /\ b \in Seq(Entry)
    BY <2>2, <2>3, LeavesAreSeqs DEF Node
  <2> HIDE DEF a, b
  <2>9. Len(a \o b) = q * p + r * p
    <3>1. Len(a \o b) = Len(a) + Len(b)
      BY <2>8, ConcatProperties
    <3> QED BY <2>5, <2>6, <3>1
  <2>10. q * p + r * p = (q + r) * p /\ q + r \in Nat
    BY <1>3
  <2> QED BY <2>4, <2>7, <2>9, <2>10
<1> HIDE DEF Divides
<1>6. 0 \in Good
  BY <1>4
<1>7. ASSUME NEW k \in Nat, k \in Good PROVE k + 1 \in Good
  BY <1>1, <1>5, <1>7
<1>8. n \in Good
  <2> HIDE DEF Good
  <2> QED BY <1>1, <1>6, <1>7, Induction
<1>9. Divides(n)
  <2>1. n <= n
    BY <1>1
  <2> QED BY <1>8, <2>1
<1>10. Upto(n) = nodes
  BY SubSeqFull DEF n
<1> HIDE DEF Upto
<1> QED BY <1>9, <1>10 DEF Divides, p

\* A leaf of some entry: a perfect node of height 0.
IsLeaf(leaf) == leaf \in Node /\ leaf.height = 0 /\ Perfect(leaf)

LEMMA LeafIsPerfect ==
  ASSUME NEW d \in Entry PROVE IsLeaf(Leaf(d)) /\ Len(Leaf(d).leaves) = 1
<1>1. Len(Leaf(d).leaves) = 1 /\ Leaf(d).height = 0 /\ Leaf(d) \in Node
  BY DEF Leaf, Node
<1> QED BY <1>1, PowersDouble DEF IsLeaf, Perfect

\* The nodes before the run, and the run hashed with a leaf, which gets the run's height.
SplitsAt(nodes, r, leaf, pre, run, top) ==
    /\ nodes = pre \o run /\ Len(pre) = Len(nodes) - r
    /\ \A i \in 1..Len(pre) : pre[i] = nodes[i] /\ pre[i].height > r /\ Perfect(pre[i])
    /\ Perfect(top) /\ top.height = r
    /\ top.leaves = LeavesOf(run) \o leaf.leaves
    /\ Merklize(Append(nodes, leaf), r) = Append(pre, top)

LEMMA RunSplits ==
  ASSUME NEW nodes \in Seq(Node), AllPerfect(nodes), NEW r, EndsInRun(nodes, r),
         NEW leaf, IsLeaf(leaf)
  PROVE  \E pre, run \in Seq(Node), top \in Node : SplitsAt(nodes, r, leaf, pre, run, top)
<1> DEFINE m == Len(nodes)
           k == m - r
           pre == SubSeq(nodes, 1, k)
           run == SubSeq(nodes, k + 1, m)
           top == FoldRight(HashMiMC, run, leaf)
           all == Append(nodes, leaf)
<1>1. /\ m \in Nat /\ r \in 0..m /\ k \in 0..m /\ leaf \in Node
      /\ \A i \in 1..m : nodes[i] \in Node /\ Perfect(nodes[i])
  BY DEF EndsInRun, AllPerfect, IsLeaf
<1>2. /\ all \in Seq(Node) /\ Len(all) = m + 1 /\ all[m + 1] = leaf
      /\ \A i \in 1..m : all[i] = nodes[i]
  BY <1>1, AppendProperties
<1>3. /\ \A i \in 0..(r - 1) : nodes[m - i].height = i
      /\ \A i \in 1..k : nodes[i].height > r
  BY DEF EndsInRun
<1>4. nodes = pre \o run
  <2>1. SubSeq(nodes, 1, m) = nodes
    BY SubSeqFull
  <2>2. 1 \in 1..(m + 1) /\ k \in (1 - 1)..m /\ m \in k..m
    BY <1>1
  <2> HIDE DEF k
  <2>3. SubSeq(nodes, 1, k) \o SubSeq(nodes, k + 1, m) = SubSeq(nodes, 1, m)
    BY <2>2, ConcatAdjacentSubSeq
  <2> QED BY <2>1, <2>3
<1> HIDE DEF m, all
<1>5. /\ pre \in Seq(Node) /\ Len(pre) = k
      /\ \A i \in 1..k : pre[i] = nodes[i]
  <2>1. 1 \in Int /\ k \in Int /\ \A i \in 1..k : nodes[i] \in Node
    BY <1>1
  <2> HIDE DEF k
  <2>2. /\ pre \in Seq(Node) /\ Len(pre) = IF 1 <= k THEN k - 1 + 1 ELSE 0
        /\ \A i \in 1..(k - 1 + 1) : pre[i] = nodes[1 + i - 1]
    BY <2>1, SubSeqProperties
  <2> QED BY <1>1, <2>2
<1>6. /\ run \in Seq(Node) /\ Len(run) = r
      /\ \A i \in 1..r : run[i] = nodes[k + i]
  <2>1. k + 1 \in Int /\ m \in Int /\ \A i \in (k + 1)..m : nodes[i] \in Node
    BY <1>1
  <2>2. m - (k + 1) + 1 = r /\ (k + 1 <= m <=> r > 0) /\ \A i \in 1..r : (k + 1) + i - 1 = k + i
    BY <1>1
  <2> HIDE DEF k
  <2>3. /\ run \in Seq(Node) /\ Len(run) = IF k + 1 <= m THEN m - (k + 1) + 1 ELSE 0
        /\ \A i \in 1..(m - (k + 1) + 1) : run[i] = nodes[(k + 1) + i - 1]
    BY <2>1, SubSeqProperties
  <2> QED BY <1>1, <2>2, <2>3
<1>7. SubSeq(all, 1, k) = pre /\ SubSeq(all, k + 1, m) = run
  <2>1. /\ 1 \in Int /\ k \in Int /\ \A i \in 1..k : all[i] \in Node /\ all[i] = nodes[i]
        /\ k + 1 \in Int /\ m \in Int /\ \A i \in (k + 1)..m : all[i] \in Node
    BY <1>1, <1>2
  <2>2. m - (k + 1) + 1 = r /\ (k + 1 <= m <=> r > 0) /\ k - 1 + 1 = k
        /\ (1 <= k <=> k > 0) /\ (~ (1 <= k) => k = 0)
        /\ (\A i \in 1..r : (k + 1) + i - 1 = k + i /\ k + i \in 1..m)
        /\ \A i \in 1..k : 1 + i - 1 = i
    BY <1>1
  <2> DEFINE a == SubSeq(all, 1, k)
             b == SubSeq(all, k + 1, m)
  <2> HIDE DEF k
  <2>3. /\ a \in Seq(Node) /\ Len(a) = IF 1 <= k THEN k - 1 + 1 ELSE 0
        /\ \A i \in 1..(k - 1 + 1) : a[i] = all[1 + i - 1]
    BY <2>1, SubSeqProperties
  <2>4. /\ b \in Seq(Node) /\ Len(b) = IF k + 1 <= m THEN m - (k + 1) + 1 ELSE 0
        /\ \A i \in 1..(m - (k + 1) + 1) : b[i] = all[(k + 1) + i - 1]
    BY <2>1, SubSeqProperties
  <2> HIDE DEF a, b, pre, run
  <2>5. Len(a) = k /\ \A i \in 1..k : a[i] = pre[i]
    BY <1>5, <2>1, <2>2, <2>3
  <2>6. Len(b) = r /\ \A i \in 1..r : b[i] = run[i]
    BY <1>1, <1>2, <1>6, <2>2, <2>4
  <2>7. a = pre
    BY <1>5, <2>3, <2>5, SeqEqual
  <2>8. b = run
    BY <1>6, <2>4, <2>6, SeqEqual
  <2> QED BY <2>7, <2>8 DEF a, b
<1>8. Merklize(all, r) = Append(pre, top)
  <2>1. Len(all) - r - 1 = k /\ Len(all) - 1 = m
    BY <1>1, <1>2
  <2>2. Last(all) = leaf
    BY <1>2 DEF Last
  <2> HIDE DEF k, pre, run
  <2>3. Merklize(all, r) = Append(SubSeq(all, 1, k), FoldRight(HashMiMC, SubSeq(all, k + 1, m), leaf))
    BY <2>1, <2>2 DEF Merklize
  <2> QED BY <1>7, <2>3
<1>9. \A i \in 1..r : Perfect(run[i]) /\ run[i].height = r - i
  <2> TAKE i \in 1..r
  <2>1. k + i \in 1..m /\ r - i \in 0..(r - 1) /\ m - (r - i) = k + i
    BY <1>1
  <2> HIDE DEF k, run
  <2>2. run[i] = nodes[k + i]
    BY <1>6
  <2>3. nodes[k + i].height = r - i /\ Perfect(nodes[k + i])
    BY <1>1, <1>3, <2>1
  <2> QED BY <2>2, <2>3
<1>10. \A i \in 1..k : pre[i] = nodes[i] /\ pre[i].height > r /\ Perfect(pre[i])
  <2> TAKE i \in 1..k
  <2>1. i \in 1..m
    BY <1>1
  <2> HIDE DEF pre, k
  <2> QED BY <1>1, <1>3, <1>5, <2>1
<1> HIDE DEF k, pre, run
<1>11. top \in Node /\ Perfect(top) /\ top.height = r
  BY <1>6, <1>9, HashRun DEF IsLeaf
<1>12. top.leaves = LeavesOf(run) \o leaf.leaves
  BY <1>1, <1>6, HashAll
<1> HIDE DEF top
<1>13. SplitsAt(nodes, r, leaf, pre, run, top)
  BY <1>4, <1>5, <1>8, <1>10, <1>11, <1>12 DEF SplitsAt, k, m, all
<1> QED BY <1>5, <1>6, <1>11, <1>13

\* The loop over tmp hashes exactly the run into the new leaf.
LEMMA HalvingsFindRun ==
  ASSUME NEW nodes \in Seq(Node), AllPerfect(nodes), NEW r, EndsInRun(nodes, r)
  PROVE  Len(LeavesOf(nodes)) \in Nat /\ Halvings(Len(LeavesOf(nodes)) + 1) = r
<1> DEFINE e == [id |-> 0, amount |-> 0, tokenType |-> 0]
           leaf == Leaf(e)
           p == PowerOfTwo(r)
<1>1. e \in Entry
  <2>1. 0 \in TokenTypes
    BY RollupAssumption, FS_CardinalityType DEF TokenTypes
  <2> QED BY <2>1 DEF Entry
<1> HIDE DEF e
<1>2. IsLeaf(leaf) /\ Len(leaf.leaves) = 1 /\ leaf.leaves \in Seq(Entry)
  BY <1>1, LeafIsPerfect DEF IsLeaf, Node
<1> HIDE DEF leaf
<1>3. PICK pre \in Seq(Node), run \in Seq(Node), top \in Node :
            SplitsAt(nodes, r, leaf, pre, run, top)
  BY <1>2, RunSplits
<1>4. r \in Nat
  BY DEF EndsInRun
<1> DEFINE a == LeavesOf(pre)
           b == LeavesOf(run)
           c == leaf.leaves
<1>5. a \in Seq(Entry) /\ b \in Seq(Entry) /\ LeavesOf(nodes) = a \o b
  BY <1>3, LeavesAreSeqs, LeavesOfConcat DEF SplitsAt
<1>6. Len(b \o c) = p
  BY <1>3 DEF Perfect, SplitsAt
<1>7. PICK q \in Nat : Len(a) = q * PowerOfTwo(r + 1)
  <2>1. \A i \in 1..Len(pre) : pre[i] \in Node
    OBVIOUS
  <2>2. \A i \in 1..Len(pre) : pre[i].height >= r + 1
    BY <1>3, <1>4, <2>1 DEF Node, SplitsAt
  <2>3. AllPerfect(pre) /\ r + 1 \in Nat
    BY <1>3, <1>4 DEF AllPerfect, SplitsAt
  <2> HIDE DEF a
  <2>4. \E q \in Nat : Len(LeavesOf(pre)) = q * PowerOfTwo(r + 1)
    BY <2>2, <2>3, LeavesAreMultiple
  <2> QED BY <2>4 DEF a
<1>8. c \in Seq(Entry) /\ Len(c) = 1
  BY <1>2
<1>9. p \in Nat /\ PowerOfTwo(r + 1) = 2 * p
  BY <1>4, PowersDouble
<1> HIDE DEF a, b, c, p
<1>10. Len(a \o b) = Len(a) + Len(b) /\ Len(b \o c) = Len(b) + Len(c)
       /\ Len(a) \in Nat /\ Len(b) \in Nat
  <2>1. Len(a \o b) = Len(a) + Len(b)
    BY <1>5, ConcatProperties
  <2>2. Len(b \o c) = Len(b) + Len(c)
    BY <1>5, <1>8, ConcatProperties
  <2> QED BY <1>5, <2>1, <2>2
<1>11. Len(LeavesOf(nodes)) + 1 = q * (2 * p) + p /\ Len(LeavesOf(nodes)) \in Nat
  BY <1>5, <1>6, <1>7, <1>8, <1>9, <1>10
<1>12. q * (2 * p) + p = (2 * q + 1) * p
  BY <1>9
<1>13. Halvings((2 * q + 1) * p) = r
  BY <1>4, HalvingsCountTwos DEF p
<1> QED BY <1>11, <1>12, <1>13

\* The queue is a binary number: perfect subtrees, higher ones first.
IsCounter(nodes) == Falling(nodes) /\ AllPerfect(nodes)

LEMMA DepositIncrements ==
  ASSUME NEW nodes \in Seq(Node), IsCounter(nodes), NEW leaf, IsLeaf(leaf)
  PROVE  LET r == Halvings(Len(LeavesOf(nodes)) + 1)
         IN  /\ r \in 0..Len(nodes) /\ Len(LeavesOf(nodes)) \in Nat
             /\ IsCounter(Merklize(Append(nodes, leaf), r))
<1>1. PICK r : EndsInRun(nodes, r)
  BY RunExists DEF IsCounter
<1>2. Len(LeavesOf(nodes)) \in Nat /\ Halvings(Len(LeavesOf(nodes)) + 1) = r
  BY <1>1, HalvingsFindRun DEF IsCounter
<1>3. PICK pre \in Seq(Node), run \in Seq(Node), top \in Node :
            SplitsAt(nodes, r, leaf, pre, run, top)
  BY <1>1, RunSplits DEF IsCounter
<1> DEFINE n == Len(pre)
           new == Append(pre, top)
<1>4. /\ Len(new) = n + 1 /\ n \in Nat /\ new[n + 1] = top
      /\ \A i \in 1..n : new[i] = pre[i]
  BY AppendProperties
<1>5. r \in 0..Len(nodes) /\ Len(nodes) \in Nat /\ n <= Len(nodes)
  BY <1>1, <1>3 DEF EndsInRun, SplitsAt
<1> HIDE DEF new
<1>6. AllPerfect(new)
  <2> SUFFICES ASSUME NEW i \in 1..(n + 1) PROVE Perfect(new[i])
    BY <1>4 DEF AllPerfect
  <2> QED BY <1>3, <1>4 DEF SplitsAt
<1>7. Falling(new)
  <2> SUFFICES ASSUME NEW i \in 1..(n + 1), NEW j \in 1..(n + 1), i < j
               PROVE  new[i].height > new[j].height
    BY <1>4 DEF Falling
  <2>1. i \in 1..n /\ new[i] = nodes[i] /\ new[i].height > r
    <3>1. i \in 1..n
      BY <1>4
    <3>2. pre[i] = nodes[i] /\ pre[i].height > r
      BY <1>3, <3>1 DEF SplitsAt
    <3>3. new[i] = pre[i]
      BY <1>4, <3>1
    <3> QED BY <3>1, <3>2, <3>3
  <2>2. CASE j = n + 1
    BY <1>3, <1>4, <2>1, <2>2 DEF SplitsAt
  <2>3. CASE j \in 1..n
    <3>1. new[j] = nodes[j] /\ i \in 1..Len(nodes) /\ j \in 1..Len(nodes)
      BY <1>3, <1>4, <1>5, <2>1, <2>3 DEF SplitsAt
    <3> QED BY <2>1, <3>1 DEF IsCounter, Falling
  <2> QED BY <2>2, <2>3
<1> QED BY <1>2, <1>3, <1>5, <1>6, <1>7 DEF IsCounter, new, SplitsAt

\* What the disciplined coordinator keeps.
SlotsFit ==
    \A i \in DOMAIN currentRoot.slots :
       currentRoot.slots[i].height = currentRoot.slots[i].node.height

CounterInv ==
    /\ LosslessInv /\ QueueInv
    /\ IsCounter(pendingDeposits) /\ QueueCountsPending /\ SlotsFit
    /\ Len(accepted) <= MaxDeposits

\* The counter does not reach its modulus before the last deposit (2^256 in the code).
CounterFits == MaxDeposits + 1 < Word

LEMMA LeavesAdd ==
  ASSUME NEW done \in Seq(Node), NEW todo \in Seq(Node)
  PROVE  /\ Len(LeavesOf(done)) \in Nat /\ Len(LeavesOf(todo)) \in Nat
         /\ Len(LeavesOf(done) \o LeavesOf(todo)) = Len(LeavesOf(done)) + Len(LeavesOf(todo))
<1> DEFINE a == LeavesOf(done)
           b == LeavesOf(todo)
<1>1. a \in Seq(Entry) /\ b \in Seq(Entry)
  BY LeavesAreSeqs
<1> HIDE DEF a, b
<1>2. Len(a \o b) = Len(a) + Len(b)
  BY <1>1, ConcatProperties
<1> QED BY <1>1, <1>2 DEF a, b

LEMMA CounterDoesNotWrap ==
  ASSUME CounterInv, CounterFits
  PROVE  /\ queueNumber \in Nat /\ queueNumber + 1 < Word /\ Word \in Nat
         /\ (queueNumber + 1) % Word = queueNumber + 1
<1>1. queueNumber <= Len(accepted) /\ Len(accepted) \in Nat /\ queueNumber \in Nat
  BY LeavesAdd DEF CounterInv, QueueInv, QueueCountsPending, DepositsInOrder
<1>2. queueNumber + 1 < Word /\ Word \in Nat \ {0}
  BY <1>1, RollupAssumption DEF CounterInv, CounterFits
<1> QED BY <1>1, <1>2

LEMMA CounterNeverBlocks ==
  ASSUME CounterInv, CounterFits PROVE DepositNeverBlocked
<1>1. pendingDeposits \in Seq(Node) /\ IsCounter(pendingDeposits)
  BY DEF CounterInv, QueueInv
<1>2. PICK r : EndsInRun(pendingDeposits, r)
  BY <1>1, RunExists DEF IsCounter
<1>3. Halvings(Len(LeavesOf(pendingDeposits)) + 1) = r
  BY <1>1, <1>2, HalvingsFindRun DEF IsCounter
<1>4. (queueNumber + 1) % Word = queueNumber + 1 /\ queueNumber + 1 # 0
  BY CounterDoesNotWrap
<1>5. queueNumber = Len(LeavesOf(pendingDeposits))
  BY DEF CounterInv, QueueCountsPending
<1>6. r <= Len(pendingDeposits)
  BY <1>1, <1>2 DEF EndsInRun
<1> QED BY <1>3, <1>4, <1>5, <1>6 DEF DepositNeverBlocked, QueueAllows

LEMMA InitCounter == Init => CounterInv
<1> SUFFICES ASSUME Init PROVE CounterInv
  OBVIOUS
<1>1. /\ pendingDeposits = <<>> /\ accepted = <<>> /\ queueNumber = 0
      /\ currentRoot.slots = <<>>
  BY DEF Init
<1>2. IsCounter(<<>>)
  BY DEF IsCounter, Falling, AllPerfect
<1>3. Len(LeavesOf(pendingDeposits)) = 0 /\ Len(accepted) = 0
  BY <1>1, LeavesOfNone
<1>4. QueueCountsPending /\ SlotsFit
  BY <1>1, <1>3 DEF QueueCountsPending, SlotsFit
<1>5. Len(accepted) <= MaxDeposits
  BY <1>3, RollupAssumption
<1> QED BY <1>1, <1>2, <1>4, <1>5, InitLossless, InitQueue DEF CounterInv

\* A deposit increments the counter and carries in the queue.
LEMMA DepositKeepsCounter ==
  ASSUME CounterInv, CounterFits, QueueInv', NEW user, NEW tokenType \in TokenTypes,
         NEW amount \in Amounts, NEW value \in Amounts, Deposit(user, tokenType, amount, value)
  PROVE  /\ IsCounter(pendingDeposits') /\ QueueCountsPending'
         /\ Len(accepted') <= MaxDeposits /\ currentRoot' = currentRoot
<1> DEFINE n == (queueNumber + 1) % Word
           d == [id |-> Len(accepted) + 1, amount |-> amount, tokenType |-> tokenType]
<1>1. /\ queueNumber' = n
      /\ pendingDeposits' = Merklize(Append(pendingDeposits, Leaf(d)), Halvings(n))
      /\ accepted' = Append(accepted, d) /\ processed' = processed
      /\ currentRoot' = currentRoot /\ Len(accepted) < MaxDeposits
  BY DEF Deposit
<1>2. n = queueNumber + 1 /\ queueNumber = Len(LeavesOf(pendingDeposits)) /\ queueNumber \in Nat
  BY CounterDoesNotWrap DEF CounterInv, QueueCountsPending
<1>3. d \in Entry /\ accepted \in Seq(Entry)
  BY RollupAssumption DEF CounterInv, QueueInv, Entry
<1> HIDE DEF n, d
<1>4. IsLeaf(Leaf(d))
  BY <1>3, LeafIsPerfect
<1>5. IsCounter(pendingDeposits')
  <2> DEFINE leaf == Leaf(d)
  <2>1. pendingDeposits \in Seq(Node) /\ IsCounter(pendingDeposits) /\ IsLeaf(leaf)
    BY <1>4 DEF CounterInv, QueueInv
  <2> HIDE DEF leaf
  <2>2. IsCounter(Merklize(Append(pendingDeposits, leaf),
                           Halvings(Len(LeavesOf(pendingDeposits)) + 1)))
    BY <2>1, DepositIncrements
  <2> QED BY <1>1, <1>2, <2>2 DEF leaf
<1>6. Len(accepted') = Len(accepted) + 1 /\ Len(accepted) \in Nat
  BY <1>1, <1>3, AppendProperties
<1>7. /\ Len(accepted) = Len(LeavesOf(processed)) + Len(LeavesOf(pendingDeposits))
      /\ Len(LeavesOf(processed)) \in Nat /\ Len(LeavesOf(pendingDeposits)) \in Nat
  BY LeavesAdd DEF CounterInv, QueueInv, DepositsInOrder
<1>8. /\ Len(accepted') = Len(LeavesOf(processed')) + Len(LeavesOf(pendingDeposits'))
      /\ Len(LeavesOf(pendingDeposits')) \in Nat
  BY LeavesAdd DEF QueueInv, DepositsInOrder
<1>9. QueueCountsPending'
  BY <1>1, <1>2, <1>6, <1>7, <1>8 DEF QueueCountsPending
<1>10. Len(accepted') <= MaxDeposits
  BY <1>1, <1>6, RollupAssumption
<1> QED BY <1>1, <1>5, <1>9, <1>10

\* The first subtree is removed from the queue and its deposits from the counter, and it
\* is inserted at its own height.
LEMMA ProcessKeepsCounter ==
  ASSUME CounterInv, CounterFits, NEW pos, pendingDeposits # <<>>,
         Head(pendingDeposits).height = depositSubtreeHeight,
         ProcessDeposits(depositSubtreeHeight, pos)
  PROVE  /\ IsCounter(pendingDeposits') /\ QueueCountsPending' /\ SlotsFit'
         /\ accepted' = accepted
<1> DEFINE nodes == pendingDeposits
           hd == Head(nodes)
           tl == Tail(nodes)
           one == <<hd>>
           p == PowerOfTwo(hd.height)
           slot == [height |-> hd.height, pos |-> pos, node |-> hd]
<1>1. /\ pendingDeposits' = tl /\ queueNumber' = (queueNumber - p) % Word
      /\ currentRoot' = [currentRoot EXCEPT !.slots = Append(@, slot)]
      /\ accepted' = accepted
  BY DEF ProcessDeposits, Dequeued, Inserted
<1>2. nodes \in Seq(Node) /\ IsCounter(nodes) /\ queueNumber = Len(LeavesOf(nodes))
  BY DEF CounterInv, QueueInv, QueueCountsPending
<1>3. /\ hd \in Node /\ tl \in Seq(Node) /\ Len(tl) = Len(nodes) - 1
      /\ \A i \in 1..Len(tl) : tl[i] = nodes[i + 1]
      /\ hd = nodes[1] /\ Len(nodes) \in Nat /\ Len(nodes) >= 1 /\ nodes = one \o tl
  <2>1. /\ hd \in Node /\ tl \in Seq(Node) /\ Len(tl) = Len(nodes) - 1
        /\ \A i \in 1..Len(tl) : tl[i] = nodes[i + 1]
    BY <1>2, HeadTailProperties
  <2>2. hd = nodes[1] /\ Len(nodes) \in Nat /\ Len(nodes) >= 1 /\ nodes = one \o tl
    BY <1>2
  <2> QED BY <2>1, <2>2
<1> HIDE DEF nodes, hd, tl, one, slot
<1>4. IsCounter(tl)
  <2>1. \A i \in 1..Len(tl) : i + 1 \in 1..Len(nodes) /\ tl[i] = nodes[i + 1]
    BY <1>3
  <2>2. AllPerfect(tl)
    BY <1>2, <2>1 DEF IsCounter, AllPerfect
  <2>3. ASSUME NEW i \in 1..Len(tl), NEW j \in 1..Len(tl), i < j
        PROVE  tl[i].height > tl[j].height
    <3>1. i + 1 < j + 1
      BY <1>3, <2>3
    <3> QED BY <1>2, <2>1, <3>1 DEF IsCounter, Falling
  <2> QED BY <2>2, <2>3 DEF IsCounter, Falling
<1>5. Len(hd.leaves) = p /\ p \in Nat
  <2>1. Perfect(hd)
    BY <1>2, <1>3 DEF IsCounter, AllPerfect
  <2>2. hd.height \in Nat
    BY <1>3 DEF Node
  <2> QED BY <2>1, <2>2, PowersDouble DEF Perfect
<1> HIDE DEF p
<1>6. Len(LeavesOf(nodes)) = p + Len(LeavesOf(tl)) /\ Len(LeavesOf(tl)) \in Nat
  <2>1. one \in Seq(Node) /\ LeavesOf(one) = hd.leaves
    BY <1>3, LeavesOfOne DEF one
  <2>2. LeavesOf(one \o tl) = LeavesOf(one) \o LeavesOf(tl)
    BY <1>3, <2>1, LeavesOfConcat
  <2>3. /\ Len(LeavesOf(one) \o LeavesOf(tl)) = Len(LeavesOf(one)) + Len(LeavesOf(tl))
        /\ Len(LeavesOf(tl)) \in Nat
    BY <1>3, <2>1, LeavesAdd
  <2> QED BY <1>3, <1>5, <2>1, <2>2, <2>3
<1>7. queueNumber' = Len(LeavesOf(tl))
  <2>1. queueNumber \in Nat /\ queueNumber + 1 < Word /\ Word \in Nat
    BY CounterDoesNotWrap
  <2>2. queueNumber - p = Len(LeavesOf(tl)) /\ queueNumber - p \in 0..(Word - 1)
    BY <1>2, <1>5, <1>6, <2>1
  <2>3. (queueNumber - p) % Word = queueNumber - p
    BY <2>1, <2>2
  <2> QED BY <1>1, <2>2, <2>3
<1>8. QueueCountsPending'
  BY <1>1, <1>7 DEF QueueCountsPending
<1>9. SlotsFit'
  <2> DEFINE slots == currentRoot.slots
  <2>1. currentRoot = [slots |-> slots, batches |-> updateNumber]
    BY DEF CounterInv, LosslessInv, RootInv, RootOf
  <2>2. PICK n \in Nat : IsSequence(slots, n)
    BY DEF CounterInv, LosslessInv, RootInv
  <2>3. slot.height = slot.node.height
    BY DEF slot
  <2>4. \A i \in 1..n : slots[i].height = slots[i].node.height
    BY <2>2 DEF CounterInv, SlotsFit, IsSequence
  <2> HIDE DEF slots
  <2>5. currentRoot'.slots = Append(slots, slot)
    BY <1>1, <2>1
  <2>6. Append(slots, slot) = [i \in 1..(n + 1) |-> IF i = n + 1 THEN slot ELSE slots[i]]
    BY <2>2, AppendInStep
  <2>7. ASSUME NEW i \in 1..(n + 1)
        PROVE  Append(slots, slot)[i].height = Append(slots, slot)[i].node.height
    <3>1. Append(slots, slot)[i] = IF i = n + 1 THEN slot ELSE slots[i]
      BY <2>6
    <3>2. CASE i = n + 1
      BY <2>3, <3>1, <3>2
    <3>3. CASE i # n + 1
      <4>1. i \in 1..n
        BY <3>3
      <4> QED BY <2>4, <3>1, <3>3, <4>1
    <3> QED BY <3>2, <3>3
  <2>8. DOMAIN Append(slots, slot) = 1..(n + 1)
    BY <2>6
  <2> QED BY <2>5, <2>7, <2>8 DEF SlotsFit
<1> QED BY <1>1, <1>4, <1>8, <1>9

\* As long as the coordinator is disciplined.
DisciplinedInv ==
    /\ LosslessInv /\ QueueInv /\ disciplined \in BOOLEAN
    /\ disciplined => CounterInv

\* Discipline lost is not regained.
LEMMA DisciplineEnds ==
  ASSUME disciplined \in BOOLEAN, [Next]_vars
  PROVE  disciplined' \in BOOLEAN /\ (disciplined' => disciplined)
<1>1. ASSUME NEW k, NEW pos, ProcessDeposits(k, pos)
      PROVE  disciplined' \in BOOLEAN /\ (disciplined' => disciplined)
  BY <1>1 DEF ProcessDeposits
<1>2. ASSUME UNCHANGED disciplined
      PROVE  disciplined' \in BOOLEAN /\ (disciplined' => disciplined)
  BY <1>2
<1> QED BY <1>1, <1>2 DEF Next, Others, Deposit, PrepareUpdate, UpdateState, Withdraw,
                          RegisterToken, ApproveToken, vars

LEMMA NextCounter ==
  ASSUME CounterInv, CounterFits, [Next]_vars, disciplined' PROVE CounterInv'
<1>1. LosslessInv' /\ QueueInv'
  BY NextLossless, NextQueue DEF CounterInv
<1>2. ASSUME UNCHANGED <<depositVars, accepted>>, currentRoot'.slots = currentRoot.slots
      PROVE  CounterInv'
  BY <1>1, <1>2 DEF CounterInv, QueueCountsPending, SlotsFit, depositVars
<1>3. ASSUME NEW user \in Users, NEW t \in TokenTypes, NEW amount \in Amounts,
             NEW value \in Amounts, Deposit(user, t, amount, value)
      PROVE  CounterInv'
  BY <1>1, <1>3, DepositKeepsCounter DEF CounterInv, SlotsFit
<1>4. ASSUME NEW k, NEW pos, ProcessDeposits(k, pos)
      PROVE  CounterInv'
  <2>1. k = depositSubtreeHeight /\ Head(pendingDeposits).height = depositSubtreeHeight
    BY <1>4 DEF ProcessDeposits, AsStored
  <2>2. pendingDeposits # <<>> /\ ProcessDeposits(depositSubtreeHeight, pos)
    BY <1>4, <2>1 DEF ProcessDeposits
  <2> QED BY <1>1, <2>1, <2>2, ProcessKeepsCounter DEF CounterInv
<1>5. ASSUME NEW r, PrepareUpdate(r) PROVE CounterInv'
  BY <1>2, <1>5 DEF PrepareUpdate
<1>6. ASSUME NEW proof \in prepared, UpdateState(proof) PROVE CounterInv'
  <2>1. currentRoot = proof.old /\ currentRoot' = proof.new /\ UNCHANGED <<depositVars, accepted>>
    BY <1>6 DEF UpdateState, MatchesRoot
  <2>2. currentRoot' = RootOf(currentRoot.slots, currentRoot.batches + 1)
    BY <2>1 DEF CounterInv, LosslessInv, PreparedInv
  <2> QED BY <1>2, <2>1, <2>2 DEF RootOf
<1>7. ASSUME NEW tx, Withdraw(tx) PROVE CounterInv'
  BY <1>2, <1>7 DEF Withdraw
<1>8. ASSUME NEW token, RegisterToken(token) \/ ApproveToken(token) PROVE CounterInv'
  BY <1>2, <1>8 DEF RegisterToken, ApproveToken
<1>9. CASE UNCHANGED vars
  BY <1>2, <1>9 DEF vars
<1> QED BY <1>3, <1>4, <1>5, <1>6, <1>7, <1>8, <1>9 DEF Next, Others

LEMMA CounterIsInvariant == ASSUME CounterFits PROVE Spec => []DisciplinedInv
<1>1. Init => DisciplinedInv
  <2> SUFFICES ASSUME Init PROVE DisciplinedInv
    OBVIOUS
  <2>1. disciplined = TRUE
    BY DEF Init
  <2> QED BY <2>1, InitLossless, InitQueue, InitCounter DEF DisciplinedInv
<1>2. DisciplinedInv /\ [Next]_vars => DisciplinedInv'
  <2> SUFFICES ASSUME DisciplinedInv, [Next]_vars PROVE DisciplinedInv'
    OBVIOUS
  <2>1. LosslessInv' /\ QueueInv'
    BY NextLossless, NextQueue DEF DisciplinedInv
  <2>2. disciplined' \in BOOLEAN /\ (disciplined' => disciplined)
    BY DisciplineEnds DEF DisciplinedInv
  <2>3. disciplined' => CounterInv'
    BY <2>2, NextCounter DEF DisciplinedInv
  <2> QED BY <2>1, <2>2, <2>3 DEF DisciplinedInv
<1> QED BY <1>1, <1>2, PTL DEF Spec

\* The counter and the queue describe the same perfect subtrees, and each of them enters the
\* balance tree at its own height, if the coordinator waits for the stored height and the
\* counter does not wrap around: for any number of deposits, in any order with processing.
THEOREM SubtreesAlwaysFit == ASSUME CounterFits PROVE Spec => []SubtreesFit
<1>1. DisciplinedInv => SubtreesFit
  <2> SUFFICES ASSUME disciplined, CounterInv PROVE SubtreesFit
    BY DEF DisciplinedInv, SubtreesFit
  <2>1. pendingDeposits \in Seq(Node) /\ IsCounter(pendingDeposits)
    BY DEF CounterInv, QueueInv
  <2>2. ASSUME NEW i \in DOMAIN pendingDeposits
        PROVE  /\ Len(pendingDeposits[i].leaves) = PowerOfTwo(pendingDeposits[i].height)
               /\ i > 1 => pendingDeposits[i].height < pendingDeposits[i - 1].height
    <3>1. i \in 1..Len(pendingDeposits) /\ pendingDeposits[i] \in Node
      BY <2>1
    <3>2. Len(pendingDeposits[i].leaves) = PowerOfTwo(pendingDeposits[i].height)
      BY <2>1, <3>1 DEF IsCounter, AllPerfect, Perfect
    <3>3. ASSUME i > 1 PROVE pendingDeposits[i].height < pendingDeposits[i - 1].height
      <4>1. i - 1 \in 1..Len(pendingDeposits) /\ i - 1 < i
        BY <3>1, <3>3
      <4>2. pendingDeposits[i - 1] \in Node
        BY <2>1, <4>1
      <4>3. pendingDeposits[i - 1].height > pendingDeposits[i].height
        BY <2>1, <3>1, <4>1 DEF IsCounter, Falling
      <4> QED BY <3>1, <4>2, <4>3 DEF Node
    <3> QED BY <3>2, <3>3
  <2> QED BY <2>2 DEF CounterInv, SubtreesFit, SlotsFit
<1> QED BY <1>1, CounterIsInvariant, PTL

\* Under the same conditions users can always deposit.
THEOREM DepositsAreNeverBlocked ==
  ASSUME CounterFits PROVE Spec => []DepositNeverBlocked
<1>1. DisciplinedInv => DepositNeverBlocked
  BY CounterNeverBlocks DEF DisciplinedInv, DepositNeverBlocked
<1> QED BY <1>1, CounterIsInvariant, PTL
=============================================================================
