------------------------------ MODULE RollupNC ------------------------------
(***************************************************************************)
(* The rollup contract (assignment-4/3.3/RollupNC.sol): deposits are hashed*)
(* pairwise into perfect subtrees as they arrive, the coordinator inserts  *)
(* the first pending subtree into an empty one of the balance tree, and    *)
(* moves the balance root forward by proven batches of transactions.       *)
(*                                                                         *)
(* Hashing is injective here: a node is the sequence of the deposits below *)
(* it with its height, a balance root is what has been inserted where, and *)
(* how many batches were applied since the contract was deployed.          *)
(***************************************************************************)
EXTENDS Powers, SequencesExt

CONSTANTS
    Users, coordinator,      \* the accounts; the coordinator is one of them
    Tokens,                  \* the ERC20 contracts
    Amounts,                 \* the amounts and values of deposits
    Txs,                     \* transactions: [txRoot, tokenType, amount]
    BAL_DEPTH,
    Word,                    \* 2^256, the modulus of unchecked arithmetic
    MaxDeposits,             \* bound on the number of deposits
    MaxPaid,                 \* bound: only the first MaxPaid of them pay something
    MaxUpdates               \* bound on the number of batches

ASSUME RollupAssumption ==
    /\ IsFiniteSet(Tokens) /\ Amounts \subseteq Nat /\ Word \in Nat \ {0}
    /\ MaxDeposits \in Nat
    /\ \A tx \in Txs : tx.tokenType \in Nat /\ tx.amount \in Nat

VARIABLES
    currentRoot, pendingDeposits, queueNumber, depositSubtreeHeight,
    updateNumber,
    updates,                 \* txRoot -> number of the batch, 0 if none
    pendingTokens,           \* TokenRegistry: proposed,
    registeredTokens,        \* and approved: type k + 1 is the k-th one
    funds,                   \* what the contract owns of every token type
    prepared,                \* update proofs the coordinator has computed
    accepted,                \* history: the deposits accepted
    processed,               \* history: nodes inserted by processDeposits
    disciplined              \* history: each of them had the stored height, and was
                             \* given a subtree of it

depositVars == <<pendingDeposits, queueNumber, depositSubtreeHeight>>
updateVars  == <<updateNumber, updates, prepared>>
tokenVars   == <<pendingTokens, registeredTokens>>
vars == <<currentRoot, depositVars, updateVars, tokenVars, funds, accepted, processed, disciplined>>

TokenTypes == 0..(1 + Cardinality(Tokens))
TxRoots    == {t.txRoot : t \in Txs}

Init ==
    /\ currentRoot = [slots |-> <<>>, batches |-> 0]
    /\ pendingDeposits = <<>> /\ queueNumber = 0 /\ depositSubtreeHeight = 0
    /\ updateNumber = 0 /\ updates = [r \in TxRoots |-> 0]
    /\ pendingTokens = {} /\ registeredTokens = <<>>
    /\ funds = [t \in TokenTypes |-> 0]
    /\ prepared = {} /\ accepted = <<>> /\ processed = <<>> /\ disciplined = TRUE

-----------------------------------------------------------------------------
Leaf(d) == [height |-> 0, leaves |-> <<d>>]

HashSwapped(l, r) == [height |-> l.height + 1, leaves |-> r.leaves \o l.leaves]
HashMiMC(l, r) == [height |-> l.height + 1, leaves |-> l.leaves \o r.leaves]

\* How often the loop over tmp halves a number n # 0.
AtMostOneHalving(n) == IF n % 2 = 0 THEN 1 ELSE 0
Halvings(n) ==
    LET halvings[tmp \in 1..n] == IF tmp % 2 = 0 THEN 1 + halvings[tmp \div 2] ELSE 0
    IN  halvings[n]

\* The last j + 1 nodes hashed into one, the last two first.
Merklize(nodes, j) ==
    LET keep == Len(nodes) - j - 1
    IN  Append(SubSeq(nodes, 1, keep),
               FoldRight(HashMiMC, SubSeq(nodes, keep + 1, Len(nodes) - 1), Last(nodes)))

\* The three require branches on the token type, for value of that type received
\* (ETH sent along with a type that is not ETH is not accounted for).
Accepts(user, tokenType, amount, value) ==
    \/ tokenType = 0 /\ user = coordinator /\ amount = 0 /\ value = 0
    \/ tokenType = 1 /\ value > 0 /\ value >= amount
    \/ /\ tokenType > 1 /\ tokenType - 1 \in DOMAIN registeredTokens
       /\ amount > 0 /\ value = amount      \* transferFrom moves exactly amount

\* The loop reverts when it runs out of nodes, and always when the counter has
\* wrapped around to 0.
QueueAllows(n) == n # 0 /\ Halvings(n) <= Len(pendingDeposits)

Deposit(user, tokenType, amount, value) ==
    LET n == (queueNumber + 1) % Word
        d == [id |-> Len(accepted) + 1, amount |-> amount, tokenType |-> tokenType]
    IN  /\ Len(accepted) < MaxDeposits                                 \* bound
        /\ tokenType > 0 => Len(accepted) < MaxPaid                    \* bound
        /\ Accepts(user, tokenType, amount, value)
        /\ QueueAllows(n)
        /\ funds' = [funds EXCEPT ![tokenType] = @ + value]
        /\ queueNumber' = n
        /\ pendingDeposits' = Merklize(Append(pendingDeposits, Leaf(d)), Halvings(n))
        /\ depositSubtreeHeight' = IF Halvings(n) > depositSubtreeHeight
                                   THEN Halvings(n) ELSE depositSubtreeHeight
        /\ accepted' = Append(accepted, d)
        /\ UNCHANGED <<currentRoot, updateVars, tokenVars, processed, disciplined>>

-----------------------------------------------------------------------------
\* The subtree of the given height at the given position is empty in the root: it
\* overlaps none that was inserted.
EmptyAt(root, height, pos) ==
    \A i \in DOMAIN root.slots :
        LET s == root.slots[i]
        IN  \/ (pos + 1) * PowerOfTwo(height) <= s.pos * PowerOfTwo(s.height)
            \/ (s.pos + 1) * PowerOfTwo(s.height) <= pos * PowerOfTwo(height)

Inserted(root, height, pos, node) ==
    [root EXCEPT !.slots = Append(@, [height |-> height, pos |-> pos, node |-> node])]

DequeuedOne == (queueNumber - 1) % Word
Dequeued == (queueNumber - PowerOfTwo(depositSubtreeHeight)) % Word

\* A coordinator that waits until the first pending subtree has the height the
\* contract has stored, and gives it an empty subtree of that height.
AsStored(subtreeDepth) ==
    subtreeDepth = depositSubtreeHeight /\ Head(pendingDeposits).height = depositSubtreeHeight

ProcessDeposits(subtreeDepth, pos) ==
    /\ EmptyAt(currentRoot, subtreeDepth, pos)
    /\ pendingDeposits # <<>>
    /\ currentRoot' = Inserted(currentRoot, subtreeDepth, pos, Head(pendingDeposits))
    /\ processed' = Append(processed, Head(pendingDeposits))
    /\ pendingDeposits' = Tail(pendingDeposits)
    /\ queueNumber' = Dequeued
    /\ disciplined' = (disciplined /\ AsStored(subtreeDepth))
    /\ UNCHANGED <<depositSubtreeHeight, updateVars, tokenVars, funds, accepted>>

-----------------------------------------------------------------------------
\* Off chain: the coordinator proves a batch of transactions over the current root.
PrepareUpdate(r) ==
    /\ Cardinality(prepared) < MaxUpdates                              \* bound
    /\ prepared' = prepared \cup
          {[old |-> currentRoot, txRoot |-> r,
            new |-> [currentRoot EXCEPT !.batches = @ + 1]]}
    /\ UNCHANGED <<currentRoot, depositVars, updateNumber, updates, tokenVars,
                   funds, accepted, processed, disciplined>>

IgnoresRoot(proof) == TRUE
MatchesRoot(proof) == currentRoot = proof.old

UpdateState(proof) ==
    /\ updateNumber < MaxUpdates                                       \* bound
    /\ MatchesRoot(proof)
    /\ currentRoot' = proof.new
    /\ updateNumber' = updateNumber + 1
    /\ updates' = [updates EXCEPT ![proof.txRoot] = updateNumber + 1]
    /\ UNCHANGED <<depositVars, prepared, tokenVars, funds, accepted, processed, disciplined>>

\* The recipient's signature and the inclusion proof of tx are supplied by the caller.
Withdraw(tx) ==
    /\ tx.tokenType > 0
    /\ tx.tokenType = 1 \/ tx.tokenType - 1 \in DOMAIN registeredTokens
    /\ updates[tx.txRoot] > 0
    /\ funds[tx.tokenType] >= tx.amount
    /\ funds' = [funds EXCEPT ![tx.tokenType] = @ - tx.amount]
    /\ UNCHANGED <<currentRoot, depositVars, updateVars, tokenVars, accepted, processed,
                   disciplined>>

RegisterToken(token) ==
    /\ pendingTokens' = pendingTokens \cup {token}
    /\ UNCHANGED <<currentRoot, depositVars, updateVars, registeredTokens, funds,
                   accepted, processed, disciplined>>

ApproveToken(token) ==
    /\ token \in pendingTokens
    /\ Len(registeredTokens) < Cardinality(Tokens)                     \* bound
    /\ registeredTokens' = Append(registeredTokens, token)
    /\ UNCHANGED <<currentRoot, depositVars, updateVars, pendingTokens, funds,
                   accepted, processed, disciplined>>

-----------------------------------------------------------------------------
Others ==
    \/ \E u \in Users, t \in TokenTypes, amount, value \in Amounts :
          Deposit(u, t, amount, value)
    \/ \E r \in TxRoots : PrepareUpdate(r)
    \/ \E proof \in prepared : UpdateState(proof)
    \/ \E tx \in Txs : Withdraw(tx)
    \/ \E token \in Tokens : RegisterToken(token) \/ ApproveToken(token)

Next ==
    \/ Others
    \/ \E k \in 0..BAL_DEPTH : \E pos \in 0..(PowerOfTwo(BAL_DEPTH - k) - 1) :
          ProcessDeposits(k, pos)

Spec == Init /\ [][Next]_vars
=============================================================================
