-------------------------- MODULE MempoolQueueProps --------------------------
(***************************************************************************)
(* What must hold of the blocks the mempool's queue selects.               *)
(***************************************************************************)
EXTENDS MempoolQueue

\* The assertion "Wrong order for priority ops" fails only if the mempool has lost an
\* operation, although the queue may hold operations that were processed while it was
\* filled, and operations are dropped when a block is full.
NeverPanics == pc = "panicked" => ~ intact

\* What that assertion is for: whatever the queue was filled with, the priority
\* operations are executed in the order of their serial ids, none twice, none skipped.
PriorityOrder == \A i \in DOMAIN executedOps : executedOps[i] = i

\* An account's transactions in a block are in the order of their nonces, whatever
\* their valid_from: an account can release a later one earlier.
NonceOrder ==
    LET parts == FlattenSeq([i \in DOMAIN txsForCommit |-> txsForCommit[i].txs])
    IN  \A i, j \in DOMAIN parts :
           i < j /\ parts[i].from = parts[j].from => parts[i].nonce < parts[j].nonce

\* The state keeper can execute what was selected: the chunks of both loops together
\* fit the block, and no transaction comes before it is valid, of a batch no part.
BlocksAreValid ==
    /\ SumFunction([i \in DOMAIN priorityOps |-> OpChunks[priorityOps[i]]])
          + SumFunction([i \in DOMAIN txsForCommit |-> txsForCommit[i].chunks]) <= BlockChunks
    /\ \A i \in DOMAIN txsForCommit : \A j \in DOMAIN txsForCommit[i].txs :
          txsForCommit[i].txs[j].validFrom <= now

\* Nothing starves: what does not fit, or was selected when required_chunks failed, is
\* thrown away with the queue, yet the node catches up with the priority operations it
\* has seen again and again, and executes every transaction, unless the assertion has
\* stopped it.
AllExecuted ==
    \/ <>(pc = "panicked")
    \/ /\ []<>(known < unprocessed)
       /\ \A tx \in L2Txs : tx \in l2Pool ~> Contains(executedTxs, tx)
=============================================================================
