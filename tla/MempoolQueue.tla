---------------------------- MODULE MempoolQueue ----------------------------
(***************************************************************************)
(* The transaction queue of the zkSync mempool                             *)
(* (assignment-4/2.1/mempool/src/mempool_transactions_queue.rs).  For every*)
(* block the mempool fills a fresh queue from what it stores and selects   *)
(* priority operations first, then signed transactions, until the block's  *)
(* chunks are used up; what is left in the queue is thrown away with it.   *)
(*                                                                         *)
(* The two loops are modelled one iteration per step.  The mempool that    *)
(* owns the queue, and the state keeper that executes blocks, are external.*)
(***************************************************************************)
EXTENDS Integers, FiniteSets, SequencesExt

CONSTANTS
    OpChunks,          \* <<chunks of priority operation 1, of 2, ...>>
    L2Txs,             \* [hash, txs, chunks]: txs a sequence of [from, nonce, validFrom],
                       \* of length 1 for a transaction, longer for a batch
    BlockChunks,       \* the chunks of a block
    MaxTime,           \* bound on the clock
    MaxFailures        \* bound on the failures of required_chunks

\* Chunks, nonces and times are unsigned; a transaction has its hash to itself.
ASSUME QueueAssumption ==
    /\ OpChunks \in Seq(Nat) /\ BlockChunks \in Nat
    /\ IsFiniteSet(L2Txs)
    /\ \A tx \in L2Txs :
          /\ tx.hash \in Nat /\ tx.chunks \in Nat
          /\ tx.txs \in Seq(Range(tx.txs)) \ {<<>>}
          /\ \A i \in DOMAIN tx.txs : tx.txs[i].nonce \in Nat /\ tx.txs[i].validFrom \in Nat
    /\ \A s, t \in L2Txs : s.hash = t.hash => s = t

\* What prepare_new_ready_l2_transactions sorts by: of a batch the fee transaction, the
\* last one, stands for all.
Nonce(tx) == Last(tx.txs).nonce

SameAccount(s, t) ==
    {p \in (DOMAIN s.txs) \X (DOMAIN t.txs) : s.txs[p[1]].from = t.txs[p[2]].from}
Precedes(s, t) ==
    Nonce(s) < Nonce(t) /\ \A p \in SameAccount(s, t) : s.txs[p[1]].nonce < t.txs[p[2]].nonce

\* What accounts sign can be executed in some order: in a batch, and between transactions
\* that have an account in common, its nonces grow.  A batch may be of several accounts,
\* but then the nonce of its last part has to compare as theirs do: of batches whose fee
\* transaction misleads the sort, nothing is claimed.
ASSUME NonceAssumption ==
    /\ \A tx \in L2Txs : \A i, j \in DOMAIN tx.txs :
          i < j /\ tx.txs[i].from = tx.txs[j].from => tx.txs[i].nonce < tx.txs[j].nonce
    /\ \A s, t \in L2Txs :
          s # t /\ SameAccount(s, t) # {} => Precedes(s, t) \/ Precedes(t, s)

VARIABLES
    l1_transactions, pending_l2_transactions, ready_l2_transactions,
    pc,                \* where select_transactions is: idle, l1, prepare, l2, done
                       \* or panicked
    chunksLeft, priorityOps, txsForCommit,     \* its local variables
    now,
    known,             \* how many priority operations the node has seen on L1
    l2Pool,            \* the signed transactions the mempool stores
    blocks,            \* history: the blocks executed
    failures,          \* how often required_chunks has failed
    intact             \* whether the mempool has stored every operation it was given

queueVars == <<l1_transactions, pending_l2_transactions, ready_l2_transactions>>
callVars  == <<pc, chunksLeft, priorityOps, txsForCommit>>
faultVars == <<failures, intact>>
envVars   == <<now, known, l2Pool, blocks, faultVars>>
mempoolVars == <<queueVars, callVars, envVars>>

\* Priority operations are executed in the order of their serial ids.
executedOps == FlattenSeq([i \in DOMAIN blocks |-> blocks[i].ops])
executedTxs == FlattenSeq([i \in DOMAIN blocks |-> blocks[i].txs])
unprocessed == Len(executedOps) + 1

QueueInit ==
    /\ l1_transactions = <<>> /\ pending_l2_transactions = {}
    /\ ready_l2_transactions = <<>>
    /\ pc = "idle" /\ chunksLeft = 0 /\ priorityOps = <<>> /\ txsForCommit = <<>>
    /\ now = 0 /\ known = 0 /\ l2Pool = {} /\ blocks = <<>>
    /\ failures = 0 /\ intact = TRUE

-----------------------------------------------------------------------------
(* The rest of the node. *)

Tick ==
    /\ now < MaxTime                                                   \* bound
    /\ now' = now + 1
    /\ UNCHANGED <<queueVars, callVars, known, l2Pool, blocks, faultVars>>

PriorityOpArrives ==
    /\ known < Len(OpChunks)
    /\ known' = known + 1
    /\ UNCHANGED <<queueVars, callVars, now, l2Pool, blocks, faultVars>>

TxArrives(tx) ==
    /\ tx \notin l2Pool /\ ~ Contains(executedTxs, tx)
    /\ l2Pool' = l2Pool \cup {tx}
    /\ UNCHANGED <<queueVars, callVars, now, known, blocks, faultVars>>

-----------------------------------------------------------------------------
ValidFromFirst(tx) == Head(tx.txs).validFrom
ValidFrom(tx) == Max({tx.txs[i].validFrom : i \in DOMAIN tx.txs})

\* new: every transaction is pending until the timestamp of the block is known.
New(ops) ==
    /\ pc = "idle"
    /\ l1_transactions' = ops
    /\ pending_l2_transactions' = l2Pool
    /\ ready_l2_transactions' = <<>>
    /\ pc' = "l1"
    /\ chunksLeft' = BlockChunks /\ priorityOps' = <<>> /\ txsForCommit' = <<>>
    /\ UNCHANGED <<now, known, l2Pool, blocks, failures>>

\* One iteration of the loop in select_l1_transactions.
current_l1_tx == unprocessed + Len(priorityOps)

Selecting1 ==
    /\ pc = "l1"
    /\ l1_transactions # <<>>
    /\ l1_transactions' = Tail(l1_transactions)
    /\ UNCHANGED <<pending_l2_transactions, ready_l2_transactions, txsForCommit, envVars>>

NeverProcessed(op) == FALSE
AlreadyProcessed(op) == op < current_l1_tx

InAnyOrder(op) == TRUE
IsNext(op) == op = current_l1_tx

Fits(chunks) == chunks <= chunksLeft

SkipOp ==
    /\ Selecting1
    /\ AlreadyProcessed(Head(l1_transactions))
    /\ UNCHANGED callVars

WrongOrder ==
    /\ Selecting1
    /\ LET op == Head(l1_transactions) IN ~ AlreadyProcessed(op) /\ ~ IsNext(op)
    /\ pc' = "panicked"
    /\ UNCHANGED <<chunksLeft, priorityOps>>

TakeOp ==
    /\ Selecting1
    /\ LET op == Head(l1_transactions)
       IN  /\ IsNext(op) /\ ~ AlreadyProcessed(op)
           /\ Fits(OpChunks[op])
           /\ priorityOps' = Append(priorityOps, op)
           /\ chunksLeft' = chunksLeft - OpChunks[op]
    /\ UNCHANGED pc

\* The operation that does not fit is dropped with the queue.
LastOp ==
    /\ Selecting1
    /\ LET op == Head(l1_transactions)
       IN  IsNext(op) /\ ~ AlreadyProcessed(op) /\ ~ Fits(OpChunks[op])
    /\ pc' = "prepare"
    /\ UNCHANGED <<chunksLeft, priorityOps>>

NoMoreOps ==
    /\ pc = "l1" /\ l1_transactions = <<>>
    /\ pc' = "prepare"
    /\ UNCHANGED <<queueVars, chunksLeft, priorityOps, txsForCommit, envVars>>

-----------------------------------------------------------------------------
\* The heap yields the earliest transaction first, of equals the one of the greatest
\* hash; the stable sort by nonce keeps that order among equal nonces.
HeapOrder(s, t) ==
    \/ ValidFrom(s) < ValidFrom(t)
    \/ ValidFrom(s) = ValidFrom(t) /\ s.hash > t.hash

ByHeapOrder(txs) == CHOOSE seq \in SetToSeqs(txs) : IsSorted(seq, HeapOrder)

NonceFirst(s, t) ==
    \/ Nonce(s) < Nonce(t)
    \/ Nonce(s) = Nonce(t) /\ HeapOrder(s, t)

ByNonce(txs) == CHOOSE seq \in SetToSeqs(txs) : IsSorted(seq, NonceFirst)

ReadyEarly(timestamp) == {tx \in pending_l2_transactions : ValidFrom(tx) < timestamp}
Ready(timestamp) == {tx \in pending_l2_transactions : ValidFrom(tx) <= timestamp}

\* prepare_new_ready_l2_transactions, at the block's timestamp.
PrepareNewReady ==
    /\ pc = "prepare"
    /\ pending_l2_transactions' = pending_l2_transactions \ Ready(now)
    /\ ready_l2_transactions' = ready_l2_transactions \o ByNonce(Ready(now))
    /\ pc' = "l2"
    /\ UNCHANGED <<l1_transactions, chunksLeft, priorityOps, txsForCommit, envVars>>

\* One iteration of the loop in select_l2_transactions.
Selecting2 ==
    /\ pc = "l2"
    /\ ready_l2_transactions # <<>>
    /\ ready_l2_transactions' = Tail(ready_l2_transactions)
    /\ UNCHANGED <<l1_transactions, pending_l2_transactions, priorityOps,
                   now, known, l2Pool, blocks, intact>>

TakeTx ==
    /\ Selecting2
    /\ LET tx == Head(ready_l2_transactions)
       IN  /\ Fits(tx.chunks)
           /\ txsForCommit' = Append(txsForCommit, tx)
           /\ chunksLeft' = chunksLeft - tx.chunks
    /\ UNCHANGED <<pc, failures>>

LastTx ==
    /\ Selecting2
    /\ ~ Fits(Head(ready_l2_transactions).chunks)
    /\ pc' = "done"
    /\ UNCHANGED <<chunksLeft, txsForCommit, failures>>

NoMoreTxs ==
    /\ pc = "l2" /\ ready_l2_transactions = <<>>
    /\ pc' = "done"
    /\ UNCHANGED <<queueVars, chunksLeft, priorityOps, txsForCommit, envVars>>

\* required_chunks fails: the error is returned and everything selected forgotten.
RequiredChunksFails ==
    /\ failures < MaxFailures                                          \* bound
    /\ Selecting2
    /\ failures' = failures + 1
    /\ pc' = "idle"
    /\ UNCHANGED <<chunksLeft, txsForCommit>>

-----------------------------------------------------------------------------
\* The state keeper executes the block and the mempool removes its transactions.
Execute ==
    /\ pc = "done"
    /\ pc' = "idle"
    /\ blocks' = IF priorityOps \o txsForCommit = <<>> THEN blocks
                 ELSE Append(blocks, [ops |-> priorityOps, txs |-> txsForCommit])
    /\ l2Pool' = l2Pool \ Range(txsForCommit)
    /\ UNCHANGED <<queueVars, chunksLeft, priorityOps, txsForCommit, now, known, faultVars>>

Select ==
    \/ SkipOp \/ WrongOrder \/ TakeOp \/ LastOp \/ NoMoreOps
    \/ PrepareNewReady
    \/ TakeTx \/ LastTx \/ NoMoreTxs

\* The mempool queues the operations it has stored in order, and some that were
\* processed in the meantime may be among them.
Propose ==
    /\ \E first \in 1..unprocessed : New([i \in 1..(known - first + 1) |-> first + i - 1])
    /\ UNCHANGED intact

\* Once, it has lost operations or their order.
ProposeAny ==
    /\ intact /\ intact' = FALSE
    /\ \E ops \in SUBSET (1..known) : \E queue \in SetToSeqs(ops) : New(queue)

QueueNext ==
    \/ Tick \/ PriorityOpArrives \/ \E tx \in L2Txs : TxArrives(tx)
    \/ Propose \/ ProposeAny \/ Select \/ RequiredChunksFails \/ Execute

\* Time passes, the node keeps proposing blocks, and the loops run on.
QueueSpec ==
    /\ QueueInit /\ [][QueueNext]_mempoolVars
    /\ WF_mempoolVars(Tick) /\ WF_mempoolVars(Propose) /\ WF_mempoolVars(Select) /\ WF_mempoolVars(Execute)
=============================================================================
