---------------------------- MODULE RollupNCProps ----------------------------
(***************************************************************************)
(* What must hold of the rollup contract's deposit queue and balance root. *)
(***************************************************************************)
EXTENDS RollupNC

LeavesOf(nodes) == FlattenSeq([i \in DOMAIN nodes |-> nodes[i].leaves])

\* No deposit is lost, doubled or overtaken: the deposits under the processed nodes,
\* then those under the pending ones, are all accepted deposits in their order, however
\* deposit's merging and processDeposits' removals (and its counter) interleave.
DepositsInOrder == LeavesOf(processed) \o LeavesOf(pendingDeposits) = accepted

\* No update is lost: the balance root contains every processed subtree and every
\* batch, although the coordinator computes its proofs before they are mined.
NothingLostFromRoot ==
    /\ [i \in DOMAIN currentRoot.slots |-> currentRoot.slots[i].node] = processed
    /\ currentRoot.batches = updateNumber

-----------------------------------------------------------------------------
(* With a disciplined coordinator. *)

\* Users can always deposit: the merging loop finds the nodes its counter promises.
DepositNeverBlocked == disciplined => QueueAllows((queueNumber + 1) % Word)

\* The counter and the queue describe the same subtrees: queueNumber counts the deposits
\* that wait, although processDeposits subtracts a power of two it never compared with
\* what it removed; the pending subtrees are perfect and of decreasing heights, like the
\* binary digits of that number; and each was inserted into the balance tree at its own
\* height, so that leaves end up at depth BAL_DEPTH.
QueueCountsPending == queueNumber = Len(LeavesOf(pendingDeposits))

SubtreesFit ==
    disciplined =>
       /\ QueueCountsPending
       /\ \A i \in DOMAIN pendingDeposits :
             /\ Len(pendingDeposits[i].leaves) = PowerOfTwo(pendingDeposits[i].height)
             /\ i > 1 => pendingDeposits[i].height < pendingDeposits[i - 1].height
       /\ \A i \in DOMAIN currentRoot.slots :
             currentRoot.slots[i].height = currentRoot.slots[i].node.height
=============================================================================
