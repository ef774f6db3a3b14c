----------------------------- MODULE NearBlocks -----------------------------
(***************************************************************************)
(* Light client blocks and block-producer epochs, the data NearBridge.sol  *)
(* works on.                                                               *)
(*                                                                         *)
(* A block is a record                                                     *)
(*   height, timestamp     inner_lite.height, inner_lite.timestamp (ns)    *)
(*   epochId, nextEpochId  inner_lite.epoch_id, inner_lite.next_epoch_id   *)
(*   approvals             approvals_after_next: a sequence; element i is  *)
(*                         NoSignature (not some), or the key whose owner  *)
(*                         signed this block's (next_hash, height + 2)     *)
(*   nextBps               next_bps: NoBPs, or a sequence of producers     *)
(*   bpsHashMatches        next_bps.hash = inner_lite.next_bp_hash         *)
(* and stands for its hash and merkle root, which identify it.  A producer *)
(* is a record [key, stake].  A signature nobody's key made (garbage bytes)*)
(* is a "key" no producer has.  Indices start at 1 here, at 0 in the code. *)
(***************************************************************************)
EXTENDS Integers, Sequences, FiniteSetsExt

CONSTANTS NoSignature,   \* an absent approval
          NoBPs          \* an absent producer list

\* The approvals the light client counts: those of the epoch's producers, any
\* extra ones at the end of the list are ignored.
Approved(block, bps) ==
    {i \in 1..Len(bps) : block.approvals[i] # NoSignature}

StakeOf(bps, S) == SumFunctionOnSet([i \in DOMAIN bps |-> bps[i].stake], S)

StakeThreshold(bps) == (StakeOf(bps, 1..Len(bps)) * 2) \div 3

\* Enough approvals, present or not genuine: what the chain checks at once.
EnoughApprovals(block, bps) ==
    /\ Len(block.approvals) >= Len(bps)
    /\ StakeOf(bps, Approved(block, bps)) > StakeThreshold(bps)

\* Signature i of the block was made by producer i: what only a challenge checks.
GoodSignature(block, bps, i) == block.approvals[i] = bps[i].key

\* The requirements on next_bps of a block that opens the next epoch.
DeclaresNextBps(block) == block.nextBps # NoBPs /\ block.bpsHashMatches
=============================================================================
