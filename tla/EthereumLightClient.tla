------------------------ MODULE EthereumLightClient ------------------------
(***************************************************************************)
(* The light client of Ethereum that runs on Harmony                       *)
(* (assignment-6/EthereumLightClient.sol): a tree of relayed headers, kept *)
(* by hash and by height.                                                  *)
(*                                                                         *)
(* A header is its hash: Headers is what Ethereum has mined, forks         *)
(* included, and everything in it has a valid proof of work; nothing else  *)
(* has.  The contract has no function that pauses it, so whenNotPaused     *)
(* always holds; verifiedBlocks, finalizedBlocks, longestBranchHead and    *)
(* finalityConfirms are written by initialize only and never read.         *)
(***************************************************************************)
EXTENDS Integers, Sequences

CONSTANTS
    Headers,           \* [hash, parentHash, number, difficulty, time, receipts]
    FirstHeader        \* the one initialize is called with

ASSUME HeaderAssumption ==
    /\ FirstHeader \in Headers
    /\ \A h \in Headers : h.number \in Nat /\ h.difficulty \in Nat /\ h.time \in Nat
    /\ \A g, h \in Headers : g.hash = h.hash => g = h

VARIABLES
    blocks,            \* blocks, by hash; its domain is blockExisting
    blocksByHeight,    \* number -> hashes, in the order they were relayed
    blockHeightMax

vars == <<blocks, blocksByHeight, blockHeightMax>>

Heights == {h.number : h \in Headers}

\* initialize, which calls _setFirstBlock.
Init ==
    /\ blocks = [hash \in {FirstHeader.hash} |-> FirstHeader]
    /\ blocksByHeight = [n \in Heights |-> IF n = FirstHeader.number
                                           THEN <<FirstHeader.hash>> ELSE <<>>]
    /\ blockHeightMax = FirstHeader.number

CheckDiffValidity(diff, parentDiff) == diff >= parentDiff - (parentDiff \div 10000) * 99

FirstAtHeight(header) == blocksByHeight[header.number] = <<>>
NotRelayed(header) == header.hash \notin DOMAIN blocks

Follows(header, parent) == header.number = parent.number + 1

NewestHeight(n) == n
NewHeightMax(n) == IF n > blockHeightMax THEN n ELSE blockHeightMax

AddBlockHeader(header) ==
    /\ NotRelayed(header)
    /\ header.parentHash \in DOMAIN blocks
    /\ LET parent == blocks[header.parentHash]
       IN  /\ Follows(header, parent)
           /\ header.time > parent.time
           /\ CheckDiffValidity(header.difficulty, parent.difficulty)
    /\ blocks' = [hash \in DOMAIN blocks \cup {header.hash} |->
                     IF hash = header.hash THEN header ELSE blocks[hash]]
    /\ blocksByHeight' = [blocksByHeight EXCEPT ![header.number] = Append(@, header.hash)]
    /\ blockHeightMax' = NewHeightMax(header.number)

VerifyReceiptsHash(blockHash, receiptsHash) == blocks[blockHash].receipts = receiptsHash

Next == \E header \in Headers : AddBlockHeader(header)

Spec == Init /\ [][Next]_vars

\* Relayers keep submitting every header.
FairSpec == Spec /\ \A header \in Headers : WF_vars(AddBlockHeader(header))
=============================================================================
