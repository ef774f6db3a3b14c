----------------------------- MODULE NearBridge -----------------------------
(***************************************************************************)
(* The optimistic NEAR light client contract (assignment-6/NearBridge.sol).*)
(*                                                                         *)
(* Relayers who locked a bond submit light client blocks.  The contract    *)
(* counts the approvals of a block but does not check their signatures: for*)
(* lockDuration seconds anybody may point at an invalid signature and have *)
(* the block dropped and the bond slashed.  When the period ends the block *)
(* counts as verified, although the contract only stores it when the next  *)
(* one is submitted.                                                       *)
(*                                                                         *)
(* A transaction that reverts changes nothing, so each external function is*)
(* one action whose guard is the conjunction of its require statements.    *)
(***************************************************************************)
EXTENDS NearBlocks, FiniteSets

CONSTANTS
    Accounts,            \* the addresses that call the contract
    Blocks,              \* the blocks relayers may submit
    InitBlocks,          \* the blocks the admin may initialize the contract with
    ValidatorSets,       \* the producer lists the admin may initialize it with
    Heights,             \* all heights blocks may have
    NoBlock,             \* an entry of blockHashes_ that was never written
    NoEpochId,           \* the epochId of an Epoch slot that was never written
    NoAccount,           \* the zero address
    lockEthAmount, lockDuration, replaceDuration,
    NanosPerSecond,      \* 1000000000 in the code
    MAX_BLOCK_PRODUCERS,
    PauseConfigs,        \* the sets of functions the admin may pause
    InitialEth,          \* bound: ETH every account starts with
    MaxTime              \* bound: the clock stops here

ASSUME AmountAssumption == lockEthAmount \in Nat /\ InitialEth \in Nat

\* The constructor's require, over unsigned integers.
ASSUME DurationAssumption ==
    /\ lockDuration \in Nat /\ replaceDuration \in Nat
    /\ NanosPerSecond \in Nat
    /\ replaceDuration > lockDuration * NanosPerSecond

ASSUME BlockAssumption ==
    /\ Heights \subseteq Nat
    /\ NoBlock \notin Blocks \cup InitBlocks
    /\ \A b \in Blocks \cup InitBlocks :
          /\ b.height \in Heights
          /\ b.timestamp \in Nat

\* Producers come as lists, with stakes (uint128; their sums do not overflow).
ASSUME ProducerAssumption ==
    \A bps \in ValidatorSets \cup ({b.nextBps : b \in Blocks \cup InitBlocks} \ {NoBPs}) :
        /\ Len(bps) \in Nat /\ DOMAIN bps = 1..Len(bps)
        /\ \A i \in DOMAIN bps : bps[i].stake \in Nat

ASSUME AccountAssumption == IsFiniteSet(Accounts) /\ NoAccount \notin Accounts

VARIABLES
    now,                    \* block.timestamp, in seconds
    lastValidAt, curHeight,
    untrusted,              \* the untrusted* fields: the block most recently added
    untrustedNextEpoch,
    untrustedSignatureSet,
    lastSubmitter, initialized,
    epochs, curEpoch,
    blocks_,                \* blockHashes_ and blockMerkleRoots_: height -> block
    balanceOf,
    paused,                 \* the functions AdminControlled has paused
    wallet,                 \* the ETH outside of the contract
    held                    \* the ETH the contract holds

headVars  == <<lastValidAt, curHeight, untrusted, untrustedNextEpoch,
               untrustedSignatureSet, lastSubmitter, epochs, curEpoch, blocks_>>
moneyVars == <<balanceOf, wallet, held>>
vars      == <<now, headVars, moneyVars, initialized, paused>>

-----------------------------------------------------------------------------
Init ==
    /\ now = 1
    /\ lastValidAt = 0 /\ curHeight = 0
    /\ untrusted = NoBlock /\ untrustedNextEpoch = FALSE
    /\ untrustedSignatureSet = {}
    /\ lastSubmitter = NoAccount
    /\ initialized = FALSE
    /\ epochs = [s \in 0..2 |-> [epochId |-> NoEpochId, bps |-> <<>>]]
    /\ curEpoch = 0
    /\ blocks_ = [h \in Heights |-> NoBlock]
    /\ balanceOf = [a \in Accounts \cup {NoAccount} |-> 0]
    /\ paused = {}
    /\ wallet = [a \in Accounts |-> InitialEth]
    /\ held = 0

\* A block was added and may still be challenged.
Unconfirmed == now < lastValidAt

\* A block was added and its challenge period is over.
Confirmable == lastValidAt # 0 /\ now >= lastValidAt

\* The head once a confirmable block is committed, as addLightClientBlock does.
StaleHeadHeight == curHeight
HeadHeight == IF Confirmable THEN untrusted.height ELSE curHeight

HeadEpoch == IF Confirmable /\ untrustedNextEpoch THEN (curEpoch + 1) % 3
                                                  ELSE curEpoch

\* The slots of the epochs after the head's in the ring of three.
RingOfTwo(k) == (HeadEpoch + k) % 2
RingSlot(k) == (HeadEpoch + k) % 3

\* The epoch whose producers signed the block most recently added.
AlwaysCurrentEpoch == epochs[curEpoch]
UntrustedEpoch ==
    epochs[IF untrustedNextEpoch THEN (curEpoch + 1) % 3 ELSE curEpoch]

\* The approvals of producers kept for challenges.
SignatureSetButLast(b, bps) ==
    {i \in 1..(Len(bps) - 1) : b.approvals[i] # NoSignature}
SignatureSet(b, bps) == {i \in 1..Len(bps) : b.approvals[i] # NoSignature}

-----------------------------------------------------------------------------
DepositTwice(a) ==
    /\ wallet[a] >= lockEthAmount
    /\ balanceOf' = [balanceOf EXCEPT ![a] = @ + lockEthAmount]
    /\ wallet' = [wallet EXCEPT ![a] = @ - lockEthAmount]
    /\ held' = held + lockEthAmount
    /\ UNCHANGED <<now, headVars, initialized, paused>>

Deposit(a) ==
    /\ "deposit" \notin paused
    /\ balanceOf[a] = 0
    /\ wallet[a] >= lockEthAmount
    /\ balanceOf' = [balanceOf EXCEPT ![a] = lockEthAmount]
    /\ wallet' = [wallet EXCEPT ![a] = @ - lockEthAmount]
    /\ held' = held + lockEthAmount
    /\ UNCHANGED <<now, headVars, initialized, paused>>

MayWithdrawAnytime(a) == TRUE
MayWithdraw(a) == a # lastSubmitter \/ now >= lastValidAt

Withdraw(a) ==
    /\ "withdraw" \notin paused
    /\ MayWithdraw(a)
    /\ balanceOf[a] # 0
    /\ held >= balanceOf[a]            \* else transfer reverts
    /\ balanceOf' = [balanceOf EXCEPT ![a] = 0]
    /\ wallet' = [wallet EXCEPT ![a] = @ + balanceOf[a]]
    /\ held' = held - balanceOf[a]
    /\ UNCHANGED <<now, headVars, initialized, paused>>

CheckBlockProducerSignatureInHead(i) ==
    GoodSignature(untrusted, UntrustedEpoch.bps, i)

NotSlashed == balanceOf
Slashed == [balanceOf EXCEPT ![lastSubmitter] = @ - lockEthAmount]

\* The result of the final call is ignored: the receiver is paid, or refuses.
Challenge(receiver, i) ==
    /\ "challenge" \notin paused
    /\ Unconfirmed
    /\ i \in untrustedSignatureSet
    /\ ~ CheckBlockProducerSignatureInHead(i)
    /\ balanceOf[lastSubmitter] >= lockEthAmount     \* checked subtraction
    /\ balanceOf' = Slashed
    /\ lastValidAt' = 0
    /\ \/ /\ held >= lockEthAmount \div 2
          /\ held' = held - lockEthAmount \div 2
          /\ wallet' = [wallet EXCEPT ![receiver] = @ + lockEthAmount \div 2]
       \/ UNCHANGED <<held, wallet>>
    /\ UNCHANGED <<now, curHeight, untrusted, untrustedNextEpoch,
                   untrustedSignatureSet, lastSubmitter, epochs, curEpoch,
                   blocks_, initialized, paused>>

-----------------------------------------------------------------------------
SetBlockProducers(ring, slot, epochId, bps) ==
    [ring EXCEPT ![slot] = [epochId |-> epochId, bps |-> bps]]

InitWithValidators(bps) ==
    /\ ~ initialized /\ Len(epochs[0].bps) = 0
    /\ Len(bps) <= MAX_BLOCK_PRODUCERS
    /\ epochs' = SetBlockProducers(epochs, 0, epochs[0].epochId, bps)
    /\ UNCHANGED <<now, lastValidAt, curHeight, untrusted, untrustedNextEpoch,
                   untrustedSignatureSet, lastSubmitter, curEpoch, blocks_,
                   moneyVars, initialized, paused>>

InitWithBlock(b) ==
    /\ ~ initialized /\ Len(epochs[0].bps) # 0
    /\ b.nextBps # NoBPs
    /\ Len(b.nextBps) <= MAX_BLOCK_PRODUCERS
    /\ initialized' = TRUE
    /\ curHeight' = b.height
    /\ blocks_' = [blocks_ EXCEPT ![b.height] = b]
    /\ epochs' = SetBlockProducers([epochs EXCEPT ![0].epochId = b.epochId],
                                   1, b.nextEpochId, b.nextBps)
    /\ UNCHANGED <<now, lastValidAt, untrusted, untrustedNextEpoch,
                   untrustedSignatureSet, lastSubmitter, curEpoch,
                   moneyVars, paused>>

\* A block of the window can only be replaced by a sufficiently newer one.
MayReplaceByNewer(b) == b.timestamp > untrusted.timestamp
MayReplace(b) == b.timestamp >= untrusted.timestamp + replaceDuration

\* The block is of the head's epoch, or of the next one; if the ids coincide the
\* code takes the head's.
FromEpoch(b, fromNextEpoch) ==
    IF fromNextEpoch
    THEN /\ b.epochId # epochs[HeadEpoch].epochId
         /\ b.epochId = epochs[RingSlot(1)].epochId
    ELSE b.epochId = epochs[HeadEpoch].epochId

AddLightClientBlock(a, b) ==
    /\ "addBlock" \notin paused
    /\ initialized
    /\ balanceOf[a] >= lockEthAmount
    /\ now + lockDuration <= MaxTime                        \* bound
    /\ Unconfirmed => MayReplace(b)
    /\ b.height > HeadHeight
    /\ \E fromNextEpoch \in BOOLEAN :
          LET thisEpoch == IF fromNextEpoch THEN RingSlot(1) ELSE HeadEpoch
              bps == epochs[thisEpoch].bps
          IN  /\ FromEpoch(b, fromNextEpoch)
              /\ EnoughApprovals(b, bps)
              /\ untrustedSignatureSet' = SignatureSet(b, bps)
              /\ untrustedNextEpoch' = fromNextEpoch
              /\ IF fromNextEpoch
                 THEN /\ DeclaresNextBps(b)
                      /\ Len(b.nextBps) <= MAX_BLOCK_PRODUCERS
                      /\ epochs' = SetBlockProducers(epochs, RingSlot(2),
                                                     b.nextEpochId, b.nextBps)
                 ELSE UNCHANGED epochs
    /\ curHeight' = HeadHeight
    /\ curEpoch' = HeadEpoch
    /\ blocks_' = IF Confirmable
                  THEN [blocks_ EXCEPT ![untrusted.height] = untrusted]
                  ELSE blocks_
    /\ untrusted' = b
    /\ lastSubmitter' = a
    /\ lastValidAt' = now + lockDuration
    /\ UNCHANGED <<now, moneyVars, initialized, paused>>

-----------------------------------------------------------------------------
\* The rest of the world: blocks are mined, the admin pauses and unpauses.
Tick ==
    /\ now < MaxTime
    /\ now' = now + 1
    /\ UNCHANGED <<headVars, moneyVars, initialized, paused>>

AdminPause ==
    /\ paused' \in PauseConfigs \ {paused}
    /\ UNCHANGED <<now, headVars, moneyVars, initialized>>

Transaction ==
    \/ \E a \in Accounts : Deposit(a) \/ Withdraw(a)
    \/ \E a \in Accounts, i \in 1..MAX_BLOCK_PRODUCERS : Challenge(a, i)
    \/ \E bps \in ValidatorSets : InitWithValidators(bps)
    \/ \E b \in InitBlocks : InitWithBlock(b)
    \/ \E a \in Accounts, b \in Blocks : AddLightClientBlock(a, b)

Next == Transaction \/ AdminPause \/ Tick

Spec == Init /\ [][Next]_vars

-----------------------------------------------------------------------------
(* The contract's views. *)

\* blockHashes and blockMerkleRoots, for a caller that PAUSED_VERIFY lets through.
BlockHashes(h) ==
    IF blocks_[h] = NoBlock /\ Confirmable /\ h = untrusted.height
    THEN untrusted
    ELSE blocks_[h]

StaleBridgeState ==
    [currentHeight |-> curHeight, nextTimestamp |-> 0, nextValidAt |-> 0,
     numBlockProducers |-> 0]
BridgeState ==
    IF Unconfirmed
    THEN [currentHeight |-> curHeight, nextTimestamp |-> untrusted.timestamp,
          nextValidAt |-> lastValidAt, numBlockProducers |-> Len(UntrustedEpoch.bps)]
    ELSE [currentHeight |-> IF lastValidAt = 0 THEN curHeight ELSE untrusted.height,
          nextTimestamp |-> 0, nextValidAt |-> 0, numBlockProducers |-> 0]

VerifiedBlocks == {BlockHashes(h) : h \in Heights} \ {NoBlock}
=============================================================================
