--------------------------- MODULE NearBridgeProps ---------------------------
(***************************************************************************)
(* What must hold of the NEAR light client contract, whoever calls it.     *)
(***************************************************************************)
EXTENDS NearBridge

EpochIds == {NoEpochId} \cup {b.epochId : b \in Blocks \cup InitBlocks}
                        \cup {b.nextEpochId : b \in Blocks \cup InitBlocks}

BpsLists == {<<>>} \cup ValidatorSets
                   \cup ({b.nextBps : b \in Blocks \cup InitBlocks} \ {NoBPs})

\* The type invariant.
TypeOK ==
    /\ now \in Nat /\ lastValidAt \in Nat
    /\ curHeight \in Nat
    /\ untrusted \in Blocks \cup {NoBlock}
    /\ untrustedNextEpoch \in BOOLEAN
    /\ untrustedSignatureSet \subseteq Nat
    /\ lastSubmitter \in Accounts \cup {NoAccount}
    /\ initialized \in BOOLEAN
    /\ epochs \in [0..2 -> [epochId : EpochIds, bps : BpsLists]]
    /\ curEpoch \in 0..2
    /\ blocks_ \in [Heights -> Blocks \cup InitBlocks \cup {NoBlock}]
    /\ balanceOf \in [Accounts \cup {NoAccount} -> {0, lockEthAmount}]
    /\ paused \in {{}} \cup PauseConfigs
    /\ wallet \in [Accounts -> Nat]
    /\ held \in Nat

Depositors == {a \in Accounts : balanceOf[a] # 0}

\* The bond of the relayer whose block may still be challenged stays in the
\* contract, so the checked subtraction in challenge never reverts and a forged
\* block always costs its submitter the bond: withdraw must not let it out and
\* no second path may slash it first.
BondLocked == Unconfirmed => balanceOf[lastSubmitter] >= lockEthAmount

\* The contract holds the ETH of every depositor, whatever was paid to
\* challengers before: withdraw's transfer cannot fail for lack of funds.
Solvent == held >= lockEthAmount * Cardinality(Depositors)

\* Finality of the blockHashes and blockMerkleRoots views: what they once
\* returned for a height they return forever, across the deferred commit in
\* addLightClientBlock, replacements and challenges.
VerifiedIsFinal ==
    [][\A h \in Heights : BlockHashes(h) # NoBlock => BlockHashes(h)' = BlockHashes(h)]_vars

\* bridgeState and the views tell the same story: the height bridgeState
\* reports as confirmed is the highest one blockHashes answers for, and while a
\* block is unconfirmed no view answers for its height.
ViewsAgree ==
    initialized =>
        /\ BridgeState.currentHeight \in Heights
        /\ BlockHashes(BridgeState.currentHeight) # NoBlock
        /\ \A h \in Heights : BlockHashes(h) # NoBlock => h <= BridgeState.currentHeight
        /\ Unconfirmed => BlockHashes(untrusted.height) = NoBlock

\* Why the constructor demands replaceDuration > lockDuration * 1000000000: a
\* block that was no older than its submission is replaced in its challenge
\* period only by one from the future.
FreshIsNotReplaced ==
    [][ (Unconfirmed /\ lastValidAt' # 0 /\ untrusted' # untrusted)
        => \/ untrusted.timestamp < (lastValidAt - lockDuration) * NanosPerSecond
           \/ untrusted'.timestamp > now * NanosPerSecond ]_vars

\* The ring of three epochs, written ahead by an unconfirmed block, and the
\* deferred commit do not show: the contract implements the log of HeaderLog.
Log == INSTANCE HeaderLog WITH
    Period   <- lockDuration,
    time     <- now,
    verified <- VerifiedBlocks,
    pending  <- IF Unconfirmed THEN untrusted ELSE NoBlock,
    deadline <- IF Unconfirmed THEN lastValidAt ELSE 0,
    headBps  <- epochs[HeadEpoch].bps,
    nextId   <- epochs[(HeadEpoch + 1) % 3].epochId,
    nextBps  <- epochs[(HeadEpoch + 1) % 3].bps

ImplementsHeaderLog == Log!LogSpec
=============================================================================
