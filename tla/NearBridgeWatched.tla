-------------------------- MODULE NearBridgeWatched --------------------------
(***************************************************************************)
(* NearBridge with the two parties an optimistic light client relies on: a *)
(* watcher that has every forged block challenged within its challenge     *)
(* period, and a relayer that keeps submitting the canonical chain.        *)
(* Everybody else still does whatever the contract lets them do.           *)
(***************************************************************************)
EXTENDS NearBridgeProps

CONSTANTS Relayer,             \* the account of the honest relayer
          HonestBlocks,        \* the blocks of the canonical chain
          EpochProducers       \* an epoch's block producers on that chain

\* The constructor allows a lockDuration of 0, too, but then a block is verified by the
\* transaction that submits it, and nobody can challenge it.
ASSUME WatchedAssumption ==
    Relayer \in Accounts /\ HonestBlocks \subseteq Blocks /\ lockDuration > 0

PendingForged ==
    /\ Unconfirmed
    /\ \E i \in untrustedSignatureSet : ~ CheckBlockProducerSignatureInHead(i)

\* The challenge is mined before the period ends (challenge must not be paused).
WatchedTick == Tick /\ (PendingForged => now + 1 < lastValidAt)

-----------------------------------------------------------------------------
Genuine(b, bps) ==
    /\ EnoughApprovals(b, bps)
    /\ \A i \in Approved(b, bps) : GoodSignature(b, bps, i)

\* What the contract trusts NEAR and its admin with: the producers sign canonical blocks,
\* more than two thirds of their stake sign no other, and the contract is initialized
\* with canonical data.
ASSUME ChainAssumption ==
    /\ \A b \in HonestBlocks : \A i \in Approved(b, EpochProducers[b.epochId]) :
          GoodSignature(b, EpochProducers[b.epochId], i)
    /\ \A b \in Blocks : Genuine(b, EpochProducers[b.epochId]) /\ DeclaresNextBps(b)
                        => b.nextBps = EpochProducers[b.nextEpochId]
    /\ \A b \in InitBlocks : /\ b.nextBps \in {NoBPs, EpochProducers[b.nextEpochId]}
                            /\ ValidatorSets \subseteq {EpochProducers[b.epochId]}

\* The optimistic security argument: with a watcher, every verified block beyond
\* the first carries genuine approvals of more than two thirds of the stake of the
\* producers that a lower verified block (or the admin, for the first epoch)
\* declared, although addLightClientBlock checks not one signature.
VerifiedAreGenuine ==
    \A b \in VerifiedBlocks \ InitBlocks :
        \/ \E bps \in ValidatorSets : Genuine(b, bps)
        \/ \E d \in VerifiedBlocks :
              /\ d.nextEpochId = b.epochId /\ d.height < b.height
              /\ Genuine(b, d.nextBps)

\* Only forged blocks are ever challenged away: a relayer of the canonical chain
\* cannot lose the bond, whatever an unconfirmed block wrote into the epoch ring.
HonestBondIsSafe ==
    [][ (untrusted \in HonestBlocks /\ lastSubmitter \in Depositors)
        => \/ lastSubmitter \in Depositors'
           \/ wallet'[lastSubmitter] = wallet[lastSubmitter] + lockEthAmount ]_vars

-----------------------------------------------------------------------------
(* Time only matters while a block is unconfirmed, so the clock only runs   *)
(* then: otherwise it could reach the bound MaxTime before anything is      *)
(* relayed.  The admin pauses functions again and again, but unpauses them. *)

RelayerSubmits == \E b \in HonestBlocks : AddLightClientBlock(Relayer, b)
RelayerDeposits == Deposit(Relayer)
SomebodyChallenges ==
    \E a \in Accounts, i \in 1..MAX_BLOCK_PRODUCERS : Challenge(a, i)
ClockRuns == Unconfirmed /\ WatchedTick

OthersAct ==
    \/ \E a \in Accounts \ {Relayer} : Deposit(a) \/ Withdraw(a)
    \/ \E a \in Accounts \ {Relayer}, b \in Blocks : AddLightClientBlock(a, b)
    \/ \E bps \in ValidatorSets : InitWithValidators(bps)
    \/ \E b \in InitBlocks : InitWithBlock(b)

FairNext ==
    \/ RelayerSubmits \/ RelayerDeposits \/ SomebodyChallenges \/ ClockRuns
    \/ OthersAct \/ AdminPause

AdminUnpause == AdminPause /\ paused' = {}

FairSpec ==
    /\ Init /\ [][FairNext]_vars
    /\ SF_vars(RelayerDeposits) /\ SF_vars(RelayerSubmits)
    /\ WF_vars(SomebodyChallenges) /\ WF_vars(ClockRuns) /\ WF_vars(AdminUnpause)

\* The canonical chain gets through: once the bridge is initialized, a canonical block
\* at least as high as any given one is eventually verified, whatever others submit,
\* because a forged block costs a bond and a replacement an ever newer timestamp.
ChainIsVerified ==
    \A b \in HonestBlocks :
        initialized ~> \E c \in HonestBlocks \cap VerifiedBlocks : c.height >= b.height
=============================================================================
