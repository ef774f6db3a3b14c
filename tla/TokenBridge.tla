----------------------------- MODULE TokenBridge -----------------------------
(***************************************************************************)
(* The bridge of assignment-6: TokenLockerOnHarmony.sol mints what was     *)
(* locked on Ethereum, TokenLockerOnEthereum.sol unlocks what was burned on*)
(* Harmony, each on the word of the light client of the other chain.       *)
(*                                                                         *)
(* External: the two chains, the relayers, the MPT and MMR provers, which  *)
(* prove membership, and TokenLocker, whose execute performs the lock or   *)
(* burn found in a receipt and fails if there is none.  Ethereum is a given*)
(* tree of headers, forks included; the chain of Harmony grows.  Every lock*)
(* and every burn moves one token.                                         *)
(***************************************************************************)
EXTENDS LightClients, SequencesExt, FiniteSetsExt

CONSTANTS
    Canonical,                 \* the headers of the chain Ethereum settles on, of all
                               \* in Headers; receipts is the set of the locks in it
    Burns,                     \* the burn transactions that may happen
    Forged,                    \* a burn that never happens
    MaxBlocks,                 \* bound on the chain of Harmony
    Honest                     \* accounts on Ethereum; the others are strangers

FirstBlock == [number |-> 1, epoch |-> 1, burns |-> {}]

\* The root in a block's header commits to the blocks before it.
CheckPoint(chain, n) ==
    [number |-> n, epoch |-> chain[n].epoch, mmrRoot |-> SubSeq(chain, 1, n - 1)]

\* No transaction is on the settled chain twice, the client on Ethereum starts from the
\* first block of Harmony, and its administrator with honest relayers.
ASSUME BridgeAssumption ==
    /\ Canonical \subseteq Headers /\ FirstHeader \in Canonical
    /\ \A g, h \in Canonical : g # h => g.receipts \cap h.receipts = {}
    /\ IsFiniteSet(Burns) /\ IsFiniteSet(UNION {h.receipts : h \in Headers})
    /\ Forged \notin Burns
    /\ Epochs \subseteq Nat /\ 1 \in Epochs /\ 0..MaxBlocks \subseteq Numbers
    /\ FirstCheckPoint = CheckPoint(<<FirstBlock>>, 1)
    /\ Honest \subseteq Accounts /\ deployer \in Honest /\ InitialRelayers \subseteq Honest

VARIABLES
    harmonyChain,              \* [number, epoch, burns], in order
    linked,                    \* what the owners have set with bind and changeLightClient
    spentOnHarmony, spentOnEthereum,        \* the spentReceipt of the two lockers
    minted, unlocked           \* how often each lock and burn was executed

clientVars == <<vars, harmonyVars>>
mintVars   == <<spentOnHarmony, minted>>
unlockVars == <<spentOnEthereum, unlocked>>
bridgeVars == <<clientVars, harmonyChain, linked, mintVars, unlockVars>>

Strangers == Accounts \ Honest

Locks == UNION {h.receipts : h \in Headers}
Burned == UNION {b.burns : b \in Range(harmonyChain)}

Executed(counts) == MapThenSumSet(LAMBDA x : counts[x], DOMAIN counts)
Supply == Executed(minted) - Cardinality(Burned)          \* of tokens on Harmony

Links == {"client on Harmony", "bridge on Harmony", "client on Ethereum", "bridge on Ethereum"}

BridgeInit ==
    /\ BothInit
    /\ harmonyChain = <<FirstBlock>>
    /\ linked = {}
    /\ spentOnHarmony = {} /\ spentOnEthereum = {}
    /\ minted = [l \in Locks |-> 0] /\ unlocked = [b \in Burns \cup {Forged} |-> 0]

-----------------------------------------------------------------------------
\* bind and changeLightClient, called once by the owners when the bridge is set up.
Link(part) ==
    /\ linked' = linked \cup {part}
    /\ UNCHANGED <<clientVars, harmonyChain, mintVars, unlockVars>>

\* The holders of tokens on Harmony burn some of them in the next block.
MineOnHarmony(epoch, burns) ==
    /\ Len(harmonyChain) < MaxBlocks                                   \* bound
    /\ burns \cap Burned = {} /\ Cardinality(burns) <= Supply
    /\ epoch >= Last(harmonyChain).epoch
    /\ harmonyChain' = Append(harmonyChain, [number |-> Len(harmonyChain) + 1,
                                             epoch |-> epoch, burns |-> burns])
    /\ UNCHANGED <<clientVars, linked, mintVars, unlockVars>>

\* Anybody may relay any header of Ethereum, of a fork too, and at any time.
RelayToHarmony(header) ==
    /\ AddBlockHeader(header)
    /\ UNCHANGED <<harmonyVars, harmonyChain, linked, mintVars, unlockVars>>

\* Accounts submit the headers of Harmony, each once; a stranger also one of its own
\* making.
ForgedBlock == [number |-> 1, epoch |-> 1, burns |-> {Forged}]
ForgedCheckPoint == [number |-> 2, epoch |-> 1, mmrRoot |-> <<ForgedBlock>>]

Offers(sender) ==
    {CheckPoint(harmonyChain, n) : n \in
        {k \in DOMAIN harmonyChain :
            ~ Contains(epochCheckPointBlockNumbers[harmonyChain[k].epoch], k)}}
    \cup (IF sender \in Strangers THEN {ForgedCheckPoint} ELSE {})

RelayToEthereum(sender, header) ==
    /\ H!SubmitCheckpoint(sender, header)
    /\ UNCHANGED <<vars, harmonyChain, linked, mintVars, unlockVars>>

\* Strangers may call everything, but the administrator trusts honest accounts only.
Administer(sender) ==
    /\ \/ H!AdminPauseLightClient(sender) \/ H!AdminUnpauseLightClient(sender)
       \/ \E a \in Honest : \/ H!AdminAddRelayer(sender, a)
                            \/ H!AdminRemoveRelayer(sender, a)
    /\ UNCHANGED <<vars, harmonyChain, linked, mintVars, unlockVars>>

-----------------------------------------------------------------------------
(* The lockers. *)

ReceiptHash(blockHash, rootHash, key) == <<blockHash, rootHash, key>>

Forget(spent, receiptHash) == spent
Spend(spent, receiptHash) == spent \cup {receiptHash}

LatestBlockAt(blockNo) == Last(blocksByHeight[blockNo])
BlockAt(blockNo) == Head(blocksByHeight[blockNo])

\* TokenLockerOnHarmony.validateAndExecuteProof.
ExecuteOnHarmony(blockNo, rootHash, mptkey) ==
    /\ {"client on Harmony", "bridge on Harmony"} \subseteq linked
    /\ blocksByHeight[blockNo] # <<>>
    /\ LET blockHash == BlockAt(blockNo)
           receiptHash == ReceiptHash(blockHash, rootHash, mptkey)
       IN  /\ VerifyReceiptsHash(blockHash, rootHash)
           /\ receiptHash \notin spentOnHarmony
           /\ mptkey \in rootHash
           /\ spentOnHarmony' = Spend(spentOnHarmony, receiptHash)
           /\ minted' = [minted EXCEPT ![mptkey] = @ + 1]
    /\ UNCHANGED <<clientVars, harmonyChain, linked, unlockVars>>

\* TokenLockerOnEthereum.validateAndExecuteProof.
ExecuteOnEthereum(header, mmrRoot, key) ==
    /\ {"client on Ethereum", "bridge on Ethereum"} \subseteq linked
    /\ H!IsValidCheckPoint(header.epoch, mmrRoot)
    /\ Contains(mmrRoot, header)
    /\ LET receiptHash == ReceiptHash(header, header.burns, key)
       IN  /\ receiptHash \notin spentOnEthereum
           /\ key \in header.burns
           /\ spentOnEthereum' = Spend(spentOnEthereum, receiptHash)
           /\ unlocked' = [unlocked EXCEPT ![key] = @ + 1]
    /\ UNCHANGED <<clientVars, harmonyChain, linked, mintVars>>

-----------------------------------------------------------------------------
\* What callers may present: every root the chain of Harmony had, and a made-up one.
KnownRoots == {SubSeq(harmonyChain, 1, n - 1) : n \in DOMAIN harmonyChain} \cup {<<ForgedBlock>>}
KnownBlocks == Range(harmonyChain) \cup {ForgedBlock}

RelayToEthereumBy(senders) ==
    \E sender \in senders : \E header \in Offers(sender) : RelayToEthereum(sender, header)

ExecuteLock(l) == \E n \in Heights, header \in Headers : ExecuteOnHarmony(n, header.receipts, l)
ExecuteBurn(b) == \E header \in KnownBlocks, root \in KnownRoots : ExecuteOnEthereum(header, root, b)

BridgeNext ==
    \/ \E part \in Links \ linked : Link(part)
    \/ \E epoch \in Epochs, burns \in SUBSET Burns : MineOnHarmony(epoch, burns)
    \/ \E header \in Headers : RelayToHarmony(header)
    \/ RelayToEthereumBy(Accounts)
    \/ \E l \in Locks : ExecuteLock(l)
    \/ \E b \in Burns \cup {Forged} : ExecuteBurn(b)
    \/ \E sender \in Accounts : Administer(sender)

BridgeSpec == BridgeInit /\ [][BridgeNext]_bridgeVars

\* The owners set the bridge up, relayers and users persist; a relayer of checkpoints
\* tries again when it was locked out.
FairBridge ==
    /\ BridgeSpec
    /\ WF_bridgeVars(\E part \in Links \ linked : Link(part))
    /\ WF_bridgeVars(\E header \in Canonical : RelayToHarmony(header))
    /\ SF_bridgeVars(RelayToEthereumBy(Honest))
    /\ WF_bridgeVars(\E l \in Locks : ExecuteLock(l))
    /\ WF_bridgeVars(\E b \in Burns : ExecuteBurn(b))
=============================================================================
