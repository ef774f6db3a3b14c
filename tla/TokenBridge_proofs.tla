------------------------- MODULE TokenBridge_proofs -------------------------
(***************************************************************************)
(* First the two light clients: what they store is consistent.  On Harmony *)
(* the indexes of Ethereum's headers describe one tree: for every set of   *)
(* headers, with any forks, relayed in any order.  On Ethereum the mappings*)
(* a checkpoint of Harmony is spread over agree: for every set of accounts,*)
(* epochs and checkpoints, as long as relayers do not submit two different *)
(* ones of a block number.                                                 *)
(*                                                                         *)
(* Then the bridge over them: a lock is executed at most once for every    *)
(* height it was taken from, a burn once and only if it happened: for every*)
(* tree of Ethereum headers relayed in any order, any growth of Harmony's  *)
(* chain, any number of relayers and proofs presented.                     *)
(***************************************************************************)
EXTENDS TokenBridgeProps, FiniteSetTheorems, SequenceTheorems, TLAPS

(* Ethereum's headers. *)

Listed(hash, n) == \E i \in DOMAIN blocksByHeight[n] : blocksByHeight[n][i] = hash

TreeTypes ==
    /\ blocks \in [DOMAIN blocks -> Headers]
    /\ blocksByHeight \in [Heights -> Seq(DOMAIN blocks)]
    /\ blockHeightMax \in Nat

\* A stored block is of the first height or above, up to the maximum, and its parent is stored.
StoredBlocks ==
    \A hash \in DOMAIN blocks :
       /\ blocks[hash].hash = hash
       /\ blocks[hash].number \in FirstHeader.number..blockHeightMax
       /\ blocks[hash].number > FirstHeader.number =>
             /\ blocks[hash].parentHash \in DOMAIN blocks
             /\ blocks[blocks[hash].parentHash].number = blocks[hash].number - 1

\* A stored block is listed once, under its own height.
ListedBlocks ==
    /\ \A hash \in DOMAIN blocks : Listed(hash, blocks[hash].number)
    /\ \A n \in Heights : \A i, j \in DOMAIN blocksByHeight[n] :
          /\ blocks[blocksByHeight[n][i]].number = n
          /\ blocksByHeight[n][i] = blocksByHeight[n][j] => i = j

HeightsAreFull ==
    \A n \in Heights : blocksByHeight[n] # <<>> <=> n \in FirstHeader.number..blockHeightMax

TreeInv == TreeTypes /\ StoredBlocks /\ ListedBlocks /\ HeightsAreFull

-----------------------------------------------------------------------------
LEMMA HeaderFields ==
  ASSUME NEW h \in Headers PROVE h.number \in Heights /\ h.number \in Nat
  BY HeaderAssumption DEF Heights

LEMMA HeightsAreNat == Heights \subseteq Nat
  BY HeaderAssumption DEF Heights

LEMMA WiderSeq ==
  ASSUME NEW S, NEW T, S \subseteq T, NEW s \in Seq(S) PROVE s \in Seq(T)
<1>1. Len(s) \in Nat /\ s \in [1..Len(s) -> S]
  BY LenProperties
<1>2. s \in [1..Len(s) -> T]
  BY <1>1
<1> QED BY <1>1, <1>2

LEMMA InitTree == Init => TreeInv
<1> SUFFICES ASSUME Init PROVE TreeInv
  OBVIOUS
<1>1. FirstHeader \in Headers /\ FirstHeader.number \in Heights /\ FirstHeader.number \in Nat
  BY HeaderFields, HeaderAssumption
<1>2. /\ DOMAIN blocks = {FirstHeader.hash} /\ blocks[FirstHeader.hash] = FirstHeader
      /\ \A n \in Heights : blocksByHeight[n] = IF n = FirstHeader.number
                                                THEN <<FirstHeader.hash>> ELSE <<>>
  BY DEF Init
<1>3. TreeTypes
  <2>1. blocks \in [DOMAIN blocks -> Headers]
    BY <1>1 DEF Init
  <2>2. ASSUME NEW n \in Heights PROVE blocksByHeight[n] \in Seq(DOMAIN blocks)
    <3>1. <<FirstHeader.hash>> \in Seq(DOMAIN blocks) /\ << >> \in Seq(DOMAIN blocks)
      BY <1>2
    <3> QED BY <1>2, <3>1
  <2>3. blocksByHeight \in [Heights -> Seq(DOMAIN blocks)]
    BY <2>2 DEF Init
  <2> QED BY <1>1, <2>1, <2>3 DEF Init, TreeTypes
<1>4. StoredBlocks
  BY <1>1, <1>2 DEF Init, StoredBlocks
<1>5. ListedBlocks
  BY <1>1, <1>2 DEF ListedBlocks, Listed
<1>6. HeightsAreFull
  BY <1>1, <1>2, HeightsAreNat DEF Init, HeightsAreFull
<1> QED BY <1>3, <1>4, <1>5, <1>6 DEF TreeInv

LEMMA NextTree == TreeInv /\ [Next]_vars => TreeInv'
<1> SUFFICES ASSUME TreeInv, [Next]_vars PROVE TreeInv'
  OBVIOUS
<1>1. CASE UNCHANGED vars
  BY <1>1 DEF vars, TreeInv, TreeTypes, StoredBlocks, ListedBlocks, Listed, HeightsAreFull
<1>2. ASSUME NEW header \in Headers, AddBlockHeader(header) PROVE TreeInv'
  <2> DEFINE m == header.number
             parent == blocks[header.parentHash]
  <2>1. /\ header.hash \notin DOMAIN blocks
        /\ header.parentHash \in DOMAIN blocks /\ parent \in Headers
        /\ m = parent.number + 1
        /\ m \in Heights /\ m \in Nat
        /\ parent.number \in FirstHeader.number..blockHeightMax
    BY <1>2, HeaderFields DEF AddBlockHeader, NotRelayed, Follows, TreeInv, TreeTypes, StoredBlocks
  <2>2. /\ DOMAIN blocks' = DOMAIN blocks \cup {header.hash}
        /\ blocks'[header.hash] = header
        /\ \A hash \in DOMAIN blocks : blocks'[hash] = blocks[hash]
    BY <1>2, <2>1 DEF AddBlockHeader
  <2>3. /\ blocksByHeight' = [blocksByHeight EXCEPT ![m] = Append(@, header.hash)]
        /\ blockHeightMax' = IF m > blockHeightMax THEN m ELSE blockHeightMax
    BY <1>2 DEF AddBlockHeader, NewHeightMax
  <2>4. FirstHeader.number \in Nat /\ blockHeightMax \in Nat
    BY HeaderAssumption DEF TreeInv, TreeTypes
  <2>5. \A n \in Heights : blocksByHeight[n] \in Seq(DOMAIN blocks)
    BY DEF TreeInv, TreeTypes
  <2>6. /\ \A n \in Heights \ {m} : blocksByHeight'[n] = blocksByHeight[n]
        /\ blocksByHeight'[m] = Append(blocksByHeight[m], header.hash)
    BY <2>1, <2>3 DEF TreeInv, TreeTypes
  <2>7. LET old == blocksByHeight[m]
            new == blocksByHeight'[m]
        IN  /\ DOMAIN old = 1..Len(old) /\ DOMAIN new = 1..(Len(old) + 1) /\ Len(old) \in Nat
            /\ \A i \in 1..Len(old) : new[i] = old[i] /\ old[i] \in DOMAIN blocks
            /\ new[Len(old) + 1] = header.hash /\ new # <<>>
    BY <2>1, <2>5, <2>6
  <2> HIDE DEF m, parent
  <2>8. TreeTypes'
    <3>1. blocks' \in [DOMAIN blocks' -> Headers]
      BY <1>2, <2>2 DEF AddBlockHeader, TreeInv, TreeTypes
    <3>2. ASSUME NEW n \in Heights PROVE blocksByHeight'[n] \in Seq(DOMAIN blocks')
      <4>1. CASE n = m
        <5>1. blocksByHeight[m] \in Seq(DOMAIN blocks')
          BY <2>1, <2>2, <2>5, WiderSeq
        <5>2. Append(blocksByHeight[m], header.hash) \in Seq(DOMAIN blocks')
          BY <2>2, <5>1, AppendProperties
        <5> QED BY <2>6, <4>1, <5>2
      <4>2. CASE n # m
        BY <2>2, <2>5, <2>6, <4>2, WiderSeq
      <4> QED BY <4>1, <4>2
    <3>3. blocksByHeight' \in [Heights -> Seq(DOMAIN blocks')]
      BY <2>3, <3>2 DEF TreeInv, TreeTypes
    <3> QED BY <2>1, <2>3, <2>4, <3>1, <3>3 DEF TreeTypes
  <2>9. StoredBlocks'
    <3> SUFFICES ASSUME NEW hash \in DOMAIN blocks'
                 PROVE  /\ blocks'[hash].hash = hash
                        /\ blocks'[hash].number \in FirstHeader.number..blockHeightMax'
                        /\ blocks'[hash].number > FirstHeader.number =>
                              /\ blocks'[hash].parentHash \in DOMAIN blocks'
                              /\ blocks'[blocks'[hash].parentHash].number
                                    = blocks'[hash].number - 1
      BY DEF StoredBlocks
    <3>1. CASE hash = header.hash
      BY <2>1, <2>2, <2>3, <2>4, <3>1 DEF m, parent
    <3>2. CASE hash \in DOMAIN blocks
      <4>1. /\ blocks'[hash] = blocks[hash] /\ blocks[hash].hash = hash
            /\ blocks[hash].number \in FirstHeader.number..blockHeightMax
        BY <2>2, <3>2 DEF TreeInv, StoredBlocks
      <4>2. blocks[hash].number \in FirstHeader.number..blockHeightMax'
        BY <2>1, <2>3, <2>4, <4>1
      <4>3. blocks[hash].number > FirstHeader.number =>
              /\ blocks[hash].parentHash \in DOMAIN blocks
              /\ blocks'[blocks[hash].parentHash].number = blocks[hash].number - 1
        BY <2>2, <3>2 DEF TreeInv, StoredBlocks
      <4> QED BY <2>2, <4>1, <4>2, <4>3
    <3> QED BY <2>2, <3>1, <3>2
  <2>10. ListedBlocks'
    <3>1. ASSUME NEW hash \in DOMAIN blocks'
          PROVE  \E i \in DOMAIN blocksByHeight'[blocks'[hash].number] :
                    blocksByHeight'[blocks'[hash].number][i] = hash
      <4>1. CASE hash = header.hash
        <5>1. blocks'[hash].number = m
          BY <2>2, <4>1 DEF m
        <5> QED BY <2>7, <4>1, <5>1
      <4>2. CASE hash \in DOMAIN blocks
        <5>1. blocks'[hash].number = blocks[hash].number /\ blocks[hash].number \in Heights
          BY <2>2, <4>2, HeaderFields DEF TreeInv, TreeTypes
        <5>2. PICK i \in DOMAIN blocksByHeight[blocks[hash].number] :
                     blocksByHeight[blocks[hash].number][i] = hash
          BY <4>2 DEF TreeInv, ListedBlocks, Listed
        <5>3. CASE blocks[hash].number = m
          BY <2>7, <5>1, <5>2, <5>3
        <5>4. CASE blocks[hash].number # m
          BY <2>6, <5>1, <5>2, <5>4
        <5> QED BY <5>3, <5>4
      <4> QED BY <2>2, <4>1, <4>2
    <3>2. ASSUME NEW n \in Heights, NEW i \in DOMAIN blocksByHeight'[n],
                 NEW j \in DOMAIN blocksByHeight'[n]
          PROVE  /\ blocks'[blocksByHeight'[n][i]].number = n
                 /\ blocksByHeight'[n][i] = blocksByHeight'[n][j] => i = j
      <4>1. CASE n # m
        <5>1. blocksByHeight'[n] = blocksByHeight[n] /\ blocksByHeight[n][i] \in DOMAIN blocks
          BY <2>5, <2>6, <4>1
        <5>2. /\ blocks[blocksByHeight[n][i]].number = n
              /\ blocksByHeight[n][i] = blocksByHeight[n][j] => i = j
          BY <5>1 DEF TreeInv, ListedBlocks
        <5> QED BY <2>2, <5>1, <5>2
      <4>2. CASE n = m
        <5> DEFINE old == blocksByHeight[m]
                   new == blocksByHeight'[m]
        <5>1. \A k, l \in 1..Len(old) : /\ blocks[old[k]].number = m
                                        /\ old[k] = old[l] => k = l
          BY <2>1, <2>7 DEF TreeInv, ListedBlocks
        <5>2. \A k \in 1..Len(old) : /\ new[k] = old[k] /\ new[k] # header.hash
                                     /\ blocks'[new[k]].number = m
          BY <2>1, <2>2, <2>7, <5>1
        <5>3. blocks'[new[Len(old) + 1]].number = m /\ new[Len(old) + 1] = header.hash
          BY <2>2, <2>7 DEF m
        <5>4. /\ i \in 1..Len(old) \cup {Len(old) + 1}
              /\ j \in 1..Len(old) \cup {Len(old) + 1}
          BY <2>7, <4>2
        <5> HIDE DEF old, new
        <5>5. blocks'[new[i]].number = m /\ (new[i] = new[j] => i = j)
          BY <5>1, <5>2, <5>3, <5>4
        <5> QED BY <4>2, <5>5 DEF new
      <4> QED BY <4>1, <4>2
    <3> QED BY <3>1, <3>2 DEF ListedBlocks, Listed
  <2>11. HeightsAreFull'
    <3> SUFFICES ASSUME NEW n \in Heights
                 PROVE  blocksByHeight'[n] # <<>>
                           <=> n \in FirstHeader.number..blockHeightMax'
      BY DEF HeightsAreFull
    <3>1. n \in Nat /\ (blocksByHeight[n] # <<>>
                           <=> n \in FirstHeader.number..blockHeightMax)
      BY HeightsAreNat DEF TreeInv, HeightsAreFull
    <3>2. n \in FirstHeader.number..blockHeightMax'
             <=> n = m \/ n \in FirstHeader.number..blockHeightMax
      BY <2>1, <2>3, <2>4, <3>1
    <3> QED BY <2>6, <2>7, <3>1, <3>2
  <2> QED BY <2>8, <2>9, <2>10, <2>11 DEF TreeInv
<1> QED BY <1>1, <1>2 DEF Next

-----------------------------------------------------------------------------
LEMMA TreeIsOne == TreeInv => OneTree
<1> SUFFICES ASSUME TreeInv PROVE OneTree
  OBVIOUS
<1>1. \A n \in Heights :
         blocksByHeight[n] # <<>> <=> n \in FirstHeader.number..blockHeightMax
  BY DEF TreeInv, HeightsAreFull
<1>2. ASSUME NEW hash \in DOMAIN blocks, NEW n \in Heights
      PROVE  {i \in DOMAIN blocksByHeight[n] : blocksByHeight[n][i] = hash} # {}
                <=> n = blocks[hash].number
  BY DEF TreeInv, ListedBlocks, Listed
<1>3. ASSUME NEW n \in Heights, NEW i \in DOMAIN blocksByHeight[n],
             NEW j \in DOMAIN blocksByHeight[n]
      PROVE  /\ blocksByHeight[n][i] = blocksByHeight[n][j] => i = j
             /\ n > FirstHeader.number =>
                   \E k \in DOMAIN blocksByHeight[n - 1] :
                      blocksByHeight[n - 1][k] = blocks[blocksByHeight[n][i]].parentHash
  <2> DEFINE hash == blocksByHeight[n][i]
  <2>1. /\ hash \in DOMAIN blocks /\ blocks[hash].number = n
        /\ hash = blocksByHeight[n][j] => i = j
    BY DEF TreeInv, TreeTypes, ListedBlocks
  <2>2. ASSUME n > FirstHeader.number
        PROVE  Listed(blocks[hash].parentHash, n - 1)
    BY <2>1, <2>2 DEF TreeInv, StoredBlocks, ListedBlocks
  <2> QED BY <2>1, <2>2 DEF Listed
<1> QED BY <1>1, <1>2, <1>3 DEF OneTree

-----------------------------------------------------------------------------
(* Harmony's checkpoints. *)

Known == CheckPoints \cup {FirstCheckPoint}

\* What the contract trusts its relayers for.
OneHeaderPerNumber == \A g, h \in Known : g.number = h.number => g = h

CheckPointTypes ==
    /\ epochCheckPointBlockNumbers \in [Epochs -> Seq(Numbers)]
    /\ checkPointBlocks \in [Numbers -> Known \cup {H!NoHeader}]
    /\ epochMmrRoots \in [Epochs -> SUBSET {h.mmrRoot : h \in Known}]

\* Under every recorded number is the header of that number.
RecordedAreStored ==
    \A e \in Epochs : \A i \in DOMAIN epochCheckPointBlockNumbers[e] :
       LET n == epochCheckPointBlockNumbers[e][i]
       IN  checkPointBlocks[n] \in Known /\ checkPointBlocks[n].number = n

CheckPointInv == CheckPointTypes /\ RecordedAreStored /\ H!RootsHaveCheckpoints

-----------------------------------------------------------------------------
LEMMA InitCheckPoints ==
  ASSUME H!LightClientAssumption PROVE H!Init => CheckPointInv
<1> SUFFICES ASSUME H!Init PROVE CheckPointInv
  OBVIOUS
<1>1. FirstCheckPoint.number \in Numbers /\ FirstCheckPoint.epoch \in Epochs /\ FirstCheckPoint \in Known
  BY DEF H!LightClientAssumption, Known
<1>2. \A e \in Epochs :
         /\ epochCheckPointBlockNumbers[e] = IF e = FirstCheckPoint.epoch
                                             THEN <<FirstCheckPoint.number>> ELSE <<>>
         /\ epochMmrRoots[e] = IF e = FirstCheckPoint.epoch THEN {FirstCheckPoint.mmrRoot} ELSE {}
  BY DEF H!Init
<1>3. checkPointBlocks[FirstCheckPoint.number] = FirstCheckPoint
  BY <1>1 DEF H!Init
<1>4. CheckPointTypes
  BY <1>1 DEF H!Init, CheckPointTypes
<1>5. RecordedAreStored
  BY <1>1, <1>2, <1>3 DEF RecordedAreStored
<1>6. H!RootsHaveCheckpoints
  BY <1>1, <1>2, <1>3 DEF H!RootsHaveCheckpoints
<1> QED BY <1>4, <1>5, <1>6 DEF CheckPointInv

LEMMA SubmitKeepsCheckPoints ==
  ASSUME H!LightClientAssumption, OneHeaderPerNumber, CheckPointInv,
         NEW sender, NEW header \in CheckPoints, H!SubmitCheckpoint(sender, header)
  PROVE  CheckPointInv'
<1> DEFINE numbers == epochCheckPointBlockNumbers
<1>1. header \in Known /\ header.number \in Numbers /\ header.epoch \in Epochs
  BY DEF H!LightClientAssumption, Known
<1>2. /\ numbers' = [numbers EXCEPT ![header.epoch] = Append(@, header.number)]
      /\ checkPointBlocks' = [checkPointBlocks EXCEPT ![header.number] = header]
      /\ epochMmrRoots' = [epochMmrRoots EXCEPT ![header.epoch] = @ \cup {header.mmrRoot}]
  BY DEF H!SubmitCheckpoint, H!EpochOf
<1>3. CheckPointTypes'
  BY <1>1, <1>2 DEF CheckPointInv, CheckPointTypes
<1>4. checkPointBlocks'[header.number] = header
  BY <1>1, <1>2 DEF CheckPointInv, CheckPointTypes
\* A checkpoint submitted again is the same header.
<1>5. ASSUME NEW e \in Epochs, NEW i \in DOMAIN numbers[e]
      PROVE  checkPointBlocks'[numbers[e][i]] = checkPointBlocks[numbers[e][i]]
  <2> DEFINE n == numbers[e][i]
  <2>1. n \in Numbers /\ checkPointBlocks[n] \in Known /\ checkPointBlocks[n].number = n
    BY DEF CheckPointInv, CheckPointTypes, RecordedAreStored
  <2>2. CASE n = header.number
    BY <1>1, <1>4, <2>1, <2>2 DEF OneHeaderPerNumber
  <2>3. CASE n # header.number
    BY <1>2, <2>1, <2>3 DEF CheckPointInv, CheckPointTypes
  <2> QED BY <2>2, <2>3
<1>6. ASSUME NEW e \in Epochs, e # header.epoch
      PROVE  numbers'[e] = numbers[e] /\ epochMmrRoots'[e] = epochMmrRoots[e]
  BY <1>2, <1>6 DEF CheckPointInv, CheckPointTypes
<1>7. LET old == numbers[header.epoch]
          new == numbers'[header.epoch]
      IN  /\ DOMAIN new = DOMAIN old \cup {Len(old) + 1}
          /\ \A i \in DOMAIN old : new[i] = old[i]
          /\ new[Len(old) + 1] = header.number
          /\ epochMmrRoots'[header.epoch] = epochMmrRoots[header.epoch] \cup {header.mmrRoot}
  BY <1>1, <1>2 DEF CheckPointInv, CheckPointTypes
<1> HIDE DEF numbers
<1>8. RecordedAreStored'
  <2> SUFFICES ASSUME NEW e \in Epochs, NEW i \in DOMAIN numbers'[e]
               PROVE  /\ checkPointBlocks'[numbers'[e][i]] \in Known
                      /\ checkPointBlocks'[numbers'[e][i]].number = numbers'[e][i]
    BY DEF RecordedAreStored, numbers
  <2>1. CASE i \in DOMAIN numbers[e] /\ numbers'[e][i] = numbers[e][i]
    BY <1>5, <2>1 DEF CheckPointInv, RecordedAreStored, numbers
  <2>2. CASE e = header.epoch /\ i = Len(numbers[e]) + 1
    BY <1>1, <1>4, <1>7, <2>2
  <2> QED BY <1>6, <1>7, <2>1, <2>2
<1>9. H!RootsHaveCheckpoints'
  <2> SUFFICES ASSUME NEW e \in Epochs
               PROVE  epochMmrRoots'[e] = {checkPointBlocks'[numbers'[e][i]].mmrRoot :
                                              i \in DOMAIN numbers'[e]}
    BY DEF H!RootsHaveCheckpoints, numbers
  <2>1. epochMmrRoots[e] = {checkPointBlocks[numbers[e][i]].mmrRoot : i \in DOMAIN numbers[e]}
    BY DEF CheckPointInv, H!RootsHaveCheckpoints, numbers
  <2>2. epochMmrRoots[e] = {checkPointBlocks'[numbers[e][i]].mmrRoot : i \in DOMAIN numbers[e]}
    BY <1>5, <2>1
  <2>3. CASE e # header.epoch
    BY <1>6, <2>2, <2>3
  <2>4. CASE e = header.epoch
    BY <1>4, <1>7, <2>2, <2>4
  <2> QED BY <2>3, <2>4
<1> QED BY <1>3, <1>8, <1>9 DEF CheckPointInv

LEMMA NextCheckPoints ==
  ASSUME H!LightClientAssumption, OneHeaderPerNumber
  PROVE  CheckPointInv /\ [H!Next]_(H!vars) => CheckPointInv'
<1> SUFFICES ASSUME CheckPointInv, [H!Next]_(H!vars) PROVE CheckPointInv'
  OBVIOUS
<1>1. ASSUME UNCHANGED H!checkPointVars PROVE CheckPointInv'
  BY <1>1 DEF H!checkPointVars, CheckPointInv, CheckPointTypes, RecordedAreStored,
              H!RootsHaveCheckpoints
<1>2. ASSUME NEW sender \in Accounts, H!Administer(sender) PROVE CheckPointInv'
  BY <1>1, <1>2 DEF H!Administer, H!AdminPauseLightClient, H!AdminUnpauseLightClient,
       H!RenounceAdmin, H!AdminAddRelayer, H!AdminRemoveRelayer, H!AdminChangeRelayerThreshold
<1>3. ASSUME NEW sender \in Accounts, NEW header \in CheckPoints, H!SubmitCheckpoint(sender, header)
      PROVE  CheckPointInv'
  BY <1>3, SubmitKeepsCheckPoints
<1>4. CASE UNCHANGED H!vars
  BY <1>1, <1>4 DEF H!vars
<1> QED BY <1>2, <1>3, <1>4 DEF H!Next

-----------------------------------------------------------------------------
LEMMA BothStep == [BothNext]_<<vars, harmonyVars>> => [Next]_vars /\ [H!Next]_(H!vars)
  BY DEF BothNext, harmonyVars, H!vars, H!checkPointVars, H!adminVars

\* In whatever order and on whatever forks headers are relayed, the indexes describe
\* one tree.
THEOREM RelayedHeadersFormOneTree == Both => []OneTree
<1>1. BothInit => TreeInv
  BY InitTree DEF BothInit
<1>2. TreeInv /\ [BothNext]_<<vars, harmonyVars>> => TreeInv'
  BY NextTree, BothStep
<1>3. TreeInv => OneTree
  BY TreeIsOne
<1> QED BY <1>1, <1>2, <1>3, PTL DEF Both

\* A root is valid in an epoch exactly if a checkpoint recorded in that epoch has it,
\* whoever submits what, in any order and again.
THEOREM RootsComeFromCheckpoints ==
  ASSUME OneHeaderPerNumber PROVE Both => []RootsHaveCheckpoints
<1>1. BothInit => CheckPointInv
  BY HarmonyAssumption, InitCheckPoints DEF BothInit
<1>2. CheckPointInv /\ [BothNext]_<<vars, harmonyVars>> => CheckPointInv'
  BY HarmonyAssumption, NextCheckPoints, BothStep
<1>3. CheckPointInv => RootsHaveCheckpoints
  BY DEF CheckPointInv, RootsHaveCheckpoints
<1> QED BY <1>1, <1>2, <1>3, PTL DEF Both

-----------------------------------------------------------------------------
(* The bridge. *)

\* The heights where a lock has left its receipt, under the block taken there.
SpentAt(l) ==
    {n \in Heights : /\ blocksByHeight[n] # <<>>
                     /\ ReceiptHash(Head(blocksByHeight[n]), Taken(n).receipts, l)
                           \in spentOnHarmony}

\* Every mint of a lock has left a receipt of its own, and receipts are of locks that
\* their roots have.
MintedInv ==
    /\ minted \in [Locks -> Nat]
    /\ \A hash, root, l : ReceiptHash(hash, root, l) \in spentOnHarmony => l \in root
    /\ \A l \in Locks : minted[l] <= Cardinality(SpentAt(l))

HarmonyBlocks == [number : Nat, epoch : Epochs, burns : SUBSET Burns]

\* No burn is in two blocks of Harmony.
ChainInv ==
    /\ harmonyChain # <<>>
    /\ harmonyChain \in Seq(HarmonyBlocks)
    /\ \A m \in DOMAIN harmonyChain : harmonyChain[m].number = m
    /\ \A m, n \in DOMAIN harmonyChain :
          m # n => harmonyChain[m].burns \cap harmonyChain[n].burns = {}

\* Only honest accounts relay, so that every valid root commits to blocks of the chain.
ClientOnEthereumInv ==
    /\ admins \subseteq Honest /\ relayers \subseteq Honest
    /\ epochMmrRoots = [e \in Epochs |-> epochMmrRoots[e]]
    /\ \A e \in Epochs : \A root \in epochMmrRoots[e] :
          \A i \in DOMAIN root : root[i] \in Range(harmonyChain)

\* An unlocked burn has left its receipt, under the one block that has it.
UnlockedInv ==
    /\ unlocked \in [Burns \cup {Forged} -> {0, 1}]
    /\ \A b \in DOMAIN unlocked : unlocked[b] = 1 =>
          \E block \in Range(harmonyChain) :
             b \in block.burns /\ ReceiptHash(block, block.burns, b) \in spentOnEthereum

BridgeInv ==
    /\ TreeInv /\ MintedInv
    /\ ChainInv /\ ClientOnEthereumInv /\ UnlockedInv

-----------------------------------------------------------------------------
LEMMA InitBridge == BridgeInit => BridgeInv
<1> SUFFICES ASSUME BridgeInit PROVE BridgeInv
  OBVIOUS
<1>1. TreeInv
  BY InitTree DEF BridgeInit, BothInit
<1>2. MintedInv
  <2>1. /\ spentOnHarmony = {} /\ minted \in [Locks -> Nat]
        /\ \A l \in Locks : minted[l] = 0
    BY DEF BridgeInit
  <2>2. \A l \in Locks : SpentAt(l) = {}
    BY <2>1 DEF SpentAt
  <2> QED BY <2>1, <2>2, FS_EmptySet DEF MintedInv
<1>3. ChainInv
  BY BridgeAssumption DEF BridgeInit, ChainInv, FirstBlock, HarmonyBlocks
<1>4. ClientOnEthereumInv
  <2>1. /\ admins = {deployer} /\ relayers = InitialRelayers
        /\ epochMmrRoots = [e \in Epochs |->
              IF e = CheckPoint(<<FirstBlock>>, 1).epoch
              THEN {CheckPoint(<<FirstBlock>>, 1).mmrRoot} ELSE {}]
    BY BridgeAssumption DEF BridgeInit, BothInit, H!Init
  <2>2. CheckPoint(<<FirstBlock>>, 1).mmrRoot = <<>>
    BY DEF CheckPoint
  <2> QED BY <2>1, <2>2, BridgeAssumption DEF ClientOnEthereumInv
<1>5. UnlockedInv
  BY DEF BridgeInit, UnlockedInv
<1> QED BY <1>1, <1>2, <1>3, <1>4, <1>5 DEF BridgeInv

-----------------------------------------------------------------------------
(* The two light clients. *)

LEMMA TreeStays ==
  ASSUME TreeInv, UNCHANGED vars PROVE TreeInv'
  BY NextTree

\* The block taken at a height is of that height; and there are finitely many.
LEMMA TakenIs ==
  ASSUME TreeInv, NEW n \in Heights, blocksByHeight[n] # <<>>
  PROVE  /\ Head(blocksByHeight[n]) \in DOMAIN blocks
         /\ Taken(n) \in Headers /\ Taken(n).number = n
         /\ Taken(n).hash = Head(blocksByHeight[n])
<1>1. blocksByHeight[n] \in Seq(DOMAIN blocks)
  BY DEF TreeInv, TreeTypes
<1>2. 1 \in DOMAIN blocksByHeight[n] /\ Head(blocksByHeight[n]) = blocksByHeight[n][1]
  BY <1>1
<1>3. Head(blocksByHeight[n]) \in DOMAIN blocks
  BY <1>1
<1> QED BY <1>2, <1>3 DEF Taken, TreeInv, TreeTypes, StoredBlocks, ListedBlocks

LEMMA HeightsTaken ==
  ASSUME TreeInv PROVE IsFiniteSet({n \in Heights : blocksByHeight[n] # <<>>})
<1>1. FirstHeader.number \in Int /\ blockHeightMax \in Int
  BY HeaderAssumption DEF TreeInv, TreeTypes
<1>2. IsFiniteSet(FirstHeader.number..blockHeightMax)
  BY <1>1, FS_Interval
<1>3. {n \in Heights : blocksByHeight[n] # <<>>} \subseteq FirstHeader.number..blockHeightMax
  BY DEF TreeInv, HeightsAreFull
<1> QED BY <1>2, <1>3, FS_Subset

LEMMA SpentIsFinite ==
  ASSUME TreeInv, NEW l PROVE IsFiniteSet(SpentAt(l)) /\ IsFiniteSet(TakenAt(l))
<1>1. /\ SpentAt(l) \subseteq {n \in Heights : blocksByHeight[n] # <<>>}
      /\ TakenAt(l) \subseteq {n \in Heights : blocksByHeight[n] # <<>>}
  BY DEF SpentAt, TakenAt
<1> QED BY <1>1, HeightsTaken, FS_Subset

\* A header that is relayed takes no height from another one.
LEMMA RelayKeepsMinted ==
  ASSUME TreeInv, MintedInv, NEW header \in Headers, RelayToHarmony(header)
  PROVE  TreeInv' /\ MintedInv'
<1> DEFINE m == header.number
<1>1. TreeInv'
  BY NextTree DEF RelayToHarmony, Next
<1>2. /\ blocks' = [hash \in DOMAIN blocks \cup {header.hash} |->
                       IF hash = header.hash THEN header ELSE blocks[hash]]
      /\ blocksByHeight' = [blocksByHeight EXCEPT ![m] = Append(@, header.hash)]
      /\ header.hash \notin DOMAIN blocks
      /\ UNCHANGED <<minted, spentOnHarmony>>
  BY DEF RelayToHarmony, AddBlockHeader, NotRelayed, mintVars
<1>3. \A hash \in DOMAIN blocks : blocks'[hash] = blocks[hash]
  BY <1>2
<1>4. ASSUME NEW n \in Heights, blocksByHeight[n] # <<>>
      PROVE  /\ blocksByHeight'[n] # <<>>
             /\ Head(blocksByHeight'[n]) = Head(blocksByHeight[n])
             /\ Taken(n)' = Taken(n)
  <2>1. blocksByHeight[n] \in Seq(DOMAIN blocks) /\ Head(blocksByHeight[n]) \in DOMAIN blocks
    BY <1>4, TakenIs DEF TreeInv, TreeTypes
  <2>2. blocksByHeight'[n] = blocksByHeight[n]
           \/ blocksByHeight'[n] = Append(blocksByHeight[n], header.hash)
    BY <1>2 DEF TreeInv, TreeTypes
  <2>3. /\ Append(blocksByHeight[n], header.hash) # <<>>
        /\ Head(Append(blocksByHeight[n], header.hash)) = Head(blocksByHeight[n])
    BY <1>4, <2>1
  <2>4. blocksByHeight'[n] # <<>> /\ Head(blocksByHeight'[n]) = Head(blocksByHeight[n])
    BY <1>4, <2>2, <2>3
  <2> QED BY <1>3, <2>1, <2>4 DEF Taken
<1>5. ASSUME NEW l \in Locks PROVE minted'[l] <= Cardinality(SpentAt(l)')
  <2>1. SpentAt(l) \subseteq SpentAt(l)'
    BY <1>2, <1>4 DEF SpentAt
  <2>2. IsFiniteSet(SpentAt(l))
    BY SpentIsFinite
  <2>3. IsFiniteSet(SpentAt(l)')
    <3>1. IsFiniteSet({n \in Heights : blocksByHeight'[n] # <<>>})
      <4>1. IsFiniteSet(FirstHeader.number..blockHeightMax')
        BY <1>1, HeaderAssumption, FS_Interval DEF TreeInv, TreeTypes
      <4>2. {n \in Heights : blocksByHeight'[n] # <<>>}
               \subseteq FirstHeader.number..blockHeightMax'
        BY <1>1 DEF TreeInv, HeightsAreFull
      <4> QED BY <4>1, <4>2, FS_Subset
    <3> QED BY <3>1, FS_Subset DEF SpentAt
  <2>4. Cardinality(SpentAt(l)) <= Cardinality(SpentAt(l)')
    BY <2>1, <2>3, FS_Subset
  <2>5. /\ Cardinality(SpentAt(l)) \in Nat /\ Cardinality(SpentAt(l)') \in Nat
        /\ minted[l] \in Nat /\ minted[l] <= Cardinality(SpentAt(l))
    BY <2>2, <2>3, FS_CardinalityType DEF MintedInv
  <2> QED BY <1>2, <2>4, <2>5
<1> QED BY <1>1, <1>2, <1>5 DEF MintedInv

\* A checkpoint of an honest relayer commits to blocks of the chain.
LEMMA SubmitKeepsRoots ==
  ASSUME ChainInv, ClientOnEthereumInv, NEW sender \in Accounts,
         NEW header \in Offers(sender), RelayToEthereum(sender, header)
  PROVE  ClientOnEthereumInv'
<1>1. /\ sender \in relayers /\ UNCHANGED <<admins, relayers, harmonyChain>>
      /\ epochMmrRoots' = [epochMmrRoots EXCEPT ![header.epoch] = @ \cup {header.mmrRoot}]
  BY DEF RelayToEthereum, H!SubmitCheckpoint, H!OnlyRelayers, H!EpochOf, H!adminVars
<1>2. sender \notin Strangers
  BY <1>1 DEF ClientOnEthereumInv, Strangers
<1>3. PICK n \in DOMAIN harmonyChain : header = CheckPoint(harmonyChain, n)
  BY <1>2 DEF Offers
<1>4. ASSUME NEW i \in DOMAIN header.mmrRoot PROVE header.mmrRoot[i] \in Range(harmonyChain)
  <2>1. header.mmrRoot = SubSeq(harmonyChain, 1, n - 1)
    BY <1>3 DEF CheckPoint
  <2>2. n \in 1..Len(harmonyChain)
    BY <1>3 DEF ChainInv
  <2>3. Len(harmonyChain) \in Nat /\ DOMAIN harmonyChain = 1..Len(harmonyChain)
    BY DEF ChainInv
  <2>4. \A j \in 1..(n - 1) :
           harmonyChain[j] \in HarmonyBlocks
    BY <2>2, <2>3 DEF ChainInv
  <2>5. /\ DOMAIN header.mmrRoot = 1..Len(header.mmrRoot)
        /\ Len(header.mmrRoot) = n - 1
        /\ \A j \in 1..(n - 1) : header.mmrRoot[j] = harmonyChain[j]
    BY <2>1, <2>2, <2>3, <2>4, SubSeqProperties, LenProperties
  <2>6. i \in 1..(n - 1) /\ header.mmrRoot[i] = harmonyChain[i] /\ i \in DOMAIN harmonyChain
    BY <1>4, <2>2, <2>3, <2>5
  <2> QED BY <2>6 DEF Range
<1>5. \A e \in Epochs : \A root \in epochMmrRoots'[e] :
         root \in epochMmrRoots[e] \/ root = header.mmrRoot
  BY <1>1 DEF ClientOnEthereumInv
<1>6. epochMmrRoots' = [e \in Epochs |-> epochMmrRoots'[e]]
  BY <1>1 DEF ClientOnEthereumInv
<1> QED BY <1>1, <1>4, <1>5, <1>6 DEF ClientOnEthereumInv

LEMMA AdministerKeepsHonest ==
  ASSUME ClientOnEthereumInv, NEW sender, Administer(sender)
  PROVE  ClientOnEthereumInv'
<1>1. /\ admins' = admins /\ UNCHANGED <<epochMmrRoots, harmonyChain>>
      /\ \/ relayers' = relayers
         \/ \E a \in Honest : relayers' = relayers \cup {a} \/ relayers' = relayers \ {a}
  BY DEF Administer, H!AdminPauseLightClient, H!AdminUnpauseLightClient,
         H!AdminAddRelayer, H!AdminRemoveRelayer, H!checkPointVars
<1> QED BY <1>1 DEF ClientOnEthereumInv

-----------------------------------------------------------------------------
(* The chain of Harmony. *)

LEMMA MineKeepsBridge ==
  ASSUME ChainInv, ClientOnEthereumInv, UnlockedInv,
         NEW epoch \in Epochs, NEW burns \in SUBSET Burns, MineOnHarmony(epoch, burns)
  PROVE  ChainInv' /\ ClientOnEthereumInv' /\ UnlockedInv'
<1> DEFINE block == [number |-> Len(harmonyChain) + 1, epoch |-> epoch, burns |-> burns]
<1>1. /\ harmonyChain' = Append(harmonyChain, block) /\ burns \cap Burned = {}
      /\ UNCHANGED <<epochMmrRoots, admins, relayers, spentOnEthereum, unlocked>>
  BY DEF MineOnHarmony, clientVars, harmonyVars, unlockVars
<1>2. /\ harmonyChain \in Seq(HarmonyBlocks) /\ Len(harmonyChain) \in Nat
      /\ block \in HarmonyBlocks
  BY DEF ChainInv, HarmonyBlocks
<1>3. /\ harmonyChain' \in Seq(HarmonyBlocks) /\ harmonyChain' # <<>>
      /\ DOMAIN harmonyChain' = DOMAIN harmonyChain \cup {Len(harmonyChain) + 1}
      /\ DOMAIN harmonyChain = 1..Len(harmonyChain)
      /\ \A m \in DOMAIN harmonyChain : harmonyChain'[m] = harmonyChain[m]
      /\ harmonyChain'[Len(harmonyChain) + 1] = block
  BY <1>1, <1>2
<1>4. \A m \in DOMAIN harmonyChain : harmonyChain[m].burns \cap burns = {}
  BY <1>1 DEF Burned, Range
<1>5. ChainInv'
  <2>1. \A m \in DOMAIN harmonyChain' : harmonyChain'[m].number = m
    BY <1>3 DEF ChainInv
  <2>2. \A m, n \in DOMAIN harmonyChain' :
           m # n => harmonyChain'[m].burns \cap harmonyChain'[n].burns = {}
    <3>1. block.burns = burns
      OBVIOUS
    <3> HIDE DEF block
    <3> QED BY <1>3, <1>4, <3>1 DEF ChainInv
  <2> QED BY <1>3, <2>1, <2>2 DEF ChainInv
<1>6. Range(harmonyChain) \subseteq Range(harmonyChain')
  BY <1>3 DEF Range
<1>7. ClientOnEthereumInv'
  BY <1>1, <1>6 DEF ClientOnEthereumInv
<1>8. UnlockedInv'
  BY <1>1, <1>6 DEF UnlockedInv
<1> QED BY <1>5, <1>7, <1>8

-----------------------------------------------------------------------------
(* The lockers. *)

\* The spent receipt keeps a lock from being minted again from the same height.
LEMMA ExecuteLockOnce ==
  ASSUME TreeInv, MintedInv, NEW l \in Locks, ExecuteLock(l)
  PROVE  MintedInv'
<1>1. PICK n \in Heights, header \in Headers : ExecuteOnHarmony(n, header.receipts, l)
  BY DEF ExecuteLock, Heights
<1> DEFINE hash == Head(blocksByHeight[n])
           receipt == ReceiptHash(hash, header.receipts, l)
<1>2. /\ blocksByHeight[n] # <<>> /\ Taken(n).receipts = header.receipts
      /\ l \in header.receipts
      /\ receipt \notin spentOnHarmony /\ spentOnHarmony' = spentOnHarmony \cup {receipt}
      /\ minted' = [minted EXCEPT ![l] = @ + 1]
      /\ UNCHANGED <<blocks, blocksByHeight>>
  BY <1>1 DEF ExecuteOnHarmony, BlockAt, Taken, Spend, VerifyReceiptsHash, clientVars, vars
<1>3. Taken(n)' = Taken(n) /\ \A m \in Heights : Taken(m)' = Taken(m)
  BY <1>2 DEF Taken
<1>4. \A k \in Locks : SpentAt(k) \subseteq SpentAt(k)'
  BY <1>2, <1>3 DEF SpentAt
<1>5. n \notin SpentAt(l) /\ n \in SpentAt(l)'
  BY <1>2, <1>3 DEF SpentAt
<1>6. ASSUME NEW k \in Locks
      PROVE  /\ IsFiniteSet(SpentAt(k)) /\ IsFiniteSet(SpentAt(k)')
             /\ Cardinality(SpentAt(k)) \in Nat /\ Cardinality(SpentAt(k)') \in Nat
             /\ Cardinality(SpentAt(k)) <= Cardinality(SpentAt(k)')
  <2>1. IsFiniteSet(SpentAt(k))
    BY SpentIsFinite
  <2>2. IsFiniteSet(SpentAt(k)')
    <3>1. SpentAt(k)' \subseteq {m \in Heights : blocksByHeight[m] # <<>>}
      BY <1>2 DEF SpentAt
    <3> QED BY <3>1, HeightsTaken, FS_Subset
  <2> QED BY <1>4, <2>1, <2>2, FS_Subset, FS_CardinalityType
<1>7. Cardinality(SpentAt(l)) + 1 <= Cardinality(SpentAt(l)')
  <2>1. Cardinality(SpentAt(l) \cup {n}) = Cardinality(SpentAt(l)) + 1
    BY <1>5, <1>6, FS_AddElement
  <2>2. SpentAt(l) \cup {n} \subseteq SpentAt(l)'
    BY <1>4, <1>5
  <2> QED BY <1>6, <2>1, <2>2, FS_Subset
<1>8. minted' \in [Locks -> Nat]
  BY <1>2 DEF MintedInv
<1>9. ASSUME NEW k \in Locks PROVE minted'[k] <= Cardinality(SpentAt(k)')
  <2>1. minted[k] \in Nat /\ minted[k] <= Cardinality(SpentAt(k))
    BY DEF MintedInv
  <2>2. CASE k = l
    <3>1. minted'[l] = minted[l] + 1
      BY <1>2 DEF MintedInv
    <3> QED BY <1>6, <1>7, <2>1, <2>2, <3>1
  <2>3. CASE k # l
    <3>1. minted'[k] = minted[k]
      BY <1>2, <2>3 DEF MintedInv
    <3> QED BY <1>6, <2>1, <3>1
  <2> QED BY <2>2, <2>3
<1>10. \A h, root, k : ReceiptHash(h, root, k) \in spentOnHarmony' => k \in root
  BY <1>2 DEF MintedInv, ReceiptHash
<1> QED BY <1>8, <1>9, <1>10 DEF MintedInv

\* Whatever checkpoint a burn is proved against, the block that has it is the same.
LEMMA ExecuteBurnOnce ==
  ASSUME ChainInv, ClientOnEthereumInv, UnlockedInv,
         NEW b \in Burns \cup {Forged}, ExecuteBurn(b)
  PROVE  UnlockedInv'
<1>1. PICK header \in KnownBlocks, root \in KnownRoots : ExecuteOnEthereum(header, root, b)
  BY DEF ExecuteBurn
<1>2. /\ root \in epochMmrRoots[header.epoch] /\ Contains(root, header) /\ b \in header.burns
      /\ ReceiptHash(header, header.burns, b) \notin spentOnEthereum
      /\ spentOnEthereum' = spentOnEthereum \cup {ReceiptHash(header, header.burns, b)}
      /\ unlocked' = [unlocked EXCEPT ![b] = @ + 1]
      /\ harmonyChain' = harmonyChain
  BY <1>1 DEF ExecuteOnEthereum, Spend, H!IsValidCheckPoint
<1>3. header.epoch \in Epochs
  <2>1. CASE header \in Range(harmonyChain)
    <3>1. PICK n \in DOMAIN harmonyChain : header = harmonyChain[n]
      BY <2>1 DEF Range
    <3>2. header \in HarmonyBlocks
      BY <3>1 DEF ChainInv
    <3> QED BY <3>2 DEF HarmonyBlocks
  <2>2. CASE header = ForgedBlock
    BY <2>2, BridgeAssumption DEF ForgedBlock
  <2> QED BY <2>1, <2>2 DEF KnownBlocks
<1>4. header \in Range(harmonyChain)
  BY <1>2, <1>3 DEF ClientOnEthereumInv, Contains
<1>5. unlocked[b] = 0
  <2> SUFFICES ASSUME unlocked[b] = 1 PROVE FALSE
    BY DEF UnlockedInv
  <2>1. PICK block \in Range(harmonyChain) :
           b \in block.burns /\ ReceiptHash(block, block.burns, b) \in spentOnEthereum
    BY DEF UnlockedInv
  <2>2. PICK m \in DOMAIN harmonyChain, n \in DOMAIN harmonyChain :
           block = harmonyChain[m] /\ header = harmonyChain[n]
    BY <1>4, <2>1 DEF Range
  <2>3. m = n
    BY <1>2, <2>1, <2>2 DEF ChainInv
  <2> QED BY <1>2, <2>1, <2>2, <2>3
<1>6. unlocked' \in [Burns \cup {Forged} -> {0, 1}]
  BY <1>2, <1>5 DEF UnlockedInv
<1>7. ASSUME NEW k \in Burns \cup {Forged}, unlocked'[k] = 1
      PROVE  \E block \in Range(harmonyChain) :
                k \in block.burns /\ ReceiptHash(block, block.burns, k) \in spentOnEthereum'
  <2>1. CASE k = b
    BY <1>2, <1>4, <2>1
  <2>2. CASE k # b
    <3>1. unlocked[k] = 1
      BY <1>2, <1>7, <2>2 DEF UnlockedInv
    <3> QED BY <1>2, <3>1 DEF UnlockedInv
  <2> QED BY <2>1, <2>2
<1> QED BY <1>2, <1>6, <1>7 DEF UnlockedInv

-----------------------------------------------------------------------------
LEMMA NextBridge == BridgeInv /\ [BridgeNext]_bridgeVars => BridgeInv'
<1> SUFFICES ASSUME BridgeInv, [BridgeNext]_bridgeVars PROVE BridgeInv'
  OBVIOUS
<1> USE DEF BridgeInv
<1>1. UNCHANGED <<mintVars, vars>> => MintedInv'
  BY DEF mintVars, vars, MintedInv, SpentAt, Taken
<1>2. UNCHANGED harmonyChain => ChainInv'
  BY DEF ChainInv
<1>3. UNCHANGED <<harmonyVars, harmonyChain>> => ClientOnEthereumInv'
  BY DEF harmonyVars, ClientOnEthereumInv
<1>4. UNCHANGED <<unlockVars, harmonyChain>> => UnlockedInv'
  BY DEF unlockVars, UnlockedInv
<1>5. UNCHANGED vars => TreeInv'
  BY TreeStays
<1>6. ASSUME NEW part, Link(part) PROVE BridgeInv'
  BY <1>1, <1>2, <1>3, <1>4, <1>5, <1>6 DEF Link, clientVars
<1>7. ASSUME NEW epoch \in Epochs, NEW burns \in SUBSET Burns, MineOnHarmony(epoch, burns)
      PROVE  BridgeInv'
  BY <1>1, <1>5, <1>7, MineKeepsBridge DEF MineOnHarmony, clientVars
<1>8. ASSUME NEW header \in Headers, RelayToHarmony(header) PROVE BridgeInv'
  BY <1>2, <1>3, <1>4, <1>8, RelayKeepsMinted DEF RelayToHarmony
<1>9. ASSUME NEW sender \in Accounts, NEW header \in Offers(sender),
             RelayToEthereum(sender, header)
      PROVE  BridgeInv'
  BY <1>1, <1>2, <1>4, <1>5, <1>9, SubmitKeepsRoots DEF RelayToEthereum
<1>10. ASSUME NEW sender \in Accounts, Administer(sender) PROVE BridgeInv'
  BY <1>1, <1>2, <1>4, <1>5, <1>10, AdministerKeepsHonest DEF Administer
<1>11. ASSUME NEW l \in Locks, ExecuteLock(l) PROVE BridgeInv'
  BY <1>2, <1>3, <1>4, <1>5, <1>11, ExecuteLockOnce DEF ExecuteLock, ExecuteOnHarmony, clientVars
<1>12. ASSUME NEW b \in Burns \cup {Forged}, ExecuteBurn(b) PROVE BridgeInv'
  BY <1>1, <1>2, <1>3, <1>5, <1>12, ExecuteBurnOnce DEF ExecuteBurn, ExecuteOnEthereum, clientVars
<1>13. CASE UNCHANGED bridgeVars
  BY <1>1, <1>2, <1>3, <1>4, <1>5, <1>13 DEF bridgeVars, clientVars
<1> QED BY <1>6, <1>7, <1>8, <1>9, <1>10, <1>11, <1>12, <1>13 DEF BridgeNext, RelayToEthereumBy

-----------------------------------------------------------------------------
\* A receipt is left under a block that has the lock; and canonical blocks share none.
LEMMA InvExecuted == BridgeInv => ExecutedOnce
<1> SUFFICES ASSUME BridgeInv PROVE ExecutedOnce
  OBVIOUS
<1>1. ASSUME NEW l \in Locks
      PROVE  /\ minted[l] \in Nat /\ Cardinality(TakenAt(l)) \in Nat
             /\ minted[l] <= Cardinality(TakenAt(l))
  <2>1. SpentAt(l) \subseteq TakenAt(l)
    BY DEF SpentAt, TakenAt, BridgeInv, MintedInv
  <2>2. IsFiniteSet(SpentAt(l)) /\ IsFiniteSet(TakenAt(l))
    BY SpentIsFinite DEF BridgeInv
  <2>3. /\ Cardinality(SpentAt(l)) <= Cardinality(TakenAt(l))
        /\ Cardinality(SpentAt(l)) \in Nat /\ Cardinality(TakenAt(l)) \in Nat
    BY <2>1, <2>2, FS_Subset, FS_CardinalityType
  <2> QED BY <2>3 DEF BridgeInv, MintedInv
<1>2. ASSUME CanonicalFirst, NEW l \in Locks, minted[l] > 0
      PROVE  minted[l] = 1 /\ \E h \in Canonical : l \in h.receipts
  <2>1. TakenAt(l) # {}
    BY <1>1, <1>2, FS_EmptySet
  <2>2. PICK n \in TakenAt(l) : TRUE
    BY <2>1
  <2>3. \A m \in TakenAt(l) :
           Taken(m) \in Canonical /\ l \in Taken(m).receipts /\ Taken(m).number = m
    BY <1>2, TakenIs DEF TakenAt, CanonicalFirst, BridgeInv
  <2>4. ASSUME NEW m \in TakenAt(l) PROVE m = n
    <3>1. Taken(m) = Taken(n)
      BY <2>2, <2>3, BridgeAssumption
    <3> QED BY <2>2, <2>3, <3>1
  <2>5. TakenAt(l) = {n}
    BY <2>2, <2>4
  <2>6. Cardinality(TakenAt(l)) = 1
    BY <2>5, FS_Singleton
  <2> QED BY <1>1, <1>2, <2>2, <2>3, <2>6
<1>3. ASSUME NEW b \in DOMAIN unlocked, unlocked[b] > 0
      PROVE  unlocked[b] = 1 /\ b \in Burned
  BY <1>3 DEF BridgeInv, UnlockedInv, Burned
<1> QED BY <1>1, <1>2, <1>3 DEF ExecutedOnce

\* However relayed and whatever fork comes first, across proofs presented again or
\* against other checkpoints, and roles taken away, a lock is executed at most once for
\* every height it was taken from, once and only if settled when those blocks are
\* canonical; and a burn once, only if it happened.
THEOREM LocksAndBurnsExecuteOnce == BridgeSpec => []ExecutedOnce
<1>1. BridgeInit => BridgeInv
  BY InitBridge
<1>2. BridgeInv /\ [BridgeNext]_bridgeVars => BridgeInv'
  BY NextBridge
<1>3. BridgeInv => ExecutedOnce
  BY InvExecuted
<1> QED BY <1>1, <1>2, <1>3, PTL DEF BridgeSpec
=============================================================================
