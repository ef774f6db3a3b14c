-------------------------- MODULE NearBridge_proofs --------------------------
(***************************************************************************)
(* Proofs about NearBridge, for every set of accounts, blocks and heights, *)
(* every lock amount and every pair of durations the constructor accepts;  *)
(* then about NearBridgeWatched: only the part after the second heading    *)
(* makes use of a watcher, or cites an assumption about one.               *)
(***************************************************************************)
EXTENDS NearBridgeWatched, DataInduction

\* A pending block is a real one of a real submitter, above the confirmed head.
PendingInv ==
    lastValidAt # 0 =>
        /\ initialized
        /\ untrusted \in Blocks
        /\ lastSubmitter \in Accounts
        /\ untrusted.height > curHeight

\* Nothing is stored above the confirmed head, nor before initialization.
StoredInv ==
    \A h \in Heights : blocks_[h] # NoBlock => initialized /\ h <= curHeight

IInv == TypeOK /\ PendingInv /\ StoredInv /\ BondLocked

-----------------------------------------------------------------------------
(* Facts about the operators the actions are built from. *)

\* The head is one of the ring's slots.
LEMMA SlotsInRing ==
    ASSUME curEpoch \in 0..2
    PROVE  HeadEpoch \in 0..2 /\ RingSlot(1) \in 0..2 /\ RingSlot(2) \in 0..2
BY DEF HeadEpoch, RingSlot

\* A block is of exactly the kind BlockAssumption describes.
LEMMA BlockFields ==
    ASSUME NEW b \in Blocks \cup InitBlocks
    PROVE  /\ b # NoBlock /\ b.height \in Heights /\ b.height \in Nat
           /\ b.timestamp \in Nat
           /\ b.epochId \in EpochIds /\ b.nextEpochId \in EpochIds
           /\ b.nextBps # NoBPs => b.nextBps \in BpsLists
BY BlockAssumption DEF EpochIds, BpsLists

\* Writing an epoch keeps the ring a ring.
LEMMA RingTyped ==
    ASSUME NEW ring \in [0..2 -> [epochId : EpochIds, bps : BpsLists]],
           NEW slot \in 0..2, NEW id \in EpochIds, NEW bps \in BpsLists
    PROVE  SetBlockProducers(ring, slot, id, bps)
               \in [0..2 -> [epochId : EpochIds, bps : BpsLists]]
BY DEF SetBlockProducers

-----------------------------------------------------------------------------
(* One lemma per action: IInv is preserved. *)

LEMMA InitIInv == Init => IInv
<1> SUFFICES ASSUME Init PROVE IInv
  OBVIOUS
<1>1. epochs \in [0..2 -> [epochId : EpochIds, bps : BpsLists]]
  <2>1. NoEpochId \in EpochIds /\ <<>> \in BpsLists
    BY DEF EpochIds, BpsLists
  <2> QED BY <2>1 DEF Init
<1>2. /\ balanceOf \in [Accounts \cup {NoAccount} -> {0, lockEthAmount}]
      /\ wallet \in [Accounts -> Nat]
      /\ blocks_ \in [Heights -> Blocks \cup InitBlocks \cup {NoBlock}]
  BY AmountAssumption DEF Init
<1>3. TypeOK
  <2>1. now \in Nat /\ lastValidAt \in Nat /\ curHeight \in Nat /\ curEpoch \in 0..2
        /\ held \in Nat
    BY DEF Init
  <2>2. /\ untrusted \in Blocks \cup {NoBlock} /\ untrustedNextEpoch \in BOOLEAN
        /\ untrustedSignatureSet \subseteq Nat
        /\ lastSubmitter \in Accounts \cup {NoAccount} /\ initialized \in BOOLEAN
    BY DEF Init
  <2>3. paused \in {{}} \cup PauseConfigs
    BY DEF Init
  <2> QED BY <1>1, <1>2, <2>1, <2>2, <2>3 DEF TypeOK
<1>4. PendingInv /\ StoredInv /\ BondLocked
  BY DEF Init, PendingInv, StoredInv, BondLocked, Unconfirmed
<1> QED BY <1>3, <1>4 DEF IInv

LEMMA DepositIInv ==
    ASSUME IInv, NEW a \in Accounts, Deposit(a)
    PROVE  IInv'
<1>1. TypeOK'
  BY AmountAssumption DEF IInv, TypeOK, Deposit, headVars
<1>2. PendingInv' /\ StoredInv'
  BY DEF IInv, PendingInv, StoredInv, Deposit, headVars
<1>3. BondLocked'
  BY AmountAssumption DEF IInv, TypeOK, BondLocked, Unconfirmed, Deposit, headVars
<1> QED BY <1>1, <1>2, <1>3 DEF IInv

LEMMA WithdrawIInv ==
    ASSUME IInv, NEW a \in Accounts, Withdraw(a)
    PROVE  IInv'
<1>1. TypeOK'
  BY AmountAssumption DEF IInv, TypeOK, Withdraw, headVars
<1>2. PendingInv' /\ StoredInv'
  BY DEF IInv, PendingInv, StoredInv, Withdraw, headVars
<1>3. BondLocked'
  BY DEF IInv, TypeOK, BondLocked, Unconfirmed, Withdraw, MayWithdraw, headVars
<1> QED BY <1>1, <1>2, <1>3 DEF IInv

LEMMA ChallengeIInv ==
    ASSUME IInv, NEW a \in Accounts, NEW i, Challenge(a, i)
    PROVE  IInv'
<1>1. lastSubmitter \in Accounts /\ balanceOf[lastSubmitter] = lockEthAmount
  BY AmountAssumption, AccountAssumption
     DEF IInv, TypeOK, PendingInv, Challenge, Unconfirmed
<1>2. balanceOf' \in [Accounts \cup {NoAccount} -> {0, lockEthAmount}]
  BY <1>1, AmountAssumption DEF IInv, TypeOK, Challenge, Slashed
<1>3. wallet' \in [Accounts -> Nat] /\ held' \in Nat
  <2>1. lockEthAmount \div 2 \in Nat
    BY AmountAssumption
  <2> QED BY <2>1 DEF IInv, TypeOK, Challenge
<1>4. TypeOK'
  BY <1>2, <1>3 DEF IInv, TypeOK, Challenge
<1>5. PendingInv' /\ StoredInv'
  BY DEF IInv, PendingInv, StoredInv, Challenge
<1>6. BondLocked'
  BY DEF IInv, TypeOK, BondLocked, Unconfirmed, Challenge
<1> QED BY <1>4, <1>5, <1>6 DEF IInv

LEMMA InitWithValidatorsIInv ==
    ASSUME IInv, NEW bps \in ValidatorSets, InitWithValidators(bps)
    PROVE  IInv'
<1>1. epochs' \in [0..2 -> [epochId : EpochIds, bps : BpsLists]]
  <2>1. bps \in BpsLists
    BY DEF BpsLists
  <2>2. epochs[0].epochId \in EpochIds /\ 0 \in 0..2
    BY DEF IInv, TypeOK
  <2>3. epochs \in [0..2 -> [epochId : EpochIds, bps : BpsLists]]
    BY DEF IInv, TypeOK
  <2>4. epochs' = SetBlockProducers(epochs, 0, epochs[0].epochId, bps)
    BY DEF InitWithValidators
  <2> QED BY <2>1, <2>2, <2>3, <2>4 DEF SetBlockProducers
<1>2. TypeOK'
  BY <1>1 DEF IInv, TypeOK, InitWithValidators, moneyVars
<1>3. PendingInv' /\ StoredInv' /\ BondLocked'
  BY DEF IInv, PendingInv, StoredInv, BondLocked, Unconfirmed,
         InitWithValidators, moneyVars
<1> QED BY <1>2, <1>3 DEF IInv

LEMMA InitWithBlockIInv ==
    ASSUME IInv, NEW b \in InitBlocks, InitWithBlock(b)
    PROVE  IInv'
<1>1. b \in Blocks \cup InitBlocks
  OBVIOUS
<1>2. epochs' \in [0..2 -> [epochId : EpochIds, bps : BpsLists]]
  <2>1. [epochs EXCEPT ![0].epochId = b.epochId]
            \in [0..2 -> [epochId : EpochIds, bps : BpsLists]]
    BY <1>1, BlockFields DEF IInv, TypeOK
  <2>2. b.nextEpochId \in EpochIds /\ b.nextBps \in BpsLists
    BY <1>1, BlockFields DEF InitWithBlock
  <2>3. epochs' = SetBlockProducers([epochs EXCEPT ![0].epochId = b.epochId],
                                    1, b.nextEpochId, b.nextBps)
    BY DEF InitWithBlock
  <2> QED BY <2>1, <2>2, <2>3 DEF SetBlockProducers
<1>3. TypeOK'
  BY <1>1, <1>2, BlockFields DEF IInv, TypeOK, InitWithBlock, moneyVars
<1>4. lastValidAt = 0
  BY DEF IInv, PendingInv, InitWithBlock
<1>5. PendingInv' /\ BondLocked'
  BY <1>4 DEF IInv, TypeOK, PendingInv, BondLocked, Unconfirmed, InitWithBlock
<1>6. StoredInv'
  BY <1>1, BlockFields DEF IInv, TypeOK, StoredInv, InitWithBlock
<1> QED BY <1>3, <1>5, <1>6 DEF IInv

LEMMA AddLightClientBlockIInv ==
    ASSUME IInv, NEW a \in Accounts, NEW b \in Blocks, AddLightClientBlock(a, b)
    PROVE  IInv'
<1>1. b \in Blocks \cup InitBlocks
  OBVIOUS
<1>2. epochs' \in [0..2 -> [epochId : EpochIds, bps : BpsLists]]
  <2>1. epochs \in [0..2 -> [epochId : EpochIds, bps : BpsLists]] /\ curEpoch \in 0..2
    BY DEF IInv, TypeOK
  <2>2. \/ epochs' = epochs
        \/ /\ b.nextBps # NoBPs
           /\ epochs' = SetBlockProducers(epochs, RingSlot(2), b.nextEpochId, b.nextBps)
    BY DEF AddLightClientBlock, DeclaresNextBps
  <2> QED BY <1>1, <2>1, <2>2, BlockFields, SlotsInRing, RingTyped
<1>3. HeadHeight \in Nat /\ HeadEpoch \in 0..2
  <2>1. Confirmable => untrusted.height \in Nat
    BY BlockFields DEF IInv, PendingInv, Confirmable
  <2> QED BY <2>1, SlotsInRing DEF IInv, TypeOK, HeadHeight
<1>4. untrustedSignatureSet' \subseteq Nat /\ untrustedNextEpoch' \in BOOLEAN
  BY DEF AddLightClientBlock, SignatureSet
<1>5. lastValidAt' \in Nat
  BY DurationAssumption DEF IInv, TypeOK, AddLightClientBlock
<1>6. blocks_' \in [Heights -> Blocks \cup InitBlocks \cup {NoBlock}]
  BY DEF IInv, TypeOK, AddLightClientBlock
<1>7. TypeOK'
  BY <1>2, <1>3, <1>4, <1>5, <1>6 DEF IInv, TypeOK, AddLightClientBlock, moneyVars
<1>8. PendingInv'
  BY DEF AddLightClientBlock, PendingInv, moneyVars
<1>9. StoredInv'
  <2> SUFFICES ASSUME NEW h \in Heights, blocks_'[h] # NoBlock
               PROVE  initialized' /\ h <= curHeight'
    BY DEF StoredInv
  <2>1. h \in Nat /\ curHeight \in Nat
    BY BlockAssumption DEF IInv, TypeOK
  <2>2. CASE Confirmable
    <3>1. /\ untrusted.height \in Nat /\ untrusted.height > curHeight
          /\ curHeight' = untrusted.height
          /\ blocks_' = [blocks_ EXCEPT ![untrusted.height] = untrusted]
      BY <2>2, BlockFields
         DEF IInv, PendingInv, Confirmable, AddLightClientBlock, HeadHeight
    <3>2. h = untrusted.height \/ blocks_[h] # NoBlock
      BY <3>1 DEF IInv, TypeOK
    <3> QED BY <2>1, <3>1, <3>2 DEF IInv, StoredInv, AddLightClientBlock
  <2>3. CASE ~ Confirmable
    BY <2>3 DEF IInv, StoredInv, AddLightClientBlock, HeadHeight
  <2> QED BY <2>2, <2>3
<1>10. BondLocked'
  BY DEF BondLocked, AddLightClientBlock, moneyVars
<1> QED BY <1>7, <1>8, <1>9, <1>10 DEF IInv

LEMMA WorldIInv ==
    ASSUME IInv, Tick \/ AdminPause \/ UNCHANGED vars
    PROVE  IInv'
<1>1. CASE Tick
  BY <1>1 DEF Tick, IInv, TypeOK, PendingInv, StoredInv, BondLocked, Unconfirmed,
              headVars, moneyVars
<1>2. CASE AdminPause
  BY <1>2 DEF AdminPause, IInv, TypeOK, PendingInv, StoredInv, BondLocked,
              Unconfirmed, headVars, moneyVars
<1>3. CASE UNCHANGED vars
  BY <1>3 DEF vars, IInv, TypeOK, PendingInv, StoredInv, BondLocked, Unconfirmed,
              headVars, moneyVars
<1> QED BY <1>1, <1>2, <1>3

LEMMA NextIInv == IInv /\ [Next]_vars => IInv'
<1> SUFFICES ASSUME IInv, [Next]_vars PROVE IInv'
  OBVIOUS
<1>1. ASSUME NEW a \in Accounts, Deposit(a) \/ Withdraw(a) PROVE IInv'
  BY <1>1, DepositIInv, WithdrawIInv
<1>2. ASSUME NEW a \in Accounts, NEW i \in 1..MAX_BLOCK_PRODUCERS, Challenge(a, i)
      PROVE  IInv'
  BY <1>2, ChallengeIInv
<1>3. ASSUME NEW bps \in ValidatorSets, InitWithValidators(bps) PROVE IInv'
  BY <1>3, InitWithValidatorsIInv
<1>4. ASSUME NEW b \in InitBlocks, InitWithBlock(b) PROVE IInv'
  BY <1>4, InitWithBlockIInv
<1>5. ASSUME NEW a \in Accounts, NEW b \in Blocks, AddLightClientBlock(a, b)
      PROVE  IInv'
  BY <1>5, AddLightClientBlockIInv
<1> QED BY <1>1, <1>2, <1>3, <1>4, <1>5, WorldIInv DEF Next, Transaction

-----------------------------------------------------------------------------
\* Every reachable state of the contract satisfies the inductive invariant.
THEOREM SpecIInv == Spec => []IInv
BY InitIInv, NextIInv, PTL DEF Spec

\* Type correctness of the contract.
THEOREM TypeCorrect == Spec => []TypeOK
<1>1. IInv => TypeOK
  BY DEF IInv
<1> QED BY <1>1, SpecIInv, PTL

\* The bond of a relayer whose block may be challenged is still in the contract:
\* withdraw cannot release it, nor can a challenge find it gone.
THEOREM BondIsLocked == Spec => []BondLocked
<1>1. IInv => BondLocked
  BY DEF IInv
<1> QED BY <1>1, SpecIInv, PTL

-----------------------------------------------------------------------------
\* While a block may be challenged, the views answer from storage only; a stored
\* block is never NoBlock's.
LEMMA StepIsFinal ==
    ASSUME IInv, [Next]_vars, NEW h \in Heights, BlockHashes(h) # NoBlock
    PROVE  BlockHashes(h)' = BlockHashes(h)
<1>1. ASSUME NEW a \in Accounts, NEW b \in Blocks, AddLightClientBlock(a, b)
      PROVE  BlockHashes(h)' = BlockHashes(h)
  <2>1. blocks_'[h] = BlockHashes(h)
    <3>1. CASE Confirmable
      <4>1. /\ blocks_' = [blocks_ EXCEPT ![untrusted.height] = untrusted]
            /\ untrusted.height > curHeight /\ untrusted.height \in Heights
            /\ untrusted.height \in Nat /\ curHeight \in Nat
        BY <1>1, <3>1, BlockFields
           DEF IInv, TypeOK, PendingInv, Confirmable, AddLightClientBlock
      <4>2. blocks_[untrusted.height] = NoBlock
        BY <4>1 DEF IInv, StoredInv
      <4>3. CASE h = untrusted.height
        BY <3>1, <4>1, <4>2, <4>3 DEF BlockHashes, IInv, TypeOK
      <4>4. CASE h # untrusted.height
        BY <4>1, <4>4 DEF BlockHashes, IInv, TypeOK
      <4> QED BY <4>3, <4>4
    <3>2. CASE ~ Confirmable
      BY <1>1, <3>2 DEF BlockHashes, AddLightClientBlock
    <3> QED BY <3>1, <3>2
  <2> QED BY <2>1 DEF BlockHashes
<1>2. ASSUME NEW a \in Accounts, NEW i, Challenge(a, i)
      PROVE  BlockHashes(h)' = BlockHashes(h)
  <2>1. ~ Confirmable /\ ~ Confirmable' /\ blocks_' = blocks_
    BY <1>2 DEF IInv, TypeOK, Challenge, Unconfirmed, Confirmable
  <2> QED BY <2>1 DEF BlockHashes
<1>3. ASSUME NEW b \in InitBlocks, InitWithBlock(b) PROVE FALSE
  <2>1. lastValidAt = 0 /\ blocks_[h] = NoBlock
    BY <1>3 DEF IInv, PendingInv, StoredInv, InitWithBlock
  <2> QED BY <2>1 DEF BlockHashes, Confirmable
<1>4. ASSUME NEW a \in Accounts, Deposit(a) \/ Withdraw(a)
      PROVE  BlockHashes(h)' = BlockHashes(h)
  BY <1>4 DEF BlockHashes, Confirmable, Deposit, Withdraw, headVars
<1>5. ASSUME NEW bps \in ValidatorSets, InitWithValidators(bps)
      PROVE  BlockHashes(h)' = BlockHashes(h)
  BY <1>5 DEF BlockHashes, Confirmable, InitWithValidators
<1>6. CASE Tick
  <2>1. /\ now \in Nat /\ lastValidAt \in Nat /\ now' = now + 1
        /\ UNCHANGED <<lastValidAt, untrusted, blocks_>>
    BY <1>6 DEF Tick, headVars, IInv, TypeOK
  <2>2. CASE blocks_[h] # NoBlock
    BY <2>1, <2>2 DEF BlockHashes
  <2>3. CASE blocks_[h] = NoBlock
    <3>1. Confirmable /\ h = untrusted.height
      BY <2>3 DEF BlockHashes
    <3>2. Confirmable'
      BY <2>1, <3>1 DEF Confirmable
    <3> QED BY <2>1, <2>3, <3>1, <3>2 DEF BlockHashes
  <2> QED BY <2>2, <2>3
<1>7. CASE AdminPause \/ UNCHANGED vars
  BY <1>7 DEF BlockHashes, Confirmable, AdminPause, vars, headVars
<1> QED BY <1>1, <1>2, <1>3, <1>4, <1>5, <1>6, <1>7 DEF Next, Transaction

\* Finality: what blockHashes and blockMerkleRoots once answered for a height they
\* answer for ever.
THEOREM FinalityOfViews == Spec => VerifiedIsFinal
<1>1. IInv /\ [Next]_vars
      => [\A h \in Heights : BlockHashes(h) # NoBlock
                              => BlockHashes(h)' = BlockHashes(h)]_vars
  BY StepIsFinal
<1> QED BY <1>1, SpecIInv, PTL DEF Spec, VerifiedIsFinal

-----------------------------------------------------------------------------
\* What the constructor's require amounts to: a timestamp no older than the
\* submission, moved on by replaceDuration, lies after the end of the period.
LEMMA ReplaceDurationOutlastsPeriod ==
    ASSUME NEW valid \in Nat, NEW t \in Nat, t < valid, NEW ts \in Nat,
           ts >= (valid - lockDuration) * NanosPerSecond
    PROVE  ts + replaceDuration > t * NanosPerSecond
<1>1. (valid - lockDuration) * NanosPerSecond + lockDuration * NanosPerSecond
        = valid * NanosPerSecond
  BY DurationAssumption
<1>2. t * NanosPerSecond <= valid * NanosPerSecond
  BY DurationAssumption
<1> QED
  <2> DEFINE p == lockDuration * NanosPerSecond
             q == (valid - lockDuration) * NanosPerSecond
             r == valid * NanosPerSecond
             s == t * NanosPerSecond
  <2>1. p \in Int /\ q \in Int /\ r \in Int /\ s \in Int
    BY DurationAssumption
  <2>2. q + p = r /\ s <= r /\ ts >= q /\ replaceDuration > p /\ replaceDuration \in Nat
    BY <1>1, <1>2, DurationAssumption
  <2> HIDE DEF p, q, r, s
  <2>3. ts + replaceDuration > s
    BY <2>1, <2>2
  <2> QED BY <2>3 DEF s

\* An unconfirmed block no older than its submission is only replaced by a block
\* from the future.
THEOREM FreshBlocksStay == Spec => FreshIsNotReplaced
<1>1. ASSUME IInv, [Next]_vars, Unconfirmed, lastValidAt' # 0, untrusted' # untrusted
      PROVE  \/ untrusted.timestamp < (lastValidAt - lockDuration) * NanosPerSecond
             \/ untrusted'.timestamp > now * NanosPerSecond
  <2>1. PICK a \in Accounts, b \in Blocks : AddLightClientBlock(a, b)
    BY <1>1 DEF Next, Transaction, Deposit, Withdraw, Challenge, InitWithValidators,
                InitWithBlock, Tick, AdminPause, vars, headVars
  <2>2. now \in Nat /\ lastValidAt \in Nat /\ now < lastValidAt
    BY <1>1 DEF IInv, TypeOK, Unconfirmed
  <2>3. untrusted.timestamp \in Nat /\ b.timestamp \in Nat
    <3>1. untrusted \in Blocks
      BY <1>1, <2>2 DEF IInv, PendingInv
    <3> QED BY <3>1, BlockFields
  <2>4. untrusted' = b /\ b.timestamp >= untrusted.timestamp + replaceDuration
    BY <1>1, <2>1 DEF AddLightClientBlock, MayReplace
  <2>5. (lastValidAt - lockDuration) * NanosPerSecond \in Int /\ now * NanosPerSecond \in Int
    BY <2>2, DurationAssumption
  <2>6. CASE untrusted.timestamp >= (lastValidAt - lockDuration) * NanosPerSecond
    <3>1. untrusted.timestamp + replaceDuration > now * NanosPerSecond
      BY <2>2, <2>3, <2>6, ReplaceDurationOutlastsPeriod
    <3> QED
      <4> DEFINE s == now * NanosPerSecond
      <4>1. s \in Int /\ untrusted.timestamp + replaceDuration > s
        BY <2>5, <3>1
      <4> HIDE DEF s
      <4>2. b.timestamp > s
        BY <2>3, <2>4, <4>1, DurationAssumption
      <4> QED BY <2>4, <4>2 DEF s
  <2>7. CASE ~ (untrusted.timestamp >= (lastValidAt - lockDuration) * NanosPerSecond)
    <3> DEFINE q == (lastValidAt - lockDuration) * NanosPerSecond
    <3>1. q \in Int /\ ~ (untrusted.timestamp >= q)
      BY <2>5, <2>7
    <3> HIDE DEF q
    <3>2. untrusted.timestamp < q
      BY <2>3, <3>1
    <3> QED BY <3>2 DEF q
  <2> QED BY <2>6, <2>7
<1>2. IInv /\ [Next]_vars
      => [ (Unconfirmed /\ lastValidAt' # 0 /\ untrusted' # untrusted)
           => \/ untrusted.timestamp < (lastValidAt - lockDuration) * NanosPerSecond
              \/ untrusted'.timestamp > now * NanosPerSecond ]_vars
  BY <1>1
<1> QED BY <1>2, SpecIInv, PTL DEF Spec, FreshIsNotReplaced

-----------------------------------------------------------------------------
(* The contract's ETH. *)

SolventInv == IInv /\ Solvent

LEMMA DepositorsFinite ==
    /\ IsFiniteSet(Depositors) /\ Cardinality(Depositors) \in Nat
    /\ IsFiniteSet(Depositors') /\ Cardinality(Depositors') \in Nat
BY AccountAssumption, FS_Subset, FS_CardinalityType DEF Depositors

\* One bond more or one bond less.
LEMMA BondArithmetic ==
    ASSUME NEW n \in Nat
    PROVE  /\ lockEthAmount * (n + 1) = lockEthAmount * n + lockEthAmount
           /\ lockEthAmount * n \in Nat
BY AmountAssumption

\* An account that has no deposit gets one.
LEMMA OneMoreDepositor ==
    ASSUME IInv, NEW a \in Accounts, a \notin Depositors, lockEthAmount # 0,
           balanceOf' = [balanceOf EXCEPT ![a] = lockEthAmount]
    PROVE  Cardinality(Depositors') = Cardinality(Depositors) + 1
<1>1. Depositors' = Depositors \cup {a}
  BY AmountAssumption DEF Depositors, IInv, TypeOK
<1> QED BY <1>1, DepositorsFinite, FS_AddElement

\* An account that has a deposit loses it.
LEMMA OneDepositorLess ==
    ASSUME IInv, NEW a \in Accounts, a \in Depositors,
           balanceOf' = [balanceOf EXCEPT ![a] = 0]
    PROVE  Cardinality(Depositors) = Cardinality(Depositors') + 1
<1>1. Depositors' = Depositors \ {a}
  BY DEF Depositors, IInv, TypeOK
<1>2. Cardinality(Depositors \ {a}) = Cardinality(Depositors) - 1
  BY DepositorsFinite, FS_RemoveElement
<1> QED BY <1>1, <1>2, DepositorsFinite

LEMMA InitSolvent == Init => Solvent
<1> SUFFICES ASSUME Init PROVE Solvent
  OBVIOUS
<1>1. Depositors = {} /\ held = 0
  BY DEF Init, Depositors
<1>2. Cardinality(Depositors) = 0
  BY <1>1, FS_EmptySet
<1> QED BY <1>1, <1>2, AmountAssumption DEF Solvent

LEMMA NextSolvent == SolventInv /\ [Next]_vars => Solvent'
<1> SUFFICES ASSUME IInv, Solvent, [Next]_vars PROVE Solvent'
  BY DEF SolventInv
<1> DEFINE n == Cardinality(Depositors)
           m == Cardinality(Depositors')
<1>1. n \in Nat /\ m \in Nat
  BY DepositorsFinite
<1>2. held \in Nat /\ held' \in Nat
  BY NextIInv DEF IInv, TypeOK
<1>3. held >= lockEthAmount * n
  BY DEF Solvent
<1>4. SUFFICES held' >= lockEthAmount * m
  BY DEF Solvent
<1>5. CASE lockEthAmount = 0
  <2>1. lockEthAmount * m = 0
    BY <1>1, <1>5
  <2> QED BY <1>2, <2>1
<1>6. CASE lockEthAmount # 0
  <2>1. ASSUME NEW a \in Accounts, Deposit(a) PROVE held' >= lockEthAmount * m
    <3>1. a \notin Depositors
      BY <2>1 DEF Deposit, Depositors
    <3>2. m = n + 1
      BY <1>6, <2>1, <3>1, OneMoreDepositor DEF Deposit
    <3>3. lockEthAmount * m = lockEthAmount * n + lockEthAmount /\ lockEthAmount * n \in Nat
      BY <1>1, <3>2, BondArithmetic
    <3> HIDE DEF n, m
    <3>4. held' = held + lockEthAmount
      BY <2>1 DEF Deposit
    <3> QED BY <1>2, <1>3, <3>3, <3>4, AmountAssumption
  <2>2. ASSUME NEW a \in Accounts, Withdraw(a) PROVE held' >= lockEthAmount * m
    <3>1. a \in Depositors /\ balanceOf[a] = lockEthAmount
      BY <2>2 DEF Withdraw, Depositors, IInv, TypeOK
    <3>2. n = m + 1
      BY <2>2, <3>1, OneDepositorLess DEF Withdraw
    <3>3. lockEthAmount * n = lockEthAmount * m + lockEthAmount /\ lockEthAmount * m \in Nat
      BY <1>1, <3>2, BondArithmetic
    <3> HIDE DEF n, m
    <3>4. held' = held - lockEthAmount
      BY <2>2, <3>1 DEF Withdraw
    <3> QED BY <1>2, <1>3, <3>3, <3>4, AmountAssumption
  <2>3. ASSUME NEW a \in Accounts, NEW i, Challenge(a, i)
        PROVE  held' >= lockEthAmount * m
    <3>1. lastSubmitter \in Accounts /\ balanceOf[lastSubmitter] = lockEthAmount
      BY <2>3, AmountAssumption, AccountAssumption
         DEF IInv, TypeOK, PendingInv, Challenge, Unconfirmed
    <3>2. lastSubmitter \in Depositors
      BY <1>6, <3>1 DEF Depositors
    <3>3. balanceOf' = [balanceOf EXCEPT ![lastSubmitter] = 0]
      BY <2>3, <3>1, AmountAssumption DEF Challenge, Slashed, IInv, TypeOK
    <3>4. n = m + 1
      BY <3>1, <3>2, <3>3, OneDepositorLess
    <3>5. lockEthAmount * n = lockEthAmount * m + lockEthAmount /\ lockEthAmount * m \in Nat
      BY <1>1, <3>4, BondArithmetic
    <3> HIDE DEF n, m
    <3>6. held' >= held - lockEthAmount
      BY <1>2, <2>3, AmountAssumption DEF Challenge
    <3> QED BY <1>2, <1>3, <3>5, <3>6, AmountAssumption
  <2>4. ASSUME UNCHANGED <<balanceOf, held>> PROVE held' >= lockEthAmount * m
    <3>1. Depositors' = Depositors
      BY <2>4 DEF Depositors
    <3> QED BY <1>3, <2>4, <3>1
  <2>5. \/ \E a \in Accounts : Deposit(a) \/ Withdraw(a)
        \/ \E a \in Accounts, i \in 1..MAX_BLOCK_PRODUCERS : Challenge(a, i)
        \/ UNCHANGED <<balanceOf, held>>
    BY DEF Next, Transaction, InitWithValidators, InitWithBlock, AddLightClientBlock,
           Tick, AdminPause, vars, moneyVars
  <2> HIDE DEF n, m
  <2> QED BY <2>1, <2>2, <2>3, <2>4, <2>5
<1> QED BY <1>5, <1>6, AmountAssumption

\* The contract always holds the bond of every depositor.
THEOREM ContractIsSolvent == Spec => []Solvent
<1>1. Init => SolventInv
  BY InitIInv, InitSolvent DEF SolventInv
<1>2. SolventInv /\ [Next]_vars => SolventInv'
  BY NextIInv, NextSolvent DEF SolventInv
<1>3. SolventInv => Solvent
  BY DEF SolventInv
<1> QED BY <1>1, <1>2, <1>3, PTL DEF Spec

-----------------------------------------------------------------------------
\* Once the contract is initialized, the confirmed head is a stored block.
HeadInv == initialized => curHeight \in Heights /\ blocks_[curHeight] # NoBlock

LEMMA NextHeadInv == IInv /\ HeadInv /\ [Next]_vars => HeadInv'
<1> SUFFICES ASSUME IInv, HeadInv, [Next]_vars PROVE HeadInv'
  OBVIOUS
<1>1. ASSUME NEW b \in InitBlocks, InitWithBlock(b) PROVE HeadInv'
  <2>1. b # NoBlock /\ b.height \in Heights
    BY BlockFields
  <2> QED BY <1>1, <2>1 DEF InitWithBlock, HeadInv, IInv, TypeOK
<1>2. ASSUME NEW a \in Accounts, NEW b \in Blocks, AddLightClientBlock(a, b)
      PROVE  HeadInv'
  <2>1. CASE Confirmable
    <3>1. untrusted \in Blocks
      BY <2>1 DEF IInv, PendingInv, Confirmable
    <3>2. untrusted # NoBlock /\ untrusted.height \in Heights
      BY <3>1, BlockFields
    <3> QED BY <1>2, <2>1, <3>2 DEF AddLightClientBlock, HeadHeight, HeadInv, IInv, TypeOK
  <2>2. CASE ~ Confirmable
    BY <1>2, <2>2 DEF AddLightClientBlock, HeadHeight, HeadInv
  <2> QED BY <2>1, <2>2
<1>3. ASSUME UNCHANGED <<initialized, curHeight, blocks_>> PROVE HeadInv'
  BY <1>3 DEF HeadInv
<1>4. ASSUME NEW a \in Accounts, Deposit(a) \/ Withdraw(a) PROVE HeadInv'
  BY <1>3, <1>4 DEF Deposit, Withdraw, headVars
<1>5. ASSUME NEW a, NEW i, Challenge(a, i) PROVE HeadInv'
  BY <1>3, <1>5 DEF Challenge
<1>6. ASSUME NEW bps \in ValidatorSets, InitWithValidators(bps) PROVE HeadInv'
  BY <1>3, <1>6 DEF InitWithValidators
<1>7. CASE Tick \/ AdminPause \/ UNCHANGED vars
  BY <1>3, <1>7 DEF Tick, AdminPause, vars, headVars
<1> QED BY <1>1, <1>2, <1>4, <1>5, <1>6, <1>7 DEF Next, Transaction

\* The confirmed head, a pending block that may be challenged and one that may be
\* committed are the three cases the views distinguish.
LEMMA HeadsAgree == IInv /\ HeadInv => ViewsAgree
<1> SUFFICES ASSUME IInv, HeadInv, initialized
             PROVE  /\ BridgeState.currentHeight \in Heights
                    /\ BlockHashes(BridgeState.currentHeight) # NoBlock
                    /\ \A h \in Heights :
                          BlockHashes(h) # NoBlock => h <= BridgeState.currentHeight
                    /\ Unconfirmed => BlockHashes(untrusted.height) = NoBlock
  BY DEF ViewsAgree
<1>1. /\ now \in Nat /\ lastValidAt \in Nat /\ curHeight \in Heights /\ curHeight \in Nat
      /\ blocks_[curHeight] # NoBlock
      /\ \A h \in Heights : h \in Nat /\ (blocks_[h] # NoBlock => h <= curHeight)
  BY BlockAssumption DEF IInv, TypeOK, HeadInv, StoredInv
<1>2. lastValidAt # 0 => /\ untrusted # NoBlock /\ untrusted.height \in Heights
                         /\ untrusted.height > curHeight
                         /\ blocks_[untrusted.height] = NoBlock
  BY <1>1, BlockFields DEF IInv, PendingInv
<1>3. CASE Unconfirmed
  <2>1. lastValidAt # 0 /\ BridgeState.currentHeight = curHeight
    BY <1>1, <1>3 DEF Unconfirmed, BridgeState
  <2>2. \A h \in Heights : BlockHashes(h) = blocks_[h]
    BY <1>1, <1>3 DEF Unconfirmed, Confirmable, BlockHashes
  <2> QED BY <1>1, <1>2, <2>1, <2>2
<1>4. CASE lastValidAt = 0
  <2>1. ~ Unconfirmed /\ BridgeState.currentHeight = curHeight
    BY <1>1, <1>4 DEF Unconfirmed, BridgeState
  <2>2. \A h \in Heights : BlockHashes(h) = blocks_[h]
    BY <1>4 DEF Confirmable, BlockHashes
  <2> QED BY <1>1, <2>1, <2>2
<1>5. CASE lastValidAt # 0 /\ ~ Unconfirmed
  <2>1. Confirmable /\ BridgeState.currentHeight = untrusted.height
    BY <1>1, <1>5 DEF Unconfirmed, Confirmable, BridgeState
  <2>2. \A h \in Heights : BlockHashes(h) = IF h = untrusted.height THEN untrusted
                                                                    ELSE blocks_[h]
    BY <1>2, <1>5, <2>1 DEF BlockHashes
  <2>3. untrusted.height \in Nat
    BY <1>1, <1>2, <1>5
  <2>4. untrusted.height \in Heights /\ untrusted.height > curHeight /\ untrusted # NoBlock
    BY <1>2, <1>5
  <2>5. \A h \in Heights : BlockHashes(h) # NoBlock => h <= untrusted.height
    <3> SUFFICES ASSUME NEW h \in Heights, BlockHashes(h) # NoBlock
                 PROVE  h <= untrusted.height
      OBVIOUS
    <3>1. CASE h = untrusted.height
      BY <3>1, <2>3
    <3>2. CASE h # untrusted.height
      <4>1. blocks_[h] # NoBlock
        BY <2>2, <3>2
      <4>2. h \in Nat /\ h <= curHeight
        BY <1>1, <4>1
      <4> QED BY <1>1, <2>3, <2>4, <4>2
    <3> QED BY <3>1, <3>2
  <2>6. BlockHashes(untrusted.height) # NoBlock
    BY <2>2, <2>4
  <2> QED BY <1>5, <2>1, <2>4, <2>5, <2>6
<1> QED BY <1>3, <1>4, <1>5

\* The three functions that work out the head on the fly agree, at every moment.
THEOREM ViewsAlwaysAgree == Spec => []ViewsAgree
<1>1. Init => HeadInv
  BY DEF Init, HeadInv
<1>2. IInv /\ HeadInv /\ [Next]_vars => HeadInv'
  BY NextHeadInv
<1>3. IInv /\ HeadInv => ViewsAgree
  BY HeadsAgree
<1> QED BY <1>1, <1>2, <1>3, SpecIInv, PTL DEF Spec

-----------------------------------------------------------------------------
(* The contract implements the log of HeaderLog. *)

\* A stored block is stored under its own height.
PlacedInv == \A h \in Heights : blocks_[h] # NoBlock => blocks_[h].height = h

\* The current slot of the ring is that of the confirmed head's epoch.
EpochInv ==
    /\ ~ initialized => curEpoch = 0
    /\ initialized => epochs[curEpoch].epochId = blocks_[curHeight].epochId

\* The block most recently added is of the epoch it was checked against, all approvals
\* that were counted can be challenged, and the slot after next is what it has written
\* ahead if it opens an epoch.
AheadInv ==
    lastValidAt # 0 =>
        /\ untrusted.epochId = UntrustedEpoch.epochId
        /\ untrustedSignatureSet = SignatureSet(untrusted, UntrustedEpoch.bps)
        /\ untrustedNextEpoch =>
              /\ untrusted.epochId # epochs[curEpoch].epochId
              /\ epochs[(curEpoch + 2) % 3] = [epochId |-> untrusted.nextEpochId,
                                               bps     |-> untrusted.nextBps]

LogInv == IInv /\ HeadInv /\ PlacedInv /\ EpochInv /\ AheadInv

LEMMA InitLogInv == Init => LogInv
<1> SUFFICES ASSUME Init PROVE LogInv
  OBVIOUS
<1>1. HeadInv /\ PlacedInv /\ EpochInv /\ AheadInv
  BY DEF Init, HeadInv, PlacedInv, EpochInv, AheadInv
<1> QED BY <1>1, InitIInv DEF LogInv

\* What a block in its period or past it is.
LEMMA UntrustedFacts ==
  ASSUME LogInv, lastValidAt # 0
  PROVE  /\ initialized /\ untrusted \in Blocks /\ untrusted # NoBlock
         /\ untrusted.height \in Heights /\ untrusted.height \in Nat
         /\ untrusted.height > curHeight /\ blocks_[untrusted.height] = NoBlock
<1>1. /\ initialized /\ untrusted \in Blocks /\ untrusted.height > curHeight
      /\ curHeight \in Nat
  BY DEF LogInv, IInv, PendingInv, TypeOK
<1>2. untrusted # NoBlock /\ untrusted.height \in Heights /\ untrusted.height \in Nat
  BY <1>1, BlockFields
<1>3. blocks_[untrusted.height] = NoBlock
  BY <1>1, <1>2 DEF LogInv, IInv, StoredInv
<1> QED BY <1>1, <1>2, <1>3

\* The views, in the two cases they distinguish.
LEMMA ViewCases ==
  ASSUME LogInv
  PROVE  /\ Confirmable => \A h \in Heights :
               BlockHashes(h) = IF h = untrusted.height THEN untrusted ELSE blocks_[h]
         /\ ~ Confirmable => \A h \in Heights : BlockHashes(h) = blocks_[h]
         /\ Unconfirmed => ~ Confirmable /\ lastValidAt # 0
         /\ ~ Unconfirmed /\ lastValidAt # 0 => Confirmable
<1>1. now \in Nat /\ lastValidAt \in Nat
  BY DEF LogInv, IInv, TypeOK
<1>2. ASSUME Confirmable, NEW h \in Heights
      PROVE  BlockHashes(h) = IF h = untrusted.height THEN untrusted ELSE blocks_[h]
  <2>1. blocks_[untrusted.height] = NoBlock
    BY <1>2, UntrustedFacts DEF Confirmable
  <2> QED BY <1>2, <2>1 DEF BlockHashes
<1>3. ASSUME ~ Confirmable, NEW h \in Heights PROVE BlockHashes(h) = blocks_[h]
  BY <1>3 DEF BlockHashes
<1> QED BY <1>1, <1>2, <1>3 DEF Confirmable, Unconfirmed

\* The highest verified block is the one at the height and of the epoch that
\* addLightClientBlock takes for the head.
LEMMA HeadFacts ==
  ASSUME LogInv, initialized
  PROVE  /\ HeadHeight \in Heights /\ HeadHeight \in Nat
         /\ BlockHashes(HeadHeight) # NoBlock
         /\ BlockHashes(HeadHeight).epochId = epochs[HeadEpoch].epochId
         /\ \A h \in Heights : BlockHashes(h) # NoBlock =>
               h \in Nat /\ h <= HeadHeight /\ BlockHashes(h).height = h
<1>1. /\ curHeight \in Heights /\ curHeight \in Nat /\ blocks_[curHeight] # NoBlock
      /\ epochs[curEpoch].epochId = blocks_[curHeight].epochId
      /\ \A h \in Heights : blocks_[h] # NoBlock =>
            h \in Nat /\ h <= curHeight /\ blocks_[h].height = h
  BY BlockAssumption DEF LogInv, HeadInv, EpochInv, PlacedInv, IInv, StoredInv, TypeOK
<1>2. CASE ~ Confirmable
  BY <1>1, <1>2, ViewCases DEF HeadHeight, HeadEpoch
<1>3. CASE Confirmable
  <2>1. lastValidAt # 0
    BY <1>3 DEF Confirmable
  <2>2. /\ untrusted # NoBlock /\ untrusted.height \in Heights
        /\ untrusted.height \in Nat /\ untrusted.height > curHeight
    BY <2>1, UntrustedFacts
  <2>3. HeadHeight = untrusted.height /\ BlockHashes(HeadHeight) = untrusted
    BY <1>3, <2>2, ViewCases DEF HeadHeight
  <2>4. untrusted.epochId = epochs[HeadEpoch].epochId
    BY <1>3, <2>1 DEF LogInv, AheadInv, UntrustedEpoch, HeadEpoch
  <2>5. ASSUME NEW h \in Heights, BlockHashes(h) # NoBlock
        PROVE  h \in Nat /\ h <= HeadHeight /\ BlockHashes(h).height = h
    <3>1. CASE h = untrusted.height
      BY <2>2, <2>3, <3>1
    <3>2. CASE h # untrusted.height
      <4>1. BlockHashes(h) = blocks_[h]
        BY <1>3, <3>2, ViewCases
      <4>2. h \in Nat /\ h <= curHeight /\ blocks_[h].height = h
        BY <1>1, <2>5, <4>1
      <4> QED BY <1>1, <2>2, <2>3, <4>1, <4>2
    <3> QED BY <3>1, <3>2
  <2> QED BY <2>2, <2>3, <2>4, <2>5
<1> QED BY <1>2, <1>3

LEMMA HighestIsHead ==
  ASSUME LogInv, initialized
  PROVE  /\ VerifiedBlocks # {} /\ Log!Highest = BlockHashes(HeadHeight)
         /\ Log!Highest.height = HeadHeight
         /\ Log!Highest.epochId = epochs[HeadEpoch].epochId
<1> DEFINE head == BlockHashes(HeadHeight)
<1>1. head \in VerifiedBlocks /\ head.height = HeadHeight /\ HeadHeight \in Nat
  BY HeadFacts DEF VerifiedBlocks
<1>2. \A c \in VerifiedBlocks : c.height \in Nat /\ c.height <= HeadHeight
                                /\ c = BlockHashes(c.height)
  BY HeadFacts DEF VerifiedBlocks
<1>3. \A c \in VerifiedBlocks : c.height <= head.height
  BY <1>1, <1>2
<1>4. /\ Log!Highest \in VerifiedBlocks
      /\ \A c \in VerifiedBlocks : c.height <= Log!Highest.height
  BY <1>1, <1>3 DEF Log!Highest
<1>5. Log!Highest.height = HeadHeight
  BY <1>1, <1>2, <1>4
<1>6. Log!Highest = head
  BY <1>2, <1>4, <1>5
<1> QED BY <1>1, <1>5, <1>6, HeadFacts

LEMMA NothingVerified ==
  ASSUME LogInv, ~ initialized
  PROVE  /\ VerifiedBlocks = {} /\ lastValidAt = 0 /\ curEpoch = 0 /\ HeadEpoch = 0
         /\ ~ Confirmable /\ ~ Unconfirmed
         /\ \A h \in Heights : blocks_[h] = NoBlock
<1>1. /\ lastValidAt = 0 /\ curEpoch = 0 /\ now \in Nat
      /\ \A h \in Heights : blocks_[h] = NoBlock
  BY DEF LogInv, IInv, TypeOK, PendingInv, StoredInv, EpochInv
<1>2. ~ Confirmable /\ ~ Unconfirmed
  BY <1>1 DEF Confirmable, Unconfirmed
<1> QED BY <1>1, <1>2 DEF VerifiedBlocks, BlockHashes, HeadEpoch

-----------------------------------------------------------------------------
(* LogInv is invariant. *)

LEMMA InitWithBlockKeepsLog ==
  ASSUME LogInv, NEW b \in InitBlocks, InitWithBlock(b)
  PROVE  PlacedInv' /\ EpochInv' /\ AheadInv'
<1>1. b.height \in Heights
  BY BlockFields
<1>2. /\ curEpoch' = 0 /\ lastValidAt' = 0 /\ initialized' /\ curHeight' = b.height
      /\ \A h \in Heights : blocks_[h] = NoBlock
  BY NothingVerified DEF InitWithBlock
<1>3. \A h \in Heights : blocks_'[h] = IF h = b.height THEN b ELSE NoBlock
  BY <1>1, <1>2 DEF InitWithBlock, LogInv, IInv, TypeOK
<1>4. epochs'[0].epochId = b.epochId
  BY DEF InitWithBlock, SetBlockProducers, LogInv, IInv, TypeOK
<1> QED BY <1>1, <1>2, <1>3, <1>4 DEF PlacedInv, EpochInv, AheadInv

\* The block before is stored at its height, and the head moves to its epoch.
LEMMA AddKeepsPlaces ==
  ASSUME LogInv, NEW a \in Accounts, NEW b \in Blocks, AddLightClientBlock(a, b)
  PROVE  /\ \A h \in Heights : blocks_'[h] = BlockHashes(h)
         /\ PlacedInv'
<1>1. CASE ~ Confirmable
  BY <1>1, ViewCases DEF AddLightClientBlock, LogInv, PlacedInv
<1>2. CASE Confirmable
  <2>1. untrusted.height \in Heights
    BY <1>2, UntrustedFacts DEF Confirmable
  <2>2. \A h \in Heights : blocks_'[h] = IF h = untrusted.height THEN untrusted ELSE blocks_[h]
    BY <1>2, <2>1 DEF AddLightClientBlock, LogInv, IInv, TypeOK
  <2> QED BY <1>2, <2>1, <2>2, ViewCases DEF LogInv, PlacedInv
<1> QED BY <1>1, <1>2

\* The block is checked against the slot of the head's epoch or the next one, and only
\* the slot after these is written.
LEMMA AddFacts ==
  ASSUME LogInv, NEW a \in Accounts, NEW b \in Blocks, AddLightClientBlock(a, b)
  PROVE  /\ HeadEpoch \in 0..2
         /\ epochs'[HeadEpoch] = epochs[HeadEpoch]
         /\ epochs'[(HeadEpoch + 1) % 3] = epochs[(HeadEpoch + 1) % 3]
         /\ \E fromNextEpoch \in BOOLEAN :
               LET slot == IF fromNextEpoch THEN (HeadEpoch + 1) % 3 ELSE HeadEpoch
               IN  /\ untrustedNextEpoch' = fromNextEpoch
                   /\ b.epochId = epochs[slot].epochId
                   /\ EnoughApprovals(b, epochs[slot].bps)
                   /\ untrustedSignatureSet' = SignatureSet(b, epochs[slot].bps)
                   /\ fromNextEpoch =>
                         /\ b.epochId # epochs[HeadEpoch].epochId
                         /\ DeclaresNextBps(b)
                         /\ epochs'[(HeadEpoch + 2) % 3] = [epochId |-> b.nextEpochId,
                                                            bps     |-> b.nextBps]
<1>1. /\ curEpoch \in 0..2 /\ HeadEpoch \in 0..2
      /\ epochs \in [0..2 -> [epochId : EpochIds, bps : BpsLists]]
  BY SlotsInRing DEF LogInv, IInv, TypeOK
<1>2. /\ RingSlot(1) = (HeadEpoch + 1) % 3 /\ RingSlot(2) = (HeadEpoch + 2) % 3
      /\ RingSlot(1) \in 0..2 /\ RingSlot(2) \in 0..2
      /\ RingSlot(2) # HeadEpoch /\ RingSlot(2) # RingSlot(1)
  BY <1>1 DEF RingSlot
<1>3. PICK fromNextEpoch \in BOOLEAN :
         LET thisEpoch == IF fromNextEpoch THEN RingSlot(1) ELSE HeadEpoch
             bps == epochs[thisEpoch].bps
         IN  /\ FromEpoch(b, fromNextEpoch)
             /\ EnoughApprovals(b, bps)
             /\ untrustedSignatureSet' = SignatureSet(b, bps)
             /\ untrustedNextEpoch' = fromNextEpoch
             /\ IF fromNextEpoch
                THEN /\ DeclaresNextBps(b)
                     /\ epochs' = SetBlockProducers(epochs, RingSlot(2),
                                                    b.nextEpochId, b.nextBps)
                ELSE UNCHANGED epochs
  BY DEF AddLightClientBlock
<1>4. /\ epochs'[HeadEpoch] = epochs[HeadEpoch] /\ epochs'[RingSlot(1)] = epochs[RingSlot(1)]
      /\ fromNextEpoch => epochs'[RingSlot(2)] = [epochId |-> b.nextEpochId, bps |-> b.nextBps]
  BY <1>1, <1>2, <1>3 DEF SetBlockProducers
<1>5. /\ b.epochId = epochs[IF fromNextEpoch THEN RingSlot(1) ELSE HeadEpoch].epochId
      /\ fromNextEpoch => b.epochId # epochs[HeadEpoch].epochId
  BY <1>3 DEF FromEpoch
<1> QED BY <1>1, <1>2, <1>3, <1>4, <1>5

LEMMA AddKeepsEpochs ==
  ASSUME LogInv, NEW a \in Accounts, NEW b \in Blocks, AddLightClientBlock(a, b)
  PROVE  EpochInv' /\ AheadInv'
<1>1. /\ initialized /\ initialized' /\ curEpoch' = HeadEpoch /\ curHeight' = HeadHeight
      /\ untrusted' = b
  BY DEF AddLightClientBlock
<1>2. epochs'[curEpoch'].epochId = blocks_'[curHeight'].epochId
  <2>1. HeadHeight \in Heights /\ BlockHashes(HeadHeight).epochId = epochs[HeadEpoch].epochId
    BY <1>1, HeadFacts
  <2>2. blocks_'[HeadHeight] = BlockHashes(HeadHeight)
    BY <2>1, AddKeepsPlaces
  <2> QED BY <1>1, <2>1, <2>2, AddFacts
<1>3. EpochInv'
  BY <1>1, <1>2 DEF EpochInv
<1>4. PICK fromNextEpoch \in BOOLEAN :
         LET slot == IF fromNextEpoch THEN (HeadEpoch + 1) % 3 ELSE HeadEpoch
         IN  /\ untrustedNextEpoch' = fromNextEpoch
             /\ b.epochId = epochs[slot].epochId
             /\ untrustedSignatureSet' = SignatureSet(b, epochs[slot].bps)
             /\ fromNextEpoch =>
                   /\ b.epochId # epochs[HeadEpoch].epochId
                   /\ epochs'[(HeadEpoch + 2) % 3] = [epochId |-> b.nextEpochId,
                                                      bps     |-> b.nextBps]
  BY AddFacts
<1>5. UntrustedEpoch' = epochs[IF fromNextEpoch THEN (HeadEpoch + 1) % 3 ELSE HeadEpoch]
  BY <1>1, <1>4, AddFacts DEF UntrustedEpoch
<1>6. AheadInv'
  BY <1>1, <1>4, <1>5, AddFacts DEF AheadInv
<1> QED BY <1>3, <1>6

\* The other steps leave the ring and the block in its period alone, or drop it.
LEMMA OthersKeepLog ==
  ASSUME LogInv, UNCHANGED <<epochs, curEpoch, curHeight, blocks_, initialized, untrusted,
                             untrustedNextEpoch, untrustedSignatureSet>>,
         lastValidAt' \in {0, lastValidAt}
  PROVE  PlacedInv' /\ EpochInv' /\ AheadInv'
  BY DEF LogInv, PlacedInv, EpochInv, AheadInv, UntrustedEpoch

LEMMA NextLogInv == LogInv /\ [Next]_vars => LogInv'
<1> SUFFICES ASSUME LogInv, [Next]_vars PROVE LogInv'
  OBVIOUS
<1>1. IInv' /\ HeadInv'
  BY NextIInv, NextHeadInv DEF LogInv
<1>2. ASSUME NEW a \in Accounts, Deposit(a) \/ Withdraw(a)
      PROVE  PlacedInv' /\ EpochInv' /\ AheadInv'
  BY <1>2, OthersKeepLog DEF Deposit, Withdraw, headVars
<1>3. ASSUME NEW a \in Accounts, NEW i, Challenge(a, i)
      PROVE  PlacedInv' /\ EpochInv' /\ AheadInv'
  BY <1>3, OthersKeepLog DEF Challenge
<1>4. ASSUME NEW bps \in ValidatorSets, InitWithValidators(bps)
      PROVE  PlacedInv' /\ EpochInv' /\ AheadInv'
  BY <1>4, NothingVerified DEF InitWithValidators, LogInv, PlacedInv, EpochInv, AheadInv
<1>5. ASSUME NEW b \in InitBlocks, InitWithBlock(b)
      PROVE  PlacedInv' /\ EpochInv' /\ AheadInv'
  BY <1>5, InitWithBlockKeepsLog
<1>6. ASSUME NEW a \in Accounts, NEW b \in Blocks, AddLightClientBlock(a, b)
      PROVE  PlacedInv' /\ EpochInv' /\ AheadInv'
  BY <1>6, AddKeepsPlaces, AddKeepsEpochs
<1>7. ASSUME Tick \/ AdminPause \/ UNCHANGED vars
      PROVE  PlacedInv' /\ EpochInv' /\ AheadInv'
  BY <1>7, OthersKeepLog DEF Tick, AdminPause, vars, headVars
<1>8. PlacedInv' /\ EpochInv' /\ AheadInv'
  BY <1>2, <1>3, <1>4, <1>5, <1>6, <1>7 DEF Next, Transaction
<1> QED BY <1>1, <1>8 DEF LogInv

-----------------------------------------------------------------------------
(* Every step of the contract is one of the log, or none. *)

\* The producers in a slot of the ring are a list.
LEMMA ProducerFields ==
  ASSUME NEW bps \in BpsLists
  PROVE  /\ Len(bps) \in Nat /\ DOMAIN bps = 1..Len(bps)
         /\ \A i \in DOMAIN bps : bps[i].stake \in Nat
BY ProducerAssumption DEF BpsLists

Stakes(bps) == [i \in DOMAIN bps |-> bps[i].stake]

LEMMA StakeIsSum ==
  ASSUME NEW bps, NEW S PROVE StakeOf(bps, S) = SumOf(Stakes(bps), S)
BY Zenon DEF StakeOf, Stakes, SumFunctionOnSet, FoldFunctionOnSet, SumOf, MapThenSumSet,
             MapThenFoldSet

LEMMA StakeIsInt ==
  ASSUME NEW bps \in BpsLists, NEW S \in SUBSET (1..Len(bps))
  PROVE  StakeOf(bps, S) \in Int
<1>1. /\ IsFiniteSet(1..Len(bps))
      /\ \A i \in 1..Len(bps) : Stakes(bps)[i] \in Int
  <2>1. Len(bps) \in Int /\ 1 \in Int
    BY ProducerFields
  <2>2. IsFiniteSet(1..Len(bps))
    BY <2>1, FS_Interval
  <2>3. \A i \in 1..Len(bps) : Stakes(bps)[i] \in Int
    BY ProducerFields DEF Stakes
  <2> QED BY <2>2, <2>3
<1>2. IsFiniteSet(S) /\ \A i \in S : Stakes(bps)[i] \in Int
  BY <1>1, FS_Subset
<1>3. PICK sum : SumsTo(sum, Stakes(bps), S) /\ SumOf(Stakes(bps), S) = sum[S]
  BY <1>2, SumIs
<1>4. sum[S] \in Int
  BY <1>2, <1>3, SumType
<1> QED BY <1>3, <1>4, StakeIsSum

\* Both modules read approvals in the same way.
LEMMA SameApprovals ==
  ASSUME NEW b, NEW bps
  PROVE  /\ Log!DeclaresNextBps(b) <=> DeclaresNextBps(b)
         /\ Log!Approved(b, bps) = Approved(b, bps)
         /\ Log!Approved(b, bps) = SignatureSet(b, bps)
         /\ \A i : Log!GoodSignature(b, bps, i) <=> GoodSignature(b, bps, i)
  BY DEF Log!Approved, Approved, Log!DeclaresNextBps, DeclaresNextBps, SignatureSet,
         Log!GoodSignature, GoodSignature

\* The contract's rounded threshold lets exactly the quorums of the log in.
LEMMA SameQuorum ==
  ASSUME NEW b, NEW bps \in BpsLists, EnoughApprovals(b, bps)
  PROVE  Log!Quorum(b, bps)
<1> DEFINE signed == StakeOf(bps, Approved(b, bps))
           total  == StakeOf(bps, 1..Len(bps))
<1>1. signed \in Int /\ total \in Int
  BY StakeIsInt DEF Approved
<1>2. signed > (total * 2) \div 3 /\ Len(b.approvals) >= Len(bps)
  BY DEF EnoughApprovals, StakeThreshold
<1>3. 3 * signed > 2 * total
  <2> HIDE DEF signed, total
  <2> QED BY <1>1, <1>2
<1>4. \A S : Log!StakeOf(bps, S) = StakeOf(bps, S)
  BY Zenon DEF Log!StakeOf, StakeOf, Log!SumFunctionOnSet, SumFunctionOnSet,
               Log!FoldFunctionOnSet, FoldFunctionOnSet, Log!MapThenFoldSet, MapThenFoldSet
<1>5. Log!Approved(b, bps) = Approved(b, bps)
  BY SameApprovals
<1> QED BY <1>2, <1>3, <1>4, <1>5 DEF Log!Quorum

LEMMA InitIsLog == Init => Log!LogInit
<1> SUFFICES ASSUME Init PROVE Log!LogInit
  OBVIOUS
<1>1. ~ Unconfirmed /\ ~ Confirmable /\ HeadEpoch = 0
  BY DEF Init, Unconfirmed, Confirmable, HeadEpoch
<1>2. VerifiedBlocks = {}
  BY <1>1 DEF VerifiedBlocks, BlockHashes, Init
<1> QED BY <1>1, <1>2 DEF Init, Log!LogInit

\* Money and pausing do not show.
LEMMA OthersAreStutters ==
  ASSUME UNCHANGED <<now, headVars>>
  PROVE  UNCHANGED <<now, Log!logVars>>
<1>1. Unconfirmed' = Unconfirmed /\ Confirmable' = Confirmable
  BY DEF headVars, Unconfirmed, Confirmable
<1>2. VerifiedBlocks' = VerifiedBlocks /\ HeadEpoch' = HeadEpoch
  BY <1>1 DEF headVars, VerifiedBlocks, BlockHashes, HeadEpoch
<1> QED BY <1>1, <1>2 DEF headVars, Log!logVars

LEMMA InitWithValidatorsIsBootstrap ==
  ASSUME LogInv, NEW bps \in ValidatorSets, InitWithValidators(bps)
  PROVE  Log!Bootstrap
<1>1. /\ VerifiedBlocks = {} /\ HeadEpoch = 0 /\ ~ Unconfirmed
  BY NothingVerified DEF InitWithValidators
<1>2. VerifiedBlocks' = {} /\ HeadEpoch' = 0 /\ ~ Unconfirmed'
  BY <1>1, NothingVerified
     DEF InitWithValidators, VerifiedBlocks, BlockHashes, HeadEpoch, Confirmable, Unconfirmed
<1>3. epochs'[0].bps = bps /\ epochs'[1] = epochs[1] /\ (0 + 1) % 3 = 1
  BY DEF InitWithValidators, SetBlockProducers, LogInv, IInv, TypeOK
<1>4. now' = now
  BY DEF InitWithValidators
<1> QED BY <1>1, <1>2, <1>3, <1>4 DEF Log!Bootstrap

LEMMA InitWithBlockIsStart ==
  ASSUME LogInv, NEW b \in InitBlocks, InitWithBlock(b)
  PROVE  Log!Start(b)
<1>1. /\ VerifiedBlocks = {} /\ HeadEpoch = 0 /\ ~ Unconfirmed /\ lastValidAt = 0 /\ curEpoch = 0
      /\ \A h \in Heights : blocks_[h] = NoBlock
  BY NothingVerified DEF InitWithBlock
<1>2. HeadEpoch' = 0 /\ ~ Unconfirmed' /\ ~ Confirmable'
  BY <1>1 DEF InitWithBlock, HeadEpoch, Confirmable, Unconfirmed, LogInv, IInv, TypeOK
<1>3. b.height \in Heights /\ b # NoBlock
  BY BlockFields
<1>4. \A h \in Heights : blocks_'[h] = IF h = b.height THEN b ELSE NoBlock
  BY <1>1, <1>3 DEF InitWithBlock, LogInv, IInv, TypeOK
<1>5. VerifiedBlocks' = {b}
  BY <1>2, <1>3, <1>4 DEF VerifiedBlocks, BlockHashes
<1>6. /\ epochs'[0].bps = epochs[0].bps /\ (0 + 1) % 3 = 1
      /\ epochs'[1] = [epochId |-> b.nextEpochId, bps |-> b.nextBps]
  BY DEF InitWithBlock, SetBlockProducers, LogInv, IInv, TypeOK
<1>7. now' = now
  BY DEF InitWithBlock
<1> QED BY <1>1, <1>2, <1>5, <1>6, <1>7 DEF Log!Start

LEMMA ChallengeIsDrop ==
  ASSUME LogInv, NEW a, NEW i, Challenge(a, i)
  PROVE  Log!Drop
<1>1. /\ Unconfirmed /\ ~ Confirmable /\ lastValidAt # 0 /\ HeadEpoch = curEpoch
      /\ initialized /\ untrusted # NoBlock
  BY ViewCases, UntrustedFacts DEF Challenge, HeadEpoch
<1>2. /\ ~ Unconfirmed' /\ ~ Confirmable' /\ HeadEpoch' = curEpoch
  BY DEF Challenge, Unconfirmed, Confirmable, HeadEpoch, LogInv, IInv, TypeOK
<1>3. VerifiedBlocks' = VerifiedBlocks
  BY <1>1, <1>2 DEF Challenge, VerifiedBlocks, BlockHashes
<1>4. Log!Producers(untrusted) = UntrustedEpoch.bps
  BY <1>1, HighestIsHead DEF Log!Producers, UntrustedEpoch, LogInv, AheadInv
<1>5. /\ i \in Log!Approved(untrusted, Log!Producers(untrusted))
      /\ ~ Log!GoodSignature(untrusted, Log!Producers(untrusted), i)
  BY <1>1, <1>4, SameApprovals
     DEF Challenge, CheckBlockProducerSignatureInHead, LogInv, AheadInv
<1>6. UNCHANGED <<now, epochs>>
  BY DEF Challenge
<1> QED BY <1>1, <1>2, <1>3, <1>5, <1>6 DEF Log!Drop

\* The deferred commit does not show: the views answered with the block before it.
LEMMA AddIsPropose ==
  ASSUME LogInv, lockDuration > 0,
         NEW a \in Accounts, NEW b \in Blocks, AddLightClientBlock(a, b)
  PROVE  Log!Propose(b)
<1>1. /\ initialized /\ b.height > HeadHeight /\ curEpoch' = HeadEpoch
      /\ untrusted' = b /\ lastValidAt' = now + lockDuration /\ now' = now /\ now \in Nat
  BY DEF AddLightClientBlock, LogInv, IInv, TypeOK
<1>2. Unconfirmed' /\ ~ Confirmable' /\ HeadEpoch' = HeadEpoch
  BY <1>1, DurationAssumption DEF Unconfirmed, Confirmable, HeadEpoch
<1>3. VerifiedBlocks' = VerifiedBlocks
  BY <1>2, AddKeepsPlaces DEF VerifiedBlocks, BlockHashes
<1>4. /\ b.epochId \in {Log!Highest.epochId, epochs[(HeadEpoch + 1) % 3].epochId}
      /\ EnoughApprovals(b, Log!Producers(b))
      /\ b.epochId # Log!Highest.epochId => DeclaresNextBps(b)
  BY <1>1, HighestIsHead, AddFacts DEF Log!Producers
<1>5. VerifiedBlocks # {} /\ b.height > Log!Highest.height
  BY <1>1, HighestIsHead
<1>6. /\ epochs'[HeadEpoch'] = epochs[HeadEpoch]
      /\ epochs'[(HeadEpoch' + 1) % 3] = epochs[(HeadEpoch + 1) % 3]
  BY <1>2, AddFacts
<1>7. Log!Producers(b) \in BpsLists
  <2>1. HeadEpoch \in 0..2 /\ (HeadEpoch + 1) % 3 \in 0..2
    BY SlotsInRing DEF LogInv, IInv, TypeOK
  <2> QED BY <2>1 DEF Log!Producers, LogInv, IInv, TypeOK
<1>8. Log!Quorum(b, Log!Producers(b)) /\ (Log!DeclaresNextBps(b) <=> DeclaresNextBps(b))
  BY <1>4, <1>7, SameQuorum, SameApprovals
<1> QED BY <1>1, <1>2, <1>3, <1>4, <1>5, <1>6, <1>8 DEF Log!Propose

LEMMA TickIsAdvance ==
  ASSUME LogInv, Tick
  PROVE  Log!Advance
<1>1. /\ now' = now + 1 /\ now \in Nat /\ lastValidAt \in Nat /\ UNCHANGED headVars
      /\ curEpoch \in 0..2 /\ untrustedNextEpoch \in BOOLEAN
  BY DEF Tick, LogInv, IInv, TypeOK
<1>2. CASE Confirmable' <=> Confirmable
  <2>1. VerifiedBlocks' = VerifiedBlocks /\ HeadEpoch' = HeadEpoch
    BY <1>1, <1>2 DEF headVars, VerifiedBlocks, BlockHashes, HeadEpoch
  <2>2. CASE Unconfirmed
    <3>1. ~ Confirmable /\ lastValidAt # 0
      BY <2>2, ViewCases
    <3>2. Unconfirmed' /\ now' < lastValidAt
      BY <1>1, <1>2, <3>1 DEF Confirmable, Unconfirmed, headVars
    <3> QED BY <1>1, <2>1, <2>2, <3>2 DEF headVars, Log!Advance, Log!logVars
  <2>3. CASE ~ Unconfirmed
    <3>1. ~ Unconfirmed'
      BY <1>1, <2>3 DEF Unconfirmed, headVars
    <3> QED BY <1>1, <2>1, <2>3, <3>1 DEF headVars, Log!Advance, Log!logVars
  <2> QED BY <2>2, <2>3
<1>3. CASE ~ (Confirmable' <=> Confirmable)
  <2>1. /\ Unconfirmed /\ ~ Confirmable /\ ~ Unconfirmed' /\ Confirmable'
        /\ lastValidAt # 0 /\ lastValidAt <= now'
    BY <1>1, <1>3 DEF Unconfirmed, Confirmable, headVars
  <2>2. /\ initialized /\ untrusted # NoBlock /\ untrusted.height \in Heights
        /\ blocks_[untrusted.height] = NoBlock
    BY <2>1, UntrustedFacts
  <2>3. \A h \in Heights : BlockHashes(h) = blocks_[h]
    BY <2>1, ViewCases
  <2>4. \A h \in Heights : BlockHashes(h)' = IF h = untrusted.height THEN untrusted ELSE blocks_[h]
    BY <1>1, <2>1, <2>2 DEF BlockHashes, headVars
  <2>5. VerifiedBlocks' = VerifiedBlocks \cup {untrusted}
    BY <2>2, <2>3, <2>4 DEF VerifiedBlocks
  <2>6. HeadEpoch = curEpoch /\ Log!Highest.epochId = epochs[curEpoch].epochId
    BY <2>1, <2>2, HighestIsHead DEF HeadEpoch
  <2>7. HeadEpoch' = IF untrustedNextEpoch THEN (curEpoch + 1) % 3 ELSE curEpoch
    BY <1>1, <2>1 DEF HeadEpoch, headVars
  <2>8. untrustedNextEpoch <=> untrusted.epochId # Log!Highest.epochId
    BY <1>1, <2>1, <2>6 DEF LogInv, AheadInv, UntrustedEpoch
  <2>9. untrustedNextEpoch =>
           /\ (HeadEpoch' + 1) % 3 = (curEpoch + 2) % 3
           /\ epochs[(curEpoch + 2) % 3].epochId = untrusted.nextEpochId
           /\ epochs[(curEpoch + 2) % 3].bps = untrusted.nextBps
    BY <1>1, <2>1, <2>7 DEF LogInv, AheadInv
  <2> QED BY <1>1, <2>1, <2>2, <2>5, <2>6, <2>7, <2>8, <2>9 DEF headVars, Log!Advance
<1> QED BY <1>2, <1>3

LEMMA StepIsLogged ==
  ASSUME lockDuration > 0
  PROVE  LogInv /\ [Next]_vars => [Log!LogNext]_<<now, Log!logVars>>
<1> SUFFICES ASSUME LogInv, [Next]_vars PROVE Log!LogNext \/ UNCHANGED <<now, Log!logVars>>
  OBVIOUS
<1>1. ASSUME NEW a \in Accounts, Deposit(a) \/ Withdraw(a)
      PROVE  UNCHANGED <<now, Log!logVars>>
  BY <1>1, OthersAreStutters DEF Deposit, Withdraw
<1>2. ASSUME NEW a \in Accounts, NEW i, Challenge(a, i) PROVE Log!LogNext
  BY <1>2, ChallengeIsDrop DEF Log!LogNext
<1>3. ASSUME NEW bps \in ValidatorSets, InitWithValidators(bps) PROVE Log!LogNext
  BY <1>3, InitWithValidatorsIsBootstrap DEF Log!LogNext
<1>4. ASSUME NEW b \in InitBlocks, InitWithBlock(b) PROVE Log!LogNext
  BY <1>4, InitWithBlockIsStart DEF Log!LogNext
<1>5. ASSUME NEW a \in Accounts, NEW b \in Blocks, AddLightClientBlock(a, b)
      PROVE  Log!LogNext
  BY <1>5, AddIsPropose DEF Log!LogNext
<1>6. ASSUME Tick PROVE Log!LogNext
  BY <1>6, TickIsAdvance DEF Log!LogNext
<1>7. ASSUME AdminPause \/ UNCHANGED vars PROVE UNCHANGED <<now, Log!logVars>>
  BY <1>7, OthersAreStutters DEF AdminPause, vars
<1> QED BY <1>1, <1>2, <1>3, <1>4, <1>5, <1>6, <1>7 DEF Next, Transaction

\* The contract implements the log of verified blocks, if the challenge period is not
\* empty: neither the ring, nor the deferred commit, nor blocks that replace each other
\* or are challenged can be seen through the views.
THEOREM ContractImplementsLog == ASSUME lockDuration > 0 PROVE Spec => ImplementsHeaderLog
<1>1. Init => LogInv /\ Log!LogInit
  BY InitLogInv, InitIsLog
<1>2. LogInv /\ [Next]_vars => LogInv'
  BY NextLogInv
<1>3. LogInv /\ [Next]_vars => [Log!LogNext]_<<now, Log!logVars>>
  BY StepIsLogged
<1> QED BY <1>1, <1>2, <1>3, PTL DEF Spec, ImplementsHeaderLog, Log!LogSpec

-----------------------------------------------------------------------------
(***************************************************************************)
(* The optimistic security argument: as long as every forged block is      *)
(* challenged within its period, every verified block is genuine, although *)
(* the contract checks not one signature.  For every set of accounts,      *)
(* blocks, producers and heights, and whatever relayers submit.            *)
(***************************************************************************)
Stored == {blocks_[h] : h \in Heights} \ {NoBlock}

\* A slot of the ring holds what the admin or a stored block declared.
Declared(slot) ==
    \/ epochs[slot].bps \in ValidatorSets
    \/ \E d \in Stored : d.nextEpochId = epochs[slot].epochId /\ d.nextBps = epochs[slot].bps

Justified(b) ==
    \/ \E bps \in ValidatorSets : Genuine(b, bps)
    \/ \E d \in Stored :
          d.nextEpochId = b.epochId /\ d.height < b.height /\ Genuine(b, d.nextBps)

UntrustedSlot == IF untrustedNextEpoch THEN (curEpoch + 1) % 3 ELSE curEpoch

\* The ring: the slot of the head's epoch and the next are declared; the third is what a
\* block added from the next epoch has written ahead.
RingInv ==
    /\ ~ initialized => epochs[0].bps \in {<<>>} \cup ValidatorSets /\ curEpoch = 0
    /\ initialized => Declared(curEpoch) /\ Declared((curEpoch + 1) % 3)
    /\ lastValidAt # 0 /\ untrustedNextEpoch =>
          epochs[(curEpoch + 2) % 3] = [epochId |-> untrusted.nextEpochId,
                                        bps     |-> untrusted.nextBps]

\* The block most recently added has enough approvals, all of them can be challenged, and
\* once its period is over they are all genuine.
ApprovalInv ==
    lastValidAt # 0 =>
        /\ untrusted.epochId = epochs[UntrustedSlot].epochId
        /\ EnoughApprovals(untrusted, epochs[UntrustedSlot].bps)
        /\ untrustedSignatureSet = SignatureSet(untrusted, epochs[UntrustedSlot].bps)
        /\ Confirmable => Genuine(untrusted, epochs[UntrustedSlot].bps)

JustifiedInv ==
    /\ \A h \in Heights : blocks_[h] # NoBlock => blocks_[h].height = h
    /\ \A b \in Stored \ InitBlocks : Justified(b)

GenuineInv == IInv /\ RingInv /\ ApprovalInv /\ JustifiedInv

\* Anybody does anything the contract allows; only the clock waits for the watcher.
WatchedNext == Transaction \/ AdminPause \/ WatchedTick

-----------------------------------------------------------------------------
LEMMA FairIsWatched == [FairNext]_vars => [WatchedNext]_vars
  BY WatchedAssumption
     DEF FairNext, WatchedNext, RelayerSubmits, RelayerDeposits, SomebodyChallenges,
         ClockRuns, OthersAct, Transaction

LEMMA WatchedIInv == IInv /\ [WatchedNext]_vars => IInv'
<1>1. [WatchedNext]_vars => [Next]_vars
  BY DEF WatchedNext, WatchedTick, Next
<1> QED BY <1>1, NextIInv

\* The challengeable approvals are the ones that were counted.
LEMMA UnchallengedIsGenuine ==
  ASSUME NEW b, NEW bps, EnoughApprovals(b, bps),
         \A i \in SignatureSet(b, bps) : GoodSignature(b, bps, i)
  PROVE  Genuine(b, bps)
  BY DEF Genuine, SignatureSet, Approved

LEMMA UntrustedSlotIs == UntrustedEpoch = epochs[UntrustedSlot]
  BY DEF UntrustedEpoch, UntrustedSlot

\* A block signed by producers that were declared is justified.
LEMMA DeclaredJustify ==
  ASSUME GenuineInv, NEW slot \in 0..2, Declared(slot), NEW b,
         b.height \in Nat, b.height > curHeight,
         b.epochId = epochs[slot].epochId, Genuine(b, epochs[slot].bps)
  PROVE  Justified(b)
<1>1. CASE epochs[slot].bps \in ValidatorSets
  BY <1>1 DEF Justified
<1>2. ASSUME NEW d \in Stored, d.nextEpochId = epochs[slot].epochId,
             d.nextBps = epochs[slot].bps
      PROVE  Justified(b)
  <2>1. PICK h \in Heights : d = blocks_[h] /\ blocks_[h] # NoBlock
    BY DEF Stored
  <2>2. d.height = h /\ h <= curHeight /\ h \in Nat /\ curHeight \in Nat
    BY <2>1, BlockAssumption DEF GenuineInv, JustifiedInv, IInv, StoredInv, TypeOK
  <2>3. d.height < b.height
    BY <2>2
  <2> QED BY <1>2, <2>3 DEF Justified
<1> QED BY <1>1, <1>2 DEF Declared

\* A block whose period is over is justified.
LEMMA ConfirmableIsJustified ==
  ASSUME GenuineInv, Confirmable
  PROVE  /\ Justified(untrusted) /\ untrusted # NoBlock /\ untrusted.height \in Heights
         /\ blocks_[untrusted.height] = NoBlock
<1>1. /\ lastValidAt # 0 /\ initialized /\ untrusted.height > curHeight
      /\ untrusted.height \in Nat /\ untrusted # NoBlock /\ untrusted.height \in Heights
      /\ curHeight \in Nat
  BY BlockFields DEF Confirmable, GenuineInv, IInv, PendingInv, TypeOK
<1>2. curEpoch \in 0..2 /\ untrustedNextEpoch \in BOOLEAN
  BY DEF GenuineInv, IInv, TypeOK
<1>3. UntrustedSlot \in 0..2 /\ Declared(UntrustedSlot)
  BY <1>1, <1>2 DEF UntrustedSlot, GenuineInv, RingInv
<1>4. /\ untrusted.epochId = epochs[UntrustedSlot].epochId
      /\ Genuine(untrusted, epochs[UntrustedSlot].bps)
  BY <1>1 DEF GenuineInv, ApprovalInv
<1>5. Justified(untrusted)
  BY <1>1, <1>3, <1>4, DeclaredJustify
<1>6. blocks_[untrusted.height] = NoBlock
  BY <1>1 DEF GenuineInv, IInv, StoredInv
<1> QED BY <1>1, <1>5, <1>6

-----------------------------------------------------------------------------
LEMMA InitGenuine == Init => GenuineInv
<1> SUFFICES ASSUME Init PROVE GenuineInv
  OBVIOUS
<1>1. IInv
  BY InitIInv
<1>2. RingInv /\ ApprovalInv
  BY DEF Init, RingInv, ApprovalInv
<1>3. JustifiedInv
  BY DEF Init, JustifiedInv, Stored
<1> QED BY <1>1, <1>2, <1>3 DEF GenuineInv

\* The steps that neither add a block nor move the clock.
LEMMA OthersKeepGenuine ==
  ASSUME GenuineInv, IInv', UNCHANGED <<epochs, curEpoch, blocks_, initialized,
            untrusted, untrustedNextEpoch, untrustedSignatureSet>>,
         lastValidAt' # 0 => UNCHANGED lastValidAt /\ UNCHANGED now
  PROVE  GenuineInv'
<1>1. RingInv'
  BY DEF GenuineInv, RingInv, Declared, Stored
<1>2. ApprovalInv'
  BY DEF GenuineInv, ApprovalInv, UntrustedSlot, Confirmable
<1>3. JustifiedInv'
  BY DEF GenuineInv, JustifiedInv, Stored, Justified
<1> QED BY <1>1, <1>2, <1>3 DEF GenuineInv

LEMMA InitWithValidatorsKeepsGenuine ==
  ASSUME GenuineInv, IInv', NEW bps \in ValidatorSets, InitWithValidators(bps)
  PROVE  GenuineInv'
<1>1. /\ ~ initialized /\ ~ initialized' /\ lastValidAt = 0 /\ lastValidAt' = 0
      /\ curEpoch' = curEpoch /\ blocks_' = blocks_
  BY DEF InitWithValidators, GenuineInv, IInv, PendingInv
<1>2. epochs'[0].bps = bps
  BY DEF InitWithValidators, SetBlockProducers, GenuineInv, IInv, TypeOK
<1>3. RingInv'
  BY <1>1, <1>2 DEF GenuineInv, RingInv
<1>4. JustifiedInv'
  BY <1>1 DEF GenuineInv, JustifiedInv, Stored, Justified
<1> QED BY <1>1, <1>3, <1>4 DEF GenuineInv, ApprovalInv

\* The first block is not checked; nothing was stored before it.
LEMMA InitWithBlockKeepsGenuine ==
  ASSUME GenuineInv, IInv', NEW b \in InitBlocks, InitWithBlock(b)
  PROVE  GenuineInv'
<1>1. b # NoBlock /\ b.height \in Heights
  BY BlockFields
<1>2. /\ ~ initialized /\ lastValidAt = 0 /\ lastValidAt' = 0 /\ curEpoch = 0 /\ curEpoch' = 0
      /\ epochs[0].bps \in ValidatorSets /\ initialized'
  BY DEF InitWithBlock, GenuineInv, IInv, PendingInv, RingInv
<1>3. \A h \in Heights : blocks_'[h] = IF h = b.height THEN b ELSE NoBlock
  BY <1>1, <1>2 DEF InitWithBlock, GenuineInv, IInv, TypeOK, StoredInv
<1>4. Stored' = {b}
  BY <1>1, <1>3 DEF Stored
<1>5. /\ epochs'[0].bps = epochs[0].bps
      /\ epochs'[1] = [epochId |-> b.nextEpochId, bps |-> b.nextBps]
  BY DEF InitWithBlock, SetBlockProducers, GenuineInv, IInv, TypeOK
<1>6. RingInv'
  BY <1>2, <1>4, <1>5 DEF RingInv, Declared
<1>7. JustifiedInv'
  BY <1>1, <1>3, <1>4 DEF JustifiedInv
<1> QED BY <1>2, <1>6, <1>7 DEF GenuineInv, ApprovalInv

-----------------------------------------------------------------------------
\* Adding a block stores the one before it if that one's period is over.
LEMMA AddStores ==
  ASSUME GenuineInv, NEW a, NEW b, AddLightClientBlock(a, b)
  PROVE  /\ JustifiedInv'
         /\ Stored' = IF Confirmable THEN Stored \cup {untrusted} ELSE Stored
<1>1. CASE ~ Confirmable
  BY <1>1 DEF AddLightClientBlock, GenuineInv, JustifiedInv, Stored, Justified
<1>2. CASE Confirmable
  <2>1. /\ Justified(untrusted) /\ untrusted # NoBlock /\ untrusted.height \in Heights
        /\ blocks_[untrusted.height] = NoBlock
    BY <1>2, ConfirmableIsJustified
  <2>2. \A h \in Heights : blocks_'[h] = IF h = untrusted.height THEN untrusted ELSE blocks_[h]
    BY <1>2 DEF AddLightClientBlock, GenuineInv, IInv, TypeOK
  <2>3. Stored' = Stored \cup {untrusted}
    BY <2>1, <2>2 DEF Stored
  <2>4. \A c : Justified(c) => Justified(c)'
    BY <2>3 DEF Justified
  <2>5. \A c \in Stored' \ InitBlocks : Justified(c)'
    BY <2>1, <2>3, <2>4 DEF GenuineInv, JustifiedInv
  <2> QED BY <1>2, <2>1, <2>2, <2>3, <2>5 DEF GenuineInv, JustifiedInv
<1> QED BY <1>1, <1>2

\* The head moves on to declared slots, and the block is checked against one of them.
LEMMA AddKeepsRing ==
  ASSUME GenuineInv, NEW a \in Accounts, NEW b \in Blocks, AddLightClientBlock(a, b)
  PROVE  RingInv' /\ ApprovalInv'
<1>1. /\ initialized /\ initialized' /\ curEpoch \in 0..2 /\ curEpoch' = HeadEpoch
      /\ HeadEpoch \in 0..2 /\ untrusted' = b /\ lastValidAt' = now + lockDuration
      /\ now' = now /\ now \in Nat
      /\ epochs \in [0..2 -> [epochId : EpochIds, bps : BpsLists]]
  BY SlotsInRing DEF AddLightClientBlock, GenuineInv, IInv, TypeOK
<1>2. ~ Confirmable'
  BY <1>1, WatchedAssumption, DurationAssumption DEF Confirmable
<1>3. PICK fromNextEpoch \in BOOLEAN :
         LET thisEpoch == IF fromNextEpoch THEN RingSlot(1) ELSE HeadEpoch
             bps == epochs[thisEpoch].bps
         IN  /\ FromEpoch(b, fromNextEpoch)
             /\ EnoughApprovals(b, bps)
             /\ untrustedSignatureSet' = SignatureSet(b, bps)
             /\ untrustedNextEpoch' = fromNextEpoch
             /\ IF fromNextEpoch
                THEN epochs' = SetBlockProducers(epochs, RingSlot(2), b.nextEpochId, b.nextBps)
                ELSE UNCHANGED epochs
  BY DEF AddLightClientBlock
<1>4. /\ RingSlot(1) = (HeadEpoch + 1) % 3 /\ RingSlot(2) = (HeadEpoch + 2) % 3
      /\ RingSlot(1) \in 0..2 /\ RingSlot(2) \in 0..2
      /\ RingSlot(2) # HeadEpoch /\ RingSlot(2) # RingSlot(1)
  BY <1>1 DEF RingSlot
\* Whatever the block writes ahead, the slots it was checked against stay.
<1>5. /\ epochs'[HeadEpoch] = epochs[HeadEpoch] /\ epochs'[RingSlot(1)] = epochs[RingSlot(1)]
      /\ fromNextEpoch => epochs'[RingSlot(2)] = [epochId |-> b.nextEpochId, bps |-> b.nextBps]
  BY <1>1, <1>3, <1>4 DEF SetBlockProducers
<1>6. Stored \subseteq Stored' /\ (Confirmable => untrusted \in Stored')
  BY AddStores
<1>7. \A slot : Declared(slot) /\ epochs'[slot] = epochs[slot] => Declared(slot)'
  BY <1>6 DEF Declared
<1>8. PICK head \in 0..2, next \in 0..2 : head = HeadEpoch /\ next = RingSlot(1)
  BY <1>1, <1>4
<1>9. Declared(head)' /\ Declared(next)'
  <2>1. CASE ~ (Confirmable /\ untrustedNextEpoch)
    <3>1. head = curEpoch /\ Declared(curEpoch) /\ Declared((curEpoch + 1) % 3)
      BY <1>1, <1>8, <2>1 DEF HeadEpoch, GenuineInv, RingInv
    <3>2. Declared(head) /\ Declared(next)
      BY <1>4, <1>8, <3>1
    <3> QED BY <1>5, <1>7, <1>8, <3>2
  <2>2. CASE Confirmable /\ untrustedNextEpoch
    <3>1. head = (curEpoch + 1) % 3 /\ next = (curEpoch + 2) % 3
      BY <1>1, <1>4, <1>8, <2>2 DEF HeadEpoch
    <3>2. Declared(head)
      BY <1>1, <3>1 DEF GenuineInv, RingInv
    <3>3. epochs[next] = [epochId |-> untrusted.nextEpochId, bps |-> untrusted.nextBps]
      BY <2>2, <3>1 DEF Confirmable, GenuineInv, RingInv
    <3>4. /\ untrusted \in Stored' /\ epochs'[next].epochId = untrusted.nextEpochId
          /\ epochs'[next].bps = untrusted.nextBps
      BY <1>5, <1>6, <1>8, <2>2, <3>3
    <3>5. PICK d \in Stored' : /\ d.nextEpochId = epochs'[next].epochId
                               /\ d.nextBps = epochs'[next].bps
      BY <3>4
    <3>6. Declared(next)'
      BY <3>5 DEF Declared
    <3> QED BY <1>5, <1>7, <1>8, <3>2, <3>6
  <2> QED BY <2>1, <2>2
<1>10. RingInv'
  <2>1. /\ curEpoch' = head /\ (curEpoch' + 1) % 3 = next
        /\ (curEpoch' + 2) % 3 = RingSlot(2)
    BY <1>1, <1>4, <1>8
  <2>2. Declared(curEpoch)' /\ Declared((curEpoch + 1) % 3)'
    BY <1>9, <2>1 DEF Declared
  <2> QED BY <1>1, <1>3, <1>5, <2>1, <2>2 DEF RingInv
<1>11. UntrustedSlot' = IF fromNextEpoch THEN RingSlot(1) ELSE HeadEpoch
  BY <1>1, <1>3, <1>4 DEF UntrustedSlot
<1>12. ApprovalInv'
  <2>1. b.epochId = epochs[IF fromNextEpoch THEN RingSlot(1) ELSE HeadEpoch].epochId
    BY <1>3 DEF FromEpoch
  <2>2. epochs'[UntrustedSlot'] = epochs[IF fromNextEpoch THEN RingSlot(1) ELSE HeadEpoch]
    BY <1>3, <1>5, <1>11
  <2> QED BY <1>1, <1>2, <1>3, <2>1, <2>2 DEF ApprovalInv
<1> QED BY <1>10, <1>12

-----------------------------------------------------------------------------
\* A period does not end while an approval could still be challenged.
LEMMA TickKeepsGenuine ==
  ASSUME GenuineInv, IInv', WatchedTick
  PROVE  GenuineInv'
<1>1. UNCHANGED <<headVars, initialized>> /\ now' = now + 1 /\ now \in Nat /\ lastValidAt \in Nat
  BY DEF WatchedTick, Tick, GenuineInv, IInv, TypeOK
<1>2. RingInv' /\ JustifiedInv'
  BY <1>1 DEF headVars, GenuineInv, RingInv, Declared, Stored, JustifiedInv, Justified
<1>3. ASSUME lastValidAt # 0, Confirmable'
      PROVE  Genuine(untrusted, epochs[UntrustedSlot].bps)
  <2>1. CASE Confirmable
    BY <1>3, <2>1 DEF GenuineInv, ApprovalInv
  <2>2. CASE ~ Confirmable
    <3>1. Unconfirmed /\ ~ (now + 1 < lastValidAt)
      BY <1>1, <1>3, <2>2 DEF Confirmable, Unconfirmed, headVars
    <3>2. \A i \in untrustedSignatureSet :
             GoodSignature(untrusted, epochs[UntrustedSlot].bps, i)
      BY <3>1, UntrustedSlotIs
         DEF WatchedTick, PendingForged, CheckBlockProducerSignatureInHead
    <3> QED BY <1>3, <3>2, UnchallengedIsGenuine DEF GenuineInv, ApprovalInv
  <2> QED BY <2>1, <2>2
<1>4. ApprovalInv'
  BY <1>1, <1>3 DEF headVars, GenuineInv, ApprovalInv, UntrustedSlot
<1> QED BY <1>2, <1>4 DEF GenuineInv

LEMMA NextGenuine == GenuineInv /\ [WatchedNext]_vars => GenuineInv'
<1> SUFFICES ASSUME GenuineInv, [WatchedNext]_vars PROVE GenuineInv'
  OBVIOUS
<1>1. IInv'
  BY WatchedIInv DEF GenuineInv
<1>2. ASSUME NEW a \in Accounts, Deposit(a) \/ Withdraw(a) PROVE GenuineInv'
  BY <1>1, <1>2, OthersKeepGenuine DEF Deposit, Withdraw, headVars
<1>3. ASSUME NEW a \in Accounts, NEW i, Challenge(a, i) PROVE GenuineInv'
  BY <1>1, <1>3, OthersKeepGenuine DEF Challenge
<1>4. ASSUME NEW bps \in ValidatorSets, InitWithValidators(bps) PROVE GenuineInv'
  BY <1>1, <1>4, InitWithValidatorsKeepsGenuine
<1>5. ASSUME NEW b \in InitBlocks, InitWithBlock(b) PROVE GenuineInv'
  BY <1>1, <1>5, InitWithBlockKeepsGenuine
<1>6. ASSUME NEW a \in Accounts, NEW b \in Blocks, AddLightClientBlock(a, b)
      PROVE  GenuineInv'
  BY <1>1, <1>6, AddStores, AddKeepsRing DEF GenuineInv
<1>7. CASE AdminPause \/ UNCHANGED vars
  BY <1>1, <1>7, OthersKeepGenuine DEF AdminPause, vars, headVars
<1>8. CASE WatchedTick
  BY <1>1, <1>8, TickKeepsGenuine
<1> QED BY <1>2, <1>3, <1>4, <1>5, <1>6, <1>7, <1>8 DEF WatchedNext, Transaction

LEMMA GenuineViews == GenuineInv => VerifiedAreGenuine
<1> SUFFICES ASSUME GenuineInv, NEW b \in VerifiedBlocks \ InitBlocks
             PROVE  \/ \E bps \in ValidatorSets : Genuine(b, bps)
                    \/ \E d \in VerifiedBlocks :
                          /\ d.nextEpochId = b.epochId /\ d.height < b.height
                          /\ Genuine(b, d.nextBps)
  BY DEF VerifiedAreGenuine
<1>1. Stored \subseteq VerifiedBlocks
  BY DEF Stored, VerifiedBlocks, BlockHashes
<1>2. b \in Stored \/ (Confirmable /\ b = untrusted)
  BY DEF Stored, VerifiedBlocks, BlockHashes
<1>3. Justified(b)
  BY <1>2, ConfirmableIsJustified DEF GenuineInv, JustifiedInv
<1> QED BY <1>1, <1>3 DEF Justified

\* With a watcher, every verified block beyond the first carries genuine approvals of
\* more than two thirds of the stake of producers that the admin or a lower verified
\* block declared.
THEOREM WatchedBlocksAreGenuine == FairSpec => []VerifiedAreGenuine
<1>1. Init => GenuineInv
  BY InitGenuine
<1>2. GenuineInv /\ [FairNext]_vars => GenuineInv'
  BY NextGenuine, FairIsWatched
<1>3. GenuineInv => VerifiedAreGenuine
  BY GenuineViews
<1> QED BY <1>1, <1>2, <1>3, PTL DEF FairSpec

-----------------------------------------------------------------------------
(***************************************************************************)
(* The bond of the canonical chain's relayer.  A challenge compares with   *)
(* the producers in the ring, so they must be the canonical ones, whatever *)
(* an unconfirmed block has written there.                                 *)
(***************************************************************************)

\* A slot of the ring holds the canonical producers of its epoch.
Canonical(slot) == epochs[slot].bps = EpochProducers[epochs[slot].epochId]

CanonicalInv ==
    /\ initialized => Canonical(curEpoch) /\ Canonical((curEpoch + 1) % 3)
    /\ lastValidAt # 0 /\ untrustedNextEpoch => DeclaresNextBps(untrusted)

BondInv == GenuineInv /\ CanonicalInv

LEMMA InitWithBlockKeepsCanonical ==
  ASSUME GenuineInv, NEW b \in InitBlocks, InitWithBlock(b)
  PROVE  CanonicalInv'
<1>1. /\ curEpoch = 0 /\ curEpoch' = 0 /\ epochs[0].bps \in ValidatorSets
      /\ epochs \in [0..2 -> [epochId : EpochIds, bps : BpsLists]]
  BY DEF InitWithBlock, GenuineInv, RingInv, IInv, TypeOK
<1>2. epochs'[0].epochId = b.epochId /\ epochs'[0].bps = epochs[0].bps
  BY <1>1 DEF InitWithBlock, SetBlockProducers
<1>3. epochs'[1].epochId = b.nextEpochId /\ epochs'[1].bps = b.nextBps
  BY <1>1 DEF InitWithBlock, SetBlockProducers
<1>4. epochs[0].bps = EpochProducers[b.epochId] /\ b.nextBps = EpochProducers[b.nextEpochId]
  BY <1>1, ChainAssumption DEF InitWithBlock
<1>5. (curEpoch' + 1) % 3 = 1
  BY <1>1
<1>6. lastValidAt' = 0
  BY DEF InitWithBlock, GenuineInv, IInv, PendingInv
<1> QED BY <1>1, <1>2, <1>3, <1>4, <1>5, <1>6 DEF CanonicalInv, Canonical

\* The head moves on to the epoch of a block all of whose approvals are genuine: the
\* producers it declared, checked when it was added, are the canonical ones.
LEMMA AddKeepsCanonical ==
  ASSUME BondInv, NEW a \in Accounts, NEW b \in Blocks, AddLightClientBlock(a, b)
  PROVE  CanonicalInv'
<1>1. /\ initialized /\ curEpoch \in 0..2 /\ curEpoch' = HeadEpoch
      /\ HeadEpoch \in 0..2 /\ untrusted' = b
      /\ epochs \in [0..2 -> [epochId : EpochIds, bps : BpsLists]]
  BY SlotsInRing DEF AddLightClientBlock, BondInv, GenuineInv, IInv, TypeOK
<1>2. PICK fromNextEpoch \in BOOLEAN :
         /\ untrustedNextEpoch' = fromNextEpoch
         /\ IF fromNextEpoch
            THEN /\ DeclaresNextBps(b)
                 /\ epochs' = SetBlockProducers(epochs, RingSlot(2), b.nextEpochId, b.nextBps)
            ELSE UNCHANGED epochs
  BY DEF AddLightClientBlock
<1>3. PICK head \in 0..2, next \in 0..2 :
         head = HeadEpoch /\ next = (HeadEpoch + 1) % 3 /\ next # RingSlot(2) /\ head # RingSlot(2)
  BY <1>1 DEF RingSlot
<1>4. epochs'[head] = epochs[head] /\ epochs'[next] = epochs[next]
  BY <1>1, <1>2, <1>3 DEF SetBlockProducers
<1>5. Canonical(curEpoch) /\ Canonical((curEpoch + 1) % 3)
  BY <1>1 DEF BondInv, CanonicalInv
<1>6. Canonical(head) /\ Canonical(next)
  <2>1. CASE ~ (Confirmable /\ untrustedNextEpoch)
    BY <1>1, <1>3, <1>5, <2>1 DEF HeadEpoch
  <2>2. CASE Confirmable /\ untrustedNextEpoch
    <3>1. head = (curEpoch + 1) % 3 /\ next = (curEpoch + 2) % 3
      BY <1>1, <1>3, <2>2 DEF HeadEpoch
    <3>2. /\ lastValidAt # 0 /\ untrusted \in Blocks /\ UntrustedSlot = head
          /\ DeclaresNextBps(untrusted)
      BY <2>2, <3>1 DEF Confirmable, UntrustedSlot, BondInv, GenuineInv, IInv, PendingInv,
                        CanonicalInv
    <3>3. /\ untrusted.epochId = epochs[head].epochId
          /\ Genuine(untrusted, epochs[head].bps)
      BY <2>2, <3>2 DEF BondInv, GenuineInv, ApprovalInv
    <3>4. Genuine(untrusted, EpochProducers[untrusted.epochId])
      BY <1>5, <3>1, <3>3 DEF Canonical
    <3>5. untrusted.nextBps = EpochProducers[untrusted.nextEpochId]
      BY <3>2, <3>4, ChainAssumption
    <3>6. /\ epochs[next].epochId = untrusted.nextEpochId
          /\ epochs[next].bps = untrusted.nextBps
      BY <2>2, <3>1, <3>2 DEF BondInv, GenuineInv, RingInv
    <3> QED BY <1>5, <3>1, <3>5, <3>6 DEF Canonical
  <2> QED BY <2>1, <2>2
<1>7. Canonical(head)' /\ Canonical(next)'
  BY <1>4, <1>6 DEF Canonical
<1>8. curEpoch' = head /\ (curEpoch' + 1) % 3 = next
  BY <1>1, <1>3
<1>9. Canonical(curEpoch)' /\ Canonical((curEpoch + 1) % 3)'
  BY <1>7, <1>8 DEF Canonical
<1>10. untrustedNextEpoch' => DeclaresNextBps(untrusted)'
  BY <1>1, <1>2 DEF DeclaresNextBps
<1> QED BY <1>9, <1>10 DEF CanonicalInv

LEMMA NextBond == BondInv /\ [WatchedNext]_vars => BondInv'
<1> SUFFICES ASSUME BondInv, [WatchedNext]_vars PROVE CanonicalInv'
  BY NextGenuine DEF BondInv
<1>1. ASSUME UNCHANGED <<epochs, curEpoch, initialized, untrusted, untrustedNextEpoch>>,
             lastValidAt' # 0 => lastValidAt # 0
      PROVE  CanonicalInv'
  BY <1>1 DEF BondInv, CanonicalInv, Canonical
<1>2. ASSUME NEW a \in Accounts, Deposit(a) \/ Withdraw(a) PROVE CanonicalInv'
  BY <1>1, <1>2 DEF Deposit, Withdraw, headVars
<1>3. ASSUME NEW a \in Accounts, NEW i, Challenge(a, i) PROVE CanonicalInv'
  BY <1>1, <1>3 DEF Challenge
<1>4. ASSUME NEW bps \in ValidatorSets, InitWithValidators(bps) PROVE CanonicalInv'
  BY <1>4 DEF InitWithValidators, BondInv, GenuineInv, IInv, PendingInv, CanonicalInv
<1>5. ASSUME NEW b \in InitBlocks, InitWithBlock(b) PROVE CanonicalInv'
  BY <1>5, InitWithBlockKeepsCanonical DEF BondInv
<1>6. ASSUME NEW a \in Accounts, NEW b \in Blocks, AddLightClientBlock(a, b)
      PROVE  CanonicalInv'
  BY <1>6, AddKeepsCanonical
<1>7. CASE AdminPause \/ UNCHANGED vars \/ WatchedTick
  BY <1>1, <1>7 DEF AdminPause, WatchedTick, Tick, vars, headVars
<1> QED BY <1>2, <1>3, <1>4, <1>5, <1>6, <1>7 DEF WatchedNext, Transaction

\* No approval of a canonical block fails a challenge.
LEMMA HonestIsNotChallenged ==
  ASSUME BondInv, untrusted \in HonestBlocks, NEW a, NEW i, Challenge(a, i)
  PROVE  FALSE
<1>1. lastValidAt # 0
  BY DEF Challenge, Unconfirmed, BondInv, GenuineInv, IInv, TypeOK
<1>2. Canonical(UntrustedSlot)
  BY <1>1 DEF BondInv, CanonicalInv, GenuineInv, IInv, PendingInv, UntrustedSlot
<1>3. /\ i \in SignatureSet(untrusted, epochs[UntrustedSlot].bps)
      /\ ~ GoodSignature(untrusted, epochs[UntrustedSlot].bps, i)
      /\ untrusted.epochId = epochs[UntrustedSlot].epochId
  BY <1>1, UntrustedSlotIs
     DEF Challenge, CheckBlockProducerSignatureInHead, BondInv, GenuineInv, ApprovalInv
<1>4. /\ i \in Approved(untrusted, EpochProducers[untrusted.epochId])
      /\ ~ GoodSignature(untrusted, EpochProducers[untrusted.epochId], i)
  BY <1>2, <1>3 DEF Canonical, SignatureSet, Approved
<1> QED BY <1>4, ChainAssumption

\* The bond: it stays, or withdraw pays it back.
BondKept ==
    (untrusted \in HonestBlocks /\ lastSubmitter \in Depositors)
    => \/ lastSubmitter \in Depositors'
       \/ wallet'[lastSubmitter] = wallet[lastSubmitter] + lockEthAmount

LEMMA StepKeepsBond == BondInv /\ [WatchedNext]_vars => BondKept
<1> SUFFICES ASSUME BondInv, [WatchedNext]_vars,
                    untrusted \in HonestBlocks, lastSubmitter \in Depositors
             PROVE  \/ lastSubmitter \in Depositors'
                    \/ wallet'[lastSubmitter] = wallet[lastSubmitter] + lockEthAmount
  BY DEF BondKept
<1>1. /\ balanceOf \in [Accounts \cup {NoAccount} -> {0, lockEthAmount}]
      /\ lastSubmitter \in Accounts /\ balanceOf[lastSubmitter] = lockEthAmount
      /\ lockEthAmount # 0 /\ wallet \in [Accounts -> Nat]
  BY DEF BondInv, GenuineInv, IInv, TypeOK, Depositors
<1>2. ASSUME UNCHANGED balanceOf PROVE lastSubmitter \in Depositors'
  BY <1>2 DEF Depositors
<1>3. ASSUME NEW a \in Accounts, Deposit(a) PROVE lastSubmitter \in Depositors'
  BY <1>1, <1>3 DEF Deposit, Depositors
<1>4. ASSUME NEW a \in Accounts, Withdraw(a)
      PROVE  \/ lastSubmitter \in Depositors'
             \/ wallet'[lastSubmitter] = wallet[lastSubmitter] + lockEthAmount
  BY <1>1, <1>4 DEF Withdraw, Depositors
<1>5. ASSUME NEW a \in Accounts, NEW i, Challenge(a, i) PROVE FALSE
  BY <1>5, HonestIsNotChallenged
<1>6. CASE \/ \E bps \in ValidatorSets : InitWithValidators(bps)
           \/ \E b \in InitBlocks : InitWithBlock(b)
           \/ \E a \in Accounts, b \in Blocks : AddLightClientBlock(a, b)
           \/ AdminPause \/ WatchedTick \/ UNCHANGED vars
  BY <1>2, <1>6 DEF InitWithValidators, InitWithBlock, AddLightClientBlock, AdminPause,
                    WatchedTick, Tick, vars, moneyVars
<1> QED BY <1>2, <1>3, <1>4, <1>5, <1>6 DEF WatchedNext, Transaction

\* A relayer of the canonical chain is never slashed, whatever an unconfirmed block has
\* written into the ring of epochs: the bond stays or is paid back.
THEOREM HonestRelayerKeepsBond == FairSpec => HonestBondIsSafe
<1>1. Init => BondInv
  BY InitGenuine DEF Init, BondInv, CanonicalInv
<1>2. BondInv /\ [FairNext]_vars => BondInv'
  BY NextBond, FairIsWatched
<1>3. BondInv /\ BondInv' /\ [FairNext]_vars => [BondKept]_vars
  BY StepKeepsBond, FairIsWatched
<1>4. [][BondKept]_vars => HonestBondIsSafe
  BY DEF BondKept, HonestBondIsSafe
<1> QED BY <1>1, <1>2, <1>3, <1>4, PTL DEF FairSpec

-----------------------------------------------------------------------------
(***************************************************************************)
(* What a user of the contract relies on in the end: with a watcher, and   *)
(* with what the contract trusts NEAR and its admin with, every verified   *)
(* block beyond the first was signed by its epoch's canonical producers.   *)
(***************************************************************************)
SignedByProducers(b) == Genuine(b, EpochProducers[b.epochId])

VerifiedAreCanonical == \A b \in VerifiedBlocks \ InitBlocks : SignedByProducers(b)

SignedInv == BondInv /\ \A b \in Stored \ InitBlocks : SignedByProducers(b)

LEMMA ConfirmableIsSigned ==
  ASSUME BondInv, Confirmable
  PROVE  SignedByProducers(untrusted)
<1>1. /\ lastValidAt # 0 /\ initialized
  BY DEF Confirmable, BondInv, GenuineInv, IInv, PendingInv
<1>2. Canonical(UntrustedSlot)
  BY <1>1 DEF BondInv, CanonicalInv, UntrustedSlot
<1>3. /\ untrusted.epochId = epochs[UntrustedSlot].epochId
      /\ Genuine(untrusted, epochs[UntrustedSlot].bps)
  BY <1>1 DEF BondInv, GenuineInv, ApprovalInv
<1> QED BY <1>2, <1>3 DEF Canonical, SignedByProducers

LEMMA NextSigned == SignedInv /\ [WatchedNext]_vars => SignedInv'
<1> SUFFICES ASSUME SignedInv, [WatchedNext]_vars,
                    NEW b \in Stored' \ InitBlocks
             PROVE  SignedByProducers(b)
  BY NextBond DEF SignedInv, SignedByProducers
<1>1. ASSUME UNCHANGED blocks_ PROVE SignedByProducers(b)
  BY <1>1 DEF SignedInv, Stored
<1>2. ASSUME NEW a \in Accounts, NEW c \in Blocks, AddLightClientBlock(a, c)
      PROVE  SignedByProducers(b)
  <2>1. Stored' = IF Confirmable THEN Stored \cup {untrusted} ELSE Stored
    BY <1>2, AddStores DEF SignedInv, BondInv
  <2> QED BY <2>1, ConfirmableIsSigned DEF SignedInv
<1>3. ASSUME NEW c \in InitBlocks, InitWithBlock(c) PROVE SignedByProducers(b)
  <2>1. \A h \in Heights : blocks_'[h] \in {blocks_[h], c}
    BY <1>3 DEF InitWithBlock, SignedInv, BondInv, GenuineInv, IInv, TypeOK
  <2> QED BY <2>1 DEF SignedInv, Stored
<1>4. CASE \/ \E a \in Accounts : Deposit(a) \/ Withdraw(a)
           \/ \E a \in Accounts, i \in 1..MAX_BLOCK_PRODUCERS : Challenge(a, i)
           \/ \E bps \in ValidatorSets : InitWithValidators(bps)
           \/ AdminPause \/ WatchedTick \/ UNCHANGED vars
  BY <1>1, <1>4 DEF Deposit, Withdraw, Challenge, InitWithValidators, AdminPause,
                    WatchedTick, Tick, headVars, vars
<1> QED BY <1>2, <1>3, <1>4 DEF WatchedNext, Transaction

\* With a watcher, every verified block beyond the first carries genuine approvals of
\* more than two thirds of the stake of its epoch's canonical producers.
THEOREM VerifiedBlocksAreCanonical == FairSpec => []VerifiedAreCanonical
<1>1. Init => SignedInv
  BY InitGenuine DEF Init, SignedInv, BondInv, CanonicalInv, Stored
<1>2. SignedInv /\ [FairNext]_vars => SignedInv'
  BY NextSigned, FairIsWatched
<1>3. SignedInv => VerifiedAreCanonical
  BY ConfirmableIsSigned DEF SignedInv, VerifiedAreCanonical, VerifiedBlocks, BlockHashes, Stored
<1> QED BY <1>1, <1>2, <1>3, PTL DEF FairSpec
=============================================================================
