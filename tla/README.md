# Formal models of ZKU-Uploads

TLA+ models of the programs in this repository that keep state over time: the
contracts of a NEAR bridge and of a Harmony bridge, a rollup contract, a recursive rollup,
an NFT contract with the page in front of it, the witness calculator of the compiled
circuits, and two parts of a zkSync node. Each is model-checked with TLC on small
instances. With TLAPS, theorems are proved about each of them, for every value of its
constants: every safety property that a passing run checks is a theorem.

- [1. Inventory](#1-inventory)
- [2. Plan](#2-plan)
- [3. Modules and how they correspond to the code](#3-modules-and-how-they-correspond-to-the-code)
- [4. What the runs check and show](#4-what-the-runs-check-and-show)
- [5. What is proved](#5-what-is-proved)
- [6. What is not modelled](#6-what-is-not-modelled)

`PROJECT.json` lists the components, the runs, the faulty variants, the source lines
of every definition, the findings, the hazards and the theorems.

## 1. Inventory

The repository collects the assignments of a course. Some of them hold programs with
state, some circuits or essays, and many files are vendored or generated (circomlib,
Groth16 verifiers, build artifacts, keys). The programs:

### NEAR light client on Ethereum: `assignment-6/NearBridge.sol`

An optimistic light client. *State*: bonds (`balanceOf`), the most recently added block
(`untrusted*`) with the end of its challenge period (`lastValidAt`), a ring of three
epochs of block producers with the current one, and hashes of confirmed blocks by height.
*Operations*: `deposit`, `withdraw`, `challenge`, `initWithValidators`, `initWithBlock`,
`addLightClientBlock`, the views `bridgeState`, `blockHashes`, `blockMerkleRoots`, and
pausing. *Interactions*: relayers submit blocks, watchers challenge them, other contracts
read the views. *Hard*: no signature is checked on submission; a block becomes
verified by the mere passing of time and is stored only when the next one comes, so that
three functions recompute the head on the fly; unconfirmed blocks write ahead into
the ring; blocks replace each other; a challenge races the deadline. *Correct when*: what a
view answered it answers for ever; only blocks signed by more than two thirds of the stake
become verified if somebody watches; an honest relayer keeps its bond and gets through;
the contract can always pay.

### Rollup contract: `assignment-4/3.3/RollupNC.sol`

*State*: the balance root, the queue of pending deposit subtrees with its counter
`queueNumber` and height `depositSubtreeHeight`, batches (`updates`), tokens. *Operations*:
`deposit`, `processDeposits`, `updateState`, `withdraw`, `registerToken`, `approveToken`.
*Interactions*: users deposit and withdraw, a coordinator inserts subtrees and proves
batches off chain. *Hard*: deposits merge subtrees while others are removed; the counter is
decremented by a power of two that is not compared with what is removed and can wrap
around; a proof may be over a root that is stale when mined; the height an insertion is
given is not compared with the subtree's. *Correct when*: no deposit is lost, doubled or
overtaken, no update is lost from the root, deposits stay possible, leaves end up at the
depth of the balance tree.

### zkSync committer: `assignment-4/2.1/committer/mod.rs`

*State*: the request channel, the request in progress with its open database transaction,
the tables. *Operations*: `save_pending_block`, `seal_incomplete_block`, `finish_block`,
`remove_reverted_block`, and the second task, `poll_for_new_proofs_task`. *Interactions*:
a state keeper and a root hash calculator send over one channel, the two tasks share the
database. *Hard*: every `expect` ends the task with its transaction open, the outcome of a
failed commit is unknown, a restarted node continues from the tables, requests of two
senders interleave. *Correct when*: a block is stored entirely or not at all, root
hashes are sequential, no application panic is reached, every block is finished.

### zkSync mempool queue: `assignment-4/2.1/mempool/src/mempool_transactions_queue.rs`

*State*: priority operations, pending (a heap by `valid_from`) and ready transactions.
*Operations*: `new`, `select_transactions`, which runs `select_l1_transactions`,
`prepare_new_ready_l2_transactions` and `select_l2_transactions`. *Interactions*: the
mempool fills a queue for every block, the state keeper executes what is selected. *Hard*:
the queue can be stale when it is used; what does not fit is thrown away with the queue;
two loops share one budget; heap order is not execution order. *Correct when*: priority
operations are executed in order, transactions in the order of their nonces and not
before they are valid, blocks do not overflow, nothing starves.

### Harmony bridge: four contracts of `assignment-6`

`EthereumLightClient.sol` (on Harmony: a tree of relayed headers by hash and by height),
`HarmonyLightClient.sol` (on Ethereum: checkpoints by epoch, number and root, submitted by
trusted relayers, with an administrator and a pause), `TokenLockerOnHarmony.sol` and
`TokenLockerOnEthereum.sol` (each executes a lock or burn of the other chain once it is
proved against the light client). *Hard*: headers in any order and on forks, receipts proved
again or against another checkpoint, relayers removed and the client paused in between, a
anybody relays headers, and the locker takes the first one of a height. *Correct when*: every
settled lock and every burn is executed exactly once.

### NFT with a Merkle tree: `assignment-1/NFTfrontend/contracts/ZKUNFT.sol`

*State*: the token counter, `NFTsLeft`, names and leaf data by id, the leaves in the order they
were added and by id, the tree. *Operations*: `mintNFT`, which ends by adding a leaf and
building the tree again, and the views `getRoot` and `verify`. *Interactions*: the front end
mints and shows tree and root; `_safeMint` calls the receiver in the middle of `mintNFT`.
*Hard*: the receiver may mint in its turn, or fail; the tree is built by halving, whatever
the number of leaves. *Correct when*: every token has one leaf, and the root covers the
leaves it should.

### NFT page: `assignment-1/NFTfrontend/src/App.js`

*State*: what the page shows (account, NFTs left, receiver, leaves, tree, root, the two
counts), the labels of the copy buttons, and the calls in progress. *Operations*: the effect
that loads it, `loadWeb3`, `nftsleft`, `getLeaves`, `getTree`, `getRoot`, `mintNFT`,
`handleCopy`, and the timers. *Interactions*: a wallet signs and sends, a node answers the
contract's views, others mint meanwhile. *Hard*: every handler is async and sets state after
its awaits, so answers overtake each other and two answers shown side by side are of
different moments; `mintNFT` announces the NFT when the transaction is sent. *Correct when*:
however old what is shown may be, it errs on a known side and stays valid.

### Witness calculator: `assignment-3/circuits/*/*_js/witness_calculator.js`

Three identical copies. *State*: the memory of one WebAssembly instance. *Operations*:
`calculateWitness`, `calculateBinWitness`, `calculateWTNSBin`, all through
`_doCalculateWitness`. *Interactions*: callers share the object. *Hard*: each method awaits
between setting the inputs and reading the witness; a failed call leaves inputs behind;
names and numbers are cut into words by position. *Correct when*: a call is rejected
exactly if its input does not fit, and otherwise returns the witness of its own input.

### Recursive rollup: `assignment-4/3.4/bonus.ts`

*State*: per operator a stack of pending deposits and an account database; the proofs.
*Operations*: `processDeposit`, `transaction`, `merge`. *Interactions*: operators execute the
same signed transactions on copies and merge each other's proofs. *Hard*: objects are changed
before later assertions fail; the sender is written before the receiver is read; a missing
receiver is not asserted. *Correct when*: nobody pays without a signature, nothing is
executed twice, a proof is a run of the ledger.

### The rest

The first version of the NFT contract in `assignment-1`, `CardGame.sol` and `DiceGame.sol` of `assignment-3`,
`Loan.sol` and `LoanDapp.sol` of `assignment-5` have some state and are not modelled; they, the
circuits, tests and vendored files are listed with the reasons in section 6.

The components do not call each other across assignments. Within the Harmony bridge the
lockers call the light clients, and the two halves interact through relayers; the page calls
the NFT contract.

## 2. Plan

Done, in this order (most important first; `->` is "is composed or extended by"):

1. `NearBlocks -> NearBridge -> NearBridgeProps -> NearBridgeWatched`, with the abstract
   specification `HeaderLog` that `NearBridge` implements.
2. `Powers -> RollupNC -> RollupNCProps`; `ZKUNFTProps` and `WitnessCalculator` use `Powers` too.
3. `Committer -> CommitterProps`, with the abstract specification `BlockStore` that `Committer`
   implements.
4. `MempoolQueue -> MempoolQueueProps`.
5. `EthereumLightClient`, `HarmonyLightClient` (by INSTANCE) `-> LightClients`, the two side by
   side, `-> TokenBridge -> TokenBridgeProps`.
6. `ZKUNFT -> FrontEnd -> FrontEndProps`: the contract, and the page over it.
7. `WitnessCalculator -> WitnessCalculatorProps`.
8. `RecursiveRollup -> RecursiveRollupProps`.
9. Proofs: `DataInduction`, a library of lemmas about data that the others extend, and one
   module per component: `NearBridge_proofs` (with the watcher), `RollupNC_proofs`,
   `ZkSync_proofs` (the committer and the mempool queue), `TokenBridge_proofs` (with both light
   clients), `RecursiveRollup_proofs`, `FrontEnd_proofs` (with the contract),
   `WitnessCalculator_proofs`.

Left, in order of worth:

1. Abstract specifications, as `HeaderLog` and `BlockStore` are, of other components (the rollup
   as a list of deposits and batches), with their refinements proved.
2. Models: `CardGame` and `DiceGame` with `reset`; the whitelist of the first NFT contract,
   whose `whitelistClaimed` is read and never written.

No module declares a RECURSIVE operator, which the prover cannot
use: recursion is a recursive function.

## 3. Modules and how they correspond to the code

Conventions. A contract call that reverts changes nothing, so an external function is one
action, whose guard is the conjunction of its `require`s and of the checks inside the
calls it makes. Names are the code's. Hashes are injective: a value stands for its hash.
History variables, marked as such, exist for the properties only. Next to some
definitions stands a *faulty variant* (`MayWithdrawAnytime`, `Forget`...): the mistake a
programmer could make there; `PROJECT.json` pairs every checked property with one whose
use makes TLC report that property violated, which shows that the property can fail.

| module | models | notes |
|---|---|---|
| `NearBlocks` | blocks, approvals, the quorum, the signature test | a signature is the key that made it |
| `NearBridge` | every function of `NearBridge.sol` | `Tick` is `block.timestamp`; `AdminPause` stands for the inherited `AdminControlled` |
| `HeaderLog` | abstract: a log of verified blocks that only grows | no ring, no deferred commit, no money; it states its own quorum |
| `NearBridgeProps` | its invariants, action properties, refinement mapping | |
| `NearBridgeWatched` | a watcher that challenges in time, a persistent relayer | fairness and progress |
| `Powers` | powers | used by `RollupNC`, `WitnessCalculator` and the properties of `ZKUNFT` |
| `RollupNC` | every function of `RollupNC.sol` | a node is its height and the deposits under it, a root what was inserted where and the number of batches; `PrepareUpdate` is the off-chain prover |
| `RollupNCProps` | its properties | two of them as long as the coordinator was `disciplined`, a history variable |
| `Committer` | both tasks, one action per statement of a request | `db` committed tables, `transaction` what the open transaction sees |
| `BlockStore` | abstract: tables to which whole requests are applied in the order sent | no statements, no transactions, no panics |
| `CommitterProps` | its properties, refinement mapping | |
| `MempoolQueue` | `new` and one action per iteration or exit of both loops | `executed*` and `blocks` are the state keeper's |
| `MempoolQueueProps` | its properties | |
| `ZKUNFT`, `ZKUNFTProps` | `mintNFT` and all it calls, `getRoot`, `verify` | `calls` is the stack of open mints, each with the storage it would be rolled back to |
| `FrontEnd`, `FrontEndProps` | every handler of `App.js` over `ZKUNFT`, one action per piece of code between two awaits | `tasks` are the calls in progress, `sent` the wallet's transactions that are not mined, `timers` the running timeouts |
| `WitnessCalculator`, `...Props` | the three methods up to their await and from it on | `instance` is the shared WebAssembly memory |
| `RecursiveRollup`, `...Props` | the three branches of the proof system | `objects` are each operator's; a proof is its source, its target and, as history, its steps |
| `EthereumLightClient`, `...Props` | `initialize`, `addBlockHeader`, `VerifyReceiptsHash` | proof of work is external |
| `HarmonyLightClient`, `...Props` | every function of the contract | roles are sets of accounts |
| `LightClients` | both light clients side by side | `H!` names the definitions of the Harmony one |
| `TokenBridge`, `...Props` | the lockers, both chains and the relayers | one token per lock and burn |
| `MC*` | small instances | |
| `DataInduction`, `*_proofs` | lemmas and theorems, section 5 | |

What is abstracted, by component:

- *NearBridge.* Integers do not wrap: the comment on line 25 of the source assumes that
  block timestamps are small. The pause guard of the views (`PAUSED_VERIFY`) is left out:
  the properties are about what the views answer. Borsh parsing, ed25519 and the epoch's
  packing of stakes two per word are external or a data layout.
- *RollupNC.* `Word` is the modulus of the unchecked arithmetic (2^256 in the code, small
  here; wrapping happens at 0 in either). ETH sent along with an ERC20 deposit, the
  transfers' tokens and the signature in `withdraw` are left out. `withdraw` records nothing, in
the code as in the model: the same withdrawal can be presented again and is paid again. No
property says that funds cover the balances, since they need not.
- *Committer.* The database and the senders are not in the repository. The tables are
  those this file writes. Senders keep to the order that the requests and the panics of
  `finish_block` presuppose, except for `SendStray`, which sends anything.
- *MempoolQueue.* A batch may be of several accounts. The sort of the ready transactions compares
  last nonces, of whichever accounts they are, which for some batches contradicts the order of
  the nonces of an account: `NonceAssumption` excludes those, the code does not. The sort is any sequence of the same elements that it
  leaves in order. `add_l1_transactions` is dead code. A restart of a panicked node is not modelled.
- *FrontEnd.* The wallet, the node and other users are external: they answer from any moment
  between two transactions, in any order, or refuse, and nobody catches that. The three panels
  have the same code; the wallet's transactions are mined in the order of their nonces. Styles
  and layout are left out.
- *WitnessCalculator.* The compiled circuit is a table of input signals, its assertions and its
  witness. Words have `HexPerWord` digits of base `HexBase` (8 and 16 in the code) and numbers
  `n32` words; all conversions between them are modelled. FNV-1a is a table, collisions aside.
  `flatArray`, a recursion in the code, opens the arrays of one level at a time, which gives the numbers
  in the same order, from left to right; arrays are nested at most `MaxNesting` deep. A circuit
  has an input, and the two sections of a `.wtns` file are of lengths that fit one word.
- *RecursiveRollup.* Commitments are injective, so that a state stands for its commitment;
  proofs cannot be forged; UInt64 and UInt32 fail rather than wrap, as in snarkyjs. What the
  database answers for a missing account is any of `Nobodies`.
- *ZKUNFT.* Storage is one record, so that a failed call can restore it. The order of hashes as
  numbers, by which `processProof` sorts every pair, is the constant `AtMost`. `tokenURI` keeps
  names apart, which needs names free of quotes: the code does not escape them.
- *TokenBridge.* Anybody relays any header of Ethereum, in any order, a fork's before the
  canonical one too: `addBlockHeader` is public, the locker takes the first block of a
  height, and `finalityConfirms` is never read. Harmony's relayers are trusted, as the
  contract's roles say. A checkpoint's root commits to the blocks before it. The roles
  functions inherited from AccessControl are left out. The receipts' data (token,
  amount, recipient) is one token. `bind` and `changeLightClient` are one setting up of each
  locker; that an owner binds to another contract later is not modelled.

## 4. What the runs check and show

Every run is exhaustive for its instance. Run one with
`tlc -config <file>.cfg <module>`.

| run | module, cfg | distinct states | properties |
|---|---|---|---|
| `near_bridge` | `MCNearBridge`, `NearBridge.cfg` | 87,252 | `TypeOK BondLocked Solvent ViewsAgree VerifiedIsFinal FreshIsNotReplaced ImplementsHeaderLog` |
| `near_watched` | `MCNearBridgeWatched`, `NearBridgeWatched.cfg` | 5,649 | `VerifiedAreGenuine HonestBondIsSafe ChainIsVerified` |
| `rollup` | `MCRollupNC`, `RollupNC.cfg` | 1,068,367 | `DepositsInOrder NothingLostFromRoot DepositNeverBlocked SubtreesFit` |
| `committer` | `CommitterProps`, `Committer.cfg` | 821,261 | `TablesAgree OnlyDatabasePanics AllFinished ImplementsBlockStore` |
| `mempool` | `MCMempoolQueue`, `MempoolQueue.cfg` | 256,172 | `NeverPanics PriorityOrder NonceOrder BlocksAreValid AllExecuted` |
| `light_clients` | `MCLightClients`, `LightClients.cfg` | 58,240 | `OneTree RootsHaveCheckpoints ChildrenAreRelayed` |
| `harmony_latest` | `MCHarmonyLightClient`, `HarmonyLatest.cfg` | violated | `LatestIsACheckpoint` |
| `token_bridge` | `MCTokenBridge`, `TokenBridge.cfg` | 93,760 | `ExecutedOnce LocksAreMinted BurnsAreUnlocked` |
| `frontend` | `MCFrontEnd`, `FrontEnd.cfg` | 533,593 | `EveryTokenCommitted RootCoversPowerOfTwo CountsAreUpperBounds ShownStaysInTree` |
| `leaves_under_root` | `MCFrontEnd`, `LeavesUnderRoot.cfg` | violated | `EveryLeafUnderRoot` |
| `recursive_rollup` | `MCRecursiveRollup`, `RecursiveRollup.cfg` | 226,650 | `OnlyOwnersPay NoReplay ProofsAreRuns` |
| `witness_calculator` | `MCWitnessCalculator`, `WitnessCalculator.cfg` | 5,383 | `RejectedIfInvalid OwnWitness` |

Most runs set `CHECK_DEADLOCK FALSE`: the bounds on time, deposits, blocks and failures
end every behaviour, and a panicked task really stops.

**near_bridge.** Two relayers who do whatever the contract lets them, a canonical chain of
four epochs (so that the ring of three wraps around), forged blocks that open and extend an
epoch of their own, one dated so that it may replace another, and blocks the contract must
refuse: exactly two thirds of the stake, too many producers, producers that are not
those committed to. Stakes 2, 1, 1 put the quorum on a rounding boundary. The clock runs to 9 with a challenge period of 2: four blocks can be
confirmed one after the other. It shows that bonds stay where `challenge` needs them, that the
three ways of computing the head agree, that the views never take back an answer, and that
the contract implements `HeaderLog`. Nobody has to watch for these.

**near_watched.** Under `FairSpec` every forged pending block is challenged before its deadline
(`WatchedTick`; `challenge` itself is never paused, since a pause of it would void the
argument) and a relayer keeps submitting. An attacker, whose ETH is finite (`InitialEth`),
submits forged blocks or genuine ones, deposits, withdraws, and the administrator pauses
deposits, submissions and withdrawals again and again. Fairness: weak for the challenge, the
clock and unpausing; strong for the relayer's deposit and submission, which others disable
again and again by pausing and by blocks of their own: a relayer that retries. None of it is
guaranteed by the contract, whose comments leave relaying and watching to the participants.
The clock runs only while a block is pending and its bound of 20 is never reached before the
chain is verified, or `ChainIsVerified` would fail.

**rollup.** The coordinator is arbitrary: it inserts any subtree at any empty position, at any
depth, at any time, so the counter wraps. Seven deposits fill subtrees
of three heights (the first may be of ETH with a value of at least the amount, or of a token; the others are the
coordinator's empty ones), two batches are proved over any earlier root, withdrawals are taken as often as funds
last. No deposit is
lost or reordered, no update is lost from the root. `DepositNeverBlocked` and `SubtreesFit` are about
histories in which every insertion was of a subtree of the stored height, given an empty
place of that height (`disciplined`): as long as it is so the counter is exact, deposits cannot be
blocked and leaves end up at the right depth. This is the discipline the contract does
not enforce; after one insertion of another height the two say nothing.

**committer.** Three blocks of two updates, a channel of two. At most one database failure (at
the start, before the first request, at any statement, at the commit with either outcome, or of the polling task), one restart at any
moment and one request out of order. `ImplementsBlockStore` holds with all of them, and
implies that finished blocks have no gap (`FinishedHaveNoGap`); the
others hold as long as no request was out of order. Fairness: both spawned tasks run, and
both senders go on. Nobody has to restart a node, so `AllFinished` excepts the case that a
database failure ended the handler for good.

**mempool.** Three priority operations and three transactions (a second nonce valid before the
first, a batch of two accounts whose parts become valid at different times), block capacity 3: a block
holds two of the operations, or one, and an operation and the batch compete for it. Queues are filled with processed operations among the new ones;
`required_chunks` fails once; once the mempool has lost operations or their order, in any way.
The assertion "Wrong order for priority ops" fails in the last case only, and then keeps
`PriorityOrder`. Fairness: time passes, blocks are proposed, the loops run on, blocks are
executed: the block proposer's timer. Chunks of every operation fit an empty block.

**light_clients.** Arbitrary submissions to both: eleven headers with forks off the first chain
at three heights, among them a skipped height, one that is too easy and one at the limit; two
epochs, three checkpoints, an administrator who pauses and changes relayers and thresholds
(2, and 256, which does not fit `uint8`). `ChildrenAreRelayed` assumes weak fairness for every
header: somebody submits it.

**token_bridge.** Ethereum settles on a block with a lock; a fork's block of the same height has
a lock that is never settled, its child the settled lock once more, and these headers may be
relayed first. Then the contract mints from the fork, what settled on that height is stuck, and
`ExecutedOnce` bounds the damage: a lock is minted once for every height whose first relayed
block has it. If the first headers are canonical, a lock is minted once and only if it is settled.
Harmony's chain grows to four blocks in two epochs, so
that two checkpoints commit to the same burn. A stranger offers a forged checkpoint; the
administrator pauses, unpauses, adds and removes relayers; proofs are presented again.
Fairness: the owners set the lockers up, relayers and users persist, strongly so for the
relayer of checkpoints. `BurnsAreUnlocked` is about burns that a later block of the same epoch
follows: the locker looks the root up under the epoch of the proved block, and a root
commits to earlier blocks, so a burn in the last block of an epoch has no checkpoint.

**frontend.** A supply of six (the code's is 8; six leaves already give a tree with an odd
level above the leaves). Below the page: a user and a contract whose callback mints, to itself
or to the user, to any depth, and may fail at any point. Ids, leaves and `NFTsLeft` agree at
every moment, open mints included. With n leaves the root covers the first 2^k of them only, the largest power
of two up to n; the run shows that it covers exactly these, and which of them `verify`
accepts a proof for: those over which every pair has the smaller hash first, since `_createTree`
hashes pairs by position and `processProof` by value. The hashes of the instance are compared in an
order in which some pairs ascend and some do not. The page is opened when
one token is minted; then the user makes four clicks or entries, others mint once more, and
a handler starts only while at most one other call is in progress (the answers of a mint and
of a reload come on top), over the panels of tree and root: enough for two answers of one
handler to overtake each other across a mint. The counts shown are upper bounds, although they
may be of any age, and what is shown of the tree remains in it, because leaves are only ever
appended and the tree is rebuilt around whole subtrees.

**leaves_under_root.** The comment of `_commitToTree` says that a mint commits its token "to a Merkle
tree": with three leaves (as with 5, 6 and 7) the last are under no root.

**recursive_rollup.** Two operators, two accounts and deposits for a third and, in vain, for one
that exists; five signed transactions (to an account that may be missing, to oneself, beyond
the receiver's maximal balance, two with one nonce); up to four proofs, merged in every way.
Balances go to 3 and nonces to 2, so that both overflow.

**witness_calculator.** Two calls of any of the three methods on one object, their awaits
interleaved; ten inputs: nested arrays and keys in another order, numbers beyond the prime, beyond the words and negative,
missing, excessive and unknown ones, and one that fails an assertion; arrays are nested at most
two deep, so that one holds numbers beside arrays. Two words of two digits
per number, hashes with leading zeros in either half. A call during whose await another one began is excepted from
`OwnWitness`: it returns the other's witness, which the class does nothing against.

**Findings.** `leaves_under_root` (a comment and the code disagree), above. `harmony_latest` (a bug): `getLatestCheckPoint` starts its search for a minimum at 0
and therefore always answers with `checkPointBlocks[0]`, an empty header, already for the
checkpoint of `initialize`. Two observations that are hazards without a property:
`_checkDiffValidity` of the Ethereum client (line 209) lets a difficulty fall by about 1% only,
while the adjustment of EIP issue 100 its comment cites allows 4.8%, so a block that took
minutes to mine is refused with every descendant; and `reset` of the two games leaves part of a
game behind, although the comment on `CardGame.sol` line 48 says that it resets "to init state":
`isDrawn`, which draws are checked against, stays, as do the dice game's count of rolls and winner.

## 5. What is proved

Every theorem is about the component's specification, for every value of its constants that
meets the named assumptions, which TLC evaluates in the runs: `Spec`; `FairSpec` of
`NearBridgeWatched`; `QueueSpec` of the mempool queue; `Both` of the light clients; `BridgeSpec`; `PageSpec`. The fairness in them is not
used. `property` is the property of section 4 that the theorem establishes.

| module (obligations) | theorem | property |
|---|---|---|
| `NearBridge_proofs` (1562) | `SpecIInv` | the inductive invariant |
| | `TypeCorrect` | `TypeOK` |
| | `BondIsLocked` | `BondLocked` |
| | `FinalityOfViews` | `VerifiedIsFinal` |
| | `FreshBlocksStay` | `FreshIsNotReplaced` |
| | `ContractIsSolvent` | `Solvent` |
| | `ViewsAlwaysAgree` | `ViewsAgree` |
| | `ContractImplementsLog` | `ImplementsHeaderLog` |
| | `WatchedBlocksAreGenuine` | `VerifiedAreGenuine` |
| | `HonestRelayerKeepsBond` | `HonestBondIsSafe` |
| | `VerifiedBlocksAreCanonical` | none: what the last two say together |
| `RollupNC_proofs` (1636) | `NoUpdateIsLost` | `NothingLostFromRoot` |
| | `DepositsKeepTheirOrder` | `DepositsInOrder` |
| | `SubtreesAlwaysFit` | `SubtreesFit` |
| | `DepositsAreNeverBlocked` | `DepositNeverBlocked` |
| `ZkSync_proofs` (2683) | `CommitterImplementsStore` | `ImplementsBlockStore` |
| | `BlocksAreFinishedInOrder` | none: `FinishedHaveNoGap`, which `BlockStore` implies |
| | `TablesDescribeWholeBlocks` | `TablesAgree` |
| | `HandlerEndsWithDatabaseOnly` | `OnlyDatabasePanics` |
| | `OnlyLossPanics` | `NeverPanics` |
| | `OpsRunInOrder` | `PriorityOrder` |
| | `SelectedBlocksAreValid` | `BlocksAreValid` |
| | `NoncesGrow` | `NonceOrder` |
| `TokenBridge_proofs` (770) | `RelayedHeadersFormOneTree` | `OneTree` |
| | `RootsComeFromCheckpoints` | `RootsHaveCheckpoints` |
| | `LocksAndBurnsExecuteOnce` | `ExecutedOnce` |
| `RecursiveRollup_proofs` (758) | `RollupInvariant` | the inductive invariant |
| | `BalancesAreSafe` | `OnlyOwnersPay` |
| | `TransactionsAreUnique` | `NoReplay` |
| | `ProofsStateWhatStepsDo` | `ProofsAreRuns` |
| `FrontEnd_proofs` (2827) | `TokensAreCommitted` | `EveryTokenCommitted` |
| | `RootProvesPowerOfTwo` | `RootCoversPowerOfTwo` |
| | `CountsErrOnOneSide` | `CountsAreUpperBounds` |
| | `ShownIsNeverUndone` | `ShownStaysInTree` |
| `WitnessCalculator_proofs` (2143) | `WitnessCalculatorRejects` | `RejectedIfInvalid` |
| | `WitnessCalculatorReturns` | `OwnWitness` |
| `DataInduction` (1101) | lemmas only | |

**DataInduction.** The library's induction rules take an operator as a parameter, which the provers
cannot instantiate. Here induction is over a *set*: `Induction` says that a set with 0
and the successor of each of its numbers holds all numbers, and follows from
`NatLessThanWellFounded` and `WFMin`. A proof by induction defines the set of the numbers
that have the property. The recursive functions of the community modules (sums, folds,
`FlattenSeq`) are CHOOSE expressions: one lemma shows by induction that a function with the
equations exists, a second that any such function has the value wanted, and the CHOOSE gives one
of them. The results: sums over finite sets and their rearrangements, concatenations and the element each
position comes from, powers, sorting a finite set.

**NearBridge.** Assumptions: the bond and the accounts' ETH are natural numbers; durations
too, with `replaceDuration > lockDuration * NanosPerSecond` (the constructor's `require`);
blocks have natural timestamps and heights of `Heights`; accounts are finitely many and none
is the zero address. `TypeOK` and `BondLocked` are not inductive. `IInv` adds `PendingInv` (a block in its
period was submitted by an account, after initialization, above the confirmed head) and
`StoredInv` (nothing is stored above the confirmed head). `StoredInv` is what makes the deferred
commit harmless: the block committed when the next one is added is written to a
height that was empty, hence `FinalityOfViews`. `BondLocked` needs `PendingInv` for the one action
that sets the submitter, and `withdraw`'s guard for the one that empties a balance.
`FreshBlocksStay` is arithmetic: the period times a billion is less than `replaceDuration`, so a
replacement of a fresh block is dated after the present. `ContractIsSolvent` counts: the ETH
held is at least the bond times the number of depositors, each action moves both sides, and
`challenge` pays out half of the bond that it takes. `ViewsAlwaysAgree` needs `HeadInv`: once the
contract is initialized, a block is stored at the confirmed height.

The refinement, `ContractImplementsLog`, has `lockDuration > 0` as its hypothesis, which the
constructor does not demand: with an empty period a block would be verified in the step
that adds it, which the log does not allow. `LogInv` says where the mapping reads: blocks are
stored at their heights, the current slot has the id of the confirmed head's epoch, the
block in its period is of the epoch of its slot, and the slot after next holds what it wrote ahead.
The log's quorum is three times the signed stake against twice the total; `SameQuorum` shows that the
threshold the contract rounds down lets in nothing else, for natural stakes (`ProducerAssumption`).
`HighestIsHead` identifies the log's highest block with the head the contract computes; then
there is one lemma per action. Only `Tick` moves the log's head, at the deadline; the
deferred commit inside `addLightClientBlock` is invisible because the views had answered with that
block before (`AddKeepsPlaces`).

*With the watcher.* Assumption `WatchedAssumption`: the period is longer than zero (with a period of
zero a block would be verified at once), the relayer is an account, the honest blocks are blocks.
The invariant has three parts beyond `IInv`. `RingInv`: the ring's slots of the
head's epoch and the next one hold producers that the administrator or a verified block
declared, and the third slot is what the pending block has written ahead. `ApprovalInv`: the pending block has enough
approvals of its slot's producers, every one of them is in the signature set that `challenge`
tests, and once the period is over they are genuine, because the watcher did not let the clock
pass the deadline otherwise. `JustifiedInv`: each verified block is genuine by producers declared
at a lower height. Liveness is not used, only that `WatchedTick` waits.

`HonestRelayerKeepsBond` is about the watcher's other side: a challenge compares signatures with
the producers in the ring, so an honest block could be challenged if they were not NEAR's.
`ChainAssumption` says what the contract trusts NEAR and its administrator with: each epoch has its
producers (`EpochProducers`), honest blocks carry their signatures, what they sign declares the next
epoch's, and the administrator gives the first block's. `CanonicalInv`: the ring's slots of the head's
epoch and the next one hold them. A forged block may write ahead into the third
slot, but it is challenged before that slot is used. `SignedInv` combines the two sides:
every stored block beyond the first is genuine by the producers of its epoch.

**RollupNC.** `RollupAssumption`: tokens are finitely many, amounts natural, `Word` at least 1. Three
invariants. `RootInv`: the root is the slots inserted, which are the processed nodes in their order,
and as many batches as `updateNumber`; `PreparedInv`: a waiting proof adds one batch to the root it
was computed over. `updateState` compares that root with the current one, so that
applying the proof loses nothing (`UpdateKeepsRoot`). `QueueInv`: the
leaves under the processed and the pending nodes, from left to right, are the accepted deposits; a
deposit's merging loop joins neighbours and leaves that row as it is, however often it
runs, and whatever the counter says, so no discipline is needed for the order.

`CounterInv` holds while `disciplined` does, which once lost is not regained: `pendingDeposits` is a binary counter. Its nodes are perfect
subtrees of falling heights, `queueNumber` is the number of leaves under them, and the
merges that a deposit makes, as many as `queueNumber + 1` can be halved, are those that
carry (`HalvingsFindRun`). Hence the loop never runs out of nodes and
the stored height is that of the last subtree. Hypothesis `CounterFits`: the counter's
modulus, 2^256 in the code, is above the number of deposits plus one.

**Committer.** `BoundAssumption`: the bounds are natural numbers. `NoGapInv` says it of the committed tables and
of what the open transaction sees; `finish_block` writes only if the block before is finished. It
holds for any number of stray requests, failures and restarts, and so does the refinement,
`CommitterImplementsStore`. Its mapping gives the store the committed tables, the requests not
applied yet with the one in progress first, and whether the handler lives. `StoreInv` says for each statement
which part of its request's effect (`Partial`) the open transaction holds; at the commit it is all of it
(`Store!Applied`). So statements are stutters, the commit applies, a panic drops its request, and a
commit of unknown outcome is one of the two. The other two theorems
except stray requests, as the properties do. `OrderInv`: while there has been none, there is a *progress*
(which block was last sealed, which finished, how far the next one is) that determines the tables
(`TablesAt`), the requests in the channel lead from it to the senders' own position (`Way`), and the handler is
idle, in the middle of the next request, with a transaction that is that request's first part, or ended
by a database failure. A commit with either outcome leaves the tables at one of two
progresses, and a restart makes the senders continue from the tables.

**MempoolQueue.** `QueueAssumption` (finitely many transactions with natural numbers and different hashes)
and `NonceAssumption` (section 3). `QueueInv` has five parts: `TypeInv`; `OpsInv`, that the
selection goes on where the execution ends; `RunInv`, that a queue filled without loss is a run of
consecutive operations that begins at or before the next one, so that skipping processed
ones never meets a gap and the assertion holds; `BudgetInv`, that the chunks taken
by both loops and those left add up to no more than the block; `TxsInv`, that what is selected and
what is ready are valid and together in the sort's order. `NonceOrder` then speaks of single
transactions inside batches: positions in the concatenation of the batches are ordered as the batches are,
and inside one by `NonceAssumption`.

**TokenBridge.** First the light clients, of which any interleaving is a behaviour of `Both`. For Ethereum's headers
(hashes are unique, numbers natural) `TreeInv`: what is stored has its parent stored one below, is listed
once and at its own height, and the heights up to the maximum are those with blocks. For Harmony's checkpoints,
`CheckPointInv`: what the three mappings say of an epoch agrees.
The contract overwrites the header under its number while roots stay, so
`RootsHaveCheckpoints` holds only when relayers do not submit two headers of one number
(`OneHeaderPerNumber`, an explicit hypothesis): this is what the relayers' role is trusted for.

Then the bridge. `BridgeAssumption`: hashes are unique, no lock is in two canonical blocks, locks and
burns are finitely many, administrator and relayers of checkpoints are honest. `BridgeInv`: the tree of headers
(`TreeInv`), in which the first block of a height stays the first; no burn is in two blocks (`ChainInv`), and every valid root commits to blocks of the chain (`ClientOnEthereumInv`); each
executed lock or burn has left its receipts in `spentReceipt`, a lock one for each height whose first
block has it (`MintedInv`, `UnlockedInv`). So a
second execution finds the receipt spent, whichever checkpoint it is proved against.

**RecursiveRollup.** `RollupAssumption`: transactions, the first state and what the database answers
for missing accounts have their types. The invariant is about single proofs and survives
`merge` because `Forward` is transitive and because a proof's transactions have nonces between
those of its source and its target (`Window`): in a merged proof the two ranges of a sender do not
overlap, so no transaction is in both halves. `ProofsAreRuns` asks for a
run of the ledger from a proof's source to its target, a recursive function over the steps: `RunInv` says that
each proof has one, extended by `processDeposit` and `transaction`, joined by `merge`.

**FrontEnd.** `NFTAssumption` (a supply of one or more, contracts are users) and `PageAssumption`. The contract
first. A failing receiver restores the storage from before its mint, so an invariant about the
storage alone is not inductive. `StackInv` speaks of all of them: the present storage and each one that an open
mint would be rolled back to are `Consistent` with the mints open then (every id below the counter is
of a token with its leaf, or of an open mint), and each of them `Grows` into the next. A rollback goes to one of
them; the end of a mint adds a leaf to the present one. That a tree over one more leaf keeps every node
of the tree before is an induction over the levels: each level is a prefix of the new one.

For the root: levels halve (`LevelSizes`), so there are as many as halvings of the number of
leaves, and the last one is the root (`RootIs`). Hashes are injective, so nodes of one level differ, a node is in
one pair only (`NodesDiffer`), and what is over a node is its parent alone (`ParentIs`). A node whose position has
no pair has nothing above it. `ProofsClimb`: the line over leaf i reaches the root exactly if i is at most two to
the number of halvings. `ReachedFollows`: a proof gets up that line as long as the pairs ascend and no further.
Hypothesis `TotalOrder`: of two hashes one is at most the other, and both only if they are equal.

The page: `Mined`, the storage after the last whole transaction, only grows, although the present one may be
rolled back. `PageInv` bounds by it whatever the page shows and whatever answers the calls in progress hold:
counts from one side, nodes of trees by inclusion, and an answer to the length asked after the tree is no
shorter than the tree.

**WitnessCalculator.** `WitnessAssumption`: words have a digit, numbers a word and the circuit an
input and a witness element; the prime is such a number; names have different hashes of two words; inputs
are objects over these names. `CircuitAssumption`: on an assignment of its inputs the circuit computes
`witnessSize` numbers below the prime.

Half of the proof is about data. A numeral of two parts is the first one shifted plus the second
(`NumberConcat`); `DigitsOf` inverts `Number` for every base and bounds the digits of a small number, so that
padding (`PaddedOf`) makes exactly the words wanted (`WordsOf`), writing them to the shared memory loses nothing
(`StoredIs`), and the two words cut from a name's hexadecimal digits are its hash (`HashIs`), whatever
its leading zeros. `FlatArrayType` is an induction over the levels of a nested value: after as many openings as
there are levels only numbers are left.

Then one call. `AfterStep` is the invariant of the loop over an input's elements: either the first n of them are n
different inputs and just these are set, each to its own number (and if these are all the inputs, the
assertions hold and the witness is theirs); or the instance has failed, and either the elements are no
different inputs or they are all the inputs and an assertion fails. `FitsIs` relates
that order to `Fits`, which knows none: an input fits if its elements are different inputs and are all of them. Hence `DoCalculateWitnessIs`: the call fails exactly if its input is not valid, and else leaves its
own witness. For the forms in which the witness is returned, `PiecesOf` says where the pieces of equal length
are in a concatenation, and `FileIs` where the parts of a file.

`WitnessInv` holds under any interleaving of calls: the instance has the witness of a call that waits, unless
that one was overlapped, and a resolved call returned its own. `Begin` overwrites the instance, but it adds every waiting call to `overlapped`;
a rejected call leaves its inputs in the instance and no later call sees them, since each one clears it first.

Only model-checked is what is about liveness (`ChainIsVerified`, `AllFinished`, `AllExecuted`, `ChildrenAreRelayed`,
`LocksAreMinted`, `BurnsAreUnlocked`): fairness and ENABLED are out of the prover's reach.

## 6. What is not modelled

- *The games* (`CardGame.sol`, `DiceGame.sol`): one player at a time takes a turn, nothing overlaps and
  nothing fails half way. What `reset` leaves behind is listed among the hazards.
- *The loan* (`Loan.sol`, `LoanDapp.sol`): `LoanUtilities`, which checks every proof and moves every
  note, is not in the repository; what is left compares dates and roles.
- *The first version of the NFT contract*: superseded by the front end's version, which is modelled.
- *`verify` of `App.js`*: it calls a contract that is commented out, and nothing calls it.
- *`deploy.js`, `generate_witness.js`, `ThreeFields.ts`, tests, `bridge.hmy.js`*: one sequence of calls
  without state of their own; they drive the programs above. The page's styles and layout are output.
- *Circuits* (`MerkleRoot`, `semaphore`, `isSameSuite`, `CardProof`, `TriangleJump`): constraints
  over a prime field, no state and no steps.
- *Two of the three copies of `witness_calculator.js`*: identical to the one that is mapped.
- *Of the lockers*: binding to another contract or light client after the first time.
- *Vendored and generated*: circomlib, verifiers, keys, witnesses, artifacts.
- *Not in the repository, hence external*: `AdminControlled`, `NearDecoder`, `Ed25519`, `TokenLocker`,
  the MPT and MMR provers, `TokenRegistry`, the SNARK verifiers, the compiled circuits, snarkyjs, the wallet and
  the node, the database, state keeper, `aggregated_committer` and the mempool around the
  queue. They are modelled by what the code here expects of them, and marked external in
  `PROJECT.json`.
