------------------------------- MODULE ZKUNFT -------------------------------
(***************************************************************************)
(* The NFT contract of the front end                                       *)
(* (assignment-1/NFTfrontend/contracts/ZKUNFT.sol).  mintNFT calls the     *)
(* receiver in the middle, through _safeMint, so that a mint is two steps  *)
(* and open mints form a stack of calls.  A receiver may mint in its turn; *)
(* it may also fail, and then the contract is again what it was when that  *)
(* mint began, whether or not the caller catches the failure.              *)
(*                                                                         *)
(* Hashes are injective: <<d>> is the hash of the leaf data d, <<l, r>>    *)
(* the hash of two nodes.  The ownership that ERC721 keeps, and transfers, *)
(* are left out: nothing here reads them.                                  *)
(***************************************************************************)
EXTENDS Integers, SequencesExt

CONSTANTS
    Supply,            \* _maxSupply and the length of _leaves: 8 in the code
    Users,             \* accounts that send and receive
    Contracts,         \* those with code, which onERC721Received runs
    URIs,              \* names with descriptions
    AtMost(_, _)       \* the order of hashes as numbers

ASSUME NFTAssumption == Supply \in Nat \ {0} /\ Contracts \subseteq Users

VARIABLES
    nft,               \* the contract's storage
    calls              \* the mints that wait for their receiver, innermost last

vars == <<nft, calls>>

Ids == 0..(Supply - 1)
Zero == <<>>                          \* an element of _leaves that was never written
Leaf(data) == <<data>>
Parent(left, right) == <<left, right>>

Init ==
    /\ nft = [tokenIds |-> 0, NFTsLeft |-> Supply,
              readableURI |-> <<>>, leafData |-> <<>>,    \* functions on the ids set
              hashes |-> <<>>, leaves |-> [id \in Ids |-> Zero], tree |-> <<>>]
    /\ calls = <<>>

-----------------------------------------------------------------------------
(* The tree: the leaves, then level by level the hashes of pairs; a last   *)
(* node without a partner is dropped, as n = n / 2 rounds down.            *)

\* (Faulty variants: the loop condition rounds once more; a last node without a partner
\* is paired with itself.)
NextLevelShort(level) ==
    [i \in 1..((Len(level) - 1) \div 2) |-> Parent(level[2 * i - 1], level[2 * i])]

NextLevelPadded(level) ==
    [i \in 1..(IF Len(level) = 1 THEN 0 ELSE (Len(level) + 1) \div 2) |->
       Parent(level[2 * i - 1], IF 2 * i > Len(level) THEN level[2 * i - 1] ELSE level[2 * i])]

NextLevel(level) ==
    [i \in 1..(Len(level) \div 2) |-> Parent(level[2 * i - 1], level[2 * i])]

\* The loop stops when n is 0, after at most Len(hashes) levels.
createTree(hashes) ==
    LET level[k \in 1..Len(hashes)] ==
           IF k = 1 THEN hashes ELSE NextLevel(level[k - 1])
    IN  FlattenSeq([k \in 1..Len(hashes) |-> level[k]])

getRoot == Last(nft.tree)             \* reverts while the tree is empty

\* MerkleProof.processProof: every pair is hashed in the order of its two values, while
\* createTree hashes it in the order of the leaves.
processProof(proof, leaf) ==
    FoldLeft(LAMBDA hash, sibling : IF AtMost(hash, sibling) THEN Parent(hash, sibling)
                                    ELSE Parent(sibling, hash),
             leaf, proof)

verify(proof, root, leaf) == processProof(proof, leaf) = root

-----------------------------------------------------------------------------
(* mintNFT. *)

tokenURI(uri) == [json |-> uri]       \* injective for names free of quotes

\* mintNFT up to _safeMint: the id is taken.
MayMint(from) == /\ nft.tokenIds # Supply
                 /\ calls # <<>> => from \in Contracts    \* only code runs within a call

newTokenId == nft.tokenIds

\* A mapping with one more key.
With(mapping, key, value) ==
    [k \in DOMAIN mapping \cup {key} |-> IF k = key THEN value ELSE mapping[k]]

\* The id is a local variable, kept across the call.  (A faulty variant: it is read from
\* the counter again.)
ReadAgain(c, mint) == c.tokenIds - 1
Kept(c, mint) == mint.id

Taken == [nft EXCEPT !.tokenIds = @ + 1]

\* mintNFT after _safeMint, with _commitToTree, _addLeaf and _createTree.
Committed(c, mint) ==
    LET id   == Kept(c, mint)
        data == [from |-> mint.from, receiver |-> mint.receiver, id |-> id,
                 tokenURI |-> tokenURI(mint.uri)]
    IN  [c EXCEPT !.NFTsLeft = @ - 1,
                  !.readableURI = With(@, id, mint.uri),
                  !.leafData = With(@, id, data),
                  !.hashes = Append(@, Leaf(data)),
                  !.leaves[id] = Leaf(data),
                  !.tree = createTree(Append(c.hashes, Leaf(data)))]

NoUnderflow(c) == c.NFTsLeft > 0      \* NFTsLeft -= 1 is checked arithmetic

Mint(from, receiver, uri) ==
    [from |-> from, receiver |-> receiver, uri |-> uri, id |-> newTokenId, before |-> nft]

\* The receiver has no code: the whole mint is one step.
MintToAccount(from, receiver, uri) ==
    /\ MayMint(from) /\ receiver \in Users \ Contracts
    /\ NoUnderflow(nft)
    /\ nft' = Committed(Taken, Mint(from, receiver, uri))
    /\ UNCHANGED calls

\* The receiver is a contract: it is called, and this mint waits.
MintToContract(from, receiver, uri) ==
    /\ MayMint(from) /\ receiver \in Contracts
    /\ nft' = Taken
    /\ calls' = Append(calls, Mint(from, receiver, uri))

\* The innermost receiver accepts the token.
ReceiverReturns ==
    /\ calls # <<>> /\ NoUnderflow(nft)
    /\ nft' = Committed(nft, Last(calls))
    /\ calls' = Front(calls)

\* The innermost receiver reverts, or does not answer with its selector: so does its mint.
Rollback == Last(calls).before

ReceiverFails ==
    /\ calls # <<>>
    /\ nft' = Rollback
    /\ calls' = Front(calls)

Next ==
    \/ \E from, receiver \in Users, uri \in URIs :
          MintToAccount(from, receiver, uri) \/ MintToContract(from, receiver, uri)
    \/ ReceiverReturns
    \/ ReceiverFails

Spec == Init /\ [][Next]_vars
=============================================================================
