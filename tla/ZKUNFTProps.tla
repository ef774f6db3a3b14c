---------------------------- MODULE ZKUNFTProps ----------------------------
(***************************************************************************)
(* What must hold of the tokens, their leaves and the tree.                *)
(***************************************************************************)
EXTENDS ZKUNFT, Powers, FiniteSets

\* No token is left out of the tree or enters it twice, although the receiver runs
\* between the moment its id is taken and the moment its leaf is added, mints others
\* there, and may fail: the ids without a leaf are those of the open mints, every other
\* one has one leaf, with its own data, and NFTsLeft counts them.
Committed1(id) ==
    /\ nft.leaves[id] = Leaf(nft.leafData[id])
    /\ nft.leafData[id].id = id
    /\ nft.leafData[id].tokenURI = tokenURI(nft.readableURI[id])
    /\ Cardinality({i \in DOMAIN nft.hashes : nft.hashes[i] = nft.leaves[id]}) = 1

EveryTokenCommitted ==
    LET open == {calls[i].id : i \in DOMAIN calls}
    IN  /\ open \cap DOMAIN nft.leafData = {}
        /\ open \cup DOMAIN nft.leafData = 0..(nft.tokenIds - 1)
        /\ \A id \in DOMAIN nft.leafData : Committed1(id)
        /\ Len(nft.hashes) = Cardinality(DOMAIN nft.leafData)
        /\ nft.NFTsLeft = Supply - Len(nft.hashes)

\* The largest k with 2^k up to n.
Depth(n) == CHOOSE k \in 0..n : PowerOfTwo(k) <= n /\ n < PowerOfTwo(k + 1)

\* The nodes of the tree over a hash; and those that are j levels over a leaf.
Over(hash) ==
    {p \in Range(nft.tree) : Len(p) = 2 /\ p \in {Parent(hash, p[2]), Parent(p[1], hash)}}
Lineage(leaf, k) ==
    LET over[j \in 0..k] == IF j = 0 THEN {leaf} ELSE UNION {Over(h) : h \in over[j - 1]}
    IN  over

\* The hashes that proofs of k nodes lead to, one node at a time, as processProof takes
\* them.  Hashes are injective: on the way to the root there are only nodes of the tree,
\* each the pair of the hash proved so far and the next node of the proof.
Above(hash) ==
    {p \in Over(hash) : \E sibling \in {p[1], p[2]} : verify(<<sibling>>, p, hash)}
Reached(leaf, k) ==
    LET after[j \in 0..k] == IF j = 0 THEN {leaf} ELSE UNION {Above(h) : h \in after[j - 1]}
    IN  after[k]

\* A node p = Parent(left, right) whose pair a proof hashes as the tree does.
Ascends(p) == AtMost(p[1], p[2])

\* Which leaves the root covers, and which of them a proof shows to be covered.  With n
\* leaves, the first 2^k of them are under the root, 2^k being the largest power of two
\* up to n.  Of these exactly those can be proved, by k nodes of getTree, whose way to the
\* root has no pair with the larger hash first: processProof sorts what createTree does
\* not, and whether a pair is sorted is chance.
RootCoversPowerOfTwo ==
    LET n == Len(nft.hashes)
        k == Depth(n)
    IN  n > 0 =>
          \A i \in 1..n :
             LET over == Lineage(nft.hashes[i], k)
             IN  /\ getRoot \in over[k] <=> i <= PowerOfTwo(k)
                 /\ getRoot \in Reached(nft.hashes[i], k)
                       <=> i <= PowerOfTwo(k) /\ \A j \in 1..k : \A p \in over[j] : Ascends(p)

\* What the comment on _commitToTree says, that a mint commits its token to the Merkle
\* tree: its leaf is under the root.
EveryLeafUnderRoot ==
    LET n == Len(nft.hashes)
        k == Depth(n)
    IN  n > 0 => \A i \in 1..n : getRoot \in Lineage(nft.hashes[i], k)[k]
=============================================================================
