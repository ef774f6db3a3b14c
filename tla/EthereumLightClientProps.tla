---------------------- MODULE EthereumLightClientProps ----------------------
(***************************************************************************)
(* What must hold of the tree of relayed Ethereum headers.                 *)
(***************************************************************************)
EXTENDS EthereumLightClient

\* The three indexes describe one tree, in whatever order and on whatever forks headers
\* arrive: there is a block at every height up to blockHeightMax and none above, every
\* block is listed exactly once, at its own height, and its parent one below it.
OneTree ==
    /\ \A n \in Heights :
          blocksByHeight[n] # <<>> <=> n \in FirstHeader.number..blockHeightMax
    /\ \A hash \in DOMAIN blocks :
          \A n \in Heights :
             {i \in DOMAIN blocksByHeight[n] : blocksByHeight[n][i] = hash} # {}
                <=> n = blocks[hash].number
    /\ \A n \in Heights : \A i, j \in DOMAIN blocksByHeight[n] :
          /\ blocksByHeight[n][i] = blocksByHeight[n][j] => i = j
          /\ n > FirstHeader.number =>
                \E k \in DOMAIN blocksByHeight[n - 1] :
                   blocksByHeight[n - 1][k] = blocks[blocksByHeight[n][i]].parentHash

\* An acceptable child of a relayed block is relayed in the end, whatever was relayed
\* before it: no order of submissions and no other fork keeps it out.
Child(p, h) == /\ h.parentHash = p.hash /\ h.number = p.number + 1 /\ h.time > p.time
               /\ CheckDiffValidity(h.difficulty, p.difficulty)

ChildrenAreRelayed ==
    \A p, h \in Headers :
       Child(p, h) => (p.hash \in DOMAIN blocks ~> h.hash \in DOMAIN blocks)

=============================================================================
