-------------------------- MODULE TokenBridgeProps --------------------------
(***************************************************************************)
(* What must hold of the token bridge as a whole.                          *)
(***************************************************************************)
EXTENDS TokenBridge

\* The block the locker reads at height n is the first one that was relayed, for good.
Taken(n) == blocks[Head(blocksByHeight[n])]
TakenAt(lock) == {n \in Heights : blocksByHeight[n] # <<>> /\ lock \in Taken(n).receipts}

\* Relayers followed Ethereum at a distance: no fork's block was the first of its height.
CanonicalFirst == \A n \in Heights : blocksByHeight[n] # <<>> => Taken(n) \in Canonical

\* Across relaying in any order and on forks, proofs presented again and against other
\* checkpoints, and roles taken away: a lock mints at most once for every height whose
\* first relayed block has it, so once only, and only if it is settled, when those
\* blocks are canonical; a burn unlocks once, and only if it happened.
ExecutedOnce ==
    /\ \A l \in Locks : minted[l] <= Cardinality(TakenAt(l))
    /\ CanonicalFirst => \A l \in Locks : minted[l] > 0 =>
                            minted[l] = 1 /\ \E h \in Canonical : l \in h.receipts
    /\ \A b \in DOMAIN unlocked : unlocked[b] > 0 => unlocked[b] = 1 /\ b \in Burned

\* Nobody's token is stuck.  Every settled lock is minted in the end, whatever the
\* administrator of the other light client does, unless a fork's block was relayed
\* before its own.
LocksAreMinted ==
    \A h \in Canonical :
       [](blocksByHeight[h.number] # <<>> => Taken(h.number) = h)
          => \A l \in h.receipts : <>(minted[l] > 0)

\* Every burn that a later block of its epoch commits to is unlocked, if the
\* administrator does not pause the light client, or leave it without relayers, for
\* good.  (A root is looked up under the epoch of the block that is proved, and commits
\* to blocks before its own only.)
Committed(b) == \E m, n \in DOMAIN harmonyChain :
                   /\ m < n /\ harmonyChain[m].epoch = harmonyChain[n].epoch
                   /\ b \in harmonyChain[m].burns

Relaying == ~ paused /\ relayers # {}

BurnsAreUnlocked ==
    []<>Relaying => \A b \in Burns : Committed(b) ~> unlocked[b] = 1
=============================================================================
