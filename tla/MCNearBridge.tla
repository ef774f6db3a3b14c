---------------------------- MODULE MCNearBridge ----------------------------
(***************************************************************************)
(* A small NEAR chain for NearBridge: four epochs, so that the ring of     *)
(* three wraps around, and blocks forged by somebody with no signing key.  *)
(* Time is counted in seconds on both chains (NanosPerSecond = 1).         *)
(***************************************************************************)
EXTENDS NearBridgeProps

\* Stakes 2, 1, 1: the threshold is 2, so the first producer and any other one
\* suffice, and the two small ones do not.
P(k1, k2, k3) == <<[key |-> k1, stake |-> 2], [key |-> k2, stake |-> 1],
                   [key |-> k3, stake |-> 1]>>
Bps1 == P("a1", "a2", "a3")
Bps2 == P("b1", "b2", "b3")
Bps3 == <<[key |-> "c1", stake |-> 1]>>
Bps4 == P("d1", "d2", "d3")
Evil == <<[key |-> "evil", stake |-> 1]>>

Block(height, epoch, time, approvals, next) ==
    [height |-> height, epochId |-> epoch, nextEpochId |-> epoch + 1,
     timestamp |-> time, approvals |-> approvals, nextBps |-> next,
     bpsHashMatches |-> TRUE]

Genesis == Block(1, 1, 0, <<>>, Bps2)

\* The canonical chain: each block opens an epoch but the first.  The approvals of
\* the second omit a producer and end with one the light client ignores.
Chain ==
    {Block(2, 1, 1, <<"a1", "a2", NoSignature>>, NoBPs),
     Block(3, 2, 2, <<"b1", NoSignature, "b3", "x">>, Bps3),
     Block(4, 3, 3, <<"c1">>, Bps4),
     Block(5, 4, 4, <<"d1", "d2", "d3">>, Bps1)}

\* Somebody without keys opens an epoch with producers of its own, then builds on
\* it; the second block is dated so that it may replace the first.
Forged ==
    {Block(3, 2, 1, <<"evil", "b2", "evil">>, Evil),
     Block(3, 2, 4, <<"b1", "evil", "b3">>, Evil),
     Block(4, 3, 3, <<"evil">>, Evil)}

\* Blocks the contract must refuse: approved by too few (exactly the threshold), or
\* too many new producers, or producers that are not those the block commits to.
Invalid ==
    {Block(2, 1, 3, <<"a1", NoSignature, NoSignature>>, NoBPs),
     Block(3, 2, 3, <<"b1", "b2", "b3">>, Evil \o Bps2),
     [Block(3, 2, 3, <<"b1", "b2", "b3">>, Evil) EXCEPT !.bpsHashMatches = FALSE]}

MCBlocks     == Chain \cup Forged \cup Invalid
MCInitBlocks == {Genesis}
MCValidators == {<<>>, Bps1}
MCHeights    == 1..5
MCNoPause    == {}
MCPause      == {{}, {"addBlock"}, {"challenge"}, {"deposit", "withdraw"}}
=============================================================================
