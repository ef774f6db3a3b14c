------------------------- MODULE MCNearBridgeWatched -------------------------
(***************************************************************************)
(* The small NEAR chain of MCNearBridge with a watcher and a relayer.      *)
(***************************************************************************)
EXTENDS NearBridgeWatched

Bps(k) == <<[key |-> k \o "1", stake |-> 2], [key |-> k \o "2", stake |-> 1]>>
Evil == <<[key |-> "evil", stake |-> 1]>>

Block(height, epoch, time, approvals, next) ==
    [height |-> height, epochId |-> epoch, nextEpochId |-> epoch + 1,
     timestamp |-> time, approvals |-> approvals, nextBps |-> next,
     bpsHashMatches |-> TRUE]

Genesis == Block(1, 1, 0, <<>>, Bps("b"))

Chain2 == {Block(2, 1, 1, <<"a1", "a2">>, NoBPs),
           Block(3, 2, 2, <<"b1", "b2">>, Bps("c"))}
Chain3 == Chain2 \cup {Block(4, 3, 3, <<"c1", "c2">>, Bps("d"))}

Forged ==
    {Block(3, 2, 2, <<"b1", "evil">>, Evil),
     Block(3, 2, 4, <<"evil", "evil">>, Evil),
     Block(4, 3, 3, <<"evil">>, Evil)}

MCEpochProducers == [e \in 1..4 |-> CASE e = 1 -> Bps("a") [] e = 2 -> Bps("b")
                                   [] e = 3 -> Bps("c") [] e = 4 -> Bps("d")]
MCBlocks3    == Chain3 \cup Forged
MCInitBlocks == {Genesis}
MCValidators == {Bps("a")}
MCNoPause    == {}
MCPause      == {{}, {"addBlock", "deposit"}, {"withdraw"}}
=============================================================================
