---------------------------- MODULE MCTokenBridge ----------------------------
(***************************************************************************)
(* Ethereum settles on block 2; on a fork, block 3 of the same height has a*)
(* lock that is never settled, and its child the lock of block 2.          *)
(***************************************************************************)
EXTENDS TokenBridgeProps

Header(hash, parent, number, locks) ==
    [hash |-> hash, parentHash |-> parent, number |-> number, difficulty |-> 10000,
     time |-> number, receipts |-> locks]

MCFirst == Header(1, 0, 1, {})
MCCanonical == {MCFirst, Header(2, 1, 2, {"l1"})}
MCHeaders == MCCanonical \cup {Header(3, 1, 2, {"l2"}), Header(4, 3, 3, {"l1"})}

MCFirstCheckPoint == CheckPoint(<<FirstBlock>>, 1)
=============================================================================
