--------------------------- MODULE MCMempoolQueue ---------------------------
(***************************************************************************)
(* Two accounts: a releases its second transaction before its first one, a *)
(* batch of both has parts that become valid at different times.  Two of   *)
(* the three priority operations fit one block.                            *)
(***************************************************************************)
EXTENDS MempoolQueueProps

Tx(hash, chunks, txs) == [hash |-> hash, chunks |-> chunks, txs |-> txs]
Part(from, nonce, validFrom) == [from |-> from, nonce |-> nonce, validFrom |-> validFrom]

MCOpChunks == <<1, 2, 2>>
MCL2Txs == {Tx(1, 1, <<Part("a", 1, 1)>>),
            Tx(2, 1, <<Part("a", 2, 0)>>),
            Tx(3, 3, <<Part("b", 1, 0), Part("a", 3, 1)>>)}
=============================================================================
