----------------------------- MODULE MCRollupNC -----------------------------
(***************************************************************************)
(* A small instance of RollupNC: seven deposits make subtrees of three     *)
(* heights, and let the counter wrap around and go on.                     *)
(***************************************************************************)
EXTENDS RollupNCProps

MCTxs == {[txRoot |-> "r1", tokenType |-> 1, amount |-> 1],
          [txRoot |-> "r1", tokenType |-> 2, amount |-> 1]}
=============================================================================
