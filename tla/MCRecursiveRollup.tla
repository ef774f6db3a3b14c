------------------------- MODULE MCRecursiveRollup -------------------------
(***************************************************************************)
(* Two accounts at the start and deposits for a third, one of them twice;  *)
(* transactions to an account that may not exist yet, to oneself, beyond   *)
(* the balance of the receiver, and with the same nonce.                   *)
(***************************************************************************)
EXTENDS RecursiveRollupProps

Account(balance, nonce, key) ==
    [balance |-> balance, nonce |-> nonce, publicKey |-> key]
Tx(sender, receiver, amount, nonce) ==
    [sender |-> sender, receiver |-> receiver, amount |-> amount, nonce |-> nonce]

MCGenesis == [pending |-> <<"c", "a">>,
              accountDb |-> [k \in {"a", "b"} |-> Account(IF k = "a" THEN 2 ELSE 3, 0, k)]]

MCSigned == {Tx("a", "b", 1, 0), Tx("a", "c", 2, 0), Tx("a", "a", 1, 1),
             Tx("b", "a", 2, 0), Tx("c", "b", 1, 0)}
MCNobodies == {Account(0, 0, "c"), Account(1, 1, "a")}
=============================================================================
