----------------------------- MODULE MCFrontEnd -----------------------------
(***************************************************************************)
(* Six tokens, so that the tree has odd levels below and above the leaves; *)
(* a contract that may mint in its callback, and a user without code, who  *)
(* opens the page after having minted some tokens to herself.              *)
(***************************************************************************)
EXTENDS FrontEndProps

MCPageURI == [name |-> "Name", description |-> "Description"]
MCURIs == {MCPageURI}

MCMayLoad(storage) ==
    storage.tokenIds \in {2} /\ calls = <<>> /\ \A id \in DOMAIN storage.leafData :
                       storage.leafData[id].from = account /\ storage.leafData[id].receiver = account

\* Hashes compared as numbers, in an arbitrary order in which some pairs of the tree
\* ascend and some do not: a node is told by its height and the first leaf below it.
OfLeaf(hash) == ((5 * hash[1].id) % 7) + (IF hash[1].receiver \in Contracts THEN 7 ELSE 0)
OfParent(left) == ((3 * left) % 17) + 17 * ((left \div 17) + 1)
Number(hash) == CASE Len(hash) = 1       -> OfLeaf(hash)
                  [] Len(hash[1]) = 1    -> OfParent(OfLeaf(hash[1]))
                  [] OTHER               -> OfParent(OfParent(OfLeaf(hash[1][1])))
MCAtMost(hash, other) == Number(hash) <= Number(other)
=============================================================================
