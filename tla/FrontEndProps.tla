--------------------------- MODULE FrontEndProps ---------------------------
(***************************************************************************)
(* What the page may be trusted for, although what it shows is of several  *)
(* moments and answers overtake each other.                                *)
(***************************************************************************)
EXTENDS FrontEnd, ZKUNFTProps

\* What is shown may be old, but a count that is shown errs on one side only: at most
\* as many NFTs are left as the page says, so that a page which says none is right; and
\* the length beside a tree is no less than that of the tree shown, although the two
\* were read at different moments and several calls may overtake each other.
CountsAreUpperBounds ==
    Loaded =>
       /\ Rendered.left # <<>> => nft.NFTsLeft <= Rendered.left[1]
       /\ LET shown == Rendered.panels["tree"]
          IN  shown.value # <<>> => Len(shown.value[1]) <= shown.count[1]

\* Whatever root or tree the page shows, and however old it is, all of it is still part
\* of the contract's tree: a proof made from what is on the page does not become wrong.
ShownStaysInTree ==
    Loaded /\ calls = <<>> =>
       LET root == Rendered.panels["root"].value
           tree == Rendered.panels["tree"].value
       IN  /\ root # <<>> => root[1] \in Range(nft.tree)
           /\ tree # <<>> => Range(tree[1]) \subseteq Range(nft.tree)
=============================================================================
