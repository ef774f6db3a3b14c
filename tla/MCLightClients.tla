--------------------------- MODULE MCLightClients ---------------------------
(***************************************************************************)
(* The two light clients side by side.  Of Ethereum a tree of headers with *)
(* two forks, a header whose height is wrong and one that is too easy, and *)
(* one at the limit; of Harmony two epochs and three checkpoints.          *)
(***************************************************************************)
EXTENDS LightClients

Header(hash, parent, number, difficulty, time) ==
    [hash |-> hash, parentHash |-> parent, number |-> number,
     difficulty |-> difficulty, time |-> time, receipts |-> hash]

MCFirst == Header("a5", "a4", 5, 20000, 0)
MCHeaders ==
    {MCFirst,
     Header("a6", "a5", 6, 20000, 1), Header("a7", "a6", 7, 20100, 2),
     Header("a8", "a7", 8, 20100, 3), Header("e7", "a6", 7, 20000, 6),
     Header("b6", "a5", 6, 19802, 2), Header("b7", "b6", 7, 19802, 3),
     Header("c7", "b6", 7, 19700, 3), Header("c8", "b7", 8, 19801, 3),
     Header("d7", "a5", 7, 20000, 1), Header("d8", "d7", 8, 20000, 2)}

MCFirstCheckPoint == [number |-> 1, epoch |-> 1, mmrRoot |-> "r1"]
MCCheckPoints == {MCFirstCheckPoint, [number |-> 2, epoch |-> 1, mmrRoot |-> "r2"],
                                     [number |-> 3, epoch |-> 2, mmrRoot |-> "r3"]}
=============================================================================
