------------------------ MODULE MCHarmonyLightClient ------------------------
(***************************************************************************)
(* Two epochs and three checkpoints.                                       *)
(***************************************************************************)
EXTENDS HarmonyLightClientProps

MCFirst   == [number |-> 1, epoch |-> 1, mmrRoot |-> "r1"]
MCHeaders == {MCFirst, [number |-> 2, epoch |-> 1, mmrRoot |-> "r2"],
                       [number |-> 3, epoch |-> 2, mmrRoot |-> "r3"]}
=============================================================================
