---------------------- MODULE HarmonyLightClientProps ----------------------
(***************************************************************************)
(* What must hold of the checkpoints of the Harmony light client.          *)
(***************************************************************************)
EXTENDS HarmonyLightClient

\* The three mappings a checkpoint is spread over stay consistent when checkpoints are
\* submitted in any order, again, or by several relayers: a root is valid in an epoch
\* exactly if a checkpoint recorded in that epoch has it.  (Relayers do not submit two
\* headers of one number: the second would overwrite the first and leave its root.)
RootsHaveCheckpoints ==
    \A e \in Epochs :
       epochMmrRoots[e] = {checkPointBlocks[epochCheckPointBlockNumbers[e][i]].mmrRoot :
                              i \in DOMAIN epochCheckPointBlockNumbers[e]}

\* "return latest BlockHeader in checkPointBlocks mapping": for an epoch that has a
\* checkpoint the view answers with a checkpoint of that epoch.
LatestIsACheckpoint ==
    \A e \in Epochs, n \in Numbers :
       epochCheckPointBlockNumbers[e] # <<>> => GetLatestCheckPoint(n, e).epoch = e
=============================================================================
