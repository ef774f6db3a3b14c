---------------------------- MODULE LightClients ----------------------------
(***************************************************************************)
(* The two light clients of the bridge side by side: Ethereum's headers on *)
(* Harmony, Harmony's checkpoints on Ethereum.                             *)
(***************************************************************************)
EXTENDS EthereumLightClientProps

CONSTANTS FirstCheckPoint, CheckPoints,     \* see HarmonyLightClient
          Epochs, Numbers, Accounts, deployer, InitialRelayers, Threshold,
          NewThresholds, MaxCheckpoints

VARIABLES epochCheckPointBlockNumbers, checkPointBlocks, epochMmrRoots,
          relayerThreshold, admins, relayers, paused

harmonyVars == <<epochCheckPointBlockNumbers, checkPointBlocks, epochMmrRoots,
                 relayerThreshold, admins, relayers, paused>>

H == INSTANCE HarmonyLightClientProps WITH
        FirstHeader <- FirstCheckPoint, Headers <- CheckPoints

ASSUME HarmonyAssumption == H!LightClientAssumption

BothInit == Init /\ H!Init
BothNext == \/ Next /\ UNCHANGED harmonyVars
            \/ H!Next /\ UNCHANGED vars

Both ==
    /\ BothInit /\ [][BothNext]_<<vars, harmonyVars>>
    /\ \A header \in Headers : WF_vars(AddBlockHeader(header))

\* See HarmonyLightClientProps: a root is valid in an epoch exactly if a checkpoint
\* recorded in that epoch has it.
RootsHaveCheckpoints == H!RootsHaveCheckpoints
=============================================================================
