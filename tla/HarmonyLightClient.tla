------------------------- MODULE HarmonyLightClient -------------------------
(***************************************************************************)
(* The light client of Harmony that runs on Ethereum                       *)
(* (assignment-6/HarmonyLightClient.sol): checkpoints submitted by trusted *)
(* relayers, whose roles an administrator manages.                         *)
(*                                                                         *)
(* A header is its number, epoch and MMR root; hasRole of OpenZeppelin's   *)
(* AccessControl is membership in admins or relayers.  The role functions  *)
(* the contract inherits beside its own ones are external.                 *)
(***************************************************************************)
EXTENDS Integers, SequencesExt

CONSTANTS
    FirstHeader,               \* the one initialize is called with
    Headers,                   \* [number, epoch, mmrRoot]: what relayers may submit
    Epochs, Numbers,           \* the keys of the mappings that are looked at
    Accounts, deployer,
    InitialRelayers,
    Threshold,                 \* the initial relayer threshold
    NewThresholds,             \* what the administrator may set instead
    MaxCheckpoints             \* bound on the checkpoints of an epoch

LightClientAssumption ==
    /\ deployer \in Accounts /\ InitialRelayers \subseteq Accounts
    /\ 0 \in Numbers /\ Numbers \subseteq Nat
    /\ \A h \in Headers \cup {FirstHeader} : h.number \in Numbers \ {0} /\ h.epoch \in Epochs

VARIABLES
    epochCheckPointBlockNumbers,       \* epoch -> block numbers as submitted
    checkPointBlocks,                  \* number -> header, NoHeader if none
    epochMmrRoots,                     \* epoch -> the roots that are valid
    relayerThreshold,
    admins, relayers, paused

checkPointVars == <<epochCheckPointBlockNumbers, checkPointBlocks, epochMmrRoots>>
adminVars      == <<relayerThreshold, admins, relayers, paused>>
vars           == <<checkPointVars, adminVars>>

NoHeader == [number |-> 0, epoch |-> 0, mmrRoot |-> "none"]

\* initialize; the caller becomes the administrator.
Init ==
    /\ epochCheckPointBlockNumbers =
          [e \in Epochs |-> IF e = FirstHeader.epoch THEN <<FirstHeader.number>> ELSE <<>>]
    /\ checkPointBlocks =
          [n \in Numbers |-> IF n = FirstHeader.number THEN FirstHeader ELSE NoHeader]
    /\ epochMmrRoots =
          [e \in Epochs |-> IF e = FirstHeader.epoch THEN {FirstHeader.mmrRoot} ELSE {}]
    /\ relayerThreshold = Threshold
    /\ admins = {deployer} /\ relayers = InitialRelayers
    /\ paused = FALSE

-----------------------------------------------------------------------------
(* Administration. *)

AdminPauseLightClient(sender) ==
    /\ sender \in admins /\ ~ paused
    /\ paused' = TRUE
    /\ UNCHANGED <<checkPointVars, relayerThreshold, admins, relayers>>

AdminUnpauseLightClient(sender) ==
    /\ sender \in admins /\ paused
    /\ paused' = FALSE
    /\ UNCHANGED <<checkPointVars, relayerThreshold, admins, relayers>>

\* grantRole to the new administrator, then renounceRole by the old one.
RenounceAdmin(sender, newAdmin) ==
    /\ sender \in admins
    /\ sender # newAdmin
    /\ admins' = (admins \cup {newAdmin}) \ {sender}
    /\ UNCHANGED <<checkPointVars, relayerThreshold, relayers, paused>>

FitsUint8(n) == n < 256

AdminChangeRelayerThreshold(sender, newThreshold) ==
    /\ sender \in admins
    /\ FitsUint8(newThreshold)
    /\ relayerThreshold' = newThreshold
    /\ UNCHANGED <<checkPointVars, admins, relayers, paused>>

AdminAddRelayer(sender, relayer) ==
    /\ sender \in admins /\ relayer \notin relayers
    /\ relayers' = relayers \cup {relayer}
    /\ UNCHANGED <<checkPointVars, relayerThreshold, admins, paused>>

AdminRemoveRelayer(sender, relayer) ==
    /\ sender \in admins /\ relayer \in relayers
    /\ relayers' = relayers \ {relayer}
    /\ UNCHANGED <<checkPointVars, relayerThreshold, admins, paused>>

-----------------------------------------------------------------------------
ToLatestEpoch(header) == CHOOSE e \in Epochs : epochCheckPointBlockNumbers[e] # <<>>
EpochOf(header) == header.epoch

OnlyRelayers(sender) == sender \in relayers

SubmitCheckpoint(sender, header) ==
    /\ OnlyRelayers(sender) /\ ~ paused
    /\ Len(epochCheckPointBlockNumbers[header.epoch]) < MaxCheckpoints       \* bound
    /\ epochCheckPointBlockNumbers' =
          [epochCheckPointBlockNumbers EXCEPT ![header.epoch] = Append(@, header.number)]
    /\ checkPointBlocks' = [checkPointBlocks EXCEPT ![header.number] = header]
    /\ epochMmrRoots' = [epochMmrRoots EXCEPT ![EpochOf(header)] = @ \cup {header.mmrRoot}]
    /\ UNCHANGED adminVars

IsValidCheckPoint(epoch, mmrRoot) == mmrRoot \in epochMmrRoots[epoch]

\* The loop of getLatestCheckPoint, which is called for epochs that have a checkpoint.
GetLatestCheckPoint(blockNumber, epoch) ==
    checkPointBlocks[FoldLeft(LAMBDA nearest, n : IF n > blockNumber /\ n < nearest
                                                  THEN n ELSE nearest,
                              0, epochCheckPointBlockNumbers[epoch])]

-----------------------------------------------------------------------------
Administer(sender) ==
    \/ AdminPauseLightClient(sender) \/ AdminUnpauseLightClient(sender)
    \/ \E a \in Accounts :
          \/ RenounceAdmin(sender, a)
          \/ AdminAddRelayer(sender, a) \/ AdminRemoveRelayer(sender, a)
    \/ \E n \in NewThresholds : AdminChangeRelayerThreshold(sender, n)

Next ==
    \E sender \in Accounts :
       Administer(sender) \/ \E header \in Headers : SubmitCheckpoint(sender, header)

Spec == Init /\ [][Next]_vars
=============================================================================
