----------------------------- MODULE HeaderLog -----------------------------
(***************************************************************************)
(* What the NEAR light client contract promises: a log of verified blocks  *)
(* that only grows, always by a higher block of the head's epoch or of the *)
(* next, approved by the producers a verified block declared, which has    *)
(* been pending, unchallenged, for the whole challenge period.             *)
(*                                                                         *)
(* There is no ring of epochs here, no deferred commit and no money.       *)
(***************************************************************************)
EXTENDS NearBlocks

CONSTANTS Blocks, InitBlocks, ValidatorSets, NoEpochId,
          NoBlock,
          Period              \* length of the challenge period, not 0

VARIABLES time,
          verified,           \* the verified blocks
          pending,            \* the block in its challenge period, or NoBlock
          deadline,           \* the end of that period, 0 when there is none
          headBps,            \* the producers of the epoch of the highest one
          nextId, nextBps     \* id and producers of the epoch after it

logVars == <<verified, pending, deadline, headBps, nextId, nextBps>>

Highest == CHOOSE b \in verified : \A c \in verified : c.height <= b.height

\* The producers that must have signed b.
Producers(b) == IF b.epochId = Highest.epochId THEN headBps ELSE nextBps

LogInit ==
    /\ time \in Nat
    /\ verified = {} /\ pending = NoBlock /\ deadline = 0
    /\ headBps = <<>> /\ nextBps = <<>> /\ nextId = NoEpochId

\* More than two thirds of the stake have signed b, each in its place.
Quorum(b, bps) ==
    /\ Len(b.approvals) >= Len(bps)
    /\ 3 * StakeOf(bps, Approved(b, bps)) > 2 * StakeOf(bps, 1..Len(bps))

\* The log is given its trusted producers, then its trusted first block.
Bootstrap ==
    /\ verified = {}
    /\ headBps' \in ValidatorSets
    /\ UNCHANGED <<time, verified, pending, deadline, nextId, nextBps>>

Start(b) ==
    /\ verified = {}
    /\ verified' = {b}
    /\ nextId' = b.nextEpochId /\ nextBps' = b.nextBps
    /\ UNCHANGED <<time, pending, deadline, headBps>>

\* A block starts its challenge period, in place of the pending one if any.
Propose(b) ==
    /\ verified # {}
    /\ b.height > Highest.height
    /\ b.epochId \in {Highest.epochId, nextId}
    /\ Quorum(b, Producers(b))
    /\ b.epochId # Highest.epochId => DeclaresNextBps(b)
    /\ pending' = b /\ deadline' = time + Period
    /\ UNCHANGED <<time, verified, headBps, nextId, nextBps>>

\* The pending block is dropped: one of the approvals that let it in is forged.
Drop ==
    /\ pending # NoBlock
    /\ \E i \in Approved(pending, Producers(pending)) :
          ~ GoodSignature(pending, Producers(pending), i)
    /\ pending' = NoBlock /\ deadline' = 0
    /\ UNCHANGED <<time, verified, headBps, nextId, nextBps>>

\* Time passes, and makes the pending block verified at its deadline.
Advance ==
    /\ time' > time
    /\ IF pending = NoBlock \/ time' < deadline
       THEN UNCHANGED logVars
       ELSE /\ verified' = verified \cup {pending}
            /\ pending' = NoBlock /\ deadline' = 0
            /\ IF pending.epochId = Highest.epochId
               THEN UNCHANGED <<headBps, nextId, nextBps>>
               ELSE /\ headBps' = nextBps
                    /\ nextId' = pending.nextEpochId
                    /\ nextBps' = pending.nextBps

LogNext ==
    \/ Bootstrap \/ Drop \/ Advance
    \/ \E b \in InitBlocks : Start(b)
    \/ \E b \in Blocks : Propose(b)

LogSpec == LogInit /\ [][LogNext]_<<time, logVars>>
=============================================================================
