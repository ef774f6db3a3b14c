----------------------------- MODULE BlockStore -----------------------------
(***************************************************************************)
(* What the committer promises of the database: every request is applied   *)
(* whole or not at all, at most once, in the order the requests were sent. *)
(* When one cannot be applied, or fails, nothing is applied any more until *)
(* a restart, which forgets the requests that wait; a request that failed  *)
(* may have been applied.                                                  *)
(*                                                                         *)
(* There are no statements, no transactions and no panics here.            *)
(***************************************************************************)
EXTENDS Integers, SequencesExt

CONSTANT Blocks

VARIABLES tables, waiting, up

storeVars == <<tables, waiting, up>>

Kinds == {"PendingBlock", "SealIncompleteBlock", "FinishBlock", "RemoveRevertedBlock"}

UpdatesOf(r) == r.first..(r.first + r.count - 1)

\* No update is stored twice; a block is finished after the one before it.
Applicable(t, r) ==
    CASE r.kind \in {"PendingBlock", "SealIncompleteBlock"} ->
            UpdatesOf(r) \cap t.updates[r.block] = {}
      [] r.kind = "FinishBlock" -> r.block \in t.incomplete /\ r.block - 1 \in t.finished
      [] r.kind = "RemoveRevertedBlock" -> TRUE

Applied(t, r) ==
    CASE r.kind = "PendingBlock" ->
            [t EXCEPT !.pending = r.block, !.updates[r.block] = @ \cup UpdatesOf(r)]
      [] r.kind = "SealIncompleteBlock" ->
            [t EXCEPT !.updates[r.block] = @ \cup UpdatesOf(r),
                      !.incomplete = @ \cup {r.block},
                      !.pending = IF @ = r.block THEN 0 ELSE @,
                      !.metadata = @ \cup {r.block}]
      [] r.kind = "FinishBlock" ->
            [t EXCEPT !.incomplete = @ \ {r.block}, !.finished = @ \cup {r.block}]
      [] r.kind = "RemoveRevertedBlock" -> [t EXCEPT !.reverted = @ \ {r.block}]

StoreInit ==
    /\ tables = [pending |-> 0, updates |-> [b \in Blocks |-> {}], incomplete |-> {},
                 metadata |-> {}, finished |-> {0}, reverted |-> {1}]
    /\ waiting = <<>> /\ up = TRUE

\* A request of any content is sent.
Accept ==
    /\ waiting' # <<>> /\ Front(waiting') = waiting
    /\ Last(waiting').kind \in Kinds
    /\ UNCHANGED <<tables, up>>

Apply ==
    /\ up = TRUE /\ waiting # <<>>
    /\ Applicable(tables, Head(waiting))
    /\ tables' = Applied(tables, Head(waiting))
    /\ waiting' = Tail(waiting)
    /\ up' \in BOOLEAN

\* It fails at a request or, before the first, at none.
Fail ==
    /\ up = TRUE /\ up' = FALSE
    /\ waiting' = waiting \/ (waiting # <<>> /\ waiting' = Tail(waiting))
    /\ UNCHANGED tables

Recover == waiting' = <<>> /\ up' = TRUE /\ UNCHANGED tables

StoreNext == Accept \/ Apply \/ Fail \/ Recover

StoreSpec == StoreInit /\ [][StoreNext]_storeVars
=============================================================================
