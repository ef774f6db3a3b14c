--------------------------- MODULE CommitterProps ---------------------------
(***************************************************************************)
(* What the committer promises of the database.                            *)
(***************************************************************************)
EXTENDS Committer

\* The requests that were sent and are not applied, the one being handled first.
Unapplied == (IF step \in {"start", "idle", "dead"} THEN <<>> ELSE <<request>>) \o channel

\* A request is one transaction: whatever requests arrive, in whatever order, whenever
\* the database fails, with a commit whose outcome nobody learns, and whenever the node
\* restarts, the tables are those of a store that applies whole requests in the order
\* they were sent.
Store == INSTANCE BlockStore WITH
    tables  <- db,
    waiting <- Unapplied,
    up      <- step # "dead"

ImplementsBlockStore == Store!StoreSpec

\* Blocks are finished sequentially: under the same circumstances the blocks with a root
\* hash have no gap.
FinishedHaveNoGap == \A b \in db.finished \ {0} : b - 1 \in db.finished

-----------------------------------------------------------------------------
(* With senders that keep to the order. *)
InOrder == stray = 0

\* A sealed block has its metadata and all its updates.
SealedIsWhole == \A b \in db.incomplete \cup (db.finished \ {0}) :
                    b \in db.metadata /\ db.updates[b] = 1..Updates

\* Blocks are finished, incomplete or pending in the order of their numbers.
StagesAreOrdered ==
    /\ \A b \in db.incomplete : \A f \in db.finished : f < b
    /\ db.pending # 0 => \A b \in db.incomplete \cup db.finished : b < db.pending

\* A request is one transaction: the tables, as the polling task reads them at any time
\* and a restarted node after any failure, describe whole blocks, and where the senders
\* stopped.
TablesAgree == InOrder => SealedIsWhole /\ StagesAreOrdered

\* The panics of finish_block are bugs in application logic, the code says: with
\* senders that keep to the order, not one is reached, restarts included.  Only the
\* database ends the handler.
OnlyDatabasePanics == InOrder => panicked \in {"no", "db"}

\* Every block gets its root hash, across failures and restarts in the middle of any
\* request, unless a database failure ended the handler and nobody restarts the node.
AllFinished ==
    []InOrder => <>(db.finished = 0..MaxBlock) \/ <>[](panicked = "db")
=============================================================================
