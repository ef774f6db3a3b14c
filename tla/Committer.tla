----------------------------- MODULE Committer -----------------------------
(***************************************************************************)
(* The zkSync block committer (assignment-4/2.1/committer/mod.rs): a task  *)
(* that takes requests from a channel one at a time and makes each of them *)
(* durable in one database transaction, and a second task that polls the   *)
(* database.  Every .expect and panic! ends the first task for good, with  *)
(* its open transaction rolled back.                                       *)
(*                                                                         *)
(* The database, the state keeper and the root hash calculator are not in  *)
(* the repository: the tables are the ones this file writes, the two       *)
(* senders follow the order its requests and panics presuppose.            *)
(***************************************************************************)
EXTENDS Integers, Sequences, FiniteSetsExt

CONSTANTS
    MaxBlock,           \* bound: the blocks are 1..MaxBlock, 0 is the genesis
    Updates,            \* state updates every block consists of: 1..Updates
    MaxQueue,           \* bound on the channel
    MaxFaults,          \* bound on database failures and on node restarts, each
    MaxStray            \* bound on requests that keep to no order

ASSUME BoundAssumption == MaxBlock \in Nat /\ Updates \in Nat /\ MaxQueue \in Nat

VARIABLES
    channel,            \* the requests that wait in rx_for_ops
    request, step,      \* the request being handled, and its next statement
    db, transaction,    \* the committed tables, and the open transaction's view
    panicked,           \* why handle_new_commit_task has ended
    aggregated,         \* the last block poll_for_new_proofs_task has seen finished
    polling,            \* whether that task runs
    keeper, calculator, \* what the senders have sent: a block's updates, root hashes
    faults, restarts,
    stray               \* how many requests were sent out of order

handlerVars == <<request, step, db, transaction, panicked>>
senderVars  == <<keeper, calculator>>
vars == <<channel, handlerVars, aggregated, polling, senderVars, faults, restarts, stray>>

Blocks == 1..MaxBlock
None   == [kind |-> "none"]

Init ==
    /\ channel = <<>> /\ request = None /\ step = "start" /\ panicked = "no"
    /\ db = [pending    |-> 0,                           \* the pending block
             updates    |-> [b \in Blocks |-> {}],       \* committed state updates
             incomplete |-> {}, metadata |-> {},         \* sealed blocks
             finished   |-> {0},                         \* blocks with a root hash
             reverted   |-> {1}]                         \* mempool's reverted blocks
    /\ transaction = db
    /\ aggregated = 0 /\ polling = TRUE
    /\ keeper = [block |-> 1, sent |-> 0] /\ calculator = 0
    /\ faults = 0 /\ restarts = 0 /\ stray = 0

-----------------------------------------------------------------------------
(* handle_new_commit_task *)

\* Before its loop the task gets a connection and fills the cache of tokens.
FillTokenCache ==
    /\ step = "start"
    /\ step' = "idle"
    /\ UNCHANGED <<channel, request, db, transaction, panicked, aggregated, polling,
                   senderVars, faults, restarts, stray>>

FirstStep(kind) ==
    CASE kind = "PendingBlock"        -> "save_pending_block"
      [] kind = "SealIncompleteBlock" -> "commit_state_update"
      [] kind = "FinishBlock"         -> "get_data_to_complete_block"
      [] kind = "RemoveRevertedBlock" -> "remove_reverted_block"

\* The next request is taken and, but for RemoveRevertedBlock, a transaction opened.
Receive ==
    /\ step = "idle" /\ channel # <<>>
    /\ request' = Head(channel)
    /\ channel' = Tail(channel)
    /\ step' = FirstStep(Head(channel).kind)
    /\ transaction' = db
    /\ UNCHANGED <<db, panicked, aggregated, polling, senderVars, faults, restarts, stray>>

StatementAutocommitted(name, tables, next) ==
    /\ step = name
    /\ transaction' = tables /\ db' = tables
    /\ step' = next
    /\ UNCHANGED <<channel, request, panicked, aggregated, polling, senderVars,
                   faults, restarts, stray>>

\* One statement of the open transaction, after which `next` is to be executed.
Statement(name, tables, next) ==
    /\ step = name
    /\ transaction' = tables
    /\ step' = next
    /\ UNCHANGED <<channel, request, db, panicked, aggregated, polling, senderVars,
                   faults, restarts, stray>>

PanicCommitting(reason) ==
    /\ step' = "dead" /\ panicked' = reason
    /\ db' = transaction /\ request' = None
    /\ UNCHANGED <<channel, transaction, aggregated, polling, senderVars, faults, restarts,
                   stray>>

\* The task ends, its transaction is rolled back.
Panic(reason) ==
    /\ step' = "dead" /\ panicked' = reason
    /\ transaction' = db /\ request' = None
    /\ UNCHANGED <<channel, db, aggregated, polling, senderVars, faults, restarts, stray>>

SavePendingBlock ==
    Statement("save_pending_block", [transaction EXCEPT !.pending = request.block],
              "commit_state_update")

NewUpdates == request.first..(request.first + request.count - 1)

CommitStateUpdate ==
    /\ step = "commit_state_update"
    /\ NewUpdates \cap transaction.updates[request.block] = {}
    /\ Statement("commit_state_update",
                 [transaction EXCEPT !.updates[request.block] = @ \cup NewUpdates],
                 IF request.kind = "PendingBlock" THEN "commit"
                                                  ELSE "save_incomplete_block")

\* An update that is already stored violates the table's key.
DuplicateUpdate ==
    /\ step = "commit_state_update"
    /\ NewUpdates \cap transaction.updates[request.block] # {}
    /\ Panic("duplicate")

SaveIncompleteBlockKeepingPending ==
    Statement("save_incomplete_block",
              [transaction EXCEPT !.incomplete = @ \cup {request.block}],
              "save_block_metadata")

ForgetIncompleteBlock ==
    Statement("save_incomplete_block", transaction, "save_block_metadata")

SaveIncompleteBlock ==
    Statement("save_incomplete_block",
              [transaction EXCEPT !.incomplete = @ \cup {request.block},
                                  !.pending = IF @ = request.block THEN 0 ELSE @],
              "save_block_metadata")

SaveBlockMetadata ==
    Statement("save_block_metadata",
              [transaction EXCEPT !.metadata = @ \cup {request.block}], "commit")

GetDataToCompleteBlock(b) == b \in transaction.incomplete /\ b - 1 \in transaction.finished

FinishIncompleteBlock ==
    /\ step = "get_data_to_complete_block"
    /\ GetDataToCompleteBlock(request.block)
    /\ step' = "commit"
    /\ transaction' = [transaction EXCEPT !.incomplete = @ \ {request.block},
                                          !.finished = @ \cup {request.block}]
    /\ UNCHANGED <<channel, request, db, panicked, aggregated, polling, senderVars,
                   faults, restarts, stray>>

MissingData ==
    /\ step = "get_data_to_complete_block"
    /\ ~ GetDataToCompleteBlock(request.block)
    /\ Panic(IF request.block \in transaction.incomplete THEN "no root" ELSE "no block")

Commit ==
    /\ step = "commit"
    /\ db' = transaction
    /\ step' = "idle" /\ request' = None
    /\ UNCHANGED <<channel, transaction, panicked, aggregated, polling, senderVars,
                   faults, restarts, stray>>

\* Not in a transaction of its own.
RemoveRevertedBlock ==
    /\ step = "remove_reverted_block"
    /\ db' = [db EXCEPT !.reverted = @ \ {request.block}]
    /\ transaction' = db'
    /\ step' = "idle" /\ request' = None
    /\ UNCHANGED <<channel, panicked, aggregated, polling, senderVars, faults, restarts, stray>>

\* Any statement may fail, and so may the start: expect and unwrap panic.  A commit that
\* fails may have been applied.
DatabaseFails ==
    /\ step \notin {"idle", "dead"}
    /\ faults < MaxFaults                                              \* bound
    /\ faults' = faults + 1
    /\ step' = "dead" /\ panicked' = "db" /\ request' = None
    /\ db' \in {db} \cup (IF step = "commit" THEN {transaction} ELSE {})
    /\ transaction' = db'
    /\ UNCHANGED <<channel, aggregated, polling, senderVars, restarts, stray>>

Handler ==
    \/ FillTokenCache \/ Receive \/ SavePendingBlock \/ CommitStateUpdate \/ DuplicateUpdate
    \/ SaveIncompleteBlock \/ SaveBlockMetadata \/ FinishIncompleteBlock
    \/ MissingData \/ Commit \/ RemoveRevertedBlock

-----------------------------------------------------------------------------
(* poll_for_new_proofs_task: it aggregates what it finds finished; the task *)
(* ends when it gets no connection, and then so does run_committer's handle.*)
PollForNewProofs ==
    /\ polling
    /\ \/ /\ aggregated + 1 \in db.finished
          /\ aggregated' = aggregated + 1 /\ UNCHANGED <<polling, faults>>
       \/ /\ faults < MaxFaults /\ faults' = faults + 1                \* bound
          /\ polling' = FALSE /\ UNCHANGED aggregated
    /\ UNCHANGED <<channel, handlerVars, senderVars, restarts, stray>>

-----------------------------------------------------------------------------
(* The senders. *)

Send(r) ==
    /\ Len(channel) < MaxQueue                                         \* bound
    /\ channel' = Append(channel, r)
    /\ UNCHANGED <<handlerVars, aggregated, polling, faults, restarts>>

\* The state keeper saves a block as pending as its updates come in, then seals it.
KeeperSavesPending ==
    /\ keeper.block \in Blocks /\ keeper.sent < Updates
    /\ Send([kind |-> "PendingBlock", block |-> keeper.block,
             first |-> keeper.sent + 1, count |-> 1])
    /\ keeper' = [keeper EXCEPT !.sent = @ + 1]
    /\ UNCHANGED <<calculator, stray>>

KeeperSeals ==
    /\ keeper.block \in Blocks
    /\ Send([kind |-> "SealIncompleteBlock", block |-> keeper.block,
             first |-> keeper.sent + 1, count |-> Updates - keeper.sent])
    /\ keeper' = [block |-> keeper.block + 1, sent |-> 0]
    /\ UNCHANGED <<calculator, stray>>

\* Root hashes are calculated sequentially, for blocks that were sent to be sealed.
CalculatorFinishes ==
    /\ calculator + 1 < keeper.block
    /\ Send([kind |-> "FinishBlock", block |-> calculator + 1])
    /\ calculator' = calculator + 1
    /\ UNCHANGED <<keeper, stray>>

KeeperRemovesReverted ==
    /\ \E b \in db.reverted : Send([kind |-> "RemoveRevertedBlock", block |-> b])
    /\ UNCHANGED <<senderVars, stray>>

Highest(S) == CHOOSE x \in S : \A y \in S : y <= x

\* The node is restarted: the senders continue from what the database holds.
Restart ==
    /\ restarts < MaxFaults                                            \* bound
    /\ restarts' = restarts + 1
    /\ channel' = <<>> /\ request' = None /\ step' = "start" /\ panicked' = "no"
    /\ transaction' = db /\ polling' = TRUE
    /\ keeper' = IF db.pending # 0
                 THEN [block |-> db.pending, sent |-> Cardinality(db.updates[db.pending])]
                 ELSE [block |-> Highest(db.finished \cup db.incomplete) + 1, sent |-> 0]
    /\ calculator' = Highest(db.finished)
    /\ UNCHANGED <<db, aggregated, faults, stray>>

\* A request that keeps to no order at all.
AnyRequests ==
    [kind : {"PendingBlock", "SealIncompleteBlock"}, block : Blocks,
     first : 1..Updates, count : {1}]
    \cup [kind : {"FinishBlock"}, block : Blocks]

SendStray ==
    /\ stray < MaxStray                                                \* bound
    /\ \E r \in AnyRequests : Send(r)
    /\ stray' = stray + 1
    /\ UNCHANGED senderVars

Senders == KeeperSavesPending \/ KeeperSeals \/ CalculatorFinishes \/ KeeperRemovesReverted

Next == Handler \/ DatabaseFails \/ PollForNewProofs \/ Senders \/ SendStray \/ Restart

Spec == Init /\ [][Next]_vars

\* Both tasks run and both senders go on; nobody has to restart a node that has died.
FairSpec == Spec /\ WF_vars(Handler) /\ WF_vars(PollForNewProofs)
                 /\ WF_vars(KeeperSeals) /\ WF_vars(CalculatorFinishes)
=============================================================================
