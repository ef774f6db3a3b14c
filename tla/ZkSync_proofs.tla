---------------------------- MODULE ZkSync_proofs ---------------------------
(***************************************************************************)
(* Proofs about the two parts of the zkSync node.  The committer: whatever *)
(* requests arrive and whatever fails, it implements a store that applies  *)
(* whole requests, and blocks are finished without a gap; for every number *)
(* of blocks, any channel, any number of failures, restarts and requests   *)
(* out of order.  The mempool's queue: the safety properties of the        *)
(* selection, for every list of priority operations, every finite set of   *)
(* transactions and batches and every size of a block.                     *)
(***************************************************************************)
EXTENDS CommitterProps, MempoolQueueProps, DataInduction

-----------------------------------------------------------------------------
(***************************************************************************)
(* The committer.                                                          *)
(***************************************************************************)

TableNames == {"pending", "updates", "incomplete", "metadata", "finished", "reverted"}

\* All the tables are there, and their finished blocks have no gap.
NoGap(tables) ==
    /\ tables = [name \in TableNames |-> tables[name]]
    /\ \A b \in tables.finished \ {0} : b - 1 \in tables.finished

\* The transaction has no gap either: Commit makes it the committed tables.
NoGapInv == NoGap(db) /\ NoGap(transaction)

-----------------------------------------------------------------------------
LEMMA InitNoGap == Init => NoGapInv
<1> SUFFICES ASSUME Init PROVE NoGapInv
  OBVIOUS
<1>1. db.finished = {0} /\ transaction = db
  BY DEF Init
<1>2. db = [name \in DOMAIN db |-> db[name]] /\ DOMAIN db = TableNames
  BY DEF Init, TableNames
<1> QED BY <1>1, <1>2 DEF NoGapInv, NoGap

\* Tables with the finished blocks of others have no gap either.
LEMMA SameFinished ==
  ASSUME NEW old, NoGap(old), NEW new,
         new = [name \in TableNames |-> new[name]], new.finished = old.finished
  PROVE  NoGap(new)
  BY DEF NoGap

\* The statements that leave the finished blocks alone.
LEMMA StatementKeepsNoGap ==
  ASSUME NoGapInv,
         \/ SavePendingBlock \/ CommitStateUpdate
         \/ SaveIncompleteBlock \/ SaveBlockMetadata
  PROVE  NoGapInv'
<1>1. NoGap(transaction) /\ NoGap(db) /\ db' = db
  BY DEF NoGapInv, SavePendingBlock, CommitStateUpdate, SaveIncompleteBlock,
         SaveBlockMetadata, Statement
<1>2. /\ transaction'.finished = transaction.finished
      /\ transaction' = [name \in TableNames |-> transaction'[name]]
  <2>1. CASE SavePendingBlock
    BY <1>1, <2>1 DEF SavePendingBlock, Statement, NoGap, TableNames
  <2>2. CASE CommitStateUpdate
    BY <1>1, <2>2 DEF CommitStateUpdate, Statement, NoGap, TableNames
  <2>3. CASE SaveIncompleteBlock
    BY <1>1, <2>3 DEF SaveIncompleteBlock, Statement, NoGap, TableNames
  <2>4. CASE SaveBlockMetadata
    BY <1>1, <2>4 DEF SaveBlockMetadata, Statement, NoGap, TableNames
  <2> QED BY <2>1, <2>2, <2>3, <2>4
<1>3. NoGap(transaction')
  BY <1>1, <1>2, SameFinished
<1> QED BY <1>1, <1>3 DEF NoGapInv, NoGap

\* finish_block reads the root hash of the previous block before it stores its own.
LEMMA FinishKeepsNoGap == NoGapInv /\ FinishIncompleteBlock => NoGapInv'
<1> SUFFICES ASSUME NoGapInv, FinishIncompleteBlock PROVE NoGapInv'
  OBVIOUS
<1>1. /\ NoGap(db) /\ db' = db /\ NoGap(transaction)
      /\ request.block - 1 \in transaction.finished
  BY DEF NoGapInv, FinishIncompleteBlock, GetDataToCompleteBlock
<1>2. /\ transaction'.finished = transaction.finished \cup {request.block}
      /\ transaction' = [name \in TableNames |-> transaction'[name]]
  BY <1>1 DEF FinishIncompleteBlock, NoGap, TableNames
<1>3. \A b \in transaction'.finished \ {0} : b - 1 \in transaction'.finished
  BY <1>1, <1>2 DEF NoGap
<1> QED BY <1>1, <1>2, <1>3 DEF NoGapInv, NoGap

LEMMA RemoveRevertedKeepsNoGap == NoGapInv /\ RemoveRevertedBlock => NoGapInv'
<1> SUFFICES ASSUME NoGapInv, RemoveRevertedBlock PROVE NoGapInv'
  OBVIOUS
<1>1. NoGap(db) /\ transaction' = db'
  BY DEF NoGapInv, RemoveRevertedBlock
<1>2. /\ db'.finished = db.finished
      /\ db' = [name \in TableNames |-> db'[name]]
  BY <1>1 DEF RemoveRevertedBlock, NoGap, TableNames
<1>3. NoGap(db')
  BY <1>1, <1>2, SameFinished
<1> QED BY <1>1, <1>3 DEF NoGapInv, NoGap

\* The rest moves one of the two sets of tables to the other or leaves both alone.
LEMMA NextNoGap == NoGapInv /\ [Next]_vars => NoGapInv'
<1> SUFFICES ASSUME NoGapInv, [Next]_vars PROVE NoGapInv'
  OBVIOUS
<1>1. ASSUME db' \in {db, transaction}, transaction' \in {db, transaction}
      PROVE  NoGapInv'
  BY <1>1 DEF NoGapInv, NoGap
<1>2. CASE Handler
  <2>1. CASE FillTokenCache \/ Receive \/ DuplicateUpdate \/ MissingData \/ Commit
    BY <1>1, <2>1 DEF FillTokenCache, Receive, DuplicateUpdate, MissingData, Panic, Commit
  <2>2. CASE \/ SavePendingBlock \/ CommitStateUpdate
             \/ SaveIncompleteBlock \/ SaveBlockMetadata
    BY <2>2, StatementKeepsNoGap
  <2>3. CASE FinishIncompleteBlock
    BY <2>3, FinishKeepsNoGap
  <2>4. CASE RemoveRevertedBlock
    BY <2>4, RemoveRevertedKeepsNoGap
  <2> QED BY <1>2, <2>1, <2>2, <2>3, <2>4 DEF Handler
<1>3. CASE DatabaseFails
  BY <1>1, <1>3 DEF DatabaseFails
<1>4. CASE PollForNewProofs
  BY <1>1, <1>4 DEF PollForNewProofs, handlerVars
<1>5. CASE Senders \/ SendStray
  BY <1>1, <1>5 DEF Senders, SendStray, KeeperSavesPending, KeeperSeals,
                    CalculatorFinishes, KeeperRemovesReverted, Send, handlerVars
<1>6. CASE Restart
  BY <1>1, <1>6 DEF Restart
<1>7. CASE UNCHANGED vars
  BY <1>1, <1>7 DEF vars, handlerVars
<1> QED BY <1>2, <1>3, <1>4, <1>5, <1>6, <1>7 DEF Next

\* Whatever requests arrive, and whenever the database fails or the node restarts, the
\* finished blocks have no gap.
THEOREM BlocksAreFinishedInOrder == Spec => []FinishedHaveNoGap
<1>1. Init => NoGapInv
  BY InitNoGap
<1>2. NoGapInv /\ [Next]_vars => NoGapInv'
  BY NextNoGap
<1>3. NoGapInv => FinishedHaveNoGap
  BY DEF NoGapInv, NoGap, FinishedHaveNoGap
<1> QED BY <1>1, <1>2, <1>3, PTL DEF Spec

-----------------------------------------------------------------------------
(***************************************************************************)
(* The tables as a store that applies whole requests, BlockStore.  Between *)
(* two statements the open transaction's view is a part of what its        *)
(* request does to the tables, at the commit all of it.                    *)
(***************************************************************************)

ChannelInv == \E S : channel \in Seq(S) /\ \A r \in S : r.kind \in Store!Kinds

\* The open transaction's view before the statement that is next.
Partial(r) ==
    \/ step = FirstStep(r.kind) /\ transaction = db
    \/ /\ step = "commit_state_update" /\ r.kind = "PendingBlock"
       /\ transaction = [db EXCEPT !.pending = r.block]
    \/ /\ step = "save_incomplete_block" /\ r.kind = "SealIncompleteBlock"
       /\ Store!Applicable(db, r)
       /\ transaction = [db EXCEPT !.updates[r.block] = @ \cup Store!UpdatesOf(r)]
    \/ /\ step = "save_block_metadata" /\ r.kind = "SealIncompleteBlock"
       /\ Store!Applicable(db, r)
       /\ transaction = [db EXCEPT !.updates[r.block] = @ \cup Store!UpdatesOf(r),
                                   !.incomplete = @ \cup {r.block},
                                   !.pending = IF @ = r.block THEN 0 ELSE @]
    \/ /\ step = "commit" /\ r.kind # "RemoveRevertedBlock"
       /\ Store!Applicable(db, r) /\ transaction = Store!Applied(db, r)

Resting == {"start", "idle", "dead"}

StoreInv ==
    /\ NoGapInv /\ ChannelInv
    /\ \/ step \in Resting
       \/ request.kind \in Store!Kinds /\ Partial(request)

LEMMA FirstStepIs ==
  ASSUME NEW kind \in Store!Kinds
  PROVE  FirstStep(kind) \notin Resting \cup {"save_incomplete_block",
                                             "save_block_metadata", "commit"}
  BY DEF FirstStep, Store!Kinds, Resting

LEMMA InitStore == Init => StoreInv /\ Store!StoreInit
<1> SUFFICES ASSUME Init PROVE StoreInv /\ Store!StoreInit
  OBVIOUS
<1>1. step = "start" /\ channel = <<>>
  BY DEF Init
<1>2. channel \in Seq({}) /\ \A r \in {} : r.kind \in Store!Kinds
  BY <1>1
<1>3. StoreInv
  <2>1. NoGapInv
    BY InitNoGap
  <2>2. ChannelInv
    BY <1>2 DEF ChannelInv
  <2> QED BY <1>1, <2>1, <2>2 DEF StoreInv, Resting
<1>4. <<>> \o channel = <<>>
  BY <1>1
<1> QED BY <1>1, <1>3, <1>4 DEF Init, Store!StoreInit, Unapplied

\* A request is put before those that wait.
LEMMA FrontOfChannel ==
  ASSUME NEW S, NEW s \in Seq(S), NEW r
  PROVE  /\ <<r>> \o s # <<>> /\ Head(<<r>> \o s) = r /\ Tail(<<r>> \o s) = s
         /\ <<>> \o s = s
<1> DEFINE T == S \cup {r}
<1>1. s \in Seq(T) /\ <<r>> \in Seq(T)
  BY SeqMonotonic
<1>2. Len(<<r>>) = 1 /\ <<r>>[1] = r
  OBVIOUS
<1>3. /\ <<r>> \o s \in Seq(T) /\ Len(<<r>> \o s) = 1 + Len(s)
      /\ (<<r>> \o s)[1] = r
      /\ \A i \in 1..Len(s) : (<<r>> \o s)[i + 1] = s[i]
  BY <1>1, <1>2, ConcatProperties
<1>4. <<r>> \o s # <<>> /\ Head(<<r>> \o s) = r
  BY <1>1, <1>3
<1>5. Tail(<<r>> \o s) = s
  <2>1. /\ Tail(<<r>> \o s) \in Seq(T) /\ Len(Tail(<<r>> \o s)) = Len(s)
        /\ \A i \in 1..Len(s) : Tail(<<r>> \o s)[i] = (<<r>> \o s)[i + 1]
    BY <1>1, <1>3, <1>4, HeadTailProperties
  <2> QED BY <1>1, <1>3, <2>1, SeqEqual
<1>6. <<>> \o s = s
  BY <1>1, ConcatEmptySeq
<1> QED BY <1>4, <1>5, <1>6

\* A request is sent after those that wait.
LEMMA EndOfChannel ==
  ASSUME NEW S, NEW s \in Seq(S), NEW p \in Seq(S), NEW r
  PROVE  LET t == p \o Append(s, r)
         IN  t # <<>> /\ Store!Front(t) = p \o s /\ Store!Last(t) = r
<1> DEFINE T == S \cup {r}
           t == p \o Append(s, r)
<1>1. s \in Seq(T) /\ p \in Seq(T) /\ r \in T
  BY SeqMonotonic
<1>2. /\ Append(s, r) \in Seq(T) /\ Len(Append(s, r)) = Len(s) + 1
      /\ Append(s, r)[Len(s) + 1] = r
      /\ \A i \in 1..Len(s) : Append(s, r)[i] = s[i]
  BY <1>1, AppendProperties
<1>3. /\ t \in Seq(T) /\ Len(t) = Len(p) + Len(s) + 1
      /\ Len(p) \in Nat /\ Len(s) \in Nat
  BY <1>1, <1>2, ConcatProperties
<1>4. t[Len(t)] = r
  <2>1. Len(t) > Len(p) /\ Len(t) - Len(p) = Len(s) + 1
    BY <1>3
  <2>2. t[Len(t)] = Append(s, r)[Len(s) + 1]
    BY <1>1, <1>2, <1>3, <2>1, ConcatProperties
  <2> QED BY <1>2, <2>2
<1>5. SubSeq(t, 1, Len(t) - 1) = p \o s
  <2>1. t = Append(p \o s, r)
    BY <1>1, AppendIsConcat, ConcatAssociative, ConcatProperties
  <2>2. p \o s \in Seq(T) /\ Len(p \o s) = Len(t) - 1
    BY <1>1, <1>3, ConcatProperties
  <2> QED BY <1>1, <2>1, <2>2, HeadTailAppend
<1> HIDE DEF t
<1>6. t # <<>>
  BY <1>3
<1> QED BY <1>4, <1>5, <1>6 DEF Store!Front, Store!Last, t

\* Once a request is being handled, it is the first that waits.
LEMMA WaitingIs ==
  ASSUME StoreInv
  PROVE  /\ step \in Resting => Unapplied = channel
         /\ step \notin Resting =>
               Unapplied # <<>> /\ Head(Unapplied) = request /\ Tail(Unapplied) = channel
<1>1. PICK S : channel \in Seq(S)
  BY DEF StoreInv, ChannelInv
<1> QED BY <1>1, FrontOfChannel DEF Unapplied, Resting

\* When the handler comes to rest, the channel waits.
LEMMA RestingIs ==
  ASSUME StoreInv, channel' = channel, step' \in Resting
  PROVE  Unapplied' = channel
<1>1. PICK S : channel \in Seq(S)
  BY DEF StoreInv, ChannelInv
<1> QED BY <1>1, ConcatEmptySeq DEF Unapplied, Resting

\* Nor does the start move the store.
LEMMA StartStutters ==
  ASSUME StoreInv, FillTokenCache
  PROVE  StoreInv' /\ UNCHANGED Store!storeVars
<1>1. /\ step \in Resting /\ step' \in Resting /\ step' # "dead" /\ step # "dead"
      /\ UNCHANGED <<channel, db, transaction>>
  BY DEF FillTokenCache, Resting
<1>2. StoreInv'
  BY <1>1 DEF StoreInv, NoGapInv, ChannelInv
<1>3. Unapplied' = channel /\ Unapplied = channel
  BY <1>1, WaitingIs, RestingIs
<1> QED BY <1>1, <1>2, <1>3 DEF Store!storeVars

\* Taking a request changes neither the tables nor what waits.
LEMMA ReceiveStutters ==
  ASSUME StoreInv, Receive
  PROVE  StoreInv' /\ UNCHANGED Store!storeVars
<1>1. PICK S : channel \in Seq(S) /\ \A r \in S : r.kind \in Store!Kinds
  BY DEF StoreInv, ChannelInv
<1>2. /\ step = "idle" /\ channel # <<>> /\ request' = Head(channel)
      /\ channel' = Tail(channel) /\ step' = FirstStep(Head(channel).kind)
      /\ transaction' = db /\ db' = db
  BY DEF Receive
<1>3. Head(channel) \in S /\ Tail(channel) \in Seq(S)
  BY <1>1, <1>2, HeadTailProperties
<1>4. request'.kind \in Store!Kinds /\ Partial(request)'
  BY <1>1, <1>2, <1>3 DEF Partial
<1>5. StoreInv'
  <2>1. NoGapInv'
    BY <1>2 DEF StoreInv, NoGapInv
  <2>2. ChannelInv'
    BY <1>1, <1>2, <1>3 DEF ChannelInv
  <2> QED BY <1>4, <2>1, <2>2 DEF StoreInv, Store!Kinds
<1>6. step' \notin Resting
  BY <1>1, <1>2, <1>3, FirstStepIs
<1>7. <<Head(channel)>> \o Tail(channel) = channel /\ <<>> \o channel = channel
  <2>1. PICK e \in S, s \in Seq(S) : e = Head(channel) /\ s = Tail(channel)
    BY <1>3
  <2>2. /\ <<e>> \o s \in Seq(S) /\ Len(<<e>> \o s) = Len(s) + 1
        /\ (<<e>> \o s)[1] = e /\ \A i \in 1..Len(s) : (<<e>> \o s)[i + 1] = s[i]
    <3>1. <<e>> \in Seq(S) /\ Len(<<e>>) = 1 /\ <<e>>[1] = e
      OBVIOUS
    <3> QED BY <3>1, ConcatProperties
  <2>3. /\ Len(s) = Len(channel) - 1 /\ channel[1] = e
        /\ \A i \in 1..Len(s) : channel[i + 1] = s[i]
    BY <1>1, <1>2, <2>1, HeadTailProperties
  <2>4. <<e>> \o s = channel
    BY <1>1, <2>2, <2>3, SeqEqual
  <2> QED BY <1>1, <2>1, <2>4, ConcatEmptySeq
<1>8. UNCHANGED Store!storeVars
  BY <1>2, <1>6, <1>7 DEF Store!storeVars, Unapplied, Resting
<1> QED BY <1>5, <1>8

\* A statement but the last adds its part to the transaction: the store does not move.
LEMMA StatementStutters ==
  ASSUME StoreInv, \/ SavePendingBlock \/ CommitStateUpdate
                   \/ SaveIncompleteBlock \/ SaveBlockMetadata \/ FinishIncompleteBlock
  PROVE  StoreInv' /\ UNCHANGED Store!storeVars
<1>1. /\ db' = db /\ channel' = channel /\ request' = request
      /\ step \notin Resting /\ step' \notin Resting
  BY DEF SavePendingBlock, CommitStateUpdate, SaveIncompleteBlock, SaveBlockMetadata,
         FinishIncompleteBlock, Statement, Resting
<1>2. request.kind \in Store!Kinds /\ Partial(request)
  BY <1>1 DEF StoreInv
<1>3. Partial(request)'
  <2>1. CASE SavePendingBlock
    <3>1. step = "save_pending_block" /\ step' = "commit_state_update"
          /\ transaction' = [transaction EXCEPT !.pending = request.block]
      BY <2>1 DEF SavePendingBlock, Statement
    <3>2. request.kind = "PendingBlock" /\ transaction = db
      BY <1>2, <3>1 DEF Partial, FirstStep, Store!Kinds
    <3> QED BY <1>1, <3>1, <3>2 DEF Partial
  <2>2. CASE CommitStateUpdate /\ request.kind = "PendingBlock"
    <3>1. /\ step = "commit_state_update" /\ step' = "commit"
          /\ NewUpdates \cap transaction.updates[request.block] = {}
          /\ transaction' = [transaction EXCEPT !.updates[request.block] = @ \cup NewUpdates]
      BY <2>2 DEF CommitStateUpdate, Statement
    <3>2. transaction = [db EXCEPT !.pending = request.block]
      BY <1>2, <2>2, <3>1 DEF Partial, FirstStep
    <3>3. db = [name \in TableNames |-> db[name]]
      BY DEF StoreInv, NoGapInv, NoGap
    <3>4. transaction.updates = db.updates
      BY <3>2, <3>3 DEF TableNames
    <3>5. Store!Applicable(db, request)
      BY <2>2, <3>1, <3>4 DEF Store!Applicable, Store!UpdatesOf, NewUpdates
    <3>6. transaction' = Store!Applied(db, request)
      BY <2>2, <3>1, <3>2 DEF Store!Applied, Store!UpdatesOf, NewUpdates
    <3> QED BY <1>1, <2>2, <3>1, <3>5, <3>6 DEF Partial
  <2>3. CASE CommitStateUpdate /\ request.kind # "PendingBlock"
    <3>1. /\ step = "commit_state_update" /\ step' = "save_incomplete_block"
          /\ NewUpdates \cap transaction.updates[request.block] = {}
          /\ transaction' = [transaction EXCEPT !.updates[request.block] = @ \cup NewUpdates]
      BY <2>3 DEF CommitStateUpdate, Statement
    <3>2. request.kind = "SealIncompleteBlock" /\ transaction = db
      BY <1>2, <2>3, <3>1 DEF Partial, FirstStep, Store!Kinds
    <3>3. Store!Applicable(db, request)
      BY <3>1, <3>2 DEF Store!Applicable, Store!UpdatesOf, NewUpdates
    <3> QED BY <1>1, <3>1, <3>2, <3>3 DEF Partial, Store!UpdatesOf, NewUpdates
  <2>4. CASE SaveIncompleteBlock
    <3>1. /\ step = "save_incomplete_block" /\ step' = "save_block_metadata"
          /\ transaction' = [transaction EXCEPT !.incomplete = @ \cup {request.block},
                                    !.pending = IF @ = request.block THEN 0 ELSE @]
      BY <2>4 DEF SaveIncompleteBlock, Statement
    <3>2. /\ request.kind = "SealIncompleteBlock" /\ Store!Applicable(db, request)
          /\ transaction = [db EXCEPT !.updates[request.block] = @ \cup Store!UpdatesOf(request)]
      BY <1>2, <3>1, FirstStepIs DEF Partial
    <3> QED BY <1>1, <3>1, <3>2 DEF Partial
  <2>5. CASE SaveBlockMetadata
    <3>1. /\ step = "save_block_metadata" /\ step' = "commit"
          /\ transaction' = [transaction EXCEPT !.metadata = @ \cup {request.block}]
      BY <2>5 DEF SaveBlockMetadata, Statement
    <3>2. /\ request.kind = "SealIncompleteBlock" /\ Store!Applicable(db, request)
          /\ transaction = [db EXCEPT !.updates[request.block] = @ \cup Store!UpdatesOf(request),
                                   !.incomplete = @ \cup {request.block},
                                   !.pending = IF @ = request.block THEN 0 ELSE @]
      BY <1>2, <3>1, FirstStepIs DEF Partial
    <3>3. transaction' = Store!Applied(db, request)
      BY <3>1, <3>2 DEF Store!Applied
    <3> QED BY <1>1, <3>1, <3>2, <3>3 DEF Partial
  <2>6. CASE FinishIncompleteBlock
    <3>1. /\ step = "get_data_to_complete_block" /\ step' = "commit"
          /\ GetDataToCompleteBlock(request.block)
          /\ transaction' = [transaction EXCEPT !.incomplete = @ \ {request.block},
                                                !.finished = @ \cup {request.block}]
      BY <2>6 DEF FinishIncompleteBlock
    <3>2. request.kind = "FinishBlock" /\ transaction = db
      BY <1>2, <3>1 DEF Partial, FirstStep, Store!Kinds
    <3>3. Store!Applicable(db, request) /\ transaction' = Store!Applied(db, request)
      BY <3>1, <3>2 DEF Store!Applicable, Store!Applied, GetDataToCompleteBlock
    <3> QED BY <1>1, <3>1, <3>2, <3>3 DEF Partial
  <2> QED BY <2>1, <2>2, <2>3, <2>4, <2>5, <2>6
<1>4. NoGapInv'
  BY NextNoGap DEF StoreInv, Next, Handler
<1>5. StoreInv'
  BY <1>1, <1>2, <1>3, <1>4 DEF StoreInv, ChannelInv
<1> QED BY <1>1, <1>5 DEF Store!storeVars, Unapplied, Resting

\* The last statement of a request applies it.
LEMMA CommitApplies ==
  ASSUME StoreInv, Commit \/ RemoveRevertedBlock
  PROVE  StoreInv' /\ Store!Apply
<1>1. /\ step \notin Resting /\ step' = "idle" /\ channel' = channel
  BY DEF Commit, RemoveRevertedBlock, Resting
<1>2. request.kind \in Store!Kinds /\ Partial(request)
  BY <1>1 DEF StoreInv
<1>3. Store!Applicable(db, request) /\ db' = Store!Applied(db, request)
  <2>1. CASE Commit
    <3>1. step = "commit" /\ db' = transaction
      BY <2>1 DEF Commit
    <3> QED BY <1>2, <3>1, FirstStepIs DEF Partial
  <2>2. CASE RemoveRevertedBlock
    <3>1. /\ step = "remove_reverted_block"
          /\ db' = [db EXCEPT !.reverted = @ \ {request.block}]
      BY <2>2 DEF RemoveRevertedBlock
    <3>2. request.kind = "RemoveRevertedBlock"
      BY <1>2, <3>1 DEF Partial, FirstStep, Store!Kinds
    <3> QED BY <3>1, <3>2 DEF Store!Applicable, Store!Applied
  <2> QED BY <2>1, <2>2
<1>4. NoGapInv'
  BY NextNoGap DEF StoreInv, Next, Handler
<1>5. StoreInv'
  BY <1>1, <1>4 DEF StoreInv, ChannelInv, Resting
<1>6. Unapplied # <<>> /\ Head(Unapplied) = request /\ Tail(Unapplied) = channel
  BY <1>1, WaitingIs
<1>7. Unapplied' = channel
  BY <1>1, RestingIs DEF Resting
<1> QED BY <1>1, <1>3, <1>5, <1>6, <1>7 DEF Store!Apply, Unapplied, Resting

\* A panic: the tables stay, and nothing is handled any more.  A failing commit may
\* have been applied.
LEMMA PanicFails ==
  ASSUME StoreInv, DuplicateUpdate \/ MissingData
  PROVE  StoreInv' /\ Store!Fail
<1>1. step \notin Resting /\ step' = "dead" /\ channel' = channel /\ db' = db
  BY DEF DuplicateUpdate, MissingData, Panic, Resting
<1>2. NoGapInv'
  BY NextNoGap DEF StoreInv, Next, Handler
<1>3. StoreInv'
  BY <1>1, <1>2 DEF StoreInv, ChannelInv, Resting
<1>4. /\ Unapplied # <<>> /\ Tail(Unapplied) = channel
      /\ Unapplied' = channel
  BY <1>1, WaitingIs, RestingIs DEF Resting
<1> QED BY <1>1, <1>3, <1>4 DEF Store!Fail, Unapplied, Resting

LEMMA FailureFails ==
  ASSUME StoreInv, DatabaseFails
  PROVE  StoreInv' /\ (Store!Fail \/ Store!Apply)
<1>1. /\ step \notin {"idle", "dead"} /\ step' = "dead" /\ channel' = channel
      /\ db' = db \/ (step = "commit" /\ db' = transaction)
  BY DEF DatabaseFails
<1>2. NoGapInv'
  BY NextNoGap DEF StoreInv, Next
<1>3. StoreInv'
  BY <1>1, <1>2 DEF StoreInv, ChannelInv, Resting
<1>4. Unapplied' = channel
  BY <1>1, RestingIs DEF Resting
<1>5. CASE step = "start"
  <2>1. Unapplied = channel /\ db' = db
    BY <1>1, <1>5, WaitingIs DEF Resting
  <2> QED BY <1>1, <1>3, <1>4, <2>1 DEF Store!Fail
<1>6. CASE step # "start" /\ db' = db
  <2>1. Unapplied # <<>> /\ Tail(Unapplied) = channel
    BY <1>1, <1>6, WaitingIs DEF Resting
  <2> QED BY <1>1, <1>3, <1>4, <1>6, <2>1 DEF Store!Fail
<1>7. CASE step = "commit" /\ db' = transaction
  <2>1. request.kind \in Store!Kinds /\ Partial(request)
    BY <1>1, <1>7 DEF StoreInv, Resting
  <2>2. Store!Applicable(db, request) /\ db' = Store!Applied(db, request)
    BY <1>7, <2>1, FirstStepIs DEF Partial
  <2>3. Unapplied # <<>> /\ Head(Unapplied) = request /\ Tail(Unapplied) = channel
    BY <1>1, <1>7, WaitingIs DEF Resting
  <2> QED BY <1>1, <1>3, <1>4, <1>7, <2>2, <2>3 DEF Store!Apply
<1> QED BY <1>1, <1>5, <1>6, <1>7

\* Whatever is sent has a kind.
LEMMA SendAccepts ==
  ASSUME StoreInv, NoGapInv', NEW r, r.kind \in Store!Kinds, Send(r)
  PROVE  StoreInv' /\ Store!Accept
<1>1. channel' = Append(channel, r) /\ UNCHANGED handlerVars
  BY DEF Send
<1>2. PICK S : channel \in Seq(S) /\ \A q \in S : q.kind \in Store!Kinds
  BY DEF StoreInv, ChannelInv
<1> DEFINE first == IF step \in {"start", "idle", "dead"} THEN <<>> ELSE <<request>>
           T == S \cup {r, request}
<1>3. channel \in Seq(T) /\ first \in Seq(T)
  <2>1. channel \in Seq(T)
    BY <1>2, SeqMonotonic
  <2>2. <<>> \in Seq(T) /\ <<request>> \in Seq(T)
    OBVIOUS
  <2> QED BY <2>1, <2>2
<1>4. LET t == first \o Append(channel, r)
      IN  t # <<>> /\ Store!Front(t) = first \o channel /\ Store!Last(t) = r
  <2> HIDE DEF first, T
  <2> QED BY <1>3, EndOfChannel
<1>5. channel' \in Seq(S \cup {r})
  <2>1. channel \in Seq(S \cup {r})
    BY <1>2, SeqMonotonic
  <2> QED BY <1>1, <2>1, AppendProperties
<1>6. StoreInv'
  <2>1. ChannelInv'
    BY <1>2, <1>5 DEF ChannelInv
  <2> QED BY <1>1, <2>1 DEF StoreInv, Partial, handlerVars
<1> QED BY <1>1, <1>4, <1>6 DEF Store!Accept, Unapplied, handlerVars

LEMMA SentAccepts ==
  ASSUME StoreInv, Senders \/ SendStray
  PROVE  StoreInv' /\ Store!Accept
<1>1. NoGapInv'
  BY NextNoGap DEF StoreInv, Next
<1>2. PICK r : r.kind \in Store!Kinds /\ Send(r)
  <2>1. CASE KeeperSavesPending \/ KeeperSeals \/ CalculatorFinishes
    BY <2>1 DEF KeeperSavesPending, KeeperSeals, CalculatorFinishes, Store!Kinds
  <2>2. CASE KeeperRemovesReverted
    BY <2>2 DEF KeeperRemovesReverted, Store!Kinds
  <2>3. CASE SendStray
    <3>1. PICK r \in AnyRequests : Send(r)
      BY <2>3 DEF SendStray
    <3> QED BY <3>1 DEF AnyRequests, Store!Kinds
  <2> QED BY <2>1, <2>2, <2>3 DEF Senders
<1> QED BY <1>1, <1>2, SendAccepts

LEMMA RestartRecovers ==
  ASSUME StoreInv, Restart
  PROVE  StoreInv' /\ Store!Recover
<1>1. step' = "start" /\ channel' = <<>> /\ db' = db
  BY DEF Restart
<1>2. channel' \in Seq({}) /\ \A r \in {} : r.kind \in Store!Kinds
  BY <1>1
<1>3. StoreInv'
  <2>1. NoGapInv'
    BY NextNoGap DEF StoreInv, Next
  <2>2. \E S : channel' \in Seq(S) /\ \A r \in S : r.kind \in Store!Kinds
    <3> WITNESS {}
    <3> QED BY <1>2
  <2>3. ChannelInv'
    BY <2>2 DEF ChannelInv
  <2> QED BY <1>1, <2>1, <2>3 DEF StoreInv, Resting
<1>4. <<>> \o channel' = <<>>
  BY <1>1
<1> QED BY <1>1, <1>3, <1>4 DEF Store!Recover, Unapplied

LEMMA StepsOfStore ==
  StoreInv /\ [Next]_vars => StoreInv' /\ [Store!StoreNext]_Store!storeVars
<1> SUFFICES ASSUME StoreInv, [Next]_vars
             PROVE  StoreInv' /\ [Store!StoreNext]_Store!storeVars
  OBVIOUS
<1>1. CASE Handler
  BY <1>1, StartStutters, ReceiveStutters, StatementStutters, CommitApplies, PanicFails
     DEF Handler, Store!StoreNext
<1>2. CASE DatabaseFails
  BY <1>2, FailureFails DEF Store!StoreNext
<1>3. CASE Senders \/ SendStray
  BY <1>3, SentAccepts DEF Store!StoreNext
<1>4. CASE Restart
  BY <1>4, RestartRecovers DEF Store!StoreNext
<1>5. CASE PollForNewProofs \/ UNCHANGED vars
  <2>1. UNCHANGED <<channel, request, step, db, transaction>>
    BY <1>5 DEF PollForNewProofs, handlerVars, vars
  <2>2. StoreInv'
    BY <2>1 DEF StoreInv, NoGapInv, ChannelInv, Partial
  <2> QED BY <2>1, <2>2 DEF Store!storeVars, Unapplied
<1> QED BY <1>1, <1>2, <1>3, <1>4, <1>5 DEF Next

\* Whatever requests arrive, and whenever the database fails or the node restarts, the
\* committer is a store that applies whole requests in the order they were sent.
THEOREM CommitterImplementsStore == Spec => ImplementsBlockStore
<1>1. Init => StoreInv /\ Store!StoreInit
  BY InitStore
<1>2. StoreInv /\ [Next]_vars => StoreInv'
  BY StepsOfStore
<1>3. StoreInv /\ [Next]_vars => [Store!StoreNext]_Store!storeVars
  BY StepsOfStore
<1> QED BY <1>1, <1>2, <1>3, PTL DEF Spec, ImplementsBlockStore, Store!StoreSpec

-----------------------------------------------------------------------------
(***************************************************************************)
(* Senders that keep to the order.  What a request leads to is a progress: *)
(* the block the state keeper is at, how many of its updates were sent,    *)
(* and the last block with a root hash.  Committed tables are always the   *)
(* tables of some progress.                                                *)
(***************************************************************************)
Progress == {p \in [block : 1..(MaxBlock + 1), sent : 0..Updates, finished : 0..MaxBlock] :
                 p.finished < p.block /\ (p.sent > 0 => p.block <= MaxBlock)}

StoredUpdates(block, sent) ==
    [b \in Blocks |-> IF b < block THEN 1..Updates
                      ELSE IF b = block THEN 1..sent ELSE {}]

TablesAt(p, reverted) ==
    [pending    |-> IF p.sent = 0 THEN 0 ELSE p.block,
     updates    |-> StoredUpdates(p.block, p.sent),
     incomplete |-> (p.finished + 1)..(p.block - 1),
     metadata   |-> 1..(p.block - 1),
     finished   |-> 0..p.finished,
     reverted   |-> reverted]

Requests ==
    [kind : {"PendingBlock", "SealIncompleteBlock"}, block : Int, first : Int, count : Int]
    \cup [kind : {"FinishBlock", "RemoveRevertedBlock"}, block : Int]

\* Request r is what comes after p, and q after r.
Leads(p, r, q) ==
    \/ /\ r.kind = "PendingBlock"
       /\ r.block = p.block /\ p.block <= MaxBlock
       /\ r.first = p.sent + 1 /\ r.count = 1
       /\ q = [block |-> p.block, sent |-> p.sent + 1, finished |-> p.finished]
    \/ /\ r.kind = "SealIncompleteBlock"
       /\ r.block = p.block /\ p.block <= MaxBlock
       /\ r.first = p.sent + 1 /\ r.count = Updates - p.sent
       /\ q = [block |-> p.block + 1, sent |-> 0, finished |-> p.finished]
    \/ /\ r.kind = "FinishBlock"
       /\ r.block = p.finished + 1 /\ r.block < p.block
       /\ q = [block |-> p.block, sent |-> p.sent, finished |-> p.finished + 1]
    \/ r.kind = "RemoveRevertedBlock" /\ q = p

\* The requests in the channel lead from progress p to where the senders are.
Way(p) ==
    \E w \in [0..Len(channel) -> Progress] :
        /\ w[0] = p
        /\ \A i \in 1..Len(channel) : Leads(w[i - 1], channel[i], w[i])
        /\ keeper = [block |-> w[Len(channel)].block, sent |-> w[Len(channel)].sent]
        /\ calculator = w[Len(channel)].finished

\* The open transaction's view between two statements, when `request` leads from p to q.
Between(p, q) ==
    LET b == request.block
        \* sealing: the last updates are stored
        stored == [TablesAt(p, db.reverted) EXCEPT !.updates[b] = 1..Updates]
    IN  /\ step = "save_pending_block" =>
               request.kind = "PendingBlock" /\ transaction = db
        /\ step = "commit_state_update" =>
               \/ request.kind = "PendingBlock" /\ transaction = [db EXCEPT !.pending = b]
               \/ request.kind = "SealIncompleteBlock" /\ transaction = db
        /\ step = "save_incomplete_block" =>
               request.kind = "SealIncompleteBlock" /\ transaction = stored
        /\ step = "save_block_metadata" =>
               /\ request.kind = "SealIncompleteBlock"
               /\ transaction = [stored EXCEPT !.incomplete = @ \cup {b}, !.pending = 0]
        /\ step = "get_data_to_complete_block" =>
               request.kind = "FinishBlock" /\ transaction = db
        /\ step = "commit" => transaction = TablesAt(q, db.reverted)
        /\ step = "remove_reverted_block" =>
               request.kind = "RemoveRevertedBlock" /\ transaction = db

StepNames == {"save_pending_block", "commit_state_update", "save_incomplete_block",
          "save_block_metadata", "get_data_to_complete_block", "commit",
          "remove_reverted_block"}

\* The handler is idle, in the middle of a request, or a database failure ended it.
Idle(p)     == step \in {"start", "idle"} /\ panicked = "no" /\ Way(p)
Handling(p) == /\ step \in StepNames /\ panicked = "no" /\ request \in Requests
               /\ \E q \in Progress : Leads(p, request, q) /\ Between(p, q) /\ Way(q)
Dead        == step = "dead" /\ panicked = "db"

OrderInv ==
    /\ stray \in Nat
    /\ InOrder =>
          /\ channel \in Seq(Requests)
          /\ keeper \in [block : Nat, sent : Nat] /\ calculator \in Nat
          /\ db.reverted \subseteq Nat
          /\ \E p \in Progress : /\ db = TablesAt(p, db.reverted)
                                 /\ Idle(p) \/ Handling(p) \/ Dead

-----------------------------------------------------------------------------
(* The channel. *)

LEMMA WayOfEmpty ==
  ASSUME NEW p \in Progress, channel' = <<>>,
         keeper' = [block |-> p.block, sent |-> p.sent], calculator' = p.finished
  PROVE  Way(p)'
<1> DEFINE w == [i \in 0..0 |-> p]
<1>1. Len(channel') = 0 /\ w \in [0..0 -> Progress] /\ w[0] = p
  OBVIOUS
<1>2. \A i \in 1..0 : Leads(w[i - 1], channel'[i], w[i])
  BY <1>1
<1> HIDE DEF w
<1> QED BY <1>1, <1>2 DEF Way

LEMMA WayOfTail ==
  ASSUME NEW p, Way(p), channel \in Seq(Requests), channel # <<>>,
         channel' = Tail(channel), UNCHANGED senderVars
  PROVE  \E q \in Progress : Leads(p, Head(channel), q) /\ Way(q)'
<1> DEFINE n == Len(channel)
<1>1. n \in Nat /\ n > 0 /\ Len(channel') = n - 1
  OBVIOUS
<1>2. PICK w \in [0..n -> Progress] :
           /\ w[0] = p
           /\ \A i \in 1..n : Leads(w[i - 1], channel[i], w[i])
           /\ keeper = [block |-> w[n].block, sent |-> w[n].sent]
           /\ calculator = w[n].finished
  BY DEF Way
<1> DEFINE v == [i \in 0..(n - 1) |-> w[i + 1]]
<1>3. w[1] \in Progress /\ Leads(p, Head(channel), w[1])
  BY <1>1, <1>2
<1>4. v \in [0..(n - 1) -> Progress] /\ v[0] = w[1] /\ v[n - 1] = w[n]
  BY <1>1, <1>2
<1>5. \A i \in 1..(n - 1) : Leads(v[i - 1], channel'[i], v[i])
  <2> TAKE i \in 1..(n - 1)
  <2>1. channel'[i] = channel[i + 1] /\ v[i] = w[i + 1] /\ v[i - 1] = w[i]
    BY <1>1
  <2>2. Leads(w[(i + 1) - 1], channel[i + 1], w[i + 1])
    BY <1>1, <1>2
  <2> QED BY <2>1, <2>2
<1>6. keeper' = keeper /\ calculator' = calculator
  BY DEF senderVars
<1> HIDE DEF v
<1>7. Way(w[1])'
  BY <1>1, <1>2, <1>4, <1>5, <1>6 DEF Way
<1> QED BY <1>3, <1>7

LEMMA WayOfAppend ==
  ASSUME NEW p, Way(p), channel \in Seq(Requests),
         NEW r \in Requests, channel' = Append(channel, r),
         \A l \in Progress :
            (keeper = [block |-> l.block, sent |-> l.sent] /\ calculator = l.finished)
            => \E q \in Progress :
                  /\ Leads(l, r, q)
                  /\ keeper' = [block |-> q.block, sent |-> q.sent]
                  /\ calculator' = q.finished
  PROVE  Way(p)'
<1> DEFINE n == Len(channel)
<1>1. n \in Nat /\ Len(channel') = n + 1
  OBVIOUS
<1>2. PICK w \in [0..n -> Progress] :
           /\ w[0] = p
           /\ \A i \in 1..n : Leads(w[i - 1], channel[i], w[i])
           /\ keeper = [block |-> w[n].block, sent |-> w[n].sent]
           /\ calculator = w[n].finished
  BY DEF Way
<1>3. w[n] \in Progress
  BY <1>1, <1>2
<1>4. PICK q \in Progress : /\ Leads(w[n], r, q)
                            /\ keeper' = [block |-> q.block, sent |-> q.sent]
                            /\ calculator' = q.finished
  BY <1>2, <1>3
<1> DEFINE v == [i \in 0..(n + 1) |-> IF i = n + 1 THEN q ELSE w[i]]
<1>5. v \in [0..(n + 1) -> Progress] /\ v[0] = p /\ v[n + 1] = q
  BY <1>1, <1>2
<1>6. \A i \in 1..(n + 1) : Leads(v[i - 1], channel'[i], v[i])
  <2> TAKE i \in 1..(n + 1)
  <2>1. CASE i = n + 1
    <3>1. channel'[i] = r /\ v[i] = q /\ v[i - 1] = w[n]
      BY <1>1, <2>1
    <3> QED BY <3>1, <1>4
  <2>2. CASE i \in 1..n
    <3>1. channel'[i] = channel[i] /\ v[i] = w[i] /\ v[i - 1] = w[i - 1]
      BY <1>1, <2>2
    <3> QED BY <3>1, <1>2, <2>2
  <2> QED BY <1>1, <2>1, <2>2
<1> HIDE DEF v
<1> QED BY <1>1, <1>4, <1>5, <1>6 DEF Way

\* What neither the handler nor a sender's request touches.
LEMMA WayUnchanged ==
  ASSUME NEW p, Way(p), channel' = channel, UNCHANGED senderVars
  PROVE  Way(p)'
  BY DEF Way, senderVars

-----------------------------------------------------------------------------
(* The handler.  Between two statements only the transaction changes. *)

LEMMA FirstStatement ==
  ASSUME NEW p \in Progress, db = TablesAt(p, db.reverted), Idle(p),
         channel \in Seq(Requests), Receive
  PROVE  Handling(p)' /\ channel' \in Seq(Requests)
<1>1. /\ channel # <<>> /\ request' = Head(channel) /\ channel' = Tail(channel)
      /\ step' = FirstStep(Head(channel).kind) /\ transaction' = db /\ db' = db
      /\ panicked' = "no" /\ UNCHANGED senderVars
  BY DEF Receive, Idle
<1>2. Head(channel) \in Requests /\ channel' \in Seq(Requests)
  BY <1>1
<1>3. PICK q \in Progress : Leads(p, Head(channel), q) /\ Way(q)'
  BY <1>1, WayOfTail DEF Idle
<1>4. step' \in StepNames /\ Between(p, q)'
  <2>1. request'.kind \in {"PendingBlock", "SealIncompleteBlock", "FinishBlock",
                           "RemoveRevertedBlock"}
    BY <1>1, <1>2 DEF Requests
  <2> QED BY <1>1, <2>1 DEF FirstStep, Between, StepNames
<1>5. Leads(p, request', q)
  BY <1>1, <1>3
<1> QED BY <1>1, <1>2, <1>3, <1>4, <1>5 DEF Handling

\* Tables are the record of their columns.
Columns(t) == [pending |-> t.pending, updates |-> t.updates, incomplete |-> t.incomplete,
               metadata |-> t.metadata, finished |-> t.finished, reverted |-> t.reverted]

\* The updates of a block are stored up to another one, the block itself may be sealed.
LEMMA UpdatesOfPending ==
  ASSUME NEW block \in Blocks, NEW old, NEW new
  PROVE  [StoredUpdates(block, old) EXCEPT ![block] = 1..new] = StoredUpdates(block, new)
<1>1. block \in Int /\ \A b \in Blocks : b \in Int
  BY DEF Blocks
<1>2. \A b \in Blocks : StoredUpdates(block, new)[b] =
             IF b = block THEN 1..new ELSE StoredUpdates(block, old)[b]
  BY <1>1 DEF StoredUpdates
<1>3. \A sent : StoredUpdates(block, sent) = [b \in Blocks |-> StoredUpdates(block, sent)[b]]
  BY DEF StoredUpdates
<1> QED BY <1>2, <1>3

LEMMA UpdatesOfSealed ==
  ASSUME NEW block \in Blocks, NEW sent
  PROVE  [StoredUpdates(block, sent) EXCEPT ![block] = 1..Updates]
             = StoredUpdates(block + 1, 0)
<1>1. block \in Int /\ \A b \in Blocks : b \in Int
  BY DEF Blocks
<1>2. \A b \in Blocks : /\ b < block + 1 <=> b < block \/ b = block
                        /\ b = block + 1 => (1..0) = {}
  BY <1>1
<1> QED BY <1>1, <1>2 DEF StoredUpdates

LEMMA StatementKeepsOrder ==
  ASSUME NEW p \in Progress, db = TablesAt(p, db.reverted), Handling(p),
         \/ SavePendingBlock \/ CommitStateUpdate \/ SaveIncompleteBlock
         \/ SaveBlockMetadata \/ FinishIncompleteBlock
  PROVE  Handling(p)' /\ db' = db /\ channel' = channel
<1>1. /\ UNCHANGED <<channel, request, db, panicked, senderVars>>
  BY DEF SavePendingBlock, CommitStateUpdate, SaveIncompleteBlock, SaveBlockMetadata,
         FinishIncompleteBlock, Statement
<1>2. PICK q \in Progress : Leads(p, request, q) /\ Between(p, q) /\ Way(q)
  BY DEF Handling
<1>3. request' \in Requests /\ panicked' = "no" /\ Way(q)' /\ Leads(p, request', q)
  BY <1>1, <1>2, WayUnchanged DEF Handling
<1>4. /\ p.block \in Nat /\ p.sent \in 0..Updates /\ p.finished \in Nat
      /\ p.finished < p.block /\ Updates \in Nat /\ p.block > 0
  BY BoundAssumption DEF Progress
<1>6. db = Columns(db)
  BY DEF TablesAt, Columns
<1>5. step' \in StepNames /\ Between(p, q)'
  <2>1. CASE SavePendingBlock
    BY <1>1, <1>2, <2>1 DEF SavePendingBlock, Statement, Between, StepNames
  <2>2. CASE CommitStateUpdate
    <3>1. CASE request.kind = "PendingBlock"
      <4>1. /\ transaction = [db EXCEPT !.pending = request.block]
            /\ NewUpdates = {p.sent + 1} /\ request.block = p.block /\ p.block \in Blocks
            /\ q = [block |-> p.block, sent |-> p.sent + 1, finished |-> p.finished]
        BY <1>2, <1>4, <2>2, <3>1 DEF CommitStateUpdate, Between, Leads, NewUpdates, Blocks
      <4>2. db.updates[p.block] \cup NewUpdates = 1..q.sent
        BY <1>4, <4>1 DEF TablesAt, StoredUpdates
      <4>3. transaction' = TablesAt(q, db.reverted)
        <5>1. transaction' = [Columns(db) EXCEPT !.pending = p.block,
                                                 !.updates[p.block] = 1..q.sent]
          BY <1>6, <2>2, <4>1, <4>2 DEF CommitStateUpdate, Statement, Columns
        <5>2. [db.updates EXCEPT ![p.block] = 1..q.sent] = TablesAt(q, db.reverted).updates
          <6>1. /\ db.updates = StoredUpdates(p.block, p.sent)
                /\ TablesAt(q, db.reverted).updates = StoredUpdates(p.block, q.sent)
            BY <4>1 DEF TablesAt
          <6>2. [StoredUpdates(p.block, p.sent) EXCEPT ![p.block] = 1..q.sent]
                    = StoredUpdates(p.block, q.sent)
            BY <4>1, UpdatesOfPending
          <6> QED BY <6>1, <6>2
        <5>3. transaction' = [Columns(db) EXCEPT !.pending = q.block,
                                  !.updates = TablesAt(q, db.reverted).updates]
          BY <4>1, <5>1, <5>2 DEF Columns
        <5>5. transaction' = [pending    |-> q.block,
                              updates    |-> TablesAt(q, db.reverted).updates,
                              incomplete |-> db.incomplete, metadata |-> db.metadata,
                              finished   |-> db.finished, reverted |-> db.reverted]
          BY <5>3 DEF Columns
        <5>4. /\ q.sent > 0 /\ db.incomplete = (q.finished + 1)..(q.block - 1)
              /\ db.metadata = 1..(q.block - 1) /\ db.finished = 0..q.finished
          BY <1>4, <4>1 DEF TablesAt
        <5> QED BY <5>4, <5>5 DEF TablesAt
      <4>4. step' = "commit"
        BY <2>2, <3>1 DEF CommitStateUpdate, Statement
      <4> QED BY <1>1, <4>3, <4>4 DEF Between, StepNames
    <3>2. CASE request.kind = "SealIncompleteBlock"
      <4>1. /\ transaction = db /\ request.block = p.block /\ p.block \in Blocks
            /\ NewUpdates = (p.sent + 1)..Updates
        BY <1>2, <1>4, <2>2, <3>2 DEF CommitStateUpdate, Between, Leads, NewUpdates, Blocks
      <4>2. db.updates[p.block] \cup NewUpdates = 1..Updates
        BY <1>4, <4>1 DEF TablesAt, StoredUpdates
      <4>3. transaction' = [db EXCEPT !.updates[request.block] = 1..Updates]
        BY <2>2, <4>1, <4>2 DEF CommitStateUpdate, Statement
      <4>4. step' = "save_incomplete_block"
        BY <2>2, <3>2 DEF CommitStateUpdate, Statement
      <4> QED BY <1>1, <3>2, <4>3, <4>4 DEF Between, StepNames
    <3> QED BY <1>2, <2>2, <3>1, <3>2 DEF CommitStateUpdate, Between
  <2>3. CASE SaveIncompleteBlock
    <3>1. /\ request.kind = "SealIncompleteBlock" /\ request.block = p.block
          /\ transaction = [db EXCEPT !.updates[request.block] = 1..Updates]
      BY <1>2, <2>3 DEF SaveIncompleteBlock, Statement, Between, Leads
    <3>2. transaction.pending \in {0, request.block}
      BY <3>1 DEF TablesAt
    <3>3. /\ step' = "save_block_metadata"
          /\ transaction' = [transaction EXCEPT !.incomplete = @ \cup {request.block},
                                                !.pending = 0]
      BY <2>3, <3>2 DEF SaveIncompleteBlock, Statement
    <3> QED BY <1>1, <3>1, <3>3 DEF Between, StepNames
  <2>4. CASE SaveBlockMetadata
    <3>1. /\ request.kind = "SealIncompleteBlock" /\ request.block = p.block
          /\ p.block \in Blocks
          /\ q = [block |-> p.block + 1, sent |-> 0, finished |-> p.finished]
      BY <1>2, <1>4, <2>4 DEF SaveBlockMetadata, Statement, Between, Leads, Blocks
    <3>2. transaction = [[db EXCEPT !.updates[p.block] = 1..Updates]
                            EXCEPT !.incomplete = @ \cup {p.block}, !.pending = 0]
      BY <1>2, <2>4, <3>1 DEF SaveBlockMetadata, Statement, Between
    <3>3. /\ db.incomplete \cup {p.block} = (q.finished + 1)..(q.block - 1)
          /\ db.metadata \cup {p.block} = 1..(q.block - 1)
      BY <1>4, <3>1 DEF TablesAt
    <3>4. [db.updates EXCEPT ![p.block] = 1..Updates] = TablesAt(q, db.reverted).updates
      BY <1>4, <3>1, UpdatesOfSealed DEF TablesAt
    <3>5. /\ step' = "commit"
          /\ transaction' = [transaction EXCEPT !.metadata = @ \cup {p.block}]
      BY <2>4, <3>1 DEF SaveBlockMetadata, Statement
    <3>6. transaction' = [pending    |-> 0,
                          updates    |-> [db.updates EXCEPT ![p.block] = 1..Updates],
                          incomplete |-> db.incomplete \cup {p.block},
                          metadata   |-> db.metadata \cup {p.block},
                          finished   |-> db.finished, reverted |-> db.reverted]
      BY <1>6, <3>2, <3>5 DEF Columns
    <3>7. transaction' = TablesAt(q, db.reverted)
      <4>1. db.finished = 0..q.finished
        BY <3>1 DEF TablesAt
      <4> QED BY <3>1, <3>3, <3>4, <3>6, <4>1 DEF TablesAt
    <3> QED BY <1>1, <3>5, <3>7 DEF Between, StepNames
  <2>5. CASE FinishIncompleteBlock
    <3>1. /\ transaction = db /\ request.block = p.finished + 1 /\ request.block < p.block
          /\ q = [block |-> p.block, sent |-> p.sent, finished |-> p.finished + 1]
      BY <1>2, <2>5 DEF FinishIncompleteBlock, Between, Leads
    <3>2. /\ db.incomplete \ {request.block} = (q.finished + 1)..(q.block - 1)
          /\ db.finished \cup {request.block} = 0..q.finished
      BY <1>4, <3>1 DEF TablesAt
    <3>3. /\ step' = "commit"
          /\ transaction' = [transaction EXCEPT !.incomplete = @ \ {request.block},
                                                !.finished = @ \cup {request.block}]
      BY <2>5 DEF FinishIncompleteBlock
    <3>4. transaction' = [pending    |-> db.pending, updates |-> db.updates,
                          incomplete |-> (q.finished + 1)..(q.block - 1),
                          metadata   |-> db.metadata,
                          finished   |-> 0..q.finished, reverted |-> db.reverted]
      BY <1>6, <3>1, <3>2, <3>3 DEF Columns
    <3>5. transaction' = TablesAt(q, db.reverted)
      <4>1. /\ db.pending = IF q.sent = 0 THEN 0 ELSE q.block
            /\ db.metadata = 1..(q.block - 1)
        BY <3>1 DEF TablesAt
      <4>2. db.updates = TablesAt(q, db.reverted).updates
        BY <3>1 DEF TablesAt
      <4> QED BY <3>4, <4>1, <4>2 DEF TablesAt
    <3> QED BY <1>1, <3>3, <3>5 DEF Between, StepNames
  <2> QED BY <2>1, <2>2, <2>3, <2>4, <2>5
<1> QED BY <1>1, <1>3, <1>5 DEF Handling

\* Nothing is missing and nothing is stored twice: the handler does not panic.
LEMMA NoPanic ==
  ASSUME NEW p \in Progress, db = TablesAt(p, db.reverted), Handling(p)
  PROVE  ~DuplicateUpdate /\ ~MissingData
<1>1. PICK q \in Progress : Leads(p, request, q) /\ Between(p, q)
  BY DEF Handling
<1>2. /\ p.block \in Nat /\ p.sent \in 0..Updates /\ p.finished \in Nat
      /\ p.finished < p.block /\ Updates \in Nat /\ p.block > 0
  BY BoundAssumption DEF Progress
<1>3. ~DuplicateUpdate
  <2> SUFFICES ASSUME step = "commit_state_update"
               PROVE  NewUpdates \cap transaction.updates[request.block] = {}
    BY DEF DuplicateUpdate
  <2>1. \A u \in NewUpdates : u > p.sent
    BY <1>1, <1>2 DEF Between, Leads, NewUpdates
  <2>2. request.block = p.block /\ p.block \in Blocks
    BY <1>1, <1>2 DEF Between, Leads, Blocks
  <2>3. transaction.updates[request.block] = 1..p.sent
    BY <1>1, <1>2, <2>2 DEF Between, TablesAt, StoredUpdates
  <2> QED BY <1>2, <2>1, <2>3
<1>4. ~MissingData
  <2> SUFFICES ASSUME step = "get_data_to_complete_block"
               PROVE  GetDataToCompleteBlock(request.block)
    BY DEF MissingData
  <2> QED BY <1>1, <1>2 DEF Between, Leads, GetDataToCompleteBlock, TablesAt
<1> QED BY <1>3, <1>4

-----------------------------------------------------------------------------
LEMMA HandlerKeepsOrder ==
  ASSUME OrderInv, InOrder, Handler
  PROVE  OrderInv'
<1>1. PICK p \in Progress : db = TablesAt(p, db.reverted) /\ (Idle(p) \/ Handling(p) \/ Dead)
  BY DEF OrderInv
<1>2. channel \in Seq(Requests) /\ db.reverted \subseteq Nat
  BY DEF OrderInv
<1>3. /\ stray' = stray /\ step # "dead" /\ UNCHANGED senderVars
  BY DEF Handler, FillTokenCache, Receive, SavePendingBlock, CommitStateUpdate,
         DuplicateUpdate, SaveIncompleteBlock, SaveBlockMetadata, FinishIncompleteBlock,
         MissingData, Commit, RemoveRevertedBlock, Statement, Panic
<1>4. CASE Receive
  <2>1. Idle(p) /\ db' = db
    BY <1>1, <1>4 DEF Receive, Dead, Handling, StepNames
  <2>2. Handling(p)' /\ channel' \in Seq(Requests)
    BY <1>1, <1>2, <1>4, <2>1, FirstStatement
  <2> QED BY <1>1, <1>2, <1>3, <2>1, <2>2 DEF OrderInv, InOrder, senderVars
<1>6. CASE FillTokenCache
  <2>1. Idle(p) /\ UNCHANGED <<channel, db, panicked>> /\ step' = "idle"
    BY <1>1, <1>6 DEF FillTokenCache, Dead, Handling, StepNames
  <2>2. Idle(p)'
    BY <1>3, <2>1, WayUnchanged DEF Idle
  <2> QED BY <1>1, <1>2, <1>3, <2>1, <2>2 DEF OrderInv, InOrder, senderVars
<1>5. CASE ~Receive /\ ~FillTokenCache
  <2>1. Handling(p)
    BY <1>1, <1>3, <1>5 DEF Handler, SavePendingBlock, CommitStateUpdate, DuplicateUpdate,
         SaveIncompleteBlock, SaveBlockMetadata, FinishIncompleteBlock, MissingData,
         Commit, RemoveRevertedBlock, Statement, Idle, Dead
  <2>2. PICK q \in Progress : Leads(p, request, q) /\ Between(p, q) /\ Way(q)
    BY <2>1 DEF Handling
  <2>3. CASE \/ SavePendingBlock \/ CommitStateUpdate \/ SaveIncompleteBlock
             \/ SaveBlockMetadata \/ FinishIncompleteBlock
    <3>1. Handling(p)' /\ db' = db /\ channel' = channel
      BY <1>1, <2>1, <2>3, StatementKeepsOrder
    <3> QED BY <1>1, <1>2, <1>3, <3>1 DEF OrderInv, InOrder, senderVars
  <2>4. CASE Commit
    <3>1. /\ db' = TablesAt(q, db.reverted) /\ channel' = channel
          /\ step' = "idle" /\ panicked' = panicked
      BY <2>2, <2>4 DEF Commit, Between
    <3>2. db'.reverted = db.reverted
      BY <3>1 DEF TablesAt
    <3>3. Way(q)'
      BY <1>3, <2>2, <3>1, WayUnchanged
    <3>4. Idle(q)'
      BY <2>1, <3>1, <3>3 DEF Idle, Handling
    <3> QED BY <1>2, <1>3, <3>1, <3>2, <3>4 DEF OrderInv, InOrder, senderVars
  <2>5. CASE RemoveRevertedBlock
    <3>1. /\ db' = [db EXCEPT !.reverted = @ \ {request.block}] /\ channel' = channel
          /\ step' = "idle" /\ panicked' = panicked /\ p = q
      BY <2>2, <2>5 DEF RemoveRevertedBlock, Between, Leads, StepNames
    <3>2. db' = TablesAt(p, db'.reverted) /\ db'.reverted \subseteq Nat
      <4>1. db' = TablesAt(p, db.reverted \ {request.block})
        BY <1>1, <3>1 DEF TablesAt
      <4>2. db'.reverted = db.reverted \ {request.block}
        BY <4>1 DEF TablesAt
      <4> QED BY <1>2, <4>1, <4>2
    <3>3. Way(q)'
      BY <1>3, <2>2, <3>1, WayUnchanged
    <3>4. Idle(p)'
      BY <2>1, <3>1, <3>3 DEF Idle, Handling
    <3> QED BY <1>2, <1>3, <3>1, <3>2, <3>4 DEF OrderInv, InOrder, senderVars
  <2> QED BY <1>1, <1>5, <2>1, <2>3, <2>4, <2>5, NoPanic DEF Handler
<1> QED BY <1>4, <1>5, <1>6

\* A failure leaves the tables committed or not: both are tables of a progress.
LEMMA FailureKeepsOrder ==
  ASSUME OrderInv, InOrder, DatabaseFails
  PROVE  OrderInv'
<1>1. PICK p \in Progress : db = TablesAt(p, db.reverted) /\ (Idle(p) \/ Handling(p) \/ Dead)
  BY DEF OrderInv
<1>2. (Idle(p) \/ Handling(p)) /\ Dead' /\ UNCHANGED <<channel, stray, senderVars>>
  BY <1>1 DEF DatabaseFails, Dead
<1>3. channel' \in Seq(Requests) /\ db.reverted \subseteq Nat /\ stray' \in Nat
  BY <1>2 DEF OrderInv
<1>4. CASE db' = db
  BY <1>1, <1>2, <1>3, <1>4 DEF OrderInv, senderVars
<1>5. CASE db' = transaction /\ step = "commit"
  <2>1. PICK q \in Progress : Between(p, q)
    BY <1>2, <1>5 DEF Handling, Idle
  <2>2. db' = TablesAt(q, db.reverted)
    BY <1>5, <2>1 DEF Between
  <2>3. db'.reverted = db.reverted
    BY <2>2 DEF TablesAt
  <2> QED BY <1>2, <1>3, <2>2, <2>3 DEF OrderInv, senderVars
<1> QED BY <1>4, <1>5 DEF DatabaseFails

\* What a sender sends comes after all that was sent before.
LEMMA SenderLeads ==
  ASSUME OrderInv, InOrder, Senders
  PROVE  /\ keeper' \in [block : Nat, sent : Nat] /\ calculator' \in Nat
         /\ \E r \in Requests :
               /\ Send(r)
               /\ \A l \in Progress :
                    (keeper = [block |-> l.block, sent |-> l.sent] /\ calculator = l.finished)
                    => \E q \in Progress :
                          /\ Leads(l, r, q)
                          /\ keeper' = [block |-> q.block, sent |-> q.sent]
                          /\ calculator' = q.finished
<1>1. /\ keeper \in [block : Nat, sent : Nat] /\ calculator \in Nat
      /\ Updates \in Nat /\ MaxBlock \in Nat /\ db.reverted \subseteq Nat
  BY BoundAssumption DEF OrderInv
<1>2. CASE KeeperSavesPending
  <2> DEFINE r == [kind |-> "PendingBlock", block |-> keeper.block,
                   first |-> keeper.sent + 1, count |-> 1]
  <2>1. /\ keeper' = [block |-> keeper.block, sent |-> keeper.sent + 1]
        /\ calculator' = calculator /\ r \in Requests /\ Send(r)
    BY <1>1, <1>2 DEF KeeperSavesPending, Requests
  <2>2. ASSUME NEW l \in Progress,
               keeper = [block |-> l.block, sent |-> l.sent], calculator = l.finished
        PROVE  \E q \in Progress : /\ Leads(l, r, q)
                                   /\ keeper' = [block |-> q.block, sent |-> q.sent]
                                   /\ calculator' = q.finished
    <3> DEFINE q == [block |-> l.block, sent |-> l.sent + 1, finished |-> l.finished]
    <3>1. l.block <= MaxBlock /\ l.sent + 1 \in 0..Updates /\ l.block \in Nat
      BY <1>1, <1>2, <2>2 DEF KeeperSavesPending, Blocks, Progress
    <3>2. q \in Progress
      BY <3>1 DEF Progress
    <3>3. Leads(l, r, q)
      BY <2>2, <3>1 DEF Leads
    <3> QED BY <2>1, <2>2, <3>2, <3>3
  <2> QED BY <1>1, <2>1, <2>2
<1>3. CASE KeeperSeals
  <2> DEFINE r == [kind |-> "SealIncompleteBlock", block |-> keeper.block,
                   first |-> keeper.sent + 1, count |-> Updates - keeper.sent]
  <2>1. /\ keeper' = [block |-> keeper.block + 1, sent |-> 0]
        /\ calculator' = calculator /\ r \in Requests /\ Send(r)
    BY <1>1, <1>3 DEF KeeperSeals, Requests
  <2>2. ASSUME NEW l \in Progress,
               keeper = [block |-> l.block, sent |-> l.sent], calculator = l.finished
        PROVE  \E q \in Progress : /\ Leads(l, r, q)
                                   /\ keeper' = [block |-> q.block, sent |-> q.sent]
                                   /\ calculator' = q.finished
    <3> DEFINE q == [block |-> l.block + 1, sent |-> 0, finished |-> l.finished]
    <3>1. l.block <= MaxBlock /\ l.block \in Nat
      BY <1>1, <1>3, <2>2 DEF KeeperSeals, Blocks, Progress
    <3>2. q \in Progress
      BY <1>1, <3>1 DEF Progress
    <3>3. Leads(l, r, q)
      BY <2>2, <3>1 DEF Leads
    <3> QED BY <2>1, <2>2, <3>2, <3>3
  <2> QED BY <1>1, <2>1, <2>2
<1>4. CASE CalculatorFinishes
  <2> DEFINE r == [kind |-> "FinishBlock", block |-> calculator + 1]
  <2>1. /\ keeper' = keeper /\ calculator' = calculator + 1 /\ r \in Requests /\ Send(r)
    BY <1>1, <1>4 DEF CalculatorFinishes, Requests
  <2>2. ASSUME NEW l \in Progress,
               keeper = [block |-> l.block, sent |-> l.sent], calculator = l.finished
        PROVE  \E q \in Progress : /\ Leads(l, r, q)
                                   /\ keeper' = [block |-> q.block, sent |-> q.sent]
                                   /\ calculator' = q.finished
    <3> DEFINE q == [block |-> l.block, sent |-> l.sent, finished |-> l.finished + 1]
    <3>1. l.finished + 1 < l.block
      BY <1>4, <2>2 DEF CalculatorFinishes
    <3>2. q \in Progress
      BY <1>1, <3>1 DEF Progress
    <3>3. Leads(l, r, q)
      BY <2>2, <3>1 DEF Leads
    <3> QED BY <2>1, <2>2, <3>2, <3>3
  <2> QED BY <1>1, <2>1, <2>2
<1>5. CASE KeeperRemovesReverted
  <2>1. PICK b \in db.reverted : Send([kind |-> "RemoveRevertedBlock", block |-> b])
    BY <1>5 DEF KeeperRemovesReverted
  <2> DEFINE r == [kind |-> "RemoveRevertedBlock", block |-> b]
  <2>2. r \in Requests /\ keeper' = keeper /\ calculator' = calculator
    BY <1>1, <1>5 DEF KeeperRemovesReverted, senderVars, Requests
  <2>3. \A l : Leads(l, r, l)
    BY DEF Leads
  <2> QED BY <1>1, <2>1, <2>2, <2>3
<1> QED BY <1>2, <1>3, <1>4, <1>5 DEF Senders

LEMMA SendersKeepOrder ==
  ASSUME OrderInv, InOrder, Senders
  PROVE  OrderInv'
<1>1. PICK p \in Progress : db = TablesAt(p, db.reverted) /\ (Idle(p) \/ Handling(p) \/ Dead)
  BY DEF OrderInv
<1>2. channel \in Seq(Requests) /\ db.reverted \subseteq Nat /\ stray \in Nat
  BY DEF OrderInv
<1>3. keeper' \in [block : Nat, sent : Nat] /\ calculator' \in Nat
  BY SenderLeads
<1>4. PICK r \in Requests :
         /\ Send(r)
         /\ \A l \in Progress :
              (keeper = [block |-> l.block, sent |-> l.sent] /\ calculator = l.finished)
              => \E q \in Progress :
                    /\ Leads(l, r, q)
                    /\ keeper' = [block |-> q.block, sent |-> q.sent]
                    /\ calculator' = q.finished
  BY SenderLeads
<1>5. /\ channel' = Append(channel, r)
      /\ UNCHANGED <<request, step, db, transaction, panicked>>
  BY <1>4 DEF Send, handlerVars
<1>6. stray' = stray
  BY DEF Senders, KeeperSavesPending, KeeperSeals, CalculatorFinishes, KeeperRemovesReverted
<1>7. channel' \in Seq(Requests)
  BY <1>2, <1>5
<1>8. \A q : Way(q) => Way(q)'
  BY <1>2, <1>4, <1>5, WayOfAppend
<1>9. (Idle(p) \/ Handling(p) \/ Dead)'
  <2>1. CASE Idle(p)
    BY <1>5, <1>8, <2>1 DEF Idle
  <2>2. CASE Handling(p)
    BY <1>5, <1>8, <2>2 DEF Handling, Between
  <2>3. CASE Dead
    BY <1>5, <2>3 DEF Dead
  <2> QED BY <1>1, <2>1, <2>2, <2>3
<1> QED BY <1>1, <1>2, <1>3, <1>5, <1>6, <1>7, <1>9 DEF OrderInv, InOrder

LEMMA HighestOfInterval ==
  ASSUME NEW n \in Nat PROVE Highest(0..n) = n
  BY DEF Highest

LEMMA CardinalityOfInterval ==
  ASSUME NEW n \in Nat PROVE Cardinality(1..n) = n
<1>1. Cardinality(1..n) = IF 1 > n THEN 0 ELSE n - 1 + 1
  BY FS_Interval
<1> QED BY <1>1

\* A restarted node's senders stop where the tables do.
LEMMA RestartKeepsOrder ==
  ASSUME OrderInv, InOrder, Restart
  PROVE  OrderInv'
<1>1. PICK p \in Progress : db = TablesAt(p, db.reverted)
  BY DEF OrderInv
<1>2. /\ p.block \in Nat /\ p.block > 0 /\ p.sent \in Nat /\ p.finished \in Nat
      /\ p.finished < p.block /\ (p.sent > 0 => p.block \in Blocks)
  BY BoundAssumption DEF Progress, Blocks
<1>3. /\ db' = db /\ channel' = <<>> /\ step' = "start" /\ panicked' = "no"
      /\ stray' = stray
  BY DEF Restart
<1>4. calculator' = p.finished
  BY <1>1, <1>2, HighestOfInterval DEF Restart, TablesAt
<1>5. keeper' = [block |-> p.block, sent |-> p.sent]
  <2>1. CASE p.sent = 0
    <3>1. db.finished \cup db.incomplete = 0..(p.block - 1) /\ db.pending = 0
      BY <1>1, <1>2, <2>1 DEF TablesAt
    <3>2. Highest(0..(p.block - 1)) = p.block - 1
      BY <1>2, HighestOfInterval
    <3>3. keeper' = [block |-> Highest(db.finished \cup db.incomplete) + 1, sent |-> 0]
      BY <3>1 DEF Restart
    <3>4. Highest(db.finished \cup db.incomplete) + 1 = p.block
      <4>1. Highest(db.finished \cup db.incomplete) = p.block - 1
        BY <3>1, <3>2, Zenon
      <4> QED BY <1>2, <4>1
    <3> QED BY <2>1, <3>3, <3>4
  <2>2. CASE p.sent > 0
    <3>1. db.pending = p.block /\ db.pending # 0
      BY <1>1, <1>2, <2>2 DEF TablesAt
    <3>2. db.updates = StoredUpdates(p.block, p.sent)
      BY <1>1 DEF TablesAt
    <3>3. db.updates[p.block] = 1..p.sent
      BY <1>2, <2>2, <3>2 DEF StoredUpdates
    <3>4. Cardinality(1..p.sent) = p.sent
      BY <1>2, CardinalityOfInterval
    <3>5. keeper' = [block |-> db.pending, sent |-> Cardinality(db.updates[db.pending])]
      BY <3>1 DEF Restart
    <3> QED BY <3>1, <3>3, <3>4, <3>5
  <2> QED BY <1>2, <2>1, <2>2
<1>6. Way(p)'
  BY <1>1, <1>3, <1>4, <1>5, WayOfEmpty
<1>7. channel' \in Seq(Requests)
  BY <1>3
<1> QED BY <1>1, <1>2, <1>3, <1>4, <1>5, <1>6, <1>7 DEF OrderInv, InOrder, Idle

LEMMA NextOrder == OrderInv /\ [Next]_vars => OrderInv'
<1> SUFFICES ASSUME OrderInv, [Next]_vars PROVE OrderInv'
  OBVIOUS
<1>1. stray \in Nat
  BY DEF OrderInv
\* A request out of order was sent: nothing is claimed, then or later.
<1>2. stray' = stray \/ stray' = stray + 1
  BY DEF Next, Handler, FillTokenCache, Receive, SavePendingBlock, CommitStateUpdate, DuplicateUpdate,
         SaveIncompleteBlock, SaveBlockMetadata, FinishIncompleteBlock, MissingData,
         Commit, RemoveRevertedBlock, Statement, Panic, DatabaseFails, PollForNewProofs,
         Senders, KeeperSavesPending, KeeperSeals, CalculatorFinishes,
         KeeperRemovesReverted, SendStray, Restart, vars
<1>3. CASE ~InOrder'
  BY <1>1, <1>2, <1>3 DEF OrderInv
<1>4. CASE InOrder'
  <2>1. InOrder /\ ~SendStray
    BY <1>1, <1>2, <1>4 DEF InOrder, SendStray
  <2>2. CASE Handler
    BY <2>1, <2>2, HandlerKeepsOrder
  <2>3. CASE DatabaseFails
    BY <2>1, <2>3, FailureKeepsOrder
  <2>4. CASE Senders
    BY <2>1, <2>4, SendersKeepOrder
  <2>5. CASE Restart
    BY <2>1, <2>5, RestartKeepsOrder
  <2>6. CASE PollForNewProofs \/ UNCHANGED vars
    <3>1. UNCHANGED <<channel, handlerVars, senderVars, stray>>
      BY <2>6 DEF PollForNewProofs, vars
    <3>2. \A q : Way(q) => Way(q)'
      BY <3>1, WayUnchanged
    <3>3. PICK p \in Progress : /\ db = TablesAt(p, db.reverted)
                                /\ Idle(p) \/ Handling(p) \/ Dead
      BY <2>1 DEF OrderInv
    <3>4. (Idle(p) \/ Handling(p) \/ Dead)'
      <4>1. CASE Idle(p)
        BY <3>1, <3>2, <4>1 DEF Idle, handlerVars
      <4>2. CASE Handling(p)
        BY <3>1, <3>2, <4>2 DEF Handling, Between, handlerVars
      <4>3. CASE Dead
        BY <3>1, <4>3 DEF Dead, handlerVars
      <4> QED BY <3>3, <4>1, <4>2, <4>3
    <3> QED BY <2>1, <3>1, <3>3, <3>4 DEF OrderInv, InOrder, handlerVars, senderVars
  <2> QED BY <2>1, <2>2, <2>3, <2>4, <2>5, <2>6 DEF Next
<1> QED BY <1>3, <1>4

LEMMA InitOrder == Init => OrderInv
<1> SUFFICES ASSUME Init PROVE OrderInv
  OBVIOUS
<1> DEFINE p == [block |-> 1, sent |-> 0, finished |-> 0]
           w == [i \in 0..0 |-> p]
<1>1. p \in Progress
  BY BoundAssumption DEF Progress
<1>2. db = TablesAt(p, db.reverted) /\ db.reverted \subseteq Nat
  <2>1. StoredUpdates(1, 0) = [b \in Blocks |-> {}]
    BY DEF StoredUpdates, Blocks
  <2>2. (p.finished + 1)..(p.block - 1) = {} /\ 1..(p.block - 1) = {} /\ 0..p.finished = {0}
    OBVIOUS
  <2>3. db = [pending |-> 0, updates |-> StoredUpdates(1, 0), incomplete |-> {},
              metadata |-> {}, finished |-> {0}, reverted |-> {1}]
    BY <2>1 DEF Init
  <2>4. TablesAt(p, {1}) = [pending |-> 0, updates |-> StoredUpdates(1, 0), incomplete |-> {},
                            metadata |-> {}, finished |-> {0}, reverted |-> {1}]
    BY <2>2 DEF TablesAt
  <2> QED BY <2>3, <2>4
<1>3. Len(channel) = 0 /\ channel \in Seq(Requests)
  BY DEF Init
<1>4. Way(p)
  <2>1. w \in [0..0 -> Progress] /\ w[0] = p
    BY <1>1
  <2>2. keeper = [block |-> w[0].block, sent |-> w[0].sent] /\ calculator = w[0].finished
    BY <2>1 DEF Init
  <2>3. \A i \in 1..0 : Leads(w[i - 1], channel[i], w[i])
    OBVIOUS
  <2> HIDE DEF w
  <2> QED BY <1>3, <2>1, <2>2, <2>3 DEF Way
<1>5. Idle(p)
  BY <1>4 DEF Init, Idle
<1> QED BY <1>1, <1>2, <1>3, <1>5 DEF Init, OrderInv

LEMMA OrderIsInvariant == Spec => []OrderInv
  BY InitOrder, NextOrder, PTL DEF Spec

\* Across failures and restarts in the middle of any request, the tables the polling
\* task and a restarted node read describe whole blocks, each in the stage its number
\* says, and where the state keeper stopped.
THEOREM TablesDescribeWholeBlocks == Spec => []TablesAgree
<1>1. OrderInv => TablesAgree
  <2> SUFFICES ASSUME OrderInv, InOrder PROVE SealedIsWhole /\ StagesAreOrdered
    BY DEF TablesAgree
  <2>1. PICK p \in Progress : db = TablesAt(p, db.reverted)
    BY DEF OrderInv
  <2>2. /\ p.block \in Nat /\ p.finished \in Nat /\ p.finished < p.block
        /\ p.block <= MaxBlock + 1 /\ MaxBlock \in Nat
    BY BoundAssumption DEF Progress
  <2>3. /\ db.finished = 0..p.finished /\ db.incomplete = (p.finished + 1)..(p.block - 1)
        /\ db.metadata = 1..(p.block - 1) /\ db.pending \in {0, p.block}
        /\ db.updates = StoredUpdates(p.block, p.sent)
    BY <2>1 DEF TablesAt
  <2>4. SealedIsWhole
    <3> SUFFICES ASSUME NEW b \in db.incomplete \cup (db.finished \ {0})
                 PROVE  b \in db.metadata /\ db.updates[b] = 1..Updates
      BY DEF SealedIsWhole
    <3>1. b \in 1..(p.block - 1) /\ b \in Blocks
      BY <2>2, <2>3 DEF Blocks
    <3> QED BY <2>2, <2>3, <3>1 DEF StoredUpdates
  <2>5. StagesAreOrdered
    BY <2>2, <2>3 DEF StagesAreOrdered
  <2> QED BY <2>4, <2>5
<1> QED BY <1>1, OrderIsInvariant, PTL

\* The panics of finish_block and the table's key are never met by senders that keep to
\* the order, wherever a failure or a restart hits: only the database ends the handler.
THEOREM HandlerEndsWithDatabaseOnly == Spec => []OnlyDatabasePanics
<1>1. OrderInv => OnlyDatabasePanics
  BY DEF OrderInv, OnlyDatabasePanics, Idle, Handling, Dead
<1> QED BY <1>1, OrderIsInvariant, PTL

-----------------------------------------------------------------------------
(***************************************************************************)
(* The mempool's queue.                                                    *)
(***************************************************************************)

Ops == 1..Len(OpChunks)

Block == [ops : Seq(Ops), txs : Seq(L2Txs)]

TypeInv ==
    /\ known \in 0..Len(OpChunks) /\ now \in Nat /\ chunksLeft \in Nat
    /\ l1_transactions \in Seq(Ops) /\ priorityOps \in Seq(Ops)
    /\ l2Pool \subseteq L2Txs /\ pending_l2_transactions \subseteq L2Txs
    /\ ready_l2_transactions \in Seq(L2Txs) /\ txsForCommit \in Seq(L2Txs)
    /\ blocks \in Seq(Block)

\* The history has one of everything executed; a selection goes on where it ends.
OpsInv ==
    /\ PriorityOrder
    /\ pc # "idle" =>
          \A i \in DOMAIN priorityOps : priorityOps[i] = Len(executedOps) + i

\* A queue the mempool has filled without losing anything is a run of operations, which
\* begins at the next one to be selected or before it.
RunOfOps(ops, next) ==
    /\ ops # <<>> => ops[1] <= next
    /\ \A i \in DOMAIN ops : ops[i] = ops[1] + i - 1

RunInv ==
    /\ intact /\ pc = "l1" => RunOfOps(l1_transactions, current_l1_tx)
    /\ NeverPanics

\* What both loops have taken and what is left is no more than the block.
OpsChunks == SumFunction([i \in DOMAIN priorityOps |-> OpChunks[priorityOps[i]]])
TxsChunks == SumFunction([i \in DOMAIN txsForCommit |-> txsForCommit[i].chunks])

BudgetInv ==
    /\ OpsChunks \in Int /\ TxsChunks \in Int
    /\ OpsChunks + TxsChunks + chunksLeft <= BlockChunks

\* What was selected and what is ready are valid, and one sorted sequence.
NonceSorted(seq) == IsSorted(seq, NonceFirst)
ValidNow(seq) == \A i \in DOMAIN seq : ValidFrom(seq[i]) <= now

TxsInv ==
    /\ pc \in {"l1", "prepare"} => ready_l2_transactions = <<>> /\ txsForCommit = <<>>
    /\ ValidNow(txsForCommit) /\ ValidNow(ready_l2_transactions)
    /\ NonceSorted(txsForCommit)
    /\ pc = "l2" => NonceSorted(txsForCommit \o ready_l2_transactions)

QueueInv == TypeInv /\ OpsInv /\ RunInv /\ BudgetInv /\ TxsInv

-----------------------------------------------------------------------------
(* Types. *)

\* The ready transactions are sorted: NonceFirst is a strict order of them.
NoncePairs == {p \in L2Txs \X L2Txs : NonceFirst(p[1], p[2])}

LEMMA TxFields ==
  ASSUME NEW tx \in L2Txs
  PROVE  /\ tx.hash \in Nat /\ tx.chunks \in Nat /\ Nonce(tx) \in Nat
         /\ Len(tx.txs) \in Nat \ {0} /\ DOMAIN tx.txs = 1..Len(tx.txs)
         /\ ValidFrom(tx) \in Nat
         /\ \A i \in DOMAIN tx.txs :
               tx.txs[i].nonce \in Nat /\ tx.txs[i].validFrom <= ValidFrom(tx)
<1> DEFINE n == Len(tx.txs)
           times == {tx.txs[i].validFrom : i \in DOMAIN tx.txs}
<1>1. /\ tx.hash \in Nat /\ tx.chunks \in Nat
      /\ n \in Nat \ {0} /\ DOMAIN tx.txs = 1..n
      /\ \A i \in DOMAIN tx.txs : tx.txs[i].nonce \in Nat /\ tx.txs[i].validFrom \in Nat
  <2>1. tx.txs \in Seq(Range(tx.txs)) /\ tx.txs # <<>>
    BY QueueAssumption
  <2>2. n \in Nat \ {0} /\ DOMAIN tx.txs = 1..n
    BY <2>1, EmptySeq, LenProperties
  <2> QED BY <2>2, QueueAssumption
<1>2. Nonce(tx) \in Nat
  <2>1. n \in DOMAIN tx.txs
    BY <1>1
  <2> QED BY <1>1, <2>1 DEF Nonce, Last
<1>3. IsFiniteSet(times)
  <2>1. IsFiniteSet(1..n)
    BY <1>1, FS_Interval
  <2> DEFINE f == [i \in 1..n |-> tx.txs[i].validFrom]
  <2>2. f \in [1..n -> times]
    BY <1>1
  <2>3. \A t \in times : \E i \in 1..n : f[i] = t
    BY <1>1
  <2> HIDE DEF f, times
  <2>4. f \in Surjection(1..n, times)
    BY <2>2, <2>3 DEF Surjection
  <2> QED BY <2>1, <2>4, FS_Surjection
<1>4. times \subseteq Nat /\ times \subseteq Int /\ times # {}
  <2>1. times \subseteq Nat
    BY <1>1
  <2>2. 1 \in DOMAIN tx.txs
    BY <1>1
  <2>3. tx.txs[1].validFrom \in times
    BY <2>2
  <2> HIDE DEF times
  <2> QED BY <2>1, <2>3
<1>5. Max(times) \in times /\ \A t \in times : t <= Max(times)
  <2> HIDE DEF times
  <2> QED BY <1>3, <1>4, GreatestNumber
<1>6. ValidFrom(tx) = Max(times)
  BY DEF ValidFrom
<1>7. ValidFrom(tx) \in Nat /\ \A i \in DOMAIN tx.txs : tx.txs[i].validFrom <= ValidFrom(tx)
  <2>1. \A i \in DOMAIN tx.txs : tx.txs[i].validFrom \in times
    OBVIOUS
  <2> HIDE DEF times
  <2> QED BY <1>4, <1>5, <1>6, <2>1
<1> QED BY <1>1, <1>2, <1>7

LEMMA NonceOrders == Orders(NoncePairs, L2Txs)
<1>1. \A x, y \in L2Txs : <<x, y>> \in NoncePairs <=> NonceFirst(x, y)
  BY DEF NoncePairs
<1>2. ASSUME NEW x \in L2Txs, NEW y \in L2Txs, x # y
      PROVE  NonceFirst(x, y) \/ NonceFirst(y, x)
  <2>1. /\ x.hash \in Nat /\ Nonce(x) \in Nat /\ ValidFrom(x) \in Nat
        /\ y.hash \in Nat /\ Nonce(y) \in Nat /\ ValidFrom(y) \in Nat
    BY TxFields
  <2>2. x.hash # y.hash
    BY <1>2, QueueAssumption
  <2> QED BY <2>1, <2>2 DEF NonceFirst, HeapOrder
<1>3. ASSUME NEW x \in L2Txs, NEW y \in L2Txs, NEW z \in L2Txs,
             NonceFirst(x, y), NonceFirst(y, z)
      PROVE  NonceFirst(x, z)
  <2>1. /\ x.hash \in Nat /\ Nonce(x) \in Nat /\ ValidFrom(x) \in Nat
        /\ y.hash \in Nat /\ Nonce(y) \in Nat /\ ValidFrom(y) \in Nat
        /\ z.hash \in Nat /\ Nonce(z) \in Nat /\ ValidFrom(z) \in Nat
    BY TxFields
  <2> QED BY <1>3, <2>1 DEF NonceFirst, HeapOrder
<1> QED BY <1>1, <1>2, <1>3 DEF Orders

\* ByNonce has the transactions it is given, in order.
LEMMA ByNonceSorts ==
  ASSUME NEW txs \in SUBSET L2Txs
  PROVE  /\ ByNonce(txs) \in Seq(txs) /\ ByNonce(txs) \in Seq(L2Txs)
         /\ NonceSorted(ByNonce(txs))
<1>1. IsFiniteSet(L2Txs) /\ IsFiniteSet(txs) /\ Cardinality(txs) \in Nat
  BY QueueAssumption, FS_Subset, FS_CardinalityType
<1>2. PICK seq \in SetToSeqs(txs) :
         \A i, j \in DOMAIN seq : i < j => <<seq[i], seq[j]>> \in NoncePairs
  BY <1>1, NonceOrders, SortExists
<1>3. \A s \in SetToSeqs(txs) :
         s \in [1..Cardinality(txs) -> txs] /\ Len(s) = Cardinality(txs)
  BY <1>1 DEF SetToSeqs
<1>4. IsSorted(seq, NonceFirst)
  <2>1. DOMAIN seq = 1..Len(seq)
    BY <1>2, <1>3
  <2>2. \A i, j \in 1..Len(seq) : i < j => NonceFirst(seq[i], seq[j])
    BY <1>2, <2>1 DEF NoncePairs
  <2> QED BY <2>2 DEF IsSorted
<1>5. ByNonce(txs) \in SetToSeqs(txs) /\ IsSorted(ByNonce(txs), NonceFirst)
  BY <1>2, <1>4, Zenon DEF ByNonce
<1>6. ByNonce(txs) \in Seq(txs)
  BY <1>1, <1>3, <1>5
<1>7. ByNonce(txs) \in Seq(L2Txs)
  BY <1>6, SeqMonotonic
<1> QED BY <1>5, <1>6, <1>7 DEF NonceSorted

-----------------------------------------------------------------------------
(* The operations that were executed and those selected to be executed next. *)

OpsOf(bs) == FlattenSeq([i \in DOMAIN bs |-> bs[i].ops])

\* What two sequences of operations that continue each other are worth.
Continues(seq, ops) == \A i \in DOMAIN ops : ops[i] = Len(seq) + i

LEMMA ConcatInOrder ==
  ASSUME NEW s \in Seq(Ops), NEW t \in Seq(Ops),
         \A i \in DOMAIN s : s[i] = i, Continues(s, t)
  PROVE  \A i \in DOMAIN (s \o t) : (s \o t)[i] = i
<1>1. /\ Len(s) \in Nat /\ Len(t) \in Nat /\ DOMAIN s = 1..Len(s) /\ DOMAIN t = 1..Len(t)
  BY LenProperties
<1>2. /\ s \o t \in Seq(Ops) /\ Len(s \o t) = Len(s) + Len(t)
      /\ \A i \in 1..(Len(s) + Len(t)) :
            (s \o t)[i] = IF i <= Len(s) THEN s[i] ELSE t[i - Len(s)]
  BY ConcatProperties
<1>3. DOMAIN (s \o t) = 1..(Len(s) + Len(t))
  BY <1>2, LenProperties
<1> SUFFICES ASSUME NEW i \in 1..(Len(s) + Len(t)) PROVE (s \o t)[i] = i
  BY <1>3
<1>4. CASE i <= Len(s)
  BY <1>1, <1>2, <1>4
<1>5. CASE i > Len(s)
  <2>1. i - Len(s) \in DOMAIN t
    BY <1>1, <1>5
  <2>2. t[i - Len(s)] = Len(s) + (i - Len(s))
    BY <2>1 DEF Continues
  <2> QED BY <1>1, <1>2, <1>5, <2>2
<1> QED BY <1>1, <1>4, <1>5

LEMMA OpsOfBlocks ==
  ASSUME NEW bs \in Seq(Block), NEW b \in Block
  PROVE  OpsOf(bs) \in Seq(Ops) /\ OpsOf(Append(bs, b)) = OpsOf(bs) \o b.ops
<1> DEFINE all == Append(bs, b)
           lists == [i \in DOMAIN bs |-> bs[i].ops]
<1>1. Len(bs) \in Nat /\ DOMAIN bs = 1..Len(bs) /\ \A i \in DOMAIN bs : bs[i] \in Block
  BY LenProperties, ElementOfSeq
<1>2. /\ DOMAIN all = 1..(Len(bs) + 1)
      /\ \A i \in 1..Len(bs) : all[i] = bs[i]
      /\ all[Len(bs) + 1] = b
  BY AppendProperties, LenProperties
<1>3. lists \in Seq(Seq(Ops)) /\ Len(lists) = Len(bs)
  BY <1>1 DEF Block
<1>4. b.ops \in Seq(Ops)
  BY DEF Block
<1>5. [i \in DOMAIN all |-> all[i].ops] = Append(lists, b.ops)
  <2> DEFINE more == [i \in DOMAIN all |-> all[i].ops]
             app == Append(lists, b.ops)
  <2>1. /\ app \in Seq(Seq(Ops)) /\ Len(app) = Len(bs) + 1
        /\ \A i \in 1..Len(bs) : app[i] = lists[i]
        /\ app[Len(bs) + 1] = b.ops
    BY <1>3, <1>4, AppendProperties
  <2>2. /\ app = [i \in 1..(Len(bs) + 1) |-> app[i]]
    BY <2>1, LenProperties
  <2>3. \A i \in 1..(Len(bs) + 1) : app[i] = all[i].ops
    <3> TAKE i \in 1..(Len(bs) + 1)
    <3>1. CASE i = Len(bs) + 1
      BY <1>2, <2>1, <3>1
    <3>2. CASE i # Len(bs) + 1
      <4>1. i \in 1..Len(bs)
        BY <1>1, <3>2
      <4>2. app[i] = lists[i] /\ all[i] = bs[i] /\ lists[i] = bs[i].ops
        BY <1>1, <1>2, <2>1, <4>1
      <4> QED BY <4>2
    <3> QED BY <3>1, <3>2
  <2> HIDE DEF app, all
  <2> QED BY <1>2, <2>2, <2>3
<1>6. OpsOf(bs) \in Seq(Ops)
  BY <1>3, FlattenType DEF OpsOf
<1>7. FlattenSeq(Append(lists, b.ops)) = FlattenSeq(lists) \o b.ops
  BY <1>3, <1>4, FlattenAppend
<1> QED BY <1>5, <1>6, <1>7 DEF OpsOf

LEMMA ExecutedOpsAreOps ==
  ASSUME TypeInv
  PROVE  executedOps \in Seq(Ops) /\ Len(executedOps) \in Nat /\ unprocessed \in Nat
<1>1. executedOps = OpsOf(blocks) /\ blocks \in Seq(Block)
  BY DEF TypeInv, OpsOf, executedOps
<1>2. \E b : b \in Block
  <2>1. [ops |-> <<>>, txs |-> <<>>] \in Block
    BY DEF Block
  <2> QED BY <2>1
<1>3. executedOps \in Seq(Ops)
  BY <1>1, <1>2, OpsOfBlocks
<1>4. Len(executedOps) \in Nat
  BY <1>3, LenProperties
<1> QED BY <1>3, <1>4 DEF unprocessed

\* The mempool fills the queue with operations, in any order.
LEMMA QueueIsOfOps ==
  ASSUME TypeInv, Propose \/ ProposeAny
  PROVE  l1_transactions' \in Seq(Ops)
<1>1. Len(OpChunks) \in Nat /\ known \in 0..Len(OpChunks)
  BY QueueAssumption DEF TypeInv
<1>2. CASE Propose
  <2>1. PICK first \in 1..unprocessed :
           New([i \in 1..(known - first + 1) |-> first + i - 1])
    BY <1>2 DEF Propose
  <2>2. unprocessed \in Nat
    BY ExecutedOpsAreOps
  <2> DEFINE n == known - first + 1
             ops == [i \in 1..n |-> first + i - 1]
  <2>3. \A i \in 1..n : first + i - 1 \in Ops
    BY <1>1, <2>2 DEF Ops
  <2>4. ops \in Seq(Ops)
    <3>1. CASE n \in Nat
      BY <2>3, <3>1
    <3>2. CASE n \notin Nat
      <4>1. 1..n = {}
        BY <1>1, <2>2, <3>2
      <4>2. ops = <<>>
        BY <4>1
      <4> HIDE DEF ops
      <4> QED BY <4>2, EmptySeq
    <3> QED BY <3>1, <3>2
  <2> QED BY <2>1, <2>4 DEF New
<1>3. CASE ProposeAny
  <2>1. PICK ops \in SUBSET (1..known) : \E queue \in SetToSeqs(ops) : New(queue)
    BY <1>3 DEF ProposeAny
  <2>2. IsFiniteSet(ops)
    <3>1. IsFiniteSet(1..known)
      BY <1>1, FS_Interval
    <3> QED BY <2>1, <3>1, FS_Subset
  <2>3. PICK queue \in [1..Cardinality(ops) -> ops] : New(queue)
    BY <2>1 DEF SetToSeqs
  <2>4. ops \subseteq Ops
    BY <1>1, <2>1 DEF Ops
  <2>5. Cardinality(ops) \in Nat /\ queue \in [1..Cardinality(ops) -> Ops]
    BY <2>2, <2>3, <2>4, FS_CardinalityType
  <2>6. queue \in Seq(Ops)
    BY <2>5
  <2> QED BY <2>3, <2>6 DEF New
<1> QED BY <1>2, <1>3

-----------------------------------------------------------------------------
(* Types. *)

LEMMA InitTypes == QueueInit => TypeInv
<1>1. Len(OpChunks) \in Nat
  BY QueueAssumption
<1> QED BY <1>1 DEF QueueInit, TypeInv

\* The two loops count chunks down, never below zero.
LEMMA SelectKeepsTypes == TypeInv /\ Select => TypeInv'
<1> SUFFICES ASSUME TypeInv, Select PROVE TypeInv'
  OBVIOUS
<1> USE DEF TypeInv
<1>1. CASE SkipOp \/ WrongOrder \/ TakeOp \/ LastOp
  <2>1. Head(l1_transactions) \in Ops /\ l1_transactions' \in Seq(Ops)
    BY <1>1, HeadTailProperties DEF SkipOp, WrongOrder, TakeOp, LastOp, Selecting1
  <2>2. OpChunks[Head(l1_transactions)] \in Nat
    BY <2>1, QueueAssumption, LenProperties DEF Ops
  <2>3. chunksLeft' \in Nat
    BY <1>1, <2>2 DEF SkipOp, WrongOrder, TakeOp, LastOp, Fits, callVars
  <2>4. priorityOps' \in Seq(Ops)
    <3>1. \/ priorityOps' = priorityOps
          \/ priorityOps' = Append(priorityOps, Head(l1_transactions))
      BY <1>1 DEF SkipOp, WrongOrder, TakeOp, LastOp, callVars
    <3>2. priorityOps \in Seq(Ops)
      OBVIOUS
    <3>3. Append(priorityOps, Head(l1_transactions)) \in Seq(Ops)
      BY <2>1, <3>2, AppendProperties
    <3> QED BY <3>1, <3>2, <3>3
  <2> QED BY <1>1, <2>1, <2>3, <2>4
          DEF SkipOp, WrongOrder, TakeOp, LastOp, Selecting1, envVars, callVars
<1>2. CASE NoMoreOps \/ NoMoreTxs
  BY <1>2 DEF NoMoreOps, NoMoreTxs, queueVars, envVars
<1>3. CASE PrepareNewReady
  <2>1. Ready(now) \in SUBSET L2Txs
    BY DEF Ready
  <2>2. ByNonce(Ready(now)) \in Seq(L2Txs)
    BY <2>1, ByNonceSorts
  <2>3. ready_l2_transactions' \in Seq(L2Txs)
    BY <1>3, <2>2, ConcatProperties DEF PrepareNewReady
  <2> QED BY <1>3, <2>3 DEF PrepareNewReady, envVars
<1>4. CASE TakeTx \/ LastTx
  <2>1. Head(ready_l2_transactions) \in L2Txs /\ ready_l2_transactions' \in Seq(L2Txs)
    BY <1>4, HeadTailProperties DEF TakeTx, LastTx, Selecting2
  <2>2. Head(ready_l2_transactions).chunks \in Nat
    BY <2>1, TxFields
  <2>3. chunksLeft' \in Nat
    BY <1>4, <2>2 DEF TakeTx, LastTx, Fits
  <2>4. txsForCommit' \in Seq(L2Txs)
    <3>1. \/ txsForCommit' = txsForCommit
          \/ txsForCommit' = Append(txsForCommit, Head(ready_l2_transactions))
      BY <1>4 DEF TakeTx, LastTx
    <3>2. txsForCommit \in Seq(L2Txs)
      OBVIOUS
    <3>3. Append(txsForCommit, Head(ready_l2_transactions)) \in Seq(L2Txs)
      BY <2>1, <3>2, AppendProperties
    <3> QED BY <3>1, <3>2, <3>3
  <2> QED BY <1>4, <2>1, <2>3, <2>4 DEF TakeTx, LastTx, Selecting2
<1> QED BY <1>1, <1>2, <1>3, <1>4 DEF Select

LEMMA NextTypes == TypeInv /\ [QueueNext]_mempoolVars => TypeInv'
<1> SUFFICES ASSUME TypeInv, [QueueNext]_mempoolVars PROVE TypeInv'
  OBVIOUS
<1>1. CASE Tick \/ PriorityOpArrives \/ (\E tx \in L2Txs : TxArrives(tx)) \/ UNCHANGED mempoolVars
  <2>1. UNCHANGED <<l1_transactions, pending_l2_transactions, ready_l2_transactions,
                    chunksLeft, priorityOps, txsForCommit, blocks>>
    BY <1>1 DEF Tick, PriorityOpArrives, TxArrives, mempoolVars, envVars, queueVars, callVars
  <2>2. now' \in Nat
    BY <1>1 DEF TypeInv, Tick, PriorityOpArrives, TxArrives, mempoolVars, envVars
  <2>3. known' \in 0..Len(OpChunks)
    BY <1>1, QueueAssumption
       DEF TypeInv, Tick, PriorityOpArrives, TxArrives, mempoolVars, envVars
  <2>4. l2Pool' \subseteq L2Txs
    BY <1>1 DEF TypeInv, Tick, PriorityOpArrives, TxArrives, mempoolVars, envVars
  <2> QED BY <2>1, <2>2, <2>3, <2>4 DEF TypeInv
<1>2. CASE Propose \/ ProposeAny
  <2>1. l1_transactions' \in Seq(Ops) /\ BlockChunks \in Nat
    BY <1>2, QueueIsOfOps, QueueAssumption
  <2>2. PICK queue : New(queue)
    BY <1>2 DEF Propose, ProposeAny
  <2>3. <<>> \in Seq(Ops) /\ <<>> \in Seq(L2Txs)
    BY EmptySeq
  <2> QED BY <2>1, <2>2, <2>3 DEF TypeInv, New
<1>3. CASE Select
  BY <1>3, SelectKeepsTypes
<1>4. CASE RequiredChunksFails
  <2>1. ready_l2_transactions' \in Seq(L2Txs)
    BY <1>4, HeadTailProperties DEF TypeInv, RequiredChunksFails, Selecting2
  <2> QED BY <1>4, <2>1 DEF TypeInv, RequiredChunksFails, Selecting2
<1>5. CASE Execute
  <2>1. [ops |-> priorityOps, txs |-> txsForCommit] \in Block
    BY DEF TypeInv, Block
  <2>2. blocks' \in Seq(Block)
    BY <1>5, <2>1, AppendProperties DEF TypeInv, Execute
  <2> QED BY <1>5, <2>2 DEF TypeInv, Execute, queueVars, faultVars
<1> QED BY <1>1, <1>2, <1>3, <1>4, <1>5 DEF QueueNext

-----------------------------------------------------------------------------
(* The priority operations are executed in order. *)

LEMMA InitOps == QueueInit => OpsInv
<1> SUFFICES ASSUME QueueInit PROVE OpsInv
  OBVIOUS
<1>1. executedOps = <<>>
  <2>1. [i \in DOMAIN blocks |-> blocks[i].ops] = <<>>
    BY DEF QueueInit
  <2> QED BY <2>1, FlattenEmpty DEF executedOps
<1>2. PriorityOrder
  BY <1>1 DEF PriorityOrder
<1> QED BY <1>2 DEF QueueInit, OpsInv

LEMMA TakeOpKeepsOps == TypeInv /\ OpsInv /\ TakeOp => OpsInv'
<1> SUFFICES ASSUME TypeInv, OpsInv, TakeOp PROVE OpsInv'
  OBVIOUS
<1> DEFINE op == Head(l1_transactions)
<1>1. op \in Ops /\ l1_transactions' \in Seq(Ops)
  BY HeadTailProperties DEF TypeInv, TakeOp, Selecting1
<1>2. op = Len(executedOps) + 1 + Len(priorityOps) /\ priorityOps' = Append(priorityOps, op)
  BY DEF TakeOp, IsNext, current_l1_tx, unprocessed
<1>3. Len(executedOps) \in Nat
  BY ExecutedOpsAreOps
<1>4. /\ priorityOps \in Seq(Ops) /\ Len(priorityOps) \in Nat
      /\ DOMAIN priorityOps = 1..Len(priorityOps)
  BY LenProperties DEF TypeInv
<1>5. /\ pc = "l1" /\ pc' = "l1" /\ blocks' = blocks /\ known' = known
      /\ executedOps' = executedOps
  BY DEF TakeOp, Selecting1, envVars, executedOps
<1>6. priorityOps' \in Seq(Ops) /\ Continues(executedOps, priorityOps')
  <2> HIDE DEF op
  <2>1. /\ priorityOps' \in Seq(Ops)
        /\ Len(priorityOps') = Len(priorityOps) + 1
        /\ \A i \in 1..Len(priorityOps) : priorityOps'[i] = priorityOps[i]
        /\ priorityOps'[Len(priorityOps) + 1] = op
    BY <1>1, <1>2, <1>4, AppendProperties
  <2>2. DOMAIN priorityOps' = 1..(Len(priorityOps) + 1)
    BY <2>1, LenProperties
  <2>3. ASSUME NEW i \in 1..(Len(priorityOps) + 1)
        PROVE  priorityOps'[i] = Len(executedOps) + i
    <3>1. CASE i = Len(priorityOps) + 1
      BY <1>2, <1>3, <1>4, <2>1, <3>1
    <3>2. CASE i # Len(priorityOps) + 1
      <4>1. i \in 1..Len(priorityOps)
        BY <1>4, <3>2
      <4> QED BY <1>4, <1>5, <2>1, <4>1 DEF OpsInv
    <3> QED BY <3>1, <3>2
  <2> QED BY <2>1, <2>2, <2>3 DEF Continues
<1> QED BY <1>1, <1>5, <1>6 DEF OpsInv, PriorityOrder, Continues

LEMMA ExecuteKeepsOps == TypeInv /\ OpsInv /\ Execute => OpsInv'
<1> SUFFICES ASSUME TypeInv, OpsInv, Execute PROVE OpsInv'
  OBVIOUS
<1>1. pc = "done" /\ pc' = "idle"
  BY DEF Execute
<1>2. CASE blocks' = blocks
  BY <1>1, <1>2 DEF OpsInv, PriorityOrder, executedOps
<1>3. CASE blocks' # blocks
  <2> DEFINE b == [ops |-> priorityOps, txs |-> txsForCommit]
  <2>1. b \in Block /\ b.ops = priorityOps /\ blocks \in Seq(Block)
    BY DEF TypeInv, Block
  <2>2. blocks' = Append(blocks, b)
    BY <1>3 DEF Execute
  <2> HIDE DEF b
  <2>3. executedOps \in Seq(Ops) /\ executedOps' = executedOps \o priorityOps
    BY <2>1, <2>2, OpsOfBlocks DEF executedOps, OpsOf
  <2>4. /\ priorityOps \in Seq(Ops) /\ Continues(executedOps, priorityOps)
        /\ \A i \in DOMAIN executedOps : executedOps[i] = i
    BY <1>1 DEF TypeInv, OpsInv, PriorityOrder, Continues
  <2>5. PriorityOrder'
    BY <2>3, <2>4, ConcatInOrder DEF PriorityOrder
  <2> QED BY <1>1, <2>5 DEF OpsInv
<1> QED BY <1>2, <1>3

LEMMA NextOps == TypeInv /\ OpsInv /\ [QueueNext]_mempoolVars => OpsInv'
<1> SUFFICES ASSUME TypeInv, OpsInv, [QueueNext]_mempoolVars PROVE OpsInv'
  OBVIOUS
<1>1. CASE TakeOp
  BY <1>1, TakeOpKeepsOps
<1>2. CASE Execute
  BY <1>2, ExecuteKeepsOps
<1>3. ASSUME blocks' = blocks, priorityOps' = priorityOps \/ priorityOps' = <<>>,
             pc' # "idle" => priorityOps' = <<>> \/ pc # "idle"
      PROVE  OpsInv'
  BY <1>3 DEF OpsInv, PriorityOrder, executedOps
<1>4. CASE Tick \/ PriorityOpArrives \/ (\E tx \in L2Txs : TxArrives(tx)) \/ UNCHANGED mempoolVars
  BY <1>3, <1>4 DEF Tick, PriorityOpArrives, TxArrives, mempoolVars, callVars, envVars
<1>5. CASE Propose \/ ProposeAny
  BY <1>3, <1>5 DEF Propose, ProposeAny, New
<1>6. CASE SkipOp \/ WrongOrder \/ LastOp \/ NoMoreOps
  BY <1>3, <1>6 DEF SkipOp, WrongOrder, LastOp, NoMoreOps, Selecting1, callVars, envVars
<1>7. CASE PrepareNewReady \/ NoMoreTxs
  BY <1>3, <1>7 DEF PrepareNewReady, NoMoreTxs, envVars
<1>8. CASE TakeTx \/ LastTx \/ RequiredChunksFails
  BY <1>3, <1>8 DEF TakeTx, LastTx, RequiredChunksFails, Selecting2
<1> QED BY <1>1, <1>2, <1>4, <1>5, <1>6, <1>7, <1>8 DEF QueueNext, Select

-----------------------------------------------------------------------------
(* The assertion of the loop fails only if the mempool has lost an operation. *)

\* Without its first operation the queue is a run that begins one later.
LEMMA TailOfRun ==
  ASSUME NEW ops \in Seq(Ops), ops # <<>>, NEW next \in Nat, RunOfOps(ops, next),
         NEW after \in {next, next + 1}, Head(ops) < after
  PROVE  RunOfOps(Tail(ops), after)
<1>1. /\ Tail(ops) \in Seq(Ops) /\ Len(Tail(ops)) = Len(ops) - 1
      /\ \A i \in 1..Len(Tail(ops)) : Tail(ops)[i] = ops[i + 1]
  BY HeadTailProperties
<1>2. Len(ops) \in Nat \ {0} /\ DOMAIN ops = 1..Len(ops) /\ Head(ops) = ops[1]
  BY EmptySeq, LenProperties
<1>3. DOMAIN Tail(ops) = 1..(Len(ops) - 1)
  BY <1>1, LenProperties
<1>4. ops[1] \in Nat
  BY <1>2, ElementOfSeq, QueueAssumption DEF Ops
<1>5. \A i \in 1..(Len(ops) - 1) : Tail(ops)[i] = ops[1] + i
  <2> TAKE i \in 1..(Len(ops) - 1)
  <2>1. i + 1 \in DOMAIN ops /\ Tail(ops)[i] = ops[i + 1]
    BY <1>1, <1>2
  <2>2. ops[i + 1] = ops[1] + (i + 1) - 1
    BY <2>1 DEF RunOfOps
  <2> QED BY <1>4, <2>1, <2>2
<1>6. ASSUME Tail(ops) # <<>> PROVE 1 \in 1..(Len(ops) - 1)
  BY <1>1, <1>2, <1>6, EmptySeq
<1>7. Tail(ops) # <<>> => Tail(ops)[1] <= after
  BY <1>2, <1>4, <1>5, <1>6
<1>8. \A i \in DOMAIN Tail(ops) : Tail(ops)[i] = Tail(ops)[1] + i - 1
  <2> TAKE i \in DOMAIN Tail(ops)
  <2>1. i \in 1..(Len(ops) - 1) /\ 1 \in 1..(Len(ops) - 1)
    BY <1>2, <1>3
  <2>2. Tail(ops)[i] = ops[1] + i /\ Tail(ops)[1] = ops[1] + 1
    BY <1>5, <2>1
  <2>3. i \in Int
    BY <2>1
  <2> QED BY <1>4, <2>2, <2>3
<1> QED BY <1>7, <1>8 DEF RunOfOps

\* The mempool stores operations in order and gives all from one not yet executed, or an
\* earlier one, on.
LEMMA ProposedIsRun ==
  ASSUME TypeInv, Propose
  PROVE  RunOfOps(l1_transactions, current_l1_tx)'
<1>1. PICK first \in 1..unprocessed :
         New([i \in 1..(known - first + 1) |-> first + i - 1])
  BY DEF Propose
<1>2. /\ unprocessed \in Nat /\ known \in Nat
      /\ Len(executedOps) \in Nat
  BY ExecutedOpsAreOps, QueueAssumption DEF TypeInv
<1> DEFINE n == known - first + 1
           ops == [i \in 1..n |-> first + i - 1]
<1>3. /\ l1_transactions' = ops /\ priorityOps' = <<>> /\ blocks' = blocks
  BY <1>1 DEF New, Propose
<1>4. current_l1_tx' = unprocessed
  <2>1. executedOps' = executedOps
    BY <1>3 DEF executedOps
  <2>2. Len(priorityOps') = 0
    BY <1>3, EmptySeq
  <2> QED BY <1>2, <2>1, <2>2 DEF current_l1_tx, unprocessed
<1>5. ASSUME NEW i \in 1..n PROVE 1 \in 1..n /\ ops[i] = ops[1] + i - 1 /\ ops[1] = first
  <2>1. 1 \in 1..n
    BY <1>2
  <2>2. ops[1] = first + 1 - 1 /\ ops[i] = first + i - 1
    BY <2>1
  <2> HIDE DEF ops
  <2> QED BY <1>2, <2>1, <2>2
<1>6. ops # <<>> => 1 \in 1..n
  BY <1>2
<1>7. DOMAIN ops = 1..n
  OBVIOUS
<1> HIDE DEF ops, n
<1>8. RunOfOps(ops, unprocessed)
  BY <1>1, <1>2, <1>5, <1>6, <1>7 DEF RunOfOps
<1> QED BY <1>3, <1>4, <1>8 DEF RunOfOps

LEMMA LoopKeepsRun ==
  ASSUME TypeInv, RunInv, SkipOp \/ WrongOrder \/ TakeOp
  PROVE  RunInv'
<1>1. /\ pc = "l1" /\ intact' = intact /\ executedOps' = executedOps
      /\ l1_transactions \in Seq(Ops) /\ l1_transactions # <<>>
      /\ l1_transactions' = Tail(l1_transactions)
  BY DEF TypeInv, SkipOp, WrongOrder, TakeOp, Selecting1, envVars, faultVars, executedOps
<1>2. Len(executedOps) \in Nat /\ Len(priorityOps) \in Nat /\ current_l1_tx \in Nat
  BY ExecutedOpsAreOps, LenProperties DEF TypeInv, current_l1_tx, unprocessed
<1>3. Head(l1_transactions) \in Nat
  BY <1>1, HeadTailProperties, QueueAssumption DEF Ops
<1>4. Head(l1_transactions) = l1_transactions[1]
  BY <1>1, EmptySeq
<1>5. CASE SkipOp
  <2>1. pc' = pc /\ priorityOps' = priorityOps /\ Head(l1_transactions) < current_l1_tx
    BY <1>5 DEF SkipOp, callVars, AlreadyProcessed
  <2>2. current_l1_tx' = current_l1_tx
    BY <1>1, <2>1 DEF current_l1_tx, unprocessed
  <2>3. intact => RunOfOps(Tail(l1_transactions), current_l1_tx)
    BY <1>1, <1>2, <2>1, TailOfRun DEF RunInv
  <2> QED BY <1>1, <2>1, <2>2, <2>3 DEF RunInv, NeverPanics, RunOfOps
<1>6. CASE WrongOrder
  <2>1. ~ intact
    BY <1>1, <1>2, <1>3, <1>4, <1>6
       DEF RunInv, RunOfOps, WrongOrder, AlreadyProcessed, IsNext
  <2> QED BY <1>1, <2>1 DEF RunInv, NeverPanics
<1>7. CASE TakeOp
  <2>1. /\ pc' = pc /\ Head(l1_transactions) = current_l1_tx
        /\ priorityOps' = Append(priorityOps, Head(l1_transactions))
    BY <1>7 DEF TakeOp, IsNext
  <2>2. current_l1_tx' = current_l1_tx + 1
    <3>1. Len(priorityOps') = Len(priorityOps) + 1
      <4>1. Head(l1_transactions) \in Ops /\ priorityOps \in Seq(Ops)
        BY <1>1, HeadTailProperties DEF TypeInv
      <4> QED BY <2>1, <4>1, AppendProperties
    <3> QED BY <1>1, <1>2, <3>1 DEF current_l1_tx, unprocessed
  <2>3. intact => RunOfOps(Tail(l1_transactions), current_l1_tx + 1)
    BY <1>1, <1>2, <2>1, TailOfRun DEF RunInv
  <2> QED BY <1>1, <2>1, <2>2, <2>3 DEF RunInv, NeverPanics, RunOfOps
<1> QED BY <1>5, <1>6, <1>7

LEMMA NextRun == TypeInv /\ RunInv /\ [QueueNext]_mempoolVars => RunInv'
<1> SUFFICES ASSUME TypeInv, RunInv, [QueueNext]_mempoolVars PROVE RunInv'
  OBVIOUS
<1>1. ASSUME pc' # "panicked", pc' # "l1" PROVE RunInv'
  BY <1>1 DEF RunInv, NeverPanics
<1>2. ASSUME UNCHANGED <<l1_transactions, priorityOps, blocks, pc, intact>> PROVE RunInv'
  BY <1>2 DEF RunInv, NeverPanics, RunOfOps, current_l1_tx, unprocessed, executedOps
<1>3. CASE Tick \/ PriorityOpArrives \/ (\E tx \in L2Txs : TxArrives(tx)) \/ UNCHANGED mempoolVars
  BY <1>2, <1>3 DEF Tick, PriorityOpArrives, TxArrives, mempoolVars, queueVars, callVars, envVars,
                    faultVars
<1>4. CASE Propose
  <2>1. RunOfOps(l1_transactions, current_l1_tx)' /\ pc' = "l1"
    BY <1>4, ProposedIsRun DEF Propose, New
  <2> QED BY <2>1 DEF RunInv, NeverPanics
<1>5. CASE ProposeAny
  BY <1>5 DEF ProposeAny, New, RunInv, NeverPanics
<1>6. CASE SkipOp \/ WrongOrder \/ TakeOp
  BY <1>6, LoopKeepsRun
<1>7. CASE \/ LastOp \/ NoMoreOps \/ PrepareNewReady \/ LastTx \/ NoMoreTxs
           \/ RequiredChunksFails \/ Execute
  BY <1>1, <1>7 DEF LastOp, NoMoreOps, PrepareNewReady, LastTx, NoMoreTxs,
                    RequiredChunksFails, Execute
<1>8. CASE TakeTx
  BY <1>1, <1>8 DEF TakeTx, Selecting2
<1> QED BY <1>3, <1>4, <1>5, <1>6, <1>7, <1>8 DEF QueueNext, Select

-----------------------------------------------------------------------------
(* The two loops share one budget. *)

LEMMA NoChunks ==
  ASSUME NEW seq, seq = <<>>
  PROVE  /\ SumFunction([i \in DOMAIN seq |-> OpChunks[seq[i]]]) = 0
         /\ SumFunction([i \in DOMAIN seq |-> seq[i].chunks]) = 0
<1>1. DOMAIN seq = {}
  OBVIOUS
<1> QED BY <1>1, SumFunctionOfEmpty

LEMMA TakeOpKeepsBudget == TypeInv /\ BudgetInv /\ TakeOp => BudgetInv'
<1> SUFFICES ASSUME TypeInv, BudgetInv, TakeOp PROVE BudgetInv'
  OBVIOUS
<1> DEFINE op == Head(l1_transactions)
           n == Len(priorityOps)
           f == [i \in DOMAIN priorityOps |-> OpChunks[priorityOps[i]]]
           g == [i \in DOMAIN priorityOps' |-> OpChunks[priorityOps'[i]]]
<1>1. op \in Ops /\ priorityOps \in Seq(Ops) /\ \A o \in Ops : OpChunks[o] \in Nat
  <2>1. op \in Ops /\ priorityOps \in Seq(Ops)
    BY HeadTailProperties DEF TypeInv, TakeOp, Selecting1
  <2>2. \A o \in Ops : OpChunks[o] \in Nat
    BY QueueAssumption DEF Ops
  <2> QED BY <2>1, <2>2
<1>2. /\ priorityOps' = Append(priorityOps, op)
      /\ chunksLeft' = chunksLeft - OpChunks[op] /\ txsForCommit' = txsForCommit
  BY DEF TakeOp, Selecting1
<1> HIDE DEF op
<1>3. /\ n \in Nat /\ DOMAIN priorityOps = 1..n
      /\ DOMAIN priorityOps' = 1..(n + 1)
      /\ \A i \in 1..n : priorityOps[i] \in Ops /\ priorityOps'[i] = priorityOps[i]
      /\ priorityOps'[n + 1] = op /\ \A i \in 1..(n + 1) : priorityOps'[i] \in Ops
  BY <1>1, <1>2, AppendProperties, LenProperties, ElementOfSeq
<1>4. SumFunction(g) = SumFunction(f) + OpChunks[op]
  <2>1. f \in [1..n -> Int] /\ g \in [1..(n + 1) -> Int]
    BY <1>1, <1>3
  <2>2. g[n + 1] = OpChunks[op]
    <3>1. n + 1 \in 1..(n + 1)
      BY <1>3
    <3> QED BY <1>3, <3>1
  <2>3. \A i \in 1..n : g[i] = f[i]
    <3> TAKE i \in 1..n
    <3>1. i \in 1..(n + 1)
      BY <1>3
    <3> QED BY <1>3, <3>1
  <2>4. n \in Nat
    BY <1>3
  <2> HIDE DEF f, g, n
  <2>5. SumFunction(g) = SumFunction(f) + g[n + 1]
    BY <2>1, <2>3, <2>4, SumFunctionAppend
  <2> QED BY <2>2, <2>5
<1>5. OpsChunks = SumFunction(f) /\ OpsChunks' = SumFunction(g) /\ TxsChunks' = TxsChunks
  BY <1>2 DEF OpsChunks, TxsChunks
<1>6. OpChunks[op] \in Nat /\ chunksLeft \in Nat
  BY <1>1 DEF TypeInv
<1> DEFINE chunks == OpChunks[op]
<1>7. /\ OpsChunks' = OpsChunks + chunks /\ chunksLeft' = chunksLeft - chunks
      /\ chunks \in Nat
  BY <1>2, <1>4, <1>5, <1>6
<1> HIDE DEF f, g, chunks
<1> QED BY <1>5, <1>6, <1>7 DEF BudgetInv

LEMMA TakeTxKeepsBudget == TypeInv /\ BudgetInv /\ TakeTx => BudgetInv'
<1> SUFFICES ASSUME TypeInv, BudgetInv, TakeTx PROVE BudgetInv'
  OBVIOUS
<1> DEFINE tx == Head(ready_l2_transactions)
           n == Len(txsForCommit)
           f == [i \in DOMAIN txsForCommit |-> txsForCommit[i].chunks]
           g == [i \in DOMAIN txsForCommit' |-> txsForCommit'[i].chunks]
<1>1. tx \in L2Txs /\ txsForCommit \in Seq(L2Txs)
  BY HeadTailProperties DEF TypeInv, TakeTx, Selecting2
<1>2. /\ txsForCommit' = Append(txsForCommit, tx)
      /\ chunksLeft' = chunksLeft - tx.chunks /\ priorityOps' = priorityOps
  BY DEF TakeTx, Selecting2
<1> HIDE DEF tx
<1>3. /\ n \in Nat /\ DOMAIN txsForCommit = 1..n
      /\ DOMAIN txsForCommit' = 1..(n + 1)
      /\ \A i \in 1..n : txsForCommit[i] \in L2Txs /\ txsForCommit'[i] = txsForCommit[i]
      /\ txsForCommit'[n + 1] = tx /\ \A i \in 1..(n + 1) : txsForCommit'[i] \in L2Txs
  BY <1>1, <1>2, AppendProperties, LenProperties, ElementOfSeq
<1>4. SumFunction(g) = SumFunction(f) + tx.chunks
  <2>1. f \in [1..n -> Int] /\ g \in [1..(n + 1) -> Int]
    BY <1>3, TxFields
  <2>2. g[n + 1] = tx.chunks
    <3>1. n + 1 \in 1..(n + 1)
      BY <1>3
    <3> QED BY <1>3, <3>1
  <2>3. \A i \in 1..n : g[i] = f[i]
    <3> TAKE i \in 1..n
    <3>1. i \in 1..(n + 1)
      BY <1>3
    <3> QED BY <1>3, <3>1
  <2>4. n \in Nat
    BY <1>3
  <2> HIDE DEF f, g, n
  <2>5. SumFunction(g) = SumFunction(f) + g[n + 1]
    BY <2>1, <2>3, <2>4, SumFunctionAppend
  <2> QED BY <2>2, <2>5
<1>5. TxsChunks = SumFunction(f) /\ TxsChunks' = SumFunction(g) /\ OpsChunks' = OpsChunks
  BY <1>2 DEF OpsChunks, TxsChunks
<1>6. tx.chunks \in Nat /\ chunksLeft \in Nat
  BY <1>1, TxFields DEF TypeInv
<1> HIDE DEF f, g
<1> QED BY <1>2, <1>4, <1>5, <1>6 DEF BudgetInv

LEMMA InitBudget == QueueInit => BudgetInv
<1>1. QueueInit => OpsChunks = 0 /\ TxsChunks = 0
  BY NoChunks DEF QueueInit, OpsChunks, TxsChunks
<1> QED BY <1>1, QueueAssumption DEF QueueInit, BudgetInv

LEMMA NextBudget == TypeInv /\ BudgetInv /\ [QueueNext]_mempoolVars => BudgetInv'
<1> SUFFICES ASSUME TypeInv, BudgetInv, [QueueNext]_mempoolVars PROVE BudgetInv'
  OBVIOUS
<1>1. ASSUME UNCHANGED <<chunksLeft, priorityOps, txsForCommit>> PROVE BudgetInv'
  BY <1>1 DEF BudgetInv, OpsChunks, TxsChunks
<1>2. CASE Tick \/ PriorityOpArrives \/ (\E tx \in L2Txs : TxArrives(tx)) \/ UNCHANGED mempoolVars
  BY <1>1, <1>2 DEF Tick, PriorityOpArrives, TxArrives, mempoolVars, callVars
<1>3. CASE Propose \/ ProposeAny
  <2>1. PICK queue : New(queue)
    BY <1>3 DEF Propose, ProposeAny
  <2>2. priorityOps' = <<>> /\ txsForCommit' = <<>> /\ chunksLeft' = BlockChunks
    BY <2>1 DEF New
  <2>3. OpsChunks' = 0 /\ TxsChunks' = 0
    BY <2>2, NoChunks DEF OpsChunks, TxsChunks
  <2> QED BY <2>2, <2>3, QueueAssumption DEF BudgetInv
<1>4. CASE TakeOp
  BY <1>4, TakeOpKeepsBudget
<1>5. CASE TakeTx
  BY <1>5, TakeTxKeepsBudget
<1>6. CASE SkipOp \/ WrongOrder \/ LastOp \/ NoMoreOps
  BY <1>1, <1>6 DEF SkipOp, WrongOrder, LastOp, NoMoreOps, Selecting1, callVars
<1>7. CASE PrepareNewReady \/ LastTx \/ NoMoreTxs \/ RequiredChunksFails
  BY <1>1, <1>7 DEF PrepareNewReady, LastTx, NoMoreTxs, RequiredChunksFails, Selecting2
<1>8. CASE Execute
  BY <1>1, <1>8 DEF Execute
<1> QED BY <1>2, <1>3, <1>4, <1>5, <1>6, <1>7, <1>8 DEF QueueNext, Select

-----------------------------------------------------------------------------
(* What is selected is valid and in the order of the nonces. *)

LEMMA ConcatIndex ==
  ASSUME NEW s \in Seq(L2Txs), NEW t \in Seq(L2Txs)
  PROVE  /\ s \o t \in Seq(L2Txs) /\ Len(s) \in Nat /\ Len(t) \in Nat
         /\ Len(s \o t) = Len(s) + Len(t)
         /\ DOMAIN s = 1..Len(s) /\ DOMAIN t = 1..Len(t)
         /\ \A i \in 1..Len(s) : (s \o t)[i] = s[i]
         /\ \A i \in 1..Len(t) : (s \o t)[Len(s) + i] = t[i]
<1>1. Len(s) \in Nat /\ Len(t) \in Nat /\ DOMAIN s = 1..Len(s) /\ DOMAIN t = 1..Len(t)
  BY LenProperties
<1>2. /\ s \o t \in Seq(L2Txs) /\ Len(s \o t) = Len(s) + Len(t)
      /\ \A i \in 1..(Len(s) + Len(t)) :
            (s \o t)[i] = IF i <= Len(s) THEN s[i] ELSE t[i - Len(s)]
  BY ConcatProperties
<1>3. ASSUME NEW i \in 1..Len(s) PROVE (s \o t)[i] = s[i]
  <2>1. i \in 1..(Len(s) + Len(t)) /\ i <= Len(s)
    BY <1>1
  <2> QED BY <1>2, <2>1
<1>4. ASSUME NEW i \in 1..Len(t) PROVE (s \o t)[Len(s) + i] = t[i]
  <2>1. Len(s) + i \in 1..(Len(s) + Len(t)) /\ ~ (Len(s) + i <= Len(s))
        /\ (Len(s) + i) - Len(s) = i
    BY <1>1
  <2> QED BY <1>2, <2>1
<1> QED BY <1>1, <1>2, <1>3, <1>4

LEMMA SortedPrefix ==
  ASSUME NEW s \in Seq(L2Txs), NEW t \in Seq(L2Txs), NonceSorted(s \o t)
  PROVE  NonceSorted(s)
<1> SUFFICES ASSUME NEW i \in 1..Len(s), NEW j \in 1..Len(s), i < j
             PROVE  NonceFirst(s[i], s[j])
  BY DEF NonceSorted, IsSorted
<1>1. /\ i \in 1..Len(s \o t) /\ j \in 1..Len(s \o t)
      /\ (s \o t)[i] = s[i] /\ (s \o t)[j] = s[j]
  BY ConcatIndex
<1>2. NonceFirst((s \o t)[i], (s \o t)[j])
  BY <1>1 DEF NonceSorted, IsSorted
<1> QED BY <1>1, <1>2

\* The loop moves the head of the second sequence to the end of the first.
LEMMA MoveHead ==
  ASSUME NEW s \in Seq(L2Txs), NEW t \in Seq(L2Txs), t # <<>>
  PROVE  Append(s, Head(t)) \o Tail(t) = s \o t
<1> DEFINE h == Head(t)
           u == Tail(t)
<1>1. /\ h \in L2Txs /\ u \in Seq(L2Txs) /\ Len(u) = Len(t) - 1
      /\ \A i \in 1..Len(u) : u[i] = t[i + 1]
  BY HeadTailProperties
<1>2. h = t[1] /\ Len(t) \in Nat \ {0}
  BY EmptySeq
<1> DEFINE a == Append(s, h)
<1>3. /\ a \in Seq(L2Txs) /\ Len(a) = Len(s) + 1
      /\ \A i \in 1..Len(s) : a[i] = s[i]
      /\ a[Len(s) + 1] = h
  BY <1>1, AppendProperties
<1> HIDE DEF h, u, a
<1>4. /\ s \o t \in Seq(L2Txs) /\ a \o u \in Seq(L2Txs)
      /\ Len(s \o t) = Len(s) + Len(t) /\ Len(a \o u) = Len(s) + Len(t)
      /\ Len(s) \in Nat
  <2>1. Len(a \o u) = Len(a) + Len(u) /\ a \o u \in Seq(L2Txs)
    BY <1>1, <1>3, ConcatIndex
  <2>2. s \o t \in Seq(L2Txs) /\ Len(s \o t) = Len(s) + Len(t) /\ Len(s) \in Nat
    BY ConcatIndex
  <2> QED BY <1>1, <1>2, <1>3, <2>1, <2>2
<1>5. ASSUME NEW i \in 1..(Len(s) + Len(t)) PROVE (a \o u)[i] = (s \o t)[i]
  <2>1. CASE i <= Len(s)
    <3>1. i \in 1..Len(s) /\ i \in 1..Len(a)
      BY <1>3, <1>4, <2>1
    <3>2. (a \o u)[i] = a[i]
      BY <1>1, <1>3, <3>1, ConcatIndex
    <3>3. (s \o t)[i] = s[i]
      BY <3>1, ConcatIndex
    <3> QED BY <1>3, <3>1, <3>2, <3>3
  <2>2. CASE i = Len(s) + 1
    <3>1. i \in 1..Len(a) /\ 1 \in 1..Len(t)
      BY <1>2, <1>3, <1>4, <2>2
    <3>2. (a \o u)[i] = a[i]
      BY <1>1, <1>3, <3>1, ConcatIndex
    <3>3. (s \o t)[i] = t[1]
      BY <2>2, <3>1, ConcatIndex
    <3> QED BY <1>2, <1>3, <2>2, <3>2, <3>3
  <2>3. CASE i > Len(s) + 1
    <3> DEFINE k == i - Len(s) - 1
    <3>1. /\ k \in 1..Len(u) /\ k + 1 \in 1..Len(t)
          /\ Len(a) + k = i /\ Len(s) + (k + 1) = i
      BY <1>1, <1>2, <1>3, <1>4, <2>3
    <3> HIDE DEF k
    <3>2. (a \o u)[Len(a) + k] = u[k]
      BY <1>1, <1>3, <3>1, ConcatIndex
    <3>3. (s \o t)[Len(s) + (k + 1)] = t[k + 1]
      BY <3>1, ConcatIndex
    <3> QED BY <1>1, <3>1, <3>2, <3>3
  <2> QED BY <1>4, <2>1, <2>2, <2>3
<1>6. a \o u = s \o t
  BY <1>4, <1>5, SeqEqual
<1> QED BY <1>6 DEF a, h, u

LEMMA InitTxs == QueueInit => TxsInv
<1>1. Len(<<>>) = 0 /\ 1..0 = {}
  OBVIOUS
<1> QED BY <1>1 DEF QueueInit, TxsInv, ValidNow, NonceSorted, IsSorted

LEMMA PrepareKeepsTxs == TypeInv /\ TxsInv /\ PrepareNewReady => TxsInv'
<1> SUFFICES ASSUME TypeInv, TxsInv, PrepareNewReady PROVE TxsInv'
  OBVIOUS
<1> DEFINE ready == ByNonce(Ready(now))
<1>1. /\ Ready(now) \in SUBSET L2Txs /\ ready \in Seq(Ready(now)) /\ ready \in Seq(L2Txs)
      /\ NonceSorted(ready)
  <2>1. Ready(now) \in SUBSET L2Txs
    BY DEF TypeInv, Ready
  <2> QED BY <2>1, ByNonceSorts
<1>2. /\ ready_l2_transactions = <<>> /\ txsForCommit = <<>>
      /\ pc' = "l2" /\ txsForCommit' = txsForCommit /\ now' = now
  BY DEF PrepareNewReady, TxsInv, envVars
<1>3. ready_l2_transactions' = ready_l2_transactions \o ready
  BY DEF PrepareNewReady
<1>4. \A i \in DOMAIN ready : ValidFrom(ready[i]) <= now
  <2> TAKE i \in DOMAIN ready
  <2>1. ready[i] \in Ready(now)
    <3> HIDE DEF ready
    <3>1. i \in 1..Len(ready)
      BY <1>1, LenProperties
    <3> QED BY <1>1, <3>1, ElementOfSeq
  <2> QED BY <2>1 DEF Ready
<1> HIDE DEF ready
<1>5. <<>> \o ready = ready
  BY <1>1, ConcatEmptySeq
<1>6. ready_l2_transactions' = ready /\ txsForCommit' \o ready_l2_transactions' = ready
  BY <1>2, <1>3, <1>5
<1> QED BY <1>1, <1>2, <1>4, <1>6 DEF TxsInv, ValidNow

LEMMA TakeTxKeepsTxs == TypeInv /\ TxsInv /\ TakeTx => TxsInv'
<1> SUFFICES ASSUME TypeInv, TxsInv, TakeTx PROVE TxsInv'
  OBVIOUS
<1> DEFINE tx == Head(ready_l2_transactions)
           rest == Tail(ready_l2_transactions)
           all == Append(txsForCommit, tx)
<1>1. /\ pc = "l2" /\ pc' = "l2" /\ now' = now
      /\ ready_l2_transactions # <<>>
      /\ ready_l2_transactions' = rest /\ txsForCommit' = all
      /\ ready_l2_transactions \in Seq(L2Txs) /\ txsForCommit \in Seq(L2Txs)
  BY DEF TypeInv, TakeTx, Selecting2
<1>2. /\ tx \in L2Txs /\ rest \in Seq(L2Txs) /\ tx = ready_l2_transactions[1]
      /\ 1 \in DOMAIN ready_l2_transactions
      /\ \A i \in DOMAIN rest :
            i + 1 \in DOMAIN ready_l2_transactions /\ rest[i] = ready_l2_transactions[i + 1]
  <2>1. /\ tx \in L2Txs /\ rest \in Seq(L2Txs)
        /\ Len(rest) = Len(ready_l2_transactions) - 1
        /\ \A i \in 1..Len(rest) : rest[i] = ready_l2_transactions[i + 1]
    BY <1>1, HeadTailProperties
  <2>2. /\ Len(ready_l2_transactions) \in Nat \ {0}
        /\ DOMAIN ready_l2_transactions = 1..Len(ready_l2_transactions)
        /\ tx = ready_l2_transactions[1]
    BY <1>1, EmptySeq, LenProperties
  <2>3. DOMAIN rest = 1..Len(rest)
    BY <2>1, LenProperties
  <2> HIDE DEF tx, rest
  <2> QED BY <2>1, <2>2, <2>3
<1>3. ValidNow(rest) /\ ValidFrom(tx) <= now
  BY <1>2 DEF TxsInv, ValidNow
<1>4. all \o rest = txsForCommit \o ready_l2_transactions
  BY <1>1, MoveHead
<1> HIDE DEF tx, rest
<1>5. all \in Seq(L2Txs)
  BY <1>1, <1>2, AppendProperties
<1>6. ValidNow(all)
  <2>1. /\ DOMAIN txsForCommit = 1..Len(txsForCommit) /\ Len(txsForCommit) \in Nat
        /\ DOMAIN all = 1..(Len(txsForCommit) + 1)
        /\ \A i \in 1..Len(txsForCommit) : all[i] = txsForCommit[i]
        /\ all[Len(txsForCommit) + 1] = tx
    BY <1>1, <1>2, AppendProperties, LenProperties
  <2> HIDE DEF all
  <2>2. ASSUME NEW i \in 1..(Len(txsForCommit) + 1) PROVE ValidFrom(all[i]) <= now
    <3>1. CASE i = Len(txsForCommit) + 1
      BY <1>3, <2>1, <3>1
    <3>2. CASE i # Len(txsForCommit) + 1
      <4>1. i \in 1..Len(txsForCommit)
        BY <2>1, <3>2
      <4> QED BY <2>1, <4>1 DEF TxsInv, ValidNow
    <3> QED BY <3>1, <3>2
  <2> QED BY <2>1, <2>2 DEF ValidNow
<1> HIDE DEF all
<1>7. NonceSorted(all \o rest)
  BY <1>1, <1>4 DEF TxsInv
<1>8. NonceSorted(all)
  BY <1>2, <1>5, <1>7, SortedPrefix
<1> QED BY <1>1, <1>3, <1>6, <1>7, <1>8 DEF TxsInv, ValidNow

LEMMA NextTxs == TypeInv /\ TxsInv /\ [QueueNext]_mempoolVars => TxsInv'
<1> SUFFICES ASSUME TypeInv, TxsInv, [QueueNext]_mempoolVars PROVE TxsInv'
  OBVIOUS
<1>1. ASSUME UNCHANGED <<ready_l2_transactions, txsForCommit, now>>,
             \/ pc' = pc \/ pc' \in {"idle", "done", "panicked"}
             \/ pc' = "prepare" /\ pc = "l1"
      PROVE  TxsInv'
  BY <1>1 DEF TxsInv, ValidNow
<1>2. CASE Tick
  <2>1. \A tx \in L2Txs : ValidFrom(tx) <= now => ValidFrom(tx) <= now'
    BY <1>2, TxFields DEF Tick, TypeInv
  <2>2. /\ \A i \in DOMAIN txsForCommit : txsForCommit[i] \in L2Txs
        /\ \A i \in DOMAIN ready_l2_transactions : ready_l2_transactions[i] \in L2Txs
    BY LenProperties, ElementOfSeq DEF TypeInv
  <2>3. UNCHANGED <<ready_l2_transactions, txsForCommit, pc>>
    BY <1>2 DEF Tick, queueVars, callVars
  <2>4. ValidNow(txsForCommit)' /\ ValidNow(ready_l2_transactions)'
    BY <2>1, <2>2, <2>3 DEF TxsInv, ValidNow
  <2> QED BY <2>3, <2>4 DEF TxsInv, ValidNow
<1>3. CASE PriorityOpArrives \/ (\E tx \in L2Txs : TxArrives(tx)) \/ UNCHANGED mempoolVars
  <2>1. UNCHANGED <<ready_l2_transactions, txsForCommit, now, pc>>
    BY <1>3 DEF PriorityOpArrives, TxArrives, mempoolVars, queueVars, callVars, envVars
  <2> QED BY <1>1, <2>1
<1>4. CASE Propose \/ ProposeAny
  <2>1. PICK queue : New(queue)
    BY <1>4 DEF Propose, ProposeAny
  <2>2. ready_l2_transactions' = <<>> /\ txsForCommit' = <<>> /\ pc' = "l1" /\ Len(<<>>) = 0
    BY <2>1 DEF New
  <2> QED BY <2>2 DEF TxsInv, ValidNow, NonceSorted, IsSorted
<1>5. CASE SkipOp \/ WrongOrder \/ TakeOp \/ LastOp \/ NoMoreOps
  BY <1>1, <1>5 DEF SkipOp, WrongOrder, TakeOp, LastOp, NoMoreOps, Selecting1, callVars,
                    queueVars, envVars
<1>6. CASE PrepareNewReady
  BY <1>6, PrepareKeepsTxs
<1>7. CASE TakeTx
  BY <1>7, TakeTxKeepsTxs
<1>8. CASE LastTx \/ RequiredChunksFails
  <2>1. /\ pc' \in {"idle", "done"} /\ txsForCommit' = txsForCommit /\ now' = now
        /\ ready_l2_transactions # <<>> /\ ready_l2_transactions \in Seq(L2Txs)
        /\ ready_l2_transactions' = Tail(ready_l2_transactions)
    BY <1>8 DEF TypeInv, LastTx, RequiredChunksFails, Selecting2
  <2>2. \A i \in DOMAIN ready_l2_transactions' :
           /\ i + 1 \in DOMAIN ready_l2_transactions
           /\ ready_l2_transactions'[i] = ready_l2_transactions[i + 1]
    <3>1. /\ ready_l2_transactions' \in Seq(L2Txs)
          /\ Len(ready_l2_transactions') = Len(ready_l2_transactions) - 1
          /\ \A i \in 1..Len(ready_l2_transactions') :
                ready_l2_transactions'[i] = ready_l2_transactions[i + 1]
      BY <2>1, HeadTailProperties
    <3>2. /\ DOMAIN ready_l2_transactions' = 1..Len(ready_l2_transactions')
          /\ DOMAIN ready_l2_transactions = 1..Len(ready_l2_transactions)
          /\ Len(ready_l2_transactions) \in Nat
      BY <2>1, <3>1, LenProperties
    <3> QED BY <3>1, <3>2
  <2>3. ValidNow(ready_l2_transactions)' /\ ValidNow(txsForCommit)'
    <3>1. ASSUME NEW i \in DOMAIN ready_l2_transactions'
          PROVE  ValidFrom(ready_l2_transactions'[i]) <= now'
      BY <2>1, <2>2 DEF TxsInv, ValidNow
    <3> QED BY <2>1, <3>1 DEF TxsInv, ValidNow
  <2> QED BY <2>1, <2>3 DEF TxsInv, ValidNow
<1>9. CASE NoMoreTxs \/ Execute
  <2>1. UNCHANGED <<ready_l2_transactions, txsForCommit, now>> /\ pc' \in {"idle", "done"}
    BY <1>9 DEF NoMoreTxs, Execute, queueVars, envVars
  <2> QED BY <1>1, <2>1
<1> QED BY <1>2, <1>3, <1>4, <1>5, <1>6, <1>7, <1>8, <1>9 DEF QueueNext, Select

-----------------------------------------------------------------------------
(* The parts of sorted transactions have growing nonces, account by account. *)

PartsOf(seq) == FlattenSeq([i \in DOMAIN seq |-> seq[i].txs])
AllParts == UNION {Range(tx.txs) : tx \in L2Txs}

InNonceOrder(parts) ==
    \A i, j \in DOMAIN parts :
       i < j /\ parts[i].from = parts[j].from => parts[i].nonce < parts[j].nonce

\* The parts are those of the transactions.
PartsAre(parts, seq) ==
    \A i \in DOMAIN parts : \E k \in DOMAIN seq : \E m \in DOMAIN seq[k].txs :
       parts[i] = seq[k].txs[m]

LEMMA TxsAreParts ==
  ASSUME NEW tx \in L2Txs
  PROVE  tx.txs \in Seq(AllParts)
<1>1. tx.txs \in Seq(Range(tx.txs)) /\ Range(tx.txs) \subseteq AllParts
  BY QueueAssumption DEF AllParts
<1> QED BY <1>1, SeqMonotonic

LEMMA PartsAppend ==
  ASSUME NEW seq \in Seq(L2Txs), NEW tx \in L2Txs
  PROVE  PartsOf(seq) \in Seq(AllParts) /\ PartsOf(Append(seq, tx)) = PartsOf(seq) \o tx.txs
<1> DEFINE all == Append(seq, tx)
           lists == [i \in DOMAIN seq |-> seq[i].txs]
<1>1. Len(seq) \in Nat /\ DOMAIN seq = 1..Len(seq) /\ \A i \in DOMAIN seq : seq[i] \in L2Txs
  BY LenProperties, ElementOfSeq
<1>2. /\ DOMAIN all = 1..(Len(seq) + 1)
      /\ \A i \in 1..Len(seq) : all[i] = seq[i]
      /\ all[Len(seq) + 1] = tx
  BY AppendProperties, LenProperties
<1>3. lists \in Seq(Seq(AllParts)) /\ Len(lists) = Len(seq)
  BY <1>1, TxsAreParts
<1>4. tx.txs \in Seq(AllParts)
  BY TxsAreParts
<1>5. [i \in DOMAIN all |-> all[i].txs] = Append(lists, tx.txs)
  <2> DEFINE app == Append(lists, tx.txs)
  <2>1. /\ app \in Seq(Seq(AllParts)) /\ Len(app) = Len(seq) + 1
        /\ \A i \in 1..Len(seq) : app[i] = lists[i]
        /\ app[Len(seq) + 1] = tx.txs
    BY <1>3, <1>4, AppendProperties
  <2>2. app = [i \in 1..(Len(seq) + 1) |-> app[i]]
    BY <2>1, LenProperties
  <2>3. \A i \in 1..(Len(seq) + 1) : app[i] = all[i].txs
    <3> TAKE i \in 1..(Len(seq) + 1)
    <3>1. CASE i = Len(seq) + 1
      BY <1>2, <2>1, <3>1
    <3>2. CASE i # Len(seq) + 1
      <4>1. i \in 1..Len(seq)
        BY <1>1, <3>2
      <4>2. app[i] = lists[i] /\ all[i] = seq[i] /\ lists[i] = seq[i].txs
        BY <1>1, <1>2, <2>1, <4>1
      <4> QED BY <4>2
    <3> QED BY <3>1, <3>2
  <2> HIDE DEF app, all
  <2> QED BY <1>2, <2>2, <2>3
<1>6. PartsOf(seq) \in Seq(AllParts)
  BY <1>3, FlattenType DEF PartsOf
<1>7. FlattenSeq(Append(lists, tx.txs)) = FlattenSeq(lists) \o tx.txs
  BY <1>3, <1>4, FlattenAppend
<1> QED BY <1>5, <1>6, <1>7 DEF PartsOf

\* The last transaction comes after all others, so its nonces are greater than theirs.
LEMMA LastHasGreaterNonces ==
  ASSUME NEW s \in L2Txs, NEW t \in L2Txs, NonceFirst(s, t),
         NEW k \in DOMAIN s.txs, NEW m \in DOMAIN t.txs, s.txs[k].from = t.txs[m].from
  PROVE  s.txs[k].nonce < t.txs[m].nonce
<1>1. /\ Len(s.txs) \in Nat \ {0} /\ DOMAIN s.txs = 1..Len(s.txs)
      /\ Len(t.txs) \in Nat \ {0} /\ DOMAIN t.txs = 1..Len(t.txs)
      /\ Nonce(s) \in Nat /\ Nonce(t) \in Nat
      /\ s.hash \in Nat /\ ValidFrom(s) \in Nat
  BY TxFields
<1>3. s # t /\ ~ (Nonce(t) < Nonce(s))
  <2>1. s # t
    <3>1. ~ NonceFirst(s, s)
      BY <1>1 DEF NonceFirst, HeapOrder
    <3> QED BY <3>1
  <2>2. Nonce(s) <= Nonce(t)
    BY <1>1 DEF NonceFirst
  <2> QED BY <1>1, <2>1, <2>2
<1>4. <<k, m>> \in SameAccount(s, t)
  <2> DEFINE p == <<k, m>>
  <2>1. p \in (DOMAIN s.txs) \X (DOMAIN t.txs) /\ s.txs[p[1]].from = t.txs[p[2]].from
    OBVIOUS
  <2> QED BY <2>1 DEF SameAccount
<1>5. Precedes(s, t)
  BY <1>1, <1>3, <1>4, NonceAssumption DEF Precedes
<1> QED BY <1>4, <1>5 DEF Precedes

\* What ConcatIndex says of transactions, of their parts.
LEMMA PartsIndex ==
  ASSUME NEW s \in Seq(AllParts), NEW t \in Seq(AllParts), NEW i \in DOMAIN (s \o t)
  PROVE  /\ Len(s) \in Nat /\ i \in Nat
         /\ i <= Len(s) => i \in DOMAIN s /\ (s \o t)[i] = s[i]
         /\ i > Len(s) => i - Len(s) \in DOMAIN t /\ (s \o t)[i] = t[i - Len(s)]
<1>1. /\ Len(s) \in Nat /\ Len(t) \in Nat /\ DOMAIN s = 1..Len(s) /\ DOMAIN t = 1..Len(t)
  BY LenProperties
<1>2. /\ s \o t \in Seq(AllParts) /\ Len(s \o t) = Len(s) + Len(t)
      /\ \A n \in 1..(Len(s) + Len(t)) :
            (s \o t)[n] = IF n <= Len(s) THEN s[n] ELSE t[n - Len(s)]
  BY ConcatProperties
<1>3. i \in 1..(Len(s) + Len(t))
  BY <1>2, LenProperties
<1> QED BY <1>1, <1>2, <1>3

LEMMA OneMoreTx ==
  ASSUME NEW seq \in Seq(L2Txs), NEW tx \in L2Txs,
         NEW parts \in Seq(AllParts), InNonceOrder(parts), PartsAre(parts, seq),
         \A k \in DOMAIN seq : NonceFirst(seq[k], tx)
  PROVE  InNonceOrder(parts \o tx.txs) /\ PartsAre(parts \o tx.txs, Append(seq, tx))
<1> DEFINE all == parts \o tx.txs
           n == Len(parts)
<1>1. tx.txs \in Seq(AllParts) /\ n \in Nat
  BY TxsAreParts, LenProperties
<1>2. ASSUME NEW i \in DOMAIN all
      PROVE  /\ i \in Nat
             /\ i <= n => i \in DOMAIN parts /\ all[i] = parts[i]
             /\ i > n => i - n \in DOMAIN tx.txs /\ all[i] = tx.txs[i - n]
  BY <1>1, PartsIndex
<1>3. /\ Len(seq) \in Nat /\ DOMAIN seq = 1..Len(seq)
      /\ \A k \in DOMAIN seq : seq[k] \in L2Txs /\ k \in DOMAIN Append(seq, tx)
                               /\ Append(seq, tx)[k] = seq[k]
      /\ Len(seq) + 1 \in DOMAIN Append(seq, tx) /\ Append(seq, tx)[Len(seq) + 1] = tx
  BY AppendProperties, LenProperties, ElementOfSeq
<1> HIDE DEF all, n
<1>4. ASSUME NEW i \in DOMAIN all, NEW j \in DOMAIN all, i < j, all[i].from = all[j].from
      PROVE  all[i].nonce < all[j].nonce
  <2>1. CASE j <= n
    BY <1>1, <1>2, <1>4, <2>1 DEF InNonceOrder
  <2>2. CASE i <= n /\ j > n
    <3>1. /\ i \in DOMAIN parts /\ all[i] = parts[i]
          /\ j - n \in DOMAIN tx.txs /\ all[j] = tx.txs[j - n]
      BY <1>2, <2>2
    <3>2. PICK k \in DOMAIN seq : \E m \in DOMAIN seq[k].txs : parts[i] = seq[k].txs[m]
      BY <3>1 DEF PartsAre
    <3>3. PICK m \in DOMAIN seq[k].txs : parts[i] = seq[k].txs[m]
      BY <3>2
    <3>4. seq[k] \in L2Txs /\ NonceFirst(seq[k], tx)
      BY <1>3
    <3>5. seq[k].txs[m].from = tx.txs[j - n].from
      BY <1>4, <3>1, <3>3
    <3> QED BY <3>1, <3>3, <3>4, <3>5, LastHasGreaterNonces
  <2>3. CASE i > n
    <3>1. /\ i - n \in DOMAIN tx.txs /\ all[i] = tx.txs[i - n] /\ j > n
          /\ j - n \in DOMAIN tx.txs /\ all[j] = tx.txs[j - n] /\ i - n < j - n
      BY <1>1, <1>2, <1>4, <2>3
    <3> QED BY <1>4, <3>1, NonceAssumption
  <2> QED BY <1>1, <1>2, <2>1, <2>2, <2>3
<1>5. ASSUME NEW i \in DOMAIN all
      PROVE  \E k \in DOMAIN Append(seq, tx) : \E m \in DOMAIN Append(seq, tx)[k].txs :
                all[i] = Append(seq, tx)[k].txs[m]
  <2>1. CASE i <= n
    <3>1. i \in DOMAIN parts /\ all[i] = parts[i]
      BY <1>2, <2>1
    <3>2. PICK k \in DOMAIN seq : \E m \in DOMAIN seq[k].txs : parts[i] = seq[k].txs[m]
      BY <3>1 DEF PartsAre
    <3> QED BY <1>3, <3>1, <3>2
  <2>2. CASE i > n
    <3>1. i - n \in DOMAIN tx.txs /\ all[i] = tx.txs[i - n]
      BY <1>2, <2>2
    <3> QED BY <1>3, <3>1
  <2> QED BY <1>1, <1>2, <2>1, <2>2
<1> QED BY <1>4, <1>5 DEF InNonceOrder, PartsAre, all

LEMMA SortedPartsInOrder ==
  ASSUME NEW seq \in Seq(L2Txs), NonceSorted(seq)
  PROVE  InNonceOrder(PartsOf(seq))
<1> DEFINE Good == {n \in Nat : \A s \in Seq(L2Txs) : Len(s) = n /\ NonceSorted(s) =>
                       InNonceOrder(PartsOf(s)) /\ PartsAre(PartsOf(s), s)}
<1>1. 0 \in Good
  <2> SUFFICES ASSUME NEW s \in Seq(L2Txs), Len(s) = 0
               PROVE  InNonceOrder(PartsOf(s)) /\ PartsAre(PartsOf(s), s)
    OBVIOUS
  <2>1. s = <<>>
    BY EmptySeq
  <2>2. PartsOf(s) = <<>>
    <3>1. [i \in DOMAIN s |-> s[i].txs] = <<>>
      BY <2>1
    <3> QED BY <3>1, FlattenEmpty DEF PartsOf
  <2>3. DOMAIN PartsOf(s) = {}
    BY <2>2
  <2> QED BY <2>3 DEF InNonceOrder, PartsAre
<1>2. ASSUME NEW n \in Nat, n \in Good PROVE n + 1 \in Good
  <2> SUFFICES ASSUME NEW s \in Seq(L2Txs), Len(s) = n + 1, NonceSorted(s)
               PROVE  InNonceOrder(PartsOf(s)) /\ PartsAre(PartsOf(s), s)
    OBVIOUS
  <2>1. PICK front \in Seq(L2Txs), last \in L2Txs : s = Append(front, last)
    <3>1. s # <<>>
      OBVIOUS
    <3> QED BY <3>1, SequenceEmptyOrAppend
  <2>2. /\ Len(front) = n /\ DOMAIN front = 1..n
        /\ \A k \in 1..n : s[k] = front[k]
        /\ s[n + 1] = last
    BY <2>1, AppendProperties, LenProperties
  <2>3. \A k \in DOMAIN front : NonceFirst(front[k], last)
    <3> TAKE k \in DOMAIN front
    <3>1. k \in 1..Len(s) /\ n + 1 \in 1..Len(s) /\ k < n + 1
      BY <2>2
    <3> QED BY <2>2, <3>1 DEF NonceSorted, IsSorted
  <2>4. NonceSorted(front)
    <3> SUFFICES ASSUME NEW i \in 1..n, NEW j \in 1..n, i < j
                 PROVE  NonceFirst(front[i], front[j])
      BY <2>2 DEF NonceSorted, IsSorted
    <3>1. i \in 1..Len(s) /\ j \in 1..Len(s)
      OBVIOUS
    <3> QED BY <2>2, <3>1 DEF NonceSorted, IsSorted
  <2>5. InNonceOrder(PartsOf(front)) /\ PartsAre(PartsOf(front), front)
    BY <1>2, <2>2, <2>4
  <2>6. PartsOf(front) \in Seq(AllParts) /\ PartsOf(s) = PartsOf(front) \o last.txs
    BY <2>1, PartsAppend
  <2> HIDE DEF Good
  <2> QED BY <2>1, <2>3, <2>5, <2>6, OneMoreTx
<1>3. Nat \subseteq Good
  <2> HIDE DEF Good
  <2> QED BY <1>1, <1>2, Induction
<1>4. Len(seq) \in Good
  <2> HIDE DEF Good
  <2> QED BY <1>3, LenProperties
<1> QED BY <1>4

-----------------------------------------------------------------------------
\* The inductive invariant holds of every reachable state.
LEMMA SpecQueueInv == QueueSpec => []QueueInv
<1>1. QueueInit => QueueInv
  <2>1. QueueInit => RunInv
    BY DEF QueueInit, RunInv, NeverPanics
  <2> QED BY <2>1, InitTypes, InitOps, InitBudget, InitTxs DEF QueueInv
<1>2. QueueInv /\ [QueueNext]_mempoolVars => QueueInv'
  BY NextTypes, NextOps, NextRun, NextBudget, NextTxs DEF QueueInv
<1> QED BY <1>1, <1>2, PTL DEF QueueSpec

\* The assertion "Wrong order for priority ops" never fails while the mempool has stored
\* what it was given, however stale the queue is and wherever earlier blocks ended.
THEOREM OnlyLossPanics == QueueSpec => []NeverPanics
<1>1. QueueInv => NeverPanics
  BY DEF QueueInv, RunInv
<1> QED BY <1>1, SpecQueueInv, PTL

\* Whatever the queue was filled with, the priority operations are executed in the order of
\* their serial ids, none twice and none skipped.
THEOREM OpsRunInOrder == QueueSpec => []PriorityOrder
<1>1. QueueInv => PriorityOrder
  BY DEF QueueInv, OpsInv
<1> QED BY <1>1, SpecQueueInv, PTL

\* The chunks the two loops take fit the block together, and no transaction, of a batch no
\* part, is selected before it is valid.
THEOREM SelectedBlocksAreValid == QueueSpec => []BlocksAreValid
<1>1. QueueInv => BlocksAreValid
  <2> SUFFICES ASSUME QueueInv PROVE BlocksAreValid
    OBVIOUS
  <2>1. OpsChunks + TxsChunks <= BlockChunks
    BY QueueAssumption DEF QueueInv, TypeInv, BudgetInv
  <2>2. ASSUME NEW i \in DOMAIN txsForCommit, NEW j \in DOMAIN txsForCommit[i].txs
        PROVE  txsForCommit[i].txs[j].validFrom <= now
    <3>1. txsForCommit[i] \in L2Txs
      BY LenProperties, ElementOfSeq DEF QueueInv, TypeInv
    <3>2. /\ txsForCommit[i].txs[j].validFrom <= ValidFrom(txsForCommit[i])
          /\ ValidFrom(txsForCommit[i]) \in Nat /\ txsForCommit[i].txs[j].validFrom \in Nat
      BY <3>1, TxFields, QueueAssumption
    <3>3. ValidFrom(txsForCommit[i]) <= now /\ now \in Nat
      BY DEF QueueInv, TypeInv, TxsInv, ValidNow
    <3> QED BY <3>2, <3>3
  <2> QED BY <2>1, <2>2 DEF BlocksAreValid, OpsChunks, TxsChunks
<1> QED BY <1>1, SpecQueueInv, PTL

\* In a block the transactions of an account are in the order of their nonces, whatever
\* their valid_from and however the heap yields them.
THEOREM NoncesGrow == QueueSpec => []NonceOrder
<1>1. QueueInv => NonceOrder
  <2> SUFFICES ASSUME QueueInv PROVE NonceOrder
    OBVIOUS
  <2>1. txsForCommit \in Seq(L2Txs) /\ NonceSorted(txsForCommit)
    BY DEF QueueInv, TypeInv, TxsInv
  <2> QED BY <2>1, SortedPartsInOrder DEF NonceOrder, PartsOf, InNonceOrder
<1> QED BY <1>1, SpecQueueInv, PTL
=============================================================================
