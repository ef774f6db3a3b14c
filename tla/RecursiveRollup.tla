--------------------------- MODULE RecursiveRollup ---------------------------
(***************************************************************************)
(* The recursive proof system of assignment-4/3.4/bonus.ts.  A branch is   *)
(* run by an operator on its own objects, a stack of pending deposits and  *)
(* an account database, which it changes as it goes; if no assertion fails *)
(* there is a proof of the step from the commitments before to those after *)
(* and merge makes one proof of two.  Operators work on copies at the same *)
(* time, and a branch that fails leaves the objects as they are by then.   *)
(*                                                                         *)
(* External: snarkyjs, with proofs that cannot be forged, commitments that *)
(* are injective (a commitment is what it commits to), and 64 and 32 bit   *)
(* arithmetic that fails rather than wraps.                                *)
(***************************************************************************)
EXTENDS Integers, Sequences, FiniteSets

CONSTANTS
    Keys,                      \* public keys
    Signed,                    \* transactions with a valid signature of the sender:
                               \* [amount, nonce, sender, receiver]
    Genesis,                   \* the state operators begin with: [pending, accountDb]
    Nobodies,                  \* what the database may answer for a missing account
    MaxUInt64, MaxUInt32,
    Operators,
    MaxProofs                  \* bound on the number of proofs

RollupAccount == [balance : 0..MaxUInt64, nonce : 0..MaxUInt32, publicKey : Keys]
RollupTransaction ==
    [amount : 0..MaxUInt64, nonce : 0..MaxUInt32, sender : Keys, receiver : Keys]
AccountDbs == UNION {[known -> RollupAccount] : known \in SUBSET Keys}
RollupState == [pending : Seq(Keys), accountDb : AccountDbs]

ASSUME RollupAssumption ==
    /\ MaxUInt64 \in Nat /\ MaxUInt32 \in Nat
    /\ Signed \subseteq RollupTransaction
    /\ Genesis \in RollupState
    /\ Nobodies \subseteq RollupAccount /\ Nobodies # {}

VARIABLES
    objects,           \* operator -> the state its objects are in
    proofs             \* [source, target, steps]; steps is history

vars == <<objects, proofs>>

Init ==
    /\ objects = [op \in Operators |-> Genesis]
    /\ proofs = {}

-----------------------------------------------------------------------------
\* accountDb.set: a deposit's amount is never looked at, and a pending deposit is the
\* key it is for.
Written(db, key, account) ==
    [k \in DOMAIN db \cup {key} |-> IF k = key THEN account ELSE db[k]]

IsSome(db, key) == key \in DOMAIN db

\* accountDb.get: of a missing account the value is not checked to be there; the key it
\* holds need not be the one it is then written at.
Values(db, key) == IF IsSome(db, key) THEN {db[key]} ELSE Nobodies

Proof(before, after, step) == [source |-> before, target |-> after, steps |-> <<step>>]

Proves(op, before, after, step) ==
    /\ objects' = [objects EXCEPT ![op] = after]
    /\ proofs' = proofs \cup {Proof(before, after, step)}

Fails(op, left) ==
    /\ objects' = [objects EXCEPT ![op] = left]
    /\ UNCHANGED proofs

NewAccount(key) == [balance |-> 0, nonce |-> 0, publicKey |-> key]

\* (A faulty variant: the assertion is missing.)
AlwaysAbsent(db, key) == TRUE
Absent(db, key) == ~ IsSome(db, key)

\* The deposit on top is popped before anything is asserted.
ProcessDeposit(op) ==
    LET before  == objects[op]
        deposit == Head(before.pending)
        popped  == [before EXCEPT !.pending = Tail(@)]
        after   == [popped EXCEPT !.accountDb = Written(@, deposit, NewAccount(deposit))]
    IN  /\ before.pending # <<>>
        /\ IF Absent(before.accountDb, deposit)
           THEN Proves(op, before, after, [deposit |-> deposit])
           ELSE Fails(op, popped)

\* (Faulty variants: the nonce stays; the sender's old account is credited.)
SameNonce(account, t) == [account EXCEPT !.balance = @ - t.amount]
Debited(account, t) ==
    [balance |-> account.balance - t.amount, nonce |-> account.nonce + 1,
     publicKey |-> account.publicKey]
Credited(account, t) == [account EXCEPT !.balance = @ + t.amount]

ReadBefore(before, debitedDb) == before
ReadAfter(before, debitedDb) == debitedDb

\* Whatever fails before the sender is written leaves the objects as they were; the
\* addition may still fail after that.
Transaction(op, t) ==
    LET before == objects[op]
        db     == before.accountDb
    IN  /\ IsSome(db, t.sender)
        /\ db[t.sender].nonce = t.nonce
        /\ t.amount <= db[t.sender].balance /\ t.nonce < MaxUInt32
        /\ LET debited == Written(db, t.sender, Debited(db[t.sender], t))
           IN  \E receiver \in Values(ReadAfter(db, debited), t.receiver) :
                  IF receiver.balance + t.amount <= MaxUInt64
                  THEN Proves(op, before,
                              [before EXCEPT !.accountDb =
                                  Written(debited, t.receiver, Credited(receiver, t))],
                              [transaction |-> t, receiver |-> receiver])
                  ELSE Fails(op, [before EXCEPT !.accountDb = debited])

Adjacent(p1, p2) == p1.target = p2.source

Merged(p1, p2) ==
    [source |-> p1.source, target |-> p2.target, steps |-> p1.steps \o p2.steps]

Merge(p1, p2) ==
    /\ Adjacent(p1, p2)
    /\ proofs' = proofs \cup {Merged(p1, p2)}
    /\ UNCHANGED objects

\* An operator gives up its objects for a state somebody has proved to reach.
Resume(op, p) ==
    /\ objects' = [objects EXCEPT ![op] = p.target]
    /\ UNCHANGED proofs

Next ==
    \/ /\ Cardinality(proofs) < MaxProofs                              \* bound
       /\ \/ \E op \in Operators : ProcessDeposit(op) \/ \E t \in Signed : Transaction(op, t)
          \/ \E p1, p2 \in proofs : Merge(p1, p2)
    \/ \E op \in Operators, p \in proofs : Resume(op, p)

Spec == Init /\ [][Next]_vars
=============================================================================
