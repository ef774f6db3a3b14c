------------------------ MODULE RecursiveRollupProps ------------------------
(***************************************************************************)
(* What a proof of the recursive rollup is worth.                          *)
(***************************************************************************)
EXTENDS RecursiveRollup

\* Nobody's money moves without a signature: across a proof, of however many steps of
\* however many operators, no account disappears, no nonce falls, and an account that
\* has less at the end than at the beginning has signed a transaction in between.
Forward(s, t) ==
    \A k \in DOMAIN s.accountDb :
       /\ k \in DOMAIN t.accountDb
       /\ s.accountDb[k].nonce <= t.accountDb[k].nonce
       /\ t.accountDb[k].balance < s.accountDb[k].balance =>
             s.accountDb[k].nonce < t.accountDb[k].nonce

OnlyOwnersPay == \A p \in proofs : Forward(p.source, p.target)

\* No transaction is executed twice within a proof, although operators run the same
\* signed transactions on copies of the state, and merge what they have proved.
NoReplay ==
    \A p \in proofs : \A i, j \in DOMAIN p.steps :
       /\ "transaction" \in DOMAIN p.steps[i] /\ "transaction" \in DOMAIN p.steps[j]
       /\ p.steps[i].transaction = p.steps[j].transaction
       => i = j

-----------------------------------------------------------------------------
\* The ledger a reader of the code has in mind: deposits open accounts, transactions
\* move an amount from one balance to another, at once.
Moved(db, t, receiver) ==
    [k \in DOMAIN db \cup {t.receiver} |->
        LET old == IF k \in DOMAIN db THEN db[k] ELSE receiver
        IN  [balance |-> old.balance + (IF k = t.receiver THEN t.amount ELSE 0)
                                     - (IF k = t.sender THEN t.amount ELSE 0),
             nonce   |-> old.nonce + (IF k = t.sender THEN 1 ELSE 0),
             publicKey |-> old.publicKey]]

Applied(s, step) ==
    IF "deposit" \in DOMAIN step
    THEN [pending |-> Tail(s.pending),
          accountDb |-> Written(s.accountDb, Head(s.pending), NewAccount(Head(s.pending)))]
    ELSE [s EXCEPT !.accountDb =
             Moved(s.accountDb, step.transaction,
                   IF step.transaction.receiver \in DOMAIN s.accountDb
                   THEN s.accountDb[step.transaction.receiver] ELSE step.receiver)]

\* A proof, merged or not, and also one of an operator whose objects a failure has
\* changed, states what the steps it was made of do, one after the other, in that
\* ledger; in particular a transaction from an account to itself changes its nonce only.
ProofsAreRuns ==
    \A p \in proofs :
       LET state[i \in 0..Len(p.steps)] ==
              IF i = 0 THEN p.source ELSE Applied(state[i - 1], p.steps[i])
       IN  state[Len(p.steps)] = p.target
=============================================================================
