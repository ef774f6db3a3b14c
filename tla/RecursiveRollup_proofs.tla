----------------------- MODULE RecursiveRollup_proofs -----------------------
(***************************************************************************)
(* Proofs about the recursive rollup, for every set of accounts, signed    *)
(* transactions and operators, and for proofs merged of any number of      *)
(* steps.  The invariant is about single proofs and survives a merge       *)
(* because what it says is transitive: an account only goes Forward, and   *)
(* the nonces of a proof's transactions lie in the window between those of *)
(* its source and its target.                                              *)
(***************************************************************************)
EXTENDS RecursiveRollupProps, DataInduction, TLAPS

Step == [deposit : Keys] \cup [transaction : Signed, receiver : RollupAccount]
Statement == [source : RollupState, target : RollupState, steps : Seq(Step)]

\* A transaction's nonce lies between those of its sender before and after.
Window(source, target, t) ==
    /\ t.sender \in DOMAIN target.accountDb
    /\ t.nonce < target.accountDb[t.sender].nonce
    /\ t.sender \in DOMAIN source.accountDb => source.accountDb[t.sender].nonce <= t.nonce

InWindow(p) ==
    \A i \in DOMAIN p.steps :
       "transaction" \in DOMAIN p.steps[i] => Window(p.source, p.target, p.steps[i].transaction)

Once(p) ==
    \A i, j \in DOMAIN p.steps :
       /\ "transaction" \in DOMAIN p.steps[i] /\ "transaction" \in DOMAIN p.steps[j]
       /\ p.steps[i].transaction = p.steps[j].transaction
       => i = j

Good(p) == p \in Statement /\ Forward(p.source, p.target) /\ InWindow(p) /\ Once(p)

\* The inductive invariant.
IInv ==
    /\ objects \in [Operators -> RollupState]
    /\ \A p \in proofs : Good(p)

-----------------------------------------------------------------------------
(* The account database. *)

\* accountDb.set keeps a database a database, and changes one account.
LEMMA WrittenIsDb ==
    ASSUME NEW db \in AccountDbs, NEW key \in Keys, NEW account \in RollupAccount
    PROVE  /\ Written(db, key, account) \in AccountDbs
           /\ DOMAIN Written(db, key, account) = DOMAIN db \cup {key}
           /\ Written(db, key, account)[key] = account
           /\ \A k \in DOMAIN db \ {key} : Written(db, key, account)[k] = db[k]
<1>1. /\ DOMAIN db \in SUBSET Keys
      /\ db \in [DOMAIN db -> RollupAccount]
  BY DEF AccountDbs
<1>2. Written(db, key, account) \in [DOMAIN db \cup {key} -> RollupAccount]
  BY <1>1 DEF Written
<1>3. DOMAIN db \cup {key} \in SUBSET Keys
  BY <1>1
<1> QED
  BY <1>1, <1>2, <1>3 DEF AccountDbs, Written

\* accountDb.get answers with an account.
LEMMA DbHasAccounts ==
    ASSUME NEW db \in AccountDbs
    PROVE  /\ DOMAIN db \subseteq Keys
           /\ \A k \in DOMAIN db : db[k] \in RollupAccount
BY DEF AccountDbs

\* What holds of two proofs that follow each other holds of the merged one.
LEMMA ForwardIsTransitive ==
    ASSUME NEW s \in RollupState, NEW t \in RollupState, NEW u \in RollupState,
           Forward(s, t), Forward(t, u)
    PROVE  Forward(s, u)
<1> SUFFICES ASSUME NEW k \in DOMAIN s.accountDb
             PROVE  /\ k \in DOMAIN u.accountDb
                    /\ s.accountDb[k].nonce <= u.accountDb[k].nonce
                    /\ u.accountDb[k].balance < s.accountDb[k].balance =>
                          s.accountDb[k].nonce < u.accountDb[k].nonce
  BY DEF Forward
<1>1. k \in DOMAIN t.accountDb /\ k \in DOMAIN u.accountDb
  BY DEF Forward
<1>2. /\ s.accountDb[k] \in RollupAccount
      /\ t.accountDb[k] \in RollupAccount
      /\ u.accountDb[k] \in RollupAccount
  BY <1>1, DbHasAccounts DEF RollupState
<1>3. /\ s.accountDb[k].nonce <= t.accountDb[k].nonce
      /\ t.accountDb[k].nonce <= u.accountDb[k].nonce
      /\ t.accountDb[k].balance < s.accountDb[k].balance =>
            s.accountDb[k].nonce < t.accountDb[k].nonce
      /\ u.accountDb[k].balance < t.accountDb[k].balance =>
            t.accountDb[k].nonce < u.accountDb[k].nonce
  BY <1>1 DEF Forward
<1> QED
  BY <1>1, <1>2, <1>3, RollupAssumption DEF RollupAccount

\* The positions of a concatenation are those of its parts.
LEMMA ConcatenationIndices ==
    ASSUME NEW S, NEW s1 \in Seq(S), NEW s2 \in Seq(S), NEW i \in DOMAIN (s1 \o s2)
    PROVE  \/ i \in DOMAIN s1 /\ (s1 \o s2)[i] = s1[i]
           \/ i - Len(s1) \in DOMAIN s2 /\ (s1 \o s2)[i] = s2[i - Len(s1)]
<1>1. /\ Len(s1) \in Nat /\ DOMAIN s1 = 1..Len(s1)
      /\ Len(s2) \in Nat /\ DOMAIN s2 = 1..Len(s2)
  OBVIOUS
<1>2. i \in 1..(Len(s1) + Len(s2))
  OBVIOUS
<1>3. CASE i <= Len(s1)
  <2>1. i \in DOMAIN s1
    BY <1>1, <1>2, <1>3
  <2>2. (s1 \o s2)[i] = s1[i]
    BY <1>2, <1>3
  <2> QED
    BY <2>1, <2>2
<1>4. CASE ~ (i <= Len(s1))
  <2>1. i - Len(s1) \in 1..Len(s2)
    BY <1>1, <1>2, <1>4
  <2>2. (s1 \o s2)[i] = s2[i - Len(s1)]
    BY <1>2, <1>4
  <2> QED
    BY <1>1, <2>1, <2>2
<1> QED
  BY <1>3, <1>4

LEMMA MergedIsGood ==
    ASSUME NEW p1, NEW p2, Good(p1), Good(p2), Adjacent(p1, p2)
    PROVE  Good(Merged(p1, p2))
<1> DEFINE m == Merged(p1, p2)
           n == Len(p1.steps)
<1>1. /\ p1 \in Statement /\ p2 \in Statement
      /\ p1.steps \in Seq(Step) /\ p2.steps \in Seq(Step)
      /\ p1.source \in RollupState /\ p2.source \in RollupState
      /\ p1.target = p2.source /\ p2.target \in RollupState
  BY DEF Good, Statement, Adjacent
<1>2. /\ m \in Statement /\ m.source = p1.source /\ m.target = p2.target
      /\ m.steps = p1.steps \o p2.steps
  BY <1>1 DEF Merged, Statement
<1>3. Forward(m.source, m.target)
  BY <1>1, <1>2, ForwardIsTransitive DEF Good
<1>4. \A i \in DOMAIN m.steps :
         \/ i \in DOMAIN p1.steps /\ m.steps[i] = p1.steps[i]
         \/ i - n \in DOMAIN p2.steps /\ m.steps[i] = p2.steps[i - n]
  <2>1. ASSUME NEW s1 \in Seq(Step), NEW s2 \in Seq(Step), NEW i \in DOMAIN (s1 \o s2)
        PROVE  \/ i \in DOMAIN s1 /\ (s1 \o s2)[i] = s1[i]
               \/ i - Len(s1) \in DOMAIN s2 /\ (s1 \o s2)[i] = s2[i - Len(s1)]
    BY ConcatenationIndices
  <2>2. \A i \in DOMAIN (p1.steps \o p2.steps) :
           \/ i \in DOMAIN p1.steps /\ (p1.steps \o p2.steps)[i] = p1.steps[i]
           \/ i - n \in DOMAIN p2.steps /\ (p1.steps \o p2.steps)[i] = p2.steps[i - n]
    BY <1>1, <2>1, Zenon
  <2> QED
    BY <1>2, <2>2
<1>5. \A i \in DOMAIN p1.steps : "transaction" \in DOMAIN p1.steps[i] =>
         Window(p1.source, p1.target, p1.steps[i].transaction)
  BY DEF Good, InWindow
<1>6. \A i \in DOMAIN p2.steps : "transaction" \in DOMAIN p2.steps[i] =>
         Window(p2.source, p2.target, p2.steps[i].transaction)
  BY DEF Good, InWindow
<1>7. ASSUME NEW t \in Signed
      PROVE  /\ Window(p1.source, p1.target, t) => Window(m.source, m.target, t)
             /\ Window(p2.source, p2.target, t) => Window(m.source, m.target, t)
  <2>1. t.nonce \in Int
    BY RollupAssumption DEF RollupTransaction
  <2>2. \A s \in RollupState : \A k \in DOMAIN s.accountDb : s.accountDb[k].nonce \in Int
    BY DbHasAccounts, RollupAssumption DEF RollupState, RollupAccount
  <2>3. Forward(p1.source, p1.target) /\ Forward(p2.source, p2.target)
    BY DEF Good
  <2> QED
    BY <1>1, <1>2, <2>1, <2>2, <2>3 DEF Window, Forward
<1>8. \A i \in DOMAIN p1.steps : "transaction" \in DOMAIN p1.steps[i] =>
         p1.steps[i].transaction \in Signed
  BY <1>1 DEF Step
<1>9. \A i \in DOMAIN p2.steps : "transaction" \in DOMAIN p2.steps[i] =>
         p2.steps[i].transaction \in Signed
  BY <1>1 DEF Step
<1>10. InWindow(m)
  <2> SUFFICES ASSUME NEW i \in DOMAIN m.steps, "transaction" \in DOMAIN m.steps[i]
               PROVE  Window(m.source, m.target, m.steps[i].transaction)
    BY DEF InWindow
  <2>1. CASE i \in DOMAIN p1.steps /\ m.steps[i] = p1.steps[i]
    BY <2>1, <1>5, <1>7, <1>8
  <2>2. CASE i - n \in DOMAIN p2.steps /\ m.steps[i] = p2.steps[i - n]
    BY <2>2, <1>6, <1>7, <1>9
  <2> QED
    BY <1>4, <2>1, <2>2
<1>11. ASSUME NEW t \in Signed, Window(p1.source, p1.target, t), Window(p2.source, p2.target, t)
       PROVE  FALSE
  \* The nonce of a transaction of p1 is below that of its sender between the proofs.
  <2>1. /\ t.sender \in DOMAIN p2.source.accountDb
        /\ t.nonce < p2.source.accountDb[t.sender].nonce
        /\ p2.source.accountDb[t.sender].nonce <= t.nonce
    BY <1>1, <1>11 DEF Window
  <2>2. t.nonce \in Int /\ p2.source.accountDb[t.sender].nonce \in Int
    BY <1>1, <2>1, DbHasAccounts, RollupAssumption
    DEF RollupTransaction, RollupState, RollupAccount
  <2> QED
    BY <2>1, <2>2
<1>12. Once(m)
  <2> SUFFICES ASSUME NEW i \in DOMAIN m.steps, NEW j \in DOMAIN m.steps,
                      "transaction" \in DOMAIN m.steps[i], "transaction" \in DOMAIN m.steps[j],
                      m.steps[i].transaction = m.steps[j].transaction
               PROVE  i = j
    BY DEF Once
  <2>1. n \in Int /\ i \in Int /\ j \in Int
    BY <1>1, <1>2
  <2>2. Once(p1) /\ Once(p2)
    BY DEF Good
  <2>3. CASE /\ i \in DOMAIN p1.steps /\ m.steps[i] = p1.steps[i]
             /\ j \in DOMAIN p1.steps /\ m.steps[j] = p1.steps[j]
    BY <2>2, <2>3 DEF Once
  <2>4. CASE /\ i - n \in DOMAIN p2.steps /\ m.steps[i] = p2.steps[i - n]
             /\ j - n \in DOMAIN p2.steps /\ m.steps[j] = p2.steps[j - n]
    <3>1. i - n = j - n
      BY <2>2, <2>4 DEF Once
    <3> QED
      BY <2>1, <3>1
  <2>5. CASE /\ i \in DOMAIN p1.steps /\ m.steps[i] = p1.steps[i]
             /\ j - n \in DOMAIN p2.steps /\ m.steps[j] = p2.steps[j - n]
    BY <2>5, <1>5, <1>6, <1>8, <1>11
  <2>6. CASE /\ j \in DOMAIN p1.steps /\ m.steps[j] = p1.steps[j]
             /\ i - n \in DOMAIN p2.steps /\ m.steps[i] = p2.steps[i - n]
    BY <2>6, <1>5, <1>6, <1>8, <1>11
  <2> QED
    BY <1>4, <2>3, <2>4, <2>5, <2>6
<1> QED
  BY <1>2, <1>3, <1>10, <1>12 DEF Good

-----------------------------------------------------------------------------
\* subtracting and adding what fits leaves an account, and moves one field.
LEMMA DebitedIsAccount ==
    ASSUME NEW account \in RollupAccount, NEW t \in RollupTransaction,
           t.amount <= account.balance, account.nonce < MaxUInt32
    PROVE  /\ Debited(account, t) \in RollupAccount
           /\ Debited(account, t).nonce = account.nonce + 1
<1>1. /\ account.balance \in 0..MaxUInt64 /\ account.nonce \in 0..MaxUInt32
      /\ t.amount \in 0..MaxUInt64 /\ account.publicKey \in Keys
      /\ account = [balance |-> account.balance, nonce |-> account.nonce,
                    publicKey |-> account.publicKey]
  BY DEF RollupAccount, RollupTransaction
<1>2. Debited(account, t) = [balance |-> account.balance - t.amount, nonce |-> account.nonce + 1,
                             publicKey |-> account.publicKey]
  BY <1>1 DEF Debited
<1>3. account.balance - t.amount \in 0..MaxUInt64 /\ account.nonce + 1 \in 0..MaxUInt32
  BY <1>1, RollupAssumption
<1> QED
  BY <1>1, <1>2, <1>3 DEF RollupAccount

LEMMA CreditedIsAccount ==
    ASSUME NEW account \in RollupAccount, NEW t \in RollupTransaction,
           account.balance + t.amount <= MaxUInt64
    PROVE  /\ Credited(account, t) \in RollupAccount
           /\ Credited(account, t).nonce = account.nonce
           /\ account.balance <= Credited(account, t).balance
<1>1. /\ account.balance \in 0..MaxUInt64 /\ account.nonce \in 0..MaxUInt32
      /\ t.amount \in 0..MaxUInt64
      /\ account = [balance |-> account.balance, nonce |-> account.nonce,
                    publicKey |-> account.publicKey]
      /\ account.publicKey \in Keys
  BY DEF RollupAccount, RollupTransaction
<1>2. Credited(account, t) = [balance |-> account.balance + t.amount, nonce |-> account.nonce,
                              publicKey |-> account.publicKey]
  BY <1>1 DEF Credited
<1>3. account.balance + t.amount \in 0..MaxUInt64
  BY <1>1, RollupAssumption
<1>4. Credited(account, t) \in RollupAccount
  BY <1>1, <1>2, <1>3 DEF RollupAccount
<1>5. account.balance <= account.balance + t.amount
  BY <1>1, RollupAssumption
<1> QED
  BY <1>2, <1>4, <1>5

-----------------------------------------------------------------------------
(* One lemma per branch. *)

\* A proof of one step is good if the step goes forward, and is either no transaction
\* or one whose sender had its nonce before and a higher one after.
LEMMA SingleIsGood ==
    ASSUME NEW before \in RollupState, NEW after \in RollupState, NEW step \in Step,
           Forward(before, after),
           "transaction" \in DOMAIN step => Window(before, after, step.transaction)
    PROVE  Good(Proof(before, after, step))
<1> DEFINE p == Proof(before, after, step)
<1>1. /\ p.source = before /\ p.target = after /\ p.steps = <<step>>
      /\ p \in Statement
  BY DEF Proof, Statement
<1>2. DOMAIN p.steps = {1} /\ p.steps[1] = step
  BY <1>1
<1>3. InWindow(p)
  BY <1>1, <1>2 DEF InWindow
<1>4. Once(p)
  BY <1>2 DEF Once
<1> QED
  BY <1>1, <1>3, <1>4 DEF Good

\* processDeposit: no account changes, since the new one was absent.
LEMMA DepositKeepsIInv ==
    ASSUME IInv, NEW op \in Operators, ProcessDeposit(op)
    PROVE  IInv'
<1> DEFINE before  == objects[op]
           deposit == Head(before.pending)
           popped  == [before EXCEPT !.pending = Tail(@)]
           after   == [popped EXCEPT !.accountDb = Written(@, deposit, NewAccount(deposit))]
<1>1. before \in RollupState /\ before.pending # <<>>
  BY DEF IInv, ProcessDeposit
<1>2. deposit \in Keys /\ popped \in RollupState /\ popped.accountDb = before.accountDb
  BY <1>1 DEF RollupState
<1>3. NewAccount(deposit) \in RollupAccount
  BY <1>2, RollupAssumption DEF NewAccount, RollupAccount
<1>4. /\ after.accountDb = Written(before.accountDb, deposit, NewAccount(deposit))
      /\ after.accountDb \in AccountDbs
      /\ after \in RollupState
  BY <1>1, <1>2, <1>3, WrittenIsDb DEF RollupState
<1>5. CASE Absent(before.accountDb, deposit)
  <2>1. deposit \notin DOMAIN before.accountDb
    BY <1>5 DEF Absent, IsSome
  <2>2. \A k \in DOMAIN before.accountDb :
           k \in DOMAIN after.accountDb /\ after.accountDb[k] = before.accountDb[k]
    <3>1. /\ before.accountDb \in AccountDbs
          /\ deposit \in Keys /\ NewAccount(deposit) \in RollupAccount
      BY <1>1, <1>2, <1>3 DEF RollupState
    <3> HIDE DEF before, deposit, popped, after
    <3>2. /\ DOMAIN Written(before.accountDb, deposit, NewAccount(deposit))
                = DOMAIN before.accountDb \cup {deposit}
          /\ \A k \in DOMAIN before.accountDb \ {deposit} :
                Written(before.accountDb, deposit, NewAccount(deposit))[k] = before.accountDb[k]
      BY <3>1, WrittenIsDb
    <3> QED
      BY <1>4, <2>1, <3>2
  <2>3. \A k \in DOMAIN before.accountDb : /\ before.accountDb[k].nonce \in Int
                                           /\ before.accountDb[k].balance \in Int
    BY <1>1, DbHasAccounts, RollupAssumption DEF RollupState, RollupAccount
  <2>4. Forward(before, after)
    BY <2>2, <2>3 DEF Forward
  <2>5. [deposit |-> deposit] \in Step /\ "transaction" \notin DOMAIN [deposit |-> deposit]
    BY <1>2 DEF Step
  <2>6. Good(Proof(before, after, [deposit |-> deposit]))
    BY <1>1, <1>4, <2>4, <2>5, SingleIsGood
  <2>7. /\ objects' = [objects EXCEPT ![op] = after]
        /\ proofs' = proofs \cup {Proof(before, after, [deposit |-> deposit])}
    BY <1>5 DEF ProcessDeposit, Proves
  <2> QED
    BY <1>4, <2>6, <2>7 DEF IInv
<1>6. CASE ~ Absent(before.accountDb, deposit)
  <2>1. objects' = [objects EXCEPT ![op] = popped] /\ proofs' = proofs
    BY <1>6 DEF ProcessDeposit, Fails
  <2> QED
    BY <1>2, <2>1 DEF IInv
<1> QED
  BY <1>5, <1>6

\* transaction: the sender's nonce rises, nobody else's balance falls.
LEMMA TransactionKeepsIInv ==
    ASSUME IInv, NEW op \in Operators, NEW t \in Signed, Transaction(op, t)
    PROVE  IInv'
<1> DEFINE before  == objects[op]
           db      == before.accountDb
           sender  == Debited(db[t.sender], t)
           debited == Written(db, t.sender, sender)
           left    == [before EXCEPT !.accountDb = debited]
<1>1. /\ before \in RollupState /\ db \in AccountDbs
      /\ t.sender \in Keys /\ t.receiver \in Keys
      /\ t.amount \in Nat /\ t.nonce \in Nat
  BY RollupAssumption DEF IInv, RollupState, RollupTransaction
<1>2. /\ t.sender \in DOMAIN db
      /\ db[t.sender].nonce = t.nonce
      /\ t.amount <= db[t.sender].balance /\ t.nonce < MaxUInt32
  BY DEF Transaction, IsSome
<1>3. \A k \in DOMAIN db : /\ db[k] \in RollupAccount
                           /\ db[k].nonce \in Nat /\ db[k].balance \in Nat
  BY <1>1, DbHasAccounts, RollupAssumption DEF RollupAccount
<1>4. /\ sender \in RollupAccount
      /\ sender.nonce = t.nonce + 1
  <2>1. t \in RollupTransaction /\ db[t.sender] \in RollupAccount
    BY <1>2, <1>3, RollupAssumption
  <2>2. t.amount <= db[t.sender].balance /\ db[t.sender].nonce < MaxUInt32
    BY <1>2
  <2> HIDE DEF db
  <2>3. sender \in RollupAccount /\ sender.nonce = db[t.sender].nonce + 1
    BY <2>1, <2>2, DebitedIsAccount
  <2> QED
    BY <1>2, <2>3
<1>5. /\ debited \in AccountDbs /\ DOMAIN debited = DOMAIN db
      /\ debited[t.sender] = sender
      /\ \A k \in DOMAIN db \ {t.sender} : debited[k] = db[k]
      /\ left \in RollupState
  <2> HIDE DEF db, sender
  <2>0. db \in AccountDbs /\ t.sender \in Keys /\ sender \in RollupAccount
    BY <1>1, <1>4
  <2>1. /\ debited \in AccountDbs /\ DOMAIN debited = DOMAIN db \cup {t.sender}
        /\ debited[t.sender] = sender
        /\ \A k \in DOMAIN db \ {t.sender} : debited[k] = db[k]
    <3>1. /\ Written(db, t.sender, sender) \in AccountDbs
          /\ DOMAIN Written(db, t.sender, sender) = DOMAIN db \cup {t.sender}
          /\ Written(db, t.sender, sender)[t.sender] = sender
          /\ \A k \in DOMAIN db \ {t.sender} : Written(db, t.sender, sender)[k] = db[k]
      BY <2>0, WrittenIsDb
    <3> QED
      BY <3>1
  <2> HIDE DEF debited
  <2>2. left \in RollupState
    BY <1>1, <2>1 DEF RollupState
  <2> QED
    BY <1>2, <2>1, <2>2
<1>6. PICK receiver \in Values(ReadAfter(db, debited), t.receiver) :
         IF receiver.balance + t.amount <= MaxUInt64
         THEN Proves(op, before,
                     [before EXCEPT !.accountDb =
                         Written(debited, t.receiver, Credited(receiver, t))],
                     [transaction |-> t, receiver |-> receiver])
         ELSE Fails(op, [before EXCEPT !.accountDb = debited])
  BY DEF Transaction
<1>7. /\ receiver \in RollupAccount
      /\ t.receiver \in DOMAIN debited => receiver = debited[t.receiver]
  BY <1>5, <1>6, DbHasAccounts, RollupAssumption DEF Values, ReadAfter, IsSome
<1>8. CASE receiver.balance + t.amount <= MaxUInt64
  <2> DEFINE credited == Credited(receiver, t)
             after    == [before EXCEPT !.accountDb = Written(debited, t.receiver, credited)]
             step     == [transaction |-> t, receiver |-> receiver]
  <2>1. /\ credited \in RollupAccount
        /\ credited.nonce = receiver.nonce
        /\ receiver.balance <= credited.balance
    <3>1. t \in RollupTransaction
      BY RollupAssumption
    <3> QED
      BY <1>7, <1>8, <3>1, CreditedIsAccount
  <2>2. /\ after.accountDb = Written(debited, t.receiver, credited)
        /\ after.accountDb \in AccountDbs /\ after \in RollupState
        /\ DOMAIN after.accountDb = DOMAIN db \cup {t.receiver}
        /\ after.accountDb[t.receiver] = credited
        /\ \A k \in DOMAIN db \ {t.receiver} : after.accountDb[k] = debited[k]
    <3> HIDE DEF db, debited, credited
    <3> DEFINE new == Written(debited, t.receiver, credited)
    <3>1. /\ new \in AccountDbs /\ DOMAIN new = DOMAIN debited \cup {t.receiver}
          /\ new[t.receiver] = credited
          /\ \A k \in DOMAIN debited \ {t.receiver} : new[k] = debited[k]
      BY <1>1, <1>5, <2>1, WrittenIsDb
    <3> HIDE DEF new
    <3>2. after.accountDb = new /\ after \in RollupState
      <4>1. after = [before EXCEPT !.accountDb = new]
        BY DEF new
      <4> QED
        BY <1>1, <3>1, <4>1 DEF RollupState
    <3> QED
      BY <1>5, <3>1, <3>2 DEF new
  <2>3. after.accountDb[t.sender].nonce = t.nonce + 1
    <3>1. CASE t.receiver = t.sender
      BY <1>2, <1>4, <1>5, <1>7, <2>1, <2>2, <3>1
    <3>2. CASE t.receiver # t.sender
      BY <1>2, <1>4, <1>5, <2>2, <3>2
    <3> QED
      BY <3>1, <3>2
  <2>4. Forward(before, after)
    <3> SUFFICES ASSUME NEW k \in DOMAIN db
                 PROVE  /\ k \in DOMAIN after.accountDb
                        /\ db[k].nonce <= after.accountDb[k].nonce
                        /\ after.accountDb[k].balance < db[k].balance =>
                              db[k].nonce < after.accountDb[k].nonce
      BY DEF Forward
    <3>1. CASE k = t.sender
      BY <1>1, <1>2, <2>2, <2>3, <3>1
    <3>2. CASE k # t.sender /\ k = t.receiver
      <4>1. receiver = db[k]
        BY <1>5, <1>7, <3>2
      <4> QED
        <5>1. /\ k \in DOMAIN after.accountDb /\ after.accountDb[k] = credited
          BY <2>2, <3>2
        <5>2. credited.balance \in Int /\ db[k].balance \in Int /\ db[k].nonce \in Int
          BY <1>3, <2>1, RollupAssumption DEF RollupAccount
        <5>3. db[k].nonce = credited.nonce /\ db[k].balance <= credited.balance
          BY <2>1, <4>1
        <5> HIDE DEF db, credited, after
        <5> QED
          BY <5>1, <5>2, <5>3
    <3>3. CASE k # t.sender /\ k # t.receiver
      <4>1. after.accountDb[k] = db[k]
        BY <1>5, <2>2, <3>3
      <4> QED
        BY <1>3, <2>2, <4>1
    <3> QED
      BY <3>1, <3>2, <3>3
  <2>5. Window(before, after, t)
    BY <1>1, <1>2, <2>2, <2>3 DEF Window
  <2>6. step \in Step /\ step.transaction = t
    BY <1>7 DEF Step
  <2>7. Good(Proof(before, after, step))
    BY <1>1, <2>2, <2>4, <2>5, <2>6, SingleIsGood
  <2>8. /\ objects' = [objects EXCEPT ![op] = after]
        /\ proofs' = proofs \cup {Proof(before, after, step)}
    BY <1>6, <1>8 DEF Proves
  <2> QED
    BY <2>2, <2>7, <2>8 DEF IInv
<1>9. CASE ~ (receiver.balance + t.amount <= MaxUInt64)
  <2>1. objects' = [objects EXCEPT ![op] = left] /\ proofs' = proofs
    BY <1>6, <1>9 DEF Fails
  <2> QED
    BY <1>5, <2>1 DEF IInv
<1> QED
  BY <1>8, <1>9

-----------------------------------------------------------------------------
\* The invariant holds in every reachable state.
THEOREM RollupInvariant == Spec => []IInv
<1>1. Init => IInv
  BY RollupAssumption DEF Init, IInv
<1>2. IInv /\ [Next]_vars => IInv'
  <2> SUFFICES ASSUME IInv, [Next]_vars PROVE IInv'
    OBVIOUS
  <2>1. CASE \E op \in Operators : ProcessDeposit(op)
    BY <2>1, DepositKeepsIInv
  <2>2. CASE \E op \in Operators, t \in Signed : Transaction(op, t)
    BY <2>2, TransactionKeepsIInv
  <2>3. CASE \E p1, p2 \in proofs : Merge(p1, p2)
    <3>1. PICK p1 \in proofs, p2 \in proofs : Merge(p1, p2)
      BY <2>3
    <3>2. Good(Merged(p1, p2))
      BY <3>1, MergedIsGood DEF IInv, Merge
    <3> QED
      BY <3>1, <3>2 DEF IInv, Merge
  <2>4. CASE \E op \in Operators, p \in proofs : Resume(op, p)
    BY <2>4 DEF IInv, Resume, Good, Statement
  <2>5. CASE UNCHANGED vars
    BY <2>5 DEF IInv, vars
  <2> QED
    BY <2>1, <2>2, <2>3, <2>4, <2>5 DEF Next
<1> QED
  BY <1>1, <1>2, PTL DEF Spec

\* Nobody's balance falls across a proof without a transaction that he has signed.
THEOREM BalancesAreSafe == Spec => []OnlyOwnersPay
<1>1. IInv => OnlyOwnersPay
  BY DEF IInv, Good, OnlyOwnersPay
<1> QED
  BY <1>1, RollupInvariant, PTL

\* No proof, however it was merged, executes a transaction twice.
THEOREM TransactionsAreUnique == Spec => []NoReplay
<1>1. IInv => NoReplay
  BY DEF IInv, Good, Once, NoReplay
<1> QED
  BY <1>1, RollupInvariant, PTL

-----------------------------------------------------------------------------
(* What the steps of a proof compute. *)

\* run has the states a proof goes through, from its source to its target.
IsRunOf(run, p) ==
    run = [i \in 0..Len(p.steps) |-> IF i = 0 THEN p.source ELSE Applied(run[i - 1], p.steps[i])]

RunInv == \A p \in proofs : \E run : IsRunOf(run, p) /\ run[Len(p.steps)] = p.target

\* A recursive definition has one solution.
LEMMA RunsAreUnique ==
    ASSUME NEW p, Len(p.steps) \in Nat, NEW r1, IsRunOf(r1, p), NEW r2, IsRunOf(r2, p)
    PROVE  r1[Len(p.steps)] = r2[Len(p.steps)]
<1> DEFINE n == Len(p.steps)
           Same == {i \in Nat : i <= n => r1[i] = r2[i]}
<1>1. 0 \in Same
  <2>1. 0 \in 0..n
    OBVIOUS
  <2>2. r1[0] = p.source /\ r2[0] = p.source
    BY <2>1 DEF IsRunOf
  <2> QED BY <2>2
<1>2. ASSUME NEW i \in Nat, i \in Same PROVE i + 1 \in Same
  <2> SUFFICES ASSUME i + 1 <= n PROVE r1[i + 1] = r2[i + 1]
    OBVIOUS
  <2>1. i + 1 \in 0..n /\ i + 1 # 0 /\ (i + 1) - 1 = i
    OBVIOUS
  <2>2. /\ r1[i + 1] = Applied(r1[i], p.steps[i + 1])
        /\ r2[i + 1] = Applied(r2[i], p.steps[i + 1])
    BY <2>1 DEF IsRunOf
  <2>3. r1[i] = r2[i]
    BY <1>2
  <2> QED BY <2>2, <2>3
<1>3. Nat \subseteq Same
  <2> HIDE DEF Same
  <2> QED BY <1>1, <1>2, Induction
<1> QED BY <1>3

\* One run after the other is a run of the merged proof.
LEMMA MergedIsRun ==
    ASSUME NEW p1 \in Statement, NEW p2 \in Statement, Adjacent(p1, p2),
           NEW r1, IsRunOf(r1, p1), r1[Len(p1.steps)] = p1.target,
           NEW r2, IsRunOf(r2, p2), r2[Len(p2.steps)] = p2.target
    PROVE  LET p == Merged(p1, p2)
           IN  \E run : IsRunOf(run, p) /\ run[Len(p.steps)] = p.target
<1> DEFINE p == Merged(p1, p2)
           n1 == Len(p1.steps)
           n2 == Len(p2.steps)
           run == [i \in 0..(n1 + n2) |-> IF i <= n1 THEN r1[i] ELSE r2[i - n1]]
<1>1. p1.steps \in Seq(Step) /\ p2.steps \in Seq(Step)
  BY DEF Statement
<1>2. /\ n1 \in Nat /\ n2 \in Nat
      /\ p.steps = p1.steps \o p2.steps /\ p.source = p1.source /\ p.target = p2.target
      /\ Len(p.steps) = n1 + n2
  <2>1. n1 \in Nat /\ n2 \in Nat /\ Len(p1.steps \o p2.steps) = n1 + n2
    BY <1>1, ConcatProperties
  <2>2. p.steps = p1.steps \o p2.steps /\ p.source = p1.source /\ p.target = p2.target
    BY DEF Merged
  <2> HIDE DEF p
  <2> QED BY <2>1, <2>2
<1>3. \A i \in 1..(n1 + n2) :
         p.steps[i] = IF i <= n1 THEN p1.steps[i] ELSE p2.steps[i - n1]
  BY <1>1, <1>2, ConcatProperties
<1>4. r1[0] = p1.source /\ r2[0] = p2.source /\ p1.target = p2.source
  <2>1. 0 \in 0..n1 /\ 0 \in 0..n2
    BY <1>2
  <2> QED BY <2>1 DEF IsRunOf, Adjacent
<1>5. \A i \in 1..n1 : r1[i] = Applied(r1[i - 1], p1.steps[i])
  <2>1. \A i \in 1..n1 : i \in 0..n1 /\ i # 0
    BY <1>2
  <2> HIDE DEF p, run
  <2> QED BY <2>1 DEF IsRunOf
<1>6. \A i \in 1..n2 : r2[i] = Applied(r2[i - 1], p2.steps[i])
  <2>1. \A i \in 1..n2 : i \in 0..n2 /\ i # 0
    BY <1>2
  <2> HIDE DEF p, run
  <2> QED BY <2>1 DEF IsRunOf
<1>7. \A i \in 0..(n1 + n2) : run[i] = IF i <= n1 THEN r1[i] ELSE r2[i - n1]
  OBVIOUS
<1>8. run = [i \in 0..(n1 + n2) |-> run[i]]
  OBVIOUS
<1> HIDE DEF run, p, n1, n2
<1>9. ASSUME NEW i \in 0..(n1 + n2)
      PROVE  run[i] = IF i = 0 THEN p.source ELSE Applied(run[i - 1], p.steps[i])
  <2>1. CASE i = 0
    BY <1>2, <1>4, <1>7, <2>1
  <2>2. CASE i # 0 /\ i <= n1
    <3>1. i \in 1..n1 /\ i - 1 \in 0..(n1 + n2) /\ i - 1 <= n1 /\ i \in 1..(n1 + n2)
      BY <1>2, <2>2
    <3>2. run[i] = r1[i] /\ run[i - 1] = r1[i - 1] /\ p.steps[i] = p1.steps[i]
      BY <1>3, <1>7, <2>2, <3>1
    <3> QED BY <1>5, <2>2, <3>1, <3>2
  <2>3. CASE i # 0 /\ ~ (i <= n1)
    <3> DEFINE j == i - n1
    <3>1. /\ j \in 1..n2 /\ i - 1 \in 0..(n1 + n2) /\ i \in 1..(n1 + n2)
          /\ (i - 1) - n1 = j - 1
          /\ (i - 1 <= n1) <=> j = 1
      BY <1>2, <2>3
    <3>2. run[i] = r2[j] /\ p.steps[i] = p2.steps[j]
      BY <1>3, <1>7, <2>3, <3>1
    <3>3. r2[j] = Applied(r2[j - 1], p2.steps[j])
      BY <1>6, <3>1
    <3>4. run[i - 1] = r2[j - 1]
      <4>1. CASE j = 1
        <5>1. i - 1 = n1 /\ n1 <= n1 /\ n1 \in 0..(n1 + n2)
          BY <1>2, <4>1
        <5>2. run[n1] = r1[n1] /\ r1[n1] = p1.target
          BY <1>7, <5>1 DEF n1
        <5> QED BY <1>4, <4>1, <5>1, <5>2
      <4>2. CASE j # 1
        BY <1>7, <3>1, <4>2
      <4> QED BY <4>1, <4>2
    <3> QED BY <2>3, <3>2, <3>3, <3>4
  <2> QED BY <2>1, <2>2, <2>3
<1>10. IsRunOf(run, p)
  BY <1>2, <1>8, <1>9 DEF IsRunOf
<1>11. run[n1 + n2] = p.target
  <2>1. n1 + n2 \in 0..(n1 + n2) /\ (n1 + n2) - n1 = n2 /\ (n1 + n2 <= n1 <=> n2 = 0)
    BY <1>2
  <2>2. CASE n2 = 0
    <3>1. run[n1 + n2] = r1[n1]
      BY <1>2, <1>7, <2>1, <2>2
    <3> QED BY <1>2, <1>4, <2>2, <3>1 DEF n1, n2
  <2>3. CASE n2 # 0
    <3>1. run[n1 + n2] = r2[n2]
      BY <1>2, <1>7, <2>1, <2>3
    <3> QED BY <1>2, <3>1 DEF n2
  <2> QED BY <2>2, <2>3
<1> QED BY <1>2, <1>10, <1>11 DEF p

LEMMA SingleIsRun ==
    ASSUME NEW before, NEW step
    PROVE  LET p == Proof(before, Applied(before, step), step)
           IN  \E run : IsRunOf(run, p) /\ run[Len(p.steps)] = p.target
<1> DEFINE after == Applied(before, step)
           p == Proof(before, after, step)
           run == [i \in 0..1 |-> IF i = 0 THEN before ELSE after]
<1>1. p.steps = <<step>> /\ p.source = before /\ p.target = after
  BY DEF Proof
<1>2. Len(p.steps) = 1 /\ p.steps[1] = step
  BY <1>1
<1>3. run[0] = before /\ run[1] = after /\ run = [i \in 0..1 |-> run[i]]
  OBVIOUS
<1> HIDE DEF run, p
<1>4. \A i \in 0..1 : run[i] = IF i = 0 THEN p.source ELSE Applied(run[i - 1], p.steps[i])
  <2>1. \A i \in 0..1 : i = 0 \/ i = 1
    OBVIOUS
  <2> QED BY <1>1, <1>2, <1>3, <2>1
<1>5. IsRunOf(run, p)
  BY <1>2, <1>3, <1>4 DEF IsRunOf
<1> QED BY <1>1, <1>2, <1>3, <1>5 DEF p

\* Debiting the sender and then crediting the receiver, read after that, moves the
\* amount in the ledger, also from an account to itself.
LEMMA WrittenTwiceIsMoved ==
    ASSUME NEW db \in AccountDbs, NEW t \in RollupTransaction, t.sender \in DOMAIN db,
           NEW debited, debited = Written(db, t.sender, Debited(db[t.sender], t)),
           NEW receiver \in RollupAccount,
           t.receiver \in DOMAIN debited => receiver = debited[t.receiver]
    PROVE  Written(debited, t.receiver, Credited(receiver, t))
              = Moved(db, t, IF t.receiver \in DOMAIN db THEN db[t.receiver] ELSE receiver)
<1> DEFINE other == IF t.receiver \in DOMAIN db THEN db[t.receiver] ELSE receiver
           new == Written(debited, t.receiver, Credited(receiver, t))
           moved == Moved(db, t, other)
           old(k) == IF k \in DOMAIN db THEN db[k] ELSE other
           balance(k) == old(k).balance + (IF k = t.receiver THEN t.amount ELSE 0)
                                        - (IF k = t.sender THEN t.amount ELSE 0)
           nonce(k) == old(k).nonce + (IF k = t.sender THEN 1 ELSE 0)
           key(k) == old(k).publicKey
<1>1. /\ t.amount \in Int
      /\ \A k \in DOMAIN db : db[k] = [balance |-> db[k].balance, nonce |-> db[k].nonce,
                                       publicKey |-> db[k].publicKey]
                              /\ db[k].balance \in Int /\ db[k].nonce \in Int
      /\ receiver = [balance |-> receiver.balance, nonce |-> receiver.nonce,
                     publicKey |-> receiver.publicKey]
      /\ receiver.balance \in Int /\ receiver.nonce \in Int
  BY DbHasAccounts, RollupAssumption DEF RollupTransaction, RollupAccount
<1>2. /\ DOMAIN debited = DOMAIN db
      /\ debited[t.sender] = [balance |-> db[t.sender].balance - t.amount,
                              nonce |-> db[t.sender].nonce + 1,
                              publicKey |-> db[t.sender].publicKey]
      /\ \A k \in DOMAIN db \ {t.sender} : debited[k] = db[k]
  BY DEF Written, Debited
<1>3. Credited(receiver, t) = [balance |-> receiver.balance + t.amount, nonce |-> receiver.nonce,
                               publicKey |-> receiver.publicKey]
  BY <1>1 DEF Credited
<1>4. /\ DOMAIN new = DOMAIN db \cup {t.receiver}
      /\ new = [k \in DOMAIN db \cup {t.receiver} |-> new[k]]
      /\ new[t.receiver] = Credited(receiver, t)
      /\ \A k \in DOMAIN db \ {t.receiver} : new[k] = debited[k]
  BY <1>2 DEF Written
<1>5. moved = [k \in DOMAIN db \cup {t.receiver} |-> [balance |-> balance(k), nonce |-> nonce(k),
                                                 publicKey |-> key(k)]]
  BY DEF Moved
<1> HIDE DEF new, moved
<1>6. ASSUME NEW k \in DOMAIN db \cup {t.receiver}
      PROVE  new[k] = [balance |-> balance(k), nonce |-> nonce(k), publicKey |-> key(k)]
  <2>1. CASE k = t.receiver /\ k = t.sender
    <3>1. receiver = [balance |-> db[k].balance - t.amount, nonce |-> db[k].nonce + 1,
                      publicKey |-> db[k].publicKey]
      BY <1>2, <2>1
    <3>2. /\ receiver.balance + t.amount = db[k].balance + t.amount - t.amount
          /\ receiver.nonce = db[k].nonce + 1 /\ receiver.publicKey = db[k].publicKey
      BY <1>1, <2>1, <3>1
    <3>3. /\ balance(k) = db[k].balance + t.amount - t.amount /\ nonce(k) = db[k].nonce + 1
          /\ key(k) = db[k].publicKey
      BY <2>1
    <3> HIDE DEF balance, nonce, key
    <3> QED BY <1>3, <1>4, <2>1, <3>2, <3>3
  <2>2. CASE k = t.receiver /\ k # t.sender
    <3>1. old(k) = receiver
      BY <1>2, <2>2
    <3>2. /\ balance(k) = receiver.balance + t.amount /\ nonce(k) = receiver.nonce
          /\ key(k) = receiver.publicKey
      BY <1>1, <2>2, <3>1
    <3> HIDE DEF balance, nonce, key
    <3> QED BY <1>3, <1>4, <2>2, <3>2
  <2>3. CASE k # t.receiver /\ k = t.sender
    <3>1. /\ balance(k) = db[k].balance - t.amount /\ nonce(k) = db[k].nonce + 1
          /\ key(k) = db[k].publicKey
      BY <1>1, <2>3
    <3> HIDE DEF balance, nonce, key
    <3> QED BY <1>2, <1>4, <2>3, <3>1
  <2>4. CASE k # t.receiver /\ k # t.sender
    <3>1. /\ balance(k) = db[k].balance /\ nonce(k) = db[k].nonce /\ key(k) = db[k].publicKey
          /\ new[k] = db[k]
      BY <1>1, <1>2, <1>4, <2>4
    <3> HIDE DEF balance, nonce, key
    <3> QED BY <1>1, <2>4, <3>1
  <2> QED BY <2>1, <2>2, <2>3, <2>4
<1> HIDE DEF balance, nonce, key, old
<1> QED BY <1>4, <1>5, <1>6 DEF new, moved

\* A branch proves what its step does in the ledger.
LEMMA DepositIsRun ==
    ASSUME IInv, RunInv, NEW op \in Operators, ProcessDeposit(op)
    PROVE  RunInv'
<1> DEFINE before  == objects[op]
           deposit == Head(before.pending)
           popped  == [before EXCEPT !.pending = Tail(@)]
           after   == [popped EXCEPT !.accountDb = Written(@, deposit, NewAccount(deposit))]
           step    == [deposit |-> deposit]
<1>1. before = [pending |-> before.pending, accountDb |-> before.accountDb]
  BY DEF IInv, RollupState
<1>2. after = Applied(before, step)
  <2> DEFINE new == Written(before.accountDb, deposit, NewAccount(deposit))
  <2>1. ASSUME NEW r, NEW a, NEW b, NEW x, NEW y, r = [pending |-> a, accountDb |-> b]
        PROVE  [[r EXCEPT !.pending = x] EXCEPT !.accountDb = y] = [pending |-> x, accountDb |-> y]
    <3> DEFINE q == [r EXCEPT !.pending = x]
    <3>1. q = [pending |-> x, accountDb |-> b]
      BY <2>1
    <3> HIDE DEF q
    <3>2. [q EXCEPT !.accountDb = y] = [pending |-> x, accountDb |-> y]
      BY <3>1
    <3> QED BY <3>2 DEF q
  <2>2. after = [pending |-> Tail(before.pending), accountDb |-> new]
    <3>1. after = [[before EXCEPT !.pending = Tail(before.pending)] EXCEPT !.accountDb = new]
      <4>1. popped.accountDb = before.accountDb
        BY <1>1
      <4> QED BY <4>1
    <3> HIDE DEF before, new, after
    <3> QED BY <1>1, <2>1, <3>1
  <2>3. Applied(before, step) = [pending |-> Tail(before.pending), accountDb |-> new]
    BY DEF Applied
  <2> QED BY <2>2, <2>3
<1>3. proofs' = proofs \/ proofs' = proofs \cup {Proof(before, after, step)}
  BY DEF ProcessDeposit, Proves, Fails
<1> HIDE DEF before, after, step
<1> QED BY <1>2, <1>3, SingleIsRun DEF RunInv

LEMMA TransactionIsRun ==
    ASSUME IInv, RunInv, NEW op \in Operators, NEW t \in Signed, Transaction(op, t)
    PROVE  RunInv'
<1> DEFINE before  == objects[op]
           db      == before.accountDb
           debited == Written(db, t.sender, Debited(db[t.sender], t))
<1>1. /\ db \in AccountDbs /\ t \in RollupTransaction /\ t.sender \in DOMAIN db
      /\ before = [pending |-> before.pending, accountDb |-> db]
  BY RollupAssumption DEF IInv, RollupState, Transaction, IsSome
<1>2. PICK receiver \in Values(debited, t.receiver) :
         \/ Proves(op, before,
                   [before EXCEPT !.accountDb =
                       Written(debited, t.receiver, Credited(receiver, t))],
                   [transaction |-> t, receiver |-> receiver])
         \/ UNCHANGED proofs
  BY DEF Transaction, ReadAfter, Fails
<1> DEFINE after == [before EXCEPT !.accountDb =
                        Written(debited, t.receiver, Credited(receiver, t))]
           step == [transaction |-> t, receiver |-> receiver]
           other == IF t.receiver \in DOMAIN db THEN db[t.receiver] ELSE receiver
<1>3. debited \in AccountDbs
  <2>1. t.sender \in Keys /\ db[t.sender] \in RollupAccount
    BY <1>1, DbHasAccounts DEF RollupTransaction
  <2>2. Debited(db[t.sender], t) \in RollupAccount
    <3>1. t.amount <= db[t.sender].balance /\ db[t.sender].nonce < MaxUInt32
      BY DEF Transaction
    <3> HIDE DEF db
    <3> QED BY <1>1, <2>1, <3>1, DebitedIsAccount
  <2> HIDE DEF db
  <2> QED BY <1>1, <2>1, <2>2, WrittenIsDb
<1>4. /\ receiver \in RollupAccount
      /\ t.receiver \in DOMAIN debited => receiver = debited[t.receiver]
  <2> HIDE DEF debited
  <2> QED BY <1>2, <1>3, DbHasAccounts, RollupAssumption DEF Values, IsSome
<1>5. Written(debited, t.receiver, Credited(receiver, t)) = Moved(db, t, other)
  <2>1. debited = Written(db, t.sender, Debited(db[t.sender], t))
    OBVIOUS
  <2> HIDE DEF db, debited
  <2> QED BY <1>1, <1>4, <2>1, WrittenTwiceIsMoved
<1>6. after = Applied(before, step)
  <2>1. "deposit" \notin DOMAIN step /\ step.transaction = t /\ step.receiver = receiver
    OBVIOUS
  <2>2. Applied(before, step) = [before EXCEPT !.accountDb = Moved(db, t, other)]
    BY <2>1 DEF Applied
  <2> QED BY <1>5, <2>2
<1>7. proofs' = proofs \/ proofs' = proofs \cup {Proof(before, after, step)}
  BY <1>2 DEF Proves
<1> HIDE DEF before, after, step
<1> QED BY <1>6, <1>7, SingleIsRun DEF RunInv

\* What a proof says follows from its steps, executed in the ledger one after the other.
THEOREM ProofsStateWhatStepsDo == Spec => []ProofsAreRuns
<1>1. Init => RunInv
  BY DEF Init, RunInv
<1>2. IInv /\ RunInv /\ [Next]_vars => RunInv'
  <2> SUFFICES ASSUME IInv, RunInv, [Next]_vars PROVE RunInv'
    OBVIOUS
  <2>1. CASE \E op \in Operators : ProcessDeposit(op)
    BY <2>1, DepositIsRun
  <2>2. CASE \E op \in Operators, t \in Signed : Transaction(op, t)
    BY <2>2, TransactionIsRun
  <2>3. CASE \E p1, p2 \in proofs : Merge(p1, p2)
    <3>1. PICK p1 \in proofs, p2 \in proofs : Merge(p1, p2)
      BY <2>3
    <3>2. p1 \in Statement /\ p2 \in Statement /\ Adjacent(p1, p2)
      BY <3>1 DEF IInv, Good, Merge
    <3>3. PICK r1 : IsRunOf(r1, p1) /\ r1[Len(p1.steps)] = p1.target
      BY DEF RunInv
    <3>4. PICK r2 : IsRunOf(r2, p2) /\ r2[Len(p2.steps)] = p2.target
      BY DEF RunInv
    <3>5. LET p == Merged(p1, p2)
          IN  \E run : IsRunOf(run, p) /\ run[Len(p.steps)] = p.target
      BY <3>2, <3>3, <3>4, MergedIsRun
    <3>6. proofs' = proofs \cup {Merged(p1, p2)}
      BY <3>1 DEF Merge
    <3> QED BY <3>5, <3>6 DEF RunInv
  <2>4. CASE \E op \in Operators, p \in proofs : Resume(op, p)
    BY <2>4 DEF RunInv, Resume
  <2>5. CASE UNCHANGED vars
    BY <2>5 DEF RunInv, vars
  <2> QED BY <2>1, <2>2, <2>3, <2>4, <2>5 DEF Next
<1>3. ASSUME IInv, RunInv PROVE ProofsAreRuns
  <2> SUFFICES ASSUME NEW p \in proofs
               PROVE  LET state[i \in 0..Len(p.steps)] ==
                             IF i = 0 THEN p.source ELSE Applied(state[i - 1], p.steps[i])
                      IN  state[Len(p.steps)] = p.target
    BY Zenon DEF ProofsAreRuns
  <2> DEFINE state == CHOOSE run : IsRunOf(run, p)
  <2>1. PICK run : IsRunOf(run, p) /\ run[Len(p.steps)] = p.target
    BY <1>3 DEF RunInv
  <2>2. IsRunOf(state, p)
    BY <2>1
  <2>3. Len(p.steps) \in Nat
    BY <1>3 DEF IInv, Good, Statement
  <2>4. state[Len(p.steps)] = p.target
    BY <2>1, <2>2, <2>3, RunsAreUnique
  <2> QED BY <2>4, Zenon DEF IsRunOf
<1> QED BY <1>1, <1>2, <1>3, RollupInvariant, PTL DEF Spec
=============================================================================
