------------------------- MODULE CreditStoreProofs -------------------------
(***************************************************************************)
(* The account store loses no committed operation and shares no deposit,   *)
(* for any number of workers, accounts, operations and deposits.           *)
(*                                                                         *)
(* The three properties the runs check are inductive together with what    *)
(* the open transaction guarantees: the snapshot it is about to write      *)
(* extends the committed one, and the claims it added are its own account's *)
(* deposits, unclaimed before.                                             *)
(***************************************************************************)
EXTENDS CreditStore, TLAPS

TransactionOK ==
    txn # None =>
        /\ stored[txn.id] # None => Ideal!Extends(txn.snapshot, stored[txn.id].snapshot)
        /\ \A k \in DepositKeys :
              txn.claims[k] # claims[k] =>
                  /\ claims[k] = None
                  /\ txn.claims[k] = txn.id
                  /\ k \in BackingDeposits(txn.snapshot)

StoreInv ==
    /\ StoreTypeOK
    /\ ClaimsExact
    /\ RevisionIdentifiesHistory
    /\ TransactionOK

USE DepositAssumption, NoneAssumption

-----------------------------------------------------------------------------

\* No account has a row and no transaction is open at first.
LEMMA InitStore == Init => StoreInv
BY DEF Init, StoreInv, StoreTypeOK, ClaimsExact, RevisionIdentifiesHistory, TransactionOK

\* A fresh account has no revision to compare.
LEMMA NewStep ==
    ASSUME StoreInv, NEW w \in Workers, NEW id \in AccountIds, New(w, id)
    PROVE  StoreInv'
<1>1. StoreTypeOK'
  BY DEF StoreInv, StoreTypeOK, New, Copy, Log
<1>2. ClaimsExact' /\ TransactionOK'
  BY DEF StoreInv, ClaimsExact, TransactionOK, New, Ideal!Extends
<1>3. RevisionIdentifiesHistory'
  BY DEF StoreInv, StoreTypeOK, RevisionIdentifiesHistory, New
<1> QED BY <1>1, <1>2, <1>3 DEF StoreInv

\* A loaded copy is the committed account at its revision.
LEMMA LoadStep ==
    ASSUME StoreInv, NEW w \in Workers, NEW id \in AccountIds, Load(w, id)
    PROVE  StoreInv'
<1>0. stored[id] \in Row
  BY DEF StoreInv, StoreTypeOK, Load
<1>1. StoreTypeOK'
  BY <1>0 DEF StoreInv, StoreTypeOK, Load, Copy, Log, Row
<1>2. ClaimsExact' /\ TransactionOK'
  BY DEF StoreInv, ClaimsExact, TransactionOK, Load, Ideal!Extends
<1>3. RevisionIdentifiesHistory'
  BY <1>0 DEF StoreInv, StoreTypeOK, RevisionIdentifiesHistory, Load, Row, Log
<1> QED BY <1>1, <1>2, <1>3 DEF StoreInv

\* An operation is appended to the copy; what was loaded stays in front.
LEMMA ApplyStep ==
    ASSUME StoreInv, NEW w \in Workers, NEW op \in Ops, Apply(w, op)
    PROVE  StoreInv'
<1>0. mem[w] \in Copy
  BY DEF StoreInv, StoreTypeOK, Apply
<1>1. StoreTypeOK'
  BY <1>0 DEF StoreInv, StoreTypeOK, Apply, Copy, Log
<1>2. ClaimsExact' /\ TransactionOK'
  BY DEF StoreInv, ClaimsExact, TransactionOK, Apply, Ideal!Extends
<1>3. RevisionIdentifiesHistory'
  BY <1>0 DEF StoreInv, StoreTypeOK, RevisionIdentifiesHistory, Apply, Copy, Log
<1> QED BY <1>1, <1>2, <1>3 DEF StoreInv

\* The transaction opens on a snapshot that extends the committed one: there
\* is none (create), or its revision is the one the copy was loaded at (save).
LEMMA OpenStep ==
    ASSUME StoreInv, NEW w \in Workers, Create(w) \/ Save(w)
    PROVE  StoreInv'
<1>0. mem[w] \in Copy /\ txn' = Open(w) /\ UNCHANGED <<stored, claims, mem>>
  BY DEF StoreInv, StoreTypeOK, Create, Save
<1>1. StoreTypeOK'
  BY <1>0 DEF StoreInv, StoreTypeOK, Open, Copy, Transaction
<1>2. ClaimsExact' /\ RevisionIdentifiesHistory'
  BY <1>0 DEF StoreInv, ClaimsExact, RevisionIdentifiesHistory
<1>3. stored[mem[w].id] # None => Ideal!Extends(mem[w].log, stored[mem[w].id].snapshot)
  BY <1>0 DEF StoreInv, StoreTypeOK, RevisionIdentifiesHistory, Create, Save, Inserts,
     Updates, Copy, Ideal!Extends
<1>4. TransactionOK'
  BY <1>0, <1>3 DEF TransactionOK, Open, Copy
<1> QED BY <1>1, <1>2, <1>4 DEF StoreInv

\* A deposit nobody holds is claimed inside the transaction.
LEMMA BindStep ==
    ASSUME StoreInv, NEW w \in Workers, BindBackingDeposit(w)
    PROVE  StoreInv'
<1>0. txn \in Transaction /\ UNCHANGED <<stored, claims, mem>>
  BY DEF StoreInv, StoreTypeOK, BindBackingDeposit
<1>1. PICK k \in Unbound :
         /\ Claimable(k)
         /\ txn' = [worker |-> w, id |-> txn.id, snapshot |-> txn.snapshot,
                    claims |-> [txn.claims EXCEPT ![k] = txn.id]]
  BY DEF BindBackingDeposit
<1>2. k \in DepositKeys /\ k \in BackingDeposits(txn.snapshot)
  BY <1>0, <1>1 DEF Unbound, BackingDeposits, Transaction, Log
<1>3. StoreTypeOK'
  BY <1>0, <1>1, <1>2 DEF StoreInv, StoreTypeOK, Transaction
<1>4. ClaimsExact' /\ RevisionIdentifiesHistory'
  BY <1>0 DEF StoreInv, ClaimsExact, RevisionIdentifiesHistory
<1>5. TransactionOK'
  BY <1>0, <1>1, <1>2 DEF StoreInv, TransactionOK, Transaction, Claimable, Ideal!Extends
<1> QED BY <1>3, <1>4, <1>5 DEF StoreInv

\* A transaction that ends without a commit leaves the tables as they were.
LEMMA RollbackStep ==
    ASSUME StoreInv, NEW w \in Workers, ClaimConflict(w) \/ DatabaseError(w) \/ Crash(w)
    PROVE  StoreInv'
<1>1. UNCHANGED <<stored, claims>> /\ (txn' = None \/ txn' = txn)
      /\ (mem' = mem \/ mem' = [mem EXCEPT ![w] = None])
  BY DEF ClaimConflict, DatabaseError, Crash
<1>2. StoreTypeOK'
  BY <1>1 DEF StoreInv, StoreTypeOK
<1>3. ClaimsExact' /\ TransactionOK'
  BY <1>1 DEF StoreInv, ClaimsExact, TransactionOK, Ideal!Extends
<1>4. RevisionIdentifiesHistory'
  BY <1>1 DEF StoreInv, StoreTypeOK, RevisionIdentifiesHistory
<1> QED BY <1>2, <1>3, <1>4 DEF StoreInv

\* The deposits of a log are among those of a log that extends it.
LEMMA ExtendsBacking ==
    ASSUME NEW s \in Log, NEW t \in Log, Ideal!Extends(t, s)
    PROVE  BackingDeposits(s) \subseteq BackingDeposits(t)
BY DEF BackingDeposits, Log, Ideal!Extends

\* A commit writes what the open transaction holds.
LEMMA CommitStep ==
    ASSUME StoreInv, NEW w \in Workers, Commit(w)
    PROVE  StoreInv'
<1>0. txn \in Transaction /\ txn' = None /\ AllBound
  BY DEF StoreInv, StoreTypeOK, Commit
<1> DEFINE row == [revision |-> Len(txn.snapshot), snapshot |-> txn.snapshot]
<1>1. /\ stored' = [stored EXCEPT ![txn.id] = row]
      /\ claims' = txn.claims
      /\ mem' = [mem EXCEPT ![w] =
             [id |-> txn.id, expected |-> Len(txn.snapshot), log |-> txn.snapshot]]
  BY DEF Commit, Revision
<1>2. row \in Row /\ txn.id \in AccountIds /\ txn.snapshot \in Log
  BY <1>0 DEF Transaction, Row, Log
<1>3. StoreTypeOK'
  BY <1>0, <1>1, <1>2 DEF StoreInv, StoreTypeOK, Transaction, Copy, Row, Log
<1>4. ASSUME NEW k \in DepositKeys, NEW id \in AccountIds
      PROVE  txn.claims[k] = id <=>
                 stored'[id] # None /\ k \in BackingDeposits(stored'[id].snapshot)
  <2>1. CASE id = txn.id
    <3>1. k \in BackingDeposits(txn.snapshot) => txn.claims[k] = id
      BY <1>0, <2>1 DEF AllBound, Unbound
    <3>2. ASSUME txn.claims[k] = id PROVE k \in BackingDeposits(txn.snapshot)
      <4>1. CASE txn.claims[k] # claims[k]
        BY <1>0, <4>1 DEF StoreInv, TransactionOK
      <4>2. CASE txn.claims[k] = claims[k]
        <5>1. stored[id] # None /\ k \in BackingDeposits(stored[id].snapshot)
          BY <3>2, <4>2 DEF StoreInv, ClaimsExact
        <5>2. stored[id].snapshot \in Log /\ Ideal!Extends(txn.snapshot, stored[id].snapshot)
          BY <1>0, <2>1, <5>1 DEF StoreInv, StoreTypeOK, TransactionOK, Row
        <5> QED BY <1>2, <5>1, <5>2, ExtendsBacking
      <4> QED BY <4>1, <4>2
    <3>3. stored'[id] = row /\ row # None /\ row.snapshot = txn.snapshot
      BY <1>1, <1>2, <2>1 DEF StoreInv, StoreTypeOK
    <3> QED BY <3>1, <3>2, <3>3
  <2>2. CASE id # txn.id
    <3>1. stored'[id] = stored[id]
      BY <1>1, <1>2, <2>2 DEF StoreInv, StoreTypeOK
    <3>2. txn.claims[k] = id <=> claims[k] = id
      BY <1>0, <2>2 DEF StoreInv, TransactionOK, Transaction
    <3> QED BY <3>1, <3>2 DEF StoreInv, ClaimsExact
  <2> QED BY <2>1, <2>2
<1>5. ClaimsExact'
  BY <1>1, <1>4 DEF ClaimsExact, BackingDeposits
<1>6. RevisionIdentifiesHistory'
  <2>1. ASSUME NEW v \in Workers, mem'[v] # None, mem'[v].expected # None
        PROVE  /\ stored'[mem'[v].id] # None
               /\ mem'[v].expected <= Len(stored'[mem'[v].id].snapshot)
               /\ mem'[v].expected <= Len(mem'[v].log)
               /\ \A n \in 1..mem'[v].expected :
                     mem'[v].log[n] = stored'[mem'[v].id].snapshot[n]
    <3>1. CASE v = w
      <4>1. mem'[v] = [id |-> txn.id, expected |-> Len(txn.snapshot), log |-> txn.snapshot]
        BY <1>1, <3>1 DEF StoreInv, StoreTypeOK
      <4>2. stored'[txn.id] = row /\ row # None
        BY <1>1, <1>2 DEF StoreInv, StoreTypeOK
      <4> QED BY <1>2, <4>1, <4>2 DEF Log
    <3>2. CASE v # w
      <4>1. mem'[v] = mem[v] /\ mem[v] \in Copy
        BY <1>1, <2>1, <3>2 DEF StoreInv, StoreTypeOK
      <4>2. /\ stored[mem[v].id] # None
            /\ mem[v].expected <= Len(stored[mem[v].id].snapshot)
            /\ mem[v].expected <= Len(mem[v].log)
            /\ \A n \in 1..mem[v].expected :
                  mem[v].log[n] = stored[mem[v].id].snapshot[n]
        BY <2>1, <4>1 DEF StoreInv, RevisionIdentifiesHistory
      <4>3. CASE mem[v].id # txn.id
        BY <1>1, <4>1, <4>2, <4>3
      <4>4. CASE mem[v].id = txn.id
        <5>1. Ideal!Extends(txn.snapshot, stored[txn.id].snapshot)
          BY <1>0, <4>2, <4>4 DEF StoreInv, TransactionOK
        <5>2. stored'[txn.id] = row /\ row # None
          BY <1>1, <1>2 DEF StoreInv, StoreTypeOK
        <5>3. stored[txn.id].snapshot \in Log /\ mem[v].expected \in Nat
          BY <1>2, <2>1, <4>1, <4>2, <4>4 DEF StoreInv, StoreTypeOK, Row, Copy
        <5> QED BY <1>2, <4>1, <4>2, <4>4, <5>1, <5>2, <5>3 DEF Ideal!Extends, Log
      <4> QED BY <4>3, <4>4
    <3> QED BY <3>1, <3>2
  <2> QED BY <2>1 DEF RevisionIdentifiesHistory
<1>7. TransactionOK'
  BY <1>0 DEF TransactionOK
<1> QED BY <1>3, <1>5, <1>6, <1>7 DEF StoreInv

LEMMA NextStore == StoreInv /\ [Next]_vars => StoreInv'
<1> SUFFICES ASSUME StoreInv, [Next]_vars PROVE StoreInv'
  OBVIOUS
<1>1. CASE UNCHANGED vars
  BY <1>1 DEF vars, StoreInv, StoreTypeOK, ClaimsExact, RevisionIdentifiesHistory,
     TransactionOK, Ideal!Extends
<1>2. CASE Next
  <2>1. PICK w \in Workers :
          \/ \E id \in AccountIds : New(w, id) \/ Load(w, id)
          \/ \E op \in Ops : Apply(w, op)
          \/ Create(w) \/ Save(w)
          \/ BindBackingDeposit(w)
          \/ ClaimConflict(w) \/ DatabaseError(w) \/ Crash(w)
          \/ Commit(w)
    BY <1>2 DEF Next
  <2> QED BY <2>1, NewStep, LoadStep, ApplyStep, OpenStep, BindStep, RollbackStep, CommitStep
<1> QED BY <1>1, <1>2

-----------------------------------------------------------------------------

\* The invariant holds in every reachable state.
THEOREM StoreInvariance == Spec => []StoreInv
BY InitStore, NextStore, PTL DEF Spec

\* Rows, claims, the transaction and the copies stay well formed.
THEOREM StoreTypeCorrect == Spec => []StoreTypeOK
<1>1. StoreInv => StoreTypeOK
  BY DEF StoreInv
<1> QED BY <1>1, StoreInvariance, PTL

\* The claims table is exact: bind_backing_deposits in the same transaction as
\* the write leaves no claim of a failed save and misses none.
THEOREM ClaimsTheorem == Spec => []ClaimsExact
<1>1. StoreInv => ClaimsExact
  BY DEF StoreInv
<1> QED BY <1>1, StoreInvariance, PTL

\* Comparing revisions is enough to compare histories (save's WHERE revision).
THEOREM HistoryTheorem == Spec => []RevisionIdentifiesHistory
<1>1. StoreInv => RevisionIdentifiesHistory
  BY DEF StoreInv
<1> QED BY <1>1, StoreInvariance, PTL

\* A committed write is a step of the ideal log and every other step leaves
\* the log as it is.
LEMMA RefinementStep == StoreInv /\ [Next]_vars => [Ideal!Next]_Accounts
<1> SUFFICES ASSUME StoreInv, [Next]_vars PROVE Ideal!Next \/ Accounts' = Accounts
  OBVIOUS
<1>1. CASE stored' = stored
  BY <1>1 DEF Accounts
<1>2. CASE stored' # stored
  <2>1. PICK w \in Workers : Commit(w)
    BY <1>2 DEF Next, vars, New, Load, Apply, Create, Save, BindBackingDeposit,
       ClaimConflict, DatabaseError, Crash
  <2>2. txn \in Transaction /\ AllBound
    BY <2>1 DEF StoreInv, StoreTypeOK, Commit
  <2> DEFINE id == txn.id
             row == [revision |-> Len(txn.snapshot), snapshot |-> txn.snapshot]
  <2>3. id \in AccountIds /\ txn.snapshot \in Log /\ row \in Row
    BY <2>2 DEF Transaction, Row, Log
  <2>4. stored' = [stored EXCEPT ![id] = row] /\ claims' = txn.claims
    BY <2>1 DEF Commit, Revision
  <2>5. Accounts' = [Accounts EXCEPT ![id] = txn.snapshot]
    BY <2>3, <2>4 DEF StoreInv, StoreTypeOK, Accounts
  <2>6. Accounts'[id] = txn.snapshot
    BY <2>3, <2>5 DEF Accounts
  <2>7. Accounts[id] # None => Ideal!Extends(txn.snapshot, Accounts[id])
    BY <2>2, <2>3 DEF StoreInv, TransactionOK, Accounts
  <2>8. ASSUME NEW other \in AccountIds \ {id}, Accounts[other] # None
        PROVE  Ideal!Backing(Accounts[other]) \cap Ideal!Backing(txn.snapshot) = {}
    <3>1. stored[other] # None /\ Accounts[other] = stored[other].snapshot
      BY <2>8 DEF Accounts
    <3>2. ASSUME NEW k \in BackingDeposits(stored[other].snapshot),
                 k \in BackingDeposits(txn.snapshot)
          PROVE  FALSE
      <4>1. k \in DepositKeys
        BY <2>3, <3>2 DEF BackingDeposits, Log
      <4>2. claims[k] = other
        BY <3>1, <3>2, <4>1 DEF StoreInv, ClaimsExact
      <4>3. txn.claims[k] = id
        BY <2>2, <3>2 DEF AllBound, Unbound
      <4> QED BY <2>2, <2>8, <4>1, <4>2, <4>3 DEF StoreInv, TransactionOK
    <3> QED BY <3>1, <3>2 DEF Ideal!Backing, BackingDeposits
  <2>9. Ideal!Write(id)
    BY <2>3, <2>5, <2>6, <2>7, <2>8 DEF Ideal!Write, Ideal!Unshared, Log
  <2> QED BY <2>3, <2>9 DEF Ideal!Next
<1> QED BY <1>1, <1>2

\* The store implements the log it promises (credit_store.rs:19-25).
THEOREM StoreImplementsLog == Spec => ImplementsCreditLog
<1>1. Init => Ideal!Init
  BY DEF Init, Ideal!Init, Accounts
<1> QED BY <1>1, InitStore, NextStore, RefinementStep, PTL DEF Spec, ImplementsCreditLog, Ideal!Spec
=============================================================================
