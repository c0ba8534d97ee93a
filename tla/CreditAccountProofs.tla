------------------------ MODULE CreditAccountProofs ------------------------
(***************************************************************************)
(* For every policy, word size and set of inputs: the account's type       *)
(* invariant, its exposure caps, the conservation of backed value, the     *)
(* finality of its records, what its records add up to, and when its       *)
(* snapshot is accepted by a restore.                                      *)
(*                                                                         *)
(* The caps and the conservation laws speak about one ledger of one issuer *)
(* at a time, so the inductive invariant says of every ledger what the     *)
(* lemmas below say every operation of ledger.rs keeps.                    *)
(*                                                                         *)
(* The other theorems compare the ledgers with sums over the records.  A   *)
(* sum over a map of records is its weight, each record having the weight  *)
(* it has in that sum; storing one record adds its weight (SumTheorems).   *)
(* The replay of the events is compared with a history of the ledgers, one *)
(* entry per event, whose last entry is the ledgers of the account.        *)
(***************************************************************************)
EXTENDS CreditSnapshot, SumTheorems

PeerOK(l, p) ==
    /\ l \in PeerCreditLedger
    /\ l.outstanding <= p.max_peer_credit
    /\ l.offline <= p.max_offline_peer_credit
    /\ l.offline <= l.outstanding

ClosedOK(l, p) ==
    /\ l \in ClosedLoopLedger
    /\ l.claimable <= p.max_closed_loop
    /\ l.deposited = l.available + l.claimable + l.consumed

ReserveOK(l, p) ==
    /\ l \in WithdrawableReserveLedger
    /\ l.redeemable + l.pending <= p.max_withdrawable
    /\ l.deposited = l.available + l.redeemable + l.pending + l.settled

LedgersOK ==
    /\ totalPeer \in U64 /\ totalPeer <= MaxTotalPeerCredit
    /\ peer \in [Issuers -> PeerCreditLedger]
    /\ closed \in [Issuers -> ClosedLoopLedger]
    /\ reserve \in [Issuers -> WithdrawableReserveLedger]
    /\ \A i \in Issuers : PeerOK(peer[i], Policy[i])
    /\ \A i \in Issuers : ClosedOK(closed[i], Policy[i])
    /\ \A i \in Issuers : ReserveOK(reserve[i], Policy[i])

RecordsOK ==
    /\ revision \in U64
    /\ receipts \in [Ids -> Claims \cup {None}]
    /\ events \in Seq(PeerCreditEvent)
    /\ novations \in [Ids -> Novations \cup {None}]
    /\ deposits \in [DepositKeys -> Deposits \cup {None}]
    /\ backed \in [Ids -> BackedSettlements \cup {None}]
    /\ consumptions \in [Ids -> Consumptions \cup {None}]
    /\ settlements \in [Ids -> SettlementRecord \cup {None}]
    /\ \A id \in Ids : settlements[id] # None =>
          /\ settlements[id].request.issuer \in Issuers
          /\ settlements[id].authorization.reserved =
                settlements[id].request.amount + settlements[id].request.max_fee

\* The inductive invariant.
AccountInv == LedgersOK /\ RecordsOK

-----------------------------------------------------------------------------
(* What each ledger operation keeps.                                       *)

\* A credit that passed its checks and the caps leaves a ledger within them
\* (PeerCreditLedger::credit, apply_peer_credit).
LEMMA CreditKeeps ==
    ASSUME NEW p \in IssuerPolicy, NEW l, PeerOK(l, p), NEW amount \in U64,
           NEW offline \in BOOLEAN, CanCredit(l, amount, offline),
           Credit(l, amount, offline).outstanding <= p.max_peer_credit,
           Credit(l, amount, offline).offline <= p.max_offline_peer_credit
    PROVE  PeerOK(Credit(l, amount, offline), p)
BY PolicyAssumption DEF PeerOK, CanCredit, Credit, PeerCreditLedger, U64, IssuerPolicy

\* A debit keeps the offline part within what is left (PeerCreditLedger::debit).
LEMMA DebitKeeps ==
    ASSUME NEW p \in IssuerPolicy, NEW l, PeerOK(l, p), NEW amount \in U64,
           CanDebit(l, amount)
    PROVE  PeerOK(Debit(l, amount), p)
BY PolicyAssumption DEF PeerOK, CanDebit, Debit, PeerCreditLedger, U64, IssuerPolicy

\* The operations of ClosedLoopLedger.
LEMMA ClosedKeeps ==
    ASSUME NEW p \in IssuerPolicy, NEW l, ClosedOK(l, p), NEW amount \in U64
    PROVE  /\ CanDeposit(l, amount) => ClosedOK(DepositClosed(l, amount), p)
           /\ CanAllocateClosed(l, amount) /\ l.claimable + amount <= p.max_closed_loop
                 => ClosedOK(AllocateClosed(l, amount), p)
           /\ CanConsume(l, amount) => ClosedOK(Consume(l, amount), p)
<1> USE PolicyAssumption DEF ClosedOK, ClosedLoop, ClosedLoopLedger, U64, IssuerPolicy
<1>1. CanDeposit(l, amount) => ClosedOK(DepositClosed(l, amount), p)
  BY DEF CanDeposit, DepositClosed
<1>2. CanAllocateClosed(l, amount) /\ l.claimable + amount <= p.max_closed_loop
        => ClosedOK(AllocateClosed(l, amount), p)
  BY DEF CanAllocateClosed, AllocateClosed
<1>3. CanConsume(l, amount) => ClosedOK(Consume(l, amount), p)
  BY DEF CanConsume, Consume
<1> QED  BY <1>1, <1>2, <1>3

\* The operations of WithdrawableReserveLedger.
LEMMA ReserveKeeps ==
    ASSUME NEW p \in IssuerPolicy, NEW l, ReserveOK(l, p), NEW amount \in U64
    PROVE  /\ CanDeposit(l, amount) => ReserveOK(DepositReserve(l, amount), p)
           /\ CanAllocateReserve(l, amount)
                 /\ l.redeemable + l.pending + amount <= p.max_withdrawable
                 => ReserveOK(AllocateReserve(l, amount), p)
           /\ CanAuthorize(l, amount) => ReserveOK(Authorize(l, amount), p)
           /\ CanComplete(l, amount) => ReserveOK(Complete(l, amount), p)
           /\ CanCancel(l, amount) => ReserveOK(Cancel(l, amount), p)
<1> USE PolicyAssumption DEF ReserveOK, Reserve, WithdrawableReserveLedger, U64, IssuerPolicy
<1>1. CanDeposit(l, amount) => ReserveOK(DepositReserve(l, amount), p)
  BY DEF CanDeposit, DepositReserve
<1>2. CanAllocateReserve(l, amount)
        /\ l.redeemable + l.pending + amount <= p.max_withdrawable
        => ReserveOK(AllocateReserve(l, amount), p)
  BY DEF CanAllocateReserve, AllocateReserve
<1>3. CanAuthorize(l, amount) => ReserveOK(Authorize(l, amount), p)
  BY DEF CanAuthorize, Authorize
<1>4. CanComplete(l, amount) => ReserveOK(Complete(l, amount), p)
  BY DEF CanComplete, Complete
<1>5. CanCancel(l, amount) => ReserveOK(Cancel(l, amount), p)
  BY DEF CanCancel, Cancel
<1> QED  BY <1>1, <1>2, <1>3, <1>4, <1>5

-----------------------------------------------------------------------------
(* One step of the account.                                                *)

\* A new account satisfies the invariant (CreditAccount::new).
LEMMA InitInv == Init => AccountInv
<1> SUFFICES ASSUME Init PROVE AccountInv
  OBVIOUS
<1> USE DEF Init
<1>1. LedgersOK
  BY PolicyAssumption
     DEF LedgersOK, PeerOK, ClosedOK, ReserveOK, PeerCreditLedger, ClosedLoopLedger,
         WithdrawableReserveLedger, ClosedLoop, Reserve, U64, IssuerPolicy, ValidPolicy
<1>2. RecordsOK
  BY PolicyAssumption DEF RecordsOK, U64
<1> QED  BY <1>1, <1>2 DEF AccountInv

\* record_backing_deposit.
LEMMA DepositStep ==
    ASSUME AccountInv, NEW d \in Deposits, NEW auth \in Peers, RecordBackingDeposit(d, auth)
    PROVE  AccountInv'
<1> USE DEF AccountInv
<1>1. d.issuer \in Issuers /\ d.amount \in U64 /\ DepositKey(d) \in DepositKeys
  BY InputAssumption DEF RecordBackingDeposit, ValidBackingDeposit, BackingDeposit, DepositKeys
<1>2. Policy[d.issuer] \in IssuerPolicy
  BY <1>1, PolicyAssumption
<1>3. LedgersOK'
  <2>1. CASE d.value_class = "ClosedLoopDeposit"
    <3>1. ClosedOK(DepositClosed(closed[d.issuer], d.amount), Policy[d.issuer])
      BY <1>1, <1>2, <2>1, ClosedKeeps DEF RecordBackingDeposit, LedgersOK
    <3> QED  BY <1>1, <2>1, <3>1 DEF RecordBackingDeposit, LedgersOK, ClosedOK
  <2>2. CASE d.value_class = "ReserveBackedWithdrawable"
    <3>1. ReserveOK(DepositReserve(reserve[d.issuer], d.amount), Policy[d.issuer])
      BY <1>1, <1>2, <2>2, ReserveKeeps DEF RecordBackingDeposit, LedgersOK
    <3> QED  BY <1>1, <2>2, <3>1 DEF RecordBackingDeposit, LedgersOK, ReserveOK
  <2> QED  BY <2>1, <2>2 DEF RecordBackingDeposit
<1>4. RecordsOK'
  BY <1>1, PolicyAssumption DEF RecordBackingDeposit, RecordsOK, NextRevision, U64
<1> QED  BY <1>3, <1>4

\* apply_receipt, one case per value class.
LEMMA ReceiptStep ==
    ASSUME AccountInv, NEW c \in Claims, NEW auth \in Peers, NEW mode \in AcceptanceMode,
           NEW t \in Times, ApplyReceipt(c, auth, mode, t)
    PROVE  AccountInv'
<1> USE DEF AccountInv
<1>1. c.issuer \in Issuers /\ c.amount \in U64 /\ c.receipt_id \in Ids
  BY InputAssumption DEF ApplyReceipt, ValidReceiptIdentity, ServiceReceiptClaim
<1>2. Policy[c.issuer] \in IssuerPolicy
  BY <1>1, PolicyAssumption
<1>3. CASE c.value_class = "PeerCredit"
  <2>1. ApplyPeerCredit(c, mode)
    BY <1>3 DEF ApplyReceipt
  <2>2. PeerOK(Credit(peer[c.issuer], c.amount, mode = "OfflineDeferred"), Policy[c.issuer])
    BY <1>1, <1>2, <2>1, CreditKeeps DEF ApplyPeerCredit, LedgersOK
  <2>3. LedgersOK'
    BY <1>1, <2>1, <2>2, PolicyAssumption DEF ApplyPeerCredit, LedgersOK, PeerOK, U64
  <2>4. Event("Receipt", c.receipt_id, mode) \in PeerCreditEvent
    BY <1>1, PolicyAssumption
       DEF ApplyReceipt, NextRevision, Event, PeerCreditEvent, RecordsOK, U64
  <2>5. RecordsOK'
    BY <1>1, <2>1, <2>4, PolicyAssumption
       DEF ApplyReceipt, ApplyPeerCredit, RecordsOK, NextRevision, U64
  <2> QED  BY <2>3, <2>5
<1>4. CASE c.value_class = "ClosedLoopDeposit"
  <2>1. ApplyClosedLoop(c)
    BY <1>4 DEF ApplyReceipt
  <2>2. ClosedOK(AllocateClosed(closed[c.issuer], c.amount), Policy[c.issuer])
    BY <1>1, <1>2, <2>1, ClosedKeeps DEF ApplyClosedLoop, ClosedLoopCapacity, LedgersOK
  <2>3. LedgersOK'
    BY <1>1, <2>1, <2>2 DEF ApplyClosedLoop, LedgersOK, ClosedOK
  <2>4. RecordsOK'
    BY <1>1, <2>1, PolicyAssumption
       DEF ApplyReceipt, ApplyClosedLoop, RecordsOK, NextRevision, U64
  <2> QED  BY <2>3, <2>4
<1>5. CASE c.value_class = "ReserveBackedWithdrawable"
  <2>1. ApplyWithdrawable(c)
    BY <1>5 DEF ApplyReceipt
  <2>2. ReserveOK(AllocateReserve(reserve[c.issuer], c.amount), Policy[c.issuer])
    BY <1>1, <1>2, <2>1, ReserveKeeps DEF ApplyWithdrawable, WithdrawableCapacity, LedgersOK
  <2>3. LedgersOK'
    BY <1>1, <2>1, <2>2 DEF ApplyWithdrawable, LedgersOK, ReserveOK
  <2>4. RecordsOK'
    BY <1>1, <2>1, PolicyAssumption
       DEF ApplyReceipt, ApplyWithdrawable, RecordsOK, NextRevision, U64
  <2> QED  BY <2>3, <2>4
<1> QED  BY <1>3, <1>4, <1>5 DEF ApplyReceipt

\* novate_peer_credit: two ledgers change, the source first.
LEMMA NovationStep ==
    ASSUME AccountInv, NEW n \in Novations, NEW auth \in Peers, NEW t \in Times,
           NovatePeerCredit(n, auth, t)
    PROVE  AccountInv'
<1> USE DEF AccountInv
<1>1. /\ n.from_issuer \in Issuers /\ n.to_issuer \in Issuers
      /\ n.from_issuer # n.to_issuer
      /\ n.amount \in U64 /\ n.novation_id \in Ids
  BY InputAssumption DEF NovatePeerCredit, ValidNovationIdentity, CreditNovation
<1>2. Policy[n.from_issuer] \in IssuerPolicy /\ Policy[n.to_issuer] \in IssuerPolicy
  BY <1>1, PolicyAssumption
<1>3. PeerOK(Debit(peer[n.from_issuer], n.amount), Policy[n.from_issuer])
  BY <1>1, <1>2, DebitKeeps DEF NovatePeerCredit, LedgersOK
<1>4. PeerOK(Credit(peer[n.to_issuer], n.amount, FALSE), Policy[n.to_issuer])
  <2>1. PeerOK(peer[n.to_issuer], Policy[n.to_issuer])
    BY <1>1 DEF LedgersOK
  <2>2. Credit(peer[n.to_issuer], n.amount, FALSE).outstanding
          <= Policy[n.to_issuer].max_peer_credit
    BY DEF NovatePeerCredit, Credit
  <2>3. Credit(peer[n.to_issuer], n.amount, FALSE).offline
          <= Policy[n.to_issuer].max_offline_peer_credit
    BY <2>1 DEF PeerOK, Credit
  <2> QED  BY <1>1, <1>2, <2>1, <2>2, <2>3, CreditKeeps DEF NovatePeerCredit
<1>5. LedgersOK'
  BY <1>1, <1>3, <1>4 DEF NovatePeerCredit, LedgersOK, PeerOK
<1>6. Event("Novation", n.novation_id, "Online") \in PeerCreditEvent
  BY <1>1, PolicyAssumption
     DEF NovatePeerCredit, NextRevision, Event, PeerCreditEvent, AcceptanceMode, RecordsOK, U64
<1>7. RecordsOK'
  BY <1>1, <1>6, PolicyAssumption DEF NovatePeerCredit, RecordsOK, NextRevision, U64
<1> QED  BY <1>5, <1>7

\* settle_peer_credit_with_backing: the debit of one issuer's credit and the
\* allocation of another issuer's backing.
LEMMA BackedSettlementStep ==
    ASSUME AccountInv, NEW s \in BackedSettlements, NEW auth \in Peers, NEW t \in Times,
           SettlePeerCreditWithBacking(s, auth, t)
    PROVE  AccountInv'
<1> USE DEF AccountInv
<1>1. /\ s.from_issuer \in Issuers /\ s.backing_issuer \in Issuers
      /\ s.amount \in U64 /\ s.settlement_id \in Ids
  BY InputAssumption
     DEF SettlePeerCreditWithBacking, ValidBackedSettlementIdentity, BackedCreditSettlement
<1>2. Policy[s.from_issuer] \in IssuerPolicy /\ Policy[s.backing_issuer] \in IssuerPolicy
  BY <1>1, PolicyAssumption
<1>3. PeerOK(Debit(peer[s.from_issuer], s.amount), Policy[s.from_issuer])
  BY <1>1, <1>2, DebitKeeps DEF SettlePeerCreditWithBacking, LedgersOK
<1>4. totalPeer' \in U64 /\ totalPeer' <= MaxTotalPeerCredit
  BY <1>1, PolicyAssumption DEF SettlePeerCreditWithBacking, LedgersOK, U64
<1>5. LedgersOK'
  <2>1. CASE s.value_class = "ClosedLoopDeposit"
    <3>1. ClosedOK(AllocateClosed(closed[s.backing_issuer], s.amount), Policy[s.backing_issuer])
      BY <1>1, <1>2, <2>1, ClosedKeeps
         DEF SettlePeerCreditWithBacking, ClosedLoopCapacity, LedgersOK
    <3> QED
      BY <1>1, <1>3, <1>4, <2>1, <3>1
         DEF SettlePeerCreditWithBacking, LedgersOK, PeerOK, ClosedOK
  <2>2. CASE s.value_class = "ReserveBackedWithdrawable"
    <3>1. ReserveOK(AllocateReserve(reserve[s.backing_issuer], s.amount), Policy[s.backing_issuer])
      BY <1>1, <1>2, <2>2, ReserveKeeps
         DEF SettlePeerCreditWithBacking, WithdrawableCapacity, LedgersOK
    <3> QED
      BY <1>1, <1>3, <1>4, <2>2, <3>1
         DEF SettlePeerCreditWithBacking, LedgersOK, PeerOK, ReserveOK
  <2> QED  BY <2>1, <2>2 DEF SettlePeerCreditWithBacking
<1>6. Event("BackedSettlement", s.settlement_id, "Online") \in PeerCreditEvent
  BY <1>1, PolicyAssumption
     DEF SettlePeerCreditWithBacking, NextRevision, Event, PeerCreditEvent, AcceptanceMode,
         RecordsOK, U64
<1>7. RecordsOK'
  BY <1>1, <1>6, PolicyAssumption DEF SettlePeerCreditWithBacking, RecordsOK, NextRevision, U64
<1> QED  BY <1>5, <1>7

\* consume_closed_loop.
LEMMA ConsumptionStep ==
    ASSUME AccountInv, NEW c \in Consumptions, NEW auth \in Peers, ConsumeClosedLoop(c, auth)
    PROVE  AccountInv'
<1> USE DEF AccountInv
<1>1. c.issuer \in Issuers /\ c.amount \in U64 /\ c.consumption_id \in Ids
  BY InputAssumption DEF ConsumeClosedLoop, ValidClosedLoopConsumption, ClosedLoopConsumption
<1>2. ClosedOK(Consume(closed[c.issuer], c.amount), Policy[c.issuer])
  BY <1>1, PolicyAssumption, ClosedKeeps DEF ConsumeClosedLoop, LedgersOK
<1>3. LedgersOK'
  BY <1>1, <1>2 DEF ConsumeClosedLoop, LedgersOK, ClosedOK
<1>4. RecordsOK'
  BY <1>1, PolicyAssumption DEF ConsumeClosedLoop, RecordsOK, NextRevision, U64
<1> QED  BY <1>3, <1>4

\* authorize_external_settlement.
LEMMA AuthorizeStep ==
    ASSUME AccountInv, NEW r \in SettlementRequests, NEW auth \in Peers, NEW t \in Times,
           AuthorizeExternalSettlement(r, auth, t)
    PROVE  AccountInv'
<1> USE DEF AccountInv
<1> DEFINE reserved == r.amount + r.max_fee
           record == [request |-> r,
                      authorization |-> [reserved |-> reserved, authorized_at |-> t],
                      state |-> "Pending", fee |-> 0]
<1>1. /\ r.issuer \in Issuers /\ r.amount \in U64 /\ r.max_fee \in U64
      /\ r.settlement_id \in Ids /\ t \in U64
  BY InputAssumption
     DEF AuthorizeExternalSettlement, ValidSettlementIdentity, ExternalSettlementRequest
<1>2. reserved \in U64
  BY <1>1, PolicyAssumption DEF AuthorizeExternalSettlement, U64
<1>3. ReserveOK(Authorize(reserve[r.issuer], reserved), Policy[r.issuer])
  BY <1>1, <1>2, PolicyAssumption, ReserveKeeps DEF AuthorizeExternalSettlement, LedgersOK
<1>4. LedgersOK'
  BY <1>1, <1>3 DEF AuthorizeExternalSettlement, LedgersOK, ReserveOK
<1>5. record \in SettlementRecord
  BY <1>1, <1>2, PolicyAssumption DEF SettlementRecord, ExternalSettlementAuthorization, U64
<1>6. settlements' = [settlements EXCEPT ![r.settlement_id] = record]
  BY DEF AuthorizeExternalSettlement
<1> HIDE DEF record
<1>7. \A id \in Ids : settlements'[id] # None =>
          /\ settlements'[id].request.issuer \in Issuers
          /\ settlements'[id].authorization.reserved =
                settlements'[id].request.amount + settlements'[id].request.max_fee
  BY <1>1, <1>6 DEF record, RecordsOK
<1>8. RecordsOK'
  BY <1>1, <1>5, <1>6, <1>7, PolicyAssumption
     DEF AuthorizeExternalSettlement, RecordsOK, NextRevision, U64
<1> QED  BY <1>4, <1>8

\* A pending record is a settlement record of an accepted issuer, and what
\* finishing it stores is one again.
LEMMA PendingRecord ==
    ASSUME AccountInv, NEW id \in Ids, Pending(id), NEW fee \in U64,
           NEW state \in {"Completed", "Cancelled"}
    PROVE  /\ settlements[id] \in SettlementRecord
           /\ settlements[id].request \in SettlementRequests
           /\ settlements[id].request.issuer \in Issuers
           /\ settlements[id].request.amount \in U64
           /\ settlements[id].request.max_fee \in U64
           /\ settlements[id].authorization.reserved \in U64
           /\ Finished(settlements[id], state, fee) \in SettlementRecord
<1>1. settlements[id] \in SettlementRecord /\ settlements[id].request.issuer \in Issuers
  BY DEF AccountInv, RecordsOK, Pending
<1>2. settlements[id].request \in ExternalSettlementRequest
  BY <1>1, InputAssumption DEF SettlementRecord
<1> QED
  BY <1>1, <1>2
     DEF SettlementRecord, ExternalSettlementRequest, ExternalSettlementAuthorization, Finished

\* The records after a settlement is finished.
LEMMA FinishedRecords ==
    ASSUME AccountInv, NEW id \in Ids, Pending(id), NEW fee \in U64,
           NEW state \in {"Completed", "Cancelled"}, NextRevision,
           settlements' = [settlements EXCEPT ![id] = Finished(@, state, fee)],
           revision' = revision + 1,
           UNCHANGED <<receipts, events, novations, deposits, backed, consumptions>>
    PROVE  RecordsOK'
<1>1. settlements[id] # None
  BY DEF Pending
<1>2. \A x \in Ids : settlements'[x] # None =>
          /\ settlements'[x].request.issuer \in Issuers
          /\ settlements'[x].authorization.reserved =
                settlements'[x].request.amount + settlements'[x].request.max_fee
  BY <1>1 DEF AccountInv, RecordsOK, Finished
<1>3. settlements' \in [Ids -> SettlementRecord \cup {None}]
  BY PendingRecord DEF AccountInv, RecordsOK
<1> QED
  BY <1>2, <1>3, PolicyAssumption DEF AccountInv, RecordsOK, NextRevision, U64

\* complete_external_settlement: complete(spent), then cancel(unused).
LEMMA CompleteStep ==
    ASSUME AccountInv, NEW id \in Ids, NEW fee \in Fees, CompleteExternalSettlement(id, fee)
    PROVE  AccountInv'
<1> DEFINE request == settlements[id].request
           ledger == reserve[request.issuer]
           spent == request.amount + fee
           unused == request.max_fee - fee
           completed == Complete(ledger, spent)
           final == IF unused > 0 THEN Cancel(completed, unused) ELSE completed
           policy == Policy[request.issuer]
<1>1. Pending(id) /\ fee <= request.max_fee /\ NextRevision /\ CanCompleteSettlement(id, fee)
  BY DEF CompleteExternalSettlement
<1>2. fee \in U64
  BY InputAssumption
<1>3. /\ request.issuer \in Issuers
      /\ request.amount \in U64 /\ request.max_fee \in U64
  BY <1>1, <1>2, PendingRecord
<1>4. policy \in IssuerPolicy /\ ReserveOK(ledger, policy)
  BY <1>3, PolicyAssumption DEF AccountInv, LedgersOK
<1>5. spent \in U64 /\ unused \in U64
  BY <1>1, <1>2, <1>3, PolicyAssumption DEF CanCompleteSettlement, U64
<1>6. ReserveOK(completed, policy)
  BY <1>1, <1>4, <1>5, ReserveKeeps DEF CanCompleteSettlement
<1>7. ReserveOK(final, policy)
  <2>1. CASE unused > 0
    <3>1. CanCancel(completed, unused)
      BY <1>1, <1>2, <1>3, <2>1, PolicyAssumption DEF CanCompleteSettlement, U64
    <3>2. ReserveOK(Cancel(completed, unused), policy)
      BY <1>4, <1>5, <1>6, <3>1, ReserveKeeps
    <3> QED  BY <2>1, <3>2
  <2>2. CASE ~(unused > 0)
    BY <1>6, <2>2
  <2> QED  BY <2>1, <2>2
<1>8. reserve' = [reserve EXCEPT ![request.issuer] = final]
  BY DEF CompleteExternalSettlement
<1>9. LedgersOK'
  <2> HIDE DEF final
  <2> QED
    BY <1>3, <1>7, <1>8 DEF CompleteExternalSettlement, AccountInv, LedgersOK, ReserveOK
<1>10. RecordsOK'
  <2>1. settlements' = [settlements EXCEPT ![id] = Finished(@, "Completed", fee)]
    BY DEF CompleteExternalSettlement
  <2> QED
    BY <1>1, <1>2, <2>1, FinishedRecords DEF CompleteExternalSettlement
<1> QED  BY <1>9, <1>10 DEF AccountInv

\* cancel_external_settlement.
LEMMA CancelStep ==
    ASSUME AccountInv, NEW id \in Ids, CancelExternalSettlement(id)
    PROVE  AccountInv'
<1> DEFINE issuer == settlements[id].request.issuer
           reserved == settlements[id].authorization.reserved
<1>1. Pending(id) /\ NextRevision /\ 0 \in U64
  BY PolicyAssumption DEF CancelExternalSettlement, U64
<1>2. issuer \in Issuers /\ reserved \in U64
  BY <1>1, PendingRecord
<1>3. ReserveOK(Cancel(reserve[issuer], reserved), Policy[issuer])
  BY <1>2, PolicyAssumption, ReserveKeeps DEF CancelExternalSettlement, AccountInv, LedgersOK
<1>4. LedgersOK'
  BY <1>2, <1>3 DEF CancelExternalSettlement, AccountInv, LedgersOK, ReserveOK
<1>5. RecordsOK'
  BY <1>1, FinishedRecords DEF CancelExternalSettlement
<1> QED  BY <1>4, <1>5 DEF AccountInv

\* Every step of the account keeps the invariant.
LEMMA NextInv == AccountInv /\ [Next]_vars => AccountInv'
<1> SUFFICES ASSUME AccountInv, [Next]_vars PROVE AccountInv'
  OBVIOUS
<1>1. CASE UNCHANGED vars
  BY <1>1 DEF vars, AccountInv, LedgersOK, RecordsOK
<1>2. CASE Next
  BY <1>2, DepositStep, ReceiptStep, NovationStep, BackedSettlementStep, ConsumptionStep,
     AuthorizeStep, CompleteStep, CancelStep DEF Next
<1> QED  BY <1>1, <1>2

-----------------------------------------------------------------------------
(* The theorems.                                                           *)

\* The inductive invariant holds in every reachable state.
THEOREM Invariance == Spec => []AccountInv
<1> QED  BY InitInv, NextInv, PTL DEF Spec

\* Every reachable account is well typed: no ledger operation wraps a u64.
THEOREM TypeCorrect == Spec => []TypeOK
<1>1. AccountInv => TypeOK
  BY DEF AccountInv, LedgersOK, RecordsOK, TypeOK
<1> QED  BY <1>1, Invariance, PTL

\* The policy's caps bound every exposure, for every policy and every
\* interleaving of operations.
THEOREM ExposureTheorem == Spec => []ExposureBounded
<1>1. AccountInv => ExposureBounded
  BY DEF AccountInv, LedgersOK, PeerOK, ClosedOK, ReserveOK, ExposureBounded
<1> QED  BY <1>1, Invariance, PTL

\* Backed value is conserved in both ledgers of every issuer.
THEOREM ConservationTheorem == Spec => []BackingConserved
<1>1. AccountInv => BackingConserved
  BY DEF AccountInv, LedgersOK, ClosedOK, ReserveOK, BackingConserved
<1> QED  BY <1>1, Invariance, PTL

\* Finishing a settlement keeps every record but the pending one it finishes.
LEMMA FinishKeeps ==
    ASSUME AccountInv, NEW id \in Ids, Pending(id), NEW fee \in U64,
           NEW state \in {"Completed", "Cancelled"},
           settlements' = [settlements EXCEPT ![id] = Finished(@, state, fee)],
           UNCHANGED <<receipts, novations, deposits, backed, consumptions>>
    PROVE  RecordsKept
<1>1. Finished(settlements[id], state, fee) # None
  BY PendingRecord, NoneAssumption
<1>2. \A x \in Ids : settlements[x] # None =>
          /\ settlements'[x] # None
          /\ settlements'[x].request = settlements[x].request
          /\ settlements'[x].authorization = settlements[x].authorization
          /\ settlements[x].state # "Pending" => settlements'[x] = settlements[x]
  BY <1>1 DEF AccountInv, RecordsOK, Pending, Finished
<1> QED  BY <1>2 DEF RecordsKept

\* No operation replaces or removes a stored record, and a settlement leaves
\* Pending at most once, for every set of inputs (retries and conflicts too).
THEOREM FinalityTheorem == Spec => RecordsAreFinal
<1>1. AccountInv /\ [Next]_vars => [RecordsKept]_vars
  <2> SUFFICES ASSUME AccountInv, Next PROVE RecordsKept
    OBVIOUS
  <2> USE DEF AccountInv, RecordsOK, RecordsKept
  <2>1. ASSUME NEW d \in Deposits, NEW auth \in Peers, RecordBackingDeposit(d, auth)
        PROVE  RecordsKept
    BY <2>1 DEF RecordBackingDeposit
  <2>2. ASSUME NEW c \in Claims, NEW auth \in Peers, NEW mode \in AcceptanceMode,
               NEW t \in Times, ApplyReceipt(c, auth, mode, t)
        PROVE  RecordsKept
    BY <2>2 DEF ApplyReceipt
  <2>3. ASSUME NEW n \in Novations, NEW auth \in Peers, NEW t \in Times,
               NovatePeerCredit(n, auth, t)
        PROVE  RecordsKept
    BY <2>3 DEF NovatePeerCredit
  <2>4. ASSUME NEW s \in BackedSettlements, NEW auth \in Peers, NEW t \in Times,
               SettlePeerCreditWithBacking(s, auth, t)
        PROVE  RecordsKept
    BY <2>4 DEF SettlePeerCreditWithBacking
  <2>5. ASSUME NEW c \in Consumptions, NEW auth \in Peers, ConsumeClosedLoop(c, auth)
        PROVE  RecordsKept
    BY <2>5 DEF ConsumeClosedLoop
  <2>6. ASSUME NEW r \in SettlementRequests, NEW auth \in Peers, NEW t \in Times,
               AuthorizeExternalSettlement(r, auth, t)
        PROVE  RecordsKept
    BY <2>6 DEF AuthorizeExternalSettlement
  <2>7. ASSUME NEW id \in Ids, NEW fee \in Fees, CompleteExternalSettlement(id, fee)
        PROVE  RecordsKept
    BY <2>7, FinishKeeps, InputAssumption DEF CompleteExternalSettlement
  <2>8. ASSUME NEW id \in Ids, CancelExternalSettlement(id)
        PROVE  RecordsKept
    <3>1. 0 \in U64
      BY PolicyAssumption DEF U64
    <3> QED  BY <2>8, <3>1, FinishKeeps DEF CancelExternalSettlement
  <2> QED
    BY <2>1, <2>2, <2>3, <2>4, <2>5, <2>6, <2>7, <2>8 DEF Next
<1> QED  BY <1>1, Invariance, PTL DEF Spec, RecordsAreFinal
-----------------------------------------------------------------------------
(* The aggregate exposure is the sum of the issuers' exposures.             *)

OutstandingSum(p) == SumFunctionOnSet([i \in Issuers |-> p[i].outstanding], Issuers)

\* There are finitely many issuers, as there are finitely many peers.
LEMMA IssuersFinite == IsFiniteSet(Issuers)
BY IdsAssumption, PolicyAssumption, FS_Subset

\* One ledger replaced changes the sum by the difference of its two values.
LEMMA OutstandingChange ==
    ASSUME NEW p \in [Issuers -> PeerCreditLedger], NEW i \in Issuers,
           NEW l \in PeerCreditLedger
    PROVE  /\ [p EXCEPT ![i] = l] \in [Issuers -> PeerCreditLedger]
           /\ OutstandingSum([p EXCEPT ![i] = l])
                = OutstandingSum(p) - p[i].outstanding + l.outstanding
           /\ OutstandingSum(p) \in Nat
<1> DEFINE q == [p EXCEPT ![i] = l]
           f == [j \in Issuers |-> p[j].outstanding]
           g == [j \in Issuers |-> q[j].outstanding]
<1>1. q \in [Issuers -> PeerCreditLedger]
  OBVIOUS
<1>2. \A j \in Issuers : f[j] \in Nat /\ g[j] \in Nat
  BY <1>1, PolicyAssumption DEF PeerCreditLedger, U64
<1>3. \A j \in Issuers : j # i => f[j] = g[j]
  OBVIOUS
<1>4. f[i] = p[i].outstanding /\ g[i] = l.outstanding
  OBVIOUS
<1> HIDE DEF f, g
<1>5. \A j \in Issuers : f[j] \in Int /\ g[j] \in Int
  BY <1>2
<1>6. SumFunctionOnSet(g, Issuers) = SumFunctionOnSet(f, Issuers) - f[i] + g[i]
  BY <1>3, <1>5, IssuersFinite, SumChange
<1>7. SumFunctionOnSet(f, Issuers) \in Nat
  BY <1>2, IssuersFinite, SumType
<1>8. OutstandingSum(p) = SumFunctionOnSet(f, Issuers)
  BY Zenon DEF OutstandingSum, f
<1>9. OutstandingSum(q) = SumFunctionOnSet(g, Issuers)
  BY Zenon DEF OutstandingSum, g
<1> QED  BY <1>1, <1>4, <1>6, <1>7, <1>8, <1>9

\* A debit and a credit change the outstanding amount by what they say, and
\* leave a ledger.
LEMMA OutstandingMoves ==
    ASSUME NEW l \in PeerCreditLedger, NEW amount \in U64
    PROVE  /\ l.outstanding \in Nat
           /\ CanDebit(l, amount) => /\ Debit(l, amount) \in PeerCreditLedger
                                     /\ Debit(l, amount).outstanding = l.outstanding - amount
           /\ \A offline \in BOOLEAN : CanCredit(l, amount, offline) =>
                 /\ Credit(l, amount, offline) \in PeerCreditLedger
                 /\ Credit(l, amount, offline).outstanding = l.outstanding + amount
BY PolicyAssumption DEF CanDebit, Debit, CanCredit, Credit, PeerCreditLedger, U64

\* The sum of the new account's ledgers.
LEMMA InitTotal == Init => TotalIsSum
<1> SUFFICES ASSUME Init PROVE TotalIsSum
  OBVIOUS
<1> DEFINE f == [i \in Issuers |-> peer[i].outstanding]
<1>1. \A i \in Issuers : f[i] = 0
  BY DEF Init
<1> HIDE DEF f
<1>2. SumFunctionOnSet(f, Issuers) = 0
  BY <1>1, IssuersFinite, SumZero
<1> QED  BY <1>2 DEF TotalIsSum, Init, f

\* What one step does to the ledgers and to the total, seen by their sum.
LEMMA NextTotal ==
    ASSUME AccountInv, TotalIsSum, [Next]_vars
    PROVE  TotalIsSum'
<1>0. /\ peer \in [Issuers -> PeerCreditLedger]
      /\ totalPeer \in Nat
      /\ totalPeer = OutstandingSum(peer)
  BY PolicyAssumption DEF AccountInv, LedgersOK, TotalIsSum, OutstandingSum, U64
<1>1. SUFFICES totalPeer' = OutstandingSum(peer')
  BY DEF TotalIsSum, OutstandingSum
<1>2. CASE UNCHANGED <<totalPeer, peer>>
  BY <1>0, <1>2
<1>3. ASSUME NEW c \in Claims, NEW auth \in Peers, NEW mode \in AcceptanceMode,
             NEW t \in Times, ApplyReceipt(c, auth, mode, t),
             c.value_class = "PeerCredit"
      PROVE  totalPeer' = OutstandingSum(peer')
  <2>1. c.issuer \in Issuers /\ c.amount \in U64 /\ c.amount \in Nat
    BY <1>3, InputAssumption, PolicyAssumption
       DEF ApplyReceipt, ValidReceiptIdentity, ServiceReceiptClaim, U64
  <2>2. PICK offline \in BOOLEAN : offline = (mode = "OfflineDeferred")
    OBVIOUS
  <2> DEFINE grown == Credit(peer[c.issuer], c.amount, offline)
  <2>3. /\ CanCredit(peer[c.issuer], c.amount, offline)
        /\ peer' = [peer EXCEPT ![c.issuer] = grown]
        /\ totalPeer' = totalPeer + c.amount
    BY <1>3, <2>2 DEF ApplyReceipt, ApplyPeerCredit
  <2>4. peer[c.issuer] \in PeerCreditLedger
    BY <1>0, <2>1
  <2>5. /\ grown \in PeerCreditLedger
        /\ grown.outstanding = peer[c.issuer].outstanding + c.amount
        /\ peer[c.issuer].outstanding \in Nat
    BY <2>1, <2>3, <2>4, OutstandingMoves
  <2> HIDE DEF grown
  <2>6. OutstandingSum([peer EXCEPT ![c.issuer] = grown])
          = OutstandingSum(peer) - peer[c.issuer].outstanding + grown.outstanding
    BY <1>0, <2>1, <2>5, OutstandingChange
  <2> QED  BY <1>0, <2>1, <2>3, <2>5, <2>6
<1>4. ASSUME NEW n \in Novations, NEW auth \in Peers, NEW t \in Times,
             NovatePeerCredit(n, auth, t)
      PROVE  totalPeer' = OutstandingSum(peer')
  <2>1. /\ n.from_issuer \in Issuers /\ n.to_issuer \in Issuers
        /\ n.from_issuer # n.to_issuer
        /\ n.amount \in U64 /\ n.amount \in Nat
    BY <1>4, InputAssumption, PolicyAssumption
       DEF NovatePeerCredit, ValidNovationIdentity, CreditNovation, U64
  <2> DEFINE left == Debit(peer[n.from_issuer], n.amount)
             grown == Credit(peer[n.to_issuer], n.amount, FALSE)
             between == [peer EXCEPT ![n.from_issuer] = left]
  <2>2. /\ CanDebit(peer[n.from_issuer], n.amount)
        /\ CanCredit(peer[n.to_issuer], n.amount, FALSE)
        /\ peer' = [between EXCEPT ![n.to_issuer] = grown]
        /\ totalPeer' = totalPeer
    BY <1>4 DEF NovatePeerCredit
  <2>3. peer[n.from_issuer] \in PeerCreditLedger /\ peer[n.to_issuer] \in PeerCreditLedger
    BY <1>0, <2>1
  <2>4. /\ left \in PeerCreditLedger /\ grown \in PeerCreditLedger
        /\ left.outstanding = peer[n.from_issuer].outstanding - n.amount
        /\ grown.outstanding = peer[n.to_issuer].outstanding + n.amount
        /\ peer[n.from_issuer].outstanding \in Nat
        /\ peer[n.to_issuer].outstanding \in Nat
    BY <2>1, <2>2, <2>3, OutstandingMoves
  <2>5. between[n.to_issuer] = peer[n.to_issuer]
    BY <1>0, <2>1
  <2> HIDE DEF left, grown
  <2>6. /\ between \in [Issuers -> PeerCreditLedger]
        /\ OutstandingSum(between)
             = OutstandingSum(peer) - peer[n.from_issuer].outstanding + left.outstanding
        /\ OutstandingSum(peer) \in Nat
    BY <1>0, <2>1, <2>4, OutstandingChange
  <2> HIDE DEF between
  <2>7. OutstandingSum([between EXCEPT ![n.to_issuer] = grown])
          = OutstandingSum(between) - between[n.to_issuer].outstanding + grown.outstanding
    BY <2>1, <2>4, <2>6, OutstandingChange
  <2> QED  BY <1>0, <2>1, <2>2, <2>4, <2>5, <2>6, <2>7
<1>5. ASSUME NEW s \in BackedSettlements, NEW auth \in Peers, NEW t \in Times,
             SettlePeerCreditWithBacking(s, auth, t)
      PROVE  totalPeer' = OutstandingSum(peer')
  <2>1. s.from_issuer \in Issuers /\ s.amount \in U64 /\ s.amount \in Nat
    BY <1>5, InputAssumption, PolicyAssumption
       DEF SettlePeerCreditWithBacking, ValidBackedSettlementIdentity,
           BackedCreditSettlement, U64
  <2>2. /\ CanDebit(peer[s.from_issuer], s.amount)
        /\ peer' = [peer EXCEPT ![s.from_issuer] = Debit(peer[s.from_issuer], s.amount)]
        /\ totalPeer' = totalPeer - s.amount
    BY <1>5 DEF SettlePeerCreditWithBacking
  <2>3. peer[s.from_issuer] \in PeerCreditLedger
    BY <1>0, <2>1
  <2>4. /\ Debit(peer[s.from_issuer], s.amount) \in PeerCreditLedger
        /\ Debit(peer[s.from_issuer], s.amount).outstanding
             = peer[s.from_issuer].outstanding - s.amount
        /\ peer[s.from_issuer].outstanding \in Nat
    BY <2>1, <2>2, <2>3, OutstandingMoves
  <2>5. OutstandingSum([peer EXCEPT ![s.from_issuer] = Debit(peer[s.from_issuer], s.amount)])
          = OutstandingSum(peer) - peer[s.from_issuer].outstanding
              + Debit(peer[s.from_issuer], s.amount).outstanding
    BY <1>0, <2>1, <2>4, OutstandingChange
  <2> QED  BY <1>0, <2>1, <2>2, <2>4, <2>5
<1>6. ASSUME NEW c \in Claims, NEW auth \in Peers, NEW mode \in AcceptanceMode,
             NEW t \in Times, ApplyReceipt(c, auth, mode, t),
             c.value_class # "PeerCredit"
      PROVE  UNCHANGED <<totalPeer, peer>>
  BY <1>6 DEF ApplyReceipt, ApplyClosedLoop, ApplyWithdrawable
<1> QED
  BY <1>2, <1>3, <1>4, <1>5, <1>6
     DEF Next, vars, RecordBackingDeposit, ConsumeClosedLoop, AuthorizeExternalSettlement,
         CompleteExternalSettlement, CancelExternalSettlement

\* The total the aggregate cap is checked against is the sum of the issuers'
\* outstanding credit after any sequence of receipts, novations and backed
\* settlements, for every set of issuers.
THEOREM TotalTheorem == Spec => []TotalIsSum
<1>1. Init => AccountInv /\ TotalIsSum
  BY InitInv, InitTotal
<1>2. AccountInv /\ TotalIsSum /\ [Next]_vars => (AccountInv /\ TotalIsSum)'
  BY NextInv, NextTotal
<1> QED  BY <1>1, <1>2, PTL DEF Spec
-----------------------------------------------------------------------------
(* What the records add up to.  A record map is weighed by a function that   *)
(* says what each record counts for; the sums of snapshot.rs are the record *)
(* maps under the weights below.                                            *)

Weighed(map, weight) ==
    SumFunctionOnSet([k \in DOMAIN map |-> IF map[k] = None THEN 0 ELSE weight[map[k]]],
                     DOMAIN map)

ReceiptWeight(i, class) ==
    [r \in Claims |-> IF r.issuer = i /\ r.value_class = class THEN r.amount ELSE 0]
ToWeight(i) == [n \in Novations |-> IF n.to_issuer = i THEN n.amount ELSE 0]
FromWeight(i) == [n \in Novations |-> IF n.from_issuer = i THEN n.amount ELSE 0]
DebtWeight(i) == [b \in BackedSettlements |-> IF b.from_issuer = i THEN b.amount ELSE 0]
BackingWeight(i, class) ==
    [b \in BackedSettlements |-> IF b.backing_issuer = i /\ b.value_class = class
                                 THEN b.amount ELSE 0]
ConsumptionWeight(i) == [c \in Consumptions |-> IF c.issuer = i THEN c.amount ELSE 0]
PendingWeight(i) ==
    [r \in SettlementRecord |-> IF r.request.issuer = i /\ r.state = "Pending"
                                THEN r.request.amount + r.request.max_fee ELSE 0]
SettledWeight(i) ==
    [r \in SettlementRecord |-> IF r.request.issuer = i /\ r.state = "Completed"
                                THEN r.request.amount + r.fee ELSE 0]
DepositSum(set, i, class) ==
    SumFunctionOnSet([d \in set |-> IF d.issuer = i /\ d.value_class = class
                                    THEN d.amount ELSE 0], set)

WeighedArgs(K, R, m, wt) ==
    /\ IsFiniteSet(K) /\ None \notin R
    /\ m \in [K -> R \cup {None}] /\ wt \in [R -> Nat]

WeighedRule(m, wt, k, r) ==
    /\ Weighed(m, wt) \in Nat
    /\ m[k] # None => wt[m[k]] <= Weighed(m, wt)
    /\ m[k] = None => Weighed([m EXCEPT ![k] = r], wt) = Weighed(m, wt) + wt[r]
    /\ m[k] # None =>
          Weighed([m EXCEPT ![k] = r], wt) = Weighed(m, wt) - wt[m[k]] + wt[r]

\* The weight of a map with one record stored, or replaced, and a bound for
\* the weight of a stored record.
LEMMA WeighedFacts ==
    ASSUME NEW K, NEW R, NEW m, NEW wt, WeighedArgs(K, R, m, wt), NEW k \in K, NEW r \in R
    PROVE  WeighedRule(m, wt, k, r)
<1> USE DEF WeighedArgs
<1> DEFINE q == [m EXCEPT ![k] = r]
           f == [x \in K |-> IF m[x] = None THEN 0 ELSE wt[m[x]]]
           g == [x \in K |-> IF q[x] = None THEN 0 ELSE wt[q[x]]]
<1>1. q \in [K -> R \cup {None}] /\ q[k] = r /\ \A x \in K : x # k => q[x] = m[x]
  OBVIOUS
<1>2. Weighed(m, wt) = SumFunctionOnSet(f, K)
  <2>1. DOMAIN m = K
    OBVIOUS
  <2> QED  BY <2>1, Zenon DEF Weighed
<1>3. Weighed(q, wt) = SumFunctionOnSet(g, K)
  <2>1. DOMAIN q = K
    OBVIOUS
  <2> HIDE DEF q
  <2> QED  BY <2>1, Zenon DEF Weighed
<1> HIDE DEF q
<1>4. \A x \in K : f[x] \in Nat /\ g[x] \in Nat
  BY <1>1
<1>5. \A x \in K : x # k => f[x] = g[x]
  BY <1>1
<1>6. /\ m[k] = None => f[k] = 0
      /\ m[k] # None => f[k] = wt[m[k]]
      /\ g[k] = wt[r]
  BY <1>1
<1> HIDE DEF f, g
<1>7. SumFunctionOnSet(g, K) = SumFunctionOnSet(f, K) - f[k] + g[k]
  <2>1. \A x \in K : f[x] \in Int /\ g[x] \in Int
    BY <1>4
  <2> QED  BY <1>5, <2>1, SumChange
<1>8. SumFunctionOnSet(f, K) \in Nat
  BY <1>4, SumType
<1>9. f[k] <= SumFunctionOnSet(f, K)
  BY <1>4, SumBoundsTerm
<1>10. Weighed([m EXCEPT ![k] = r], wt) = Weighed(q, wt)
  BY DEF q
<1> QED  BY <1>2, <1>3, <1>4, <1>6, <1>7, <1>8, <1>9, <1>10 DEF WeighedRule

\* The weight of a map of records is a natural number.
LEMMA WeighedType ==
    ASSUME NEW K, NEW R, NEW m, NEW wt, WeighedArgs(K, R, m, wt)
    PROVE  Weighed(m, wt) \in Nat
<1> USE DEF WeighedArgs
<1> DEFINE f == [x \in K |-> IF m[x] = None THEN 0 ELSE wt[m[x]]]
<1>1. DOMAIN m = K
  OBVIOUS
<1>2. Weighed(m, wt) = SumFunctionOnSet(f, K)
  BY <1>1, Zenon DEF Weighed
<1>3. \A x \in K : f[x] \in Nat
  OBVIOUS
<1> HIDE DEF f
<1>4. IsFiniteSet(K)
  OBVIOUS
<1>5. SumFunctionOnSet(f, K) \in Nat
  BY ONLY <1>3, <1>4, SumType
<1> QED  BY <1>2, <1>5

\* A map without records weighs nothing.
LEMMA WeighedNothing ==
    ASSUME NEW K, IsFiniteSet(K), NEW wt
    PROVE  Weighed([k \in K |-> None], wt) = 0
<1> DEFINE m == [k \in K |-> None]
           f == [k \in K |-> IF m[k] = None THEN 0 ELSE wt[m[k]]]
<1>1. DOMAIN m = K
  OBVIOUS
<1>2. \A k \in K : f[k] = 0
  OBVIOUS
<1> HIDE DEF m
<1>3. Weighed(m, wt) = SumFunctionOnSet(f, K)
  BY <1>1, Zenon DEF Weighed
<1> HIDE DEF f
<1>4. Weighed(m, wt) = 0
  BY <1>2, <1>3, SumZero
<1> QED  BY <1>4 DEF m

\* The weights are natural numbers.
LEMMA WeightTypes ==
    ASSUME NEW i, NEW class
    PROVE  /\ ReceiptWeight(i, class) \in [Claims -> Nat]
           /\ ToWeight(i) \in [Novations -> Nat]
           /\ FromWeight(i) \in [Novations -> Nat]
           /\ DebtWeight(i) \in [BackedSettlements -> Nat]
           /\ BackingWeight(i, class) \in [BackedSettlements -> Nat]
           /\ ConsumptionWeight(i) \in [Consumptions -> Nat]
           /\ PendingWeight(i) \in [SettlementRecord -> Nat]
           /\ SettledWeight(i) \in [SettlementRecord -> Nat]
<1> USE InputAssumption, PolicyAssumption DEF U64
<1>1. ReceiptWeight(i, class) \in [Claims -> Nat]
  BY DEF ReceiptWeight, ServiceReceiptClaim
<1>2. ToWeight(i) \in [Novations -> Nat] /\ FromWeight(i) \in [Novations -> Nat]
  BY DEF ToWeight, FromWeight, CreditNovation
<1>3. /\ DebtWeight(i) \in [BackedSettlements -> Nat]
      /\ BackingWeight(i, class) \in [BackedSettlements -> Nat]
  BY DEF DebtWeight, BackingWeight, BackedCreditSettlement
<1>4. ConsumptionWeight(i) \in [Consumptions -> Nat]
  BY DEF ConsumptionWeight, ClosedLoopConsumption
<1>5. ASSUME NEW r \in SettlementRecord
      PROVE  /\ r.request.amount + r.request.max_fee \in Nat
             /\ r.request.amount + r.fee \in Nat
  <2>1. PICK q \in ExternalSettlementRequest : r.request = q
    BY DEF SettlementRecord
  <2> QED  BY <2>1 DEF SettlementRecord, ExternalSettlementRequest
<1>6. PendingWeight(i) \in [SettlementRecord -> Nat]
  BY <1>5 DEF PendingWeight
<1>7. SettledWeight(i) \in [SettlementRecord -> Nat]
  BY <1>5 DEF SettledWeight
<1> QED  BY <1>1, <1>2, <1>3, <1>4, <1>6, <1>7

\* The absent entry is no record, and the record maps are finite.
LEMMA NoneApart ==
    /\ None \notin Claims /\ None \notin Novations /\ None \notin Deposits
    /\ None \notin BackedSettlements /\ None \notin Consumptions
    /\ None \notin SettlementRecord
    /\ IsFiniteSet(Ids)
BY NoneAssumption, IdsAssumption

\* The sums of issuer i after the novation n, the backed settlement b or the
\* consumption c was stored.
NovationAdded(m, q, n, i) ==
    /\ n.to_issuer = i => Weighed(q, ToWeight(i)) = Weighed(m, ToWeight(i)) + n.amount
    /\ n.to_issuer # i => Weighed(q, ToWeight(i)) = Weighed(m, ToWeight(i))
    /\ n.from_issuer = i => Weighed(q, FromWeight(i)) = Weighed(m, FromWeight(i)) + n.amount
    /\ n.from_issuer # i => Weighed(q, FromWeight(i)) = Weighed(m, FromWeight(i))

BackedAdded(m, q, b, i, class) ==
    /\ b.from_issuer = i => Weighed(q, DebtWeight(i)) = Weighed(m, DebtWeight(i)) + b.amount
    /\ b.from_issuer # i => Weighed(q, DebtWeight(i)) = Weighed(m, DebtWeight(i))
    /\ b.backing_issuer = i /\ b.value_class = class =>
          Weighed(q, BackingWeight(i, class)) = Weighed(m, BackingWeight(i, class)) + b.amount
    /\ ~(b.backing_issuer = i /\ b.value_class = class) =>
          Weighed(q, BackingWeight(i, class)) = Weighed(m, BackingWeight(i, class))

ConsumptionAdded(m, q, c, i) ==
    /\ c.issuer = i =>
          Weighed(q, ConsumptionWeight(i)) = Weighed(m, ConsumptionWeight(i)) + c.amount
    /\ c.issuer # i => Weighed(q, ConsumptionWeight(i)) = Weighed(m, ConsumptionWeight(i))

\* The sum of the receipts of issuer i and this class after r was stored.
ReceiptAdded(m, q, r, i, class) ==
    /\ Weighed(m, ReceiptWeight(i, class)) \in Nat
    /\ r.issuer = i /\ r.value_class = class =>
          Weighed(q, ReceiptWeight(i, class)) = Weighed(m, ReceiptWeight(i, class)) + r.amount
    /\ ~(r.issuer = i /\ r.value_class = class) =>
          Weighed(q, ReceiptWeight(i, class)) = Weighed(m, ReceiptWeight(i, class))

\* Storing a receipt, a novation, a backed settlement or a consumption adds its
\* amount to the sums of the issuers it names and to no other.
LEMMA StoredReceipt ==
    ASSUME NEW m \in [Ids -> Claims \cup {None}], NEW k \in Ids, m[k] = None,
           NEW r \in Claims, NEW i, NEW class
    PROVE  ReceiptAdded(m, [m EXCEPT ![k] = r], r, i, class)
<1> DEFINE wt == ReceiptWeight(i, class)
<1>1. wt \in [Claims -> Nat]
  BY WeightTypes
<1>2. /\ r.issuer = i /\ r.value_class = class => wt[r] = r.amount
      /\ ~(r.issuer = i /\ r.value_class = class) => wt[r] = 0
  BY DEF ReceiptWeight
<1> HIDE DEF wt
<1>3. /\ Weighed(m, wt) \in Nat
      /\ Weighed([m EXCEPT ![k] = r], wt) = Weighed(m, wt) + wt[r]
  <2>1. WeighedArgs(Ids, Claims, m, wt)
    BY <1>1, NoneApart DEF WeighedArgs
  <2>2. WeighedRule(m, wt, k, r)
    BY <2>1, WeighedFacts, Zenon
  <2> QED  BY <2>2 DEF WeighedRule
<1> QED  BY <1>2, <1>3 DEF wt, ReceiptAdded

\* A stored novation adds its amount to the credits of the issuer it goes to and
\* to the debits of the one it comes from.
LEMMA StoredNovation ==
    ASSUME NEW m \in [Ids -> Novations \cup {None}], NEW k \in Ids, m[k] = None,
           NEW n \in Novations, NEW i
    PROVE  NovationAdded(m, [m EXCEPT ![k] = n], n, i)
<1> DEFINE to == ToWeight(i)
           from == FromWeight(i)
<1>1. to \in [Novations -> Nat] /\ from \in [Novations -> Nat]
  BY WeightTypes
<1>2. /\ n.to_issuer = i => to[n] = n.amount
      /\ n.to_issuer # i => to[n] = 0
      /\ n.from_issuer = i => from[n] = n.amount
      /\ n.from_issuer # i => from[n] = 0
  BY DEF ToWeight, FromWeight
<1> HIDE DEF to, from
<1>3. /\ Weighed(m, to) \in Nat
      /\ Weighed([m EXCEPT ![k] = n], to) = Weighed(m, to) + to[n]
  <2>1. WeighedArgs(Ids, Novations, m, to)
    BY <1>1, NoneApart DEF WeighedArgs
  <2>2. WeighedRule(m, to, k, n)
    BY <2>1, WeighedFacts, Zenon
  <2> QED  BY <2>2 DEF WeighedRule
<1>4. /\ Weighed(m, from) \in Nat
      /\ Weighed([m EXCEPT ![k] = n], from) = Weighed(m, from) + from[n]
  <2>1. WeighedArgs(Ids, Novations, m, from)
    BY <1>1, NoneApart DEF WeighedArgs
  <2>2. WeighedRule(m, from, k, n)
    BY <2>1, WeighedFacts, Zenon
  <2> QED  BY <2>2 DEF WeighedRule
<1> QED  BY <1>2, <1>3, <1>4 DEF to, from, NovationAdded

\* A stored backed settlement adds its amount to the debits of the issuer it
\* relieves and to what is allocated of the backing issuer.
LEMMA StoredBacked ==
    ASSUME NEW m \in [Ids -> BackedSettlements \cup {None}], NEW k \in Ids, m[k] = None,
           NEW s \in BackedSettlements, NEW i, NEW class
    PROVE  BackedAdded(m, [m EXCEPT ![k] = s], s, i, class)
<1> DEFINE debt == DebtWeight(i)
           backing == BackingWeight(i, class)
<1>1. debt \in [BackedSettlements -> Nat] /\ backing \in [BackedSettlements -> Nat]
  BY WeightTypes
<1>2. /\ s.from_issuer = i => debt[s] = s.amount
      /\ s.from_issuer # i => debt[s] = 0
      /\ s.backing_issuer = i /\ s.value_class = class => backing[s] = s.amount
      /\ ~(s.backing_issuer = i /\ s.value_class = class) => backing[s] = 0
  BY DEF DebtWeight, BackingWeight
<1> HIDE DEF debt, backing
<1>3. /\ Weighed(m, debt) \in Nat
      /\ Weighed([m EXCEPT ![k] = s], debt) = Weighed(m, debt) + debt[s]
  <2>1. WeighedArgs(Ids, BackedSettlements, m, debt)
    BY <1>1, NoneApart DEF WeighedArgs
  <2>2. WeighedRule(m, debt, k, s)
    BY <2>1, WeighedFacts, Zenon
  <2> QED  BY <2>2 DEF WeighedRule
<1>4. /\ Weighed(m, backing) \in Nat
      /\ Weighed([m EXCEPT ![k] = s], backing) = Weighed(m, backing) + backing[s]
  <2>1. WeighedArgs(Ids, BackedSettlements, m, backing)
    BY <1>1, NoneApart DEF WeighedArgs
  <2>2. WeighedRule(m, backing, k, s)
    BY <2>1, WeighedFacts, Zenon
  <2> QED  BY <2>2 DEF WeighedRule
<1> QED  BY <1>2, <1>3, <1>4 DEF debt, backing, BackedAdded

\* A stored consumption adds its amount to what its issuer has consumed.
LEMMA StoredConsumption ==
    ASSUME NEW m \in [Ids -> Consumptions \cup {None}], NEW k \in Ids, m[k] = None,
           NEW c \in Consumptions, NEW i
    PROVE  ConsumptionAdded(m, [m EXCEPT ![k] = c], c, i)
<1> DEFINE wt == ConsumptionWeight(i)
<1>1. wt \in [Consumptions -> Nat]
  BY WeightTypes
<1>2. /\ c.issuer = i => wt[c] = c.amount
      /\ c.issuer # i => wt[c] = 0
  BY DEF ConsumptionWeight
<1> HIDE DEF wt
<1>3. /\ Weighed(m, wt) \in Nat
      /\ Weighed([m EXCEPT ![k] = c], wt) = Weighed(m, wt) + wt[c]
  <2>1. WeighedArgs(Ids, Consumptions, m, wt)
    BY <1>1, NoneApart DEF WeighedArgs
  <2>2. WeighedRule(m, wt, k, c)
    BY <2>1, WeighedFacts, Zenon
  <2> QED  BY <2>2 DEF WeighedRule
<1> QED  BY <1>2, <1>3 DEF wt, ConsumptionAdded

\* What a settlement record counts for in each of its states.
LEMMA SettlementWeights ==
    ASSUME NEW r \in SettlementRecord, NEW i
    PROVE  /\ PendingWeight(i)[r] \in Nat /\ SettledWeight(i)[r] \in Nat
           /\ r.request.issuer # i => PendingWeight(i)[r] = 0 /\ SettledWeight(i)[r] = 0
           /\ r.request.issuer = i /\ r.state = "Pending" =>
                 /\ PendingWeight(i)[r] = r.request.amount + r.request.max_fee
                 /\ SettledWeight(i)[r] = 0
           /\ r.request.issuer = i /\ r.state = "Completed" =>
                 /\ PendingWeight(i)[r] = 0
                 /\ SettledWeight(i)[r] = r.request.amount + r.fee
           /\ r.request.issuer = i /\ r.state = "Cancelled" =>
                 PendingWeight(i)[r] = 0 /\ SettledWeight(i)[r] = 0
<1>1. PendingWeight(i) \in [SettlementRecord -> Nat] /\ SettledWeight(i) \in [SettlementRecord -> Nat]
  BY WeightTypes
<1>2. PendingWeight(i)[r] \in Nat /\ SettledWeight(i)[r] \in Nat
  BY <1>1
<1>3. /\ r.request.issuer # i => PendingWeight(i)[r] = 0 /\ SettledWeight(i)[r] = 0
      /\ r.request.issuer = i /\ r.state = "Pending" =>
            /\ PendingWeight(i)[r] = r.request.amount + r.request.max_fee
            /\ SettledWeight(i)[r] = 0
      /\ r.request.issuer = i /\ r.state = "Completed" =>
            /\ PendingWeight(i)[r] = 0
            /\ SettledWeight(i)[r] = r.request.amount + r.fee
      /\ r.request.issuer = i /\ r.state = "Cancelled" =>
            PendingWeight(i)[r] = 0 /\ SettledWeight(i)[r] = 0
  BY DEF PendingWeight, SettledWeight
<1> QED  BY <1>2, <1>3

\* The sums of issuer i when record r is stored under a new key, and when it
\* replaces the record "old".
SettlementAdded(m, q, r, i) ==
    /\ Weighed(q, PendingWeight(i)) = Weighed(m, PendingWeight(i)) + PendingWeight(i)[r]
    /\ Weighed(q, SettledWeight(i)) = Weighed(m, SettledWeight(i)) + SettledWeight(i)[r]
SettlementReplaced(m, q, old, r, i) ==
    /\ PendingWeight(i)[old] <= Weighed(m, PendingWeight(i))
    /\ Weighed(q, PendingWeight(i))
         = Weighed(m, PendingWeight(i)) - PendingWeight(i)[old] + PendingWeight(i)[r]
    /\ Weighed(q, SettledWeight(i))
         = Weighed(m, SettledWeight(i)) - SettledWeight(i)[old] + SettledWeight(i)[r]

\* Storing or replacing a settlement record.
LEMMA StoredSettlement ==
    ASSUME NEW m \in [Ids -> SettlementRecord \cup {None}], NEW k \in Ids,
           NEW r \in SettlementRecord, NEW i
    PROVE  /\ m[k] = None => SettlementAdded(m, [m EXCEPT ![k] = r], r, i)
           /\ m[k] # None => SettlementReplaced(m, [m EXCEPT ![k] = r], m[k], r, i)
<1> DEFINE pending == PendingWeight(i)
           settled == SettledWeight(i)
<1>1. pending \in [SettlementRecord -> Nat] /\ settled \in [SettlementRecord -> Nat]
  BY WeightTypes
<1> HIDE DEF pending, settled
<1>2. /\ Weighed(m, pending) \in Nat
      /\ m[k] # None => pending[m[k]] <= Weighed(m, pending)
      /\ m[k] = None => Weighed([m EXCEPT ![k] = r], pending) = Weighed(m, pending) + pending[r]
      /\ m[k] # None => Weighed([m EXCEPT ![k] = r], pending)
                          = Weighed(m, pending) - pending[m[k]] + pending[r]
  <2>1. WeighedArgs(Ids, SettlementRecord, m, pending)
    BY <1>1, NoneApart DEF WeighedArgs
  <2>2. WeighedRule(m, pending, k, r)
    BY <2>1, WeighedFacts, Zenon
  <2> QED  BY <2>2 DEF WeighedRule
<1>3. /\ Weighed(m, settled) \in Nat
      /\ m[k] = None => Weighed([m EXCEPT ![k] = r], settled) = Weighed(m, settled) + settled[r]
      /\ m[k] # None => Weighed([m EXCEPT ![k] = r], settled)
                          = Weighed(m, settled) - settled[m[k]] + settled[r]
  <2>1. WeighedArgs(Ids, SettlementRecord, m, settled)
    BY <1>1, NoneApart DEF WeighedArgs
  <2>2. WeighedRule(m, settled, k, r)
    BY <2>1, WeighedFacts, Zenon
  <2> QED  BY <2>2 DEF WeighedRule
<1> QED  BY <1>2, <1>3 DEF pending, settled, SettlementAdded, SettlementReplaced

\* One deposit more.
LEMMA StoredDeposit ==
    ASSUME NEW S, IsFiniteSet(S), S \subseteq Deposits, NEW d \in Deposits, d \notin S,
           NEW i, NEW class
    PROVE  /\ DepositSum(S, i, class) \in Nat
           /\ d.issuer = i /\ d.value_class = class =>
                 DepositSum(S \cup {d}, i, class) = DepositSum(S, i, class) + d.amount
           /\ ~(d.issuer = i /\ d.value_class = class) =>
                 DepositSum(S \cup {d}, i, class) = DepositSum(S, i, class)
<1> DEFINE f == [x \in S |-> IF x.issuer = i /\ x.value_class = class THEN x.amount ELSE 0]
           g == [x \in S \cup {d} |-> IF x.issuer = i /\ x.value_class = class
                                      THEN x.amount ELSE 0]
<1>1. \A x \in S : f[x] \in Nat /\ g[x] = f[x]
  BY InputAssumption, PolicyAssumption DEF BackingDeposit, U64
<1>2. /\ g[d] \in Nat
      /\ d.issuer = i /\ d.value_class = class => g[d] = d.amount
      /\ ~(d.issuer = i /\ d.value_class = class) => g[d] = 0
  BY InputAssumption, PolicyAssumption DEF BackingDeposit, U64
<1>3. /\ DepositSum(S, i, class) = SumFunctionOnSet(f, S)
      /\ DepositSum(S \cup {d}, i, class) = SumFunctionOnSet(g, S \cup {d})
  BY Zenon DEF DepositSum
<1> HIDE DEF f, g
<1>4. SumFunctionOnSet(g, S \cup {d}) = SumFunctionOnSet(f, S) + g[d]
  <2>1. PICK T : T = S \cup {d}
    OBVIOUS
  <2>2. /\ \A x \in S : f[x] \in Int /\ g[x] = f[x]
        /\ g[d] \in Int
    BY <1>1, <1>2
  <2>3. SumFunctionOnSet(g, T) = SumFunctionOnSet(f, S) + g[d]
    BY <2>1, <2>2, SumMore
  <2> QED  BY <2>1, <2>3, Zenon
<1>5. SumFunctionOnSet(f, S) \in Nat
  BY <1>1, SumType
<1> QED  BY <1>2, <1>3, <1>4, <1>5

-----------------------------------------------------------------------------
(* The ledgers kept by the operations are what the records add up to.  The   *)
(* invariant says it of one issuer's ledgers and the record maps.           *)

PeerSums(i, rc, nv, bk, l) ==
    Weighed(rc, ReceiptWeight(i, "PeerCredit")) + Weighed(nv, ToWeight(i))
      = Weighed(nv, FromWeight(i)) + Weighed(bk, DebtWeight(i)) + l.outstanding

ClosedSums(i, rc, bk, cs, l) ==
    /\ Weighed(rc, ReceiptWeight(i, "ClosedLoopDeposit"))
         + Weighed(bk, BackingWeight(i, "ClosedLoopDeposit")) = l.claimable + l.consumed
    /\ Weighed(cs, ConsumptionWeight(i)) = l.consumed

ReserveSums(i, rc, bk, st, l) ==
    /\ Weighed(rc, ReceiptWeight(i, "ReserveBackedWithdrawable"))
         + Weighed(bk, BackingWeight(i, "ReserveBackedWithdrawable"))
         = l.redeemable + l.pending + l.settled
    /\ Weighed(st, PendingWeight(i)) = l.pending
    /\ Weighed(st, SettledWeight(i)) = l.settled

DepositSums(i, set, c, w) ==
    /\ DepositSum(set, i, "ClosedLoopDeposit") = c.deposited
    /\ DepositSum(set, i, "ReserveBackedWithdrawable") = w.deposited

DepositsKeyed ==
    /\ IsFiniteSet(Kept(deposits))
    /\ \A k \in DepositKeys : deposits[k] # None => DepositKey(deposits[k]) = k

SumsOK ==
    /\ DepositsKeyed
    /\ \A i \in Issuers :
          /\ PeerSums(i, receipts, novations, backed, peer[i])
          /\ ClosedSums(i, receipts, backed, consumptions, closed[i])
          /\ ReserveSums(i, receipts, backed, settlements, reserve[i])
          /\ DepositSums(i, Kept(deposits), closed[i], reserve[i])

\* Every sum over the records of the account is a natural number.
LEMMA SumTypes ==
    ASSUME AccountInv, NEW i, NEW class
    PROVE  /\ Weighed(receipts, ReceiptWeight(i, class)) \in Nat
           /\ Weighed(novations, ToWeight(i)) \in Nat
           /\ Weighed(novations, FromWeight(i)) \in Nat
           /\ Weighed(backed, DebtWeight(i)) \in Nat
           /\ Weighed(backed, BackingWeight(i, class)) \in Nat
           /\ Weighed(consumptions, ConsumptionWeight(i)) \in Nat
           /\ Weighed(settlements, PendingWeight(i)) \in Nat
           /\ Weighed(settlements, SettledWeight(i)) \in Nat
<1>1. /\ WeighedArgs(Ids, Claims, receipts, ReceiptWeight(i, class))
      /\ WeighedArgs(Ids, Novations, novations, ToWeight(i))
      /\ WeighedArgs(Ids, Novations, novations, FromWeight(i))
      /\ WeighedArgs(Ids, BackedSettlements, backed, DebtWeight(i))
      /\ WeighedArgs(Ids, BackedSettlements, backed, BackingWeight(i, class))
      /\ WeighedArgs(Ids, Consumptions, consumptions, ConsumptionWeight(i))
      /\ WeighedArgs(Ids, SettlementRecord, settlements, PendingWeight(i))
      /\ WeighedArgs(Ids, SettlementRecord, settlements, SettledWeight(i))
  BY NoneApart, WeightTypes DEF AccountInv, RecordsOK, WeighedArgs
<1> QED  BY <1>1, WeighedType, Zenon

\* The deposits kept after one more was recorded.
LEMMA KeptDeposit ==
    ASSUME AccountInv, DepositsKeyed, NEW d \in Deposits, DepositKey(d) \in DepositKeys,
           deposits[DepositKey(d)] = None,
           deposits' = [deposits EXCEPT ![DepositKey(d)] = d]
    PROVE  /\ Kept(deposits') = Kept(deposits) \cup {d}
           /\ Kept(deposits) \subseteq Deposits
           /\ d \notin Kept(deposits)
           /\ DepositsKeyed'
<1>1. deposits \in [DepositKeys -> Deposits \cup {None}]
  BY DEF AccountInv, RecordsOK
<1>2. d # None
  BY NoneApart
<1>3. \A k \in DepositKeys : deposits'[k] = IF k = DepositKey(d) THEN d ELSE deposits[k]
  BY <1>1
<1>4. DOMAIN deposits = DepositKeys /\ DOMAIN deposits' = DepositKeys
  BY <1>1
<1>5. Kept(deposits) \subseteq Deposits /\ d \notin Kept(deposits)
  BY <1>1, <1>4 DEF Kept, Stored, DepositsKeyed
<1>6. Kept(deposits') = Kept(deposits) \cup {d}
  BY <1>2, <1>3, <1>4 DEF Kept, Stored
<1>7. IsFiniteSet(Kept(deposits) \cup {d})
  BY FS_AddElement DEF DepositsKeyed
<1>8. IsFiniteSet(Kept(deposits'))
  BY <1>6, <1>7
<1>9. \A k \in DepositKeys : deposits'[k] # None => DepositKey(deposits'[k]) = k
  BY <1>3 DEF DepositsKeyed
<1> QED  BY <1>5, <1>6, <1>8, <1>9 DEF DepositsKeyed

\* A new account has no records and empty ledgers.
LEMMA InitSums == Init => SumsOK
<1> SUFFICES ASSUME Init PROVE SumsOK
  OBVIOUS
<1>1. Kept(deposits) = {}
  BY DEF Init, Kept, Stored
<1>2. DepositsKeyed
  BY <1>1, FS_EmptySet DEF DepositsKeyed, Init
<1>3. ASSUME NEW wt
      PROVE  /\ Weighed(receipts, wt) = 0 /\ Weighed(novations, wt) = 0
             /\ Weighed(backed, wt) = 0 /\ Weighed(consumptions, wt) = 0
             /\ Weighed(settlements, wt) = 0
  <2>1. Weighed([k \in Ids |-> None], wt) = 0
    BY NoneApart, WeighedNothing
  <2> QED  BY <2>1, Zenon DEF Init
<1>4. ASSUME NEW i, NEW class
      PROVE  DepositSum(Kept(deposits), i, class) = 0
  <2>1. DepositSum({}, i, class) = 0
    BY FS_EmptySet, SumUnfold DEF DepositSum
  <2> QED  BY <1>1, <2>1, Zenon
<1>5. ASSUME NEW i \in Issuers
      PROVE  /\ peer[i].outstanding = 0
             /\ closed[i].deposited = 0 /\ closed[i].claimable = 0 /\ closed[i].consumed = 0
             /\ reserve[i].deposited = 0 /\ reserve[i].redeemable = 0
             /\ reserve[i].pending = 0 /\ reserve[i].settled = 0
  BY DEF Init, ClosedLoop, Reserve
<1>6. ASSUME NEW i \in Issuers
      PROVE  /\ PeerSums(i, receipts, novations, backed, peer[i])
             /\ ClosedSums(i, receipts, backed, consumptions, closed[i])
             /\ ReserveSums(i, receipts, backed, settlements, reserve[i])
             /\ DepositSums(i, Kept(deposits), closed[i], reserve[i])
  BY <1>3, <1>4, <1>5 DEF PeerSums, ClosedSums, ReserveSums, DepositSums
<1> QED  BY <1>2, <1>6 DEF SumsOK

\* record_backing_deposit adds to the deposits and to one ledger.
LEMMA DepositSumsStep ==
    ASSUME AccountInv, SumsOK, NEW d \in Deposits, NEW auth \in Peers,
           RecordBackingDeposit(d, auth)
    PROVE  SumsOK'
<1>1. d.issuer \in Issuers /\ d.amount \in Nat /\ DepositKey(d) \in DepositKeys
  BY InputAssumption, PolicyAssumption
     DEF RecordBackingDeposit, ValidBackingDeposit, BackingDeposit, DepositKeys, U64
<1>2. /\ Kept(deposits') = Kept(deposits) \cup {d}
      /\ Kept(deposits) \subseteq Deposits
      /\ d \notin Kept(deposits)
      /\ DepositsKeyed'
  BY <1>1, KeptDeposit DEF RecordBackingDeposit, SumsOK
<1>3. ASSUME NEW i \in Issuers
      PROVE  /\ PeerSums(i, receipts, novations, backed, peer[i])'
             /\ ClosedSums(i, receipts, backed, consumptions, closed[i])'
             /\ ReserveSums(i, receipts, backed, settlements, reserve[i])'
             /\ DepositSums(i, Kept(deposits), closed[i], reserve[i])'
  <2>1. /\ PeerSums(i, receipts, novations, backed, peer[i])
        /\ ClosedSums(i, receipts, backed, consumptions, closed[i])
        /\ ReserveSums(i, receipts, backed, settlements, reserve[i])
        /\ DepositSums(i, Kept(deposits), closed[i], reserve[i])
    BY DEF SumsOK
  <2>2. /\ closed \in [Issuers -> ClosedLoopLedger]
        /\ reserve \in [Issuers -> WithdrawableReserveLedger]
        /\ closed[i].deposited \in Nat /\ reserve[i].deposited \in Nat
    BY PolicyAssumption
       DEF AccountInv, LedgersOK, ClosedLoopLedger, WithdrawableReserveLedger, U64
  <2>3. /\ closed'[i].claimable = closed[i].claimable
        /\ closed'[i].consumed = closed[i].consumed
        /\ reserve'[i].redeemable = reserve[i].redeemable
        /\ reserve'[i].pending = reserve[i].pending
        /\ reserve'[i].settled = reserve[i].settled
    BY <1>1, <2>2
       DEF RecordBackingDeposit, DepositClosed, DepositReserve, ClosedLoop, Reserve
  <2>4. UNCHANGED <<peer, receipts, novations, backed, consumptions, settlements>>
    BY DEF RecordBackingDeposit
  <2>5. /\ PeerSums(i, receipts, novations, backed, peer[i])'
        /\ ClosedSums(i, receipts, backed, consumptions, closed[i])'
        /\ ReserveSums(i, receipts, backed, settlements, reserve[i])'
    BY <2>1, <2>3, <2>4 DEF PeerSums, ClosedSums, ReserveSums
  <2>6. \A class \in ValueClass :
           /\ DepositSum(Kept(deposits), i, class) \in Nat
           /\ d.issuer = i /\ d.value_class = class =>
                 DepositSum(Kept(deposits) \cup {d}, i, class)
                   = DepositSum(Kept(deposits), i, class) + d.amount
           /\ ~(d.issuer = i /\ d.value_class = class) =>
                 DepositSum(Kept(deposits) \cup {d}, i, class)
                   = DepositSum(Kept(deposits), i, class)
    BY <1>2, StoredDeposit DEF SumsOK, DepositsKeyed
  <2>7. \A class \in ValueClass :
           DepositSum(Kept(deposits'), i, class) = DepositSum(Kept(deposits) \cup {d}, i, class)
    BY <1>2, Zenon
  <2>8. /\ d.issuer = i /\ d.value_class = "ClosedLoopDeposit" =>
              closed'[i].deposited = closed[i].deposited + d.amount
        /\ ~(d.issuer = i /\ d.value_class = "ClosedLoopDeposit") =>
              closed'[i].deposited = closed[i].deposited
        /\ d.issuer = i /\ d.value_class = "ReserveBackedWithdrawable" =>
              reserve'[i].deposited = reserve[i].deposited + d.amount
        /\ ~(d.issuer = i /\ d.value_class = "ReserveBackedWithdrawable") =>
              reserve'[i].deposited = reserve[i].deposited
    BY <1>1, <2>2
       DEF RecordBackingDeposit, DepositClosed, DepositReserve, ClosedLoop, Reserve
  <2>9. DepositSums(i, Kept(deposits'), closed'[i], reserve'[i])
    BY <2>1, <2>2, <2>6, <2>7, <2>8 DEF DepositSums, ValueClass
  <2> QED  BY <2>5, <2>9 DEF DepositSums
<1> QED  BY <1>2, <1>3 DEF SumsOK

\* The ledgers an operation of this account leaves, field by field.
LEMMA LedgerMoves ==
    ASSUME NEW amount, NEW l
    PROVE  /\ AllocateClosed(l, amount).claimable = l.claimable + amount
           /\ AllocateClosed(l, amount).consumed = l.consumed
           /\ AllocateClosed(l, amount).deposited = l.deposited
           /\ Consume(l, amount).claimable = l.claimable - amount
           /\ Consume(l, amount).consumed = l.consumed + amount
           /\ Consume(l, amount).deposited = l.deposited
           /\ AllocateReserve(l, amount).redeemable = l.redeemable + amount
           /\ AllocateReserve(l, amount).pending = l.pending
           /\ AllocateReserve(l, amount).settled = l.settled
           /\ AllocateReserve(l, amount).deposited = l.deposited
           /\ Authorize(l, amount).redeemable = l.redeemable - amount
           /\ Authorize(l, amount).pending = l.pending + amount
           /\ Authorize(l, amount).settled = l.settled
           /\ Authorize(l, amount).deposited = l.deposited
           /\ Complete(l, amount).redeemable = l.redeemable
           /\ Complete(l, amount).pending = l.pending - amount
           /\ Complete(l, amount).settled = l.settled + amount
           /\ Complete(l, amount).deposited = l.deposited
           /\ Cancel(l, amount).redeemable = l.redeemable + amount
           /\ Cancel(l, amount).pending = l.pending - amount
           /\ Cancel(l, amount).settled = l.settled
           /\ Cancel(l, amount).deposited = l.deposited
BY DEF AllocateClosed, Consume, AllocateReserve, Authorize, Complete, Cancel, ClosedLoop, Reserve

\* The ledgers are functions to ledgers of natural numbers.
LEMMA LedgerTypes ==
    ASSUME AccountInv
    PROVE  /\ peer \in [Issuers -> PeerCreditLedger]
           /\ closed \in [Issuers -> ClosedLoopLedger]
           /\ reserve \in [Issuers -> WithdrawableReserveLedger]
           /\ \A i \in Issuers :
                 /\ peer[i].outstanding \in Nat
                 /\ closed[i].claimable \in Nat /\ closed[i].consumed \in Nat
                 /\ closed[i].deposited \in Nat
                 /\ reserve[i].redeemable \in Nat /\ reserve[i].pending \in Nat
                 /\ reserve[i].settled \in Nat /\ reserve[i].deposited \in Nat
BY PolicyAssumption
   DEF AccountInv, LedgersOK, PeerCreditLedger, ClosedLoopLedger, WithdrawableReserveLedger, U64

\* Deposits and their sums, when a step records none and moves no deposited value.
LEMMA SameDeposits ==
    ASSUME SumsOK, UNCHANGED deposits,
           \A i \in Issuers : /\ closed'[i].deposited = closed[i].deposited
                              /\ reserve'[i].deposited = reserve[i].deposited
    PROVE  /\ DepositsKeyed'
           /\ \A i \in Issuers : DepositSums(i, Kept(deposits), closed[i], reserve[i])'
<1>1. Kept(deposits') = Kept(deposits)
  BY Zenon
<1>2. DepositsKeyed'
  BY <1>1 DEF SumsOK, DepositsKeyed
<1>3. ASSUME NEW i \in Issuers
      PROVE  DepositSums(i, Kept(deposits'), closed'[i], reserve'[i])
  <2>1. /\ DepositSum(Kept(deposits'), i, "ClosedLoopDeposit")
             = DepositSum(Kept(deposits), i, "ClosedLoopDeposit")
        /\ DepositSum(Kept(deposits'), i, "ReserveBackedWithdrawable")
             = DepositSum(Kept(deposits), i, "ReserveBackedWithdrawable")
    BY <1>1, Zenon
  <2> QED  BY <2>1 DEF SumsOK, DepositSums
<1> QED  BY <1>2, <1>3 DEF DepositSums

\* apply_receipt adds to the receipts and to the ledger of the receipt's class.
LEMMA ReceiptSumsStep ==
    ASSUME AccountInv, SumsOK, NEW c \in Claims, NEW auth \in Peers,
           NEW mode \in AcceptanceMode, NEW t \in Times, ApplyReceipt(c, auth, mode, t)
    PROVE  SumsOK'
<1>1. /\ c.amount \in Nat
      /\ UNCHANGED <<novations, deposits, backed, consumptions, settlements>>
  BY InputAssumption, PolicyAssumption DEF ApplyReceipt, ServiceReceiptClaim, U64
<1>2. /\ c.issuer \in Issuers /\ c.amount \in U64 /\ c.amount \in Nat /\ c.receipt_id \in Ids
      /\ receipts \in [Ids -> Claims \cup {None}]
      /\ receipts[c.receipt_id] = None
      /\ receipts' = [receipts EXCEPT ![c.receipt_id] = c]
  BY InputAssumption, PolicyAssumption
     DEF ApplyReceipt, ValidReceiptIdentity, ServiceReceiptClaim, AccountInv, RecordsOK, U64
<1>3. PICK offline \in BOOLEAN : offline = (mode = "OfflineDeferred")
  OBVIOUS
<1>4. ASSUME NEW i \in Issuers
      PROVE  /\ ReceiptAdded(receipts, receipts', c, i, "PeerCredit")
             /\ ReceiptAdded(receipts, receipts', c, i, "ClosedLoopDeposit")
             /\ ReceiptAdded(receipts, receipts', c, i, "ReserveBackedWithdrawable")
             /\ PeerSums(i, receipts, novations, backed, peer[i])
             /\ ClosedSums(i, receipts, backed, consumptions, closed[i])
             /\ ReserveSums(i, receipts, backed, settlements, reserve[i])
  <2>1. /\ ReceiptAdded(receipts, [receipts EXCEPT ![c.receipt_id] = c], c, i, "PeerCredit")
        /\ ReceiptAdded(receipts, [receipts EXCEPT ![c.receipt_id] = c], c, i,
                        "ClosedLoopDeposit")
        /\ ReceiptAdded(receipts, [receipts EXCEPT ![c.receipt_id] = c], c, i,
                        "ReserveBackedWithdrawable")
    BY <1>2, StoredReceipt, Zenon
  <2> QED  BY <1>2, <2>1 DEF SumsOK
<1>5. ASSUME NEW i \in Issuers
      PROVE  /\ Weighed(novations, ToWeight(i)) \in Nat
             /\ Weighed(novations, FromWeight(i)) \in Nat
             /\ Weighed(backed, DebtWeight(i)) \in Nat
             /\ Weighed(backed, BackingWeight(i, "ClosedLoopDeposit")) \in Nat
             /\ Weighed(backed, BackingWeight(i, "ReserveBackedWithdrawable")) \in Nat
  BY SumTypes
<1>6. CASE c.value_class = "PeerCredit"
  <2>1. /\ CanCredit(peer[c.issuer], c.amount, offline)
        /\ peer' = [peer EXCEPT ![c.issuer] = Credit(peer[c.issuer], c.amount, offline)]
        /\ UNCHANGED <<closed, reserve>>
    BY <1>3, <1>6 DEF ApplyReceipt, ApplyPeerCredit
  <2>2. Credit(peer[c.issuer], c.amount, offline).outstanding
          = peer[c.issuer].outstanding + c.amount
    BY <1>2, <2>1, LedgerTypes, OutstandingMoves
  <2>3. ASSUME NEW i \in Issuers
        PROVE  /\ PeerSums(i, receipts, novations, backed, peer[i])'
               /\ ClosedSums(i, receipts, backed, consumptions, closed[i])'
               /\ ReserveSums(i, receipts, backed, settlements, reserve[i])'
    <3>1. /\ c.issuer = i => peer'[i].outstanding = peer[i].outstanding + c.amount
          /\ c.issuer # i => peer'[i].outstanding = peer[i].outstanding
          /\ peer[i].outstanding \in Nat
      BY <1>2, <2>1, <2>2, LedgerTypes
    <3>2. PeerSums(i, receipts, novations, backed, peer[i])'
      BY <1>1, <1>6, <1>4, <1>5, <3>1 DEF PeerSums, ReceiptAdded
    <3>3. ClosedSums(i, receipts, backed, consumptions, closed[i])'
      BY <1>1, <1>6, <1>4, <2>1 DEF ClosedSums, ReceiptAdded
    <3>4. ReserveSums(i, receipts, backed, settlements, reserve[i])'
      BY <1>1, <1>6, <1>4, <2>1 DEF ReserveSums, ReceiptAdded
    <3> QED  BY <3>2, <3>3, <3>4
  <2> QED  BY <1>1, <2>1, <2>3, SameDeposits DEF SumsOK
<1>7. CASE c.value_class = "ClosedLoopDeposit"
  <2>1. /\ closed' = [closed EXCEPT ![c.issuer] = AllocateClosed(closed[c.issuer], c.amount)]
        /\ UNCHANGED <<peer, reserve>>
    BY <1>7 DEF ApplyReceipt, ApplyClosedLoop
  <2>2. ASSUME NEW i \in Issuers
        PROVE  /\ c.issuer = i => closed'[i].claimable = closed[i].claimable + c.amount
               /\ c.issuer # i => closed'[i].claimable = closed[i].claimable
               /\ closed'[i].consumed = closed[i].consumed
               /\ closed'[i].deposited = closed[i].deposited
               /\ closed[i].claimable \in Nat /\ closed[i].consumed \in Nat
    BY <1>2, <2>1, LedgerTypes, LedgerMoves
  <2>3. ASSUME NEW i \in Issuers
        PROVE  /\ PeerSums(i, receipts, novations, backed, peer[i])'
               /\ ClosedSums(i, receipts, backed, consumptions, closed[i])'
               /\ ReserveSums(i, receipts, backed, settlements, reserve[i])'
    <3>2. PeerSums(i, receipts, novations, backed, peer[i])'
      BY <1>1, <1>7, <1>4, <2>1 DEF PeerSums, ReceiptAdded
    <3>3. ClosedSums(i, receipts, backed, consumptions, closed[i])'
      BY <1>1, <1>7, <1>4, <1>5, <2>2 DEF ClosedSums, ReceiptAdded
    <3>4. ReserveSums(i, receipts, backed, settlements, reserve[i])'
      BY <1>1, <1>7, <1>4, <2>1 DEF ReserveSums, ReceiptAdded
    <3> QED  BY <3>2, <3>3, <3>4
  <2> QED  BY <1>1, <2>1, <2>2, <2>3, SameDeposits DEF SumsOK
<1>8. CASE c.value_class = "ReserveBackedWithdrawable"
  <2>1. /\ reserve' = [reserve EXCEPT ![c.issuer] = AllocateReserve(reserve[c.issuer], c.amount)]
        /\ UNCHANGED <<peer, closed>>
    BY <1>8 DEF ApplyReceipt, ApplyWithdrawable
  <2>2. ASSUME NEW i \in Issuers
        PROVE  /\ c.issuer = i => reserve'[i].redeemable = reserve[i].redeemable + c.amount
               /\ c.issuer # i => reserve'[i].redeemable = reserve[i].redeemable
               /\ reserve'[i].pending = reserve[i].pending
               /\ reserve'[i].settled = reserve[i].settled
               /\ reserve'[i].deposited = reserve[i].deposited
               /\ reserve[i].redeemable \in Nat /\ reserve[i].pending \in Nat
               /\ reserve[i].settled \in Nat
    BY <1>2, <2>1, LedgerTypes, LedgerMoves
  <2>3. ASSUME NEW i \in Issuers
        PROVE  /\ PeerSums(i, receipts, novations, backed, peer[i])'
               /\ ClosedSums(i, receipts, backed, consumptions, closed[i])'
               /\ ReserveSums(i, receipts, backed, settlements, reserve[i])'
    <3>2. PeerSums(i, receipts, novations, backed, peer[i])'
      BY <1>1, <1>8, <1>4, <2>1 DEF PeerSums, ReceiptAdded
    <3>3. ClosedSums(i, receipts, backed, consumptions, closed[i])'
      BY <1>1, <1>8, <1>4, <2>1 DEF ClosedSums, ReceiptAdded
    <3>4. ReserveSums(i, receipts, backed, settlements, reserve[i])'
      BY <1>1, <1>8, <1>4, <1>5, <2>2 DEF ReserveSums, ReceiptAdded
    <3> QED  BY <3>2, <3>3, <3>4
  <2> QED  BY <1>1, <2>1, <2>2, <2>3, SameDeposits DEF SumsOK
<1> QED  BY <1>6, <1>7, <1>8 DEF ApplyReceipt

\* novate_peer_credit moves an amount from one issuer's peer credit to another's.
LEMMA NovationSumsStep ==
    ASSUME AccountInv, SumsOK, NEW n \in Novations, NEW auth \in Peers, NEW t \in Times,
           NovatePeerCredit(n, auth, t)
    PROVE  SumsOK'
<1>1. /\ n.amount \in Nat /\ n.from_issuer # n.to_issuer
      /\ UNCHANGED <<closed, reserve, receipts, deposits, backed, consumptions, settlements>>
  BY InputAssumption, PolicyAssumption
     DEF NovatePeerCredit, ValidNovationIdentity, CreditNovation, U64
<1>2. /\ n.from_issuer \in Issuers /\ n.to_issuer \in Issuers
      /\ n.amount \in U64 /\ n.novation_id \in Ids
      /\ novations \in [Ids -> Novations \cup {None}]
      /\ novations[n.novation_id] = None
      /\ novations' = [novations EXCEPT ![n.novation_id] = n]
  BY InputAssumption
     DEF NovatePeerCredit, ValidNovationIdentity, CreditNovation, AccountInv, RecordsOK
<1>3. /\ CanDebit(peer[n.from_issuer], n.amount)
      /\ CanCredit(peer[n.to_issuer], n.amount, FALSE)
      /\ peer' = [peer EXCEPT ![n.from_issuer] = Debit(peer[n.from_issuer], n.amount),
                              ![n.to_issuer] = Credit(peer[n.to_issuer], n.amount, FALSE)]
  BY DEF NovatePeerCredit
<1>4. /\ Debit(peer[n.from_issuer], n.amount).outstanding
           = peer[n.from_issuer].outstanding - n.amount
      /\ Credit(peer[n.to_issuer], n.amount, FALSE).outstanding
           = peer[n.to_issuer].outstanding + n.amount
  BY <1>2, <1>3, LedgerTypes, OutstandingMoves
<1>5. ASSUME NEW i \in Issuers
      PROVE  /\ PeerSums(i, receipts, novations, backed, peer[i])'
             /\ ClosedSums(i, receipts, backed, consumptions, closed[i])'
             /\ ReserveSums(i, receipts, backed, settlements, reserve[i])'
  <2>1. /\ PeerSums(i, receipts, novations, backed, peer[i])
        /\ ClosedSums(i, receipts, backed, consumptions, closed[i])
        /\ ReserveSums(i, receipts, backed, settlements, reserve[i])
    BY DEF SumsOK
  <2>2. /\ i = n.from_issuer => peer'[i].outstanding = peer[i].outstanding - n.amount
        /\ i = n.to_issuer => peer'[i].outstanding = peer[i].outstanding + n.amount
        /\ i # n.from_issuer /\ i # n.to_issuer => peer'[i].outstanding = peer[i].outstanding
        /\ peer[i].outstanding \in Nat
    BY <1>1, <1>2, <1>3, <1>4, LedgerTypes
  <2>3. NovationAdded(novations, novations', n, i)
    <3>1. NovationAdded(novations, [novations EXCEPT ![n.novation_id] = n], n, i)
      BY <1>2, StoredNovation, Zenon
    <3> QED  BY <1>2, <3>1
  <2>4. /\ Weighed(receipts, ReceiptWeight(i, "PeerCredit")) \in Nat
        /\ Weighed(novations, ToWeight(i)) \in Nat
        /\ Weighed(novations, FromWeight(i)) \in Nat
        /\ Weighed(backed, DebtWeight(i)) \in Nat
    BY SumTypes
  <2>5. PeerSums(i, receipts, novations, backed, peer[i])'
    BY <1>1, <2>1, <2>2, <2>3, <2>4 DEF PeerSums, NovationAdded
  <2> QED  BY <1>1, <2>1, <2>5
<1> QED  BY <1>1, <1>5, SameDeposits DEF SumsOK

\* settle_peer_credit_with_backing debits one issuer's peer credit and
\* allocates the same amount of another issuer's backing.
LEMMA BackedSumsStep ==
    ASSUME AccountInv, SumsOK, NEW s \in BackedSettlements, NEW auth \in Peers,
           NEW t \in Times, SettlePeerCreditWithBacking(s, auth, t)
    PROVE  SumsOK'
<1>1. /\ s.amount \in Nat
      /\ UNCHANGED <<receipts, novations, deposits, consumptions, settlements>>
  BY InputAssumption, PolicyAssumption
     DEF SettlePeerCreditWithBacking, BackedCreditSettlement, U64
<1>2. /\ s.from_issuer \in Issuers /\ s.backing_issuer \in Issuers
      /\ s.amount \in U64 /\ s.settlement_id \in Ids
      /\ backed \in [Ids -> BackedSettlements \cup {None}]
      /\ backed[s.settlement_id] = None
      /\ backed' = [backed EXCEPT ![s.settlement_id] = s]
  BY InputAssumption
     DEF SettlePeerCreditWithBacking, ValidBackedSettlementIdentity, BackedCreditSettlement,
         AccountInv, RecordsOK
<1>3. /\ CanDebit(peer[s.from_issuer], s.amount)
      /\ peer' = [peer EXCEPT ![s.from_issuer] = Debit(peer[s.from_issuer], s.amount)]
  BY DEF SettlePeerCreditWithBacking
<1>4. Debit(peer[s.from_issuer], s.amount).outstanding = peer[s.from_issuer].outstanding - s.amount
  BY <1>2, <1>3, LedgerTypes, OutstandingMoves
<1>5. ASSUME NEW i \in Issuers
      PROVE  /\ BackedAdded(backed, backed', s, i, "ClosedLoopDeposit")
             /\ BackedAdded(backed, backed', s, i, "ReserveBackedWithdrawable")
  <2>1. /\ BackedAdded(backed, [backed EXCEPT ![s.settlement_id] = s], s, i,
                       "ClosedLoopDeposit")
        /\ BackedAdded(backed, [backed EXCEPT ![s.settlement_id] = s], s, i,
                       "ReserveBackedWithdrawable")
    BY <1>2, StoredBacked, Zenon
  <2> QED  BY <1>2, <2>1
<1>6. ASSUME NEW i \in Issuers
      PROVE  PeerSums(i, receipts, novations, backed, peer[i])'
  <2>1. PeerSums(i, receipts, novations, backed, peer[i])
    BY DEF SumsOK
  <2>2. /\ i = s.from_issuer => peer'[i].outstanding = peer[i].outstanding - s.amount
        /\ i # s.from_issuer => peer'[i].outstanding = peer[i].outstanding
        /\ peer[i].outstanding \in Nat
    BY <1>2, <1>3, <1>4, LedgerTypes
  <2>3. /\ Weighed(receipts, ReceiptWeight(i, "PeerCredit")) \in Nat
        /\ Weighed(novations, ToWeight(i)) \in Nat
        /\ Weighed(novations, FromWeight(i)) \in Nat
        /\ Weighed(backed, DebtWeight(i)) \in Nat
    BY SumTypes
  <2> QED  BY <1>1, <1>5, <2>1, <2>2, <2>3 DEF PeerSums, BackedAdded
<1>7. CASE s.value_class = "ClosedLoopDeposit"
  <2>1. /\ closed' = [closed EXCEPT ![s.backing_issuer] =
                         AllocateClosed(closed[s.backing_issuer], s.amount)]
        /\ UNCHANGED reserve
    BY <1>7 DEF SettlePeerCreditWithBacking
  <2>2. ASSUME NEW i \in Issuers
        PROVE  /\ s.backing_issuer = i => closed'[i].claimable = closed[i].claimable + s.amount
               /\ s.backing_issuer # i => closed'[i].claimable = closed[i].claimable
               /\ closed'[i].consumed = closed[i].consumed
               /\ closed'[i].deposited = closed[i].deposited
               /\ closed[i].claimable \in Nat /\ closed[i].consumed \in Nat
    BY <1>2, <2>1, LedgerTypes, LedgerMoves
  <2>3. ASSUME NEW i \in Issuers
        PROVE  /\ ClosedSums(i, receipts, backed, consumptions, closed[i])'
               /\ ReserveSums(i, receipts, backed, settlements, reserve[i])'
    <3>1. /\ ClosedSums(i, receipts, backed, consumptions, closed[i])
          /\ ReserveSums(i, receipts, backed, settlements, reserve[i])
      BY DEF SumsOK
    <3>2. /\ Weighed(receipts, ReceiptWeight(i, "ClosedLoopDeposit")) \in Nat
          /\ Weighed(backed, BackingWeight(i, "ClosedLoopDeposit")) \in Nat
      BY SumTypes
    <3>3. ClosedSums(i, receipts, backed, consumptions, closed[i])'
      BY <1>1, <1>5, <1>7, <2>2, <3>1, <3>2 DEF ClosedSums, BackedAdded
    <3>4. ReserveSums(i, receipts, backed, settlements, reserve[i])'
      BY <1>1, <1>5, <1>7, <2>1, <3>1 DEF ReserveSums, BackedAdded
    <3> QED  BY <3>3, <3>4
  <2> QED  BY <1>1, <1>6, <2>1, <2>2, <2>3, SameDeposits DEF SumsOK
<1>8. CASE s.value_class = "ReserveBackedWithdrawable"
  <2>1. /\ reserve' = [reserve EXCEPT ![s.backing_issuer] =
                          AllocateReserve(reserve[s.backing_issuer], s.amount)]
        /\ UNCHANGED closed
    BY <1>8 DEF SettlePeerCreditWithBacking
  <2>2. ASSUME NEW i \in Issuers
        PROVE  /\ s.backing_issuer = i => reserve'[i].redeemable = reserve[i].redeemable + s.amount
               /\ s.backing_issuer # i => reserve'[i].redeemable = reserve[i].redeemable
               /\ reserve'[i].pending = reserve[i].pending
               /\ reserve'[i].settled = reserve[i].settled
               /\ reserve'[i].deposited = reserve[i].deposited
               /\ reserve[i].redeemable \in Nat /\ reserve[i].pending \in Nat
               /\ reserve[i].settled \in Nat
    BY <1>2, <2>1, LedgerTypes, LedgerMoves
  <2>3. ASSUME NEW i \in Issuers
        PROVE  /\ ClosedSums(i, receipts, backed, consumptions, closed[i])'
               /\ ReserveSums(i, receipts, backed, settlements, reserve[i])'
    <3>1. /\ ClosedSums(i, receipts, backed, consumptions, closed[i])
          /\ ReserveSums(i, receipts, backed, settlements, reserve[i])
      BY DEF SumsOK
    <3>2. /\ Weighed(receipts, ReceiptWeight(i, "ReserveBackedWithdrawable")) \in Nat
          /\ Weighed(backed, BackingWeight(i, "ReserveBackedWithdrawable")) \in Nat
      BY SumTypes
    <3>3. ClosedSums(i, receipts, backed, consumptions, closed[i])'
      BY <1>1, <1>5, <1>8, <2>1, <3>1 DEF ClosedSums, BackedAdded
    <3>4. ReserveSums(i, receipts, backed, settlements, reserve[i])'
      BY <1>1, <1>5, <1>8, <2>2, <3>1, <3>2 DEF ReserveSums, BackedAdded
    <3> QED  BY <3>3, <3>4
  <2> QED  BY <1>1, <1>6, <2>1, <2>2, <2>3, SameDeposits DEF SumsOK
<1> QED  BY <1>7, <1>8 DEF SettlePeerCreditWithBacking

\* consume_closed_loop turns claimable value into consumed value.
LEMMA ConsumptionSumsStep ==
    ASSUME AccountInv, SumsOK, NEW c \in Consumptions, NEW auth \in Peers,
           ConsumeClosedLoop(c, auth)
    PROVE  SumsOK'
<1>1. /\ c.amount \in Nat
      /\ UNCHANGED <<peer, reserve, receipts, novations, deposits, backed, settlements>>
  BY InputAssumption, PolicyAssumption DEF ConsumeClosedLoop, ClosedLoopConsumption, U64
<1>2. /\ c.issuer \in Issuers /\ c.consumption_id \in Ids
      /\ consumptions \in [Ids -> Consumptions \cup {None}]
      /\ consumptions[c.consumption_id] = None
      /\ consumptions' = [consumptions EXCEPT ![c.consumption_id] = c]
      /\ closed' = [closed EXCEPT ![c.issuer] = Consume(closed[c.issuer], c.amount)]
  BY InputAssumption
     DEF ConsumeClosedLoop, ValidClosedLoopConsumption, ClosedLoopConsumption, AccountInv,
         RecordsOK
<1>3. ASSUME NEW i \in Issuers
      PROVE  /\ c.issuer = i => /\ closed'[i].claimable = closed[i].claimable - c.amount
                                /\ closed'[i].consumed = closed[i].consumed + c.amount
             /\ c.issuer # i => closed'[i] = closed[i]
             /\ closed'[i].deposited = closed[i].deposited
             /\ closed[i].claimable \in Nat /\ closed[i].consumed \in Nat
  BY <1>2, LedgerTypes, LedgerMoves
<1>4. ASSUME NEW i \in Issuers
      PROVE  /\ PeerSums(i, receipts, novations, backed, peer[i])'
             /\ ClosedSums(i, receipts, backed, consumptions, closed[i])'
             /\ ReserveSums(i, receipts, backed, settlements, reserve[i])'
  <2>1. /\ PeerSums(i, receipts, novations, backed, peer[i])
        /\ ClosedSums(i, receipts, backed, consumptions, closed[i])
        /\ ReserveSums(i, receipts, backed, settlements, reserve[i])
    BY DEF SumsOK
  <2>2. ConsumptionAdded(consumptions, consumptions', c, i)
    <3>1. ConsumptionAdded(consumptions, [consumptions EXCEPT ![c.consumption_id] = c], c, i)
      BY <1>2, StoredConsumption, Zenon
    <3> QED  BY <1>2, <3>1
  <2>3. ClosedSums(i, receipts, backed, consumptions, closed[i])'
    BY <1>1, <1>3, <2>1, <2>2 DEF ClosedSums, ConsumptionAdded
  <2> QED  BY <1>1, <2>1, <2>3
<1> QED  BY <1>1, <1>3, <1>4, SameDeposits DEF SumsOK

\* A step that touches one reserve ledger and the settlements.
LEMMA ReserveOnly ==
    ASSUME AccountInv, SumsOK,
           UNCHANGED <<peer, closed, receipts, novations, deposits, backed, consumptions>>,
           \A i \in Issuers :
              /\ reserve'[i].deposited = reserve[i].deposited
              /\ reserve'[i].redeemable + reserve'[i].pending + reserve'[i].settled
                   = reserve[i].redeemable + reserve[i].pending + reserve[i].settled
              /\ Weighed(settlements', PendingWeight(i)) = reserve'[i].pending
              /\ Weighed(settlements', SettledWeight(i)) = reserve'[i].settled
    PROVE  SumsOK'
<1>1. ASSUME NEW i \in Issuers
      PROVE  /\ PeerSums(i, receipts, novations, backed, peer[i])'
             /\ ClosedSums(i, receipts, backed, consumptions, closed[i])'
             /\ ReserveSums(i, receipts, backed, settlements, reserve[i])'
  <2>1. /\ PeerSums(i, receipts, novations, backed, peer[i])
        /\ ClosedSums(i, receipts, backed, consumptions, closed[i])
        /\ ReserveSums(i, receipts, backed, settlements, reserve[i])
    BY DEF SumsOK
  <2>2. ReserveSums(i, receipts, backed, settlements, reserve[i])'
    BY <2>1 DEF ReserveSums
  <2> QED  BY <2>1, <2>2
<1> QED  BY <1>1, SameDeposits DEF SumsOK

\* authorize_external_settlement moves the reserved amount to pending.
LEMMA AuthorizeSumsStep ==
    ASSUME AccountInv, SumsOK, NEW r \in SettlementRequests, NEW auth \in Peers,
           NEW t \in Times, AuthorizeExternalSettlement(r, auth, t)
    PROVE  SumsOK'
<1> DEFINE reserved == r.amount + r.max_fee
           record == [request |-> r,
                      authorization |-> [reserved |-> reserved, authorized_at |-> t],
                      state |-> "Pending", fee |-> 0]
<1>1. /\ r.issuer \in Issuers /\ r.amount \in Nat /\ r.max_fee \in Nat
      /\ r.settlement_id \in Ids /\ t \in U64 /\ reserved \in U64 /\ 0 \in U64
  BY InputAssumption, PolicyAssumption
     DEF AuthorizeExternalSettlement, ValidSettlementIdentity, ExternalSettlementRequest, U64
<1>2. record \in SettlementRecord
  BY <1>1 DEF SettlementRecord, ExternalSettlementAuthorization
<1>3. /\ settlements' = [settlements EXCEPT ![r.settlement_id] = record]
      /\ settlements[r.settlement_id] = None
      /\ reserve' = [reserve EXCEPT ![r.issuer] = Authorize(reserve[r.issuer], reserved)]
      /\ UNCHANGED <<peer, closed, receipts, novations, deposits, backed, consumptions>>
  BY DEF AuthorizeExternalSettlement
<1>4. record.request = r /\ record.state = "Pending"
  OBVIOUS
<1> HIDE DEF record
<1>5. ASSUME NEW i \in Issuers
      PROVE  /\ reserve'[i].deposited = reserve[i].deposited
             /\ reserve'[i].redeemable + reserve'[i].pending + reserve'[i].settled
                  = reserve[i].redeemable + reserve[i].pending + reserve[i].settled
             /\ Weighed(settlements', PendingWeight(i)) = reserve'[i].pending
             /\ Weighed(settlements', SettledWeight(i)) = reserve'[i].settled
  <2>1. /\ reserve[i].redeemable \in Nat /\ reserve[i].pending \in Nat
        /\ reserve[i].settled \in Nat
        /\ r.issuer = i => /\ reserve'[i].redeemable = reserve[i].redeemable - reserved
                           /\ reserve'[i].pending = reserve[i].pending + reserved
                           /\ reserve'[i].settled = reserve[i].settled
                           /\ reserve'[i].deposited = reserve[i].deposited
        /\ r.issuer # i => reserve'[i] = reserve[i]
    BY <1>1, <1>3, LedgerTypes, LedgerMoves
  <2>2. SettlementAdded(settlements, settlements', record, i)
    <3>1. settlements \in [Ids -> SettlementRecord \cup {None}]
      BY DEF AccountInv, RecordsOK
    <3>2. SettlementAdded(settlements, [settlements EXCEPT ![r.settlement_id] = record], record, i)
      BY <1>1, <1>2, <1>3, <3>1, StoredSettlement, Zenon
    <3> QED  BY <1>3, <3>2
  <2>3. /\ r.issuer = i => PendingWeight(i)[record] = reserved
        /\ r.issuer # i => PendingWeight(i)[record] = 0
        /\ SettledWeight(i)[record] = 0
    BY <1>2, <1>4, SettlementWeights
  <2>4. /\ Weighed(settlements, PendingWeight(i)) = reserve[i].pending
        /\ Weighed(settlements, SettledWeight(i)) = reserve[i].settled
    BY DEF SumsOK, ReserveSums
  <2>5. reserved \in Nat
    BY <1>1
  <2> HIDE DEF reserved
  <2> QED  BY <2>1, <2>2, <2>3, <2>4, <2>5 DEF SettlementAdded
<1> QED  BY <1>3, <1>5, ReserveOnly

\* The sums of issuer i after the pending request q was finished.
FinishedSums(m, w, q, state, fee, i) ==
    /\ i # q.issuer =>
          /\ Weighed(w, PendingWeight(i)) = Weighed(m, PendingWeight(i))
          /\ Weighed(w, SettledWeight(i)) = Weighed(m, SettledWeight(i))
    /\ i = q.issuer =>
          /\ q.amount + q.max_fee <= Weighed(m, PendingWeight(i))
          /\ Weighed(w, PendingWeight(i))
               = Weighed(m, PendingWeight(i)) - (q.amount + q.max_fee)
          /\ state = "Completed" =>
                Weighed(w, SettledWeight(i)) = Weighed(m, SettledWeight(i)) + q.amount + fee
          /\ state = "Cancelled" =>
                Weighed(w, SettledWeight(i)) = Weighed(m, SettledWeight(i))

\* What a pending record and the record that finishes it count for.
LEMMA FinishWeights ==
    ASSUME AccountInv, NEW id \in Ids, Pending(id), NEW fee \in U64,
           NEW state \in {"Completed", "Cancelled"}, NEW i,
           settlements' = [settlements EXCEPT ![id] = Finished(@, state, fee)]
    PROVE  FinishedSums(settlements, settlements', settlements[id].request, state, fee, i)
<1>1. PICK old \in SettlementRecord : old = settlements[id]
  BY PendingRecord
<1>2. PICK q \in ExternalSettlementRequest : q = old.request
  BY <1>1, InputAssumption DEF SettlementRecord
<1>3. PICK new \in SettlementRecord : new = Finished(settlements[id], state, fee)
  BY PendingRecord
<1>4. /\ old.state = "Pending" /\ old # None
      /\ new.request = q /\ new.state = state /\ new.fee = fee
      /\ q.amount \in Nat /\ q.max_fee \in Nat /\ fee \in Nat
  BY <1>1, <1>2, <1>3, PolicyAssumption
     DEF Pending, Finished, ExternalSettlementRequest, U64
<1>5. SettlementReplaced(settlements, settlements', old, new, i)
  <2>1. settlements \in [Ids -> SettlementRecord \cup {None}]
    BY DEF AccountInv, RecordsOK
  <2>2. settlements[id] # None
    BY <1>1, <1>4
  <2>3. SettlementReplaced(settlements, [settlements EXCEPT ![id] = new], settlements[id], new, i)
    BY <2>1, <2>2, StoredSettlement, Zenon
  <2>4. settlements' = [settlements EXCEPT ![id] = new]
    BY <1>3
  <2> QED  BY <1>1, <2>3, <2>4
<1>6. /\ q.issuer # i => PendingWeight(i)[old] = 0 /\ SettledWeight(i)[old] = 0
      /\ q.issuer = i => /\ PendingWeight(i)[old] = q.amount + q.max_fee
                         /\ SettledWeight(i)[old] = 0
  BY <1>2, <1>4, SettlementWeights
<1>7. /\ q.issuer # i => PendingWeight(i)[new] = 0 /\ SettledWeight(i)[new] = 0
      /\ q.issuer = i => PendingWeight(i)[new] = 0
      /\ q.issuer = i /\ state = "Completed" => SettledWeight(i)[new] = q.amount + fee
      /\ q.issuer = i /\ state = "Cancelled" => SettledWeight(i)[new] = 0
  BY <1>4, SettlementWeights
<1>8. /\ Weighed(settlements, PendingWeight(i)) \in Nat
      /\ Weighed(settlements, SettledWeight(i)) \in Nat
  BY SumTypes
<1>9. settlements[id].request = q
  BY <1>1, <1>2
<1>10. CASE q.issuer # i
  BY <1>5, <1>6, <1>7, <1>8, <1>9, <1>10 DEF SettlementReplaced, FinishedSums
<1>11. CASE q.issuer = i
  BY <1>4, <1>5, <1>6, <1>7, <1>8, <1>9, <1>11 DEF SettlementReplaced, FinishedSums
<1> QED  BY <1>10, <1>11

\* complete_external_settlement: what was reserved leaves pending, what was
\* spent is settled and the rest is redeemable again.
LEMMA CompleteSumsStep ==
    ASSUME AccountInv, SumsOK, NEW id \in Ids, NEW fee \in Fees,
           CompleteExternalSettlement(id, fee)
    PROVE  SumsOK'
<1>1. PICK q \in SettlementRequests : q = settlements[id].request
  BY PendingRecord, PolicyAssumption, InputAssumption
     DEF CompleteExternalSettlement, U64
<1> DEFINE spent == q.amount + fee
           unused == q.max_fee - fee
           completed == Complete(reserve[q.issuer], spent)
           final == IF unused > 0 THEN Cancel(completed, unused) ELSE completed
<1>2. /\ Pending(id) /\ fee \in U64 /\ fee \in Nat /\ fee <= q.max_fee
      /\ settlements' = [settlements EXCEPT ![id] = Finished(@, "Completed", fee)]
      /\ reserve' = [reserve EXCEPT ![q.issuer] = final]
      /\ UNCHANGED <<peer, closed, receipts, novations, deposits, backed, consumptions>>
  BY <1>1, InputAssumption, PolicyAssumption DEF CompleteExternalSettlement, U64
<1>3. q.issuer \in Issuers /\ q.amount \in Nat /\ q.max_fee \in Nat
  BY <1>1, <1>2, PendingRecord, PolicyAssumption DEF U64
<1>4. /\ final.deposited = reserve[q.issuer].deposited
      /\ final.redeemable = reserve[q.issuer].redeemable + unused
      /\ final.pending = reserve[q.issuer].pending - (q.amount + q.max_fee)
      /\ final.settled = reserve[q.issuer].settled + q.amount + fee
  <2>1. /\ reserve[q.issuer].redeemable \in Nat /\ reserve[q.issuer].pending \in Nat
        /\ reserve[q.issuer].settled \in Nat
    BY <1>3, LedgerTypes
  <2>2. /\ completed.deposited = reserve[q.issuer].deposited
        /\ completed.redeemable = reserve[q.issuer].redeemable
        /\ completed.pending = reserve[q.issuer].pending - spent
        /\ completed.settled = reserve[q.issuer].settled + spent
    BY LedgerMoves
  <2>3. CASE unused > 0
    <3>1. /\ final.deposited = completed.deposited
          /\ final.redeemable = completed.redeemable + unused
          /\ final.pending = completed.pending - unused
          /\ final.settled = completed.settled
      BY <2>3, LedgerMoves
    <3> HIDE DEF final, completed
    <3> QED  BY <1>2, <1>3, <2>1, <2>2, <3>1
  <2>4. CASE ~(unused > 0)
    <3>1. final = completed /\ fee = q.max_fee
      BY <1>2, <1>3, <2>4
    <3> HIDE DEF final, completed
    <3> QED  BY <1>2, <1>3, <2>1, <2>2, <3>1
  <2> QED  BY <2>3, <2>4
<1> HIDE DEF final
<1>5. ASSUME NEW i \in Issuers
      PROVE  /\ reserve'[i].deposited = reserve[i].deposited
             /\ reserve'[i].redeemable + reserve'[i].pending + reserve'[i].settled
                  = reserve[i].redeemable + reserve[i].pending + reserve[i].settled
             /\ Weighed(settlements', PendingWeight(i)) = reserve'[i].pending
             /\ Weighed(settlements', SettledWeight(i)) = reserve'[i].settled
  <2>1. /\ Weighed(settlements, PendingWeight(i)) = reserve[i].pending
        /\ Weighed(settlements, SettledWeight(i)) = reserve[i].settled
    BY DEF SumsOK, ReserveSums
  <2>2. /\ i # q.issuer =>
              /\ Weighed(settlements', PendingWeight(i)) = Weighed(settlements, PendingWeight(i))
              /\ Weighed(settlements', SettledWeight(i)) = Weighed(settlements, SettledWeight(i))
        /\ i = q.issuer =>
              /\ Weighed(settlements', PendingWeight(i))
                   = Weighed(settlements, PendingWeight(i)) - (q.amount + q.max_fee)
              /\ Weighed(settlements', SettledWeight(i))
                   = Weighed(settlements, SettledWeight(i)) + q.amount + fee
    <3>1. FinishedSums(settlements, settlements', settlements[id].request, "Completed", fee, i)
      BY <1>2, FinishWeights
    <3>2. FinishedSums(settlements, settlements', q, "Completed", fee, i)
      BY <1>1, <3>1
    <3> QED  BY ONLY <3>2 DEF FinishedSums
  <2>3. /\ i = q.issuer => reserve'[i] = final
        /\ i # q.issuer => reserve'[i] = reserve[i]
        /\ reserve[i].redeemable \in Nat /\ reserve[i].pending \in Nat
        /\ reserve[i].settled \in Nat
    BY <1>2, <1>3, LedgerTypes
  <2> QED  BY <1>2, <1>3, <1>4, <2>1, <2>2, <2>3
<1> QED  BY <1>2, <1>5, ReserveOnly

\* cancel_external_settlement makes what was reserved redeemable again.
LEMMA CancelSumsStep ==
    ASSUME AccountInv, SumsOK, NEW id \in Ids, CancelExternalSettlement(id)
    PROVE  SumsOK'
<1>1. PICK q \in SettlementRequests : q = settlements[id].request
  BY PendingRecord, PolicyAssumption DEF CancelExternalSettlement, U64
<1> DEFINE reserved == q.amount + q.max_fee
<1>2. /\ Pending(id) /\ 0 \in U64
      /\ settlements' = [settlements EXCEPT ![id] = Finished(@, "Cancelled", 0)]
      /\ UNCHANGED <<peer, closed, receipts, novations, deposits, backed, consumptions>>
  BY PolicyAssumption DEF CancelExternalSettlement, U64
<1>3. q.issuer \in Issuers /\ q.amount \in Nat /\ q.max_fee \in Nat
  BY <1>1, <1>2, PendingRecord, PolicyAssumption DEF U64
<1>4. settlements[id].authorization.reserved = reserved
  BY <1>1, <1>2 DEF Pending, AccountInv, RecordsOK
<1>5. reserve' = [reserve EXCEPT ![q.issuer] = Cancel(reserve[q.issuer], reserved)]
  BY <1>1, <1>4 DEF CancelExternalSettlement
<1>6. reserved \in Nat
  BY <1>3
<1>7. ASSUME NEW i \in Issuers
      PROVE  /\ reserve'[i].deposited = reserve[i].deposited
             /\ reserve'[i].redeemable + reserve'[i].pending + reserve'[i].settled
                  = reserve[i].redeemable + reserve[i].pending + reserve[i].settled
             /\ Weighed(settlements', PendingWeight(i)) = reserve'[i].pending
             /\ Weighed(settlements', SettledWeight(i)) = reserve'[i].settled
  <2>1. /\ Weighed(settlements, PendingWeight(i)) = reserve[i].pending
        /\ Weighed(settlements, SettledWeight(i)) = reserve[i].settled
    BY DEF SumsOK, ReserveSums
  <2>2. /\ i # q.issuer =>
              /\ Weighed(settlements', PendingWeight(i)) = Weighed(settlements, PendingWeight(i))
              /\ Weighed(settlements', SettledWeight(i)) = Weighed(settlements, SettledWeight(i))
        /\ i = q.issuer =>
              /\ Weighed(settlements', PendingWeight(i))
                   = Weighed(settlements, PendingWeight(i)) - reserved
              /\ Weighed(settlements', SettledWeight(i)) = Weighed(settlements, SettledWeight(i))
    <3>1. FinishedSums(settlements, settlements', settlements[id].request, "Cancelled", 0, i)
      BY <1>2, FinishWeights
    <3>2. FinishedSums(settlements, settlements', q, "Cancelled", 0, i)
      BY <1>1, <3>1
    <3> QED  BY ONLY <3>2 DEF FinishedSums
  <2>3. /\ i = q.issuer => /\ reserve'[i].redeemable = reserve[i].redeemable + reserved
                           /\ reserve'[i].pending = reserve[i].pending - reserved
                           /\ reserve'[i].settled = reserve[i].settled
                           /\ reserve'[i].deposited = reserve[i].deposited
        /\ i # q.issuer => reserve'[i] = reserve[i]
        /\ reserve[i].redeemable \in Nat /\ reserve[i].pending \in Nat
        /\ reserve[i].settled \in Nat
    BY <1>3, <1>5, LedgerTypes, LedgerMoves
  <2> HIDE DEF reserved
  <2> QED  BY <1>6, <2>1, <2>2, <2>3
<1> QED  BY <1>2, <1>7, ReserveOnly

\* Every step of the account keeps the sums.
LEMMA NextSums == AccountInv /\ SumsOK /\ [Next]_vars => SumsOK'
<1> SUFFICES ASSUME AccountInv, SumsOK, [Next]_vars PROVE SumsOK'
  OBVIOUS
<1>1. CASE UNCHANGED vars
  <2>1. DepositsKeyed' /\ \A i \in Issuers : DepositSums(i, Kept(deposits), closed[i], reserve[i])'
    BY <1>1, SameDeposits DEF vars
  <2>2. ASSUME NEW i \in Issuers
        PROVE  /\ PeerSums(i, receipts, novations, backed, peer[i])'
               /\ ClosedSums(i, receipts, backed, consumptions, closed[i])'
               /\ ReserveSums(i, receipts, backed, settlements, reserve[i])'
    BY <1>1 DEF vars, SumsOK
  <2> QED  BY <2>1, <2>2 DEF SumsOK
<1>2. CASE Next
  BY <1>2, DepositSumsStep, ReceiptSumsStep, NovationSumsStep, BackedSumsStep,
     ConsumptionSumsStep, AuthorizeSumsStep, CompleteSumsStep, CancelSumsStep DEF Next
<1> QED  BY <1>1, <1>2

\* In every reachable account the ledgers are what the records add up to.
THEOREM SumsInvariance == Spec => [](AccountInv /\ SumsOK)
<1>1. Init => AccountInv /\ SumsOK
  BY InitInv, InitSums
<1>2. (AccountInv /\ SumsOK) /\ [Next]_vars => (AccountInv /\ SumsOK)'
  BY NextInv, NextSums
<1> QED  BY <1>1, <1>2, PTL DEF Spec

-----------------------------------------------------------------------------
(* The sums of snapshot.rs are the weighed record maps.                     *)

\* Each sum of the snapshot's records, as a weighed map.
LEMMA SnapshotSums ==
    ASSUME AccountInv, NEW i, NEW class
    PROVE  /\ PeerCredits(Snapshot, i) = Weighed(receipts, ReceiptWeight(i, "PeerCredit"))
                                           + Weighed(novations, ToWeight(i))
           /\ PeerDebits(Snapshot, i) = Weighed(novations, FromWeight(i))
                                          + Weighed(backed, DebtWeight(i))
           /\ Deposited(Snapshot, i, class) = DepositSum(Kept(deposits), i, class)
           /\ Allocated(Snapshot, i, class) = Weighed(receipts, ReceiptWeight(i, class))
                                                + Weighed(backed, BackingWeight(i, class))
           /\ Consumed(Snapshot, i) = Weighed(consumptions, ConsumptionWeight(i))
           /\ PendingExternal(Snapshot, i) = Weighed(settlements, PendingWeight(i))
           /\ SettledExternal(Snapshot, i) = Weighed(settlements, SettledWeight(i))
<1> DEFINE Terms(map, wt) == [k \in DOMAIN map |-> IF map[k] = None THEN 0 ELSE wt[map[k]]]
           OfReceipts(m, c) ==
               [k \in DOMAIN m |-> IF m[k] # None /\ (m[k].issuer = i /\ m[k].value_class = c)
                                   THEN m[k].amount ELSE 0]
           To(m) == [k \in DOMAIN m |-> IF m[k] # None /\ m[k].to_issuer = i
                                        THEN m[k].amount ELSE 0]
           From(m) == [k \in DOMAIN m |-> IF m[k] # None /\ m[k].from_issuer = i
                                          THEN m[k].amount ELSE 0]
           Backing(m, c) ==
               [k \in DOMAIN m |-> IF m[k] # None
                                        /\ (m[k].backing_issuer = i /\ m[k].value_class = c)
                                   THEN m[k].amount ELSE 0]
           OfIssuer(m) == [k \in DOMAIN m |-> IF m[k] # None /\ m[k].issuer = i
                                              THEN m[k].amount ELSE 0]
           OfPending(m) ==
               [k \in DOMAIN m |-> IF m[k] # None
                                        /\ (m[k].request.issuer = i /\ m[k].state = "Pending")
                                   THEN m[k].request.amount + m[k].request.max_fee ELSE 0]
           OfSettled(m) ==
               [k \in DOMAIN m |-> IF m[k] # None
                                        /\ (m[k].request.issuer = i /\ m[k].state = "Completed")
                                   THEN m[k].request.amount + m[k].fee ELSE 0]
<1>1. /\ Snapshot.receipts = receipts /\ Snapshot.novations = novations
      /\ Snapshot.backed = backed /\ Snapshot.consumptions = consumptions
      /\ Snapshot.settlements = settlements /\ Snapshot.deposits = Kept(deposits)
  BY DEF Snapshot
<1>2. /\ receipts \in [Ids -> Claims \cup {None}]
      /\ novations \in [Ids -> Novations \cup {None}]
      /\ backed \in [Ids -> BackedSettlements \cup {None}]
      /\ consumptions \in [Ids -> Consumptions \cup {None}]
      /\ settlements \in [Ids -> SettlementRecord \cup {None}]
  BY DEF AccountInv, RecordsOK
<1>3. \A c : OfReceipts(receipts, c) = Terms(receipts, ReceiptWeight(i, c))
  BY <1>2 DEF ReceiptWeight
<1>4. To(novations) = Terms(novations, ToWeight(i))
  BY <1>2 DEF ToWeight
<1>5. From(novations) = Terms(novations, FromWeight(i))
  BY <1>2 DEF FromWeight
<1>6. From(backed) = Terms(backed, DebtWeight(i))
  BY <1>2 DEF DebtWeight
<1>7. Backing(backed, class) = Terms(backed, BackingWeight(i, class))
  BY <1>2 DEF BackingWeight
<1>8. OfIssuer(consumptions) = Terms(consumptions, ConsumptionWeight(i))
  BY <1>2 DEF ConsumptionWeight
<1>9. OfPending(settlements) = Terms(settlements, PendingWeight(i))
  BY <1>2 DEF PendingWeight
<1>10. OfSettled(settlements) = Terms(settlements, SettledWeight(i))
  BY <1>2 DEF SettledWeight
<1>11. \A map, wt : Weighed(map, wt) = SumFunctionOnSet(Terms(map, wt), DOMAIN map)
  BY Zenon DEF Weighed
<1>12. PeerCredits(Snapshot, i)
         = SumFunctionOnSet(OfReceipts(Snapshot.receipts, "PeerCredit"), DOMAIN Snapshot.receipts)
             + SumFunctionOnSet(To(Snapshot.novations), DOMAIN Snapshot.novations)
  BY Zenon DEF PeerCredits, Total, Amount
<1>13. PeerDebits(Snapshot, i)
         = SumFunctionOnSet(From(Snapshot.novations), DOMAIN Snapshot.novations)
             + SumFunctionOnSet(From(Snapshot.backed), DOMAIN Snapshot.backed)
  BY Zenon DEF PeerDebits, Total, Amount
<1>14. Deposited(Snapshot, i, class) = DepositSum(Kept(deposits), i, class)
  BY <1>1, Zenon DEF Deposited, DepositSum
<1>15. Allocated(Snapshot, i, class)
         = SumFunctionOnSet(OfReceipts(Snapshot.receipts, class), DOMAIN Snapshot.receipts)
             + SumFunctionOnSet(Backing(Snapshot.backed, class), DOMAIN Snapshot.backed)
  BY Zenon DEF Allocated, Total, Amount
<1>16. Consumed(Snapshot, i)
         = SumFunctionOnSet(OfIssuer(Snapshot.consumptions), DOMAIN Snapshot.consumptions)
  BY Zenon DEF Consumed, Total, Amount
<1>17. PendingExternal(Snapshot, i)
         = SumFunctionOnSet(OfPending(Snapshot.settlements), DOMAIN Snapshot.settlements)
  BY Zenon DEF PendingExternal, Total
<1>18. SettledExternal(Snapshot, i)
         = SumFunctionOnSet(OfSettled(Snapshot.settlements), DOMAIN Snapshot.settlements)
  BY Zenon DEF SettledExternal, Total
<1> HIDE DEF Terms, OfReceipts, To, From, Backing, OfIssuer, OfPending, OfSettled
<1>19. PeerCredits(Snapshot, i) = Weighed(receipts, ReceiptWeight(i, "PeerCredit"))
                                    + Weighed(novations, ToWeight(i))
  BY <1>1, <1>3, <1>4, <1>11, <1>12, Zenon
<1>20. PeerDebits(Snapshot, i) = Weighed(novations, FromWeight(i))
                                   + Weighed(backed, DebtWeight(i))
  BY <1>1, <1>5, <1>6, <1>11, <1>13, Zenon
<1>21. Allocated(Snapshot, i, class) = Weighed(receipts, ReceiptWeight(i, class))
                                         + Weighed(backed, BackingWeight(i, class))
  BY <1>1, <1>3, <1>7, <1>11, <1>15, Zenon
<1>22. Consumed(Snapshot, i) = Weighed(consumptions, ConsumptionWeight(i))
  BY <1>1, <1>8, <1>11, <1>16, Zenon
<1>23. PendingExternal(Snapshot, i) = Weighed(settlements, PendingWeight(i))
  BY <1>1, <1>9, <1>11, <1>17, Zenon
<1>24. SettledExternal(Snapshot, i) = Weighed(settlements, SettledWeight(i))
  BY <1>1, <1>10, <1>11, <1>18, Zenon
<1> QED  BY <1>14, <1>19, <1>20, <1>21, <1>22, <1>23, <1>24

\* What leaves or may still leave through an issuer never exceeds the verified
\* withdrawable deposits of that issuer, computed from the records alone, for
\* every policy, every word size and every sequence of operations.
THEOREM PaidOutTheorem == Spec => []PaidOutWithinDeposits
<1>1. AccountInv /\ SumsOK => PaidOutWithinDeposits
  <2> SUFFICES ASSUME AccountInv, SumsOK, NEW i \in Issuers
               PROVE  PendingExternal(Snapshot, i) + SettledExternal(Snapshot, i)
                        <= Deposited(Snapshot, i, "ReserveBackedWithdrawable")
    BY DEF PaidOutWithinDeposits
  <2>1. /\ PendingExternal(Snapshot, i) = reserve[i].pending
        /\ SettledExternal(Snapshot, i) = reserve[i].settled
        /\ Deposited(Snapshot, i, "ReserveBackedWithdrawable") = reserve[i].deposited
    BY SnapshotSums DEF SumsOK, ReserveSums, DepositSums
  <2>2. reserve[i].deposited = reserve[i].available + reserve[i].redeemable
                                 + reserve[i].pending + reserve[i].settled
    BY DEF AccountInv, LedgersOK, ReserveOK
  <2>3. /\ reserve[i].available \in Nat /\ reserve[i].redeemable \in Nat
        /\ reserve[i].pending \in Nat /\ reserve[i].settled \in Nat
    BY PolicyAssumption DEF AccountInv, LedgersOK, ReserveOK, WithdrawableReserveLedger, U64
  <2> QED  BY <2>1, <2>2, <2>3
<1> QED  BY <1>1, SumsInvariance, PTL

\* A pending settlement can always be finished: whatever else happened since it
\* was authorized, completing it with any fee up to its ceiling and cancelling
\* it both pass every check of the reserve ledger.
THEOREM FinishableTheorem == Spec => []PendingSettlementsFinishable
<1>1. AccountInv /\ SumsOK => PendingSettlementsFinishable
  <2> SUFFICES ASSUME AccountInv, SumsOK, NEW id \in PendingAuthorizations
               PROVE  /\ \A fee \in 0..settlements[id].request.max_fee :
                            CanCompleteSettlement(id, fee)
                      /\ CanCancel(reserve[settlements[id].request.issuer],
                                   settlements[id].authorization.reserved)
    BY DEF PendingSettlementsFinishable
  <2>1. id \in Ids /\ Pending(id) /\ 0 \in U64
    BY PolicyAssumption DEF PendingAuthorizations, U64
  <2>2. PICK q \in SettlementRequests : q = settlements[id].request
    BY <2>1, PendingRecord
  <2>3. /\ q.issuer \in Issuers /\ q.amount \in Nat /\ q.max_fee \in Nat
        /\ settlements[id] \in SettlementRecord
    BY <2>1, <2>2, PendingRecord, PolicyAssumption DEF U64
  <2>4. PICK l \in WithdrawableReserveLedger : l = reserve[q.issuer]
    BY <2>3, LedgerTypes
  <2>5. /\ l.deposited \in 0..U64Max /\ l.available \in Nat /\ l.redeemable \in Nat
        /\ l.pending \in Nat /\ l.settled \in Nat /\ U64Max \in Nat
        /\ l.deposited = l.available + l.redeemable + l.pending + l.settled
    BY <2>3, <2>4, PolicyAssumption
       DEF AccountInv, LedgersOK, ReserveOK, WithdrawableReserveLedger, U64
  <2>6. q.amount + q.max_fee <= l.pending
    <3>1. SettlementReplaced(settlements, [settlements EXCEPT ![id] = settlements[id]],
                             settlements[id], settlements[id], q.issuer)
      <4>1. settlements \in [Ids -> SettlementRecord \cup {None}]
        BY DEF AccountInv, RecordsOK
      <4>2. settlements[id] # None
        BY <2>1 DEF Pending
      <4> QED  BY <2>1, <2>3, <4>1, <4>2, StoredSettlement, Zenon
    <3>2. PendingWeight(q.issuer)[settlements[id]] = q.amount + q.max_fee
      <4>1. settlements[id].request.issuer = q.issuer /\ settlements[id].state = "Pending"
        BY <2>1, <2>2 DEF Pending
      <4> QED  BY <2>2, <2>3, <4>1, SettlementWeights
    <3>3. Weighed(settlements, PendingWeight(q.issuer)) = l.pending
      BY <2>3, <2>4 DEF SumsOK, ReserveSums
    <3> QED  BY <3>1, <3>2, <3>3 DEF SettlementReplaced
  <2>7. settlements[id].authorization.reserved = q.amount + q.max_fee
    BY <2>1, <2>2 DEF Pending, AccountInv, RecordsOK
  <2>8. CanCancel(l, q.amount + q.max_fee)
    BY <2>3, <2>5, <2>6 DEF CanCancel
  <2>9. ASSUME NEW fee \in 0..q.max_fee
        PROVE  CanCompleteSettlement(id, fee)
    <3>1. CanComplete(l, q.amount + fee) /\ q.amount + fee <= U64Max
      BY <2>3, <2>5, <2>6 DEF CanComplete
    <3>2. fee < q.max_fee => CanCancel(Complete(l, q.amount + fee), q.max_fee - fee)
      <4>1. /\ Complete(l, q.amount + fee).redeemable = l.redeemable
            /\ Complete(l, q.amount + fee).pending = l.pending - (q.amount + fee)
        BY LedgerMoves
      <4> QED  BY <2>3, <2>5, <2>6, <4>1 DEF CanCancel
    <3> QED  BY <2>2, <2>4, <3>1, <3>2 DEF CanCompleteSettlement
  <2> QED  BY <2>2, <2>4, <2>7, <2>8, <2>9
<1> QED  BY <1>1, SumsInvariance, PTL

-----------------------------------------------------------------------------
(* Restoring a snapshot.  The checks validate makes of each record hold of   *)
(* every record an operation stores.                                        *)

ReceiptOK(k, r) ==
    /\ k = r.receipt_id /\ k # Blank
    /\ r.counterparty = Counterparty
    /\ r.useful /\ r.amount > 0
    /\ r.issued_at < r.expires_at
    /\ r.issuer \in Issuers
NovationOK(k, n) ==
    /\ k = n.novation_id /\ k # Blank
    /\ n.counterparty = Counterparty
    /\ n.from_issuer # n.to_issuer
    /\ n.amount > 0
    /\ n.from_issuer \in Issuers /\ n.to_issuer \in Issuers
DepositOK(d) ==
    /\ d.deposit_id # Blank /\ d.amount > 0
    /\ d.value_class # "PeerCredit"
    /\ d.issuer \in Issuers
BackedOK(k, b) ==
    /\ k = b.settlement_id /\ k # Blank
    /\ b.counterparty = Counterparty
    /\ b.amount > 0
    /\ b.value_class # "PeerCredit"
    /\ b.from_issuer \in Issuers /\ b.backing_issuer \in Issuers
ConsumptionOK(k, c) ==
    /\ k = c.consumption_id /\ k # Blank
    /\ c.counterparty = Counterparty
    /\ c.resource # Blank /\ c.amount > 0
    /\ c.issuer \in Issuers
SettlementOK(k, record) ==
    LET r == record.request
    IN  /\ r.amount + r.max_fee <= U64Max
        /\ k = r.settlement_id /\ k # Blank
        /\ r.counterparty = Counterparty
        /\ r.payout_destination # Blank /\ r.amount > 0
        /\ record.authorization.reserved = r.amount + r.max_fee
        /\ record.authorization.authorized_at < r.expires_at
        /\ r.issuer \in Issuers
        /\ record.state = "Completed" => record.fee <= r.max_fee

RecordsValid ==
    /\ \A k \in Ids : receipts[k] # None => ReceiptOK(k, receipts[k])
    /\ \A k \in Ids : novations[k] # None => NovationOK(k, novations[k])
    /\ \A k \in DepositKeys : deposits[k] # None => DepositOK(deposits[k])
    /\ \A k \in Ids : backed[k] # None => BackedOK(k, backed[k])
    /\ \A k \in Ids : consumptions[k] # None => ConsumptionOK(k, consumptions[k])
    /\ \A k \in Ids : settlements[k] # None => SettlementOK(k, settlements[k])

\* Every step stores only records that pass the checks of a restore.
LEMMA NextValid ==
    ASSUME AccountInv, RecordsValid, [Next]_vars
    PROVE  RecordsValid'
<1> USE DEF RecordsValid
<1>0. /\ receipts \in [Ids -> Claims \cup {None}]
      /\ novations \in [Ids -> Novations \cup {None}]
      /\ deposits \in [DepositKeys -> Deposits \cup {None}]
      /\ backed \in [Ids -> BackedSettlements \cup {None}]
      /\ consumptions \in [Ids -> Consumptions \cup {None}]
      /\ settlements \in [Ids -> SettlementRecord \cup {None}]
  BY DEF AccountInv, RecordsOK
<1>1. ASSUME NEW d \in Deposits, NEW auth \in Peers, RecordBackingDeposit(d, auth)
      PROVE  RecordsValid'
  <2>1. DepositOK(d) /\ deposits' = [deposits EXCEPT ![DepositKey(d)] = d]
    BY <1>1 DEF RecordBackingDeposit, ValidBackingDeposit, DepositOK
  <2>2. \A k \in DepositKeys : deposits'[k] # None => DepositOK(deposits'[k])
    BY <1>0, <2>1
  <2> QED  BY <1>1, <2>2 DEF RecordBackingDeposit
<1>2. ASSUME NEW c \in Claims, NEW auth \in Peers, NEW mode \in AcceptanceMode,
             NEW t \in Times, ApplyReceipt(c, auth, mode, t)
      PROVE  RecordsValid'
  <2>1. c.issued_at \in Nat /\ c.expires_at \in Nat /\ t \in Nat
    BY InputAssumption, PolicyAssumption DEF ServiceReceiptClaim, U64
  <2>2. /\ ReceiptOK(c.receipt_id, c)
        /\ receipts' = [receipts EXCEPT ![c.receipt_id] = c]
    BY <1>2, <2>1 DEF ApplyReceipt, ValidReceiptIdentity, ValidReceipt, ReceiptOK
  <2>3. \A k \in Ids : receipts'[k] # None => ReceiptOK(k, receipts'[k])
    BY <1>0, <2>2
  <2> QED  BY <1>2, <2>3 DEF ApplyReceipt
<1>3. ASSUME NEW n \in Novations, NEW auth \in Peers, NEW t \in Times,
             NovatePeerCredit(n, auth, t)
      PROVE  RecordsValid'
  <2>1. /\ NovationOK(n.novation_id, n)
        /\ novations' = [novations EXCEPT ![n.novation_id] = n]
    BY <1>3 DEF NovatePeerCredit, ValidNovationIdentity, ValidNovation, NovationOK
  <2>2. \A k \in Ids : novations'[k] # None => NovationOK(k, novations'[k])
    BY <1>0, <2>1
  <2> QED  BY <1>3, <2>2 DEF NovatePeerCredit
<1>4. ASSUME NEW s \in BackedSettlements, NEW auth \in Peers, NEW t \in Times,
             SettlePeerCreditWithBacking(s, auth, t)
      PROVE  RecordsValid'
  <2>1. /\ BackedOK(s.settlement_id, s)
        /\ backed' = [backed EXCEPT ![s.settlement_id] = s]
    BY <1>4 DEF SettlePeerCreditWithBacking, ValidBackedSettlementIdentity,
                ValidBackedSettlement, BackedOK
  <2>2. \A k \in Ids : backed'[k] # None => BackedOK(k, backed'[k])
    BY <1>0, <2>1
  <2> QED  BY <1>4, <2>2 DEF SettlePeerCreditWithBacking
<1>5. ASSUME NEW c \in Consumptions, NEW auth \in Peers, ConsumeClosedLoop(c, auth)
      PROVE  RecordsValid'
  <2>1. /\ ConsumptionOK(c.consumption_id, c)
        /\ consumptions' = [consumptions EXCEPT ![c.consumption_id] = c]
    BY <1>5 DEF ConsumeClosedLoop, ValidClosedLoopConsumption, ConsumptionOK
  <2>2. \A k \in Ids : consumptions'[k] # None => ConsumptionOK(k, consumptions'[k])
    BY <1>0, <2>1
  <2> QED  BY <1>5, <2>2 DEF ConsumeClosedLoop
<1>6. ASSUME NEW r \in SettlementRequests, NEW auth \in Peers, NEW t \in Times,
             AuthorizeExternalSettlement(r, auth, t)
      PROVE  RecordsValid'
  <2> DEFINE record == [request |-> r,
                        authorization |-> [reserved |-> r.amount + r.max_fee, authorized_at |-> t],
                        state |-> "Pending", fee |-> 0]
  <2>1. /\ SettlementOK(r.settlement_id, record)
        /\ settlements' = [settlements EXCEPT ![r.settlement_id] = record]
    BY <1>6 DEF AuthorizeExternalSettlement, ValidSettlementIdentity, ValidSettlement, SettlementOK
  <2> HIDE DEF record
  <2>2. \A k \in Ids : settlements'[k] # None => SettlementOK(k, settlements'[k])
    BY <1>0, <2>1
  <2> QED  BY <1>6, <2>2 DEF AuthorizeExternalSettlement
<1>7. ASSUME NEW id \in Ids, NEW fee \in Fees, CompleteExternalSettlement(id, fee)
      PROVE  RecordsValid'
  <2> DEFINE record == Finished(settlements[id], "Completed", fee)
  <2>1. /\ SettlementOK(id, record)
        /\ settlements' = [settlements EXCEPT ![id] = record]
    BY <1>7 DEF CompleteExternalSettlement, Pending, SettlementOK, Finished
  <2> HIDE DEF record
  <2>2. \A k \in Ids : settlements'[k] # None => SettlementOK(k, settlements'[k])
    BY <1>0, <2>1
  <2> QED  BY <1>7, <2>2 DEF CompleteExternalSettlement
<1>8. ASSUME NEW id \in Ids, CancelExternalSettlement(id)
      PROVE  RecordsValid'
  <2> DEFINE record == Finished(settlements[id], "Cancelled", 0)
  <2>1. /\ SettlementOK(id, record)
        /\ settlements' = [settlements EXCEPT ![id] = record]
    BY <1>8 DEF CancelExternalSettlement, Pending, SettlementOK, Finished
  <2> HIDE DEF record
  <2>2. \A k \in Ids : settlements'[k] # None => SettlementOK(k, settlements'[k])
    BY <1>0, <2>1
  <2> QED  BY <1>8, <2>2 DEF CancelExternalSettlement
<1>9. CASE UNCHANGED vars
  BY <1>9 DEF vars
<1> QED
  BY <1>1, <1>2, <1>3, <1>4, <1>5, <1>6, <1>7, <1>8, <1>9 DEF Next

-----------------------------------------------------------------------------
(* The revision counts the records.                                         *)

DoneIn(map) == {k \in Stored(map) : map[k].state # "Pending"}

\* The number of records of each map and of finished settlements.
RevisionCounts ==
    revision = Cardinality(Stored(receipts)) + Cardinality(Stored(novations))
                 + Cardinality(Kept(deposits)) + Cardinality(Stored(backed))
                 + Cardinality(Stored(consumptions)) + Cardinality(Stored(settlements))
                 + Cardinality(DoneIn(settlements))

OneMore(new, old) ==
    Cardinality(new) \in Nat /\ Cardinality(old) \in Nat
      /\ Cardinality(new) = Cardinality(old) + 1

\* One record more under an unused key.
LEMMA StoredOne ==
    ASSUME NEW K, IsFiniteSet(K), NEW R, None \notin R, NEW m \in [K -> R \cup {None}],
           NEW k \in K, NEW r \in R, m[k] = None
    PROVE  OneMore(Stored([m EXCEPT ![k] = r]), Stored(m))
<1> DEFINE q == [m EXCEPT ![k] = r]
<1>1. q \in [K -> R \cup {None}] /\ q[k] = r /\ \A x \in K : x # k => q[x] = m[x]
  OBVIOUS
<1>2. DOMAIN m = K /\ DOMAIN q = K
  OBVIOUS
<1> HIDE DEF q
<1>3. Stored(q) = Stored(m) \cup {k} /\ k \notin Stored(m) /\ Stored(m) \subseteq K
  BY <1>1, <1>2 DEF Stored
<1>4. IsFiniteSet(Stored(m))
  BY <1>3, FS_Subset
<1>5. Cardinality(Stored(m) \cup {k}) = Cardinality(Stored(m)) + 1
  BY <1>3, <1>4, FS_AddElement
<1>6. Cardinality(Stored(m)) \in Nat
  BY <1>4, FS_CardinalityType
<1>7. Cardinality(Stored(q)) = Cardinality(Stored(m)) + 1
  BY <1>3, <1>5, Zenon
<1>8. OneMore(Stored(q), Stored(m))
  BY <1>6, <1>7 DEF OneMore
<1> QED  BY <1>8 DEF q

\* The numbers of records are natural numbers.
LEMMA CountTypes ==
    ASSUME AccountInv, DepositsKeyed
    PROVE  /\ Cardinality(Stored(receipts)) \in Nat
           /\ Cardinality(Stored(novations)) \in Nat
           /\ Cardinality(Kept(deposits)) \in Nat
           /\ Cardinality(Stored(backed)) \in Nat
           /\ Cardinality(Stored(consumptions)) \in Nat
           /\ Cardinality(Stored(settlements)) \in Nat
           /\ Cardinality(DoneIn(settlements)) \in Nat
           /\ IsFiniteSet(DoneIn(settlements))
<1>1. /\ Stored(receipts) \subseteq Ids /\ Stored(novations) \subseteq Ids
      /\ Stored(backed) \subseteq Ids /\ Stored(consumptions) \subseteq Ids
      /\ Stored(settlements) \subseteq Ids /\ DoneIn(settlements) \subseteq Ids
  BY DEF AccountInv, RecordsOK, Stored, DoneIn
<1>2. \A S \in SUBSET Ids : IsFiniteSet(S) /\ Cardinality(S) \in Nat
  BY NoneApart, FS_Subset, FS_CardinalityType
<1>3. Cardinality(Kept(deposits)) \in Nat
  BY FS_CardinalityType DEF DepositsKeyed
<1> QED  BY <1>1, <1>2, <1>3

\* Finishing a settlement stores no record and finishes one more.
LEMMA FinishedOne ==
    ASSUME AccountInv, DepositsKeyed, NEW id \in Ids, Pending(id), NEW fee \in U64,
           NEW state \in {"Completed", "Cancelled"},
           settlements' = [settlements EXCEPT ![id] = Finished(@, state, fee)]
    PROVE  /\ Stored(settlements') = Stored(settlements)
           /\ OneMore(DoneIn(settlements'), DoneIn(settlements))
<1>1. settlements \in [Ids -> SettlementRecord \cup {None}]
  BY DEF AccountInv, RecordsOK
<1>2. PICK new \in SettlementRecord : new = Finished(settlements[id], state, fee)
  BY PendingRecord
<1>3. new.state # "Pending" /\ new # None
  BY <1>2, NoneApart DEF Finished
<1>4. /\ settlements'[id] = new
      /\ \A k \in Ids : k # id => settlements'[k] = settlements[k]
      /\ DOMAIN settlements = Ids /\ DOMAIN settlements' = Ids
  BY <1>1, <1>2
<1>5. Stored(settlements') = Stored(settlements)
  BY <1>3, <1>4 DEF Stored, Pending
<1>6. DoneIn(settlements') = DoneIn(settlements) \cup {id} /\ id \notin DoneIn(settlements)
  BY <1>3, <1>4 DEF Stored, DoneIn, Pending
<1>7. /\ Cardinality(DoneIn(settlements) \cup {id}) = Cardinality(DoneIn(settlements)) + 1
      /\ Cardinality(DoneIn(settlements)) \in Nat
  BY <1>6, CountTypes, FS_AddElement
<1>8. Cardinality(DoneIn(settlements')) = Cardinality(DoneIn(settlements)) + 1
  BY <1>6, <1>7, Zenon
<1> QED  BY <1>5, <1>7, <1>8 DEF OneMore

\* Every applied operation counts one record or one finished settlement more.
LEMMA NextCounts ==
    ASSUME AccountInv, DepositsKeyed, RevisionCounts, [Next]_vars
    PROVE  RevisionCounts'
<1>0. /\ receipts \in [Ids -> Claims \cup {None}]
      /\ novations \in [Ids -> Novations \cup {None}]
      /\ backed \in [Ids -> BackedSettlements \cup {None}]
      /\ consumptions \in [Ids -> Consumptions \cup {None}]
      /\ settlements \in [Ids -> SettlementRecord \cup {None}]
  BY DEF AccountInv, RecordsOK
<1>1. ASSUME NEW d \in Deposits, NEW auth \in Peers, RecordBackingDeposit(d, auth)
      PROVE  RevisionCounts'
  <2>1. /\ revision' = revision + 1
        /\ UNCHANGED <<receipts, novations, backed, consumptions, settlements>>
    BY <1>1 DEF RecordBackingDeposit
  <2>2. DepositKey(d) \in DepositKeys
    BY DEF DepositKeys
  <2>3. Kept(deposits') = Kept(deposits) \cup {d} /\ d \notin Kept(deposits)
    BY <1>1, <2>2, KeptDeposit DEF RecordBackingDeposit
  <2>4. Cardinality(Kept(deposits) \cup {d}) = Cardinality(Kept(deposits)) + 1
    BY <2>3, FS_AddElement DEF DepositsKeyed
  <2>5. Cardinality(Kept(deposits')) = Cardinality(Kept(deposits)) + 1
    BY <2>3, <2>4, Zenon
  <2> QED  BY <2>1, <2>5, CountTypes DEF RevisionCounts
<1>2. ASSUME NEW c \in Claims, NEW auth \in Peers, NEW mode \in AcceptanceMode,
             NEW t \in Times, ApplyReceipt(c, auth, mode, t)
      PROVE  RevisionCounts'
  <2>1. /\ revision' = revision + 1
        /\ UNCHANGED <<novations, deposits, backed, consumptions, settlements>>
    BY <1>2 DEF ApplyReceipt
  <2>2. /\ c.receipt_id \in Ids /\ receipts[c.receipt_id] = None
        /\ receipts' = [receipts EXCEPT ![c.receipt_id] = c]
    BY <1>2, InputAssumption DEF ApplyReceipt, ServiceReceiptClaim
  <2>3. OneMore(Stored([receipts EXCEPT ![c.receipt_id] = c]), Stored(receipts))
    BY <1>0, <2>2, StoredOne, NoneApart, Zenon
  <2>4. OneMore(Stored(receipts'), Stored(receipts))
    BY <2>2, <2>3, Zenon
  <2> QED  BY <2>1, <2>4, CountTypes DEF RevisionCounts, OneMore
<1>3. ASSUME NEW n \in Novations, NEW auth \in Peers, NEW t \in Times,
             NovatePeerCredit(n, auth, t)
      PROVE  RevisionCounts'
  <2>1. /\ revision' = revision + 1
        /\ UNCHANGED <<receipts, deposits, backed, consumptions, settlements>>
    BY <1>3 DEF NovatePeerCredit
  <2>2. /\ n.novation_id \in Ids /\ novations[n.novation_id] = None
        /\ novations' = [novations EXCEPT ![n.novation_id] = n]
    BY <1>3, InputAssumption DEF NovatePeerCredit, CreditNovation
  <2>3. OneMore(Stored([novations EXCEPT ![n.novation_id] = n]), Stored(novations))
    BY <1>0, <2>2, StoredOne, NoneApart, Zenon
  <2>4. OneMore(Stored(novations'), Stored(novations))
    BY <2>2, <2>3, Zenon
  <2> QED  BY <2>1, <2>4, CountTypes DEF RevisionCounts, OneMore
<1>4. ASSUME NEW s \in BackedSettlements, NEW auth \in Peers, NEW t \in Times,
             SettlePeerCreditWithBacking(s, auth, t)
      PROVE  RevisionCounts'
  <2>1. /\ revision' = revision + 1
        /\ UNCHANGED <<receipts, novations, deposits, consumptions, settlements>>
    BY <1>4 DEF SettlePeerCreditWithBacking
  <2>2. /\ s.settlement_id \in Ids /\ backed[s.settlement_id] = None
        /\ backed' = [backed EXCEPT ![s.settlement_id] = s]
    BY <1>4, InputAssumption DEF SettlePeerCreditWithBacking, BackedCreditSettlement
  <2>3. OneMore(Stored([backed EXCEPT ![s.settlement_id] = s]), Stored(backed))
    BY <1>0, <2>2, StoredOne, NoneApart, Zenon
  <2>4. OneMore(Stored(backed'), Stored(backed))
    BY <2>2, <2>3, Zenon
  <2> QED  BY <2>1, <2>4, CountTypes DEF RevisionCounts, OneMore
<1>5. ASSUME NEW c \in Consumptions, NEW auth \in Peers, ConsumeClosedLoop(c, auth)
      PROVE  RevisionCounts'
  <2>1. /\ revision' = revision + 1
        /\ UNCHANGED <<receipts, novations, deposits, backed, settlements>>
    BY <1>5 DEF ConsumeClosedLoop
  <2>2. /\ c.consumption_id \in Ids /\ consumptions[c.consumption_id] = None
        /\ consumptions' = [consumptions EXCEPT ![c.consumption_id] = c]
    BY <1>5, InputAssumption DEF ConsumeClosedLoop, ClosedLoopConsumption
  <2>3. OneMore(Stored([consumptions EXCEPT ![c.consumption_id] = c]), Stored(consumptions))
    BY <1>0, <2>2, StoredOne, NoneApart, Zenon
  <2>4. OneMore(Stored(consumptions'), Stored(consumptions))
    BY <2>2, <2>3, Zenon
  <2> QED  BY <2>1, <2>4, CountTypes DEF RevisionCounts, OneMore
<1>6. ASSUME NEW r \in SettlementRequests, NEW auth \in Peers, NEW t \in Times,
             AuthorizeExternalSettlement(r, auth, t)
      PROVE  RevisionCounts'
  <2> DEFINE record == [request |-> r,
                        authorization |-> [reserved |-> r.amount + r.max_fee, authorized_at |-> t],
                        state |-> "Pending", fee |-> 0]
  <2>1. /\ revision' = revision + 1
        /\ UNCHANGED <<receipts, novations, deposits, backed, consumptions>>
    BY <1>6 DEF AuthorizeExternalSettlement
  <2>2. /\ r.settlement_id \in Ids /\ settlements[r.settlement_id] = None
        /\ settlements' = [settlements EXCEPT ![r.settlement_id] = record]
    BY <1>6, InputAssumption DEF AuthorizeExternalSettlement, ExternalSettlementRequest
  <2>3. record \in SettlementRecord /\ record.state = "Pending"
    <3>1. r.amount + r.max_fee \in U64 /\ t \in U64 /\ 0 \in U64
      BY <1>6, InputAssumption, PolicyAssumption
         DEF AuthorizeExternalSettlement, ExternalSettlementRequest, U64
    <3> QED  BY <3>1 DEF SettlementRecord, ExternalSettlementAuthorization
  <2> HIDE DEF record
  <2>4. OneMore(Stored([settlements EXCEPT ![r.settlement_id] = record]), Stored(settlements))
    BY <1>0, <2>2, <2>3, StoredOne, NoneApart, Zenon
  <2>5. OneMore(Stored(settlements'), Stored(settlements))
    BY <2>2, <2>4, Zenon
  <2>6. DoneIn(settlements') = DoneIn(settlements)
    BY <1>0, <2>2, <2>3 DEF DoneIn, Stored
  <2>7. Cardinality(DoneIn(settlements')) = Cardinality(DoneIn(settlements))
    BY <2>6, Zenon
  <2> QED  BY <2>1, <2>5, <2>7, CountTypes DEF RevisionCounts, OneMore
<1>7. ASSUME NEW id \in Ids, NEW fee \in Fees, CompleteExternalSettlement(id, fee)
      PROVE  RevisionCounts'
  <2>1. /\ revision' = revision + 1
        /\ UNCHANGED <<receipts, novations, deposits, backed, consumptions>>
    BY <1>7 DEF CompleteExternalSettlement
  <2>2. /\ Pending(id) /\ fee \in U64
        /\ settlements' = [settlements EXCEPT ![id] = Finished(@, "Completed", fee)]
    BY <1>7, InputAssumption DEF CompleteExternalSettlement
  <2>3. /\ Stored(settlements') = Stored(settlements)
        /\ OneMore(DoneIn(settlements'), DoneIn(settlements))
    BY <2>2, FinishedOne
  <2>4. Cardinality(Stored(settlements')) = Cardinality(Stored(settlements))
    BY <2>3, Zenon
  <2> QED  BY <2>1, <2>3, <2>4, CountTypes DEF RevisionCounts, OneMore
<1>8. ASSUME NEW id \in Ids, CancelExternalSettlement(id)
      PROVE  RevisionCounts'
  <2>1. /\ revision' = revision + 1
        /\ UNCHANGED <<receipts, novations, deposits, backed, consumptions>>
    BY <1>8 DEF CancelExternalSettlement
  <2>2. /\ Pending(id) /\ 0 \in U64
        /\ settlements' = [settlements EXCEPT ![id] = Finished(@, "Cancelled", 0)]
    BY <1>8, PolicyAssumption DEF CancelExternalSettlement, U64
  <2>3. /\ Stored(settlements') = Stored(settlements)
        /\ OneMore(DoneIn(settlements'), DoneIn(settlements))
    BY <2>2, FinishedOne
  <2>4. Cardinality(Stored(settlements')) = Cardinality(Stored(settlements))
    BY <2>3, Zenon
  <2> QED  BY <2>1, <2>3, <2>4, CountTypes DEF RevisionCounts, OneMore
<1>9. CASE UNCHANGED vars
  BY <1>9 DEF vars, RevisionCounts
<1> QED
  BY <1>1, <1>2, <1>3, <1>4, <1>5, <1>6, <1>7, <1>8, <1>9 DEF Next

-----------------------------------------------------------------------------
(* The events replay to the ledgers.  A history h says what the ledgers of   *)
(* the issuers were after each event.                                       *)

Applies(rc, nv, bk, e, l, q) ==
    \/ /\ e.type = "Receipt"
       /\ rc[e.id] # None /\ rc[e.id].value_class = "PeerCredit"
       /\ CanCredit(l[rc[e.id].issuer], rc[e.id].amount, e.mode = "OfflineDeferred")
       /\ q = [l EXCEPT ![rc[e.id].issuer] =
                  Credit(l[rc[e.id].issuer], rc[e.id].amount, e.mode = "OfflineDeferred")]
    \/ /\ e.type = "Novation"
       /\ nv[e.id] # None
       /\ CanDebit(l[nv[e.id].from_issuer], nv[e.id].amount)
       /\ CanCredit(l[nv[e.id].to_issuer], nv[e.id].amount, FALSE)
       /\ q = [l EXCEPT ![nv[e.id].from_issuer] = Debit(l[nv[e.id].from_issuer], nv[e.id].amount),
                        ![nv[e.id].to_issuer] =
                            Credit(l[nv[e.id].to_issuer], nv[e.id].amount, FALSE)]
    \/ /\ e.type = "BackedSettlement"
       /\ bk[e.id] # None
       /\ CanDebit(l[bk[e.id].from_issuer], bk[e.id].amount)
       /\ q = [l EXCEPT ![bk[e.id].from_issuer] = Debit(l[bk[e.id].from_issuer], bk[e.id].amount)]

SameEvent(d, e) == d.type = e.type /\ d.id = e.id

ReplayOK(h, rc, nv, bk, ev, rev, p) ==
    /\ h[0] = [i \in Issuers |-> [outstanding |-> 0, offline |-> 0]]
    /\ h[Len(ev)] = p
    /\ \A n \in 1..Len(ev) :
          /\ Applies(rc, nv, bk, ev[n], h[n - 1], h[n])
          /\ 0 < ev[n].revision /\ ev[n].revision <= rev
          /\ \A m \in 1..Len(ev) : m < n => /\ ev[m].revision < ev[n].revision
                                            /\ ~SameEvent(ev[m], ev[n])

AllSeen(rc, nv, bk, ev) ==
    \A k \in Ids :
        /\ rc[k] # None /\ rc[k].value_class = "PeerCredit" =>
              \E n \in 1..Len(ev) : ev[n].type = "Receipt" /\ ev[n].id = k
        /\ nv[k] # None =>
              \E n \in 1..Len(ev) : ev[n].type = "Novation" /\ ev[n].id = k
        /\ bk[k] # None =>
              \E n \in 1..Len(ev) : ev[n].type = "BackedSettlement" /\ ev[n].id = k

EventsOK ==
    /\ \E h : ReplayOK(h, receipts, novations, backed, events, revision, peer)
    /\ AllSeen(receipts, novations, backed, events)

\* Nothing a map holds is replaced or removed.
Keeps(m, w) == \A k \in Ids : m[k] # None => w[k] = m[k]

\* An event that applied still does when records were added.
LEMMA AppliesKept ==
    ASSUME NEW rc, NEW nv, NEW bk, NEW rc2, NEW nv2, NEW bk2,
           Keeps(rc, rc2), Keeps(nv, nv2), Keeps(bk, bk2),
           NEW e \in PeerCreditEvent, NEW l, NEW q, Applies(rc, nv, bk, e, l, q)
    PROVE  Applies(rc2, nv2, bk2, e, l, q)
<1>1. e.id \in Ids
  BY DEF PeerCreditEvent
<1>2. CASE e.type = "Receipt"
  <2>1. rc2[e.id] = rc[e.id]
    BY <1>1, <1>2 DEF Applies, Keeps
  <2> QED  BY <1>2, <2>1 DEF Applies
<1>3. CASE e.type = "Novation"
  <2>1. nv2[e.id] = nv[e.id]
    BY <1>1, <1>3 DEF Applies, Keeps
  <2> QED  BY <1>3, <2>1 DEF Applies
<1>4. CASE e.type = "BackedSettlement"
  <2>1. bk2[e.id] = bk[e.id]
    BY <1>1, <1>4 DEF Applies, Keeps
  <2> QED  BY <1>4, <2>1 DEF Applies
<1> QED  BY <1>2, <1>3, <1>4 DEF PeerCreditEvent

\* Operations without an event keep the history.
LEMMA ReplayKept ==
    ASSUME NEW rc, NEW nv, NEW bk, NEW rc2, NEW nv2, NEW bk2,
           Keeps(rc, rc2), Keeps(nv, nv2), Keeps(bk, bk2),
           NEW ev \in Seq(PeerCreditEvent), NEW rev \in Nat, NEW rev2 \in Nat, rev <= rev2,
           NEW p, NEW h, ReplayOK(h, rc, nv, bk, ev, rev, p)
    PROVE  ReplayOK(h, rc2, nv2, bk2, ev, rev2, p)
<1>1. ASSUME NEW n \in 1..Len(ev)
      PROVE  /\ Applies(rc2, nv2, bk2, ev[n], h[n - 1], h[n])
             /\ 0 < ev[n].revision /\ ev[n].revision <= rev2
             /\ \A m \in 1..Len(ev) : m < n => /\ ev[m].revision < ev[n].revision
                                               /\ ~SameEvent(ev[m], ev[n])
  <2>1. PICK e \in PeerCreditEvent : e = ev[n]
    OBVIOUS
  <2>2. Applies(rc, nv, bk, e, h[n - 1], h[n]) /\ 0 < e.revision /\ e.revision <= rev
    BY <2>1 DEF ReplayOK
  <2>3. Applies(rc2, nv2, bk2, e, h[n - 1], h[n])
    <3>1. PICK before : before = h[n - 1]
      OBVIOUS
    <3>2. PICK after : after = h[n]
      OBVIOUS
    <3>3. Applies(rc, nv, bk, e, before, after)
      BY <2>2, <3>1, <3>2
    <3>4. Applies(rc2, nv2, bk2, e, before, after)
      BY <2>1, <3>3, AppliesKept, Zenon
    <3> QED  BY <3>1, <3>2, <3>4
  <2>4. e.revision \in Nat
    BY PolicyAssumption DEF PeerCreditEvent, U64
  <2>5. e.revision <= rev2
    BY <2>2, <2>4
  <2>6. \A m \in 1..Len(ev) : m < n => /\ ev[m].revision < ev[n].revision
                                       /\ ~SameEvent(ev[m], ev[n])
    BY DEF ReplayOK
  <2> QED  BY <2>1, <2>2, <2>3, <2>5, <2>6
<1> QED  BY <1>1 DEF ReplayOK

\* An operation that appends an event extends the history by its ledgers.
LEMMA ReplayAppended ==
    ASSUME NEW rc, NEW nv, NEW bk, NEW rc2, NEW nv2, NEW bk2,
           Keeps(rc, rc2), Keeps(nv, nv2), Keeps(bk, bk2),
           NEW ev \in Seq(PeerCreditEvent), NEW rev \in Nat,
           NEW p, NEW h, ReplayOK(h, rc, nv, bk, ev, rev, p),
           NEW e \in PeerCreditEvent, e.revision = rev + 1,
           \A n \in 1..Len(ev) : ~SameEvent(ev[n], e),
           NEW w, Applies(rc2, nv2, bk2, e, p, w)
    PROVE  \E g : ReplayOK(g, rc2, nv2, bk2, Append(ev, e), rev + 1, w)
<1>1. PICK N \in Nat : N = Len(ev)
  OBVIOUS
<1>2. PICK ev2 : ev2 = Append(ev, e)
  OBVIOUS
<1>3. /\ Len(ev2) = N + 1 /\ ev2[N + 1] = e
      /\ \A n \in 1..N : ev2[n] = ev[n] /\ ev[n] \in PeerCreditEvent
  BY <1>1, <1>2
<1>4. PICK g : g = [n \in 0..(N + 1) |-> IF n <= N THEN h[n] ELSE w]
  OBVIOUS
<1>5. g[N + 1] = w /\ \A n \in 0..N : g[n] = h[n]
  BY <1>4
<1>6. ReplayOK(h, rc2, nv2, bk2, ev, rev, p)
  <2>1. rev <= rev
    OBVIOUS
  <2> QED  BY <2>1, ReplayKept, Zenon
<1>7. h[0] = [i \in Issuers |-> [outstanding |-> 0, offline |-> 0]] /\ h[N] = p
  BY <1>1, <1>6 DEF ReplayOK
<1>8. ASSUME NEW n \in 1..N
      PROVE  /\ Applies(rc2, nv2, bk2, ev[n], h[n - 1], h[n])
             /\ 0 < ev[n].revision /\ ev[n].revision <= rev /\ ev[n].revision \in Nat
             /\ ~SameEvent(ev[n], e)
             /\ \A m \in 1..N : m < n => /\ ev[m].revision < ev[n].revision
                                         /\ ~SameEvent(ev[m], ev[n])
  <2>1. ev[n].revision \in Nat
    BY <1>3, PolicyAssumption DEF PeerCreditEvent, U64
  <2> QED  BY <1>1, <1>6, <2>1 DEF ReplayOK
<1>9. ASSUME NEW n \in 1..(N + 1)
      PROVE  /\ Applies(rc2, nv2, bk2, ev2[n], g[n - 1], g[n])
             /\ 0 < ev2[n].revision /\ ev2[n].revision <= rev + 1
             /\ \A m \in 1..(N + 1) : m < n => /\ ev2[m].revision < ev2[n].revision
                                               /\ ~SameEvent(ev2[m], ev2[n])
  <2>1. CASE n = N + 1
    <3>1. ev2[n] = e /\ g[n] = w /\ g[n - 1] = p
      BY <1>3, <1>5, <1>7, <2>1
    <3>2. ASSUME NEW m \in 1..(N + 1), m < n
          PROVE  ev2[m].revision < e.revision /\ ~SameEvent(ev2[m], e)
      <4>1. m \in 1..N
        BY <2>1, <3>2
      <4>2. ev[m].revision <= rev /\ ev[m].revision \in Nat /\ ~SameEvent(ev[m], e)
        BY <1>8, <4>1
      <4> QED  BY <1>3, <4>1, <4>2
    <3> QED  BY <3>1, <3>2
  <2>2. CASE n # N + 1
    <3>1. n \in 1..N /\ n \in 0..N /\ n - 1 \in 0..N
      BY <2>2
    <3>2. ev2[n] = ev[n] /\ g[n] = h[n] /\ g[n - 1] = h[n - 1]
      BY <1>3, <1>5, <3>1
    <3>3. ASSUME NEW m \in 1..(N + 1), m < n
          PROVE  ev2[m].revision < ev2[n].revision /\ ~SameEvent(ev2[m], ev2[n])
      <4>1. m \in 1..N
        BY <3>1, <3>3
      <4>2. ev2[m] = ev[m]
        BY <1>3, <4>1
      <4> QED  BY <1>8, <3>1, <3>2, <3>3, <4>1, <4>2
    <3>4. /\ Applies(rc2, nv2, bk2, ev[n], h[n - 1], h[n])
          /\ 0 < ev[n].revision /\ ev[n].revision <= rev /\ ev[n].revision \in Nat
      BY <1>8, <3>1
    <3>5. ev2[n].revision <= rev + 1
      BY <3>2, <3>4
    <3> QED  BY <3>2, <3>3, <3>4, <3>5
  <2> QED  BY <2>1, <2>2
<1>10. g[0] = [i \in Issuers |-> [outstanding |-> 0, offline |-> 0]]
  BY <1>5, <1>7
<1>11. ReplayOK(g, rc2, nv2, bk2, ev2, rev + 1, w)
  BY <1>3, <1>5, <1>9, <1>10 DEF ReplayOK
<1> QED  BY <1>2, <1>11

\* The only record that is new is the one event e is about.
OnlyAbout(e, rc, nv, bk, rc2, nv2, bk2) ==
    \A k \in Ids :
        /\ rc2[k] # rc[k] => e.type = "Receipt" /\ e.id = k
        /\ nv2[k] # nv[k] => e.type = "Novation" /\ e.id = k
        /\ bk2[k] # bk[k] => e.type = "BackedSettlement" /\ e.id = k

\* The appended event is the one of the added record.
LEMMA SeenAppended ==
    ASSUME NEW rc, NEW nv, NEW bk, NEW rc2, NEW nv2, NEW bk2,
           NEW ev \in Seq(PeerCreditEvent), NEW e \in PeerCreditEvent,
           AllSeen(rc, nv, bk, ev), OnlyAbout(e, rc, nv, bk, rc2, nv2, bk2)
    PROVE  AllSeen(rc2, nv2, bk2, Append(ev, e))
<1>1. PICK N \in Nat : N = Len(ev)
  OBVIOUS
<1>2. PICK ev2 : ev2 = Append(ev, e)
  OBVIOUS
<1>3. Len(ev2) = N + 1 /\ ev2[N + 1] = e /\ \A n \in 1..N : ev2[n] = ev[n]
  BY <1>1, <1>2
<1>4. \A n \in 1..N : n \in 1..(N + 1)
  OBVIOUS
<1>5. N + 1 \in 1..(N + 1)
  BY <1>1
<1>6. ASSUME NEW k \in Ids, NEW type
      PROVE  /\ (\E n \in 1..N : ev[n].type = type /\ ev[n].id = k) =>
                   \E n \in 1..(N + 1) : ev2[n].type = type /\ ev2[n].id = k
             /\ e.type = type /\ e.id = k =>
                   \E n \in 1..(N + 1) : ev2[n].type = type /\ ev2[n].id = k
  BY <1>3, <1>4, <1>5
<1>7. ASSUME NEW k \in Ids
      PROVE  /\ rc2[k] # None /\ rc2[k].value_class = "PeerCredit" =>
                   \E n \in 1..(N + 1) : ev2[n].type = "Receipt" /\ ev2[n].id = k
             /\ nv2[k] # None =>
                   \E n \in 1..(N + 1) : ev2[n].type = "Novation" /\ ev2[n].id = k
             /\ bk2[k] # None =>
                   \E n \in 1..(N + 1) : ev2[n].type = "BackedSettlement" /\ ev2[n].id = k
  <2>1. /\ rc[k] # None /\ rc[k].value_class = "PeerCredit" =>
              \E n \in 1..N : ev[n].type = "Receipt" /\ ev[n].id = k
        /\ nv[k] # None => \E n \in 1..N : ev[n].type = "Novation" /\ ev[n].id = k
        /\ bk[k] # None => \E n \in 1..N : ev[n].type = "BackedSettlement" /\ ev[n].id = k
    BY <1>1 DEF AllSeen
  <2>2. /\ rc2[k] # rc[k] => e.type = "Receipt" /\ e.id = k
        /\ nv2[k] # nv[k] => e.type = "Novation" /\ e.id = k
        /\ bk2[k] # bk[k] => e.type = "BackedSettlement" /\ e.id = k
    BY DEF OnlyAbout
  <2> QED  BY <1>6, <2>1, <2>2
<1> QED  BY <1>2, <1>3, <1>7 DEF AllSeen

\* Storing under an unused key keeps what the map holds.
LEMMA StoringKeeps ==
    ASSUME NEW m, DOMAIN m = Ids, NEW k \in Ids, m[k] = None, NEW r
    PROVE  /\ Keeps(m, [m EXCEPT ![k] = r]) /\ Keeps(m, m)
           /\ \A x \in Ids : x # k => [m EXCEPT ![k] = r][x] = m[x]
           /\ [m EXCEPT ![k] = r][k] = r
BY DEF Keeps

\* A step without an event, one that stores no peer-credit record, keeps the
\* history of the events.
LEMMA NoEvent ==
    ASSUME AccountInv, EventsOK, UNCHANGED <<novations, backed, events, peer>>,
           revision' = revision + 1, Keeps(receipts, receipts'),
           \A k \in Ids : receipts'[k] # receipts[k] => receipts'[k].value_class # "PeerCredit"
    PROVE  EventsOK'
<1>1. PICK h : ReplayOK(h, receipts, novations, backed, events, revision, peer)
  BY DEF EventsOK
<1>2. /\ Keeps(novations, novations) /\ Keeps(backed, backed)
      /\ revision \in Nat /\ revision + 1 \in Nat /\ revision <= revision + 1
      /\ events \in Seq(PeerCreditEvent)
  BY PolicyAssumption DEF Keeps, AccountInv, RecordsOK, U64
<1>3. PICK rev2 \in Nat : rev2 = revision + 1 /\ revision <= rev2
  BY <1>2
<1>4. ReplayOK(h, receipts', novations, backed, events, rev2, peer)
  BY <1>1, <1>2, <1>3, ReplayKept, Zenon
<1>5. ReplayOK(h, receipts', novations', backed', events', revision', peer')
  BY <1>3, <1>4
<1>6. AllSeen(receipts', novations', backed', events')
  BY DEF EventsOK, AllSeen
<1> QED  BY <1>5, <1>6 DEF EventsOK

\* A step that appends the event of the record it stores extends it.
LEMMA OneEvent ==
    ASSUME AccountInv, EventsOK, revision' = revision + 1,
           Keeps(receipts, receipts'), Keeps(novations, novations'), Keeps(backed, backed'),
           NEW e \in PeerCreditEvent, events' = Append(events, e), e.revision = revision + 1,
           e.type = "Receipt" => receipts[e.id] = None,
           e.type = "Novation" => novations[e.id] = None,
           e.type = "BackedSettlement" => backed[e.id] = None,
           \A k \in Ids :
              /\ receipts'[k] # receipts[k] => e.type = "Receipt" /\ e.id = k
              /\ novations'[k] # novations[k] => e.type = "Novation" /\ e.id = k
              /\ backed'[k] # backed[k] => e.type = "BackedSettlement" /\ e.id = k,
           Applies(receipts', novations', backed', e, peer, peer')
    PROVE  EventsOK'
<1>1. PICK h : ReplayOK(h, receipts, novations, backed, events, revision, peer)
  BY DEF EventsOK
<1>2. revision \in Nat /\ events \in Seq(PeerCreditEvent)
  BY PolicyAssumption DEF AccountInv, RecordsOK, U64
<1>3. ASSUME NEW n \in 1..Len(events)
      PROVE  ~SameEvent(events[n], e)
  <2>1. Applies(receipts, novations, backed, events[n], h[n - 1], h[n])
    BY <1>1 DEF ReplayOK
  <2> QED  BY <2>1 DEF Applies, SameEvent
<1>4. \E g : ReplayOK(g, receipts', novations', backed', Append(events, e), revision + 1, peer')
  <2>1. PICK rc : rc = receipts'
    OBVIOUS
  <2>2. PICK nv : nv = novations'
    OBVIOUS
  <2>3. PICK bk : bk = backed'
    OBVIOUS
  <2>4. PICK w : w = peer'
    OBVIOUS
  <2>5. /\ Keeps(receipts, rc) /\ Keeps(novations, nv) /\ Keeps(backed, bk)
        /\ Applies(rc, nv, bk, e, peer, w)
    BY <2>1, <2>2, <2>3, <2>4
  <2>6. \E g : ReplayOK(g, rc, nv, bk, Append(events, e), revision + 1, w)
    BY <1>1, <1>2, <1>3, <2>5, ReplayAppended, Zenon
  <2> QED  BY <2>1, <2>2, <2>3, <2>4, <2>6
<1>5. AllSeen(receipts', novations', backed', Append(events, e))
  <2>1. AllSeen(receipts, novations, backed, events)
    BY DEF EventsOK
  <2>2. PICK rc : rc = receipts'
    OBVIOUS
  <2>3. PICK nv : nv = novations'
    OBVIOUS
  <2>4. PICK bk : bk = backed'
    OBVIOUS
  <2>5. OnlyAbout(e, receipts, novations, backed, rc, nv, bk)
    BY <2>2, <2>3, <2>4 DEF OnlyAbout
  <2>6. AllSeen(rc, nv, bk, Append(events, e))
    BY <1>2, <2>1, <2>5, SeenAppended, Zenon
  <2> QED  BY <2>2, <2>3, <2>4, <2>6
<1> QED  BY <1>4, <1>5 DEF EventsOK

\* Every step of the account keeps the events in line with the ledgers.
LEMMA NextEvents ==
    ASSUME AccountInv, EventsOK, [Next]_vars
    PROVE  EventsOK'
<1>0. /\ receipts \in [Ids -> Claims \cup {None}]
      /\ novations \in [Ids -> Novations \cup {None}]
      /\ backed \in [Ids -> BackedSettlements \cup {None}]
      /\ DOMAIN receipts = Ids /\ DOMAIN novations = Ids /\ DOMAIN backed = Ids
      /\ Keeps(receipts, receipts) /\ Keeps(novations, novations) /\ Keeps(backed, backed)
  BY DEF AccountInv, RecordsOK, Keeps
<1>1. ASSUME NEW c \in Claims, NEW auth \in Peers, NEW mode \in AcceptanceMode,
             NEW t \in Times, ApplyReceipt(c, auth, mode, t)
      PROVE  EventsOK'
  <2>1. /\ c.receipt_id \in Ids /\ receipts[c.receipt_id] = None
        /\ receipts' = [receipts EXCEPT ![c.receipt_id] = c]
        /\ revision' = revision + 1 /\ UNCHANGED <<novations, backed>>
    BY <1>1, InputAssumption DEF ApplyReceipt, ServiceReceiptClaim
  <2>2. /\ Keeps(receipts, receipts')
        /\ \A x \in Ids : x # c.receipt_id => receipts'[x] = receipts[x]
        /\ receipts'[c.receipt_id] = c
    BY <1>0, <2>1, StoringKeeps
  <2>3. CASE c.value_class = "PeerCredit"
    <3>1. PICK e : e = Event("Receipt", c.receipt_id, mode)
      OBVIOUS
    <3>2. /\ e \in PeerCreditEvent /\ e.type = "Receipt" /\ e.id = c.receipt_id
          /\ e.revision = revision + 1 /\ e.mode = mode
      BY <1>1, <2>1, <3>1, PolicyAssumption
         DEF ApplyReceipt, NextRevision, Event, PeerCreditEvent, AccountInv, RecordsOK, U64
    <3>3. /\ CanCredit(peer[c.issuer], c.amount, mode = "OfflineDeferred")
          /\ peer' = [peer EXCEPT ![c.issuer] =
                         Credit(peer[c.issuer], c.amount, mode = "OfflineDeferred")]
          /\ events' = Append(events, e)
      BY <1>1, <2>3, <3>1 DEF ApplyReceipt, ApplyPeerCredit
    <3>4. Applies(receipts', novations', backed', e, peer, peer')
      <4>1. c # None
        BY NoneApart
      <4> QED  BY <2>2, <2>3, <3>2, <3>3, <4>1 DEF Applies
    <3> QED  BY <1>0, <2>1, <2>2, <3>2, <3>3, <3>4, OneEvent
  <2>4. CASE c.value_class # "PeerCredit"
    <3>1. UNCHANGED <<events, peer>>
      BY <1>1, <2>4 DEF ApplyReceipt, ApplyClosedLoop, ApplyWithdrawable
    <3>2. \A k \in Ids : receipts'[k] # receipts[k] => receipts'[k].value_class # "PeerCredit"
      BY <2>2, <2>4
    <3> QED  BY <2>1, <2>2, <3>1, <3>2, NoEvent
  <2> QED  BY <2>3, <2>4
<1>2. ASSUME NEW n \in Novations, NEW auth \in Peers, NEW t \in Times,
             NovatePeerCredit(n, auth, t)
      PROVE  EventsOK'
  <2>1. /\ n.novation_id \in Ids /\ novations[n.novation_id] = None
        /\ novations' = [novations EXCEPT ![n.novation_id] = n]
        /\ revision' = revision + 1 /\ UNCHANGED <<receipts, backed>>
    BY <1>2, InputAssumption DEF NovatePeerCredit, CreditNovation
  <2>2. /\ Keeps(novations, novations')
        /\ \A x \in Ids : x # n.novation_id => novations'[x] = novations[x]
        /\ novations'[n.novation_id] = n
    BY <1>0, <2>1, StoringKeeps
  <2>3. PICK e : e = Event("Novation", n.novation_id, "Online")
    OBVIOUS
  <2>4. /\ e \in PeerCreditEvent /\ e.type = "Novation" /\ e.id = n.novation_id
        /\ e.revision = revision + 1
    BY <1>2, <2>1, <2>3, PolicyAssumption
       DEF NovatePeerCredit, NextRevision, Event, PeerCreditEvent, AcceptanceMode, AccountInv,
           RecordsOK, U64
  <2>5. /\ CanDebit(peer[n.from_issuer], n.amount)
        /\ CanCredit(peer[n.to_issuer], n.amount, FALSE)
        /\ peer' = [peer EXCEPT ![n.from_issuer] = Debit(peer[n.from_issuer], n.amount),
                                ![n.to_issuer] = Credit(peer[n.to_issuer], n.amount, FALSE)]
        /\ events' = Append(events, e)
    BY <1>2, <2>3 DEF NovatePeerCredit
  <2>6. Applies(receipts', novations', backed', e, peer, peer')
    <3>1. n # None
      BY NoneApart
    <3> QED  BY <2>2, <2>4, <2>5, <3>1 DEF Applies
  <2> QED  BY <1>0, <2>1, <2>2, <2>4, <2>5, <2>6, OneEvent
<1>3. ASSUME NEW s \in BackedSettlements, NEW auth \in Peers, NEW t \in Times,
             SettlePeerCreditWithBacking(s, auth, t)
      PROVE  EventsOK'
  <2>1. /\ s.settlement_id \in Ids /\ backed[s.settlement_id] = None
        /\ backed' = [backed EXCEPT ![s.settlement_id] = s]
        /\ revision' = revision + 1 /\ UNCHANGED <<receipts, novations>>
    BY <1>3, InputAssumption DEF SettlePeerCreditWithBacking, BackedCreditSettlement
  <2>2. /\ Keeps(backed, backed')
        /\ \A x \in Ids : x # s.settlement_id => backed'[x] = backed[x]
        /\ backed'[s.settlement_id] = s
    BY <1>0, <2>1, StoringKeeps
  <2>3. PICK e : e = Event("BackedSettlement", s.settlement_id, "Online")
    OBVIOUS
  <2>4. /\ e \in PeerCreditEvent /\ e.type = "BackedSettlement" /\ e.id = s.settlement_id
        /\ e.revision = revision + 1
    BY <1>3, <2>1, <2>3, PolicyAssumption
       DEF SettlePeerCreditWithBacking, NextRevision, Event, PeerCreditEvent, AcceptanceMode,
           AccountInv, RecordsOK, U64
  <2>5. /\ CanDebit(peer[s.from_issuer], s.amount)
        /\ peer' = [peer EXCEPT ![s.from_issuer] = Debit(peer[s.from_issuer], s.amount)]
        /\ events' = Append(events, e)
    BY <1>3, <2>3 DEF SettlePeerCreditWithBacking
  <2>6. Applies(receipts', novations', backed', e, peer, peer')
    <3>1. s # None
      BY NoneApart
    <3> QED  BY <2>2, <2>4, <2>5, <3>1 DEF Applies
  <2> QED  BY <1>0, <2>1, <2>2, <2>4, <2>5, <2>6, OneEvent
<1>4. ASSUME UNCHANGED <<receipts, novations, backed, events, peer>>, revision' = revision + 1
      PROVE  EventsOK'
  <2>1. Keeps(receipts, receipts')
    BY <1>0, <1>4
  <2>2. \A k \in Ids : receipts'[k] # receipts[k] => receipts'[k].value_class # "PeerCredit"
    BY <1>4
  <2> QED  BY <1>4, <2>1, <2>2, NoEvent
<1>5. CASE UNCHANGED vars
  BY <1>5 DEF vars, EventsOK
<1> QED
  BY <1>1, <1>2, <1>3, <1>4, <1>5
     DEF Next, RecordBackingDeposit, ConsumeClosedLoop, AuthorizeExternalSettlement,
         CompleteExternalSettlement, CancelExternalSettlement

ReplaySteps(s, acc, N) ==
    /\ acc = [n \in 0..N |-> acc[n]]
    /\ acc[0] = NothingReplayed
    /\ \A n \in 1..N : acc[n] = ReplayEvent(s, acc[n - 1], s.events[n])

\* The recursive function of the replay is the only one with its steps.
LEMMA ReplayIs ==
    ASSUME NEW s, NEW N \in Nat, Len(s.events) = N, NEW acc, ReplaySteps(s, acc, N)
    PROVE  Replay(s) = acc[N]
<1>0. /\ acc = [n \in 0..N |-> acc[n]]
      /\ acc[0] = NothingReplayed
      /\ \A n \in 1..N : acc[n] = ReplayEvent(s, acc[n - 1], s.events[n])
  BY DEF ReplaySteps
<1> DEFINE Eq(h) ==
      h = [n \in 0..Len(s.events) |->
              IF n = 0 THEN NothingReplayed ELSE ReplayEvent(s, h[n - 1], s.events[n])]
<1>1. Replay(s) = (CHOOSE h : Eq(h))[Len(s.events)]
  BY Zenon DEF Replay
<1>2. Eq(acc)
  <2>1. \A n \in 0..N : acc[n] = IF n = 0 THEN NothingReplayed
                                 ELSE ReplayEvent(s, acc[n - 1], s.events[n])
    BY <1>0
  <2> QED  BY <1>0, <2>1
<1>3. PICK h : h = (CHOOSE k : Eq(k)) /\ Eq(h)
  <2> HIDE DEF Eq
  <2> QED  BY <1>2
<1>4. /\ h[0] = NothingReplayed
      /\ \A n \in 1..N : h[n] = ReplayEvent(s, h[n - 1], s.events[n])
  <2>1. \A n \in 0..N : h[n] = IF n = 0 THEN NothingReplayed
                               ELSE ReplayEvent(s, h[n - 1], s.events[n])
    <3>1. PICK g : g = [n \in 0..N |-> IF n = 0 THEN NothingReplayed
                                      ELSE ReplayEvent(s, h[n - 1], s.events[n])]
      OBVIOUS
    <3>2. h = g
      BY <1>3, <3>1
    <3>3. \A n \in 0..N : g[n] = IF n = 0 THEN NothingReplayed
                                 ELSE ReplayEvent(s, h[n - 1], s.events[n])
      BY <3>1
    <3> QED  BY <3>2, <3>3, Zenon
  <2> QED  BY <2>1
<1> DEFINE M == {n \in Nat : n \in 0..N => h[n] = acc[n]}
<1>5. 0 \in M
  BY <1>0, <1>4
<1>6. ASSUME NEW n \in Nat, n \in M
      PROVE  n + 1 \in M
  <2>1. SUFFICES ASSUME n + 1 \in 0..N PROVE h[n + 1] = acc[n + 1]
    OBVIOUS
  <2>2. n \in 0..N /\ n + 1 \in 1..N /\ (n + 1) - 1 = n
    BY <2>1
  <2>3. h[n] = acc[n]
    BY <1>6, <2>2
  <2>4. /\ h[n + 1] = ReplayEvent(s, h[n], s.events[n + 1])
        /\ acc[n + 1] = ReplayEvent(s, acc[n], s.events[n + 1])
    BY <1>0, <1>4, <2>2
  <2> QED  BY <2>3, <2>4, Zenon
<1>7. \A n \in Nat : n \in M
  <2> HIDE DEF M
  <2> QED  BY <1>5, <1>6, SetInduction
<1>8. h[N] = acc[N]
  BY <1>7
<1> QED  BY <1>1, <1>3, <1>8

CanReplay(s, acc, e, l, q) ==
    /\ acc.ok = TRUE /\ acc.ledgers = l
    /\ acc.revision < e.revision /\ e.revision <= s.revision
    /\ <<e.type, e.id>> \notin acc.seen
    /\ Applies(s.receipts, s.novations, s.backed, e, l, q)
    /\ e.type = "Novation" => s.novations[e.id].from_issuer # s.novations[e.id].to_issuer

\* One event that applies, replayed.
LEMMA ReplayOne ==
    ASSUME NEW s, NEW acc, NEW e, NEW q, NEW l, CanReplay(s, acc, e, l, q)
    PROVE  ReplayEvent(s, acc, e) =
             [ok |-> TRUE, revision |-> e.revision, ledgers |-> q,
              seen |-> acc.seen \cup {<<e.type, e.id>>}]
<1>1. CASE e.type = "Receipt"
  BY <1>1 DEF CanReplay, ReplayEvent, Applies
<1>2. CASE e.type = "Novation"
  BY <1>2 DEF CanReplay, ReplayEvent, Applies
<1>3. CASE e.type = "BackedSettlement"
  BY <1>3 DEF CanReplay, ReplayEvent, Applies
<1> QED  BY <1>1, <1>2, <1>3 DEF CanReplay, Applies

\* What the replay of the live account's snapshot yields: no error, the live
\* ledgers, and one pair for each event.
LEMMA ReplayOfSnapshot ==
    ASSUME AccountInv, RecordsValid, EventsOK
    PROVE  /\ Replay(Snapshot).ok
           /\ Replay(Snapshot).ledgers = peer
           /\ Replay(Snapshot).seen =
                 {<<events[j].type, events[j].id>> : j \in 1..Len(events)}
<1>1. PICK h : ReplayOK(h, receipts, novations, backed, events, revision, peer)
  BY DEF EventsOK
<1>2. /\ events \in Seq(PeerCreditEvent)
      /\ novations \in [Ids -> Novations \cup {None}]
  BY DEF AccountInv, RecordsOK
<1>3. PICK N \in Nat : N = Len(events)
  BY <1>2
<1>4. PICK s : s = Snapshot
  OBVIOUS
<1>5. /\ s.receipts = receipts /\ s.novations = novations /\ s.backed = backed
      /\ s.events = events /\ s.revision = revision
  BY <1>4 DEF Snapshot
<1> DEFINE Pairs(n) == {<<events[j].type, events[j].id>> : j \in 1..n}
           Revision(n) == IF n = 0 THEN 0 ELSE events[n].revision
<1>6. PICK acc : acc = [n \in 0..N |-> [ok |-> TRUE, revision |-> Revision(n),
                                        seen |-> Pairs(n), ledgers |-> h[n]]]
  OBVIOUS
<1>7. \A n \in 0..N : /\ acc[n].ok = TRUE /\ acc[n].revision = Revision(n)
                      /\ acc[n].seen = Pairs(n) /\ acc[n].ledgers = h[n]
  BY <1>6, Zenon
<1>8. acc = [n \in 0..N |-> acc[n]]
  BY <1>6
<1>9. acc[0] = NothingReplayed
  <2>1. Pairs(0) = {} /\ Revision(0) = 0
    OBVIOUS
  <2>2. h[0] = [i \in Issuers |-> [outstanding |-> 0, offline |-> 0]]
    BY <1>1 DEF ReplayOK
  <2>3. acc[0] = [ok |-> TRUE, revision |-> Revision(0), seen |-> Pairs(0), ledgers |-> h[0]]
    BY <1>6
  <2> HIDE DEF Pairs, Revision
  <2> QED  BY <2>1, <2>2, <2>3 DEF NothingReplayed
<1>10. ASSUME NEW n \in 1..N
       PROVE  acc[n] = ReplayEvent(s, acc[n - 1], events[n])
  <2>1. PICK e \in PeerCreditEvent : e = events[n]
    BY <1>2, <1>3
  <2>2. /\ Applies(receipts, novations, backed, e, h[n - 1], h[n])
        /\ 0 < e.revision /\ e.revision <= revision
        /\ \A m \in 1..N : m < n => events[m].revision < e.revision /\ ~SameEvent(events[m], e)
    BY <1>1, <1>3, <2>1 DEF ReplayOK
  <2>3. n - 1 \in 0..N /\ n \in 0..N
    OBVIOUS
  <2>4. PICK a : a = acc[n - 1]
    OBVIOUS
  <2>5. PICK before : before = h[n - 1]
    OBVIOUS
  <2>6. PICK after : after = h[n]
    OBVIOUS
  <2>7. a.ok = TRUE /\ a.revision = Revision(n - 1) /\ a.seen = Pairs(n - 1) /\ a.ledgers = before
    BY <1>7, <2>3, <2>4, <2>5
  <2>8. Revision(n - 1) < e.revision
    <3>1. CASE n = 1
      BY <2>2, <3>1
    <3>2. CASE n # 1
      <4>1. n - 1 \in 1..N /\ n - 1 < n /\ n - 1 # 0
        BY <3>2
      <4> QED  BY <2>2, <4>1
    <3> QED  BY <3>1, <3>2
  <2>9. <<e.type, e.id>> \notin Pairs(n - 1)
    <3>1. \A m \in 1..(n - 1) : m \in 1..N /\ m < n
      OBVIOUS
    <3> QED  BY <2>2, <3>1 DEF SameEvent
  <2>10. Pairs(n) = Pairs(n - 1) \cup {<<e.type, e.id>>}
    <3>1. 1..n = (1..(n - 1)) \cup {n}
      OBVIOUS
    <3> QED  BY <2>1, <3>1
  <2>11. e.type = "Novation" => s.novations[e.id].from_issuer # s.novations[e.id].to_issuer
    BY <1>5, <2>1, <2>2 DEF Applies, RecordsValid, NovationOK, PeerCreditEvent
  <2> HIDE DEF Pairs, Revision
  <2>12. CanReplay(s, a, e, before, after)
    BY <1>5, <2>2, <2>5, <2>6, <2>7, <2>8, <2>9, <2>11 DEF CanReplay
  <2>13. ReplayEvent(s, a, e) = [ok |-> TRUE, revision |-> e.revision, ledgers |-> after,
                                 seen |-> a.seen \cup {<<e.type, e.id>>}]
    BY <2>12, ReplayOne, Zenon
  <2>14. acc[n] = [ok |-> TRUE, revision |-> Revision(n), seen |-> Pairs(n), ledgers |-> h[n]]
    BY <1>6, <2>3, Zenon
  <2>15. Revision(n) = e.revision
    BY <2>1 DEF Revision
  <2>16. a.seen \cup {<<e.type, e.id>>} = Pairs(n)
    BY <2>7, <2>10, Zenon
  <2>17. acc[n] = [ok |-> TRUE, revision |-> e.revision, ledgers |-> after, seen |-> Pairs(n)]
    BY <2>6, <2>14, <2>15
  <2>18. acc[n] = ReplayEvent(s, a, e)
    BY <2>13, <2>16, <2>17, Zenon
  <2> QED  BY <2>1, <2>4, <2>18
<1>11. Replay(s) = acc[N]
  <2>1. Len(s.events) = N
    BY <1>3, <1>5
  <2>2. ReplaySteps(s, acc, N)
    <3> HIDE DEF Pairs, Revision
    <3> QED  BY <1>5, <1>8, <1>9, <1>10 DEF ReplaySteps
  <2> QED  BY <1>3, <2>1, <2>2, ReplayIs
<1>12. h[N] = peer
  BY <1>1, <1>3 DEF ReplayOK
<1>13. N \in 0..N
  BY <1>3
<1>14. acc[N].ok /\ acc[N].seen = Pairs(N) /\ acc[N].ledgers = h[N]
  BY <1>7, <1>13
<1> QED  BY <1>3, <1>4, <1>11, <1>12, <1>14

\* As many pairs of a kind as records.
LEMMA Tagged ==
    ASSUME NEW S, IsFiniteSet(S), NEW tag
    PROVE  Cardinality({<<tag, k>> : k \in S}) = Cardinality(S)
<1> DEFINE T == {<<tag, k>> : k \in S}
           f == [k \in S |-> <<tag, k>>]
<1>1. f \in Bijection(S, T)
  BY DEF Bijection, Injection, Surjection, IsInjective
<1>2. ExistsBijection(S, T)
  BY <1>1 DEF ExistsBijection
<1> QED  BY <1>2, FS_Bijection

\* The events the replay has seen are those of the stored peer-credit records.
LEMMA SeenCounts ==
    ASSUME AccountInv, RecordsValid, EventsOK
    PROVE  ValidatePeerCreditEvents(Snapshot)
<1>1. PICK h : ReplayOK(h, receipts, novations, backed, events, revision, peer)
  BY DEF EventsOK
<1>2. PICK s : s = Snapshot
  OBVIOUS
<1>3. /\ s.receipts = receipts /\ s.novations = novations /\ s.backed = backed
      /\ s.peer = peer
  BY <1>2 DEF Snapshot
<1>4. PICK seen : seen = Replay(s).seen
  OBVIOUS
<1>5. /\ seen = {<<events[j].type, events[j].id>> : j \in 1..Len(events)}
      /\ Replay(s).ok /\ Replay(s).ledgers = peer
  BY <1>2, <1>4, ReplayOfSnapshot
<1>6. /\ events \in Seq(PeerCreditEvent)
      /\ DOMAIN receipts = Ids /\ DOMAIN novations = Ids /\ DOMAIN backed = Ids
  BY DEF AccountInv, RecordsOK
<1>7. ASSUME NEW j \in 1..Len(events)
      PROVE  /\ events[j].id \in Ids
             /\ events[j].type = "Receipt" =>
                   /\ receipts[events[j].id] # None
                   /\ receipts[events[j].id].value_class = "PeerCredit"
             /\ events[j].type = "Novation" => novations[events[j].id] # None
             /\ events[j].type = "BackedSettlement" => backed[events[j].id] # None
  <2>1. events[j] \in PeerCreditEvent
    BY <1>6
  <2>2. Applies(receipts, novations, backed, events[j], h[j - 1], h[j])
    BY <1>1 DEF ReplayOK
  <2>3. events[j].id \in Ids
    BY <2>1 DEF PeerCreditEvent
  <2> QED  BY <2>2, <2>3 DEF Applies
<1> DEFINE PeerReceipts == {k \in Stored(receipts) : receipts[k].value_class = "PeerCredit"}
<1>8. {x \in seen : x[1] = "Receipt"} = {<<"Receipt", k>> : k \in PeerReceipts}
  <2>1. ASSUME NEW k \in PeerReceipts PROVE <<"Receipt", k>> \in seen
    <3>1. k \in Ids /\ receipts[k] # None /\ receipts[k].value_class = "PeerCredit"
      BY <1>6 DEF Stored
    <3>2. PICK j \in 1..Len(events) : events[j].type = "Receipt" /\ events[j].id = k
      BY <3>1 DEF EventsOK, AllSeen
    <3> QED  BY <1>5, <3>2
  <2>2. ASSUME NEW x \in seen, x[1] = "Receipt"
        PROVE  \E k \in PeerReceipts : x = <<"Receipt", k>>
    <3>1. PICK j \in 1..Len(events) : x = <<events[j].type, events[j].id>>
      BY <1>5
    <3> QED  BY <1>6, <1>7, <2>2, <3>1 DEF Stored
  <2> QED  BY <2>1, <2>2
<1>9. {x \in seen : x[1] = "Novation"} = {<<"Novation", k>> : k \in Stored(novations)}
  <2>1. ASSUME NEW k \in Stored(novations) PROVE <<"Novation", k>> \in seen
    <3>1. k \in Ids /\ novations[k] # None
      BY <1>6 DEF Stored
    <3>2. PICK j \in 1..Len(events) : events[j].type = "Novation" /\ events[j].id = k
      BY <3>1 DEF EventsOK, AllSeen
    <3> QED  BY <1>5, <3>2
  <2>2. ASSUME NEW x \in seen, x[1] = "Novation"
        PROVE  \E k \in Stored(novations) : x = <<"Novation", k>>
    <3>1. PICK j \in 1..Len(events) : x = <<events[j].type, events[j].id>>
      BY <1>5
    <3> QED  BY <1>6, <1>7, <2>2, <3>1 DEF Stored
  <2> QED  BY <2>1, <2>2
<1>10. {x \in seen : x[1] = "BackedSettlement"} = {<<"BackedSettlement", k>> : k \in Stored(backed)}
  <2>1. ASSUME NEW k \in Stored(backed) PROVE <<"BackedSettlement", k>> \in seen
    <3>1. k \in Ids /\ backed[k] # None
      BY <1>6 DEF Stored
    <3>2. PICK j \in 1..Len(events) : events[j].type = "BackedSettlement" /\ events[j].id = k
      BY <3>1 DEF EventsOK, AllSeen
    <3> QED  BY <1>5, <3>2
  <2>2. ASSUME NEW x \in seen, x[1] = "BackedSettlement"
        PROVE  \E k \in Stored(backed) : x = <<"BackedSettlement", k>>
    <3>1. PICK j \in 1..Len(events) : x = <<events[j].type, events[j].id>>
      BY <1>5
    <3> QED  BY <1>6, <1>7, <2>2, <3>1 DEF Stored
  <2> QED  BY <2>1, <2>2
<1>11. IsFiniteSet(PeerReceipts) /\ IsFiniteSet(Stored(novations)) /\ IsFiniteSet(Stored(backed))
  <2>1. PeerReceipts \subseteq Ids /\ Stored(novations) \subseteq Ids /\ Stored(backed) \subseteq Ids
    BY <1>6 DEF Stored
  <2> HIDE DEF PeerReceipts
  <2> QED  BY <2>1, NoneApart, FS_Subset
<1>12. /\ Cardinality({<<"Receipt", k>> : k \in PeerReceipts}) = Cardinality(PeerReceipts)
       /\ Cardinality({<<"Novation", k>> : k \in Stored(novations)})
            = Cardinality(Stored(novations))
       /\ Cardinality({<<"BackedSettlement", k>> : k \in Stored(backed)})
            = Cardinality(Stored(backed))
  <2> HIDE DEF PeerReceipts
  <2> QED  BY <1>11, Tagged, Zenon
<1>13. /\ Cardinality({x \in seen : x[1] = "Receipt"}) = Cardinality(PeerReceipts)
       /\ Cardinality({x \in seen : x[1] = "Novation"}) = Cardinality(Stored(novations))
       /\ Cardinality({x \in seen : x[1] = "BackedSettlement"}) = Cardinality(Stored(backed))
  <2> HIDE DEF PeerReceipts
  <2> QED  BY <1>8, <1>9, <1>10, <1>12, Zenon
<1>14. ValidatePeerCreditEvents(s)
  BY <1>3, <1>4, <1>5, <1>13, Zenon DEF ValidatePeerCreditEvents
<1> QED  BY <1>2, <1>14

-----------------------------------------------------------------------------
(* The restored account is the live one.                                    *)

RestoreInv ==
    /\ AccountInv /\ TotalIsSum /\ SumsOK /\ RecordsValid /\ RevisionCounts /\ EventsOK

\* A new account satisfies all of it.
LEMMA InitRestore == Init => RestoreInv
<1> SUFFICES ASSUME Init PROVE RestoreInv
  OBVIOUS
<1>1. AccountInv /\ TotalIsSum /\ SumsOK
  BY InitInv, InitTotal, InitSums
<1>2. RecordsValid
  BY DEF Init, RecordsValid
<1>3. RevisionCounts
  <2>1. /\ Stored(receipts) = {} /\ Stored(novations) = {} /\ Kept(deposits) = {}
        /\ Stored(backed) = {} /\ Stored(consumptions) = {} /\ Stored(settlements) = {}
        /\ DoneIn(settlements) = {}
    BY DEF Init, Stored, Kept, DoneIn
  <2>2. Cardinality({}) = 0
    BY FS_EmptySet
  <2>3. /\ Cardinality(Stored(receipts)) = 0 /\ Cardinality(Stored(novations)) = 0
        /\ Cardinality(Kept(deposits)) = 0 /\ Cardinality(Stored(backed)) = 0
        /\ Cardinality(Stored(consumptions)) = 0 /\ Cardinality(Stored(settlements)) = 0
        /\ Cardinality(DoneIn(settlements)) = 0
    BY <2>1, <2>2, Zenon
  <2>4. revision = 0
    BY DEF Init
  <2> QED  BY <2>3, <2>4 DEF RevisionCounts
<1>4. EventsOK
  <2>1. PICK h : h = [n \in {0} |-> peer]
    OBVIOUS
  <2>2. h[0] = peer /\ events = << >> /\ Len(events) = 0
    BY <2>1 DEF Init
  <2>3. ReplayOK(h, receipts, novations, backed, events, revision, peer)
    BY <2>2 DEF Init, ReplayOK
  <2>4. AllSeen(receipts, novations, backed, events)
    BY DEF Init, AllSeen
  <2> QED  BY <2>3, <2>4 DEF EventsOK
<1> QED  BY <1>1, <1>2, <1>3, <1>4 DEF RestoreInv

\* Every step keeps all of it.
LEMMA NextRestore == RestoreInv /\ [Next]_vars => RestoreInv'
<1> SUFFICES ASSUME RestoreInv, [Next]_vars PROVE RestoreInv'
  OBVIOUS
<1>1. AccountInv /\ TotalIsSum /\ SumsOK /\ RecordsValid /\ RevisionCounts /\ EventsOK
  BY DEF RestoreInv
<1>2. DepositsKeyed
  BY <1>1 DEF SumsOK
<1>3. AccountInv' /\ SumsOK'
  BY <1>1, NextInv, NextSums
<1>4. TotalIsSum'
  BY <1>1, NextTotal
<1>5. RecordsValid'
  BY <1>1, NextValid
<1>6. RevisionCounts'
  BY <1>1, <1>2, NextCounts
<1>7. EventsOK'
  BY <1>1, NextEvents
<1> QED  BY <1>3, <1>4, <1>5, <1>6, <1>7 DEF RestoreInv

\* from_snapshot keys the deposits as the account did.
LEMMA RestoredIsLive ==
    ASSUME RestoreInv
    PROVE  FromSnapshot(Snapshot) = Live /\ ValidateDeposits(Snapshot)
<1>1. /\ deposits \in [DepositKeys -> Deposits \cup {None}]
      /\ \A k \in DepositKeys : deposits[k] # None => DepositKey(deposits[k]) = k
      /\ \A k \in DepositKeys : deposits[k] # None => DepositOK(deposits[k])
  BY DEF RestoreInv, AccountInv, RecordsOK, SumsOK, DepositsKeyed, RecordsValid
<1>2. PICK S : S = Kept(deposits)
  OBVIOUS
<1>3. /\ \A k \in DepositKeys : deposits[k] # None => deposits[k] \in S
      /\ \A d \in S : \E k \in DepositKeys : deposits[k] = d /\ d # None
  BY <1>1, <1>2 DEF Kept, Stored
<1>4. ASSUME NEW k \in DepositKeys
      PROVE  (IF \E d \in S : DepositKey(d) = k
              THEN CHOOSE d \in S : DepositKey(d) = k ELSE None) = deposits[k]
  <2>1. CASE deposits[k] = None
    <3>1. ~ \E d \in S : DepositKey(d) = k
      BY <1>1, <1>3, <2>1
    <3> QED  BY <2>1, <3>1
  <2>2. CASE deposits[k] # None
    <3>1. deposits[k] \in S /\ DepositKey(deposits[k]) = k
      BY <1>1, <1>3, <2>2
    <3>2. PICK d \in S : d = (CHOOSE x \in S : DepositKey(x) = k) /\ DepositKey(d) = k
      BY <3>1
    <3>3. d = deposits[k]
      BY <1>1, <1>3, <3>2
    <3> QED  BY <3>1, <3>2, <3>3
  <2> QED  BY <2>1, <2>2
<1>5. [k \in DepositKeys |-> IF \E d \in S : DepositKey(d) = k
                             THEN CHOOSE d \in S : DepositKey(d) = k ELSE None] = deposits
  <2>1. PICK f : f = [k \in DepositKeys |-> IF \E d \in S : DepositKey(d) = k
                                            THEN CHOOSE d \in S : DepositKey(d) = k ELSE None]
    OBVIOUS
  <2>2. \A k \in DepositKeys : f[k] = deposits[k]
    BY <1>4, <2>1, Zenon
  <2>3. f = [k \in DepositKeys |-> f[k]]
    BY <2>1
  <2>4. deposits = [k \in DepositKeys |-> deposits[k]]
    BY <1>1
  <2>5. f = deposits
    BY <2>2, <2>3, <2>4
  <2> QED  BY <2>1, <2>5
<1>6. PICK s : s = Snapshot
  OBVIOUS
<1>7. /\ s.revision = revision /\ s.total = totalPeer /\ s.peer = peer /\ s.closed = closed
      /\ s.reserve = reserve /\ s.receipts = receipts /\ s.events = events
      /\ s.novations = novations /\ s.deposits = S /\ s.backed = backed
      /\ s.consumptions = consumptions /\ s.settlements = settlements
  BY <1>2, <1>6 DEF Snapshot
<1>8. FromSnapshot(s) = Live
  BY <1>5, <1>7, Zenon DEF FromSnapshot, Live
<1>9. ValidateDeposits(s)
  <2>1. SUFFICES ASSUME NEW d \in S
                 PROVE  /\ \A e \in S : DepositKey(d) = DepositKey(e) => d = e
                        /\ DepositOK(d)
    BY <1>7 DEF ValidateDeposits, DepositOK
  <2> QED  BY <1>1, <1>3
<1> QED  BY <1>6, <1>8, <1>9

\* The checks of the records, the ledgers and the revision.
LEMMA RestoredRecords ==
    ASSUME RestoreInv
    PROVE  /\ \A i \in Issuers : ValidateIssuer(Snapshot, i)
           /\ ValidateReceipts(Snapshot) /\ ValidateNovations(Snapshot)
           /\ ValidateBackedSettlements(Snapshot) /\ ValidateConsumptions(Snapshot)
           /\ ValidateExternalSettlements(Snapshot) /\ ValidateRevision(Snapshot)
<1>1. PICK s : s = Snapshot
  OBVIOUS
<1>2. /\ s.revision = revision /\ s.peer = peer /\ s.closed = closed /\ s.reserve = reserve
      /\ s.policy = Policy /\ s.counterparty = Counterparty
      /\ s.receipts = receipts /\ s.novations = novations /\ s.deposits = Kept(deposits)
      /\ s.backed = backed /\ s.consumptions = consumptions /\ s.settlements = settlements
  BY <1>1 DEF Snapshot
<1>3. /\ DOMAIN receipts = Ids /\ DOMAIN novations = Ids /\ DOMAIN backed = Ids
      /\ DOMAIN consumptions = Ids /\ DOMAIN settlements = Ids
  BY DEF RestoreInv, AccountInv, RecordsOK
<1>4. RecordsValid
  BY DEF RestoreInv
<1>5. ASSUME NEW i \in Issuers
      PROVE  ValidateIssuer(s, i)
  <2>1. /\ PeerOK(peer[i], Policy[i]) /\ ClosedOK(closed[i], Policy[i])
        /\ ReserveOK(reserve[i], Policy[i])
    BY DEF RestoreInv, AccountInv, LedgersOK
  <2>2. Policy[i].max_offline_peer_credit <= Policy[i].max_peer_credit
    BY PolicyAssumption DEF ValidPolicy
  <2> QED  BY <1>2, <2>1, <2>2 DEF ValidateIssuer, PeerOK, ClosedOK, ReserveOK
<1>6. ValidateReceipts(s)
  BY <1>2, <1>3, <1>4 DEF ValidateReceipts, RecordsValid, ReceiptOK, Stored
<1>7. ValidateNovations(s)
  BY <1>2, <1>3, <1>4 DEF ValidateNovations, RecordsValid, NovationOK, Stored
<1>8. ValidateBackedSettlements(s)
  BY <1>2, <1>3, <1>4 DEF ValidateBackedSettlements, RecordsValid, BackedOK, Stored
<1>9. ValidateConsumptions(s)
  BY <1>2, <1>3, <1>4 DEF ValidateConsumptions, RecordsValid, ConsumptionOK, Stored
<1>10. ValidateExternalSettlements(s)
  BY <1>2, <1>3, <1>4 DEF ValidateExternalSettlements, RecordsValid, SettlementOK, Stored
<1>11. ValidateRevision(s)
  <2>1. RevisionCounts
    BY DEF RestoreInv
  <2> QED  BY <1>2, <2>1, Zenon DEF ValidateRevision, RevisionCounts, DoneIn
<1> QED  BY <1>1, <1>5, <1>6, <1>7, <1>8, <1>9, <1>10, <1>11

\* The totals add up, and they all fit a u64 exactly when the issuer's gross
\* peer credit does.
LEMMA RestoredTotals ==
    ASSUME RestoreInv
    PROVE  /\ ValidateTotals(Snapshot)
           /\ \A i \in Issuers :
                 ExpectedTotalsFit(Snapshot, i) <=> PeerCredits(Snapshot, i) <= U64Max
<1>1. AccountInv /\ SumsOK /\ TotalIsSum /\ U64Max \in Nat
  BY PolicyAssumption DEF RestoreInv
<1>2. PICK s : s = Snapshot
  OBVIOUS
<1>3. /\ s.peer = peer /\ s.closed = closed /\ s.reserve = reserve
      /\ s.total = totalPeer /\ s.max_total = MaxTotalPeerCredit
  BY <1>2 DEF Snapshot
<1>4. ASSUME NEW i \in Issuers
      PROVE  /\ Deposited(s, i, "ClosedLoopDeposit") = closed[i].deposited
             /\ Deposited(s, i, "ReserveBackedWithdrawable") = reserve[i].deposited
             /\ PeerCredits(s, i) \in Nat /\ PeerDebits(s, i) \in Nat
             /\ PeerCredits(s, i) = PeerDebits(s, i) + peer[i].outstanding
             /\ Allocated(s, i, "ClosedLoopDeposit") = closed[i].claimable + closed[i].consumed
             /\ Consumed(s, i) = closed[i].consumed
             /\ Allocated(s, i, "ReserveBackedWithdrawable") =
                   reserve[i].redeemable + reserve[i].pending + reserve[i].settled
             /\ PendingExternal(s, i) = reserve[i].pending
             /\ SettledExternal(s, i) = reserve[i].settled
  <2>1. /\ PeerSums(i, receipts, novations, backed, peer[i])
        /\ ClosedSums(i, receipts, backed, consumptions, closed[i])
        /\ ReserveSums(i, receipts, backed, settlements, reserve[i])
        /\ DepositSums(i, Kept(deposits), closed[i], reserve[i])
    BY <1>1 DEF SumsOK
  <2>2. /\ Weighed(receipts, ReceiptWeight(i, "PeerCredit")) \in Nat
        /\ Weighed(novations, ToWeight(i)) \in Nat
        /\ Weighed(novations, FromWeight(i)) \in Nat
        /\ Weighed(backed, DebtWeight(i)) \in Nat
    BY <1>1, SumTypes
  <2>3. /\ Deposited(s, i, "ClosedLoopDeposit") = closed[i].deposited
        /\ Deposited(s, i, "ReserveBackedWithdrawable") = reserve[i].deposited
    BY <1>1, <1>2, <2>1, SnapshotSums DEF DepositSums
  <2>4. /\ PeerCredits(s, i) = Weighed(receipts, ReceiptWeight(i, "PeerCredit"))
                                 + Weighed(novations, ToWeight(i))
        /\ PeerDebits(s, i) = Weighed(novations, FromWeight(i)) + Weighed(backed, DebtWeight(i))
    BY <1>1, <1>2, SnapshotSums
  <2>5. /\ PeerCredits(s, i) \in Nat /\ PeerDebits(s, i) \in Nat
        /\ PeerCredits(s, i) = PeerDebits(s, i) + peer[i].outstanding
    BY <2>1, <2>2, <2>4 DEF PeerSums
  <2>6. /\ Allocated(s, i, "ClosedLoopDeposit") = closed[i].claimable + closed[i].consumed
        /\ Consumed(s, i) = closed[i].consumed
    BY <1>1, <1>2, <2>1, SnapshotSums DEF ClosedSums
  <2>7. /\ Allocated(s, i, "ReserveBackedWithdrawable") =
              reserve[i].redeemable + reserve[i].pending + reserve[i].settled
        /\ PendingExternal(s, i) = reserve[i].pending
        /\ SettledExternal(s, i) = reserve[i].settled
    BY <1>1, <1>2, <2>1, SnapshotSums DEF ReserveSums
  <2> QED  BY <2>3, <2>5, <2>6, <2>7
<1>5. ASSUME NEW i \in Issuers
      PROVE  /\ peer[i].outstanding \in Nat
             /\ closed[i].deposited \in 0..U64Max /\ reserve[i].deposited \in 0..U64Max
             /\ closed[i].available \in Nat /\ closed[i].claimable \in Nat
             /\ closed[i].consumed \in Nat
             /\ reserve[i].available \in Nat /\ reserve[i].redeemable \in Nat
             /\ reserve[i].pending \in Nat /\ reserve[i].settled \in Nat
             /\ closed[i].deposited =
                   closed[i].available + closed[i].claimable + closed[i].consumed
             /\ reserve[i].deposited =
                   reserve[i].available + reserve[i].redeemable
                     + reserve[i].pending + reserve[i].settled
  BY <1>1
     DEF AccountInv, LedgersOK, PeerOK, ClosedOK, ReserveOK, PeerCreditLedger,
         ClosedLoopLedger, WithdrawableReserveLedger, U64
<1>6. ASSUME NEW i \in Issuers
      PROVE  PeerCredits(s, i) - PeerDebits(s, i) = peer[i].outstanding
  BY <1>4, <1>5
<1>7. SumFunctionOnSet([i \in Issuers |-> s.peer[i].outstanding], Issuers) = s.total
  BY <1>1, <1>3, Zenon DEF TotalIsSum
<1>8. s.total <= s.max_total
  BY <1>1, <1>3 DEF AccountInv, LedgersOK
<1>9. ValidateTotals(s)
  BY <1>3, <1>4, <1>6, <1>7, <1>8 DEF ValidateTotals
<1>10. ASSUME NEW i \in Issuers
       PROVE  ExpectedTotalsFit(s, i) <=> PeerCredits(s, i) <= U64Max
  <2>1. PeerCredits(s, i) <= U64Max => PeerDebits(s, i) <= U64Max
    BY <1>1, <1>4, <1>5
  <2>2. /\ Deposited(s, i, "ClosedLoopDeposit") <= U64Max
        /\ Deposited(s, i, "ReserveBackedWithdrawable") <= U64Max
        /\ Allocated(s, i, "ClosedLoopDeposit") <= U64Max
        /\ Allocated(s, i, "ReserveBackedWithdrawable") <= U64Max
        /\ Consumed(s, i) <= U64Max
        /\ PendingExternal(s, i) <= U64Max /\ SettledExternal(s, i) <= U64Max
    BY <1>1, <1>4, <1>5
  <2> QED  BY <2>1, <2>2 DEF ExpectedTotalsFit
<1> QED  BY <1>2, <1>9, <1>10

\* A restart gets the same account back exactly when no issuer's receipts and
\* incoming novations add up to more than a u64: every other check of validate
\* accepts the snapshot of every reachable account, the replay of the events
\* yields the live ledgers, and from_snapshot rebuilds the account.  The
\* condition is on gross credit, which novations back and forth raise without
\* raising any exposure.
THEOREM RestoreTheorem ==
    Spec => [](SnapshotRestores <=> \A i \in Issuers : PeerCredits(Snapshot, i) <= U64Max)
<1>1. RestoreInv => (SnapshotRestores <=>
                        \A i \in Issuers : PeerCredits(Snapshot, i) <= U64Max)
  <2> SUFFICES ASSUME RestoreInv
               PROVE  SnapshotRestores <=>
                         \A i \in Issuers : PeerCredits(Snapshot, i) <= U64Max
    OBVIOUS
  <2>1. FromSnapshot(Snapshot) = Live /\ ValidateDeposits(Snapshot)
    BY RestoredIsLive
  <2>2. /\ \A i \in Issuers : ValidateIssuer(Snapshot, i)
        /\ ValidateReceipts(Snapshot) /\ ValidateNovations(Snapshot)
        /\ ValidateBackedSettlements(Snapshot) /\ ValidateConsumptions(Snapshot)
        /\ ValidateExternalSettlements(Snapshot) /\ ValidateRevision(Snapshot)
    BY RestoredRecords
  <2>3. /\ ValidateTotals(Snapshot)
        /\ \A i \in Issuers :
              ExpectedTotalsFit(Snapshot, i) <=> PeerCredits(Snapshot, i) <= U64Max
    BY RestoredTotals
  <2>4. ValidatePeerCreditEvents(Snapshot)
    BY SeenCounts DEF RestoreInv
  <2>5. Snapshot.version = 1
    BY DEF Snapshot
  <2> QED  BY <2>1, <2>2, <2>3, <2>4, <2>5, Zenon DEF SnapshotRestores, Validate
<1>2. Spec => []RestoreInv
  BY InitRestore, NextRestore, PTL DEF Spec
<1> QED  BY <1>1, <1>2, PTL
=============================================================================
