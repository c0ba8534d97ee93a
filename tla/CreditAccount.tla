--------------------------- MODULE CreditAccount ---------------------------
(***************************************************************************)
(* The account of one counterparty across a bounded set of trusted issuers *)
(* (crates/cashu-credit: ledger.rs, account.rs, protocol.rs).              *)
(*                                                                         *)
(* Every operation of the account is one action.  A call that the code     *)
(* answers with an error, or with AlreadyApplied, changes nothing and is a *)
(* stuttering step; the conditions under which a call does change the      *)
(* account are the guards.  The clock is not part of the account: each     *)
(* call brings the caller's reading of it, an arbitrary member of Times.   *)
(***************************************************************************)
EXTENDS Integers, Sequences, FiniteSets

CONSTANTS
    Peers,              \* authenticated identities
    Issuers,            \* the issuers the policy accepts
    Counterparty,       \* the party this account is about
    Policy,             \* IssuerPolicy of each issuer
    MaxTotalPeerCredit, \* aggregate cap on unbacked credit
    U64Max,             \* largest value of the code's u64
    Ids,                \* operation identifiers, destinations, resources
    Blank,              \* a string that is empty after trim()
    None,               \* absent optional value or map entry
    Claims,             \* the receipts callers may present
    Novations,          \* the novations callers may present
    Deposits,           \* the backing deposits adapters may report
    BackedSettlements,  \* the backed settlements callers may present
    Consumptions,       \* the closed-loop consumptions callers may present
    SettlementRequests, \* the external settlements callers may request
    Times,              \* clock readings callers may bring
    Fees                \* fees a backend may report on completion

VARIABLES
    revision,       \* applied mutations
    totalPeer,      \* total_peer_credit_sat
    peer,           \* PeerCreditLedger of each issuer
    closed,         \* ClosedLoopLedger of each issuer
    reserve,        \* WithdrawableReserveLedger of each issuer
    receipts,       \* applied_receipts
    events,         \* peer_credit_events
    novations,
    deposits,       \* backing_deposits, keyed by issuer and deposit id
    backed,         \* backed_settlements
    consumptions,   \* closed_loop_consumptions
    settlements     \* external settlements

ledgers == <<totalPeer, peer, closed, reserve>>
records == <<receipts, events, novations, deposits, backed, consumptions, settlements>>
vars == <<revision, totalPeer, peer, closed, reserve, receipts, events,
          novations, deposits, backed, consumptions, settlements>>

-----------------------------------------------------------------------------
(* Types (protocol.rs).                                                    *)

U64 == 0..U64Max
ValueClass == {"PeerCredit", "ClosedLoopDeposit", "ReserveBackedWithdrawable"}
AcceptanceMode == {"Online", "OfflineDeferred"}

IssuerPolicy ==
    [max_peer_credit : U64, max_offline_peer_credit : U64, max_closed_loop : U64,
     max_withdrawable : U64, expires_at : U64 \cup {None}]

\* "useful": the claim names a service and a resource and counts some units.
ServiceReceiptClaim ==
    [receipt_id : Ids, issuer : Peers, counterparty : Peers, useful : BOOLEAN,
     amount : U64, value_class : ValueClass, issued_at : U64, expires_at : U64]

CreditNovation ==
    [novation_id : Ids, counterparty : Peers, from_issuer : Peers,
     to_issuer : Peers, amount : U64, expires_at : U64]

BackingDeposit ==
    [deposit_id : Ids, issuer : Peers, amount : U64, value_class : ValueClass]

BackedCreditSettlement ==
    [settlement_id : Ids, counterparty : Peers, from_issuer : Peers,
     backing_issuer : Peers, amount : U64, value_class : ValueClass, expires_at : U64]

ClosedLoopConsumption ==
    [consumption_id : Ids, issuer : Peers, counterparty : Peers, resource : Ids, amount : U64]

ExternalSettlementRequest ==
    [settlement_id : Ids, issuer : Peers, counterparty : Peers,
     payout_destination : Ids, amount : U64, max_fee : U64, expires_at : U64]

\* An authorization repeats the fields of its request and adds these two.
ExternalSettlementAuthorization == [reserved : U64, authorized_at : U64]

SettlementRecord ==
    [request : SettlementRequests, authorization : ExternalSettlementAuthorization,
     state : {"Pending", "Completed", "Cancelled"}, fee : U64]

PeerCreditEvent ==
    [type : {"Receipt", "Novation", "BackedSettlement"}, revision : U64, id : Ids,
     mode : AcceptanceMode]

DepositKey(d) == <<d.issuer, d.deposit_id>>
DepositKeys == {DepositKey(d) : d \in Deposits}

\* The two checks CreditAccount::new makes on the policy it is given.
ValidPolicy ==
    /\ Counterparty # Blank
    /\ Issuers # {} /\ Blank \notin Issuers
    /\ \A i \in Issuers : Policy[i].max_offline_peer_credit <= Policy[i].max_peer_credit

ASSUME PolicyAssumption ==
    /\ U64Max \in Nat
    /\ Issuers \subseteq Peers /\ Counterparty \in Peers
    /\ Policy \in [Issuers -> IssuerPolicy]
    /\ MaxTotalPeerCredit \in U64
    /\ ValidPolicy

ASSUME InputAssumption ==
    /\ Claims \subseteq ServiceReceiptClaim
    /\ Novations \subseteq CreditNovation
    /\ Deposits \subseteq BackingDeposit
    /\ BackedSettlements \subseteq BackedCreditSettlement
    /\ Consumptions \subseteq ClosedLoopConsumption
    /\ SettlementRequests \subseteq ExternalSettlementRequest
    /\ Times \subseteq U64 /\ Fees \subseteq U64

ASSUME NoneAssumption ==
    /\ None \notin Claims \cup Novations \cup Deposits \cup BackedSettlements \cup Consumptions
    /\ None \notin SettlementRecord

ASSUME IdsAssumption == IsFiniteSet(Ids) /\ IsFiniteSet(Peers)

-----------------------------------------------------------------------------
(* The three ledgers (ledger.rs).  CanX is the condition under which X      *)
(* returns Ok, every checked_add included.                                  *)

PeerCreditLedger == [outstanding : U64, offline : U64]
ClosedLoopLedger == [deposited : U64, available : U64, claimable : U64, consumed : U64]
WithdrawableReserveLedger ==
    [deposited : U64, available : U64, redeemable : U64, pending : U64, settled : U64]

ClosedLoop(deposited, available, claimable, consumed) ==
    [deposited |-> deposited, available |-> available, claimable |-> claimable,
     consumed |-> consumed]
Reserve(deposited, available, redeemable, pending, settled) ==
    [deposited |-> deposited, available |-> available, redeemable |-> redeemable,
     pending |-> pending, settled |-> settled]

CanCredit(l, amount, offline) ==
    /\ l.outstanding + amount <= U64Max
    /\ offline => l.offline + amount <= U64Max
Credit(l, amount, offline) ==
    [outstanding |-> l.outstanding + amount,
     offline |-> IF offline THEN l.offline + amount ELSE l.offline]

\* Mutants of debit: no check, the clone is dropped, the offline part is kept.
UncheckedDebit(l, amount) == TRUE
ForgottenDebit(l, amount) == l
DebitKeepingOffline(l, amount) ==
    [outstanding |-> l.outstanding - amount, offline |-> l.offline]

CanDebit(l, amount) == amount <= l.outstanding
Debit(l, amount) ==
    LET left == l.outstanding - amount
    IN  [outstanding |-> left, offline |-> IF l.offline < left THEN l.offline ELSE left]

\* The two backed ledgers check a deposit in the same way.
CanDeposit(l, amount) ==
    /\ l.deposited + amount <= U64Max
    /\ l.available + amount <= U64Max
DepositClosed(l, amount) ==
    ClosedLoop(l.deposited + amount, l.available + amount, l.claimable, l.consumed)
DepositReserve(l, amount) ==
    Reserve(l.deposited + amount, l.available + amount, l.redeemable, l.pending, l.settled)

CanAllocateClosed(l, amount) ==
    amount <= l.available /\ l.claimable + amount <= U64Max
AllocateClosed(l, amount) ==
    ClosedLoop(l.deposited, l.available - amount, l.claimable + amount, l.consumed)

CanConsume(l, amount) == amount <= l.claimable /\ l.consumed + amount <= U64Max
Consume(l, amount) ==
    ClosedLoop(l.deposited, l.available, l.claimable - amount, l.consumed + amount)

\* Mutant of allocate: a receipt needs no backing.
UnbackedAllocate(l, amount) == l.redeemable + amount <= U64Max

CanAllocateReserve(l, amount) ==
    amount <= l.available /\ l.redeemable + amount <= U64Max
AllocateReserve(l, amount) ==
    Reserve(l.deposited, l.available - amount, l.redeemable + amount, l.pending, l.settled)

\* Mutant of authorize: the reservation replaces the earlier ones.
AuthorizeOverwriting(l, amount) ==
    Reserve(l.deposited, l.available, l.redeemable - amount, amount, l.settled)

CanAuthorize(l, amount) == amount <= l.redeemable /\ l.pending + amount <= U64Max
Authorize(l, amount) ==
    Reserve(l.deposited, l.available, l.redeemable - amount, l.pending + amount, l.settled)

CanComplete(l, amount) == amount <= l.pending /\ l.settled + amount <= U64Max
Complete(l, amount) ==
    Reserve(l.deposited, l.available, l.redeemable, l.pending - amount, l.settled + amount)

\* Mutant of cancel: the released value stays pending as well.
CancelKeepingPending(l, amount) ==
    Reserve(l.deposited, l.available, l.redeemable + amount, l.pending, l.settled)

CanCancel(l, amount) == amount <= l.pending /\ l.redeemable + amount <= U64Max
Cancel(l, amount) ==
    Reserve(l.deposited, l.available, l.redeemable + amount, l.pending - amount, l.settled)

-----------------------------------------------------------------------------
(* Validation shared by the operations (account.rs).                       *)

EnsureActive(i, t) == Policy[i].expires_at # None => t < Policy[i].expires_at

NextRevision == revision + 1 <= U64Max

ValidReceiptIdentity(c, auth) ==
    /\ c.counterparty = Counterparty
    /\ c.issuer = auth
    /\ c.issuer \in Issuers
    /\ c.receipt_id # Blank

ValidReceipt(c, t) ==
    /\ EnsureActive(c.issuer, t)
    /\ c.issued_at <= t /\ t < c.expires_at
    /\ c.useful
    /\ c.amount > 0

ValidNovationIdentity(n, auth) ==
    /\ n.counterparty = Counterparty
    /\ n.to_issuer = auth
    /\ n.from_issuer # n.to_issuer
    /\ n.novation_id # Blank
    /\ n.from_issuer \in Issuers /\ n.to_issuer \in Issuers

ValidNovation(n, t) ==
    /\ t < n.expires_at
    /\ n.amount > 0
    /\ EnsureActive(n.from_issuer, t) /\ EnsureActive(n.to_issuer, t)

ValidBackingDeposit(d, auth) ==
    /\ d.issuer = auth
    /\ d.issuer \in Issuers
    /\ d.deposit_id # Blank
    /\ d.amount > 0
    /\ d.value_class # "PeerCredit"

ValidBackedSettlementIdentity(s, auth) ==
    /\ s.counterparty = Counterparty
    /\ s.backing_issuer = auth
    /\ s.from_issuer \in Issuers /\ s.backing_issuer \in Issuers
    /\ s.settlement_id # Blank

ValidBackedSettlement(s, t) ==
    /\ EnsureActive(s.from_issuer, t) /\ EnsureActive(s.backing_issuer, t)
    /\ t < s.expires_at
    /\ s.amount > 0
    /\ s.value_class # "PeerCredit"

ValidClosedLoopConsumption(c, auth) ==
    /\ c.counterparty = Counterparty
    /\ c.counterparty = auth
    /\ c.issuer \in Issuers
    /\ c.consumption_id # Blank /\ c.resource # Blank
    /\ c.amount > 0

ValidSettlementIdentity(r, auth) ==
    /\ r.counterparty = Counterparty
    /\ r.counterparty = auth
    /\ r.issuer \in Issuers
    /\ r.settlement_id # Blank

ValidSettlement(r, t) ==
    /\ EnsureActive(r.issuer, t)
    /\ t < r.expires_at
    /\ r.amount > 0
    /\ r.payout_destination # Blank

\* ensure_withdrawable_capacity
WithdrawableCapacity(i, amount) ==
    reserve[i].redeemable + reserve[i].pending + amount <= Policy[i].max_withdrawable

ClosedLoopCapacity(i, amount) ==
    closed[i].claimable + amount <= Policy[i].max_closed_loop

\* Mutant: the event carries the revision before the operation.
EventAtOldRevision(type, id, mode) ==
    [type |-> type, revision |-> revision, id |-> id, mode |-> mode]

\* What a peer-credit operation appends to peer_credit_events.
Event(type, id, mode) ==
    [type |-> type, revision |-> revision + 1, id |-> id, mode |-> mode]
-----------------------------------------------------------------------------
(* The operations (account.rs).                                            *)

Init ==
    /\ revision = 0
    /\ totalPeer = 0
    /\ peer = [i \in Issuers |-> [outstanding |-> 0, offline |-> 0]]
    /\ closed = [i \in Issuers |-> ClosedLoop(0, 0, 0, 0)]
    /\ reserve = [i \in Issuers |-> Reserve(0, 0, 0, 0, 0)]
    /\ receipts = [id \in Ids |-> None]
    /\ events = << >>
    /\ novations = [id \in Ids |-> None]
    /\ deposits = [k \in DepositKeys |-> None]
    /\ backed = [id \in Ids |-> None]
    /\ consumptions = [id \in Ids |-> None]
    /\ settlements = [id \in Ids |-> None]

RecordBackingDeposit(d, auth) ==
    /\ ValidBackingDeposit(d, auth)
    /\ deposits[DepositKey(d)] = None
    /\ NextRevision
    /\ \/ /\ d.value_class = "ClosedLoopDeposit"
          /\ CanDeposit(closed[d.issuer], d.amount)
          /\ closed' = [closed EXCEPT ![d.issuer] = DepositClosed(@, d.amount)]
          /\ UNCHANGED reserve
       \/ /\ d.value_class = "ReserveBackedWithdrawable"
          /\ CanDeposit(reserve[d.issuer], d.amount)
          /\ reserve' = [reserve EXCEPT ![d.issuer] = DepositReserve(@, d.amount)]
          /\ UNCHANGED closed
    /\ deposits' = [deposits EXCEPT ![DepositKey(d)] = d]
    /\ revision' = revision + 1
    /\ UNCHANGED <<totalPeer, peer, receipts, events, novations, backed, consumptions, settlements>>

ApplyPeerCredit(c, mode) ==
    LET offline == mode = "OfflineDeferred"
        ledger == Credit(peer[c.issuer], c.amount, offline)
    IN  /\ CanCredit(peer[c.issuer], c.amount, offline)
        /\ ledger.outstanding <= Policy[c.issuer].max_peer_credit
        /\ ledger.offline <= Policy[c.issuer].max_offline_peer_credit
        /\ totalPeer + c.amount <= U64Max
        /\ totalPeer + c.amount <= MaxTotalPeerCredit
        /\ peer' = [peer EXCEPT ![c.issuer] = ledger]
        /\ totalPeer' = totalPeer + c.amount
        /\ events' = Append(events, Event("Receipt", c.receipt_id, mode))
        /\ UNCHANGED <<closed, reserve>>

ApplyClosedLoop(c) ==
    /\ ClosedLoopCapacity(c.issuer, c.amount)
    /\ CanAllocateClosed(closed[c.issuer], c.amount)
    /\ closed' = [closed EXCEPT ![c.issuer] = AllocateClosed(@, c.amount)]
    /\ UNCHANGED <<totalPeer, peer, reserve, events>>

ApplyWithdrawable(c) ==
    /\ WithdrawableCapacity(c.issuer, c.amount)
    /\ CanAllocateReserve(reserve[c.issuer], c.amount)
    /\ reserve' = [reserve EXCEPT ![c.issuer] = AllocateReserve(@, c.amount)]
    /\ UNCHANGED <<totalPeer, peer, closed, events>>

\* Backed value is accepted online only (require_online).
ApplyReceipt(c, auth, mode, t) ==
    /\ ValidReceiptIdentity(c, auth)
    /\ receipts[c.receipt_id] = None
    /\ ValidReceipt(c, t)
    /\ NextRevision
    /\ \/ c.value_class = "PeerCredit" /\ ApplyPeerCredit(c, mode)
       \/ c.value_class = "ClosedLoopDeposit" /\ mode = "Online" /\ ApplyClosedLoop(c)
       \/ c.value_class = "ReserveBackedWithdrawable" /\ mode = "Online" /\ ApplyWithdrawable(c)
    /\ receipts' = [receipts EXCEPT ![c.receipt_id] = c]
    /\ revision' = revision + 1
    /\ UNCHANGED <<novations, deposits, backed, consumptions, settlements>>

NovatePeerCredit(n, auth, t) ==
    LET source == peer[n.from_issuer]
        target == peer[n.to_issuer]
    IN  /\ ValidNovationIdentity(n, auth)
        /\ novations[n.novation_id] = None
        /\ ValidNovation(n, t)
        /\ NextRevision
        /\ CanDebit(source, n.amount)
        /\ CanCredit(target, n.amount, FALSE)
        /\ target.outstanding + n.amount <= Policy[n.to_issuer].max_peer_credit
        /\ peer' = [peer EXCEPT ![n.from_issuer] = Debit(source, n.amount),
                                ![n.to_issuer] = Credit(target, n.amount, FALSE)]
        /\ events' = Append(events, Event("Novation", n.novation_id, "Online"))
        /\ novations' = [novations EXCEPT ![n.novation_id] = n]
        /\ revision' = revision + 1
        /\ UNCHANGED <<totalPeer, closed, reserve, receipts, deposits, backed,
                       consumptions, settlements>>

SettlePeerCreditWithBacking(s, auth, t) ==
    /\ ValidBackedSettlementIdentity(s, auth)
    /\ backed[s.settlement_id] = None
    /\ ValidBackedSettlement(s, t)
    /\ NextRevision
    /\ CanDebit(peer[s.from_issuer], s.amount)
    /\ s.amount <= totalPeer
    /\ \/ /\ s.value_class = "ClosedLoopDeposit"
          /\ ClosedLoopCapacity(s.backing_issuer, s.amount)
          /\ CanAllocateClosed(closed[s.backing_issuer], s.amount)
          /\ closed' = [closed EXCEPT ![s.backing_issuer] = AllocateClosed(@, s.amount)]
          /\ UNCHANGED reserve
       \/ /\ s.value_class = "ReserveBackedWithdrawable"
          /\ WithdrawableCapacity(s.backing_issuer, s.amount)
          /\ CanAllocateReserve(reserve[s.backing_issuer], s.amount)
          /\ reserve' = [reserve EXCEPT ![s.backing_issuer] = AllocateReserve(@, s.amount)]
          /\ UNCHANGED closed
    /\ peer' = [peer EXCEPT ![s.from_issuer] = Debit(@, s.amount)]
    /\ totalPeer' = totalPeer - s.amount
    /\ events' = Append(events, Event("BackedSettlement", s.settlement_id, "Online"))
    /\ backed' = [backed EXCEPT ![s.settlement_id] = s]
    /\ revision' = revision + 1
    /\ UNCHANGED <<receipts, novations, deposits, consumptions, settlements>>

ConsumeClosedLoop(c, auth) ==
    /\ ValidClosedLoopConsumption(c, auth)
    /\ consumptions[c.consumption_id] = None
    /\ NextRevision
    /\ CanConsume(closed[c.issuer], c.amount)
    /\ closed' = [closed EXCEPT ![c.issuer] = Consume(@, c.amount)]
    /\ consumptions' = [consumptions EXCEPT ![c.consumption_id] = c]
    /\ revision' = revision + 1
    /\ UNCHANGED <<totalPeer, peer, reserve, receipts, events, novations, deposits,
                   backed, settlements>>

\* A retry of a pending request returns the stored authorization unchanged.
AuthorizeExternalSettlement(r, auth, t) ==
    LET reserved == r.amount + r.max_fee
    IN  /\ ValidSettlementIdentity(r, auth)
        /\ settlements[r.settlement_id] = None
        /\ ValidSettlement(r, t)
        /\ NextRevision
        /\ reserved <= U64Max
        /\ CanAuthorize(reserve[r.issuer], reserved)
        /\ reserve' = [reserve EXCEPT ![r.issuer] = Authorize(@, reserved)]
        /\ settlements' = [settlements EXCEPT ![r.settlement_id] =
               [request |-> r,
                authorization |-> [reserved |-> reserved, authorized_at |-> t],
                state |-> "Pending", fee |-> 0]]
        /\ revision' = revision + 1
        /\ UNCHANGED <<totalPeer, peer, closed, receipts, events, novations, deposits,
                       backed, consumptions>>

\* Mutant: the state of the record is not looked at.
InAnyState(id) == settlements[id] # None

Pending(id) == settlements[id] # None /\ settlements[id].state = "Pending"

\* pending_external_settlement_authorizations: what a restarted worker resumes.
PendingAuthorizations == {id \in Ids : Pending(id)}

\* A completed record keeps the fee it was completed with.
Finished(record, state, fee) ==
    [request |-> record.request, authorization |-> record.authorization,
     state |-> state, fee |-> fee]

\* The conditions under which the two ledger moves of a completion succeed:
\* complete(spent), then cancel(unused) on the ledger complete left.
CanCompleteSettlement(id, fee) ==
    LET request == settlements[id].request
        spent == request.amount + fee
        ledger == reserve[request.issuer]
    IN  /\ spent <= U64Max
        /\ CanComplete(ledger, spent)
        /\ fee < request.max_fee =>
               CanCancel(Complete(ledger, spent), request.max_fee - fee)

CompleteExternalSettlement(id, fee) ==
    LET request == settlements[id].request
        completed == Complete(reserve[request.issuer], request.amount + fee)
        unused == request.max_fee - fee
    IN  /\ Pending(id)
        /\ fee <= request.max_fee
        /\ NextRevision
        /\ CanCompleteSettlement(id, fee)
        /\ reserve' = [reserve EXCEPT ![request.issuer] =
                          IF unused > 0 THEN Cancel(completed, unused) ELSE completed]
        /\ settlements' = [settlements EXCEPT ![id] = Finished(@, "Completed", fee)]
        /\ revision' = revision + 1
        /\ UNCHANGED <<totalPeer, peer, closed, receipts, events, novations, deposits,
                       backed, consumptions>>

CancelExternalSettlement(id) ==
    LET issuer == settlements[id].request.issuer
        reserved == settlements[id].authorization.reserved
    IN  /\ Pending(id)
        /\ NextRevision
        /\ CanCancel(reserve[issuer], reserved)
        /\ reserve' = [reserve EXCEPT ![issuer] = Cancel(@, reserved)]
        /\ settlements' = [settlements EXCEPT ![id] = Finished(@, "Cancelled", 0)]
        /\ revision' = revision + 1
        /\ UNCHANGED <<totalPeer, peer, closed, receipts, events, novations, deposits,
                       backed, consumptions>>

Next ==
    \/ \E d \in Deposits, auth \in Peers : RecordBackingDeposit(d, auth)
    \/ \E c \in Claims, auth \in Peers, mode \in AcceptanceMode, t \in Times :
           ApplyReceipt(c, auth, mode, t)
    \/ \E n \in Novations, auth \in Peers, t \in Times : NovatePeerCredit(n, auth, t)
    \/ \E s \in BackedSettlements, auth \in Peers, t \in Times :
           SettlePeerCreditWithBacking(s, auth, t)
    \/ \E c \in Consumptions, auth \in Peers : ConsumeClosedLoop(c, auth)
    \/ \E r \in SettlementRequests, auth \in Peers, t \in Times :
           AuthorizeExternalSettlement(r, auth, t)
    \/ \E id \in Ids, fee \in Fees : CompleteExternalSettlement(id, fee)
    \/ \E id \in Ids : CancelExternalSettlement(id)

Spec == Init /\ [][Next]_vars

-----------------------------------------------------------------------------
(* Properties.                                                             *)

\* Every field of the account stays within its type: no u64 of a ledger wraps
\* or underflows, and every stored record is one that a caller presented.
TypeOK ==
    /\ revision \in U64
    /\ totalPeer \in U64
    /\ peer \in [Issuers -> PeerCreditLedger]
    /\ closed \in [Issuers -> ClosedLoopLedger]
    /\ reserve \in [Issuers -> WithdrawableReserveLedger]
    /\ receipts \in [Ids -> Claims \cup {None}]
    /\ events \in Seq(PeerCreditEvent)
    /\ novations \in [Ids -> Novations \cup {None}]
    /\ deposits \in [DepositKeys -> Deposits \cup {None}]
    /\ backed \in [Ids -> BackedSettlements \cup {None}]
    /\ consumptions \in [Ids -> Consumptions \cup {None}]
    /\ settlements \in [Ids -> SettlementRecord \cup {None}]

\* The caps of the policy bound every exposure in every interleaving of
\* receipts, novations and settlements: a novation checks the target's cap
\* only, and a debit lowers the offline part by a minimum (account.rs,
\* ledger.rs), so this relates what four operations leave behind.
ExposureBounded ==
    /\ totalPeer <= MaxTotalPeerCredit
    /\ \A i \in Issuers :
          /\ peer[i].outstanding <= Policy[i].max_peer_credit
          /\ peer[i].offline <= Policy[i].max_offline_peer_credit
          /\ peer[i].offline <= peer[i].outstanding
          /\ closed[i].claimable <= Policy[i].max_closed_loop
          /\ reserve[i].redeemable + reserve[i].pending <= Policy[i].max_withdrawable

\* Backed value is neither created nor lost: what was deposited with an issuer
\* is available, allocated, or spent (conserved_sat of both ledgers).
BackingConserved ==
    \A i \in Issuers :
        /\ closed[i].deposited =
              closed[i].available + closed[i].claimable + closed[i].consumed
        /\ reserve[i].deposited =
              reserve[i].available + reserve[i].redeemable
                + reserve[i].pending + reserve[i].settled

\* What one step may do to the stored records.
RecordsKept ==
    /\ \A id \in Ids :
          /\ receipts[id] # None => receipts'[id] = receipts[id]
          /\ novations[id] # None => novations'[id] = novations[id]
          /\ backed[id] # None => backed'[id] = backed[id]
          /\ consumptions[id] # None => consumptions'[id] = consumptions[id]
          /\ settlements[id] # None =>
                /\ settlements'[id] # None
                /\ settlements'[id].request = settlements[id].request
                /\ settlements'[id].authorization = settlements[id].authorization
                /\ settlements[id].state # "Pending" => settlements'[id] = settlements[id]
    /\ \A k \in DepositKeys : deposits[k] # None => deposits'[k] = deposits[k]

\* A record, once stored under its identifier, is never replaced or removed; an
\* external settlement leaves Pending once, and its request and authorization
\* stay as they were when it was authorized (retries, replays, conflicts).
RecordsAreFinal == [][RecordsKept]_vars
=============================================================================
