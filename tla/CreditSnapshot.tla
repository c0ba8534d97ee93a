--------------------------- MODULE CreditSnapshot ---------------------------
(***************************************************************************)
(* The persisted form of a credit account and its validation               *)
(* (crates/cashu-credit/src/snapshot.rs).  An account leaves memory only as *)
(* the value Snapshot and comes back only through FromSnapshot, which       *)
(* recomputes every ledger from the retained records and refuses a value   *)
(* that does not add up.  The JSON text itself is left out.                 *)
(***************************************************************************)
EXTENDS CreditAccount, Functions

Stored(map) == {k \in DOMAIN map : map[k] # None}
Kept(map) == {map[k] : k \in Stored(map)}

\* The sum of Value(r) over the records of map that satisfy Test.  Summing over
\* keys keeps two records with equal contents apart.
Total(map, Test(_), Value(_)) ==
    SumFunctionOnSet([k \in DOMAIN map |-> IF map[k] # None /\ Test(map[k])
                                           THEN Value(map[k]) ELSE 0], DOMAIN map)

Amount(r) == r.amount

\* CreditAccount::snapshot.  BTreeMap::values yields the deposits once each in
\* key order, so their vector is the set of them.
Snapshot ==
    [version |-> 1, revision |-> revision, counterparty |-> Counterparty,
     max_total |-> MaxTotalPeerCredit, total |-> totalPeer,
     policy |-> Policy, peer |-> peer, closed |-> closed, reserve |-> reserve,
     receipts |-> receipts, events |-> events, novations |-> novations,
     deposits |-> Kept(deposits), backed |-> backed, consumptions |-> consumptions,
     settlements |-> settlements]

-----------------------------------------------------------------------------
(* validate, one definition per function it calls.                         *)

ValidateIssuer(s, i) ==
    LET p == s.policy[i]
        w == s.reserve[i]
        c == s.closed[i]
    IN  /\ p.max_offline_peer_credit <= p.max_peer_credit
        /\ s.peer[i].offline <= s.peer[i].outstanding
        /\ s.peer[i].outstanding <= p.max_peer_credit
        /\ s.peer[i].offline <= p.max_offline_peer_credit
        /\ c.claimable <= p.max_closed_loop
        /\ w.redeemable + w.pending <= p.max_withdrawable
        /\ c.available + c.claimable + c.consumed = c.deposited
        /\ w.available + w.redeemable + w.pending + w.settled = w.deposited

ValidateReceipts(s) ==
    \A k \in Stored(s.receipts) :
        LET r == s.receipts[k]
        IN  /\ k = r.receipt_id /\ k # Blank
            /\ r.counterparty = s.counterparty
            /\ r.useful /\ r.amount > 0
            /\ r.issued_at < r.expires_at
            /\ r.issuer \in Issuers

ValidateNovations(s) ==
    \A k \in Stored(s.novations) :
        LET n == s.novations[k]
        IN  /\ k = n.novation_id /\ k # Blank
            /\ n.counterparty = s.counterparty
            /\ n.from_issuer # n.to_issuer
            /\ n.amount > 0
            /\ n.from_issuer \in Issuers /\ n.to_issuer \in Issuers

\* The keys of the deposits must be strictly increasing, so distinct.
ValidateDeposits(s) ==
    \A d \in s.deposits :
        /\ \A e \in s.deposits : DepositKey(d) = DepositKey(e) => d = e
        /\ d.deposit_id # Blank /\ d.amount > 0
        /\ d.value_class # "PeerCredit"
        /\ d.issuer \in Issuers

ValidateBackedSettlements(s) ==
    \A k \in Stored(s.backed) :
        LET b == s.backed[k]
        IN  /\ k = b.settlement_id /\ k # Blank
            /\ b.counterparty = s.counterparty
            /\ b.amount > 0
            /\ b.value_class # "PeerCredit"
            /\ b.from_issuer \in Issuers /\ b.backing_issuer \in Issuers

ValidateConsumptions(s) ==
    \A k \in Stored(s.consumptions) :
        LET c == s.consumptions[k]
        IN  /\ k = c.consumption_id /\ k # Blank
            /\ c.counterparty = s.counterparty
            /\ c.resource # Blank /\ c.amount > 0
            /\ c.issuer \in Issuers

ValidateExternalSettlements(s) ==
    \A k \in Stored(s.settlements) :
        LET record == s.settlements[k]
            r == record.request
        IN  /\ r.amount + r.max_fee <= U64Max
            /\ k = r.settlement_id /\ k # Blank
            /\ r.counterparty = s.counterparty
            /\ r.payout_destination # Blank /\ r.amount > 0
            /\ record.authorization.reserved = r.amount + r.max_fee
            /\ record.authorization.authorized_at < r.expires_at
            /\ r.issuer \in Issuers
            /\ record.state = "Completed" => record.fee <= r.max_fee

\* One event applied to the ledgers rebuilt so far; "ok" falls when the code
\* returns an error: a revision out of order, a duplicate, a missing or wrong
\* record, or a ledger operation that cannot apply.
ReplayEvent(s, acc, e) ==
    LET inOrder == acc.revision < e.revision /\ e.revision <= s.revision
        fresh == <<e.type, e.id>> \notin acc.seen
        record == CASE e.type = "Receipt" -> s.receipts[e.id]
                    [] e.type = "Novation" -> s.novations[e.id]
                    [] e.type = "BackedSettlement" -> s.backed[e.id]
        offline == e.mode = "OfflineDeferred"
        applies == CASE e.type = "Receipt" ->
                          /\ record.value_class = "PeerCredit"
                          /\ CanCredit(acc.ledgers[record.issuer], record.amount, offline)
                     [] e.type = "Novation" ->
                          /\ CanDebit(acc.ledgers[record.from_issuer], record.amount)
                          /\ CanCredit(acc.ledgers[record.to_issuer], record.amount, FALSE)
                     [] e.type = "BackedSettlement" ->
                          CanDebit(acc.ledgers[record.from_issuer], record.amount)
        replayed == CASE e.type = "Receipt" ->
                          [acc.ledgers EXCEPT ![record.issuer] = Credit(@, record.amount, offline)]
                      [] e.type = "Novation" ->
                          [acc.ledgers EXCEPT ![record.from_issuer] = Debit(@, record.amount),
                                              ![record.to_issuer] = Credit(@, record.amount, FALSE)]
                      [] e.type = "BackedSettlement" ->
                          [acc.ledgers EXCEPT ![record.from_issuer] = Debit(@, record.amount)]
    IN  IF acc.ok /\ inOrder /\ fresh /\ record # None /\ applies
        THEN [ok |-> TRUE, revision |-> e.revision, ledgers |-> replayed,
              seen |-> acc.seen \cup {<<e.type, e.id>>}]
        ELSE [acc EXCEPT !.ok = FALSE]

NothingReplayed ==
    [ok |-> TRUE, revision |-> 0, seen |-> {},
     ledgers |-> [i \in Issuers |-> [outstanding |-> 0, offline |-> 0]]]

Replay(s) ==
    LET after[n \in 0..Len(s.events)] ==
            IF n = 0 THEN NothingReplayed ELSE ReplayEvent(s, after[n - 1], s.events[n])
    IN  after[Len(s.events)]

ValidatePeerCreditEvents(s) ==
    LET Count(type) == Cardinality({x \in Replay(s).seen : x[1] = type})
    IN  /\ Replay(s).ok
        /\ Count("Receipt") =
              Cardinality({k \in Stored(s.receipts) : s.receipts[k].value_class = "PeerCredit"})
        /\ Count("Novation") = Cardinality(Stored(s.novations))
        /\ Count("BackedSettlement") = Cardinality(Stored(s.backed))
        /\ Replay(s).ledgers = s.peer

(* ExpectedIssuerState: what the records of issuer i add up to.            *)
PeerCredits(s, i) ==
    Total(s.receipts, LAMBDA r : r.issuer = i /\ r.value_class = "PeerCredit", Amount)
      + Total(s.novations, LAMBDA n : n.to_issuer = i, Amount)
PeerDebits(s, i) ==
    Total(s.novations, LAMBDA n : n.from_issuer = i, Amount)
      + Total(s.backed, LAMBDA b : b.from_issuer = i, Amount)
Deposited(s, i, class) ==
    SumFunctionOnSet([d \in s.deposits |-> IF d.issuer = i /\ d.value_class = class
                                           THEN d.amount ELSE 0], s.deposits)
Allocated(s, i, class) ==
    Total(s.receipts, LAMBDA r : r.issuer = i /\ r.value_class = class, Amount)
      + Total(s.backed, LAMBDA b : b.backing_issuer = i /\ b.value_class = class, Amount)
Consumed(s, i) == Total(s.consumptions, LAMBDA c : c.issuer = i, Amount)
PendingExternal(s, i) ==
    Total(s.settlements, LAMBDA r : r.request.issuer = i /\ r.state = "Pending",
          LAMBDA r : r.request.amount + r.request.max_fee)
SettledExternal(s, i) ==
    Total(s.settlements, LAMBDA r : r.request.issuer = i /\ r.state = "Completed",
          LAMBDA r : r.request.amount + r.fee)

\* Every running total is a checked u64 sum of positive terms: it overflows
\* exactly when the final sum does.
ExpectedTotalsFit(s, i) ==
    \A total \in {PeerCredits(s, i), PeerDebits(s, i),
                  Deposited(s, i, "ClosedLoopDeposit"),
                  Deposited(s, i, "ReserveBackedWithdrawable"),
                  Allocated(s, i, "ClosedLoopDeposit"),
                  Allocated(s, i, "ReserveBackedWithdrawable"),
                  Consumed(s, i), PendingExternal(s, i), SettledExternal(s, i)} :
        total <= U64Max

ValidateTotals(s) ==
    /\ \A i \in Issuers :
          /\ Deposited(s, i, "ClosedLoopDeposit") = s.closed[i].deposited
          /\ Deposited(s, i, "ReserveBackedWithdrawable") = s.reserve[i].deposited
          /\ PeerCredits(s, i) - PeerDebits(s, i) = s.peer[i].outstanding
          /\ Allocated(s, i, "ClosedLoopDeposit") = s.closed[i].claimable + s.closed[i].consumed
          /\ Consumed(s, i) = s.closed[i].consumed
          /\ Allocated(s, i, "ReserveBackedWithdrawable") =
                s.reserve[i].redeemable + s.reserve[i].pending + s.reserve[i].settled
          /\ PendingExternal(s, i) = s.reserve[i].pending
          /\ SettledExternal(s, i) = s.reserve[i].settled
    /\ SumFunctionOnSet([i \in Issuers |-> s.peer[i].outstanding], Issuers) = s.total
    /\ s.total <= s.max_total

ValidateRevision(s) ==
    s.revision = Cardinality(Stored(s.receipts)) + Cardinality(Stored(s.novations))
                   + Cardinality(s.deposits) + Cardinality(Stored(s.backed))
                   + Cardinality(Stored(s.consumptions)) + Cardinality(Stored(s.settlements))
                   + Cardinality({k \in Stored(s.settlements) : s.settlements[k].state # "Pending"})

Validate(s) ==
    /\ s.version = 1
    /\ \A i \in Issuers : ValidateIssuer(s, i)
    /\ ValidateReceipts(s)
    /\ ValidateNovations(s)
    /\ ValidateDeposits(s)
    /\ ValidateBackedSettlements(s)
    /\ ValidatePeerCreditEvents(s)
    /\ ValidateConsumptions(s)
    /\ ValidateExternalSettlements(s)
    /\ \A i \in Issuers : ExpectedTotalsFit(s, i)
    /\ ValidateTotals(s)
    /\ ValidateRevision(s)

\* CreditAccount::from_snapshot after validation: the deposits are keyed again
\* by issuer and identifier.
FromSnapshot(s) ==
    [revision |-> s.revision, total |-> s.total, peer |-> s.peer, closed |-> s.closed,
     reserve |-> s.reserve, receipts |-> s.receipts, events |-> s.events,
     novations |-> s.novations,
     deposits |-> [k \in DepositKeys |->
                     IF \E d \in s.deposits : DepositKey(d) = k
                     THEN CHOOSE d \in s.deposits : DepositKey(d) = k
                     ELSE None],
     backed |-> s.backed, consumptions |-> s.consumptions, settlements |-> s.settlements]

Live ==
    [revision |-> revision, total |-> totalPeer, peer |-> peer, closed |-> closed,
     reserve |-> reserve, receipts |-> receipts, events |-> events,
     novations |-> novations, deposits |-> deposits, backed |-> backed,
     consumptions |-> consumptions, settlements |-> settlements]

-----------------------------------------------------------------------------
(* Properties.                                                             *)

\* A process that persists the account after any operation and restarts gets
\* the same account back: validate accepts the snapshot of every reachable
\* account (the ledgers the operations kept incrementally are the ones the
\* records and the replayed events add up to), and from_snapshot rebuilds it.
SnapshotRestores == Validate(Snapshot) /\ FromSnapshot(Snapshot) = Live

\* What leaves or may still leave through an issuer never exceeds the verified
\* withdrawable deposits of that same issuer, computed from the records alone
\* (README of cashu-credit: no class borrows another issuer's reserve).
PaidOutWithinDeposits ==
    \A i \in Issuers :
        PendingExternal(Snapshot, i) + SettledExternal(Snapshot, i)
          <= Deposited(Snapshot, i, "ReserveBackedWithdrawable")

\* A pending settlement can always be finished, whatever other settlements,
\* receipts and deposits did since it was authorized: the ledger moves of
\* complete_external_settlement, for every fee up to the ceiling, and those of
\* cancel_external_settlement succeed.
PendingSettlementsFinishable ==
    \A id \in PendingAuthorizations :
        LET record == settlements[id]
        IN  /\ \A fee \in 0..record.request.max_fee : CanCompleteSettlement(id, fee)
            /\ CanCancel(reserve[record.request.issuer], record.authorization.reserved)

\* The unbacked exposure the aggregate cap is checked against is the sum over
\* the issuers: novation moves exposure without creating or destroying any, and
\* a backed settlement removes it once (docs/peer-credit.md).
TotalIsSum == totalPeer = SumFunctionOnSet([i \in Issuers |-> peer[i].outstanding], Issuers)
=============================================================================
