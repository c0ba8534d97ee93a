-------------------------- MODULE MCCreditAccount --------------------------
(***************************************************************************)
(* Small instances of CreditAccount and CreditSnapshot.  Two accepted       *)
(* issuers, "a" without and "b" with a policy deadline, and a stranger.     *)
(* Each set of inputs also holds inputs the account must refuse: changed    *)
(* contents under a used identifier, an expired, a blank or a zero one.     *)
(***************************************************************************)
EXTENDS CreditSnapshot

MCPolicy ==
    [a |-> [max_peer_credit |-> 2, max_offline_peer_credit |-> 1, max_closed_loop |-> 2,
            max_withdrawable |-> 5, expires_at |-> None],
     b |-> [max_peer_credit |-> 1, max_offline_peer_credit |-> 1, max_closed_loop |-> 1,
            max_withdrawable |-> 2, expires_at |-> 2]]

Claim(id, issuer, class, amount, expires) ==
    [receipt_id |-> id, issuer |-> issuer, counterparty |-> "me", useful |-> TRUE,
     amount |-> amount, value_class |-> class, issued_at |-> 1, expires_at |-> expires]

Novation(id, from, to, amount) ==
    [novation_id |-> id, counterparty |-> "me", from_issuer |-> from, to_issuer |-> to,
     amount |-> amount, expires_at |-> 2]

Backing(id, issuer, class, amount) ==
    [deposit_id |-> id, issuer |-> issuer, amount |-> amount, value_class |-> class]

Backed(id, from, backing, class, amount) ==
    [settlement_id |-> id, counterparty |-> "me", from_issuer |-> from,
     backing_issuer |-> backing, amount |-> amount, value_class |-> class, expires_at |-> 2]

Consumption(id, issuer, amount) ==
    [consumption_id |-> id, issuer |-> issuer, counterparty |-> "me", resource |-> "r",
     amount |-> amount]

Request(id, issuer, amount, fee) ==
    [settlement_id |-> id, issuer |-> issuer, counterparty |-> "me",
     payout_destination |-> "r", amount |-> amount, max_fee |-> fee, expires_at |-> 2]

\* Peer credit and its conversions.
PeerClaims ==
    {Claim("1", "a", "PeerCredit", 2, 2), Claim("1", "a", "PeerCredit", 1, 2),
     Claim("2", "b", "PeerCredit", 1, 2), Claim("3", "a", "PeerCredit", 1, 1),
     Claim("blank", "a", "PeerCredit", 1, 2),
     Claim("2", "x", "PeerCredit", 1, 2),
     [Claim("2", "b", "PeerCredit", 1, 2) EXCEPT !.useful = FALSE]}
PeerNovations ==
    {Novation("1", "a", "b", 1), Novation("1", "a", "b", 0),
     Novation("2", "b", "a", 1), Novation("2", "a", "a", 1)}
PeerDeposits ==
    {Backing("1", "b", "ClosedLoopDeposit", 1),
     Backing("1", "a", "ReserveBackedWithdrawable", 1),
     Backing("2", "a", "PeerCredit", 1)}
PeerBacked ==
    {Backed("1", "a", "b", "ClosedLoopDeposit", 1),
     Backed("2", "b", "a", "ReserveBackedWithdrawable", 1),
     Backed("2", "b", "a", "PeerCredit", 1)}
PeerConsumptions == {Consumption("1", "b", 1)}

\* Reserve-backed value and its external settlement.
ReserveClaims ==
    {Claim("1", "a", "ReserveBackedWithdrawable", 3, 2),
     Claim("2", "a", "ReserveBackedWithdrawable", 2, 2),
     Claim("3", "b", "ReserveBackedWithdrawable", 2, 2),
     Claim("3", "b", "ClosedLoopDeposit", 1, 2)}
ReserveDeposits ==
    {Backing("1", "a", "ReserveBackedWithdrawable", 4),
     Backing("2", "a", "ReserveBackedWithdrawable", 2),
     Backing("1", "b", "ReserveBackedWithdrawable", 2),
     Backing("2", "b", "ClosedLoopDeposit", 1)}
ReserveRequests ==
    {Request("1", "a", 2, 1), Request("1", "a", 1, 0), Request("2", "a", 1, 1),
     Request("3", "b", 1, 1), Request("3", "b", 2, 1),
     [Request("2", "a", 1, 1) EXCEPT !.payout_destination = "blank"]}
ReserveConsumptions == {Consumption("1", "b", 1)}

\* Two novations move the same credit forth and back, with amounts near the
\* largest u64.
LargeClaims == {Claim("1", "a", "PeerCredit", 3, 2)}
LargeNovations == {Novation("1", "a", "b", 2), Novation("2", "b", "a", 2)}
LargePolicy ==
    [i \in {"a", "b"} |->
        [max_peer_credit |-> U64Max, max_offline_peer_credit |-> 1, max_closed_loop |-> 1,
         max_withdrawable |-> 1, expires_at |-> None]]
Nothing == {}
=============================================================================
