--------------------------- MODULE StreamingRoute ---------------------------
(***************************************************************************)
(* A metered route paid through one Cashu Spilman channel (spilman.rs):    *)
(* the price policy and the routing decision of the seller, the payments   *)
(* of the buyer and their validation.                                      *)
(*                                                                         *)
(* Signed payments travel by any transport: they are lost, duplicated and  *)
(* reordered, so a payment once sent may arrive at any later time and any  *)
(* number of times.  Signatures and the channel protocol belong to the     *)
(* cdk-spilman library.  A u64 holds 0..MaxWord.                           *)
(***************************************************************************)
EXTENDS Integers, FiniteSets

CONSTANTS
    Terms,          \* [policy, unit, capacity_sat, stated_sat, guarded] of a route;
                    \* stated_sat is the capacity the application passes on, 0 for none;
                    \* guarded when the seller's application checks the progress
    MsatPerSat,     \* 1000
    MaxWord,        \* u64::MAX
    MaxChunk,       \* units routed between two routing decisions
    MaxDelivered,   \* bound on the units of a route
    MaxPayments     \* bound on the different payments sent

ASSUME RouteAssumption ==
    /\ MsatPerSat \in Nat \ {0} /\ MaxWord \in Nat
    /\ MaxChunk \in Nat \ {0} /\ MaxDelivered \in 0..MaxWord
    /\ MaxPayments \in Nat \ {0}
    /\ \A t \in Terms :
         /\ t.unit \in {"sat", "msat"} /\ t.capacity_sat \in 0..MaxWord
         /\ t.stated_sat \in {0, t.capacity_sat} /\ t.guarded \in BOOLEAN
         /\ \A x \in {t.policy.price_msat, t.policy.per_units,
                      t.policy.free_probe_units, t.policy.grace_units} : x \in 0..MaxWord

VARIABLES
    terms,       \* what buyer and seller agreed on
    previous,    \* buyer: paid_msat of its last payment
    payments,    \* the signed payments sent so far
    delivered,   \* seller: units routed
    paid,        \* seller: credited paid_msat
    best,        \* the highest paid_msat the seller ever credited
    held,        \* seller: the balance its stored payment redeems
    lease,       \* seller: token amount of a prepaid lease, 0 without one
    channel      \* seller: "unknown", "open" or "closed"

buyerVars == <<previous, payments>>
sellerVars == <<delivered, paid, best, held, lease, channel>>
routeVars == <<terms, buyerVars, sellerVars>>

-----------------------------------------------------------------------------
(* Arithmetic and units.                                                    *)

Saturate(x) == IF x > MaxWord THEN MaxWord ELSE x
Less(x, y) == IF x > y THEN x - y ELSE 0
Larger(x, y) == IF x > y THEN x ELSE y
CeilDiv(x, y) == (x + y - 1) \div y

BalanceToMsat(balance) ==
    IF terms.unit = "sat" THEN Saturate(balance * MsatPerSat) ELSE balance
FloorFromMsat(msat) ==
    IF terms.unit = "sat" THEN msat \div MsatPerSat ELSE msat
BalanceFromMsat(msat) ==
    IF terms.unit = "sat" THEN CeilDiv(msat, MsatPerSat) ELSE msat
Capacity ==
    IF terms.unit = "sat" THEN terms.capacity_sat ELSE Saturate(terms.capacity_sat * MsatPerSat)
CapacityMsat == Saturate(terms.stated_sat * MsatPerSat)
FullMsat == Saturate(terms.capacity_sat * MsatPerSat)
Amounts == 0..FullMsat

-----------------------------------------------------------------------------
(* The price policy.                                                        *)

PerUnits == IF terms.policy.per_units = 0 THEN 1 ELSE terms.policy.per_units

\* The price of usage in unbounded arithmetic.
Price(units) ==
    CeilDiv(Less(units, terms.policy.free_probe_units) * terms.policy.price_msat, PerUnits)

\* amount_due_msat: the u128 total is cast to u64.
FloorDue(units) ==
    (Less(units, terms.policy.free_probe_units) * terms.policy.price_msat) \div PerUnits
AmountDue(units) == Price(units) % (MaxWord + 1)

\* routing_decision
GraceLimit == Saturate(terms.policy.free_probe_units + terms.policy.grace_units)
AllowRouting(units, msat) ==
    \/ units <= GraceLimit
    \/ msat >= AmountDue(Less(units, terms.policy.grace_units))

AccessState(units, msat) ==
    IF units <= terms.policy.free_probe_units THEN "FreeProbe"
    ELSE IF msat >= AmountDue(units) THEN "Paid"
    ELSE IF AllowRouting(units, msat) THEN "Grace" ELSE "Suspended"

-----------------------------------------------------------------------------
(* Payments.                                                                *)

Payment(balance, funding) == [balance |-> balance, funding |-> funding]

\* validate_streaming_route_cashu_payment_progress; capacity 0 is no limit.
Progress(msat, before) ==
    /\ msat >= before
    /\ CapacityMsat > 0 => msat <= CapacityMsat

\* validate_streaming_route_cashu_payment_claim: the credit claimed is what the
\* signed balance is worth; the first payment of a channel brings its funding.
AnyClaim(p, claimed) == p.funding \/ channel # "unknown"
Claim(p, claimed) ==
    /\ p.funding \/ channel # "unknown"
    /\ claimed = BalanceToMsat(p.balance)
    /\ CapacityMsat > 0 => claimed <= CapacityMsat

RouteInit ==
    /\ terms \in Terms
    /\ previous = 0 /\ payments = {}
    /\ delivered = 0 /\ paid = 0 /\ best = 0 /\ held = 0 /\ lease = 0
    /\ channel = "unknown"

\* create_streaming_route_cashu_payment of any kind: opening (with funding),
\* balance update, or cooperative close.
CreatePayment(msat, funding) ==
    /\ Progress(msat, previous)
    /\ LET balance == BalanceFromMsat(msat) IN
         /\ balance <= Capacity                       \* checked by the library
         /\ payments' = payments \cup {Payment(balance, funding)}
         /\ Cardinality(payments') <= MaxPayments
         /\ previous' = BalanceToMsat(balance)
    /\ UNCHANGED <<terms, sellerVars>>

\* The buyer's application restarts and no longer knows what it paid.
ForgetPrevious ==
    /\ previous' = 0
    /\ UNCHANGED <<terms, payments, sellerVars>>

\* process_streaming_route_cashu_payment_with_receiver: the claim is checked,
\* the library validates the payment and stores it, or keeps a better one it has.
ProcessPayment(p, claimed, stored) ==
    /\ channel # "closed" /\ lease = 0
    /\ Claim(p, claimed)
    /\ channel' = "open"
    /\ stored \in {p.balance, Larger(held, p.balance)}
    /\ held' = stored
    /\ paid' = claimed
    /\ best' = Larger(best, claimed)
    /\ UNCHANGED <<terms, buyerVars, delivered, lease>>

\* The seller's application: it may reject stale and replayed updates with the
\* progress check before it processes a payment.
ReceivePayment(p, claimed, stored) ==
    /\ terms.guarded => Progress(claimed, paid)
    /\ ProcessPayment(p, claimed, stored)

\* create_streaming_route_cashu_token_lease: a token prepays the route, for a
\* credit of at most its amount.
LeaseCredit(amount, credit) == credit <= BalanceToMsat(amount)

\* The seller's application redeems the token of a lease and credits it; the
\* route is paid by the lease or through a channel.
AcceptLease(amount, credit) ==
    /\ channel = "unknown" /\ lease = 0 /\ amount > 0
    /\ LeaseCredit(amount, credit)
    /\ lease' = amount
    /\ paid' = credit /\ best' = credit
    /\ UNCHANGED <<terms, buyerVars, delivered, held, channel>>

\* The seller routes while is_balance_sufficient says so.
Deliver(units) ==
    /\ channel # "closed" /\ delivered + units <= MaxDelivered
    /\ AllowRouting(delivered, paid)
    /\ delivered' = delivered + units
    /\ UNCHANGED <<terms, buyerVars, paid, best, held, lease, channel>>

\* close_cashu_spilman_channel: the mint pays the balance of the stored payment
\* to the seller and the rest to the buyer; a second close changes nothing.
CloseChannel ==
    /\ channel = "open"
    /\ channel' = "closed"
    /\ UNCHANGED <<terms, buyerVars, delivered, paid, best, held, lease>>

BuyerNext ==
    \/ \E msat \in Amounts, funding \in BOOLEAN : CreatePayment(msat, funding)
    \/ ForgetPrevious

SellerNext ==
    \/ \E p \in payments : \E claimed \in Amounts, stored \in 0..Capacity :
         ReceivePayment(p, claimed, stored)
    \/ \E amount \in {terms.capacity_sat} : \E credit \in Amounts :
         AcceptLease(amount, credit)
    \/ \E units \in 1..MaxChunk : Deliver(units)
    \/ CloseChannel

RouteNext == BuyerNext \/ SellerNext

RouteSpec == RouteInit /\ [][RouteNext]_routeVars

-----------------------------------------------------------------------------
(* Properties.                                                              *)

\* The seller's risk is the grace budget and one chunk: everything routed
\* before that is covered at the full price by the highest credit the seller
\* had, which is its credit now when it rejects stale payments; and the state
\* reported with the decision means what it says, although the amount due is
\* rounded, and truncated to a word where the route would cost more than its
\* channel holds.  It needs a price at which one chunk beyond the grace still
\* fits a word (routing_decision, amount_due_msat;
\* docs/spilman-streaming-routes.md, step 5).
SellerRisk ==
    LET state == AccessState(delivered, paid)
        covers(credit, units) == credit >= Price(Less(delivered, units)) IN
    /\ covers(IF terms.guarded THEN paid ELSE best, terms.policy.grace_units + MaxChunk)
    /\ state \in {"FreeProbe", "Paid", "Grace"} => covers(paid, terms.policy.grace_units)
    /\ state \in {"FreeProbe", "Paid"} => covers(paid, 0)

\* What the seller credits is what it can redeem: the balance of the payment
\* it holds, or the token of the lease, whatever was claimed and in whatever
\* order the payments arrived (claim validation and receiver processing).
CreditBacked ==
    paid <= BalanceToMsat(held) + BalanceToMsat(lease)

\* A suspended buyer can always pay its way back: the amount that allows
\* routing, or the highest that either side has on record, passes the buyer's
\* progress check and the capacity, and the payment made for it, rounded to the
\* unit of the channel, passes the seller's checks and allows routing, whatever
\* payments were lost, replayed or forgotten before.  The channel must be open
\* and hold the amount (create_streaming_route_cashu_payment, claim and progress
\* validation, routing_decision).
RouteResumable ==
    LET due == AmountDue(Less(delivered, terms.policy.grace_units))
        msat == Larger(due, Larger(previous, paid))
        balance == BalanceFromMsat(msat)
        credit == BalanceToMsat(balance) IN
    channel # "closed" /\ lease = 0 /\ due <= FullMsat =>
        /\ Progress(msat, previous) /\ balance <= Capacity
        /\ Claim(Payment(balance, TRUE), credit) /\ Progress(credit, paid)
        /\ AllowRouting(delivered, credit)
=============================================================================
