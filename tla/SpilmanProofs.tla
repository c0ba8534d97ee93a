--------------------------- MODULE SpilmanProofs ---------------------------
(***************************************************************************)
(* A streaming route, for any price policy, capacity and order of          *)
(* payments, and any number of processes, keys and faults of the buyer.    *)
(* The seller credits only what it can redeem, and routes at most the      *)
(* grace budget and one chunk beyond what is paid; the buyer can always    *)
(* pay its way back, never loses sight of its money, and to the seller it  *)
(* is a buyer of StreamingRoute.                                           *)
(***************************************************************************)
EXTENDS SpilmanClient, TLAPS, FiniteSetTheorems

-----------------------------------------------------------------------------
(* Arithmetic.                                                              *)

LEMMA Product == \A a, b \in Nat : a * b \in Nat
OBVIOUS

LEMMA ProductGrows == \A a, b, c \in Nat : a <= b => a * c <= b * c
OBVIOUS

LEMMA ProductSum == \A a, b, c \in Nat : (a + b) * c = a * c + b * c
OBVIOUS

LEMMA Quotient == \A a \in Nat, n \in Nat \ {0} : a \div n \in Nat
OBVIOUS

LEMMA QuotientGrows == \A a, b \in Nat, n \in Nat \ {0} : a <= b => a \div n <= b \div n
OBVIOUS

LEMMA CeilGrows ==
    \A a, b \in Nat, n \in Nat \ {0} : a <= b => CeilDiv(a, n) <= CeilDiv(b, n)
<1> SUFFICES ASSUME NEW a \in Nat, NEW b \in Nat, NEW n \in Nat \ {0}, a <= b
             PROVE  CeilDiv(a, n) <= CeilDiv(b, n)
  OBVIOUS
<1>1. a + n - 1 \in Nat /\ b + n - 1 \in Nat /\ a + n - 1 <= b + n - 1
  OBVIOUS
<1> QED BY <1>1, QuotientGrows DEF CeilDiv

LEMMA SmallQuotient == \A n \in Nat \ {0} : (n - 1) \div n = 0
OBVIOUS

LEMMA SmallRemainder == \A n \in Nat \ {0}, a \in Nat : a < n => a % n = a
OBVIOUS

LEMMA CeilBound ==
    \A m, c \in Nat, k \in Nat \ {0} : CeilDiv(m, k) <= c => m <= c * k
BY DEF CeilDiv

LEMMA CeilExact ==
    \A c \in Nat, k \in Nat \ {0} : CeilDiv(c * k, k) = c
<1> SUFFICES ASSUME NEW c \in Nat, NEW k \in Nat \ {0} PROVE CeilDiv(c * k, k) = c
  OBVIOUS
<1>1. (k - 1 + c * k) \div k = (k - 1) \div k + c
  OBVIOUS
<1>2. c * k + k - 1 = k - 1 + c * k
  BY Product
<1> QED BY <1>1, <1>2, SmallQuotient DEF CeilDiv

LEMMA CeilSum ==
    \A a, b \in Nat, n \in Nat \ {0} : CeilDiv(a + b, n) <= CeilDiv(a, n) + b
<1> SUFFICES ASSUME NEW a \in Nat, NEW b \in Nat, NEW n \in Nat \ {0}
             PROVE  CeilDiv(a + b, n) <= CeilDiv(a, n) + b
  OBVIOUS
<1> DEFINE x == a + n - 1
<1>1. x \in Nat /\ b * n \in Nat /\ b * 1 <= b * n
  BY Product, ProductGrows
<1>2. a + b + n - 1 \in Nat /\ x + b * n \in Nat /\ a + b + n - 1 <= x + b * n
  BY <1>1
<1>3. (a + b + n - 1) \div n <= (x + b * n) \div n
  BY <1>2, QuotientGrows
<1>4. (x + b * n) \div n = x \div n + b
  BY <1>1
<1> QED BY <1>3, <1>4 DEF CeilDiv

-----------------------------------------------------------------------------
(* What the seller's books say.                                             *)

\* All amounts are unsigned; what was paid and credited is within the
\* channel's value.
RouteTypeOK ==
    /\ terms \in Terms
    /\ previous \in Amounts
    /\ \A p \in payments : p.balance \in 0..Capacity
    /\ delivered \in Nat /\ lease \in Nat /\ held \in 0..Capacity
    /\ paid \in Amounts /\ best \in Amounts /\ paid <= best
    /\ channel \in {"unknown", "open", "closed"}

\* The credit is within the worth of the stored payment; without one, of the
\* lease.  It is the highest so far if stale payments are rejected.
Books ==
    /\ channel = "unknown" /\ lease = 0 => best = 0
    /\ channel = "unknown" => held = 0
    /\ channel # "unknown" => lease = 0
    /\ lease = 0 => paid <= BalanceToMsat(held)
    /\ lease # 0 => paid <= BalanceToMsat(lease)
    /\ terms.guarded => best = paid

RouteInv == RouteTypeOK /\ Books

\* The terms of a route are words.
LEMMA TermsType ==
    ASSUME terms \in Terms
    PROVE  /\ terms.unit \in {"sat", "msat"}
           /\ terms.capacity_sat \in Nat /\ terms.capacity_sat <= MaxWord
           /\ terms.stated_sat \in {0, terms.capacity_sat}
           /\ terms.policy.price_msat \in Nat /\ terms.policy.per_units \in Nat
           /\ terms.policy.free_probe_units \in Nat /\ terms.policy.grace_units \in Nat
           /\ terms.capacity_sat * MsatPerSat \in Nat
           /\ Capacity \in Nat /\ CapacityMsat \in Nat
           /\ FullMsat \in Nat /\ FullMsat = Saturate(terms.capacity_sat * MsatPerSat)
           /\ MaxWord \in Nat /\ MsatPerSat \in Nat \ {0} /\ MaxChunk \in Nat
<1>1. /\ terms.unit \in {"sat", "msat"} /\ terms.capacity_sat \in 0..MaxWord
      /\ terms.stated_sat \in {0, terms.capacity_sat}
      /\ terms.policy.price_msat \in 0..MaxWord /\ terms.policy.per_units \in 0..MaxWord
      /\ terms.policy.free_probe_units \in 0..MaxWord
      /\ terms.policy.grace_units \in 0..MaxWord
      /\ MaxWord \in Nat /\ MsatPerSat \in Nat \ {0} /\ MaxChunk \in Nat
  BY RouteAssumption
<1>2. terms.capacity_sat * MsatPerSat \in Nat /\ terms.stated_sat * MsatPerSat \in Nat
  BY <1>1, Product
<1>3. Saturate(terms.capacity_sat * MsatPerSat) \in Nat /\ CapacityMsat \in Nat
  BY <1>1, <1>2 DEF Saturate, CapacityMsat
<1>4. Capacity \in Nat
  BY <1>1, <1>3 DEF Capacity
<1> QED BY <1>1, <1>2, <1>3, <1>4 DEF FullMsat

\* The worth of a balance is a number, grows with the balance, and stays
\* within the value of the channel.
LEMMA WorthType ==
    ASSUME terms \in Terms, NEW b \in Nat
    PROVE  BalanceToMsat(b) \in Nat
<1>1. b * MsatPerSat \in Nat /\ MaxWord \in Nat
  BY TermsType, Product
<1> QED BY <1>1 DEF BalanceToMsat, Saturate

LEMMA WorthGrows ==
    ASSUME terms \in Terms, NEW b \in Nat, NEW c \in Nat, b <= c
    PROVE  BalanceToMsat(b) <= BalanceToMsat(c)
<1>1. b * MsatPerSat \in Nat /\ c * MsatPerSat \in Nat /\ MaxWord \in Nat
      /\ b * MsatPerSat <= c * MsatPerSat
  BY TermsType, Product, ProductGrows
<1> QED BY <1>1 DEF BalanceToMsat, Saturate

LEMMA WorthBounded ==
    ASSUME terms \in Terms, NEW b \in 0..Capacity
    PROVE  BalanceToMsat(b) \in Amounts
<1>1. Capacity \in Nat /\ b \in Nat /\ b <= Capacity /\ FullMsat \in Nat
      /\ BalanceToMsat(b) \in Nat /\ BalanceToMsat(b) <= BalanceToMsat(Capacity)
  BY TermsType, WorthType, WorthGrows
<1>2. BalanceToMsat(Capacity) = FullMsat
  BY TermsType DEF BalanceToMsat, Capacity, FullMsat
<1> QED BY <1>1, <1>2 DEF Amounts

\* Paying an amount that the channel holds takes a balance that it holds, and
\* is worth the amount.
LEMMA RoundingUp ==
    ASSUME terms \in Terms, NEW msat \in Amounts
    PROVE  /\ BalanceFromMsat(msat) \in 0..Capacity
           /\ msat <= BalanceToMsat(BalanceFromMsat(msat))
<1>1. /\ terms.capacity_sat \in Nat /\ MsatPerSat \in Nat \ {0} /\ MaxWord \in Nat
      /\ Capacity \in Nat /\ terms.capacity_sat * MsatPerSat \in Nat /\ msat \in Nat
      /\ msat <= FullMsat
  BY TermsType DEF Amounts
<1>2. msat <= terms.capacity_sat * MsatPerSat /\ (terms.unit = "sat" => msat <= MaxWord)
  BY <1>1 DEF FullMsat, Saturate
<1>3. CASE terms.unit # "sat"
  BY <1>1, <1>3 DEF BalanceFromMsat, BalanceToMsat, Capacity, FullMsat
<1>4. CASE terms.unit = "sat"
  <2> DEFINE b == CeilDiv(msat, MsatPerSat)
  <2>1. b \in Nat
    BY <1>1, Quotient DEF CeilDiv
  <2>2. b <= CeilDiv(terms.capacity_sat * MsatPerSat, MsatPerSat)
    BY <1>1, <1>2, CeilGrows
  <2>3. CeilDiv(terms.capacity_sat * MsatPerSat, MsatPerSat) = terms.capacity_sat
    BY <1>1, CeilExact
  <2>4. msat <= b * MsatPerSat /\ b * MsatPerSat \in Nat
    BY <1>1, <2>1, CeilBound, Product
  <2>5. BalanceFromMsat(msat) = b /\ Capacity = terms.capacity_sat
        /\ BalanceToMsat(b) = Saturate(b * MsatPerSat)
    BY <1>4 DEF BalanceFromMsat, Capacity, BalanceToMsat
  <2> HIDE DEF b
  <2>6. msat <= Saturate(b * MsatPerSat)
    BY <1>1, <1>2, <1>4, <2>4 DEF Saturate
  <2> QED BY <1>1, <2>1, <2>2, <2>3, <2>5, <2>6
<1> QED BY <1>3, <1>4

LEMMA InitRoute == RouteInit => RouteInv
<1> SUFFICES ASSUME RouteInit PROVE RouteInv
  OBVIOUS
<1>1. terms \in Terms /\ previous = 0 /\ payments = {} /\ delivered = 0 /\ paid = 0
      /\ best = 0 /\ held = 0 /\ lease = 0 /\ channel = "unknown"
  BY DEF RouteInit
<1>2. Capacity \in Nat /\ FullMsat \in Nat /\ BalanceToMsat(0) \in Nat
  BY <1>1, TermsType, WorthType
<1> QED BY <1>1, <1>2 DEF RouteInv, RouteTypeOK, Books, Amounts

\* The terms, and with them what a balance is worth, do not change.
LEMMA SameTerms ==
    ASSUME terms' = terms
    PROVE  /\ Capacity' = Capacity /\ FullMsat' = FullMsat /\ Amounts' = Amounts
           /\ \A x : BalanceToMsat(x)' = BalanceToMsat(x)
BY DEF Capacity, FullMsat, Amounts, BalanceToMsat

\* A new payment is within the capacity, and the seller does not know it yet.
LEMMA CreateStep ==
    ASSUME RouteInv, NEW msat \in Amounts, NEW funding \in BOOLEAN, CreatePayment(msat, funding)
    PROVE  RouteInv' /\ best' >= best
<1>1. PICK b : b = BalanceFromMsat(msat)
  OBVIOUS
<1>2. UNCHANGED <<terms, delivered, paid, best, held, lease, channel>>
      /\ payments' = payments \cup {Payment(b, funding)} /\ previous' = BalanceToMsat(b)
  BY <1>1 DEF CreatePayment, sellerVars
<1>3. terms \in Terms /\ best \in Nat
  BY TermsType DEF RouteInv, RouteTypeOK, Amounts
<1>4. b \in 0..Capacity /\ BalanceToMsat(b) \in Amounts
  BY <1>1, <1>3, RoundingUp, WorthBounded
<1>5. \A p \in payments' : p.balance \in 0..Capacity
  BY <1>2, <1>4 DEF RouteInv, RouteTypeOK, Payment
<1>6. RouteTypeOK'
  BY <1>2, <1>4, <1>5, SameTerms DEF RouteInv, RouteTypeOK
<1>7. Books'
  BY <1>2, SameTerms DEF RouteInv, Books, BalanceToMsat
<1> QED BY <1>2, <1>3, <1>6, <1>7 DEF RouteInv

\* A payment the seller takes is worth exactly the new credit, and the payment
\* it then holds is not worth less.
LEMMA ProcessStep ==
    ASSUME RouteInv, NEW p \in payments, NEW claimed \in Amounts, NEW stored \in 0..Capacity,
           ReceivePayment(p, claimed, stored)
    PROVE  RouteInv' /\ best' >= best
<1>1. UNCHANGED <<terms, previous, payments, delivered, lease>> /\ lease = 0
      /\ channel' = "open" /\ held' = stored /\ paid' = claimed
      /\ best' = Larger(best, claimed) /\ stored \in {p.balance, Larger(held, p.balance)}
      /\ claimed = BalanceToMsat(p.balance) /\ (terms.guarded => claimed >= paid)
  BY DEF ReceivePayment, ProcessPayment, Claim, Progress, buyerVars
<1>2. p.balance \in 0..Capacity /\ terms \in Terms /\ held \in 0..Capacity
      /\ paid \in Amounts /\ best \in Amounts /\ (terms.guarded => best = paid)
  BY DEF RouteInv, RouteTypeOK, Books
<1>3. Capacity \in Nat /\ FullMsat \in Nat
  BY <1>2, TermsType
<1>4. stored >= p.balance
  BY <1>1, <1>2, <1>3 DEF Larger
<1>5. claimed <= BalanceToMsat(stored)
  BY <1>1, <1>2, <1>3, <1>4, WorthGrows
<1>6. best' \in Amounts /\ best' >= best /\ claimed <= best'
      /\ (terms.guarded => best' = claimed)
  BY <1>1, <1>2, <1>3 DEF Amounts, Larger
<1>7. RouteTypeOK'
  BY <1>1, <1>6, SameTerms DEF RouteInv, RouteTypeOK
<1>8. BalanceToMsat(held)' = BalanceToMsat(stored)
  BY <1>1 DEF BalanceToMsat
<1>9. Books'
  BY <1>1, <1>5, <1>6, <1>8 DEF Books
<1> QED BY <1>6, <1>7, <1>9 DEF RouteInv

\* A lease is accepted before any credit.
LEMMA LeaseStep ==
    ASSUME RouteInv, NEW credit \in Amounts, AcceptLease(terms.capacity_sat, credit)
    PROVE  RouteInv' /\ best' >= best
<1>1. UNCHANGED <<terms, previous, payments, delivered, held, channel>>
      /\ lease' = terms.capacity_sat /\ lease' > 0 /\ paid' = credit /\ best' = credit
      /\ credit <= BalanceToMsat(terms.capacity_sat) /\ channel = "unknown" /\ lease = 0
  BY DEF AcceptLease, LeaseCredit, buyerVars
<1>2. terms \in Terms
  BY DEF RouteInv, RouteTypeOK
<1>3. terms.capacity_sat \in Nat /\ credit \in Nat
  BY <1>2, TermsType DEF Amounts
<1>4. best = 0
  BY <1>1 DEF RouteInv, Books
<1> QED BY <1>1, <1>3, <1>4
        DEF RouteInv, RouteTypeOK, Books, Capacity, FullMsat, Amounts, BalanceToMsat

\* The other steps change neither credit nor backing.
LEMMA QuietStep ==
    ASSUME RouteInv, UNCHANGED <<terms, payments, paid, best, held, lease>>,
           previous' \in Amounts, delivered' \in Nat,
           channel' = channel \/ (channel = "open" /\ channel' = "closed")
    PROVE  RouteInv' /\ best' >= best
<1>1. best \in Nat
  BY TermsType DEF RouteInv, RouteTypeOK, Amounts
<1> QED BY <1>1
        DEF RouteInv, RouteTypeOK, Books, Capacity, FullMsat, Amounts, BalanceToMsat

\* The invariant is inductive and the highest credit never falls.
LEMMA RouteInduction == RouteInv /\ [RouteNext]_routeVars => RouteInv' /\ best' >= best
<1> SUFFICES ASSUME RouteInv, [RouteNext]_routeVars PROVE RouteInv' /\ best' >= best
  OBVIOUS
<1>0. previous \in Amounts /\ 0 \in Amounts /\ delivered \in Nat
  BY TermsType DEF RouteInv, RouteTypeOK, Amounts
<1>1. CASE \E msat \in Amounts, funding \in BOOLEAN : CreatePayment(msat, funding)
  BY <1>1, CreateStep
<1>2. CASE ForgetPrevious
  BY <1>0, <1>2, QuietStep DEF ForgetPrevious, sellerVars
<1>3. CASE \E p \in payments : \E claimed \in Amounts, stored \in 0..Capacity :
             ReceivePayment(p, claimed, stored)
  BY <1>3, ProcessStep
<1>4. CASE \E amount \in {terms.capacity_sat} : \E credit \in Amounts :
             AcceptLease(amount, credit)
  BY <1>4, LeaseStep
<1>5. CASE \E units \in 1..MaxChunk : Deliver(units)
  <2>1. PICK units \in 1..MaxChunk : Deliver(units)
    BY <1>5
  <2>2. delivered' = delivered + units /\ units \in Nat
    BY <2>1, RouteAssumption DEF Deliver
  <2> QED BY <1>0, <2>1, <2>2, QuietStep DEF Deliver, buyerVars
<1>6. CASE CloseChannel
  BY <1>0, <1>6, QuietStep DEF CloseChannel, buyerVars
<1>7. CASE UNCHANGED routeVars
  BY <1>0, <1>7, QuietStep DEF routeVars, buyerVars, sellerVars
<1> QED BY <1>1, <1>2, <1>3, <1>4, <1>5, <1>6, <1>7 DEF RouteNext, BuyerNext, SellerNext

LEMMA RouteInvariant == RouteSpec => []RouteInv
BY InitRoute, RouteInduction, PTL DEF RouteSpec

-----------------------------------------------------------------------------
(* What seller and buyer rely on.                                           *)

\* Every credit can be redeemed: it is within the worth of the payment the
\* seller holds, or of the token of its lease, in whatever order payments arrive
\* and whether or not stale ones are rejected.
THEOREM CreditIsBacked == RouteSpec => []CreditBacked
<1>1. ASSUME RouteInv PROVE CreditBacked
  <2>1. /\ terms \in Terms /\ held \in Nat /\ lease \in Nat /\ paid \in Nat
    BY <1>1, TermsType DEF RouteInv, RouteTypeOK, Amounts
  <2>2. BalanceToMsat(held) \in Nat /\ BalanceToMsat(lease) \in Nat
    BY <2>1, WorthType
  <2>3. lease = 0 => paid <= BalanceToMsat(held)
    BY <1>1 DEF RouteInv, Books
  <2>4. lease # 0 => paid <= BalanceToMsat(lease)
    BY <1>1 DEF RouteInv, Books
  <2> QED BY <2>1, <2>2, <2>3, <2>4 DEF CreditBacked
<1> QED BY <1>1, RouteInvariant, PTL

-----------------------------------------------------------------------------
(* The seller's risk.                                                       *)

\* The price of usage grows with usage and is nothing within the free probe.
LEMMA PriceFacts ==
    ASSUME terms \in Terms
    PROVE  /\ \A u \in Nat : Price(u) \in Nat
           /\ \A u, v \in Nat : u <= v => Price(u) <= Price(v)
           /\ \A u \in Nat : u <= terms.policy.free_probe_units => Price(u) = 0
<1> DEFINE price == terms.policy.price_msat
           free == terms.policy.free_probe_units
<1>1. price \in Nat /\ free \in Nat /\ PerUnits \in Nat \ {0}
  BY TermsType DEF PerUnits
<1>2. ASSUME NEW u \in Nat
      PROVE  Less(u, free) \in Nat /\ Less(u, free) * price \in Nat /\ Price(u) \in Nat
  <2>1. Less(u, free) \in Nat
    BY <1>1 DEF Less
  <2>2. Less(u, free) * price \in Nat
    BY <1>1, <2>1, Product
  <2>3. Less(u, free) * price + PerUnits - 1 \in Nat
    BY <1>1, <2>2
  <2> QED BY <1>1, <2>1, <2>2, <2>3, Quotient DEF Price, CeilDiv
<1>3. ASSUME NEW u \in Nat, NEW v \in Nat, u <= v PROVE Price(u) <= Price(v)
  <2>1. Less(u, free) <= Less(v, free) /\ Less(u, free) \in Nat /\ Less(v, free) \in Nat
    BY <1>1, <1>3 DEF Less
  <2>2. Less(u, free) * price <= Less(v, free) * price
    BY <1>1, <2>1, ProductGrows
  <2>3. Less(u, free) * price + PerUnits - 1 \in Nat
        /\ Less(v, free) * price + PerUnits - 1 \in Nat
        /\ Less(u, free) * price + PerUnits - 1 <= Less(v, free) * price + PerUnits - 1
    BY <1>1, <1>2, <2>2
  <2> QED BY <1>1, <2>3, QuotientGrows DEF Price, CeilDiv
<1>4. ASSUME NEW u \in Nat, u <= free PROVE Price(u) = 0
  <2>1. Less(u, free) * price = 0
    BY <1>1, <1>4 DEF Less
  <2>2. Price(u) = (PerUnits - 1) \div PerUnits
    BY <1>1, <2>1 DEF Price, CeilDiv
  <2> QED BY <1>1, <2>2, SmallQuotient
<1> QED BY <1>2, <1>3, <1>4

\* A suspended buyer can always pay its way back while the channel is open and
\* holds the amount due: rounding, the checks of both sides and what they have
\* on record never exclude each other.
THEOREM AlwaysResumable == RouteSpec => []RouteResumable
<1>1. ASSUME RouteInv PROVE RouteResumable
  <2>1. PICK due : due = AmountDue(Less(delivered, terms.policy.grace_units))
    OBVIOUS
  <2>2. PICK msat : msat = Larger(due, Larger(previous, paid))
    OBVIOUS
  <2>3. PICK b : b = BalanceFromMsat(msat)
    OBVIOUS
  <2>4. PICK credit : credit = BalanceToMsat(b)
    OBVIOUS
  <2>5. terms \in Terms /\ previous \in Amounts /\ paid \in Amounts /\ delivered \in Nat
        /\ FullMsat \in Nat /\ Capacity \in Nat /\ terms.policy.grace_units \in Nat
        /\ MaxWord \in Nat
    BY <1>1, TermsType DEF RouteInv, RouteTypeOK
  <2>6. due \in Nat
    <3>1. Less(delivered, terms.policy.grace_units) \in Nat
      BY <2>5 DEF Less
    <3>2. Price(Less(delivered, terms.policy.grace_units)) \in Nat
      BY <2>5, <3>1, PriceFacts
    <3> QED BY <2>1, <2>5, <3>2 DEF AmountDue
  <2>7. ASSUME due <= FullMsat
        PROVE  /\ Progress(msat, previous) /\ b <= Capacity
               /\ Claim(Payment(b, TRUE), credit) /\ Progress(credit, paid)
               /\ AllowRouting(delivered, credit)
    <3>1. msat \in Amounts /\ msat >= due /\ msat >= previous /\ msat >= paid
      BY <2>2, <2>5, <2>6, <2>7 DEF Amounts, Larger
    <3>2. b \in 0..Capacity /\ msat <= credit
      BY <2>3, <2>4, <2>5, <3>1, RoundingUp
    <3>3. credit \in Amounts
      BY <2>4, <2>5, <3>2, WorthBounded
    <3>4. msat \in Nat /\ credit \in Nat /\ previous \in Nat /\ paid \in Nat
          /\ msat <= FullMsat /\ credit <= FullMsat
      BY <2>5, <3>1, <3>3 DEF Amounts
    <3>5. CapacityMsat > 0 => CapacityMsat = FullMsat
      BY <2>5, TermsType DEF CapacityMsat, FullMsat, Saturate
    <3>6. Progress(msat, previous) /\ Progress(credit, paid)
      BY <3>1, <3>2, <3>4, <3>5 DEF Progress
    <3>7. Claim(Payment(b, TRUE), credit)
      BY <2>4, <3>4, <3>5 DEF Claim, Payment
    <3>8. AllowRouting(delivered, credit)
      BY <2>1, <2>6, <3>1, <3>2, <3>4 DEF AllowRouting
    <3>9. b <= Capacity
      BY <2>5, <3>2
    <3> QED BY <3>6, <3>7, <3>8, <3>9
  <2> QED BY <2>1, <2>2, <2>3, <2>4, <2>7 DEF RouteResumable
<1> QED BY <1>1, RouteInvariant, PTL

\* What a chunk and the grace cost beyond the value of the channel fits a word.
RiskFits ==
    \A units \in Nat :
        Price(units) <= FullMsat =>
            Price(units + terms.policy.grace_units + MaxChunk) <= MaxWord

\* It does where prices are ordinary: one chunk and the grace, at the full
\* price of a unit, fit into a word together with the value of the channel.
LEMMA OrdinaryPrices ==
    ASSUME terms \in Terms,
           FullMsat + (terms.policy.grace_units + MaxChunk) * terms.policy.price_msat <= MaxWord
    PROVE  RiskFits
<1> DEFINE price == terms.policy.price_msat
           free == terms.policy.free_probe_units
           k == terms.policy.grace_units + MaxChunk
           cap == FullMsat
<1>1. price \in Nat /\ free \in Nat /\ k \in Nat /\ PerUnits \in Nat \ {0} /\ cap \in Nat
      /\ MaxWord \in Nat /\ k * price \in Nat /\ cap + k * price <= MaxWord
      /\ terms.policy.grace_units \in Nat /\ MaxChunk \in Nat
  BY TermsType, Product DEF PerUnits
<1> SUFFICES ASSUME NEW u \in Nat, Price(u) <= cap
             PROVE  Price(u + terms.policy.grace_units + MaxChunk) <= MaxWord
  BY DEF RiskFits
<1>2. u + terms.policy.grace_units + MaxChunk = u + k
  BY <1>1
<1>3. Less(u, free) \in Nat /\ Less(u + k, free) \in Nat
      /\ Less(u + k, free) <= Less(u, free) + k
  BY <1>1 DEF Less
<1>4. Less(u + k, free) * price <= Less(u, free) * price + k * price
      /\ Less(u + k, free) * price \in Nat /\ Less(u, free) * price \in Nat
  <2> HIDE DEF k, price, free
  <2>0. Less(u, free) + k \in Nat
    BY <1>1, <1>3
  <2>1. Less(u + k, free) * price <= (Less(u, free) + k) * price
    BY <1>1, <1>3, <2>0, ProductGrows
  <2>2. (Less(u, free) + k) * price = Less(u, free) * price + k * price
    BY <1>1, <1>3, ProductSum
  <2>3. Less(u + k, free) * price \in Nat /\ Less(u, free) * price \in Nat
    BY <1>1, <1>3, Product
  <2> QED BY <2>1, <2>2, <2>3
<1>5. CeilDiv(Less(u + k, free) * price, PerUnits)
        <= CeilDiv(Less(u, free) * price + k * price, PerUnits)
  <2>1. Less(u, free) * price + k * price \in Nat
    BY <1>1, <1>4
  <2> QED BY <1>1, <1>4, <2>1, CeilGrows
<1>6. CeilDiv(Less(u, free) * price + k * price, PerUnits)
        <= CeilDiv(Less(u, free) * price, PerUnits) + k * price
  BY <1>1, <1>4, CeilSum
<1>7. Price(u) \in Nat /\ Price(u + k) \in Nat
  BY <1>1, PriceFacts
<1>8. CeilDiv(Less(u, free) * price + k * price, PerUnits) \in Nat
  <2> HIDE DEF k, price, free
  <2>1. Less(u, free) * price + k * price + PerUnits - 1 \in Nat
    BY <1>1, <1>4
  <2> QED BY <1>1, <2>1, Quotient DEF CeilDiv
<1>9. Price(u + k) <= Price(u) + k * price
  BY <1>1, <1>5, <1>6, <1>7, <1>8 DEF Price
<1> HIDE DEF k, price, cap
<1> QED BY <1>1, <1>2, <1>7, <1>9

\* Everything but the grace and one chunk was paid.
ChunkCovered == best >= Price(Less(delivered, terms.policy.grace_units + MaxChunk))

\* While that holds, the amount due is not truncated.
LEMMA DueIsPrice ==
    ASSUME RouteInv, RiskFits, ChunkCovered, NEW u \in Nat, u <= delivered
    PROVE  AmountDue(u) = Price(u)
<1> DEFINE g == terms.policy.grace_units
           base == Less(delivered, g + MaxChunk)
<1>1. /\ terms \in Terms /\ delivered \in Nat /\ g \in Nat /\ MaxChunk \in Nat
      /\ MaxWord \in Nat /\ FullMsat \in Nat
      /\ best \in Nat /\ best <= FullMsat
  BY TermsType DEF RouteInv, RouteTypeOK, Amounts
<1>2. base \in Nat /\ u <= base + g + MaxChunk /\ base + g + MaxChunk \in Nat
  BY <1>1 DEF Less
<1>3. Price(base) \in Nat /\ Price(u) \in Nat /\ Price(base + g + MaxChunk) \in Nat
      /\ Price(u) <= Price(base + g + MaxChunk)
  BY <1>1, <1>2, PriceFacts
<1>4. Price(base) <= FullMsat
  BY <1>1, <1>3 DEF ChunkCovered
<1>5. Price(base + g + MaxChunk) <= MaxWord
  BY <1>2, <1>4 DEF RiskFits
<1>6. Price(u) < MaxWord + 1
  BY <1>1, <1>3, <1>5
<1> QED BY <1>1, <1>3, <1>6, SmallRemainder DEF AmountDue

\* A positive routing decision means that all but the grace is paid.
LEMMA AllowedIsCovered ==
    ASSUME RouteInv, RiskFits, ChunkCovered, AllowRouting(delivered, paid)
    PROVE  paid >= Price(Less(delivered, terms.policy.grace_units))
<1> DEFINE g == terms.policy.grace_units
           free == terms.policy.free_probe_units
           u == Less(delivered, g)
<1>1. terms \in Terms /\ delivered \in Nat /\ g \in Nat /\ free \in Nat /\ paid \in Nat
      /\ MaxWord \in Nat
  BY TermsType DEF RouteInv, RouteTypeOK, Amounts
<1>2. u \in Nat /\ u <= delivered
  BY <1>1 DEF Less
<1>3. CASE delivered <= GraceLimit
  <2>1. delivered <= free + g
    BY <1>1, <1>3 DEF GraceLimit, Saturate
  <2>2. u <= free
    BY <1>1, <2>1 DEF Less
  <2> QED BY <1>1, <1>2, <2>2, PriceFacts
<1>4. CASE paid >= AmountDue(u)
  BY <1>2, <1>4, DueIsPrice
<1> QED BY <1>3, <1>4 DEF AllowRouting

\* Delivering a chunk when routing is allowed keeps the risk; nothing else
\* raises what is delivered, and the credit never falls.
LEMMA RiskStep ==
    ASSUME RouteInv, RiskFits, ChunkCovered, [RouteNext]_routeVars
    PROVE  RiskFits' /\ ChunkCovered'
<1> DEFINE g == terms.policy.grace_units
<1>1. terms' = terms
  BY DEF RouteNext, BuyerNext, SellerNext, CreatePayment, ForgetPrevious, ReceivePayment,
     ProcessPayment, AcceptLease, Deliver, CloseChannel, routeVars
<1>2. RiskFits' /\ \A u : Price(u)' = Price(u)
  BY <1>1 DEF RiskFits, Price, PerUnits, FullMsat
<1>3. terms \in Terms /\ delivered \in Nat /\ g \in Nat /\ MaxChunk \in Nat
      /\ paid \in Nat /\ best \in Nat /\ paid <= best
  BY TermsType DEF RouteInv, RouteTypeOK, Amounts
<1>4. RouteInv' /\ best' >= best
  BY RouteInduction
<1>5. best' \in Nat
  BY <1>4, TermsType DEF RouteInv, RouteTypeOK, Amounts
<1>6. CASE \E units \in 1..MaxChunk : Deliver(units)
  <2>1. PICK units \in 1..MaxChunk : Deliver(units)
    BY <1>6
  <2>2. delivered' = delivered + units /\ best' = best /\ AllowRouting(delivered, paid)
    BY <2>1 DEF Deliver
  <2>3. paid >= Price(Less(delivered, g))
    BY <2>2, AllowedIsCovered
  <2>4. Less(delivered + units, g + MaxChunk) <= Less(delivered, g)
        /\ Less(delivered + units, g + MaxChunk) \in Nat /\ Less(delivered, g) \in Nat
    BY <1>3 DEF Less
  <2>5. best >= Price(Less(delivered + units, g + MaxChunk))
    BY <1>3, <2>3, <2>4, PriceFacts
  <2> QED BY <1>1, <1>2, <2>2, <2>5 DEF ChunkCovered, Price, PerUnits
<1>7. CASE ~\E units \in 1..MaxChunk : Deliver(units)
  <2>1. delivered' = delivered
    BY <1>7 DEF RouteNext, BuyerNext, SellerNext, CreatePayment, ForgetPrevious,
       ReceivePayment, ProcessPayment, AcceptLease, CloseChannel, routeVars, sellerVars
  <2>2. Less(delivered, g + MaxChunk) \in Nat
    BY <1>3 DEF Less
  <2>3. Price(Less(delivered, g + MaxChunk)) \in Nat
    BY <1>3, <2>2, PriceFacts
  <2>4. best' >= Price(Less(delivered, g + MaxChunk))
    BY <1>3, <1>4, <1>5, <2>3 DEF ChunkCovered
  <2> QED BY <1>1, <1>2, <2>1, <2>4 DEF ChunkCovered, Price, PerUnits
<1> QED BY <1>2, <1>6, <1>7

\* The seller's risk is the grace budget and one chunk, with and without the
\* progress check, and the state it reports means what it says, on every route
\* where a chunk and the grace cost less than a word beyond the value of the
\* channel.
THEOREM RiskIsBounded == RouteSpec /\ RiskFits => []SellerRisk
<1>1. ASSUME RouteInit PROVE ChunkCovered
  <2>1. terms \in Terms /\ delivered = 0 /\ best = 0
    BY <1>1 DEF RouteInit
  <2>2. Less(0, terms.policy.grace_units + MaxChunk) = 0
    BY <2>1, TermsType DEF Less
  <2>3. Price(0) = 0
    BY <2>1, TermsType, PriceFacts
  <2> QED BY <2>1, <2>2, <2>3 DEF ChunkCovered
<1>2. RouteInv /\ RiskFits /\ ChunkCovered /\ [RouteNext]_routeVars =>
        RiskFits' /\ ChunkCovered'
  BY RiskStep
<1>3. ASSUME RouteInv, RiskFits, ChunkCovered PROVE SellerRisk
  <2> DEFINE g == terms.policy.grace_units
             free == terms.policy.free_probe_units
             state == AccessState(delivered, paid)
  <2>1. terms \in Terms /\ delivered \in Nat /\ g \in Nat /\ free \in Nat /\ paid \in Nat
        /\ MaxWord \in Nat /\ (IF terms.guarded THEN paid ELSE best) = best
    BY <1>3, TermsType DEF RouteInv, RouteTypeOK, Books, Amounts
  <2>2. Less(delivered, 0) = delivered /\ Less(delivered, g) \in Nat
        /\ Less(delivered, g) <= delivered
    BY <2>1 DEF Less
  <2>3. Price(delivered) \in Nat /\ Price(Less(delivered, g)) \in Nat
        /\ Price(Less(delivered, g)) <= Price(delivered)
    BY <2>1, <2>2, PriceFacts
  <2>4. state \in {"FreeProbe", "Paid"} => paid >= Price(delivered)
    <3>1. delivered <= free => Price(delivered) = 0
      BY <2>1, PriceFacts
    <3>2. AmountDue(delivered) = Price(delivered)
      BY <1>3, <2>1, DueIsPrice
    <3> QED BY <2>1, <3>1, <3>2 DEF AccessState
  <2>5. state = "Grace" => paid >= Price(Less(delivered, g))
    <3>1. state = "Grace" => AllowRouting(delivered, paid)
      BY DEF AccessState
    <3> QED BY <1>3, <3>1, AllowedIsCovered
  <2>6. state \in {"FreeProbe", "Paid", "Grace"} => paid >= Price(Less(delivered, g))
    BY <2>1, <2>3, <2>4, <2>5
  <2> HIDE DEF state
  <2> QED BY <1>3, <2>1, <2>2, <2>4, <2>6 DEF SellerRisk, ChunkCovered, state
<1> QED BY <1>1, <1>2, <1>3, RouteInvariant, PTL DEF RouteSpec

-----------------------------------------------------------------------------
(* The buyer: SpilmanClient.                                               *)

Stores == [funding : SenderKeys \cup {NoKey}, balance : Int, closed : BOOLEAN]
Tokens == {"none", "sent", "swapped", "reclaimed"}

\* Where the call of each kind can be.  A call that is over shows nothing.
Path(g) ==
    CASE g = "show" -> {"idle", "readkey", "createkey"}
      [] g = "sign" -> {"load", "readkey", "createkey", "session"}
      [] g = "open" -> {"send", "load", "readkey", "createkey", "swap", "save", "first"}
      [] g = "refund" -> {"load", "readkey", "createkey", "fetch", "check", "import", "mark"}

Places == {"idle", "send", "load", "readkey", "createkey", "session", "swap", "save",
           "first", "fetch", "check", "import", "mark"}

CallTypeOK ==
    /\ goal \in [Procs -> Goals] /\ pc \in [Procs -> Places]
    /\ mem \in [Procs -> Stores] /\ key \in [Procs -> SenderKeys \cup {NoKey}]
    /\ failing \in [Procs -> BOOLEAN]

ClientTypeOK ==
    /\ CallTypeOK
    /\ terms \in Terms
    /\ file \in Stores /\ keyFile \in SenderKeys \cup {NoKey}
    /\ token \in Tokens /\ listed \in BOOLEAN /\ collected \in BOOLEAN
    /\ openFault \in BOOLEAN

\* One process at a time works on the store.
LockOK ==
    /\ \A p \in Procs : pc[p] \in Path(goal[p])
    /\ \A p, q \in Procs : goal[p] # "show" /\ goal[q] # "show" => p = q

\* A key that was read or created is the key on disk, and so is the key of
\* every copy of the channel.
HasKey == {"session", "swap", "save", "first", "fetch", "check", "import", "mark"}
KeyOf(l, m, k) ==
    /\ l = "createkey" => k # NoKey
    /\ l \in HasKey => k = keyFile /\ keyFile # NoKey
    /\ m.funding # NoKey => m.funding = keyFile
KeyOK ==
    /\ \A p \in Procs : KeyOf(pc[p], mem[p], key[p])
    /\ RefundPossible

\* The copy of a refund is the file: nobody else writes.
CopyOf(l, g, m) == g = "refund" /\ l # "load" => m = file
CopyOK == \A p \in Procs : CopyOf(pc[p], goal[p], mem[p])

\* A share is recovered before the channel is marked closed.
CloseOf(l, m) ==
    /\ l = "import" => channel = "closed"
    /\ l = "mark" => Recovered
    /\ m.closed => Recovered
CloseOK ==
    /\ \A p \in Procs : CloseOf(pc[p], mem[p])
    /\ ClosedMeansCollected

\* Where the money of an opening is at each step of its call.
OpenOf(l, g, m, f) ==
    /\ l = "send" => token = "none"
    /\ g = "open" /\ l \in {"load", "readkey", "createkey", "swap"} =>
          token = "reclaimed" \/ (token = "sent" /\ listed)
    /\ l \in {"save", "first"} => token = "swapped"
    /\ l = "first" => m.funding # NoKey /\ (f \/ file.funding # NoKey)
    /\ m.funding # NoKey => token = "swapped"
    /\ g = "open" => payments = {}
OpenOK ==
    /\ \A p \in Procs : OpenOf(pc[p], goal[p], mem[p], failing[p])
    /\ file.funding # NoKey => token = "swapped"
    /\ payments = {} => previous = 0

ClientInv ==
    /\ ClientTypeOK /\ LockOK /\ KeyOK /\ CopyOK /\ CloseOK /\ OpenOK
    /\ HandedOutIsOnFile /\ FundsTraceable

-----------------------------------------------------------------------------
(* The calls of the processes.                                              *)

\* The call of p goes on as given and the other calls stand still.
Moves(p, l, g, m, k, f) ==
    \A q \in Procs :
        /\ pc'[q] = (IF q = p THEN l ELSE pc[q])
        /\ goal'[q] = (IF q = p THEN g ELSE goal[q])
        /\ mem'[q] = (IF q = p THEN m ELSE mem[q])
        /\ key'[q] = (IF q = p THEN k ELSE key[q])
        /\ failing'[q] = (IF q = p THEN f ELSE failing[q])

LEMMA StoreType ==
    ASSUME NEW k \in SenderKeys \cup {NoKey}, NEW b \in Int, NEW c \in BOOLEAN
    PROVE  /\ Store(k, b, c) \in Stores
           /\ Store(k, b, c).funding = k /\ Store(k, b, c).balance = b
           /\ Store(k, b, c).closed = c
<1>1. Store(k, b, c) \in Stores
  BY DEF Store, Stores
<1>2. Store(k, b, c).funding = k /\ Store(k, b, c).balance = b
  BY DEF Store
<1>3. Store(k, b, c).closed = c
  BY Zenon DEF Store
<1> QED BY <1>1, <1>2, <1>3

LEMMA EmptyStoreType ==
    EmptyStore \in Stores /\ EmptyStore.funding = NoKey /\ EmptyStore.closed = FALSE
BY DEF EmptyStore, Store, Stores

LEMMA LeaveMoves ==
    ASSUME CallTypeOK, NEW p \in Procs, Leave(p)
    PROVE  CallTypeOK' /\ Moves(p, "idle", "show", EmptyStore, NoKey, FALSE)
BY EmptyStoreType DEF CallTypeOK, Leave, Goto, Moves, Places, Goals

LEMMA GotoMoves ==
    ASSUME CallTypeOK, NEW p \in Procs, NEW l \in Places, Goto(p, l),
           UNCHANGED <<goal, mem, key, failing>>
    PROVE  CallTypeOK' /\ Moves(p, l, goal[p], mem[p], key[p], failing[p])
BY DEF CallTypeOK, Goto, Moves

\* What was recovered changes with the settlement and the refund alone.
LEMMA SameRecovered ==
    ASSUME UNCHANGED <<terms, channel, held, collected, foreign>>
    PROVE  Recovered' = Recovered
BY DEF Recovered, Share, Capacity

\* A step of one call that leaves the files and the money alone.
LEMMA CallStep ==
    ASSUME ClientInv, NEW p \in Procs, NEW l, NEW g, NEW m, NEW k, NEW f,
           CallTypeOK', Moves(p, l, g, m, k, f),
           UNCHANGED <<routeVars, file, keyFile, fundVars, recent>>,
           openFault' \in BOOLEAN, openFault => openFault',
           l \in Path(g), g # "show" => \A q \in Procs \ {p} : goal[q] = "show",
           KeyOf(l, m, k), CopyOf(l, g, m), CloseOf(l, m), OpenOf(l, g, m, f),
           goal[p] = "open" =>
               openFault' \/ pc[p] \notin {"save", "first"} \/ (g = "open" /\ l # "idle")
    PROVE  ClientInv'
<1>1. UNCHANGED <<terms, previous, payments, channel, held, file, keyFile, token, listed,
                  collected, foreign, recent>>
  BY DEF routeVars, buyerVars, sellerVars, fundVars
<1>2. ClientTypeOK'
  BY <1>1 DEF ClientInv, ClientTypeOK
<1>3. LockOK'
  BY DEF ClientInv, LockOK, Moves
<1>4. KeyOK'
  BY <1>1 DEF ClientInv, KeyOK, KeyOf, Moves, RefundPossible
<1>5. CopyOK' /\ CloseOK'
  BY <1>1, SameRecovered DEF ClientInv, CopyOK, CopyOf, CloseOK, CloseOf, Moves,
     ClosedMeansCollected
<1>6. OpenOK'
  BY <1>1 DEF ClientInv, OpenOK, OpenOf, Moves
<1>7. HandedOutIsOnFile'
  BY <1>1 DEF ClientInv, HandedOutIsOnFile
<1>8. FundsTraceable'
  <2>1. CASE goal[p] = "open" /\ ~(g = "open" /\ l # "idle")
    BY <1>1, <2>1 DEF ClientInv, FundsTraceable, OpenOK, OpenOf, LockOK, Path
  <2>2. CASE goal[p] # "open" \/ (g = "open" /\ l # "idle")
    BY <1>1, <2>2 DEF ClientInv, FundsTraceable, Opening, Moves
  <2> QED BY <2>1, <2>2
<1> QED BY <1>2, <1>3, <1>4, <1>5, <1>6, <1>7, <1>8 DEF ClientInv

\* The end of a call.
LEMMA LeaveStep ==
    ASSUME ClientInv, NEW p \in Procs, Leave(p),
           UNCHANGED <<routeVars, file, keyFile, fundVars, recent>>,
           openFault' \in BOOLEAN, openFault => openFault',
           goal[p] = "open" => openFault' \/ pc[p] \notin {"save", "first"}
    PROVE  ClientInv'
<1>1. CallTypeOK' /\ Moves(p, "idle", "show", EmptyStore, NoKey, FALSE)
  BY LeaveMoves DEF ClientInv, ClientTypeOK
<1>2. "idle" \in Path("show") /\ KeyOf("idle", EmptyStore, NoKey)
      /\ CopyOf("idle", "show", EmptyStore) /\ CloseOf("idle", EmptyStore)
      /\ OpenOf("idle", "show", EmptyStore, FALSE)
  BY EmptyStoreType DEF Path, KeyOf, HasKey, CopyOf, CloseOf, OpenOf
<1> QED BY <1>1, <1>2, CallStep

LEMMA GiveUpStep ==
    ASSUME ClientInv, NEW p \in Procs, GiveUp(p)
    PROVE  ClientInv'
BY LeaveStep DEF GiveUp, ClientInv, ClientTypeOK

LEMMA CrashStep ==
    ASSUME ClientInv, NEW p \in Procs, Crash(p)
    PROVE  ClientInv'
<1>1. openFault \in BOOLEAN
  BY DEF ClientInv, ClientTypeOK
<1>2. openFault' \in BOOLEAN /\ (openFault => openFault') /\ (goal[p] = "open" => openFault')
  BY <1>1 DEF Crash, NoteOpening
<1> QED BY <1>2, LeaveStep DEF Crash

LEMMA IdleShows ==
    ASSUME ClientInv, NEW p \in Procs, pc[p] = "idle"
    PROVE  goal[p] = "show"
BY DEF ClientInv, ClientTypeOK, CallTypeOK, LockOK, Path, Goals

\* A call begins; only with the lock does it work on the store.
LEMMA StartStep ==
    ASSUME ClientInv, NEW p \in Procs, NEW g \in Goals, Start(p, g)
    PROVE  ClientInv'
<1> DEFINE l == CASE g = "show" -> "readkey" [] g = "open" -> "send" [] OTHER -> "load"
<1>1. pc[p] = "idle" /\ (g # "show" => LockFree(p)) /\ (g = "open" => token = "none")
      /\ goal' = [goal EXCEPT ![p] = g] /\ pc' = [pc EXCEPT ![p] = l]
      /\ UNCHANGED <<routeVars, file, keyFile, fundVars, mem, key, failing, openFault, recent>>
  BY DEF Start, Goto
<1>2. CallTypeOK /\ openFault \in BOOLEAN
  BY DEF ClientInv, ClientTypeOK
<1>3. l \in Path(g) /\ l \in {"readkey", "send", "load"} /\ (l = "send" <=> g = "open")
      /\ (g = "refund" => l = "load")
  BY DEF Path, Goals
<1> HIDE DEF l
<1>4. CallTypeOK' /\ Moves(p, l, g, mem[p], key[p], failing[p])
  BY <1>1, <1>2, <1>3 DEF CallTypeOK, Moves, Places
<1>5. g # "show" => \A q \in Procs \ {p} : goal[q] = "show"
  BY <1>1, IdleShows DEF LockFree, Holds
<1>6. goal[p] = "show"
  BY <1>1, IdleShows
<1>7. KeyOf(l, mem[p], key[p]) /\ CloseOf(l, mem[p])
  BY <1>3 DEF ClientInv, KeyOK, KeyOf, HasKey, CloseOK, CloseOf
<1>8. CopyOf(l, g, mem[p])
  BY <1>3 DEF CopyOf
<1>9. OpenOf(l, g, mem[p], failing[p])
  BY <1>1, <1>3 DEF ClientInv, OpenOK, OpenOf, HandedOutIsOnFile
<1> QED BY <1>1, <1>2, <1>3, <1>4, <1>5, <1>6, <1>7, <1>8, <1>9, CallStep

\* Only one call is not a mere reading of the key.
LEMMA Alone ==
    ASSUME ClientInv, NEW p \in Procs, goal[p] # "show"
    PROVE  \A q \in Procs \ {p} : goal[q] = "show" /\ pc[q] \in {"idle", "readkey", "createkey"}
<1> SUFFICES ASSUME NEW q \in Procs \ {p}
             PROVE  goal[q] = "show" /\ pc[q] \in {"idle", "readkey", "createkey"}
  OBVIOUS
<1>1. goal[q] = "show"
  BY DEF ClientInv, LockOK
<1> QED BY <1>1 DEF ClientInv, LockOK, Path

LEMMA LoadStep ==
    ASSUME ClientInv, NEW p \in Procs, Load(p)
    PROVE  ClientInv'
<1>1. UNCHANGED <<routeVars, file, keyFile, fundVars, openFault, recent>> /\ pc[p] = "load"
  BY DEF Load
<1>2. CallTypeOK /\ openFault \in BOOLEAN /\ file \in Stores
  BY DEF ClientInv, ClientTypeOK
<1>3. goal[p] \in {"sign", "open", "refund"}
  BY <1>1 DEF ClientInv, ClientTypeOK, CallTypeOK, LockOK, Path, Goals
<1>4. CASE Leave(p)
  BY <1>1, <1>2, <1>4, LeaveStep
<1>5. CASE mem' = [mem EXCEPT ![p] = file] /\ Goto(p, "readkey") /\ UNCHANGED <<goal, key,
                                                                                failing>>
  <2>1. CallTypeOK' /\ Moves(p, "readkey", goal[p], file, key[p], failing[p])
    BY <1>2, <1>5 DEF CallTypeOK, Goto, Moves, Places
  <2>2. "readkey" \in Path(goal[p])
    BY <1>3 DEF Path
  <2>3. KeyOf("readkey", file, key[p]) /\ CloseOf("readkey", file)
    BY DEF ClientInv, KeyOK, KeyOf, HasKey, RefundPossible, CloseOK, CloseOf, ClosedMeansCollected
  <2>4. CopyOf("readkey", goal[p], file)
    BY DEF CopyOf
  <2>5. OpenOf("readkey", goal[p], file, failing[p])
    BY <1>1 DEF ClientInv, OpenOK, OpenOf
  <2> QED BY <1>1, <1>2, <1>3, <2>1, <2>2, <2>3, <2>4, <2>5, Alone, CallStep
<1> QED BY <1>4, <1>5 DEF Load

\* With the key on disk, a call goes on or, if it only shows it, ends.
LEMMA WithKeyMoves ==
    ASSUME ClientInv, NEW p \in Procs, pc[p] \in {"readkey", "createkey"},
           NEW k \in SenderKeys, WithKey(p, k)
    PROVE  /\ CallTypeOK'
           /\ \/ Moves(p, "idle", "show", EmptyStore, NoKey, FALSE) /\ goal[p] = "show"
              \/ \E l \in {"session", "swap", "fetch"} :
                   /\ goal[p] # "show"
                   /\ Moves(p, l, goal[p], mem[p], k, failing[p])
                   /\ l \in Path(goal[p])
<1>1. CallTypeOK
  BY DEF ClientInv, ClientTypeOK
<1>2. CASE goal[p] = "show"
  BY <1>1, <1>2, LeaveMoves DEF WithKey
<1>3. CASE goal[p] # "show"
  <2> DEFINE l == CASE goal[p] = "sign" -> "session" [] goal[p] = "open" -> "swap"
                    [] OTHER -> "fetch"
  <2>1. l \in {"session", "swap", "fetch"} /\ l \in Path(goal[p])
    BY <1>1, <1>3 DEF Path, CallTypeOK, Goals
  <2>2. key' = [key EXCEPT ![p] = k] /\ pc' = [pc EXCEPT ![p] = l]
        /\ UNCHANGED <<goal, mem, failing>>
    BY <1>3 DEF WithKey, Goto
  <2> HIDE DEF l
  <2>3. CallTypeOK' /\ Moves(p, l, goal[p], mem[p], k, failing[p])
    BY <1>1, <2>1, <2>2 DEF CallTypeOK, Moves, Places
  <2> QED BY <1>3, <2>1, <2>3
<1> QED BY <1>2, <1>3

LEMMA ReadKeyStep ==
    ASSUME ClientInv, NEW p \in Procs, ReadKey(p)
    PROVE  ClientInv'
<1>1. UNCHANGED <<routeVars, file, keyFile, fundVars, openFault, recent>> /\ pc[p] = "readkey"
  BY DEF ReadKey
<1>2. CallTypeOK /\ openFault \in BOOLEAN /\ keyFile \in SenderKeys \cup {NoKey}
  BY DEF ClientInv, ClientTypeOK
<1>3. CASE keyFile # NoKey
  <2>1. WithKey(p, keyFile) /\ keyFile \in SenderKeys
    BY <1>2, <1>3 DEF ReadKey
  <2>2. CallTypeOK'
    BY <1>1, <2>1, WithKeyMoves
  <2>3. CASE Moves(p, "idle", "show", EmptyStore, NoKey, FALSE) /\ goal[p] = "show"
    <3>1. "idle" \in Path("show") /\ KeyOf("idle", EmptyStore, NoKey)
          /\ CopyOf("idle", "show", EmptyStore) /\ CloseOf("idle", EmptyStore)
          /\ OpenOf("idle", "show", EmptyStore, FALSE)
      BY EmptyStoreType DEF Path, KeyOf, HasKey, CopyOf, CloseOf, OpenOf
    <3> QED BY <1>1, <1>2, <2>2, <2>3, <3>1, CallStep
  <2>4. ASSUME NEW l \in {"session", "swap", "fetch"}, goal[p] # "show",
               Moves(p, l, goal[p], mem[p], keyFile, failing[p]), l \in Path(goal[p])
        PROVE  ClientInv'
    <3>1. KeyOf(l, mem[p], keyFile) /\ CloseOf(l, mem[p])
      BY <1>3, <2>4 DEF ClientInv, KeyOK, KeyOf, CloseOK, CloseOf
    <3>2. CopyOf(l, goal[p], mem[p]) /\ OpenOf(l, goal[p], mem[p], failing[p])
      BY <1>1, <2>4 DEF ClientInv, CopyOK, CopyOf, OpenOK, OpenOf, Path
    <3> QED BY <1>1, <1>2, <2>2, <2>4, <3>1, <3>2, Alone, CallStep
  <2> QED BY <1>1, <2>1, <2>3, <2>4, WithKeyMoves
<1>4. CASE keyFile = NoKey
  <2>1. PICK k \in SenderKeys : key' = [key EXCEPT ![p] = k]
    BY <1>4 DEF ReadKey
  <2>2. pc' = [pc EXCEPT ![p] = "createkey"] /\ UNCHANGED <<goal, mem, failing>>
    BY <1>4 DEF ReadKey, Goto
  <2>3. CallTypeOK' /\ Moves(p, "createkey", goal[p], mem[p], k, failing[p])
    BY <1>2, <2>1, <2>2 DEF CallTypeOK, Moves, Places
  <2>4. "createkey" \in Path(goal[p])
    BY <1>1, <1>2 DEF ClientInv, LockOK, Path, CallTypeOK, Goals
  <2>5. KeyOf("createkey", mem[p], k) /\ CloseOf("createkey", mem[p])
    BY ClientAssumption DEF ClientInv, KeyOK, KeyOf, HasKey, CloseOK, CloseOf
  <2>6. CopyOf("createkey", goal[p], mem[p]) /\ OpenOf("createkey", goal[p], mem[p], failing[p])
    BY <1>1 DEF ClientInv, CopyOK, CopyOf, OpenOK, OpenOf
  <2> QED BY <1>1, <1>2, <2>3, <2>4, <2>5, <2>6, Alone, CallStep
<1> QED BY <1>3, <1>4

\* The first key is created before any channel has one.
LEMMA CreateKeyStep ==
    ASSUME ClientInv, NEW p \in Procs, NEW synced \in BOOLEAN, CreateKey(p, synced)
    PROVE  ClientInv'
<1>1. UNCHANGED <<routeVars, file, fundVars, openFault, recent>> /\ pc[p] = "createkey"
  BY DEF CreateKey
<1>2. CallTypeOK /\ openFault \in BOOLEAN /\ keyFile \in SenderKeys \cup {NoKey}
  BY DEF ClientInv, ClientTypeOK
<1>3. CASE keyFile # NoKey
  <2>1. Goto(p, "readkey") /\ UNCHANGED <<keyFile, goal, mem, key, failing>>
    BY <1>3 DEF CreateKey, Creates
  <2>2. CallTypeOK' /\ Moves(p, "readkey", goal[p], mem[p], key[p], failing[p])
    BY <1>2, <2>1, GotoMoves DEF Places
  <2>3. "readkey" \in Path(goal[p])
    BY <1>1, <1>2 DEF ClientInv, LockOK, Path, CallTypeOK, Goals
  <2>4. KeyOf("readkey", mem[p], key[p]) /\ CloseOf("readkey", mem[p])
    BY DEF ClientInv, KeyOK, KeyOf, HasKey, CloseOK, CloseOf
  <2>5. CopyOf("readkey", goal[p], mem[p]) /\ OpenOf("readkey", goal[p], mem[p], failing[p])
    BY <1>1 DEF ClientInv, CopyOK, CopyOf, OpenOK, OpenOf
  <2> QED BY <1>1, <1>2, <2>1, <2>2, <2>3, <2>4, <2>5, Alone, CallStep
<1>4. CASE keyFile = NoKey
  <2> DEFINE k == key[p]
  <2>1. k \in SenderKeys /\ k # NoKey
    BY <1>1, <1>2, ClientAssumption DEF ClientInv, KeyOK, KeyOf, CallTypeOK
  <2>2. keyFile' = k /\ (WithKey(p, k) \/ Leave(p))
    BY <1>4 DEF CreateKey, Creates
  <2>3. UNCHANGED <<terms, previous, payments, channel, held, file, token, listed, collected,
                    foreign,
                    openFault, recent>>
    BY <1>1 DEF routeVars, buyerVars, sellerVars, fundVars
  <2>4. PICK l \in {"idle", "session", "swap", "fetch"} : \E g \in Goals, m \in Stores : \E c, f :
          /\ CallTypeOK' /\ Moves(p, l, g, m, c, f)
          /\ \/ (l = "idle" /\ g = "show" /\ m = EmptyStore)
             \/ (l # "idle" /\ g = goal[p] /\ m = mem[p] /\ c = k /\ l \in Path(g) /\ f = failing[p])
    <3>1. CASE Leave(p)
      BY <1>2, <3>1, LeaveMoves, EmptyStoreType DEF Goals
    <3>2. CASE WithKey(p, k)
      <4>1. mem[p] \in Stores /\ goal[p] \in Goals
        BY <1>2 DEF CallTypeOK
      <4> QED BY <1>1, <2>1, <3>2, <4>1, WithKeyMoves, EmptyStoreType DEF Goals
    <3> QED BY <2>2, <3>1, <3>2
  <2>5. PICK g, m, c, f :
          /\ g \in Goals /\ m \in Stores
          /\ CallTypeOK' /\ Moves(p, l, g, m, c, f)
          /\ \/ (l = "idle" /\ g = "show" /\ m = EmptyStore)
             \/ (l # "idle" /\ g = goal[p] /\ m = mem[p] /\ c = k /\ l \in Path(g) /\ f = failing[p])
    BY <2>4
  <2>6. m.funding = NoKey /\ file.funding = NoKey /\ \A q \in Procs : mem[q].funding = NoKey
    BY <1>4, <2>5, EmptyStoreType DEF ClientInv, KeyOK, KeyOf, RefundPossible
  <2>7. ClientTypeOK'
    BY <2>1, <2>2, <2>3, <2>5 DEF ClientInv, ClientTypeOK
  <2>8. LockOK'
    BY <2>5 DEF ClientInv, LockOK, Moves, Path
  <2>9. KeyOK'
    <3>1. ASSUME NEW q \in Procs PROVE KeyOf(pc[q], mem[q], key[q])'
      <4>1. CASE q = p
        BY <2>1, <2>2, <2>5, <2>6, <4>1 DEF KeyOf, HasKey, Moves
      <4>2. CASE q # p
        BY <1>4, <2>5, <2>6, <4>2 DEF ClientInv, KeyOK, KeyOf, Moves
      <4> QED BY <4>1, <4>2
    <3>2. RefundPossible'
      BY <2>3, <2>6 DEF RefundPossible
    <3> QED BY <3>1, <3>2 DEF KeyOK
  <2>10. CopyOK'
    BY <1>1, <2>3, <2>5 DEF ClientInv, CopyOK, CopyOf, Moves
  <2>11. CloseOK'
    BY <1>1, <2>3, <2>5, SameRecovered, EmptyStoreType DEF ClientInv, CloseOK, CloseOf, Moves,
       ClosedMeansCollected
  <2>12. OpenOK'
    BY <1>1, <2>3, <2>5, <2>6 DEF ClientInv, OpenOK, OpenOf, Moves, Path
  <2>13. HandedOutIsOnFile'
    BY <2>3 DEF ClientInv, HandedOutIsOnFile
  <2>14. FundsTraceable'
    <3>1. CASE goal[p] = "open"
      BY <1>1, <2>3, <3>1 DEF ClientInv, FundsTraceable, OpenOK, OpenOf
    <3>2. CASE goal[p] # "open"
      BY <2>3, <2>5, <3>2 DEF ClientInv, FundsTraceable, Opening, Moves
    <3> QED BY <3>1, <3>2
  <2> QED BY <2>7, <2>8, <2>9, <2>10, <2>11, <2>12, <2>13, <2>14 DEF ClientInv
<1> QED BY <1>3, <1>4

-----------------------------------------------------------------------------
(* Steps of the process that has the lock.                                  *)

\* The call of p as it is now, and nobody else at work.
LEMMA Holder ==
    ASSUME ClientInv, NEW p \in Procs, pc[p] \in {"send"} \cup HasKey
    PROVE  /\ \E g \in Goals \ {"show"}, m \in Stores, k \in SenderKeys \cup {NoKey},
                 f \in BOOLEAN :
                g = goal[p] /\ m = mem[p] /\ k = key[p] /\ f = failing[p]
           /\ pc[p] \in {"send", "swap", "save", "first"} => goal[p] = "open"
           /\ pc[p] = "session" => goal[p] = "sign"
           /\ pc[p] \in {"fetch", "check", "import", "mark"} => goal[p] = "refund"
<1>1. pc[p] \in Path(goal[p]) /\ goal[p] \in Goals /\ mem[p] \in Stores
      /\ key[p] \in SenderKeys \cup {NoKey} /\ failing[p] \in BOOLEAN
  BY DEF ClientInv, ClientTypeOK, CallTypeOK, LockOK
<1>2. /\ pc[p] \in {"send", "swap", "save", "first"} => goal[p] = "open"
      /\ pc[p] = "session" => goal[p] = "sign"
      /\ pc[p] \in {"fetch", "check", "import", "mark"} => goal[p] = "refund"
  BY <1>1 DEF Path, Goals
<1>3. goal[p] \in Goals \ {"show"}
  BY <1>1, <1>2 DEF HasKey
<1> QED BY <1>1, <1>2, <1>3

\* What is left to show of a step that may write.
LEMMA HolderStep ==
    ASSUME ClientInv, NEW p \in Procs, goal[p] # "show",
           NEW l, NEW g, NEW m, NEW k, NEW f,
           ClientTypeOK', Moves(p, l, g, m, k, f), keyFile' = keyFile,
           l \in Path(g), KeyOf(l, m, k), RefundPossible',
           CopyOf(l, g, m)', CloseOf(l, m)', OpenOf(l, g, m, f)',
           Recovered => Recovered', ClosedMeansCollected',
           token = "swapped" => token' = "swapped",
           file'.funding # NoKey => token' = "swapped",
           payments' = {} => previous' = 0,
           HandedOutIsOnFile', FundsTraceable'
    PROVE  ClientInv'
<1>1. \A q \in Procs \ {p} : goal[q] = "show" /\ pc[q] \in {"idle", "readkey", "createkey"}
  BY Alone
<1>2. LockOK'
  BY <1>1 DEF ClientInv, LockOK, Moves
<1>3. KeyOK'
  BY DEF ClientInv, KeyOK, KeyOf, Moves
<1>4. CopyOK'
  BY <1>1 DEF CopyOK, CopyOf, Moves
<1>5. CloseOK'
  BY <1>1 DEF ClientInv, CloseOK, CloseOf, Moves
<1>6. OpenOK'
  BY <1>1 DEF ClientInv, OpenOK, OpenOf, Moves
<1> QED BY <1>2, <1>3, <1>4, <1>5, <1>6 DEF ClientInv

\* The parts of the invariant that do not mention the call that ended.
LEMMA Over ==
    /\ "idle" \in Path("show") /\ KeyOf("idle", EmptyStore, NoKey)
    /\ CopyOf("idle", "show", EmptyStore)' /\ CloseOf("idle", EmptyStore)'
    /\ OpenOf("idle", "show", EmptyStore, FALSE)'
BY EmptyStoreType DEF Path, KeyOf, HasKey, CopyOf, CloseOf, OpenOf

LEMMA SendTokenStep ==
    ASSUME ClientInv, NEW p \in Procs, NEW recorded \in BOOLEAN, SendToken(p, recorded)
    PROVE  ClientInv'
<1>1. /\ pc[p] = "send" /\ token' = "sent" /\ listed' = recorded
      /\ openFault' = (openFault \/ (~recorded /\ goal[p] = "open"))
      /\ UNCHANGED <<terms, previous, payments, channel, held, file, keyFile, collected,
                     foreign, recent>>
  BY DEF SendToken, NoteOpening, routeVars, buyerVars, sellerVars
<1>0. Recovered' = Recovered
  BY <1>1, SameRecovered
<1>2. PICK g \in Goals \ {"show"}, m \in Stores, k \in SenderKeys \cup {NoKey}, f \in BOOLEAN :
          g = goal[p] /\ m = mem[p] /\ k = key[p] /\ f = failing[p]
  BY <1>1, Holder DEF HasKey
<1>3. goal[p] = "open" /\ token = "none" /\ payments = {} /\ m.funding = NoKey
      /\ file.funding = NoKey /\ CallTypeOK /\ openFault \in BOOLEAN
  BY <1>1, <1>2, Holder DEF HasKey, ClientInv, OpenOK, OpenOf, ClientTypeOK
<1>4. RefundPossible' /\ ClosedMeansCollected' /\ HandedOutIsOnFile'
  BY <1>1, <1>3, <1>0 DEF ClientInv, RefundPossible, CloseOK, ClosedMeansCollected,
     HandedOutIsOnFile
<1>5. payments' = {} => previous' = 0
  BY <1>1 DEF ClientInv, OpenOK
<1>6. CASE recorded
  <2>1. CallTypeOK' /\ Moves(p, "load", g, m, k, f)
    BY <1>2, <1>3, <1>6, GotoMoves DEF SendToken, Places
  <2>2. ClientTypeOK'
    BY <1>1, <2>1 DEF ClientInv, ClientTypeOK, Tokens
  <2>3. "load" \in Path(g) /\ CopyOf("load", g, m)'
    BY <1>2, <1>3 DEF Path, CopyOf
  <2>4. KeyOf("load", m, k)
    BY <1>2 DEF ClientInv, KeyOK, KeyOf, HasKey
  <2>5. CloseOf("load", m)'
    BY <1>1, <1>2, <1>0 DEF ClientInv, CloseOK, CloseOf
  <2>6. OpenOf("load", g, m, f)'
    BY <1>1, <1>3, <1>6 DEF OpenOf
  <2>7. FundsTraceable'
    BY <1>1, <1>6 DEF FundsTraceable
  <2> QED BY <1>1, <1>2, <1>3, <1>4, <1>5, <2>1, <2>2, <2>3, <2>4, <2>5, <2>6, <2>7, HolderStep,
             <1>0
<1>7. CASE ~recorded
  <2>1. CallTypeOK' /\ Moves(p, "idle", "show", EmptyStore, NoKey, FALSE)
    BY <1>3, <1>7, LeaveMoves DEF SendToken
  <2>2. ClientTypeOK'
    BY <1>1, <1>3, <2>1 DEF ClientInv, ClientTypeOK, Tokens
  <2>3. FundsTraceable'
    BY <1>1, <1>3, <1>7 DEF FundsTraceable
  <2> QED BY <1>1, <1>2, <1>3, <1>4, <1>5, <2>1, <2>2, <2>3, Over, HolderStep, <1>0
<1> QED BY <1>6, <1>7

LEMMA SwapStep ==
    ASSUME ClientInv, NEW p \in Procs, NEW answered \in BOOLEAN, Swap(p, answered)
    PROVE  ClientInv'
<1>1. /\ pc[p] = "swap" /\ token = "sent" /\ token' = "swapped"
      /\ openFault' = (openFault \/ (~answered /\ goal[p] = "open"))
      /\ UNCHANGED <<terms, previous, payments, channel, held, file, keyFile, listed, collected,
                     foreign, recent>>
  BY DEF Swap, NoteOpening, routeVars, buyerVars, sellerVars
<1>0. Recovered' = Recovered
  BY <1>1, SameRecovered
<1>2. PICK g \in Goals \ {"show"}, m \in Stores, k \in SenderKeys \cup {NoKey}, f \in BOOLEAN :
          g = goal[p] /\ m = mem[p] /\ k = key[p] /\ f = failing[p]
  BY <1>1, Holder DEF HasKey
<1>3. goal[p] = "open" /\ payments = {} /\ CallTypeOK /\ openFault \in BOOLEAN
  BY <1>1, <1>2, Holder DEF HasKey, ClientInv, OpenOK, OpenOf, ClientTypeOK
<1>4. RefundPossible' /\ ClosedMeansCollected' /\ HandedOutIsOnFile'
  BY <1>1, <1>3, <1>0 DEF ClientInv, KeyOK, RefundPossible, CloseOK, ClosedMeansCollected,
     HandedOutIsOnFile
<1>5. payments' = {} => previous' = 0
  BY <1>1 DEF ClientInv, OpenOK
<1>6. CASE answered
  <2>1. CallTypeOK' /\ Moves(p, "save", g, m, k, f)
    BY <1>2, <1>3, <1>6, GotoMoves DEF Swap, Places
  <2>2. ClientTypeOK'
    BY <1>1, <1>3, <2>1 DEF ClientInv, ClientTypeOK, Tokens
  <2>3. "save" \in Path(g) /\ CopyOf("save", g, m)'
    BY <1>2, <1>3 DEF Path, CopyOf
  <2>4. KeyOf("save", m, k)
    BY <1>1, <1>2 DEF ClientInv, KeyOK, KeyOf, HasKey
  <2>5. CloseOf("save", m)'
    BY <1>1, <1>2, <1>0 DEF ClientInv, CloseOK, CloseOf
  <2>6. OpenOf("save", g, m, f)'
    BY <1>1, <1>3 DEF OpenOf
  <2>7. FundsTraceable'
    BY <1>2, <1>3, <2>1 DEF FundsTraceable, Opening, Moves
  <2> QED BY <1>1, <1>2, <1>3, <1>4, <1>5, <2>1, <2>2, <2>3, <2>4, <2>5, <2>6, <2>7, HolderStep,
             <1>0
<1>7. CASE ~answered
  <2>1. CallTypeOK' /\ Moves(p, "idle", "show", EmptyStore, NoKey, FALSE)
    BY <1>3, <1>7, LeaveMoves DEF Swap
  <2>2. ClientTypeOK'
    BY <1>1, <1>3, <2>1 DEF ClientInv, ClientTypeOK, Tokens
  <2>3. FundsTraceable'
    BY <1>1, <1>3, <1>7 DEF FundsTraceable
  <2> QED BY <1>1, <1>2, <1>3, <1>4, <1>5, <2>1, <2>2, <2>3, Over, HolderStep, <1>0
<1> QED BY <1>6, <1>7

\* Whether or not the first write fails, the copy has the channel, with the
\* key on disk; a failure is remembered.
LEMMA SaveFundingStep ==
    ASSUME ClientInv, NEW p \in Procs, NEW outcome \in Outcomes, SaveFunding(p, outcome)
    PROVE  ClientInv'
<1>1. /\ pc[p] = "save" /\ pc' = [pc EXCEPT ![p] = "first"]
      /\ mem' = [mem EXCEPT ![p] = Store(key[p], mem[p].balance, mem[p].closed)]
      /\ file' = IF outcome = "failed" THEN file
                                       ELSE Store(key[p], mem[p].balance, mem[p].closed)
      /\ failing' = [failing EXCEPT ![p] = outcome # "ok"]
      /\ UNCHANGED <<terms, previous, payments, channel, held, keyFile, token, listed,
                     collected, foreign, goal, key, openFault, recent>>
  BY DEF SaveFunding, KeepFunding, Persist, Goto, routeVars, buyerVars, sellerVars, fundVars
<1>0. Recovered' = Recovered
  BY <1>1, SameRecovered
<1>2. PICK g \in Goals \ {"show"}, m \in Stores, k \in SenderKeys \cup {NoKey}, f \in BOOLEAN :
          g = goal[p] /\ m = mem[p] /\ k = key[p] /\ f = failing[p]
  BY <1>1, Holder DEF HasKey
<1>3. goal[p] = "open" /\ token = "swapped" /\ payments = {} /\ CallTypeOK
  BY <1>1, <1>2, Holder DEF HasKey, ClientInv, OpenOK, OpenOf, ClientTypeOK
<1>4. k = keyFile /\ keyFile # NoKey /\ (m.closed => Recovered)
  BY <1>1, <1>2 DEF ClientInv, KeyOK, KeyOf, HasKey, CloseOK, CloseOf
<1>5. PICK s \in Stores : s = Store(k, m.balance, m.closed) /\ s.funding = k /\ s.closed = m.closed
  <2>1. m.balance \in Int /\ m.closed \in BOOLEAN
    BY DEF Stores
  <2> QED BY <2>1, StoreType
<1>6. PICK h \in BOOLEAN : h = (outcome # "ok")
  OBVIOUS
<1>7. CallTypeOK' /\ Moves(p, "first", g, s, k, h)
  <2>1. mem' = [mem EXCEPT ![p] = s] /\ failing' = [failing EXCEPT ![p] = h]
    BY <1>1, <1>2, <1>5, <1>6
  <2>2. failing' \in [Procs -> BOOLEAN] /\ mem' \in [Procs -> Stores] /\ pc' \in [Procs -> Places]
    BY <1>1, <1>3, <2>1 DEF CallTypeOK, Places
  <2> QED BY <1>1, <1>2, <1>3, <2>1, <2>2 DEF CallTypeOK, Moves
<1>8. file' = file \/ file' = s
  BY <1>1, <1>2, <1>5
<1>9. h \/ file' = s
  BY <1>1, <1>2, <1>5, <1>6
<1>10. ClientTypeOK'
  BY <1>1, <1>7, <1>8 DEF ClientInv, ClientTypeOK
<1>11. "first" \in Path(g) /\ CopyOf("first", g, s)'
  BY <1>2, <1>3 DEF Path, CopyOf
<1>12. KeyOf("first", s, k)
  BY <1>4, <1>5 DEF KeyOf
<1>13. CloseOf("first", s)'
  BY <1>1, <1>4, <1>5, <1>0 DEF CloseOf
<1>14. OpenOf("first", g, s, h)'
  BY <1>1, <1>3, <1>4, <1>5, <1>9 DEF OpenOf
<1>15. RefundPossible' /\ ClosedMeansCollected'
  BY <1>1, <1>4, <1>5, <1>8, <1>0 DEF ClientInv, KeyOK, RefundPossible, CloseOK,
     ClosedMeansCollected
<1>16. HandedOutIsOnFile' /\ (payments' = {} => previous' = 0)
  BY <1>1, <1>3 DEF ClientInv, HandedOutIsOnFile, OpenOK
<1>17. FundsTraceable'
  BY <1>2, <1>3, <1>7 DEF FundsTraceable, Opening, Moves
<1> QED BY <1>1, <1>2, <1>3, <1>7, <1>10, <1>11, <1>12, <1>13, <1>14, <1>15, <1>16, <1>17,
           HolderStep, <1>0

\* What a payment of any amount asks for, even one above the capacity.
LEMMA BalanceType ==
    ASSUME terms \in Terms, NEW msat \in Amounts \cup {BalanceToMsat(Capacity + 1)}
    PROVE  msat \in Nat /\ BalanceFromMsat(msat) \in Nat
<1>1. Capacity + 1 \in Nat /\ MsatPerSat \in Nat \ {0}
  BY TermsType
<1>2. msat \in Nat
  BY <1>1, TermsType, WorthType DEF Amounts
<1> QED BY <1>1, <1>2, Quotient DEF BalanceFromMsat, CeilDiv

\* A signer writes the channel it has read with the new balance.
LEMMA SignStep ==
    ASSUME ClientInv, NEW p \in Procs, NEW msat \in Amounts, NEW funding \in BOOLEAN,
           NEW outcome \in Outcomes, Sign(p, msat, funding, outcome)
    PROVE  ClientInv'
<1>1. PICK b \in Int : b = BalanceFromMsat(msat)
  BY BalanceType DEF ClientInv, ClientTypeOK
<1>2. /\ pc[p] = "session" /\ mem[p].funding # NoKey
      /\ mem' = [mem EXCEPT ![p] = Store(mem[p].funding, b, mem[p].closed)]
      /\ file' = IF outcome = "failed" THEN file ELSE Store(mem[p].funding, b, mem[p].closed)
      /\ failing' = [failing EXCEPT ![p] = outcome # "ok"]
      /\ UNCHANGED <<keyFile, token, listed, collected, foreign, goal, pc, key, openFault>>
  BY <1>1 DEF Sign, Persist, fundVars
<1>3. UNCHANGED <<terms, channel, held>>
      /\ \/ outcome = "ok" /\ payments' # {} /\ recent' = {b}
         \/ outcome # "ok" /\ UNCHANGED <<previous, payments>> /\ recent' = recent \cup {b}
  BY <1>1 DEF Sign, Handed, CreatePayment, routeVars, buyerVars, sellerVars
<1>0. Recovered' = Recovered
  BY <1>2, <1>3, SameRecovered
<1>4. PICK g \in Goals \ {"show"}, m \in Stores, k \in SenderKeys \cup {NoKey}, f \in BOOLEAN :
          g = goal[p] /\ m = mem[p] /\ k = key[p] /\ f = failing[p]
  BY <1>2, Holder DEF HasKey
<1>5. goal[p] = "sign" /\ CallTypeOK
  BY <1>2, Holder DEF HasKey, ClientInv, ClientTypeOK
<1>6. k = keyFile /\ keyFile # NoKey /\ m.funding = keyFile /\ (m.closed => Recovered)
      /\ token = "swapped"
  BY <1>2, <1>4 DEF ClientInv, KeyOK, KeyOf, HasKey, CloseOK, CloseOf, OpenOK, OpenOf
<1>7. PICK s \in Stores : s = Store(m.funding, b, m.closed) /\ s.funding = m.funding
                            /\ s.balance = b /\ s.closed = m.closed
  <2>1. m.funding \in SenderKeys \cup {NoKey} /\ m.closed \in BOOLEAN
    BY DEF Stores
  <2> QED BY <2>1, StoreType
<1>8. PICK h \in BOOLEAN : h = (outcome # "ok")
  OBVIOUS
<1>9. CallTypeOK' /\ Moves(p, "session", g, s, k, h)
  <2>1. mem' = [mem EXCEPT ![p] = s] /\ failing' = [failing EXCEPT ![p] = h]
    BY <1>2, <1>4, <1>7, <1>8
  <2>2. failing' \in [Procs -> BOOLEAN] /\ mem' \in [Procs -> Stores]
    BY <1>5, <2>1 DEF CallTypeOK
  <2> QED BY <1>2, <1>4, <1>5, <2>1, <2>2 DEF CallTypeOK, Moves
<1>10. (file' = file /\ outcome = "failed") \/ file' = s
  BY <1>2, <1>4, <1>7
<1>11. ClientTypeOK'
  BY <1>2, <1>3, <1>9, <1>10 DEF ClientInv, ClientTypeOK
<1>12. "session" \in Path(g) /\ CopyOf("session", g, s)'
  BY <1>4, <1>5 DEF Path, CopyOf
<1>13. KeyOf("session", s, k)
  BY <1>6, <1>7 DEF KeyOf
<1>14. CloseOf("session", s)'
  BY <1>2, <1>6, <1>7, <1>0 DEF CloseOf
<1>15. OpenOf("session", g, s, h)'
  BY <1>2, <1>4, <1>5, <1>6 DEF OpenOf
<1>16. RefundPossible' /\ ClosedMeansCollected'
  BY <1>2, <1>6, <1>7, <1>10, <1>0 DEF ClientInv, KeyOK, RefundPossible, CloseOK,
     ClosedMeansCollected
<1>17. HandedOutIsOnFile'
  BY <1>3, <1>6, <1>7, <1>10 DEF ClientInv, HandedOutIsOnFile
<1>18. payments' = {} => previous' = 0
  BY <1>3 DEF ClientInv, OpenOK
<1>19. FundsTraceable'
  BY <1>2, <1>4, <1>6, <1>7, <1>9, <1>10 DEF ClientInv, FundsTraceable, Opening, Moves
<1> QED BY <1>2, <1>4, <1>5, <1>6, <1>9, <1>11, <1>12, <1>13, <1>14, <1>15, <1>16, <1>17, <1>18,
           <1>19, HolderStep, <1>0

\* The opening payment ends the opening, and no fault means the channel is on
\* file, whether the payment was made or refused.
LEMMA FirstPaymentStep ==
    ASSUME ClientInv, NEW p \in Procs, NEW outcome \in Outcomes,
           NEW msat \in Amounts \cup {BalanceToMsat(Capacity + 1)},
           FirstPayment(p, msat, outcome)
    PROVE  ClientInv'
<1>1. PICK b \in Int : b = BalanceFromMsat(msat)
  BY BalanceType DEF ClientInv, ClientTypeOK
<1>2. /\ pc[p] = "first" /\ Leave(p)
      /\ UNCHANGED <<terms, channel, held, keyFile, token, listed, collected, foreign>>
  BY DEF FirstPayment, sellerVars, fundVars
<1>0. Recovered' = Recovered
  BY <1>2, SameRecovered
<1>3. PICK g \in Goals \ {"show"}, m \in Stores, k \in SenderKeys \cup {NoKey}, f \in BOOLEAN :
          g = goal[p] /\ m = mem[p] /\ k = key[p] /\ f = failing[p]
  BY <1>2, Holder DEF HasKey
<1>4. goal[p] = "open" /\ CallTypeOK /\ openFault \in BOOLEAN /\ payments = {} /\ previous = 0
      /\ token = "swapped" /\ m.funding # NoKey /\ (f \/ file.funding # NoKey)
  BY <1>2, <1>3, Holder DEF HasKey, ClientInv, ClientTypeOK, OpenOK, OpenOf
<1>5. m.funding = keyFile /\ keyFile # NoKey /\ (m.closed => Recovered)
  BY <1>2, <1>3, <1>4 DEF ClientInv, KeyOK, KeyOf, HasKey, CloseOK, CloseOf
<1>6. PICK s \in Stores : s = Store(m.funding, b, m.closed) /\ s.funding = m.funding
                            /\ s.balance = b /\ s.closed = m.closed
  <2>1. m.funding \in SenderKeys \cup {NoKey} /\ m.closed \in BOOLEAN
    BY DEF Stores
  <2> QED BY <2>1, StoreType
<1>7. CallTypeOK' /\ Moves(p, "idle", "show", EmptyStore, NoKey, FALSE)
  BY <1>2, <1>4, LeaveMoves
<1>8. \/ file' = s /\ recent' = {b} /\ payments' # {} /\ openFault' = openFault
      \/ file' \in {file, s} /\ UNCHANGED <<previous, payments>> /\ openFault' = TRUE
      \/ file' = file /\ UNCHANGED <<previous, payments>> /\ openFault' = (openFault \/ f)
  <2>1. CASE Fits(b) /\ outcome = "ok"
    BY <1>1, <1>3, <1>4, <1>6, <2>1 DEF FirstPayment, FinalPersist, NoteOpening, Handed
  <2>2. CASE Fits(b) /\ outcome # "ok"
    BY <1>1, <1>3, <1>4, <1>6, <2>2 DEF FirstPayment, FinalPersist, NoteOpening, Handed, buyerVars
  <2>3. CASE ~Fits(b)
    BY <1>1, <1>3, <1>4, <2>3 DEF FirstPayment, NoteOpening, buyerVars
  <2> QED BY <2>1, <2>2, <2>3
<1>9. file' \in {file, s} /\ openFault' \in BOOLEAN
  BY <1>4, <1>8
<1>10. ClientTypeOK'
  BY <1>2, <1>7, <1>9 DEF ClientInv, ClientTypeOK
<1>11. RefundPossible' /\ ClosedMeansCollected'
  BY <1>2, <1>5, <1>6, <1>9, <1>0 DEF ClientInv, KeyOK, RefundPossible, CloseOK,
     ClosedMeansCollected
<1>12. HandedOutIsOnFile' /\ (payments' = {} => previous' = 0)
  BY <1>4, <1>6, <1>8 DEF HandedOutIsOnFile
<1>13. FundsTraceable'
  BY <1>4, <1>6, <1>8 DEF FundsTraceable
<1> QED BY <1>2, <1>4, <1>7, <1>10, <1>11, <1>12, <1>13, Over, HolderStep, <1>0

\* The keyset a refund looks in is the one that is active when it asks.
LEMMA FetchKeysetStep ==
    ASSUME ClientInv, NEW p \in Procs, FetchKeyset(p)
    PROVE  ClientInv'
<1>1. UNCHANGED <<routeVars, file, keyFile, fundVars, openFault, recent>> /\ pc[p] = "fetch"
  BY DEF FetchKeyset
<1>2. CallTypeOK /\ openFault \in BOOLEAN /\ goal[p] = "refund"
  BY <1>1, Holder DEF HasKey, ClientInv, ClientTypeOK
<1>3. CASE Leave(p)
  BY <1>1, <1>2, <1>3, LeaveStep
<1>4. CASE Goto(p, "check") /\ UNCHANGED <<goal, mem, key, failing>>
  <2>1. CallTypeOK' /\ Moves(p, "check", goal[p], mem[p], key[p], failing[p])
    BY <1>2, <1>4, GotoMoves DEF Places
  <2>2. "check" \in Path(goal[p])
    BY <1>2 DEF Path
  <2>3. KeyOf("check", mem[p], key[p]) /\ CloseOf("check", mem[p])
    BY <1>1, <1>4 DEF ClientInv, KeyOK, KeyOf, HasKey, CloseOK, CloseOf
  <2>4. CopyOf("check", goal[p], mem[p]) /\ OpenOf("check", goal[p], mem[p], failing[p])
    BY <1>1, <1>2 DEF ClientInv, CopyOK, CopyOf, OpenOK, OpenOf
  <2> QED BY <1>1, <1>2, <2>1, <2>2, <2>3, <2>4, Alone, CallStep
<1> QED BY <1>3, <1>4 DEF FetchKeyset

LEMMA CheckFundingStep ==
    ASSUME ClientInv, NEW p \in Procs, CheckFunding(p)
    PROVE  ClientInv'
<1>1. UNCHANGED <<routeVars, file, keyFile, fundVars, openFault, recent>> /\ pc[p] = "check"
  BY DEF CheckFunding
<1>2. CallTypeOK /\ openFault \in BOOLEAN /\ goal[p] = "refund"
  BY <1>1, Holder DEF HasKey, ClientInv, ClientTypeOK
<1>3. CASE Leave(p)
  BY <1>1, <1>2, <1>3, LeaveStep
<1>4. CASE FundingSpent /\ Goto(p, "import") /\ UNCHANGED <<goal, mem, key, failing>>
  <2>1. CallTypeOK' /\ Moves(p, "import", goal[p], mem[p], key[p], failing[p])
    BY <1>2, <1>4, GotoMoves DEF Places
  <2>2. "import" \in Path(goal[p])
    BY <1>2 DEF Path
  <2>3. KeyOf("import", mem[p], key[p]) /\ CloseOf("import", mem[p])
    BY <1>1, <1>4 DEF ClientInv, KeyOK, KeyOf, HasKey, CloseOK, CloseOf, FundingSpent
  <2>4. CopyOf("import", goal[p], mem[p]) /\ OpenOf("import", goal[p], mem[p], failing[p])
    BY <1>1, <1>2 DEF ClientInv, CopyOK, CopyOf, OpenOK, OpenOf
  <2> QED BY <1>1, <1>2, <2>1, <2>2, <2>3, <2>4, Alone, CallStep
<1> QED BY <1>3, <1>4 DEF CheckFunding

\* The share of a settled channel is found in the keyset of the settlement; a
\* search in another one is noted, whatever it finds.
LEMMA ImportProofsStep ==
    ASSUME ClientInv, NEW p \in Procs, NEW found \in BOOLEAN, ImportProofs(p, found)
    PROVE  ClientInv'
<1>1. /\ pc[p] = "import" /\ Restores(p, found) /\ collected' = (collected \/ found)
      /\ foreign' = (foreign \/ fetched[p] # settled)
      /\ Goto(p, "mark") /\ UNCHANGED <<goal, mem, key, failing>>
      /\ UNCHANGED <<terms, previous, payments, channel, held, file, keyFile, token, listed,
                     openFault, recent>>
  BY DEF ImportProofs, routeVars, buyerVars, sellerVars
<1>2. PICK g \in Goals \ {"show"}, m \in Stores, k \in SenderKeys \cup {NoKey}, f \in BOOLEAN :
          g = goal[p] /\ m = mem[p] /\ k = key[p] /\ f = failing[p]
  BY <1>1, Holder DEF HasKey
<1>3. CallTypeOK /\ goal[p] = "refund" /\ channel = "closed" /\ collected \in BOOLEAN
  BY <1>1, Holder DEF HasKey, ClientInv, ClientTypeOK, CloseOK, CloseOf
<1>4. Recovered' /\ collected' \in BOOLEAN
  <2>1. Share' = Share /\ channel' = "closed"
    BY <1>1, <1>3 DEF Share, Capacity
  <2>2. collected' \/ ~Share \/ foreign'
    BY <1>1 DEF Restores
  <2> QED BY <1>1, <1>3, <2>1, <2>2 DEF Recovered
<1>5. CallTypeOK' /\ Moves(p, "mark", g, m, k, f)
  BY <1>1, <1>2, <1>3, GotoMoves DEF Places
<1>6. ClientTypeOK'
  BY <1>1, <1>4, <1>5 DEF ClientInv, ClientTypeOK
<1>7. "mark" \in Path(g)
  BY <1>2, <1>3 DEF Path
<1>8. KeyOf("mark", m, k)
  BY <1>1, <1>2 DEF ClientInv, KeyOK, KeyOf, HasKey
<1>9. CopyOf("mark", g, m)'
  BY <1>1, <1>2 DEF ClientInv, CopyOK, CopyOf
<1>10. CloseOf("mark", m)' /\ ClosedMeansCollected'
  BY <1>4 DEF CloseOf, ClosedMeansCollected
<1>11. OpenOf("mark", g, m, f)'
  BY <1>1, <1>2, <1>3 DEF ClientInv, OpenOK, OpenOf
<1>12. RefundPossible' /\ HandedOutIsOnFile' /\ (payments' = {} => previous' = 0)
       /\ (file'.funding # NoKey => token' = "swapped")
  BY <1>1 DEF ClientInv, KeyOK, RefundPossible, HandedOutIsOnFile, OpenOK
<1>13. FundsTraceable'
  BY <1>1, <1>2, <1>3, <1>5 DEF ClientInv, FundsTraceable, Opening, Moves
<1> QED BY <1>1, <1>2, <1>3, <1>4, <1>5, <1>6, <1>7, <1>8, <1>9, <1>10, <1>11, <1>12, <1>13,
           HolderStep

\* Marking the channel closed writes back what is on file.
LEMMA MarkClosedStep ==
    ASSUME ClientInv, NEW p \in Procs, NEW outcome \in Outcomes, MarkClosed(p, outcome)
    PROVE  ClientInv'
<1>1. /\ pc[p] = "mark" /\ Leave(p)
      /\ file' = IF outcome = "failed" THEN file ELSE Store(mem[p].funding, mem[p].balance, TRUE)
      /\ UNCHANGED <<terms, previous, payments, channel, held, keyFile, token, listed,
                     collected, foreign, openFault, recent>>
  BY DEF MarkClosed, FinalPersist, routeVars, buyerVars, sellerVars, fundVars
<1>0. Recovered' = Recovered
  BY <1>1, SameRecovered
<1>2. goal[p] = "refund" /\ CallTypeOK /\ mem[p] = file /\ file \in Stores /\ Recovered
  BY <1>1, Holder
     DEF HasKey, ClientInv, ClientTypeOK, CopyOK, CopyOf, CloseOK, CloseOf
<1>3. PICK s \in Stores : s = Store(file.funding, file.balance, TRUE)
                            /\ s.funding = file.funding /\ s.balance = file.balance
  <2>1. file.funding \in SenderKeys \cup {NoKey} /\ file.balance \in Int
    BY <1>2 DEF Stores
  <2>2. Store(file.funding, file.balance, TRUE) \in Stores
    BY <2>1 DEF Store, Stores
  <2>3. Store(file.funding, file.balance, TRUE).funding = file.funding
        /\ Store(file.funding, file.balance, TRUE).balance = file.balance
    BY DEF Store
  <2> QED BY <2>2, <2>3
<1>4. file' \in Stores /\ file'.funding = file.funding /\ file'.balance = file.balance
  BY <1>1, <1>2, <1>3
<1>5. CallTypeOK' /\ Moves(p, "idle", "show", EmptyStore, NoKey, FALSE)
  BY <1>1, <1>2, LeaveMoves
<1>6. ClientTypeOK'
  BY <1>1, <1>4, <1>5 DEF ClientInv, ClientTypeOK
<1>7. RefundPossible' /\ HandedOutIsOnFile' /\ (payments' = {} => previous' = 0)
      /\ (file'.funding # NoKey => token' = "swapped") /\ ClosedMeansCollected'
  BY <1>0, <1>1, <1>2, <1>4 DEF ClientInv, KeyOK, RefundPossible, HandedOutIsOnFile, OpenOK,
     ClosedMeansCollected
<1>8. FundsTraceable'
  BY <1>1, <1>2, <1>4, <1>5 DEF ClientInv, FundsTraceable, Opening, Moves
<1> QED BY <1>1, <1>2, <1>5, <1>6, <1>7, <1>8, Over, HolderStep, <1>0

-----------------------------------------------------------------------------
(* The user, the seller and the application.                                *)

\* Revoking a token takes it away from the opening, which then cannot swap it.
LEMMA RevokeStep ==
    ASSUME ClientInv, Revoke
    PROVE  ClientInv'
<1>1. /\ token = "sent" /\ listed /\ token' = "reclaimed"
      /\ UNCHANGED <<terms, previous, payments, channel, held, file, keyFile, listed, collected,
                     foreign,
                     goal, pc, mem, key, failing, openFault, recent>>
  BY DEF Revoke, routeVars, buyerVars, sellerVars, callVars
<1>0. Recovered' = Recovered
  BY <1>1, SameRecovered
<1>2. ClientTypeOK' /\ LockOK' /\ KeyOK' /\ CopyOK' /\ CloseOK' /\ HandedOutIsOnFile'
  BY <1>1, <1>0 DEF ClientInv, ClientTypeOK, Tokens, CallTypeOK, LockOK, KeyOK, KeyOf, CopyOK,
     CopyOf,
     CloseOK, CloseOf, HandedOutIsOnFile, RefundPossible, ClosedMeansCollected
<1>3. OpenOK'
  BY <1>1 DEF ClientInv, OpenOK, OpenOf
<1>4. FundsTraceable'
  BY <1>1 DEF FundsTraceable
<1> QED BY <1>2, <1>3, <1>4 DEF ClientInv

\* Nothing in the buyer's files depends on what the seller and the mint do, but
\* a closed channel stays as it was settled.
LEMMA ElsewhereStep ==
    ASSUME ClientInv, UNCHANGED <<terms, payments>>,
           UNCHANGED <<file, keyFile, fundVars, callVars, openFault, recent>>,
           previous' = previous \/ previous' = 0,
           channel = "closed" => UNCHANGED <<channel, held>>
    PROVE  ClientInv'
<1>1. UNCHANGED <<file, keyFile, token, listed, collected, foreign, goal, pc, mem, key, failing,
                  openFault, recent>>
  BY DEF fundVars, callVars
<1>2. Recovered => Recovered'
  BY <1>1 DEF Recovered, Share, Capacity
<1>3. CloseOK'
  BY <1>1, <1>2 DEF ClientInv, CloseOK, CloseOf, ClosedMeansCollected
<1>4. ClientTypeOK' /\ LockOK' /\ KeyOK' /\ CopyOK' /\ HandedOutIsOnFile'
  BY <1>1 DEF ClientInv, ClientTypeOK, CallTypeOK, LockOK, KeyOK, KeyOf, CopyOK, CopyOf,
     HandedOutIsOnFile, RefundPossible
<1>5. OpenOK' /\ FundsTraceable'
  BY <1>1 DEF ClientInv, OpenOK, OpenOf, FundsTraceable, Opening
<1> QED BY <1>3, <1>4, <1>5 DEF ClientInv

LEMMA SellerLeaves ==
    ASSUME ForgetPrevious \/ SellerNext
    PROVE  /\ UNCHANGED <<terms, payments>>
           /\ previous' = previous \/ previous' = 0
           /\ channel = "closed" => UNCHANGED <<channel, held>>
BY DEF ForgetPrevious, SellerNext, ReceivePayment, ProcessPayment, AcceptLease, Deliver,
   CloseChannel, buyerVars, sellerVars

LEMMA InitClient == ClientInit => ClientInv
<1> SUFFICES ASSUME ClientInit PROVE ClientInv
  OBVIOUS
<1>1. terms \in Terms /\ previous = 0 /\ payments = {}
  BY DEF ClientInit, RouteInit
<1>2. \A p \in Procs : goal[p] = "show" /\ pc[p] = "idle" /\ mem[p] = EmptyStore
                         /\ failing[p] = FALSE
  BY DEF ClientInit
<1>3. ClientTypeOK
  BY <1>1, EmptyStoreType DEF ClientInit, ClientTypeOK, CallTypeOK, Goals, Places, Tokens
<1>4. LockOK /\ CopyOK
  BY <1>2 DEF LockOK, CopyOK, CopyOf, Path
<1>5. KeyOK /\ CloseOK
  BY <1>2, EmptyStoreType DEF ClientInit, KeyOK, KeyOf, HasKey, CloseOK, CloseOf, RefundPossible,
     ClosedMeansCollected
<1>6. OpenOK /\ HandedOutIsOnFile /\ FundsTraceable
  BY <1>1, <1>2, EmptyStoreType DEF ClientInit, OpenOK, OpenOf, HandedOutIsOnFile, FundsTraceable
<1> QED BY <1>3, <1>4, <1>5, <1>6 DEF ClientInv

\* The invariant is inductive.
LEMMA ClientInduction == ClientInv /\ [ClientNext]_vars => ClientInv'
<1> SUFFICES ASSUME ClientInv, [ClientNext]_vars PROVE ClientInv'
  OBVIOUS
<1>1. CASE Revoke
  BY <1>1, RevokeStep
<1>2. CASE Elsewhere
  BY <1>2, ElsewhereStep, SellerLeaves DEF Elsewhere
<1>3. ASSUME NEW p \in Procs, CallNext(p) PROVE ClientInv'
  BY <1>3, StartStep, GiveUpStep, CrashStep, LoadStep, ReadKeyStep, CreateKeyStep, SignStep,
     SendTokenStep, SwapStep, SaveFundingStep, MarkClosedStep, FirstPaymentStep,
     FetchKeysetStep, CheckFundingStep, ImportProofsStep DEF CallNext
<1>4. CASE UNCHANGED vars
  BY <1>4, ElsewhereStep DEF vars, clientVars, routeVars, buyerVars, sellerVars
<1>5. CASE Rotate
  BY <1>5, ElsewhereStep DEF Rotate, routeVars, buyerVars, sellerVars
<1> QED BY <1>1, <1>2, <1>3, <1>4, <1>5 DEF ClientNext

LEMMA ClientInvariant == ClientSpec => []ClientInv
BY InitClient, ClientInduction, PTL DEF ClientSpec

-----------------------------------------------------------------------------
(* What the buyer relies on.                                                *)

\* The money of an opening is never out of sight without a fault: the token
\* can be revoked, or the channel is in the store.
THEOREM FundsAreTraceable == ClientSpec => []FundsTraceable
<1>1. ClientInv => FundsTraceable
  BY DEF ClientInv
<1> QED BY <1>1, ClientInvariant, PTL

\* The key of a recorded channel is the key on disk, whichever processes
\* created the key at the same time, so its refund can be signed for.
THEOREM RefundStaysPossible == ClientSpec => []RefundPossible
<1>1. ClientInv => RefundPossible
  BY DEF ClientInv, KeyOK
<1> QED BY <1>1, ClientInvariant, PTL

\* The store has the funding and the balance of what was handed out, although
\* every writer replaces the whole file with its copy.
THEOREM HandedOutStaysOnFile == ClientSpec => []HandedOutIsOnFile
<1>1. ClientInv => HandedOutIsOnFile
  BY DEF ClientInv
<1> QED BY <1>1, ClientInvariant, PTL

\* A channel is marked closed only after its settlement and, if the seller left
\* a share, with the share in the wallet, unless a refund looked for it in
\* another keyset than the settlement's.
THEOREM ClosedIsCollected == ClientSpec => []ClosedMeansCollected
<1>1. ClientInv => ClosedMeansCollected
  BY DEF ClientInv, CloseOK
<1> QED BY <1>1, ClientInvariant, PTL

-----------------------------------------------------------------------------
(* To the seller, the buyer with its files is a buyer of StreamingRoute.    *)

\* An amount that the library accepts is one the route can pay.
LEMMA AcceptedAmount ==
    ASSUME terms \in Terms, NEW msat \in Amounts \cup {BalanceToMsat(Capacity + 1)},
           BalanceFromMsat(msat) <= Capacity
    PROVE  msat \in Amounts /\ Progress(msat, 0)
<1> DEFINE worth == terms.capacity_sat * MsatPerSat
<1>1. /\ terms.unit = "sat" /\ terms.capacity_sat \in Nat /\ MsatPerSat \in Nat \ {0}
      /\ worth \in Nat /\ MaxWord \in Nat /\ terms.stated_sat \in {0, terms.capacity_sat}
  BY TermsType, ClientAssumption
<1>2. msat \in Nat
  BY BalanceType
<1>3. msat <= worth
  BY <1>1, <1>2, CeilBound DEF BalanceFromMsat, Capacity
<1>4. msat <= Saturate(worth)
  <2>1. CASE msat \in Amounts
    BY <1>1, <2>1 DEF Amounts, FullMsat
  <2>2. CASE msat = BalanceToMsat(Capacity + 1)
    <3>1. msat = Saturate((terms.capacity_sat + 1) * MsatPerSat)
          /\ (terms.capacity_sat + 1) * MsatPerSat \in Nat
      BY <1>1, <2>2, Product DEF BalanceToMsat, Capacity
    <3>2. msat <= MaxWord
      BY <1>1, <3>1 DEF Saturate
    <3> QED BY <1>1, <1>2, <1>3, <3>2 DEF Saturate
  <2> QED BY <2>1, <2>2
<1>5. CapacityMsat > 0 => CapacityMsat = Saturate(worth)
  BY <1>1 DEF CapacityMsat, Saturate
<1> QED BY <1>1, <1>2, <1>4, <1>5 DEF Amounts, FullMsat, Progress

\* The opening payment is a payment of the route: the first one.
LEMMA FirstIsPayment ==
    ASSUME ClientInv, NEW p \in Procs, NEW outcome \in Outcomes,
           NEW msat \in Amounts \cup {BalanceToMsat(Capacity + 1)},
           FirstPayment(p, msat, outcome)
    PROVE  [RouteNext]_routeVars
<1> DEFINE b == BalanceFromMsat(msat)
<1>1. UNCHANGED <<terms, sellerVars>> /\ pc[p] = "first" /\ terms \in Terms
  BY DEF FirstPayment, ClientInv, ClientTypeOK
<1>2. payments = {} /\ previous = 0
  <2>1. goal[p] = "open"
    BY <1>1, Holder DEF HasKey
  <2> QED BY <2>1 DEF ClientInv, OpenOK, OpenOf
<1>3. CASE UNCHANGED buyerVars
  BY <1>1, <1>3 DEF routeVars
<1>4. CASE b <= Capacity /\ payments' = payments \cup {Payment(b, TRUE)}
           /\ previous' = BalanceToMsat(b)
  <2>1. msat \in Amounts /\ Progress(msat, previous)
    BY <1>1, <1>2, <1>4, AcceptedAmount
  <2>2. PICK x : payments' = {x}
    BY <1>2, <1>4
  <2>3. Cardinality(payments') = 1
    BY <2>2, FS_Singleton
  <2>4. Cardinality(payments') <= MaxPayments
    BY <2>3, RouteAssumption
  <2>5. CreatePayment(msat, TRUE)
    BY <1>1, <1>4, <2>1, <2>4 DEF CreatePayment
  <2> QED BY <2>1, <2>5 DEF RouteNext, BuyerNext
<1> QED BY <1>3, <1>4 DEF FirstPayment, Fits, Handed

\* Every step of the buyer and its files is a step of the route, or none.
LEMMA RouteStep ==
    ASSUME ClientInv, [ClientNext]_vars
    PROVE  [RouteNext]_routeVars
<1>1. CASE Elsewhere
  BY <1>1 DEF Elsewhere, RouteNext, BuyerNext
<1>2. CASE Revoke \/ Rotate \/ UNCHANGED vars
  BY <1>2 DEF Revoke, Rotate, vars
<1>3. ASSUME NEW p \in Procs, CallNext(p) PROVE [RouteNext]_routeVars
  <2>1. CASE \E msat \in Amounts, funding \in BOOLEAN, outcome \in Outcomes :
               Sign(p, msat, funding, outcome)
    BY <2>1 DEF Sign, RouteNext, BuyerNext
  <2>2. CASE \E msat \in Amounts \cup {BalanceToMsat(Capacity + 1)}, outcome \in Outcomes :
               FirstPayment(p, msat, outcome)
    BY <2>2, FirstIsPayment
  <2>3. CASE UNCHANGED routeVars
    BY <2>3
  <2> QED BY <1>3, <2>1, <2>2, <2>3 DEF CallNext, Start, GiveUp, Crash, Load, ReadKey, CreateKey,
       SendToken, Swap, SaveFunding, MarkClosed, FetchKeyset, CheckFunding, ImportProofs
<1> QED BY <1>1, <1>2, <1>3 DEF ClientNext

\* The buyer with its files, its processes and its faults implements the buyer
\* of the route, so what is proved of the seller holds with it as well.
THEOREM ClientRefinesRoute == ClientSpec => RouteSpec
<1>1. ClientInit => RouteInit
  BY DEF ClientInit
<1>2. ClientInv /\ [ClientNext]_vars => [RouteNext]_routeVars
  BY RouteStep
<1> QED BY <1>1, <1>2, ClientInvariant, PTL DEF ClientSpec, RouteSpec

\* With this buyer too, whatever the seller credits it can redeem.
COROLLARY ClientCreditIsBacked == ClientSpec => []CreditBacked
BY ClientRefinesRoute, CreditIsBacked, PTL
=============================================================================
