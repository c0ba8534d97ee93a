------------------------ MODULE PaymentNetworkProofs ------------------------
(***************************************************************************)
(* For any mints, fees, limits and channel capacity: the network keeps its *)
(* types, reports to a mint only payments it really received, never undoes *)
(* a payment or lets a closed-loop mint pay, and conserves value.          *)
(*                                                                         *)
(* What a mint has learned came through its event queue or from its        *)
(* status check, so the invariant also says that whatever is queued for a  *)
(* mint, or still to be announced, has been paid.  The balances are sums   *)
(* over the paid invoices, and a payment adds one term to some of them.    *)
(***************************************************************************)
EXTENDS PaymentNetwork, SumTheorems

Paid(i) == i \in Serials /\ invoices[i].paid_by # None

AnnouncedIsTrue ==
    /\ \A i \in unsent : Paid(i)
    /\ \A m \in Mints : stream[m] # None =>
          \A n \in 1..Len(stream[m].queue) : stream[m].queue[n] \in PaidTo(m)

NetworkInv == NetworkTypeOK /\ LearnedIsTrue /\ AnnouncedIsTrue

USE NetworkAssumption

-----------------------------------------------------------------------------

\* Nothing is queued, learned or paid at first.
LEMMA InitNetwork == Init => NetworkInv
BY DEF Init, NetworkInv, NetworkTypeOK, LearnedIsTrue, AnnouncedIsTrue, Serials, Invoice

\* A step that leaves the invoices and what was delivered alone.
LEMMA SwitchStep ==
    ASSUME NetworkInv, UNCHANGED <<funds, invoices, delivery>>,
           online' \in [Mints -> BOOLEAN \cup {None}], now' \in 0..MaxTime
    PROVE  NetworkInv'
BY DEF NetworkInv, NetworkTypeOK, LearnedIsTrue, AnnouncedIsTrue, funds, delivery, Serials,
   PaidTo, Paid

\* Registering a mint or switching it on and off.
LEMMA OrchestratorStep ==
    ASSUME NetworkInv, NEW m \in Mints, PaymentBackend(m) \/ SetOnline(m)
    PROVE  NetworkInv'
<1>1. PICK on \in BOOLEAN : online' = [online EXCEPT ![m] = on]
  <2>1. CASE PaymentBackend(m)
    BY <2>1, Zenon DEF PaymentBackend
  <2>2. CASE SetOnline(m)
    <3>1. (~online[m]) \in BOOLEAN
      BY Zenon
    <3>2. online' = [online EXCEPT ![m] = ~online[m]]
      BY <2>2, Zenon DEF SetOnline
    <3> QED BY <3>1, <3>2, Zenon
  <2> QED BY <2>1, <2>2
<1>2. online' \in [Mints -> BOOLEAN \cup {None}]
  <2>1. online \in [Mints -> BOOLEAN \cup {None}]
    BY DEF NetworkInv, NetworkTypeOK
  <2>2. on \in BOOLEAN \cup {None}
    BY <1>1, Zenon
  <2> QED BY <1>1, <2>1, <2>2, Zenon
<1>3. UNCHANGED <<funds, invoices, delivery>> /\ now' = now
  BY DEF PaymentBackend, SetOnline
<1>4. now \in 0..MaxTime
  BY DEF NetworkInv, NetworkTypeOK
<1> QED BY <1>2, <1>3, <1>4, SwitchStep

\* A new invoice is unpaid and changes no other.
LEMMA CreateStep ==
    ASSUME NetworkInv, NEW m \in Mints, NEW amount \in Amounts, NEW t \in 0..now,
           NEW lifetime \in Lifetimes, CreateInvoice(m, amount, t, lifetime)
    PROVE  NetworkInv'
<1> DEFINE new == [recipient |-> m, amount |-> amount, expires_at |-> t + lifetime,
                   paid_by |-> None, fee |-> 0]
<1>1. invoices \in Seq(Invoice) /\ new \in Invoice /\ invoices' = Append(invoices, new)
  BY DEF NetworkInv, NetworkTypeOK, CreateInvoice, Invoice
<1>2. UNCHANGED <<now, online, reserves, externalFunding, feeSink, unsent, stream, learned>>
  BY DEF CreateInvoice, funds, delivery
<1>3. Serials \subseteq Serials' /\ \A i \in Serials : invoices'[i] = invoices[i]
  BY <1>1 DEF Serials
<1>4. NetworkTypeOK'
  BY <1>1, <1>2, <1>3 DEF NetworkInv, NetworkTypeOK, Serials
<1>5. \A x \in Mints : PaidTo(x) \subseteq PaidTo(x)'
  BY <1>3 DEF PaidTo
<1>6. LearnedIsTrue' /\ AnnouncedIsTrue'
  BY <1>2, <1>3, <1>5 DEF NetworkInv, LearnedIsTrue, AnnouncedIsTrue, Paid
<1> QED BY <1>4, <1>6 DEF NetworkInv

\* Marking an invoice paid keeps the others and adds one payment.
LEMMA MarkKeeps ==
    ASSUME NetworkInv, NEW i \in Serials, NEW payer \in Mints \cup {"external"},
           NEW fee \in {0, FeeSat}, MarkPaid(i, payer, fee)
    PROVE  /\ invoices' \in Seq(Invoice) /\ Serials' = Serials
           /\ \A x \in Mints : PaidTo(x) \subseteq PaidTo(x)'
           /\ \A j \in Serials : Paid(j) => Paid(j)'
           /\ Paid(i)'
<1> DEFINE new == [recipient |-> invoices[i].recipient, amount |-> invoices[i].amount,
                   expires_at |-> invoices[i].expires_at, paid_by |-> payer, fee |-> fee]
<1>1. invoices \in Seq(Invoice) /\ invoices[i] \in Invoice
  BY DEF NetworkInv, NetworkTypeOK, Serials
<1>2. new \in Invoice
  BY <1>1 DEF Invoice
<1>3. invoices' = [invoices EXCEPT ![i] = new]
  BY DEF MarkPaid
<1>4. invoices' \in Seq(Invoice) /\ Serials' = Serials
  BY <1>1, <1>2, <1>3 DEF Serials
<1>5. invoices'[i] = new /\ \A j \in Serials : j # i => invoices'[j] = invoices[j]
  BY <1>1, <1>3 DEF Serials
<1>6. new.paid_by # None /\ new.recipient = invoices[i].recipient
  OBVIOUS
<1> QED BY <1>4, <1>5, <1>6 DEF PaidTo, Paid

\* A payment moves reserves within u64 and is to be announced.
LEMMA PaymentStep ==
    ASSUME NetworkInv, NEW i \in Serials, NEW payer \in Mints \cup {"external"},
           NEW fee \in {0, FeeSat}, MarkPaid(i, payer, fee),
           reserves' \in [Mints -> 0..U64Max], externalFunding' \in 0..U64Max,
           feeSink' \in 0..U64Max, unsent' = unsent \cup {i},
           UNCHANGED <<now, online, stream, learned>>
    PROVE  NetworkInv'
<1>1. /\ invoices' \in Seq(Invoice) /\ Serials' = Serials
      /\ \A x \in Mints : PaidTo(x) \subseteq PaidTo(x)'
      /\ \A j \in Serials : Paid(j) => Paid(j)'
      /\ Paid(i)'
  BY MarkKeeps
<1>2. NetworkTypeOK'
  BY <1>1 DEF NetworkInv, NetworkTypeOK
<1>3. LearnedIsTrue'
  BY <1>1 DEF NetworkInv, LearnedIsTrue
<1>4. ASSUME NEW j \in unsent' PROVE Paid(j)'
  BY <1>1 DEF NetworkInv, AnnouncedIsTrue, Paid
<1>5. AnnouncedIsTrue'
  BY <1>1, <1>4 DEF NetworkInv, AnnouncedIsTrue
<1> QED BY <1>2, <1>3, <1>5 DEF NetworkInv

\* The record of an invoice.
LEMMA InvoiceType ==
    ASSUME NetworkInv, NEW i \in Serials
    PROVE  invoices[i].recipient \in Mints /\ invoices[i].amount \in 1..U64Max
<1>1. invoices[i] \in Invoice
  BY DEF NetworkInv, NetworkTypeOK, Serials
<1> QED BY <1>1 DEF Invoice

\* Reserves after a settlement from outside, as one update of the recipient.
LEMMA SettledReserves ==
    ASSUME NetworkInv, NEW i \in Serials, SettleExternal(i)
    PROVE  /\ reserves' \in [Mints -> 0..U64Max]
           /\ \A x \in Mints : reserves'[x] >= reserves[x]
<1> DEFINE to == invoices[i].recipient
           amount == invoices[i].amount
<1>1. to \in Mints /\ amount \in 1..U64Max
  BY InvoiceType
<1>2. /\ reserves[to] + amount <= U64Max
      /\ reserves' = [reserves EXCEPT ![to] = reserves[to] + amount]
  BY DEF SettleExternal
<1>3. reserves \in [Mints -> 0..U64Max]
  BY DEF NetworkInv, NetworkTypeOK
<1> HIDE DEF to, amount
<1> QED BY <1>1, <1>2, <1>3

\* Reserves after a payment inside the network: only the payer's can fall.
LEMMA PaidReserves ==
    ASSUME NetworkInv, NEW m \in Mints, NEW i \in Serials, NEW maxFee \in MaxFees,
           Pay(m, i, maxFee)
    PROVE  /\ reserves' \in [Mints -> 0..U64Max]
           /\ \A x \in Mints \ {m} : reserves'[x] >= reserves[x]
<1> DEFINE to == invoices[i].recipient
           amount == invoices[i].amount
<1>1. to \in Mints /\ amount \in 1..U64Max
  BY InvoiceType
<1>2. /\ amount + FeeSat <= reserves[m]
      /\ m # to => reserves[to] + amount <= U64Max
      /\ reserves' = Moved(m, to, amount)
  BY DEF Pay, HasLiquidity
<1>3. reserves \in [Mints -> 0..U64Max]
  BY DEF NetworkInv, NetworkTypeOK
<1> HIDE DEF to, amount
<1>4. CASE m = to
  <2>1. reserves' = [reserves EXCEPT ![m] = reserves[m] - (amount + FeeSat) + amount]
    BY <1>2, <1>4 DEF Moved
  <2> QED BY <1>1, <1>2, <1>3, <2>1
<1>5. CASE m # to
  <2>1. reserves' = [[reserves EXCEPT ![m] = reserves[m] - (amount + FeeSat)]
                        EXCEPT ![to] = reserves[to] + amount]
    BY <1>2, <1>3, <1>5 DEF Moved
  <2> QED BY <1>1, <1>2, <1>3, <1>5, <2>1
<1> QED BY <1>4, <1>5

\* A payment from outside the network.
LEMMA SettleStep ==
    ASSUME NetworkInv, NEW i \in Serials, SettleExternal(i)
    PROVE  NetworkInv'
<1>1. invoices[i].amount \in 1..U64Max
  BY InvoiceType
<1>2. externalFunding' \in 0..U64Max /\ feeSink' \in 0..U64Max
  BY <1>1 DEF NetworkInv, NetworkTypeOK, SettleExternal
<1> QED BY <1>2, SettledReserves, PaymentStep DEF SettleExternal

\* A payment of one mint to another, or to itself.
LEMMA PayStep ==
    ASSUME NetworkInv, NEW m \in Mints, NEW i \in Serials, NEW maxFee \in MaxFees,
           Pay(m, i, maxFee)
    PROVE  NetworkInv'
<1>1. externalFunding' \in 0..U64Max /\ feeSink' \in 0..U64Max
  BY DEF NetworkInv, NetworkTypeOK, Pay
<1> QED BY <1>1, PaidReserves, PaymentStep DEF Pay

\* A tail holds nothing the queue did not hold.
LEMMA TailElements ==
    ASSUME NEW q \in Seq(Nat), q # <<>>, NEW S, \A n \in 1..Len(q) : q[n] \in S
    PROVE  Tail(q) \in Seq(Nat) /\ \A n \in 1..Len(Tail(q)) : Tail(q)[n] \in S
<1>1. Tail(q) \in Seq(Nat) /\ Len(Tail(q)) = Len(q) - 1
  OBVIOUS
<1>2. \A n \in 1..Len(Tail(q)) : Tail(q)[n] = q[n + 1] /\ n + 1 \in 1..Len(q)
  OBVIOUS
<1> QED BY <1>1, <1>2

\* An announcement goes to the recipient's queue, which may drop its oldest.
LEMMA SendStep ==
    ASSUME NetworkInv, NEW i \in Serials, SendEvent(i)
    PROVE  NetworkInv'
<1>1. UNCHANGED <<now, online, reserves, externalFunding, feeSink, invoices, learned>>
      /\ unsent' = unsent \ {i} /\ i \in unsent
  BY DEF SendEvent, funds
<1>2. Serials' = Serials /\ \A x \in Mints : PaidTo(x)' = PaidTo(x)
  BY <1>1 DEF Serials, PaidTo
<1>3. ASSUME NEW x \in Mints, stream'[x] # None
      PROVE  /\ stream'[x] \in [active : BOOLEAN, queue : Seq(Nat)]
             /\ \A n \in 1..Len(stream'[x].queue) : stream'[x].queue[n] \in PaidTo(x)
  <2>1. stream[x] # None /\ stream[x] \in [active : BOOLEAN, queue : Seq(Nat)]
        /\ \A n \in 1..Len(stream[x].queue) : stream[x].queue[n] \in PaidTo(x)
    BY <1>3 DEF NetworkInv, NetworkTypeOK, AnnouncedIsTrue, SendEvent
  <2>2. CASE x \notin Audience(i)
    BY <2>1, <2>2 DEF SendEvent
  <2>3. CASE x \in Audience(i)
    <3> DEFINE q == stream[x].queue
               longer == Append(q, i)
    <3>1. i \in PaidTo(x) /\ i \in Nat
      BY <1>1, <2>3 DEF NetworkInv, AnnouncedIsTrue, Paid, PaidTo, Audience, Serials
    <3>2. q \in Seq(Nat) /\ longer \in Seq(Nat) /\ Len(longer) = Len(q) + 1
          /\ \A n \in 1..Len(longer) : longer[n] \in PaidTo(x)
      BY <2>1, <3>1
    <3> HIDE DEF longer
    <3>3. Tail(longer) \in Seq(Nat)
          /\ \A n \in 1..Len(Tail(longer)) : Tail(longer)[n] \in PaidTo(x)
      BY <2>1, <3>2, TailElements
    <3>4. Keep(longer) \in Seq(Nat)
          /\ \A n \in 1..Len(Keep(longer)) : Keep(longer)[n] \in PaidTo(x)
      BY <3>2, <3>3 DEF Keep
    <3>5. stream'[x] = [active |-> stream[x].active, queue |-> Keep(longer)]
      BY <2>1, <2>3 DEF SendEvent, longer
    <3> QED BY <2>1, <3>4, <3>5
  <2> QED BY <2>2, <2>3
<1>4. stream' \in [Mints -> [active : BOOLEAN, queue : Seq(Nat)] \cup {None}]
  BY <1>3 DEF SendEvent
<1>5. NetworkTypeOK'
  BY <1>1, <1>2, <1>4 DEF NetworkInv, NetworkTypeOK
<1>6. LearnedIsTrue' /\ AnnouncedIsTrue'
  BY <1>1, <1>2, <1>3 DEF NetworkInv, LearnedIsTrue, AnnouncedIsTrue, Paid
<1> QED BY <1>5, <1>6 DEF NetworkInv

\* A stream is opened, cancelled or ended; nothing is learned.
LEMMA StreamStep ==
    ASSUME NetworkInv, NEW m \in Mints,
           WaitPaymentEvent(m) \/ CancelEventStream(m) \/ EndStream(m)
    PROVE  NetworkInv'
<1>1. UNCHANGED <<now, online, reserves, externalFunding, feeSink, invoices, unsent, learned>>
  BY DEF WaitPaymentEvent, CancelEventStream, EndStream, funds
<1>2. Serials' = Serials /\ \A x \in Mints : PaidTo(x)' = PaidTo(x)
  BY <1>1 DEF Serials, PaidTo
<1>3. PICK s : /\ stream' = [stream EXCEPT ![m] = s]
               /\ s \in [active : BOOLEAN, queue : Seq(Nat)] \cup {None}
               /\ s # None => \A n \in 1..Len(s.queue) : s.queue[n] \in PaidTo(m)
  <2>1. CASE WaitPaymentEvent(m)
    <3> DEFINE s == [active |-> TRUE, queue |-> <<>>]
    <3>1. s \in [active : BOOLEAN, queue : Seq(Nat)] /\ Len(s.queue) = 0
      OBVIOUS
    <3>2. stream' = [stream EXCEPT ![m] = s]
      BY <2>1 DEF WaitPaymentEvent
    <3> HIDE DEF s
    <3>3. \A n \in 1..Len(s.queue) : s.queue[n] \in PaidTo(m)
      BY <3>1
    <3> QED BY <3>1, <3>2, <3>3
  <2>2. CASE CancelEventStream(m)
    <3> DEFINE s == [active |-> FALSE, queue |-> stream[m].queue]
    <3>1. stream[m] \in [active : BOOLEAN, queue : Seq(Nat)] /\ stream[m] # None
      BY <2>2 DEF NetworkInv, NetworkTypeOK, CancelEventStream
    <3>2. s \in [active : BOOLEAN, queue : Seq(Nat)] /\ s.queue = stream[m].queue
      BY <3>1
    <3>3. stream' = [stream EXCEPT ![m] = s]
      BY <2>2 DEF CancelEventStream
    <3> HIDE DEF s
    <3>4. \A n \in 1..Len(s.queue) : s.queue[n] \in PaidTo(m)
      BY <3>1, <3>2 DEF NetworkInv, AnnouncedIsTrue
    <3> QED BY <3>2, <3>3, <3>4
  <2>3. CASE EndStream(m)
    BY <2>3 DEF EndStream
  <2> QED BY <2>1, <2>2, <2>3
<1>4. NetworkTypeOK'
  BY <1>1, <1>2, <1>3 DEF NetworkInv, NetworkTypeOK
<1>5. LearnedIsTrue' /\ AnnouncedIsTrue'
  BY <1>1, <1>2, <1>3 DEF NetworkInv, NetworkTypeOK, LearnedIsTrue, AnnouncedIsTrue, Paid
<1> QED BY <1>4, <1>5 DEF NetworkInv

\* A received event is the head of the queue.
LEMMA ReceiveStep ==
    ASSUME NetworkInv, NEW m \in Mints, ReceiveEvent(m)
    PROVE  NetworkInv'
<1> DEFINE q == stream[m].queue
           head == Head(q)
           rest == Tail(q)
<1>1. UNCHANGED <<now, online, reserves, externalFunding, feeSink, invoices, unsent>>
      /\ learned' = [learned EXCEPT ![m] = learned[m] \cup {head}]
  BY DEF ReceiveEvent, funds
<1>2. Serials' = Serials /\ \A x \in Mints : PaidTo(x)' = PaidTo(x)
  BY <1>1 DEF Serials, PaidTo
<1>3. q \in Seq(Nat) /\ q # <<>> /\ \A n \in 1..Len(q) : q[n] \in PaidTo(m)
  BY DEF NetworkInv, NetworkTypeOK, AnnouncedIsTrue, ReceiveEvent
<1>4. head \in PaidTo(m) /\ head \in Serials
  <2>1. head = q[1] /\ 1 \in 1..Len(q)
    BY <1>3
  <2> QED BY <1>3, <2>1 DEF PaidTo
<1>5. rest \in Seq(Nat) /\ \A n \in 1..Len(rest) : rest[n] \in PaidTo(m)
  BY <1>3, TailElements
<1>6. PICK s : /\ stream' = [stream EXCEPT ![m] = s]
               /\ s \in [active : BOOLEAN, queue : Seq(Nat)] \cup {None}
               /\ s # None => \A n \in 1..Len(s.queue) : s.queue[n] \in PaidTo(m)
  <2> DEFINE open == [active |-> TRUE, queue |-> rest]
  <2>1. stream' = [stream EXCEPT ![m] = IF stream[m].active THEN open ELSE None]
    BY DEF ReceiveEvent
  <2>2. open \in [active : BOOLEAN, queue : Seq(Nat)] /\ open.queue = rest
    BY <1>5
  <2> HIDE DEF open, rest
  <2>3. CASE stream[m].active
    <3>1. stream' = [stream EXCEPT ![m] = open]
      BY <2>1, <2>3, Zenon
    <3> QED BY <1>5, <2>2, <3>1
  <2>4. CASE ~stream[m].active
    <3>1. stream' = [stream EXCEPT ![m] = None]
      BY <2>1, <2>4, Zenon
    <3> QED BY <3>1
  <2> QED BY <2>3, <2>4
<1> HIDE DEF head, rest, q
<1>7. learned \in [Mints -> SUBSET Serials]
      /\ stream \in [Mints -> [active : BOOLEAN, queue : Seq(Nat)] \cup {None}]
  BY DEF NetworkInv, NetworkTypeOK
<1>8. NetworkTypeOK'
  <2>1. learned' \in [Mints -> SUBSET Serials]
    BY <1>1, <1>4, <1>7
  <2>2. stream' \in [Mints -> [active : BOOLEAN, queue : Seq(Nat)] \cup {None}]
    BY <1>6, <1>7
  <2> QED BY <1>1, <1>2, <2>1, <2>2 DEF NetworkInv, NetworkTypeOK
<1>9. LearnedIsTrue'
  BY <1>1, <1>2, <1>4, <1>7 DEF NetworkInv, LearnedIsTrue
<1>10. AnnouncedIsTrue'
  <2>1. ASSUME NEW x \in Mints, stream'[x] # None
        PROVE  \A n \in 1..Len(stream'[x].queue) : stream'[x].queue[n] \in PaidTo(x)
    <3>1. CASE x = m
      BY <1>6, <1>7, <2>1, <3>1
    <3>2. CASE x # m
      <4>1. stream'[x] = stream[x]
        BY <1>6, <1>7, <3>2
      <4> QED BY <2>1, <4>1 DEF NetworkInv, AnnouncedIsTrue
    <3> QED BY <3>1, <3>2
  <2> QED BY <1>1, <1>2, <2>1 DEF NetworkInv, AnnouncedIsTrue, Paid
<1> QED BY <1>8, <1>9, <1>10 DEF NetworkInv

\* A status check learns only what has been paid.
LEMMA CheckStep ==
    ASSUME NetworkInv, NEW m \in Mints, NEW i \in Serials, CheckIncoming(m, i)
    PROVE  NetworkInv'
<1>1. UNCHANGED <<now, online, reserves, externalFunding, feeSink, invoices, unsent, stream>>
      /\ i \in PaidTo(m) /\ learned' = [learned EXCEPT ![m] = learned[m] \cup {i}]
  BY DEF CheckIncoming, funds
<1>2. Serials' = Serials /\ \A x \in Mints : PaidTo(x)' = PaidTo(x)
  BY <1>1 DEF Serials, PaidTo
<1> QED BY <1>1, <1>2 DEF NetworkInv, NetworkTypeOK, LearnedIsTrue, AnnouncedIsTrue, Paid

\* Every step keeps the invariant.
LEMMA NextNetwork == NetworkInv /\ [Next]_vars => NetworkInv'
<1> SUFFICES ASSUME NetworkInv, [Next]_vars PROVE NetworkInv'
  OBVIOUS
<1>1. CASE UNCHANGED vars
  BY <1>1, SwitchStep DEF vars, funds, delivery, NetworkInv, NetworkTypeOK
<1>2. CASE Next
  <2>1. CASE \E m \in Mints : PaymentBackend(m) \/ SetOnline(m)
    BY <2>1, OrchestratorStep
  <2>2. CASE Advance
    <3>1. now' \in 0..MaxTime /\ online' \in [Mints -> BOOLEAN \cup {None}]
      BY <2>2 DEF Advance, NetworkInv, NetworkTypeOK
    <3> QED BY <2>2, <3>1, SwitchStep DEF Advance
  <2>3. CASE \E m \in Mints, amount \in Amounts, t \in 0..now, lifetime \in Lifetimes :
                CreateInvoice(m, amount, t, lifetime)
    BY <2>3, CreateStep
  <2>4. CASE \E m \in Mints, i \in Serials, fee \in MaxFees : Pay(m, i, fee)
    BY <2>4, PayStep
  <2>5. CASE \E m \in Mints : WaitPaymentEvent(m) \/ CancelEventStream(m) \/ EndStream(m)
    BY <2>5, StreamStep
  <2>6. CASE \E m \in Mints : ReceiveEvent(m)
    BY <2>6, ReceiveStep
  <2>7. CASE \E m \in Mints, i \in Serials : CheckIncoming(m, i)
    BY <2>7, CheckStep
  <2>8. CASE \E i \in Serials : SettleExternal(i)
    BY <2>8, SettleStep
  <2>9. CASE \E i \in Serials : SendEvent(i)
    BY <2>9, SendStep
  <2> QED BY <1>2, <2>1, <2>2, <2>3, <2>4, <2>5, <2>6, <2>7, <2>8, <2>9 DEF Next
<1> QED BY <1>1, <1>2

-----------------------------------------------------------------------------

\* The invariant holds in every reachable state.
THEOREM NetworkInvariance == Spec => []NetworkInv
BY InitNetwork, NextNetwork, PTL DEF Spec

\* Reserves, totals and records keep their types; no reserve is overdrawn.
THEOREM NetworkTypeCorrect == Spec => []NetworkTypeOK
<1>1. NetworkInv => NetworkTypeOK
  BY DEF NetworkInv
<1> QED BY <1>1, NetworkInvariance, PTL

\* A mint is told only of payments made to it (wait_payment_event and
\* incoming_status).
THEOREM LearnedTheorem == Spec => []LearnedIsTrue
<1>1. NetworkInv => LearnedIsTrue
  BY DEF NetworkInv
<1> QED BY <1>1, NetworkInvariance, PTL

\* A paid invoice keeps its payer and a closed-loop mint never pays.
THEOREM PaymentFinality == Spec => PaymentsAreFinal
<1> DEFINE Step ==
      /\ \A i \in Serials : invoices[i].paid_by # None => invoices'[i] = invoices[i]
      /\ \A m \in Mints : Mode[m] = "ClosedLoop" => reserves'[m] >= reserves[m]
<1>1. NetworkInv /\ [Next]_vars => Step \/ UNCHANGED vars
  <2> SUFFICES ASSUME NetworkInv, Next PROVE Step
    BY DEF vars
  <2>0. invoices \in Seq(Invoice) /\ reserves \in [Mints -> 0..U64Max]
    BY DEF NetworkInv, NetworkTypeOK
  <2>1. CASE UNCHANGED <<reserves, invoices>>
    BY <2>0, <2>1
  <2>2. CASE \E m \in Mints, amount \in Amounts, t \in 0..now, lifetime \in Lifetimes :
                CreateInvoice(m, amount, t, lifetime)
    BY <2>0, <2>2 DEF CreateInvoice, funds, Serials
  <2>3. ASSUME NEW i \in Serials, SettleExternal(i) PROVE Step
    <3>2. \A x \in Mints : reserves'[x] >= reserves[x]
      BY <2>3, SettledReserves
    <3>3. \A j \in Serials : invoices[j].paid_by # None => invoices'[j] = invoices[j]
      BY <2>0, <2>3 DEF SettleExternal, MarkPaid, Payable, Serials
    <3> QED BY <3>2, <3>3
  <2>4. ASSUME NEW m \in Mints, NEW i \in Serials, NEW fee \in MaxFees, Pay(m, i, fee)
        PROVE  Step
    <3>2. Mode[m] = "Withdrawable"
      BY <2>4 DEF Pay, MayWithdraw
    <3>3. \A x \in Mints \ {m} : reserves'[x] >= reserves[x]
      BY <2>4, PaidReserves
    <3>4. \A j \in Serials : invoices[j].paid_by # None => invoices'[j] = invoices[j]
      BY <2>0, <2>4 DEF Pay, MarkPaid, Payable, Serials
    <3> QED BY <3>2, <3>3, <3>4
  <2> QED BY <2>1, <2>2, <2>3, <2>4 DEF Next, PaymentBackend, SetOnline, WaitPaymentEvent,
        ReceiveEvent, EndStream, CancelEventStream, CheckIncoming, SendEvent, Advance, funds
<1>2. (Step \/ UNCHANGED vars) => [Step]_vars
  OBVIOUS
<1> QED BY <1>1, <1>2, NetworkInvariance, PTL DEF Spec, PaymentsAreFinal

-----------------------------------------------------------------------------
(* The balances.  v and w stand for the invoices before and after a step.   *)

To(v, m) == {i \in 1..Len(v) : v[i].recipient = m /\ v[i].paid_by # None}
By(v, p) == {i \in 1..Len(v) : v[i].paid_by = p}
AmountsIn(v, S) == SumFunctionOnSet([i \in S |-> v[i].amount], S)
SpentIn(v, S) == SumFunctionOnSet([i \in S |-> v[i].amount + v[i].fee], S)
Agree(v, w, S) == \A j \in S : w[j] = v[j]

\* The sums of the properties in these terms.
LEMMA SumsOfInvoices ==
    /\ \A m \in Mints : AmountsOf(PaidTo(m)) = AmountsIn(invoices, To(invoices, m))
    /\ \A p : SpentOn(PaidBy(p)) = SpentIn(invoices, By(invoices, p))
    /\ \A p : AmountsOf(PaidBy(p)) = AmountsIn(invoices, By(invoices, p))
BY DEF AmountsOf, SpentOn, PaidTo, PaidBy, Serials, To, By, AmountsIn, SpentIn

\* Amounts and fees are integers, and there are finitely many invoices.
LEMMA FiniteInvoices ==
    ASSUME NEW v \in Seq(Invoice)
    PROVE  /\ \A i \in 1..Len(v) : v[i].amount \in Nat /\ v[i].fee \in Nat
           /\ \A S \in SUBSET (1..Len(v)) : IsFiniteSet(S)
<1>2. ASSUME NEW i \in 1..Len(v) PROVE v[i].amount \in Nat /\ v[i].fee \in Nat
  <2>1. PICK invoice \in Invoice : invoice = v[i]
    OBVIOUS
  <2>2. invoice.amount \in Nat /\ invoice.fee \in Nat
    BY DEF Invoice
  <2> QED BY <2>1, <2>2
<1>3. Len(v) \in Int /\ 1 \in Int
  OBVIOUS
<1>4. IsFiniteSet(1..Len(v))
  BY <1>3, FS_Interval
<1> QED BY <1>2, <1>4, FS_Subset

\* Sums over invoices that keep their amounts and fees.
LEMMA SameSums ==
    ASSUME NEW v \in Seq(Invoice), NEW w, NEW S \in SUBSET (1..Len(v)),
           Agree(v, w, S)
    PROVE  AmountsIn(w, S) = AmountsIn(v, S) /\ SpentIn(w, S) = SpentIn(v, S)
<1>1. IsFiniteSet(S)
  BY FiniteInvoices
<1>2. [j \in S |-> w[j].amount] = [j \in S |-> v[j].amount]
  BY DEF Agree
<1>3. [j \in S |-> w[j].amount + w[j].fee] = [j \in S |-> v[j].amount + v[j].fee]
  BY DEF Agree
<1>4. AmountsIn(w, S) = AmountsIn(v, S)
  BY <1>2, Zenon DEF AmountsIn
<1>5. SpentIn(w, S) = SpentIn(v, S)
  BY <1>3, Zenon DEF SpentIn
<1> QED BY <1>4, <1>5

\* Sums over one invoice more.
LEMMA MoreSums ==
    ASSUME NEW v \in Seq(Invoice), NEW w, NEW S \in SUBSET (1..Len(v)),
           NEW i \in 1..Len(v), i \notin S,
           Agree(v, w, S), w[i].amount \in Nat, w[i].fee \in Nat
    PROVE  /\ AmountsIn(w, S \cup {i}) = AmountsIn(v, S) + w[i].amount
           /\ SpentIn(w, S \cup {i}) = SpentIn(v, S) + (w[i].amount + w[i].fee)
<1> DEFINE T == S \cup {i}
<1>1. IsFiniteSet(S) /\ \A j \in S : v[j].amount \in Nat /\ v[j].fee \in Nat
  BY FiniteInvoices
<1>2. AmountsIn(w, T) = AmountsIn(v, S) + w[i].amount
  <2> DEFINE f == [j \in S |-> v[j].amount]
             g == [j \in T |-> w[j].amount]
  <2>1. \A j \in S : f[j] \in Int /\ g[j] = f[j]
    BY <1>1 DEF Agree
  <2>2. g[i] = w[i].amount /\ g[i] \in Int
    OBVIOUS
  <2> HIDE DEF f, g
  <2>3. SumFunctionOnSet(g, T) = SumFunctionOnSet(f, S) + g[i]
    BY <1>1, <2>1, <2>2, SumMore
  <2> QED BY <2>2, <2>3 DEF AmountsIn, f, g
<1>3. SpentIn(w, T) = SpentIn(v, S) + (w[i].amount + w[i].fee)
  <2> DEFINE f == [j \in S |-> v[j].amount + v[j].fee]
             g == [j \in T |-> w[j].amount + w[j].fee]
  <2>1. \A j \in S : f[j] \in Int /\ g[j] = f[j]
    BY <1>1 DEF Agree
  <2>2. g[i] = w[i].amount + w[i].fee /\ g[i] \in Int
    OBVIOUS
  <2> HIDE DEF f, g
  <2>3. SumFunctionOnSet(g, T) = SumFunctionOnSet(f, S) + g[i]
    BY <1>1, <2>1, <2>2, SumMore
  <2> QED BY <2>2, <2>3 DEF SpentIn, f, g
<1> QED BY <1>2, <1>3

\* w is v with invoice i paid by p.
Marked(v, w, i, p, fee) ==
    /\ Len(w) = Len(v) /\ \A j \in 1..Len(v) : j # i => w[j] = v[j]
    /\ w[i].recipient = v[i].recipient /\ w[i].amount = v[i].amount
    /\ w[i].paid_by = p /\ w[i].fee = fee

\* The balances of w are those of v and that one payment.
Credited(v, w, i, p, fee) ==
    /\ \A m \in Mints : AmountsIn(w, To(w, m)) = AmountsIn(v, To(v, m))
          + (IF m = v[i].recipient THEN v[i].amount ELSE 0)
    /\ \A q \in Mints \cup {"external"} :
          /\ SpentIn(w, By(w, q)) = SpentIn(v, By(v, q))
               + (IF q = p THEN v[i].amount + fee ELSE 0)
          /\ AmountsIn(w, By(w, q)) = AmountsIn(v, By(v, q))
               + (IF q = p THEN v[i].amount ELSE 0)

\* What marking invoice i paid by p adds to the balances.
LEMMA MarkedSums ==
    ASSUME NEW v \in Seq(Invoice), NEW i \in 1..Len(v), v[i].paid_by = None,
           NEW p \in Mints \cup {"external"}, NEW fee \in {0, FeeSat}, NEW w,
           Marked(v, w, i, p, fee)
    PROVE  Credited(v, w, i, p, fee)
<1>1. /\ Len(w) = Len(v) /\ \A j \in 1..Len(v) : j # i => w[j] = v[j]
      /\ w[i].recipient = v[i].recipient /\ w[i].amount = v[i].amount
      /\ w[i].paid_by = p /\ w[i].fee = fee
  BY DEF Marked
<1>2. p # None /\ None \notin Mints \cup {"external"}
  OBVIOUS
<1>3. w[i].amount \in Nat /\ w[i].fee \in Nat
  BY <1>1, FiniteInvoices
<1>4. ASSUME NEW S \in SUBSET (1..Len(v))
      PROVE  AmountsIn(v, S) \in Int /\ SpentIn(v, S) \in Int
  <2>1. IsFiniteSet(S) /\ \A j \in S : v[j].amount \in Nat /\ v[j].fee \in Nat
    BY FiniteInvoices
  <2>2. /\ \A j \in S : [k \in S |-> v[k].amount][j] \in Int
        /\ \A j \in S : [k \in S |-> v[k].amount + v[k].fee][j] \in Int
    BY <2>1
  <2> QED BY <2>1, <2>2, SumType DEF AmountsIn, SpentIn
<1>5. ASSUME NEW S \in SUBSET (1..Len(v)), i \notin S, Agree(v, w, S)
      PROVE  /\ AmountsIn(w, S \cup {i}) = AmountsIn(v, S) + w[i].amount
             /\ SpentIn(w, S \cup {i}) = SpentIn(v, S) + (w[i].amount + w[i].fee)
  <2>1. v \in Seq(Invoice) /\ i \in 1..Len(v)
    OBVIOUS
  <2> QED BY ONLY <1>3, <1>5, <2>1, S \in SUBSET (1..Len(v)), MoreSums, Zenon
<1>6. ASSUME NEW m \in Mints
      PROVE  AmountsIn(w, To(w, m)) = AmountsIn(v, To(v, m))
                 + (IF m = v[i].recipient THEN v[i].amount ELSE 0)
  <2>1. PICK S, T : S = To(v, m) /\ T = To(w, m)
    OBVIOUS
  <2>2. S \in SUBSET (1..Len(v)) /\ i \notin S
    BY <2>1 DEF To
  <2>3. Agree(v, w, S)
    BY <1>1, <2>2 DEF Agree
  <2>4. CASE m = v[i].recipient
    <3>1. T = S \cup {i}
      BY <1>1, <1>2, <2>1, <2>4 DEF To
    <3>2. AmountsIn(w, S \cup {i}) = AmountsIn(v, S) + w[i].amount
      BY <2>2, <2>3, <1>5
    <3>3. AmountsIn(w, To(w, m)) = AmountsIn(v, To(v, m)) + v[i].amount
      BY <1>1, <2>1, <3>1, <3>2, Zenon
    <3> QED BY <2>4, <3>3
  <2>5. CASE m # v[i].recipient
    <3>1. T = S
      BY <1>1, <2>1, <2>5 DEF To
    <3>2. AmountsIn(w, S) = AmountsIn(v, S) /\ AmountsIn(v, S) \in Int
      BY <1>4, <2>2, <2>3, SameSums
    <3>3. AmountsIn(w, To(w, m)) = AmountsIn(v, To(v, m)) /\ AmountsIn(v, To(v, m)) \in Int
      BY <2>1, <3>1, <3>2, Zenon
    <3> QED BY <2>5, <3>3
  <2> QED BY <2>4, <2>5
<1>7. ASSUME NEW q \in Mints \cup {"external"}
      PROVE  /\ SpentIn(w, By(w, q)) = SpentIn(v, By(v, q))
                  + (IF q = p THEN v[i].amount + fee ELSE 0)
             /\ AmountsIn(w, By(w, q)) = AmountsIn(v, By(v, q))
                  + (IF q = p THEN v[i].amount ELSE 0)
  <2>1. PICK S, T : S = By(v, q) /\ T = By(w, q)
    OBVIOUS
  <2>2. S \in SUBSET (1..Len(v)) /\ i \notin S
    BY <1>2, <2>1 DEF By
  <2>3. Agree(v, w, S)
    BY <1>1, <2>2 DEF Agree
  <2>4. CASE q = p
    <3>1. T = S \cup {i}
      BY <1>1, <2>1, <2>4 DEF By
    <3>2. /\ AmountsIn(w, S \cup {i}) = AmountsIn(v, S) + w[i].amount
          /\ SpentIn(w, S \cup {i}) = SpentIn(v, S) + (w[i].amount + w[i].fee)
      BY <2>2, <2>3, <1>5
    <3>3. /\ AmountsIn(w, By(w, q)) = AmountsIn(v, By(v, q)) + v[i].amount
          /\ SpentIn(w, By(w, q)) = SpentIn(v, By(v, q)) + (v[i].amount + fee)
      BY <1>1, <2>1, <3>1, <3>2, Zenon
    <3> QED BY <2>4, <3>3
  <2>5. CASE q # p
    <3>1. T = S
      BY <1>1, <2>1, <2>5 DEF By
    <3>2. /\ AmountsIn(w, S) = AmountsIn(v, S) /\ AmountsIn(v, S) \in Int
          /\ SpentIn(w, S) = SpentIn(v, S) /\ SpentIn(v, S) \in Int
      BY <1>4, <2>2, <2>3, SameSums
    <3>3. /\ AmountsIn(w, By(w, q)) = AmountsIn(v, By(v, q)) /\ AmountsIn(v, By(v, q)) \in Int
          /\ SpentIn(w, By(w, q)) = SpentIn(v, By(v, q)) /\ SpentIn(v, By(v, q)) \in Int
      BY <2>1, <3>1, <3>2, Zenon
    <3> QED BY <2>5, <3>3
  <2> QED BY <2>4, <2>5
<1> QED BY <1>6, <1>7 DEF Credited

Balanced == ReservesMatchInvoices /\ NetworkConserved

\* Balanced, in terms of the invoices alone.
LEMMA BalancedIs ==
    Balanced <=>
        /\ \A m \in Mints : reserves[m] = AmountsIn(invoices, To(invoices, m))
                                            - SpentIn(invoices, By(invoices, m))
        /\ SumFunctionOnSet(reserves, Mints) + feeSink = externalFunding
        /\ externalFunding = AmountsIn(invoices, By(invoices, "external"))
BY SumsOfInvoices DEF Balanced, ReservesMatchInvoices, NetworkConserved

\* The same, of the state after a step.
LEMMA BalancedAfter ==
    Balanced' <=>
        /\ \A m \in Mints : reserves'[m] = AmountsIn(invoices', To(invoices', m))
                                             - SpentIn(invoices', By(invoices', m))
        /\ SumFunctionOnSet(reserves', Mints) + feeSink' = externalFunding'
        /\ externalFunding' = AmountsIn(invoices', By(invoices', "external"))
BY DEF Balanced, ReservesMatchInvoices, NetworkConserved, AmountsOf, SpentOn, PaidTo, PaidBy,
   Serials, To, By, AmountsIn, SpentIn

\* Nothing is paid and no mint has reserves at first.
LEMMA InitBalanced == Init => Balanced
<1> SUFFICES ASSUME Init PROVE Balanced
  OBVIOUS
<1>1. \A p : To(invoices, p) = {} /\ By(invoices, p) = {}
  BY DEF Init, To, By
<1>2. AmountsIn(invoices, {}) = 0 /\ SpentIn(invoices, {}) = 0
  BY FS_EmptySet, SumZero DEF AmountsIn, SpentIn
<1>3. SumFunctionOnSet(reserves, Mints) = 0
  BY SumZero DEF Init
<1>4. \A p : /\ AmountsIn(invoices, To(invoices, p)) = 0
             /\ SpentIn(invoices, By(invoices, p)) = 0
             /\ AmountsIn(invoices, By(invoices, p)) = 0
  BY <1>1, <1>2, Zenon
<1> QED BY <1>3, <1>4, BalancedIs DEF Init

\* A new invoice is unpaid and belongs to no sum.
LEMMA CreateBalanced ==
    ASSUME NetworkInv, Balanced, NEW m \in Mints, NEW amount \in Amounts,
           NEW t \in 0..now, NEW lifetime \in Lifetimes,
           CreateInvoice(m, amount, t, lifetime)
    PROVE  Balanced'
<1>1. PICK new : /\ invoices' = Append(invoices, new)
                 /\ new.paid_by = None
  BY DEF CreateInvoice
<1>2. PICK v, w : v = invoices /\ w = invoices'
  OBVIOUS
<1>3. v \in Seq(Invoice)
  BY <1>2 DEF NetworkInv, NetworkTypeOK
<1>4. /\ Len(w) = Len(v) + 1 /\ w[Len(v) + 1].paid_by = None
      /\ \A j \in 1..Len(v) : w[j] = v[j]
  BY <1>1, <1>2, <1>3
<1>5. \A p \in Mints \cup {"external"} : To(w, p) = To(v, p) /\ By(w, p) = By(v, p)
  <2>1. None \notin Mints \cup {"external"}
    OBVIOUS
  <2> QED BY <1>3, <1>4, <2>1 DEF To, By
<1>6. ASSUME NEW S \in SUBSET (1..Len(v))
      PROVE  AmountsIn(w, S) = AmountsIn(v, S) /\ SpentIn(w, S) = SpentIn(v, S)
  <2>1. Agree(v, w, S)
    BY <1>4 DEF Agree
  <2> QED BY <1>3, <2>1, SameSums
<1>7. \A p : To(v, p) \in SUBSET (1..Len(v)) /\ By(v, p) \in SUBSET (1..Len(v))
  BY DEF To, By
<1>8. \A p \in Mints \cup {"external"} :
         /\ AmountsIn(w, To(w, p)) = AmountsIn(v, To(v, p))
         /\ SpentIn(w, By(w, p)) = SpentIn(v, By(v, p))
         /\ AmountsIn(w, By(w, p)) = AmountsIn(v, By(v, p))
  BY <1>5, <1>6, <1>7, Zenon
<1>9. UNCHANGED <<reserves, externalFunding, feeSink>>
  BY DEF CreateInvoice, funds
<1>10. /\ \A x \in Mints : reserves'[x] = AmountsIn(w, To(w, x)) - SpentIn(w, By(w, x))
       /\ externalFunding' = AmountsIn(w, By(w, "external"))
  BY <1>2, <1>8, <1>9, BalancedIs
<1>11. SumFunctionOnSet(reserves', Mints) + feeSink' = externalFunding'
  BY <1>9, BalancedIs
<1> QED BY <1>2, <1>10, <1>11, BalancedAfter

\* MarkPaid in terms of v and w.
LEMMA MarkedSumsOfInvoices ==
    ASSUME NetworkInv, NEW i \in Serials, NEW p \in Mints \cup {"external"},
           NEW fee \in {0, FeeSat}, invoices[i].paid_by = None, MarkPaid(i, p, fee)
    PROVE  Credited(invoices, invoices', i, p, fee)
<1>1. PICK v, w : v = invoices /\ w = invoices'
  OBVIOUS
<1>2. v \in Seq(Invoice) /\ i \in 1..Len(v) /\ v[i].paid_by = None
  BY <1>1 DEF NetworkInv, NetworkTypeOK, Serials
<1>3. w = [v EXCEPT ![i] = [recipient |-> v[i].recipient, amount |-> v[i].amount,
               expires_at |-> v[i].expires_at, paid_by |-> p, fee |-> fee]]
  BY <1>1 DEF MarkPaid
<1>4. Marked(v, w, i, p, fee)
  BY <1>2, <1>3 DEF Marked
<1>5. Credited(v, w, i, p, fee)
  BY ONLY <1>2, <1>4, p \in Mints \cup {"external"}, fee \in {0, FeeSat}, MarkedSums, Zenon
<1> QED BY <1>1, <1>5, Zenon

\* The sums of the invoices are integers.
LEMMA BalancesType ==
    ASSUME NetworkInv, NEW p
    PROVE  /\ AmountsIn(invoices, To(invoices, p)) \in Int
           /\ SpentIn(invoices, By(invoices, p)) \in Int
           /\ AmountsIn(invoices, By(invoices, p)) \in Int
<1>1. PICK v \in Seq(Invoice) : v = invoices
  BY DEF NetworkInv, NetworkTypeOK
<1>2. ASSUME NEW S \in SUBSET (1..Len(v))
      PROVE  AmountsIn(v, S) \in Int /\ SpentIn(v, S) \in Int
  <2>1. IsFiniteSet(S) /\ \A j \in S : v[j].amount \in Nat /\ v[j].fee \in Nat
    BY FiniteInvoices
  <2>2. /\ \A j \in S : [k \in S |-> v[k].amount][j] \in Int
        /\ \A j \in S : [k \in S |-> v[k].amount + v[k].fee][j] \in Int
    BY <2>1
  <2> QED BY <2>1, <2>2, SumType DEF AmountsIn, SpentIn
<1>3. To(v, p) \in SUBSET (1..Len(v)) /\ By(v, p) \in SUBSET (1..Len(v))
  BY DEF To, By
<1> QED BY <1>1, <1>2, <1>3, Zenon

\* A settlement from outside adds the amount to the recipient's reserves and to
\* the external funding.
LEMMA SettleBalanced ==
    ASSUME NetworkInv, Balanced, NEW i \in Serials, SettleExternal(i)
    PROVE  Balanced'
<1>1. PICK to \in Mints, amount \in Nat :
         to = invoices[i].recipient /\ amount = invoices[i].amount
  BY InvoiceType
<1>2. /\ reserves' = [reserves EXCEPT ![to] = reserves[to] + amount]
      /\ externalFunding' = externalFunding + amount /\ feeSink' = feeSink
  BY <1>1 DEF SettleExternal
<1>3. reserves \in [Mints -> Nat] /\ feeSink \in Nat /\ externalFunding \in Nat
  BY DEF NetworkInv, NetworkTypeOK
<1>4. /\ \A m \in Mints :
            AmountsIn(invoices', To(invoices', m)) = AmountsIn(invoices, To(invoices, m))
              + (IF m = to THEN amount ELSE 0)
      /\ \A q \in Mints \cup {"external"} :
            /\ SpentIn(invoices', By(invoices', q)) = SpentIn(invoices, By(invoices, q))
                 + (IF q = "external" THEN amount + 0 ELSE 0)
            /\ AmountsIn(invoices', By(invoices', q)) = AmountsIn(invoices, By(invoices, q))
                 + (IF q = "external" THEN amount ELSE 0)
  <2>1. invoices[i].paid_by = None /\ MarkPaid(i, "external", 0)
    BY DEF SettleExternal, Payable
  <2> QED BY <1>1, <2>1, MarkedSumsOfInvoices DEF Credited
<1>5. SumFunctionOnSet(reserves', Mints) = SumFunctionOnSet(reserves, Mints) + amount
  <2>1. PICK f, g : f = reserves /\ g = reserves'
    OBVIOUS
  <2>2. /\ \A x \in Mints : f[x] \in Int /\ g[x] \in Int
        /\ \A x \in Mints : x # to => f[x] = g[x]
        /\ g[to] = f[to] + amount
    BY <1>2, <1>3, <2>1
  <2>3. SumFunctionOnSet(g, Mints) = SumFunctionOnSet(f, Mints) - f[to] + g[to]
    BY <2>2, SumChange
  <2>4. SumFunctionOnSet(f, Mints) \in Int
    BY <2>2, SumType
  <2> QED BY <2>1, <2>2, <2>3, <2>4
<1>6. SumFunctionOnSet(reserves, Mints) \in Int
  BY <1>3, SumType
<1>7. ASSUME NEW m \in Mints
      PROVE  reserves'[m] = AmountsIn(invoices', To(invoices', m))
                              - SpentIn(invoices', By(invoices', m))
  <2>1. PICK a \in Int, b \in Int : /\ a = AmountsIn(invoices, To(invoices, m))
                                    /\ b = SpentIn(invoices, By(invoices, m))
    BY BalancesType
  <2>2. reserves[m] = a - b
    BY <2>1, BalancedIs
  <2>3. /\ AmountsIn(invoices', To(invoices', m)) = a + (IF m = to THEN amount ELSE 0)
        /\ SpentIn(invoices', By(invoices', m)) = b + 0
    BY <1>4, <2>1
  <2>4. reserves'[m] = IF m = to THEN reserves[m] + amount ELSE reserves[m]
    BY <1>2, <1>3
  <2> QED BY <1>3, <2>2, <2>3, <2>4
<1>8. externalFunding' = AmountsIn(invoices', By(invoices', "external"))
  BY <1>2, <1>4, BalancedIs
<1>9. SumFunctionOnSet(reserves', Mints) + feeSink' = externalFunding'
  BY <1>2, <1>3, <1>5, <1>6, BalancedIs
<1> QED BY <1>7, <1>8, <1>9, BalancedAfter

\* What a payment inside the network does to the reserves, seen by one mint.
LEMMA MovedReserves ==
    ASSUME NetworkInv, NEW m \in Mints, NEW to \in Mints, NEW amount \in Nat,
           reserves' = Moved(m, to, amount)
    PROVE  /\ \A x \in Mints : reserves'[x] = reserves[x]
                 + (IF x = to THEN amount ELSE 0) - (IF x = m THEN amount + FeeSat ELSE 0)
           /\ SumFunctionOnSet(reserves', Mints) = SumFunctionOnSet(reserves, Mints) - FeeSat
<1>1. reserves \in [Mints -> Nat]
  BY DEF NetworkInv, NetworkTypeOK
<1>2. \A x \in Mints : reserves'[x] = reserves[x]
         + (IF x = to THEN amount ELSE 0) - (IF x = m THEN amount + FeeSat ELSE 0)
  BY <1>1 DEF Moved
<1>3. PICK f, h : f = reserves /\ h = reserves'
  OBVIOUS
<1> DEFINE g == [x \in Mints |-> IF x = m THEN f[x] - (amount + FeeSat) ELSE f[x]]
<1>4. \A x \in Mints : f[x] \in Int /\ h[x] \in Int /\ g[x] \in Int
  BY <1>1, <1>2, <1>3
<1>5. /\ \A x \in Mints : x # m => f[x] = g[x]
      /\ g[m] = f[m] - (amount + FeeSat)
      /\ \A x \in Mints : x # to => g[x] = h[x]
      /\ h[to] = g[to] + amount
  BY <1>1, <1>2, <1>3
<1> HIDE DEF g
<1>6. SumFunctionOnSet(g, Mints) = SumFunctionOnSet(f, Mints) - f[m] + g[m]
  BY <1>4, <1>5, SumChange
<1>7. SumFunctionOnSet(h, Mints) = SumFunctionOnSet(g, Mints) - g[to] + h[to]
  BY <1>4, <1>5, SumChange
<1>8. SumFunctionOnSet(f, Mints) \in Int /\ SumFunctionOnSet(g, Mints) \in Int
  BY <1>4, SumType
<1>9. SumFunctionOnSet(h, Mints) = SumFunctionOnSet(f, Mints) - FeeSat
  BY <1>4, <1>5, <1>6, <1>7, <1>8
<1> QED BY <1>2, <1>3, <1>9

\* A payment moves the amount and pays the fee into the sink.
LEMMA PayBalanced ==
    ASSUME NetworkInv, Balanced, NEW p \in Mints, NEW i \in Serials, NEW maxFee \in MaxFees,
           Pay(p, i, maxFee)
    PROVE  Balanced'
<1>1. PICK to \in Mints, amount \in Nat :
         to = invoices[i].recipient /\ amount = invoices[i].amount
  BY InvoiceType
<1>2. /\ reserves' = Moved(p, to, amount)
      /\ externalFunding' = externalFunding /\ feeSink' = feeSink + FeeSat
  BY <1>1 DEF Pay
<1>3. reserves \in [Mints -> Nat] /\ feeSink \in Nat /\ externalFunding \in Nat
  BY DEF NetworkInv, NetworkTypeOK
<1>4. /\ \A m \in Mints :
            AmountsIn(invoices', To(invoices', m)) = AmountsIn(invoices, To(invoices, m))
              + (IF m = to THEN amount ELSE 0)
      /\ \A q \in Mints \cup {"external"} :
            /\ SpentIn(invoices', By(invoices', q)) = SpentIn(invoices, By(invoices, q))
                 + (IF q = p THEN amount + FeeSat ELSE 0)
            /\ AmountsIn(invoices', By(invoices', q)) = AmountsIn(invoices, By(invoices, q))
                 + (IF q = p THEN amount ELSE 0)
  <2>1. invoices[i].paid_by = None /\ MarkPaid(i, p, FeeSat)
    BY DEF Pay, Payable
  <2> QED BY <1>1, <2>1, MarkedSumsOfInvoices DEF Credited
<1>5. /\ \A x \in Mints : reserves'[x] = reserves[x]
            + (IF x = to THEN amount ELSE 0) - (IF x = p THEN amount + FeeSat ELSE 0)
      /\ SumFunctionOnSet(reserves', Mints) = SumFunctionOnSet(reserves, Mints) - FeeSat
  BY <1>2, MovedReserves
<1>6. SumFunctionOnSet(reserves, Mints) \in Int
  BY <1>3, SumType
<1>7. ASSUME NEW m \in Mints
      PROVE  reserves'[m] = AmountsIn(invoices', To(invoices', m))
                              - SpentIn(invoices', By(invoices', m))
  <2>1. PICK a \in Int, b \in Int : /\ a = AmountsIn(invoices, To(invoices, m))
                                    /\ b = SpentIn(invoices, By(invoices, m))
    BY BalancesType
  <2>2. reserves[m] = a - b
    BY <2>1, BalancedIs
  <2>3. /\ AmountsIn(invoices', To(invoices', m)) = a + (IF m = to THEN amount ELSE 0)
        /\ SpentIn(invoices', By(invoices', m)) = b + (IF m = p THEN amount + FeeSat ELSE 0)
    BY <1>4, <2>1
  <2>4. PICK c \in Nat, d \in Nat : /\ c = IF m = to THEN amount ELSE 0
                                    /\ d = IF m = p THEN amount + FeeSat ELSE 0
    OBVIOUS
  <2>5. reserves'[m] = reserves[m] + c - d
    BY <1>5, <2>4
  <2>6. /\ AmountsIn(invoices', To(invoices', m)) = a + c
        /\ SpentIn(invoices', By(invoices', m)) = b + d
    BY <2>3, <2>4
  <2> QED BY <2>2, <2>5, <2>6
<1>8. externalFunding' = AmountsIn(invoices', By(invoices', "external"))
  <2>1. "external" # p /\ AmountsIn(invoices, By(invoices, "external")) \in Int
    BY BalancesType
  <2>2. AmountsIn(invoices', By(invoices', "external"))
           = AmountsIn(invoices, By(invoices, "external")) + 0
    BY <1>4, <2>1
  <2> QED BY <1>2, <2>1, <2>2, BalancedIs
<1>9. SumFunctionOnSet(reserves', Mints) + feeSink' = externalFunding'
  BY <1>2, <1>3, <1>5, <1>6, BalancedIs
<1> QED BY <1>7, <1>8, <1>9, BalancedAfter

\* No other operation touches reserves, totals or invoices.
LEMMA NextBalanced == NetworkInv /\ Balanced /\ [Next]_vars => Balanced'
<1> SUFFICES ASSUME NetworkInv, Balanced, [Next]_vars PROVE Balanced'
  OBVIOUS
<1>1. CASE UNCHANGED <<reserves, externalFunding, feeSink, invoices>>
  BY <1>1, BalancedIs, BalancedAfter
<1>2. CASE \E m \in Mints, amount \in Amounts, t \in 0..now, lifetime \in Lifetimes :
              CreateInvoice(m, amount, t, lifetime)
  BY <1>2, CreateBalanced
<1>3. CASE \E m \in Mints, i \in Serials, fee \in MaxFees : Pay(m, i, fee)
  BY <1>3, PayBalanced
<1>4. CASE \E i \in Serials : SettleExternal(i)
  BY <1>4, SettleBalanced
<1> QED BY <1>1, <1>2, <1>3, <1>4 DEF Next, vars, PaymentBackend, SetOnline, Advance,
      WaitPaymentEvent, ReceiveEvent, EndStream, CancelEventStream, CheckIncoming, SendEvent,
      funds

\* Every mint holds what was paid to it less what its payments and their fees
\* cost it, for any number of mints and invoices (settle_external and pay).
THEOREM ReservesTheorem == Spec => []ReservesMatchInvoices
<1>1. Balanced => ReservesMatchInvoices
  BY DEF Balanced
<1> QED BY <1>1, InitBalanced, NextBalanced, NetworkInvariance, PTL DEF Spec

\* The reserves and the collected fees add up to what the orchestrator brought
\* in, and that to the invoices it paid (is_conserved).
THEOREM NetworkConservation == Spec => []NetworkConserved
<1>1. Balanced => NetworkConserved
  BY DEF Balanced
<1> QED BY <1>1, InitBalanced, NextBalanced, NetworkInvariance, PTL DEF Spec
=============================================================================
