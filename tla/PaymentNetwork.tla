--------------------------- MODULE PaymentNetwork ---------------------------
(***************************************************************************)
(* The isolated payment network that mints of a simulation settle over     *)
(* (crates/cashu-service, simulation/network.rs and clock.rs).  All its    *)
(* state is behind one mutex, so an operation is one action, except that   *)
(* create_invoice reads the clock before it takes the mutex and that a     *)
(* payment announces itself to its recipient after it has released it.     *)
(*                                                                         *)
(* An invoice is known by its serial number (its payment hash is derived   *)
(* from it; a creation refused for its size only skips a number).  Units   *)
(* other than sat, amountless invoices and invoices of other networks are  *)
(* refused without effect and left out, and so are the operations that     *)
(* only read (quote, outgoing_status, accounting).                         *)
(***************************************************************************)
EXTENDS Integers, Sequences, FiniteSets, Functions

CONSTANTS
    Mints,
    Mode,           \* the issuer mode each mint registers with
    FeeSat,         \* the fee of every payment inside the network
    Amounts,        \* invoice amounts, zero included
    Lifetimes,      \* requested lifetimes of invoices
    MaxFees,        \* fee limits of payers; one of FeeSat or more stands for none
    EventCapacity,  \* EVENT_CAPACITY of a mint's event channel
    U64Max, MaxInvoices, MaxTime, None

ASSUME NetworkAssumption ==
    /\ IsFiniteSet(Mints) /\ Mode \in [Mints -> {"ClosedLoop", "Withdrawable"}]
    /\ U64Max \in Nat /\ FeeSat \in 0..U64Max /\ Amounts \subseteq 0..U64Max
    /\ Lifetimes \subseteq Nat /\ MaxFees \subseteq Nat
    /\ EventCapacity \in Nat \ {0}
    /\ MaxInvoices \in Nat /\ MaxTime \in Nat
    /\ None \notin Mints /\ "external" \notin Mints /\ None # "external"

VARIABLES
    now,              \* VirtualClock
    online,           \* None before the mint is registered
    reserves,         \* Lightning-side sats of each mint
    externalFunding,  \* value the orchestrator brought in
    feeSink,
    invoices,         \* the invoices in the order of their serials
    unsent,           \* payments done whose announcement is not sent yet
    stream,           \* the event stream of each mint, None when it has none
    learned           \* invoices each mint knows to be paid

funds == <<reserves, externalFunding, feeSink>>
delivery == <<unsent, stream, learned>>
vars == <<now, online, reserves, externalFunding, feeSink, invoices, unsent, stream, learned>>

Serials == 1..Len(invoices)
Registered(m) == online[m] # None

Init ==
    /\ now = 0
    /\ online = [m \in Mints |-> None]
    /\ reserves = [m \in Mints |-> 0]
    /\ externalFunding = 0
    /\ feeSink = 0
    /\ invoices = <<>>
    /\ unsent = {}
    /\ stream = [m \in Mints |-> None]
    /\ learned = [m \in Mints |-> {}]

-----------------------------------------------------------------------------
(* The orchestrator's operations.                                           *)

\* A second registration with the same mode changes nothing.
PaymentBackend(m) ==
    /\ ~Registered(m)
    /\ online' = [online EXCEPT ![m] = TRUE]
    /\ UNCHANGED <<now, funds, invoices, delivery>>

SetOnline(m) ==
    /\ Registered(m)
    /\ online' = [online EXCEPT ![m] = ~@]
    /\ UNCHANGED <<now, funds, invoices, delivery>>

\* VirtualClock::advance and set: time never goes back.
Advance ==
    /\ now < MaxTime
    /\ now' = now + 1
    /\ UNCHANGED <<online, funds, invoices, delivery>>

\* ensure_invoice_payable.
PayableAgain(i) == now < invoices[i].expires_at
Payable(i) == invoices[i].paid_by = None /\ now < invoices[i].expires_at

MarkPaid(i, payer, fee) ==
    invoices' = [invoices EXCEPT ![i] =
        [recipient |-> @.recipient, amount |-> @.amount, expires_at |-> @.expires_at,
         paid_by |-> payer, fee |-> fee]]

SettleExternal(i) ==
    LET to == invoices[i].recipient
        amount == invoices[i].amount IN
    /\ Payable(i)
    /\ online[to]
    /\ reserves[to] + amount <= U64Max
    /\ externalFunding + amount <= U64Max
    /\ MarkPaid(i, "external", 0)
    /\ reserves' = [reserves EXCEPT ![to] = @ + amount]
    /\ externalFunding' = externalFunding + amount
    /\ unsent' = unsent \cup {i}
    /\ UNCHANGED <<now, online, feeSink, stream, learned>>

-----------------------------------------------------------------------------
(* The operations of a mint's backend (SimMintPayment).                     *)

\* The clock was read at some time t before the mutex was taken.
CreateInvoice(m, amount, t, lifetime) ==
    /\ Registered(m)
    /\ Len(invoices) < MaxInvoices
    /\ amount > 0 /\ amount * 1000 <= U64Max
    /\ lifetime > 0                     \* expires_at > t
    /\ invoices' = Append(invoices,
           [recipient |-> m, amount |-> amount, expires_at |-> t + lifetime,
            paid_by |-> None, fee |-> 0])
    /\ UNCHANGED <<now, online, funds, delivery>>

\* ensure_withdrawable.
MayWithdraw(m) == Mode[m] = "Withdrawable"

UncheckedLiquidity(m, amount) == TRUE
HasLiquidity(m, amount) == amount + FeeSat <= reserves[m]

\* The reserves after a payment; a mint may pay its own invoice.
DebitOnly(m, to, amount) == [reserves EXCEPT ![m] = @ - (amount + FeeSat)]
StaleSelfCredit(m, to, amount) ==
    [[reserves EXCEPT ![m] = @ - (amount + FeeSat)] EXCEPT ![to] = reserves[to] + amount]
Moved(m, to, amount) ==
    IF m = to THEN [reserves EXCEPT ![m] = @ - (amount + FeeSat) + amount]
              ELSE [reserves EXCEPT ![m] = @ - (amount + FeeSat), ![to] = @ + amount]

\* pay makes every check of quote again.
Pay(m, i, maxFee) ==
    LET to == invoices[i].recipient
        amount == invoices[i].amount IN
    /\ Registered(m) /\ MayWithdraw(m)
    /\ FeeSat <= maxFee
    /\ amount + FeeSat <= U64Max
    /\ online[m]
    /\ Payable(i)
    /\ online[to]
    /\ HasLiquidity(m, amount)
    /\ m # to => reserves[to] + amount <= U64Max
    /\ feeSink + FeeSat <= U64Max
    /\ MarkPaid(i, m, FeeSat)
    /\ reserves' = Moved(m, to, amount)
    /\ feeSink' = feeSink + FeeSat
    /\ unsent' = unsent \cup {i}
    /\ UNCHANGED <<now, online, externalFunding, stream, learned>>

\* A broadcast channel keeps the last EventCapacity events for a receiver; a
\* receiver that is slower finds the oldest gone (Lagged) and goes on.
Keep(queue) == IF Len(queue) > EventCapacity THEN Tail(queue) ELSE queue

\* The announcement; without a stream nobody hears it.
AnnounceToAll(i) == Mints
Audience(i) == {invoices[i].recipient}
SendEvent(i) ==
    /\ i \in unsent
    /\ unsent' = unsent \ {i}
    /\ stream' = [m \in Mints |->
           IF m \in Audience(i) /\ stream[m] # None
           THEN [active |-> stream[m].active, queue |-> Keep(Append(stream[m].queue, i))]
           ELSE stream[m]]
    /\ UNCHANGED <<now, online, funds, invoices, learned>>

\* wait_payment_event: a new receiver hears what is sent from now on.
WaitPaymentEvent(m) ==
    /\ Registered(m)
    /\ stream' = [stream EXCEPT ![m] = [active |-> TRUE, queue |-> <<>>]]
    /\ UNCHANGED <<now, online, funds, invoices, unsent, learned>>

\* The stream is polled.  A poll that already waited when the stream was
\* cancelled still hands out one event.
ReceiveEvent(m) ==
    /\ stream[m] # None /\ stream[m].queue # <<>>
    /\ learned' = [learned EXCEPT ![m] = @ \cup {Head(stream[m].queue)}]
    /\ stream' = [stream EXCEPT ![m] =
           IF @.active THEN [active |-> TRUE, queue |-> Tail(@.queue)] ELSE None]
    /\ UNCHANGED <<now, online, funds, invoices, unsent>>

\* A poll that finds the stream cancelled ends it; queued events are lost.
EndStream(m) ==
    /\ stream[m] # None /\ ~stream[m].active
    /\ stream' = [stream EXCEPT ![m] = None]
    /\ UNCHANGED <<now, online, funds, invoices, unsent, learned>>

CancelEventStream(m) ==
    /\ stream[m] # None /\ stream[m].active
    /\ stream' = [stream EXCEPT ![m] = [active |-> FALSE, queue |-> @.queue]]
    /\ UNCHANGED <<now, online, funds, invoices, unsent, learned>>

\* check_incoming_payment_status (incoming_status).
PaidTo(m) == {i \in Serials : invoices[i].recipient = m /\ invoices[i].paid_by # None}

CheckIncoming(m, i) ==
    /\ i \in PaidTo(m) \ learned[m]
    /\ learned' = [learned EXCEPT ![m] = @ \cup {i}]
    /\ UNCHANGED <<now, online, funds, invoices, unsent, stream>>

Next ==
    \/ \E m \in Mints :
          \/ PaymentBackend(m)
          \/ SetOnline(m)
          \/ \E amount \in Amounts, t \in 0..now, lifetime \in Lifetimes :
                CreateInvoice(m, amount, t, lifetime)
          \/ \E i \in Serials, fee \in MaxFees : Pay(m, i, fee)
          \/ WaitPaymentEvent(m)
          \/ ReceiveEvent(m)
          \/ EndStream(m)
          \/ CancelEventStream(m)
          \/ \E i \in Serials : CheckIncoming(m, i)
    \/ \E i \in Serials : SettleExternal(i) \/ SendEvent(i)
    \/ Advance

Spec == Init /\ [][Next]_vars

-----------------------------------------------------------------------------
(* Properties.                                                              *)

Invoice ==
    [recipient : Mints, amount : 1..U64Max, expires_at : Nat,
     paid_by : Mints \cup {"external", None}, fee : {0, FeeSat}]

\* Shapes, and that no reserve leaves the range of u64.
NetworkTypeOK ==
    /\ now \in 0..MaxTime
    /\ online \in [Mints -> BOOLEAN \cup {None}]
    /\ reserves \in [Mints -> 0..U64Max]
    /\ externalFunding \in 0..U64Max /\ feeSink \in 0..U64Max
    /\ invoices \in Seq(Invoice)
    /\ unsent \subseteq Serials
    /\ stream \in [Mints -> [active : BOOLEAN, queue : Seq(Nat)] \cup {None}]
    /\ learned \in [Mints -> SUBSET Serials]

AmountsOf(S) == SumFunctionOnSet([i \in S |-> invoices[i].amount], S)
SpentOn(S) == SumFunctionOnSet([i \in S |-> invoices[i].amount + invoices[i].fee], S)
PaidBy(payer) == {i \in Serials : invoices[i].paid_by = payer}

\* The reserves are explained by the invoices: a mint holds what was paid to it
\* less what the invoices it paid cost it.
ReservesMatchInvoices ==
    \A m \in Mints : reserves[m] = AmountsOf(PaidTo(m)) - SpentOn(PaidBy(m))

\* is_conserved: value enters through the orchestrator only and leaves nowhere.
NetworkConserved ==
    /\ SumFunctionOnSet(reserves, Mints) + feeSink = externalFunding
    /\ externalFunding = AmountsOf(PaidBy("external"))

\* What a mint was told, by event or by status, is true: nobody else's payment
\* and no unpaid invoice is ever reported to it.
LearnedIsTrue == \A m \in Mints : learned[m] \subseteq PaidTo(m)

\* A payment is final and value leaves no closed-loop mint.
PaymentsAreFinal ==
    [][/\ \A i \in Serials :
             invoices[i].paid_by # None => invoices'[i] = invoices[i]
       /\ \A m \in Mints :
             Mode[m] = "ClosedLoop" => reserves'[m] >= reserves[m]]_vars
=============================================================================
