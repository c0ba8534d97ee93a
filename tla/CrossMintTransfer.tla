------------------------- MODULE CrossMintTransfer -------------------------
(***************************************************************************)
(* The transfer of sat value between two mints that settles an external    *)
(* authorization: the settlement adapter (credit_settlement.rs) and the    *)
(* durable saga it drives (wallet/cross_mint/mod.rs), with the two mints   *)
(* and the wallet library they use.                                        *)
(*                                                                         *)
(* The operation lock of the wallet service admits one call at a time.  A  *)
(* call is a sequence of awaits; between any two of them it may return an  *)
(* error or the process may die (Interrupt), and what it held in memory is *)
(* lost.  Durable are the sagas and, inside the wallet library, the quotes *)
(* and the transactions.  Amounts are in sat.                              *)
(***************************************************************************)
EXTENDS Integers, FiniteSets

CONSTANTS
    Authorizations,   \* ExternalSettlementAuthorization values callers bring
    Route,            \* the CashuIssuerRoute the application approved
    TransferIds, Blank, None,
    MeltQuotes,       \* numbers the source mint gives to melt quotes
    MintQuotes,       \* numbers the destination mint gives to mint quotes
    QuotedAmounts,    \* amounts a mint may put into a quote
    FeeReserves,      \* fee reserves the source mint may ask
    WalletFees,       \* input and swap fees of a prepared payment
    Overcharge,       \* what the source mint may charge over the reserve
    MaxTime, MaxInterrupts

VARIABLES
    sagas,       \* CashuCrossMintTransferSaga of each transfer id
    call,        \* the running call, or None
    melt,        \* source wallet: its melt quotes
    tx,          \* source wallet: fee of the outgoing transaction of a quote
    sourceMint,  \* source mint: state of each melt quote and the fee it took
    mint,        \* destination wallet: its mint quotes
    invoice,     \* destination mint: state of each mint quote
    now,
    interrupts

wallet == <<sagas, melt, tx, mint>>
mints == <<sourceMint, invoice>>
vars == <<sagas, call, melt, tx, sourceMint, mint, invoice, now, interrupts>>

-----------------------------------------------------------------------------
(* Requests and sagas.                                                      *)

\* bind_cashu_settlement: an authorization bound to one exact transfer.
Bindable(a) ==
    /\ Route.issuer = a.issuer
    /\ a.settlement_id # Blank /\ a.issuer # Blank /\ a.counterparty # Blank
    /\ a.amount > 0
    /\ a.reserved = a.amount + a.max_fee
    /\ a.authorized_at < a.expires_at
    /\ Route.source # a.payout_destination      \* two different mints

Bind(a) ==
    [transfer_id |-> a.settlement_id, source |-> Route.source,
     destination |-> a.payout_destination, amount |-> a.amount, max_fee |-> a.max_fee]

Requests == {Bind(a) : a \in {b \in Authorizations : Bindable(b)}}

-----------------------------------------------------------------------------
(* What the wallet keeps.                                                   *)

Fee == Nat \cup {None}
SagaType ==
    [request : Requests, mint_quote : MintQuotes \cup {None},
     melt_quote : MeltQuotes \cup {None}, reserve : Fee, wallet_fee : Fee,
     fee_paid : Fee, result : Fee]
CallType ==
    [request : Requests, started : Nat, deadline : Nat, allow_new : BOOLEAN,
     failed : SUBSET MeltQuotes,
     pc : {"recover", "load", "save", "mintQuote", "meltQuote", "check", "prepare",
           "confirm", "send", "wait", "paid", "issue", "receive", "finish", "return"},
     next : {"recover", "load", "mintQuote", "meltQuote", "check", "prepare", "confirm",
             "send", "wait", "paid", "issue", "receive", "finish", "return"},
     saga : SagaType \cup {None}]
MeltQuoteType ==
    [invoice : MintQuotes, amount : Nat, reserve : Nat, input_fee : Nat,
     state : {"Unpaid", "Pending", "Paid"}]
MintQuoteType ==
    [amount : Nat, state : {"Unpaid", "Paid", "Issued"}, held : BOOLEAN]

\* Amounts, fees and times are unsigned; an absent value is no value.
ASSUME TransferAssumption ==
    /\ \A a \in Authorizations :
         /\ a.settlement_id \in TransferIds
         /\ a.amount \in Nat /\ a.max_fee \in Nat /\ a.expires_at \in Nat
    /\ QuotedAmounts \subseteq Nat /\ FeeReserves \subseteq Nat /\ WalletFees \subseteq Nat
    /\ Overcharge \in Nat /\ MaxTime \in Nat /\ MaxInterrupts \in Nat
    /\ None \notin MeltQuotes \cup MintQuotes \cup Nat
    /\ None \notin SagaType \cup CallType \cup MeltQuoteType \cup MintQuoteType

Saga(request, mint_quote, melt_quote, reserve, wallet_fee, fee_paid, result) ==
    [request |-> request, mint_quote |-> mint_quote, melt_quote |-> melt_quote,
     reserve |-> reserve, wallet_fee |-> wallet_fee, fee_paid |-> fee_paid,
     result |-> result]

NewSaga(r) == Saga(r, None, None, None, None, None, None)
MintQuoteForgotten(s, q) == s
WithMintQuote(s, q) ==
    Saga(s.request, q, s.melt_quote, s.reserve, s.wallet_fee, s.fee_paid, s.result)
WithMeltQuote(s, q, reserve) ==
    Saga(s.request, s.mint_quote, q, reserve, s.wallet_fee, s.fee_paid, s.result)
WithWalletFee(s, fee) ==
    Saga(s.request, s.mint_quote, s.melt_quote, s.reserve, fee, s.fee_paid, s.result)
WithFeePaid(s, fee) ==
    Saga(s.request, s.mint_quote, s.melt_quote, s.reserve, s.wallet_fee, fee, s.result)
WithResult(s) ==
    Saga(s.request, s.mint_quote, s.melt_quote, s.reserve, s.wallet_fee, s.fee_paid,
         s.fee_paid)

\* The wallet library's view of its quotes.
MeltQuote(mint_quote, amount, reserve, input_fee, state) ==
    [invoice |-> mint_quote, amount |-> amount, reserve |-> reserve,
     input_fee |-> input_fee, state |-> state]
InState(m, state) == MeltQuote(m.invoice, m.amount, m.reserve, m.input_fee, state)
MintQuote(amount, state, held) == [amount |-> amount, state |-> state, held |-> held]

Init ==
    /\ sagas = [id \in TransferIds |-> None]
    /\ call = None
    /\ melt = [q \in MeltQuotes |-> None]
    /\ tx = [q \in MeltQuotes |-> None]
    /\ sourceMint = [q \in MeltQuotes |-> [state |-> "Unpaid", fee |-> 0]]
    /\ mint = [q \in MintQuotes |-> None]
    /\ invoice = [q \in MintQuotes |-> "Unpaid"]
    /\ now = 0
    /\ interrupts = 0

-----------------------------------------------------------------------------
(* The steps of a call.  "pc" names the await it is at; "started" and       *)
(* "deadline" are kept for the properties only.                             *)

At(pc) == call # None /\ call.pc = pc

With(pc, next, saga) ==
    [request |-> call.request, started |-> call.started, deadline |-> call.deadline,
     allow_new |-> call.allow_new, failed |-> call.failed,
     pc |-> pc, next |-> next, saga |-> saga]
Goto(pc) == call' = With(pc, pc, call.saga)
SaveThen(saga, next) == call' = With("save", next, saga)
Bail == call' = None

\* execute_cashu_settlement: after the deadline only a durable saga is resumed.
AlwaysNew(a) == TRUE
AllowNew(a) == ~(a.expires_at <= now)

Execute(a) ==
    /\ call = None
    /\ Bindable(a)
    /\ call' = [request |-> Bind(a), started |-> now, deadline |-> a.expires_at,
                allow_new |-> AllowNew(a), failed |-> {},
                pc |-> "recover", next |-> "recover", saga |-> None]
    /\ UNCHANGED <<wallet, mints, now, interrupts>>

\* finalize_pending_melts and recover_incomplete_sagas of both wallets.  A
\* payment the mint has decided is finalized; a failed one may be reported.
\* An issue the destination mint has answered is completed.
NothingDecided == {}
Decided == {q \in MeltQuotes :
              melt[q] # None /\ melt[q].state = "Pending" /\ sourceMint[q].state # "Pending"}

SkipIssued == {}
Unreceived == {q \in MintQuotes : mint[q] # None /\ invoice[q] = "Issued" /\ ~mint[q].held}

Recover ==
    /\ At("recover")
    /\ melt' = [q \in MeltQuotes |->
                  IF q \in Decided THEN InState(melt[q], sourceMint[q].state) ELSE melt[q]]
    /\ tx' = [q \in MeltQuotes |->
                IF q \in Decided /\ sourceMint[q].state = "Paid" THEN sourceMint[q].fee
                                                                 ELSE tx[q]]
    /\ mint' = [q \in MintQuotes |->
                  IF q \in Unreceived THEN MintQuote(mint[q].amount, "Issued", TRUE)
                                      ELSE mint[q]]
    /\ \E reported \in SUBSET {q \in Decided : sourceMint[q].state = "Unpaid"} :
         call' = [request |-> call.request, started |-> call.started,
                  deadline |-> call.deadline, allow_new |-> call.allow_new,
                  failed |-> reported, pc |-> "load", next |-> "load", saga |-> None]
    /\ UNCHANGED <<sagas, mints, now, interrupts>>

\* Load the saga of the transfer id, or start one.
LoadSaga ==
    /\ At("load")
    /\ LET s == sagas[call.request.transfer_id] IN
         \/ /\ s # None /\ (s.request # call.request \/ s.result # None)
            /\ Bail                    \* another request; or the stored result
         \/ /\ s # None /\ s.request = call.request /\ s.result = None
            /\ call' = With("mintQuote", "mintQuote", s)
         \/ /\ s = None /\ ~call.allow_new
            /\ Bail
         \/ /\ s = None /\ call.allow_new
            /\ SaveThen(NewSaga(call.request), "mintQuote")
    /\ UNCHANGED <<wallet, mints, now, interrupts>>

\* save_cross_mint_transfer_saga: the whole record is written.
SaveSaga ==
    /\ At("save")
    /\ sagas' = [sagas EXCEPT ![call.request.transfer_id] = call.saga]
    /\ Goto(call.next)
    /\ UNCHANGED <<melt, tx, mint, mints, now, interrupts>>

\* Quote ids are compared for equality only; a mint gives them out in order.
Fresh(q, quotes) == quotes[q] = None /\ \A p \in DOMAIN quotes : p < q => quotes[p] # None

\* The destination quote; a wrong amount is refused and nothing is saved.
ForgetfulMintQuote == TRUE
NeedsMintQuote == call.saga.mint_quote = None
Exact(amount) == amount = call.request.amount

RequestMintQuote ==
    /\ At("mintQuote") /\ NeedsMintQuote
    /\ \E q \in MintQuotes, amount \in QuotedAmounts :
         /\ Fresh(q, mint) /\ Exact(amount)
         /\ mint' = [mint EXCEPT ![q] = MintQuote(amount, "Unpaid", FALSE)]
         /\ SaveThen(WithMintQuote(call.saga, q), "meltQuote")
    /\ UNCHANGED <<sagas, melt, tx, mints, now, interrupts>>

HaveMintQuote ==
    /\ At("mintQuote") /\ ~NeedsMintQuote
    /\ Exact(mint[call.saga.mint_quote].amount)     \* the stored invoice again
    /\ Goto("meltQuote")
    /\ UNCHANGED <<wallet, mints, now, interrupts>>

\* The source quote; the reserve must be within the caller's maximum.
ForgetfulMeltQuote == TRUE
NeedsMeltQuote == call.saga.melt_quote = None

RequestMeltQuote ==
    /\ At("meltQuote") /\ NeedsMeltQuote
    /\ \E q \in MeltQuotes, amount \in QuotedAmounts, reserve \in FeeReserves :
         /\ Fresh(q, melt) /\ Exact(amount) /\ reserve <= call.request.max_fee
         /\ melt' = [melt EXCEPT ![q] =
                       MeltQuote(call.saga.mint_quote, amount, reserve, 0, "Unpaid")]
         /\ SaveThen(WithMeltQuote(call.saga, q, reserve), "check")
    /\ UNCHANGED <<sagas, tx, mint, mints, now, interrupts>>

HaveMeltQuote ==
    /\ At("meltQuote") /\ ~NeedsMeltQuote
    /\ Goto("check")
    /\ UNCHANGED <<wallet, mints, now, interrupts>>

\* A quote with another amount, or with too large a reserve, is refused.
QuoteRefused ==
    /\ \/ At("mintQuote") /\ NeedsMintQuote /\ \E amount \in QuotedAmounts : ~Exact(amount)
       \/ /\ At("meltQuote") /\ NeedsMeltQuote
          /\ \E amount \in QuotedAmounts, reserve \in FeeReserves :
                ~Exact(amount) \/ reserve > call.request.max_fee
    /\ Bail
    /\ UNCHANGED <<wallet, mints, now, interrupts>>

\* The stored melt quote, and whether it has been paid already.
MatchesSaga(m) ==
    /\ m.invoice = call.saga.mint_quote
    /\ m.amount = call.request.amount
    /\ m.reserve = call.saga.reserve

MayStart == call.allow_new

CheckPayment ==
    /\ At("check")
    /\ LET q == call.saga.melt_quote
           m == melt[q]
           decided == tx[q] # None \/ (q \notin call.failed /\ m.state = "Paid")
           startable == q \notin call.failed /\ m.state = "Unpaid" /\ MayStart IN
         \/ MatchesSaga(m) /\ decided /\ Goto("paid")
         \/ MatchesSaga(m) /\ ~decided /\ startable /\ Goto("prepare")
         \/ (MatchesSaga(m) => ~decided /\ ~startable) /\ Bail
    /\ UNCHANGED <<wallet, mints, now, interrupts>>

\* prepare_melt and the preflight of all fees; over the limit it is cancelled.
WithinLimit(fee) == call.saga.reserve + fee <= call.request.max_fee

PreparePayment ==
    /\ At("prepare")
    /\ \E fee \in WalletFees :
         \/ /\ WithinLimit(fee)
            /\ melt' = [melt EXCEPT ![call.saga.melt_quote] =
                          MeltQuote(@.invoice, @.amount, @.reserve, fee, @.state)]
            /\ SaveThen(WithWalletFee(call.saga, fee), "confirm")
         \/ ~WithinLimit(fee) /\ Bail /\ UNCHANGED melt
    /\ UNCHANGED <<sagas, tx, mint, mints, now, interrupts>>

\* confirm: the library marks the quote pending, then the mint has the request.
ConfirmPayment ==
    /\ At("confirm")
    /\ melt' = [melt EXCEPT ![call.saga.melt_quote] = InState(@, "Pending")]
    /\ Goto("send")
    /\ UNCHANGED <<sagas, tx, mint, mints, now, interrupts>>

SendPayment ==
    /\ At("send")
    /\ sourceMint[call.saga.melt_quote].state = "Unpaid"
    /\ sourceMint' = [sourceMint EXCEPT ![call.saga.melt_quote] =
                        [state |-> "Pending", fee |-> 0]]
    /\ Goto("wait")
    /\ UNCHANGED <<wallet, invoice, now, interrupts>>

\* The mint's answer: paid; failed or still pending, which the call reports.
PaymentAnswered ==
    /\ At("wait")
    /\ LET q == call.saga.melt_quote
           m == sourceMint[q] IN
         /\ melt' = [melt EXCEPT ![q] = InState(@, m.state)]
         /\ \/ /\ m.state = "Paid"
               /\ tx' = [tx EXCEPT ![q] = m.fee]
               /\ SaveThen(WithFeePaid(call.saga, m.fee), "paid")
            \/ /\ m.state # "Paid"
               /\ UNCHANGED tx
               /\ Bail
    /\ UNCHANGED <<sagas, mint, mints, now, interrupts>>

\* The fee comes from the durable transaction, which must exist.
RecordPayment ==
    /\ At("paid")
    /\ LET fee == tx[call.saga.melt_quote] IN
         call' = IF fee # None THEN With("save", "issue", WithFeePaid(call.saga, fee))
                               ELSE None
    /\ UNCHANGED <<wallet, mints, now, interrupts>>

\* check_mint_quote_status refreshes the local quote; a paid one is issued.
Refreshed(q) == [mint EXCEPT ![q] = MintQuote(@.amount, invoice[q], @.held)]

IssueDestination ==
    /\ At("issue")
    /\ LET q == call.saga.mint_quote IN
         /\ mint' = Refreshed(q)
         /\ \/ /\ invoice[q] = "Paid"
               /\ invoice' = [invoice EXCEPT ![q] = "Issued"]
               /\ Goto("receive")
            \/ invoice[q] = "Issued" /\ Goto("finish") /\ UNCHANGED invoice
            \/ invoice[q] = "Unpaid" /\ Bail /\ UNCHANGED invoice
    /\ UNCHANGED <<sagas, melt, tx, sourceMint, now, interrupts>>

ReceiveProofs ==
    /\ At("receive")
    /\ mint' = [mint EXCEPT ![call.saga.mint_quote] = MintQuote(@.amount, "Issued", TRUE)]
    /\ Goto("finish")
    /\ UNCHANGED <<sagas, melt, tx, mints, now, interrupts>>

\* The issued quote must be exact and the fee within the maximum.
FeeAccepted == call.saga.fee_paid <= call.request.max_fee

Finish ==
    /\ At("finish")
    /\ LET issued == mint[call.saga.mint_quote]
           ok == Exact(issued.amount) /\ issued.state = "Issued" /\ FeeAccepted IN
         \/ ok /\ SaveThen(WithResult(call.saga), "return")
         \/ ~ok /\ Bail
    /\ UNCHANGED <<wallet, mints, now, interrupts>>

Return ==
    /\ At("return")
    /\ Bail
    /\ UNCHANGED <<wallet, mints, now, interrupts>>

\* An await fails, or the process dies.
Interrupt ==
    /\ call # None /\ interrupts < MaxInterrupts
    /\ Bail
    /\ interrupts' = interrupts + 1
    /\ UNCHANGED <<wallet, mints, now>>

Step ==
    \/ Recover \/ LoadSaga \/ SaveSaga
    \/ RequestMintQuote \/ HaveMintQuote \/ RequestMeltQuote \/ HaveMeltQuote
    \/ QuoteRefused
    \/ CheckPayment \/ PreparePayment \/ ConfirmPayment \/ SendPayment
    \/ PaymentAnswered \/ RecordPayment
    \/ IssueDestination \/ ReceiveProofs \/ Finish \/ Return

-----------------------------------------------------------------------------
(* The mints and the clock.                                                 *)

SourcePays(q) ==
    /\ sourceMint[q].state = "Pending"
    /\ \E fee \in 0..(melt[q].reserve + melt[q].input_fee + Overcharge) :
         sourceMint' = [sourceMint EXCEPT ![q] = [state |-> "Paid", fee |-> fee]]
    /\ UNCHANGED <<wallet, call, invoice, now, interrupts>>

SourceFails(q) ==
    /\ sourceMint[q].state = "Pending"
    /\ sourceMint' = [sourceMint EXCEPT ![q] = [state |-> "Unpaid", fee |-> 0]]
    /\ UNCHANGED <<wallet, call, invoice, now, interrupts>>

\* The destination mint learns of the payment of its invoice.
InvoicePaid(q) ==
    /\ invoice[q] = "Unpaid"
    /\ \E m \in MeltQuotes :
         melt[m] # None /\ melt[m].invoice = q /\ sourceMint[m].state = "Paid"
    /\ invoice' = [invoice EXCEPT ![q] = "Paid"]
    /\ UNCHANGED <<wallet, call, sourceMint, now, interrupts>>

Tick ==
    /\ now < MaxTime
    /\ now' = now + 1
    /\ UNCHANGED <<wallet, call, mints, interrupts>>

Next ==
    \/ \E a \in Authorizations : Execute(a)
    \/ Step
    \/ Interrupt
    \/ \E q \in MeltQuotes : SourcePays(q) \/ SourceFails(q)
    \/ \E q \in MintQuotes : InvoicePaid(q)
    \/ Tick

Spec == Init /\ [][Next]_vars

\* A call that is not interrupted goes on.  The caller retries an authorization
\* until it has the result, and the operation lock, which is first come first
\* served, lets it in between other callers.  A pending payment is decided and
\* a paid invoice noticed.
Fairness ==
    /\ WF_vars(Step)
    /\ \A a \in Authorizations : SF_vars(Execute(a))
    /\ \A q \in MeltQuotes : WF_vars(SourcePays(q) \/ SourceFails(q))
    /\ \A q \in MintQuotes : WF_vars(InvoicePaid(q))

FairSpec == Spec /\ Fairness

-----------------------------------------------------------------------------
(* Properties.                                                              *)

\* The shape of the durable state, and that a saga is filled in order: a melt
\* quote after the mint quote it pays, a fee after the melt quote.
TransferTypeOK ==
    /\ sagas \in [TransferIds -> SagaType \cup {None}]
    /\ \A id \in TransferIds : sagas[id] # None =>
          /\ sagas[id].request.transfer_id = id
          /\ sagas[id].melt_quote # None => sagas[id].mint_quote # None
          /\ sagas[id].fee_paid # None => sagas[id].wallet_fee # None
    /\ call \in CallType \cup {None}
    /\ melt \in [MeltQuotes -> MeltQuoteType \cup {None}]
    /\ tx \in [MeltQuotes -> Fee]
    /\ sourceMint \in [MeltQuotes -> [state : {"Unpaid", "Pending", "Paid"}, fee : Nat]]
    /\ mint \in [MintQuotes -> MintQuoteType \cup {None}]
    /\ invoice \in [MintQuotes -> {"Unpaid", "Paid", "Issued"}]
    /\ now \in Nat /\ interrupts \in Nat

\* Money leaves the source wallet only through the melt quote that a durable
\* saga names, for the exact amount and with all preflighted fees within the
\* caller's maximum.  A saga names one quote, so a transfer id pays once,
\* wherever calls were interrupted.
PaymentsJournaled ==
    \A q \in MeltQuotes :
        sourceMint[q].state # "Unpaid" =>
            \E id \in TransferIds :
                /\ sagas[id] # None
                /\ sagas[id].melt_quote = q
                /\ melt[q].invoice = sagas[id].mint_quote
                /\ mint[sagas[id].mint_quote].amount = sagas[id].request.amount
                /\ sagas[id].reserve + sagas[id].wallet_fee <= sagas[id].request.max_fee

\* A stored result is the truth: the source mint took the reported fee, within
\* the maximum, and the destination wallet holds proofs of the exact amount.
ResultIsDelivered ==
    \A id \in TransferIds :
        sagas[id] # None /\ sagas[id].result # None =>
            LET s == sagas[id] IN
            /\ sourceMint[s.melt_quote] = [state |-> "Paid", fee |-> s.result]
            /\ s.result <= s.request.max_fee
            /\ mint[s.mint_quote].held
            /\ mint[s.mint_quote].amount = s.request.amount

Keeps(old, new) == old # None => new = old

\* The request, the quotes and the result of a saga are never replaced.
SagaIsFinal ==
    [][\A id \in TransferIds : sagas[id] # None =>
          /\ sagas'[id] # None
          /\ sagas'[id].request = sagas[id].request
          /\ Keeps(sagas[id].mint_quote, sagas'[id].mint_quote)
          /\ Keeps(sagas[id].melt_quote, sagas'[id].melt_quote)
          /\ Keeps(sagas[id].result, sagas'[id].result)]_vars

StartsPayment(q) == sourceMint[q].state = "Unpaid" /\ sourceMint'[q].state = "Pending"

\* A call that began after the deadline of its authorization may finish what
\* was paid before but never starts a payment.
LateCallsNeverPay ==
    [][\A q \in MeltQuotes : StartsPayment(q) => call.started < call.deadline]_vars

\* "An expired authorization cannot start a payment."
ExpiredNeverPays ==
    [][\A q \in MeltQuotes : StartsPayment(q) => now < call.deadline]_vars

\* Once the source mint has been paid within the maximum fee, the caller who
\* retries obtains the result, after any number of interrupted calls, after the
\* deadline too, and although others retry the id with another request.
PaidIsDelivered ==
    \A id \in TransferIds :
        (/\ sagas[id] # None /\ sagas[id].melt_quote # None
         /\ sourceMint[sagas[id].melt_quote].state = "Paid"
         /\ sourceMint[sagas[id].melt_quote].fee <= sagas[id].request.max_fee)
            ~> (sagas[id] # None /\ sagas[id].result # None)
=============================================================================
