---------------------- MODULE CrossMintTransferProofs -----------------------
(***************************************************************************)
(* A transfer pays through its journaled melt quote only, within its       *)
(* maximum fee, and reports a result only when the value has arrived, for  *)
(* any number of transfers, quotes, interruptions and fees.                *)
(***************************************************************************)
EXTENDS CrossMintTransfer, TLAPS

\* What a saga, in memory or on disk, says of the quotes it names.
SagaOK(s, me, mi, sm) ==
    /\ s.mint_quote # None =>
          mi[s.mint_quote] # None /\ mi[s.mint_quote].amount = s.request.amount
    /\ s.melt_quote # None =>
          /\ s.mint_quote # None /\ s.reserve # None
          /\ me[s.melt_quote] # None /\ me[s.melt_quote].invoice = s.mint_quote
    /\ s.wallet_fee # None =>
          s.melt_quote # None /\ s.reserve + s.wallet_fee <= s.request.max_fee
    /\ s.fee_paid # None =>
          s.wallet_fee # None /\ sm[s.melt_quote] = [state |-> "Paid", fee |-> s.fee_paid]
    /\ s.result # None =>
          s.fee_paid = s.result /\ s.result <= s.request.max_fee /\ mi[s.mint_quote].held

SagasOK ==
    \A id \in TransferIds : sagas[id] # None =>
        sagas[id].request.transfer_id = id /\ SagaOK(sagas[id], melt, mint, sourceMint)

\* A melt quote belongs to one transfer.
OneOwner ==
    \A i, j \in TransferIds :
        sagas[i] # None /\ sagas[j] # None /\ sagas[i].melt_quote # None
        /\ sagas[i].melt_quote = sagas[j].melt_quote => i = j

\* A payment that was sent is journaled.
Journal ==
    \A q \in MeltQuotes : sourceMint[q].state # "Unpaid" =>
        \E id \in TransferIds :
            sagas[id] # None /\ sagas[id].melt_quote = q /\ sagas[id].wallet_fee # None

\* What the wallet library knows is true.
LibraryOK ==
    /\ \A q \in MeltQuotes :
          /\ tx[q] # None => sourceMint[q] = [state |-> "Paid", fee |-> tx[q]]
          /\ melt[q] # None => mint[melt[q].invoice] # None
    /\ \A q \in MintQuotes :
          /\ invoice[q] # "Unpaid" => mint[q] # None
          /\ mint[q] # None /\ mint[q].state = "Issued" => invoice[q] = "Issued"

\* A call has received all that was issued, unless it still has to recover.
Received ==
    call # None /\ call.pc # "recover" =>
        \A q \in MintQuotes : mint[q] # None /\ invoice[q] = "Issued" =>
            mint[q].held \/ (call.pc = "receive" /\ q = call.saga.mint_quote)

\* Where a call will be once its saga is saved, and what it then has.
Towards(c) == IF c.pc = "save" THEN c.next ELSE c.pc
Holding(c, s) ==
    /\ Towards(c) \in {"meltQuote", "check", "prepare", "confirm", "send", "wait", "paid",
                       "issue", "receive", "finish", "return"} => s.mint_quote # None
    /\ Towards(c) \in {"check", "prepare", "confirm", "send", "wait", "paid"} =>
          s.melt_quote # None
    /\ Towards(c) \in {"confirm", "send", "wait"} => s.wallet_fee # None
    /\ Towards(c) \in {"prepare", "confirm", "send", "wait"} => c.allow_new
    /\ Towards(c) \in {"issue", "receive", "finish", "return"} => s.fee_paid # None
    /\ Towards(c) # "return" => s.result = None

\* The saga in memory carries on the one on disk.
CarriesOn(s, d) ==
    /\ d.request = s.request /\ d.result = None
    /\ Keeps(d.mint_quote, s.mint_quote)
    /\ Keeps(d.melt_quote, s.melt_quote)
    /\ d.wallet_fee # None => s.wallet_fee # None

CallOK ==
    call # None =>
        /\ call.allow_new => call.started < call.deadline
        /\ call.pc \notin {"recover", "load"} =>
              /\ call.saga # None /\ call.saga.request = call.request
              /\ SagaOK(call.saga, melt, mint, sourceMint)
              /\ Holding(call, call.saga)
        /\ call.pc \notin {"recover", "load", "save"} =>
              sagas[call.request.transfer_id] = call.saga
        /\ call.pc = "save" =>
              /\ call.next # "receive"
              /\ sagas[call.request.transfer_id] # None =>
                    CarriesOn(call.saga, sagas[call.request.transfer_id])
              /\ call.saga.melt_quote # None =>
                    \A id \in TransferIds :
                        sagas[id] # None /\ sagas[id].melt_quote = call.saga.melt_quote
                            => id = call.request.transfer_id
        /\ call.pc = "receive" => invoice[call.saga.mint_quote] = "Issued"

TransferInv ==
    /\ TransferTypeOK
    /\ SagasOK /\ OneOwner /\ Journal /\ LibraryOK /\ Received /\ CallOK

USE TransferAssumption

-----------------------------------------------------------------------------
(* Facts about the records.                                                 *)

\* A bound request names a transfer id and unsigned amounts.
LEMMA RequestType ==
    ASSUME NEW r \in Requests
    PROVE  r.transfer_id \in TransferIds /\ r.amount \in Nat /\ r.max_fee \in Nat
BY DEF Requests, Bind

\* Nothing is journaled at first.
LEMMA InitTransfer == Init => TransferInv
BY DEF Init, TransferInv, TransferTypeOK, SagasOK, OneOwner, Journal, LibraryOK, Received,
   CallOK, Fee

\* A step of the call alone.
LEMMA CallStep ==
    ASSUME TransferInv, UNCHANGED <<wallet, mints>>, now' \in Nat, interrupts' \in Nat,
           call' \in CallType \cup {None}, CallOK', Received'
    PROVE  TransferInv'
<1>1. UNCHANGED <<sagas, melt, tx, mint, sourceMint, invoice>>
  BY DEF wallet, mints
<1>2. TransferTypeOK'
  BY <1>1 DEF TransferInv, TransferTypeOK
<1>3. SagasOK' /\ OneOwner' /\ Journal' /\ LibraryOK'
  BY <1>1 DEF TransferInv, SagasOK, OneOwner, Journal, LibraryOK
<1> QED BY <1>2, <1>3 DEF TransferInv

\* A call that ends holds nothing.
LEMMA BailStep ==
    ASSUME TransferInv, UNCHANGED <<wallet, mints>>, now' \in Nat, interrupts' \in Nat, Bail
    PROVE  TransferInv'
<1>1. CallOK' /\ Received' /\ call' = None
  BY DEF Bail, CallOK, Received
<1> QED BY <1>1, CallStep

\* The fields of a saga, and of its successors.
LEMMA SagaFields ==
    ASSUME NEW s \in SagaType
    PROVE  /\ s # None
           /\ s.request \in Requests /\ s.mint_quote \in MintQuotes \cup {None}
           /\ s.melt_quote \in MeltQuotes \cup {None}
           /\ s.reserve \in Fee /\ s.wallet_fee \in Fee
           /\ s.fee_paid \in Fee /\ s.result \in Fee
           /\ \A q \in MintQuotes : WithMintQuote(s, q) \in SagaType
           /\ \A q \in MeltQuotes, fee \in Nat : WithMeltQuote(s, q, fee) \in SagaType
           /\ \A fee \in Nat : WithWalletFee(s, fee) \in SagaType
           /\ \A fee \in Nat : WithFeePaid(s, fee) \in SagaType
           /\ WithResult(s) \in SagaType
BY DEF SagaType, Saga, Fee, WithMintQuote, WithMeltQuote, WithWalletFee, WithFeePaid, WithResult

\* The types of a running call.
LEMMA CallFields ==
    ASSUME TransferInv, call # None
    PROVE  /\ call.request \in Requests /\ call.request.transfer_id \in TransferIds
           /\ call.started \in Nat /\ call.deadline \in Nat /\ call.allow_new \in BOOLEAN
           /\ call.failed \in SUBSET MeltQuotes
           /\ call.saga \in SagaType \cup {None}
           /\ call.pc \notin {"recover", "load"} => call.saga \in SagaType
<1>1. call \in CallType
  BY DEF TransferInv, TransferTypeOK
<1>2. call.request \in Requests /\ call.saga \in SagaType \cup {None}
      /\ call.started \in Nat /\ call.deadline \in Nat /\ call.allow_new \in BOOLEAN
      /\ call.failed \in SUBSET MeltQuotes
  BY <1>1 DEF CallType
<1>3. call.request.transfer_id \in TransferIds
  BY <1>2, RequestType
<1>4. call.pc \notin {"recover", "load"} => call.saga # None
  BY DEF TransferInv, CallOK
<1> QED BY <1>2, <1>3, <1>4

Control == {"recover", "load", "mintQuote", "meltQuote", "check", "prepare", "confirm",
            "send", "wait", "paid", "issue", "receive", "finish", "return"}

LEMMA WithType ==
    ASSUME TransferInv, call # None, NEW pc \in Control \cup {"save"}, NEW next \in Control,
           NEW s \in SagaType \cup {None}
    PROVE  With(pc, next, s) \in CallType
<1>1. /\ call.request \in Requests
      /\ call.started \in Nat /\ call.deadline \in Nat /\ call.allow_new \in BOOLEAN
      /\ call.failed \in SUBSET MeltQuotes
  BY CallFields
<1> QED BY <1>1 DEF With, CallType, Control

\* Quotes keep what a saga relies on: their invoice and amount, proofs that
\* have arrived, and a payment that was made.
Grown(me, mi, sm, me2, mi2, sm2) ==
    /\ \A q \in MeltQuotes : me[q] # None => me2[q] # None /\ me2[q].invoice = me[q].invoice
    /\ \A q \in MintQuotes : mi[q] # None =>
          mi2[q] # None /\ mi2[q].amount = mi[q].amount /\ (mi[q].held => mi2[q].held)
    /\ \A q \in MeltQuotes : sm[q].state = "Paid" => sm2[q] = sm[q]

LEMMA SagaKept ==
    ASSUME NEW me, NEW mi, NEW sm, NEW me2, NEW mi2, NEW sm2,
           Grown(me, mi, sm, me2, mi2, sm2),
           NEW s \in SagaType, SagaOK(s, me, mi, sm)
    PROVE  SagaOK(s, me2, mi2, sm2)
<1>1. s.mint_quote \in MintQuotes \cup {None} /\ s.melt_quote \in MeltQuotes \cup {None}
  BY SagaFields
<1>2. s.mint_quote # None =>
          mi2[s.mint_quote] # None /\ mi2[s.mint_quote].amount = s.request.amount
  BY <1>1 DEF SagaOK, Grown
<1>3. s.melt_quote # None =>
          me2[s.melt_quote] # None /\ me2[s.melt_quote].invoice = s.mint_quote
  BY <1>1 DEF SagaOK, Grown
<1>4. s.fee_paid # None => sm2[s.melt_quote] = [state |-> "Paid", fee |-> s.fee_paid]
  <2> HAVE s.fee_paid # None
  <2>1. s.melt_quote \in MeltQuotes /\ sm[s.melt_quote] = [state |-> "Paid", fee |-> s.fee_paid]
    BY <1>1 DEF SagaOK
  <2>2. sm[s.melt_quote].state = "Paid"
    BY <2>1
  <2> QED BY <2>1, <2>2 DEF Grown
<1>5. s.result # None => mi2[s.mint_quote].held
  BY <1>1 DEF SagaOK, Grown
<1> QED BY <1>2, <1>3, <1>4, <1>5 DEF SagaOK

\* The sagas survive a step of the quotes.
LEMMA QuotesStep ==
    ASSUME TransferInv, sagas' = sagas, TransferTypeOK', LibraryOK', CallOK', Received',
           Grown(melt, mint, sourceMint, melt', mint', sourceMint'), Journal'
    PROVE  TransferInv'
<1>1. SagasOK'
  <2> SUFFICES ASSUME NEW id \in TransferIds, sagas[id] # None
               PROVE  /\ sagas[id].request.transfer_id = id
                      /\ SagaOK(sagas[id], melt', mint', sourceMint')
    BY DEF SagasOK
  <2>1. sagas[id] \in SagaType
    BY DEF TransferInv, TransferTypeOK
  <2>2. SagaOK(sagas[id], melt, mint, sourceMint) /\ sagas[id].request.transfer_id = id
    BY DEF TransferInv, SagasOK
  <2> QED BY <2>1, <2>2, SagaKept
<1>2. OneOwner'
  BY DEF TransferInv, OneOwner
<1> QED BY <1>1, <1>2 DEF TransferInv

\* A call about to save a saga.
LEMMA SaveCall ==
    ASSUME TransferInv, call # None, UNCHANGED <<sagas, invoice>>,
           NEW s \in SagaType, NEW next \in Control \ {"receive"}, SaveThen(s, next),
           s.request = call.request, SagaOK(s, melt', mint', sourceMint'),
           Holding(With("save", next, s), s),
           sagas[call.request.transfer_id] # None =>
               CarriesOn(s, sagas[call.request.transfer_id]),
           s.melt_quote # None =>
               \A id \in TransferIds : sagas[id] # None /\ sagas[id].melt_quote = s.melt_quote
                                           => id = call.request.transfer_id,
           \A q \in MintQuotes : mint'[q] # None /\ invoice[q] = "Issued" => mint'[q].held
    PROVE  CallOK' /\ Received' /\ call' \in CallType
<1>1. call' \in CallType /\ call' = With("save", next, s)
  BY WithType DEF SaveThen
<1>2. call'.pc = "save" /\ call'.next = next
      /\ call'.saga = s /\ call'.request = call.request
      /\ call'.allow_new = call.allow_new /\ call'.started = call.started
      /\ call'.deadline = call.deadline
  BY <1>1 DEF With
<1>3. call.allow_new => call.started < call.deadline
  BY DEF TransferInv, CallOK
<1>4. s # None
  BY SagaFields
<1>5. CallOK'
  BY <1>1, <1>2, <1>3, <1>4 DEF CallOK
<1>6. Received'
  BY <1>2 DEF Received
<1> QED BY <1>1, <1>5, <1>6

\* A saga on disk is carried on by the same saga with more in it.
LEMMA Loaded ==
    ASSUME TransferInv, call # None, call.pc \notin {"recover", "load", "save"}
    PROVE  /\ call.saga \in SagaType /\ call.saga # None
           /\ call.saga.request = call.request
           /\ SagaOK(call.saga, melt, mint, sourceMint)
           /\ Holding(call, call.saga)
           /\ sagas[call.request.transfer_id] = call.saga
           /\ call.request \in Requests /\ call.request.transfer_id \in TransferIds
           /\ call.saga.melt_quote # None =>
                 \A id \in TransferIds :
                     sagas[id] # None /\ sagas[id].melt_quote = call.saga.melt_quote
                         => id = call.request.transfer_id
           /\ call.pc # "receive" =>
                 \A q \in MintQuotes : mint[q] # None /\ invoice[q] = "Issued" => mint[q].held
<1>1. /\ call.saga \in SagaType /\ call.saga # None
      /\ call.saga.request = call.request
      /\ SagaOK(call.saga, melt, mint, sourceMint)
      /\ Holding(call, call.saga)
      /\ sagas[call.request.transfer_id] = call.saga
      /\ call.request \in Requests /\ call.request.transfer_id \in TransferIds
  BY CallFields DEF TransferInv, CallOK
<1>2. call.saga.melt_quote # None =>
          \A id \in TransferIds : sagas[id] # None /\ sagas[id].melt_quote = call.saga.melt_quote
                                      => id = call.request.transfer_id
  BY <1>1 DEF TransferInv, OneOwner
<1>3. call.pc # "receive" =>
          \A q \in MintQuotes : mint[q] # None /\ invoice[q] = "Issued" => mint[q].held
  BY DEF TransferInv, Received
<1> QED BY <1>1, <1>2, <1>3

\* A call that goes on with the saga on disk.
LEMMA GotoCall ==
    ASSUME TransferInv, sagas' = sagas, call # None,
           call.pc \notin {"recover", "load", "save"},
           NEW pc \in Control, pc \notin {"recover", "load"},
           Goto(pc), Holding(With(pc, pc, call.saga), call.saga),
           Grown(melt, mint, sourceMint, melt', mint', sourceMint'),
           pc = "receive" => invoice'[call.saga.mint_quote] = "Issued",
           \A q \in MintQuotes : mint'[q] # None /\ invoice'[q] = "Issued" =>
               mint'[q].held \/ (pc = "receive" /\ q = call.saga.mint_quote)
    PROVE  CallOK' /\ Received' /\ call' \in CallType
<1>1. /\ call.saga \in SagaType /\ call.saga # None /\ call.saga.request = call.request
      /\ SagaOK(call.saga, melt', mint', sourceMint')
      /\ sagas[call.request.transfer_id] = call.saga
      /\ call.allow_new => call.started < call.deadline
  BY Loaded, SagaKept DEF TransferInv, CallOK
<1>2. call' \in CallType /\ call' = With(pc, pc, call.saga)
  BY <1>1, WithType DEF Goto
<1>3. call'.pc = pc /\ call'.saga = call.saga /\ call'.request = call.request
      /\ call'.allow_new = call.allow_new /\ call'.started = call.started
      /\ call'.deadline = call.deadline
  BY <1>2 DEF With
<1>4. Holding(call', call'.saga) /\ pc # "save"
  BY <1>2, <1>3 DEF Control
<1>5. CallOK'
  BY <1>1, <1>3, <1>4 DEF CallOK
<1>6. Received'
  BY <1>3 DEF Received
<1> QED BY <1>2, <1>5, <1>6

\* The same, when the rest of the wallet does not change.
LEMMA GotoStep ==
    ASSUME TransferInv, UNCHANGED <<wallet, mints, now, interrupts>>, call # None,
           call.pc \notin {"recover", "load", "save", "receive"},
           NEW pc \in Control, pc \notin {"recover", "load", "receive"},
           Goto(pc), Holding(With(pc, pc, call.saga), call.saga)
    PROVE  TransferInv'
<1>1. UNCHANGED <<sagas, melt, tx, mint, sourceMint, invoice, now, interrupts>>
  BY DEF wallet, mints
<1>2. Grown(melt, mint, sourceMint, melt', mint', sourceMint')
  BY <1>1 DEF Grown
<1>3. CallOK' /\ Received' /\ call' \in CallType
  BY <1>1, <1>2, Loaded, GotoCall
<1>4. now' \in Nat /\ interrupts' \in Nat
  BY <1>1 DEF TransferInv, TransferTypeOK
<1> QED BY <1>3, <1>4, CallStep

-----------------------------------------------------------------------------
(* One lemma per action of a call.                                          *)

\* A new call has read nothing.
LEMMA ExecuteStep ==
    ASSUME TransferInv, NEW a \in Authorizations, Execute(a)
    PROVE  TransferInv'
<1>1. Bind(a) \in Requests /\ a.expires_at \in Nat /\ now \in Nat /\ interrupts \in Nat
  BY DEF Execute, Requests, TransferInv, TransferTypeOK
<1>2. call' \in CallType
  BY <1>1 DEF Execute, CallType, AllowNew
<1>3. CallOK'
  <2>1. call'.pc = "recover" /\ call'.started = now /\ call'.deadline = a.expires_at
        /\ call'.allow_new = AllowNew(a)
    BY DEF Execute
  <2>2. AllowNew(a) => now < a.expires_at
    BY <1>1 DEF AllowNew
  <2> QED BY <2>1, <2>2 DEF CallOK
<1>4. Received'
  BY DEF Execute, Received
<1>5. UNCHANGED <<wallet, mints, now, interrupts>>
  BY DEF Execute
<1> QED BY <1>1, <1>2, <1>3, <1>4, <1>5, CallStep

\* The saga on disk, or a new one that names no quote.
LEMMA LoadStep ==
    ASSUME TransferInv, LoadSaga
    PROVE  TransferInv'
<1> DEFINE s == sagas[call.request.transfer_id]
<1>1. call # None /\ call.pc = "load" /\ UNCHANGED <<wallet, mints, now, interrupts>>
  BY DEF LoadSaga, At
<1>2. call.request \in Requests /\ call.request.transfer_id \in TransferIds
      /\ s \in SagaType \cup {None} /\ now \in Nat /\ interrupts \in Nat
  BY <1>1, CallFields DEF TransferInv, TransferTypeOK
<1>3. \A q \in MintQuotes : mint[q] # None /\ invoice[q] = "Issued" => mint[q].held
  BY <1>1 DEF TransferInv, Received
<1>4. UNCHANGED <<sagas, melt, tx, mint, sourceMint, invoice, now, interrupts>>
  BY <1>1 DEF wallet, mints
<1>5. CASE Bail
  BY <1>1, <1>2, <1>4, <1>5, BailStep
<1>6. CASE s # None /\ s.request = call.request /\ s.result = None
           /\ call' = With("mintQuote", "mintQuote", s)
  <2>1. call' \in CallType
    BY <1>1, <1>2, <1>6, WithType DEF Control
  <2>2. SagaOK(s, melt, mint, sourceMint) /\ Holding(call', s)
    BY <1>2, <1>6 DEF TransferInv, SagasOK, Holding, Towards, With
  <2>3. call'.pc = "mintQuote" /\ call'.saga = s /\ call'.request = call.request
        /\ call'.allow_new = call.allow_new /\ call'.started = call.started
        /\ call'.deadline = call.deadline
    BY <1>6 DEF With
  <2>4. call.allow_new => call.started < call.deadline
    BY <1>1 DEF TransferInv, CallOK
  <2>5. CallOK'
    BY <1>4, <1>6, <2>2, <2>3, <2>4 DEF CallOK
  <2>6. Received'
    BY <1>3, <1>4, <2>3 DEF Received
  <2> QED BY <1>1, <1>2, <1>4, <2>1, <2>5, <2>6, CallStep
<1>7. CASE s = None /\ SaveThen(NewSaga(call.request), "mintQuote")
  <2> DEFINE n == NewSaga(call.request)
  <2>1. n \in SagaType /\ n.request = call.request /\ SagaOK(n, melt', mint', sourceMint')
        /\ n.melt_quote = None /\ n.result = None
    BY <1>2 DEF NewSaga, Saga, SagaType, Fee, SagaOK
  <2>2. Holding(With("save", "mintQuote", n), n)
    BY <2>1 DEF Holding, Towards, With
  <2> HIDE DEF n
  <2>3. CallOK' /\ Received' /\ call' \in CallType
    BY <1>1, <1>3, <1>4, <1>7, <2>1, <2>2, SaveCall DEF Control, n
  <2> QED BY <1>1, <1>2, <1>4, <2>3, CallStep
<1> QED BY <1>5, <1>6, <1>7 DEF LoadSaga

\* What is written is what the call goes on with.
LEMMA SaveStep ==
    ASSUME TransferInv, SaveSaga
    PROVE  TransferInv'
<1> DEFINE id == call.request.transfer_id
           s == call.saga
<1>1. call # None /\ call.pc = "save" /\ UNCHANGED <<melt, tx, mint, mints, now, interrupts>>
      /\ sagas' = [sagas EXCEPT ![id] = s] /\ call' = With(call.next, call.next, s)
  BY DEF SaveSaga, At, Goto
<1>2. /\ s \in SagaType /\ id \in TransferIds /\ s # None /\ s.request = call.request
      /\ SagaOK(s, melt, mint, sourceMint) /\ Holding(call, s)
      /\ call.allow_new => call.started < call.deadline
      /\ call.next # "receive"
      /\ sagas[id] # None => CarriesOn(s, sagas[id])
      /\ s.melt_quote # None =>
            \A i \in TransferIds : sagas[i] # None /\ sagas[i].melt_quote = s.melt_quote => i = id
  BY <1>1, CallFields DEF TransferInv, CallOK
<1>3. call.next \in Control
  BY <1>1 DEF TransferInv, TransferTypeOK, CallType, Control
<1>4. UNCHANGED <<melt, tx, mint, sourceMint, invoice, now, interrupts>>
  BY <1>1 DEF mints
<1>5. sagas \in [TransferIds -> SagaType \cup {None}]
  BY DEF TransferInv, TransferTypeOK
<1>6. sagas'[id] = s /\ \A i \in TransferIds : i # id => sagas'[i] = sagas[i]
  BY <1>1, <1>2, <1>5
<1>7. call' \in CallType
  BY <1>1, <1>2, <1>3, WithType
<1>8. SagasOK'
  BY <1>2, <1>4, <1>6 DEF TransferInv, SagasOK
<1>9. OneOwner'
  BY <1>2, <1>6 DEF TransferInv, OneOwner
<1>10. Journal'
  <2> SUFFICES ASSUME NEW q \in MeltQuotes, sourceMint[q].state # "Unpaid"
               PROVE  \E i \in TransferIds : sagas'[i] # None /\ sagas'[i].melt_quote = q
                                               /\ sagas'[i].wallet_fee # None
    BY <1>4 DEF Journal
  <2>1. PICK i \in TransferIds : sagas[i] # None /\ sagas[i].melt_quote = q
                                   /\ sagas[i].wallet_fee # None
    BY DEF TransferInv, Journal
  <2>2. CASE i = id
    BY <1>2, <1>6, <2>1, <2>2 DEF CarriesOn, Keeps
  <2>3. CASE i # id
    BY <1>6, <2>1, <2>3
  <2> QED BY <2>2, <2>3
<1>11. LibraryOK'
  BY <1>4 DEF TransferInv, LibraryOK
<1>12. Received'
  BY <1>1, <1>4 DEF TransferInv, Received, With
<1>13. call'.pc = call.next /\ call'.saga = s /\ call'.request = call.request
       /\ call'.allow_new = call.allow_new /\ call'.started = call.started
       /\ call'.deadline = call.deadline /\ call'.pc # "save"
  BY <1>1, <1>3 DEF With, Control
<1>14. Holding(call', s)
  BY <1>1, <1>2, <1>13 DEF Holding, Towards
<1>15. CallOK'
  BY <1>2, <1>4, <1>6, <1>13, <1>14 DEF CallOK
<1>16. TransferTypeOK'
  <2>1. sagas' \in [TransferIds -> SagaType \cup {None}]
    BY <1>1, <1>2, <1>5
  <2>2. \A i \in TransferIds : sagas'[i] # None =>
            /\ sagas'[i].request.transfer_id = i
            /\ sagas'[i].melt_quote # None => sagas'[i].mint_quote # None
            /\ sagas'[i].fee_paid # None => sagas'[i].wallet_fee # None
    BY <1>8 DEF SagasOK, SagaOK
  <2> QED BY <1>4, <1>7, <2>1, <2>2 DEF TransferInv, TransferTypeOK
<1> QED BY <1>8, <1>9, <1>10, <1>11, <1>12, <1>15, <1>16 DEF TransferInv

\* Recovery changes what the library knows, to what the mints have decided.
LEMMA RecoverStep ==
    ASSUME TransferInv, Recover
    PROVE  TransferInv'
<1>1. /\ call # None /\ call.pc = "recover"
      /\ UNCHANGED <<sagas, sourceMint, invoice, now, interrupts>>
      /\ melt' = [q \in MeltQuotes |->
                    IF q \in Decided THEN InState(melt[q], sourceMint[q].state) ELSE melt[q]]
      /\ tx' = [q \in MeltQuotes |->
                  IF q \in Decided /\ sourceMint[q].state = "Paid" THEN sourceMint[q].fee
                                                                   ELSE tx[q]]
      /\ mint' = [q \in MintQuotes |->
                    IF q \in Unreceived THEN MintQuote(mint[q].amount, "Issued", TRUE)
                                        ELSE mint[q]]
  BY DEF Recover, At, mints
<1>2. /\ melt \in [MeltQuotes -> MeltQuoteType \cup {None}] /\ tx \in [MeltQuotes -> Fee]
      /\ sourceMint \in [MeltQuotes -> [state : {"Unpaid", "Pending", "Paid"}, fee : Nat]]
      /\ mint \in [MintQuotes -> MintQuoteType \cup {None}]
  BY DEF TransferInv, TransferTypeOK
<1>3. melt' \in [MeltQuotes -> MeltQuoteType \cup {None}]
      /\ \A q \in MeltQuotes : /\ melt[q] # None => melt'[q] # None
                                                   /\ melt'[q].invoice = melt[q].invoice
                               /\ melt'[q] # None => melt[q] # None
  <2> SUFFICES ASSUME NEW q \in MeltQuotes
               PROVE  /\ melt'[q] \in MeltQuoteType \cup {None}
                      /\ melt[q] # None => melt'[q] # None
                                           /\ melt'[q].invoice = melt[q].invoice
                      /\ melt'[q] # None => melt[q] # None
    BY <1>1
  <2>1. CASE q \in Decided
    <3>1. melt[q] \in MeltQuoteType /\ sourceMint[q].state \in {"Unpaid", "Pending", "Paid"}
      BY <1>2, <2>1 DEF Decided
    <3>2. melt'[q] = InState(melt[q], sourceMint[q].state)
      BY <1>1, <2>1
    <3>3. melt'[q] \in MeltQuoteType /\ melt'[q].invoice = melt[q].invoice
      BY <3>1, <3>2 DEF MeltQuoteType, InState, MeltQuote
    <3>4. melt'[q] # None
      BY <3>3
    <3> QED BY <3>1, <3>3, <3>4
  <2>2. CASE q \notin Decided
    BY <1>1, <1>2, <2>2
  <2> QED BY <2>1, <2>2
<1>4. tx' \in [MeltQuotes -> Fee]
  BY <1>1, <1>2 DEF Fee
<1>5. /\ mint' \in [MintQuotes -> MintQuoteType \cup {None}]
      /\ \A q \in MintQuotes :
            /\ mint[q] # None =>
                  mint'[q] # None /\ mint'[q].amount = mint[q].amount /\ (mint[q].held => mint'[q].held)
            /\ mint'[q] # None => mint[q] # None
            /\ mint'[q] # None /\ mint'[q].state = "Issued" => invoice[q] = "Issued"
            /\ mint'[q] # None /\ invoice[q] = "Issued" => mint'[q].held
  <2> SUFFICES ASSUME NEW q \in MintQuotes
               PROVE  /\ mint'[q] \in MintQuoteType \cup {None}
                      /\ mint[q] # None =>
                            /\ mint'[q] # None /\ mint'[q].amount = mint[q].amount
                            /\ mint[q].held => mint'[q].held
                      /\ mint'[q] # None => mint[q] # None
                      /\ mint'[q] # None /\ mint'[q].state = "Issued" => invoice[q] = "Issued"
                      /\ mint'[q] # None /\ invoice[q] = "Issued" => mint'[q].held
    BY <1>1
  <2>1. CASE q \in Unreceived
    <3>1. mint[q] \in MintQuoteType /\ invoice[q] = "Issued"
      BY <1>2, <2>1 DEF Unreceived
    <3>2. mint'[q] = MintQuote(mint[q].amount, "Issued", TRUE)
      BY <1>1, <2>1
    <3>3. mint'[q] \in MintQuoteType /\ mint'[q].held /\ mint'[q].amount = mint[q].amount
      BY <3>1, <3>2 DEF MintQuoteType, MintQuote
    <3>4. mint'[q] # None
      BY <3>3
    <3> QED BY <3>1, <3>3, <3>4
  <2>2. CASE q \notin Unreceived
    <3>1. mint'[q] = mint[q]
      BY <1>1, <2>2
    <3>2. mint[q] # None /\ mint[q].state = "Issued" => invoice[q] = "Issued"
      BY DEF TransferInv, LibraryOK
    <3>3. mint[q] # None /\ invoice[q] = "Issued" => mint[q].held
      BY <2>2 DEF Unreceived
    <3> QED BY <1>2, <3>1, <3>2, <3>3
  <2> QED BY <2>1, <2>2
<1>6. PICK reported \in SUBSET {q \in Decided : sourceMint[q].state = "Unpaid"} :
          call' = [request |-> call.request, started |-> call.started,
                   deadline |-> call.deadline, allow_new |-> call.allow_new,
                   failed |-> reported, pc |-> "load", next |-> "load", saga |-> None]
  BY DEF Recover
<1>7. call' \in CallType
  <2>1. /\ call.request \in Requests /\ call.started \in Nat /\ call.deadline \in Nat
        /\ call.allow_new \in BOOLEAN
    BY <1>1, CallFields
  <2>2. reported \in SUBSET MeltQuotes
    BY <1>6 DEF Decided
  <2> QED BY <1>6, <2>1, <2>2 DEF CallType
<1>8. CallOK' /\ Received'
  <2>1. call.allow_new => call.started < call.deadline
    BY <1>1 DEF TransferInv, CallOK
  <2>2. call'.pc = "load" /\ call'.allow_new = call.allow_new /\ call'.started = call.started
        /\ call'.deadline = call.deadline
    BY <1>6
  <2>3. CallOK'
    BY <2>1, <2>2 DEF CallOK
  <2> QED BY <1>1, <1>5, <2>2, <2>3 DEF Received
<1>9. LibraryOK'
  <2>1. ASSUME NEW q \in MeltQuotes
        PROVE  /\ tx'[q] # None => sourceMint[q] = [state |-> "Paid", fee |-> tx'[q]]
               /\ melt'[q] # None => mint'[melt'[q].invoice] # None
    <3>1. tx[q] # None => sourceMint[q] = [state |-> "Paid", fee |-> tx[q]]
      BY DEF TransferInv, LibraryOK
    <3>2. sourceMint[q].state = "Paid" => sourceMint[q] = [state |-> "Paid", fee |-> sourceMint[q].fee]
      BY <1>2
    <3>3. melt'[q] # None => /\ melt[q] # None /\ melt'[q].invoice = melt[q].invoice
                             /\ melt[q].invoice \in MintQuotes
      BY <1>2, <1>3 DEF MeltQuoteType
    <3>4. melt[q] # None => mint[melt[q].invoice] # None
      BY DEF TransferInv, LibraryOK
    <3> QED BY <1>1, <1>5, <3>1, <3>2, <3>3, <3>4
  <2>2. ASSUME NEW q \in MintQuotes
        PROVE  /\ invoice[q] # "Unpaid" => mint'[q] # None
               /\ mint'[q] # None /\ mint'[q].state = "Issued" => invoice[q] = "Issued"
    BY <1>5 DEF TransferInv, LibraryOK
  <2> QED BY <1>1, <2>1, <2>2 DEF LibraryOK
<1>10. TransferTypeOK'
  BY <1>1, <1>3, <1>4, <1>5, <1>7 DEF TransferInv, TransferTypeOK
<1>11. Journal'
  BY <1>1 DEF TransferInv, Journal
<1>12. Grown(melt, mint, sourceMint, melt', mint', sourceMint')
  BY <1>1, <1>3, <1>5 DEF Grown
<1> QED BY <1>1, <1>8, <1>9, <1>10, <1>11, <1>12, QuotesStep

\* The call itself does not change, and the quotes keep what it relies on.
LEMMA CallKept ==
    ASSUME TransferInv, UNCHANGED <<sagas, call>>,
           Grown(melt, mint, sourceMint, melt', mint', sourceMint'),
           \A q \in MintQuotes : invoice[q] = "Issued" => invoice'[q] = "Issued"
    PROVE  CallOK'
<1>1. CASE call = None
  BY <1>1 DEF CallOK
<1>2. CASE call # None
  <2>1. call.pc \notin {"recover", "load"} => SagaOK(call.saga, melt', mint', sourceMint')
    BY <1>2, CallFields, SagaKept DEF TransferInv, CallOK
  <2>2. call.pc = "receive" => invoice'[call.saga.mint_quote] = "Issued"
    <3> HAVE call.pc = "receive"
    <3>1. call.saga \in SagaType /\ Holding(call, call.saga)
          /\ invoice[call.saga.mint_quote] = "Issued"
      BY <1>2, CallFields DEF TransferInv, CallOK
    <3>2. call.saga.mint_quote \in MintQuotes
      BY <3>1, SagaFields DEF Holding, Towards
    <3> QED BY <3>1, <3>2
  <2> QED BY <1>2, <2>1, <2>2 DEF TransferInv, CallOK
<1> QED BY <1>1, <1>2

\* A new mint quote is one that no saga names.
LEMMA RequestMintStep ==
    ASSUME TransferInv, RequestMintQuote
    PROVE  TransferInv'
<1> DEFINE s == call.saga
<1>1. call # None /\ call.pc = "mintQuote" /\ s.mint_quote = None
      /\ UNCHANGED <<sagas, melt, tx, sourceMint, invoice, now, interrupts>>
  BY DEF RequestMintQuote, At, NeedsMintQuote, mints
<1>2. PICK q \in MintQuotes, amount \in QuotedAmounts :
          /\ mint[q] = None /\ amount = call.request.amount
          /\ mint' = [mint EXCEPT ![q] = MintQuote(amount, "Unpaid", FALSE)]
          /\ SaveThen(WithMintQuote(s, q), "meltQuote")
  BY DEF RequestMintQuote, Fresh, Exact
<1>3. /\ s \in SagaType /\ s.request = call.request
      /\ SagaOK(s, melt, mint, sourceMint) /\ Holding(call, s)
      /\ sagas[call.request.transfer_id] = s
      /\ \A p \in MintQuotes : mint[p] # None /\ invoice[p] = "Issued" => mint[p].held
  BY <1>1, Loaded
<1>4. mint \in [MintQuotes -> MintQuoteType \cup {None}] /\ invoice[q] = "Unpaid"
  BY <1>2 DEF TransferInv, TransferTypeOK, LibraryOK
<1>5. mint'[q] \in MintQuoteType /\ mint'[q].amount = call.request.amount
      /\ mint'[q].state = "Unpaid" /\ mint'[q] # None
  <2>1. mint'[q] = MintQuote(amount, "Unpaid", FALSE) /\ amount \in Nat
    BY <1>2, <1>4
  <2>2. mint'[q] \in MintQuoteType
    BY <2>1 DEF MintQuoteType, MintQuote
  <2>3. mint'[q] # None
    BY <2>2
  <2>4. mint'[q].amount = amount /\ mint'[q].state = "Unpaid"
    BY <2>1 DEF MintQuote
  <2> QED BY <1>2, <2>2, <2>3, <2>4
<1>6. /\ mint' \in [MintQuotes -> MintQuoteType \cup {None}]
      /\ \A p \in MintQuotes : p # q => mint'[p] = mint[p]
  BY <1>2, <1>4, <1>5
<1>7. Grown(melt, mint, sourceMint, melt', mint', sourceMint')
  BY <1>1, <1>2, <1>6 DEF Grown
<1> DEFINE n == WithMintQuote(s, q)
<1>8. /\ n \in SagaType /\ n.request = s.request /\ n.mint_quote = q /\ n.melt_quote = s.melt_quote
      /\ n.wallet_fee = s.wallet_fee /\ n.fee_paid = s.fee_paid /\ n.result = s.result
  BY <1>3, SagaFields DEF WithMintQuote, Saga
<1>9. s.melt_quote = None /\ s.wallet_fee = None /\ s.fee_paid = None /\ s.result = None
  BY <1>1, <1>3 DEF SagaOK, Holding, Towards
<1> HIDE DEF n
<1>10. SagaOK(n, melt', mint', sourceMint')
  BY <1>3, <1>5, <1>8, <1>9 DEF SagaOK
<1>11. Holding(With("save", "meltQuote", n), n)
  BY <1>2, <1>8, <1>9 DEF Holding, Towards, With
<1>12. CarriesOn(n, sagas[call.request.transfer_id])
  BY <1>1, <1>3, <1>8, <1>9 DEF CarriesOn, Keeps
<1>13. \A p \in MintQuotes : mint'[p] # None /\ invoice[p] = "Issued" => mint'[p].held
  BY <1>3, <1>4, <1>6
<1>14. CallOK' /\ Received' /\ call' \in CallType
  BY <1>1, <1>2, <1>3, <1>8, <1>9, <1>10, <1>11, <1>12, <1>13, SaveCall DEF Control, n
<1>15. LibraryOK'
  <2>1. ASSUME NEW p \in MeltQuotes, melt[p] # None
        PROVE  melt[p].invoice \in MintQuotes
    BY <2>1 DEF TransferInv, TransferTypeOK, MeltQuoteType
  <2> QED BY <1>1, <1>4, <1>5, <1>6, <2>1 DEF TransferInv, LibraryOK
<1>16. TransferTypeOK' /\ Journal'
  BY <1>1, <1>6, <1>14 DEF TransferInv, TransferTypeOK, Journal
<1> QED BY <1>1, <1>7, <1>14, <1>15, <1>16, QuotesStep

LEMMA HaveMintStep ==
    ASSUME TransferInv, HaveMintQuote
    PROVE  TransferInv'
<1>1. call # None /\ call.pc = "mintQuote" /\ call.saga.mint_quote # None /\ Goto("meltQuote")
      /\ UNCHANGED <<wallet, mints, now, interrupts>>
  BY DEF HaveMintQuote, At, NeedsMintQuote
<1>2. Holding(With("meltQuote", "meltQuote", call.saga), call.saga)
  BY <1>1, Loaded DEF Holding, Towards, With
<1> QED BY <1>1, <1>2, GotoStep DEF Control

\* A new melt quote pays the invoice of the saga and belongs to nobody else.
LEMMA RequestMeltStep ==
    ASSUME TransferInv, RequestMeltQuote
    PROVE  TransferInv'
<1> DEFINE s == call.saga
<1>1. call # None /\ call.pc = "meltQuote" /\ s.melt_quote = None
      /\ UNCHANGED <<sagas, mint, tx, sourceMint, invoice, now, interrupts>>
  BY DEF RequestMeltQuote, At, NeedsMeltQuote, mints
<1>2. PICK q \in MeltQuotes, amount \in QuotedAmounts, reserve \in FeeReserves :
          /\ melt[q] = None
          /\ melt' = [melt EXCEPT ![q] = MeltQuote(s.mint_quote, amount, reserve, 0, "Unpaid")]
          /\ SaveThen(WithMeltQuote(s, q, reserve), "check")
  BY DEF RequestMeltQuote, Fresh
<1>3. /\ s \in SagaType /\ s.request = call.request
      /\ SagaOK(s, melt, mint, sourceMint) /\ Holding(call, s)
      /\ sagas[call.request.transfer_id] = s
      /\ \A p \in MintQuotes : mint[p] # None /\ invoice[p] = "Issued" => mint[p].held
  BY <1>1, Loaded
<1>4. melt \in [MeltQuotes -> MeltQuoteType \cup {None}]
      /\ s.mint_quote \in MintQuotes /\ mint[s.mint_quote] # None
  BY <1>1, <1>3, SagaFields DEF TransferInv, TransferTypeOK, Holding, Towards, SagaOK
<1>5. melt'[q] \in MeltQuoteType /\ melt'[q].invoice = s.mint_quote /\ melt'[q] # None
  <2>1. melt'[q] = MeltQuote(s.mint_quote, amount, reserve, 0, "Unpaid")
        /\ amount \in Nat /\ reserve \in Nat
    BY <1>2, <1>4
  <2>2. melt'[q] \in MeltQuoteType
    BY <1>4, <2>1 DEF MeltQuoteType, MeltQuote
  <2> QED BY <1>2, <2>1, <2>2 DEF MeltQuote
<1>6. /\ melt' \in [MeltQuotes -> MeltQuoteType \cup {None}]
      /\ \A p \in MeltQuotes : p # q => melt'[p] = melt[p]
  BY <1>2, <1>4, <1>5
<1>7. Grown(melt, mint, sourceMint, melt', mint', sourceMint')
  BY <1>1, <1>2, <1>6 DEF Grown
<1> DEFINE n == WithMeltQuote(s, q, reserve)
<1>8. /\ n \in SagaType /\ n.request = s.request /\ n.mint_quote = s.mint_quote
      /\ n.melt_quote = q /\ n.reserve = reserve /\ reserve \in Nat
      /\ n.wallet_fee = s.wallet_fee /\ n.fee_paid = s.fee_paid /\ n.result = s.result
  <2>1. reserve \in Nat
    BY <1>2
  <2> QED BY <1>3, <2>1, SagaFields DEF WithMeltQuote, Saga
<1>9. s.wallet_fee = None /\ s.fee_paid = None /\ s.result = None
  BY <1>1, <1>3 DEF SagaOK, Holding, Towards
<1> HIDE DEF n
<1>10. SagaOK(n, melt', mint', sourceMint')
  BY <1>1, <1>3, <1>4, <1>5, <1>8, <1>9 DEF SagaOK
<1>11. Holding(With("save", "check", n), n)
  BY <1>2, <1>4, <1>8, <1>9 DEF Holding, Towards, With
<1>12. CarriesOn(n, sagas[call.request.transfer_id])
  BY <1>1, <1>3, <1>8, <1>9 DEF CarriesOn, Keeps
<1>13. ASSUME NEW id \in TransferIds, sagas[id] # None, sagas[id].melt_quote = q
       PROVE  FALSE
  <2>1. SagaOK(sagas[id], melt, mint, sourceMint) /\ q # None
    BY <1>13 DEF TransferInv, SagasOK
  <2> QED BY <1>2, <1>13, <2>1 DEF SagaOK
<1>14. CallOK' /\ Received' /\ call' \in CallType
  BY <1>1, <1>2, <1>3, <1>8, <1>10, <1>11, <1>12, <1>13, SaveCall DEF Control, n
<1>15. LibraryOK'
  BY <1>1, <1>4, <1>5, <1>6 DEF TransferInv, LibraryOK
<1>16. TransferTypeOK' /\ Journal'
  BY <1>1, <1>6, <1>14 DEF TransferInv, TransferTypeOK, Journal
<1> QED BY <1>1, <1>7, <1>14, <1>15, <1>16, QuotesStep

LEMMA HaveMeltStep ==
    ASSUME TransferInv, HaveMeltQuote
    PROVE  TransferInv'
<1>1. call # None /\ call.pc = "meltQuote" /\ call.saga.melt_quote # None /\ Goto("check")
      /\ UNCHANGED <<wallet, mints, now, interrupts>>
  BY DEF HaveMeltQuote, At, NeedsMeltQuote
<1>2. Holding(With("check", "check", call.saga), call.saga)
  BY <1>1, Loaded DEF Holding, Towards, With
<1> QED BY <1>1, <1>2, GotoStep DEF Control

\* A payment is started only by a call that may start one.
LEMMA CheckStep ==
    ASSUME TransferInv, CheckPayment
    PROVE  TransferInv'
<1>1. call # None /\ call.pc = "check" /\ UNCHANGED <<wallet, mints, now, interrupts>>
  BY DEF CheckPayment, At
<1>2. Holding(call, call.saga)
  BY <1>1, Loaded
<1>3. Holding(With("paid", "paid", call.saga), call.saga)
  BY <1>1, <1>2 DEF Holding, Towards, With
<1>4. call.allow_new => Holding(With("prepare", "prepare", call.saga), call.saga)
  BY <1>1, <1>2 DEF Holding, Towards, With
<1>5. CASE Goto("paid")
  BY <1>1, <1>3, <1>5, GotoStep DEF Control
<1>6. CASE MayStart /\ Goto("prepare")
  BY <1>1, <1>4, <1>6, GotoStep DEF Control, MayStart
<1>7. CASE Bail
  BY <1>1, <1>7, BailStep DEF TransferInv, TransferTypeOK
<1> QED BY <1>5, <1>6, <1>7 DEF CheckPayment

\* One melt quote changes and keeps its invoice.
LEMMA MeltQuoteChanged ==
    ASSUME TransferInv, NEW q \in MeltQuotes, melt[q] # None, NEW m \in MeltQuoteType,
           m.invoice = melt[q].invoice, melt' = [melt EXCEPT ![q] = m],
           UNCHANGED <<mint, invoice, sourceMint>>,
           \A p \in MeltQuotes : tx'[p] # None => sourceMint[p] = [state |-> "Paid", fee |-> tx'[p]]
    PROVE  /\ melt' \in [MeltQuotes -> MeltQuoteType \cup {None}]
           /\ Grown(melt, mint, sourceMint, melt', mint', sourceMint')
           /\ LibraryOK'
<1>1. melt \in [MeltQuotes -> MeltQuoteType \cup {None}]
  BY DEF TransferInv, TransferTypeOK
<1>2. melt' \in [MeltQuotes -> MeltQuoteType \cup {None}] /\ melt'[q] = m
      /\ \A p \in MeltQuotes : p # q => melt'[p] = melt[p]
  BY <1>1
<1>3. m # None
  OBVIOUS
<1>4. Grown(melt, mint, sourceMint, melt', mint', sourceMint')
  BY <1>2, <1>3 DEF Grown
<1>5. ASSUME NEW p \in MeltQuotes, melt'[p] # None
      PROVE  mint[melt'[p].invoice] # None
  <2>1. melt[p] # None /\ melt'[p].invoice = melt[p].invoice
    BY <1>2, <1>5
  <2> QED BY <2>1 DEF TransferInv, LibraryOK
<1>6. \A p \in MintQuotes :
          /\ invoice[p] # "Unpaid" => mint[p] # None
          /\ mint[p] # None /\ mint[p].state = "Issued" => invoice[p] = "Issued"
  BY DEF TransferInv, LibraryOK
<1>7. LibraryOK'
  BY <1>5, <1>6 DEF LibraryOK
<1> QED BY <1>2, <1>4, <1>7

\* The saga of a call that pays names a melt quote.
LEMMA PayingQuote ==
    ASSUME TransferInv, call # None,
           call.pc \in {"check", "prepare", "confirm", "send", "wait", "paid"}
    PROVE  /\ call.saga.melt_quote \in MeltQuotes
           /\ melt[call.saga.melt_quote] \in MeltQuoteType
           /\ melt[call.saga.melt_quote] # None
<1>1. call.saga \in SagaType /\ SagaOK(call.saga, melt, mint, sourceMint)
      /\ Holding(call, call.saga)
  BY Loaded
<1>2. call.saga.melt_quote # None
  BY <1>1 DEF Holding, Towards
<1>3. call.saga.melt_quote \in MeltQuotes /\ melt[call.saga.melt_quote] # None
  BY <1>1, <1>2, SagaFields DEF SagaOK
<1> QED BY <1>3 DEF TransferInv, TransferTypeOK

\* All fees of a prepared payment are within the maximum.
LEMMA PrepareStep ==
    ASSUME TransferInv, PreparePayment
    PROVE  TransferInv'
<1> DEFINE s == call.saga
           q == call.saga.melt_quote
<1>1. call # None /\ call.pc = "prepare"
      /\ UNCHANGED <<sagas, mint, tx, sourceMint, invoice, now, interrupts>>
  BY DEF PreparePayment, At, mints
<1>2. CASE Bail /\ UNCHANGED melt
  BY <1>1, <1>2, BailStep DEF TransferInv, TransferTypeOK, wallet, mints
<1>3. CASE \E fee \in WalletFees :
            /\ WithinLimit(fee)
            /\ melt' = [melt EXCEPT ![q] =
                          MeltQuote(@.invoice, @.amount, @.reserve, fee, @.state)]
            /\ SaveThen(WithWalletFee(s, fee), "confirm")
  <2>1. PICK fee \in WalletFees :
            /\ s.reserve + fee <= call.request.max_fee
            /\ melt' = [melt EXCEPT ![q] = MeltQuote(melt[q].invoice, melt[q].amount,
                                                     melt[q].reserve, fee, melt[q].state)]
            /\ SaveThen(WithWalletFee(s, fee), "confirm")
    BY <1>3 DEF WithinLimit
  <2>2. /\ s \in SagaType /\ s.request = call.request
        /\ SagaOK(s, melt, mint, sourceMint) /\ Holding(call, s)
        /\ sagas[call.request.transfer_id] = s
        /\ \A p \in MintQuotes : mint[p] # None /\ invoice[p] = "Issued" => mint[p].held
        /\ s.melt_quote # None =>
              \A id \in TransferIds : sagas[id] # None /\ sagas[id].melt_quote = s.melt_quote
                                        => id = call.request.transfer_id
    BY <1>1, Loaded
  <2>3. q \in MeltQuotes /\ melt[q] \in MeltQuoteType /\ melt[q] # None
    BY <1>1, PayingQuote
  <2> DEFINE m == MeltQuote(melt[q].invoice, melt[q].amount, melt[q].reserve, fee, melt[q].state)
  <2>4. m \in MeltQuoteType /\ m.invoice = melt[q].invoice
    <3>1. fee \in Nat
      BY <2>1
    <3> QED BY <2>3, <3>1 DEF MeltQuoteType, MeltQuote
  <2>5. melt' = [melt EXCEPT ![q] = m]
    BY <2>1
  <2> HIDE DEF m
  <2>51. \A p \in MeltQuotes : tx'[p] # None => sourceMint[p] = [state |-> "Paid", fee |-> tx'[p]]
    BY <1>1 DEF TransferInv, LibraryOK
  <2>6. /\ melt' \in [MeltQuotes -> MeltQuoteType \cup {None}]
        /\ Grown(melt, mint, sourceMint, melt', mint', sourceMint')
        /\ LibraryOK'
    BY <1>1, <2>3, <2>4, <2>5, <2>51, MeltQuoteChanged
  <2> DEFINE n == WithWalletFee(s, fee)
  <2>7. /\ n \in SagaType /\ n.request = s.request /\ n.mint_quote = s.mint_quote
        /\ n.melt_quote = q /\ n.reserve = s.reserve /\ n.wallet_fee = fee /\ fee \in Nat
        /\ n.fee_paid = s.fee_paid /\ n.result = s.result
    <3>1. fee \in Nat
      BY <2>1
    <3> QED BY <2>2, <3>1, SagaFields DEF WithWalletFee, Saga
  <2>8. s.result = None /\ s.mint_quote # None /\ q # None /\ call.allow_new
    BY <1>1, <2>2 DEF Holding, Towards
  <2> HIDE DEF n
  <2>9. SagaOK(s, melt', mint', sourceMint')
    BY <2>2, <2>6, SagaKept
  <2>10. SagaOK(n, melt', mint', sourceMint')
    BY <2>1, <2>2, <2>7, <2>8, <2>9 DEF SagaOK
  <2>11. Holding(With("save", "confirm", n), n)
    BY <2>7, <2>8 DEF Holding, Towards, With
  <2>12. CarriesOn(n, sagas[call.request.transfer_id])
    BY <2>2, <2>7, <2>8 DEF CarriesOn, Keeps
  <2>13. CallOK' /\ Received' /\ call' \in CallType
    BY <1>1, <2>1, <2>2, <2>7, <2>8, <2>10, <2>11, <2>12, SaveCall DEF Control, n
  <2>14. TransferTypeOK' /\ Journal'
    BY <1>1, <2>6, <2>13 DEF TransferInv, TransferTypeOK, Journal
  <2> QED BY <1>1, <2>6, <2>13, <2>14, QuotesStep
<1> QED BY <1>2, <1>3 DEF PreparePayment

\* The library marks the quote before the mint has the request.
LEMMA ConfirmStep ==
    ASSUME TransferInv, ConfirmPayment
    PROVE  TransferInv'
<1> DEFINE s == call.saga
           q == call.saga.melt_quote
<1>1. call # None /\ call.pc = "confirm" /\ Goto("send")
      /\ UNCHANGED <<sagas, mint, tx, sourceMint, invoice, now, interrupts>>
      /\ melt' = [melt EXCEPT ![q] = InState(melt[q], "Pending")]
  BY DEF ConfirmPayment, At, mints
<1>2. q \in MeltQuotes /\ melt[q] \in MeltQuoteType /\ melt[q] # None
  BY <1>1, PayingQuote
<1>3. InState(melt[q], "Pending") \in MeltQuoteType
      /\ InState(melt[q], "Pending").invoice = melt[q].invoice
  BY <1>2 DEF MeltQuoteType, InState, MeltQuote
<1>31. \A p \in MeltQuotes : tx'[p] # None => sourceMint[p] = [state |-> "Paid", fee |-> tx'[p]]
  BY <1>1 DEF TransferInv, LibraryOK
<1>4. /\ melt' \in [MeltQuotes -> MeltQuoteType \cup {None}]
      /\ Grown(melt, mint, sourceMint, melt', mint', sourceMint')
      /\ LibraryOK'
  BY <1>1, <1>2, <1>3, <1>31, MeltQuoteChanged
<1>5. Holding(With("send", "send", s), s)
  BY <1>1, Loaded DEF Holding, Towards, With
<1>6. CallOK' /\ Received' /\ call' \in CallType
  BY <1>1, <1>4, <1>5, Loaded, GotoCall DEF Control
<1>7. TransferTypeOK' /\ Journal'
  BY <1>1, <1>4, <1>6 DEF TransferInv, TransferTypeOK, Journal
<1> QED BY <1>1, <1>4, <1>6, <1>7, QuotesStep

\* The mint gets a request only for the quote of the saga on disk.
LEMMA SendStep ==
    ASSUME TransferInv, SendPayment
    PROVE  TransferInv'
<1> DEFINE s == call.saga
           q == call.saga.melt_quote
           sent == [state |-> "Pending", fee |-> 0]
<1>1. call # None /\ call.pc = "send" /\ Goto("wait") /\ sourceMint[q].state = "Unpaid"
      /\ UNCHANGED <<sagas, melt, tx, mint, invoice, now, interrupts>>
      /\ sourceMint' = [sourceMint EXCEPT ![q] = sent]
  BY DEF SendPayment, At, wallet
<1>2. q \in MeltQuotes
  BY <1>1, PayingQuote
<1>3. sourceMint \in [MeltQuotes -> [state : {"Unpaid", "Pending", "Paid"}, fee : Nat]]
  BY DEF TransferInv, TransferTypeOK
<1>4. sourceMint' \in [MeltQuotes -> [state : {"Unpaid", "Pending", "Paid"}, fee : Nat]]
      /\ sourceMint'[q] = sent /\ \A p \in MeltQuotes : p # q => sourceMint'[p] = sourceMint[p]
  BY <1>1, <1>2, <1>3
<1>5. Grown(melt, mint, sourceMint, melt', mint', sourceMint')
  BY <1>1, <1>4 DEF Grown
<1>6. s # None /\ sagas[call.request.transfer_id] = s /\ call.request.transfer_id \in TransferIds
      /\ Holding(call, s)
  BY <1>1, Loaded
<1>7. s.wallet_fee # None /\ Holding(With("wait", "wait", s), s)
  BY <1>1, <1>6 DEF Holding, Towards, With
<1>8. CallOK' /\ Received' /\ call' \in CallType
  BY <1>1, <1>5, <1>7, Loaded, GotoCall DEF Control
<1>9. Journal'
  BY <1>1, <1>4, <1>6, <1>7 DEF TransferInv, Journal
<1>10. LibraryOK'
  <2>1. tx[q] # None => sourceMint[q] = [state |-> "Paid", fee |-> tx[q]]
    BY <1>2 DEF TransferInv, LibraryOK
  <2>2. tx[q] = None
    BY <1>1, <2>1
  <2> QED BY <1>1, <1>4, <2>2 DEF TransferInv, LibraryOK
<1>11. TransferTypeOK'
  BY <1>1, <1>4, <1>8 DEF TransferInv, TransferTypeOK
<1> QED BY <1>1, <1>5, <1>8, <1>9, <1>10, <1>11, QuotesStep

\* Putting the fee that the mint took into a saga that has been paid.
LEMMA FeePaid ==
    ASSUME TransferInv, call # None, call.pc \in {"wait", "paid"}, NEW fee \in Nat,
           sourceMint[call.saga.melt_quote] = [state |-> "Paid", fee |-> fee],
           NEW next \in {"paid", "issue"}, NEW s, s = WithFeePaid(call.saga, fee)
    PROVE  /\ s \in SagaType /\ s.request = call.request
           /\ SagaOK(s, melt, mint, sourceMint)
           /\ s.melt_quote = call.saga.melt_quote
           /\ Holding(With("save", next, s), s)
           /\ CarriesOn(s, sagas[call.request.transfer_id])
<1> DEFINE c == call.saga
           id == call.request.transfer_id
<1>1. /\ c \in SagaType /\ c.request = call.request /\ SagaOK(c, melt, mint, sourceMint)
      /\ Holding(call, c) /\ sagas[id] = c /\ id \in TransferIds
      /\ c.melt_quote # None =>
            \A i \in TransferIds : sagas[i] # None /\ sagas[i].melt_quote = c.melt_quote => i = id
  BY Loaded
<1>2. /\ s \in SagaType /\ s.request = c.request /\ s.mint_quote = c.mint_quote
      /\ s.melt_quote = c.melt_quote /\ s.reserve = c.reserve /\ s.wallet_fee = c.wallet_fee
      /\ s.fee_paid = fee /\ s.result = c.result
  BY <1>1, SagaFields DEF WithFeePaid, Saga
<1>3. c.melt_quote \in MeltQuotes /\ c.mint_quote # None /\ c.result = None
  BY <1>1, PayingQuote DEF Holding, Towards
<1>4. c.wallet_fee # None
  <2>1. PICK i \in TransferIds : sagas[i] # None /\ sagas[i].melt_quote = c.melt_quote
                                   /\ sagas[i].wallet_fee # None
    BY <1>3 DEF TransferInv, Journal
  <2>2. i = id
    BY <1>1, <1>3, <2>1
  <2> QED BY <1>1, <2>1, <2>2
<1>5. SagaOK(s, melt, mint, sourceMint)
  BY <1>1, <1>2, <1>3, <1>4 DEF SagaOK
<1>6. Holding(With("save", next, s), s)
  BY <1>2, <1>3 DEF Holding, Towards, With
<1>7. CarriesOn(s, sagas[id])
  BY <1>1, <1>2, <1>3 DEF CarriesOn, Keeps
<1> QED BY <1>1, <1>2, <1>5, <1>6, <1>7

\* The answer of the mint is what the library and the saga record.
LEMMA AnsweredStep ==
    ASSUME TransferInv, PaymentAnswered
    PROVE  TransferInv'
<1> DEFINE s == call.saga
           q == call.saga.melt_quote
           m == sourceMint[q]
<1>1. call # None /\ call.pc = "wait"
      /\ UNCHANGED <<sagas, mint, sourceMint, invoice, now, interrupts>>
      /\ melt' = [melt EXCEPT ![q] = InState(melt[q], m.state)]
  BY DEF PaymentAnswered, At, mints
<1>2. q \in MeltQuotes /\ melt[q] \in MeltQuoteType /\ melt[q] # None
  BY <1>1, PayingQuote
<1>3. /\ sourceMint \in [MeltQuotes -> [state : {"Unpaid", "Pending", "Paid"}, fee : Nat]]
      /\ tx \in [MeltQuotes -> Fee]
  BY DEF TransferInv, TransferTypeOK
<1>4. m.state \in {"Unpaid", "Pending", "Paid"} /\ m.fee \in Nat
      /\ m = [state |-> m.state, fee |-> m.fee]
  BY <1>2, <1>3
<1>5. InState(melt[q], m.state) \in MeltQuoteType
      /\ InState(melt[q], m.state).invoice = melt[q].invoice
  BY <1>2, <1>4 DEF MeltQuoteType, InState, MeltQuote
<1>6. CASE m.state # "Paid" /\ UNCHANGED tx /\ Bail
  <2>1. \A p \in MeltQuotes : tx'[p] # None => sourceMint[p] = [state |-> "Paid", fee |-> tx'[p]]
    BY <1>6 DEF TransferInv, LibraryOK
  <2>2. /\ melt' \in [MeltQuotes -> MeltQuoteType \cup {None}]
        /\ Grown(melt, mint, sourceMint, melt', mint', sourceMint')
        /\ LibraryOK'
    BY <1>1, <1>2, <1>5, <2>1, MeltQuoteChanged
  <2>3. CallOK' /\ Received'
    BY <1>6 DEF Bail, CallOK, Received
  <2>4. TransferTypeOK' /\ Journal'
    BY <1>1, <1>6, <2>2 DEF TransferInv, TransferTypeOK, Journal, Bail
  <2> QED BY <1>1, <2>2, <2>3, <2>4, QuotesStep
<1>7. CASE m.state = "Paid" /\ tx' = [tx EXCEPT ![q] = m.fee]
           /\ SaveThen(WithFeePaid(s, m.fee), "paid")
  <2>1. /\ tx' \in [MeltQuotes -> Fee]
        /\ \A p \in MeltQuotes : tx'[p] # None => sourceMint[p] = [state |-> "Paid", fee |-> tx'[p]]
    BY <1>2, <1>3, <1>4, <1>7 DEF TransferInv, LibraryOK, Fee
  <2>2. /\ melt' \in [MeltQuotes -> MeltQuoteType \cup {None}]
        /\ Grown(melt, mint, sourceMint, melt', mint', sourceMint')
        /\ LibraryOK'
    BY <1>1, <1>2, <1>5, <2>1, MeltQuoteChanged
  <2> DEFINE n == WithFeePaid(s, m.fee)
  <2>3. /\ n \in SagaType /\ n.request = call.request
        /\ SagaOK(n, melt, mint, sourceMint) /\ n.melt_quote = q
        /\ Holding(With("save", "paid", n), n)
        /\ CarriesOn(n, sagas[call.request.transfer_id])
    BY <1>1, <1>4, <1>7, FeePaid
  <2> HIDE DEF n
  <2>4. SagaOK(n, melt', mint', sourceMint')
    BY <2>2, <2>3, SagaKept
  <2>5. /\ \A p \in MintQuotes : mint[p] # None /\ invoice[p] = "Issued" => mint[p].held
        /\ \A id \in TransferIds : sagas[id] # None /\ sagas[id].melt_quote = n.melt_quote
                                     => id = call.request.transfer_id
    BY <1>1, <1>2, <2>3, Loaded
  <2>6. SaveThen(n, "paid")
    BY <1>7 DEF n
  <2>7. CallOK' /\ Received' /\ call' \in CallType
    BY <1>1, <2>3, <2>4, <2>5, <2>6, SaveCall DEF Control
  <2>8. TransferTypeOK' /\ Journal'
    BY <1>1, <2>1, <2>2, <2>7 DEF TransferInv, TransferTypeOK, Journal
  <2> QED BY <1>1, <2>2, <2>7, <2>8, QuotesStep
<1> QED BY <1>6, <1>7 DEF PaymentAnswered

\* The durable transaction of the quote has the fee.
LEMMA RecordStep ==
    ASSUME TransferInv, RecordPayment
    PROVE  TransferInv'
<1> DEFINE s == call.saga
           q == call.saga.melt_quote
           fee == tx[q]
<1>1. call # None /\ call.pc = "paid" /\ UNCHANGED <<wallet, mints, now, interrupts>>
  BY DEF RecordPayment, At
<1>2. now' \in Nat /\ interrupts' \in Nat
      /\ UNCHANGED <<sagas, melt, tx, mint, sourceMint, invoice>>
  BY <1>1 DEF TransferInv, TransferTypeOK, wallet, mints
<1>3. CASE fee = None
  BY <1>1, <1>2, <1>3, BailStep DEF RecordPayment, Bail
<1>4. CASE fee # None
  <2> DEFINE n == WithFeePaid(s, fee)
  <2>1. q \in MeltQuotes
    BY <1>1, PayingQuote
  <2>2. fee \in Nat /\ sourceMint[q] = [state |-> "Paid", fee |-> fee]
    BY <1>4, <2>1 DEF TransferInv, TransferTypeOK, LibraryOK, Fee
  <2>3. /\ n \in SagaType /\ n.request = call.request
        /\ SagaOK(n, melt, mint, sourceMint) /\ n.melt_quote = q
        /\ Holding(With("save", "issue", n), n)
        /\ CarriesOn(n, sagas[call.request.transfer_id])
    BY <1>1, <2>2, FeePaid
  <2>4. SaveThen(n, "issue")
    BY <1>4 DEF RecordPayment, SaveThen
  <2> HIDE DEF n
  <2>5. /\ \A p \in MintQuotes : mint[p] # None /\ invoice[p] = "Issued" => mint[p].held
        /\ \A id \in TransferIds : sagas[id] # None /\ sagas[id].melt_quote = n.melt_quote
                                     => id = call.request.transfer_id
    BY <1>1, <2>1, <2>3, Loaded
  <2>6. CallOK' /\ Received' /\ call' \in CallType
    BY <1>1, <1>2, <2>3, <2>4, <2>5, SaveCall DEF Control
  <2> QED BY <1>1, <1>2, <2>6, CallStep
<1> QED BY <1>3, <1>4

\* One mint quote changes, keeping its amount and what has arrived.
LEMMA MintQuoteChanged ==
    ASSUME TransferInv, NEW q \in MintQuotes, mint[q] # None, NEW m \in MintQuoteType,
           m.amount = mint[q].amount, mint[q].held => m.held,
           mint' = [mint EXCEPT ![q] = m], UNCHANGED <<melt, tx, sourceMint>>,
           m.state = "Issued" => invoice'[q] = "Issued",
           \A p \in MintQuotes : p # q => invoice'[p] = invoice[p]
    PROVE  /\ mint' \in [MintQuotes -> MintQuoteType \cup {None}]
           /\ mint'[q] = m /\ m # None
           /\ \A p \in MintQuotes : p # q => mint'[p] = mint[p]
           /\ Grown(melt, mint, sourceMint, melt', mint', sourceMint')
           /\ LibraryOK'
<1>1. mint \in [MintQuotes -> MintQuoteType \cup {None}]
  BY DEF TransferInv, TransferTypeOK
<1>2. mint' \in [MintQuotes -> MintQuoteType \cup {None}] /\ mint'[q] = m
      /\ \A p \in MintQuotes : p # q => mint'[p] = mint[p]
  BY <1>1
<1>3. m # None
  OBVIOUS
<1>4. Grown(melt, mint, sourceMint, melt', mint', sourceMint')
  BY <1>2, <1>3 DEF Grown
<1>5. ASSUME NEW p \in MeltQuotes, melt[p] # None
      PROVE  mint'[melt[p].invoice] # None
  <2>1. mint[melt[p].invoice] # None /\ melt[p].invoice \in MintQuotes
    BY <1>5 DEF TransferInv, LibraryOK, TransferTypeOK, MeltQuoteType
  <2> QED BY <1>2, <1>3, <2>1
<1>6. ASSUME NEW p \in MintQuotes
      PROVE  /\ invoice'[p] # "Unpaid" => mint'[p] # None
             /\ mint'[p] # None /\ mint'[p].state = "Issued" => invoice'[p] = "Issued"
  <2>1. /\ invoice[p] # "Unpaid" => mint[p] # None
        /\ mint[p] # None /\ mint[p].state = "Issued" => invoice[p] = "Issued"
    BY DEF TransferInv, LibraryOK
  <2> QED BY <1>2, <1>3, <2>1
<1>7. LibraryOK'
  BY <1>5, <1>6 DEF TransferInv, LibraryOK
<1> QED BY <1>2, <1>3, <1>4, <1>7

\* The saga of a call that collects names a mint quote.
LEMMA CollectingQuote ==
    ASSUME TransferInv, call # None, call.pc \in {"issue", "receive", "finish"}
    PROVE  /\ call.saga.mint_quote \in MintQuotes
           /\ mint[call.saga.mint_quote] \in MintQuoteType
           /\ mint[call.saga.mint_quote] # None
           /\ mint[call.saga.mint_quote].amount = call.request.amount
<1>1. call.saga \in SagaType /\ SagaOK(call.saga, melt, mint, sourceMint)
      /\ Holding(call, call.saga) /\ call.saga.request = call.request
  BY Loaded
<1>2. call.saga.mint_quote # None
  BY <1>1 DEF Holding, Towards
<1>3. call.saga.mint_quote \in MintQuotes /\ mint[call.saga.mint_quote] # None
      /\ mint[call.saga.mint_quote].amount = call.request.amount
  BY <1>1, <1>2, SagaFields DEF SagaOK
<1> QED BY <1>3 DEF TransferInv, TransferTypeOK

\* Issuing: proofs that the mint gave out are still to be received.
LEMMA IssueStep ==
    ASSUME TransferInv, IssueDestination
    PROVE  TransferInv'
<1> DEFINE s == call.saga
           q == call.saga.mint_quote
           m == MintQuote(mint[q].amount, invoice[q], mint[q].held)
<1>1. call # None /\ call.pc = "issue" /\ UNCHANGED <<sagas, melt, tx, sourceMint, now, interrupts>>
      /\ mint' = [mint EXCEPT ![q] = m]
  BY DEF IssueDestination, At, Refreshed
<1>2. q \in MintQuotes /\ mint[q] \in MintQuoteType /\ mint[q] # None
  BY <1>1, CollectingQuote
<1>3. invoice \in [MintQuotes -> {"Unpaid", "Paid", "Issued"}]
  BY DEF TransferInv, TransferTypeOK
<1>4. m \in MintQuoteType /\ m.amount = mint[q].amount /\ m.held = mint[q].held
      /\ m.state = invoice[q]
  BY <1>2, <1>3 DEF MintQuoteType, MintQuote
<1> HIDE DEF m
<1>5. /\ invoice' \in [MintQuotes -> {"Unpaid", "Paid", "Issued"}]
      /\ \A p \in MintQuotes : p # q => invoice'[p] = invoice[p]
      /\ invoice[q] = "Issued" => invoice'[q] = "Issued"
  BY <1>2, <1>3 DEF IssueDestination
<1>6. /\ mint' \in [MintQuotes -> MintQuoteType \cup {None}]
      /\ mint'[q] = m /\ \A p \in MintQuotes : p # q => mint'[p] = mint[p]
      /\ Grown(melt, mint, sourceMint, melt', mint', sourceMint')
      /\ LibraryOK'
  BY <1>1, <1>2, <1>4, <1>5, MintQuoteChanged
<1>7. /\ \A p \in MintQuotes : mint[p] # None /\ invoice[p] = "Issued" => mint[p].held
      /\ Holding(call, s)
  BY <1>1, Loaded
<1>8. Journal'
  BY <1>1 DEF TransferInv, Journal
<1>9. CallOK' /\ Received' /\ call' \in CallType \cup {None}
  <2>1. CASE Bail
    BY <2>1 DEF Bail, CallOK, Received
  <2>2. CASE invoice[q] = "Issued" /\ Goto("finish") /\ UNCHANGED invoice
    <3>1. Holding(With("finish", "finish", s), s)
      BY <1>1, <1>7 DEF Holding, Towards, With
    <3>2. \A p \in MintQuotes : mint'[p] # None /\ invoice'[p] = "Issued" => mint'[p].held
      BY <1>2, <1>4, <1>6, <1>7, <2>2
    <3> QED BY <1>1, <1>6, <2>2, <3>1, <3>2, GotoCall DEF Control
  <2>3. CASE invoice' = [invoice EXCEPT ![q] = "Issued"] /\ Goto("receive")
    <3>1. Holding(With("receive", "receive", s), s)
      BY <1>1, <1>7 DEF Holding, Towards, With
    <3>2. invoice'[q] = "Issued"
      BY <1>2, <1>3, <2>3
    <3>3. \A p \in MintQuotes : mint'[p] # None /\ invoice'[p] = "Issued" =>
              mint'[p].held \/ p = q
      BY <1>5, <1>6, <1>7
    <3> QED BY <1>1, <1>6, <2>3, <3>1, <3>2, <3>3, GotoCall DEF Control
  <2> QED BY <2>1, <2>2, <2>3 DEF IssueDestination
<1>10. TransferTypeOK'
  BY <1>1, <1>5, <1>6, <1>9 DEF TransferInv, TransferTypeOK
<1> QED BY <1>1, <1>6, <1>8, <1>9, <1>10, QuotesStep

LEMMA ReceiveStep ==
    ASSUME TransferInv, ReceiveProofs
    PROVE  TransferInv'
<1> DEFINE s == call.saga
           q == call.saga.mint_quote
           m == MintQuote(mint[q].amount, "Issued", TRUE)
<1>1. call # None /\ call.pc = "receive" /\ Goto("finish")
      /\ UNCHANGED <<sagas, melt, tx, sourceMint, invoice, now, interrupts>>
      /\ mint' = [mint EXCEPT ![q] = m]
  BY DEF ReceiveProofs, At, mints
<1>2. q \in MintQuotes /\ mint[q] \in MintQuoteType /\ mint[q] # None
  BY <1>1, CollectingQuote
<1>3. m \in MintQuoteType /\ m.amount = mint[q].amount /\ m.held
  BY <1>2 DEF MintQuoteType, MintQuote
<1>4. invoice[q] = "Issued"
  BY <1>1 DEF TransferInv, CallOK
<1> HIDE DEF m
<1>5. /\ mint' \in [MintQuotes -> MintQuoteType \cup {None}]
      /\ mint'[q] = m /\ \A p \in MintQuotes : p # q => mint'[p] = mint[p]
      /\ Grown(melt, mint, sourceMint, melt', mint', sourceMint')
      /\ LibraryOK'
  BY <1>1, <1>2, <1>3, <1>4, MintQuoteChanged
<1>6. Holding(With("finish", "finish", s), s)
  BY <1>1, Loaded DEF Holding, Towards, With
<1>7. \A p \in MintQuotes : mint'[p] # None /\ invoice'[p] = "Issued" => mint'[p].held
  BY <1>1, <1>3, <1>5 DEF TransferInv, Received
<1>8. CallOK' /\ Received' /\ call' \in CallType
  BY <1>1, <1>5, <1>6, <1>7, GotoCall DEF Control
<1>9. TransferTypeOK' /\ Journal'
  BY <1>1, <1>5, <1>8 DEF TransferInv, TransferTypeOK, Journal
<1> QED BY <1>1, <1>5, <1>8, <1>9, QuotesStep

\* A result is stored once the proofs have arrived and the fee is accepted.
LEMMA FinishStep ==
    ASSUME TransferInv, Finish
    PROVE  TransferInv'
<1> DEFINE s == call.saga
           q == call.saga.mint_quote
<1>1. call # None /\ call.pc = "finish" /\ UNCHANGED <<wallet, mints, now, interrupts>>
  BY DEF Finish, At
<1>2. now' \in Nat /\ interrupts' \in Nat
      /\ UNCHANGED <<sagas, melt, tx, mint, sourceMint, invoice>>
  BY <1>1 DEF TransferInv, TransferTypeOK, wallet, mints
<1>3. CASE Bail
  BY <1>1, <1>2, <1>3, BailStep
<1>4. CASE /\ mint[q].state = "Issued" /\ FeeAccepted
           /\ SaveThen(WithResult(s), "return")
  <2> DEFINE n == WithResult(s)
  <2>1. q \in MintQuotes /\ mint[q] # None
    BY <1>1, CollectingQuote
  <2>2. mint[q].held
    BY <1>1, <1>4, <2>1 DEF TransferInv, LibraryOK, Received
  <2>3. /\ s \in SagaType /\ s.request = call.request
        /\ SagaOK(s, melt, mint, sourceMint) /\ Holding(call, s)
        /\ sagas[call.request.transfer_id] = s
        /\ \A p \in MintQuotes : mint[p] # None /\ invoice[p] = "Issued" => mint[p].held
        /\ s.melt_quote # None =>
              \A id \in TransferIds : sagas[id] # None /\ sagas[id].melt_quote = s.melt_quote
                                        => id = call.request.transfer_id
    BY <1>1, Loaded
  <2>4. /\ n \in SagaType /\ n.request = s.request /\ n.mint_quote = q
        /\ n.melt_quote = s.melt_quote /\ n.reserve = s.reserve /\ n.wallet_fee = s.wallet_fee
        /\ n.fee_paid = s.fee_paid /\ n.result = s.fee_paid
    BY <2>3, SagaFields DEF WithResult, Saga
  <2>5. s.result = None /\ s.fee_paid # None /\ s.fee_paid <= call.request.max_fee
    BY <1>1, <1>4, <2>3 DEF Holding, Towards, FeeAccepted
  <2> HIDE DEF n
  <2>6. SagaOK(n, melt, mint, sourceMint)
    BY <2>2, <2>3, <2>4, <2>5 DEF SagaOK
  <2>7. Holding(With("save", "return", n), n)
    BY <2>1, <2>4, <2>5 DEF Holding, Towards, With
  <2>8. CarriesOn(n, sagas[call.request.transfer_id])
    BY <2>3, <2>4, <2>5 DEF CarriesOn, Keeps
  <2>9. SaveThen(n, "return")
    BY <1>4 DEF n
  <2>10. CallOK' /\ Received' /\ call' \in CallType
    BY <1>1, <1>2, <2>3, <2>4, <2>6, <2>7, <2>8, <2>9, SaveCall DEF Control
  <2> QED BY <1>1, <1>2, <2>10, CallStep
<1> QED BY <1>3, <1>4 DEF Finish

-----------------------------------------------------------------------------
(* The mints.                                                               *)

\* A source mint that decides a pending payment contradicts nobody: no
\* transaction is recorded and no saga knows a fee yet.
LEMMA SourceStep ==
    ASSUME TransferInv, NEW q \in MeltQuotes, sourceMint[q].state = "Pending",
           NEW r \in [state : {"Unpaid", "Pending", "Paid"}, fee : Nat],
           sourceMint' = [sourceMint EXCEPT ![q] = r],
           UNCHANGED <<wallet, call, invoice, now, interrupts>>
    PROVE  TransferInv'
<1>1. UNCHANGED <<sagas, melt, tx, mint, call, invoice, now, interrupts>>
  BY DEF wallet
<1>2. sourceMint \in [MeltQuotes -> [state : {"Unpaid", "Pending", "Paid"}, fee : Nat]]
  BY DEF TransferInv, TransferTypeOK
<1>3. sourceMint' \in [MeltQuotes -> [state : {"Unpaid", "Pending", "Paid"}, fee : Nat]]
      /\ sourceMint'[q] = r /\ \A p \in MeltQuotes : p # q => sourceMint'[p] = sourceMint[p]
  BY <1>2
<1>4. Grown(melt, mint, sourceMint, melt', mint', sourceMint')
  BY <1>1, <1>3 DEF Grown
<1>5. CallOK'
  BY <1>1, <1>4, CallKept
<1>6. Received'
  BY <1>1 DEF TransferInv, Received
<1>7. Journal'
  BY <1>1, <1>3 DEF TransferInv, Journal
<1>8. LibraryOK'
  <2>1. tx[q] # None => sourceMint[q] = [state |-> "Paid", fee |-> tx[q]]
    BY DEF TransferInv, LibraryOK
  <2>2. tx[q] = None
    BY <2>1
  <2> QED BY <1>1, <1>3, <2>2 DEF TransferInv, LibraryOK
<1>9. TransferTypeOK'
  BY <1>1, <1>3 DEF TransferInv, TransferTypeOK
<1> QED BY <1>1, <1>4, <1>5, <1>6, <1>7, <1>8, <1>9, QuotesStep

\* The fee of a payment is a number, because the quote that is paid is one
\* that the wallet knows: a saga names it.
LEMMA SourcePaysStep ==
    ASSUME TransferInv, NEW q \in MeltQuotes, SourcePays(q)
    PROVE  TransferInv'
<1>1. PICK id \in TransferIds : sagas[id] # None /\ sagas[id].melt_quote = q
  BY DEF SourcePays, TransferInv, Journal
<1>2. melt[q] # None
  BY <1>1 DEF TransferInv, SagasOK, SagaOK
<1>3. melt[q] \in MeltQuoteType
  BY <1>2 DEF TransferInv, TransferTypeOK
<1>4. melt[q].reserve \in Nat /\ melt[q].input_fee \in Nat
  BY <1>3 DEF MeltQuoteType
<1>5. PICK fee \in 0..(melt[q].reserve + melt[q].input_fee + Overcharge) :
          sourceMint' = [sourceMint EXCEPT ![q] = [state |-> "Paid", fee |-> fee]]
  BY DEF SourcePays
<1>6. [state |-> "Paid", fee |-> fee] \in [state : {"Unpaid", "Pending", "Paid"}, fee : Nat]
  BY <1>4
<1> QED BY <1>5, <1>6, SourceStep DEF SourcePays

LEMMA SourceFailsStep ==
    ASSUME TransferInv, NEW q \in MeltQuotes, SourceFails(q)
    PROVE  TransferInv'
<1>1. [state |-> "Unpaid", fee |-> 0] \in [state : {"Unpaid", "Pending", "Paid"}, fee : Nat]
  OBVIOUS
<1> QED BY <1>1, SourceStep DEF SourceFails

\* The invoice that is paid belongs to a quote the destination wallet knows.
LEMMA InvoicePaidStep ==
    ASSUME TransferInv, NEW q \in MintQuotes, InvoicePaid(q)
    PROVE  TransferInv'
<1>1. UNCHANGED <<sagas, melt, tx, mint, call, sourceMint, now, interrupts>>
      /\ invoice[q] = "Unpaid" /\ invoice' = [invoice EXCEPT ![q] = "Paid"]
  BY DEF InvoicePaid, wallet
<1>2. invoice \in [MintQuotes -> {"Unpaid", "Paid", "Issued"}]
  BY DEF TransferInv, TransferTypeOK
<1>3. invoice' \in [MintQuotes -> {"Unpaid", "Paid", "Issued"}]
      /\ invoice'[q] = "Paid" /\ \A p \in MintQuotes : p # q => invoice'[p] = invoice[p]
  BY <1>1, <1>2
<1>4. mint[q] # None
  BY DEF InvoicePaid, TransferInv, LibraryOK
<1>5. Grown(melt, mint, sourceMint, melt', mint', sourceMint')
  BY <1>1 DEF Grown
<1>6. CallOK'
  BY <1>1, <1>3, <1>5, CallKept
<1>7. Received'
  BY <1>1, <1>3 DEF TransferInv, Received
<1>8. Journal'
  BY <1>1 DEF TransferInv, Journal
<1>9. LibraryOK'
  <2>1. ASSUME NEW p \in MintQuotes
        PROVE  /\ invoice'[p] # "Unpaid" => mint[p] # None
               /\ mint[p] # None /\ mint[p].state = "Issued" => invoice'[p] = "Issued"
    BY <1>1, <1>3, <1>4 DEF TransferInv, LibraryOK
  <2> QED BY <1>1, <2>1 DEF TransferInv, LibraryOK
<1>10. TransferTypeOK'
  BY <1>1, <1>3 DEF TransferInv, TransferTypeOK
<1> QED BY <1>1, <1>5, <1>6, <1>7, <1>8, <1>9, <1>10, QuotesStep

\* Steps that only end the call.
LEMMA EndStep ==
    ASSUME TransferInv, QuoteRefused \/ Return \/ Interrupt
    PROVE  TransferInv'
<1>1. now \in Nat /\ interrupts \in Nat
  BY DEF TransferInv, TransferTypeOK
<1>2. UNCHANGED <<wallet, mints>> /\ Bail /\ now' \in Nat /\ interrupts' \in Nat
  BY <1>1 DEF QuoteRefused, Return, Interrupt
<1> QED BY <1>2, BailStep

LEMMA StutterStep ==
    ASSUME TransferInv, UNCHANGED <<wallet, mints, call>>, now' \in Nat, interrupts' \in Nat
    PROVE  TransferInv'
<1>1. UNCHANGED <<sagas, melt, tx, mint, sourceMint, invoice, call>>
  BY DEF wallet, mints
<1>2. CallOK' /\ Received' /\ call' \in CallType \cup {None}
  BY <1>1 DEF TransferInv, TransferTypeOK, CallOK, Received
<1> QED BY <1>2, CallStep

\* The invariant is inductive.
LEMMA TransferInduction == TransferInv /\ [Next]_vars => TransferInv'
<1> SUFFICES ASSUME TransferInv, [Next]_vars PROVE TransferInv'
  OBVIOUS
<1>0. now \in Nat /\ interrupts \in Nat
  BY DEF TransferInv, TransferTypeOK
<1>1. CASE \E a \in Authorizations : Execute(a)
  BY <1>1, ExecuteStep
<1>2. CASE Step
  BY <1>2, RecoverStep, LoadStep, SaveStep, RequestMintStep, HaveMintStep, RequestMeltStep,
     HaveMeltStep, EndStep, CheckStep, PrepareStep, ConfirmStep, SendStep, AnsweredStep,
     RecordStep, IssueStep, ReceiveStep, FinishStep DEF Step
<1>3. CASE Interrupt
  BY <1>3, EndStep
<1>4. CASE \E q \in MeltQuotes : SourcePays(q) \/ SourceFails(q)
  BY <1>4, SourcePaysStep, SourceFailsStep
<1>5. CASE \E q \in MintQuotes : InvoicePaid(q)
  BY <1>5, InvoicePaidStep
<1>6. CASE Tick
  BY <1>0, <1>6, StutterStep DEF Tick
<1>7. CASE UNCHANGED vars
  BY <1>0, <1>7, StutterStep DEF vars, wallet, mints
<1> QED BY <1>1, <1>2, <1>3, <1>4, <1>5, <1>6, <1>7 DEF Next

LEMMA TransferInvariant == Spec => []TransferInv
BY InitTransfer, TransferInduction, PTL DEF Spec

-----------------------------------------------------------------------------
(* What the wallet's callers rely on.                                       *)

\* The durable records keep their shape and a saga is filled in order,
\* whatever the mints quote and wherever calls are interrupted.
THEOREM TransferTypeCorrect == Spec => []TransferTypeOK
<1>1. TransferInv => TransferTypeOK
  BY DEF TransferInv
<1> QED BY <1>1, TransferInvariant, PTL

\* The source mint is asked to pay only a melt quote that a saga on disk
\* names, for the exact amount and with the reserve and the wallet's fees
\* within the caller's maximum.
THEOREM JournaledBeforePaid == Spec => []PaymentsJournaled
<1>1. ASSUME TransferInv PROVE PaymentsJournaled
  <2> SUFFICES ASSUME NEW q \in MeltQuotes, sourceMint[q].state # "Unpaid"
               PROVE  \E id \in TransferIds :
                        /\ sagas[id] # None /\ sagas[id].melt_quote = q
                        /\ melt[q].invoice = sagas[id].mint_quote
                        /\ mint[sagas[id].mint_quote].amount = sagas[id].request.amount
                        /\ sagas[id].reserve + sagas[id].wallet_fee
                             <= sagas[id].request.max_fee
    BY DEF PaymentsJournaled
  <2>1. PICK id \in TransferIds : sagas[id] # None /\ sagas[id].melt_quote = q
                                    /\ sagas[id].wallet_fee # None
    BY <1>1 DEF TransferInv, Journal
  <2>2. SagaOK(sagas[id], melt, mint, sourceMint)
    BY <1>1, <2>1 DEF TransferInv, SagasOK
  <2> QED BY <2>1, <2>2 DEF SagaOK
<1> QED BY <1>1, TransferInvariant, PTL

\* A saga stores a result only when the source mint has taken exactly the
\* reported fee, within the maximum, and the destination wallet holds the
\* proofs of the exact amount.
THEOREM ResultIsTrue == Spec => []ResultIsDelivered
<1>1. ASSUME TransferInv PROVE ResultIsDelivered
  <2> SUFFICES ASSUME NEW id \in TransferIds, sagas[id] # None, sagas[id].result # None
               PROVE  /\ sourceMint[sagas[id].melt_quote]
                            = [state |-> "Paid", fee |-> sagas[id].result]
                      /\ sagas[id].result <= sagas[id].request.max_fee
                      /\ mint[sagas[id].mint_quote].held
                      /\ mint[sagas[id].mint_quote].amount = sagas[id].request.amount
    BY DEF ResultIsDelivered
  <2>1. SagaOK(sagas[id], melt, mint, sourceMint)
    BY <1>1 DEF TransferInv, SagasOK
  <2> QED BY <2>1 DEF SagaOK
<1> QED BY <1>1, TransferInvariant, PTL

\* No step but a save changes a saga, and what a save writes carries on the
\* saga on disk.
LEMMA FinalStep ==
    ASSUME TransferInv, [Next]_vars, NEW id \in TransferIds, sagas[id] # None
    PROVE  /\ sagas'[id] # None
           /\ sagas'[id].request = sagas[id].request
           /\ Keeps(sagas[id].mint_quote, sagas'[id].mint_quote)
           /\ Keeps(sagas[id].melt_quote, sagas'[id].melt_quote)
           /\ Keeps(sagas[id].result, sagas'[id].result)
<1>1. CASE SaveSaga
  <2>1. /\ call # None /\ call.pc = "save"
        /\ sagas' = [sagas EXCEPT ![call.request.transfer_id] = call.saga]
    BY <1>1 DEF SaveSaga, At
  <2>2. sagas \in [TransferIds -> SagaType \cup {None}]
    BY DEF TransferInv, TransferTypeOK
  <2>3. CASE id = call.request.transfer_id
    <3>1. call.saga # None /\ CarriesOn(call.saga, sagas[id])
      BY <2>1, <2>3 DEF TransferInv, CallOK
    <3>2. sagas'[id] = call.saga
      BY <2>1, <2>2, <2>3
    <3> QED BY <3>1, <3>2 DEF CarriesOn, Keeps
  <2>4. CASE id # call.request.transfer_id
    BY <2>1, <2>2, <2>4 DEF Keeps
  <2> QED BY <2>3, <2>4
<1>2. CASE ~SaveSaga
  <2>1. sagas' = sagas
    BY <1>2 DEF Next, Step, vars, wallet, Execute, Recover, LoadSaga, RequestMintQuote,
       HaveMintQuote, RequestMeltQuote, HaveMeltQuote, QuoteRefused, CheckPayment,
       PreparePayment, ConfirmPayment, SendPayment, PaymentAnswered, RecordPayment,
       IssueDestination, ReceiveProofs, Finish, Return, Interrupt, SourcePays, SourceFails,
       InvoicePaid, Tick
  <2> QED BY <2>1 DEF Keeps
<1> QED BY <1>1, <1>2

\* The request, the quotes and the result of a saga are never replaced: a
\* retry after any interruption goes on with the same payment.
THEOREM SagaFinality == Spec => SagaIsFinal
<1>1. TransferInv /\ [Next]_vars =>
        [\A id \in TransferIds : sagas[id] # None =>
          /\ sagas'[id] # None
          /\ sagas'[id].request = sagas[id].request
          /\ Keeps(sagas[id].mint_quote, sagas'[id].mint_quote)
          /\ Keeps(sagas[id].melt_quote, sagas'[id].melt_quote)
          /\ Keeps(sagas[id].result, sagas'[id].result)]_vars
  BY FinalStep
<1> QED BY <1>1, TransferInvariant, PTL DEF Spec, SagaIsFinal

\* Only SendPayment starts a payment.
LEMMA StartStep ==
    ASSUME TransferInv, [Next]_vars, NEW q \in MeltQuotes, StartsPayment(q)
    PROVE  call.started < call.deadline
<1>1. CASE SendPayment
  <2>1. call # None /\ call.pc = "send"
    BY <1>1 DEF SendPayment, At
  <2>2. Holding(call, call.saga) /\ (call.allow_new => call.started < call.deadline)
    BY <2>1 DEF TransferInv, CallOK
  <2> QED BY <2>1, <2>2 DEF Holding, Towards
<1>2. CASE \E p \in MeltQuotes : SourcePays(p) \/ SourceFails(p)
  <2>1. PICK p \in MeltQuotes : SourcePays(p) \/ SourceFails(p)
    BY <1>2
  <2>2. sourceMint \in [MeltQuotes -> [state : {"Unpaid", "Pending", "Paid"}, fee : Nat]]
    BY DEF TransferInv, TransferTypeOK
  <2>3. sourceMint[p].state = "Pending"
        /\ \E r : sourceMint' = [sourceMint EXCEPT ![p] = r]
    BY <2>1 DEF SourcePays, SourceFails
  <2>4. p # q /\ sourceMint'[q] = sourceMint[q]
    BY <2>2, <2>3 DEF StartsPayment
  <2> QED BY <2>4 DEF StartsPayment
<1>3. CASE ~SendPayment /\ ~\E p \in MeltQuotes : SourcePays(p) \/ SourceFails(p)
  <2>1. sourceMint' = sourceMint
    BY <1>3 DEF Next, Step, vars, mints, Execute, Recover, LoadSaga, SaveSaga,
       RequestMintQuote, HaveMintQuote, RequestMeltQuote, HaveMeltQuote, QuoteRefused,
       CheckPayment, PreparePayment, ConfirmPayment, PaymentAnswered, RecordPayment,
       IssueDestination, ReceiveProofs, Finish, Return, Interrupt, InvoicePaid, Tick
  <2> QED BY <2>1 DEF StartsPayment
<1> QED BY <1>1, <1>2, <1>3

\* A call that began after the deadline of its authorization never starts a
\* payment, although the deadline is tested once, at its beginning.
THEOREM LateCallsOnlyResume == Spec => LateCallsNeverPay
<1>1. TransferInv /\ [Next]_vars =>
        [\A q \in MeltQuotes : StartsPayment(q) => call.started < call.deadline]_vars
  BY StartStep
<1> QED BY <1>1, TransferInvariant, PTL DEF Spec, LateCallsNeverPay

=============================================================================
