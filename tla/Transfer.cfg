SPECIFICATION FairSpec
CONSTANTS
    Authorizations <- MCAuthorizations
    Route <- MCRoute
    TransferIds = {"t"}
    Blank = "blank"
    None = None
    MeltQuotes = {1, 2, 3}
    MintQuotes = {1, 2, 3}
    QuotedAmounts = {2, 3}
    FeeReserves = {0, 1}
    WalletFees = {0, 1}
    Overcharge = 1
    MaxTime = 1
    MaxInterrupts = 2
INVARIANTS
    TransferTypeOK
    PaymentsJournaled
    ResultIsDelivered
PROPERTIES
    SagaIsFinal
    LateCallsNeverPay
    PaidIsDelivered
