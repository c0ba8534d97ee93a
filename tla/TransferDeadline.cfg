SPECIFICATION Spec
CONSTANTS
    Authorizations <- OneAuthorization
    Route <- MCRoute
    TransferIds = {"t"}
    Blank = "blank"
    None = None
    MeltQuotes = {1, 2, 3}
    MintQuotes = {1, 2, 3}
    QuotedAmounts = {2}
    FeeReserves = {0}
    WalletFees = {1}
    Overcharge = 0
    MaxTime = 1
    MaxInterrupts = 0
PROPERTY
    ExpiredNeverPays
