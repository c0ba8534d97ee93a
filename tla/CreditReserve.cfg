SPECIFICATION Spec
CONSTANTS
    Peers = {"a", "b", "x", "me"}
    Issuers = {"a", "b"}
    Counterparty = "me"
    Policy <- MCPolicy
    MaxTotalPeerCredit = 2
    U64Max = 15
    Ids = {"1", "2", "3", "r", "blank"}
    Blank = "blank"
    None = None
    Claims <- ReserveClaims
    Novations <- Nothing
    Deposits <- ReserveDeposits
    BackedSettlements <- Nothing
    Consumptions <- ReserveConsumptions
    SettlementRequests <- ReserveRequests
    Times = {0, 1, 2}
    Fees = {0, 1, 2}
INVARIANTS
    BackingConserved
    PaidOutWithinDeposits
    PendingSettlementsFinishable
PROPERTIES
    RecordsAreFinal
CHECK_DEADLOCK FALSE
