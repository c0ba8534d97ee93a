SPECIFICATION Spec
CONSTANTS
    Peers = {"a", "b", "x", "me"}
    Issuers = {"a", "b"}
    Counterparty = "me"
    Policy <- LargePolicy
    MaxTotalPeerCredit = 4
    U64Max = 4
    Ids = {"1", "2", "3", "r", "blank"}
    Blank = "blank"
    None = None
    Claims <- LargeClaims
    Novations <- LargeNovations
    Deposits <- Nothing
    BackedSettlements <- Nothing
    Consumptions <- Nothing
    SettlementRequests <- Nothing
    Times = {0, 1, 2}
    Fees = {}
INVARIANTS
    SnapshotRestores
CHECK_DEADLOCK FALSE
