SPECIFICATION Spec
CONSTANTS
    Peers = {"a", "b", "x", "me"}
    Issuers = {"a", "b"}
    Counterparty = "me"
    Policy <- MCPolicy
    MaxTotalPeerCredit = 2
    U64Max = 15
    Ids = {"1", "2", "3", "r", "blank"}
    Blank = "blank"
    None = None
    Claims <- PeerClaims
    Novations <- PeerNovations
    Deposits <- PeerDeposits
    BackedSettlements <- PeerBacked
    Consumptions <- PeerConsumptions
    SettlementRequests <- Nothing
    Times = {0, 1, 2}
    Fees = {}
INVARIANTS
    TypeOK
    ExposureBounded
    TotalIsSum
    SnapshotRestores
CHECK_DEADLOCK FALSE
