SPECIFICATION ClientSpec
CONSTANTS
    p1 = p1
    p2 = p2
    k1 = k1
    k2 = k2
    Procs = {p1, p2}
    SenderKeys = {k1, k2}
    NoKey = NoKey
    Terms <- OneSat
    MsatPerSat = 2
    MaxWord = 15
    MaxChunk = 1
    MaxDelivered = 1
    MaxPayments = 3
    MaxKeyset = 2
    MaxFaults = 2
SYMMETRY ClientSymmetry
INVARIANTS
    FundsTraceable
    RefundPossible
    HandedOutIsOnFile
    ClosedMeansCollected
PROPERTY RouteSpec
