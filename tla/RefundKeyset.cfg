SPECIFICATION ClientSpec
CONSTANTS
    p1 = p1
    p2 = p2
    k1 = k1
    k2 = k2
    Procs = {p1}
    SenderKeys = {k1}
    NoKey = NoKey
    Terms <- TwoSats
    MsatPerSat = 2
    MaxWord = 15
    MaxChunk = 1
    MaxDelivered = 1
    MaxPayments = 1
    MaxKeyset = 2
    MaxFaults = 0
INVARIANT RefundCollected
