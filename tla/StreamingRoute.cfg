SPECIFICATION RouteSpec
CONSTANTS
    Terms <- SmallTerms
    MsatPerSat = 4
    MaxWord = 63
    MaxChunk = 2
    MaxDelivered = 12
    MaxPayments = 4
INVARIANTS
    SellerRisk
    CreditBacked
    RouteResumable
