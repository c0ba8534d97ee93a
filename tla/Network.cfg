SPECIFICATION Spec
CONSTANTS
    Mints = {"open", "closed"}
    Mode <- MCMode
    FeeSat = 1
    Amounts = {0, 1, 3}
    Lifetimes = {0, 1}
    MaxFees = {0, 1}
    EventCapacity = 1
    U64Max = 3000
    MaxInvoices = 2
    MaxTime = 1
    None = None
INVARIANTS
    NetworkTypeOK
    ReservesMatchInvoices
    NetworkConserved
    LearnedIsTrue
PROPERTY
    PaymentsAreFinal
