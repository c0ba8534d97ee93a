SPECIFICATION Spec
CONSTANTS
    Workers = {w1, w2}
    AccountIds = {alice, bob}
    Ops = {"d1", "d2", "op"}
    DepositKeys = {"k1", "k2"}
    DepositOf <- MCDepositOf
    None = None
    MaxRevision = 2
INVARIANTS
    StoreTypeOK
    ClaimsExact
    RevisionIdentifiesHistory
PROPERTY
    ImplementsCreditLog
