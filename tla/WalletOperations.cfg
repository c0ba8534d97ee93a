SPECIFICATION FairSpec
CONSTANTS
    i1 = i1
    i2 = i2
    Ids = {i1, i2}
    NoId = NoId
    MaxEntries = 1
    MaxKeyset = 2
    MaxFaults = 1
INVARIANTS
    ActivityTruth
    ActivityComplete
    RequiredKeyset
PROPERTY TopupIssued
