SPECIFICATION Spec
CONSTANTS
    Procs = {p1, p2}
    Seeds = {s1, s2, s3}
    None = None
    Torn = Torn
    MaxDatabases = 2
    MaxRecoveryDirs = 2
    MaxCrashes = 2
SYMMETRY StartupSymmetry
INVARIANTS
    StartupTypeOK
    SeedKept
    OneSeedPerDatabase
    DatabasesKept
    FamilyTogether
