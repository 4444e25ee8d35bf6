SPECIFICATION FairSpec
CONSTANTS
    Clones = {c1, c2}
    Remotes = {m1, m2}
    Commits = {k1}
    Records = {r1, r2}
    Attempts = 2
    MaxVersions = 8
    MigrateAlone = TRUE
INVARIANTS
    SyncIsSound
PROPERTIES
    SyncEnds
    ImplementsGrowOnlyLedger
CHECK_DEADLOCK FALSE
