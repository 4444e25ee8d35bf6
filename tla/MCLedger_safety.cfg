SPECIFICATION NotesSpec
CONSTANTS
    Clones = {c1, c2}
    Remotes = {m1}
    Commits = {k1, k2}
    Records = {r1, r2}
    Attempts = 1
    MaxVersions = 6
    MigrateAlone = TRUE
    Keys = {"x", "z"}
    Regimes = {"v1", "v2"}
    Digests = {"d1", "d2"}
    Reports <- MCReports
    Recomputes <- MCRecomputes
    Threshold = 2
    ForkTier = FALSE
    MaxReports = 2
    MaxAttests = 2
INVARIANTS
    LedgerInv
    DecisionsAreEarned
PROPERTIES
    NothingIsLost
    MeasuringAgainBuysNothing
    DecisiveNeverSoftens
CHECK_DEADLOCK FALSE
SYMMETRY Symmetry
