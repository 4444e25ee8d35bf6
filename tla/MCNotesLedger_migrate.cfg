SPECIFICATION Spec
CONSTANTS
    Clones = {c1}
    Remotes = {m1}
    Commits = {k1, k2}
    Records = {r1, r2}
    Attempts = 1
    MaxVersions = 4
    MigrateAlone = FALSE
CHECK_DEADLOCK FALSE
PROPERTIES
    RecordsOnTargetSurvive
