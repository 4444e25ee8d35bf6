SPECIFICATION Spec
CONSTANTS
    p1 = p1  p2 = p2  c1 = c1  c2 = c2
    off = off  lane = lane  suite = suite
    static = static  clones = clones  artifacts = artifacts  tests = tests
    Procs = {p1, p2}
    Changes = {c1, c2}
    Policies = {off, lane, suite}
    LaneOn = {lane, suite}
    WithSuite = {suite}
    Content <- MCContent
    Inline = {artifacts}
    Suite = tests
    Silent = {artifacts}
    Fallible = {artifacts, tests}
    MaxMeasures = 3
    Crashes = TRUE
    FailedWrites = TRUE
    Attests = TRUE
SYMMETRY Symmetry
INVARIANTS
    RecordIsWhole
    MeasuringRepairs
    CalmWaitIsRun
PROPERTIES
    RecordMovesOn
CHECK_DEADLOCK FALSE
