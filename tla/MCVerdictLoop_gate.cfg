SPECIFICATION FeedbackSpec
CONSTANTS
    static = static  tamper = tamper  artifacts = artifacts  tests = tests
    size = size  hotspot = hotspot  removal = removal  cargo = cargo  nothing = nothing
    Engines = {static, tamper, artifacts, tests}
    Metrics = {size, hotspot, removal, cargo, nothing}
    About <- MCAbout
    MaxValue = 3
    NoCommand = NoCommand
    Changes <- MCChanges
    Of <- MCOf
    Worktree <- MCWorktree
    ContentEngines <- MCContentEngines
    Tests = tests
    Flaky = {artifacts, tests}
    Contention = TRUE
    MaxCount = 2
    NoChange = NoChange
    NoRecord = NoRecord
    Paths <- MCPaths
    Spelling <- MCSpelling
    Authors = {1, 2}
    Gits = {"git2.39", "git2.45"}
    Slop <- MCSlop
    WindowDays = 10
    Complexity <- MCComplexity
    COUPLING_MIN_SUPPORT = 2
    COUPLING_MAX_COMMIT_PATHS = 2
    FRACTIONAL_BITS = 12
    MICROBITS_PER_BIT = 1000
    Histories <- MCHistories
    Anchors <- MCAnchors
    Depths = {1, 3}
    Clones = {"dev", "ci"}
    agent = agent
    hook = hook
    verifier = verifier
    Processes = {agent, hook, verifier}
    HomeOf <- MCHomeOf
    MaxFetches = 1
    MaxReports = 2
SYMMETRY Symmetry
INVARIANTS
    FiredFlagStops
    EditsCannotSoften
    WorseIsNeverSofter
    HonestPairsAgree
    WindowIsWhole
PROPERTIES
    StopsStand
CHECK_DEADLOCK FALSE
