CONSTANTS
    Files = {"config", "source"}
    KeySays <- MCKeySays
    ContinuationLines = 2
    Starts <- MCStarts
    Edits <- MCEdits
    Moves <- MCMoves
    MinTable = 24
    MaxCommits = 2
    Drivers <- MCDrivers
    Unpinnable <- MCUnpinnable
    Configurations <- MCConfigurations
    Contents <- MCContents
    Environments <- MCEnvironments
    MaxEdits = 1
    ObjectKind <- MCObjectKind
    Names = {"b1", "b2", "sub", "gone", "amb", "HEAD"}
    Hexadecimal <- MCHexadecimal
    Ambiguous = {"amb"}
    MaxReads = 3
    Commits = {1, 2}
    Reports <- MCReports
    Ladders <- MCLadders
    Clock = {1, 2}
    Windows <- MCWindows
    MaxNotes = 3
    CLUSTER_MIN_SAMPLES = 5
    CLUSTER_BAND = 10
    CLUSTER_WARN = 2
    RIDER_PREFIXES <- MCRiders
    StartFiles <- MCStartFiles
    OwnerEdits <- MCOwnerEdits
    OwnerCommands = {"lint", "fmt"}
    MaxCommands = 2
    MaxOwnerEdits = 1
    KnownDays <- MCKnownDays
    MaxDays = 430
    Records <- MCRecords
    Budgets = {0, 15, 28, 40}
    DEFAULT_BUDGET = 40
    HEADER = 10
    REASON = 2
    FINDING = 1
    MaxReasons = 3
    MaxFindings = 2
    MaxHint = 4
    HEADLINE = 3
    NOTICE = 4
    MaxCalls = 4
SPECIFICATION EnginesSpec
INVARIANTS
    GitIsPinned
    ScoreIsOfTheRules
    LinesAreOfCode
    EveryFileIsAccountedFor
    GapsAreOfTheFile
    StatisticsAreOfTheRecords
    ReadsStayInStep
    EveryDayHasItsNumber
    AgentIsToldTheWorst
PROPERTIES
    TamperingIsSeen
    InitIsTold
CHECK_DEADLOCK FALSE
