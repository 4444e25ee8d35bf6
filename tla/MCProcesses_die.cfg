SPECIFICATION ProcessesFairSpec
CONSTANTS
    Procs = {p1, p2}
    Branches = {b1, b2}
    Changes = {h1, h2}
    NoChange = NoChange
    NoProc = NoProc
    MaxCount = 2
    Stalls = FALSE
    Crashes = TRUE
    Leftover = FALSE
    DirWritable = TRUE
    Helpers = {x1, x2}
    Rooms = {r1, r2}
    MaxRuns = 2
    Programs = {"p", "q"}
    Builds <- MCBuilds
    Sources <- MCSources
    Symbol <- MCSymbol
    Readable <- MCReadable
    Trees <- MCTrees
    Corpus <- MCCorpus
    MaxFaults = 1
    WindowTokens = 2
    MinCloneTokens = 3
    SaturatedOccurrences = 3
    RegionPairBudget = 8
    LongerBudget = 1000
    HashModulus = 16
INVARIANTS
    AnswerIsTheSuites
    NothingIsLeft
    IndexIsTransparent
    SearchIsSound
PROPERTIES
    CounterIsAtomic
    CallsReturn
    RunReturns
    IndexNeverWedged
CHECK_DEADLOCK FALSE
