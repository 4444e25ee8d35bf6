----------------------------- MODULE MCEngines -----------------------------
(***************************************************************************)
(* The parts of andon that share no state with one another, each checked    *)
(* by itself: a behaviour picks one of them and the others stay idle.       *)
(* Those extended bring their variables, the others are instantiated here.  *)
(* Each has a small instance.                                               *)
(***************************************************************************)
EXTENDS Tamper, GitRunner, BlobBatch, LedgerStats, Integration, Calendar, AgentSurface,
        SequencesExt, TLC

VARIABLE part    \* the part this behaviour is of

(***************************************************************************)
(* Tamper: one configuration file, one test file and one source file; the  *)
(* contents an author may give each are listed by what the detectors tell  *)
(* apart.                                                                  *)
(***************************************************************************)
MCKeySays ==
    [complexity |-> {"ceiling"}, indent |-> {}, limit |-> {}, strict |-> {"strict when true"},
     skipLibCheck |-> {"strict when false"}, maxSame |-> {"max-", "zero is unlimited"},
     cognitive |-> {"-threshold"}, coverage |-> {"floor"}, target |-> {"target"},
     maxSeverity |-> {"max-", "max_severity"},
     exclude |-> {"exclusion"}, collectCoverageFrom |-> {"inclusion"}]

Word(w)       == [word |-> w, num |-> NoNumber, list |-> FALSE, opt |-> NoNumber, ref |-> ""]
Num(w, n)     == [Word(w) EXCEPT !.num = n]
Rule(w, n)    == [Word(w) EXCEPT !.list = TRUE, !.opt = n]
RuleOf(w, r)  == [Word(w) EXCEPT !.list = TRUE, !.ref = r]
In(v, lines)  == [value |-> v, lines |-> lines]

Path(dirs, stem, variant, syntax) ==
    [dirs |-> dirs, stem |-> stem, variant |-> variant, syntax |-> syntax]

With(settings) == [Nothing EXCEPT !.settings = settings]

Complexities == {Rule("error", 10), Rule("error", 100), Rule("warn", 10), RuleOf("error", "limit"),
                 Word("off"), Num("2", 2)}
LintContents ==
    {With([complexity |-> In(v, 0), limit |-> In(n, 0)]) :
        v \in Complexities, n \in {Num("10", 10), Num("50", 50)}}
    \cup {With([complexity |-> In(Rule("error", n), 3)]) : n \in {10, 100}}
    \cup {With([indent |-> In(v, 0)]) : v \in {Rule("error", 2), Rule("error", 4), Word("warn")}}
LimitContents ==
    {With(<<>>)} \cup {With([maxSame |-> In(v, 0), target |-> In(w, 0)]) :
        v, w \in {Num("0", 0), Num("3", 3), Num("9", 9)}}
ComplexityContents ==
    {With(<<>>)} \cup {With([cognitive |-> In(v, 0), coverage |-> In(w, 0)]) :
        v, w \in {Num("3", 3), Num("9", 9)}}
SwitchContents ==
    {With(<<>>)} \cup {With([strict |-> In(v, 0), skipLibCheck |-> In(w, 0)]) :
        v, w \in {Word("true"), Word("false")}}

Excl(dirs, tail)  == [anchor |-> dirs, tail |-> tail, negated |-> FALSE]
Entries == {Excl(<<"src">>, "all"), Excl(<<"src", "gen">>, "all"), Excl(<<>>, "all"),
            Excl(<<"src">>, "part"), Excl(<<"lib">>, "all")}
CoverageContents ==
    {[Nothing EXCEPT !.excludes = [exclude |-> s]] : s \in {t \in SUBSET Entries : Cardinality(t) \in 1..2}}
    \cup {[Nothing EXCEPT !.excludes = [collectCoverageFrom |-> {[e EXCEPT !.negated = TRUE] : e \in s}]] :
             s \in {t \in SUBSET Entries : Cardinality(t) = 1}}

Case(title, name, group, rows, asserts, hidden) ==
    [title |-> title, name |-> name, group |-> group, rows |-> rows,
     asserts |-> asserts, hidden |-> hidden]
Plain == Case("a", {"it"}, {}, 1, 1, FALSE)
CaseLists ==
    {<<>>, <<Plain>>, <<Plain, Plain>>,
     <<Case("a", {"it", "skip"}, {}, 1, 1, FALSE), Plain>>,
     <<Case("a", {"it"}, {"describe", "skip"}, 1, 1, FALSE)>>,
     <<Case("a", {"it", "each"}, {}, 2, 1, FALSE)>>,
     <<Case("a", {"it"}, {}, 1, 0, FALSE)>>}
HiddenLists == {<<Plain, Case("a", {"it"}, {}, 1, 0, TRUE)>>, <<Case("a", {"it"}, {}, 1, 1, TRUE)>>}
Tables == {{}, {[size |-> 24, hidden |-> FALSE]}, {[size |-> 30, hidden |-> FALSE]}}

SourceContents ==
    {[Nothing EXCEPT !.cases = l, !.lines = 10] : l \in CaseLists}
    \cup {[Nothing EXCEPT !.cases = l, !.lines = 10, !.faults = 1] : l \in HiddenLists}
    \cup {[Nothing EXCEPT !.tables = t, !.lines = 10] : t \in Tables}
    \cup {[Nothing EXCEPT !.tables = {[size |-> 30, hidden |-> TRUE]}, !.lines = 10, !.faults = 2]}
    \cup {[Nothing EXCEPT !.markers = m, !.lines = n] : m \in {0, 2, 3}, n \in {10, 40}}

MCEdits(content) ==
    UNION {family \in {LintContents, LimitContents, ComplexityContents, SwitchContents,
                       CoverageContents, SourceContents} :
              content \in family}

TestPath   == Path(<<"tests">>, "a", "", "ts")
SourcePath == Path(<<"src">>, "a", "", "ts")
MCMoves    == {TestPath, SourcePath, Path(<<"src">>, "a", "test", "py")}

There(path, content) == [path |-> path, there |-> TRUE, content |-> content]
Configs ==
    {There(Path(<<>>, ".eslintrc", "", "json"), c) : c \in LintContents}
    \cup {There(p, c) : p \in {Path(<<>>, ".golangci", "", "yml"), Path(<<>>, "codecov", "", "yml")},
                        c \in LimitContents}
    \cup {There(Path(<<>>, "clippy", "", "toml"), c) : c \in ComplexityContents}
    \cup {There(Path(<<>>, "tsconfig", "base", "json"), c) : c \in SwitchContents}
    \cup {There(Path(<<>>, ".nycrc", "", "yml"), c) : c \in CoverageContents}

(* Trees that differ from one another in one of the two files.              *)
AConfig == There(Path(<<>>, ".nycrc", "", "yml"), With(<<>>))
ASource == There(TestPath, [Nothing EXCEPT !.cases = <<Plain>>, !.lines = 10])
MCStarts ==
    {[config |-> c, source |-> ASource] : c \in Configs}
    \cup {[config |-> AConfig, source |-> There(p, c)] : p \in MCMoves, c \in SourceContents}

(***************************************************************************)
(* Git: a machine that converts line endings, a driver its user installed, *)
(* one that cannot be pinned, and callers that export git's variables.     *)
(***************************************************************************)
MCDrivers == {"lfs", "a=b"}
MCUnpinnable == {"a=b"}
MCContents ==
    {<<>>, Autocrlf :> "true",
     (Clean("lfs") :> "git-lfs clean") @@ (Required("lfs") :> "true"),
     (Algorithm :> "minimal") @@ (Clean("a=b") :> "tidy")}
MCEnvironments ==
    {{}, {"GIT_CONFIG_GLOBAL"}, {"GIT_CONFIG_SYSTEM", "GIT_EXEC_PATH"},
     {"GIT_CONFIG_COUNT", "GIT_DIR"}, {"GIT_CONFIG_COUNT"}, {"GIT_CONFIG_NOSYSTEM"}}

\* The usual files differ; the ones an exported variable leads to say the same.
MCConfigurations ==
    {[f \in ConfigFiles |-> IF f \in DOMAIN usual THEN usual[f] ELSE led] :
        usual \in [{"system", "global", "repository"} -> MCContents], led \in MCContents}
\* Its variables in a behaviour of another part.
GitIdle ==
    /\ config = [f \in ConfigFiles |-> <<>>] /\ inherited = {} /\ attribute = NoDriver
    /\ handle = NotOpen /\ answers = {} /\ ran = {} /\ edits = 0

(***************************************************************************)
(* The cat-file process: two blobs, a submodule's commit, and names that   *)
(* are no object's, more than one's, or no object name at all.             *)
(***************************************************************************)
MCObjectKind == [b1 |-> "blob", b2 |-> "blob", sub |-> "commit"]
MCHexadecimal == {"b1", "b2", "sub", "gone", "amb"}

(***************************************************************************)
(* Cognitive complexity: functions of up to three constructs.              *)
(***************************************************************************)
VARIABLES lang, syntax, walk
complexityVars == <<lang, syntax, walk>>
Cognition == INSTANCE Complexity
    WITH tree <- syntax, Languages <- {"ecma", "python"}, MaxConstructs <- 3

(***************************************************************************)
(* Lines of code: Rust files of up to three tokens.                         *)
(***************************************************************************)
VARIABLES tokens, scan
linesVars == <<tokens, scan>>
Lines == INSTANCE SourceLines WITH MaxTokens <- 3

(***************************************************************************)
(* Static metrics: one or two changed files, each renamed, deleted, added, *)
(* unreadable, broken, of another language, or full of functions no name   *)
(* tells apart.                                                            *)
(***************************************************************************)
VARIABLES changed, read, filesRead, unmeasured, results, engine
staticVars == <<changed, read, filesRead, unmeasured, results, engine>>

Function(own, class, nested, line, column) ==
    [own |-> own, class |-> class, nested |-> nested, start |-> line,
     end |-> line, column |-> column]
BlobOf(text, errors, functions) ==
    [text |-> text, errors |-> errors, missing |-> 0, sloc |-> 2, functions |-> functions]

EngineContents ==
    [chain   |-> BlobOf(TRUE, 0, <<Function("unnamed", "unnamed", FALSE, 1, 3),
                                   Function("unnamed", "unnamed", FALSE, 1, 9),
                                   Function("inner", "unnamed", TRUE, 1, 12)>>),
     classes |-> BlobOf(TRUE, 0, <<Function("get", "A", FALSE, 1, 3), Function("get", "B", FALSE, 1, 9),
                                   Function("get", "A", FALSE, 2, 3)>>),
     broken  |-> BlobOf(TRUE, 1, <<>>),
     bytes   |-> BlobOf(FALSE, 0, <<>>)]
EngineLanguages == [tsx |-> "tsx", py |-> "python", rs |-> "rust", md |-> "none"]

ChangedFiles ==
    {e \in [path : DOMAIN EngineLanguages, old : DOMAIN EngineLanguages, gitlink : BOOLEAN,
            onHead : BOOLEAN, src : {"no blob"} \cup DOMAIN EngineContents,
            dst : {"no blob"} \cup DOMAIN EngineContents] :
        /\ e.gitlink => e.src = "no blob" /\ e.dst = "no blob"
        /\ ~e.onHead => e.dst = "no blob"
        /\ e.old # e.path => e.src \in DOMAIN EngineContents /\ e.old \in {"md", "py"}}
EditsOf(path) ==
    {e \in ChangedFiles : e.path = path /\ e.old = path /\ e.src \in {"no blob", "broken"}}
EngineChanges ==
    {<<>>} \cup {<<e>> : e \in ChangedFiles}
    \cup {<<e, f>> : e \in EditsOf("tsx"), f \in EditsOf("py")}

Static == INSTANCE StaticMetrics
    WITH files <- filesRead, Changes <- EngineChanges, Contents <- EngineContents, Languages <- EngineLanguages

(***************************************************************************)
(* Coverage: a file of the root and one of a directory with the same name, *)
(* reports of both in every spelling the tools use, truncated, too deep or *)
(* of something else.                                                      *)
(***************************************************************************)
VARIABLES case, diffed, touched, tried, discovery, gaps
coverageVars == <<case, diffed, touched, tried, discovery, gaps>>

Util    == <<"util">>
LibUtil == <<"lib", "util">>
Build   == <<"/", "build">>
Lcov    == "lcov.info"
Xml     == "coverage.xml"

\* What the tests of the two files really covered: line -> hits.
Truths ==
    {(Util :> ((1 :> 0) @@ (2 :> 1))) @@ (LibUtil :> (2 :> 0)),
     (Util :> (2 :> 1)) @@ (LibUtil :> ((1 :> 0) @@ (2 :> 0)))}

DiffLine(kind, path) == [line |-> kind, path |-> path, start |-> 0, count |-> 0]
Diff(path, status, hunks) == [path |-> path, status |-> status, hunks |-> hunks]
Hunk(first, count, line) == [start |-> first, count |-> count, added |-> <<line>>]
Touched(path, first, count) == Diff(path, "modified", <<Hunk(first, count, DiffLine("+", <<>>))>>)
Removed(path) == Diff(path, "deleted", <<Hunk(0, 0, DiffLine("+", <<>>))>>)
DiffsOf(path) == {Touched(path, 1, 2), Touched(path, 2, 1), Touched(path, 2, 0), Removed(path)}
\* A line of util says "++ b/lib/util".
Heading == Diff(Util, "modified", <<Hunk(1, 1, DiffLine("+++", LibUtil)), Hunk(2, 1, DiffLine("+", <<>>))>>)
EngineDiffs ==
    {<<d>> : d \in DiffsOf(Util) \cup DiffsOf(LibUtil) \cup {Heading}}
    \cup {<<d, e>> : d \in DiffsOf(LibUtil), e \in DiffsOf(Util)}

Record(tag, path, line, hits) == [tag |-> tag, path |-> path, line |-> line, hits |-> hits]
LcovFile(hits, spelled) ==
    LET data(n) == IF n \in DOMAIN hits THEN <<Record("DA", <<>>, n, IF hits[n] = 0 THEN "0" ELSE "1")>> ELSE <<>>
    IN <<Record("SF", spelled, 0, "0")>> \o data(1) \o data(2) \o <<Record("end_of_record", <<>>, 0, "0")>>
LcovOf(truth, paths, prefix, rest) ==
    [kind |-> "lcov", about |-> {paths[i] : i \in DOMAIN paths},
     records |-> FlattenSeq([i \in DOMAIN paths |-> LcovFile(truth[paths[i]], prefix \o paths[i])]) \o rest]

ClassOf(truth, path, spelled) ==
    LET hits == truth[path]
        data(n) == IF n \in DOMAIN hits THEN <<<<n, hits[n]>>>> ELSE <<>>
    IN [filename |-> spelled, bad |-> FALSE, lines |-> data(1) \o data(2)]
XmlOf(sources, classes, tags) ==
    [kind |-> "xml", root |-> "coverage", tags |-> tags, sources |-> sources, classes |-> classes,
     about |-> IF \E i \in DOMAIN classes : classes[i].filename = <<>> THEN {} ELSE {Util, LibUtil}]
Shallow == <<"pi", "open", "open", "empty", "close", "close">>
Deep    == <<"open", "open", "open", "empty", "close", "close", "close">>

XmlDocuments(truth) ==
    LET both == <<ClassOf(truth, Util, Util), ClassOf(truth, LibUtil, LibUtil)>>
    IN {XmlOf({Build}, both, Shallow), XmlOf({Build}, both, Deep),
        XmlOf({}, <<ClassOf(truth, LibUtil, Build \o LibUtil),
                    ClassOf(truth, Util, Build \o Util)>>, Shallow),
        XmlOf({Build, Build \o <<"lib">>},
              <<ClassOf(truth, Util, Util), ClassOf(truth, LibUtil, Util)>>, Shallow),
        XmlOf({Build}, <<ClassOf(truth, Util, Util), ClassOf(truth, LibUtil, <<>>)>>, Shallow)}
LcovDocuments(truth) ==
    {LcovOf(truth, <<Util, LibUtil>>, prefix, <<>>) : prefix \in {<<>>, <<".">>, Build}}
    \cup {LcovOf(truth, <<LibUtil>>, <<>>, <<Record("DA", <<>>, 1, "1")>>),
          LcovOf(truth, <<LibUtil, Util>>, <<>>,
                 <<Record("SF", Util, 0, "0"), Record("DA", <<>>, 1, "-")>>),
          [kind |-> "other", about |-> {}]}
\* A report is known by its content: either name may hold either.
ReportsOf(truth) ==
    {<<>>} \cup {Lcov :> d : d \in LcovDocuments(truth) \cup XmlDocuments(truth)}
    \cup {Xml :> d : d \in XmlDocuments(truth)}
    \cup {(Lcov :> d) @@ (Xml :> e) : d \in LcovDocuments(truth), e \in XmlDocuments(truth)}
EngineScenarios ==
    UNION {{[change |-> c, truth |-> truth, reports |-> r] :
              c \in EngineDiffs, r \in ReportsOf(truth)} : truth \in Truths}

Coverage == INSTANCE CoverageGaps
    WITH Scenarios <- EngineScenarios, CANDIDATE_REPORTS <- <<Lcov, Xml>>, MAX_ELEMENT_DEPTH <- 3

(***************************************************************************)
(* Statistics: two metrics, two regimes, values on, under and away from a  *)
(* rung, and measurements that found nothing; two machines' clocks.        *)
(***************************************************************************)
Rust        == <<"static", "cognitive-complexity", "rust">>
Duplication == <<"clones", "ratio">>
Count(n)    == [kind |-> "count", at |-> n]
Ratio(n)    == [kind |-> "ratio", at |-> n]
MCLadders == (Rust :> {Count(1), Count(20)}) @@ (Duplication :> {Ratio(100)})

Value(site, metric, regime, value, under, above) ==
    [site |-> site, metric |-> metric, family |-> metric[1], regime |-> regime,
     value |-> value, shavedUnder |-> under, medPlus |-> above]
ReportOf(kind, head, verdict, measured) ==
    [kind |-> kind, head |-> head, verdict |-> verdict, policy |-> "p", source |-> "hook",
     results |-> measured]
MCReports ==
    {ReportOf("self_report", 1, "pass",
        {Value(s, Rust, "v1", Count(18 + (s % 2)), {Count(20)}, FALSE) : s \in 1..3}
        \cup {Value(s, Rust, "v1", Count(0), {}, FALSE) : s \in 4..5}),
     ReportOf("self_report", 2, "pass",
        {Value(s, Rust, "v1", Count(19), {Count(20)}, FALSE) : s \in 1..2}
        \cup {Value(s, Rust, "v1", Count(0), {}, FALSE) : s \in 3..6}
        \cup {Value(s, Duplication, "d1", Ratio(95), {Ratio(100)}, FALSE) : s \in 1..5}),
     ReportOf("self_report", 2, "escalate_to_human",
        {Value(s, Rust, "v2", Count(IF s < 5 THEN 5 ELSE 25), {}, s > 5) : s \in 1..6}),
     ReportOf("ci_attestation", 1, "pass", {})}
MCWindows == {[since |-> w[1], until |-> w[2]] : w \in {<<2, 1>>, <<2, 2>>}}
MCRiders == {<<"static", "cognitive-complexity">>}

(***************************************************************************)
(* andon init: two commands and one edit of the owner's before, between or *)
(* during them, over files that are absent, foreign, broken, misshapen, or *)
(* ours already, with more of the owner's in them or not.                  *)
(***************************************************************************)
MCSides ==
    {[mcp |-> ServersOf("none", TRUE), cursorMcp |-> Absent,
      preCommit |-> Absent, rules |-> OwnFile("foreign")],
     [mcp |-> ServersOf("different", FALSE), cursorMcp |-> Broken,
      preCommit |-> Absent, rules |-> OwnFile("old")],
     [mcp |-> [Absent EXCEPT !.kind = "misshapen"], cursorMcp |-> ServersOf("ours", TRUE),
      preCommit |-> [PreCommit(FALSE) EXCEPT !.foreign = TRUE], rules |-> Absent]}
MCStartFiles ==
    {[settings |-> s] @@ side :
        s \in {Absent, [Absent EXCEPT !.kind = "misshapen"],
               StopHooks(<<<<"lint">>, <<>>, <<"claude-stop">>>>),
               StopHooks(<<<<"lint", "claude-stop">>, <<"claude-stop --self-measure">>>>)},
        side \in MCSides}
MCOwnerEdits ==
    {[file |-> "settings", content |-> StopHooks(<<<<"lint">>, <<"claude-stop", "fmt">>>>)],
     [file |-> "settings", content |-> Broken],
     [file |-> "preCommit", content |-> Absent], [file |-> "preCommit", content |-> OwnFile("foreign")]}
\* Its variables in a behaviour of another part.
NobodyInstalls ==
    /\ files = [name \in FileNames |-> Absent] /\ command = NoCommand /\ told = Silent
    /\ fired = NotFired
    /\ spent = [commands |-> 0, edits |-> 0, edited |-> {}]

(***************************************************************************)
(* The calendar: walks over the epoch, a leap century, a common one, the   *)
(* turn of an era and the end of a 400-year cycle.                         *)
(***************************************************************************)
Known(year, month, day, days) ==
    [date |-> [year |-> year, month |-> month, day |-> day], days |-> days]
MCKnownDays ==
    {Known(1969, 12, 30, -2), Known(1999, 12, 30, 10955), Known(2099, 12, 31, 47481),
     Known(0, 2, 27, -719471), Known(1599, 12, 31, -135141)}
\* Its variables in a behaviour of another part.
ClockStands ==
    epoch = Known(1969, 12, 30, -2) /\ today = epoch.date /\ hour = 0 /\ walked = 0

(***************************************************************************)
(* The agent's surface: records with more to say than fits the budget, one *)
(* whose verdict is not to be believed, and a policy that shrinks, grows   *)
(* and breaks.                                                             *)
(***************************************************************************)
Item(code, severity, message) == [code |-> code, severity |-> severity, message |-> message]
SurfaceRecord(verdict, unread, reasons, found, line) ==
    [verdict |-> verdict, unread |-> unread, reasons |-> reasons, results |-> found, line |-> line]
MCRecords ==
    {SurfaceRecord("block", 0, <<Item(1, 1, 1), Item(2, 4, 9), Item(3, 3, 2)>>,
                   <<Item(1, 4, 9), Item(2, 4, 1), Item(3, 0, 1)>>, 12),
     SurfaceRecord("block", 1, <<Item(7, 4, 2), Item(6, 4, 2), Item(5, 4, 2), Item(4, 2, 1)>>,
                   <<Item(1, 2, 0), Item(2, 0, 3)>>, 30),
     SurfaceRecord("pass", 1, <<>>, <<Item(1, 0, 1)>>, 3)}
\* Its variables in a behaviour of another part.
NobodyAsks ==
    /\ saved = NoRecord /\ ledger = <<>> /\ budget = 0 /\ call = NoCall
    /\ heard = Refusal /\ remembered = NoRecord /\ calls = 0

-----------------------------------------------------------------------------
\* What a part's variables hold in a behaviour of another part.
Idle == "idle"

EnginesInit ==
    /\ part \in {"tamper", "git", "complexity", "lines", "static",
                 "coverage", "stats", "blobs", "integration", "calendar", "surface"}
    /\ IF part = "tamper" THEN Init
       ELSE /\ start = Idle /\ tree = Idle /\ quiet = Idle /\ commits = Idle
    /\ IF part = "git" THEN GitInit
       ELSE GitIdle
    /\ IF part = "complexity" THEN Cognition!ComplexityInit
       ELSE /\ lang = Idle /\ syntax = Idle /\ walk = Idle
    /\ IF part = "lines" THEN Lines!SourceLinesInit
       ELSE /\ tokens = Idle /\ scan = Idle
    /\ IF part = "static" THEN Static!StaticInit
       ELSE /\ changed = Idle /\ read = Idle /\ filesRead = Idle
            /\ unmeasured = Idle /\ results = Idle /\ engine = Idle
    /\ IF part = "coverage" THEN Coverage!CoverageInit
       ELSE /\ case = Idle /\ diffed = Idle /\ touched = Idle
            /\ tried = Idle /\ discovery = Idle /\ gaps = Idle
    /\ StatsInit
    /\ BlobInit
    /\ IF part = "integration" THEN IntegrationInit
       ELSE NobodyInstalls
    /\ IF part = "calendar" THEN CalendarInit
       ELSE ClockStands
    /\ IF part = "surface" THEN SurfaceInit
       ELSE NobodyAsks

EnginesNext ==
    \/ /\ part = "tamper" /\ Next
       /\ UNCHANGED <<part, gitVars, complexityVars, linesVars, staticVars,
                      coverageVars, statsVars, blobVars, integrationVars, calendarVars, surfaceVars>>
    \/ /\ part = "git" /\ GitNext
       /\ UNCHANGED <<part, vars, complexityVars, linesVars, staticVars,
                      coverageVars, statsVars, blobVars, integrationVars, calendarVars, surfaceVars>>
    \/ /\ part = "complexity" /\ Cognition!ComplexityNext
       /\ UNCHANGED <<part, vars, gitVars, linesVars, staticVars,
                      coverageVars, statsVars, blobVars, integrationVars, calendarVars, surfaceVars>>
    \/ /\ part = "lines" /\ Lines!SourceLinesNext
       /\ UNCHANGED <<part, vars, gitVars, complexityVars, staticVars,
                      coverageVars, statsVars, blobVars, integrationVars, calendarVars, surfaceVars>>
    \/ /\ part = "static" /\ Static!StaticNext
       /\ UNCHANGED <<part, vars, gitVars, complexityVars, linesVars,
                      coverageVars, statsVars, blobVars, integrationVars, calendarVars, surfaceVars>>
    \/ /\ part = "coverage" /\ Coverage!CoverageNext
       /\ UNCHANGED <<part, vars, gitVars, complexityVars, linesVars,
                      staticVars, statsVars, blobVars, integrationVars, calendarVars, surfaceVars>>
    \/ /\ part = "stats" /\ StatsNext
       /\ UNCHANGED <<part, vars, gitVars, complexityVars, linesVars,
                      staticVars, coverageVars, blobVars, integrationVars, calendarVars, surfaceVars>>
    \/ /\ part = "blobs" /\ BlobNext
       /\ UNCHANGED <<part, vars, gitVars, complexityVars, linesVars,
                      staticVars, coverageVars, statsVars, integrationVars, calendarVars, surfaceVars>>
    \/ /\ part = "integration" /\ IntegrationNext
       /\ UNCHANGED <<part, vars, gitVars, complexityVars, linesVars,
                      staticVars, coverageVars, statsVars, blobVars, calendarVars, surfaceVars>>
    \/ /\ part = "calendar" /\ CalendarNext
       /\ UNCHANGED <<part, vars, gitVars, complexityVars, linesVars,
                      staticVars, coverageVars, statsVars, blobVars, integrationVars, surfaceVars>>
    \/ /\ part = "surface" /\ SurfaceNext
       /\ UNCHANGED <<part, vars, gitVars, complexityVars, linesVars, staticVars,
                      coverageVars, statsVars, blobVars, integrationVars, calendarVars>>

enginesVars ==
    <<part, vars, gitVars, complexityVars, linesVars, staticVars,
      coverageVars, statsVars, blobVars, integrationVars, calendarVars, surfaceVars>>
EnginesSpec == EnginesInit /\ [][EnginesNext]_enginesVars

\* The behaviours of one part.
GitAlone == (part = "git" /\ EnginesInit) /\ [][EnginesNext]_enginesVars
InitAlone == (part = "integration" /\ EnginesInit) /\ [][EnginesNext]_enginesVars

-----------------------------------------------------------------------------
\* The tamper detectors are not got round: commits that were each quiet add up
\* to a change that is, what could not be read or ranked is said, and a change
\* and the one that undoes it never fire the same one-way detector
\* (crates/engines/tamper).
TamperingIsSeen ==
    /\ [](part = "tamper" => SmallStepsHideNothing /\ BlindSpotsAreLoud)
    /\ [][part = "tamper" => OnlyOneDirection]_enginesVars

\* The cognitive complexity of a function is the sum the published rules give
\* (static-metrics, cognitive.rs).
ScoreIsOfTheRules ==
    part = "complexity" => Cognition!ScoreIsOfTheRules

\* The lines counted in a Rust file are those with code on them
\* (static-metrics, rustlex.rs and sloc.rs).
LinesAreOfCode ==
    part = "lines" => Lines!LinesAreOfCode

\* Every changed file the static engine claims has its numbers or a reason, and
\* no two of its results pair with each other (static-metrics, engine.rs).
EveryFileIsAccountedFor ==
    part = "static" => Static!EveryFileIsAccountedFor

\* A coverage gap counts lines of the file it names, and no file and no
\* unreadable report is passed over in silence (artifacts, hunks.rs, report.rs
\* and engine.rs).
GapsAreOfTheFile ==
    part = "coverage" => Coverage!GapsAreOfTheFile /\ Coverage!SilenceIsNamed

=============================================================================
