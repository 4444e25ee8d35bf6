---------------------------- MODULE CoverageGaps ----------------------------
(***************************************************************************)
(* The artifacts engine (crates/engines/artifacts/src): the lines a change *)
(* touched are read off a diff, coverage reports are looked for at known   *)
(* places and parsed, and the touched lines a report shows as never        *)
(* executed are attributed to their files.                                 *)
(*                                                                         *)
(* Paths are sequences of names; an absolute one starts with "/".  A       *)
(* report is the document a coverage tool wrote, reduced to the records    *)
(* the engine reads.                                                       *)
(***************************************************************************)
EXTENDS Naturals, Sequences, FiniteSets, SequencesExt, TLC

CONSTANTS
    Scenarios,          \* changes and the reports beside them
    CANDIDATE_REPORTS,  \* where reports are looked for, in order
    MAX_ELEMENT_DEPTH   \* the deepest XML the parser is given

VARIABLES
    case,        \* the change, its diff, and the reports on disk
    diffed,      \* lines of the diff read
    touched,     \* the lines touched, by path, and the path being read
    tried,       \* candidates tried
    discovery,   \* reports that parsed and files that did not
    gaps         \* the results, once there are any

coverageVars == <<case, diffed, touched, tried, discovery, gaps>>

NoGaps == [attributed |-> FALSE, results |-> <<>>]
NoPath == <<>>

(***************************************************************************)
(* The diff: +++ headers, @@ headers, and the lines themselves.  A line    *)
(* added that starts with "++ " is a +++ line like any header.             *)
(***************************************************************************)
Header(path) == [line |-> "+++", path |-> path, start |-> 0, count |-> 0]
Hunk(start, count) == [line |-> "@@", path |-> NoPath, start |-> start, count |-> count]
\* `git diff --unified=0` of the change: a deleted file's header is /dev/null.
DiffOf(change) ==
    FlattenSeq([i \in DOMAIN change |->
        <<Header(IF change[i].status = "deleted" THEN NoPath ELSE change[i].path)>>
        \o FlattenSeq([h \in DOMAIN change[i].hunks |->
                <<Hunk(change[i].hunks[h].start, change[i].hunks[h].count)>>
                \o change[i].hunks[h].added])])

DestinationSpan(line) == line.start..(line.start + line.count - 1)
LinesOf(byPath, path) == IF path \in DOMAIN byPath THEN byPath[path] ELSE {}
WithLines(byPath, path, lines) == (path :> LinesOf(byPath, path) \cup lines) @@ byPath

\* A path that cannot be represented was refused when the change was read; only
\* an added line that looks like such a header would be refused here.
ParseDiffLine(line) ==
    CASE line.line = "+++" ->
            [current |-> line.path,
             byPath |-> IF line.path = NoPath THEN touched.byPath
                        ELSE WithLines(touched.byPath, line.path, {})]
      [] line.line = "@@" /\ touched.current # NoPath ->
            [touched EXCEPT !.byPath = WithLines(@, touched.current, DestinationSpan(line))]
      [] OTHER -> touched

(***************************************************************************)
(* Reports.                                                                *)
(***************************************************************************)
\* Windows separators are the same names here; a leading ./ is dropped.
NormalizePath(path) ==
    IF \E i \in DOMAIN path : path[i] # "."
    THEN SubSeq(path, CHOOSE i \in DOMAIN path : path[i] # "." /\ \A j \in 1..(i - 1) : path[j] = ".",
                Len(path))
    ELSE <<>>
JoinSource(source, filename) ==
    IF filename[1] = "/" \/ source = <<>> THEN NormalizePath(filename)
    ELSE source \o NormalizePath(filename)

NoHits == [line \in {} |-> 0]
HitsOf(files, path) == IF path \in DOMAIN files THEN files[path] ELSE NoHits
Plus(hits, line, n) == (line :> (IF line \in DOMAIN hits THEN hits[line] ELSE 0) + n) @@ hits
Merged(hits, more) ==
    [line \in DOMAIN hits \cup DOMAIN more |->
        (IF line \in DOMAIN hits THEN hits[line] ELSE 0) + (IF line \in DOMAIN more THEN more[line] ELSE 0)]

Report(format, files, degraded) == [format |-> format, files |-> files, degraded |-> degraded]
NoFiles == [path \in {} |-> NoHits]

\* SF opens a file's record, DA adds a line's hits, "-" is no information.
LcovRecord(state, record) ==
    CASE record.tag = "SF" ->
            LET path == NormalizePath(record.path)
            IN [state EXCEPT !.current = path, !.files = (path :> HitsOf(@, path)) @@ @]
      [] record.tag = "end_of_record" -> [state EXCEPT !.current = NoPath]
      [] record.tag = "DA" /\ (state.current = NoPath \/ record.hits = "-") ->
            [state EXCEPT !.degraded = TRUE]
      [] record.tag = "DA" /\ state.current # NoPath /\ record.hits # "-" ->
            [state EXCEPT !.files = (state.current :>
                Plus(HitsOf(@, state.current), record.line, IF record.hits = "1" THEN 1 ELSE 0)) @@ @]
      [] OTHER -> state
ParseLcov(document) ==
    LET end == FoldLeft(LcovRecord, [files |-> NoFiles, current |-> NoPath, degraded |-> FALSE],
                        document.records)
    IN Report("lcov", end.files, end.degraded)

\* How deep the elements nest, counted tag by tag without recursing.
DepthTag(state, tag) ==
    LET deeper == state.depth + 1
        reached == IF deeper > state.max THEN deeper ELSE state.max
    IN CASE tag = "open" -> [depth |-> deeper, max |-> reached]
         [] tag = "empty" -> [state EXCEPT !.max = reached]
         [] tag = "close" -> [state EXCEPT !.depth = IF @ = 0 THEN 0 ELSE @ - 1]
         [] OTHER -> state
MaxElementDepth(tags) == FoldLeft(DepthTag, [depth |-> 0, max |-> 0], tags).max

ClassLines(class) == FoldLeft(LAMBDA hits, line : Plus(hits, line[1], line[2]), NoHits, class.lines)
\* A class is recorded under every source root.
CoberturaClass(state, class) ==
    LET roots == IF state.sources = {} THEN {<<>>} ELSE state.sources
        paths == {JoinSource(root, class.filename) : root \in roots}
        files == [path \in DOMAIN state.files \cup paths |->
                    IF path \in paths THEN Merged(HitsOf(state.files, path), ClassLines(class))
                    ELSE state.files[path]]
    IN IF class.filename = NoPath THEN [state EXCEPT !.degraded = TRUE]
       ELSE [state EXCEPT !.files = files, !.degraded = @ \/ class.bad]
ParseCobertura(document) ==
    LET sources == {NormalizePath(source) : source \in document.sources} \ {<<>>}
        end == FoldLeft(CoberturaClass, [files |-> NoFiles, sources |-> sources, degraded |-> FALSE],
                        document.classes)
    IN Report(IF sources = {} THEN "cobertura" ELSE "coverage.py-xml", end.files, end.degraded)

\* A document is sniffed by its content; what cannot be read is a problem.
Parses(document) ==
    \/ document.kind = "lcov"
    \/ /\ document.kind = "xml"
       /\ MaxElementDepth(document.tags) <= MAX_ELEMENT_DEPTH
       /\ document.root = "coverage"
Parse(document) == IF document.kind = "lcov" THEN ParseLcov(document) ELSE ParseCobertura(document)

(***************************************************************************)
(* Attribution.                                                            *)
(***************************************************************************)
\* Mutant of LinesFor: any path that ends alike will do.
LinesForAny(report, path) ==
    LET longer == {p \in DOMAIN report.files : IsSuffix(path, p)}
    IN IF longer = {} THEN <<>> ELSE <<report.files[CHOOSE p \in longer : p # path \/ longer = {path}]>>

LinesFor(report, path) ==
    LET longer == {p \in DOMAIN report.files : Len(p) > Len(path) /\ IsSuffix(path, p)}
    IN CASE path \in DOMAIN report.files -> <<report.files[path]>>
         [] path \notin DOMAIN report.files /\ Cardinality(longer) = 1 ->
                <<report.files[CHOOSE p \in longer : TRUE]>>
         [] OTHER -> <<>>

Covering(path) == SelectSeq(discovery.reports, LAMBDA report : LinesFor(report, path) # <<>>)
Uncovered(path, hits) == Cardinality({n \in LinesOf(touched.byPath, path) :
                                        n \in DOMAIN hits /\ hits[n] = 0})

Gap(scope, path, count, completeness, reason) ==
    [scope |-> scope, path |-> path, count |-> count, completeness |-> completeness, reason |-> reason]
Unwitnessed(scope, path, reason) == Gap(scope, path, 0, "unwitnessed", reason)
FileGap(path) ==
    IF Covering(path) = <<>> THEN Unwitnessed("file", path, "not in report")
    ELSE LET first == Covering(path)[1]
         IN Gap("file", path, Uncovered(path, LinesFor(first, path)[1]),
                IF first.degraded THEN "parse-degraded" ELSE "complete", "")

Present(change) == SelectSeq(change, LAMBDA entry : entry.status # "deleted")
UnreadableGaps ==
    [i \in DOMAIN discovery.problems |->
        Unwitnessed("change", discovery.problems[i], "report unreadable")]
GapsFound ==
    IF discovery.reports = <<>>
    THEN IF discovery.problems = <<>> THEN <<Unwitnessed("change", <<>>, "no report")>>
         ELSE UnreadableGaps
    ELSE UnreadableGaps \o [i \in DOMAIN Present(case.change) |-> FileGap(Present(case.change)[i].path)]

(***************************************************************************)
(* The steps: the candidates, the diff, the attribution.                   *)
(***************************************************************************)
CoverageInit ==
    /\ case \in Scenarios
    /\ diffed = 0
    /\ touched = [current |-> NoPath, byPath |-> [path \in {} |-> {}]]
    /\ tried = 0
    /\ discovery = [reports |-> <<>>, problems |-> <<>>]
    /\ gaps = NoGaps

Discover ==
    /\ tried < Len(CANDIDATE_REPORTS)
    /\ tried' = tried + 1
    /\ LET candidate == CANDIDATE_REPORTS[tried']
       IN IF candidate \notin DOMAIN case.reports THEN UNCHANGED discovery
          ELSE LET document == case.reports[candidate]
               IN discovery' = IF Parses(document)
                               THEN [discovery EXCEPT !.reports = Append(@, Parse(document))]
                               ELSE [discovery EXCEPT !.problems = Append(@, candidate)]
    /\ UNCHANGED <<case, diffed, touched, gaps>>

ReadDiffLine ==
    /\ tried = Len(CANDIDATE_REPORTS)
    /\ diffed < Len(DiffOf(case.change))
    /\ diffed' = diffed + 1
    /\ touched' = ParseDiffLine(DiffOf(case.change)[diffed'])
    /\ UNCHANGED <<case, tried, discovery, gaps>>

Attribute ==
    /\ tried = Len(CANDIDATE_REPORTS)
    /\ diffed = Len(DiffOf(case.change))
    /\ ~gaps.attributed
    /\ gaps' = [attributed |-> TRUE, results |-> GapsFound]
    /\ UNCHANGED <<case, diffed, touched, tried, discovery>>

CoverageNext == Discover \/ ReadDiffLine \/ Attribute

(***************************************************************************)
(* What the gaps are of.                                                   *)
(***************************************************************************)
Attributed == gaps.attributed
GapResults == {gaps.results[i] : i \in DOMAIN gaps.results}

\* The lines a change touched in a file, and the hits a test run gave them.
TouchedIn(entry) == UNION {DestinationSpan(entry.hunks[h]) : h \in DOMAIN entry.hunks}
NeverExecuted(path) == {n \in DOMAIN case.truth[path] : case.truth[path][n] = 0}

\* A line added that reads as a header.
LooksLikeAHeader ==
    \E i \in DOMAIN case.change : \E h \in DOMAIN case.change[i].hunks :
        \E n \in DOMAIN case.change[i].hunks[h].added : case.change[i].hunks[h].added[n].line = "+++"

\* A report of every file of the repository, under one source root at most: the
\* classes of a report with more are recorded under each.
Complete(document) == document.about = DOMAIN case.truth
OneRoot(document) == document.kind = "xml" => Cardinality(document.sources) <= 1
WellMeant ==
    \A candidate \in DOMAIN case.reports :
        LET document == case.reports[candidate]
        IN Parses(document) => Complete(document) /\ OneRoot(document)

\* A gap reported on a file counts lines of that file: lines the change touched
\* there, that the test run did not execute, whatever roots and spellings the
\* report uses and however the other files of the change are named (hunks.rs
\* parse_unified, report.rs lines_for).
GapsAreOfTheFile ==
    Attributed /\ WellMeant /\ ~LooksLikeAHeader =>
        \A i \in DOMAIN case.change : \A gap \in GapResults :
            /\ gap.scope = "file"
            /\ gap.path = case.change[i].path
            /\ gap.completeness # "unwitnessed"
            => gap.count = Cardinality(TouchedIn(case.change[i]) \cap NeverExecuted(gap.path))

\* No file of the change is passed over in silence: where a report was read each
\* has a count or the word that no report covers it, a report that could not be
\* read is named whatever else was found, and a part of a report that was
\* skipped marks the counts taken from it (engine.rs measure, for_discovery).
SilenceIsNamed ==
    Attributed =>
        /\ \A candidate \in DOMAIN case.reports :
            ~Parses(case.reports[candidate]) =>
                \E gap \in GapResults : gap.path = candidate /\ gap.completeness = "unwitnessed"
        /\ IF \E candidate \in DOMAIN case.reports : Parses(case.reports[candidate])
           THEN \A i \in DOMAIN case.change : case.change[i].status # "deleted" =>
                    \E gap \in GapResults : gap.scope = "file" /\ gap.path = case.change[i].path
           ELSE \E gap \in GapResults : gap.scope = "change"
        /\ DOMAIN case.reports # {} => \A gap \in GapResults : gap.reason # "no report"
        /\ \A gap \in GapResults : gap.scope = "file" /\ gap.completeness = "complete" =>
            \E i \in DOMAIN discovery.reports :
                LinesFor(discovery.reports[i], gap.path) # <<>> /\ ~discovery.reports[i].degraded

=============================================================================
