------------------------------- MODULE Tamper --------------------------------
(****************************************************************************)
(* The tamper suite over a history of commits: seven detectors read both    *)
(* sides of every changed file, and the engine says of each whether it      *)
(* fired and whether its answer is complete                                 *)
(* (engines/tamper/src/{engine,change,syntax}.rs and detectors/*.rs; the    *)
(* two that read configuration are in ConfigEdits).                         *)
(*                                                                          *)
(* A file's content is its settings, the exclusion lists, its markers and   *)
(* code lines, its test cases, the sizes of its literal tables inside       *)
(* functions, and the number of nodes its parser gave up on.  A case or a   *)
(* table is hidden when it lies in such a node.                             *)
(****************************************************************************)
EXTENDS ConfigEdits, FiniteSetsExt

CONSTANTS
    Files,          \* what keeps its identity when it is renamed
    Starts,         \* trees a history may begin with
    Edits(_),       \* the contents an author may give a file of this content
    Moves,          \* the paths a file may be moved to
    MinTable,       \* MIN_ELEMENTS
    MaxCommits      \* bound: commits in one history

VARIABLES
    start,          \* the tree the change is measured from
    tree,           \* the tree now: file -> [path, there, content]
    quiet,          \* every commit, measured alone, was quiet, complete and ranked
    commits         \* commits so far

vars == <<start, tree, quiet, commits>>

Nothing == [settings |-> <<>>, excludes |-> <<>>, markers |-> 0, lines |-> 0,
            cases |-> <<>>, tables |-> {}, faults |-> 0]

----------------------------------------------------------------------------
(* The change: the files whose two sides differ.  A file that is on one     *)
(* side only has empty bytes on the other.                                  *)

Side(file) == IF file.there THEN file.content ELSE Nothing

Change(before, after) ==
    {[path |-> after[f].path, basePath |-> before[f].path,
      there |-> after[f].there, wasThere |-> before[f].there,
      base |-> Side(before[f]), head |-> Side(after[f])] :
        f \in {g \in Files : before[g] # after[g] /\ (before[g].there \/ after[g].there)}}

ContentUnchanged(c) == c.there /\ c.wasThere /\ c.base = c.head
Edited(change) == {c \in change : ~ContentUnchanged(c)}

IsTestPath(path) ==
    \/ \E i \in 1..Len(path.dirs) : path.dirs[i] \in {"test", "tests", "__tests__", "spec", "e2e"}
    \/ path.variant \in {"test", "spec", "steps"}

IsDataPath(path) ==
    \/ \E i \in 1..Len(path.dirs) : path.dirs[i] \in {"data", "fixtures", "locales", "generated"}
    \/ path.variant \in {"generated", "gen", "data"} \/ path.syntax \in {"json", "csv", "yaml"}

(* Which grammar reads a path, if any.                                      *)
Language(path) ==
    CASE path.syntax \in {"ts", "mts", "cts", "tsx", "js", "jsx", "mjs", "cjs"} -> "js"
      [] path.syntax \in {"py", "pyi"} -> "python"
      [] OTHER -> "none"

Parses(path) == Language(path) # "none"

SumOver(S, Op(_)) == MapThenSumSet(Op, S)

(* What the parser saw of a list of cases, and of the tables.               *)
Seen(path, content) ==
    IF Parses(path) THEN {i \in DOMAIN content.cases : ~content.cases[i].hidden} ELSE {}
SeenTables(path, content) ==
    IF Parses(path) THEN {t.size : t \in {x \in content.tables : ~x.hidden /\ x.size >= MinTable}}
    ELSE {}
Faults(path, content) == IF Parses(path) THEN content.faults ELSE 0

----------------------------------------------------------------------------
(* An outcome: fired, magnitude, severity when it fired, whether what it    *)
(* parsed was degraded, whether it read something it could not rank.        *)

Outcome(fired, magnitude, severity, degraded, unassessed) ==
    [fired |-> fired, magnitude |-> magnitude, severity |-> severity,
     degraded |-> degraded, unassessed |-> unassessed]

NamesASkip(names) == names \cap {"skip", "todo", "failing", "xit", "xtest", "xdescribe"} # {}

Skipped(path, case) ==
    IF Language(path) = "js" THEN NamesASkip(case.name) \/ NamesASkip(case.group)
                             ELSE case.name \cap {"skip", "skipif"} # {}

(* A table-driven case is as many cases as its table has rows.              *)
Rows(path, case) == IF Language(path) = "js" /\ "each" \in case.name THEN Max({case.rows, 1}) ELSE 1

CountCases(path, content) ==
    SumOver(Seen(path, content), LAMBDA i : Rows(path, content.cases[i]))
CountSkipped(path, content) ==
    SumOver({i \in Seen(path, content) : Skipped(path, content.cases[i])},
            LAMBDA i : Rows(path, content.cases[i]))

TestRemoval(change) ==
    LET read    == {c \in Edited(change) : IsTestPath(c.basePath) \/ IsTestPath(c.path)}
        before  == SumOver(read, LAMBDA c : CountCases(c.basePath, c.base))
        after   == SumOver(read, LAMBDA c : CountCases(c.path, c.head))
        skips   == SumOver(read, LAMBDA c : Max({0, CountSkipped(c.path, c.head)
                                                      - CountSkipped(c.basePath, c.base)}))
        fired   == Max({0, before - after}) + skips
    IN  Outcome(fired > 0, IF fired > 0 THEN fired ELSE after - before, "high",
                \E c \in read : Faults(c.basePath, c.base) + Faults(c.path, c.head) > 0, FALSE)

(* Suppressions per thousand lines; none of either is no density.           *)
Density(markers, lines) ==
    IF lines = 0 THEN IF markers > 0 THEN 1000000 ELSE 0 ELSE (markers * 1000) \div lines

SuppressionDensity(change) ==
    LET Of(f, side) == SumOver(Edited(change), LAMBDA c : c[side][f])
        added == Of("markers", "head") - Of("markers", "base")
    IN  Outcome(/\ added >= 2
                /\ Density(Of("markers", "head"), Of("lines", "head"))
                     > Density(Of("markers", "base"), Of("lines", "base")),
                added, "high", FALSE, FALSE)

(* The cases of one title that assert nothing: only those the base had not. *)
Bare(path, content, title) ==
    Cardinality({i \in Seen(path, content) :
                    content.cases[i].title = title /\ content.cases[i].asserts = 0})

Titles(content) == {content.cases[i].title : i \in DOMAIN content.cases}

AssertionFreeTest(change) ==
    LET read  == {c \in Edited(change) : c.there /\ IsTestPath(c.path) /\ Parses(c.path)}
        fresh == SumOver(read, LAMBDA c : SumOver(Titles(c.head), LAMBDA t :
                     Max({0, Bare(c.path, c.head, t) - Bare(c.basePath, c.base, t)})))
    IN  Outcome(fresh > 0, fresh, "high",
                \E c \in read : Faults(c.basePath, c.base) + Faults(c.path, c.head) > 0, FALSE)

CoverageExclusionDrift(change) ==
    LET read      == {c \in Edited(change) : IsCoverageConfig(c.path)}
        delta     == SumOver(read, LAMBDA c : ExclusionRise(c.base.excludes, c.head.excludes))
        broadened == SumOver(read, LAMBDA c : Cardinality(Broadened(c.base.excludes, c.head.excludes)))
    IN  Outcome(delta > 0 \/ broadened > 0, delta + broadened, "high", FALSE,
                \E c \in read : Unranked(c.base.excludes, c.head.excludes) # {})

ThresholdConfigEdit(change) ==
    LET read  == {c \in Edited(change) : IsThresholdConfig(c.path)}
        count == SumOver(read, LAMBDA c :
                     Cardinality(ThresholdFindings(c.path, c.base.settings, c.head.settings)))
    IN  Outcome(count > 0, count, "low", FALSE,
                \E c \in read : ThresholdUnassessed(c.path, c.base.settings, c.head.settings) # {})

LookupTableBlowup(change) ==
    LET read    == {c \in Edited(change) : /\ c.there /\ Parses(c.path)
                                           /\ ~IsDataPath(c.path) /\ ~IsTestPath(c.path)}
        grown   == UNION {{n \in SeenTables(c.path, c.head) :
                              \A m \in SeenTables(c.basePath, c.base) : n > m} : c \in read}
    IN  Outcome(grown # {}, Max(grown \cup {0}), "high",
                \E c \in read : Faults(c.basePath, c.base) + Faults(c.path, c.head) > 0, FALSE)

(* Two arms: the faults rose, or a changed file has some.  Never demoted.   *)
ParseErrorDelta(change) ==
    LET read  == {c \in Edited(change) : Parses(c.path) /\ (c.there \/ Parses(c.basePath))}
        delta == SumOver(read, LAMBDA c : Faults(c.path, c.head) - Faults(c.basePath, c.base))
        stale == \E c \in read : c.there /\ Faults(c.path, c.head) > 0
    IN  Outcome(delta > 0 \/ stale, delta, IF delta > 0 THEN "high" ELSE "low", FALSE, FALSE)

Detectors == {"test-removal", "suppression-density", "assertion-free-test",
              "coverage-exclusion-drift", "threshold-config-edit", "lookup-table-blowup",
              "parse-error-delta"}

Run(detector, change) ==
    CASE detector = "test-removal"             -> TestRemoval(change)
      [] detector = "suppression-density"      -> SuppressionDensity(change)
      [] detector = "assertion-free-test"      -> AssertionFreeTest(change)
      [] detector = "coverage-exclusion-drift" -> CoverageExclusionDrift(change)
      [] detector = "threshold-config-edit"    -> ThresholdConfigEdit(change)
      [] detector = "lookup-table-blowup"      -> LookupTableBlowup(change)
      [] detector = "parse-error-delta"        -> ParseErrorDelta(change)

Outcomes(detectors, change) == {<<d, Run(d, change)>> : d \in detectors}

(* The flag as it leaves the engine: demoted, never silenced.               *)
Completeness(outcome) ==
    CASE outcome.unassessed -> "partial"
      [] ~outcome.unassessed /\ outcome.degraded -> "parse-degraded"
      [] OTHER -> "complete"

Result(outcome) ==
    [flag |-> outcome.fired, completeness |-> Completeness(outcome),
     severity |-> CASE ~outcome.fired -> "info"
                    [] outcome.fired /\ Completeness(outcome) # "complete" -> "low"
                    [] OTHER -> outcome.severity]

----------------------------------------------------------------------------
(* One commit changes one file.                                             *)

(* The detectors whose subject is ordered, so that small steps add up.      *)
Ordered == {"test-removal", "coverage-exclusion-drift", "threshold-config-edit"}

QuietAndComplete(change) ==
    \A <<d, outcome>> \in Outcomes(Ordered, change) :
        ~Result(outcome).flag /\ Result(outcome).completeness = "complete"

(* A setting that changed from one kind of value to another is compared to  *)
(* nothing; a test file that leaves the test paths is read no more; one     *)
(* renamed to another language is counted by other rules.                   *)
KindOf(dialect, key, value) ==
    <<Rank(dialect, value) # 0,
      (IsTrue(value) \/ IsFalse(value)) /\ {"strict when true", "strict when false"} \cap KeySays[key] # {},
      IsNumber(value)>>

KeepsItsKind(c) ==
    /\ IsTestPath(c.basePath) = IsTestPath(c.path)
    /\ Language(c.basePath) = Language(c.path)
    /\ LET b == Settings(c.base.settings)
           h == Settings(c.head.settings)
       IN  \A key \in DOMAIN b \cap DOMAIN h :
              KindOf(Dialect(c.path), key, b[key]) = KindOf(Dialect(c.path), key, h[key])

Ranked(change) == \A c \in change : KeepsItsKind(c)

Init ==
    /\ start \in Starts /\ tree = start
    /\ quiet = TRUE /\ commits = 0

Commit(f, file) ==
    /\ commits < MaxCommits /\ file # tree[f]
    /\ tree' = [tree EXCEPT ![f] = file]
    /\ LET change == Change(tree, [tree EXCEPT ![f] = file])
       IN  quiet' = (quiet /\ Ranked(change) /\ QuietAndComplete(change))
    /\ commits' = commits + 1
    /\ UNCHANGED start

EditFile(f) ==
    /\ tree[f].there
    /\ \E content \in Edits(tree[f].content) : Commit(f, [tree[f] EXCEPT !.content = content])

DeleteFile(f) == tree[f].there /\ Commit(f, [tree[f] EXCEPT !.there = FALSE])

AddFile(f) == ~tree[f].there /\ Commit(f, [tree[f] EXCEPT !.there = TRUE])

MoveFile(f) ==
    /\ tree[f].there
    /\ \E path \in Moves \ {tree[g].path : g \in Files} : Commit(f, [tree[f] EXCEPT !.path = path])

Next == \E f \in Files : EditFile(f) \/ DeleteFile(f) \/ AddFile(f) \/ MoveFile(f)

Spec == Init /\ [][Next]_vars

----------------------------------------------------------------------------
(* Commits that were each quiet, complete and ranked never add up to a      *)
(* change in which a test is gone, an exclusion wider or a threshold looser:*)
(* what the detectors rank is an order (Loosening, Covers, the net count),  *)
(* so there is no way round in small steps.                                 *)
SmallStepsHideNothing ==
    quiet => \A <<d, outcome>> \in Outcomes(Ordered, Change(start, tree)) : ~Result(outcome).flag

(* No setting is called looser both when it is edited and when the edit is  *)
(* taken back, and no suppression or table either (Loosening, the floor of  *)
(* suppression_density).  Two                                               *)
(* detectors are not among them: a new test that is skipped fires when it   *)
(* is added and when it is removed, and one exclusion replaced by several   *)
(* narrower ones fires as the rise in their number.                         *)
OneWay == {"suppression-density", "lookup-table-blowup"}

OnlyOneDirection ==
    /\ \A <<d, done>> \in Outcomes(OneWay, Change(tree, tree')),
          <<e, undone>> \in Outcomes(OneWay, Change(tree', tree)) :
           d = e => ~(done.fired /\ undone.fired)
    /\ \A c \in Change(tree, tree') :
           ThresholdFindings(c.path, c.base.settings, c.head.settings)
             \cap ThresholdFindings(c.path, c.head.settings, c.base.settings) = {}

(* What the parser could not read is never a clean bill: a detector that    *)
(* would have fired on the hidden code does not answer completely, and the  *)
(* region is itself reported whenever a changed file still has it.          *)
Shown(content) ==
    [content EXCEPT !.cases = [i \in DOMAIN @ |-> [@[i] EXCEPT !.hidden = FALSE]],
                    !.tables = {[t EXCEPT !.hidden = FALSE] : t \in @}]
ShownChange(change) == {[c EXCEPT !.base = Shown(@), !.head = Shown(@)] : c \in change}

BlindSpotsAreLoud ==
    LET change == Change(start, tree)
    IN  /\ \A <<d, seen>> \in Outcomes(Detectors, change),
              <<e, all>> \in Outcomes(Detectors, ShownChange(change)) :
              d = e /\ all.fired => Result(seen).flag \/ Result(seen).completeness # "complete"
        /\ (\E c \in Edited(change) : c.there /\ Faults(c.path, c.head) > 0)
              => ParseErrorDelta(change).fired

(* coverage_exclusion_drift.rs, "Only widening fires": a change after which *)
(* the lists exclude no file they did not exclude before fires nothing.     *)
Under(dir, pattern) ==
    CASE pattern.tail = "all"  -> pattern.anchor = dir \/ StrictlyAbove(pattern.anchor, dir)
      [] OTHER                 -> FALSE

ExcludedDirs(lists, dirs) ==
    {dir \in dirs : \E pattern \in Exclusions(lists) : Under(dir, pattern)}

OnlyWideningFires ==
    \A c \in Change(start, tree) :
        LET dirs == {e.anchor : e \in Exclusions(c.base.excludes) \cup Exclusions(c.head.excludes)}
        IN  /\ CoverageExclusionDrift({c}).fired
            /\ \A e \in Exclusions(c.base.excludes) \cup Exclusions(c.head.excludes) : e.tail = "all"
            => ~(ExcludedDirs(c.head.excludes, dirs) \subseteq ExcludedDirs(c.base.excludes, dirs))

=============================================================================
