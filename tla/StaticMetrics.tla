--------------------------- MODULE StaticMetrics ---------------------------
(***************************************************************************)
(* The static engine over one change                                       *)
(* (crates/engines/static-metrics/src/engine.rs, functions.rs, metrics.rs, *)
(* lang.rs, parse.rs): every changed file of a language it knows is read,  *)
(* on both sides, and becomes results, or a marker that says it was not    *)
(* measured and why.                                                       *)
(*                                                                         *)
(* A blob's content is abstract: whether it is text, whether the parser    *)
(* understood it, its size, and its functions with where they stand.       *)
(***************************************************************************)
EXTENDS Naturals, Integers, Sequences, FiniteSets, SequencesExt

CONSTANTS
    Changes,         \* the changed sets, each a sequence of entries
    Contents,        \* what each blob holds, by its id
    Languages        \* the language of each path, or NoLanguage

NoLanguage == "none"
NoBlob == "no blob"
NullOid == "0000"
Anonymous == "<anonymous>"
NoName == "unnamed"

VARIABLES
    changed,         \* the changed set
    read,            \* entries read so far
    files,           \* what was measured
    unmeasured,      \* what was not, and why
    results,         \* what the engine emitted
    engine           \* "reading", "measured" or why it failed

staticVars == <<changed, read, files, unmeasured, results, engine>>

(***************************************************************************)
(* Languages and metrics.                                                  *)
(***************************************************************************)
Parsed(language) == language # "rust"
ClaimLanguage(language) == IF language = "tsx" THEN "typescript" ELSE language
Cyclomatic(language) == <<"static.cyclomatic-complexity", ClaimLanguage(language)>>
Cognitive(language) == <<"static.cognitive-complexity", ClaimLanguage(language)>>
Plain(name) == <<name, "any">>
SLOC == Plain("static.sloc")
PARSE_ERRORS == Plain("static.parse-errors")
PARSE_MISSING == Plain("static.parse-missing")
UNMEASURED_FILES == Plain("static.unmeasured-files")
UNMEASURED_FILE == Plain("static.unmeasured-file")
ComplexityLanguages == {"typescript", "javascript", "python"}
Descriptors ==
    {SLOC, PARSE_ERRORS, PARSE_MISSING, UNMEASURED_FILES, UNMEASURED_FILE}
    \cup {Cyclomatic(language) : language \in ComplexityLanguages}
    \cup {Cognitive(language) : language \in ComplexityLanguages}

(***************************************************************************)
(* One blob: the outermost functions, each with a name of its own.         *)
(***************************************************************************)
NameOf(function) ==
    LET own == IF function.own = NoName THEN Anonymous ELSE function.own
    IN IF function.class = NoName THEN <<own>> ELSE <<function.class, own>>

Alike(f, g) == NameOf(f) = NameOf(g) /\ f.start = g.start /\ f.end = g.end

Sites(content) == SelectSeq(content.functions, LAMBDA f : ~f.nested)

\* Mutant of Disambiguate: a name and its lines are taken to be enough.
DisambiguateByLines(sites) ==
    [i \in DOMAIN sites |-> [symbol |-> NameOf(sites[i]), span |-> <<sites[i].start, sites[i].end>>]]

\* A site another has the name and the lines of takes its column.
Disambiguate(sites) ==
    [i \in DOMAIN sites |->
        [symbol |-> IF \E j \in DOMAIN sites : j # i /\ Alike(sites[i], sites[j])
                    THEN Append(NameOf(sites[i]), sites[i].column)
                    ELSE NameOf(sites[i]),
         span |-> <<sites[i].start, sites[i].end>>]]

Degraded(facts) == facts.parsed /\ facts.errors + facts.missing > 0

MeasureBlob(language, content) ==
    IF ~Parsed(language)
    THEN [sloc |-> content.sloc, parsed |-> FALSE, errors |-> 0, missing |-> 0, functions |-> <<>>]
    ELSE [sloc |-> content.sloc, parsed |-> TRUE, errors |-> content.errors,
          missing |-> content.missing, functions |-> Disambiguate(Sites(content))]

\* Parsed or not at all: a grammar needs text, and the Rust scanner any bytes.
\* `text` is false of whatever the parser refuses: all of it is told as not UTF-8.
Readable(language, content) == content.text \/ ~Parsed(language)

(***************************************************************************)
(* The changed set: what is measured and what is not.                      *)
(***************************************************************************)
IsCandidate(entry) == ~entry.gitlink /\ entry.onHead /\ Languages[entry.path] # NoLanguage

BaseLanguage(entry) ==
    IF entry.gitlink \/ entry.src \in {NoBlob, NullOid} THEN NoLanguage ELSE Languages[entry.old]

NoFacts == <<>>
BaseSide(entry) ==
    LET language == Languages[entry.path]
    IN IF BaseLanguage(entry) = language /\ Readable(language, Contents[entry.src])
       THEN <<MeasureBlob(language, Contents[entry.src])>>
       ELSE NoFacts

StaticInit ==
    /\ changed \in Changes
    /\ read = 0
    /\ files = <<>>
    /\ unmeasured = <<>>
    /\ results = <<>>
    /\ engine = "reading"

ReadEntry ==
    /\ engine = "reading"
    /\ read < Len(changed)
    /\ LET entry == changed[read + 1]
           language == Languages[entry.path]
           skipped(reason) == Append(unmeasured, [path |-> entry.path, reason |-> reason])
       IN IF ~IsCandidate(entry) THEN UNCHANGED <<files, unmeasured>>
          ELSE CASE entry.dst = NoBlob ->
                        unmeasured' = skipped("no-readable-blob") /\ UNCHANGED files
                 [] entry.dst # NoBlob /\ ~Readable(language, Contents[entry.dst]) ->
                        unmeasured' = skipped("not-utf8") /\ UNCHANGED files
                 [] OTHER ->
                        /\ files' = Append(files, [path |-> entry.path, oid |-> entry.dst,
                                                   language |-> language, base |-> BaseSide(entry),
                                                   head |-> MeasureBlob(language, Contents[entry.dst])])
                        /\ UNCHANGED unmeasured
    /\ read' = read + 1
    /\ UNCHANGED <<changed, results, engine>>

\* An object of the change is missing: the run has no static engine at all.
ReadFails ==
    /\ engine = "reading"
    /\ read < Len(changed)
    /\ IsCandidate(changed[read + 1])
    /\ changed[read + 1].dst # NoBlob
    /\ engine' = "blob missing"
    /\ UNCHANGED <<changed, read, files, unmeasured, results>>

(***************************************************************************)
(* The results.  The number a function got is left out, and the reason of  *)
(* a marker, its value in the code, is a field of its own.                 *)
(***************************************************************************)
Result(metric, path, oid, symbol, span, value, delta) ==
    [metric |-> metric, path |-> path, oid |-> oid, symbol |-> symbol, span |-> span,
     value |-> value, delta |-> delta, completeness |-> "complete", reason |-> ""]
Demote(result, facts) ==
    IF Degraded(facts) THEN [result EXCEPT !.completeness = "parse-degraded"] ELSE result

Delta(file, of(_)) == IF file.base = NoFacts THEN <<>> ELSE <<of(file.head) - of(file.base[1])>>
HealthDelta(file, of(_)) ==
    IF file.base = NoFacts \/ ~file.base[1].parsed THEN <<>> ELSE <<of(file.head) - of(file.base[1])>>

Marker(skip) ==
    [Result(UNMEASURED_FILE, skip.path, NoBlob, <<>>, <<>>, 0, <<>>)
        EXCEPT !.completeness = "unwitnessed", !.reason = skip.reason]

FileResult(file, metric, value, delta) ==
    Result(metric, file.path, file.oid, <<>>, <<>>, value, delta)
HealthResults(file) ==
    IF ~file.head.parsed THEN <<>>
    ELSE LET errors(f) == f.errors
             missing(f) == f.missing
         IN <<FileResult(file, PARSE_ERRORS, file.head.errors, HealthDelta(file, errors)),
              FileResult(file, PARSE_MISSING, file.head.missing, HealthDelta(file, missing))>>
FunctionResults(file) ==
    LET metrics == <<SLOC, Cyclomatic(file.language), Cognitive(file.language)>>
        resultOf(f, metric) ==
            Demote(Result(metric, file.path, file.oid, f.symbol, f.span, 0, <<>>), file.head)
    IN FlattenSeq([i \in DOMAIN file.head.functions |->
                    [k \in DOMAIN metrics |-> resultOf(file.head.functions[i], metrics[k])]])
ResultsOf(file) ==
    LET sloc(f) == f.sloc
    IN <<Demote(FileResult(file, SLOC, file.head.sloc, Delta(file, sloc)), file.head)>>
       \o HealthResults(file) \o FunctionResults(file)

Emitted ==
    <<Result(UNMEASURED_FILES, "", NoBlob, <<>>, <<>>, Len(unmeasured), <<>>)>>
    \o [i \in DOMAIN unmeasured |-> Marker(unmeasured[i])]
    \o FlattenSeq([i \in DOMAIN files |-> ResultsOf(files[i])])

\* A result whose metric has no descriptor refuses the whole measurement.
Measure ==
    /\ engine = "reading"
    /\ read = Len(changed)
    /\ IF \A i \in DOMAIN Emitted : Emitted[i].metric \in Descriptors
       THEN engine' = "measured" /\ results' = Emitted
       ELSE engine' = "undeclared metric" /\ UNCHANGED results
    /\ UNCHANGED <<changed, read, files, unmeasured>>

StaticNext == ReadEntry \/ ReadFails \/ Measure

(***************************************************************************)
(* What a reader of the results is promised.                               *)
(***************************************************************************)
Reported == {results[i] : i \in DOMAIN results}
Pairing(r) == <<r.metric, r.path, r.oid, r.symbol, r.span>>

\* A file the change leaves on the head side and the engine claims is reported
\* with a size or named with a reason, and the count says how many were named.
NoFileVanishes ==
    /\ \A i \in DOMAIN changed : IsCandidate(changed[i]) =>
        \E r \in Reported : r.path = changed[i].path /\ r.metric \in {SLOC, UNMEASURED_FILE}
    /\ \A r \in Reported : r.metric = UNMEASURED_FILES =>
        r.value = Cardinality({s \in Reported : s.metric = UNMEASURED_FILE})

\* No two results of a measurement pair with each other, however many
\* functions of one name stand on one line.
NoTwoPair == Len(results) = Cardinality({Pairing(r) : r \in Reported})

\* A number computed over a tree the parser did not understand says so; the
\* count of what it did not understand does not.
DegradationIsMarked ==
    \A r \in Reported : \A i \in DOMAIN files :
        r.path = files[i].path =>
            (r.completeness = "parse-degraded" <=>
                Degraded(files[i].head) /\ r.metric \notin {PARSE_ERRORS, PARSE_MISSING})

\* The static engine's promises together: the engine never refuses its own
\* metrics, and what it reports accounts for every file and every function
\* (engine.rs, for_change and measure; functions.rs, disambiguate).
EveryFileIsAccountedFor ==
    /\ engine # "undeclared metric"
    /\ engine = "measured" => NoFileVanishes /\ NoTwoPair /\ DegradationIsMarked

=============================================================================
