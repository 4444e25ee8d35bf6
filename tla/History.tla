------------------------------- MODULE History --------------------------------
(***************************************************************************)
(* What the process engine reads and reports (engines/process: history.rs, *)
(* metrics.rs, entropy.rs, complexity.rs, engine.rs, probe.rs): one walk   *)
(* of `git log` over the days before a commit, six numbers per changed     *)
(* file, or one marker per metric where the clone is truncated.            *)
(*                                                                         *)
(* A history is a sequence of commits, oldest first, the parent of each    *)
(* before it (merges carry no numbers: --no-merges); a commit is named by  *)
(* its place.  A path stands for its index in the window's table of paths. *)
(***************************************************************************)
EXTENDS Integers, Sequences, FiniteSets, SequencesExt, FiniteSetsExt, Functions

CONSTANTS
    Paths,                      \* every path of the repository
    Spelling,                   \* Spelling[p]: the bytes of p, as tokens
    Authors,
    Gits,                       \* git versions
    Slop,                       \* Slop[g]: by how much the walk of g overshoots
    WindowDays,                 \* policy.history.window_days
    Complexity,                 \* from the static engine: some paths |-> number
    COUPLING_MIN_SUPPORT,       \* three in the code
    COUPLING_MAX_COMMIT_PATHS,  \* 25 in the code
    FRACTIONAL_BITS,            \* 32 in the code; TLC's integers allow 14
    MICROBITS_PER_BIT           \* 10^6 in the code

SECONDS_PER_DAY == 86400
COUPLING_RATIO_NUMERATOR == 1
COUPLING_RATIO_DENOMINATOR == 2

(* A touch of a text file has a number of lines, of a binary file none.    *)
Touches == [text : BOOLEAN, lines : Nat]
Binary == [text |-> FALSE, lines |-> 0]
IsCommit(c) ==
    /\ c.at \in Int
    /\ c.author \in Authors
    /\ DOMAIN c.touches \subseteq Paths
    /\ Range(c.touches) \subseteq Touches

ASSUME HistoryAssumption ==
    /\ IsFiniteSet(Paths)
    /\ WindowDays \in Nat
    /\ \A g \in Gits : Slop[g] \in Nat
    /\ DOMAIN Complexity \subseteq Paths
    /\ COUPLING_MIN_SUPPORT \in Nat \ {0}
    /\ COUPLING_MAX_COMMIT_PATHS \in Nat
    /\ FRACTIONAL_BITS \in 1 .. 14
    /\ MICROBITS_PER_BIT \in Nat \ {0}

------------------------------------------------------------------------------
(* The stream of `git log --numstat -z`.  A token is a kind and a number.  *)
Mark == <<"mark", 0>>   \* RECORD_MARK
Nul == <<"nul", 0>>
Newline == <<"newline", 0>>
Tab == <<"tab", 0>>
Dash == <<"dash", 0>>
Oid(n) == <<"oid", n>>  \* forty hexadecimal digits
Number(n) == <<"number", n>>
Author(n) == <<"author", n>>

(* git's side, with the LOG_FLAGS of the code. *)
Entry(touch, path) ==
    (IF touch.text THEN <<Number(touch.lines), Tab, Number(0)>>
                   ELSE <<Dash, Tab, Dash>>)
    \o <<Tab>> \o Spelling[path] \o <<Nul>>
Frame(id, commit, order) ==
    <<Mark, Oid(id), Nul, Number(commit.at), Nul, Author(commit.author), Nul,
      Author(commit.author), Newline>>
    \o FlattenSeq([i \in DOMAIN order |-> Entry(commit.touches[order[i]], order[i])])
    \o <<Nul>>
Stream(shown) ==
    FlattenSeq([i \in DOMAIN shown |->
                  Frame(i, shown[i], SetToSeq(DOMAIN shown[i].touches))])

SplitAt(tokens, mark) ==
    FoldLeft(LAMBDA pieces, t :
               IF t = mark THEN Append(pieces, <<>>)
               ELSE [pieces EXCEPT ![Len(pieces)] = Append(@, t)],
             <<<<>>>>, tokens)

(* looks_like_header *)
LooksLikeHeader(fragment) ==
    LET pieces == SplitAt(fragment, Nul)
    IN  /\ Len(pieces) >= 2
        /\ Len(pieces[1]) = 1 /\ pieces[1][1][1] = "oid"
        /\ Len(pieces[2]) = 1 /\ pieces[2][1][1] = "number"

(* split_records: a mark inside a path is put back. *)
SplitRecords(raw) ==
    FoldLeft(LAMBDA records, fragment :
               IF fragment = <<>> THEN records
               ELSE IF LooksLikeHeader(fragment) \/ records = <<>>
               THEN Append(records, fragment)
               ELSE [records EXCEPT ![Len(records)] = @ \o <<Mark>> \o fragment],
             <<>>, SplitAt(raw, Mark))

(* parse_numstat, count_field: the path is all after the second tab. *)
ParseNumstat(entry) ==
    [path |-> SubSeq(entry, 5, Len(entry)),
     touch |-> IF entry[1] = Dash THEN Binary
               ELSE [text |-> TRUE, lines |-> entry[1][2] + entry[3][2]]]

(* parse_log: the first entry shares a piece with the author's email. *)
ParseRecord(record) ==
    LET pieces == SplitAt(record, Nul)
        first == Tail(Tail(pieces[4]))
        entries == SelectSeq(<<first>> \o SubSeq(pieces, 5, Len(pieces)),
                             LAMBDA e : e # <<>>)
        parsed == {ParseNumstat(entries[i]) : i \in DOMAIN entries}
    IN  [oid |-> pieces[1][1][2], at |-> pieces[2][1][2], author |-> pieces[3][1][2],
         touches |-> [p \in {p \in Paths : \E e \in parsed : e.path = Spelling[p]} |->
                        (CHOOSE e \in parsed : e.path = Spelling[p]).touch]]
ParseLog(raw) ==
    LET records == SplitRecords(raw)
    IN  [i \in DOMAIN records |-> ParseRecord(records[i])]

------------------------------------------------------------------------------
(* The window.                                                             *)

(* git's walk from the anchor: newest first, no further than the boundary  *)
(* of the clone, whose first commit is shown as if it had no parent, and   *)
(* no further than a commit clearly older than --since.                    *)
ShownAt(history, boundary, i) ==
    IF i = boundary /\ boundary > 1
    THEN [history[i] EXCEPT !.touches = [p \in Paths |-> [text |-> TRUE, lines |-> 1]]]
    ELSE history[i]
Walk(history, anchor, boundary, since) ==
    LET stop == {i \in boundary .. anchor : history[i].at < since}
        first == IF stop = {} THEN boundary ELSE Max(stop) + 1
    IN  [i \in 1 .. anchor - first + 1 |-> ShownAt(history, boundary, anchor - i + 1)]

Cutoff(history, anchor) == history[anchor].at - WindowDays * SECONDS_PER_DAY

(* The commits of the window: the walk's, cut off where the window ends.   *)
WindowCommits(history, anchor, boundary, g) ==
    SelectSeq(ParseLog(Stream(Walk(history, anchor, boundary,
                                   Cutoff(history, anchor) - Slop[g]))),
              LAMBDA c : c.at >= Cutoff(history, anchor))

(* HistoryWindow::read.  Whether the clone is shallow is what Git::open    *)
(* found, before the walk.                                                 *)
ReadWindow(history, anchor, boundary, g, shallow) ==
    [anchor |-> anchor, at |-> history[anchor].at, days |-> WindowDays, git |-> g,
     truncated |-> shallow, commits |-> WindowCommits(history, anchor, boundary, g)]

------------------------------------------------------------------------------
(* metrics.rs: one path.                                                   *)

Touching(w, path) == {i \in DOMAIN w.commits : path \in DOMAIN w.commits[i].touches}

(* aggregate *)
PathHistory(w, path) ==
    LET of == Touching(w, path)
        text == {i \in of : w.commits[i].touches[path].text}
    IN  [commits |-> Cardinality(of),
         text_lines |-> MapThenSumSet(LAMBDA i : w.commits[i].touches[path].lines, text),
         text_touches |-> Cardinality(text),
         binary_touches |-> Cardinality(of \ text),
         touched_at |-> {w.commits[i].at : i \in of},
         authors |-> [a \in Authors |-> Cardinality({i \in of : w.commits[i].author = a})]]

(* age_days: a commit dated after the anchor is a skewed clock. *)
AgeDays(h, anchored_at) ==
    LET seconds == anchored_at - Max(h.touched_at)
    IN  (IF seconds < 0 THEN 0 ELSE seconds) \div SECONDS_PER_DAY

(* Mutant: sweeping commits are only left out of the numerator. *)
EligibleAll(w, path) == Touching(w, path)

(* Commits that touch the path and not half the repository besides. *)
Eligible(w, path) ==
    {i \in Touching(w, path) :
       Cardinality(DOMAIN w.commits[i].touches) <= COUPLING_MAX_COMMIT_PATHS}

(* coupled_absent_partners *)
CoupledAbsentPartners(w, path, changed) ==
    LET eligible == Eligible(w, path)
        Support(q) == Cardinality({i \in eligible : q \in DOMAIN w.commits[i].touches})
    IN  Cardinality({q \in Paths \ (changed \union {path}) :
          /\ Support(q) >= COUPLING_MIN_SUPPORT
          /\ Support(q) * COUPLING_RATIO_DENOMINATOR
               >= Cardinality(eligible) * COUPLING_RATIO_NUMERATOR})

------------------------------------------------------------------------------
(* entropy.rs: fixed-point arithmetic.                                     *)
One == 2 ^ FRACTIONAL_BITS

(* log2_q32: one bit of the fraction after another, by squaring. *)
FractionBits(mantissa) ==
    LET step[s \in 1 .. FRACTIONAL_BITS, m \in Nat] ==
          LET squared == (m * m) \div One
              crossed == squared >= 2 * One
              next == IF crossed THEN squared \div 2 ELSE squared
              bit == IF crossed THEN 2 ^ (FRACTIONAL_BITS - s) ELSE 0
          IN  IF s = FRACTIONAL_BITS THEN bit ELSE bit + step[s + 1, next]
    IN  step[1, mantissa]
Log2(n) ==
    IF n <= 1 THEN 0
    ELSE LET whole == CHOOSE k \in 0 .. n : 2 ^ k <= n /\ n < 2 ^ (k + 1)
         IN  whole * One + FractionBits((n * One) \div 2 ^ whole)

(* entropy_microbits: log2(N) less the weighted mean of log2(c), rounded.  *)
EntropyMicrobits(counts) ==
    LET total == MapThenSumSet(LAMBDA a : counts[a], Authors)
        weighted == MapThenSumSet(LAMBDA a : counts[a] * Log2(counts[a]), Authors)
        bits == Log2(total) - weighted \div total
    IN  IF total = 0 \/ bits < 0 THEN 0
        ELSE (bits * MICROBITS_PER_BIT + One \div 2) \div One

------------------------------------------------------------------------------
(* engine.rs.  A value is a number or a reason.                            *)
METRIC_CHURN_COMMITS == "process.churn-commits"
METRIC_CHURN_LINES == "process.churn-lines"
METRIC_CODE_AGE == "process.code-age-days"
METRIC_OWNERSHIP_ENTROPY == "process.ownership-entropy"
METRIC_HOTSPOT == "process.hotspot"
METRIC_CHANGE_COUPLING == "process.change-coupling"
metric_ids == {METRIC_CHURN_COMMITS, METRIC_CHURN_LINES, METRIC_CODE_AGE,
               METRIC_OWNERSHIP_ENTROPY, METRIC_HOTSPOT, METRIC_CHANGE_COUPLING}
TheChange == "change"   \* a scope; the other scopes are paths
None == -1
REASON_SHALLOW == "shallow"
REASON_NO_COMMITS == "no commits"
REASON_BINARY_ONLY == "binary only"
REASON_NO_COMPLEXITY == "no complexity"

(* file_facts: what was not measured is None, never a number. *)
FileFacts(w, path, changed) ==
    LET h == PathHistory(w, path)
        seen == h.commits > 0
        all_binary == h.text_touches = 0 /\ h.binary_touches > 0
    IN  [churn_commits |-> h.commits,
         churn_lines |-> IF all_binary THEN None ELSE h.text_lines,
         churn_lines_partial |-> h.binary_touches > 0 /\ h.text_touches > 0,
         age_days |-> IF seen THEN AgeDays(h, w.at) ELSE None,
         entropy |-> IF seen THEN EntropyMicrobits(h.authors) ELSE None,
         hotspot |-> IF seen /\ path \in DOMAIN Complexity
                     THEN h.commits * Complexity[path] ELSE None,
         coupled_absent |-> IF seen THEN CoupledAbsentPartners(w, path, changed)
                            ELSE None]

Result(metric, scope, number, completeness, reason) ==
    [metric |-> metric, scope |-> scope,
     value |-> IF number = None THEN <<"text", reason>> ELSE <<"number", number>>,
     completeness |-> IF number = None THEN "Unwitnessed" ELSE completeness]

(* measure, for one file. *)
FileResults(w, path, changed) ==
    LET f == FileFacts(w, path, changed)
        lines_of == IF f.churn_lines_partial THEN "Partial" ELSE "Complete"
        no_product == IF f.churn_commits = 0 THEN REASON_NO_COMMITS
                      ELSE REASON_NO_COMPLEXITY
    IN  {Result(METRIC_CHURN_COMMITS, path, f.churn_commits, "Complete", ""),
         Result(METRIC_CHURN_LINES, path, f.churn_lines, lines_of, REASON_BINARY_ONLY),
         Result(METRIC_CODE_AGE, path, f.age_days, "Complete", REASON_NO_COMMITS),
         Result(METRIC_OWNERSHIP_ENTROPY, path, f.entropy, "Complete", REASON_NO_COMMITS),
         Result(METRIC_HOTSPOT, path, f.hotspot, "Complete", no_product),
         Result(METRIC_CHANGE_COUPLING, path, f.coupled_absent, "Complete",
                REASON_NO_COMMITS)}

(* Mutant: the markers of a truncated window are given file by file. *)
MarkersPerFile(w, changed) ==
    IF w.truncated
    THEN {Result(m, p, None, "", REASON_SHALLOW) : m \in metric_ids, p \in changed}
    ELSE UNION {FileResults(w, p, changed) : p \in changed}

(* from_window and measure.  The emission rule: no file has a result where *)
(* the window is truncated.                                                *)
MeasuredIn(w, changed) ==
    IF w.truncated
    THEN {Result(m, TheChange, None, "", REASON_SHALLOW) : m \in metric_ids}
    ELSE UNION {FileResults(w, p, changed) : p \in changed}

------------------------------------------------------------------------------
(* probe.rs: the legs of the platform matrix, as a set of reports: each     *)
(* has an anchor, a git, and the results.                                  *)
SameRegime(a, b) == a.git = b.git

(* compare_legs, passed *)
LegsPass(legs) ==
    /\ legs # {}
    /\ \A a, b \in legs : a.anchor = b.anchor
    /\ \A leg \in legs : leg.results # {} /\ ~ leg.truncated
    /\ \A a, b \in legs : SameRegime(a, b) => a.results = b.results
===============================================================================
