---------------------------- MODULE LedgerStats ----------------------------
(***************************************************************************)
(* What is read back out of the measurement ledger: the distributions of   *)
(* crates/andon-ledger/src/stats.rs, with their warning about values that  *)
(* hug a rung, and the false-positive window of fp_window.rs.  The ledger  *)
(* is the history of the notes ref: this machine appends to it, migrates   *)
(* notes and merges what another machine, with its own clock, wrote; the   *)
(* reader lists it, reads note by note and then walks its history.         *)
(***************************************************************************)
EXTENDS Integers, Sequences, FiniteSets, FiniteSetsExt, SequencesExt, TLC

CONSTANTS
    Commits,              \* annotated commits, numbers in the order of their names
    Reports,              \* the records that can be written
    Ladders,              \* the rungs of each metric's ladder
    Clock,                \* the seconds a committer clock can show
    Windows,              \* the windows asked for: [since, until]
    MaxNotes,             \* bound: notes commits made
    CLUSTER_MIN_SAMPLES,
    CLUSTER_BAND,         \* the band is one CLUSTER_BAND-th of the rung
    CLUSTER_WARN,         \* warn when one value in CLUSTER_WARN is in the band
    RIDER_PREFIXES

ASSUME StatsAssumption ==
    /\ Commits \subseteq Nat /\ Clock \subseteq Nat
    /\ \A w \in Windows : w.since \in Int /\ w.until \in Int
    /\ \A r \in Reports : IsFiniteSet(r.results)
    /\ CLUSTER_MIN_SAMPLES \in Nat \ {0}
    /\ CLUSTER_BAND \in Nat \ {0}
    /\ CLUSTER_WARN \in Nat /\ CLUSTER_WARN >= 2

VARIABLES
    versions,  \* notes commits made: [machine, time, past, notes]
    tips,      \* the notes ref here, and on the other machine
    reading,   \* the reader: where it is and what it has
    report     \* the window measured

statsVars == <<versions, tips, reading, report>>

NoNotes == [c \in Commits |-> {}]
NotesAt(v) == IF v = 0 THEN NoNotes ELSE versions[v].notes
Past(v) == IF v = 0 THEN {} ELSE versions[v].past \cup {v}

NoReport == [taken |-> FALSE, refused |-> FALSE]
StartReading == [at |-> "idle", commits |-> {}, entries |-> {}, landing |-> <<>>]

StatsInit ==
    /\ versions = <<>>
    /\ tips = [here |-> 0, there |-> 0]
    /\ reading = StartReading
    /\ report = NoReport

(***************************************************************************)
(* Writers.  A notes commit keeps the clock of the machine that made it,   *)
(* and clocks are not compared: a later commit can show an earlier time.   *)
(***************************************************************************)
\* What is written after the history was walked is not read any more.
CommitNotes(machine, time, parents, notes) ==
    /\ reading.at \in {"idle", "notes"}
    /\ Len(versions) < MaxNotes
    /\ versions' = Append(versions,
                    [machine |-> machine, time |-> time, notes |-> notes,
                     past |-> UNION {Past(v) : v \in parents}])
    /\ tips' = [tips EXCEPT ![machine] = Len(versions) + 1]
    /\ UNCHANGED <<reading, report>>

\* On one machine time does not run back.
ClockOf(machine) ==
    {t \in Clock : \A v \in DOMAIN versions :
                     versions[v].machine = machine => versions[v].time <= t}

AppendReport(machine, c, r) ==
    /\ r \notin NotesAt(tips[machine])[c]
    /\ \E t \in ClockOf(machine) :
           CommitNotes(machine, t, {tips[machine]},
                  [NotesAt(tips[machine]) EXCEPT ![c] = @ \cup {r}])

\* Notes::migrate: the note of `to` becomes the union, its lines unchanged.
MigrateReports(from, to) ==
    LET notes == NotesAt(tips.here) IN
    /\ notes[from] \ notes[to] # {}
    /\ \E t \in ClockOf("here") :
           CommitNotes("here", t, {tips.here}, [notes EXCEPT ![to] = @ \cup notes[from]])

\* cat_sort_uniq: both histories are kept, with the times they carry.
MergeReports ==
    /\ tips.there \notin Past(tips.here)
    /\ tips.there # 0
    /\ \E t \in ClockOf("here") :
           CommitNotes("here", t, {tips.here, tips.there},
                  [c \in Commits |-> NotesAt(tips.here)[c] \cup NotesAt(tips.there)[c]])

(***************************************************************************)
(* load_ref: the annotated commits, then the note of each, in the order of  *)
(* their names; landing_times afterwards, over the history the ref has by   *)
(* then.                                                                    *)
(***************************************************************************)
ListCommits ==
    /\ reading.at = "idle"
    /\ tips.here # 0
    /\ reading' = [reading EXCEPT
                     !.at = "notes",
                     !.commits = {c \in Commits : NotesAt(tips.here)[c] # {}}]
    /\ UNCHANGED <<versions, tips, report>>

ReadNote ==
    /\ reading.at = "notes"
    /\ reading.commits # {}
    /\ LET c == Min(reading.commits) IN
       reading' = [reading EXCEPT
                     !.commits = @ \ {c},
                     !.entries = @ \cup {[commit |-> c, record |-> r] : r \in NotesAt(tips.here)[c]}]
    /\ UNCHANGED <<versions, tips, report>>

RecordsIn(v) == UNION {versions[v].notes[c] : c \in Commits}

\* Mutant: the time of the last notes commit that has it.
LandingLatest(tip) ==
    [r \in UNION {RecordsIn(v) : v \in Past(tip)} |->
        Max({versions[v].time : v \in {u \in Past(tip) : r \in RecordsIn(u)}})]

\* The earliest time of a notes commit, of any history merged, that has it.
Landing(tip) ==
    [r \in UNION {RecordsIn(v) : v \in Past(tip)} |->
        Min({versions[v].time : v \in {u \in Past(tip) : r \in RecordsIn(u)}})]

LandingTimes ==
    /\ reading.at = "notes"
    /\ reading.commits = {}
    /\ reading' = [reading EXCEPT !.at = "dated", !.landing = Landing(tips.here)]
    /\ UNCHANGED <<versions, tips, report>>

(***************************************************************************)
(* distribution: values by metric and regime, and the rungs they hug.      *)
(* A value keeps the `site` it was measured at; one counted under two      *)
(* commits is two values.  Ratios are in thousandths.                      *)
(***************************************************************************)
Values(entries) ==
    {[entry |-> e, result |-> x] : e \in entries, x \in UNION {e.record.results : e \in entries}}

Group(entries, metric, regime) ==
    {v \in Values(entries) :
        /\ v.result \in v.entry.record.results
        /\ v.result.metric = metric
        /\ v.result.regime = regime}

RegimesOf(entries, metric) ==
    {v.result.regime : v \in {w \in Values(entries) :
        w.result \in w.entry.record.results /\ w.result.metric = metric}}

\* The band in CLUSTER_BAND-ths of a unit, exactly: its floor and its ceiling.
\* The code has them in f64, and may be a rounding off at a floor.
Magnitude(n) == IF n < 0 THEN -n ELSE n
BandOf(rung) ==
    [floor |-> CLUSTER_BAND * rung.at -
               (IF rung.kind = "ratio" THEN rung.at
                ELSE Max({Magnitude(rung.at), CLUSTER_BAND})),
     ceiling |-> CLUSTER_BAND * rung.at]
ContainsZero(band) == band.floor <= 0 /\ 0 < band.ceiling
ZeroMeansNothingFound(rung) == rung.kind \in {"count", "ratio"}
OnAxis(rung, value) == value.kind = rung.kind
InBand(rung, value) ==
    /\ CLUSTER_BAND * value.at >= BandOf(rung).floor
    /\ CLUSTER_BAND * value.at < BandOf(rung).ceiling

Population(rung, values) ==
    {v \in values :
        /\ OnAxis(rung, v.result.value)
        /\ ZeroMeansNothingFound(rung) => v.result.value.at # 0}

ClusterWarning(rung, values) ==
    LET total == Population(rung, values)
        inBand == {v \in total : InBand(rung, v.result.value)}
    IN  /\ ~ ContainsZero(BandOf(rung))
        /\ Cardinality(inBand) >= CLUSTER_MIN_SAMPLES
        /\ Cardinality(inBand) * CLUSTER_WARN >= Cardinality(total)

ClusterWarnings(entries) ==
    UNION {UNION {{[metric |-> metric, regime |-> regime, rung |-> rung] :
                       rung \in {r \in Ladders[metric] :
                                    ClusterWarning(r, Group(entries, metric, regime))}} :
                  regime \in RegimesOf(entries, metric)} :
           metric \in DOMAIN Ladders}

(***************************************************************************)
(* window: the self-reports that landed in it, and what fired in them.     *)
(***************************************************************************)
RiderMetric(id) == \E p \in RIDER_PREFIXES : IsPrefix(p, id)

SelfReports(entries) == {e \in entries : e.record.kind = "self_report"}
Undated(entries, landing) == {e \in SelfReports(entries) : e.record \notin DOMAIN landing}
Landed(entries, landing, w) ==
    {e \in SelfReports(entries) \ Undated(entries, landing) :
        w.since <= landing[e.record] /\ landing[e.record] <= w.until}

Fired(entries, head) ==
    {x.metric : x \in UNION {{y \in e.record.results : y.medPlus} :
                             e \in {f \in entries : f.record.head = head}}}

Tally(in, of) == [k \in {of[e] : e \in in} |-> Cardinality({e \in in : of[e] = k})]

FpWindow(entries, landing, w) ==
    LET in == Landed(entries, landing, w)
        heads == {e.record.head : e \in in}
        med == {h \in heads : Fired(in, h) # {}}
        families == {x.family : x \in UNION {e.record.results : e \in in}}
        labels(f) == {x.regime : x \in {y \in UNION {e.record.results : e \in in} : y.family = f}}
    IN  [taken |-> TRUE, refused |-> FALSE, window |-> w,
         totalRecords |-> Cardinality(entries),
         inWindow |-> Cardinality(in),
         undated |-> Cardinality(Undated(entries, landing)),
         nonSelfReports |-> Cardinality(entries \ SelfReports(entries)),
         changes |-> Cardinality(heads),
         medPlusChanges |-> Cardinality(med),
         riderChanges |-> Cardinality({h \in med : \E id \in Fired(in, h) : RiderMetric(id)}),
         medPlusByMetric |->
            [id \in UNION {Fired(in, h) : h \in med} |->
                Cardinality({h \in med : id \in Fired(in, h)})],
         escalations |-> Cardinality({e \in in : e.record.verdict = "escalate_to_human"}),
         policyHashes |-> Tally(in, [e \in in |-> e.record.policy]),
         bySource |-> Tally(in, [e \in in |-> e.record.source]),
         splitFamilies |-> {f \in families : Cardinality(labels(f)) > 1},
         warnings |-> ClusterWarnings(entries)]

\* `ledger stats` and the false-positive window, two commands over the same
\* reading; only the second is refused for its window.
MeasureWindow(w) ==
    /\ reading.at = "dated"
    /\ report' = IF w.until < w.since
                 THEN [taken |-> TRUE, refused |-> TRUE]
                 ELSE FpWindow(reading.entries, reading.landing, w)
    /\ reading' = [reading EXCEPT !.at = "done"]
    /\ UNCHANGED <<versions, tips>>

StatsNext ==
    \/ \E machine \in {"here", "there"}, c \in Commits, r \in Reports : AppendReport(machine, c, r)
    \/ \E from, to \in Commits : MigrateReports(from, to)
    \/ MergeReports
    \/ ListCommits
    \/ ReadNote
    \/ LandingTimes
    \/ \E w \in Windows : MeasureWindow(w)

StatsSpec == StatsInit /\ [][StatsNext]_statsVars

------------------------------------------------------------------------------
WindowTaken == report.taken /\ ~ report.refused

\* Notes commits that hold a record, on whichever machine they were made.
Holding(r) == {v \in DOMAIN versions : r \in RecordsIn(v)}
WrittenHere(r) == \A v \in Holding(r) : versions[v].machine = "here"

(* Whatever the ledger does while it is read, a window places every record  *)
(* it was given: each is somebody else's report, or landed in the window,   *)
(* or landed outside it, and none is without a date; and a record only this *)
(* machine ever wrote is filed under the second it was first appended,      *)
(* through any migration or merge that follows (load_ref, landing_times     *)
(* and window are three reads of a ledger that moves).                      *)
EveryRecordIsCounted ==
    WindowTaken =>
        LET reports == SelfReports(reading.entries)
            landing == reading.landing
            outside == {e \in reports :
                            /\ e.record \in DOMAIN landing
                            /\ landing[e.record] \notin report.window.since..report.window.until}
        IN  /\ report.undated = 0
            /\ report.inWindow + report.nonSelfReports + Cardinality(outside)
                    = report.totalRecords
            /\ \A e \in reports : WrittenHere(e.record) =>
                   landing[e.record] = versions[Min(Holding(e.record))].time

\* The results of a regime somebody shaved to sit under this rung, and the
\* findings beside them.
Shaved(entries, metric, regime, rung) ==
    {v \in Group(entries, metric, regime) : rung \in v.result.shavedUnder}
Honest(entries, metric, regime, rung) ==
    {v \in Population(rung, Group(entries, metric, regime)) : rung \notin v.result.shavedUnder}

\* To shave is to end within the last tenth under a rung, or one unit under it,
\* where that tenth is clear of zero: nothing found is nobody's work.
ASSUME ShavingIsJustUnder ==
    \A metric \in DOMAIN Ladders : \A rung \in Ladders[metric] :
      \A x \in {y \in UNION {r.results : r \in Reports} : y.metric = metric} :
        rung \in x.shavedUnder <=>
            OnAxis(rung, x.value) /\ InBand(rung, x.value) /\ ~ ContainsZero(BandOf(rung))

(* Shaving shows: when enough results of one regime were held just under a  *)
(* rung, and no more honest findings than that stand beside them, the rung  *)
(* is warned about, however many zeros or results of another regime the     *)
(* ledger holds; and a regime in which nobody shaves is never warned about, *)
(* whatever else changed (cluster_warnings, band_of, distribution).         *)
ShavingIsWarned ==
    WindowTaken =>
        \A metric \in DOMAIN Ladders :
          \A regime \in RegimesOf(reading.entries, metric), rung \in Ladders[metric] :
            LET shaved == Cardinality(Shaved(reading.entries, metric, regime, rung))
                honest == Cardinality(Honest(reading.entries, metric, regime, rung))
                warned == [metric |-> metric, regime |-> regime, rung |-> rung] \in report.warnings
            IN  /\ shaved >= CLUSTER_MIN_SAMPLES /\ shaved >= honest => warned
                /\ warned => shaved >= CLUSTER_MIN_SAMPLES

(* What the ledger's statistics say is what its records hold (fp_window.rs  *)
(* and stats.rs).                                                           *)
StatisticsAreOfTheRecords == EveryRecordIsCounted /\ ShavingIsWarned
=============================================================================
