-------------------------- MODULE VerdictLoop_proofs --------------------------
(***************************************************************************)
(* Theorems about VerdictLoop, for any registry, policies, changes,        *)
(* failures and bound.  The core is the verdict itself: what blocks        *)
(* (BlockingWords), that worse findings weigh at least as much             *)
(* (ReasonsWorsen), and that a policy edit without a loosening can only    *)
(* add to what stops the line (TighterStops).                              *)
(***************************************************************************)
EXTENDS VerdictLoop, TLAPS

(* What a registry may say of a metric. *)
LEMMA AboutTypes ==
    ASSUME NEW m \in Metrics
    PROVE  /\ About[m].kind \in Kinds
           /\ About[m].tier \in Tiers
           /\ About[m].class \in {"actionable", "context"}
           /\ About[m].rungs \subseteq [at : 0 .. MaxValue, severity : Severities]
           /\ About[m].kind # "metric" => \A r \in About[m].rungs : r.at = 1
BY MetricsAssumption

(* A set of severities has a highest. *)
LEMMA HighestIsHighest ==
    ASSUME NEW S \in SUBSET Severities, S # {}
    PROVE  /\ Highest(S) \in S
           /\ \A t \in S : t <= Highest(S)
<1>1. \E s \in S : \A t \in S : t <= s
  <2> USE DEF Severities, Info, Critical
  <2>0. \A t \in S : t \in {0, 1, 2, 3, 4}  OBVIOUS
  <2>1. CASE 4 \in S  BY <2>1
  <2>2. CASE 4 \notin S /\ 3 \in S  BY <2>2
  <2>3. CASE 4 \notin S /\ 3 \notin S /\ 2 \in S  BY <2>3
  <2>4. CASE 4 \notin S /\ 3 \notin S /\ 2 \notin S /\ 1 \in S
    BY <2>0, <2>4
  <2>5. CASE 4 \notin S /\ 3 \notin S /\ 2 \notin S /\ 1 \notin S
    <3>1. \A t \in S : t = 0  BY <2>0, <2>5
    <3>2. PICK s \in S : TRUE  OBVIOUS
    <3> QED  BY <3>1, <3>2
  <2> QED  BY <2>1, <2>2, <2>3, <2>4, <2>5
<1> QED  BY <1>1 DEF Highest

Reached(m, value) ==
    {Info} \union {r.severity : r \in {q \in About[m].rungs : value >= q.at}}

LEMMA ReachedTypes ==
    ASSUME NEW m \in Metrics, NEW value \in Int
    PROVE  /\ Reached(m, value) \in SUBSET Severities
           /\ Reached(m, value) # {}
BY AboutTypes DEF Reached, Severities, Info, Critical

(* The ladder is monotone. *)
LEMMA LadderClimbs ==
    ASSUME NEW m \in Metrics, NEW low \in Int, NEW high \in Int, low <= high
    PROVE  /\ SeverityFor(m, low) \in Severities
           /\ SeverityFor(m, high) \in Severities
           /\ SeverityFor(m, low) <= SeverityFor(m, high)
<1>1. Reached(m, low) \subseteq Reached(m, high)
  <2> SUFFICES ASSUME NEW r \in About[m].rungs, low >= r.at
               PROVE  high >= r.at
    BY DEF Reached
  <2>1. r.at \in Int  BY AboutTypes, MetricsAssumption
  <2> QED  BY <2>1
<1>2. /\ SeverityFor(m, low) = Highest(Reached(m, low))
      /\ SeverityFor(m, high) = Highest(Reached(m, high))
  BY DEF SeverityFor, Reached
<1>3. /\ Highest(Reached(m, low)) \in Reached(m, low)
      /\ Highest(Reached(m, high)) \in Reached(m, high)
      /\ \A t \in Reached(m, high) : t <= Highest(Reached(m, high))
  BY ReachedTypes, HighestIsHighest
<1> QED  BY <1>1, <1>2, <1>3, ReachedTypes

(* A flag that did not fire has no severity. *)
LEMMA QuietFlagIsInfo ==
    ASSUME NEW m \in Metrics, About[m].kind # "metric",
           NEW value \in {Absent, 0}
    PROVE  SeverityFor(m, value) = Info
<1>1. \A r \in About[m].rungs : r.at = 1  BY AboutTypes
<1>2. Reached(m, value) = {Info}  BY <1>1 DEF Reached, Absent
<1>3. Highest({Info}) = Info  BY HighestIsHighest DEF Severities, Info, Critical
<1> QED  BY <1>2, <1>3 DEF SeverityFor, Reached

LEMMA AnswerTypes ==
    ASSUME NEW f \in Findings, NEW m \in Metrics
    PROVE  /\ f[m] \in Answers
           /\ f[m].value \in Int
           /\ About[m].kind # "metric" => f[m].value \in {Absent, 0, 1}
BY MetricsAssumption DEF Findings, Answers, Absent

------------------------------------------------------------------------------
(* Severity. *)

(* A larger value, seen equally well, has at least the severity. *)
LEMMA SeverityGrows ==
    ASSUME NEW p \in Policies, NEW m \in Metrics,
           NEW a \in Answers, NEW b \in Answers,
           a.completeness = b.completeness, a.value <= b.value
    PROVE  /\ Severity(p, m, a) \in Severities
           /\ Severity(p, m, b) \in Severities
           /\ Severity(p, m, a) <= Severity(p, m, b)
<1>1. a.value \in Int /\ b.value \in Int
  BY MetricsAssumption DEF Answers, Absent
<1>2. /\ SeverityFor(m, a.value) \in Severities
      /\ SeverityFor(m, b.value) \in Severities
      /\ SeverityFor(m, a.value) <= SeverityFor(m, b.value)
  BY <1>1, LadderClimbs
<1>3. AdvisoryOnly(p, m, a) <=> AdvisoryOnly(p, m, b)  BY DEF AdvisoryOnly
<1>4. p.max_severity_for_c_tier \in Severities  BY DEF Policies
<1> QED  BY <1>2, <1>3, <1>4 DEF Severity, Capped, Severities, Info, Low, Critical

(* A policy that caps less leaves more. *)
LEMMA SeverityUnderTighter ==
    ASSUME NEW p \in Policies, NEW q \in Policies, NEW m \in Metrics,
           NEW a \in Answers,
           AdvisoryOnly(q, m, a) => AdvisoryOnly(p, m, a),
           p.max_severity_for_c_tier <= q.max_severity_for_c_tier
    PROVE  Severity(p, m, a) <= Severity(q, m, a)
<1>1. a.value \in Int  BY MetricsAssumption DEF Answers, Absent
<1>2. SeverityFor(m, a.value) \in Severities  BY <1>1, LadderClimbs
<1>3. /\ p.max_severity_for_c_tier \in Severities
      /\ q.max_severity_for_c_tier \in Severities
  BY DEF Policies
<1> QED  BY <1>2, <1>3 DEF Severity, Capped, Severities, Info, Low, Critical

(* The code and the severity of a result's reason. *)
LEMMA ReasonFacts ==
    ASSUME NEW p, NEW m \in Metrics, NEW a
    PROVE  /\ ReasonAbout(p, m, a).code \in Blocking <=> StopsTheLine(p, m, a)
           /\ ReasonAbout(p, m, a).severity =
                IF Fired(m, a) /\ StopsTheLine(p, m, a) THEN Critical
                ELSE Severity(p, m, a)
<1>1. CASE Fired(m, a) /\ About[m].kind = "signal"
  BY <1>1 DEF ReasonAbout, Reason, Blocking
<1>2. CASE Fired(m, a) /\ About[m].kind = "suite"
  BY <1>2 DEF ReasonAbout, Reason, Blocking
<1>3. CASE ~ Fired(m, a)
  BY <1>3 DEF ReasonAbout, Reason, Blocking
<1> QED  BY <1>1, <1>2, <1>3 DEF Fired

------------------------------------------------------------------------------
(* The four words. *)

Stopped(v) ==
    \/ \E m \in v.shown : StopsTheLine(v.policy, m, v.found[m])
    \/ Loosened(v)

LEMMA BlockingReasons ==
    ASSUME NEW v \in Views
    PROVE  (\E r \in Reasons(v) : r.code \in Blocking) <=> Stopped(v)
<1>0. v.shown \subseteq Metrics  BY DEF Views
<1>1. (\E r \in {ReasonAbout(v.policy, m, v.found[m]) : m \in v.shown} : r.code \in Blocking)
        <=> \E m \in v.shown : StopsTheLine(v.policy, m, v.found[m])
  BY <1>0, ReasonFacts
<1>2. (\E r \in ReasonsAboutThePolicy(v) : r.code \in Blocking) <=> Loosened(v)
  <2>1. CASE Loosened(v)
    <3>1. Reason("policy-change-loosening", High) \in ReasonsAboutThePolicy(v)
      BY <2>1 DEF ReasonsAboutThePolicy
    <3> QED  BY <2>1, <3>1 DEF Reason, Blocking
  <2>2. CASE ~ Loosened(v)
    BY <2>2 DEF ReasonsAboutThePolicy, Reason, Blocking
  <2> QED  BY <2>1, <2>2
<1>3. \A r \in ReasonsAboutTheView(v) : r.code \notin Blocking
  BY DEF ReasonsAboutTheView, Reason, Blocking
<1> QED  BY <1>1, <1>2, <1>3 DEF Reasons, Stopped

(* What stops the line, and what is passed on to a human. *)
LEMMA BlockingWords ==
    ASSUME NEW v \in Views, NEW escalated \in BOOLEAN
    PROVE  /\ Verdict(v, escalated) \in Words
           /\ Verdict(v, escalated) = "escalate_to_human" <=> escalated /\ Open(v)
           /\ Verdict(v, escalated) \in Stopping <=>
                Stopped(v) \/ (escalated /\ Open(v))
BY BlockingReasons DEF Verdict, Words, Strictness, Stopping

------------------------------------------------------------------------------
(* Worse findings. *)

LEMMA FlagsKeepFiring ==
    ASSUME NEW f \in Findings, NEW g \in Findings, AtLeastAsBad(f, g),
           NEW m \in Metrics, Fired(m, g[m])
    PROVE  Fired(m, f[m])
<1>1. /\ f[m].value >= g[m].value
      /\ g[m].value = 1
      /\ About[m].kind \in {"signal", "suite"}
  BY DEF AtLeastAsBad, Fired
<1>2. f[m].value \in {Absent, 0, 1}  BY <1>1, AnswerTypes
<1> QED  BY <1>1, <1>2 DEF Fired, Absent

LEMMA SeverityWorsens ==
    ASSUME NEW p \in Policies, NEW f \in Findings, NEW g \in Findings,
           AtLeastAsBad(f, g), NEW m \in Metrics
    PROVE  /\ Severity(p, m, g[m]) \in Severities
           /\ Severity(p, m, f[m]) \in Severities
           /\ Severity(p, m, g[m]) <= Severity(p, m, f[m])
<1>1. /\ g[m].completeness = f[m].completeness
      /\ g[m].value <= f[m].value
  BY AnswerTypes DEF AtLeastAsBad
<1> QED  BY <1>1, AnswerTypes, SeverityGrows

(* A flag that is quiet stops nothing and counts for nothing. *)
LEMMA QuietFlag ==
    ASSUME NEW p \in Policies, NEW f \in Findings, NEW m \in Metrics,
           About[m].kind # "metric", ~ Fired(m, f[m])
    PROVE  Severity(p, m, f[m]) = Info /\ ~ StopsTheLine(p, m, f[m])
<1>1. f[m].value \in {Absent, 0}
  BY AnswerTypes, AboutTypes DEF Fired, Kinds
<1>2. SeverityFor(m, f[m].value) = Info  BY <1>1, QuietFlagIsInfo
<1>3. p.max_severity_for_c_tier \in Severities  BY DEF Policies
<1>4. Severity(p, m, f[m]) = Info
  BY <1>2, <1>3 DEF Severity, Capped, Severities, Info, Low, Critical
<1> QED  BY <1>4 DEF StopsTheLine, Info, Medium

LEMMA StopsWorsen ==
    ASSUME NEW p \in Policies, NEW f \in Findings, NEW g \in Findings,
           AtLeastAsBad(f, g), NEW m \in Metrics
    PROVE  /\ StopsTheLine(p, m, g[m]) => StopsTheLine(p, m, f[m])
           /\ Counts(p, m, g[m]) => Counts(p, m, f[m])
<1>1. CASE Fired(m, g[m])
  <2>1. Fired(m, f[m])  BY <1>1, FlagsKeepFiring
  <2>2. StopsTheLine(p, m, g[m]) <=> StopsTheLine(p, m, f[m])
    BY <1>1, <2>1 DEF StopsTheLine
  <2> QED
    BY <1>1, <2>1, <2>2, SeverityWorsens DEF Counts, Severities, Info, Critical
<1>2. CASE ~ Fired(m, g[m]) /\ About[m].kind # "metric"
  <2>1. /\ Severity(p, m, g[m]) = Info
        /\ ~ StopsTheLine(p, m, g[m])
    BY <1>2, QuietFlag
  <2> QED  BY <1>2, <2>1 DEF Counts
<1>3. CASE ~ Fired(m, g[m]) /\ About[m].kind = "metric"
  <2>1. ~ Fired(m, f[m])  BY <1>3 DEF Fired
  <2> QED
    BY <1>3, <2>1, SeverityWorsens
    DEF Counts, StopsTheLine, Severities, Info, Medium, Critical
<1> QED  BY <1>1, <1>2, <1>3

LEMMA ReasonsWorsen ==
    ASSUME NEW p \in Policies, NEW f \in Findings, NEW g \in Findings,
           AtLeastAsBad(f, g), NEW m \in Metrics,
           ReasonAbout(p, m, g[m]).severity > Info
    PROVE  ReasonAbout(p, m, f[m]).severity > Info
<1>1. CASE Fired(m, f[m]) /\ StopsTheLine(p, m, f[m])
  BY <1>1, ReasonFacts DEF Info, Critical
<1>2. CASE ~ (Fired(m, f[m]) /\ StopsTheLine(p, m, f[m]))
  <2>1. ~ (Fired(m, g[m]) /\ StopsTheLine(p, m, g[m]))
    BY <1>2, StopsWorsen, FlagsKeepFiring
  <2>2. /\ ReasonAbout(p, m, f[m]).severity = Severity(p, m, f[m])
        /\ ReasonAbout(p, m, g[m]).severity = Severity(p, m, g[m])
    BY <1>2, <2>1, ReasonFacts
  <2> QED  BY <2>2, SeverityWorsens DEF Severities, Info, Critical
<1> QED  BY <1>1, <1>2

(* The verdict on worse findings, all else equal. *)
LEMMA VerdictWorsens ==
    ASSUME NEW v \in Views, NEW f \in Findings, AtLeastAsBad(f, v.found),
           NEW escalated \in BOOLEAN
    PROVE  Strictness[Verdict([v EXCEPT !.found = f], escalated)]
             >= Strictness[Verdict(v, escalated)]
<1> DEFINE w == [v EXCEPT !.found = f]
<1>1. /\ w \in Views
      /\ w.found = f
      /\ w.policy = v.policy /\ w.before = v.before /\ w.after = v.after
      /\ w.shown = v.shown /\ w.down = v.down /\ w.spilled = v.spilled
      /\ w.unread = v.unread
  BY DEF Views
<1>2. /\ v.policy \in Policies
      /\ v.found \in Findings
      /\ v.shown \subseteq Metrics
  BY DEF Views
<1> HIDE DEF w
<1>3. Loosened(w) = Loosened(v)  BY <1>1 DEF Loosened
<1>4. Open(v) => Open(w)  BY <1>1, <1>2, <1>3, StopsWorsen DEF Open
<1>5. Stopped(v) => Stopped(w)  BY <1>1, <1>2, <1>3, StopsWorsen DEF Stopped
<1>6. ASSUME NEW r \in Reasons(v), r.severity > Info
      PROVE  \E q \in Reasons(w) : q.severity > Info
  <2>1. CASE r \in ReasonsAboutThePolicy(v)
    BY <1>1, <1>3, <1>6, <2>1 DEF Reasons, ReasonsAboutThePolicy
  <2>2. CASE r \in ReasonsAboutTheView(v)
    BY <1>1, <1>6, <2>2 DEF Reasons, ReasonsAboutTheView
  <2>3. CASE r \in {ReasonAbout(v.policy, m, v.found[m]) : m \in v.shown}
    <3>1. PICK m \in v.shown : r = ReasonAbout(v.policy, m, v.found[m])
      BY <2>3
    <3>2. ReasonAbout(v.policy, m, f[m]).severity > Info
      BY <1>2, <1>6, <3>1, ReasonsWorsen
    <3>3. ReasonAbout(v.policy, m, f[m]) \in Reasons(w)  BY <1>1 DEF Reasons
    <3> QED  BY <3>2, <3>3
  <2> QED  BY <1>6, <2>1, <2>2, <2>3 DEF Reasons
<1>7. (\E r \in Reasons(v) : r.severity > Info)
        => \E r \in Reasons(w) : r.severity > Info
  BY <1>6
<1>8. (\E r \in Reasons(v) : r.code \in Blocking)
        => \E r \in Reasons(w) : r.code \in Blocking
  BY <1>1, <1>5, BlockingReasons
<1>9. Strictness[Verdict(w, escalated)] >= Strictness[Verdict(v, escalated)]
  BY <1>4, <1>7, <1>8 DEF Verdict, Strictness
<1> QED  BY <1>9 DEF w

------------------------------------------------------------------------------
(* A policy edit that loosens nothing and is of no unknown kind. *)

Tightened(p, q) ==
    Moves(p, q) \intersect {"Loosening", "Unclassified"} = {}

(* Field by field. *)
LEMMA TightenedFields ==
    ASSUME NEW p \in Policies, NEW q \in Policies, Tightened(p, q)
    PROVE  /\ p.block_on_tamper => q.block_on_tamper
           /\ p.block_on_test_failure => q.block_on_test_failure
           /\ p.count_context_informational => q.count_context_informational
           /\ p.enabled => q.enabled
           /\ q.med_plus_requires_diff_actionable
                => p.med_plus_requires_diff_actionable
           /\ p.max_severity_for_c_tier <= q.max_severity_for_c_tier
           /\ q.iteration_cap <= p.iteration_cap
           /\ p.med_plus_tiers \subseteq q.med_plus_tiers
           /\ p.test_command # NoCommand => q.test_command = p.test_command
<1>1. \A field \in Fields : p[field] # q[field]
        => Direction(field, p[field], q[field]) \notin {"Loosening", "Unclassified"}
  BY DEF Tightened, Moves
<1>2. /\ p.block_on_tamper => q.block_on_tamper
      /\ p.block_on_test_failure => q.block_on_test_failure
      /\ p.count_context_informational => q.count_context_informational
      /\ p.enabled => q.enabled
  BY <1>1 DEF Fields, Switches, Direction, Policies
<1>3. q.med_plus_requires_diff_actionable => p.med_plus_requires_diff_actionable
  BY <1>1 DEF Fields, Switches, Direction, Policies
<1>4. p.max_severity_for_c_tier <= q.max_severity_for_c_tier
  BY <1>1 DEF Fields, Switches, Direction, Policies, Severities, Info, Critical
<1>5. q.iteration_cap <= p.iteration_cap
  BY <1>1 DEF Fields, Switches, Direction, Policies
<1>6. p.med_plus_tiers \subseteq q.med_plus_tiers
  BY <1>1 DEF Fields, Switches, Direction, TiersDirection, Policies
<1>7. p.test_command # NoCommand => q.test_command = p.test_command
  BY <1>1 DEF Fields, Switches, Direction, Policies
<1> QED  BY <1>2, <1>3, <1>4, <1>5, <1>6, <1>7

(* Whatever stops the line, or counts, under the old policy does so under  *)
(* the new one.                                                            *)
LEMMA TighterStops ==
    ASSUME NEW p \in Policies, NEW q \in Policies, Tightened(p, q),
           NEW f \in Findings, NEW m \in Metrics
    PROVE  /\ StopsTheLine(p, m, f[m]) => StopsTheLine(q, m, f[m])
           /\ Counts(p, m, f[m]) => Counts(q, m, f[m])
<1>1. AdvisoryOnly(q, m, f[m]) => AdvisoryOnly(p, m, f[m])
  BY TightenedFields DEF AdvisoryOnly
<1>2. Severity(p, m, f[m]) <= Severity(q, m, f[m])
  BY <1>1, TightenedFields, AnswerTypes, SeverityUnderTighter
<1>3. /\ Severity(p, m, f[m]) \in Severities
      /\ Severity(q, m, f[m]) \in Severities
  BY AnswerTypes, SeverityGrows
<1>4. StopsTheLine(p, m, f[m]) => StopsTheLine(q, m, f[m])
  BY <1>2, <1>3, TightenedFields
  DEF StopsTheLine, Severities, Info, Medium, Critical
<1>5. Severity(p, m, f[m]) # Info => Severity(q, m, f[m]) # Info
  BY <1>2, <1>3 DEF Severities, Info, Critical
<1>6. p.count_context_informational => q.count_context_informational
  BY TightenedFields
<1> QED  BY <1>4, <1>5, <1>6 DEF Counts

------------------------------------------------------------------------------
(* The loop. *)

(* The verdict is the one its record justifies. *)
JudgedInv ==
    record # NoRecord =>
        record.verdict = Verdict(ViewOf(record), Escalated(record.count, record.policy))

(* While an escalation stands the counter stays above its cap, and so does *)
(* the count a deferred engine's results will be judged with.              *)
ToldInv ==
    told # NobodyTold =>
        /\ entry.count > told
        /\ record # NoRecord /\ record.spilled # {} => record.count > told

LoopInv == TypeOK /\ JudgedInv /\ ToldInv

Entries == [count : 0 .. MaxCount, change : Changes \union {NoChange}]

LEMMA CounterFacts ==
    ASSUME NEW e \in Entries, NEW c \in Changes
    PROVE  /\ Counter!Cleared \in Entries
           /\ Counter!Cleared.count = 0
           /\ Counter!Counted(e, c) \in Entries
           /\ Counter!Counted(e, c).count >= e.count
BY LoopAssumption DEF Entries, Counter!Cleared, Counter!Counted

LEMMA PolicyTypes ==
    ASSUME NEW c \in Changes
    PROVE  /\ InForce(c) \subseteq Policies
           /\ Of[c].before \in Policies /\ Of[c].after \in Policies
           /\ Of[c].found \in Findings /\ Of[c].unread \in BOOLEAN
<1>1. Of[c] \in Contents  BY LoopAssumption
<1> QED  BY <1>1, LoopAssumption DEF Contents, InForce

LEMMA SpilledTypes ==
    ASSUME NEW p, NEW late \in 1 .. Len(ContentEngines) + 1
    PROVE  Spilled(p, late) \in SUBSET Engines
<1>1. Len(ContentEngines) \in Nat  BY LoopAssumption
<1>2. \A i \in 1 .. Len(ContentEngines) : ContentEngines[i] \in Engines
  BY LoopAssumption
<1>3. \A i \in late .. Len(ContentEngines) : i \in 1 .. Len(ContentEngines)
  BY <1>1
<1> QED  BY <1>2, <1>3, LoopAssumption DEF Spilled

LEMMA ViewTypes ==
    ASSUME NEW c \in Changes, NEW p \in Policies,
           NEW down \in SUBSET Engines, NEW spilled \in SUBSET Engines
    PROVE  View(c, p, down, spilled) \in Views
<1>1. {m \in Expected(p) : About[m].engine \notin down \union spilled} \subseteq Metrics
  BY DEF Expected
<1> QED  BY <1>1, PolicyTypes DEF View, Views

(* A judgement is a record, and its verdict is the one it justifies. *)
LEMMA JudgedTypes ==
    ASSUME NEW c \in Changes, NEW p \in Policies,
           NEW down \in SUBSET Engines, NEW spilled \in SUBSET Engines,
           NEW count \in 0 .. MaxCount
    PROVE  LET r == Judged(c, p, down, spilled, count)
           IN  /\ r \in Records
               /\ ViewOf(r) = View(c, p, down, spilled)
               /\ r.verdict = Verdict(ViewOf(r), Escalated(r.count, r.policy))
<1>1. Escalated(count, p) \in BOOLEAN  BY DEF Escalated
<1>2. Verdict(View(c, p, down, spilled), Escalated(count, p)) \in Words
  BY <1>1, ViewTypes, BlockingWords
<1> QED  BY <1>2 DEF Judged, Records, ViewOf

LEMMA RecordTypes ==
    ASSUME TypeOK, record # NoRecord
    PROVE  /\ record \in Records
           /\ record.change \in Changes /\ record.policy \in Policies
           /\ record.policy.iteration_cap \in Nat
           /\ record.down \in SUBSET Engines /\ record.spilled \in SUBSET Engines
           /\ record.count \in 0 .. MaxCount
           /\ ViewOf(record) \in Views
<1>1. /\ record \in Records
      /\ record.change \in Changes /\ record.policy \in Policies
      /\ record.down \in SUBSET Engines /\ record.spilled \in SUBSET Engines
      /\ record.count \in 0 .. MaxCount
  BY DEF TypeOK, Records
<1>2. record.policy.iteration_cap \in Nat  BY <1>1 DEF Policies
<1> QED  BY <1>1, <1>2, ViewTypes DEF ViewOf

(* A measurement judges with the counter as it leaves it; the counter ends *)
(* below where it was only where everything was seen and nothing is open.  *)
LEMMA MeasureFacts ==
    ASSUME TypeOK, NEW c \in Changes, NEW p \in InForce(c),
           NEW late \in 1 .. Len(ContentEngines) + 1,
           NEW down \in SUBSET (Flaky \ {Tests}), NEW busy \in BOOLEAN,
           Measure(c, p, late, down, busy)
    PROVE  LET v == View(c, p, down, Spilled(p, late))
           IN  /\ v \in Views
               /\ entry' \in Entries
               /\ record' \in Records
               /\ record'.policy = p
               /\ record'.count = entry'.count
               /\ ViewOf(record') = v
               /\ record'.verdict = Verdict(v, Escalated(entry'.count, p))
               /\ told' = ToldAfter(v, record')
               /\ \/ entry'.count >= entry.count
                  \/ ~ Open(v) /\ EveryQuestionWasAnswered(v)
<1> DEFINE v == View(c, p, down, Spilled(p, late))
           now == IF busy THEN entry ELSE EntryAfter(c, v)
<1>1. /\ p \in Policies
      /\ down \in SUBSET Engines
      /\ Spilled(p, late) \in SUBSET Engines
  BY PolicyTypes, SpilledTypes, LoopAssumption
<1>2. v \in Views  BY <1>1, ViewTypes
<1>3. entry \in Entries  BY DEF TypeOK, Entries
<1>4. /\ now \in Entries
      /\ \/ now.count >= entry.count
         \/ ~ Open(v) /\ EveryQuestionWasAnswered(v)
  <2>1. entry.count \in Int  BY <1>3 DEF Entries
  <2> QED  BY <1>3, <2>1, CounterFacts DEF EntryAfter
<1>5. now.count \in 0 .. MaxCount  BY <1>4 DEF Entries
<1>6. /\ entry' = now
      /\ record' = Judged(c, p, down, Spilled(p, late), now.count)
      /\ told' = ToldAfter(v, record')
  BY DEF Measure
<1>7. /\ record' \in Records
      /\ ViewOf(record') = v
      /\ record'.verdict = Verdict(v, Escalated(record'.count, record'.policy))
  BY <1>1, <1>5, <1>6, JudgedTypes
<1>8. record'.policy = p /\ record'.count = now.count  BY <1>6 DEF Judged
<1> QED  BY <1>2, <1>4, <1>6, <1>7, <1>8

(* Completing keeps change, policy and count. *)
LEMMA WaitFacts ==
    ASSUME TypeOK, NEW down \in SUBSET Flaky, Wait(down)
    PROVE  /\ record # NoRecord /\ record.spilled # {}
           /\ record' \in Records
           /\ record'.count = record.count /\ record'.policy = record.policy
           /\ record'.spilled = {}
           /\ ViewOf(record') =
                View(record.change, record.policy, record.down \union down, {})
           /\ ViewOf(record') \in Views
           /\ record'.verdict =
                Verdict(ViewOf(record'), Escalated(record.count, record.policy))
<1>1. record # NoRecord /\ record.spilled # {}  BY DEF Wait
<1>2. record.down \union down \in SUBSET Engines
  BY <1>1, RecordTypes, LoopAssumption
<1>3. record' = Judged(record.change, record.policy, record.down \union down,
                       {}, record.count)
  BY DEF Wait
<1>4. /\ record'.count = record.count /\ record'.policy = record.policy
      /\ record'.spilled = {}
  BY <1>3 DEF Judged
<1>5. /\ record' \in Records
      /\ ViewOf(record') =
           View(record.change, record.policy, record.down \union down, {})
      /\ record'.verdict =
           Verdict(ViewOf(record'), Escalated(record'.count, record'.policy))
  BY <1>1, <1>2, <1>3, RecordTypes, JudgedTypes
<1>6. ViewOf(record') \in Views  BY <1>1, <1>2, <1>5, RecordTypes, ViewTypes
<1> QED  BY <1>1, <1>4, <1>5, <1>6

(* Where the counter is cleared for a finished loop, an escalation ends.   *)
LEMMA FinishedEndsEscalation ==
    ASSUME NEW v \in Views, NEW r, ~ Open(v), EveryQuestionWasAnswered(v),
           r.verdict # "escalate_to_human"
    PROVE  ToldAfter(v, r) = NobodyTold
<1>1. v.down \union v.spilled = {} /\ v.unread = FALSE
  BY DEF EveryQuestionWasAnswered, Views
<1>2. \A m \in v.shown : v.found[m].completeness \in {"Complete", "Unwitnessed"}
  <2> SUFFICES ASSUME NEW m \in v.shown
               PROVE  v.found[m].completeness \in {"Complete", "Unwitnessed"}
    OBVIOUS
  <2>1. v.found[m] \in Answers  BY AnswerTypes DEF Views
  <2>2. v.found[m].completeness \notin {"Partial", "ParseDegraded"}
    BY DEF EveryQuestionWasAnswered
  <2> QED  BY <2>1, <2>2 DEF Answers, Completenesses
<1> QED  BY <1>1, <1>2 DEF ToldAfter

LEMMA ToldMeasured ==
    ASSUME NEW v \in Views, NEW r, NEW cap \in Nat, NEW before, NEW after \in Nat,
           r.policy.iteration_cap = cap,
           r.verdict = Verdict(v, after > cap),
           told \in Nat \union {NobodyTold},
           told # NobodyTold => before > told,
           before \in Nat,
           after >= before \/ (~ Open(v) /\ EveryQuestionWasAnswered(v))
    PROVE  /\ ToldAfter(v, r) \in Nat \union {NobodyTold}
           /\ ToldAfter(v, r) # NobodyTold => after > ToldAfter(v, r)
<1>1. CASE r.verdict = "escalate_to_human"
  <2>1. after > cap /\ Open(v)  BY <1>1 DEF Verdict
  <2>2. ToldAfter(v, r) = cap  BY <1>1, <2>1 DEF ToldAfter
  <2> QED  BY <2>1, <2>2
<1>2. CASE r.verdict # "escalate_to_human"
  <2>1. ToldAfter(v, r) \in {told, NobodyTold}  BY <1>2 DEF ToldAfter
  <2>2. CASE after >= before  BY <2>1, <2>2 DEF NobodyTold
  <2>3. CASE ~ Open(v) /\ EveryQuestionWasAnswered(v)
    BY <1>2, <2>3, FinishedEndsEscalation
  <2> QED  BY <2>1, <2>2, <2>3
<1> QED  BY <1>1, <1>2

LEMMA LoopInit == Init => LoopInv
<1> SUFFICES ASSUME Init PROVE LoopInv
  OBVIOUS
<1>1. TypeOK
  BY LoopAssumption DEF Init, TypeOK, Counter!Cleared
<1> QED  BY <1>1 DEF Init, LoopInv, JudgedInv, ToldInv

LEMMA LoopStep == LoopInv /\ [Next]_vars => LoopInv'
<1> SUFFICES ASSUME LoopInv, [Next]_vars PROVE LoopInv'
  OBVIOUS
<1> USE DEF LoopInv
<1>0. /\ entry.count \in Nat
      /\ told \in Nat \union {NobodyTold}
  BY LoopAssumption DEF TypeOK
<1>1. ASSUME NEW c \in Changes, NEW p \in InForce(c),
             NEW late \in 1 .. Len(ContentEngines) + 1,
             NEW down \in SUBSET (Flaky \ {Tests}), NEW busy \in BOOLEAN,
             Measure(c, p, late, down, busy)
      PROVE  LoopInv'
  <2> DEFINE v == View(c, p, down, Spilled(p, late))
  <2>1. /\ v \in Views
        /\ entry' \in Entries
        /\ record' \in Records
        /\ record'.policy = p
        /\ record'.count = entry'.count
        /\ ViewOf(record') = v
        /\ record'.verdict = Verdict(v, Escalated(entry'.count, p))
        /\ told' = ToldAfter(v, record')
        /\ \/ entry'.count >= entry.count
           \/ ~ Open(v) /\ EveryQuestionWasAnswered(v)
    BY <1>1, MeasureFacts
  <2> HIDE DEF v
  <2>2. /\ entry'.count \in Nat
        /\ p.iteration_cap \in Nat
    BY <2>1, PolicyTypes, LoopAssumption DEF Entries, Policies
  <2>3. record'.verdict = Verdict(v, entry'.count > p.iteration_cap)
    BY <2>1 DEF Escalated
  <2>4. told # NobodyTold => entry.count > told  BY DEF ToldInv
  <2>5. /\ told' \in Nat \union {NobodyTold}
        /\ told' # NobodyTold => entry'.count > told'
    BY <1>0, <2>1, <2>2, <2>3, <2>4, ToldMeasured
  <2>6. TypeOK'  BY <2>1, <2>5 DEF TypeOK, Entries
  <2>7. JudgedInv'  BY <2>1 DEF JudgedInv
  <2>8. ToldInv'  BY <2>1, <2>5 DEF ToldInv
  <2> QED  BY <2>6, <2>7, <2>8
<1>2. ASSUME NEW down \in SUBSET Flaky, Wait(down) PROVE LoopInv'
  <2>1. UNCHANGED <<entry, told>>  BY <1>2 DEF Wait
  <2>2. /\ record' \in Records
        /\ record'.count = record.count /\ record'.policy = record.policy
        /\ record'.spilled = {}
        /\ record'.verdict =
             Verdict(ViewOf(record'), Escalated(record.count, record.policy))
    BY <1>2, WaitFacts
  <2>3. TypeOK'  BY <2>1, <2>2 DEF TypeOK
  <2>4. JudgedInv'  BY <2>2 DEF JudgedInv
  <2>5. ToldInv'  BY <2>1, <2>2 DEF ToldInv
  <2> QED  BY <2>3, <2>4, <2>5
<1>3. CASE Ack
  BY <1>3, LoopAssumption
  DEF Ack, TypeOK, JudgedInv, ToldInv, ViewOf, Counter!Cleared
<1>4. CASE UNCHANGED vars
  BY <1>4 DEF vars, TypeOK, JudgedInv, ToldInv, ViewOf
<1> QED  BY <1>1, <1>2, <1>3, <1>4 DEF Next

(* Every state's record carries the verdict it justifies, and an           *)
(* escalation stands in the counter.                                       *)
LEMMA LoopInvariant == Spec => []LoopInv
BY LoopInit, LoopStep, PTL DEF Spec

(* The state keeps its types: the count saturates, and every verdict is    *)
(* one of the four words.                                                  *)
THEOREM VerdictTypes == Spec => []TypeOK
<1>1. LoopInv => TypeOK  BY DEF LoopInv
<1> QED  BY <1>1, LoopInvariant, PTL

------------------------------------------------------------------------------
(* What the verdicts promise. *)

LEMMA RecordWords ==
    ASSUME LoopInv, record # NoRecord
    PROVE  LET v == ViewOf(record)
               escalated == Escalated(record.count, record.policy)
           IN  /\ v \in Views
               /\ escalated \in BOOLEAN
               /\ record.verdict = Verdict(v, escalated)
               /\ record.verdict \in Stopping <=>
                    Stopped(v) \/ (escalated /\ Open(v))
<1>1. ViewOf(record) \in Views  BY RecordTypes DEF LoopInv
<1>2. Escalated(record.count, record.policy) \in BOOLEAN  BY DEF Escalated
<1>3. record.verdict = Verdict(ViewOf(record), Escalated(record.count, record.policy))
  BY DEF LoopInv, JudgedInv
<1> QED  BY <1>1, <1>2, <1>3, BlockingWords

(* A fired flag policy stops on stops the line, whatever else the record   *)
(* could not see.                                                          *)
THEOREM FlagsStop == Spec => []FiredFlagStops
<1>1. LoopInv => FiredFlagStops
  <2> SUFFICES ASSUME LoopInv, record # NoRecord,
                      NEW m \in ViewOf(record).shown,
                      Fired(m, ViewOf(record).found[m]),
                      IF m \in Suites THEN ViewOf(record).policy.block_on_test_failure
                                      ELSE ViewOf(record).policy.block_on_tamper
               PROVE  record.verdict \in Stopping
    BY DEF FiredFlagStops
  <2>1. ViewOf(record) \in Views  BY RecordWords
  <2>2. m \in Metrics  BY <2>1 DEF Views
  <2>3. StopsTheLine(ViewOf(record).policy, m, ViewOf(record).found[m])
    BY <2>2 DEF StopsTheLine, Fired, Suites
  <2>4. Stopped(ViewOf(record))  BY <2>3 DEF Stopped
  <2> QED  BY <2>4, RecordWords
<1> QED  BY <1>1, LoopInvariant, PTL

(* Worse findings never get a milder word. *)
THEOREM WorseNeverSofter == Spec => []WorseIsNeverSofter
<1>1. LoopInv => WorseIsNeverSofter
  <2> SUFFICES ASSUME LoopInv, record # NoRecord, NEW c \in Changes,
                      AtLeastAsBad(Of[c].found, Of[record.change].found)
               PROVE  Strictness[Verdict([ViewOf(record) EXCEPT !.found = Of[c].found],
                                         Escalated(record.count, record.policy))]
                        >= Strictness[record.verdict]
    BY DEF WorseIsNeverSofter
  <2>1. /\ ViewOf(record) \in Views
        /\ Escalated(record.count, record.policy) \in BOOLEAN
        /\ record.verdict =
             Verdict(ViewOf(record), Escalated(record.count, record.policy))
    BY RecordWords
  <2>2. ViewOf(record).found = Of[record.change].found  BY DEF ViewOf, View
  <2>3. Of[c].found \in Findings  BY PolicyTypes
  <2> QED  BY <2>1, <2>2, <2>3, VerdictWorsens
<1> QED  BY <1>1, LoopInvariant, PTL

(* An edit of the policy does not buy a way out of a stop, unless it is of *)
(* a kind the program does not rank.                                       *)
THEOREM EditsNeverSoften == Spec => []EditsCannotSoften
<1>1. LoopInv => EditsCannotSoften
  <2> DEFINE of == Of[record.change]
             v == ViewOf(record)
             unedited == [v EXCEPT
                 !.policy = of.before, !.after = of.before,
                 !.shown = {m \in Expected(of.before) : About[m].engine \notin record.down}]
  <2> SUFFICES ASSUME LoopInv, record # NoRecord, record.spilled = {},
                      record.policy = of.after,
                      Verdict(unedited, Escalated(record.count, of.before)) \in Stopping,
                      "Unclassified" \notin Moves(of.before, of.after)
               PROVE  record.verdict \in Stopping
    BY DEF EditsCannotSoften
  <2>1. /\ v \in Views
        /\ record.verdict \in Stopping <=>
             Stopped(v) \/ (Escalated(record.count, record.policy) /\ Open(v))
    BY RecordWords
  <2>2. /\ record.change \in Changes
        /\ record.count \in 0 .. MaxCount
    BY RecordTypes DEF LoopInv
  <2>3. /\ of.before \in Policies /\ of.after \in Policies
        /\ of.found \in Findings
    BY <2>2, PolicyTypes
  <2>4. /\ v.policy = of.after /\ v.before = of.before /\ v.after = of.after
        /\ v.found = of.found
        /\ v.shown = {m \in Expected(of.after) : About[m].engine \notin record.down}
    BY DEF ViewOf, View
  <2>5. CASE "Loosening" \in Moves(of.before, of.after)
    BY <2>1, <2>4, <2>5 DEF Stopped, Loosened
  <2>6. CASE "Loosening" \notin Moves(of.before, of.after)
    <3>1. Tightened(of.before, of.after)  BY <2>6 DEF Tightened
    <3>2. /\ unedited \in Views
          /\ unedited.policy = of.before /\ unedited.found = of.found
          /\ unedited.before = of.before /\ unedited.after = of.before
          /\ unedited.shown =
               {m \in Expected(of.before) : About[m].engine \notin record.down}
      BY <2>1, <2>3, <2>4 DEF Views, Expected
    <3> HIDE DEF unedited
    <3>3. unedited.shown \subseteq v.shown /\ v.shown \subseteq Metrics
      BY <2>3, <2>4, <3>1, <3>2, MetricsAssumption, TightenedFields
      DEF Expected, Suites
    <3>4. ~ Loosened(unedited)  BY <3>2 DEF Loosened, Moves
    <3>5. Stopped(unedited) => Stopped(v)
      BY <2>3, <2>4, <3>1, <3>2, <3>3, <3>4, TighterStops DEF Stopped
    <3>6. Open(unedited) => Open(v)
      BY <2>3, <2>4, <3>1, <3>2, <3>3, <3>4, TighterStops DEF Open
    <3>7. Escalated(record.count, of.before) => Escalated(record.count, of.after)
      <4>1. of.after.iteration_cap <= of.before.iteration_cap
        BY <2>3, <3>1, TightenedFields
      <4>2. of.after.iteration_cap \in Nat /\ of.before.iteration_cap \in Nat
        BY <2>3 DEF Policies
      <4>3. record.count \in Int  BY <2>2
      <4> QED  BY <4>1, <4>2, <4>3 DEF Escalated
    <3>8. Stopped(unedited) \/ (Escalated(record.count, of.before) /\ Open(unedited))
      <4>1. Escalated(record.count, of.before) \in BOOLEAN  BY DEF Escalated
      <4> QED  BY <3>2, <4>1, BlockingWords
    <3> QED  BY <2>1, <3>5, <3>6, <3>7, <3>8
  <2> QED  BY <2>5, <2>6
<1> QED  BY <1>1, LoopInvariant, PTL

(* Completing a measurement takes no stop back. *)
THEOREM WaitingNeverUnblocks == Spec => WaitNeverUnblocks
<1>1. ASSUME LoopInv, NEW down \in SUBSET Flaky, Wait(down),
             record.verdict \in Stopping
      PROVE  Strictness[record'.verdict] >= Strictness[record.verdict]
  <2> DEFINE v == ViewOf(record)
             w == ViewOf(record')
             escalated == Escalated(record.count, record.policy)
  <2>1. /\ record # NoRecord
        /\ w \in Views
        /\ w = View(record.change, record.policy, record.down \union down, {})
        /\ record'.verdict = Verdict(w, escalated)
    BY <1>1, WaitFacts DEF LoopInv
  <2>2. /\ v \in Views /\ escalated \in BOOLEAN
        /\ record.verdict = Verdict(v, escalated)
    BY <1>1, <2>1, RecordWords
  <2>3. down \subseteq record.spilled  BY <1>1 DEF Wait
  <2>4. /\ v.policy = w.policy /\ v.found = w.found
        /\ v.before = w.before /\ v.after = w.after
        /\ v.shown \subseteq w.shown
    BY <2>1, <2>3 DEF ViewOf, View
  <2> HIDE DEF v, w, escalated
  <2>5. Stopped(v) => Stopped(w)  BY <2>4 DEF Stopped, Loosened
  <2>6. Open(v) => Open(w)  BY <2>4 DEF Open, Loosened
  <2>7. /\ record.verdict \in Stopping
        /\ record.verdict = "escalate_to_human" <=> escalated /\ Open(v)
        /\ record.verdict \in Stopping <=> Stopped(v) \/ (escalated /\ Open(v))
    BY <1>1, <2>2, BlockingWords
  <2>8. /\ record'.verdict = "escalate_to_human" <=> escalated /\ Open(w)
        /\ record'.verdict \in Stopping <=> Stopped(w) \/ (escalated /\ Open(w))
    BY <2>1, <2>2, BlockingWords
  <2>9. CASE record.verdict = "escalate_to_human"
    BY <2>6, <2>7, <2>8, <2>9 DEF Strictness
  <2>10. CASE record.verdict # "escalate_to_human"
    BY <2>5, <2>7, <2>8, <2>10 DEF Strictness, Stopping
  <2> QED  BY <2>9, <2>10
<1>2. LoopInv /\ [Next]_vars =>
        [\A down \in SUBSET Flaky :
           Wait(down) /\ record.verdict \in Stopping
             => Strictness[record'.verdict] >= Strictness[record.verdict]]_vars
  BY <1>1
<1> QED  BY <1>2, LoopInvariant, PTL DEF Spec, WaitNeverUnblocks

(* A standing escalation is repeated for whatever is found open. *)
THEOREM EscalationsStand == Spec => EscalationStands
<1> DEFINE A == told # NobodyTold
                  /\ record'.policy.iteration_cap <= told
                  /\ Open(ViewOf(record'))
                => record'.verdict = "escalate_to_human"
<1>1. ASSUME LoopInv, [Next]_vars, record' # record,
             told # NobodyTold, record'.policy.iteration_cap <= told,
             Open(ViewOf(record'))
      PROVE  record'.verdict = "escalate_to_human"
  <2>0. /\ told \in Nat /\ entry.count \in Nat /\ entry.count > told
    BY <1>1, LoopAssumption DEF LoopInv, TypeOK, ToldInv
  <2>1. ASSUME NEW c \in Changes, NEW p \in InForce(c),
               NEW late \in 1 .. Len(ContentEngines) + 1,
               NEW down \in SUBSET (Flaky \ {Tests}), NEW busy \in BOOLEAN,
               Measure(c, p, late, down, busy)
        PROVE  record'.verdict = "escalate_to_human"
    <3> DEFINE v == View(c, p, down, Spilled(p, late))
    <3>1. /\ v \in Views
          /\ entry' \in Entries
          /\ record'.policy = p
          /\ ViewOf(record') = v
          /\ record'.verdict = Verdict(v, Escalated(entry'.count, p))
          /\ \/ entry'.count >= entry.count
             \/ ~ Open(v) /\ EveryQuestionWasAnswered(v)
      BY <1>1, <2>1, MeasureFacts DEF LoopInv
    <3> HIDE DEF v
    <3>2. entry'.count >= entry.count  BY <1>1, <3>1
    <3>3. entry'.count \in Nat /\ p.iteration_cap \in Nat
      BY <3>1, PolicyTypes, LoopAssumption DEF Entries, Policies
    <3>4. Escalated(entry'.count, p)
      BY <1>1, <2>0, <3>1, <3>2, <3>3 DEF Escalated
    <3> QED  BY <1>1, <3>1, <3>4 DEF Verdict
  <2>2. ASSUME NEW down \in SUBSET Flaky, Wait(down)
        PROVE  record'.verdict = "escalate_to_human"
    <3>1. /\ record # NoRecord /\ record.spilled # {}
          /\ record'.policy = record.policy
          /\ record'.verdict =
               Verdict(ViewOf(record'), Escalated(record.count, record.policy))
      BY <1>1, <2>2, WaitFacts DEF LoopInv
    <3>2. record.count > told  BY <1>1, <3>1 DEF LoopInv, ToldInv
    <3>3. record.count \in Nat /\ record.policy.iteration_cap \in Nat
      BY <1>1, <3>1, RecordTypes, LoopAssumption DEF LoopInv
    <3>4. Escalated(record.count, record.policy)
      BY <1>1, <2>0, <3>1, <3>2, <3>3 DEF Escalated
    <3> QED  BY <1>1, <3>1, <3>4 DEF Verdict
  <2> QED  BY <1>1, <2>1, <2>2 DEF Next, Ack, vars
<1>2. LoopInv /\ [Next]_vars => [A]_record  BY <1>1
<1> QED  BY <1>2, LoopInvariant, PTL DEF Spec, EscalationStands

(* No command takes a stop back (wait, measure, ack), and no verdict is    *)
(* anything but one of the four words.                                     *)
THEOREM StopsAlwaysStand == Spec => StopsStand
<1> QED  BY VerdictTypes, WaitingNeverUnblocks, EscalationsStand DEF StopsStand
===============================================================================
