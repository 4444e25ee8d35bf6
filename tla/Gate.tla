--------------------------------- MODULE Gate ---------------------------------
(***************************************************************************)
(* The verdict on one measured change: pass, advise, block or              *)
(* escalate_to_human (andon-core: verdict/mod.rs, severity.rs, ladder.rs,  *)
(* policy_change.rs, parse_health.rs, engine.rs, policy.rs).               *)
(*                                                                         *)
(* A policy holds the fields of .andon.toml the verdict depends on.  A     *)
(* change is measured on Metrics; the test suite under each command that   *)
(* could be configured is a metric of its own.  Left out: justifications   *)
(* (no caller passes one, and a self-report may not carry a verified one), *)
(* and the notices, whose severity is Info.                                *)
(***************************************************************************)
EXTENDS Integers, FiniteSets

CONSTANTS
    Engines,    \* the engines of the registry
    Metrics,    \* what they report on
    About,      \* About[m]: the engine, kind, tier, class and rungs of a metric
    MaxValue,   \* bound: the largest number an engine reports
    NoCommand   \* no test_command

Info == 0
Low == 1
Medium == 2     \* MED+ starts here
High == 3
Critical == 4
Severities == Info .. Critical

Tiers == {"A", "B", "C", "N"}
Completenesses == {"Complete", "ParseDegraded", "Partial", "Unwitnessed"}

(* A signal is a tamper detector, a suite the failure flag of a test       *)
(* command; their value is 1 when they fired.                              *)
Kinds == {"metric", "signal", "suite"}
Suites == {m \in Metrics : About[m].kind = "suite"}

(* ladder.rs: ascending. *)
Ascending(rungs) ==
    \A r, q \in rungs : r.at < q.at <=> r.severity < q.severity

ASSUME MetricsAssumption ==
    /\ MaxValue \in Nat
    /\ NoCommand \notin Metrics
    /\ \A m \in Metrics :
         /\ About[m].engine \in Engines
         /\ About[m].kind \in Kinds
         /\ About[m].tier \in Tiers
         /\ About[m].class \in {"actionable", "context"}
         /\ About[m].rungs \subseteq [at : 0 .. MaxValue, severity : Severities]
         /\ Ascending(About[m].rungs)
         /\ About[m].kind # "metric" => \A r \in About[m].rungs : r.at = 1

(* An engine that has no number for a metric says so in words. *)
Absent == -1
Answers == [value : {Absent} \union (0 .. MaxValue), completeness : Completenesses]
Findings ==
    {f \in [Metrics -> Answers] :
       \A m \in Metrics : About[m].kind # "metric" => f[m].value \in {Absent, 0, 1}}

Policies ==
    [block_on_tamper : BOOLEAN,
     block_on_test_failure : BOOLEAN,
     max_severity_for_c_tier : Severities,
     med_plus_requires_diff_actionable : BOOLEAN,
     med_plus_tiers : SUBSET Tiers,
     iteration_cap : Nat,
     count_context_informational : BOOLEAN,
     enabled : BOOLEAN,
     test_command : Suites \union {NoCommand}]

(* expected_engines: without the lane, or without a command, nobody        *)
(* expects the tests engine.                                               *)
Expected(p) ==
    {m \in Metrics : m \in Suites => p.enabled /\ p.test_command = m}

------------------------------------------------------------------------------
(* Severity. *)

Highest(S) == CHOOSE s \in S : \A t \in S : t <= s

(* Mutant: the comparison is the wrong way round. *)
SeverityForBelow(m, value) ==
    Highest({Info} \union {r.severity : r \in {q \in About[m].rungs : value <= q.at}})

(* SeverityLadder::severity_for: the highest rung the value reaches. *)
SeverityFor(m, value) ==
    Highest({Info} \union {r.severity : r \in {q \in About[m].rungs : value >= q.at}})

(* severity_ceiling and ceiling: what may not reach MED+. *)
AdvisoryOnly(p, m, a) ==
    \/ a.completeness # "Complete"
    \/ About[m].tier \notin p.med_plus_tiers
    \/ p.med_plus_requires_diff_actionable /\ About[m].class = "context"

Capped(severity, ceiling) == IF severity <= ceiling THEN severity ELSE ceiling

(* run_engine assigns the ladder's severity, apply caps it by every rule. *)
Severity(p, m, a) ==
    LET ranked == SeverityFor(m, a.value)
        capped == IF AdvisoryOnly(p, m, a) THEN Capped(ranked, Low) ELSE ranked
    IN  IF About[m].tier = "C" THEN Capped(capped, p.max_severity_for_c_tier)
                               ELSE capped

Fired(m, a) == About[m].kind \in {"signal", "suite"} /\ a.value = 1

(* Mutant: the capped severity decides. *)
StopsBySeverity(p, m, a) == Severity(p, m, a) >= Medium

(* severity::stops_the_line: a fired flag stops on the flag. *)
StopsTheLine(p, m, a) ==
    IF Fired(m, a)
    THEN IF About[m].kind = "signal" THEN p.block_on_tamper
                                     ELSE p.block_on_test_failure
    ELSE Severity(p, m, a) >= Medium

(* severity::counts_toward_iteration. *)
Counts(p, m, a) ==
    /\ IF Fired(m, a) /\ About[m].kind = "signal"
       THEN StopsTheLine(p, m, a)
       ELSE Severity(p, m, a) # Info
    /\ About[m].class = "actionable" \/ p.count_context_informational

------------------------------------------------------------------------------
(* An edit of .andon.toml inside the change. *)

Switches == {"block_on_tamper", "block_on_test_failure",
             "count_context_informational", "enabled"}
Fields == Switches \union
    {"med_plus_requires_diff_actionable", "max_severity_for_c_tier",
     "med_plus_tiers", "iteration_cap", "test_command"}

(* Mutant: a tidy-up in the same edit hides a tier that was dropped. *)
TiersDirectionNetted(before, after) ==
    IF Cardinality(after) < Cardinality(before) THEN "Loosening" ELSE "Tightening"

(* set_direction, ShrinkRelaxes. *)
TiersDirection(before, after) ==
    IF before \subseteq after THEN "Tightening" ELSE "Loosening"

(* direction_of a field that moved. *)
Direction(field, before, after) ==
    CASE field \in Switches -> IF before THEN "Loosening" ELSE "Tightening"
      [] field = "med_plus_requires_diff_actionable" ->
             IF before THEN "Tightening" ELSE "Loosening"
      [] field = "max_severity_for_c_tier" ->
             IF after < before THEN "Loosening" ELSE "Tightening"
      [] field = "iteration_cap" ->
             IF after > before THEN "Loosening" ELSE "Tightening"
      [] field = "med_plus_tiers" -> TiersDirection(before, after)
      [] field = "test_command" ->
             CASE before = NoCommand -> "Tightening"
               [] after = NoCommand -> "Loosening"
               [] OTHER -> "Unclassified"

(* policy_change::evaluate: which ways the policy moved. *)
Moves(before, after) ==
    {Direction(f, before[f], after[f]) : f \in {g \in Fields : before[g] # after[g]}}

------------------------------------------------------------------------------
(* The verdict.  A view is what a measurement has to judge by: the policy  *)
(* in force and the two of the change, what was found, the metrics that    *)
(* are there, engines that are not, and whether a path could not be read.  *)

Views == [policy : Policies, before : Policies, after : Policies,
          found : Findings, shown : SUBSET Metrics,
          down : SUBSET Engines, spilled : SUBSET Engines, unread : BOOLEAN]

(* PolicyChange::stops_the_line. *)
Loosened(v) == "Loosening" \in Moves(v.before, v.after)

(* has_countable_finding. *)
Open(v) ==
    \/ \E m \in v.shown : Counts(v.policy, m, v.found[m])
    \/ Loosened(v)

Reason(code, severity) == [code |-> code, severity |-> severity]

ReasonsAboutTheView(v) ==
    {Reason("engine-unavailable", Medium) : e \in v.down}
      \union {Reason("engine-spilled-async", Medium) : e \in v.spilled}
      \union (IF v.unread THEN {Reason("change-not-read", Medium)} ELSE {})

ReasonsAboutThePolicy(v) ==
    {Reason("policy-change", Low) : d \in Moves(v.before, v.after)}
      \union (IF Loosened(v) THEN {Reason("policy-change-loosening", High)} ELSE {})

ReasonAbout(p, m, a) ==
    LET stops == StopsTheLine(p, m, a)
        severity == Severity(p, m, a)
    IN  CASE Fired(m, a) /\ About[m].kind = "signal" ->
                 IF stops THEN Reason("tamper-signal", Critical)
                          ELSE Reason("tamper-signal-advisory", severity)
          [] Fired(m, a) /\ About[m].kind = "suite" ->
                 IF stops THEN Reason("test-failure", Critical)
                          ELSE Reason("test-failure-advisory", severity)
          [] OTHER ->
                 IF stops THEN Reason("severity-med-plus", severity)
                          ELSE Reason("finding-advisory", severity)

Reasons(v) ==
    {ReasonAbout(v.policy, m, v.found[m]) : m \in v.shown}
      \union ReasonsAboutThePolicy(v)
      \union ReasonsAboutTheView(v)

Blocking == {"tamper-signal", "test-failure", "severity-med-plus",
             "policy-change-loosening"}

(* evaluate: the four words. *)
Verdict(v, escalated) ==
    LET reasons == Reasons(v)
    IN  IF escalated /\ Open(v) THEN "escalate_to_human"
        ELSE IF \E r \in reasons : r.code \in Blocking THEN "block"
        ELSE IF \E r \in reasons : r.severity > Info THEN "advise"
        ELSE "pass"

Strictness == [pass |-> 0, advise |-> 1, block |-> 2, escalate_to_human |-> 3]
Words == DOMAIN Strictness
Stopping == {"block", "escalate_to_human"}
==============================================================================
