------------------------------- MODULE Verifier -------------------------------
(***************************************************************************)
(* The verifier of one head commit: what it concludes from the self-       *)
(* reports that refs/notes/andon-measure attaches to the head, and how its *)
(* conclusions add up in refs/notes/andon-attest.                          *)
(*                                                                         *)
(* compare.rs classifies one self-report against the verifier's recompute, *)
(* verify.rs takes the worst over all of them, and worst.rs the worst over *)
(* all attestations.  Meanwhile reports are appended and merged, and the   *)
(* head may land on the trusted branch, which moves the trusted base.      *)
(***************************************************************************)
EXTENDS Integers, Sequences, FiniteSets

CONSTANTS
    Keys,        \* (metric_id, scope)
    Regimes,     \* measurement regimes: engine, grammar and git versions
    Digests,     \* what a result's digest can be
    Reports,     \* the self-reports that are written in an instance
    Recomputes,  \* what the verifier may measure: sets of results
    Threshold,   \* REPEAT_ESCALATION_THRESHOLD, three in the code
    ForkTier,    \* an unprivileged fork job?
    MaxReports,  \* bound: lines in the note
    MaxAttests   \* bound: attestations written

(* Where a claimed base may be: at the fork point of the head, below or    *)
(* above it on the trusted branch, on the way to the head, on some other   *)
(* branch, or in no commit of this repository.  The head itself is none of *)
(* them: until the head lands it is judged as `inner' is.                  *)
Bases == {"fork", "older", "newer", "inner", "stray", "unknown"}
Results == [key : Keys, regime : Regimes, digest : Digests, deterministic : BOOLEAN]
ReportType == [base : Bases, atHead : BOOLEAN, committed : BOOLEAN,
               readable : BOOLEAN, results : SUBSET Results]

ASSUME ReportsAssumption == Reports \subseteq ReportType
ASSUME RecomputesAssumption ==
    /\ Recomputes \subseteq SUBSET Results
    /\ \A rec \in Recomputes : \A a, b \in rec : a.key = b.key => a = b
ASSUME NumbersAssumption ==
    /\ Threshold \in Nat \ {0}
    /\ MaxReports \in Nat
    /\ MaxAttests \in Nat
    /\ ForkTier \in BOOLEAN

VARIABLES
    note,      \* the self-reports attached to the head, in note-body order
    recompute, \* what the verifier measures on the head
    landed,    \* has the trusted branch taken in the head?
    run,       \* the verifier run between its reading and its writing, with
               \* what it read and whether the head had landed by then
    attests    \* the attestations attached to the head

verifierVars == <<note, recompute, landed, run, attests>>

Attestations == {"confirmed", "confirmed-static", "unwitnessed",
                 "unwitnessed-version-skew", "unwitnessed-base-mismatch",
                 "unwitnessed-uncommitted", "divergent"}
Verdicts == {"pass", "advise", "escalate_to_human", "block"}
NoRun == [busy |-> FALSE, value |-> "unwitnessed", verdict |-> "advise",
          read |-> <<>>, after |-> FALSE]

------------------------------------------------------------------------------
(* compare.rs: one report.                                                 *)

(* base_relation_of.  Once the head has landed it is its own trusted base. *)
TrustedBranch == {"fork", "older", "newer"} \union (IF landed THEN {"inner"} ELSE {})
BaseRelation(base) ==
    IF base = "fork" /\ ~ landed THEN "equal"
    ELSE IF base = "unknown" THEN "unknown"
    ELSE IF base \in TrustedBranch THEN "ancestor"
    ELSE "not-ancestor"

(* `relate` of andon-cli's attest-stub tests ancestry against the trusted  *)
(* base instead of the trusted branch.                                     *)
StubBaseRelation(base) ==
    IF base = "newer" THEN "not-ancestor" ELSE BaseRelation(base)

(* A pair is a reported and a recomputed result with one key. *)
RegimeDisagrees(r) ==
    \E a \in r.results, b \in recompute : a.key = b.key /\ a.regime # b.regime

(* Which results are compared is the verifier's call, not the report's. *)
Mismatched(r) ==
    \E a \in r.results, b \in recompute :
        a.key = b.key /\ b.deterministic /\ a.digest # b.digest

Covered(r, b) == \E a \in r.results : a.key = b.key

(* No comparison took place, or the report left something out of it. *)
Unearned(r) ==
    \/ ~ \E b \in recompute : Covered(r, b)
    \/ \E b \in recompute : b.deterministic /\ ~ Covered(r, b)

(* Mutant: the tuple is compared before the worktree is looked at. *)
ClassifyTupleFirst(r, relation) ==
    IF relation \in {"not-ancestor", "unknown"} THEN "divergent"
    ELSE IF relation = "ancestor" \/ ~ r.atHead THEN "unwitnessed-base-mismatch"
    ELSE IF ~ r.committed THEN "unwitnessed-uncommitted"
    ELSE IF RegimeDisagrees(r) THEN "unwitnessed-version-skew"
    ELSE IF Mismatched(r) THEN "divergent"
    ELSE IF Unearned(r) THEN "unwitnessed"
    ELSE "confirmed"

(* classify, with a self-report.  The order of the checks is the contract. *)
Classify(r, relation) ==
    IF ~ r.committed THEN "unwitnessed-uncommitted"
    ELSE IF relation \in {"not-ancestor", "unknown"} THEN "divergent"
    ELSE IF relation = "ancestor" \/ ~ r.atHead THEN "unwitnessed-base-mismatch"
    ELSE IF RegimeDisagrees(r) THEN "unwitnessed-version-skew"
    ELSE IF Mismatched(r) THEN "divergent"
    ELSE IF Unearned(r) THEN "unwitnessed"
    ELSE "confirmed"

(* classify, without one. *)
Unreported == IF ForkTier THEN "confirmed-static" ELSE "unwitnessed"

------------------------------------------------------------------------------
(* verify.rs: all reports on the head.                                     *)

(* attestation_rank *)
Rank == [a \in Attestations |->
           CASE a = "confirmed" -> 0
             [] a = "confirmed-static" -> 1
             [] a = "unwitnessed" -> 2
             [] a = "unwitnessed-version-skew" -> 3
             [] a = "unwitnessed-base-mismatch" -> 4
             [] a = "unwitnessed-uncommitted" -> 5
             [] a = "divergent" -> 6]

Worst(values) ==
    CHOOSE v \in values : \A w \in values : Rank[w] <= Rank[v]

Outcome(r) == Classify(r, BaseRelation(r.base))
Lines(body) == {body[i] : i \in DOMAIN body}

(* Mutant: the last report decides. *)
AttestationOfLast(body) ==
    IF body = <<>> THEN Unreported ELSE Outcome(body[Len(body)])

(* The attestation decide settles on: the worst of any report. *)
AttestationOf(body) ==
    IF body = <<>> THEN Unreported ELSE Worst({Outcome(r) : r \in Lines(body)})

(* Both counts go over all lines, whatever the line was classified as. *)
Skewed(body) == Cardinality({i \in DOMAIN body : RegimeDisagrees(body[i])})
BaseMismatched(body) ==
    Cardinality({i \in DOMAIN body : BaseRelation(body[i].base) = "ancestor"})

Escalates(body) == Skewed(body) >= Threshold \/ BaseMismatched(body) >= Threshold

(* verdict_for *)
VerdictFor(value, escalated) ==
    IF escalated /\ value # "divergent" THEN "escalate_to_human"
    ELSE IF value = "divergent" THEN "block"
    ELSE IF value \in {"confirmed", "confirmed-static"} THEN "pass"
    ELSE "advise"

VerdictOf(body) == VerdictFor(AttestationOf(body), Escalates(body))

------------------------------------------------------------------------------
(* The ledger the verifier reads, and the one it writes.                   *)

(* Notes::append *)
Report(r) ==
    /\ Len(note) < MaxReports
    /\ note' = Append(note, r)
    /\ UNCHANGED <<recompute, landed, run, attests>>

(* The notes, within the bound, that have every line of a set once. *)
Arrangements(S) ==
    {s \in UNION {[1 .. n -> S] : n \in 1 .. MaxReports} :
        /\ Lines(s) = S
        /\ \A i, j \in DOMAIN s : s[i] = s[j] => i = j}

(* A sync whose merge finds the note changed on both sides: sorted, and    *)
(* every line once.  Sorting is by text, in no order of the model's.       *)
MergeReports(r) ==
    /\ note # <<>>
    /\ note' \in Arrangements(Lines(note) \union {r})
    /\ UNCHANGED <<recompute, landed, run, attests>>

(* The trusted branch takes the head in by a merge. *)
Land ==
    /\ ~ landed
    /\ landed' = TRUE
    /\ UNCHANGED <<note, recompute, run, attests>>

(* verify: a line that does not parse, or whose seal is broken, is an      *)
(* error, and nothing is concluded.                                        *)
Verify ==
    /\ ~ run.busy
    /\ \A r \in Lines(note) : r.readable
    /\ run' = [busy |-> TRUE, value |-> AttestationOf(note),
               verdict |-> VerdictOf(note), read |-> note, after |-> landed]
    /\ UNCHANGED <<note, recompute, landed, attests>>

(* Mutant: `git notes add -f`. *)
AttestReplaces ==
    /\ run.busy
    /\ attests' = {[value |-> run.value, verdict |-> run.verdict]}
    /\ run' = NoRun
    /\ UNCHANGED <<note, recompute, landed>>

(* attest: the conclusion joins the earlier ones. *)
Attest ==
    /\ run.busy
    /\ Cardinality(attests) < MaxAttests
    /\ attests' = attests \union {[value |-> run.value, verdict |-> run.verdict]}
    /\ run' = NoRun
    /\ UNCHANGED <<note, recompute, landed>>

VerifierInit ==
    /\ note = <<>>
    /\ recompute \in Recomputes
    /\ landed = FALSE
    /\ run = NoRun
    /\ attests = {}

VerifierNext ==
    \/ \E r \in Reports : Report(r) \/ MergeReports(r)
    \/ Land
    \/ Verify
    \/ Attest

VerifierSpec == VerifierInit /\ [][VerifierNext]_verifierVars

------------------------------------------------------------------------------
(* Types. *)
VerifierTypeOK ==
    /\ note \in Seq(Reports) /\ Len(note) <= MaxReports
    /\ recompute \in Recomputes
    /\ landed \in BOOLEAN
    /\ run \in [busy : BOOLEAN, value : Attestations, verdict : Verdicts,
                read : Seq(Reports), after : BOOLEAN]
    /\ attests \subseteq [value : Attestations, verdict : Verdicts]

(* What a report would have to say for a confirmation to be true: it is    *)
(* about this very change, and it gives every deterministic result the     *)
(* verifier measured, with the value and by the regime the verifier has.   *)
Witnesses(r) ==
    /\ r.committed /\ r.atHead /\ r.base = "fork"
    /\ r.results # {}
    /\ \A b \in recompute : b.deterministic =>
         \E a \in r.results : a.key = b.key /\ a.digest = b.digest
                              /\ a.regime = b.regime
    /\ \A a \in r.results : \A b \in recompute :
         a.key = b.key /\ b.deterministic => a.digest = b.digest

(* `confirmed` is earned by every report on the head: no report outside    *)
(* the compared lanes, beside an honest one or with nothing in common with *)
(* the recompute gets one.                                                 *)
ConfirmedIsEarned ==
    run.busy /\ run.value = "confirmed" =>
        ~ run.after /\ run.read # <<>> /\ \A r \in Lines(run.read) : Witnesses(r)

(* What may be held against a report: a base that is nowhere on the        *)
(* trusted branch, or a value recomputed under the same regime on the same *)
(* change that came out different.                                         *)
Evidence(r, after) ==
    /\ r.committed
    /\ \/ r.base \in {"stray", "unknown"}
       \/ r.base = "inner" /\ ~ after
       \/ /\ r.atHead /\ r.base = "fork" /\ ~ after
          /\ \E a \in r.results, b \in recompute :
               /\ a.key = b.key /\ b.deterministic
               /\ a.regime = b.regime /\ a.digest # b.digest

(* A block is never a false accusation: uncommitted work, a stale base, an *)
(* old binary or an unfinished report never end in `divergent`.            *)
AccusationHasEvidence ==
    run.busy /\ run.verdict = "block" => \E r \in Lines(run.read) : Evidence(r, run.after)

(* Neither word is given away, whatever was appended or merged into the    *)
(* note, in whatever order, and wherever the head has landed.              *)
DecisionsAreEarned == VerifierTypeOK /\ ConfirmedIsEarned /\ AccusationHasEvidence

Strength == [v \in Verdicts |->
               CASE v = "pass" -> 0
                 [] v = "advise" -> 1
                 [] v = "escalate_to_human" -> 2
                 [] v = "block" -> 3]

(* Measuring again buys nothing.  Once there is a report on the head,      *)
(* neither a further one nor a merge of notes gives a better attestation,  *)
(* and a further one never makes the verdict milder; a fork job's pass for *)
(* want of any report is no worse than one with reports.  (A merge may end *)
(* an escalation: it drops repeated lines, and lines are what is counted.) *)
MeasuringAgainBuysNothing ==
    [][/\ note # <<>> /\ landed' = landed =>
            Rank[AttestationOf(note)] <= Rank[AttestationOf(note')]
       /\ (note # <<>> \/ ForkTier) /\ (\E r \in Reports : Report(r)) =>
            Strength[VerdictOf(note)] <= Strength[VerdictOf(note')]]_verifierVars

(* The decisive attestation of the head (worst.rs). *)
Decisive == Worst({a.value : a \in attests})

(* Verifying again buys nothing either, also not after the head has landed *)
(* and every report's base has become a mere ancestor: the worst           *)
(* attestation ever written stays the decisive one.                        *)
DecisiveNeverSoftens ==
    [][attests # {} => attests' # {} /\ Rank[Decisive] <= Rank[Decisive']]_verifierVars

(* attest-stub classifies the last line of the note. *)
StubValue ==
    IF note = <<>> THEN Unreported
    ELSE LET r == note[Len(note)] IN Classify(r, StubBaseRelation(r.base))

(* "The claimed base exists but is not an ancestor of the trusted branch"  *)
(* (compare.rs) is the base relation the stub, too, may accuse for.        *)
StubAccusationHasEvidence ==
    StubValue = "divergent" => Evidence(note[Len(note)], landed)
==============================================================================
