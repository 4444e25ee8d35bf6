----------------------------- MODULE VerdictLoop -----------------------------
(***************************************************************************)
(* One branch of a checkout through passes of the loop: `andon measure`    *)
(* judges a change and takes a turn at the iteration counter, `andon wait` *)
(* finishes what the measurement deferred and judges again, and `andon     *)
(* ledger ack` resets the counter (andon-core: payload/mod.rs,             *)
(* verdict/iteration.rs; andon-cli: measure.rs, jobs.rs, ledger.rs).       *)
(*                                                                         *)
(* The commands run one at a time here: AsyncLane has their interleavings, *)
(* IterationCounter shows that the counter's calls are atomic.  Left out:  *)
(* an unusable state file (LoopCounter!Forget) and attestations, which     *)
(* only peek at the counter.                                               *)
(***************************************************************************)
EXTENDS Gate, Sequences

CONSTANTS
    Changes,         \* base..head: the ranges that are measured
    Of,              \* Of[c]: what c holds, see Contents
    Worktree,        \* what .andon.toml in the worktree may say
    ContentEngines,  \* the engines the cold cap can defer, in starting order
    Tests,           \* the engine that runs the test command
    Flaky,           \* the engines that can fail
    Contention,      \* may the counter's lock be busy for too long?
    MaxCount,        \* bound: where the count saturates (u32::MAX in the code)
    NoChange,        \* a counter about no change
    NoRecord         \* nothing was measured yet

(* The policies at the two ends of a change, what the engines find in it,  *)
(* whether it has a path nobody can read, and whether its head is a        *)
(* commit, which need not be checked out.                                  *)
Contents == [before : Policies, after : Policies, found : Findings,
             unread : BOOLEAN, committed : BOOLEAN]

ASSUME LoopAssumption ==
    /\ Of \in [Changes -> Contents]
    /\ Worktree \subseteq Policies
    /\ ContentEngines \in Seq(Engines)
    /\ Tests \in Engines
    /\ \A m \in Metrics : About[m].engine = Tests <=> m \in Suites
    /\ Flaky \subseteq Engines
    /\ Contention \in BOOLEAN
    /\ MaxCount \in Nat
    /\ NoChange \notin Changes

VARIABLES
    entry,   \* the branch's entry in the iteration counter
    record,  \* the last record: what was judged, and the verdict
    told     \* history: the cap of the escalation that stands, if one does

vars == <<entry, record, told>>

Counter == INSTANCE LoopCounter WITH
    Branches <- {"branch"}, Limit <- MaxCount, counter <- [b \in {"branch"} |-> entry]

NobodyTold == -1

Records ==
    [change : Changes, policy : Policies, down : SUBSET Engines,
     spilled : SUBSET Engines, count : 0 .. MaxCount,
     verdict : Words]

Init ==
    /\ entry = Counter!Cleared
    /\ record = NoRecord
    /\ told = NobodyTold

(* load_policy reads the worktree, which holds an uncommitted head. *)
InForce(c) == IF Of[c].committed THEN Worktree ELSE {Of[c].after}

(* run_all_engines: engines that start after the cold cap are deferred,    *)
(* and the tests always are.                                               *)
Spilled(p, late) ==
    IF p.enabled
    THEN {ContentEngines[i] : i \in late .. Len(ContentEngines)}
           \union (IF p.test_command # NoCommand THEN {Tests} ELSE {})
    ELSE {}

View(c, p, down, spilled) ==
    [policy |-> p, before |-> Of[c].before, after |-> Of[c].after,
     found |-> Of[c].found,
     shown |-> {m \in Expected(p) : About[m].engine \notin down \union spilled},
     down |-> down, spilled |-> spilled, unread |-> Of[c].unread]

Escalated(count, p) == count > p.iteration_cap

Judged(c, p, down, spilled, count) ==
    [change |-> c, policy |-> p, down |-> down, spilled |-> spilled,
     count |-> count,
     verdict |-> Verdict(View(c, p, down, spilled), Escalated(count, p))]

(* Mutant: an unread path is not a question left unanswered. *)
EveryQuestionWasAnswered0(v) ==
    /\ v.down = {} /\ v.spilled = {}
    /\ \A m \in v.shown : v.found[m].completeness \notin {"Partial", "ParseDegraded"}

(* every_question_was_answered. *)
EveryQuestionWasAnswered(v) ==
    /\ v.down = {} /\ v.spilled = {}
    /\ ~ v.unread
    /\ \A m \in v.shown : v.found[m].completeness \notin {"Partial", "ParseDegraded"}

(* loop_outcome and advance. *)
EntryAfter(c, v) ==
    IF Open(v) THEN Counter!Counted(entry, c)
    ELSE IF EveryQuestionWasAnswered(v) THEN Counter!Cleared
    ELSE entry

(* History: an escalation ends with a look at everything that finds        *)
(* nothing open, or with an acknowledgement.                               *)
ToldAfter(v, r) ==
    CASE r.verdict = "escalate_to_human" -> r.policy.iteration_cap
      [] /\ ~ Open(v) /\ v.down \union v.spilled = {} /\ v.unread = FALSE
         /\ {v.found[m].completeness : m \in v.shown}
              \subseteq {"Complete", "Unwitnessed"} -> NobodyTold
      [] OTHER -> told

(* A self-report.  It is busy when the counter's lock could not be taken:  *)
(* the count is read and nothing is counted.                               *)
Measure(c, p, late, down, busy) ==
    LET spilled == Spilled(p, late)
        v == View(c, p, down, spilled)
        now == IF busy THEN entry ELSE EntryAfter(c, v)
        r == Judged(c, p, down, spilled, now.count)
    IN  /\ busy => Contention
        /\ late <= Len(ContentEngines) => p.enabled
        /\ down \intersect spilled = {}
        /\ entry' = now
        /\ record' = r
        /\ told' = ToldAfter(v, r)

(* complete: the deferred engines run, and the count is the one recorded. *)
Wait(down) ==
    /\ record # NoRecord
    /\ record.spilled # {}
    /\ down \subseteq record.spilled
    /\ record' = Judged(record.change, record.policy, record.down \union down,
                        {}, record.count)
    /\ UNCHANGED <<entry, told>>

Ack ==
    /\ entry' = Counter!Cleared
    /\ told' = NobodyTold
    /\ UNCHANGED record

Next ==
    \/ \E c \in Changes : \E p \in InForce(c), late \in 1 .. Len(ContentEngines) + 1,
          down \in SUBSET (Flaky \ {Tests}), busy \in BOOLEAN :
             Measure(c, p, late, down, busy)
    \/ \E down \in SUBSET Flaky : Wait(down)
    \/ Ack

Spec == Init /\ [][Next]_vars

------------------------------------------------------------------------------
(* Types. *)
TypeOK ==
    /\ entry \in [count : 0 .. MaxCount, change : Changes \union {NoChange}]
    /\ record \in Records \union {NoRecord}
    /\ told \in Nat \union {NobodyTold}

ViewOf(r) == View(r.change, r.policy, r.down, r.spilled)

(* A fired tamper flag, and a fired suite flag, stop the line when policy  *)
(* says so, however partial the view it fired over, whatever the tier and  *)
(* class of the metric, and whatever else failed, was deferred or could    *)
(* not be read: one parse error does not muzzle the suite.                 *)
FiredFlagStops ==
    record # NoRecord =>
        LET v == ViewOf(record)
        IN  \A m \in v.shown :
              Fired(m, v.found[m])
                /\ (IF m \in Suites THEN v.policy.block_on_test_failure
                                    ELSE v.policy.block_on_tamper)
              => record.verdict \in Stopping

(* A change cannot edit its way out of a stop: if it would be stopped by   *)
(* the policy of its base, it is stopped by the policy it brings, or one   *)
(* of its edits is of a kind nobody can rank.  This is about finished      *)
(* measurements: turning the async lane on defers findings.                *)
EditsCannotSoften ==
    record # NoRecord /\ record.spilled = {} =>
        LET of == Of[record.change]
            unedited == [ViewOf(record) EXCEPT
                !.policy = of.before, !.after = of.before,
                !.shown = {m \in Expected(of.before) : About[m].engine \notin record.down}]
        IN  record.policy = of.after
              /\ Verdict(unedited, Escalated(record.count, of.before)) \in Stopping
            => \/ record.verdict \in Stopping
               \/ "Unclassified" \in Moves(of.before, of.after)

(* Larger numbers and more firings, seen equally well, never get a milder  *)
(* word.                                                                   *)
AtLeastAsBad(f, g) ==
    \A m \in Metrics : /\ f[m].completeness = g[m].completeness
                       /\ f[m].value >= g[m].value

WorseIsNeverSofter ==
    record # NoRecord =>
        \A f \in {Of[c].found : c \in Changes} :
          AtLeastAsBad(f, Of[record.change].found) =>
            LET worse == [ViewOf(record) EXCEPT !.found = f]
            IN  Strictness[Verdict(worse, Escalated(record.count, record.policy))]
                  >= Strictness[record.verdict]

(* Completing a measurement never takes a stop back: what the deferred     *)
(* engines say comes on top of what was said.                              *)
WaitNeverUnblocks ==
    [][\A down \in SUBSET Flaky :
         Wait(down) /\ record.verdict \in Stopping
           => Strictness[record'.verdict] >= Strictness[record.verdict]]_vars

(* Once a human was told, every later record with something open says so   *)
(* again, under the same cap or a lower one, whichever change it is of and *)
(* whatever failed meanwhile, until an acknowledgement or a measurement    *)
(* that saw everything and found nothing open.                             *)
EscalationStands ==
    [][told # NobodyTold
         /\ record'.policy.iteration_cap <= told
         /\ Open(ViewOf(record'))
       => record'.verdict = "escalate_to_human"]_record

(* No command takes a stop back: neither completing a measurement, nor     *)
(* measuring again after an escalation.                                    *)
StopsStand == []TypeOK /\ WaitNeverUnblocks /\ EscalationStands

(* docs/verdicts.md: "a pass with nothing open is the loop finishing, and  *)
(* the count resets".                                                      *)
FinishedLoopIsCleared ==
    record # NoRecord /\ ~ Open(ViewOf(record)) /\ EveryQuestionWasAnswered(ViewOf(record))
        => entry.count = 0
==============================================================================
