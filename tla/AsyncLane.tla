------------------------------- MODULE AsyncLane -------------------------------
(***************************************************************************)
(* The async lane of one checkout: `andon measure` leaves the record it    *)
(* reached (last-measure.json) and a job naming the engines it deferred    *)
(* (async-job.json); `andon wait` runs the job, merges and rewrites the    *)
(* record (measure.rs, jobs.rs, store.rs of andon-cli).                    *)
(*                                                                         *)
(* Both files are replaced by an atomic rename, and nothing locks the two  *)
(* together: hooks, the MCP server and people run these commands at once,  *)
(* and any of them can die between its two writes.                         *)
(*                                                                         *)
(* What an engine measured is abstracted to whether it answered; the       *)
(* tool-version and record-kind checks of `wait` always pass here.         *)
(***************************************************************************)
EXTENDS Naturals, FiniteSets, Sequences

CONSTANTS
    Procs,          \* commands that may run at the same time
    Changes,        \* measured ranges: base_oid..head_oid
    Policies,       \* what .andon.toml may say
    LaneOn,         \* the policies with [sandbox] enabled
    WithSuite,      \* those that also declare a test_command
    Content,        \* the engines the cold cap can defer, in starting order
    Inline,         \* the engines that always run at once
    Suite,          \* the user's test command
    Silent,         \* inline engines that can succeed with no result at all
    Fallible,       \* engines that can fail
    MaxMeasures,    \* bound: measurements taken
    Crashes,        \* whether a command may die between two steps
    FailedWrites,   \* whether a file may refuse to be replaced
    Attests         \* whether `andon attest` runs in this checkout too

ASSUME LaneAssumption ==
    /\ WithSuite \subseteq LaneOn /\ LaneOn \subseteq Policies
    /\ Silent \subseteq Inline
    /\ MaxMeasures \in Nat
    /\ {Crashes, FailedWrites, Attests} \subseteq BOOLEAN

VARIABLES
    record,     \* last-measure.json
    job,        \* async-job.json
    at,         \* where each running command is
    mine,       \* the record it holds in memory, if any
    plan,       \* the job it has read, if any
    taken,      \* how many measurements were taken; the last one's identity
    calm        \* history: the last measurement to begin began alone, and
                \* since then nothing overlapped, died or failed to write

held == <<at, mine, plan>>
vars == <<record, job, at, mine, plan, taken, calm>>

Contents == {Content[i] : i \in 1..Len(Content)}
Deferrable == Contents \union {Suite}
Engines == Deferrable \union Inline

\* The engines a payload under this policy has to account for.
Roster(policy) ==
    Contents \union Inline \union (IF policy \in WithSuite THEN {Suite} ELSE {})

\* What a measurement can defer. Once the cold cap has passed no later content
\* engine starts either; the suite never runs inline.
Deferrals(policy) ==
    IF policy \notin LaneOn THEN {{}}
    ELSE { {Content[i] : i \in k..Len(Content)} \union
               (IF policy \in WithSuite THEN {Suite} ELSE {}) :
           k \in 1..(Len(Content) + 1) }

NoRecord == [id |-> 0]
NoJob == [id |-> 0]

\* `id` and `inputs` are history: which measurement the record is, and the
\* (change, policy) pairs its contributions were taken under. `silent` is
\* history too: an engine that answered with no result leaves no trace.
Records == [id : Nat \ {0}, change : Changes, policy : Policies,
            answered : SUBSET Engines, silent : SUBSET Engines,
            failed : SUBSET Engines, owed : SUBSET Deferrable,
            inputs : SUBSET (Changes \X Policies)]

Jobs == [id : Nat \ {0}, change : Changes, policy : Policies,
         failed : SUBSET Engines, spilled : (SUBSET Deferrable) \ {{}}]

Idle(p) == at[p] = "idle"
Alone(p) == \A q \in Procs \ {p} : Idle(q)

Init ==
    /\ record = NoRecord
    /\ job = NoJob
    /\ at = [p \in Procs |-> "idle"]
    /\ mine = [p \in Procs |-> NoRecord]
    /\ plan = [p \in Procs |-> NoJob]
    /\ taken = 0
    /\ calm = FALSE

-----------------------------------------------------------------------------
(* andon measure                                                           *)

Become(p, where, rec, j) ==
    /\ at' = [at EXCEPT ![p] = where]
    /\ mine' = [mine EXCEPT ![p] = rec]
    /\ plan' = [plan EXCEPT ![p] = j]

Leave(p) == Become(p, "idle", NoRecord, NoJob)

Measured(change, policy, owed, failed, silent) ==
    [id |-> taken + 1, change |-> change, policy |-> policy,
     answered |-> Roster(policy) \ (owed \union failed \union silent),
     silent |-> silent, failed |-> failed, owed |-> owed,
     inputs |-> {<<change, policy>>}]

\* Everything up to the record: engines run, fail or are deferred.
Measure(p) ==
    /\ Idle(p)
    /\ taken < MaxMeasures
    /\ \E change \in Changes, policy \in Policies :
       \E owed \in Deferrals(policy) :
       \E failed \in SUBSET ((Fallible \intersect Roster(policy)) \ owed) :
       \E silent \in SUBSET (Silent \ failed) :
          Become(p, "handing off",
                 Measured(change, policy, owed, failed, silent), NoJob)
    /\ taken' = taken + 1
    /\ calm' = Alone(p)
    /\ UNCHANGED <<record, job>>

JobOfForgetsFailures(rec) ==
    [id |-> rec.id, change |-> rec.change, policy |-> rec.policy,
     failed |-> {}, spilled |-> rec.owed]
JobOf(rec) == [id |-> rec.id, change |-> rec.change, policy |-> rec.policy,
               failed |-> rec.failed, spilled |-> rec.owed]

\* The job as the new measurement leaves it: its own, or none.
HandedOffKeepsOld(rec) == IF rec.owed = {} THEN job ELSE JobOf(rec)
HandedOff(rec) == IF rec.owed = {} THEN NoJob ELSE JobOf(rec)

\* The job file is settled before the caller stores the record. A job that
\* cannot be written, or removed, is left as it was.
HandOff(p) ==
    /\ at[p] = "handing off"
    /\ \/ job' = HandedOff(mine[p]) /\ calm' = calm
       \/ FailedWrites /\ job' = job /\ calm' = FALSE
    /\ Become(p, "saving", mine[p], NoJob)
    /\ UNCHANGED <<record, taken>>

\* store::write_last, by whoever called measure; best effort.
Save(p) ==
    /\ at[p] = "saving"
    /\ \/ record' = mine[p] /\ calm' = calm
       \/ FailedWrites /\ record' = record /\ calm' = FALSE
    /\ Leave(p)
    /\ UNCHANGED <<job, taken>>

\* A recompute defers nothing, so it removes the pending job; its record is
\* printed and never stored.
Attest(p) ==
    /\ Attests
    /\ Idle(p)
    /\ job' = NoJob
    /\ calm' = FALSE
    /\ UNCHANGED <<record, held, taken>>

-----------------------------------------------------------------------------
(* andon wait                                                              *)

\* The merged record: what the stored record already answered, what the job
\* says had failed, and what the deferred engines just did.
MergedForgetsPrior(rec, j, broken) ==
    [id |-> rec.id, change |-> j.change, policy |-> j.policy,
     answered |-> j.spilled \ broken, failed |-> j.failed \union broken,
     owed |-> {}, silent |-> rec.silent,
     inputs |-> rec.inputs \union {<<j.change, j.policy>>}]
Merged(rec, j, broken) ==
    [id |-> rec.id, change |-> j.change, policy |-> j.policy,
     answered |-> rec.answered \union (j.spilled \ broken),
     failed |-> j.failed \union broken,
     owed |-> {}, silent |-> rec.silent,
     inputs |-> rec.inputs \union {<<j.change, j.policy>>}]

\* compare_context equality: the job and the record are of one change.
BelongsAnyway(rec, j) == rec # NoRecord
Belongs(rec, j) == rec # NoRecord /\ rec.change = j.change

\* payload::prepare: an engine that contributed twice, failed twice or did both
\* is refused, and so is a roster with an engine missing or unknown.
Accounts(rec, j, broken) ==
    LET ran == j.spilled \ broken
    IN /\ rec.answered \intersect ran = {}
       /\ j.failed \intersect broken = {}
       /\ (rec.answered \union ran) \intersect (j.failed \union broken) = {}
       /\ rec.answered \union ran \union j.failed \union broken = Roster(j.policy)

\* The stored record and the merged one carry the same policy_hash.
SamePolicy(rec, j) == rec.policy = j.policy

\* With no job there is nothing to do and the stored record is shown.
Wait(p) ==
    /\ Idle(p)
    /\ job # NoJob
    /\ Become(p, "waiting", NoRecord, job)
    /\ calm' = (calm /\ Alone(p))
    /\ UNCHANGED <<record, job, taken>>

\* There is no record, or it is not of the change the job describes.
Mismatch(p) ==
    /\ at[p] = "waiting"
    /\ ~Belongs(record, plan[p])
    /\ Become(p, "refused", NoRecord, plan[p])
    /\ UNCHANGED <<record, job, taken, calm>>

\* The record is read, then the deferred engines run for as long as they take,
\* and the whole is assembled in memory. A disagreement is an error.
Run(p) ==
    /\ at[p] = "waiting"
    /\ Belongs(record, plan[p])
    /\ \E broken \in SUBSET (Fallible \intersect plan[p].spilled) :
          IF Accounts(record, plan[p], broken) /\ SamePolicy(record, plan[p])
          THEN Become(p, "merged", Merged(record, plan[p], broken), plan[p])
          ELSE Become(p, "refused", NoRecord, plan[p])
    /\ UNCHANGED <<record, job, taken, calm>>

\* The error is reported; both files stay.
Refuse(p) ==
    /\ at[p] = "refused"
    /\ Leave(p)
    /\ UNCHANGED <<record, job, taken, calm>>

\* A record that cannot be stored ends the wait and keeps the job.
SaveMerged(p) ==
    /\ at[p] = "merged"
    /\ \/ record' = mine[p] /\ Become(p, "clearing", mine[p], plan[p])
       \/ FailedWrites /\ record' = record /\ Leave(p)
    /\ UNCHANGED <<job, taken, calm>>

\* Whatever job is pending by now is removed; a removal that fails is ignored.
Clear(p) ==
    /\ at[p] = "clearing"
    /\ \/ job' = NoJob /\ calm' = calm
       \/ FailedWrites /\ job' = job /\ calm' = FALSE
    /\ Leave(p)
    /\ UNCHANGED <<record, taken>>

Crash(p) ==
    /\ Crashes
    /\ ~Idle(p)
    /\ Leave(p)
    /\ calm' = FALSE
    /\ UNCHANGED <<record, job, taken>>

Next ==
    \E p \in Procs :
        \/ Measure(p) \/ HandOff(p) \/ Save(p) \/ Attest(p)
        \/ Wait(p) \/ Mismatch(p) \/ Run(p) \/ Refuse(p) \/ SaveMerged(p) \/ Clear(p)
        \/ Crash(p)

Spec == Init /\ [][Next]_vars
-----------------------------------------------------------------------------
(* Properties                                                              *)

TypeOK ==
    /\ record \in Records \union {NoRecord}
    /\ job \in Jobs \union {NoJob}
    /\ at \in [Procs -> {"idle", "handing off", "saving", "waiting", "refused",
                         "merged", "clearing"}]
    /\ mine \in [Procs -> Records \union {NoRecord}]
    /\ plan \in [Procs -> Jobs \union {NoJob}]
    /\ taken \in 0..MaxMeasures
    /\ calm \in BOOLEAN

OneMeasurement(rec) == rec.inputs = {<<rec.change, rec.policy>>}

\* However the commands interleave and wherever they die, the record on disk
\* describes one change under one policy: a job is never merged into a record
\* of something else ("a record stitched from two different measurements").
NeverStitched == record # NoRecord => OneMeasurement(record)

AccountedFor(rec) ==
    /\ rec.answered \union rec.silent \union rec.failed \union rec.owed
           = Roster(rec.policy)
    /\ rec.answered \intersect (rec.failed \union rec.owed) = {}
    /\ rec.failed \intersect rec.owed = {}

\* A record never claims a completeness it did not earn: every engine of its
\* roster answered, is named as failed or is still owed, and none of them is
\* two of those at once, whichever job was merged into it.
EveryEngineAccounted == record # NoRecord => AccountedFor(record)

\* The record on disk is the whole of one measurement, no more and no less.
RecordIsWhole == TypeOK /\ NeverStitched /\ EveryEngineAccounted

Quiet == \A p \in Procs : Idle(p)

\* The two files belong together: a record that owes engines has the job that
\* will run them, and one that owes none has no job.
Paired ==
    /\ record # NoRecord
    /\ job = IF record.owed = {} THEN NoJob ELSE JobOf(record)

\* A measurement that began alone, with nothing overlapping it since, leaves
\* the two files a pair, whatever state it found them in: "re-run `andon
\* measure`", the remedy every refusal of `wait` names, always works.
MeasuringRepairs == calm /\ Quiet => Paired

\* Left to itself, a wait is refused only where an engine answered with no
\* result: nothing it contributed is in the record to be found again. (A sandbox
\* or a registry that cannot be opened ends a wait before this model starts.)
CalmWaitIsRun ==
    calm => \A p \in Procs :
        at[p] = "refused" => record # NoRecord /\ record.silent # {}

\* Left to itself, the stored record only moves on: to a later measurement, or
\* to the same one with its debts settled and every answer it had.
RecordMovesOn ==
    [][ calm /\ calm' /\ record' # record /\ record # NoRecord =>
            \/ record'.id > record.id
            \/ /\ record'.id = record.id
               /\ record'.owed = {}
               /\ record.answered \subseteq record'.answered ]_vars

\* jobs.rs on the prior contributions: "descriptor facts are stamped on every
\* result, so the record is its own manifest". Left to itself, a wait finds
\* every engine that answered and is never refused.
RecordIsItsOwnManifest == calm => \A p \in Procs : at[p] # "refused"

\* jobs.rs on its crash behaviour: the job is written after the record and
\* removed after the merged one replaces it, so "the next `wait` simply runs
\* the job again". A wait refuses no job whose record is in place.
PendingJobRunsAgain ==
    \A p \in Procs :
        at[p] = "refused" => record = NoRecord \/ record.id # plan[p].id
=============================================================================
