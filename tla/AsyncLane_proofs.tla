---------------------------- MODULE AsyncLane_proofs ----------------------------
(***************************************************************************)
(* Proofs about AsyncLane, for any set of commands, engines, changes and   *)
(* policies, with crashes, failed writes and attestations allowed.         *)
(***************************************************************************)
EXTENDS AsyncLane, TLAPS

Sound(rec) == rec # NoRecord => OneMeasurement(rec) /\ AccountedFor(rec)

Places == {"idle", "handing off", "saving", "waiting", "refused", "merged",
           "clearing"}

\* What a command holds in memory where it stands.
Holds(where, rec, j) ==
    /\ where \in Places
    /\ rec \in Records \union {NoRecord}
    /\ j \in Jobs \union {NoJob}
    /\ Sound(rec)
    /\ where \in {"handing off", "saving", "merged", "clearing"} => rec \in Records
    /\ where \in {"waiting", "refused", "merged", "clearing"} => j \in Jobs

\* What any record satisfies, on disk or in some command's memory.
SoundInv ==
    /\ at \in [Procs -> Places]
    /\ mine \in [Procs -> Records \union {NoRecord}]
    /\ plan \in [Procs -> Jobs \union {NoJob}]
    /\ \A p \in Procs : Holds(at[p], mine[p], plan[p])
    /\ record \in Records \union {NoRecord}
    /\ Sound(record)
    /\ job \in Jobs \union {NoJob}
    /\ taken \in Nat
    /\ calm \in BOOLEAN

\* What a measurement defers is on its roster.
LEMMA DeferredIsOnRoster ==
    ASSUME NEW policy \in Policies, NEW owed \in Deferrals(policy)
    PROVE  owed \subseteq Roster(policy) /\ owed \subseteq Deferrable
  BY LaneAssumption DEF Deferrals, Roster, Contents, Deferrable

LEMMA RosterOfEngines ==
    ASSUME NEW policy PROVE Roster(policy) \subseteq Engines
  BY DEF Roster, Engines, Deferrable

\* A measurement's own record is of one change, and names every engine once.
LEMMA MeasuredIsSound ==
    ASSUME SoundInv, NEW change \in Changes, NEW policy \in Policies,
           NEW owed \in Deferrals(policy),
           NEW failed \in SUBSET ((Fallible \intersect Roster(policy)) \ owed),
           NEW silent \in SUBSET (Silent \ failed)
    PROVE  /\ Measured(change, policy, owed, failed, silent) \in Records
           /\ Sound(Measured(change, policy, owed, failed, silent))
  <1>1. owed \subseteq Roster(policy) /\ owed \subseteq Deferrable
    BY DeferredIsOnRoster
  <1>2. Roster(policy) \subseteq Engines
    BY RosterOfEngines
  <1>3. silent \subseteq Roster(policy)
    BY LaneAssumption DEF Roster
  <1>4. taken + 1 \in Nat \ {0}
    <2>1. taken \in Nat
      BY DEF SoundInv
    <2> QED BY <2>1
  <1>5. Measured(change, policy, owed, failed, silent) \in Records
    BY <1>1, <1>2, <1>3, <1>4 DEF Measured, Records
  <1>6. AccountedFor(Measured(change, policy, owed, failed, silent))
    BY <1>1, <1>3 DEF AccountedFor, Measured
  <1>7. OneMeasurement(Measured(change, policy, owed, failed, silent))
    BY DEF OneMeasurement, Measured
  <1> QED BY <1>5, <1>6, <1>7 DEF Sound

\* A merge that passes the checks of `wait` is of one change too, and still
\* names every engine once.
LEMMA MergedIsSound ==
    ASSUME SoundInv, NEW j \in Jobs, NEW broken \in SUBSET (Fallible \intersect j.spilled),
           Belongs(record, j), Accounts(record, j, broken), SamePolicy(record, j)
    PROVE  /\ Merged(record, j, broken) \in Records
           /\ Sound(Merged(record, j, broken))
  <1>1. record \in Records /\ OneMeasurement(record) /\ AccountedFor(record)
    BY DEF SoundInv, Belongs, Sound
  <1>2. record.change = j.change /\ record.policy = j.policy
    BY DEF Belongs, SamePolicy
  <1>3. Merged(record, j, broken) \in Records
    <2>1. j.spilled \subseteq Engines /\ j.failed \subseteq Engines
      BY DEF Jobs, Engines
    <2>2. /\ record.answered \subseteq Engines /\ record.silent \subseteq Engines
          /\ record.id \in Nat \ {0}
          /\ record.inputs \subseteq Changes \X Policies
      BY <1>1 DEF Records
    <2>3. j.change \in Changes /\ j.policy \in Policies
      BY DEF Jobs
    <2> QED BY <2>1, <2>2, <2>3 DEF Merged, Records
  <1>4. OneMeasurement(Merged(record, j, broken))
    BY <1>1, <1>2 DEF OneMeasurement, Merged
  <1>5. AccountedFor(Merged(record, j, broken))
    <2>1. record.silent \subseteq Roster(j.policy)
      BY <1>1, <1>2 DEF AccountedFor
    <2> QED BY <2>1 DEF AccountedFor, Accounts, Merged
  <1> QED BY <1>3, <1>4, <1>5 DEF Sound

LEMMA JobOfRecord ==
    ASSUME NEW rec \in Records \union {NoRecord}, rec # NoRecord
    PROVE  HandedOff(rec) \in Jobs \union {NoJob}
  BY DEF HandedOff, JobOf, Records, Jobs

LEMMA JobIsReal == NoJob \notin Jobs /\ NoRecord \notin Records
  BY DEF NoJob, Jobs, NoRecord, Records

LEMMA SoundInit == Init => SoundInv
  <1> SUFFICES ASSUME Init PROVE SoundInv
    OBVIOUS
  <1>1. Sound(NoRecord) /\ Holds("idle", NoRecord, NoJob)
    BY DEF Sound, Holds, Places
  <1>2. ASSUME NEW p \in Procs PROVE Holds(at[p], mine[p], plan[p])
    <2>1. at[p] = "idle" /\ mine[p] = NoRecord /\ plan[p] = NoJob
      BY DEF Init
    <2> QED BY <1>1, <2>1
  <1>3. at \in [Procs -> Places] /\ mine \in [Procs -> Records \union {NoRecord}]
        /\ plan \in [Procs -> Jobs \union {NoJob}]
    BY DEF Init, Places
  <1>4. Sound(record) /\ record \in Records \union {NoRecord}
        /\ job \in Jobs \union {NoJob} /\ calm \in BOOLEAN /\ taken \in Nat
    BY <1>1 DEF Init
  <1> QED BY <1>2, <1>3, <1>4 DEF SoundInv

\* A command that moves on, holding what its new place calls for, leaves every
\* command holding what its place calls for.
LEMMA BecomeKeepsHolding ==
    ASSUME SoundInv, NEW p \in Procs, NEW where, NEW rec, NEW j,
           Holds(where, rec, j), Become(p, where, rec, j)
    PROVE  /\ at' \in [Procs -> Places]
           /\ mine' \in [Procs -> Records \union {NoRecord}]
           /\ plan' \in [Procs -> Jobs \union {NoJob}]
           /\ \A q \in Procs : Holds(at'[q], mine'[q], plan'[q])
  <1>1. /\ at' \in [Procs -> Places]
        /\ mine' \in [Procs -> Records \union {NoRecord}]
        /\ plan' \in [Procs -> Jobs \union {NoJob}]
    BY DEF SoundInv, Become, Holds
  <1>2. ASSUME NEW q \in Procs PROVE Holds(at'[q], mine'[q], plan'[q])
    <2>1. CASE q = p
      <3>1. at'[q] = where /\ mine'[q] = rec /\ plan'[q] = j
        BY <2>1 DEF SoundInv, Become
      <3> QED BY <3>1
    <2>2. CASE q # p
      <3>1. at'[q] = at[q] /\ mine'[q] = mine[q] /\ plan'[q] = plan[q]
        BY <2>2 DEF SoundInv, Become
      <3> QED BY <3>1 DEF SoundInv
    <2> QED BY <2>1, <2>2
  <1> QED BY <1>1, <1>2

\* The part of the invariant that is about the two files.
FilesInv ==
    /\ record \in Records \union {NoRecord}
    /\ Sound(record)
    /\ job \in Jobs \union {NoJob}
    /\ taken \in Nat
    /\ calm \in BOOLEAN

LEMMA StepByParts ==
    ASSUME SoundInv, FilesInv', NEW p \in Procs, NEW where, NEW rec, NEW j,
           Holds(where, rec, j), Become(p, where, rec, j)
    PROVE  SoundInv'
  BY BecomeKeepsHolding DEF SoundInv, FilesInv

LEMMA LeavingStep ==
    ASSUME SoundInv, FilesInv', NEW p \in Procs, Leave(p)
    PROVE  SoundInv'
  <1>1. Holds("idle", NoRecord, NoJob)
    BY DEF Holds, Places, Sound
  <1> QED BY <1>1, StepByParts DEF Leave

LEMMA SoundStep == SoundInv /\ [Next]_vars => SoundInv'
  <1> SUFFICES ASSUME SoundInv, [Next]_vars PROVE SoundInv'
    OBVIOUS
  <1>1. CASE UNCHANGED vars
    BY <1>1 DEF vars, held, SoundInv, Sound, OneMeasurement, AccountedFor, Holds
  <1>2. CASE Next
    <2> PICK p \in Procs :
            \/ Measure(p) \/ HandOff(p) \/ Save(p) \/ Attest(p)
            \/ Wait(p) \/ Mismatch(p) \/ Run(p) \/ Refuse(p) \/ SaveMerged(p)
            \/ Clear(p) \/ Crash(p)
      BY <1>2 DEF Next
    <2>0. FilesInv /\ Holds(at[p], mine[p], plan[p])
      BY DEF SoundInv, FilesInv
    <2>q. ASSUME UNCHANGED <<record, job, taken>>, calm' \in BOOLEAN
          PROVE  FilesInv'
      BY <2>0, <2>q DEF FilesInv, Sound, OneMeasurement, AccountedFor
    <2>1. CASE Measure(p)
      <3>4. taken' \in Nat
        <4>1. taken \in Nat
          BY <2>0 DEF FilesInv
        <4>2. taken' = taken + 1
          BY <2>1 DEF Measure
        <4> QED BY <4>1, <4>2
      <3> PICK change \in Changes, policy \in Policies :
              \E owed \in Deferrals(policy) :
              \E failed \in SUBSET ((Fallible \intersect Roster(policy)) \ owed) :
              \E silent \in SUBSET (Silent \ failed) :
                 Become(p, "handing off",
                        Measured(change, policy, owed, failed, silent), NoJob)
        BY <2>1 DEF Measure
      <3> PICK owed \in Deferrals(policy) :
              \E failed \in SUBSET ((Fallible \intersect Roster(policy)) \ owed) :
              \E silent \in SUBSET (Silent \ failed) :
                 Become(p, "handing off",
                        Measured(change, policy, owed, failed, silent), NoJob)
        OBVIOUS
      <3> PICK failed \in SUBSET ((Fallible \intersect Roster(policy)) \ owed) :
              \E silent \in SUBSET (Silent \ failed) :
                 Become(p, "handing off",
                        Measured(change, policy, owed, failed, silent), NoJob)
        OBVIOUS
      <3>1. PICK silent \in SUBSET (Silent \ failed) :
                 Become(p, "handing off",
                        Measured(change, policy, owed, failed, silent), NoJob)
        OBVIOUS
      <3>2. /\ Measured(change, policy, owed, failed, silent) \in Records
            /\ Sound(Measured(change, policy, owed, failed, silent))
        BY MeasuredIsSound
      <3>3. Holds("handing off", Measured(change, policy, owed, failed, silent), NoJob)
        BY <3>2 DEF Holds, Places
      <3>5. record' = record /\ job' = job /\ calm' \in BOOLEAN
        BY <2>1 DEF Measure, Alone
      <3>6. FilesInv'
        BY <2>0, <3>4, <3>5 DEF FilesInv, Sound, OneMeasurement, AccountedFor
      <3> QED BY <3>1, <3>3, <3>6, StepByParts
    <2>2. CASE HandOff(p)
      <3>1. mine[p] \in Records /\ Holds("saving", mine[p], NoJob)
        BY <2>0, <2>2 DEF HandOff, Holds, Places
      <3>2. HandedOff(mine[p]) \in Jobs \union {NoJob}
        BY <3>1, JobOfRecord, JobIsReal
      <3>3. job' \in Jobs \union {NoJob} /\ calm' \in BOOLEAN
        BY <2>0, <2>2, <3>2 DEF HandOff, FilesInv
      <3>4. record' = record /\ taken' = taken
        BY <2>2 DEF HandOff
      <3>5. FilesInv'
        BY <2>0, <3>3, <3>4 DEF FilesInv, Sound, OneMeasurement, AccountedFor
      <3> QED BY <2>2, <3>1, <3>5, StepByParts DEF HandOff
    <2>3. CASE Save(p)
      <3>1. record' = record \/ record' = mine[p]
        BY <2>3 DEF Save
      <3>2. job' = job /\ taken' = taken /\ calm' \in BOOLEAN
        BY <2>0, <2>3 DEF Save, FilesInv
      <3>3. FilesInv'
        BY <2>0, <3>1, <3>2 DEF FilesInv, Holds, Sound, OneMeasurement, AccountedFor
      <3> QED BY <2>3, <3>3, LeavingStep DEF Save
    <2>4. CASE Attest(p)
      <3>1. FilesInv'
        BY <2>0, <2>4 DEF Attest, FilesInv, Sound, OneMeasurement, AccountedFor
      <3>2. UNCHANGED held
        BY <2>4 DEF Attest
      <3> QED BY <3>1, <3>2 DEF SoundInv, FilesInv, held, Holds
    <2>5. CASE Wait(p)
      <3>1. Holds("waiting", NoRecord, job)
        BY <2>0, <2>5 DEF Wait, Holds, Places, FilesInv, Sound
      <3>2. FilesInv'
        BY <2>q, <2>5 DEF Wait, Alone
      <3> QED BY <2>5, <3>1, <3>2, StepByParts DEF Wait
    <2>6. CASE Mismatch(p)
      <3>1. Holds("refused", NoRecord, plan[p])
        BY <2>0, <2>6 DEF Mismatch, Holds, Places, Sound
      <3>2. FilesInv'
        BY <2>0, <2>q, <2>6 DEF Mismatch, FilesInv
      <3> QED BY <2>6, <3>1, <3>2, StepByParts DEF Mismatch
    <2>7. CASE Run(p)
      <3>1. FilesInv'
        BY <2>0, <2>q, <2>7 DEF Run, FilesInv
      <3>2. plan[p] \in Jobs
        BY <2>0, <2>7 DEF Run, Holds
      <3>3. PICK broken \in SUBSET (Fallible \intersect plan[p].spilled) :
              IF Accounts(record, plan[p], broken) /\ SamePolicy(record, plan[p])
              THEN Become(p, "merged", Merged(record, plan[p], broken), plan[p])
              ELSE Become(p, "refused", NoRecord, plan[p])
        BY <2>7 DEF Run
      <3>4. CASE Accounts(record, plan[p], broken) /\ SamePolicy(record, plan[p])
        <4>1. /\ Merged(record, plan[p], broken) \in Records
              /\ Sound(Merged(record, plan[p], broken))
          BY <2>7, <3>2, <3>4, MergedIsSound DEF Run
        <4>2. Holds("merged", Merged(record, plan[p], broken), plan[p])
          BY <3>2, <4>1 DEF Holds, Places
        <4> QED BY <3>1, <3>3, <3>4, <4>2, StepByParts
      <3>5. CASE ~(Accounts(record, plan[p], broken) /\ SamePolicy(record, plan[p]))
        <4>1. Holds("refused", NoRecord, plan[p])
          BY <3>2 DEF Holds, Places, Sound
        <4> QED BY <3>1, <3>3, <3>5, <4>1, StepByParts
      <3> QED BY <3>4, <3>5
    <2>8. CASE Refuse(p)
      <3>1. FilesInv'
        BY <2>0, <2>q, <2>8 DEF Refuse, FilesInv
      <3> QED BY <2>8, <3>1, LeavingStep DEF Refuse
    <2>9. CASE SaveMerged(p)
      <3>1. record' = record \/ record' = mine[p]
        BY <2>9 DEF SaveMerged
      <3>2. job' = job /\ taken' = taken /\ calm' = calm
        BY <2>9 DEF SaveMerged
      <3>3. FilesInv'
        BY <2>0, <3>1, <3>2 DEF FilesInv, Holds, Sound, OneMeasurement, AccountedFor
      <3>4. Holds("clearing", mine[p], plan[p])
        BY <2>0, <2>9 DEF SaveMerged, Holds, Places
      <3> QED BY <2>9, <3>3, <3>4, StepByParts, LeavingStep DEF SaveMerged
    <2>10. CASE Clear(p)
      <3>1. record' = record /\ taken' = taken
        BY <2>10 DEF Clear
      <3>2. job' \in Jobs \union {NoJob} /\ calm' \in BOOLEAN
        BY <2>0, <2>10 DEF Clear, FilesInv
      <3>3. FilesInv'
        BY <2>0, <3>1, <3>2 DEF FilesInv, Sound, OneMeasurement, AccountedFor
      <3> QED BY <2>10, <3>3, LeavingStep DEF Clear
    <2>11. CASE Crash(p)
      <3>1. FilesInv'
        BY <2>0, <2>q, <2>11 DEF Crash, FilesInv
      <3> QED BY <2>11, <3>1, LeavingStep DEF Crash
    <2> QED BY <2>1, <2>2, <2>3, <2>4, <2>5, <2>6, <2>7, <2>8, <2>9, <2>10, <2>11
  <1> QED BY <1>1, <1>2

\* However commands interleave and wherever they die, no record is stitched
\* from measurements of two changes or two policies (jobs::complete).
THEOREM RecordsAreNeverStitched == Spec => []NeverStitched
  <1>1. SoundInv => NeverStitched
    BY DEF SoundInv, Sound, NeverStitched
  <1> QED BY <1>1, SoundInit, SoundStep, PTL DEF Spec

\* And none claims a completeness it did not earn: every engine of its roster
\* answered, failed by name, or is still owed (payload::prepare).
THEOREM RecordsAccountForEveryEngine == Spec => []EveryEngineAccounted
  <1>1. SoundInv => EveryEngineAccounted
    BY DEF SoundInv, Sound, EveryEngineAccounted
  <1> QED BY <1>1, SoundInit, SoundStep, PTL DEF Spec

\* How many measurements were taken is bounded by the instance.
TakenInv == taken \in 0..MaxMeasures

\* The lane's whole invariant on its files: types, one measurement per record,
\* and an account of every engine, for any number of commands that die, fail to
\* write or run at once (measure, wait, attest).
THEOREM RecordsAreWhole == Spec => []RecordIsWhole
  <1>1. Init => TakenInv
    BY LaneAssumption DEF Init, TakenInv
  <1>2. TakenInv /\ [Next]_vars => TakenInv'
    <2> SUFFICES ASSUME TakenInv, [Next]_vars PROVE TakenInv'
      OBVIOUS
    <2>1. taken' = taken \/ (taken < MaxMeasures /\ taken' = taken + 1)
      BY DEF Next, vars, Measure, HandOff, Save, Attest, Wait, Mismatch, Run, Refuse,
             SaveMerged, Clear, Crash
    <2> QED BY <2>1, LaneAssumption DEF TakenInv
  <1>3. SoundInv /\ TakenInv => RecordIsWhole
    BY DEF SoundInv, TakenInv, Sound, Places, TypeOK, NeverStitched,
           EveryEngineAccounted, RecordIsWhole
  <1> QED BY <1>1, <1>2, <1>3, SoundInit, SoundStep, PTL DEF Spec
-----------------------------------------------------------------------------
(* What a measurement that is left to itself guarantees.                   *)

Pair(r, b) == r # NoRecord /\ b = HandedOff(r)

\* What the files are, when one command alone runs, according to its place.
CalmAt(where, rec, j, r, b) ==
    /\ where = "idle" => Pair(r, b)
    /\ where = "saving" => Pair(rec, b)
    /\ where \in {"waiting", "merged", "refused"} => Pair(r, b) /\ j = b
    /\ where = "refused" => r.silent # {}
    /\ where = "merged" => rec.owed = {}
    /\ where = "clearing" => r # NoRecord /\ r.owed = {}

CalmInv ==
    calm => /\ \A p, q \in Procs : ~Idle(p) /\ ~Idle(q) => p = q
            /\ Quiet => Pair(record, job)
            /\ \A p \in Procs :
                  ~Idle(p) => CalmAt(at[p], mine[p], plan[p], record, job)

LEMMA CalmIsAlone ==
    ASSUME CalmInv, calm, NEW p \in Procs, ~Idle(p)
    PROVE  Alone(p) /\ CalmAt(at[p], mine[p], plan[p], record, job)
  BY DEF CalmInv, Alone

\* The command that runs alone moves on, and the files suit its new place.
LEMMA CalmBecome ==
    ASSUME SoundInv, NEW p \in Procs, Alone(p), NEW where, NEW rec, NEW j,
           Become(p, where, rec, j), CalmAt(where, rec, j, record', job')
    PROVE  CalmInv'
  <1>1. at'[p] = where /\ mine'[p] = rec /\ plan'[p] = j
    BY DEF Become, SoundInv
  <1>2. \A q \in Procs \ {p} : at'[q] = "idle"
    BY DEF Become, SoundInv, Alone, Idle
  <1>3. \A q, r \in Procs : ~Idle(q)' /\ ~Idle(r)' => q = r
    BY <1>2 DEF Idle
  <1>4. Quiet' => Pair(record', job')
    BY <1>1 DEF Quiet, Idle, CalmAt
  <1>5. \A q \in Procs : ~Idle(q)' => CalmAt(at'[q], mine'[q], plan'[q], record', job')
    BY <1>1, <1>2 DEF Idle
  <1>6. Pair(record, job)' <=> Pair(record', job')
    BY DEF Pair, HandedOff, JobOf
  <1>7. ASSUME NEW q \in Procs
        PROVE  CalmAt(at[q], mine[q], plan[q], record, job)'
                  <=> CalmAt(at'[q], mine'[q], plan'[q], record', job')
    BY DEF CalmAt, Pair, HandedOff, JobOf
  <1> QED BY <1>3, <1>4, <1>5, <1>6, <1>7 DEF CalmInv

\* A job that is the record's own and a record that accounts for its engines:
\* the merge is refused only over an engine that answered with no result.
LEMMA OwnJobMerges ==
    ASSUME NEW rec \in Records, AccountedFor(rec), rec.silent = {},
           NEW broken \in SUBSET rec.owed
    PROVE  Accounts(rec, JobOf(rec), broken) /\ SamePolicy(rec, JobOf(rec))
  <1> DEFINE A == rec.answered  F == rec.failed  O == rec.owed
  <1>1. A \union F \union O = Roster(rec.policy) /\ A \intersect (F \union O) = {}
        /\ F \intersect O = {} /\ broken \subseteq O
    BY DEF AccountedFor
  <1> HIDE DEF A, F, O
  <1>2. /\ A \intersect (O \ broken) = {}
        /\ F \intersect broken = {}
        /\ (A \union (O \ broken)) \intersect (F \union broken) = {}
        /\ A \union (O \ broken) \union F \union broken = Roster(rec.policy)
    BY <1>1
  <1>3. /\ JobOf(rec).spilled = O /\ JobOf(rec).failed = F
        /\ JobOf(rec).policy = rec.policy
    BY DEF JobOf, O, F
  <1> QED BY <1>2, <1>3 DEF Accounts, SamePolicy, A

LEMMA CalmStep == SoundInv /\ CalmInv /\ [Next]_vars => CalmInv'
  <1> SUFFICES ASSUME SoundInv, CalmInv, [Next]_vars, calm' PROVE CalmInv'
    BY DEF CalmInv
  <1>1. CASE UNCHANGED vars
    BY <1>1 DEF vars, held, CalmInv, CalmAt, Pair, HandedOff, JobOf, Quiet, Idle
  <1>2. CASE Next
    <2> PICK p \in Procs :
            \/ Measure(p) \/ HandOff(p) \/ Save(p) \/ Attest(p)
            \/ Wait(p) \/ Mismatch(p) \/ Run(p) \/ Refuse(p) \/ SaveMerged(p)
            \/ Clear(p) \/ Crash(p)
      BY <1>2 DEF Next
    <2>0. Holds(at[p], mine[p], plan[p]) /\ (record # NoRecord => record \in Records)
      BY DEF SoundInv
    <2>1. CASE Measure(p)
      <3>1. Alone(p)
        BY <2>1 DEF Measure
      <3>2. \E rec : Become(p, "handing off", rec, NoJob)
        BY <2>1 DEF Measure
      <3>3. ASSUME NEW rec PROVE CalmAt("handing off", rec, NoJob, record', job')
        BY DEF CalmAt
      <3> QED BY <3>1, <3>2, <3>3, CalmBecome
    <2>2. CASE HandOff(p)
      <3>1. calm /\ ~Idle(p) /\ job' = HandedOff(mine[p])
        BY <2>2 DEF HandOff, Idle
      <3>2. mine[p] # NoRecord
        BY <2>0, <2>2, JobIsReal DEF HandOff, Holds
      <3>3. CalmAt("saving", mine[p], NoJob, record', job')
        BY <3>1, <3>2 DEF CalmAt, Pair
      <3>4. Alone(p)
        BY <3>1, CalmIsAlone
      <3> QED BY <2>2, <3>3, <3>4, CalmBecome DEF HandOff
    <2>3. CASE Save(p)
      <3>1. calm /\ ~Idle(p) /\ record' = mine[p] /\ job' = job
        BY <2>3 DEF Save, Idle
      <3>2. Alone(p) /\ Pair(mine[p], job)
        BY <2>3, <3>1, CalmIsAlone DEF Save, CalmAt
      <3>3. CalmAt("idle", NoRecord, NoJob, record', job')
        BY <3>1, <3>2 DEF CalmAt
      <3> QED BY <2>3, <3>2, <3>3, CalmBecome DEF Save, Leave
    <2>4. CASE Attest(p)
      BY <2>4 DEF Attest
    <2>5. CASE Wait(p)
      <3>1. calm /\ Alone(p) /\ Idle(p) /\ record' = record /\ job' = job
        BY <2>5 DEF Wait
      <3>2. Pair(record, job)
        BY <3>1 DEF CalmInv, Quiet, Alone
      <3>3. CalmAt("waiting", NoRecord, job, record', job')
        BY <3>1, <3>2 DEF CalmAt
      <3> QED BY <2>5, <3>1, <3>3, CalmBecome DEF Wait
    <2>6. CASE Mismatch(p)
      <3>1. calm /\ ~Idle(p)
        BY <2>6 DEF Mismatch, Idle
      <3>2. Pair(record, job) /\ plan[p] = job /\ plan[p] \in Jobs
        BY <2>0, <2>6, <3>1, CalmIsAlone DEF Mismatch, CalmAt, Holds
      <3>3. plan[p] = JobOf(record)
        BY <3>2, JobIsReal DEF Pair, HandedOff
      <3>4. Belongs(record, plan[p])
        BY <3>2, <3>3 DEF Belongs, JobOf, Pair
      <3> QED BY <2>6, <3>4 DEF Mismatch
    <2>7. CASE Run(p)
      <3>1. calm /\ ~Idle(p) /\ record' = record /\ job' = job
        BY <2>7 DEF Run, Idle
      <3>2. Alone(p) /\ Pair(record, job) /\ plan[p] = job /\ plan[p] \in Jobs
        BY <2>0, <2>7, <3>1, CalmIsAlone DEF Run, CalmAt, Holds
      <3>3. plan[p] = JobOf(record) /\ plan[p].spilled = record.owed
        BY <3>2, JobIsReal DEF Pair, HandedOff, JobOf
      <3>4. PICK broken \in SUBSET (Fallible \intersect plan[p].spilled) :
              IF Accounts(record, plan[p], broken) /\ SamePolicy(record, plan[p])
              THEN Become(p, "merged", Merged(record, plan[p], broken), plan[p])
              ELSE Become(p, "refused", NoRecord, plan[p])
        BY <2>7 DEF Run
      <3>5. CASE Accounts(record, plan[p], broken) /\ SamePolicy(record, plan[p])
        <4>1. CalmAt("merged", Merged(record, plan[p], broken), plan[p], record', job')
          BY <3>1, <3>2 DEF CalmAt, Merged
        <4> QED BY <3>2, <3>4, <3>5, <4>1, CalmBecome
      <3>6. CASE ~(Accounts(record, plan[p], broken) /\ SamePolicy(record, plan[p]))
        <4>1. record \in Records /\ AccountedFor(record)
          BY <2>0, <3>2 DEF Pair, SoundInv, Sound
        <4>2. broken \in SUBSET record.owed
          BY <3>3
        <4>3. record.silent # {}
          BY <3>3, <3>6, <4>1, <4>2, OwnJobMerges
        <4>4. CalmAt("refused", NoRecord, plan[p], record', job')
          BY <3>1, <3>2, <4>3 DEF CalmAt
        <4> QED BY <3>2, <3>4, <3>6, <4>4, CalmBecome
      <3> QED BY <3>5, <3>6
    <2>8. CASE Refuse(p)
      <3>1. calm /\ ~Idle(p) /\ record' = record /\ job' = job
        BY <2>8 DEF Refuse, Idle
      <3>2. Alone(p) /\ Pair(record, job)
        BY <2>8, <3>1, CalmIsAlone DEF Refuse, CalmAt
      <3>3. CalmAt("idle", NoRecord, NoJob, record', job')
        BY <3>1, <3>2 DEF CalmAt
      <3> QED BY <2>8, <3>2, <3>3, CalmBecome DEF Refuse, Leave
    <2>9. CASE SaveMerged(p)
      <3>1. calm /\ ~Idle(p) /\ job' = job
        BY <2>9 DEF SaveMerged, Idle
      <3>2. Alone(p) /\ Pair(record, job) /\ mine[p].owed = {}
        BY <2>9, <3>1, CalmIsAlone DEF SaveMerged, CalmAt
      <3>3. mine[p] # NoRecord
        BY <2>0, <2>9, JobIsReal DEF SaveMerged, Holds
      <3>4. CASE record' = mine[p] /\ Become(p, "clearing", mine[p], plan[p])
        <4>1. CalmAt("clearing", mine[p], plan[p], record', job')
          BY <3>2, <3>3, <3>4 DEF CalmAt
        <4> QED BY <3>2, <3>4, <4>1, CalmBecome
      <3>5. CASE record' = record /\ Leave(p)
        <4>1. CalmAt("idle", NoRecord, NoJob, record', job')
          BY <3>1, <3>2, <3>5 DEF CalmAt
        <4> QED BY <3>2, <3>5, <4>1, CalmBecome DEF Leave
      <3> QED BY <2>9, <3>4, <3>5 DEF SaveMerged
    <2>10. CASE Clear(p)
      <3>1. calm /\ ~Idle(p) /\ record' = record /\ job' = NoJob
        BY <2>10 DEF Clear, Idle
      <3>2. Alone(p) /\ record # NoRecord /\ record.owed = {}
        BY <2>10, <3>1, CalmIsAlone DEF Clear, CalmAt
      <3>3. CalmAt("idle", NoRecord, NoJob, record', job')
        BY <3>1, <3>2 DEF CalmAt, Pair, HandedOff
      <3> QED BY <2>10, <3>2, <3>3, CalmBecome DEF Clear, Leave
    <2>11. CASE Crash(p)
      BY <2>11 DEF Crash
    <2> QED BY <2>1, <2>2, <2>3, <2>4, <2>5, <2>6, <2>7, <2>8, <2>9, <2>10, <2>11
  <1> QED BY <1>1, <1>2

LEMMA CalmAlways == Spec => [](SoundInv /\ CalmInv)
  <1>1. Init => CalmInv
    BY DEF Init, CalmInv
  <1> QED BY <1>1, SoundInit, SoundStep, CalmStep, PTL DEF Spec

\* A measurement that nothing overlapped leaves the record and the job a pair,
\* whatever crash, failed write or race it found behind it (measure.rs).
THEOREM MeasuringAlwaysRepairs == Spec => []MeasuringRepairs
  <1>1. CalmInv => MeasuringRepairs
    BY DEF CalmInv, MeasuringRepairs, Pair, Paired, HandedOff
  <1> QED BY <1>1, CalmAlways, PTL

\* And the wait that follows it is refused only where an engine answered with
\* no result (jobs::complete).
THEOREM CalmWaitsAreRun == Spec => []CalmWaitIsRun
  <1>1. CalmInv => CalmWaitIsRun
    BY DEF CalmInv, CalmWaitIsRun, CalmAt, Pair, Idle
  <1> QED BY <1>1, CalmAlways, PTL

-----------------------------------------------------------------------------
(* Where a record that is left to itself goes: identities grow with the    *)
(* measurements, and what a command is about to store is newer than what   *)
(* is there, or is what is there, completed.                               *)

IdsInv ==
    /\ record.id <= taken
    /\ \A p \in Procs : mine[p].id <= taken

MovesAt(where, rec, r) ==
    /\ where \in {"handing off", "saving"} => r.id < rec.id
    /\ where = "merged" => /\ rec.id = r.id /\ rec.owed = {}
                           /\ r # NoRecord => r.answered \subseteq rec.answered

MovesInv == calm => \A p \in Procs : MovesAt(at[p], mine[p], record)

LEMMA IdTypes ==
    ASSUME SoundInv
    PROVE  /\ record.id \in Nat /\ taken \in Nat
           /\ \A p \in Procs : mine[p].id \in Nat
  BY DEF SoundInv, Records, NoRecord

LEMMA IdsStep == SoundInv /\ IdsInv /\ [Next]_vars => IdsInv'
  <1> SUFFICES ASSUME SoundInv, IdsInv, [Next]_vars PROVE IdsInv'
    OBVIOUS
  <1>1. CASE UNCHANGED vars
    BY <1>1 DEF vars, held, IdsInv
  <1>2. ASSUME NEW p \in Procs, NEW where, NEW rec, NEW j, Become(p, where, rec, j),
               rec.id <= taken', record'.id <= taken', taken' \in taken..taken + 1
        PROVE  IdsInv'
    <2>1. /\ mine'[p] = rec
          /\ \A q \in Procs \ {p} : mine'[q] = mine[q]
      BY <1>2 DEF Become, SoundInv
    <2>2. ASSUME NEW q \in Procs PROVE mine'[q].id <= taken'
      BY <1>2, <2>1, IdTypes DEF IdsInv
    <2> QED BY <1>2, <2>2 DEF IdsInv
  <1>3. CASE Next
    <2> PICK p \in Procs :
            \/ Measure(p) \/ HandOff(p) \/ Save(p) \/ Attest(p)
            \/ Wait(p) \/ Mismatch(p) \/ Run(p) \/ Refuse(p) \/ SaveMerged(p)
            \/ Clear(p) \/ Crash(p)
      BY <1>3 DEF Next
    <2>0. /\ NoRecord.id <= taken /\ record.id <= taken /\ mine[p].id <= taken
          /\ taken \in taken..taken + 1 /\ taken + 1 \in taken..taken + 1
          /\ record.id <= taken + 1
      BY IdTypes DEF NoRecord, IdsInv
    <2>1. CASE Measure(p)
      <3>1. /\ \E rec : rec.id = taken + 1 /\ Become(p, "handing off", rec, NoJob)
            /\ taken' = taken + 1 /\ record' = record
        BY <2>1 DEF Measure, Measured
      <3>2. taken + 1 <= taken + 1
        BY IdTypes
      <3> QED BY <1>2, <2>0, <3>1, <3>2
    <2>2. CASE HandOff(p)
      BY <1>2, <2>0, <2>2 DEF HandOff
    <2>3. CASE Save(p)
      BY <1>2, <2>0, <2>3 DEF Save, Leave
    <2>4. CASE Attest(p)
      BY <2>4 DEF Attest, held, IdsInv
    <2>5. CASE Wait(p)
      BY <1>2, <2>0, <2>5 DEF Wait
    <2>6. CASE Mismatch(p)
      BY <1>2, <2>0, <2>6 DEF Mismatch
    <2>7. CASE Run(p)
      <3>1. /\ \E rec, where : rec.id <= taken /\ Become(p, where, rec, plan[p])
            /\ taken' = taken /\ record' = record
        BY <2>0, <2>7 DEF Run, Merged
      <3> QED BY <1>2, <2>0, <3>1
    <2>8. CASE Refuse(p)
      BY <1>2, <2>0, <2>8 DEF Refuse, Leave
    <2>9. CASE SaveMerged(p)
      <3>1. CASE record' = mine[p] /\ Become(p, "clearing", mine[p], plan[p])
        BY <1>2, <2>0, <2>9, <3>1 DEF SaveMerged
      <3>2. CASE record' = record /\ Leave(p)
        BY <1>2, <2>0, <2>9, <3>2 DEF SaveMerged, Leave
      <3> QED BY <2>9, <3>1, <3>2 DEF SaveMerged
    <2>10. CASE Clear(p)
      BY <1>2, <2>0, <2>10 DEF Clear, Leave
    <2>11. CASE Crash(p)
      BY <1>2, <2>0, <2>11 DEF Crash, Leave
    <2> QED BY <2>1, <2>2, <2>3, <2>4, <2>5, <2>6, <2>7, <2>8, <2>9, <2>10, <2>11
  <1> QED BY <1>1, <1>3

\* The command that runs alone takes care of itself; the others are idle.
LEMMA MovesBecome ==
    ASSUME SoundInv, NEW p \in Procs, Alone(p), NEW where, NEW rec, NEW j,
           Become(p, where, rec, j), MovesAt(where, rec, record')
    PROVE  MovesInv'
  <1>1. at'[p] = where /\ mine'[p] = rec
    BY DEF Become, SoundInv
  <1>2. \A q \in Procs \ {p} : at'[q] = "idle"
    BY DEF Become, SoundInv, Alone, Idle
  <1>3. ASSUME NEW q \in Procs PROVE MovesAt(at'[q], mine'[q], record')
    BY <1>1, <1>2 DEF MovesAt
  <1>4. ASSUME NEW q \in Procs
        PROVE  MovesAt(at[q], mine[q], record)' <=> MovesAt(at'[q], mine'[q], record')
    BY DEF MovesAt
  <1> QED BY <1>3, <1>4 DEF MovesInv

LEMMA MovesStep ==
    SoundInv /\ CalmInv /\ IdsInv /\ MovesInv /\ [Next]_vars => MovesInv'
  <1> SUFFICES ASSUME SoundInv, CalmInv, IdsInv, MovesInv, [Next]_vars, calm'
               PROVE  MovesInv'
    BY DEF MovesInv
  <1>1. CASE UNCHANGED vars
    BY <1>1 DEF vars, held, MovesInv, MovesAt
  <1>2. CASE Next
    <2> PICK p \in Procs :
            \/ Measure(p) \/ HandOff(p) \/ Save(p) \/ Attest(p)
            \/ Wait(p) \/ Mismatch(p) \/ Run(p) \/ Refuse(p) \/ SaveMerged(p)
            \/ Clear(p) \/ Crash(p)
      BY <1>2 DEF Next
    <2>0. \A r, rec, where : where \notin {"handing off", "saving", "merged"}
                               => MovesAt(where, rec, r)
      BY DEF MovesAt
    <2>1. CASE Measure(p)
      <3>1. /\ Alone(p) /\ record' = record
            /\ \E rec : rec.id = taken + 1 /\ Become(p, "handing off", rec, NoJob)
        BY <2>1 DEF Measure, Measured
      <3>2. record.id < taken + 1
        BY IdTypes DEF IdsInv
      <3>3. ASSUME NEW rec, rec.id = taken + 1
            PROVE  MovesAt("handing off", rec, record')
        BY <3>1, <3>2, <3>3 DEF MovesAt
      <3> QED BY <3>1, <3>3, MovesBecome
    <2>2. CASE HandOff(p)
      <3>1. calm /\ ~Idle(p) /\ record' = record
        BY <2>2 DEF HandOff, Idle
      <3>2. MovesAt("saving", mine[p], record')
        BY <2>2, <3>1 DEF HandOff, MovesInv, MovesAt
      <3> QED BY <2>2, <3>1, <3>2, CalmIsAlone, MovesBecome DEF HandOff
    <2>3. CASE Save(p)
      <3>1. calm /\ ~Idle(p)
        BY <2>3 DEF Save, Idle
      <3> QED BY <2>0, <2>3, <3>1, CalmIsAlone, MovesBecome DEF Save, Leave
    <2>4. CASE Attest(p)
      BY <2>4 DEF Attest
    <2>5. CASE Wait(p)
      <3>1. calm /\ Alone(p) /\ Become(p, "waiting", NoRecord, job)
        BY <2>5 DEF Wait
      <3> QED BY <2>0, <3>1, MovesBecome
    <2>6. CASE Mismatch(p)
      <3>1. calm /\ ~Idle(p)
        BY <2>6 DEF Mismatch, Idle
      <3> QED BY <2>0, <2>6, <3>1, CalmIsAlone, MovesBecome DEF Mismatch
    <2>7. CASE Run(p)
      <3>1. calm /\ ~Idle(p) /\ record' = record /\ Alone(p)
        BY <2>7, CalmIsAlone DEF Run, Idle
      <3>2. PICK broken \in SUBSET (Fallible \intersect plan[p].spilled) :
              IF Accounts(record, plan[p], broken) /\ SamePolicy(record, plan[p])
              THEN Become(p, "merged", Merged(record, plan[p], broken), plan[p])
              ELSE Become(p, "refused", NoRecord, plan[p])
        BY <2>7 DEF Run
      <3>3. MovesAt("merged", Merged(record, plan[p], broken), record')
        BY <3>1 DEF MovesAt, Merged
      <3> QED BY <2>0, <3>1, <3>2, <3>3, MovesBecome
    <2>8. CASE Refuse(p)
      <3>1. calm /\ ~Idle(p)
        BY <2>8 DEF Refuse, Idle
      <3> QED BY <2>0, <2>8, <3>1, CalmIsAlone, MovesBecome DEF Refuse, Leave
    <2>9. CASE SaveMerged(p)
      <3>1. calm /\ ~Idle(p)
        BY <2>9 DEF SaveMerged, Idle
      <3> QED BY <2>0, <2>9, <3>1, CalmIsAlone, MovesBecome DEF SaveMerged, Leave
    <2>10. CASE Clear(p)
      <3>1. calm /\ ~Idle(p)
        BY <2>10 DEF Clear, Idle
      <3> QED BY <2>0, <2>10, <3>1, CalmIsAlone, MovesBecome DEF Clear, Leave
    <2>11. CASE Crash(p)
      BY <2>11 DEF Crash
    <2> QED BY <2>1, <2>2, <2>3, <2>4, <2>5, <2>6, <2>7, <2>8, <2>9, <2>10, <2>11
  <1> QED BY <1>1, <1>2

\* Left to itself, the stored record only moves on: measure replaces it by a
\* later one, wait by itself with its debts settled and no answer lost.
THEOREM RecordsMoveOn == Spec => RecordMovesOn
  <1> DEFINE Moves == calm /\ calm' /\ record' # record /\ record # NoRecord =>
                          \/ record'.id > record.id
                          \/ /\ record'.id = record.id
                             /\ record'.owed = {}
                             /\ record.answered \subseteq record'.answered
  <1>1. Init => IdsInv /\ MovesInv
    <2> SUFFICES ASSUME Init PROVE IdsInv /\ MovesInv
      OBVIOUS
    <2> QED BY DEF Init, IdsInv, MovesInv, NoRecord
  <1>2. SoundInv /\ MovesInv /\ [Next]_vars => [Moves]_vars
    <2> SUFFICES ASSUME SoundInv, MovesInv, Next, calm, record' # record,
                        record # NoRecord
                 PROVE  Moves
      BY DEF vars
    <2>1. PICK p \in Procs : Save(p) \/ SaveMerged(p)
      BY DEF Next, Measure, HandOff, Attest, Wait, Mismatch, Run, Refuse, Clear, Crash
    <2>2. CASE Save(p)
      <3>1. record' = mine[p] /\ at[p] = "saving"
        BY <2>2 DEF Save
      <3>2. record.id < mine[p].id
        BY <3>1 DEF MovesInv, MovesAt
      <3> QED BY <3>1, <3>2, IdTypes
    <2>3. CASE SaveMerged(p)
      <3>1. record' = mine[p] /\ at[p] = "merged"
        BY <2>3 DEF SaveMerged
      <3> QED BY <3>1 DEF MovesInv, MovesAt
    <2> QED BY <2>1, <2>2, <2>3
  <1> QED BY <1>1, <1>2, CalmAlways, IdsStep, MovesStep, PTL DEF Spec, RecordMovesOn
=============================================================================
