-------------------------- MODULE CloneIndex_proofs ---------------------------
(****************************************************************************)
(* A shared clone index changes no answer: for any processes, builds, files *)
(* and faults, what is on disk and what a run holds is what a build without *)
(* an index would have.  And the search of what a run holds is sound: what  *)
(* it calls a clone is one, it misses no copy in another file unless a      *)
(* window was saturated, and what it left out does not pass for complete.   *)
(*                                                                          *)
(* The search is taken from below: numbers and sequences in order; the      *)
(* rolling hash; what is read of an index; extension and matches; groups    *)
(* and the order they compete in; copies and where they begin; what a       *)
(* longer search would add.                                                 *)
(****************************************************************************)
EXTENDS CloneIndex, Induction

(* The life of a run, and that what it measures was asked of it.            *)
Stages == {"idle", "cold", "computed", "exists", "stealing", "creating", "held",
           "written", "published", "done", "failed"}

RunType(r) ==
    /\ r \in [pc : Stages, build : {r.build}, tree : {r.tree}, files : {r.files}]
    /\ r.pc # "idle" => /\ r.build \in Builds /\ r.tree \in Trees \cup Corpus
                        /\ r.files = Cold(r.build, r.tree)

Runs == DOMAIN program = Programs /\ \A p \in Programs : RunType(program[p])

DiskIsCold ==
    \A path \in DOMAIN disk.files :
        disk.files[path] = Entry(disk.regime, path, disk.files[path].blob)

ColdInv ==
    /\ IndexTypeOK
    /\ Runs
    /\ DiskIsCold

----------------------------------------------------------------------------
(* An entry carries the blob it was made of.                                *)
LEMMA EntryBlob ==
    ASSUME NEW regime, NEW path, NEW blob
    PROVE  Entry(regime, path, blob).blob = blob
BY DEF Entry

(* What is carried over from an index of the same regime is what would be   *)
(* computed again (index.rs, Index::update).                                *)
LEMMA UpdateIsCold ==
    ASSUME NEW build, NEW tree, DiskIsCold
    PROVE  Update(Loaded(build), build, tree) = Cold(build, tree)
<1>1. ASSUME NEW path \in Indexed(tree), Carried(Loaded(build), path, tree[path])
      PROVE  Loaded(build)[path] = Entry(build.regime, path, tree[path])
  <2>1. CASE LoadOutcome(build) = "loaded"
    <3>1. Loaded(build) = disk.files BY <2>1 DEF Loaded
    <3>2. disk.regime = build.regime BY <2>1 DEF LoadOutcome
    <3> QED BY <1>1, <3>1, <3>2 DEF Carried, DiskIsCold
  <2>2. CASE LoadOutcome(build) # "loaded"
    <3>1. Loaded(build) = <<>> BY <2>2 DEF Loaded
    <3>2. DOMAIN Loaded(build) = {} BY <3>1
    <3> QED BY <1>1, <3>2 DEF Carried
  <2> QED BY <2>1, <2>2
<1>2. \A path \in Indexed(tree) :
          (IF Carried(Loaded(build), path, tree[path]) THEN Loaded(build)[path]
           ELSE Entry(build.regime, path, tree[path])) = Entry(build.regime, path, tree[path])
  BY <1>1
<1> QED BY <1>2 DEF Update, Cold

(* An index that holds what a run computed is cold.                         *)
LEMMA ColdIsCold ==
    ASSUME NEW build, NEW tree, NEW path \in DOMAIN Cold(build, tree)
    PROVE  Cold(build, tree)[path] = Entry(build.regime, path, Cold(build, tree)[path].blob)
<1>1. Cold(build, tree)[path] = Entry(build.regime, path, tree[path])
  BY DEF Cold
<1> QED BY <1>1, EntryBlob

----------------------------------------------------------------------------
(* A run moves on, or is gone.                                              *)
LEMMA MovesKeepRuns ==
    ASSUME Runs, NEW p \in Programs, NEW pc \in Stages, program[p].pc # "idle", Moves(p, pc)
    PROVE  Runs'
<1>1. program' = [program EXCEPT ![p] = [program[p] EXCEPT !.pc = pc]]
  BY DEF Moves
<1>2. DOMAIN program' = Programs /\ program'[p] = [program[p] EXCEPT !.pc = pc]
      /\ \A q \in Programs \ {p} : program'[q] = program[q]
  BY <1>1 DEF Runs
<1>3. RunType(program[p]) BY DEF Runs
<1>4. RunType(program'[p]) BY <1>2, <1>3 DEF RunType
<1>5. \A q \in Programs : RunType(program'[q]) BY <1>2, <1>4 DEF Runs
<1> QED BY <1>2, <1>5 DEF Runs

LEMMA AsleepIsARun == RunType(Asleep)
BY DEF RunType, Asleep, Stages

LEMMA SleepKeepsRuns ==
    ASSUME Runs, NEW p \in Programs, program' = [program EXCEPT ![p] = Asleep]
    PROVE  Runs'
BY AsleepIsARun DEF Runs

----------------------------------------------------------------------------
LEMMA InitCold == IndexInit => ColdInv
<1> SUFFICES ASSUME IndexInit PROVE ColdInv
  OBVIOUS
<1>1. IndexTypeOK
  <2>1. faults \in 0..MaxFaults BY FaultsAssumption DEF IndexInit
  <2>2. temps \subseteq [by : Programs, live : BOOLEAN, stale : BOOLEAN] BY DEF IndexInit
  <2>3. disk.state = "absent" BY DEF IndexInit, Absent
  <2>4. indexLock = NoIndexLock BY DEF IndexInit
  <2> QED BY <2>1, <2>2, <2>3, <2>4 DEF IndexTypeOK
<1>2. DiskIsCold
  <2>1. disk.files = <<>> BY DEF IndexInit, Absent
  <2> QED BY <2>1 DEF DiskIsCold
<1>3. ASSUME NEW build \in Builds, NEW tree \in Corpus PROVE RunType(Disabled(build, tree))
  <2>1. Update(<<>>, build, tree) = Cold(build, tree)
    <3>1. \A path \in Indexed(tree) : ~Carried(<<>>, path, tree[path])
      BY DEF Carried
    <3> QED BY <3>1 DEF Update, Cold
  <2>2. Disabled(build, tree) = [pc |-> "cold", build |-> build, tree |-> tree,
                                 files |-> Cold(build, tree)]
    BY <2>1 DEF Disabled, Begun
  <2> QED BY <2>2 DEF RunType, Stages
<1>4. Runs
  <2>1. CASE program = [p \in Programs |-> Asleep]
    BY <2>1, AsleepIsARun DEF Runs
  <2>2. CASE program # [p \in Programs |-> Asleep]
    <3>1. PICK p \in Programs, build \in Builds, tree \in Corpus :
             program = [q \in Programs |-> IF q = p THEN Disabled(build, tree) ELSE Asleep]
      BY <2>2 DEF IndexInit
    <3>2. RunType(Disabled(build, tree)) BY <1>3
    <3> QED BY <3>1, <3>2, AsleepIsARun DEF Runs
  <2> QED BY <2>1, <2>2
<1> QED BY <1>1, <1>2, <1>4 DEF ColdInv

(* Types: the temporaries, the lock and the count of faults.                *)
LEMMA StepTypes ==
    ASSUME IndexTypeOK, [IndexNext]_indexVars
    PROVE  IndexTypeOK'
<1> DEFINE Temp == [by : Programs, live : BOOLEAN, stale : BOOLEAN]
<1> USE DEF IndexTypeOK
<1>1. Older \subseteq Temp BY DEF Older
<1>2. OlderLock \in {NoIndexLock, "fresh", "stale"} BY DEF OlderLock
<1>3. \A p \in Programs : Orphaned(p) \subseteq Temp BY DEF Orphaned
<1>a. FreshTemps \subseteq Temp BY DEF FreshTemps
<1>b. \A p \in Programs : Mine(p) \in Temp BY DEF Mine
<1>4. \A p \in Programs : FreshTemps \cup {Mine(p)} \subseteq Temp BY <1>a, <1>b
<1>c. \A p \in Programs : [Mine(p) EXCEPT !.live = FALSE] \in Temp BY DEF Mine
<1>5. \A p \in Programs : FreshTemps \cup {[Mine(p) EXCEPT !.live = FALSE]} \subseteq Temp BY <1>a, <1>c
<1>6. Fault => faults' \in 0..MaxFaults BY FaultsAssumption DEF Fault
<1>7. ASSUME NEW p \in Programs, Run(p) PROVE IndexTypeOK' BY <1>7 DEF Run, Load
<1>8. ASSUME NEW p \in Programs, Steps(p) PROVE IndexTypeOK'
  <2>1. CASE CreateIndexLock(p) BY <2>1 DEF CreateIndexLock
  <2>2. CASE LookAtLock(p) BY <2>2 DEF LookAtLock
  <2>3. CASE RemoveStaleLock(p) BY <2>3 DEF RemoveStaleLock
  <2>4. CASE CreateLockAgain(p) BY <2>4 DEF CreateLockAgain
  <2>5. CASE WritePending(p) BY <2>5, <1>4 DEF WritePending
  <2>6. CASE Publish(p) BY <2>6 DEF Publish
  <2>7. CASE ReleaseAndMeasure(p) BY <2>7 DEF ReleaseAndMeasure
  <2>8. CASE MeasureCold(p) BY <2>8 DEF MeasureCold
  <2>9. CASE Exit(p) BY <2>9 DEF Exit
  <2> QED BY <1>8, <2>1, <2>2, <2>3, <2>4, <2>5, <2>6, <2>7, <2>8, <2>9 DEF Steps
<1>9. ASSUME NEW p \in Programs, PendingFails(p) PROVE IndexTypeOK' BY <1>9, <1>5, <1>6 DEF PendingFails
<1>10. ASSUME NEW p \in Programs, ProgramDies(p) PROVE IndexTypeOK' BY <1>10, <1>3, <1>6 DEF ProgramDies
<1>11. CASE TimePasses BY <1>11, <1>1, <1>2 DEF TimePasses
<1>12. CASE Stall BY <1>12, <1>1, <1>2, <1>6 DEF Stall
<1>13. CASE Tear
  <2>1. disk'.state \in {"torn", "garbage"} BY <1>13 DEF Tear
  <2> QED BY <1>13, <2>1, <1>6 DEF Tear
<1>14. CASE UNCHANGED indexVars BY <1>14 DEF indexVars
<1> QED BY <1>7, <1>8, <1>9, <1>10, <1>11, <1>12, <1>13, <1>14 DEF IndexNext

(* One run takes a step: what the others and the file hold is not touched,  *)
(* but by a publication.                                                    *)
LEMMA StepKeepsCold ==
    ASSUME ColdInv, [IndexNext]_indexVars
    PROVE  Runs' /\ DiskIsCold'
<1> USE DEF ColdInv
<1>0. ASSUME UNCHANGED disk PROVE DiskIsCold'
  BY <1>0 DEF DiskIsCold
<1>1. ASSUME NEW p \in Programs, Run(p) PROVE Runs' /\ DiskIsCold'
  <2>1. PICK build \in Builds, tree \in Trees : Load(p, build, tree) BY <1>1 DEF Run
  <2>2. Begun("computed", build, tree, Loaded(build))
          = [pc |-> "computed", build |-> build, tree |-> tree, files |-> Cold(build, tree)]
    BY UpdateIsCold DEF Begun
  <2>3. RunType(Begun("computed", build, tree, Loaded(build))) BY <2>2 DEF RunType, Stages
  <2>4. Runs' BY <2>1, <2>3 DEF Load, Runs
  <2> QED BY <2>1, <2>4, <1>0 DEF Load
<1>2. ASSUME NEW p \in Programs, Steps(p) PROVE Runs' /\ DiskIsCold'
  <2> USE DEF At
  <2>1. CASE CreateIndexLock(p)
    <3>1. CASE Moves(p, "held") BY <2>1, <3>1, <1>0, MovesKeepRuns DEF CreateIndexLock, Stages
    <3>2. CASE Moves(p, "exists") BY <2>1, <3>2, <1>0, MovesKeepRuns DEF CreateIndexLock, Stages
    <3> QED BY <2>1, <3>1, <3>2 DEF CreateIndexLock
  <2>2. CASE LookAtLock(p)
    <3>1. PICK pc \in {"stealing", "failed"} : Moves(p, pc) BY <2>2 DEF LookAtLock
    <3> QED BY <2>2, <3>1, <1>0, MovesKeepRuns DEF LookAtLock, Stages
  <2>3. CASE RemoveStaleLock(p)
    <3>1. PICK pc \in {"failed", "creating"} : Moves(p, pc) BY <2>3 DEF RemoveStaleLock
    <3> QED BY <2>3, <3>1, <1>0, MovesKeepRuns DEF RemoveStaleLock, Stages
  <2>4. CASE CreateLockAgain(p)
    <3>1. CASE Moves(p, "held") BY <2>4, <3>1, <1>0, MovesKeepRuns DEF CreateLockAgain, Stages
    <3>2. CASE Moves(p, "failed") BY <2>4, <3>2, <1>0, MovesKeepRuns DEF CreateLockAgain, Stages
    <3> QED BY <2>4, <3>1, <3>2 DEF CreateLockAgain
  <2>5. CASE WritePending(p) BY <2>5, <1>0, MovesKeepRuns DEF WritePending, Stages
  <2>6. CASE Publish(p)
    <3>1. CASE MineOf(p) = {} BY <2>6, <3>1, <1>0, MovesKeepRuns DEF Publish, Stages
    <3>2. CASE MineOf(p) # {}
      <4>1. disk' = [state |-> "whole", version |-> program[p].build.version,
                     regime |-> program[p].build.regime, files |-> program[p].files]
        BY <2>6, <3>2 DEF Publish
      <4>2. program[p].files = Cold(program[p].build, program[p].tree)
        BY <2>6 DEF Publish, Runs, RunType
      <4>3. disk'.files = Cold(program[p].build, program[p].tree) /\ disk'.regime = program[p].build.regime
        BY <4>1, <4>2
      <4>4. DiskIsCold' BY <4>3, ColdIsCold DEF DiskIsCold
      <4> QED BY <2>6, <3>2, <4>4, MovesKeepRuns DEF Publish, Stages
    <3> QED BY <3>1, <3>2
  <2>7. CASE ReleaseAndMeasure(p) BY <2>7, <1>0, MovesKeepRuns DEF ReleaseAndMeasure, Stages
  <2>8. CASE MeasureCold(p) BY <2>8, <1>0, MovesKeepRuns DEF MeasureCold, Stages
  <2>9. CASE Exit(p) BY <2>9, <1>0, SleepKeepsRuns DEF Exit
  <2> QED BY <1>2, <2>1, <2>2, <2>3, <2>4, <2>5, <2>6, <2>7, <2>8, <2>9 DEF Steps
<1>3. ASSUME NEW p \in Programs, PendingFails(p) PROVE Runs' /\ DiskIsCold'
  BY <1>3, <1>0, MovesKeepRuns DEF PendingFails, Stages, At
<1>4. ASSUME NEW p \in Programs, ProgramDies(p) PROVE Runs' /\ DiskIsCold'
  BY <1>4, <1>0, SleepKeepsRuns DEF ProgramDies
<1>5. CASE TimePasses BY <1>5, <1>0 DEF TimePasses, Runs
<1>6. CASE Stall BY <1>6, <1>0 DEF Stall, Runs
<1>7. CASE Tear
  <2>1. disk'.files = disk.files /\ disk'.regime = disk.regime BY <1>7 DEF Tear
  <2> QED BY <1>7, <2>1 DEF Tear, Runs, DiskIsCold
<1>8. CASE UNCHANGED indexVars BY <1>8, <1>0 DEF indexVars, Runs
<1> QED BY <1>1, <1>2, <1>3, <1>4, <1>5, <1>6, <1>7, <1>8 DEF IndexNext

(* Nobody can tell from an answer that there is an index.                   *)
LEMMA ColdIsTransparent == ColdInv => IndexIsTransparent
<1> SUFFICES ASSUME ColdInv PROVE IndexIsTransparent
  OBVIOUS
<1>1. IndexIsCold
  BY DEF ColdInv, Runs, RunType, DiskIsCold, IndexIsCold, At
<1>2. ASSUME NEW p \in Programs, At(p, "done"), ~Apart(p)
      PROVE  Results(program[p].files, program[p].tree) = ColdResults[program[p].build][program[p].tree]
  <2>1. /\ program[p].build \in Builds /\ program[p].tree \in Trees
        /\ program[p].files = Cold(program[p].build, program[p].tree)
    BY <1>2 DEF ColdInv, Runs, RunType, At, Apart
  <2> QED BY <2>1 DEF ColdResults
<1>3. WarmIsCold BY <1>2 DEF WarmIsCold
<1> QED BY <1>1, <1>3 DEF IndexIsTransparent, ColdInv

(* For any processes, builds, trees and faults: types are kept, an index    *)
(* file and a run hold what a cold build would have, and a run that used    *)
(* the index answers what one without it answers (index.rs; engine.rs,      *)
(* for_change).                                                             *)
THEOREM IndexChangesNothing == IndexSpec => []IndexIsTransparent
<1>1. IndexInit => ColdInv BY InitCold
<1>2. ColdInv /\ [IndexNext]_indexVars => ColdInv'
  BY StepTypes, StepKeepsCold DEF ColdInv
<1>3. ColdInv => IndexIsTransparent BY ColdIsTransparent
<1> QED BY <1>1, <1>2, <1>3, PTL DEF IndexSpec

----------------------------------------------------------------------------
(* Occurrences, in order.                                                   *)
InOrderOf(S, order) ==
    /\ order \in [1 .. Cardinality(S) -> S] /\ Cardinality(S) \in Nat
    /\ \A i, j \in 1 .. Cardinality(S) : i < j => Before(order[i], order[j])
    /\ \A a \in S : \E i \in 1 .. Cardinality(S) : order[i] = a

(* InOrder lists a set of places in order.                                  *)
LEMMA PlacesAreOrdered ==
    ASSUME NEW S \in SUBSET (Nat \X Nat), IsFiniteSet(S)
    PROVE  InOrderOf(S, InOrder(S))
<1> DEFINE before == [a \in S |-> {b \in S : Before(b, a)}]
           pick(n) == CHOOSE a \in S : Cardinality({b \in S : Before(b, a)}) = n - 1
           order == [n \in 1 .. Cardinality(S) |-> pick(n)]
<1>1. StrictOrder(S, before)
    <2>1. \A a \in S : a[1] \in Nat /\ a[2] \in Nat /\ a = <<a[1], a[2]>>
        OBVIOUS
    <2>2. \A a \in S : ~ Before(a, a)
        BY <2>1 DEF Before
    <2>3. ASSUME NEW a \in S, NEW b \in S, NEW c \in S, Before(b, a), Before(c, b) PROVE Before(c, a)
        BY <2>1, <2>3 DEF Before
    <2>4. ASSUME NEW a \in S, NEW b \in S, a # b PROVE Before(a, b) \/ Before(b, a)
        <3>1. a[1] # b[1] \/ a[2] # b[2]
            BY <2>1, <2>4
        <3> QED BY <2>1, <3>1 DEF Before
    <2> QED BY <2>2, <2>3, <2>4 DEF StrictOrder
<1>2. InOrder(S) = <<>> \o order
    BY DEF InOrder, Sorted
<1>3. InRankOrder(S, before, order) /\ <<>> \o order = order /\ Cardinality(S) \in Nat
    <2>1. ASSUME NEW n \in 1 .. Cardinality(S)
          PROVE  order[n] \in S /\ Cardinality(before[order[n]]) = n - 1
        <3>1. PICK a \in S : Cardinality(before[a]) = n - 1
            <4> HIDE DEF before
            <4> QED BY <1>1, RanksAreTaken
        <3>2. Cardinality({b \in S : Before(b, a)}) = n - 1
            BY <3>1
        <3>3. order[n] \in S /\ Cardinality({b \in S : Before(b, order[n])}) = n - 1
            BY <3>2
        <3> HIDE DEF order
        <3> QED BY <3>3
    <2>2. order \in [1 .. Cardinality(S) -> S]
        <3> HIDE DEF pick
        <3> QED BY <2>1
    <2> HIDE DEF before, order
    <2> QED BY <1>1, <2>1, <2>2, RanksOrder
<1>4. ASSUME NEW i \in 1 .. Cardinality(S), NEW j \in 1 .. Cardinality(S), i < j
      PROVE  Before(order[i], order[j])
    <2>1. order[j] \in S /\ order[i] \in before[order[j]]
        BY <1>3, <1>4 DEF InRankOrder
    <2> HIDE DEF order
    <2> QED BY <2>1
<1> HIDE DEF order
<1> QED BY <1>2, <1>3, <1>4 DEF InRankOrder, InOrderOf

(* The files that are searched are paths of the index.                      *)
LEMMA FilesAreOrdered ==
    ASSUME NEW index, NEW paths, IsFiniteSet(paths), paths \subseteq Nat
    PROVE  /\ Cardinality(paths \cap DOMAIN index) \in Nat
           /\ IndexedFiles(index, paths) \in [1 .. Cardinality(paths \cap DOMAIN index) -> paths \cap DOMAIN index]
<1> DEFINE S == paths \cap DOMAIN index
           before == [a \in S |-> {b \in S : b < a}]
           pick(n) == CHOOSE a \in S : Cardinality({b \in S : b < a}) = n - 1
           order == [n \in 1 .. Cardinality(S) |-> pick(n)]
<1>1. IsFiniteSet(S) /\ S \subseteq Nat
    BY FS_Intersection
<1>2. StrictOrder(S, before)
    <2>1. \A a \in S : a \in Nat
        BY <1>1
    <2> HIDE DEF S
    <2>2. ASSUME NEW a \in S, NEW b \in S, b < a PROVE before[b] \subseteq before[a]
        BY <2>1, <2>2
    <2>3. ASSUME NEW a \in S, NEW b \in S, a # b PROVE a < b \/ b < a
        BY <2>1, <2>3
    <2>4. \A a \in S : ~ (a < a)
        BY <2>1
    <2>5. before \in [S -> SUBSET S] /\ \A a \in S : before[a] = {b \in S : b < a}
        OBVIOUS
    <2> HIDE DEF before
    <2> QED BY <2>2, <2>3, <2>4, <2>5 DEF StrictOrder
<1>3. IndexedFiles(index, paths) = <<>> \o order
    BY DEF IndexedFiles, Sorted
<1>4. InRankOrder(S, before, order) /\ <<>> \o order = order /\ Cardinality(S) \in Nat
    <2>1. ASSUME NEW n \in 1 .. Cardinality(S)
          PROVE  order[n] \in S /\ Cardinality(before[order[n]]) = n - 1
        <3>1. PICK a \in S : Cardinality(before[a]) = n - 1
            <4> HIDE DEF S, before
            <4> QED BY <1>1, <1>2, RanksAreTaken
        <3>2. Cardinality({b \in S : b < a}) = n - 1
            BY <3>1
        <3>3. order[n] \in S /\ Cardinality({b \in S : b < order[n]}) = n - 1
            BY <3>2
        <3> HIDE DEF order
        <3> QED BY <3>3
    <2>2. order \in [1 .. Cardinality(S) -> S]
        <3> HIDE DEF pick
        <3> QED BY <2>1
    <2> HIDE DEF S, before, order
    <2> QED BY <1>1, <1>2, <2>1, <2>2, RanksOrder
<1> QED BY <1>3, <1>4 DEF InRankOrder

(* Arithmetic modulo the modulus of the hash.                               *)
Congruent(a, b) == \E q \in Int : a = b + q * HashModulus

(* A remainder is small and congruent to what it was taken of.              *)
LEMMA Remainder ==
    ASSUME NEW a \in Int
    PROVE  a % HashModulus \in 0 .. (HashModulus - 1) /\ Congruent(a % HashModulus, a)
<1>1. HashModulus \in Nat \ {0}
    BY WindowsAssumption
<1>2. a % HashModulus \in 0 .. (HashModulus - 1) /\ a \div HashModulus \in Int
      /\ a = HashModulus * (a \div HashModulus) + (a % HashModulus)
    BY <1>1
<1>3. - (a \div HashModulus) \in Int /\ a % HashModulus = a + (- (a \div HashModulus)) * HashModulus
    BY <1>1, <1>2
<1> QED BY <1>2, <1>3 DEF Congruent

(* Small numbers are congruent only to themselves.                          *)
LEMMA SmallCongruent ==
    ASSUME NEW a \in 0 .. (HashModulus - 1), NEW b \in 0 .. (HashModulus - 1), Congruent(a, b)
    PROVE  a = b
<1>1. HashModulus \in Nat \ {0}
    BY WindowsAssumption
<1>2. PICK q \in Int : a = b + q * HashModulus
    BY DEF Congruent
<1>3. CASE q = 0
    BY <1>1, <1>2, <1>3
<1>4. CASE q >= 1
    <2>1. q * HashModulus >= HashModulus
        BY <1>1, <1>4
    <2> QED BY <1>1, <1>2, <2>1
<1>5. CASE q <= -1
    <2>1. q * HashModulus <= - HashModulus
        BY <1>1, <1>5
    <2> QED BY <1>1, <1>2, <2>1
<1> QED BY <1>3, <1>4, <1>5

(* Congruence is transitive.                                                *)
LEMMA CongruentTrans ==
    ASSUME NEW a \in Int, NEW b \in Int, NEW c \in Int, Congruent(a, b), Congruent(b, c)
    PROVE  Congruent(a, c)
<1>1. HashModulus \in Int
    BY WindowsAssumption
<1>2. PICK q \in Int : a = b + q * HashModulus
    BY DEF Congruent
<1>3. PICK r \in Int : b = c + r * HashModulus
    BY DEF Congruent
<1>4. q + r \in Int /\ a = c + (q + r) * HashModulus
    BY <1>1, <1>2, <1>3
<1> QED BY <1>4 DEF Congruent

(* Congruence is symmetric.                                                 *)
LEMMA CongruentSym ==
    ASSUME NEW a \in Int, NEW b \in Int, Congruent(a, b)
    PROVE  Congruent(b, a)
<1>1. HashModulus \in Int
    BY WindowsAssumption
<1>2. PICK q \in Int : a = b + q * HashModulus
    BY DEF Congruent
<1>4. - q \in Int /\ b = a + (- q) * HashModulus
    BY <1>1, <1>2
<1> QED BY <1>4 DEF Congruent

(* Congruence survives one step of the hash.                                *)
LEMMA CongruentStep ==
    ASSUME NEW a \in Int, NEW b \in Int, NEW x \in Int, NEW y \in Int, Congruent(a, b)
    PROVE  Congruent(a * x + y, b * x + y)
<1>1. HashModulus \in Int
    BY WindowsAssumption
<1>2. PICK q \in Int : a = b + q * HashModulus
    BY DEF Congruent
<1>3. q * x \in Int
    BY <1>2
<1>4. a * x + y = b * x + y + (q * x) * HashModulus
    BY <1>1, <1>2
<1> QED BY <1>3, <1>4 DEF Congruent

(* The powers of the base, one from another.                                *)
LEMMA PowerUnrolled ==
    /\ Power \in [0 .. WindowTokens -> Int] /\ Power[0] = 1
    /\ \A n \in 1 .. WindowTokens : Power[n] = (Power[n - 1] * Base) % HashModulus
<1> DEFINE step == [p \in (1 .. WindowTokens) \X Int |-> (p[2] * Base) % HashModulus]
           IsPower(f) == f = [n \in 0 .. WindowTokens |->
                                IF n = 0 THEN 1 ELSE (f[n - 1] * Base) % HashModulus]
<1>1. WindowTokens \in Nat /\ HashModulus \in Nat \ {0}
    BY WindowsAssumption
<1>2. step \in [(1 .. WindowTokens) \X Int -> Int]
    BY <1>1 DEF Base
<1>3. PICK g \in [0 .. WindowTokens -> Int] :
          g[0] = 1 /\ \A n \in 1 .. WindowTokens : g[n] = step[<<n, g[n - 1]>>]
    <2> DEFINE T == Int
    <2>1. 1 \in T /\ step \in [(1 .. WindowTokens) \X T -> T]
        BY <1>2
    <2> HIDE DEF step, T
    <2>2. \E g : Unrolls(g, T, 1, WindowTokens, step)
        BY <1>1, <2>1, Recursion
    <2> QED BY <2>2 DEF T, Unrolls
<1>4. ASSUME NEW n \in 1 .. WindowTokens PROVE g[n] = (g[n - 1] * Base) % HashModulus
    <2> HIDE DEF step
    <2>0. n - 1 \in 0 .. WindowTokens
        BY <1>1
    <2>1. g[n] = step[<<n, g[n - 1]>>] /\ g[n - 1] \in Int
        BY <1>3, <2>0
    <2> USE DEF step
    <2>2. <<n, g[n - 1]>> \in (1 .. WindowTokens) \X Int
        BY <2>1
    <2> QED BY <2>1, <2>2
<1>5. IsPower(g)
    <2> HIDE DEF step
    <2> QED BY <1>1, <1>3, <1>4
<1>6. IsPower(Power)
    BY <1>5 DEF Power
<1>7. DOMAIN Power = 0 .. WindowTokens /\ Power[0] = 1
    BY <1>1, <1>6
<1>8. ASSUME NEW n \in 1 .. WindowTokens PROVE Power[n] = (Power[n - 1] * Base) % HashModulus
    <2>1. n \in 0 .. WindowTokens /\ n # 0
        OBVIOUS
    <2> QED BY <1>6, <2>1
<1>9. 0 .. WindowTokens \subseteq {n \in 0 .. WindowTokens : Power[n] \in Int}
    <2> DEFINE S == {n \in 0 .. WindowTokens : Power[n] \in Int}
    <2>1. 0 \in S
        BY <1>1, <1>7
    <2>2. ASSUME NEW n \in 1 .. WindowTokens, n - 1 \in S PROVE n \in S
        BY <2>2, <1>1, <1>8 DEF Base
    <2> HIDE DEF S
    <2>3. 0 .. WindowTokens \subseteq S
        BY <1>1, <2>1, <2>2, EveryNumberTo
    <2> QED BY <2>3 DEF S
<1>10. Power = [n \in 0 .. WindowTokens |-> Power[n]]
    BY <1>6, <1>7
<1> QED BY <1>7, <1>8, <1>9, <1>10

Hashing(symbols, f) ==
    /\ f \in [0 .. Len(symbols) -> Int] /\ f[0] = 0
    /\ \A k \in 1 .. Len(symbols) : f[k] = (f[k - 1] * Base + symbols[k]) % HashModulus

(* One step of the hash is a number.                                        *)
LEMMA HashStep ==
    ASSUME NEW x \in Int, NEW y \in Int
    PROVE  (x * Base + y) % HashModulus \in Int
<1>1. HashModulus \in Nat \ {0}
    BY WindowsAssumption
<1>2. Base \in Int
    BY DEF Base
<1>3. ASSUME NEW z \in Int PROVE z % HashModulus \in Int
    BY <1>1
<1>4. x * Base + y \in Int
    BY <1>2
<1> QED BY <1>3, <1>4

(* A hash is what its recursion reaches.                                    *)
LEMMA HashUnrolled ==
    ASSUME NEW symbols \in Seq(Nat)
    PROVE  \E f : Hashing(symbols, f) /\ HashOf(symbols) = f[Len(symbols)]
<1> DEFINE last == Len(symbols)
           step == [p \in (1 .. last) \X Int |-> (p[2] * Base + symbols[p[1]]) % HashModulus]
           IsHash(f) == f = [i \in 0 .. Len(symbols) |->
                                IF i = 0 THEN 0 ELSE (f[i - 1] * Base + symbols[i]) % HashModulus]
<1>1. last \in Nat /\ HashModulus \in Nat \ {0}
    BY WindowsAssumption
<1>2. step \in [(1 .. last) \X Int -> Int]
    <2>1. \A p \in (1 .. last) \X Int : symbols[p[1]] \in Nat /\ p[2] \in Int
        OBVIOUS
    <2> HIDE DEF last
    <2>2. \A p \in (1 .. last) \X Int : (p[2] * Base + symbols[p[1]]) % HashModulus \in Int
        <3> TAKE p \in (1 .. last) \X Int
        <3>1. symbols[p[1]] \in Int /\ p[2] \in Int
            BY <2>1
        <3> QED BY <3>1, HashStep
    <2> QED BY <2>2
<1>3. PICK g \in [0 .. last -> Int] :
          g[0] = 0 /\ \A n \in 1 .. last : g[n] = step[<<n, g[n - 1]>>]
    <2> DEFINE T == Int
    <2>1. 0 \in T /\ step \in [(1 .. last) \X T -> T]
        BY <1>2
    <2> HIDE DEF step, last, T
    <2>2. \E g : Unrolls(g, T, 0, last, step)
        BY <1>1, <2>1, Recursion
    <2> QED BY <2>2 DEF T, Unrolls
<1>4. ASSUME NEW n \in 1 .. last PROVE g[n] = (g[n - 1] * Base + symbols[n]) % HashModulus
    <2> HIDE DEF step
    <2>0. n - 1 \in 0 .. last
        BY <1>1
    <2>1. g[n] = step[<<n, g[n - 1]>>] /\ g[n - 1] \in Int
        BY <1>3, <2>0
    <2> USE DEF step
    <2>2. <<n, g[n - 1]>> \in (1 .. last) \X Int
        BY <2>1
    <2> QED BY <2>1, <2>2
<1>5. IsHash(g)
    <2> HIDE DEF step
    <2> QED BY <1>1, <1>3, <1>4
<1>6. PICK f : IsHash(f) /\ HashOf(symbols) = f[last]
    <2>1. \E f : IsHash(f)
        BY <1>5
    <2> QED BY <2>1 DEF HashOf
<1>7. DOMAIN f = 0 .. last /\ f[0] = 0 /\ f = [n \in 0 .. last |-> f[n]]
    BY <1>1, <1>6
<1>8. ASSUME NEW n \in 1 .. last PROVE f[n] = (f[n - 1] * Base + symbols[n]) % HashModulus
    <2>1. n \in 0 .. last /\ n # 0
        OBVIOUS
    <2> QED BY <1>6, <2>1
<1>9. 0 .. last \subseteq {n \in 0 .. last : f[n] \in Int}
    <2> DEFINE S == {n \in 0 .. last : f[n] \in Int}
    <2>1. 0 \in S
        BY <1>1, <1>7
    <2>2. ASSUME NEW n \in 1 .. last, n - 1 \in S PROVE n \in S
        <3>1. symbols[n] \in Int /\ f[n - 1] \in Int /\ n \in 0 .. last
            BY <2>2
        <3>2. (f[n - 1] * Base + symbols[n]) % HashModulus \in Int
            BY <3>1, HashStep
        <3>3. f[n] = (f[n - 1] * Base + symbols[n]) % HashModulus
            BY <1>8
        <3> HIDE DEF last
        <3> QED BY <3>1, <3>2, <3>3
    <2> HIDE DEF S, last
    <2>3. 0 .. last \subseteq S
        BY <1>1, <2>1, <2>2, EveryNumberTo
    <2> QED BY <2>3 DEF S
<1> QED BY <1>6, <1>7, <1>8, <1>9 DEF Hashing

(* A window's hash from that of the one before it (fingerprint.rs, windows). *)
LEMMA WindowShifts ==
    ASSUME NEW s \in Seq(Nat), NEW t \in Seq(Nat), Len(s) = WindowTokens, Len(t) = WindowTokens,
           \A k \in 1 .. (WindowTokens - 1) : t[k] = s[k + 1]
    PROVE  HashOf(t) = ((HashOf(s) - s[1] * Power[WindowTokens - 1]) * Base + t[WindowTokens]) % HashModulus
<1> DEFINE w == WindowTokens
<1>1. w \in Nat \ {0} /\ HashModulus \in Nat \ {0}
    BY WindowsAssumption
<1>2. PICK f \in [0 .. w -> Int] :
              /\ f[0] = 0 /\ HashOf(s) = f[w]
              /\ \A k \in 1 .. w : f[k] = (f[k - 1] * Base + s[k]) % HashModulus
    <2>1. PICK h : Hashing(s, h) /\ HashOf(s) = h[Len(s)]
        BY HashUnrolled
    <2> QED BY <2>1 DEF Hashing
<1>3. PICK g \in [0 .. w -> Int] :
              /\ g[0] = 0 /\ HashOf(t) = g[w]
              /\ \A k \in 1 .. w : g[k] = (g[k - 1] * Base + t[k]) % HashModulus
    <2>1. PICK h : Hashing(t, h) /\ HashOf(t) = h[Len(t)]
        BY HashUnrolled
    <2> QED BY <2>1 DEF Hashing
<1>4. /\ Power \in [0 .. w -> Int] /\ Power[0] = 1
      /\ \A n \in 1 .. w : Power[n] = (Power[n - 1] * Base) % HashModulus
    BY PowerUnrolled
<1>a. \A k \in 1 .. w : s[k] \in Nat /\ t[k] \in Nat
    OBVIOUS
<1>b. 1 \in 1 .. w /\ w \in 1 .. w /\ w - 1 \in 0 .. w
    BY <1>1
<1> DEFINE S == {k \in 0 .. (w - 1) : Congruent(g[k], f[k + 1] - s[1] * Power[k])}
<1>5. 0 \in S
    <2>1. f[1] = (0 * Base + s[1]) % HashModulus
        BY <1>1, <1>2
    <2>2. 0 * Base + s[1] = s[1]
        BY <1>a, <1>b DEF Base
    <2>3. Congruent(f[1], s[1])
        BY <2>1, <2>2, <1>a, <1>b, Remainder
    <2>4. PICK q \in Int : f[1] = s[1] + q * HashModulus
        BY <2>3 DEF Congruent
    <2>5. - q \in Int /\ 0 = (f[1] - s[1] * 1) + (- q) * HashModulus
        <3>1. f[1] \in Int /\ s[1] \in Int
            BY <1>1, <1>2, <1>a, <1>b
        <3>2. ASSUME NEW u \in Int, NEW v \in Int, u = v + q * HashModulus
              PROVE  0 = (u - v * 1) + (- q) * HashModulus
            <4>1. (- q) * HashModulus = -(q * HashModulus) /\ q * HashModulus \in Int
                BY <1>1
            <4> DEFINE z == q * HashModulus
            <4>2. z \in Int /\ u = v + z /\ (- q) * HashModulus = - z
                BY <4>1, <3>2
            <4> HIDE DEF z
            <4> QED BY <4>2
        <3> QED BY <3>1, <3>2, <2>4
    <2>6. Congruent(0, f[1] - s[1] * 1)
        BY <2>5 DEF Congruent
    <2> QED BY <2>6, <1>1, <1>3, <1>4
<1>6. ASSUME NEW k \in 1 .. (w - 1), k - 1 \in S PROVE k \in S
    <2> DEFINE s1 == s[1]  P == Power[k - 1]  F == f[k]  G == g[k - 1]  x == s[k + 1]
    <2>1. k \in 1 .. w /\ k + 1 \in 1 .. w /\ k - 1 \in 0 .. w /\ k - 1 + 1 = k /\ k \in 0 .. w /\ k + 1 - 1 = k
        BY <1>1
    <2>2. s1 \in Int /\ P \in Int /\ F \in Int /\ G \in Int /\ x \in Int
        <3>1. s[1] \in Int /\ s[k + 1] \in Int
            BY <2>1, <1>a, <1>b
        <3>2. Power[k - 1] \in Int /\ f[k] \in Int /\ g[k - 1] \in Int
            BY <2>1, <1>2, <1>3, <1>4
        <3> QED BY <3>1, <3>2
    <2>3. g[k] = (G * Base + x) % HashModulus
        BY <2>1, <1>3
    <2>4. f[k + 1] = (F * Base + x) % HashModulus
        BY <2>1, <1>2
    <2>5. Power[k] = (P * Base) % HashModulus
        BY <2>1, <1>4
    <2>6. Congruent(G, F - s1 * P)
        BY <1>6, <2>1
    <2> HIDE DEF s1, P, F, G, x
    <2>7. F - s1 * P \in Int /\ G * Base + x \in Int /\ F * Base + x \in Int /\ P * Base \in Int
          /\ (F - s1 * P) * Base + x \in Int
        BY <2>2 DEF Base
    <2>8. PICK q1 \in Int : f[k + 1] = F * Base + x + q1 * HashModulus
        BY <2>4, <2>7, Remainder DEF Congruent
    <2>9. PICK q2 \in Int : Power[k] = P * Base + q2 * HashModulus
        BY <2>5, <2>7, Remainder DEF Congruent
    <2>10. Congruent((F - s1 * P) * Base + x, f[k + 1] - s1 * Power[k])
        <3>1. s1 * q2 \in Int /\ s1 * q2 - q1 \in Int
            BY <2>2
        <3>2. s1 * Power[k] = s1 * P * Base + (s1 * q2) * HashModulus
            <4> DEFINE Q == q2 * HashModulus  R == P * Base
            <4>1. Q \in Int /\ R \in Int /\ Power[k] = R + Q
                BY <2>2, <2>9, <1>1 DEF Base
            <4>2. s1 * Q = (s1 * q2) * HashModulus
                BY <2>2, <1>1
            <4>3. s1 * R = s1 * P * Base
                BY <2>2 DEF Base
            <4> HIDE DEF Q, R
            <4>4. s1 * (R + Q) = s1 * R + s1 * Q
                BY <2>2, <4>1
            <4> QED BY <4>1, <4>2, <4>3, <4>4
        <3>3. (F - s1 * P) * Base = F * Base - s1 * P * Base
            BY <2>2 DEF Base
        <3>a. s1 * P * Base \in Int /\ F * Base \in Int /\ (s1 * q2) * HashModulus \in Int /\ q1 * HashModulus \in Int
            BY <2>2, <1>1, <3>1 DEF Base
        <3>b. (s1 * q2 - q1) * HashModulus = (s1 * q2) * HashModulus - q1 * HashModulus
            BY <3>1, <1>1
        <3>4. (F - s1 * P) * Base + x = (f[k + 1] - s1 * Power[k]) + (s1 * q2 - q1) * HashModulus
            <4> DEFINE U == s1 * P * Base  V == F * Base  X == (s1 * q2) * HashModulus
                       Y == q1 * HashModulus
            <4>1. U \in Int /\ V \in Int /\ X \in Int /\ Y \in Int
                BY <3>a
            <4>2. s1 * Power[k] = U + X /\ (F - s1 * P) * Base = V - U
                  /\ (s1 * q2 - q1) * HashModulus = X - Y /\ f[k + 1] = V + x + Y
                BY <3>2, <3>3, <3>b, <2>8
            <4> HIDE DEF U, V, X, Y
            <4>3. (V - U) + x = ((V + x + Y) - (U + X)) + (X - Y)
                BY <4>1, <2>2
            <4> QED BY <4>2, <4>3
        <3> QED BY <3>1, <3>4 DEF Congruent
    <2>11. Congruent(G * Base + x, (F - s1 * P) * Base + x)
        <3>1. Base \in Int
            BY DEF Base
        <3> QED BY <2>2, <2>6, <2>7, <3>1, CongruentStep
    <2>12. g[k] \in Int /\ f[k + 1] - s1 * Power[k] \in Int
        <3>1. g[k] \in Int
            BY <2>1, <1>3
        <3>2. f[k + 1] \in Int
            BY <2>1, <1>2, <1>1
        <3>3. Power[k] \in Int
            BY <2>1, <1>4
        <3>4. s1 * Power[k] \in Int
            BY <3>3, <2>2
        <3>5. ASSUME NEW u \in Int, NEW v \in Int PROVE u - v \in Int
            OBVIOUS
        <3> QED BY <3>1, <3>2, <3>4, <3>5
    <2>13. Congruent(g[k], G * Base + x)
        BY <2>3, <2>7, Remainder
    <2>14. Congruent(g[k], f[k + 1] - s1 * Power[k])
        BY <2>7, <2>10, <2>11, <2>12, <2>13, CongruentTrans
    <2> QED BY <2>14 DEF s1
<1>7. w - 1 \in S
    <2>1. 0 .. (w - 1) \subseteq S
        <3>1. w - 1 \in Nat
            BY <1>1
        <3> HIDE DEF S, w
        <3> QED BY <3>1, <1>5, <1>6, EveryNumberTo
    <2> QED BY <2>1, <1>1
<1> DEFINE G == g[w - 1]  F == f[w]  c == s[1] * Power[w - 1]
<1>8. G \in Int /\ F \in Int /\ c \in Int /\ t[w] \in Int
    <2>1. Power[w - 1] \in Int
        BY <1>b, <1>4
    <2>2. s[1] \in Int
        BY <1>a, <1>b
    <2> QED BY <1>2, <1>3, <1>a, <1>b, <2>1, <2>2
<1>9. Congruent(G, F - c)
    BY <1>7, <1>1
<1>10. HashOf(t) = (G * Base + t[w]) % HashModulus
    BY <1>3, <1>b
<1> HIDE DEF G, F, c
<1>11. G * Base + t[w] \in Int /\ (F - c) * Base + t[w] \in Int /\ F - c \in Int
    BY <1>8 DEF Base
<1>12. Congruent(G * Base + t[w], (F - c) * Base + t[w])
    <2>1. Base \in Int
        BY DEF Base
    <2> QED BY <1>8, <1>9, <1>11, <2>1, CongruentStep
<1> DEFINE A == (G * Base + t[w]) % HashModulus  B == ((F - c) * Base + t[w]) % HashModulus
<1>13. /\ A \in 0 .. (HashModulus - 1) /\ Congruent(A, G * Base + t[w])
       /\ B \in 0 .. (HashModulus - 1) /\ Congruent(B, (F - c) * Base + t[w])
    BY <1>11, Remainder
<1> HIDE DEF A, B
<1>14. A \in Int /\ B \in Int
    BY <1>13
<1>15. Congruent(A, (F - c) * Base + t[w])
    BY <1>11, <1>12, <1>13, <1>14, CongruentTrans
<1>16. Congruent((F - c) * Base + t[w], B)
    BY <1>11, <1>13, <1>14, CongruentSym
<1>17. Congruent(A, B)
    BY <1>11, <1>14, <1>15, <1>16, CongruentTrans
<1>18. A = B
    BY <1>13, <1>17, SmallCongruent
<1> QED BY <1>2, <1>10, <1>18 DEF A, B, F, c

(* Every window carries the hash of its own symbols, however it was rolled. *)
THEOREM WindowsAreHashes ==
    ASSUME NEW symbols \in Seq(Nat)
    PROVE  /\ DOMAIN Windows(symbols) = 1 .. (Len(symbols) - WindowTokens + 1)
           /\ \A i \in 1 .. (Len(symbols) - WindowTokens + 1) :
                Windows(symbols)[i] = HashOf(SubSeq(symbols, i, i + WindowTokens - 1))
<1> DEFINE w == WindowTokens
           count == Len(symbols) - w + 1
           last == IF count > 0 THEN count - 1 ELSE 0
           Roll(h, n) == ((h - symbols[n] * Power[w - 1]) * Base + symbols[n + w]) % HashModulus
           step == [p \in (1 .. last) \X Int |-> Roll(p[2], p[1])]
           first == HashOf(SubSeq(symbols, 1, w))
           IsRoll(f) ==
              f = [i \in 1 .. (Len(symbols) - WindowTokens + 1) |->
                     IF i = 1 THEN HashOf(SubSeq(symbols, 1, WindowTokens))
                     ELSE ((f[i - 1] - symbols[i - 1] * Power[WindowTokens - 1]) * Base
                            + symbols[i + WindowTokens - 1]) % HashModulus]
<1>1. w \in Nat \ {0} /\ HashModulus \in Nat \ {0} /\ count \in Int /\ Len(symbols) \in Nat
    BY WindowsAssumption
<1>2. last \in Nat
    BY <1>1
<1>3. Power[w - 1] \in Int
    BY <1>1, PowerUnrolled
<1>4. ASSUME NEW n \in 1 .. last
      PROVE  n \in 1 .. Len(symbols) /\ n + w \in 1 .. Len(symbols)
             /\ symbols[n] \in Nat /\ symbols[n + w] \in Nat /\ count > 0 /\ last = count - 1
    BY <1>1
<1>5. ASSUME NEW n \in 1 .. last, NEW h \in Int PROVE Roll(h, n) \in Int
    <2>1. symbols[n] * Power[w - 1] \in Int
        BY <1>3, <1>4
    <2>2. (h - symbols[n] * Power[w - 1]) * Base + symbols[n + w] \in Int
        BY <2>1, <1>4 DEF Base
    <2> QED BY <2>2, <1>1
<1>6. ASSUME NEW i \in 1 .. count
      PROVE  /\ SubSeq(symbols, i, i + w - 1) \in Seq(Nat)
             /\ Len(SubSeq(symbols, i, i + w - 1)) = w
             /\ \A k \in 1 .. w : SubSeq(symbols, i, i + w - 1)[k] = symbols[i + k - 1]
    <2>1. i \in Int /\ i + w - 1 \in Int /\ \A j \in i .. (i + w - 1) : symbols[j] \in Nat
        BY <1>1
    <2>2. /\ SubSeq(symbols, i, i + w - 1) \in Seq(Nat)
          /\ Len(SubSeq(symbols, i, i + w - 1)) = IF i <= i + w - 1 THEN (i + w - 1) - i + 1 ELSE 0
          /\ \A k \in 1 .. ((i + w - 1) - i + 1) :
                SubSeq(symbols, i, i + w - 1)[k] = symbols[i + k - 1]
        BY <2>1, SubSeqProperties
    <2>3. (i + w - 1) - i + 1 = w /\ i <= i + w - 1
        BY <1>1
    <2> QED BY <2>2, <2>3
<1>7. count > 0 => first \in Int
    <2>1. SUFFICES ASSUME count > 0 PROVE first \in Int
        OBVIOUS
    <2>2. 1 \in 1 .. count /\ 1 + w - 1 = w
        BY <1>1, <2>1
    <2>3. SubSeq(symbols, 1, w) \in Seq(Nat)
        BY <1>6, <2>2
    <2>4. PICK h : Hashing(SubSeq(symbols, 1, w), h) /\ first = h[Len(SubSeq(symbols, 1, w))]
        BY <2>3, HashUnrolled
    <2> QED BY <2>3, <2>4 DEF Hashing
<1>8. PICK f : IsRoll(f) /\ Windows(symbols) = f
    <2>1. CASE count > 0
        <3> DEFINE T == Int
        <3>1. first \in T /\ step \in [(1 .. last) \X T -> T]
            <4>1. \A p \in (1 .. last) \X T : Roll(p[2], p[1]) \in T
                <5>1. \A p \in (1 .. last) \X T : p[1] \in 1 .. last /\ p[2] \in Int
                    OBVIOUS
                <5> HIDE DEF Roll
                <5> QED BY <5>1, <1>5
            <4> HIDE DEF Roll
            <4> QED BY <4>1, <1>7, <2>1
        <3>2. PICK g : Unrolls(g, T, first, last, step)
            <4> HIDE DEF T, first, step, last
            <4> QED BY <3>1, <1>2, Recursion
        <3>3. g \in [0 .. last -> Int] /\ g[0] = first
              /\ \A n \in 1 .. last : g[n] = step[<<n, g[n - 1]>>]
            <4> HIDE DEF step, first, last
            <4> QED BY <3>2 DEF Unrolls
        <3>4. ASSUME NEW n \in 1 .. last PROVE g[n] = Roll(g[n - 1], n)
            <4>1. n - 1 \in 0 .. last
                BY <1>2
            <4>2. g[n - 1] \in Int /\ g[n] = step[<<n, g[n - 1]>>]
                <5> HIDE DEF step, last
                <5> QED BY <3>3, <4>1
            <4>3. <<n, g[n - 1]>> \in (1 .. last) \X Int
                BY <4>2
            <4> HIDE DEF Roll, last
            <4> QED BY <4>2, <4>3
        <3> DEFINE f == [i \in 1 .. count |-> g[i - 1]]
        <3>5. ASSUME NEW i \in 1 .. count
              PROVE  f[i] = IF i = 1 THEN first ELSE Roll(f[i - 1], i - 1)
            <4>1. CASE i = 1
                BY <3>3, <4>1
            <4>2. CASE i # 1
                <5>1. i - 1 \in 1 .. last /\ i - 1 \in 1 .. count
                    BY <2>1, <4>2, <1>1
                <5>2. f[i] = g[i - 1] /\ f[i - 1] = g[i - 1 - 1]
                    BY <5>1
                <5> HIDE DEF f, Roll, last
                <5> QED BY <3>4, <4>2, <5>1, <5>2
            <4> QED BY <4>1, <4>2
        <3>6. \A i \in 1 .. count : i + WindowTokens - 1 = i - 1 + w
            BY <1>1
        <3>7. f = [i \in 1 .. count |-> IF i = 1 THEN first ELSE Roll(f[i - 1], i - 1)]
            <4>1. f = [i \in 1 .. count |-> f[i]]
                OBVIOUS
            <4> HIDE DEF f, Roll, first, count
            <4> QED BY <4>1, <3>5
        <3>8. IsRoll(f)
            <4> HIDE DEF f
            <4> QED BY <3>6, <3>7
        <3>9. \E h : IsRoll(h)
            BY <3>8
        <3> HIDE DEF f
        <3> QED BY <3>9 DEF Windows
    <2>2. CASE ~ (count > 0)
        <3>1. 1 .. count = {}
            BY <1>1, <2>2
        <3>2. IsRoll([i \in {} |-> 0])
            BY <3>1
        <3>3. \E h : IsRoll(h)
            BY <3>2
        <3> QED BY <3>3 DEF Windows
    <2> QED BY <2>1, <2>2
<1>9. DOMAIN f = 1 .. count
    BY <1>8
<1>10. ASSUME NEW i \in 1 .. count, i # 1 PROVE f[i] = Roll(f[i - 1], i - 1)
    <2>1. f[i] = ((f[i - 1] - symbols[i - 1] * Power[WindowTokens - 1]) * Base
                            + symbols[i + WindowTokens - 1]) % HashModulus
        BY <1>8, <1>10
    <2>2. i + WindowTokens - 1 = i - 1 + w
        BY <1>1
    <2> QED BY <2>1, <2>2
<1>11. count > 0 => f[1] = first
    BY <1>8, <1>1
<1> DEFINE Own(i) == SubSeq(symbols, i, i + w - 1)
           S == {n \in 0 .. last : count > 0 => f[n + 1] = HashOf(Own(n + 1))}
<1>12. 0 \in S
    <2>1. 0 + 1 = 1 /\ 1 + w - 1 = w
        BY <1>1
    <2> QED BY <1>2, <1>11, <2>1
<1>13. ASSUME NEW n \in 1 .. last, n - 1 \in S PROVE n \in S
    <2>1. count > 0 /\ n \in 1 .. count /\ n + 1 \in 1 .. count /\ n + 1 # 1 /\ n + 1 - 1 = n /\ n - 1 + 1 = n
        BY <1>4, <1>1
    <2>2. f[n] = HashOf(Own(n))
        BY <1>13, <2>1
    <2>3. f[n + 1] = Roll(f[n], n)
        <3> HIDE DEF Roll
        <3>1. f[n + 1] = Roll(f[n + 1 - 1], n + 1 - 1)
            BY <2>1, <1>10
        <3> QED BY <3>1, <2>1
    <2>4. /\ Own(n) \in Seq(Nat) /\ Len(Own(n)) = w /\ \A k \in 1 .. w : Own(n)[k] = symbols[n + k - 1]
          /\ Own(n + 1) \in Seq(Nat) /\ Len(Own(n + 1)) = w
          /\ \A k \in 1 .. w : Own(n + 1)[k] = symbols[n + 1 + k - 1]
        <3> HIDE DEF count
        <3> QED BY <2>1, <1>6
    <2> HIDE DEF Own
    <2>5. \A k \in 1 .. (w - 1) : Own(n + 1)[k] = Own(n)[k + 1]
        <3>1. ASSUME NEW k \in 1 .. (w - 1) PROVE Own(n + 1)[k] = Own(n)[k + 1]
            <4>1. k \in 1 .. w /\ k + 1 \in 1 .. w /\ n + (k + 1) - 1 = n + 1 + k - 1
                BY <1>1
            <4> QED BY <2>4, <4>1
        <3> QED BY <3>1
    <2>6. HashOf(Own(n + 1)) = ((HashOf(Own(n)) - Own(n)[1] * Power[w - 1]) * Base + Own(n + 1)[w]) % HashModulus
        BY <2>4, <2>5, WindowShifts
    <2>7. Own(n)[1] = symbols[n] /\ Own(n + 1)[w] = symbols[n + w]
        <3>1. 1 \in 1 .. w /\ w \in 1 .. w /\ n + 1 - 1 = n /\ n + 1 + w - 1 = n + w
            BY <1>1
        <3> QED BY <2>4, <3>1
    <2>8. f[n + 1] = HashOf(Own(n + 1))
        BY <2>2, <2>3, <2>6, <2>7
    <2>9. n \in 0 .. last
        BY <1>2
    <2> QED BY <2>8, <2>9
<1>14. 0 .. last \subseteq S
    <2> HIDE DEF S, last
    <2> QED BY <1>2, <1>12, <1>13, EveryNumberTo
<1>15. ASSUME NEW i \in 1 .. count PROVE f[i] = HashOf(Own(i))
    <2>1. i - 1 \in 0 .. last /\ count > 0 /\ i - 1 + 1 = i
        BY <1>1
    <2> HIDE DEF last, count
    <2> QED BY <1>14, <2>1
<1> QED BY <1>8, <1>9, <1>15

(* Tokens are leaves of their source.                                       *)
LEMMA TokensAreLeaves ==
    ASSUME NEW L, NEW source \in Seq(L)
    PROVE  TokensOf(source) \in Seq({source[i] : i \in DOMAIN source})
<1> DEFINE T == Seq({source[i] : i \in DOMAIN source})
           last == Len(source)
           Take(kept, n) == IF source[n].kind \in DroppedKinds THEN kept ELSE Append(kept, source[n])
           step == [p \in (1 .. last) \X T |-> Take(p[2], p[1])]
           IsKept(f) == f = [n \in 0 .. Len(source) |->
                               IF n = 0 THEN <<>>
                               ELSE IF source[n].kind \in DroppedKinds THEN f[n - 1]
                               ELSE Append(f[n - 1], source[n])]
<1>1. last \in Nat /\ DOMAIN source = 1 .. last
    OBVIOUS
<1>2. ASSUME NEW n \in 1 .. last, NEW kept \in T PROVE Take(kept, n) \in T
    <2>1. source[n] \in {source[i] : i \in DOMAIN source}
        BY <1>1
    <2>2. Append(kept, source[n]) \in T
        BY <2>1, AppendProperties
    <2> QED BY <2>2
<1>3. step \in [(1 .. last) \X T -> T] /\ <<>> \in T
    <2>1. \A p \in (1 .. last) \X T : Take(p[2], p[1]) \in T
        <3>1. \A p \in (1 .. last) \X T : p[1] \in 1 .. last /\ p[2] \in T
            OBVIOUS
        <3> HIDE DEF Take, T, last
        <3> QED BY <3>1, <1>2
    <2>2. <<>> \in T
        OBVIOUS
    <2> HIDE DEF Take, T, last
    <2> QED BY <2>1, <2>2
<1>4. PICK g : Unrolls(g, T, <<>>, last, step)
    <2> HIDE DEF T, last, step
    <2> QED BY <1>1, <1>3, Recursion
<1>5. g \in [0 .. last -> T] /\ g[0] = <<>> /\ \A n \in 1 .. last : g[n] = step[<<n, g[n - 1]>>]
    <2> HIDE DEF T, last, step
    <2> QED BY <1>4 DEF Unrolls
<1>6. ASSUME NEW n \in 1 .. last PROVE g[n] = Take(g[n - 1], n)
    <2>1. n - 1 \in 0 .. last
        BY <1>1
    <2>2. g[n - 1] \in T /\ g[n] = step[<<n, g[n - 1]>>]
        <3> HIDE DEF step, last, T
        <3> QED BY <1>5, <2>1
    <2>3. <<n, g[n - 1]>> \in (1 .. last) \X T
        BY <2>2
    <2> HIDE DEF Take, last, T
    <2> QED BY <2>2, <2>3
<1>7. IsKept(g)
    <2>1. g = [n \in 0 .. last |-> g[n]]
        BY <1>5
    <2>2. ASSUME NEW n \in 0 .. last, n # 0 PROVE g[n] = Take(g[n - 1], n)
        <3>1. n \in 1 .. last
            BY <2>2, <1>1
        <3> HIDE DEF Take, last
        <3> QED BY <3>1, <1>6
    <2> HIDE DEF T, step
    <2> QED BY <2>1, <2>2, <1>5
<1>8. PICK f : IsKept(f) /\ TokensOf(source) = f[last]
    <2>1. \E f : IsKept(f)
        BY <1>7
    <2> QED BY <2>1 DEF TokensOf
<1> DEFINE S == {n \in 0 .. last : f[n] \in T}
<1>9. 0 \in S
    <2>1. f[0] = <<>>
        BY <1>1, <1>8
    <2> HIDE DEF T
    <2> QED BY <1>1, <1>3, <2>1
<1>10. ASSUME NEW n \in 1 .. last, n - 1 \in S PROVE n \in S
    <2>1. n \in 0 .. last /\ n # 0
        BY <1>1
    <2>2. f[n] = Take(f[n - 1], n)
        BY <1>8, <2>1
    <2> HIDE DEF T, Take
    <2> QED BY <1>2, <1>10, <2>1, <2>2
<1>11. last \in S
    <2> HIDE DEF S, last
    <2>1. 0 .. last \subseteq S
        BY <1>1, <1>9, <1>10, EveryNumberTo
    <2> QED BY <2>1, <1>1
<1> QED BY <1>8, <1>11

(* What is asked of an index: the symbols of its entries and their windows. *)
GoodIndex(index) ==
    /\ IsFiniteSet(DOMAIN index) /\ DOMAIN index \subseteq Nat
    /\ \A path \in DOMAIN index :
          /\ index[path].symbols \in Seq(Nat)
          /\ index[path].windows = Windows(index[path].symbols)

(* A cold index has such entries.                                           *)
LEMMA ColdIsGood ==
    ASSUME NEW build \in Builds, NEW tree \in Trees \cup Corpus
    PROVE  GoodIndex(Cold(build, tree)) /\ IsFiniteSet(DOMAIN tree) /\ DOMAIN tree \subseteq Nat
<1>1. IsFiniteSet(DOMAIN tree) /\ DOMAIN tree \subseteq Nat
      /\ \A path \in DOMAIN tree : tree[path] \in DOMAIN Sources
    BY SourcesAssumption
<1>2. DOMAIN Cold(build, tree) = Indexed(tree) /\ Indexed(tree) \subseteq DOMAIN tree
    BY DEF Cold, Indexed
<1>3. IsFiniteSet(DOMAIN Cold(build, tree)) /\ DOMAIN Cold(build, tree) \subseteq Nat
    BY <1>1, <1>2, FS_Subset
<1>4. ASSUME NEW path \in Indexed(tree)
      PROVE  /\ Cold(build, tree)[path].symbols \in Seq(Nat)
             /\ Cold(build, tree)[path].windows = Windows(Cold(build, tree)[path].symbols)
    <2> DEFINE source == Sources[tree[path]]  tokens == Tokens[tree[path]]
               symbols == [i \in DOMAIN tokens |-> Symbol(build.regime, tokens[i].kind)]
    <2>1. tree[path] \in DOMAIN Sources
        BY <1>1, <1>2
    <2>2. source \in Seq([kind : STRING, row : Nat])
          /\ \A i \in DOMAIN source : Symbol(build.regime, source[i].kind) \in Nat
        BY <2>1, SourcesAssumption
    <2>3. tokens \in Seq({source[i] : i \in DOMAIN source})
        <3>1. tokens = TokensOf(source)
            BY <2>1 DEF Tokens
        <3> HIDE DEF source, tokens
        <3> QED BY <2>2, <3>1, TokensAreLeaves
    <2>4. ASSUME NEW i \in DOMAIN tokens PROVE symbols[i] \in Nat
        <3>1. tokens[i] \in {source[k] : k \in DOMAIN source}
            <4> HIDE DEF source, tokens
            <4> QED BY <2>3, <2>4
        <3> HIDE DEF source, tokens
        <3> QED BY <2>2, <3>1
    <2>5. symbols \in Seq(Nat)
        <3>1. DOMAIN tokens = 1 .. Len(tokens) /\ Len(tokens) \in Nat
            <4> HIDE DEF source, tokens
            <4> QED BY <2>3
        <3>2. symbols \in [1 .. Len(tokens) -> Nat]
            <4> HIDE DEF tokens
            <4> QED BY <2>4, <3>1
        <3> HIDE DEF symbols
        <3> QED BY <3>1, <3>2, SeqDef
    <2>6. Cold(build, tree)[path].symbols = symbols /\ Cold(build, tree)[path].windows = Windows(symbols)
        <3>1. Cold(build, tree)[path] = Entry(build.regime, path, tree[path])
            BY DEF Cold
        <3>2. Entry(build.regime, path, tree[path]).symbols = symbols
              /\ Entry(build.regime, path, tree[path]).windows = Windows(symbols)
            BY DEF Entry
        <3> QED BY <3>1, <3>2
    <2> QED BY <2>5, <2>6
<1> QED BY <1>1, <1>2, <1>3, <1>4 DEF GoodIndex

(* The token sequences of the files that are searched.                      *)
Readings(symbols) ==
    \E n \in Nat : DOMAIN symbols = 1 .. n /\ \A f \in 1 .. n : symbols[f] \in Seq(Nat)

(* The types of what is searched.                                           *)
LEMMA ReadingTypes ==
    ASSUME NEW symbols, Readings(symbols), NEW f \in DOMAIN symbols
    PROVE  f \in Nat /\ symbols[f] \in Seq(Nat) /\ Len(symbols[f]) \in Nat
           /\ \A k \in 1 .. Len(symbols[f]) : symbols[f][k] \in Nat
BY DEF Readings

(* Pairs of numbers are finitely many over finitely many files.             *)
LEMMA PlacesAreFinite ==
    ASSUME NEW symbols, Readings(symbols)
    PROVE  IsFiniteSet(Places(symbols)) /\ Places(symbols) \subseteq Nat \X Nat
<1> DEFINE column == [f \in DOMAIN symbols |-> {<<f, t>> : t \in 0 .. (Len(symbols[f]) - 1)}]
           Columns == {column[f] : f \in DOMAIN symbols}
<1>1. IsFiniteSet(DOMAIN symbols)
    <2>1. PICK n \in Nat : DOMAIN symbols = 1 .. n
        BY DEF Readings
    <2>2. IsFiniteSet(1 .. n)
        BY FS_Interval
    <2> QED BY <2>1, <2>2
<1>2. IsFiniteSet(Columns)
    <2>1. column \in Surjection(DOMAIN symbols, Columns)
        BY DEF Surjection
    <2> HIDE DEF column, Columns
    <2> QED BY <1>1, <2>1, FS_Surjection
<1>3. ASSUME NEW f \in DOMAIN symbols PROVE IsFiniteSet(column[f]) /\ column[f] \subseteq Nat \X Nat
    <2> DEFINE rows == 0 .. (Len(symbols[f]) - 1)
    <2>0. Len(symbols[f]) \in Nat /\ f \in Nat
        BY ReadingTypes
    <2>1. IsFiniteSet(rows)
        BY <2>0, FS_Interval
    <2>2. IsFiniteSet({f})
        BY FS_Singleton
    <2>3. IsFiniteSet({f} \X rows)
        <3> HIDE DEF rows
        <3> QED BY <2>1, <2>2, FS_Product
    <2>4. column[f] = {f} \X rows
        BY <2>0
    <2>5. \A t \in rows : t \in Nat
        BY <2>0
    <2> HIDE DEF rows, column
    <2> QED BY <2>0, <2>3, <2>4, <2>5
<1>4. \A c \in Columns : IsFiniteSet(c) /\ c \subseteq Nat \X Nat
    <2> HIDE DEF column
    <2> QED BY <1>3
<1>5. IsFiniteSet(UNION Columns)
    <2> HIDE DEF Columns
    <2> QED BY <1>2, <1>4, FS_UNION
<1>6. Places(symbols) = UNION Columns
    <2>1. Columns = {{<<f, t>> : t \in 0 .. (Len(symbols[f]) - 1)} : f \in DOMAIN symbols}
        OBVIOUS
    <2> HIDE DEF Columns
    <2> QED BY <2>1 DEF Places
<1>7. UNION Columns \subseteq Nat \X Nat
    <2> HIDE DEF Columns
    <2> QED BY <1>4
<1> QED BY <1>5, <1>6, <1>7

(* A place where a window begins.                                           *)
WindowAt(symbols, a) ==
    a \in (DOMAIN symbols) \X Nat /\ a[2] + WindowTokens <= Len(symbols[a[1]])

OfHash(symbols, hash) ==
    {a \in (DOMAIN symbols) \X Nat : WindowAt(symbols, a) /\ Windows(symbols[a[1]])[a[2] + 1] = hash}

(* A window begins at a place.                                              *)
LEMMA WindowsArePlaces ==
    ASSUME NEW symbols, Readings(symbols), NEW a, WindowAt(symbols, a)
    PROVE  a \in Places(symbols) /\ a = <<a[1], a[2]>> /\ a[1] \in DOMAIN symbols /\ a[1] \in Nat /\ a[2] \in Nat
<1>1. a = <<a[1], a[2]>> /\ a[1] \in DOMAIN symbols /\ a[2] \in Nat /\ a[2] + WindowTokens <= Len(symbols[a[1]])
    BY DEF WindowAt
<1>2. a[2] \in 0 .. (Len(symbols[a[1]]) - 1) /\ a[1] \in Nat
    BY <1>1, WindowsAssumption, ReadingTypes
<1> QED BY <1>1, <1>2 DEF Places

(* The windows of one hash are finitely many.                               *)
LEMMA OfHashIsFinite ==
    ASSUME NEW symbols, Readings(symbols), NEW hash
    PROVE  IsFiniteSet(OfHash(symbols, hash)) /\ OfHash(symbols, hash) \subseteq Nat \X Nat
<1>1. OfHash(symbols, hash) \subseteq Places(symbols)
    BY WindowsArePlaces DEF OfHash
<1> QED BY <1>1, PlacesAreFinite, FS_Subset

(* What is searched: the files in order and their symbols.                  *)
ReadAs(index, paths, files, symbols) ==
    files = IndexedFiles(index, paths) /\ symbols = SymbolsOf(index, files)

WindowsOf(index, files, symbols) ==
    /\ DOMAIN symbols = DOMAIN files
    /\ \A f \in DOMAIN files : index[files[f]].windows = Windows(symbols[f])

(* A good index is read as such sequences.                                  *)
LEMMA FilesAreRead ==
    ASSUME NEW index, GoodIndex(index), NEW paths, IsFiniteSet(paths), paths \subseteq Nat,
           NEW files, NEW symbols, ReadAs(index, paths, files, symbols)
    PROVE  Readings(symbols) /\ WindowsOf(index, files, symbols)
<1> DEFINE n == Cardinality(paths \cap DOMAIN index)
<1>1. n \in Nat /\ files \in [1 .. n -> paths \cap DOMAIN index]
    BY FilesAreOrdered DEF ReadAs
<1>2. DOMAIN symbols = DOMAIN files /\ \A f \in DOMAIN files : symbols[f] = index[files[f]].symbols
    BY DEF SymbolsOf, ReadAs
<1>3. \A f \in DOMAIN files : files[f] \in DOMAIN index
    BY <1>1
<1>4. \A f \in DOMAIN files : symbols[f] \in Seq(Nat) /\ index[files[f]].windows = Windows(symbols[f])
    BY <1>2, <1>3 DEF GoodIndex
<1>5. Readings(symbols)
    BY <1>1, <1>2, <1>4 DEF Readings
<1> QED BY <1>2, <1>4, <1>5 DEF WindowsOf

(* The occurrences of a hash are its windows, in order.                     *)
LEMMA OccurrencesAreOrdered ==
    ASSUME NEW index, NEW files, NEW symbols, Readings(symbols), WindowsOf(index, files, symbols),
           NEW hash
    PROVE  InOrderOf(OfHash(symbols, hash), Occurrences(index, files, hash))
<1> DEFINE PlacedIn(f) == {<<f, w - 1>> : w \in {v \in DOMAIN index[files[f]].windows :
                                             index[files[f]].windows[v] = hash}}
           All == UNION {PlacedIn(f) : f \in DOMAIN files}
<1>0. /\ DOMAIN symbols = DOMAIN files
      /\ \A f \in DOMAIN files : index[files[f]].windows = Windows(symbols[f])
    BY DEF WindowsOf
<1>1. ASSUME NEW f \in DOMAIN files
      PROVE  PlacedIn(f) = {a \in OfHash(symbols, hash) : a[1] = f}
    <2>1. DOMAIN index[files[f]].windows = 1 .. (Len(symbols[f]) - WindowTokens + 1)
        BY <1>0, WindowsAreHashes, ReadingTypes
    <2>2. Len(symbols[f]) \in Nat /\ WindowTokens \in Nat \ {0}
        BY <1>0, ReadingTypes, WindowsAssumption
    <2>3. ASSUME NEW a \in PlacedIn(f) PROVE a \in OfHash(symbols, hash) /\ a[1] = f
        <3>1. PICK w \in DOMAIN index[files[f]].windows : index[files[f]].windows[w] = hash /\ a = <<f, w - 1>>
            OBVIOUS
        <3>2. w - 1 \in Nat /\ (w - 1) + 1 = w /\ (w - 1) + WindowTokens <= Len(symbols[f])
            BY <2>1, <2>2
        <3> QED BY <1>0, <3>1, <3>2 DEF OfHash, WindowAt
    <2>4. ASSUME NEW a \in OfHash(symbols, hash), a[1] = f PROVE a \in PlacedIn(f)
        <3>1. a = <<f, a[2]>> /\ a[2] \in Nat /\ a[2] + WindowTokens <= Len(symbols[f])
              /\ Windows(symbols[f])[a[2] + 1] = hash
            BY <1>0, <2>4 DEF OfHash, WindowAt
        <3>2. a[2] + 1 \in DOMAIN index[files[f]].windows /\ (a[2] + 1) - 1 = a[2]
            BY <2>1, <2>2, <3>1
        <3> QED BY <1>0, <3>1, <3>2
    <2> HIDE DEF PlacedIn
    <2> QED BY <2>3, <2>4
<1>2. All = OfHash(symbols, hash)
    <2>1. \A a \in OfHash(symbols, hash) : a[1] \in DOMAIN files
        BY <1>0 DEF OfHash
    <2> HIDE DEF PlacedIn
    <2> QED BY <1>1, <2>1
<1>3. Occurrences(index, files, hash) = InOrder(All)
    BY DEF Occurrences
<1> HIDE DEF All
<1> QED BY <1>2, <1>3, OfHashIsFinite, PlacesAreOrdered

(* Slices are equal when their tokens are.                                  *)
Agree(symbols, a, b, len) ==
    \A k \in 1 .. len : symbols[a[1]][a[2] + k] = symbols[b[1]][b[2] + k]

Fits(symbols, a, len) ==
    a[1] \in DOMAIN symbols /\ a[2] \in Nat /\ a[2] + len <= Len(symbols[a[1]])

(* A slice that fits holds its tokens.                                      *)
LEMMA SliceIsTokens ==
    ASSUME NEW symbols, Readings(symbols), NEW a, NEW len \in Nat, Fits(symbols, a, len)
    PROVE  /\ Slice(symbols, a, len) \in Seq(Nat) /\ Len(Slice(symbols, a, len)) = len
           /\ \A k \in 1 .. len : Slice(symbols, a, len)[k] = symbols[a[1]][a[2] + k]
<1> DEFINE s == symbols[a[1]]  m == a[2] + 1  n == a[2] + len
<1>1. a[2] \in Nat /\ Len(s) \in Nat /\ \A i \in 1 .. Len(s) : s[i] \in Nat
    BY ReadingTypes DEF Fits
<1>2. m \in Int /\ n \in Int /\ \A i \in m .. n : s[i] \in Nat
    BY <1>1 DEF Fits
<1>3. /\ SubSeq(s, m, n) \in Seq(Nat) /\ Len(SubSeq(s, m, n)) = IF m <= n THEN n - m + 1 ELSE 0
      /\ \A k \in 1 .. n - m + 1 : SubSeq(s, m, n)[k] = s[m + k - 1]
    <2> HIDE DEF s, m, n
    <2> QED BY <1>2, SubSeqProperties
<1>4. n - m + 1 = len /\ (m <= n <=> len >= 1)
    BY <1>1
<1>5. \A k \in 1 .. len : m + k - 1 = a[2] + k
    BY <1>1
<1> QED BY <1>3, <1>4, <1>5 DEF Slice

(* Slices are equal when their tokens agree.                                *)
LEMMA SlicesAgree ==
    ASSUME NEW symbols, Readings(symbols), NEW a, NEW b, NEW len \in Nat,
           Fits(symbols, a, len), Fits(symbols, b, len)
    PROVE  Slice(symbols, a, len) = Slice(symbols, b, len) <=> Agree(symbols, a, b, len)
<1> DEFINE s == Slice(symbols, a, len)  t == Slice(symbols, b, len)
<1>1. /\ s \in Seq(Nat) /\ Len(s) = len /\ \A k \in 1 .. len : s[k] = symbols[a[1]][a[2] + k]
      /\ t \in Seq(Nat) /\ Len(t) = len /\ \A k \in 1 .. len : t[k] = symbols[b[1]][b[2] + k]
    BY SliceIsTokens
<1> HIDE DEF s, t
<1>2. s = t => Agree(symbols, a, b, len)
    BY <1>1 DEF Agree
<1>3. Agree(symbols, a, b, len) => s = t
    <2>1. SUFFICES ASSUME Agree(symbols, a, b, len) PROVE s = t
        OBVIOUS
    <2>2. \A k \in 1 .. len : s[k] = t[k]
        BY <1>1, <2>1 DEF Agree
    <2> QED BY <1>1, <2>2, SeqEqual
<1> QED BY <1>2, <1>3 DEF s, t

(* The lesser of two numbers.                                               *)
LEMMA LesserOfTwo ==
    ASSUME NEW x \in Nat, NEW y \in Nat
    PROVE  Min({x, y}) \in Nat /\ Min({x, y}) <= x /\ Min({x, y}) <= y /\ Min({x, y}) \in {x, y}
<1>1. {x, y} \in SUBSET Nat /\ {x, y} # {}
    OBVIOUS
<1> QED BY <1>1, LeastIsThere

(* Extension finds the longest stretch that agrees, in both sequences.      *)
LEMMA ExtendIsLongest ==
    ASSUME NEW symbols, Readings(symbols), NEW a, NEW b, WindowAt(symbols, a), WindowAt(symbols, b)
    PROVE  /\ Extend(symbols, a, b) \in Nat
           /\ Fits(symbols, a, Extend(symbols, a, b)) /\ Fits(symbols, b, Extend(symbols, a, b))
           /\ Agree(symbols, a, b, Extend(symbols, a, b))
           /\ \A l \in Nat : /\ l >= WindowTokens /\ Fits(symbols, a, l) /\ Fits(symbols, b, l)
                             /\ Agree(symbols, a, b, l)
                             => l <= Extend(symbols, a, b)
<1> DEFINE x == Len(symbols[a[1]]) - a[2]  y == Len(symbols[b[1]]) - b[2]  room == Min({x, y})
           Same == {l \in WindowTokens .. room : Slice(symbols, a, l) = Slice(symbols, b, l)}
           longest == Max({0} \cup Same)
<1>1. /\ a[1] \in DOMAIN symbols /\ a[2] \in Nat /\ Len(symbols[a[1]]) \in Nat /\ x \in Nat
      /\ b[1] \in DOMAIN symbols /\ b[2] \in Nat /\ Len(symbols[b[1]]) \in Nat /\ y \in Nat
    BY WindowsArePlaces, ReadingTypes, WindowsAssumption DEF WindowAt
<1>2. room \in Nat /\ room <= x /\ room <= y /\ room \in {x, y}
    BY <1>1, LesserOfTwo
<1>3. Extend(symbols, a, b) = longest
    BY DEF Extend
<1>4. \A l \in Nat : l <= room <=> Fits(symbols, a, l) /\ Fits(symbols, b, l)
    <2>1. ASSUME NEW l \in Nat PROVE l <= room <=> (l <= x /\ l <= y)
        <3> HIDE DEF x, y, room
        <3> QED BY <1>1, <1>2
    <2>2. ASSUME NEW l \in Nat PROVE (l <= x <=> Fits(symbols, a, l)) /\ (l <= y <=> Fits(symbols, b, l))
        <3>1. ASSUME NEW u \in Nat, NEW v \in Nat PROVE l <= v - u <=> u + l <= v
            OBVIOUS
        <3>2. l <= x <=> a[2] + l <= Len(symbols[a[1]])
            BY <1>1, <3>1
        <3>3. l <= y <=> b[2] + l <= Len(symbols[b[1]])
            BY <1>1, <3>1
        <3> HIDE DEF x, y
        <3> QED BY <1>1, <3>2, <3>3 DEF Fits
    <2> HIDE DEF x, y, room
    <2> QED BY <2>1, <2>2
<1> HIDE DEF room
<1>5. ({0} \cup Same) \in SUBSET (0 .. room) /\ {0} \cup Same # {}
    BY <1>2, WindowsAssumption
<1>6. longest \in {0} \cup Same /\ \A l \in {0} \cup Same : l <= longest
    <2> HIDE DEF Same
    <2> QED BY <1>2, <1>5, GreatestIsThere
<1>7. longest \in Nat /\ longest <= room
    <2> HIDE DEF Same, longest
    <2> QED BY <1>2, <1>5, <1>6
<1>8. Agree(symbols, a, b, longest)
    <2> HIDE DEF longest
    <2>1. CASE longest = 0
        BY <2>1 DEF Agree
    <2>2. CASE longest # 0
        <3>1. Slice(symbols, a, longest) = Slice(symbols, b, longest)
            BY <1>6, <2>2
        <3> QED BY <3>1, <1>4, <1>7, SlicesAgree
    <2> QED BY <2>1, <2>2
<1>9. ASSUME NEW l \in Nat, l >= WindowTokens, Fits(symbols, a, l), Fits(symbols, b, l), Agree(symbols, a, b, l)
      PROVE  l <= longest
    <2>1. Slice(symbols, a, l) = Slice(symbols, b, l)
        BY <1>9, SlicesAgree
    <2>2. l \in Same
        BY <1>2, <1>4, <1>9, <2>1, WindowsAssumption
    <2> HIDE DEF longest, Same
    <2> QED BY <1>6, <2>2
<1> HIDE DEF longest
<1> QED BY <1>3, <1>4, <1>7, <1>8, <1>9

(* What a match claims: two places, the second after the first, that hold   *)
(* the same tokens and do not overlap.                                      *)
IsAMatch(symbols, m) ==
    /\ m.len \in Nat /\ WindowAt(symbols, m.at) /\ WindowAt(symbols, m.to) /\ Before(m.at, m.to)
    /\ Fits(symbols, m.at, m.len) /\ Fits(symbols, m.to, m.len) /\ Agree(symbols, m.at, m.to, m.len)
    /\ m.at[1] = m.to[1] => m.len <= m.to[2] - m.at[2]

(* Two windows in order make a match; across files nothing shortens it.     *)
LEMMA MatchIsAMatch ==
    ASSUME NEW symbols, Readings(symbols), NEW a, NEW b, WindowAt(symbols, a), WindowAt(symbols, b),
           Before(a, b), NEW m, m = Match(symbols, a, b)
    PROVE  /\ m.at = a /\ m.to = b /\ IsAMatch(symbols, m)
           /\ a[1] # b[1] => m.len = Extend(symbols, a, b)
<1> DEFINE len == Extend(symbols, a, b)  lag == b[2] - a[2]
<1>1. /\ len \in Nat /\ Fits(symbols, a, len) /\ Fits(symbols, b, len) /\ Agree(symbols, a, b, len)
    BY ExtendIsLongest
<1>2. m = [at |-> a, to |-> b, len |-> IF a[1] = b[1] THEN Min({len, lag}) ELSE len]
    BY DEF Match
<1>3. m.at = a /\ m.to = b
    BY <1>2
<1>4. a[2] \in Nat /\ b[2] \in Nat
    BY WindowsArePlaces
<1>5. CASE a[1] = b[1]
    <2>1. lag \in Nat
        BY <1>4, <1>5, WindowsArePlaces DEF Before
    <2>2. m.len = Min({len, lag})
        BY <1>2, <1>5
    <2> HIDE DEF len, lag
    <2>3. m.len \in Nat /\ m.len <= len /\ m.len <= lag
        BY <1>1, <2>1, <2>2, LesserOfTwo
    <2>4. Fits(symbols, a, m.len) /\ Fits(symbols, b, m.len) /\ Agree(symbols, a, b, m.len)
        <3>1. Len(symbols[a[1]]) \in Nat /\ Len(symbols[b[1]]) \in Nat
            BY <1>1, ReadingTypes DEF Fits
        <3>2. ASSUME NEW u \in Nat, NEW v \in Nat, u + len <= v PROVE u + m.len <= v
            BY <1>1, <2>3, <3>2
        <3>3. /\ a[1] \in DOMAIN symbols /\ a[2] + len <= Len(symbols[a[1]])
              /\ b[1] \in DOMAIN symbols /\ b[2] + len <= Len(symbols[b[1]])
            BY <1>1 DEF Fits
        <3>4. a[2] + m.len <= Len(symbols[a[1]]) /\ b[2] + m.len <= Len(symbols[b[1]])
            BY <1>4, <3>1, <3>2, <3>3
        <3>5. Fits(symbols, a, m.len) /\ Fits(symbols, b, m.len)
            BY <1>4, <3>3, <3>4 DEF Fits
        <3>6. \A k \in 1 .. m.len : k \in 1 .. len
            BY <1>1, <2>3
        <3>7. Agree(symbols, a, b, m.len)
            BY <1>1, <3>6 DEF Agree
        <3> QED BY <3>5, <3>7
    <2> QED BY <1>3, <1>5, <2>3, <2>4 DEF IsAMatch, lag
<1>6. CASE a[1] # b[1]
    <2>1. m.len = len
        BY <1>2, <1>6
    <2> HIDE DEF len
    <2> QED BY <1>1, <1>3, <1>6, <2>1 DEF IsAMatch, len
<1> QED BY <1>5, <1>6

----------------------------------------------------------------------------
(* The partners of a saturated hash come later in its occurrences.          *)

LEMMA BracketWithin ==
    ASSUME NEW occ, NEW n \in Nat, NEW sorted \in SUBSET (1 .. n), NEW at
    PROVE  Bracket(occ, sorted, at) \subseteq sorted
<1> DEFINE below == {i \in sorted : occ[i][2] < at}  above == sorted \ below
<1>1. below # {} => Max(below) \in below
    <2>0. below \subseteq sorted
        OBVIOUS
    <2> HIDE DEF below, above
    <2>1. below \in SUBSET (0 .. n)
        BY <2>0
    <2> HIDE DEF below
    <2> QED BY <2>1, GreatestIsThere
<1>2. above # {} => Min(above) \in above
    <2>0. above \subseteq sorted
        OBVIOUS
    <2> HIDE DEF below, above
    <2>1. above \in SUBSET Nat
        BY <2>0
    <2> HIDE DEF above
    <2> QED BY <2>1, LeastIsThere
<1>3. below \subseteq sorted /\ above \subseteq sorted
    OBVIOUS
<1>4. Bracket(occ, sorted, at) = (IF below = {} THEN {} ELSE {Max(below)})
                                   \cup (IF above = {} THEN {} ELSE {Min(above)})
    BY DEF Bracket
<1> HIDE DEF below, above
<1> QED BY <1>1, <1>2, <1>3, <1>4

(* The bounded partners of an occurrence come after it.                     *)
LEMMA PartnersAreLater ==
    ASSUME NEW occ, NEW n \in Nat, DOMAIN occ = 1 .. n, Len(occ) = n, NEW i \in 1 .. n,
           NEW tokens, NEW truncated
    PROVE  BoundedPartners(occ, i, tokens, truncated) \subseteq (i + 1) .. n
<1>1. NearestUsable(occ, i) \subseteq 1 .. n
    <2> DEFINE usable == {j \in (i + 1)..Len(occ) :
                      occ[j][1] # occ[i][1] \/ occ[j][2] >= occ[i][2] + MinCloneTokens}
    <2>0. usable \subseteq (i + 1) .. n
        OBVIOUS
    <2>1. usable \in SUBSET Nat /\ usable \subseteq 1 .. n
        <3> HIDE DEF usable
        <3> QED BY <2>0
    <2>2. NearestUsable(occ, i) = IF usable = {} THEN {} ELSE {Min(usable)}
        BY DEF NearestUsable
    <2> HIDE DEF usable
    <2> QED BY <2>1, <2>2, LeastIsThere
<1>2. \A regions, r : Members(occ, regions, r) \in SUBSET (1 .. n)
    BY DEF Members
<1>3. Aligned(occ, i, truncated) \subseteq 1 .. n
    <2>1. ASSUME NEW j \in Aligned(occ, i, truncated)
          PROVE  \E r, x : j \in Bracket(occ, Members(occ, Regions(occ), r), x)
        BY <2>1 DEF Aligned
    <2>2. ASSUME NEW j \in Aligned(occ, i, truncated) PROVE j \in 1 .. n
        <3>1. PICK r, x : j \in Bracket(occ, Members(occ, Regions(occ), r), x)
            BY <2>1
        <3>2. Members(occ, Regions(occ), r) \in SUBSET (1 .. n)
            BY <1>2
        <3> QED BY <3>1, <3>2, BracketWithin
    <2> QED BY <2>2
<1>4. Crossing(occ, i, tokens) \subseteq 1 .. n
    <2> DEFINE same == {j \in (i + 1)..Len(occ) : occ[j][1] = occ[i][1]}
    <2>0. same \subseteq (i + 1) .. n
        OBVIOUS
    <2>1. same \in SUBSET (1 .. n)
        <3> HIDE DEF same
        <3> QED BY <2>0
    <2>2. ASSUME NEW j \in Crossing(occ, i, tokens)
          PROVE  \E x : j \in Bracket(occ, same, x)
        BY <2>2 DEF Crossing
    <2> HIDE DEF same
    <2> QED BY <2>1, <2>2, BracketWithin
<1> QED BY <1>1, <1>3, <1>4 DEF BoundedPartners

(* A set in order is as long as the set is large.                           *)
LEMMA OrderHasLength ==
    ASSUME NEW S, NEW occ, InOrderOf(S, occ)
    PROVE  /\ Cardinality(S) \in Nat /\ Len(occ) = Cardinality(S) /\ DOMAIN occ = 1 .. Cardinality(S)
           /\ \A i \in DOMAIN occ : occ[i] \in S
BY LenProperties, IsASeq DEF InOrderOf

(* The partners of an occurrence, and so the pairs that are laid together.  *)
PartnersOf(symbols, occ, cap, budget, i) ==
    IF Saturated(occ, cap)
    THEN BoundedPartners(occ, i, Len(symbols[occ[i][1]]), occ[i][1] \in OverBudget(occ, budget))
    ELSE (i + 1)..Len(occ)

Paired(symbols, occ, cap, budget) ==
    UNION {{<<occ[i], occ[j]>> : j \in PartnersOf(symbols, occ, cap, budget, i)} : i \in DOMAIN occ}

(* The places of a pair are windows of the hash, in order.                  *)
LEMMA PairsAreInOrder ==
    ASSUME NEW symbols, NEW S, NEW occ, InOrderOf(S, occ), NEW cap, NEW budget,
           NEW q \in Paired(symbols, occ, cap, budget)
    PROVE  q[1] \in S /\ q[2] \in S /\ Before(q[1], q[2])
<1> DEFINE n == Cardinality(S)
<1>1. n \in Nat /\ Len(occ) = n /\ DOMAIN occ = 1 .. n /\ \A i \in 1 .. n : occ[i] \in S
    BY OrderHasLength
<1>2. PICK i \in 1 .. n : \E j \in PartnersOf(symbols, occ, cap, budget, i) : q = <<occ[i], occ[j]>>
    BY <1>1 DEF Paired
<1>3. PartnersOf(symbols, occ, cap, budget, i) \subseteq (i + 1) .. n
    BY <1>1, PartnersAreLater DEF PartnersOf
<1>4. PICK j \in (i + 1) .. n : q = <<occ[i], occ[j]>>
    BY <1>2, <1>3
<1>5. j \in 1 .. n /\ i < j
    BY <1>1
<1>6. Before(occ[i], occ[j])
    BY <1>5 DEF InOrderOf
<1> QED BY <1>1, <1>4, <1>5, <1>6

(* The matches of a hash, by their pairs.                                   *)
LEMMA MatchesUnfold ==
    ASSUME NEW symbols, NEW occ, NEW cap, NEW budget
    PROVE  MatchesOf(symbols, occ, cap, budget) =
             {m \in {Match(symbols, q[1], q[2]) :
                       q \in {p \in Paired(symbols, occ, cap, budget) :
                                ~PrecededByAMatch(symbols, p[1], p[2]) /\ ~Overlapping(p[1], p[2])}} :
                m.len >= MinCloneTokens}
<1> DEFINE over == IF Saturated(occ, cap) THEN OverBudget(occ, budget) ELSE {}
           Partners(i) == IF Saturated(occ, cap)
                          THEN BoundedPartners(occ, i, Len(symbols[occ[i][1]]), occ[i][1] \in over)
                          ELSE (i + 1)..Len(occ)
           pairs == UNION {{<<occ[i], occ[j]>> : j \in Partners(i)} : i \in DOMAIN occ}
<1>1. \A i : Partners(i) = PartnersOf(symbols, occ, cap, budget, i)
    BY DEF PartnersOf
<1>2. pairs = Paired(symbols, occ, cap, budget)
    <2> HIDE DEF Partners
    <2> QED BY <1>1 DEF Paired
<1>3. MatchesOf(symbols, occ, cap, budget) =
             {m \in {Match(symbols, q[1], q[2]) :
                       q \in {p \in pairs : ~PrecededByAMatch(symbols, p[1], p[2]) /\ ~Overlapping(p[1], p[2])}} :
                m.len >= MinCloneTokens}
    BY DEF MatchesOf
<1> HIDE DEF pairs
<1> QED BY <1>2, <1>3

(* Whatever is found is a match, long enough.                               *)
LEMMA MatchesAreMatches ==
    ASSUME NEW symbols, Readings(symbols), NEW hash, NEW occ, InOrderOf(OfHash(symbols, hash), occ),
           NEW cap, NEW budget, NEW m \in MatchesOf(symbols, occ, cap, budget)
    PROVE  IsAMatch(symbols, m) /\ m.len >= MinCloneTokens /\ DOMAIN m = {"at", "to", "len"}
<1>1. PICK q \in Paired(symbols, occ, cap, budget) :
          m = Match(symbols, q[1], q[2]) /\ m.len >= MinCloneTokens
    BY MatchesUnfold
<1>2. q[1] \in OfHash(symbols, hash) /\ q[2] \in OfHash(symbols, hash) /\ Before(q[1], q[2])
    BY PairsAreInOrder
<1>3. WindowAt(symbols, q[1]) /\ WindowAt(symbols, q[2])
    BY <1>2 DEF OfHash
<1>4. IsAMatch(symbols, m)
    BY <1>1, <1>2, <1>3, MatchIsAMatch
<1>5. DOMAIN m = {"at", "to", "len"}
    BY <1>1 DEF Match
<1> QED BY <1>1, <1>4, <1>5

(* The matches of a search.                                                 *)
Found(symbols, matches) ==
    /\ IsFiniteSet(matches)
    /\ \A m \in matches : IsAMatch(symbols, m) /\ m.len >= MinCloneTokens

(* Whatever a search finds are matches, finitely many and long enough.      *)
LEMMA SearchFinds ==
    ASSUME NEW index, NEW files, NEW symbols, Readings(symbols), symbols = SymbolsOf(index, files),
           WindowsOf(index, files, symbols),
           NEW cap, NEW budget
    PROVE  Found(symbols, Matches(index, files, cap, budget))
<1> DEFINE M == Matches(index, files, cap, budget)
<1>1. ASSUME NEW m \in M
      PROVE  /\ IsAMatch(symbols, m) /\ m.len >= MinCloneTokens
             /\ \E a, b \in Places(symbols) : m = Match(symbols, a, b)
    <2>1. PICK h \in Hashes(index, files) : m \in MatchesOf(symbols, Occurrences(index, files, h), cap, budget)
        BY DEF Matches
    <2>2. InOrderOf(OfHash(symbols, h), Occurrences(index, files, h))
        BY OccurrencesAreOrdered
    <2>3. IsAMatch(symbols, m) /\ m.len >= MinCloneTokens
        BY <2>1, <2>2, MatchesAreMatches
    <2>4. PICK a, b : m = Match(symbols, a, b)
        BY <2>1, MatchesUnfold
    <2>5. m.at = a /\ m.to = b
        BY <2>4 DEF Match
    <2>6. a \in Places(symbols) /\ b \in Places(symbols)
        BY <2>3, <2>5, WindowsArePlaces DEF IsAMatch
    <2> QED BY <2>3, <2>4, <2>6
<1>2. IsFiniteSet(M)
    <2> DEFINE P == Places(symbols)
               laid == [q \in P \X P |-> Match(symbols, q[1], q[2])]
               All == {laid[q] : q \in P \X P}
    <2>1. IsFiniteSet(P \X P)
        BY PlacesAreFinite, FS_Product
    <2>2. laid \in Surjection(P \X P, All)
        BY DEF Surjection
    <2>3. IsFiniteSet(All)
        <3> HIDE DEF P, laid, All
        <3> QED BY <2>1, <2>2, FS_Surjection
    <2>4. ASSUME NEW m \in M PROVE m \in All
        <3>1. PICK a \in P, b \in P : m = Match(symbols, a, b)
            BY <1>1
        <3>2. <<a, b>> \in P \X P /\ laid[<<a, b>>] = m
            BY <3>1
        <3> QED BY <3>2
    <2> HIDE DEF M, All
    <2> QED BY <2>3, <2>4, FS_Subset
<1> HIDE DEF M
<1> QED BY <1>1, <1>2 DEF Found, M

(* Both places of a match are full of copies.                               *)
LEMMA MatchesAreCopies ==
    ASSUME NEW symbols, Readings(symbols), NEW m, IsAMatch(symbols, m), m.len >= MinCloneTokens,
           NEW c \in Span(m.at, m.len) \cup Span(m.to, m.len)
    PROVE  c \in Copied(symbols, LAMBDA at, to : TRUE)
<1> DEFINE a == m.at  b == m.to  len == m.len  min == MinCloneTokens
<1>1. min \in Nat \ {0} /\ len \in Nat /\ len >= min
    BY WindowsAssumption DEF IsAMatch
<1>2. /\ a[1] \in DOMAIN symbols /\ a[1] \in Nat /\ a[2] \in Nat /\ a[2] + len <= Len(symbols[a[1]])
      /\ b[1] \in DOMAIN symbols /\ b[1] \in Nat /\ b[2] \in Nat /\ b[2] + len <= Len(symbols[b[1]])
      /\ Len(symbols[a[1]]) \in Nat /\ Len(symbols[b[1]]) \in Nat
    BY WindowsArePlaces, ReadingTypes DEF IsAMatch, Fits
<1>3. Agree(symbols, a, b, len) /\ Before(a, b) /\ (a[1] = b[1] => a[2] + len <= b[2])
    <2>1. a[1] = b[1] => len <= b[2] - a[2]
        BY DEF IsAMatch
    <2>2. Agree(symbols, a, b, len) /\ Before(a, b)
        BY DEF IsAMatch
    <2> HIDE DEF a, b, len
    <2> QED BY <1>1, <1>2, <2>1, <2>2
<1>4. PICK k \in 0 .. (len - min) : \/ c \in Span(<<a[1], a[2] + k>>, min)
                                    \/ c \in Span(<<b[1], b[2] + k>>, min)
    <2>1. ASSUME NEW p, p[1] \in Nat, p[2] \in Nat, c \in Span(p, len)
          PROVE  \E k \in 0 .. (len - min) : c \in Span(<<p[1], p[2] + k>>, min)
        <3>1. PICK t \in p[2] .. (p[2] + len - 1) : c = <<p[1], t>>
            BY <2>1 DEF Span
        <3> DEFINE off == t - p[2]
        <3>2. off \in 0 .. (len - 1)
            BY <1>1, <2>1
        <3>3. CASE off <= len - min
            <4>1. off \in 0 .. (len - min) /\ t \in (p[2] + off) .. (p[2] + off + min - 1)
                BY <1>1, <2>1, <3>2, <3>3
            <4>2. c \in Span(<<p[1], p[2] + off>>, min)
                BY <3>1, <4>1 DEF Span
            <4> QED BY <4>1, <4>2
        <3>4. CASE ~ (off <= len - min)
            <4>1. len - min \in 0 .. (len - min)
                  /\ t \in (p[2] + (len - min)) .. (p[2] + (len - min) + min - 1)
                BY <1>1, <2>1, <3>2, <3>4
            <4>2. c \in Span(<<p[1], p[2] + (len - min)>>, min)
                BY <3>1, <4>1 DEF Span
            <4> QED BY <4>1, <4>2
        <3> QED BY <3>3, <3>4
    <2>2. c \in Span(a, len) \/ c \in Span(b, len)
        OBVIOUS
    <2> HIDE DEF a, b, len, min
    <2> QED BY <2>1, <2>2, <1>2
<1>k. k \in 0 .. (len - min)
    OBVIOUS
<1> DEFINE p == <<a[1], a[2] + k>>  r == <<b[1], b[2] + k>>
<1> HIDE DEF a, b, len, min
<1>5. /\ p[1] = a[1] /\ p[2] = a[2] + k /\ p[2] \in Nat /\ p[2] + min <= Len(symbols[a[1]]) /\ k \in Nat
      /\ r[1] = b[1] /\ r[2] = b[2] + k /\ r[2] \in Nat /\ r[2] + min <= Len(symbols[b[1]])
    <2>1. k \in Nat /\ k + min <= len
        BY <1>1, <1>k
    <2>2. ASSUME NEW x \in Nat, NEW y \in Nat, x + len <= y
          PROVE  x + k \in Nat /\ x + k + min <= y
        BY <2>1, <2>2, <1>1
    <2>3. a[2] + k \in Nat /\ a[2] + k + min <= Len(symbols[a[1]])
        BY <2>2, <1>2
    <2>4. b[2] + k \in Nat /\ b[2] + k + min <= Len(symbols[b[1]])
        BY <2>2, <1>2
    <2>5. p[1] = a[1] /\ p[2] = a[2] + k /\ r[1] = b[1] /\ r[2] = b[2] + k
        OBVIOUS
    <2> HIDE DEF p, r
    <2> QED BY <2>1, <2>3, <2>4, <2>5
<1>b. p = <<a[1], p[2]>> /\ r = <<b[1], r[2]>>
    OBVIOUS
<1>a. c \in Span(p, min) \/ c \in Span(r, min)
    BY <1>4 DEF a, b, len, min
<1> HIDE DEF p, r
<1>6. p \in Places(symbols) /\ r \in Places(symbols)
    <2>1. p[2] \in 0 .. (Len(symbols[a[1]]) - 1) /\ r[2] \in 0 .. (Len(symbols[b[1]]) - 1)
        <3>1. ASSUME NEW x \in Nat, NEW y \in Nat, x + min <= y PROVE x \in 0 .. (y - 1)
            BY <1>1, <3>1
        <3> QED BY <3>1, <1>2, <1>5
    <2>2. ASSUME NEW file \in DOMAIN symbols, NEW x \in 0 .. (Len(symbols[file]) - 1)
          PROVE  <<file, x>> \in Places(symbols)
        BY DEF Places
    <2>3. a[1] \in DOMAIN symbols /\ b[1] \in DOMAIN symbols
        BY <1>2
    <2> QED BY <1>b, <2>1, <2>2, <2>3
<1>7. p # r
    BY <1>2, <1>3, <1>5 DEF Before
<1>8. Slice(symbols, p, min) = Slice(symbols, r, min)
    <2>1. Fits(symbols, p, min) /\ Fits(symbols, r, min)
        BY <1>2, <1>5 DEF Fits
    <2>2. ASSUME NEW j \in 1 .. min PROVE symbols[p[1]][p[2] + j] = symbols[r[1]][r[2] + j]
        <3>1. k + j \in 1 .. len /\ a[2] + (k + j) = a[2] + k + j /\ b[2] + (k + j) = b[2] + k + j
            <4>1. k + j \in 1 .. len
                BY <1>1, <1>k
            <4>2. ASSUME NEW x \in Nat PROVE x + (k + j) = x + k + j
                BY <1>1, <1>k
            <4> QED BY <1>2, <4>1, <4>2
        <3>2. symbols[a[1]][a[2] + (k + j)] = symbols[b[1]][b[2] + (k + j)]
            BY <1>3, <3>1 DEF Agree
        <3> QED BY <1>5, <3>1, <3>2
    <2>3. Agree(symbols, p, r, min)
        BY <2>2 DEF Agree
    <2> QED BY <1>1, <2>1, <2>3, SlicesAgree
<1>9. Span(p, min) \cap Span(r, min) = {}
    <2>1. SUFFICES ASSUME NEW d \in Span(p, min), d \in Span(r, min) PROVE FALSE
        OBVIOUS
    <2>2. PICK t \in p[2] .. (p[2] + min - 1) : d = <<p[1], t>>
        BY DEF Span
    <2>3. PICK u \in r[2] .. (r[2] + min - 1) : d = <<r[1], u>>
        BY <2>1 DEF Span
    <2>4. p[1] = r[1] /\ t = u
        BY <2>2, <2>3
    <2>5. ASSUME NEW x \in Nat, NEW y \in Nat, x + len <= y,
                 t \in (x + k) .. (x + k + min - 1), t \in (y + k) .. (y + k + min - 1)
          PROVE  FALSE
        BY <2>5, <1>1, <1>k
    <2>6. a[1] = b[1] /\ t \in (a[2] + k) .. (a[2] + k + min - 1) /\ t \in (b[2] + k) .. (b[2] + k + min - 1)
        BY <1>5, <2>2, <2>3, <2>4
    <2> QED BY <1>2, <1>3, <2>5, <2>6
<1>10. Twin(symbols, p, r, min) /\ Twin(symbols, r, p, min)
    BY <1>5, <1>7, <1>8, <1>9 DEF Twin
<1> QED BY <1>6, <1>10, <1>a DEF Copied, min

SameText(symbols, matches, m) ==
    {o \in matches : o.len = m.len /\ Slice(symbols, o.at, o.len) = Slice(symbols, m.at, m.len)}

GroupOf(symbols, matches, m) ==
    [len |-> m.len, members |-> UNION {{n.at, n.to} : n \in SameText(symbols, matches, m)}]

(* The groups, by their matches.                                            *)
LEMMA GroupsUnfold ==
    ASSUME NEW symbols, NEW matches
    PROVE  Groups(symbols, matches) = {GroupOf(symbols, matches, m) : m \in matches}
BY DEF Groups, GroupOf, SameText

(* Both places of a match hold its text.                                    *)
LEMMA MatchHasOneText ==
    ASSUME NEW symbols, Readings(symbols), NEW m, IsAMatch(symbols, m)
    PROVE  /\ m.at \in Places(symbols) /\ m.to \in Places(symbols) /\ m.at # m.to
           /\ Slice(symbols, m.at, m.len) = Slice(symbols, m.to, m.len)
<1>1. m.at \in Places(symbols) /\ m.to \in Places(symbols)
    BY WindowsArePlaces DEF IsAMatch
<1>2. m.at # m.to
    <2>1. m.at[1] \in Nat /\ m.at[2] \in Nat /\ Before(m.at, m.to)
        BY WindowsArePlaces DEF IsAMatch
    <2> QED BY <2>1 DEF Before
<1>3. Slice(symbols, m.at, m.len) = Slice(symbols, m.to, m.len)
    BY SlicesAgree DEF IsAMatch
<1> QED BY <1>1, <1>2, <1>3

GoodGroup(symbols, g) ==
    /\ g.len \in Nat /\ g.len >= MinCloneTokens
    /\ IsFiniteSet(g.members) /\ g.members \subseteq Places(symbols) /\ Cardinality(g.members) > 1
    /\ \E text : \A p \in g.members : Slice(symbols, p, g.len) = text

(* A group has two places or more, and they hold one text.                  *)
LEMMA GroupsAreGood ==
    ASSUME NEW symbols, Readings(symbols), NEW matches, Found(symbols, matches),
           NEW g \in Groups(symbols, matches)
    PROVE  GoodGroup(symbols, g)
<1>1. PICK m \in matches : g = GroupOf(symbols, matches, m)
    BY GroupsUnfold
<1>2. g.len = m.len /\ g.members = UNION {{n.at, n.to} : n \in SameText(symbols, matches, m)}
    BY <1>1 DEF GroupOf
<1>3. IsAMatch(symbols, m) /\ m.len >= MinCloneTokens /\ m.len \in Nat
    BY DEF Found, IsAMatch
<1>4. ASSUME NEW p \in g.members
      PROVE  p \in Places(symbols) /\ Slice(symbols, p, g.len) = Slice(symbols, m.at, m.len)
    <2>1. PICK n \in SameText(symbols, matches, m) : p \in {n.at, n.to}
        BY <1>2
    <2>2. n \in matches /\ n.len = m.len /\ Slice(symbols, n.at, n.len) = Slice(symbols, m.at, m.len)
        BY DEF SameText
    <2>3. IsAMatch(symbols, n)
        BY <2>2 DEF Found
    <2> QED BY <1>2, <2>1, <2>2, <2>3, MatchHasOneText
<1>5. g.members \subseteq Places(symbols) /\ IsFiniteSet(g.members)
    <2>1. g.members \subseteq Places(symbols)
        BY <1>4
    <2> QED BY <2>1, PlacesAreFinite, FS_Subset
<1>6. {m.at, m.to} \subseteq g.members /\ m.at # m.to
    <2>1. m \in SameText(symbols, matches, m)
        BY DEF SameText
    <2> QED BY <1>2, <1>3, <2>1, MatchHasOneText
<1>7. Cardinality(g.members) > 1
    <2>1. IsFiniteSet({m.at}) /\ Cardinality({m.at}) = 1 /\ {m.at} \subseteq g.members
        BY <1>6, FS_Singleton
    <2>2. {m.at} # g.members
        BY <1>6
    <2>3. 1 <= Cardinality(g.members) /\ Cardinality(g.members) # 1
        BY <1>5, <2>1, <2>2, FS_Subset
    <2> QED BY <1>5, <2>3, FS_CardinalityType
<1>8. \E text : \A p \in g.members : Slice(symbols, p, g.len) = text
    BY <1>4
<1> QED BY <1>2, <1>3, <1>5, <1>7, <1>8 DEF GoodGroup

(* One text, one group.                                                     *)
LEMMA GroupsAreApart ==
    ASSUME NEW symbols, Readings(symbols), NEW matches, Found(symbols, matches),
           NEW g \in Groups(symbols, matches), NEW h \in Groups(symbols, matches),
           g.len = h.len, NEW p, p \in g.members, p \in h.members
    PROVE  g = h
<1>1. PICK m \in matches : g = GroupOf(symbols, matches, m)
    BY GroupsUnfold
<1>2. PICK o \in matches : h = GroupOf(symbols, matches, o)
    BY GroupsUnfold
<1>3. ASSUME NEW n \in matches, p \in GroupOf(symbols, matches, n).members
      PROVE  Slice(symbols, p, n.len) = Slice(symbols, n.at, n.len)
    <2>1. PICK x \in SameText(symbols, matches, n) : p \in {x.at, x.to}
        BY <1>3 DEF GroupOf
    <2>2. x \in matches /\ x.len = n.len /\ Slice(symbols, x.at, x.len) = Slice(symbols, n.at, n.len)
        BY DEF SameText
    <2>3. IsAMatch(symbols, x)
        BY <2>2 DEF Found
    <2> QED BY <2>1, <2>2, <2>3, MatchHasOneText
<1>4. m.len = o.len
    BY <1>1, <1>2 DEF GroupOf
<1>5. Slice(symbols, m.at, m.len) = Slice(symbols, o.at, o.len)
    BY <1>1, <1>2, <1>3, <1>4
<1>6. SameText(symbols, matches, m) = SameText(symbols, matches, o)
    BY <1>4, <1>5 DEF SameText
<1> QED BY <1>1, <1>2, <1>4, <1>6 DEF GroupOf

(* Finitely many matches make finitely many groups.                         *)
LEMMA GroupsAreFinite ==
    ASSUME NEW symbols, NEW matches, IsFiniteSet(matches)
    PROVE  IsFiniteSet(Groups(symbols, matches))
<1> DEFINE of == [m \in matches |-> GroupOf(symbols, matches, m)]
           G  == {of[m] : m \in matches}
<1>1. of \in Surjection(matches, G)
    BY DEF Surjection
<1>2. IsFiniteSet(G)
    <2> HIDE DEF of, G
    <2> QED BY <1>1, FS_Surjection
<1>3. G = Groups(symbols, matches)
    BY GroupsUnfold
<1> QED BY <1>2, <1>3

(* The groups cover what the matches cover.                                 *)
Spans(matches) == UNION {Span(m.at, m.len) \cup Span(m.to, m.len) : m \in matches}

(* No token is lost and none is added when matches are grouped.             *)
LEMMA GroupsCoverMatches ==
    ASSUME NEW symbols, NEW matches
    PROVE  UNION {CoveredBy(g) : g \in Groups(symbols, matches)} = Spans(matches)
<1>1. ASSUME NEW g \in Groups(symbols, matches), NEW c \in CoveredBy(g) PROVE c \in Spans(matches)
    <2>1. PICK m \in matches : g = GroupOf(symbols, matches, m)
        BY GroupsUnfold
    <2>2. PICK p \in g.members : c \in Span(p, g.len)
        BY DEF CoveredBy
    <2>3. PICK n \in SameText(symbols, matches, m) : p \in {n.at, n.to}
        BY <2>1 DEF GroupOf
    <2>4. n \in matches /\ n.len = g.len
        BY <2>1 DEF SameText, GroupOf
    <2> QED BY <2>2, <2>3, <2>4 DEF Spans
<1>2. ASSUME NEW m \in matches, NEW c \in Span(m.at, m.len) \cup Span(m.to, m.len)
      PROVE  \E g \in Groups(symbols, matches) : c \in CoveredBy(g)
    <2> DEFINE g == GroupOf(symbols, matches, m)
    <2>1. g \in Groups(symbols, matches)
        BY GroupsUnfold
    <2>2. m \in SameText(symbols, matches, m)
        BY DEF SameText
    <2>3. m.at \in g.members /\ m.to \in g.members /\ g.len = m.len
        BY <2>2 DEF GroupOf
    <2> HIDE DEF g
    <2>4. c \in CoveredBy(g)
        BY <2>3 DEF CoveredBy
    <2> QED BY <2>1, <2>4
<1>3. ASSUME NEW c \in Spans(matches) PROVE c \in UNION {CoveredBy(g) : g \in Groups(symbols, matches)}
    <2>1. PICK m \in matches : c \in Span(m.at, m.len) \cup Span(m.to, m.len)
        BY DEF Spans
    <2> QED BY <2>1, <1>2
<1> QED BY <1>1, <1>3

----------------------------------------------------------------------------
(* The order the groups compete in.                                         *)
First(g) == InOrder(g.members)[1]

(* The first place of a group is one of its places.                         *)
LEMMA FirstIsAMember ==
    ASSUME NEW symbols, Readings(symbols), NEW g, GoodGroup(symbols, g)
    PROVE  /\ First(g) \in g.members /\ First(g)[1] \in Nat /\ First(g)[2] \in Nat
           /\ Len(InOrder(g.members)) \in Nat /\ Len(InOrder(g.members)) >= 1
           /\ InOrder(g.members) \in Seq(Nat \X Nat)
           /\ g.members \subseteq Nat \X Nat
<1> DEFINE S == g.members  s == InOrder(g.members)
<1>1. IsFiniteSet(S) /\ S \subseteq Nat \X Nat
    BY PlacesAreFinite DEF GoodGroup
<1>2. Cardinality(S) \in Nat /\ Cardinality(S) > 1
    BY <1>1, FS_CardinalityType DEF GoodGroup
<1>3. InOrderOf(S, s)
    <2> HIDE DEF S
    <2>1. InOrderOf(S, InOrder(S))
        BY <1>1, PlacesAreOrdered
    <2> QED BY <2>1 DEF S
<1> HIDE DEF S, s
<1>4. Len(s) = Cardinality(S) /\ DOMAIN s = 1 .. Cardinality(S) /\ \A i \in DOMAIN s : s[i] \in S
    BY <1>3, OrderHasLength
<1>5. 1 \in 1 .. Cardinality(S)
    BY <1>2
<1>6. s[1] \in S
    BY <1>4, <1>5
<1>7. s \in Seq(Nat \X Nat)
    <2>1. s \in [1 .. Cardinality(S) -> Nat \X Nat]
        BY <1>1, <1>3 DEF InOrderOf
    <2> QED BY <1>2, <2>1, SeqDef
<1>8. s[1][1] \in Nat /\ s[1][2] \in Nat
    BY <1>1, <1>6
<1>9. First(g) = s[1]
    BY DEF First, s
<1> QED BY <1>1, <1>2, <1>4, <1>6, <1>7, <1>8, <1>9 DEF S, s

(* Where the first places differ they decide which group comes first.       *)
LEMMA FirstPlacesDecide ==
    ASSUME NEW s \in Seq(Nat \X Nat), NEW t \in Seq(Nat \X Nat), Len(s) >= 1, Len(t) >= 1, s[1] # t[1]
    PROVE  EarlierPlaces(s, t) <=> Before(s[1], t[1])
<1>0. Len(s) \in Nat /\ Len(t) \in Nat
    OBVIOUS
<1>1. ASSUME Before(s[1], t[1]) PROVE EarlierPlaces(s, t)
    <2>1. 1 \in 1 .. (Len(s) + 1) /\ 1 <= Len(s) /\ 1 <= Len(t)
        BY <1>0
    <2>2. SubSeq(s, 1, 1 - 1) = SubSeq(t, 1, 1 - 1)
        <3>1. 1 - 1 \in Int /\ 1 \in Int /\ 1 - 1 < 1
            OBVIOUS
        <3>2. SubSeq(s, 1, 1 - 1) = <<>> /\ SubSeq(t, 1, 1 - 1) = <<>>
            BY <3>1, SubSeqEmpty
        <3> QED BY <3>2
    <2> QED BY <1>1, <2>1, <2>2 DEF EarlierPlaces
<1>2. ASSUME EarlierPlaces(s, t) PROVE Before(s[1], t[1])
    <2>1. PICK i \in 1 .. (Len(s) + 1) :
              /\ SubSeq(s, 1, i - 1) = SubSeq(t, 1, i - 1)
              /\ \/ i = Len(s) + 1 /\ i <= Len(t)
                 \/ i <= Len(s) /\ i <= Len(t) /\ Before(s[i], t[i])
        BY <1>2 DEF EarlierPlaces
    <2>2. CASE i = 1
        BY <2>1, <2>2, <1>0
    <2>3. CASE i # 1
        <3> DEFINE n == i - 1
        <3>1. n \in Nat /\ n >= 1 /\ n <= Len(s) /\ n <= Len(t) /\ 1 \in Int /\ n \in Int
            BY <2>1, <2>3, <1>0
        <3>2. \A j \in 1 .. n : s[j] \in Nat \X Nat /\ t[j] \in Nat \X Nat
            <4>1. ASSUME NEW u \in Seq(Nat \X Nat), NEW k \in Nat, k <= Len(u), NEW j \in 1 .. k
                  PROVE  u[j] \in Nat \X Nat
                <5>1. j \in 1 .. Len(u)
                    BY <4>1
                <5>2. u \in [1 .. Len(u) -> Nat \X Nat]
                    OBVIOUS
                <5> QED BY <5>1, <5>2
            <4> HIDE DEF n
            <4> QED BY <3>1, <4>1
        <3> HIDE DEF n
        <3>3. \A j \in 1 .. n - 1 + 1 : SubSeq(s, 1, n)[j] = s[1 + j - 1] /\ SubSeq(t, 1, n)[j] = t[1 + j - 1]
            BY <3>1, <3>2, SubSeqProperties
        <3>4. 1 \in 1 .. n - 1 + 1 /\ 1 + 1 - 1 = 1
            BY <3>1
        <3>5. s[1] = t[1]
            <4>1. SubSeq(s, 1, n)[1] = s[1 + 1 - 1] /\ SubSeq(t, 1, n)[1] = t[1 + 1 - 1]
                BY <3>3, <3>4
            <4>2. SubSeq(s, 1, n) = SubSeq(t, 1, n)
                BY <2>1 DEF n
            <4> QED BY <3>4, <4>1, <4>2
        <3> QED BY <3>5
    <2> QED BY <2>2, <2>3
<1> QED BY <1>1, <1>2

(* No group comes before itself.                                            *)
LEMMA NoPlacesAreEarlierThanThemselves ==
    ASSUME NEW s \in Seq(Nat \X Nat)
    PROVE  ~ EarlierPlaces(s, s)
<1>1. SUFFICES ASSUME EarlierPlaces(s, s) PROVE FALSE
    OBVIOUS
<1>2. Len(s) \in Nat
    OBVIOUS
<1>3. PICK i \in 1 .. (Len(s) + 1) : i <= Len(s) /\ Before(s[i], s[i])
    BY <1>1, <1>2 DEF EarlierPlaces
<1>4. s[i] \in Nat \X Nat
    BY <1>2, <1>3
<1> QED BY <1>3, <1>4 DEF Before

(* The order the groups compete in is a strict one, so sorting them loses   *)
(* none of its places.                                                      *)
LEMMA GroupsAreOrdered ==
    ASSUME NEW symbols, Readings(symbols), NEW matches, Found(symbols, matches),
           NEW G, G = Groups(symbols, matches), NEW ordered, ordered = Sorted(G, Longer)
    PROVE  /\ Cardinality(G) \in Nat /\ ordered \in [1 .. Cardinality(G) -> G]
<1> DEFINE Leads(g, h) == g.len > h.len \/ (g.len = h.len /\ Before(First(g), First(h)))
           before == [g \in G |-> {h \in G : Leads(h, g)}]
           pick(n) == CHOOSE g \in G : Cardinality({h \in G : Longer(h, g)}) = n - 1
           order == [n \in 1 .. Cardinality(G) |-> pick(n)]
<1>1. IsFiniteSet(G) /\ Cardinality(G) \in Nat
    BY GroupsAreFinite, FS_CardinalityType DEF Found
<1>2. ASSUME NEW g \in G
      PROVE  /\ GoodGroup(symbols, g) /\ g.len \in Nat /\ First(g) \in g.members
             /\ First(g)[1] \in Nat /\ First(g)[2] \in Nat
             /\ g.members \subseteq Nat \X Nat /\ InOrder(g.members) \in Seq(Nat \X Nat)
             /\ Len(InOrder(g.members)) >= 1
    <2>1. GoodGroup(symbols, g)
        BY GroupsAreGood
    <2> QED BY <2>1, FirstIsAMember DEF GoodGroup
<1>3. ASSUME NEW g \in G, NEW h \in G, g.len = h.len, First(g) = First(h) PROVE g = h
    BY <1>2, <1>3, GroupsAreApart
<1>4. ASSUME NEW g \in G, NEW h \in G PROVE Longer(g, h) <=> Leads(g, h)
    <2>1. CASE g = h
        <3>1. ~ EarlierPlaces(InOrder(g.members), InOrder(h.members))
            BY <1>2, <2>1, NoPlacesAreEarlierThanThemselves
        <3>2. ~ Before(First(g), First(h))
            BY <1>2, <2>1 DEF Before
        <3> QED BY <3>1, <3>2 DEF Longer
    <2>2. CASE g.len # h.len
        BY <2>2 DEF Longer
    <2>3. CASE g # h /\ g.len = h.len
        <3>1. First(g) # First(h)
            BY <1>3, <2>3
        <3>2. EarlierPlaces(InOrder(g.members), InOrder(h.members)) <=> Before(First(g), First(h))
            BY <1>2, <3>1, FirstPlacesDecide DEF First
        <3> QED BY <2>3, <3>2 DEF Longer
    <2> QED BY <2>1, <2>2, <2>3
<1>5. StrictOrder(G, before)
    <2>1. \A g \in G : ~ Leads(g, g)
        BY <1>2 DEF Before
    <2>2. ASSUME NEW a \in G, NEW b \in G, NEW c \in G, Leads(b, a), Leads(c, b) PROVE Leads(c, a)
        <3>1. a.len \in Nat /\ b.len \in Nat /\ c.len \in Nat
            BY <1>2
        <3>2. CASE b.len > a.len \/ c.len > b.len
            BY <2>2, <3>1, <3>2
        <3>3. CASE b.len = a.len /\ c.len = b.len
            <4>1. Before(First(b), First(a)) /\ Before(First(c), First(b))
                BY <2>2, <3>1, <3>3
            <4>2. /\ First(a)[1] \in Nat /\ First(b)[1] \in Nat /\ First(c)[1] \in Nat
                  /\ First(a)[2] \in Nat /\ First(b)[2] \in Nat /\ First(c)[2] \in Nat
                BY <1>2
            <4>3. Before(First(c), First(a))
                BY <4>1, <4>2 DEF Before
            <4> QED BY <3>3, <4>3
        <3> QED BY <2>2, <3>1, <3>2, <3>3
    <2>3. ASSUME NEW a \in G, NEW b \in G, a # b PROVE Leads(a, b) \/ Leads(b, a)
        <3>1. CASE a.len # b.len
            <4>1. a.len \in Nat /\ b.len \in Nat
                BY <1>2
            <4>2. a.len > b.len \/ b.len > a.len
                BY <3>1, <4>1
            <4> QED BY <4>2 DEF Leads
        <3>2. CASE a.len = b.len
            <4>1. First(a) # First(b)
                BY <1>3, <2>3, <3>2
            <4>2. First(a) \in Nat \X Nat /\ First(b) \in Nat \X Nat
                BY <1>2
            <4>3. First(a)[1] # First(b)[1] \/ First(a)[2] # First(b)[2]
                BY <4>1, <4>2
            <4>4. First(a)[1] \in Nat /\ First(a)[2] \in Nat /\ First(b)[1] \in Nat /\ First(b)[2] \in Nat
                BY <1>2
            <4>5. Before(First(a), First(b)) \/ Before(First(b), First(a))
                BY <4>3, <4>4 DEF Before
            <4> QED BY <3>2, <4>5
        <3> QED BY <3>1, <3>2
    <2>4. before \in [G -> SUBSET G] /\ \A a, b \in G : a \in before[b] <=> Leads(a, b)
        OBVIOUS
    <2> HIDE DEF before, Leads
    <2> QED BY <2>1, <2>2, <2>3, <2>4 DEF StrictOrder
<1>6. ASSUME NEW n \in 1 .. Cardinality(G) PROVE order[n] \in G
    <2>1. PICK g \in G : Cardinality(before[g]) = n - 1
        <3> HIDE DEF before
        <3> QED BY <1>1, <1>5, RanksAreTaken
    <2>2. before[g] = {h \in G : Longer(h, g)}
        <3> HIDE DEF Leads
        <3> QED BY <1>4
    <2>3. Cardinality({h \in G : Longer(h, g)}) = n - 1
        BY <2>1, <2>2
    <2>4. pick(n) \in G
        BY <2>3
    <2> HIDE DEF pick
    <2> QED BY <2>4
<1>7. order \in [1 .. Cardinality(G) -> G]
    <2> HIDE DEF pick
    <2> QED BY <1>6
<1>8. ordered = <<>> \o order
    BY DEF Sorted
<1>9. <<>> \o order = order
    <2> HIDE DEF order
    <2>1. order \in Seq(G)
        BY <1>1, <1>7, SeqDef
    <2> QED BY <2>1, ConcatEmptySeq
<1> HIDE DEF order
<1> QED BY <1>1, <1>7, <1>8, <1>9

(* The groups told cover no token twice.                                    *)
ApartGroups(kept) ==
    \A i \in DOMAIN kept : \A j \in 1 .. (i - 1) : CoveredBy(kept[i]) \cap CoveredBy(kept[j]) = {}

ToldApart(G, groups) ==
    groups \in Seq(G) /\ ApartGroups(groups)

(* The groups told are groups found, and no two of them share a token       *)
(* (detect.rs, the selection of the groups).                                *)
LEMMA KeptIsApart ==
    ASSUME NEW symbols, Readings(symbols), NEW matches, Found(symbols, matches),
           NEW G, G = Groups(symbols, matches)
    PROVE  ToldApart(G, Kept(G))
<1> DEFINE ordered == Sorted(G, Longer)
           last == Len(ordered)
           T == Seq(G)
           Take(kept, n) == IF CoveredBy(ordered[n]) \cap UNION {CoveredBy(k) : k \in ToSet(kept)} = {}
                            THEN Append(kept, ordered[n]) ELSE kept
           step == [p \in (1 .. last) \X T |-> Take(p[2], p[1])]
           IsKept(f) == f = [n \in 0 .. Len(ordered) |->
                               IF n = 0 THEN <<>>
                               ELSE IF CoveredBy(ordered[n]) \cap UNION {CoveredBy(k) : k \in ToSet(f[n - 1])} = {}
                                    THEN Append(f[n - 1], ordered[n])
                                    ELSE f[n - 1]]
<1>1. last \in Nat /\ \A n \in 1 .. last : ordered[n] \in G
    <2>1. Cardinality(G) \in Nat /\ ordered \in [1 .. Cardinality(G) -> G]
        BY GroupsAreOrdered
    <2> HIDE DEF ordered
    <2>2. last = Cardinality(G)
        BY <2>1, SeqDef, LenProperties
    <2> QED BY <2>1, <2>2
<1> HIDE DEF ordered
<1>2. ASSUME NEW n \in 1 .. last, NEW kept \in T PROVE Take(kept, n) \in T
    <2>1. Append(kept, ordered[n]) \in T
        BY <1>1, AppendProperties
    <2> QED BY <2>1
<1>3. step \in [(1 .. last) \X T -> T] /\ <<>> \in T
    <2>1. \A p \in (1 .. last) \X T : Take(p[2], p[1]) \in T
        <3>1. \A p \in (1 .. last) \X T : p[1] \in 1 .. last /\ p[2] \in T
            OBVIOUS
        <3> HIDE DEF Take, T, last
        <3> QED BY <3>1, <1>2
    <2>2. <<>> \in T
        OBVIOUS
    <2> HIDE DEF Take, T, last
    <2> QED BY <2>1, <2>2
<1>4. PICK g : Unrolls(g, T, <<>>, last, step)
    <2> HIDE DEF T, last, step
    <2> QED BY <1>1, <1>3, Recursion
<1>5. g \in [0 .. last -> T] /\ g[0] = <<>> /\ \A n \in 1 .. last : g[n] = step[<<n, g[n - 1]>>]
    <2> HIDE DEF T, last, step
    <2> QED BY <1>4 DEF Unrolls
<1>6. ASSUME NEW n \in 1 .. last PROVE g[n] = Take(g[n - 1], n)
    <2>1. n - 1 \in 0 .. last
        BY <1>1
    <2>2. g[n - 1] \in T /\ g[n] = step[<<n, g[n - 1]>>]
        <3> HIDE DEF step, last, T
        <3> QED BY <1>5, <2>1
    <2>3. <<n, g[n - 1]>> \in (1 .. last) \X T
        BY <2>2
    <2> HIDE DEF Take, last, T
    <2> QED BY <2>2, <2>3
<1>7. IsKept(g)
    <2>1. g = [n \in 0 .. last |-> g[n]]
        BY <1>5
    <2>2. ASSUME NEW n \in 0 .. last, n # 0 PROVE g[n] = Take(g[n - 1], n)
        <3>1. n \in 1 .. last
            BY <2>2, <1>1
        <3> HIDE DEF Take, last
        <3> QED BY <3>1, <1>6
    <2> HIDE DEF T, step
    <2> QED BY <2>1, <2>2, <1>5
<1>8. PICK f : IsKept(f) /\ Kept(G) = f[last]
    <2>1. \E f : IsKept(f)
        BY <1>7
    <2> QED BY <2>1 DEF Kept, ordered
<1> DEFINE S == {n \in 0 .. last : f[n] \in T /\ ApartGroups(f[n])}
<1>9. 0 \in S
    <2>1. f[0] = <<>>
        BY <1>1, <1>8
    <2>2. ApartGroups(<<>>)
        BY DEF ApartGroups
    <2> HIDE DEF T
    <2> QED BY <1>1, <1>3, <2>1, <2>2
<1>10. ASSUME NEW n \in 1 .. last, n - 1 \in S PROVE n \in S
    <2>1. n \in 0 .. last /\ n # 0
        BY <1>1
    <2>2. f[n] = Take(f[n - 1], n)
        BY <1>8, <2>1
    <2>3. f[n] \in T
        <3> HIDE DEF T, Take
        <3> QED BY <1>2, <1>10, <2>1, <2>2
    <2> DEFINE kept == f[n - 1]  new == ordered[n]
    <2>4. kept \in T /\ ApartGroups(kept)
        BY <1>10
    <2>5. CASE CoveredBy(new) \cap UNION {CoveredBy(k) : k \in ToSet(kept)} = {}
        <3>1. f[n] = Append(kept, new)
            BY <2>2, <2>5
        <3>2. new \in G
            BY <1>1
        <3> HIDE DEF kept, new
        <3>3. /\ Len(kept) \in Nat /\ DOMAIN Append(kept, new) = 1 .. (Len(kept) + 1)
              /\ \A i \in 1 .. Len(kept) : Append(kept, new)[i] = kept[i]
              /\ Append(kept, new)[Len(kept) + 1] = new
              /\ DOMAIN kept = 1 .. Len(kept)
            <4>1. kept \in Seq(G)
                BY <2>4
            <4>2. /\ Len(Append(kept, new)) = Len(kept) + 1
                  /\ \A i \in 1 .. Len(kept) : Append(kept, new)[i] = kept[i]
                  /\ Append(kept, new)[Len(kept) + 1] = new
                BY <3>2, <4>1, AppendProperties
            <4>3. Append(kept, new) \in Seq(G)
                BY <3>2, <4>1, AppendProperties
            <4> QED BY <4>1, <4>2, <4>3, LenProperties
        <3>4. \A j \in 1 .. Len(kept) : CoveredBy(new) \cap CoveredBy(kept[j]) = {}
            <4>1. \A j \in 1 .. Len(kept) : kept[j] \in ToSet(kept)
                BY <3>3 DEF ToSet
            <4> QED BY <4>1, <2>5
        <3> DEFINE next == Append(kept, new)
        <3> HIDE DEF next
        <3>5. ASSUME NEW i \in DOMAIN next, NEW j \in 1 .. (i - 1)
              PROVE  CoveredBy(next[i]) \cap CoveredBy(next[j]) = {}
            <4>1. j \in 1 .. Len(kept) /\ i \in 1 .. (Len(kept) + 1)
                BY <3>3 DEF next
            <4>2. next[j] = kept[j]
                BY <3>3, <4>1 DEF next
            <4>3. CASE i = Len(kept) + 1
                BY <3>3, <3>4, <4>1, <4>2, <4>3 DEF next
            <4>4. CASE i # Len(kept) + 1
                <5>1. i \in 1 .. Len(kept) /\ i \in DOMAIN kept
                    BY <3>3, <4>1, <4>4
                <5>2. next[i] = kept[i]
                    BY <3>3, <5>1 DEF next
                <5> QED BY <2>4, <4>2, <5>1, <5>2 DEF ApartGroups
            <4> QED BY <4>3, <4>4
        <3>6. ApartGroups(next)
            BY <3>5 DEF ApartGroups
        <3> HIDE DEF T
        <3> QED BY <2>1, <2>3, <3>1, <3>6 DEF next
    <2>6. CASE CoveredBy(new) \cap UNION {CoveredBy(k) : k \in ToSet(kept)} # {}
        <3>1. f[n] = kept
            BY <2>2, <2>6
        <3> HIDE DEF T, kept
        <3> QED BY <2>1, <2>3, <2>4, <3>1
    <2> QED BY <2>5, <2>6
<1>11. last \in S
    <2> HIDE DEF S, last
    <2>1. 0 .. last \subseteq S
        BY <1>1, <1>9, <1>10, EveryNumberTo
    <2> QED BY <2>1, <1>1
<1> QED BY <1>8, <1>11 DEF ToldApart

(* What a search reports.                                                   *)
Tells(report, files, symbols, matches, truncated) ==
    /\ report.files = files
    /\ report.groups = Kept(Groups(symbols, matches))
    /\ report.covered = Spans(matches)
    /\ report.tokens = [f \in DOMAIN files |-> Len(symbols[f])]
    /\ report.truncated = truncated

(* The report of a search, field by field.                                  *)
LEMMA DetectTells ==
    ASSUME NEW index, NEW paths, NEW cap, NEW budget,
           NEW files, NEW symbols, ReadAs(index, paths, files, symbols)
    PROVE  Tells(Detect(index, paths, cap, budget), files, symbols,
                 Matches(index, files, cap, budget), Truncated(index, files, cap, budget))
<1> DEFINE matches == Matches(index, files, cap, budget)
<1>0. files = IndexedFiles(index, paths) /\ symbols = SymbolsOf(index, files)
    BY DEF ReadAs
<1>1. UNION {CoveredBy(g) : g \in Groups(symbols, matches)} = Spans(matches)
    BY GroupsCoverMatches
<1>2. Detect(index, paths, cap, budget).files = files
    BY <1>0 DEF Detect
<1>3. Detect(index, paths, cap, budget).groups = Kept(Groups(symbols, matches))
    BY <1>0 DEF Detect
<1>4. Detect(index, paths, cap, budget).covered = UNION {CoveredBy(g) : g \in Groups(symbols, matches)}
    BY <1>0 DEF Detect
<1>5. Detect(index, paths, cap, budget).tokens = [f \in DOMAIN files |-> Len(symbols[f])]
    BY <1>0 DEF Detect
<1>6. Detect(index, paths, cap, budget).truncated = Truncated(index, files, cap, budget)
    BY <1>0 DEF Detect
<1> QED BY <1>1, <1>2, <1>3, <1>4, <1>5, <1>6 DEF Tells

(* A search of a good index: what an answer rests on.                       *)
Searched(index, paths) ==
    GoodIndex(index) /\ IsFiniteSet(paths) /\ paths \subseteq Nat

(* What a search of a good index reads and finds.                           *)
LEMMA WhatIsSearched ==
    ASSUME NEW index, NEW paths, Searched(index, paths),
           NEW files, NEW symbols, ReadAs(index, paths, files, symbols), NEW cap, NEW budget
    PROVE  /\ Readings(symbols) /\ WindowsOf(index, files, symbols)
           /\ Found(symbols, Matches(index, files, cap, budget))
<1>1. GoodIndex(index) /\ IsFiniteSet(paths) /\ paths \subseteq Nat
    BY DEF Searched
<1>2. Readings(symbols) /\ WindowsOf(index, files, symbols)
    BY <1>1, FilesAreRead
<1>3. symbols = SymbolsOf(index, files)
    BY DEF ReadAs
<1> QED BY <1>2, <1>3, SearchFinds

ClonesOf(report, symbols) ==
    /\ report.covered \subseteq Copied(symbols, LAMBDA at, to : TRUE)
    /\ \A i \in DOMAIN report.groups :
          /\ Cardinality(report.groups[i].members) > 1
          /\ Cardinality({Slice(symbols, at, report.groups[i].len) : at \in report.groups[i].members}) = 1
          /\ \A j \in 1..(i - 1) : CoveredBy(report.groups[i]) \cap CoveredBy(report.groups[j]) = {}

(* What a report calls a clone is one.                                      *)
LEMMA ClonesHold ==
    ASSUME NEW index, NEW paths, Searched(index, paths), NEW cap, NEW budget,
           NEW report, report = Detect(index, paths, cap, budget),
           NEW symbols, symbols = SymbolsOf(index, report.files)
    PROVE  ClonesOf(report, symbols)
<1> DEFINE files == IndexedFiles(index, paths)
           matches == Matches(index, files, cap, budget)
           G == Groups(symbols, matches)
<1>1. report.files = files /\ ReadAs(index, paths, files, symbols)
    <2>1. Detect(index, paths, cap, budget).files = files
        BY DEF Detect
    <2> QED BY <2>1 DEF ReadAs
<1>2. report.groups = Kept(G) /\ report.covered = Spans(matches)
    <2>1. Tells(report, files, symbols, matches, Truncated(index, files, cap, budget))
        BY <1>1, DetectTells
    <2> HIDE DEF matches, files
    <2> QED BY <2>1 DEF Tells
<1>3. Readings(symbols) /\ Found(symbols, matches)
    BY <1>1, WhatIsSearched
<1> HIDE DEF matches, files
<1>4. ASSUME NEW c \in report.covered PROVE c \in Copied(symbols, LAMBDA at, to : TRUE)
    <2>1. PICK m \in matches : c \in Span(m.at, m.len) \cup Span(m.to, m.len)
        BY <1>2 DEF Spans
    <2>2. IsAMatch(symbols, m) /\ m.len >= MinCloneTokens
        BY <1>3 DEF Found
    <2> QED BY <1>3, <2>1, <2>2, MatchesAreCopies
<1>5. ToldApart(G, report.groups)
    BY <1>2, <1>3, KeptIsApart
<1>6. ASSUME NEW i \in DOMAIN report.groups
      PROVE  /\ Cardinality(report.groups[i].members) > 1
             /\ Cardinality({Slice(symbols, at, report.groups[i].len) : at \in report.groups[i].members}) = 1
             /\ \A j \in 1..(i - 1) :
                   CoveredBy(report.groups[i]) \cap CoveredBy(report.groups[j]) = {}
    <2> DEFINE g == report.groups[i]
    <2>1. g \in G
        <3> HIDE DEF G
        <3> QED BY <1>5, <1>6 DEF ToldApart
    <2>2. GoodGroup(symbols, g)
        BY <1>3, <2>1, GroupsAreGood
    <2>3. PICK text : \A p \in g.members : Slice(symbols, p, g.len) = text
        BY <2>2 DEF GoodGroup
    <2>4. g.members # {}
        <3>1. Cardinality(g.members) > 1
            BY <2>2 DEF GoodGroup
        <3> SUFFICES ASSUME g.members = {} PROVE FALSE
            OBVIOUS
        <3>2. Cardinality(g.members) = 0
            BY FS_EmptySet
        <3> HIDE DEF g
        <3> QED BY <3>1, <3>2
    <2>5. {Slice(symbols, at, g.len) : at \in g.members} = {text}
        <3> HIDE DEF g
        <3> QED BY <2>3, <2>4
    <2>6. Cardinality({text}) = 1
        BY FS_Singleton
    <2>7. \A j \in 1..(i - 1) : CoveredBy(g) \cap CoveredBy(report.groups[j]) = {}
        BY <1>5 DEF ToldApart, ApartGroups
    <2>8. Cardinality(g.members) > 1
        BY <2>2 DEF GoodGroup
    <2> QED BY <2>5, <2>6, <2>7, <2>8
<1>7. report.covered \subseteq Copied(symbols, LAMBDA at, to : TRUE)
    BY <1>4
<1> QED BY <1>6, <1>7 DEF ClonesOf

(* A window's hash is the hash of its slice.                                *)
LEMMA WindowIsHashOfSlice ==
    ASSUME NEW symbols, Readings(symbols), NEW a, WindowAt(symbols, a)
    PROVE  /\ Windows(symbols[a[1]])[a[2] + 1] = HashOf(Slice(symbols, a, WindowTokens))
           /\ a[2] + 1 \in DOMAIN Windows(symbols[a[1]])
<1> DEFINE s == symbols[a[1]]  i == a[2] + 1
<1>1. a[1] \in DOMAIN symbols /\ a[2] \in Nat /\ a[2] + WindowTokens <= Len(s)
    BY DEF WindowAt
<1>2. s \in Seq(Nat) /\ Len(s) \in Nat
    BY <1>1, ReadingTypes
<1>3. i \in 1 .. (Len(s) - WindowTokens + 1) /\ i + WindowTokens - 1 = a[2] + WindowTokens
    <2>1. ASSUME NEW x \in Nat, NEW y \in Nat, NEW w \in Nat, w >= 1, x + w <= y
          PROVE  x + 1 \in 1 .. (y - w + 1) /\ x + 1 + w - 1 = x + w
        BY <2>1
    <2>2. WindowTokens \in Nat /\ WindowTokens >= 1
        BY WindowsAssumption
    <2> QED BY <1>1, <1>2, <2>1, <2>2
<1>4. Slice(symbols, a, WindowTokens) = SubSeq(s, i, i + WindowTokens - 1)
    BY <1>3 DEF Slice
<1> HIDE DEF s, i
<1>5. Windows(s)[i] = HashOf(SubSeq(s, i, i + WindowTokens - 1)) /\ i \in DOMAIN Windows(s)
    BY <1>2, <1>3, WindowsAreHashes
<1> QED BY <1>4, <1>5 DEF s, i

Unsaturated(index, files, cap) ==
    \A h \in Hashes(index, files) : Len(Occurrences(index, files, h)) <= cap

(* Two windows of different files that begin a copy are found.              *)
LEMMA CopyIsMatched ==
    ASSUME NEW index, NEW files, NEW symbols, Readings(symbols), WindowsOf(index, files, symbols),
           symbols = SymbolsOf(index, files), NEW cap \in Nat, NEW budget, Unsaturated(index, files, cap),
           NEW len \in Nat, len >= MinCloneTokens,
           NEW a, NEW b, WindowAt(symbols, a), WindowAt(symbols, b), a[1] < b[1],
           Fits(symbols, a, len), Fits(symbols, b, len), Agree(symbols, a, b, len),
           ~ PrecededByAMatch(symbols, a, b)
    PROVE  \E m \in Matches(index, files, cap, budget) : m.at = a /\ m.to = b /\ m.len >= len
<1> DEFINE h == Windows(symbols[a[1]])[a[2] + 1]
           occ == Occurrences(index, files, h)
           S == OfHash(symbols, h)
           n == Cardinality(S)
           m == Match(symbols, a, b)
<1>1. a \in (DOMAIN symbols) \X Nat /\ b \in (DOMAIN symbols) \X Nat /\ a[1] \in Nat /\ b[1] \in Nat
    BY WindowsArePlaces DEF WindowAt
<1>2. a[1] # b[1] /\ Before(a, b) /\ a # b /\ ~ Before(b, a)
    BY <1>1 DEF Before
<1>3. Slice(symbols, a, WindowTokens) = Slice(symbols, b, WindowTokens)
    <2>1. WindowTokens \in Nat /\ WindowTokens <= len
        BY WindowsAssumption
    <2>2. Agree(symbols, a, b, WindowTokens)
        BY <2>1 DEF Agree
    <2>3. Fits(symbols, a, WindowTokens) /\ Fits(symbols, b, WindowTokens)
        BY DEF WindowAt, Fits
    <2> QED BY <2>1, <2>2, <2>3, SlicesAgree
<1>4. a \in S /\ b \in S
    <2>1. Windows(symbols[b[1]])[b[2] + 1] = h
        BY <1>3, WindowIsHashOfSlice
    <2> QED BY <1>1, <2>1 DEF OfHash
<1>5. h \in Hashes(index, files)
    <2>1. a[1] \in DOMAIN files /\ index[files[a[1]]].windows = Windows(symbols[a[1]])
        BY <1>1 DEF WindowsOf
    <2>2. h \in ToSet(index[files[a[1]]].windows)
        BY <2>1, WindowIsHashOfSlice DEF ToSet
    <2> HIDE DEF h
    <2> QED BY <2>1, <2>2 DEF Hashes
<1>6. InOrderOf(S, occ) /\ Len(occ) <= cap
    <2> HIDE DEF h
    <2> QED BY <1>5, OccurrencesAreOrdered DEF Unsaturated
<1> HIDE DEF h, occ, S
<1>7. n \in Nat /\ Len(occ) = n /\ DOMAIN occ = 1 .. n
    BY <1>6, OrderHasLength
<1>8. ~ Saturated(occ, cap)
    BY <1>6, <1>7 DEF Saturated
<1>9. PICK i \in 1 .. n : occ[i] = a
    BY <1>4, <1>6 DEF InOrderOf
<1>10. PICK j \in 1 .. n : occ[j] = b
    BY <1>4, <1>6 DEF InOrderOf
<1>11. i < j
    <2>1. i # j
        BY <1>2, <1>9, <1>10
    <2>2. ~ (j < i)
        BY <1>2, <1>6, <1>9, <1>10 DEF InOrderOf
    <2> QED BY <1>7, <2>1, <2>2
<1>12. <<a, b>> \in Paired(symbols, occ, cap, budget)
    <2>1. j \in (i + 1) .. Len(occ)
        BY <1>7, <1>11
    <2>2. j \in PartnersOf(symbols, occ, cap, budget, i)
        BY <1>8, <2>1 DEF PartnersOf
    <2> QED BY <1>7, <1>9, <1>10, <2>2 DEF Paired
<1>13. m.at = a /\ m.to = b /\ m.len = Extend(symbols, a, b)
    BY <1>2, MatchIsAMatch
<1>14. m.len \in Nat /\ m.len >= len
    <2>1. len >= WindowTokens /\ Extend(symbols, a, b) \in Nat
        BY WindowsAssumption, ExtendIsLongest
    <2> HIDE DEF m
    <2> QED BY <1>13, <2>1, ExtendIsLongest
<1> HIDE DEF m
<1>15. m \in MatchesOf(symbols, occ, cap, budget)
    <2>1. ~ Overlapping(a, b)
        BY <1>2 DEF Overlapping
    <2>2. m.len >= MinCloneTokens
        BY <1>14, WindowsAssumption
    <2>3. <<a, b>>[1] = a /\ <<a, b>>[2] = b
        OBVIOUS
    <2>4. m \in {Match(symbols, q[1], q[2]) :
                    q \in {p \in Paired(symbols, occ, cap, budget) :
                             ~PrecededByAMatch(symbols, p[1], p[2]) /\ ~Overlapping(p[1], p[2])}}
        BY <1>12, <2>1, <2>3 DEF m
    <2> QED BY <2>2, <2>4, MatchesUnfold
<1>16. m \in Matches(index, files, cap, budget)
    BY <1>5, <1>15 DEF Matches, occ
<1> QED BY <1>13, <1>14, <1>16

(* Back from a copy to where it begins.                                     *)
Behind(p, d) == <<p[1], p[2] - d>>

(* A copy goes back to a place where nothing that matches precedes it: the  *)
(* search starts there, and nowhere else.                                   *)
LEMMA CopyBegins ==
    ASSUME NEW symbols, Readings(symbols), NEW min \in Nat, min >= WindowTokens,
           NEW p, NEW r, p[1] \in DOMAIN symbols, r[1] \in DOMAIN symbols, p[2] \in Nat, r[2] \in Nat,
           Fits(symbols, p, min), Fits(symbols, r, min), Agree(symbols, p, r, min)
    PROVE  \E d \in Nat :
              /\ d <= p[2] /\ d <= r[2]
              /\ Agree(symbols, Behind(p, d), Behind(r, d), min + d)
              /\ ~ PrecededByAMatch(symbols, Behind(p, d), Behind(r, d))
<1> DEFINE x == p[2]  y == r[2]
           Shared(d) == \A k \in 1 .. (min + d) : symbols[p[1]][x - d + k] = symbols[r[1]][y - d + k]
           D == {d \in 0 .. x : d <= y /\ Shared(d)}
           d == Max(D)
<1>1. \A e : Agree(symbols, Behind(p, e), Behind(r, e), min + e) <=> Shared(e)
    BY DEF Agree, Behind
<1>2. x \in Nat /\ y \in Nat /\ WindowTokens \in Nat /\ WindowTokens >= 1
    BY WindowsAssumption
<1>3. 0 \in D
    <2>1. Shared(0)
        <3>1. \A k \in 1 .. (min + 0) : k \in 1 .. min /\ x - 0 + k = x + k /\ y - 0 + k = y + k
            BY <1>2
        <3> QED BY <3>1 DEF Agree
    <2> HIDE DEF Shared
    <2> QED BY <1>2, <2>1
<1>4. D \in SUBSET (0 .. x) /\ D # {}
    BY <1>3
<1>5. d \in D /\ \A e \in D : e <= d
    <2> HIDE DEF D
    <2> QED BY <1>2, <1>4, GreatestIsThere
<1> HIDE DEF d
<1>6. d \in Nat /\ d <= x /\ d <= y /\ Shared(d)
    <2> HIDE DEF Shared
    <2> QED BY <1>2, <1>5
<1>7. ASSUME PrecededByAMatch(symbols, Behind(p, d), Behind(r, d)) PROVE FALSE
    <2> DEFINE e == d + 1  a == <<p[1], x - d - 1>>  b == <<r[1], y - d - 1>>
    <2>1. x - d > 0 /\ y - d > 0 /\ Slice(symbols, a, WindowTokens) = Slice(symbols, b, WindowTokens)
        BY <1>7 DEF PrecededByAMatch, Behind
    <2>2. e \in 0 .. x /\ e <= y /\ x - d - 1 \in Nat /\ y - d - 1 \in Nat
        BY <1>2, <1>6, <2>1
    <2>3. Fits(symbols, a, WindowTokens) /\ Fits(symbols, b, WindowTokens)
        <3>1. ASSUME NEW u \in Nat, NEW v \in Nat, u + min <= v, u - d - 1 \in Nat
              PROVE  u - d - 1 + WindowTokens <= v
            BY <1>2, <1>6, <3>1
        <3>2. Len(symbols[p[1]]) \in Nat /\ Len(symbols[r[1]]) \in Nat
            BY ReadingTypes
        <3>3. x + min <= Len(symbols[p[1]]) /\ y + min <= Len(symbols[r[1]])
            BY DEF Fits
        <3>4. /\ x - d - 1 + WindowTokens <= Len(symbols[p[1]])
              /\ y - d - 1 + WindowTokens <= Len(symbols[r[1]])
            <4> HIDE DEF x, y
            <4> QED BY <1>2, <2>2, <3>1, <3>2, <3>3
        <3>5. a[1] = p[1] /\ a[2] = x - d - 1 /\ b[1] = r[1] /\ b[2] = y - d - 1
            OBVIOUS
        <3> HIDE DEF a, b, x, y
        <3> QED BY <2>2, <3>4, <3>5 DEF Fits
    <2>4. Agree(symbols, a, b, WindowTokens)
        <3> HIDE DEF a, b
        <3> QED BY <1>2, <2>1, <2>3, SlicesAgree
    <2>5. symbols[p[1]][x - d - 1 + 1] = symbols[r[1]][y - d - 1 + 1]
        <3>1. 1 \in 1 .. WindowTokens
            BY <1>2
        <3>2. a[1] = p[1] /\ a[2] = x - d - 1 /\ b[1] = r[1] /\ b[2] = y - d - 1
            OBVIOUS
        <3> HIDE DEF a, b, x, y
        <3> QED BY <2>4, <3>1, <3>2 DEF Agree
    <2>6. ASSUME NEW k \in 1 .. (min + e) PROVE symbols[p[1]][x - e + k] = symbols[r[1]][y - e + k]
        <3>1. CASE k = 1
            <4>1. x - e + k = x - d - 1 + 1 /\ y - e + k = y - d - 1 + 1
                BY <1>2, <1>6, <3>1
            <4> HIDE DEF e
            <4> QED BY <2>5, <4>1
        <3>2. CASE k # 1
            <4>1. /\ k - 1 \in 1 .. (min + d)
                  /\ x - e + k = x - d + (k - 1) /\ y - e + k = y - d + (k - 1)
                BY <1>2, <1>6, <3>2
            <4> HIDE DEF e
            <4> QED BY <1>6, <4>1
        <3> QED BY <3>1, <3>2
    <2>7. Shared(e)
        <3> HIDE DEF e
        <3> QED BY <2>6
    <2>8. e \in D
        <3> HIDE DEF Shared, e
        <3> QED BY <2>2, <2>7
    <2>9. e <= d
        <3> HIDE DEF D, e
        <3> QED BY <1>5, <2>8
    <2> QED BY <1>6, <2>9
<1> HIDE DEF Shared
<1> QED BY <1>1, <1>6, <1>7

(* It does not matter which of two places is named first.                   *)
LEMMA SymmetricCopy ==
    ASSUME NEW symbols, NEW a, NEW b
    PROVE  /\ PrecededByAMatch(symbols, a, b) <=> PrecededByAMatch(symbols, b, a)
           /\ \A len : Agree(symbols, a, b, len) <=> Agree(symbols, b, a, len)
<1>1. PrecededByAMatch(symbols, a, b) <=> PrecededByAMatch(symbols, b, a)
    BY DEF PrecededByAMatch
<1>2. \A len : Agree(symbols, a, b, len) <=> Agree(symbols, b, a, len)
    BY DEF Agree
<1> QED BY <1>1, <1>2

(* Every token of a copy in another file is covered where no window is      *)
(* saturated.                                                               *)
LEMMA CopiesAreCovered ==
    ASSUME NEW index, NEW files, NEW symbols, Readings(symbols), WindowsOf(index, files, symbols),
           symbols = SymbolsOf(index, files), NEW cap \in Nat, NEW budget, Unsaturated(index, files, cap),
           NEW p \in Places(symbols), NEW r \in Places(symbols), p[1] # r[1],
           Twin(symbols, p, r, MinCloneTokens), NEW c \in Span(p, MinCloneTokens)
    PROVE  c \in Spans(Matches(index, files, cap, budget))
<1> DEFINE min == MinCloneTokens  M == Matches(index, files, cap, budget)
<1>1. min \in Nat /\ min >= WindowTokens /\ WindowTokens \in Nat
    BY WindowsAssumption
<1>2. /\ p[1] \in DOMAIN symbols /\ p[2] \in Nat /\ p[1] \in Nat
      /\ r[1] \in DOMAIN symbols /\ r[2] \in Nat /\ r[1] \in Nat
    <2>1. p \in Nat \X Nat /\ r \in Nat \X Nat
        BY PlacesAreFinite
    <2>2. p[1] \in DOMAIN symbols /\ r[1] \in DOMAIN symbols
        BY DEF Places
    <2> QED BY <2>1, <2>2
<1>3. Fits(symbols, p, min) /\ Fits(symbols, r, min) /\ Agree(symbols, p, r, min)
    <2>1. Fits(symbols, p, min) /\ Fits(symbols, r, min) /\ Slice(symbols, p, min) = Slice(symbols, r, min)
        BY <1>2 DEF Twin, Fits
    <2> HIDE DEF min
    <2> QED BY <1>1, <2>1, SlicesAgree
<1>4. PICK d \in Nat : /\ d <= p[2] /\ d <= r[2]
                       /\ Agree(symbols, Behind(p, d), Behind(r, d), min + d)
                       /\ ~ PrecededByAMatch(symbols, Behind(p, d), Behind(r, d))
    <2> HIDE DEF min
    <2> QED BY <1>1, <1>2, <1>3, CopyBegins
<1> DEFINE a == Behind(p, d)  b == Behind(r, d)  len == min + d
<1>5. /\ a[1] = p[1] /\ a[2] = p[2] - d /\ a[2] \in Nat /\ a = <<a[1], a[2]>>
      /\ b[1] = r[1] /\ b[2] = r[2] - d /\ b[2] \in Nat /\ b = <<b[1], b[2]>>
    <2>1. p[2] - d \in Nat /\ r[2] - d \in Nat
        BY <1>2, <1>4
    <2> QED BY <2>1 DEF Behind
<1>a. Agree(symbols, a, b, len) /\ ~ PrecededByAMatch(symbols, a, b)
    BY <1>4
<1> HIDE DEF a, b, min
<1>6. /\ Fits(symbols, a, len) /\ Fits(symbols, b, len) /\ len \in Nat /\ len >= min
      /\ WindowAt(symbols, a) /\ WindowAt(symbols, b)
    <2>1. ASSUME NEW u \in Nat, NEW v \in Nat, u + min <= v, d <= u
          PROVE  u - d + len <= v /\ u - d + WindowTokens <= v
        BY <1>1, <2>1
    <2>2. Len(symbols[p[1]]) \in Nat /\ Len(symbols[r[1]]) \in Nat
        BY <1>2, ReadingTypes
    <2>3. p[2] + min <= Len(symbols[p[1]]) /\ r[2] + min <= Len(symbols[r[1]])
        BY <1>3 DEF Fits
    <2>4. len \in Nat /\ len >= min
        BY <1>1
    <2> HIDE DEF len
    <2>5. /\ a[2] + len <= Len(symbols[p[1]]) /\ a[2] + WindowTokens <= Len(symbols[p[1]])
          /\ b[2] + len <= Len(symbols[r[1]]) /\ b[2] + WindowTokens <= Len(symbols[r[1]])
        BY <1>2, <1>4, <1>5, <2>1, <2>2, <2>3
    <2>6. a \in (DOMAIN symbols) \X Nat /\ b \in (DOMAIN symbols) \X Nat
        BY <1>2, <1>5
    <2> QED BY <1>2, <1>5, <2>4, <2>5, <2>6 DEF Fits, WindowAt
<1> HIDE DEF len
<1>7. \E m \in M : (m.at = a \/ m.to = a) /\ m.len \in Nat /\ m.len >= len
    <2>0. len >= MinCloneTokens
        BY <1>6 DEF min
    <2>t. \A m \in M : m.len \in Nat
        <3>1. Found(symbols, M)
            <4> HIDE DEF M
            <4> QED BY SearchFinds DEF M
        <3> QED BY <3>1 DEF Found, IsAMatch
    <2>1. CASE p[1] < r[1]
        <3>1. a[1] < b[1]
            BY <1>5, <2>1
        <3>2. \E m \in M : m.at = a /\ m.to = b /\ m.len >= len
            BY <1>6, <1>a, <2>0, <3>1, CopyIsMatched
        <3> HIDE DEF M
        <3> QED BY <2>t, <3>2
    <2>2. CASE r[1] < p[1]
        <3>1. b[1] < a[1]
            BY <1>5, <2>2
        <3>2. Agree(symbols, b, a, len) /\ ~ PrecededByAMatch(symbols, b, a)
            BY <1>a, SymmetricCopy
        <3>3. \E m \in M : m.at = b /\ m.to = a /\ m.len >= len
            BY <1>6, <2>0, <3>1, <3>2, CopyIsMatched
        <3> HIDE DEF M
        <3> QED BY <2>t, <3>3
    <2> QED BY <1>2, <2>1, <2>2
<1>8. PICK m \in M : (m.at = a \/ m.to = a) /\ m.len \in Nat /\ m.len >= len
    BY <1>7
<1>9. c \in Span(a, m.len)
    <2>1. PICK t \in p[2] .. (p[2] + min - 1) : c = <<p[1], t>>
        BY DEF Span, min
    <2>2. t \in a[2] .. (a[2] + m.len - 1)
        <3>1. ASSUME NEW u \in Nat, NEW l \in Nat, l >= min + d, d <= u, t \in u .. (u + min - 1)
              PROVE  t \in (u - d) .. (u - d + l - 1)
            BY <1>1, <3>1
        <3>2. m.len >= min + d
            BY <1>8 DEF len
        <3> QED BY <1>2, <1>4, <1>5, <1>8, <2>1, <3>1, <3>2
    <2> QED BY <1>5, <2>1, <2>2 DEF Span
<1> HIDE DEF M
<1> QED BY <1>8, <1>9 DEF Spans, M

(* Saturating subtraction gives a natural number.                           *)
LEMMA PositiveIsNatural ==
    ASSUME NEW n \in Int
    PROVE  Positive(n) \in Nat
<1>1. CASE n >= 0
    <2>1. {0, n} \in SUBSET (0 .. n) /\ {0, n} # {} /\ n \in Nat
        BY <1>1
    <2>2. Max({0, n}) \in {0, n}
        BY <2>1, GreatestIsThere
    <2> QED BY <2>1, <2>2 DEF Positive
<1>2. CASE ~ (n >= 0)
    <2>1. \E x \in {0, n} : \A y \in {0, n} : x >= y
        BY <1>2
    <2>2. Max({0, n}) \in {0, n} /\ \A y \in {0, n} : Max({0, n}) >= y
        BY <2>1 DEF Max
    <2>3. Max({0, n}) = 0
        BY <1>2, <2>2
    <2> QED BY <2>3 DEF Positive
<1> QED BY <1>1, <1>2

(* What is cut short by a budget is cut short by a smaller one.             *)
LEMMA LongerSearchesCutLess ==
    ASSUME NEW n \in Nat, NEW occ, DOMAIN occ = 1 .. n, NEW less \in Nat, NEW more \in Nat, less <= more
    PROVE  OverBudget(occ, more) \subseteq OverBudget(occ, less)
<1> DEFINE regions == Regions(occ)
<1>1. ASSUME NEW file PROVE WorkOf(occ, regions, file) \in Nat
    <2> DEFINE mine == {i \in DOMAIN occ : occ[i][1] = file}
               value == [i \in mine |-> regions[i]]
               seen == {value[i] : i \in mine}
    <2>1. IsFiniteSet(mine)
        <3>1. IsFiniteSet(1 .. n)
            BY FS_Interval
        <3>2. mine \subseteq 1 .. n
            OBVIOUS
        <3> HIDE DEF mine
        <3> QED BY <3>1, <3>2, FS_Subset
    <2>2. IsFiniteSet(seen)
        <3>1. value \in Surjection(mine, seen)
            BY DEF Surjection
        <3> HIDE DEF mine, value, seen
        <3> QED BY <2>1, <3>1, FS_Surjection
    <2>3. Cardinality(mine) \in Nat /\ Cardinality(seen) \in Nat
        <3> HIDE DEF mine, seen
        <3> QED BY <2>1, <2>2, FS_CardinalityType
    <2>4. Positive(Cardinality(seen) - 1) \in Nat
        <3> DEFINE others == Cardinality(seen) - 1
        <3>1. others \in Int
            BY <2>3
        <3> HIDE DEF seen, others
        <3>2. Positive(others) \in Nat
            BY <3>1, PositiveIsNatural
        <3> QED BY <3>2 DEF others
    <2>5. seen = {regions[i] : i \in mine}
        OBVIOUS
    <2>6. WorkOf(occ, regions, file) = Cardinality(mine) * Positive(Cardinality(seen) - 1)
        BY <2>5 DEF WorkOf
    <2> HIDE DEF mine, seen
    <2> QED BY <2>3, <2>4, <2>6
<1> SUFFICES ASSUME NEW file \in OverBudget(occ, more) PROVE file \in OverBudget(occ, less)
    OBVIOUS
<1>2. file \in {occ[i][1] : i \in DOMAIN occ} /\ WorkOf(occ, regions, file) > more
    BY DEF OverBudget
<1>3. WorkOf(occ, regions, file) > less
    <2> HIDE DEF regions
    <2> QED BY <1>1, <1>2
<1> QED BY <1>2, <1>3 DEF OverBudget

(* A region lies in one file.                                               *)
LEMMA RegionIsOfOneFile ==
    ASSUME NEW n \in Nat, NEW occ, DOMAIN occ = 1 .. n,
           NEW j \in 1 .. n, NEW k \in 1 .. n, j < k, Regions(occ)[j] = Regions(occ)[k]
    PROVE  occ[j][1] = occ[k][1]
<1> DEFINE Heads(i) == {l \in 1 .. i : ~Continues(occ, l)}
           S == {l \in 0 .. (k - j) : occ[j + l][1] = occ[j][1]}
<1>1. Cardinality(Heads(j)) = Cardinality(Heads(k))
    BY DEF Regions
<1>2. IsFiniteSet(Heads(k)) /\ Heads(j) \subseteq Heads(k)
    <2>1. IsFiniteSet(1 .. k)
        BY FS_Interval
    <2>2. Heads(k) \subseteq 1 .. k /\ Heads(j) \subseteq Heads(k)
        OBVIOUS
    <2> HIDE DEF Heads
    <2> QED BY <2>1, <2>2, FS_Subset
<1>3. Heads(j) = Heads(k)
    <2> HIDE DEF Heads
    <2> QED BY <1>1, <1>2, FS_Subset
<1>4. \A l \in (j + 1) .. k : Continues(occ, l)
    <2> SUFFICES ASSUME NEW l \in (j + 1) .. k, ~ Continues(occ, l) PROVE FALSE
        OBVIOUS
    <2>1. l \in Heads(k) /\ l \notin Heads(j)
        OBVIOUS
    <2> HIDE DEF Heads
    <2> QED BY <2>1, <1>3
<1>5. 0 \in S
    OBVIOUS
<1>6. ASSUME NEW l \in 1 .. (k - j), l - 1 \in S PROVE l \in S
    <2>1. j + l \in (j + 1) .. k /\ j + l - 1 = j + (l - 1) /\ l \in 0 .. (k - j)
        OBVIOUS
    <2>2. occ[j + l - 1][1] = occ[j + l][1]
        BY <1>4, <2>1 DEF Continues
    <2> QED BY <1>6, <2>1, <2>2
<1>7. k - j \in Nat
    OBVIOUS
<1>8. k - j \in S
    <2> DEFINE last == k - j
    <2>1. \A l \in 1 .. last : l - 1 \in S => l \in S
        <3> HIDE DEF S
        <3> QED BY <1>6
    <2>2. last \in Nat
        BY <1>7
    <2> HIDE DEF S, last
    <2>3. 0 .. last \subseteq S
        BY <1>5, <2>1, <2>2, EveryNumberTo
    <2> QED BY <2>2, <2>3 DEF last
<1>9. j + (k - j) = k
    OBVIOUS
<1> QED BY <1>8, <1>9

(* A place is aligned only with places of its own file.                     *)
LEMMA AlignedInOneFile ==
    ASSUME NEW n \in Nat, NEW occ, DOMAIN occ = 1 .. n, NEW i \in 1 .. n, NEW truncated,
           NEW j \in Aligned(occ, i, truncated)
    PROVE  j \in 1 .. n /\ occ[j][1] = occ[i][1]
<1> DEFINE regions == Regions(occ)
           later == {regions[x] : x \in {k \in DOMAIN occ : occ[k][1] = occ[i][1] /\ regions[k] > regions[i]}}
<1>1. PICK r \in later : \E at : j \in Bracket(occ, Members(occ, regions, r), at)
    BY DEF Aligned
<1>2. PICK k \in 1 .. n : occ[k][1] = occ[i][1] /\ regions[k] = r
    BY <1>1
<1> HIDE DEF later, regions
<1>3. j \in Members(occ, regions, r)
    <2>1. Members(occ, regions, r) \in SUBSET (1 .. n)
        BY DEF Members
    <2> QED BY <1>1, <2>1, BracketWithin
<1>4. j \in 1 .. n /\ regions[j] = regions[k]
    BY <1>2, <1>3 DEF Members
<1>5. CASE j = k
    BY <1>2, <1>5
<1>6. CASE j < k \/ k < j
    BY <1>2, <1>4, <1>6, RegionIsOfOneFile DEF regions
<1> QED BY <1>4, <1>5, <1>6, <1>2

(* Whether a search is cut short shows only within the files it is cut in.  *)
LEMMA PairsOfAFile ==
    ASSUME NEW symbols, NEW n \in Nat, NEW occ, DOMAIN occ = 1 .. n, Len(occ) = n,
           NEW cap, NEW b, NEW c, NEW file,
           Saturated(occ, cap) => file \notin OverBudget(occ, b) /\ file \notin OverBudget(occ, c),
           NEW q \in Paired(symbols, occ, cap, b), q[1][1] = file \/ q[2][1] = file
    PROVE  q \in Paired(symbols, occ, cap, c)
<1>1. PICK i \in 1 .. n : \E j \in PartnersOf(symbols, occ, cap, b, i) : q = <<occ[i], occ[j]>>
    BY DEF Paired
<1>2. PICK j \in PartnersOf(symbols, occ, cap, b, i) : q = <<occ[i], occ[j]>>
    BY <1>1
<1>3. j \in PartnersOf(symbols, occ, cap, c, i)
    <2>1. CASE ~ Saturated(occ, cap)
        BY <1>2, <2>1 DEF PartnersOf
    <2>2. CASE Saturated(occ, cap) /\ occ[i][1] = file
        <3>1. (occ[i][1] \in OverBudget(occ, b)) = (occ[i][1] \in OverBudget(occ, c))
            BY <2>2
        <3> QED BY <1>2, <2>2, <3>1 DEF PartnersOf
    <2>3. CASE Saturated(occ, cap) /\ occ[i][1] # file
        <3> DEFINE tokens == Len(symbols[occ[i][1]])
                   cut == occ[i][1] \in OverBudget(occ, b)
        <3>1. j \in BoundedPartners(occ, i, tokens, cut)
            BY <1>2, <2>3 DEF PartnersOf
        <3>2. occ[j][1] = file
            BY <1>2, <2>3
        <3>3. j \notin Aligned(occ, i, cut)
            BY <2>3, <3>2, AlignedInOneFile
        <3>4. (j \in NearestUsable(occ, i) \/ j \in Crossing(occ, i, tokens)) /\ j > i
            BY <3>1, <3>3 DEF BoundedPartners
        <3>5. j \in BoundedPartners(occ, i, tokens, occ[i][1] \in OverBudget(occ, c))
            <4> HIDE DEF tokens
            <4>1. j \in NearestUsable(occ, i) \cup Crossing(occ, i, tokens)
                BY <3>4
            <4>2. BoundedPartners(occ, i, tokens, occ[i][1] \in OverBudget(occ, c)) =
                    {l \in NearestUsable(occ, i) \cup Aligned(occ, i, occ[i][1] \in OverBudget(occ, c))
                           \cup Crossing(occ, i, tokens) : l > i}
                BY DEF BoundedPartners
            <4> QED BY <3>4, <4>2
        <3> QED BY <2>3, <3>5 DEF PartnersOf
    <2> QED BY <2>1, <2>2, <2>3
<1> QED BY <1>2, <1>3 DEF Paired

(* Whether a file holds one of the places of a match.                       *)
Touches(m, file) == m.at[1] = file \/ m.to[1] = file

(* A match that touches a file no search cuts is found by either search.    *)
LEMMA MatchesOfAFile ==
    ASSUME NEW index, NEW files, NEW symbols, Readings(symbols), WindowsOf(index, files, symbols),
           symbols = SymbolsOf(index, files), NEW cap, NEW b, NEW c, NEW file,
           file \notin Truncated(index, files, cap, b), file \notin Truncated(index, files, cap, c),
           NEW m \in Matches(index, files, cap, b), Touches(m, file)
    PROVE  m \in Matches(index, files, cap, c)
<1>1. PICK h \in Hashes(index, files) : m \in MatchesOf(symbols, Occurrences(index, files, h), cap, b)
    BY DEF Matches
<1> DEFINE occ == Occurrences(index, files, h)
           n == Cardinality(OfHash(symbols, h))
<1>2. InOrderOf(OfHash(symbols, h), occ)
    BY OccurrencesAreOrdered
<1>3. Saturated(occ, cap) => file \notin OverBudget(occ, b) /\ file \notin OverBudget(occ, c)
    <2>1. ASSUME NEW budget, file \notin Truncated(index, files, cap, budget), Saturated(occ, cap)
          PROVE  file \notin OverBudget(occ, budget)
        BY <2>1 DEF Truncated
    <2> QED BY <2>1
<1>o. m \in MatchesOf(symbols, occ, cap, b)
    BY <1>1
<1> HIDE DEF occ
<1>4. n \in Nat /\ Len(occ) = n /\ DOMAIN occ = 1 .. n
    BY <1>2, OrderHasLength
<1> HIDE DEF n
<1>5. PICK q \in Paired(symbols, occ, cap, b) :
          /\ ~ PrecededByAMatch(symbols, q[1], q[2]) /\ ~ Overlapping(q[1], q[2])
          /\ m = Match(symbols, q[1], q[2]) /\ m.len >= MinCloneTokens
    BY <1>o, MatchesUnfold
<1>6. m.at = q[1] /\ m.to = q[2]
    BY <1>5 DEF Match
<1>7. q \in Paired(symbols, occ, cap, c)
    BY <1>3, <1>4, <1>6, PairsOfAFile DEF Touches
<1>8. m \in MatchesOf(symbols, occ, cap, c)
    BY <1>5, <1>7, MatchesUnfold
<1> QED BY <1>8 DEF Matches, occ

(* A longer search cuts no file that a shorter one does not.                *)
LEMMA TruncatedShrinks ==
    ASSUME NEW index, NEW files, NEW symbols, Readings(symbols), WindowsOf(index, files, symbols),
           NEW cap, NEW less \in Nat, NEW more \in Nat, less <= more
    PROVE  Truncated(index, files, cap, more) \subseteq Truncated(index, files, cap, less)
<1> SUFFICES ASSUME NEW file \in Truncated(index, files, cap, more)
             PROVE  file \in Truncated(index, files, cap, less)
    OBVIOUS
<1>1. PICK h \in Hashes(index, files) :
          /\ Saturated(Occurrences(index, files, h), cap)
          /\ file \in OverBudget(Occurrences(index, files, h), more)
    BY DEF Truncated
<1> DEFINE occ == Occurrences(index, files, h)  n == Cardinality(OfHash(symbols, h))
<1>2. InOrderOf(OfHash(symbols, h), occ)
    BY OccurrencesAreOrdered
<1>3. n \in Nat /\ DOMAIN occ = 1 .. n
    <2> HIDE DEF occ
    <2> QED BY <1>2, OrderHasLength
<1>4. file \in OverBudget(occ, less)
    <2>1. file \in OverBudget(occ, more)
        BY <1>1
    <2> HIDE DEF occ, n
    <2> QED BY <1>3, <2>1, LongerSearchesCutLess
<1> QED BY <1>1, <1>4 DEF Truncated

(* What is told of a file that is not cut short is what a longer search     *)
(* tells.                                                                   *)
CoveredIn(covered, file) == {c \in covered : c[1] = file}

(* It covers the same tokens of a file the shorter one did not cut.         *)
LEMMA CoveredInAFile ==
    ASSUME NEW index, NEW files, NEW symbols, Readings(symbols), WindowsOf(index, files, symbols),
           symbols = SymbolsOf(index, files), NEW cap, NEW less \in Nat, NEW more \in Nat, less <= more,
           NEW file, file \notin Truncated(index, files, cap, less)
    PROVE  CoveredIn(Spans(Matches(index, files, cap, less)), file)
             = CoveredIn(Spans(Matches(index, files, cap, more)), file)
<1>1. file \notin Truncated(index, files, cap, more)
    BY TruncatedShrinks
<1>2. ASSUME NEW b, NEW c, file \notin Truncated(index, files, cap, b), file \notin Truncated(index, files, cap, c),
             NEW x \in CoveredIn(Spans(Matches(index, files, cap, b)), file)
      PROVE  x \in CoveredIn(Spans(Matches(index, files, cap, c)), file)
    <2>1. PICK m \in Matches(index, files, cap, b) : x \in Span(m.at, m.len) \cup Span(m.to, m.len)
        BY DEF CoveredIn, Spans
    <2>2. x[1] = file
        BY DEF CoveredIn
    <2>3. Touches(m, file)
        BY <2>1, <2>2 DEF Span, Touches
    <2>4. m \in Matches(index, files, cap, c)
        BY <1>2, <2>3, MatchesOfAFile
    <2> QED BY <2>1, <2>2, <2>4 DEF CoveredIn, Spans
<1> DEFINE less1 == CoveredIn(Spans(Matches(index, files, cap, less)), file)
           more1 == CoveredIn(Spans(Matches(index, files, cap, more)), file)
<1>3. less1 \subseteq more1 /\ more1 \subseteq less1
    BY <1>1, <1>2
<1> QED BY <1>3

(* A search that is not cut short tells what a longer one tells.            *)
Told(index, files, symbols, matches, truncated) ==
    LET groups  == Groups(symbols, matches)
        covered == UNION {CoveredBy(g) : g \in groups}
        Of(f)   == {at[2] : at \in {c \in covered : c[1] = f}}
        Line(f, t) == index[files[f]].rows[t + 1]
    IN  [groups    |-> Kept(groups),
         files     |-> files,
         tokens    |-> [f \in DOMAIN files |-> Len(symbols[f])],
         covered   |-> covered,
         spans     |-> [f \in {g \in DOMAIN files : Of(g) # {}} |->
                          LET run == LongestRun(Of(f)) IN <<Line(f, run[1]), Line(f, run[2])>>],
         truncated |-> truncated]

(* A report depends on the budget through the matches and the files cut.    *)
LEMMA DetectIsTold ==
    ASSUME NEW index, NEW paths, NEW cap, NEW budget
    PROVE  Detect(index, paths, cap, budget) =
             Told(index, IndexedFiles(index, paths), SymbolsOf(index, IndexedFiles(index, paths)),
                  Matches(index, IndexedFiles(index, paths), cap, budget),
                  Truncated(index, IndexedFiles(index, paths), cap, budget))
BY DEF Detect, Told

(* A search that cut no file reports what a longer one reports.             *)
LEMMA UncutIsComplete ==
    ASSUME NEW index, NEW paths, Searched(index, paths), NEW cap, NEW less \in Nat, NEW more \in Nat, less <= more,
           Detect(index, paths, cap, less).truncated = {}
    PROVE  Detect(index, paths, cap, less) = Detect(index, paths, cap, more)
<1> DEFINE files == IndexedFiles(index, paths)  symbols == SymbolsOf(index, files)
<1>1. ReadAs(index, paths, files, symbols)
    BY DEF ReadAs
<1>s. symbols = SymbolsOf(index, files)
    OBVIOUS
<1>t. /\ Detect(index, paths, cap, less) = Told(index, files, symbols, Matches(index, files, cap, less),
                                                Truncated(index, files, cap, less))
      /\ Detect(index, paths, cap, more) = Told(index, files, symbols, Matches(index, files, cap, more),
                                                Truncated(index, files, cap, more))
    BY DetectIsTold
<1> HIDE DEF files, symbols
<1>2. Readings(symbols) /\ WindowsOf(index, files, symbols)
    BY <1>1, WhatIsSearched
<1>3. Truncated(index, files, cap, less) = {} /\ Truncated(index, files, cap, more) = {}
    <2>1. Tells(Detect(index, paths, cap, less), files, symbols,
                Matches(index, files, cap, less), Truncated(index, files, cap, less))
        BY <1>1, DetectTells
    <2>2. Truncated(index, files, cap, less) = {}
        BY <2>1 DEF Tells
    <2>3. Truncated(index, files, cap, more) \subseteq Truncated(index, files, cap, less)
        BY <1>2, TruncatedShrinks
    <2> QED BY <2>2, <2>3
<1>4. ASSUME NEW b, NEW c, Truncated(index, files, cap, b) = {}, Truncated(index, files, cap, c) = {},
             NEW m \in Matches(index, files, cap, b)
      PROVE  m \in Matches(index, files, cap, c)
    <2>1. Touches(m, m.at[1])
        BY DEF Touches
    <2>2. m.at[1] \notin Truncated(index, files, cap, b) /\ m.at[1] \notin Truncated(index, files, cap, c)
        BY <1>4
    <2> QED BY <1>2, <1>s, <2>1, <2>2, MatchesOfAFile
<1>5. Matches(index, files, cap, less) = Matches(index, files, cap, more)
    <2>1. Matches(index, files, cap, less) \subseteq Matches(index, files, cap, more)
        BY <1>3, <1>4
    <2>2. Matches(index, files, cap, more) \subseteq Matches(index, files, cap, less)
        BY <1>3, <1>4
    <2> QED BY <2>1, <2>2
<1> QED BY <1>3, <1>5, <1>t

(* A result carries what it was made of, and a sampled one is not complete. *)
LEMMA ResultTells ==
    ASSUME NEW metric, NEW path, NEW value, NEW degraded \in BOOLEAN, NEW sampled \in BOOLEAN
    PROVE  /\ Result(metric, path, value, degraded, sampled).metric = metric
           /\ Result(metric, path, value, degraded, sampled).path = path
           /\ Result(metric, path, value, degraded, sampled).value = value
           /\ Result(metric, path, value, degraded, sampled).completeness = "complete" => ~ sampled
<1>1. /\ Result(metric, path, value, degraded, sampled).metric = metric
      /\ Result(metric, path, value, degraded, sampled).path = path
      /\ Result(metric, path, value, degraded, sampled).value = value
    BY DEF Result
<1>2. Result(metric, path, value, degraded, sampled).completeness =
        Weaker(IF degraded THEN "parse-degraded" ELSE "complete", IF sampled THEN "partial" ELSE "complete")
    BY DEF Result
<1>3. /\ WeaknessRank("partial") = 1 /\ WeaknessRank("parse-degraded") = 2 /\ WeaknessRank("complete") = 3
    BY DEF WeaknessRank
<1>4. Weaker("parse-degraded", "partial") = "partial" /\ Weaker("complete", "partial") = "partial"
    BY <1>3 DEF Weaker
<1>5. sampled => Result(metric, path, value, degraded, sampled).completeness = "partial"
    <2>1. CASE degraded /\ sampled
        BY <1>2, <1>4, <2>1
    <2>2. CASE ~ degraded /\ sampled
        BY <1>2, <1>4, <2>2
    <2> QED BY <2>1, <2>2
<1> QED BY <1>1, <1>5

(* What the numbers of a report are.                                        *)
Degraded(index) == {p \in DOMAIN index : index[p].health > 0}

OfChange(index, report, r) ==
    \E metric, path, value : r = Result(metric, path, value, Degraded(index) # {}, report.truncated # {})

OfFile(index, report, f) ==
    Result("file", report.files[f], Cardinality(CoveredIn(report.covered, f)),
           report.files[f] \in Degraded(index), f \in report.truncated)

(* The results are the four of the change and one of each file.             *)
LEMMA WhatIsMeasured ==
    ASSUME NEW index, NEW report
    PROVE  /\ \A r \in Measure(index, report) :
                 OfChange(index, report, r) \/ \E f \in DOMAIN report.files : r = OfFile(index, report, f)
           /\ \A f \in DOMAIN report.files : OfFile(index, report, f) \in Measure(index, report)
<1> DEFINE Change(metric, path, value) ==
               Result(metric, path, value, Degraded(index) # {}, report.truncated # {})
           Changes == {Change("tokens", 0, DuplicatedTokens(report)),
                       Change("ratio", 0, DuplicatedPermille(report)),
                       Change("groups", 0, Len(report.groups)),
                       Change("largest", LargestCloneScope(report), LargestClone(report))}
<1>1. Measure(index, report) = Changes \cup {OfFile(index, report, f) : f \in DOMAIN report.files}
    BY DEF Measure, OfFile, Degraded, CoveredIn
<1>2. \A metric, path, value : OfChange(index, report, Change(metric, path, value))
    BY DEF OfChange
<1>3. \A r \in Changes : OfChange(index, report, r)
    <2> HIDE DEF Change
    <2> QED BY <1>2
<1> HIDE DEF Changes
<1> QED BY <1>1, <1>3

(* A number that is called complete is one a longer search gives.           *)
LEMMA SamplesSaySo ==
    ASSUME NEW index, NEW paths, Searched(index, paths), NEW cap, NEW less \in Nat, NEW more \in Nat, less <= more,
           NEW report, report = Detect(index, paths, cap, less),
           NEW longer, longer = Detect(index, paths, cap, more),
           NEW r \in Measure(index, report), r.completeness = "complete"
    PROVE  \E u \in Measure(index, longer) : u.metric = r.metric /\ u.path = r.path /\ u.value = r.value
<1>1. CASE report.truncated = {}
    <2>1. report = longer
        BY <1>1, UncutIsComplete
    <2> QED BY <2>1
<1>2. CASE report.truncated # {}
    <2>1. ~ OfChange(index, report, r)
        <3> SUFFICES ASSUME OfChange(index, report, r) PROVE FALSE
            OBVIOUS
        <3> DEFINE cut == report.truncated # {}  degraded == Degraded(index) # {}
        <3>1. PICK metric, path, value : r = Result(metric, path, value, degraded, cut)
            BY DEF OfChange
        <3>2. cut \in BOOLEAN /\ degraded \in BOOLEAN
            OBVIOUS
        <3>3. cut
            BY <1>2
        <3> HIDE DEF cut, degraded
        <3>4. ~ cut
            BY <3>1, <3>2, ResultTells
        <3> QED BY <3>3, <3>4
    <2>2. PICK f \in DOMAIN report.files : r = OfFile(index, report, f)
        BY <2>1, WhatIsMeasured
    <2> DEFINE files == IndexedFiles(index, paths)  symbols == SymbolsOf(index, files)
               degraded == report.files[f] \in Degraded(index)
    <2>3. ReadAs(index, paths, files, symbols) /\ symbols = SymbolsOf(index, files)
        BY DEF ReadAs
    <2> HIDE DEF files, symbols
    <2>4. Readings(symbols) /\ WindowsOf(index, files, symbols)
        BY <2>3, WhatIsSearched
    <2>5. /\ Tells(report, files, symbols, Matches(index, files, cap, less), Truncated(index, files, cap, less))
          /\ Tells(longer, files, symbols, Matches(index, files, cap, more), Truncated(index, files, cap, more))
        BY <2>3, DetectTells
    <2>6. f \notin report.truncated
        <3> DEFINE cut == f \in report.truncated
        <3>1. r = Result("file", report.files[f], Cardinality(CoveredIn(report.covered, f)), degraded, cut)
            BY <2>2 DEF OfFile
        <3>2. cut \in BOOLEAN /\ degraded \in BOOLEAN
            OBVIOUS
        <3> HIDE DEF cut, degraded
        <3>3. ~ cut
            BY <3>1, <3>2, ResultTells
        <3> QED BY <3>3 DEF cut
    <2>7. CoveredIn(report.covered, f) = CoveredIn(longer.covered, f)
        <3>1. f \notin Truncated(index, files, cap, less)
            BY <2>5, <2>6 DEF Tells
        <3>2. CoveredIn(Spans(Matches(index, files, cap, less)), f)
                = CoveredIn(Spans(Matches(index, files, cap, more)), f)
            BY <2>3, <2>4, <3>1, CoveredInAFile
        <3> QED BY <2>5, <3>2 DEF Tells
    <2>8. longer.files = report.files
        BY <2>5 DEF Tells
    <2> DEFINE u == OfFile(index, longer, f)
    <2>9. u \in Measure(index, longer)
        BY <2>8, WhatIsMeasured
    <2>10. \A g, h : /\ OfFile(index, g, h).metric = "file" /\ OfFile(index, g, h).path = g.files[h]
                     /\ OfFile(index, g, h).value = Cardinality(CoveredIn(g.covered, h))
        BY DEF OfFile, Result
    <2>11. u.metric = r.metric /\ u.path = r.path /\ u.value = r.value
        BY <2>2, <2>7, <2>8, <2>10
    <2> HIDE DEF u
    <2> QED BY <2>9, <2>11
<1> QED BY <1>1, <1>2

(* A run that answers has searched a good index.                            *)
LEMMA AnswersAreSearched ==
    ASSUME ColdInv, NEW a \in ColdAnswers
    PROVE  \E paths : /\ Searched(a.index, paths)
                      /\ a.report = Detect(a.index, paths, SaturatedOccurrences, RegionPairBudget)
                      /\ a.longer = Detect(a.index, paths, SaturatedOccurrences, LongerBudget)
<1>1. PICK p \in {q \in Programs : At(q, "done") /\ Apart(q)} :
          a = [index  |-> program[p].files,
               report |-> Detect(program[p].files, DOMAIN program[p].tree, SaturatedOccurrences, RegionPairBudget),
               longer |-> Detect(program[p].files, DOMAIN program[p].tree, SaturatedOccurrences, LongerBudget)]
    BY DEF ColdAnswers
<1>2. RunType(program[p]) /\ program[p].pc = "done"
    BY <1>1 DEF ColdInv, Runs, At
<1>3. program[p].build \in Builds /\ program[p].tree \in Trees \cup Corpus
      /\ program[p].files = Cold(program[p].build, program[p].tree)
    BY <1>2 DEF RunType
<1>4. Searched(program[p].files, DOMAIN program[p].tree)
    BY <1>3, ColdIsGood DEF Searched
<1>5. /\ a.index = program[p].files
      /\ a.report = Detect(program[p].files, DOMAIN program[p].tree, SaturatedOccurrences, RegionPairBudget)
      /\ a.longer = Detect(program[p].files, DOMAIN program[p].tree, SaturatedOccurrences, LongerBudget)
    BY <1>1
<1> QED BY <1>4, <1>5

(* The search of a cold index is sound.                                     *)
LEMMA ColdSearchIsSound == ColdInv => SearchIsSound
<1> SUFFICES ASSUME ColdInv PROVE SearchIsSound
    OBVIOUS
<1>1. ClonesAreClones
    <2>1. ASSUME NEW a \in ColdAnswers
          PROVE  ClonesOf(a.report, SymbolsOf(a.index, a.report.files))
        <3>1. PICK paths : /\ Searched(a.index, paths)
                           /\ a.report = Detect(a.index, paths, SaturatedOccurrences, RegionPairBudget)
            BY AnswersAreSearched
        <3> DEFINE report == a.report  symbols == SymbolsOf(a.index, report.files)
        <3>2. report = Detect(a.index, paths, SaturatedOccurrences, RegionPairBudget)
              /\ symbols = SymbolsOf(a.index, report.files)
            BY <3>1
        <3> HIDE DEF report, symbols
        <3>3. ClonesOf(report, symbols)
            BY <3>1, <3>2, ClonesHold
        <3> QED BY <3>3 DEF report, symbols
    <2> QED BY <2>1 DEF ClonesAreClones, ClonesOf
<1>2. EveryCopyIsFound
    <2> SUFFICES ASSUME NEW a \in ColdAnswers, Unsaturated(a.index, a.report.files, SaturatedOccurrences),
                        NEW c \in Copied(SymbolsOf(a.index, a.report.files), LAMBDA at, to : at[1] # to[1])
                 PROVE  c \in a.report.covered
        BY DEF EveryCopyIsFound, Unsaturated
    <2>1. PICK paths : /\ Searched(a.index, paths)
                       /\ a.report = Detect(a.index, paths, SaturatedOccurrences, RegionPairBudget)
        BY AnswersAreSearched
    <2> DEFINE index == a.index  report == a.report  files == report.files  symbols == SymbolsOf(index, files)
               cap == SaturatedOccurrences
    <2>2. files = IndexedFiles(index, paths)
        <3>1. \A b : Detect(a.index, paths, SaturatedOccurrences, b).files = IndexedFiles(a.index, paths)
            BY DEF Detect
        <3> QED BY <2>1, <3>1
    <2>3. ReadAs(index, paths, files, symbols) /\ symbols = SymbolsOf(index, files)
        BY <2>2 DEF ReadAs
    <2>4. PICK p \in Places(symbols), r \in Places(symbols) :
              p[1] # r[1] /\ Twin(symbols, p, r, MinCloneTokens) /\ c \in Span(p, MinCloneTokens)
        BY DEF Copied
    <2>5. Unsaturated(index, files, cap) /\ cap \in Nat /\ Searched(index, paths)
          /\ report = Detect(index, paths, cap, RegionPairBudget)
        BY <2>1, BudgetAssumption
    <2>6. report.covered = a.report.covered
        OBVIOUS
    <2> HIDE DEF index, report, files, symbols, cap
    <2>7. Readings(symbols) /\ WindowsOf(index, files, symbols)
        BY <2>3, <2>5, WhatIsSearched
    <2>8. c \in Spans(Matches(index, files, cap, RegionPairBudget))
        BY <2>3, <2>4, <2>5, <2>7, CopiesAreCovered
    <2>9. Tells(report, files, symbols, Matches(index, files, cap, RegionPairBudget),
                Truncated(index, files, cap, RegionPairBudget))
        BY <2>3, <2>5, DetectTells
    <2> QED BY <2>6, <2>8, <2>9 DEF Tells
<1>3. SampledIsPartial
    <2> SUFFICES ASSUME NEW a \in ColdAnswers, NEW r \in Measure(a.index, a.report), r.completeness = "complete"
                 PROVE  \E u \in Measure(a.index, a.longer) :
                            u.metric = r.metric /\ u.path = r.path /\ u.value = r.value
        BY DEF SampledIsPartial
    <2>1. PICK paths : /\ Searched(a.index, paths)
                       /\ a.report = Detect(a.index, paths, SaturatedOccurrences, RegionPairBudget)
                       /\ a.longer = Detect(a.index, paths, SaturatedOccurrences, LongerBudget)
        BY AnswersAreSearched
    <2> DEFINE index == a.index  report == a.report  longer == a.longer
    <2>2. /\ Searched(index, paths)
          /\ report = Detect(index, paths, SaturatedOccurrences, RegionPairBudget)
          /\ longer = Detect(index, paths, SaturatedOccurrences, LongerBudget)
          /\ r \in Measure(index, report)
        BY <2>1
    <2> HIDE DEF index, report, longer
    <2>3. \E u \in Measure(index, longer) : u.metric = r.metric /\ u.path = r.path /\ u.value = r.value
        BY <2>2, BudgetAssumption, SamplesSaySo
    <2> QED BY <2>3 DEF index, longer
<1> QED BY <1>1, <1>2, <1>3 DEF SearchIsSound

(* For any processes, builds, sources and faults, any window, hash modulus  *)
(* and budgets: what a run calls a clone is one, every copy in another file *)
(* is told unless a window was saturated, and a number a longer search      *)
(* would change is not called complete (detect.rs; fingerprint.rs, windows; *)
(* engine.rs, demote_to_partial).                                           *)
THEOREM CopiesAreTold == IndexSpec => []SearchIsSound
<1>1. IndexInit => ColdInv BY InitCold
<1>2. ColdInv /\ [IndexNext]_indexVars => ColdInv'
    BY StepTypes, StepKeepsCold DEF ColdInv
<1>3. ColdInv => SearchIsSound BY ColdSearchIsSound
<1> QED BY <1>1, <1>2, <1>3, PTL DEF IndexSpec

=============================================================================
