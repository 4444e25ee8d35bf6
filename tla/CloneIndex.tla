----------------------------- MODULE CloneIndex ------------------------------
(****************************************************************************)
(* The clone index on disk, shared by every process that measures in one    *)
(* repository: it is read without a lock, rebuilt from what is measured     *)
(* with the entries it already had, written beside and renamed over under   *)
(* an advisory lock that is stolen when it has gone stale                   *)
(* (engines/clones/src/index.rs and the constructor in engine.rs).          *)
(****************************************************************************)
EXTENDS Clones

CONSTANTS
    Programs,              \* processes that measure in the repository
    Builds,             \* [version, regime] of the programs that are run
    Sources,            \* blob -> its leaves
    Symbol(_, _),       \* the symbol of a kind under a regime
    Readable(_),        \* whether a grammar reads the path
    Trees,              \* path -> blob: what a run may be asked to measure
    Corpus,             \* the same, for runs without an index
    LongerBudget,       \* what a longer search would be allowed
    MaxFaults           \* bound: crashes, stalls, failed writes and torn files

ASSUME FaultsAssumption == MaxFaults \in Nat

ASSUME BudgetAssumption ==
    SaturatedOccurrences \in Nat /\ RegionPairBudget \in Nat /\ LongerBudget \in Nat /\ LongerBudget >= RegionPairBudget

ASSUME SourcesAssumption ==
    /\ \A blob \in DOMAIN Sources :
          /\ Sources[blob] \in Seq([kind : STRING, row : Nat])
          /\ \A build \in Builds, i \in DOMAIN Sources[blob] :
                Symbol(build.regime, Sources[blob][i].kind) \in Nat
    /\ \A tree \in Trees \cup Corpus :
          /\ IsFiniteSet(DOMAIN tree) /\ DOMAIN tree \subseteq Nat \ {0}
          /\ \A path \in DOMAIN tree : tree[path] \in DOMAIN Sources

VARIABLES
    disk,       \* the index file: [state, version, regime, files]
    indexLock,       \* NoLock, or whether the lock file has gone stale
    temps,      \* temporary files: [by, live, stale]
    program,       \* process -> [pc, build, tree, files]
    faults

indexVars == <<disk, indexLock, temps, program, faults>>

NoIndexLock   == "none"
Absent   == [state |-> "absent", version |-> 0, regime |-> "", files |-> <<>>]
Asleep   == [pc |-> "idle", build |-> [version |-> 0, regime |-> ""], tree |-> <<>>,
             files |-> <<>>]

Writing == {"held", "written", "published"}

----------------------------------------------------------------------------
(* An entry is a function of its path, its blob and the regime.             *)

Tokens == [blob \in DOMAIN Sources |-> TokensOf(Sources[blob])]

Entry(regime, path, blob) ==
    LET tokens  == Tokens[blob]
        symbols == [i \in DOMAIN tokens |-> Symbol(regime, tokens[i].kind)]
    IN  [blob |-> blob, symbols |-> symbols, rows |-> [i \in DOMAIN tokens |-> tokens[i].row + 1],
         windows |-> Windows(symbols), health |-> HealthOf(Sources[blob])]

Indexed(tree) == {path \in DOMAIN tree : Readable(path)}
Cold(build, tree) == [path \in Indexed(tree) |-> Entry(build.regime, path, tree[path])]

(* What is read: a file of another version, another regime, or one whose    *)
(* checksum or form is wrong is no index at all.                            *)
LoadOutcome(build) ==
    IF disk.state = "absent" THEN "absent"
    ELSE IF disk.state = "garbage" THEN "unreadable"
    ELSE IF disk.version # build.version THEN "version-mismatch"
    ELSE IF disk.state = "torn" THEN "checksum-mismatch"
    ELSE IF disk.regime # build.regime THEN "regime-mismatch"
    ELSE "loaded"

Loaded(build) == IF LoadOutcome(build) = "loaded" THEN disk.files ELSE <<>>

(* An entry is carried over when path and blob are what they were.          *)
(* Mutant: whatever the blob.                                               *)
CarriedByPath(previous, path, blob) == path \in DOMAIN previous

Carried(previous, path, blob) ==
    path \in DOMAIN previous /\ previous[path].blob = blob

Update(previous, build, tree) ==
    [path \in Indexed(tree) |->
        IF Carried(previous, path, tree[path]) THEN previous[path]
        ELSE Entry(build.regime, path, tree[path])]

(* What a run has measured.                                                 *)
Results(files, tree) ==
    Measure(files, Detect(files, DOMAIN tree, SaturatedOccurrences, RegionPairBudget))

----------------------------------------------------------------------------
(* One run of a process.                                                    *)

Moves(p, pc) == program' = [program EXCEPT ![p].pc = pc]
At(p, pc)    == program[p].pc = pc
Ended(p)     == program[p].pc \in {"done", "failed"}

Apart(p) == program[p].tree \in Corpus     \* a run without an index

Begun(pc, build, tree, previous) ==
    [pc |-> pc, build |-> build, tree |-> tree, files |-> Update(previous, build, tree)]

Load(p, build, tree) ==
    /\ At(p, "idle") /\ \A q \in Programs : ~Apart(q)
    /\ program' = [program EXCEPT ![p] = Begun("computed", build, tree, Loaded(build))]
    /\ UNCHANGED <<disk, indexLock, temps, faults>>

(* Without an index there is nothing to read and nothing to write.  Bound:  *)
(* such a run shares nothing, so it is the first run and taken alone.       *)
Disabled(build, tree) == Begun("cold", build, tree, <<>>)

MeasureCold(p) ==
    /\ At(p, "cold")
    /\ Moves(p, "done")
    /\ UNCHANGED <<disk, indexLock, temps, faults>>

(* Taking the lock: create it; when it is there look at its age; when it is *)
(* stale remove it and create it again.  A lock file that cannot be written *)
(* stays behind, as after a death that held it.                             *)
CreateIndexLock(p) ==
    /\ At(p, "computed")
    /\ IF indexLock = NoIndexLock THEN indexLock' = "fresh" /\ Moves(p, "held")
                        ELSE Moves(p, "exists") /\ UNCHANGED indexLock
    /\ UNCHANGED <<disk, temps, faults>>

(* Mutant: a lock is never stale.                                           *)
NeverStealLock(p) ==
    /\ At(p, "exists")
    /\ Moves(p, "failed")
    /\ UNCHANGED <<disk, indexLock, temps, faults>>

LookAtLock(p) ==
    /\ At(p, "exists")
    /\ Moves(p, IF indexLock = "stale" THEN "stealing" ELSE "failed")
    /\ UNCHANGED <<disk, indexLock, temps, faults>>

RemoveStaleLock(p) ==
    /\ At(p, "stealing")
    /\ Moves(p, IF indexLock = NoIndexLock THEN "failed" ELSE "creating")
    /\ indexLock' = NoIndexLock
    /\ UNCHANGED <<disk, temps, faults>>

CreateLockAgain(p) ==
    /\ At(p, "creating")
    /\ IF indexLock = NoIndexLock THEN indexLock' = "fresh" /\ Moves(p, "held")
                        ELSE Moves(p, "failed") /\ UNCHANGED indexLock
    /\ UNCHANGED <<disk, temps, faults>>

Mine(p) == [by |-> p, live |-> TRUE, stale |-> FALSE]
MineOf(p) == {t \in temps : t.by = p /\ t.live}

(* The temporaries a dead writer left are swept, the index is written and   *)
(* synced beside its target.                                                *)
FreshTemps == {t \in temps : ~t.stale}

WritePending(p) ==
    /\ At(p, "held")
    /\ temps' = FreshTemps \cup {Mine(p)}
    /\ Moves(p, "written")
    /\ UNCHANGED <<disk, indexLock, faults>>

(* The rename; a failure drops the lock as a success does.                  *)
Publish(p) ==
    /\ At(p, "written")
    /\ IF MineOf(p) = {}
       THEN Moves(p, "failed") /\ indexLock' = NoIndexLock /\ UNCHANGED <<disk, temps>>
       ELSE /\ disk' = [state |-> "whole", version |-> program[p].build.version,
                        regime |-> program[p].build.regime, files |-> program[p].files]
            /\ temps' = temps \ MineOf(p)
            /\ Moves(p, "published") /\ UNCHANGED indexLock
    /\ UNCHANGED faults

(* Dropping the lock removes the file that is there, whoever made it.       *)
ReleaseAndMeasure(p) ==
    /\ At(p, "published")
    /\ indexLock' = NoIndexLock
    /\ Moves(p, "done")
    /\ UNCHANGED <<disk, temps, faults>>

Exit(p) ==
    /\ Ended(p)
    /\ program' = [program EXCEPT ![p] = Asleep]
    /\ UNCHANGED <<disk, indexLock, temps, faults>>

----------------------------------------------------------------------------
(* What else happens.                                                       *)

Fault == faults < MaxFaults /\ faults' = faults + 1
Orphaned(p) == {[t EXCEPT !.live = t.live /\ t.by # p] : t \in temps}
Older == {[t EXCEPT !.stale = TRUE] : t \in temps}
OlderLock == IF indexLock = NoIndexLock THEN NoIndexLock ELSE "stale"

(* The disk is full, or the process is killed: what it made stays.          *)
PendingFails(p) ==
    /\ At(p, "held") /\ Fault
    /\ temps' = FreshTemps \cup {[Mine(p) EXCEPT !.live = FALSE]}
    /\ indexLock' = NoIndexLock
    /\ Moves(p, "failed")
    /\ UNCHANGED disk

ProgramDies(p) ==
    /\ ~At(p, "idle") /\ ~Ended(p) /\ Fault
    /\ temps' = Orphaned(p)
    /\ program' = [program EXCEPT ![p] = Asleep]
    /\ UNCHANGED <<disk, indexLock>>

(* LOCK_STALE passes: while nobody writes, or - a fault - while someone is  *)
(* stopped in the middle of it.                                             *)
TimePasses ==
    /\ \A p \in Programs : program[p].pc \notin Writing
    /\ indexLock' = OlderLock /\ temps' = Older
    /\ UNCHANGED <<disk, program, faults>>

Stall ==
    /\ \E p \in Programs : program[p].pc \in Writing
    /\ Fault
    /\ indexLock' = OlderLock /\ temps' = Older
    /\ UNCHANGED <<disk, program>>

(* A writer that asks for no lock, or a disk that loses what it took.       *)
Tear ==
    /\ disk.state = "whole" /\ Fault
    /\ \E state \in {"torn", "garbage"} : disk' = [disk EXCEPT !.state = state]
    /\ UNCHANGED <<indexLock, temps, program>>

IndexInit ==
    /\ disk = Absent /\ indexLock = NoIndexLock /\ temps = {}
    /\ \/ program = [p \in Programs |-> Asleep]
       \/ \E p \in Programs, build \in Builds, tree \in Corpus :
             program = [q \in Programs |-> IF q = p THEN Disabled(build, tree) ELSE Asleep]
    /\ faults = 0

Steps(p) ==
    \/ CreateIndexLock(p) \/ LookAtLock(p) \/ RemoveStaleLock(p) \/ CreateLockAgain(p)
    \/ WritePending(p) \/ Publish(p) \/ ReleaseAndMeasure(p)
    \/ MeasureCold(p) \/ Exit(p)

Run(p) == \E build \in Builds : \E tree \in Trees : Load(p, build, tree)

IndexNext ==
    \/ \E p \in Programs : Run(p) \/ Steps(p) \/ PendingFails(p) \/ ProgramDies(p)
    \/ TimePasses \/ Stall \/ Tear

(* A process that has begun goes on; the program is run again and again;    *)
(* time passes.                                                             *)
Fairness ==
    /\ \A p \in Programs : WF_indexVars(Run(p) \/ Steps(p))
    /\ WF_indexVars(TimePasses)

IndexSpec == IndexInit /\ [][IndexNext]_indexVars /\ Fairness

----------------------------------------------------------------------------
IndexTypeOK ==
    /\ disk.state \in {"absent", "whole", "torn", "garbage"}
    /\ indexLock \in {NoIndexLock, "fresh", "stale"}
    /\ temps \subseteq [by : Programs, live : BOOLEAN, stale : BOOLEAN]
    /\ faults \in 0..MaxFaults

(* What an index file or a process holds is what a cold build would have.   *)
IndexIsCold ==
    /\ \A path \in DOMAIN disk.files :
          disk.files[path] = Entry(disk.regime, path, disk.files[path].blob)
    /\ \A p \in Programs : ~At(p, "idle") => program[p].files = Cold(program[p].build, program[p].tree)

(* A run with an index answers what a run without one answers, whoever else *)
(* reads, writes, steals, crashes or tears the file meanwhile, and whatever *)
(* build wrote it ("the results are the same either way", engine.rs         *)
(* for_change).                                                             *)
ColdResults == [build \in Builds |-> [tree \in Trees |-> Results(Cold(build, tree), tree)]]

WarmIsCold ==
    \A p \in {q \in Programs : At(q, "done") /\ ~Apart(q)} :
        Results(program[p].files, program[p].tree) = ColdResults[program[p].build][program[p].tree]

(* Nobody can tell from an answer that there is an index.                   *)
IndexIsTransparent == IndexTypeOK /\ IndexIsCold /\ WarmIsCold

(* The next three are stated of the runs without an index: what the others  *)
(* answer is the same by WarmIsCold.                                        *)
ColdAnswers ==
    {[index     |-> program[p].files,
      report    |-> Detect(program[p].files, DOMAIN program[p].tree, SaturatedOccurrences, RegionPairBudget),
      longer    |-> Detect(program[p].files, DOMAIN program[p].tree, SaturatedOccurrences, LongerBudget)] :
        p \in {q \in Programs : At(q, "done") /\ Apart(q)}}

Twin(symbols, at, to, len) ==
    /\ at # to /\ at[2] + len <= Len(symbols[at[1]]) /\ to[2] + len <= Len(symbols[to[1]])
    /\ Slice(symbols, at, len) = Slice(symbols, to, len)
    /\ Span(at, len) \cap Span(to, len) = {}

Places(symbols) == UNION {{<<f, t>> : t \in 0..(Len(symbols[f]) - 1)} : f \in DOMAIN symbols}

(* The tokens of the places that are found again elsewhere, in a place of   *)
(* which Where holds.                                                       *)
Copied(symbols, Where(_, _)) ==
    UNION {Span(at, MinCloneTokens) :
              at \in {place \in Places(symbols) :
                         \E to \in Places(symbols) :
                             Where(place, to) /\ Twin(symbols, place, to, MinCloneTokens)}}

(* What is called a clone is one: every token counted lies in a place long  *)
(* enough whose tokens are found again in another that it does not overlap, *)
(* the places of a group hold the same tokens, and no two groups told share *)
(* one - though window hashes collide (detect.rs, extend).                  *)
ClonesAreClones ==
    \A a \in ColdAnswers :
        LET report  == a.report
            symbols == SymbolsOf(a.index, report.files)
        IN  /\ report.covered \subseteq Copied(symbols, LAMBDA at, to : TRUE)
            /\ \A i \in DOMAIN report.groups :
                  LET group == report.groups[i]
                  IN  /\ Cardinality(group.members) > 1
                      /\ Cardinality({Slice(symbols, at, group.len) : at \in group.members}) = 1
                      /\ \A j \in 1..(i - 1) :
                            CoveredBy(group) \cap CoveredBy(report.groups[j]) = {}

(* A copy in another file is found wherever it stands, unless the search    *)
(* was cut short: where no window is saturated every token of it is         *)
(* counted (detect.rs, the seeds; fingerprint.rs, windows).                 *)
EveryCopyIsFound ==
    \A a \in ColdAnswers :
        (\A h \in Hashes(a.index, a.report.files) :
            Len(Occurrences(a.index, a.report.files, h)) <= SaturatedOccurrences)
        => Copied(SymbolsOf(a.index, a.report.files), LAMBDA at, to : at[1] # to[1])
             \subseteq a.report.covered

(* A number that a longer search would have changed is not called complete  *)
(* (detect.rs, truncated_paths; engine.rs, demote_to_partial).              *)
SampledIsPartial ==
    \A a \in ColdAnswers :
        \A r \in Measure(a.index, a.report) :
            r.completeness = "complete" =>
                \E u \in Measure(a.index, a.longer) :
                    u.metric = r.metric /\ u.path = r.path /\ u.value = r.value

(* What is told of copies is all there is to tell, or says that it is not.  *)
SearchIsSound == ClonesAreClones /\ EveryCopyIsFound /\ SampledIsPartial

(* An index is published again and again: a lock that a crash left is       *)
(* stolen, and the race for it leaves somebody writing (index.rs,           *)
(* LOCK_STALE).                                                             *)
NeverWedged == []<>(\E p \in Programs : At(p, "published"))

=============================================================================
