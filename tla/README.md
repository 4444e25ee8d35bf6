# A verification development of andon

andon measures a code change `base..head`, reaches a verdict (`pass`, `advise`,
`block`, `escalate_to_human`) and keeps measurement records in git notes, where
an independent verifier recomputes them and attests. This directory holds TLA+
modules of it, TLC configurations that check them on small instances, and
proofs, checked by TLAPS, that hold for every value of the constants.

Paths below are relative to `src/crates/`.

1. Inventory of the system
2. Modules, and how their state and actions correspond to the code
3. Runs, bounds and fairness
4. What the code does not keep
5. Proofs
6. Not modelled
7. Plan

## 1. Inventory of the system

| Component | State it keeps | Operations | Talks to | What is hard |
|---|---|---|---|---|
| **Measured range**: `andon-cli/src/{resolve,measure}.rs`, `andon-core/src/git/{resolve,diff,status,dirty,state}.rs`, `andon-sandbox/src/worktree.rs` (overlay) | none; reads refs, index, files | choose base and head, snapshot an uncommitted head, union of segments, policy at both ends, overlay | git, sandbox, policy | six git commands with a live working tree between them, stat caches, line-ending conversion, fallbacks that change what is measured |
| **Git runner and blob reads**: `andon-core/src/git/{command,mod,batch}.rs` | a handle; one `cat-file` child | open, spawn, read a blob or a file | git | hostile environment and configuration, a child that dies mid-answer |
| **Engines**: `engines/static-metrics`, `engines/tamper`, `engines/artifacts`, `engines/clones`, `engines/process` | caches only | measure a change | blobs, history, reports | rules of scanning and counting, what is not seen, renamed and split changes |
| **Caches**: `engines/clones/src/index.rs`, `engines/process/src/cache.rs`, `andon-core/src/cache/` | index file, pending file and lock; content-addressed windows | load, update, store; get, put | file system | stale lock stealing, death between pending and published, answers that a deeper clone makes stale |
| **Payload assembly and verdict**: `andon-core/src/payload/`, `andon-core/src/verdict/`, `parse_health.rs`, `engine.rs`, `policy.rs` | none | `prepare`, `finish`, `run_engine`, `apply`, `evaluate`, `loop_outcome` | counter, wait | precedence of rules, muzzled metrics, policy weakened by the change it judges, runs that saw nothing |
| **Iteration counter**: `andon-core/src/verdict/iteration.rs` | `iteration-state.json` of all branches, a lock file | `advance`, `reset`, `peek` | file system | lock files, stealing of stale locks, death in the critical section, saturation |
| **Async lane**: `andon-cli/src/{measure,jobs,store,main}.rs`, `init/hook.rs`, `andon-mcp/src/lib.rs` | `last-measure.json`, `async-job.json` | `measure`, `wait`, `attest` | engines, sandbox, payload assembly | two files and no lock, concurrent commands, death between the two writes, writes that fail |
| **Sandbox**: `andon-sandbox/src/{exec,worktree}.rs`, `engines/tests` | worktrees, child processes | enter, run, close | operating system | timeout against exit, kill, readers of pipes, leftovers after death |
| **Notes ledger**: `andon-ledger-min/src/notes.rs`, `andon-ledger/src/{sync,migrate}.rs`, `andon-cli/src/ledger.rs` | two notes refs per clone and remote, a tracking ref per clone | append a record, `ledger sync`, `ledger migrate` | git and remotes | concurrent clones, refused and unheard pushes, forced fetches, three-way merges, death between two git commands |
| **Verifier**: `andon-core/src/compare.rs`, `andon-ledger-min/src/verify.rs`, `andon-ledger/src/worst.rs`, `andon-cli/src/attest.rs` | none; reads `andon-measure`, adds to `andon-attest` | `classify`, `decide`, `verify`, `attest`, `decisive`, `attest-stub` | ledger, git ancestry | order of checks, several reports in any order, the head landing meanwhile, vacuous comparisons |
| **Ledger statistics**: `andon-ledger/src/{stats,fp_window}.rs` | none | `ledger stats`, the false-positive window | ledger | regimes, migrated and merged notes, clocks |
| **Dates**: `andon-core/src/date.rs`, `fp_window.rs` | none | days to dates and back, stamps | process engine, statistics | leap centuries, eras, negative days |
| **Agent surface**: `andon-mcp/src/lib.rs`, `andon-core/src/schema/agent_profile.rs` | none of its own | `measure_change`, `get_results`, `await_results`, `get_ledger` | async lane, ledger, policy | budgets, a policy that changes between two calls |
| **Init and hooks**: `andon-cli/src/init/` | settings, servers, scripts, rules | install, remove, fire | file system, owner's editor | foreign content, refusals half way, death in a write |
| Evidence registry and its lint, renderers, `explain`, `doctor`, `demo`, commit trailers, site, packaging | none | functions of text | | |

How they interact. `measure` resolves the range, takes the snapshot, runs the
engines on what it read, assembles the payload, advances the counter, finishes
the verdict, settles the async job and leaves the record to its caller, who
stores it and may append it to `andon-measure`. `wait` replays the snapshot in a
sandbox, runs the deferred engines and merges their answers into the stored
record. `sync` carries both refs between clones. The verifier reads all reports
on the head, compares each with its own recompute and appends an attestation;
consumers read the worst attestation. The hook and the MCP server drive
`measure` and `wait` for an agent.

What makes each correct: the range is the work and is one set of bytes for all
its readers; git is asked under pins and its answers stay in step; engines count
what their rules say and name what they could not see; a cache never changes an
answer; a fired flag stops the line, neither worse findings nor an edit of the
policy soften a verdict, and an escalation stands until it is answered; the
counter behaves as if every call were atomic; the stored record is of one
measurement and accounts for every engine; a suite's answer is its own and
nothing of it outlives it unsaid; the ledger never loses a record and a
successful sync is two-way; confirmations are earned and accusations have
evidence, and repeating anything buys nothing; what the agent and the owner are
told is what happened.

The hazards behind these, each at its line, are in `PROJECT.json`.

## 2. Modules

| Module | Role |
|---|---|
| `GrowOnlyLedger` | abstract: replicas of a set of records per commit that only grows |
| `NotesLedger` | the git-notes protocol; `ImplementsGrowOnlyLedger` is its refinement |
| `LoopCounter` | abstract: per-branch counts with calls that take effect at once |
| `IterationCounter` | lock file and state file; `ImplementsLoopCounter` is its refinement |
| `Verifier` | classification, worst-of, attestation |
| `AsyncLane` | record file, job file and the commands that write them |
| `Gate`, `VerdictLoop` | one verdict as a pure function; measure, wait and ack over one branch, judged by `Gate`, counted by `LoopCounter` |
| `Sandbox` | a worktree and the command that runs in it |
| `Clones`, `CloneIndex` | the clone search; its index on disk, shared by processes |
| `History`, `HistoryCache` | the history window and its numbers; its cache over clones that are cut off and deepened |
| `DirtyTree`, `MeasuredRange` | what git says of an uncommitted tree; the range, the snapshot and their readers |
| `ConfigEdits`, `Tamper` | edits of tool configuration; the seven detectors over an author's commits |
| `GitRunner`, `BlobBatch` | how git is spawned; the `cat-file` child |
| `SyntaxTree`, `Complexity`, `SourceLines`, `StaticMetrics` | trees and their reference rules; the cognitive walk; the Rust line scanner; the static engine over a change |
| `CoverageGaps` | coverage reports against a diff |
| `LedgerStats`, `Calendar` | statistics and the false-positive window; dates |
| `Integration`, `AgentSurface` | init, removal and hooks; the agent's four questions |
| `Ledger_proofs` (the ledger and the verifier), `Processes_proofs`, `AsyncLane_proofs`, `VerdictLoop_proofs`, `CloneIndex_proofs`, `MeasuredRange_proofs`, `Engines_proofs` | the theorems of section 5 |
| `Induction` | the lemmas those modules share: induction over numbers and sequences, and recursive functions |
| `MC*` and `.cfg` | instances for TLC; `MCLedger`, `MCProcesses`, `MCVerdictLoop` and `MCEngines` put parts side by side that share no state, a behaviour being of one of them |

Operators named after a variant (`MergedNoteOurs`, `DisambiguateByLines`, ...)
stand before the definition they vary. They are mutations: plausible bugs, used
to see that each property notices one. No specification uses them.

### 2.1 NotesLedger

A notes ref points at notes commits. A *version* is such a commit: `hist[v]` is
it with its ancestors, `notes[v]` its tree, version 0 a ref that does not exist.
`local`, `tracking` and `remote` are the refs; `sync` and `mig` the commands in
flight, with what they hold in memory. The records `began` and `saw` in `sync`
are history: what the clone and the remote held when the sync fetched.

| Action | Code |
|---|---|
| `AppendRecord` | `Notes::append` (`ledger::record`, the stop hook, `attest`) |
| `SyncFetch`, `SyncFetchFails`, `SyncMerge` | `sync_ref` up to the first push: `fetch`, `merge_tracking`, `ref_exists` |
| `SyncPush`, `SyncPushUnheard`, `SyncPushRefused` | `git push`: taken; taken, with the answer lost; refused for any reason |
| `SyncRefetch`, `SyncRemerge`, `SyncRecoveryFails` | the recovery in `push_with_retry`, and `sync_ref`'s loop |
| `MigrateRead`, `MigrateWrite` | `Notes::migrate`: two reads, then `git notes add -f` |
| `Kill` | death of a running command: the refs stay as they are |

Each git command is one step: the code relies on git for that, and what git does
(fast-forward rule, three-way note merge with `cat_sort_uniq`) is modelled from
how the code uses it and mapped as external. The merge is *not* a union: a note
unchanged on one side takes the other side's content, whatever it is. That it
nevertheless loses nothing is a property of the whole protocol (`HistoryGrows`).

`MigrateAlone` says whether a migration has its clone to itself. No lock in the
code ensures that; without it `RecordsOnTargetSurvive` fails (section 4).

### 2.2 IterationCounter

`file` is the parsed state file and `usable` whether it parses; `lock` the lock
file with a ghost owner; `phase`, `call`, `copy` what each process does. The
calls are the three outcomes of `advance` and `reset`. Time is abstracted: a
lock file becomes stale at some moment (`LockAges`), a wait runs out at some
moment (`GiveUp`). Parameters switch the environment on: `Stalls` (a live holder
keeps the lock past `LOCK_STALE`), `Crashes`, `Leftover` (a lock file from
earlier), `DirWritable`.

| Action | Code |
|---|---|
| `CreateLock`, `SeeStale`, `Steal`, `GiveUp` | `StateLock::acquire`, one action per file-system call |
| `Read`, `Write`, `WriteFails`, `Release` | `advance` and `reset` under the lock; `write` is one rename |

### 2.3 Verifier

`note` is the body of the head's note, in order; `run` a verification between its
reading and its writing; `attests` the attestations written; `landed` whether
the trusted branch has taken the head in, which moves the trusted base. A report
is abstracted to what `classify` looks at: where its base is (`Bases`), whether
its head is the head, whether it was committed, whether it can be read, and its
results (key, regime, digest, flag). Two scopes of one metric are two keys.

Left out: `NotPinnedToHead` and `UnknownRevision` (no effect), reason texts, the
lists inside `CompareOutcome`. The recompute is always of a commit, as
`resolve_commit` guarantees. The verifier is one process per head; several are
several runs of it.

### 2.4 AsyncLane

`record` and `job` are the two files. `at`, `mine`, `plan` are the running
commands and what they hold. Engines fall into content engines, which the cold
cap can defer in starting order, inline engines, and the suite, which is only
ever deferred. What an engine measured is abstracted to whether it answered,
failed, was deferred, or answered with no result (`Silent`). `id`, `inputs`,
`silent` and `calm` are history.

| Action | Code |
|---|---|
| `Measure` | `measure` up to `prepared.finish` |
| `HandOff` | `measure`'s last part: `jobs::write` or `jobs::clear`, either of which may fail |
| `Save` | `store::write_last` by the CLI, the hook or the MCP server; best effort |
| `Wait`, `Mismatch`, `Run`, `Refuse` | `jobs::complete` up to the merged record, and its refusals |
| `SaveMerged`, `Clear` | its last two steps (`jobs.rs:407-408`) |
| `Attest` | `attest` measures and, deferring nothing, clears the job |
| `Crash` | death of a command |

Left out: the tool-version and record-kind checks of `wait` (they always pass
for one binary), a sandbox or registry that cannot be opened (a wait that ends
earlier and changes nothing), and errors of `measure` before it has a record.

### 2.5 Gate and VerdictLoop

`Gate` is one verdict. A *view* is what it is made from: the policy in force, the
policies at both ends of the change, what every metric reported, which of them
are there, the engines that failed or were deferred, and whether a path could
not be read. A number is an integer to `MaxValue` or absent (an engine says so
in words); a tamper detector's and a suite's flag are 0 and 1. The suite under
each possible command is a metric of its own, because an edit of the command
replaces what is asked. `Severity` composes `SeverityLadder::severity_for`,
`assign_severity` and `severity::apply`; `StopsTheLine`, `Counts`, `Direction`,
`Moves`, `Open`, `Reasons` and `Verdict` are the functions of the same purpose.
`evaluate` merges the metrics of one kind into one reason; here each metric has
its own, which the four words do not tell apart.

`VerdictLoop` has the branch's counter `entry`, the last `record`, and the history
variable `told`, the cap of an escalation nobody has answered yet.

| Action | Code |
|---|---|
| `Measure` | `measure` from `run_all_engines` to `prepared.finish`, with `advance` between; `late` is the first engine the cold cap defers, `down` the engines that failed, `busy` a counter whose lock could not be had |
| `Wait` | `jobs::complete`: the deferred engines answer or fail, and the recorded count is used again |
| `Ack` | `ledger::ack` |

The commands run one at a time: `AsyncLane` has their interleavings and
`IterationCounter` shows that the counter's calls are atomic. Left out are
justifications (no caller passes one, and a self-report may not carry a verified
one), notices (their severity is `Info`), and the fields of the policy that the
verdict does not read.

### 2.6 Sandbox

`pc` is where the measuring process is, `room`, `dirs` and `regs` its worktree's
directory, the directories that exist and the worktrees git has registered;
`proc` is the life of the child and of what it starts, `inside` those a kill of
the group or job reaches, `pipes` those that hold the output's pipes; `end` is
how the child ended. Time is two moments, the deadline (`DeadlinePasses`) and the
end of the grace a killed child is given (`GracePasses`). A kill dooms a process
and the kernel ends it later (`Dies`).

| Action | Code |
|---|---|
| `Enter`, `Overlay`, `Close`, `RemoveByGit`, `RemoveByHand` | `worktree.rs`: `worktree add --detach`, the overlay, `close` with its prune, `worktree remove`, the fallback |
| `Spawn`, `Contain`, `Poll`, `Check`, `Reap`, `ReapAfterError`, `WaitRefused` | `exec.rs`: `run` and `reap`, step by step, job object or process group |
| `Sweep`, `Join` | the second `kill_tree` and the readers, joined without a bound |
| `Exits`, `Starts`, `Escapes`, `LetsGo`, `Dies`, `TempCleaned`, `SandboxDies` | the suite, its helpers and the machine |
| `Again` | the next `wait` |

Left out: the environment list, the limits and the output tails. What the overlay
writes is in `DirtyTree`.

### 2.7 Clones, CloneIndex

`Clones` is the search over a set of files as operators: windows of tokens and
their rolling hash, seeds, extension, the bounded partners of a saturated hash,
groups, coverage, and results; `SearchIsSound` compares it with pairs of equal
regions found by brute force, and with a search of `LongerBudget`. `CloneIndex` has the index file `disk`, the `lock`, the
temporaries `temps` and the processes `proc` that share them, each of a build
whose regime or format may differ.

| Action | Code |
|---|---|
| `Load`, `Disabled`, `MeasureCold` | `load` and its refusals, a run without an index, a measurement from nothing |
| `CreateLock`, `LookAtLock`, `RemoveStaleLock`, `CreateLockAgain` | the advisory lock and its one theft |
| `WritePending`, `Publish`, `ReleaseAndMeasure`, `WriteFails` | pending file, rename, release |
| `Crash`, `Stall`, `Tear`, `TimePasses` | the machine |

The parser is abstracted to leaves and the 64-bit hash to arithmetic modulo
`HashModulus`, small so that hashes collide.

### 2.8 History, HistoryCache

`History` is what the process engine makes of a log: the bytes of `git log -z`
as tokens (a path may hold the byte that separates commits), the window, the six
numbers and their reasons, the truncation markers, and `compare_legs`.
`HistoryCache` has one repository `history`, clones that hold it down to
`boundary`, the installed `git`, a `store` of windows per clone and the processes
that measure.

| Action | Code |
|---|---|
| `OpenRepository`, `Serve`, `WalkHistory`, `Put`, `Fail` | `Git::open` with `facts().shallow`, `load_or_read` and the engine over its window |
| `Deepen`, `CutOff` | fetches by somebody else |

An assumption names what is expected of measured commits: they change something.
(An empty commit gives no result and `compare_legs` refuses it, by design.)

### 2.9 DirtyTree, MeasuredRange

A file's content is a record of bytes, line ending and mode, or `Absent`; git's
blob is what conversion makes of it. `DirtyTree` is what git says of HEAD, index
and disk: the letters of `status`, stat-cache doubt, the snapshot and its
phantoms, the overlay. `MeasuredRange` is one measurement among edits: `repo` is
head, refs, shallow commits, index, disk, unmerged paths and operation; `run`
where the measurement is and what it has read so far; `edits` and `stirred` are
ghosts that say what was edited under it.

| Action | Code |
|---|---|
| `Start` | the command line |
| `InProgressOperation` | `state.rs`: a half-finished merge, rebase, ... |
| `ReadUncommitted` | the first `git status` |
| `OpenRange` | `resolve.rs`: the ladder of bases, or its refusal |
| `ScanTree`, `HashTree`, `Compare` | the snapshot: status, hash-object, diff against HEAD and against the base, union |
| `DirtyDeadEnd`, `LastMergedChange` | what the ladder does when there is nothing against its base |
| `LoadPolicy`, `ReadBytes` | the policy at both ends, the bytes the engines are given |
| `Write`, `Stage`, `Untrack`, `Commit`, `BeginMerge`, `AbortMerge` | somebody else |

Left out: gitlinks, staged-only snapshots (no command asks for them), copies,
bare repositories, names that are not UTF-8.

### 2.10 ConfigEdits, Tamper

A file's content is what the detectors tell apart: its settings, exclusion
lists, markers, code lines, cases, tables in functions, and the nodes its parser
gave up on. `start`, `tree` and `commits` are an author's history, `quiet` says
that every commit so far, measured alone, was quiet and complete. The only
action, `Commit`, is an edit, a move or a deletion; what each of the seven
detectors says of a change is a function of its two sides. `ConfigEdits` ranks
edits of settings and lists: what is a loosening, and what cannot be ranked.

### 2.11 GitRunner, BlobBatch

`GitRunner`: `config` are the configuration files, `inherited` the caller's `GIT_*`
variables, `attribute` the driver the attributes name, `handle` what `OpenGit`
found, `answers` and `ran` what the spawns answered and which programs they ran.
`OpenGit` is `Git::open` with its enumeration of filter drivers, `Spawn` a command
under the pins and the swept environment, `EditConfig` somebody else.

`BlobBatch`: lines `asked` and not answered, the `pipe`, whether the child is
`alive`, the `reader` and the `reads` that ended. `Ask`, `ReadHeader`, `ReadBody`,
`ReadEnds` are `blob.rs`; `ReadWorktree` is a read that bypasses the child;
`CatFileAnswers` and `CatFileDies` are git.

### 2.12 SyntaxTree, Complexity, SourceLines, StaticMetrics

`SyntaxTree` has the trees a grammar can make and the published rules of
cognitive complexity, stated over the tree and not over a walk. `Complexity` is
the walk of `cognitive.rs` as the machine it is (`lang`, `tree`, `walk`; `Write`,
`StartWalk`, `Visit`). `SourceLines` is the byte scanner of Rust comments and
strings over tokens (`tokens`, `scan`; `WriteToken`, `StartScan`, `ScanNext`,
`StartCount`, `CountNext`). `StaticMetrics` is the engine over a change (`changed`,
`read`, `files`, `unmeasured`, `results`, `engine`; `ReadEntry`, `ReadFails`,
`Measure`): functions named, told apart and paired, files left out with a reason.
The grammars are external.

### 2.13 CoverageGaps, LedgerStats, Calendar

`CoverageGaps`: `case` is the change, its diff and the reports on disk; `diffed`
and `touched` follow the diff, `tried` and `discovery` the candidate reports,
`gaps` the results. `ReadDiffLine` is `parse_unified`, `Discover` one candidate
with its lcov or Cobertura reader, `Attribute` the findings and what is said to
be unwitnessed.

`LedgerStats`: two machines with clocks of their own append, migrate and merge
reports (`AppendReport`, `MigrateReports`, `MergeReports` over `versions` and
`tips`); a reader lists the commits, reads their notes in the order of their names,
dates the first landing and counts (`ListCommits`, `ReadNote`, `LandingTimes`, `MeasureWindow`).

`Calendar`: a clock that goes on by hours (`today`, `hour`, `epoch`, `walked`;
`HourPasses`) from dates whose number is known, against `from_days_since_epoch`,
`days_from_civil` and the stamp. `DayNumber` counts days without either formula
and is what the known dates are checked with. Years are unbounded integers: the
code's `i32` years and four-digit stamps hold far fewer.

### 2.14 Integration, AgentSurface

`Integration`: `files` are the settings, the two server files, the pre-commit
script and the rules; `command` an `andon init` under way with the write it is about
to do, `told` what it said, `fired` what the hook did, `spent` the bounds and the
files edited since the command began. A step is two actions: `ReadFile` reads a file
and decides, `WriteFile` writes what was decided over whatever the file holds by
then. Either may fail, and a write that fails or dies leaves what `Unfinished` says.
With `CmdInit` and `Fire` they are `init/mod.rs`, `claude.rs`, `cursor.rs` and `hook.rs`;
`Killed` is death before or in a write, `OwnerEdit` the owner's editor, at any moment.
A command of a hook is ours or one of `OwnerCommands`; a script or rules file with
the marker is as some version wrote it, or has lines of the owner's besides; names
and markers stand for whole texts. Looking whether a file is there and reading it is
one step; two `andon init` at once are left out.

`AgentSurface`: the stored record `saved`, the `ledger`, the policy's `budget`,
the tool under way `call`, what the agent `heard` and what it may remember.
`MeasureChange`, `SaveMeasured`, `RecordMeasured`, `AnswerMeasured`, `GetResults`,
`AwaitResults` and `GetLedger` are the tools, `OtherMeasures` and `EditPolicy`
everybody else. A line is its length with its newline, a reason or a finding its
fixed fields and the text that is cut; codes and metric names stand in their order.
A profile is the reasons, then the findings, that fit, worst first.

## 3. Runs

| Run | Shows | Instance |
|---|---|---|
| `ledger_safety` | `LedgerInv`, `NothingIsLost`, `DecisionsAreEarned`, `MeasuringAgainBuysNothing`, `DecisiveNeverSoftens` | notes refs: 2 clones, 1 remote, 2 commits, 2 records, 1 attempt, 6 versions; verifier: 2 keys, 2 regimes, 2 digests, 22 reports, 2 lines, threshold 2 |
| `ledger_retry` | `SyncIsSound`, `SyncEnds`, `ImplementsGrowOnlyLedger` | 2 clones, 2 remotes, 1 commit, 2 records, 2 attempts, 8 versions |
| `processes_die` | `AnswerIsTheSuites`, `NothingIsLeft`, `CounterIsAtomic`, `CallsReturn`, `RunReturns`, `IndexIsTransparent`, `SearchIsSound`, `IndexNeverWedged` | counter: 2 processes, 2 branches, 2 changes, counts to 2, crashes; sandbox: both platforms, 2 helpers, 2 rooms, 2 suites; clone index: 2 processes of 2 builds, one fault, file sets with copies, repetition and colliding hashes |
| `async_pairs` | `RecordIsWhole`, `MeasuringRepairs`, `CalmWaitIsRun`, `RecordMovesOn` | 2 commands at a time, 2 changes, 3 policies, 4 engines, 3 measurements, crashes, failed writes |
| `verdict_gate` | `FiredFlagStops`, `EditsCannotSoften`, `WorseIsNeverSofter`, `StopsStand`, `HonestPairsAgree`, `WindowIsWhole` | 10 changes, 8 policies, 5 metrics of 4 engines, 2 flaky engines, counts to 2; history: 2 clones, 3 processes, 4 histories of 4 commits, one fetch, two reports |
| `range_moving` | `RangeIsTheWork`, `ChangeReachesEveryone`, `OneTreeOneKey` | 10 repositories over 5 commits and 2 paths, 8 command lines, 2 edits between any two git commands |
| `engines` | `TamperingIsSeen`, `GitIsPinned`, `ScoreIsOfTheRules`, `LinesAreOfCode`, `EveryFileIsAccountedFor`, `GapsAreOfTheFile`, `StatisticsAreOfTheRecords`, `ReadsStayInStep`, `InitIsTold`, `EveryDayHasItsNumber`, `AgentIsToldTheWorst` | eleven parts side by side, each with its small instance in `MCEngines` |
| `ledger_migrate`, `range_replay`, `range_blob`, `git_filters`, `init_removal` | one documented statement each that the code does not keep | the instance of the component's passing run, or a smaller one |

Where a run has parts that share no state, a behaviour of it is a behaviour of one
of them: each state says which part it is of, and the others stand still. A part's
properties are about its own behaviours, and the run is their sum, not their product.

Why the bounds are enough. In the ledger a record can only be lost where two
histories part and meet, for which two clones and six versions leave several
rounds; the second run adds a second remote, from which a stale tracking ref can
come, and a second attempt, after which the limit is reached. `MaxVersions` is
never a guard of a command already under way: a command starts only if the
versions it may need are left (`Claim`). The counter's calls concern one branch
each, and the lock two processes; two branches show that one call's rewrite of
the whole file leaves the other alone; `MaxCount` = 2 stands for `u32::MAX`, so
that the limit is reached. Of two helpers one can leave the tree and start the
other; of two rooms one can hold what a dead process left. The verifier's loops
are maxima and counts over lines, and a threshold of 2 over 2 lines reaches each
outcome of both; two results suffice for every combination of paired, unpaired,
skewed, different and non-deterministic. In the async lane the third measurement
can meet what is left of two others, one stored and one pending. The ten changes
of `verdict_gate` are chosen so that each rule meets the one that could undo it: a
fired flag under a parse error, a tier dropped in an edit that adds another, a
suite command replaced by one that always passes, an unread path in an otherwise
clean change, a committed range judged by another worktree's policy; caps of 0,
1 and 2 against counts to 2 reach every side of an escalation. A clone index is
shared by two, and the third writer could only repeat what one of them did; the
hash modulus of 16 makes unequal windows collide, and a `LongerBudget` of 1000 is more
than any of the files can spend. One fetch makes a clone
shallow or deep once in a measurement's life, which is where a window goes
stale. Each of the ten repositories exists for one rung or dead end of the
ladder or one conversion, and two edits can undo each other. In `engines` each
instance holds the cases its property tells apart: two commits for an author who
splits a change, files of up to three tokens and functions of up to three
constructs (every pair of nested constructs, and what follows), two files of the
same name in two directories under every spelling of a report, values on, under
and away from a rung, three reads around a child's death, two commands and one
edit of the owner, walks over every irregular turn of the calendar, four calls
of the agent under budgets that fit nothing, something and everything.

Deadlock checking is off: everywhere a bound (versions, lines, measurements,
faults, edits, runs) stops the system, or all processes may be dead.

Fairness. `NotesLedger!FairSpec` assumes weak fairness of a running sync's steps:
each is a git command whose child the process waits for, or a bounded sleep.
`ProcessesFairSpec` assumes weak fairness of each process that calls the counter
(nothing in a call blocks, except the loop in `acquire`, which sleeps two
milliseconds and looks again), of the process that runs a suite, of the deadline
and the grace (clocks go on), and of the death of a process the kernel was told
to kill. `CloneIndex!Fairness` assumes that a process that began goes on, that the
program is run again, and that time passes, which makes a lock file stale.
Beginning a call of the counter, dying, stalling, faults, helpers that end, and
everybody else's edits are never fair. The other specifications make safety
claims only and assume none.

## 4. What the code does not keep

Five runs expect a violation; they are listed under `findings` in `PROJECT.json`
with the statements they contradict.

- **A migration overwrites what arrived meanwhile** (`ledger_migrate`).
  `Notes::migrate` reads, computes the union, and writes it with `add -f`.
- **The suite does not run in the tree that was measured** (`range_replay`). The
  sandbox lays the change, a union against the merge base, over a checkout of
  HEAD: a file committed on the branch and deleted from the working tree stays,
  and the old name of a committed rename, used again, is removed.
- **The bytes measured without staging are not what `git add` would store**
  (`range_blob`). `read_without_staging` says its blob is checkout-normalised and
  byte-identical to the index's (`measure.rs:568-575`); it is made under the pinned
  `core.autocrlf=false` (line 618), so that where the checkout converts, an unstaged
  CRLF file is measured raw. `status.rs:607-610` says of the snapshot's hashes that
  staging a file moves no key; it moves these, and the digest holds the status
  letters and the staged blob too. `ChangeReachesEveryone` asks for the blob of the
  bytes on disk, or for the index's where that one was checked out to them (`Blobs`).
- **A filter driver may run that nobody pinned** (`git_filters`). With
  `GIT_CONFIG_GLOBAL` exported, the enumeration of filter drivers reads that file,
  while pinned spawns sweep the variable and read `~/.gitconfig`, whose driver was
  never found (`command.rs:546`; the comments at 131-134 and 537-541 claim the union).
- **A removal deletes what others wrote** (`init_removal`). `remove_owned_file` deletes
  every file that contains the marker, with whatever its owner added (`cursor.rs:182`);
  `remove_stop_hook` drops every entry without hooks, whoever wrote it; and either acts
  on what it read a moment before. `cursor.rs:18-19` and `mod.rs:23-24` claim otherwise.

Statements of the documentation that the code does not keep either, which are
defined in the modules and checked by no run (each fails where it is checked):

- `RecordIsItsOwnManifest`: an engine that answers with no result is not in the
  record, which `wait` takes for the list of who answered (`jobs.rs:254`).
- `PendingJobRunsAgain`: a death after the merged record is stored leaves a job no
  later `wait` accepts (`jobs.rs:407`).
- `OnlyIncrementsAreLost`: of two processes that saw one stale lock, the second
  deletes the first one's fresh lock; a cleared count comes back
  (`iteration.rs:478`).
- `StubAccusationHasEvidence`: the stub asks about ancestry of the trusted base,
  not of the trusted branch (`attest.rs:165`). Its "most recent self-report" is
  the last line of the note, which a merge sorts (`attest.rs:144`).
- `FinishedLoopIsCleared`: with the lane on and a test command set, every
  measurement defers the suite and is inconclusive, and `wait` does not touch the
  counter: only `ledger ack` ever clears it (`jobs.rs:390`).
- `OnlyWideningFires`: the exclusion detector fires when `**` is replaced by two
  narrower patterns (`coverage_exclusion_drift.rs:262`).

Smaller observations. *Ledger and verdict*: `sync_all` synchronises the
measurements, then the attestations, and stops at the first failure
(`sync.rs:221`). A stale lock file that cannot be removed is retried without
sleep or deadline (`iteration.rs:477-480`): with `DirWritable = FALSE` `CallsReturn`
fails. The count is documented as "once per distinct change"
(`docs/verdicts.md:190`) and remembers the last change only. An acknowledgement
does not reach a record that is still to be completed. A committed range is
judged by the worktree's policy, which need not be that of either end. Replacing
one test command by another is `Unclassified` and never blocks, as documented; it
is the exception in `EditsCannotSoften`. The escalation threshold of the verifier
is documented as *distinct* reports and counts lines, so that a `cat_sort_uniq`
merge can end an escalation. `schema/payload.rs:667-679` describes a field
differently from `andon-ledger-min/src/measure.rs:103-110`.

*Range and sandbox*: an edit after the last range was opened gives the record the key
of one tree and the bytes of another: nothing is locked and nothing is read twice.
`detect_policy_change` reads a rename's source as the policy
before, so that renaming an existing lax file to `.andon.toml` hides a loosening;
an unreadable `.andon.toml` counts as removed. A measurement of a pinned head is
judged by the working tree's policy. The exclusions of `self_measure` also leave
paths out of the sandbox; an exclusion is matched against an entry's new path only
(`apply_exclusions`, `measure.rs:1017-1028`), so where a rename's new name is
excluded the removal of its old name is neither measured nor named, and if the old
name is `.andon.toml` that edit is not seen. A file untracked with `git rm --cached` is reported as
added; `AD` with nothing on either side. The HEAD rung may say "no branch point
found" though one exists; `NoParent` says shallow boundary whenever the clone is
shallow. In a clean CRLF clone with a stale stat cache the first status is dirty.
A commit between `rev-parse HEAD` and `status` drops that commit's work. A process
id may be reused by the second `kill_tree` (`exec.rs:175`). The overlay never
drops an executable bit, writes a symlink's blob as a file, and writes through
a symlink of the anchor.

*Tamper*: a rename out of the test paths followed by a deletion is quiet twice;
a setting that changes kind is quiet; an exclusion added in one configuration
while another drops one nets to zero; `covers` ranks `src/**/*.spec.ts` over
`src/generated/**`; a newly added skipped test fires when added and when removed.

*Static metrics*: `else_clause` takes `named_child(0)`, so that a comment between
`else` and its statement hides the whole else body (`cognitive.rs`); comments
also break the conditional expression's match and the decorator exemption, and
of Python's `match a, b:` only the first subject is walked. `char_literal_end`
ends `'\''` at the escaped tick (`rustlex.rs`).

*Coverage*: an added line whose content starts with `++ ` is taken for a header
(`hunks.rs:121`, against the comment at `hunks.rs:5`). A unique suffix match gives
`util.ts` the coverage of `lib/util.ts`, and beats a later report's exact one
(`report.rs`). Cobertura with several source roots merges files of one name,
against its comment at 107-110. An lcov file read mid-write counts as complete.

*Caches and clones*: two thieves of a lock, or a thief and a stalled holder, both
write the index, which is harmless (`index.rs:449`). Places of a clone group may
overlap; a capped search covers fewer tokens. `cache/store.rs:92-94` says
"identical", which history windows need not be. `git log --since` prunes behind
an older commit; negative committer times are not read.

*Statistics and dates*: a migrated note's lines stand under two commits, so that
the record counts twice, and `CLUSTER_MIN_SAMPLES` may be three measurements.
Remote clocks date landings. `parse_stamp` ("strict on purpose") and
`Date::from_str` accept signed fields.

*Init, hook, agent*: besides what `init_removal` shows, a removal drops emptied keys,
the user's own identical command, and what stands beside our only command in its
entry (a matcher); it leaves `{}` in a file that the install created. An install
rewrites a marked file with whatever its owner added (`cursor.rs:112`), and replaces
a file of somebody else's that appeared after it looked. What the owner saves
between a step's read and its write is lost. JSON files are written in place: a write
cut short leaves a broken file, or a script without its marker, which the next run
refuses as somebody else's. A gate whose `chmod` failed is told as installed by the
next run, which does not look at the mode. A refusal names the file it stopped at and
lists the steps before it, so that a write which failed half-way is said only by
that name (`mod.rs:27-29`: a gate that went live "never goes unsaid"). In
a shallow clone at its boundary the hook lets a clean tree through. A corrupt git
configuration is reported as no repository. A `cat-file` that neither answers
nor dies blocks a read for ever. `bounded_listing` says that "truncation drops whole
lines from the end" and passes over a line that does not fit while keeping later
ones (`lib.rs:376-406`). The truncation notice fits only from about 1250 bytes.
`render::profile` reads the policy again, so that one broken during
`measure_change` turns a saved measurement into a refusal. Names cut at 64 bytes
are not marked as cut. `build_agent_profile` says that a squeeze "spends findings
before it spends reasons" (`agent_profile.rs:291-295`); a short finding may still follow a
longer reason that did not fit, and takes less than that reason would have.

Where the models are narrower than the code. *Counter, index, sandbox*: a lock file
that cannot be written or removed (`iteration.rs:506`, 511-513, and the index's) is left
as by a death, but its maker lives on; neither is in the models. On Windows the
`child.kill()` of a child that cannot be put in a job is taken to succeed
(`exec.rs:120`). *Ledger and verifier*: the two reads of a migration are one step, a
record for the source counting as after both and one for the target as before.
A claimed base equal to the head is judged as any commit on the way to it until the
head lands; afterwards a recompute would measure an empty change, which no instance
has. *Tamper*: of lines a scanner took no setting from, the code reports those that
hold a number, a severity word or a boolean; the models' unread lines are of that
kind. An exclusion list stands on its key's line; of a list over several lines the
code takes each line for an exclusion whatever the key says
(`coverage_exclusion_drift.rs:374-386`), and it counts an entry as often as it stands
there (208-223). *Coverage, static metrics*: a diff's path that cannot be
represented (`hunks.rs:150-160`) was refused earlier, when the change was read; only an
added line that looks like such a header meets that refusal. Whatever the parser
refuses is told as not UTF-8, and is one case. *Statistics*: bands are exact where
the code has `f64` (`stats.rs:685-700`), which may be a rounding off at a floor;
`ledger stats` and the false-positive window are two commands and one step here.

## 5. Proofs

Seven modules hold 47 theorems, and with `Induction` the lemmas they rest on, checked to the last
leaf by TLAPS (SMT, Zenon, and LS4 for the temporal steps). Of the 40 properties
the passing runs check, 30 are theorems for every value of the constants.
`PROJECT.json` lists them with what each says. Every inductive invariant was
first checked by TLC on the instance of its run.

**Induction.** The library's induction theorems take an operator and cannot be
instantiated. `Induction` states for a *set* what they state for an operator, and
proves it from the well-foundedness of the naturals: `EveryNumber` and `EveryNumberTo`
for numbers, `EverySequence` for sequences built by `Append`. `Recursion` says that
where every step has a value there is a function that takes it; with it a recursive
function is unrolled before anything is said of it. Least and greatest members are
`LeastIsThere` and `GreatestIsThere`; what a sort puts where is `RanksOrder`: the ranks of
a strict order take every place once, in order.

**NotesLedger** assumes `MigrateAlone` and, with the module's other `ASSUME`s,
`ApartAssumption`: no clone is a remote. `LedgerInv` is inductive. Its core is
`HistoryGrows`: no version attaches fewer records than an ancestor. With it a
fast-forward can only add, and a three-way merge is the union of its sides,
because each side contains the base (`MergeKeepsBoth`); without it the merge
alone could drop records. `SyncProgress` carries from step to step what the sync
started with, `TrackingIsRemote` that a fetched history is part of a remote's,
`MigrationIsFresh` that what a migration writes covers the target's note. From it
follow `NothingIsEverLost`, `SyncsAreSound` and the refinement `LedgerOnlyGrows`,
where a migration's write is exactly the abstract carrying over
(`MigrationIsExact`). Without `MigrateAlone` they are false (section 4).

**Processes: the counter.** `CounterInv`: a lock file is there exactly while its
owner is between creating and removing it, or was left by an owner that died
(`LockInv`), at most one process works under it, and what that process has read
is still what the file holds (`CopyInv`). `FileIsACounter` maps a `Write` to the
abstract call and every other step to a stutter. The lock's one weakness is the
takeover: two processes that both found the same stale lock. So the theorems
assume no stalls (a holder that outlives the stale age loses its lock by
design) and ask only that no two processes are ever between finding a lock stale
and removing it (`OneStealer`): `TakeoversKeepTheCount` says that whatever the
number of processes, crashes and takeovers, the file is then one atomic cell.
`OneHeir` names the constants that keep `OneStealer` by themselves: nothing is
left over and nobody dies, or a single process inherits the lock
(`AbandonedInv`, `HeirsAreAlone`). `CounterIsOneCell` is the property outright
for them, and the instance of `processes_die`, two processes that may crash, is
among them. Without a hypothesis of this kind the property is false: that is
the hazard at `iteration.rs:478`. `TypeCorrect` needs no assumption.

**Processes: the sandbox** (no assumption beyond the constants' types).
`AnswerInv` says, for each way a run can stand (not yet answered, still its own
child, gone, stopped without an answer, answered), which end of the suite it can
have seen: a child reaped after a kill is never taken for one that ended by
itself. `LeftInv` says who is in the process
group or job at each place of the run: nobody before the command, on Windows
nobody before the job is assigned, and nobody alive once the group was killed or
the job closed and the run goes on to its clean-up; and that a run that is over
either removed its room or told of it.

**Verifier** (no assumption beyond the `ASSUME`s). `RunInv` relates a run to what
it read; `ConfirmedWitnesses` and `DivergentHasEvidence` are about `Classify`
alone; `WorstIsWorst` gives the maximum by rank, from which the monotonicity
theorems follow, with `CountsGrow` for the escalation counts.

**AsyncLane** (no assumption beyond `LaneAssumption`; all crashes, failed writes
and interleavings allowed). `SoundInv` says that every record and job, on disk
or in memory, is sound by itself and that a job a command holds is one a
measurement wrote; `Accounts`, `Belongs` and `SamePolicy` then keep a merge sound
whatever record and job it meets. `CalmInv` describes the two files at each place
of the one command that runs, and gives `MeasuringAlwaysRepairs` and
`CalmWaitsAreRun`. `RecordsMoveOn` is the action property.

**VerdictLoop** (assuming `MetricsAssumption` and `LoopAssumption`). Three lemmas
about `Gate` carry it: `BlockingWords` says which views stop the line,
`VerdictWorsens` that the verdict is monotone in the findings (through the
ladder, the ceilings and the flags), and `TighterStops` that a policy edited
without a loosening stops and counts whatever the old one did, from
`TightenedFields`. `LoopInv` adds to the types that the record's verdict is the
one its contents justify (`JudgedInv`), and that while an escalation stands the
counter, and the count a deferred engine will be judged with, stay above its cap
(`ToldInv`): the counter is lowered only where everything was seen and nothing
is open (`MeasureFacts`, `FinishedEndsEscalation`).

**CloneIndex** (no assumption beyond the types). `IndexChangesNothing`:
every entry on disk is the one its path and blob give under the index's regime,
and what a run holds is what it would compute from nothing, because `load` refuses
another regime's index and only whole files are published. Locks and thefts
need not be mentioned, which is why two writers are harmless.

`CopiesAreTold` takes from that invariant only that a run's index is cold, and
proves the search sound for any sources, any modulus of the hash (so for any
collisions), and any window length, cap and budgets the constants' assumptions
admit: windows no longer than a clone, a longer budget no shorter. It says the
following, each in a few lemmas.

- *The hash is the window's* (`WindowsAreHashes`): rolling from one window to the next
  gives what hashing it afresh would, by congruence modulo `HashModulus`. So equal
  windows get equal hashes, which is all the search asks of it.
- *What is called a clone is one* (`ClonesHold`): a match is what `Extend` found to be
  equal token by token and its places do not overlap (`MatchIsAMatch`), whoever was
  paired; every token of it lies in a stretch of `MinCloneTokens` that is found
  again (`MatchesAreCopies`); a group has one text (`GroupsAreGood`); the order the
  groups compete in is strict (`GroupsAreOrdered`), and those told share no token
  (`KeptIsApart`).
- *No copy in another file is missed* (`CopiesAreCovered`): go back from the copy as
  far as it goes (`CopyBegins`). There nothing that matches precedes it, so the
  search starts there and not, as it otherwise may, skips it; its two windows share
  a hash, are paired because no window is saturated (`CopyIsMatched`), and the match
  reaches over the copy (`ExtendIsLongest`).
- *What was left out does not pass for complete* (`SamplesSaySo`): a longer search
  cuts no further file (`TruncatedShrinks`). The budget shows only in what a
  place is aligned with, which lies in its own file (`AlignedInOneFile`,
  `RegionIsOfOneFile`); so a file that was not cut has the same tokens covered
  (`CoveredInAFile`), and where none was cut the reports are equal
  (`UncutIsComplete`).

The recursive functions (`TokensOf`, `Power`, `HashOf`, `Windows`, `Kept`) are unrolled with
`Recursion`.
`Sorted` is by rank, and `RanksAreTaken` says every rank is somebody's.

**Engines.** Invariants of parts that share nothing.

- *Git runner* (`GitStaysPinned`): three facts. The answers are the checkout's; no
  filter the handle found ever runs, whatever is edited later and whatever the caller
  exports (`KnownFiltersStayInert`); and where nobody edits the configuration and the
  caller does not export `GIT_CONFIG_GLOBAL` none runs at all (`FiltersStayInert`).
  Without that last condition none of the kind holds: `git_filters` shows it.
  `DriversAreKnown` says that an open handle knows the drivers of the configuration
  until somebody edits it, `NothingRan` that until then no filter of the user's ran. The answers are the checkout's because a pin comes before whatever the
  files say (`PinnedReads`, `CheckoutReads`, `PinnedKeys`), and each known driver is
  pinned to nothing (`FilterPins`, `NoFilterRuns`).
- *Blob reads* (`ReadsKeepInStep`): at every moment of the one reader the pipe is
  empty and nothing is open, or its header comes next, or its body
  (`NothingOpen`, `HeaderIsNext`, `BodyIsNext`), wherever the child dies.
- *History cache* (`ClonesNeverContradict`, `DeepeningIsNoticed`): `CacheInv` says
  that an untruncated window, wherever it is kept, is the whole history's. It is
  inductive because a complete clone cannot be deepened, and because nobody in the
  model cuts a clone off while a process measures in it; `CacheAssumption` says that
  a measured commit changes something.
- *Ledger statistics* (`StatisticsTellTheLedger`): `HereInv` says that everything made
  on this machine is behind its ref, in the order of its clock, so that a record only
  this machine wrote is dated by its first version; `ReadInv` that whatever was read is
  behind the ref still when its history is walked, so that nothing is undated
  (migrations and merges only add, `CommitKeeps`). The entries a window places are
  split three ways without overlap (`EntriesSplit`). For the rungs, what lies in a band
  that is clear of zero is what counts as shaved (`BandsAreClear`), so a warning is about
  the shaved and the honest of one regime (`OneRung`, `WarningsAreOfRungs`).
  `StatsAssumption` says that commits and clocks are numbers, the results of a record
  finite, the thresholds positive and `CLUSTER_WARN` at least 2, which it is; `ShavingIsJustUnder` is what the label "shaved" of the property means.
- *Init* (`InitTellsWhatItDoes`): what a step decides for the file it read, and says of
  it, is `StepIsSaidOf`, for a file of any contents; the write may come after edits of
  the owner, fail or be cut short (`UnfinishedIsAFile`, `WriteKeeps`). What is kept is
  what the step read: that a removal spares everything others wrote is false
  (`init_removal`). For the Stop hooks that means sequences of entries of any length: an
  install, a rewrite of our commands and a removal leave all other commands in their
  entries and their order (`OthersInstalled`, `OthersRewritten`, `OthersRemoved`, by
  `EverySequence` over how entries are put behind each other, `OthersAppend`), and of ours the one wanted or none (`CommandsInstalled`,
  `CommandsRewritten`, `CommandsRemoved`). `InitInv` adds to the property that every
  file is one of its place, that the steps left are the end of a harness's list, and
  that nothing was said yet of a file still to come (`ToldInv`): without that a second
  step could contradict what the first one said.
  `IntegrationAssumption` says that the files the repository and its owner start from are
  files of their places; `OwnerCommands`, what others write there, is any set.
- *Agent surface* (`AgentHearsTheWorst`): for items and sizes of any number, what is
  taken is the longest beginning that fits (`TakeIsABeginning`), and a beginning of what
  is listed worst first has everything that is worse than anything it has
  (`WorstIsFirst`, `BeginningKeepsTheWorst`). The reason after the last one taken did not
  fit, so the findings that do take less (`TotalGrows`, `ProfileIsTold`). Lines that are
  passed over make a listing fit with its notice, and one that passes over none is
  whole (`PassOverFits`, `ListingIsTold`). `SurfaceInv` adds what outlives a step: what is
  remembered is what is saved, what the tool under way holds once it saved, and
  until then what was last told; every answer is a refusal, the profile of a record
  within some budget, or a listing. `SurfaceAssumption` says that sizes are numbers and
  that a reason without a message takes some bytes, which it does.
- *Dates* (`EveryDayIsNumbered`): for a day of a year that begins in March the
  month, the year of the era and the era are found again (`MonthsAreFound`,
  `YearsAreFound`, `ErasAreFound`); of those `FormulasAgree` makes that both
  formulas agree with `DayNumber`, and `TomorrowIsNext` that the clock advances it
  by one. `CalendarAssumption` only says that the known dates are what they claim.

**MeasuredRange** (assuming `HistoryIsKnown` and `WorldsAreRepositories`, which say
that refs, parents and contents are those of a repository). `KeyInv`: as long as
nobody edited since the range was opened, the anchor is HEAD, the snapshot is the
tree's, and the head side of each changed entry is the snapshot's, whatever the
stat cache made git say; it gives `OneTreeHasOneKey`. `QuietInv`: as long as
nobody edited at all, a half-finished operation was told, a first status that was
clean means disk and index are HEAD's, uncommitted work keeps the working tree as
its head until it is measured, and past the ladder's last rung the tree is clean;
it gives `RangeIsAlwaysTheWork`. `WholeInv`: once the range is open and as long
as nobody edits, the change says what `Whole` says of every path: one that is not
in the change, not withheld and not left by a rename is the base's on disk; an
entry's base side is the base's, its head side the disk's or not read yet; the
policy is the disk's. It gives `ChangeAlwaysReachesEveryone` (`EnginesGetAll`,
`SuiteGetsAll`, `PolicyIsSeen`). Under it lies what the code's loops compute for a
diff of any length: the segment is parsed entry by entry, a rename being two of
them (`SegmentTold`), the dirty union adds what the segment lacks
(`UnionIsWhole`), and the overlay replays the entries over the checkout
(`OverlayTold`, `Replayed`). These are inductions over the number of entries (`EveryNumber`); `InOrderUnrolled`, `ParseUnrolled` and
`ReplayUnrolled` unroll the recursive functions. `PathsAreOrdered` numbers the
paths from 1, which is git's order of them.

Model-checked only, and why:

- *Liveness*: `SyncEnds`, `CallsReturn`, `RunReturns`, `IndexNeverWedged`. Out of the
  prover's reach.
- *What a recursion, a fold or a sum computes for every input*:
  `ScoreIsOfTheRules`, `LinesAreOfCode`, `EveryFileIsAccountedFor`, `GapsAreOfTheFile`,
  `TamperingIsSeen`, and the numbers in `WindowIsWhole` (its other half is
  `DeepeningIsNoticed`). Each needs inductions over data of its own, over trees and folds;
  `EveryNumber` and `EverySequence` serve where the recursion is over a number or a
  sequence, and have been used for the range, the clones, init and what an agent is told.
- The counter with more than one possible heir of a lock, or with stalls, is
  not a property of the code (section 5, the hazard at `iteration.rs:478`).

## 6. Not modelled

The evidence registry with its lint, the renderers, `explain`, `doctor` and `demo`
are functions of text, as are commit trailers, `explain_finding` and the JSON-RPC
transport of the MCP server. `sync_all` is two syncs in a row, of which
`NotesLedger` has one. Of the process engine the rungs of severity are left out
(`Gate` has severity of any metric). The corpus harness, the site and the
packaging run nothing of the above. In payload assembly the validation of fields
and the digests are abstracted. What each module leaves out of its own part is
said in section 2; `PROJECT.json` gives the status of every component.

## 7. Plan

1. With `Induction`, what the folds of the engines' accounts compute
   (`EveryFileIsAccountedFor`, `GapsAreOfTheFile`).
2. `sync_all` as a composition of two `NotesLedger`s; payload validation in `Gate`'s
   terms.
