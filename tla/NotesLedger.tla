----------------------------- MODULE NotesLedger -----------------------------
(***************************************************************************)
(* One notes ref (refs/notes/andon-measure or refs/notes/andon-attest) in  *)
(* several clones and on several remotes: recording, `andon ledger sync`   *)
(* and `andon ledger migrate`, down to the git commands they run.          *)
(*                                                                         *)
(* A notes ref points into a history of notes commits.  A version is such  *)
(* a commit, named by a number; version 0 stands for a ref that does not   *)
(* exist.  `hist[v]` is v with all its ancestors and `notes[v]` is its     *)
(* tree: the records attached to each source commit.  A push is accepted   *)
(* only as a fast-forward; `git notes merge -s cat_sort_uniq` is a         *)
(* three-way merge of trees, and so what a merge keeps depends on history. *)
(***************************************************************************)
EXTENDS Integers

CONSTANTS
    Clones,       \* repositories that record and synchronise
    Remotes,      \* the remotes they synchronise with
    Commits,      \* source commits that carry notes
    Records,      \* measurement records
    Attempts,     \* SyncOptions.attempts: pushes before giving up
    MaxVersions,  \* bound: notes commits ever created
    MigrateAlone  \* does a migration have its clone to itself?

ASSUME BoundsAssumption == MaxVersions \in Nat /\ Attempts \in Nat
ASSUME AloneAssumption == MigrateAlone \in BOOLEAN
ASSUME SomewhereAssumption == Commits # {} /\ Remotes # {}
ASSUME ApartAssumption == Clones \intersect Remotes = {}

VARIABLES
    hist,      \* hist[v]: v and its ancestors
    notes,     \* notes[v][k]: the records attached to commit k in v
    used,      \* the last version created
    spare,     \* versions no running command has claimed (bounds the model)
    local,     \* local[c]: the version the notes ref of clone c names
    tracking,  \* tracking[c]: its fetched copy, refs/andon-remote/...
    remote,    \* remote[m]: the version the ref of remote m names
    sync,      \* sync[c]: the running sync of c, or how its last one succeeded
    mig        \* mig[c]: the running migration of c

store == <<hist, notes, used>>
vars == <<hist, notes, used, spare, local, tracking, remote, sync, mig>>

Versions == 0 .. MaxVersions
Trees == [Commits -> SUBSET Records]
NoNotes == [k \in Commits |-> {}]

MaxOf(a, b) == IF a < b THEN b ELSE a
(* sync_ref and push_with_retry both read a limit of 0 as 1. *)
PushLimit == MaxOf(Attempts, 1)

Running == {"merge", "push", "refetch", "remerge"}
SyncPhases == {"idle", "nothing", "pushed"} \union Running
Syncs == [phase : SyncPhases, with : Remotes, attempt : Nat,
          began : Trees, saw : Trees]
Migrations == [phase : {"idle", "read"}, to : Commits, merged : SUBSET Records]

(* No sync is running and the last one, if any, did not succeed. *)
NotSyncing == [phase |-> "idle", with |-> CHOOSE m \in Remotes : TRUE,
                attempt |-> 1, began |-> NoNotes, saw |-> NoNotes]
NotMigrating == [phase |-> "idle", to |-> CHOOSE k \in Commits : TRUE,
                 merged |-> {}]

------------------------------------------------------------------------------
(* The git commands the ledger is built from.                              *)

(* A local ref moves to a fresh version with the given parents and tree. *)
NewVersion(c, parents, tree) ==
    /\ used < MaxVersions
    /\ used' = used + 1
    /\ hist' = [hist EXCEPT ![used + 1] =
                  {used + 1} \union UNION {hist[p] : p \in parents}]
    /\ notes' = [notes EXCEPT ![used + 1] = tree]
    /\ local' = [local EXCEPT ![c] = used + 1]

(* The merge bases of a and b: their latest common ancestors, or none. *)
MergeBases(a, b) ==
    LET common == hist[a] \intersect hist[b]
    IN  IF common = {} THEN {0}
        ELSE {v \in common : \A w \in common : v \in hist[w] => v = w}

(* Mutant: a note changed on both sides keeps ours, as `-s ours` would. *)
MergedNoteOurs(base, ours, theirs) == IF ours = base THEN theirs ELSE ours

(* One note of a three-way merge: a side that did not change it yields to  *)
(* the other side, and notes changed on both sides are concatenated,       *)
(* sorted and made unique, which is the union of their lines.              *)
MergedNote(base, ours, theirs) ==
    IF ours = base THEN theirs
    ELSE IF theirs = base THEN ours
    ELSE ours \union theirs

(* git notes merge: an ancestor has nothing to add, a descendant is taken  *)
(* as it is, and only histories that parted need a new version.            *)
GitNotesMerge(c, theirs) ==
    LET ours == local[c]
    IN  \/ /\ hist[theirs] \subseteq hist[ours]
           /\ UNCHANGED <<store, local>>
        \/ /\ ~ hist[theirs] \subseteq hist[ours]
           /\ hist[ours] \subseteq hist[theirs]
           /\ local' = [local EXCEPT ![c] = theirs]
           /\ UNCHANGED store
        \/ /\ ~ hist[theirs] \subseteq hist[ours]
           /\ ~ hist[ours] \subseteq hist[theirs]
           /\ \E base \in MergeBases(ours, theirs) :
                NewVersion(c, {ours, theirs},
                           [k \in Commits |-> MergedNote(notes[base][k],
                                                         notes[ours][k],
                                                         notes[theirs][k])])

(* Mutants: the fetched copy is not merged; it replaces the local ref. *)
MergeTrackingNever(c) == UNCHANGED <<store, local>>
MergeTrackingReplaces(c) ==
    /\ local' = [local EXCEPT ![c] = tracking[c]]
    /\ UNCHANGED store

(* Notes::merge_tracking: whatever the tracking ref holds, also when the   *)
(* last fetch found no ref on the remote; nothing when there is none.      *)
MergeTracking(c) ==
    IF tracking[c] = 0 THEN UNCHANGED <<store, local>>
    ELSE GitNotesMerge(c, tracking[c])

(* Notes::fetch: a remote without the ref leaves the tracking ref alone;   *)
(* the refspec is forced, so otherwise the tracking ref is replaced.       *)
Fetched(c, m) ==
    IF remote[m] = 0 THEN tracking ELSE [tracking EXCEPT ![c] = remote[m]]

(* Mutant: `+ref:ref`, a forced push. *)
Forced(c, m) == TRUE

(* git push without force: only a fast-forward of the remote's ref. *)
FastForward(c, m) == hist[remote[m]] \subseteq hist[local[c]]

------------------------------------------------------------------------------
Syncing(c) == sync[c].phase \in Running
Migrating(c) == mig[c].phase = "read"
(* A migration that has its clone to itself: nothing else starts there     *)
(* while it runs.  The code takes no lock that would ensure it.            *)
Free(c) == MigrateAlone => ~ Migrating(c)

(* The bound: a command starts only if the versions it may create are left. *)
Claim(n) == spare >= n /\ spare' = spare - n

(* Notes::append, called by `measure --record`, the stop hook and attest:  *)
(* the record joins whatever the note on k holds.                          *)
AppendRecord(c, k, r) ==
    /\ Free(c)
    /\ Claim(1)
    /\ NewVersion(c, {local[c]},
                  [notes[local[c]] EXCEPT ![k] = @ \union {r}])
    /\ UNCHANGED <<tracking, remote, sync, mig>>

(* The note on the target becomes the union of both. *)
MigratedNote(c, from, to) == notes[local[c]][to] \union notes[local[c]][from]

(* migrate_squash and Notes::migrate up to its write: both notes are read; *)
(* a source without records ends it there.  Each note is read by a git     *)
(* command of its own, source first: a record for the source that arrives  *)
(* between the two is as one after both, one for the target as one before. *)
MigrateRead(c, from, to) ==
    /\ ~ Migrating(c)
    /\ MigrateAlone => ~ Syncing(c)
    /\ notes[local[c]][from] # {}
    /\ Claim(1)
    /\ mig' = [mig EXCEPT ![c] =
                 [phase  |-> "read",
                  to     |-> to,
                  merged |-> MigratedNote(c, from, to)]]
    /\ UNCHANGED <<store, local, tracking, remote, sync>>

(* Notes::write, `git notes add -f`: the note becomes exactly the union    *)
(* computed from what was read.                                            *)
MigrateWrite(c) ==
    /\ Migrating(c)
    /\ NewVersion(c, {local[c]},
                  [notes[local[c]] EXCEPT ![mig[c].to] = mig[c].merged])
    /\ mig' = [mig EXCEPT ![c] = NotMigrating]
    /\ UNCHANGED <<spare, tracking, remote, sync>>

------------------------------------------------------------------------------
(* sync_ref: fetch and merge once, then push up to PushLimit times with a  *)
(* fetch and a merge after every refused push.                             *)

Goto(c, phase) == sync' = [sync EXCEPT ![c].phase = phase]
(* An error return: no error touches a ref. *)
EndUnsuccessfully(c) == sync' = [sync EXCEPT ![c] = NotSyncing]

(* The ref is fetched, or the remote has none yet. *)
SyncFetch(c, m) ==
    /\ Free(c)
    /\ ~ Syncing(c)
    /\ Claim(PushLimit + 1)
    /\ tracking' = Fetched(c, m)
    /\ sync' = [sync EXCEPT ![c] = [phase   |-> "merge",
                                    with    |-> m,
                                    attempt |-> 1,
                                    began   |-> notes[local[c]],
                                    saw     |-> notes[remote[m]]]]
    /\ UNCHANGED <<store, local, remote, mig>>

(* NotesError::Transport: the remote did not answer; sync fails at once. *)
SyncFetchFails(c) ==
    /\ Free(c)
    /\ ~ Syncing(c)
    /\ EndUnsuccessfully(c)
    /\ UNCHANGED <<store, spare, local, tracking, remote, mig>>

(* The fetched copy is merged; a clone that still has no ref has nothing   *)
(* to push.                                                                *)
SyncMerge(c) ==
    /\ sync[c].phase = "merge"
    /\ MergeTracking(c)
    /\ Goto(c, IF local'[c] = 0 THEN "nothing" ELSE "push")
    /\ UNCHANGED <<spare, tracking, remote, mig>>

PushAccepted(c) ==
    /\ sync[c].phase = "push"
    /\ FastForward(c, sync[c].with)
    /\ remote' = [remote EXCEPT ![sync[c].with] = local[c]]
    /\ UNCHANGED <<store, spare, local, tracking, mig>>

SyncPush(c) == PushAccepted(c) /\ Goto(c, "pushed")

(* The remote takes the push and the answer is lost: git reports failure. *)
SyncPushUnheard(c) == PushAccepted(c) /\ Goto(c, "refetch")

(* Refused: the remote has moved on, or it enforces something of its own   *)
(* (a hook, a protected ref), or it went away.                             *)
SyncPushRefused(c) ==
    /\ sync[c].phase = "push"
    /\ Goto(c, "refetch")
    /\ UNCHANGED <<store, spare, local, tracking, remote, mig>>

(* push_with_retry recovers from every refusal, also from the last. *)
SyncRefetch(c) ==
    /\ sync[c].phase = "refetch"
    /\ tracking' = Fetched(c, sync[c].with)
    /\ Goto(c, "remerge")
    /\ UNCHANGED <<store, spare, local, remote, mig>>

(* Mutant: a retry that does not count. *)
TryAgainUncounted(c) == Goto(c, "push")

TryAgain(c) ==
    sync' = [sync EXCEPT ![c].phase = "push", ![c].attempt = @ + 1]

SyncRemerge(c) ==
    /\ sync[c].phase = "remerge"
    /\ MergeTracking(c)
    /\ \/ /\ sync[c].attempt < PushLimit
          /\ TryAgain(c)
       \/ /\ sync[c].attempt >= PushLimit
          /\ EndUnsuccessfully(c)
    /\ UNCHANGED <<spare, tracking, remote, mig>>

(* NotesError::PushRecovery: the fetch after a refused push failed. *)
SyncRecoveryFails(c) ==
    /\ sync[c].phase = "refetch"
    /\ EndUnsuccessfully(c)
    /\ UNCHANGED <<store, spare, local, tracking, remote, mig>>

(* The process dies: what it held in memory is gone, the refs stay. *)
Kill(c) ==
    /\ UNCHANGED <<store, spare, local, tracking, remote>>
    /\ \/ Syncing(c) /\ EndUnsuccessfully(c) /\ UNCHANGED mig
       \/ Migrating(c) /\ mig' = [mig EXCEPT ![c] = NotMigrating]
                       /\ UNCHANGED sync

------------------------------------------------------------------------------
Init ==
    /\ hist = [v \in Versions |-> {}]
    /\ notes = [v \in Versions |-> NoNotes]
    /\ used = 0
    /\ spare = MaxVersions
    /\ local = [c \in Clones |-> 0]
    /\ tracking = [c \in Clones |-> 0]
    /\ remote = [m \in Remotes |-> 0]
    /\ sync = [c \in Clones |-> NotSyncing]
    /\ mig = [c \in Clones |-> NotMigrating]

SyncStep(c) ==
    \/ SyncMerge(c)
    \/ SyncPush(c)
    \/ SyncPushUnheard(c)
    \/ SyncPushRefused(c)
    \/ SyncRefetch(c)
    \/ SyncRemerge(c)
    \/ SyncRecoveryFails(c)

Next ==
    \E c \in Clones :
        \/ \E k \in Commits, r \in Records : AppendRecord(c, k, r)
        \/ \E from, to \in Commits : MigrateRead(c, from, to)
        \/ MigrateWrite(c)
        \/ \E m \in Remotes : SyncFetch(c, m)
        \/ SyncFetchFails(c)
        \/ SyncStep(c)
        \/ Kill(c)

Spec == Init /\ [][Next]_vars

(* A running sync is not suspended for ever: every step is one git command *)
(* whose child the process waits for, or a bounded sleep.                  *)
FairSpec == Spec /\ \A c \in Clones : WF_vars(SyncStep(c))

------------------------------------------------------------------------------
(* Types. *)
TypeOK ==
    /\ hist \in [Versions -> SUBSET Versions]
    /\ notes \in [Versions -> Trees]
    /\ used \in Versions
    /\ spare \in Versions
    /\ local \in [Clones -> Versions]
    /\ tracking \in [Clones -> Versions]
    /\ remote \in [Remotes -> Versions]
    /\ sync \in [Clones -> Syncs]
    /\ mig \in [Clones -> Migrations]

Within(small, large) == \A k \in Commits : small[k] \subseteq large[k]

(* Versions are created in order and contain themselves and the histories  *)
(* of their ancestors; the others are empty.                               *)
HistoryShape ==
    /\ \A v \in Versions : hist[v] \subseteq 1 .. used
    /\ \A v \in 1 .. used : v \in hist[v]
    /\ \A v \in Versions : v \notin 1 .. used => hist[v] = {} /\ notes[v] = NoNotes
    /\ \A v, w \in Versions : v \in hist[w] => hist[v] \subseteq hist[w]

(* Every ref names a version that exists. *)
RefsExist ==
    /\ \A c \in Clones : local[c] \in 0 .. used /\ tracking[c] \in 0 .. used
    /\ \A m \in Remotes : remote[m] \in 0 .. used

(* No version attaches fewer records to a commit than an ancestor of it:   *)
(* this is what makes git's three-way merge a union and a fast-forward     *)
(* push an addition.                                                       *)
HistoryGrows ==
    \A v, w \in Versions : v \in hist[w] => Within(notes[v], notes[w])

(* What a sync relies on between its steps: the records the clone started  *)
(* with are still in the local ref, those the remote had are in the fetched*)
(* copy and, from the first merge on, in the local ref, and what is about  *)
(* to be pushed has the fetched history behind it.                         *)
SyncProgress ==
    \A c \in Clones :
        /\ Syncing(c) => Within(sync[c].began, notes[local[c]])
        /\ sync[c].phase = "merge" => Within(sync[c].saw, notes[tracking[c]])
        /\ sync[c].phase \in {"push", "refetch", "remerge"} =>
              Within(sync[c].saw, notes[local[c]])
        /\ sync[c].phase = "push" => hist[tracking[c]] \subseteq hist[local[c]]

(* A fetched copy is part of the history of some remote. *)
TrackingIsRemote ==
    \A c \in Clones :
        \E m \in Remotes : hist[tracking[c]] \subseteq hist[remote[m]]

(* A migration is about to write at least what its target holds now, and   *)
(* no sync runs in its clone.                                              *)
MigrationIsFresh ==
    \A c \in Clones :
        Migrating(c) => /\ ~ Syncing(c)
                        /\ notes[local[c]][mig[c].to] \subseteq mig[c].merged

(* The inductive invariant, for clones whose migrations run alone. *)
LedgerInv ==
    /\ TypeOK
    /\ HistoryShape
    /\ HistoryGrows
    /\ RefsExist
    /\ SyncProgress
    /\ TrackingIsRemote
    /\ MigrationIsFresh

(* A sync that reported success has worked both ways: the remote holds     *)
(* every record the clone had when it started, and the clone holds every   *)
(* record the remote had then -- whatever other clones pushed meanwhile.   *)
(* A clone with nothing to push had nothing, and the remote neither.       *)
SyncIsTwoWay ==
    \A c \in Clones :
        /\ sync[c].phase = "pushed" =>
             /\ Within(sync[c].began, notes[remote[sync[c].with]])
             /\ Within(sync[c].saw, notes[local[c]])
        /\ sync[c].phase = "nothing" =>
             sync[c].began = NoNotes /\ sync[c].saw = NoNotes

(* A push that follows a fetch is refused as stale only if the remote      *)
(* moved in between: the merge before it always takes in all that was      *)
(* fetched, so one retry per interfering writer is enough.                 *)
OnlyInterferenceRefuses ==
    \A c \in Clones :
        LET m == sync[c].with
        IN  sync[c].phase = "push" /\ remote[m] \in {0, tracking[c]} =>
                FastForward(c, m)

(* No step, of any process, takes a record away from a clone's ledger:     *)
(* after a push that was refused on every attempt, after a failed recovery *)
(* and after a crash, what was recorded is still in the local ref.         *)
NoLocalLoss ==
    [][\A c \in Clones : Within(notes[local[c]], notes'[local'[c]])]_vars

(* A migration writes at least what its target holds when it writes. *)
RecordsOnTargetSurvive ==
    [][\A c \in Clones : MigrateWrite(c) =>
          notes[local[c]][mig[c].to] \subseteq notes'[local'[c]][mig[c].to]]_vars

(* No push replaces a remote's ledger by one that lacks any of its records. *)
NoRemoteLoss ==
    [][\A m \in Remotes : Within(notes[remote[m]], notes'[remote'[m]])]_vars

(* Nothing recorded is ever lost, on any clone or remote, whatever is      *)
(* refused, unheard, interleaved or killed.                                *)
NothingIsLost == NoLocalLoss /\ NoRemoteLoss

(* What a sync says of itself is so: success means both ways, and a        *)
(* refusal that somebody else was faster.                                  *)
SyncIsSound == SyncIsTwoWay /\ OnlyInterferenceRefuses

(* A sync ends, however often the remote refuses. *)
SyncEnds == \A c \in Clones : Syncing(c) ~> ~ Syncing(c)

(* The abstraction: clones and remotes are the replicas of a ledger that   *)
(* only grows.                                                             *)
Ledger == INSTANCE GrowOnlyLedger WITH
    Replicas <- Clones \union Remotes,
    ledger   <- [x \in Clones \union Remotes |->
                   IF x \in Clones THEN notes[local[x]] ELSE notes[remote[x]]]

ImplementsGrowOnlyLedger == Ledger!Spec
=============================================================================
