--------------------------- MODULE MeasuredRange ---------------------------
(***************************************************************************)
(* Which change one `andon measure` measures: the half-finished operation  *)
(* it refuses, the first status, the ladder of bases, the snapshot of an   *)
(* uncommitted head, the bytes read afterwards and the policy they are     *)
(* judged by (andon-cli/src/resolve.rs and measure.rs;                     *)
(* andon-core/src/git/resolve.rs), while somebody goes on editing: every   *)
(* git command reads the repository as it is when it runs.                 *)
(*                                                                         *)
(* Commits, their parents and trees are constants; what moves is HEAD, the *)
(* index, the disk and a merge. A revision of a request is a commit, or a  *)
(* ref when a merge base is asked for. An object id names its content.     *)
(***************************************************************************)
EXTENDS DirtyTree

CONSTANTS
    Commits,       \* the commits of the object database
    ParentOf,      \* [Commits -> Commits \cup {NoCommit}]
    TreeOf,        \* [Commits -> [Paths -> file]]
    Worlds,        \* the repositories a measurement may start in
    Requests,      \* the command lines it may be given
    Files,         \* what an edit may leave in a path
    PolicyFile,    \* the path of .andon.toml
    Excluded,      \* the paths self_measure.excluded_paths matches
    MaxEdits       \* bound: edits before and during the measurement

NoCommit == "none"

\* Files as git knows them: an executable one, a plain one, or none.
IsFile(f) == f = Absent \/ Mode(f) \in {"100644", "100755"}
IsTree(t) == DOMAIN t = Paths /\ \A p \in Paths : IsFile(t[p])

ASSUME HistoryIsKnown ==
    /\ IsFiniteSet(Commits) /\ NoCommit \notin Commits
    /\ ParentOf \in [Commits -> Commits \cup {NoCommit}]
    /\ DOMAIN TreeOf = Commits /\ \A c \in Commits : IsTree(TreeOf[c])
    /\ PolicyFile \in Paths /\ Excluded \subseteq Paths
    /\ MaxEdits \in Nat

ASSUME WorldsAreRepositories ==
    /\ \A f \in Files : IsFile(f)
    /\ \A w \in Worlds :
         /\ DOMAIN w = {"head", "refs", "shallow", "operation", "unmerged", "index", "disk"}
         /\ w.head \in Commits \cup {NoCommit}
         /\ IsTree(w.index) /\ IsTree(w.disk)
    /\ \A r \in Requests :
         /\ r.head \in Commits \cup {NoCommit}
         /\ r.base[1] = "rev" => r.base[2] \in Commits \cup {NoCommit}

VARIABLES
    repo,     \* head, refs, shallow, index, disk, unmerged, operation
    run,      \* the measurement: where it is, and what it has read
    edits,    \* ghost: how many edits there have been
    stirred   \* ghost: what was edited under: the run, the last range opened

vars == <<repo, run, edits, stirred>>

BASE_CANDIDATES == <<"@{upstream}", "origin/HEAD", "origin/main", "origin/master",
                     "upstream/main", "main", "master">>
HeadRung == Len(BASE_CANDIDATES) + 1

-----------------------------------------------------------------------------
(* What the repository answers.                                            *)

EmptyTree == [p \in Paths |-> Absent]
TreeAt(commit) == IF commit = NoCommit THEN EmptyTree ELSE TreeOf[commit]

\* The parent this clone can see.
Parent(commit) == IF commit \in repo.shallow THEN NoCommit ELSE ParentOf[commit]

\* The commit and its ancestors: the least set that holds it and the parent of
\* each of its members.
Lineage(commit) ==
    {c \in Commits : \A S \in SUBSET Commits :
        /\ {commit} \ {NoCommit} \subseteq S
        /\ \A d \in S : Parent(d) \in S \cup {NoCommit}
        => c \in S}

\* The best common ancestor, or none: unrelated, or cut off by a shallow clone.
MergeBase(a, b) ==
    LET common == Lineage(a) \cap Lineage(b)
        best == {c \in common : common \subseteq Lineage(c)}
    IN IF best = {} THEN NoCommit ELSE CHOOSE c \in best : TRUE

Ref(name) == IF name \in DOMAIN repo.refs THEN repo.refs[name] ELSE NoCommit

MoreThanOneCommit ==
    Cardinality(UNION {Lineage(c) : c \in Range(repo.refs) \cup {repo.head}}) > 1

Tree == [head |-> TreeAt(repo.head), index |-> repo.index, disk |-> repo.disk]

\* status --porcelain, as uncommitted_paths reads it: no conversion allowed for.
UncommittedPaths(vouched) ==
    DOMAIN ParsePorcelain(Tree, vouched) \cup repo.unmerged

-----------------------------------------------------------------------------
(* The resolver's state.                                                   *)

NoRequest == [base |-> <<"none">>, head |-> NoCommit, no_fallback |-> FALSE,
              last_merged |-> FALSE, self_measure |-> FALSE]

NoContext == [base |-> NoCommit, head_kind |-> "none", head |-> NoCommit,
              base_resolution |-> "none", substitution |-> "none"]

NewRun(request) ==
    [at |-> "operation", request |-> request, uncommitted |-> {}, rung |-> 1,
     tried |-> {}, anchor |-> NoCommit, entries |-> <<>>, context |-> NoContext,
     changed |-> <<>>, policy |-> Absent, unreadable |-> {}, withheld |-> {},
     answer |-> "none"]

HeadSpec == IF run.request.head = NoCommit THEN repo.head ELSE run.request.head

\* The head is the working tree when there is work in it and nothing pinned it.
HeadIsWorktree ==
    /\ run.uncommitted # {}
    /\ run.request.head = NoCommit
    /\ ~run.request.last_merged

Explicit == run.request.base # <<"none">>

Refuse(why) == run' = [run EXCEPT !.at = "refused", !.answer = why]

Init ==
    /\ repo \in Worlds
    /\ run \in {[NewRun(r) EXCEPT !.at = "idle"] : r \in Requests}
    /\ edits = 0
    /\ stirred = {}

Start ==
    /\ run.at = "idle"
    /\ run' = NewRun(run.request)
    /\ UNCHANGED <<repo, edits, stirred>>

-----------------------------------------------------------------------------
(* resolve                                                                 *)

\* Asked of the repository before any ref, or status, is consulted.
InProgressOperation ==
    /\ run.at = "operation"
    /\ IF repo.operation # "none"
       THEN Refuse("operation in progress")
       ELSE run' = [run EXCEPT !.at = "status"]
    /\ UNCHANGED <<repo, edits, stirred>>

ReadUncommitted ==
    /\ run.at = "status"
    /\ \E vouched \in SUBSET Phantoms(Tree) :
         run' = [run EXCEPT !.at = "rung",
                            !.uncommitted = UncommittedPaths(vouched)]
    /\ UNCHANGED <<repo, edits, stirred>>

\* Mutant: no rung for the commit the tree sits on.
NextRungOfRefs ==
    LET left == {i \in run.rung .. Len(BASE_CANDIDATES) :
                   Ref(BASE_CANDIDATES[i]) # NoCommit}
    IN IF Explicit THEN 0 ELSE IF left # {} THEN Min(left) ELSE HeadRung + 1

\* The rung to try next: an explicit base is the only one; then the candidates
\* that exist; then, for a working tree, the commit it sits on.
NextRung ==
    LET left == {i \in run.rung .. Len(BASE_CANDIDATES) :
                   Ref(BASE_CANDIDATES[i]) # NoCommit}
    IN IF Explicit THEN 0
       ELSE IF left # {} THEN Min(left)
       ELSE IF HeadIsWorktree /\ repo.head # NoCommit /\ run.rung <= HeadRung
            THEN HeadRung
       ELSE HeadRung + 1

\* ResolvedRange::resolve: the operation again, then the head endpoint.
OpenRange ==
    /\ run.at = "rung"
    /\ NextRung <= HeadRung
    /\ IF repo.operation # "none" THEN Refuse("operation in progress")
       ELSE IF (IF HeadIsWorktree THEN repo.head ELSE HeadSpec) = NoCommit
            THEN Refuse("unknown revision")
       ELSE run' = [run EXCEPT
              !.rung = NextRung,
              !.tried = IF NextRung \in 1 .. Len(BASE_CANDIDATES)
                        THEN @ \cup {BASE_CANDIDATES[NextRung]} ELSE @,
              !.anchor = IF HeadIsWorktree THEN repo.head ELSE HeadSpec,
              !.at = IF HeadIsWorktree THEN "scan" ELSE "compare"]
    /\ stirred' = stirred \ {"scan"}
    /\ UNCHANGED <<repo, edits>>

\* DirtySnapshot::incremental: its status ...
ScanTree ==
    /\ run.at = "scan"
    /\ IF repo.unmerged # {}
       THEN Refuse("conflicted tree")
       ELSE \E vouched \in SUBSET Phantoms(Tree) :
              run' = [run EXCEPT !.at = "suspects",
                                 !.entries = ParsePorcelain(Tree, vouched)]
    /\ UNCHANGED <<repo, edits, stirred>>

\* ... the hashes of its suspects in the checkout's terms ...
ClearPhantoms ==
    /\ run.at = "suspects"
    /\ IF CanHash(Suspects(run.entries), repo.disk)
       THEN run' = [run EXCEPT !.at = "hash",
                      !.entries = DropConversionPhantoms(run.entries, repo.disk)]
       ELSE Refuse("hash failed")
    /\ UNCHANGED <<repo, edits, stirred>>

\* ... and the hashes of what is left, each read from the disk as it is by then.
HashTree ==
    /\ run.at = "hash"
    /\ IF CanHash(ToHash(run.entries), repo.disk)
       THEN run' = [run EXCEPT !.at = "compare",
                               !.entries = HashPaths(run.entries, repo.disk)]
       ELSE Refuse("hash failed")
    /\ UNCHANGED <<repo, edits, stirred>>

BaseCommit ==
    LET asked == run.request.base IN
    IF Explicit
    THEN IF asked[1] = "rev" THEN asked[2] ELSE MergeBase(run.anchor, Ref(asked[2]))
    ELSE IF run.rung = HeadRung THEN repo.head
    ELSE MergeBase(run.anchor, Ref(BASE_CANDIDATES[run.rung]))

BaseResolution ==
    IF run.rung = HeadRung THEN "no-branch-point:head"
    ELSE IF Explicit /\ run.request.base[1] = "rev" THEN "explicit"
    ELSE "merge-base"

\* Mutant: the snapshot alone, whatever the base.
EnumerateSnapshot(base, snapshot) ==
    IF ~HeadIsWorktree THEN CommittedSegment(TreeAt(base), TreeAt(run.anchor))
    ELSE FromSnapshot(snapshot)

\* ChangedSet::enumerate: trees for a commit; for a working tree the union of
\* what the branch committed and what the snapshot holds.
Enumerate(base, snapshot) ==
    LET committed == CommittedSegment(TreeAt(base), TreeAt(run.anchor)) IN
    IF ~HeadIsWorktree THEN committed
    ELSE IF base = run.anchor THEN FromSnapshot(snapshot)
    ELSE Union(committed, FromSnapshot(snapshot))

\* wire_context: a commit by its id, a working tree by its snapshot's digest.
WireContext(base, snapshot) ==
    [NoContext EXCEPT !.base = base, !.base_resolution = BaseResolution,
        !.head_kind = IF HeadIsWorktree THEN "uncommitted-worktree" ELSE "commit",
        !.head = IF HeadIsWorktree THEN snapshot ELSE run.anchor]

\* The first base that leaves something to measure; an explicit one whatever
\* it leaves.
Compare ==
    /\ run.at = "compare"
    /\ LET base == BaseCommit
           snapshot == Snapshot("incremental", run.anchor, run.entries)
           changed == Enumerate(base, snapshot)
       IN IF base = NoCommit
          THEN IF Explicit
               THEN Refuse(IF /\ run.request.base[1] = "merge-base"
                              /\ Ref(run.request.base[2]) # NoCommit
                           THEN "no merge base" ELSE "unknown revision")
               ELSE run' = [run EXCEPT !.at = "rung", !.rung = @ + 1]
          ELSE IF Explicit \/ DOMAIN changed # {}
          THEN run' = [run EXCEPT !.at = "policy", !.changed = changed,
                                  !.context = WireContext(base, snapshot)]
          ELSE run' = [run EXCEPT !.at = "rung", !.rung = @ + 1]
    /\ UNCHANGED <<repo, edits, stirred>>

\* Nothing left to try over a dirty tree: say which dead end this is.
DirtyDeadEnd ==
    /\ run.at = "rung" /\ NextRung > HeadRung
    /\ run.uncommitted # {} /\ ~run.request.last_merged
    /\ Refuse(IF run.request.head # NoCommit THEN "head pinned"
              ELSE IF repo.head # NoCommit THEN "nothing git will diff"
              ELSE "no commit yet")
    /\ UNCHANGED <<repo, edits, stirred>>

\* A clean tree, or --last-merged: HEAD~1..HEAD, announced as what it is.
LastMergedChange ==
    /\ run.at = "rung" /\ NextRung > HeadRung
    /\ run.uncommitted = {} \/ run.request.last_merged
    /\ IF HeadSpec = NoCommit THEN Refuse("unknown revision")
       ELSE IF Parent(HeadSpec) = NoCommit
       THEN Refuse(IF repo.shallow # {} THEN "no parent: shallow"
                   ELSE IF MoreThanOneCommit THEN "no parent: other commits"
                   ELSE "no parent: single commit")
       ELSE IF run.request.no_fallback THEN Refuse("no working change")
       ELSE IF repo.operation # "none" THEN Refuse("operation in progress")
       ELSE run' = [run EXCEPT
              !.at = "policy",
              !.anchor = HeadSpec,
              !.changed = CommittedSegment(TreeAt(Parent(HeadSpec)), TreeAt(HeadSpec)),
              !.context = [base |-> Parent(HeadSpec), head_kind |-> "commit",
                           head |-> HeadSpec,
                           base_resolution |-> "no-diff-fallback:last-merged-change",
                           substitution |-> IF run.uncommitted = {}
                                            THEN "nothing in flight"
                                            ELSE "work not described"]]
    /\ UNCHANGED <<repo, edits, stirred>>

-----------------------------------------------------------------------------
(* measure, as far as the engines' input                                   *)

\* load_policy from the working tree, then apply_exclusions.
LoadPolicy ==
    /\ run.at = "policy"
    /\ LET withheld == IF run.request.self_measure
                       THEN DOMAIN run.changed \cap Excluded ELSE {}
       IN run' = [run EXCEPT
              !.at = "read",
              !.policy = repo.disk[PolicyFile],
              !.withheld = withheld,
              !.changed = [p \in DOMAIN run.changed \ withheld |-> run.changed[p]]]
    /\ UNCHANGED <<repo, edits, stirred>>

\* Only for an uncommitted head: a commit has nothing on disk to reach for.
ReadBytes ==
    /\ run.at = "read"
    /\ IF run.context.head_kind = "commit"
       THEN run' = [run EXCEPT !.at = "measured"]
       ELSE \E store_writes \in BOOLEAN :
              LET read == ReadWithoutStaging(run.changed, repo.disk, store_writes)
              IN run' = [run EXCEPT !.at = "measured",
                                    !.changed = read.changed,
                                    !.unreadable = read.unreadable]
    /\ UNCHANGED <<repo, edits, stirred>>

\* detect_policy_change: the two sides of .andon.toml inside this change, an
\* unreadable or missing side standing for the defaults.
PolicyChange(changed) ==
    LET touching == {p \in DOMAIN changed :
                       p = PolicyFile \/ changed[p].old_path = PolicyFile}
    IN IF touching = {} THEN <<>>
       ELSE LET e == changed[Min(touching)] IN <<e.src_oid, e.dst_oid>>

\* sandbox_snapshot, replayed over a checkout of the anchor.
SandboxTree ==
    IF run.context.head_kind = "commit" THEN TreeAt(run.context.head)
    ELSE ApplyOverlay(TreeAt(run.anchor), SandboxOverlay(run.changed))

-----------------------------------------------------------------------------
(* Somebody else, editing.                                                 *)

Ended == run.at \in {"measured", "refused"}

Edited(new) ==
    /\ ~Ended /\ edits < MaxEdits
    /\ new # repo
    /\ repo' = new
    /\ edits' = edits + 1
    /\ stirred' = IF run.at = "idle" THEN {} ELSE {"run", "scan"}
    /\ UNCHANGED run

Write == \E p \in Paths, f \in Files \cup {Absent} :
            Edited([repo EXCEPT !.disk[p] = f])

\* git add, in the checkout's own terms.
Stage == \E p \in Paths : Edited([repo EXCEPT !.index[p] = Cleaned(repo.disk[p])])
Untrack == \E p \in Paths : Edited([repo EXCEPT !.index[p] = Absent])

\* The local branches HEAD may be on.
Branches == {r \in DOMAIN repo.refs \cap {"main", "master"} : repo.refs[r] = repo.head}

\* git commit, where the index is the tree of a child of HEAD: the branch HEAD
\* is on moves with it, and none if it is on none of these.
Commit == \E c \in Commits, on \in Branches \cup {"detached"} :
            /\ repo.operation = "none"
            /\ ParentOf[c] = repo.head /\ TreeOf[c] = repo.index
            /\ Edited([repo EXCEPT !.head = c,
                        !.refs = [r \in DOMAIN repo.refs |->
                                    IF r = on THEN c ELSE repo.refs[r]]])

BeginMerge ==
    /\ repo.operation = "none" /\ repo.head # NoCommit
    /\ \E conflicts \in SUBSET {p \in Paths : repo.index[p] # Absent} :
         Edited([repo EXCEPT !.operation = "merge", !.unmerged = conflicts])
AbortMerge ==
    /\ repo.operation = "merge"
    /\ Edited([repo EXCEPT !.operation = "none", !.unmerged = {}])

Edit == Write \/ Stage \/ Untrack \/ Commit \/ BeginMerge \/ AbortMerge

Resolve == \/ InProgressOperation \/ ReadUncommitted \/ OpenRange \/ ScanTree
           \/ ClearPhantoms \/ HashTree \/ Compare \/ DirtyDeadEnd \/ LastMergedChange
Measure == Start \/ Resolve \/ LoadPolicy \/ ReadBytes

Next == Measure \/ Edit

Spec == Init /\ [][Next]_vars

-----------------------------------------------------------------------------
(* Properties                                                              *)

Quiet == stirred = {}
Settled == "scan" \notin stirred
Measured == run.at = "measured"
OfTheTree == Measured /\ run.context.head_kind = "uncommitted-worktree"
BaseTree == TreeAt(run.context.base)

\* A file up to the checkout's conversion: what a commit of it would hold.
AsCommitted(file) == <<CheckoutOid(file), Mode(file)>>
Differs(old, new) == {p \in Paths : AsCommitted(old[p]) # AsCommitted(new[p])}

\* The names a rename of this change left: where somebody used one again, the
\* approximation diff.rs states for its union; and where the rename's new name
\* is excluded, its whole entry is withheld (measure.rs:1021) and says neither.
RenameSources ==
    {run.changed[q].old_path : q \in DOMAIN run.changed}
    \cup {Origin(BaseTree, TreeAt(run.anchor), q) : q \in run.withheld}

\* In a repository with a commit, and nothing half-finished or pinned in the
\* way, a working change is measured as one whatever refs exist and whatever
\* git's stat cache vouches for; and a refusal or a substitution says only
\* what is so (the ladder of resolve.rs, its HEAD rung and its dead ends).
WorkIsMeasured ==
    /\ /\ run.at \in {"measured", "refused"} /\ Quiet
       /\ run.request.head = NoCommit /\ ~run.request.last_merged /\ ~Explicit
       /\ repo.head # NoCommit /\ repo.operation = "none" /\ repo.unmerged = {}
       /\ Differs(TreeAt(repo.head), repo.disk) # {}
       /\ Awkward = {}
       => OfTheTree /\ run.uncommitted # {}
    /\ Quiet =>
        /\ run.answer = "nothing git will diff" => Differs(TreeAt(repo.head), repo.disk) = {}
        /\ run.answer = "no commit yet" => repo.head = NoCommit
        /\ run.answer = "no parent: single commit" =>
             /\ Lineage(HeadSpec) = {HeadSpec}
             /\ run.request.head = NoCommit =>
                  \A c \in Range(repo.refs) \cup {repo.head} : Lineage(c) \subseteq {HeadSpec}
        /\ run.context.substitution = "nothing in flight" =>
             /\ Differs(TreeAt(repo.head), repo.disk) = {}
             /\ Differs(TreeAt(repo.head), repo.index) = {}

\* The blobs a measurement may hand on for a path: the disk's bytes as they
\* lie, which is what `hash-object` writes under Andon's pins, or the index's
\* blob where the checkout's own conversion alone lies between the two.
Blobs(tree, p) ==
    {Oid(tree.disk[p])} \cup ({Oid(tree.index[p])} \cap {CheckoutOid(tree.disk[p])})

\* The change of a tree nobody edits once its range is open misses no path that
\* differs from the base, and each of its entries holds the base's side and the
\* disk's: neither segment of the union may speak for the other's side.
ChangeIsWhole ==
    OfTheTree /\ Settled =>
        /\ Differs(BaseTree, repo.disk) \subseteq
             DOMAIN run.changed \cup run.withheld \cup RenameSources
        /\ \A p \in DOMAIN run.changed :
             LET e == run.changed[p] IN
             /\ (e.dst_mode = ABSENT_MODE) = (repo.disk[p] = Absent)
             /\ p \notin run.unreadable /\ repo.disk[p] # Absent =>
                  e.dst_oid \in Blobs(Tree, p)
             /\ p \notin Untracked(Tree) \cup RenameSources =>
                  e.src_oid = Oid(BaseTree[IF e.old_path = NoPath THEN p
                                           ELSE e.old_path])

\* What measure.rs:571 says of the blob written for a file nobody staged: it is
\* the one `git add` would put in the index, the checkout's conversion applied.
UnstagedBytesAreCommittable ==
    OfTheTree /\ Settled /\ run.unreadable = {} =>
        \A p \in Pending(FromSnapshot(run.context.head)) \cap DOMAIN run.changed :
            run.changed[p].dst_oid = CheckoutOid(repo.disk[p])

\* One tree, one key: the head of an uncommitted record is the digest that
\* tree has whatever git's stat cache vouched for (a staged mode change aside,
\* status.rs:565), the bytes read are the bytes that digest names, and the
\* full re-hash agrees with it about every tracked path.
OneTreeOneKey ==
    OfTheTree /\ Settled =>
        LET entries == run.context.head.entries
            again == HashPaths(Scan(Tree, {}), repo.disk)
            full == FullRehash(Tree, repo.head).entries
        IN /\ (\A p \in Paths : Absent \in {repo.index[p], Tree.head[p]}
                                  \/ Mode(repo.index[p]) = Mode(Tree.head[p]))
              => run.context.head = Snapshot("incremental", repo.head, again)
           /\ \A p \in DOMAIN entries \cap DOMAIN run.changed :
                Readable(run.changed[p]) =>
                  run.changed[p].dst_oid \in
                    {entries[p].worktree_oid, entries[p].staged_oid}
           /\ \A p \in DOMAIN entries \cap DOMAIN full :
                full[p].worktree_oid = entries[p].worktree_oid

\* A half-finished operation is refused as what it is, in every repository
\* and for every request, and a tree with competing stages is never measured,
\* whenever the merge began.
HalfFinishedIsRefused ==
    /\ Quiet /\ repo.operation # "none" /\ run.at \in {"measured", "refused"}
       => run.answer = "operation in progress"
    /\ OfTheTree /\ Settled
       => repo.unmerged = {} /\ repo.operation = "none"

\* Where the tree the suite would run in is not the tree on the disk.
SuiteMisses ==
    {p \in Paths : Oid(SandboxTree[p]) \notin Blobs(Tree, p)}

\* Committed on the branch, gone from the disk: no change against the base.
Vanished == {p \in Paths : /\ repo.disk[p] = Absent /\ BaseTree[p] = Absent
                           /\ TreeAt(run.anchor)[p] # Absent}

WholeTree == OfTheTree /\ Settled /\ run.unreadable = {} /\ run.withheld = {}

\* The suite of an uncommitted head runs on the tree that was measured: the
\* overlay replayed over the anchor is the disk, for a tree nobody edits
\* once its range is open, where every path could be read and none was withheld; but for
\* the two kinds of path the run range_replay shows.
SuiteRunsOnTheTree == WholeTree => SuiteMisses \subseteq RenameSources \cup Vanished

\* What measure.rs:897 says of the snapshot the sandbox materializes: the head
\* anchor and the measured change laid over it.
SandboxIsTheTree == WholeTree => SuiteMisses = {}

\* The policy file of this change is a side of a rename.
PolicyIsRenamed ==
    \/ PolicyFile \in RenameSources
    \/ /\ PolicyFile \in DOMAIN run.changed
       /\ run.changed[PolicyFile].old_path # NoPath

\* The policy an uncommitted measurement is judged by never differs from its
\* base's without the change saying so, with both sides of the edit, where
\* the policy file could be read and was neither withheld nor renamed: a
\* rename's other side is read as the policy (measure.rs:990).
PolicyEditsAreSeen ==
    /\ OfTheTree /\ Settled /\ ~PolicyIsRenamed
    /\ PolicyFile \notin run.unreadable \cup run.withheld \cup Untracked(Tree)
    /\ AsCommitted(run.policy) # AsCommitted(BaseTree[PolicyFile])
    => LET change == PolicyChange(run.changed) IN
       /\ change # <<>>
       /\ change[1] = Oid(BaseTree[PolicyFile])
       /\ change[2] \in Blobs(Tree, PolicyFile)

\* The range is the work in flight: measured where there is one, refused where
\* an operation is half done, and whatever is answered instead is so.
RangeIsTheWork == WorkIsMeasured /\ HalfFinishedIsRefused

\* Whoever is handed the change is handed all of it: the engines every path,
\* the suite the tree, the policy check both sides of the policy.
ChangeReachesEveryone == ChangeIsWhole /\ SuiteRunsOnTheTree /\ PolicyEditsAreSeen
=============================================================================
