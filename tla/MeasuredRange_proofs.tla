------------------------ MODULE MeasuredRange_proofs ------------------------
(***************************************************************************)
(* One tree has one key, a working change is measured as one, what is      *)
(* refused or put in its place is said as it is, and the change reaches    *)
(* the engines, the suite and the policy check whole: for every history,   *)
(* every set of refs, every tree and every request, while somebody goes on *)
(* editing.                                                                *)
(***************************************************************************)
EXTENDS MeasuredRange, Induction

-----------------------------------------------------------------------------
(* WHAT A SCAN SAYS OF A PATH                                               *)

AreTrees(tree) == IsTree(tree.head) /\ IsTree(tree.index) /\ IsTree(tree.disk)

Letters(tree, vouched, p) == <<IndexLetter(tree, p), DiskLetter(tree, p, vouched)>>

NewFile ==
    [status |-> <<"?", "?">>, head_mode |-> ABSENT_MODE, worktree_mode |-> "100644",
     head_oid |-> NoOid, staged_oid |-> NoOid, worktree_oid |-> NoOid]

Record(tree, vouched, p) ==
    IF p \in Untracked(tree) THEN NewFile
    ELSE [status |-> Letters(tree, vouched, p), head_mode |-> Mode(tree.head[p]),
          worktree_mode |-> Mode(tree.disk[p]), head_oid |-> Oid(tree.head[p]),
          staged_oid |-> Oid(tree.index[p]), worktree_oid |-> NoOid]

(* The record of a path, once the conversion's phantoms are cleared.        *)
Cleared(tree, vouched, p) == ClearIfPhantom(Record(tree, vouched, p), tree.disk[p])

LEMMA Files3 ==
    ASSUME NEW f, IsFile(f)
    PROVE  /\ f # Absent => Mode(f) # ABSENT_MODE /\ Oid(f) # NoOid
           /\ f = Absent => Mode(f) = ABSENT_MODE /\ Oid(f) = NoOid
BY DEF IsFile, Mode, Oid, ABSENT_MODE, NoOid, Absent

LEMMA Parsed ==
    ASSUME NEW tree, NEW vouched
    PROVE  /\ DOMAIN ParsePorcelain(tree, vouched)
                = {p \in Paths : p \in Untracked(tree) \/ Letters(tree, vouched, p) # <<".", ".">>}
           /\ \A p \in DOMAIN ParsePorcelain(tree, vouched) :
                ParsePorcelain(tree, vouched)[p] = Record(tree, vouched, p)
BY DEF ParsePorcelain, Letters, Record, NewFile, Untracked

(* What is not reported has nothing to clear.                               *)
LEMMA Unreported ==
    ASSUME NEW tree, NEW vouched, NEW p \in Paths \ DOMAIN ParsePorcelain(tree, vouched)
    PROVE  IsNoChange(Cleared(tree, vouched, p))
<1>1. p \notin Untracked(tree) /\ Letters(tree, vouched, p) = <<".", ".">>
    BY Parsed
<1>2. Record(tree, vouched, p).status = <<".", ".">>
    BY <1>1 DEF Record
<1>3. Cleared(tree, vouched, p) = Record(tree, vouched, p)
    BY <1>2 DEF Cleared, ClearIfPhantom, IsWorktreeModified
<1> QED BY <1>2, <1>3 DEF IsNoChange

LEMMA Scanned ==
    ASSUME NEW tree, NEW vouched
    PROVE  Scan(tree, vouched)
             = [p \in {q \in Paths : ~IsNoChange(Cleared(tree, vouched, q))} |->
                  Cleared(tree, vouched, p)]
<1> DEFINE entries == ParsePorcelain(tree, vouched)
<1>1. DOMAIN entries \subseteq Paths
    BY Parsed
<1>2. \A p \in DOMAIN entries : ClearIfPhantom(entries[p], tree.disk[p]) = Cleared(tree, vouched, p)
    BY Parsed DEF Cleared
<1>3. \A p \in Paths : ~IsNoChange(Cleared(tree, vouched, p)) => p \in DOMAIN entries
    BY Unreported
<1> HIDE DEF entries
<1>4. DropConversionPhantoms(entries, tree.disk)
        = [p \in {q \in Paths : ~IsNoChange(Cleared(tree, vouched, q))} |->
             Cleared(tree, vouched, p)]
    BY <1>1, <1>2, <1>3 DEF DropConversionPhantoms
<1> QED BY <1>4 DEF Scan, entries

(* A phantom, reported or not, ends as if it was not.                       *)
LEMMA PhantomsAreCleared ==
    ASSUME NEW tree, AreTrees(tree), NEW vouched \in SUBSET Phantoms(tree), NEW p \in Paths,
           Absent \in {tree.index[p], tree.head[p]} \/ Mode(tree.index[p]) = Mode(tree.head[p])
    PROVE  Cleared(tree, vouched, p) = Cleared(tree, {}, p)
<1>1. CASE p \notin vouched
    BY <1>1 DEF Cleared, Record, Letters, DiskLetter
<1>2. CASE p \in vouched
    <2> DEFINE on  == Record(tree, vouched, p)
               off == Record(tree, {}, p)
    <2>1. /\ tree.index[p] # Absent /\ tree.disk[p] # Absent
          /\ Mode(tree.disk[p]) = Mode(tree.index[p])
          /\ Oid(tree.disk[p]) # Oid(tree.index[p])
          /\ CheckoutOid(tree.disk[p]) = Oid(tree.index[p])
        BY <1>2 DEF Phantoms
    <2>2. p \notin Untracked(tree) /\ tree.index[p] # tree.disk[p]
        BY <2>1 DEF Untracked
    <2>3. /\ on.status = <<IndexLetter(tree, p), ".">>
          /\ off.status = <<IndexLetter(tree, p), "M">>
        BY <1>2, <2>1, <2>2 DEF Record, Letters, DiskLetter
    <2>4. Oid(tree.index[p]) # NoOid /\ Mode(tree.disk[p]) # ABSENT_MODE
        BY <2>1, Files3 DEF AreTrees, IsTree
    <2>5. Mode(tree.head[p]) \in {ABSENT_MODE, Mode(tree.disk[p])}
        BY <2>1, Files3 DEF AreTrees, IsTree
    <2>6. Cleared(tree, {}, p) = [off EXCEPT !.status = <<off.status[1], ".">>]
        <3>1. /\ off.staged_oid = Oid(tree.index[p]) /\ off.worktree_mode = Mode(tree.disk[p])
              /\ off.head_mode = Mode(tree.head[p])
            BY <2>2 DEF Record
        <3>2. off.status[2] = "M"
            BY <2>3
        <3> HIDE DEF off
        <3>3. ClearIfPhantom(off, tree.disk[p]) = [off EXCEPT !.status = <<off.status[1], ".">>]
            BY <2>1, <2>4, <2>5, <3>1, <3>2 DEF ClearIfPhantom, IsWorktreeModified, IsDeleted
        <3> QED BY <3>3 DEF Cleared, off
    <2>7. Cleared(tree, vouched, p) = on
        <3>1. on.status[2] = "."
            BY <2>3
        <3> HIDE DEF on
        <3>2. ClearIfPhantom(on, tree.disk[p]) = on
            BY <3>1 DEF ClearIfPhantom, IsWorktreeModified
        <3> QED BY <3>2 DEF Cleared, on
    <2>8. [off EXCEPT !.status = <<off.status[1], ".">>] = on
        BY <2>2, <2>3 DEF Record
    <2> QED BY <2>6, <2>7, <2>8
<1> QED BY <1>1, <1>2

LEMMA VouchingIsNothing ==
    ASSUME NEW tree, AreTrees(tree), NEW vouched \in SUBSET Phantoms(tree),
           \A p \in Paths : Absent \in {tree.index[p], tree.head[p]}
                              \/ Mode(tree.index[p]) = Mode(tree.head[p])
    PROVE  Scan(tree, vouched) = Scan(tree, {})
<1>1. \A p \in Paths : Cleared(tree, vouched, p) = Cleared(tree, {}, p)
    BY PhantomsAreCleared
<1> QED BY <1>1, Scanned

(* What an entry keeps of its record.                                       *)
LEMMA EntriesAreRecords ==
    ASSUME NEW tree, AreTrees(tree), NEW vouched, NEW p \in DOMAIN Scan(tree, vouched)
    PROVE  LET e == Scan(tree, vouched)[p] IN
           /\ p \in Paths
           /\ DOMAIN e = {"status", "head_mode", "worktree_mode", "head_oid", "staged_oid", "worktree_oid"}
           /\ (e.worktree_mode = ABSENT_MODE) <=> (tree.disk[p] = Absent)
           /\ e.worktree_oid = NoOid
<1> DEFINE r == Record(tree, vouched, p)
           e == Cleared(tree, vouched, p)
<1>1. p \in Paths /\ Scan(tree, vouched)[p] = e
    BY Scanned
<1>2. /\ DOMAIN r = {"status", "head_mode", "worktree_mode", "head_oid", "staged_oid", "worktree_oid"}
      /\ r.worktree_oid = NoOid
    BY DEF Record, NewFile
<1>3. (r.worktree_mode = ABSENT_MODE) <=> (tree.disk[p] = Absent)
    <2>1. CASE p \in Untracked(tree)
        BY <2>1 DEF Record, NewFile, Untracked, ABSENT_MODE
    <2>2. CASE p \notin Untracked(tree)
        BY <1>1, <2>2, Files3 DEF Record, AreTrees, IsTree
    <2> QED BY <2>1, <2>2
<1>4. e = r \/ e = [r EXCEPT !.status = <<r.status[1], ".">>]
    BY DEF Cleared, ClearIfPhantom
<1>5. DOMAIN e = DOMAIN r /\ e.worktree_oid = r.worktree_oid /\ e.worktree_mode = r.worktree_mode
    <2> HIDE DEF e, r
    <2> QED BY <1>2, <1>4
<1> QED BY <1>1, <1>2, <1>3, <1>5

(* A path with no change left is the commit's, as the checkout wrote it.    *)
LEMMA UnseenIsUnchanged ==
    ASSUME NEW tree, AreTrees(tree), NEW vouched \in SUBSET Phantoms(tree), NEW p \in Paths,
           IsNoChange(Cleared(tree, vouched, p))
    PROVE  /\ tree.head[p] = tree.index[p]
           /\ tree.disk[p] # tree.index[p] =>
                /\ tree.index[p] # Absent /\ Mode(tree.disk[p]) = Mode(tree.index[p])
                /\ CheckoutOid(tree.disk[p]) = Oid(tree.index[p])
<1> DEFINE r == Record(tree, vouched, p)
<1>1. p \notin Untracked(tree)
    BY DEF Cleared, ClearIfPhantom, Record, NewFile, IsWorktreeModified, IsNoChange
<1>2. /\ DOMAIN r = {"status", "head_mode", "worktree_mode", "head_oid", "staged_oid", "worktree_oid"}
      /\ r.status = Letters(tree, vouched, p) /\ r.head_mode = Mode(tree.head[p])
      /\ r.worktree_mode = Mode(tree.disk[p]) /\ r.staged_oid = Oid(tree.index[p])
    BY <1>1 DEF Record
<1>3. \/ r.status = <<".", ".">>
      \/ /\ r.status[1] = "."
         /\ r.status[2] = "M" /\ r.staged_oid # NoOid /\ r.worktree_mode # ABSENT_MODE
         /\ r.head_mode \in {ABSENT_MODE, r.worktree_mode}
         /\ CheckoutOid(tree.disk[p]) = r.staged_oid
    <2> HIDE DEF r
    <2>1. IsNoChange(ClearIfPhantom(r, tree.disk[p]))
        BY DEF Cleared, r
    <2> QED BY <1>2, <2>1 DEF ClearIfPhantom, IsNoChange, IsWorktreeModified, IsDeleted
<1>4. tree.head[p] = tree.index[p]
    BY <1>2, <1>3 DEF Letters, IndexLetter
<1>5. ASSUME tree.disk[p] # tree.index[p]
      PROVE  /\ tree.index[p] # Absent /\ Mode(tree.disk[p]) = Mode(tree.index[p])
             /\ CheckoutOid(tree.disk[p]) = Oid(tree.index[p])
    <2>1. tree.index[p] # Absent
        BY <1>1, <1>5 DEF Untracked
    <2>2. CASE r.status = <<".", ".">>
        <3>1. p \in vouched
            BY <1>2, <1>5, <2>1, <2>2 DEF Letters, DiskLetter
        <3> QED BY <2>1, <3>1 DEF Phantoms
    <2>3. CASE r.status # <<".", ".">>
        <3>1. Mode(tree.index[p]) # ABSENT_MODE
            BY <2>1, Files3 DEF AreTrees, IsTree
        <3> QED BY <1>2, <1>3, <1>4, <2>1, <2>3, <3>1
    <2> QED BY <2>2, <2>3
<1> QED BY <1>4, <1>5

(* A path that differs from the commit is reported, and not cleared.        *)
LEMMA WorkIsSeen ==
    ASSUME NEW tree, AreTrees(tree), NEW vouched \in SUBSET Phantoms(tree),
           NEW p \in Differs(tree.head, tree.disk)
    PROVE  p \in DOMAIN ParsePorcelain(tree, vouched) /\ p \in DOMAIN Scan(tree, vouched)
<1>1. p \in Paths /\ AsCommitted(tree.head[p]) # AsCommitted(tree.disk[p])
    BY DEF Differs
<1>2. ~IsNoChange(Cleared(tree, vouched, p))
    <2>1. SUFFICES ASSUME IsNoChange(Cleared(tree, vouched, p)) PROVE FALSE
        OBVIOUS
    <2>2. /\ tree.head[p] = tree.index[p] /\ tree.disk[p] # tree.index[p]
          /\ tree.index[p] # Absent /\ Mode(tree.disk[p]) = Mode(tree.index[p])
          /\ CheckoutOid(tree.disk[p]) = Oid(tree.index[p])
        BY <1>1, <2>1, UnseenIsUnchanged
    <2>3. CheckoutOid(tree.index[p]) = CheckoutOid(tree.disk[p])
        <3>1. Oid(tree.index[p]) = <<tree.index[p][1], tree.index[p][2]>>
            BY <2>2 DEF Oid
        <3>2. CASE CheckoutConverts /\ tree.disk[p] # Absent
            <4>1. CheckoutOid(tree.disk[p]) = <<tree.disk[p][1], "lf">>
                BY <3>2 DEF CheckoutOid
            <4>2. tree.index[p][2] = "lf"
                BY <2>2, <3>1, <4>1
            <4>3. CheckoutOid(tree.index[p]) = <<tree.index[p][1], "lf">>
                BY <2>2, <3>2 DEF CheckoutOid
            <4> QED BY <2>2, <3>1, <4>2, <4>3
        <3>3. CASE ~ CheckoutConverts
            BY <2>2, <3>3 DEF CheckoutOid
        <3>4. CASE tree.disk[p] = Absent
            <4>1. CheckoutOid(tree.disk[p]) = NoOid
                BY <3>4 DEF CheckoutOid, Oid
            <4> QED BY <1>1, <2>2, <4>1, Files3 DEF AreTrees, IsTree
        <3> QED BY <3>2, <3>3, <3>4
    <2> QED BY <1>1, <2>2, <2>3 DEF AsCommitted
<1>3. p \in DOMAIN ParsePorcelain(tree, vouched)
    BY <1>1, <1>2, Unreported
<1>4. p \in DOMAIN Scan(tree, vouched)
    BY <1>1, <1>2, Scanned
<1> QED BY <1>3, <1>4

(* Where nothing is reported, index and disk are the commit's.              *)
LEMMA NothingIsReported ==
    ASSUME NEW tree, AreTrees(tree), NEW vouched \in SUBSET Phantoms(tree),
           DOMAIN ParsePorcelain(tree, vouched) = {}
    PROVE  Differs(tree.head, tree.disk) = {} /\ Differs(tree.head, tree.index) = {}
<1>1. Differs(tree.head, tree.disk) = {}
    BY WorkIsSeen
<1>2. \A p \in Paths : tree.head[p] = tree.index[p]
    <2>1. \A p \in Paths : Letters(tree, vouched, p) = <<".", ".">>
        BY Parsed
    <2> QED BY <2>1 DEF Letters, IndexLetter
<1> QED BY <1>1, <1>2 DEF Differs

-----------------------------------------------------------------------------
(* WHAT A HASHED SNAPSHOT AND THE CHANGE MADE OF IT SAY                     *)

EntryFields == {"status", "head_mode", "worktree_mode", "head_oid", "staged_oid", "worktree_oid"}

(* The snapshot of a tree that did not move between its two readings.       *)
HashedOf(tree, entries) ==
    \E vouched \in SUBSET Phantoms(tree) : entries = HashPaths(Scan(tree, vouched), tree.disk)

LEMMA HashedEntries ==
    ASSUME NEW tree, AreTrees(tree), NEW vouched,
           NEW p \in DOMAIN HashPaths(Scan(tree, vouched), tree.disk)
    PROVE  LET e == HashPaths(Scan(tree, vouched), tree.disk)[p] IN
           /\ p \in Paths /\ p \in DOMAIN Scan(tree, vouched)
           /\ DOMAIN e = EntryFields
           /\ (e.worktree_mode = ABSENT_MODE) <=> (tree.disk[p] = Absent)
           /\ e.worktree_oid = Oid(tree.disk[p])
<1> DEFINE scanned == Scan(tree, vouched)
           e == HashPaths(scanned, tree.disk)[p]
<1>1. p \in DOMAIN scanned
    BY DEF HashPaths
<1>2. /\ p \in Paths /\ DOMAIN scanned[p] = EntryFields
      /\ (scanned[p].worktree_mode = ABSENT_MODE) <=> (tree.disk[p] = Absent)
      /\ scanned[p].worktree_oid = NoOid
    BY <1>1, EntriesAreRecords DEF EntryFields
<1> HIDE DEF scanned
<1>3. CASE tree.disk[p] = Absent
    <2>1. e = scanned[p]
        BY <1>1, <1>2, <1>3 DEF HashPaths, IsDeleted
    <2>2. Oid(tree.disk[p]) = NoOid
        BY <1>3 DEF Oid
    <2> QED BY <1>1, <1>2, <1>3, <2>1, <2>2 DEF scanned
<1>4. CASE tree.disk[p] # Absent
    <2>1. e = [scanned[p] EXCEPT !.worktree_oid = Oid(tree.disk[p])]
        BY <1>1, <1>2, <1>4 DEF HashPaths, IsDeleted
    <2>2. /\ e.worktree_oid = Oid(tree.disk[p]) /\ DOMAIN e = EntryFields
          /\ e.worktree_mode = scanned[p].worktree_mode
        BY <1>2, <2>1 DEF EntryFields
    <2> QED BY <1>1, <1>2, <1>4, <2>2 DEF scanned
<1> QED BY <1>3, <1>4

(* The digest does not depend on what the stat cache vouched for, and the   *)
(* full re-hash hashed the same files.                                      *)
LEMMA OneDigest ==
    ASSUME NEW tree, AreTrees(tree), NEW entries, HashedOf(tree, entries)
    PROVE  /\ (\A p \in Paths : Absent \in {tree.index[p], tree.head[p]}
                                  \/ Mode(tree.index[p]) = Mode(tree.head[p]))
              => entries = HashPaths(Scan(tree, {}), tree.disk)
           /\ \A head : \A p \in DOMAIN entries \cap DOMAIN FullRehash(tree, head).entries :
                FullRehash(tree, head).entries[p].worktree_oid = entries[p].worktree_oid
<1>1. PICK vouched \in SUBSET Phantoms(tree) : entries = HashPaths(Scan(tree, vouched), tree.disk)
    BY DEF HashedOf
<1>2. ASSUME \A p \in Paths : Absent \in {tree.index[p], tree.head[p]}
                                \/ Mode(tree.index[p]) = Mode(tree.head[p])
      PROVE  entries = HashPaths(Scan(tree, {}), tree.disk)
    BY <1>1, <1>2, VouchingIsNothing
<1>3. ASSUME NEW head, NEW p \in DOMAIN entries \cap DOMAIN FullRehash(tree, head).entries
      PROVE  FullRehash(tree, head).entries[p].worktree_oid = entries[p].worktree_oid
    <2>1. entries[p].worktree_oid = Oid(tree.disk[p])
        BY <1>1, HashedEntries
    <2>2. FullRehash(tree, head).entries[p].worktree_oid = Oid(tree.disk[p])
        BY DEF FullRehash, Snapshot
    <2> QED BY <2>1, <2>2
<1> QED BY <1>2, <1>3

(* Work in the tree leaves an entry.                                        *)
LEMMA WorkIsHashed ==
    ASSUME NEW tree, AreTrees(tree), NEW entries, HashedOf(tree, entries),
           Differs(tree.head, tree.disk) # {}
    PROVE  DOMAIN entries # {}
<1>1. PICK vouched \in SUBSET Phantoms(tree) : entries = HashPaths(Scan(tree, vouched), tree.disk)
    BY DEF HashedOf
<1>2. DOMAIN entries = DOMAIN Scan(tree, vouched)
    BY <1>1 DEF HashPaths
<1> QED BY <1>2, WorkIsSeen

(* The head side of a changed entry is its snapshot's: the bytes of the     *)
(* index where the disk still holds them, or not read yet.                  *)
IsSide(c, e) ==
    /\ {"dst_oid", "dst_mode"} \subseteq DOMAIN c
    /\ c.dst_mode = e.worktree_mode
    /\ c.dst_oid \in {NoOid, e.staged_oid, e.worktree_oid}

LEMMA SnapshotSides ==
    ASSUME NEW mode, NEW head, NEW entries, NEW p \in DOMAIN entries
    PROVE  LET dirty == FromSnapshot(Snapshot(mode, head, entries)) IN
           p \in DOMAIN dirty /\ IsSide(dirty[p], entries[p])
BY DEF FromSnapshot, Snapshot, ChangedEntry, IsSide

LEMMA UnionSides ==
    ASSUME NEW committed, NEW mode, NEW head, NEW entries,
           NEW p \in DOMAIN Union(committed, FromSnapshot(Snapshot(mode, head, entries)))
                       \cap DOMAIN entries
    PROVE  IsSide(Union(committed, FromSnapshot(Snapshot(mode, head, entries)))[p], entries[p])
<1> DEFINE dirty == FromSnapshot(Snapshot(mode, head, entries))
<1>1. p \in DOMAIN dirty /\ IsSide(dirty[p], entries[p])
    BY SnapshotSides
<1>2. p \in DOMAIN Union(committed, dirty)
    OBVIOUS
<1> HIDE DEF dirty
<1>3. Union(committed, dirty)[p] \in {Compose(committed[p], dirty[p]), dirty[p]}
    BY <1>1, <1>2 DEF Union
<1>4. IsSide(Compose(committed[p], dirty[p]), entries[p])
    BY <1>1 DEF Compose, ChangedEntry, IsSide
<1>5. IsSide(Union(committed, dirty)[p], entries[p])
    BY <1>1, <1>3, <1>4
<1> QED BY <1>5 DEF dirty

LEMMA EnumerateSides ==
    ASSUME HeadIsWorktree, NEW base, NEW head, NEW entries,
           NEW p \in DOMAIN Enumerate(base, Snapshot("incremental", head, entries)) \cap DOMAIN entries
    PROVE  IsSide(Enumerate(base, Snapshot("incremental", head, entries))[p], entries[p])
BY SnapshotSides, UnionSides DEF Enumerate

(* Reading the bytes afterwards, from the tree that was hashed.             *)
LEMMA ReadSides ==
    ASSUME NEW changed, NEW disk, NEW store_writes, NEW p \in DOMAIN changed, NEW e,
           IsSide(changed[p], e), e.worktree_mode # ABSENT_MODE => e.worktree_oid = Oid(disk[p])
    PROVE  LET read == ReadWithoutStaging(changed, disk, store_writes).changed IN
           DOMAIN read = DOMAIN changed /\ IsSide(read[p], e)
<1>1. CASE p \notin Pending(changed)
    BY <1>1 DEF ReadWithoutStaging
<1>2. CASE p \in Pending(changed)
    <2>1. e.worktree_oid = Oid(disk[p])
        BY <1>2 DEF Pending, IsSide
    <2>2. IsSide([changed[p] EXCEPT !.dst_oid = Oid(disk[p])], e)
        BY <2>1 DEF IsSide
    <2> QED BY <1>2, <2>2 DEF ReadWithoutStaging
<1> QED BY <1>1, <1>2

-----------------------------------------------------------------------------
(* TYPES, AND THE RUNGS                                                     *)

RepoFields == {"head", "refs", "shallow", "operation", "unmerged", "index", "disk"}
RunFields == {"at", "request", "uncommitted", "rung", "tried", "anchor", "entries", "context",
              "changed", "policy", "unreadable", "withheld", "answer"}
Resolving == {"rung", "scan", "suspects", "hash", "compare"}
Resolved == {"policy", "read", "measured"}

RepoTypeOK ==
    /\ DOMAIN repo = RepoFields
    /\ repo.head \in Commits \cup {NoCommit}
    /\ IsTree(repo.index) /\ IsTree(repo.disk)

RunTypeOK ==
    /\ DOMAIN run = RunFields
    /\ run.at \in {"idle", "operation", "status", "refused"} \cup Resolving \cup Resolved
    /\ run.rung \in Nat
    /\ run.at \in {"scan", "suspects", "hash", "compare"} => run.rung <= HeadRung
    /\ run.at \in {"scan", "suspects", "hash"} => HeadIsWorktree
    /\ run.at # "refused" => run.answer = "none"
    /\ run.at \notin Resolved => run.context = NoContext
    /\ run.at \in Resolved =>
         (run.context.head_kind = "uncommitted-worktree") = HeadIsWorktree

RangeTypeOK == RepoTypeOK /\ RunTypeOK /\ stirred \subseteq {"run", "scan"}

LEMMA Trees3 == ASSUME RepoTypeOK PROVE AreTrees(Tree)
<1>1. IsTree(TreeAt(repo.head))
    BY HistoryIsKnown DEF RepoTypeOK, TreeAt, EmptyTree, IsTree, IsFile
<1> QED BY <1>1 DEF RepoTypeOK, AreTrees, Tree

LEMMA Rungs == Len(BASE_CANDIDATES) = 7 /\ HeadRung = 8
BY DEF BASE_CANDIDATES, HeadRung

LEMMA LeastRung ==
    ASSUME NEW left \in SUBSET (0 .. 7), left # {}
    PROVE  Min(left) \in left
<1>1. \E x \in left : \A y \in left : x <= y
    <2>1. CASE 0 \in left
        BY <2>1
    <2>2. CASE 0 \notin left /\ 1 \in left
        BY <2>2
    <2>3. CASE left \cap {0, 1} = {} /\ 2 \in left
        BY <2>3
    <2>4. CASE left \cap {0, 1, 2} = {} /\ 3 \in left
        BY <2>4
    <2>5. CASE left \cap {0, 1, 2, 3} = {} /\ 4 \in left
        BY <2>5
    <2>6. CASE left \cap {0, 1, 2, 3, 4} = {} /\ 5 \in left
        BY <2>6
    <2>7. CASE left \cap {0, 1, 2, 3, 4, 5} = {} /\ 6 \in left
        BY <2>7
    <2>8. CASE left \cap {0, 1, 2, 3, 4, 5, 6} = {} /\ 7 \in left
        BY <2>8
    <2>9. left \cap {0, 1, 2, 3, 4, 5, 6, 7} # {}
        <3>1. 0 .. 7 = {0, 1, 2, 3, 4, 5, 6, 7}
            OBVIOUS
        <3> QED BY <3>1
    <2> QED BY <2>1, <2>2, <2>3, <2>4, <2>5, <2>6, <2>7, <2>8, <2>9
<1> QED BY <1>1 DEF Min

(* The next rung: none but the first for an explicit base; the last only    *)
(* for a working tree over a commit.                                        *)
LEMMA NextRungs ==
    ASSUME RunTypeOK
    PROVE  /\ NextRung \in 0 .. 9
           /\ Explicit => NextRung = 0
           /\ NextRung = HeadRung => HeadIsWorktree /\ repo.head # NoCommit
           /\ NextRung > HeadRung /\ HeadIsWorktree /\ repo.head # NoCommit => run.rung > HeadRung
<1> DEFINE left == {i \in run.rung .. Len(BASE_CANDIDATES) : Ref(BASE_CANDIDATES[i]) # NoCommit}
<1>1. left \in SUBSET (0 .. 7)
    BY Rungs DEF RunTypeOK
<1>2. left # {} => Min(left) \in 0 .. 7
    <2> HIDE DEF left
    <2> QED BY <1>1, LeastRung
<1>3. NextRung = IF Explicit THEN 0
                 ELSE IF left # {} THEN Min(left)
                 ELSE IF HeadIsWorktree /\ repo.head # NoCommit /\ run.rung <= HeadRung
                      THEN HeadRung
                 ELSE HeadRung + 1
    BY DEF NextRung
<1> HIDE DEF left
<1> QED BY <1>2, <1>3, Rungs DEF RunTypeOK

LEMMA RangeStarts == ASSUME Init PROVE RangeTypeOK
<1>1. RepoTypeOK
    BY WorldsAreRepositories DEF Init, RepoTypeOK, RepoFields
<1>2. PICK r \in Requests : run = [NewRun(r) EXCEPT !.at = "idle"]
    BY DEF Init
<1>3. /\ DOMAIN run = RunFields /\ run.at = "idle" /\ run.rung = 1
      /\ run.answer = "none" /\ run.context = NoContext
    BY <1>2 DEF NewRun, RunFields
<1> QED BY <1>1, <1>3 DEF Init, RangeTypeOK, RunTypeOK, Resolving, Resolved

LEMMA EditTypes ==
    ASSUME RepoTypeOK, NEW new, Edited(new),
           DOMAIN new = RepoFields, new.head \in Commits \cup {NoCommit},
           IsTree(new.index), IsTree(new.disk)
    PROVE  RepoTypeOK'
BY DEF Edited, RepoTypeOK, RepoFields

LEMMA CleanedFiles ==
    ASSUME NEW f, IsFile(f)
    PROVE  IsFile(Cleaned(f))
<1>1. CASE f = Absent
    BY <1>1 DEF Cleaned
<1>2. CASE f # Absent
    <2> DEFINE c == Cleaned(f)
    <2>1. c = <<CheckoutOid(f)[1], CheckoutOid(f)[2], Mode(f)>>
        BY <1>2 DEF Cleaned
    <2>2. Mode(f) \in {"100644", "100755"}
        BY <1>2 DEF IsFile
    <2>3. c # Absent /\ c[3] = Mode(f)
        <3> HIDE DEF c
        <3> QED BY <2>1 DEF Absent
    <2> QED BY <2>2, <2>3 DEF IsFile, Mode
<1> QED BY <1>1, <1>2

LEMMA EditsKeepTypes == ASSUME RepoTypeOK, Edit PROVE RepoTypeOK'
<1> USE DEF RepoTypeOK, RepoFields
<1>1. CASE Write
    <2>1. PICK p \in Paths, f \in Files \cup {Absent} : Edited([repo EXCEPT !.disk[p] = f])
        BY <1>1 DEF Write
    <2>2. IsTree([repo.disk EXCEPT ![p] = f])
        BY WorldsAreRepositories DEF IsTree, IsFile
    <2> DEFINE new == [repo EXCEPT !.disk[p] = f]
    <2>3. /\ DOMAIN new = RepoFields /\ new.head = repo.head /\ new.index = repo.index
          /\ new.disk = [repo.disk EXCEPT ![p] = f]
        OBVIOUS
    <2>4. Edited(new)
        BY <2>1
    <2> HIDE DEF new
    <2> QED BY <2>2, <2>3, <2>4, EditTypes
<1>2. CASE Stage
    <2>1. PICK p \in Paths : Edited([repo EXCEPT !.index[p] = Cleaned(repo.disk[p])])
        BY <1>2 DEF Stage
    <2> DEFINE file == Cleaned(repo.disk[p])
    <2>2. IsTree([repo.index EXCEPT ![p] = file])
        <3>1. IsFile(repo.disk[p])
            BY DEF IsTree
        <3>2. IsFile(file)
            BY <3>1, CleanedFiles
        <3> HIDE DEF file
        <3> QED BY <3>2 DEF IsTree
    <2> DEFINE new == [repo EXCEPT !.index[p] = file]
    <2> HIDE DEF file
    <2>3. /\ DOMAIN new = RepoFields /\ new.head = repo.head /\ new.disk = repo.disk
          /\ new.index = [repo.index EXCEPT ![p] = file]
        OBVIOUS
    <2>4. Edited(new)
        BY <2>1 DEF file
    <2> HIDE DEF new
    <2> QED BY <2>2, <2>3, <2>4, EditTypes
<1>3. CASE Untrack
    <2>1. PICK p \in Paths : Edited([repo EXCEPT !.index[p] = Absent])
        BY <1>3 DEF Untrack
    <2>2. IsTree([repo.index EXCEPT ![p] = Absent])
        BY DEF IsTree, IsFile
    <2> DEFINE new == [repo EXCEPT !.index[p] = Absent]
    <2>3. /\ DOMAIN new = RepoFields /\ new.head = repo.head /\ new.disk = repo.disk
          /\ new.index = [repo.index EXCEPT ![p] = Absent]
        OBVIOUS
    <2>4. Edited(new)
        BY <2>1
    <2> HIDE DEF new
    <2> QED BY <2>2, <2>3, <2>4, EditTypes
<1>4. CASE Commit
    BY <1>4 DEF Commit, Edited
<1>5. CASE BeginMerge
    BY <1>5 DEF BeginMerge, Edited
<1>6. CASE AbortMerge
    BY <1>6 DEF AbortMerge, Edited
<1> QED BY <1>1, <1>2, <1>3, <1>4, <1>5, <1>6 DEF Edit

(* A step of the measurement leaves the repository alone; an edit leaves    *)
(* the measurement alone.                                                   *)
LEMMA WhoMoves ==
    /\ Measure => repo' = repo
    /\ Edit => run' = run /\ ~Ended /\ stirred' = IF run.at = "idle" THEN {} ELSE {"run", "scan"}
<1>1. Measure => repo' = repo
    BY DEF Measure, Start, Resolve, InProgressOperation, ReadUncommitted, OpenRange, ScanTree,
           ClearPhantoms, HashTree, Compare, DirtyDeadEnd, LastMergedChange, LoadPolicy, ReadBytes
<1>2. Edit => run' = run /\ ~Ended /\ stirred' = IF run.at = "idle" THEN {} ELSE {"run", "scan"}
    BY DEF Edit, Edited, Write, Stage, Untrack, Commit, BeginMerge, AbortMerge
<1> QED BY <1>1, <1>2

(* What each step makes of the measurement, field by field.                 *)
LEMMA Refusals ==
    ASSUME DOMAIN run = RunFields, NEW why, Refuse(why)
    PROVE  /\ DOMAIN run' = RunFields /\ run'.at = "refused" /\ run'.answer = why
           /\ run'.request = run.request /\ run'.uncommitted = run.uncommitted
           /\ run'.rung = run.rung /\ run'.context = run.context
BY DEF Refuse, RunFields

LEMMA RefusedTypes ==
    ASSUME RunTypeOK, run.at \notin Resolved, NEW why, Refuse(why)
    PROVE  RunTypeOK'
BY Refusals DEF RunTypeOK, Resolving, Resolved

(* Whether the head is the working tree is settled by the first status.     *)
LEMMA HeadStays ==
    ASSUME run'.request = run.request, run'.uncommitted = run.uncommitted
    PROVE  HeadIsWorktree' = HeadIsWorktree /\ Explicit' = Explicit
BY DEF HeadIsWorktree, Explicit

LEMMA MeasureTypes ==
    ASSUME RangeTypeOK, Measure
    PROVE  RunTypeOK'
<1> USE DEF RangeTypeOK, Resolving, Resolved
<1>1. CASE Start
    <2>1. run' = NewRun(run.request)
        BY <1>1 DEF Start
    <2>2. /\ DOMAIN run' = RunFields /\ run'.at = "operation" /\ run'.rung = 1
          /\ run'.answer = "none" /\ run'.context = NoContext
        BY <2>1 DEF NewRun, RunFields
    <2> QED BY <2>2 DEF RunTypeOK
<1>2. CASE InProgressOperation
    <2>1. CASE Refuse("operation in progress")
        BY <1>2, <2>1, RefusedTypes DEF InProgressOperation
    <2>2. CASE run' = [run EXCEPT !.at = "status"]
        BY <1>2, <2>2 DEF InProgressOperation, RunTypeOK, RunFields
    <2> QED BY <1>2, <2>1, <2>2 DEF InProgressOperation
<1>3. CASE ReadUncommitted
    <2>1. PICK seen : run' = [run EXCEPT !.at = "rung", !.uncommitted = seen]
        BY <1>3 DEF ReadUncommitted
    <2> QED BY <1>3, <2>1 DEF ReadUncommitted, RunTypeOK, RunFields
<1>4. CASE OpenRange
    <2>1. ASSUME NEW why, Refuse(why) PROVE RunTypeOK'
        BY <1>4, <2>1, RefusedTypes DEF OpenRange
    <2>2. ASSUME NEW tried, NEW anchor,
                 run' = [run EXCEPT !.rung = NextRung, !.tried = tried, !.anchor = anchor,
                                    !.at = IF HeadIsWorktree THEN "scan" ELSE "compare"]
          PROVE  RunTypeOK'
        <3>1. /\ DOMAIN run' = RunFields /\ run'.rung = NextRung
              /\ run'.at = IF HeadIsWorktree THEN "scan" ELSE "compare"
              /\ run'.request = run.request /\ run'.uncommitted = run.uncommitted
              /\ run'.answer = run.answer /\ run'.context = run.context
            BY <2>2 DEF RunTypeOK, RunFields
        <3>2. HeadIsWorktree' = HeadIsWorktree
            BY <3>1, HeadStays
        <3>3. NextRung \in Nat /\ NextRung <= HeadRung /\ HeadIsWorktree \in BOOLEAN
            <4>1. NextRung \in 0 .. 9
                BY NextRungs
            <4>2. NextRung <= HeadRung
                BY <1>4 DEF OpenRange
            <4>3. HeadIsWorktree \in BOOLEAN
                BY DEF HeadIsWorktree
            <4> QED BY <4>1, <4>2, <4>3
        <3>4. run.at = "rung" /\ run.answer = "none" /\ run.context = NoContext
            BY <1>4 DEF OpenRange, RunTypeOK
        <3>5. run'.rung \in Nat /\ (run'.at \in {"scan", "suspects", "hash", "compare"} => run'.rung <= HeadRung')
            BY <3>1, <3>3 DEF HeadRung
        <3>6. run'.at \in {"scan", "compare"} /\ (run'.at = "scan" => HeadIsWorktree')
            BY <3>1, <3>2, <3>3
        <3> QED BY <3>1, <3>4, <3>5, <3>6 DEF RunTypeOK
    <2> QED BY <1>4, <2>1, <2>2 DEF OpenRange
<1>5. CASE ScanTree
    <2>1. ASSUME NEW why, Refuse(why) PROVE RunTypeOK'
        BY <1>5, <2>1, RefusedTypes DEF ScanTree
    <2>2. ASSUME NEW entries, run' = [run EXCEPT !.at = "suspects", !.entries = entries]
          PROVE  RunTypeOK'
        <3>1. /\ DOMAIN run' = RunFields /\ run'.at = "suspects" /\ run'.rung = run.rung
              /\ run'.request = run.request /\ run'.uncommitted = run.uncommitted
              /\ run'.answer = run.answer /\ run'.context = run.context
            BY <2>2 DEF RunTypeOK, RunFields
        <3> QED BY <1>5, <3>1, HeadStays DEF ScanTree, RunTypeOK
    <2> QED BY <1>5, <2>1, <2>2 DEF ScanTree
<1>12. CASE ClearPhantoms
    <2>1. ASSUME NEW why, Refuse(why) PROVE RunTypeOK'
        BY <1>12, <2>1, RefusedTypes DEF ClearPhantoms
    <2>2. ASSUME NEW entries, run' = [run EXCEPT !.at = "hash", !.entries = entries]
          PROVE  RunTypeOK'
        <3>1. /\ DOMAIN run' = RunFields /\ run'.at = "hash" /\ run'.rung = run.rung
              /\ run'.request = run.request /\ run'.uncommitted = run.uncommitted
              /\ run'.answer = run.answer /\ run'.context = run.context
            BY <2>2 DEF RunTypeOK, RunFields
        <3> QED BY <1>12, <3>1, HeadStays DEF ClearPhantoms, RunTypeOK
    <2> QED BY <1>12, <2>1, <2>2 DEF ClearPhantoms
<1>6. CASE HashTree
    <2>1. ASSUME NEW why, Refuse(why) PROVE RunTypeOK'
        BY <1>6, <2>1, RefusedTypes DEF HashTree
    <2>2. ASSUME NEW entries, run' = [run EXCEPT !.at = "compare", !.entries = entries]
          PROVE  RunTypeOK'
        <3>1. /\ DOMAIN run' = RunFields /\ run'.at = "compare" /\ run'.rung = run.rung
              /\ run'.request = run.request /\ run'.uncommitted = run.uncommitted
              /\ run'.answer = run.answer /\ run'.context = run.context
            BY <2>2 DEF RunTypeOK, RunFields
        <3> QED BY <1>6, <3>1, HeadStays DEF HashTree, RunTypeOK
    <2> QED BY <1>6, <2>1, <2>2 DEF HashTree
<1>7. CASE Compare
    <2>1. ASSUME NEW why, Refuse(why) PROVE RunTypeOK'
        BY <1>7, <2>1, RefusedTypes DEF Compare
    <2>2. CASE run' = [run EXCEPT !.at = "rung", !.rung = @ + 1]
        <3>1. /\ DOMAIN run' = RunFields /\ run'.at = "rung" /\ run'.rung = run.rung + 1
              /\ run'.answer = run.answer /\ run'.context = run.context
            BY <2>2 DEF RunTypeOK, RunFields
        <3>2. run.answer = "none" /\ run.context = NoContext /\ run.rung \in Nat
            BY <1>7 DEF Compare, RunTypeOK
        <3> QED BY <3>1, <3>2 DEF RunTypeOK
    <2>3. ASSUME NEW changed, NEW base, NEW snapshot,
                 run' = [run EXCEPT !.at = "policy", !.changed = changed,
                                    !.context = WireContext(base, snapshot)]
          PROVE  RunTypeOK'
        <3>1. /\ DOMAIN run' = RunFields /\ run'.at = "policy" /\ run'.rung = run.rung
              /\ run'.request = run.request /\ run'.uncommitted = run.uncommitted
              /\ run'.answer = run.answer /\ run'.context = WireContext(base, snapshot)
            BY <2>3 DEF RunTypeOK, RunFields
        <3>2. WireContext(base, snapshot).head_kind
                = IF HeadIsWorktree THEN "uncommitted-worktree" ELSE "commit"
            BY DEF WireContext, NoContext
        <3>3. HeadIsWorktree \in BOOLEAN
            BY DEF HeadIsWorktree
        <3>4. (run'.context.head_kind = "uncommitted-worktree") = HeadIsWorktree'
            BY <3>1, <3>2, <3>3, HeadStays
        <3> QED BY <1>7, <3>1, <3>4 DEF Compare, RunTypeOK
    <2> QED BY <1>7, <2>1, <2>2, <2>3 DEF Compare
<1>8. CASE DirtyDeadEnd
    <2>1. ASSUME NEW why, Refuse(why) PROVE RunTypeOK'
        BY <1>8, <2>1, RefusedTypes DEF DirtyDeadEnd
    <2> QED BY <1>8, <2>1 DEF DirtyDeadEnd
<1>9. CASE LastMergedChange
    <2>1. ASSUME NEW why, Refuse(why) PROVE RunTypeOK'
        BY <1>9, <2>1, RefusedTypes DEF LastMergedChange
    <2>2. ASSUME NEW changed, NEW anchor, NEW context, context.head_kind = "commit",
                 run' = [run EXCEPT !.at = "policy", !.anchor = anchor,
                                    !.changed = changed, !.context = context]
          PROVE  RunTypeOK'
        <3>1. /\ DOMAIN run' = RunFields /\ run'.at = "policy" /\ run'.rung = run.rung
              /\ run'.request = run.request /\ run'.uncommitted = run.uncommitted
              /\ run'.answer = run.answer /\ run'.context = context
            BY <2>2 DEF RunTypeOK, RunFields
        <3>2. HeadIsWorktree' = FALSE
            BY <1>9, <3>1, HeadStays DEF LastMergedChange, HeadIsWorktree
        <3> QED BY <1>9, <2>2, <3>1, <3>2 DEF LastMergedChange, RunTypeOK
    <2> DEFINE context ==
                   [base |-> Parent(HeadSpec), head_kind |-> "commit", head |-> HeadSpec,
                    base_resolution |-> "no-diff-fallback:last-merged-change",
                    substitution |-> IF run.uncommitted = {} THEN "nothing in flight"
                                     ELSE "work not described"]
    <2>3. context.head_kind = "commit"
        OBVIOUS
    <2>4. \/ \E why : Refuse(why)
          \/ \E changed, anchor :
               run' = [run EXCEPT !.at = "policy", !.anchor = anchor,
                                  !.changed = changed, !.context = context]
        BY <1>9 DEF LastMergedChange
    <2> HIDE DEF context
    <2> QED BY <2>1, <2>2, <2>3, <2>4
<1>10. CASE LoadPolicy
    <2>1. PICK policy, withheld, changed :
             run' = [run EXCEPT !.at = "read", !.policy = policy, !.withheld = withheld,
                                !.changed = changed]
        BY <1>10 DEF LoadPolicy
    <2>2. /\ DOMAIN run' = RunFields /\ run'.at = "read" /\ run'.rung = run.rung
          /\ run'.request = run.request /\ run'.uncommitted = run.uncommitted
          /\ run'.answer = run.answer /\ run'.context = run.context
        BY <2>1 DEF RunTypeOK, RunFields
    <2> QED BY <1>10, <2>2, HeadStays DEF LoadPolicy, RunTypeOK
<1>11. CASE ReadBytes
    <2>1. \/ run' = [run EXCEPT !.at = "measured"]
          \/ \E changed, unreadable :
               run' = [run EXCEPT !.at = "measured", !.changed = changed, !.unreadable = unreadable]
        BY <1>11 DEF ReadBytes
    <2>2. /\ DOMAIN run' = RunFields /\ run'.at = "measured" /\ run'.rung = run.rung
          /\ run'.request = run.request /\ run'.uncommitted = run.uncommitted
          /\ run'.answer = run.answer /\ run'.context = run.context
        BY <2>1 DEF RunTypeOK, RunFields
    <2> QED BY <1>11, <2>2, HeadStays DEF ReadBytes, RunTypeOK
<1> QED BY <1>1, <1>2, <1>3, <1>4, <1>5, <1>6, <1>7, <1>8, <1>9, <1>10, <1>11, <1>12
        DEF Measure, Resolve

LEMMA RangeTypesKept == ASSUME RangeTypeOK, [Next]_vars PROVE RangeTypeOK'
<1>1. CASE Measure
    <2>1. RepoTypeOK'
        BY <1>1, WhoMoves DEF RangeTypeOK, RepoTypeOK
    <2>2. stirred' \subseteq stirred
        BY <1>1 DEF Measure, Start, Resolve, InProgressOperation, ReadUncommitted, OpenRange,
                    ScanTree, ClearPhantoms, HashTree, Compare, DirtyDeadEnd, LastMergedChange, LoadPolicy, ReadBytes
    <2> QED BY <1>1, <2>1, <2>2, MeasureTypes DEF RangeTypeOK
<1>2. CASE Edit
    <2>1. RepoTypeOK'
        BY <1>2, EditsKeepTypes DEF RangeTypeOK
    <2>2. run' = run /\ stirred' \subseteq {"run", "scan"}
        BY <1>2, WhoMoves
    <2>3. RunTypeOK'
        BY <2>2 DEF RangeTypeOK, RunTypeOK, HeadIsWorktree
    <2> QED BY <2>1, <2>2, <2>3 DEF RangeTypeOK
<1>3. CASE UNCHANGED vars
    BY <1>3 DEF vars, RangeTypeOK, RepoTypeOK, RunTypeOK, HeadIsWorktree
<1> QED BY <1>1, <1>2, <1>3 DEF Next

-----------------------------------------------------------------------------
(* ONE TREE, ONE KEY                                                        *)

(* The head of the record is the digest of the tree as it still is, and     *)
(* what the change holds of a path it describes is what the digest names.   *)
KeyIsOfTheTree ==
    LET snapshot == run.context.head IN
    /\ snapshot = Snapshot("incremental", repo.head, snapshot.entries)
    /\ HashedOf(Tree, snapshot.entries)
    /\ \A p \in DOMAIN run.changed \cap DOMAIN snapshot.entries :
         IsSide(run.changed[p], snapshot.entries[p])

(* As long as nobody edited since the range was last opened.                *)
KeyInv ==
    "scan" \notin stirred =>
        /\ run.at \in {"scan", "suspects", "hash", "compare"} /\ HeadIsWorktree =>
             run.anchor = repo.head /\ repo.operation = "none"
        /\ run.at \in {"suspects", "hash", "compare"} /\ HeadIsWorktree => repo.unmerged = {}
        /\ run.at = "suspects" =>
             \E v \in SUBSET Phantoms(Tree) : run.entries = ParsePorcelain(Tree, v)
        /\ run.at = "hash" => \E v \in SUBSET Phantoms(Tree) : run.entries = Scan(Tree, v)
        /\ run.at = "compare" /\ HeadIsWorktree => HashedOf(Tree, run.entries)
        /\ run.at \in Resolved /\ HeadIsWorktree =>
             repo.operation = "none" /\ repo.unmerged = {} /\ KeyIsOfTheTree

LEMMA TreeStays == ASSUME repo' = repo PROVE Tree' = Tree
BY DEF Tree, TreeAt

LEMMA KeyAtOpening == ASSUME RangeTypeOK, OpenRange PROVE KeyInv'
<1>1. DOMAIN run = RunFields /\ repo' = repo
    BY WhoMoves DEF RangeTypeOK, RunTypeOK, Measure, Resolve
<1>2. ASSUME NEW why, Refuse(why) PROVE KeyInv'
    BY <1>1, <1>2, Refusals DEF KeyInv, Resolved
<1>3. ASSUME NEW tried,
             repo.operation = "none",
             run' = [run EXCEPT !.rung = NextRung, !.tried = tried,
                                !.anchor = IF HeadIsWorktree THEN repo.head ELSE HeadSpec,
                                !.at = IF HeadIsWorktree THEN "scan" ELSE "compare"]
      PROVE  KeyInv'
    <2>1. /\ run'.at = IF HeadIsWorktree THEN "scan" ELSE "compare"
          /\ run'.anchor = IF HeadIsWorktree THEN repo.head ELSE HeadSpec
          /\ run'.request = run.request /\ run'.uncommitted = run.uncommitted
        BY <1>1, <1>3 DEF RunFields
    <2>2. HeadIsWorktree' = HeadIsWorktree
        BY <2>1, HeadStays
    <2>3. CASE HeadIsWorktree
        <3>1. run'.at = "scan" /\ run'.anchor = repo.head
            BY <2>1, <2>3
        <3> QED BY <1>1, <1>3, <3>1 DEF KeyInv, Resolved
    <2>4. CASE ~ HeadIsWorktree
        <3>1. run'.at = "compare" /\ ~ HeadIsWorktree'
            BY <2>1, <2>2, <2>4
        <3> QED BY <3>1 DEF KeyInv, Resolved
    <2> QED BY <2>3, <2>4
<1> QED BY <1>2, <1>3 DEF OpenRange

LEMMA KeyAtScan == ASSUME RangeTypeOK, KeyInv, ScanTree PROVE KeyInv'
<1>1. DOMAIN run = RunFields /\ repo' = repo /\ stirred' = stirred /\ run.at = "scan" /\ HeadIsWorktree
    BY DEF RangeTypeOK, RunTypeOK, ScanTree
<1>2. ASSUME NEW why, Refuse(why) PROVE KeyInv'
    BY <1>1, <1>2, Refusals DEF KeyInv, Resolved
<1>3. ASSUME repo.unmerged = {}, NEW v \in SUBSET Phantoms(Tree),
             run' = [run EXCEPT !.at = "suspects", !.entries = ParsePorcelain(Tree, v)]
      PROVE  KeyInv'
    <2>1. /\ run'.at = "suspects" /\ run'.entries = ParsePorcelain(Tree, v)
          /\ run'.anchor = run.anchor
        BY <1>1, <1>3 DEF RunFields
    <2>2. Tree' = Tree
        BY <1>1, TreeStays
    <2>3. v \in SUBSET Phantoms(Tree') /\ run'.entries = ParsePorcelain(Tree', v)
        BY <1>3, <2>1, <2>2
    <2> QED BY <1>1, <1>3, <2>1, <2>3 DEF KeyInv, Resolved
<1> QED BY <1>2, <1>3 DEF ScanTree

LEMMA KeyAtSuspects == ASSUME RangeTypeOK, KeyInv, ClearPhantoms PROVE KeyInv'
<1>1. DOMAIN run = RunFields /\ repo' = repo /\ stirred' = stirred /\ run.at = "suspects" /\ HeadIsWorktree
    BY DEF RangeTypeOK, RunTypeOK, ClearPhantoms
<1>2. ASSUME NEW why, Refuse(why) PROVE KeyInv'
    BY <1>1, <1>2, Refusals DEF KeyInv, Resolved
<1>3. ASSUME run' = [run EXCEPT !.at = "hash",
                       !.entries = DropConversionPhantoms(run.entries, repo.disk)]
      PROVE  KeyInv'
    <2>1. /\ run'.at = "hash" /\ run'.entries = DropConversionPhantoms(run.entries, repo.disk)
          /\ run'.anchor = run.anchor
        BY <1>1, <1>3 DEF RunFields
    <2>2. Tree' = Tree /\ Tree.disk = repo.disk
        BY <1>1, TreeStays DEF Tree
    <2>3. ASSUME "scan" \notin stirred
          PROVE  \E v \in SUBSET Phantoms(Tree) : run'.entries = Scan(Tree, v)
        <3>1. PICK v \in SUBSET Phantoms(Tree) : run.entries = ParsePorcelain(Tree, v)
            BY <1>1, <2>3 DEF KeyInv
        <3>2. run'.entries = Scan(Tree, v)
            BY <2>1, <2>2, <3>1 DEF Scan
        <3> QED BY <3>2
    <2>4. ASSUME "scan" \notin stirred
          PROVE  \E v \in SUBSET Phantoms(Tree') : run'.entries = Scan(Tree', v)
        BY <2>2, <2>3, <2>4
    <2>5. ASSUME "scan" \notin stirred
          PROVE  run.anchor = repo.head /\ repo.operation = "none" /\ repo.unmerged = {}
        BY <1>1, <2>5 DEF KeyInv
    <2> QED BY <1>1, <2>1, <2>4, <2>5 DEF KeyInv, Resolved
<1> QED BY <1>2, <1>3 DEF ClearPhantoms

LEMMA KeyAtHash == ASSUME RangeTypeOK, KeyInv, HashTree PROVE KeyInv'
<1>1. DOMAIN run = RunFields /\ repo' = repo /\ stirred' = stirred /\ run.at = "hash" /\ HeadIsWorktree
    BY DEF RangeTypeOK, RunTypeOK, HashTree
<1>2. ASSUME NEW why, Refuse(why) PROVE KeyInv'
    BY <1>1, <1>2, Refusals DEF KeyInv, Resolved
<1>3. ASSUME run' = [run EXCEPT !.at = "compare", !.entries = HashPaths(run.entries, repo.disk)]
      PROVE  KeyInv'
    <2>1. /\ run'.at = "compare" /\ run'.entries = HashPaths(run.entries, repo.disk)
          /\ run'.anchor = run.anchor
        BY <1>1, <1>3 DEF RunFields
    <2>2. Tree' = Tree /\ Tree.disk = repo.disk
        BY <1>1, TreeStays DEF Tree
    <2>3. ASSUME "scan" \notin stirred PROVE HashedOf(Tree, run'.entries)
        <3>1. PICK v \in SUBSET Phantoms(Tree) : run.entries = Scan(Tree, v)
            BY <1>1, <2>3 DEF KeyInv
        <3>2. run'.entries = HashPaths(Scan(Tree, v), Tree.disk)
            BY <2>1, <2>2, <3>1
        <3> QED BY <3>2 DEF HashedOf
    <2>4. ASSUME "scan" \notin stirred PROVE HashedOf(Tree', run'.entries)
        BY <2>2, <2>3, <2>4
    <2>5. ASSUME "scan" \notin stirred
          PROVE  run.anchor = repo.head /\ repo.operation = "none" /\ repo.unmerged = {}
        BY <1>1, <2>5 DEF KeyInv
    <2> QED BY <1>1, <2>1, <2>4, <2>5 DEF KeyInv, Resolved
<1> QED BY <1>2, <1>3 DEF HashTree

LEMMA KeyAtComparing == ASSUME RangeTypeOK, KeyInv, Compare PROVE KeyInv'
<1>1. DOMAIN run = RunFields /\ repo' = repo /\ stirred' = stirred /\ run.at = "compare"
    BY DEF RangeTypeOK, RunTypeOK, Compare
<1>2. ASSUME NEW why, Refuse(why) PROVE KeyInv'
    BY <1>1, <1>2, Refusals DEF KeyInv, Resolved
<1>3. CASE run' = [run EXCEPT !.at = "rung", !.rung = @ + 1]
    <2>1. run'.at = "rung"
        BY <1>1, <1>3 DEF RunFields
    <2> QED BY <2>1 DEF KeyInv, Resolved
<1>4. ASSUME NEW base,
             run' = [run EXCEPT !.at = "policy",
                       !.changed = Enumerate(base, Snapshot("incremental", run.anchor, run.entries)),
                       !.context = WireContext(base, Snapshot("incremental", run.anchor, run.entries))]
      PROVE  KeyInv'
    <2> DEFINE snapshot == Snapshot("incremental", run.anchor, run.entries)
    <2>1. /\ run'.at = "policy" /\ run'.changed = Enumerate(base, snapshot)
          /\ run'.context = WireContext(base, snapshot)
          /\ run'.request = run.request /\ run'.uncommitted = run.uncommitted
        BY <1>1, <1>4 DEF RunFields
    <2>2. HeadIsWorktree' = HeadIsWorktree
        BY <2>1, HeadStays
    <2>3. SUFFICES ASSUME "scan" \notin stirred, HeadIsWorktree
          PROVE  repo'.operation = "none" /\ repo'.unmerged = {} /\ KeyIsOfTheTree'
        BY <1>1, <2>1, <2>2 DEF KeyInv, Resolved
    <2>4. /\ run.anchor = repo.head /\ repo.operation = "none" /\ repo.unmerged = {}
          /\ HashedOf(Tree, run.entries)
        BY <1>1, <2>3 DEF KeyInv
    <2>5. run'.context.head = snapshot
        BY <2>1, <2>3 DEF WireContext, NoContext
    <2>6. snapshot.entries = run.entries /\ snapshot = Snapshot("incremental", repo.head, run.entries)
        BY <2>4 DEF Snapshot
    <2>7. \A p \in DOMAIN run'.changed \cap DOMAIN run.entries :
             IsSide(run'.changed[p], run.entries[p])
        BY <2>1, <2>3, EnumerateSides
    <2>8. HashedOf(Tree', run.entries)
        BY <1>1, <2>4, TreeStays
    <2> HIDE DEF snapshot
    <2>9. KeyIsOfTheTree'
        BY <1>1, <2>5, <2>6, <2>7, <2>8 DEF KeyIsOfTheTree
    <2> QED BY <1>1, <2>4, <2>9
<1> QED BY <1>2, <1>3, <1>4 DEF Compare

LEMMA KeyAtPolicy == ASSUME RangeTypeOK, KeyInv, LoadPolicy PROVE KeyInv'
<1>1. DOMAIN run = RunFields /\ repo' = repo /\ stirred' = stirred /\ run.at = "policy"
    BY DEF RangeTypeOK, RunTypeOK, LoadPolicy
<1>2. PICK policy, withheld :
          run' = [run EXCEPT !.at = "read", !.policy = policy, !.withheld = withheld,
                    !.changed = [p \in DOMAIN run.changed \ withheld |-> run.changed[p]]]
    BY DEF LoadPolicy
<1>3. /\ run'.at = "read" /\ run'.changed = [p \in DOMAIN run.changed \ withheld |-> run.changed[p]]
      /\ run'.request = run.request /\ run'.uncommitted = run.uncommitted
      /\ run'.context = run.context
    BY <1>1, <1>2 DEF RunFields
<1>4. HeadIsWorktree' = HeadIsWorktree /\ Tree' = Tree
    BY <1>1, <1>3, HeadStays, TreeStays
<1>5. SUFFICES ASSUME "scan" \notin stirred, HeadIsWorktree
      PROVE  repo'.operation = "none" /\ repo'.unmerged = {} /\ KeyIsOfTheTree'
    BY <1>1, <1>3, <1>4 DEF KeyInv, Resolved
<1>6. repo.operation = "none" /\ repo.unmerged = {} /\ KeyIsOfTheTree
    BY <1>1, <1>5 DEF KeyInv, Resolved
<1>7. KeyIsOfTheTree'
    BY <1>1, <1>3, <1>4, <1>6 DEF KeyIsOfTheTree
<1> QED BY <1>1, <1>6, <1>7

LEMMA KeyAtReading == ASSUME RangeTypeOK, KeyInv, ReadBytes PROVE KeyInv'
<1>1. DOMAIN run = RunFields /\ repo' = repo /\ stirred' = stirred /\ run.at = "read"
    BY DEF RangeTypeOK, RunTypeOK, ReadBytes
<1>2. \/ run' = [run EXCEPT !.at = "measured"]
      \/ \E unreadable : \E writes \in BOOLEAN :
           run' = [run EXCEPT !.at = "measured",
                     !.changed = ReadWithoutStaging(run.changed, repo.disk, writes).changed,
                     !.unreadable = unreadable]
    BY DEF ReadBytes
<1>3. /\ run'.at = "measured"
      /\ run'.request = run.request /\ run'.uncommitted = run.uncommitted
      /\ run'.context = run.context
      /\ \/ run'.changed = run.changed
         \/ \E writes \in BOOLEAN :
              run'.changed = ReadWithoutStaging(run.changed, repo.disk, writes).changed
    BY <1>1, <1>2 DEF RunFields
<1>4. HeadIsWorktree' = HeadIsWorktree /\ Tree' = Tree
    BY <1>1, <1>3, HeadStays, TreeStays
<1>5. SUFFICES ASSUME "scan" \notin stirred, HeadIsWorktree
      PROVE  repo'.operation = "none" /\ repo'.unmerged = {} /\ KeyIsOfTheTree'
    BY <1>1, <1>3, <1>4 DEF KeyInv, Resolved
<1>6. repo.operation = "none" /\ repo.unmerged = {} /\ KeyIsOfTheTree
    BY <1>1, <1>5 DEF KeyInv, Resolved
<1> DEFINE entries == run.context.head.entries
<1>7. \A p \in DOMAIN run'.changed \cap DOMAIN entries : IsSide(run'.changed[p], entries[p])
    <2>1. CASE run'.changed = run.changed
        BY <1>6, <2>1 DEF KeyIsOfTheTree
    <2>2. ASSUME NEW writes \in BOOLEAN,
                 run'.changed = ReadWithoutStaging(run.changed, repo.disk, writes).changed
          PROVE  \A p \in DOMAIN run'.changed \cap DOMAIN entries : IsSide(run'.changed[p], entries[p])
        <3>1. PICK v : entries = HashPaths(Scan(Tree, v), Tree.disk)
            BY <1>6 DEF KeyIsOfTheTree, HashedOf
        <3>2. AreTrees(Tree) /\ Tree.disk = repo.disk
            BY Trees3 DEF RangeTypeOK, Tree
        <3>3. \A p \in DOMAIN entries : entries[p].worktree_oid = Oid(repo.disk[p])
            BY <3>1, <3>2, HashedEntries
        <3>4. DOMAIN run'.changed = DOMAIN run.changed
            BY <2>2 DEF ReadWithoutStaging
        <3>5. \A p \in DOMAIN run.changed \cap DOMAIN entries : IsSide(run.changed[p], entries[p])
            BY <1>6 DEF KeyIsOfTheTree
        <3> HIDE DEF entries
        <3> QED BY <2>2, <3>3, <3>4, <3>5, ReadSides
    <2> QED BY <1>3, <2>1, <2>2
<1>8. KeyIsOfTheTree'
    BY <1>1, <1>3, <1>4, <1>6, <1>7 DEF KeyIsOfTheTree
<1> QED BY <1>1, <1>6, <1>8

LEMMA KeyElsewhere ==
    ASSUME RangeTypeOK, KeyInv,
           Start \/ InProgressOperation \/ ReadUncommitted \/ DirtyDeadEnd \/ LastMergedChange
    PROVE  KeyInv'
<1>1. DOMAIN run = RunFields /\ repo' = repo /\ stirred' = stirred
    BY DEF RangeTypeOK, RunTypeOK, Start, InProgressOperation, ReadUncommitted, DirtyDeadEnd,
           LastMergedChange
<1>2. ASSUME run'.at \in {"operation", "status", "rung", "refused"} PROVE KeyInv'
    BY <1>2 DEF KeyInv, Resolved
<1>3. ASSUME NEW why, Refuse(why) PROVE KeyInv'
    BY <1>1, <1>2, <1>3, Refusals
<1>4. CASE Start
    <2>1. run'.at = "operation"
        BY <1>4 DEF Start, NewRun
    <2> QED BY <1>2, <2>1
<1>5. CASE InProgressOperation
    <2>1. CASE run' = [run EXCEPT !.at = "status"]
        <3>1. run'.at = "status"
            BY <1>1, <2>1 DEF RunFields
        <3> QED BY <1>2, <3>1
    <2> QED BY <1>3, <1>5, <2>1 DEF InProgressOperation
<1>6. CASE ReadUncommitted
    <2>1. PICK seen : run' = [run EXCEPT !.at = "rung", !.uncommitted = seen]
        BY <1>6 DEF ReadUncommitted
    <2>2. run'.at = "rung"
        BY <1>1, <2>1 DEF RunFields
    <2> QED BY <1>2, <2>2
<1>7. CASE DirtyDeadEnd
    BY <1>3, <1>7 DEF DirtyDeadEnd
<1>8. CASE LastMergedChange
    <2>1. ASSUME NEW changed, NEW anchor, NEW context,
                 run' = [run EXCEPT !.at = "policy", !.anchor = anchor,
                                    !.changed = changed, !.context = context]
          PROVE  KeyInv'
        <3>1. run'.at = "policy" /\ run'.request = run.request /\ run'.uncommitted = run.uncommitted
            BY <1>1, <2>1 DEF RunFields
        <3>2. ~ HeadIsWorktree'
            BY <1>8, <3>1, HeadStays DEF LastMergedChange, HeadIsWorktree
        <3> QED BY <3>1, <3>2 DEF KeyInv, Resolved
    <2> DEFINE last ==
                   [base |-> Parent(HeadSpec), head_kind |-> "commit", head |-> HeadSpec,
                    base_resolution |-> "no-diff-fallback:last-merged-change",
                    substitution |-> IF run.uncommitted = {} THEN "nothing in flight"
                                     ELSE "work not described"]
    <2>2. \/ \E why : Refuse(why)
          \/ \E changed, anchor :
               run' = [run EXCEPT !.at = "policy", !.anchor = anchor,
                                  !.changed = changed, !.context = last]
        BY <1>8 DEF LastMergedChange
    <2> HIDE DEF last
    <2> QED BY <1>3, <2>1, <2>2
<1> QED BY <1>4, <1>5, <1>6, <1>7, <1>8

LEMMA KeyKept == ASSUME RangeTypeOK, KeyInv, [Next]_vars PROVE KeyInv'
<1>1. CASE Measure
    BY <1>1, KeyAtOpening, KeyAtScan, KeyAtSuspects, KeyAtHash, KeyAtComparing, KeyAtPolicy, KeyAtReading,
       KeyElsewhere DEF Measure, Resolve
<1>2. CASE Edit
    <2>1. run' = run /\ stirred' = IF run.at = "idle" THEN {} ELSE {"run", "scan"}
        BY <1>2, WhoMoves
    <2>2. CASE run.at = "idle"
        <3>1. run'.at = "idle"
            BY <2>1, <2>2
        <3> QED BY <3>1 DEF KeyInv, Resolved
    <2>3. CASE run.at # "idle"
        BY <2>1, <2>3 DEF KeyInv
    <2> QED BY <2>2, <2>3
<1>3. CASE UNCHANGED vars
    <2>1. repo' = repo /\ run' = run /\ stirred' = stirred
        BY <1>3 DEF vars
    <2>2. Tree' = Tree /\ HeadIsWorktree' = HeadIsWorktree
        BY <2>1, TreeStays, HeadStays
    <2>3. KeyIsOfTheTree' = KeyIsOfTheTree
        BY <2>1, <2>2 DEF KeyIsOfTheTree
    <2> QED BY <2>1, <2>2, <2>3 DEF KeyInv
<1> QED BY <1>1, <1>2, <1>3 DEF Next

LEMMA KeyHolds == Spec => [](RangeTypeOK /\ KeyInv)
<1>1. Init => RangeTypeOK /\ KeyInv
    <2> SUFFICES ASSUME Init PROVE RangeTypeOK /\ KeyInv
        OBVIOUS
    <2>1. run.at = "idle"
        BY DEF Init, NewRun
    <2> QED BY <2>1, RangeStarts DEF KeyInv, Resolved
<1>2. RangeTypeOK /\ KeyInv /\ [Next]_vars => (RangeTypeOK /\ KeyInv)'
    BY RangeTypesKept, KeyKept
<1> QED BY <1>1, <1>2, PTL DEF Spec

(* One tree, one key: as long as nobody edits after the range was opened,   *)
(* the head of an uncommitted record is the digest of the tree whatever     *)
(* git's stat cache vouched for, the bytes measured are the ones it names,  *)
(* and the full re-hash agrees (status.rs; resolve.rs wire_context).        *)
THEOREM OneTreeHasOneKey == Spec => []OneTreeOneKey
<1>1. RangeTypeOK /\ KeyInv => OneTreeOneKey
    <2> SUFFICES ASSUME RangeTypeOK, KeyInv, OfTheTree, "scan" \notin stirred
        PROVE  OneTreeOneKey
        BY DEF OneTreeOneKey, Settled
    <2>1. run.at \in Resolved /\ HeadIsWorktree
        <3>1. HeadIsWorktree \in BOOLEAN
            BY DEF HeadIsWorktree
        <3> QED BY <3>1 DEF RangeTypeOK, RunTypeOK, OfTheTree, Measured, Resolved
    <2>2. KeyIsOfTheTree
        BY <2>1 DEF KeyInv
    <2> DEFINE entries == run.context.head.entries
               again == HashPaths(Scan(Tree, {}), repo.disk)
    <2>3. /\ run.context.head = Snapshot("incremental", repo.head, entries)
          /\ HashedOf(Tree, entries)
          /\ \A p \in DOMAIN run.changed \cap DOMAIN entries : IsSide(run.changed[p], entries[p])
        BY <2>2 DEF KeyIsOfTheTree
    <2>4. AreTrees(Tree) /\ Tree.disk = repo.disk
        BY Trees3 DEF RangeTypeOK, Tree
    <2> HIDE DEF entries
    <2>5. /\ (\A p \in Paths : Absent \in {Tree.index[p], Tree.head[p]}
                                  \/ Mode(Tree.index[p]) = Mode(Tree.head[p]))
              => entries = again
          /\ \A p \in DOMAIN entries \cap DOMAIN FullRehash(Tree, repo.head).entries :
               FullRehash(Tree, repo.head).entries[p].worktree_oid = entries[p].worktree_oid
        BY <2>3, <2>4, OneDigest
    <2>6. Tree.index = repo.index
        BY DEF Tree
    <2>7. (\A p \in Paths : Absent \in {repo.index[p], Tree.head[p]}
                              \/ Mode(repo.index[p]) = Mode(Tree.head[p]))
          => run.context.head = Snapshot("incremental", repo.head, again)
        BY <2>3, <2>5, <2>6
    <2>8. \A p \in DOMAIN entries \cap DOMAIN run.changed :
             Readable(run.changed[p]) =>
               run.changed[p].dst_oid \in {entries[p].worktree_oid, entries[p].staged_oid}
        BY <2>3 DEF IsSide, Readable
    <2> HIDE DEF again
    <2> QED BY <2>5, <2>7, <2>8 DEF OneTreeOneKey, entries, again
<1> QED BY <1>1, KeyHolds, PTL

-----------------------------------------------------------------------------
(* THE RANGE IS THE WORK                                                    *)

Clean == Differs(TreeAt(repo.head), repo.disk) = {}
CleanIndex == Differs(TreeAt(repo.head), repo.index) = {}

(* Work in flight, and nothing half-finished, pinned or awkward in the way. *)
Work ==
    /\ run.request.head = NoCommit /\ ~run.request.last_merged /\ ~Explicit
    /\ repo.head # NoCommit /\ repo.operation = "none" /\ repo.unmerged = {}
    /\ ~Clean
    /\ Awkward = {}

OnlyCommit ==
    /\ Lineage(HeadSpec) = {HeadSpec}
    /\ run.request.head = NoCommit =>
         \A c \in Range(repo.refs) \cup {repo.head} : Lineage(c) \subseteq {HeadSpec}

(* What is said instead of a measurement is so.                             *)
AnswersAreSo ==
    /\ run.answer = "nothing git will diff" => Clean
    /\ run.answer = "no commit yet" => repo.head = NoCommit
    /\ run.answer = "no parent: single commit" => OnlyCommit

(* What holds of a measurement under which nobody has edited.               *)
Undisturbed ==
    /\ repo.operation # "none" =>
         run.at \in {"idle", "operation"} \/ run.answer = "operation in progress"
    /\ run.at \in Resolving \cup Resolved /\ run.uncommitted = {} => Clean /\ CleanIndex
    /\ Work => run.at \in {"idle", "operation", "status"} \/ (run.at # "refused" /\ HeadIsWorktree)
    /\ run.at = "rung" /\ run.rung > HeadRung /\ HeadIsWorktree /\ repo.head # NoCommit => Clean
    /\ AnswersAreSo
    /\ run.context.substitution = "nothing in flight" =>
         run.at \in Resolved /\ run.uncommitted = {}

QuietInv ==
    /\ "scan" \in stirred => "run" \in stirred
    /\ run.at \in {"operation", "status"} => run.rung = 1
    /\ run.request \in Requests
    /\ Quiet => Undisturbed

(* A commit whose parent this clone does not have is all there is of its    *)
(* line; and where one commit is all that is reachable, it is that one.     *)
LEMMA LoneCommit ==
    ASSUME NEW c \in Commits, Parent(c) = NoCommit
    PROVE  Lineage(c) = {c}
<1>1. c # NoCommit
    BY HistoryIsKnown
<1>2. {c} \in SUBSET Commits /\ {c} \ {NoCommit} \subseteq {c}
    OBVIOUS
<1>3. \A d \in {c} : Parent(d) \in {c} \cup {NoCommit}
    OBVIOUS
<1>4. Lineage(c) \subseteq {c}
    BY <1>2, <1>3 DEF Lineage
<1>5. c \in Lineage(c)
    BY <1>1 DEF Lineage
<1> QED BY <1>4, <1>5

LEMMA SingleCommit ==
    ASSUME RepoTypeOK, run.request \in Requests, HeadSpec # NoCommit, Parent(HeadSpec) = NoCommit,
           ~MoreThanOneCommit
    PROVE  OnlyCommit
<1>1. HeadSpec \in Commits
    BY WorldsAreRepositories DEF HeadSpec, RepoTypeOK
<1>2. Lineage(HeadSpec) = {HeadSpec}
    BY <1>1, LoneCommit
<1>3. ASSUME run.request.head = NoCommit, NEW c \in Range(repo.refs) \cup {repo.head},
             NEW x \in Lineage(c)
      PROVE  x = HeadSpec
    <2> DEFINE reached == UNION {Lineage(d) : d \in Range(repo.refs) \cup {repo.head}}
    <2>1. HeadSpec = repo.head
        BY <1>3 DEF HeadSpec
    <2>2. HeadSpec \in reached /\ x \in reached
        BY <1>2, <1>3, <2>1
    <2>3. reached \subseteq Commits
        BY DEF Lineage
    <2> HIDE DEF reached
    <2>4. IsFiniteSet(reached)
        BY <2>3, HistoryIsKnown, FS_Subset
    <2>5. ~(Cardinality(reached) > 1)
        BY DEF MoreThanOneCommit, reached
    <2>6. Cardinality(reached) \in Nat
        BY <2>4, FS_CardinalityType
    <2>7. ASSUME x # HeadSpec PROVE FALSE
        <3>1. {x, HeadSpec} \subseteq reached
            BY <2>2
        <3>2. Cardinality({x, HeadSpec}) <= Cardinality(reached)
            BY <2>4, <3>1, FS_Subset
        <3>3. IsFiniteSet({x}) /\ Cardinality({x}) = 1
            BY FS_Singleton
        <3>4. HeadSpec \notin {x} /\ {x} \cup {HeadSpec} = {x, HeadSpec}
            BY <2>7
        <3> DEFINE one == {x}
        <3>5. Cardinality({x} \cup {HeadSpec}) = 2
            <4>1. IsFiniteSet(one) /\ Cardinality(one) = 1 /\ HeadSpec \notin one
                BY <3>3, <3>4
            <4> HIDE DEF one
            <4>2. Cardinality(one \cup {HeadSpec}) = Cardinality(one) + 1
                BY <4>1, FS_AddElement
            <4> QED BY <4>1, <4>2 DEF one
        <3> QED BY <2>5, <2>6, <3>2, <3>4, <3>5
    <2> QED BY <2>7
<1> QED BY <1>2, <1>3 DEF OnlyCommit

LEMMA AsBefore ==
    ASSUME repo' = repo, run'.request = run.request
    PROVE  /\ Clean' <=> Clean
           /\ CleanIndex' <=> CleanIndex
           /\ Work' <=> Work
           /\ OnlyCommit' <=> OnlyCommit
<1>1. Clean' <=> Clean
    BY DEF Clean
<1>2. CleanIndex' <=> CleanIndex
    BY DEF CleanIndex
<1>3. Work' <=> Work
    BY <1>1 DEF Work, Explicit
<1>4. HeadSpec' = HeadSpec
    BY DEF HeadSpec
<1>5. \A c : Lineage(c)' = Lineage(c)
    BY DEF Lineage, Parent
<1>6. OnlyCommit' <=> OnlyCommit
    BY <1>4, <1>5 DEF OnlyCommit
<1> QED BY <1>1, <1>2, <1>3, <1>6

(* A refusal, in a repository with nothing half-finished unless it says so, *)
(* is right when there was no work to measure and its reason is so.         *)
LEMMA RightlyRefused ==
    ASSUME RangeTypeOK, Undisturbed, NEW why, Refuse(why), repo' = repo,
           run.at \in {"operation"} \cup Resolving,
           repo.operation # "none" => why = "operation in progress",
           ~Work,
           why = "nothing git will diff" => Clean,
           why = "no commit yet" => repo.head = NoCommit,
           why = "no parent: single commit" => OnlyCommit
    PROVE  Undisturbed'
<1>1. /\ run'.at = "refused" /\ run'.answer = why /\ run'.request = run.request
      /\ run'.context = run.context
    BY Refusals DEF RangeTypeOK, RunTypeOK
<1>2. run.context = NoContext
    BY DEF RangeTypeOK, RunTypeOK, Resolving, Resolved
<1>3. run'.context.substitution = "none"
    <2>1. NoContext.substitution = "none"
        BY DEF NoContext
    <2> QED BY <1>1, <1>2, <2>1
<1>4. /\ Clean' <=> Clean
      /\ Work' <=> Work
      /\ OnlyCommit' <=> OnlyCommit
    BY <1>1, AsBefore
<1>5. AnswersAreSo'
    BY <1>1, <1>4 DEF AnswersAreSo
<1> QED BY <1>1, <1>3, <1>4, <1>5 DEF Undisturbed, Resolving, Resolved

(* A step that goes on: what the head is was settled before it.             *)
LEMMA GoesOn ==
    ASSUME RangeTypeOK, Undisturbed, repo' = repo, run.at \in Resolving \cup Resolved,
           run'.request = run.request, run'.uncommitted = run.uncommitted,
           run'.answer = run.answer, run'.at \in Resolving \cup Resolved,
           run'.at = "rung" /\ run'.rung > HeadRung /\ HeadIsWorktree /\ repo.head # NoCommit => Clean,
           run'.context.substitution = "nothing in flight" =>
             run'.at \in Resolved /\ run.uncommitted = {}
    PROVE  Undisturbed'
<1>1. /\ Clean' <=> Clean
      /\ CleanIndex' <=> CleanIndex
      /\ Work' <=> Work
      /\ HeadIsWorktree' = HeadIsWorktree
    BY AsBefore, HeadStays
<1>2. run.answer = "none"
    BY DEF RangeTypeOK, RunTypeOK, Resolving, Resolved
<1>3. AnswersAreSo'
    BY <1>2 DEF AnswersAreSo
<1>4. run.at \notin {"idle", "operation", "status", "refused"}
    BY DEF Resolving, Resolved
<1>5. run'.at # "refused" /\ HeadRung' = HeadRung
    BY DEF Resolving, Resolved, HeadRung
<1>6. Work' => HeadIsWorktree'
    BY <1>1, <1>4 DEF Undisturbed
<1>7. repo'.operation = "none"
    BY <1>2, <1>4 DEF Undisturbed
<1> QED BY <1>1, <1>3, <1>5, <1>6, <1>7 DEF Undisturbed

(* Before the first status nothing is settled but the operation.            *)
LEMMA BeforeTheStatus ==
    ASSUME run'.at \in {"operation", "status"}, run'.answer = "none", run'.context = NoContext,
           run'.at = "status" => repo'.operation = "none"
    PROVE  Undisturbed'
<1>1. /\ run'.at \notin Resolving' \cup Resolved'
      /\ run'.at \in {"idle", "operation", "status"} /\ run'.at # "rung"
    BY DEF Resolving, Resolved
<1>2. run'.context.substitution = "none"
    BY DEF NoContext
<1>3. AnswersAreSo'
    BY DEF AnswersAreSo
<1> QED BY <1>1, <1>2, <1>3 DEF Undisturbed

LEMMA UndisturbedStart ==
    ASSUME RangeTypeOK, QuietInv, Quiet, Start \/ InProgressOperation \/ ReadUncommitted
    PROVE  Undisturbed'
<1>1. DOMAIN run = RunFields /\ repo' = repo /\ Undisturbed
    BY DEF RangeTypeOK, RunTypeOK, QuietInv, Start, InProgressOperation, ReadUncommitted
<1>2. CASE Start
    <2>1. run' = NewRun(run.request)
        BY <1>2 DEF Start
    <2>2. run'.at = "operation" /\ run'.answer = "none" /\ run'.context = NoContext
        BY <2>1 DEF NewRun
    <2> QED BY <2>2, BeforeTheStatus
<1>3. CASE InProgressOperation
    <2>1. CASE repo.operation # "none"
        <3>1. Refuse("operation in progress") /\ run.at = "operation"
            BY <1>3, <2>1 DEF InProgressOperation
        <3>2. ~Work
            BY <2>1 DEF Work
        <3> QED BY <1>1, <3>1, <3>2, RightlyRefused
    <2>2. CASE repo.operation = "none"
        <3>1. run' = [run EXCEPT !.at = "status"] /\ run.at = "operation"
            BY <1>3, <2>2 DEF InProgressOperation
        <3>2. /\ run'.at = "status" /\ run'.answer = run.answer /\ run'.context = run.context
            BY <1>1, <3>1 DEF RunFields
        <3>3. run.answer = "none" /\ run.context = NoContext
            BY <3>1 DEF RangeTypeOK, RunTypeOK, Resolved
        <3> QED BY <1>1, <2>2, <3>2, <3>3, BeforeTheStatus
    <2> QED BY <2>1, <2>2
<1>4. CASE ReadUncommitted
    <2>1. PICK vouched \in SUBSET Phantoms(Tree) :
             run' = [run EXCEPT !.at = "rung", !.uncommitted = UncommittedPaths(vouched)]
        BY <1>4 DEF ReadUncommitted
    <2>2. /\ run'.at = "rung" /\ run'.uncommitted = UncommittedPaths(vouched)
          /\ run'.rung = run.rung /\ run'.request = run.request
          /\ run'.answer = run.answer /\ run'.context = run.context
        BY <1>1, <2>1 DEF RunFields
    <2>3. run.at = "status" /\ run.rung = 1 /\ run.answer = "none" /\ run.context = NoContext
        BY <1>4 DEF ReadUncommitted, QuietInv, RangeTypeOK, RunTypeOK, Resolved
    <2>4. run'.context.substitution = "none"
        BY <2>2, <2>3 DEF NoContext
    <2>5. /\ Clean' <=> Clean
          /\ CleanIndex' <=> CleanIndex
          /\ Work' <=> Work
        BY <1>1, <2>2, AsBefore
    <2>6. /\ AreTrees(Tree) /\ Tree.head = TreeAt(repo.head)
          /\ Tree.index = repo.index /\ Tree.disk = repo.disk
        BY Trees3 DEF RangeTypeOK, Tree
    <2>7. run'.uncommitted = {} => Clean /\ CleanIndex
        BY <2>1, <2>2, <2>6, NothingIsReported DEF UncommittedPaths, Clean, CleanIndex
    <2>8. Work => HeadIsWorktree'
        BY <2>2, <2>7 DEF Work, HeadIsWorktree
    <2>9. repo'.operation = "none"
        BY <1>1, <2>3 DEF Undisturbed
    <2>10. ~(run'.rung > HeadRung')
        BY <2>2, <2>3, Rungs DEF HeadRung
    <2>11. AnswersAreSo'
        BY <2>2, <2>3 DEF AnswersAreSo
    <2> QED BY <2>2, <2>4, <2>5, <2>7, <2>8, <2>9, <2>10, <2>11 DEF Undisturbed, Resolving, Resolved
<1> QED BY <1>2, <1>3, <1>4

(* Work that was hashed can be hashed: nothing has been edited since.       *)
LEMMA WhatWasScannedIsThere ==
    ASSUME RangeTypeOK, NEW v \in SUBSET Phantoms(Tree), Awkward = {}
    PROVE  CanHash(ToHash(Scan(Tree, v)), repo.disk)
<1>1. AreTrees(Tree) /\ Tree.disk = repo.disk
    BY Trees3 DEF RangeTypeOK, Tree
<1>2. \A p \in ToHash(Scan(Tree, v)) : repo.disk[p] # Absent
    BY <1>1, EntriesAreRecords DEF ToHash, IsDeleted
<1> QED BY <1>2 DEF CanHash

LEMMA SuspectsAreThere ==
    ASSUME RangeTypeOK, NEW v \in SUBSET Phantoms(Tree), Awkward = {}
    PROVE  CanHash(Suspects(ParsePorcelain(Tree, v)), repo.disk)
<1>1. Tree.disk = repo.disk
    BY DEF Tree
<1>2. ASSUME NEW p \in Suspects(ParsePorcelain(Tree, v)) PROVE repo.disk[p] # Absent
    <2> DEFINE r == ParsePorcelain(Tree, v)[p]
    <2>1. p \in DOMAIN ParsePorcelain(Tree, v) /\ r.staged_oid # NoOid /\ r.worktree_mode # ABSENT_MODE
        BY <1>2 DEF Suspects, IsDeleted
    <2>2. p \in Untracked(Tree) => r.staged_oid = NoOid
        BY <2>1 DEF ParsePorcelain
    <2>3. p \notin Untracked(Tree) => r.worktree_mode = Mode(Tree.disk[p])
        BY <2>1 DEF ParsePorcelain
    <2> HIDE DEF r
    <2> QED BY <1>1, <2>1, <2>2, <2>3 DEF Mode
<1> QED BY <1>2 DEF CanHash

LEMMA UndisturbedRange ==
    ASSUME RangeTypeOK, KeyInv, Undisturbed, "scan" \notin stirred,
           OpenRange \/ ScanTree \/ ClearPhantoms \/ HashTree
    PROVE  Undisturbed'
<1>1. DOMAIN run = RunFields /\ repo' = repo /\ run.at \in Resolving
    BY DEF RangeTypeOK, RunTypeOK, OpenRange, ScanTree, ClearPhantoms, HashTree, Resolving
<1>2. /\ run.answer = "none" /\ run.context = NoContext
      /\ run.at \notin {"idle", "operation", "status", "refused"}
    BY <1>1 DEF RangeTypeOK, RunTypeOK, Resolving, Resolved
<1>3. repo.operation = "none" /\ (Work => HeadIsWorktree)
    BY <1>2 DEF Undisturbed
<1>4. run.context.substitution = "none"
    BY <1>2 DEF NoContext
<1>5. CASE OpenRange
    <2>1. CASE (IF HeadIsWorktree THEN repo.head ELSE HeadSpec) = NoCommit
        <3>1. Refuse("unknown revision")
            BY <1>3, <1>5, <2>1 DEF OpenRange
        <3>2. ~Work
            BY <1>3, <2>1 DEF Work
        <3> QED BY <1>1, <1>3, <3>1, <3>2, RightlyRefused
    <2>2. CASE (IF HeadIsWorktree THEN repo.head ELSE HeadSpec) # NoCommit
        <3>1. PICK tried, anchor :
                 run' = [run EXCEPT !.rung = NextRung, !.tried = tried, !.anchor = anchor,
                                    !.at = IF HeadIsWorktree THEN "scan" ELSE "compare"]
            BY <1>3, <1>5, <2>2 DEF OpenRange
        <3>2. /\ run'.at = IF HeadIsWorktree THEN "scan" ELSE "compare"
              /\ run'.request = run.request /\ run'.uncommitted = run.uncommitted
              /\ run'.answer = run.answer /\ run'.context = run.context
            BY <1>1, <3>1 DEF RunFields
        <3>3. run'.at \in {"scan", "compare"}
            BY <3>2
        <3> QED BY <1>1, <1>4, <3>2, <3>3, GoesOn DEF Resolving
    <2> QED BY <2>1, <2>2
<1>6. CASE ScanTree
    <2>1. CASE repo.unmerged # {}
        <3>1. Refuse("conflicted tree")
            BY <1>6, <2>1 DEF ScanTree
        <3>2. ~Work
            BY <2>1 DEF Work
        <3> QED BY <1>1, <1>3, <3>1, <3>2, RightlyRefused
    <2>2. CASE repo.unmerged = {}
        <3>1. PICK entries : run' = [run EXCEPT !.at = "suspects", !.entries = entries]
            BY <1>6, <2>2 DEF ScanTree
        <3>2. /\ run'.at = "suspects"
              /\ run'.request = run.request /\ run'.uncommitted = run.uncommitted
              /\ run'.answer = run.answer /\ run'.context = run.context
            BY <1>1, <3>1 DEF RunFields
        <3> QED BY <1>1, <1>4, <3>2, GoesOn DEF Resolving
    <2> QED BY <2>1, <2>2
<1>7. CASE HashTree
    <2>1. CASE ~CanHash(ToHash(run.entries), repo.disk)
        <3>1. Refuse("hash failed")
            BY <1>7, <2>1 DEF HashTree
        <3>2. PICK v \in SUBSET Phantoms(Tree) : run.entries = Scan(Tree, v)
            BY <1>7 DEF HashTree, KeyInv
        <3>3. ~Work
            BY <2>1, <3>2, WhatWasScannedIsThere DEF Work
        <3> QED BY <1>1, <1>3, <3>1, <3>3, RightlyRefused
    <2>2. CASE CanHash(ToHash(run.entries), repo.disk)
        <3>1. PICK entries : run' = [run EXCEPT !.at = "compare", !.entries = entries]
            BY <1>7, <2>2 DEF HashTree
        <3>2. /\ run'.at = "compare"
              /\ run'.request = run.request /\ run'.uncommitted = run.uncommitted
              /\ run'.answer = run.answer /\ run'.context = run.context
            BY <1>1, <3>1 DEF RunFields
        <3> QED BY <1>1, <1>4, <3>2, GoesOn DEF Resolving
    <2> QED BY <2>1, <2>2
<1>8. CASE ClearPhantoms
    <2>1. CASE ~CanHash(Suspects(run.entries), repo.disk)
        <3>1. Refuse("hash failed")
            BY <1>8, <2>1 DEF ClearPhantoms
        <3>2. PICK v \in SUBSET Phantoms(Tree) : run.entries = ParsePorcelain(Tree, v)
            BY <1>8 DEF ClearPhantoms, KeyInv
        <3>3. ~Work
            BY <2>1, <3>2, SuspectsAreThere DEF Work
        <3> QED BY <1>1, <1>3, <3>1, <3>3, RightlyRefused
    <2>2. CASE CanHash(Suspects(run.entries), repo.disk)
        <3>1. PICK entries : run' = [run EXCEPT !.at = "hash", !.entries = entries]
            BY <1>8, <2>2 DEF ClearPhantoms
        <3>2. /\ run'.at = "hash"
              /\ run'.request = run.request /\ run'.uncommitted = run.uncommitted
              /\ run'.answer = run.answer /\ run'.context = run.context
            BY <1>1, <3>1 DEF RunFields
        <3> QED BY <1>1, <1>4, <3>2, GoesOn DEF Resolving
    <2> QED BY <2>1, <2>2
<1> QED BY <1>5, <1>6, <1>7, <1>8

(* At the last rung the base is the commit the tree sits on, and a snapshot *)
(* with no entry is one of a tree with no work in it.                       *)
LEMMA LastRungIsTheTree ==
    ASSUME RangeTypeOK, KeyInv, "scan" \notin stirred, run.at = "compare", run.rung = HeadRung,
           HeadIsWorktree, ~Explicit, repo.head # NoCommit,
           \/ BaseCommit = NoCommit
           \/ DOMAIN Enumerate(BaseCommit, Snapshot("incremental", run.anchor, run.entries)) = {}
    PROVE  Clean
<1>1. run.anchor = repo.head /\ HashedOf(Tree, run.entries)
    BY DEF KeyInv
<1>2. BaseCommit = repo.head
    BY DEF BaseCommit
<1>3. Enumerate(BaseCommit, Snapshot("incremental", run.anchor, run.entries))
        = FromSnapshot(Snapshot("incremental", run.anchor, run.entries))
    BY <1>1, <1>2 DEF Enumerate
<1>4. DOMAIN FromSnapshot(Snapshot("incremental", run.anchor, run.entries)) = DOMAIN run.entries
    BY DEF FromSnapshot, Snapshot
<1>5. DOMAIN run.entries = {}
    BY <1>2, <1>3, <1>4
<1>6. AreTrees(Tree) /\ Tree.head = TreeAt(repo.head) /\ Tree.disk = repo.disk
    BY Trees3 DEF RangeTypeOK, Tree
<1> QED BY <1>1, <1>5, <1>6, WorkIsHashed DEF Clean

LEMMA UndisturbedCompare ==
    ASSUME RangeTypeOK, KeyInv, Undisturbed, "scan" \notin stirred, Compare
    PROVE  Undisturbed'
<1> DEFINE snapshot == Snapshot("incremental", run.anchor, run.entries)
<1>1. DOMAIN run = RunFields /\ repo' = repo /\ run.at = "compare" /\ run.at \in Resolving
    BY DEF RangeTypeOK, RunTypeOK, Compare, Resolving
<1>2. run.answer = "none" /\ run.context = NoContext /\ run.rung \in Nat /\ run.rung <= HeadRung
    BY <1>1 DEF RangeTypeOK, RunTypeOK, Resolved
<1>3. repo.operation = "none"
    BY <1>1, <1>2 DEF Undisturbed
<1>4. NoContext.substitution = "none"
    BY DEF NoContext
<1>5. CASE Explicit /\ BaseCommit = NoCommit
    <2>1. PICK why : Refuse(why) /\ why \in {"no merge base", "unknown revision"}
        BY <1>5 DEF Compare
    <2>2. ~Work
        BY <1>5 DEF Work
    <2> QED BY <1>1, <1>3, <2>1, <2>2, RightlyRefused
<1>6. CASE ~Explicit /\ (BaseCommit = NoCommit \/ DOMAIN Enumerate(BaseCommit, snapshot) = {})
    <2>1. run' = [run EXCEPT !.at = "rung", !.rung = @ + 1]
        BY <1>6 DEF Compare
    <2>2. /\ run'.at = "rung" /\ run'.rung = run.rung + 1
          /\ run'.request = run.request /\ run'.uncommitted = run.uncommitted
          /\ run'.answer = run.answer /\ run'.context = run.context
        BY <1>1, <2>1 DEF RunFields
    <2>3. ASSUME run'.rung > HeadRung, HeadIsWorktree, repo.head # NoCommit PROVE Clean
        <3>1. run.rung = HeadRung
            BY <1>2, <2>2, <2>3, Rungs
        <3> QED BY <1>1, <1>6, <2>3, <3>1, LastRungIsTheTree
    <2> QED BY <1>1, <1>2, <1>4, <2>2, <2>3, GoesOn DEF Resolving
<1>7. CASE BaseCommit # NoCommit /\ (Explicit \/ DOMAIN Enumerate(BaseCommit, snapshot) # {})
    <2>1. run' = [run EXCEPT !.at = "policy", !.changed = Enumerate(BaseCommit, snapshot),
                             !.context = WireContext(BaseCommit, snapshot)]
        BY <1>7 DEF Compare
    <2>2. /\ run'.at = "policy" /\ run'.context = WireContext(BaseCommit, snapshot)
          /\ run'.request = run.request /\ run'.uncommitted = run.uncommitted
          /\ run'.answer = run.answer
        BY <1>1, <2>1 DEF RunFields
    <2>3. WireContext(BaseCommit, snapshot).substitution = "none"
        BY DEF WireContext, NoContext
    <2>4. run'.at \in Resolving \cup Resolved /\ run'.at # "rung"
        BY <2>2 DEF Resolved
    <2> QED BY <1>1, <2>2, <2>3, <2>4, GoesOn
<1> QED BY <1>5, <1>6, <1>7

LEMMA UndisturbedEnd ==
    ASSUME RangeTypeOK, QuietInv, Undisturbed, DirtyDeadEnd \/ LastMergedChange
    PROVE  Undisturbed'
<1>1. /\ DOMAIN run = RunFields /\ repo' = repo /\ run.at = "rung" /\ run.at \in Resolving
      /\ NextRung > HeadRung
    BY DEF RangeTypeOK, RunTypeOK, DirtyDeadEnd, LastMergedChange, Resolving
<1>2. run.answer = "none" /\ run.context = NoContext
    BY <1>1 DEF RangeTypeOK, RunTypeOK, Resolved
<1>3. repo.operation = "none"
    BY <1>1, <1>2 DEF Undisturbed
<1>4. HeadIsWorktree /\ repo.head # NoCommit => Clean
    BY <1>1, NextRungs DEF RangeTypeOK, Undisturbed
<1>5. ~Work
    BY <1>1, <1>4 DEF Undisturbed, Work
<1>6. ASSUME NEW why, Refuse(why),
             why = "nothing git will diff" => Clean,
             why = "no commit yet" => repo.head = NoCommit,
             why = "no parent: single commit" => OnlyCommit
      PROVE  Undisturbed'
    BY <1>1, <1>3, <1>5, <1>6, RightlyRefused
<1>7. CASE DirtyDeadEnd
    <2>1. run.uncommitted # {} /\ ~run.request.last_merged
        BY <1>7 DEF DirtyDeadEnd
    <2>2. CASE run.request.head # NoCommit
        <3>1. Refuse("head pinned")
            BY <1>7, <2>2 DEF DirtyDeadEnd
        <3> QED BY <1>6, <3>1
    <2>3. CASE run.request.head = NoCommit /\ repo.head # NoCommit
        <3>1. Refuse("nothing git will diff")
            BY <1>7, <2>3 DEF DirtyDeadEnd
        <3>2. Clean
            BY <1>4, <2>1, <2>3 DEF HeadIsWorktree
        <3> QED BY <1>6, <3>1, <3>2
    <2>4. CASE run.request.head = NoCommit /\ repo.head = NoCommit
        <3>1. Refuse("no commit yet")
            BY <1>7, <2>4 DEF DirtyDeadEnd
        <3> QED BY <1>6, <2>4, <3>1
    <2> QED BY <2>2, <2>3, <2>4
<1>8. CASE LastMergedChange
    <2>1. CASE HeadSpec = NoCommit
        <3>1. Refuse("unknown revision")
            BY <1>8, <2>1 DEF LastMergedChange
        <3> QED BY <1>6, <3>1
    <2>2. CASE HeadSpec # NoCommit /\ Parent(HeadSpec) = NoCommit
        <3>1. PICK why : /\ Refuse(why)
                         /\ why \in {"no parent: shallow", "no parent: other commits",
                                     "no parent: single commit"}
                         /\ why = "no parent: single commit" => ~MoreThanOneCommit
            <4>1. Refuse(IF repo.shallow # {} THEN "no parent: shallow"
                         ELSE IF MoreThanOneCommit THEN "no parent: other commits"
                         ELSE "no parent: single commit")
                BY <1>8, <2>2 DEF LastMergedChange
            <4>2. CASE repo.shallow # {}
                <5>1. Refuse("no parent: shallow")
                    BY <4>1, <4>2
                <5>2. "no parent: shallow" # "no parent: single commit"
                    OBVIOUS
                <5> WITNESS "no parent: shallow"
                <5> QED BY <5>1, <5>2
            <4>3. CASE repo.shallow = {} /\ MoreThanOneCommit
                <5>1. Refuse("no parent: other commits")
                    BY <4>1, <4>3
                <5>2. "no parent: other commits" # "no parent: single commit"
                    OBVIOUS
                <5> WITNESS "no parent: other commits"
                <5> QED BY <5>1, <5>2
            <4>4. CASE repo.shallow = {} /\ ~MoreThanOneCommit
                BY <4>1, <4>4
            <4> QED BY <4>2, <4>3, <4>4
        <3>2. why = "no parent: single commit" => OnlyCommit
            BY <2>2, <3>1, SingleCommit DEF RangeTypeOK, QuietInv
        <3> QED BY <1>6, <3>1, <3>2
    <2>3. CASE HeadSpec # NoCommit /\ Parent(HeadSpec) # NoCommit /\ run.request.no_fallback
        <3>1. Refuse("no working change")
            BY <1>8, <2>3 DEF LastMergedChange
        <3> QED BY <1>6, <3>1
    <2>4. CASE HeadSpec # NoCommit /\ Parent(HeadSpec) # NoCommit /\ ~run.request.no_fallback
        <3> DEFINE last ==
                   [base |-> Parent(HeadSpec), head_kind |-> "commit", head |-> HeadSpec,
                    base_resolution |-> "no-diff-fallback:last-merged-change",
                    substitution |-> IF run.uncommitted = {} THEN "nothing in flight"
                                     ELSE "work not described"]
        <3>1. PICK changed, anchor :
                 run' = [run EXCEPT !.at = "policy", !.anchor = anchor,
                                    !.changed = changed, !.context = last]
            BY <1>3, <1>8, <2>4 DEF LastMergedChange
        <3>2. last.substitution = "nothing in flight" => run.uncommitted = {}
            OBVIOUS
        <3> HIDE DEF last
        <3>3. /\ run'.at = "policy" /\ run'.context = last
              /\ run'.request = run.request /\ run'.uncommitted = run.uncommitted
              /\ run'.answer = run.answer
            BY <1>1, <3>1 DEF RunFields
        <3>4. run'.at \in Resolved /\ run'.at # "rung"
            BY <3>3 DEF Resolved
        <3> QED BY <1>1, <3>2, <3>3, <3>4, GoesOn
    <2> QED BY <2>1, <2>2, <2>3, <2>4
<1> QED BY <1>7, <1>8

LEMMA UndisturbedAfter ==
    ASSUME RangeTypeOK, Undisturbed, LoadPolicy \/ ReadBytes
    PROVE  Undisturbed'
<1>1. DOMAIN run = RunFields /\ repo' = repo /\ run.at \in Resolved
    BY DEF RangeTypeOK, RunTypeOK, LoadPolicy, ReadBytes, Resolved
<1>2. /\ run'.at \in {"read", "measured"}
      /\ run'.request = run.request /\ run'.uncommitted = run.uncommitted
      /\ run'.context = run.context /\ run'.answer = run.answer
    <2>1. CASE LoadPolicy
        <3>1. PICK policy, withheld, changed :
                 run' = [run EXCEPT !.at = "read", !.policy = policy, !.withheld = withheld,
                                    !.changed = changed]
            BY <2>1 DEF LoadPolicy
        <3> QED BY <1>1, <3>1 DEF RunFields
    <2>2. CASE ReadBytes
        <3>1. \/ run' = [run EXCEPT !.at = "measured"]
              \/ \E changed, unreadable :
                   run' = [run EXCEPT !.at = "measured", !.changed = changed,
                                      !.unreadable = unreadable]
            BY <2>2 DEF ReadBytes
        <3> QED BY <1>1, <3>1 DEF RunFields
    <2> QED BY <2>1, <2>2
<1>3. run'.at \in Resolved /\ run'.at # "rung"
    BY <1>2 DEF Resolved
<1>4. run.context.substitution = "nothing in flight" => run.uncommitted = {}
    BY DEF Undisturbed
<1> QED BY <1>1, <1>2, <1>3, <1>4, GoesOn

(* The request stays what it was, and the first two stages are past.        *)
MovedOn == run'.request = run.request /\ run'.at \notin {"operation", "status"}

(* The invariant but for its last part.                                     *)
LEMMA QuietTypes ==
    ASSUME RangeTypeOK, QuietInv, [Next]_vars
    PROVE  /\ "scan" \in stirred' => "run" \in stirred'
           /\ run'.at \in {"operation", "status"} => run'.rung = 1
           /\ run'.request \in Requests
<1>1. DOMAIN run = RunFields
    BY DEF RangeTypeOK, RunTypeOK
<1>2. CASE UNCHANGED vars
    BY <1>2 DEF vars, QuietInv
<1>3. CASE Edit
    <2>1. run' = run /\ stirred' \in {{}, {"run", "scan"}}
        BY <1>3, WhoMoves
    <2> QED BY <2>1 DEF QuietInv
<1>4. CASE Measure
    <2>1. stirred' \in {stirred, stirred \ {"scan"}}
        BY <1>4 DEF Measure, Resolve, Start, InProgressOperation, ReadUncommitted, OpenRange,
                    ScanTree, ClearPhantoms, HashTree, Compare, DirtyDeadEnd, LastMergedChange, LoadPolicy, ReadBytes
    <2>2. run'.request = run.request /\ (run'.at \in {"operation", "status"} => run'.rung = 1)
        <3>1. ASSUME NEW why, Refuse(why)
              PROVE  MovedOn
            BY <1>1, <3>1, Refusals DEF MovedOn
        <3>2. CASE Start
            BY <3>2 DEF Start, NewRun
        <3>3. CASE InProgressOperation
            <4>1. CASE run' = [run EXCEPT !.at = "status"]
                <5>1. run'.request = run.request /\ run'.rung = run.rung
                    BY <1>1, <4>1 DEF RunFields, MovedOn
                <5> QED BY <3>3, <5>1 DEF InProgressOperation, QuietInv
            <4> QED BY <3>1, <3>3, <4>1 DEF InProgressOperation, MovedOn
        <3>4. CASE ReadUncommitted
            <4>1. PICK seen : run' = [run EXCEPT !.at = "rung", !.uncommitted = seen]
                BY <3>4 DEF ReadUncommitted
            <4> QED BY <1>1, <4>1 DEF RunFields, MovedOn
        <3>5. ASSUME OpenRange PROVE MovedOn
            <4>1. ASSUME NEW tried, NEW anchor,
                         run' = [run EXCEPT !.rung = NextRung, !.tried = tried, !.anchor = anchor,
                                            !.at = IF HeadIsWorktree THEN "scan" ELSE "compare"]
                  PROVE  MovedOn
                <5>1. /\ run'.request = run.request
                      /\ run'.at = IF HeadIsWorktree THEN "scan" ELSE "compare"
                    BY <1>1, <4>1 DEF RunFields, MovedOn
                <5> QED BY <5>1 DEF MovedOn
            <4> QED BY <3>1, <3>5, <4>1, ZenonT(60) DEF OpenRange
        <3>6. ASSUME ScanTree PROVE MovedOn
            <4>1. ASSUME NEW entries, run' = [run EXCEPT !.at = "suspects", !.entries = entries]
                  PROVE  MovedOn
                BY <1>1, <4>1 DEF RunFields, MovedOn
            <4> QED BY <3>1, <3>6, <4>1 DEF ScanTree
        <3>14. ASSUME ClearPhantoms PROVE MovedOn
            <4>1. ASSUME NEW entries, run' = [run EXCEPT !.at = "hash", !.entries = entries]
                  PROVE  MovedOn
                BY <1>1, <4>1 DEF RunFields, MovedOn
            <4> QED BY <3>1, <3>14, <4>1 DEF ClearPhantoms
        <3>7. ASSUME HashTree PROVE MovedOn
            <4>1. ASSUME NEW entries, run' = [run EXCEPT !.at = "compare", !.entries = entries]
                  PROVE  MovedOn
                BY <1>1, <4>1 DEF RunFields, MovedOn
            <4> QED BY <3>1, <3>7, <4>1 DEF HashTree
        <3>8. ASSUME Compare PROVE MovedOn
            <4>1. CASE run' = [run EXCEPT !.at = "rung", !.rung = @ + 1]
                BY <1>1, <4>1 DEF RunFields, MovedOn
            <4>2. ASSUME NEW changed, NEW context,
                         run' = [run EXCEPT !.at = "policy", !.changed = changed, !.context = context]
                  PROVE  MovedOn
                BY <1>1, <4>2 DEF RunFields, MovedOn
            <4> QED BY <3>1, <3>8, <4>1, <4>2 DEF Compare
        <3>9. ASSUME DirtyDeadEnd PROVE MovedOn
            BY <3>1, <3>9 DEF DirtyDeadEnd
        <3>10. ASSUME LastMergedChange PROVE MovedOn
            <4>1. ASSUME NEW changed, NEW anchor, NEW context,
                         run' = [run EXCEPT !.at = "policy", !.anchor = anchor,
                                            !.changed = changed, !.context = context]
                  PROVE  MovedOn
                BY <1>1, <4>1 DEF RunFields, MovedOn
            <4> DEFINE last ==
                   [base |-> Parent(HeadSpec), head_kind |-> "commit", head |-> HeadSpec,
                    base_resolution |-> "no-diff-fallback:last-merged-change",
                    substitution |-> IF run.uncommitted = {} THEN "nothing in flight"
                                     ELSE "work not described"]
            <4>2. \/ \E why : Refuse(why)
                  \/ \E changed, anchor :
                       run' = [run EXCEPT !.at = "policy", !.anchor = anchor,
                                          !.changed = changed, !.context = last]
                BY <3>10 DEF LastMergedChange
            <4> HIDE DEF last
            <4> QED BY <3>1, <4>1, <4>2
        <3>11. ASSUME LoadPolicy PROVE MovedOn
            <4>1. PICK policy, withheld, changed :
                     run' = [run EXCEPT !.at = "read", !.policy = policy, !.withheld = withheld,
                                        !.changed = changed]
                BY <3>11 DEF LoadPolicy
            <4> QED BY <1>1, <4>1 DEF RunFields, MovedOn
        <3>12. ASSUME ReadBytes PROVE MovedOn
            <4>1. \/ run' = [run EXCEPT !.at = "measured"]
                  \/ \E changed, unreadable :
                       run' = [run EXCEPT !.at = "measured", !.changed = changed,
                                          !.unreadable = unreadable]
                BY <3>12 DEF ReadBytes
            <4> QED BY <1>1, <4>1 DEF RunFields, MovedOn
        <3> QED BY <1>4, <3>2, <3>3, <3>4, <3>5, <3>6, <3>7, <3>8, <3>9, <3>10, <3>11, <3>12, <3>14
                DEF Measure, Resolve, MovedOn
    <2> QED BY <2>1, <2>2 DEF QuietInv
<1> QED BY <1>2, <1>3, <1>4 DEF Next

LEMMA QuietKept ==
    ASSUME RangeTypeOK, KeyInv, QuietInv, [Next]_vars
    PROVE  QuietInv'
<1>1. ASSUME Quiet' PROVE Undisturbed'
    <2>1. CASE Measure
        <3>1. stirred' \in {stirred, stirred \ {"scan"}}
            BY <2>1 DEF Measure, Resolve, Start, InProgressOperation, ReadUncommitted, OpenRange,
                        ScanTree, ClearPhantoms, HashTree, Compare, DirtyDeadEnd, LastMergedChange, LoadPolicy,
                        ReadBytes
        <3>2. Quiet /\ "scan" \notin stirred
            BY <1>1, <3>1 DEF Quiet, QuietInv, RangeTypeOK
        <3>3. Undisturbed
            BY <3>2 DEF QuietInv
        <3> QED BY <2>1, <3>2, <3>3, UndisturbedStart, UndisturbedRange, UndisturbedCompare,
                   UndisturbedEnd, UndisturbedAfter DEF Measure, Resolve
    <2>2. CASE Edit
        <3>1. run' = run /\ stirred' = IF run.at = "idle" THEN {} ELSE {"run", "scan"}
            BY <2>2, WhoMoves
        <3>2. run'.at = "idle"
            BY <1>1, <3>1 DEF Quiet
        <3>3. run'.answer = "none" /\ run'.context = NoContext
            BY <3>1, <3>2 DEF RangeTypeOK, RunTypeOK, Resolved
        <3>4. run'.context.substitution = "none"
            BY <3>3 DEF NoContext
        <3>5. AnswersAreSo'
            BY <3>3 DEF AnswersAreSo
        <3> QED BY <3>2, <3>4, <3>5 DEF Undisturbed, Resolving, Resolved
    <2>3. CASE UNCHANGED vars
        <3>1. repo' = repo /\ run' = run /\ stirred' = stirred
            BY <2>3 DEF vars
        <3>2. Undisturbed
            BY <1>1, <3>1 DEF Quiet, QuietInv
        <3>3. /\ Clean' <=> Clean
              /\ CleanIndex' <=> CleanIndex
              /\ Work' <=> Work
              /\ OnlyCommit' <=> OnlyCommit
              /\ HeadIsWorktree' = HeadIsWorktree
            BY <3>1, AsBefore, HeadStays
        <3>4. AnswersAreSo'
            BY <3>1, <3>2, <3>3 DEF AnswersAreSo, Undisturbed
        <3>5. HeadRung' = HeadRung /\ Resolving' = Resolving /\ Resolved' = Resolved
            BY DEF HeadRung, Resolving, Resolved
        <3> QED BY <3>1, <3>2, <3>3, <3>4, <3>5 DEF Undisturbed
    <2> QED BY <2>1, <2>2, <2>3 DEF Next
<1> QED BY <1>1, QuietTypes DEF QuietInv

LEMMA RangeIsTold ==
    ASSUME RangeTypeOK, KeyInv, QuietInv
    PROVE  RangeIsTheWork
<1>1. HalfFinishedIsRefused
    <2>1. Quiet /\ repo.operation # "none" /\ run.at \in {"measured", "refused"}
          => run.answer = "operation in progress"
        BY DEF QuietInv, Undisturbed
    <2>2. ASSUME OfTheTree, "scan" \notin stirred
          PROVE  repo.unmerged = {} /\ repo.operation = "none"
        <3>1. HeadIsWorktree \in BOOLEAN
            BY DEF HeadIsWorktree
        <3>2. run.at \in Resolved /\ HeadIsWorktree
            BY <2>2, <3>1 DEF RangeTypeOK, RunTypeOK, OfTheTree, Measured, Resolved
        <3> QED BY <2>2, <3>2 DEF KeyInv
    <2> QED BY <2>1, <2>2 DEF HalfFinishedIsRefused, Settled
<1>2. WorkIsMeasured
    <2>1. ASSUME run.at \in {"measured", "refused"}, Quiet, Work
          PROVE  OfTheTree /\ run.uncommitted # {}
        <3>1. run.at = "measured" /\ HeadIsWorktree
            BY <2>1 DEF QuietInv, Undisturbed
        <3>2. run.context.head_kind = "uncommitted-worktree"
            BY <3>1 DEF RangeTypeOK, RunTypeOK, Resolved
        <3> QED BY <3>1, <3>2 DEF OfTheTree, Measured, HeadIsWorktree
    <2>2. ASSUME Quiet
          PROVE  /\ AnswersAreSo
                 /\ run.context.substitution = "nothing in flight" => Clean /\ CleanIndex
        BY <2>2 DEF QuietInv, Undisturbed
    <2> QED BY <2>1, <2>2 DEF WorkIsMeasured, Work, Clean, CleanIndex, AnswersAreSo, OnlyCommit
<1> QED BY <1>1, <1>2 DEF RangeIsTheWork

(* The range is the work in flight: for every request, refs and stat cache, *)
(* an undisturbed working change is measured as one, a half-finished        *)
(* operation is refused as what it is, and a refusal or a substitution says *)
(* only what is so (resolve.rs, its HEAD rung and its dead ends).           *)
THEOREM RangeIsAlwaysTheWork == Spec => []RangeIsTheWork
<1>1. Init => QuietInv
    <2> SUFFICES ASSUME Init PROVE QuietInv
        OBVIOUS
    <2>1. PICK r \in Requests : run = [NewRun(r) EXCEPT !.at = "idle"]
        BY DEF Init
    <2>2. /\ run.at = "idle" /\ run.request = r /\ run.answer = "none" /\ run.context = NoContext
        BY <2>1 DEF NewRun
    <2>3. run.context.substitution = "none"
        BY <2>2 DEF NoContext
    <2>4. AnswersAreSo
        BY <2>2 DEF AnswersAreSo
    <2>5. Undisturbed
        BY <2>2, <2>3, <2>4 DEF Undisturbed, Resolving, Resolved
    <2> QED BY <2>2, <2>5 DEF Init, QuietInv
<1>2. RangeTypeOK /\ KeyInv /\ QuietInv /\ [Next]_vars => QuietInv'
    BY QuietKept
<1>3. RangeTypeOK /\ KeyInv /\ QuietInv => RangeIsTheWork
    BY RangeIsTold
<1> QED BY <1>1, <1>2, <1>3, KeyHolds, PTL DEF Spec

-----------------------------------------------------------------------------
(* SEQUENCES AND THE THREE RECURSIVE FUNCTIONS OF THE CHANGE                *)

(* The three recursive functions of the change do what they say.            *)
PathsUpTo == Cardinality(Paths)

LEMMA PathsAreNumbers == PathsUpTo \in Nat /\ Paths = 1 .. PathsUpTo
BY PathsAreOrdered, FS_CardinalityType DEF PathsUpTo

Ordering(parts, f) ==
    f = [n \in 0 .. PathsUpTo |->
           IF n = 0 THEN <<>>
           ELSE IF n \in DOMAIN parts THEN f[n - 1] \o parts[n] ELSE f[n - 1]]

Parsing(stream, f) ==
    f = [n \in 0 .. Len(stream) |->
           IF n = 0 THEN NothingParsed ELSE TakeRecord(f[n - 1], stream[n])]

Replaying(tree, overlay, f) ==
    f = [n \in 0 .. Len(overlay) |->
           IF n = 0 THEN tree ELSE ApplyOverlayEntry(f[n - 1], overlay[n])]

LEMMA InOrderUnrolled ==
    ASSUME NEW parts
    PROVE  \E f : Ordering(parts, f) /\ InOrder(parts) = f[PathsUpTo]
<1> DEFINE Step(x, n) == IF n \in DOMAIN parts THEN x \o parts[n] ELSE x
           Rec(f, m) == f = [n \in 0 .. m |-> IF n = 0 THEN <<>> ELSE Step(f[n - 1], n)]
           S == {m \in Nat : \E f : Rec(f, m)}
<1>1. 0 \in S
    <2>1. Rec([n \in 0 .. 0 |-> <<>>], 0)
        OBVIOUS
    <2> QED BY <2>1
<1>2. ASSUME NEW m \in Nat, m \in S PROVE m + 1 \in S
    <2>1. PICK f : Rec(f, m)
        BY <1>2
    <2> HIDE DEF Step
    <2> DEFINE g == [n \in 0 .. m + 1 |-> IF n = m + 1 THEN Step(f[m], n) ELSE f[n]]
    <2>2. ASSUME NEW n \in 0 .. m + 1
          PROVE  g[n] = IF n = 0 THEN <<>> ELSE Step(g[n - 1], n)
        <3>1. CASE n = m + 1
            <4>1. n # 0 /\ n - 1 = m /\ g[m] = f[m]
                BY <3>1
            <4> QED BY <3>1, <4>1
        <3>2. CASE n # m + 1
            <4>1. n \in 0 .. m /\ g[n] = f[n] /\ (n # 0 => n - 1 \in 0 .. m /\ g[n - 1] = f[n - 1])
                BY <3>2
            <4>2. f[n] = IF n = 0 THEN <<>> ELSE Step(f[n - 1], n)
                BY <2>1, <4>1
            <4> HIDE DEF g
            <4> QED BY <4>1, <4>2
        <3> QED BY <3>1, <3>2
    <2>3. Rec(g, m + 1)
        BY <2>2
    <2> HIDE DEF g
    <2>4. \E h : Rec(h, m + 1)
        BY <2>3
    <2> HIDE DEF Rec
    <2> QED BY <2>4
<1>3. PICK g : Rec(g, PathsUpTo)
    <2> HIDE DEF Rec, Step
    <2>1. Nat \subseteq S
        <3> HIDE DEF S
        <3> QED BY <1>1, <1>2, EveryNumber
    <2> QED BY <2>1, PathsAreNumbers
<1> DEFINE f == CHOOSE h : Rec(h, PathsUpTo)
<1>4. Rec(f, PathsUpTo)
    BY <1>3
<1>5. InOrder(parts) = f[PathsUpTo]
    BY DEF InOrder, PathsUpTo
<1> HIDE DEF f
<1> QED BY <1>4, <1>5 DEF Ordering

LEMMA ParseUnrolled ==
    ASSUME NEW stream, Len(stream) \in Nat
    PROVE  \E f : Parsing(stream, f) /\ ParseRaw(stream) = f[Len(stream)].entries
<1> DEFINE Step(x, n) == TakeRecord(x, stream[n])
           Rec(f, m) == f = [n \in 0 .. m |-> IF n = 0 THEN NothingParsed ELSE Step(f[n - 1], n)]
           S == {m \in Nat : \E f : Rec(f, m)}
<1>1. 0 \in S
    <2>1. Rec([n \in 0 .. 0 |-> NothingParsed], 0)
        OBVIOUS
    <2> QED BY <2>1
<1>2. ASSUME NEW m \in Nat, m \in S PROVE m + 1 \in S
    <2>1. PICK f : Rec(f, m)
        BY <1>2
    <2> HIDE DEF Step
    <2> DEFINE g == [n \in 0 .. m + 1 |-> IF n = m + 1 THEN Step(f[m], n) ELSE f[n]]
    <2>2. ASSUME NEW n \in 0 .. m + 1
          PROVE  g[n] = IF n = 0 THEN NothingParsed ELSE Step(g[n - 1], n)
        <3>1. CASE n = m + 1
            <4>1. n # 0 /\ n - 1 = m /\ g[m] = f[m]
                BY <3>1
            <4> QED BY <3>1, <4>1
        <3>2. CASE n # m + 1
            <4>1. n \in 0 .. m /\ g[n] = f[n] /\ (n # 0 => n - 1 \in 0 .. m /\ g[n - 1] = f[n - 1])
                BY <3>2
            <4>2. f[n] = IF n = 0 THEN NothingParsed ELSE Step(f[n - 1], n)
                BY <2>1, <4>1
            <4> HIDE DEF g
            <4> QED BY <4>1, <4>2
        <3> QED BY <3>1, <3>2
    <2>3. Rec(g, m + 1)
        BY <2>2
    <2> HIDE DEF g
    <2>4. \E h : Rec(h, m + 1)
        BY <2>3
    <2> HIDE DEF Rec
    <2> QED BY <2>4
<1>3. PICK g : Rec(g, Len(stream))
    <2> HIDE DEF Rec, Step
    <2>1. Nat \subseteq S
        <3> HIDE DEF S
        <3> QED BY <1>1, <1>2, EveryNumber
    <2> QED BY <2>1
<1> DEFINE f == CHOOSE h : Rec(h, Len(stream))
<1>4. Rec(f, Len(stream))
    BY <1>3
<1>5. ParseRaw(stream) = f[Len(stream)].entries
    BY DEF ParseRaw
<1> HIDE DEF f
<1> QED BY <1>4, <1>5 DEF Parsing

LEMMA ReplayUnrolled ==
    ASSUME NEW tree, NEW overlay, Len(overlay) \in Nat
    PROVE  \E f : Replaying(tree, overlay, f) /\ ApplyOverlay(tree, overlay) = f[Len(overlay)]
<1> DEFINE Step(x, n) == ApplyOverlayEntry(x, overlay[n])
           Rec(f, m) == f = [n \in 0 .. m |-> IF n = 0 THEN tree ELSE Step(f[n - 1], n)]
           S == {m \in Nat : \E f : Rec(f, m)}
<1>1. 0 \in S
    <2>1. Rec([n \in 0 .. 0 |-> tree], 0)
        OBVIOUS
    <2> QED BY <2>1
<1>2. ASSUME NEW m \in Nat, m \in S PROVE m + 1 \in S
    <2>1. PICK f : Rec(f, m)
        BY <1>2
    <2> HIDE DEF Step
    <2> DEFINE g == [n \in 0 .. m + 1 |-> IF n = m + 1 THEN Step(f[m], n) ELSE f[n]]
    <2>2. ASSUME NEW n \in 0 .. m + 1
          PROVE  g[n] = IF n = 0 THEN tree ELSE Step(g[n - 1], n)
        <3>1. CASE n = m + 1
            <4>1. n # 0 /\ n - 1 = m /\ g[m] = f[m]
                BY <3>1
            <4> QED BY <3>1, <4>1
        <3>2. CASE n # m + 1
            <4>1. n \in 0 .. m /\ g[n] = f[n] /\ (n # 0 => n - 1 \in 0 .. m /\ g[n - 1] = f[n - 1])
                BY <3>2
            <4>2. f[n] = IF n = 0 THEN tree ELSE Step(f[n - 1], n)
                BY <2>1, <4>1
            <4> HIDE DEF g
            <4> QED BY <4>1, <4>2
        <3> QED BY <3>1, <3>2
    <2>3. Rec(g, m + 1)
        BY <2>2
    <2> HIDE DEF g
    <2>4. \E h : Rec(h, m + 1)
        BY <2>3
    <2> HIDE DEF Rec
    <2> QED BY <2>4
<1>3. PICK g : Rec(g, Len(overlay))
    <2> HIDE DEF Rec, Step
    <2>1. Nat \subseteq S
        <3> HIDE DEF S
        <3> QED BY <1>1, <1>2, EveryNumber
    <2> QED BY <2>1
<1> DEFINE f == CHOOSE h : Rec(h, Len(overlay))
<1>4. Rec(f, Len(overlay))
    BY <1>3
<1>5. ApplyOverlay(tree, overlay) = f[Len(overlay)]
    BY DEF ApplyOverlay
<1> HIDE DEF f
<1> QED BY <1>4, <1>5 DEF Replaying

-----------------------------------------------------------------------------
(* WHAT THE OVERLAY DOES                                                    *)

(* What stands in the whole is what stands in a part.                       *)
LEMMA OrderedParts ==
    ASSUME NEW parts, DOMAIN parts \subseteq Paths,
           NEW T, \A p \in DOMAIN parts : parts[p] \in Seq(T)
    PROVE  /\ InOrder(parts) \in Seq(T)
           /\ \A e : (\E i \in 1 .. Len(InOrder(parts)) : InOrder(parts)[i] = e)
                       <=> \E p \in DOMAIN parts : \E j \in 1 .. Len(parts[p]) : parts[p][j] = e
<1>1. PICK f : Ordering(parts, f) /\ InOrder(parts) = f[PathsUpTo]
    BY InOrderUnrolled
<1> DEFINE In(s, e) == \E i \in 1 .. Len(s) : s[i] = e
           Told(n) == /\ f[n] \in Seq(T)
                      /\ \A e : In(f[n], e)
                                  <=> \E p \in DOMAIN parts : p <= n /\ In(parts[p], e)
<1>2. Told(0)
    <2>1. f[0] = <<>>
        BY <1>1, PathsAreNumbers DEF Ordering
    <2>2. \A p \in DOMAIN parts : ~ (p <= 0)
        BY PathsAreNumbers
    <2> QED BY <2>1, <2>2
<1>3. ASSUME NEW n \in 1 .. PathsUpTo, Told(n - 1) PROVE Told(n)
    <2>1. f[n] = IF n \in DOMAIN parts THEN f[n - 1] \o parts[n] ELSE f[n - 1]
        <3>1. n \in 0 .. PathsUpTo /\ n # 0
            BY PathsAreNumbers
        <3> QED BY <1>1, <3>1 DEF Ordering
    <2>2. \A p \in DOMAIN parts : p <= n <=> (p <= n - 1 \/ p = n)
        BY PathsAreNumbers
    <2>3. CASE n \notin DOMAIN parts
        BY <1>3, <2>1, <2>2, <2>3
    <2>4. CASE n \in DOMAIN parts
        <3>1. f[n - 1] \in Seq(T) /\ parts[n] \in Seq(T) /\ f[n] = f[n - 1] \o parts[n]
            BY <1>3, <2>1, <2>4
        <3>2. f[n] \in Seq(T)
            BY <3>1
        <3>3. ASSUME NEW e PROVE In(f[n], e) <=> In(f[n - 1], e) \/ In(parts[n], e)
            <4> DEFINE a == f[n - 1]  b == parts[n]
            <4>1. a \in Seq(T) /\ b \in Seq(T) /\ f[n] = a \o b
                BY <3>1
            <4> HIDE DEF a, b
            <4>2. /\ Len(a \o b) = Len(a) + Len(b) /\ Len(a) \in Nat /\ Len(b) \in Nat
                  /\ \A i \in 1 .. Len(a) : (a \o b)[i] = a[i]
                  /\ \A i \in 1 .. Len(b) : (a \o b)[Len(a) + i] = b[i]
                BY <4>1
            <4>3. ASSUME NEW i \in 1 .. Len(a \o b), (a \o b)[i] = e PROVE In(a, e) \/ In(b, e)
                <5>1. CASE i \in 1 .. Len(a)
                    BY <4>2, <4>3, <5>1
                <5>2. CASE i \notin 1 .. Len(a)
                    <6>1. i - Len(a) \in 1 .. Len(b) /\ i = Len(a) + (i - Len(a))
                        BY <4>2, <5>2
                    <6>2. (a \o b)[i] = b[i - Len(a)]
                        BY <4>2, <6>1
                    <6> QED BY <4>3, <6>1, <6>2
                <5> QED BY <5>1, <5>2
            <4>4. ASSUME NEW i \in 1 .. Len(a), a[i] = e PROVE In(a \o b, e)
                BY <4>2, <4>4
            <4>5. ASSUME NEW i \in 1 .. Len(b), b[i] = e PROVE In(a \o b, e)
                <5>1. Len(a) + i \in 1 .. Len(a \o b)
                    BY <4>2
                <5> QED BY <4>2, <4>5, <5>1
            <4>6. In(a \o b, e) <=> In(a, e) \/ In(b, e)
                BY <4>3, <4>4, <4>5
            <4> QED BY <4>1, <4>6 DEF a, b
        <3>4. \A e : In(f[n - 1], e) <=> \E p \in DOMAIN parts : p <= n - 1 /\ In(parts[p], e)
            BY <1>3
        <3> HIDE DEF In
        <3> QED BY <2>2, <2>4, <3>2, <3>3, <3>4
    <2> QED BY <2>3, <2>4
<1>4. Told(PathsUpTo)
    <2> DEFINE S == {n \in 0 .. PathsUpTo : Told(n)}
    <2> HIDE DEF Told
    <2>1. 0 \in S /\ \A n \in 1 .. PathsUpTo : n - 1 \in S => n \in S
        BY <1>2, <1>3, PathsAreNumbers
    <2>2. 0 .. PathsUpTo \subseteq S
        <3> HIDE DEF S
        <3> QED BY <2>1, PathsAreNumbers, EveryNumberTo
    <2>3. PathsUpTo \in 0 .. PathsUpTo
        BY PathsAreNumbers
    <2> QED BY <2>2, <2>3
<1>5. \A p \in DOMAIN parts : p <= PathsUpTo
    BY PathsAreNumbers
<1> QED BY <1>1, <1>4, <1>5

(* An overlay whose entries for a path agree leaves that path as they say,  *)
(* or as it was.                                                            *)
IsOid(oid) == oid = NoOid \/ oid = <<oid[1], oid[2]>>

LEMMA OidsAreOids == ASSUME NEW file PROVE IsOid(Oid(file)) /\ IsOid(CheckoutOid(file))
BY DEF IsOid, Oid, CheckoutOid

LEMMA EntryIsApplied ==
    ASSUME NEW tree, NEW e, NEW p \in DOMAIN tree, IsOid(e.oid)
    PROVE  /\ DOMAIN ApplyOverlayEntry(tree, e) = DOMAIN tree
           /\ Oid(ApplyOverlayEntry(tree, e)[p]) = IF e.path = p THEN e.oid ELSE Oid(tree[p])
<1> DEFINE mode == IF e.executable THEN "100755"
                   ELSE IF tree[p] = Absent THEN "100644" ELSE Mode(tree[p])
<1>1. DOMAIN ApplyOverlayEntry(tree, e) = DOMAIN tree
    BY DEF ApplyOverlayEntry
<1>2. CASE e.path # p
    BY <1>2 DEF ApplyOverlayEntry
<1>3. CASE e.path = p /\ e.oid = NoOid
    <2>1. ApplyOverlayEntry(tree, e)[p] = Absent
        BY <1>3 DEF ApplyOverlayEntry
    <2> QED BY <1>1, <1>3, <2>1 DEF Oid
<1>4. CASE e.path = p /\ e.oid # NoOid
    <2>1. ApplyOverlayEntry(tree, e)[p] = <<e.oid[1], e.oid[2], mode>>
        BY <1>4 DEF ApplyOverlayEntry
    <2> HIDE DEF mode
    <2>2. Oid(<<e.oid[1], e.oid[2], mode>>) = <<e.oid[1], e.oid[2]>>
        BY DEF Oid, Absent
    <2>3. e.oid = <<e.oid[1], e.oid[2]>>
        BY <1>4 DEF IsOid
    <2> QED BY <1>1, <1>4, <2>1, <2>2, <2>3
<1> QED BY <1>1, <1>2, <1>3, <1>4

LEMMA Replayed ==
    ASSUME NEW tree, NEW overlay, Len(overlay) \in Nat, NEW p \in DOMAIN tree, NEW oid,
           \A i \in 1 .. Len(overlay) : IsOid(overlay[i].oid)
                                          /\ (overlay[i].path = p => overlay[i].oid = oid)
    PROVE  /\ (\E i \in 1 .. Len(overlay) : overlay[i].path = p) =>
                Oid(ApplyOverlay(tree, overlay)[p]) = oid
           /\ ~ (\E i \in 1 .. Len(overlay) : overlay[i].path = p) =>
                Oid(ApplyOverlay(tree, overlay)[p]) = Oid(tree[p])
<1>1. PICK f : Replaying(tree, overlay, f) /\ ApplyOverlay(tree, overlay) = f[Len(overlay)]
    BY ReplayUnrolled
<1> DEFINE Written(n) == \E i \in 1 .. n : overlay[i].path = p
           So(n) == /\ DOMAIN f[n] = DOMAIN tree
                    /\ Oid(f[n][p]) = IF Written(n) THEN oid ELSE Oid(tree[p])
           S == {n \in 0 .. Len(overlay) : So(n)}
<1>2. So(0)
    <2>1. f[0] = tree
        BY <1>1 DEF Replaying
    <2>2. ~ Written(0)
        OBVIOUS
    <2> HIDE DEF Written
    <2> QED BY <2>1, <2>2
<1>3. ASSUME NEW n \in 1 .. Len(overlay), So(n - 1) PROVE So(n)
    <2>1. f[n] = ApplyOverlayEntry(f[n - 1], overlay[n])
        <3>1. n \in 0 .. Len(overlay) /\ n # 0
            OBVIOUS
        <3> QED BY <1>1, <3>1 DEF Replaying
    <2>2. /\ DOMAIN f[n] = DOMAIN tree
          /\ Oid(f[n][p]) = IF overlay[n].path = p THEN overlay[n].oid ELSE Oid(f[n - 1][p])
        BY <1>3, <2>1, EntryIsApplied
    <2>3. Written(n) <=> Written(n - 1) \/ overlay[n].path = p
        <3>1. \A i \in 1 .. n : i \in 1 .. n - 1 \/ i = n
            OBVIOUS
        <3>2. 1 .. n - 1 \subseteq 1 .. n /\ n \in 1 .. n
            OBVIOUS
        <3> QED BY <3>1, <3>2
    <2> HIDE DEF Written
    <2> QED BY <1>3, <2>2, <2>3
<1>4. 0 .. Len(overlay) \subseteq S
    <2>1. 0 \in S /\ \A n \in 1 .. Len(overlay) : n - 1 \in S => n \in S
        <3> HIDE DEF So
        <3> QED BY <1>2, <1>3
    <2> HIDE DEF S
    <2> QED BY <2>1, EveryNumberTo
<1>5. So(Len(overlay))
    <2> HIDE DEF So
    <2> QED BY <1>4
<1> QED BY <1>1, <1>5

(* What the overlay holds of the change.                                    *)
Written(changed, q) ==
    [path |-> q, oid |-> changed[q].dst_oid, executable |-> changed[q].dst_mode = "100755"]

Laid(changed, q) ==
    (IF changed[q].old_path \in {NoPath, q} THEN {} ELSE {Removal(changed[q].old_path)})
    \cup (IF changed[q].dst_mode = ABSENT_MODE THEN {Removal(q)}
          ELSE IF Readable(changed[q]) THEN {Written(changed, q)} ELSE {})

LEMMA OneAndOne ==
    ASSUME NEW x, NEW y PROVE <<x>> \o <<y>> = <<x, y>>
<1> DEFINE s == <<x>>  t == <<y>>  u == <<x, y>>
<1>1. /\ s \in Seq({x, y}) /\ Len(s) = 1 /\ s[1] = x
      /\ t \in Seq({x, y}) /\ Len(t) = 1 /\ t[1] = y
      /\ u \in Seq({x, y}) /\ Len(u) = 2 /\ u[1] = x /\ u[2] = y
    OBVIOUS
<1> HIDE DEF s, t, u
<1>2. /\ s \o t \in Seq({x, y}) /\ Len(s \o t) = 2
      /\ \A i \in 1 .. 2 : (s \o t)[i] = IF i <= 1 THEN s[i] ELSE t[i - 1]
    BY <1>1, ConcatProperties
<1>3. \A i \in 1 .. 2 : i = 1 \/ i = 2
    OBVIOUS
<1>4. \A i \in 1 .. 2 : (s \o t)[i] = u[i]
    BY <1>1, <1>2, <1>3
<1>5. s \o t = u
    BY <1>1, <1>2, <1>4, SeqEqual
<1> QED BY <1>5 DEF s, t, u

LEMMA OverlayOfOne ==
    ASSUME NEW changed, NEW q
    PROVE  /\ OverlayOf(changed, q) \in Seq(Laid(changed, q))
           /\ \A e \in Laid(changed, q) :
                \E j \in 1 .. Len(OverlayOf(changed, q)) : OverlayOf(changed, q)[j] = e
<1> DEFINE gone == IF changed[q].old_path \in {NoPath, q} THEN <<>>
                   ELSE <<Removal(changed[q].old_path)>>
           there == IF changed[q].dst_mode = ABSENT_MODE THEN <<Removal(q)>>
                    ELSE IF Readable(changed[q]) THEN <<Written(changed, q)>> ELSE <<>>
<1>1. OverlayOf(changed, q) = gone \o there
    BY DEF OverlayOf, Written
<1>2. \/ gone = <<>> /\ changed[q].old_path \in {NoPath, q}
      \/ gone = <<Removal(changed[q].old_path)>> /\ changed[q].old_path \notin {NoPath, q}
    OBVIOUS
<1>3. \/ there = <<Removal(q)>> /\ changed[q].dst_mode = ABSENT_MODE
      \/ there = <<Written(changed, q)>> /\ changed[q].dst_mode # ABSENT_MODE /\ Readable(changed[q])
      \/ there = <<>> /\ changed[q].dst_mode # ABSENT_MODE /\ ~ Readable(changed[q])
    OBVIOUS
<1> HIDE DEF gone, there
<1>4. ASSUME NEW x, gone \o there = <<x>>, Laid(changed, q) = {x}
      PROVE  /\ gone \o there \in Seq(Laid(changed, q))
             /\ \A e \in Laid(changed, q) : \E j \in 1 .. Len(gone \o there) : (gone \o there)[j] = e
    BY <1>4
<1>5. ASSUME NEW x, NEW y, gone \o there = <<x, y>>, Laid(changed, q) = {x, y}
      PROVE  /\ gone \o there \in Seq(Laid(changed, q))
             /\ \A e \in Laid(changed, q) : \E j \in 1 .. Len(gone \o there) : (gone \o there)[j] = e
    <2>1. Len(gone \o there) = 2 /\ (gone \o there)[1] = x /\ (gone \o there)[2] = y
        BY <1>5
    <2>2. 1 \in 1 .. 2 /\ 2 \in 1 .. 2
        OBVIOUS
    <2> QED BY <1>5, <2>1, <2>2
<1>6. ASSUME gone \o there = <<>>, Laid(changed, q) = {}
      PROVE  /\ gone \o there \in Seq(Laid(changed, q))
             /\ \A e \in Laid(changed, q) : \E j \in 1 .. Len(gone \o there) : (gone \o there)[j] = e
    BY <1>6
<1>7. /\ \A x, y : <<x>> \o <<y>> = <<x, y>>
      /\ \A x : <<x>> \o <<>> = <<x>> /\ <<>> \o <<x>> = <<x>>
      /\ <<>> \o <<>> = <<>>
    <2>1. ASSUME NEW x PROVE <<x>> \o <<>> = <<x>> /\ <<>> \o <<x>> = <<x>>
        OBVIOUS
    <2>2. <<>> \o <<>> = <<>>
        OBVIOUS
    <2> QED BY <2>1, <2>2, OneAndOne
<1> DEFINE Gone == Removal(changed[q].old_path)
<1>8. CASE gone = <<>> /\ changed[q].old_path \in {NoPath, q}
    <2>1. CASE there = <<>>
        <3>1. Laid(changed, q) = {}
            BY <1>3, <1>8, <2>1 DEF Laid
        <3> QED BY <1>1, <1>6, <1>7, <1>8, <2>1, <3>1
    <2>2. CASE there = <<Removal(q)>> /\ changed[q].dst_mode = ABSENT_MODE
        <3>1. Laid(changed, q) = {Removal(q)}
            BY <1>8, <2>2 DEF Laid
        <3> QED BY <1>1, <1>4, <1>7, <1>8, <2>2, <3>1
    <2>3. CASE /\ there = <<Written(changed, q)>>
               /\ changed[q].dst_mode # ABSENT_MODE /\ Readable(changed[q])
        <3>1. Laid(changed, q) = {Written(changed, q)}
            BY <1>8, <2>3 DEF Laid
        <3> QED BY <1>1, <1>4, <1>7, <1>8, <2>3, <3>1
    <2> QED BY <1>3, <2>1, <2>2, <2>3
<1>9. CASE gone = <<Gone>> /\ changed[q].old_path \notin {NoPath, q}
    <2>1. CASE there = <<>>
        <3>1. Laid(changed, q) = {Gone}
            BY <1>3, <1>9, <2>1 DEF Laid
        <3> QED BY <1>1, <1>4, <1>7, <1>9, <2>1, <3>1
    <2>2. CASE there = <<Removal(q)>> /\ changed[q].dst_mode = ABSENT_MODE
        <3>1. Laid(changed, q) = {Gone, Removal(q)}
            BY <1>9, <2>2 DEF Laid
        <3> QED BY <1>1, <1>5, <1>7, <1>9, <2>2, <3>1
    <2>3. CASE /\ there = <<Written(changed, q)>>
               /\ changed[q].dst_mode # ABSENT_MODE /\ Readable(changed[q])
        <3>1. Laid(changed, q) = {Gone, Written(changed, q)}
            BY <1>9, <2>3 DEF Laid
        <3> QED BY <1>1, <1>5, <1>7, <1>9, <2>3, <3>1
    <2> QED BY <1>3, <2>1, <2>2, <2>3
<1> QED BY <1>2, <1>8, <1>9

LEMMA OverlayTold ==
    ASSUME NEW changed, DOMAIN changed \subseteq Paths
    PROVE  /\ Len(SandboxOverlay(changed)) \in Nat
           /\ \A e : (\E i \in 1 .. Len(SandboxOverlay(changed)) : SandboxOverlay(changed)[i] = e)
                       <=> \E q \in DOMAIN changed : e \in Laid(changed, q)
<1> DEFINE parts == [p \in DOMAIN changed |-> OverlayOf(changed, p)]
           T == UNION {Laid(changed, q) : q \in DOMAIN changed}
<1>1. DOMAIN parts \subseteq Paths /\ \A p \in DOMAIN parts : parts[p] \in Seq(T)
    <2>1. ASSUME NEW p \in DOMAIN changed PROVE OverlayOf(changed, p) \in Seq(T)
        <3>1. OverlayOf(changed, p) \in Seq(Laid(changed, p)) /\ Laid(changed, p) \subseteq T
            BY OverlayOfOne
        <3> HIDE DEF T
        <3> QED BY <3>1
    <2> HIDE DEF T
    <2> QED BY <2>1
<1>2. /\ InOrder(parts) \in Seq(T)
      /\ \A e : (\E i \in 1 .. Len(InOrder(parts)) : InOrder(parts)[i] = e)
                  <=> \E p \in DOMAIN parts : \E j \in 1 .. Len(parts[p]) : parts[p][j] = e
    <2> HIDE DEF parts, T
    <2> QED BY <1>1, OrderedParts
<1>3. ASSUME NEW e, NEW p \in DOMAIN changed
      PROVE  (\E j \in 1 .. Len(parts[p]) : parts[p][j] = e) <=> e \in Laid(changed, p)
    <2>1. parts[p] = OverlayOf(changed, p)
        OBVIOUS
    <2>2. ASSUME NEW j \in 1 .. Len(OverlayOf(changed, p))
          PROVE  OverlayOf(changed, p)[j] \in Laid(changed, p)
        BY OverlayOfOne
    <2> QED BY <2>1, <2>2, OverlayOfOne
<1>4. DOMAIN parts = DOMAIN changed /\ SandboxOverlay(changed) = InOrder(parts)
    BY DEF SandboxOverlay
<1> HIDE DEF parts, T
<1>5. Len(InOrder(parts)) \in Nat
    BY <1>2
<1>6. ASSUME NEW e
      PROVE  (\E i \in 1 .. Len(InOrder(parts)) : InOrder(parts)[i] = e)
               <=> \E q \in DOMAIN changed : e \in Laid(changed, q)
    <2>1. (\E i \in 1 .. Len(InOrder(parts)) : InOrder(parts)[i] = e)
            <=> \E p \in DOMAIN parts : \E j \in 1 .. Len(parts[p]) : parts[p][j] = e
        BY <1>2
    <2> QED BY <1>3, <1>4, <2>1
<1> QED BY <1>4, <1>5, <1>6

-----------------------------------------------------------------------------
(* WHAT THE COMMITTED SEGMENT SAYS                                          *)

(* What the diff of two trees says of a path.                               *)
Meta(base, head, p) ==
    <<Mode(Source(base, head, p)), Mode(head[p]), Oid(Source(base, head, p)), Oid(head[p]),
      StatusOf(Origin(base, head, p), Mode(Source(base, head, p)), Mode(head[p]))>>

SegmentEntry(base, head, p) ==
    ChangedEntry(Origin(base, head, p),
                 StatusOf(Origin(base, head, p), Mode(Source(base, head, p)), Mode(head[p])),
                 Mode(Source(base, head, p)), Mode(head[p]),
                 Oid(Source(base, head, p)), Oid(head[p]))

LEMMA Origins ==
    ASSUME NEW base, NEW head, NEW p
    PROVE  LET q == Origin(base, head, p) IN
           q # NoPath => /\ q \in Paths /\ base[q] # Absent /\ head[q] = Absent
                         /\ Oid(base[q]) = Oid(head[p])
                         /\ base[p] = Absent /\ head[p] # Absent
<1> DEFINE sources == {q \in Paths : /\ base[q] # Absent /\ head[q] = Absent
                                     /\ Oid(base[q]) = Oid(head[p])}
<1>1. sources \in SUBSET Nat
    BY PathsAreNumbers
<1>2. sources # {} => Min(sources) \in sources
    <2> HIDE DEF sources
    <2> QED BY <1>1, LeastIsThere
<1>3. Origin(base, head, p) = IF base[p] # Absent \/ head[p] = Absent \/ sources = {} THEN NoPath
                              ELSE Min(sources)
    BY DEF Origin
<1> HIDE DEF sources
<1>4. SUFFICES ASSUME Origin(base, head, p) # NoPath
      PROVE  LET q == Origin(base, head, p) IN
             /\ q \in Paths /\ base[q] # Absent /\ head[q] = Absent
             /\ Oid(base[q]) = Oid(head[p])
             /\ base[p] = Absent /\ head[p] # Absent
    OBVIOUS
<1>5. /\ Origin(base, head, p) \in sources
      /\ base[p] = Absent /\ head[p] # Absent
    BY <1>2, <1>3, <1>4
<1> QED BY <1>5 DEF sources

LEMMA Statuses ==
    ASSUME NEW base, IsTree(base), NEW head, IsTree(head), NEW p \in Paths
    PROVE  (Meta(base, head, p)[5] = "R") <=> Origin(base, head, p) # NoPath
<1>1. Meta(base, head, p)[5]
        = StatusOf(Origin(base, head, p), Mode(Source(base, head, p)), Mode(head[p]))
    BY DEF Meta
<1>2. CASE Origin(base, head, p) = NoPath
    BY <1>1, <1>2 DEF StatusOf
<1>3. CASE Origin(base, head, p) # NoPath
    <2> DEFINE q == Origin(base, head, p)
    <2>1. q \in Paths /\ base[q] # Absent /\ head[p] # Absent
        BY <1>3, Origins
    <2>2. Source(base, head, p) = base[q]
        BY <1>3 DEF Source
    <2>3. Mode(base[q]) # ABSENT_MODE /\ Mode(head[p]) # ABSENT_MODE
        BY <2>1, Files3 DEF IsTree
    <2> QED BY <1>1, <1>3, <2>2, <2>3 DEF StatusOf
<1> QED BY <1>2, <1>3

LEMMA RecordTold ==
    ASSUME NEW base, NEW head, NEW p
    PROVE  LET origin == Origin(base, head, p)  meta == Meta(base, head, p) IN
           /\ origin = NoPath => RecordOf(base, head, p) = <<meta, <<p>> >>
           /\ origin # NoPath => RecordOf(base, head, p) = <<meta, <<origin>>, <<p>> >>
BY DEF RecordOf, Meta

(* One record after another.                                                *)
Taken(meta, old, entries) == [meta |-> meta, old |-> old, entries |-> entries]

LEMMA TakeMeta ==
    ASSUME NEW entries, NEW meta
    PROVE  TakeRecord(Taken(<<>>, NoPath, entries), meta) = Taken(meta, NoPath, entries)
BY DEF TakeRecord, Taken

LEMMA TakeSource ==
    ASSUME NEW entries, NEW meta, meta # <<>>, meta[5] = "R", NEW q
    PROVE  TakeRecord(Taken(meta, NoPath, entries), <<q>>) = Taken(meta, q, entries)
BY DEF TakeRecord, Taken

LEMMA TakePath ==
    ASSUME NEW entries, NEW meta, meta # <<>>, NEW old, ~ (meta[5] = "R" /\ old = NoPath), NEW p
    PROVE  TakeRecord(Taken(meta, old, entries), <<p>>)
             = Taken(<<>>, NoPath,
                     With(entries, p, ChangedEntry(old, meta[5], meta[1], meta[2], meta[3], meta[4])))
BY DEF TakeRecord, Taken

LEMMA MetaTold ==
    ASSUME NEW base, NEW head, NEW p
    PROVE  LET meta == Meta(base, head, p) IN
           /\ meta # <<>>
           /\ ChangedEntry(Origin(base, head, p), meta[5], meta[1], meta[2], meta[3], meta[4])
                = SegmentEntry(base, head, p)
BY DEF Meta, SegmentEntry

(* Between two records nothing is awaited, and each path read has its entry.*)
LEMMA SegmentTold ==
    ASSUME NEW base, IsTree(base), NEW head, IsTree(head)
    PROVE  CommittedSegment(base, head)
             = [p \in Shown(base, head) |-> SegmentEntry(base, head, p)]
<1> DEFINE shown == Shown(base, head)
           parts == [p \in shown |-> RecordOf(base, head, p)]
           Tokens(p) == {Meta(base, head, p), <<Origin(base, head, p)>>, <<p>>}
           T == UNION {Tokens(p) : p \in shown}
           Read(n) == [p \in {q \in shown : q <= n} |-> SegmentEntry(base, head, p)]
<1>1. shown \subseteq Paths /\ DOMAIN parts = shown
    BY DEF Shown
<1>2. ASSUME NEW p \in shown PROVE parts[p] = RecordOf(base, head, p) /\ parts[p] \in Seq(T)
    <2>1. parts[p] = RecordOf(base, head, p)
        OBVIOUS
    <2>2. Tokens(p) \subseteq T
        OBVIOUS
    <2> HIDE DEF parts, T
    <2>3. RecordOf(base, head, p) \in Seq(Tokens(p))
        <3>1. ASSUME NEW x \in Tokens(p), NEW y \in Tokens(p), NEW z \in Tokens(p)
              PROVE  <<x, y>> \in Seq(Tokens(p)) /\ <<x, y, z>> \in Seq(Tokens(p))
            <4> HIDE DEF Tokens
            <4> QED BY <3>1
        <3>2. /\ Meta(base, head, p) \in Tokens(p) /\ <<p>> \in Tokens(p)
              /\ <<Origin(base, head, p)>> \in Tokens(p)
            OBVIOUS
        <3>3. CASE Origin(base, head, p) = NoPath
            <4>1. RecordOf(base, head, p) = <<Meta(base, head, p), <<p>> >>
                BY <3>3, RecordTold
            <4> HIDE DEF Tokens
            <4> QED BY <3>1, <3>2, <4>1
        <3>4. CASE Origin(base, head, p) # NoPath
            <4>1. RecordOf(base, head, p)
                    = <<Meta(base, head, p), <<Origin(base, head, p)>>, <<p>> >>
                BY <3>4, RecordTold
            <4> HIDE DEF Tokens
            <4> QED BY <3>1, <3>2, <4>1
        <3> QED BY <3>3, <3>4
    <2> HIDE DEF Tokens
    <2> QED BY <2>1, <2>2, <2>3
<1>3. PICK f : Ordering(parts, f) /\ InOrder(parts) = f[PathsUpTo]
    BY InOrderUnrolled
<1> DEFINE So(n) == /\ f[n] \in Seq(T)
                    /\ \A g : Parsing(f[n], g) => g[Len(f[n])] = Taken(<<>>, NoPath, Read(n))
           S == {n \in 0 .. PathsUpTo : So(n)}
<1>4. So(0)
    <2>1. f[0] = <<>> /\ Len(<<>>) = 0
        BY <1>3, PathsAreNumbers DEF Ordering
    <2>2. ASSUME NEW g, Parsing(<<>>, g) PROVE g[0] = NothingParsed
        BY <2>2 DEF Parsing
    <2>3. {q \in shown : q <= 0} = {}
        BY <1>1, PathsAreNumbers
    <2>4. Read(0) = <<>>
        BY <2>3
    <2> HIDE DEF Read
    <2> QED BY <2>1, <2>2, <2>4 DEF NothingParsed, Taken
<1>5. ASSUME NEW n \in 1 .. PathsUpTo, So(n - 1) PROVE So(n)
    <2>1. f[n] = IF n \in shown THEN f[n - 1] \o parts[n] ELSE f[n - 1]
        <3>1. n \in 0 .. PathsUpTo /\ n # 0
            BY PathsAreNumbers
        <3> HIDE DEF parts
        <3> QED BY <1>1, <1>3, <3>1 DEF Ordering
    <2>2. CASE n \notin shown
        <3>1. {q \in shown : q <= n} = {q \in shown : q <= n - 1}
            BY <1>1, <2>2, PathsAreNumbers
        <3>2. Read(n) = Read(n - 1)
            BY <3>1
        <3> HIDE DEF Read
        <3> QED BY <1>5, <2>1, <2>2, <3>2
    <2>3. CASE n \in shown
        <3> DEFINE s == f[n - 1]  r == parts[n]  meta == Meta(base, head, n)
                   origin == Origin(base, head, n)
        <3>1. /\ s \in Seq(T) /\ r \in Seq(T) /\ f[n] = s \o r
              /\ r = RecordOf(base, head, n)
            <4> HIDE DEF parts, T
            <4> QED BY <1>2, <1>5, <2>1, <2>3
        <3>2. \A g : Parsing(s, g) => g[Len(s)] = Taken(<<>>, NoPath, Read(n - 1))
            BY <1>5
        <3>3. Taken(<<>>, NoPath, With(Read(n - 1), n, SegmentEntry(base, head, n)))
                = Taken(<<>>, NoPath, Read(n))
            <4>1. DOMAIN Read(n - 1) \cup {n} = {q \in shown : q <= n}
                BY <1>1, <2>3, PathsAreNumbers
            <4>2. \A q \in DOMAIN Read(n - 1) : q # n
                BY <1>1, PathsAreNumbers
            <4>3. With(Read(n - 1), n, SegmentEntry(base, head, n)) = Read(n)
                BY <4>1, <4>2 DEF With
            <4> HIDE DEF Read
            <4> QED BY <4>3
        <3> HIDE DEF s, r, Read, T, parts, shown
        <3>4. /\ s \o r \in Seq(T) /\ Len(s \o r) = Len(s) + Len(r)
              /\ Len(s) \in Nat /\ Len(r) \in Nat
              /\ \A i \in 1 .. Len(s) + Len(r) :
                   (s \o r)[i] = IF i <= Len(s) THEN s[i] ELSE r[i - Len(s)]
            BY <3>1, ConcatProperties
        <3>5. ASSUME NEW g, Parsing(s \o r, g)
              PROVE  g[Len(s \o r)] = Taken(<<>>, NoPath, Read(n))
            <4> DEFINE h == [i \in 0 .. Len(s) |-> g[i]]
            <4>1. \A i \in 0 .. Len(s) + Len(r) :
                    g[i] = IF i = 0 THEN NothingParsed ELSE TakeRecord(g[i - 1], (s \o r)[i])
                BY <3>4, <3>5 DEF Parsing
            <4>2. Parsing(s, h)
                <5>1. ASSUME NEW i \in 0 .. Len(s)
                      PROVE  h[i] = IF i = 0 THEN NothingParsed ELSE TakeRecord(h[i - 1], s[i])
                    <6>1. CASE i = 0
                        BY <3>4, <4>1, <6>1
                    <6>2. CASE i # 0
                        <7>1. /\ i \in 1 .. Len(s) + Len(r) /\ i <= Len(s)
                              /\ i - 1 \in 0 .. Len(s)
                            BY <3>4, <6>2
                        <7>2. (s \o r)[i] = s[i]
                            BY <3>4, <7>1
                        <7>3. g[i] = TakeRecord(g[i - 1], s[i])
                            BY <4>1, <6>2, <7>1, <7>2
                        <7>4. h[i] = g[i] /\ h[i - 1] = g[i - 1]
                            BY <7>1
                        <7> HIDE DEF h
                        <7> QED BY <6>2, <7>3, <7>4
                    <6> QED BY <6>1, <6>2
                <5> QED BY <5>1 DEF Parsing
            <4>3. g[Len(s)] = Taken(<<>>, NoPath, Read(n - 1))
                <5>1. h[Len(s)] = Taken(<<>>, NoPath, Read(n - 1))
                    <6> HIDE DEF h
                    <6> QED BY <3>2, <4>2
                <5>2. h[Len(s)] = g[Len(s)]
                    BY <3>4
                <5> QED BY <5>1, <5>2
            <4>4. ASSUME NEW j \in 1 .. Len(r)
                  PROVE  g[Len(s) + j] = TakeRecord(g[Len(s) + (j - 1)], r[j])
                <5>1. /\ Len(s) + j \in 1 .. Len(s) + Len(r) /\ ~ (Len(s) + j <= Len(s))
                      /\ (Len(s) + j) - Len(s) = j /\ (Len(s) + j) - 1 = Len(s) + (j - 1)
                      /\ Len(s) + j \in 0 .. Len(s) + Len(r) /\ Len(s) + j # 0
                    BY <3>4
                <5>2. (s \o r)[Len(s) + j] = r[j]
                    BY <3>4, <5>1
                <5> QED BY <4>1, <5>1, <5>2
            <4>5. n \in Paths /\ (meta[5] = "R" <=> origin # NoPath)
                BY PathsAreNumbers, Statuses
            <4> HIDE DEF h, meta, origin
            <4>6. /\ meta # <<>>
                  /\ ChangedEntry(origin, meta[5], meta[1], meta[2], meta[3], meta[4])
                       = SegmentEntry(base, head, n)
                BY MetaTold DEF meta, origin
            <4>7. CASE origin = NoPath
                <5>1. r = <<meta, <<n>> >>
                    BY <3>1, <4>7, RecordTold DEF meta, origin
                <5>2. Len(r) = 2 /\ r[1] = meta /\ r[2] = <<n>>
                    BY <5>1
                <5>3. /\ g[Len(s) + 1] = TakeRecord(g[Len(s) + (1 - 1)], r[1])
                      /\ g[Len(s) + 2] = TakeRecord(g[Len(s) + (2 - 1)], r[2])
                    <6>1. 1 \in 1 .. 2 /\ 2 \in 1 .. 2
                        OBVIOUS
                    <6> QED BY <4>4, <5>2, <6>1
                <5>4. Len(s) + (1 - 1) = Len(s) /\ 2 - 1 = 1
                    BY <3>4
                <5>5. g[Len(s) + 1] = Taken(meta, NoPath, Read(n - 1))
                    BY <4>3, <5>2, <5>3, <5>4, TakeMeta
                <5>6. g[Len(s) + 2] = TakeRecord(Taken(meta, NoPath, Read(n - 1)), <<n>>)
                    BY <5>2, <5>3, <5>4, <5>5
                <5>7. g[Len(s) + 2]
                        = Taken(<<>>, NoPath, With(Read(n - 1), n, SegmentEntry(base, head, n)))
                    BY <4>5, <4>6, <4>7, <5>6, TakePath
                <5> QED BY <3>3, <3>4, <5>2, <5>7
            <4>8. CASE origin # NoPath
                <5>1. r = <<meta, <<origin>>, <<n>> >>
                    BY <3>1, <4>8, RecordTold DEF meta, origin
                <5>2. Len(r) = 3 /\ r[1] = meta /\ r[2] = <<origin>> /\ r[3] = <<n>>
                    BY <5>1
                <5>3. /\ g[Len(s) + 1] = TakeRecord(g[Len(s) + (1 - 1)], r[1])
                      /\ g[Len(s) + 2] = TakeRecord(g[Len(s) + (2 - 1)], r[2])
                      /\ g[Len(s) + 3] = TakeRecord(g[Len(s) + (3 - 1)], r[3])
                    <6>1. 1 \in 1 .. 3 /\ 2 \in 1 .. 3 /\ 3 \in 1 .. 3
                        OBVIOUS
                    <6> QED BY <4>4, <5>2, <6>1
                <5>4. Len(s) + (1 - 1) = Len(s) /\ 2 - 1 = 1 /\ 3 - 1 = 2
                    BY <3>4
                <5>5. g[Len(s) + 1] = Taken(meta, NoPath, Read(n - 1))
                    BY <4>3, <5>2, <5>3, <5>4, TakeMeta
                <5>6. g[Len(s) + 2] = TakeRecord(Taken(meta, NoPath, Read(n - 1)), <<origin>>)
                    BY <5>2, <5>3, <5>4, <5>5
                <5>7. g[Len(s) + 2] = Taken(meta, origin, Read(n - 1))
                    BY <4>5, <4>6, <4>8, <5>6, TakeSource
                <5>8. g[Len(s) + 3] = TakeRecord(Taken(meta, origin, Read(n - 1)), <<n>>)
                    BY <5>2, <5>3, <5>4, <5>7
                <5>9. g[Len(s) + 3]
                        = Taken(<<>>, NoPath, With(Read(n - 1), n, SegmentEntry(base, head, n)))
                    BY <4>6, <4>8, <5>8, TakePath
                <5> QED BY <3>3, <3>4, <5>2, <5>9
            <4> QED BY <4>7, <4>8
        <3> QED BY <3>1, <3>4, <3>5
    <2> QED BY <2>2, <2>3
<1>6. So(PathsUpTo)
    <2> HIDE DEF So
    <2>1. 0 \in S /\ \A n \in 1 .. PathsUpTo : n - 1 \in S => n \in S
        BY <1>4, <1>5, PathsAreNumbers
    <2>2. 0 .. PathsUpTo \subseteq S
        <3> HIDE DEF S
        <3> QED BY <2>1, PathsAreNumbers, EveryNumberTo
    <2>3. PathsUpTo \in 0 .. PathsUpTo
        BY PathsAreNumbers
    <2> QED BY <2>2, <2>3
<1>7. Read(PathsUpTo) = [p \in shown |-> SegmentEntry(base, head, p)]
    <2>1. {q \in shown : q <= PathsUpTo} = shown
        BY <1>1, PathsAreNumbers
    <2> QED BY <2>1
<1> HIDE DEF Read, T
<1>8. f[PathsUpTo] \in Seq(T) /\ Len(f[PathsUpTo]) \in Nat /\ f[PathsUpTo] = DiffTree(base, head)
    BY <1>3, <1>6 DEF DiffTree
<1>9. PICK g : Parsing(DiffTree(base, head), g)
                 /\ ParseRaw(DiffTree(base, head)) = g[Len(DiffTree(base, head))].entries
    BY <1>8, ParseUnrolled
<1>10. g[Len(DiffTree(base, head))] = Taken(<<>>, NoPath, Read(PathsUpTo))
    BY <1>6, <1>8, <1>9
<1> QED BY <1>7, <1>9, <1>10 DEF CommittedSegment, Taken

-----------------------------------------------------------------------------
(* WHAT THE UNION SAYS OF THE TREE                                          *)

(* A file that is there has no empty id, and one that is not no other.      *)
LEMMA BlobsOfFiles ==
    ASSUME NEW tree, NEW p, IsFile(tree.disk[p])
    PROVE  /\ tree.disk[p] # Absent => NoOid \notin Blobs(tree, p)
           /\ tree.disk[p] = Absent => Blobs(tree, p) = {NoOid}
BY DEF Blobs, CheckoutOid, Oid, IsFile, NoOid, Absent

(* What the scan leaves out the disk holds as the commit does.              *)
LEMMA UnscannedIsUnchanged ==
    ASSUME NEW tree, AreTrees(tree), NEW vouched \in SUBSET Phantoms(tree),
           NEW p \in Paths \ DOMAIN Scan(tree, vouched)
    PROVE  /\ AsCommitted(tree.head[p]) = AsCommitted(tree.disk[p])
           /\ Oid(tree.head[p]) \in Blobs(tree, p)
           /\ tree.head[p] = Absent <=> tree.disk[p] = Absent
<1>1. p \notin Differs(tree.head, tree.disk)
    BY WorkIsSeen
<1>2. IsNoChange(Cleared(tree, vouched, p))
    BY Scanned
<1>3. /\ tree.head[p] = tree.index[p]
      /\ tree.disk[p] # tree.index[p] =>
           /\ tree.index[p] # Absent /\ Mode(tree.disk[p]) = Mode(tree.index[p])
           /\ CheckoutOid(tree.disk[p]) = Oid(tree.index[p])
    BY <1>2, UnseenIsUnchanged
<1>4. Oid(tree.head[p]) \in Blobs(tree, p)
    BY <1>3 DEF Blobs
<1>5. tree.head[p] = Absent <=> tree.disk[p] = Absent
    <2>1. CASE tree.disk[p] = tree.index[p]
        BY <1>3, <2>1
    <2>2. CASE tree.disk[p] # tree.index[p]
        BY <1>3, <2>2, Files3 DEF AreTrees, IsTree
    <2> QED BY <2>1, <2>2
<1> QED BY <1>1, <1>4, <1>5 DEF Differs

(* The index's blob stands for the disk's only where it is.                 *)
LEMMA StagedBytes ==
    ASSUME NEW tree, AreTrees(tree), NEW vouched \in SUBSET Phantoms(tree),
           NEW p \in DOMAIN Scan(tree, vouched),
           IsStaged(Scan(tree, vouched)[p]), IsWorktreeUnmodified(Scan(tree, vouched)[p])
    PROVE  IF tree.disk[p] = Absent THEN Scan(tree, vouched)[p].staged_oid = NoOid
           ELSE Scan(tree, vouched)[p].staged_oid \in Blobs(tree, p)
<1> DEFINE r == Record(tree, vouched, p)
           e == Cleared(tree, vouched, p)
<1>1. p \in Paths /\ Scan(tree, vouched)[p] = e
    BY Scanned
<1>2. e.status[1] \notin {".", "?"} /\ e.status[2] = "."
    BY <1>1 DEF IsStaged, IsWorktreeUnmodified
<1>3. p \notin Untracked(tree)
    BY <1>2 DEF Cleared, ClearIfPhantom, Record, NewFile, IsWorktreeModified
<1>4. /\ DOMAIN r = {"status", "head_mode", "worktree_mode", "head_oid", "staged_oid", "worktree_oid"}
      /\ r.status = Letters(tree, vouched, p)
      /\ r.worktree_mode = Mode(tree.disk[p]) /\ r.staged_oid = Oid(tree.index[p])
    BY <1>3 DEF Record
<1>5. /\ e.staged_oid = Oid(tree.index[p])
      /\ \/ r.status[2] = "."
         \/ r.worktree_mode # ABSENT_MODE /\ CheckoutOid(tree.disk[p]) = r.staged_oid
    <2> HIDE DEF r
    <2>1. e = ClearIfPhantom(r, tree.disk[p])
        BY DEF Cleared, r
    <2> HIDE DEF e
    <2> QED BY <1>2, <1>4, <2>1 DEF ClearIfPhantom, IsDeleted
<1>6. CASE r.status[2] = "."
    <2>1. tree.index[p] \in {Absent, tree.disk[p]} \/ p \in vouched
        BY <1>4, <1>6 DEF Letters, DiskLetter
    <2>2. CASE p \in vouched
        BY <1>1, <1>5, <2>2 DEF Phantoms, Blobs
    <2>3. CASE tree.index[p] = tree.disk[p]
        BY <1>1, <1>5, <2>3 DEF Blobs, Oid
    <2>4. CASE tree.index[p] = Absent
        <3>1. tree.disk[p] = Absent
            BY <1>1, <1>3, <2>4 DEF Untracked
        <3> QED BY <1>1, <1>5, <2>4, <3>1 DEF Oid
    <2> QED BY <2>1, <2>2, <2>3, <2>4
<1>7. CASE r.worktree_mode # ABSENT_MODE /\ CheckoutOid(tree.disk[p]) = r.staged_oid
    <2>1. tree.disk[p] # Absent
        BY <1>4, <1>7 DEF Mode
    <2> QED BY <1>1, <1>4, <1>5, <1>7, <2>1 DEF Blobs
<1> QED BY <1>5, <1>6, <1>7

(* A path with a commit's side says that side.                              *)
LEMMA HeadSides ==
    ASSUME NEW tree, NEW vouched, NEW p \in DOMAIN Scan(tree, vouched), p \notin Untracked(tree)
    PROVE  /\ Scan(tree, vouched)[p].head_mode = Mode(tree.head[p])
           /\ Scan(tree, vouched)[p].head_oid = Oid(tree.head[p])
<1> DEFINE r == Record(tree, vouched, p)
           e == Cleared(tree, vouched, p)
<1>1. Scan(tree, vouched)[p] = e
    BY Scanned
<1>2. /\ DOMAIN r = {"status", "head_mode", "worktree_mode", "head_oid", "staged_oid", "worktree_oid"}
      /\ r.head_mode = Mode(tree.head[p]) /\ r.head_oid = Oid(tree.head[p])
    BY DEF Record
<1>3. e = r \/ e = [r EXCEPT !.status = <<r.status[1], ".">>]
    BY DEF Cleared, ClearIfPhantom
<1>4. e.head_mode = r.head_mode /\ e.head_oid = r.head_oid
    <2> HIDE DEF e, r
    <2> QED BY <1>2, <1>3
<1> QED BY <1>1, <1>2, <1>4

(* The dirty segment, path by path.                                         *)
EntryTypeOK(c) ==
    DOMAIN c = {"old_path", "status", "src_mode", "dst_mode", "src_oid", "dst_oid"}

(* The head side of a changed entry is the disk's, or not read yet.         *)
DiskSide(c, tree, p) ==
    /\ c.dst_mode = ABSENT_MODE <=> tree.disk[p] = Absent
    /\ tree.disk[p] = Absent => c.dst_oid = NoOid
    /\ tree.disk[p] # Absent => c.dst_oid \in Blobs(tree, p) \cup {NoOid}

LEMMA DirtyTold ==
    ASSUME NEW tree, AreTrees(tree), NEW entries, HashedOf(tree, entries), NEW mode, NEW hd
    PROVE  LET dirty == FromSnapshot(Snapshot(mode, hd, entries)) IN
           /\ DOMAIN dirty \subseteq Paths
           /\ \A p \in Paths \ DOMAIN dirty :
                /\ AsCommitted(tree.head[p]) = AsCommitted(tree.disk[p])
                /\ Oid(tree.head[p]) \in Blobs(tree, p)
                /\ tree.head[p] = Absent <=> tree.disk[p] = Absent
           /\ \A p \in DOMAIN dirty :
                /\ EntryTypeOK(dirty[p]) /\ dirty[p].old_path = NoPath
                /\ DiskSide(dirty[p], tree, p)
                /\ p \notin Untracked(tree) => dirty[p].src_oid = Oid(tree.head[p])
<1> DEFINE dirty == FromSnapshot(Snapshot(mode, hd, entries))
<1>1. PICK vouched \in SUBSET Phantoms(tree) : entries = HashPaths(Scan(tree, vouched), tree.disk)
    BY DEF HashedOf
<1>2. DOMAIN dirty = DOMAIN entries /\ DOMAIN entries = DOMAIN Scan(tree, vouched)
    BY <1>1 DEF FromSnapshot, Snapshot, HashPaths
<1>3. DOMAIN Scan(tree, vouched) \subseteq Paths
    BY Scanned
<1>4. ASSUME NEW p \in DOMAIN entries
      PROVE  /\ EntryTypeOK(dirty[p]) /\ dirty[p].old_path = NoPath
             /\ DiskSide(dirty[p], tree, p)
             /\ p \notin Untracked(tree) => dirty[p].src_oid = Oid(tree.head[p])
    <2> DEFINE e == entries[p]  s == Scan(tree, vouched)[p]
    <2>1. /\ EntryTypeOK(dirty[p]) /\ dirty[p].old_path = NoPath
          /\ dirty[p].dst_mode = e.worktree_mode /\ dirty[p].src_oid = e.head_oid
          /\ dirty[p].dst_oid = IF IsStaged(e) /\ IsWorktreeUnmodified(e) THEN e.staged_oid ELSE NoOid
        BY DEF FromSnapshot, Snapshot, ChangedEntry, EntryTypeOK
    <2>2. (e.worktree_mode = ABSENT_MODE) <=> (tree.disk[p] = Absent)
        BY <1>1, HashedEntries
    <2>3. DOMAIN s = EntryFields
        BY <1>1, <1>2, EntriesAreRecords DEF EntryFields
    <2>4. e = s \/ e = [s EXCEPT !.worktree_oid = Oid(tree.disk[p])]
        BY <1>1, <1>2 DEF HashPaths
    <2>5. e.status = s.status /\ e.staged_oid = s.staged_oid /\ e.head_oid = s.head_oid
        <3> HIDE DEF e, s
        <3> QED BY <2>3, <2>4 DEF EntryFields
    <2>6. IsStaged(e) /\ IsWorktreeUnmodified(e) =>
            IF tree.disk[p] = Absent THEN e.staged_oid = NoOid
            ELSE e.staged_oid \in Blobs(tree, p)
        BY <1>1, <1>2, <2>5, StagedBytes DEF IsStaged, IsWorktreeUnmodified
    <2>7. p \notin Untracked(tree) => e.head_oid = Oid(tree.head[p])
        BY <1>2, <2>5, HeadSides
    <2> HIDE DEF e, s, dirty
    <2> QED BY <2>1, <2>2, <2>6, <2>7 DEF DiskSide
<1>5. ASSUME NEW p \in Paths \ DOMAIN entries
      PROVE  /\ AsCommitted(tree.head[p]) = AsCommitted(tree.disk[p])
             /\ Oid(tree.head[p]) \in Blobs(tree, p)
             /\ tree.head[p] = Absent <=> tree.disk[p] = Absent
    BY <1>1, <1>2, UnscannedIsUnchanged
<1> HIDE DEF dirty
<1> QED BY <1>2, <1>3, <1>4, <1>5 DEF dirty

(* The names the renames among some paths left.                             *)
LeftBy(base, head, names) == {Origin(base, head, q) : q \in names}

(* What the change says of a tree, beside what is withheld from it.         *)
Whole(base, tree, changed, withheld) ==
    LET left == LeftBy(base, tree.head, DOMAIN changed \cup withheld) IN
    /\ DOMAIN changed \subseteq Paths
    /\ \A p \in Paths \ (DOMAIN changed \cup withheld \cup left) :
         /\ AsCommitted(base[p]) = AsCommitted(tree.disk[p])
         /\ \/ Oid(tree.head[p]) \in Blobs(tree, p)
            \/ base[p] = Absent /\ tree.disk[p] = Absent /\ tree.head[p] # Absent
    /\ \A p \in DOMAIN changed :
         /\ EntryTypeOK(changed[p])
         /\ changed[p].old_path = Origin(base, tree.head, p)
         /\ DiskSide(changed[p], tree, p)
         /\ p \notin Untracked(tree) \cup left =>
              changed[p].src_oid = Oid(Source(base, tree.head, p))

LEMMA UnionIsWhole ==
    ASSUME NEW base, IsTree(base), NEW tree, AreTrees(tree),
           NEW entries, HashedOf(tree, entries), NEW mode, NEW hd
    PROVE  Whole(base, tree,
                 Union(CommittedSegment(base, tree.head),
                       FromSnapshot(Snapshot(mode, hd, entries))), {})
<1> DEFINE head == tree.head
           committed == CommittedSegment(base, head)
           dirty == FromSnapshot(Snapshot(mode, hd, entries))
           changed == Union(committed, dirty)
           shown == Shown(base, head)
           both == DOMAIN committed \cap DOMAIN dirty
           vanished == {p \in both : committed[p].src_mode = ABSENT_MODE
                                       /\ dirty[p].dst_mode = ABSENT_MODE}
           left == LeftBy(base, head, DOMAIN changed)
<1>1. IsTree(head)
    BY DEF AreTrees
<1>2. committed = [p \in shown |-> SegmentEntry(base, head, p)]
    BY <1>1, SegmentTold
<1>3. DOMAIN committed = shown /\ shown \subseteq Paths
    BY <1>2 DEF Shown
<1>4. ASSUME NEW p \in shown
      PROVE  /\ EntryTypeOK(committed[p])
             /\ committed[p].old_path = Origin(base, head, p)
             /\ committed[p].src_mode = Mode(Source(base, head, p))
             /\ committed[p].src_oid = Oid(Source(base, head, p))
             /\ committed[p].dst_mode = Mode(head[p])
             /\ committed[p].dst_oid = Oid(head[p])
    BY <1>2 DEF SegmentEntry, ChangedEntry, EntryTypeOK
<1>5. /\ DOMAIN dirty \subseteq Paths
      /\ \A p \in Paths \ DOMAIN dirty :
           /\ AsCommitted(head[p]) = AsCommitted(tree.disk[p])
           /\ Oid(head[p]) \in Blobs(tree, p)
           /\ head[p] = Absent <=> tree.disk[p] = Absent
      /\ \A p \in DOMAIN dirty :
           /\ EntryTypeOK(dirty[p]) /\ dirty[p].old_path = NoPath
           /\ DiskSide(dirty[p], tree, p)
           /\ p \notin Untracked(tree) => dirty[p].src_oid = Oid(head[p])
    BY DirtyTold
<1>6. /\ DOMAIN changed = (DOMAIN committed \cup DOMAIN dirty) \ vanished
      /\ \A p \in DOMAIN changed :
           changed[p] = IF p \in both THEN Compose(committed[p], dirty[p])
                        ELSE IF p \in DOMAIN dirty THEN dirty[p]
                        ELSE committed[p]
    BY DEF Union
<1> HIDE DEF committed, dirty, changed, head
(* A path that vanished was on neither side, and renamed from nothing.      *)
<1>7. ASSUME NEW p \in vanished
      PROVE  base[p] = Absent /\ tree.disk[p] = Absent /\ Origin(base, head, p) = NoPath
    <2>1. p \in shown /\ Mode(Source(base, head, p)) = ABSENT_MODE
        BY <1>3, <1>4
    <2>2. tree.disk[p] = Absent
        BY <1>5 DEF DiskSide
    <2>3. Origin(base, head, p) = NoPath
        <3>1. SUFFICES ASSUME Origin(base, head, p) # NoPath PROVE FALSE
            OBVIOUS
        <3> DEFINE q == Origin(base, head, p)
        <3>2. q \in Paths /\ base[q] # Absent /\ Source(base, head, p) = base[q]
            BY <3>1, Origins DEF Source
        <3> QED BY <2>1, <3>2, Files3 DEF IsTree
    <2>4. Source(base, head, p) = base[p]
        BY <2>3 DEF Source
    <2>5. base[p] = Absent
        BY <1>3, <2>1, <2>4, Files3 DEF IsTree
    <2> QED BY <2>2, <2>3, <2>5
(* A path the diff does not show is the head's, or a rename's source, whose *)
(* target the change holds.                                                 *)
<1>8. ASSUME NEW p \in Paths \ shown, base[p] # head[p]
      PROVE  p \in left /\ head[p] = Absent
    <2>1. PICK q \in Paths : p = Origin(base, head, q)
        BY <1>8 DEF Shown
    <2>2. p # NoPath
        BY PathsAreNumbers DEF NoPath
    <2>3. /\ base[p] # Absent /\ head[p] = Absent
          /\ base[q] = Absent /\ head[q] # Absent
        BY <2>1, <2>2, Origins
    <2>4. q \notin {Origin(base, head, r) : r \in Paths}
        <3>1. SUFFICES ASSUME NEW r \in Paths, q = Origin(base, head, r) PROVE FALSE
            OBVIOUS
        <3>2. q # NoPath
            BY PathsAreNumbers DEF NoPath
        <3> QED BY <2>3, <3>1, <3>2, Origins
    <2>5. q \in shown
        BY <2>3, <2>4 DEF Shown
    <2>6. q \notin vanished
        BY <1>7, <2>1, <2>2
    <2>7. q \in DOMAIN changed
        BY <1>3, <1>6, <2>5, <2>6
    <2> QED BY <2>1, <2>3, <2>7 DEF LeftBy
<1>9. DOMAIN changed \subseteq Paths
    BY <1>3, <1>5, <1>6
<1>10. ASSUME NEW p \in Paths \ (DOMAIN changed \cup left)
       PROVE  /\ AsCommitted(base[p]) = AsCommitted(tree.disk[p])
              /\ \/ Oid(head[p]) \in Blobs(tree, p)
                 \/ base[p] = Absent /\ tree.disk[p] = Absent /\ head[p] # Absent
    <2>1. CASE p \in vanished
        <3>1. base[p] = Absent /\ tree.disk[p] = Absent
            BY <1>7, <2>1
        <3>2. head[p] = Absent => Oid(head[p]) \in Blobs(tree, p)
            BY <3>1 DEF Blobs
        <3> QED BY <3>1, <3>2
    <2>2. CASE p \notin vanished
        <3>1. p \notin shown /\ p \notin DOMAIN dirty
            BY <1>3, <1>6, <2>2
        <3>2. base[p] = head[p]
            BY <1>8, <3>1
        <3> QED BY <1>5, <3>1, <3>2
    <2> QED BY <2>1, <2>2
<1>11. ASSUME NEW p \in DOMAIN changed
       PROVE  /\ EntryTypeOK(changed[p])
              /\ changed[p].old_path = Origin(base, head, p)
              /\ DiskSide(changed[p], tree, p)
              /\ p \notin Untracked(tree) \cup left =>
                   changed[p].src_oid = Oid(Source(base, head, p))
    <2>1. CASE p \in both
        <3>1. changed[p] = Compose(committed[p], dirty[p])
            BY <1>6, <2>1
        <3>2. /\ EntryTypeOK(changed[p])
              /\ changed[p].old_path = committed[p].old_path
              /\ changed[p].src_oid = committed[p].src_oid
              /\ changed[p].dst_mode = dirty[p].dst_mode /\ changed[p].dst_oid = dirty[p].dst_oid
            BY <3>1 DEF Compose, ChangedEntry, EntryTypeOK
        <3> QED BY <1>3, <1>4, <1>5, <2>1, <3>2 DEF DiskSide
    <2>2. CASE p \notin both /\ p \in DOMAIN dirty
        <3>1. changed[p] = dirty[p] /\ p \in Paths \ shown
            BY <1>3, <1>5, <1>6, <2>2
        <3>2. Origin(base, head, p) = NoPath
            <4>1. CASE base[p] = head[p]
                BY <4>1 DEF Origin
            <4>2. CASE base[p] # head[p]
                BY <1>8, <3>1, <4>2 DEF Origin
            <4> QED BY <4>1, <4>2
        <3>3. p \notin left => Source(base, head, p) = head[p]
            BY <1>8, <3>1, <3>2 DEF Source
        <3> QED BY <1>5, <2>2, <3>1, <3>2, <3>3
    <2>3. CASE p \notin DOMAIN dirty
        <3>1. changed[p] = committed[p] /\ p \in shown /\ p \in Paths
            BY <1>3, <1>6, <2>3
        <3>2. /\ Oid(head[p]) \in Blobs(tree, p)
              /\ head[p] = Absent <=> tree.disk[p] = Absent
            BY <1>5, <2>3, <3>1
        <3>3. /\ Mode(head[p]) = ABSENT_MODE <=> head[p] = Absent
              /\ head[p] = Absent => Oid(head[p]) = NoOid
            BY <1>1, <3>1, Files3 DEF IsTree
        <3>4. DiskSide(changed[p], tree, p)
            BY <1>4, <3>1, <3>2, <3>3 DEF DiskSide
        <3> QED BY <1>4, <3>1, <3>4
    <2> QED BY <2>1, <2>2, <2>3
<1>12. DOMAIN changed \cup {} = DOMAIN changed
    OBVIOUS
<1> HIDE DEF left, shown, both, vanished
<1>13. Whole(base, tree, changed, {})
    BY <1>9, <1>10, <1>11, <1>12 DEF Whole, left, head
<1> QED BY <1>13 DEF changed, committed, dirty, head

LEMMA NothingToShow ==
    ASSUME NEW base, IsTree(base)
    PROVE  Shown(base, base) = {} /\ DOMAIN CommittedSegment(base, base) = {}
<1>1. Shown(base, base) = {}
    BY DEF Shown
<1>2. CommittedSegment(base, base) = [p \in Shown(base, base) |-> SegmentEntry(base, base, p)]
    BY SegmentTold
<1> QED BY <1>1, <1>2

LEMMA EnumerateIsWhole ==
    ASSUME HeadIsWorktree, AreTrees(Tree), run.anchor = repo.head, HashedOf(Tree, run.entries),
           NEW base, IsTree(TreeAt(base)), NEW mode, NEW hd
    PROVE  Whole(TreeAt(base), Tree, Enumerate(base, Snapshot(mode, hd, run.entries)), {})
<1> DEFINE dirty == FromSnapshot(Snapshot(mode, hd, run.entries))
           committed == CommittedSegment(TreeAt(base), Tree.head)
<1>1. Tree.head = TreeAt(run.anchor)
    BY DEF Tree
<1>2. Whole(TreeAt(base), Tree, Union(committed, dirty), {})
    BY UnionIsWhole
<1>3. CASE base # run.anchor
    <2>1. Enumerate(base, Snapshot(mode, hd, run.entries)) = Union(committed, dirty)
        BY <1>1, <1>3 DEF Enumerate
    <2> QED BY <1>2, <2>1
<1>4. CASE base = run.anchor
    <2>1. Enumerate(base, Snapshot(mode, hd, run.entries)) = dirty
        BY <1>4 DEF Enumerate
    <2>2. DOMAIN committed = {}
        BY <1>1, <1>4, NothingToShow
    <2>3. dirty = [p \in DOMAIN dirty |-> dirty[p]]
        BY DEF FromSnapshot
    <2> HIDE DEF dirty, committed
    <2>4. Union(committed, dirty) = [p \in DOMAIN dirty |-> dirty[p]]
        BY <2>2 DEF Union
    <2> QED BY <1>2, <2>1, <2>3, <2>4
<1> QED BY <1>3, <1>4

(* Exclusions take paths from the change and say which.                     *)
LEMMA WithholdingIsTold ==
    ASSUME NEW base, NEW tree, NEW changed, Whole(base, tree, changed, {}),
           NEW withheld \in SUBSET DOMAIN changed
    PROVE  Whole(base, tree, [p \in DOMAIN changed \ withheld |-> changed[p]], withheld)
<1> DEFINE kept == [p \in DOMAIN changed \ withheld |-> changed[p]]
<1>1. /\ DOMAIN kept = DOMAIN changed \ withheld
      /\ DOMAIN kept \cup withheld = DOMAIN changed \cup {}
      /\ \A p \in DOMAIN kept : kept[p] = changed[p]
    OBVIOUS
<1> HIDE DEF kept
<1> QED BY <1>1 DEF Whole, kept

(* Reading fills in the disk's bytes, or says which it could not read.      *)
LEMMA ReadingIsTold ==
    ASSUME NEW base, NEW tree, AreTrees(tree), NEW changed, NEW withheld,
           Whole(base, tree, changed, withheld), NEW store_writes
    PROVE  LET read == ReadWithoutStaging(changed, tree.disk, store_writes) IN
           /\ Whole(base, tree, read.changed, withheld)
           /\ \A p \in DOMAIN read.changed :
                p \notin read.unreadable /\ tree.disk[p] # Absent =>
                  read.changed[p].dst_oid \in Blobs(tree, p)
<1> DEFINE read == ReadWithoutStaging(changed, tree.disk, store_writes)
           pending == Pending(changed)
<1>1. /\ DOMAIN read.changed = DOMAIN changed
      /\ \A p \in DOMAIN changed :
           \/ read.changed[p] = changed[p] /\ (p \in pending => p \in read.unreadable)
           \/ p \in pending /\ read.changed[p] = [changed[p] EXCEPT !.dst_oid = Oid(tree.disk[p])]
    BY DEF ReadWithoutStaging
<1> HIDE DEF read
<1>2. ASSUME NEW p \in DOMAIN changed
      PROVE  /\ EntryTypeOK(read.changed[p])
             /\ read.changed[p].old_path = changed[p].old_path
             /\ read.changed[p].src_oid = changed[p].src_oid
             /\ DiskSide(read.changed[p], tree, p)
             /\ p \notin read.unreadable /\ tree.disk[p] # Absent =>
                  read.changed[p].dst_oid \in Blobs(tree, p)
    <2>1. EntryTypeOK(changed[p]) /\ DiskSide(changed[p], tree, p)
        BY DEF Whole
    <2>2. CASE read.changed[p] = changed[p] /\ (p \in pending => p \in read.unreadable)
        BY <2>1, <2>2 DEF DiskSide, Pending, Readable
    <2>3. CASE p \in pending
               /\ read.changed[p] = [changed[p] EXCEPT !.dst_oid = Oid(tree.disk[p])]
        <3>1. /\ EntryTypeOK(read.changed[p])
              /\ read.changed[p].old_path = changed[p].old_path
              /\ read.changed[p].src_oid = changed[p].src_oid
              /\ read.changed[p].dst_mode = changed[p].dst_mode
              /\ read.changed[p].dst_oid = Oid(tree.disk[p])
            BY <2>1, <2>3 DEF EntryTypeOK
        <3>2. tree.disk[p] # Absent
            BY <2>1, <2>3 DEF Pending, DiskSide
        <3> QED BY <2>1, <3>1, <3>2 DEF DiskSide, Blobs
    <2> QED BY <1>1, <2>2, <2>3
<1>3. Whole(base, tree, read.changed, withheld)
    BY <1>1, <1>2 DEF Whole
<1> QED BY <1>1, <1>2, <1>3 DEF read

(* The base a range is opened at is a commit, or none.                      *)
LEMMA BasesAreCommits ==
    ASSUME RepoTypeOK, run.request \in Requests
    PROVE  BaseCommit \in Commits \cup {NoCommit} /\ IsTree(TreeAt(BaseCommit))
<1>1. ASSUME NEW x, NEW y PROVE MergeBase(x, y) \in Commits \cup {NoCommit}
    BY DEF MergeBase, Lineage
<1>2. BaseCommit \in Commits \cup {NoCommit}
    BY <1>1, WorldsAreRepositories DEF BaseCommit, RepoTypeOK
<1>3. IsTree(TreeAt(BaseCommit))
    BY <1>2, HistoryIsKnown DEF TreeAt, EmptyTree, IsTree, IsFile
<1> QED BY <1>2, <1>3

-----------------------------------------------------------------------------
(* THE CHANGE REACHES EVERYONE                                              *)

RequestInv ==
    /\ run.request \in Requests
    /\ run.at \notin {"read", "measured"} => run.withheld = {}

(* From the range to the end of the run, as long as nobody edits.           *)
WholeInv ==
    Settled /\ HeadIsWorktree /\ run.at \in Resolved =>
        /\ run.anchor = repo.head
        /\ IsTree(BaseTree)
        /\ Whole(BaseTree, Tree, run.changed, run.withheld)
        /\ run.at # "policy" => run.policy = repo.disk[PolicyFile]
        /\ run.at = "measured" =>
             \A p \in DOMAIN run.changed :
               p \notin run.unreadable /\ repo.disk[p] # Absent =>
                 run.changed[p].dst_oid \in Blobs(Tree, p)

LEMMA RequestKept ==
    ASSUME RunTypeOK, RequestInv, [Next]_vars
    PROVE  RequestInv'
<1> USE DEF RunTypeOK, RunFields, RequestInv
<1>1. ASSUME NEW why, Refuse(why), run.at \notin {"read", "measured"} PROVE RequestInv'
    BY <1>1 DEF Refuse
<1>2. CASE Start
    <2>1. run' = NewRun(run.request)
        BY <1>2 DEF Start
    <2> QED BY <2>1 DEF NewRun
<1>3. CASE InProgressOperation
    BY <1>1, <1>3 DEF InProgressOperation
<1>4. CASE ReadUncommitted
    BY <1>4 DEF ReadUncommitted
<1>5. CASE OpenRange
    BY <1>1, <1>5 DEF OpenRange
<1>6. CASE ScanTree
    BY <1>1, <1>6 DEF ScanTree
<1>7. CASE HashTree
    BY <1>1, <1>7 DEF HashTree
<1>15. CASE ClearPhantoms
    BY <1>1, <1>15 DEF ClearPhantoms
<1>8. CASE Compare
    BY <1>1, <1>8 DEF Compare
<1>9. CASE DirtyDeadEnd
    BY <1>1, <1>9 DEF DirtyDeadEnd
<1>10. CASE LastMergedChange
    BY <1>1, <1>10 DEF LastMergedChange
<1>11. CASE LoadPolicy
    BY <1>11 DEF LoadPolicy
<1>12. CASE ReadBytes
    BY <1>12 DEF ReadBytes
<1>13. CASE Edit
    BY <1>13, WhoMoves
<1>14. CASE UNCHANGED vars
    BY <1>14 DEF vars
<1> QED BY <1>2, <1>3, <1>4, <1>5, <1>6, <1>7, <1>8, <1>9, <1>10, <1>11, <1>12, <1>13, <1>14, <1>15
        DEF Next, Measure, Resolve

LEMMA WholeAtComparing ==
    ASSUME RangeTypeOK, KeyInv, RequestInv, Compare
    PROVE  WholeInv'
<1>1. DOMAIN run = RunFields /\ repo' = repo /\ stirred' = stirred /\ run.at = "compare"
    BY DEF RangeTypeOK, RunTypeOK, Compare
<1>2. ASSUME NEW why, Refuse(why) PROVE WholeInv'
    BY <1>1, <1>2, Refusals DEF WholeInv, Resolved
<1>3. CASE run' = [run EXCEPT !.at = "rung", !.rung = @ + 1]
    <2>1. run'.at = "rung"
        BY <1>1, <1>3 DEF RunFields
    <2> QED BY <2>1 DEF WholeInv, Resolved
<1>4. CASE run' = [run EXCEPT !.at = "policy",
                     !.changed = Enumerate(BaseCommit, Snapshot("incremental", run.anchor, run.entries)),
                     !.context = WireContext(BaseCommit, Snapshot("incremental", run.anchor, run.entries))]
    <2> DEFINE snapshot == Snapshot("incremental", run.anchor, run.entries)
               base == BaseCommit
    <2>1. /\ run'.at = "policy" /\ run'.changed = Enumerate(base, snapshot)
          /\ run'.context = WireContext(base, snapshot)
          /\ run'.request = run.request /\ run'.uncommitted = run.uncommitted
          /\ run'.anchor = run.anchor /\ run'.withheld = run.withheld
        BY <1>1, <1>4 DEF RunFields
    <2>2. HeadIsWorktree' = HeadIsWorktree /\ Tree' = Tree
        BY <1>1, <2>1, HeadStays, TreeStays
    <2>3. SUFFICES ASSUME Settled, HeadIsWorktree
          PROVE  /\ run.anchor = repo.head /\ IsTree(BaseTree')
                 /\ Whole(BaseTree', Tree, Enumerate(base, snapshot), {})
        BY <1>1, <2>1, <2>2 DEF WholeInv, Settled, RequestInv
    <2>4. run.anchor = repo.head /\ HashedOf(Tree, run.entries)
        BY <1>1, <2>3 DEF KeyInv, Settled
    <2>5. IsTree(TreeAt(base))
        BY BasesAreCommits DEF RangeTypeOK, RequestInv
    <2>6. BaseTree' = TreeAt(base)
        <3>1. run'.context.base = base
            BY <2>1 DEF WireContext, NoContext
        <3> HIDE DEF base
        <3> QED BY <3>1 DEF BaseTree, TreeAt
    <2>7. AreTrees(Tree)
        BY Trees3 DEF RangeTypeOK
    <2>8. Whole(TreeAt(base), Tree, Enumerate(base, snapshot), {})
        <3> HIDE DEF base
        <3> QED BY <2>3, <2>4, <2>5, <2>7, EnumerateIsWhole
    <2> QED BY <2>4, <2>5, <2>6, <2>8
<1> QED BY <1>2, <1>3, <1>4 DEF Compare

LEMMA WholeAtPolicy ==
    ASSUME RangeTypeOK, RequestInv, WholeInv, LoadPolicy
    PROVE  WholeInv'
<1>1. DOMAIN run = RunFields /\ repo' = repo /\ stirred' = stirred /\ run.at = "policy"
    BY DEF RangeTypeOK, RunTypeOK, LoadPolicy
<1>2. PICK withheld \in SUBSET DOMAIN run.changed :
          run' = [run EXCEPT !.at = "read", !.policy = repo.disk[PolicyFile], !.withheld = withheld,
                    !.changed = [p \in DOMAIN run.changed \ withheld |-> run.changed[p]]]
    BY DEF LoadPolicy
<1>3. /\ run'.at = "read" /\ run'.changed = [p \in DOMAIN run.changed \ withheld |-> run.changed[p]]
      /\ run'.policy = repo.disk[PolicyFile] /\ run'.withheld = withheld
      /\ run'.request = run.request /\ run'.uncommitted = run.uncommitted
      /\ run'.context = run.context /\ run'.anchor = run.anchor
    BY <1>1, <1>2 DEF RunFields
<1>4. HeadIsWorktree' = HeadIsWorktree /\ Tree' = Tree /\ BaseTree' = BaseTree
    BY <1>1, <1>3, HeadStays, TreeStays DEF BaseTree, TreeAt
<1>5. SUFFICES ASSUME Settled, HeadIsWorktree
      PROVE  /\ run.anchor = repo.head /\ IsTree(BaseTree)
             /\ Whole(BaseTree, Tree, run'.changed, withheld)
    BY <1>1, <1>3, <1>4 DEF WholeInv, Settled
<1>6. /\ run.anchor = repo.head /\ IsTree(BaseTree)
      /\ Whole(BaseTree, Tree, run.changed, {})
    BY <1>1, <1>5 DEF WholeInv, RequestInv, Resolved
<1> QED BY <1>3, <1>6, WithholdingIsTold

LEMMA WholeAtReading ==
    ASSUME RangeTypeOK, WholeInv, ReadBytes
    PROVE  WholeInv'
<1>1. DOMAIN run = RunFields /\ repo' = repo /\ stirred' = stirred /\ run.at = "read"
    BY DEF RangeTypeOK, RunTypeOK, ReadBytes
<1>2. \/ run' = [run EXCEPT !.at = "measured"] /\ run.context.head_kind = "commit"
      \/ \E writes \in BOOLEAN :
           run' = [run EXCEPT !.at = "measured",
                     !.changed = ReadWithoutStaging(run.changed, repo.disk, writes).changed,
                     !.unreadable = ReadWithoutStaging(run.changed, repo.disk, writes).unreadable]
    BY DEF ReadBytes
<1>3. /\ run'.at = "measured"
      /\ run'.request = run.request /\ run'.uncommitted = run.uncommitted
      /\ run'.context = run.context /\ run'.anchor = run.anchor
      /\ run'.withheld = run.withheld /\ run'.policy = run.policy
      /\ \/ run.context.head_kind = "commit"
         \/ \E writes \in BOOLEAN :
              /\ run'.changed = ReadWithoutStaging(run.changed, repo.disk, writes).changed
              /\ run'.unreadable = ReadWithoutStaging(run.changed, repo.disk, writes).unreadable
    BY <1>1, <1>2 DEF RunFields
<1>4. HeadIsWorktree' = HeadIsWorktree /\ Tree' = Tree /\ BaseTree' = BaseTree
    BY <1>1, <1>3, HeadStays, TreeStays DEF BaseTree, TreeAt
<1>5. SUFFICES ASSUME Settled, HeadIsWorktree
      PROVE  /\ run.anchor = repo.head /\ IsTree(BaseTree)
             /\ Whole(BaseTree, Tree, run'.changed, run.withheld)
             /\ run.policy = repo.disk[PolicyFile]
             /\ \A p \in DOMAIN run'.changed :
                  p \notin run'.unreadable /\ repo.disk[p] # Absent =>
                    run'.changed[p].dst_oid \in Blobs(Tree, p)
    BY <1>1, <1>3, <1>4 DEF WholeInv, Settled
<1>6. /\ run.anchor = repo.head /\ IsTree(BaseTree)
      /\ Whole(BaseTree, Tree, run.changed, run.withheld)
      /\ run.policy = repo.disk[PolicyFile]
    BY <1>1, <1>5 DEF WholeInv, Resolved
<1>7. run.context.head_kind # "commit"
    BY <1>1, <1>5 DEF RangeTypeOK, RunTypeOK, Resolved
<1>8. PICK writes \in BOOLEAN :
          /\ run'.changed = ReadWithoutStaging(run.changed, repo.disk, writes).changed
          /\ run'.unreadable = ReadWithoutStaging(run.changed, repo.disk, writes).unreadable
    BY <1>3, <1>7
<1>9. AreTrees(Tree) /\ Tree.disk = repo.disk
    BY Trees3 DEF RangeTypeOK, Tree
<1>10. LET read == ReadWithoutStaging(run.changed, Tree.disk, writes) IN
       /\ Whole(BaseTree, Tree, read.changed, run.withheld)
       /\ \A p \in DOMAIN read.changed :
            p \notin read.unreadable /\ Tree.disk[p] # Absent =>
              read.changed[p].dst_oid \in Blobs(Tree, p)
    BY <1>6, <1>9, ReadingIsTold
<1> QED BY <1>6, <1>8, <1>9, <1>10

LEMMA WholeKept ==
    ASSUME RangeTypeOK, KeyInv, RequestInv, WholeInv, [Next]_vars
    PROVE  WholeInv'
<1>1. ASSUME run'.at \notin Resolved PROVE WholeInv'
    BY <1>1 DEF WholeInv, Resolved
<1>2. ASSUME NEW why, Refuse(why) PROVE WholeInv'
    BY <1>1, <1>2, Refusals DEF RangeTypeOK, RunTypeOK, Resolved
<1>3. CASE Start
    <2>1. run' = NewRun(run.request)
        BY <1>3 DEF Start
    <2> QED BY <1>1, <2>1 DEF NewRun, Resolved
<1>4. CASE InProgressOperation
    BY <1>1, <1>2, <1>4 DEF InProgressOperation, RangeTypeOK, RunTypeOK, RunFields, Resolved
<1>5. CASE ReadUncommitted
    BY <1>1, <1>5 DEF ReadUncommitted, RangeTypeOK, RunTypeOK, RunFields, Resolved
<1>6. CASE OpenRange
    <2>1. ASSUME NEW tried, NEW anchor,
                 run' = [run EXCEPT !.rung = NextRung, !.tried = tried, !.anchor = anchor,
                                    !.at = IF HeadIsWorktree THEN "scan" ELSE "compare"]
          PROVE  WholeInv'
        <3>1. run'.at = IF HeadIsWorktree THEN "scan" ELSE "compare"
            BY <2>1 DEF RangeTypeOK, RunTypeOK, RunFields
        <3> QED BY <1>1, <3>1 DEF Resolved
    <2> QED BY <1>2, <1>6, <2>1, ZenonT(60) DEF OpenRange
<1>7. CASE ScanTree
    BY <1>1, <1>2, <1>7 DEF ScanTree, RangeTypeOK, RunTypeOK, RunFields, Resolved
<1>8. CASE HashTree
    BY <1>1, <1>2, <1>8 DEF HashTree, RangeTypeOK, RunTypeOK, RunFields, Resolved
<1>16. CASE ClearPhantoms
    BY <1>1, <1>2, <1>16 DEF ClearPhantoms, RangeTypeOK, RunTypeOK, RunFields, Resolved
<1>9. CASE Compare
    BY <1>9, WholeAtComparing
<1>10. CASE DirtyDeadEnd
    BY <1>2, <1>10 DEF DirtyDeadEnd
<1>11. CASE LastMergedChange
    <2>1. ~ HeadIsWorktree
        BY <1>11 DEF LastMergedChange, HeadIsWorktree
    <2>2. ASSUME run'.request = run.request, run'.uncommitted = run.uncommitted PROVE WholeInv'
        BY <2>1, <2>2, HeadStays DEF WholeInv
    <2>3. run'.request = run.request /\ run'.uncommitted = run.uncommitted
        BY <1>11, Refusals DEF LastMergedChange, RangeTypeOK, RunTypeOK, RunFields
    <2> QED BY <2>2, <2>3
<1>12. CASE LoadPolicy
    BY <1>12, WholeAtPolicy
<1>13. CASE ReadBytes
    BY <1>13, WholeAtReading
<1>14. CASE Edit
    <2>1. run' = run /\ stirred' = IF run.at = "idle" THEN {} ELSE {"run", "scan"}
        BY <1>14, WhoMoves
    <2>2. CASE run.at = "idle"
        BY <1>1, <2>1, <2>2 DEF Resolved
    <2>3. CASE run.at # "idle"
        BY <2>1, <2>3 DEF WholeInv, Settled
    <2> QED BY <2>2, <2>3
<1>15. CASE UNCHANGED vars
    <2>1. run' = run /\ repo' = repo /\ stirred' = stirred
        BY <1>15 DEF vars
    <2>2. HeadIsWorktree' = HeadIsWorktree /\ Tree' = Tree /\ BaseTree' = BaseTree
        BY <2>1, HeadStays, TreeStays DEF BaseTree, TreeAt
    <2> QED BY <2>1, <2>2 DEF WholeInv, Settled
<1> QED BY <1>3, <1>4, <1>5, <1>6, <1>7, <1>8, <1>9, <1>10, <1>11, <1>12, <1>13, <1>14, <1>15, <1>16
        DEF Next, Measure, Resolve

LEMMA WholeHolds == Spec => [](RangeTypeOK /\ WholeInv)
<1> DEFINE Inv == RangeTypeOK /\ KeyInv /\ RequestInv /\ WholeInv
<1>1. Init => Inv
    <2> SUFFICES ASSUME Init PROVE Inv
        OBVIOUS
    <2>1. PICK r \in Requests : run = [NewRun(r) EXCEPT !.at = "idle"]
        BY DEF Init
    <2>2. run.at = "idle" /\ run.request = r /\ run.withheld = {}
        BY <2>1 DEF NewRun
    <2>3. RequestInv /\ WholeInv /\ KeyInv
        BY <2>2 DEF RequestInv, WholeInv, KeyInv, Resolved
    <2> QED BY <2>3, RangeStarts
<1>2. Inv /\ [Next]_vars => Inv'
    BY RangeTypesKept, KeyKept, RequestKept, WholeKept DEF RangeTypeOK
<1>3. Inv => RangeTypeOK /\ WholeInv
    OBVIOUS
<1> QED BY <1>1, <1>2, <1>3, PTL DEF Spec

(* What a settled measurement of a tree knows.                              *)
Settling ==
    /\ RangeTypeOK /\ OfTheTree /\ Settled
    /\ run.anchor = repo.head /\ IsTree(BaseTree) /\ AreTrees(Tree)
    /\ Whole(BaseTree, Tree, run.changed, run.withheld)
    /\ run.policy = repo.disk[PolicyFile]
    /\ \A p \in DOMAIN run.changed :
         p \notin run.unreadable /\ repo.disk[p] # Absent =>
           run.changed[p].dst_oid \in Blobs(Tree, p)

LEMMA OfTheTreeSettles ==
    ASSUME RangeTypeOK, WholeInv, OfTheTree, Settled
    PROVE  Settling
<1>1. HeadIsWorktree /\ run.at = "measured"
    BY DEF OfTheTree, Measured, RangeTypeOK, RunTypeOK, Resolved
<1>2. AreTrees(Tree)
    BY Trees3 DEF RangeTypeOK
<1> QED BY <1>1, <1>2 DEF WholeInv, Settling, Resolved

LEMMA SourcesAreLeft ==
    ASSUME Settling
    PROVE  /\ RenameSources = LeftBy(BaseTree, Tree.head, DOMAIN run.changed \cup run.withheld)
           /\ Tree.head = TreeAt(run.anchor) /\ Tree.disk = repo.disk
<1>1. Tree.head = TreeAt(run.anchor) /\ Tree.disk = repo.disk
    BY DEF Settling, Tree
<1>2. \A p \in DOMAIN run.changed : run.changed[p].old_path = Origin(BaseTree, Tree.head, p)
    BY DEF Settling, Whole
<1> QED BY <1>1, <1>2 DEF RenameSources, LeftBy

LEMMA EnginesGetAll == ASSUME Settling PROVE ChangeIsWhole
<1>1. Differs(BaseTree, repo.disk) \subseteq DOMAIN run.changed \cup run.withheld \cup RenameSources
    <2>1. \A p \in Paths \ (DOMAIN run.changed \cup run.withheld \cup RenameSources) :
             AsCommitted(BaseTree[p]) = AsCommitted(repo.disk[p])
        BY SourcesAreLeft DEF Settling, Whole
    <2> QED BY <2>1 DEF Differs
<1>2. ASSUME NEW p \in DOMAIN run.changed
      PROVE  LET e == run.changed[p] IN
             /\ (e.dst_mode = ABSENT_MODE) = (repo.disk[p] = Absent)
             /\ p \notin run.unreadable /\ repo.disk[p] # Absent =>
                  e.dst_oid \in Blobs(Tree, p)
             /\ p \notin Untracked(Tree) \cup RenameSources =>
                  e.src_oid = Oid(BaseTree[IF e.old_path = NoPath THEN p ELSE e.old_path])
    <2> DEFINE e == run.changed[p]
    <2>1. /\ e.old_path = Origin(BaseTree, Tree.head, p)
          /\ DiskSide(e, Tree, p)
          /\ p \notin Untracked(Tree) \cup RenameSources =>
               e.src_oid = Oid(Source(BaseTree, Tree.head, p))
        BY SourcesAreLeft DEF Settling, Whole
    <2>2. p \notin run.unreadable /\ repo.disk[p] # Absent => e.dst_oid \in Blobs(Tree, p)
        BY DEF Settling
    <2>3. Source(BaseTree, Tree.head, p) = BaseTree[IF e.old_path = NoPath THEN p ELSE e.old_path]
        BY <2>1 DEF Source
    <2> HIDE DEF e
    <2>4. (e.dst_mode = ABSENT_MODE) <=> (repo.disk[p] = Absent)
        BY <2>1 DEF DiskSide, Tree
    <2>5. (e.dst_mode = ABSENT_MODE) = (repo.disk[p] = Absent)
        BY <2>4
    <2> QED BY <2>1, <2>2, <2>3, <2>5 DEF e
<1> QED BY <1>1, <1>2 DEF ChangeIsWhole

LEMMA SuiteGetsAll == ASSUME Settling PROVE SuiteRunsOnTheTree
<1>1. SUFFICES ASSUME run.unreadable = {}, run.withheld = {}, NEW p \in SuiteMisses, p \notin RenameSources
               PROVE  p \in Vanished
    BY DEF SuiteRunsOnTheTree, WholeTree
<1> DEFINE changed == run.changed
           overlay == SandboxOverlay(changed)
           tree == TreeAt(run.anchor)
           Laid1(e) == \E i \in 1 .. Len(overlay) : overlay[i] = e
<1>2. p \in Paths /\ Oid(SandboxTree[p]) \notin Blobs(Tree, p)
    BY <1>1 DEF SuiteMisses
<1>3. SandboxTree = ApplyOverlay(tree, overlay)
    BY DEF Settling, OfTheTree, SandboxTree
<1>4. DOMAIN tree = Paths
    BY SourcesAreLeft DEF Settling, AreTrees, IsTree
<1>5. /\ DOMAIN changed \subseteq Paths
      /\ \A q \in DOMAIN changed :
           /\ changed[q].old_path \in RenameSources
           /\ DiskSide(changed[q], Tree, q)
           /\ repo.disk[q] # Absent => changed[q].dst_oid \in Blobs(Tree, q)
    BY <1>1, SourcesAreLeft DEF Settling, Whole, RenameSources
<1>6. /\ Len(overlay) \in Nat
      /\ \A e : Laid1(e) <=> \E q \in DOMAIN changed : e \in Laid(changed, q)
    BY <1>5, OverlayTold
<1> HIDE DEF overlay, changed, tree
<1>7. ASSUME NEW q \in DOMAIN changed, NEW e \in Laid(changed, q)
      PROVE  /\ IsOid(e.oid)
             /\ e.path = p => q = p /\ e.oid = changed[p].dst_oid
    <2>1. CASE e = Removal(changed[q].old_path)
        BY <1>1, <1>5, <2>1 DEF Removal, IsOid
    <2>2. CASE e = Removal(q) /\ changed[q].dst_mode = ABSENT_MODE
        BY <1>5, <2>2 DEF Removal, IsOid, DiskSide
    <2>3. CASE e = Written(changed, q)
        <3>1. IsOid(changed[q].dst_oid)
            BY <1>5, OidsAreOids DEF DiskSide, Blobs, IsOid
        <3> QED BY <2>3, <3>1 DEF Written
    <2> QED BY <1>7, <2>1, <2>2, <2>3 DEF Laid
<1>8. \A i \in 1 .. Len(overlay) :
        IsOid(overlay[i].oid) /\ (overlay[i].path = p => overlay[i].oid = changed[p].dst_oid)
    <2>1. ASSUME NEW i \in 1 .. Len(overlay)
          PROVE  IsOid(overlay[i].oid) /\ (overlay[i].path = p => overlay[i].oid = changed[p].dst_oid)
        <3>1. PICK q \in DOMAIN changed : overlay[i] \in Laid(changed, q)
            BY <1>6
        <3> QED BY <1>7, <3>1
    <2> QED BY <2>1
<1>9. /\ (\E i \in 1 .. Len(overlay) : overlay[i].path = p) =>
           Oid(SandboxTree[p]) = changed[p].dst_oid
      /\ ~ (\E i \in 1 .. Len(overlay) : overlay[i].path = p) =>
           Oid(SandboxTree[p]) = Oid(tree[p])
    <2> DEFINE oid == changed[p].dst_oid
    <2>1. p \in DOMAIN tree /\ Len(overlay) \in Nat
        BY <1>2, <1>4, <1>6
    <2>2. \A i \in 1 .. Len(overlay) :
            IsOid(overlay[i].oid) /\ (overlay[i].path = p => overlay[i].oid = oid)
        BY <1>8
    <2> HIDE DEF oid
    <2>3. /\ (\E i \in 1 .. Len(overlay) : overlay[i].path = p) =>
               Oid(ApplyOverlay(tree, overlay)[p]) = oid
          /\ ~ (\E i \in 1 .. Len(overlay) : overlay[i].path = p) =>
               Oid(ApplyOverlay(tree, overlay)[p]) = Oid(tree[p])
        BY <2>1, <2>2, Replayed, ZenonT(60)
    <2> QED BY <1>3, <2>3 DEF oid
<1>10. CASE p \in DOMAIN changed
    <2>1. \E e \in Laid(changed, p) : e.path = p
        <3>1. CASE changed[p].dst_mode = ABSENT_MODE
            <4>1. Removal(p) \in Laid(changed, p)
                BY <3>1 DEF Laid
            <4>2. Removal(p).path = p
                BY DEF Removal
            <4> QED BY <4>1, <4>2
        <3>2. CASE changed[p].dst_mode # ABSENT_MODE
            <4>1. repo.disk[p] # Absent
                BY <1>10, <1>5, <3>2 DEF DiskSide, Tree
            <4>2. NoOid \notin Blobs(Tree, p)
                BY <1>2, <4>1, BlobsOfFiles, SourcesAreLeft DEF Settling, AreTrees, IsTree
            <4>3. Readable(changed[p])
                BY <1>10, <1>5, <4>1, <4>2 DEF Readable
            <4>4. Written(changed, p) \in Laid(changed, p) /\ Written(changed, p).path = p
                BY <3>2, <4>3 DEF Laid, Written
            <4> QED BY <4>4
        <3> QED BY <3>1, <3>2
    <2>2. \E i \in 1 .. Len(overlay) : overlay[i].path = p
        BY <1>6, <1>10, <2>1
    <2>3. Oid(SandboxTree[p]) = changed[p].dst_oid
        BY <1>9, <2>2
    <2>4. changed[p].dst_oid \in Blobs(Tree, p)
        BY <1>10, <1>5 DEF DiskSide, Tree, Blobs, Oid
    <2> QED BY <1>2, <2>3, <2>4
<1>11. CASE p \notin DOMAIN changed
    <2>1. ~ \E i \in 1 .. Len(overlay) : overlay[i].path = p
        <3>1. SUFFICES ASSUME NEW i \in 1 .. Len(overlay), overlay[i].path = p PROVE FALSE
            OBVIOUS
        <3>2. PICK q \in DOMAIN changed : overlay[i] \in Laid(changed, q)
            BY <1>6
        <3> QED BY <1>7, <1>11, <3>1, <3>2
    <2>2. Oid(tree[p]) \notin Blobs(Tree, p)
        BY <1>2, <1>9, <2>1
    <2>3. run.withheld = {} /\ tree = Tree.head /\ Tree.disk = repo.disk
          /\ RenameSources = LeftBy(BaseTree, Tree.head, DOMAIN changed \cup run.withheld)
        BY <1>1, SourcesAreLeft DEF tree, changed
    <2>4. p \in Paths \ (DOMAIN changed \cup run.withheld
                           \cup LeftBy(BaseTree, Tree.head, DOMAIN changed \cup run.withheld))
        BY <1>1, <1>2, <1>11, <2>3
    <2>5. \/ Oid(Tree.head[p]) \in Blobs(Tree, p)
          \/ BaseTree[p] = Absent /\ Tree.disk[p] = Absent /\ Tree.head[p] # Absent
        <3>1. Whole(BaseTree, Tree, changed, run.withheld)
            BY DEF Settling, changed
        <3> QED BY <2>4, <3>1 DEF Whole
    <2>6. BaseTree[p] = Absent /\ repo.disk[p] = Absent /\ tree[p] # Absent
        BY <2>2, <2>3, <2>5
    <2> QED BY <1>2, <2>6 DEF Vanished, tree
<1> QED BY <1>10, <1>11

LEMMA PolicyIsSeen == ASSUME Settling PROVE PolicyEditsAreSeen
<1> DEFINE P == PolicyFile
           changed == run.changed
<1>1. SUFFICES ASSUME ~ PolicyIsRenamed,
                      P \notin run.unreadable \cup run.withheld \cup Untracked(Tree),
                      AsCommitted(run.policy) # AsCommitted(BaseTree[P])
               PROVE  /\ PolicyChange(changed) # <<>>
                      /\ PolicyChange(changed)[1] = Oid(BaseTree[P])
                      /\ PolicyChange(changed)[2] \in Blobs(Tree, P)
    BY DEF PolicyEditsAreSeen
<1>2. run.policy = repo.disk[P] /\ P \in Paths /\ P \notin RenameSources
    BY <1>1, HistoryIsKnown DEF Settling, PolicyIsRenamed
<1>3. P \in DOMAIN changed
    BY <1>1, <1>2, SourcesAreLeft DEF Settling, Whole
<1>4. changed[P].old_path = NoPath
    BY <1>1, <1>3 DEF PolicyIsRenamed
<1>5. {p \in DOMAIN changed : p = P \/ changed[p].old_path = P} = {P}
    BY <1>2, <1>3 DEF RenameSources
<1>6. Min({P}) = P
    BY <1>2, PathsAreNumbers, LeastIsThere
<1>7. PolicyChange(changed) = <<changed[P].src_oid, changed[P].dst_oid>>
    <2> HIDE DEF changed, P
    <2> QED BY <1>5, <1>6 DEF PolicyChange, P
<1>8. /\ changed[P].src_oid = Oid(BaseTree[P])
      /\ repo.disk[P] # Absent => changed[P].dst_oid \in Blobs(Tree, P)
      /\ repo.disk[P] = Absent => changed[P].dst_oid = NoOid
    <2>1. /\ changed[P].old_path = Origin(BaseTree, Tree.head, P)
          /\ changed[P].src_oid = Oid(Source(BaseTree, Tree.head, P))
          /\ DiskSide(changed[P], Tree, P)
        BY <1>1, <1>2, <1>3, SourcesAreLeft DEF Settling, Whole
    <2>2. Source(BaseTree, Tree.head, P) = BaseTree[P]
        BY <1>4, <2>1 DEF Source
    <2>3. repo.disk[P] # Absent => changed[P].dst_oid \in Blobs(Tree, P)
        BY <1>1, <1>3 DEF Settling
    <2> QED BY <2>1, <2>2, <2>3 DEF DiskSide, Tree
<1>9. changed[P].dst_oid \in Blobs(Tree, P)
    BY <1>8 DEF Blobs, Oid, Tree
<1> HIDE DEF P, changed
<1> QED BY <1>7, <1>8, <1>9

(* Whoever is handed the change of a tree nobody edits once its range is    *)
(* open is handed all of it: the engines every path, with the base's side   *)
(* and the disk's (diff.rs), the suite the tree (sandbox_snapshot,          *)
(* measure.rs:897), the policy check both sides of the policy               *)
(* (detect_policy_change, measure.rs:985).                                  *)
THEOREM ChangeAlwaysReachesEveryone == Spec => []ChangeReachesEveryone
<1>1. RangeTypeOK /\ WholeInv => ChangeReachesEveryone
    <2> SUFFICES ASSUME RangeTypeOK, WholeInv PROVE ChangeReachesEveryone
        OBVIOUS
    <2>1. CASE OfTheTree /\ Settled
        <3>1. Settling
            BY <2>1, OfTheTreeSettles
        <3> QED BY <3>1, EnginesGetAll, SuiteGetsAll, PolicyIsSeen DEF ChangeReachesEveryone
    <2>2. CASE ~ (OfTheTree /\ Settled)
        BY <2>2 DEF ChangeReachesEveryone, ChangeIsWhole, SuiteRunsOnTheTree, WholeTree,
                    PolicyEditsAreSeen
    <2> QED BY <2>1, <2>2
<1> QED BY <1>1, WholeHolds, PTL

=============================================================================
