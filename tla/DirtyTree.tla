----------------------------- MODULE DirtyTree -----------------------------
(***************************************************************************)
(* What git says of a working tree, what Andon keeps of it, and the change *)
(* it makes of the two: porcelain records, the dirty snapshot, the         *)
(* committed segment, their union, the bytes that are read afterwards and  *)
(* the overlay the sandbox replays (andon-core/src/git/status.rs, diff.rs; *)
(* andon-cli/src/measure.rs).                                              *)
(*                                                                         *)
(* A file is <<text, line ending, mode>> and a blob id is the pair of the  *)
(* first two: under Andon's pins a file hashes as it lies on disk, and     *)
(* under the checkout's own conversion a CRLF file hashes as its LF form.  *)
(* A digest is the value it is taken over.                                 *)
(***************************************************************************)
EXTENDS Naturals, SequencesExt

CONSTANTS
    Paths,            \* file names, numbered in the order they sort
    Awkward,          \* the names `hash-object --stdin-paths` cannot carry
    CheckoutConverts  \* core.autocrlf wrote this checkout's files

ASSUME PathsAreOrdered ==
    /\ IsFiniteSet(Paths) /\ Paths = 1 .. Cardinality(Paths)
    /\ Awkward \subseteq Paths
ASSUME ConversionIsKnown == CheckoutConverts \in BOOLEAN

Absent == <<>>
NoOid == <<>>
ABSENT_MODE == "000000"

Oid(file) == IF file = Absent THEN NoOid ELSE <<file[1], file[2]>>
Mode(file) == IF file = Absent THEN ABSENT_MODE ELSE file[3]

\* The id a file would have if the checkout's own conversion spoke.
CheckoutOid(file) ==
    IF CheckoutConverts /\ file # Absent THEN <<file[1], "lf">> ELSE Oid(file)

\* The file `git add` would put in the index.
Cleaned(file) ==
    IF file = Absent THEN Absent
    ELSE <<CheckoutOid(file)[1], CheckoutOid(file)[2], Mode(file)>>

-----------------------------------------------------------------------------
(* The scan: one porcelain-v2 record for each path that differs.           *)

\* Modified only by the conversion that wrote it: git's stat cache may or may
\* not still vouch for such a file, so a status may report it or not.
Phantoms(tree) ==
    {p \in Paths : /\ tree.index[p] # Absent
                   /\ tree.disk[p] # Absent
                   /\ Mode(tree.disk[p]) = Mode(tree.index[p])
                   /\ Oid(tree.disk[p]) # Oid(tree.index[p])
                   /\ CheckoutOid(tree.disk[p]) = Oid(tree.index[p])}

IndexLetter(tree, p) ==
    LET old == tree.head[p]  new == tree.index[p] IN
    IF old = new THEN "." ELSE IF old = Absent THEN "A" ELSE IF new = Absent THEN "D" ELSE "M"

DiskLetter(tree, p, vouched) ==
    LET staged == tree.index[p]  now == tree.disk[p] IN
    IF staged \in {Absent, now} \/ p \in vouched THEN "." ELSE IF now = Absent THEN "D" ELSE "M"

Untracked(tree) == {p \in Paths : tree.index[p] = Absent /\ tree.disk[p] # Absent}

\* parse_porcelain_v2. A path taken out of the index and left on disk has two
\* records, and the later one, the untracked file, is the one that is kept.
ParsePorcelain(tree, vouched) ==
    LET letters(p) == <<IndexLetter(tree, p), DiskLetter(tree, p, vouched)>>
        tracked == {p \in Paths : letters(p) # <<".", ".">>}
    IN [p \in tracked \cup Untracked(tree) |->
          IF p \in Untracked(tree)
          THEN [status |-> <<"?", "?">>, head_mode |-> ABSENT_MODE,
                worktree_mode |-> "100644", head_oid |-> NoOid,
                staged_oid |-> NoOid, worktree_oid |-> NoOid]
          ELSE [status |-> letters(p), head_mode |-> Mode(tree.head[p]),
                worktree_mode |-> Mode(tree.disk[p]),
                head_oid |-> Oid(tree.head[p]),
                staged_oid |-> Oid(tree.index[p]), worktree_oid |-> NoOid]]

IsDeleted(entry) == entry.worktree_mode = ABSENT_MODE
IsStaged(entry) == entry.status[1] \notin {".", "?"}
IsWorktreeModified(entry) == entry.status[2] = "M"
IsWorktreeUnmodified(entry) == entry.status[2] = "."
IsNoChange(entry) == entry.status = <<".", ".">>

\* An entry whose bytes hash, in the terms that produced them, to the index's
\* blob and whose mode did not move was never modified.
ClearIfPhantom(entry, file) ==
    IF /\ IsWorktreeModified(entry)
       /\ entry.staged_oid # NoOid
       /\ ~IsDeleted(entry)
       /\ entry.head_mode \in {ABSENT_MODE, entry.worktree_mode}
       /\ CheckoutOid(file) = entry.staged_oid
    THEN [entry EXCEPT !.status = <<entry.status[1], ".">>]
    ELSE entry

\* The entries whose bytes the checkout's own conversion is asked about.
Suspects(entries) ==
    {p \in DOMAIN entries : /\ IsWorktreeModified(entries[p])
                            /\ entries[p].staged_oid # NoOid /\ ~IsDeleted(entries[p])}

\* Mutant: what the pins see is dirt.
KeepPhantoms(entries, disk) == entries

DropConversionPhantoms(entries, disk) ==
    LET cleared == [p \in DOMAIN entries |-> ClearIfPhantom(entries[p], disk[p])]
    IN [p \in {q \in DOMAIN entries : ~IsNoChange(cleared[q])} |-> cleared[p]]

\* The records an incremental snapshot keeps, before anything is hashed.
Scan(tree, vouched) ==
    DropConversionPhantoms(ParsePorcelain(tree, vouched), tree.disk)

ToHash(entries) == {p \in DOMAIN entries : ~IsDeleted(entries[p])}

\* hash_paths: one batched call, which fails as a whole.
CanHash(paths, disk) == paths \cap Awkward = {} /\ \A p \in paths : disk[p] # Absent

HashPaths(entries, disk) ==
    [p \in DOMAIN entries |->
       IF IsDeleted(entries[p]) THEN entries[p]
       ELSE [entries[p] EXCEPT !.worktree_oid = Oid(disk[p])]]

\* The digest names the anchor, how the snapshot was taken and every entry.
Snapshot(mode, head, entries) == [mode |-> mode, head |-> head, entries |-> entries]

\* The fallback: every tracked file hashed again, whatever status says.
FullRehash(tree, head) ==
    Snapshot("full-rehash", head,
       [p \in {q \in Paths : tree.index[q] # Absent} |->
          [status |-> <<".", ".">>, head_mode |-> Mode(tree.index[p]),
           worktree_mode |-> IF tree.disk[p] = Absent THEN ABSENT_MODE
                             ELSE Mode(tree.index[p]),
           head_oid |-> NoOid, staged_oid |-> Oid(tree.index[p]),
           worktree_oid |-> Oid(tree.disk[p])]])

-----------------------------------------------------------------------------
(* The change.                                                             *)

NoPath == 0

ChangedEntry(old, status, src, dst, src_oid, dst_oid) ==
    [old_path |-> old, status |-> status, src_mode |-> src, dst_mode |-> dst,
     src_oid |-> src_oid, dst_oid |-> dst_oid]

StatusOf(old, src, dst) ==
    IF src = ABSENT_MODE THEN "A"
    ELSE IF dst = ABSENT_MODE THEN "D"
    ELSE IF old # NoPath THEN "R" ELSE "M"

\* What each path has to say, in the order the paths sort.
InOrder(parts) ==
    LET upto[n \in 0 .. Cardinality(Paths)] ==
          IF n = 0 THEN <<>>
          ELSE IF n \in DOMAIN parts THEN upto[n - 1] \o parts[n]
          ELSE upto[n - 1]
    IN upto[Cardinality(Paths)]

\* The path an added one was renamed from: a deleted one with the same blob.
Origin(base, head, p) ==
    LET sources == {q \in Paths : /\ base[q] # Absent /\ head[q] = Absent
                                  /\ Oid(base[q]) = Oid(head[p])}
    IN IF base[p] # Absent \/ head[p] = Absent \/ sources = {} THEN NoPath
       ELSE Min(sources)

\* The paths a diff has a record for: a rename's source is told in its target's.
Shown(base, head) ==
    {p \in Paths : base[p] # head[p]} \ {Origin(base, head, p) : p \in Paths}

Source(base, head, p) ==
    LET origin == Origin(base, head, p) IN base[IF origin = NoPath THEN p ELSE origin]

\* A meta record, then one path, or a rename's source and destination.
RecordOf(base, head, p) ==
    LET origin == Origin(base, head, p)
        src == Source(base, head, p)
        meta == <<Mode(src), Mode(head[p]), Oid(src), Oid(head[p]),
                  StatusOf(origin, Mode(src), Mode(head[p]))>>
    IN IF origin = NoPath THEN <<meta, <<p>> >> ELSE <<meta, <<origin>>, <<p>> >>

\* diff-tree -z --raw --find-renames between two trees, as a stream of records.
DiffTree(base, head) ==
    InOrder([p \in Shown(base, head) |-> RecordOf(base, head, p)])

With(entries, p, entry) ==
    [q \in DOMAIN entries \cup {p} |-> IF q = p THEN entry ELSE entries[q]]

\* parse_raw: a rename's record carries its source first.
TakeRecord(parsed, record) ==
    LET meta == parsed.meta IN
    IF meta = <<>> THEN [parsed EXCEPT !.meta = record]
    ELSE IF meta[5] = "R" /\ parsed.old = NoPath
    THEN [parsed EXCEPT !.old = record[1]]
    ELSE [meta |-> <<>>, old |-> NoPath,
          entries |-> With(parsed.entries, record[1],
                           ChangedEntry(parsed.old, meta[5], meta[1], meta[2],
                                        meta[3], meta[4]))]

NothingParsed == [meta |-> <<>>, old |-> NoPath, entries |-> <<>>]

ParseRaw(stream) ==
    LET parsed[n \in 0 .. Len(stream)] ==
          IF n = 0 THEN NothingParsed ELSE TakeRecord(parsed[n - 1], stream[n])
    IN parsed[Len(stream)].entries

CommittedSegment(base, head) == ParseRaw(DiffTree(base, head))

\* The index blob is the head side only where it is what the tree holds.
FromSnapshot(snapshot) ==
    [p \in DOMAIN snapshot.entries |->
       LET e == snapshot.entries[p] IN
       ChangedEntry(NoPath, StatusOf(NoPath, e.head_mode, e.worktree_mode),
                    e.head_mode, e.worktree_mode, e.head_oid,
                    IF IsStaged(e) /\ IsWorktreeUnmodified(e) THEN e.staged_oid
                    ELSE NoOid)]

\* A path both segments describe: the base side from the committed entry, the
\* head side from the snapshot.
Compose(committed, dirty) ==
    ChangedEntry(committed.old_path,
                 StatusOf(committed.old_path, committed.src_mode, dirty.dst_mode),
                 committed.src_mode, dirty.dst_mode, committed.src_oid, dirty.dst_oid)

Union(committed, dirty) ==
    LET both == DOMAIN committed \cap DOMAIN dirty
        vanished == {p \in both : committed[p].src_mode = ABSENT_MODE
                                    /\ dirty[p].dst_mode = ABSENT_MODE}
    IN [p \in (DOMAIN committed \cup DOMAIN dirty) \ vanished |->
          IF p \in both THEN Compose(committed[p], dirty[p])
          ELSE IF p \in DOMAIN dirty THEN dirty[p]
          ELSE committed[p]]

-----------------------------------------------------------------------------
(* Reading what was never staged, and replaying it.                        *)

Readable(entry) == entry.dst_oid # NoOid

Pending(changed) ==
    {p \in DOMAIN changed : changed[p].dst_mode # ABSENT_MODE /\ ~Readable(changed[p])}

\* `hash-object -w` over every pending path at once, from the disk as it is by
\* then; one file gone, or a store that refuses the write, and none is read.
ReadWithoutStaging(changed, disk, store_writes) ==
    LET pending == Pending(changed) IN
    IF store_writes /\ \A p \in pending : disk[p] # Absent
    THEN [changed |-> [p \in DOMAIN changed |->
                         IF p \in pending
                         THEN [changed[p] EXCEPT !.dst_oid = Oid(disk[p])]
                         ELSE changed[p]],
          unreadable |-> {}]
    ELSE [changed |-> changed, unreadable |-> pending]

Removal(p) == [path |-> p, oid |-> NoOid, executable |-> FALSE]

\* The overlay of an uncommitted head, in path order: a rename's source and a
\* deleted path are removed, a readable path is written.
OverlayOf(changed, p) ==
    LET e == changed[p] IN
    (IF e.old_path \in {NoPath, p} THEN <<>> ELSE <<Removal(e.old_path)>>)
    \o (IF e.dst_mode = ABSENT_MODE THEN <<Removal(p)>>
        ELSE IF Readable(e)
        THEN <<[path |-> p, oid |-> e.dst_oid, executable |-> e.dst_mode = "100755"]>>
        ELSE <<>>)

SandboxOverlay(changed) == InOrder([p \in DOMAIN changed |-> OverlayOf(changed, p)])

\* Writing keeps the mode of a file that is there, and only ever adds the
\* executable bit.
ApplyOverlayEntry(tree, e) ==
    [tree EXCEPT ![e.path] =
       IF e.oid = NoOid THEN Absent
       ELSE <<e.oid[1], e.oid[2],
              IF e.executable THEN "100755"
              ELSE IF @ = Absent THEN "100644" ELSE Mode(@)>>]

ApplyOverlay(tree, overlay) ==
    LET after[n \in 0 .. Len(overlay)] ==
          IF n = 0 THEN tree ELSE ApplyOverlayEntry(after[n - 1], overlay[n])
    IN after[Len(overlay)]
=============================================================================
