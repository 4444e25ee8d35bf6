---------------------------- MODULE Ledger_proofs -----------------------------
(***************************************************************************)
(* Proofs about NotesLedger: in every instance where a migration has its   *)
(* clone to itself, no step of any command loses a record, on any clone or *)
(* on any remote, and a sync that reports success has worked both ways.    *)
(* And about Verifier, for every number and kind of reports the ledger     *)
(* holds: what a confirmation and an accusation rest on, and that neither  *)
(* measuring nor verifying again ever improves the answer.                 *)
(***************************************************************************)
EXTENDS NotesLedger, Verifier, FiniteSetTheorems, TLAPS


(* The part of the invariant that speaks of notes commits only. *)
StoreInv ==
    /\ hist \in [Versions -> SUBSET Versions]
    /\ notes \in [Versions -> Trees]
    /\ used \in Versions
    /\ HistoryShape
    /\ HistoryGrows

(* What a step may do to the store: versions that exist never change. *)
StoreKept ==
    /\ used' \in used .. used + 1
    /\ \A v \in 0 .. used : notes'[v] = notes[v] /\ hist'[v] = hist[v]

------------------------------------------------------------------------------
(* Containment of trees is reflexive and transitive. *)
LEMMA WithinTrans ==
    ASSUME NEW a \in Trees, NEW b \in Trees, NEW d \in Trees,
           Within(a, b), Within(b, d)
    PROVE  Within(a, d)
BY DEF Within

LEMMA WithinRefl == \A a \in Trees : Within(a, a) /\ Within(NoNotes, a)
BY DEF Within, Trees, NoNotes

(* A version's notes contain those of every version whose history it has. *)
LEMMA HistoryMeansNotes ==
    ASSUME StoreInv, NEW v \in 0 .. used, NEW w \in 0 .. used,
           hist[v] \subseteq hist[w]
    PROVE  Within(notes[v], notes[w])
<1>0. used \in Nat /\ 0 .. used \subseteq Versions /\ 1 .. used \subseteq Versions
    BY BoundsAssumption DEF StoreInv, Versions
<1>1. CASE v = 0
    <2>1. 0 \in Versions /\ 0 \notin 1 .. used
        BY <1>0
    <2>2. notes[v] = NoNotes
        BY <2>1, <1>1 DEF StoreInv, HistoryShape
    <2>3. notes[w] \in Trees
        BY <1>0 DEF StoreInv
    <2> QED BY <2>2, <2>3, WithinRefl
<1>2. CASE v # 0
    <2>1. v \in 1 .. used
        BY <1>2, <1>0
    <2>2. v \in hist[w]
        BY <2>1 DEF StoreInv, HistoryShape
    <2> QED BY <2>2, <1>0 DEF StoreInv, HistoryGrows
<1> QED BY <1>1, <1>2

(* A new version over parents whose notes its tree contains keeps the      *)
(* store well formed and every existing version as it was.                 *)
LEMMA NewVersionKeepsStore ==
    ASSUME StoreInv,
           NEW c \in Clones, NEW P \in SUBSET (0 .. used), NEW T \in Trees,
           \A p \in P : Within(notes[p], T),
           NewVersion(c, P, T)
    PROVE  /\ StoreInv'
           /\ StoreKept
           /\ used' = used + 1 /\ used + 1 \in Versions
           /\ notes'[used + 1] = T
           /\ hist'[used + 1] = {used + 1} \union UNION {hist[p] : p \in P}
<1> DEFINE n == used + 1
           H == {n} \union UNION {hist[p] : p \in P}
<1>0. /\ used \in Nat /\ n \in Versions /\ n \in Nat /\ n # 0
      /\ 0 .. used \subseteq Versions /\ n \notin 0 .. used
      /\ used' = n
      /\ hist' = [hist EXCEPT ![n] = H]
      /\ notes' = [notes EXCEPT ![n] = T]
    BY BoundsAssumption DEF StoreInv, Versions, NewVersion
<1>1. /\ hist'[n] = H /\ notes'[n] = T
      /\ \A v \in Versions : v # n => hist'[v] = hist[v] /\ notes'[v] = notes[v]
    BY <1>0 DEF StoreInv
<1>2. StoreKept
    <2>1. \A v \in 0 .. used : v # n /\ v \in Versions
        BY <1>0
    <2>2. used' \in used .. used + 1
        BY <1>0
    <2> QED BY <1>1, <2>1, <2>2 DEF StoreKept
<1>3. \A p \in P : p \in 0 .. used /\ p \in Versions /\ hist[p] \subseteq 1 .. used
    BY <1>0 DEF StoreInv, HistoryShape
<1>4. H \subseteq 1 .. n /\ H \subseteq Versions
    <2>1. 1 .. used \subseteq 1 .. n /\ n \in 1 .. n /\ 1 .. n \subseteq Versions
        BY <1>0, BoundsAssumption DEF Versions
    <2> QED BY <2>1, <1>3
<1>5. /\ hist' \in [Versions -> SUBSET Versions]
      /\ notes' \in [Versions -> Trees]
      /\ used' \in Versions
    BY <1>0, <1>4 DEF StoreInv
<1>6. HistoryShape'
    <2>1. \A v \in Versions : hist'[v] \subseteq 1 .. n
        <3> TAKE v \in Versions
        <3>1. hist[v] \subseteq 1 .. used /\ 1 .. used \subseteq 1 .. n
            BY <1>0 DEF StoreInv, HistoryShape
        <3> QED BY <3>1, <1>1, <1>4
    <2>2. \A v \in 1 .. n : v \in hist'[v]
        <3> TAKE v \in 1 .. n
        <3>1. CASE v = n
            BY <3>1, <1>1
        <3>2. CASE v # n
            <4>1. v \in 1 .. used /\ v \in Versions
                BY <3>2, <1>0
            <4> QED BY <4>1, <3>2, <1>1 DEF StoreInv, HistoryShape
        <3> QED BY <3>1, <3>2
    <2>3. \A v \in Versions : v \notin 1 .. n => hist'[v] = {} /\ notes'[v] = NoNotes
        <3> TAKE v \in Versions
        <3> HAVE v \notin 1 .. n
        <3>1. v # n /\ v \notin 1 .. used
            BY <1>0
        <3> QED BY <3>1, <1>1 DEF StoreInv, HistoryShape
    <2>4. \A v, w \in Versions : v \in hist'[w] => hist'[v] \subseteq hist'[w]
        <3> TAKE v, w \in Versions
        <3> HAVE v \in hist'[w]
        <3>1. CASE w # n
            <4>1. v \in hist[w] /\ v \in 1 .. used
                BY <3>1, <1>1 DEF StoreInv, HistoryShape
            <4>2. v # n
                BY <4>1, <1>0
            <4> QED BY <3>1, <4>1, <4>2, <1>1 DEF StoreInv, HistoryShape
        <3>2. CASE w = n /\ v = n
            BY <3>2
        <3>3. CASE w = n /\ v # n
            <4>1. PICK p \in P : v \in hist[p]
                BY <3>3, <1>1
            <4>2. hist[v] \subseteq hist[p]
                BY <4>1, <1>3 DEF StoreInv, HistoryShape
            <4> QED BY <4>2, <3>3, <1>1
        <3> QED BY <3>1, <3>2, <3>3
    <2> QED BY <2>1, <2>2, <2>3, <2>4, <1>0 DEF HistoryShape
<1>7. HistoryGrows'
    <2> SUFFICES ASSUME NEW v \in Versions, NEW w \in Versions, v \in hist'[w]
                 PROVE  Within(notes'[v], notes'[w])
        BY DEF HistoryGrows, Within
    <2>1. CASE w # n
        <3>1. v \in hist[w] /\ v \in 1 .. used
            BY <2>1, <1>1 DEF StoreInv, HistoryShape
        <3>2. v # n
            BY <3>1, <1>0
        <3> QED BY <2>1, <3>1, <3>2, <1>1 DEF StoreInv, HistoryGrows
    <2>2. CASE w = n /\ v = n
        BY <2>2, <1>1, WithinRefl
    <2>3. CASE w = n /\ v # n
        <3>1. PICK p \in P : v \in hist[p]
            BY <2>3, <1>1
        <3>2. Within(notes[v], notes[p])
            BY <3>1, <1>3 DEF StoreInv, HistoryGrows
        <3>3. notes[v] \in Trees /\ notes[p] \in Trees
            BY <1>3 DEF StoreInv
        <3>4. Within(notes[v], T)
            BY <3>2, <3>3, WithinTrans
        <3> QED BY <3>4, <2>3, <1>1
    <2> QED BY <2>1, <2>2, <2>3
<1> QED BY <1>0, <1>1, <1>2, <1>5, <1>6, <1>7 DEF StoreInv

------------------------------------------------------------------------------
(* The invariant of one clone, and the invariant put together from them. *)
CloneInv(c) ==
    /\ local[c] \in 0 .. used
    /\ tracking[c] \in 0 .. used
    /\ sync[c] \in Syncs
    /\ mig[c] \in Migrations
    /\ Syncing(c) => Within(sync[c].began, notes[local[c]])
    /\ sync[c].phase = "merge" => Within(sync[c].saw, notes[tracking[c]])
    /\ sync[c].phase \in {"push", "refetch", "remerge"} =>
          Within(sync[c].saw, notes[local[c]])
    /\ sync[c].phase = "push" => hist[tracking[c]] \subseteq hist[local[c]]
    /\ \E m \in Remotes : hist[tracking[c]] \subseteq hist[remote[m]]
    /\ Migrating(c) => /\ ~ Syncing(c)
                       /\ notes[local[c]][mig[c].to] \subseteq mig[c].merged

(* The functions' domains, and the bounds. *)
Shapes ==
    /\ spare \in Versions
    /\ local \in [Clones -> Versions]
    /\ tracking \in [Clones -> Versions]
    /\ remote \in [Remotes -> Versions]
    /\ sync \in [Clones -> Syncs]
    /\ mig \in [Clones -> Migrations]

LEMMA LedgerInvByClone ==
    LedgerInv <=> /\ StoreInv
                  /\ Shapes
                  /\ \A m \in Remotes : remote[m] \in 0 .. used
                  /\ \A c \in Clones : CloneInv(c)
BY DEF LedgerInv, TypeOK, RefsExist, SyncProgress, TrackingIsRemote,
       MigrationIsFresh, StoreInv, Shapes, CloneInv

(* Nothing but clone c's own refs and processes moves. *)
Elsewhere(c) ==
    \A d \in Clones \ {c} : /\ local'[d] = local[d]
                            /\ tracking'[d] = tracking[d]
                            /\ sync'[d] = sync[d]
                            /\ mig'[d] = mig[d]

(* Remotes only move forward, to versions that exist. *)
RemotesAdvance ==
    \A m \in Remotes : /\ remote'[m] \in 0 .. used'
                       /\ hist[remote[m]] \subseteq hist'[remote'[m]]

(* A clone that a step does not touch keeps its invariant. *)
LEMMA OthersKeepInv ==
    ASSUME LedgerInv, StoreKept, RemotesAdvance,
           NEW c \in Clones, Elsewhere(c), NEW d \in Clones \ {c}
    PROVE  CloneInv(d)'
<1>1. CloneInv(d) /\ used \in Nat
    BY LedgerInvByClone, BoundsAssumption DEF StoreInv, Versions
<1>2. 0 .. used \subseteq 0 .. used'
    BY <1>1 DEF StoreKept
<1>3. /\ notes'[local[d]] = notes[local[d]] /\ hist'[local[d]] = hist[local[d]]
      /\ notes'[tracking[d]] = notes[tracking[d]]
      /\ hist'[tracking[d]] = hist[tracking[d]]
    BY <1>1 DEF StoreKept, CloneInv
<1>4. /\ local'[d] = local[d] /\ tracking'[d] = tracking[d]
      /\ sync'[d] = sync[d] /\ mig'[d] = mig[d]
    BY DEF Elsewhere
<1>5. \E m \in Remotes : hist'[tracking'[d]] \subseteq hist'[remote'[m]]
    <2>1. PICK m \in Remotes : hist[tracking[d]] \subseteq hist[remote[m]]
        BY <1>1 DEF CloneInv
    <2>2. hist[remote[m]] \subseteq hist'[remote'[m]]
        BY DEF RemotesAdvance
    <2> QED BY <2>1, <2>2, <1>3, <1>4
<1>6. /\ local'[d] \in 0 .. used' /\ tracking'[d] \in 0 .. used'
      /\ sync'[d] \in Syncs /\ mig'[d] \in Migrations
    BY <1>1, <1>2, <1>4 DEF CloneInv
<1> QED BY <1>1, <1>3, <1>4, <1>5, <1>6 DEF CloneInv, Syncing, Migrating, Within

(* A step that adds no version leaves the store alone. *)
LEMMA StoreUnchanged ==
    ASSUME LedgerInv, UNCHANGED store
    PROVE  StoreInv' /\ StoreKept
<1>0. StoreInv
    BY LedgerInvByClone
<1>1. hist' = hist /\ notes' = notes /\ used' = used
    BY DEF store
<1>2. HistoryShape' /\ HistoryGrows'
    BY <1>0, <1>1 DEF StoreInv, HistoryShape, HistoryGrows, Within
<1>3. StoreInv'
    BY <1>0, <1>1, <1>2 DEF StoreInv
<1>4. used \in Nat
    BY <1>0, BoundsAssumption DEF StoreInv, Versions
<1>5. StoreKept
    BY <1>1, <1>4 DEF StoreKept
<1> QED BY <1>3, <1>5

(* git notes merge loses nothing of either side: the new local ref has the *)
(* records and the history of both, and no record neither side had.        *)
LEMMA MergeKeepsBoth ==
    ASSUME LedgerInv, NEW c \in Clones, MergeTracking(c)
    PROVE  /\ StoreInv' /\ StoreKept
           /\ local' \in [Clones -> Versions]
           /\ \A d \in Clones \ {c} : local'[d] = local[d]
           /\ local'[c] \in 0 .. used'
           /\ Within(notes[local[c]], notes'[local'[c]])
           /\ Within(notes[tracking[c]], notes'[local'[c]])
           /\ hist[tracking[c]] \subseteq hist'[local'[c]]
           /\ \A k \in Commits : notes'[local'[c]][k] \subseteq
                 notes[local[c]][k] \union notes[tracking[c]][k]
<1> DEFINE ours == local[c]
           theirs == tracking[c]
<1>0. /\ StoreInv /\ local \in [Clones -> Versions]
      /\ ours \in 0 .. used /\ theirs \in 0 .. used
      /\ used \in Nat /\ used \in Versions
      /\ 0 .. used \subseteq Versions /\ 1 .. used \subseteq 0 .. used
      /\ notes[ours] \in Trees /\ notes[theirs] \in Trees
    <2>1. StoreInv /\ local \in [Clones -> Versions] /\ CloneInv(c)
        BY LedgerInvByClone DEF Shapes
    <2>2. used \in Nat /\ used \in Versions /\ 0 .. used \subseteq Versions
        BY <2>1, BoundsAssumption DEF StoreInv, Versions
    <2> QED BY <2>1, <2>2 DEF StoreInv, CloneInv
<1>1. CASE UNCHANGED <<store, local>> /\ hist[theirs] \subseteq hist[ours]
    <2>1. Within(notes[theirs], notes[ours])
        BY <1>0, <1>1, HistoryMeansNotes
    <2>2. StoreInv' /\ StoreKept
        BY <1>1, StoreUnchanged DEF store
    <2> QED BY <1>0, <1>1, <2>1, <2>2, WithinRefl DEF store
<1>2. CASE /\ hist[ours] \subseteq hist[theirs]
           /\ local' = [local EXCEPT ![c] = theirs]
           /\ UNCHANGED store
    <2>1. Within(notes[ours], notes[theirs])
        BY <1>0, <1>2, HistoryMeansNotes
    <2>2. StoreInv' /\ StoreKept
        BY <1>2, StoreUnchanged
    <2> QED BY <1>0, <1>2, <2>1, <2>2, WithinRefl DEF store
<1>3. ASSUME NEW base \in MergeBases(ours, theirs),
             NewVersion(c, {ours, theirs},
                        [k \in Commits |-> MergedNote(notes[base][k],
                                                      notes[ours][k],
                                                      notes[theirs][k])])
      PROVE  /\ StoreInv' /\ StoreKept
             /\ local' \in [Clones -> Versions]
             /\ \A d \in Clones \ {c} : local'[d] = local[d]
             /\ local'[c] \in 0 .. used'
             /\ Within(notes[local[c]], notes'[local'[c]])
             /\ Within(notes[tracking[c]], notes'[local'[c]])
             /\ hist[tracking[c]] \subseteq hist'[local'[c]]
             /\ \A k \in Commits : notes'[local'[c]][k] \subseteq
                   notes[local[c]][k] \union notes[tracking[c]][k]
    <2> DEFINE T == [k \in Commits |-> MergedNote(notes[base][k],
                                                  notes[ours][k],
                                                  notes[theirs][k])]
    <2>1. /\ base \in Versions /\ notes[base] \in Trees
          /\ Within(notes[base], notes[ours]) /\ Within(notes[base], notes[theirs])
        <3>1. CASE base = 0
            <4>1. 0 \in Versions /\ 0 \notin 1 .. used
                BY <1>0
            <4>2. notes[0] = NoNotes
                BY <4>1, <1>0 DEF StoreInv, HistoryShape
            <4> QED BY <4>1, <4>2, <3>1, <1>0, WithinRefl DEF StoreInv
        <3>2. CASE base \in hist[ours] \intersect hist[theirs]
            <4>1. base \in Versions
                BY <3>2, <1>0 DEF StoreInv
            <4> QED BY <4>1, <3>2, <1>0 DEF StoreInv, HistoryGrows
        <3> QED BY <3>1, <3>2 DEF MergeBases
    <2>2. /\ T \in Trees
          /\ Within(notes[ours], T) /\ Within(notes[theirs], T)
          /\ \A k \in Commits : T[k] \subseteq notes[ours][k] \union notes[theirs][k]
        BY <2>1, <1>0 DEF MergedNote, Within, Trees
    <2>3. {ours, theirs} \in SUBSET (0 .. used)
        BY <1>0
    <2>4. NewVersion(c, {ours, theirs}, T)
        BY <1>3
    <2>5. /\ StoreInv' /\ StoreKept
          /\ used' = used + 1 /\ used + 1 \in Versions
          /\ notes'[used + 1] = T
          /\ hist'[used + 1] = {used + 1} \union UNION {hist[p] : p \in {ours, theirs}}
        <3> HIDE DEF T, ours, theirs
        <3>1. \A p \in {ours, theirs} : Within(notes[p], T)
            BY <2>2
        <3> QED BY <3>1, <2>2, <2>3, <2>4, <1>0, NewVersionKeepsStore
    <2>6. local' = [local EXCEPT ![c] = used + 1]
        BY <2>4 DEF NewVersion
    <2>7. /\ local'[c] = used + 1 /\ local' \in [Clones -> Versions]
          /\ \A d \in Clones \ {c} : local'[d] = local[d]
          /\ local'[c] \in 0 .. used'
        BY <2>5, <2>6, <1>0
    <2> HIDE DEF T
    <2> QED BY <2>2, <2>5, <2>7
<1>4. CASE tracking[c] = 0 /\ UNCHANGED <<store, local>>
    <2>1. hist[theirs] = {}
        BY <1>4, <1>0 DEF StoreInv, HistoryShape
    <2> QED BY <1>1, <1>4, <2>1
<1> QED BY <1>1, <1>2, <1>3, <1>4 DEF MergeTracking, GitNotesMerge

------------------------------------------------------------------------------
(* A step of clone c keeps the invariant if it keeps the store, moves the  *)
(* remotes forward only, and leaves c itself in order.                     *)
LEMMA StepKeepsInv ==
    ASSUME LedgerInv, NEW c \in Clones,
           StoreInv', StoreKept, Shapes', RemotesAdvance, Elsewhere(c),
           CloneInv(c)'
    PROVE  LedgerInv'
<1>1. \A d \in Clones : CloneInv(d)'
    <2> TAKE d \in Clones
    <2> QED BY OthersKeepInv
<1>2. \A m \in Remotes : remote'[m] \in 0 .. used'
    BY DEF RemotesAdvance
<1> QED BY <1>1, <1>2
    DEF LedgerInv, TypeOK, RefsExist, SyncProgress, TrackingIsRemote,
        MigrationIsFresh, StoreInv, Shapes, CloneInv

LEMMA RemotesUnchanged ==
    ASSUME LedgerInv, StoreKept, UNCHANGED remote
    PROVE  RemotesAdvance
<1>1. used \in Nat /\ \A m \in Remotes : remote[m] \in 0 .. used
    BY LedgerInvByClone, BoundsAssumption DEF StoreInv, Versions
<1> QED BY <1>1 DEF StoreKept, RemotesAdvance

(* A command that adds a version to c's ref, with at least the old notes. *)
LEMMA AppendVersion ==
    ASSUME LedgerInv, NEW c \in Clones, NEW T \in Trees,
           Within(notes[local[c]], T), NewVersion(c, {local[c]}, T)
    PROVE  /\ StoreInv' /\ StoreKept
           /\ local' \in [Clones -> Versions]
           /\ \A d \in Clones \ {c} : local'[d] = local[d]
           /\ local'[c] \in 0 .. used'
           /\ notes'[local'[c]] = T
           /\ hist[local[c]] \subseteq hist'[local'[c]]
<1>1. StoreInv /\ local \in [Clones -> Versions] /\ local[c] \in 0 .. used
      /\ used \in Nat
    BY LedgerInvByClone, BoundsAssumption DEF Shapes, CloneInv, StoreInv, Versions
<1>2. /\ StoreInv' /\ StoreKept
      /\ used' = used + 1 /\ used + 1 \in Versions
      /\ notes'[used + 1] = T
      /\ hist'[used + 1] = {used + 1} \union UNION {hist[p] : p \in {local[c]}}
    <2>1. {local[c]} \in SUBSET (0 .. used) /\ \A p \in {local[c]} : Within(notes[p], T)
        BY <1>1
    <2> QED BY <2>1, <1>1, NewVersionKeepsStore
<1>3. local' = [local EXCEPT ![c] = used + 1]
    BY DEF NewVersion
<1> QED BY <1>1, <1>2, <1>3

------------------------------------------------------------------------------
(* One lemma per command: each keeps the invariant. *)

LEMMA AppendRecordInv ==
    ASSUME LedgerInv, MigrateAlone, NEW c \in Clones, NEW k \in Commits,
           NEW r \in Records, AppendRecord(c, k, r)
    PROVE  LedgerInv'
<1> DEFINE T == [notes[local[c]] EXCEPT ![k] = @ \union {r}]
<1>1. Shapes /\ CloneInv(c) /\ StoreInv /\ used \in Nat /\ notes[local[c]] \in Trees
    BY LedgerInvByClone, BoundsAssumption DEF Shapes, StoreInv, CloneInv, Versions
<1>2. T \in Trees /\ Within(notes[local[c]], T)
    BY <1>1 DEF Trees, Within
<1>3. NewVersion(c, {local[c]}, T) /\ UNCHANGED <<tracking, remote, sync, mig>>
      /\ spare' = spare - 1 /\ spare >= 1 /\ ~ Migrating(c)
    BY DEF AppendRecord, Claim, Free
<1> HIDE DEF T
<1>4. /\ StoreInv' /\ StoreKept
      /\ local' \in [Clones -> Versions]
      /\ \A d \in Clones \ {c} : local'[d] = local[d]
      /\ local'[c] \in 0 .. used'
      /\ notes'[local'[c]] = T
      /\ hist[local[c]] \subseteq hist'[local'[c]]
    BY <1>2, <1>3, AppendVersion
<1>5. Shapes'
    BY <1>1, <1>3, <1>4, BoundsAssumption DEF Shapes, Versions
<1>6. RemotesAdvance
    BY <1>3, <1>4, RemotesUnchanged
<1>7. Elsewhere(c)
    BY <1>3, <1>4 DEF Elsewhere
<1>8. CloneInv(c)'
    <2>1. tracking[c] \in 0 .. used' /\ notes'[tracking[c]] = notes[tracking[c]]
          /\ hist'[tracking[c]] = hist[tracking[c]]
        BY <1>1, <1>4 DEF StoreKept, CloneInv
    <2>2. \E m \in Remotes : hist'[tracking[c]] \subseteq hist'[remote'[m]]
        BY <1>1, <1>6, <2>1 DEF CloneInv, RemotesAdvance
    <2>3. /\ Syncing(c) => Within(sync[c].began, T)
          /\ sync[c].phase \in {"push", "refetch", "remerge"} =>
                Within(sync[c].saw, T)
        BY <1>1, <1>2 DEF CloneInv, Within
    <2>4. sync[c].phase = "push" => hist[tracking[c]] \subseteq hist'[local'[c]]
        BY <1>1, <1>4 DEF CloneInv
    <2> QED BY <1>1, <1>3, <1>4, <2>1, <2>2, <2>3, <2>4
            DEF CloneInv, Syncing, Migrating, Within
<1> QED BY <1>4, <1>5, <1>6, <1>7, <1>8, StepKeepsInv

LEMMA MigrateReadInv ==
    ASSUME LedgerInv, MigrateAlone, NEW c \in Clones, NEW from \in Commits,
           NEW to \in Commits, MigrateRead(c, from, to)
    PROVE  LedgerInv'
<1>1. Shapes /\ CloneInv(c) /\ StoreInv /\ used \in Nat /\ notes[local[c]] \in Trees
    BY LedgerInvByClone, BoundsAssumption DEF Shapes, StoreInv, CloneInv, Versions
<1>2. /\ UNCHANGED <<store, local, tracking, remote, sync>>
      /\ spare' = spare - 1 /\ spare >= 1 /\ ~ Syncing(c)
      /\ mig' = [mig EXCEPT ![c] =
                   [phase  |-> "read",
                    to     |-> to,
                    merged |-> notes[local[c]][to] \union notes[local[c]][from]]]
    BY DEF MigrateRead, MigratedNote, Claim
<1>3. /\ mig'[c].phase = "read" /\ mig'[c].to = to
      /\ notes[local[c]][to] \subseteq mig'[c].merged
      /\ mig'[c] \in Migrations /\ mig' \in [Clones -> Migrations]
      /\ \A d \in Clones \ {c} : mig'[d] = mig[d]
    BY <1>1, <1>2 DEF Shapes, Migrations, Trees
<1>4. StoreInv' /\ StoreKept
    BY <1>2, StoreUnchanged
<1>5. Shapes'
    BY <1>1, <1>2, <1>3, BoundsAssumption DEF Shapes, Versions
<1>6. RemotesAdvance
    BY <1>2, <1>4, RemotesUnchanged
<1>7. Elsewhere(c)
    BY <1>2, <1>3 DEF Elsewhere
<1>8. CloneInv(c)'
    BY <1>1, <1>2, <1>3 DEF CloneInv, Syncing, Migrating, Within, store
<1> QED BY <1>4, <1>5, <1>6, <1>7, <1>8, StepKeepsInv

LEMMA MigrateWriteInv ==
    ASSUME LedgerInv, MigrateAlone, NEW c \in Clones, MigrateWrite(c)
    PROVE  LedgerInv' /\ Within(notes[local[c]], notes'[local'[c]])
<1> DEFINE T == [notes[local[c]] EXCEPT ![mig[c].to] = mig[c].merged]
<1>1. Shapes /\ CloneInv(c) /\ StoreInv /\ used \in Nat /\ notes[local[c]] \in Trees
    BY LedgerInvByClone, BoundsAssumption DEF Shapes, StoreInv, CloneInv, Versions
<1>2. /\ NewVersion(c, {local[c]}, T)
      /\ UNCHANGED <<spare, tracking, remote, sync>>
      /\ mig' = [mig EXCEPT ![c] = NotMigrating]
      /\ Migrating(c) /\ ~ Syncing(c)
    BY <1>1 DEF MigrateWrite, CloneInv
<1>3. T \in Trees /\ Within(notes[local[c]], T)
    BY <1>1, <1>2 DEF CloneInv, Migrations, Trees, Within
<1> HIDE DEF T
<1>4. /\ StoreInv' /\ StoreKept
      /\ local' \in [Clones -> Versions]
      /\ \A d \in Clones \ {c} : local'[d] = local[d]
      /\ local'[c] \in 0 .. used'
      /\ notes'[local'[c]] = T
      /\ hist[local[c]] \subseteq hist'[local'[c]]
    BY <1>2, <1>3, AppendVersion
<1>5. /\ NotMigrating \in Migrations /\ NotMigrating.phase = "idle"
      /\ mig' \in [Clones -> Migrations] /\ mig'[c] = NotMigrating
      /\ \A d \in Clones \ {c} : mig'[d] = mig[d]
    BY <1>1, <1>2, SomewhereAssumption DEF NotMigrating, Migrations, Shapes
<1>6. Shapes'
    BY <1>1, <1>2, <1>4, <1>5 DEF Shapes
<1>7. RemotesAdvance
    BY <1>2, <1>4, RemotesUnchanged
<1>8. Elsewhere(c)
    BY <1>2, <1>4, <1>5 DEF Elsewhere
<1>9. CloneInv(c)'
    <2>1. tracking[c] \in 0 .. used' /\ hist'[tracking[c]] = hist[tracking[c]]
        BY <1>1, <1>4 DEF StoreKept, CloneInv
    <2>2. \E m \in Remotes : hist'[tracking[c]] \subseteq hist'[remote'[m]]
        BY <1>1, <1>7, <2>1 DEF CloneInv, RemotesAdvance
    <2> QED BY <1>1, <1>2, <1>4, <1>5, <2>1, <2>2
            DEF CloneInv, Syncing, Migrating, Running
<1> QED BY <1>3, <1>4, <1>6, <1>7, <1>8, <1>9, StepKeepsInv

------------------------------------------------------------------------------
(* The steps of a sync. *)

(* What c's refs look like after a step that only moves its sync along. *)
LEMMA SyncStepFrame ==
    ASSUME LedgerInv, NEW c \in Clones,
           UNCHANGED <<store, local, tracking, mig>>,
           spare' \in Versions, remote' \in [Remotes -> Versions],
           RemotesAdvance, NEW s \in Syncs, sync' = [sync EXCEPT ![c] = s],
           Syncing(c)' => /\ ~ Migrating(c)
                          /\ Within(s.began, notes[local[c]]),
           s.phase = "merge" => Within(s.saw, notes[tracking[c]]),
           s.phase \in {"push", "refetch", "remerge"} =>
              Within(s.saw, notes[local[c]]),
           s.phase = "push" => hist[tracking[c]] \subseteq hist[local[c]]
    PROVE  LedgerInv'
<1>1. Shapes /\ CloneInv(c) /\ StoreInv
    BY LedgerInvByClone
<1>2. StoreInv' /\ StoreKept
    BY StoreUnchanged
<1>3. /\ sync' \in [Clones -> Syncs] /\ sync'[c] = s
      /\ \A d \in Clones \ {c} : sync'[d] = sync[d]
    BY <1>1 DEF Shapes
<1>4. Shapes'
    BY <1>1, <1>3 DEF Shapes
<1>5. Elsewhere(c)
    BY <1>3 DEF Elsewhere
<1>6. CloneInv(c)'
    <2>1. \E m \in Remotes : hist'[tracking[c]] \subseteq hist'[remote'[m]]
        BY <1>1 DEF CloneInv, RemotesAdvance, store
    <2> QED BY <1>1, <1>3, <2>1 DEF CloneInv, Syncing, Migrating, Within, store
<1> QED BY <1>2, <1>4, <1>5, <1>6, StepKeepsInv

LEMMA NotSyncingType == NotSyncing \in Syncs /\ NotSyncing.phase = "idle"
BY SomewhereAssumption
DEF NotSyncing, Syncs, SyncPhases, NoNotes, Trees

(* An unsuccessful end disturbs nothing. *)
LEMMA EndInv ==
    ASSUME LedgerInv, NEW c \in Clones, EndUnsuccessfully(c),
           UNCHANGED <<store, spare, local, tracking, remote, mig>>
    PROVE  LedgerInv'
<1>1. Shapes /\ CloneInv(c) /\ StoreInv
    BY LedgerInvByClone
<1>2. StoreKept
    BY StoreUnchanged
<1>3. RemotesAdvance
    BY <1>2, RemotesUnchanged
<1>4. sync' = [sync EXCEPT ![c] = NotSyncing] /\ ~ Syncing(c)'
    BY <1>1, NotSyncingType DEF EndUnsuccessfully, Syncing, Running, Shapes
<1>5. spare' \in Versions /\ remote' \in [Remotes -> Versions]
    BY <1>1 DEF Shapes
<1> QED BY <1>3, <1>4, <1>5, NotSyncingType, SyncStepFrame

(* So does handing over to the next phase of a running sync without a merge. *)
LEMMA GotoInv ==
    ASSUME LedgerInv, NEW c \in Clones, NEW p \in {"pushed", "refetch", "remerge"},
           sync[c].phase \in {"push", "refetch", "remerge"},
           Goto(c, p), UNCHANGED <<store, spare, local, tracking, mig>>,
           remote' \in [Remotes -> Versions], RemotesAdvance
    PROVE  LedgerInv'
<1> DEFINE s == [sync[c] EXCEPT !.phase = p]
<1>1. Shapes /\ CloneInv(c) /\ StoreInv /\ sync[c] \in Syncs
    BY LedgerInvByClone DEF CloneInv
<1>2. /\ s \in Syncs /\ s.phase = p /\ s.began = sync[c].began /\ s.saw = sync[c].saw
      /\ sync' = [sync EXCEPT ![c] = s]
    BY <1>1 DEF Goto, Syncs, SyncPhases, Running, Shapes
<1>3. /\ Syncing(c) /\ ~ Migrating(c)
      /\ Within(s.began, notes[local[c]]) /\ Within(s.saw, notes[local[c]])
    BY <1>1, <1>2 DEF CloneInv, Syncing, Running
<1>4. s.phase # "merge" /\ s.phase # "push" /\ spare' \in Versions
    BY <1>1, <1>2 DEF Shapes
<1> HIDE DEF s
<1> QED BY <1>2, <1>3, <1>4, SyncStepFrame

LEMMA SyncFetchInv ==
    ASSUME LedgerInv, MigrateAlone, NEW c \in Clones, NEW m \in Remotes,
           SyncFetch(c, m)
    PROVE  LedgerInv'
<1>1. /\ Shapes /\ CloneInv(c) /\ StoreInv /\ used \in Nat
      /\ remote[m] \in 0 .. used /\ PushLimit \in Nat
    BY LedgerInvByClone, BoundsAssumption
    DEF StoreInv, Versions, PushLimit, MaxOf
<1>2. /\ UNCHANGED <<store, local, remote, mig>>
      /\ spare' = spare - (PushLimit + 1) /\ spare >= PushLimit + 1
      /\ ~ Migrating(c)
      /\ tracking' = Fetched(c, m)
      /\ sync' = [sync EXCEPT ![c] = [phase   |-> "merge",
                                      with    |-> m,
                                      attempt |-> 1,
                                      began   |-> notes[local[c]],
                                      saw     |-> notes[remote[m]]]]
    BY DEF SyncFetch, Claim, Free
<1>3. notes[local[c]] \in Trees /\ notes[remote[m]] \in Trees
    BY <1>1 DEF Shapes, StoreInv
<1>4. /\ sync' \in [Clones -> Syncs]
      /\ sync'[c] \in Syncs /\ sync'[c].phase = "merge"
      /\ sync'[c].began = notes[local[c]] /\ sync'[c].saw = notes[remote[m]]
      /\ \A d \in Clones \ {c} : sync'[d] = sync[d]
    BY <1>1, <1>2, <1>3 DEF Shapes, Syncs, SyncPhases, Running
<1>5. /\ tracking' \in [Clones -> Versions]
      /\ \A d \in Clones \ {c} : tracking'[d] = tracking[d]
      /\ tracking'[c] = IF remote[m] = 0 THEN tracking[c] ELSE remote[m]
    BY <1>1, <1>2 DEF Fetched, Shapes
<1>6. StoreInv' /\ StoreKept
    BY <1>2, StoreUnchanged
<1>7. Shapes'
    BY <1>1, <1>2, <1>4, <1>5, BoundsAssumption DEF Shapes, Versions
<1>8. RemotesAdvance
    BY <1>2, <1>6, RemotesUnchanged
<1>9. Elsewhere(c)
    BY <1>2, <1>4, <1>5 DEF Elsewhere
<1>10. CloneInv(c)'
    <2>1. Within(notes[remote[m]], notes[tracking'[c]])
        <3>1. CASE remote[m] = 0
            <4>1. 0 \in Versions /\ 0 \notin 1 .. used
                BY <1>1, BoundsAssumption DEF Versions
            <4>2. notes[remote[m]] = NoNotes
                BY <4>1, <3>1, <1>1 DEF StoreInv, HistoryShape
            <4>3. notes[tracking'[c]] \in Trees
                BY <1>1, <1>5 DEF StoreInv
            <4> QED BY <4>2, <4>3, WithinRefl
        <3>2. CASE remote[m] # 0
            BY <3>2, <1>5, <1>3, WithinRefl
        <3> QED BY <3>1, <3>2
    <2>2. \E n \in Remotes : hist[tracking'[c]] \subseteq hist[remote[n]]
        BY <1>1, <1>5 DEF CloneInv
    <2>3. tracking'[c] \in 0 .. used
        BY <1>1, <1>5 DEF CloneInv
    <2>4. Within(notes[local[c]], notes[local[c]])
        BY <1>3, WithinRefl
    <2> QED BY <1>1, <1>2, <1>4, <2>1, <2>2, <2>3, <2>4
            DEF CloneInv, Syncing, Migrating, Within, store
<1> QED BY <1>6, <1>7, <1>8, <1>9, <1>10, StepKeepsInv

(* A merge of the tracking ref, whatever the sync does next: it may push   *)
(* only what it has merged.                                                *)
LEMMA MergeInv ==
    ASSUME LedgerInv, NEW c \in Clones, MergeTracking(c),
           sync[c].phase \in {"merge", "remerge"},
           UNCHANGED <<spare, tracking, remote, mig>>,
           NEW s \in Syncs, sync' = [sync EXCEPT ![c] = s],
           s.phase \in {"push", "nothing", "idle"},
           s.phase = "push" => s.began = sync[c].began /\ s.saw = sync[c].saw
    PROVE  LedgerInv'
<1>1. Shapes /\ CloneInv(c) /\ StoreInv /\ used \in Nat
      /\ Syncing(c) /\ ~ Migrating(c) /\ sync[c] \in Syncs
      /\ notes[local[c]] \in Trees /\ notes[tracking[c]] \in Trees
    <2>1. Shapes /\ CloneInv(c) /\ StoreInv /\ used \in Nat
        BY LedgerInvByClone, BoundsAssumption DEF StoreInv, Versions
    <2> QED BY <2>1 DEF Shapes, StoreInv, CloneInv, Syncing, Running
<1>2. /\ StoreInv' /\ StoreKept
      /\ local' \in [Clones -> Versions]
      /\ \A d \in Clones \ {c} : local'[d] = local[d]
      /\ local'[c] \in 0 .. used'
      /\ Within(notes[local[c]], notes'[local'[c]])
      /\ Within(notes[tracking[c]], notes'[local'[c]])
      /\ hist[tracking[c]] \subseteq hist'[local'[c]]
    BY MergeKeepsBoth
<1>3. /\ sync' \in [Clones -> Syncs] /\ sync'[c] = s
      /\ \A d \in Clones \ {c} : sync'[d] = sync[d]
    BY <1>1 DEF Shapes
<1>4. Shapes'
    BY <1>1, <1>2, <1>3 DEF Shapes
<1>5. RemotesAdvance
    BY <1>2, RemotesUnchanged
<1>6. Elsewhere(c)
    BY <1>2, <1>3 DEF Elsewhere
<1>7. CloneInv(c)'
    <2>1. tracking[c] \in 0 .. used' /\ hist'[tracking[c]] = hist[tracking[c]]
        BY <1>1, <1>2 DEF StoreKept, CloneInv
    <2>2. \E m \in Remotes : hist'[tracking[c]] \subseteq hist'[remote'[m]]
        BY <1>1, <1>5, <2>1 DEF CloneInv, RemotesAdvance
    <2>3. notes'[local'[c]] \in Trees
        BY <1>2, <1>4 DEF Shapes, StoreInv
    <2>4. s.phase = "push" => /\ Within(s.began, notes'[local'[c]])
                              /\ Within(s.saw, notes'[local'[c]])
        BY <1>1, <1>2, <2>3, WithinTrans DEF CloneInv, Syncs
    <2>5. ~ Migrating(c)' /\ (Syncing(c)' <=> s.phase = "push")
        BY <1>1, <1>3 DEF Migrating, Syncing, Running
    <2> QED BY <1>1, <1>2, <1>3, <2>1, <2>2, <2>4, <2>5 DEF CloneInv, Within
<1> QED BY <1>2, <1>4, <1>5, <1>6, <1>7, StepKeepsInv

LEMMA SyncMergeInv ==
    ASSUME LedgerInv, NEW c \in Clones, SyncMerge(c)
    PROVE  LedgerInv'
<1> DEFINE p == IF local'[c] = 0 THEN "nothing" ELSE "push"
           s == [phase |-> p, with |-> sync[c].with, attempt |-> sync[c].attempt,
                 began |-> sync[c].began, saw |-> sync[c].saw]
<1>1. sync[c] \in Syncs /\ sync \in [Clones -> Syncs]
    BY LedgerInvByClone DEF Shapes
<1>2. s \in Syncs
    BY <1>1 DEF Syncs, SyncPhases, Running
<1>3. sync' = [sync EXCEPT ![c] = s]
    <2>1. sync' = [sync EXCEPT ![c].phase = p]
        BY DEF SyncMerge, Goto
    <2>2. [sync[c] EXCEPT !.phase = p] = s
        BY <1>1 DEF Syncs
    <2> QED BY <2>1, <2>2
<1>4. s.phase \in {"push", "nothing"}
    OBVIOUS
<1>5. s.began = sync[c].began /\ s.saw = sync[c].saw
    OBVIOUS
<1> HIDE DEF s
<1> QED BY <1>2, <1>3, <1>4, <1>5, MergeInv DEF SyncMerge

LEMMA SyncRemergeInv ==
    ASSUME LedgerInv, NEW c \in Clones, SyncRemerge(c)
    PROVE  LedgerInv'
<1> DEFINE s == [phase |-> "push", with |-> sync[c].with,
                 attempt |-> sync[c].attempt + 1,
                 began |-> sync[c].began, saw |-> sync[c].saw]
<1>1. sync[c] \in Syncs /\ sync \in [Clones -> Syncs]
    BY LedgerInvByClone DEF Shapes
<1>2. CASE EndUnsuccessfully(c)
    BY <1>2, NotSyncingType, MergeInv DEF SyncRemerge, TryAgain, EndUnsuccessfully
<1>3. CASE sync' = [sync EXCEPT ![c].phase = "push", ![c].attempt = @ + 1]
    <2>1. s \in Syncs
        BY <1>1 DEF Syncs, SyncPhases, Running
    <2>2. sync' = [sync EXCEPT ![c] = s]
        BY <1>1, <1>3 DEF Syncs
    <2>3. s.phase = "push" /\ s.began = sync[c].began /\ s.saw = sync[c].saw
        OBVIOUS
    <2> HIDE DEF s
    <2> QED BY <2>1, <2>2, <2>3, MergeInv DEF SyncRemerge, TryAgain
<1> QED BY <1>2, <1>3 DEF SyncRemerge, TryAgain

(* An accepted push moves one remote, and forward. *)
LEMMA PushAdvances ==
    ASSUME LedgerInv, NEW c \in Clones, PushAccepted(c)
    PROVE  /\ remote' \in [Remotes -> Versions]
           /\ RemotesAdvance
           /\ remote'[sync[c].with] = local[c]
           /\ \A m \in Remotes : m # sync[c].with => remote'[m] = remote[m]
<1> DEFINE m0 == sync[c].with
<1>1. /\ Shapes /\ CloneInv(c) /\ StoreInv /\ used \in Nat /\ m0 \in Remotes
      /\ \A m \in Remotes : remote[m] \in 0 .. used
    BY LedgerInvByClone, BoundsAssumption DEF StoreInv, CloneInv, Syncs, Versions
<1>2. /\ remote' = [remote EXCEPT ![m0] = local[c]]
      /\ hist[remote[m0]] \subseteq hist[local[c]]
      /\ used' = used /\ hist' = hist
    BY DEF PushAccepted, FastForward, store
<1>3. remote'[m0] = local[c] /\ \A m \in Remotes : m # m0 => remote'[m] = remote[m]
    BY <1>1, <1>2 DEF Shapes
<1>4. RemotesAdvance
    BY <1>1, <1>2, <1>3 DEF RemotesAdvance, CloneInv
<1> QED BY <1>1, <1>2, <1>3, <1>4 DEF Shapes

LEMMA SyncStepInv ==
    ASSUME LedgerInv, NEW c \in Clones, SyncStep(c)
    PROVE  LedgerInv'
<1>1. CASE SyncMerge(c)
    BY <1>1, SyncMergeInv
<1>2. CASE SyncRemerge(c)
    BY <1>2, SyncRemergeInv
<1>3. CASE SyncPush(c)
    BY <1>3, PushAdvances, GotoInv DEF SyncPush, PushAccepted
<1>4. CASE SyncPushUnheard(c)
    BY <1>4, PushAdvances, GotoInv DEF SyncPushUnheard, PushAccepted
<1>5. CASE SyncPushRefused(c)
    <2>1. UNCHANGED <<store, spare, local, tracking, mig>> /\ UNCHANGED remote
        BY <1>5 DEF SyncPushRefused
    <2>2. StoreKept /\ RemotesAdvance /\ remote' \in [Remotes -> Versions]
        BY <2>1, StoreUnchanged, RemotesUnchanged, LedgerInvByClone DEF Shapes
    <2> QED BY <1>5, <2>1, <2>2, GotoInv DEF SyncPushRefused
<1>6. CASE SyncRecoveryFails(c)
    BY <1>6, EndInv DEF SyncRecoveryFails
<1>7. CASE SyncRefetch(c)
    <2> DEFINE m == sync[c].with
    <2>1. /\ Shapes /\ CloneInv(c) /\ StoreInv /\ used \in Nat /\ m \in Remotes
          /\ remote[m] \in 0 .. used /\ sync[c] \in Syncs
        BY LedgerInvByClone, BoundsAssumption DEF StoreInv, CloneInv, Syncs, Versions
    <2>2. /\ UNCHANGED <<store, spare, local, remote, mig>>
          /\ sync[c].phase = "refetch"
          /\ tracking' = Fetched(c, m)
          /\ sync' = [sync EXCEPT ![c].phase = "remerge"]
        BY <1>7 DEF SyncRefetch, Goto
    <2>3. /\ sync' \in [Clones -> Syncs]
          /\ sync'[c].phase = "remerge" /\ sync'[c] \in Syncs
          /\ sync'[c].began = sync[c].began /\ sync'[c].saw = sync[c].saw
          /\ \A d \in Clones \ {c} : sync'[d] = sync[d]
        BY <2>1, <2>2 DEF Shapes, Syncs, SyncPhases, Running
    <2>4. /\ tracking' \in [Clones -> Versions]
          /\ \A d \in Clones \ {c} : tracking'[d] = tracking[d]
          /\ tracking'[c] = IF remote[m] = 0 THEN tracking[c] ELSE remote[m]
        BY <2>1, <2>2 DEF Fetched, Shapes
    <2>5. StoreInv' /\ StoreKept
        BY <2>2, StoreUnchanged
    <2>6. Shapes'
        BY <2>1, <2>2, <2>3, <2>4 DEF Shapes
    <2>7. RemotesAdvance
        BY <2>2, <2>5, RemotesUnchanged
    <2>8. Elsewhere(c)
        BY <2>2, <2>3, <2>4 DEF Elsewhere
    <2>9. CloneInv(c)'
        <3>1. \E n \in Remotes : hist[tracking'[c]] \subseteq hist[remote[n]]
            BY <2>1, <2>4 DEF CloneInv
        <3>2. tracking'[c] \in 0 .. used
            BY <2>1, <2>4 DEF CloneInv
        <3>3. /\ Within(sync[c].began, notes[local[c]])
              /\ Within(sync[c].saw, notes[local[c]]) /\ ~ Migrating(c)
            BY <2>1, <2>2 DEF CloneInv, Syncing, Running
        <3> QED BY <2>1, <2>2, <2>3, <3>1, <3>2, <3>3
                DEF CloneInv, Syncing, Migrating, Within, store
    <2> QED BY <2>5, <2>6, <2>7, <2>8, <2>9, StepKeepsInv
<1> QED BY <1>1, <1>2, <1>3, <1>4, <1>5, <1>6, <1>7 DEF SyncStep

LEMMA KillInv ==
    ASSUME LedgerInv, NEW c \in Clones, Kill(c)
    PROVE  LedgerInv'
<1>1. CASE EndUnsuccessfully(c) /\ UNCHANGED mig
    BY <1>1, EndInv DEF Kill
<1>2. CASE mig' = [mig EXCEPT ![c] = NotMigrating] /\ UNCHANGED sync
    <2>1. Shapes /\ CloneInv(c) /\ StoreInv
        BY LedgerInvByClone
    <2>2. UNCHANGED <<store, spare, local, tracking, remote>>
        BY DEF Kill
    <2>3. /\ NotMigrating \in Migrations /\ NotMigrating.phase = "idle"
          /\ mig' \in [Clones -> Migrations] /\ mig'[c] = NotMigrating
          /\ \A d \in Clones \ {c} : mig'[d] = mig[d]
        BY <2>1, <1>2, SomewhereAssumption DEF NotMigrating, Migrations, Shapes
    <2>4. StoreInv' /\ StoreKept
        BY <2>2, StoreUnchanged
    <2>5. Shapes'
        BY <2>1, <1>2, <2>2, <2>3 DEF Shapes
    <2>6. RemotesAdvance
        BY <2>2, <2>4, RemotesUnchanged
    <2>7. Elsewhere(c)
        BY <1>2, <2>2, <2>3 DEF Elsewhere
    <2>8. CloneInv(c)'
        BY <2>1, <1>2, <2>2, <2>3 DEF CloneInv, Syncing, Migrating, Within, store
    <2> QED BY <2>4, <2>5, <2>6, <2>7, <2>8, StepKeepsInv
<1> QED BY <1>1, <1>2 DEF Kill

LEMMA StutterInv ==
    ASSUME LedgerInv, UNCHANGED vars
    PROVE  LedgerInv'
BY DEF LedgerInv, TypeOK, HistoryShape, HistoryGrows, RefsExist, SyncProgress,
       TrackingIsRemote, MigrationIsFresh, Syncing, Migrating, Within, vars

------------------------------------------------------------------------------
LEMMA InitInv == Init => LedgerInv
<1> SUFFICES ASSUME Init PROVE LedgerInv
    OBVIOUS
<1>1. NoNotes \in Trees /\ 0 \in Versions /\ 1 .. used = {}
    BY BoundsAssumption DEF Init, NoNotes, Trees, Versions
<1>2. /\ NotSyncing \in Syncs /\ NotSyncing.phase = "idle"
      /\ NotMigrating \in Migrations /\ NotMigrating.phase = "idle"
    BY NotSyncingType, SomewhereAssumption DEF NotMigrating, Migrations
<1>3. TypeOK
    BY <1>1, <1>2, BoundsAssumption DEF Init, TypeOK, Versions
<1>4. HistoryShape /\ HistoryGrows /\ RefsExist
    BY <1>1 DEF Init, HistoryShape, HistoryGrows, RefsExist, Versions
<1>5. SyncProgress
    BY <1>2 DEF Init, SyncProgress, Syncing, Running
<1>6. MigrationIsFresh
    BY <1>2 DEF Init, MigrationIsFresh, Migrating
<1>7. TrackingIsRemote
    BY <1>1, SomewhereAssumption DEF Init, TrackingIsRemote
<1> QED BY <1>3, <1>4, <1>5, <1>6, <1>7 DEF LedgerInv

LEMMA NextInv ==
    ASSUME MigrateAlone, LedgerInv, [Next]_vars
    PROVE  LedgerInv'
<1>1. CASE UNCHANGED vars
    BY <1>1, StutterInv
<1>2. ASSUME NEW c \in Clones, NEW k \in Commits, NEW r \in Records,
             AppendRecord(c, k, r)
      PROVE  LedgerInv'
    BY <1>2, AppendRecordInv
<1>3. ASSUME NEW c \in Clones, NEW from \in Commits, NEW to \in Commits,
             MigrateRead(c, from, to)
      PROVE  LedgerInv'
    BY <1>3, MigrateReadInv
<1>4. ASSUME NEW c \in Clones, MigrateWrite(c)
      PROVE  LedgerInv'
    BY <1>4, MigrateWriteInv
<1>5. ASSUME NEW c \in Clones, NEW m \in Remotes, SyncFetch(c, m)
      PROVE  LedgerInv'
    BY <1>5, SyncFetchInv
<1>6. ASSUME NEW c \in Clones, SyncFetchFails(c)
      PROVE  LedgerInv'
    BY <1>6, EndInv DEF SyncFetchFails
<1>7. ASSUME NEW c \in Clones, SyncStep(c)
      PROVE  LedgerInv'
    BY <1>7, SyncStepInv
<1>8. ASSUME NEW c \in Clones, Kill(c)
      PROVE  LedgerInv'
    BY <1>8, KillInv
<1> QED BY <1>1, <1>2, <1>3, <1>4, <1>5, <1>6, <1>7, <1>8 DEF Next

(* Where a migration has its clone to itself, the ledger's invariant holds *)
(* in every reachable state: in particular no version of the ledger has    *)
(* fewer records than one of its ancestors.                                *)
THEOREM LedgerInvariant == MigrateAlone => (Spec => []LedgerInv)
<1> SUFFICES ASSUME MigrateAlone PROVE Spec => []LedgerInv
    OBVIOUS
<1>1. LedgerInv /\ [Next]_vars => LedgerInv'
    BY NextInv
<1> QED BY InitInv, <1>1, PTL DEF Spec

------------------------------------------------------------------------------
(* What each step does to the ledgers a reader sees: one clone's local     *)
(* notes grow, or one remote's do.                                         *)
LEMMA WhatMovesALocalRef ==
    ASSUME [Next]_vars
    PROVE  \/ UNCHANGED <<store, local>>
           \/ \E c \in Clones : \/ \E k \in Commits, r \in Records : AppendRecord(c, k, r)
                               \/ MigrateWrite(c)
                               \/ MergeTracking(c)
<1>1. CASE UNCHANGED vars
    BY <1>1 DEF vars, store
<1>2. ASSUME NEW c \in Clones, Kill(c) \/ SyncFetchFails(c)
      PROVE  UNCHANGED <<store, local>>
    BY <1>2 DEF Kill, SyncFetchFails
<1>3. ASSUME NEW c \in Clones, NEW m \in Remotes, SyncFetch(c, m)
      PROVE  UNCHANGED <<store, local>>
    BY <1>3 DEF SyncFetch
<1>4. ASSUME NEW c \in Clones, NEW from \in Commits, NEW to \in Commits,
             MigrateRead(c, from, to)
      PROVE  UNCHANGED <<store, local>>
    BY <1>4 DEF MigrateRead
<1>5. ASSUME NEW c \in Clones, SyncStep(c)
      PROVE  UNCHANGED <<store, local>> \/ MergeTracking(c)
    BY <1>5 DEF SyncStep, SyncMerge, SyncPush, SyncPushUnheard, PushAccepted,
                SyncPushRefused, SyncRefetch, SyncRemerge, SyncRecoveryFails
<1> QED BY <1>1, <1>2, <1>3, <1>4, <1>5 DEF Next

LEMMA LocalGrows ==
    ASSUME MigrateAlone, LedgerInv, [Next]_vars, NEW d \in Clones
    PROVE  Within(notes[local[d]], notes'[local'[d]])
<1>1. Shapes /\ CloneInv(d) /\ StoreInv /\ notes[local[d]] \in Trees
    BY LedgerInvByClone DEF Shapes, StoreInv
<1>2. Within(notes[local[d]], notes[local[d]])
    BY <1>1, WithinRefl
<1>3. CASE UNCHANGED <<store, local>>
    BY <1>2, <1>3 DEF store
<1>4. ASSUME NEW c \in Clones, NEW k \in Commits, NEW r \in Records,
             AppendRecord(c, k, r)
      PROVE  Within(notes[local[d]], notes'[local'[d]])
    <2> DEFINE T == [notes[local[c]] EXCEPT ![k] = @ \union {r}]
    <2>1. notes[local[c]] \in Trees /\ NewVersion(c, {local[c]}, T)
        BY <1>4, LedgerInvByClone DEF AppendRecord, Shapes, StoreInv
    <2>2. T \in Trees /\ Within(notes[local[c]], T)
        BY <2>1 DEF Trees, Within
    <2> HIDE DEF T
    <2>3. /\ notes'[local'[c]] = T /\ StoreKept
          /\ \A e \in Clones \ {c} : local'[e] = local[e]
        BY <2>1, <2>2, AppendVersion
    <2>4. CASE d = c
        BY <2>2, <2>3, <2>4
    <2>5. CASE d # c
        BY <1>1, <1>2, <2>3, <2>5 DEF StoreKept, CloneInv
    <2> QED BY <2>4, <2>5
<1>5. ASSUME NEW c \in Clones, MigrateWrite(c)
      PROVE  Within(notes[local[d]], notes'[local'[d]])
    <2> DEFINE T == [notes[local[c]] EXCEPT ![mig[c].to] = mig[c].merged]
    <2>1. /\ notes[local[c]] \in Trees /\ NewVersion(c, {local[c]}, T)
          /\ Migrating(c) /\ CloneInv(c)
        BY <1>5, LedgerInvByClone DEF MigrateWrite, Shapes, StoreInv
    <2>2. T \in Trees /\ Within(notes[local[c]], T)
        BY <2>1 DEF CloneInv, Migrations, Trees, Within
    <2> HIDE DEF T
    <2>3. /\ notes'[local'[c]] = T /\ StoreKept
          /\ \A e \in Clones \ {c} : local'[e] = local[e]
        BY <2>1, <2>2, AppendVersion
    <2>4. CASE d = c
        BY <2>2, <2>3, <2>4
    <2>5. CASE d # c
        BY <1>1, <1>2, <2>3, <2>5 DEF StoreKept, CloneInv
    <2> QED BY <2>4, <2>5
<1>6. ASSUME NEW c \in Clones, MergeTracking(c)
      PROVE  Within(notes[local[d]], notes'[local'[d]])
    <2>1. /\ Within(notes[local[c]], notes'[local'[c]]) /\ StoreKept
          /\ \A e \in Clones \ {c} : local'[e] = local[e]
        BY <1>6, MergeKeepsBoth
    <2>2. CASE d = c
        BY <2>1, <2>2
    <2>3. CASE d # c
        BY <1>1, <1>2, <2>1, <2>3 DEF StoreKept, CloneInv
    <2> QED BY <2>2, <2>3
<1> QED BY <1>3, <1>4, <1>5, <1>6, WhatMovesALocalRef

(* Where a migration has its clone to itself, no step of recording, sync,  *)
(* migration or crash takes a record out of a clone's ledger.              *)
THEOREM NothingLostLocally == MigrateAlone => (Spec => NoLocalLoss)
<1> SUFFICES ASSUME MigrateAlone PROVE Spec => NoLocalLoss
    OBVIOUS
<1>1. LedgerInv /\ [Next]_vars
        => [\A c \in Clones : Within(notes[local[c]], notes'[local'[c]])]_vars
    BY LocalGrows
<1> QED BY LedgerInvariant, <1>1, PTL DEF Spec, NoLocalLoss

(* Notes commits, once made, are never rewritten. *)
LEMMA NextKeepsStore ==
    ASSUME MigrateAlone, LedgerInv, [Next]_vars
    PROVE  StoreKept
<1>0. Shapes /\ StoreInv
    BY LedgerInvByClone
<1>1. CASE UNCHANGED store
    BY <1>1, StoreUnchanged
<1>2. ASSUME NEW c \in Clones, NEW T \in Trees, Within(notes[local[c]], T),
             NewVersion(c, {local[c]}, T)
      PROVE  StoreKept
    BY <1>2, AppendVersion
<1>3. ASSUME NEW c \in Clones, NEW k \in Commits, NEW r \in Records,
             AppendRecord(c, k, r)
      PROVE  StoreKept
    <2> DEFINE T == [notes[local[c]] EXCEPT ![k] = @ \union {r}]
    <2>1. notes[local[c]] \in Trees /\ NewVersion(c, {local[c]}, T)
        BY <1>0, <1>3 DEF AppendRecord, Shapes, StoreInv
    <2>2. T \in Trees /\ Within(notes[local[c]], T)
        BY <2>1 DEF Trees, Within
    <2> HIDE DEF T
    <2> QED BY <2>1, <2>2, <1>2
<1>4. ASSUME NEW c \in Clones, MigrateWrite(c)
      PROVE  StoreKept
    <2> DEFINE T == [notes[local[c]] EXCEPT ![mig[c].to] = mig[c].merged]
    <2>1. /\ notes[local[c]] \in Trees /\ NewVersion(c, {local[c]}, T)
          /\ Migrating(c) /\ CloneInv(c)
        BY <1>0, <1>4, LedgerInvByClone DEF MigrateWrite, Shapes, StoreInv
    <2>2. T \in Trees /\ Within(notes[local[c]], T)
        BY <2>1 DEF CloneInv, Migrations, Trees, Within
    <2> HIDE DEF T
    <2> QED BY <2>1, <2>2, <1>2
<1>5. ASSUME NEW c \in Clones, MergeTracking(c)
      PROVE  StoreKept
    BY <1>5, MergeKeepsBoth
<1> QED BY <1>1, <1>3, <1>4, <1>5, WhatMovesALocalRef

(* Only an accepted push moves a remote, and it moves one forward. *)
LEMMA RemoteGrows ==
    ASSUME MigrateAlone, LedgerInv, [Next]_vars
    PROVE  \A m \in Remotes : /\ Within(notes[remote[m]], notes'[remote'[m]])
                              /\ hist[remote[m]] \subseteq hist'[remote'[m]]
<1>0. /\ Shapes /\ StoreInv /\ used \in Nat
      /\ \A m \in Remotes : /\ remote[m] \in 0 .. used
                            /\ notes[remote[m]] \in Trees
    BY LedgerInvByClone, BoundsAssumption DEF Shapes, StoreInv, Versions
<1>1. CASE UNCHANGED remote /\ StoreKept
    BY <1>0, <1>1, WithinRefl DEF StoreKept
<1>2. ASSUME NEW c \in Clones, PushAccepted(c)
      PROVE  \A m \in Remotes : /\ Within(notes[remote[m]], notes'[remote'[m]])
                                /\ hist[remote[m]] \subseteq hist'[remote'[m]]
    <2>1. /\ \A m \in Remotes : m # sync[c].with => remote'[m] = remote[m]
          /\ remote'[sync[c].with] = local[c]
        BY <1>2, PushAdvances
    <2>2. /\ hist[remote[sync[c].with]] \subseteq hist[local[c]]
          /\ UNCHANGED store
        BY <1>2 DEF PushAccepted, FastForward
    <2>3. local[c] \in 0 .. used /\ sync[c].with \in Remotes
        BY LedgerInvByClone DEF CloneInv, Syncs
    <2>4. Within(notes[remote[sync[c].with]], notes[local[c]])
        BY <2>2, <2>3, <1>0, HistoryMeansNotes
    <2> QED BY <2>1, <2>2, <2>4, <1>0, WithinRefl DEF store
<1>3. StoreKept
    BY NextKeepsStore
<1>4. UNCHANGED remote \/ \E c \in Clones : PushAccepted(c)
    <2>1. CASE UNCHANGED vars
        BY <2>1 DEF vars
    <2>2. ASSUME NEW c \in Clones, SyncStep(c)
          PROVE  UNCHANGED remote \/ PushAccepted(c)
        BY <2>2 DEF SyncStep, SyncMerge, SyncPush, SyncPushUnheard,
                    SyncPushRefused, SyncRefetch, SyncRemerge, SyncRecoveryFails
    <2> QED BY <2>1, <2>2 DEF Next, AppendRecord, MigrateRead, MigrateWrite,
                              SyncFetch, SyncFetchFails, Kill
<1> QED BY <1>1, <1>2, <1>3, <1>4

(* Where a migration has its clone to itself, no push ever replaces a      *)
(* remote's ledger by one that lacks a record the remote had.              *)
THEOREM NothingLostRemotely == MigrateAlone => (Spec => NoRemoteLoss)
<1> SUFFICES ASSUME MigrateAlone PROVE Spec => NoRemoteLoss
    OBVIOUS
<1>1. LedgerInv /\ [Next]_vars
        => [\A m \in Remotes : Within(notes[remote[m]], notes'[remote'[m]])]_vars
    BY RemoteGrows
<1> QED BY LedgerInvariant, <1>1, PTL DEF Spec, NoRemoteLoss

------------------------------------------------------------------------------
(* What a sync's own record may turn into in one step.  It says "pushed"   *)
(* or "nothing" only when it said so before or when it just got there.     *)
LEMMA HowASyncSucceeds ==
    ASSUME LedgerInv, [Next]_vars, NEW d \in Clones,
           sync'[d].phase \in {"pushed", "nothing"}
    PROVE  \/ sync'[d] = sync[d]
           \/ /\ PushAccepted(d) /\ sync'[d].phase = "pushed"
              /\ sync'[d].with = sync[d].with
              /\ sync'[d].began = sync[d].began /\ sync'[d].saw = sync[d].saw
           \/ /\ sync[d].phase = "merge" /\ MergeTracking(d) /\ local'[d] = 0
              /\ sync'[d].phase = "nothing"
              /\ sync'[d].began = sync[d].began /\ sync'[d].saw = sync[d].saw
<1>0. sync \in [Clones -> Syncs] /\ NotSyncing.phase = "idle"
    BY LedgerInvByClone, NotSyncingType DEF Shapes
<1>1. CASE UNCHANGED sync
    BY <1>1
<1>2. ASSUME NEW c \in Clones, NEW m \in Remotes, SyncFetch(c, m)
      PROVE  sync'[d] = sync[d]
    BY <1>0, <1>2 DEF SyncFetch
<1>3. ASSUME NEW c \in Clones, EndUnsuccessfully(c)
      PROVE  sync'[d] = sync[d]
    BY <1>0, <1>3 DEF EndUnsuccessfully
<1>4. ASSUME NEW c \in Clones, NEW p \in {"refetch", "remerge", "push"}, Goto(c, p)
      PROVE  sync'[d] = sync[d]
    BY <1>0, <1>4 DEF Goto
<1>5. ASSUME NEW c \in Clones, SyncPush(c), sync'[d] # sync[d]
      PROVE  /\ PushAccepted(d) /\ sync'[d].phase = "pushed"
             /\ sync'[d].with = sync[d].with
             /\ sync'[d].began = sync[d].began /\ sync'[d].saw = sync[d].saw
    BY <1>0, <1>5 DEF SyncPush, Goto, Syncs
<1>6. ASSUME NEW c \in Clones, SyncMerge(c), sync'[d] # sync[d]
      PROVE  /\ sync[d].phase = "merge" /\ MergeTracking(d) /\ local'[d] = 0
             /\ sync'[d].phase = "nothing"
             /\ sync'[d].began = sync[d].began /\ sync'[d].saw = sync[d].saw
    BY <1>0, <1>6 DEF SyncMerge, Goto, Syncs
<1>7. ASSUME NEW c \in Clones, SyncRemerge(c)
      PROVE  sync'[d] = sync[d]
    BY <1>0, <1>3, <1>7 DEF SyncRemerge, TryAgain, Syncs
<1>8. ASSUME NEW c \in Clones, SyncStep(c)
      PROVE  \/ sync'[d] = sync[d]
             \/ /\ PushAccepted(d) /\ sync'[d].phase = "pushed"
                /\ sync'[d].with = sync[d].with
                /\ sync'[d].began = sync[d].began /\ sync'[d].saw = sync[d].saw
             \/ /\ sync[d].phase = "merge" /\ MergeTracking(d) /\ local'[d] = 0
                /\ sync'[d].phase = "nothing"
                /\ sync'[d].began = sync[d].began /\ sync'[d].saw = sync[d].saw
    <2>1. CASE SyncPush(c)
        BY <1>5, <2>1
    <2>2. CASE SyncMerge(c)
        BY <1>6, <2>2
    <2>3. CASE SyncRemerge(c)
        BY <1>7, <2>3
    <2>4. CASE SyncPushUnheard(c) \/ SyncPushRefused(c) \/ SyncRefetch(c)
        BY <1>4, <2>4 DEF SyncPushUnheard, SyncPushRefused, SyncRefetch
    <2>5. CASE SyncRecoveryFails(c)
        BY <1>3, <2>5 DEF SyncRecoveryFails
    <2> QED BY <1>8, <2>1, <2>2, <2>3, <2>4, <2>5 DEF SyncStep
<1>9. ASSUME NEW c \in Clones, Kill(c) \/ SyncFetchFails(c)
      PROVE  sync'[d] = sync[d]
    BY <1>3, <1>9 DEF Kill, SyncFetchFails
<1>10. CASE UNCHANGED vars
    BY <1>10 DEF vars
<1> QED BY <1>1, <1>2, <1>8, <1>9, <1>10
        DEF Next, AppendRecord, MigrateRead, MigrateWrite

LEMMA TwoWayStep ==
    ASSUME MigrateAlone, LedgerInv, LedgerInv', SyncIsTwoWay, [Next]_vars
    PROVE  SyncIsTwoWay'
<1> SUFFICES ASSUME NEW d \in Clones
             PROVE  /\ sync'[d].phase = "pushed" =>
                         /\ Within(sync'[d].began, notes'[remote'[sync'[d].with]])
                         /\ Within(sync'[d].saw, notes'[local'[d]])
                    /\ sync'[d].phase = "nothing" =>
                         sync'[d].began = NoNotes /\ sync'[d].saw = NoNotes
    BY DEF SyncIsTwoWay, Within
<1>0. /\ Shapes /\ Shapes' /\ StoreInv /\ StoreInv' /\ CloneInv(d)
      /\ sync[d] \in Syncs /\ sync'[d] \in Syncs
      /\ notes[local[d]] \in Trees /\ notes'[local'[d]] \in Trees
      /\ \A m \in Remotes : notes[remote[m]] \in Trees /\ notes'[remote'[m]] \in Trees
    BY LedgerInvByClone
    DEF Shapes, StoreInv, LedgerInv, TypeOK, HistoryShape, HistoryGrows
<1>1. Within(notes[local[d]], notes'[local'[d]])
    BY LocalGrows
<1>2. \A m \in Remotes : Within(notes[remote[m]], notes'[remote'[m]])
    BY RemoteGrows
<1>3. CASE sync'[d] = sync[d]
    <2>1. sync[d].with \in Remotes /\ sync[d].began \in Trees /\ sync[d].saw \in Trees
        BY <1>0 DEF Syncs
    <2> QED BY <1>0, <1>1, <1>2, <1>3, <2>1, WithinTrans DEF SyncIsTwoWay
<1>4. CASE /\ PushAccepted(d) /\ sync'[d].phase = "pushed"
           /\ sync'[d].with = sync[d].with
           /\ sync'[d].began = sync[d].began /\ sync'[d].saw = sync[d].saw
    <2>1. /\ remote'[sync[d].with] = local[d] /\ UNCHANGED <<store, local>>
          /\ sync[d].phase = "push"
        BY <1>4, PushAdvances DEF PushAccepted
    <2>2. /\ Within(sync[d].began, notes[local[d]])
          /\ Within(sync[d].saw, notes[local[d]])
        BY <2>1, <1>0 DEF CloneInv, Syncing, Running
    <2> QED BY <1>4, <2>1, <2>2 DEF store
<1>5. CASE /\ sync[d].phase = "merge" /\ MergeTracking(d) /\ local'[d] = 0
           /\ sync'[d].phase = "nothing"
           /\ sync'[d].began = sync[d].began /\ sync'[d].saw = sync[d].saw
    <2>1. /\ Within(sync[d].began, notes[local[d]])
          /\ Within(sync[d].saw, notes[tracking[d]])
          /\ sync[d].began \in Trees /\ sync[d].saw \in Trees
          /\ notes[tracking[d]] \in Trees
        BY <1>5, <1>0 DEF CloneInv, Syncing, Running, Syncs, Shapes, StoreInv
    <2>2. /\ Within(notes[local[d]], notes'[local'[d]])
          /\ Within(notes[tracking[d]], notes'[local'[d]])
        BY <1>5, MergeKeepsBoth
    <2>3. notes'[local'[d]] = NoNotes
        <3>1. 0 \in Versions /\ 0 \notin 1 .. used'
            BY BoundsAssumption, <1>0 DEF Versions, StoreInv
        <3>2. \A v \in Versions : v \notin 1 .. used' => notes'[v] = NoNotes
            BY <1>0 DEF StoreInv, HistoryShape
        <3> QED BY <1>5, <3>1, <3>2
    <2>4. Within(sync[d].began, NoNotes) /\ Within(sync[d].saw, NoNotes)
        BY <2>1, <2>2, <2>3, <1>0, WithinTrans
    <2>5. \A t \in Trees : Within(t, NoNotes) => t = NoNotes
        BY DEF Trees, NoNotes, Within
    <2> QED BY <2>1, <2>4, <2>5, <1>5
<1>6. CASE sync'[d].phase \notin {"pushed", "nothing"}
    BY <1>6
<1> QED BY <1>3, <1>4, <1>5, <1>6, HowASyncSucceeds

(* A sync that reported success left every record the clone had at its     *)
(* start on the remote, and every record the remote had in the clone, and  *)
(* there they stay.                                                        *)
THEOREM SuccessIsTwoWay == MigrateAlone => (Spec => []SyncIsTwoWay)
<1> SUFFICES ASSUME MigrateAlone PROVE Spec => []SyncIsTwoWay
    OBVIOUS
<1>1. Init => SyncIsTwoWay
    BY NotSyncingType DEF Init, SyncIsTwoWay
<1>2. LedgerInv /\ LedgerInv' /\ SyncIsTwoWay /\ [Next]_vars => SyncIsTwoWay'
    BY TwoWayStep
<1> QED BY LedgerInvariant, <1>1, <1>2, PTL DEF Spec

(* What push_with_retry retries for: after a merge, only a remote that     *)
(* moved since it was fetched refuses a push.                              *)
LEMMA InvRefusesOnlyInterference == LedgerInv => OnlyInterferenceRefuses
<1> SUFFICES ASSUME LedgerInv, NEW c \in Clones, sync[c].phase = "push",
                    remote[sync[c].with] \in {0, tracking[c]}
             PROVE  FastForward(c, sync[c].with)
    BY DEF OnlyInterferenceRefuses
<1>1. StoreInv /\ CloneInv(c) /\ used \in Nat /\ 0 \in Versions
    BY LedgerInvByClone, BoundsAssumption DEF StoreInv, Versions
<1>2. hist[0] = {}
    BY <1>1 DEF StoreInv, HistoryShape
<1> QED BY <1>1, <1>2 DEF CloneInv, FastForward

(* Where a migration has its clone to itself, a sync's account of itself   *)
(* is true: what it calls a success worked both ways, and a push that      *)
(* follows a fetch is refused only if somebody else pushed in between.     *)
THEOREM SyncsAreSound == MigrateAlone => (Spec => []SyncIsSound)
<1> SUFFICES ASSUME MigrateAlone PROVE Spec => []SyncIsSound
    OBVIOUS
<1>1. LedgerInv /\ SyncIsTwoWay => SyncIsSound
    BY InvRefusesOnlyInterference DEF SyncIsSound
<1> QED BY LedgerInvariant, SuccessIsTwoWay, <1>1, PTL

(* Where a migration has its clone to itself, nothing recorded is ever     *)
(* lost, on any clone or remote, by any step of any command or its death.  *)
THEOREM NothingIsEverLost == MigrateAlone => (Spec => NothingIsLost)
<1> SUFFICES ASSUME MigrateAlone PROVE Spec => NothingIsLost
    OBVIOUS
<1> QED BY NothingLostLocally, NothingLostRemotely DEF NothingIsLost

------------------------------------------------------------------------------
(* The refinement: clones and remotes are replicas of a ledger that only   *)
(* grows.  One more invariant is needed: a migration that runs alone       *)
(* writes exactly what carrying one note over to another would.            *)

Kept == [x \in Clones \union Remotes |->
           IF x \in Clones THEN notes[local[x]] ELSE notes[remote[x]]]

MigrationIsExact ==
    \A c \in Clones : Migrating(c) =>
        \E from \in Commits :
            mig[c].merged = notes[local[c]][mig[c].to] \union notes[local[c]][from]

(* What a step may do to the replicas: one clone records, migrates or      *)
(* merges, one remote takes a push, or none of them moves.                 *)
LEMMA WhatMovesAReplica ==
    ASSUME [Next]_vars
    PROVE  \/ UNCHANGED <<store, local, remote>>
           \/ \E c \in Clones :
                \/ \E k \in Commits, r \in Records : AppendRecord(c, k, r)
                \/ MigrateWrite(c)
                \/ MergeTracking(c) /\ Syncing(c) /\ UNCHANGED <<remote, mig>>
                \/ PushAccepted(c)
<1>1. CASE UNCHANGED vars
    BY <1>1 DEF vars, store
<1>2. ASSUME NEW c \in Clones, Kill(c) \/ SyncFetchFails(c)
      PROVE  UNCHANGED <<store, local, remote>>
    BY <1>2 DEF Kill, SyncFetchFails
<1>3. ASSUME NEW c \in Clones, NEW m \in Remotes, SyncFetch(c, m)
      PROVE  UNCHANGED <<store, local, remote>>
    BY <1>3 DEF SyncFetch
<1>4. ASSUME NEW c \in Clones, NEW from \in Commits, NEW to \in Commits,
             MigrateRead(c, from, to)
      PROVE  UNCHANGED <<store, local, remote>>
    BY <1>4 DEF MigrateRead
<1>5. ASSUME NEW c \in Clones, SyncStep(c)
      PROVE  \/ UNCHANGED <<store, local, remote>>
             \/ MergeTracking(c) /\ Syncing(c) /\ UNCHANGED <<remote, mig>>
             \/ PushAccepted(c)
    BY <1>5 DEF SyncStep, SyncMerge, SyncPush, SyncPushUnheard, SyncPushRefused,
                SyncRefetch, SyncRemerge, SyncRecoveryFails, Syncing, Running
<1> QED BY <1>1, <1>2, <1>3, <1>4, <1>5 DEF Next

(* A step that leaves every replica's records alone, or changes those of   *)
(* one clone, or those of one remote, as the abstract ledger sees it.      *)
LEMMA KeptStays ==
    ASSUME UNCHANGED <<store, local, remote>>
    PROVE  Kept' = Kept
BY DEF Kept, store

LEMMA CloneMoves ==
    ASSUME NEW c \in Clones, NEW T, notes'[local'[c]] = T,
           \A d \in Clones \ {c} : notes'[local'[d]] = notes[local[d]],
           \A m \in Remotes : notes'[remote'[m]] = notes[remote[m]]
    PROVE  Kept' = [Kept EXCEPT ![c] = T]
BY DEF Kept

LEMMA RemoteMoves ==
    ASSUME NEW m \in Remotes, NEW T, notes'[remote'[m]] = T,
           \A c \in Clones : notes'[local'[c]] = notes[local[c]],
           \A n \in Remotes \ {m} : notes'[remote'[n]] = notes[remote[n]]
    PROVE  Kept' = [Kept EXCEPT ![m] = T]
BY ApartAssumption DEF Kept

(* A replica that takes over only what another one has absorbs it.         *)
LEMMA AbsorbedIs ==
    ASSUME NEW x \in Clones \union Remotes, NEW y \in Clones \union Remotes,
           NEW T \in Trees, Kept[x] \in Trees, Within(Kept[x], T),
           \A k \in Commits : T[k] \subseteq Kept[x][k] \union Kept[y][k],
           Kept' = [Kept EXCEPT ![x] = T]
    PROVE  Ledger!Next
<1> DEFINE E == Clones \union Remotes
<1>1. \A k \in Commits : T[k] \subseteq UNION {Kept[z][k] : z \in E}
    OBVIOUS
<1>2. T = [k \in Commits |-> Kept[x][k] \union T[k]]
    BY DEF Trees, Within
<1>3. Kept' = [Kept EXCEPT ![x] = [k \in Commits |-> @[k] \union T[k]]]
    BY <1>2 DEF Kept
<1>4. T \in [Commits -> SUBSET Records]
    BY DEF Trees
<1>5. Ledger!Absorb(x, E)
    BY <1>1, <1>3, <1>4 DEF Ledger!Absorb, Kept
<1> QED BY <1>5 DEF Ledger!Next

LEMMA ExactInit == Init => MigrationIsExact
BY DEF Init, MigrationIsExact, Migrating, NotMigrating

(* While a migration runs alone, its clone's ledger stands still.          *)
LEMMA ExactStep ==
    ASSUME MigrateAlone, LedgerInv, MigrationIsExact, [Next]_vars
    PROVE  MigrationIsExact'
<1> SUFFICES ASSUME NEW d \in Clones, Migrating(d)'
             PROVE  \E from \in Commits :
                       mig'[d].merged = notes'[local'[d]][mig'[d].to]
                                        \union notes'[local'[d]][from]
    BY DEF MigrationIsExact
<1>1. /\ Shapes /\ StoreInv /\ CloneInv(d)
      /\ local[d] \in 0 .. used
    BY LedgerInvByClone DEF CloneInv
<1>2. ASSUME NEW from \in Commits, NEW to \in Commits, MigrateRead(d, from, to)
      PROVE  \E f \in Commits :
                mig'[d].merged = notes'[local'[d]][mig'[d].to]
                                 \union notes'[local'[d]][f]
    <2>1. mig'[d].to = to /\ mig'[d].merged = MigratedNote(d, from, to)
        BY <1>1, <1>2 DEF MigrateRead, Shapes
    <2>2. notes' = notes /\ local' = local
        BY <1>2 DEF MigrateRead, store
    <2> QED BY <2>1, <2>2 DEF MigratedNote
<1>3. CASE Migrating(d) /\ mig'[d] = mig[d] /\ notes'[local'[d]] = notes[local[d]]
    BY <1>3 DEF MigrationIsExact
<1>4. notes'[local[d]] = notes[local[d]]
    BY <1>1, NextKeepsStore DEF StoreKept
<1>5. \/ Migrating(d) /\ mig'[d] = mig[d] /\ local'[d] = local[d]
      \/ \E from, to \in Commits : MigrateRead(d, from, to)
    <2>1. CASE UNCHANGED vars
        BY <2>1 DEF vars, Migrating
    <2>2. ASSUME NEW c \in Clones, NEW k \in Commits, NEW r \in Records,
                 AppendRecord(c, k, r)
          PROVE  Migrating(d) /\ mig'[d] = mig[d] /\ local'[d] = local[d]
        BY <1>1, <2>2 DEF AppendRecord, Free, NewVersion, Migrating, Shapes
    <2>3. ASSUME NEW c \in Clones, NEW from \in Commits, NEW to \in Commits,
                 MigrateRead(c, from, to), c # d
          PROVE  Migrating(d) /\ mig'[d] = mig[d] /\ local'[d] = local[d]
        BY <1>1, <2>3 DEF MigrateRead, Migrating, Shapes
    <2>4. ASSUME NEW c \in Clones, MigrateWrite(c)
          PROVE  Migrating(d) /\ mig'[d] = mig[d] /\ local'[d] = local[d]
        <3>1. c # d
            BY <1>1, <2>4 DEF MigrateWrite, Migrating, NotMigrating, Shapes
        <3> QED BY <1>1, <2>4, <3>1 DEF MigrateWrite, NewVersion, Migrating, Shapes
    <2>5. ASSUME NEW c \in Clones, SyncFetchFails(c) \/ \E m \in Remotes : SyncFetch(c, m)
          PROVE  Migrating(d) /\ mig'[d] = mig[d] /\ local'[d] = local[d]
        BY <2>5 DEF SyncFetch, SyncFetchFails, Migrating
    <2>6. ASSUME NEW c \in Clones, SyncStep(c)
          PROVE  Migrating(d) /\ mig'[d] = mig[d] /\ local'[d] = local[d]
        <3>1. UNCHANGED mig
            BY <2>6 DEF SyncStep, SyncMerge, SyncPush, SyncPushUnheard, PushAccepted,
                        SyncPushRefused, SyncRefetch, SyncRemerge, SyncRecoveryFails
        <3>2. Migrating(d) /\ ~ Syncing(d)
            BY <1>1, <3>1 DEF CloneInv, Migrating
        <3>3. \/ UNCHANGED local
              \/ MergeTracking(c) /\ Syncing(c)
            BY <2>6 DEF SyncStep, SyncMerge, SyncPush, SyncPushUnheard, PushAccepted,
                        SyncPushRefused, SyncRefetch, SyncRemerge, SyncRecoveryFails,
                        Syncing, Running
        <3>4. CASE MergeTracking(c) /\ Syncing(c)
            BY <3>1, <3>2, <3>4, MergeKeepsBoth
        <3> QED BY <3>1, <3>2, <3>3, <3>4
    <2>7. ASSUME NEW c \in Clones, Kill(c)
          PROVE  Migrating(d) /\ mig'[d] = mig[d] /\ local'[d] = local[d]
        <3>1. UNCHANGED local
            BY <2>7 DEF Kill
        <3>2. CASE UNCHANGED mig
            BY <3>1, <3>2 DEF Migrating
        <3>3. CASE mig' = [mig EXCEPT ![c] = NotMigrating]
            <4>1. c # d
                BY <1>1, <3>3 DEF Migrating, NotMigrating, Shapes
            <4> QED BY <1>1, <3>1, <3>3, <4>1 DEF Migrating, Shapes
        <3> QED BY <2>7, <3>2, <3>3 DEF Kill
    <2> QED BY <2>1, <2>2, <2>3, <2>4, <2>5, <2>6, <2>7 DEF Next
<1> QED BY <1>2, <1>3, <1>4, <1>5

(* Each step of the ledger is a step of the replicas, or none they see.    *)
LEMMA StepOfReplicas ==
    ASSUME MigrateAlone, LedgerInv, MigrationIsExact, [Next]_vars
    PROVE  [Ledger!Next]_Kept
<1> DEFINE Everywhere == Clones \union Remotes
<1>0. /\ Shapes /\ StoreInv /\ StoreKept /\ StoreInv'
      /\ \A c \in Clones : /\ CloneInv(c) /\ local[c] \in 0 .. used
                           /\ notes[local[c]] \in Trees
                           /\ notes'[local[c]] = notes[local[c]]
      /\ \A m \in Remotes : /\ remote[m] \in 0 .. used
                            /\ notes[remote[m]] \in Trees
                            /\ notes'[remote[m]] = notes[remote[m]]
    <2>1. /\ Shapes /\ StoreInv /\ StoreKept
          /\ \A c \in Clones : CloneInv(c) /\ local[c] \in 0 .. used
          /\ \A m \in Remotes : remote[m] \in 0 .. used
        BY NextKeepsStore, LedgerInvByClone DEF CloneInv
    <2>2. LedgerInv' => StoreInv'
        BY DEF LedgerInv, TypeOK, StoreInv
    <2>3. StoreInv'
        BY <2>2, NextInv
    <2>4. \A v \in 0 .. used : notes'[v] = notes[v] /\ notes[v] \in Trees
        <3>1. 0 .. used \subseteq Versions
            BY <2>1, BoundsAssumption DEF StoreInv, Versions
        <3> QED BY <2>1, <3>1 DEF StoreInv, StoreKept
    <2> QED BY <2>1, <2>3, <2>4
<1>1. /\ \A c \in Clones : c \in Everywhere /\ Kept[c] = notes[local[c]]
      /\ \A m \in Remotes : m \in Everywhere /\ Kept[m] = notes[remote[m]]
    BY ApartAssumption DEF Kept
<1>2. CASE UNCHANGED <<store, local, remote>>
    BY <1>2, KeptStays
<1>3. ASSUME NEW c \in Clones, NEW k \in Commits, NEW r \in Records,
             AppendRecord(c, k, r)
      PROVE  Ledger!Next
    <2> DEFINE T == [notes[local[c]] EXCEPT ![k] = @ \union {r}]
    <2>1. NewVersion(c, {local[c]}, T) /\ UNCHANGED remote
        BY <1>3 DEF AppendRecord
    <2>2. T \in Trees /\ Within(notes[local[c]], T)
        BY <1>0 DEF Trees, Within
    <2> HIDE DEF T
    <2>3. /\ notes'[local'[c]] = T
          /\ \A e \in Clones \ {c} : local'[e] = local[e]
        BY <2>1, <2>2, AppendVersion
    <2>4. Kept' = [Kept EXCEPT ![c] = T]
        BY <1>0, <2>1, <2>3, CloneMoves
    <2>5. Kept' = [Kept EXCEPT ![c][k] = @ \union {r}]
        BY <1>1, <2>4 DEF T, Kept
    <2>6. Ledger!Record(c, k, r)
        BY <2>5 DEF Ledger!Record, Kept
    <2> QED BY <2>6 DEF Ledger!Next
<1>4. ASSUME NEW c \in Clones, MigrateWrite(c)
      PROVE  Ledger!Next
    <2>0. PICK to \in Commits : to = mig[c].to
        BY <1>0 DEF CloneInv, Migrations
    <2> DEFINE T == [notes[local[c]] EXCEPT ![to] = mig[c].merged]
    <2>1. /\ NewVersion(c, {local[c]}, T) /\ UNCHANGED remote
          /\ Migrating(c) /\ mig[c].merged \in SUBSET Records
        BY <1>0, <1>4, <2>0 DEF MigrateWrite, CloneInv, Migrations
    <2>2. PICK from \in Commits :
             mig[c].merged = notes[local[c]][to] \union notes[local[c]][from]
        BY <2>0, <2>1 DEF MigrationIsExact
    <2>3. T \in Trees /\ Within(notes[local[c]], T)
        BY <1>0, <2>1, <2>2 DEF Trees, Within
    <2>4. T = [notes[local[c]] EXCEPT ![to] = @ \union notes[local[c]][from]]
        BY <2>2
    <2> HIDE DEF T
    <2>5. /\ notes'[local'[c]] = T
          /\ \A e \in Clones \ {c} : local'[e] = local[e]
        BY <2>1, <2>3, AppendVersion
    <2>6. Kept' = [Kept EXCEPT ![c] = T]
        BY <1>0, <2>1, <2>5, CloneMoves
    <2>7. Kept' = [Kept EXCEPT ![c][to] = @ \union Kept[c][from]]
        BY <1>1, <2>4, <2>6 DEF Kept
    <2>8. Ledger!Carry(c, from, to)
        BY <2>7 DEF Ledger!Carry, Kept
    <2> QED BY <2>8 DEF Ledger!Next
<1>5. ASSUME NEW c \in Clones, MergeTracking(c), UNCHANGED remote
      PROVE  Ledger!Next
    <2> DEFINE T == notes'[local'[c]]
    <2>1. /\ T \in Trees
          /\ \A d \in Clones \ {c} : local'[d] = local[d]
          /\ Within(notes[local[c]], T)
          /\ \A k \in Commits : T[k] \subseteq notes[local[c]][k]
                                               \union notes[tracking[c]][k]
        <3>1. local'[c] \in Versions /\ notes' \in [Versions -> Trees]
            BY <1>0, <1>5, MergeKeepsBoth DEF StoreInv
        <3> QED BY <3>1, <1>5, MergeKeepsBoth
    <2>2. PICK m \in Remotes : hist[tracking[c]] \subseteq hist[remote[m]]
        BY <1>0 DEF CloneInv
    <2>3. Within(notes[tracking[c]], notes[remote[m]])
        BY <1>0, <2>2, HistoryMeansNotes DEF CloneInv
    <2>4. \A k \in Commits : T[k] \subseteq Kept[c][k] \union Kept[m][k]
        BY <1>1, <2>1, <2>3 DEF Within
    <2> HIDE DEF T
    <2>5. Kept' = [Kept EXCEPT ![c] = T]
        BY <1>0, <1>5, <2>1, CloneMoves DEF T
    <2>6. Kept[c] \in Trees /\ Within(Kept[c], T)
        BY <1>0, <1>1, <2>1
    <2>7. c \in Clones \union Remotes /\ m \in Clones \union Remotes
        OBVIOUS
    <2> QED BY <2>1, <2>4, <2>5, <2>6, <2>7, AbsorbedIs
<1>6. ASSUME NEW c \in Clones, PushAccepted(c)
      PROVE  Ledger!Next
    <2> DEFINE m == sync[c].with
               T == notes[local[c]]
    <2>1. /\ m \in Remotes /\ UNCHANGED <<store, local>>
          /\ hist[remote[m]] \subseteq hist[local[c]]
        BY <1>0, <1>6 DEF PushAccepted, FastForward, CloneInv, Syncs
    <2>2. /\ remote'[m] = local[c]
          /\ \A n \in Remotes \ {m} : remote'[n] = remote[n]
        BY <1>6, PushAdvances
    <2> HIDE DEF m
    <2>3. Kept' = [Kept EXCEPT ![m] = T]
        BY <1>0, <2>1, <2>2, RemoteMoves DEF store
    <2>4. Within(notes[remote[m]], T) /\ T \in Trees
        BY <1>0, <2>1, HistoryMeansNotes
    <2>5. Kept[m] \in Trees /\ Within(Kept[m], T)
        BY <1>0, <1>1, <2>1, <2>4
    <2>6. \A k \in Commits : T[k] \subseteq Kept[m][k] \union Kept[c][k]
        BY <1>1
    <2> HIDE DEF T
    <2> QED BY <1>1, <2>1, <2>3, <2>4, <2>5, <2>6, AbsorbedIs
<1> QED BY <1>2, <1>3, <1>4, <1>5, <1>6, WhatMovesAReplica

(* The notes ledger implements a ledger that only grows: where a migration *)
(* has its clone to itself, merges, fast-forwards, refusals, retries and   *)
(* deaths of git's refs and histories are, to whoever reads the ledgers,   *)
(* records entering replicas and never leaving them.                       *)
THEOREM LedgerOnlyGrows == MigrateAlone => (Spec => ImplementsGrowOnlyLedger)
<1> SUFFICES ASSUME MigrateAlone PROVE Spec => ImplementsGrowOnlyLedger
    OBVIOUS
<1>1. Init => Ledger!Init
    <2> SUFFICES ASSUME Init PROVE Ledger!Init
        OBVIOUS
    <2>1. 0 \in Versions
        BY BoundsAssumption DEF Versions
    <2>2. \A x \in Clones \union Remotes :
             (IF x \in Clones THEN notes[local[x]] ELSE notes[remote[x]]) = NoNotes
        BY <2>1 DEF Init
    <2> QED BY <2>2 DEF Ledger!Init, NoNotes
<1>2. MigrationIsExact /\ LedgerInv /\ [Next]_vars => MigrationIsExact'
    BY ExactStep
<1>3. MigrationIsExact /\ LedgerInv /\ [Next]_vars => [Ledger!Next]_Kept
    BY StepOfReplicas
<1>4. Kept = [x \in Clones \union Remotes |->
                IF x \in Clones THEN notes[local[x]] ELSE notes[remote[x]]]
    BY DEF Kept
<1> QED BY LedgerInvariant, ExactInit, <1>1, <1>2, <1>3, PTL
        DEF Spec, ImplementsGrowOnlyLedger, Ledger!Spec, Kept

------------------------------------------------------------------------------
(* VERIFIER                                                                 *)

(* Ranks order the attestations.                                           *)
LEMMA RankType ==
    /\ \A a \in Attestations : Rank[a] \in 0 .. 6
    /\ \A a \in Attestations : Rank[a] = 0 <=> a = "confirmed"
    /\ \A a, b \in Attestations : Rank[a] = Rank[b] => a = b
    /\ \A a \in Attestations : Rank[a] = 6 <=> a = "divergent"
BY DEF Rank, Attestations

(* A worst attestation exists, and Worst finds it.                         *)
LEMMA WorstIsWorst ==
    ASSUME NEW V \in SUBSET Attestations, V # {}
    PROVE  /\ Worst(V) \in V
           /\ \A w \in V : Rank[w] <= Rank[Worst(V)]
<1> DEFINE Top(n) == \E v \in V : Rank[v] = n /\ \A w \in V : Rank[w] <= n
<1>1. \E n \in 0 .. 6 : Top(n)
    <2>1. \A w \in V : Rank[w] \in 0 .. 6
        BY RankType
    <2> HIDE DEF Rank
    <2>2. CASE \E v \in V : Rank[v] = 6
        BY <2>1, <2>2
    <2>3. CASE \E v \in V : Rank[v] = 5 /\ \A w \in V : Rank[w] # 6
        BY <2>1, <2>3
    <2>4. CASE \E v \in V : Rank[v] = 4 /\ \A w \in V : Rank[w] \notin 5 .. 6
        BY <2>1, <2>4
    <2>5. CASE \E v \in V : Rank[v] = 3 /\ \A w \in V : Rank[w] \notin 4 .. 6
        BY <2>1, <2>5
    <2>6. CASE \E v \in V : Rank[v] = 2 /\ \A w \in V : Rank[w] \notin 3 .. 6
        BY <2>1, <2>6
    <2>7. CASE \E v \in V : Rank[v] = 1 /\ \A w \in V : Rank[w] \notin 2 .. 6
        BY <2>1, <2>7
    <2>8. CASE \A w \in V : Rank[w] \notin 1 .. 6
        BY <2>1, <2>8
    <2> QED BY <2>1, <2>2, <2>3, <2>4, <2>5, <2>6, <2>7, <2>8
<1>2. \E v \in V : \A w \in V : Rank[w] <= Rank[v]
    BY <1>1
<1> QED BY <1>2 DEF Worst

(* More to look at is never better.                                        *)
LEMMA WorstGrows ==
    ASSUME NEW W \in SUBSET Attestations, NEW V \in SUBSET W, V # {}
    PROVE  Rank[Worst(V)] <= Rank[Worst(W)]
BY WorstIsWorst

LEMMA ClassifyType ==
    ASSUME NEW r \in ReportType
    PROVE  Outcome(r) \in Attestations
BY DEF Outcome, Classify, Attestations

LEMMA LinesType ==
    ASSUME NEW body \in Seq(Reports)
    PROVE  /\ Lines(body) \subseteq ReportType
           /\ body # <<>> => Lines(body) # {}
           /\ {Outcome(r) : r \in Lines(body)} \in SUBSET Attestations
<1>1. Lines(body) \subseteq ReportType
    BY ReportsAssumption DEF Lines
<1>2. ASSUME body # <<>> PROVE Lines(body) # {}
    <2>1. Len(body) \in Nat /\ Len(body) # 0 /\ DOMAIN body = 1 .. Len(body)
        BY <1>2
    <2>2. 1 \in DOMAIN body
        BY <2>1
    <2> QED BY <2>2 DEF Lines
<1>3. \A r \in Lines(body) : Outcome(r) \in Attestations
    BY <1>1, ClassifyType
<1> QED BY <1>1, <1>2, <1>3

LEMMA AttestationType ==
    ASSUME NEW body \in Seq(Reports)
    PROVE  AttestationOf(body) \in Attestations /\ VerdictOf(body) \in Verdicts
<1>1. Unreported \in Attestations
    BY DEF Unreported, Attestations
<1>2. AttestationOf(body) \in Attestations
    BY <1>1, LinesType, WorstIsWorst DEF AttestationOf
<1>3. VerdictOf(body) \in Verdicts
    BY DEF VerdictOf, VerdictFor, Verdicts
<1> QED BY <1>2, <1>3

(* The attestation of a note with reports is as bad as that of each.       *)
LEMMA WorstOfAll ==
    ASSUME NEW body \in Seq(Reports), body # <<>>
    PROVE  /\ \E r \in Lines(body) : AttestationOf(body) = Outcome(r)
           /\ \A r \in Lines(body) :
                Outcome(r) \in Attestations
                /\ Rank[Outcome(r)] <= Rank[AttestationOf(body)]
<1> DEFINE V == {Outcome(r) : r \in Lines(body)}
<1>1. V \in SUBSET Attestations /\ V # {}
    BY LinesType
<1>2. Worst(V) \in V /\ \A w \in V : Rank[w] <= Rank[Worst(V)]
    BY <1>1, WorstIsWorst
<1>3. AttestationOf(body) = Worst(V)
    BY DEF AttestationOf
<1> HIDE DEF V
<1> QED BY <1>1, <1>2, <1>3 DEF V

------------------------------------------------------------------------------
LEMMA ArrangementsType ==
    ASSUME NEW S \in SUBSET Reports, NEW s \in Arrangements(S)
    PROVE  s \in Seq(Reports) /\ Len(s) <= MaxReports /\ Lines(s) = S /\ s # <<>>
<1>1. PICK n \in 1 .. MaxReports : s \in [1 .. n -> S]
    BY DEF Arrangements
<1>2. s \in Seq(Reports) /\ Len(s) = n
    BY <1>1, NumbersAssumption
<1> QED BY <1>1, <1>2, NumbersAssumption DEF Arrangements

(* The state stays well typed.                                             *)
THEOREM VerifierTypes == VerifierSpec => []VerifierTypeOK
<1>0. <<>> \in Seq(Reports) /\ Len(<<>>) = 0
    OBVIOUS
<1>1. VerifierInit => VerifierTypeOK
    <2>1. NoRun \in [busy : BOOLEAN, value : Attestations, verdict : Verdicts,
                     read : Seq(Reports), after : BOOLEAN]
        BY <1>0 DEF NoRun, Attestations, Verdicts
    <2>2. 0 <= MaxReports
        BY NumbersAssumption
    <2>3. ASSUME VerifierInit PROVE note \in Seq(Reports) /\ Len(note) <= MaxReports
        BY <1>0, <2>2, <2>3 DEF VerifierInit
    <2> QED BY <2>1, <2>3 DEF VerifierInit, VerifierTypeOK
<1>2. VerifierTypeOK /\ [VerifierNext]_verifierVars => VerifierTypeOK'
    <2> SUFFICES ASSUME VerifierTypeOK, [VerifierNext]_verifierVars PROVE VerifierTypeOK'
        OBVIOUS
    <2>1. ASSUME NEW r \in Reports, Report(r) PROVE VerifierTypeOK'
        BY <2>1, NumbersAssumption DEF Report, VerifierTypeOK
    <2>2. ASSUME NEW r \in Reports, MergeReports(r) PROVE VerifierTypeOK'
        <3>1. Lines(note) \union {r} \in SUBSET Reports
            BY DEF VerifierTypeOK, Lines
        <3> QED BY <2>2, <3>1, ArrangementsType DEF MergeReports, VerifierTypeOK
    <2>3. CASE Land
        BY <2>3 DEF Land, VerifierTypeOK
    <2>4. CASE Verify
        BY <2>4, AttestationType DEF Verify, VerifierTypeOK
    <2>5. CASE Attest
        BY <1>0, <2>5 DEF Attest, VerifierTypeOK, NoRun, Attestations, Verdicts
    <2>6. CASE UNCHANGED verifierVars
        BY <2>6 DEF verifierVars, VerifierTypeOK
    <2> QED BY <2>1, <2>2, <2>3, <2>4, <2>5, <2>6 DEF VerifierNext
<1> QED BY <1>1, <1>2, PTL DEF VerifierSpec

------------------------------------------------------------------------------
(* A report that compares clean says what the verifier measured.           *)
LEMMA ConfirmedWitnesses ==
    ASSUME NEW r \in ReportType, Outcome(r) = "confirmed"
    PROVE  Witnesses(r) /\ ~ landed
<1>1. /\ r.committed /\ r.atHead
      /\ BaseRelation(r.base) \notin {"not-ancestor", "unknown", "ancestor"}
      /\ ~ RegimeDisagrees(r) /\ ~ Mismatched(r) /\ ~ Unearned(r)
    BY DEF Outcome, Classify
<1>2. r.base = "fork" /\ ~ landed
    BY <1>1 DEF BaseRelation
<1>3. r.results # {}
    BY <1>1 DEF Unearned, Covered
<1>4. \A b \in recompute : b.deterministic =>
        \E a \in r.results : a.key = b.key /\ a.digest = b.digest
                             /\ a.regime = b.regime
    BY <1>1 DEF Unearned, Covered, Mismatched, RegimeDisagrees
<1>5. \A a \in r.results : \A b \in recompute :
        a.key = b.key /\ b.deterministic => a.digest = b.digest
    BY <1>1 DEF Mismatched
<1> QED BY <1>1, <1>2, <1>3, <1>4, <1>5 DEF Witnesses

LEMMA DivergentHasEvidence ==
    ASSUME NEW r \in ReportType, Outcome(r) = "divergent"
    PROVE  Evidence(r, landed)
<1>1. r.committed
    BY DEF Outcome, Classify
<1>2. CASE BaseRelation(r.base) \in {"not-ancestor", "unknown"}
    <2>1. r.base \in Bases
        BY DEF ReportType
    <2>2. r.base \in {"stray", "unknown"} \/ (r.base = "inner" /\ ~ landed)
        BY <1>2, <2>1 DEF BaseRelation, TrustedBranch, Bases
    <2> QED BY <1>1, <2>2 DEF Evidence
<1>3. CASE BaseRelation(r.base) \notin {"not-ancestor", "unknown"}
    <2>1. /\ BaseRelation(r.base) # "ancestor" /\ r.atHead
          /\ ~ RegimeDisagrees(r) /\ Mismatched(r)
        BY <1>3 DEF Outcome, Classify
    <2>2. r.base = "fork" /\ ~ landed
        BY <1>3, <2>1 DEF BaseRelation
    <2> QED BY <1>1, <2>1, <2>2 DEF Evidence, RegimeDisagrees, Mismatched
<1> QED BY <1>2, <1>3

(* What a run concludes follows from the reports it read, and from where   *)
(* the trusted branch was then.                                            *)
RunInv == VerifierTypeOK /\ ConfirmedIsEarned /\ AccusationHasEvidence

LEMMA VerifyConcludes ==
    ASSUME VerifierTypeOK, Verify
    PROVE  ConfirmedIsEarned' /\ AccusationHasEvidence'
<1>1. /\ run' = [busy |-> TRUE, value |-> AttestationOf(note),
                 verdict |-> VerdictOf(note), read |-> note, after |-> landed]
      /\ recompute' = recompute
      /\ note \in Seq(Reports) /\ Lines(note) \subseteq ReportType
    BY LinesType DEF Verify, VerifierTypeOK
<1>2. ASSUME run'.value = "confirmed"
      PROVE  ~ landed /\ note # <<>> /\ \A r \in Lines(note) : Witnesses(r)
    <2>1. note # <<>>
        BY <1>1, <1>2 DEF AttestationOf, Unreported
    <2>2. \A r \in Lines(note) : Outcome(r) = "confirmed"
        <3> TAKE r \in Lines(note)
        <3>1. /\ Outcome(r) \in Attestations
              /\ Rank[Outcome(r)] <= Rank["confirmed"]
            BY <1>1, <1>2, <2>1, WorstOfAll
        <3>2. "confirmed" \in Attestations
            BY DEF Attestations
        <3> QED BY <3>1, <3>2, RankType
    <2>3. Lines(note) # {}
        BY <1>1, <2>1, LinesType
    <2> QED BY <1>1, <2>1, <2>2, <2>3, ConfirmedWitnesses
<1>3. ASSUME run'.verdict = "block"
      PROVE  \E r \in Lines(note) : Evidence(r, landed)
    <2>1. AttestationOf(note) = "divergent"
        BY <1>1, <1>3 DEF VerdictOf, VerdictFor
    <2>2. note # <<>>
        BY <2>1 DEF AttestationOf, Unreported
    <2>3. PICK r \in Lines(note) : Outcome(r) = "divergent"
        BY <1>1, <2>1, <2>2, WorstOfAll
    <2> QED BY <1>1, <2>3, DivergentHasEvidence
<1>5. ConfirmedIsEarned'
    BY <1>1, <1>2 DEF ConfirmedIsEarned, Witnesses, Lines
<1>6. AccusationHasEvidence'
    BY <1>1, <1>3 DEF AccusationHasEvidence, Evidence, Lines
<1> QED BY <1>5, <1>6

LEMMA RunStep == RunInv /\ [VerifierNext]_verifierVars /\ VerifierTypeOK' => RunInv'
<1> SUFFICES ASSUME RunInv, [VerifierNext]_verifierVars, VerifierTypeOK'
             PROVE  ConfirmedIsEarned' /\ AccusationHasEvidence'
    BY DEF RunInv
<1>1. CASE Verify
    BY <1>1, VerifyConcludes DEF RunInv
<1>2. CASE UNCHANGED <<run, recompute>>
    BY <1>2 DEF RunInv, ConfirmedIsEarned, AccusationHasEvidence, Witnesses,
               Evidence, Lines
<1>3. CASE Attest
    BY <1>3 DEF Attest, NoRun, ConfirmedIsEarned, AccusationHasEvidence
<1> QED BY <1>1, <1>2, <1>3 DEF VerifierNext, verifierVars, Report, MergeReports, Land

(* A confirmation is earned by every report that was there.                *)
THEOREM ConfirmationsAreEarned == VerifierSpec => []ConfirmedIsEarned
<1>1. VerifierInit => RunInv \/ ~ VerifierTypeOK
    BY DEF VerifierInit, RunInv, NoRun, ConfirmedIsEarned, AccusationHasEvidence
<1>2. RunInv => ConfirmedIsEarned
    BY DEF RunInv
<1> QED BY VerifierTypes, RunStep, <1>1, <1>2, PTL DEF VerifierSpec

(* Whoever is accused gave evidence: no block without a base off the       *)
(* trusted branch or a contradicted value.                                 *)
THEOREM AccusationsHaveEvidence == VerifierSpec => []AccusationHasEvidence
<1>1. VerifierInit => RunInv \/ ~ VerifierTypeOK
    BY DEF VerifierInit, RunInv, NoRun, ConfirmedIsEarned, AccusationHasEvidence
<1>2. RunInv => AccusationHasEvidence
    BY DEF RunInv
<1> QED BY VerifierTypes, RunStep, <1>1, <1>2, PTL DEF VerifierSpec

(* Neither word is given away: what attest and compare conclude is         *)
(* well typed, confirmed only where earned and accusing only on evidence.  *)
THEOREM DecisionsAreAlwaysEarned == VerifierSpec => []DecisionsAreEarned
<1>1. VerifierTypeOK /\ ConfirmedIsEarned /\ AccusationHasEvidence => DecisionsAreEarned
    BY DEF DecisionsAreEarned
<1> QED BY VerifierTypes, ConfirmationsAreEarned, AccusationsHaveEvidence, <1>1, PTL

------------------------------------------------------------------------------
(* The worst attestation ever written stays decisive.                      *)
THEOREM VerifyingAgainBuysNothing == VerifierSpec => DecisiveNeverSoftens
<1>1. VerifierTypeOK /\ VerifierTypeOK' /\ [VerifierNext]_verifierVars
        => [attests # {} => attests' # {} /\ Rank[Decisive] <= Rank[Decisive']]_verifierVars
    <2> SUFFICES ASSUME VerifierTypeOK, VerifierTypeOK', [VerifierNext]_verifierVars, attests # {}
                 PROVE  attests' # {} /\ Rank[Decisive] <= Rank[Decisive']
        OBVIOUS
    <2> DEFINE V == {a.value : a \in attests}
    <2>1. attests \subseteq attests'
        BY DEF VerifierNext, verifierVars, Report, MergeReports, Land, Verify, Attest
    <2>2. V' \in SUBSET Attestations /\ V \in SUBSET V' /\ V # {}
        BY <2>1 DEF VerifierTypeOK
    <2>3. Rank[Worst(V)] <= Rank[Worst(V')]
        BY <2>2, WorstGrows
    <2> QED BY <2>1, <2>3 DEF Decisive
<1> QED BY VerifierTypes, <1>1, PTL DEF VerifierSpec, DecisiveNeverSoftens

(* What is concluded from more lines is not better.                        *)
LEMMA MoreLinesAreNotBetter ==
    ASSUME NEW old \in Seq(Reports), NEW new \in Seq(Reports),
           Lines(old) \subseteq Lines(new), old # <<>>, new # <<>>
    PROVE  Rank[AttestationOf(old)] <= Rank[AttestationOf(new)]
<1> DEFINE V == {Outcome(r) : r \in Lines(old)}
           W == {Outcome(r) : r \in Lines(new)}
<1>1. W \in SUBSET Attestations /\ V \in SUBSET W
    BY LinesType
<1>2. V # {}
    BY LinesType
<1> QED BY <1>1, <1>2, WorstGrows DEF AttestationOf

(* A count over the lines of a note does not go down when a line is added. *)
LEMMA CountsGrow ==
    ASSUME NEW S \in SUBSET Nat, NEW T \in SUBSET S, NEW n \in Nat,
           S \subseteq 1 .. n
    PROVE  Cardinality(T) <= Cardinality(S)
           /\ Cardinality(T) \in Nat /\ Cardinality(S) \in Nat
<1>1. IsFiniteSet(1 .. n)
    BY FS_Interval
<1>2. IsFiniteSet(S)
    BY <1>1, FS_Subset
<1> QED BY <1>2, FS_Subset, FS_CardinalityType

LEMMA EscalationStays ==
    ASSUME NEW old \in Seq(Reports), NEW r \in Reports, Escalates(old)
    PROVE  Escalates(Append(old, r))
<1> DEFINE new == Append(old, r)
<1>1. /\ Len(old) \in Nat /\ DOMAIN old = 1 .. Len(old)
      /\ DOMAIN new = 1 .. Len(old) + 1 /\ Len(old) + 1 \in Nat
      /\ \A i \in DOMAIN old : new[i] = old[i]
    OBVIOUS
<1> HIDE DEF new
<1>2. Skewed(old) <= Skewed(new) /\ Skewed(old) \in Nat /\ Skewed(new) \in Nat
    <2> DEFINE S == {i \in DOMAIN new : RegimeDisagrees(new[i])}
               T == {i \in DOMAIN old : RegimeDisagrees(old[i])}
    <2>1. S \in SUBSET Nat /\ T \in SUBSET S /\ S \subseteq 1 .. Len(old) + 1
        BY <1>1
    <2> HIDE DEF S, T
    <2>2. /\ Cardinality(T) <= Cardinality(S)
          /\ Cardinality(T) \in Nat /\ Cardinality(S) \in Nat
        <3>1. /\ S \in SUBSET Nat /\ T \in SUBSET S /\ Len(old) + 1 \in Nat
              /\ S \subseteq 1 .. Len(old) + 1
            BY <1>1, <2>1
        <3> QED BY ONLY <3>1, CountsGrow
    <2> QED BY <2>2 DEF Skewed, S, T
<1>3. /\ BaseMismatched(old) <= BaseMismatched(new)
      /\ BaseMismatched(old) \in Nat /\ BaseMismatched(new) \in Nat
    <2> DEFINE S == {i \in DOMAIN new : BaseRelation(new[i].base) = "ancestor"}
               T == {i \in DOMAIN old : BaseRelation(old[i].base) = "ancestor"}
    <2>1. S \in SUBSET Nat /\ T \in SUBSET S /\ S \subseteq 1 .. Len(old) + 1
        BY <1>1
    <2> HIDE DEF S, T
    <2>2. /\ Cardinality(T) <= Cardinality(S)
          /\ Cardinality(T) \in Nat /\ Cardinality(S) \in Nat
        <3>1. /\ S \in SUBSET Nat /\ T \in SUBSET S /\ Len(old) + 1 \in Nat
              /\ S \subseteq 1 .. Len(old) + 1
            BY <1>1, <2>1
        <3> QED BY ONLY <3>1, CountsGrow
    <2> QED BY <2>2 DEF BaseMismatched, S, T
<1> QED BY <1>2, <1>3, NumbersAssumption DEF Escalates, new

(* A verdict is monotone in the attestation and in the escalation.         *)
LEMMA VerdictGrows ==
    ASSUME NEW v \in Attestations, NEW w \in Attestations,
           NEW e \in BOOLEAN, NEW f \in BOOLEAN,
           Rank[v] <= Rank[w], e => f
    PROVE  Strength[VerdictFor(v, e)] <= Strength[VerdictFor(w, f)]
<1>1. /\ Rank["confirmed"] = 0 /\ Rank["confirmed-static"] = 1
      /\ Rank["divergent"] = 6
      /\ \A a \in Attestations : Rank[a] \in 0 .. 6
      /\ \A a \in Attestations : Rank[a] <= 1 =>
            a \in {"confirmed", "confirmed-static"}
      /\ \A a \in Attestations : Rank[a] = 6 => a = "divergent"
    BY DEF Rank, Attestations
<1>2. /\ Strength["pass"] = 0 /\ Strength["advise"] = 1
      /\ Strength["escalate_to_human"] = 2 /\ Strength["block"] = 3
    BY DEF Strength, Verdicts
<1>3. CASE v = "divergent"
    <2>1. w = "divergent"
        BY <1>1, <1>3
    <2> QED BY <1>2, <1>3, <2>1 DEF VerdictFor
<1>4. CASE w = "divergent"
    BY <1>2, <1>4 DEF VerdictFor
<1>5. CASE v # "divergent" /\ w # "divergent" /\ f
    BY <1>2, <1>5 DEF VerdictFor
<1>6. CASE v # "divergent" /\ w # "divergent" /\ ~ f
    <2>1. CASE w \in {"confirmed", "confirmed-static"}
        <3>1. v \in {"confirmed", "confirmed-static"}
            BY <1>1, <2>1
        <3> QED BY <1>2, <1>6, <2>1, <3>1 DEF VerdictFor
    <2>2. CASE w \notin {"confirmed", "confirmed-static"}
        BY <1>2, <1>6, <2>2 DEF VerdictFor
    <2> QED BY <2>1, <2>2
<1> QED BY <1>3, <1>4, <1>5, <1>6

LEMMA ReportStep ==
    ASSUME VerifierTypeOK, VerifierTypeOK', NEW r \in Reports, Report(r)
    PROVE  /\ note # <<>> => Rank[AttestationOf(note)] <= Rank[AttestationOf(note')]
           /\ note # <<>> \/ ForkTier =>
                Strength[VerdictOf(note)] <= Strength[VerdictOf(note')]
<1>1. note \in Seq(Reports) /\ note' \in Seq(Reports) /\ note' = Append(note, r)
    BY DEF VerifierTypeOK, Report
<1>2. Lines(note) \subseteq Lines(note') /\ note' # <<>>
    <2>1. /\ Len(note) \in Nat /\ DOMAIN note = 1 .. Len(note)
          /\ DOMAIN note' = 1 .. Len(note) + 1
          /\ \A i \in DOMAIN note : note'[i] = note[i]
        BY <1>1
    <2>2. note' # <<>>
        BY <1>1
    <2> QED BY <2>1, <2>2 DEF Lines
<1>3. ASSUME note # <<>>
      PROVE  Rank[AttestationOf(note)] <= Rank[AttestationOf(note')]
    BY <1>1, <1>2, <1>3, MoreLinesAreNotBetter
<1>4. /\ AttestationOf(note) \in Attestations /\ AttestationOf(note') \in Attestations
      /\ Escalates(note) \in BOOLEAN /\ Escalates(note') \in BOOLEAN
    BY <1>1, AttestationType DEF Escalates
<1>5. ASSUME note # <<>>
      PROVE  Strength[VerdictOf(note)] <= Strength[VerdictOf(note')]
    <2>1. Escalates(note) => Escalates(note')
        BY <1>1, EscalationStays
    <2> QED BY <1>3, <1>4, <1>5, <2>1, VerdictGrows DEF VerdictOf
<1>6. ASSUME note = <<>>, ForkTier
      PROVE  Strength[VerdictOf(note)] <= Strength[VerdictOf(note')]
    <2>1. ~ Escalates(note)
        <3>1. Skewed(note) = 0 /\ BaseMismatched(note) = 0
            BY <1>6, FS_EmptySet DEF Skewed, BaseMismatched
        <3> QED BY <3>1, NumbersAssumption DEF Escalates
    <2>2. VerdictOf(note) = "pass"
        BY <1>6, <2>1 DEF VerdictOf, VerdictFor, AttestationOf, Unreported
    <2>3. Strength["pass"] = 0 /\ \A v \in Verdicts : Strength[v] \in 0 .. 3
        BY DEF Strength, Verdicts
    <2>4. VerdictOf(note') \in Verdicts
        BY <1>1, AttestationType
    <2> QED BY <2>2, <2>3, <2>4
<1> QED BY <1>3, <1>5, <1>6

LEMMA MergeStep ==
    ASSUME VerifierTypeOK, NEW r \in Reports, MergeReports(r)
    PROVE  /\ note # <<>> /\ note' \in Seq(Reports)
           /\ Rank[AttestationOf(note)] <= Rank[AttestationOf(note')]
<1>1. note \in Seq(Reports) /\ note # <<>>
    BY DEF VerifierTypeOK, MergeReports
<1>2. Lines(note) \union {r} \in SUBSET Reports
    BY <1>1 DEF Lines
<1>3. note' \in Seq(Reports) /\ Lines(note') = Lines(note) \union {r} /\ note' # <<>>
    BY <1>2, ArrangementsType DEF MergeReports
<1> QED BY <1>1, <1>3, MoreLinesAreNotBetter

(* Neither a report nor a merge of notes improves what is concluded.       *)
THEOREM MeasuringAgain == VerifierSpec => MeasuringAgainBuysNothing
<1> DEFINE NoteKept == note # <<>> /\ landed' = landed =>
                       Rank[AttestationOf(note)] <= Rank[AttestationOf(note')]
           Firm == (note # <<>> \/ ForkTier) /\ (\E r \in Reports : Report(r)) =>
                       Strength[VerdictOf(note)] <= Strength[VerdictOf(note')]
<1>1. VerifierTypeOK /\ VerifierTypeOK' /\ [VerifierNext]_verifierVars => [NoteKept /\ Firm]_verifierVars
    <2> SUFFICES ASSUME VerifierTypeOK, VerifierTypeOK', VerifierNext PROVE NoteKept /\ Firm
        OBVIOUS
    <2>1. Firm
        BY ReportStep
    <2>2. CASE \E r \in Reports : Report(r) \/ MergeReports(r)
        BY <2>2, ReportStep, MergeStep
    <2>3. CASE note' = note /\ UNCHANGED recompute
        <3>1. ASSUME note # <<>>, landed' = landed
              PROVE  AttestationOf(note') = AttestationOf(note)
            BY <2>3
        <3>2. AttestationOf(note) \in Attestations
            BY AttestationType DEF VerifierTypeOK
        <3> QED BY <2>1, <2>3, <3>1, <3>2, RankType
    <2> QED BY <2>1, <2>2, <2>3 DEF VerifierNext, Land, Verify, Attest
<1> QED BY VerifierTypes, <1>1, PTL DEF VerifierSpec, MeasuringAgainBuysNothing
==============================================================================
