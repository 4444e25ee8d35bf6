--------------------------- MODULE GrowOnlyLedger ---------------------------
(***************************************************************************)
(* What the notes ledger promises, with no git in it: every replica (a     *)
(* clone's local ref, a remote's ref) is a set of records attached to      *)
(* commits, and no step ever takes one away.  A record enters a replica    *)
(* because it was measured there, because another replica already holds    *)
(* it, or because it was carried from one commit of the replica to         *)
(* another (a squash migration).                                           *)
(***************************************************************************)

CONSTANTS
    Replicas,  \* every place the ledger is kept
    Commits,   \* the source commits a record can be attached to
    Records    \* the measurement records

VARIABLE ledger  \* ledger[x][k]: the records replica x attaches to commit k

Init == ledger = [x \in Replicas |-> [k \in Commits |-> {}]]

(* A new record is attached to k in one replica. *)
Record(x, k, r) ==
    ledger' = [ledger EXCEPT ![x][k] = @ \union {r}]

(* x takes over some of what the replicas of Y hold between them. *)
Absorb(x, Y) ==
    \E gain \in [Commits -> SUBSET Records] :
        /\ \A k \in Commits : gain[k] \subseteq UNION {ledger[y][k] : y \in Y}
        /\ ledger' =
             [ledger EXCEPT ![x] = [k \in Commits |-> @[k] \union gain[k]]]

(* The records x attaches to `from` are attached to `to` as well. *)
Carry(x, from, to) ==
    ledger' = [ledger EXCEPT ![x][to] = @ \union ledger[x][from]]

Next ==
    \E x \in Replicas :
        \/ \E k \in Commits, r \in Records : Record(x, k, r)
        \/ Absorb(x, Replicas)
        \/ \E from, to \in Commits : Carry(x, from, to)

Spec == Init /\ [][Next]_ledger
=============================================================================
