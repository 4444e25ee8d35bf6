----------------------------- MODULE LoopCounter -----------------------------
(***************************************************************************)
(* What the iteration counter promises the branches of one repository: for *)
(* each branch, how many changes were measured and found wanting since the *)
(* loop last ended, where measuring one change again is not another        *)
(* attempt.  Every call takes effect at once.                              *)
(***************************************************************************)
EXTENDS Integers

CONSTANTS
    Branches,  \* branches of the repository
    Changes,   \* changes a pass can be counted for
    NoChange,  \* a branch whose count is about no change
    Limit      \* the count stops here

VARIABLE counter  \* counter[b]: the count of b and the change it was last raised for

Cleared == [count |-> 0, change |-> NoChange]

Init == counter = [b \in Branches |-> Cleared]

(* The counter of a branch after a countable pass at a change. *)
Counted(entry, change) ==
    IF entry.change = change THEN entry
    ELSE [count  |-> IF entry.count < Limit THEN entry.count + 1 ELSE Limit,
          change |-> change]

Count(b, change) ==
    counter' = [counter EXCEPT ![b] = Counted(@, change)]

(* The loop ended, or a human acknowledged the escalation. *)
Clear(b) == counter' = [counter EXCEPT ![b] = Cleared]

(* The stored state was unusable and every branch starts again. *)
Forget == counter' = [b \in Branches |-> Cleared]

Next ==
    \/ \E b \in Branches : Clear(b) \/ \E ch \in Changes : Count(b, ch)
    \/ Forget

Spec == Init /\ [][Next]_counter
==============================================================================
