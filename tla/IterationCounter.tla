--------------------------- MODULE IterationCounter ---------------------------
(***************************************************************************)
(* The iteration counter of andon-core (verdict/iteration.rs): one state   *)
(* file for all branches of a repository, rewritten as a whole under a     *)
(* lock file, by measurements (advance) and acknowledgements (reset) that  *)
(* run as separate processes.  A lock file is created with create_new,     *)
(* removed by its holder, and taken for abandoned when it is old.          *)
(*                                                                         *)
(* Time is not modelled: a lock file turns stale at some moment, and the   *)
(* wait for a lock runs out at some moment.                                *)
(***************************************************************************)
EXTENDS Integers

CONSTANTS
    Procs,       \* processes that use the counter
    Branches,    \* branches of the repository
    Changes,     \* the changes ("base..head") that are measured
    NoChange,    \* a branch whose count is about no change
    NoProc,      \* nobody: the owner of a lock file left from earlier
    MaxCount,    \* where the count saturates (u32::MAX in the code)
    Stalls,      \* may a live holder keep the lock past LOCK_STALE?
    Crashes,     \* may a process die, holding the lock or not?
    Leftover,    \* may there be a lock file from a process that died earlier?
    DirWritable  \* can lock files be created and removed at all?

ASSUME NamesAssumption == NoChange \notin Changes /\ NoProc \notin Procs
ASSUME BoundAssumption == MaxCount \in Nat
ASSUME EnvironmentAssumption ==
    /\ Stalls \in BOOLEAN
    /\ Crashes \in BOOLEAN
    /\ Leftover \in BOOLEAN
    /\ DirWritable \in BOOLEAN

VARIABLES
    file,    \* the branches the state file holds
    usable,  \* does the file parse, in the layout of this build?
    lock,    \* the lock file
    phase,   \* phase[p]: where process p is in its call
    call,    \* call[p]: the call p is making
    copy     \* copy[p]: the file as p read it, changed as its call asks

vars == <<file, usable, lock, phase, call, copy>>

Entries == [count : 0 .. MaxCount, change : Changes \union {NoChange}]
Files == [Branches -> Entries]
Cleared == [count |-> 0, change |-> NoChange]
Fresh == [b \in Branches |-> Cleared]

(* Only a countable pass looks at the change it is made for. *)
Calls == [outcome : {"Countable"}, branch : Branches, change : Changes]
         \union [outcome : {"Finished", "Inconclusive", "Reset"},
                 branch : Branches, change : {NoChange}]
NoCall == [outcome |-> "none", branch |-> NoProc, change |-> NoChange]

Phases == {"idle", "wait", "steal", "locked", "read", "written", "dead"}
(* Between create_lock and the removal of the lock by its holder. *)
Holding == {"locked", "read", "written"}

(* The lock file: absent, or there with its (ghost) creator. *)
NoLock == [there |-> FALSE, stale |-> FALSE, owner |-> NoProc]
OldLock == [there |-> TRUE, stale |-> TRUE, owner |-> NoProc]
LockFiles == [there : BOOLEAN, stale : BOOLEAN, owner : Procs \union {NoProc}]

Init ==
    /\ file = Fresh
    /\ usable \in BOOLEAN
    /\ lock \in IF Leftover THEN {NoLock, OldLock} ELSE {NoLock}
    /\ phase = [p \in Procs |-> "idle"]
    /\ call = [p \in Procs |-> NoCall]
    /\ copy = [p \in Procs |-> Fresh]

Goto(p, to) == phase' = [phase EXCEPT ![p] = to] /\ UNCHANGED call
Return(p) == /\ phase' = [phase EXCEPT ![p] = "idle"]
             /\ call' = [call EXCEPT ![p] = NoCall]

------------------------------------------------------------------------------
(* StateLock::acquire.                                                     *)

(* A measurement (advance) or `andon ledger ack` (reset) begins. *)
Begin(p, c) ==
    /\ phase[p] = "idle"
    /\ call' = [call EXCEPT ![p] = c]
    /\ phase' = [phase EXCEPT ![p] = "wait"]
    /\ UNCHANGED <<file, usable, lock, copy>>

(* create_lock: create_new succeeds only when there is no lock file.  The   *)
(* line written into it is read by nobody; a failure to write it, which     *)
(* would leave the file to the others as a death does, is left out.         *)
CreateLock(p) ==
    /\ phase[p] = "wait"
    /\ DirWritable
    /\ ~ lock.there
    /\ lock' = [there |-> TRUE, stale |-> FALSE, owner |-> p]
    /\ Goto(p, "locked")
    /\ UNCHANGED <<file, usable, copy>>

(* The lock file is there and older than LOCK_STALE. *)
SeeStale(p) ==
    /\ phase[p] = "wait"
    /\ lock.there /\ lock.stale
    /\ Goto(p, "steal")
    /\ UNCHANGED <<file, usable, lock, copy>>

(* remove_file, on whatever lock file is there by now; its failure is      *)
(* ignored, and the loop goes on without a look at the deadline.           *)
Steal(p) ==
    /\ phase[p] = "steal"
    /\ lock' = IF DirWritable THEN NoLock ELSE lock
    /\ Goto(p, "wait")
    /\ UNCHANGED <<file, usable, copy>>

(* Mutant: no deadline. *)
GiveUpNever(p) == phase[p] = "none" /\ UNCHANGED vars

(* The wait ran out: advance reads the count and returns it as contended,  *)
(* reset fails; without a lock file to blame, both fail.  Nothing is       *)
(* written.                                                                *)
GiveUp(p) ==
    /\ phase[p] = "wait"
    /\ IF lock.there THEN ~ lock.stale ELSE ~ DirWritable
    /\ Return(p)
    /\ UNCHANGED <<file, usable, lock, copy>>

------------------------------------------------------------------------------
(* The critical section of advance and reset.                              *)

Saturating(n) == IF n < MaxCount THEN n ELSE MaxCount

(* Mutant: the change is not looked at. *)
EntryAfterRecounts(c, entry) ==
    CASE c.outcome = "Countable" ->
             [count |-> Saturating(entry.count + 1), change |-> c.change]
      [] c.outcome \in {"Finished", "Reset"} -> Cleared
      [] OTHER -> entry

(* The branch's entry after the call: a change already counted is not      *)
(* counted again, a finished loop and a reset clear, anything else holds.  *)
EntryAfter(c, entry) ==
    CASE c.outcome = "Countable" /\ entry.change # c.change ->
             [count |-> Saturating(entry.count + 1), change |-> c.change]
      [] c.outcome \in {"Finished", "Reset"} -> Cleared
      [] OTHER -> entry

(* read: an unusable file is read as an empty one. *)
Read(p) ==
    /\ phase[p] = "locked"
    /\ LET now == IF usable THEN file ELSE Fresh
           c == call[p]
       IN  copy' = [copy EXCEPT ![p] =
                      [now EXCEPT ![c.branch] = EntryAfter(c, @)]]
    /\ Goto(p, "read")
    /\ UNCHANGED <<file, usable, lock>>

(* write: the whole file, in one rename. *)
Write(p) ==
    /\ phase[p] = "read"
    /\ file' = copy[p]
    /\ usable' = TRUE
    /\ copy' = [copy EXCEPT ![p] = Fresh]
    /\ Goto(p, "written")
    /\ UNCHANGED lock

(* An I/O error before the rename: the call fails and the lock is dropped. *)
WriteFails(p) ==
    /\ phase[p] = "read"
    /\ lock' = NoLock
    /\ copy' = [copy EXCEPT ![p] = Fresh]
    /\ Return(p)
    /\ UNCHANGED <<file, usable>>

(* StateLock::drop removes the lock file that is there, whoever made it.  A *)
(* removal that fails, which would leave it to the others as a death does,  *)
(* is left out.                                                             *)
Release(p) ==
    /\ phase[p] = "written"
    /\ lock' = NoLock
    /\ Return(p)
    /\ UNCHANGED <<file, usable, copy>>

------------------------------------------------------------------------------
(* The environment.                                                        *)

Crash(p) ==
    /\ Crashes
    /\ phase[p] \notin {"idle", "dead"}
    /\ copy' = [copy EXCEPT ![p] = Fresh]
    /\ phase' = [phase EXCEPT ![p] = "dead"]
    /\ call' = [call EXCEPT ![p] = NoCall]
    /\ UNCHANGED <<file, usable, lock>>

(* Sixty seconds pass over a lock file whose holder died or stalls. *)
LockAges ==
    /\ lock.there /\ ~ lock.stale
    /\ lock.owner \in Procs /\ phase[lock.owner] \in Holding => Stalls
    /\ lock' = [lock EXCEPT !.stale = TRUE]
    /\ UNCHANGED <<file, usable, phase, call, copy>>

Step(p) ==
    \/ CreateLock(p)
    \/ SeeStale(p)
    \/ Steal(p)
    \/ GiveUp(p)
    \/ Read(p)
    \/ Write(p)
    \/ WriteFails(p)
    \/ Release(p)

Next ==
    \/ \E p \in Procs : Step(p) \/ Crash(p) \/ \E c \in Calls : Begin(p, c)
    \/ LockAges

Spec == Init /\ [][Next]_vars

(* A process that runs goes on running: nothing in a call waits for        *)
(* anybody, except the acquire loop, which sleeps and looks again.         *)
FairSpec == Spec /\ \A p \in Procs : WF_vars(Step(p))

------------------------------------------------------------------------------
(* Types. *)
TypeOK ==
    /\ file \in Files
    /\ usable \in BOOLEAN
    /\ lock \in LockFiles
    /\ phase \in [Procs -> Phases]
    /\ call \in [Procs -> Calls \union {NoCall}]
    /\ copy \in [Procs -> Files]

(* A lock file is held by one process at a time and its holder is the one  *)
(* that created it; a stealer that may still remove it does not exist      *)
(* while somebody holds it.                                                *)
LockIsExclusive ==
    \A p \in Procs : phase[p] \in Holding =>
        /\ lock.there /\ lock.owner = p
        /\ \A q \in Procs \ {p} : phase[q] \notin Holding

(* A count only ever goes up by one, on the branch and for the change of   *)
(* the call that wrote it: the counter of a branch that was cleared stays  *)
(* cleared until the next countable pass.                                  *)
OnlyIncrementsAreLost ==
    [][\A b \in Branches : file'[b].count > file[b].count =>
          /\ file'[b].count = file[b].count + 1
          /\ \E p \in Procs : /\ phase[p] = "read" /\ phase'[p] = "written"
                              /\ call[p].outcome = "Countable"
                              /\ call[p].branch = b]_vars

(* Every call returns, with a count, contended, or with an error. *)
CallsReturn ==
    \A p \in Procs : phase[p] = "wait" ~> phase[p] \in {"idle", "dead"}

(* Each call takes effect at once, or not at all. *)
Counter == INSTANCE LoopCounter WITH
    counter <- IF usable THEN file ELSE Fresh, Limit <- MaxCount

ImplementsLoopCounter == Counter!Spec

(* The lock does its work: two processes are never inside at once, and to  *)
(* its callers the counter is one cell that each call reads and writes at  *)
(* a stroke -- where nothing stalls and at most one process is left to     *)
(* take over the lock of one that died.                                    *)
CounterIsAtomic == [](TypeOK /\ LockIsExclusive) /\ ImplementsLoopCounter
==============================================================================
