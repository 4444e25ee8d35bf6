-------------------------- MODULE Processes_proofs --------------------------
(***************************************************************************)
(* Proofs about processes that may die at any moment.                      *)
(*                                                                         *)
(* The iteration counter: whoever dies, the lock is exclusive and the      *)
(* state file behaves as an atomic counter, for any number of processes,   *)
(* branches and changes, as long as nobody stalls with the lock and no two *)
(* processes are about to remove one abandoned lock file at once.          *)
(*                                                                         *)
(* The sandbox: what a suite's answer rests on and what a run leaves       *)
(* behind, for any number of processes a suite starts, of rooms and runs.  *)
(***************************************************************************)
EXTENDS IterationCounter, Sandbox, TLAPS

-----------------------------------------------------------------------------
(* THE ITERATION COUNTER                                                    *)

(* No two processes found the same lock file abandoned and are both about  *)
(* to remove what is there by now.                                         *)
OneStealer ==
    \A p, q \in Procs : phase[p] = "steal" /\ phase[q] = "steal" => p = q

Now == IF usable THEN file ELSE Fresh

(* Whoever is in the critical section has the lock file, a fresh one, and  *)
(* whoever is about to remove an abandoned one still finds it.             *)
LockInv ==
    \A p \in Procs :
        /\ phase[p] \in Holding => lock.there /\ ~ lock.stale /\ lock.owner = p
        /\ phase[p] = "steal" => lock.there /\ lock.stale

(* A process about to write holds the file as it is, changed by its call.  *)
CopyInv ==
    \A p \in Procs :
        /\ phase[p] \notin {"idle", "dead"} => call[p] \in Calls
        /\ phase[p] = "read" =>
             copy[p] = [Now EXCEPT ![call[p].branch] = EntryAfter(call[p], @)]

CounterInv == TypeOK /\ LockInv /\ CopyInv

------------------------------------------------------------------------------
LEMMA FreshType == Fresh \in Files /\ Cleared \in Entries /\ (TypeOK => Now \in Files)
<1>1. Cleared \in Entries
    BY BoundAssumption DEF Cleared, Entries
<1>2. Fresh \in Files
    BY <1>1 DEF Fresh, Files
<1> QED BY <1>1, <1>2 DEF TypeOK, Now

LEMMA EntryAfterType ==
    ASSUME NEW c \in Calls, NEW e \in Entries
    PROVE  EntryAfter(c, e) \in Entries
<1>1. e.count \in 0 .. MaxCount /\ Saturating(e.count + 1) \in 0 .. MaxCount
    BY BoundAssumption DEF Entries, Saturating
<1>2. CASE c.outcome = "Countable"
    <2>1. c.change \in Changes
        BY <1>2 DEF Calls
    <2> QED BY <1>1, <1>2, <2>1 DEF EntryAfter, Entries
<1>3. CASE c.outcome # "Countable"
    BY <1>3, FreshType DEF EntryAfter
<1> QED BY <1>2, <1>3

LEMMA CallBranch == \A c \in Calls : c.branch \in Branches
BY DEF Calls

LEMMA InitTypes ==
    ASSUME Init
    PROVE  TypeOK
<1>1. lock \in LockFiles
    <2>1. lock = NoLock \/ lock = OldLock
        BY DEF Init
    <2>2. NoLock \in LockFiles /\ OldLock \in LockFiles
        BY DEF NoLock, OldLock, LockFiles
    <2> QED BY <2>1, <2>2
<1> QED BY <1>1, FreshType DEF Init, TypeOK, Phases

LEMMA InitCounter == Init => CounterInv
<1> SUFFICES ASSUME Init PROVE CounterInv
    OBVIOUS
<1> QED BY InitTypes DEF Init, CounterInv, LockInv, CopyInv, Holding

------------------------------------------------------------------------------
(* Every step keeps the invariant; there is one lemma per kind of step.    *)

LEMMA BeginInv ==
    ASSUME CounterInv, NEW p \in Procs, NEW c \in Calls, Begin(p, c)
    PROVE  CounterInv'
<1>1. TypeOK'
    BY DEF CounterInv, TypeOK, Begin, Phases
<1>2. LockInv'
    BY DEF CounterInv, TypeOK, LockInv, Begin, Holding
<1>3. CopyInv'
    BY DEF CounterInv, TypeOK, CopyInv, Begin, Now
<1> QED BY <1>1, <1>2, <1>3 DEF CounterInv

LEMMA CreateLockInv ==
    ASSUME CounterInv, NEW p \in Procs, CreateLock(p)
    PROVE  CounterInv'
<1>1. TypeOK'
    BY DEF CounterInv, TypeOK, CreateLock, Goto, Phases, LockFiles
<1>2. LockInv'
    BY DEF CounterInv, TypeOK, LockInv, CreateLock, Goto, Holding
<1>3. CopyInv'
    BY DEF CounterInv, TypeOK, CopyInv, CreateLock, Goto, Now
<1> QED BY <1>1, <1>2, <1>3 DEF CounterInv

LEMMA GiveUpInv ==
    ASSUME CounterInv, NEW p \in Procs, GiveUp(p)
    PROVE  CounterInv'
<1>1. TypeOK'
    BY DEF CounterInv, TypeOK, GiveUp, Return, Phases
<1>2. LockInv'
    BY DEF CounterInv, TypeOK, LockInv, GiveUp, Return, Holding
<1>3. CopyInv'
    BY DEF CounterInv, TypeOK, CopyInv, GiveUp, Return, Now
<1> QED BY <1>1, <1>2, <1>3 DEF CounterInv

LEMMA ReadInv ==
    ASSUME CounterInv, NEW p \in Procs, Read(p)
    PROVE  CounterInv'
<1>1. call[p] \in Calls /\ call[p].branch \in Branches /\ Now \in Files
    BY CallBranch, FreshType DEF CounterInv, CopyInv, Read
<1>2. copy' = [copy EXCEPT ![p] =
                 [Now EXCEPT ![call[p].branch] = EntryAfter(call[p], @)]]
    BY DEF Read, Now
<1>3. [Now EXCEPT ![call[p].branch] = EntryAfter(call[p], @)] \in Files
    BY <1>1, EntryAfterType DEF Files
<1>4. TypeOK'
    BY <1>2, <1>3 DEF CounterInv, TypeOK, Read, Goto, Phases
<1>5. LockInv'
    BY DEF CounterInv, TypeOK, LockInv, Read, Goto, Holding
<1>6. CopyInv'
    BY <1>2 DEF CounterInv, TypeOK, CopyInv, Read, Goto, Now
<1> QED BY <1>4, <1>5, <1>6 DEF CounterInv

(* The writer is alone in the critical section, so no other copy goes      *)
(* out of date.                                                            *)
LEMMA WriteInv ==
    ASSUME CounterInv, NEW p \in Procs, Write(p)
    PROVE  CounterInv'
<1>1. TypeOK'
    BY FreshType DEF CounterInv, TypeOK, Write, Goto, Phases
<1>2. LockInv'
    BY DEF CounterInv, TypeOK, LockInv, Write, Goto, Holding
<1>3. \A q \in Procs : q # p => phase[q] # "read"
    BY DEF CounterInv, LockInv, Write, Holding
<1>4. CopyInv'
    BY <1>3 DEF CounterInv, TypeOK, CopyInv, Write, Goto
<1> QED BY <1>1, <1>2, <1>4 DEF CounterInv

LEMMA LeaveInv ==
    ASSUME CounterInv, NEW p \in Procs, WriteFails(p) \/ Release(p)
    PROVE  CounterInv'
<1>1. /\ phase[p] \in Holding /\ lock' = NoLock /\ Return(p)
      /\ UNCHANGED <<file, usable>>
      /\ copy' \in [Procs -> Files]
      /\ \A q \in Procs : q # p => copy'[q] = copy[q]
    BY FreshType DEF CounterInv, TypeOK, WriteFails, Release, Holding
<1>2. TypeOK'
    BY <1>1 DEF CounterInv, TypeOK, Return, Phases, NoLock, LockFiles
<1>3. LockInv'
    BY <1>1 DEF CounterInv, TypeOK, LockInv, Return, Holding, NoLock
<1>4. CopyInv'
    BY <1>1 DEF CounterInv, TypeOK, CopyInv, Return, Now
<1> QED BY <1>2, <1>3, <1>4 DEF CounterInv

LEMMA SeeStaleInv ==
    ASSUME CounterInv, NEW p \in Procs, SeeStale(p)
    PROVE  CounterInv'
<1>1. TypeOK'
    BY DEF CounterInv, TypeOK, SeeStale, Goto, Phases
<1>2. LockInv'
    BY DEF CounterInv, TypeOK, LockInv, SeeStale, Goto, Holding
<1>3. CopyInv'
    BY DEF CounterInv, TypeOK, CopyInv, SeeStale, Goto, Now
<1> QED BY <1>1, <1>2, <1>3 DEF CounterInv

(* The stealer is the only one, so nobody else counts on the lock file.    *)
LEMMA StealInv ==
    ASSUME CounterInv, OneStealer, NEW p \in Procs, Steal(p)
    PROVE  CounterInv'
<1>1. TypeOK'
    BY DEF CounterInv, TypeOK, Steal, Goto, Phases, NoLock, LockFiles
<1>2. \A q \in Procs \ {p} : phase[q] \notin Holding \cup {"steal"}
    BY DEF CounterInv, LockInv, OneStealer, Steal
<1>3. LockInv'
    BY <1>2 DEF CounterInv, TypeOK, LockInv, Steal, Goto, Holding
<1>4. CopyInv'
    BY DEF CounterInv, TypeOK, CopyInv, Steal, Goto, Now
<1> QED BY <1>1, <1>3, <1>4 DEF CounterInv

LEMMA CrashInv ==
    ASSUME CounterInv, NEW p \in Procs, Crash(p)
    PROVE  CounterInv'
<1>1. TypeOK'
    BY FreshType DEF CounterInv, TypeOK, Crash, Phases
<1>2. LockInv'
    BY DEF CounterInv, TypeOK, LockInv, Crash, Holding
<1>3. CopyInv'
    BY DEF CounterInv, TypeOK, CopyInv, Crash, Now
<1> QED BY <1>1, <1>2, <1>3 DEF CounterInv

LEMMA LockAgesInv ==
    ASSUME CounterInv, ~ Stalls, LockAges
    PROVE  CounterInv'
<1>1. TypeOK'
    <2>1. [lock EXCEPT !.stale = TRUE] \in LockFiles
        BY DEF CounterInv, TypeOK, LockFiles
    <2> QED BY <2>1 DEF CounterInv, TypeOK, LockAges
<1>2. \A p \in Procs : phase[p] \notin Holding
    BY DEF CounterInv, LockInv, LockAges
<1>3. LockInv'
    BY <1>2 DEF CounterInv, TypeOK, LockInv, LockAges, LockFiles
<1>4. CopyInv'
    BY DEF CounterInv, CopyInv, LockAges, Now
<1> QED BY <1>1, <1>3, <1>4 DEF CounterInv

LEMMA NextCounter ==
    ASSUME ~ Stalls
    PROVE  CounterInv /\ OneStealer /\ [Next]_vars => CounterInv'
<1> SUFFICES ASSUME CounterInv, OneStealer, [Next]_vars PROVE CounterInv'
    OBVIOUS
<1>1. CASE UNCHANGED vars
    BY <1>1 DEF vars, CounterInv, TypeOK, LockInv, CopyInv, Now
<1>2. ASSUME NEW p \in Procs, Step(p) PROVE CounterInv'
    BY <1>2, CreateLockInv, SeeStaleInv, StealInv, GiveUpInv, ReadInv, WriteInv,
       LeaveInv DEF Step
<1> QED BY <1>1, <1>2, BeginInv, CrashInv, LockAgesInv DEF Next

------------------------------------------------------------------------------
(* No two processes are between StateLock::acquire and its drop at once,   *)
(* and the lock file is the holder's own.                                  *)
THEOREM LockIsHeldByOne ==
    ASSUME ~ Stalls
    PROVE  Spec /\ []OneStealer => []LockIsExclusive
<1>1. CounterInv => LockIsExclusive
    BY DEF CounterInv, LockInv, LockIsExclusive
<1>2. CounterInv /\ OneStealer /\ [Next]_vars => CounterInv'
    BY NextCounter
<1> QED BY InitCounter, <1>1, <1>2, PTL DEF Spec

(* What a call computes from an entry is what the atomic counter does.     *)
LEMMA EntryAfterIsCounted ==
    ASSUME NEW c \in Calls, NEW e \in Entries
    PROVE  EntryAfter(c, e) =
             CASE c.outcome = "Countable" -> Counter!Counted(e, c.change)
               [] c.outcome \in {"Finished", "Reset"} -> Cleared
               [] OTHER -> e
<1>1. e.count \in 0 .. MaxCount
    BY DEF Entries
<1>2. CASE c.outcome = "Countable" /\ e.change = c.change
    BY <1>2 DEF EntryAfter, Counter!Counted
<1>3. CASE c.outcome = "Countable" /\ e.change # c.change
    <2>1. Saturating(e.count + 1) =
            IF e.count < MaxCount THEN e.count + 1 ELSE MaxCount
        BY <1>1, BoundAssumption DEF Saturating
    <2> QED BY <1>3, <2>1 DEF EntryAfter, Counter!Counted
<1>4. CASE c.outcome # "Countable"
    BY <1>4 DEF EntryAfter
<1> QED BY <1>2, <1>3, <1>4

(* Only Write touches the counter: as one call of the atomic counter would.*)
LEMMA StepCounts ==
    ASSUME CounterInv, [Next]_vars
    PROVE  [Counter!Next]_(IF usable THEN file ELSE Fresh)
<1>1. CASE UNCHANGED <<file, usable>>
    BY <1>1
<1>2. ASSUME NEW p \in Procs, Write(p)
      PROVE  [Counter!Next]_(IF usable THEN file ELSE Fresh)
    <2> DEFINE c == call[p]
               b == c.branch
    <2>1. /\ c \in Calls /\ b \in Branches /\ Now \in Files /\ Now[b] \in Entries
          /\ Now' = [Now EXCEPT ![b] = EntryAfter(c, @)]
        BY <1>2, CallBranch, FreshType DEF CounterInv, CopyInv, Write, Now, Files
    <2>2. CASE c.outcome = "Countable"
        <3>1. Now' = [Now EXCEPT ![b] = Counter!Counted(@, c.change)]
              /\ c.change \in Changes
            BY <2>1, <2>2, EntryAfterIsCounted DEF Calls
        <3>2. Counter!Count(b, c.change)
            BY <3>1 DEF Counter!Count, Now
        <3> QED BY <2>1, <3>1, <3>2 DEF Counter!Next
    <2>3. CASE c.outcome \in {"Finished", "Reset"}
        <3>1. Now' = [Now EXCEPT ![b] = Cleared]
            BY <2>1, <2>3 DEF EntryAfter
        <3>2. Counter!Clear(b)
            BY <3>1 DEF Counter!Clear, Counter!Cleared, Cleared, Now
        <3> QED BY <2>1, <3>2 DEF Counter!Next
    <2>4. CASE c.outcome = "Inconclusive"
        <3>1. Now' = Now
            BY <2>1, <2>4 DEF EntryAfter, Files
        <3> QED BY <3>1 DEF Now
    <2> QED BY <2>1, <2>2, <2>3, <2>4 DEF Calls
<1>3. \/ UNCHANGED <<file, usable>>
      \/ \E p \in Procs : Write(p)
    BY DEF Next, Step, vars, Begin, CreateLock, SeeStale, Steal, GiveUp, Read,
           WriteFails, Release, Crash, LockAges
<1> QED BY <1>1, <1>2, <1>3

(* The state file, rewritten as a whole by many processes, is an atomic    *)
(* counter: every call takes effect at once, or not at all.                *)
THEOREM FileIsACounter ==
    ASSUME ~ Stalls
    PROVE  Spec /\ []OneStealer => ImplementsLoopCounter
<1>1. Init => Counter!Init
    BY DEF Init, Counter!Init, Fresh, Cleared, Counter!Cleared
<1>2. CounterInv /\ OneStealer /\ [Next]_vars => CounterInv'
    BY NextCounter
<1>3. CounterInv /\ [Next]_vars => [Counter!Next]_(IF usable THEN file ELSE Fresh)
    BY StepCounts
<1> QED BY InitCounter, <1>1, <1>2, <1>3, PTL
        DEF Spec, ImplementsLoopCounter, Counter!Spec

------------------------------------------------------------------------------
(* Types need no assumption about the environment: whoever dies, stalls or *)
(* takes a lock over, a process inside a call knows its call, and what it  *)
(* is about to write is a whole file.                                      *)

TypeInv ==
    /\ TypeOK
    /\ \A p \in Procs : phase[p] \notin {"idle", "dead"} => call[p] \in Calls

LEMMA StepTypes ==
    ASSUME TypeInv, NEW p \in Procs, Step(p)
    PROVE  TypeInv'
<1>0. NoLock \in LockFiles /\ Fresh \in Files /\ Now \in Files
    BY FreshType DEF TypeInv, NoLock, LockFiles
<1>1. CASE CreateLock(p)
    BY <1>1 DEF TypeInv, TypeOK, CreateLock, Goto, Phases, LockFiles
<1>2. CASE SeeStale(p)
    BY <1>2 DEF TypeInv, TypeOK, SeeStale, Goto, Phases
<1>3. CASE Steal(p)
    BY <1>0, <1>3 DEF TypeInv, TypeOK, Steal, Goto, Phases
<1>4. CASE GiveUp(p)
    BY <1>4 DEF TypeInv, TypeOK, GiveUp, Return, Phases
<1>5. CASE Read(p)
    <2>1. call[p] \in Calls /\ call[p].branch \in Branches
        BY <1>5, CallBranch DEF TypeInv, Read
    <2>2. copy' = [copy EXCEPT ![p] =
                     [Now EXCEPT ![call[p].branch] = EntryAfter(call[p], @)]]
        BY <1>5 DEF Read, Now
    <2>3. [Now EXCEPT ![call[p].branch] = EntryAfter(call[p], @)] \in Files
        BY <1>0, <2>1, EntryAfterType DEF Files
    <2> QED BY <1>5, <2>2, <2>3 DEF TypeInv, TypeOK, Read, Goto, Phases
<1>6. CASE Write(p)
    BY <1>0, <1>6 DEF TypeInv, TypeOK, Write, Goto, Phases
<1>7. CASE WriteFails(p)
    BY <1>0, <1>7 DEF TypeInv, TypeOK, WriteFails, Return, Phases
<1>8. CASE Release(p)
    BY <1>0, <1>8 DEF TypeInv, TypeOK, Release, Return, Phases
<1> QED BY <1>1, <1>2, <1>3, <1>4, <1>5, <1>6, <1>7, <1>8 DEF Step

LEMMA NextTypes == TypeInv /\ [Next]_vars => TypeInv'
<1> SUFFICES ASSUME TypeInv, [Next]_vars PROVE TypeInv'
    OBVIOUS
<1>1. CASE UNCHANGED vars
    BY <1>1 DEF vars, TypeInv, TypeOK
<1>2. ASSUME NEW p \in Procs, NEW c \in Calls, Begin(p, c) PROVE TypeInv'
    BY <1>2 DEF TypeInv, TypeOK, Begin, Phases
<1>3. ASSUME NEW p \in Procs, Crash(p) PROVE TypeInv'
    BY <1>3, FreshType DEF TypeInv, TypeOK, Crash, Phases
<1>4. CASE LockAges
    <2>1. [lock EXCEPT !.stale = TRUE] \in LockFiles
        BY DEF TypeInv, TypeOK, LockFiles
    <2> QED BY <1>4, <2>1 DEF TypeInv, TypeOK, LockAges
<1> QED BY <1>1, <1>2, <1>3, <1>4, StepTypes DEF Next

(* Whatever dies, stalls or is stolen, the state file is replaced by a     *)
(* whole one only: a count per branch, of a change that was measured.      *)
THEOREM TypeCorrect == Spec => []TypeOK
<1>1. Init => TypeInv
    BY InitTypes DEF Init, TypeInv
<1>2. TypeInv => TypeOK
    BY DEF TypeInv
<1> QED BY <1>1, <1>2, NextTypes, PTL DEF Spec

(* Whoever dies wherever, as long as nobody stalls with the lock and no    *)
(* two processes take over one lock file at once, the counter is atomic,   *)
(* for any number of processes: the lock excludes, and each call is one    *)
(* step of a counter that nobody has to lock (advance, reset).             *)
THEOREM TakeoversKeepTheCount ==
    ASSUME ~ Stalls
    PROVE  Spec /\ []OneStealer => CounterIsAtomic
BY TypeCorrect, LockIsHeldByOne, FileIsACounter, PTL DEF CounterIsAtomic

------------------------------------------------------------------------------
(* When that is so: a lock file is abandoned by a process that died, now   *)
(* or earlier, and at most one process is left to find it.                 *)
OneHeir ==
    /\ ~ Stalls
    /\ Leftover => \A p, q \in Procs : p = q
    /\ Crashes => \A p, q, r \in Procs : p = q \/ p = r \/ q = r

(* The lock file is somebody's who holds it or died, or one left earlier.  *)
AbandonedInv ==
    /\ \A p \in Procs : phase[p] = "dead" => Crashes
    /\ lock.there /\ lock.owner \notin Procs => Leftover
    /\ lock.there /\ lock.owner \in Procs =>
         phase[lock.owner] \in IF lock.stale THEN {"dead"} ELSE Holding \cup {"dead"}

LEMMA HeirsAreAlone ==
    ASSUME OneHeir, LockInv, AbandonedInv
    PROVE  OneStealer
BY DEF OneHeir, LockInv, AbandonedInv, OneStealer

LEMMA InitAbandoned ==
    ASSUME Init
    PROVE  AbandonedInv
BY NamesAssumption DEF Init, AbandonedInv, NoLock, OldLock

LEMMA NextAbandoned ==
    ASSUME ~ Stalls, CounterInv, AbandonedInv, [Next]_vars
    PROVE  AbandonedInv'
<1> USE DEF AbandonedInv, Holding
<1>0. TypeOK /\ LockInv
    BY DEF CounterInv
<1>1. CASE UNCHANGED vars
    BY <1>1 DEF vars
<1>2. ASSUME NEW p \in Procs, NEW c \in Calls, Begin(p, c) PROVE AbandonedInv'
    BY <1>0, <1>2 DEF Begin, TypeOK
<1>3. ASSUME NEW p \in Procs, CreateLock(p) PROVE AbandonedInv'
    BY <1>0, <1>3 DEF CreateLock, Goto, TypeOK
<1>4. ASSUME NEW p \in Procs, SeeStale(p) \/ GiveUp(p) PROVE AbandonedInv'
    BY <1>0, <1>4 DEF SeeStale, GiveUp, Return, Goto, TypeOK
<1>5. ASSUME NEW p \in Procs, Steal(p) PROVE AbandonedInv'
    BY <1>0, <1>5 DEF Steal, Goto, TypeOK, NoLock
<1>6. ASSUME NEW p \in Procs, Read(p) \/ Write(p) PROVE AbandonedInv'
    BY <1>0, <1>6 DEF Read, Write, Goto, TypeOK, LockInv
<1>7. ASSUME NEW p \in Procs, WriteFails(p) \/ Release(p) PROVE AbandonedInv'
    BY <1>0, <1>7 DEF WriteFails, Release, Return, TypeOK, NoLock
<1>8. ASSUME NEW p \in Procs, Crash(p) PROVE AbandonedInv'
    BY <1>0, <1>8 DEF Crash, TypeOK
<1>9. CASE LockAges
    BY <1>0, <1>9 DEF LockAges, TypeOK, LockFiles
<1> QED BY <1>1, <1>2, <1>3, <1>4, <1>5, <1>6, <1>7, <1>8, <1>9 DEF Next, Step

(* The counter is atomic where processes die and one is left to take over  *)
(* the lock, as it is where none dies, however many there are.             *)
THEOREM CounterIsOneCell == OneHeir => (Spec => CounterIsAtomic)
<1> SUFFICES ASSUME OneHeir PROVE Spec => CounterIsAtomic
    OBVIOUS
<1>1. ~ Stalls
    BY DEF OneHeir
<1>2. Init => CounterInv /\ AbandonedInv
    BY InitCounter, InitAbandoned
<1>3. CounterInv /\ AbandonedInv => OneStealer
    BY HeirsAreAlone DEF CounterInv
<1>4. CounterInv /\ AbandonedInv /\ [Next]_vars => (CounterInv /\ AbandonedInv)'
    BY <1>1, <1>3, NextCounter, NextAbandoned
<1>5. Spec /\ []OneStealer => CounterIsAtomic
    BY <1>1, TakeoversKeepTheCount
<1> QED BY <1>2, <1>3, <1>4, <1>5, PTL DEF Spec

-----------------------------------------------------------------------------
(* THE SANDBOX                                                              *)

Before  == {"enter", "overlay", "spawn"}     \* no command yet
Running == {"contain", "poll", "check"}      \* nobody has stopped it
Ends    == {"close", "remove", "manual"} \cup Stopped

-----------------------------------------------------------------------------
(* The answer.                                                              *)

(* Nobody dooms the command before its deadline, except where the run can no
   longer answer; and where the run answers, the command is gone for good.  *)
NotYet ==
    pc \in Before => proc["child"] = "none" /\ end = "none" /\ timedOut = FALSE /\ answer = Pending

StillItsOwn ==
    pc \in Running =>
        /\ timedOut = FALSE /\ answer = Pending
        /\ \/ proc["child"] = "alive"
           \/ proc["child"] = "gone" /\ end \in Codes

Gone ==
    pc \in {"sweep", "join"} =>
        proc["child"] = "gone" /\ answer = Pending /\ (timedOut = TRUE \/ end \in Codes)

StoppedUnanswered ==
    pc \in {"reap", "give up", "refused"} =>
        answer \in {Pending, "unavailable"} /\ (pc = "reap" => timedOut = TRUE /\ answer = Pending)

Answered ==
    answer \in {"passed", "failed"} =>
        pc \in Ends /\ proc["child"] = "gone" /\ end \in Codes
            /\ (answer = "passed" <=> end = "exit 0")

AnswerRest == NotYet /\ StillItsOwn /\ Gone /\ StoppedUnanswered /\ Answered
AnswerInv  == SandboxTypeOK /\ AnswerRest

(* Letting the containment go changes the life of the living only.          *)
LEMMA SweptLives ==
    ASSUME NEW life \in [Processes -> {"none", "alive", "doomed", "gone"}]
    PROVE  /\ Swept(life) \in [Processes -> {"none", "alive", "doomed", "gone"}]
           /\ \A p \in Processes :
                 /\ life[p] # "alive" => Swept(life)[p] = life[p]
                 /\ Swept(life)[p] \in {life[p], "doomed"}
                 /\ os = "windows" /\ p \in inside => Swept(life)[p] # "alive"
  BY DEF Swept

(* So does a kill of the tree, and on Unix it leaves none of it alive.      *)
LEMMA KillLives ==
    ASSUME SandboxTypeOK, KillTree
    PROVE  /\ proc' \in [Processes -> {"none", "alive", "doomed", "gone"}]
           /\ \A p \in Processes :
                 /\ proc[p] # "alive" => proc'[p] = proc[p]
                 /\ proc'[p] \in {proc[p], "doomed"}
                 /\ os = "unix" /\ p \in inside => proc'[p] # "alive"
  BY DEF KillTree, SandboxTypeOK, Reached

(* Both of the sweep after an end.                                          *)
LEMMA SweepLives ==
    ASSUME SandboxTypeOK, Sweep
    PROVE  /\ proc' \in [Processes -> {"none", "alive", "doomed", "gone"}]
           /\ \A p \in Processes :
                 /\ proc[p] # "alive" => proc'[p] = proc[p]
                 /\ proc'[p] \in {proc[p], "doomed"}
                 /\ p \in inside => proc'[p] # "alive"
  <1> DEFINE killed == [p \in Processes |-> IF p \in Reached THEN "doomed" ELSE proc[p]]
  <1>1. proc \in [Processes -> {"none", "alive", "doomed", "gone"}] /\ os \in {"unix", "windows"}
    BY DEF SandboxTypeOK
  <1>2. PICK life \in {proc, killed} :
            (life = proc => os = "windows" \/ Reached = {}) /\ proc' = Swept(life)
    BY DEF Sweep
  <1>3. life \in [Processes -> {"none", "alive", "doomed", "gone"}]
    BY <1>1
  <1>4. \A p \in Processes :
            /\ proc[p] # "alive" => life[p] = proc[p]
            /\ life[p] \in {proc[p], "doomed"}
            /\ os = "unix" /\ p \in inside => life[p] # "alive"
    BY <1>1, <1>2 DEF Reached
  <1> HIDE DEF killed
  <1> QED BY <1>1, <1>2, <1>3, <1>4, SweptLives

(* Before the first suite there is no answer.                               *)
LEMMA InitAnswer == ASSUME SandboxInit PROVE AnswerInv
  <1> USE SandboxAssumption DEF SandboxInit
  <1>0. "child" \in Processes
    BY DEF Processes
  <1>1. SandboxTypeOK
    <2>1. proc \in [Processes -> {"none", "alive", "doomed", "gone"}]
      OBVIOUS
    <2>2. pc \in {"enter", "overlay", "spawn", "contain", "poll", "check", "reap",
                   "sweep", "join", "refused", "give up", "close", "remove", "manual"} \cup Stopped
      OBVIOUS
    <2>3. /\ os \in {"unix", "windows"}
          /\ room \in Rooms \cup {NoRoom} /\ dirs \subseteq Rooms /\ regs \subseteq Rooms
          /\ inside \subseteq Processes /\ pipes \subseteq Processes
      OBVIOUS
    <2>4. end \in Codes \cup {"none", "killed"} /\ clock \in {"early", "late", "grace over"}
      OBVIOUS
    <2>5. timedOut \in BOOLEAN /\ notices \in BOOLEAN
      OBVIOUS
    <2>6. answer \in Answers /\ runs \in 0..MaxRuns
      BY DEF Answers
    <2> QED BY <2>1, <2>2, <2>3, <2>4, <2>5, <2>6 DEF SandboxTypeOK
  <1>2. NotYet
    BY <1>0 DEF NotYet
  <1>3. StillItsOwn /\ Gone /\ StoppedUnanswered /\ Answered
    BY DEF StillItsOwn, Gone, StoppedUnanswered, Answered, Running, Pending
  <1> QED BY <1>1, <1>2, <1>3 DEF AnswerInv, AnswerRest

(* Every step keeps the types.                                              *)
LEMMA TypesKept == ASSUME SandboxTypeOK, [SandboxNext]_sandboxVars PROVE SandboxTypeOK'
  <1> USE SandboxAssumption DEF SandboxTypeOK, Stopped, Answers, Pending, procVars, wtVars
  <1>0. "child" \in Processes /\ \A h \in Helpers : h \in Processes
    BY DEF Processes
  <1>1. CASE \E r \in Rooms : Enter(r)
    BY <1>0, <1>1, ZenonT(60) DEF Enter, Pruned
  <1>2. CASE Overlay
    BY <1>0, <1>2 DEF Overlay
  <1>3. CASE Close
    BY <1>0, <1>3, ZenonT(60) DEF Close
  <1>4. CASE RemoveByGit
    BY <1>0, <1>4, ZenonT(60) DEF RemoveByGit
  <1>5. CASE RemoveByHand
    BY <1>0, <1>5 DEF RemoveByHand
  <1>6. CASE Spawn
    BY <1>0, <1>6, ZenonT(60) DEF Spawn
  <1>7. CASE Contain
    BY <1>0, <1>7, ZenonT(60) DEF Contain
  <1>8. CASE Poll
    BY <1>0, <1>8, KillLives, ZenonT(60) DEF Poll
  <1>9. CASE Check
    BY <1>0, <1>9, KillLives DEF Check
  <1>10. CASE Reap
    BY <1>0, <1>10, SweptLives DEF Reap
  <1>11. CASE Sweep
    BY <1>0, <1>11, SweepLives, ZenonT(60) DEF Sweep
  <1>12. CASE Join
    BY <1>0, <1>12 DEF Join, Judged
  <1>13. CASE WaitRefused
    BY <1>0, <1>13 DEF WaitRefused
  <1>14. CASE ReapAfterError
    BY <1>0, <1>14, SweptLives DEF ReapAfterError
  <1>15. CASE \E c \in Codes : Exits(c)
    <2>1. PICK c \in Codes : Exits(c)
      BY <1>15
    <2>2. /\ proc' \in [Processes -> {"none", "alive", "doomed", "gone"}]
          /\ pipes' \subseteq Processes /\ end' \in Codes
      BY <1>0, <2>1 DEF Exits
    <2> QED BY <2>1, <2>2, ZenonT(60) DEF Exits
  <1>16. CASE \E h \in Helpers : Starts(h)
    <2>1. PICK h \in Helpers : Starts(h)
      BY <1>16
    <2>2. proc' \in [Processes -> {"none", "alive", "doomed", "gone"}]
      BY <1>0, <2>1 DEF Starts
    <2>3. inside' \subseteq Processes /\ pipes' \subseteq Processes
      BY <1>0, <2>1 DEF Starts
    <2>9. timedOut' \in BOOLEAN /\ notices' \in BOOLEAN
      BY <2>1 DEF Starts
    <2> QED BY <2>1, <2>2, <2>3, <2>9, ZenonT(60) DEF Starts
  <1>17. CASE \E h \in Helpers : Escapes(h)
    BY <1>0, <1>17, ZenonT(60) DEF Escapes
  <1>18. CASE \E h \in Helpers : LetsGo(h)
    <2>1. PICK h \in Helpers : LetsGo(h)
      BY <1>18
    <2>2. proc' \in [Processes -> {"none", "alive", "doomed", "gone"}]
      BY <1>0, <2>1 DEF LetsGo
    <2>3. pipes' \subseteq Processes
      BY <2>1 DEF LetsGo
    <2>9. timedOut' \in BOOLEAN /\ notices' \in BOOLEAN
      BY <2>1 DEF LetsGo
    <2> QED BY <2>1, <2>2, <2>3, <2>9, ZenonT(60) DEF LetsGo
  <1>19. CASE \E r \in Rooms : TempCleaned(r)
    <2>1. PICK r \in Rooms : TempCleaned(r)
      BY <1>19
    <2>2. dirs' \subseteq Rooms
      BY <2>1 DEF TempCleaned
    <2>9. timedOut' \in BOOLEAN /\ notices' \in BOOLEAN
      BY <2>1 DEF TempCleaned
    <2> QED BY <2>1, <2>2, <2>9, ZenonT(60) DEF TempCleaned
  <1>20. CASE SandboxDies
    BY <1>0, <1>20, SweptLives DEF SandboxDies
  <1>21. CASE Again
    <2>1. proc' \in [Processes -> {"none", "alive", "doomed", "gone"}]
      BY <1>21 DEF Again
    <2>2. runs' \in 0..MaxRuns
      <3>1. runs \in 0..MaxRuns /\ MaxRuns \in Nat
        OBVIOUS
      <3>2. runs < MaxRuns /\ runs' = runs + 1
        BY <1>21 DEF Again
      <3> HIDE DEF SandboxTypeOK
      <3> QED BY <3>1, <3>2
    <2> QED BY <1>21, <2>1, <2>2 DEF Again, Codes
  <1>22. CASE DeadlinePasses
    BY <1>0, <1>22 DEF DeadlinePasses
  <1>23. CASE GracePasses
    BY <1>0, <1>23 DEF GracePasses
  <1>24. CASE \E p \in Processes : Dies(p)
    <2>1. PICK p \in Processes : Dies(p)
      BY <1>24
    <2>2. proc' \in [Processes -> {"none", "alive", "doomed", "gone"}]
      BY <2>1 DEF Dies
    <2>3. pipes' \subseteq Processes /\ end' \in Codes \cup {"none", "killed"}
      BY <2>1 DEF Dies
    <2> QED BY <2>1, <2>2, <2>3, ZenonT(60) DEF Dies
  <1>25. CASE UNCHANGED sandboxVars
    <2>1. /\ os' = os /\ pc' = pc /\ room' = room /\ dirs' = dirs /\ regs' = regs
          /\ proc' = proc /\ inside' = inside /\ pipes' = pipes /\ end' = end
          /\ clock' = clock /\ answer' = answer /\ runs' = runs
      BY <1>25 DEF sandboxVars
    <2>2. timedOut' = timedOut /\ notices' = notices
      BY <1>25 DEF sandboxVars
    <2>3. timedOut' \in BOOLEAN /\ notices' \in BOOLEAN
      BY <2>2
    <2> QED BY <2>1, <2>3, ZenonT(60)
  <1> QED BY <1>1, <1>2, <1>3, <1>4, <1>5, <1>6, <1>7, <1>8, <1>9, <1>10, <1>11, <1>12, <1>13,
             <1>14, <1>15, <1>16, <1>17, <1>18, <1>19, <1>20, <1>21, <1>22, <1>23, <1>24, <1>25
          DEF SandboxNext, Measuring, Environment

(* The clauses about the command and the answer, step by step.              *)
LEMMA AnswerKept == ASSUME AnswerInv, [SandboxNext]_sandboxVars PROVE AnswerRest'
  <1> USE DEF AnswerInv, AnswerRest, NotYet, StillItsOwn, Gone, StoppedUnanswered, Answered,
              Before, Running, Ends, Stopped, Pending, procVars, wtVars
  <1>0. /\ "child" \in Processes /\ \A h \in Helpers : h \in Processes /\ h # "child"
        /\ proc \in [Processes -> {"none", "alive", "doomed", "gone"}]
    BY SandboxAssumption DEF Processes, SandboxTypeOK
  <1>1. CASE \E r \in Rooms : Enter(r)
    BY <1>0, <1>1 DEF Enter, Pruned
  <1>2. CASE Overlay
    BY <1>0, <1>2 DEF Overlay
  <1>3. CASE Close
    BY <1>0, <1>3 DEF Close
  <1>4. CASE RemoveByGit
    BY <1>0, <1>4 DEF RemoveByGit
  <1>5. CASE RemoveByHand
    BY <1>0, <1>5 DEF RemoveByHand
  <1>6. CASE Spawn
    BY <1>0, <1>6 DEF Spawn
  <1>7. CASE Contain
    BY <1>0, <1>7 DEF Contain
  <1>8. CASE Poll
    BY <1>0, <1>8, KillLives DEF Poll
  <1>9. CASE Check
    BY <1>0, <1>9, KillLives DEF Check
  <1>10. CASE Reap
    <2>1. CASE proc["child"] = "gone"
      <3>1. pc' = "sweep" /\ UNCHANGED <<proc, end, timedOut, answer>>
        BY <1>10, <2>1 DEF Reap
      <3>2. timedOut = TRUE /\ answer = Pending
        BY <1>10 DEF Reap
      <3> QED BY <2>1, <3>1, <3>2
    <2>2. CASE proc["child"] # "gone"
      <3>1. pc' = "close" /\ answer' = "unavailable"
        BY <1>10, <2>2 DEF Reap
      <3> QED BY <3>1
    <2> QED BY <2>1, <2>2
  <1>11. CASE Sweep
    BY <1>0, <1>11, SweepLives DEF Sweep
  <1>12. CASE Join
    BY <1>0, <1>12 DEF Join, Codes, Judged, SandboxTypeOK
  <1>13. CASE WaitRefused
    BY <1>0, <1>13 DEF WaitRefused
  <1>14. CASE ReapAfterError
    BY <1>0, <1>14, SweptLives DEF ReapAfterError
  <1>15. CASE \E c \in Codes : Exits(c)
    BY <1>0, <1>15 DEF Exits
  <1>16. CASE \E h \in Helpers : Starts(h)
    BY <1>0, <1>16 DEF Starts
  <1>17. CASE \E h \in Helpers : Escapes(h)
    BY <1>0, <1>17 DEF Escapes
  <1>18. CASE \E h \in Helpers : LetsGo(h)
    BY <1>0, <1>18 DEF LetsGo
  <1>19. CASE \E r \in Rooms : TempCleaned(r)
    BY <1>0, <1>19 DEF TempCleaned
  <1>20. CASE SandboxDies
    BY <1>0, <1>20, SweptLives DEF SandboxDies
  <1>21. CASE Again
    BY <1>0, <1>21 DEF Again
  <1>22. CASE DeadlinePasses
    BY <1>0, <1>22 DEF DeadlinePasses
  <1>23. CASE GracePasses
    BY <1>0, <1>23 DEF GracePasses
  <1>24. CASE \E p \in Processes : Dies(p)
    BY <1>0, <1>24 DEF Dies
  <1>25. CASE UNCHANGED sandboxVars
    BY <1>0, <1>25 DEF sandboxVars
  <1> QED BY <1>1, <1>2, <1>3, <1>4, <1>5, <1>6, <1>7, <1>8, <1>9, <1>10, <1>11, <1>12, <1>13,
             <1>14, <1>15, <1>16, <1>17, <1>18, <1>19, <1>20, <1>21, <1>22, <1>23, <1>24, <1>25
          DEF SandboxNext, Measuring, Environment

(* The invariant, for good.                                                 *)
LEMMA AnswerInvariant == SandboxSpec => []AnswerInv
  <1>1. SandboxInit => AnswerInv
    BY InitAnswer
  <1>2. AnswerInv /\ [SandboxNext]_sandboxVars => AnswerInv'
    BY TypesKept, AnswerKept DEF AnswerInv
  <1> QED BY <1>1, <1>2, PTL DEF SandboxSpec

(* The engine's "passed" and "failed" (exec.rs:186-190, engine.rs:199-212) are
   about an end of the command's own: no kill, by deadline, sweep or a run
   given up, is ever read as an exit, whatever the suite starts and whenever
   it, its processes and the measuring process end.                         *)
THEOREM AnswersAreOfSuites == SandboxSpec => []AnswerIsTheSuites
  <1>1. AnswerInv => AnswerIsTheSuites
    BY DEF AnswerInv, AnswerRest, Answered, AnswerIsTheSuites
  <1> QED BY <1>1, AnswerInvariant, PTL

-----------------------------------------------------------------------------
(* What a run leaves behind.                                                *)

(* Only a process that runs has a place in the tree; on Unix a kill of the
   tree leaves nobody in it, on Windows the end of the job does.            *)
NobodyInside == \A p \in inside : proc[p] # "alive"

Contained ==
    /\ \A p \in inside : proc[p] # "none"
    /\ pc = "contain" => proc["child"] # "none"
    /\ pc \in Before => inside = {}
    /\ pc \in {"contain", "refused"} /\ os = "windows" => inside = {}
    /\ pc = "refused" => os = "windows"
    /\ pc \in {"reap", "give up"} /\ os = "unix" => NobodyInside
    /\ pc \in {"join", "close", "remove", "manual", "done"} => NobodyInside

Told ==
    /\ pc = "enter" => room = NoRoom
    /\ pc = "done" /\ notices = FALSE => room \notin dirs \cup regs

LeftInv == SandboxTypeOK /\ Contained /\ Told

(* Nor is there anything to leave behind.                                   *)
LEMMA InitLeft == ASSUME SandboxInit PROVE LeftInv
  <1>1. SandboxTypeOK
    BY InitAnswer DEF AnswerInv
  <1>2. Contained /\ Told
    BY DEF SandboxInit, Contained, Told, Before, NobodyInside
  <1> QED BY <1>1, <1>2 DEF LeftInv

(* Who is in the tree, and alive, step by step.                             *)
LEMMA ContainedKept == ASSUME SandboxTypeOK, Contained, [SandboxNext]_sandboxVars PROVE Contained'
  <1> USE DEF Contained, NobodyInside, Before, Stopped, procVars, wtVars
  <1>0. /\ "child" \in Processes /\ \A h \in Helpers : h \in Processes
        /\ proc \in [Processes -> {"none", "alive", "doomed", "gone"}]
        /\ inside \subseteq Processes /\ os \in {"unix", "windows"}
    BY DEF Processes, SandboxTypeOK
  <1>1. CASE \E r \in Rooms : Enter(r)
    BY <1>0, <1>1 DEF Enter, Pruned
  <1>2. CASE Overlay
    BY <1>0, <1>2 DEF Overlay
  <1>3. CASE Close
    BY <1>0, <1>3 DEF Close
  <1>4. CASE RemoveByGit
    BY <1>0, <1>4 DEF RemoveByGit
  <1>5. CASE RemoveByHand
    BY <1>0, <1>5 DEF RemoveByHand
  <1>6. CASE Spawn
    BY <1>0, <1>6 DEF Spawn
  <1>7. CASE Contain
    BY <1>0, <1>7 DEF Contain
  <1>8. CASE Poll
    BY <1>0, <1>8, KillLives DEF Poll
  <1>9. CASE Check
    BY <1>0, <1>9, KillLives DEF Check
  <1>10. CASE Reap
    BY <1>0, <1>10, SweptLives DEF Reap
  <1>11. CASE Sweep
    BY <1>0, <1>11, SweepLives DEF Sweep
  <1>12. CASE Join
    BY <1>0, <1>12 DEF Join
  <1>13. CASE WaitRefused
    BY <1>0, <1>13 DEF WaitRefused
  <1>14. CASE ReapAfterError
    BY <1>0, <1>14, SweptLives DEF ReapAfterError
  <1>15. CASE \E c \in Codes : Exits(c)
    BY <1>0, <1>15 DEF Exits
  <1>16. CASE \E h \in Helpers : Starts(h)
    BY <1>0, <1>16, ZenonT(60) DEF Starts
  <1>17. CASE \E h \in Helpers : Escapes(h)
    BY <1>0, <1>17 DEF Escapes
  <1>18. CASE \E h \in Helpers : LetsGo(h)
    BY <1>0, <1>18 DEF LetsGo
  <1>19. CASE \E r \in Rooms : TempCleaned(r)
    BY <1>0, <1>19 DEF TempCleaned
  <1>20. CASE SandboxDies
    BY <1>0, <1>20, SweptLives DEF SandboxDies
  <1>21. CASE Again
    BY <1>0, <1>21 DEF Again
  <1>22. CASE DeadlinePasses
    BY <1>0, <1>22 DEF DeadlinePasses
  <1>23. CASE GracePasses
    BY <1>0, <1>23 DEF GracePasses
  <1>24. CASE \E p \in Processes : Dies(p)
    BY <1>0, <1>24 DEF Dies
  <1>25. CASE UNCHANGED sandboxVars
    BY <1>0, <1>25 DEF sandboxVars
  <1> QED BY <1>1, <1>2, <1>3, <1>4, <1>5, <1>6, <1>7, <1>8, <1>9, <1>10, <1>11, <1>12, <1>13,
             <1>14, <1>15, <1>16, <1>17, <1>18, <1>19, <1>20, <1>21, <1>22, <1>23, <1>24, <1>25
          DEF SandboxNext, Measuring, Environment

(* Only the ends of the clean-up can leave something in the room.           *)
LEMMA ToldKept == ASSUME SandboxTypeOK, Told, [SandboxNext]_sandboxVars PROVE Told'
  <1> USE DEF Told, Stopped, procVars, wtVars
  <1>0. NoRoom \notin Rooms /\ dirs \subseteq Rooms /\ regs \subseteq Rooms
    BY SandboxAssumption DEF SandboxTypeOK
  <1>1. CASE \E r \in Rooms : Enter(r)
    BY <1>0, <1>1 DEF Enter, Pruned
  <1>2. CASE Overlay
    BY <1>0, <1>2 DEF Overlay
  <1>3. CASE Close
    BY <1>0, <1>3 DEF Close
  <1>4. CASE RemoveByGit
    BY <1>0, <1>4 DEF RemoveByGit
  <1>5. CASE RemoveByHand
    BY <1>0, <1>5 DEF RemoveByHand
  <1>6. CASE Spawn
    BY <1>0, <1>6 DEF Spawn
  <1>7. CASE Contain
    BY <1>0, <1>7 DEF Contain
  <1>8. CASE Poll
    BY <1>0, <1>8 DEF Poll
  <1>9. CASE Check
    BY <1>0, <1>9 DEF Check
  <1>10. CASE Reap
    BY <1>0, <1>10 DEF Reap
  <1>11. CASE Sweep
    BY <1>0, <1>11 DEF Sweep
  <1>12. CASE Join
    BY <1>0, <1>12 DEF Join
  <1>13. CASE WaitRefused
    BY <1>0, <1>13 DEF WaitRefused
  <1>14. CASE ReapAfterError
    BY <1>0, <1>14 DEF ReapAfterError
  <1>15. CASE \E c \in Codes : Exits(c)
    BY <1>0, <1>15 DEF Exits
  <1>16. CASE \E h \in Helpers : Starts(h)
    BY <1>0, <1>16 DEF Starts
  <1>17. CASE \E h \in Helpers : Escapes(h)
    BY <1>0, <1>17 DEF Escapes
  <1>18. CASE \E h \in Helpers : LetsGo(h)
    BY <1>0, <1>18 DEF LetsGo
  <1>19. CASE \E r \in Rooms : TempCleaned(r)
    BY <1>0, <1>19 DEF TempCleaned
  <1>20. CASE SandboxDies
    BY <1>0, <1>20 DEF SandboxDies
  <1>21. CASE Again
    BY <1>0, <1>21 DEF Again
  <1>22. CASE DeadlinePasses
    BY <1>0, <1>22 DEF DeadlinePasses
  <1>23. CASE GracePasses
    BY <1>0, <1>23 DEF GracePasses
  <1>24. CASE \E p \in Processes : Dies(p)
    BY <1>0, <1>24 DEF Dies
  <1>25. CASE UNCHANGED sandboxVars
    BY <1>0, <1>25 DEF sandboxVars
  <1> QED BY <1>1, <1>2, <1>3, <1>4, <1>5, <1>6, <1>7, <1>8, <1>9, <1>10, <1>11, <1>12, <1>13,
             <1>14, <1>15, <1>16, <1>17, <1>18, <1>19, <1>20, <1>21, <1>22, <1>23, <1>24, <1>25
          DEF SandboxNext, Measuring, Environment

(* A run that is over, however it ended, left no process in its group or job
   (exec.rs:173-175), and neither a directory nor a registration it did not
   tell (lib.rs:164-166), whatever the suite started, whichever step of the
   clean-up failed, and whatever a run that died had left before it.        *)
THEOREM LeftoversAreNoneOrTold == SandboxSpec => []NothingIsLeft
  <1>1. SandboxInit => LeftInv
    BY InitLeft
  <1>2. LeftInv /\ [SandboxNext]_sandboxVars => LeftInv'
    BY TypesKept, ContainedKept, ToldKept DEF LeftInv
  <1>3. LeftInv => NothingIsLeft
    <2> SUFFICES ASSUME LeftInv PROVE NothingIsLeft
      OBVIOUS
    <2>1. NothingOutlives
      BY DEF LeftInv, Contained, NobodyInside, NothingOutlives
    <2>2. notices \in BOOLEAN
      BY DEF LeftInv, SandboxTypeOK
    <2>3. LeftoversAreTold
      BY <2>2 DEF LeftInv, Told, LeftoversAreTold
    <2> QED BY <2>1, <2>3 DEF LeftInv, NothingIsLeft
  <1> QED BY <1>1, <1>2, <1>3, PTL DEF SandboxSpec
=============================================================================
