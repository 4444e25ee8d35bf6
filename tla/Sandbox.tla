------------------------------- MODULE Sandbox -------------------------------
(****************************************************************************)
(* The code-exec lane: a temporary worktree, the test command run in it     *)
(* under a deadline, the sweep of whatever it started, and the clean-up     *)
(* (andon-sandbox/src/{worktree,exec,engine}.rs, driven by `andon wait`).   *)
(*                                                                          *)
(* Time is abstracted to two moments: the deadline of the command and the   *)
(* end of the grace a killed child is given.  A kill dooms a process; the   *)
(* kernel ends it later.                                                    *)
(****************************************************************************)
EXTENDS Naturals, FiniteSets

CONSTANTS
    Helpers,      \* processes the command may start; none is "child"
    Rooms,        \* directories a worktree may be made in (pid and nonce)
    MaxRuns       \* bound: suites started in one behaviour

VARIABLES
    os,           \* "unix" (process group) or "windows" (job object)
    pc,           \* where the measuring process is
    room,         \* its worktree's directory
    dirs,         \* directories that exist
    regs,         \* worktrees registered in the parent repository
    proc,         \* the life of each process of the suite
    inside,       \* those a kill of the tree reaches
    pipes,        \* those that hold the pipes the output is read from
    end,          \* how the child ended
    clock,        \* "early", "late" (deadline passed), "grace over"
    timedOut,     \* run()'s local of that name
    answer,       \* what the engine made of it
    notices,      \* what the clean-up had to say
    runs          \* suites started so far

wtVars   == <<room, dirs, regs, notices>>
procVars == <<proc, inside, pipes, end>>
sandboxVars     == <<os, pc, wtVars, procVars, clock, timedOut, answer, runs>>

Processes == {"child"} \cup Helpers
NoRoom  == "no room"

(* The command is no process it starts, no directory is the missing one.    *)
ASSUME SandboxAssumption ==
    "child" \notin Helpers /\ NoRoom \notin Rooms /\ MaxRuns \in Nat \ {0}

Codes   == {"exit 0", "exit 1", "signal"}          \* ends of the command's own
Pending == "pending"
Stopped == {"done", "dead"}                        \* the measuring process rests

(* What the engine says: a suite that passed, one that failed, or no answer. *)
Answers == {Pending, "passed", "failed", "unavailable"}

SandboxTypeOK ==
    /\ os \in {"unix", "windows"}
    /\ pc \in {"enter", "overlay", "spawn", "contain", "poll", "check", "reap",
               "sweep", "join", "refused", "give up", "close", "remove", "manual"} \cup Stopped
    /\ room \in Rooms \cup {NoRoom} /\ dirs \subseteq Rooms /\ regs \subseteq Rooms
    /\ proc \in [Processes -> {"none", "alive", "doomed", "gone"}]
    /\ inside \subseteq Processes /\ pipes \subseteq Processes
    /\ end \in Codes \cup {"none", "killed"}
    /\ clock \in {"early", "late", "grace over"}
    /\ timedOut \in BOOLEAN /\ answer \in Answers /\ notices \in BOOLEAN
    /\ runs \in 0..MaxRuns

-----------------------------------------------------------------------------
(* The worktree.                                                            *)

(* `git worktree prune`: registrations whose directory is gone.             *)
Pruned(registered) == registered \cap dirs

(* TempWorktree::materialize up to `git worktree add`.  The prune may fail
   and is not waited for; the add fails if the directory is there already.  *)
Enter(r) ==
    /\ pc = "enter"
    /\ \E kept \in {regs, Pruned(regs)} :
          \/ /\ r \notin dirs
             /\ room' = r /\ dirs' = dirs \cup {r} /\ regs' = kept \cup {r}
             /\ pc' = "overlay" /\ UNCHANGED answer
          \/ /\ regs' = kept /\ pc' = "done" /\ answer' = "unavailable"
             /\ UNCHANGED <<room, dirs>>
    /\ UNCHANGED <<os, procVars, clock, timedOut, notices, runs>>

(* The overlay is laid in full, or the worktree is torn down again.         *)
Overlay ==
    /\ pc = "overlay"
    /\ \/ pc' = "spawn" /\ UNCHANGED answer
       \/ pc' = "close" /\ answer' = "unavailable"
    /\ UNCHANGED <<os, wtVars, procVars, clock, timedOut, runs>>

(* TempWorktree::remove: the parent repository opens or does not.           *)
Close ==
    /\ pc = "close"
    /\ \/ pc' = "remove" /\ UNCHANGED notices
       \/ pc' = "done" /\ notices' = TRUE
    /\ UNCHANGED <<os, room, dirs, regs, procVars, clock, timedOut, answer, runs>>

(* `git worktree remove --force`, up to three times: done, or refused thrice. *)
RemoveByGit ==
    /\ pc = "remove"
    /\ \/ /\ dirs' = dirs \ {room} /\ regs' = regs \ {room} /\ pc' = "done"
       \/ pc' = "manual" /\ UNCHANGED <<dirs, regs>>
    /\ UNCHANGED <<os, room, notices, procVars, clock, timedOut, answer, runs>>

(* The directory is deleted by hand and the registration pruned (a failure
   of the prune is ignored), or it cannot be deleted.  Either is told.      *)
RemoveByHand ==
    /\ pc = "manual"
    /\ \/ /\ dirs' = dirs \ {room}
          /\ \E kept \in {regs, regs \cap dirs'} : regs' = kept
       \/ UNCHANGED <<dirs, regs>>
    /\ notices' = TRUE /\ pc' = "done"
    /\ UNCHANGED <<os, room, procVars, clock, timedOut, answer, runs>>

-----------------------------------------------------------------------------
(* The command.                                                             *)

(* The processes a kill of the tree reaches: the members of the group, or of
   the job, that are alive.                                                 *)
Reached == {p \in inside : proc[p] = "alive"}

(* kill_tree: SIGKILL to the group always takes; TerminateJobObject may not,
   and its result is discarded.                                             *)
KillTree ==
    \/ proc' = [p \in Processes |-> IF p \in Reached THEN "doomed" ELSE proc[p]]
    \/ os = "windows" /\ UNCHANGED proc

(* Containment::sweep and its drop: closing the job's last handle ends
   whatever is in the job.  On Unix there is nothing to release.            *)
Swept(life) ==
    [p \in Processes |-> IF os = "windows" /\ p \in inside /\ life[p] = "alive"
                     THEN "doomed" ELSE life[p]]

(* TestCommandEngine::measure: zero passes, any other end of its own fails,
   and a timeout or a run that reported an error is no answer.              *)
Judged(late, how) ==
    IF late THEN "unavailable" ELSE IF how = "exit 0" THEN "passed" ELSE "failed"

(* run() up to the spawn; the child leads its own group, or joins the job
   next.  A spawn that fails leaves the worktree to be closed.              *)
Spawn ==
    /\ pc = "spawn"
    /\ \/ /\ proc' = [proc EXCEPT !["child"] = "alive"]
          /\ inside' = (IF os = "unix" THEN {"child"} ELSE {})
          /\ pipes' = {"child"} /\ pc' = "contain" /\ UNCHANGED answer
       \/ pc' = "close" /\ answer' = "unavailable"
          /\ UNCHANGED <<proc, inside, pipes>>
    /\ UNCHANGED <<os, wtVars, end, clock, timedOut, runs>>

(* platform::contain: nothing on Unix; on Windows the job is made and the
   child put in it, or the child is killed, which is taken to succeed, and
   the run refused.                                                         *)
Contain ==
    /\ pc = "contain"
    /\ \/ inside' = inside \cup {"child"} /\ pc' = "poll" /\ UNCHANGED <<proc, answer>>
       \/ /\ os = "windows"
          /\ proc' = [proc EXCEPT !["child"] = IF @ = "alive" THEN "doomed" ELSE @]
          /\ pc' = "refused" /\ answer' = "unavailable" /\ UNCHANGED inside
    /\ UNCHANGED <<os, wtVars, pipes, end, clock, timedOut, runs>>

(* try_wait in the loop: the child has ended, or it has not, or the child
   cannot be waited for, which is an error once the tree is killed and the
   child reaped or given up.                                                *)
Poll ==
    /\ pc = "poll"
    /\ \/ pc' = (IF proc["child"] = "gone" THEN "sweep" ELSE "check") /\ UNCHANGED proc
       \/ pc' = "give up" /\ KillTree
    /\ UNCHANGED <<os, wtVars, inside, pipes, end, clock, timedOut, answer, runs>>

ReapAfterError ==
    /\ pc = "give up" /\ (proc["child"] = "gone" \/ clock = "grace over")
    /\ proc' = Swept(proc) /\ pc' = "close" /\ answer' = "unavailable"
    /\ UNCHANGED <<os, wtVars, inside, pipes, end, clock, timedOut, runs>>

(* Variant: the timeout is not remembered. *)
CheckForgets ==
    /\ pc = "check"
    /\ \/ clock = "early" /\ pc' = "poll" /\ UNCHANGED proc
       \/ clock # "early" /\ KillTree /\ pc' = "reap"
    /\ UNCHANGED <<os, wtVars, inside, pipes, end, clock, timedOut, answer, runs>>

(* The clock is read after the child was looked at.                         *)
Check ==
    /\ pc = "check"
    /\ \/ clock = "early" /\ pc' = "poll" /\ UNCHANGED <<proc, timedOut>>
       \/ clock # "early" /\ timedOut' = TRUE /\ KillTree /\ pc' = "reap"
    /\ UNCHANGED <<os, wtVars, inside, pipes, end, clock, answer, runs>>

(* Variant: the killed child is waited for without a bound. *)
ReapUnbounded ==
    /\ pc = "reap" /\ proc["child"] = "gone" /\ pc' = "sweep"
    /\ UNCHANGED <<os, wtVars, procVars, clock, timedOut, answer, runs>>

(* reap_bounded: the child is looked at first, the grace second.  Giving up
   drops the containment, and no outcome is reported.                       *)
Reap ==
    /\ pc = "reap"
    /\ \/ proc["child"] = "gone" /\ pc' = "sweep" /\ UNCHANGED <<proc, answer>>
       \/ /\ proc["child"] # "gone" /\ clock = "grace over"
          /\ proc' = Swept(proc) /\ pc' = "close" /\ answer' = "unavailable"
    /\ UNCHANGED <<os, wtVars, inside, pipes, end, clock, timedOut, runs>>

(* Variant: only a command that was stopped is swept. *)
SweepStopped ==
    /\ pc = "sweep"
    /\ IF timedOut THEN KillTree ELSE UNCHANGED proc
    /\ pc' = "join"
    /\ UNCHANGED <<os, wtVars, inside, pipes, end, clock, timedOut, answer, runs>>

(* The sweep after every end: kill the tree, then let the containment go.   *)
Sweep ==
    /\ pc = "sweep"
    /\ \E life \in {proc, [p \in Processes |-> IF p \in Reached THEN "doomed" ELSE proc[p]]} :
          /\ life = proc => os = "windows" \/ Reached = {}
          /\ proc' = Swept(life)
    /\ pc' = "join"
    /\ UNCHANGED <<os, wtVars, inside, pipes, end, clock, timedOut, answer, runs>>

(* The readers end when nobody holds the pipes; only then is there an
   outcome, and the engine's answer.                                        *)
Join ==
    /\ pc = "join" /\ pipes = {}
    /\ answer' = Judged(timedOut, end) /\ pc' = "close"
    /\ UNCHANGED <<os, wtVars, procVars, clock, timedOut, runs>>

(* After a containment that failed the child is waited for without a bound. *)
WaitRefused ==
    /\ pc = "refused" /\ proc["child"] = "gone" /\ pc' = "close"
    /\ UNCHANGED <<os, wtVars, procVars, clock, timedOut, answer, runs>>

-----------------------------------------------------------------------------
(* The suite, the kernel, time, and the operating system's temp cleaner.    *)

Exits(c) ==
    /\ proc["child"] = "alive"
    /\ proc' = [proc EXCEPT !["child"] = "gone"] /\ pipes' = pipes \ {"child"}
    /\ end' = c
    /\ UNCHANGED <<os, pc, wtVars, inside, clock, timedOut, answer, runs>>

(* A process of the suite starts another, which is where its parent is.     *)
Starts(h) ==
    /\ proc[h] = "none"
    /\ \E p \in Processes :
          /\ proc[p] = "alive"
          /\ inside' = IF p \in inside THEN inside \cup {h} ELSE inside
          /\ pipes' = IF p \in pipes THEN pipes \cup {h} ELSE pipes
    /\ proc' = [proc EXCEPT ![h] = "alive"]
    /\ UNCHANGED <<os, pc, wtVars, end, clock, timedOut, answer, runs>>

(* setsid takes a process out of its group; no job can be left.             *)
Escapes(h) ==
    /\ os = "unix" /\ proc[h] = "alive" /\ h \in inside
    /\ inside' = inside \ {h}
    /\ UNCHANGED <<os, pc, wtVars, proc, pipes, end, clock, timedOut, answer, runs>>

(* A helper closes the pipes, or ends.                                      *)
LetsGo(h) ==
    /\ proc[h] = "alive"
    /\ pipes' = pipes \ {h}
    /\ \E life \in {"alive", "gone"} : proc' = [proc EXCEPT ![h] = life]
    /\ UNCHANGED <<os, pc, wtVars, inside, end, clock, timedOut, answer, runs>>

(* A doomed process dies.                                                   *)
Dies(p) ==
    /\ proc[p] = "doomed"
    /\ proc' = [proc EXCEPT ![p] = "gone"] /\ pipes' = pipes \ {p}
    /\ end' = IF p = "child" THEN "killed" ELSE end
    /\ UNCHANGED <<os, pc, wtVars, inside, clock, timedOut, answer, runs>>

DeadlinePasses ==
    /\ clock = "early" /\ pc \in {"contain", "poll", "check"}
    /\ clock' = "late"
    /\ UNCHANGED <<os, pc, wtVars, procVars, timedOut, answer, runs>>

GracePasses ==
    /\ pc \in {"reap", "give up"} /\ clock # "grace over"
    /\ clock' = "grace over"
    /\ UNCHANGED <<os, pc, wtVars, procVars, timedOut, answer, runs>>

(* The temp cleaner takes a directory nobody works in.                      *)
TempCleaned(r) ==
    /\ r \in dirs /\ (r # room \/ pc \in Stopped)
    /\ dirs' = dirs \ {r}
    /\ UNCHANGED <<os, pc, room, regs, notices, procVars, clock, timedOut, answer, runs>>

(* The measuring process dies: on Windows the job's last handle goes with it. *)
SandboxDies ==
    /\ pc \notin Stopped
    /\ pc' = "dead" /\ proc' = Swept(proc)
    /\ UNCHANGED <<os, wtVars, inside, pipes, end, clock, timedOut, answer, runs>>

(* The next `andon wait`, once the last suite's processes are gone: what
   outlives a suite has no part in the next one.                            *)
Again ==
    /\ pc \in Stopped /\ runs < MaxRuns
    /\ \A p \in Processes : proc[p] \in {"none", "gone"}
    /\ pc' = "enter" /\ room' = NoRoom /\ notices' = FALSE /\ runs' = runs + 1
    /\ proc' = [p \in Processes |-> "none"] /\ inside' = {} /\ pipes' = {}
    /\ end' = "none" /\ clock' = "early" /\ timedOut' = FALSE /\ answer' = Pending
    /\ UNCHANGED <<os, dirs, regs>>

-----------------------------------------------------------------------------
SandboxInit ==
    /\ os \in {"unix", "windows"}
    /\ pc = "enter" /\ room = NoRoom /\ dirs = {} /\ regs = {} /\ notices = FALSE
    /\ proc = [p \in Processes |-> "none"] /\ inside = {} /\ pipes = {} /\ end = "none"
    /\ clock = "early" /\ timedOut = FALSE /\ answer = Pending /\ runs = 1

Measuring ==
    \/ \E r \in Rooms : Enter(r)
    \/ Overlay \/ Spawn \/ Contain \/ Poll \/ Check \/ Reap \/ Sweep \/ Join
    \/ WaitRefused \/ ReapAfterError \/ Close \/ RemoveByGit \/ RemoveByHand

Environment ==
    \/ \E c \in Codes : Exits(c)
    \/ \E h \in Helpers : Starts(h) \/ Escapes(h) \/ LetsGo(h)
    \/ \E r \in Rooms : TempCleaned(r)
    \/ SandboxDies \/ Again

SandboxNext ==
    \/ Measuring \/ Environment \/ DeadlinePasses \/ GracePasses
    \/ \E p \in Processes : Dies(p)

SandboxSpec == SandboxInit /\ [][SandboxNext]_sandboxVars

(* The measuring process runs, time passes, and what is killed dies.        *)
SandboxFairSpec ==
    /\ SandboxSpec /\ WF_sandboxVars(Measuring)
    /\ WF_sandboxVars(DeadlinePasses) /\ WF_sandboxVars(GracePasses)
    /\ \A p \in Processes : WF_sandboxVars(Dies(p))

-----------------------------------------------------------------------------
(* What passes for the suite's result is the suite's own end: no kill, by
   deadline or sweep, is ever read as an exit, and no answer is given for a
   command that was stopped (exec.rs:186-190, engine.rs:199-212).           *)
AnswerIsTheSuites ==
    answer \in {"passed", "failed"} =>
        /\ end \in Codes
        /\ answer = "passed" <=> end = "exit 0"

(* Once a run is over, however it ended, nothing that stayed in its group or
   job goes on: neither a daemon of a passing suite, nor the tree of one that
   was stopped (exec.rs:173-175, lib.rs:20-23).                              *)
NothingOutlives ==
    pc \in {"join", "close", "remove", "manual", "done"} =>
        \A p \in inside : proc[p] # "alive"

(* A clean-up that has nothing to say left neither a directory nor a
   registration behind (lib.rs:164-166).                                    *)
LeftoversAreTold ==
    pc = "done" /\ ~notices => room \notin dirs \cup regs

(* What a suite leaves behind it, in processes and on the disk, is nothing
   it did not say.                                                           *)
NothingIsLeft == SandboxTypeOK /\ NothingOutlives /\ LeftoversAreTold

(* A command that runs is answered for in bounded time, whether it ends, is
   stopped, or cannot be, unless a process that left the tree holds the pipes
   open (exec.rs:148-183; the readers are joined without a bound).          *)
RunReturns ==
    pc = "contain" ~> \/ pc \in {"close", "remove", "manual"} \cup Stopped
                      \/ pc = "join" /\ pipes \ inside # {}

=============================================================================
