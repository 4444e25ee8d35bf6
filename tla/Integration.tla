---------------------------- MODULE Integration ----------------------------
(***************************************************************************)
(* `andon init` and `andon hook` (crates/andon-cli/src/init): steps that   *)
(* read a file other people own, decide, and write Andon's entries into it *)
(* or take them out again, stopping at the first refusal; and what an      *)
(* installed hook does when it fires.  The owner edits the files at any    *)
(* time, between a step's read and its write too; a read or a write can    *)
(* fail, and a run can be killed, in the middle of a write too.            *)
(***************************************************************************)
EXTENDS Naturals, Sequences, FiniteSets, SequencesExt

CONSTANTS
    StartFiles,    \* what the repository holds at first
    OwnerEdits,    \* what its owner may put in a file: [file, content]
    OwnerCommands, \* the hook commands others may write
    MaxCommands,   \* bound: `andon init` commands
    MaxOwnerEdits

VARIABLES
    files,      \* settings, mcp, cursorMcp, preCommit, rules
    command,    \* the `andon init` under way, and the write it is about to do
    told,       \* what the last one said: [over, refused, steps]
    fired,      \* what the hook did when it last ran
    spent       \* commands and owner's edits so far, and the files edited
                \* since the last command began

integrationVars == <<files, command, told, fired, spent>>

(***************************************************************************)
(* JSON files: the Stop hooks of .claude/settings.json are a sequence of   *)
(* entries, each a sequence of commands; a server file names its servers.  *)
(* One that does not parse is broken, one whose hooks or servers are of    *)
(* another type misshapen.                                                 *)
(***************************************************************************)
Absent == [kind |-> "absent", stop |-> <<>>, andon |-> "none", foreign |-> FALSE, armed |-> FALSE]
Broken == [Absent EXCEPT !.kind = "broken"]
StopHooks(stop) == [Absent EXCEPT !.kind = "object", !.stop = stop]
ServersOf(andon, foreign) ==
    [Absent EXCEPT !.kind = "object", !.andon = andon, !.foreign = foreign]
\* Script and rules files: absent, foreign, or with the marker: as Andon writes
\* them, old (another version, or cut short after the marker), or with lines of
\* the owner's besides (foreign); or torn: cut short before the marker.  A
\* script is armed if it is executable.
OwnFile(kind) == [Absent EXCEPT !.kind = kind]

OurCommands == {"claude-stop", "claude-stop --self-measure"}
HookCommands == OwnerCommands \cup OurCommands
IsOurs(c) == c \in OurCommands
HookCommand(selfMeasure) == IF selfMeasure THEN "claude-stop --self-measure" ELSE "claude-stop"
Script(selfMeasure) == IF selfMeasure THEN "gate --self-measure" ELSE "gate"
PreCommit(selfMeasure) == [OwnFile(Script(selfMeasure)) EXCEPT !.armed = TRUE]
Gates == {"gate", "gate --self-measure"}
Marked == Gates \cup {"rules", "old"}
HasMarker(f) == f.kind \in Marked

CommandsOf(f) == UNION {ToSet(f.stop[i]) : i \in DOMAIN f.stop}
OursIn(f) == CommandsOf(f) \cap OurCommands

\* retain: what is left of a sequence without some of its elements.
Without(s, out) ==
    LET left[n \in 0 .. Len(s)] ==
          IF n = 0 THEN <<>> ELSE IF s[n] \in out THEN left[n - 1] ELSE Append(left[n - 1], s[n])
    IN  left[Len(s)]

\* The files there can be, each in its place.
JsonFiles == {"settings", "mcp", "cursorMcp"}
FileNames == JsonFiles \cup {"preCommit", "rules"}
IsFileOf(name, f) ==
    /\ f \in [kind : {"absent", "object", "broken", "misshapen", "foreign", "torn"} \cup Marked,
              stop : Seq(Seq(HookCommands)),
              andon : {"none", "ours", "different"}, foreign : BOOLEAN, armed : BOOLEAN]
    /\ f.kind # "object" => f.stop = <<>> /\ f.andon = "none"
    /\ f.kind # "object" /\ ~ HasMarker(f) => ~ f.foreign
    /\ name \notin JsonFiles => f.kind \notin {"object", "broken", "misshapen"}
    /\ name \in JsonFiles => f.kind \in {"absent", "object", "broken", "misshapen"}
    /\ name = "settings" => f.andon = "none" /\ ~ f.foreign
    /\ name # "settings" => f.stop = <<>>
    /\ name # "preCommit" \/ f.kind = "absent" => ~ f.armed

ASSUME IntegrationAssumption ==
    /\ \A start \in StartFiles : start = [name \in FileNames |-> start[name]]
    /\ \A start \in StartFiles, name \in FileNames : IsFileOf(name, start[name])
    /\ \A e \in OwnerEdits : e.file \in FileNames /\ IsFileOf(e.file, e.content)

(***************************************************************************)
(* The steps: what each leaves in its file and says, [file, says].         *)
(* Mutant: a removal that drops every entry of ours whole.                 *)
(***************************************************************************)
Says(f, says) == [file |-> f, says |-> says]

InstallStopHook(f, selfMeasure) ==
    LET wanted == HookCommand(selfMeasure)
        rewritten == [i \in DOMAIN f.stop |-> [j \in DOMAIN f.stop[i] |->
                        IF IsOurs(f.stop[i][j]) THEN wanted ELSE f.stop[i][j]]]
    IN  IF f.kind \in {"broken", "misshapen"} THEN Says(f, "refused")
        ELSE IF OursIn(f) = {} THEN Says(StopHooks(Append(f.stop, <<wanted>>)), "wrote")
        ELSE IF OursIn(f) = {wanted} THEN Says(f, "already")
        ELSE Says(StopHooks(rewritten), "wrote")

RemoveStopHookWhole(f) ==
    IF f.kind = "broken" THEN Says(f, "refused")
    ELSE IF OursIn(f) = {} THEN Says(f, "absent")
    ELSE Says(StopHooks(Without(f.stop, {f.stop[i] : i \in {j \in DOMAIN f.stop :
                                     ToSet(f.stop[j]) \cap OurCommands # {}}})), "removed")

\* An entry left without hooks goes, whoever wrote it.
RemoveStopHook(f) ==
    LET without == [i \in DOMAIN f.stop |-> Without(f.stop[i], OurCommands)]
    IN  IF f.kind = "broken" THEN Says(f, "refused")
        ELSE IF OursIn(f) = {} THEN Says(f, "absent")
        ELSE Says(StopHooks(Without(without, {<<>>})), "removed")

InstallMcpServer(f) ==
    IF f.kind \in {"broken", "misshapen"} \/ f.andon = "different" THEN Says(f, "refused")
    ELSE IF f.andon = "ours" THEN Says(f, "already")
    ELSE Says(ServersOf("ours", f.foreign), "wrote")

RemoveMcpServer(f) ==
    IF f.kind = "broken" \/ f.andon = "different" THEN Says(f, "refused")
    ELSE IF f.andon = "none" THEN Says(f, "absent")
    ELSE Says(ServersOf("none", f.foreign), "removed")

\* Whether the script can be executed is not looked at.
InstallPreCommit(f, selfMeasure) ==
    IF f.kind = Script(selfMeasure) /\ ~ f.foreign THEN Says(f, "already")
    ELSE IF f.kind = "absent" \/ HasMarker(f) THEN Says(PreCommit(selfMeasure), "wrote")
    ELSE Says(f, "refused")

InstallRules(f) ==
    IF f.kind = "rules" /\ ~ f.foreign THEN Says(f, "already")
    ELSE IF f.kind = "absent" \/ HasMarker(f) THEN Says(OwnFile("rules"), "wrote")
    ELSE Says(f, "refused")

RemoveOwnedFile(f) ==
    IF f.kind = "absent" THEN Says(f, "absent")
    ELSE IF HasMarker(f) THEN Says(Absent, "removed")
    ELSE Says(f, "refused")

\* claude::run and cursor::run: the files of a harness, in order.
StepsOf(harness) ==
    IF harness = "claude" THEN <<"settings", "mcp">> ELSE <<"preCommit", "rules", "cursorMcp">>

StepOn(name, f, remove, selfMeasure) ==
    CASE name = "settings"  -> IF remove THEN RemoveStopHook(f) ELSE InstallStopHook(f, selfMeasure)
      [] name = "preCommit" -> IF remove THEN RemoveOwnedFile(f) ELSE InstallPreCommit(f, selfMeasure)
      [] name = "rules"     -> IF remove THEN RemoveOwnedFile(f) ELSE InstallRules(f)
      [] OTHER              -> IF remove THEN RemoveMcpServer(f) ELSE InstallMcpServer(f)

------------------------------------------------------------------------------
NoCommand == [steps |-> <<>>]
NotRead == [says |-> "not read"]
Silent == [over |-> FALSE, refused |-> "no", steps |-> <<>>]
NotFired == [ran |-> FALSE]

IntegrationInit ==
    /\ files \in StartFiles
    /\ command = NoCommand
    /\ told = Silent
    /\ fired = NotFired
    /\ spent = [commands |-> 0, edits |-> 0, edited |-> {}]

CmdInit(harness, remove, selfMeasure) ==
    /\ command = NoCommand
    /\ spent.commands < MaxCommands
    /\ command' = [steps |-> StepsOf(harness), remove |-> remove,
                   selfMeasure |-> selfMeasure, pending |-> NotRead]
    /\ told' = Silent
    /\ spent' = [spent EXCEPT !.commands = @ + 1, !.edited = {}]
    /\ UNCHANGED <<files, fired>>

\* run_steps: a step, or the refusal with the steps before it.
RefusedAfter(name, steps) == [over |-> TRUE, refused |-> name, steps |-> steps]

\* The command ends at a step that refuses, or that cannot read or write.
Stops(name) == told' = RefusedAfter(name, told.steps) /\ command' = NoCommand

GoesOn(name, says) ==
    LET last == Tail(command.steps) = <<>>
    IN  /\ told' = [over |-> last, refused |-> "no",
                    steps |-> Append(told.steps, [file |-> name, says |-> says])]
        /\ command' = IF last THEN NoCommand
                      ELSE [command EXCEPT !.steps = Tail(@), !.pending = NotRead]

\* The first half of a step: read the file and decide.
ReadFile ==
    /\ command # NoCommand /\ command.pending = NotRead
    /\ LET name == Head(command.steps)
           read == files[name]
           step == StepOn(name, read, command.remove, command.selfMeasure)
       IN  \/ read.kind # "absent" /\ Stops(name)
           \/ step.says = "refused" /\ Stops(name)
           \/ step.says \in {"already", "absent"} /\ GoesOn(name, step.says)
           \/ /\ step.says \in {"wrote", "removed"}
              /\ command' = [command EXCEPT !.pending =
                                [read |-> read, file |-> step.file, says |-> step.says]]
              /\ UNCHANGED told
    /\ UNCHANGED <<files, fired, spent>>

\* What a write that does not come back leaves: nothing done, or the file cut
\* short, or whole and, if a script, with the mode it had.
Unfinished(name) ==
    LET to == command.pending.file
        cut == IF name \in JsonFiles THEN {Broken, to}
               ELSE {[to EXCEPT !.kind = kind, !.armed = files[name].armed] :
                       kind \in {"torn", "old", to.kind}}
    IN  {files[name]} \cup IF to = Absent THEN {} ELSE cut

\* The second half: write what was decided, whatever the file holds by now.
WriteFile ==
    /\ command # NoCommand /\ command.pending # NotRead
    /\ LET name == Head(command.steps)
           to == command.pending.file
       IN  \/ /\ to = Absent => files[name] # Absent
              /\ files' = [files EXCEPT ![name] = to]
              /\ GoesOn(name, command.pending.says)
           \/ /\ \E left \in Unfinished(name) : files' = [files EXCEPT ![name] = left]
              /\ Stops(name)
    /\ UNCHANGED <<fired, spent>>

Killed ==
    /\ command # NoCommand
    /\ command' = NoCommand
    /\ told' = Silent
    /\ IF command.pending = NotRead THEN UNCHANGED files
       ELSE LET name == Head(command.steps)
            IN  \E left \in Unfinished(name) \cup {command.pending.file} :
                    files' = [files EXCEPT ![name] = left]
    /\ UNCHANGED <<fired, spent>>

OwnerEdit(name, content) ==
    /\ spent.edits < MaxOwnerEdits
    /\ spent' = [spent EXCEPT !.edits = @ + 1, !.edited = @ \cup {name}]
    /\ files' = [files EXCEPT ![name] = content]
    /\ UNCHANGED <<command, told, fired>>

(***************************************************************************)
(* hook::run: measure, save and record as well as can be, then exit.       *)
(***************************************************************************)
ExitCode(unreadable, verdict) ==
    IF unreadable THEN 1
    ELSE CASE verdict \in {"pass", "advise"} -> 0
           [] verdict = "block"              -> 2
           [] verdict = "escalate_to_human"  -> 3

Fire(harness) ==
    /\ command = NoCommand
    /\ IF harness = "claude" THEN OursIn(files.settings) # {}
       ELSE files.preCommit.kind \in Gates /\ files.preCommit.armed
    /\ \/ \E nothing \in {"NoWorkingChange", "NoParent"} :
             fired' = [ran |-> TRUE, harness |-> harness, change |-> nothing, code |-> 0]
       \/ fired' = [ran |-> TRUE, harness |-> harness, change |-> "failed", code |-> 1]
       \/ \E unreadable \in BOOLEAN, verdict \in {"pass", "advise", "block", "escalate_to_human"} :
             fired' = [ran |-> TRUE, harness |-> harness, change |-> "measured",
                       unreadable |-> unreadable, verdict |-> verdict,
                       code |-> ExitCode(unreadable, verdict)]
    /\ UNCHANGED <<files, command, told, spent>>

IntegrationNext ==
    \/ \E harness \in {"claude", "cursor"}, remove, selfMeasure \in BOOLEAN :
           CmdInit(harness, remove, selfMeasure)
    \/ ReadFile
    \/ WriteFile
    \/ Killed
    \/ \E e \in OwnerEdits : OwnerEdit(e.file, e.content)
    \/ \E harness \in {"claude", "cursor"} : Fire(harness)

IntegrationSpec == IntegrationInit /\ [][IntegrationNext]_integrationVars

------------------------------------------------------------------------------
SaidOf(name) == {told.steps[i].says : i \in {j \in DOMAIN told.steps : told.steps[j].file = name}}

\* What others wrote among the Stop hooks: their commands, entry by entry.  An
\* entry of nothing but ours is no entry of theirs; an empty one is.
Others(stop) ==
    LET theirs == Without(stop, Seq(OurCommands) \ {<<>>})
    IN  [i \in DOMAIN theirs |-> Without(theirs[i], OurCommands)]

\* A step of the command under way, or its death, changes a file.
CommandChangesFiles == command # NoCommand /\ spent' = spent /\ files' # files
CutShort(f) == f.kind \in {"broken", "torn", "old"}

(* A command changes one file at a time, and only one it has read: the file *)
(* as it stands if its owner did not touch it meanwhile.  It replaces no    *)
(* file it cannot read and none without its marker, and of what it read in  *)
(* a file it merges into it keeps every hook of others in its entry and its *)
(* order, and every server, unless the write is cut short; a removal drops  *)
(* entries without hooks (init/mod.rs, claude.rs and cursor.rs).            *)
ForeignIsKept ==
    CommandChangesFiles =>
        LET name == Head(command.steps)
            read == command.pending.read
            left == files'[name]
        IN  /\ command.pending # NotRead
            /\ name \notin spent.edited => read = files[name]
            /\ files' = [files EXCEPT ![name] = left]
            /\ read.kind \in {"absent", "object"} \cup Marked /\ read.andon # "different"
            /\ \/ CutShort(left) \/ HasMarker(read)
               \/ /\ Others(left.stop) = IF command.remove THEN Without(Others(read.stop), {<<>>})
                                          ELSE Others(read.stop)
                  /\ left.foreign = read.foreign

(* A removal deletes nothing that somebody else wrote, but in a write cut   *)
(* short: neither the lines they put in a file with Andon's marker, nor an  *)
(* entry of theirs, nor what they wrote while it ran (init/cursor.rs, the   *)
(* comment on MARKER; init/mod.rs, `--remove`).                             *)
RemovalSparesOthers ==
    [][CommandChangesFiles /\ command.remove =>
         LET name == Head(command.steps)
         IN  \/ CutShort(files'[name])
             \/ /\ Others(files'[name].stop) = Others(files[name].stop)
                /\ files[name].foreign => files'[name].foreign
                /\ files[name].kind # "foreign"]_integrationVars

(* What a command said of a file is what is there, unless its owner edited  *)
(* it since (init/mod.rs, report).                                          *)
WhatIsSaidIsThere ==
    \A name \in DOMAIN files \ spent.edited :
        /\ "removed" \in SaidOf(name) => OursIn(files[name]) = {} /\ ~ HasMarker(files[name])
                                         /\ files[name].andon # "ours"
        /\ SaidOf(name) \cap {"wrote", "already"} # {} =>
               \/ \E selfMeasure \in BOOLEAN : OursIn(files[name]) = {HookCommand(selfMeasure)}
               \/ HasMarker(files[name])
               \/ files[name].andon = "ours"

(* An installed gate lets a change through only if all of it was read and   *)
(* its verdict stops nothing (hook.rs).                                     *)
GateStops ==
    fired.ran /\ fired.change = "measured" /\ fired.code = 0 =>
        ~ fired.unreadable /\ fired.verdict \notin {"block", "escalate_to_human"}

(* A step of a command that is not killed changes its file only if the      *)
(* report says so, or names the file as the one it stopped at; a refusal    *)
(* keeps what the steps before it said.  The gate an install writes runs    *)
(* with the flag of this install in every copy of it that was there, and a  *)
(* script it writes can be executed (init/mod.rs, run_steps).               *)
ChangeIsSaid ==
    command # NoCommand /\ told' # told /\ told' # Silent =>
        LET name == Head(command.steps)
            said == {told'.steps[i].says :
                        i \in {j \in DOMAIN told'.steps : told'.steps[j].file = name}}
        IN  /\ files'[name] # files[name] =>
                   said \cap {"wrote", "removed"} # {} \/ told'.refused = name
            /\ IsPrefix(told.steps, told'.steps)
            /\ said \cap {"wrote", "already"} # {} =>
                   /\ name = "settings" =>
                          OursIn(files'[name]) = {HookCommand(command.selfMeasure)}
                   /\ name = "preCommit" =>
                          files'[name].kind = Script(command.selfMeasure) /\ ~ files'[name].foreign
            /\ name = "preCommit" /\ "wrote" \in said => files'[name].armed

(* What andon init said of a file is what is there, what it read of others' *)
(* in a file it merges into is kept, an installed gate stops what it must,  *)
(* and no step changes a file in silence (andon-cli, init/mod.rs and        *)
(* hook.rs).                                                                *)
InitIsTold ==
    /\ [](WhatIsSaidIsThere /\ GateStops)
    /\ [][ChangeIsSaid /\ ForeignIsKept]_integrationVars
=============================================================================
