----------------------------- MODULE GitRunner -----------------------------
(***************************************************************************)
(* The one place git is spawned (crates/andon-core/src/git/command.rs):    *)
(* the variables it inherits are swept, some keys are pinned with -c, and  *)
(* the filter drivers of the configuration are read once, when the         *)
(* repository is opened, and emptied in every spawn after that.  One spawn *)
(* leaves the check-in conversion to the checkout.                         *)
(*                                                                         *)
(* Git itself is external: which configuration files a spawn reads, and    *)
(* which of them wins.  A key is a pair <<name, driver>>.                  *)
(***************************************************************************)
EXTENDS Naturals, Sequences, FiniteSets

CONSTANTS
    Drivers,       \* names of filter drivers; `=` in one cannot be pinned
    Unpinnable,    \* the names that hold `=` or a line break
    Configurations, \* configuration files -> what each says: keys -> values
    Contents,      \* what a file may be edited to say
    Environments,  \* the variables `andon` may inherit
    MaxEdits       \* bound: configuration files edited while it runs

VARIABLES
    config,      \* configuration files -> what they say
    inherited,   \* GIT_* variables of the caller
    attribute,   \* the driver .gitattributes gives the files, or NoDriver
    handle,      \* the opened repository
    answers,     \* what the spawns that read files answered
    ran,         \* programs the spawns ran
    edits

gitVars == <<config, inherited, attribute, handle, answers, ran, edits>>

NoDriver == "none"
Unset == "unset"
Autocrlf == <<"core.autocrlf", NoDriver>>
Algorithm == <<"diff.algorithm", NoDriver>>
Clean(d) == <<"filter.clean", d>>
Process(d) == <<"filter.process", d>>
Required(d) == <<"filter.required", d>>
FilterKeys == {"filter.clean", "filter.smudge", "filter.process", "filter.required"}

\* GIT_CONFIG_GLOBAL and GIT_CONFIG_SYSTEM name other files than the usual.
ConfigFiles == {"system", "located system", "global", "located global",
                "repository", "other repository", "injected"}

PINNED_CONFIG == [k \in {Autocrlf, Algorithm} |-> IF k = Autocrlf THEN "false" ELSE "histogram"]
CONVERSION_CONFIG == {Autocrlf}
CONFIG_LOCATION_ENV == {"GIT_CONFIG_SYSTEM", "GIT_CONFIG_GLOBAL"}
SYSTEM_SUPPRESSION_ENV == {"GIT_CONFIG_NOSYSTEM"}
FORCED_ENV == {"GIT_CONFIG_NOSYSTEM", "GIT_NO_REPLACE_OBJECTS"}
\* Mutant: the commands are emptied and `required` is left alone.
EmptiedCommands(drivers) ==
    [k \in (FilterKeys \ {"filter.required"}) \X drivers |-> ""]
FILTER_NEUTRALIZATION(drivers) ==
    [k \in FilterKeys \X drivers |-> IF k[1] = "filter.required" THEN "false" ELSE ""]

(***************************************************************************)
(* What a spawn is given.  Mutant: a denylist that forgets the injected    *)
(* configuration.                                                          *)
(***************************************************************************)
SanitizeEnvDenylist(env, pinConversion) ==
    (env \ ({"GIT_DIR"} \cup (IF pinConversion THEN CONFIG_LOCATION_ENV ELSE {})))
    \cup (FORCED_ENV \ (IF pinConversion THEN {} ELSE SYSTEM_SUPPRESSION_ENV))

SanitizeEnv(env, pinConversion) ==
    (env \cap ({"GIT_EXEC_PATH"} \cup (IF pinConversion THEN {} ELSE CONFIG_LOCATION_ENV)))
    \cup (FORCED_ENV \ (IF pinConversion THEN {} ELSE SYSTEM_SUPPRESSION_ENV))

Pins(pinConversion, drivers) ==
    LET pinned == DOMAIN PINNED_CONFIG \ (IF pinConversion THEN {} ELSE CONVERSION_CONFIG)
        neutral == FILTER_NEUTRALIZATION(drivers)
    IN  [k \in pinned \cup DOMAIN neutral |->
           IF k \in pinned THEN PINNED_CONFIG[k] ELSE neutral[k]]

BuildCommand(pinConversion, drivers) ==
    [env |-> SanitizeEnv(inherited, pinConversion), pins |-> Pins(pinConversion, drivers)]

\* What the user's own `git` is given.
OwnCommand == [env |-> inherited, pins |-> <<>>]

(***************************************************************************)
(* Git: the files a command reads, the last of them first.                 *)
(***************************************************************************)
ReadBy(env) ==
    (IF "GIT_CONFIG_COUNT" \in env THEN <<"injected">> ELSE <<>>)
    \o <<IF "GIT_DIR" \in env THEN "other repository" ELSE "repository",
         IF "GIT_CONFIG_GLOBAL" \in env THEN "located global" ELSE "global">>
    \o (IF "GIT_CONFIG_NOSYSTEM" \in env THEN <<>>
        ELSE <<IF "GIT_CONFIG_SYSTEM" \in env THEN "located system" ELSE "system">>)

FilesRead(command) == {ReadBy(command.env)[i] : i \in DOMAIN ReadBy(command.env)}

Resolve(command, key) ==
    LET files == ReadBy(command.env)
        says == {i \in DOMAIN files : key \in DOMAIN config[files[i]]}
    IN  IF key \in DOMAIN command.pins THEN command.pins[key]
        ELSE IF says = {} THEN Unset
        ELSE config[files[CHOOSE i \in says : \A j \in says : i <= j]][key]

DriversIn(command) ==
    {d \in Drivers : \E f \in FilesRead(command), k \in FilterKeys : <<k, d>> \in DOMAIN config[f]}

\* Reading a file of the work tree runs the process or the clean command of its
\* driver; a driver that is required and has neither makes the reading fail.
Runs(command) ==
    {d \in {attribute} \ {NoDriver} :
       \E key \in {Clean(d), Process(d)} : Resolve(command, key) \notin {Unset, ""}}
FailsFor(command) ==
    {d \in {attribute} \ {NoDriver} : Resolve(command, Required(d)) = "true"} \ Runs(command)

------------------------------------------------------------------------------
NotOpen == [state |-> "closed", drivers |-> {}]

GitInit ==
    /\ config \in Configurations
    /\ inherited \in Environments
    /\ attribute \in Drivers \cup {NoDriver}
    /\ handle = NotOpen
    /\ answers = {}
    /\ ran = {}
    /\ edits = 0

ConfiguredFilterDrivers == DriversIn(BuildCommand(FALSE, {}))

\* Git::open: a name that cannot be a -c key refuses the repository.
OpenGit ==
    /\ handle.state = "closed"
    /\ handle' = IF ConfiguredFilterDrivers \cap Unpinnable # {}
                 THEN [state |-> "refused", drivers |-> {}]
                 ELSE [state |-> "open", drivers |-> ConfiguredFilterDrivers]
    /\ UNCHANGED <<config, inherited, attribute, answers, ran, edits>>

\* A spawn that reads the files: `status` or `hash-object`.
Spawn(pinConversion) ==
    /\ handle.state = "open"
    /\ LET command == BuildCommand(pinConversion, handle.drivers) IN
       /\ answers' = answers \cup
            {[pinned |-> pinConversion,
              conversion |-> Resolve(command, Autocrlf),
              own |-> Resolve(OwnCommand, Autocrlf),
              algorithm |-> Resolve(command, Algorithm),
              fails |-> FailsFor(command),
              repository |-> ReadBy(command.env)[1]]}
       /\ ran' = ran \cup Runs(command)
    /\ UNCHANGED <<config, inherited, attribute, handle, edits>>

\* filtered_paths: whose declared filter did not run.
FilteredPaths == {attribute} \cap handle.drivers

EditConfig(f, content) ==
    /\ edits < MaxEdits
    /\ content # config[f]
    /\ config' = [config EXCEPT ![f] = content]
    /\ edits' = edits + 1
    /\ UNCHANGED <<inherited, attribute, handle, answers, ran>>

GitNext ==
    \/ OpenGit
    \/ \E pinConversion \in BOOLEAN : Spawn(pinConversion)
    \/ \E f \in {"repository", "global"}, content \in Contents : EditConfig(f, content)

GitSpec == GitInit /\ [][GitNext]_gitVars

------------------------------------------------------------------------------
(* Two machines with one repository are answered alike, however each is     *)
(* configured and whatever it exports: a pinned spawn reads this repository *)
(* with the pinned conversion and diff; and the spawn that asks whether a   *)
(* file was edited is answered in the conversion the user's own git used,   *)
(* as long as the caller's environment does not override that git.          *)
AnswersAreOfTheRepository ==
    \A a \in answers :
        /\ a.repository = "repository"
        /\ a.algorithm = PINNED_CONFIG[Algorithm]
        /\ a.pinned => a.conversion = PINNED_CONFIG[Autocrlf]
        /\ ~ a.pinned /\ inherited \cap {"GIT_CONFIG_COUNT", "GIT_DIR", "GIT_CONFIG_NOSYSTEM"} = {}
             => a.conversion = a.own

(* A driver the repository was opened with never runs and never makes a     *)
(* reading fail, whatever is exported and however the configuration is      *)
(* edited while the repository is open.                                     *)
KnownFiltersStayInert ==
    /\ ran \cap handle.drivers = {}
    /\ \A a \in answers : a.fails \cap handle.drivers = {}

(* No driver at all runs or is missed, and a file whose filter was left out *)
(* is disclosed, only where every spawn reads the files the drivers were    *)
(* read from: nobody edits one afterwards, and the caller does not export   *)
(* GIT_CONFIG_GLOBAL, which the enumeration follows and the pinned spawns   *)
(* do not (DriversAreTheUnion fails without it).                            *)
FiltersStayInert ==
    edits = 0 /\ "GIT_CONFIG_GLOBAL" \notin inherited /\ handle.state = "open" =>
        /\ ran = {}
        /\ \A a \in answers : a.fails = {}
        /\ Runs([env |-> SanitizeEnv(inherited, TRUE), pins |-> <<>>]) \subseteq FilteredPaths

(* What a spawned git answers is of the repository and the pinned           *)
(* configuration, whatever the machine and the caller's environment say; no *)
(* filter it knows of runs in it, and none at all in a configuration that   *)
(* stays and is not moved (git/command.rs, sanitize_env and                 *)
(* configured_filter_drivers).                                              *)
GitIsPinned == AnswersAreOfTheRepository /\ KnownFiltersStayInert /\ FiltersStayInert

(* The claim of command.rs: the enumeration reads the widest scope any      *)
(* spawn loads, so its names are the union of the drivers of them all and   *)
(* no filter runs in a configuration nobody edits.                          *)
DriversAreTheUnion == edits = 0 => ran = {}
=============================================================================
