--------------------------- MODULE Engines_proofs ---------------------------
(***************************************************************************)
(* What every measurement rests on: the git it spawns answers from the     *)
(* repository and the pinned configuration, for every configuration and    *)
(* environment, and runs no filter it knows of; and the reads of the one   *)
(* cat-file process stay in step with it, for any objects and any number   *)
(* of reads, wherever it dies.  What the process engine keeps of history:  *)
(* measurements of one commit never contradict each other, whatever the    *)
(* clones held, fetched or had cached.  What the ledger's statistics say   *)
(* is what its records hold, whatever is written meanwhile.  The dates     *)
(* the records are filed under: every day has one number, in any year.     *)
(* What `andon init` said it did to the files of others.  And what an      *)
(* agent is told of a record within its budget.                            *)
(***************************************************************************)
EXTENDS GitRunner, BlobBatch, HistoryCache, LedgerStats, Calendar, Integration, AgentSurface,
        Induction

(***************************************************************************)
(* GIT IS PINNED                                                           *)
(***************************************************************************)

Global == IF "GIT_CONFIG_GLOBAL" \in inherited THEN "located global" ELSE "global"
System == IF "GIT_CONFIG_SYSTEM" \in inherited THEN "located system" ELSE "system"

(* The opened repository knows the drivers a spawn that is not pinned could *)
(* load, until somebody edits the configuration; before it is opened        *)
(* nothing was spawned.                                                     *)
DriversAreKnown ==
    /\ handle.state \in {"closed", "refused", "open"}
    /\ handle.state # "open" => answers = {} /\ ran = {}
    /\ handle.state = "open" /\ edits = 0 => handle.drivers = ConfiguredFilterDrivers

(* Nothing ran and nothing failed for want of a filter.                     *)
NothingRan ==
    edits = 0 /\ "GIT_CONFIG_GLOBAL" \notin inherited =>
        ran = {} /\ \A a \in answers : a.fails = {}

GitInv ==
    /\ edits \in Nat
    /\ attribute \in Drivers \cup {NoDriver}
    /\ DriversAreKnown
    /\ KnownFiltersStayInert
    /\ NothingRan
    /\ AnswersAreOfTheRepository

LEMMA Concatenated ==
    ASSUME NEW a, NEW b, NEW c
    PROVE  (<<>> \o <<a, b>>) \o <<c>> = <<a, b, c>>
<1> DEFINE S == {a, b, c}
           s == <<a, b>> \o <<c>>
           t == <<a, b, c>>
<1>1. <<>> \o <<a, b>> = <<a, b>>
    <2>1. <<a, b>> \in Seq(S)
        OBVIOUS
    <2> QED BY <2>1, ConcatEmptySeq
<1>2. s \in Seq(S) /\ t \in Seq(S) /\ Len(s) = 3 /\ Len(t) = 3
    OBVIOUS
<1>3. \A i \in 1..3 : s[i] = t[i]
    <2>1. s[1] = a /\ s[2] = b /\ s[3] = c
        OBVIOUS
    <2> QED BY <2>1
<1>4. s = t
    <2> HIDE DEF s, t
    <2> QED BY <1>2, <1>3, SeqEqual
<1> QED BY <1>1, <1>4

(* Which files a spawn reads, in the order in which they win.               *)
LEMMA ReadByThree ==
    ASSUME NEW env,
           "GIT_CONFIG_COUNT" \notin env, "GIT_DIR" \notin env, "GIT_CONFIG_NOSYSTEM" \notin env
    PROVE  ReadBy(env) = <<"repository",
                           IF "GIT_CONFIG_GLOBAL" \in env THEN "located global" ELSE "global",
                           IF "GIT_CONFIG_SYSTEM" \in env THEN "located system" ELSE "system">>
<1> DEFINE g == IF "GIT_CONFIG_GLOBAL" \in env THEN "located global" ELSE "global"
           s == IF "GIT_CONFIG_SYSTEM" \in env THEN "located system" ELSE "system"
<1>1. ReadBy(env) = (<<>> \o <<"repository", g>>) \o <<s>>
    BY DEF ReadBy
<1> HIDE DEF g, s
<1>2. ReadBy(env) = <<"repository", g, s>>
    BY <1>1, Concatenated
<1> QED BY <1>2 DEF g, s

LEMMA PinnedReads ==
    ASSUME NEW drivers
    PROVE  ReadBy(BuildCommand(TRUE, drivers).env) = <<"repository", "global">>
<1> DEFINE env == SanitizeEnv(inherited, TRUE)
<1>1. /\ "GIT_CONFIG_COUNT" \notin env /\ "GIT_DIR" \notin env
      /\ "GIT_CONFIG_GLOBAL" \notin env /\ "GIT_CONFIG_NOSYSTEM" \in env
    BY DEF SanitizeEnv, FORCED_ENV
<1>2. ReadBy(env) = <<"repository", "global">>
    <2> HIDE DEF env
    <2> QED BY <1>1 DEF ReadBy
<1> QED BY <1>2 DEF BuildCommand

LEMMA CheckoutReads ==
    ASSUME NEW drivers
    PROVE  ReadBy(BuildCommand(FALSE, drivers).env) = <<"repository", Global, System>>
<1> DEFINE env == SanitizeEnv(inherited, FALSE)
<1>1. /\ "GIT_CONFIG_COUNT" \notin env /\ "GIT_DIR" \notin env
      /\ "GIT_CONFIG_GLOBAL" \in env <=> "GIT_CONFIG_GLOBAL" \in inherited
      /\ "GIT_CONFIG_SYSTEM" \in env <=> "GIT_CONFIG_SYSTEM" \in inherited
      /\ "GIT_CONFIG_NOSYSTEM" \notin env
    BY DEF SanitizeEnv, FORCED_ENV, CONFIG_LOCATION_ENV, SYSTEM_SUPPRESSION_ENV
<1>2. ReadBy(env) = <<"repository", Global, System>>
    <2> HIDE DEF env
    <2> QED BY <1>1, ReadByThree DEF Global, System
<1> QED BY <1>2 DEF BuildCommand

LEMMA OwnReads ==
    ASSUME inherited \cap {"GIT_CONFIG_COUNT", "GIT_DIR", "GIT_CONFIG_NOSYSTEM"} = {}
    PROVE  ReadBy(OwnCommand.env) = <<"repository", Global, System>>
<1>1. /\ "GIT_CONFIG_COUNT" \notin inherited /\ "GIT_DIR" \notin inherited
      /\ "GIT_CONFIG_NOSYSTEM" \notin inherited
    OBVIOUS
<1> QED BY <1>1, ReadByThree DEF OwnCommand, Global, System

(* What is pinned: the two keys, the conversion only in pinned spawns, and  *)
(* every filter key of a known driver.                                      *)
LEMMA PinnedKeys ==
    ASSUME NEW pin \in BOOLEAN, NEW drivers
    PROVE  /\ BuildCommand(pin, drivers).pins = Pins(pin, drivers)
           /\ Algorithm \in DOMAIN Pins(pin, drivers)
           /\ Pins(pin, drivers)[Algorithm] = PINNED_CONFIG[Algorithm]
           /\ pin = TRUE => /\ Autocrlf \in DOMAIN Pins(pin, drivers)
                            /\ Pins(pin, drivers)[Autocrlf] = PINNED_CONFIG[Autocrlf]
           /\ pin = FALSE => Autocrlf \notin DOMAIN Pins(pin, drivers)
<1>1. /\ Algorithm # Autocrlf
      /\ DOMAIN PINNED_CONFIG = {Autocrlf, Algorithm}
    BY DEF Algorithm, Autocrlf, PINNED_CONFIG
<1>2. DOMAIN FILTER_NEUTRALIZATION(drivers) = FilterKeys \X drivers
    BY DEF FILTER_NEUTRALIZATION
<1>3. Autocrlf \notin FilterKeys \X drivers
    BY DEF Autocrlf, FilterKeys
<1> QED BY <1>1, <1>2, <1>3 DEF BuildCommand, Pins, CONVERSION_CONFIG

Neutral(key) == IF key = "filter.required" THEN "false" ELSE ""

LEMMA FilterPins ==
    ASSUME NEW pin \in BOOLEAN, NEW drivers, NEW key \in FilterKeys, NEW d
    PROVE  /\ d \in drivers =>
                /\ <<key, d>> \in DOMAIN Pins(pin, drivers)
                /\ Pins(pin, drivers)[<<key, d>>] = Neutral(key)
           /\ d \notin drivers => <<key, d>> \notin DOMAIN Pins(pin, drivers)
<1>1. <<key, d>> \notin {Autocrlf, Algorithm}
    BY DEF Autocrlf, Algorithm, FilterKeys
<1>2. DOMAIN PINNED_CONFIG = {Autocrlf, Algorithm}
    BY DEF PINNED_CONFIG
<1>3. DOMAIN FILTER_NEUTRALIZATION(drivers) = FilterKeys \X drivers
    BY DEF FILTER_NEUTRALIZATION
<1>4. ASSUME d \in drivers
      PROVE  FILTER_NEUTRALIZATION(drivers)[<<key, d>>]
                = Neutral(key)
    BY <1>4 DEF FILTER_NEUTRALIZATION, Neutral
<1> QED BY <1>1, <1>2, <1>3, <1>4 DEF Pins

(* No filter runs and none is missed: its keys are pinned, if its driver is *)
(* known, and said by no file the spawn reads, if it is not.                *)
LEMMA NoFilterRuns ==
    ASSUME "GIT_CONFIG_GLOBAL" \notin inherited,
           NEW pin \in BOOLEAN, attribute \in Drivers \cup {NoDriver}
    PROVE  /\ Runs(BuildCommand(pin, ConfiguredFilterDrivers)) = {}
           /\ FailsFor(BuildCommand(pin, ConfiguredFilterDrivers)) = {}
<1> DEFINE drivers == ConfiguredFilterDrivers
           spawned == BuildCommand(pin, drivers)
<1>1. FilesRead(spawned) \subseteq FilesRead(BuildCommand(FALSE, {}))
    <2>1. ReadBy(BuildCommand(FALSE, {}).env) = <<"repository", "global", System>>
        BY CheckoutReads DEF Global
    <2>2. \A i \in DOMAIN ReadBy(spawned.env) : ReadBy(spawned.env)[i] \in {"repository", "global", System}
        <3>1. CASE pin = TRUE
            <4>1. ReadBy(spawned.env) = <<"repository", "global">>
                BY <3>1, PinnedReads
            <4> HIDE DEF spawned
            <4> QED BY <4>1
        <3>2. CASE pin = FALSE
            <4>1. ReadBy(spawned.env) = <<"repository", "global", System>>
                BY <3>2, CheckoutReads DEF Global
            <4> HIDE DEF spawned
            <4> QED BY <4>1
        <3> QED BY <3>1, <3>2
    <2>3. {"repository", "global", System} \subseteq FilesRead(BuildCommand(FALSE, {}))
        <3> DEFINE checkout == BuildCommand(FALSE, {})
        <3>1. ReadBy(checkout.env) = <<"repository", "global", System>>
            BY <2>1
        <3> HIDE DEF checkout
        <3>2. \A i \in {1, 2, 3} : i \in DOMAIN ReadBy(checkout.env)
            BY <3>1
        <3>3. /\ ReadBy(checkout.env)[1] = "repository"
              /\ ReadBy(checkout.env)[2] = "global"
              /\ ReadBy(checkout.env)[3] = System
            BY <3>1
        <3>4. {"repository", "global", System} \subseteq FilesRead(checkout)
            BY <3>2, <3>3 DEF FilesRead
        <3> QED BY <3>4 DEF checkout
    <2> QED BY <2>2, <2>3 DEF FilesRead
<1>2. ASSUME NEW d \in {attribute} \ {NoDriver}, NEW key \in FilterKeys
      PROVE  Resolve(spawned, <<key, d>>)
                \in {Unset, Neutral(key)}
    <2>1. CASE d \in drivers
        <3>1. spawned.pins = Pins(pin, drivers)
            BY PinnedKeys
        <3>2. <<key, d>> \in DOMAIN Pins(pin, drivers)
            BY <2>1, FilterPins
        <3>3. Pins(pin, drivers)[<<key, d>>] = Neutral(key)
            BY <2>1, FilterPins
        <3> HIDE DEF spawned
        <3>4. Resolve(spawned, <<key, d>>) = Pins(pin, drivers)[<<key, d>>]
            BY <3>1, <3>2 DEF Resolve
        <3> QED BY <3>3, <3>4
    <2>2. CASE d \notin drivers
        <3>1. <<key, d>> \notin DOMAIN spawned.pins
            BY <2>2, FilterPins, PinnedKeys
        <3>2. d \in Drivers
            OBVIOUS
        <3>3. \A f \in FilesRead(spawned) : <<key, d>> \notin DOMAIN config[f]
            BY <1>1, <2>2, <3>2 DEF ConfiguredFilterDrivers, DriversIn
        <3>4. {i \in DOMAIN ReadBy(spawned.env) :
                 <<key, d>> \in DOMAIN config[ReadBy(spawned.env)[i]]} = {}
            BY <3>3 DEF FilesRead
        <3> QED BY <3>1, <3>4 DEF Resolve
    <2> QED BY <2>1, <2>2
<1>3. Runs(spawned) = {}
    BY <1>2 DEF Runs, Clean, Process, FilterKeys, Neutral
<1>4. FailsFor(spawned) = {}
    BY <1>2 DEF FailsFor, Required, FilterKeys, Unset, Neutral
<1> QED BY <1>3, <1>4

(* A driver whose keys are pinned neither runs nor is missed, whatever the  *)
(* files the spawn reads say.                                               *)
LEMMA KnownIsInert ==
    ASSUME NEW pin \in BOOLEAN, NEW drivers
    PROVE  /\ Runs(BuildCommand(pin, drivers)) \cap drivers = {}
           /\ FailsFor(BuildCommand(pin, drivers)) \cap drivers = {}
<1> DEFINE spawned == BuildCommand(pin, drivers)
<1>1. ASSUME NEW d \in drivers, NEW key \in FilterKeys
      PROVE  Resolve(spawned, <<key, d>>) = Neutral(key)
    <2>1. spawned.pins = Pins(pin, drivers)
        BY PinnedKeys
    <2>2. <<key, d>> \in DOMAIN Pins(pin, drivers)
        BY FilterPins
    <2>3. Pins(pin, drivers)[<<key, d>>] = Neutral(key)
        BY FilterPins
    <2> HIDE DEF spawned
    <2> QED BY <2>1, <2>2, <2>3 DEF Resolve
<1> HIDE DEF spawned
<1>2. Runs(spawned) \cap drivers = {}
    BY <1>1 DEF Runs, Clean, Process, FilterKeys, Neutral
<1>3. FailsFor(spawned) \cap drivers = {}
    BY <1>1 DEF FailsFor, Required, FilterKeys, Neutral
<1> QED BY <1>2, <1>3 DEF spawned

(* A spawn answers from this repository, pinned, and, where the conversion  *)
(* is left to the checkout, as the user's own git does.                     *)
LEMMA AnswerIsPinned ==
    ASSUME NEW pin \in BOOLEAN, NEW drivers
    PROVE  LET spawned == BuildCommand(pin, drivers) IN
           /\ ReadBy(spawned.env)[1] = "repository"
           /\ Resolve(spawned, Algorithm) = PINNED_CONFIG[Algorithm]
           /\ pin = TRUE => Resolve(spawned, Autocrlf) = PINNED_CONFIG[Autocrlf]
           /\ pin = FALSE
                /\ inherited \cap {"GIT_CONFIG_COUNT", "GIT_DIR", "GIT_CONFIG_NOSYSTEM"} = {}
                => Resolve(spawned, Autocrlf) = Resolve(OwnCommand, Autocrlf)
<1> DEFINE spawned == BuildCommand(pin, drivers)
<1>1. ReadBy(spawned.env)[1] = "repository"
    <2>1. CASE pin = TRUE
        <3>1. ReadBy(spawned.env) = <<"repository", "global">>
            BY <2>1, PinnedReads
        <3> HIDE DEF spawned
        <3> QED BY <3>1
    <2>2. CASE pin = FALSE
        <3>1. ReadBy(spawned.env) = <<"repository", Global, System>>
            BY <2>2, CheckoutReads
        <3> HIDE DEF spawned
        <3> QED BY <3>1
    <2> QED BY <2>1, <2>2
<1>2. Resolve(spawned, Algorithm) = PINNED_CONFIG[Algorithm]
    BY PinnedKeys DEF Resolve
<1>3. pin = TRUE => Resolve(spawned, Autocrlf) = PINNED_CONFIG[Autocrlf]
    BY PinnedKeys DEF Resolve
<1>4. ASSUME pin = FALSE,
             inherited \cap {"GIT_CONFIG_COUNT", "GIT_DIR", "GIT_CONFIG_NOSYSTEM"} = {}
      PROVE  Resolve(spawned, Autocrlf) = Resolve(OwnCommand, Autocrlf)
    <2>1. ReadBy(spawned.env) = ReadBy(OwnCommand.env)
        BY <1>4, CheckoutReads, OwnReads
    <2>2. Autocrlf \notin DOMAIN spawned.pins
        BY <1>4, PinnedKeys
    <2>3. Autocrlf \notin DOMAIN OwnCommand.pins
        BY DEF OwnCommand
    <2> HIDE DEF spawned
    <2> QED BY <2>1, <2>2, <2>3 DEF Resolve
<1> QED BY <1>1, <1>2, <1>3, <1>4

(* A file whose driver a pinned spawn would meet is disclosed.              *)
LEMMA FiltersAreDisclosed ==
    ASSUME "GIT_CONFIG_GLOBAL" \notin inherited, attribute \in Drivers \cup {NoDriver},
           handle.drivers = ConfiguredFilterDrivers
    PROVE  Runs([env |-> SanitizeEnv(inherited, TRUE), pins |-> <<>>]) \subseteq FilteredPaths
<1> DEFINE bare == [env |-> SanitizeEnv(inherited, TRUE), pins |-> <<>>]
<1>1. ReadBy(bare.env) = <<"repository", "global">>
    BY PinnedReads DEF BuildCommand
<1>2. ReadBy(BuildCommand(FALSE, {}).env) = <<"repository", "global", System>>
    BY CheckoutReads DEF Global
<1>3. SUFFICES ASSUME NEW d \in Runs(bare) PROVE d \in FilteredPaths
    OBVIOUS
<1>4. d = attribute /\ d \in Drivers
    BY DEF Runs
<1>5. PICK key \in {Clean(d), Process(d)} : Resolve(bare, key) # Unset
    BY DEF Runs
<1>6. \E i \in DOMAIN ReadBy(bare.env) : key \in DOMAIN config[ReadBy(bare.env)[i]]
    <2>1. key \notin DOMAIN bare.pins
        OBVIOUS
    <2> HIDE DEF bare
    <2> QED BY <1>5, <2>1 DEF Resolve
<1>7. key \in DOMAIN config["repository"] \/ key \in DOMAIN config["global"]
    <2> HIDE DEF bare
    <2> QED BY <1>1, <1>6
<1>8. "repository" \in FilesRead(BuildCommand(FALSE, {})) /\ "global" \in FilesRead(BuildCommand(FALSE, {}))
    <2> DEFINE checkout == BuildCommand(FALSE, {})
    <2>1. ReadBy(checkout.env) = <<"repository", "global", System>>
        BY <1>2
    <2> HIDE DEF checkout
    <2>2. /\ 1 \in DOMAIN ReadBy(checkout.env) /\ 2 \in DOMAIN ReadBy(checkout.env)
          /\ ReadBy(checkout.env)[1] = "repository" /\ ReadBy(checkout.env)[2] = "global"
        BY <2>1
    <2>3. "repository" \in FilesRead(checkout) /\ "global" \in FilesRead(checkout)
        BY <2>2 DEF FilesRead
    <2> QED BY <2>3 DEF checkout
<1>9. d \in ConfiguredFilterDrivers
    BY <1>4, <1>7, <1>8 DEF ConfiguredFilterDrivers, DriversIn, Clean, Process, FilterKeys
<1> QED BY <1>4, <1>9 DEF FilteredPaths

LEMMA GitStarts == ASSUME GitInit PROVE GitInv
BY DEF GitInit, GitInv, DriversAreKnown, KnownFiltersStayInert, NothingRan,
       AnswersAreOfTheRepository, NotOpen

LEMMA GitKept == ASSUME GitInv, [GitNext]_gitVars PROVE GitInv'
<1> USE DEF GitInv
<1>1. CASE OpenGit
    <2>1. /\ UNCHANGED <<config, inherited, attribute, answers, ran, edits>>
          /\ handle.state = "closed"
        BY <1>1 DEF OpenGit
    <2>2. /\ handle'.state \in {"refused", "open"}
          /\ handle'.state = "open" => handle'.drivers = ConfiguredFilterDrivers
        BY <1>1 DEF OpenGit
    <2>3. ConfiguredFilterDrivers' = ConfiguredFilterDrivers
        BY <2>1 DEF ConfiguredFilterDrivers, DriversIn, FilesRead, BuildCommand
    <2>4. DriversAreKnown'
        BY <2>1, <2>2, <2>3 DEF DriversAreKnown
    <2>5. NothingRan' /\ AnswersAreOfTheRepository'
        BY <2>1 DEF NothingRan, AnswersAreOfTheRepository
    <2>6. KnownFiltersStayInert'
        BY <2>1 DEF DriversAreKnown, KnownFiltersStayInert
    <2> QED BY <2>1, <2>4, <2>5, <2>6
<1>2. ASSUME NEW pin \in BOOLEAN, Spawn(pin) PROVE GitInv'
    <2> DEFINE spawned == BuildCommand(pin, handle.drivers)
               answer == [pinned |-> pin,
                          conversion |-> Resolve(spawned, Autocrlf),
                          own |-> Resolve(OwnCommand, Autocrlf),
                          algorithm |-> Resolve(spawned, Algorithm),
                          fails |-> FailsFor(spawned),
                          repository |-> ReadBy(spawned.env)[1]]
    <2>1. /\ handle.state = "open"
          /\ UNCHANGED <<config, inherited, attribute, handle, edits>>
        BY <1>2 DEF Spawn
    <2>2. answers' = answers \cup {answer} /\ ran' = ran \cup Runs(spawned)
        BY <1>2 DEF Spawn
    <2>3. /\ answer.repository = "repository"
          /\ answer.algorithm = PINNED_CONFIG[Algorithm]
          /\ answer.pinned = TRUE => answer.conversion = PINNED_CONFIG[Autocrlf]
          /\ answer.pinned = FALSE
               /\ inherited \cap {"GIT_CONFIG_COUNT", "GIT_DIR", "GIT_CONFIG_NOSYSTEM"} = {}
               => answer.conversion = answer.own
          /\ answer.pinned \in BOOLEAN
          /\ answer.fails = FailsFor(spawned)
        BY AnswerIsPinned
    <2>4. AnswersAreOfTheRepository'
        <3> HIDE DEF answer
        <3> QED BY <2>1, <2>2, <2>3 DEF AnswersAreOfTheRepository
    <2>5. NothingRan'
        <3>1. SUFFICES ASSUME edits' = 0, "GIT_CONFIG_GLOBAL" \notin inherited'
              PROVE  ran' = {} /\ \A a \in answers' : a.fails = {}
            BY DEF NothingRan
        <3>2. handle.drivers = ConfiguredFilterDrivers
            BY <2>1, <3>1 DEF DriversAreKnown
        <3>3. Runs(spawned) = {} /\ FailsFor(spawned) = {}
            BY <2>1, <3>1, <3>2, NoFilterRuns
        <3> HIDE DEF answer, spawned
        <3> QED BY <2>1, <2>2, <2>3, <3>1, <3>3 DEF NothingRan
    <2>6. DriversAreKnown'
        <3>1. ConfiguredFilterDrivers' = ConfiguredFilterDrivers
            BY <2>1 DEF ConfiguredFilterDrivers, DriversIn, FilesRead, BuildCommand
        <3> QED BY <2>1, <3>1 DEF DriversAreKnown
    <2>7. KnownFiltersStayInert'
        <3>1. /\ Runs(spawned) \cap handle.drivers = {}
              /\ FailsFor(spawned) \cap handle.drivers = {}
            BY KnownIsInert
        <3> HIDE DEF answer, spawned
        <3> QED BY <2>1, <2>2, <2>3, <3>1 DEF KnownFiltersStayInert
    <2> QED BY <2>1, <2>4, <2>5, <2>6, <2>7
<1>3. ASSUME NEW f, NEW content, EditConfig(f, content) PROVE GitInv'
    BY <1>3 DEF EditConfig, DriversAreKnown, KnownFiltersStayInert, NothingRan, AnswersAreOfTheRepository
<1>4. CASE UNCHANGED gitVars
    <2>1. ConfiguredFilterDrivers' = ConfiguredFilterDrivers
        BY <1>4 DEF gitVars, ConfiguredFilterDrivers, DriversIn, FilesRead, BuildCommand
    <2> QED BY <1>4, <2>1 DEF gitVars, DriversAreKnown, KnownFiltersStayInert, NothingRan,
                              AnswersAreOfTheRepository
<1> QED BY <1>1, <1>2, <1>3, <1>4 DEF GitNext

(* What a spawned git answers is of the repository and of the pinned        *)
(* configuration, and no filter the repository was opened with runs in it,  *)
(* whatever configuration, attributes and environment it meets and however  *)
(* the configuration is edited meanwhile; no filter at all, where the       *)
(* configuration stays and GIT_CONFIG_GLOBAL is not exported                *)
(* (git/command.rs).                                                        *)
THEOREM GitStaysPinned == GitSpec => []GitIsPinned
<1>1. ASSUME GitInv PROVE GitIsPinned
    <2>1. AnswersAreOfTheRepository /\ KnownFiltersStayInert
        BY <1>1 DEF GitInv
    <2>2. ASSUME edits = 0, "GIT_CONFIG_GLOBAL" \notin inherited, handle.state = "open"
          PROVE  /\ ran = {}
                 /\ \A a \in answers : a.fails = {}
                 /\ Runs([env |-> SanitizeEnv(inherited, TRUE), pins |-> <<>>]) \subseteq FilteredPaths
        BY <1>1, <2>2, FiltersAreDisclosed DEF GitInv, NothingRan, DriversAreKnown
    <2> QED BY <2>1, <2>2 DEF GitIsPinned, FiltersStayInert
<1> QED BY <1>1, GitStarts, GitKept, PTL DEF GitSpec

(***************************************************************************)
(* READS STAY IN STEP                                                      *)
(***************************************************************************)

(* What a read may end with.                                                *)
TrueReads ==
    {r \in [asked : Names \cup Hexadecimal, content : Names \cup Hexadecimal \cup {NoContent},
            result : {"content", "missing", "not a blob", "protocol", "closed", "broken"},
            origin : {"blob", "worktree"}] :
        /\ r.origin = "blob" /\ r.result = "content" =>
               /\ r.content = r.asked
               /\ r.asked \in DOMAIN ObjectKind /\ ObjectKind[r.asked] = "blob"
        /\ r.result = "missing" => r.asked \notin DOMAIN ObjectKind
        /\ r.result = "not a blob" =>
               r.asked \in DOMAIN ObjectKind /\ ObjectKind[r.asked] # "blob"
        /\ r.result = "protocol" => r.asked \notin Hexadecimal \/ r.asked \in Ambiguous}

BodyOf(name)    == [part |-> "body", name |-> name, says |-> NoContent]
NewlineOf(name) == [part |-> "newline", name |-> name, says |-> NoContent]

(* The reply to one question, whole or as far as a dying process wrote it.  *)
Written(name) ==
    IF name \in DOMAIN ObjectKind
    THEN {<<HeaderOf(name), BodyOf(name), NewlineOf(name)>>} \cup
         (IF alive = TRUE THEN {} ELSE {<<HeaderOf(name), BodyOf(name)>>})
    ELSE {<<HeaderOf(name)>>}

NothingOpen == reader = Between /\ pipe = <<>> /\ asked = <<>>

HeaderIsNext ==
    \E name \in Hexadecimal :
        /\ reader = [at |-> "header", name |-> name]
        /\ \/ pipe = <<>> /\ asked = <<name>> /\ alive = TRUE
           \/ pipe = <<>> /\ asked = <<>> /\ alive = FALSE
           \/ pipe \in Written(name) /\ asked = <<>>

BodyIsNext ==
    \E name \in DOMAIN ObjectKind :
        /\ reader = [at |-> "body", name |-> name, says |-> ObjectKind[name]]
        /\ asked = <<>>
        /\ \/ pipe = <<BodyOf(name), NewlineOf(name)>>
           \/ alive = FALSE /\ pipe \in {<<>>, <<BodyOf(name)>>}

(* One question is under way at most, and what the pipe holds is what is    *)
(* left of its answer.                                                      *)
BlobInv ==
    /\ alive \in BOOLEAN
    /\ reads \in Seq(TrueReads)
    /\ NothingOpen \/ HeaderIsNext \/ BodyIsNext

LEMMA Fronts ==
    ASSUME NEW a, NEW b, NEW c
    PROVE  /\ Front(<<a>>) = <<>>
           /\ Front(<<a, b>>) = <<a>>
           /\ Front(<<a, b, c>>) = <<a, b>>
<1>1. Front(<<a>>) = <<>>
    BY DEF Front
<1>2. Front(<<a, b>>) = <<a>>
    <2> DEFINE s == <<a, b>>
    <2>1. s \in Seq({a, b}) /\ Len(s) = 2 /\ s[1] = a
        OBVIOUS
    <2> HIDE DEF s
    <2>2. Front(s) = SubSeq(s, 1, 1)
        BY <2>1 DEF Front
    <2>3. Front(s) = <<a>>
        <3>1. \A i \in 1..1 : s[i] \in {a, b}
            BY <2>1, ElementOfSeq
        <3>2. /\ Front(s) \in Seq({a, b}) /\ Len(Front(s)) = 1
              /\ \A i \in 1..1 : Front(s)[i] = s[i]
            BY <2>2, <3>1, SubSeqProperties
        <3>3. <<a>> \in Seq({a, b}) /\ Len(<<a>>) = 1 /\ \A i \in 1..1 : <<a>>[i] = s[i]
            BY <2>1
        <3> QED BY <3>2, <3>3, SeqEqual
    <2> QED BY <2>3 DEF s
<1>3. Front(<<a, b, c>>) = <<a, b>>
    <2> DEFINE s == <<a, b, c>>
    <2>1. s \in Seq({a, b, c}) /\ Len(s) = 3 /\ s[1] = a /\ s[2] = b
        OBVIOUS
    <2> HIDE DEF s
    <2>2. Front(s) = SubSeq(s, 1, 2)
        BY <2>1 DEF Front
    <2>3. Front(s) = <<a, b>>
        <3>1. \A i \in 1..2 : s[i] \in {a, b, c}
            BY <2>1, ElementOfSeq
        <3>2. /\ Front(s) \in Seq({a, b, c}) /\ Len(Front(s)) = 2
              /\ \A i \in 1..2 : Front(s)[i] = s[i]
            BY <2>2, <3>1, SubSeqProperties
        <3>3. <<a, b>> \in Seq({a, b, c}) /\ Len(<<a, b>>) = 2 /\ \A i \in 1..2 : <<a, b>>[i] = s[i]
            BY <2>1
        <3> QED BY <3>2, <3>3, SeqEqual
    <2> QED BY <2>3 DEF s
<1> QED BY <1>1, <1>2, <1>3

LEMMA Tails ==
    ASSUME NEW a, NEW b, NEW c
    PROVE  /\ Head(<<a>>) = a /\ Tail(<<a>>) = <<>>
           /\ Head(<<a, b>>) = a /\ Tail(<<a, b>>) = <<b>>
           /\ Head(<<a, b, c>>) = a /\ Tail(<<a, b, c>>) = <<b, c>>
           /\ Tail(Tail(<<a, b>>)) = <<>>
OBVIOUS

LEMMA Replies ==
    ASSUME NEW name \in Hexadecimal
    PROVE  <<>> \o ReplyTo(name) = IF name \in DOMAIN ObjectKind
                                   THEN <<HeaderOf(name), BodyOf(name), NewlineOf(name)>>
                                   ELSE <<HeaderOf(name)>>
<1> DEFINE h == HeaderOf(name)
           b == BodyOf(name)
           n == NewlineOf(name)
<1>1. /\ <<>> \o (<<h>> \o <<>>) = <<h>>
      /\ <<>> \o (<<h>> \o <<b, n>>) = <<h, b, n>>
    <2> HIDE DEF h, b, n
    <2>1. <<h>> \in Seq({h, b, n}) /\ <<b, n>> \in Seq({h, b, n}) /\ <<h, b, n>> \in Seq({h, b, n})
        OBVIOUS
    <2>2. <<h>> \o <<b, n>> = <<h, b, n>>
        <3> DEFINE s == <<h>> \o <<b, n>>
                   t == <<h, b, n>>
        <3>1. s \in Seq({h, b, n}) /\ t \in Seq({h, b, n}) /\ Len(s) = 3 /\ Len(t) = 3
            OBVIOUS
        <3>2. s[1] = h /\ s[2] = b /\ s[3] = n /\ t[1] = h /\ t[2] = b /\ t[3] = n
            OBVIOUS
        <3>3. \A i \in 1..3 : s[i] = t[i]
            BY <3>2
        <3>4. s = t
            <4> HIDE DEF s, t
            <4> QED BY <3>1, <3>3, SeqEqual
        <3> QED BY <3>4
    <2> QED BY <2>1, <2>2, ConcatEmptySeq
<1>2. CASE name \in DOMAIN ObjectKind
    <2>1. h.says \notin {"missing", "ambiguous"}
        BY <1>2, BlobAssumption DEF HeaderOf
    <2> QED BY <1>1, <1>2, <2>1 DEF ReplyTo, BodyOf, NewlineOf
<1>3. CASE name \notin DOMAIN ObjectKind
    <2>1. h.says \in {"missing", "ambiguous"}
        BY <1>3 DEF HeaderOf
    <2> QED BY <1>1, <1>3, <2>1 DEF ReplyTo
<1> QED BY <1>2, <1>3

(* What is under way is told by the reader.                                 *)
LEMMA UnderWay ==
    ASSUME BlobInv
    PROVE  /\ reader = Between => NothingOpen
           /\ reader.at = "header" => HeaderIsNext
           /\ reader.at = "body" => BodyIsNext
<1>1. NothingOpen => reader.at = "between"
    BY DEF NothingOpen, Between
<1>2. HeaderIsNext => reader.at = "header"
    BY DEF HeaderIsNext
<1>3. BodyIsNext => reader.at = "body"
    BY DEF BodyIsNext
<1>4. reader = Between => reader.at = "between"
    BY DEF Between
<1> QED BY <1>1, <1>2, <1>3, <1>4 DEF BlobInv

(* A read that ends truly is one more true read.                            *)
LEMMA EndsTruly ==
    ASSUME reads \in Seq(TrueReads), NEW result, NEW content, EndRead(result, content),
           ReadOutcome(reader.name, result, content, "blob") \in TrueReads
    PROVE  reads' \in Seq(TrueReads) /\ reader' = Between
BY DEF EndRead

LEMMA AskKeeps ==
    ASSUME BlobInv, NEW name \in Names, Ask(name)
    PROVE  BlobInv'
<1>1. NothingOpen /\ pipe' = pipe /\ alive' = alive
    BY UnderWay DEF Ask
<1>2. CASE name \in Hexadecimal /\ alive
    <2>1. /\ reader' = [at |-> "header", name |-> name] /\ reads' = reads
          /\ asked' = <<name>> /\ alive = TRUE
        BY <1>1, <1>2 DEF Ask, NothingOpen, BlobInv
    <2> QED BY <1>1, <1>2, <2>1 DEF NothingOpen, HeaderIsNext, BlobInv
<1>3. CASE ~ (name \in Hexadecimal /\ alive)
    <2>1. PICK result \in {"protocol", "broken"} :
              /\ reads' = Append(reads, ReadOutcome(name, result, NoContent, "blob"))
              /\ result = "protocol" => name \notin Hexadecimal
              /\ asked' = asked /\ reader' = reader
        BY <1>3 DEF Ask
    <2>2. ReadOutcome(name, result, NoContent, "blob") \in TrueReads
        BY <2>1 DEF ReadOutcome, TrueReads
    <2>3. reads' \in Seq(TrueReads)
        BY <2>1, <2>2 DEF BlobInv
    <2> QED BY <1>1, <2>1, <2>3 DEF NothingOpen, BlobInv
<1> QED BY <1>2, <1>3

LEMMA AnswerKeeps ==
    ASSUME BlobInv, CatFileAnswers
    PROVE  BlobInv'
<1>1. PICK name \in Hexadecimal :
          /\ reader = [at |-> "header", name |-> name]
          /\ pipe = <<>> /\ asked = <<name>> /\ alive = TRUE
    BY DEF CatFileAnswers, BlobInv, NothingOpen, HeaderIsNext, BodyIsNext
<1>2. pipe' = <<>> \o ReplyTo(name) /\ asked' = <<>>
    BY <1>1 DEF CatFileAnswers
<1>3. reader' = reader /\ alive' = alive /\ reads' = reads
    BY DEF CatFileAnswers
<1>4. pipe' \in Written(name)'
    BY <1>2, Replies DEF Written, HeaderOf, BodyOf, NewlineOf
<1> QED BY <1>1, <1>2, <1>3, <1>4 DEF HeaderIsNext, BlobInv

LEMMA DeathKeeps ==
    ASSUME BlobInv, CatFileDies
    PROVE  BlobInv'
<1>1. alive = TRUE /\ alive' = FALSE /\ asked' = <<>> /\ reader' = reader /\ reads' = reads
    BY DEF CatFileDies, BlobInv
<1>2. pipe' = pipe \/ (pipe # <<>> /\ pipe' = Front(pipe))
    BY DEF CatFileDies
<1>3. CASE NothingOpen
    BY <1>1, <1>2, <1>3 DEF NothingOpen, BlobInv
<1>4. CASE HeaderIsNext
    <2>1. PICK name \in Hexadecimal :
              /\ reader = [at |-> "header", name |-> name]
              /\ pipe = <<>> \/ pipe \in Written(name)
        BY <1>4 DEF HeaderIsNext
    <2>2. pipe' = <<>> \/ pipe' \in Written(name)'
        <3>1. CASE pipe = <<>>
            BY <1>2, <3>1
        <3>2. CASE pipe \in Written(name) /\ name \in DOMAIN ObjectKind
            <4>1. pipe = <<HeaderOf(name), BodyOf(name), NewlineOf(name)>>
                BY <1>1, <3>2 DEF Written
            <4>2. Front(pipe) = <<HeaderOf(name), BodyOf(name)>>
                BY <4>1, Fronts
            <4>3. Written(name)' = {<<HeaderOf(name), BodyOf(name), NewlineOf(name)>>,
                                    <<HeaderOf(name), BodyOf(name)>>}
                BY <1>1, <3>2 DEF Written, HeaderOf, BodyOf, NewlineOf
            <4> QED BY <1>2, <4>1, <4>2, <4>3
        <3>3. CASE pipe \in Written(name) /\ name \notin DOMAIN ObjectKind
            <4>1. pipe = <<HeaderOf(name)>>
                BY <3>3 DEF Written
            <4>2. Front(pipe) = <<>>
                BY <4>1, Fronts
            <4>3. Written(name)' = {<<HeaderOf(name)>>}
                BY <3>3 DEF Written, HeaderOf
            <4> QED BY <1>2, <4>1, <4>2, <4>3
        <3> QED BY <2>1, <3>1, <3>2, <3>3
    <2>3. HeaderIsNext'
        BY <1>1, <2>1, <2>2 DEF HeaderIsNext
    <2> QED BY <1>1, <2>3 DEF BlobInv
<1>5. CASE BodyIsNext
    <2>1. PICK name \in DOMAIN ObjectKind :
              /\ reader = [at |-> "body", name |-> name, says |-> ObjectKind[name]]
              /\ pipe = <<BodyOf(name), NewlineOf(name)>>
        BY <1>1, <1>5 DEF BodyIsNext
    <2>2. Front(pipe) = <<BodyOf(name)>>
        BY <2>1, Fronts
    <2>3. BodyIsNext'
        BY <1>1, <1>2, <2>1, <2>2 DEF BodyIsNext, BodyOf, NewlineOf
    <2> QED BY <1>1, <2>3 DEF BlobInv
<1> QED BY <1>3, <1>4, <1>5 DEF BlobInv

LEMMA HeaderKeeps ==
    ASSUME BlobInv, ReadHeader
    PROVE  BlobInv'
<1>1. PICK name \in Hexadecimal :
          /\ reader = [at |-> "header", name |-> name]
          /\ pipe \in Written(name) /\ asked = <<>>
    BY UnderWay DEF ReadHeader, HeaderIsNext
<1>2. pipe' = Tail(pipe) /\ asked' = asked /\ alive' = alive
    BY DEF ReadHeader
<1>3. CASE name \in DOMAIN ObjectKind
    <2>1. /\ Head(pipe) = HeaderOf(name)
          /\ \/ Tail(pipe) = <<BodyOf(name), NewlineOf(name)>>
             \/ alive = FALSE /\ Tail(pipe) = <<BodyOf(name)>>
        <3>1. \/ pipe = <<HeaderOf(name), BodyOf(name), NewlineOf(name)>>
              \/ alive = FALSE /\ pipe = <<HeaderOf(name), BodyOf(name)>>
            BY <1>1, <1>3 DEF Written, BlobInv
        <3>2. CASE pipe = <<HeaderOf(name), BodyOf(name), NewlineOf(name)>>
            BY <3>2, Tails
        <3>3. CASE alive = FALSE /\ pipe = <<HeaderOf(name), BodyOf(name)>>
            BY <3>3, Tails
        <3> QED BY <3>1, <3>2, <3>3
    <2>2. /\ HeaderOf(name).part = "header" /\ HeaderOf(name).says = ObjectKind[name]
          /\ ObjectKind[name] \in {"blob", "commit", "tree"}
        BY <1>3, BlobAssumption DEF HeaderOf
    <2>3. /\ reader' = [at |-> "body", name |-> reader.name, says |-> ObjectKind[name]]
          /\ reads' = reads
        BY <2>1, <2>2 DEF ReadHeader
    <2>4. BodyIsNext'
        BY <1>1, <1>2, <1>3, <2>1, <2>3 DEF BodyIsNext, BodyOf, NewlineOf
    <2> QED BY <1>2, <2>3, <2>4 DEF BlobInv
<1>4. CASE name \notin DOMAIN ObjectKind
    <2>1. Head(pipe) = HeaderOf(name) /\ Tail(pipe) = <<>>
        BY <1>1, <1>4, Tails DEF Written
    <2>2. /\ HeaderOf(name).part = "header"
          /\ HeaderOf(name).says = IF name \in Ambiguous THEN "ambiguous" ELSE "missing"
        BY <1>4 DEF HeaderOf
    <2>3. CASE name \in Ambiguous
        <3>1. EndRead("protocol", NoContent)
            BY <2>1, <2>2, <2>3 DEF ReadHeader
        <3>2. ReadOutcome(reader.name, "protocol", NoContent, "blob") \in TrueReads
            BY <1>1, <2>3 DEF ReadOutcome, TrueReads
        <3>3. reads' \in Seq(TrueReads) /\ reader' = Between
            BY <3>1, <3>2, EndsTruly DEF BlobInv
        <3> QED BY <1>1, <1>2, <2>1, <3>3 DEF NothingOpen, BlobInv, Between
    <2>4. CASE name \notin Ambiguous
        <3>1. EndRead("missing", NoContent)
            BY <2>1, <2>2, <2>4 DEF ReadHeader
        <3>2. ReadOutcome(reader.name, "missing", NoContent, "blob") \in TrueReads
            BY <1>1, <1>4 DEF ReadOutcome, TrueReads
        <3>3. reads' \in Seq(TrueReads) /\ reader' = Between
            BY <3>1, <3>2, EndsTruly DEF BlobInv
        <3> QED BY <1>1, <1>2, <2>1, <3>3 DEF NothingOpen, BlobInv, Between
    <2> QED BY <2>3, <2>4
<1> QED BY <1>3, <1>4

LEMMA BodyKeeps ==
    ASSUME BlobInv, ReadBody
    PROVE  BlobInv'
<1>1. PICK name \in DOMAIN ObjectKind :
          /\ reader = [at |-> "body", name |-> name, says |-> ObjectKind[name]]
          /\ asked = <<>>
          /\ pipe = <<BodyOf(name), NewlineOf(name)>> \/ pipe \in {<<>>, <<BodyOf(name)>>}
    BY UnderWay DEF ReadBody, BodyIsNext
<1>2. pipe = <<BodyOf(name), NewlineOf(name)>>
    <2>1. Len(pipe) >= 2
        BY DEF ReadBody
    <2>2. pipe # <<>>
        BY <2>1
    <2>3. pipe # <<BodyOf(name)>>
        <3>1. SUFFICES ASSUME pipe = <<BodyOf(name)>> PROVE FALSE
            OBVIOUS
        <3>2. Len(pipe) = 1
            BY <3>1
        <3> QED BY <2>1, <3>2
    <2> QED BY <1>1, <2>2, <2>3
<1>3. pipe[1].name = name /\ pipe[2].part = "newline" /\ Tail(Tail(pipe)) = <<>>
    BY <1>2, Tails DEF BodyOf, NewlineOf
<1>4. pipe' = <<>> /\ asked' = <<>> /\ alive' = alive
    BY <1>1, <1>3 DEF ReadBody
<1>5. name \in Hexadecimal
    BY BlobAssumption
<1>6. CASE ObjectKind[name] = "blob"
    <2>1. EndRead("content", name)
        BY <1>1, <1>3, <1>6 DEF ReadBody
    <2>2. ReadOutcome(reader.name, "content", name, "blob") \in TrueReads
        BY <1>1, <1>5, <1>6 DEF ReadOutcome, TrueReads
    <2>3. reads' \in Seq(TrueReads) /\ reader' = Between
        BY <2>1, <2>2, EndsTruly DEF BlobInv
    <2> QED BY <1>4, <2>3 DEF NothingOpen, BlobInv, Between
<1>7. CASE ObjectKind[name] # "blob"
    <2>1. EndRead("not a blob", NoContent)
        BY <1>1, <1>3, <1>7 DEF ReadBody
    <2>2. ReadOutcome(reader.name, "not a blob", NoContent, "blob") \in TrueReads
        BY <1>1, <1>5, <1>7 DEF ReadOutcome, TrueReads
    <2>3. reads' \in Seq(TrueReads) /\ reader' = Between
        BY <2>1, <2>2, EndsTruly DEF BlobInv
    <2> QED BY <1>4, <2>3 DEF NothingOpen, BlobInv, Between
<1> QED BY <1>6, <1>7

LEMMA EndKeeps ==
    ASSUME BlobInv, ReadEnds
    PROVE  BlobInv'
<1>1. alive = FALSE /\ alive' = alive /\ asked' = asked /\ pipe' = <<>>
    BY DEF ReadEnds, BlobInv
<1>2. reader.name \in Hexadecimal /\ asked = <<>>
    <2>1. CASE reader.at = "header"
        <3>1. PICK name \in Hexadecimal :
                  /\ reader = [at |-> "header", name |-> name]
                  /\ asked = <<>> \/ alive = TRUE
            BY <2>1, UnderWay DEF HeaderIsNext
        <3> QED BY <1>1, <3>1
    <2>2. CASE reader.at = "body"
        <3>1. PICK name \in DOMAIN ObjectKind :
                  reader = [at |-> "body", name |-> name, says |-> ObjectKind[name]] /\ asked = <<>>
            BY <2>2, UnderWay DEF BodyIsNext
        <3> QED BY <3>1, BlobAssumption
    <2> QED BY <2>1, <2>2 DEF ReadEnds
<1>3. \A result \in {"closed", "broken"} :
          ReadOutcome(reader.name, result, NoContent, "blob") \in TrueReads
    BY <1>2 DEF ReadOutcome, TrueReads
<1>4. reads' \in Seq(TrueReads) /\ reader' = Between
    <2>1. PICK result \in {"closed", "broken"} : EndRead(result, NoContent)
        BY DEF ReadEnds
    <2> QED BY <1>3, <2>1, EndsTruly DEF BlobInv
<1> QED BY <1>1, <1>2, <1>4 DEF NothingOpen, BlobInv, Between

LEMMA WorktreeKeeps ==
    ASSUME BlobInv, NEW name \in Names, ReadWorktree(name)
    PROVE  BlobInv'
<1>1. ReadOutcome(name, "content", name, "worktree") \in TrueReads
    BY DEF ReadOutcome, TrueReads
<1>2. reads' \in Seq(TrueReads)
    BY <1>1 DEF ReadWorktree, BlobInv
<1> QED BY <1>2, UnderWay DEF ReadWorktree, NothingOpen, BlobInv, Between

LEMMA BlobKept == ASSUME BlobInv, [BlobNext]_blobVars PROVE BlobInv'
<1>1. CASE UNCHANGED blobVars
    BY <1>1 DEF blobVars, BlobInv, NothingOpen, HeaderIsNext, BodyIsNext, Written, Between,
                HeaderOf, BodyOf, NewlineOf
<1> QED BY <1>1, AskKeeps, AnswerKeeps, DeathKeeps, HeaderKeeps, BodyKeeps, EndKeeps, WorktreeKeeps
        DEF BlobNext

(* Bytes handed out as compared content are those of the blob that was      *)
(* asked for, an object is called missing or not a blob only when it is,    *)
(* and no read finds what an earlier one left (git/blob.rs).                *)
THEOREM ReadsKeepInStep == BlobSpec => []ReadsStayInStep
<1>1. ASSUME BlobInit PROVE BlobInv
    BY <1>1 DEF BlobInit, BlobInv, NothingOpen
<1>2. ASSUME BlobInv PROVE ReadsStayInStep
    <2>1. \A i \in DOMAIN reads : reads[i] \in TrueReads
        BY <1>2, LenProperties, ElementOfSeq DEF BlobInv
    <2>2. \A i \in DOMAIN reads :
            LET r == reads[i] IN
            /\ Lane(r.origin) = "compared" /\ r.result = "content" =>
                   /\ r.content = r.asked
                   /\ r.asked \in DOMAIN ObjectKind /\ ObjectKind[r.asked] = "blob"
            /\ r.result = "missing" => r.asked \notin DOMAIN ObjectKind
            /\ r.result = "not a blob" =>
                   r.asked \in DOMAIN ObjectKind /\ ObjectKind[r.asked] # "blob"
            /\ r.result = "protocol" => r.asked \notin Hexadecimal \/ r.asked \in Ambiguous
        BY <2>1 DEF TrueReads, Lane
    <2>3. alive /\ reader = Between => pipe = <<>> /\ asked = <<>>
        BY <1>2, UnderWay DEF NothingOpen
    <2> QED BY <2>2, <2>3 DEF ReadsStayInStep
<1> QED BY <1>1, <1>2, BlobKept, PTL DEF BlobSpec

(***************************************************************************)
(* CLONES NEVER CONTRADICT EACH OTHER                                      *)
(*                                                                         *)
(* A window that is not truncated is the window of the whole history,      *)
(* wherever it is kept, and a truncated one answers only where the clone   *)
(* was truncated too.                                                      *)
(***************************************************************************)

(* The window of a complete clone. *)
WholeWindow(anchor, g) == ReadWindow(history, anchor, 1, g, FALSE)

(* A window of the anchor, walked by this git, whole unless it says so.    *)
GoodWindow(w, anchor, g) ==
    /\ w.anchor = anchor /\ w.git = g
    /\ w.truncated \in BOOLEAN
    /\ w.truncated = FALSE => w = WholeWindow(anchor, g)

(* A key names the anchor and the git of the window stored under it.       *)
StoreIsGood ==
    /\ DOMAIN store = Clones
    /\ \A c \in Clones : \A key \in DOMAIN store[c] :
         /\ key \in Keys
         /\ GoodWindow(store[c][key], key[1], key[2])

(* A process that found its clone complete: it stays so while it measures. *)
Measuring(p) ==
    LET m == process[p]
    IN  /\ m.anchor \in Anchors /\ m.git \in Gits /\ m.shallow \in BOOLEAN
        /\ m.shallow = FALSE => boundary[HomeOf[p]] = 1

Putting(p) ==
    LET m == process[p]
    IN  /\ GoodWindow(m.window, m.anchor, m.git)
        /\ m.window.truncated = m.shallow

ProcessIsGood(p) ==
    /\ process[p].at \in {"idle", "open", "put"}
    /\ process[p].at \in {"open", "put"} => Measuring(p)
    /\ process[p].at = "put" => Putting(p)

(* A report: the markers of a truncated clone, or the numbers of the whole *)
(* window.                                                                 *)
Markers == {Result(m, TheChange, None, "", REASON_SHALLOW) : m \in metric_ids}

ReportIsGood(r) ==
    /\ r.anchor \in Anchors /\ r.git \in Gits
    /\ r.truncated \in BOOLEAN /\ r.opened_shallow \in BOOLEAN
    /\ r.truncated = TRUE => r.results = Markers /\ r.opened_shallow = TRUE
    /\ r.truncated = FALSE =>
         r.results = MeasuredIn(WholeWindow(r.anchor, r.git), Changed(history, r.anchor))

CacheInv ==
    /\ history \in Histories
    /\ boundary \in [Clones -> Depths]
    /\ git \in [Clones -> Gits]
    /\ StoreIsGood
    /\ DOMAIN process = Processes
    /\ \A p \in Processes : ProcessIsGood(p)
    /\ \A r \in reports : ReportIsGood(r)

------------------------------------------------------------------------------
(* What a window says.                                                     *)

(* Of one file, each of the six metrics is said once (engine.rs, measure). *)
LEMMA SixResults ==
    ASSUME NEW w, NEW path, NEW changed
    PROVE  \E r1, r2, r3, r4, r5, r6 :
             /\ FileResults(w, path, changed) = {r1, r2, r3, r4, r5, r6}
             /\ \A r \in {r1, r2, r3, r4, r5, r6} : r.scope = path
             /\ r1.metric = METRIC_CHURN_COMMITS /\ r2.metric = METRIC_CHURN_LINES
             /\ r3.metric = METRIC_CODE_AGE /\ r4.metric = METRIC_OWNERSHIP_ENTROPY
             /\ r5.metric = METRIC_HOTSPOT /\ r6.metric = METRIC_CHANGE_COUPLING
<1> DEFINE f == FileFacts(w, path, changed)
           lines_of == IF f.churn_lines_partial THEN "Partial" ELSE "Complete"
           no_product == IF f.churn_commits = 0 THEN REASON_NO_COMMITS ELSE REASON_NO_COMPLEXITY
           r1 == Result(METRIC_CHURN_COMMITS, path, f.churn_commits, "Complete", "")
           r2 == Result(METRIC_CHURN_LINES, path, f.churn_lines, lines_of, REASON_BINARY_ONLY)
           r3 == Result(METRIC_CODE_AGE, path, f.age_days, "Complete", REASON_NO_COMMITS)
           r4 == Result(METRIC_OWNERSHIP_ENTROPY, path, f.entropy, "Complete", REASON_NO_COMMITS)
           r5 == Result(METRIC_HOTSPOT, path, f.hotspot, "Complete", no_product)
           r6 == Result(METRIC_CHANGE_COUPLING, path, f.coupled_absent, "Complete", REASON_NO_COMMITS)
<1>1. FileResults(w, path, changed) = {r1, r2, r3, r4, r5, r6} BY DEF FileResults
<1>2. /\ r1.metric = METRIC_CHURN_COMMITS /\ r2.metric = METRIC_CHURN_LINES
      /\ r3.metric = METRIC_CODE_AGE /\ r4.metric = METRIC_OWNERSHIP_ENTROPY
      /\ r5.metric = METRIC_HOTSPOT /\ r6.metric = METRIC_CHANGE_COUPLING
  BY DEF Result
<1>3. /\ r1.scope = path /\ r2.scope = path /\ r3.scope = path
      /\ r4.scope = path /\ r5.scope = path /\ r6.scope = path
  BY DEF Result
<1> HIDE DEF r1, r2, r3, r4, r5, r6
<1> QED BY <1>1, <1>2, <1>3

LEMMA OneResultPerMetric ==
    ASSUME NEW w, NEW path, NEW changed,
           NEW r \in FileResults(w, path, changed), NEW q \in FileResults(w, path, changed),
           r.metric = q.metric
    PROVE  r = q
BY SixResults
   DEF METRIC_CHURN_COMMITS, METRIC_CHURN_LINES, METRIC_CODE_AGE,
       METRIC_OWNERSHIP_ENTROPY, METRIC_HOTSPOT, METRIC_CHANGE_COUPLING

(* Every result of a file is in the scope of that file.                    *)
LEMMA ScopeIsThePath ==
    ASSUME NEW w, NEW path, NEW changed, NEW r \in FileResults(w, path, changed)
    PROVE  r.scope = path
BY SixResults

(* What is measured in a window that is not truncated says each metric of  *)
(* each changed file once, and of nothing else; and it says something.     *)
LEMMA MeasuredOnce ==
    ASSUME NEW w, w.truncated = FALSE, NEW changed
    PROVE  /\ \A r, q \in MeasuredIn(w, changed) :
                r.metric = q.metric /\ r.scope = q.scope => r = q
           /\ \A r \in MeasuredIn(w, changed) : r.scope \in changed
           /\ changed # {} => MeasuredIn(w, changed) # {}
<1>1. MeasuredIn(w, changed) = UNION {FileResults(w, p, changed) : p \in changed}
  BY DEF MeasuredIn
<1>2. \A r \in MeasuredIn(w, changed) :
        r.scope \in changed /\ r \in FileResults(w, r.scope, changed)
  BY <1>1, ScopeIsThePath
<1>3. \A r, q \in MeasuredIn(w, changed) :
        r.metric = q.metric /\ r.scope = q.scope => r = q
  BY <1>2, OneResultPerMetric
<1>4. ASSUME changed # {} PROVE MeasuredIn(w, changed) # {}
  <2>1. PICK p : p \in changed BY <1>4
  <2>2. FileResults(w, p, changed) # {} BY DEF FileResults
  <2> QED BY <1>1, <2>1, <2>2
<1> QED BY <1>2, <1>3, <1>4

(* The markers of a truncated window: one per metric, in a scope no file   *)
(* has.                                                                    *)
LEMMA MarkersAreAlike ==
    /\ \A r \in Markers : r.scope = TheChange
    /\ \A r, q \in Markers : r.metric = q.metric => r = q
    /\ \A w, changed : w.truncated = TRUE => MeasuredIn(w, changed) = Markers
<1>1. \A r \in Markers : r.scope = TheChange BY DEF Markers, Result
<1>2. \A r, q \in Markers : r.metric = q.metric => r = q BY DEF Markers, Result
<1>3. \A w, changed : w.truncated = TRUE => MeasuredIn(w, changed) = Markers
  BY DEF Markers, MeasuredIn
<1> QED BY <1>1, <1>2, <1>3

------------------------------------------------------------------------------
(* A complete clone walks the whole window.                                *)
LEMMA WalkedIsGood ==
    ASSUME NEW anchor, NEW g, NEW oldest, NEW shallow \in BOOLEAN,
           shallow = FALSE => oldest = 1
    PROVE  /\ GoodWindow(ReadWindow(history, anchor, oldest, g, shallow), anchor, g)
           /\ ReadWindow(history, anchor, oldest, g, shallow).truncated = shallow
BY DEF GoodWindow, WholeWindow, ReadWindow

(* A good window, measured, makes a good report.                           *)
LEMMA ReportOfGood ==
    ASSUME NEW anchor \in Anchors, NEW g \in Gits, NEW w, GoodWindow(w, anchor, g),
           NEW shallow \in BOOLEAN, w.truncated = TRUE => shallow = TRUE, NEW home
    PROVE  ReportIsGood([home |-> home, opened_shallow |-> shallow, anchor |-> w.anchor,
                         git |-> w.git, truncated |-> w.truncated,
                         results |-> MeasuredIn(w, Changed(history, w.anchor))])
BY MarkersAreAlike DEF GoodWindow, ReportIsGood

------------------------------------------------------------------------------
LEMMA CacheInitially == HistoryInit => CacheInv
BY CacheAssumption DEF HistoryInit, CacheInv, StoreIsGood, ProcessIsGood, AtRest

(* A clone that is complete is at boundary 1, and nothing is below it.     *)
LEMMA NothingBelowOne ==
    ASSUME CacheInv, NEW c \in Clones
    PROVE  /\ boundary[c] \in Nat \ {0}
           /\ Shallow(c) \in BOOLEAN
           /\ Shallow(c) = FALSE => boundary[c] = 1
<1>1. boundary[c] \in Nat \ {0} BY CacheAssumption DEF CacheInv
<1> QED BY <1>1 DEF Shallow

(* What the other processes and the store hold does not change, as long as *)
(* the clones that were complete stay so.                                  *)
LEMMA OthersStayGood ==
    ASSUME CacheInv, history' = history, NEW p \in Processes,
           process'[p] = process[p],
           boundary'[HomeOf[p]] = boundary[HomeOf[p]]
             \/ (process[p].at # "idle" => boundary[HomeOf[p]] # 1)
             \/ process[p].at = "idle"
    PROVE  ProcessIsGood(p)'
<1>1. ProcessIsGood(p) BY DEF CacheInv
<1>2. CASE process[p].at = "idle"
  BY <1>1, <1>2 DEF ProcessIsGood
<1>3. CASE process[p].at # "idle"
  <2>1. process[p].at \in {"open", "put"} /\ Measuring(p) BY <1>1, <1>3 DEF ProcessIsGood
  <2>2. Measuring(p)' BY <1>3, <2>1 DEF Measuring
  <2>3. process[p].at = "put" => Putting(p)'
    BY <1>1, <2>1 DEF ProcessIsGood, Putting, GoodWindow, WholeWindow
  <2> QED BY <2>1, <2>2, <2>3 DEF ProcessIsGood
<1> QED BY <1>2, <1>3

LEMMA StoreStaysGood ==
    ASSUME StoreIsGood, history' = history, store' = store
    PROVE  StoreIsGood'
BY DEF StoreIsGood, GoodWindow, WholeWindow

LEMMA ReportsStayGood ==
    ASSUME NEW r, ReportIsGood(r), history' = history
    PROVE  ReportIsGood(r)'
BY DEF ReportIsGood, WholeWindow, Changed, Markers

LEMMA OpenStep ==
    ASSUME CacheInv, NEW p \in Processes, NEW anchor \in Anchors, OpenRepository(p, anchor)
    PROVE  CacheInv'
<1> USE DEF CacheInv
<1>1. /\ history' = history /\ boundary' = boundary /\ git' = git /\ store' = store
      /\ reports' = reports /\ DOMAIN process' = Processes
      /\ \A q \in Processes \ {p} : process'[q] = process[q]
  BY DEF OpenRepository
<1>2. HomeOf[p] \in Clones BY CacheAssumption
<1>3. process'[p] = [at |-> "open", anchor |-> anchor, git |-> git[HomeOf[p]],
                     shallow |-> Shallow(HomeOf[p])]
  BY DEF OpenRepository
<1>4. ProcessIsGood(p)'
  <2>1. git[HomeOf[p]] \in Gits BY <1>2
  <2>2. /\ process'[p].at = "open" /\ process'[p].anchor = anchor
        /\ process'[p].git = git[HomeOf[p]] /\ process'[p].shallow = Shallow(HomeOf[p])
    BY <1>3
  <2> QED BY <1>1, <1>2, <2>1, <2>2, NothingBelowOne DEF ProcessIsGood, Measuring
<1>5. \A q \in Processes : ProcessIsGood(q)' BY <1>1, <1>4, OthersStayGood
<1>6. \A r \in reports' : ReportIsGood(r)' BY <1>1, ReportsStayGood
<1> QED BY <1>1, <1>5, <1>6, StoreStaysGood

LEMMA ServeStep ==
    ASSUME CacheInv, NEW p \in Processes, Serve(p)
    PROVE  CacheInv'
<1> USE DEF CacheInv
<1> DEFINE m == process[p]
           key == Key(m.anchor, m.git)
           w == store[HomeOf[p]][key]
<1>1. /\ history' = history /\ boundary' = boundary /\ git' = git /\ store' = store
      /\ DOMAIN process' = Processes
      /\ \A q \in Processes \ {p} : process'[q] = process[q]
  BY DEF Serve
<1>2. HomeOf[p] \in Clones BY CacheAssumption
<1>3. process'[p] = AtRest BY DEF Serve
<1>4. Measuring(p) BY DEF Serve, ProcessIsGood
<1>5. key \in DOMAIN store[HomeOf[p]] /\ AnswersThisClone(w, m.shallow)
  BY DEF Serve, Answered
<1>6. GoodWindow(w, m.anchor, m.git)
  <2>1. GoodWindow(w, key[1], key[2]) BY <1>2, <1>5 DEF StoreIsGood
  <2>2. key[1] = m.anchor /\ key[2] = m.git BY DEF Key
  <2> QED BY <2>1, <2>2
<1>7. w.truncated = TRUE => m.shallow = TRUE
  BY <1>4, <1>5, <1>6 DEF AnswersThisClone, Measuring, GoodWindow
<1>8. \A r \in reports' : ReportIsGood(r)
  <2>1. reports' = Report(p, w) BY DEF Serve
  <2> HIDE DEF w, key
  <2>2. m.anchor \in Anchors /\ m.git \in Gits /\ m.shallow \in BOOLEAN BY <1>4 DEF Measuring
  <2>3. ReportIsGood([home |-> HomeOf[p], opened_shallow |-> m.shallow, anchor |-> w.anchor,
                      git |-> w.git, truncated |-> w.truncated,
                      results |-> MeasuredIn(w, Changed(history, w.anchor))])
    BY <1>6, <1>7, <2>2, ReportOfGood
  <2> QED BY <2>1, <2>3 DEF Report
<1>9. \A r \in reports' : ReportIsGood(r)' BY <1>1, <1>8, ReportsStayGood
<1>10. \A q \in Processes : ProcessIsGood(q)'
  <2>1. ProcessIsGood(p)' BY <1>3 DEF ProcessIsGood, AtRest
  <2> QED BY <1>1, <2>1, OthersStayGood
<1> QED BY <1>1, <1>9, <1>10, StoreStaysGood

LEMMA WalkStep ==
    ASSUME CacheInv, NEW p \in Processes, WalkHistory(p)
    PROVE  CacheInv'
<1> USE DEF CacheInv
<1> DEFINE m == process[p]
           w == ReadWindow(history, m.anchor, boundary[HomeOf[p]], m.git, m.shallow)
<1>1. /\ history' = history /\ boundary' = boundary /\ git' = git /\ store' = store
      /\ reports' = reports /\ DOMAIN process' = Processes
      /\ \A q \in Processes \ {p} : process'[q] = process[q]
  BY DEF WalkHistory
<1>2. Measuring(p) BY DEF WalkHistory, ProcessIsGood
<1>3. process'[p] = [at |-> "put", anchor |-> m.anchor, git |-> m.git, shallow |-> m.shallow,
                     window |-> w]
  BY DEF WalkHistory
<1>4. GoodWindow(w, m.anchor, m.git) /\ w.truncated = m.shallow
  <2>1. m.shallow \in BOOLEAN BY <1>2 DEF Measuring
  <2>2. m.shallow = FALSE => boundary[HomeOf[p]] = 1 BY <1>2 DEF Measuring
  <2> DEFINE oldest == boundary[HomeOf[p]]
             shallow == m.shallow
  <2>3. shallow \in BOOLEAN /\ (shallow = FALSE => oldest = 1) BY <2>1, <2>2
  <2> HIDE DEF oldest, shallow
  <2>4. /\ GoodWindow(ReadWindow(history, m.anchor, oldest, m.git, shallow), m.anchor, m.git)
        /\ ReadWindow(history, m.anchor, oldest, m.git, shallow).truncated = shallow
    BY <2>3, WalkedIsGood, ZenonT(60)
  <2> QED BY <2>4 DEF oldest, shallow
<1> HIDE DEF w
<1>5. /\ process'[p].at = "put" /\ process'[p].anchor = m.anchor /\ process'[p].git = m.git
      /\ process'[p].shallow = m.shallow /\ process'[p].window = w
  BY <1>3
<1>6. Measuring(p)' BY <1>1, <1>2, <1>5 DEF Measuring
<1>7. Putting(p)' BY <1>1, <1>4, <1>5 DEF Putting, GoodWindow, WholeWindow
<1>8. ProcessIsGood(p)' BY <1>5, <1>6, <1>7 DEF ProcessIsGood
<1>9. \A q \in Processes : ProcessIsGood(q)' BY <1>1, <1>8, OthersStayGood
<1>10. \A r \in reports' : ReportIsGood(r)' BY <1>1, ReportsStayGood
<1> QED BY <1>1, <1>9, <1>10, StoreStaysGood

LEMMA PutStep ==
    ASSUME CacheInv, NEW p \in Processes, Put(p)
    PROVE  CacheInv'
<1> USE DEF CacheInv
<1> DEFINE m == process[p]
           key == Key(m.anchor, m.git)
           c == HomeOf[p]
<1>1. /\ history' = history /\ boundary' = boundary /\ git' = git
      /\ DOMAIN process' = Processes
      /\ \A q \in Processes \ {p} : process'[q] = process[q]
  BY DEF Put
<1>2. c \in Clones BY CacheAssumption
<1>3. process'[p] = AtRest BY DEF Put
<1>4. Measuring(p) /\ Putting(p) BY DEF Put, ProcessIsGood
<1>5. key \in Keys /\ key[1] = m.anchor /\ key[2] = m.git BY <1>4 DEF Measuring, Keys, Key
<1>6. StoreIsGood'
  <2>1. store' = [store EXCEPT ![c] = Stored(store[c], key, m.window)] BY DEF Put
  <2>2. DOMAIN store' = Clones BY <2>1 DEF StoreIsGood
  <2>3. ASSUME NEW d \in Clones, NEW k \in DOMAIN store'[d]
        PROVE  k \in Keys /\ GoodWindow(store'[d][k], k[1], k[2])
    <3>1. CASE d = c /\ k = key
      <4>1. store'[d][k] = m.window BY <2>1, <3>1, <1>2 DEF Stored, StoreIsGood
      <4>2. GoodWindow(m.window, m.anchor, m.git) BY <1>4 DEF Putting
      <4> QED BY <4>1, <4>2, <3>1, <1>5
    <3>2. CASE ~ (d = c /\ k = key)
      <4>1. k \in DOMAIN store[d] /\ store'[d][k] = store[d][k]
        BY <2>1, <2>3, <3>2, <1>2 DEF Stored, StoreIsGood
      <4> QED BY <4>1 DEF StoreIsGood
    <3> QED BY <3>1, <3>2
  <2> QED BY <1>1, <2>2, <2>3 DEF StoreIsGood, GoodWindow, WholeWindow
<1>7. \A r \in reports' : ReportIsGood(r)
  <2>1. reports' = Report(p, m.window) BY DEF Put
  <2>2. m.anchor \in Anchors /\ m.git \in Gits /\ m.shallow \in BOOLEAN BY <1>4 DEF Measuring
  <2>3. GoodWindow(m.window, m.anchor, m.git) /\ (m.window.truncated = TRUE => m.shallow = TRUE)
    BY <1>4 DEF Putting
  <2>4. ReportIsGood([home |-> HomeOf[p], opened_shallow |-> m.shallow,
                      anchor |-> m.window.anchor, git |-> m.window.git,
                      truncated |-> m.window.truncated,
                      results |-> MeasuredIn(m.window, Changed(history, m.window.anchor))])
    BY <2>2, <2>3, ReportOfGood
  <2> QED BY <2>1, <2>4 DEF Report
<1>8. \A r \in reports' : ReportIsGood(r)' BY <1>1, <1>7, ReportsStayGood
<1>9. \A q \in Processes : ProcessIsGood(q)'
  <2>1. ProcessIsGood(p)' BY <1>3 DEF ProcessIsGood, AtRest
  <2> QED BY <1>1, <2>1, OthersStayGood
<1> QED BY <1>1, <1>6, <1>8, <1>9

LEMMA FailStep ==
    ASSUME CacheInv, NEW p \in Processes, Fail(p)
    PROVE  CacheInv'
<1> USE DEF CacheInv
<1>1. /\ history' = history /\ boundary' = boundary /\ git' = git /\ store' = store
      /\ reports' = reports /\ DOMAIN process' = Processes
      /\ \A q \in Processes \ {p} : process'[q] = process[q]
  BY DEF Fail
<1>2. ProcessIsGood(p)' BY DEF Fail, ProcessIsGood, AtRest
<1>3. \A q \in Processes : ProcessIsGood(q)' BY <1>1, <1>2, OthersStayGood
<1>4. \A r \in reports' : ReportIsGood(r)' BY <1>1, ReportsStayGood
<1> QED BY <1>1, <1>3, <1>4, StoreStaysGood

(* A complete clone cannot be deepened, and a clone a process measures in  *)
(* is not cut off.                                                         *)
LEMMA FetchStep ==
    ASSUME CacheInv, NEW c \in Clones, NEW oldest \in Depths,
           Deepen(c, oldest) \/ CutOff(c, oldest)
    PROVE  CacheInv'
<1> USE DEF CacheInv
<1>1. /\ history' = history /\ git' = git /\ store' = store /\ process' = process
      /\ reports' = reports /\ boundary' = [boundary EXCEPT ![c] = oldest]
  BY DEF Deepen, CutOff
<1>2. boundary' \in [Clones -> Depths] BY <1>1
<1>3. ASSUME NEW p \in Processes PROVE ProcessIsGood(p)'
  <2>1. HomeOf[p] \in Clones BY CacheAssumption
  <2>2. CASE HomeOf[p] # c BY <1>1, <2>1, <2>2, OthersStayGood
  <2>3. CASE HomeOf[p] = c
    <3>1. CASE Deepen(c, oldest)
      <4>1. boundary[c] # 1 BY <3>1, CacheAssumption DEF Deepen
      <4> QED BY <1>1, <2>3, <4>1, OthersStayGood
    <3>2. CASE CutOff(c, oldest)
      <4>1. process[p].at = "idle" BY <2>3, <3>2 DEF CutOff
      <4> QED BY <1>1, <4>1, OthersStayGood
    <3> QED BY <3>1, <3>2
  <2> QED BY <2>2, <2>3
<1>4. \A r \in reports' : ReportIsGood(r)' BY <1>1, ReportsStayGood
<1> QED BY <1>1, <1>2, <1>3, <1>4, StoreStaysGood

LEMMA CacheStutters ==
    ASSUME CacheInv, UNCHANGED historyVars
    PROVE  CacheInv'
<1> USE DEF CacheInv
<1>1. /\ history' = history /\ boundary' = boundary /\ git' = git /\ store' = store
      /\ reports' = reports /\ process' = process
  BY DEF historyVars
<1>2. \A q \in Processes : ProcessIsGood(q)' BY <1>1, OthersStayGood
<1>3. \A r \in reports' : ReportIsGood(r)' BY <1>1, ReportsStayGood
<1> QED BY <1>1, <1>2, <1>3, StoreStaysGood

LEMMA CacheSteps == CacheInv /\ [HistoryNext]_historyVars => CacheInv'
<1> SUFFICES ASSUME CacheInv, [HistoryNext]_historyVars PROVE CacheInv' OBVIOUS
<1>1. CASE \E p \in Processes, anchor \in Anchors : OpenRepository(p, anchor) BY <1>1, OpenStep
<1>2. CASE \E p \in Processes : Serve(p) BY <1>2, ServeStep
<1>3. CASE \E p \in Processes : WalkHistory(p) BY <1>3, WalkStep
<1>4. CASE \E p \in Processes : Put(p) BY <1>4, PutStep
<1>5. CASE \E p \in Processes : Fail(p) BY <1>5, FailStep
<1>6. CASE \E c \in Clones, oldest \in Depths : Deepen(c, oldest) \/ CutOff(c, oldest)
  BY <1>6, FetchStep
<1>7. CASE UNCHANGED historyVars BY <1>7, CacheStutters
<1> QED BY <1>1, <1>2, <1>3, <1>4, <1>5, <1>6, <1>7 DEF HistoryNext

LEMMA CacheInvariant == HistorySpec => []CacheInv
BY CacheInitially, CacheSteps, PTL DEF HistorySpec

------------------------------------------------------------------------------
(* Two reports of one commit under one regime agree: two truncated ones in *)
(* their markers, two whole ones in one window, and one of each has no     *)
(* scope in common.                                                        *)
LEMMA PairsAgree ==
    ASSUME CacheInv, NEW a \in reports, NEW b \in reports,
           a.anchor = b.anchor, SameRegime(a, b),
           NEW r \in a.results, NEW q \in b.results,
           r.metric = q.metric, r.scope = q.scope
    PROVE  r = q
<1> DEFINE w == WholeWindow(a.anchor, a.git)
           changed == Changed(history, a.anchor)
<1>1. ReportIsGood(a) /\ ReportIsGood(b) BY DEF CacheInv
<1>2. a.git = b.git BY DEF SameRegime
<1>3. w.truncated = FALSE BY DEF WholeWindow, ReadWindow
<1>4. /\ \A x, y \in MeasuredIn(w, changed) : x.metric = y.metric /\ x.scope = y.scope => x = y
      /\ \A x \in MeasuredIn(w, changed) : x.scope \in changed
  <2> HIDE DEF w, changed
  <2> QED BY <1>3, MeasuredOnce
<1>5. TheChange \notin changed
  <2>1. history \in Histories /\ a.anchor \in Anchors BY <1>1 DEF CacheInv, ReportIsGood
  <2>2. IsCommit(history[a.anchor]) BY <2>1, CacheAssumption
  <2> QED BY <2>2, CacheAssumption DEF Changed, IsCommit
<1>6. CASE a.truncated = TRUE /\ b.truncated = TRUE
  BY <1>1, <1>6, MarkersAreAlike DEF ReportIsGood
<1>7. CASE a.truncated = FALSE /\ b.truncated = FALSE
  <2>1. a.results = MeasuredIn(w, changed) /\ b.results = MeasuredIn(w, changed)
    BY <1>1, <1>2, <1>7 DEF ReportIsGood
  <2> HIDE DEF w, changed
  <2> QED BY <2>1, <1>4
<1>8. CASE a.truncated = TRUE /\ b.truncated = FALSE
  <2>1. a.results = Markers /\ b.results = MeasuredIn(w, changed)
    BY <1>1, <1>2, <1>8 DEF ReportIsGood
  <2> HIDE DEF w, changed
  <2>2. r.scope = TheChange /\ q.scope \in changed BY <2>1, <1>4, MarkersAreAlike
  <2> QED BY <2>2, <1>5
<1>9. CASE a.truncated = FALSE /\ b.truncated = TRUE
  <2>1. b.results = Markers /\ a.results = MeasuredIn(w, changed)
    BY <1>1, <1>2, <1>9 DEF ReportIsGood
  <2> HIDE DEF w, changed
  <2>2. q.scope = TheChange /\ r.scope \in changed BY <2>1, <1>4, MarkersAreAlike
  <2> QED BY <2>2, <1>5
<1>10. a.truncated \in BOOLEAN /\ b.truncated \in BOOLEAN BY <1>1 DEF ReportIsGood
<1> QED BY <1>6, <1>7, <1>8, <1>9, <1>10

(* Untruncated reports of one commit pass as legs of the platform matrix.  *)
LEMMA LegsAgree ==
    ASSUME CacheInv, NEW anchor \in Anchors, NEW legs,
           legs = {r \in reports : r.anchor = anchor /\ ~ r.truncated}, legs # {}
    PROVE  LegsPass(legs)
<1>1. ASSUME NEW leg \in legs
      PROVE  /\ leg.anchor = anchor /\ leg.truncated = FALSE
             /\ leg.results = MeasuredIn(WholeWindow(anchor, leg.git), Changed(history, anchor))
  <2>1. leg \in reports /\ ReportIsGood(leg) /\ leg.anchor = anchor /\ ~ leg.truncated
    BY DEF CacheInv
  <2> QED BY <2>1 DEF ReportIsGood
<1>2. ASSUME NEW leg \in legs PROVE leg.results # {}
  <2> DEFINE w == WholeWindow(anchor, leg.git)
             changed == Changed(history, anchor)
  <2>1. w.truncated = FALSE BY DEF WholeWindow, ReadWindow
  <2>2. changed # {} BY CacheAssumption DEF Changed, CacheInv
  <2>3. leg.results = MeasuredIn(w, changed) BY <1>1
  <2> HIDE DEF w, changed
  <2> QED BY <2>1, <2>2, <2>3, MeasuredOnce
<1>3. ASSUME NEW a \in legs, NEW b \in legs, SameRegime(a, b) PROVE a.results = b.results
  <2>1. a.git = b.git BY <1>3 DEF SameRegime
  <2> QED BY <1>1, <2>1
<1> QED BY <1>1, <1>2, <1>3 DEF LegsPass

(* No two clones of one repository contradict each other about a commit,   *)
(* whatever they held, fetched or had cached when they measured it         *)
(* (cache.rs, load_or_read; engine.rs, from_window; probe.rs).             *)
THEOREM ClonesNeverContradict == HistorySpec => []HonestPairsAgree
<1>1. CacheInv => HonestPairsAgree BY PairsAgree, LegsAgree DEF HonestPairsAgree
<1> QED BY <1>1, CacheInvariant, PTL

(* A truncated answer is given only by a clone that was truncated when the *)
(* measurement opened it: a window cached before a deepening does not      *)
(* outlive it (cache.rs, answers_this_clone).                              *)
THEOREM DeepeningIsNoticed == HistorySpec => []NeverLessThanTheClone
<1>1. CacheInv => NeverLessThanTheClone
  BY DEF CacheInv, ReportIsGood, NeverLessThanTheClone
<1> QED BY <1>1, CacheInvariant, PTL

(***************************************************************************)
(* EVERY DAY HAS ITS NUMBER                                                *)
(***************************************************************************)

(* Rounding towards zero after the correction is rounding down.             *)
LEMMA ErasRoundDown ==
    ASSUME NEW n \in Int, NEW length \in {400, DaysOfEra}
    PROVE  Era(n, length) = n \div length
  BY SMT DEF Era, Quotient, DaysOfEra

(* Years are taken to begin in March, so that the leap day is the last of   *)
(* one: of the day in such a year, its month and its day of the month are   *)
(* found again, and only a year that ends with a leap day has 366.          *)
March(month) == IF month <= 2 THEN 1 ELSE 0
FromMarch(month) == month + (IF month > 2 THEN -3 ELSE 9)
ToMarch(mp) == IF mp < 10 THEN mp + 3 ELSE mp - 9

LEMMA MonthsAreFound ==
    ASSUME NEW m \in Int, 0 <= m, m <= 11, NEW day \in Int, 1 <= day, day <= 31,
           day = 31 => m \in {0, 2, 4, 5, 7, 9, 10}, m = 11 => day <= 29,
           NEW doy, doy = DaysOfMonths(m) + day - 1
    PROVE  /\ DaysOfMonths(m) \in Int /\ doy \in Int /\ 0 <= doy /\ doy <= 365
           /\ doy = 365 => m = 11 /\ day = 29
           /\ MonthsIn(doy) = m
           /\ doy - DaysOfMonths(m) + 1 = day
  BY SMTT(30) DEF DaysOfMonths, MonthsIn

(* Of the day in an era, the year in the era is found again.                *)
LEMMA YearsAreFound ==
    ASSUME NEW yoe \in Int, NEW doy \in Int, 0 <= yoe, yoe <= 399, 0 <= doy, doy <= 365,
           doy = 365 => IsLeap(yoe + 1),
           NEW doe \in Int, doe = DaysOfYears(yoe) + doy
    PROVE  0 <= doe /\ doe < DaysOfEra /\ YearsIn(doe) = yoe
  BY SMTT(60) DEF DaysOfYears, IsLeap, DaysOfEra, YearsIn

LEMMA ErasAreFound ==
    ASSUME NEW era \in Int, NEW doe \in Int, 0 <= doe, doe < DaysOfEra
    PROVE  Era(era * DaysOfEra + doe, DaysOfEra) = era
  <1>1. (era * DaysOfEra + doe) \div DaysOfEra = era
    BY SMTT(30) DEF DaysOfEra
  <1>2. era * DaysOfEra + doe \in Int
    BY SMT DEF DaysOfEra
  <1>3. Era(era * DaysOfEra + doe, DaysOfEra) = (era * DaysOfEra + doe) \div DaysOfEra
    BY <1>2, ErasRoundDown, Zenon
  <1> QED
    BY <1>1, <1>3, Zenon

(* An era repeats the one before it.                                        *)
LEMMA LeapYearsRecur ==
    ASSUME NEW y \in Int, NEW era \in Int, NEW yoe \in Int, yoe = y - era * 400
    PROVE  IsLeap(y + 1) => IsLeap(yoe + 1)
  BY SMTT(30) DEF IsLeap

LEMMA DaysOfAMonth ==
    ASSUME NEW year \in Int, NEW month \in 1..12, NEW day \in 1..DaysInMonth(year, month)
    PROVE  /\ DaysInMonth(year, month) \in 28..31
           /\ day \in Int /\ 1 <= day /\ day <= 31
           /\ day = 31 => month \in {1, 3, 5, 7, 8, 10, 12}
           /\ month = 2 => day <= 29 /\ (day = 29 => IsLeap(year))
  BY SMTT(30) DEF DaysInMonth

(* A date is a day of a year of an era.                                     *)
LEMMA DatesHaveAnEra ==
    ASSUME NEW year \in Int, NEW month \in 1..12, NEW day \in 1..DaysInMonth(year, month),
           NEW y \in Int, y = year - March(month),
           NEW era \in Int, era = y \div 400,
           NEW yoe \in Int, yoe = y - era * 400,
           NEW mp \in Int, mp = FromMarch(month),
           NEW doy \in Int, doy = DaysOfMonths(mp) + day - 1,
           NEW doe \in Int, doe = DaysOfYears(yoe) + doy
    PROVE  /\ 0 <= doe /\ doe < DaysOfEra
           /\ YearsIn(doe) = yoe
           /\ MonthsIn(doy) = mp
  <1>1. /\ day \in Int /\ 1 <= day /\ day <= 31
        /\ day = 31 => month \in {1, 3, 5, 7, 8, 10, 12}
        /\ month = 2 => day <= 29 /\ (day = 29 => IsLeap(year))
    BY DaysOfAMonth
  <1>2. /\ 0 <= mp /\ mp <= 11
        /\ day = 31 => mp \in {0, 2, 4, 5, 7, 9, 10}
        /\ mp = 11 => month = 2 /\ day <= 29
    BY <1>1, SMT DEF FromMarch
  <1>3. /\ 0 <= doy /\ doy <= 365
        /\ doy = 365 => mp = 11 /\ day = 29
        /\ MonthsIn(doy) = mp
    BY <1>1, <1>2, SMTT(30) DEF DaysOfMonths, MonthsIn
  <1>4. doy = 365 => IsLeap(y + 1)
    BY <1>1, <1>2, <1>3, SMT DEF March
  <1>5. IsLeap(y + 1) => IsLeap(yoe + 1)
    BY SMTT(30) DEF IsLeap
  <1>6. 0 <= yoe /\ yoe <= 399
    BY SMT
  <1>7. doy = 365 => IsLeap(yoe + 1)
    BY <1>4, <1>5
  <1>8. 0 <= doe /\ doe < DaysOfEra /\ YearsIn(doe) = yoe
    BY <1>3, <1>6, <1>7, YearsAreFound, SMT
  <1> QED
    BY <1>3, <1>8

(* Eras are of one length: the days before a year, counted by eras.         *)
LEMMA YearsOfEras ==
    ASSUME NEW y \in Int, NEW era \in Int, era = y \div 400,
           NEW yoe \in Int, yoe = y - era * 400
    PROVE  era * DaysOfEra + DaysOfYears(yoe) = 365 * y + y \div 4 - y \div 100 + y \div 400
  <1>1. y \div 4 = era * 100 + yoe \div 4
    BY SMTT(30)
  <1>2. y \div 100 = era * 4 + yoe \div 100
    BY SMTT(30)
  <1>3. y = era * 400 + yoe
    BY SMT
  <1> QED
    BY <1>1, <1>2, <1>3, SMTT(30) DEF DaysOfYears, DaysOfEra

(* The way back, one part of the date at a time.                            *)
LEMMA DayOfItsEra ==
    ASSUME NEW days, NEW era, NEW doe,
           Era(days + DaysToEpoch, DaysOfEra) = era,
           days + DaysToEpoch - era * DaysOfEra = doe
    PROVE  FromDaysSinceEpoch(days) = FromDayOfEra(era, doe)
  BY Zenon DEF FromDaysSinceEpoch

LEMMA DayOfItsMonth ==
    ASSUME NEW y, NEW doy
    PROVE  FromDayOfYear(y, doy) =
             Date(y + March(ToMarch(MonthsIn(doy))), ToMarch(MonthsIn(doy)),
                  doy - DaysOfMonths(MonthsIn(doy)) + 1)
  BY Zenon DEF FromDayOfYear, ToMarch, March

(* The parts of a date that the formulas compute.                           *)
Parts(year, month, day, y, era, yoe, mp, doy, doe, days) ==
    /\ y = year - March(month)
    /\ era = y \div 400
    /\ yoe = y - era * 400
    /\ mp = FromMarch(month)
    /\ doy = DaysOfMonths(mp) + day - 1
    /\ doe = DaysOfYears(yoe) + doy
    /\ days = era * DaysOfEra + doe - DaysToEpoch

(* The one formula undoes the other, and counts the days.                   *)
LEMMA FormulasAgree ==
    ASSUME NEW year \in Int, NEW month \in 1..12, NEW day \in 1..DaysInMonth(year, month),
           NEW y \in Int, NEW era \in Int, NEW yoe \in Int, NEW mp \in Int,
           NEW doy \in Int, NEW doe \in Int, NEW days \in Int,
           Parts(year, month, day, y, era, yoe, mp, doy, doe, days)
    PROVE  /\ DaysFromCivil(Date(year, month, day)) = days
           /\ FromDaysSinceEpoch(days) = Date(year, month, day)
           /\ DayNumber(Date(year, month, day)) = days
  <1>1. /\ 0 <= doe /\ doe < DaysOfEra
        /\ YearsIn(doe) = yoe
        /\ MonthsIn(doy) = mp
    BY DatesHaveAnEra, SMTT(30) DEF Parts
  <1>2. day \in Int /\ 1 <= day /\ day <= 31
    BY DaysOfAMonth
  <1>3. DaysOfYears(yoe) \in Int /\ DaysOfMonths(mp) \in Int
    BY SMT DEF DaysOfYears, DaysOfMonths
  <1>4. DaysFromCivil(Date(year, month, day)) = days
    <2>1. Era(y, 400) = era
      BY SMT DEF Era, Quotient, Parts
    <2>2. DaysFromCivil(Date(year, month, day)) =
            era * DaysOfEra + (DaysOfYears(yoe) + DaysOfMonths(mp) + day - 1) - DaysToEpoch
      BY <2>1, SMT DEF DaysFromCivil, Date, March, FromMarch, Parts
    <2>3. DaysOfYears(yoe) + DaysOfMonths(mp) + day - 1 = doe
      BY <1>2, <1>3, SMT DEF Parts
    <2> QED
      BY <2>2, <2>3, SMT DEF Parts
  <1>5. FromDaysSinceEpoch(days) = Date(year, month, day)
    <2>1. days + DaysToEpoch = era * DaysOfEra + doe
      BY SMT DEF DaysOfEra, DaysToEpoch, Parts
    <2>2. Era(days + DaysToEpoch, DaysOfEra) = era
      BY <1>1, <2>1, SMT DEF Era, Quotient, DaysOfEra, Parts
    <2>3. days + DaysToEpoch - era * DaysOfEra = doe
      BY SMT DEF DaysOfEra, DaysToEpoch, Parts
    <2>4. doe - DaysOfYears(yoe) = doy
      BY <1>3, SMT DEF Parts
    <2>5. doy - DaysOfMonths(mp) + 1 = day
      BY <1>2, <1>3, SMT DEF Parts
    <2>6. ToMarch(mp) = month
      BY SMT DEF ToMarch, FromMarch, Parts
    <2>7. yoe + era * 400 + March(month) = year
      BY SMT DEF March, Parts
    <2>8. FromDaysSinceEpoch(days) = FromDayOfEra(era, doe)
      BY <2>2, <2>3, DayOfItsEra, Zenon
    <2>9. FromDayOfEra(era, doe) = FromDayOfYear(yoe + era * 400, doy)
      BY <1>1, <2>4, Zenon DEF FromDayOfEra
    <2>10. FromDayOfYear(yoe + era * 400, doy) = Date(year, month, day)
      <3>1. FromDayOfYear(yoe + era * 400, doy) =
              Date(yoe + era * 400 + March(ToMarch(MonthsIn(doy))), ToMarch(MonthsIn(doy)),
                   doy - DaysOfMonths(MonthsIn(doy)) + 1)
        BY DayOfItsMonth
      <3>2. MonthsIn(doy) = mp
        BY <1>1
      <3> QED
        BY <2>5, <2>6, <2>7, <3>1, <3>2, SMT
    <2> QED
      BY <2>8, <2>9, <2>10, Zenon
  <1>6. DayNumber(Date(year, month, day)) = days
    <2>1. days = 365 * y + y \div 4 - y \div 100 + y \div 400 + doy - DaysToEpoch
      <3>1. era * DaysOfEra + DaysOfYears(yoe) = 365 * y + y \div 4 - y \div 100 + y \div 400
        BY YearsOfEras DEF Parts
      <3>2. era * DaysOfEra \in Int /\ DaysToEpoch \in Int
        BY SMT DEF DaysOfEra, DaysToEpoch, Parts
      <3> QED
        BY <1>3, <3>1, <3>2, SMT DEF Parts
    <2>2. ASSUME NEW before \in Int, before = DaysBefore[month]
          PROVE  365 * (year - 1970) + LeapDaysBefore(year) + before
                 + (IF month > 2 /\ IsLeap(year) THEN 1 ELSE 0) + day - 1 = days
      <3>1. CASE month <= 2
        <4>1. y = year - 1 /\ before = (month - 1) * 31 /\ doy = 306 + before + day - 1
          BY <1>2, <2>2, <3>1, SMTT(30) DEF March, FromMarch, DaysOfMonths, DaysBefore, Parts
        <4>2. LeapDaysBefore(year) = y \div 4 - y \div 100 + y \div 400 - 477
          BY <4>1, SMT DEF LeapDaysBefore, Parts
        <4>3. LeapDaysBefore(year) \in Int
          BY SMT DEF LeapDaysBefore
        <4>4. 365 * (year - 1970) + LeapDaysBefore(year) + before + day - 1 = days
          BY <1>2, <2>1, <2>2, <4>1, <4>2, <4>3, SMTT(30) DEF DaysToEpoch
        <4> QED
          BY <1>2, <2>2, <3>1, <4>3, <4>4, SMTT(30)
      <3>2. CASE month > 2
        <4>1. y = year /\ doy = before - 59 + day - 1
          BY <1>2, <2>2, <3>2, SMTT(60) DEF March, FromMarch, DaysOfMonths, DaysBefore, Parts
        <4>2. year \div 4 - year \div 100 + year \div 400 =
                (year - 1) \div 4 - (year - 1) \div 100 + (year - 1) \div 400
                  + (IF IsLeap(year) THEN 1 ELSE 0)
          BY SMTT(30) DEF IsLeap
        <4> QED
          BY <1>2, <2>1, <3>2, <4>1, <4>2, SMTT(30) DEF LeapDaysBefore, DaysToEpoch, Parts
      <3> QED
        BY <3>1, <3>2, SMT
    <2>3. DaysBefore[month] \in Int
      BY SMT DEF DaysBefore
    <2>4. DayNumber(Date(year, month, day)) =
            365 * (year - 1970) + LeapDaysBefore(year) + DaysBefore[month]
            + (IF month > 2 /\ IsLeap(year) THEN 1 ELSE 0) + day - 1
      BY SMT DEF DayNumber, Date
    <2> QED
      BY <2>2, <2>3, <2>4
  <1> QED
    BY <1>4, <1>5, <1>6

(* Of every date, whatever its year.                                        *)
IsADate(d) ==
    /\ d = Date(d.year, d.month, d.day)
    /\ d.year \in Int
    /\ IsDate(d)

LEMMA DatesAreNumbered ==
    ASSUME NEW d, IsADate(d)
    PROVE  /\ DayNumber(d) \in Int
           /\ DaysFromCivil(d) = DayNumber(d)
           /\ FromDaysSinceEpoch(DayNumber(d)) = d
  <1>1. PICK year \in Int, month \in 1..12 : \E day \in 1..DaysInMonth(year, month) :
            d = Date(year, month, day)
    BY DEF IsADate, IsDate
  <1>2. PICK day \in 1..DaysInMonth(year, month) : d = Date(year, month, day)
    BY <1>1
  <1>3. day \in Int
    BY DaysOfAMonth
  <1>4. PICK y \in Int, era \in Int, yoe \in Int, mp \in Int, doy \in Int, doe \in Int, days \in Int :
            Parts(year, month, day, y, era, yoe, mp, doy, doe, days)
    <2> DEFINE y == year - March(month)
               era == y \div 400
               yoe == y - era * 400
               mp == FromMarch(month)
               doy == DaysOfMonths(mp) + day - 1
               doe == DaysOfYears(yoe) + doy
               days == era * DaysOfEra + doe - DaysToEpoch
    <2>1. y \in Int
      BY SMT DEF March
    <2> HIDE DEF y
    <2>2. era \in Int
      BY <2>1, SMT
    <2> HIDE DEF era
    <2>3. yoe \in Int
      BY <2>1, <2>2, SMT
    <2> HIDE DEF yoe
    <2>4. mp \in Int
      BY SMT DEF FromMarch
    <2> HIDE DEF mp
    <2>5. doy \in Int
      BY <1>3, <2>4, SMT DEF DaysOfMonths
    <2> HIDE DEF doy
    <2>6. doe \in Int
      BY <2>3, <2>5, SMT DEF DaysOfYears
    <2> HIDE DEF doe
    <2>7. days \in Int
      BY <2>2, <2>6, SMT DEF DaysOfEra, DaysToEpoch
    <2> HIDE DEF days
    <2>8. Parts(year, month, day, y, era, yoe, mp, doy, doe, days)
      BY Zenon DEF Parts, y, era, yoe, mp, doy, doe, days
    <2> QED
      BY <2>1, <2>2, <2>3, <2>4, <2>5, <2>6, <2>7, <2>8, Zenon
  <1>5. /\ DaysFromCivil(Date(year, month, day)) = days
        /\ FromDaysSinceEpoch(days) = Date(year, month, day)
        /\ DayNumber(Date(year, month, day)) = days
    BY <1>4, FormulasAgree
  <1> QED
    BY <1>2, <1>5, Zenon

(* The clock counts: tomorrow has the next number, over the end of a month, *)
(* a leap day and the turn of a year.                                       *)
LEMMA YearsFollow ==
    ASSUME NEW year \in Int
    PROVE  /\ LeapDaysBefore(year) \in Int
           /\ LeapDaysBefore(year + 1) = LeapDaysBefore(year) + (IF IsLeap(year) THEN 1 ELSE 0)
  <1>1. year \div 4 - year \div 100 + year \div 400 =
          (year - 1) \div 4 - (year - 1) \div 100 + (year - 1) \div 400
            + (IF IsLeap(year) THEN 1 ELSE 0)
    BY SMTT(30) DEF IsLeap
  <1> QED
    BY <1>1, SMT DEF LeapDaysBefore

LEMMA MonthsFollow ==
    ASSUME NEW year \in Int, NEW month \in 1..11
    PROVE  DaysBefore[month + 1] + (IF month + 1 > 2 /\ IsLeap(year) THEN 1 ELSE 0) =
           DaysBefore[month] + (IF month > 2 /\ IsLeap(year) THEN 1 ELSE 0)
           + DaysInMonth(year, month)
  BY SMTT(30) DEF DaysBefore, DaysInMonth

LEMMA NumberOfADate ==
    ASSUME NEW year, NEW month, NEW day
    PROVE  DayNumber(Date(year, month, day)) =
             365 * (year - 1970) + LeapDaysBefore(year) + DaysBefore[month]
             + (IF month > 2 /\ IsLeap(year) THEN 1 ELSE 0) + day - 1
  BY SMT DEF DayNumber, Date

LEMMA TomorrowIsNext ==
    ASSUME IsADate(today)
    PROVE  IsADate(Tomorrow) /\ DayNumber(Tomorrow) = DayNumber(today) + 1
  <1>1. PICK year \in Int, month \in 1..12 : \E day \in 1..DaysInMonth(year, month) :
            today = Date(year, month, day)
    BY DEF IsADate, IsDate
  <1>2. PICK day \in 1..DaysInMonth(year, month) : today = Date(year, month, day)
    BY <1>1
  <1>3. /\ DaysInMonth(year, month) \in 28..31
        /\ day \in Int
    BY DaysOfAMonth
  <1>4. today.year = year /\ today.month = month /\ today.day = day
    BY <1>2, SMT DEF Date
  <1>5. \A m \in 1..12 : DaysBefore[m] \in Int
    BY SMT DEF DaysBefore
  <1>6. LeapDaysBefore(year) \in Int
    BY YearsFollow
  <1>7. DayNumber(today) =
             365 * (year - 1970) + LeapDaysBefore(year) + DaysBefore[month]
             + (IF month > 2 /\ IsLeap(year) THEN 1 ELSE 0) + day - 1
    BY <1>2, NumberOfADate
  <1>8. CASE day < DaysInMonth(year, month)
    <2>1. Tomorrow = Date(year, month, day + 1)
      BY <1>2, <1>4, <1>8, SMT DEF Tomorrow, Date
    <2>2. IsADate(Date(year, month, day + 1))
      BY <1>3, <1>8, SMT DEF IsADate, IsDate, Date
    <2>3. DayNumber(Date(year, month, day + 1)) =
             365 * (year - 1970) + LeapDaysBefore(year) + DaysBefore[month]
             + (IF month > 2 /\ IsLeap(year) THEN 1 ELSE 0) + (day + 1) - 1
      BY NumberOfADate
    <2> QED
      BY <1>3, <1>5, <1>6, <1>7, <2>1, <2>2, <2>3, SMT
  <1>9. CASE ~ (day < DaysInMonth(year, month)) /\ month < 12
    <2>1. Tomorrow = Date(year, month + 1, 1)
      BY <1>4, <1>9, SMT DEF Tomorrow
    <2>2. month \in 1..11 /\ month + 1 \in 1..12 /\ day = DaysInMonth(year, month)
      BY <1>3, <1>9, SMT
    <2>3. DaysInMonth(year, month + 1) \in 28..31
      BY <2>2, SMT DEF DaysInMonth
    <2>4. IsADate(Date(year, month + 1, 1))
      BY <2>2, <2>3, SMT DEF IsADate, IsDate, Date
    <2>5. DayNumber(Date(year, month + 1, 1)) =
             365 * (year - 1970) + LeapDaysBefore(year) + DaysBefore[month + 1]
             + (IF month + 1 > 2 /\ IsLeap(year) THEN 1 ELSE 0) + 1 - 1
      BY NumberOfADate
    <2>6. DaysBefore[month + 1] + (IF month + 1 > 2 /\ IsLeap(year) THEN 1 ELSE 0) =
           DaysBefore[month] + (IF month > 2 /\ IsLeap(year) THEN 1 ELSE 0) + day
      BY <2>2, MonthsFollow
    <2>7. DaysBefore[month] \in Int /\ DaysBefore[month + 1] \in Int
      BY <1>5, <2>2
    <2> QED
      BY <1>3, <1>6, <1>7, <2>1, <2>4, <2>5, <2>6, <2>7, SMT
  <1>10. CASE ~ (day < DaysInMonth(year, month)) /\ month = 12
    <2>1. Tomorrow = Date(year + 1, 1, 1)
      BY <1>4, <1>10, SMT DEF Tomorrow
    <2>2. day = 31 /\ DaysInMonth(year + 1, 1) = 31
      BY <1>3, <1>10, SMT DEF DaysInMonth
    <2>3. IsADate(Date(year + 1, 1, 1))
      BY <2>2, SMT DEF IsADate, IsDate, Date
    <2>4. DayNumber(Date(year + 1, 1, 1)) =
             365 * (year + 1 - 1970) + LeapDaysBefore(year + 1) + DaysBefore[1]
             + (IF 1 > 2 /\ IsLeap(year + 1) THEN 1 ELSE 0) + 1 - 1
      BY NumberOfADate
    <2>5. DaysBefore[1] = 0 /\ DaysBefore[12] = 334
      BY SMT DEF DaysBefore
    <2>6. LeapDaysBefore(year + 1) = LeapDaysBefore(year) + (IF IsLeap(year) THEN 1 ELSE 0)
      BY YearsFollow
    <2> QED
      BY <1>6, <1>7, <1>10, <2>1, <2>2, <2>3, <2>4, <2>5, <2>6, SMT
  <1>11. month < 12 \/ month = 12
    BY SMT
  <1> QED
    BY <1>8, <1>9, <1>10, <1>11

CalendarInv ==
    /\ IsADate(today)
    /\ epoch \in KnownDays
    /\ walked \in Nat
    /\ hour \in {0, 8, 16}
    /\ DayNumber(today) = epoch.days + walked

LEMMA CalendarInitially == CalendarInit => CalendarInv
<1> SUFFICES ASSUME CalendarInit PROVE CalendarInv OBVIOUS
<1>1. IsADate(today) /\ epoch.days = DayNumber(today)
  BY CalendarAssumption DEF CalendarInit, IsADate
<1>2. DayNumber(today) \in Int
  BY <1>1, DatesAreNumbered
<1> QED
  BY <1>1, <1>2, SMT DEF CalendarInit, CalendarInv

LEMMA CalendarSteps == CalendarInv /\ [CalendarNext]_calendarVars => CalendarInv'
<1> SUFFICES ASSUME CalendarInv, [CalendarNext]_calendarVars PROVE CalendarInv'
  OBVIOUS
<1>1. CASE HourPasses /\ hour' # 0
  <2>1. /\ today' = today /\ walked' = walked /\ epoch' = epoch
        /\ hour' \in {0, 8, 16}
    BY <1>1, SMT DEF HourPasses, CalendarInv
  <2> QED
    BY <2>1 DEF CalendarInv, IsADate
<1>2. CASE HourPasses /\ hour' = 0
  <2>1. today' = Tomorrow /\ walked' = walked + 1 /\ epoch' = epoch
    BY <1>2, Zenon DEF HourPasses
  <2>2. IsADate(Tomorrow) /\ DayNumber(Tomorrow) = DayNumber(today) + 1
    BY TomorrowIsNext DEF CalendarInv
  <2>3. IsADate(today')
    BY <2>1, <2>2
  <2>4. epoch.days \in Int
    BY CalendarAssumption, DatesAreNumbered DEF CalendarInv, IsADate
  <2>5. DayNumber(today') = epoch.days + (walked + 1)
    BY <2>1, <2>2, <2>4, SMT DEF CalendarInv
  <2> QED
    BY <1>2, <2>1, <2>3, <2>5, SMT DEF CalendarInv
<1>3. CASE UNCHANGED calendarVars
  BY <1>3 DEF calendarVars, CalendarInv
<1> QED
  BY <1>1, <1>2, <1>3 DEF CalendarNext

(* Every day has one number and every number one day, however long the     *)
(* clock runs and from whatever known date: the two formulas undo each     *)
(* other and count what the clock counts, and the day after the last of a  *)
(* month is refused (date.rs, from_days_since_epoch; fp_window.rs,         *)
(* days_from_civil and parse_stamp).                                       *)
THEOREM EveryDayIsNumbered == CalendarSpec => []EveryDayHasItsNumber
<1>1. CalendarInv => EveryDayHasItsNumber
  <2> SUFFICES ASSUME CalendarInv PROVE EveryDayHasItsNumber OBVIOUS
  <2> DEFINE after == [today EXCEPT !.day = DaysInMonth(today.year, today.month) + 1]
  <2>1. IsADate(today) /\ DayNumber(today) = epoch.days + walked
    BY DEF CalendarInv
  <2>2. /\ DaysFromCivil(today) = epoch.days + walked
        /\ FromDaysSinceEpoch(epoch.days + walked) = today
    BY <2>1, DatesAreNumbered, Zenon
  <2>3. ParseStamp(today, hour, 0, 59) = <<epoch.days + walked, hour * 3600 + 59>>
    BY <2>1, <2>2, SMT DEF ParseStamp, IsADate, CalendarInv
  <2>4. ~ IsDate(after)
    <3>1. DaysInMonth(today.year, today.month) \in 28..31
      BY <2>1, SMT DEF IsADate, IsDate, DaysInMonth
    <3>2. /\ after.year = today.year /\ after.month = today.month
          /\ after.day = DaysInMonth(today.year, today.month) + 1
      BY <2>1, SMT DEF IsADate, Date
    <3> HIDE DEF after
    <3> QED
      BY <3>1, <3>2, SMT DEF IsDate
  <2>5. ParseStamp(after, hour, 0, 0) = Refused
    <3> HIDE DEF after
    <3> QED
      BY <2>4, SMT DEF ParseStamp
  <2> QED
    BY <2>2, <2>3, <2>5, Zenon DEF EveryDayHasItsNumber
<1> QED
  BY <1>1, CalendarInitially, CalendarSteps, PTL DEF CalendarSpec

(***************************************************************************)
(* STATISTICS                                                              *)
(***************************************************************************)

NoteCommit ==
    [machine : {"here", "there"}, time : Nat, notes : [Commits -> SUBSET Reports], past : SUBSET Nat]

\* What has been written: each version is part of the history that there is.
WrittenInv ==
    /\ versions \in Seq(NoteCommit)
    /\ tips \in [here : 0 .. Len(versions), there : 0 .. Len(versions)]
    /\ \A v \in 1 .. Len(versions) : versions[v].past \subseteq 1 .. Len(versions)
    /\ \A v \in 1 .. Len(versions) : \A c \in Commits : IsFiniteSet(versions[v].notes[c])

\* All that was made here is behind this machine's ref, in the order of its clock.
HereInv ==
    /\ \A v \in 1 .. Len(versions) : versions[v].machine = "here" => v \in Past(tips.here)
    /\ \A u, v \in 1 .. Len(versions) :
           versions[u].machine = "here" /\ versions[v].machine = "here" /\ u <= v =>
               versions[u].time <= versions[v].time

\* Whatever was read is somewhere behind the ref.
ReadInv ==
    /\ reading = [at |-> reading.at, commits |-> reading.commits,
                  entries |-> reading.entries, landing |-> reading.landing]
    /\ reading.commits \subseteq Commits
    /\ IsFiniteSet(reading.entries)
    /\ \A e \in reading.entries :
           e.record \in Reports /\ \E v \in Past(tips.here) : e.record \in RecordsIn(v)
    /\ reading.at \in {"dated", "done"} => reading.landing = Landing(tips.here)

ReportInv ==
    report = NoReport \/ /\ reading.at = "done"
                         /\ \/ report = [taken |-> TRUE, refused |-> TRUE]
                            \/ \E w \in Windows :
                                   report = FpWindow(reading.entries, reading.landing, w)

StatsInv == WrittenInv /\ HereInv /\ ReadInv /\ ReportInv

LEMMA NotesAreSets ==
    ASSUME WrittenInv, NEW v \in 0 .. Len(versions)
    PROVE  /\ NotesAt(v) \in [Commits -> SUBSET Reports]
           /\ \A c \in Commits : IsFiniteSet(NotesAt(v)[c])
           /\ Past(v) \subseteq 1 .. Len(versions)
<1>1. CASE v = 0
    BY <1>1, FS_EmptySet DEF NotesAt, NoNotes, Past
<1>2. CASE v # 0
    <2>1. v \in 1 .. Len(versions) /\ versions[v] \in NoteCommit
        BY <1>2 DEF WrittenInv
    <2>2. NotesAt(v) = versions[v].notes /\ Past(v) = versions[v].past \cup {v}
        BY <1>2 DEF NotesAt, Past
    <2> QED BY <2>1, <2>2 DEF NoteCommit, WrittenInv
<1> QED BY <1>1, <1>2

\* A new version keeps all that is said of the old ones.
LEMMA CommitKeeps ==
    ASSUME StatsInv,
           NEW machine \in {"here", "there"}, NEW time \in ClockOf(machine),
           NEW parents \in SUBSET (0 .. Len(versions)), tips[machine] \in parents,
           NEW notes \in [Commits -> SUBSET Reports], \A c \in Commits : IsFiniteSet(notes[c]),
           CommitNotes(machine, time, parents, notes)
    PROVE  StatsInv'
<1> DEFINE n == Len(versions)
           behind == UNION {Past(v) : v \in parents}
           new == [machine |-> machine, time |-> time, notes |-> notes, past |-> behind]
<1>1. n \in Nat /\ versions \in Seq(NoteCommit)
    BY DEF StatsInv, WrittenInv
<1>2. behind \subseteq 1 .. n /\ Past(tips[machine]) \subseteq behind
    <2>1. \A v \in parents : Past(v) \subseteq 1 .. n
        BY NotesAreSets DEF StatsInv
    <2> QED BY <2>1
<1>3. new \in NoteCommit
    <2>1. time \in Nat
        BY StatsAssumption DEF ClockOf
    <2>2. behind \in SUBSET Nat
        <3>1. 1 .. n \subseteq Nat
            BY <1>1
        <3> QED BY <1>2, <3>1
    <2> HIDE DEF behind
    <2> QED BY <2>1, <2>2 DEF NoteCommit
<1>4. /\ versions' = Append(versions, new) /\ tips' = [tips EXCEPT ![machine] = n + 1]
      /\ reading' = reading /\ report' = report /\ reading.at \in {"idle", "notes"}
    BY DEF CommitNotes
<1> HIDE DEF new, behind
<1>5. /\ versions' \in Seq(NoteCommit) /\ Len(versions') = n + 1
      /\ \A v \in 1 .. n : versions'[v] = versions[v]
      /\ versions'[n + 1] = new
    BY <1>1, <1>3, <1>4, AppendProperties
<1>6. /\ tips' \in [here : 0 .. n + 1, there : 0 .. n + 1]
      /\ machine = "here" => tips'.here = n + 1
      /\ machine = "there" => tips'.here = tips.here
    <2>1. tips \in [here : 0 .. n, there : 0 .. n]
        BY DEF StatsInv, WrittenInv
    <2>2. 0 .. n \subseteq 0 .. n + 1 /\ n + 1 \in 0 .. n + 1
        BY <1>1
    <2> HIDE DEF n
    <2>3. CASE machine = "here"
        BY <1>4, <2>1, <2>2, <2>3
    <2>4. CASE machine = "there"
        BY <1>4, <2>1, <2>2, <2>4
    <2> QED BY <2>3, <2>4
<1>7. new.past = behind /\ new.notes = notes /\ new.machine = machine /\ new.time = time
    BY DEF new
<1>8. \A v \in 1 .. n + 1 : v \in 1 .. n \/ v = n + 1
    BY <1>1
<1>9. WrittenInv'
    <2>1. \A v \in 1 .. n + 1 : versions'[v].past \subseteq 1 .. n + 1
        <3>1. 1 .. n \subseteq 1 .. n + 1
            BY <1>1
        <3>2. \A v \in 1 .. n : versions[v].past \subseteq 1 .. n
            BY DEF StatsInv, WrittenInv
        <3> HIDE DEF n
        <3> QED BY <1>2, <1>5, <1>7, <1>8, <3>1, <3>2
    <2>2. \A v \in 1 .. n + 1 : \A c \in Commits : IsFiniteSet(versions'[v].notes[c])
        <3>1. \A v \in 1 .. n : \A c \in Commits : IsFiniteSet(versions[v].notes[c])
            BY DEF StatsInv, WrittenInv
        <3> HIDE DEF n
        <3> QED BY <1>5, <1>7, <1>8, <3>1
    <2> HIDE DEF n
    <2> QED BY <1>5, <1>6, <2>1, <2>2 DEF WrittenInv
<1>10. tips.here \in 0 .. n /\ Past(tips.here) \subseteq Past(tips.here)'
       /\ (machine = "here" => n + 1 \in Past(tips.here)')
    <2>0. tips.here \in 0 .. n
        BY DEF StatsInv, WrittenInv
    <2>1. CASE machine = "here"
        <3>1. Past(tips.here)' = behind \cup {n + 1}
            BY <1>1, <1>5, <1>6, <1>7, <2>1 DEF Past
        <3> QED BY <1>2, <2>0, <2>1, <3>1
    <2>2. CASE machine = "there"
        <3>1. tips.here # 0 => versions'[tips.here] = versions[tips.here]
            BY <1>5, <2>0
        <3>2. Past(tips.here)' = Past(tips.here)
            BY <1>6, <2>2, <3>1 DEF Past
        <3> QED BY <2>0, <2>2, <3>2
    <2> QED BY <2>1, <2>2
<1>11. HereInv'
    <2>1. \A v \in 1 .. n + 1 : versions'[v].machine = "here" => v \in Past(tips.here)'
        BY <1>5, <1>7, <1>8, <1>10 DEF StatsInv, HereInv
    <2>2. ASSUME NEW u \in 1 .. n + 1, NEW v \in 1 .. n + 1, u <= v,
                 versions'[u].machine = "here", versions'[v].machine = "here"
          PROVE  versions'[u].time <= versions'[v].time
        <3>1. CASE v = n + 1
            <4>1. CASE u = n + 1
                BY <1>3, <1>5, <1>7, <3>1, <4>1 DEF NoteCommit
            <4>2. CASE u \in 1 .. n
                <5>1. u \in DOMAIN versions
                    BY <1>1, <4>2
                <5>2. versions[u].machine = machine
                    BY <1>5, <1>7, <2>2, <3>1, <4>2
                <5> QED BY <1>5, <1>7, <3>1, <4>2, <5>1, <5>2 DEF ClockOf
            <4> QED BY <1>8, <4>1, <4>2
        <3>2. CASE v \in 1 .. n
            <4>1. u \in 1 .. n
                BY <1>1, <2>2, <3>2
            <4> QED BY <1>5, <2>2, <3>2, <4>1 DEF StatsInv, HereInv
        <3> QED BY <1>8, <3>1, <3>2
    <2> HIDE DEF n
    <2> QED BY <1>5, <2>1, <2>2 DEF HereInv
<1>12. ReadInv'
    <2>1. Past(tips.here) \subseteq 1 .. n
        BY <1>10, NotesAreSets DEF StatsInv
    <2>2. ASSUME NEW e \in reading.entries
          PROVE  e.record \in Reports /\ \E v \in Past(tips.here)' : e.record \in RecordsIn(v)'
        <3>1. e.record \in Reports
            BY DEF StatsInv, ReadInv
        <3>2. PICK v \in Past(tips.here) : e.record \in RecordsIn(v)
            BY DEF StatsInv, ReadInv
        <3>3. RecordsIn(v)' = RecordsIn(v)
            BY <1>5, <2>1 DEF RecordsIn
        <3> QED BY <1>10, <3>1, <3>2, <3>3
    <2>3. ReadInv
        BY DEF StatsInv
    <2> QED BY <1>4, <2>2, <2>3 DEF ReadInv
<1>13. ReportInv'
    BY <1>4 DEF StatsInv, ReportInv
<1> QED BY <1>9, <1>11, <1>12, <1>13 DEF StatsInv

LEMMA StatsStart == ASSUME StatsInit PROVE StatsInv
<1>1. versions = <<>> /\ tips = [here |-> 0, there |-> 0] /\ reading = StartReading /\ report = NoReport
    BY DEF StatsInit
<1>2. Len(versions) = 0 /\ versions \in Seq(NoteCommit) /\ 1 .. Len(versions) = {}
    BY <1>1
<1>3. WrittenInv
    BY <1>1, <1>2 DEF WrittenInv
<1>4. HereInv
    BY <1>2 DEF HereInv
<1>5. ReadInv
    BY <1>1, FS_EmptySet DEF ReadInv, StartReading
<1> QED BY <1>1, <1>3, <1>4, <1>5 DEF StatsInv, ReportInv

\* The writers.
LEMMA AppendKeeps ==
    ASSUME StatsInv, NEW machine \in {"here", "there"}, NEW c \in Commits, NEW r \in Reports,
           AppendReport(machine, c, r)
    PROVE  StatsInv'
<1> DEFINE old == NotesAt(tips[machine])
           notes == [old EXCEPT ![c] = @ \cup {r}]
<1>1. tips[machine] \in 0 .. Len(versions)
    BY DEF StatsInv, WrittenInv
<1>2. old \in [Commits -> SUBSET Reports] /\ \A d \in Commits : IsFiniteSet(old[d])
    BY <1>1, NotesAreSets DEF StatsInv
<1>3. PICK time \in ClockOf(machine) : CommitNotes(machine, time, {tips[machine]}, notes)
    BY DEF AppendReport
<1> HIDE DEF old
<1>4. notes \in [Commits -> SUBSET Reports] /\ \A d \in Commits : notes[d] = IF d = c THEN old[c] \cup {r} ELSE old[d]
    BY <1>2
<1>5. IsFiniteSet(old[c] \cup {r})
    BY <1>2, FS_Singleton, FS_Union
<1>6. \A d \in Commits : IsFiniteSet(notes[d])
    BY <1>2, <1>4, <1>5
<1> HIDE DEF notes
<1>7. {tips[machine]} \in SUBSET (0 .. Len(versions)) /\ tips[machine] \in {tips[machine]}
    BY <1>1
<1> QED BY <1>3, <1>4, <1>6, <1>7, CommitKeeps

LEMMA MigrateKeeps ==
    ASSUME StatsInv, NEW from \in Commits, NEW to \in Commits, MigrateReports(from, to)
    PROVE  StatsInv'
<1> DEFINE old == NotesAt(tips.here)
           notes == [old EXCEPT ![to] = @ \cup old[from]]
<1>1. tips.here \in 0 .. Len(versions)
    BY DEF StatsInv, WrittenInv
<1>2. old \in [Commits -> SUBSET Reports] /\ \A d \in Commits : IsFiniteSet(old[d])
    BY <1>1, NotesAreSets DEF StatsInv
<1>3. PICK time \in ClockOf("here") : CommitNotes("here", time, {tips.here}, notes)
    BY DEF MigrateReports
<1> HIDE DEF old
<1>4. notes \in [Commits -> SUBSET Reports] /\ \A d \in Commits : notes[d] = IF d = to THEN old[to] \cup old[from] ELSE old[d]
    BY <1>2
<1>5. IsFiniteSet(old[to] \cup old[from])
    BY <1>2, FS_Union
<1>6. \A d \in Commits : IsFiniteSet(notes[d])
    BY <1>2, <1>4, <1>5
<1> HIDE DEF notes
<1>7. {tips.here} \in SUBSET (0 .. Len(versions)) /\ tips["here"] \in {tips.here}
    BY <1>1
<1> QED BY <1>3, <1>4, <1>6, <1>7, CommitKeeps

LEMMA MergeKeeps == ASSUME StatsInv, MergeReports PROVE StatsInv'
<1> DEFINE ours == NotesAt(tips.here)
           theirs == NotesAt(tips.there)
           notes == [c \in Commits |-> ours[c] \cup theirs[c]]
<1>1. tips.here \in 0 .. Len(versions) /\ tips.there \in 0 .. Len(versions)
    BY DEF StatsInv, WrittenInv
<1>2. /\ ours \in [Commits -> SUBSET Reports] /\ \A d \in Commits : IsFiniteSet(ours[d])
      /\ theirs \in [Commits -> SUBSET Reports] /\ \A d \in Commits : IsFiniteSet(theirs[d])
    BY <1>1, NotesAreSets DEF StatsInv
<1>3. PICK time \in ClockOf("here") : CommitNotes("here", time, {tips.here, tips.there}, notes)
    BY DEF MergeReports
<1> HIDE DEF ours, theirs
<1>4. notes \in [Commits -> SUBSET Reports] /\ \A d \in Commits : notes[d] = ours[d] \cup theirs[d]
    BY <1>2
<1>5. \A d \in Commits : IsFiniteSet(notes[d])
    BY <1>2, <1>4, FS_Union
<1> HIDE DEF notes
<1>6. {tips.here, tips.there} \in SUBSET (0 .. Len(versions)) /\ tips["here"] \in {tips.here, tips.there}
    BY <1>1
<1> QED BY <1>3, <1>4, <1>5, <1>6, CommitKeeps

\* The reader.
LEMMA ListKeeps == ASSUME StatsInv, ListCommits PROVE StatsInv'
<1> DEFINE noted == {c \in Commits : NotesAt(tips.here)[c] # {}}
<1>1. reading' = [reading EXCEPT !.at = "notes", !.commits = noted] /\ reading.at = "idle"
      /\ versions' = versions /\ tips' = tips /\ report' = report
    BY DEF ListCommits
<1>2. noted \subseteq Commits
    OBVIOUS
<1> HIDE DEF noted
<1>3. reading' = [at |-> "notes", commits |-> noted, entries |-> reading.entries, landing |-> reading.landing]
    BY <1>1 DEF StatsInv, ReadInv
<1>4. WrittenInv' /\ HereInv'
    BY <1>1 DEF StatsInv, WrittenInv, HereInv, Past
<1>5. ReadInv'
    <2>1. Past(tips.here)' = Past(tips.here) /\ \A v : RecordsIn(v)' = RecordsIn(v)
        BY <1>1 DEF Past, RecordsIn
    <2> QED BY <1>2, <1>3, <2>1 DEF StatsInv, ReadInv
<1>6. ReportInv'
    BY <1>1 DEF StatsInv, ReportInv
<1> QED BY <1>4, <1>5, <1>6 DEF StatsInv

LEMMA ReadNoteKeeps == ASSUME StatsInv, ReadNote PROVE StatsInv'
<1> DEFINE c == Min(reading.commits)
           note == NotesAt(tips.here)[c]
           filed == {[commit |-> c, record |-> r] : r \in note}
<1>1. /\ reading' = [reading EXCEPT !.commits = @ \ {c}, !.entries = @ \cup filed]
      /\ reading.at = "notes" /\ reading.commits # {}
      /\ versions' = versions /\ tips' = tips /\ report' = report
    BY DEF ReadNote
<1>2. c \in Commits
    <2>1. reading.commits \in SUBSET Nat /\ reading.commits \subseteq Commits
        BY StatsAssumption DEF StatsInv, ReadInv
    <2> QED BY <1>1, <2>1, LeastIsThere
<1>3. tips.here \in 0 .. Len(versions)
    BY DEF StatsInv, WrittenInv
<1>4. note \subseteq Reports /\ IsFiniteSet(note)
    <2> HIDE DEF c
    <2> QED BY <1>2, <1>3, NotesAreSets DEF StatsInv
<1>5. IsFiniteSet(filed)
    <2> DEFINE f == [r \in note |-> [commit |-> c, record |-> r]]
    <2> HIDE DEF c, note
    <2>1. f \in Surjection(note, filed)
        BY DEF Surjection
    <2> QED BY <1>4, <2>1, FS_Surjection
<1>6. \A e \in filed : e.record \in Reports /\ \E v \in Past(tips.here) : e.record \in RecordsIn(v)
    <2> SUFFICES ASSUME NEW r \in note
                 PROVE  r \in Reports /\ \E v \in Past(tips.here) : r \in RecordsIn(v)
        <3> HIDE DEF note, c
        <3> QED OBVIOUS
    <2>1. tips.here # 0
        BY <1>2 DEF NotesAt, NoNotes
    <2>2. tips.here \in Past(tips.here) /\ r \in RecordsIn(tips.here)
        BY <1>2, <2>1 DEF Past, NotesAt, RecordsIn
    <2> QED BY <1>4, <2>2
<1> HIDE DEF c, note, filed
<1>7. reading' = [at |-> "notes", commits |-> reading.commits \ {c},
                  entries |-> reading.entries \cup filed, landing |-> reading.landing]
    BY <1>1 DEF StatsInv, ReadInv
<1>8. WrittenInv' /\ HereInv'
    BY <1>1 DEF StatsInv, WrittenInv, HereInv, Past
<1>9. ReadInv'
    <2>1. IsFiniteSet(reading.entries \cup filed)
        BY <1>5, FS_Union DEF StatsInv, ReadInv
    <2>2. Past(tips.here)' = Past(tips.here) /\ \A v : RecordsIn(v)' = RecordsIn(v)
        BY <1>1 DEF Past, RecordsIn
    <2>3. \A e \in reading.entries \cup filed :
             e.record \in Reports /\ \E v \in Past(tips.here) : e.record \in RecordsIn(v)
        BY <1>6 DEF StatsInv, ReadInv
    <2>4. reading.commits \ {c} \subseteq Commits
        BY DEF StatsInv, ReadInv
    <2> QED BY <1>7, <2>1, <2>2, <2>3, <2>4 DEF ReadInv
<1>10. ReportInv'
    BY <1>1 DEF StatsInv, ReportInv
<1> QED BY <1>8, <1>9, <1>10 DEF StatsInv

LEMMA LandingKeeps == ASSUME StatsInv, LandingTimes PROVE StatsInv'
<1>1. /\ reading' = [reading EXCEPT !.at = "dated", !.landing = Landing(tips.here)]
      /\ reading.at = "notes" /\ versions' = versions /\ tips' = tips /\ report' = report
    BY DEF LandingTimes
<1>2. reading' = [at |-> "dated", commits |-> reading.commits,
                  entries |-> reading.entries, landing |-> Landing(tips.here)]
    BY <1>1 DEF StatsInv, ReadInv
<1>3. WrittenInv' /\ HereInv'
    BY <1>1 DEF StatsInv, WrittenInv, HereInv, Past
<1>4. Past(tips.here)' = Past(tips.here) /\ (\A v : RecordsIn(v)' = RecordsIn(v))
      /\ Landing(tips.here)' = Landing(tips.here)
    BY <1>1 DEF Past, RecordsIn, Landing
<1>5. ReadInv'
    BY <1>2, <1>4 DEF StatsInv, ReadInv
<1>6. ReportInv'
    BY <1>1 DEF StatsInv, ReportInv
<1> QED BY <1>3, <1>5, <1>6 DEF StatsInv

LEMMA WindowKeeps == ASSUME StatsInv, NEW w \in Windows, MeasureWindow(w) PROVE StatsInv'
<1>1. /\ reading' = [reading EXCEPT !.at = "done"] /\ reading.at = "dated"
      /\ report' = IF w.until < w.since THEN [taken |-> TRUE, refused |-> TRUE]
                   ELSE FpWindow(reading.entries, reading.landing, w)
      /\ versions' = versions /\ tips' = tips
    BY DEF MeasureWindow
<1>2. reading' = [at |-> "done", commits |-> reading.commits,
                  entries |-> reading.entries, landing |-> reading.landing]
    BY <1>1 DEF StatsInv, ReadInv
<1>3. WrittenInv' /\ HereInv'
    BY <1>1 DEF StatsInv, WrittenInv, HereInv, Past
<1>4. Past(tips.here)' = Past(tips.here) /\ (\A v : RecordsIn(v)' = RecordsIn(v))
      /\ Landing(tips.here)' = Landing(tips.here)
    BY <1>1 DEF Past, RecordsIn, Landing
<1>5. ReadInv'
    BY <1>1, <1>2, <1>4 DEF StatsInv, ReadInv
<1>6. ReportInv'
    BY <1>1, <1>2 DEF ReportInv
<1> QED BY <1>3, <1>5, <1>6 DEF StatsInv

LEMMA StatsStep == ASSUME StatsInv, [StatsNext]_statsVars PROVE StatsInv'
<1>1. CASE UNCHANGED statsVars
    <2>1. versions' = versions /\ tips' = tips /\ reading' = reading /\ report' = report
        BY <1>1 DEF statsVars
    <2>2. Past(tips.here)' = Past(tips.here) /\ (\A v : RecordsIn(v)' = RecordsIn(v))
          /\ Landing(tips.here)' = Landing(tips.here)
        BY <2>1 DEF Past, RecordsIn, Landing
    <2>3. WrittenInv' /\ HereInv'
        BY <2>1, <2>2 DEF StatsInv, WrittenInv, HereInv
    <2>4. ReadInv' /\ ReportInv'
        BY <2>1, <2>2 DEF StatsInv, ReadInv, ReportInv
    <2> QED BY <2>3, <2>4 DEF StatsInv
<1>2. CASE StatsNext
    BY <1>2, AppendKeeps, MigrateKeeps, MergeKeeps, ListKeeps, ReadNoteKeeps, LandingKeeps, WindowKeeps
       DEF StatsNext
<1> QED BY <1>1, <1>2

LEMMA TimesAreNumbers ==
    ASSUME StatsInv PROVE \A v \in 1 .. Len(versions) : versions[v].time \in Nat
<1> SUFFICES ASSUME NEW v \in 1 .. Len(versions) PROVE versions[v].time \in Nat
    OBVIOUS
<1>1. versions[v] \in NoteCommit
    BY DEF StatsInv, WrittenInv
<1> QED BY <1>1 DEF NoteCommit

\* Entries of one kind or another.
LEMMA EntriesSplit ==
    ASSUME StatsInv, reading.at = "done", NEW w \in Windows
    PROVE  LET in == Landed(reading.entries, reading.landing, w)
               others == reading.entries \ SelfReports(reading.entries)
               outside == {e \in SelfReports(reading.entries) :
                             /\ e.record \in DOMAIN reading.landing
                             /\ reading.landing[e.record] \notin w.since .. w.until}
           IN  /\ Undated(reading.entries, reading.landing) = {}
               /\ Cardinality(in) + Cardinality(others) + Cardinality(outside)
                    = Cardinality(reading.entries)
<1> DEFINE entries == reading.entries
           landing == reading.landing
           in == Landed(entries, landing, w)
           others == entries \ SelfReports(entries)
           outside == {e \in SelfReports(entries) :
                         e.record \in DOMAIN landing /\ landing[e.record] \notin w.since .. w.until}
<1>1. \A e \in entries : e.record \in DOMAIN landing /\ landing[e.record] \in Nat
    <2> SUFFICES ASSUME NEW e \in entries PROVE e.record \in DOMAIN landing /\ landing[e.record] \in Nat
        OBVIOUS
    <2> DEFINE r == e.record
               times == {versions[v].time : v \in {u \in Past(tips.here) : r \in RecordsIn(u)}}
    <2>1. landing = Landing(tips.here)
        BY DEF StatsInv, ReadInv
    <2>2. PICK v \in Past(tips.here) : r \in RecordsIn(v)
        BY DEF StatsInv, ReadInv
    <2>3. r \in DOMAIN landing /\ landing[r] = Min(times)
        BY <2>1, <2>2 DEF Landing
    <2>4. times \in SUBSET Nat /\ times # {}
        <3>1. Past(tips.here) \subseteq 1 .. Len(versions)
            BY NotesAreSets DEF StatsInv, WrittenInv
        <3>2. \A u \in 1 .. Len(versions) : versions[u].time \in Nat
            BY TimesAreNumbers
        <3> QED BY <2>2, <3>1, <3>2
    <2> HIDE DEF times, r
    <2>5. Min(times) \in Nat
        BY <2>4, LeastIsThere
    <2> QED BY <2>3, <2>5 DEF r
<1>2. Undated(entries, landing) = {}
    BY <1>1 DEF Undated, SelfReports
<1>3. in \cap others = {} /\ in \cap outside = {} /\ others \cap outside = {} /\ entries = (in \cup others) \cup outside
    <2>1. w.since \in Int /\ w.until \in Int
        BY StatsAssumption
    <2>2. ASSUME NEW n \in Nat PROVE n \in w.since .. w.until <=> w.since <= n /\ n <= w.until
        BY <2>1
    <2>3. in = {e \in SelfReports(entries) : w.since <= landing[e.record] /\ landing[e.record] <= w.until}
        BY <1>2 DEF Landed
    <2>4. in = {e \in SelfReports(entries) : landing[e.record] \in w.since .. w.until}
        BY <1>1, <2>2, <2>3 DEF SelfReports
    <2>5. SelfReports(entries) \subseteq entries
        BY DEF SelfReports
    <2> HIDE DEF entries, landing, in
    <2> QED BY <1>1, <2>4, <2>5
<1>4. IsFiniteSet(entries)
    BY DEF StatsInv, ReadInv
<1> HIDE DEF in, others, outside, entries, landing
<1>5. IsFiniteSet(in) /\ IsFiniteSet(others) /\ IsFiniteSet(outside)
    BY <1>3, <1>4, FS_Subset
<1>6. Cardinality(in \cup others) = Cardinality(in) + Cardinality(others) /\ IsFiniteSet(in \cup others)
    <2>1. Cardinality(in \cap others) = 0
        BY <1>3, FS_EmptySet
    <2>2. Cardinality(in \cup others) = Cardinality(in) + Cardinality(others) - Cardinality(in \cap others)
          /\ IsFiniteSet(in \cup others)
        BY <1>5, FS_Union
    <2> QED BY <1>5, <2>1, <2>2, FS_CardinalityType
<1>7. Cardinality(entries) = Cardinality(in \cup others) + Cardinality(outside)
    <2>1. (in \cup others) \cap outside = {}
        BY <1>3
    <2>2. Cardinality((in \cup others) \cap outside) = 0
        BY <2>1, FS_EmptySet
    <2>3. Cardinality((in \cup others) \cup outside)
            = Cardinality(in \cup others) + Cardinality(outside) - Cardinality((in \cup others) \cap outside)
        BY <1>5, <1>6, FS_Union
    <2>4. Cardinality(in \cup others) \in Nat /\ Cardinality(outside) \in Nat
        BY <1>5, <1>6, FS_CardinalityType
    <2> QED BY <1>3, <2>2, <2>3, <2>4
<1> QED BY <1>2, <1>6, <1>7 DEF in, others, outside, entries, landing

\* A record of this machine is filed under the second of its first version.
LEMMA FirstAppended ==
    ASSUME StatsInv, reading.at = "done", NEW e \in reading.entries, WrittenHere(e.record)
    PROVE  reading.landing[e.record] = versions[Min(Holding(e.record))].time
<1> DEFINE r == e.record
           times == {versions[v].time : v \in {u \in Past(tips.here) : r \in RecordsIn(u)}}
           first == Min(Holding(r))
<1>1. Past(tips.here) \subseteq 1 .. Len(versions) /\ DOMAIN versions = 1 .. Len(versions)
      /\ Len(versions) \in Nat
    BY NotesAreSets DEF StatsInv, WrittenInv
<1>2. PICK v \in Past(tips.here) : r \in RecordsIn(v)
    BY DEF StatsInv, ReadInv
<1>3. reading.landing[r] = Min(times)
    BY <1>2 DEF StatsInv, ReadInv, Landing
<1>4. \A u \in 1 .. Len(versions) : versions[u].time \in Nat
    BY TimesAreNumbers
<1>5. Holding(r) \in SUBSET Nat /\ Holding(r) \subseteq 1 .. Len(versions) /\ v \in Holding(r)
    BY <1>1, <1>2 DEF Holding
<1>6. first \in Holding(r) /\ \A u \in Holding(r) : first <= u
    BY <1>5, LeastIsThere
<1>7. \A u \in Holding(r) : u \in Past(tips.here) /\ versions[first].time <= versions[u].time
    <2>1. \A u \in Holding(r) : versions[u].machine = "here"
        BY DEF WrittenHere
    <2> HIDE DEF first, r
    <2> QED BY <1>5, <1>6, <2>1 DEF StatsInv, HereInv
<1>8. times = {versions[u].time : u \in Holding(r)}
    BY <1>1, <1>7 DEF Holding
<1> HIDE DEF first, r, times
<1>9. times \in SUBSET Nat /\ versions[first].time \in times /\ \A t \in times : versions[first].time <= t
    BY <1>4, <1>5, <1>6, <1>7, <1>8
<1>10. Min(times) \in times /\ Min(times) <= versions[first].time
    BY <1>9, LeastIsThere
<1>11. Min(times) = versions[first].time
    <2>1. Min(times) \in Nat /\ versions[first].time \in Nat /\ versions[first].time <= Min(times)
        BY <1>9, <1>10
    <2> QED BY <1>10, <2>1
<1> QED BY <1>3, <1>11 DEF first, r

LEMMA GroupsAreFinite ==
    ASSUME NEW entries, IsFiniteSet(entries), \A e \in entries : e.record \in Reports,
           NEW metric, NEW regime
    PROVE  /\ IsFiniteSet(Group(entries, metric, regime))
           /\ \A v \in Group(entries, metric, regime) :
                  v.result \in UNION {r.results : r \in Reports} /\ v.result.metric = metric
<1> DEFINE found == {e.record.results : e \in entries}
           f == [e \in entries |-> e.record.results]
           g == [p \in entries \X UNION found |-> [entry |-> p[1], result |-> p[2]]]
<1>1. IsFiniteSet(found)
    <2>1. f \in Surjection(entries, found)
        BY DEF Surjection
    <2> QED BY <2>1, FS_Surjection
<1>2. \A T \in found : IsFiniteSet(T)
    BY StatsAssumption
<1>3. IsFiniteSet(UNION found)
    <2> HIDE DEF found
    <2> QED BY <1>1, <1>2, FS_UNION
<1>4. IsFiniteSet(Values(entries))
    <2>1. Values(entries) = {[entry |-> e, result |-> x] : e \in entries, x \in UNION found}
        BY DEF Values
    <2> HIDE DEF found
    <2>2. g \in Surjection(entries \X UNION found, Values(entries))
        <3>1. g \in [entries \X UNION found -> Values(entries)]
            BY <2>1
        <3>2. ASSUME NEW e \in entries, NEW x \in UNION found
              PROVE  \E p \in entries \X UNION found : g[p] = [entry |-> e, result |-> x]
            <4>1. <<e, x>> \in entries \X UNION found /\ <<e, x>>[1] = e /\ <<e, x>>[2] = x
                OBVIOUS
            <4> QED BY <4>1
        <3> HIDE DEF g
        <3>3. ASSUME NEW v \in Values(entries) PROVE \E p \in entries \X UNION found : g[p] = v
            <4>1. PICK e \in entries, x \in UNION found : v = [entry |-> e, result |-> x]
                BY <2>1
            <4> QED BY <3>2, <4>1
        <3> QED BY <3>1, <3>3 DEF Surjection
    <2>3. IsFiniteSet(entries \X UNION found)
        BY <1>3, FS_Product
    <2> HIDE DEF g
    <2> QED BY <2>2, <2>3, FS_Surjection
<1>5. Group(entries, metric, regime) \subseteq Values(entries)
    BY DEF Group
<1>6. ASSUME NEW v \in Group(entries, metric, regime)
      PROVE  v.result \in UNION {r.results : r \in Reports} /\ v.result.metric = metric
    <2>1. v \in Values(entries) /\ v.result \in v.entry.record.results /\ v.result.metric = metric
        BY DEF Group
    <2>2. v.entry \in entries
        BY <2>1 DEF Values
    <2> QED BY <2>1, <2>2
<1> QED BY <1>4, <1>5, <1>6, FS_Subset

\* Whoever is in the band of a rung clear of zero is not zero.
LEMMA BandsAreClear ==
    ASSUME NEW rung, NEW value, ~ ContainsZero(BandOf(rung)), InBand(rung, value)
    PROVE  value.at # 0
<1> DEFINE floor == BandOf(rung).floor
           ceiling == BandOf(rung).ceiling
<1>1. ~ (floor <= 0 /\ 0 < ceiling)
    BY DEF ContainsZero
<1>2. CLUSTER_BAND * value.at >= floor /\ CLUSTER_BAND * value.at < ceiling
    BY DEF InBand
<1> HIDE DEF floor, ceiling
<1>3. ASSUME value.at = 0 PROVE FALSE
    <2>1. CLUSTER_BAND * 0 = 0
        BY StatsAssumption
    <2> QED BY <1>1, <1>2, <1>3, <2>1
<1> QED BY <1>3

LEMMA Doubled == ASSUME NEW i \in Nat, NEW w \in Nat, w >= 2 PROVE i * w >= i + i
<1> DEFINE k == w - 2
<1>1. k \in Nat /\ w = k + 2
    OBVIOUS
<1> HIDE DEF k
<1>2. i * (k + 2) = i * k + i * 2
    BY <1>1
<1>3. i * k \in Nat /\ i * 2 = i + i
    BY <1>1
<1> QED BY <1>1, <1>2, <1>3

LEMMA OneRung ==
    ASSUME NEW entries, IsFiniteSet(entries), \A e \in entries : e.record \in Reports,
           NEW metric \in DOMAIN Ladders, NEW rung \in Ladders[metric], NEW regime
    PROVE  LET shaved == Cardinality(Shaved(entries, metric, regime, rung))
               honest == Cardinality(Honest(entries, metric, regime, rung))
               warned == ClusterWarning(rung, Group(entries, metric, regime))
           IN  /\ shaved >= CLUSTER_MIN_SAMPLES /\ shaved >= honest => warned
               /\ warned => shaved >= CLUSTER_MIN_SAMPLES
<1> DEFINE group == Group(entries, metric, regime)
           shaved == Shaved(entries, metric, regime, rung)
           honest == Honest(entries, metric, regime, rung)
           total == Population(rung, group)
           inBand == {v \in total : InBand(rung, v.result.value)}
<1>1. IsFiniteSet(group)
    BY GroupsAreFinite
<1>2. ASSUME NEW v \in group
      PROVE  rung \in v.result.shavedUnder <=>
                 /\ OnAxis(rung, v.result.value) /\ InBand(rung, v.result.value)
                 /\ ~ ContainsZero(BandOf(rung))
    <2>1. v.result \in {y \in UNION {r.results : r \in Reports} : y.metric = metric}
        BY GroupsAreFinite
    <2> QED BY <2>1, ShavingIsJustUnder
<1>3. ~ ContainsZero(BandOf(rung)) => inBand = shaved
    BY <1>2, BandsAreClear DEF Shaved, Population
<1>4. ContainsZero(BandOf(rung)) => shaved = {}
    BY <1>2 DEF Shaved
<1>5. total = inBand \cup (total \ inBand) /\ shaved \subseteq group /\ total \subseteq group
    BY DEF Shaved, Population
<1>6. honest = {v \in total : rung \notin v.result.shavedUnder}
    BY DEF Honest
<1>7. ~ ContainsZero(BandOf(rung)) => total = shaved \cup honest
    <2>1. inBand \subseteq total /\ shaved \subseteq group
        BY <1>5
    <2>2. shaved = {v \in group : rung \in v.result.shavedUnder}
        BY DEF Shaved
    <2> HIDE DEF inBand, total, honest, shaved, group
    <2> QED BY <1>3, <1>5, <1>6, <2>1, <2>2
<1>8. ClusterWarning(rung, group) <=>
          /\ ~ ContainsZero(BandOf(rung))
          /\ Cardinality(inBand) >= CLUSTER_MIN_SAMPLES
          /\ Cardinality(inBand) * CLUSTER_WARN >= Cardinality(total)
    BY DEF ClusterWarning
<1>9. honest \subseteq group
    BY <1>5, <1>6
<1> DEFINE s == Cardinality(shaved)
           h == Cardinality(honest)
<1> HIDE DEF group, shaved, honest, total, inBand
<1>10. IsFiniteSet(shaved) /\ IsFiniteSet(honest) /\ s \in Nat /\ h \in Nat
    BY <1>1, <1>5, <1>9, FS_Subset, FS_CardinalityType
<1>11. Cardinality(shaved \cup honest) <= s + h /\ Cardinality(shaved \cup honest) \in Nat
    <2>1. /\ IsFiniteSet(shaved \cup honest)
          /\ Cardinality(shaved \cup honest) = s + h - Cardinality(shaved \cap honest)
        BY <1>10, FS_Union
    <2>2. IsFiniteSet(shaved \cap honest)
        BY <1>10, FS_Subset
    <2>3. Cardinality(shaved \cup honest) \in Nat /\ Cardinality(shaved \cap honest) \in Nat
        BY <2>1, <2>2, FS_CardinalityType
    <2> QED BY <1>10, <2>1, <2>3
<1>12. shaved = {} => s = 0
    BY FS_EmptySet
<1> HIDE DEF s, h
<1>13. CLUSTER_MIN_SAMPLES \in Nat \ {0} /\ CLUSTER_WARN \in Nat /\ CLUSTER_WARN >= 2
    BY StatsAssumption
<1>14. ASSUME s >= CLUSTER_MIN_SAMPLES, s >= h PROVE ClusterWarning(rung, group)
    <2>1. ~ ContainsZero(BandOf(rung))
        BY <1>4, <1>10, <1>12, <1>13, <1>14
    <2>2. Cardinality(inBand) = s /\ Cardinality(total) <= s + h
        BY <1>3, <1>7, <1>11, <2>1 DEF s
    <2>3. s * CLUSTER_WARN >= s + s /\ s * CLUSTER_WARN \in Nat
        BY <1>10, <1>13, Doubled
    <2>4. Cardinality(total) \in Nat
        BY <1>7, <1>11, <2>1
    <2>5. s * CLUSTER_WARN >= Cardinality(total)
        BY <1>10, <1>14, <2>2, <2>3, <2>4
    <2> QED BY <1>8, <1>14, <2>1, <2>2, <2>5
<1>15. ASSUME ClusterWarning(rung, group) PROVE s >= CLUSTER_MIN_SAMPLES
    BY <1>3, <1>8, <1>15 DEF s
<1> QED BY <1>14, <1>15 DEF s, h, shaved, honest, group

LEMMA WarningsAreOfRungs ==
    ASSUME NEW entries, NEW metric \in DOMAIN Ladders, NEW regime \in RegimesOf(entries, metric),
           NEW rung \in Ladders[metric]
    PROVE  [metric |-> metric, regime |-> regime, rung |-> rung] \in ClusterWarnings(entries)
             <=> ClusterWarning(rung, Group(entries, metric, regime))
<1> DEFINE w == [metric |-> metric, regime |-> regime, rung |-> rung]
<1>1. w \in ClusterWarnings(entries) <=>
        \E m \in DOMAIN Ladders : \E g \in RegimesOf(entries, m) :
          \E r \in Ladders[m] : /\ ClusterWarning(r, Group(entries, m, g))
                                /\ w = [metric |-> m, regime |-> g, rung |-> r]
    <2> HIDE DEF w
    <2> QED BY DEF ClusterWarnings
<1>2. ASSUME NEW m, NEW g, NEW r, w = [metric |-> m, regime |-> g, rung |-> r]
      PROVE  m = metric /\ g = regime /\ r = rung
    <2>1. w.metric = metric /\ w.regime = regime /\ w.rung = rung
        OBVIOUS
    <2> HIDE DEF w
    <2> QED BY <1>2, <2>1
<1> HIDE DEF w
<1>3. ASSUME ClusterWarning(rung, Group(entries, metric, regime)) PROVE w \in ClusterWarnings(entries)
    <2>1. w = [metric |-> metric, regime |-> regime, rung |-> rung]
        BY DEF w
    <2> QED BY <1>1, <1>3, <2>1
<1> QED BY <1>1, <1>2, <1>3 DEF w

\* Whatever is written while the ledger is read, its statistics are of the
\* records it holds (fp_window.rs and stats.rs).
THEOREM StatisticsTellTheLedger == StatsSpec => []StatisticsAreOfTheRecords
<1>1. StatsInit => StatsInv
    BY StatsStart
<1>2. StatsInv /\ [StatsNext]_statsVars => StatsInv'
    BY StatsStep
<1>3. StatsInv => StatisticsAreOfTheRecords
    <2> SUFFICES ASSUME StatsInv, WindowTaken PROVE StatisticsAreOfTheRecords
        BY DEF StatisticsAreOfTheRecords, EveryRecordIsCounted, ShavingIsWarned
    <2>1. PICK w \in Windows : report = FpWindow(reading.entries, reading.landing, w)
        BY DEF StatsInv, ReportInv, WindowTaken, NoReport
    <2>2. reading.at = "done"
        BY DEF StatsInv, ReportInv, WindowTaken, NoReport
    <2>3. /\ report.window = w /\ report.totalRecords = Cardinality(reading.entries)
          /\ report.inWindow = Cardinality(Landed(reading.entries, reading.landing, w))
          /\ report.undated = Cardinality(Undated(reading.entries, reading.landing))
          /\ report.nonSelfReports = Cardinality(reading.entries \ SelfReports(reading.entries))
          /\ report.warnings = ClusterWarnings(reading.entries)
        BY <2>1 DEF FpWindow
    <2>4. EveryRecordIsCounted
        <3>1. report.undated = 0
            BY <2>2, <2>3, EntriesSplit, FS_EmptySet
        <3>2. report.inWindow + report.nonSelfReports
                + Cardinality({e \in SelfReports(reading.entries) :
                                 /\ e.record \in DOMAIN reading.landing
                                 /\ reading.landing[e.record] \notin report.window.since .. report.window.until})
              = report.totalRecords
            BY <2>2, <2>3, EntriesSplit
        <3>3. \A e \in SelfReports(reading.entries) : WrittenHere(e.record) =>
                 reading.landing[e.record] = versions[Min(Holding(e.record))].time
            BY <2>2, FirstAppended DEF SelfReports
        <3> QED BY <3>1, <3>2, <3>3 DEF EveryRecordIsCounted
    <2>5. ShavingIsWarned
        <3> SUFFICES ASSUME NEW metric \in DOMAIN Ladders, NEW regime \in RegimesOf(reading.entries, metric),
                            NEW rung \in Ladders[metric]
            PROVE LET shaved == Cardinality(Shaved(reading.entries, metric, regime, rung))
                      honest == Cardinality(Honest(reading.entries, metric, regime, rung))
                      warned == [metric |-> metric, regime |-> regime, rung |-> rung] \in report.warnings
                  IN  /\ shaved >= CLUSTER_MIN_SAMPLES /\ shaved >= honest => warned
                      /\ warned => shaved >= CLUSTER_MIN_SAMPLES
            BY DEF ShavingIsWarned
        <3>1. IsFiniteSet(reading.entries) /\ \A e \in reading.entries : e.record \in Reports
            BY DEF StatsInv, ReadInv
        <3>2. [metric |-> metric, regime |-> regime, rung |-> rung] \in report.warnings
                <=> ClusterWarning(rung, Group(reading.entries, metric, regime))
            BY <2>3, WarningsAreOfRungs
        <3> QED BY <3>1, <3>2, OneRung
    <2> QED BY <2>4, <2>5 DEF StatisticsAreOfTheRecords
<1> QED BY <1>1, <1>2, <1>3, PTL DEF StatsSpec

(***************************************************************************)
(* INIT TELLS WHAT IT DOES                                                 *)
(*                                                                         *)
(* First what is left of a sequence of entries without our commands, and   *)
(* that an install, a rewrite and a removal leave the rest alone.          *)
(***************************************************************************)

LEMMA AppendedSet ==
    ASSUME NEW T, NEW s \in Seq(T), NEW x \in T
    PROVE  ToSet(<<>>) = {} /\ ToSet(Append(s, x)) = ToSet(s) \cup {x}
<1>1. /\ Append(s, x) \in Seq(T) /\ Len(Append(s, x)) = Len(s) + 1
      /\ \A i \in 1 .. Len(s) : Append(s, x)[i] = s[i]
      /\ Append(s, x)[Len(s) + 1] = x
    BY AppendProperties
<1>2. DOMAIN Append(s, x) = 1 .. Len(s) + 1 /\ DOMAIN s = 1 .. Len(s) /\ Len(s) \in Nat
    BY <1>1, LenProperties
<1>3. \A i \in 1 .. Len(s) + 1 : i \in 1 .. Len(s) \/ i = Len(s) + 1
    BY <1>2
<1>4. 1 .. Len(s) \subseteq 1 .. Len(s) + 1 /\ Len(s) + 1 \in 1 .. Len(s) + 1
    BY <1>2
<1>5. ToSet(<<>>) = {}
    BY DEF ToSet
<1> DEFINE t == Append(s, x)
           n == Len(s)
<1> HIDE DEF t, n
<1>6. ASSUME NEW e PROVE e \in ToSet(t) <=> e \in ToSet(s) \cup {x}
    BY <1>1, <1>2, <1>3, <1>4 DEF ToSet, t, n
<1> QED BY <1>5, <1>6 DEF t

(* retain, one element after the other.                                     *)
Retains(T, s, out, f) ==
    /\ f \in [0 .. Len(s) -> Seq(T)] /\ f[0] = <<>>
    /\ \A n \in 1 .. Len(s) : f[n] = IF s[n] \in out THEN f[n - 1] ELSE Append(f[n - 1], s[n])

LEMMA WithoutUnrolled ==
    ASSUME NEW T, NEW s \in Seq(T), NEW out
    PROVE  \E f : Retains(T, s, out, f) /\ Without(s, out) = f[Len(s)]
<1> DEFINE last == Len(s)
           Seqs == Seq(T)
           step == [p \in (1 .. last) \X Seqs |->
                       IF s[p[1]] \in out THEN p[2] ELSE Append(p[2], s[p[1]])]
           IsLeft(f) == f = [n \in 0 .. Len(s) |->
                                IF n = 0 THEN <<>>
                                ELSE IF s[n] \in out THEN f[n - 1] ELSE Append(f[n - 1], s[n])]
<1>1. last \in Nat /\ <<>> \in Seqs /\ \A n \in 1 .. last : s[n] \in T
    BY LenProperties, EmptySeq
<1>2. ASSUME NEW n \in 1 .. last, NEW r \in Seqs PROVE Append(r, s[n]) \in Seqs
    BY <1>1, AppendProperties
<1>3. step \in [(1 .. last) \X Seqs -> Seqs]
    <2> HIDE DEF last, Seqs
    <2> QED BY <1>2
<1>4. PICK g \in [0 .. last -> Seqs] :
          g[0] = <<>> /\ \A n \in 1 .. last : g[n] = step[<<n, g[n - 1]>>]
    <2> HIDE DEF step, last, Seqs
    <2>1. \E g : Unrolls(g, Seqs, <<>>, last, step)
        BY <1>1, <1>3, Recursion
    <2> QED BY <2>1 DEF Unrolls
<1> HIDE DEF Seqs
<1>5. ASSUME NEW n \in 1 .. last
      PROVE  g[n] = IF s[n] \in out THEN g[n - 1] ELSE Append(g[n - 1], s[n])
    <2>1. n - 1 \in 0 .. last
        BY <1>1
    <2> HIDE DEF last, step
    <2>2. g[n] = step[<<n, g[n - 1]>>] /\ <<n, g[n - 1]>> \in (1 .. last) \X Seqs
        BY <1>4, <2>1
    <2> USE DEF step
    <2> QED BY <2>2
<1>6. IsLeft(g)
    <2> DEFINE h(n) == IF n = 0 THEN <<>>
                       ELSE IF s[n] \in out THEN g[n - 1] ELSE Append(g[n - 1], s[n])
    <2>1. \A n \in 0 .. last : n = 0 \/ n \in 1 .. last
        BY <1>1
    <2>2. \A n \in 0 .. last : g[n] = h(n)
        <3> HIDE DEF last, step
        <3> QED BY <1>4, <1>5, <2>1
    <2>3. g = [n \in 0 .. last |-> g[n]]
        <3> HIDE DEF last, step
        <3> QED BY <1>4
    <2>4. g = [n \in 0 .. last |-> h(n)]
        <3> HIDE DEF last, step, h
        <3> QED BY <2>2, <2>3
    <2> HIDE DEF step
    <2> QED BY <2>4
<1>7. PICK f : IsLeft(f) /\ Without(s, out) = f[last]
    <2>1. \E f : IsLeft(f)
        <3> HIDE DEF IsLeft
        <3> QED BY <1>6
    <2>2. IsLeft(CHOOSE f : IsLeft(f))
        <3> HIDE DEF IsLeft
        <3> QED BY <2>1, Zenon
    <2>3. Without(s, out) = (CHOOSE f : IsLeft(f))[last]
        BY Zenon DEF Without
    <2> HIDE DEF IsLeft, last
    <2> QED BY <2>2, <2>3
<1>8. f[0] = <<>> /\ f = [n \in 0 .. last |-> f[n]]
    BY <1>1, <1>7
<1>9. ASSUME NEW n \in 1 .. last
      PROVE  f[n] = IF s[n] \in out THEN f[n - 1] ELSE Append(f[n - 1], s[n])
    <2>1. n \in 0 .. last /\ n # 0
        OBVIOUS
    <2> QED BY <1>7, <2>1
<1>10. 0 .. last \subseteq {n \in 0 .. last : f[n] \in Seqs}
    <2> DEFINE S == {n \in 0 .. last : f[n] \in Seqs}
    <2>1. 0 \in S
        BY <1>1, <1>8
    <2>2. ASSUME NEW n \in 1 .. last, n - 1 \in S PROVE n \in S
        <3>1. f[n - 1] \in Seqs /\ n \in 0 .. last
            BY <2>2
        <3> HIDE DEF last
        <3> QED BY <1>2, <1>9, <3>1
    <2> HIDE DEF S, last
    <2>3. 0 .. last \subseteq S
        BY <1>1, <2>1, <2>2, EveryNumberTo
    <2> QED BY <2>3 DEF S
<1> HIDE DEF IsLeft
<1>11. f \in [0 .. last -> Seqs]
    BY <1>8, <1>10
<1> QED BY <1>7, <1>8, <1>9, <1>11 DEF Seqs, Retains

LEMMA NothingLeft == ASSUME NEW out PROVE Without(<<>>, out) = <<>>
<1>1. <<>> \in Seq({}) /\ Len(<<>>) = 0
    BY EmptySeq
<1>2. PICK f : Retains({}, <<>>, out, f) /\ Without(<<>>, out) = f[Len(<<>>)]
    BY <1>1, WithoutUnrolled
<1> QED BY <1>1, <1>2 DEF Retains

LEMMA WithoutIsSeq ==
    ASSUME NEW T, NEW s \in Seq(T), NEW out
    PROVE  Without(s, out) \in Seq(T)
<1>1. PICK f : Retains(T, s, out, f) /\ Without(s, out) = f[Len(s)]
    BY WithoutUnrolled
<1>2. Len(s) \in 0 .. Len(s)
    BY LenProperties
<1> QED BY <1>1, <1>2 DEF Retains

LEMMA WithoutAppend ==
    ASSUME NEW T, NEW s \in Seq(T), NEW x \in T, NEW out
    PROVE  Without(Append(s, x), out) =
               IF x \in out THEN Without(s, out) ELSE Append(Without(s, out), x)
<1> DEFINE t == Append(s, x)
           n == Len(s)
           Seqs == Seq(T)
<1>1. t \in Seq(T) /\ Len(t) = n + 1 /\ t[n + 1] = x /\ n \in Nat /\ \A i \in 1 .. n : t[i] = s[i]
    BY AppendProperties, LenProperties
<1>4. PICK f :
          /\ f \in [0 .. n -> Seqs] /\ f[0] = <<>> /\ Without(s, out) = f[n]
          /\ \A i \in 1 .. n : f[i] = IF s[i] \in out THEN f[i - 1] ELSE Append(f[i - 1], s[i])
    <2>1. \E f : Retains(T, s, out, f) /\ Without(s, out) = f[Len(s)]
        BY WithoutUnrolled
    <2> QED BY <2>1 DEF Retains
<1>5. PICK g :
          /\ g \in [0 .. n + 1 -> Seqs] /\ g[0] = <<>> /\ Without(t, out) = g[n + 1]
          /\ \A i \in 1 .. n + 1 : g[i] = IF t[i] \in out THEN g[i - 1] ELSE Append(g[i - 1], t[i])
    <2> HIDE DEF t
    <2>1. \E g : Retains(T, t, out, g) /\ Without(t, out) = g[Len(t)]
        BY <1>1, WithoutUnrolled
    <2> HIDE DEF n
    <2> QED BY <1>1, <2>1 DEF Retains
<1> HIDE DEF t, n, Seqs
<1>6. 0 .. n \subseteq {i \in 0 .. n : g[i] = f[i]}
    <2> DEFINE S == {i \in 0 .. n : g[i] = f[i]}
    <2>1. 0 \in S
        BY <1>1, <1>4, <1>5
    <2>2. ASSUME NEW i \in 1 .. n, i - 1 \in S PROVE i \in S
        <3>1. i \in 0 .. n /\ i \in 1 .. n + 1 /\ g[i - 1] = f[i - 1] /\ t[i] = s[i]
            BY <1>1, <2>2
        <3> QED BY <1>4, <1>5, <3>1
    <2> HIDE DEF S
    <2>3. 0 .. n \subseteq S
        BY <1>1, <2>1, <2>2, EveryNumberTo
    <2> QED BY <2>3 DEF S
<1>7. g[n] = f[n] /\ n + 1 \in 1 .. n + 1 /\ (n + 1) - 1 = n /\ f[n] \in Seqs
    BY <1>1, <1>4, <1>6
<1>8. g[n + 1] = IF x \in out THEN f[n] ELSE Append(f[n], x)
    BY <1>1, <1>5, <1>7
<1>9. Without(Append(s, x), out) = IF x \in out THEN Without(s, out) ELSE Append(Without(s, out), x)
    BY <1>4, <1>5, <1>8 DEF t
<1> QED BY <1>9

LEMMA WithoutIsASet ==
    ASSUME NEW T, NEW s \in Seq(T), NEW out
    PROVE  ToSet(Without(s, out)) = ToSet(s) \ out
<1> DEFINE S == {r \in Seq(T) : ToSet(Without(r, out)) = ToSet(r) \ out}
<1>1. <<>> \in S
    <2>1. <<>> \in Seq(T) /\ ToSet(<<>>) = {}
        BY EmptySeq DEF ToSet
    <2> QED BY <2>1, NothingLeft
<1>2. ASSUME NEW r \in Seq(T), NEW x \in T, r \in S PROVE Append(r, x) \in S
    <2>1. /\ ToSet(Append(r, x)) = ToSet(r) \cup {x} /\ Append(r, x) \in Seq(T)
          /\ Without(r, out) \in Seq(T)
          /\ Without(Append(r, x), out) =
                IF x \in out THEN Without(r, out) ELSE Append(Without(r, out), x)
        BY AppendedSet, WithoutAppend, WithoutIsSeq, AppendProperties
    <2>2. ToSet(Append(Without(r, out), x)) = ToSet(Without(r, out)) \cup {x}
        BY <2>1, AppendedSet
    <2> QED BY <1>2, <2>1, <2>2
<1>3. Seq(T) \subseteq S
    <2> HIDE DEF S
    <2> QED BY <1>1, <1>2, EverySequence
<1> QED BY <1>3

(* The entries of a settings file: the two ways init changes every entry,   *)
(* and what others wrote among them.                                        *)
Rewritten(s, out, w) == [j \in DOMAIN s |-> IF s[j] \in out THEN w ELSE s[j]]
AllRewritten(ss, out, w) == [i \in DOMAIN ss |-> Rewritten(ss[i], out, w)]
AllWithout(ss, out) == [i \in DOMAIN ss |-> Without(ss[i], out)]

OthersIn(ss, out) == AllWithout(Without(ss, Seq(out) \ {<<>>}), out)

LEMMA OneGone ==
    ASSUME NEW T, NEW out, NEW x \in T \cap out
    PROVE  Without(<<x>>, out) = <<>>
<1>1. <<>> \in Seq(T) /\ <<x>> = Append(<<>>, x)
    BY EmptySeq
<1>2. Without(Append(<<>>, x), out) = Without(<<>>, out)
    BY <1>1, WithoutAppend
<1> QED BY <1>1, <1>2, NothingLeft

LEMMA MapAppend ==
    ASSUME NEW T, NEW s \in Seq(T), NEW x \in T, NEW g, DOMAIN g = T
    PROVE  [i \in DOMAIN Append(s, x) |-> g[Append(s, x)[i]]]
               = Append([i \in DOMAIN s |-> g[s[i]]], g[x])
<1> DEFINE t == Append(s, x)
           n == Len(s)
           U == {g[y] : y \in T}
           m == [i \in DOMAIN s |-> g[s[i]]]
<1>1. /\ Len(t) = n + 1 /\ t[n + 1] = x /\ n \in Nat /\ \A i \in 1 .. n : t[i] = s[i]
      /\ DOMAIN s = 1 .. n /\ DOMAIN t = 1 .. Len(t) /\ \A i \in 1 .. n : s[i] \in T
    BY AppendProperties, LenProperties
<1>2. m \in Seq(U) /\ Len(m) = n /\ \A i \in 1 .. n : m[i] = g[s[i]]
    <2>1. m \in [1 .. n -> U] /\ n \in Nat /\ \A i \in 1 .. n : m[i] = g[s[i]]
        BY <1>1
    <2> HIDE DEF m, n, U
    <2>2. m \in Seq(U)
        BY <2>1, SeqDef
    <2>3. DOMAIN m = 1 .. n
        BY <2>1
    <2>4. Len(m) = n
        BY <2>1, <2>2, <2>3, LenProperties
    <2> QED BY <2>1, <2>2, <2>4
<1>3. g[x] \in U
    OBVIOUS
<1> DEFINE a == Append(m, g[x])
<1> HIDE DEF U, m
<1>4. /\ a \in Seq(U) /\ Len(a) = n + 1 /\ a[n + 1] = g[x] /\ \A i \in 1 .. n : a[i] = m[i]
    BY <1>2, <1>3, AppendProperties
<1>5. a \in [1 .. n + 1 -> U]
    <2> HIDE DEF a
    <2> QED BY <1>4, LenProperties
<1> HIDE DEF a, t, n
<1>6. ASSUME NEW i \in 1 .. n + 1 PROVE a[i] = g[t[i]]
    <2>1. i \in 1 .. n \/ i = n + 1
        BY <1>1
    <2> QED BY <1>1, <1>2, <1>4, <2>1
<1>7. a = [i \in 1 .. n + 1 |-> a[i]]
    BY <1>5
<1>8. [i \in 1 .. n + 1 |-> g[t[i]]] = a
    BY <1>6, <1>7
<1>9. DOMAIN t = 1 .. n + 1
    BY <1>1
<1> QED BY <1>8, <1>9 DEF a, t, m

LEMMA RewrittenAppend ==
    ASSUME NEW T, NEW s \in Seq(T), NEW x \in T, NEW out, NEW w \in T
    PROVE  /\ Rewritten(<<>>, out, w) = <<>> /\ Rewritten(s, out, w) \in Seq(T)
           /\ Rewritten(Append(s, x), out, w) =
                 Append(Rewritten(s, out, w), IF x \in out THEN w ELSE x)
<1> DEFINE g == [y \in T |-> IF y \in out THEN w ELSE y]
           t == Append(s, x)
<1>1. t \in Seq(T) /\ DOMAIN s = 1 .. Len(s) /\ DOMAIN t = 1 .. Len(t) /\ Len(s) \in Nat
    BY AppendProperties, LenProperties
<1>2. (\A i \in DOMAIN s : s[i] \in T) /\ (\A i \in DOMAIN t : t[i] \in T)
    <2> HIDE DEF t
    <2> QED BY <1>1, ElementOfSeq
<1>3. [i \in DOMAIN t |-> g[t[i]]] = Append([i \in DOMAIN s |-> g[s[i]]], g[x])
    <2> HIDE DEF g
    <2>1. DOMAIN g = T
        BY DEF g
    <2> QED BY <2>1, MapAppend
<1>4. Rewritten(t, out, w) = [i \in DOMAIN t |-> g[t[i]]]
    <2> HIDE DEF t
    <2> QED BY <1>2 DEF Rewritten
<1>5. Rewritten(s, out, w) = [i \in DOMAIN s |-> g[s[i]]]
    BY <1>2 DEF Rewritten
<1>6. Rewritten(s, out, w) \in Seq(T)
    <2>1. Rewritten(s, out, w) \in [1 .. Len(s) -> T]
        BY <1>1, <1>2 DEF Rewritten
    <2> QED BY <1>1, <2>1, SeqDef
<1>7. Rewritten(<<>>, out, w) = <<>>
    BY DEF Rewritten
<1> HIDE DEF g, t
<1>8. g[x] = IF x \in out THEN w ELSE x
    BY DEF g
<1> QED BY <1>3, <1>4, <1>5, <1>6, <1>7, <1>8 DEF t

LEMMA RewrittenKeeps ==
    ASSUME NEW T, NEW s \in Seq(T), NEW out, NEW w \in T \cap out
    PROVE  /\ Rewritten(s, out, w) \in Seq(T)
           /\ Without(Rewritten(s, out, w), out) = Without(s, out)
           /\ ToSet(Rewritten(s, out, w)) =
                 (ToSet(s) \ out) \cup (IF ToSet(s) \cap out = {} THEN {} ELSE {w})
<1> DEFINE S == {r \in Seq(T) : Without(Rewritten(r, out, w), out) = Without(r, out)}
<1>1. <<>> \in S
    BY EmptySeq, RewrittenAppend
<1>2. ASSUME NEW r \in Seq(T), NEW x \in T, r \in S PROVE Append(r, x) \in S
    <2> DEFINE q == Rewritten(r, out, w)
               y == IF x \in out THEN w ELSE x
    <2>1. q \in Seq(T) /\ Rewritten(Append(r, x), out, w) = Append(q, y) /\ Append(r, x) \in Seq(T)
        BY RewrittenAppend, AppendProperties
    <2>2. y \in T /\ (y \in out <=> x \in out) /\ (x \notin out => y = x) /\ Without(q, out) = Without(r, out)
        BY <1>2
    <2>3. Without(Append(r, x), out) = IF x \in out THEN Without(r, out) ELSE Append(Without(r, out), x)
        BY WithoutAppend
    <2> HIDE DEF q, y
    <2>4. Without(Append(q, y), out) = IF y \in out THEN Without(q, out) ELSE Append(Without(q, out), y)
        BY <2>1, <2>2, WithoutAppend
    <2> QED BY <2>1, <2>2, <2>3, <2>4
<1>3. Seq(T) \subseteq S
    <2> HIDE DEF S
    <2> QED BY <1>1, <1>2, EverySequence
<1>4. Rewritten(s, out, w) \in Seq(T)
    BY RewrittenAppend
<1>5. ToSet(Rewritten(s, out, w)) = (ToSet(s) \ out) \cup (IF ToSet(s) \cap out = {} THEN {} ELSE {w})
    BY DEF ToSet, Rewritten
<1> QED BY <1>3, <1>4, <1>5

LEMMA WithoutTwice ==
    ASSUME NEW T, NEW s \in Seq(T), NEW out
    PROVE  Without(Without(s, out), out) = Without(s, out)
<1> DEFINE S == {r \in Seq(T) : Without(Without(r, out), out) = Without(r, out)}
<1>1. <<>> \in S
    BY EmptySeq, NothingLeft
<1>2. ASSUME NEW r \in Seq(T), NEW x \in T, r \in S PROVE Append(r, x) \in S
    <2> DEFINE q == Without(r, out)
    <2>1. q \in Seq(T) /\ Append(r, x) \in Seq(T) /\ Without(q, out) = q
        BY <1>2, WithoutIsSeq, AppendProperties
    <2>2. Without(Append(r, x), out) = IF x \in out THEN q ELSE Append(q, x)
        BY WithoutAppend
    <2> HIDE DEF q
    <2>3. Without(Append(q, x), out) = IF x \in out THEN Without(q, out) ELSE Append(Without(q, out), x)
        BY ONLY <2>1, x \in T, WithoutAppend
    <2> QED BY <2>1, <2>2, <2>3
<1>3. Seq(T) \subseteq S
    <2> HIDE DEF S
    <2> QED BY <1>1, <1>2, EverySequence
<1> QED BY <1>3

\* An entry of nothing but ours is one of which nothing is left.
LEMMA NothingButOurs ==
    ASSUME NEW T, NEW s \in Seq(T), NEW out
    PROVE  s \in Seq(out) <=> Without(s, out) = <<>>
<1> DEFINE q == Without(s, out)
<1>1. q \in Seq(T) /\ ToSet(q) = ToSet(s) \ out
    BY WithoutIsSeq, WithoutIsASet
<1> HIDE DEF q
<1>2. q = <<>> <=> ToSet(q) = {}
    <2>1. DOMAIN q = 1 .. Len(q) /\ Len(q) \in Nat
        BY <1>1, LenProperties
    <2>2. q = <<>> => ToSet(q) = {}
        BY AppendedSet, EmptySeq
    <2>3. ASSUME ToSet(q) = {} PROVE Len(q) = 0
        <3>1. ASSUME Len(q) # 0 PROVE FALSE
            <4>1. 1 \in DOMAIN q
                BY <2>1, <3>1
            <4>2. q[1] \in ToSet(q)
                BY <4>1 DEF ToSet
            <4> QED BY <2>3, <4>2
        <3> QED BY <3>1
    <2>4. Len(q) = 0 => q = <<>>
        BY <1>1, EmptySeq
    <2> QED BY <2>2, <2>3, <2>4
<1>3. DOMAIN s = 1 .. Len(s) /\ Len(s) \in Nat
    BY LenProperties
<1>4. s \in Seq(out) => ToSet(s) \subseteq out
    <2>1. ASSUME s \in Seq(out), NEW i \in DOMAIN s PROVE s[i] \in out
        BY <1>3, <2>1, ElementOfSeq
    <2> QED BY <2>1 DEF ToSet
<1>5. ASSUME ToSet(s) \subseteq out PROVE s \in Seq(out)
    <2>1. \A i \in DOMAIN s : s[i] \in out
        BY <1>5 DEF ToSet
    <2>2. s = [i \in 1 .. Len(s) |-> s[i]]
        BY LenProperties
    <2>3. s \in [1 .. Len(s) -> out]
        BY <1>3, <2>1, <2>2
    <2> QED BY <1>3, <2>3, SeqDef
<1> QED BY <1>1, <1>2, <1>4, <1>5 DEF q

LEMMA AllWithoutAppend ==
    ASSUME NEW T, NEW ss \in Seq(Seq(T)), NEW e \in Seq(T), NEW out
    PROVE  /\ AllWithout(<<>>, out) = <<>> /\ AllWithout(ss, out) \in Seq(Seq(T))
           /\ AllWithout(Append(ss, e), out) = Append(AllWithout(ss, out), Without(e, out))
<1> DEFINE Entries == Seq(T)
           g == [y \in Entries |-> Without(y, out)]
           All(r) == [i \in DOMAIN r |-> g[r[i]]]
           t == Append(ss, e)
<1>1. ASSUME NEW r \in Seq(Entries) PROVE AllWithout(r, out) = All(r)
    <2>1. \A i \in DOMAIN r : r[i] \in Entries
        <3> HIDE DEF Entries
        <3> QED BY ElementOfSeq, LenProperties
    <2> QED BY <2>1 DEF AllWithout
<1>2. \A y \in Entries : g[y] = Without(y, out) /\ g[y] \in Entries
    BY WithoutIsSeq
<1>3. DOMAIN g = Entries
    OBVIOUS
<1>4. t \in Seq(Entries) /\ ss \in Seq(Entries) /\ e \in Entries
    <2>1. ss \in Seq(Entries) /\ e \in Entries
        OBVIOUS
    <2> HIDE DEF Entries
    <2> QED BY <2>1, AppendProperties
<1> HIDE DEF g, t
<1>5. All(t) = Append(All(ss), g[e])
    <2> HIDE DEF Entries
    <2>1. [i \in DOMAIN Append(ss, e) |-> g[Append(ss, e)[i]]]
             = Append([i \in DOMAIN ss |-> g[ss[i]]], g[e])
        BY <1>3, <1>4, MapAppend
    <2> QED BY <2>1 DEF t
<1>6. All(ss) \in Seq(Entries)
    <2> HIDE DEF Entries
    <2>1. DOMAIN ss = 1 .. Len(ss) /\ Len(ss) \in Nat /\ \A i \in DOMAIN ss : ss[i] \in Entries
        BY <1>4, LenProperties, ElementOfSeq
    <2>2. All(ss) \in [1 .. Len(ss) -> Entries]
        BY <1>2, <2>1
    <2> QED BY <2>1, <2>2, SeqDef
<1>7. AllWithout(<<>>, out) = <<>>
    BY DEF AllWithout
<1> HIDE DEF All
<1> QED BY <1>1, <1>2, <1>4, <1>5, <1>6, <1>7 DEF t

LEMMA AllWithoutAfter ==
    ASSUME NEW T, NEW ss \in Seq(Seq(T)), NEW e \in Seq(T), NEW out
    PROVE  AllWithout(Append(ss, e), out) = Append(AllWithout(ss, out), Without(e, out))
BY AllWithoutAppend

LEMMA OthersAppend ==
    ASSUME NEW T, NEW ss \in Seq(Seq(T)), NEW e \in Seq(T), NEW out
    PROVE  /\ OthersIn(<<>>, out) = <<>> /\ OthersIn(ss, out) \in Seq(Seq(T))
           /\ OthersIn(Append(ss, e), out) =
                 IF e # <<>> /\ Without(e, out) = <<>> THEN OthersIn(ss, out)
                 ELSE Append(OthersIn(ss, out), Without(e, out))
<1> DEFINE Entries == Seq(T)
           gone == Seq(out) \ {<<>>}
           q == Without(ss, gone)
<1>1. ss \in Seq(Entries) /\ e \in Entries
    OBVIOUS
<1>2. e \in gone <=> e # <<>> /\ Without(e, out) = <<>>
    BY NothingButOurs
<1> HIDE DEF gone
<1>3. /\ q \in Seq(Entries)
      /\ Without(Append(ss, e), gone) = IF e \in gone THEN q ELSE Append(q, e)
    <2> HIDE DEF Entries
    <2> QED BY <1>1, WithoutIsSeq, WithoutAppend
<1>4. Without(<<>>, gone) = <<>>
    BY NothingLeft
<1> HIDE DEF q
<1>5. /\ AllWithout(<<>>, out) = <<>> /\ AllWithout(q, out) \in Seq(Seq(T))
      /\ AllWithout(Append(q, e), out) = Append(AllWithout(q, out), Without(e, out))
    <2>1. q \in Seq(Seq(T)) /\ e \in Seq(T)
        BY <1>1, <1>3
    <2>2. AllWithout(<<>>, out) = <<>> /\ AllWithout(q, out) \in Seq(Seq(T))
        BY ONLY <2>1, AllWithoutAppend, Zenon
    <2>3. AllWithout(Append(q, e), out) = Append(AllWithout(q, out), Without(e, out))
        BY ONLY <2>1, AllWithoutAfter, Zenon
    <2> QED BY <2>2, <2>3
<1>6. /\ OthersIn(<<>>, out) = AllWithout(Without(<<>>, gone), out)
      /\ OthersIn(ss, out) = AllWithout(q, out)
      /\ OthersIn(Append(ss, e), out) = AllWithout(Without(Append(ss, e), gone), out)
    BY DEF OthersIn, gone, q
<1> QED BY <1>2, <1>3, <1>4, <1>5, <1>6

LEMMA OthersAfter ==
    ASSUME NEW T, NEW ss \in Seq(Seq(T)), NEW e \in Seq(T), NEW out
    PROVE  OthersIn(Append(ss, e), out) =
              IF e # <<>> /\ Without(e, out) = <<>> THEN OthersIn(ss, out)
              ELSE Append(OthersIn(ss, out), Without(e, out))
BY OthersAppend

\* An install adds an entry of ours, or puts its command where ours were.
LEMMA OthersInstalled ==
    ASSUME NEW T, NEW ss \in Seq(Seq(T)), NEW out, NEW w \in T \cap out
    PROVE  /\ Append(ss, <<w>>) \in Seq(Seq(T))
           /\ OthersIn(Append(ss, <<w>>), out) = OthersIn(ss, out)
<1> DEFINE e == <<w>>
<1>1. e \in Seq(T) /\ Without(e, out) = <<>> /\ e # <<>>
    BY OneGone
<1> HIDE DEF e
<1>2. Append(ss, e) \in Seq(Seq(T))
    <2> DEFINE Entries == Seq(T)
    <2>1. e \in Entries /\ ss \in Seq(Entries)
        BY <1>1
    <2> HIDE DEF Entries
    <2>2. Append(ss, e) \in Seq(Entries)
        BY <2>1, AppendProperties
    <2> QED BY <2>2 DEF Entries
<1>3. OthersIn(Append(ss, e), out) = OthersIn(ss, out)
    BY <1>1, OthersAppend
<1> QED BY <1>2, <1>3 DEF e

LEMMA OthersRewritten ==
    ASSUME NEW T, NEW ss \in Seq(Seq(T)), NEW out, NEW w \in T \cap out
    PROVE  /\ AllRewritten(ss, out, w) \in Seq(Seq(T))
           /\ OthersIn(AllRewritten(ss, out, w), out) = OthersIn(ss, out)
<1> DEFINE g == [y \in Seq(T) |-> Rewritten(y, out, w)]
           All(r) == [i \in DOMAIN r |-> g[r[i]]]
           Entries == Seq(T)
           S == {r \in Seq(Entries) : OthersIn(All(r), out) = OthersIn(r, out) /\ All(r) \in Seq(Entries)}
<1>1. ASSUME NEW r \in Seq(Entries) PROVE AllRewritten(r, out, w) = All(r)
    <2>1. \A i \in DOMAIN r : r[i] \in Entries
        <3> HIDE DEF Entries
        <3> QED BY ElementOfSeq, LenProperties
    <2> QED BY <2>1 DEF AllRewritten
<1>2. \A y \in Entries : g[y] = Rewritten(y, out, w)
    OBVIOUS
<1>3. <<>> \in S
    <2>1. <<>> \in Seq(Entries) /\ All(<<>>) = <<>>
        BY EmptySeq
    <2> QED BY <2>1
<1>4. ASSUME NEW r \in Seq(Entries), NEW x \in Entries, r \in S PROVE Append(r, x) \in S
    <2> HIDE DEF g
    <2> DEFINE y == g[x]
               q == All(r)
    <2>1. Append(r, x) \in Seq(Entries)
        <3> HIDE DEF Entries
        <3> QED BY AppendProperties
    <2>2. All(Append(r, x)) = Append(q, y)
        <3>1. DOMAIN g = Entries
            BY DEF g
        <3> HIDE DEF Entries
        <3> QED BY <3>1, MapAppend
    <2>3. y \in Entries /\ Without(y, out) = Without(x, out) /\ y = Rewritten(x, out, w)
        BY <1>2, RewrittenKeeps
    <2>4. y = <<>> <=> x = <<>>
        <3>1. DOMAIN y = DOMAIN x /\ x \in Entries /\ y \in Entries
            BY <2>3 DEF Rewritten
        <3> HIDE DEF y
        <3>2. DOMAIN y = 1 .. Len(y) /\ DOMAIN x = 1 .. Len(x) /\ Len(x) \in Nat /\ Len(y) \in Nat
            BY <3>1, LenProperties
        <3>3. Len(x) = 0 <=> Len(y) = 0
            <4>1. (1 \in DOMAIN x <=> Len(x) # 0) /\ (1 \in DOMAIN y <=> Len(y) # 0)
                <5> DEFINE m == Len(x)
                           n == Len(y)
                <5>1. DOMAIN x = 1 .. m /\ DOMAIN y = 1 .. n /\ m \in Nat /\ n \in Nat
                    BY <3>2
                <5> HIDE DEF m, n
                <5>2. (1 \in 1 .. m <=> m # 0) /\ (1 \in 1 .. n <=> n # 0)
                    BY <5>1
                <5> QED BY <5>1, <5>2 DEF m, n
            <4> QED BY <3>1, <4>1
        <3> QED BY <3>1, <3>3, EmptySeq
    <2>5. q \in Seq(Entries) /\ OthersIn(q, out) = OthersIn(r, out)
        BY <1>4
    <2>6. OthersIn(Append(r, x), out) =
              IF x # <<>> /\ Without(x, out) = <<>> THEN OthersIn(r, out)
              ELSE Append(OthersIn(r, out), Without(x, out))
        BY OthersAfter, Zenon
    <2> HIDE DEF q, y
    <2>7. OthersIn(Append(q, y), out) =
              IF y # <<>> /\ Without(y, out) = <<>> THEN OthersIn(q, out)
              ELSE Append(OthersIn(q, out), Without(y, out))
        <3>1. q \in Seq(Seq(T)) /\ y \in Seq(T)
            BY <2>3, <2>5
        <3> QED BY ONLY <3>1, OthersAfter, Zenon
    <2>8. Append(q, y) \in Seq(Entries)
        <3> HIDE DEF Entries
        <3> QED BY <2>3, <2>5, AppendProperties
    <2> HIDE DEF All
    <2> QED BY <2>1, <2>2, <2>3, <2>4, <2>5, <2>6, <2>7, <2>8
<1>5. Seq(Entries) \subseteq S
    <2> HIDE DEF S, Entries
    <2> QED BY <1>3, <1>4, EverySequence
<1> HIDE DEF g, All
<1> QED BY <1>1, <1>5

\* A removal keeps what is left of every entry, if anything is.
LEMMA OthersRemoved ==
    ASSUME NEW T, NEW ss \in Seq(Seq(T)), NEW out
    PROVE  /\ AllWithout(ss, out) \in Seq(Seq(T))
           /\ Without(AllWithout(ss, out), {<<>>}) \in Seq(Seq(T))
           /\ OthersIn(Without(AllWithout(ss, out), {<<>>}), out) = Without(OthersIn(ss, out), {<<>>})
<1> DEFINE Entries == Seq(T)
           Rest(r) == Without(AllWithout(r, out), {<<>>})
           S == {r \in Seq(Entries) :
                   Rest(r) \in Seq(Entries) /\ OthersIn(Rest(r), out) = Without(OthersIn(r, out), {<<>>})}
<1>1. <<>> \in Entries /\ <<>> \in Seq(Entries)
    BY EmptySeq
<1>2. <<>> \in S
    <2>1. AllWithout(<<>>, out) = <<>> /\ OthersIn(<<>>, out) = <<>>
        <3>1. <<>> \in Seq(Seq(T)) /\ <<>> \in Seq(T)
            BY <1>1
        <3> QED BY ONLY <3>1, AllWithoutAppend, OthersAppend
    <2>2. Without(<<>>, {<<>>}) = <<>>
        BY NothingLeft
    <2> QED BY <1>1, <2>1, <2>2
<1>3. ASSUME NEW r \in Seq(Entries), NEW x \in Entries, r \in S PROVE Append(r, x) \in S
    <2> DEFINE y == Without(x, out)
               all == AllWithout(r, out)
               p == Rest(r)
               o == OthersIn(r, out)
    <2>1. Append(r, x) \in Seq(Entries)
        <3> HIDE DEF Entries
        <3> QED BY AppendProperties
    <2>2. AllWithout(Append(r, x), out) = Append(all, y) /\ all \in Seq(Entries)
        <3>1. AllWithout(Append(r, x), out) = Append(all, y)
            BY AllWithoutAfter, Zenon
        <3>2. all \in Seq(Entries)
            BY AllWithoutAppend, Zenon
        <3> QED BY <3>1, <3>2
    <2>3. y \in Entries /\ Without(y, out) = y
        BY WithoutIsSeq, WithoutTwice
    <2>4. /\ o \in Seq(Entries)
          /\ OthersIn(Append(r, x), out) = IF x # <<>> /\ y = <<>> THEN o ELSE Append(o, y)
        BY OthersAppend
    <2>5. p \in Seq(Entries) /\ OthersIn(p, out) = Without(o, {<<>>})
        BY <1>3
    <2> HIDE DEF y, all, o
    <2>6. Rest(Append(r, x)) = IF y = <<>> THEN p ELSE Append(p, y)
        <3>1. Without(Append(all, y), {<<>>}) =
                  IF y \in {<<>>} THEN Without(all, {<<>>}) ELSE Append(Without(all, {<<>>}), y)
            <4> HIDE DEF Entries
            <4> QED BY ONLY <2>2, <2>3, WithoutAppend
        <3> QED BY <2>2, <3>1 DEF all
    <2>7. Without(Append(o, y), {<<>>}) =
              IF y \in {<<>>} THEN Without(o, {<<>>}) ELSE Append(Without(o, {<<>>}), y)
        <3> HIDE DEF Entries
        <3> QED BY ONLY <2>3, <2>4, WithoutAppend
    <2> HIDE DEF p
    <2>8. y # <<>> => OthersIn(Append(p, y), out) = Append(OthersIn(p, out), y)
        <3>1. p \in Seq(Seq(T)) /\ y \in Seq(T)
            BY <2>3, <2>5
        <3>2. OthersIn(Append(p, y), out) =
                  IF y # <<>> /\ Without(y, out) = <<>> THEN OthersIn(p, out)
                  ELSE Append(OthersIn(p, out), Without(y, out))
            BY ONLY <3>1, OthersAfter, Zenon
        <3> QED BY <2>3, <3>2
    <2>9. Append(p, y) \in Seq(Entries)
        <3> HIDE DEF Entries
        <3> QED BY <2>3, <2>5, AppendProperties
    <2> DEFINE left == Rest(Append(r, x))
    <2>10. /\ left \in Seq(Entries)
           /\ OthersIn(left, out) = Without(OthersIn(Append(r, x), out), {<<>>})
        <3> HIDE DEF left, Entries
        <3>1. CASE y = <<>>
            <4>1. left = p
                BY <2>6, <3>1 DEF left
            <4> QED BY <2>4, <2>5, <2>7, <3>1, <4>1
        <3>2. CASE y # <<>>
            <4>1. left = Append(p, y)
                BY <2>6, <3>2 DEF left
            <4> QED BY <2>4, <2>5, <2>7, <2>8, <2>9, <3>2, <4>1
        <3> QED BY <3>1, <3>2
    <2> HIDE DEF Rest
    <2> QED BY <2>1, <2>10
<1>4. Seq(Entries) \subseteq S
    <2> HIDE DEF S, Entries
    <2> QED BY <1>2, <1>3, EverySequence
<1>5. Rest(ss) \in Seq(Entries) /\ OthersIn(Rest(ss), out) = Without(OthersIn(ss, out), {<<>>})
    BY <1>4
<1>6. AllWithout(ss, out) \in Seq(Seq(T))
    BY <1>1, AllWithoutAppend
<1> QED BY <1>5, <1>6

(* The commands of a settings file after an install and after a removal.    *)
Commands(ss) == UNION {ToSet(ss[i]) : i \in DOMAIN ss}

LEMMA CommandsInstalled ==
    ASSUME NEW T, NEW ss \in Seq(Seq(T)), NEW w
    PROVE  Commands(Append(ss, <<w>>)) = Commands(ss) \cup {w}
<1> DEFINE e == <<w>>
           t == Append(ss, e)
           n == Len(ss)
           Entries == Seq(T \cup {w})
<1>1. ss \in Seq(Entries) /\ e \in Entries
    <2>1. DOMAIN ss = 1 .. n /\ n \in Nat /\ \A i \in 1 .. n : ss[i] \in Seq(T)
        <3> DEFINE Few == Seq(T)
        <3> HIDE DEF Few
        <3>1. DOMAIN ss = 1 .. n /\ n \in Nat /\ \A i \in 1 .. n : ss[i] \in Few
            BY LenProperties DEF Few
        <3> QED BY <3>1 DEF Few
    <2>2. \A s \in Seq(T) : s \in Entries
        BY SeqDef
    <2>3. ss \in [1 .. n -> Entries]
        <3>1. ss = [i \in 1 .. n |-> ss[i]]
            <4> DEFINE Few == Seq(T)
            <4> HIDE DEF Few
            <4>1. ss = [i \in 1 .. n |-> ss[i]]
                BY LenProperties DEF Few
            <4> QED BY <4>1
        <3> HIDE DEF n, Entries
        <3> QED BY <2>1, <2>2, <3>1
    <2>4. e \in Entries
        OBVIOUS
    <2> HIDE DEF n, Entries, e
    <2> QED BY <2>1, <2>3, <2>4, SeqDef
<1> HIDE DEF Entries, e
<1>2. /\ Len(t) = n + 1 /\ t[n + 1] = e /\ \A i \in 1 .. n : t[i] = ss[i]
      /\ DOMAIN t = 1 .. n + 1 /\ DOMAIN ss = 1 .. n /\ n \in Nat
    BY <1>1, AppendProperties, LenProperties
<1>3. ToSet(e) = {w}
    BY DEF ToSet, e
<1> HIDE DEF t, n
<1>4. ASSUME NEW c PROVE c \in Commands(t) <=> c \in Commands(ss) \cup {w}
    <2>1. \A i \in 1 .. n + 1 : i \in 1 .. n \/ i = n + 1
        BY <1>2
    <2>2. 1 .. n \subseteq 1 .. n + 1 /\ n + 1 \in 1 .. n + 1
        BY <1>2
    <2> QED BY <1>2, <1>3, <2>1, <2>2 DEF Commands
<1> QED BY <1>4 DEF t, e

LEMMA CommandsRewritten ==
    ASSUME NEW T, NEW ss \in Seq(Seq(T)), NEW out, NEW w \in T \cap out
    PROVE  Commands(AllRewritten(ss, out, w)) =
               (Commands(ss) \ out) \cup (IF Commands(ss) \cap out = {} THEN {} ELSE {w})
<1> DEFINE all == AllRewritten(ss, out, w)
<1>1. DOMAIN all = DOMAIN ss /\ \A i \in DOMAIN ss : all[i] = Rewritten(ss[i], out, w)
    BY DEF AllRewritten
<1>2. \A i \in DOMAIN ss : ss[i] \in Seq(T)
    <2> DEFINE Few == Seq(T)
    <2> HIDE DEF Few
    <2>1. \A i \in DOMAIN ss : ss[i] \in Few
        BY LenProperties DEF Few
    <2> QED BY <2>1 DEF Few
<1> HIDE DEF all
<1>3. ASSUME NEW i \in DOMAIN ss
      PROVE  ToSet(all[i]) = (ToSet(ss[i]) \ out) \cup (IF ToSet(ss[i]) \cap out = {} THEN {} ELSE {w})
    <2> DEFINE e == ss[i]
    <2>1. e \in Seq(T) /\ all[i] = Rewritten(e, out, w)
        BY <1>1, <1>2
    <2> HIDE DEF e
    <2>2. ToSet(Rewritten(e, out, w)) = (ToSet(e) \ out) \cup (IF ToSet(e) \cap out = {} THEN {} ELSE {w})
        BY <2>1, RewrittenKeeps
    <2> QED BY <2>1, <2>2 DEF e
<1>4. ASSUME NEW c
      PROVE  c \in Commands(all) <=>
                 c \in (Commands(ss) \ out) \cup (IF Commands(ss) \cap out = {} THEN {} ELSE {w})
    BY <1>1, <1>3 DEF Commands
<1> QED BY <1>4 DEF all

LEMMA CommandsRemoved ==
    ASSUME NEW T, NEW ss \in Seq(Seq(T)), NEW out
    PROVE  Commands(Without(AllWithout(ss, out), {<<>>})) \cap out = {}
<1> DEFINE all == AllWithout(ss, out)
           rest == Without(all, {<<>>})
           Entries == Seq(T)
<1>1. all \in Seq(Entries) /\ DOMAIN all = DOMAIN ss /\ \A i \in DOMAIN ss : all[i] = Without(ss[i], out)
    BY OthersRemoved DEF AllWithout
<1>2. \A i \in DOMAIN ss : ss[i] \in Seq(T)
    <2> HIDE DEF Entries
    <2>1. \A i \in DOMAIN ss : ss[i] \in Entries
        BY LenProperties DEF Entries
    <2> QED BY <2>1 DEF Entries
<1> HIDE DEF all
<1>3. ASSUME NEW i \in DOMAIN ss PROVE ToSet(all[i]) \cap out = {}
    <2> DEFINE e == ss[i]
    <2>1. e \in Seq(T) /\ all[i] = Without(e, out)
        BY <1>1, <1>2
    <2> HIDE DEF e
    <2>2. ToSet(Without(e, out)) = ToSet(e) \ out
        BY <2>1, WithoutIsASet
    <2> QED BY <2>1, <2>2
<1>4. ToSet(rest) = ToSet(all) \ {<<>>}
    <2> HIDE DEF Entries
    <2> QED BY <1>1, WithoutIsASet
<1>5. \A e \in ToSet(rest) : ToSet(e) \cap out = {}
    BY <1>1, <1>3, <1>4 DEF ToSet
<1> HIDE DEF rest
<1>6. \A i \in DOMAIN rest : rest[i] \in ToSet(rest)
    BY DEF ToSet
<1> QED BY <1>5, <1>6 DEF Commands, rest, all

(* What a step of init that reads a file decides to leave and say of it.    *)
FileKinds == {"absent", "object", "broken", "misshapen", "foreign", "torn"} \cup Marked
Keeps(read, left, remove) ==
    /\ read.kind \in {"absent", "object"} \cup Marked /\ read.andon # "different"
    /\ \/ HasMarker(read)
       \/ /\ Others(left.stop) = IF remove THEN Without(Others(read.stop), {<<>>}) ELSE Others(read.stop)
          /\ left.foreign = read.foreign
IsSaid(name, read, left, says, remove, selfMeasure) ==
    /\ IsFileOf(name, left)
    /\ says \in {"wrote", "already", "removed", "absent", "refused"}
    /\ says \in {"wrote", "removed"} =>
           /\ Keeps(read, left, remove)
           /\ name \notin JsonFiles => left = Absent \/ (HasMarker(left) /\ ~ left.foreign)
    /\ says \notin {"wrote", "removed"} => left = read
    /\ says = "removed" => OursIn(left) = {} /\ ~ HasMarker(left) /\ left.andon # "ours"
    /\ says \in {"wrote", "already"} =>
           /\ name = "settings" => OursIn(left) = {HookCommand(selfMeasure)}
           /\ name = "preCommit" => /\ left.kind = Script(selfMeasure) /\ ~ left.foreign
                                    /\ says = "wrote" => left.armed
           /\ name = "rules" => HasMarker(left)
           /\ name \in {"mcp", "cursorMcp"} => left.andon = "ours"
StepIsSaid(name, read, step, remove, selfMeasure) ==
    IsSaid(name, read, step.file, step.says, remove, selfMeasure)

FileOf(kind, stop, andon, foreign, armed) ==
    [kind |-> kind, stop |-> stop, andon |-> andon, foreign |-> foreign, armed |-> armed]

LEMMA FilesAre ==
    ASSUME NEW kind, NEW stop, NEW andon, NEW foreign
    PROVE  /\ StopHooks(stop) = FileOf("object", stop, "none", FALSE, FALSE)
           /\ ServersOf(andon, foreign) = FileOf("object", <<>>, andon, foreign, FALSE)
           /\ OwnFile(kind) = FileOf(kind, <<>>, "none", FALSE, FALSE)
           /\ [OwnFile(kind) EXCEPT !.armed = TRUE] = FileOf(kind, <<>>, "none", FALSE, TRUE)
           /\ Absent = FileOf("absent", <<>>, "none", FALSE, FALSE)
           /\ Broken = FileOf("broken", <<>>, "none", FALSE, FALSE)
<1>1. ASSUME NEW h, DOMAIN h = {"kind", "stop", "andon", "foreign", "armed"}, h = [x \in DOMAIN h |-> h[x]]
      PROVE  h = FileOf(h.kind, h.stop, h.andon, h.foreign, h.armed)
    BY <1>1 DEF FileOf
<1> DEFINE Fields == {"kind", "stop", "andon", "foreign", "armed"}
           IsRecord(h) == DOMAIN h = Fields /\ h = [x \in DOMAIN h |-> h[x]]
<1>2. /\ IsRecord(Absent) /\ Absent.kind = "absent" /\ Absent.stop = <<>> /\ Absent.andon = "none"
      /\ Absent.foreign = FALSE /\ Absent.armed = FALSE
    BY DEF Absent
<1>3. ASSUME NEW k
      PROVE  /\ IsRecord(OwnFile(k)) /\ OwnFile(k).kind = k /\ OwnFile(k).stop = <<>>
             /\ OwnFile(k).andon = "none" /\ OwnFile(k).foreign = FALSE /\ OwnFile(k).armed = FALSE
    BY <1>2 DEF OwnFile
<1>4. StopHooks(stop) = FileOf("object", stop, "none", FALSE, FALSE)
    <2> DEFINE h == StopHooks(stop)
    <2>1. /\ IsRecord(h) /\ h.kind = "object" /\ h.stop = stop /\ h.andon = "none"
          /\ h.foreign = FALSE /\ h.armed = FALSE
        BY <1>2 DEF StopHooks
    <2> HIDE DEF h
    <2>2. h = FileOf(h.kind, h.stop, h.andon, h.foreign, h.armed)
        BY <1>1, <2>1
    <2> QED BY <2>1, <2>2 DEF h
<1>5. ServersOf(andon, foreign) = FileOf("object", <<>>, andon, foreign, FALSE)
    <2> DEFINE h == ServersOf(andon, foreign)
    <2>1. /\ IsRecord(h) /\ h.kind = "object" /\ h.stop = <<>> /\ h.andon = andon
          /\ h.foreign = foreign /\ h.armed = FALSE
        BY <1>2 DEF ServersOf
    <2> HIDE DEF h
    <2>2. h = FileOf(h.kind, h.stop, h.andon, h.foreign, h.armed)
        BY <1>1, <2>1
    <2> QED BY <2>1, <2>2 DEF h
<1>6. ASSUME NEW k PROVE OwnFile(k) = FileOf(k, <<>>, "none", FALSE, FALSE)
    <2> DEFINE h == OwnFile(k)
    <2>1. /\ IsRecord(h) /\ h.kind = k /\ h.stop = <<>> /\ h.andon = "none"
          /\ h.foreign = FALSE /\ h.armed = FALSE
        BY <1>3
    <2> HIDE DEF h
    <2>2. h = FileOf(h.kind, h.stop, h.andon, h.foreign, h.armed)
        BY <1>1, <2>1
    <2> QED BY <2>1, <2>2 DEF h
<1>7. [OwnFile(kind) EXCEPT !.armed = TRUE] = FileOf(kind, <<>>, "none", FALSE, TRUE)
    <2> DEFINE h == [OwnFile(kind) EXCEPT !.armed = TRUE]
    <2>1. /\ IsRecord(h) /\ h.kind = kind /\ h.stop = <<>> /\ h.andon = "none"
          /\ h.foreign = FALSE /\ h.armed = TRUE
        BY <1>3
    <2> HIDE DEF h
    <2>2. h = FileOf(h.kind, h.stop, h.andon, h.foreign, h.armed)
        BY <1>1, <2>1
    <2> QED BY <2>1, <2>2 DEF h
<1>8. Absent = FileOf("absent", <<>>, "none", FALSE, FALSE)
    BY <1>1, <1>2
<1>9. Broken = FileOf("broken", <<>>, "none", FALSE, FALSE)
    <2>1. Broken = OwnFile("broken")
        BY Zenon DEF Broken, OwnFile
    <2> QED BY <1>6, <2>1
<1> QED BY <1>4, <1>5, <1>6, <1>7, <1>8, <1>9

LEMMA FileIs ==
    ASSUME NEW name, NEW f, IsFileOf(name, f)
    PROVE  /\ f.kind \in FileKinds /\ f.stop \in Seq(Seq(HookCommands))
           /\ f.andon \in {"none", "ours", "different"} /\ f.foreign \in BOOLEAN /\ f.armed \in BOOLEAN
           /\ f = FileOf(f.kind, f.stop, f.andon, f.foreign, f.armed)
<1> DEFINE Files == Seq(Seq(HookCommands))
<1> HIDE DEF Files
<1>1. f \in [kind : FileKinds, stop : Files, andon : {"none", "ours", "different"},
             foreign : BOOLEAN, armed : BOOLEAN]
    BY DEF IsFileOf, Files, FileKinds
<1>2. /\ f.kind \in FileKinds /\ f.stop \in Files /\ f.andon \in {"none", "ours", "different"}
      /\ f.foreign \in BOOLEAN /\ f.armed \in BOOLEAN
    BY <1>1
<1>3. f = FileOf(f.kind, f.stop, f.andon, f.foreign, f.armed)
    BY <1>1 DEF FileOf
<1> QED BY <1>2, <1>3 DEF Files

LEMMA FileOfIs ==
    ASSUME NEW kind, NEW stop, NEW andon, NEW foreign, NEW armed
    PROVE  /\ FileOf(kind, stop, andon, foreign, armed).kind = kind
           /\ FileOf(kind, stop, andon, foreign, armed).stop = stop
           /\ FileOf(kind, stop, andon, foreign, armed).andon = andon
           /\ FileOf(kind, stop, andon, foreign, armed).foreign = foreign
           /\ FileOf(kind, stop, andon, foreign, armed).armed = armed
BY DEF FileOf

LEMMA MakesAFile ==
    ASSUME NEW name \in FileNames, NEW g, NEW kind \in FileKinds, NEW stop \in Seq(Seq(HookCommands)),
           NEW andon \in {"none", "ours", "different"}, NEW foreign \in BOOLEAN, NEW armed \in BOOLEAN,
           g = FileOf(kind, stop, andon, foreign, armed),
           kind # "object" => stop = <<>> /\ andon = "none",
           kind # "object" /\ kind \notin Marked => ~ foreign,
           name \notin JsonFiles => kind \notin {"object", "broken", "misshapen"},
           name \in JsonFiles => kind \in {"absent", "object", "broken", "misshapen"},
           name = "settings" => andon = "none" /\ ~ foreign,
           name # "settings" => stop = <<>>,
           name # "preCommit" \/ kind = "absent" => ~ armed
    PROVE  IsFileOf(name, g)
<1> DEFINE Files == Seq(Seq(HookCommands))
<1>1. stop \in Files
    OBVIOUS
<1> HIDE DEF Files
<1>2. g \in [kind : FileKinds, stop : Files, andon : {"none", "ours", "different"},
             foreign : BOOLEAN, armed : BOOLEAN]
    BY <1>1 DEF FileOf
<1>3. g.kind = kind /\ g.stop = stop /\ g.andon = andon /\ g.foreign = foreign /\ g.armed = armed
    BY FileOfIs
<1> HIDE DEF FileKinds
<1> QED BY <1>2, <1>3 DEF IsFileOf, Files, HasMarker, FileKinds

LEMMA StopHookIsSaid ==
    ASSUME NEW f, IsFileOf("settings", f), NEW remove \in BOOLEAN, NEW selfMeasure \in BOOLEAN
    PROVE  StepIsSaid("settings", f, StepOn("settings", f, remove, selfMeasure), remove, selfMeasure)
<1> DEFINE ss == f.stop
           out == OurCommands
           w == HookCommand(selfMeasure)
<1>1. /\ ss \in Seq(Seq(HookCommands)) /\ w \in HookCommands \cap out /\ f.andon = "none" /\ ~ f.foreign
      /\ f.kind \in {"absent", "object", "broken", "misshapen"} /\ f.foreign = FALSE
      /\ f.kind # "object" => ss = <<>>
    <2>1. /\ ss \in Seq(Seq(HookCommands)) /\ f.foreign \in BOOLEAN
        BY FileIs
    <2>2. /\ f.andon = "none" /\ ~ f.foreign /\ f.kind \in {"absent", "object", "broken", "misshapen"}
          /\ f.kind # "object" => ss = <<>>
        BY DEF IsFileOf, JsonFiles
    <2>3. w \in HookCommands \cap out
        BY DEF HookCommand, OurCommands, HookCommands
    <2> QED BY <2>1, <2>2, <2>3
<1>2. OursIn(f) = Commands(ss) \cap out /\ (ss = <<>> => OursIn(f) = {})
    BY DEF OursIn, CommandsOf, Commands
<1>3. Others(ss) = OthersIn(ss, out)
    BY DEF Others, OthersIn, AllWithout
<1>4. ASSUME NEW kept \in Seq(Seq(HookCommands)), f.kind \in {"absent", "object"},
             OthersIn(kept, out) = IF remove THEN Without(OthersIn(ss, out), {<<>>}) ELSE OthersIn(ss, out),
             NEW g, g = StopHooks(kept)
      PROVE  /\ IsFileOf("settings", g) /\ Keeps(f, g, remove) /\ ~ HasMarker(g)
             /\ g.andon = "none" /\ OursIn(g) = Commands(kept) \cap out
    <2>1. /\ g = FileOf("object", kept, "none", FALSE, FALSE)
          /\ g.kind = "object" /\ g.stop = kept /\ g.andon = "none" /\ g.foreign = FALSE
        <3>1. g = FileOf("object", kept, "none", FALSE, FALSE)
            BY <1>4, FilesAre
        <3> HIDE DEF ss, out, w
        <3> QED BY <3>1 DEF FileOf
    <2>2. IsFileOf("settings", g)
        BY <2>1, MakesAFile DEF FileKinds, FileNames, JsonFiles
    <2>3. Others(kept) = OthersIn(kept, out)
        BY DEF Others, OthersIn, AllWithout
    <2>4. Keeps(f, g, remove)
        <3> HIDE DEF ss, out
        <3> QED BY <1>1, <1>3, <1>4, <2>1, <2>3 DEF Keeps, ss
    <2>5. OursIn(g) = Commands(kept) \cap out /\ ~ HasMarker(g)
        BY <2>1 DEF OursIn, CommandsOf, Commands, HasMarker, Marked, Gates
    <2> QED BY <2>1, <2>2, <2>4, <2>5
<1>5. ASSUME NEW step, step.file = f, step.says \in {"absent", "refused"}
      PROVE  StepIsSaid("settings", f, step, remove, selfMeasure)
    BY <1>5 DEF StepIsSaid, IsSaid
<1>6. CASE remove
    <2> DEFINE step == RemoveStopHook(f)
               kept == Without(AllWithout(ss, out), {<<>>})
    <2>1. StepOn("settings", f, remove, selfMeasure) = step
        BY <1>6 DEF StepOn
    <2>2. /\ kept \in Seq(Seq(HookCommands)) /\ Commands(kept) \cap out = {}
          /\ OthersIn(kept, out) = Without(OthersIn(ss, out), {<<>>})
        <3> HIDE DEF ss, out
        <3>1. kept \in Seq(Seq(HookCommands)) /\ OthersIn(kept, out) = Without(OthersIn(ss, out), {<<>>})
            BY <1>1, OthersRemoved
        <3>2. Commands(kept) \cap out = {}
            BY <1>1, CommandsRemoved
        <3> QED BY <3>1, <3>2
    <2>3. \/ /\ f.kind # "broken" /\ OursIn(f) # {}
             /\ step = [file |-> StopHooks(kept), says |-> "removed"]
          \/ step = [file |-> f, says |-> "absent"]
          \/ step = [file |-> f, says |-> "refused"]
        BY DEF RemoveStopHook, Says, AllWithout
    <2> HIDE DEF step, kept, ss, out
    <2>4. CASE f.kind # "broken" /\ OursIn(f) # {} /\ step = [file |-> StopHooks(kept), says |-> "removed"]
        <3> DEFINE g == StopHooks(kept)
        <3>1. f.kind \in {"absent", "object"}
            BY <1>1, <1>2, <2>4
        <3> HIDE DEF g
        <3>2. /\ IsFileOf("settings", g) /\ Keeps(f, g, remove) /\ ~ HasMarker(g)
              /\ g.andon = "none" /\ OursIn(g) = {}
            BY <1>4, <1>6, <2>2, <3>1 DEF g
        <3>3. step.file = g /\ step.says = "removed"
            BY <2>4 DEF g
        <3> QED BY <2>1, <3>2, <3>3 DEF StepIsSaid, IsSaid, JsonFiles
    <2>5. CASE step = [file |-> f, says |-> "absent"] \/ step = [file |-> f, says |-> "refused"]
        <3>1. step.file = f /\ step.says \in {"absent", "refused"}
            BY <2>5
        <3> QED BY <1>5, <2>1, <3>1
    <2> QED BY <2>3, <2>4, <2>5
<1>7. CASE ~ remove
    <2> DEFINE step == InstallStopHook(f, selfMeasure)
               added == Append(ss, <<w>>)
               all == AllRewritten(ss, out, w)
    <2>1. StepOn("settings", f, remove, selfMeasure) = step
        BY <1>7 DEF StepOn
    <2>2. /\ added \in Seq(Seq(HookCommands)) /\ OthersIn(added, out) = OthersIn(ss, out)
          /\ all \in Seq(Seq(HookCommands)) /\ OthersIn(all, out) = OthersIn(ss, out)
          /\ Commands(added) = Commands(ss) \cup {w}
          /\ Commands(all) = (Commands(ss) \ out) \cup (IF Commands(ss) \cap out = {} THEN {} ELSE {w})
        <3> HIDE DEF ss, out, w
        <3>1. added \in Seq(Seq(HookCommands)) /\ OthersIn(added, out) = OthersIn(ss, out)
            BY <1>1, OthersInstalled
        <3>2. all \in Seq(Seq(HookCommands)) /\ OthersIn(all, out) = OthersIn(ss, out)
            BY <1>1, OthersRewritten
        <3>3. Commands(added) = Commands(ss) \cup {w}
            BY <1>1, CommandsInstalled
        <3>4. Commands(all) = (Commands(ss) \ out) \cup (IF Commands(ss) \cap out = {} THEN {} ELSE {w})
            BY <1>1, CommandsRewritten
        <3> QED BY <3>1, <3>2, <3>3, <3>4
    <2>3. \/ step = [file |-> f, says |-> "refused"]
          \/ /\ f.kind \notin {"broken", "misshapen"} /\ OursIn(f) = {}
             /\ step = [file |-> StopHooks(added), says |-> "wrote"]
          \/ step = [file |-> f, says |-> "already"] /\ OursIn(f) = {w}
          \/ /\ f.kind \notin {"broken", "misshapen"} /\ OursIn(f) # {}
             /\ step = [file |-> StopHooks(all), says |-> "wrote"]
        BY DEF InstallStopHook, Says, AllRewritten, Rewritten, IsOurs
    <2> HIDE DEF step, added, all, ss, w, out
    <2>4. CASE step = [file |-> f, says |-> "refused"]
        <3>1. step.file = f /\ step.says = "refused"
            BY <2>4
        <3> QED BY <1>5, <2>1, <3>1
    <2>5. CASE step = [file |-> f, says |-> "already"] /\ OursIn(f) = {w}
        <3>1. step.file = f /\ step.says = "already"
            BY <2>5
        <3> QED BY <2>1, <2>5, <3>1 DEF StepIsSaid, IsSaid, w
    <2>6. ASSUME NEW kept \in Seq(Seq(HookCommands)), step = [file |-> StopHooks(kept), says |-> "wrote"],
                 f.kind \notin {"broken", "misshapen"}, OthersIn(kept, out) = OthersIn(ss, out),
                 Commands(kept) \cap out = {w}
          PROVE  StepIsSaid("settings", f, step, remove, selfMeasure)
        <3> DEFINE g == StopHooks(kept)
        <3>1. f.kind \in {"absent", "object"}
            BY <1>1, <2>6
        <3> HIDE DEF g
        <3>2. IsFileOf("settings", g) /\ Keeps(f, g, remove) /\ OursIn(g) = {w}
            BY <1>4, <1>7, <2>6, <3>1 DEF g
        <3>3. step.file = g /\ step.says = "wrote"
            BY <2>6 DEF g
        <3> QED BY <3>2, <3>3 DEF StepIsSaid, IsSaid, JsonFiles, w
    <2>7. OursIn(f) = {} => Commands(added) \cap out = {w}
        BY <1>1, <1>2, <2>2 DEF w
    <2>8. OursIn(f) # {} => Commands(all) \cap out = {w}
        BY <1>1, <1>2, <2>2 DEF w
    <2> QED BY <2>1, <2>2, <2>3, <2>4, <2>5, <2>6, <2>7, <2>8
<1> QED BY <1>6, <1>7

LEMMA OtherStepsAreSaid ==
    ASSUME NEW name \in FileNames \ {"settings"}, NEW f, IsFileOf(name, f),
           NEW remove \in BOOLEAN, NEW selfMeasure \in BOOLEAN
    PROVE  StepIsSaid(name, f, StepOn(name, f, remove, selfMeasure), remove, selfMeasure)
<1> DEFINE step == StepOn(name, f, remove, selfMeasure)
<1> SUFFICES StepIsSaid(name, f, step, remove, selfMeasure)
    OBVIOUS
<1>1. /\ <<>> \in Seq(Seq(HookCommands)) /\ f.stop = <<>> /\ f.foreign \in BOOLEAN
      /\ f.kind # "object" => f.andon = "none"
      /\ f.kind # "object" /\ ~ HasMarker(f) => f.foreign = FALSE
    <2>1. f.foreign \in BOOLEAN
        BY FileIs
    <2>2. /\ f.stop = <<>> /\ f.kind # "object" => f.andon = "none"
          /\ f.kind # "object" /\ ~ HasMarker(f) => ~ f.foreign
        BY DEF IsFileOf
    <2>3. <<>> \in Seq(Seq(HookCommands))
        BY EmptySeq
    <2> QED BY <2>1, <2>2, <2>3 DEF IsFileOf
<1>2. Without(Others(<<>>), {<<>>}) = Others(<<>>) /\ Others(<<>>) = <<>>
    <2>1. Without(<<>>, Seq(OurCommands) \ {<<>>}) = <<>>
        BY NothingLeft
    <2>2. Others(<<>>) = <<>>
        <3> DEFINE q == Without(<<>>, Seq(OurCommands) \ {<<>>})
        <3>1. Others(<<>>) = AllWithout(q, OurCommands)
            BY DEF Others, AllWithout
        <3> HIDE DEF q
        <3>2. q = <<>>
            BY <2>1 DEF q
        <3>3. AllWithout(<<>>, OurCommands) = <<>>
            BY DEF AllWithout
        <3> QED BY <3>1, <3>2, <3>3
    <2> QED BY <2>2, NothingLeft
<1>3. ASSUME NEW kind \in {"absent", "object"} \cup Marked, NEW andon \in {"none", "ours"},
             NEW foreign \in BOOLEAN, NEW armed \in BOOLEAN,
             kind # "object" => andon = "none" /\ ~ foreign,
             name \notin JsonFiles => kind \in Marked \cup {"absent"},
             name \in JsonFiles => kind \in {"absent", "object"},
             name # "preCommit" \/ kind = "absent" => ~ armed,
             HasMarker(f) \/ foreign = f.foreign,
             f.kind \in {"absent", "object"} \cup Marked, f.andon # "different",
             NEW g, g = FileOf(kind, <<>>, andon, foreign, armed)
      PROVE  IsFileOf(name, g) /\ Keeps(f, g, remove) /\ OursIn(g) = {}
    <2>1. g.kind = kind /\ g.stop = <<>> /\ g.andon = andon /\ g.foreign = foreign /\ g.armed = armed
        BY <1>3, FileOfIs
    <2>2. IsFileOf(name, g)
        <3>1. kind \in FileKinds /\ name # "settings" /\ andon \in {"none", "ours", "different"}
            BY DEF FileKinds
        <3>2. /\ kind # "object" => andon = "none"
              /\ kind # "object" /\ kind \notin Marked => ~ foreign
              /\ name \notin JsonFiles => kind \notin {"object", "broken", "misshapen"}
              /\ name \in JsonFiles => kind \in {"absent", "object", "broken", "misshapen"}
            BY <1>3 DEF Marked, Gates
        <3> HIDE DEF step
        <3> QED BY <1>1, <1>3, <3>1, <3>2, MakesAFile
    <2>3. Keeps(f, g, remove)
        BY <1>1, <1>2, <1>3, <2>1 DEF Keeps
    <2>4. OursIn(g) = {}
        BY <2>1 DEF OursIn, CommandsOf
    <2> QED BY <2>2, <2>3, <2>4
<1>4. CASE name \in {"mcp", "cursorMcp"}
    <2>1. step = IF remove THEN RemoveMcpServer(f) ELSE InstallMcpServer(f)
        BY <1>4 DEF StepOn
    <2>2. f.kind \in {"absent", "object", "broken", "misshapen"} /\ name \in JsonFiles
        BY <1>4 DEF IsFileOf, JsonFiles
    <2> DEFINE g(andon) == ServersOf(andon, f.foreign)
    <2>3. CASE step.file = f /\ step.says \in {"absent", "refused"}
        BY <2>3 DEF StepIsSaid, IsSaid
    <2>4. CASE step.file = f /\ step.says = "already" /\ f.andon = "ours"
        BY <1>4, <2>4 DEF StepIsSaid, IsSaid
    <2>5. ASSUME NEW andon \in {"none", "ours"}, step.file = g(andon),
                 f.kind \in {"absent", "object"}, f.andon # "different"
          PROVE  /\ IsFileOf(name, step.file) /\ Keeps(f, step.file, remove) /\ OursIn(step.file) = {}
                 /\ step.file.andon = andon /\ ~ HasMarker(step.file)
        <3> DEFINE h == step.file
        <3>1. h = FileOf("object", <<>>, andon, f.foreign, FALSE)
            BY <2>5, FilesAre
        <3> HIDE DEF h, step
        <3>2. IsFileOf(name, h) /\ Keeps(f, h, remove) /\ OursIn(h) = {}
            BY <1>1, <1>3, <2>2, <2>5, <3>1
        <3>3. h.andon = andon /\ h.kind = "object"
            BY <3>1 DEF FileOf
        <3> QED BY <3>2, <3>3 DEF h, HasMarker, Marked, Gates
    <2>6. \/ step.file = f /\ step.says \in {"absent", "refused"}
          \/ step.file = f /\ step.says = "already" /\ f.andon = "ours"
          \/ /\ step.file = g("ours") /\ step.says = "wrote"
             /\ f.kind \in {"absent", "object"} /\ f.andon # "different"
          \/ /\ step.file = g("none") /\ step.says = "removed"
             /\ f.kind \in {"absent", "object"} /\ f.andon # "different"
        <3> HIDE DEF g
        <3>1. CASE remove
            <4>1. step = RemoveMcpServer(f)
                BY <2>1, <3>1
            <4>2. f.andon # "none" => f.kind = "object"
                BY <1>1
            <4> HIDE DEF step
            <4> QED BY <2>2, <4>1, <4>2 DEF RemoveMcpServer, Says, g
        <3>2. CASE ~ remove
            <4>1. step = InstallMcpServer(f)
                BY <2>1, <3>2
            <4> HIDE DEF step
            <4> QED BY <2>2, <4>1 DEF InstallMcpServer, Says, g
        <3> QED BY <3>1, <3>2
    <2> HIDE DEF step
    <2> QED BY <1>4, <2>2, <2>3, <2>4, <2>5, <2>6 DEF StepIsSaid, IsSaid
<1>5. CASE name \in {"preCommit", "rules"}
    <2>1. step = IF remove THEN RemoveOwnedFile(f)
                 ELSE IF name = "rules" THEN InstallRules(f) ELSE InstallPreCommit(f, selfMeasure)
        BY <1>5 DEF StepOn
    <2>2. f.kind \in {"absent", "foreign", "torn"} \cup Marked /\ name \notin JsonFiles /\ f.andon = "none"
        <3>1. f.kind \in FileKinds /\ name \notin JsonFiles
            BY <1>5, FileIs DEF JsonFiles
        <3>2. f.kind \notin {"object", "broken", "misshapen"}
            BY <3>1 DEF IsFileOf
        <3> QED BY <1>1, <3>1, <3>2 DEF FileKinds
    <2> DEFINE mark == IF name = "rules" THEN "rules" ELSE Script(selfMeasure)
               wanted == IF name = "rules" THEN OwnFile("rules") ELSE PreCommit(selfMeasure)
    <2>3. CASE step.file = f /\ step.says \in {"absent", "refused"}
        BY <2>3 DEF StepIsSaid, IsSaid
    <2>4. CASE step.file = f /\ step.says = "already" /\ f.kind = mark /\ ~ f.foreign
        BY <1>5, <2>4 DEF StepIsSaid, IsSaid, HasMarker, Marked
    <2>5. ASSUME NEW kind \in Marked \cup {"absent"}, NEW armed \in BOOLEAN,
                 name # "preCommit" \/ kind = "absent" => ~ armed,
                 step.file = FileOf(kind, <<>>, "none", FALSE, armed), f.kind = "absent" \/ HasMarker(f)
          PROVE  /\ IsFileOf(name, step.file) /\ Keeps(f, step.file, remove) /\ OursIn(step.file) = {}
                 /\ step.file.andon = "none" /\ step.file.kind = kind /\ ~ step.file.foreign
                 /\ step.file.armed = armed
        <3> DEFINE h == step.file
        <3>1. HasMarker(f) \/ FALSE = f.foreign
            BY <1>1, <2>5
        <3>2. /\ kind # "object" /\ f.kind \in {"absent", "object"} \cup Marked /\ f.andon # "different"
              /\ kind \in {"absent", "object"} \cup Marked
            BY <2>2, <2>5 DEF Marked, Gates, HasMarker
        <3>3. h.andon = "none" /\ h.kind = kind /\ ~ h.foreign /\ h.armed = armed
            <4>1. h = FileOf(kind, <<>>, "none", FALSE, armed)
                BY <2>5
            <4> HIDE DEF h
            <4> QED BY <4>1 DEF FileOf
        <3>4. h = FileOf(kind, <<>>, "none", FALSE, armed)
            BY <2>5
        <3> HIDE DEF h, step
        <3>5. IsFileOf(name, h) /\ Keeps(f, h, remove) /\ OursIn(h) = {}
            BY <1>3, <2>2, <2>5, <3>1, <3>2, <3>4
        <3> QED BY <3>3, <3>5 DEF h
    <2>6. mark \in Marked
        BY DEF Script, Marked, Gates
    <2>7. wanted = FileOf(mark, <<>>, "none", FALSE, name # "rules")
        <3>1. CASE name = "rules"
            <4>1. (name # "rules") = FALSE
                BY <3>1
            <4> QED BY <3>1, <4>1, FilesAre
        <3>2. CASE name # "rules"
            <4>1. (name # "rules") = TRUE
                BY <3>2
            <4> QED BY <3>2, <4>1, FilesAre DEF PreCommit
        <3> QED BY <3>1, <3>2
    <2>8. \/ step.file = f /\ step.says \in {"absent", "refused"}
          \/ step.file = f /\ step.says = "already" /\ f.kind = mark /\ ~ f.foreign
          \/ step.file = wanted /\ step.says = "wrote" /\ (f.kind = "absent" \/ HasMarker(f))
          \/ step.file = Absent /\ step.says = "removed" /\ (f.kind = "absent" \/ HasMarker(f))
        <3>1. CASE remove
            <4>1. step = RemoveOwnedFile(f)
                BY <2>1, <3>1
            <4> HIDE DEF step
            <4> QED BY <4>1 DEF RemoveOwnedFile, Says
        <3>2. CASE ~ remove
            <4>1. step = IF f.kind = mark /\ ~ f.foreign THEN Says(f, "already")
                         ELSE IF f.kind = "absent" \/ HasMarker(f) THEN Says(wanted, "wrote")
                         ELSE Says(f, "refused")
                BY <2>1, <3>2 DEF InstallRules, InstallPreCommit
            <4> HIDE DEF step, mark, wanted
            <4> QED BY <4>1 DEF Says
        <3> QED BY <3>1, <3>2
    <2> HIDE DEF mark
    <2>9. CASE step.file = wanted /\ step.says = "wrote" /\ (f.kind = "absent" \/ HasMarker(f))
        <3> DEFINE armed == name # "rules"
        <3>1. armed \in BOOLEAN /\ (name # "preCommit" \/ mark = "absent" => ~ armed)
            BY <1>5, <2>6 DEF Marked, Gates
        <3>2. step.file = FileOf(mark, <<>>, "none", FALSE, armed)
            BY <2>7, <2>9
        <3> HIDE DEF step, wanted, armed
        <3>3. /\ IsFileOf(name, step.file) /\ Keeps(f, step.file, remove)
              /\ step.file.kind = mark /\ ~ step.file.foreign /\ step.file.armed = armed
            BY <2>5, <2>6, <2>9, <3>1, <3>2
        <3>4. HasMarker(step.file)
            BY <2>6, <3>3 DEF HasMarker
        <3>5. name = "preCommit" => mark = Script(selfMeasure) /\ armed
            BY DEF mark, armed
        <3> QED BY <1>5, <2>9, <3>3, <3>4, <3>5 DEF StepIsSaid, IsSaid
    <2>10. CASE step.file = Absent /\ step.says = "removed" /\ (f.kind = "absent" \/ HasMarker(f))
        <3>1. step.file = FileOf("absent", <<>>, "none", FALSE, FALSE)
            BY <2>10, FilesAre
        <3> HIDE DEF step, wanted
        <3>2. /\ IsFileOf(name, step.file) /\ Keeps(f, step.file, remove) /\ OursIn(step.file) = {}
              /\ step.file.andon = "none" /\ step.file.kind = "absent"
            BY <2>5, <2>10, <3>1
        <3>3. ~ HasMarker(step.file)
            BY <3>2 DEF HasMarker, Marked, Gates
        <3> QED BY <2>10, <3>2, <3>3 DEF StepIsSaid, IsSaid
    <2> HIDE DEF step, wanted
    <2> QED BY <2>3, <2>4, <2>8, <2>9, <2>10
<1> QED BY <1>4, <1>5 DEF FileNames, JsonFiles

LEMMA StepIsSaidOf ==
    ASSUME NEW name \in FileNames, NEW f, IsFileOf(name, f),
           NEW remove \in BOOLEAN, NEW selfMeasure \in BOOLEAN
    PROVE  StepIsSaid(name, f, StepOn(name, f, remove, selfMeasure), remove, selfMeasure)
<1>1. CASE name = "settings"
    BY <1>1, StopHookIsSaid
<1>2. CASE name # "settings"
    BY <1>2, OtherStepsAreSaid
<1> QED BY <1>1, <1>2

(* What holds at every moment of a command: what it has still to do, what   *)
(* it has read and is about to write, and what it has told.                 *)
SaidSteps == [file : FileNames, says : {"wrote", "already", "removed", "absent"}]
StepsLeft == {<<"settings", "mcp">>, <<"mcp">>,
              <<"preCommit", "rules", "cursorMcp">>, <<"rules", "cursorMcp">>, <<"cursorMcp">>}
FilesInv ==
    /\ files = [name \in FileNames |-> files[name]]
    /\ \A name \in FileNames : IsFileOf(name, files[name])
PendingIsDecided ==
    LET name == Head(command.steps)
        pending == command.pending
    IN  /\ IsFileOf(name, pending.read) /\ pending.says \in {"wrote", "removed"}
        /\ IsSaid(name, pending.read, pending.file, pending.says, command.remove, command.selfMeasure)
        /\ name \notin spent.edited => pending.read = files[name]
CommandInv ==
    command # NoCommand =>
        /\ DOMAIN command = {"steps", "remove", "selfMeasure", "pending"}
        /\ command.steps \in StepsLeft /\ command.remove \in BOOLEAN /\ command.selfMeasure \in BOOLEAN
        /\ command.pending = NotRead \/ PendingIsDecided
ToldReports == [over : BOOLEAN, refused : FileNames \cup {"no"}, steps : Seq(SaidSteps)]
ToldInv ==
    /\ told \in ToldReports
    /\ command # NoCommand => \A name \in ToSet(command.steps) : SaidOf(name) = {}
SpentInv == spent \in [commands : Nat, edits : Nat, edited : SUBSET FileNames]

InitInv ==
    /\ FilesInv
    /\ CommandInv
    /\ ToldInv
    /\ SpentInv
    /\ WhatIsSaidIsThere
    /\ GateStops

SaidIn(steps, name) == {steps[i].says : i \in {j \in DOMAIN steps : steps[j].file = name}}

LEMMA AppendExtends ==
    ASSUME NEW T, NEW s \in Seq(T), NEW x \in T
    PROVE  IsPrefix(s, s) /\ IsPrefix(s, Append(s, x))
<1> DEFINE t == Append(s, x)
           n == Len(s)
<1>1. /\ t \in Seq(T) /\ Len(t) = n + 1 /\ n \in Nat /\ \A i \in 1 .. n : t[i] = s[i]
    BY AppendProperties, LenProperties
<1> HIDE DEF t
<1>2. SubSeq(s, 1, n) = SubSeq(t, 1, n)
    <2> HIDE DEF n
    <2> QED BY <1>1 DEF SubSeq
<1>3. n <= Len(t) /\ n <= n
    BY <1>1
<1> QED BY <1>2, <1>3 DEF IsPrefix, t

LEMMA SaidAfter ==
    ASSUME NEW s \in Seq(SaidSteps), NEW x \in SaidSteps, NEW name
    PROVE  SaidIn(Append(s, x), name) = SaidIn(s, name) \cup (IF x.file = name THEN {x.says} ELSE {})
<1> DEFINE t == Append(s, x)
           n == Len(s)
<1>1. /\ Len(t) = n + 1 /\ t[n + 1] = x /\ n \in Nat /\ \A i \in 1 .. n : t[i] = s[i]
      /\ DOMAIN t = 1 .. n + 1 /\ DOMAIN s = 1 .. n
    BY AppendProperties, LenProperties
<1>2. \A i \in 1 .. n + 1 : i \in 1 .. n \/ i = n + 1
    BY <1>1
<1>3. 1 .. n \subseteq 1 .. n + 1 /\ n + 1 \in 1 .. n + 1
    BY <1>1
<1> HIDE DEF t, n
<1>4. ASSUME NEW e
      PROVE  e \in SaidIn(t, name) <=> e \in SaidIn(s, name) \cup (IF x.file = name THEN {x.says} ELSE {})
    BY <1>1, <1>2, <1>3 DEF SaidIn
<1> QED BY <1>4 DEF t

LEMMA ShortSequences ==
    ASSUME NEW a, NEW b, NEW c
    PROVE  /\ ToSet(<<>>) = {} /\ ToSet(<<a>>) = {a}
           /\ ToSet(<<a, b>>) = {a, b} /\ ToSet(<<a, b, c>>) = {a, b, c}
           /\ Head(<<a>>) = a /\ Head(<<a, b>>) = a /\ Head(<<a, b, c>>) = a
           /\ Tail(<<a>>) = <<>> /\ Tail(<<a, b>>) = <<b>> /\ Tail(<<a, b, c>>) = <<b, c>>
<1>1. ToSet(<<>>) = {} /\ ToSet(<<a>>) = {a}
    BY DEF ToSet
<1>2. ToSet(<<a, b>>) = {a, b}
    <2>1. DOMAIN <<a, b>> = {1, 2}
        OBVIOUS
    <2> QED BY <2>1 DEF ToSet
<1>3. ToSet(<<a, b, c>>) = {a, b, c}
    <2>1. DOMAIN <<a, b, c>> = {1, 2, 3}
        OBVIOUS
    <2> QED BY <2>1 DEF ToSet
<1>4. Tail(<<a>>) = <<>> /\ Tail(<<a, b>>) = <<b>> /\ Tail(<<a, b, c>>) = <<b, c>>
    OBVIOUS
<1> QED BY <1>1, <1>2, <1>3, <1>4

LEMMA StepsLeftAre ==
    ASSUME NEW steps \in StepsLeft
    PROVE  /\ Head(steps) \in FileNames /\ Head(steps) \in ToSet(steps)
           /\ ToSet(Tail(steps)) \subseteq ToSet(steps) \ {Head(steps)}
           /\ Tail(steps) = <<>> \/ Tail(steps) \in StepsLeft
<1>1. CASE steps = <<"settings", "mcp">>
    <2>1. Head(steps) = "settings" /\ Tail(steps) = <<"mcp">> /\ ToSet(steps) = {"settings", "mcp"}
        BY <1>1, ShortSequences, Zenon
    <2>2. ToSet(<<"mcp">>) = {"mcp"}
        BY ShortSequences, Zenon
    <2>3. ToSet(Tail(steps)) = {"mcp"}
        BY <2>1, <2>2, Zenon
    <2>4. Tail(steps) \in StepsLeft
        BY <2>1, Zenon DEF StepsLeft
    <2>5. ToSet(Tail(steps)) \subseteq ToSet(steps) \ {Head(steps)}
        BY <2>1, <2>3
    <2>6. Head(steps) \in FileNames /\ Head(steps) \in ToSet(steps)
        BY <2>1 DEF FileNames, JsonFiles
    <2> QED BY <2>4, <2>5, <2>6
<1>2. CASE steps = <<"mcp">>
    BY <1>2, ShortSequences DEF StepsLeft, FileNames, JsonFiles
<1>3. CASE steps = <<"preCommit", "rules", "cursorMcp">>
    <2>1. /\ Head(steps) = "preCommit" /\ Tail(steps) = <<"rules", "cursorMcp">>
          /\ ToSet(steps) = {"preCommit", "rules", "cursorMcp"}
        <3> DEFINE a == "preCommit"
                   b == "rules"
                   c == "cursorMcp"
        <3>1. steps = <<a, b, c>>
            BY <1>3
        <3> HIDE DEF a, b, c
        <3>2. ToSet(<<a, b, c>>) = {a, b, c}
            <4>1. DOMAIN <<a, b, c>> = {1, 2, 3}
                OBVIOUS
            <4> QED BY <4>1 DEF ToSet
        <3>3. Head(<<a, b, c>>) = a /\ Tail(<<a, b, c>>) = <<b, c>>
            OBVIOUS
        <3>4. Head(steps) = a /\ Tail(steps) = <<b, c>> /\ ToSet(steps) = {a, b, c}
            BY <3>1, <3>2, <3>3
        <3> QED BY <3>4 DEF a, b, c
    <2>2. ToSet(<<"rules", "cursorMcp">>) = {"rules", "cursorMcp"}
        BY ShortSequences, Zenon
    <2>3. ToSet(Tail(steps)) = {"rules", "cursorMcp"}
        BY <2>1, <2>2, Zenon
    <2>4. Tail(steps) \in StepsLeft
        BY <2>1, Zenon DEF StepsLeft
    <2>5. ToSet(Tail(steps)) \subseteq ToSet(steps) \ {Head(steps)}
        BY <2>1, <2>3
    <2>6. Head(steps) \in FileNames /\ Head(steps) \in ToSet(steps)
        BY <2>1 DEF FileNames, JsonFiles
    <2> QED BY <2>4, <2>5, <2>6
<1>4. CASE steps = <<"rules", "cursorMcp">>
    <2>1. Head(steps) = "rules" /\ Tail(steps) = <<"cursorMcp">> /\ ToSet(steps) = {"rules", "cursorMcp"}
        BY <1>4, ShortSequences, Zenon
    <2>2. ToSet(<<"cursorMcp">>) = {"cursorMcp"}
        BY ShortSequences, Zenon
    <2>3. ToSet(Tail(steps)) = {"cursorMcp"}
        BY <2>1, <2>2, Zenon
    <2>4. Tail(steps) \in StepsLeft
        BY <2>1, Zenon DEF StepsLeft
    <2>5. ToSet(Tail(steps)) \subseteq ToSet(steps) \ {Head(steps)}
        BY <2>1, <2>3
    <2>6. Head(steps) \in FileNames /\ Head(steps) \in ToSet(steps)
        BY <2>1 DEF FileNames, JsonFiles
    <2> QED BY <2>4, <2>5, <2>6
<1>5. CASE steps = <<"cursorMcp">>
    BY <1>5, ShortSequences DEF StepsLeft, FileNames, JsonFiles
<1> QED BY <1>1, <1>2, <1>3, <1>4, <1>5 DEF StepsLeft

LEMMA ReportOf ==
    ASSUME NEW over \in BOOLEAN, NEW refused \in FileNames \cup {"no"}, NEW steps \in Seq(SaidSteps)
    PROVE  [over |-> over, refused |-> refused, steps |-> steps] \in ToldReports
<1> DEFINE Some == Seq(SaidSteps)
<1>1. steps \in Some
    OBVIOUS
<1> HIDE DEF Some
<1>2. [over |-> over, refused |-> refused, steps |-> steps]
          \in [over : BOOLEAN, refused : FileNames \cup {"no"}, steps : Some]
    BY <1>1
<1> QED BY <1>2 DEF ToldReports, Some

LEMMA StepsSaid ==
    ASSUME told \in ToldReports
    PROVE  told.steps \in Seq(SaidSteps) /\ IsPrefix(told.steps, told.steps)
<1>1. told.steps \in Seq(SaidSteps)
    <2> DEFINE Some == Seq(SaidSteps)
    <2> HIDE DEF Some
    <2>1. told \in [over : BOOLEAN, refused : FileNames \cup {"no"}, steps : Some]
        BY DEF ToldReports, Some
    <2>2. told.steps \in Some
        BY <2>1
    <2> QED BY <2>2 DEF Some
<1>2. [file |-> "mcp", says |-> "wrote"] \in SaidSteps
    BY DEF SaidSteps, FileNames, JsonFiles
<1>3. ASSUME NEW x \in SaidSteps PROVE IsPrefix(told.steps, told.steps)
    BY <1>1, AppendExtends
<1> QED BY <1>1, <1>2, <1>3

\* What is in a file that a step said this of.
IsThere(file, says) ==
    /\ says = "removed" => OursIn(file) = {} /\ ~ HasMarker(file) /\ file.andon # "ours"
    /\ says \in {"wrote", "already"} =>
           \/ \E selfMeasure \in BOOLEAN : OursIn(file) = {HookCommand(selfMeasure)}
           \/ HasMarker(file)
           \/ file.andon = "ours"

LEMMA SaidIsThere ==
    ASSUME NEW name \in FileNames, NEW read, NEW left, NEW says, NEW remove, NEW selfMeasure \in BOOLEAN,
           IsSaid(name, read, left, says, remove, selfMeasure)
    PROVE  IsThere(left, says)
<1>1. left.kind = Script(selfMeasure) => HasMarker(left)
    BY DEF Script, HasMarker, Marked, Gates
<1> QED BY <1>1 DEF IsSaid, IsThere, FileNames, JsonFiles

\* The step under way, its file, and that no other file changes.
CommandRuns(name) ==
    /\ command # NoCommand /\ name = Head(command.steps)
    /\ DOMAIN files' = FileNames /\ \A n \in FileNames \ {name} : files'[n] = files[n]
    /\ spent' = spent

LEMMA RunsOnAFile ==
    ASSUME InitInv, command # NoCommand
    PROVE  /\ command.steps \in StepsLeft /\ command.remove \in BOOLEAN /\ command.selfMeasure \in BOOLEAN
           /\ Head(command.steps) \in FileNames
           /\ IsFileOf(Head(command.steps), files[Head(command.steps)])
           /\ SaidIn(told.steps, Head(command.steps)) = {}
           /\ ToSet(Tail(command.steps)) \subseteq ToSet(command.steps) \ {Head(command.steps)}
           /\ Tail(command.steps) = <<>> \/ Tail(command.steps) \in StepsLeft
<1>1. command.steps \in StepsLeft /\ command.remove \in BOOLEAN /\ command.selfMeasure \in BOOLEAN
    BY DEF InitInv, CommandInv
<1>2. /\ Head(command.steps) \in FileNames /\ Head(command.steps) \in ToSet(command.steps)
      /\ ToSet(Tail(command.steps)) \subseteq ToSet(command.steps) \ {Head(command.steps)}
      /\ Tail(command.steps) = <<>> \/ Tail(command.steps) \in StepsLeft
    BY <1>1, StepsLeftAre
<1>3. SaidIn(told.steps, Head(command.steps)) = {}
    BY <1>2 DEF InitInv, ToldInv, SaidOf, SaidIn
<1> QED BY <1>1, <1>2, <1>3 DEF InitInv, FilesInv

LEMMA GoesOnTells ==
    ASSUME InitInv, NEW name, CommandRuns(name), NEW says \in {"wrote", "already", "removed", "absent"},
           GoesOn(name, says), IsThere(files'[name], says)
    PROVE  /\ CommandInv' /\ ToldInv' /\ WhatIsSaidIsThere'
           /\ IsPrefix(told.steps, told'.steps) /\ SaidIn(told'.steps, name) = {says}
<1> DEFINE one == [file |-> name, says |-> says]
           steps == Append(told.steps, one)
           rest == Tail(command.steps)
<1>1. /\ name \in FileNames /\ SaidIn(told.steps, name) = {}
      /\ ToSet(rest) \subseteq ToSet(command.steps) \ {name}
      /\ rest = <<>> \/ rest \in StepsLeft
    BY RunsOnAFile DEF CommandRuns
<1>2. /\ told' = [over |-> rest = <<>>, refused |-> "no", steps |-> steps]
      /\ command' = IF rest = <<>> THEN NoCommand
                    ELSE [command EXCEPT !.steps = rest, !.pending = NotRead]
    BY DEF GoesOn
<1>3. told.steps \in Seq(SaidSteps)
    BY StepsSaid DEF InitInv, ToldInv
<1>4. one \in SaidSteps /\ one.file = name /\ one.says = says
    BY <1>1 DEF SaidSteps
<1> HIDE DEF one
<1>5. steps \in Seq(SaidSteps) /\ IsPrefix(told.steps, steps)
    BY <1>3, <1>4, AppendExtends, AppendProperties
<1>6. \A n : SaidIn(steps, n) = SaidIn(told.steps, n) \cup (IF one.file = n THEN {one.says} ELSE {})
    BY <1>3, <1>4, SaidAfter
<1> HIDE DEF steps
<1>7. told' \in ToldReports /\ told'.steps = steps
    <2> DEFINE last == rest = <<>>
    <2>1. last \in BOOLEAN
        OBVIOUS
    <2> HIDE DEF last
    <2>2. [over |-> last, refused |-> "no", steps |-> steps] \in ToldReports
        BY <1>5, <2>1, ReportOf
    <2> QED BY <1>2, <2>2 DEF last
<1>8. \A n : SaidOf(n)' = SaidIn(steps, n) /\ SaidOf(n) = SaidIn(told.steps, n)
    BY <1>7 DEF SaidOf, SaidIn
<1>9. \A n : SaidOf(n)' = SaidOf(n) \cup (IF n = name THEN {says} ELSE {})
    BY <1>4, <1>6, <1>8
<1>10. ASSUME rest # <<>> PROVE CommandInv' /\ ToldInv'
    <2>1. /\ DOMAIN command = {"steps", "remove", "selfMeasure", "pending"}
          /\ command.remove \in BOOLEAN /\ command.selfMeasure \in BOOLEAN
        BY DEF InitInv, CommandInv, CommandRuns
    <2>2. command' = [command EXCEPT !.steps = rest, !.pending = NotRead]
        BY <1>2, <1>10
    <2> HIDE DEF rest
    <2>3. /\ DOMAIN command' = {"steps", "remove", "selfMeasure", "pending"}
          /\ command'.steps = rest /\ command'.remove = command.remove
          /\ command'.selfMeasure = command.selfMeasure /\ command'.pending = NotRead
        BY <2>1, <2>2
    <2>4. CommandInv'
        BY <1>1, <1>10, <2>1, <2>3 DEF CommandInv
    <2>5. ASSUME NEW n \in ToSet(command'.steps) PROVE SaidOf(n)' = {}
        <3>1. n \in ToSet(command.steps) /\ n # name
            BY <1>1, <2>3, <2>5
        <3>2. SaidOf(n) = {}
            BY <3>1 DEF InitInv, ToldInv, CommandRuns
        <3> QED BY <1>9, <3>1, <3>2
    <2> QED BY <1>7, <2>4, <2>5 DEF ToldInv
<1>11. ASSUME rest = <<>> PROVE CommandInv' /\ ToldInv'
    BY <1>2, <1>7, <1>11 DEF CommandInv, ToldInv
<1>12. WhatIsSaidIsThere'
    <2> SUFFICES ASSUME NEW n \in FileNames \ spent.edited
                 PROVE  /\ "removed" \in SaidOf(n)' =>
                               OursIn(files'[n]) = {} /\ ~ HasMarker(files'[n]) /\ files'[n].andon # "ours"
                        /\ SaidOf(n)' \cap {"wrote", "already"} # {} =>
                               \/ \E selfMeasure \in BOOLEAN : OursIn(files'[n]) = {HookCommand(selfMeasure)}
                               \/ HasMarker(files'[n])
                               \/ files'[n].andon = "ours"
        BY DEF WhatIsSaidIsThere, CommandRuns
    <2>1. CASE n # name
        <3>1. SaidOf(n)' = SaidOf(n) /\ files'[n] = files[n] /\ n \in DOMAIN files \ spent.edited
            BY <1>9, <2>1 DEF InitInv, FilesInv, CommandRuns
        <3> QED BY <3>1 DEF InitInv, WhatIsSaidIsThere
    <2>2. CASE n = name
        <3>1. SaidOf(n)' = {says}
            BY <1>1, <1>8, <1>9, <2>2
        <3>2. "removed" \in SaidOf(n)' => says = "removed"
            BY <3>1
        <3>3. SaidOf(n)' \cap {"wrote", "already"} # {} => says \in {"wrote", "already"}
            BY <3>1
        <3> QED BY <2>2, <3>2, <3>3 DEF IsThere
    <2> QED BY <2>1, <2>2
<1>13. IsPrefix(told.steps, told'.steps) /\ SaidIn(told'.steps, name) = {says}
    BY <1>1, <1>4, <1>5, <1>6, <1>7
<1> QED BY <1>10, <1>11, <1>12, <1>13

LEMMA StopsTells ==
    ASSUME InitInv, NEW name, CommandRuns(name), Stops(name)
    PROVE  /\ CommandInv' /\ ToldInv' /\ WhatIsSaidIsThere'
           /\ IsPrefix(told.steps, told'.steps) /\ SaidIn(told'.steps, name) = {} /\ told'.refused = name
<1>1. name \in FileNames /\ SaidIn(told.steps, name) = {}
    BY RunsOnAFile DEF CommandRuns
<1>2. told' = [over |-> TRUE, refused |-> name, steps |-> told.steps] /\ command' = NoCommand
    BY DEF Stops, RefusedAfter
<1>3. told.steps \in Seq(SaidSteps) /\ IsPrefix(told.steps, told.steps)
    BY StepsSaid DEF InitInv, ToldInv
<1>4. told' \in ToldReports
    BY <1>1, <1>2, <1>3, ReportOf
<1>5. told'.steps = told.steps /\ told'.refused = name
    BY <1>2
<1>6. \A n : SaidOf(n)' = SaidOf(n) /\ SaidOf(n) = SaidIn(told.steps, n)
    BY <1>5 DEF SaidOf, SaidIn
<1>7. WhatIsSaidIsThere'
    <2>1. \A n \in DOMAIN files' \ spent'.edited : n # name => n \in DOMAIN files \ spent.edited /\ files'[n] = files[n]
        BY DEF CommandRuns, InitInv, FilesInv
    <2>2. SaidOf(name)' = {}
        BY <1>1, <1>6
    <2> QED BY <1>6, <2>1, <2>2 DEF InitInv, WhatIsSaidIsThere
<1> QED BY <1>1, <1>2, <1>3, <1>4, <1>5, <1>7 DEF CommandInv, ToldInv

LEMMA ReadTells ==
    ASSUME InitInv, ReadFile
    PROVE  InitInv' /\ ChangeIsSaid /\ ForeignIsKept
<1> DEFINE name == Head(command.steps)
           read == files[name]
           step == StepOn(name, read, command.remove, command.selfMeasure)
<1>1. /\ command.steps \in StepsLeft /\ command.remove \in BOOLEAN /\ command.selfMeasure \in BOOLEAN
      /\ name \in FileNames /\ IsFileOf(name, read) /\ SaidIn(told.steps, name) = {} /\ command # NoCommand
    BY RunsOnAFile DEF ReadFile
<1>2. StepIsSaid(name, read, step, command.remove, command.selfMeasure)
    <2> HIDE DEF name, read
    <2> QED BY <1>1, StepIsSaidOf
<1>3. UNCHANGED <<files, fired, spent>> /\ CommandRuns(name)
    BY DEF ReadFile, CommandRuns, InitInv, FilesInv
<1>4. FilesInv' /\ SpentInv' /\ GateStops' /\ ForeignIsKept
    BY <1>3 DEF InitInv, FilesInv, SpentInv, GateStops, ForeignIsKept, CommandChangesFiles
<1>5. \/ Stops(name)
      \/ step.says \in {"already", "absent"} /\ GoesOn(name, step.says)
      \/ /\ step.says \in {"wrote", "removed"} /\ told' = told
         /\ command' = [command EXCEPT !.pending = [read |-> read, file |-> step.file, says |-> step.says]]
    BY DEF ReadFile
<1> HIDE DEF step
<1>6. CASE Stops(name)
    <2>1. /\ CommandInv' /\ ToldInv' /\ WhatIsSaidIsThere'
          /\ IsPrefix(told.steps, told'.steps) /\ SaidIn(told'.steps, name) = {}
        BY <1>3, <1>6, StopsTells
    <2>2. ChangeIsSaid
        BY <1>3, <2>1 DEF ChangeIsSaid, SaidIn
    <2> QED BY <1>4, <2>1, <2>2 DEF InitInv
<1>7. CASE step.says \in {"already", "absent"} /\ GoesOn(name, step.says)
    <2> DEFINE says == step.says
    <2>1. says \in {"wrote", "already", "removed", "absent"} /\ step.file = read
        BY <1>2, <1>7 DEF StepIsSaid, IsSaid
    <2>2. IsSaid(name, read, read, says, command.remove, command.selfMeasure)
        BY <1>2, <2>1 DEF StepIsSaid
    <2>3. GoesOn(name, says) /\ says \in {"already", "absent"}
        BY <1>7
    <2> HIDE DEF name, read, says
    <2>4. IsThere(files'[name], says)
        <3>1. IsThere(read, says)
            BY <1>1, <2>2, SaidIsThere
        <3> QED BY <1>3, <3>1 DEF read
    <2>5. /\ CommandInv' /\ ToldInv' /\ WhatIsSaidIsThere'
          /\ IsPrefix(told.steps, told'.steps) /\ SaidIn(told'.steps, name) = {says}
        BY <1>3, <2>1, <2>3, <2>4, GoesOnTells
    <2>6. ChangeIsSaid
        <3>1. files'[name] = files[name] /\ files'[name] = read
            BY <1>3 DEF read
        <3>2. says \in {"wrote", "already"} =>
                  /\ name = "settings" => OursIn(files'[name]) = {HookCommand(command.selfMeasure)}
                  /\ name = "preCommit" => /\ files'[name].kind = Script(command.selfMeasure)
                                           /\ ~ files'[name].foreign
            BY <2>2, <3>1 DEF IsSaid
        <3>3. SaidIn(told'.steps, name) =
                  {told'.steps[i].says : i \in {j \in DOMAIN told'.steps : told'.steps[j].file = name}}
            BY DEF SaidIn
        <3>4. SaidIn(told'.steps, name) \cap {"wrote", "already"} # {} => says \in {"wrote", "already"}
            BY <2>5
        <3>5. "wrote" \notin SaidIn(told'.steps, name)
            BY <2>3, <2>5
        <3> QED BY <2>5, <3>1, <3>2, <3>3, <3>4, <3>5 DEF ChangeIsSaid, name
    <2> QED BY <1>4, <2>5, <2>6 DEF InitInv
<1>8. CASE /\ step.says \in {"wrote", "removed"} /\ told' = told
           /\ command' = [command EXCEPT !.pending = [read |-> read, file |-> step.file, says |-> step.says]]
    <2> DEFINE pending == [read |-> read, file |-> step.file, says |-> step.says]
    <2>1. pending.read = read /\ pending.file = step.file /\ pending.says = step.says
        OBVIOUS
    <2>2. command' = [command EXCEPT !.pending = pending]
        BY <1>8
    <2> HIDE DEF pending
    <2>3. DOMAIN command = {"steps", "remove", "selfMeasure", "pending"}
        BY <1>1 DEF InitInv, CommandInv
    <2>4. /\ DOMAIN command' = {"steps", "remove", "selfMeasure", "pending"}
          /\ command'.steps = command.steps /\ command'.remove = command.remove
          /\ command'.selfMeasure = command.selfMeasure /\ command'.pending = pending
        BY <2>2, <2>3
    <2>5. PendingIsDecided'
        <3>1. /\ Head(command'.steps) = name /\ command'.pending = pending
              /\ command'.remove = command.remove /\ command'.selfMeasure = command.selfMeasure
            BY <2>4
        <3>2. read = files'[name]
            BY <1>3
        <3> HIDE DEF name, read
        <3>3. IsSaid(name, pending.read, pending.file, pending.says, command.remove, command.selfMeasure)
            BY <1>2, <2>1 DEF StepIsSaid
        <3>4. IsFileOf(name, pending.read) /\ pending.says \in {"wrote", "removed"} /\ pending.read = files'[name]
            BY <1>1, <1>8, <2>1, <3>2
        <3> QED BY <3>1, <3>3, <3>4 DEF PendingIsDecided
    <2>6. CommandInv'
        BY <1>1, <2>4, <2>5 DEF CommandInv
    <2>7. \A n : SaidOf(n)' = SaidOf(n)
        BY <1>8 DEF SaidOf
    <2>8. ToldInv'
        BY <1>1, <1>8, <2>4, <2>7 DEF InitInv, ToldInv
    <2>9. WhatIsSaidIsThere'
        BY <1>3, <2>7 DEF InitInv, WhatIsSaidIsThere
    <2>10. ChangeIsSaid
        BY <1>8 DEF ChangeIsSaid
    <2> QED BY <1>4, <2>6, <2>8, <2>9, <2>10 DEF InitInv
<1> QED BY <1>5, <1>6, <1>7, <1>8

\* What a write cut off leaves is a file, whole or cut short.
LEMMA UnfinishedIsAFile ==
    ASSUME InitInv, command # NoCommand, command.pending # NotRead,
           NEW left \in Unfinished(Head(command.steps)) \cup {command.pending.file}
    PROVE  /\ IsFileOf(Head(command.steps), left)
           /\ \/ left = files[Head(command.steps)] \/ CutShort(left)
              \/ left.stop = command.pending.file.stop /\ left.foreign = command.pending.file.foreign
<1> DEFINE name == Head(command.steps)
           to == command.pending.file
           f == files[name]
<1>1. /\ name \in FileNames /\ IsFileOf(name, f)
      /\ IsSaid(name, command.pending.read, to, command.pending.says, command.remove, command.selfMeasure)
      /\ command.pending.says \in {"wrote", "removed"}
    BY RunsOnAFile DEF InitInv, CommandInv, PendingIsDecided
<1>2. IsFileOf(name, to) /\ (name \notin JsonFiles => to = Absent \/ (HasMarker(to) /\ ~ to.foreign))
    BY <1>1 DEF IsSaid
<1>3. left \in {f, to} \cup (IF to = Absent THEN {}
                             ELSE IF name \in JsonFiles THEN {Broken, to}
                             ELSE {[to EXCEPT !.kind = kind, !.armed = f.armed] :
                                     kind \in {"torn", "old", to.kind}})
    BY DEF Unfinished
<1> HIDE DEF name, to, f
<1>4. CASE left \in {f, to}
    BY <1>1, <1>2, <1>4 DEF name, to, f
<1>5. CASE left = Broken /\ name \in JsonFiles
    <2>1. left = FileOf("broken", <<>>, "none", FALSE, FALSE) /\ left.kind = "broken"
        <3>1. Broken = FileOf("broken", <<>>, "none", FALSE, FALSE)
            BY FilesAre
        <3> QED BY <1>5, <3>1 DEF FileOf
    <2>2. <<>> \in Seq(Seq(HookCommands))
        BY EmptySeq
    <2>3. IsFileOf(name, left)
        <3>1. "broken" \in FileKinds /\ "none" \in {"none", "ours", "different"} /\ FALSE \in BOOLEAN
            BY DEF FileKinds
        <3> HIDE DEF FileKinds
        <3> QED BY <1>1, <1>5, <2>1, <2>2, <3>1, MakesAFile
    <2> QED BY <2>1, <2>3 DEF CutShort, name
<1>6. ASSUME NEW kind \in {"torn", "old", to.kind}, left = [to EXCEPT !.kind = kind, !.armed = f.armed],
             to # Absent, name \notin JsonFiles
      PROVE  /\ IsFileOf(name, left)
             /\ CutShort(left) \/ (left.stop = to.stop /\ left.foreign = to.foreign)
    <2>1. HasMarker(to) /\ ~ to.foreign
        BY <1>2, <1>6
    <2>2. /\ to = FileOf(to.kind, to.stop, to.andon, to.foreign, to.armed)
          /\ to.kind \in FileKinds /\ to.stop \in Seq(Seq(HookCommands)) /\ to.foreign \in BOOLEAN
          /\ to.andon \in {"none", "ours", "different"} /\ f.armed \in BOOLEAN
        BY <1>1, <1>2, FileIs
    <2>3. to.kind # "object" /\ kind \in Marked \cup {"torn"}
        BY <2>1 DEF HasMarker, Marked, Gates
    <2>4. to.stop = <<>> /\ to.andon = "none" /\ (name # "preCommit" => ~ f.armed)
        BY <1>1, <1>2, <2>3 DEF IsFileOf
    <2>5. left = FileOf(kind, to.stop, to.andon, to.foreign, f.armed)
        <3> DEFINE K == to.kind
                   S == to.stop
                   A == to.andon
                   F == to.foreign
                   M == to.armed
                   X == f.armed
        <3>1. to = FileOf(K, S, A, F, M) /\ left = [to EXCEPT !.kind = kind, !.armed = X]
            BY <1>6, <2>2
        <3> HIDE DEF K, S, A, F, M, X
        <3>2. [FileOf(K, S, A, F, M) EXCEPT !.kind = kind] = FileOf(kind, S, A, F, M)
            BY DEF FileOf
        <3>3. [FileOf(kind, S, A, F, M) EXCEPT !.armed = X] = FileOf(kind, S, A, F, X)
            BY DEF FileOf
        <3>4. left = FileOf(kind, S, A, F, X)
            BY <3>1, <3>2, <3>3
        <3> QED BY <3>4 DEF K, S, A, F, M, X
    <2>6. IsFileOf(name, left)
        <3>1. kind \in FileKinds /\ kind \notin {"object", "broken", "misshapen", "absent"}
            BY <2>3 DEF FileKinds, Marked, Gates
        <3>2. kind # "object" /\ kind \notin Marked => ~ to.foreign
            BY <2>1
        <3> DEFINE S == to.stop
                   A == to.andon
                   F == to.foreign
                   X == f.armed
        <3>3. /\ S \in Seq(Seq(HookCommands)) /\ A \in {"none", "ours", "different"}
              /\ F \in BOOLEAN /\ X \in BOOLEAN /\ left = FileOf(kind, S, A, F, X)
              /\ S = <<>> /\ A = "none" /\ (name # "preCommit" => ~ X) /\ ~ F
            BY <2>1, <2>2, <2>4, <2>5
        <3> HIDE DEF S, A, F, X, FileKinds
        <3> QED BY <1>1, <1>6, <3>1, <3>3, MakesAFile
    <2>7. left.kind = kind /\ left.stop = to.stop /\ left.foreign = to.foreign
        BY <2>5, FileOfIs
    <2> QED BY <2>6, <2>7
<1>7. \/ left \in {f, to} \/ (left = Broken /\ name \in JsonFiles)
      \/ /\ to # Absent /\ name \notin JsonFiles
         /\ \E kind \in {"torn", "old", to.kind} : left = [to EXCEPT !.kind = kind, !.armed = f.armed]
    BY <1>3
<1> QED BY <1>4, <1>5, <1>6, <1>7 DEF name, to, f

\* A command's write, whatever comes of it, keeps what it must.
LEMMA WriteKeeps ==
    ASSUME InitInv, command # NoCommand, command.pending # NotRead, spent' = spent,
           NEW left \in Unfinished(Head(command.steps)) \cup {command.pending.file},
           files' = [files EXCEPT ![Head(command.steps)] = left]
    PROVE  FilesInv' /\ CommandRuns(Head(command.steps)) /\ ForeignIsKept /\ files'[Head(command.steps)] = left
<1> DEFINE name == Head(command.steps)
           pending == command.pending
<1>1. /\ IsFileOf(name, left)
      /\ \/ left = files[name] \/ CutShort(left)
         \/ left.stop = pending.file.stop /\ left.foreign = pending.file.foreign
    BY UnfinishedIsAFile
<1>2. /\ name \in FileNames /\ Keeps(pending.read, pending.file, command.remove)
      /\ name \notin spent.edited => pending.read = files[name]
    BY RunsOnAFile DEF InitInv, CommandInv, PendingIsDecided, IsSaid
<1> HIDE DEF name, pending
<1>3. files' = [files EXCEPT ![name] = left] /\ command # NoCommand /\ name = Head(command.steps)
    BY DEF name
<1>4. /\ DOMAIN files' = FileNames /\ files'[name] = left
      /\ \A n \in FileNames \ {name} : files'[n] = files[n]
    BY <1>2, <1>3 DEF InitInv, FilesInv
<1>5. FilesInv' /\ CommandRuns(name)
    BY <1>1, <1>3, <1>4 DEF InitInv, FilesInv, CommandRuns
<1>6. ASSUME files' # files
      PROVE  \/ CutShort(left) \/ HasMarker(pending.read)
             \/ /\ Others(left.stop) = IF command.remove THEN Without(Others(pending.read.stop), {<<>>})
                                       ELSE Others(pending.read.stop)
                /\ left.foreign = pending.read.foreign
    <2>1. left # files[name]
        <3>1. ASSUME left = files[name] PROVE FALSE
            <4>1. files' = files
                BY <1>3, <3>1 DEF InitInv, FilesInv
            <4> QED BY <1>6, <4>1
        <3> QED BY <3>1
    <2> QED BY <1>1, <1>2, <2>1 DEF Keeps
<1>7. ForeignIsKept
    <2>1. /\ pending.read.kind \in {"absent", "object"} \cup Marked /\ pending.read.andon # "different"
          /\ command.pending = pending /\ Head(command.steps) = name
        BY <1>2 DEF Keeps, name, pending
    <2>2. files' = [files EXCEPT ![name] = files'[name]]
        BY <1>3, <1>4
    <2>3. CommandChangesFiles => files' # files
        BY DEF CommandChangesFiles
    <2>4. command.pending # NotRead
        OBVIOUS
    <2> QED BY <1>2, <1>4, <1>6, <2>1, <2>2, <2>3, <2>4 DEF ForeignIsKept
<1> QED BY <1>4, <1>5, <1>7 DEF name

LEMMA WriteTells ==
    ASSUME InitInv, WriteFile
    PROVE  InitInv' /\ ChangeIsSaid /\ ForeignIsKept
<1> DEFINE name == Head(command.steps)
           pending == command.pending
           to == pending.file
           says == pending.says
<1>1. /\ command # NoCommand /\ command.pending # NotRead /\ spent' = spent /\ fired' = fired
      /\ command.selfMeasure \in BOOLEAN /\ name \in FileNames
      /\ says \in {"wrote", "removed"}
      /\ IsSaid(name, pending.read, to, says, command.remove, command.selfMeasure)
    BY RunsOnAFile DEF WriteFile, InitInv, CommandInv, PendingIsDecided
<1>2. \/ files' = [files EXCEPT ![name] = to] /\ GoesOn(name, says)
      \/ (\E left \in Unfinished(name) : files' = [files EXCEPT ![name] = left]) /\ Stops(name)
    BY DEF WriteFile
<1>3. SpentInv' /\ GateStops'
    BY <1>1 DEF InitInv, SpentInv, GateStops
<1>4. CASE files' = [files EXCEPT ![name] = to] /\ GoesOn(name, says)
    <2>1. FilesInv' /\ CommandRuns(name) /\ ForeignIsKept /\ files'[name] = to
        <3>1. to \in Unfinished(name) \cup {command.pending.file}
            OBVIOUS
        <3> QED BY <1>1, <1>4, <3>1, WriteKeeps
    <2> HIDE DEF name, to, says
    <2>2. IsThere(files'[name], says)
        BY <1>1, <2>1, SaidIsThere
    <2>3. /\ CommandInv' /\ ToldInv' /\ WhatIsSaidIsThere'
          /\ IsPrefix(told.steps, told'.steps) /\ SaidIn(told'.steps, name) = {says}
        BY <1>1, <1>4, <2>1, <2>2, GoesOnTells
    <2>4. ChangeIsSaid
        <3>1. SaidIn(told'.steps, name) =
                  {told'.steps[i].says : i \in {j \in DOMAIN told'.steps : told'.steps[j].file = name}}
            BY DEF SaidIn
        <3>2. says \in {"wrote", "already"} =>
                  /\ name = "settings" => OursIn(files'[name]) = {HookCommand(command.selfMeasure)}
                  /\ name = "preCommit" => /\ files'[name].kind = Script(command.selfMeasure)
                                           /\ ~ files'[name].foreign
                                           /\ says = "wrote" => files'[name].armed
            BY <1>1, <2>1 DEF IsSaid
        <3>3. /\ SaidIn(told'.steps, name) \cap {"wrote", "already"} # {} => says \in {"wrote", "already"}
              /\ "wrote" \in SaidIn(told'.steps, name) => says = "wrote"
              /\ SaidIn(told'.steps, name) \cap {"wrote", "removed"} # {}
            BY <1>1, <2>3
        <3> QED BY <2>3, <3>1, <3>2, <3>3 DEF ChangeIsSaid, name
    <2> QED BY <1>3, <2>1, <2>3, <2>4 DEF InitInv
<1>5. CASE (\E left \in Unfinished(name) : files' = [files EXCEPT ![name] = left]) /\ Stops(name)
    <2>1. PICK left \in Unfinished(name) : files' = [files EXCEPT ![name] = left]
        BY <1>5
    <2>2. FilesInv' /\ CommandRuns(name) /\ ForeignIsKept
        <3>1. left \in Unfinished(name) \cup {command.pending.file}
            OBVIOUS
        <3> QED BY <1>1, <2>1, <3>1, WriteKeeps
    <2>3. Stops(name)
        BY <1>5
    <2> HIDE DEF name
    <2>4. /\ CommandInv' /\ ToldInv' /\ WhatIsSaidIsThere'
          /\ IsPrefix(told.steps, told'.steps) /\ SaidIn(told'.steps, name) = {} /\ told'.refused = name
        BY <2>2, <2>3, StopsTells
    <2>5. ChangeIsSaid
        <3>1. SaidIn(told'.steps, name) =
                  {told'.steps[i].says : i \in {j \in DOMAIN told'.steps : told'.steps[j].file = name}}
            BY DEF SaidIn
        <3> QED BY <2>4, <3>1 DEF ChangeIsSaid, name
    <2> QED BY <1>3, <2>2, <2>4, <2>5 DEF InitInv
<1> QED BY <1>2, <1>4, <1>5

LEMMA InitInvStarts == IntegrationInit => InitInv
<1> SUFFICES ASSUME IntegrationInit PROVE InitInv
    OBVIOUS
<1>1. FilesInv
    BY IntegrationAssumption DEF IntegrationInit, FilesInv
<1>2. CommandInv /\ GateStops
    BY DEF IntegrationInit, CommandInv, GateStops, NotFired
<1>3. SpentInv
    BY DEF IntegrationInit, SpentInv
<1>4. told = [over |-> FALSE, refused |-> "no", steps |-> <<>>] /\ told.steps = <<>>
    BY DEF IntegrationInit, Silent
<1>5. ToldInv
    <2>1. <<>> \in Seq(SaidSteps)
        BY EmptySeq
    <2>2. told \in ToldReports
        BY <1>4, <2>1, ReportOf
    <2> QED BY <2>2 DEF ToldInv, IntegrationInit
<1>6. WhatIsSaidIsThere
    <2>1. \A n : SaidOf(n) = {}
        BY <1>4 DEF SaidOf
    <2> QED BY <2>1 DEF WhatIsSaidIsThere
<1> QED BY <1>1, <1>2, <1>3, <1>5, <1>6 DEF InitInv

\* A report nobody has begun is a report of nothing.
LEMMA NothingSaid ==
    ASSUME told' = Silent
    PROVE  /\ told' \in ToldReports
           /\ \A n : SaidOf(n)' = {}
           /\ WhatIsSaidIsThere'
<1>1. told' = [over |-> FALSE, refused |-> "no", steps |-> <<>>] /\ told'.steps = <<>>
    BY DEF Silent
<1>2. told' \in ToldReports
    <2>1. <<>> \in Seq(SaidSteps)
        BY EmptySeq
    <2> QED BY <1>1, <2>1, ReportOf
<1>3. \A n : SaidOf(n)' = {}
    BY <1>1 DEF SaidOf
<1>4. WhatIsSaidIsThere'
    BY <1>3 DEF WhatIsSaidIsThere
<1> QED BY <1>2, <1>3, <1>4

LEMMA KilledTells ==
    ASSUME InitInv, Killed
    PROVE  InitInv' /\ ChangeIsSaid /\ ForeignIsKept
<1>1. command # NoCommand /\ command' = NoCommand /\ told' = Silent /\ UNCHANGED <<fired, spent>>
    BY DEF Killed
<1>2. FilesInv' /\ ForeignIsKept
    <2>1. CASE files' = files
        BY <2>1 DEF InitInv, FilesInv, ForeignIsKept, CommandChangesFiles
    <2>2. CASE files' # files
        <3>1. command.pending # NotRead
            BY <2>2 DEF Killed
        <3>2. PICK left \in Unfinished(Head(command.steps)) \cup {command.pending.file} :
                  files' = [files EXCEPT ![Head(command.steps)] = left]
            BY <3>1 DEF Killed
        <3> QED BY <1>1, <3>1, <3>2, WriteKeeps
    <2> QED BY <2>1, <2>2
<1>3. CommandInv' /\ GateStops' /\ SpentInv'
    BY <1>1 DEF InitInv, CommandInv, GateStops, SpentInv
<1>4. ToldInv' /\ WhatIsSaidIsThere'
    BY <1>1, NothingSaid DEF ToldInv
<1>5. ChangeIsSaid
    BY <1>1 DEF ChangeIsSaid
<1> QED BY <1>2, <1>3, <1>4, <1>5 DEF InitInv

LEMMA SpentAfter ==
    ASSUME NEW Sets, NEW r \in [commands : Nat, edits : Nat, edited : Sets], NEW s \in Sets
    PROVE  /\ [r EXCEPT !.edits = @ + 1, !.edited = s] \in [commands : Nat, edits : Nat, edited : Sets]
           /\ [r EXCEPT !.edits = @ + 1, !.edited = s].edited = s
           /\ [r EXCEPT !.commands = @ + 1, !.edited = s] \in [commands : Nat, edits : Nat, edited : Sets]
<1> DEFINE n == r.edits + 1
           m == r.commands + 1
           All == [commands : Nat, edits : Nat, edited : Sets]
           q == [r EXCEPT !.edits = n, !.edited = s]
           p == [r EXCEPT !.commands = m, !.edited = s]
<1>1. n \in Nat /\ m \in Nat
    OBVIOUS
<1> HIDE DEF n, m
<1>2. q = [commands |-> r.commands, edits |-> n, edited |-> s]
    <2>1. /\ DOMAIN q = {"commands", "edits", "edited"} /\ q = [x \in DOMAIN q |-> q[x]]
          /\ q.commands = r.commands /\ q.edits = n /\ q.edited = s
        OBVIOUS
    <2> HIDE DEF q
    <2> QED BY <2>1
<1>3. p = [commands |-> m, edits |-> r.edits, edited |-> s]
    <2>1. /\ DOMAIN p = {"commands", "edits", "edited"} /\ p = [x \in DOMAIN p |-> p[x]]
          /\ p.commands = m /\ p.edits = r.edits /\ p.edited = s
        OBVIOUS
    <2> HIDE DEF p
    <2> QED BY <2>1
<1>4. q \in All /\ q.edited = s /\ p \in All
    <2> HIDE DEF q, p
    <2> QED BY <1>1, <1>2, <1>3
<1> QED BY <1>4 DEF n, m

LEMMA InitInvStep == InitInv /\ [IntegrationNext]_integrationVars => InitInv'
<1> SUFFICES ASSUME InitInv, [IntegrationNext]_integrationVars PROVE InitInv'
    OBVIOUS
<1>1. ASSUME NEW harness \in {"claude", "cursor"}, NEW remove \in BOOLEAN, NEW selfMeasure \in BOOLEAN,
             CmdInit(harness, remove, selfMeasure)
      PROVE  InitInv'
    <2>1. FilesInv' /\ GateStops'
        BY <1>1 DEF CmdInit, InitInv, FilesInv, GateStops
    <2>2. SpentInv'
        <3> DEFINE Sets == SUBSET FileNames
        <3>1. {} \in Sets /\ spent \in [commands : Nat, edits : Nat, edited : Sets]
            BY DEF InitInv, SpentInv
        <3>2. spent' = [spent EXCEPT !.commands = @ + 1, !.edited = {}]
            BY <1>1 DEF CmdInit
        <3> HIDE DEF Sets
        <3>3. spent' \in [commands : Nat, edits : Nat, edited : Sets]
            BY <3>1, <3>2, SpentAfter
        <3> QED BY <3>3 DEF SpentInv, Sets
    <2>3. CommandInv'
        <3>1. StepsOf(harness) \in StepsLeft
            BY Zenon DEF StepsOf, StepsLeft
        <3>2. command' = [steps |-> StepsOf(harness), remove |-> remove,
                          selfMeasure |-> selfMeasure, pending |-> NotRead]
            BY <1>1 DEF CmdInit
        <3>3. /\ DOMAIN command' = {"steps", "remove", "selfMeasure", "pending"}
              /\ command'.steps = StepsOf(harness) /\ command'.remove = remove
              /\ command'.selfMeasure = selfMeasure /\ command'.pending = NotRead
            BY <3>2
        <3> QED BY <3>1, <3>3 DEF CommandInv
    <2>4. ToldInv' /\ WhatIsSaidIsThere'
        BY <1>1, NothingSaid DEF CmdInit, ToldInv
    <2> QED BY <2>1, <2>2, <2>3, <2>4 DEF InitInv
<1>2. CASE ReadFile
    BY <1>2, ReadTells
<1>3. CASE WriteFile \/ Killed
    BY <1>3, WriteTells, KilledTells
<1>4. ASSUME NEW e \in OwnerEdits, OwnerEdit(e.file, e.content) PROVE InitInv'
    <2>1. e.file \in FileNames /\ IsFileOf(e.file, e.content)
        BY IntegrationAssumption
    <2>2. /\ spent' = [spent EXCEPT !.edits = @ + 1, !.edited = @ \cup {e.file}]
          /\ files' = [files EXCEPT ![e.file] = e.content] /\ UNCHANGED <<command, told, fired>>
        BY <1>4 DEF OwnerEdit
    <2>3. /\ DOMAIN files' = FileNames /\ files'[e.file] = e.content
          /\ \A n \in FileNames \ {e.file} : files'[n] = files[n]
        BY <2>1, <2>2 DEF InitInv, FilesInv
    <2>4. FilesInv'
        <3>1. files' = [n \in FileNames |-> files'[n]]
            BY <2>1, <2>2 DEF InitInv, FilesInv
        <3>2. \A n \in FileNames : IsFileOf(n, files'[n])
            BY <2>1, <2>3 DEF InitInv, FilesInv
        <3> QED BY <3>1, <3>2 DEF FilesInv
    <2>5. SpentInv' /\ spent'.edited = spent.edited \cup {e.file}
        <3>1. spent \in [commands : Nat, edits : Nat, edited : SUBSET FileNames]
            BY DEF InitInv, SpentInv
        <3> DEFINE edited == spent.edited \cup {e.file}
        <3>2. edited \in SUBSET FileNames
            <4>1. spent.edited \in SUBSET FileNames
                <5> DEFINE Sets == SUBSET FileNames
                <5> HIDE DEF Sets
                <5>1. spent.edited \in Sets
                    BY <3>1 DEF Sets
                <5> QED BY <5>1 DEF Sets
            <4> QED BY <2>1, <4>1
        <3>3. spent' = [spent EXCEPT !.edits = @ + 1, !.edited = edited]
            BY <2>2
        <3> HIDE DEF edited
        <3>4. spent' \in [commands : Nat, edits : Nat, edited : SUBSET FileNames] /\ spent'.edited = edited
            <4> DEFINE Sets == SUBSET FileNames
            <4>1. edited \in Sets /\ spent \in [commands : Nat, edits : Nat, edited : Sets]
                BY <3>1, <3>2
            <4> HIDE DEF Sets
            <4>2. spent' \in [commands : Nat, edits : Nat, edited : Sets] /\ spent'.edited = edited
                BY <3>3, <4>1, SpentAfter
            <4> QED BY <4>2 DEF Sets
        <3> QED BY <3>4 DEF SpentInv, edited
    <2>6. \A n : SaidOf(n)' = SaidOf(n)
        BY <2>2 DEF SaidOf
    <2>7. CommandInv' /\ ToldInv' /\ GateStops'
        <3>1. ToldInv' /\ GateStops'
            BY <2>2, <2>6 DEF InitInv, ToldInv, GateStops
        <3>2. ASSUME command # NoCommand, PendingIsDecided PROVE PendingIsDecided'
            <4>1. Head(command.steps) \in FileNames /\ command' = command
                BY <2>2, <3>2, RunsOnAFile
            <4>2. Head(command.steps) \notin spent'.edited =>
                      /\ files'[Head(command.steps)] = files[Head(command.steps)]
                      /\ Head(command.steps) \notin spent.edited
                BY <2>3, <2>5, <4>1
            <4> QED BY <3>2, <4>1, <4>2 DEF PendingIsDecided
        <3>3. CommandInv'
            BY <2>2, <3>2 DEF InitInv, CommandInv
        <3> QED BY <3>1, <3>3
    <2>8. WhatIsSaidIsThere'
        <3>1. \A n \in DOMAIN files' \ spent'.edited :
                  n \in DOMAIN files \ spent.edited /\ files'[n] = files[n]
            BY <2>3, <2>5 DEF InitInv, FilesInv
        <3> QED BY <2>6, <3>1 DEF InitInv, WhatIsSaidIsThere
    <2> QED BY <2>4, <2>5, <2>7, <2>8 DEF InitInv
<1>5. ASSUME NEW harness \in {"claude", "cursor"}, Fire(harness) PROVE InitInv'
    <2>1. UNCHANGED <<files, command, told, spent>>
        BY <1>5 DEF Fire
    <2>2. GateStops'
        <3>1. CASE fired'.change # "measured"
            BY <3>1 DEF GateStops
        <3>2. CASE fired'.change = "measured"
            <4>1. PICK unreadable \in BOOLEAN, verdict \in {"pass", "advise", "block", "escalate_to_human"} :
                      fired' = [ran |-> TRUE, harness |-> harness, change |-> "measured",
                                unreadable |-> unreadable, verdict |-> verdict,
                                code |-> ExitCode(unreadable, verdict)]
                <5> DEFINE Answers == {"pass", "advise", "block", "escalate_to_human"}
                           AnswerOf(u, v) == [ran |-> TRUE, harness |-> harness, change |-> "measured",
                                              unreadable |-> u, verdict |-> v, code |-> ExitCode(u, v)]
                <5>1. \/ \E nothing \in {"NoWorkingChange", "NoParent"} :
                            fired' = [ran |-> TRUE, harness |-> harness, change |-> nothing, code |-> 0]
                      \/ fired' = [ran |-> TRUE, harness |-> harness, change |-> "failed", code |-> 1]
                      \/ \E u \in BOOLEAN, v \in Answers : fired' = AnswerOf(u, v)
                    BY <1>5 DEF Fire
                <5> HIDE DEF AnswerOf, Answers
                <5>2. \E u \in BOOLEAN, v \in Answers : fired' = AnswerOf(u, v)
                    BY <3>2, <5>1
                <5> QED BY <5>2 DEF AnswerOf, Answers
            <4>2. ExitCode(unreadable, verdict) = 0 =>
                      ~ unreadable /\ verdict \notin {"block", "escalate_to_human"}
                BY DEF ExitCode
            <4> QED BY <4>1, <4>2 DEF GateStops
        <3> QED BY <3>1, <3>2
    <2>3. FilesInv' /\ CommandInv' /\ SpentInv'
        BY <2>1 DEF InitInv, FilesInv, CommandInv, PendingIsDecided, SpentInv
    <2>4. \A n : SaidOf(n)' = SaidOf(n)
        BY <2>1 DEF SaidOf
    <2>5. ToldInv' /\ WhatIsSaidIsThere'
        BY <2>1, <2>4 DEF InitInv, ToldInv, WhatIsSaidIsThere
    <2> QED BY <2>2, <2>3, <2>5 DEF InitInv
<1>6. CASE UNCHANGED integrationVars
    <2>1. UNCHANGED <<files, command, told, fired, spent>>
        BY <1>6 DEF integrationVars
    <2>2. \A n : SaidOf(n)' = SaidOf(n)
        BY <2>1 DEF SaidOf
    <2> QED BY <2>1, <2>2 DEF InitInv, FilesInv, CommandInv, PendingIsDecided, ToldInv, SpentInv,
                             WhatIsSaidIsThere, GateStops
<1> QED BY <1>1, <1>2, <1>3, <1>4, <1>5, <1>6 DEF IntegrationNext

LEMMA EveryChangeIsSaid ==
    InitInv /\ [IntegrationNext]_integrationVars => [ChangeIsSaid /\ ForeignIsKept]_integrationVars
<1> SUFFICES ASSUME InitInv, IntegrationNext PROVE ChangeIsSaid /\ ForeignIsKept
    OBVIOUS
<1>1. CASE \E harness \in {"claude", "cursor"}, remove, selfMeasure \in BOOLEAN :
               CmdInit(harness, remove, selfMeasure)
    BY <1>1 DEF CmdInit, ChangeIsSaid, ForeignIsKept, CommandChangesFiles
<1>2. CASE ReadFile
    BY <1>2, ReadTells
<1>3. CASE WriteFile \/ Killed
    BY <1>3, WriteTells, KilledTells
<1>4. ASSUME NEW e \in OwnerEdits, OwnerEdit(e.file, e.content) PROVE ChangeIsSaid /\ ForeignIsKept
    <2>1. told' = told /\ spent' = [spent EXCEPT !.edits = @ + 1, !.edited = @ \cup {e.file}]
        BY <1>4 DEF OwnerEdit
    <2>2. spent \in [commands : Nat, edits : Nat, edited : SUBSET FileNames]
        BY DEF InitInv, SpentInv
    <2>3. spent'.edits = spent.edits + 1 /\ spent.edits \in Nat
        BY <2>1, <2>2
    <2>4. spent' # spent
        BY <2>3
    <2> QED BY <2>1, <2>4 DEF ChangeIsSaid, ForeignIsKept, CommandChangesFiles
<1>5. CASE \E harness \in {"claude", "cursor"} : Fire(harness)
    BY <1>5 DEF Fire, ChangeIsSaid, ForeignIsKept, CommandChangesFiles
<1> QED BY <1>1, <1>2, <1>3, <1>4, <1>5 DEF IntegrationNext

(* However installs, removals, reads and writes that fail, kills, firings   *)
(* of a hook and edits of the owner, between a read and a write too, follow *)
(* each other, what init said of a file is what is there, an installed gate *)
(* stops what it must, a step changes its file only if the report says so   *)
(* or names it, and only a file it has read, keeping every hook and server  *)
(* of others it read in a file it merges into unless the write is cut short *)
(* (andon-cli, init/mod.rs, claude.rs, cursor.rs, hook.rs).                 *)
THEOREM InitTellsWhatItDoes == IntegrationSpec => InitIsTold
<1>1. IntegrationInit => InitInv
    BY InitInvStarts
<1>2. InitInv /\ [IntegrationNext]_integrationVars => InitInv'
    BY InitInvStep
<1>3. InitInv /\ [IntegrationNext]_integrationVars => [ChangeIsSaid /\ ForeignIsKept]_integrationVars
    BY EveryChangeIsSaid
<1>4. InitInv => WhatIsSaidIsThere /\ GateStops
    BY DEF InitInv
<1> QED BY <1>1, <1>2, <1>3, <1>4, PTL DEF IntegrationSpec, InitIsTold

(***************************************************************************)
(* WHAT AN AGENT IS TOLD                                                   *)
(***************************************************************************)

(* The sums of the beginnings of a sequence of numbers.                     *)
Sums(s, f) ==
    /\ f \in [0 .. Len(s) -> Nat] /\ f[0] = 0
    /\ \A n \in 1 .. Len(s) : f[n] = f[n - 1] + s[n]

(* A total is the last of the sums.                                         *)
LEMMA TotalIsASum ==
    ASSUME NEW s \in Seq(Nat)
    PROVE  \E f : Sums(s, f) /\ Total(s) = f[Len(s)]
<1> DEFINE last == Len(s)
           step == [p \in (1 .. last) \X Nat |-> p[2] + s[p[1]]]
           IsSum(f) == f = [n \in 0 .. Len(s) |-> IF n = 0 THEN 0 ELSE f[n - 1] + s[n]]
<1>1. last \in Nat /\ \A n \in 1 .. last : s[n] \in Nat
    BY LenProperties
<1>2. step \in [(1 .. last) \X Nat -> Nat]
    <2> HIDE DEF last
    <2> QED BY <1>1
<1>3. PICK g \in [0 .. last -> Nat] :
          g[0] = 0 /\ \A n \in 1 .. last : g[n] = step[<<n, g[n - 1]>>]
    <2> HIDE DEF step, last
    <2>1. \E g : Unrolls(g, Nat, 0, last, step)
        BY <1>1, <1>2, Recursion
    <2> QED BY <2>1 DEF Unrolls
<1>4. ASSUME NEW n \in 1 .. last PROVE g[n] = g[n - 1] + s[n]
    <2>1. n - 1 \in 0 .. last
        BY <1>1
    <2> HIDE DEF last, step
    <2>2. g[n] = step[<<n, g[n - 1]>>] /\ <<n, g[n - 1]>> \in (1 .. last) \X Nat
        BY <1>3, <2>1
    <2> USE DEF step
    <2> QED BY <2>2
<1>5. IsSum(g)
    <2> DEFINE h(n) == IF n = 0 THEN 0 ELSE g[n - 1] + s[n]
    <2>1. \A n \in 0 .. last : n = 0 \/ n \in 1 .. last
        BY <1>1
    <2>2. \A n \in 0 .. last : g[n] = h(n)
        <3> HIDE DEF last, step
        <3> QED BY <1>3, <1>4, <2>1
    <2>3. g = [n \in 0 .. last |-> g[n]]
        <3> HIDE DEF last, step
        <3> QED BY <1>3
    <2>4. g = [n \in 0 .. last |-> h(n)]
        <3> HIDE DEF last, step, h
        <3> QED BY <2>2, <2>3
    <2> HIDE DEF step
    <2> QED BY <2>4
<1>6. PICK f : IsSum(f) /\ Total(s) = f[last]
    <2>1. \E f : IsSum(f)
        <3> HIDE DEF IsSum
        <3> QED BY <1>5
    <2>2. IsSum(CHOOSE f : IsSum(f))
        <3> HIDE DEF IsSum
        <3> QED BY <2>1, Zenon
    <2>3. Total(s) = (CHOOSE f : IsSum(f))[last]
        BY Zenon DEF Total
    <2> HIDE DEF IsSum, last
    <2> QED BY <2>2, <2>3
<1>7. f[0] = 0 /\ f = [n \in 0 .. last |-> f[n]]
    BY <1>1, <1>6
<1>8. ASSUME NEW n \in 1 .. last PROVE f[n] = f[n - 1] + s[n]
    <2>1. n \in 0 .. last /\ n # 0
        BY <1>1
    <2> QED BY <1>6, <2>1
<1>9. \A n \in 0 .. last : f[n] \in Nat
    <2> DEFINE N == {n \in 0 .. last : f[n] \in Nat}
    <2>1. 0 \in N
        BY <1>1, <1>7
    <2>2. ASSUME NEW n \in 1 .. last, n - 1 \in N PROVE n \in N
        <3>1. f[n] = f[n - 1] + s[n] /\ f[n - 1] \in Nat /\ s[n] \in Nat
            BY <1>1, <1>8, <2>2
        <3> HIDE DEF IsSum, last
        <3> QED BY <3>1
    <2>3. 0 .. last \subseteq N
        <3> HIDE DEF N, last
        <3> QED BY <1>1, <2>1, <2>2, EveryNumberTo
    <2> QED BY <2>3
<1>10. f \in [0 .. last -> Nat]
    <2> HIDE DEF last
    <2> QED BY <1>7, <1>9
<1> QED BY <1>6, <1>7, <1>8, <1>10 DEF Sums

(* Sequences that begin alike have the same sums.                           *)
LEMMA SumsAgree ==
    ASSUME NEW s \in Seq(Nat), NEW t \in Seq(Nat), NEW f, NEW g, Sums(s, f), Sums(t, g),
           NEW n \in Nat, n <= Len(s), n <= Len(t), \A i \in 1 .. n : s[i] = t[i]
    PROVE  f[n] = g[n]
<1> DEFINE N == {i \in 0 .. n : f[i] = g[i]}
<1>1. Len(s) \in Nat /\ Len(t) \in Nat
    BY LenProperties
<1>2. 0 \in N
    BY DEF Sums
<1>3. ASSUME NEW i \in 1 .. n, i - 1 \in N PROVE i \in N
    <2>1. i \in 1 .. Len(s) /\ i \in 1 .. Len(t)
        BY <1>1
    <2>2. f[i] = f[i - 1] + s[i] /\ g[i] = g[i - 1] + t[i] /\ s[i] = t[i]
        BY <2>1 DEF Sums
    <2> QED BY <1>3, <2>2
<1>4. 0 .. n \subseteq N
    <2> HIDE DEF N
    <2> QED BY <1>2, <1>3, EveryNumberTo
<1> QED BY <1>4

(* The total of nothing, of one more, and of a beginning.                   *)
LEMMA TotalOfNothing == Total(<<>>) = 0
<1>1. PICK f : Sums(<<>>, f) /\ Total(<<>>) = f[Len(<<>>)]
    BY EmptySeq, TotalIsASum
<1> QED BY <1>1, EmptySeq DEF Sums

LEMMA TotalIsANumber ==
    ASSUME NEW s \in Seq(Nat) PROVE Total(s) \in Nat
<1>1. PICK f : Sums(s, f) /\ Total(s) = f[Len(s)]
    BY TotalIsASum
<1> QED BY <1>1, LenProperties DEF Sums

LEMMA TotalOfOneMore ==
    ASSUME NEW s \in Seq(Nat), NEW x \in Nat
    PROVE  Total(Append(s, x)) = Total(s) + x
<1> DEFINE t == Append(s, x)
<1>1. /\ t \in Seq(Nat) /\ Len(t) = Len(s) + 1 /\ t[Len(s) + 1] = x
      /\ \A i \in 1 .. Len(s) : t[i] = s[i] /\ Len(s) \in Nat
    BY AppendProperties, LenProperties
<1>2. Len(s) \in Nat
    BY LenProperties
<1> HIDE DEF t
<1>3. PICK f : Sums(s, f) /\ Total(s) = f[Len(s)]
    BY TotalIsASum
<1>4. PICK g : Sums(t, g) /\ Total(t) = g[Len(t)]
    BY <1>1, TotalIsASum
<1>5. f[Len(s)] = g[Len(s)]
    <2>1. Len(s) <= Len(s) /\ Len(s) <= Len(t) /\ \A i \in 1 .. Len(s) : s[i] = t[i]
        BY <1>1, <1>2
    <2> DEFINE n == Len(s)
    <2>2. n \in Nat /\ n <= Len(s) /\ n <= Len(t) /\ t \in Seq(Nat)
          /\ (\A i \in 1 .. n : s[i] = t[i]) /\ Sums(s, f) /\ Sums(t, g)
        BY <1>1, <1>2, <1>3, <1>4, <2>1
    <2> HIDE DEF n
    <2>3. f[n] = g[n]
        BY ONLY s \in Seq(Nat), <2>2, SumsAgree
    <2> QED BY <2>3 DEF n
<1>6. g[Len(t)] = g[Len(s)] + x
    <2>1. Len(t) \in 1 .. Len(t) /\ Len(t) - 1 = Len(s)
        BY <1>1, <1>2
    <2>2. g[Len(t)] = g[Len(t) - 1] + t[Len(t)]
        BY <1>4, <2>1 DEF Sums
    <2> QED BY <1>1, <2>1, <2>2
<1> QED BY <1>3, <1>4, <1>5, <1>6 DEF t

(* The beginning of a sequence.                                             *)
LEMMA Beginning ==
    ASSUME NEW T, NEW s \in Seq(T), NEW m \in 0 .. Len(s)
    PROVE  /\ SubSeq(s, 1, m) \in Seq(T) /\ Len(SubSeq(s, 1, m)) = m
           /\ \A i \in 1 .. m : SubSeq(s, 1, m)[i] = s[i]
           /\ Len(s) \in Nat /\ m \in Nat
<1>1. Len(s) \in Nat /\ m \in Nat /\ m <= Len(s)
    BY LenProperties
<1>2. \A i \in 1 .. m : s[i] \in T
    BY <1>1, ElementOfSeq
<1>3. SubSeq(s, 1, m) \in Seq(T) /\ Len(SubSeq(s, 1, m)) = m
      /\ \A i \in 1 .. m : SubSeq(s, 1, m)[i] = s[i]
    BY <1>1, <1>2, SMT
<1> QED BY <1>1, <1>3

(* What a beginning takes when it is one longer.                            *)
LEMMA TotalGrows ==
    ASSUME NEW s \in Seq(Nat), NEW m \in 0 .. (Len(s) - 1)
    PROVE  Total(SubSeq(s, 1, m + 1)) = Total(SubSeq(s, 1, m)) + s[m + 1]
<1>1. Len(s) \in Nat /\ m \in 0 .. Len(s) /\ m + 1 \in 0 .. Len(s) /\ m + 1 \in 1 .. Len(s)
    BY LenProperties
<1> DEFINE a == SubSeq(s, 1, m)
           b == SubSeq(s, 1, m + 1)
<1>2. a \in Seq(Nat) /\ Len(a) = m /\ \A i \in 1 .. m : a[i] = s[i]
    BY <1>1, Beginning
<1>3. b \in Seq(Nat) /\ Len(b) = m + 1 /\ \A i \in 1 .. (m + 1) : b[i] = s[i]
    BY <1>1, Beginning
<1>4. s[m + 1] \in Nat /\ m \in Nat
    BY <1>1, ElementOfSeq
<1> HIDE DEF a, b
<1>5. b = Append(a, s[m + 1])
    <2> DEFINE c == Append(a, s[m + 1])
    <2>1. c \in Seq(Nat) /\ Len(c) = m + 1 /\ c[m + 1] = s[m + 1] /\ \A i \in 1 .. m : c[i] = a[i]
        <3> DEFINE x == s[m + 1]
        <3>1. x \in Nat
            BY <1>4
        <3> HIDE DEF x
        <3>2. /\ Append(a, x) \in Seq(Nat) /\ Len(Append(a, x)) = Len(a) + 1
              /\ Append(a, x)[Len(a) + 1] = x /\ \A i \in 1 .. Len(a) : Append(a, x)[i] = a[i]
            <4>1. a \in Seq(Nat)
                BY <1>2
            <4> QED BY ONLY <3>1, <4>1, AppendProperties
        <3>3. Len(a) = m
            BY <1>2
        <3> QED BY ONLY <3>2, <3>3 DEF x
    <2> HIDE DEF c
    <2>2. \A i \in 1 .. (m + 1) : b[i] = c[i]
        <3>1. ASSUME NEW i \in 1 .. (m + 1) PROVE i \in 1 .. m \/ i = m + 1
            BY <1>4
        <3> QED BY <1>2, <1>3, <2>1, <3>1
    <2>3. b = c
        BY <1>3, <2>1, <2>2, SeqEqual
    <2> QED BY <2>3 DEF c
<1> QED BY <1>2, <1>4, <1>5, TotalOfOneMore DEF a, b

(* What the sizes of things are: as many, and each a number.                *)
LEMMA Sizes ==
    ASSUME NEW items \in Seq(Items), NEW m \in 0 .. Len(items)
    PROVE  /\ ReasonSizes(items) \in Seq(Nat) /\ Len(ReasonSizes(items)) = Len(items)
           /\ FindingSizes(items) \in Seq(Nat) /\ Len(FindingSizes(items)) = Len(items)
           /\ ReasonSizes(SubSeq(items, 1, m)) = SubSeq(ReasonSizes(items), 1, m)
           /\ FindingSizes(SubSeq(items, 1, m)) = SubSeq(FindingSizes(items), 1, m)
           /\ \A n \in DOMAIN items : ReasonSizes(items)[n] > 0
<1> DEFINE R == ReasonSizes(items)
           F == FindingSizes(items)
           b == SubSeq(items, 1, m)
<1>1. Len(items) \in Nat /\ DOMAIN items = 1 .. Len(items)
      /\ \A n \in 1 .. Len(items) : items[n] \in Items
    BY LenProperties, ElementOfSeq
<1>2. MaxHint \in Nat /\ FINDING \in Nat /\ REASON \in Nat /\ REASON > 0
    BY SurfaceAssumption
<1>3. ASSUME NEW item \in Items
      PROVE  /\ REASON + Capped(item.message, MaxHint) \in Nat
             /\ REASON + Capped(item.message, MaxHint) > 0
             /\ FINDING + Capped(item.message, MaxHint) \in Nat
    BY <1>2 DEF Capped, Items
<1>4. /\ R = [n \in 1 .. Len(items) |-> REASON + Capped(items[n].message, MaxHint)]
      /\ F = [n \in 1 .. Len(items) |-> FINDING + Capped(items[n].message, MaxHint)]
    BY <1>1 DEF ReasonSizes, FindingSizes
<1>5. R \in Seq(Nat) /\ Len(R) = Len(items) /\ F \in Seq(Nat) /\ Len(F) = Len(items)
      /\ \A n \in 1 .. Len(items) : R[n] > 0
    <2>1. R \in [1 .. Len(items) -> Nat] /\ F \in [1 .. Len(items) -> Nat]
          /\ \A n \in 1 .. Len(items) : R[n] > 0
        <3> HIDE DEF R, F
        <3> QED BY <1>1, <1>3, <1>4
    <2> HIDE DEF R, F
    <2>2. R \in Seq(Nat) /\ F \in Seq(Nat)
        <3>1. ASSUME NEW n \in Nat, NEW s \in [1 .. n -> Nat] PROVE s \in Seq(Nat)
            OBVIOUS
        <3> QED BY <1>1, <2>1, <3>1
    <2>3. Len(R) = Len(items) /\ Len(F) = Len(items)
        BY <1>1, <2>1, <2>2, LenProperties
    <2> QED BY <2>1, <2>2, <2>3
<1>6. /\ b \in Seq(Items) /\ Len(b) = m /\ DOMAIN b = 1 .. m
      /\ \A i \in 1 .. m : b[i] = items[i]
    BY Beginning, LenProperties
<1>7. ASSUME NEW s \in Seq(Nat), Len(s) = Len(items), NEW t \in [1 .. m -> Nat],
             \A i \in 1 .. m : t[i] = s[i]
      PROVE  t = SubSeq(s, 1, m)
    <2> DEFINE c == SubSeq(s, 1, m)
    <2>1. c \in Seq(Nat) /\ Len(c) = m /\ (\A i \in 1 .. m : c[i] = s[i]) /\ m \in Nat
        BY <1>7, Beginning
    <2> HIDE DEF c
    <2>2. t \in Seq(Nat)
        <3>1. m \in Nat /\ t \in [1 .. m -> Nat]
            BY <2>1
        <3> QED BY ONLY <3>1, SMT
    <2>3. Len(t) = m
        BY <2>1, <2>2, LenProperties
    <2>4. t = c
        BY <1>7, <2>1, <2>2, <2>3, SeqEqual
    <2> QED BY <2>4 DEF c
<1>8. \A i \in 1 .. m : i \in 1 .. Len(items)
    BY <1>1
<1>9. ReasonSizes(b) = SubSeq(R, 1, m)
    <2> DEFINE t == [n \in 1 .. m |-> REASON + Capped(b[n].message, MaxHint)]
    <2>1. ReasonSizes(b) = t
        <3> HIDE DEF b
        <3> QED BY <1>6 DEF ReasonSizes
    <2>2. t \in [1 .. m -> Nat] /\ \A i \in 1 .. m : t[i] = R[i]
        <3> HIDE DEF b, R
        <3> QED BY <1>1, <1>3, <1>4, <1>6, <1>8
    <2> HIDE DEF t, R, b
    <2> QED BY <1>5, <1>7, <2>1, <2>2
<1>10. FindingSizes(b) = SubSeq(F, 1, m)
    <2> DEFINE t == [n \in 1 .. m |-> FINDING + Capped(b[n].message, MaxHint)]
    <2>1. FindingSizes(b) = t
        <3> HIDE DEF b
        <3> QED BY <1>6 DEF FindingSizes
    <2>2. t \in [1 .. m -> Nat] /\ \A i \in 1 .. m : t[i] = F[i]
        <3> HIDE DEF b, F
        <3> QED BY <1>1, <1>3, <1>4, <1>6, <1>8
    <2> HIDE DEF t, F, b
    <2> QED BY <1>5, <1>7, <2>1, <2>2
<1> HIDE DEF R, F, b
<1>11. \A n \in DOMAIN items : R[n] > 0
    BY <1>1, <1>5
<1> QED BY <1>5, <1>9, <1>10, <1>11 DEF R, F, b

(* What is taken is a beginning that fits, and as long as one that does.    *)
LEMMA TakeIsABeginning ==
    ASSUME NEW items, NEW sizes, NEW room \in Int, NEW most \in Nat,
           Len(items) \in Nat
    PROVE  \E m \in 0 .. Capped(Len(items), most) :
               /\ Take(items, sizes, room, most) = SubSeq(items, 1, m)
               /\ m > 0 => Total(SubSeq(sizes, 1, m)) <= room
               /\ m < Capped(Len(items), most) => ~ (Total(SubSeq(sizes, 1, m + 1)) <= room)
<1> DEFINE cap == Capped(Len(items), most)
           S == {n \in 0 .. cap : n > 0 => Total(SubSeq(sizes, 1, n)) <= room}
<1>1. cap \in Nat
    BY DEF Capped
<1> HIDE DEF cap
<1>2. 0 \in S /\ S \in SUBSET (0 .. cap)
    BY <1>1
<1>3. Max(S) \in S /\ \A n \in S : n <= Max(S)
    <2> HIDE DEF S
    <2> QED BY <1>1, <1>2, GreatestIsThere
<1> DEFINE m == Max(S)
<1>4. Take(items, sizes, room, most) = SubSeq(items, 1, m)
    BY DEF Take, cap
<1>5. m \in 0 .. cap /\ (m > 0 => Total(SubSeq(sizes, 1, m)) <= room)
    <2> HIDE DEF m
    <2>1. m \in S
        BY <1>3 DEF m
    <2> QED BY <2>1
<1>6. ASSUME m < cap PROVE ~ (Total(SubSeq(sizes, 1, m + 1)) <= room)
    <2>1. \A n \in S : n <= m
        BY <1>3
    <2> HIDE DEF m
    <2>2. m + 1 \in 0 .. cap /\ ~ (m + 1 <= m)
        BY <1>1, <1>5, <1>6
    <2>3. m + 1 \notin S
        <3> HIDE DEF S
        <3> QED BY <2>1, <2>2
    <2> QED BY <2>2, <2>3
<1> HIDE DEF m
<1> QED BY <1>4, <1>5, <1>6 DEF cap

(* Of two reasons or findings the worse comes first, then the code, then    *)
(* the place.                                                               *)
Before(items, j) ==
    {i \in DOMAIN items :
        \/ items[i].severity > items[j].severity
        \/ /\ items[i].severity = items[j].severity
           /\ \/ items[i].code < items[j].code
              \/ items[i].code = items[j].code /\ i < j}

LEMMA BeforeIsAnOrder ==
    ASSUME NEW items \in Seq(Items)
    PROVE  StrictOrder(DOMAIN items, [j \in DOMAIN items |-> Before(items, j)])
<1>1. DOMAIN items \subseteq Nat
    BY LenProperties
<1>2. \A i \in DOMAIN items : items[i].severity \in Nat /\ items[i].code \in Nat
    <2>1. \A i \in DOMAIN items : items[i] \in Items
        BY LenProperties, ElementOfSeq
    <2> QED BY <2>1 DEF Items
<1> DEFINE S == DOMAIN items
           sev == [i \in S |-> items[i].severity]
           code == [i \in S |-> items[i].code]
<1>3. sev \in [S -> Nat] /\ code \in [S -> Nat]
    BY <1>2
<1>4. \A i \in S : sev[i] \in Nat /\ code[i] \in Nat /\ i \in Nat
    BY <1>1, <1>3
<1>5. \A i \in S, j \in S :
        i \in Before(items, j) <=>
            \/ sev[i] > sev[j]
            \/ sev[i] = sev[j] /\ (code[i] < code[j] \/ (code[i] = code[j] /\ i < j))
    BY DEF Before
<1> DEFINE B == [j \in S |-> Before(items, j)]
<1>6. \A i \in S, j \in S : i \in B[j] <=> i \in Before(items, j)
    OBVIOUS
<1>7. B \in [S -> SUBSET S]
    BY DEF Before
<1> HIDE DEF sev, code, S, B
<1>8. \A a \in S : a \notin B[a]
    BY <1>4, <1>5, <1>6
<1>9. ASSUME NEW a \in S, NEW b \in S, b \in B[a], NEW c \in B[b] PROVE c \in B[a]
    <2>1. c \in S
        BY <1>7
    <2> QED BY <1>4, <1>5, <1>6, <1>9, <2>1
<1>10. \A a, b \in S : a # b => a \in B[b] \/ b \in B[a]
    BY <1>4, <1>5, <1>6
<1>11. StrictOrder(S, B)
    BY <1>7, <1>8, <1>9, <1>10 DEF StrictOrder
<1> QED BY <1>11 DEF S, B

(* What is listed worst first: the same, in another order.                  *)
Reordered(items, sorted, order) ==
    /\ order \in [DOMAIN items -> DOMAIN items]
    /\ \A j \in DOMAIN items : \E n \in DOMAIN items : order[n] = j
    /\ \A m, n \in DOMAIN items : m # n => order[m] # order[n]
    /\ \A n \in DOMAIN items : sorted[n] = items[order[n]]

LEMMA WorstIsFirst ==
    ASSUME NEW items \in Seq(Items)
    PROVE  /\ WorstFirst(items) \in Seq(Items)
           /\ Len(WorstFirst(items)) = Len(items)
           /\ \E order : Reordered(items, WorstFirst(items), order)
           /\ \A m, n \in DOMAIN items :
                m < n => WorstFirst(items)[m].severity >= WorstFirst(items)[n].severity
<1> DEFINE S == DOMAIN items
           B == [j \in S |-> Before(items, j)]
           order == [n \in S |-> CHOOSE j \in S : Cardinality(Before(items, j)) = n - 1]
           sorted == [n \in S |-> items[order[n]]]
<1>1. StrictOrder(S, B)
    BY BeforeIsAnOrder
<1>2. /\ Len(items) \in Nat /\ S = 1 .. Len(items) /\ IsFiniteSet(S)
      /\ Cardinality(S) = Len(items)
    <2>1. Len(items) \in Nat /\ S = 1 .. Len(items)
        BY LenProperties
    <2> HIDE DEF S
    <2>2. IsFiniteSet(1 .. Len(items))
          /\ Cardinality(1 .. Len(items)) = IF 1 > Len(items) THEN 0 ELSE Len(items) - 1 + 1
        BY <2>1, FS_Interval
    <2> QED BY <2>1, <2>2
<1>3. ASSUME NEW n \in S PROVE order[n] \in S /\ Cardinality(B[order[n]]) = n - 1
    <2> HIDE DEF B
    <2>1. n \in 1 .. Cardinality(S)
        BY <1>2
    <2>2. \E a \in S : Cardinality(B[a]) = n - 1
        <3> HIDE DEF S, order
        <3> QED BY <1>1, <1>2, <2>1, RanksAreTaken
    <2>3. \E a \in S : Cardinality(Before(items, a)) = n - 1
        <3> USE DEF B
        <3> QED BY <2>2
    <2>4. order[n] \in S /\ Cardinality(Before(items, order[n])) = n - 1
        BY <2>3
    <2> HIDE DEF order
    <2> QED BY <2>4 DEF B
<1>4. InRankOrder(S, B, order)
    <2>1. order \in [1 .. Cardinality(S) -> S]
        <3>1. order = [n \in S |-> order[n]]
            OBVIOUS
        <3> HIDE DEF order, S, B
        <3> QED BY <1>2, <1>3, <3>1
    <2>2. \A n \in 1 .. Cardinality(S) : Cardinality(B[order[n]]) = n - 1
        <3> HIDE DEF order, S, B
        <3> QED BY <1>2, <1>3
    <2> HIDE DEF order, S, B
    <2> QED BY <1>1, <1>2, <2>1, <2>2, RanksOrder
<1>5. WorstFirst(items) = sorted
    BY DEF WorstFirst, Before
<1>6. \A i \in S : items[i] \in Items
    BY LenProperties, ElementOfSeq
<1>7. \A n \in S : sorted[n] = items[order[n]] /\ order[n] \in S
    <2> HIDE DEF order, B
    <2> QED BY <1>3
<1>8. sorted \in Seq(Items) /\ Len(sorted) = Len(items)
    <2>1. sorted = [n \in S |-> sorted[n]]
        OBVIOUS
    <2> HIDE DEF sorted, order, B, S
    <2>2. sorted \in [1 .. Len(items) -> Items]
        BY <1>2, <1>6, <1>7, <2>1
    <2>3. sorted \in Seq(Items)
        BY <1>2, <2>2, SeqDef
    <2> QED BY <1>2, <2>2, <2>3, LenProperties
<1>9. Reordered(items, sorted, order)
    <2>1. S = DOMAIN items
        OBVIOUS
    <2> HIDE DEF sorted, order, B, S
    <2>2. order \in [S -> S] /\ \A j \in S : \E n \in S : order[n] = j
        BY <1>2, <1>4 DEF InRankOrder
    <2>3. ASSUME NEW m \in S, NEW n \in S, m # n PROVE order[m] # order[n]
        <3>1. m - 1 # n - 1
            BY <1>2, <2>3
        <3> QED BY <1>3, <3>1
    <2> QED BY <1>7, <2>1, <2>2, <2>3 DEF Reordered
<1>10. ASSUME NEW m \in S, NEW n \in S, m < n
       PROVE  sorted[m].severity >= sorted[n].severity
    <2>1. order[m] \in B[order[n]]
        <3> HIDE DEF sorted, order, B, S
        <3> QED BY <1>2, <1>4, <1>10 DEF InRankOrder
    <2> HIDE DEF order, sorted
    <2>2. order[m] \in Before(items, order[n])
        BY <1>7, <2>1
    <2>3. items[order[m]].severity \in Nat /\ items[order[n]].severity \in Nat
        BY <1>6, <1>7 DEF Items
    <2>4. items[order[m]].severity >= items[order[n]].severity
        BY <2>2, <2>3 DEF Before
    <2> QED BY <1>7, <2>4
<1> HIDE DEF order, sorted, B
<1>11. \A m, n \in DOMAIN items : m < n => sorted[m].severity >= sorted[n].severity
    BY <1>10
<1> QED BY <1>5, <1>8, <1>9, <1>11

(* A beginning of what is listed worst first has all of what is worse than  *)
(* anything it has.                                                         *)
LEMMA BeginningKeepsTheWorst ==
    ASSUME NEW items \in Seq(Items), NEW m \in 0 .. Len(items)
    PROVE  KeepsTheWorst(SubSeq(WorstFirst(items), 1, m), items)
<1> DEFINE sorted == WorstFirst(items)
           kept == SubSeq(sorted, 1, m)
           S == DOMAIN items
<1>1. /\ sorted \in Seq(Items) /\ Len(sorted) = Len(items)
      /\ \A i, j \in S : i < j => sorted[i].severity >= sorted[j].severity
    BY WorstIsFirst
<1>2. PICK order : Reordered(items, sorted, order)
    BY WorstIsFirst
<1> HIDE DEF sorted
<1>3. /\ kept \in Seq(Items) /\ Len(kept) = m /\ m \in Nat
      /\ \A i \in 1 .. m : kept[i] = sorted[i]
    BY <1>1, Beginning
<1>4. DOMAIN kept = 1 .. m
    BY <1>3, LenProperties
<1>5. S = 1 .. Len(items) /\ Len(items) \in Nat
    BY LenProperties
<1>6. 1 .. m \subseteq S
    BY <1>3, <1>5
<1>7. \A i \in S : sorted[i] \in Items /\ items[i] \in Items
    BY <1>1, <1>5, ElementOfSeq
<1> HIDE DEF kept, S
<1>8. \A i \in S : sorted[i].severity \in Nat /\ items[i].severity \in Nat
    BY <1>7 DEF Items
<1>9. ASSUME NEW k \in DOMAIN kept, NEW n \in S, items[n].severity > kept[k].severity
      PROVE  AsSevere(kept, items[n].severity) = AsSevere(items, items[n].severity)
    <2> DEFINE v == items[n].severity
               A == {i \in 1 .. m : sorted[i].severity = v}
               C == {j \in S : items[j].severity = v}
               f == [i \in A |-> order[i]]
    <2>1. k \in 1 .. m /\ v > sorted[k].severity /\ k \in S
        BY <1>3, <1>4, <1>6, <1>9
    <2> HIDE DEF v
    <2>2. ASSUME NEW i \in A PROVE f[i] \in C /\ f[i] = order[i] /\ i \in S
        <3>1. i \in S /\ sorted[i].severity = v
            BY <1>6
        <3>2. order[i] \in S /\ sorted[i] = items[order[i]]
            BY <1>2, <3>1 DEF Reordered, S
        <3> QED BY <3>1, <3>2
    <2>3. ASSUME NEW j \in C PROVE \E i \in A : f[i] = j
        <3>1. PICK p \in S : order[p] = j
            BY <1>2 DEF Reordered, S
        <3>2. sorted[p] = items[j] /\ items[j].severity = v
            BY <1>2, <3>1 DEF Reordered, S
        <3>3. ~ (k < p)
            BY <1>1, <1>8, <2>1, <3>2
        <3>4. p \in 1 .. m
            BY <1>3, <1>5, <2>1, <3>3
        <3> QED BY <3>1, <3>2, <3>4
    <2>4. \A i, j \in A : f[i] = f[j] => i = j
        <3>1. ASSUME NEW i \in A, NEW j \in A, f[i] = f[j] PROVE i = j
            <4>1. order[i] = order[j] /\ i \in S /\ j \in S
                <5> HIDE DEF f, A
                <5> QED BY <2>2, <3>1
            <4> QED BY <1>2, <4>1 DEF Reordered, S
        <3> QED BY <3>1
    <2>5. f \in Bijection(A, C)
        <3>1. f = [i \in A |-> f[i]]
            OBVIOUS
        <3> HIDE DEF f, A, C
        <3>2. f \in [A -> C]
            BY <2>2, <3>1
        <3> QED BY <2>3, <2>4, <3>2 DEF Bijection, Injection, Surjection, IsInjective
    <2>6. IsFiniteSet(A)
        <3>1. A \subseteq 1 .. m /\ IsFiniteSet(1 .. m)
            BY <1>3, FS_Interval
        <3> HIDE DEF A
        <3> QED BY <3>1, FS_Subset
    <2>7. Cardinality(A) = Cardinality(C)
        <3> HIDE DEF A, C, f
        <3> QED BY <2>5, <2>6, FS_Bijection DEF ExistsBijection
    <2>8. A = {i \in DOMAIN kept : kept[i].severity = v}
        BY <1>3, <1>4
    <2> QED BY <2>7, <2>8 DEF AsSevere, v, S
<1> QED BY <1>9 DEF KeepsTheWorst, kept, sorted, S

(* The lines that fit, kept so far.                                         *)
Passing(lines, room, f) ==
    /\ f[0] = <<>>
    /\ \A n \in 1 .. Len(lines) :
        f[n] = IF Total([k \in DOMAIN f[n - 1] |-> lines[f[n - 1][k]]]) + lines[n] <= room
               THEN Append(f[n - 1], n) ELSE f[n - 1]

LEMMA PassOverPasses ==
    ASSUME NEW lines \in Seq(Nat), NEW room \in Nat
    PROVE  \E f : /\ Passing(lines, room, f)
                  /\ PassOver(lines, lines, room)
                        = [k \in DOMAIN f[Len(lines)] |-> lines[f[Len(lines)][k]]]
<1> DEFINE last == Len(lines)
           Places == Seq(1 .. last)
           Passed(n, r) == IF Total([k \in DOMAIN r |-> lines[r[k]]]) + lines[n] <= room
                         THEN Append(r, n) ELSE r
           step == [p \in (1 .. last) \X Places |-> Passed(p[1], p[2])]
           IsKept(f) == f = [n \in 0 .. Len(lines) |->
                                IF n = 0 THEN <<>> ELSE Passed(n, f[n - 1])]
<1>1. last \in Nat /\ <<>> \in Places
    BY LenProperties, EmptySeq
<1>2. ASSUME NEW n \in 1 .. last, NEW r \in Places PROVE Passed(n, r) \in Places
    <2>1. Append(r, n) \in Places
        <3> HIDE DEF last
        <3> QED BY AppendProperties
    <2> HIDE DEF Places
    <2> QED BY <2>1
<1>3. step \in [(1 .. last) \X Places -> Places]
    <2> HIDE DEF last, Places, Passed
    <2> QED BY <1>2
<1>4. PICK g \in [0 .. last -> Places] :
          g[0] = <<>> /\ \A n \in 1 .. last : g[n] = step[<<n, g[n - 1]>>]
    <2> HIDE DEF step, last, Places
    <2>1. \E g : Unrolls(g, Places, <<>>, last, step)
        BY <1>1, <1>3, Recursion
    <2> QED BY <2>1 DEF Unrolls
<1>5. ASSUME NEW n \in 1 .. last PROVE g[n] = Passed(n, g[n - 1])
    <2>1. n - 1 \in 0 .. last
        BY <1>1
    <2> HIDE DEF last, step, Places, Passed
    <2>2. g[n] = step[<<n, g[n - 1]>>] /\ <<n, g[n - 1]>> \in (1 .. last) \X Places
        BY <1>4, <2>1
    <2> USE DEF step
    <2> QED BY <2>2
<1>6. IsKept(g)
    <2> DEFINE h(n) == IF n = 0 THEN <<>> ELSE Passed(n, g[n - 1])
    <2>1. \A n \in 0 .. last : n = 0 \/ n \in 1 .. last
        BY <1>1
    <2>2. \A n \in 0 .. last : g[n] = h(n)
        <3> HIDE DEF last, step, Passed, Places
        <3> QED BY <1>4, <1>5, <2>1
    <2>3. g = [n \in 0 .. last |-> g[n]]
        <3> HIDE DEF last, step, Places
        <3> QED BY <1>4
    <2>4. g = [n \in 0 .. last |-> h(n)]
        <3> HIDE DEF last, step, h, Places
        <3> QED BY <2>2, <2>3
    <2> HIDE DEF step, Passed
    <2> QED BY <2>4
<1>7. PICK f : /\ IsKept(f)
               /\ PassOver(lines, lines, room) = [k \in DOMAIN f[last] |-> lines[f[last][k]]]
    <2>1. \E f : IsKept(f)
        <3> HIDE DEF IsKept
        <3> QED BY <1>6
    <2>2. IsKept(CHOOSE f : IsKept(f))
        <3> HIDE DEF IsKept
        <3> QED BY <2>1, Zenon
    <2> DEFINE e == CHOOSE f : IsKept(f)
    <2>3. PassOver(lines, lines, room) = [k \in DOMAIN e[last] |-> lines[e[last][k]]]
        BY Zenon DEF PassOver
    <2>4. IsKept(e)
        BY <2>2
    <2> HIDE DEF IsKept, last, e
    <2> QED BY <2>3, <2>4
<1>8. f[0] = <<>>
    <2> HIDE DEF Passed
    <2> QED BY <1>1, <1>7
<1>9. ASSUME NEW n \in 1 .. last PROVE f[n] = Passed(n, f[n - 1])
    <2>1. n \in 0 .. last /\ n # 0
        BY <1>1
    <2> HIDE DEF Passed
    <2> QED BY <1>7, <2>1
<1> HIDE DEF IsKept
<1> QED BY <1>7, <1>8, <1>9 DEF Passing

(* Lines at some places, with one more.                                     *)
LEMMA LinesAtPlaces ==
    ASSUME NEW lines \in Seq(Nat), NEW r \in Seq(1 .. Len(lines))
    PROVE  /\ [k \in DOMAIN r |-> lines[r[k]]] \in Seq(Nat)
           /\ Len([k \in DOMAIN r |-> lines[r[k]]]) = Len(r)
           /\ \A n \in 1 .. Len(lines) :
                [k \in DOMAIN Append(r, n) |-> lines[Append(r, n)[k]]]
                    = Append([k \in DOMAIN r |-> lines[r[k]]], lines[n])
<1>1. \A i \in 1 .. Len(lines) : lines[i] \in Nat
    BY ElementOfSeq
<1>2. ASSUME NEW q \in Seq(1 .. Len(lines))
      PROVE  /\ [k \in DOMAIN q |-> lines[q[k]]] \in Seq(Nat)
             /\ Len([k \in DOMAIN q |-> lines[q[k]]]) = Len(q)
    <2> DEFINE at == [k \in DOMAIN q |-> lines[q[k]]]
    <2>1. DOMAIN q = 1 .. Len(q) /\ Len(q) \in Nat /\ \A k \in 1 .. Len(q) : q[k] \in 1 .. Len(lines)
        BY LenProperties, ElementOfSeq
    <2>2. at \in [1 .. Len(q) -> Nat]
        BY <1>1, <2>1
    <2> HIDE DEF at
    <2>3. at \in Seq(Nat)
        <3>1. ASSUME NEW n \in Nat, NEW s \in [1 .. n -> Nat] PROVE s \in Seq(Nat)
            BY SeqDef
        <3> QED BY <2>1, <2>2, <3>1
    <2>4. Len(at) = Len(q)
        BY <2>1, <2>2, <2>3, LenProperties
    <2> QED BY <2>3, <2>4 DEF at
<1>3. ASSUME NEW n \in 1 .. Len(lines)
      PROVE  [k \in DOMAIN Append(r, n) |-> lines[Append(r, n)[k]]]
                = Append([k \in DOMAIN r |-> lines[r[k]]], lines[n])
    <2> DEFINE q == Append(r, n)
               a == [k \in DOMAIN q |-> lines[q[k]]]
               b == [k \in DOMAIN r |-> lines[r[k]]]
               c == Append(b, lines[n])
    <2>1. /\ q \in Seq(1 .. Len(lines)) /\ Len(q) = Len(r) + 1 /\ q[Len(r) + 1] = n
          /\ \A i \in 1 .. Len(r) : q[i] = r[i]
        BY AppendProperties, LenProperties
    <2>2. Len(r) \in Nat /\ DOMAIN r = 1 .. Len(r) /\ lines[n] \in Nat
        BY <1>1, LenProperties
    <2>3. a \in Seq(Nat) /\ Len(a) = Len(q)
        <3> HIDE DEF q
        <3> QED BY <1>2, <2>1
    <2>4. b \in Seq(Nat) /\ Len(b) = Len(r)
        BY <1>2
    <2>5. c \in Seq(Nat) /\ Len(c) = Len(r) + 1 /\ c[Len(r) + 1] = lines[n]
          /\ \A i \in 1 .. Len(r) : c[i] = b[i]
        <3> HIDE DEF b
        <3> QED BY <2>2, <2>4, AppendProperties
    <2>6. DOMAIN q = 1 .. (Len(r) + 1)
        <3> HIDE DEF q
        <3> QED BY <2>1, LenProperties
    <2>7. ASSUME NEW i \in 1 .. (Len(r) + 1) PROVE a[i] = c[i]
        <3>1. a[i] = lines[q[i]]
            <4> HIDE DEF q
            <4> QED BY <2>6
        <3>2. CASE i = Len(r) + 1
            <4> HIDE DEF a, c, q
            <4> QED BY <2>1, <2>5, <3>1, <3>2
        <3>3. CASE i \in 1 .. Len(r)
            <4>1. b[i] = lines[r[i]]
                BY <2>2, <3>3
            <4> HIDE DEF a, b, c, q
            <4> QED BY <2>1, <2>5, <3>1, <3>3, <4>1
        <3> QED BY <2>2, <3>2, <3>3
    <2>8. a = c
        <3> HIDE DEF a, b, c, q
        <3> QED BY <2>1, <2>3, <2>5, <2>7, SeqEqual
    <2> QED BY <2>8
<1> QED BY <1>2, <1>3

(* The lines kept fit, and where none was passed over they are all there.   *)
LEMMA PassOverFits ==
    ASSUME NEW lines \in Seq(Nat), NEW room \in Nat
    PROVE  LET kept == PassOver(lines, lines, room)
           IN  /\ kept \in Seq(Nat) /\ Len(kept) \in 0 .. Len(lines)
               /\ Total(kept) <= room
               /\ Len(kept) = Len(lines) => kept = lines
<1> DEFINE last == Len(lines)
           At(r) == [k \in DOMAIN r |-> lines[r[k]]]
<1>1. PICK f : Passing(lines, room, f) /\ PassOver(lines, lines, room) = At(f[last])
    BY PassOverPasses
<1>2. last \in Nat /\ \A n \in 1 .. last : lines[n] \in Nat
    BY LenProperties, ElementOfSeq
<1> DEFINE N == {n \in 0 .. last :
                    /\ f[n] \in Seq(1 .. last) /\ Len(f[n]) <= n
                    /\ Total(At(f[n])) <= room
                    /\ Len(f[n]) = n => \A i \in 1 .. n : f[n][i] = i}
<1>3. 0 \in N
    <2>1. f[0] = <<>>
        BY <1>1 DEF Passing
    <2>2. At(<<>>) = <<>>
        OBVIOUS
    <2>3. Total(At(f[0])) <= room
        BY <2>1, <2>2, TotalOfNothing
    <2> QED BY <1>2, <2>1, <2>3, EmptySeq
<1>4. ASSUME NEW n \in 1 .. last, n - 1 \in N PROVE n \in N
    <2> DEFINE r == f[n - 1]
    <2>1. /\ r \in Seq(1 .. last) /\ Len(r) <= n - 1 /\ Total(At(r)) <= room
          /\ Len(r) = n - 1 => \A i \in 1 .. (n - 1) : r[i] = i
        BY <1>4
    <2>2. f[n] = IF Total(At(r)) + lines[n] <= room THEN Append(r, n) ELSE r
        BY <1>1 DEF Passing
    <2>3. n \in 0 .. last /\ n \in Nat /\ Len(r) \in Nat /\ n \in 1 .. last
        BY <1>2, <2>1, LenProperties
    <2>4. CASE Total(At(r)) + lines[n] <= room
        <3>1. f[n] = Append(r, n)
            BY <2>2, <2>4
        <3>2. /\ Append(r, n) \in Seq(1 .. last) /\ Len(Append(r, n)) = Len(r) + 1
              /\ Append(r, n)[Len(r) + 1] = n
              /\ \A i \in 1 .. Len(r) : Append(r, n)[i] = r[i]
            <4> HIDE DEF r, last
            <4> QED BY <2>1, <2>3, AppendProperties
        <3>3. At(Append(r, n)) = Append(At(r), lines[n]) /\ At(r) \in Seq(Nat)
            <4>1. r \in Seq(1 .. Len(lines)) /\ n \in 1 .. Len(lines)
                BY <2>1, <2>3
            <4> HIDE DEF r
            <4> QED BY ONLY lines \in Seq(Nat), <4>1, LinesAtPlaces
        <3>4. Total(At(Append(r, n))) = Total(At(r)) + lines[n]
            <4> HIDE DEF At, r
            <4> QED BY <1>2, <3>3, TotalOfOneMore
        <3>5. ASSUME Len(Append(r, n)) = n, NEW i \in 1 .. n PROVE Append(r, n)[i] = i
            <4>1. Len(r) = n - 1
                BY <2>3, <3>2, <3>5
            <4>2. i = n \/ i \in 1 .. (n - 1)
                BY <2>3
            <4> HIDE DEF r
            <4> QED BY <2>1, <2>3, <3>2, <4>1, <4>2
        <3>6. Len(f[n]) <= n /\ f[n] \in Seq(1 .. last) /\ Total(At(f[n])) <= room
            <4> HIDE DEF At, r
            <4> QED BY <2>1, <2>3, <2>4, <3>1, <3>2, <3>4
        <3> HIDE DEF At, r
        <3> QED BY <2>3, <3>1, <3>5, <3>6
    <2>5. CASE ~ (Total(At(r)) + lines[n] <= room)
        <3>1. f[n] = r
            BY <2>2, <2>5
        <3>2. Len(r) <= n /\ Len(r) # n
            BY <2>1, <2>3
        <3> HIDE DEF At, r
        <3> QED BY <2>1, <2>3, <3>1, <3>2
    <2> QED BY <2>4, <2>5
<1>5. last \in N
    <2>1. 0 .. last \subseteq N
        <3> HIDE DEF N, last
        <3> QED BY <1>2, <1>3, <1>4, EveryNumberTo
    <2> HIDE DEF N
    <2> QED BY <1>2, <2>1
<1> DEFINE kept == f[last]
<1>6. /\ kept \in Seq(1 .. last) /\ Len(kept) <= last /\ Total(At(kept)) <= room
      /\ Len(kept) = last => \A i \in 1 .. last : kept[i] = i
    BY <1>5
<1> HIDE DEF kept
<1>7. At(kept) \in Seq(Nat) /\ Len(At(kept)) = Len(kept) /\ Len(kept) \in Nat
      /\ DOMAIN kept = 1 .. Len(kept)
    BY <1>6, LinesAtPlaces, LenProperties
<1>8. ASSUME Len(kept) = last PROVE At(kept) = lines
    <2>1. \A i \in 1 .. last : At(kept)[i] = lines[i]
        BY <1>6, <1>7, <1>8
    <2> HIDE DEF At
    <2> QED BY <1>7, <1>8, <2>1, SeqEqual
<1>9. PassOver(lines, lines, room) = At(kept)
    BY <1>1 DEF kept
<1> HIDE DEF At
<1> QED BY <1>2, <1>6, <1>7, <1>8, <1>9

(* What a listing cut to a budget is.                                       *)
LEMMA ListingIsTold ==
    ASSUME NEW lines \in Seq(Nat), NEW bytes \in Nat
    PROVE  LET view == BoundedListing(lines, bytes)
           IN  /\ view.dropped = 0 => view.lines = lines
               /\ view.dropped > 0 =>
                    /\ Len(view.lines) - 1 + view.dropped = Len(lines)
                    /\ NOTICE <= bytes \div 10 => Total(view.lines) <= bytes
<1> DEFINE room == bytes - bytes \div 10
           kept == PassOver(lines, lines, room)
           view == BoundedListing(lines, bytes)
<1>1. bytes \div 10 \in Nat /\ room \in Nat /\ room <= bytes /\ room + bytes \div 10 = bytes
    BY SMT
<1>2. NOTICE \in Nat /\ Len(lines) \in Nat
    BY SurfaceAssumption, LenProperties
<1>3. CASE Total(lines) <= bytes
    <2>1. view.lines = lines /\ view.dropped = 0
        BY <1>3 DEF BoundedListing
    <2> QED BY <2>1
<1>4. CASE ~ (Total(lines) <= bytes)
    <2>1. view.lines = Append(kept, NOTICE) /\ view.dropped = Len(lines) - Len(kept)
        BY <1>4 DEF BoundedListing
    <2>2. /\ kept \in Seq(Nat) /\ Len(kept) \in 0 .. Len(lines) /\ Total(kept) <= room
          /\ Len(kept) = Len(lines) => kept = lines
        <3> HIDE DEF room
        <3> QED BY <1>1, PassOverFits
    <2> HIDE DEF kept, room
    <2>3. Total(kept) \in Nat /\ Total(Append(kept, NOTICE)) = Total(kept) + NOTICE
          /\ Len(Append(kept, NOTICE)) = Len(kept) + 1
        BY <1>2, <2>2, TotalIsANumber, TotalOfOneMore, AppendProperties
    <2>4. Len(kept) # Len(lines)
        BY <1>1, <1>4, <2>2, <2>3
    <2> DEFINE tenth == bytes \div 10
    <2>5. Len(view.lines) - 1 + view.dropped = Len(lines) /\ view.dropped # 0
        <3> HIDE DEF view
        <3> QED BY <1>2, <2>1, <2>2, <2>3, <2>4
    <2>6. NOTICE <= tenth => Total(view.lines) <= bytes
        <3>1. tenth \in Nat /\ room \in Nat /\ room + tenth = bytes
            BY <1>1
        <3> HIDE DEF view, tenth
        <3> QED BY <1>2, <2>1, <2>2, <2>3, <3>1
    <2> QED BY <2>5, <2>6
<1> QED BY <1>3, <1>4

(* What a profile of a record is, within so many bytes.                     *)
ProfileTells(record, bytes, view) ==
    /\ EncodedLen(view) <= bytes \/ view.reasons \o view.findings = <<>>
    /\ KeepsTheWorst(view.reasons, record.reasons)
    /\ KeepsTheWorst(view.findings, record.results)
    /\ Len(view.reasons) < Capped(view.total_reasons, MaxReasons) =>
           Total(FindingSizes(view.findings))
               < ReasonSizes(WorstFirst(record.reasons))[Len(view.reasons) + 1]
    /\ view.truncated <=> \/ Len(view.reasons) < Len(record.reasons)
                          \/ Len(view.findings) < Len(record.results)
    /\ view.verdict = "pass" /\ ~ view.verdict_invalid => record.unread = 0

LEMMA ProfileIsTold ==
    ASSUME NEW record \in Records, NEW bytes \in Nat
    PROVE  ProfileTells(record, bytes, BuildAgentProfile(record, bytes))
<1> DEFINE view == BuildAgentProfile(record, bytes)
           reasons == WorstFirst(record.reasons)
           findings == WorstFirst(record.results)
           rs == ReasonSizes(reasons)
           fs == FindingSizes(findings)
           kept == Take(reasons, rs, bytes - HEADER, MaxReasons)
           used == HEADER + Total(ReasonSizes(kept))
           shown == Take(findings, fs, bytes - used, MaxFindings)
<1>1. /\ record.reasons \in Seq(Items) /\ record.results \in Seq(Items) /\ record.unread \in Nat
      /\ HEADER \in Nat /\ MaxReasons \in Nat /\ MaxFindings \in Nat
    BY SurfaceAssumption
<1>2. reasons \in Seq(Items) /\ Len(reasons) = Len(record.reasons) /\ Len(reasons) \in Nat
    BY <1>1, WorstIsFirst, LenProperties
<1>3. findings \in Seq(Items) /\ Len(findings) = Len(record.results) /\ Len(findings) \in Nat
    BY <1>1, WorstIsFirst, LenProperties
<1>4. /\ view.verdict = record.verdict
      /\ view.verdict_invalid = StoredVerdictIsContradicted(record)
      /\ view.reasons = kept /\ view.total_reasons = Len(reasons)
      /\ view.findings = shown /\ view.total_findings = Len(findings)
      /\ view.truncated = (Len(kept) < Len(reasons) \/ Len(shown) < Len(findings))
    BY DEF BuildAgentProfile
<1> HIDE DEF view, reasons, findings
<1>5. PICK m \in 0 .. Capped(Len(reasons), MaxReasons) :
          /\ kept = SubSeq(reasons, 1, m)
          /\ m > 0 => Total(SubSeq(rs, 1, m)) <= bytes - HEADER
          /\ m < Capped(Len(reasons), MaxReasons) =>
                ~ (Total(SubSeq(rs, 1, m + 1)) <= bytes - HEADER)
    <2>1. bytes - HEADER \in Int
        BY <1>1
    <2> HIDE DEF rs
    <2> QED BY <1>1, <1>2, <2>1, TakeIsABeginning
<1> HIDE DEF kept
<1>6. /\ m \in 0 .. Len(reasons) /\ m \in Nat
      /\ Capped(Len(reasons), MaxReasons) \in Nat /\ Capped(Len(reasons), MaxReasons) <= Len(reasons)
    BY <1>1, <1>2, <1>5 DEF Capped
<1>7. /\ rs \in Seq(Nat) /\ Len(rs) = Len(reasons)
      /\ ReasonSizes(kept) = SubSeq(rs, 1, m) /\ \A n \in DOMAIN reasons : rs[n] > 0
    BY <1>2, <1>5, <1>6, Sizes
<1>8. kept \in Seq(Items) /\ Len(kept) = m
    BY <1>2, <1>5, <1>6, Beginning
<1> HIDE DEF rs
<1>9. SubSeq(rs, 1, m) \in Seq(Nat) /\ Total(SubSeq(rs, 1, m)) \in Nat
    BY <1>6, <1>7, Beginning, TotalIsANumber
<1> DEFINE sum == Total(SubSeq(rs, 1, m))
<1>10. used = HEADER + sum /\ used \in Nat
    BY <1>1, <1>7, <1>9
<1> HIDE DEF used
<1>11. PICK k \in 0 .. Capped(Len(findings), MaxFindings) :
          /\ shown = SubSeq(findings, 1, k)
          /\ k > 0 => Total(SubSeq(fs, 1, k)) <= bytes - used
    <2>1. bytes - used \in Int
        BY <1>10
    <2> HIDE DEF fs
    <2> QED BY <1>1, <1>3, <2>1, TakeIsABeginning
<1> HIDE DEF shown
<1>12. k \in 0 .. Len(findings)
    BY <1>1, <1>3, <1>11 DEF Capped
<1>13. fs \in Seq(Nat) /\ Len(fs) = Len(findings) /\ FindingSizes(shown) = SubSeq(fs, 1, k)
    BY <1>3, <1>11, <1>12, Sizes
<1>14. shown \in Seq(Items) /\ Len(shown) = k
    BY <1>3, <1>11, <1>12, Beginning
<1> HIDE DEF fs
<1>15. SubSeq(fs, 1, k) \in Seq(Nat) /\ Len(SubSeq(fs, 1, k)) = k
       /\ Total(SubSeq(fs, 1, k)) \in Nat
    BY <1>12, <1>13, Beginning, TotalIsANumber
<1> DEFINE more == Total(SubSeq(fs, 1, k))
<1>16. k = 0 => more = 0 /\ shown = <<>>
    <2>1. k = 0 => SubSeq(fs, 1, k) = <<>> /\ shown = <<>>
        BY <1>14, <1>15, EmptySeq
    <2> QED BY <2>1, TotalOfNothing
<1>17. m = 0 => sum = 0 /\ kept = <<>>
    <2>1. Len(SubSeq(rs, 1, m)) = m
        BY <1>6, <1>7, Beginning
    <2>2. m = 0 => SubSeq(rs, 1, m) = <<>> /\ kept = <<>>
        BY <1>8, <1>9, <2>1, EmptySeq
    <2> QED BY <2>2, TotalOfNothing
<1>18. EncodedLen(view) = HEADER + sum + more
    BY <1>4, <1>7, <1>13 DEF EncodedLen
<1>19. sum \in Nat /\ more \in Nat /\ used = HEADER + sum
       /\ (m > 0 => sum <= bytes - HEADER) /\ (k > 0 => more <= bytes - used)
    BY <1>5, <1>9, <1>10, <1>11, <1>15
<1> HIDE DEF sum, more
<1>20. EncodedLen(view) <= bytes \/ view.reasons \o view.findings = <<>>
    <2>1. CASE k > 0
        BY <1>1, <1>18, <1>19, <2>1
    <2>2. CASE k = 0 /\ m > 0
        BY <1>1, <1>16, <1>18, <1>19, <2>2
    <2>3. CASE k = 0 /\ m = 0
        <3>1. view.reasons = <<>> /\ view.findings = <<>>
            BY <1>4, <1>16, <1>17, <2>3
        <3>2. <<>> \o <<>> = <<>>
            OBVIOUS
        <3> QED BY <3>1, <3>2
    <2> QED BY <1>6, <1>12, <2>1, <2>2, <2>3
<1>21. KeepsTheWorst(view.reasons, record.reasons) /\ KeepsTheWorst(view.findings, record.results)
    <2>1. m \in 0 .. Len(record.reasons) /\ k \in 0 .. Len(record.results)
        BY <1>2, <1>3, <1>6, <1>12
    <2> QED BY <1>1, <1>4, <1>5, <1>11, <2>1, BeginningKeepsTheWorst DEF reasons, findings
<1>22. Len(view.reasons) < Capped(view.total_reasons, MaxReasons) =>
           Total(FindingSizes(view.findings)) < rs[Len(view.reasons) + 1]
    <2>1. SUFFICES ASSUME m < Capped(Len(reasons), MaxReasons) PROVE more < rs[m + 1]
        BY <1>4, <1>8, <1>13 DEF more
    <2>2. m \in 0 .. (Len(rs) - 1) /\ m + 1 \in 1 .. Len(reasons) /\ m + 1 \in 1 .. Len(rs)
        BY <1>2, <1>6, <1>7, <2>1
    <2>3. Total(SubSeq(rs, 1, m + 1)) = sum + rs[m + 1] /\ rs[m + 1] \in Nat
        BY <1>7, <2>2, TotalGrows, ElementOfSeq DEF sum
    <2>4. ~ (sum + rs[m + 1] <= bytes - HEADER)
        BY <1>5, <2>1, <2>3
    <2>5. rs[m + 1] > 0
        BY <1>2, <1>7, <2>2, LenProperties
    <2>6. CASE k > 0
        BY <1>1, <1>19, <2>3, <2>4, <2>6
    <2>7. CASE k = 0
        BY <1>16, <2>5, <2>7
    <2> QED BY <1>12, <2>6, <2>7
<1>23. view.truncated <=> \/ Len(view.reasons) < Len(record.reasons)
                          \/ Len(view.findings) < Len(record.results)
    BY <1>2, <1>3, <1>4
<1>24. view.verdict = "pass" /\ ~ view.verdict_invalid => record.unread = 0
    <2>1. view.verdict = "pass" /\ ~ view.verdict_invalid => ~ (record.unread > 0)
        BY <1>4, Zenon DEF StoredVerdictIsContradicted
    <2> QED BY <1>1, <2>1
<1>25. rs = ReasonSizes(WorstFirst(record.reasons))
    BY DEF rs, reasons
<1> QED BY <1>20, <1>21, <1>22, <1>23, <1>24, <1>25 DEF ProfileTells, view

(* An answer: a refusal, a record within a budget, or the ledger's lines.   *)
Answer(reply) ==
    \/ reply = Refusal
    \/ \E record \in Records, bytes \in Nat :
        reply = [kind |-> "profile", of |-> record, within |-> bytes,
                view |-> BuildAgentProfile(record, bytes)]
    \/ \E lines \in Seq(Nat), bytes \in Nat :
        reply = [kind |-> "listing", of |-> lines, within |-> bytes,
                view |-> BoundedListing(lines, bytes)]

(* What the agent heard is an answer; what is remembered is what is saved,  *)
(* what the tool under way holds once it saved, and until then what the     *)
(* agent last heard of.                                                     *)
SurfaceInv ==
    /\ saved \in Records \cup {NoRecord} /\ ledger \in Seq(Records) /\ budget \in Nat
    /\ \/ call = NoCall
       \/ \E at \in {"save", "record", "answer"}, record \in Records :
            call = [at |-> at, record |-> record]
    /\ Answer(heard)
    /\ remembered # NoRecord =>
        /\ saved = remembered
        /\ call.at \in {"record", "answer"} => call.record = remembered
        /\ call.at \in {"none", "save"} /\ heard.kind = "profile" => heard.of = remembered

(* Told of a record within the budget.                                      *)
LEMMA ProfileAnswers ==
    ASSUME NEW record \in Records, budget \in Nat
    PROVE  /\ Answer(Profile(record))
           /\ Profile(record).kind = "profile" => Profile(record).of = record
<1>1. CASE budget = 0
    <2>1. Profile(record) = Refusal /\ Refusal.kind # "profile"
        BY <1>1 DEF Profile, Refusal
    <2> QED BY <2>1 DEF Answer
<1>2. CASE budget # 0
    <2>1. Profile(record) = [kind |-> "profile", of |-> record, within |-> budget,
                             view |-> BuildAgentProfile(record, budget)]
        BY <1>2 DEF Profile
    <2> HIDE DEF Profile
    <2>2. Profile(record).of = record
        BY <2>1
    <2>3. \E r \in Records, bytes \in Nat :
            Profile(record) = [kind |-> "profile", of |-> r, within |-> bytes,
                               view |-> BuildAgentProfile(r, bytes)]
        BY <2>1, Zenon
    <2> QED BY <2>2, <2>3 DEF Answer
<1> QED BY <1>1, <1>2

(* The ledger's lines.                                                      *)
LEMMA ListingIsOfLines ==
    ASSUME ledger \in Seq(Records) PROVE Listing \in Seq(Nat)
<1> DEFINE lines == [n \in DOMAIN ledger |-> ledger[n].line]
<1>1. Len(ledger) \in Nat /\ DOMAIN ledger = 1 .. Len(ledger)
      /\ \A n \in 1 .. Len(ledger) : ledger[n].line \in Nat
    BY SurfaceAssumption, LenProperties, ElementOfSeq
<1>2. lines \in [1 .. Len(ledger) -> Nat]
    BY <1>1
<1> HIDE DEF lines
<1>3. lines \in Seq(Nat)
    BY <1>1, <1>2, SeqDef
<1>4. <<HEADLINE>> \in Seq(Nat)
    BY SurfaceAssumption
<1>5. <<HEADLINE>> \o lines \in Seq(Nat)
    <2> DEFINE first == <<HEADLINE>>
    <2> HIDE DEF first
    <2> QED BY <1>3, <1>4, ConcatProperties DEF first
<1> QED BY <1>5 DEF Listing, lines

LEMMA InitSurface == SurfaceInit => SurfaceInv
<1> SUFFICES ASSUME SurfaceInit PROVE SurfaceInv
    OBVIOUS
<1>1. budget \in Nat /\ ledger \in Seq(Records)
    BY SurfaceAssumption, EmptySeq DEF SurfaceInit
<1>2. saved = NoRecord /\ call = NoCall /\ heard = Refusal /\ remembered = NoRecord
    BY DEF SurfaceInit
<1> QED BY <1>1, <1>2 DEF SurfaceInv, Answer

(* A tool under way, at the step it is at.                                  *)
LEMMA CallIsAt ==
    ASSUME SurfaceInv, NEW at \in {"save", "record", "answer"}, call.at = at
    PROVE  /\ call.record \in Records /\ call = [at |-> at, record |-> call.record]
           /\ \A to : [call EXCEPT !.at = to] = [at |-> to, record |-> call.record]
<1>1. call # NoCall
    BY DEF NoCall
<1>2. PICK place \in {"save", "record", "answer"}, record \in Records :
          call = [at |-> place, record |-> record]
    BY <1>1, Zenon DEF SurfaceInv
<1>3. place = at /\ call.record = record
    BY <1>2
<1>4. ASSUME NEW to PROVE [call EXCEPT !.at = to] = [at |-> to, record |-> record]
    <2> DEFINE r == [at |-> place, record |-> record]
    <2>1. [r EXCEPT !.at = to] = [at |-> to, record |-> record]
        BY SMT
    <2> QED BY <1>2, <2>1
<1> QED BY <1>2, <1>3, <1>4

LEMMA StepKeepsSurface == SurfaceInv /\ [SurfaceNext]_surfaceVars => SurfaceInv'
<1> SUFFICES ASSUME SurfaceInv, [SurfaceNext]_surfaceVars PROVE SurfaceInv'
    OBVIOUS
<1>0. /\ saved \in Records \cup {NoRecord} /\ ledger \in Seq(Records) /\ budget \in Nat
      /\ Answer(heard)
      /\ remembered # NoRecord =>
            /\ saved = remembered
            /\ call.at \in {"record", "answer"} => call.record = remembered
            /\ call.at \in {"none", "save"} /\ heard.kind = "profile" => heard.of = remembered
    BY DEF SurfaceInv
<1> DEFINE At(c) == \/ c = NoCall
                    \/ \E at \in {"save", "record", "answer"}, record \in Records :
                         c = [at |-> at, record |-> record]
<1>A. At(call)
    BY DEF SurfaceInv
<1>B. ASSUME /\ saved' \in Records \cup {NoRecord} /\ ledger' \in Seq(Records) /\ budget' \in Nat,
             At(call'), Answer(heard'),
             remembered' # NoRecord =>
                /\ saved' = remembered'
                /\ call'.at \in {"record", "answer"} => call'.record = remembered'
                /\ call'.at \in {"none", "save"} /\ heard'.kind = "profile" => heard'.of = remembered'
      PROVE  SurfaceInv'
    BY <1>B DEF SurfaceInv, Answer, Refusal, NoCall, NoRecord
<1>C. NoCall.at = "none" /\ Refusal.kind # "profile" /\ Answer(Refusal)
    BY DEF NoCall, Refusal, Answer
<1> HIDE DEF At
<1>1. ASSUME NEW record \in Records, MeasureChange(record) PROVE SurfaceInv'
    <2>1. /\ call = NoCall
          /\ UNCHANGED <<saved, ledger, budget, remembered>>
          /\ \/ heard' = Refusal /\ call' = call
             \/ heard' = heard /\ call' = [at |-> "save", record |-> record]
        BY <1>1 DEF MeasureChange, Called
    <2>2. CASE heard' = Refusal /\ call' = call
        BY <1>0, <1>A, <1>B, <1>C, <2>1, <2>2
    <2>3. CASE heard' = heard /\ call' = [at |-> "save", record |-> record]
        <3>1. At(call') /\ call'.at = "save" /\ call.at = "none"
            BY <1>C, <2>1, <2>3 DEF At
        <3> QED BY <1>0, <1>B, <2>1, <2>3, <3>1
    <2> QED BY <2>1, <2>2, <2>3
<1>2. ASSUME SaveMeasured PROVE SurfaceInv'
    <2>1. /\ call.at = "save" /\ UNCHANGED <<ledger, budget, heard>>
          /\ call' = [call EXCEPT !.at = "record"]
          /\ \/ saved' = call.record /\ remembered' = call.record
             \/ saved' = saved /\ remembered' = NoRecord
        BY <1>2 DEF SaveMeasured
    <2>2. call.record \in Records /\ call' = [at |-> "record", record |-> call.record]
        BY <2>1, CallIsAt
    <2>3. At(call') /\ call'.at = "record" /\ call'.record = call.record
        BY <2>2 DEF At
    <2> QED BY <1>0, <1>B, <2>1, <2>2, <2>3
<1>3. ASSUME RecordMeasured PROVE SurfaceInv'
    <2>1. /\ call.at = "record" /\ UNCHANGED <<saved, budget, heard, remembered>>
          /\ call' = [call EXCEPT !.at = "answer"]
          /\ ledger' = Append(ledger, call.record) \/ ledger' = ledger
        BY <1>3 DEF RecordMeasured
    <2>2. call.record \in Records /\ call' = [at |-> "answer", record |-> call.record]
        BY <2>1, CallIsAt
    <2>3. At(call') /\ call'.at = "answer" /\ call'.record = call.record
        BY <2>2 DEF At
    <2>4. ledger' \in Seq(Records)
        BY <1>0, <2>1, <2>2, AppendProperties
    <2> QED BY <1>0, <1>B, <2>1, <2>3, <2>4
<1>4. ASSUME AnswerMeasured PROVE SurfaceInv'
    <2>1. /\ call.at = "answer" /\ heard' = Profile(call.record) /\ call' = NoCall
          /\ UNCHANGED <<saved, ledger, budget, remembered>>
        BY <1>4 DEF AnswerMeasured
    <2>2. call.record \in Records
        BY <2>1, CallIsAt
    <2>3. Answer(heard') /\ (heard'.kind = "profile" => heard'.of = call.record)
        BY <1>0, <2>1, <2>2, ProfileAnswers
    <2>4. At(call')
        BY <2>1 DEF At
    <2> QED BY <1>0, <1>B, <1>C, <2>1, <2>3, <2>4
<1>5. ASSUME GetResults PROVE SurfaceInv'
    <2>1. /\ call = NoCall /\ UNCHANGED <<saved, ledger, budget, call, remembered>>
          /\ heard' = IF saved = NoRecord THEN Refusal ELSE Profile(saved)
        BY <1>5 DEF GetResults, Called
    <2>2. Answer(heard') /\ (heard'.kind = "profile" => heard'.of = saved)
        BY <1>0, <1>C, <2>1, ProfileAnswers
    <2> QED BY <1>0, <1>A, <1>B, <1>C, <2>1, <2>2
<1>6. ASSUME NEW completed \in Records \cup {saved}, AwaitResults(completed) PROVE SurfaceInv'
    <2>1. /\ call = NoCall /\ UNCHANGED <<ledger, budget, call>> /\ saved' = completed
          /\ remembered' = IF completed = saved THEN remembered ELSE NoRecord
          /\ heard' = IF saved' = NoRecord THEN Refusal ELSE Profile(saved')
        BY <1>6 DEF AwaitResults, Called
    <2>2. saved' \in Records \cup {NoRecord}
        BY <1>0, <2>1
    <2>3. Answer(heard') /\ (heard'.kind = "profile" => heard'.of = saved')
        BY <1>0, <1>C, <2>1, <2>2, ProfileAnswers
    <2> QED BY <1>0, <1>A, <1>B, <1>C, <2>1, <2>2, <2>3
<1>7. ASSUME GetLedger PROVE SurfaceInv'
    <2> DEFINE bytes == IF budget = 0 THEN DEFAULT_BUDGET ELSE budget
    <2>1. /\ heard' = [kind |-> "listing", of |-> Listing, within |-> bytes,
                       view |-> BoundedListing(Listing, bytes)]
          /\ UNCHANGED <<saved, ledger, budget, call, remembered>>
        BY <1>7 DEF GetLedger
    <2>2. bytes \in Nat /\ Listing \in Seq(Nat)
        BY <1>0, SurfaceAssumption, ListingIsOfLines
    <2> HIDE DEF bytes
    <2>3. \E lines \in Seq(Nat), room \in Nat :
            heard' = [kind |-> "listing", of |-> lines, within |-> room,
                      view |-> BoundedListing(lines, room)]
        BY <2>1, <2>2, Zenon
    <2>4. Answer(heard') /\ heard'.kind # "profile"
        BY <2>1, <2>3 DEF Answer
    <2> QED BY <1>0, <1>A, <1>B, <2>1, <2>4
<1>8. ASSUME NEW record \in Records, OtherMeasures(record) PROVE SurfaceInv'
    <2>1. /\ saved' = record /\ ledger' = Append(ledger, record) /\ remembered' = NoRecord
          /\ UNCHANGED <<budget, call, heard>>
        BY <1>8 DEF OtherMeasures
    <2>2. ledger' \in Seq(Records)
        BY <1>0, <2>1, AppendProperties
    <2> QED BY <1>0, <1>A, <1>B, <2>1, <2>2
<1>9. ASSUME NEW bytes \in Budgets, EditPolicy(bytes) PROVE SurfaceInv'
    <2>1. budget' = bytes /\ bytes \in Nat
          /\ UNCHANGED <<saved, ledger, call, heard, remembered>>
        BY <1>9, SurfaceAssumption DEF EditPolicy
    <2> QED BY <1>0, <1>A, <1>B, <2>1
<1>10. CASE UNCHANGED surfaceVars
    BY <1>0, <1>A, <1>B, <1>10 DEF surfaceVars
<1> QED BY <1>1, <1>2, <1>3, <1>4, <1>5, <1>6, <1>7, <1>8, <1>9, <1>10 DEF SurfaceNext

(* For any records, budgets, sizes and bounds, and whoever measures or      *)
(* edits the policy meanwhile: a profile fits and keeps the worst, what the *)
(* budget cut is said and was not cut for findings that take as much, a     *)
(* listing accounts for every line, and what is read again is what was told *)
(* (andon-mcp, lib.rs; agent_profile.rs, build_agent_profile).              *)
THEOREM AgentHearsTheWorst == SurfaceSpec => []AgentIsToldTheWorst
<1>1. SurfaceInit => SurfaceInv
    BY InitSurface
<1>2. SurfaceInv /\ [SurfaceNext]_surfaceVars => SurfaceInv'
    BY StepKeepsSurface
<1>3. SurfaceInv => AgentIsToldTheWorst
    <2> SUFFICES ASSUME SurfaceInv PROVE AgentIsToldTheWorst
        OBVIOUS
    <2>1. Answer(heard)
        BY DEF SurfaceInv
    <2>2. CASE heard = Refusal
        BY <2>2 DEF AgentIsToldTheWorst, Refusal
    <2>3. ASSUME NEW record \in Records, NEW bytes \in Nat,
                 heard = [kind |-> "profile", of |-> record, within |-> bytes,
                          view |-> BuildAgentProfile(record, bytes)]
          PROVE  AgentIsToldTheWorst
        <3> DEFINE view == BuildAgentProfile(record, bytes)
        <3>1. /\ heard.kind = "profile" /\ heard.kind # "listing" /\ heard.of = record
              /\ heard.within = bytes /\ heard.view = view
            BY <2>3
        <3>2. ProfileTells(record, bytes, view)
            BY ProfileIsTold
        <3>3. remembered # NoRecord /\ call = NoCall => heard.of = remembered
            BY <3>1 DEF SurfaceInv, NoCall
        <3> HIDE DEF view
        <3> QED BY <3>1, <3>2, <3>3 DEF AgentIsToldTheWorst, ProfileTells
    <2>4. ASSUME NEW lines \in Seq(Nat), NEW bytes \in Nat,
                 heard = [kind |-> "listing", of |-> lines, within |-> bytes,
                          view |-> BoundedListing(lines, bytes)]
          PROVE  AgentIsToldTheWorst
        <3> DEFINE view == BoundedListing(lines, bytes)
        <3>1. /\ heard.kind = "listing" /\ heard.kind # "profile" /\ heard.of = lines
              /\ heard.within = bytes /\ heard.view = view
            BY <2>4
        <3>2. /\ view.dropped = 0 => view.lines = lines
              /\ view.dropped > 0 =>
                    /\ Len(view.lines) - 1 + view.dropped = Len(lines)
                    /\ NOTICE <= bytes \div 10 => Total(view.lines) <= bytes
            BY ListingIsTold
        <3> HIDE DEF view
        <3> QED BY <3>1, <3>2 DEF AgentIsToldTheWorst
    <2> QED BY <2>1, <2>2, <2>3, <2>4 DEF Answer
<1> QED BY <1>1, <1>2, <1>3, PTL DEF SurfaceSpec

=============================================================================
