----------------------------- MODULE ConfigEdits -----------------------------
(****************************************************************************)
(* Configuration, as the tamper suite reads it: which files it opens, what  *)
(* the scanner takes from one, and which way a threshold or a coverage      *)
(* exclusion moved (engines/tamper/src/config.rs and the detectors          *)
(* threshold_config_edit.rs and coverage_exclusion_drift.rs).               *)
(*                                                                          *)
(* A path is [dirs, stem, variant, syntax]; a key is a name of which        *)
(* KeySays tells what the tables of the detectors match in it; a value is   *)
(* what its readings are: [word, num, list, opt, ref] - the word or the     *)
(* severity of a rule, the number it is, whether it is a rule's list, and   *)
(* the number or the name in that list.                                     *)
(****************************************************************************)
EXTENDS Integers, FiniteSets, Sequences

CONSTANTS
    KeySays,            \* key -> the tables and fragments its name is in
    ContinuationLines   \* how far the scanner follows a value

NoNumber == -1

----------------------------------------------------------------------------
(* Which files.                                                             *)

Executable == {"js", "cjs", "mjs", "ts", "mts", "cts"}
JSONC      == {"json", "jsonc"}

(* A tool's stem and how it is matched: "any" is for dotfile stems only.    *)
Tool(stem, how, syntaxes) == [stem |-> stem, how |-> how, syntaxes |-> syntaxes]

ANDON       == Tool(".andon", "any", {})
TSCONFIG    == Tool("tsconfig", "family", JSONC)
ESLINTRC    == Tool(".eslintrc", "any", {})
ESLINT_FLAT == Tool("eslint.config", "family", Executable)
CLIPPY      == Tool("clippy", "only", {"toml"})
GOLANGCI    == Tool(".golangci", "any", {})
NYCRC       == Tool(".nycrc", "any", {})
CODECOV     == Tool("codecov", "only", {"yml", "yaml"})
JEST        == Tool("jest.config", "family", Executable \cup {"json"})
PYPROJECT   == Tool("pyproject", "only", {"toml"})

NamesOneOf(path, tools) ==
    \E tool \in tools :
        /\ path.stem = tool.stem
        /\ tool.how # "any" => path.syntax \in tool.syntaxes
        /\ path.variant # "" => tool.how = "family" /\ path.syntax \notin Executable

IsThresholdConfig(path) ==
    NamesOneOf(path, {ANDON, TSCONFIG, ESLINTRC, ESLINT_FLAT, CLIPPY, GOLANGCI,
                      NYCRC, CODECOV, JEST, PYPROJECT})
IsCoverageConfig(path) == NamesOneOf(path, {NYCRC, CODECOV, JEST, PYPROJECT})

Dialect(path) ==
    CASE NamesOneOf(path, {ESLINTRC, ESLINT_FLAT}) -> "eslint"
      [] NamesOneOf(path, {CODECOV})               -> "codecov"
      [] NamesOneOf(path, {GOLANGCI})              -> "golangci"
      [] NamesOneOf(path, {CLIPPY})                -> "clippy"
      [] OTHER                                     -> "shared"

----------------------------------------------------------------------------
(* What the scanner takes from a file.  A setting is written with the       *)
(* number of further lines its value runs over; past the bound the opening  *)
(* line's own reading stands, and its other lines are left unread.          *)

Followed(written) == written.lines <= ContinuationLines

Opening(value) == [value EXCEPT !.opt = NoNumber, !.ref = ""]

Settings(text) ==
    [key \in DOMAIN text |-> IF Followed(text[key]) THEN text[key].value
                                                    ELSE Opening(text[key].value)]

(* The lines it took no setting from, as what a change of them can be told by: *)
(* lines that hold a word or a number the ranking knows, as the code counts no *)
(* other (threshold_config_edit.rs, unread lines).                             *)
UnreadLines(text) ==
    {<<key, text[key].value>> : key \in {k \in DOMAIN text : ~Followed(text[k])}}

----------------------------------------------------------------------------
(* Reading a value.                                                         *)

SeverityWords == <<"off", "none", "ignore", "info", "hint", "warn", "warning",
                   "error", "deny", "forbid">>

Place(word) == CHOOSE i \in 1..Len(SeverityWords) : SeverityWords[i] = word

NumericRank(dialect, word) ==
    IF dialect # "eslint" THEN 0
    ELSE CASE word = "0" -> Place("off")
           [] word = "1" -> Place("warn")
           [] word = "2" -> Place("error")
           [] OTHER      -> 0

Rank(dialect, value) ==                       \* 0: not a severity
    IF \E i \in 1..Len(SeverityWords) : SeverityWords[i] = value.word
    THEN Place(value.word) ELSE NumericRank(dialect, value.word)

IsTrue(value)  == ~value.list /\ value.word \in {"true", "yes", "on", "1"}
IsFalse(value) == ~value.list /\ value.word \in {"false", "no", "off", "0"}

IsNumber(value)  == value.num # NoNumber
HasOption(value) == value.list /\ value.opt # NoNumber

----------------------------------------------------------------------------
(* What a number under a key bounds.                                        *)

DialectBound(dialect, key) ==
    CASE dialect = "golangci" /\ "zero is unlimited" \in KeySays[key] -> "ceiling, zero is off"
      [] dialect = "clippy" /\ "-threshold" \in KeySays[key] /\ "min-" \notin KeySays[key] -> "ceiling"
      [] OTHER -> "none"

SharedBound(dialect, key) ==
    IF /\ "max_severity" \notin KeySays[key]
       /\ KeySays[key] \cap {"ceiling", "max-"} # {}
    THEN "ceiling"
    ELSE IF \/ KeySays[key] \cap {"floor", "max_severity", "-threshold", "min-"} # {}
            \/ dialect = "codecov" /\ "target" \in KeySays[key]
    THEN "floor"
    ELSE "none"

BoundOf(dialect, key) ==
    IF DialectBound(dialect, key) # "none" THEN DialectBound(dialect, key)
                                           ELSE SharedBound(dialect, key)

IsCeiling(dialect, key) == BoundOf(dialect, key) = "ceiling"

----------------------------------------------------------------------------
(* Which way one setting moved.                                             *)

(* Mutant: a limit taken away altogether is not a loosening.                *)
NumberLoosenedNotRemoved(bound, b, a) ==
    CASE bound = "floor" -> a < b
      [] bound = "none"  -> FALSE
      [] OTHER           -> b # 0 /\ a > b

NumberLoosened(bound, b, a) ==
    CASE bound = "ceiling"              -> a > b
      [] bound = "floor"                -> a < b
      [] bound = "ceiling, zero is off" -> b # 0 /\ (a = 0 \/ a > b)
      [] OTHER                          -> FALSE

(* A ceiling written as a name: resolved in the file's own settings.        *)
Resolved(value, settings) ==
    CASE HasOption(value) -> value.opt
      [] ~HasOption(value) /\ value.ref \in DOMAIN settings -> settings[value.ref].num
      [] OTHER -> NoNumber

(* The settings both sides have, each with what it is compared by.          *)
Compared(path, base, head) ==
    {[key |-> key, dialect |-> Dialect(path), before |-> base[key], after |-> head[key],
      boundBefore |-> Resolved(base[key], base), boundAfter |-> Resolved(head[key], head)] :
        key \in DOMAIN base \cap DOMAIN head}

SameSeverity(s) ==
    /\ Rank(s.dialect, s.before) # 0
    /\ Rank(s.dialect, s.after) = Rank(s.dialect, s.before)

(* Both options are numbers, and one of them limits.                        *)
OptionsRank(s) ==
    IsCeiling(s.dialect, s.key) /\ HasOption(s.before) /\ HasOption(s.after)

SeverityLoosened(s) ==
    \/ Rank(s.dialect, s.after) < Rank(s.dialect, s.before)
    \/ SameSeverity(s) /\ OptionsRank(s) /\ s.after.opt > s.before.opt

Loosening(s) ==
    IF Rank(s.dialect, s.before) # 0 /\ Rank(s.dialect, s.after) # 0 THEN SeverityLoosened(s)
    ELSE \/ "strict when true" \in KeySays[s.key] /\ IsTrue(s.before) /\ IsFalse(s.after)
         \/ "strict when false" \in KeySays[s.key] /\ IsFalse(s.before) /\ IsTrue(s.after)
         \/ /\ IsNumber(s.before) /\ IsNumber(s.after)
            /\ NumberLoosened(BoundOf(s.dialect, s.key), s.before.num, s.after.num)

(* A rule's option moved while its severity held, and nothing ranks it.     *)
Unrankable(s) == SameSeverity(s) /\ ~OptionsRank(s)

(* A setting the detector ranks is gone.                                    *)
Deletion(dialect, key, before) ==
    \/ Rank(dialect, before) # 0
    \/ /\ IsTrue(before) \/ IsFalse(before)
       /\ KeySays[key] \cap {"strict when true", "strict when false"} # {}
    \/ IsNumber(before) /\ BoundOf(dialect, key) # "none"

(* The option is a ceiling, and a name on one side or the other.            *)
Indirect(s) ==
    /\ IsCeiling(s.dialect, s.key) /\ SameSeverity(s)
    /\ s.before.list /\ s.after.list
    /\ ~(HasOption(s.before) /\ HasOption(s.after))
    /\ s.before.ref # "" \/ s.after.ref # ""

RaisedBehindAName(s) ==
    Indirect(s) /\ s.boundBefore # NoNumber /\ s.boundAfter > s.boundBefore

NameUnbound(s) ==
    Indirect(s) /\ NoNumber \in {s.boundBefore, s.boundAfter} /\ s.before # s.after

(* What the detector says of one key both sides have.                       *)
KeyVerdict(s) ==
    CASE RaisedBehindAName(s) -> "finding"
      [] NameUnbound(s)       -> "unassessed"
      [] OTHER ->
           CASE s.before = s.after                -> "nothing"
             [] s.before # s.after /\ Loosening(s) -> "finding"
             [] s.before # s.after /\ ~Loosening(s) ->
                  IF Unrankable(s) THEN "unassessed" ELSE "nothing"

Verdicts(path, base, head, verdict) ==
    {s.key : s \in {t \in Compared(path, Settings(base), Settings(head)) : KeyVerdict(t) = verdict}}

(* threshold_config_edit on one file: the findings and what it could not rank. *)
ThresholdFindings(path, base, head) == Verdicts(path, base, head, "finding")

ThresholdUnassessed(path, base, head) ==
    {key \in DOMAIN base \ DOMAIN head : Deletion(Dialect(path), key, Settings(base)[key])}
    \cup Verdicts(path, base, head, "unassessed")
    \cup {line[1] : line \in (UnreadLines(base) \ UnreadLines(head))
                                \cup (UnreadLines(head) \ UnreadLines(base))}

----------------------------------------------------------------------------
(* Coverage exclusions.  An entry of a list is [anchor, tail, negated]: the *)
(* directories before the first wildcard, what follows, and a leading `!`.  *)
(* Tails: "all" is nothing but wildcards, "deep" begins with `**` and goes  *)
(* on, "part" is any other wildcard, "" is none.                            *)

Sense(key) ==
    CASE "exclusion" \in KeySays[key] -> "exclusion"
      [] "exclusion" \notin KeySays[key] /\ "inclusion" \in KeySays[key] -> "inclusion"
      [] OTHER -> "neither"

(* A list stands on its key's line, and an entry in it once: of a list over *)
(* several lines the code takes every line for an exclusion.                *)
EntriesUnder(sense, entries) ==
    {[anchor |-> e.anchor, tail |-> e.tail] :
        e \in {x \in entries : \/ sense = "exclusion" /\ ~x.negated
                               \/ sense = "inclusion" /\ x.negated}}

Exclusions(lists) == UNION {EntriesUnder(Sense(key), lists[key]) : key \in DOMAIN lists}

StrictlyAbove(a, b) == Len(a) < Len(b) /\ SubSeq(b, 1, Len(a)) = a
AllWildcard(pattern) == pattern.anchor = <<>> /\ pattern.tail = "all"

Covers(added, removed) ==
    /\ added # removed
    /\ added.tail \in {"all", "deep"}
    /\ IF added.anchor = <<>> THEN AllWildcard(added) /\ ~AllWildcard(removed)
                              ELSE StrictlyAbove(added.anchor, removed.anchor)

(* One file: how many entries more, what was broadened, what is not ranked. *)
ExclusionRise(base, head) == Cardinality(Exclusions(head)) - Cardinality(Exclusions(base))

Broadened(base, head) ==
    {e \in Exclusions(head) \ Exclusions(base) :
        \E gone \in Exclusions(base) \ Exclusions(head) : Covers(e, gone)}

Unranked(base, head) ==
    IF ExclusionRise(base, head) > 0 THEN {}
    ELSE (Exclusions(head) \ Exclusions(base)) \ Broadened(base, head)

=============================================================================
