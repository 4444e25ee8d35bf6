------------------------------- MODULE Clones --------------------------------
(****************************************************************************)
(* What the clone engine finds in a set of files: tokens, rolling window    *)
(* hashes, seeds, extension, the bounded partners of a saturated hash, the  *)
(* groups worth telling and the tokens they cover, and the results that     *)
(* leave the engine (engines/clones/src/{syntax,fingerprint,detect,         *)
(* engine}.rs, andon-core/src/parse_health.rs).                             *)
(*                                                                          *)
(* A source is a sequence of leaves [kind, row]; an entry of the index is   *)
(* [blob, symbols, rows, windows, health].  A path is its place in the      *)
(* order of paths, and 0 is no path.  Windows are numbered from 0, as they  *)
(* are in the code.                                                         *)
(****************************************************************************)
EXTENDS Integers, FiniteSets, Sequences, SequencesExt, FiniteSetsExt

CONSTANTS
    WindowTokens,           \* WINDOW_TOKENS
    MinCloneTokens,         \* MIN_CLONE_TOKENS
    SaturatedOccurrences,   \* SATURATED_OCCURRENCES
    RegionPairBudget,       \* REGION_PAIR_BUDGET
    HashModulus             \* 2^64, small so that windows collide

ASSUME WindowsAssumption ==
    /\ WindowTokens \in Nat \ {0} /\ MinCloneTokens \in Nat /\ MinCloneTokens >= WindowTokens
    /\ HashModulus \in Nat \ {0}

Positive(n) == Max({0, n})

(* A set in order, each element at the place its rank gives it (joined to   *)
(* the empty sequence so that TLC holds the sequence itself).               *)
Sorted(S, Less(_, _)) ==
    <<>> \o [n \in 1..Cardinality(S) |-> CHOOSE a \in S : Cardinality({b \in S : Less(b, a)}) = n - 1]

----------------------------------------------------------------------------
(* Tokens.  Names, numbers and literals collapse to one symbol each,        *)
(* comments and imports are dropped, and a node the parser made up has no   *)
(* bytes.                                                                   *)

DroppedKinds == {"import", "comment", "MISSING"}

LeafSymbol(kind) ==
    CASE kind \in {"identifier", "property_identifier", "type_identifier"} -> 1
      [] kind \in {"number", "integer", "float"}                           -> 2
      [] kind \in {"string", "template_string", "regex"}                   -> 3
      [] kind = "ERROR"                                                    -> 4
      [] kind = "("                                                        -> 5
      [] OTHER                                                             -> 6

TokensOf(source) ==
    LET kept[n \in 0..Len(source)] ==
            IF n = 0 THEN <<>>
            ELSE IF source[n].kind \in DroppedKinds THEN kept[n - 1]
            ELSE Append(kept[n - 1], source[n])
    IN  kept[Len(source)]

(* Counted over the whole tree, the dropped regions included.               *)
HealthOf(source) == Cardinality({i \in DOMAIN source : source[i].kind \in {"ERROR", "MISSING"}})

----------------------------------------------------------------------------
(* The rolling hash over every window, and the hash it must be.             *)

Base == 3
Power[n \in 0..WindowTokens] == IF n = 0 THEN 1 ELSE (Power[n - 1] * Base) % HashModulus

HashOf(symbols) ==
    LET hash[i \in 0..Len(symbols)] ==
            IF i = 0 THEN 0 ELSE (hash[i - 1] * Base + symbols[i]) % HashModulus
    IN  hash[Len(symbols)]

Windows(symbols) ==
    LET roll[i \in 1..(Len(symbols) - WindowTokens + 1)] ==
            IF i = 1 THEN HashOf(SubSeq(symbols, 1, WindowTokens))
            ELSE ((roll[i - 1] - symbols[i - 1] * Power[WindowTokens - 1]) * Base
                    + symbols[i + WindowTokens - 1]) % HashModulus
    IN  roll

----------------------------------------------------------------------------
(* An occurrence is <<file, window>>, a file its place in the sorted paths. *)

Before(a, b) == a[1] < b[1] \/ (a[1] = b[1] /\ a[2] < b[2])
InOrder(S) == Sorted(S, Before)

Slice(symbols, a, len) == SubSeq(symbols[a[1]], a[2] + 1, a[2] + len)

PrecededByAMatch(symbols, a, b) ==
    /\ a[2] > 0 /\ b[2] > 0
    /\ Slice(symbols, <<a[1], a[2] - 1>>, WindowTokens) = Slice(symbols, <<b[1], b[2] - 1>>, WindowTokens)

(* How far two windows agree; a collision agrees in nothing.                *)
Extend(symbols, a, b) ==
    LET room == Min({Len(symbols[a[1]]) - a[2], Len(symbols[b[1]]) - b[2]})
    IN  Max({0} \cup {len \in WindowTokens..room : Slice(symbols, a, len) = Slice(symbols, b, len)})

----------------------------------------------------------------------------
(* A saturated hash: its occurrences (a sequence in order) split into the   *)
(* regions they repeat in, and the few partners each is paired with.        *)

Saturated(occ, cap) == Len(occ) > cap

Stride(occ) ==
    LET gaps == {occ[i + 1][2] - occ[i][2] : i \in {j \in 1..(Len(occ) - 1) : occ[j][1] = occ[j + 1][1]}}
    IN  IF gaps = {} THEN 0 ELSE Min(gaps)

Continues(occ, i) ==
    i > 1 /\ occ[i - 1][1] = occ[i][1] /\ occ[i][2] - occ[i - 1][2] <= Stride(occ)

Regions(occ) == [i \in DOMAIN occ |-> Cardinality({j \in 1..i : ~Continues(occ, j)})]

Members(occ, regions, r) == {i \in DOMAIN occ : regions[i] = r}

EndOf(occ, regions, r) ==
    occ[Max(Members(occ, regions, r))][2] + WindowTokens + Positive(Stride(occ) - 1)

WorkOf(occ, regions, file) ==
    LET mine == {i \in DOMAIN occ : occ[i][1] = file}
    IN  Cardinality(mine) * Positive(Cardinality({regions[i] : i \in mine}) - 1)

OverBudget(occ, budget) ==
    LET regions == Regions(occ)
    IN  {file \in {occ[i][1] : i \in DOMAIN occ} : WorkOf(occ, regions, file) > budget}

Bracket(occ, sorted, at) ==
    LET below == {i \in sorted : occ[i][2] < at}
        above == sorted \ below
    IN  (IF below = {} THEN {} ELSE {Max(below)}) \cup (IF above = {} THEN {} ELSE {Min(above)})

NearestUsable(occ, i) ==
    LET usable == {j \in (i + 1)..Len(occ) :
                      occ[j][1] # occ[i][1] \/ occ[j][2] >= occ[i][2] + MinCloneTokens}
    IN  IF usable = {} THEN {} ELSE {Min(usable)}

(* Laid against each later region of its file, heads together and tails     *)
(* together; against the next one only when the budget is spent.            *)
Aligned(occ, i, truncated) ==
    LET regions == Regions(occ)
        mine    == regions[i]
        head    == Min(Members(occ, regions, mine))
        reach   == Positive(EndOf(occ, regions, mine) - occ[i][2])
        later   == {regions[j] : j \in {k \in DOMAIN occ : occ[k][1] = occ[i][1] /\ regions[k] > mine}}
        walked  == IF truncated THEN later \cap {mine + 1} ELSE later
    IN  UNION {LET members == Members(occ, regions, r)
               IN  Bracket(occ, members, occ[Min(members)][2] + occ[i][2] - occ[head][2])
                   \cup Bracket(occ, members, Positive(EndOf(occ, regions, r) - reach)) : r \in walked}

Crossing(occ, i, tokens) ==
    LET same   == {j \in (i + 1)..Len(occ) : occ[j][1] = occ[i][1]}
        ending == EndOf(occ, Regions(occ), Regions(occ)[i])
    IN  UNION {Bracket(occ, same, occ[i][2] + Positive(limit - occ[i][2]) \div 2) :
                  limit \in {tokens, ending}}

BoundedPartners(occ, i, tokens, truncated) ==
    {j \in NearestUsable(occ, i) \cup Aligned(occ, i, truncated) \cup Crossing(occ, i, tokens) : j > i}

----------------------------------------------------------------------------
(* The search.  A match is [len, at, to]; two places of one file may not    *)
(* overlap, so a clone of itself is as long as its lag at most.             *)

IndexedFiles(index, paths) == Sorted(paths \cap DOMAIN index, <)
SymbolsOf(index, files) == [f \in DOMAIN files |-> index[files[f]].symbols]

Occurrences(index, files, hash) ==
    InOrder(UNION {{<<f, w - 1>> : w \in {v \in DOMAIN index[files[f]].windows :
                                             index[files[f]].windows[v] = hash}} : f \in DOMAIN files})

Hashes(index, files) == UNION {ToSet(index[files[f]].windows) : f \in DOMAIN files}

(* Mutant: the lag does not bound a clone of itself.                        *)
MatchPastItsLag(symbols, a, b) == [at |-> a, to |-> b, len |-> Extend(symbols, a, b)]

Match(symbols, a, b) ==
    LET len == Extend(symbols, a, b)
    IN  [at |-> a, to |-> b, len |-> IF a[1] = b[1] THEN Min({len, b[2] - a[2]}) ELSE len]

Overlapping(a, b) == a[1] = b[1] /\ b[2] < a[2] + WindowTokens

MatchesOf(symbols, occ, cap, budget) ==
    LET saturated == Saturated(occ, cap)
        over      == IF saturated THEN OverBudget(occ, budget) ELSE {}
        Partners(i) == IF saturated
                       THEN BoundedPartners(occ, i, Len(symbols[occ[i][1]]), occ[i][1] \in over)
                       ELSE (i + 1)..Len(occ)
        pairs == UNION {{<<occ[i], occ[j]>> : j \in Partners(i)} : i \in DOMAIN occ}
        fresh == {q \in pairs : ~PrecededByAMatch(symbols, q[1], q[2]) /\ ~Overlapping(q[1], q[2])}
        found == {Match(symbols, q[1], q[2]) : q \in fresh}
    IN  {m \in found : m.len >= MinCloneTokens}

Matches(index, files, cap, budget) ==
    UNION {MatchesOf(SymbolsOf(index, files), Occurrences(index, files, h), cap, budget) :
              h \in Hashes(index, files)}

Truncated(index, files, cap, budget) ==
    UNION {LET occ == Occurrences(index, files, h)
           IN  IF Saturated(occ, cap) THEN OverBudget(occ, budget) ELSE {} : h \in Hashes(index, files)}

(* Matches of one sequence make one group.                                  *)
Groups(symbols, matches) ==
    {[len |-> m.len,
      members |-> UNION {{n.at, n.to} : n \in
                     {o \in matches : o.len = m.len /\ Slice(symbols, o.at, o.len) = Slice(symbols, m.at, m.len)}}] :
        m \in matches}

Span(at, len) == {<<at[1], t>> : t \in at[2]..(at[2] + len - 1)}
CoveredBy(group) == UNION {Span(at, group.len) : at \in group.members}

(* The order the groups compete in: longest first, then by their places.    *)
EarlierPlaces(s, t) ==
    \E i \in 1..(Len(s) + 1) :
        /\ SubSeq(s, 1, i - 1) = SubSeq(t, 1, i - 1)
        /\ \/ i = Len(s) + 1 /\ i <= Len(t)
           \/ i <= Len(s) /\ i <= Len(t) /\ Before(s[i], t[i])

Longer(g, h) ==
    g.len > h.len \/ (g.len = h.len /\ EarlierPlaces(InOrder(g.members), InOrder(h.members)))

(* The groups told: none that would tell a token twice.                     *)
Kept(groups) ==
    LET ordered == Sorted(groups, Longer)
        kept[n \in 0..Len(ordered)] ==
            IF n = 0 THEN <<>>
            ELSE IF CoveredBy(ordered[n]) \cap UNION {CoveredBy(k) : k \in ToSet(kept[n - 1])} = {}
                 THEN Append(kept[n - 1], ordered[n])
                 ELSE kept[n - 1]
    IN  kept[Len(ordered)]

(* The longest unbroken stretch of a set of tokens, the first one on a tie. *)
LongestRun(tokens) ==
    LET runs == {r \in tokens \X tokens : r[1] <= r[2] /\ r[1]..r[2] \subseteq tokens}
        best == {r \in runs : \A q \in runs : q[2] - q[1] <= r[2] - r[1]}
    IN  CHOOSE r \in best : \A q \in best : r[1] <= q[1]

Detect(index, paths, cap, budget) ==
    LET files   == IndexedFiles(index, paths)
        symbols == SymbolsOf(index, files)
        groups  == Groups(symbols, Matches(index, files, cap, budget))
        covered == UNION {CoveredBy(g) : g \in groups}
        Of(f)   == {at[2] : at \in {c \in covered : c[1] = f}}
        Line(f, t) == index[files[f]].rows[t + 1]
    IN  [groups    |-> Kept(groups),
         files     |-> files,
         tokens    |-> [f \in DOMAIN files |-> Len(symbols[f])],
         covered   |-> covered,
         spans     |-> [f \in {g \in DOMAIN files : Of(g) # {}} |->
                          LET run == LongestRun(Of(f)) IN <<Line(f, run[1]), Line(f, run[2])>>],
         truncated |-> Truncated(index, files, cap, budget)]

----------------------------------------------------------------------------
(* The results.  A number over less than it claims is demoted, by the       *)
(* weakest reason, and capped below the band that stops the line.           *)

DuplicatedTokens(report) == Cardinality(report.covered)
TotalTokens(report) == FoldFunction(+, 0, report.tokens)
DuplicatedPermille(report) ==
    IF TotalTokens(report) = 0 THEN 0 ELSE (DuplicatedTokens(report) * 1000) \div TotalTokens(report)
LargestClone(report) == IF report.groups = <<>> THEN 0 ELSE report.groups[1].len

(* The one change-scoped number that is about a place says where.           *)
LargestCloneScope(report) ==
    IF report.groups = <<>> THEN 0 ELSE report.files[InOrder(report.groups[1].members)[1][1]]

Rungs(metric) ==
    CASE metric = "ratio"  -> <<50, 200, 400>>
      [] metric = "groups" -> <<1, 5, 20>>
      [] OTHER             -> <<1, 5 * MinCloneTokens, 20 * MinCloneTokens>>
Severities == <<"info", "low", "medium", "high">>
RungOf(metric, value) == 1 + Cardinality({i \in 1..3 : Rungs(metric)[i] <= value})

WeaknessRank(completeness) ==
    CASE completeness = "unwitnessed" -> 0 [] completeness = "partial" -> 1
      [] completeness = "parse-degraded" -> 2 [] completeness = "complete" -> 3

Ceiling(completeness) == IF completeness = "complete" THEN 4 ELSE 2

Weaker(c, d) == IF WeaknessRank(c) <= WeaknessRank(d) THEN c ELSE d

Result(metric, path, value, degraded, sampled) ==
    LET completeness == Weaker(IF degraded THEN "parse-degraded" ELSE "complete",
                               IF sampled THEN "partial" ELSE "complete")
    IN  [metric |-> metric, path |-> path, value |-> value, completeness |-> completeness,
         severity |-> Severities[Min({RungOf(metric, value), Ceiling(completeness)})]]

Measure(index, report) ==
    LET degraded == {p \in DOMAIN index : index[p].health > 0}
        Change(metric, path, value) ==
            Result(metric, path, value, degraded # {}, report.truncated # {})
        File(f) ==
            Result("file", report.files[f], Cardinality({c \in report.covered : c[1] = f}),
                   report.files[f] \in degraded, f \in report.truncated)
    IN  {Change("tokens", 0, DuplicatedTokens(report)),
         Change("ratio", 0, DuplicatedPermille(report)),
         Change("groups", 0, Len(report.groups)),
         Change("largest", LargestCloneScope(report), LargestClone(report))}
        \cup {File(f) : f \in DOMAIN report.files}

=============================================================================
