---------------------------- MODULE MCVerdictLoop ----------------------------
(***************************************************************************)
(* What a measurement has from those before it: the branch's count and the *)
(* last record of the loop, and the cached windows of git's history.  A    *)
(* behaviour is of one of the two, which share nothing.                    *)
(***************************************************************************)
EXTENDS VerdictLoop, HistoryCache, TLC

VARIABLE part    \* "loop" or "history"

CONSTANTS static, tamper, artifacts, tests,      \* engines
          size, hotspot, removal, cargo, nothing \* metrics; two test commands

Metric(engine, kind, tier, class, rungs) ==
    [engine |-> engine, kind |-> kind, tier |-> tier, class |-> class,
     rungs |-> {[at |-> r[1], severity |-> r[2]] : r \in rungs}]

MCAbout ==
    size    :> Metric(static, "metric", "B", "actionable", {<<1, Low>>, <<2, High>>})
 @@ hotspot :> Metric(artifacts, "metric", "C", "context", {<<1, High>>})
 @@ removal :> Metric(tamper, "signal", "N", "actionable", {<<1, High>>})
 @@ cargo   :> Metric(tests, "suite", "N", "actionable", {<<1, Critical>>})
 @@ nothing :> Metric(tests, "suite", "N", "actionable", {<<1, Critical>>})

MCContentEngines == <<static, tamper>>

(* Policies. *)
Default ==
    [block_on_tamper |-> TRUE, block_on_test_failure |-> TRUE,
     max_severity_for_c_tier |-> Low, med_plus_requires_diff_actionable |-> TRUE,
     med_plus_tiers |-> {"A", "B"}, iteration_cap |-> 1,
     count_context_informational |-> FALSE, enabled |-> FALSE,
     test_command |-> NoCommand]
Lax == [Default EXCEPT !.block_on_tamper = FALSE]
Bare == [Default EXCEPT !.med_plus_tiers = {"A", "C"}]
Strict == [Default EXCEPT !.max_severity_for_c_tier = High, !.iteration_cap = 0,
                          !.med_plus_requires_diff_actionable = FALSE,
                          !.med_plus_tiers = {"A", "B", "C"}]
Lane == [Default EXCEPT !.enabled = TRUE]
Suite == [Lane EXCEPT !.test_command = cargo]
Sham == [Lane EXCEPT !.test_command = nothing]
Patient == [Suite EXCEPT !.iteration_cap = 2, !.block_on_test_failure = FALSE]

(* Findings. *)
Whole(value) == [value |-> value, completeness |-> "Complete"]
Torn(value) == [value |-> value, completeness |-> "ParseDegraded"]
Clean == [m \in Metrics |-> Whole(0)]
Small == [Clean EXCEPT ![size] = Whole(1)]
Large == [Clean EXCEPT ![size] = Whole(3)]
Hot == [Clean EXCEPT ![hotspot] = Whole(1)]
Torn0 == [Clean EXCEPT ![removal] = Torn(0)]
Torn1 == [Clean EXCEPT ![removal] = Torn(1)]
Failing == [Clean EXCEPT ![cargo] = Whole(1)]
Unseen == [Clean EXCEPT ![hotspot] = [value |-> Absent, completeness |-> "Unwitnessed"]]

(* Changes. *)
Change(before, after, found) ==
    [before |-> before, after |-> after, found |-> found,
     unread |-> FALSE, committed |-> FALSE]
Committed(change) == [change EXCEPT !.committed = TRUE]
Unread(change) == [change EXCEPT !.unread = TRUE]

MCOf == <<
    Change(Default, Default, Unseen), Unread(Change(Default, Default, Clean)),
    Change(Default, Default, Torn0), Committed(Change(Suite, Suite, Small)),
    Change(Default, Lax, Torn1), Change(Default, Bare, Large),
    Change(Default, Strict, Hot), Change(Strict, Sham, Failing),
    Change(Suite, Patient, Failing), Change(Lane, Suite, Failing) >>
MCChanges == DOMAIN MCOf
MCWorktree == {Default, Suite}

(***************************************************************************)
(* A clone with two processes and another with one; histories with a       *)
(* commit outside the window, one just inside it, a sweeping commit, a     *)
(* clock that runs ahead, a binary file, and a path whose name holds the   *)
(* byte that separates commits.                                            *)
(***************************************************************************)
CONSTANTS agent, hook, verifier

MCPaths == {"a", "b", "c"}
MCSpelling == ("a" :> <<<<"a", 0>>, Tab, Newline>>)
           @@ ("b" :> <<<<"b", 0>>, Mark, Oid(2)>>)
           @@ ("c" :> <<<<"c", 0>>>>)
MCSlop == ("git2.39" :> 0) @@ ("git2.45" :> 5)
MCComplexity == [p \in {"a"} |-> 7]
MCHomeOf == (agent :> "dev") @@ (hook :> "dev") @@ (verifier :> "ci")

Day == SECONDS_PER_DAY
Text(n) == [text |-> TRUE, lines |-> n]
Commit(when, author, touches) == [at |-> when, author |-> author, touches |-> touches]
A == "a" :> Text(1)
AB == ("a" :> Text(2)) @@ ("b" :> Binary)
ABC == ("a" :> Text(3)) @@ ("b" :> Text(1)) @@ ("c" :> Text(4))
B == "b" :> Binary

(* The last two commits are the ones measured; the window is ten days. *)
MCHistories ==
    {<<Commit(Day, 1, AB), Commit(t, 2, AB), Commit(8 * Day, 2, ABC), Commit(12 * Day, 1, A)>> :
       t \in {2 * Day - 3, 13 * Day}}
    \union
    {<<Commit(Day, 1, ABC), Commit(2 * Day, 2, AB), Commit(8 * Day, 1, AB), Commit(12 * Day, 1, v)>> :
       v \in {A, B}}
MCAnchors == {4}

------------------------------------------------------------------------------
Symmetry == Permutations({agent, hook})

feedbackVars == <<part, vars, historyVars>>

\* Its variables in a behaviour of the other part.
NobodyLooksBack ==
    /\ history = CHOOSE h \in Histories : TRUE
    /\ boundary = [c \in Clones |-> CHOOSE d \in Depths : TRUE]
    /\ git = [c \in Clones |-> CHOOSE g \in Gits : TRUE]

FeedbackInit ==
    /\ part \in {"loop", "history"} /\ Init /\ HistoryInit
    /\ part = "loop" => NobodyLooksBack
FeedbackNext ==
    \/ part = "loop" /\ Next /\ UNCHANGED <<part, historyVars>>
    \/ part = "history" /\ HistoryNext /\ UNCHANGED <<part, vars>>

FeedbackSpec == FeedbackInit /\ [][FeedbackNext]_feedbackVars
==============================================================================
