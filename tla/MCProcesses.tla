---------------------------- MODULE MCProcesses ----------------------------
(***************************************************************************)
(* Processes that may die at any moment: two that call the iteration       *)
(* counter; or one that runs suites in the sandbox, with two helpers (one  *)
(* can leave the tree and start another) and two rooms (so that a suite    *)
(* meets what a dead one left); or two that share the clone index, one of  *)
(* an older build, over a file that is edited and one that is renamed, and *)
(* without an index over file sets chosen for the search: copies across    *)
(* files, repetition in one, repetition interrupted.  A behaviour is of    *)
(* one of the three, which share nothing.                                  *)
(***************************************************************************)
EXTENDS IterationCounter, Sandbox, CloneIndex

Kind(c) == CASE c = 1 -> "identifier" [] c = 2 -> "number" [] c = 3 -> "string"
             [] c = 4 -> "ERROR" [] c = 5 -> "(" [] c = 6 -> "keyword"
             [] c = 7 -> "comment" [] c = 8 -> "MISSING"
Leaves(cs) == [i \in DOMAIN cs |-> [kind |-> Kind(cs[i]), row |-> (i - 1) \div 2]]

Texts ==
    [first    |-> <<1, 5, 2, 7, 3>>,      edited  |-> <<1, 5, 2, 6>>,
     helper   |-> <<6, 1, 5, 2, 3>>,      user    |-> <<2, 2, 6, 1, 5, 2, 3, 1>>,
     other    |-> <<3, 1, 5, 2, 6>>,      broken  |-> <<4, 1, 5, 2, 8>>,
     colliding |-> <<2, 1, 5, 6, 2, 3, 3, 1, 1>>,
     table    |-> <<1, 2, 1, 2, 1, 2, 1, 2, 1, 2>>,
     rows     |-> <<1, 1, 1, 1, 1, 1, 1, 1, 1>>,
     twoTables |-> <<1, 2, 1, 2, 1, 2, 3, 1, 2, 1, 2, 1, 2>>,
     threeTables |-> <<1, 1, 1, 5, 1, 1, 1, 1, 6, 1, 1, 1, 1, 1>>,
     apart    |-> <<1, 1, 1, 1, 5, 1, 1, 6, 1, 1, 3, 1, 1, 1, 1>>,
     tight    |-> <<1, 5, 1, 5, 1>>,      short   |-> <<1>>,    empty |-> <<7>>]

MCSources == [blob \in DOMAIN Texts |-> Leaves(Texts[blob])]
MCSymbol(regime, kind) == IF regime = "old" /\ kind = "number" THEN 1 ELSE LeafSymbol(kind)
MCReadable(path) == path # 9

MCBuilds == {[version |-> 2, regime |-> "new"], [version |-> 2, regime |-> "old"]}
MCTrees  == {1 :> "first" @@ 2 :> "helper", 1 :> "edited" @@ 3 :> "helper"}

One(blob) == 1 :> blob
Two(a, b) == 1 :> a @@ 2 :> b
MCCorpus ==
    {One(b) : b \in {"table", "rows", "twoTables", "threeTables", "apart", "tight", "short", "empty"}}
    \cup {Two(a, b) : a \in {"helper", "first", "colliding"}, b \in {"user", "other", "broken"}}
    \cup {Two("threeTables", "rows"), Two("apart", "twoTables"), Two("colliding", "apart")}
    \cup {1 :> "helper" @@ 2 :> "user" @@ 3 :> "helper" @@ 9 :> "user"}

-----------------------------------------------------------------------------
VARIABLE part    \* "counter", "suite" or "index"

allVars == <<part, vars, sandboxVars, indexVars>>

OfCounter(Action) == part = "counter" /\ Action /\ UNCHANGED <<part, sandboxVars, indexVars>>
OfSuite(Action)   == part = "suite" /\ Action /\ UNCHANGED <<part, vars, indexVars>>
OfIndex(Action)   == part = "index" /\ Action /\ UNCHANGED <<part, vars, sandboxVars>>

ProcessesInit ==
    /\ part \in {"counter", "suite", "index"} /\ Init /\ SandboxInit /\ IndexInit
    /\ part # "suite" => os = "unix"
    /\ part # "counter" => usable
    /\ part # "index" => program = [p \in Programs |-> Asleep]
ProcessesNext == OfCounter(Next) \/ OfSuite(SandboxNext) \/ OfIndex(IndexNext)

(* The fairness of the two specifications.                                 *)
ProcessesFairSpec ==
    /\ ProcessesInit /\ [][ProcessesNext]_allVars
    /\ \A p \in Procs : WF_allVars(OfCounter(Step(p)))
    /\ WF_allVars(OfSuite(Measuring))
    /\ WF_allVars(OfSuite(DeadlinePasses))
    /\ WF_allVars(OfSuite(GracePasses))
    /\ \A p \in Processes : WF_allVars(OfSuite(Dies(p)))
    /\ \A p \in Programs : WF_allVars(OfIndex(Run(p) \/ Steps(p)))
    /\ WF_allVars(OfIndex(TimePasses))

(* In a run of the index it is published again and again, whoever dies with *)
(* its lock (index.rs, LOCK_STALE).                                        *)
IndexNeverWedged == part = "index" => NeverWedged

=============================================================================
