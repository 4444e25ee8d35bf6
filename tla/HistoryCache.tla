----------------------------- MODULE HistoryCache -----------------------------
(***************************************************************************)
(* Measuring one repository's history from several clones of it, each with *)
(* a cache of windows under its git directory (engines/process: cache.rs;  *)
(* andon-core: cache/store.rs, cache/key.rs).                              *)
(*                                                                         *)
(* A window is keyed by its anchor and by the git that walked, and how     *)
(* much of the history a clone holds is not in the key: clones are cut     *)
(* off, deepened and cut off again while processes measure in them.        *)
(***************************************************************************)
EXTENDS History

CONSTANTS
    Histories,    \* the repositories an instance is about
    Anchors,      \* the commits that are measured
    Depths,       \* the oldest commit a clone may hold; 1 in a complete one
    Clones,
    Processes,
    HomeOf,       \* HomeOf[p]: the clone process p measures in
    MaxFetches,   \* bound: changes of how much a clone holds
    MaxReports    \* bound: finished measurements

ASSUME CacheAssumption ==
    /\ \A h \in Histories : Len(h) > 0 /\ \A i \in DOMAIN h : IsCommit(h[i])
    /\ \A h \in Histories : Anchors \union Depths \subseteq DOMAIN h
    /\ \A h \in Histories, a \in Anchors : DOMAIN h[a].touches # {}
    /\ Anchors \union Depths \subseteq Nat \ {0}
    /\ TheChange \notin Paths
    /\ HomeOf \in [Processes -> Clones]
    /\ MaxFetches \in Nat /\ MaxReports \in Nat

VARIABLES
    history,   \* the repository; never changes
    boundary,  \* the oldest commit each clone holds; 1 if it holds all
    git,       \* the git installed where the clone is; it stays
    store,     \* the windows stored in each clone, by key
    process,   \* what each process is at
    reports,   \* what was measured
    fetches

historyVars == <<history, boundary, git, store, process, reports, fetches>>

Keys == Anchors \X Gits
AtRest == [at |-> "idle"]
Shallow(c) == boundary[c] > 1
Changed(h, anchor) == DOMAIN h[anchor].touches

HistoryTypeOK ==
    /\ history \in Histories
    /\ boundary \in [Clones -> Depths]
    /\ git \in [Clones -> Gits]
    /\ \A c \in Clones : DOMAIN store[c] \subseteq Keys
    /\ \A p \in Processes : process[p].at \in {"idle", "open", "put"}

------------------------------------------------------------------------------
(* cache.rs: an entry answers if it is about the question ...              *)
Describes(w, anchor, g) ==
    w.anchor = anchor /\ w.days = WindowDays /\ w.git = g

(* ... and does not hold less than the clone: answers_this_clone. *)
AnswersThisClone(w, shallow) == ~ w.truncated \/ shallow

(* HistoryCache::key, CacheKey: both endpoints are the anchor. *)
Key(anchor, g) == <<anchor, g>>

------------------------------------------------------------------------------
(* A process opens the repository: the facts of Git::open are read here.   *)
OpenRepository(p, anchor) ==
    LET c == HomeOf[p]
    IN  /\ process[p].at = "idle"
        /\ Cardinality(reports) < MaxReports
        /\ anchor >= boundary[c]
        /\ process' = [process EXCEPT ![p] =
             [at |-> "open", anchor |-> anchor, git |-> git[c], shallow |-> Shallow(c)]]
        /\ UNCHANGED <<history, boundary, git, store, reports, fetches>>

(* What a process reports: the window it got, measured. *)
Report(p, window) ==
    reports \union
      {[home |-> HomeOf[p], opened_shallow |-> process[p].shallow,
        anchor |-> window.anchor, git |-> window.git, truncated |-> window.truncated,
        results |-> MeasuredIn(window, Changed(history, window.anchor))]}

(* load_or_read: does the stored window answer? *)
Answered(m, stored) ==
    LET key == Key(m.anchor, m.git)
    IN  /\ key \in DOMAIN stored
        /\ Describes(stored[key], m.anchor, m.git)
        /\ AnswersThisClone(stored[key], m.shallow)

Serve(p) ==
    LET m == process[p]
        stored == store[HomeOf[p]]
    IN  /\ m.at = "open"
        /\ Answered(m, stored)
        /\ reports' = Report(p, stored[Key(m.anchor, m.git)])
        /\ process' = [process EXCEPT ![p] = AtRest]
        /\ UNCHANGED <<history, boundary, git, store, fetches>>

(* Or HistoryWindow::read, in the clone as it is by now.  (The look into   *)
(* the store comes just before; what others store meanwhile is not read.)  *)
WalkHistory(p) ==
    LET m == process[p]
    IN  /\ m.at = "open"
        /\ ~ Answered(m, store[HomeOf[p]])
        /\ process' = [process EXCEPT ![p] =
             [at |-> "put", anchor |-> m.anchor, git |-> m.git, shallow |-> m.shallow,
              window |-> ReadWindow(history, m.anchor, boundary[HomeOf[p]], m.git,
                                    m.shallow)]]
        /\ UNCHANGED <<history, boundary, git, store, reports, fetches>>

(* CacheStore::put: the rename replaces what another process has put. *)
Stored(stored, key, window) ==
    [k \in DOMAIN stored \union {key} |-> IF k = key THEN window ELSE stored[k]]

Put(p) ==
    LET m == process[p]
        c == HomeOf[p]
        key == Key(m.anchor, m.git)
    IN  /\ m.at = "put"
        /\ store' = [store EXCEPT ![c] = Stored(@, key, m.window)]
        /\ reports' = Report(p, m.window)
        /\ process' = [process EXCEPT ![p] = AtRest]
        /\ UNCHANGED <<history, boundary, git, fetches>>

(* The process dies, or the store refuses the write and the engine fails.  *)
Fail(p) ==
    /\ process[p].at = "put"
    /\ process' = [process EXCEPT ![p] = AtRest]
    /\ UNCHANGED <<history, boundary, git, store, reports, fetches>>

------------------------------------------------------------------------------
(* git fetch --deepen, --unshallow: at any time. *)
Deepen(c, oldest) ==
    /\ fetches < MaxFetches
    /\ oldest < boundary[c]
    /\ boundary' = [boundary EXCEPT ![c] = oldest]
    /\ fetches' = fetches + 1
    /\ UNCHANGED <<history, git, store, process, reports>>

(* git fetch --depth: not while a process measures in the clone. *)
CutOff(c, oldest) ==
    /\ fetches < MaxFetches
    /\ oldest > boundary[c]
    /\ \A p \in Processes : HomeOf[p] = c => process[p].at = "idle"
    /\ boundary' = [boundary EXCEPT ![c] = oldest]
    /\ fetches' = fetches + 1
    /\ UNCHANGED <<history, git, store, process, reports>>

HistoryInit ==
    /\ history \in Histories
    /\ boundary \in [Clones -> Depths]
    /\ git \in [Clones -> Gits]
    /\ store = [c \in Clones |-> <<>>]
    /\ process = [p \in Processes |-> AtRest]
    /\ reports = {}
    /\ fetches = 0

HistoryNext ==
    \/ \E p \in Processes, anchor \in Anchors : OpenRepository(p, anchor)
    \/ \E p \in Processes : Serve(p) \/ WalkHistory(p) \/ Put(p) \/ Fail(p)
    \/ \E c \in Clones, oldest \in Depths : Deepen(c, oldest) \/ CutOff(c, oldest)

HistorySpec == HistoryInit /\ [][HistoryNext]_historyVars

------------------------------------------------------------------------------
(* Two clones of one repository never contradict each other: what two      *)
(* measurements of one commit under one regime say of one metric in one    *)
(* scope is the same, whatever either clone held, fetched or had cached,   *)
(* and those that were not truncated pass as legs of the platform matrix.  *)
(* That is what keeps `compare` from calling an honest change divergent.   *)
HonestPairsAgree ==
    /\ \A a, b \in reports :
         a.anchor = b.anchor /\ SameRegime(a, b) =>
           \A r \in a.results, q \in b.results :
             r.metric = q.metric /\ r.scope = q.scope => r = q
    /\ \A anchor \in Anchors :
         LET legs == {r \in reports : r.anchor = anchor /\ ~ r.truncated}
         IN  legs = {} \/ LegsPass(legs)

(* The commits of the last WindowDays up to the anchor. *)
InWindow(anchor) ==
    {i \in 1 .. anchor :
       history[i].at >= history[anchor].at - WindowDays * SECONDS_PER_DAY}

(* A number is about the whole window: the commits counted for a file are  *)
(* those of the repository that touch it, each once, and a partner that is *)
(* reported missing did change with the file in at least half the commits  *)
(* the two were looked for in -- also where the window was cached by       *)
(* another process, before the clone was cut off or its git replaced.      *)
NumbersAreOfTheWholeWindow ==
    \A report \in {r \in reports : ~ r.truncated} :
        LET window == InWindow(report.anchor)
            of(path) == {k \in window : path \in DOMAIN history[k].touches}
            narrow(path) == {k \in of(path) : Cardinality(DOMAIN history[k].touches)
                                                <= COUPLING_MAX_COMMIT_PATHS}
            partners(path) ==
                {q \in Paths \ Changed(history, report.anchor) :
                   LET both == Cardinality(narrow(path) \cap of(q))
                   IN  both >= COUPLING_MIN_SUPPORT
                       /\ both >= Cardinality(narrow(path) \ of(q))}
        IN  \A r \in report.results :
              /\ r.metric = METRIC_CHURN_COMMITS =>
                   r.value = <<"number", Cardinality(of(r.scope))>>
              /\ r.metric = METRIC_CHANGE_COUPLING /\ r.value[1] = "number" =>
                   r.value[2] = Cardinality(partners(r.scope))

(* A measurement never says less than its clone could witness when it was  *)
(* opened: a window cached while the clone was shallow does not answer     *)
(* after it was deepened.                                                  *)
NeverLessThanTheClone ==
    \A report \in reports : report.truncated => report.opened_shallow

(* Whoever reads a window, cached or walked, sees all of it or says so.    *)
WindowIsWhole == NumbersAreOfTheWholeWindow /\ NeverLessThanTheClone
===============================================================================
