---------------------------- MODULE AgentSurface ----------------------------
(***************************************************************************)
(* What an agent is heard (crates/andon-mcp/src/lib.rs, render/mod.rs and    *)
(* schema/agent_profile.rs): the MCP server measures, saves and records as  *)
(* well as it can, and answers with a view of the record cut to the budget  *)
(* the policy sets.  Its tools run one at a time, while other commands      *)
(* measure in the same checkout and somebody edits the policy.              *)
(*                                                                         *)
(* A text is its length in bytes; the header of a profile, the fields of a  *)
(* reason and those of a finding have the same length in every record.      *)
(***************************************************************************)
EXTENDS Integers, Sequences, FiniteSets, FiniteSetsExt

CONSTANTS
    Records,     \* what a measurement may find
    Budgets,     \* [agent] profile_token_budget in bytes; 0: unreadable policy
    DEFAULT_BUDGET,
    HEADER,      \* bytes of a profile without reasons or findings
    REASON,      \* bytes of a reason beside its message
    FINDING,     \* bytes of a finding beside its scope
    MaxReasons, MaxFindings, MaxHint,
    HEADLINE,    \* bytes of the line that says how many commits there are
    NOTICE,      \* bytes of the line that says how many lines were cut
    MaxCalls     \* bound: tools called, and what other commands did

\* A reason or a finding: codes and metric names stand in their order, the
\* text that is cut (a reason's message, a finding's scope) for its length.
Items == [code : Nat, severity : Nat, message : Nat]

ASSUME SurfaceAssumption ==
    /\ \A record \in Records :
        /\ record.unread \in Nat /\ record.line \in Nat
        /\ record.reasons \in Seq(Items) /\ record.results \in Seq(Items)
    /\ Budgets \subseteq Nat /\ DEFAULT_BUDGET \in Nat
    /\ {HEADER, FINDING, MaxReasons, MaxFindings, MaxHint, HEADLINE, NOTICE} \subseteq Nat
    /\ REASON \in Nat \ {0}

VARIABLES
    saved,       \* last-measure.json
    ledger,      \* the records of the ledger, one to a commit
    budget,
    call,        \* the tool under way: where it is and what it holds
    heard,       \* what the agent was last told
    remembered,  \* history: the record measure_change last heard of, as long
                 \* as it was saved without a notice and nobody measured since
    calls

surfaceVars == <<saved, ledger, budget, call, heard, remembered, calls>>

NoRecord == [verdict |-> "none"]
NoCall == [at |-> "none"]
Refusal == [kind |-> "refusal"]

Capped(n, cap) == IF n <= cap THEN n ELSE cap
Total(sizes) ==
    LET sum[n \in 0 .. Len(sizes)] == IF n = 0 THEN 0 ELSE sum[n - 1] + sizes[n]
    IN  sum[Len(sizes)]

(***************************************************************************)
(* build_agent_profile: reasons first, then findings, each worst first and  *)
(* only as long as the whole still fits.                                    *)
(***************************************************************************)
WorstFirst(items) ==
    LET before(j) ==
            {i \in DOMAIN items :
                \/ items[i].severity > items[j].severity
                \/ /\ items[i].severity = items[j].severity
                   /\ \/ items[i].code < items[j].code
                      \/ items[i].code = items[j].code /\ i < j}
    IN  [n \in DOMAIN items |->
            items[CHOOSE j \in DOMAIN items : Cardinality(before(j)) = n - 1]]

ReasonSizes(reasons) ==
    [n \in DOMAIN reasons |-> REASON + Capped(reasons[n].message, MaxHint)]
FindingSizes(findings) ==
    [n \in DOMAIN findings |-> FINDING + Capped(findings[n].message, MaxHint)]

\* Those of the items that fit, passing over the ones that do not.
PassOver(items, sizes, room) ==
    LET kept[n \in 0 .. Len(items)] ==
            IF n = 0 THEN <<>>
            ELSE LET before == kept[n - 1]
                     used == Total([k \in DOMAIN before |-> sizes[before[k]]])
                 IN  IF used + sizes[n] <= room THEN Append(before, n) ELSE before
        last == kept[Len(items)]
    IN  [k \in DOMAIN last |-> items[last[k]]]

\* At most so many of them, up to the first that does not fit.  Mutant: a
\* shorter one may follow it.
TakePassingOver(items, sizes, room, most) ==
    PassOver(SubSeq(items, 1, Capped(Len(items), most)), sizes, room)
Take(items, sizes, room, most) ==
    SubSeq(items, 1, Max({n \in 0..Capped(Len(items), most) :
                            n > 0 => Total(SubSeq(sizes, 1, n)) <= room}))

StoredVerdictIsContradicted(record) == record.unread > 0 /\ record.verdict = "pass"

BuildAgentProfile(record, bytes) ==
    LET reasons == WorstFirst(record.reasons)
        findings == WorstFirst(record.results)
        kept == Take(reasons, ReasonSizes(reasons), bytes - HEADER, MaxReasons)
        used == HEADER + Total(ReasonSizes(kept))
        shown == Take(findings, FindingSizes(findings), bytes - used, MaxFindings)
    IN  [verdict |-> record.verdict, verdict_invalid |-> StoredVerdictIsContradicted(record),
         reasons |-> kept, total_reasons |-> Len(reasons),
         findings |-> shown, total_findings |-> Len(findings),
         truncated |-> Len(kept) < Len(reasons) \/ Len(shown) < Len(findings)]

EncodedLen(profile) ==
    HEADER + Total(ReasonSizes(profile.reasons))
           + Total(FindingSizes(profile.findings))

\* render::profile reads the policy of the working tree, again.
Profile(record) ==
    IF budget = 0 THEN Refusal
    ELSE [kind |-> "profile", of |-> record, within |-> budget,
          view |-> BuildAgentProfile(record, budget)]

-----------------------------------------------------------------------------
SurfaceInit ==
    /\ saved = NoRecord /\ ledger = <<>>
    /\ budget \in Budgets \ {0}
    /\ call = NoCall /\ heard = Refusal
    /\ remembered = NoRecord
    /\ calls = 0

Called ==
    /\ call = NoCall
    /\ calls < MaxCalls
    /\ calls' = calls + 1

\* measure_change, up to the measurement it reached.
MeasureChange(record) ==
    /\ Called
    /\ IF budget = 0 THEN heard' = Refusal /\ call' = call
       ELSE heard' = heard /\ call' = [at |-> "save", record |-> record]
    /\ UNCHANGED <<saved, ledger, budget, remembered>>

\* Two writes, each of which may fail, with a notice.
SaveMeasured ==
    /\ call.at = "save"
    /\ \/ /\ saved' = call.record
          /\ call' = [call EXCEPT !.at = "record"]
          /\ remembered' = call.record
       \/ /\ UNCHANGED saved
          /\ call' = [call EXCEPT !.at = "record"]
          /\ remembered' = NoRecord
    /\ UNCHANGED <<ledger, budget, heard, calls>>

RecordMeasured ==
    /\ call.at = "record"
    /\ call' = [call EXCEPT !.at = "answer"]
    /\ \/ ledger' = Append(ledger, call.record)
       \/ UNCHANGED ledger
    /\ UNCHANGED <<saved, budget, heard, remembered, calls>>

AnswerMeasured ==
    /\ call.at = "answer"
    /\ heard' = Profile(call.record)
    /\ call' = NoCall
    /\ UNCHANGED <<saved, ledger, budget, remembered, calls>>

\* get_results; last_record.
GetResults ==
    /\ Called
    /\ heard' = IF saved = NoRecord THEN Refusal ELSE Profile(saved)
    /\ UNCHANGED <<saved, ledger, budget, call, remembered>>

\* await_results: what was deferred, if anything, is completed and merged
\* (AsyncLane), then the record is read again.
AwaitResults(completed) ==
    /\ Called
    /\ saved' = completed
    /\ remembered' = IF completed = saved THEN remembered ELSE NoRecord
    /\ heard' = IF saved' = NoRecord THEN Refusal ELSE Profile(saved')
    /\ UNCHANGED <<ledger, budget, call>>

\* One line for each commit, after one with their number; the length of a line
\* counts its newline.
Listing == <<HEADLINE>> \o [n \in DOMAIN ledger |-> ledger[n].line]

\* Room is left for the line that says how many were cut.
BoundedListing(lines, bytes) ==
    LET kept == PassOver(lines, lines, bytes - bytes \div 10)
    IN  IF Total(lines) <= bytes THEN [lines |-> lines, dropped |-> 0]
        ELSE [lines |-> Append(kept, NOTICE), dropped |-> Len(lines) - Len(kept)]

\* get_ledger; a policy that cannot be read is the default one.
GetLedger ==
    /\ Called
    /\ LET bytes == IF budget = 0 THEN DEFAULT_BUDGET ELSE budget IN
       heard' = [kind |-> "listing", of |-> Listing, within |-> bytes,
                view |-> BoundedListing(Listing, bytes)]
    /\ UNCHANGED <<saved, ledger, budget, call, remembered>>

\* Another command of this checkout measures; somebody edits the policy.
OtherMeasures(record) ==
    /\ calls < MaxCalls
    /\ calls' = calls + 1
    /\ saved' = record
    /\ ledger' = Append(ledger, record)
    /\ remembered' = NoRecord
    /\ UNCHANGED <<budget, call, heard>>

EditPolicy(bytes) ==
    /\ calls < MaxCalls
    /\ bytes # budget
    /\ budget' = bytes
    /\ calls' = calls + 1
    /\ UNCHANGED <<saved, ledger, call, heard, remembered>>

SurfaceNext ==
    \/ \E record \in Records : MeasureChange(record)
    \/ SaveMeasured
    \/ RecordMeasured
    \/ AnswerMeasured
    \/ GetResults
    \/ \E completed \in Records \cup {saved} : saved # NoRecord /\ AwaitResults(completed)
    \/ GetLedger
    \/ \E record \in Records : OtherMeasures(record)
    \/ \E bytes \in Budgets : EditPolicy(bytes)

SurfaceSpec == SurfaceInit /\ [][SurfaceNext]_surfaceVars

-----------------------------------------------------------------------------
AsSevere(items, severity) == Cardinality({n \in DOMAIN items : items[n].severity = severity})

\* Nothing was left out that is worse than something that is there.
KeepsTheWorst(kept, items) ==
    \A k \in DOMAIN kept, n \in DOMAIN items :
        items[n].severity > kept[k].severity =>
            AsSevere(kept, items[n].severity) = AsSevere(items, items[n].severity)

(* Whatever a record holds and whoever edits the policy meanwhile, the      *)
(* profile fits the budget it was built for and keeps the worst of the      *)
(* reasons and of the findings; where the budget cut a reason, all findings *)
(* that are there take less than it would have; it says when it left        *)
(* something out and when the stored verdict is not to be believed; a       *)
(* listing accounts for every line and fits with its notice; and what the   *)
(* agent reads again is what it was told, unless it was told that nothing   *)
(* was saved, or another command measured since (agent_profile.rs,          *)
(* build_agent_profile; andon-mcp, lib.rs).                                 *)
AgentIsToldTheWorst ==
    /\ heard.kind = "profile" =>
        LET view == heard.view IN
        /\ EncodedLen(view) <= heard.within \/ view.reasons \o view.findings = <<>>
        /\ KeepsTheWorst(view.reasons, heard.of.reasons)
        /\ KeepsTheWorst(view.findings, heard.of.results)
        /\ Len(view.reasons) < Capped(view.total_reasons, MaxReasons) =>
               Total(FindingSizes(view.findings))
                   < ReasonSizes(WorstFirst(heard.of.reasons))[Len(view.reasons) + 1]
        /\ view.truncated <=> \/ Len(view.reasons) < Len(heard.of.reasons)
                             \/ Len(view.findings) < Len(heard.of.results)
        /\ view.verdict = "pass" /\ ~ view.verdict_invalid => heard.of.unread = 0
        /\ remembered # NoRecord /\ call = NoCall => heard.of = remembered
    /\ heard.kind = "listing" =>
        /\ heard.view.dropped = 0 => heard.view.lines = heard.of
        /\ heard.view.dropped > 0 =>
               /\ Len(heard.view.lines) - 1 + heard.view.dropped = Len(heard.of)
               /\ NOTICE <= heard.within \div 10 => Total(heard.view.lines) <= heard.within
=============================================================================
