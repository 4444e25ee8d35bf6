------------------------------- MODULE MCLedger -------------------------------
(***************************************************************************)
(* The notes: how clones and a remote carry them, and what a verifier      *)
(* makes of those on one head.  A behaviour is of one of the two.          *)
(***************************************************************************)
EXTENDS MCNotesLedger, Verifier

VARIABLE part    \* "refs" or "verifier"

(***************************************************************************)
(* The reports a verifier meets.                                           *)
(***************************************************************************)
Result(key, regime, digest, det) ==
    [key |-> key, regime |-> regime, digest |-> digest, deterministic |-> det]

(* x is deterministic for the verifier, z is not or is. *)
MCRecomputes ==
    {{Result("x", "v1", "d1", TRUE), Result("z", "v1", "d1", det)} :
        det \in BOOLEAN}

ReportOn(base, atHead, committed, readable, results) ==
    [base |-> base, atHead |-> atHead, committed |-> committed,
     readable |-> readable, results |-> results]

Claims == {Result("x", "v1", "d1", TRUE), Result("x", "v1", "d2", FALSE),
           Result("x", "v2", "d1", TRUE), Result("z", "v1", "d1", FALSE),
           Result("z", "v1", "d2", TRUE)}

(* Reports on the right change with a result for each key or not, and      *)
(* complete or outdated ones that are wrong about the change.              *)
MCReports ==
    {ReportOn("fork", TRUE, TRUE, TRUE, R) : R \in {S \in SUBSET Claims :
                                                \A r, s \in S : r.key = s.key => r = s}}
    \union {ReportOn(b, TRUE, TRUE, TRUE, {Result("x", "v1", "d1", TRUE)}) :
              b \in {"older", "newer", "inner", "stray", "unknown"}}
    \union {ReportOn(b, TRUE, b = "older", TRUE, {Result("x", "v2", "d1", TRUE)}) :
              b \in {"older", "stray"}}
    \union {ReportOn("fork", FALSE, TRUE, TRUE, {Result("x", "v1", "d2", TRUE)}),
            ReportOn("fork", TRUE, FALSE, TRUE, {Result("x", "v1", "d1", TRUE)}),
            ReportOn("fork", TRUE, TRUE, FALSE, {})}

------------------------------------------------------------------------------
notesVars == <<part, vars, verifierVars>>

NotesInit ==
    /\ part \in {"refs", "verifier"} /\ Init /\ VerifierInit
    /\ part = "refs" => recompute = CHOOSE r \in Recomputes : TRUE
NotesNext ==
    \/ part = "refs" /\ Next /\ UNCHANGED <<part, verifierVars>>
    \/ part = "verifier" /\ VerifierNext /\ UNCHANGED <<part, vars>>

NotesSpec == NotesInit /\ [][NotesNext]_notesVars
==============================================================================
