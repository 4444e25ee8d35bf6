-------------------------- MODULE MCMeasuredRange --------------------------
(***************************************************************************)
(* Two paths, the second one the policy file, five commits and a handful   *)
(* of repositories: a feature branch that renamed each path onto the       *)
(* other's side of the order, one with a staged mode change, one checked   *)
(* out with CRLF, an unborn HEAD, a shallow clone, an unrelated upstream,  *)
(* a detached root, a merge half done.                                     *)
(***************************************************************************)
EXTENDS MeasuredRange

a == <<"a", "lf", "100644">>
b == <<"b", "lf", "100644">>
aCRLF == <<"a", "crlf", "100644">>
aExec == <<"a", "lf", "100755">>

Both(x, y) == [p \in {1, 2} |-> IF p = 1 THEN x ELSE y]

MCCommits == {"root", "main", "up", "down", "other"}
MCParentOf == [c \in MCCommits |->
    CASE c \in {"root", "other"} -> "none" [] OTHER -> "root"]
\* up renames 1 to 2, main holds both, down (beside them) has only 2.
MCTreeOf == [c \in MCCommits |->
    CASE c = "root"  -> Both(a, Absent)
      [] c = "main"  -> Both(a, b)
      [] c = "up"    -> Both(Absent, a)
      [] c = "down"  -> Both(b, aExec)
      [] c = "other" -> Both(Absent, b)]

At(head, refs) ==
    [head |-> head, refs |-> refs, shallow |-> {}, operation |-> "none",
     unmerged |-> {},
     index |-> IF head = "none" THEN Both(Absent, Absent) ELSE MCTreeOf[head],
     disk |-> IF head = "none" THEN Both(Absent, Absent) ELSE MCTreeOf[head]]

NoRefs == [r \in {"HEAD"} |-> "none"]
Trunk(c) == [r \in {"main"} |-> c]

MCWorlds ==
    {At("up", Trunk("root")), At("main", Trunk("main")), At("down", NoRefs),
     At("root", [r \in {"develop"} |-> "main"]), At("none", NoRefs),
     [At("up", [r \in {"@{upstream}", "main"} |->
                  IF r = "main" THEN "main" ELSE "other"])
        EXCEPT !.index = Both(Absent, aExec)],
     [At("root", Trunk("root")) EXCEPT !.index = Both(a, b), !.disk = Both(a, b)],
     [At("main", Trunk("main")) EXCEPT !.shallow = {"main"}],
     [At("main", Trunk("root")) EXCEPT !.disk = Both(aCRLF, b)],
     [At("down", NoRefs) EXCEPT !.operation = "merge", !.unmerged = {1}]}

MCFiles == {a, b, aCRLF, aExec}

Ask == NoRequest
MCRequests ==
    {Ask, [Ask EXCEPT !.no_fallback = TRUE], [Ask EXCEPT !.last_merged = TRUE],
     [Ask EXCEPT !.self_measure = TRUE],
     [Ask EXCEPT !.base = <<"rev", "up">>, !.self_measure = TRUE],
     [Ask EXCEPT !.base = <<"rev", "main">>],
     [Ask EXCEPT !.base = <<"merge-base", "main">>],
     [Ask EXCEPT !.head = "up"]}
=============================================================================
