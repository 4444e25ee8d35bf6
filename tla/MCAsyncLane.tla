------------------------------ MODULE MCAsyncLane ------------------------------
(* Small instances of AsyncLane. *)
EXTENDS AsyncLane, TLC

CONSTANTS p1, p2, c1, c2, lane, suite, off, static, clones, artifacts, tests

MCContent == <<static>>

Symmetry == Permutations(Procs) \union Permutations(Changes)
=============================================================================
