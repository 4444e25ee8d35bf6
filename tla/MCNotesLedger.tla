---------------------------- MODULE MCNotesLedger ----------------------------
(* Small instances of NotesLedger. *)
EXTENDS NotesLedger, TLC

Symmetry == Permutations(Clones) \union Permutations(Records)
==============================================================================
