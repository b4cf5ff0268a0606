----------------------------- MODULE MCFileApps -----------------------------
(* FileApps for model checking: loads and saves are interchangeable.         *)
EXTENDS FileApps, TLC

Symmetry == Permutations(Loads) \cup Permutations(Saves)
=============================================================================
