------------------------------- MODULE MCFiles -------------------------------
(* Files and its names for model checking: listings, operations and requests  *)
(* are each interchangeable.                                                  *)
EXTENDS Spelling, TLC

Symmetry == Permutations(Lists) \cup Permutations(Ops) \cup Permutations(Requests)
=============================================================================
