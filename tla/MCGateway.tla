----------------------------- MODULE MCGateway -----------------------------
(* Gateway on small sets of requests, hosts and keys. *)
EXTENDS Gateway, TLC

Symmetry == Permutations(Requests) \cup Permutations(Hosts) \cup Permutations(Keys)
=============================================================================
