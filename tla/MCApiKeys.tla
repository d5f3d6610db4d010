------------------------------ MODULE MCApiKeys ------------------------------
(* Model checking ApiKeys: rows and request slots are interchangeable. *)
EXTENDS ApiKeys, TLC

Symmetry == Permutations(Keys) \cup Permutations(Requests)
=============================================================================
