---------------------------- MODULE MCSecretStore ----------------------------
(* Model checking SecretStore: the symmetries of its model values. *)
EXTENDS SecretStore, TLC

\* Request slots are interchangeable, and so are values: nothing compares them.
Symmetry == Permutations(Requests) \cup Permutations(Values)
=============================================================================
