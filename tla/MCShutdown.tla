------------------------------ MODULE MCShutdown ------------------------------
(* Model checking Shutdown: the symmetry of its requests, for safety only. *)
EXTENDS Shutdown, TLC

Symmetry == Permutations(Requests)
===============================================================================
