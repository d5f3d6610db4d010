------------------------------- MODULE MCTeams -------------------------------
(* Model checking Teams: the symmetries of its model values. *)
EXTENDS Teams, TLC

\* Users and request slots are interchangeable: roles are all that tells users apart.
Symmetry == Permutations(Users) \cup Permutations(Requests)
=============================================================================
