------------------------------- MODULE MCStartup -------------------------------
(* Model checking Startup: PIDs and keys are only compared. *)
EXTENDS Startup, TLC

Symmetry == Permutations(Pids) \cup Permutations(Keys)

\* A file that sets everything, and one that leaves out half of each kind.
MCAdminFiles == {
  [field \in Restored \cup LeftAsRead |-> "set"],
  [field \in Restored \cup LeftAsRead |->
     IF field \in {"Server.Address", "Secrets.Versioning", "Web.UI.Theme"} THEN "zero" ELSE "set"]}
================================================================================
