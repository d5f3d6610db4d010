------------------------------ MODULE MCAccounts ------------------------------
(* Model checking Accounts: the operations that run together. *)
EXTENDS Accounts, TLC

\* Nothing tells two requests, sessions, addresses or passwords apart.
Symmetry ==
  UNION {Permutations(S) : S \in {Requests, SessionIds, Addresses, Passwords}}

\* Each set is small enough for every interleaving of two requests.
MCWorkloads == {
  {"login", "time"},
  {"login", "password"},
  {"login", "refresh", "delete", "fault"},
  {"login", "profile", "admin"},
  {"profile", "password", "delete"},
  {"profile", "admin", "delete"},
  {"password", "admin"},
  {"refresh", "delete", "team", "time", "fault"},
  {"session", "delete", "time", "fault"}}
===============================================================================
