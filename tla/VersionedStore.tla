---------------------------- MODULE VersionedStore ----------------------------
(***************************************************************************)
(* What README promises of a secret: "Full version history with rollback   *)
(* capability".  A secret is the sequence of the contents it has had, the  *)
(* last one being the current one; an update and a rollback add one, and   *)
(* only a purge takes any away.                                            *)
(***************************************************************************)
EXTENDS Naturals, Sequences

CONSTANTS Secrets, Payload, Patched(_, _)  \* Patched(old, patch): an update's content

VARIABLES
  state,  \* "free", "live", "deleted" or "gone"
  log     \* the contents of each secret, oldest first

Init ==
  /\ state = [s \in Secrets |-> "free"]
  /\ log = [s \in Secrets |-> <<>>]

Append1(s, p) == log' = [log EXCEPT ![s] = Append(@, p)]

New(s, p) ==
  /\ state[s] = "free"
  /\ state' = [state EXCEPT ![s] = "live"]
  /\ Append1(s, p)

Update(s, patch) ==
  /\ state[s] = "live"
  /\ Append1(s, Patched(log[s][Len(log[s])], patch))
  /\ UNCHANGED state

Rollback(s, v) ==
  /\ state[s] = "live"
  /\ Append1(s, log[s][v])
  /\ UNCHANGED state

Delete(s) ==
  /\ state[s] = "live"
  /\ state' = [state EXCEPT ![s] = "deleted"]
  /\ UNCHANGED log

\* some secrets at once: all of a team's when the team is deleted
Purge(gone) ==
  /\ \A s \in gone : state[s] \in {"live", "deleted"}
  /\ state' = [s \in Secrets |-> IF s \in gone THEN "gone" ELSE state[s]]
  /\ log' = [s \in Secrets |-> IF s \in gone THEN <<>> ELSE log[s]]

Next ==
  \/ \E s \in Secrets :
       \/ \E p \in Payload : New(s, p) \/ Update(s, p)
       \/ \E v \in DOMAIN log[s] : Rollback(s, v)
       \/ Delete(s)
  \/ \E gone \in SUBSET Secrets : Purge(gone)

Spec == Init /\ [][Next]_<<state, log>>
=============================================================================
