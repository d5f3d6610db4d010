------------------------------- MODULE ApiKeys -------------------------------
(***************************************************************************)
(* The API keys of one owner: the rows of api_keys (auth/apikey.go), the   *)
(* requests that manage them (api/apikeys.go), and the requests that are   *)
(* authenticated by one of them (auth/middleware.go).                      *)
(*                                                                         *)
(* A key is known by its row: key_hash is UNIQUE and ids are not reused.   *)
(* Each statement is atomic and no request opens a transaction, so one     *)
(* action is one statement, with the Go code up to the next.  Left out:    *)
(* names, scopes and rate limits, which nothing changes once the row is    *)
(* there; last_used and use_count, which nothing but the listing reads;    *)
(* and the requests for another owner's key, which are forbidden before    *)
(* they change anything.                                                   *)
(***************************************************************************)
EXTENDS Naturals

CONSTANTS
  Keys,       \* the rows that can be inserted; bounds the number of keys
  Never,      \* expires_at IS NULL
  None,       \* no key
  Lifetimes,  \* the values of expires_in, in ticks of the clock
  Requests,   \* request slots of the server
  MaxTime,    \* bound: the last tick of the clock
  Faults      \* "statement" (a statement returns an error), "crash"

ASSUME NoneAssumption == None \notin Keys
ASSUME NeverAssumption == Never \notin Nat
ASSUME LifetimesAssumption == Lifetimes \subseteq Nat \ {0}
ASSUME MaxTimeAssumption == MaxTime \in Nat

VARIABLES
  now,       \* time.Now().Unix()
  keys,      \* table api_keys; a deleted row keeps its expiry in the model
  req,       \* what each request slot is doing
  origin,    \* ghost: the key that each key descends from by rotations
  revoked,   \* ghost: keys disabled, deleted or rotated away, and not enabled since
  disturbed  \* ghost: origins of the keys that a request disabled or deleted

vars == <<now, keys, req, origin, revoked, disturbed>>
ghosts == <<origin, revoked, disturbed>>

Time == Nat \cup {Never}

Row == [status : {"free", "live", "gone"}, enabled : {0, 1}, expires : Time]

PC == {"idle", "delete", "disable", "enable", "reread", "insert", "retire", "touch"}

\* expires and new: what a rotation has read, and the key it has inserted
Request == [pc : PC, key : Keys \cup {None}, expires : Time, new : Keys \cup {None}]

Idle == [pc |-> "idle", key |-> None, expires |-> Never, new |-> None]

Init ==
  /\ now = 0
  /\ keys = [k \in Keys |-> [status |-> "free", enabled |-> 0, expires |-> Never]]
  /\ req = [r \in Requests |-> Idle]
  /\ origin = [k \in Keys |-> k]
  /\ revoked = {}
  /\ disturbed = {}

-----------------------------------------------------------------------------
(* Helpers *)

Live(k) == keys[k].status = "live"

\* "expiresAt.Valid && expiresAt.Int64 < time.Now().Unix()"
Expired(expires) == expires # Never /\ expires < now

\* what ValidateKey accepts
Accepted(k) == Live(k) /\ keys[k].enabled = 1 /\ ~Expired(keys[k].expires)

Start(r, pc, k) ==
  /\ req[r].pc = "idle"
  /\ req' = [req EXCEPT ![r] = [Idle EXCEPT !.pc = pc, !.key = k]]

Finish(r) == req' = [req EXCEPT ![r] = Idle]

\* INSERT: a new row, enabled
Insert(k, expires) ==
  /\ keys[k].status = "free"
  /\ keys' = [keys EXCEPT ![k] = [status |-> "live", enabled |-> 1,
                                  expires |-> expires]]

\* UPDATE api_keys SET enabled = ... WHERE id = ?
SetEnabled(k, enabled) ==
  keys' = IF Live(k) THEN [keys EXCEPT ![k].enabled = enabled] ELSE keys

-----------------------------------------------------------------------------
(* Create *)

CreateKey(k) ==
  /\ \E expires \in {Never} \cup {now + life : life \in Lifetimes} :
       Insert(k, expires)
  /\ UNCHANGED <<now, req, ghosts>>

(* Delete, Disable, Enable and Rotate read the key first, to compare its   *)
(* owner with the caller; a key that is gone is answered with 404.         *)

FindOwn(r, k, pc) ==
  /\ Live(k)
  /\ Start(r, pc, k)
  /\ UNCHANGED <<now, keys, ghosts>>

BeginDelete(r, k) == FindOwn(r, k, "delete")

BeginDisable(r, k) == FindOwn(r, k, "disable")

BeginEnable(r, k) == FindOwn(r, k, "enable")

BeginRotate(r, k) == FindOwn(r, k, "reread")

Begin(r, k) ==
  BeginDelete(r, k) \/ BeginDisable(r, k) \/ BeginEnable(r, k) \/ BeginRotate(r, k)

Revoke(k) ==
  /\ revoked' = revoked \cup {k}
  /\ disturbed' = disturbed \cup {origin[k]}

\* mutant: the row is kept and marked
DeleteMarked(r) ==
  /\ req[r].pc = "delete"
  /\ keys' = [keys EXCEPT ![req[r].key].status = "deleted"]
  /\ Revoke(req[r].key)
  /\ Finish(r)
  /\ UNCHANGED <<now, origin>>

Delete(r) ==
  /\ req[r].pc = "delete"
  /\ keys' = [keys EXCEPT ![req[r].key].status = "gone",
                          ![req[r].key].enabled = 0]
  /\ Revoke(req[r].key)
  /\ Finish(r)
  /\ UNCHANGED <<now, origin>>

Disable(r) ==
  /\ req[r].pc = "disable"
  /\ SetEnabled(req[r].key, 0)
  /\ Revoke(req[r].key)
  /\ Finish(r)
  /\ UNCHANGED <<now, origin>>

Enable(r) ==
  /\ req[r].pc = "enable"
  /\ SetEnabled(req[r].key, 1)
  /\ revoked' = IF Live(req[r].key) THEN revoked \ {req[r].key} ELSE revoked
  /\ Finish(r)
  /\ UNCHANGED <<now, origin, disturbed>>

(* RotateKey: "creates a new key and disables the old one", in that order. *)

\* mutant: the old key is disabled before its successor is there
RereadAndRetire(r) ==
  /\ req[r].pc = "reread"
  /\ SetEnabled(req[r].key, 0)
  /\ IF Live(req[r].key)
       THEN req' = [req EXCEPT ![r].pc = "insert",
                               ![r].expires = keys[req[r].key].expires]
       ELSE Finish(r)
  /\ UNCHANGED <<now, ghosts>>

\* GetByID, which finds a disabled or expired key, too
Reread(r) ==
  /\ req[r].pc = "reread"
  /\ IF Live(req[r].key)
       THEN req' = [req EXCEPT ![r].pc = "insert",
                               ![r].expires = keys[req[r].key].expires]
       ELSE Finish(r)
  /\ UNCHANGED <<now, keys, ghosts>>

\* mutant: the new key never expires
InsertEternal(r, k) ==
  /\ req[r].pc = "insert"
  /\ Insert(k, Never)
  /\ req' = [req EXCEPT ![r].pc = "retire", ![r].new = k]
  /\ origin' = [origin EXCEPT ![k] = origin[req[r].key]]
  /\ UNCHANGED <<now, revoked, disturbed>>

\* CreateKey "with same settings"
InsertSuccessor(r, k) ==
  /\ req[r].pc = "insert"
  /\ Insert(k, req[r].expires)
  /\ req' = [req EXCEPT ![r].pc = "retire", ![r].new = k]
  /\ origin' = [origin EXCEPT ![k] = origin[req[r].key]]
  /\ UNCHANGED <<now, revoked, disturbed>>

\* "Disable old key", whatever has become of it meanwhile.  The new key goes out with the
\* reply, after this statement: what a crash in between loses is no state of the server.
Retire(r) ==
  /\ req[r].pc = "retire"
  /\ SetEnabled(req[r].key, 0)
  /\ revoked' = revoked \cup {req[r].key}
  /\ Finish(r)
  /\ UNCHANGED <<now, origin, disturbed>>

(* ValidateKey, for a request that authenticateRequest lets through.       *)

Validate(r, k) ==
  /\ Accepted(k)
  /\ Start(r, "touch", k)
  /\ UNCHANGED <<now, keys, ghosts>>

\* mutant: the row is written back whole, as it was read
TouchWhole(r) ==
  /\ req[r].pc = "touch"
  /\ SetEnabled(req[r].key, 1)
  /\ Finish(r)
  /\ UNCHANGED <<now, ghosts>>

\* "Update last used and use count": WHERE id = ?, and only these two columns
Touch(r) ==
  /\ req[r].pc = "touch"
  /\ Finish(r)
  /\ UNCHANGED <<now, keys, ghosts>>

(* CleanupExpiredKeys, which nothing calls yet.                            *)

\* mutant: expires_at <= now
IsCleanedInclusive(k) == Live(k) /\ keys[k].expires # Never /\ keys[k].expires <= now

\* expires_at IS NOT NULL AND expires_at < now
IsCleaned(k) == Live(k) /\ keys[k].expires # Never /\ keys[k].expires < now

Cleanup ==
  /\ keys' = [k \in Keys |-> IF IsCleaned(k)
                               THEN [keys[k] EXCEPT !.status = "gone", !.enabled = 0]
                               ELSE keys[k]]
  /\ UNCHANGED <<now, req, ghosts>>

(* The environment. *)

\* A statement fails and the request ends.  A rotation drops the error of its last
\* statement and reports success, with the old key still enabled; ValidateKey drops
\* that of the counter.
StatementFails(r) ==
  /\ "statement" \in Faults
  /\ req[r].pc # "idle"
  /\ Finish(r)
  /\ UNCHANGED <<now, keys, ghosts>>

Crash ==
  /\ "crash" \in Faults
  /\ req' = [r \in Requests |-> Idle]
  /\ UNCHANGED <<now, keys, ghosts>>

Tick ==
  /\ now < MaxTime
  /\ now' = now + 1
  /\ UNCHANGED <<keys, req, ghosts>>

\* 401 for a key that is not accepted
Unauthorized(k) == ~Accepted(k) /\ UNCHANGED vars

Next ==
  \/ \E k \in Keys :
       \/ CreateKey(k) \/ Unauthorized(k)
       \/ \E r \in Requests : Begin(r, k) \/ InsertSuccessor(r, k) \/ Validate(r, k)
  \/ \E r \in Requests :
       \/ Delete(r) \/ Disable(r) \/ Enable(r) \/ Reread(r) \/ Retire(r) \/ Touch(r)
       \/ StatementFails(r)
  \/ Cleanup
  \/ Crash
  \/ Tick

Spec == Init /\ [][Next]_vars

-----------------------------------------------------------------------------
(* Properties *)

\* The types, and that a rotation in its last step has put a key of its own lineage
\* into the table.
TypeOK ==
  /\ now \in Nat
  /\ keys \in [Keys -> Row]
  /\ req \in [Requests -> Request]
  /\ origin \in [Keys -> Keys]
  /\ revoked \subseteq Keys
  /\ disturbed \subseteq Keys
  /\ \A r \in Requests :
       /\ req[r].pc # "idle" => req[r].key \in Keys
       /\ req[r].pc = "retire" => /\ req[r].new \in Keys \ {req[r].key}
                                  /\ origin[req[r].new] = origin[req[r].key]

\* A key that was deleted, disabled, or disabled by a rotation is not accepted again,
\* whatever validations, rotations and failures were under way, until a request to
\* enable it has run.
RevokedStaysOff == \A k \in revoked : ~Accepted(k)

\* Rotations, one after the other or at once, never give an owner more time: when the
\* first key of a lineage has expired, none of its successors is accepted.
RotationNeverExtends == \A k \in Keys : Accepted(k) => ~Expired(keys[origin[k]].expires)

\* "creates a new key and disables the old one": an owner who only rotates is never left
\* without a key that is accepted, not between the statements of a rotation, nor after
\* one that failed half-way, nor by rotations that overlap, as long as the keys have not
\* expired.
RotationNeverLocksOut ==
  \A o \in Keys :
    /\ keys[o].status # "free"
    /\ origin[o] = o
    /\ o \notin disturbed
    /\ ~Expired(keys[o].expires)
    => \E k \in Keys : origin[k] = o /\ Accepted(k)

\* The cleanup and ValidateKey agree on the boundary: a key that would be accepted
\* leaves the table at its owner's request only, or it has been switched off before.
CleanupSparesValid ==
  [][\A k \in Keys :
       Accepted(k) /\ keys'[k].status = "gone" => k \in revoked']_vars
=============================================================================
