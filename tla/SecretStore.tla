----------------------------- MODULE SecretStore -----------------------------
(***************************************************************************)
(* The secrets of one team: the rows of the table secrets, their history   *)
(* in secret_versions, and the HTTP requests that change them              *)
(* (repository/secrets.go under api/secrets.go).                           *)
(*                                                                         *)
(* SQLite makes each statement atomic and nothing more: none of these      *)
(* requests opens a transaction, and net/http runs each of them in a       *)
(* goroutine of its own.  So one action of this module is one statement,   *)
(* with the Go code up to the next statement, and the statements of        *)
(* different requests interleave.                                          *)
(***************************************************************************)
EXTENDS Naturals, FiniteSets

CONSTANTS
  Secrets,     \* the row ids AUTOINCREMENT can hand out; none is handed out twice
  Paths,       \* secret paths within the team
  Values,      \* non-empty secret values
  Metadata,    \* metadata texts
  None,        \* an empty value, or a field that the request body leaves out
  Requests,    \* request slots of the server: a slot serves one request at a time
  MaxVersion,  \* bound: no request starts that could push a version beyond it
  Faults       \* which faults happen: "statement" (a statement returns an
               \* error), "crash" (the process dies), "team" (the team is deleted)

ASSUME NoneAssumption == None \notin Secrets \cup Paths \cup Values \cup Metadata
ASSUME FaultsAssumption == Faults \subseteq {"statement", "crash", "team"}
ASSUME MaxVersionAssumption == MaxVersion \in Nat

VARIABLES
  team,     \* TRUE while the team's row exists
  secrets,  \* table secrets: the row of each id
  history,  \* table secret_versions: a set of rows
  audit,    \* table secret_audit_log: how often each action is logged per secret
  req,      \* what each request slot is doing
  acked,    \* ghost: the versions that a request has reported as stored
  purged    \* ghost: the secrets whose history was deleted on purpose

vars == <<team, secrets, history, audit, req, acked, purged>>

-----------------------------------------------------------------------------
(* Types *)

\* encrypted_value and metadata, the columns a version keeps.  Ciphertexts are
\* named by their plaintexts: one key serves the whole life of a process.
Payload == [value : Values \cup {None}, metadata : Metadata \cup {None}]

\* "free": no row yet; "live"; "deleted": deleted_at is set; "gone": row deleted
SecretRow == [status  : {"free", "live", "deleted", "gone"},
              path    : Paths \cup {None},
              payload : Payload,
              version : Nat]

VersionRow == [secret : Secrets, version : Nat, payload : Payload]

\* from is the version a rollback restored, 0 for any other request
Ack == [secret : Secrets, version : Nat, payload : Payload, from : Nat]

AuditAction == {"create", "update", "rollback", "delete"}

Op == {"none", "create", "update", "rollback", "delete", "hard_delete"}

\* the statement that a request executes next
PC == {"idle", "target", "reload", "select", "write", "version", "reread",
       "softdelete", "purge", "audit", "panic"}

Request == [pc : PC, op : Op, id : Secrets \cup {None}, payload : Payload,
            version : Nat, target : Nat]

-----------------------------------------------------------------------------
(* The tables *)

NoPayload == [value |-> None, metadata |-> None]

EmptyRow(status) ==
  [status |-> status, path |-> None, payload |-> NoPayload, version |-> 0]

Exists(s) == secrets[s].status \in {"live", "deleted"}

\* WHERE ... deleted_at IS NULL
Visible(s) == secrets[s].status = "live"

VersionsOf(s) == {h \in history : h.secret = s}

\* SELECT ... FROM secret_versions WHERE secret_id = ? AND version = ?
HasVersion(s, v) == \E h \in history : h.secret = s /\ h.version = v

\* secret_versions is UNIQUE(secret_id, version) and refers to secrets(id)
MayInsertVersion(s, v) == Exists(s) /\ ~HasVersion(s, v)

\* the body of a PUT or PATCH over the row it was read from: an empty field
\* keeps the old content
Merge(old, patch) ==
  [value    |-> IF patch.value = None THEN old.value ELSE patch.value,
   metadata |-> IF patch.metadata = None THEN old.metadata ELSE patch.metadata]

-----------------------------------------------------------------------------
(* Requests *)

Idle == [pc |-> "idle", op |-> "none", id |-> None, payload |-> NoPayload,
         version |-> 0, target |-> 0]

InFlight == {r \in Requests : req[r].pc # "idle"}

Goto(r, pc) == req' = [req EXCEPT ![r].pc = pc]

\* the handler returns and the slot is free again
Finish(r) == req' = [req EXCEPT ![r] = Idle]

Start(r, pc, op, s, p, v, t) ==
  /\ req[r].pc = "idle"
  /\ req' = [req EXCEPT ![r] = [pc |-> pc, op |-> op, id |-> s, payload |-> p,
                                version |-> v, target |-> t]]

\* every request in flight adds at most one version
VersionsLeft(s) == secrets[s].version + Cardinality(InFlight) < MaxVersion

Init ==
  /\ team = TRUE
  /\ secrets = [s \in Secrets |-> EmptyRow("free")]
  /\ history = {}
  /\ audit = [s \in Secrets |-> [a \in AuditAction |-> 0]]
  /\ req = [r \in Requests |-> Idle]
  /\ acked = {}
  /\ purged = {}

-----------------------------------------------------------------------------
(* POST: Create.  The INSERT fails, and nothing changes, while any row of  *)
(* the team, a soft-deleted one included, has the path.                    *)

PathFree(p) == \A s \in Secrets : Exists(s) => secrets[s].path # p

Create(r, s, p, payload) ==
  /\ team
  /\ secrets[s].status = "free"
  /\ PathFree(p)
  /\ Start(r, "version", "create", s, payload, 1, 0)
  /\ secrets' = [secrets EXCEPT ![s] = [status |-> "live", path |-> p,
                                        payload |-> payload, version |-> 1]]
  /\ UNCHANGED <<team, history, audit, acked, purged>>

(* PUT, PATCH: the handler reads the secret and lays the body over what it *)
(* read; the repository then reads the version again, writes the row and   *)
(* inserts the history row, in three statements.                           *)

BeginUpdate(r, s, patch) ==
  /\ team
  /\ Visible(s)
  /\ VersionsLeft(s)
  /\ Start(r, "select", "update", s, Merge(secrets[s].payload, patch), 0, 0)
  /\ UNCHANGED <<team, secrets, history, audit, acked, purged>>

\* the row found by id alone: a secret deleted meanwhile still has a version
SelectVersion(r) ==
  /\ req[r].pc = "select"
  /\ IF Exists(req[r].id)
       THEN req' = [req EXCEPT ![r].pc = "write",
                               ![r].version = secrets[req[r].id].version + 1]
       ELSE Finish(r)
  /\ UNCHANGED <<team, secrets, history, audit, acked, purged>>

\* mutant: the UPDATE also clears deleted_at
WrittenUndeleted(row, r) == [row EXCEPT !.payload = req[r].payload,
                                        !.version = req[r].version,
                                        !.status = "live"]

\* mutant: the UPDATE forgets to set the version
WrittenUnversioned(row, r) == [row EXCEPT !.payload = req[r].payload]

Written(row, r) == [row EXCEPT !.payload = req[r].payload,
                               !.version = req[r].version]

\* UPDATE secrets SET ... WHERE id = ?: neither the version that was read nor
\* deleted_at is in the condition, and zero rows are no error
WriteRow(r) ==
  /\ req[r].pc = "write"
  /\ secrets' = IF Exists(req[r].id)
                  THEN [secrets EXCEPT ![req[r].id] = Written(@, r)]
                  ELSE secrets
  /\ Goto(r, "version")
  /\ UNCHANGED <<team, history, audit, acked, purged>>

VersionRowOf(r) == [secret |-> req[r].id, version |-> req[r].version,
                    payload |-> req[r].payload]

\* mutant: a rollback goes on in a state of its own that nothing handles
VersionStoredAs(r) == Goto(r, req[r].op)

VersionStored(r) == Goto(r, IF req[r].op = "rollback" THEN "reread" ELSE "audit")

\* mutant: INSERT OR REPLACE
VersionReplaced(r) ==
  /\ history' = {h \in history : ~(/\ h.secret = req[r].id
                                   /\ h.version = req[r].version)}
                \cup {VersionRowOf(r)}
  /\ VersionStored(r)

\* mutant: the error of the INSERT is ignored
VersionErrorIgnored(r) == VersionStored(r) /\ UNCHANGED history

\* a violated constraint fails the request, with the row of secrets written
VersionRejected(r) == Finish(r) /\ UNCHANGED history

\* createVersion, from Create, from Update and from Rollback by way of Update
InsertVersion(r) ==
  /\ req[r].pc = "version"
  /\ IF MayInsertVersion(req[r].id, req[r].version)
       THEN history' = history \cup {VersionRowOf(r)} /\ VersionStored(r)
       ELSE VersionRejected(r)
  /\ UNCHANGED <<team, secrets, audit, acked, purged>>

(* Rollback: the target version and the secret are read, and what was read *)
(* is written as an update.                                                *)

BeginRollback(r, s, t) ==
  /\ team
  /\ Visible(s)
  /\ VersionsLeft(s)
  /\ Start(r, "target", "rollback", s, NoPayload, 0, t)
  /\ UNCHANGED <<team, secrets, history, audit, acked, purged>>

\* mutant: the SELECT of the target leaves its metadata out
ReadTargetValue(r) ==
  /\ req[r].pc = "target"
  /\ \/ \E h \in VersionsOf(req[r].id) :
          /\ h.version = req[r].target
          /\ req' = [req EXCEPT ![r].pc = "reload",
                                ![r].payload.value = h.payload.value]
     \/ ~HasVersion(req[r].id, req[r].target) /\ Finish(r)
  /\ UNCHANGED <<team, secrets, history, audit, acked, purged>>

ReadTarget(r) ==
  /\ req[r].pc = "target"
  /\ \/ \E h \in VersionsOf(req[r].id) :
          /\ h.version = req[r].target
          /\ req' = [req EXCEPT ![r].pc = "reload", ![r].payload = h.payload]
     \/ ~HasVersion(req[r].id, req[r].target) /\ Finish(r)
  /\ UNCHANGED <<team, secrets, history, audit, acked, purged>>

\* mutant: the metadata of the current secret is kept
ReloadKeepsMetadata(r) ==
  /\ req[r].pc = "reload"
  /\ IF Visible(req[r].id)
       THEN req' = [req EXCEPT ![r].pc = "select",
                               ![r].payload.metadata =
                                  secrets[req[r].id].payload.metadata]
       ELSE Finish(r)
  /\ UNCHANGED <<team, secrets, history, audit, acked, purged>>

\* GetByID of the repository's Rollback; value and metadata of the secret it
\* reads are then overwritten with the target's
Reload(r) ==
  /\ req[r].pc = "reload"
  /\ IF Visible(req[r].id) THEN Goto(r, "select") ELSE Finish(r)
  /\ UNCHANGED <<team, secrets, history, audit, acked, purged>>

\* The handler reads the secret once more and drops the error: a secret that is
\* no longer there is a nil pointer, dereferenced in the next statement.
Reread(r) ==
  /\ req[r].pc = "reread"
  /\ Goto(r, IF Visible(req[r].id) THEN "audit" ELSE "panic")
  /\ UNCHANGED <<team, secrets, history, audit, acked, purged>>

\* net/http recovers the panic of a handler and drops the connection
Panic(r) ==
  /\ req[r].pc = "panic"
  /\ Finish(r)
  /\ UNCHANGED <<team, secrets, history, audit, acked, purged>>

(* DELETE marks the row. *)

BeginDelete(r, s) ==
  /\ team
  /\ Visible(s)
  /\ Start(r, "softdelete", "delete", s, NoPayload, 0, 0)
  /\ UNCHANGED <<team, secrets, history, audit, acked, purged>>

SoftDelete(r) ==
  /\ req[r].pc = "softdelete"
  /\ secrets' = IF Exists(req[r].id)
                  THEN [secrets EXCEPT ![req[r].id].status = "deleted"]
                  ELSE secrets
  /\ Goto(r, "audit")
  /\ UNCHANGED <<team, history, audit, acked, purged>>

(* HardDelete: the history first, then the row; no handler calls it.       *)

HardDelete(r, s) ==
  /\ Exists(s)
  /\ Start(r, "purge", "hard_delete", s, NoPayload, 0, 0)
  /\ history' = history \ VersionsOf(s)
  /\ purged' = purged \cup {s}
  /\ UNCHANGED <<team, secrets, audit, acked>>

\* mutant: the schema without ON DELETE CASCADE
PurgeRowNoCascade(r) ==
  /\ req[r].pc = "purge"
  /\ secrets' = [secrets EXCEPT ![req[r].id] = EmptyRow("gone")]
  /\ Finish(r)
  /\ UNCHANGED <<team, history, audit, acked, purged>>

\* The versions that other requests inserted since go with the row: ON DELETE
\* CASCADE.
PurgeRow(r) ==
  /\ req[r].pc = "purge"
  /\ secrets' = [secrets EXCEPT ![req[r].id] = EmptyRow("gone")]
  /\ history' = history \ VersionsOf(req[r].id)
  /\ Finish(r)
  /\ UNCHANGED <<team, audit, acked, purged>>

(* The last step of a request that changed a secret: the audit entry, then *)
(* the success response.                                                   *)

\* mutant: rollbacks are not logged at all
LogUpdatesOnly(r) ==
  audit' = IF req[r].op = "rollback" THEN audit
           ELSE [audit EXCEPT ![req[r].id][req[r].op] = @ + 1]

\* The rollback handler, too, calls LogSecretUpdate.
Log(r) ==
  audit' = [audit EXCEPT ![req[r].id][IF req[r].op = "rollback" THEN "update"
                                      ELSE req[r].op] = @ + 1]

Acknowledge(r) ==
  acked' = IF req[r].op = "delete" THEN acked
           ELSE acked \cup {[secret |-> req[r].id, version |-> req[r].version,
                             payload |-> req[r].payload, from |-> req[r].target]}

LogAndReply(r) ==
  /\ req[r].pc = "audit"
  /\ Log(r)
  /\ Acknowledge(r)
  /\ Finish(r)
  /\ UNCHANGED <<team, secrets, history, purged>>

(* Requests that change nothing: GetByID finds no secret.                  *)

NotFound(s) == ~Visible(s) /\ UNCHANGED vars

(* The environment. *)

\* Teams.Delete removes the rows of the team in one transaction.
TeamDelete ==
  /\ "team" \in Faults
  /\ team
  /\ team' = FALSE
  /\ secrets' = [s \in Secrets |-> IF Exists(s) THEN EmptyRow("gone")
                                   ELSE secrets[s]]
  /\ history' = {}
  /\ purged' = {s \in Secrets : Exists(s)} \cup purged
  /\ UNCHANGED <<audit, req, acked>>

\* A statement returns an error: SQLITE_BUSY, a full disk, a database that a
\* shutdown has closed.  The handlers ignore the error of the audit entry, and
\* that of the rollback's last read, which leaves a nil secret.
StatementFails(r) ==
  /\ "statement" \in Faults
  /\ req[r].pc \notin {"idle", "panic"}
  /\ IF req[r].pc = "reread" THEN Goto(r, "panic") ELSE Finish(r)
  /\ IF req[r].pc = "audit" THEN Acknowledge(r) ELSE UNCHANGED acked
  /\ UNCHANGED <<team, secrets, history, audit, purged>>

\* The process dies and is started again: SQLite has kept every statement.
Crash ==
  /\ "crash" \in Faults
  /\ req' = [r \in Requests |-> Idle]
  /\ UNCHANGED <<team, secrets, history, audit, acked, purged>>

-----------------------------------------------------------------------------

Begin(r) ==
  \E s \in Secrets :
    \/ \E p \in Paths, v \in Values, m \in Metadata \cup {None} :
         Create(r, s, p, [value |-> v, metadata |-> m])
    \/ \E patch \in Payload : BeginUpdate(r, s, patch)
    \/ \E t \in 1..MaxVersion : BeginRollback(r, s, t)
    \/ BeginDelete(r, s)
    \/ HardDelete(r, s)

\* the next statement of a request in flight
Step(r) ==
  \/ SelectVersion(r) \/ WriteRow(r) \/ InsertVersion(r)
  \/ ReadTarget(r) \/ Reload(r) \/ Reread(r) \/ Panic(r)
  \/ SoftDelete(r) \/ PurgeRow(r) \/ LogAndReply(r)

Next ==
  \/ \E r \in Requests : Begin(r) \/ Step(r) \/ StatementFails(r)
  \/ \E s \in Secrets : NotFound(s)
  \/ TeamDelete
  \/ Crash

Spec == Init /\ [][Next]_vars

-----------------------------------------------------------------------------
(* Properties of any number of concurrent requests, with faults *)

\* Every table and every request holds what its columns and fields can hold.
TypeOK ==
  /\ team \in BOOLEAN
  /\ secrets \in [Secrets -> SecretRow]
  /\ history \subseteq VersionRow
  /\ audit \in [Secrets -> [AuditAction -> Nat]]
  /\ req \in [Requests -> Request]
  /\ acked \subseteq Ack
  /\ purged \subseteq Secrets

PayloadsAt(s, v) == {h.payload : h \in {g \in VersionsOf(s) : g.version = v}}

\* A version that a request has reported as stored is in the history, with the
\* content that the request sent and with no other, whatever requests, faults
\* and restarts came after, until the history is deleted on purpose.
AckedInHistory ==
  \A a \in acked :
    a.secret \notin purged => PayloadsAt(a.secret, a.version) = {a.payload}

\* A rollback that succeeded has stored exactly the content, value and metadata,
\* of the version it was asked to restore, even when the secret changed between
\* the reads of the rollback and its writes.
RollbackRestoresTarget ==
  \A a \in acked :
    a.from # 0 /\ a.secret \notin purged =>
      PayloadsAt(a.secret, a.from) = PayloadsAt(a.secret, a.version)

\* No version outlives its secret: one that an update inserts while HardDelete or
\* the deletion of the team is at work goes with the row.
NoOrphanVersion == \A h \in history : Exists(h.secret)

\* Every create, update and rollback in the audit log, and every one about to be
\* logged, has put a version of its own into the history.
AuditBackedByHistory ==
  \A s \in Secrets \ purged :
    audit[s]["create"] + audit[s]["update"] + audit[s]["rollback"]
      + Cardinality({r \in InFlight : /\ req[r].id = s
                                      /\ req[r].pc \in {"reread", "audit"}
                                      /\ req[r].op # "delete"})
      <= Cardinality(VersionsOf(s))

\* A history row is never changed, and never removed but on purpose.
HistoryAppendOnly ==
  [][\A h \in history : h \in history' \/ h.secret \in purged']_vars

StatusRank(status) == CASE status = "free" -> 0 [] status = "live" -> 1
                        [] status = "deleted" -> 2 [] status = "gone" -> 3

\* No request brings back a deleted secret, not even an update or a rollback that
\* read the secret before it was deleted and writes it after.
NoResurrection ==
  [][\A s \in Secrets :
       StatusRank(secrets[s].status) <= StatusRank(secrets'[s].status)]_vars

-----------------------------------------------------------------------------
(* Properties that README promises of the history and the audit log.  They *)
(* hold when requests come one after the other and no fault happens.       *)

Quiet(s) == \A r \in Requests : req[r].id # s

\* "Full version history": when no request is at work on a secret, its current
\* content is in its history, under its current version.
CurrentInHistory ==
  \A s \in Secrets \ purged :
    Exists(s) /\ Quiet(s) =>
      PayloadsAt(s, secrets[s].version) = {secrets[s].payload}

\* The versions of a secret at rest are 1, 2, ..., up to the current one: there
\* is no version between that a rollback could not restore.
HistoryComplete ==
  \A s \in Secrets \ purged :
    Exists(s) /\ Quiet(s) =>
      {h.version : h \in VersionsOf(s)} = 1..secrets[s].version

\* "Complete audit trail of all ... modifications": every stored version has an
\* entry in the audit log once its request is over.
AuditComplete ==
  \A s \in Secrets :
    Quiet(s) => Cardinality(VersionsOf(s)) <=
                  audit[s]["create"] + audit[s]["update"] + audit[s]["rollback"]

-----------------------------------------------------------------------------
(* Refinement *)

\* A version still missing from the history is the row's own content: the UPDATE
\* of the row is where an update takes effect.
LogOf(s) ==
  [v \in 1..secrets[s].version |->
     IF HasVersion(s, v) THEN CHOOSE p \in Payload : p \in PayloadsAt(s, v)
                         ELSE secrets[s].payload]

Abstract == INSTANCE VersionedStore WITH
  Patched <- Merge,
  state <- [s \in Secrets |-> IF s \in purged THEN "gone" ELSE secrets[s].status],
  log   <- [s \in Secrets |-> IF s \in purged THEN <<>> ELSE LogOf(s)]

\* Requests that come one after the other make the tables a versioned store: every
\* update adds the merged content, every rollback a copy of the content it names,
\* and nothing that was stored is lost.
VersionedStore == Abstract!Spec
=============================================================================
