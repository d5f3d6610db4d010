------------------------------- MODULE Accounts -------------------------------
(***************************************************************************)
(* One account: its row in the table users, the tokens and sessions that   *)
(* stand for its owner, and the requests that log in, refresh, change and  *)
(* delete it (repository/users.go, auth/session.go and auth/jwt.go under   *)
(* api/auth.go and api/users.go).                                          *)
(*                                                                         *)
(* A token is a signed statement that nobody can take back: it is accepted *)
(* until it expires, whatever becomes of the row.  Every request over the  *)
(* row is a few statements without a transaction, and one action here is   *)
(* one statement with the Go code up to the next.  AUTOINCREMENT never     *)
(* gives an id again, so that a deleted account stays deleted.             *)
(*                                                                         *)
(* External: Authenticate, which the handlers call and the repository does *)
(* not have, is GetByEmail and VerifyPassword, and RecordLoginFailure when *)
(* the password is wrong; SetVerified, SetEnabled and the sessions have no *)
(* caller in the repository and are called here as their comments say.     *)
(* Left out: the entries of the audit log, whose errors are dropped and    *)
(* which no request reads, and the rate limits of RateLimiter.             *)
(***************************************************************************)
EXTENDS Naturals, FiniteSets

CONSTANTS
  Requests,     \* request slots of the server
  Addresses,    \* e-mail addresses that no other account has
  Passwords,
  SessionIds,   \* the random ids of sessions: none is drawn twice
  None,         \* SQL's NULL, and no row
  Workloads,    \* bound: the sets of operations that run together, each a subset of Op
  MaxFailures,  \* 5 failed attempts ...
  LockTime,     \* ... lock the account for 900 seconds
  AccessLife, RefreshLife, SessionLife,
  MaxTime       \* bound: the clock stops there

Op == {"login", "refresh", "password", "profile", "admin", "delete", "session", "team",
       "time", "fault"}

ASSUME NoneAssumption == None \notin Addresses \cup Passwords \cup SessionIds \cup Nat
ASSUME WorkloadsAssumption == \A load \in Workloads : load \subseteq Op
ASSUME TimesAssumption ==
  {MaxFailures, LockTime, AccessLife, RefreshLife, SessionLife} \subseteq Nat \ {0}
    /\ MaxTime \in Nat

VARIABLES
  load,      \* the operations of this behaviour
  reach,     \* the repository's handle: "users" reaches users.db, "all" server.db, too
  account,   \* "none" before Register, "live", "gone" once the row is deleted
  row,       \* the columns of the row
  team,      \* a team of this user: owner_id, and the user's row in team_members
  tokens,    \* the tokens that were signed
  sessions,  \* admin_sessions and user_sessions
  clock,
  req,       \* what each request slot is doing
  drawn,     \* ghost: the ids of sessions that were drawn
  confirmed, \* ghost: the addresses the row had when it was marked as verified
  before,    \* ghost: the requests under way at the last lock, disabling, deletion
  unseen     \* ghost: the team was gained where the deletion's check could not see it

ghosts == <<drawn, confirmed, before, unseen>>
vars == <<load, reach, account, row, team, tokens, sessions, clock, req, ghosts>>

Row == [email : Addresses, password : Passwords, verified : BOOLEAN, enabled : BOOLEAN,
        failed : Nat, locked : Nat \cup {None}]

PC == {"idle", "check", "mint", "record", "count", "lock", "verify", "set", "write",
       "teams", "sessions", "row", "insert", "touch", "admins", "users"}

Request == [pc : PC, op : Op \cup {"none", "register", "use", "sweep"},
            read : Row \cup {None}, arg : Passwords \cup SessionIds \cup Nat \cup {None}]

Idle == [pc |-> "idle", op |-> "none", read |-> None, arg |-> None]

Session == [kind : {"admin", "user"}, exp : Nat]

Init ==
  /\ load \in Workloads
  /\ reach \in {"users", "all"}
  /\ account = "none"
  /\ row = None
  /\ team = [owned |-> FALSE, member |-> FALSE]
  /\ tokens = {}
  /\ sessions = [s \in SessionIds |-> None]
  /\ clock = 0
  /\ req = [r \in Requests |-> Idle]
  /\ drawn = {}
  /\ confirmed = {}
  /\ before = [lock |-> {}, disable |-> {}, delete |-> {}]
  /\ unseen = FALSE

-----------------------------------------------------------------------------
(* Helpers *)

At(r, op, pc) == req[r].op = op /\ req[r].pc = pc

Start(r, op, pc, read, arg) ==
  /\ req[r].pc = "idle"
  /\ req' = [req EXCEPT ![r] = [pc |-> pc, op |-> op, read |-> read, arg |-> arg]]

Goto(r, pc) == req' = [req EXCEPT ![r].pc = pc]

Busy == {r \in Requests : req[r].pc # "idle"}

\* The request ends, and is not under way any more.
Finish(r) ==
  /\ req' = [req EXCEPT ![r] = Idle]
  /\ before' = [e \in DOMAIN before |-> before[e] \ {r}]

\* The requests other than r that are under way while event e happens; r ends.
FinishMarking(r, e) ==
  /\ req' = [req EXCEPT ![r] = Idle]
  /\ before' = [d \in DOMAIN before |-> IF d = e THEN Busy \ {r} ELSE before[d] \ {r}]

\* UPDATE users SET ... WHERE id = ?: without a row it changes nothing.
UpdateRow(new) == row' = IF account = "live" THEN new ELSE row

Locked == account = "live" /\ row.locked # None /\ clock < row.locked

\* ValidateToken; authenticateToken takes a token of either type.
ValidateToken(t) == clock < t.exp

Authenticated == \E t \in tokens : ValidateToken(t)

AccessToken == [type |-> "access", exp |-> clock + AccessLife]
RefreshToken == [type |-> "refresh", exp |-> clock + RefreshLife]

-----------------------------------------------------------------------------
(* Register and Login *)

\* Create: the columns that the handler does not give take the schema's defaults.
Register(r, address, password) ==
  /\ account = "none"
  /\ Start(r, "register", "mint", None, None)
  /\ account' = "live"
  /\ row' = [email |-> address, password |-> password, verified |-> FALSE,
             enabled |-> TRUE, failed |-> 0, locked |-> None]
  /\ UNCHANGED <<load, reach, team, tokens, sessions, clock, ghosts>>

\* Authenticate: a right password leads on with the row that was read ...
BeginLogin(r, password) ==
  /\ "login" \in load
  /\ account = "live"
  /\ row.password = password
  /\ Start(r, "login", "check", row, None)
  /\ UNCHANGED <<load, reach, account, row, team, tokens, sessions, clock, ghosts>>

\* ... and a wrong one to RecordLoginFailure.
BeginFailure(r, password) ==
  /\ "login" \in load
  /\ account = "live"
  /\ row.password # password
  /\ row.failed <= MaxFailures
  /\ Start(r, "login", "count", None, None)
  /\ UNCHANGED <<load, reach, account, row, team, tokens, sessions, clock, ghosts>>

\* mutant: the lock is not looked at
CheckNothing(r) ==
  /\ At(r, "login", "check")
  /\ Goto(r, "mint")
  /\ UNCHANGED <<load, reach, account, row, team, tokens, sessions, clock, ghosts>>

\* "Check if account is locked": LockedUntil.After(now), of the row read above.
CheckLocked(r) ==
  /\ At(r, "login", "check")
  /\ IF req[r].read.locked # None /\ clock < req[r].read.locked
       THEN Finish(r)
       ELSE Goto(r, "mint") /\ UNCHANGED before
  /\ UNCHANGED <<load, reach, account, row, team, tokens, sessions, clock, drawn,
                 confirmed, unseen>>

MintTokens(r) ==
  /\ req[r].pc = "mint"
  /\ req[r].op \in {"login", "register"}
  /\ tokens' = tokens \cup {AccessToken, RefreshToken}
  /\ IF req[r].op = "login" THEN Goto(r, "record") /\ UNCHANGED before ELSE Finish(r)
  /\ UNCHANGED <<load, reach, account, row, team, sessions, clock, drawn, confirmed,
                 unseen>>

RecordLoginSuccess(r) ==
  /\ At(r, "login", "record")
  /\ UpdateRow([row EXCEPT !.failed = 0, !.locked = None])
  /\ Finish(r)
  /\ UNCHANGED <<load, reach, account, team, tokens, sessions, clock, drawn, confirmed,
                 unseen>>

\* RecordLoginFailure, for Login and for ChangePassword: "Increment failed attempts", and
\* then ...
CountFailure(r) ==
  /\ req[r].pc = "count"
  /\ UpdateRow([row EXCEPT !.failed = @ + 1])
  /\ Goto(r, "lock")
  /\ UNCHANGED <<load, reach, account, team, tokens, sessions, clock, ghosts>>

TooManyFailures == account = "live" /\ row.failed >= MaxFailures

\* ... "Lock account after 5 failed attempts": WHERE failed_attempts >= 5, by now.
LockAccount(r) ==
  /\ req[r].pc = "lock"
  /\ IF TooManyFailures
       THEN /\ row' = [row EXCEPT !.locked = clock + LockTime]
            /\ FinishMarking(r, "lock")
       ELSE Finish(r) /\ UNCHANGED row
  /\ UNCHANGED <<load, reach, account, team, tokens, sessions, clock, drawn, confirmed,
                 unseen>>

-----------------------------------------------------------------------------
(* Refresh and ChangePassword *)

\* mutant: the user is not looked up
RefreshBlindly(r) ==
  /\ "refresh" \in load
  /\ \E t \in tokens : t.type = "refresh" /\ ValidateToken(t)
  /\ Start(r, "refresh", "mint", None, None)
  /\ UNCHANGED <<load, reach, account, row, team, tokens, sessions, clock, ghosts>>

\* "Get user to ensure they still exist and are active": enabled is not looked at.
Refresh(r) ==
  /\ "refresh" \in load
  /\ \E t \in tokens : t.type = "refresh" /\ ValidateToken(t)
  /\ account = "live"
  /\ Start(r, "refresh", "mint", None, None)
  /\ UNCHANGED <<load, reach, account, row, team, tokens, sessions, clock, ghosts>>

MintAccessToken(r) ==
  /\ At(r, "refresh", "mint")
  /\ tokens' = tokens \cup {AccessToken}
  /\ Finish(r)
  /\ UNCHANGED <<load, reach, account, row, team, sessions, clock, drawn, confirmed,
                 unseen>>

BeginChangePassword(r, new) ==
  /\ "password" \in load
  /\ Authenticated
  /\ account = "live"
  /\ Start(r, "password", "verify", row, new)
  /\ UNCHANGED <<load, reach, account, row, team, tokens, sessions, clock, ghosts>>

Found(r) == account = "live" /\ row.email = req[r].read.email

\* Authenticate, as in Login, looks the account up once more, by the address read above: a
\* wrong password counts as a failed login.
VerifyPassword(r, current) ==
  /\ At(r, "password", "verify")
  /\ \/ Found(r) /\ row.password = current /\ Goto(r, "set") /\ UNCHANGED before
     \/ /\ Found(r) /\ row.password # current /\ row.failed <= MaxFailures
        /\ Goto(r, "count") /\ UNCHANGED before
     \/ ~Found(r) /\ Finish(r)
  /\ UNCHANGED <<load, reach, account, row, team, tokens, sessions, clock, drawn,
                 confirmed, unseen>>

UpdatePassword(r) ==
  /\ At(r, "password", "set")
  /\ UpdateRow([row EXCEPT !.password = req[r].arg])
  /\ Finish(r)
  /\ UNCHANGED <<load, reach, account, team, tokens, sessions, clock, drawn, confirmed,
                 unseen>>

-----------------------------------------------------------------------------
(* The profile, and what an administrator sets *)

\* mutant: a new address stays verified
ChangedUnverified(address) == [row EXCEPT !.email = address]

\* "Email changes might require verification"
Changed(address) ==
  [row EXCEPT !.email = address, !.verified = row.verified /\ row.email = address]

\* The row is read, and changed in memory; a change of other fields keeps the address.
BeginUpdate(r, address) ==
  /\ "profile" \in load
  /\ Authenticated
  /\ account = "live"
  /\ Start(r, "profile", "write", Changed(address), None)
  /\ UNCHANGED <<load, reach, account, row, team, tokens, sessions, clock, ghosts>>

\* mutant: an update enables the account
WrittenEnabled(r) == [row EXCEPT !.email = req[r].read.email, !.verified = req[r].read.verified,
                                 !.enabled = TRUE]

\* The columns of the UPDATE, all of them as they were read.
Written(r) == [row EXCEPT !.email = req[r].read.email, !.verified = req[r].read.verified,
                          !.enabled = req[r].read.enabled]

Update(r) ==
  /\ At(r, "profile", "write")
  /\ UpdateRow(Written(r))
  /\ IF account = "live" /\ row.enabled /\ ~row'.enabled THEN FinishMarking(r, "disable")
     ELSE Finish(r)
  /\ UNCHANGED <<load, reach, account, team, tokens, sessions, clock, drawn, confirmed,
                 unseen>>

SetVerified ==
  /\ "admin" \in load
  /\ account = "live"
  /\ row' = [row EXCEPT !.verified = TRUE]
  /\ confirmed' = confirmed \cup {row.email}
  /\ UNCHANGED <<load, reach, account, team, tokens, sessions, clock, req, drawn, before,
                 unseen>>

SetEnabled(enabled) ==
  /\ "admin" \in load
  /\ account = "live"
  /\ row' = [row EXCEPT !.enabled = enabled]
  /\ before' = IF row.enabled /\ ~enabled THEN [before EXCEPT !.disable = Busy] ELSE before
  /\ UNCHANGED <<load, reach, account, team, tokens, sessions, clock, req, drawn,
                 confirmed, unseen>>

-----------------------------------------------------------------------------
(* Deletion: the check, and the three statements of the repository         *)

Deleting == \E r \in Requests : req[r].op = "delete"

\* mutant: no team is looked for
BeginDeleteBlindly(r) ==
  /\ "delete" \in load
  /\ Authenticated
  /\ Start(r, "delete", "teams", None, None)
  /\ UNCHANGED <<load, reach, account, row, team, tokens, sessions, clock, ghosts>>

\* "Check if user owns any teams": among those that ListByUser joins with team_members.
BeginDelete(r) ==
  /\ "delete" \in load
  /\ Authenticated
  /\ ~(team.owned /\ team.member)
  /\ Start(r, "delete", "teams", None, None)
  /\ UNCHANGED <<load, reach, account, row, team, tokens, sessions, clock, ghosts>>

\* "Remove from all teams first": users.db has no table team_members.
RemoveFromTeams(r) ==
  /\ At(r, "delete", "teams")
  /\ IF reach = "all"
       THEN /\ team' = [team EXCEPT !.member = FALSE]
            /\ Goto(r, "sessions") /\ UNCHANGED before
       ELSE Finish(r) /\ UNCHANGED team
  /\ UNCHANGED <<load, reach, account, row, tokens, sessions, clock, drawn, confirmed,
                 unseen>>

OfKind(kind) == {s \in SessionIds : sessions[s] # None /\ sessions[s].kind = kind}

UserSessions == OfKind("user")

Without(ids) == [s \in SessionIds |-> IF s \in ids THEN None ELSE sessions[s]]

DeleteSessions(r) ==
  /\ At(r, "delete", "sessions")
  /\ sessions' = Without(UserSessions)
  /\ Goto(r, "row")
  /\ UNCHANGED <<load, reach, account, row, team, tokens, clock, ghosts>>

\* mutant: the row is only marked
DeleteRowMarked(r) ==
  /\ At(r, "delete", "row")
  /\ account' = "gone"
  /\ FinishMarking(r, "delete")
  /\ UNCHANGED <<load, reach, row, team, tokens, sessions, clock, drawn, confirmed, unseen>>

DeleteRow(r) ==
  /\ At(r, "delete", "row")
  /\ account' = "gone"
  /\ row' = None
  /\ FinishMarking(r, "delete")
  /\ UNCHANGED <<load, reach, team, tokens, sessions, clock, drawn, confirmed, unseen>>

\* External to this module: the user makes a team, with any token, or is handed one.  The
\* insertion of the owner's membership may fail, or the membership may be taken away.
GainTeam(member) ==
  /\ "team" \in load
  /\ Authenticated
  /\ ~team.owned
  /\ team' = [owned |-> TRUE, member |-> member]
  /\ unseen' = (~member \/ Deleting \/ account = "gone")
  /\ UNCHANGED <<load, reach, account, row, tokens, sessions, clock, req, drawn, confirmed,
                 before>>

\* External to this module: the team is deleted or handed on.
LoseTeam ==
  /\ "team" \in load
  /\ team.owned
  /\ team' = [team EXCEPT !.owned = FALSE]
  /\ unseen' = FALSE
  /\ UNCHANGED <<load, reach, account, row, tokens, sessions, clock, req, drawn, confirmed,
                 before>>

-----------------------------------------------------------------------------
(* Sessions *)

\* WHERE id = ? AND expires_at > ?
Accepted(s) == sessions[s] # None /\ sessions[s].exp > clock

\* The caller of CreateUserSession has looked the user up.
BeginSession(r) ==
  /\ "session" \in load
  /\ account = "live"
  /\ Start(r, "session", "insert", None, None)
  /\ UNCHANGED <<load, reach, account, row, team, tokens, sessions, clock, ghosts>>

Inserted(s, kind) ==
  /\ s \notin drawn
  /\ drawn' = drawn \cup {s}
  /\ sessions' = [sessions EXCEPT ![s] = [kind |-> kind, exp |-> clock + SessionLife]]

CreateUserSession(r, s) ==
  /\ At(r, "session", "insert")
  /\ Inserted(s, "user")
  /\ Finish(r)
  /\ UNCHANGED <<load, reach, account, row, team, tokens, clock, confirmed, unseen>>

CreateAdminSession(s) ==
  /\ "session" \in load
  /\ Inserted(s, "admin")
  /\ UNCHANGED <<load, reach, account, row, team, tokens, clock, req, confirmed, before,
                 unseen>>

\* GetUserSession and GetAdminSession: SELECT ...
GetSession(r, s) ==
  /\ "session" \in load
  /\ Accepted(s)
  /\ Start(r, "use", "touch", None, s)
  /\ UNCHANGED <<load, reach, account, row, team, tokens, sessions, clock, ghosts>>

\* mutant: last_active is written by an upsert
TouchUpserted(r) ==
  /\ At(r, "use", "touch")
  /\ sessions' = [sessions EXCEPT ![req[r].arg] =
                     [kind |-> "user", exp |-> clock + SessionLife]]
  /\ Finish(r)
  /\ UNCHANGED <<load, reach, account, row, team, tokens, clock, drawn, confirmed, unseen>>

\* ... and UPDATE last_active, a column that nothing here reads, WHERE id = ?
TouchSession(r) ==
  /\ At(r, "use", "touch")
  /\ Finish(r)
  /\ UNCHANGED <<load, reach, account, row, team, tokens, sessions, clock, drawn, confirmed,
                 unseen>>

DeleteSession(s) ==
  /\ "session" \in load
  /\ sessions[s] # None
  /\ sessions' = Without({s})
  /\ UNCHANGED <<load, reach, account, row, team, tokens, clock, req, ghosts>>

\* DeleteAllAdminSessions and DeleteAllUserSessions, of one admin and one user
DeleteAllSessions(kind) ==
  /\ "session" \in load
  /\ sessions' = Without(OfKind(kind))
  /\ UNCHANGED <<load, reach, account, row, team, tokens, clock, req, ghosts>>

\* CleanupExpiredSessions: the clock is read once, for a statement on each database.
BeginCleanup(r) ==
  /\ "session" \in load
  /\ Start(r, "sweep", "admins", None, clock)
  /\ UNCHANGED <<load, reach, account, row, team, tokens, sessions, clock, ghosts>>

Expired(kind, now) == {s \in OfKind(kind) : sessions[s].exp < now}

CleanupAdminSessions(r) ==
  /\ At(r, "sweep", "admins")
  /\ sessions' = Without(Expired("admin", req[r].arg))
  /\ Goto(r, "users")
  /\ UNCHANGED <<load, reach, account, row, team, tokens, clock, ghosts>>

CleanupUserSessions(r) ==
  /\ At(r, "sweep", "users")
  /\ sessions' = Without(Expired("user", req[r].arg))
  /\ Finish(r)
  /\ UNCHANGED <<load, reach, account, row, team, tokens, clock, drawn, confirmed, unseen>>

-----------------------------------------------------------------------------
(* Faults and the clock *)

\* The errors of RecordLoginSuccess are dropped; any other ends the request.
StatementFails(r) ==
  /\ "fault" \in load
  /\ req[r].pc \notin {"idle", "check", "mint"}
  /\ Finish(r)
  /\ UNCHANGED <<load, reach, account, row, team, tokens, sessions, clock, drawn, confirmed,
                 unseen>>

\* RequireAuth: 401, without a token that is valid.
Unauthorized == ~Authenticated /\ UNCHANGED vars

Tick ==
  /\ "time" \in load
  /\ clock < MaxTime
  /\ clock' = clock + 1
  /\ UNCHANGED <<load, reach, account, row, team, tokens, sessions, req, ghosts>>

-----------------------------------------------------------------------------

Begin(r) ==
  \/ \E a \in Addresses, p \in Passwords : Register(r, a, p)
  \/ \E p \in Passwords : BeginLogin(r, p) \/ BeginFailure(r, p) \/ BeginChangePassword(r, p)
  \/ Refresh(r)
  \/ \E a \in Addresses : BeginUpdate(r, a)
  \/ BeginDelete(r)
  \/ BeginSession(r) \/ BeginCleanup(r)
  \/ \E s \in SessionIds : GetSession(r, s)

Step(r) ==
  \/ CheckLocked(r) \/ MintTokens(r) \/ RecordLoginSuccess(r)
  \/ CountFailure(r) \/ LockAccount(r)
  \/ MintAccessToken(r)
  \/ \E p \in Passwords : VerifyPassword(r, p)
  \/ UpdatePassword(r)
  \/ Update(r)
  \/ RemoveFromTeams(r) \/ DeleteSessions(r) \/ DeleteRow(r)
  \/ \E s \in SessionIds : CreateUserSession(r, s)
  \/ TouchSession(r)
  \/ CleanupAdminSessions(r) \/ CleanupUserSessions(r)

Others ==
  \/ SetVerified \/ \E enabled \in BOOLEAN : SetEnabled(enabled)
  \/ \E member \in BOOLEAN : GainTeam(member)
  \/ LoseTeam
  \/ \E s \in SessionIds : CreateAdminSession(s) \/ DeleteSession(s)
  \/ \E kind \in {"admin", "user"} : DeleteAllSessions(kind)
  \/ Tick \/ Unauthorized

Next ==
  \/ \E r \in Requests : Begin(r) \/ Step(r) \/ StatementFails(r)
  \/ Others

Spec == Init /\ [][Next]_vars

-----------------------------------------------------------------------------
(* Properties *)

\* The columns, the tokens and the requests have their types, and the row is there while
\* the account is.
TypeOK ==
  /\ load \in Workloads /\ reach \in {"users", "all"}
  /\ account \in {"none", "live", "gone"}
  /\ row \in IF account = "live" THEN Row ELSE {None}
  /\ team \in [owned : BOOLEAN, member : BOOLEAN]
  /\ tokens \subseteq [type : {"access", "refresh"}, exp : Nat]
  /\ sessions \in [SessionIds -> Session \cup {None}]
  /\ clock \in Nat
  /\ req \in [Requests -> Request]
  /\ confirmed \subseteq Addresses
  /\ before \in [{"lock", "disable", "delete"} -> SUBSET Busy]
  /\ drawn \subseteq SessionIds
  /\ unseen \in BOOLEAN

\* "Lock account after 5 failed attempts": whatever logins, updates and further failures
\* come between the two statements, an account that has failed too often has been locked
\* or is about to be, and while a lock is in force only a login that had begun before it
\* is on its way to tokens, or to lifting it.
Lockout ==
  /\ TooManyFailures /\ "fault" \notin load =>
       row.locked # None \/ \E r \in Requests : req[r].pc = "lock"
  /\ \A r \in Requests :
       Locked /\ req[r].op = "login" /\ req[r].pc \in {"mint", "record"} => r \in before.lock

\* An update of the profile writes columns it does not mean to change.  An address is
\* never verified that was not the account's address when it was marked so; and a
\* disabled account is enabled by an administrator, or by an update that had read the row
\* before it was disabled.
ColumnsFollowReads ==
  /\ [](account = "live" /\ row.verified => row.email \in confirmed)
  /\ [][account' = "live" /\ account = "live" /\ row'.enabled /\ ~row.enabled =>
           SetEnabled(TRUE) \/ \E r \in before.disable : req'[r] = Idle]_vars

\* Once the row is deleted no token is signed and no session made but by a request that was
\* under way; and the account owned no team that the check could see.
DeletionIsFinal ==
  /\ [][account = "gone" =>
           \/ tokens' \subseteq tokens /\ UserSessions' \subseteq UserSessions
           \/ \E r \in before.delete : req'[r] # req[r]]_vars
  /\ [](account = "gone" /\ team.owned => unseen)

\* A session is accepted until it expires, its owner ends it or the account is deleted:
\* cleanup, which starts from a clock that may be stale, takes none of them; and nothing
\* brings one back.
SessionsEndOnce ==
  [][\A s \in drawn :
       /\ Accepted(s) /\ ~Accepted(s)' =>
            \/ clock' # clock \/ DeleteSession(s) \/ DeleteAllSessions(sessions[s].kind)
            \/ \E r \in Requests : DeleteSessions(r)
       /\ ~Accepted(s) => ~Accepted(s)']_vars
===============================================================================
