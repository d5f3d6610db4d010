# cassecrets: specifications, model checking and proofs

cassecrets is a multi-tenant secret server in Go: an HTTP/JSON API over two SQLite
files, with users, teams, versioned and encrypted secrets, API keys, sessions, an audit
log, a rate limiter, and the usual start and shutdown of a daemon. This directory holds
TLA+ modules for the parts of it whose order of events matters, TLC runs on small
instances, and proofs checked by TLAPS for every instance.

Source paths below are relative to `src/` of the repository (`src/repository/secrets.go`
is `src/src/repository/secrets.go` in `PROJECT.json`, which maps every definition to
the lines it models).

## How to run

    tlc -workers 2 -config SecretStoreConc.cfg MCSecretStore
    tlapm SecretStoreProofs.tla

`PROJECT.json` lists the runs with their modules and configurations, the mutants that show
that each property can fail, the hazards the properties are for, and the theorems.

## What the code is

The tree has no test, and it does not type-check as it is: some handlers call repository
methods by another name or with other arguments, `Login` calls an `Authenticate` that is
nowhere, and `server.Start` calls `crypto.New` and `GetJWTSecret`, which are not there either. Where
a caller and a callee disagree in that way, the modules compose the caller with the function of the
same purpose (`GetByEmail`, `VerifyPassword` and `RecordLoginFailure` for `Authenticate`; the two
`LoadOrCreateKey` for the keys); no property depends on the choice. `src/database/database.go` opens each
SQLite file in WAL mode with `busy_timeout=5000` and `foreign_keys=ON`. net/http serves
each request in a goroutine of its own. Only three functions of the teams repository open a transaction
(`TransferOwnership`, `Delete`, `AcceptInvitation`); every other operation is a sequence of
autocommitted statements. This is the source of most of what is hard here, and the reason for the grain
of the models: **one action is one SQL statement, one critical section, or one system call,
together with the Go code up to the next one**.

## Inventory

| Component | State | Operations | Hard behaviour | What makes it correct |
|---|---|---|---|---|
| Secret store (`repository/secrets.go`, `api/secrets.go`) | rows of `secrets`, `secret_versions` | Create, Update, Delete, HardDelete, createVersion, GetVersions, Rollback | three-statement updates interleave, fail half-way, meet deletes and crashes | what was acknowledged stays in the history unchanged; a rollback restores its target; deleted is final; no orphan versions |
| Teams (`repository/teams.go`, `api/teams.go`) | `teams.owner_id`, `team_members.role`, invitations | Create, AddMember, UpdateMemberRole, RemoveMember, TransferOwnership, Delete, invitations | right and role are checked in statements before the one that acts | one owner, recorded alike in both tables, replaced only with consent; nothing outlives the team |
| Rate limiter (`auth/ratelimit.go`) | map of buckets of timestamps, two levels of locks | Allow, cleanup, Stop, SetLimit, Reset, Remaining | a bucket is used after the map's lock is released; sweep by name prefix | never more than the limit, never a refusal below it, dead buckets go |
| Shutdown (`server/server.go`, `signal/*.go`) | handler, flag, callbacks, listener, database, PID file | Start, Setup, OnShutdown, gracefulShutdown | main and the signal goroutine race to the end of the process | announce, then drain, then remove, and end once a signal is received |
| Start and PID file (`main.go`, `pid/*.go`, `config/config.go`) | PID file, configuration file, the processes | Load, Save, applyDefaults, CheckPIDFile, WritePIDFile, RemovePIDFile | check-then-act between processes, crashes between create and write, PID reuse | the file names the instance that serves; an instance runs with a complete configuration |
| API keys (`auth/apikey.go`, `api/apikeys.go`, `auth/middleware.go`) | rows of `api_keys` | Create, Validate, Enable, Disable, Delete, Rotate, Cleanup | Rotate is read, insert, disable, with the last error dropped | a key that was revoked is not accepted until enabled; rotations neither lengthen a life nor lock the owner out |
| Sessions and tokens (`auth/session.go`, `auth/jwt.go`, `auth/middleware.go`) | rows of `user_sessions`, `admin_sessions`; signed tokens | Create, Validate, Refresh, Delete, Cleanup; access and refresh tokens | expiry at the boundary, a clock that is stale by the second statement; tokens outlive the account | a session ends once and only by its owner, its expiry or a deletion; a deleted user gets no new token |
| Accounts and login (`repository/users.go`, `api/users.go`, `api/auth.go`) | rows of `users` | register, login, refresh, lockout, update, enable, delete | two-statement lockout, read-modify-write of a profile, deletion in three statements over two databases | a lock holds; an update undoes no confirmation and no disabling it could have seen; no half-deleted user |
| Audit log (`repository/audit.go`) | append-only rows | Log, Query, CleanupOldEntries | best-effort writes after the change | every change has its entry |
| Keys (`crypto/crypto.go`, `auth/jwt.go`) | two key files | LoadOrCreateKey, Encrypt, Decrypt | a short file is replaced by a new key; the file is written in place | a key that encrypted something is never replaced |
| Database (`database/*.go`) | two SQLite files | Open, migrate, Close | closed under running requests | |
| Routing, paths, mode, command line | none that changes after start | | | |

Interactions: requests on secrets read the caller's membership from the team tables and
write the audit log; `Teams.Delete` removes a team's secrets, versions, members,
invitations and keys in one transaction; the shutdown callback closes the database
under every request still running; a start loads its configuration, then writes the PID file, then loads its
keys, and the signal goroutine removes the PID file; the deletion of a user reads the teams that the user owns.

## Modules

### SecretStore, VersionedStore (MCSecretStore, SecretStoreProofs)

The secrets of one team. `secrets` is the table `secrets` (per id: status, path, payload,
version), `history` the rows of `secret_versions`, `audit` the number of entries per action,
`team` whether the team's row exists. `req` says for each request slot which statement it
executes next and what it carries in local variables (the merged payload, the version
computed from the one it selected, the rollback's target). `acked` and `purged` are ghosts:
what clients have been told is stored, and which histories were deleted on purpose.

| Action | Code |
|---|---|
| `Create`, then `InsertVersion`, `LogAndReply` | `SecretsRepository.Create`: INSERT of the row, `createVersion`; the handler's audit entry and reply |
| `BeginUpdate`, `SelectVersion`, `WriteRow`, `InsertVersion`, `LogAndReply` | the handler's `GetByID` and merge of the body; `Update`'s SELECT version, UPDATE, `createVersion` |
| `BeginRollback`, `ReadTarget`, `Reload`, then the steps of an update, then `Reread`, `LogAndReply` or `Panic` | the handler's read; `Rollback`'s `GetVersion` and `GetByID`, `Update`; the handler's second read, whose error it drops |
| `BeginDelete`, `SoftDelete` | `Delete` |
| `HardDelete`, `PurgeRow` | `HardDelete`, which no handler calls |
| `TeamDelete`, `StatementFails`, `Crash` | the environment, switched on by `Faults` |

`VersionedStore` is the promise: a secret is the sequence of the contents it has had; an
update and a rollback append, deletion ends the appending, only a purge removes, of several secrets at
once when their team goes. `SecretStore` implements it when no two requests are at work on one secret at
the same time and no statement fails (property `VersionedStore`, refinement mapping
at the end of the module: a version not yet inserted is the row's own content, so the UPDATE of
the row is the point where an update takes effect, and the INSERT that follows is a stutter). One run checks
it for requests that do not overlap at all, `ImplementsVersionedStore` proves it.

Ciphertexts are named by their plaintexts, because one key serves the life of a process. Left
out: names, tags, listing and search, which nothing that is checked depends on.

### Teams (MCTeams, TeamsProofs)

One team: `team` (none, live, gone), `ownerId`, `role` (the rows of `team_members`), `req` as
above. Each handler's check is a
`Begin*` action or a step of its own, the repository's statements are the later steps, and a
transaction is one action (`TransferOwnership`, `DeleteTeam`, `AcceptInvitation`): SQLite serialises writers,
and one whose snapshot is overtaken fails, which is `StatementFails`. Ghosts: `granted`, who was made an owner by
an insertion; `joined` and `owned`, who has ever been a member and who has ever been named by `owner_id`
(`Remember` keeps them with every step); `disturbed`, whether requests have overlapped or a statement has failed.

`invitation` is one row of `team_invitations`: the role it gives, `Nobody` when there is none. `accepted_at` and
`expires_at` are left out, because the code writes them and reads neither: an invitation that stands can be accepted,
again and after its expiry. No handler calls `CreateInvitation`, `AcceptInvitation` and `DeleteInvitation` yet; the
model's caller of the first has checked that the actor may invite. They are there for what they do to the members
beside the other requests; nothing is claimed of invitations themselves.

`OwnerConsents` says two things of every step that changes `owner_id`. Whatever overlaps, it is a transfer, its
actor has owned the team at some time, and the new owner has been a member at some time: the checks may be stale, but
they were not skipped. As long as nothing has overlapped or failed, the actor is the owner and the new owner a member.

| Action | Code |
|---|---|
| `CreateTeam`, `InsertOwner` | the two statements of `TeamsRepository.Create` |
| `BeginAdd`, `AddMember` | the handler's check of the actor's role; the INSERT |
| `BeginUpdate`, `SelectRole`, `UpdateMemberRole` | the handler; `UpdateMemberRole`'s SELECT role and UPDATE |
| `BeginRemove`, `CheckNotOwner`, `SelectRole`, `RemoveMember` | the handler's two checks; `RemoveMember`'s SELECT role and DELETE |
| `BeginTransfer`, `CheckNewOwner`, `TransferOwnership` | the handler's two checks; the transaction |
| `BeginDelete`, `DeleteTeam` | the handler's check; the transaction |
| `CreateInvitation`, `AcceptInvitation`, `DeleteInvitation` | the functions of the same names |
| `Refused`, `StatementFails` | 403 and 404 for a team that is gone; an error of a statement, which ends the request, but for the `GetByID` of RemoveMember, whose error is dropped (`api/teams.go:625`): the removal goes on without the check of the owner |

### RateLimiter (MCRateLimiter, RateLimiterProofs)

`buckets` is `rl.buckets`, `entries` the timestamps in each bucket (a set, those of one tick numbered: only how many there are matters), `held` what each
caller found between the two locks of `Allow`, `sweep` the state of `cleanup`, which keeps the
map's lock throughout. `Claims[k]` is the set of endpoints whose name begins the key,
which is how `cleanup` guesses the endpoint of a key; Go's map order makes it a choice. It is empty for a key
without an identifier ("login:", from an `X-Forwarded-For` that starts with a comma): `auth/ratelimit.go:167` wants
something after the colon, and `:173` passes over a key that no endpoint claims. Nothing ties the endpoint of a key
to those that claim it, so the model has every case.
`granted` is a ghost, with a mark on requests recorded in a bucket that had already left the map.
Time is a tick, bounded by `MaxTime`; a bucket nobody can reach is given back (garbage
collection), so `Buckets` bounds only those alive at a time.

### Shutdown (MCShutdown, ShutdownProofs)

One process from `server.Start` on. `main` and `handler` are the program counters of the
main goroutine and of the signal goroutine, `pending` the one-place `sigChan` and the kind of the signal in it (one
that terminates, or SIGUSR1 and SIGUSR2, which are only logged: `ReceiveUsr`), `registered`
the callback that closes the database, `door` the listener of http.Server, `req` and `left`
the requests in flight and the statements they still have. When `main` returns the process
is over, whatever the handler is doing: `Exit` cuts off what still runs. A signal that finds `sigChan` full is
dropped, whatever its kind (`Signal`).

`HealthzMeansUsable` is about the two checks that read `isShuttingDown`, `/healthz` and `/api/v1/healthz`
(`healthHandler`, `healthCheck`). `GET /api/health`, on the same mux (`api/router.go:28`, `:98`), answers "healthy"
whatever the flag says; no property speaks of it.

### PidFile, Startup (MCStartup, PidFileProofs, StartupProofs)

`PidFile`: the processes of one machine. `kind` says what each PID is, `pc` where each instance is in
`WritePIDFile`, `seen` the PID it read, `file` the content, `writers` the processes
whose open descriptor is of the file that the path names now (a file unlinked meanwhile is written in
vain). `Concurrent` says whether two instances may be starting at once. A process of another user, which answers
signal 0 with EPERM, is taken for one that is gone (`pid/pid_unix.go:26`): `IsProcessRunning` does so too. The
instances themselves run as one user, or as root; under two users, an instance would not see the other's.

`Startup` extends it to the whole start, from `main` to `ListenAndServe`: the actions of `PidFile`
appear as conjuncts beside the new variables, so that a start *is* a run of the PID file's protocol, with the
configuration before it and the keys after it. `config` and `keyFile` are the files, `cfg` and `held`
what each instance has loaded, `stage` how far it is. Ghosts: `edited` (an administrator has written the
configuration), `torn` (a crash hit between create and write), `used` (keys that something was
encrypted or signed with). A file is written in place in two system calls, and a crash can come between
them. A field of the configuration is zero, default or set; `Restored` lists the fields that
`applyDefaults` fills in, `LeftAsRead` those that have a default which it does not restore.

| Action | Code |
|---|---|
| `StartLaunch` | `main` reaches `config.Load` |
| `Stat`, `LoadConfig` | `config.Load`: `os.Stat`; ReadFile, Unmarshal and `applyDefaults` |
| `CreateConfig`, `SaveConfig` | `config.Load` without a file: `Save(GetDefaults())`, the create and the write of `os.WriteFile` |
| `CheckPID`, `WritePID` | `pid.WritePIDFile`, the steps of `PidFile` |
| `LoadKey`, `GenerateKey`, `CreateKeyFile`, `WriteKey` | `LoadOrCreateKey` of `crypto`, then of `jwt` |
| `StartStops`, `StartExit` | the end of `gracefulShutdown`: the PID file is removed; exit |
| `StartCrash` | any end that leaves the files: a kill, or `os.Exit(1)` after an error |
| `Edit`, `Use` | external: the administrator's editor; a request that encrypts or gets a token |

### Accounts (MCAccounts, AccountsProofs)

One account. `row` is its row in `users` (address, password, verified, enabled, failed attempts,
`locked_until`), `account` whether the row is there, `tokens` every token that was signed (nobody can take one
back), `sessions` the rows of `user_sessions` and `admin_sessions`, `team` a team of the user as the deletion's check
sees it: `owner_id`, and the user's row in `team_members`. `reach` says whether the repository's handle reaches
`server.db` besides `users.db`, where `team_members` is not. `req` is as in the other modules; `read` is the row
that a request carries from one statement to the next. `load` is the set of operations of a behaviour
(a bound, see below). Ghosts: `confirmed` (the addresses that were the account's when it was marked as verified),
`before` (the requests under way at the last lock, disabling and deletion), `drawn` (the session ids so far), `unseen`
(the team was gained where the deletion's check could not see it).

| Action | Code |
|---|---|
| `Register`, `MintTokens` | `AuthHandler.Register`: `Create`, and the two tokens |
| `BeginLogin`, `CheckLocked`, `MintTokens`, `RecordLoginSuccess` | `Login` with the right password: the row is read, `LockedUntil` of that row compared, the tokens signed, the counter reset |
| `BeginFailure`, `CountFailure`, `LockAccount` | `Login` with a wrong one: the two statements of `RecordLoginFailure` |
| `Refresh`, `MintAccessToken` | `Refresh`: `ValidateToken`, `GetByID`; a new access token |
| `BeginChangePassword`, `VerifyPassword`, `UpdatePassword` | `ChangePassword`: `GetByID`, `Authenticate`, `UpdatePassword`; a wrong password counts as it does in `Login`, by `CountFailure` and `LockAccount` |
| `BeginUpdate`, `Update` | `UsersHandler.Update`: `GetByID` and the changes in memory; one UPDATE of every column |
| `SetVerified`, `SetEnabled` | the functions of the same names |
| `BeginDelete`, `RemoveFromTeams`, `DeleteSessions`, `DeleteRow` | `UsersHandler.Delete`: `ListByUser`; the three statements of `UsersRepository.Delete` |
| `BeginSession`, `CreateUserSession`, `CreateAdminSession` | the creation of sessions |
| `GetSession`, `TouchSession` | `GetUserSession`, `GetAdminSession`: SELECT, then UPDATE of `last_active` |
| `DeleteSession`, `DeleteAllSessions` | the four `Delete...Session(s)` |
| `BeginCleanup`, `CleanupAdminSessions`, `CleanupUserSessions` | `CleanupExpiredSessions`: the clock, and a statement on each database |
| `GainTeam`, `LoseTeam` | external: what `Teams` does to this user |
| `Unauthorized`, `StatementFails`, `Tick` | 401; an error of a statement; the clock |

Left out: the other columns of a profile, listings, the audit entries of these requests, whose errors are
dropped and which no request reads, and the rate limits (`RateLimiter`).

### ApiKeys (MCApiKeys, ApiKeysProofs)

The keys of one owner. `keys` is the table `api_keys` (per key: whether the row is there, `enabled`,
`expires_at`), `req` the statement each request executes next and what a rotation carries in local
variables, `now` the clock in the unit of `expires_at`. Ghosts: `origin`, the first key of the lineage that
rotations made of it; `revoked`, the keys switched off, deleted or rotated away and not enabled
since; `disturbed`, the lineages in which a request disabled or deleted a key. The row of a key that has
left the table keeps its expiry in the model, which only properties read. `Retire` is the last statement of a
rotation and the reply in one: that a crash between the two loses the plaintext of the new key, which is stored nowhere,
is not in the model. The owner can still rotate or delete that key by its id.

| Action | Code |
|---|---|
| `CreateKey` | `APIKeysHandler.Create` and `CreateKey`: the expiry from `expires_in`, one INSERT |
| `BeginDelete`, `BeginDisable`, `BeginEnable`, `BeginRotate` | the handlers' `GetByID` and check of the owner |
| `Delete`, `Disable`, `Enable` | the one statement each of them executes |
| `Reread`, `InsertSuccessor`, `Retire` | `RotateKey`: `GetByID`, `CreateKey`, `Disable` |
| `Validate`, `Touch`, `Unauthorized` | `authenticateRequest`, `ValidateKey`: SELECT and check of the expiry, then UPDATE of the counter; 401 |
| `Cleanup` | `CleanupExpiredKeys`, which nothing calls yet |
| `StatementFails`, `Crash`, `Tick` | the environment |

Left out: names, scopes and the rate limit, which no handler changes; `last_used` and `use_count`; the
listing; requests for a key of somebody else, which are refused before they change anything.

## Runs

| Run | What it shows | Bounds, and why they are enough |
|---|---|---|
| `secret_conc` | acknowledged versions are kept, rollbacks are exact, no orphans, no resurrection, no audit entry without a version: with two requests at once and every fault | 1 secret, 2 values and 1 metadata text besides the empty ones, 3 versions, 2 slots: two requests meet at every pair of statements; a third adds no new pair. Requests on different secrets share only the path check |
| `secret_serial` | one request at a time: history and audit complete, refinement of `VersionedStore`, also when the team goes | 2 secrets, on one path, for which they compete, or on two, so that the team's deletion purges both; 3 versions |
| `secret_race` | violated: the current content is in the history | as above, no fault needed |
| `teams` | owners accounted for, nothing outlives the team, ownership passes on only by a transfer whose checks were passed; and, as long as requests do not overlap, one owner in both tables, and a transfer's checks still hold when it commits | 3 users (owner, other, bystander), 2 slots, 1 invitation, failing statements: every pair of requests meets at every pair of statements, on the same or on different members |
| `teams_transfer_race` | violated: the owner has the role | 2 slots, no fault |
| `limiter` | limits, no unfair refusal, the sweep leaves nothing dead of the keys it matches | 2 endpoints with different limits and windows, 3 keys, one of them matched by no endpoint, 2 callers, 3 ticks: more than the longest window, so that every request can expire |
| `limiter_prefix` | violated: the limit, for `api_key_create` | 1 key claimed by two endpoints, limits scaled down to 2 per tick and 1 per 3 ticks |
| `shutdown` | `/healthz` is honest, losses are announced there, the PID file goes last, a terminating signal that was received ends the process | 3 requests of 2 statements |
| `shutdown_cut` | violated: a drain that did not time out cuts nobody off | 2 requests of 1 statement |
| `startup` | a start names itself in the PID file, never replaces a key in use, and runs with a complete configuration | 3 PIDs: one that serves, one that starts, and one to be reused by another program; 4 keys: two files, and each made anew once after a crash. `Concurrent = FALSE`, see Observations |
| `api_keys` | revoked keys stay off, rotations neither extend nor lock out, the cleanup spares what is valid | 3 keys: a chain of two rotations, or two rotations of one key at once; 2 slots; 2 ticks and a lifetime of 1, so that a key and its successors can expire |
| `accounts` | locks hold, updates undo only what they had read, a deleted account issues nothing, sessions end once | 2 slots, 2 addresses, 2 passwords, 2 sessions; `MaxFailures` 2 for 5, `LockTime` 2, `MaxTime` 4: a lock is set, expires and is set again. `Workloads`: nine sets of operations that run together, chosen so that every pair that writes the same columns or rows is in one of them |

Bounds of the modules: `MaxVersion` (no request starts that could push a version beyond it),
`MaxTime`, and `Workloads`; a wrong password is tried while the counter is not above
`MaxFailures`, after which nothing new can happen. The proofs hold for every value of the first three.

Deadlock is checked in every run: a table that has used up its ids can still be asked for a secret
that is not there (`NotFound`), a team that is gone still refuses (`Refused`), a request without a valid
token still gets its 401 (`Unauthorized`), and a process that has ended stays ended (`Ended`).

The four violations are disagreements between the code and what its own comments or README
say; `findings` in `PROJECT.json` quotes them. Each is also a boundary of the properties beside
it: `CurrentInHistory` holds when requests that overlap are at work on different secrets (`CurrentIsInHistory`),
and `OwnerHasRole` when they do not overlap at all (`OwnerHasRoleSerially`); both fail otherwise; `WithinLimitInMap` holds unless one endpoint's name begins another's.

## Fairness

One run has fairness, `shutdown`: `Shutdown!FairSpec` says that the main and the signal goroutine are scheduled, as
the Go runtime does. Nothing is assumed of the requests, which may hang for ever, nor of the arrival of a signal.
`SignalEnds` speaks of a terminating signal that is in `sigChan`; one that was dropped behind another is lost.

## Proofs

Each theorem is for every value of the constants. All proofs are in modules of their own.

* **SecretStoreProofs**. `IInv == TypeInv /\ StoreInv`. The properties are not inductive by
  themselves: that an acknowledged version is in the history needs that a request which is
  about to acknowledge has put its row there; that a rollback is exact needs that, from the read of the
  target on, the request carries the content of a row that is still in the history. `StoreInv` states
  both, and that (secret, version) is a key of the history, for every statement a request can be at. From
  it: `TypeCorrect`, `AckedVersionsKept`, `RollbacksExact`, `NoOrphans`, and the action property
  `HistoryKept`. `NoResurrection` needs beside it what each statement does to the status of a row
  (`DeletedStaysDeleted`). All this holds for any number of overlapping requests and any faults, and so does
  `AuditNeverAhead`: entries and requests that still have to write theirs, counted together, are no more than the
  versions of a secret (`CountInv`). `Requests` need not be finite for that: in every
  reachable state finitely many requests are in flight (`FiniteInv`).

  The other theorems have two hypotheses. `NoFailure`: no statement fails and nothing crashes, but the team may be
  deleted at any moment. `Apart`, of every state of the behaviour: no two requests are at work on one secret.
  It is weaker than what `secret_serial` checks, one request at a time, where it holds trivially (`OneSlotIsApart`);
  requests on different secrets may overlap. `ApartInv` says what a request may then rely on between its
  statements: rows that are gone are empty (`RowsInv`), the secret a request has read
  is still live or was purged (`SeenInv`), an operation only comes to its own statements (`StageInv`), the
  history has every version up to the row's but for one that a request is about to insert
  (`HistoryInv`), and what a request carries still is the row's version and a patch of the row's
  content (`CarriesInv`; this is what a second request on the secret breaks). It gives `HistoryIsComplete`
  and `CurrentIsInHistory`; with the counting of entries in the other direction (`CoveredInv`), `AuditIsComplete`.
  `ImplementsVersionedStore` follows from one lemma per statement: SELECTs, INSERTs of a version and audit
  entries map to stutters, the INSERT of a row, its UPDATE and the two forms of DELETE to `New`, `Update` or
  `Rollback`, `Delete` and `Purge`, and the deletion of the team to the purge of all its secrets.
* **TeamsProofs**. `OwnersAccounted` and `NothingOutlivesTeam` are inductive with the type invariant and
  what each statement knows of the request: `TypeCorrect`, `OwnersAlwaysAccounted`, `DeletedForGood`. `SerialInv`
  says what a request that runs alone may rely on at each statement (the target of a removal is not the owner,
  the target of a transfer is a member, the actor still owns the team, a team without its owner's row
  has its creation under way): from it `OwnerKeepsRole`. `HistoryInv` says what remains when requests overlap: what
  the checks of a transfer saw was so once (its actor is in `owned`, its target past the second check in `joined`).
  The action property `OwnersConsent` joins the two, for any number of requests that overlap and any failures.
* **ShutdownProofs**. `IInv` joins the type invariant, `MainInv` (what main has done at each
  step), `HandlerInv` (likewise) and `LossAnnounced`: `TypeCorrect`, `HealthzIsHonest`,
  `LossIsAnnounced`, `PidFileGoesLast`.
* **ApiKeysProofs**. `IInv` joins `Struct` (rows that are not in the table are disabled; the keys of
  a lineage expire together, and so will the one a rotation is about to insert; a revoked key is not enabled)
  and `SpareInv`: an undisturbed lineage that has not expired has a key which is accepted and which no
  rotation is about to disable (the one inserted last). `RotationNeverLocksOut` alone is not inductive:
  the last accepted key could be the one a second rotation disables next. From it: `TypeCorrect`, `RevokedForGood`, `NoExtension`,
  `NeverLockedOut`, and the action property `CleanupIsSparing`.
* **PidFileProofs**, under the hypothesis `~Concurrent`. `OneStarter` (at most one instance is
  starting), `NoRival` (while one is past the check, nobody serves), `SeenServer` and
  `WriterHasFile` make `FileNamesServer` inductive: `ServerIsNamed`. Without the hypothesis
  it is false (below).
* **StartupProofs**. `StartImplementsPidFile`: every start is a behaviour of `PidFile!Spec`, so that everything
  proved of the PID file carries over. Under `~Concurrent`, `StageInv` (which stages go with which step of
  the PID file, and who can be writing which file), `ConfigInv` and `KeyInv` (an instance that is up holds what
  the key files contain; a file that is being replaced was never used) give `StartTypeCorrect`,
  `ConfigurationsUsable` and `KeysAreKept`.
* **AccountsProofs**. The types need to know what a request carries from one statement to the next (`ReqTypes`: a
  profile carries a row, a cleanup a clock that is not in the future; who is idle carries nothing). On it
  rest, for any number of overlapping requests: `LocksHold` by `LockInv` (a login that still has to look at the lock has
  read this lock, or had begun before it), `ColumnsHold` by `ColumnInv` (what an update is about to write was verified
  when it was read; whoever read an account that is disabled by now had begun before), `DeletionHolds` by `GoneInv`
  (requests that could still sign or make something were under way at the deletion; a team that is owned
  while its owner is hidden from the check, or past it, was gained unseen), and `SessionsHold`, for
  which the clock of a cleanup being in the past is enough.
* **RateLimiterProofs**. `LockInv` holds however the cleanup matches keys: a bucket serves one key
  (`HeldForOneKey`), is empty when it is handed out (`FreshIsEmpty`), and what it counts was granted to
  its key (`CountedWasGranted`). From it: `TypeCorrect`, and by an injection of what is counted
  into what was granted, `RefusedWereServed`. A bucket of a claimed key that the sweep has passed has kept something
  (`PassedIsAlive`), so `SweepIsThorough` needs no hypothesis; it says nothing of keys that no endpoint claims. Under `SureOfEndpoint` (no other endpoint's name begins the key;
  `limiter_prefix` shows what happens otherwise) `LimitInv` is inductive too: what was granted in the
  window is still counted, and no bucket that is in use counts more than the limit: `LimitHolds`. Two theorems say that counting in sets loses nothing, again however
  keys are matched: the requests of one tick are numbered without repetition in a bucket, and neither a sweep nor a
  decision takes one of this tick away (`FreshInv`). So the stamp that is added is never
  there yet (`NoStampTwice`: the set has as many members as the slice has entries), and each request recorded in the map is a
  grant of its own (`NoGrantTwice`: the ghost that `WithinLimitInMap` counts misses none).

The assumptions are those of the modules on their constants, each evaluated by TLC in the
runs, and the hypotheses named above: `NoFailure` with `[]Apart`, `~Concurrent`, `SureOfEndpoint`. Each of
them is needed: the code breaks the conclusion without it, as the violated runs and the observations below show.

Only model-checked: liveness (`SignalEnds`), which is out of the provers' reach. Every
other property of a passing run is stated by a theorem.

## Observations

Seen while modelling, and not stated as a run:

* `api/secrets.go:661` after a successful rollback the handler reads the secret again, drops the
  error and uses the result; deleted in between, it is a nil pointer. net/http recovers; the
  rollback stands and is not logged (`Panic`).
* `api/secrets.go:444` the error of the audit entry is dropped; `README.md` promises a
  complete trail. `AuditComplete` therefore holds only while no statement fails.
  `api/secrets.go:665`, under the comment "Log rollback", logs an update.
* `repository/secrets.go:313` GetVersions leaves the values out.
* `api/teams.go:439` AddMember accepts the role `owner`, which UpdateMember refuses (`:574`): `granted`.
* `repository/teams.go:53` the team stays when the second statement of Create fails; its owner is no
  member. `OwnerHasRole` therefore holds only while no statement fails.
* `repository/teams.go:227` the transaction reads the owner again but does not compare it with the
  actor: of two transfers the later wins, at the request of a user who owns the team no more. `:251` a
  member who was removed in between comes back as the owner.
* `auth/ratelimit.go:78` a bucket that the sweep deletes between the two locks takes the request with it;
  the next one finds a new bucket. `WithinLimitInMap` does not count these.
* `api/teams.go:625` the error of `GetByID` is dropped in RemoveMember; with it goes the check that the target is not the
  owner, and the removal goes on: the second way in which a team loses its owner's row.
* `auth/ratelimit.go:173` the buckets of keys without an identifier are never swept.
* `auth/apikey.go:310` the error of the last statement of a rotation is dropped: the answer is success, with
  the old key still valid. Two rotations of one key that overlap leave two successors. `:298` a key that is
  disabled can be rotated, too, and its successor is enabled; `revoked` holds the keys themselves, not
  their lineage. The rate limit of a key is not copied (`:304`).
* `repository/users.go:150` the deletion of a user addresses `team_members`, in `server.db`, and `users`, in
  `users.db`, through one handle. Over `users.db` alone the first statement fails and no user is ever deleted
  (`reach`). It leaves the user's API keys, and the middleware does not look at the user that a key belongs to.
* `api/users.go:210` the check that the user owns no team sees those that `ListByUser` joins with
  `team_members`: an owner without a membership row passes it. A deleted user who has a token that has not expired
  can create a team. `DeletionIsFinal` leaves both out by `unseen`.
* `api/auth.go:251` a refresh looks the user up "to ensure they still exist and are active", and does not look at `enabled`;
  neither does the model's `Refresh`, and no property claims it.
* `repository/users.go:185` the counter of failures is not reset when a lock expires: the next failure locks again.
* `api/users.go:140` an update writes every column as it was read, `enabled` included, and so enables an account
  that an administrator has disabled in between: the second disjunct of `ColumnsFollowReads`.
* `repository/teams.go:446` an invitation that was accepted can be accepted again by others, and one that has expired, too.
* `api/apikeys.go:310` a crash between the last statement of a rotation and its reply loses the plaintext of the new key,
  while the old one is disabled already.
* `config/config.go:386` "Apply defaults for missing fields" does not restore the switches that are on by default
  (`LeftAsRead`): a file that leaves them out turns them off, rate limiting and versioning included, and so does
  the empty file that a crash during the first start leaves.
* `crypto/crypto.go:65` a key file that is short, or cannot be read, is replaced by a new key. `KeyKept`
  therefore rests on starts that do not overlap and on files that can be read.
* `signal/signal.go:92` the database is closed before the requests are drained; those that still have
  statements to run fail.
* `api/router.go:98` `GET /api/health` answers "healthy" during the shutdown, also once the database is closed.
* `signal/signal_unix.go:17` every signal goes through a channel of one place: a SIGTERM that arrives while a SIGUSR1
  has not been read yet is lost, and the process goes on.
* `server/server.go:102` main returns while the handler is draining, so the PID file usually stays.
* `pid/pid.go:65` the file is created without O_EXCL, so two instances that start together can both pass
  the check (`:48`): with `Concurrent = TRUE` both serve, and `FileNamesServer` fails; two
  starts can then make a key each, of which the file keeps one. `:37` an instance that has been
  given the PID in its own stale file, as happens in a container, takes itself for a running one and refuses to start.
* `pid/pid_unix.go:26` any error of signal 0 counts as "not running", EPERM included: the PID file of an instance of
  another user is removed, if the directory allows it.

## What is not modelled

Encryption, hashing, JWT signatures: library code whose results no property tells apart. Routing and JSON:
no state. Paths, mode, the command line and `config/bool.go`: pure, and the maintenance commands are
stubs. Search, listing and the audit log's `Query` and export: reads only. `CleanupOldEntries` of the audit log, `SetLimit`, `Reset` and
`Remaining` of the rate limiter, `GenerateAPIToken` and `RemovePIDFile` have no caller. A team's name and a user's
display name: no property depends on them. Cookies: headers only. Windows variants: the same calls answered by other
system calls.

## What could come next

1. Abstract specifications of the other components, as `VersionedStore` is for the secrets (a team with one owner,
   a limiter as a sliding window), with their refinements checked and proved.
2. The audit log as a component of its own, with `CleanupOldEntries` beside requests that write; `SetLimit` and
   `Reset` in `RateLimiter`, once something calls them.
3. `Accounts` composed with `ApiKeys`, once the middleware looks at the user that a key belongs to, and with `Teams`
   in place of `GainTeam` and `LoseTeam`.
