-------------------------------- MODULE Teams --------------------------------
(***************************************************************************)
(* One team: its row in the table teams, its rows in team_members, an      *)
(* invitation, and the HTTP requests that create the team, change its      *)
(* members, hand it over and delete it (repository/teams.go under          *)
(* api/teams.go).                                                          *)
(*                                                                         *)
(* An owner is recorded twice: teams.owner_id names one user, and that     *)
(* user's row in team_members has the role "owner".  TransferOwnership    *)
(* and Delete keep the two together in a transaction, which is one action  *)
(* here; every other request is a sequence of statements that other        *)
(* requests can come between.  Left out: a team's name and description,    *)
(* and the audit entries, which nothing reads back.                        *)
(***************************************************************************)
EXTENDS Naturals, FiniteSets

CONSTANTS
  Users,     \* the users who send requests and are members
  Requests,  \* request slots of the server
  Nobody,    \* no user, no role: SQL's missing row
  Ops,       \* the operations that requests ask for: a subset of Op
  Faults     \* {"statement"}: a statement can return an error; or {}

Op == {"create", "add", "update", "remove", "transfer", "delete", "invite"}

ASSUME NobodyAssumption == Nobody \notin Users \cup {"owner", "admin", "member"}
ASSUME OpsAssumption == Ops \subseteq Op
ASSUME FaultsAssumption == Faults \subseteq {"statement"}

VARIABLES
  team,     \* "none" before the team is created, "live", "gone" once deleted
  ownerId,  \* teams.owner_id
  role,     \* team_members: the role of each user, Nobody without a row
  req,      \* what each request slot is doing
  invitation, \* team_invitations: the role of a row, Nobody without one
  granted,  \* ghost: who was made an owner by an insertion into team_members
  joined,   \* ghost: who has had a row in team_members ...
  owned,    \* ghost: ... and who has been the user of owner_id
  disturbed \* ghost: two requests have overlapped, or a statement has failed

vars == <<team, ownerId, role, req, invitation, granted, joined, owned, disturbed>>

Role == {"owner", "admin", "member"}

PC == {"idle", "member", "insert", "check", "select", "write", "target", "commit"}

\* The actor is kept for a transfer, about which OwnerConsents is.
Request == [pc : PC, op : Op \cup {"none"}, actor : Users \cup {Nobody},
            user : Users \cup {Nobody}, role : Role \cup {Nobody}]

Idle == [pc |-> "idle", op |-> "none", actor |-> Nobody, user |-> Nobody,
         role |-> Nobody]

Init ==
  /\ team = "none"
  /\ ownerId = Nobody
  /\ role = [u \in Users |-> Nobody]
  /\ req = [r \in Requests |-> Idle]
  /\ invitation = Nobody
  /\ granted = {}
  /\ joined = {}
  /\ owned = {}
  /\ disturbed = FALSE

-----------------------------------------------------------------------------
(* Helpers *)

IsMember(u) == role[u] # Nobody

\* "Check if user is owner or admin"
MayManage(u) == role[u] \in {"owner", "admin"}

Busy == {r \in Requests : req[r].pc # "idle"}

Start(r, pc, op, actor, user, newRole) ==
  /\ op \in Ops
  /\ req[r].pc = "idle"
  /\ disturbed' = (disturbed \/ Busy # {})
  /\ req' = [req EXCEPT ![r] = [pc |-> pc, op |-> op, actor |-> actor,
                                user |-> user, role |-> newRole]]

At(r, pc, op) == req[r].pc = pc /\ req[r].op = op

Goto(r, pc) == req' = [req EXCEPT ![r].pc = pc] /\ UNCHANGED disturbed

Finish(r) == req' = [req EXCEPT ![r] = Idle] /\ UNCHANGED disturbed

\* Goes on to pc if the condition holds and answers with an error otherwise.
Check(r, condition, pc) == IF condition THEN Goto(r, pc) ELSE Finish(r)

-----------------------------------------------------------------------------
(* Create: the row of the team, then the row of its owner.                 *)

CreateTeam(r, actor) ==
  /\ team = "none"
  /\ Start(r, "member", "create", Nobody, actor, "owner")
  /\ team' = "live"
  /\ ownerId' = actor
  /\ UNCHANGED <<role, invitation, granted>>

\* team_members is UNIQUE(team_id, user_id) and refers to teams(id)
MayInsert(u) == team = "live" /\ ~IsMember(u)

InsertOwner(r) ==
  /\ At(r, "member", "create")
  /\ role' = IF MayInsert(req[r].user)
               THEN [role EXCEPT ![req[r].user] = "owner"] ELSE role
  /\ Finish(r)
  /\ UNCHANGED <<team, ownerId, invitation, granted>>

(* AddMember: any role isValidRole knows is accepted, "owner" included.    *)

BeginAdd(r, actor, u, newRole) ==
  /\ MayManage(actor)
  /\ Start(r, "insert", "add", Nobody, u, newRole)
  /\ UNCHANGED <<team, ownerId, role, invitation, granted>>

AddMember(r) ==
  /\ At(r, "insert", "add")
  /\ IF MayInsert(req[r].user)
       THEN /\ role' = [role EXCEPT ![req[r].user] = req[r].role]
            /\ granted' = IF req[r].role = "owner" THEN granted \cup {req[r].user}
                          ELSE granted
       ELSE UNCHANGED <<role, granted>>
  /\ Finish(r)
  /\ UNCHANGED <<team, ownerId, invitation>>

(* UpdateMember: the repository reads the member's role and writes it in   *)
(* two statements.                                                         *)

\* "Cannot assign owner role directly; use transfer ownership"
Assignable == Role \ {"owner"}

BeginUpdate(r, actor, u, newRole) ==
  /\ MayManage(actor)
  /\ newRole \in Assignable
  /\ Start(r, "select", "update", Nobody, u, newRole)
  /\ UNCHANGED <<team, ownerId, role, invitation, granted>>

\* SELECT role: "owners cannot be removed", "cannot change owner's role"
SelectRole(r) ==
  /\ req[r].pc = "select"
  /\ Check(r, IsMember(req[r].user) /\ role[req[r].user] # "owner", "write")
  /\ UNCHANGED <<team, ownerId, role, invitation, granted>>

UpdateMemberRole(r) ==
  /\ At(r, "write", "update")
  /\ role' = IF IsMember(req[r].user)
               THEN [role EXCEPT ![req[r].user] = req[r].role] ELSE role
  /\ Finish(r)
  /\ UNCHANGED <<team, ownerId, invitation, granted>>

(* RemoveMember: owners and admins remove anyone but the owner, and others *)
(* themselves.  The handler compares with owner_id, the repository, in two *)
(* more statements, with the role.                                         *)

BeginRemove(r, actor, u) ==
  /\ MayManage(actor) \/ actor = u
  /\ Start(r, "check", "remove", Nobody, u, Nobody)
  /\ UNCHANGED <<team, ownerId, role, invitation, granted>>

CheckNotOwner(r) ==
  /\ At(r, "check", "remove")
  /\ Check(r, team # "live" \/ ownerId # req[r].user, "select")
  /\ UNCHANGED <<team, ownerId, role, invitation, granted>>

\* mutant: the row is kept, with an empty role
RemoveMemberBlank(r) ==
  /\ At(r, "write", "remove")
  /\ role' = [role EXCEPT ![req[r].user] = ""]
  /\ Finish(r)
  /\ UNCHANGED <<team, ownerId, invitation, granted>>

RemoveMember(r) ==
  /\ At(r, "write", "remove")
  /\ role' = [role EXCEPT ![req[r].user] = Nobody]
  /\ Finish(r)
  /\ UNCHANGED <<team, ownerId, invitation, granted>>

(* TransferOwnership: the handler checks the actor, then the new owner; the *)
(* repository does the rest in a transaction.                              *)

\* mutant: admins may transfer
BeginTransferAdmin(r, actor, u) ==
  /\ team = "live"
  /\ MayManage(actor)
  /\ Start(r, "target", "transfer", actor, u, Nobody)
  /\ UNCHANGED <<team, ownerId, role, invitation, granted>>

BeginTransfer(r, actor, u) ==
  /\ team = "live"
  /\ ownerId = actor
  /\ Start(r, "target", "transfer", actor, u, Nobody)
  /\ UNCHANGED <<team, ownerId, role, invitation, granted>>

\* mutant: the new owner may be anyone
CheckNoOne(r) ==
  /\ At(r, "target", "transfer")
  /\ Goto(r, "commit")
  /\ UNCHANGED <<team, ownerId, role, invitation, granted>>

CheckNewOwner(r) ==
  /\ At(r, "target", "transfer")
  /\ Check(r, IsMember(req[r].user), "commit")
  /\ UNCHANGED <<team, ownerId, role, invitation, granted>>

\* mutant: the old owner keeps the role
RolesOldKept(u) == [role EXCEPT ![u] = "owner"]

\* mutant: the roles are written in the other order
RolesSwapped(u) ==
  [v \in Users |-> IF v = ownerId /\ IsMember(v) THEN "admin"
                   ELSE IF v = u THEN "owner" ELSE role[v]]

\* the old owner's row is updated first, the new owner's updated or inserted next
RolesAfterTransfer(u) ==
  [v \in Users |-> IF v = u THEN "owner"
                   ELSE IF v = ownerId /\ IsMember(v) THEN "admin" ELSE role[v]]

\* mutant: a team that is gone gets a new owner all the same
TransferBlindly(r) ==
  /\ At(r, "commit", "transfer")
  /\ ownerId' = req[r].user
  /\ role' = RolesAfterTransfer(req[r].user)
  /\ Finish(r)
  /\ UNCHANGED <<team, invitation, granted>>

\* The current owner is read again, but not compared with the actor.
TransferOwnership(r) ==
  /\ At(r, "commit", "transfer")
  /\ IF team = "live"
       THEN ownerId' = req[r].user /\ role' = RolesAfterTransfer(req[r].user)
       ELSE UNCHANGED <<ownerId, role>>
  /\ Finish(r)
  /\ UNCHANGED <<team, invitation, granted>>

(* Delete: the owner's right is checked before the transaction, which      *)
(* takes the invitations, too.                                             *)

BeginDelete(r, actor) ==
  /\ team = "live"
  /\ ownerId = actor
  /\ Start(r, "commit", "delete", Nobody, Nobody, Nobody)
  /\ UNCHANGED <<team, ownerId, role, invitation, granted>>

DeleteTeam(r) ==
  /\ At(r, "commit", "delete")
  /\ team' = "gone"
  /\ ownerId' = Nobody
  /\ role' = [u \in Users |-> Nobody]
  /\ invitation' = Nobody
  /\ Finish(r)
  /\ UNCHANGED granted

(* Invitations.  No handler calls these three yet, each of which is one    *)
(* statement or one transaction; external: the caller that invites has     *)
(* checked that the actor may.  accepted_at and expires_at are written, and *)
(* no statement here looks at them: an invitation admits until it is       *)
(* deleted.                                                                *)

CreateInvitation(actor, newRole) ==
  /\ "invite" \in Ops
  /\ team = "live"
  /\ MayManage(actor)
  /\ invitation = Nobody
  /\ invitation' = newRole
  /\ UNCHANGED <<team, ownerId, role, req, granted, disturbed>>

Stands == invitation # Nobody

\* An insertion that is rejected rolls the transaction back.
AcceptInvitation(u) ==
  /\ Stands
  /\ MayInsert(u)
  /\ role' = [role EXCEPT ![u] = invitation]
  /\ granted' = IF invitation = "owner" THEN granted \cup {u} ELSE granted
  /\ UNCHANGED <<team, ownerId, req, invitation, disturbed>>

DeleteInvitation ==
  /\ Stands
  /\ invitation' = Nobody
  /\ UNCHANGED <<team, ownerId, role, req, granted, disturbed>>

\* A statement, or a transaction, fails and leaves the tables as they are, and the request
\* ends.  A transaction whose snapshot has been overtaken by another writer fails, too.
\* RemoveMember drops the error of the read for its check, and goes on without the check.
StatementFails(r) ==
  /\ "statement" \in Faults
  /\ req[r].pc # "idle"
  /\ IF At(r, "check", "remove") THEN req' = [req EXCEPT ![r].pc = "select"]
                                ELSE req' = [req EXCEPT ![r] = Idle]
  /\ disturbed' = TRUE
  /\ UNCHANGED <<team, ownerId, role, invitation, granted>>

\* Requests to a team that is gone are answered with 403 or 404.
Refused == team = "gone" /\ UNCHANGED vars

-----------------------------------------------------------------------------

Begin(r) ==
  \E actor \in Users :
    \/ CreateTeam(r, actor)
    \/ \E u \in Users, newRole \in Role :
         BeginAdd(r, actor, u, newRole) \/ BeginUpdate(r, actor, u, newRole)
    \/ \E u \in Users : BeginRemove(r, actor, u) \/ BeginTransfer(r, actor, u)
    \/ BeginDelete(r, actor)

Step(r) ==
  \/ InsertOwner(r) \/ AddMember(r)
  \/ SelectRole(r) \/ UpdateMemberRole(r)
  \/ CheckNotOwner(r) \/ RemoveMember(r)
  \/ CheckNewOwner(r) \/ TransferOwnership(r)
  \/ DeleteTeam(r)

Invitations ==
  \/ \E u \in Users : AcceptInvitation(u) \/ \E newRole \in Role : CreateInvitation(u, newRole)
  \/ DeleteInvitation

Change ==
  \/ \E r \in Requests : Begin(r) \/ Step(r) \/ StatementFails(r)
  \/ Invitations
  \/ Refused

\* The ghosts joined and owned follow every change of the tables.
Remember ==
  /\ joined' = joined \cup {u \in Users : IsMember(u)'}
  /\ owned' = owned \cup ({ownerId'} \cap Users)

Next == Change /\ Remember

Spec == Init /\ [][Next]_vars

-----------------------------------------------------------------------------
(* Properties of any number of concurrent requests *)

\* Every table and every request holds what its columns and fields can hold.
TypeOK ==
  /\ team \in {"none", "live", "gone"}
  /\ ownerId \in Users \cup {Nobody}
  /\ role \in [Users -> Role \cup {Nobody}]
  /\ req \in [Requests -> Request]
  /\ invitation \in Role \cup {Nobody}
  /\ granted \subseteq Users
  /\ joined \subseteq Users /\ owned \subseteq Users
  /\ disturbed \in BOOLEAN

\* Transfers that overlap never leave two owners: whoever has the role is the one
\* that owner_id names, or was added as an owner by AddMember.
OwnersAccounted ==
  \A u \in Users : role[u] = "owner" => u = ownerId \/ u \in granted

\* No transfer or insertion that was under way when the team was deleted leaves a
\* member of, or an owner to, a team that no longer exists.
NothingOutlivesTeam ==
  team # "live" => ownerId = Nobody /\ \A u \in Users : ~IsMember(u)

\* "Only owner can transfer" and "New owner must be a team member": ownership passes on
\* only by a transfer that its owner has asked for, to a member of the team.  Of requests
\* that overlap, both may be of the past by the time the transaction commits: then the
\* actor has been the owner once, and the new owner a member.
OwnerConsents ==
  [][team = "live" /\ team' = "live" /\ ownerId' # ownerId =>
       \E r \in Requests :
         /\ req[r].op = "transfer" /\ req'[r] = Idle
         /\ req[r].actor \in owned /\ ownerId' \in joined
         /\ ~disturbed => req[r].actor = ownerId /\ IsMember(ownerId')]_vars

-----------------------------------------------------------------------------
(* Properties that hold until requests overlap or a statement fails *)

Quiet == Busy = {}

\* "owners cannot be removed", nor lose the role but by a transfer: when nothing is
\* under way the user that owner_id names has the role "owner".
OwnerHasRole == team = "live" /\ Quiet => role[ownerId] = "owner"

\* The same of a team whose requests have come one after the other, whoever was added,
\* invited, demoted, removed and made an owner in between.
OwnerHasRoleSerially == ~disturbed => OwnerHasRole
=============================================================================
