----------------------------- MODULE TeamsProofs -----------------------------
(***************************************************************************)
(* Theorems about Teams, for any users, any number of concurrent requests, *)
(* any mix of operations and failing statements.                           *)
(***************************************************************************)
EXTENDS Teams, TLAPS

-----------------------------------------------------------------------------
(* The inductive invariant *)

\* What a request carries fits its operation.
ReqOK ==
  \A r \in Requests :
    /\ req[r].pc \notin {"idle", "commit"} => req[r].user \in Users
    /\ req[r].op = "transfer" => req[r].user \in Users
    /\ req[r].pc = "insert" => req[r].role \in Role
    /\ req[r].op = "update" => req[r].role \in {"admin", "member"}

TypeInv == TypeOK /\ ReqOK

\* A creation that still owes the owner's row.
Owes(r) == At(r, "member", "create")

\* Until a team has its owner's row nobody has a role in it, so that no request gets
\* as far as to write one.
NoMembersYet ==
  /\ invitation = Nobody
  /\ \A u \in Users : ~IsMember(u)
  /\ \A r \in Requests : /\ req[r].pc \notin {"insert", "write"}
                         /\ ~At(r, "commit", "transfer")

CreateInv ==
  /\ team = "none" => NoMembersYet /\ ownerId = Nobody /\ \A r \in Requests : ~Owes(r)
  /\ \A r \in Requests : Owes(r) /\ team = "live" => NoMembersYet /\ ownerId = req[r].user
  /\ \A q, r \in Requests : Owes(q) /\ Owes(r) => q = r
  /\ team = "live" => ownerId \in Users

IInv == TypeInv /\ CreateInv /\ NothingOutlivesTeam /\ OwnersAccounted

-----------------------------------------------------------------------------

LEMMA InitIInv == Init => IInv
<1> SUFFICES ASSUME Init PROVE IInv
  OBVIOUS
<1>1. Idle \in Request
  BY DEF Idle, Request, PC
<1>2. TypeInv
  BY <1>1 DEF Init, TypeInv, TypeOK, ReqOK, Idle
<1>3. CreateInv
  BY DEF Init, CreateInv, NoMembersYet, Owes, At, IsMember, Idle
<1>4. NothingOutlivesTeam /\ OwnersAccounted
  BY NobodyAssumption DEF Init, NothingOutlivesTeam, OwnersAccounted, IsMember
<1>5. QED
  BY <1>2, <1>3, <1>4 DEF IInv

\* The types, action by action.

LEMMA GotoType ==
  ASSUME TypeInv, NEW r \in Requests, NEW pc \in PC \ {"insert"}, Goto(r, pc),
         req[r].pc \notin {"idle", "commit"}
  PROVE  req' \in [Requests -> Request] /\ ReqOK' /\ disturbed' \in BOOLEAN
<1>1. req' \in [Requests -> Request]
  BY DEF TypeInv, TypeOK, Goto, Request
<1>2. ReqOK'
  BY DEF TypeInv, TypeOK, ReqOK, Goto, Request
<1>3. disturbed' \in BOOLEAN
  BY DEF Goto, TypeInv, TypeOK
<1>4. QED
  BY <1>1, <1>2, <1>3

LEMMA FinishType ==
  ASSUME TypeInv, NEW r \in Requests, Finish(r)
  PROVE  req' \in [Requests -> Request] /\ ReqOK' /\ disturbed' \in BOOLEAN
<1>1. Idle \in Request
  BY DEF Idle, Request, PC
<1>2. req' \in [Requests -> Request]
  BY <1>1 DEF TypeInv, TypeOK, Finish
<1>3. ReqOK'
  BY DEF TypeInv, TypeOK, ReqOK, Finish, Idle
<1>4. disturbed' \in BOOLEAN
  BY DEF Finish, TypeInv, TypeOK
<1>5. QED
  BY <1>2, <1>3, <1>4

LEMMA StartType ==
  ASSUME TypeInv, NEW r \in Requests, NEW pc \in PC \ {"idle"}, NEW op \in Op,
         NEW actor \in Users \cup {Nobody}, NEW user \in Users \cup {Nobody},
         NEW newRole \in Role \cup {Nobody}, Start(r, pc, op, actor, user, newRole),
         pc # "commit" \/ op = "transfer" => user \in Users,
         pc = "insert" => newRole \in Role,
         op = "update" => newRole \in {"admin", "member"}
  PROVE  req' \in [Requests -> Request] /\ ReqOK' /\ disturbed' \in BOOLEAN
<1>1. req' \in [Requests -> Request]
  BY DEF TypeInv, TypeOK, Start, Request
<1>2. ReqOK'
  BY DEF TypeInv, TypeOK, ReqOK, Start
<1>3. disturbed' \in BOOLEAN
  BY DEF Start
<1>4. QED
  BY <1>1, <1>2, <1>3

LEMMA BeginType ==
  ASSUME TypeInv, NEW r \in Requests, Begin(r), joined' \subseteq Users, owned' \subseteq Users
  PROVE  TypeInv'
<1>1. PICK actor \in Users :
        \/ CreateTeam(r, actor)
        \/ \E u \in Users, newRole \in Role :
             BeginAdd(r, actor, u, newRole) \/ BeginUpdate(r, actor, u, newRole)
        \/ \E u \in Users : BeginRemove(r, actor, u) \/ BeginTransfer(r, actor, u)
        \/ BeginDelete(r, actor)
  BY DEF Begin
<1>2. CASE CreateTeam(r, actor)
  BY <1>2, StartType DEF CreateTeam, TypeInv, TypeOK, PC, Op, Role
<1>3. ASSUME NEW u \in Users, NEW newRole \in Role,
             BeginAdd(r, actor, u, newRole) \/ BeginUpdate(r, actor, u, newRole)
      PROVE  TypeInv'
  <2>1. CASE BeginAdd(r, actor, u, newRole)
    BY <2>1, StartType DEF BeginAdd, TypeInv, TypeOK, PC, Op
  <2>2. CASE BeginUpdate(r, actor, u, newRole)
    <3>1. newRole \in {"admin", "member"}
      BY <2>2 DEF BeginUpdate, Assignable, Role
    <3>2. QED
      BY <2>2, <3>1, StartType DEF BeginUpdate, TypeInv, TypeOK, PC, Op
  <2>3. QED
    BY <1>3, <2>1, <2>2
<1>4. ASSUME NEW u \in Users, BeginRemove(r, actor, u) \/ BeginTransfer(r, actor, u)
      PROVE  TypeInv'
  <2>1. {"check", "target"} \subseteq PC \ {"idle", "insert", "commit"}
        /\ {"remove", "transfer"} \subseteq Op
    BY DEF PC, Op
  <2>2. \/ Start(r, "check", "remove", Nobody, u, Nobody)
        \/ Start(r, "target", "transfer", actor, u, Nobody)
    BY <1>4 DEF BeginRemove, BeginTransfer
  <2>3. req' \in [Requests -> Request] /\ ReqOK' /\ disturbed' \in BOOLEAN
    <3>1. CASE Start(r, "check", "remove", Nobody, u, Nobody)
      BY <2>1, <3>1, StartType
    <3>2. CASE Start(r, "target", "transfer", actor, u, Nobody)
      BY <2>1, <3>2, StartType
    <3>3. QED
      BY <2>2, <3>1, <3>2
  <2>4. QED
    BY <1>4, <2>3 DEF BeginRemove, BeginTransfer, TypeInv, TypeOK
<1>5. CASE BeginDelete(r, actor)
  <2>1. "commit" \in PC \ {"idle"} /\ "delete" \in Op
    BY DEF PC, Op
  <2>2. Start(r, "commit", "delete", Nobody, Nobody, Nobody)
    BY <1>5 DEF BeginDelete
  <2>3. req' \in [Requests -> Request] /\ ReqOK' /\ disturbed' \in BOOLEAN
    BY <2>1, <2>2, StartType
  <2>4. QED
    BY <1>5, <2>3 DEF BeginDelete, TypeInv, TypeOK
<1>6. QED
  BY <1>1, <1>2, <1>3, <1>4, <1>5

LEMMA StepType ==
  ASSUME TypeInv, NEW r \in Requests, Step(r) \/ StatementFails(r),
         joined' \subseteq Users, owned' \subseteq Users
  PROVE  TypeInv'
<1> USE DEF At, Check
<1>1. CASE InsertOwner(r) \/ AddMember(r)
  BY <1>1, FinishType DEF InsertOwner, AddMember, TypeInv, TypeOK, ReqOK, Role
<1>2. CASE SelectRole(r) \/ CheckNotOwner(r) \/ CheckNewOwner(r)
  BY <1>2, FinishType, GotoType
     DEF SelectRole, CheckNotOwner, CheckNewOwner, TypeInv, TypeOK, PC
<1>3. CASE UpdateMemberRole(r) \/ RemoveMember(r)
  BY <1>3, FinishType DEF UpdateMemberRole, RemoveMember, TypeInv, TypeOK, ReqOK, Role
<1>4. CASE TransferOwnership(r)
  BY <1>4, FinishType
     DEF TransferOwnership, RolesAfterTransfer, TypeInv, TypeOK, ReqOK, Role
<1>5. CASE DeleteTeam(r)
  BY <1>5, FinishType DEF DeleteTeam, TypeInv, TypeOK
<1>6. CASE StatementFails(r)
  <2>1. Idle \in Request
    BY DEF Idle, Request, PC
  <2>2. req' \in [Requests -> Request]
    BY <1>6, <2>1 DEF StatementFails, TypeInv, TypeOK, Request, PC
  <2>3. ReqOK'
    BY <1>6 DEF StatementFails, TypeInv, TypeOK, ReqOK, Idle, Request
  <2>4. QED
    BY <1>6, <2>2, <2>3 DEF StatementFails, TypeInv, TypeOK
<1>7. QED
  BY <1>1, <1>2, <1>3, <1>4, <1>5, <1>6 DEF Step

LEMMA InvitationsType ==
  ASSUME TypeInv, Invitations, joined' \subseteq Users, owned' \subseteq Users
  PROVE  TypeInv'
<1>1. UNCHANGED <<team, ownerId, req, disturbed>>
  BY DEF Invitations, CreateInvitation, AcceptInvitation, DeleteInvitation
<1>2. invitation' \in Role \cup {Nobody}
  BY DEF Invitations, CreateInvitation, AcceptInvitation, DeleteInvitation, TypeInv, TypeOK
<1>3. role' \in [Users -> Role \cup {Nobody}] /\ granted' \subseteq Users
  BY DEF Invitations, CreateInvitation, AcceptInvitation, DeleteInvitation, TypeInv, TypeOK
<1>4. QED
  BY <1>1, <1>2, <1>3 DEF TypeInv, TypeOK, ReqOK

LEMMA NextType == TypeInv /\ [Next]_vars => TypeInv'
<1> SUFFICES ASSUME TypeInv, [Next]_vars PROVE TypeInv'
  OBVIOUS
<1>1. CASE UNCHANGED vars
  BY <1>1 DEF vars, TypeInv, TypeOK, ReqOK
<1>2. CASE Next
  <2>1. joined' \subseteq Users /\ owned' \subseteq Users
    BY <1>2 DEF Next, Remember, TypeInv, TypeOK
  <2>2. CASE Refused
    BY <1>1, <2>2 DEF Refused
  <2>3. QED
    BY <1>2, <2>1, <2>2, BeginType, StepType, InvitationsType DEF Next, Change
<1>3. QED
  BY <1>1, <1>2

\* Every table and every request of Teams always has its type.
THEOREM TypeCorrect == Spec => []TypeOK
<1>1. Init => TypeInv
  BY InitIInv DEF IInv
<1>2. TypeInv => TypeOK
  BY DEF TypeInv
<1>3. QED
  BY <1>1, <1>2, NextType, PTL DEF Spec

-----------------------------------------------------------------------------
(* Creation *)

LEMMA CreateStep ==
  ASSUME IInv, NEW r \in Requests, NEW actor \in Users, CreateTeam(r, actor)
  PROVE  CreateInv'
BY DEF IInv, TypeInv, TypeOK, CreateInv, NoMembersYet, CreateTeam, Start, Owes, At, IsMember,
   Op

\* While nobody has a role, a request that does not create the team starts at a step
\* that writes no role, and one in flight does not get further.
LEMMA BeginYet ==
  ASSUME IInv, NEW r \in Requests, NEW actor \in Users, NEW u \in Users, NEW newRole \in Role,
         \/ BeginAdd(r, actor, u, newRole)
         \/ BeginUpdate(r, actor, u, newRole)
         \/ BeginRemove(r, actor, u)
         \/ BeginTransfer(r, actor, u)
         \/ BeginDelete(r, actor)
  PROVE  CreateInv'
<1>1. UNCHANGED <<team, ownerId, role>>
  BY DEF BeginAdd, BeginUpdate, BeginRemove, BeginTransfer, BeginDelete
<1>2. \A q \in Requests : Owes(q)' => Owes(q)
  BY DEF BeginAdd, BeginUpdate, BeginRemove, BeginTransfer, BeginDelete, Start, Owes, At, IInv,
     TypeInv, TypeOK
<1>3. NoMembersYet => NoMembersYet'
  BY <1>1, NobodyAssumption DEF BeginAdd, BeginUpdate, BeginRemove, BeginTransfer, BeginDelete, Start, At,
     NoMembersYet, MayManage, IsMember, IInv, TypeInv, TypeOK
<1>4. \A q \in Requests : Owes(q)' => req'[q].user = req[q].user
  BY <1>2 DEF BeginAdd, BeginUpdate, BeginRemove, BeginTransfer, BeginDelete, Start, Owes, At,
     IInv, TypeInv, TypeOK
<1>5. QED
  BY <1>1, <1>2, <1>3, <1>4 DEF IInv, CreateInv

LEMMA StepYet ==
  ASSUME IInv, NEW r \in Requests, Step(r) \/ StatementFails(r)
  PROVE  CreateInv'
<1> USE DEF At, Check, Owes
<1>1. CASE InsertOwner(r)
  <2>1. \A q \in Requests : ~Owes(q)'
    BY <1>1 DEF InsertOwner, Finish, Idle, IInv, TypeInv, TypeOK, CreateInv
  <2>2. team' # "none"
    BY <1>1 DEF InsertOwner, IInv, CreateInv
  <2>3. UNCHANGED <<team, ownerId>>
    BY <1>1 DEF InsertOwner
  <2>4. QED
    BY <2>1, <2>2, <2>3 DEF IInv, CreateInv
<1>2. CASE DeleteTeam(r)
  BY <1>2 DEF DeleteTeam, Finish, Idle, IInv, TypeInv, TypeOK, CreateInv
<1>3. CASE AddMember(r) \/ UpdateMemberRole(r) \/ RemoveMember(r)
           \/ TransferOwnership(r)
  <2>1. ~NoMembersYet
    BY <1>3 DEF AddMember, UpdateMemberRole, RemoveMember, TransferOwnership, NoMembersYet
  <2>2. \A q \in Requests : Owes(q)' => Owes(q)
    BY <1>3 DEF AddMember, UpdateMemberRole, RemoveMember, TransferOwnership, Finish, Idle, IInv,
       TypeInv, TypeOK
  <2>3. team' = team
    BY <1>3 DEF AddMember, UpdateMemberRole, RemoveMember, TransferOwnership
  <2>4. ownerId' = ownerId \/ ownerId' \in Users
    BY <1>3 DEF AddMember, UpdateMemberRole, RemoveMember, TransferOwnership, IInv, TypeInv, ReqOK
  <2>5. QED
    BY <2>1, <2>2, <2>3, <2>4 DEF IInv, CreateInv
<1>4. CASE SelectRole(r) \/ CheckNotOwner(r) \/ CheckNewOwner(r) \/ StatementFails(r)
  <2>1. UNCHANGED <<team, ownerId, role>>
    BY <1>4 DEF SelectRole, CheckNotOwner, CheckNewOwner, StatementFails
  <2>2. \A q \in Requests : Owes(q)' => Owes(q) /\ req'[q].user = req[q].user
    BY <1>4 DEF SelectRole, CheckNotOwner, CheckNewOwner, StatementFails, Finish, Idle, Goto,
       IInv, TypeInv, TypeOK, Request
  <2>3. NoMembersYet => NoMembersYet'
    BY <1>4, <2>1, StepType DEF SelectRole, CheckNotOwner, CheckNewOwner, StatementFails, Finish,
       Idle, Goto, NoMembersYet, IsMember, IInv, TypeInv, TypeOK, Request, ReqOK
  <2>4. QED
    BY <2>1, <2>2, <2>3 DEF IInv, CreateInv
<1>5. QED
  BY <1>1, <1>2, <1>3, <1>4 DEF Step

-----------------------------------------------------------------------------
(* Ownership *)

LEMMA BeginOwners ==
  ASSUME IInv, NEW r \in Requests, Begin(r)
  PROVE  NothingOutlivesTeam' /\ OwnersAccounted'
<1>1. ASSUME NEW actor \in Users, CreateTeam(r, actor)
      PROVE  NothingOutlivesTeam' /\ OwnersAccounted'
  BY <1>1, NobodyAssumption DEF CreateTeam, IInv, CreateInv, NoMembersYet, NothingOutlivesTeam,
     OwnersAccounted, IsMember
<1>2. CASE UNCHANGED <<team, ownerId, role, granted>>
  BY <1>2 DEF IInv, NothingOutlivesTeam, OwnersAccounted, IsMember
<1>3. QED
  BY <1>1, <1>2 DEF Begin, BeginAdd, BeginUpdate, BeginRemove, BeginTransfer, BeginDelete

LEMMA StepOwners ==
  ASSUME IInv, NEW r \in Requests, Step(r) \/ StatementFails(r)
  PROVE  NothingOutlivesTeam' /\ OwnersAccounted'
<1> USE DEF At, Check, IsMember, NothingOutlivesTeam, OwnersAccounted
<1>1. CASE InsertOwner(r)
  BY <1>1 DEF InsertOwner, MayInsert, Owes, IInv, TypeInv, TypeOK, CreateInv
<1>2. CASE AddMember(r)
  BY <1>2 DEF AddMember, MayInsert, IInv, TypeInv, TypeOK, ReqOK
<1>3. CASE UpdateMemberRole(r)
  BY <1>3 DEF UpdateMemberRole, IInv, TypeInv, TypeOK, ReqOK
<1>4. CASE RemoveMember(r)
  BY <1>4, NobodyAssumption DEF RemoveMember, IInv, TypeInv, TypeOK
<1>5. CASE TransferOwnership(r)
  <2>1. CASE team = "live"
    <3>1. ownerId' = req[r].user /\ team' = "live" /\ granted' = granted
      BY <1>5, <2>1 DEF TransferOwnership
    <3>2. ASSUME NEW v \in Users, role'[v] = "owner"
          PROVE  v = ownerId' \/ v \in granted'
      <4>1. role' = RolesAfterTransfer(req[r].user)
        BY <1>5, <2>1 DEF TransferOwnership
      <4>2. v = req[r].user \/ (v # ownerId /\ role[v] = "owner") \/ ~IsMember(v)
        BY <3>2, <4>1 DEF RolesAfterTransfer
      <4>3. IsMember(v) \/ v = req[r].user
        BY <3>2, <4>1, NobodyAssumption DEF RolesAfterTransfer
      <4>4. QED
        BY <3>1, <4>2, <4>3 DEF IInv
    <3>3. QED
      BY <3>1, <3>2
  <2>2. CASE team # "live"
    BY <1>5, <2>2 DEF TransferOwnership, IInv
  <2>3. QED
    BY <2>1, <2>2
<1>6. CASE DeleteTeam(r)
  BY <1>6, NobodyAssumption DEF DeleteTeam
<1>7. CASE SelectRole(r) \/ CheckNotOwner(r) \/ CheckNewOwner(r) \/ StatementFails(r)
  BY <1>7 DEF SelectRole, CheckNotOwner, CheckNewOwner, StatementFails, IInv
<1>8. QED
  BY <1>1, <1>2, <1>3, <1>4, <1>5, <1>6, <1>7 DEF Step

LEMMA InvitationsOwners ==
  ASSUME IInv, Invitations
  PROVE  CreateInv' /\ NothingOutlivesTeam' /\ OwnersAccounted'
<1>1. UNCHANGED <<team, ownerId, req>>
  BY DEF Invitations, CreateInvitation, AcceptInvitation, DeleteInvitation
<1>2. ~NoMembersYet /\ team # "none"
  BY NobodyAssumption DEF Invitations, CreateInvitation, AcceptInvitation, DeleteInvitation, Stands, MayManage,
     MayInsert, NoMembersYet, IsMember, IInv, CreateInv, TypeInv, TypeOK
<1>3. CreateInv'
  BY <1>1, <1>2 DEF IInv, CreateInv, Owes, At
<1>4. CASE UNCHANGED <<role, granted>>
  BY <1>1, <1>3, <1>4 DEF IInv, NothingOutlivesTeam, OwnersAccounted, IsMember
<1>5. ASSUME NEW u \in Users, AcceptInvitation(u)
      PROVE  NothingOutlivesTeam' /\ OwnersAccounted'
  BY <1>1, <1>5 DEF AcceptInvitation, MayInsert, NothingOutlivesTeam, OwnersAccounted, IInv,
     TypeInv, TypeOK
<1>6. QED
  BY <1>3, <1>4, <1>5 DEF Invitations, CreateInvitation, DeleteInvitation

LEMMA NextIInv == IInv /\ [Next]_vars => IInv'
<1> SUFFICES ASSUME IInv, [Next]_vars PROVE IInv'
  OBVIOUS
<1>1. TypeInv'
  BY NextType DEF IInv
<1>2. ASSUME NEW r \in Requests, Begin(r)
      PROVE CreateInv'
  <2>1. PICK actor \in Users :
          \/ CreateTeam(r, actor)
          \/ \E u \in Users, newRole \in Role :
               BeginAdd(r, actor, u, newRole) \/ BeginUpdate(r, actor, u, newRole)
          \/ \E u \in Users : BeginRemove(r, actor, u) \/ BeginTransfer(r, actor, u)
          \/ BeginDelete(r, actor)
    BY <1>2 DEF Begin
  <2>2. actor \in Users /\ "member" \in Role
    BY DEF Role
  <2>3. QED
    BY <2>1, <2>2, CreateStep, BeginYet
<1>3. CASE UNCHANGED vars
  BY <1>3, <1>1 DEF vars, IInv, CreateInv, NoMembersYet, Owes, At, IsMember,
     NothingOutlivesTeam, OwnersAccounted
<1>4. QED
  BY <1>1, <1>2, <1>3, StepYet, BeginOwners, StepOwners, InvitationsOwners
     DEF Next, Change, Refused, IInv

LEMMA Inductive == Spec => []IInv
BY InitIInv, NextIInv, PTL DEF Spec

\* Transfers, however they overlap with each other and with every other request,
\* never leave two owners: the role belongs to the user owner_id names, or to one
\* whom AddMember made an owner.
THEOREM OwnersAlwaysAccounted == Spec => []OwnersAccounted
<1>1. IInv => OwnersAccounted
  BY DEF IInv
<1>2. QED
  BY <1>1, Inductive, PTL

\* A team that is deleted stays without owner and members, whatever was under way.
THEOREM DeletedForGood == Spec => []NothingOutlivesTeam
<1>1. IInv => NothingOutlivesTeam
  BY DEF IInv
<1>2. QED
  BY <1>1, Inductive, PTL

-----------------------------------------------------------------------------
(* Requests that do not overlap *)

\* At most one request is under way, what it has read still holds, and the team has its
\* owner's row unless its creation still owes it.
SerialInv ==
  ~disturbed =>
    /\ \A q, r \in Busy : q = r
    /\ \A r \in Busy :
         /\ req[r].pc = "write" => IsMember(req[r].user) /\ role[req[r].user] # "owner"
         /\ req[r].op = "transfer" => team = "live" /\ req[r].actor = ownerId
         /\ At(r, "commit", "transfer") => IsMember(req[r].user)
    /\ team = "live" => role[ownerId] = "owner" \/ \E r \in Requests : Owes(r)

LEMMA SerialBegin ==
  ASSUME IInv, SerialInv, NEW r \in Requests, Begin(r)
  PROVE  SerialInv'
<1> SUFFICES ASSUME ~disturbed'
             PROVE  SerialInv'
  BY DEF SerialInv
<1>1. ~disturbed /\ Busy = {} /\ req[r].pc = "idle"
  BY DEF Begin, CreateTeam, BeginAdd, BeginUpdate, BeginRemove, BeginTransfer, BeginDelete, Start
<1>2. \A q \in Requests \ {r} : req'[q] = req[q] /\ req[q].pc = "idle"
  BY <1>1 DEF Begin, CreateTeam, BeginAdd, BeginUpdate, BeginRemove, BeginTransfer, BeginDelete,
     Start, Busy, IInv, TypeInv, TypeOK
<1>3. Busy' \subseteq {r}
  BY <1>2 DEF Busy
<1>4. ASSUME NEW actor \in Users, CreateTeam(r, actor)
      PROVE  SerialInv'
  BY <1>3, <1>4 DEF CreateTeam, Start, SerialInv, Owes, At, IInv, TypeInv, TypeOK
<1>5. ASSUME UNCHANGED <<team, ownerId, role>>,
             req'[r].pc \notin {"write"}, ~At(r, "commit", "transfer")',
             req'[r].op = "transfer" => team = "live" /\ req'[r].actor = ownerId
      PROVE  SerialInv'
  <2>1. \A q \in Requests : ~Owes(q)
    BY <1>1 DEF Owes, At, Busy
  <2>2. QED
    BY <1>1, <1>3, <1>5, <2>1 DEF SerialInv, IsMember
<1>6. PICK actor \in Users :
        \/ CreateTeam(r, actor)
        \/ \E u \in Users, newRole \in Role :
             BeginAdd(r, actor, u, newRole) \/ BeginUpdate(r, actor, u, newRole)
        \/ \E u \in Users : BeginRemove(r, actor, u) \/ BeginTransfer(r, actor, u)
        \/ BeginDelete(r, actor)
  BY DEF Begin
<1>7. ASSUME NEW u \in Users, NEW newRole \in Role,
             \/ BeginAdd(r, actor, u, newRole) \/ BeginUpdate(r, actor, u, newRole)
             \/ BeginRemove(r, actor, u) \/ BeginTransfer(r, actor, u)
             \/ BeginDelete(r, actor)
      PROVE  SerialInv'
  <2>1. UNCHANGED <<team, ownerId, role>>
    BY <1>7 DEF BeginAdd, BeginUpdate, BeginRemove, BeginTransfer, BeginDelete
  <2>2. req'[r].pc \notin {"write"} /\ ~At(r, "commit", "transfer")'
    BY <1>7 DEF BeginAdd, BeginUpdate, BeginRemove, BeginTransfer, BeginDelete, Start, At, IInv,
       TypeInv, TypeOK
  <2>3. req'[r].op = "transfer" => team = "live" /\ req'[r].actor = ownerId
    BY <1>7 DEF BeginAdd, BeginUpdate, BeginRemove, BeginTransfer, BeginDelete, Start, IInv,
       TypeInv, TypeOK
  <2>4. QED
    BY <2>1, <2>2, <2>3, <1>5
<1>8. actor \in Users /\ "member" \in Role
  BY DEF Role
<1>9. QED
  BY <1>4, <1>6, <1>7, <1>8

LEMMA SerialStep ==
  ASSUME IInv, SerialInv, NEW r \in Requests, Step(r)
  PROVE  SerialInv'
<1> SUFFICES ASSUME ~disturbed'
             PROVE  SerialInv'
  BY DEF SerialInv
<1> USE DEF At
<1>1. ~disturbed /\ r \in Busy
  BY DEF Step, InsertOwner, AddMember, SelectRole, UpdateMemberRole, CheckNotOwner, RemoveMember,
     CheckNewOwner, TransferOwnership, DeleteTeam, Check, Goto, Finish, Busy
<1>2. \A q \in Requests \ {r} : req[q].pc = "idle"
  BY <1>1 DEF SerialInv, Busy
<1>3. ASSUME Finish(r)
      PROVE  Busy' = {} /\ \A q \in Requests : ~Owes(q)'
  BY <1>2, <1>3 DEF Finish, Idle, Busy, Owes, IInv, TypeInv, TypeOK
<1>4. ASSUME NEW pc \in PC, Goto(r, pc)
      PROVE  Busy' \subseteq {r} /\ req'[r] = [req[r] EXCEPT !.pc = pc]
             /\ (~Owes(r) => \A q \in Requests : ~Owes(q))
  BY <1>2, <1>4 DEF Goto, Busy, Owes, IInv, TypeInv, TypeOK, Request
<1>5. CASE InsertOwner(r)
  BY <1>1, <1>3, <1>5 DEF InsertOwner, MayInsert, Owes, IInv, TypeInv, TypeOK, ReqOK,
     CreateInv, NoMembersYet, IsMember, SerialInv
<1>6. ~Owes(r) => \A q \in Requests : ~Owes(q)
  BY <1>2 DEF Owes
<1>7. CASE AddMember(r)
  <2>1. team = "live" => role[ownerId] = "owner"
    BY <1>1, <1>6, <1>7 DEF AddMember, Owes, SerialInv
  <2>2. team = "live" => role'[ownerId] = "owner"
    BY <2>1, <1>7, NobodyAssumption DEF AddMember, MayInsert, IsMember, IInv, TypeInv, TypeOK,
       CreateInv
  <2>3. QED
    BY <1>3, <1>7, <2>2 DEF AddMember, SerialInv
<1>8. CASE UpdateMemberRole(r) \/ RemoveMember(r)
  <2>1. team = "live" => role[ownerId] = "owner" /\ req[r].user # ownerId
    BY <1>1, <1>6, <1>8 DEF UpdateMemberRole, RemoveMember, Owes, SerialInv
  <2>2. team = "live" => role'[ownerId] = "owner"
    BY <2>1, <1>8 DEF UpdateMemberRole, RemoveMember, IInv, TypeInv, TypeOK, CreateInv
  <2>3. Finish(r) /\ UNCHANGED <<team, ownerId>>
    BY <1>8 DEF UpdateMemberRole, RemoveMember
  <2>4. QED
    BY <1>3, <2>2, <2>3 DEF SerialInv
<1>9. CASE TransferOwnership(r)
  <2>1. team = "live"
    BY <1>1, <1>9 DEF TransferOwnership, SerialInv
  <2>2. ownerId' = req[r].user /\ role'[req[r].user] = "owner"
    BY <1>9, <2>1 DEF TransferOwnership, RolesAfterTransfer, IInv, TypeInv, ReqOK
  <2>3. QED
    BY <1>3, <1>9, <2>2 DEF TransferOwnership, SerialInv
<1>10. CASE DeleteTeam(r)
  BY <1>3, <1>10 DEF DeleteTeam, SerialInv
<1>11. CASE SelectRole(r) \/ CheckNotOwner(r) \/ CheckNewOwner(r)
  <2>1. UNCHANGED <<team, ownerId, role>> /\ ~Owes(r)
    BY <1>11 DEF SelectRole, CheckNotOwner, CheckNewOwner, Owes
  <2>2. team = "live" => role[ownerId] = "owner"
    BY <1>1, <1>6, <2>1 DEF SerialInv
  <2>3. CASE Finish(r)
    BY <1>3, <2>1, <2>2, <2>3 DEF SerialInv
  <2>4. CASE SelectRole(r) /\ Goto(r, "write")
    <3>1. IsMember(req[r].user) /\ role[req[r].user] # "owner" /\ req[r].pc = "select"
      BY <2>4, <1>1 DEF SelectRole, Check, Goto, Finish, Idle, IInv, TypeInv, TypeOK, PC
    <3>2. "write" \in PC
      BY DEF PC
    <3>3. Busy' \subseteq {r} /\ req'[r] = [req[r] EXCEPT !.pc = "write"]
      BY <1>4, <2>4, <3>2
    <3>4. req'[r].pc = "write" /\ req'[r].op = req[r].op /\ req'[r].user = req[r].user
          /\ req'[r].actor = req[r].actor
      BY <3>3 DEF IInv, TypeInv, TypeOK, Request
    <3>5. QED
      BY <1>1, <2>1, <2>2, <3>1, <3>3, <3>4 DEF SerialInv, IsMember
  <2>5. CASE CheckNotOwner(r) /\ Goto(r, "select")
    <3>1. "select" \in PC
      BY DEF PC
    <3>2. Busy' \subseteq {r} /\ req'[r] = [req[r] EXCEPT !.pc = "select"]
      BY <1>4, <2>5, <3>1
    <3>3. req'[r].pc = "select" /\ req'[r].op = req[r].op /\ req'[r].user = req[r].user
          /\ req'[r].actor = req[r].actor
      BY <3>2 DEF IInv, TypeInv, TypeOK, Request
    <3>4. QED
      BY <1>1, <2>1, <2>2, <3>2, <3>3 DEF SerialInv, IsMember
  <2>6. CASE CheckNewOwner(r) /\ Goto(r, "commit")
    <3>1. "commit" \in PC
      BY DEF PC
    <3>2. Busy' \subseteq {r} /\ req'[r] = [req[r] EXCEPT !.pc = "commit"]
      BY <1>4, <2>6, <3>1
    <3>3. req'[r].pc = "commit" /\ req'[r].op = req[r].op /\ req'[r].user = req[r].user
          /\ req'[r].actor = req[r].actor
      BY <3>2 DEF IInv, TypeInv, TypeOK, Request
    <3>4. IsMember(req[r].user) \/ Finish(r)
      BY <2>6 DEF CheckNewOwner, Check
    <3>5. QED
      BY <1>1, <2>1, <2>2, <2>3, <3>2, <3>3, <3>4 DEF SerialInv, IsMember
  <2>7. QED
    BY <1>11, <2>3, <2>4, <2>5, <2>6 DEF SelectRole, CheckNotOwner, CheckNewOwner, Check
<1>12. QED
  BY <1>5, <1>7, <1>8, <1>9, <1>10, <1>11 DEF Step

LEMMA SerialInvitations ==
  ASSUME IInv, SerialInv, Invitations
  PROVE  SerialInv'
<1>1. UNCHANGED <<team, ownerId, req, disturbed>>
  BY DEF Invitations, CreateInvitation, AcceptInvitation, DeleteInvitation
<1>2. CASE UNCHANGED role
  BY <1>1, <1>2 DEF SerialInv, Busy, IsMember, Owes, At
<1>3. ASSUME NEW u \in Users, AcceptInvitation(u)
      PROVE  SerialInv'
  <2>1. ~IsMember(u) /\ team = "live" /\ invitation # Nobody
    BY <1>3 DEF AcceptInvitation, MayInsert, Stands
  <2>2. \A v \in Users : IsMember(v) => role'[v] = role[v]
    BY <1>3, <2>1 DEF AcceptInvitation, IInv, TypeInv, TypeOK, IsMember
  <2>3. \A r \in Requests : ~Owes(r)
    BY <2>1 DEF IInv, CreateInv, NoMembersYet
  <2>4. \A v \in Users : IsMember(v) => IsMember(v)'
    BY <2>2 DEF IsMember
  <2>5. \A r \in Busy : (req[r].pc = "write" \/ At(r, "commit", "transfer"))
                          => req[r].user \in Users
    BY DEF Busy, At, IInv, TypeInv, ReqOK
  <2>6. ownerId \in Users /\ role[ownerId] = "owner" => role'[ownerId] = "owner"
    BY <2>2, NobodyAssumption DEF IsMember
  <2>7. ownerId \in Users
    BY <2>1 DEF IInv, CreateInv
  <2>8. QED
    BY <1>1, <2>2, <2>3, <2>4, <2>5, <2>6, <2>7 DEF SerialInv, Busy, At, Owes
<1>4. QED
  BY <1>2, <1>3 DEF Invitations, CreateInvitation, DeleteInvitation

LEMMA SerialNext == IInv /\ SerialInv /\ [Next]_vars => SerialInv'
<1> SUFFICES ASSUME IInv, SerialInv, [Next]_vars PROVE SerialInv'
  OBVIOUS
<1>1. CASE UNCHANGED vars
  BY <1>1 DEF vars, SerialInv, Busy, IsMember, Owes, At
<1>2. ASSUME NEW r \in Requests, StatementFails(r)
      PROVE  SerialInv'
  BY <1>2 DEF StatementFails, SerialInv
<1>3. QED
  BY <1>1, <1>2, SerialBegin, SerialStep, SerialInvitations DEF Next, Change, Refused

LEMMA SerialInductive == Spec => []SerialInv
<1>1. Init => SerialInv
  BY DEF Init, SerialInv, Busy, Idle
<1>2. QED
  BY <1>1, SerialNext, Inductive, PTL DEF Spec

\* While requests come one after the other and no statement fails, owner_id and the roles
\* name the same owner whenever nothing is under way.
THEOREM OwnerKeepsRole == Spec => []OwnerHasRoleSerially
<1>1. IInv /\ SerialInv => OwnerHasRoleSerially
  BY DEF IInv, CreateInv, SerialInv, OwnerHasRoleSerially, OwnerHasRole, Quiet, Busy, Owes, At
<1>2. QED
  BY <1>1, Inductive, SerialInductive, PTL

-----------------------------------------------------------------------------
(* Transfers *)

\* What the checks of a transfer have seen was so once, and the ghosts remember it.
HistoryInv ==
  /\ \A u \in Users : IsMember(u) => u \in joined
  /\ team = "live" => ownerId \in owned
  /\ \A r \in Requests :
       req[r].op = "transfer" =>
         req[r].actor \in owned /\ (req[r].pc = "commit" => req[r].user \in joined)

LEMMA HistoryTransfers ==
  ASSUME IInv, HistoryInv, Change, Remember, NEW r \in Requests, req'[r].op = "transfer"
  PROVE  req'[r].actor \in owned' /\ (req'[r].pc = "commit" => req'[r].user \in joined')
<1>1. owned \subseteq owned' /\ joined \subseteq joined'
  BY DEF Remember
<1>2. CASE req'[r] = req[r]
  BY <1>1, <1>2 DEF HistoryInv
<1>3. CASE req'[r] # req[r]
  <2>1. Begin(r) \/ Step(r) \/ StatementFails(r)
    <3>1. \A q \in Requests \ {r} : ~(Begin(q) \/ Step(q) \/ StatementFails(q))
      BY <1>3 DEF Begin, CreateTeam, BeginAdd, BeginUpdate, BeginRemove, BeginTransfer, BeginDelete,
         Start, Step, InsertOwner, AddMember, SelectRole, UpdateMemberRole, CheckNotOwner,
         RemoveMember, CheckNewOwner, TransferOwnership, DeleteTeam, Check, Goto, Finish,
         StatementFails, IInv, TypeInv, TypeOK
    <3>2. ~Invitations /\ ~Refused
      BY <1>3 DEF Invitations, CreateInvitation, AcceptInvitation, DeleteInvitation, Refused, vars
    <3>3. QED
      BY <3>1, <3>2 DEF Change
  <2>2. req'[r] # Idle
    BY DEF Idle
  <2>3. CASE Begin(r)
    <3>1. PICK actor \in Users, u \in Users : BeginTransfer(r, actor, u)
      BY <2>3 DEF Begin, CreateTeam, BeginAdd, BeginUpdate, BeginRemove, BeginDelete, Start, IInv,
         TypeInv, TypeOK
    <3>2. req'[r].actor = ownerId /\ req'[r].pc = "target" /\ team = "live"
      BY <3>1 DEF BeginTransfer, Start, IInv, TypeInv, TypeOK
    <3>3. QED
      BY <3>2, <1>1 DEF HistoryInv
  <2>4. CASE Step(r)
    <3>1. CheckNewOwner(r) \/ Finish(r) \/ SelectRole(r) \/ CheckNotOwner(r)
      BY <2>4 DEF Step, InsertOwner, AddMember, UpdateMemberRole, RemoveMember, TransferOwnership,
         DeleteTeam
    <3>2. ~Finish(r)
      BY <2>2 DEF Finish, IInv, TypeInv, TypeOK
    <3>3. CASE CheckNewOwner(r)
      <4>1. req[r].op = "transfer" /\ IsMember(req[r].user) /\ Goto(r, "commit")
        BY <3>2, <3>3 DEF CheckNewOwner, Check, At
      <4>2. req'[r].actor = req[r].actor /\ req'[r].user = req[r].user /\ req[r].user \in Users
        BY <4>1 DEF Goto, IInv, TypeInv, TypeOK, ReqOK, Request
      <4>3. QED
        BY <4>1, <4>2, <1>1 DEF HistoryInv
    <3>4. CASE SelectRole(r) \/ CheckNotOwner(r)
      <4>1. Goto(r, "write") \/ Goto(r, "select")
        BY <3>2, <3>4 DEF SelectRole, CheckNotOwner, Check
      <4>2. req'[r].op = req[r].op /\ req'[r].actor = req[r].actor /\ req'[r].pc # "commit"
        BY <4>1 DEF Goto, IInv, TypeInv, TypeOK, Request
      <4>3. QED
        BY <4>2, <1>1 DEF HistoryInv
    <3>5. QED
      BY <3>1, <3>2, <3>3, <3>4
  <2>5. CASE StatementFails(r)
    BY <2>2, <2>5 DEF StatementFails, At, IInv, TypeInv, TypeOK, Request
  <2>6. QED
    BY <2>1, <2>3, <2>4, <2>5
<1>4. QED
  BY <1>2, <1>3

LEMMA HistoryNext == IInv /\ HistoryInv /\ [Next]_vars => HistoryInv'
<1> SUFFICES ASSUME IInv, HistoryInv, [Next]_vars PROVE HistoryInv'
  OBVIOUS
<1>1. CASE UNCHANGED vars
  BY <1>1 DEF vars, HistoryInv, IsMember
<1>2. CASE Next
  <2>1. Change /\ Remember
    BY <1>2 DEF Next
  <2>2. \A u \in Users : IsMember(u)' => u \in joined'
    BY <2>1 DEF Remember
  <2>3. team' = "live" => ownerId' \in owned'
    BY <2>1, NextIInv DEF Remember, IInv, CreateInv
  <2>4. QED
    BY <2>1, <2>2, <2>3, HistoryTransfers DEF HistoryInv
<1>3. QED
  BY <1>1, <1>2

LEMMA HistoryInductive == Spec => []HistoryInv
<1>1. Init => HistoryInv
  BY DEF Init, HistoryInv, IsMember, Idle
<1>2. QED
  BY <1>1, HistoryNext, Inductive, PTL DEF Spec

LEMMA ConsentStep ==
  ASSUME IInv, SerialInv, HistoryInv, [Next]_vars, team = "live", team' = "live",
         ownerId' # ownerId
  PROVE  \E r \in Requests :
           /\ req[r].op = "transfer" /\ req'[r] = Idle
           /\ req[r].actor \in owned /\ ownerId' \in joined
           /\ ~disturbed => req[r].actor = ownerId /\ IsMember(ownerId')
<1>1. PICK r \in Requests : TransferOwnership(r)
  BY DEF Next, Change, Begin, Step, Invitations, CreateTeam, InsertOwner, BeginAdd, AddMember,
     BeginUpdate, SelectRole, UpdateMemberRole, BeginRemove, CheckNotOwner, RemoveMember,
     BeginTransfer, CheckNewOwner, BeginDelete, DeleteTeam, CreateInvitation, AcceptInvitation,
     DeleteInvitation, StatementFails, Refused, vars
<1>2. r \in Busy /\ ownerId' = req[r].user
  BY <1>1 DEF TransferOwnership, Busy, At
<1>3. req[r].op = "transfer" /\ req[r].pc = "commit" /\ req'[r] = Idle
  BY <1>1 DEF TransferOwnership, At, Finish, IInv, TypeInv, TypeOK
<1>4. req[r].actor \in owned /\ ownerId' \in joined
  BY <1>2, <1>3 DEF HistoryInv
<1>5. ~disturbed => req[r].actor = ownerId /\ IsMember(ownerId')
  BY <1>2, <1>3 DEF SerialInv, At
<1>6. QED
  BY <1>3, <1>4, <1>5

\* Ownership passes on only by a transfer whose actor has been the owner, to a user who has
\* been a member; and, until requests overlap or a statement fails, at the request of the
\* owner of that moment to a member of that moment.
THEOREM OwnersConsent == Spec => OwnerConsents
<1>1. IInv /\ SerialInv /\ HistoryInv /\ [Next]_vars =>
        [team = "live" /\ team' = "live" /\ ownerId' # ownerId =>
           \E r \in Requests :
             /\ req[r].op = "transfer" /\ req'[r] = Idle
             /\ req[r].actor \in owned /\ ownerId' \in joined
             /\ ~disturbed => req[r].actor = ownerId /\ IsMember(ownerId')]_vars
  BY ConsentStep
<1>2. QED
  BY <1>1, Inductive, SerialInductive, HistoryInductive, PTL DEF Spec, OwnerConsents
=============================================================================
