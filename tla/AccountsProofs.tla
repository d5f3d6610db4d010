----------------------------- MODULE AccountsProofs -----------------------------
(***************************************************************************)
(* What a request carries from one statement to the next (ReqTypes) makes  *)
(* the types of Accounts inductive, and each property with what it needs   *)
(* to know of the requests under way: LockInv, ColumnInv, GoneInv.         *)
(***************************************************************************)
EXTENDS Accounts, TLAPS

Events == {"lock", "disable", "delete"}

WellFormed(q) ==
  /\ q.pc = "idle" => q = Idle
  /\ q.op = "profile" => q.read \in Row
  /\ q.op = "password" => q.arg \in Passwords
  /\ q.op = "sweep" => q.arg \in Nat /\ q.arg <= clock

ReqTypes ==
  /\ req \in [Requests -> Request]
  /\ before \in [Events -> SUBSET Busy]
  /\ \A r \in Requests : WellFormed(req[r])

Times == clock \in Nat /\ load \in Workloads

-----------------------------------------------------------------------------
(* The requests *)

\* A request begins: it carries what its operation needs.
LEMMA Started ==
  ASSUME ReqTypes, NEW r \in Requests,
         NEW pc \in PC \ {"idle"}, NEW op \in Op \cup {"register", "use", "sweep"},
         NEW read \in Row \cup {None},
         NEW arg \in Passwords \cup SessionIds \cup Nat \cup {None},
         op = "profile" => read \in Row,
         op = "password" => arg \in Passwords,
         op = "sweep" => arg \in Nat /\ arg <= clock,
         Start(r, op, pc, read, arg), UNCHANGED <<clock, before>>
  PROVE  ReqTypes'
<1> DEFINE new == [pc |-> pc, op |-> op, read |-> read, arg |-> arg]
<1>1. req' = [req EXCEPT ![r] = new]
  BY DEF Start
<1>2. req' \in [Requests -> Request] /\ \A q \in Requests : req'[q] = IF q = r THEN new ELSE req[q]
  BY <1>1 DEF ReqTypes, Request
<1>3. new.pc # "idle" /\ WellFormed(new)'
  BY DEF WellFormed
<1>4. Busy \subseteq Busy'
  BY <1>2, <1>3 DEF Busy
<1>5. before' \in [Events -> SUBSET Busy']
  BY <1>4 DEF ReqTypes
<1>6. \A q \in Requests : WellFormed(req[q])'
  BY <1>2, <1>3 DEF ReqTypes, WellFormed
<1>7. QED
  BY <1>2, <1>5, <1>6 DEF ReqTypes

\* A request goes on to its next statement.
LEMMA Went ==
  ASSUME ReqTypes, NEW r \in Requests, NEW pc \in PC \ {"idle"}, Goto(r, pc),
         req[r].pc # "idle", UNCHANGED <<clock, before>>
  PROVE  ReqTypes'
<1>1. req[r] \in Request
  BY DEF ReqTypes
<1>2. req' \in [Requests -> Request]
  BY <1>1 DEF Goto, ReqTypes, Request
<1>3. \A q \in Requests \ {r} : req'[q] = req[q]
  BY DEF Goto, ReqTypes
<1>4. /\ req'[r].pc = pc /\ req'[r].op = req[r].op
      /\ req'[r].read = req[r].read /\ req'[r].arg = req[r].arg
  BY <1>1 DEF Goto, ReqTypes, Request
<1>5. Busy' = Busy
  BY <1>3, <1>4 DEF Busy
<1>6. \A q \in Requests : WellFormed(req[q])'
  BY <1>3, <1>4 DEF ReqTypes, WellFormed
<1>7. QED
  BY <1>2, <1>5, <1>6 DEF ReqTypes

LEMMA IdleIsWellFormed == Idle \in Request /\ WellFormed(Idle) /\ WellFormed(Idle)'
BY DEF Idle, Request, PC, WellFormed

\* A request ends, or ends and marks those that are still under way.
LEMMA Ended ==
  ASSUME ReqTypes, NEW r \in Requests, UNCHANGED clock,
         Finish(r) \/ \E e \in Events : FinishMarking(r, e)
  PROVE  ReqTypes'
<1>1. req' = [req EXCEPT ![r] = Idle]
  BY DEF Finish, FinishMarking
<1>2. req' \in [Requests -> Request] /\ \A q \in Requests : req'[q] = IF q = r THEN Idle ELSE req[q]
  BY <1>1, IdleIsWellFormed DEF ReqTypes
<1>3. Busy' = Busy \ {r}
  BY <1>2 DEF Busy, Idle
<1>4. before' \in [Events -> SUBSET Busy']
  BY <1>3 DEF Finish, FinishMarking, ReqTypes
<1>5. \A q \in Requests : WellFormed(req[q])'
  BY <1>2, IdleIsWellFormed DEF ReqTypes, WellFormed
<1>6. QED
  BY <1>2, <1>4, <1>5 DEF ReqTypes

-----------------------------------------------------------------------------
(* The types of one step *)

RowTypes ==
  /\ account \in {"none", "live", "gone"}
  /\ row \in IF account = "live" THEN Row ELSE {None}

LEMMA BeginTypes ==
  ASSUME RowTypes, ReqTypes, Times, NEW r \in Requests, Begin(r)
  PROVE  ReqTypes'
<1> USE DEF PC, Op, ghosts
<1>1. ASSUME NEW a \in Addresses, NEW p \in Passwords, Register(r, a, p) PROVE ReqTypes'
  BY <1>1, Started DEF Register
<1>2. ASSUME NEW p \in Passwords, BeginLogin(r, p) PROVE ReqTypes'
  BY <1>2, Started DEF BeginLogin, RowTypes
<1>3. ASSUME NEW p \in Passwords, BeginFailure(r, p) PROVE ReqTypes'
  BY <1>3, Started DEF BeginFailure
<1>4. ASSUME NEW p \in Passwords, BeginChangePassword(r, p) PROVE ReqTypes'
  BY <1>4, Started DEF BeginChangePassword, RowTypes
<1>5. ASSUME Refresh(r) PROVE ReqTypes'
  BY <1>5, Started DEF Refresh
<1>6. ASSUME NEW a \in Addresses, BeginUpdate(r, a) PROVE ReqTypes'
  <2>1. Changed(a) \in Row
    BY <1>6 DEF BeginUpdate, RowTypes, Changed, Row
  <2>2. QED
    BY <1>6, <2>1, Started DEF BeginUpdate
<1>7. ASSUME BeginDelete(r) PROVE ReqTypes'
  BY <1>7, Started DEF BeginDelete
<1>8. ASSUME BeginSession(r) PROVE ReqTypes'
  BY <1>8, Started DEF BeginSession
<1>9. ASSUME BeginCleanup(r) PROVE ReqTypes'
  BY <1>9, Started DEF BeginCleanup, Times
<1>10. ASSUME NEW s \in SessionIds, GetSession(r, s) PROVE ReqTypes'
  BY <1>10, Started DEF GetSession
<1>11. QED
  BY <1>1, <1>2, <1>3, <1>4, <1>5, <1>6, <1>7, <1>8, <1>9, <1>10 DEF Begin

\* What a step of a request does to the requests.
LEMMA StepShape ==
  ASSUME NEW r \in Requests, Step(r) \/ StatementFails(r)
  PROVE  /\ UNCHANGED clock /\ req[r].pc # "idle"
         /\ \/ \E pc \in PC \ {"idle", "check"} : Goto(r, pc) /\ UNCHANGED before
            \/ Finish(r)
            \/ \E e \in Events : FinishMarking(r, e)
<1> USE DEF PC, Events, At, ghosts
<1>1. CASE CheckLocked(r) \/ MintTokens(r) \/ RecordLoginSuccess(r) \/ MintAccessToken(r)
  BY <1>1 DEF CheckLocked, MintTokens, RecordLoginSuccess, MintAccessToken
<1>2. CASE CountFailure(r) \/ LockAccount(r)
  BY <1>2 DEF CountFailure, LockAccount
<1>3. CASE (\E p \in Passwords : VerifyPassword(r, p)) \/ UpdatePassword(r) \/ Update(r)
  BY <1>3 DEF VerifyPassword, UpdatePassword, Update
<1>4. CASE RemoveFromTeams(r) \/ DeleteSessions(r) \/ DeleteRow(r)
  BY <1>4 DEF RemoveFromTeams, DeleteSessions, DeleteRow
<1>5. CASE \/ \E s \in SessionIds : CreateUserSession(r, s)
           \/ TouchSession(r) \/ CleanupAdminSessions(r) \/ CleanupUserSessions(r)
  BY <1>5 DEF CreateUserSession, TouchSession, CleanupAdminSessions, CleanupUserSessions
<1>6. CASE StatementFails(r)
  BY <1>6 DEF StatementFails
<1>7. QED
  BY <1>1, <1>2, <1>3, <1>4, <1>5, <1>6 DEF Step

LEMMA StepTypes ==
  ASSUME ReqTypes, NEW r \in Requests, Step(r) \/ StatementFails(r)
  PROVE  ReqTypes'
BY StepShape, Went, Ended

LEMMA OthersTypes ==
  ASSUME ReqTypes, Times, Others
  PROVE  ReqTypes'
<1>1. UNCHANGED req /\ (clock' = clock \/ clock' = clock + 1)
  BY DEF Others, SetVerified, SetEnabled, GainTeam, LoseTeam, CreateAdminSession, DeleteSession,
         DeleteAllSessions, Tick, Unauthorized, vars
<1>2. before' = before \/ before' = [before EXCEPT !.disable = Busy]
  BY DEF Others, SetVerified, SetEnabled, GainTeam, LoseTeam, CreateAdminSession, DeleteSession,
         DeleteAllSessions, Tick, Unauthorized, vars, ghosts
<1>3. Busy' = Busy
  BY <1>1 DEF Busy
<1>4. before' \in [Events -> SUBSET Busy']
  BY <1>2, <1>3 DEF ReqTypes, Events
<1>5. \A q \in Requests : WellFormed(req[q])'
  BY <1>1 DEF ReqTypes, WellFormed, Times
<1>6. QED
  BY <1>1, <1>4, <1>5 DEF ReqTypes

LEMMA ReqStep ==
  ASSUME RowTypes, ReqTypes, Times, [Next]_vars
  PROVE  ReqTypes'
<1>1. CASE UNCHANGED vars
  BY <1>1 DEF vars, ghosts, ReqTypes, Busy, WellFormed
<1>2. QED
  BY <1>1, BeginTypes, StepTypes, OthersTypes DEF Next

-----------------------------------------------------------------------------
(* Which steps change what *)

RowAction ==
  \/ \E r \in Requests :
       \/ \E a \in Addresses, p \in Passwords : Register(r, a, p)
       \/ RecordLoginSuccess(r) \/ CountFailure(r) \/ LockAccount(r)
       \/ UpdatePassword(r) \/ Update(r) \/ DeleteRow(r)
  \/ SetVerified \/ \E enabled \in BOOLEAN : SetEnabled(enabled)

SessionAction ==
  \/ \E r \in Requests :
       \/ \E s \in SessionIds : CreateUserSession(r, s)
       \/ DeleteSessions(r) \/ CleanupAdminSessions(r) \/ CleanupUserSessions(r)
  \/ \E s \in SessionIds : CreateAdminSession(s) \/ DeleteSession(s)
  \/ \E kind \in {"admin", "user"} : DeleteAllSessions(kind)

TeamAction ==
  \/ \E r \in Requests : RemoveFromTeams(r)
  \/ \E member \in BOOLEAN : GainTeam(member)
  \/ LoseTeam

TokenAction == \E r \in Requests : MintTokens(r) \/ MintAccessToken(r)

\* What no action of the group named above changes.
Rows == <<account, row>>
Sessions == <<sessions, drawn>>
TeamVars == <<team, unseen>>

LEMMA BeginFrame ==
  ASSUME NEW r \in Requests, Begin(r)
  PROVE  /\ UNCHANGED <<load, reach, tokens, clock, before, Sessions, TeamVars, confirmed>>
         /\ RowAction \/ UNCHANGED Rows
BY DEF Begin, Register, BeginLogin, BeginFailure, BeginChangePassword, Refresh, BeginUpdate,
       BeginDelete, BeginSession, BeginCleanup, GetSession, ghosts, RowAction, Rows, Sessions,
       TeamVars

LEMMA StepFrame ==
  ASSUME NEW r \in Requests, Step(r) \/ StatementFails(r)
  PROVE  /\ UNCHANGED <<load, reach, clock, confirmed>>
         /\ RowAction \/ UNCHANGED Rows
         /\ SessionAction \/ UNCHANGED Sessions
         /\ TeamAction \/ UNCHANGED TeamVars
         /\ TokenAction \/ UNCHANGED tokens
<1> USE DEF ghosts, RowAction, SessionAction, TeamAction, TokenAction, Rows, Sessions, TeamVars
<1>1. CASE CheckLocked(r) \/ MintTokens(r) \/ RecordLoginSuccess(r) \/ MintAccessToken(r)
  BY <1>1 DEF CheckLocked, MintTokens, RecordLoginSuccess, MintAccessToken
<1>2. CASE CountFailure(r) \/ LockAccount(r)
  BY <1>2 DEF CountFailure, LockAccount
<1>3. CASE (\E p \in Passwords : VerifyPassword(r, p)) \/ UpdatePassword(r) \/ Update(r)
  BY <1>3 DEF VerifyPassword, UpdatePassword, Update
<1>4. CASE RemoveFromTeams(r) \/ DeleteSessions(r) \/ DeleteRow(r)
  BY <1>4 DEF RemoveFromTeams, DeleteSessions, DeleteRow
<1>5. CASE \/ \E s \in SessionIds : CreateUserSession(r, s)
           \/ TouchSession(r) \/ CleanupAdminSessions(r) \/ CleanupUserSessions(r)
  BY <1>5 DEF CreateUserSession, TouchSession, CleanupAdminSessions, CleanupUserSessions
<1>6. CASE StatementFails(r)
  BY <1>6 DEF StatementFails
<1>7. QED
  BY <1>1, <1>2, <1>3, <1>4, <1>5, <1>6 DEF Step

LEMMA OthersFrame ==
  ASSUME Others
  PROVE  /\ UNCHANGED <<load, reach, tokens, req>>
         /\ clock' = clock \/ clock' = clock + 1
         /\ RowAction \/ UNCHANGED <<Rows, before>>
         /\ SetVerified \/ UNCHANGED confirmed
         /\ SessionAction \/ UNCHANGED Sessions
         /\ TeamAction \/ UNCHANGED TeamVars
BY DEF Others, SetVerified, SetEnabled, GainTeam, LoseTeam, CreateAdminSession, DeleteSession,
       DeleteAllSessions, Tick, Unauthorized, vars, ghosts, RowAction, SessionAction,
       TeamAction, Rows, Sessions, TeamVars

LEMMA Frame ==
  ASSUME [Next]_vars
  PROVE  /\ UNCHANGED <<load, reach>>
         /\ clock' = clock \/ clock' = clock + 1
         /\ RowAction \/ UNCHANGED Rows
         /\ SetVerified \/ UNCHANGED confirmed
         /\ SessionAction \/ UNCHANGED Sessions
         /\ TeamAction \/ UNCHANGED TeamVars
         /\ TokenAction \/ UNCHANGED tokens
<1>1. CASE UNCHANGED vars
  BY <1>1 DEF vars, ghosts, Rows, Sessions, TeamVars
<1>2. CASE \E r \in Requests : Begin(r)
  BY <1>2, BeginFrame
<1>3. CASE \E r \in Requests : Step(r) \/ StatementFails(r)
  BY <1>3, StepFrame
<1>4. CASE Others
  BY <1>4, OthersFrame
<1>5. QED
  BY <1>1, <1>2, <1>3, <1>4 DEF Next

-----------------------------------------------------------------------------
(* The type invariant *)

TypeInv == TypeOK /\ ReqTypes

LEMMA TypeInit == Init => TypeInv
<1> SUFFICES ASSUME Init PROVE TypeInv
  OBVIOUS
<1> USE DEF Init
<1>1. ReqTypes
  BY IdleIsWellFormed DEF ReqTypes, Events, Busy
<1>2. TypeOK
  BY <1>1 DEF TypeOK, ReqTypes, Events, Session
<1>3. QED
  BY <1>1, <1>2 DEF TypeInv

LEMMA RowStep ==
  ASSUME TypeInv, RowAction
  PROVE  RowTypes'
<1> USE DEF TypeInv, TypeOK, RowTypes, Row
<1>1. ASSUME NEW r \in Requests, NEW a \in Addresses, NEW p \in Passwords, Register(r, a, p)
      PROVE  RowTypes'
  BY <1>1 DEF Register
<1>2. ASSUME NEW r \in Requests, RecordLoginSuccess(r) \/ CountFailure(r) PROVE RowTypes'
  <2>1. account' = account /\ (account # "live" => row' = row)
    BY <1>2 DEF RecordLoginSuccess, CountFailure, UpdateRow
  <2>2. CASE account = "live" /\ RecordLoginSuccess(r)
    BY <2>2 DEF RecordLoginSuccess, UpdateRow
  <2>3. CASE account = "live" /\ CountFailure(r)
    <3>1. row' = [row EXCEPT !.failed = row.failed + 1] /\ row.failed \in Nat
      BY <2>3 DEF CountFailure, UpdateRow
    <3>2. QED
      BY <2>1, <2>3, <3>1
  <2>4. QED
    BY <1>2, <2>1, <2>2, <2>3
<1>3. ASSUME NEW r \in Requests, LockAccount(r) PROVE RowTypes'
  BY <1>3, TimesAssumption DEF LockAccount, TooManyFailures
<1>4. ASSUME NEW r \in Requests, UpdatePassword(r) PROVE RowTypes'
  <2>1. req[r].arg \in Passwords
    BY <1>4 DEF UpdatePassword, At, ReqTypes, WellFormed
  <2>2. QED
    BY <1>4, <2>1 DEF UpdatePassword, UpdateRow
<1>5. ASSUME NEW r \in Requests, Update(r) PROVE RowTypes'
  <2>1. req[r].read \in Row
    BY <1>5 DEF Update, At, ReqTypes, WellFormed
  <2>2. QED
    BY <1>5, <2>1 DEF Update, UpdateRow, Written
<1>6. ASSUME NEW r \in Requests, DeleteRow(r) PROVE RowTypes'
  BY <1>6 DEF DeleteRow
<1>7. CASE SetVerified \/ \E enabled \in BOOLEAN : SetEnabled(enabled)
  BY <1>7 DEF SetVerified, SetEnabled
<1>8. QED
  BY <1>1, <1>2, <1>3, <1>4, <1>5, <1>6, <1>7 DEF RowAction

LEMMA SessionStep ==
  ASSUME TypeInv, SessionAction
  PROVE  /\ sessions' \in [SessionIds -> Session \cup {None}]
         /\ drawn' \subseteq SessionIds
<1> USE DEF TypeInv, TypeOK
<1>1. ASSUME NEW s \in SessionIds, NEW kind \in {"admin", "user"}, Inserted(s, kind)
      PROVE  sessions' \in [SessionIds -> Session \cup {None}] /\ drawn' \subseteq SessionIds
  <2>1. [kind |-> kind, exp |-> clock + SessionLife] \in Session
    BY TimesAssumption DEF Session
  <2>2. QED
    BY <1>1, <2>1 DEF Inserted
<1>2. ASSUME NEW ids, sessions' = Without(ids), UNCHANGED drawn
      PROVE  sessions' \in [SessionIds -> Session \cup {None}] /\ drawn' \subseteq SessionIds
  BY <1>2 DEF Without
<1>3. QED
  BY <1>1, <1>2 DEF SessionAction, CreateUserSession, CreateAdminSession, DeleteSessions,
     DeleteSession, DeleteAllSessions, CleanupAdminSessions, CleanupUserSessions, ghosts

LEMMA TypeStep == TypeInv /\ [Next]_vars => TypeInv'
<1> SUFFICES ASSUME TypeInv, [Next]_vars PROVE TypeInv'
  OBVIOUS
<1>1. ReqTypes'
  BY ReqStep DEF TypeInv, TypeOK, RowTypes, Times
<1>2. RowTypes'
  <2>1. CASE UNCHANGED Rows
    BY <2>1 DEF Rows, RowTypes, TypeInv, TypeOK
  <2>2. QED
    BY <2>1, Frame, RowStep
<1>3. sessions' \in [SessionIds -> Session \cup {None}] /\ drawn' \subseteq SessionIds
  BY Frame, SessionStep DEF TypeInv, TypeOK, Sessions
<1>4. team' \in [owned : BOOLEAN, member : BOOLEAN] /\ unseen' \in BOOLEAN
  <2>1. ASSUME TeamAction PROVE team' \in [owned : BOOLEAN, member : BOOLEAN] /\ unseen' \in BOOLEAN
    <3>1. ASSUME NEW member \in BOOLEAN, GainTeam(member)
          PROVE  team' \in [owned : BOOLEAN, member : BOOLEAN] /\ unseen' \in BOOLEAN
      <4>1. unseen' = (~member \/ Deleting \/ account = "gone")
        BY <3>1 DEF GainTeam
      <4>2. (~member \/ Deleting \/ account = "gone") \in BOOLEAN
        BY Zenon
      <4>3. QED
        BY <3>1, <4>1, <4>2 DEF GainTeam
    <3>2. QED
      BY <2>1, <3>1 DEF TeamAction, RemoveFromTeams, LoseTeam, TypeInv, TypeOK, ghosts
  <2>2. QED
    BY <2>1, Frame DEF TypeInv, TypeOK, TeamVars
<1>5. tokens' \subseteq [type : {"access", "refresh"}, exp : Nat]
  <2>1. AccessToken \in [type : {"access", "refresh"}, exp : Nat]
    BY TimesAssumption DEF AccessToken, TypeInv, TypeOK
  <2>2. RefreshToken \in [type : {"access", "refresh"}, exp : Nat]
    BY TimesAssumption DEF RefreshToken, TypeInv, TypeOK
  <2>3. QED
    BY <2>1, <2>2, Frame DEF TokenAction, MintTokens, MintAccessToken, TypeInv, TypeOK
<1>6. clock' \in Nat /\ load' \in Workloads /\ reach' \in {"users", "all"}
  BY Frame DEF TypeInv, TypeOK
<1>7. confirmed' \subseteq Addresses
  BY Frame DEF SetVerified, TypeInv, TypeOK, Row
<1>8. TypeOK'
  BY <1>1, <1>2, <1>3, <1>4, <1>5, <1>6, <1>7 DEF TypeOK, RowTypes, ReqTypes, Events
<1>9. QED
  BY <1>1, <1>8 DEF TypeInv

\* What the columns, the tokens, the sessions and the requests are made of.
THEOREM TypeCorrect == Spec => []TypeOK
<1>1. TypeInv => TypeOK
  BY DEF TypeInv
<1>2. QED
  BY TypeInit, TypeStep, <1>1, PTL DEF Spec

-----------------------------------------------------------------------------
(* What a request is, after a step *)

\* A request that begins carries what it has just read.
LEMMA BeginShape ==
  ASSUME ReqTypes, NEW r \in Requests, Begin(r)
  PROVE  /\ req[r].pc = "idle" /\ \A q \in Requests \ {r} : req'[q] = req[q]
         /\ req'[r].op = "register" => account = "none"
         /\ req'[r].op \in {"login", "refresh", "session", "profile"} => account = "live"
         /\ req'[r].op = "login" => \/ req'[r].pc = "check" /\ req'[r].read = row
                                    \/ req'[r].pc = "count"
         /\ req'[r].op = "profile" => \E a \in Addresses : req'[r].read = Changed(a)
         /\ req'[r].op = "delete" => ~(team.owned /\ team.member)
<1> USE DEF Start, ReqTypes
<1>1. CASE \E a \in Addresses, p \in Passwords : Register(r, a, p)
  BY <1>1 DEF Register
<1>2. CASE \E p \in Passwords : BeginLogin(r, p) \/ BeginFailure(r, p) \/ BeginChangePassword(r, p)
  BY <1>2 DEF BeginLogin, BeginFailure, BeginChangePassword
<1>3. CASE Refresh(r) \/ BeginDelete(r) \/ BeginSession(r) \/ BeginCleanup(r)
  BY <1>3 DEF Refresh, BeginDelete, BeginSession, BeginCleanup
<1>4. CASE \E a \in Addresses : BeginUpdate(r, a)
  BY <1>4 DEF BeginUpdate
<1>5. CASE \E s \in SessionIds : GetSession(r, s)
  BY <1>5 DEF GetSession
<1>6. QED
  BY <1>1, <1>2, <1>3, <1>4, <1>5 DEF Begin

\* A request that goes on carries what it carried, and stays marked.
LEMMA StepMarks ==
  ASSUME ReqTypes, NEW r \in Requests, Step(r) \/ StatementFails(r)
  PROVE  /\ req[r].pc # "idle" /\ \A q \in Requests \ {r} : req'[q] = req[q]
         /\ \A e \in Events : before[e] \ {r} \subseteq before'[e]
         /\ \/ req'[r] = Idle
            \/ /\ req'[r].op = req[r].op /\ req'[r].read = req[r].read
               /\ req'[r].pc \notin {"idle", "check"} /\ UNCHANGED before
<1>1. CASE \E pc \in PC \ {"idle", "check"} : Goto(r, pc) /\ UNCHANGED before
  BY <1>1, StepShape DEF Goto, ReqTypes, Request
<1>2. CASE Finish(r)
  BY <1>2, StepShape DEF Finish, ReqTypes
<1>3. CASE \E e \in Events : FinishMarking(r, e)
  BY <1>3, StepShape DEF FinishMarking, ReqTypes
<1>4. QED
  BY <1>1, <1>2, <1>3, StepShape

-----------------------------------------------------------------------------
(* Lockout *)

\* Lockout, and: a login that has still to check the lock of the row that it read has read
\* this lock, or had begun before it.
LockInv ==
  /\ Lockout
  /\ \A r \in Requests :
       Locked /\ At(r, "login", "check") =>
         r \in before["lock"] \/ req[r].read.locked = row.locked

\* Steps that leave lock and counter alone, and begin or advance no login.
LEMMA LockKept ==
  ASSUME TypeInv, LockInv, UNCHANGED load, clock' \in Nat, clock <= clock',
         account' = "live" => /\ account = "live"
                              /\ row'.locked = row.locked /\ row'.failed = row.failed,
         \A q \in Requests :
           \/ req'[q] = req[q] /\ (q \in before["lock"] => q \in before'["lock"])
           \/ req'[q].op # "login" /\ (req[q].pc = "lock" => "fault" \in load)
  PROVE  LockInv'
<1>1. /\ TooManyFailures' => TooManyFailures /\ row'.locked = row.locked
      /\ Locked' => Locked /\ row'.locked = row.locked
  BY DEF TooManyFailures, Locked, TypeInv, TypeOK, Row
<1>2. (TooManyFailures /\ "fault" \notin load =>
         row.locked # None \/ \E r \in Requests : req[r].pc = "lock")'
  BY <1>1 DEF LockInv, Lockout, At
<1>3. \A r \in Requests :
        (Locked /\ req[r].op = "login" /\ req[r].pc \in {"mint", "record"} => r \in before.lock)'
  BY <1>1 DEF LockInv, Lockout
<1>4. \A r \in Requests :
        (Locked /\ At(r, "login", "check") =>
           r \in before["lock"] \/ req[r].read.locked = row.locked)'
  BY <1>1 DEF LockInv, At
<1>5. QED
  BY <1>2, <1>3, <1>4 DEF LockInv, Lockout

LEMMA LockInit == Init => LockInv
BY DEF Init, LockInv, Lockout, TooManyFailures, Locked

LEMMA LockStep == TypeInv /\ LockInv /\ [Next]_vars => LockInv'
<1> SUFFICES ASSUME TypeInv, LockInv, [Next]_vars PROVE LockInv'
  OBVIOUS
<1>1. ReqTypes /\ clock \in Nat /\ UNCHANGED load
  BY Frame DEF TypeInv, TypeOK
<1>2. CASE UNCHANGED vars
  BY <1>2, <1>1, LockKept DEF vars, ghosts
<1>3. ASSUME NEW r \in Requests, Begin(r) PROVE LockInv'
  <2>1. UNCHANGED <<clock, before>>
    BY <1>3, BeginFrame
  <2>2. ASSUME NEW a \in Addresses, NEW p \in Passwords, Register(r, a, p) PROVE LockInv'
    <3>1. account' = "live" /\ row'.failed = 0 /\ row'.locked = None
      BY <2>2 DEF Register
    <3>2. ~TooManyFailures' /\ ~Locked'
      BY <3>1, TimesAssumption DEF TooManyFailures, Locked
    <3>3. QED
      BY <3>2 DEF LockInv, Lockout
  <2>3. CASE UNCHANGED <<account, row>> /\ req'[r].op # "login"
    BY <1>1, <1>3, <2>1, <2>3, BeginShape, LockKept DEF At
  <2>4. CASE UNCHANGED <<account, row>> /\ req'[r].op = "login"
    <3>1. /\ TooManyFailures' = TooManyFailures /\ Locked' = Locked
          /\ req[r].pc = "idle" /\ \A q \in Requests \ {r} : req'[q] = req[q]
          /\ \/ req'[r].pc = "check" /\ req'[r].read = row
             \/ req'[r].pc = "count"
      BY <1>1, <1>3, <2>1, <2>4, BeginShape DEF TooManyFailures, Locked
    <3>2. QED
      BY <1>1, <2>1, <2>4, <3>1 DEF LockInv, Lockout, At
  <2>5. QED
    BY <1>3, <2>2, <2>3, <2>4
       DEF Begin, BeginLogin, BeginFailure, BeginChangePassword, Refresh, BeginUpdate,
           BeginDelete, BeginSession, BeginCleanup, GetSession
<1>4. ASSUME NEW r \in Requests, Step(r) \/ StatementFails(r) PROVE LockInv'
  <2>1. /\ UNCHANGED clock /\ req[r].pc # "idle"
        /\ \A q \in Requests \ {r} : req'[q] = req[q] /\ (q \in before["lock"] => q \in before'["lock"])
        /\ req'[r] = Idle \/ (req'[r].op = req[r].op /\ req'[r].pc # "check" /\ UNCHANGED before)
    BY <1>1, <1>4, StepShape, StepMarks DEF Events
  <2>2. CASE RecordLoginSuccess(r)
    <3>1. account' = "live" => row'.failed = 0 /\ row'.locked = None
      BY <2>2 DEF RecordLoginSuccess, UpdateRow, TypeInv, TypeOK, Row
    <3>2. ~TooManyFailures' /\ ~Locked'
      BY <3>1, TimesAssumption DEF TooManyFailures, Locked
    <3>3. QED
      BY <3>2 DEF LockInv, Lockout
  <2>3. CASE CountFailure(r)
    <3>1. req'[r].pc = "lock" /\ UNCHANGED before
      BY <1>1, <2>3 DEF CountFailure, At, Goto, ReqTypes, Request, ghosts
    <3>2. account' = "live" => account = "live" /\ row'.locked = row.locked
      BY <2>3 DEF CountFailure, UpdateRow, TypeInv, TypeOK, Row
    <3>3. Locked' => Locked /\ row'.locked = row.locked
      BY <2>1, <3>2 DEF Locked
    <3>4. QED
      BY <2>1, <3>1, <3>3 DEF LockInv, Lockout, At
  <2>4. CASE LockAccount(r) /\ TooManyFailures
    <3>1. /\ row'.locked = clock + LockTime /\ row'.locked # None /\ req'[r] = Idle
          /\ before'["lock"] = Busy \ {r}
      BY <1>1, <2>4, NoneAssumption, TimesAssumption
         DEF LockAccount, TooManyFailures, FinishMarking, ReqTypes, Events, TypeInv, TypeOK, Row
    <3>2. \A q \in Requests : req'[q].op = "login" => q \in before'["lock"]
      BY <1>1, <2>1, <3>1 DEF Busy, Idle, ReqTypes, WellFormed
    <3>3. QED
      BY <3>1, <3>2 DEF LockInv, Lockout, At
  <2>5. CASE LockAccount(r) /\ ~TooManyFailures
    <3>1. UNCHANGED <<account, row>> /\ ~TooManyFailures' /\ req'[r].op # "login"
      BY <1>1, <2>5 DEF LockAccount, TooManyFailures, Finish, Idle, ReqTypes
    <3>2. Locked' = Locked
      BY <2>1, <3>1 DEF Locked
    <3>3. QED
      BY <2>1, <3>1, <3>2 DEF LockInv, Lockout, At
  <2>6. CASE CheckLocked(r) \/ MintTokens(r)
    <3>1. /\ UNCHANGED <<account, row>> /\ req[r].pc # "lock"
          /\ req'[r].op = "login" => /\ req[r].op = "login" /\ req'[r].pc # "check"
                                     /\ Locked => r \in before'["lock"]
      <4>1. CASE CheckLocked(r)
        <5>1. UNCHANGED <<account, row>> /\ At(r, "login", "check")
          BY <4>1 DEF CheckLocked
        <5>2. CASE req'[r] = Idle
          BY <5>1, <5>2 DEF Idle, At
        <5>3. CASE req'[r] # Idle
          <6>1. ~(req[r].read.locked # None /\ clock < req[r].read.locked)
            BY <1>1, <4>1, <5>3 DEF CheckLocked, Finish, ReqTypes
          <6>2. Locked => r \in before["lock"]
            BY <5>1, <6>1 DEF LockInv, Locked
          <6>3. QED
            BY <2>1, <5>1, <5>3, <6>2 DEF At
        <5>4. QED
          BY <5>2, <5>3
      <4>2. CASE MintTokens(r)
        <5>1. UNCHANGED <<account, row>> /\ req[r].pc = "mint"
          BY <4>2 DEF MintTokens
        <5>2. QED
          BY <2>1, <5>1 DEF LockInv, Lockout, Idle, At
      <4>3. QED
        BY <2>6, <4>1, <4>2
    <3>2. Locked' = Locked /\ TooManyFailures' = TooManyFailures
      BY <2>1, <3>1 DEF Locked, TooManyFailures
    <3>3. QED
      BY <1>1, <2>1, <3>1, <3>2 DEF LockInv, Lockout, At
  <2>7. CASE /\ account' = "live" => /\ account = "live"
                                     /\ row'.locked = row.locked /\ row'.failed = row.failed
             /\ (req[r].op # "login" /\ req[r].pc # "lock") \/ StatementFails(r)
    <3>1. req'[r].op # "login" /\ (req[r].pc = "lock" => "fault" \in load)
      BY <1>1, <2>1, <2>7 DEF StatementFails, Finish, Idle, At, ReqTypes
    <3>2. /\ clock' \in Nat /\ clock <= clock'
          /\ \A q \in Requests :
               \/ req'[q] = req[q] /\ (q \in before["lock"] => q \in before'["lock"])
               \/ req'[q].op # "login" /\ (req[q].pc = "lock" => "fault" \in load)
      BY <1>1, <2>1, <3>1
    <3>3. QED
      BY <1>1, <2>7, <3>2, LockKept
  <2>8. CASE UpdatePassword(r) \/ Update(r) \/ DeleteRow(r)
    <3>1. account' = "live" => /\ account = "live"
                               /\ row'.locked = row.locked /\ row'.failed = row.failed
      BY <2>8 DEF UpdatePassword, Update, DeleteRow, UpdateRow, Written, TypeInv, TypeOK, Row
    <3>2. QED
      BY <2>7, <2>8, <3>1 DEF UpdatePassword, Update, DeleteRow, At
  <2>9. QED
    BY <1>4, <2>2, <2>3, <2>4, <2>5, <2>6, <2>7, <2>8
       DEF Step, MintAccessToken, VerifyPassword, RemoveFromTeams, DeleteSessions,
           CreateUserSession, TouchSession, CleanupAdminSessions, CleanupUserSessions,
           StatementFails, At
<1>5. CASE Others
  <2>1. UNCHANGED req /\ clock' \in Nat /\ clock <= clock'
    BY <1>1, <1>5, OthersFrame
  <2>2. account' = account /\ before'["lock"] = before["lock"]
    BY <1>1, <1>5 DEF Others, SetVerified, SetEnabled, GainTeam, LoseTeam, CreateAdminSession,
       DeleteSession, DeleteAllSessions, Tick, Unauthorized, vars, ghosts, ReqTypes, Events
  <2>3. account = "live" => row'.locked = row.locked /\ row'.failed = row.failed
    BY <1>5 DEF Others, SetVerified, SetEnabled, GainTeam, LoseTeam, CreateAdminSession,
       DeleteSession, DeleteAllSessions, Tick, Unauthorized, vars, TypeInv, TypeOK, Row
  <2>4. QED
    BY <1>1, <2>1, <2>2, <2>3, LockKept
<1>6. QED
  BY <1>2, <1>3, <1>4, <1>5 DEF Next

\* No interleaving of logins, failures and changes gets past a lock that it began after.
THEOREM LocksHold == Spec => []Lockout
<1>1. LockInv => Lockout
  BY DEF LockInv
<1>2. QED
  BY TypeInit, TypeStep, LockInit, LockStep, <1>1, PTL DEF Spec

-----------------------------------------------------------------------------
(* Deletion *)

\* The operations that sign tokens or make sessions.
Makers == {"login", "refresh", "register", "session"}

\* After the deletion only requests that it overtook may sign a token or make a session, for
\* none begins without the row; and while a team's membership hides it from the check of the
\* deletion, or the check is past, a team that is owned was gained unseen.
GoneInv ==
  /\ account = "gone" => \A r \in Requests : req[r].op \in Makers => r \in before["delete"]
  /\ team.owned /\ (Deleting \/ account = "gone" \/ ~team.member) => unseen

LEMMA GoneInit == Init => GoneInv
BY DEF Init, GoneInv

\* The steps that leave the account alone, or do not delete it.
LEMMA MakersMarked ==
  ASSUME TypeInv, GoneInv, account' = "gone" => account = "gone",
         \A q \in Requests :
           req'[q].op \in Makers =>
             \/ account # "gone"
             \/ req[q].op = req'[q].op /\ (q \in before["delete"] => q \in before'["delete"])
  PROVE  account' = "gone" => \A q \in Requests : req'[q].op \in Makers => q \in before'["delete"]
BY DEF GoneInv

LEMMA MakersStep ==
  ASSUME TypeInv, GoneInv, [Next]_vars
  PROVE  account' = "gone" => \A q \in Requests : req'[q].op \in Makers => q \in before'["delete"]
<1>1. ReqTypes
  BY DEF TypeInv
<1>2. CASE UNCHANGED vars
  BY <1>2, MakersMarked DEF vars, ghosts
<1>3. ASSUME NEW r \in Requests, Begin(r)
      PROVE  account' = "gone" => \A q \in Requests : req'[q].op \in Makers => q \in before'["delete"]
  <2>1. UNCHANGED before
    BY <1>3, BeginFrame
  <2>2. account' = "gone" => account = "gone"
    BY <1>3 DEF Begin, Register, BeginLogin, BeginFailure, BeginChangePassword, Refresh,
       BeginUpdate, BeginDelete, BeginSession, BeginCleanup, GetSession
  <2>3. /\ \A q \in Requests \ {r} : req'[q] = req[q]
        /\ req'[r].op \in Makers => account # "gone"
    BY <1>1, <1>3, BeginShape DEF Makers
  <2>4. QED
    BY <2>1, <2>2, <2>3, MakersMarked
<1>4. ASSUME NEW r \in Requests, Step(r) \/ StatementFails(r)
      PROVE  account' = "gone" => \A q \in Requests : req'[q].op \in Makers => q \in before'["delete"]
  <2>1. /\ req[r].pc # "idle" /\ \A q \in Requests \ {r} : req'[q] = req[q]
        /\ before["delete"] \ {r} \subseteq before'["delete"]
        /\ req'[r] = Idle \/ (req'[r].op = req[r].op /\ UNCHANGED before)
    BY <1>1, <1>4, StepMarks DEF Events
  <2>2. CASE DeleteRow(r)
    <3>1. req'[r] = Idle /\ before'["delete"] = Busy \ {r}
      BY <1>1, <2>2 DEF DeleteRow, FinishMarking, ReqTypes, Events
    <3>2. \A q \in Requests \ {r} : req'[q].op \in Makers => q \in Busy
      BY <1>1, <2>1 DEF Busy, ReqTypes, WellFormed, Idle, Makers
    <3>3. QED
      BY <3>1, <3>2 DEF Idle, Makers
  <2>3. CASE account' = "gone" => account = "gone"
    <3>1. \A q \in Requests :
            req'[q].op \in Makers =>
              req[q].op = req'[q].op /\ (q \in before["delete"] => q \in before'["delete"])
      BY <2>1 DEF Idle, Makers
    <3>2. QED
      BY <2>3, <3>1, MakersMarked
  <2>4. QED
    BY <1>4, <2>2, <2>3
       DEF Step, StatementFails, CheckLocked, MintTokens, RecordLoginSuccess, CountFailure,
           LockAccount, MintAccessToken, VerifyPassword, UpdatePassword, Update,
           RemoveFromTeams, DeleteSessions, CreateUserSession, TouchSession,
           CleanupAdminSessions, CleanupUserSessions
<1>5. CASE Others
  <2>1. UNCHANGED <<req, account>> /\ before'["delete"] = before["delete"]
    BY <1>1, <1>5 DEF Others, SetVerified, SetEnabled, GainTeam, LoseTeam, CreateAdminSession,
       DeleteSession, DeleteAllSessions, Tick, Unauthorized, vars, ghosts, ReqTypes, Events
  <2>2. QED
    BY <2>1, MakersMarked
<1>6. QED
  BY <1>2, <1>3, <1>4, <1>5 DEF Next

\* A team is gained, or a deletion begins, and the other is seen or marked.
LEMMA UnseenStep ==
  ASSUME TypeInv, GoneInv, [Next]_vars
  PROVE  (team.owned /\ (Deleting \/ account = "gone" \/ ~team.member) => unseen)'
<1>1. ReqTypes
  BY DEF TypeInv
<1>2. CASE UNCHANGED vars
  BY <1>2 DEF vars, ghosts, GoneInv, Deleting
<1>3. ASSUME NEW r \in Requests, Begin(r)
      PROVE  (team.owned /\ (Deleting \/ account = "gone" \/ ~team.member) => unseen)'
  <2>1. UNCHANGED <<team, unseen>>
    BY <1>3, BeginFrame DEF TeamVars
  <2>2. account' = "gone" => account = "gone"
    BY <1>3 DEF Begin, Register, BeginLogin, BeginFailure, BeginChangePassword, Refresh,
       BeginUpdate, BeginDelete, BeginSession, BeginCleanup, GetSession
  <2>3. Deleting' => Deleting \/ ~(team.owned /\ team.member)
    BY <1>1, <1>3, BeginShape DEF Deleting
  <2>4. QED
    BY <2>1, <2>2, <2>3 DEF GoneInv
<1>4. ASSUME NEW r \in Requests, Step(r) \/ StatementFails(r)
      PROVE  (team.owned /\ (Deleting \/ account = "gone" \/ ~team.member) => unseen)'
  <2>1. Deleting' => Deleting
    BY <1>1, <1>4, StepMarks DEF Deleting, Idle
  <2>2. CASE DeleteRow(r) \/ RemoveFromTeams(r)
    <3>1. Deleting /\ UNCHANGED unseen /\ team'.owned = team.owned
      BY <2>2 DEF DeleteRow, RemoveFromTeams, Deleting, At, TypeInv, TypeOK
    <3>2. QED
      BY <3>1 DEF GoneInv
  <2>3. CASE UNCHANGED <<team, unseen>> /\ (account' = "gone" => account = "gone")
    BY <2>1, <2>3 DEF GoneInv
  <2>4. QED
    BY <1>4, <2>2, <2>3
       DEF Step, StatementFails, CheckLocked, MintTokens, RecordLoginSuccess, CountFailure,
           LockAccount, MintAccessToken, VerifyPassword, UpdatePassword, Update,
           DeleteSessions, CreateUserSession, TouchSession,
           CleanupAdminSessions, CleanupUserSessions, ghosts
<1>5. CASE Others
  <2>1. UNCHANGED <<req, account>> /\ (Deleting' <=> Deleting)
    BY <1>5 DEF Others, SetVerified, SetEnabled, GainTeam, LoseTeam, CreateAdminSession,
       DeleteSession, DeleteAllSessions, Tick, Unauthorized, vars, Deleting
  <2>2. CASE \E member \in BOOLEAN : GainTeam(member)
    <3>1. PICK member \in BOOLEAN : GainTeam(member)
      BY <2>2
    <3>2. team'.member = member
      BY <3>1 DEF GainTeam
    <3>3. ~member \/ Deleting \/ account = "gone" => unseen'
      BY <3>1, Zenon DEF GainTeam
    <3>4. QED
      BY <2>1, <3>2, <3>3, Zenon
  <2>3. CASE LoseTeam
    BY <2>3 DEF LoseTeam, TypeInv, TypeOK
  <2>4. CASE UNCHANGED <<team, unseen>>
    BY <2>1, <2>4 DEF GoneInv
  <2>5. QED
    BY <1>5, <2>2, <2>3, <2>4
       DEF Others, SetVerified, SetEnabled, CreateAdminSession,
           DeleteSession, DeleteAllSessions, Tick, Unauthorized, vars, ghosts
<1>6. QED
  BY <1>2, <1>3, <1>4, <1>5 DEF Next

LEMMA GoneStep == TypeInv /\ GoneInv /\ [Next]_vars => GoneInv'
BY MakersStep, UnseenStep DEF GoneInv

LEMMA NothingMade ==
  ASSUME TypeInv, GoneInv, [Next]_vars, account = "gone"
  PROVE  \/ tokens' \subseteq tokens /\ UserSessions' \subseteq UserSessions
         \/ \E r \in before.delete : req'[r] # req[r]
<1> DEFINE Overtaken == \E r \in before["delete"] : req'[r] # req[r]
<1>1. ReqTypes
  BY DEF TypeInv
<1>2. ASSUME TokenAction PROVE Overtaken
  <2>1. PICK r \in Requests : MintTokens(r) \/ MintAccessToken(r)
    BY <1>2 DEF TokenAction
  <2>2. req[r].op \in Makers /\ req[r].pc = "mint"
    BY <2>1 DEF MintTokens, MintAccessToken, At, Makers
  <2>3. req'[r].pc # "mint"
    BY <1>1, <2>1 DEF MintTokens, MintAccessToken, Goto, Finish, Idle, ReqTypes, Request
  <2>4. QED
    BY <2>2, <2>3 DEF GoneInv
<1>3. ASSUME NEW r \in Requests, NEW s \in SessionIds, CreateUserSession(r, s) PROVE Overtaken
  <2>1. req[r].op \in Makers /\ req[r].pc = "insert" /\ req'[r] = Idle
    BY <1>1, <1>3 DEF CreateUserSession, At, Finish, Makers, ReqTypes
  <2>2. QED
    BY <2>1 DEF GoneInv, Idle
<1>4. ASSUME NEW s \in SessionIds, CreateAdminSession(s) PROVE UserSessions' \subseteq UserSessions
  BY <1>4 DEF CreateAdminSession, Inserted, UserSessions, OfKind, TypeInv, TypeOK
<1>5. ASSUME NEW ids, sessions' = Without(ids) PROVE UserSessions' \subseteq UserSessions
  BY <1>5 DEF Without, UserSessions, OfKind
<1>6. Overtaken \/ UserSessions' \subseteq UserSessions
  <2>1. CASE UNCHANGED Sessions
    BY <2>1 DEF Sessions, UserSessions, OfKind
  <2>2. CASE SessionAction
    BY <2>2, <1>3, <1>4, <1>5 DEF SessionAction, DeleteSessions, DeleteSession,
       DeleteAllSessions, CleanupAdminSessions, CleanupUserSessions
  <2>3. QED
    BY <2>1, <2>2, Frame
<1>7. Overtaken \/ tokens' \subseteq tokens
  BY <1>2, Frame
<1>8. QED
  BY <1>6, <1>7

\* Once the row is gone, nothing is signed or made but by requests that the deletion
\* overtook, and a team that is still owned was gained where the check did not see it.
THEOREM DeletionHolds == Spec => DeletionIsFinal
<1>1. TypeInv /\ GoneInv /\ [Next]_vars =>
        [account = "gone" =>
           \/ tokens' \subseteq tokens /\ UserSessions' \subseteq UserSessions
           \/ \E r \in before.delete : req'[r] # req[r]]_vars
  BY NothingMade
<1>2. GoneInv => (account = "gone" /\ team.owned => unseen)
  BY DEF GoneInv
<1>3. QED
  BY TypeInit, TypeStep, GoneInit, GoneStep, <1>1, <1>2, PTL DEF Spec, DeletionIsFinal

-----------------------------------------------------------------------------
(* Sessions *)

SessionEnds(s) ==
  \/ clock' # clock \/ DeleteSession(s) \/ DeleteAllSessions(sessions[s].kind)
  \/ \E r \in Requests : DeleteSessions(r)

\* The clock that a cleanup started from is in the past: what it takes had expired.
LEMMA CleanupTakesExpired ==
  ASSUME TypeInv, NEW r \in Requests, NEW kind \in {"admin", "user"}, NEW s \in SessionIds,
         req[r].op = "sweep", s \in Expired(kind, req[r].arg)
  PROVE  ~Accepted(s)
<1>1. req[r].arg \in Nat /\ req[r].arg <= clock /\ clock \in Nat
  BY DEF TypeInv, TypeOK, ReqTypes, WellFormed
<1>2. sessions[s] \in Session /\ sessions[s].exp < req[r].arg
  BY DEF Expired, OfKind, TypeInv, TypeOK
<1>3. QED
  BY <1>1, <1>2 DEF Accepted, Session

LEMMA SessionsKept ==
  ASSUME TypeInv, [Next]_vars, NEW s \in drawn
  PROVE  /\ Accepted(s) /\ ~Accepted(s)' => SessionEnds(s)
         /\ ~Accepted(s) => ~Accepted(s)'
<1>1. s \in SessionIds /\ clock \in Nat /\ clock' \in Nat /\ clock <= clock'
  BY Frame DEF TypeInv, TypeOK
<1>2. CASE UNCHANGED Sessions
  BY <1>1, <1>2 DEF Sessions, Accepted, SessionEnds, Session, TypeInv, TypeOK
<1>3. ASSUME NEW i \in SessionIds, NEW kind, Inserted(i, kind)
      PROVE  sessions'[s] = sessions[s]
  BY <1>1, <1>3 DEF Inserted, TypeInv, TypeOK
<1>4. ASSUME NEW ids, sessions' = Without(ids)
      PROVE  sessions'[s] = IF s \in ids THEN None ELSE sessions[s]
  BY <1>1, <1>4 DEF Without
<1>5. CASE sessions'[s] = sessions[s]
  BY <1>1, <1>5 DEF Accepted, SessionEnds, Session, TypeInv, TypeOK
<1>6. CASE sessions'[s] = None /\ (SessionEnds(s) \/ ~Accepted(s))
  BY <1>6 DEF Accepted
<1>7. CASE \E r \in Requests, i \in SessionIds : CreateUserSession(r, i)
  BY <1>3, <1>5, <1>7 DEF CreateUserSession
<1>8. CASE \E i \in SessionIds : CreateAdminSession(i)
  BY <1>3, <1>5, <1>8 DEF CreateAdminSession
<1>9. CASE \E r \in Requests : DeleteSessions(r)
  BY <1>4, <1>5, <1>6, <1>9 DEF DeleteSessions, SessionEnds
<1>10. CASE \E i \in SessionIds : DeleteSession(i)
  BY <1>4, <1>5, <1>6, <1>10 DEF DeleteSession, SessionEnds
<1>11. ASSUME NEW kind \in {"admin", "user"}, DeleteAllSessions(kind)
       PROVE  sessions'[s] = sessions[s] \/ (sessions'[s] = None /\ SessionEnds(s))
  <2>1. sessions'[s] = IF s \in OfKind(kind) THEN None ELSE sessions[s]
    BY <1>4, <1>11 DEF DeleteAllSessions
  <2>2. s \in OfKind(kind) => SessionEnds(s)
    BY <1>11 DEF OfKind, SessionEnds
  <2>3. QED
    BY <2>1, <2>2
<1>12. ASSUME NEW r \in Requests, CleanupAdminSessions(r) \/ CleanupUserSessions(r)
       PROVE  sessions'[s] = sessions[s] \/ (sessions'[s] = None /\ ~Accepted(s))
  BY <1>1, <1>4, <1>12, CleanupTakesExpired DEF CleanupAdminSessions, CleanupUserSessions, At
<1>13. QED
  BY <1>2, <1>5, <1>6, <1>7, <1>8, <1>9, <1>10, <1>11, <1>12, Frame DEF SessionAction

\* A session ends by the clock, its owner or the deletion only, and only once.
THEOREM SessionsHold == Spec => SessionsEndOnce
<1>1. TypeInv /\ [Next]_vars =>
        [\A s \in drawn :
           /\ Accepted(s) /\ ~Accepted(s)' =>
                \/ clock' # clock \/ DeleteSession(s) \/ DeleteAllSessions(sessions[s].kind)
                \/ \E r \in Requests : DeleteSessions(r)
           /\ ~Accepted(s) => ~Accepted(s)']_vars
  BY SessionsKept DEF SessionEnds
<1>2. QED
  BY TypeInit, TypeStep, <1>1, PTL DEF Spec, SessionsEndOnce

-----------------------------------------------------------------------------
(* The columns that an update writes *)

\* What an update of the profile carries was verified as it read it, and whoever read an
\* account that is disabled by now had begun before.
Carries(q) ==
  req[q].op = "profile" =>
    /\ req[q].read.verified => req[q].read.email \in confirmed
    /\ account = "live" /\ ~row.enabled /\ req[q].read.enabled => q \in before["disable"]

ColumnInv ==
  /\ account = "live" /\ row.verified => row.email \in confirmed
  /\ \A q \in Requests : Carries(q)

LEMMA ColumnInit == Init => ColumnInv
BY DEF Init, ColumnInv, Carries, Idle

\* Steps that leave the three columns alone and begin no update.
LEMMA ColumnKept ==
  ASSUME TypeInv, ColumnInv, confirmed \subseteq confirmed',
         account' = "live" => /\ account = "live" /\ row'.enabled = row.enabled
                              /\ row'.verified => row.verified /\ row'.email = row.email,
         \A q \in Requests :
           req'[q].op = "profile" =>
             /\ req[q].op = "profile" /\ req'[q].read = req[q].read
             /\ q \in before["disable"] => q \in before'["disable"]
  PROVE  ColumnInv'
<1>1. (account = "live" /\ row.verified => row.email \in confirmed)'
  BY DEF ColumnInv
<1>2. ASSUME NEW q \in Requests PROVE Carries(q)'
  BY DEF ColumnInv, Carries
<1>3. QED
  BY <1>1, <1>2 DEF ColumnInv

LEMMA ColumnBegin ==
  ASSUME TypeInv, ColumnInv, NEW r \in Requests, Begin(r)
  PROVE  ColumnInv'
<1>1. UNCHANGED <<before, confirmed>> /\ ReqTypes
  BY BeginFrame DEF TypeInv
<1>2. \A q \in Requests \ {r} : req'[q] = req[q]
  BY <1>1, BeginShape
<1>3. ASSUME NEW a \in Addresses, NEW p \in Passwords, Register(r, a, p) PROVE ColumnInv'
  <2>1. account' = "live" /\ row'.enabled /\ ~row'.verified
    BY <1>3 DEF Register
  <2>2. req'[r].op # "profile"
    BY <1>1, <1>3 DEF Register, Start, ReqTypes
  <2>3. QED
    BY <1>1, <1>2, <2>1, <2>2 DEF ColumnInv, Carries
<1>4. ASSUME NEW a \in Addresses, BeginUpdate(r, a) PROVE ColumnInv'
  <2>1. UNCHANGED <<account, row>> /\ account = "live" /\ row \in Row
    BY <1>4 DEF BeginUpdate, TypeInv, TypeOK
  <2>2. req'[r].read = Changed(a)
    BY <1>1, <1>4 DEF BeginUpdate, Start, ReqTypes
  <2>3. /\ req'[r].read.enabled = row.enabled
        /\ req'[r].read.verified => row.verified /\ req'[r].read.email = row.email
    BY <2>1, <2>2 DEF Changed, Row
  <2>4. Carries(r)'
    BY <1>1, <2>1, <2>3 DEF ColumnInv, Carries
  <2>5. QED
    BY <1>1, <1>2, <2>1, <2>4 DEF ColumnInv, Carries
<1>5. CASE UNCHANGED <<account, row>> /\ req'[r].op # "profile"
  BY <1>1, <1>2, <1>5 DEF ColumnInv, Carries
<1>6. QED
  BY <1>1, <1>3, <1>4, <1>5
     DEF Begin, BeginLogin, BeginFailure, BeginChangePassword, Refresh, BeginDelete,
         BeginSession, BeginCleanup, GetSession, Start, ReqTypes

\* The update that writes: it may disable the account, and marks those under way.
LEMMA ColumnUpdate ==
  ASSUME TypeInv, ColumnInv, NEW r \in Requests, Update(r)
  PROVE  /\ ColumnInv'
         /\ account = "live" /\ row'.enabled /\ ~row.enabled =>
              r \in before["disable"] /\ req'[r] = Idle
<1>1. /\ req[r].op = "profile" /\ req[r].read \in Row /\ ReqTypes
      /\ UNCHANGED <<account, confirmed>>
  BY DEF Update, At, TypeInv, ReqTypes, WellFormed
<1>2. req'[r] = Idle /\ \A q \in Requests \ {r} : req'[q] = req[q]
  BY <1>1 DEF Update, Finish, FinishMarking, ReqTypes
<1>3. CASE account # "live"
  <2>1. UNCHANGED row /\ \A q \in Requests \ {r} : q \in before["disable"] => q \in before'["disable"]
    BY <1>1, <1>3 DEF Update, UpdateRow, Finish, ReqTypes, Events
  <2>2. QED
    BY <1>1, <1>2, <1>3, <2>1 DEF ColumnInv, Carries, Idle
<1>4. CASE account = "live"
  <2>1. row' = Written(r) /\ row \in Row
    BY <1>4 DEF Update, UpdateRow, TypeInv, TypeOK
  <2>2. /\ row'.email = req[r].read.email /\ row'.verified = req[r].read.verified
        /\ row'.enabled = req[r].read.enabled
    BY <1>1, <2>1 DEF Written, Row
  <2>3. row'.verified => row'.email \in confirmed'
    BY <1>1, <2>2 DEF ColumnInv, Carries
  <2>4. row'.enabled /\ ~row.enabled => r \in before["disable"]
    BY <1>1, <1>4, <2>2 DEF ColumnInv, Carries
  <2>5. ASSUME NEW q \in Requests \ {r}, req[q].op = "profile", ~row'.enabled, req[q].read.enabled
        PROVE  q \in before'["disable"]
    <3>1. CASE row.enabled
      <4>1. before'["disable"] = Busy \ {r}
        BY <1>1, <1>4, <2>5, <3>1 DEF Update, FinishMarking, ReqTypes, Events
      <4>2. q \in Busy
        BY <1>1, <2>5 DEF Busy, Idle, ReqTypes, WellFormed
      <4>3. QED
        BY <4>1, <4>2
    <3>2. CASE ~row.enabled
      BY <1>1, <1>4, <2>5, <3>2 DEF Update, Finish, ReqTypes, Events, ColumnInv, Carries
    <3>3. QED
      BY <3>1, <3>2
  <2>6. \A q \in Requests : Carries(q)'
    BY <1>1, <1>2, <2>5 DEF ColumnInv, Carries, Idle
  <2>7. QED
    BY <1>2, <2>3, <2>4, <2>6 DEF ColumnInv
<1>5. QED
  BY <1>3, <1>4

LEMMA ColumnStep == TypeInv /\ ColumnInv /\ [Next]_vars => ColumnInv'
<1> SUFFICES ASSUME TypeInv, ColumnInv, [Next]_vars PROVE ColumnInv'
  OBVIOUS
<1>1. ReqTypes
  BY DEF TypeInv
<1>2. CASE UNCHANGED vars
  BY <1>2, ColumnKept DEF vars, ghosts
<1>3. ASSUME NEW r \in Requests, Step(r) \/ StatementFails(r), ~Update(r) PROVE ColumnInv'
  <2>1. \A q \in Requests :
          req'[q].op = "profile" =>
            /\ req[q].op = "profile" /\ req'[q].read = req[q].read
            /\ q \in before["disable"] => q \in before'["disable"]
    <3>1. /\ \A q \in Requests \ {r} : req'[q] = req[q]
          /\ before["disable"] \ {r} \subseteq before'["disable"]
          /\ \/ req'[r] = Idle
             \/ req'[r].op = req[r].op /\ req'[r].read = req[r].read /\ UNCHANGED before
      BY <1>1, <1>3, StepMarks DEF Events
    <3>2. QED
      BY <3>1 DEF Idle
  <2>2. UNCHANGED confirmed
    BY <1>3, StepFrame
  <2>3. CASE UNCHANGED <<account, row>>
    BY <2>1, <2>2, <2>3, ColumnKept
  <2>4. CASE \/ RecordLoginSuccess(r) \/ CountFailure(r) \/ LockAccount(r)
             \/ UpdatePassword(r) \/ DeleteRow(r)
    <3>1. account' = "live" => /\ account = "live" /\ row'.enabled = row.enabled
                               /\ row'.verified = row.verified /\ row'.email = row.email
      BY <2>4 DEF RecordLoginSuccess, CountFailure, LockAccount, TooManyFailures,
         UpdatePassword, DeleteRow, UpdateRow, TypeInv, TypeOK, Row
    <3>2. QED
      BY <2>1, <2>2, <3>1, ColumnKept
  <2>5. QED
    BY <1>3, <2>3, <2>4
       DEF Step, StatementFails, CheckLocked, MintTokens, MintAccessToken, VerifyPassword,
           RemoveFromTeams, DeleteSessions, CreateUserSession, TouchSession,
           CleanupAdminSessions, CleanupUserSessions
<1>4. CASE Others
  <2>1. UNCHANGED <<req, account>>
    BY <1>4 DEF Others, SetVerified, SetEnabled, GainTeam, LoseTeam, CreateAdminSession,
       DeleteSession, DeleteAllSessions, Tick, Unauthorized, vars
  <2>2. CASE UNCHANGED <<row, confirmed, before>>
    BY <2>1, <2>2, ColumnKept
  <2>3. CASE SetVerified
    <3>1. /\ row'.enabled = row.enabled /\ row'.email = row.email /\ UNCHANGED before
          /\ confirmed' = confirmed \cup {row.email}
      BY <2>3 DEF SetVerified, TypeInv, TypeOK, Row
    <3>2. QED
      BY <2>1, <3>1 DEF ColumnInv, Carries
  <2>4. ASSUME NEW enabled \in BOOLEAN, SetEnabled(enabled) PROVE ColumnInv'
    <3>1. /\ row'.enabled = enabled /\ row'.verified = row.verified /\ row'.email = row.email
          /\ UNCHANGED confirmed
      BY <2>4 DEF SetEnabled, TypeInv, TypeOK, Row
    <3>2. ASSUME NEW q \in Requests, req[q].op = "profile", ~row'.enabled, req[q].read.enabled
          PROVE  q \in before'["disable"]
      <4>1. q \in Busy
        BY <1>1, <3>2 DEF Busy, Idle, ReqTypes, WellFormed
      <4>2. CASE row.enabled
        BY <1>1, <2>4, <3>1, <3>2, <4>1, <4>2 DEF SetEnabled, ReqTypes, Events
      <4>3. CASE ~row.enabled
        BY <2>4, <3>2, <4>3 DEF SetEnabled, ColumnInv, Carries
      <4>4. QED
        BY <4>2, <4>3
    <3>3. QED
      BY <2>1, <3>1, <3>2 DEF ColumnInv, Carries
  <2>5. QED
    BY <1>4, <2>2, <2>3, <2>4
       DEF Others, GainTeam, LoseTeam, CreateAdminSession,
           DeleteSession, DeleteAllSessions, Tick, Unauthorized, vars, ghosts
<1>5. QED
  BY <1>2, <1>3, <1>4, ColumnBegin, ColumnUpdate DEF Next

LEMMA EnabledAgain ==
  ASSUME TypeInv, ColumnInv, [Next]_vars,
         account' = "live", account = "live", row'.enabled, ~row.enabled
  PROVE  SetEnabled(TRUE) \/ \E r \in before.disable : req'[r] = Idle
<1>1. RowAction
  BY Frame DEF Rows
<1>2. CASE \E r \in Requests : Update(r)
  BY <1>2, ColumnUpdate
<1>3. ASSUME NEW enabled \in BOOLEAN, SetEnabled(enabled) PROVE SetEnabled(TRUE)
  <2>1. row'.enabled = enabled
    BY <1>3 DEF SetEnabled, TypeInv, TypeOK, Row
  <2>2. QED
    BY <1>3, <2>1
<1>4. ASSUME NEW r \in Requests,
             \/ RecordLoginSuccess(r) \/ CountFailure(r) \/ LockAccount(r)
             \/ UpdatePassword(r) \/ DeleteRow(r)
      PROVE  FALSE
  BY <1>4 DEF RecordLoginSuccess, CountFailure, LockAccount, UpdatePassword, DeleteRow,
     UpdateRow, TypeInv, TypeOK, Row
<1>5. ~SetVerified
  BY DEF SetVerified, TypeInv, TypeOK, Row
<1>6. QED
  BY <1>1, <1>2, <1>3, <1>4, <1>5 DEF RowAction, Register

\* No update verifies an address or enables an account that it did not read so.
THEOREM ColumnsHold == Spec => ColumnsFollowReads
<1>1. TypeInv /\ ColumnInv /\ [Next]_vars =>
        [account' = "live" /\ account = "live" /\ row'.enabled /\ ~row.enabled =>
           SetEnabled(TRUE) \/ \E r \in before.disable : req'[r] = Idle]_vars
  BY EnabledAgain
<1>2. ColumnInv => (account = "live" /\ row.verified => row.email \in confirmed)
  BY DEF ColumnInv
<1>3. QED
  BY TypeInit, TypeStep, ColumnInit, ColumnStep, <1>1, <1>2, PTL DEF Spec, ColumnsFollowReads
================================================================================
