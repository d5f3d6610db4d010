-------------------------- MODULE SecretStoreProofs --------------------------
(***************************************************************************)
(* Theorems about SecretStore, for any numbers of secrets, requests and    *)
(* versions and any faults.                                                *)
(***************************************************************************)
EXTENDS SecretStore, FiniteSetTheorems, SequenceTheorems, TLAPS

-----------------------------------------------------------------------------
(* The inductive invariant *)

\* A request in flight is at work on a secret.
IdOK == \A r \in Requests : req[r].pc # "idle" => req[r].id \in Secrets

\* What a request's position says of its operation.
OpOK ==
  \A r \in Requests :
    /\ req[r].pc = "softdelete" => req[r].op = "delete"
    /\ req[r].pc = "purge" => req[r].id \in purged
    /\ req[r].target # 0 => req[r].op = "rollback"

TypeInv == TypeOK /\ IdOK /\ OpOK

\* UNIQUE(secret_id, version)
UniqueVersions ==
  \A g, h \in history :
    g.secret = h.secret /\ g.version = h.version => g = h

Row(s, v, p) == [secret |-> s, version |-> v, payload |-> p]

\* What has been acknowledged, and the version a rollback restored, is stored.
AckStored ==
  \A a \in acked : a.secret \notin purged =>
    /\ Row(a.secret, a.version, a.payload) \in history
    /\ a.from # 0 => Row(a.secret, a.from, a.payload) \in history

\* What a request is about to acknowledge is stored.
PendingStored ==
  \A r \in Requests :
    /\ req[r].pc \in {"reread", "audit"}
    /\ req[r].op # "delete"
    /\ req[r].id \notin purged
    => VersionRowOf(r) \in history

\* What a rollback carries is the content of its target.
CarriesTarget ==
  \A r \in Requests :
    /\ req[r].op = "rollback"
    /\ req[r].pc # "target"
    /\ req[r].id \notin purged
    => Row(req[r].id, req[r].target, req[r].payload) \in history

StoreInv ==
  /\ NoOrphanVersion
  /\ UniqueVersions
  /\ AckStored
  /\ PendingStored
  /\ CarriesTarget

IInv == TypeInv /\ StoreInv

-----------------------------------------------------------------------------
(* Types *)

LEMMA PayloadTypes ==
  /\ NoPayload \in Payload
  /\ Idle \in Request
  /\ \A s \in {"free", "gone"} : EmptyRow(s) \in SecretRow
  /\ \A old, patch \in Payload : Merge(old, patch) \in Payload
BY DEF NoPayload, Payload, Idle, Request, EmptyRow, SecretRow, Merge, PC, Op

LEMMA InitTypeInv == Init => TypeInv
BY PayloadTypes DEF Init, TypeInv, TypeOK, IdOK, OpOK, Idle, AuditAction

\* What every step of a request in flight does to the requests.
ReqInv == req \in [Requests -> Request] /\ IdOK /\ OpOK

LEMMA GotoReqInv ==
  ASSUME TypeInv, NEW r \in Requests, NEW pc \in PC \ {"softdelete", "purge"},
         Goto(r, pc), req[r].pc # "idle", purged' = purged
  PROVE  ReqInv'
<1>1. req' \in [Requests -> Request]
  BY DEF TypeInv, TypeOK, Goto, Request
<1>2. IdOK'
  BY DEF TypeInv, TypeOK, IdOK, Goto, Request
<1>3. OpOK'
  BY DEF TypeInv, TypeOK, OpOK, Goto, Request
<1>4. QED
  BY <1>1, <1>2, <1>3 DEF ReqInv

LEMMA FinishReqInv ==
  ASSUME TypeInv, NEW r \in Requests, Finish(r), purged' = purged
  PROVE  ReqInv'
<1>1. req' \in [Requests -> Request]
  BY PayloadTypes DEF TypeInv, TypeOK, Finish
<1>2. IdOK'
  BY DEF TypeInv, TypeOK, IdOK, Finish, Idle
<1>3. OpOK'
  BY DEF TypeInv, TypeOK, OpOK, Finish, Idle
<1>4. QED
  BY <1>1, <1>2, <1>3 DEF ReqInv

LEMMA AcknowledgeType ==
  ASSUME TypeInv, NEW r \in Requests, req[r].pc # "idle", Acknowledge(r)
  PROVE  acked' \subseteq Ack
BY DEF Acknowledge, Ack, TypeInv, TypeOK, IdOK, Request

LEMMA NextTypeInv == TypeInv /\ [Next]_vars => TypeInv'
<1> SUFFICES ASSUME TypeInv, [Next]_vars PROVE TypeInv'
  OBVIOUS
<1> USE PayloadTypes
<1>1. ASSUME NEW r \in Requests, NEW s \in Secrets, NEW p \in Paths, NEW v \in Values,
             NEW m \in Metadata \cup {None},
             Create(r, s, p, [value |-> v, metadata |-> m])
      PROVE TypeInv'
  BY <1>1 DEF Create, Start, TypeInv, TypeOK, IdOK, OpOK, SecretRow, Request, Payload,
     PC, Op
<1>2. ASSUME NEW r \in Requests, NEW s \in Secrets, NEW patch \in Payload,
             BeginUpdate(r, s, patch)
      PROVE TypeInv'
  BY <1>2 DEF BeginUpdate, Start, TypeInv, TypeOK, IdOK, OpOK, SecretRow, Request, PC, Op
<1>3. ASSUME NEW r \in Requests, NEW s \in Secrets, NEW t \in 1..MaxVersion,
             BeginRollback(r, s, t)
      PROVE TypeInv'
  BY <1>3, MaxVersionAssumption
     DEF BeginRollback, Start, TypeInv, TypeOK, IdOK, OpOK, Request, PC, Op
<1>4. ASSUME NEW r \in Requests, NEW s \in Secrets, BeginDelete(r, s)
      PROVE TypeInv'
  BY <1>4 DEF BeginDelete, Start, TypeInv, TypeOK, IdOK, OpOK, Request, PC, Op
<1>5. ASSUME NEW r \in Requests, NEW s \in Secrets, HardDelete(r, s)
      PROVE TypeInv'
  BY <1>5 DEF HardDelete, Start, VersionsOf, TypeInv, TypeOK, IdOK, OpOK, Request, PC, Op
<1>6. ASSUME NEW r \in Requests, SelectVersion(r)
      PROVE TypeInv'
  <2>1. CASE Exists(req[r].id)
    <3>1. secrets[req[r].id].version + 1 \in Nat
      BY <1>6 DEF SelectVersion, TypeInv, TypeOK, IdOK, SecretRow
    <3>2. req' \in [Requests -> Request]
      BY <1>6, <2>1, <3>1 DEF SelectVersion, TypeInv, TypeOK, Request, PC
    <3>3. IdOK'
      BY <1>6, <2>1 DEF SelectVersion, TypeInv, TypeOK, IdOK, Request
    <3>4. OpOK'
      BY <1>6, <2>1 DEF SelectVersion, TypeInv, TypeOK, OpOK, Request
    <3>5. QED
      BY <1>6, <3>2, <3>3, <3>4 DEF SelectVersion, TypeInv, TypeOK
  <2>2. CASE ~Exists(req[r].id)
    BY <1>6, <2>2, FinishReqInv DEF SelectVersion, ReqInv, TypeInv, TypeOK
  <2>3. QED
    BY <2>1, <2>2
<1>7. ASSUME NEW r \in Requests, WriteRow(r)
      PROVE TypeInv'
  <2>1. secrets' \in [Secrets -> SecretRow]
    BY <1>7 DEF WriteRow, Written, TypeInv, TypeOK, IdOK, Request, SecretRow
  <2>2. ReqInv'
    BY <1>7, GotoReqInv DEF WriteRow, PC
  <2>3. QED
    BY <1>7, <2>1, <2>2 DEF WriteRow, ReqInv, TypeInv, TypeOK
<1>8. ASSUME NEW r \in Requests, InsertVersion(r)
      PROVE TypeInv'
  <2>1. VersionRowOf(r) \in VersionRow
    BY <1>8 DEF InsertVersion, VersionRowOf, VersionRow, TypeInv, TypeOK, IdOK, Request
  <2>2. ReqInv' /\ history' \subseteq VersionRow
    BY <1>8, <2>1, GotoReqInv, FinishReqInv
       DEF InsertVersion, VersionStored, VersionRejected, PC, TypeInv, TypeOK
  <2>3. QED
    BY <1>8, <2>2 DEF InsertVersion, ReqInv, TypeInv, TypeOK
<1>9. ASSUME NEW r \in Requests, ReadTarget(r)
      PROVE TypeInv'
  <2>1. ASSUME NEW h \in VersionsOf(req[r].id),
               req' = [req EXCEPT ![r].pc = "reload", ![r].payload = h.payload]
        PROVE ReqInv'
    <3>1. h.payload \in Payload
      BY DEF VersionsOf, VersionRow, TypeInv, TypeOK
    <3>2. req' \in [Requests -> Request]
      BY <2>1, <3>1 DEF TypeInv, TypeOK, Request, PC
    <3>3. IdOK' /\ OpOK'
      BY <1>9, <2>1 DEF ReadTarget, TypeInv, TypeOK, IdOK, OpOK, Request
    <3>4. QED
      BY <3>2, <3>3 DEF ReqInv
  <2>2. ReqInv'
    BY <1>9, <2>1, FinishReqInv DEF ReadTarget
  <2>3. QED
    BY <1>9, <2>2 DEF ReadTarget, ReqInv, TypeInv, TypeOK
<1>10. ASSUME NEW r \in Requests, Reload(r) \/ Reread(r) \/ Panic(r)
       PROVE TypeInv'
  <2>1. ReqInv'
    BY <1>10, GotoReqInv, FinishReqInv DEF Reload, Reread, Panic, PC
  <2>2. QED
    BY <1>10, <2>1 DEF Reload, Reread, Panic, ReqInv, TypeInv, TypeOK
<1>11. ASSUME NEW r \in Requests, SoftDelete(r)
       PROVE TypeInv'
  BY <1>11, SMTT(30) DEF SoftDelete, Goto, TypeInv, TypeOK, IdOK, OpOK, Request, SecretRow, PC
<1>12. ASSUME NEW r \in Requests, PurgeRow(r)
       PROVE TypeInv'
  BY <1>12 DEF PurgeRow, VersionsOf, Finish, Idle, TypeInv, TypeOK, IdOK, OpOK
<1>13. ASSUME NEW r \in Requests, LogAndReply(r)
       PROVE TypeInv'
  <2>1. audit' \in [Secrets -> [AuditAction -> Nat]]
    <3> DEFINE act == IF req[r].op = "rollback" THEN "update" ELSE req[r].op
               row == audit[req[r].id]
    <3>1. row \in [AuditAction -> Nat]
      BY <1>13 DEF LogAndReply, TypeInv, TypeOK, IdOK
    <3>2. [row EXCEPT ![act] = row[act] + 1] \in [AuditAction -> Nat]
      <4> HIDE DEF act, row
      <4>1. CASE act \in AuditAction
        <5>1. row[act] + 1 \in Nat
          BY <3>1, <4>1
        <5>2. QED
          BY <3>1, <5>1
      <4>2. CASE act \notin AuditAction
        BY <3>1, <4>2
      <4>3. QED
        BY <4>1, <4>2
    <3>3. audit' = [audit EXCEPT ![req[r].id] = [row EXCEPT ![act] = row[act] + 1]]
      BY <1>13 DEF LogAndReply, Log
    <3>4. audit \in [Secrets -> [AuditAction -> Nat]]
      BY DEF TypeInv, TypeOK
    <3>5. QED
      <4> HIDE DEF act, row
      <4>1. QED
        BY <3>2, <3>3, <3>4
  <2>2. QED
    BY <1>13, <2>1, FinishReqInv, AcknowledgeType
       DEF LogAndReply, ReqInv, TypeInv, TypeOK
<1>14. ASSUME NEW r \in Requests, StatementFails(r)
       PROVE TypeInv'
  <2>1. ReqInv'
    BY <1>14, GotoReqInv, FinishReqInv DEF StatementFails, PC
  <2>2. acked' \subseteq Ack
    BY <1>14, AcknowledgeType DEF StatementFails, TypeInv, TypeOK
  <2>3. QED
    BY <1>14, <2>1, <2>2 DEF StatementFails, ReqInv, TypeInv, TypeOK
<1>15. ASSUME TeamDelete PROVE TypeInv'
  BY <1>15 DEF TeamDelete, TypeInv, TypeOK, IdOK, OpOK
<1>16. ASSUME Crash PROVE TypeInv'
  BY <1>16 DEF Crash, Idle, TypeInv, TypeOK, IdOK, OpOK
<1>17. ASSUME UNCHANGED vars PROVE TypeInv'
  BY <1>17 DEF vars, TypeInv, TypeOK, IdOK, OpOK
<1>18. QED
  BY <1>1, <1>2, <1>3, <1>4, <1>5, <1>6, <1>7, <1>8, <1>9, <1>10, <1>11, <1>12, <1>13,
     <1>14, <1>15, <1>16, <1>17 DEF Next, Begin, Step, NotFound

\* Every table and every request of SecretStore always has its type: no request is
\* ever at a step, or at work on a row, that its handler does not know.
THEOREM TypeCorrect == Spec => []TypeOK
<1>1. Spec => []TypeInv
  BY InitTypeInv, NextTypeInv, PTL DEF Spec
<1>2. TypeInv => TypeOK
  BY DEF TypeInv
<1>3. QED
  BY <1>1, <1>2, PTL

-----------------------------------------------------------------------------
(* The history *)

LEMMA InitStoreInv == Init => StoreInv
BY DEF Init, StoreInv, NoOrphanVersion, UniqueVersions, AckStored, PendingStored,
   CarriesTarget, Idle

\* The whole of StoreInv survives a step that leaves the tables and the ghosts
\* alone, if what each request carries afterwards it carried before.
LEMMA QuietStep ==
  ASSUME StoreInv, UNCHANGED <<history, acked, purged>>,
         \A s \in Secrets : Exists(s) => Exists(s)',
         \A h \in history : h.secret \in Secrets,
         PendingStored', CarriesTarget'
  PROVE  StoreInv'
BY DEF StoreInv, NoOrphanVersion, UniqueVersions, AckStored

\* A request that moves on without a new content, or starts without one.
LEMMA GotoCarries ==
  ASSUME TypeInv, StoreInv, NEW r \in Requests, NEW pc \in PC, Goto(r, pc),
         UNCHANGED <<history, purged>>, req[r].pc \notin {"idle", "target"},
         \/ pc \notin {"reread", "audit", "target"}
         \/ req[r].op = "delete" /\ pc # "target"
         \/ req[r].pc \in {"reread", "audit"} /\ pc # "target"
  PROVE  PendingStored' /\ CarriesTarget'
BY DEF TypeInv, TypeOK, StoreInv, PendingStored, CarriesTarget, VersionRowOf, Goto, Request,
   Row

LEMMA FinishCarries ==
  ASSUME TypeInv, StoreInv, NEW r \in Requests, Finish(r),
         UNCHANGED <<history, purged>>
  PROVE  PendingStored' /\ CarriesTarget'
BY DEF TypeInv, TypeOK, StoreInv, PendingStored, CarriesTarget, VersionRowOf, Finish, Idle,
   Row

\* The acknowledgement of a request whose version is stored.
LEMMA AcknowledgeStored ==
  ASSUME TypeInv, StoreInv, NEW r \in Requests, req[r].pc = "audit", Acknowledge(r),
         UNCHANGED <<history, purged>>
  PROVE  AckStored'
<1> DEFINE a == [secret |-> req[r].id, version |-> req[r].version,
                 payload |-> req[r].payload, from |-> req[r].target]
<1>1. CASE req[r].op = "delete"
  BY <1>1 DEF Acknowledge, StoreInv, AckStored
<1>2. CASE req[r].op # "delete"
  <2>1. acked' = acked \cup {a}
    BY <1>2 DEF Acknowledge
  <2>2. a.secret \notin purged => Row(a.secret, a.version, a.payload) \in history
    BY <1>2 DEF StoreInv, PendingStored, VersionRowOf, Row
  <2>3. a.secret \notin purged /\ a.from # 0 => Row(a.secret, a.from, a.payload) \in history
    BY DEF StoreInv, CarriesTarget, Row, TypeInv, OpOK
  <2>4. QED
    BY <2>1, <2>2, <2>3 DEF StoreInv, AckStored
<1>3. QED
  BY <1>1, <1>2

\* The history that loses all versions of purged secrets, and with them the rows.
LEMMA PurgeStep ==
  ASSUME TypeInv, StoreInv, NEW S \in SUBSET Secrets, S \subseteq purged',
         purged \subseteq purged',
         history' = {h \in history : h.secret \notin S},
         \A s \in Secrets \ S : Exists(s) => Exists(s)',
         acked' = acked
  PROVE  NoOrphanVersion' /\ UniqueVersions' /\ AckStored'
<1>1. NoOrphanVersion'
  BY DEF TypeInv, TypeOK, VersionRow, StoreInv, NoOrphanVersion
<1>2. UniqueVersions'
  BY DEF StoreInv, UniqueVersions
<1>3. AckStored'
  BY DEF StoreInv, AckStored, Row
<1>4. QED
  BY <1>1, <1>2, <1>3

LEMMA NextStoreInv == IInv /\ [Next]_vars => StoreInv'
<1> SUFFICES ASSUME TypeInv, StoreInv, [Next]_vars PROVE StoreInv'
  BY DEF IInv
<1>h. \A h \in history : h.secret \in Secrets
  BY DEF TypeInv, TypeOK, VersionRow
<1>1. ASSUME NEW r \in Requests, NEW s \in Secrets, NEW p \in Paths, NEW v \in Values,
             NEW m \in Metadata \cup {None},
             Create(r, s, p, [value |-> v, metadata |-> m])
      PROVE StoreInv'
  <2>1. PendingStored' /\ CarriesTarget'
    BY <1>1 DEF Create, Start, TypeInv, TypeOK, StoreInv, PendingStored, CarriesTarget,
       VersionRowOf, Row
  <2>2. \A q \in Secrets : Exists(q) => Exists(q)'
    BY <1>1 DEF Create, Exists, TypeInv, TypeOK
  <2>3. QED
    BY <1>1, <1>h, <2>1, <2>2, QuietStep DEF Create
<1>2. ASSUME NEW r \in Requests, NEW s \in Secrets,
             \/ \E patch \in Payload : BeginUpdate(r, s, patch)
             \/ \E t \in 1..MaxVersion : BeginRollback(r, s, t)
             \/ BeginDelete(r, s)
      PROVE StoreInv'
  <2>1. PendingStored' /\ CarriesTarget'
    BY <1>2 DEF BeginUpdate, BeginRollback, BeginDelete, Start, TypeInv, TypeOK, StoreInv,
       PendingStored, CarriesTarget, VersionRowOf, Row
  <2>2. QED
    BY <1>2, <1>h, <2>1, QuietStep DEF BeginUpdate, BeginRollback, BeginDelete, Exists
<1>3. ASSUME NEW r \in Requests, NEW s \in Secrets, HardDelete(r, s)
      PROVE StoreInv'
  <2>1. NoOrphanVersion' /\ UniqueVersions' /\ AckStored'
    <3>1. history' = {h \in history : h.secret \notin {s}}
      BY <1>3 DEF HardDelete, VersionsOf
    <3>2. QED
      <4>1. {s} \in SUBSET Secrets /\ {s} \subseteq purged'
        BY <1>3 DEF HardDelete
      <4>2. \A q \in Secrets : Exists(q) => Exists(q)'
        BY <1>3 DEF HardDelete, Exists
      <4>3. QED
        BY <1>3, <3>1, <4>1, <4>2, PurgeStep DEF HardDelete
  <2>2. PendingStored' /\ CarriesTarget'
    BY <1>3 DEF HardDelete, Start, VersionsOf, TypeInv, TypeOK, StoreInv, PendingStored,
       CarriesTarget, VersionRowOf, Row
  <2>3. QED
    BY <2>1, <2>2 DEF StoreInv
<1>4. ASSUME NEW r \in Requests, SelectVersion(r)
      PROVE StoreInv'
  <2>1. PendingStored' /\ CarriesTarget'
    <3>1. CASE Exists(req[r].id)
      <4>1. PendingStored'
        BY <1>4, <3>1 DEF SelectVersion, TypeInv, TypeOK, Request, StoreInv, PendingStored,
           VersionRowOf
      <4>2. CarriesTarget'
        BY <1>4, <3>1 DEF SelectVersion, TypeInv, TypeOK, Request, StoreInv, CarriesTarget,
           Row
      <4>3. QED
        BY <4>1, <4>2
    <3>2. CASE ~Exists(req[r].id)
      BY <1>4, <3>2, FinishCarries DEF SelectVersion
    <3>3. QED
      BY <3>1, <3>2
  <2>2. QED
    BY <1>4, <1>h, <2>1, QuietStep DEF SelectVersion, Exists
<1>5. ASSUME NEW r \in Requests, WriteRow(r)
      PROVE StoreInv'
  <2>1. \A s \in Secrets : Exists(s) => Exists(s)'
    BY <1>5 DEF WriteRow, Written, Exists, TypeInv, TypeOK, IdOK, SecretRow
  <2>2. PendingStored' /\ CarriesTarget'
    BY <1>5, GotoCarries DEF WriteRow, PC
  <2>3. QED
    BY <1>5, <1>h, <2>1, <2>2, QuietStep DEF WriteRow
<1>6. ASSUME NEW r \in Requests, InsertVersion(r)
      PROVE StoreInv'
  <2>1. CASE MayInsertVersion(req[r].id, req[r].version)
    <3>1. history' = history \cup {VersionRowOf(r)} /\ VersionStored(r)
      BY <1>6, <2>1 DEF InsertVersion
    <3>2. NoOrphanVersion'
      BY <1>6, <2>1, <3>1 DEF InsertVersion, MayInsertVersion, VersionRowOf, Exists, StoreInv,
         NoOrphanVersion
    <3>3. UniqueVersions'
      BY <2>1, <3>1 DEF MayInsertVersion, HasVersion, VersionRowOf, StoreInv, UniqueVersions
    <3>4. AckStored'
      BY <1>6, <3>1 DEF InsertVersion, StoreInv, AckStored
    <3>5. PendingStored' /\ CarriesTarget'
      BY <1>6, <3>1 DEF InsertVersion, VersionStored, Goto, VersionRowOf, TypeInv, TypeOK,
         Request, StoreInv, PendingStored, CarriesTarget, Row
    <3>6. QED
      BY <3>2, <3>3, <3>4, <3>5 DEF StoreInv
  <2>2. CASE ~MayInsertVersion(req[r].id, req[r].version)
    <3>1. PendingStored' /\ CarriesTarget'
      BY <1>6, <2>2, FinishCarries DEF InsertVersion, VersionRejected
    <3>2. QED
      BY <1>6, <1>h, <2>2, <3>1, QuietStep DEF InsertVersion, VersionRejected, Exists
  <2>3. QED
    BY <2>1, <2>2
<1>7. ASSUME NEW r \in Requests, ReadTarget(r)
      PROVE StoreInv'
  <2>1. ASSUME NEW h \in VersionsOf(req[r].id), h.version = req[r].target,
               req' = [req EXCEPT ![r].pc = "reload", ![r].payload = h.payload]
        PROVE PendingStored' /\ CarriesTarget'
    <3>1. h = Row(req[r].id, req[r].target, h.payload) /\ h \in history
      BY <2>1 DEF VersionsOf, VersionRow, Row, TypeInv, TypeOK
    <3>2. QED
      BY <1>7, <2>1, <3>1, ZenonT(40) DEF ReadTarget, TypeInv, TypeOK, Request, StoreInv, PendingStored,
         CarriesTarget, VersionRowOf, Row
  <2>2. PendingStored' /\ CarriesTarget'
    BY <1>7, <2>1, FinishCarries DEF ReadTarget
  <2>3. QED
    BY <1>7, <1>h, <2>2, QuietStep DEF ReadTarget, Exists
<1>8. ASSUME NEW r \in Requests, Reload(r) \/ Reread(r) \/ Panic(r)
      PROVE StoreInv'
  <2>1. PendingStored' /\ CarriesTarget'
    BY <1>8, GotoCarries, FinishCarries DEF Reload, Reread, Panic, PC
  <2>2. QED
    BY <1>8, <1>h, <2>1, QuietStep DEF Reload, Reread, Panic, Exists
<1>9. ASSUME NEW r \in Requests, SoftDelete(r)
      PROVE StoreInv'
  <2>1. \A s \in Secrets : Exists(s) => Exists(s)'
    BY <1>9 DEF SoftDelete, Exists, TypeInv, TypeOK, IdOK, SecretRow
  <2>2. PendingStored' /\ CarriesTarget'
    BY <1>9, GotoCarries DEF SoftDelete, PC, TypeInv, OpOK
  <2>3. QED
    BY <1>9, <1>h, <2>1, <2>2, QuietStep DEF SoftDelete
<1>10. ASSUME NEW r \in Requests, PurgeRow(r)
       PROVE StoreInv'
  <2>1. req[r].id \in Secrets /\ req[r].id \in purged
    BY <1>10 DEF PurgeRow, TypeInv, IdOK, OpOK
  <2>2. NoOrphanVersion' /\ UniqueVersions' /\ AckStored'
    <3>1. history' = {h \in history : h.secret \notin {req[r].id}}
      BY <1>10 DEF PurgeRow, VersionsOf
    <3>2. \A s \in Secrets \ {req[r].id} : Exists(s) => Exists(s)'
      BY <1>10 DEF PurgeRow, Exists, TypeInv, TypeOK
    <3>3. QED
      BY <1>10, <2>1, <3>1, <3>2, PurgeStep DEF PurgeRow
  <2>3. PendingStored' /\ CarriesTarget'
    BY <1>10, <2>1 DEF PurgeRow, VersionsOf, Finish, Idle, TypeInv, TypeOK, StoreInv,
       PendingStored, CarriesTarget, VersionRowOf, Row
  <2>4. QED
    BY <2>2, <2>3 DEF StoreInv
<1>11. ASSUME NEW r \in Requests, LogAndReply(r)
       PROVE StoreInv'
  <2>1. AckStored'
    BY <1>11, AcknowledgeStored DEF LogAndReply
  <2>2. PendingStored' /\ CarriesTarget'
    BY <1>11, FinishCarries DEF LogAndReply
  <2>3. QED
    BY <1>11, <2>1, <2>2 DEF LogAndReply, StoreInv, NoOrphanVersion, UniqueVersions, Exists
<1>12. ASSUME NEW r \in Requests, StatementFails(r)
       PROVE StoreInv'
  <2>1. AckStored'
    BY <1>12, AcknowledgeStored DEF StatementFails, StoreInv, AckStored
  <2>2. PendingStored' /\ CarriesTarget'
    BY <1>12, GotoCarries, FinishCarries DEF StatementFails, PC
  <2>3. QED
    BY <1>12, <2>1, <2>2
       DEF StatementFails, StoreInv, NoOrphanVersion, UniqueVersions, Exists
<1>13. ASSUME TeamDelete PROVE StoreInv'
  <2> DEFINE S == {s \in Secrets : Exists(s)}
  <2>1. NoOrphanVersion' /\ UniqueVersions' /\ AckStored'
    <3>1. \A h \in history : h.secret \in S
      BY <1>h DEF StoreInv, NoOrphanVersion
    <3>2. AckStored'
      BY <1>13, <3>1 DEF TeamDelete, StoreInv, AckStored, Row
    <3>3. QED
      BY <1>13, <3>2 DEF TeamDelete, NoOrphanVersion, UniqueVersions
  <2>2. PendingStored' /\ CarriesTarget'
    <3>1. \A h \in history : h.secret \in purged'
      BY <1>13, <1>h DEF TeamDelete, StoreInv, NoOrphanVersion
    <3>2. QED
      BY <1>13, <3>1 DEF TeamDelete, StoreInv, PendingStored, CarriesTarget, VersionRowOf, Row
  <2>3. QED
    BY <2>1, <2>2 DEF StoreInv
<1>14. ASSUME Crash PROVE StoreInv'
  <2>1. PendingStored' /\ CarriesTarget'
    BY <1>14 DEF Crash, Idle, PendingStored, CarriesTarget
  <2>2. QED
    BY <1>14, <1>h, <2>1, QuietStep DEF Crash, Exists
<1>15. ASSUME UNCHANGED vars PROVE StoreInv'
  BY <1>15 DEF vars, StoreInv, NoOrphanVersion, UniqueVersions, AckStored, PendingStored,
     CarriesTarget, VersionRowOf, Exists
<1>16. QED
  <2>1. ASSUME NEW r \in Requests, Begin(r) PROVE StoreInv'
    <3>1. PICK s \in Secrets :
            \/ \E p \in Paths, v \in Values, m \in Metadata \cup {None} :
                 Create(r, s, p, [value |-> v, metadata |-> m])
            \/ \E patch \in Payload : BeginUpdate(r, s, patch)
            \/ \E t \in 1..MaxVersion : BeginRollback(r, s, t)
            \/ BeginDelete(r, s)
            \/ HardDelete(r, s)
      BY <2>1 DEF Begin
    <3>2. QED
      BY <3>1, <1>1, <1>2, <1>3
  <2>2. ASSUME NEW r \in Requests, Step(r) PROVE StoreInv'
    BY <2>2, <1>4, <1>5, <1>6, <1>7, <1>8, <1>9, <1>10, <1>11 DEF Step
  <2>3. QED
    BY <2>1, <2>2, <1>12, <1>13, <1>14, <1>15 DEF Next, NotFound

LEMMA Inductive == Spec => []IInv
<1>1. Init => IInv
  BY InitTypeInv, InitStoreInv DEF IInv
<1>2. IInv /\ [Next]_vars => IInv'
  BY NextTypeInv, NextStoreInv DEF IInv
<1>3. QED
  BY <1>1, <1>2, PTL DEF Spec

-----------------------------------------------------------------------------
(* The theorems *)

LEMMA StoredPayload ==
  ASSUME UniqueVersions, NEW s, NEW v, NEW p, Row(s, v, p) \in history
  PROVE  PayloadsAt(s, v) = {p}
BY DEF UniqueVersions, PayloadsAt, VersionsOf, Row

\* Whatever the requests do at the same time and whichever of them fail, a version
\* reported as stored stays in the history with the content that was sent.
THEOREM AckedVersionsKept == Spec => []AckedInHistory
<1>1. IInv => AckedInHistory
  BY StoredPayload DEF IInv, StoreInv, AckStored, AckedInHistory
<1>2. QED
  BY <1>1, Inductive, PTL

\* A rollback that succeeds has stored exactly the content of its target.
THEOREM RollbacksExact == Spec => []RollbackRestoresTarget
<1>1. ASSUME IInv, NEW a \in acked, a.from # 0, a.secret \notin purged
      PROVE  PayloadsAt(a.secret, a.from) = PayloadsAt(a.secret, a.version)
  <2>1. PayloadsAt(a.secret, a.from) = {a.payload}
    BY <1>1, StoredPayload DEF IInv, StoreInv, AckStored
  <2>2. PayloadsAt(a.secret, a.version) = {a.payload}
    BY <1>1, StoredPayload DEF IInv, StoreInv, AckStored
  <2>3. QED
    BY <2>1, <2>2
<1>2. IInv => RollbackRestoresTarget
  BY <1>1 DEF RollbackRestoresTarget
<1>3. QED
  BY <1>2, Inductive, PTL

\* No version is left behind without its secret.
THEOREM NoOrphans == Spec => []NoOrphanVersion
<1>1. IInv => NoOrphanVersion
  BY DEF IInv, StoreInv
<1>2. QED
  BY <1>1, Inductive, PTL

\* No request, and no failure of one, changes or removes a version; only HardDelete
\* and the deletion of the team do, for the secrets that they remove.
THEOREM HistoryKept == Spec => HistoryAppendOnly
<1> DEFINE Kept == \A h \in history : h \in history' \/ h.secret \in purged'
<1>1. IInv /\ [Next]_vars => [Kept]_vars
  <2> SUFFICES ASSUME IInv, Next PROVE Kept
    OBVIOUS
  <2>1. ASSUME NEW r \in Requests, Begin(r) PROVE Kept
    BY <2>1 DEF Begin, Create, BeginUpdate, BeginRollback, BeginDelete, HardDelete, VersionsOf
  <2>2. ASSUME NEW r \in Requests, Step(r) PROVE Kept
    <3>1. CASE PurgeRow(r)
      BY <3>1 DEF PurgeRow, VersionsOf, IInv, TypeInv, OpOK
    <3>2. CASE InsertVersion(r)
      BY <3>2 DEF InsertVersion, VersionRejected
    <3>3. QED
      BY <2>2, <3>1, <3>2 DEF Step, SelectVersion, WriteRow, ReadTarget, Reload, Reread, Panic,
         SoftDelete, LogAndReply
  <2>3. CASE TeamDelete
    BY <2>3 DEF TeamDelete, IInv, TypeInv, TypeOK, VersionRow, StoreInv, NoOrphanVersion
  <2>4. QED
    BY <2>1, <2>2, <2>3 DEF Next, StatementFails, Crash, NotFound, vars
<1>2. QED
  BY <1>1, Inductive, PTL DEF Spec, HistoryAppendOnly

\* Along every step of a request and of the environment a secret goes from free to live, to
\* deleted, to gone, and never back: an UPDATE that comes after the deletion leaves
\* deleted_at as it is.
LEMMA StatusStep ==
  ASSUME TypeInv, Next, NEW s \in Secrets
  PROVE  \/ secrets'[s].status = secrets[s].status
         \/ secrets[s].status = "free" /\ secrets'[s].status = "live"
         \/ secrets[s].status = "live" /\ secrets'[s].status = "deleted"
         \/ secrets'[s].status = "gone"
<1> USE DEF TypeInv, TypeOK, SecretRow
<1>1. ASSUME NEW r \in Requests, NEW i \in Secrets, NEW p \in Paths, NEW payload, Create(r, i, p, payload)
      PROVE  secrets'[s].status = secrets[s].status \/ (secrets[s].status = "free" /\ secrets'[s].status = "live")
  BY <1>1 DEF Create
<1>2. ASSUME NEW r \in Requests, WriteRow(r) PROVE secrets'[s].status = secrets[s].status
  BY <1>2 DEF WriteRow, Written
<1>3. ASSUME NEW r \in Requests, SoftDelete(r)
      PROVE  secrets'[s].status = secrets[s].status \/ (secrets[s].status = "live" /\ secrets'[s].status = "deleted")
  BY <1>3 DEF SoftDelete, Exists
<1>4. ASSUME NEW r \in Requests, PurgeRow(r)
      PROVE  secrets'[s].status = secrets[s].status \/ secrets'[s].status = "gone"
  BY <1>4 DEF PurgeRow, EmptyRow
<1>5. CASE TeamDelete
  BY <1>5 DEF TeamDelete, EmptyRow
<1>6. QED
  BY <1>1, <1>2, <1>3, <1>4, <1>5
     DEF Next, Begin, Step, BeginUpdate, BeginRollback, BeginDelete, HardDelete, SelectVersion,
         InsertVersion, ReadTarget, Reload, Reread, Panic, LogAndReply, StatementFails, Crash,
         NotFound, vars

\* No interleaving brings a deleted secret back.
THEOREM DeletedStaysDeleted == Spec => NoResurrection
<1> DEFINE Rises == \A s \in Secrets :
                      StatusRank(secrets[s].status) <= StatusRank(secrets'[s].status)
<1>1. /\ StatusRank("free") = 0 /\ StatusRank("live") = 1
      /\ StatusRank("deleted") = 2 /\ StatusRank("gone") = 3
  BY DEF StatusRank
<1>2. IInv /\ [Next]_vars => [Rises]_vars
  <2> SUFFICES ASSUME IInv, Next, NEW s \in Secrets
               PROVE  StatusRank(secrets[s].status) <= StatusRank(secrets'[s].status)
    OBVIOUS
  <2>1. secrets[s].status \in {"free", "live", "deleted", "gone"}
    BY DEF IInv, TypeInv, TypeOK, SecretRow
  <2>2. QED
    BY <1>1, <2>1, StatusStep DEF IInv
<1>3. QED
  BY <1>2, Inductive, PTL DEF Spec, NoResurrection

-----------------------------------------------------------------------------
(* Counting versions and audit entries *)

VersionsIn(h, s) == {x \in h : x.secret = s}

\* The entries that say of a secret that it has a new version.
LoggedIn(a, s) == a[s]["create"] + a[s]["update"] + a[s]["rollback"]

\* The requests that have stored a version and have still to log it.
AwaitingIn(q, s) ==
  {r \in Requests : /\ q[r].id = s
                    /\ q[r].pc \in {"reread", "audit"}
                    /\ q[r].op # "delete"}

\* Nothing is said of the number of slots: only finitely many are ever in use.
FiniteInv == IsFiniteSet(history) /\ IsFiniteSet(InFlight)

Backed(h, a, q, s) ==
  LoggedIn(a, s) + Cardinality(AwaitingIn(q, s)) <= Cardinality(VersionsIn(h, s))

CountInv == FiniteInv /\ \A s \in Secrets \ purged : Backed(history, audit, req, s)

LEMMA FiniteParts ==
  ASSUME FiniteInv, NEW s
  PROVE  /\ IsFiniteSet(AwaitingIn(req, s)) /\ Cardinality(AwaitingIn(req, s)) \in Nat
         /\ IsFiniteSet(VersionsIn(history, s)) /\ Cardinality(VersionsIn(history, s)) \in Nat
<1>1. AwaitingIn(req, s) \in SUBSET InFlight /\ VersionsIn(history, s) \in SUBSET history
  BY DEF AwaitingIn, InFlight, VersionsIn
<1>2. QED
  BY <1>1, FS_Subset, FS_CardinalityType DEF FiniteInv

LEMMA AtMostOneMore ==
  ASSUME NEW S, IsFiniteSet(S), NEW x, NEW T, T \subseteq S \cup {x}
  PROVE  Cardinality(T) \in Nat /\ Cardinality(T) <= Cardinality(S) + 1
<1>1. Cardinality(S) \in Nat
  BY FS_CardinalityType
<1>2. /\ IsFiniteSet(S \cup {x})
      /\ Cardinality(S \cup {x}) = IF x \in S THEN Cardinality(S) ELSE Cardinality(S) + 1
  BY FS_AddElement
<1>3. IsFiniteSet(T) /\ Cardinality(T) <= Cardinality(S \cup {x})
  BY <1>2, FS_Subset
<1>4. Cardinality(T) \in Nat
  BY <1>3, FS_CardinalityType
<1>5. QED
  BY <1>1, <1>2, <1>3, <1>4

LEMMA OneMoreInFlight ==
  ASSUME IsFiniteSet(InFlight), NEW r \in Requests,
         \A q \in Requests \ {r} : req'[q] = req[q]
  PROVE  IsFiniteSet(InFlight')
<1>1. IsFiniteSet(InFlight \cup {r})
  BY FS_AddElement
<1>2. InFlight' \in SUBSET (InFlight \cup {r})
  BY DEF InFlight
<1>3. QED
  BY <1>1, <1>2, FS_Subset

\* A step of a request leaves the other requests alone.
LEMMA OthersAlone ==
  ASSUME TypeInv, NEW r \in Requests, Begin(r) \/ Step(r) \/ StatementFails(r)
  PROVE  \A q \in Requests \ {r} : req'[q] = req[q]
BY DEF TypeInv, TypeOK, Begin, Step, Create, BeginUpdate, BeginRollback, BeginDelete,
   HardDelete, Start, SelectVersion, WriteRow, InsertVersion, VersionStored, VersionRejected,
   ReadTarget, Reload, Reread, Panic, SoftDelete, PurgeRow, LogAndReply, StatementFails, Goto,
   Finish

\* The history grows by a row at a time, the one that InsertVersion adds.
LEMMA HistoryStep ==
  ASSUME Next
  PROVE  \/ history' \subseteq history
         \/ \E r \in Requests : /\ InsertVersion(r)
                                /\ MayInsertVersion(req[r].id, req[r].version)
<1>1. ASSUME NEW r \in Requests, Begin(r) PROVE history' \subseteq history
  BY <1>1 DEF Begin, Create, BeginUpdate, BeginRollback, BeginDelete, HardDelete
<1>2. ASSUME NEW r \in Requests, Step(r), ~InsertVersion(r) PROVE history' \subseteq history
  BY <1>2 DEF Step, SelectVersion, WriteRow, ReadTarget, Reload, Reread, Panic, SoftDelete,
     PurgeRow, LogAndReply
<1>3. ASSUME NEW r \in Requests, InsertVersion(r),
             ~MayInsertVersion(req[r].id, req[r].version)
      PROVE  history' \subseteq history
  BY <1>3 DEF InsertVersion, VersionRejected
<1>4. QED
  BY <1>1, <1>2, <1>3 DEF Next, StatementFails, NotFound, vars, TeamDelete, Crash

LEMMA NextFinite == TypeInv /\ FiniteInv /\ [Next]_vars => FiniteInv'
<1> SUFFICES ASSUME TypeInv, FiniteInv, Next PROVE FiniteInv'
  BY DEF FiniteInv, InFlight, vars
<1>1. IsFiniteSet(history')
  <2>1. CASE history' \subseteq history
    BY <2>1, FS_Subset DEF FiniteInv
  <2>2. ASSUME NEW r \in Requests, InsertVersion(r),
               MayInsertVersion(req[r].id, req[r].version)
        PROVE  IsFiniteSet(history')
    BY <2>2, FS_AddElement DEF InsertVersion, FiniteInv
  <2>3. QED
    BY <2>1, <2>2, HistoryStep
<1>2. IsFiniteSet(InFlight')
  <2>1. ASSUME NEW r \in Requests, Begin(r) \/ Step(r) \/ StatementFails(r)
        PROVE  IsFiniteSet(InFlight')
    BY <2>1, OthersAlone, OneMoreInFlight DEF FiniteInv
  <2>2. CASE TeamDelete \/ \E s \in Secrets : NotFound(s)
    BY <2>2 DEF TeamDelete, NotFound, vars, FiniteInv, InFlight
  <2>3. CASE Crash
    <3>1. InFlight' = {}
      BY <2>3 DEF Crash, InFlight, Idle
    <3>2. QED
      BY <3>1, FS_EmptySet
  <2>4. QED
    BY <2>1, <2>2, <2>3 DEF Next
<1>3. QED
  BY <1>1, <1>2 DEF FiniteInv

LEMMA LoggedType ==
  ASSUME TypeInv, NEW s \in Secrets
  PROVE  /\ LoggedIn(audit, s) \in Nat
         /\ \A a \in AuditAction : audit[s][a] \in Nat
BY DEF TypeInv, TypeOK, LoggedIn, AuditAction

\* The audit entry of a create, an update or a rollback counts once for its secret; that
\* of a deletion does not, and neither counts for another secret.
LEMMA LogEffect ==
  ASSUME TypeInv, NEW r \in Requests, req[r].pc # "idle", Log(r), NEW s \in Secrets
  PROVE  LoggedIn(audit', s) =
           IF s = req[r].id /\ req[r].op \in {"create", "update", "rollback"}
             THEN LoggedIn(audit, s) + 1
             ELSE LoggedIn(audit, s)
<1> DEFINE act == IF req[r].op = "rollback" THEN "update" ELSE req[r].op
<1>1. audit' = [audit EXCEPT ![req[r].id][act] = @ + 1]
  BY DEF Log
<1>2. audit \in [Secrets -> [AuditAction -> Nat]] /\ req[r].id \in Secrets
  BY DEF TypeInv, TypeOK, IdOK
<1>3. CASE s # req[r].id
  BY <1>1, <1>2, <1>3 DEF LoggedIn
<1>4. CASE s = req[r].id
  <2>1. audit'[s] = [audit[s] EXCEPT ![act] = @ + 1]
    BY <1>1, <1>2, <1>4
  <2>2. audit[s] \in [AuditAction -> Nat]
    BY <1>2
  <2>3. \A a \in AuditAction : audit'[s][a] = IF a = act THEN audit[s][a] + 1 ELSE audit[s][a]
    BY <2>1, <2>2
  <2>4. CASE req[r].op \in {"create", "update", "rollback"}
    <3>1. act \in {"create", "update", "rollback"}
      BY <2>4
    <3> HIDE DEF act
    <3>2. QED
      BY <1>4, <2>2, <2>3, <2>4, <3>1 DEF LoggedIn, AuditAction
  <2>5. CASE req[r].op \notin {"create", "update", "rollback"}
    <3>1. act \notin {"create", "update", "rollback"}
      BY <2>5
    <3> HIDE DEF act
    <3>2. QED
      BY <1>4, <2>2, <2>3, <2>5, <3>1 DEF LoggedIn, AuditAction
  <2>6. QED
    BY <2>4, <2>5
<1>5. QED
  BY <1>3, <1>4

\* A step that takes no version of a secret away, logs nothing of it and lets no further
\* request await its entry.
LEMMA QuietCount ==
  ASSUME FiniteInv, NEW h, NEW a, NEW q, NEW s \in Secrets,
         Backed(history, audit, req, s), LoggedIn(a, s) = LoggedIn(audit, s),
         LoggedIn(audit, s) \in Nat,
         VersionsIn(h, s) = VersionsIn(history, s),
         AwaitingIn(q, s) \subseteq AwaitingIn(req, s)
  PROVE  Backed(h, a, q, s)
<1>1. /\ Cardinality(AwaitingIn(q, s)) \in Nat
      /\ Cardinality(AwaitingIn(q, s)) <= Cardinality(AwaitingIn(req, s))
  BY FiniteParts, FS_Subset, FS_CardinalityType
<1>2. QED
  BY <1>1, FiniteParts DEF Backed

LEMMA InsertCount ==
  ASSUME TypeInv, CountInv, NEW r \in Requests, InsertVersion(r),
         MayInsertVersion(req[r].id, req[r].version), NEW s \in Secrets \ purged
  PROVE  Backed(history', audit', req', s)
<1>1. /\ history' = history \cup {VersionRowOf(r)}
      /\ req' = [req EXCEPT ![r].pc = IF req[r].op = "rollback" THEN "reread" ELSE "audit"]
      /\ audit' = audit
  BY DEF InsertVersion, VersionStored, Goto
<1>2. req \in [Requests -> Request]
  BY DEF TypeInv, TypeOK
<1>3. Backed(history, audit, req, s)
  BY DEF CountInv
<1>4. LoggedIn(audit, s) \in Nat
  BY LoggedType
<1>5. CASE s = req[r].id
  <2>1. VersionsIn(history', s) = VersionsIn(history, s) \cup {VersionRowOf(r)}
    BY <1>1, <1>5 DEF VersionsIn, VersionRowOf
  <2>2. VersionRowOf(r) \notin VersionsIn(history, s)
    BY <1>5 DEF MayInsertVersion, HasVersion, VersionRowOf, VersionsIn
  <2>3. AwaitingIn(req', s) \subseteq AwaitingIn(req, s) \cup {r}
    BY <1>1, <1>2 DEF AwaitingIn, Request
  <2>4. Cardinality(VersionsIn(history', s)) = Cardinality(VersionsIn(history, s)) + 1
    BY <2>1, <2>2, FiniteParts, FS_AddElement DEF CountInv
  <2>5. /\ Cardinality(AwaitingIn(req', s)) \in Nat
        /\ Cardinality(AwaitingIn(req', s)) <= Cardinality(AwaitingIn(req, s)) + 1
    BY <2>3, FiniteParts, AtMostOneMore DEF CountInv
  <2>6. QED
    BY <1>1, <1>3, <1>4, <2>4, <2>5, FiniteParts DEF Backed, CountInv
<1>6. CASE s # req[r].id
  <2>1. VersionsIn(history', s) = VersionsIn(history, s)
    BY <1>1, <1>6 DEF VersionsIn, VersionRowOf
  <2>2. AwaitingIn(req', s) \subseteq AwaitingIn(req, s)
    BY <1>1, <1>2, <1>6 DEF AwaitingIn, Request
  <2>3. QED
    BY <1>1, <1>3, <1>4, <2>1, <2>2, QuietCount DEF CountInv
<1>7. QED
  BY <1>5, <1>6

LEMMA ReplyCount ==
  ASSUME TypeInv, CountInv, NEW r \in Requests, LogAndReply(r), NEW s \in Secrets \ purged
  PROVE  Backed(history', audit', req', s)
<1>1. history' = history /\ req' = [req EXCEPT ![r] = Idle] /\ req[r].pc = "audit"
  BY DEF LogAndReply, Finish
<1>2. req \in [Requests -> Request]
  BY DEF TypeInv, TypeOK
<1>3. Backed(history, audit, req, s)
  BY DEF CountInv
<1>4. LoggedIn(audit, s) \in Nat
  BY LoggedType
<1>5. AwaitingIn(req', s) = AwaitingIn(req, s) \ {r}
  BY <1>1, <1>2 DEF AwaitingIn, Idle
<1>6. CASE s = req[r].id /\ req[r].op \in {"create", "update", "rollback"}
  <2>1. LoggedIn(audit', s) = LoggedIn(audit, s) + 1
    BY <1>1, <1>6, LogEffect DEF LogAndReply
  <2>2. r \in AwaitingIn(req, s)
    BY <1>1, <1>6 DEF AwaitingIn
  <2>3. Cardinality(AwaitingIn(req', s)) = Cardinality(AwaitingIn(req, s)) - 1
    BY <1>5, <2>2, FiniteParts, FS_RemoveElement DEF CountInv
  <2>4. QED
    BY <1>1, <1>3, <1>4, <2>1, <2>3, FiniteParts DEF Backed, CountInv
<1>7. CASE ~(s = req[r].id /\ req[r].op \in {"create", "update", "rollback"})
  <2>1. LoggedIn(audit', s) = LoggedIn(audit, s)
    BY <1>1, <1>7, LogEffect DEF LogAndReply
  <2>2. QED
    BY <1>1, <1>3, <1>4, <1>5, <2>1, QuietCount DEF CountInv
<1>8. QED
  BY <1>6, <1>7

\* All other steps: of a secret that is not purged, nothing is inserted or logged.
LEMMA OtherCount ==
  ASSUME IInv, Next, NEW s \in Secrets, s \notin purged',
         \A r \in Requests :
           /\ ~LogAndReply(r)
           /\ ~(InsertVersion(r) /\ MayInsertVersion(req[r].id, req[r].version))
  PROVE  /\ s \notin purged
         /\ VersionsIn(history', s) = VersionsIn(history, s)
         /\ audit' = audit
         /\ AwaitingIn(req', s) \subseteq AwaitingIn(req, s)
<1> USE DEF VersionsIn, AwaitingIn
<1>1. req \in [Requests -> Request]
  BY DEF IInv, TypeInv, TypeOK
<1>2. ASSUME NEW r \in Requests, Begin(r)
      PROVE  /\ s \notin purged
             /\ VersionsIn(history', s) = VersionsIn(history, s)
             /\ audit' = audit
             /\ AwaitingIn(req', s) \subseteq AwaitingIn(req, s)
  BY <1>1, <1>2 DEF Begin, Create, BeginUpdate, BeginRollback, BeginDelete, HardDelete,
     VersionsOf, Start
<1>3. ASSUME NEW r \in Requests, Step(r) \/ StatementFails(r)
      PROVE  /\ s \notin purged
             /\ VersionsIn(history', s) = VersionsIn(history, s)
             /\ audit' = audit
  BY <1>3 DEF Step, SelectVersion, WriteRow, InsertVersion, VersionRejected, ReadTarget, Reload,
     Reread, Panic, SoftDelete, PurgeRow, StatementFails, VersionsOf, IInv, TypeInv, OpOK
<1>4. ASSUME NEW r \in Requests, Step(r) \/ StatementFails(r)
      PROVE  AwaitingIn(req', s) \subseteq AwaitingIn(req, s)
  <2>1. CASE Finish(r)
    BY <1>1, <2>1 DEF Finish, Idle
  <2>2. CASE SoftDelete(r)
    BY <1>1, <2>2 DEF SoftDelete, Goto, Request, IInv, TypeInv, OpOK
  <2>3. CASE WriteRow(r) \/ Reload(r) \/ SelectVersion(r) \/ ReadTarget(r)
    BY <1>1, <2>1, <2>3 DEF WriteRow, Reload, SelectVersion, ReadTarget, Goto, Request
  <2>4. CASE Reread(r) \/ (StatementFails(r) /\ req[r].pc = "reread")
    BY <1>1, <2>4 DEF Reread, StatementFails, Goto, Request
  <2>5. QED
    BY <1>4, <2>1, <2>2, <2>3, <2>4
       DEF Step, InsertVersion, VersionRejected, Panic, PurgeRow, StatementFails
<1>5. CASE TeamDelete
  BY <1>5 DEF TeamDelete, IInv, StoreInv, NoOrphanVersion
<1>6. CASE Crash
  BY <1>6 DEF Crash, Idle
<1>7. QED
  BY <1>2, <1>3, <1>4, <1>5, <1>6 DEF Next, NotFound, vars

LEMMA NextCountInv == IInv /\ CountInv /\ [Next]_vars => CountInv'
<1> SUFFICES ASSUME IInv, CountInv, [Next]_vars PROVE CountInv'
  OBVIOUS
<1>1. FiniteInv'
  BY NextFinite DEF IInv, CountInv
<1>2. ASSUME NEW s \in Secrets, s \notin purged', Next
      PROVE  Backed(history', audit', req', s)
  <2>1. ASSUME NEW r \in Requests, LogAndReply(r) PROVE Backed(history', audit', req', s)
    BY <1>2, <2>1, ReplyCount DEF LogAndReply, IInv
  <2>2. ASSUME NEW r \in Requests, InsertVersion(r),
               MayInsertVersion(req[r].id, req[r].version)
        PROVE  Backed(history', audit', req', s)
    BY <1>2, <2>2, InsertCount DEF InsertVersion, IInv
  <2>3. CASE \A r \in Requests :
               /\ ~LogAndReply(r)
               /\ ~(InsertVersion(r) /\ MayInsertVersion(req[r].id, req[r].version))
    <3>1. /\ s \notin purged
          /\ VersionsIn(history', s) = VersionsIn(history, s)
          /\ audit' = audit
          /\ AwaitingIn(req', s) \subseteq AwaitingIn(req, s)
      BY <1>2, <2>3, OtherCount
    <3>2. LoggedIn(audit, s) \in Nat
      BY LoggedType DEF IInv
    <3>3. Backed(history, audit, req, s)
      BY <3>1 DEF CountInv
    <3>4. QED
      BY <3>1, <3>2, <3>3, QuietCount DEF CountInv
  <2>4. QED
    BY <2>1, <2>2, <2>3
<1>3. CASE UNCHANGED vars
  BY <1>1, <1>3 DEF CountInv, vars, Backed, LoggedIn, AwaitingIn, VersionsIn
<1>4. QED
  BY <1>1, <1>2, <1>3 DEF CountInv

LEMMA InitCountInv == Init => CountInv
<1> SUFFICES ASSUME Init PROVE CountInv
  OBVIOUS
<1>1. history = {} /\ InFlight = {}
  BY DEF Init, InFlight, Idle
<1>2. ASSUME NEW s \in Secrets PROVE Backed(history, audit, req, s)
  <2>1. VersionsIn(history, s) = {} /\ AwaitingIn(req, s) = {}
    BY DEF Init, VersionsIn, AwaitingIn, Idle
  <2>2. LoggedIn(audit, s) = 0
    BY DEF Init, LoggedIn, AuditAction
  <2>3. QED
    BY <2>1, <2>2, FS_EmptySet DEF Backed
<1>3. QED
  BY <1>1, <1>2, FS_EmptySet DEF CountInv, FiniteInv

LEMMA BothInductive == Spec => [](IInv /\ CountInv)
<1>1. Init => CountInv
  BY InitCountInv
<1>2. IInv /\ CountInv /\ [Next]_vars => CountInv'
  BY NextCountInv
<1>3. QED
  BY <1>1, <1>2, Inductive, PTL DEF Spec

\* However requests and faults interleave, the entries of a secret for creations, updates
\* and rollbacks, taken together with those a request has still to write, are never more
\* than the versions in its history.
THEOREM AuditNeverAhead == Spec => []AuditBackedByHistory
<1>1. CountInv => AuditBackedByHistory
  <2> SUFFICES ASSUME CountInv, NEW s \in Secrets \ purged
               PROVE  audit[s]["create"] + audit[s]["update"] + audit[s]["rollback"]
                        + Cardinality({r \in InFlight : /\ req[r].id = s
                                                        /\ req[r].pc \in {"reread", "audit"}
                                                        /\ req[r].op # "delete"})
                        <= Cardinality(VersionsOf(s))
    BY DEF AuditBackedByHistory
  <2>1. AwaitingIn(req, s) = {r \in InFlight : /\ req[r].id = s
                                               /\ req[r].pc \in {"reread", "audit"}
                                               /\ req[r].op # "delete"}
    BY DEF AwaitingIn, InFlight
  <2>2. QED
    BY <2>1 DEF CountInv, Backed, LoggedIn, VersionsIn, VersionsOf
<1>2. QED
  BY <1>1, BothInductive, PTL

-----------------------------------------------------------------------------
(* No two requests at work on one secret at the same time *)

\* The hypotheses of the theorems below.  Nothing fails, but the team may be deleted at
\* any moment; and requests that overlap are at work on different secrets.
NoFailure == Faults \subseteq {"team"}

Apart == \A q, r \in Requests : req[q].id = req[r].id /\ req[q].id \in Secrets => q = r

\* A server with one slot has requests that come one after the other.
LEMMA OneSlotIsApart == ASSUME \A q, r \in Requests : q = r PROVE Apart
BY DEF Apart

\* A row that is not there carries nothing, and a row is purged exactly when it is
\* gone or about to go.
RowsInv ==
  \A s \in Secrets :
    /\ secrets[s].status \in {"free", "gone"} => secrets[s] = EmptyRow(secrets[s].status)
    /\ secrets[s].status = "free" => s \notin purged
    /\ secrets[s].status = "gone" => s \in purged
    /\ Exists(s) /\ s \in purged => \E r \in Requests : req[r].pc = "purge" /\ req[r].id = s

\* The secret that a request has seen is still there, or went with the team.
SeenInv ==
  \A r \in Requests :
    req[r].pc \in {"target", "reload", "select", "write", "version", "reread", "softdelete"}
      => secrets[req[r].id].status \in {"live", "gone"}

\* Which operations take a request to which statement.
StageInv ==
  \A r \in Requests :
    /\ req[r].pc \in {"target", "reload", "reread"} => req[r].op = "rollback"
    /\ req[r].pc \in {"select", "write"} => req[r].op \in {"update", "rollback"}
    /\ req[r].pc = "version" => req[r].op \in {"create", "update", "rollback"}
    /\ req[r].pc = "audit" => req[r].op \in {"create", "update", "rollback", "delete"}

LEMMA FaultFreeStep ==
  ASSUME NoFailure, Next
  PROVE  \/ \E r \in Requests : Begin(r) \/ Step(r)
         \/ \E s \in Secrets : NotFound(s)
         \/ TeamDelete
BY DEF NoFailure, Next, StatementFails, Crash

LEMMA NextRowsInv ==
  ASSUME NoFailure, IInv, RowsInv, [Next]_vars
  PROVE  RowsInv'
<1> USE DEF RowsInv, Exists
<1>t. /\ secrets \in [Secrets -> SecretRow]
      /\ req \in [Requests -> Request]
      /\ IdOK /\ OpOK /\ TypeInv
  BY DEF IInv, TypeInv, TypeOK
<1>p. ASSUME NEW r \in Requests, Begin(r) \/ Step(r), req[r].pc # "purge",
             NEW s \in Secrets, Exists(s), s \in purged
      PROVE  \E q \in Requests : req'[q].pc = "purge" /\ req'[q].id = s
  <2>1. PICK q \in Requests : req[q].pc = "purge" /\ req[q].id = s
    BY <1>p
  <2>2. req'[q] = req[q]
    BY <1>t, <1>p, <2>1, OthersAlone
  <2>3. QED
    BY <2>1, <2>2
<1>1. ASSUME NEW r \in Requests, Begin(r) PROVE RowsInv'
  <2>1. req[r].pc = "idle"
    BY <1>1 DEF Begin, Create, BeginUpdate, BeginRollback, BeginDelete, HardDelete, Start
  <2>2. \A s \in Secrets : Exists(s) /\ s \in purged =>
          \E q \in Requests : req'[q].pc = "purge" /\ req'[q].id = s
    BY <1>1, <1>p, <2>1
  <2>3. ASSUME NEW s \in Secrets, NEW p, NEW payload, Create(r, s, p, payload)
        PROVE  RowsInv'
    BY <1>t, <2>2, <2>3 DEF Create
  <2>4. ASSUME NEW s \in Secrets, HardDelete(r, s)
        PROVE  RowsInv'
    <3>1. req'[r].pc = "purge" /\ req'[r].id = s
      BY <1>t, <2>4 DEF HardDelete, Start
    <3>2. secrets' = secrets /\ purged' = purged \cup {s} /\ Exists(s)
      BY <2>4 DEF HardDelete
    <3>3. QED
      BY <2>2, <3>1, <3>2
  <2>5. QED
    BY <1>1, <2>2, <2>3, <2>4 DEF Begin, BeginUpdate, BeginRollback, BeginDelete
<1>2. ASSUME NEW r \in Requests, Step(r) PROVE RowsInv'
  <2>1. CASE PurgeRow(r)
    <3>1. /\ secrets' = [secrets EXCEPT ![req[r].id] = EmptyRow("gone")]
          /\ purged' = purged /\ req[r].id \in purged
      BY <1>t, <2>1 DEF PurgeRow, OpOK
    <3>2. ASSUME NEW s \in Secrets, s # req[r].id, Exists(s), s \in purged
          PROVE  \E q \in Requests : req'[q].pc = "purge" /\ req'[q].id = s
      <4>1. PICK q \in Requests : req[q].pc = "purge" /\ req[q].id = s
        BY <3>2
      <4>2. req'[q] = req[q]
        BY <1>t, <1>2, <3>2, <4>1, OthersAlone
      <4>3. QED
        BY <4>1, <4>2
    <3>3. QED
      BY <1>t, <3>1, <3>2 DEF EmptyRow
  <2>2. CASE ~PurgeRow(r)
    <3>1. \A s \in Secrets : Exists(s) /\ s \in purged =>
            \E q \in Requests : req'[q].pc = "purge" /\ req'[q].id = s
      <4>1. req[r].pc # "purge"
        BY <1>2, <2>2 DEF Step, SelectVersion, WriteRow, InsertVersion, ReadTarget, Reload,
           Reread, Panic, SoftDelete, LogAndReply
      <4>2. QED
        BY <1>2, <1>p, <4>1
    <3>2. CASE WriteRow(r)
      BY <1>t, <3>1, <3>2 DEF WriteRow, Written, SecretRow, IdOK
    <3>3. CASE SoftDelete(r)
      BY <1>t, <3>1, <3>3 DEF SoftDelete, SecretRow, IdOK
    <3>4. QED
      BY <1>2, <2>2, <3>1, <3>2, <3>3
         DEF Step, SelectVersion, InsertVersion, ReadTarget, Reload, Reread, Panic, LogAndReply
  <2>3. QED
    BY <2>1, <2>2
<1>3. CASE TeamDelete
  BY <1>t, <1>3 DEF TeamDelete, EmptyRow
<1>4. CASE UNCHANGED vars
  BY <1>4 DEF vars
<1>5. QED
  BY <1>1, <1>2, <1>3, <1>4, FaultFreeStep DEF NotFound

LEMMA NextStageInv ==
  ASSUME TypeInv, StageInv, [Next]_vars
  PROVE  StageInv'
<1> USE DEF StageInv
<1>t. req \in [Requests -> Request] /\ OpOK
  BY DEF TypeInv, TypeOK
<1>1. ASSUME NEW r \in Requests, Begin(r) PROVE StageInv'
  BY <1>t, <1>1 DEF Begin, Create, BeginUpdate, BeginRollback, BeginDelete, HardDelete, Start
<1>2. ASSUME NEW r \in Requests, Finish(r) PROVE StageInv'
  BY <1>t, <1>2 DEF Finish, Idle
<1>3. ASSUME NEW r \in Requests, InsertVersion(r) PROVE StageInv'
  BY <1>t, <1>2, <1>3 DEF InsertVersion, VersionStored, VersionRejected, Goto, Request
<1>4. ASSUME NEW r \in Requests, ReadTarget(r) \/ SelectVersion(r) PROVE StageInv'
  BY <1>t, <1>2, <1>4 DEF ReadTarget, SelectVersion, Request
<1>5. ASSUME NEW r \in Requests, WriteRow(r) \/ Reload(r) \/ Reread(r) \/ SoftDelete(r)
      PROVE  StageInv'
  BY <1>t, <1>2, <1>5 DEF WriteRow, Reload, Reread, SoftDelete, Goto, Request, OpOK
<1>6. ASSUME NEW r \in Requests, Panic(r) \/ PurgeRow(r) \/ LogAndReply(r)
      PROVE  StageInv'
  BY <1>2, <1>6 DEF Panic, PurgeRow, LogAndReply
<1>7. ASSUME NEW r \in Requests, StatementFails(r) PROVE StageInv'
  BY <1>t, <1>2, <1>7 DEF StatementFails, Goto, Request
<1>8. CASE TeamDelete \/ Crash
  BY <1>8 DEF TeamDelete, Crash, Idle
<1>9. CASE UNCHANGED vars
  BY <1>9 DEF vars
<1>10. QED
  BY <1>1, <1>3, <1>4, <1>5, <1>6, <1>7, <1>8, <1>9 DEF Next, Step, NotFound

\* What a request does to the row of a secret that it is not at work on: nothing.
LEMMA OtherRows ==
  ASSUME IInv, NEW r \in Requests, Begin(r) \/ Step(r), NEW s \in Secrets,
         s # req[r].id, s # req'[r].id
  PROVE  secrets'[s] = secrets[s]
<1>t. /\ secrets \in [Secrets -> SecretRow]
      /\ req \in [Requests -> Request]
  BY DEF IInv, TypeInv, TypeOK
<1>1. ASSUME NEW i \in Secrets, NEW p, NEW payload, Create(r, i, p, payload)
      PROVE  secrets'[s] = secrets[s]
  BY <1>t, <1>1 DEF Create, Start
<1>2. CASE Begin(r)
  BY <1>1, <1>2 DEF Begin, BeginUpdate, BeginRollback, BeginDelete, HardDelete
<1>3. CASE Step(r)
  BY <1>t, <1>3 DEF Step, SelectVersion, WriteRow, InsertVersion, ReadTarget, Reload, Reread,
     Panic, SoftDelete, PurgeRow, LogAndReply
<1>4. QED
  BY <1>2, <1>3

\* Another request that is at work on a secret carries on as it was, and finds the row of
\* its secret as it was.
LEMMA OtherRequests ==
  ASSUME Apart, Apart', IInv, NEW r \in Requests, Begin(r) \/ Step(r),
         NEW q \in Requests \ {r}
  PROVE  /\ req'[q] = req[q]
         /\ req[q].id \in Secrets => secrets'[req[q].id] = secrets[req[q].id]
<1>1. req'[q] = req[q]
  BY OthersAlone DEF IInv
<1>2. ASSUME req[q].id \in Secrets
      PROVE  req[q].id # req[r].id /\ req[q].id # req'[r].id
  BY <1>1, <1>2 DEF Apart
<1>3. QED
  BY <1>1, <1>2, OtherRows

LEMMA NextSeenInv ==
  ASSUME NoFailure, Apart, Apart', IInv, StageInv, SeenInv, [Next]_vars
  PROVE  SeenInv'
<1> USE DEF SeenInv
<1>t. /\ secrets \in [Secrets -> SecretRow]
      /\ req \in [Requests -> Request]
      /\ IdOK /\ OpOK
  BY DEF IInv, TypeInv, TypeOK
<1>o. ASSUME NEW r \in Requests, Begin(r) \/ Step(r), NEW q \in Requests \ {r},
             req'[q].pc \in {"target", "reload", "select", "write", "version", "reread",
                             "softdelete"}
      PROVE  secrets'[req'[q].id].status \in {"live", "gone"}
  <2>1. req'[q] = req[q] /\ (req[q].id \in Secrets => secrets'[req[q].id] = secrets[req[q].id])
    BY <1>o, OtherRequests
  <2>2. req[q].id \in Secrets
    BY <1>t, <1>o, <2>1 DEF IdOK
  <2>3. QED
    BY <1>o, <2>1, <2>2
<1>1. ASSUME NEW r \in Requests, Begin(r) PROVE SeenInv'
  <2>1. \A q \in Requests \ {r} :
          req'[q].pc \in {"target", "reload", "select", "write", "version", "reread",
                          "softdelete"}
            => secrets'[req'[q].id].status \in {"live", "gone"}
    BY <1>1, <1>o
  <2>2. ASSUME NEW s \in Secrets, NEW p, NEW payload, Create(r, s, p, payload)
        PROVE  SeenInv'
    BY <1>t, <2>1, <2>2 DEF Create, Start
  <2>3. ASSUME NEW s \in Secrets, NEW patch, NEW t,
               BeginUpdate(r, s, patch) \/ BeginRollback(r, s, t) \/ BeginDelete(r, s)
        PROVE  SeenInv'
    <3>1. req'[r].id = s /\ secrets' = secrets /\ secrets[s].status = "live"
      BY <1>t, <2>3 DEF BeginUpdate, BeginRollback, BeginDelete, Start, Visible
    <3>2. QED
      BY <2>1, <3>1
  <2>4. ASSUME NEW s \in Secrets, HardDelete(r, s) PROVE SeenInv'
    BY <1>t, <2>1, <2>4 DEF HardDelete, Start
  <2>5. QED
    BY <1>1, <2>2, <2>3, <2>4 DEF Begin
<1>2. ASSUME NEW r \in Requests, Step(r) PROVE SeenInv'
  <2>1. \A q \in Requests \ {r} :
          req'[q].pc \in {"target", "reload", "select", "write", "version", "reread",
                          "softdelete"}
            => secrets'[req'[q].id].status \in {"live", "gone"}
    BY <1>2, <1>o
  <2>2. ASSUME Finish(r) PROVE SeenInv'
    BY <1>t, <2>1, <2>2 DEF Finish, Idle
  <2>3. CASE WriteRow(r)
    BY <1>t, <2>1, <2>3 DEF WriteRow, Written, Goto, Request, SecretRow, IdOK
  <2>4. CASE SelectVersion(r) \/ ReadTarget(r)
    BY <1>t, <2>1, <2>2, <2>4 DEF SelectVersion, ReadTarget, Request
  <2>5. CASE InsertVersion(r)
    BY <1>t, <2>1, <2>2, <2>5 DEF InsertVersion, VersionStored, VersionRejected, Goto, Request
  <2>6. CASE Reload(r) \/ Reread(r) \/ SoftDelete(r)
    BY <1>t, <2>1, <2>2, <2>6 DEF Reload, Reread, SoftDelete, Goto, Request
  <2>7. QED
    BY <1>2, <2>2, <2>3, <2>4, <2>5, <2>6 DEF Step, Panic, PurgeRow, LogAndReply
<1>3. CASE TeamDelete
  BY <1>t, <1>3 DEF TeamDelete, EmptyRow, Exists, IdOK
<1>4. CASE UNCHANGED vars
  BY <1>4 DEF vars
<1>5. QED
  BY <1>1, <1>2, <1>3, <1>4, FaultFreeStep DEF NotFound

\* A request has written the row of a secret and has still to insert the version.
Unstored(q, s) == \E r \in Requests : q[r].pc = "version" /\ q[r].id = s

\* The versions in history h of a secret with this row: all up to the current one, which
\* may be the only one missing, and only while a request is about to insert it.
UpToDate(h, row, q, s) ==
  /\ row.version \in Nat \ {0}
  /\ \A v \in Nat : (\E x \in h : x.secret = s /\ x.version = v)
                      <=> v \in 1..row.version /\ ~(v = row.version /\ Unstored(q, s))
  /\ Unstored(q, s) \/ Row(s, row.version, row.payload) \in h

HistoryInv ==
  \A s \in Secrets \ purged : Exists(s) => UpToDate(history, secrets[s], req, s)

\* What a request carries from one statement to the next is still what the row holds.
CarriesInv ==
  \A r \in Requests :
    req[r].id \in Secrets \ purged =>
      /\ req[r].pc = "version" => /\ req[r].version = secrets[req[r].id].version
                                  /\ req[r].payload = secrets[req[r].id].payload
      /\ req[r].pc = "write" => req[r].version = secrets[req[r].id].version + 1
      /\ req[r].pc \in {"select", "write"} /\ req[r].op = "update" =>
           \E patch \in Payload : req[r].payload = Merge(secrets[req[r].id].payload, patch)

ApartInv == RowsInv /\ SeenInv /\ StageInv /\ HistoryInv /\ CarriesInv

LEMMA NextCarriesInv ==
  ASSUME NoFailure, Apart, Apart', IInv, ApartInv, [Next]_vars
  PROVE  CarriesInv'
<1> DEFINE Carries(q, row) ==
             /\ q.pc = "version" => q.version = row.version /\ q.payload = row.payload
             /\ q.pc = "write" => q.version = row.version + 1
             /\ q.pc \in {"select", "write"} /\ q.op = "update" =>
                  \E patch \in Payload : q.payload = Merge(row.payload, patch)
<1>c. \A r \in Requests : req[r].id \in Secrets \ purged => Carries(req[r], secrets[req[r].id])
  BY DEF ApartInv, CarriesInv
<1>g. ASSUME \A r \in Requests :
               req'[r].id \in Secrets \ purged' => Carries(req'[r], secrets'[req'[r].id])
      PROVE  CarriesInv'
  BY <1>g DEF CarriesInv
<1>t. /\ secrets \in [Secrets -> SecretRow]
      /\ req \in [Requests -> Request]
      /\ IdOK /\ OpOK
  BY DEF IInv, TypeInv, TypeOK
\* Only the request that makes the step has to be looked at.
<1>o. ASSUME NEW r \in Requests, Begin(r) \/ Step(r),
             req'[r].id \in Secrets \ purged' => Carries(req'[r], secrets'[req'[r].id])
      PROVE  CarriesInv'
  <2>1. purged \subseteq purged'
    BY <1>o DEF Begin, Step, Create, BeginUpdate, BeginRollback, BeginDelete, HardDelete,
       SelectVersion, WriteRow, InsertVersion, ReadTarget, Reload, Reread, Panic, SoftDelete,
       PurgeRow, LogAndReply
  <2>2. ASSUME NEW q \in Requests \ {r}, req'[q].id \in Secrets \ purged'
        PROVE  Carries(req'[q], secrets'[req'[q].id])
    <3>1. req'[q] = req[q] /\ (req[q].id \in Secrets => secrets'[req[q].id] = secrets[req[q].id])
      BY <1>o, OtherRequests
    <3>2. req[q].id \in Secrets \ purged
      BY <2>1, <2>2, <3>1
    <3>3. Carries(req[q], secrets[req[q].id])
      BY <1>c, <3>2
    <3>4. QED
      BY <3>1, <3>2, <3>3
  <2>3. QED
    BY <1>o, <1>g, <2>2
<1>1. ASSUME NEW r \in Requests, Begin(r) PROVE CarriesInv'
  <2>1. ASSUME NEW s \in Secrets, NEW p, NEW payload, Create(r, s, p, payload)
        PROVE  CarriesInv'
    <3>1. /\ req'[r].pc = "version" /\ req'[r].id = s
          /\ req'[r].version = secrets'[s].version /\ req'[r].payload = secrets'[s].payload
      BY <1>t, <2>1 DEF Create, Start
    <3>2. QED
      BY <1>1, <1>o, <3>1
  <2>2. ASSUME NEW s \in Secrets, NEW patch \in Payload, BeginUpdate(r, s, patch)
        PROVE  CarriesInv'
    <3>1. /\ req'[r].id = s /\ req'[r].pc = "select" /\ secrets' = secrets
          /\ req'[r].payload = Merge(secrets[s].payload, patch)
      BY <1>t, <2>2 DEF BeginUpdate, Start
    <3>2. QED
      BY <1>1, <1>o, <3>1
  <2>3. ASSUME NEW s \in Secrets, NEW t,
               BeginRollback(r, s, t) \/ BeginDelete(r, s) \/ HardDelete(r, s)
        PROVE  CarriesInv'
    <3>1. req'[r].pc \in {"target", "softdelete", "purge"}
      BY <1>t, <2>3 DEF BeginRollback, BeginDelete, HardDelete, Start
    <3>2. QED
      BY <1>1, <1>o, <3>1
  <2>4. QED
    BY <1>1, <2>1, <2>2, <2>3 DEF Begin
<1>2. ASSUME NEW r \in Requests, Step(r) PROVE CarriesInv'
  <2>1. ASSUME req'[r].pc \notin {"version", "select", "write"} PROVE CarriesInv'
    BY <1>2, <1>o, <2>1
  <2>2. ASSUME Finish(r) PROVE CarriesInv'
    BY <1>t, <2>1, <2>2 DEF Finish, Idle
  <2>3. CASE SelectVersion(r)
    <3>1. CASE Finish(r)
      BY <2>2, <3>1
    <3>2. CASE ~Finish(r)
      <4>1. /\ req' = [req EXCEPT ![r].pc = "write",
                                  ![r].version = secrets[req[r].id].version + 1]
            /\ secrets' = secrets /\ purged' = purged /\ req[r].pc = "select"
        BY <2>3, <3>2 DEF SelectVersion
      <4>2. /\ req'[r].pc = "write" /\ req'[r].version = secrets[req[r].id].version + 1
            /\ req'[r].id = req[r].id /\ req'[r].op = req[r].op
            /\ req'[r].payload = req[r].payload
        BY <1>t, <4>1 DEF Request
      <4>3. req[r].id \in Secrets \ purged /\ req[r].op = "update" =>
              \E patch \in Payload : req[r].payload = Merge(secrets[req[r].id].payload, patch)
        BY <1>c, <4>1
      <4>4. QED
        BY <1>2, <1>o, <4>1, <4>2, <4>3
    <3>3. QED
      BY <3>1, <3>2
  <2>4. CASE WriteRow(r)
    <3>1. /\ req'[r].pc = "version" /\ req'[r].id = req[r].id
          /\ req'[r].version = req[r].version /\ req'[r].payload = req[r].payload
          /\ req[r].id \in Secrets /\ purged' = purged
      BY <1>t, <2>4 DEF WriteRow, Goto, Request, IdOK
    <3>2. CASE Exists(req[r].id)
      <4>1. /\ secrets'[req[r].id].version = req[r].version
            /\ secrets'[req[r].id].payload = req[r].payload
        BY <1>t, <2>4, <3>1, <3>2 DEF WriteRow, Written, SecretRow
      <4>2. QED
        BY <1>2, <1>o, <3>1, <4>1
    <3>3. CASE ~Exists(req[r].id)
      <4>1. req[r].id \in purged
        BY <2>4, <3>1, <3>3 DEF WriteRow, ApartInv, RowsInv, SeenInv, Exists
      <4>2. QED
        BY <1>2, <1>o, <3>1, <4>1
    <3>4. QED
      BY <3>2, <3>3
  <2>5. CASE InsertVersion(r)
    BY <1>t, <2>1, <2>2, <2>5 DEF InsertVersion, VersionStored, VersionRejected, Goto, Request
  <2>6. CASE ReadTarget(r) \/ Reread(r) \/ SoftDelete(r)
    BY <1>t, <2>1, <2>2, <2>6 DEF ReadTarget, Reread, SoftDelete, Goto, Request
  <2>7. CASE Reload(r)
    <3>1. CASE Finish(r)
      BY <2>2, <3>1
    <3>2. CASE ~Finish(r)
      <4>1. req'[r].pc = "select" /\ req'[r].op = "rollback"
        BY <1>t, <2>7, <3>2 DEF Reload, Goto, Request, ApartInv, StageInv
      <4>2. QED
        BY <1>2, <1>o, <4>1
    <3>3. QED
      BY <3>1, <3>2
  <2>8. QED
    BY <1>2, <2>2, <2>3, <2>4, <2>5, <2>6, <2>7 DEF Step, Panic, PurgeRow, LogAndReply
<1>3. CASE TeamDelete
  <2>1. ASSUME NEW r \in Requests, req[r].id \in Secrets \ purged'
        PROVE  req[r].pc \notin {"version", "select", "write"}
    BY <1>t, <1>3, <2>1 DEF TeamDelete, ApartInv, RowsInv, SeenInv, Exists, SecretRow
  <2>2. req' = req
    BY <1>3 DEF TeamDelete
  <2>3. QED
    BY <1>g, <2>1, <2>2
<1>4. CASE UNCHANGED vars
  BY <1>4 DEF vars, ApartInv, CarriesInv
<1>5. QED
  BY <1>1, <1>2, <1>3, <1>4, FaultFreeStep DEF NotFound, ApartInv, vars

\* A step that changes neither the versions of a secret nor its row's content leaves the
\* secret up to date.
LEMMA QuietHistory ==
  ASSUME NEW s, NEW h, NEW g, NEW row, NEW new, NEW q, NEW p,
         UpToDate(h, row, q, s),
         VersionsIn(g, s) = VersionsIn(h, s),
         new.version = row.version, new.payload = row.payload,
         Unstored(p, s) <=> Unstored(q, s)
  PROVE  UpToDate(g, new, p, s)
<1>1. \A v \in Nat : (\E x \in g : x.secret = s /\ x.version = v)
                       <=> (\E x \in h : x.secret = s /\ x.version = v)
  BY DEF VersionsIn
<1>2. \A v : Row(s, v, row.payload) \in h => Row(s, v, row.payload) \in g
  <2>1. \A v : Row(s, v, row.payload) \in h => Row(s, v, row.payload) \in VersionsIn(h, s)
    BY DEF VersionsIn, Row
  <2>2. QED
    BY <2>1 DEF VersionsIn
<1>3. QED
  BY <1>1, <1>2 DEF UpToDate

LEMMA CreateHistory ==
  ASSUME IInv, NEW r \in Requests, NEW s \in Secrets, NEW p, NEW payload,
         Create(r, s, p, payload)
  PROVE  UpToDate(history', secrets'[s], req', s)
<1>1. /\ secrets'[s].version = 1
      /\ req'[r].pc = "version" /\ req'[r].id = s
      /\ history' = history
  BY DEF Create, Start, IInv, TypeInv, TypeOK
<1>2. \A x \in history : x.secret # s
  BY DEF Create, IInv, StoreInv, NoOrphanVersion, Exists
<1>3. Unstored(req', s)
  BY <1>1 DEF Unstored
<1>4. QED
  BY <1>1, <1>2, <1>3 DEF UpToDate

LEMMA WriteHistory ==
  ASSUME Apart, IInv, ApartInv, NEW r \in Requests, WriteRow(r), NEW s \in Secrets \ purged,
         s = req[r].id, Exists(s)
  PROVE  UpToDate(history', secrets'[s], req', s)
<1>1. /\ secrets \in [Secrets -> SecretRow]
      /\ req \in [Requests -> Request]
      /\ req[r].pc = "write" /\ history' = history
  BY DEF IInv, TypeInv, TypeOK, WriteRow
<1>2. /\ secrets'[s].version = req[r].version
      /\ req'[r].pc = "version" /\ req'[r].id = s
  BY <1>1 DEF WriteRow, Written, SecretRow, Goto, Request
<1>3. req[r].version = secrets[s].version + 1
  BY <1>1 DEF ApartInv, CarriesInv
<1>4. Unstored(req', s) /\ ~Unstored(req, s)
  BY <1>1, <1>2 DEF Unstored, Apart
<1>5. UpToDate(history, secrets[s], req, s)
  BY DEF ApartInv, HistoryInv
<1>6. \A v \in Nat : (\E x \in history : x.secret = s /\ x.version = v)
                       <=> v \in 1..secrets[s].version
  BY <1>4, <1>5 DEF UpToDate
<1>7. secrets[s].version \in Nat \ {0}
  BY <1>5 DEF UpToDate
<1>8. QED
  BY <1>1, <1>2, <1>3, <1>4, <1>6, <1>7 DEF UpToDate

\* A row that is there is not about to go while a request is at work on it that does not
\* purge it.
LEMMA NotPurged ==
  ASSUME Apart, ApartInv, NEW r \in Requests, req[r].pc # "purge", NEW s \in Secrets,
         s = req[r].id, Exists(s)
  PROVE  s \notin purged
BY DEF Apart, ApartInv, RowsInv

\* The INSERT fails only when the row is gone.
LEMMA InsertSucceeds ==
  ASSUME Apart, IInv, ApartInv, NEW r \in Requests, req[r].pc = "version",
         Exists(req[r].id)
  PROVE  /\ req[r].id \in Secrets \ purged
         /\ MayInsertVersion(req[r].id, req[r].version)
         /\ req[r].version = secrets[req[r].id].version
         /\ req[r].payload = secrets[req[r].id].payload
<1>1. req[r].id \in Secrets \ purged
  <2>1. PICK s \in Secrets : s = req[r].id
    BY DEF IInv, TypeInv, IdOK
  <2>2. QED
    BY <2>1, NotPurged
<1>2. /\ req[r].version = secrets[req[r].id].version
      /\ req[r].payload = secrets[req[r].id].payload
  BY <1>1 DEF ApartInv, CarriesInv
<1>3. UpToDate(history, secrets[req[r].id], req, req[r].id)
  BY <1>1 DEF ApartInv, HistoryInv
<1>4. Unstored(req, req[r].id)
  BY DEF Unstored
<1>5. ~HasVersion(req[r].id, req[r].version)
  BY <1>2, <1>3, <1>4 DEF UpToDate, HasVersion
<1>6. QED
  BY <1>1, <1>2, <1>5 DEF MayInsertVersion

LEMMA InsertHistory ==
  ASSUME Apart, IInv, ApartInv, NEW r \in Requests, InsertVersion(r),
         NEW s \in Secrets \ purged, s = req[r].id, Exists(s)
  PROVE  UpToDate(history', secrets'[s], req', s)
<1>1. /\ MayInsertVersion(s, req[r].version)
      /\ req[r].version = secrets[s].version /\ req[r].payload = secrets[s].payload
      /\ req[r].pc = "version"
  BY InsertSucceeds DEF InsertVersion
<1>2. /\ history' = history \cup {Row(s, secrets[s].version, secrets[s].payload)}
      /\ VersionStored(r) /\ secrets' = secrets
  BY <1>1 DEF InsertVersion, VersionRowOf, Row
<1>3. ~Unstored(req', s) /\ Unstored(req, s)
  BY <1>1, <1>2 DEF Unstored, Apart, VersionStored, Goto, IInv, TypeInv, TypeOK, Request
<1>4. UpToDate(history, secrets[s], req, s)
  BY DEF ApartInv, HistoryInv
<1>5. \A v \in Nat : (\E x \in history' : x.secret = s /\ x.version = v)
                       <=> (\E x \in history : x.secret = s /\ x.version = v)
                             \/ v = secrets[s].version
  <2> DEFINE new == Row(s, secrets[s].version, secrets[s].payload)
  <2>1. new.secret = s /\ new.version = secrets[s].version
    BY DEF Row
  <2>2. history' = history \cup {new}
    BY <1>2
  <2> HIDE DEF new
  <2>3. QED
    BY <2>1, <2>2
<1>6. /\ secrets[s].version \in Nat \ {0}
      /\ \A v \in Nat : (\E x \in history : x.secret = s /\ x.version = v)
                         <=> v \in 1..secrets[s].version /\ v # secrets[s].version
  BY <1>3, <1>4 DEF UpToDate
<1>7. \A v \in Nat : (\E x \in history' : x.secret = s /\ x.version = v)
                       <=> v \in 1..secrets[s].version
  BY <1>5, <1>6
<1>8. QED
  BY <1>2, <1>3, <1>6, <1>7 DEF UpToDate

\* The steps of a request that make no difference to whether a version of s is due.
LEMMA UnstoredElsewhere ==
  ASSUME IInv, NEW r \in Requests, Begin(r) \/ Step(r),
         NEW s, req[r].id # s \/ req[r].pc # "version",
         req'[r].id # s \/ req'[r].pc # "version"
  PROVE  Unstored(req', s) <=> Unstored(req, s)
BY OthersAlone DEF Unstored, IInv

LEMMA NextHistoryInv ==
  ASSUME NoFailure, Apart, IInv, ApartInv, [Next]_vars
  PROVE  HistoryInv'
<1> USE DEF HistoryInv
<1>t. /\ secrets \in [Secrets -> SecretRow]
      /\ req \in [Requests -> Request]
      /\ IdOK /\ OpOK
  BY DEF IInv, TypeInv, TypeOK
<1>u. \A s \in Secrets \ purged : Exists(s) => UpToDate(history, secrets[s], req, s)
  BY DEF ApartInv
<1>1. ASSUME NEW r \in Requests, Begin(r) PROVE HistoryInv'
  <2>1. ASSUME NEW i \in Secrets, NEW p, NEW payload, Create(r, i, p, payload)
        PROVE  HistoryInv'
    <3> SUFFICES ASSUME NEW s \in Secrets \ purged', Exists(s)'
                 PROVE  UpToDate(history', secrets'[s], req', s)
      OBVIOUS
    <3>1. CASE s = i
      BY <2>1, <3>1, CreateHistory
    <3>2. CASE s # i
      <4>1. /\ secrets'[s] = secrets[s] /\ history' = history /\ purged' = purged
            /\ req[r].pc = "idle" /\ req'[r].id # s
        BY <1>t, <2>1, <3>2 DEF Create, Start
      <4>2. Unstored(req', s) <=> Unstored(req, s)
        BY <1>1, <4>1, UnstoredElsewhere
      <4>3. UpToDate(history, secrets[s], req, s)
        BY <1>u, <4>1 DEF Exists
      <4>4. QED
        BY <4>1, <4>2, <4>3, QuietHistory
    <3>3. QED
      BY <3>1, <3>2
  <2>2. ASSUME NEW i \in Secrets, NEW patch, NEW t,
               \/ BeginUpdate(r, i, patch) \/ BeginRollback(r, i, t) \/ BeginDelete(r, i)
               \/ HardDelete(r, i)
        PROVE  HistoryInv'
    <3> SUFFICES ASSUME NEW s \in Secrets \ purged', Exists(s)'
                 PROVE  UpToDate(history', secrets'[s], req', s)
      OBVIOUS
    <3>1. /\ secrets' = secrets /\ s \notin purged
          /\ VersionsIn(history', s) = VersionsIn(history, s)
          /\ req[r].pc = "idle" /\ req'[r].pc # "version"
      BY <1>t, <2>2 DEF BeginUpdate, BeginRollback, BeginDelete, HardDelete, Start, VersionsIn,
         VersionsOf
    <3>2. Unstored(req', s) <=> Unstored(req, s)
      BY <1>1, <3>1, UnstoredElsewhere
    <3>3. UpToDate(history, secrets[s], req, s)
      BY <1>u, <3>1 DEF Exists
    <3>4. QED
      BY <3>1, <3>2, <3>3, QuietHistory
  <2>3. QED
    BY <1>1, <2>1, <2>2 DEF Begin
<1>2. ASSUME NEW r \in Requests, Step(r) PROVE HistoryInv'
  <2> SUFFICES ASSUME NEW s \in Secrets \ purged', Exists(s)'
               PROVE  UpToDate(history', secrets'[s], req', s)
    OBVIOUS
  <2>p. purged' = purged
    BY <1>2 DEF Step, SelectVersion, WriteRow, InsertVersion, ReadTarget, Reload, Reread, Panic,
       SoftDelete, PurgeRow, LogAndReply
  <2>1. CASE WriteRow(r)
    <3>1. Exists(s)
      BY <1>t, <2>1 DEF WriteRow, Written, Exists, SecretRow, IdOK
    <3>2. CASE s = req[r].id
      BY <2>p, <2>1, <3>1, <3>2, WriteHistory
    <3>3. CASE s # req[r].id
      <4>1. secrets'[s] = secrets[s] /\ history' = history /\ req'[r].id # s
        BY <1>t, <2>1, <3>3 DEF WriteRow, Goto, Request, IdOK
      <4>2. Unstored(req', s) <=> Unstored(req, s)
        BY <1>2, <3>3, <4>1, UnstoredElsewhere
      <4>3. QED
        BY <1>u, <2>p, <3>1, <4>1, <4>2, QuietHistory
    <3>4. QED
      BY <3>2, <3>3
  <2>2. CASE InsertVersion(r)
    <3>1. Exists(s) /\ secrets' = secrets
      BY <2>2 DEF InsertVersion, Exists
    <3>2. CASE s = req[r].id
      BY <2>p, <2>2, <3>1, <3>2, InsertHistory
    <3>3. CASE s # req[r].id
      <4>1. VersionsIn(history', s) = VersionsIn(history, s)
        BY <2>2, <3>3 DEF InsertVersion, VersionRowOf, VersionRejected, VersionsIn
      <4>2. req'[r].pc # "version"
        BY <1>t, <2>2 DEF InsertVersion, VersionStored, VersionRejected, Goto, Finish, Idle,
           Request
      <4>3. Unstored(req', s) <=> Unstored(req, s)
        BY <1>2, <3>3, <4>2, UnstoredElsewhere
      <4>4. QED
        BY <1>u, <2>p, <3>1, <4>1, <4>3, QuietHistory
    <3>4. QED
      BY <3>2, <3>3
  <2>3. CASE ~WriteRow(r) /\ ~InsertVersion(r)
    <3>1. req[r].pc # "version" /\ req'[r].pc # "version"
      BY <1>t, <1>2, <2>3 DEF Step, SelectVersion, ReadTarget, Reload, Reread, Panic, SoftDelete,
         PurgeRow, LogAndReply, Goto, Finish, Idle, Request
    <3>2. /\ VersionsIn(history', s) = VersionsIn(history, s)
          /\ secrets'[s].version = secrets[s].version
          /\ secrets'[s].payload = secrets[s].payload
          /\ Exists(s)
      <4>1. CASE PurgeRow(r)
        BY <1>t, <4>1 DEF PurgeRow, VersionsIn, VersionsOf, Exists, EmptyRow, IdOK
      <4>2. CASE SoftDelete(r)
        BY <1>t, <4>2 DEF SoftDelete, Exists, SecretRow, IdOK
      <4>3. QED
        BY <1>2, <2>3, <4>1, <4>2
           DEF Step, SelectVersion, ReadTarget, Reload, Reread, Panic, LogAndReply, Exists
    <3>3. Unstored(req', s) <=> Unstored(req, s)
      BY <1>2, <3>1, UnstoredElsewhere
    <3>4. QED
      BY <1>u, <2>p, <3>2, <3>3, QuietHistory
  <2>4. QED
    BY <2>1, <2>2, <2>3
<1>3. CASE TeamDelete
  BY <1>t, <1>3 DEF TeamDelete, Exists, EmptyRow
<1>4. CASE UNCHANGED vars
  BY <1>u, <1>4 DEF vars, Exists
<1>5. QED
  BY <1>1, <1>2, <1>3, <1>4, FaultFreeStep DEF NotFound

LEMMA InitApartInv == Init => ApartInv
<1> SUFFICES ASSUME Init PROVE ApartInv
  OBVIOUS
<1>1. RowsInv
  BY DEF Init, RowsInv, EmptyRow, Exists
<1>2. SeenInv /\ StageInv /\ CarriesInv
  BY NoneAssumption DEF Init, SeenInv, StageInv, CarriesInv, Idle
<1>3. HistoryInv
  BY DEF Init, HistoryInv, Exists, EmptyRow
<1>4. QED
  BY <1>1, <1>2, <1>3 DEF ApartInv

LEMMA ApartInductive ==
  ASSUME NoFailure PROVE Spec /\ []Apart => [](IInv /\ ApartInv)
<1>1. Init => ApartInv
  BY InitApartInv
<1>2. IInv /\ Apart /\ Apart' /\ ApartInv /\ [Next]_vars => ApartInv'
  BY NextRowsInv, NextSeenInv, NextStageInv, NextHistoryInv, NextCarriesInv DEF ApartInv, IInv
<1>3. QED
  BY <1>1, <1>2, Inductive, PTL DEF Spec

\* When no two requests are at work on one secret at the same time, the versions of a
\* secret at rest are 1 to its current one, none missing, whatever requests on other
\* secrets are under way and also when the team is deleted under them.
THEOREM HistoryIsComplete == ASSUME NoFailure PROVE Spec /\ []Apart => []HistoryComplete
<1>1. ASSUME IInv, ApartInv, NEW s \in Secrets \ purged, Exists(s), Quiet(s)
      PROVE  {h.version : h \in VersionsOf(s)} = 1..secrets[s].version
  <2>1. UpToDate(history, secrets[s], req, s)
    BY <1>1 DEF ApartInv, HistoryInv
  <2>2. ~Unstored(req, s)
    BY <1>1 DEF Quiet, Unstored
  <2>3. \A v \in Nat : (\E x \in history : x.secret = s /\ x.version = v)
                         <=> v \in 1..secrets[s].version
    BY <2>1, <2>2 DEF UpToDate
  <2>4. \A x \in history : x.version \in Nat
    BY <1>1 DEF IInv, TypeInv, TypeOK, VersionRow
  <2>5. 1..secrets[s].version \subseteq Nat
    OBVIOUS
  <2>6. QED
    BY <2>3, <2>4, <2>5 DEF VersionsOf
<1>2. IInv /\ ApartInv => HistoryComplete
  BY <1>1 DEF HistoryComplete
<1>3. QED
  BY <1>2, ApartInductive, PTL

\* Under the same hypotheses the current content of a secret at rest is in its history,
\* under its current version.
THEOREM CurrentIsInHistory == ASSUME NoFailure PROVE Spec /\ []Apart => []CurrentInHistory
<1>1. ASSUME IInv, ApartInv, NEW s \in Secrets \ purged, Exists(s), Quiet(s)
      PROVE  PayloadsAt(s, secrets[s].version) = {secrets[s].payload}
  <2>1. UpToDate(history, secrets[s], req, s)
    BY <1>1 DEF ApartInv, HistoryInv
  <2>2. Row(s, secrets[s].version, secrets[s].payload) \in history
    BY <1>1, <2>1 DEF Quiet, Unstored, UpToDate
  <2>3. QED
    BY <1>1, <2>2, StoredPayload DEF IInv, StoreInv
<1>2. IInv /\ ApartInv => CurrentInHistory
  BY <1>1 DEF CurrentInHistory
<1>3. QED
  BY <1>2, ApartInductive, PTL

-----------------------------------------------------------------------------
(* The audit log, under the same hypotheses *)

\* As many entries as versions, counting those that are about to be logged.
Covered(h, a, q, s) ==
  Cardinality(VersionsIn(h, s)) <= LoggedIn(a, s) + Cardinality(AwaitingIn(q, s))

CoveredInv == \A s \in Secrets : Covered(history, audit, req, s)

\* A step that logs nothing of a secret and adds no version of it, and leaves it without
\* any if a request gives up logging one.
LEMMA QuietCover ==
  ASSUME FiniteInv, NEW h, NEW a, NEW q, NEW s \in Secrets,
         Covered(history, audit, req, s), LoggedIn(a, s) = LoggedIn(audit, s),
         LoggedIn(audit, s) \in Nat, IsFiniteSet(AwaitingIn(q, s)),
         VersionsIn(h, s) \subseteq VersionsIn(history, s),
         VersionsIn(h, s) = {} \/ AwaitingIn(req, s) \subseteq AwaitingIn(q, s)
  PROVE  Covered(h, a, q, s)
<1>1. /\ Cardinality(VersionsIn(h, s)) \in Nat
      /\ Cardinality(VersionsIn(h, s)) <= Cardinality(VersionsIn(history, s))
  BY FiniteParts, FS_Subset, FS_CardinalityType
<1>2. Cardinality(AwaitingIn(q, s)) \in Nat
  BY FS_CardinalityType
<1>3. CASE VersionsIn(h, s) = {}
  BY <1>2, <1>3, FS_EmptySet DEF Covered
<1>4. CASE AwaitingIn(req, s) \subseteq AwaitingIn(q, s)
  <2>1. Cardinality(AwaitingIn(req, s)) <= Cardinality(AwaitingIn(q, s))
    BY <1>4, FS_Subset
  <2>2. QED
    BY <1>1, <1>2, <2>1, FiniteParts DEF Covered
<1>5. QED
  BY <1>3, <1>4

LEMMA InsertCover ==
  ASSUME TypeInv, StageInv, FiniteInv, CoveredInv, NEW r \in Requests, InsertVersion(r),
         MayInsertVersion(req[r].id, req[r].version), NEW s \in Secrets, s = req[r].id
  PROVE  Covered(history', audit', req', s)
<1>1. /\ history' = history \cup {VersionRowOf(r)} /\ audit' = audit
      /\ req' = [req EXCEPT ![r].pc = IF req[r].op = "rollback" THEN "reread" ELSE "audit"]
      /\ req[r].pc = "version"
  BY DEF InsertVersion, VersionStored, Goto
<1>2. req \in [Requests -> Request] /\ req[r].op # "delete"
  BY <1>1 DEF TypeInv, TypeOK, StageInv
<1>3. VersionsIn(history', s) \subseteq VersionsIn(history, s) \cup {VersionRowOf(r)}
  BY <1>1 DEF VersionsIn
<1>4. /\ Cardinality(VersionsIn(history', s)) \in Nat
      /\ Cardinality(VersionsIn(history', s)) <= Cardinality(VersionsIn(history, s)) + 1
  BY <1>3, FiniteParts, AtMostOneMore
<1>5. AwaitingIn(req', s) = AwaitingIn(req, s) \cup {r} /\ r \notin AwaitingIn(req, s)
  BY <1>1, <1>2 DEF AwaitingIn, Request
<1>6. Cardinality(AwaitingIn(req', s)) = Cardinality(AwaitingIn(req, s)) + 1
  BY <1>5, FiniteParts, FS_AddElement
<1>7. LoggedIn(audit, s) \in Nat /\ Covered(history, audit, req, s)
  BY LoggedType DEF CoveredInv
<1>8. QED
  BY <1>1, <1>4, <1>6, <1>7, FiniteParts DEF Covered

LEMMA ReplyCover ==
  ASSUME TypeInv, StageInv, FiniteInv, CoveredInv, NEW r \in Requests, LogAndReply(r),
         NEW s \in Secrets
  PROVE  Covered(history', audit', req', s)
<1>1. history' = history /\ req' = [req EXCEPT ![r] = Idle] /\ req[r].pc = "audit"
  BY DEF LogAndReply, Finish
<1>2. req \in [Requests -> Request]
  BY DEF TypeInv, TypeOK
<1>3. AwaitingIn(req', s) = AwaitingIn(req, s) \ {r}
  BY <1>1, <1>2 DEF AwaitingIn, Idle
<1>4. LoggedIn(audit, s) \in Nat /\ Covered(history, audit, req, s)
  BY LoggedType DEF CoveredInv
<1>5. CASE r \in AwaitingIn(req, s)
  <2>1. s = req[r].id /\ req[r].op \in {"create", "update", "rollback"}
    BY <1>1, <1>5 DEF AwaitingIn, StageInv
  <2>2. LoggedIn(audit', s) = LoggedIn(audit, s) + 1
    BY <1>1, <2>1, LogEffect DEF LogAndReply
  <2>3. Cardinality(AwaitingIn(req', s)) = Cardinality(AwaitingIn(req, s)) - 1
    BY <1>3, <1>5, FiniteParts, FS_RemoveElement
  <2>4. QED
    BY <1>1, <1>4, <2>2, <2>3, FiniteParts DEF Covered
<1>6. CASE r \notin AwaitingIn(req, s)
  <2>1. AwaitingIn(req', s) = AwaitingIn(req, s)
    BY <1>3, <1>6
  <2>2. LoggedIn(audit', s) \in Nat /\ LoggedIn(audit', s) >= LoggedIn(audit, s)
    <3>1. \/ LoggedIn(audit', s) = LoggedIn(audit, s) + 1
          \/ LoggedIn(audit', s) = LoggedIn(audit, s)
      BY <1>1, LogEffect DEF LogAndReply
    <3>2. QED
      BY <1>4, <3>1
  <2>3. QED
    BY <1>1, <1>4, <2>1, <2>2, FiniteParts DEF Covered
<1>7. QED
  BY <1>5, <1>6

\* All other steps.  A request gives up logging a version only when the secret is gone,
\* and with it the version: the rollback that finds no secret panics.
LEMMA OtherCover ==
  ASSUME NoFailure, IInv, ApartInv, Next, NEW s \in Secrets,
         \A r \in Requests :
           /\ ~LogAndReply(r)
           /\ ~(/\ InsertVersion(r)
                /\ MayInsertVersion(req[r].id, req[r].version)
                /\ req[r].id = s)
  PROVE  /\ VersionsIn(history', s) \subseteq VersionsIn(history, s)
         /\ audit' = audit
         /\ \/ VersionsIn(history', s) = {}
            \/ AwaitingIn(req, s) \subseteq AwaitingIn(req', s)
<1> USE DEF VersionsIn, AwaitingIn
<1>t. req \in [Requests -> Request]
  BY DEF IInv, TypeInv, TypeOK
<1>1. ASSUME NEW r \in Requests, Begin(r)
      PROVE  /\ history' \subseteq history /\ audit' = audit
             /\ AwaitingIn(req, s) \subseteq AwaitingIn(req', s)
  BY <1>t, <1>1 DEF Begin, Create, BeginUpdate, BeginRollback, BeginDelete, HardDelete, Start
<1>2. ASSUME NEW r \in Requests, Step(r)
      PROVE  VersionsIn(history', s) \subseteq VersionsIn(history, s) /\ audit' = audit
  <2>1. CASE InsertVersion(r)
    BY <2>1 DEF InsertVersion, VersionRejected, VersionRowOf
  <2>2. QED
    BY <1>2, <2>1 DEF Step, SelectVersion, WriteRow, ReadTarget, Reload, Reread, Panic,
       SoftDelete, PurgeRow
<1>3. ASSUME NEW r \in Requests, Step(r), ~Reread(r)
      PROVE  AwaitingIn(req, s) \subseteq AwaitingIn(req', s)
  <2>1. req[r].pc \notin {"reread", "audit"}
    BY <1>3 DEF Step, SelectVersion, WriteRow, InsertVersion, ReadTarget, Reload, Panic,
       SoftDelete, PurgeRow, LogAndReply
  <2>2. \A q \in Requests \ {r} : req'[q] = req[q]
    BY <1>3, OthersAlone DEF IInv
  <2>3. QED
    BY <2>1, <2>2
<1>4. ASSUME NEW r \in Requests, Reread(r), Visible(req[r].id)
      PROVE  AwaitingIn(req, s) \subseteq AwaitingIn(req', s)
  BY <1>t, <1>4 DEF Reread, Goto, Request
<1>5. ASSUME NEW r \in Requests, Reread(r), ~Visible(req[r].id)
      PROVE  \/ VersionsIn(history', s) = {}
             \/ AwaitingIn(req, s) \subseteq AwaitingIn(req', s)
  <2>1. CASE s = req[r].id
    <3>1. ~Exists(s) /\ history' = history
      BY <1>5, <2>1 DEF Reread, Visible, Exists, ApartInv, SeenInv
    <3>2. QED
      BY <3>1 DEF IInv, StoreInv, NoOrphanVersion
  <2>2. CASE s # req[r].id
    BY <1>t, <1>5, <2>2 DEF Reread, Goto, Request
  <2>3. QED
    BY <2>1, <2>2
<1>6. CASE TeamDelete
  BY <1>6 DEF TeamDelete
<1>7. QED
  BY <1>1, <1>2, <1>3, <1>4, <1>5, <1>6, FaultFreeStep DEF NotFound, vars

LEMMA NextCoveredInv ==
  ASSUME NoFailure, IInv, ApartInv, CountInv, CountInv', CoveredInv, [Next]_vars
  PROVE  CoveredInv'
<1> SUFFICES ASSUME NEW s \in Secrets PROVE Covered(history', audit', req', s)
  BY DEF CoveredInv
<1>1. ASSUME NEW r \in Requests, LogAndReply(r) PROVE Covered(history', audit', req', s)
  BY <1>1, ReplyCover DEF IInv, ApartInv, CountInv
<1>2. ASSUME NEW r \in Requests, InsertVersion(r),
             MayInsertVersion(req[r].id, req[r].version), req[r].id = s
      PROVE  Covered(history', audit', req', s)
  BY <1>2, InsertCover DEF IInv, ApartInv, CountInv
<1>3. ASSUME Next,
             \A r \in Requests :
               /\ ~LogAndReply(r)
               /\ ~(/\ InsertVersion(r)
                    /\ MayInsertVersion(req[r].id, req[r].version)
                    /\ req[r].id = s)
      PROVE  Covered(history', audit', req', s)
  <2>1. /\ VersionsIn(history', s) \subseteq VersionsIn(history, s)
        /\ audit' = audit
        /\ \/ VersionsIn(history', s) = {}
           \/ AwaitingIn(req, s) \subseteq AwaitingIn(req', s)
    BY <1>3, OtherCover
  <2>2. IsFiniteSet(AwaitingIn(req', s))
    <3>1. IsFiniteSet(InFlight')
      BY DEF CountInv, FiniteInv
    <3>2. AwaitingIn(req', s) \in SUBSET InFlight'
      BY DEF AwaitingIn, InFlight
    <3>3. QED
      BY <3>1, <3>2, FS_Subset
  <2>3. LoggedIn(audit, s) \in Nat
    BY LoggedType DEF IInv
  <2>4. QED
    BY <2>1, <2>2, <2>3, QuietCover DEF CoveredInv, CountInv
<1>4. CASE UNCHANGED vars
  BY <1>4 DEF vars, CoveredInv
<1>5. QED
  BY <1>1, <1>2, <1>3, <1>4

\* When no two requests are at work on one secret at the same time and no statement
\* fails, every stored version has its entry in the audit log once its request is over.
THEOREM AuditIsComplete == ASSUME NoFailure PROVE Spec /\ []Apart => []AuditComplete
<1>1. Init => CoveredInv
  <2> SUFFICES ASSUME Init, NEW s \in Secrets PROVE Covered(history, audit, req, s)
    BY DEF CoveredInv
  <2>1. VersionsIn(history, s) = {} /\ AwaitingIn(req, s) = {} /\ LoggedIn(audit, s) = 0
    BY DEF Init, VersionsIn, AwaitingIn, Idle, LoggedIn, AuditAction
  <2>2. QED
    BY <2>1, FS_EmptySet DEF Covered
<1>2. IInv /\ ApartInv /\ CountInv /\ CountInv' /\ CoveredInv /\ [Next]_vars => CoveredInv'
  BY NextCoveredInv
<1>3. IInv /\ CoveredInv => AuditComplete
  <2> SUFFICES ASSUME IInv, CoveredInv, NEW s \in Secrets, Quiet(s)
               PROVE  Cardinality(VersionsOf(s)) <= LoggedIn(audit, s)
    BY DEF AuditComplete, LoggedIn
  <2>1. AwaitingIn(req, s) = {}
    BY DEF Quiet, AwaitingIn
  <2>2. Covered(history, audit, req, s) /\ LoggedIn(audit, s) \in Nat
    BY LoggedType DEF CoveredInv, IInv
  <2>3. QED
    BY <2>1, <2>2, FS_EmptySet DEF Covered, VersionsIn, VersionsOf
<1>4. QED
  BY <1>1, <1>2, <1>3, ApartInductive, BothInductive, PTL DEF Spec

-----------------------------------------------------------------------------
(* SecretStore implements VersionedStore, under the same hypotheses        *)

\* The contents of a secret whose versions in the history are V: LogOf.
LogIn(V, row) ==
  [v \in 1..row.version |->
     IF \E x \in V : x.version = v
       THEN CHOOSE p \in Payload : p \in {x.payload : x \in {y \in V : y.version = v}}
       ELSE row.payload]

\* The mapped variables of VersionedStore.
MappedState(rows, gone) == [s \in Secrets |-> IF s \in gone THEN "gone" ELSE rows[s].status]

MappedLog(h, rows, gone) ==
  [s \in Secrets |-> IF s \in gone THEN <<>> ELSE LogIn(VersionsIn(h, s), rows[s])]

LEMMA MappedLogOf ==
  /\ [s \in Secrets |-> IF s \in purged THEN <<>> ELSE LogOf(s)]
       = MappedLog(history, secrets, purged)
  /\ [s \in Secrets |-> IF s \in purged THEN <<>> ELSE LogOf(s)]'
       = MappedLog(history', secrets', purged')
<1>1. ASSUME NEW s \in Secrets PROVE LogOf(s) = LogIn(VersionsIn(history, s), secrets[s])
  BY DEF LogOf, LogIn, HasVersion, PayloadsAt, VersionsOf, VersionsIn
<1>2. ASSUME NEW s \in Secrets
      PROVE  [v \in 1..secrets'[s].version |->
                IF \E h \in history' : h.secret = s /\ h.version = v
                  THEN CHOOSE p \in Payload :
                         p \in {h.payload : h \in {g \in {x \in history' : x.secret = s} : g.version = v}}
                  ELSE secrets'[s].payload]
               = LogIn(VersionsIn(history', s), secrets'[s])
  BY DEF LogIn, VersionsIn
<1>3. QED
  BY <1>1, <1>2 DEF LogOf, HasVersion, PayloadsAt, VersionsOf, MappedLog

LEMMA InitMapped == Init => Abstract!Init
<1> SUFFICES ASSUME Init PROVE Abstract!Init
  OBVIOUS
<1>1. MappedLog(history, secrets, purged) = [s \in Secrets |-> <<>>]
  BY DEF Init, MappedLog, LogIn, EmptyRow
<1>2. MappedState(secrets, purged) = [s \in Secrets |-> "free"]
  BY DEF Init, MappedState, EmptyRow
<1>3. QED
  BY <1>1, <1>2, MappedLogOf DEF Abstract!Init, MappedState

LEMMA LogType ==
  ASSUME IInv, NEW s \in Secrets
  PROVE  /\ LogIn(VersionsIn(history, s), secrets[s]) \in Seq(Payload)
         /\ Len(LogIn(VersionsIn(history, s), secrets[s])) = secrets[s].version
         /\ secrets[s].version \in Nat
<1> DEFINE V == VersionsIn(history, s)
<1>1. secrets[s].version \in Nat /\ secrets[s].payload \in Payload
  BY DEF IInv, TypeInv, TypeOK, SecretRow
<1>2. \A x \in V : x.payload \in Payload
  BY DEF VersionsIn, IInv, TypeInv, TypeOK, VersionRow
<1>3. ASSUME NEW v \in 1..secrets[s].version, NEW x \in V, x.version = v
      PROVE  (CHOOSE p \in Payload : p \in {z.payload : z \in {y \in V : y.version = v}})
               \in Payload
  BY <1>2, <1>3
<1>4. LogIn(V, secrets[s]) \in [1..secrets[s].version -> Payload]
  BY <1>1, <1>3 DEF LogIn
<1>5. QED
  BY <1>1, <1>4

\* What the history holds under a version is what the log holds there.
LEMMA LogAt ==
  ASSUME IInv, NEW s \in Secrets, NEW row, NEW v \in 1..row.version, NEW p \in Payload,
         Row(s, v, p) \in history
  PROVE  LogIn(VersionsIn(history, s), row)[v] = p
<1> DEFINE V == VersionsIn(history, s)
<1>1. Row(s, v, p) \in V /\ Row(s, v, p).version = v /\ Row(s, v, p).payload = p
  BY DEF VersionsIn, Row
<1>2. \A x \in V : x.version = v => x.payload = p
  BY <1>1 DEF VersionsIn, IInv, StoreInv, UniqueVersions
<1>3. {x.payload : x \in {y \in V : y.version = v}} = {p}
  BY <1>1, <1>2
<1>4. (CHOOSE q \in Payload : q \in {x.payload : x \in {y \in V : y.version = v}}) = p
  BY <1>3
<1>5. QED
  BY <1>1, <1>4 DEF LogIn

\* A row that gets a new version which is not in the history yet, when all earlier ones
\* are: the log has one more content.
LEMMA LogGrows ==
  ASSUME IInv, NEW s \in Secrets, NEW new, NEW p \in Payload,
         new.version = secrets[s].version + 1, new.payload = p,
         \A v \in 1..secrets[s].version : HasVersion(s, v),
         ~HasVersion(s, new.version)
  PROVE  LogIn(VersionsIn(history, s), new)
           = Append(LogIn(VersionsIn(history, s), secrets[s]), p)
<1> DEFINE V == VersionsIn(history, s)
           n == secrets[s].version
           old == LogIn(V, secrets[s])
           longer == LogIn(V, new)
<1>1. old \in Seq(Payload) /\ Len(old) = n /\ n \in Nat
  BY LogType
<1>2. \A v : HasVersion(s, v) <=> \E x \in V : x.version = v
  BY DEF HasVersion, VersionsIn
<1>3. \A v \in 1..n : longer[v] = old[v]
  BY <1>1, <1>2 DEF LogIn
<1>4. longer[n + 1] = p /\ DOMAIN longer = 1..(n + 1)
  BY <1>1, <1>2 DEF LogIn
<1>5. \A v \in 1..(n + 1) : longer[v] \in Payload
  <2>1. \A v \in 1..n : old[v] \in Payload
    BY <1>1, ElementOfSeq
  <2>2. QED
    BY <1>1, <1>3, <1>4, <2>1
<1>6. longer \in Seq(Payload) /\ Len(longer) = n + 1
  <2>1. longer \in [1..(n + 1) -> Payload]
    <3>1. longer = [v \in 1..(n + 1) |-> longer[v]]
      BY <1>1 DEF LogIn
    <3> HIDE DEF longer
    <3>2. QED
      BY <1>5, <3>1
  <2> HIDE DEF longer
  <2>2. QED
    BY <1>1, <2>1
<1> HIDE DEF old, longer, n
<1>7. /\ Append(old, p) \in Seq(Payload) /\ Len(Append(old, p)) = n + 1
      /\ \A v \in 1..n : Append(old, p)[v] = old[v]
      /\ Append(old, p)[n + 1] = p
  BY <1>1, AppendProperties
<1>8. \A v \in 1..(n + 1) : longer[v] = Append(old, p)[v]
  BY <1>1, <1>3, <1>4, <1>7
<1>9. longer = Append(old, p)
  BY <1>6, <1>7, <1>8, SeqEqual
<1>10. QED
  BY <1>9 DEF old, longer

\* Where a secret's versions in the history and its row's content stay, so does its log.
LEMMA LogStays ==
  ASSUME NEW s \in Secrets, VersionsIn(history', s) = VersionsIn(history, s),
         secrets'[s].version = secrets[s].version, secrets'[s].payload = secrets[s].payload
  PROVE  LogIn(VersionsIn(history', s), secrets'[s]) = LogIn(VersionsIn(history, s), secrets[s])
BY DEF LogIn

LEMMA PrimedMapping ==
  /\ [s \in Secrets |-> IF s \in purged THEN "gone" ELSE secrets[s].status]
       = MappedState(secrets, purged)
  /\ [s \in Secrets |-> IF s \in purged THEN "gone" ELSE secrets[s].status]'
       = MappedState(secrets', purged')
BY DEF MappedState

\* A step of VersionedStore, on the mapped variables.
MappedStutter ==
  /\ MappedState(secrets', purged') = MappedState(secrets, purged)
  /\ MappedLog(history', secrets', purged') = MappedLog(history, secrets, purged)

LEMMA StutterOf ==
  ASSUME purged' = purged,
         \A s \in Secrets \ purged :
           /\ secrets'[s].status = secrets[s].status
           /\ LogIn(VersionsIn(history', s), secrets'[s])
                = LogIn(VersionsIn(history, s), secrets[s])
  PROVE  MappedStutter
BY DEF MappedStutter, MappedState, MappedLog

LEMMA CreateMapped ==
  ASSUME IInv, ApartInv, NEW r \in Requests, NEW s \in Secrets, NEW p,
         NEW payload \in Payload, Create(r, s, p, payload)
  PROVE  Abstract!New(s, payload)
<1>1. /\ secrets' = [secrets EXCEPT ![s] = [status |-> "live", path |-> p,
                                            payload |-> payload, version |-> 1]]
      /\ history' = history /\ purged' = purged /\ secrets[s].status = "free"
      /\ secrets \in [Secrets -> SecretRow]
  BY DEF Create, IInv, TypeInv, TypeOK
<1>2. s \notin purged /\ secrets[s].version = 0
  BY <1>1 DEF ApartInv, RowsInv, EmptyRow
<1>3. \A v : ~HasVersion(s, v)
  BY <1>1 DEF IInv, StoreInv, NoOrphanVersion, Exists, HasVersion
<1>4. secrets'[s].version = 1 /\ secrets'[s].payload = payload /\ secrets'[s].status = "live"
  BY <1>1
<1>5. LogIn(VersionsIn(history', s), secrets'[s])
        = Append(LogIn(VersionsIn(history, s), secrets[s]), payload)
  BY <1>1, <1>2, <1>3, <1>4, LogGrows
<1>6. MappedState(secrets', purged') = [MappedState(secrets, purged) EXCEPT ![s] = "live"]
  BY <1>1, <1>2, <1>4 DEF MappedState
<1>7. MappedLog(history', secrets', purged')
        = [MappedLog(history, secrets, purged) EXCEPT ![s] = Append(@, payload)]
  BY <1>1, <1>2, <1>5 DEF MappedLog
<1>8. MappedState(secrets, purged)[s] = "free"
  BY <1>1, <1>2 DEF MappedState
<1>9. QED
  BY <1>6, <1>7, <1>8, MappedLogOf, PrimedMapping DEF Abstract!New, Abstract!Append1

\* The UPDATE of a row that is there is the step at which an update or a rollback takes
\* effect.
LEMMA WriteGrows ==
  ASSUME Apart, IInv, ApartInv, NEW r \in Requests, WriteRow(r), Exists(req[r].id)
  PROVE  /\ req[r].id \in Secrets \ purged
         /\ MappedState(secrets', purged') = MappedState(secrets, purged)
         /\ MappedState(secrets, purged)[req[r].id] = "live"
         /\ MappedLog(history', secrets', purged')
              = [MappedLog(history, secrets, purged) EXCEPT ![req[r].id] =
                   Append(@, req[r].payload)]
<1> DEFINE s == req[r].id
<1>1. /\ secrets' = [secrets EXCEPT ![s] = Written(@, r)]
      /\ history' = history /\ purged' = purged /\ req[r].pc = "write"
      /\ secrets \in [Secrets -> SecretRow] /\ s \in Secrets /\ req[r].payload \in Payload
  BY DEF WriteRow, IInv, TypeInv, TypeOK, IdOK, Request
<1>2. s \notin purged /\ secrets[s].status = "live"
  BY <1>1, NotPurged DEF ApartInv, SeenInv, Exists
<1>3. /\ secrets'[s].version = secrets[s].version + 1
      /\ secrets'[s].payload = req[r].payload
      /\ secrets'[s].status = "live"
  BY <1>1, <1>2 DEF Written, SecretRow, ApartInv, CarriesInv
<1>4. UpToDate(history, secrets[s], req, s) /\ ~Unstored(req, s)
  BY <1>1, <1>2 DEF ApartInv, HistoryInv, Apart, Unstored
<1>5. /\ secrets[s].version \in Nat
      /\ \A v \in Nat : HasVersion(s, v) <=> v \in 1..secrets[s].version
  BY <1>4 DEF UpToDate, HasVersion
<1>6. LogIn(VersionsIn(history', s), secrets'[s])
        = Append(LogIn(VersionsIn(history, s), secrets[s]), req[r].payload)
  <2> HIDE DEF s
  <2>1. /\ \A v \in 1..secrets[s].version : HasVersion(s, v)
        /\ ~HasVersion(s, secrets'[s].version)
    BY <1>3, <1>5
  <2>2. QED
    BY <1>1, <1>3, <2>1, LogGrows
<1>7. \A t \in Secrets \ {s} : secrets'[t] = secrets[t]
  BY <1>1
<1> HIDE DEF s
<1>8. MappedState(secrets', purged') = MappedState(secrets, purged)
  BY <1>1, <1>2, <1>3, <1>7 DEF MappedState
<1>9. MappedState(secrets, purged)[s] = "live"
  BY <1>1, <1>2 DEF MappedState
<1>10. MappedLog(history', secrets', purged')
         = [MappedLog(history, secrets, purged) EXCEPT ![s] = Append(@, req[r].payload)]
  BY <1>1, <1>2, <1>6, <1>7 DEF MappedLog
<1>11. QED
  BY <1>1, <1>2, <1>8, <1>9, <1>10 DEF s

LEMMA UpdateMapped ==
  ASSUME Apart, IInv, ApartInv, NEW r \in Requests, WriteRow(r), Exists(req[r].id),
         req[r].op = "update", NEW s, s = req[r].id
  PROVE  \E patch \in Payload : Abstract!Update(s, patch)
<1> DEFINE before == MappedLog(history, secrets, purged)
<1>1. s \in Secrets \ purged /\ req[r].pc = "write"
  BY WriteGrows DEF WriteRow
<1>2. PICK patch \in Payload : req[r].payload = Merge(secrets[s].payload, patch)
  BY <1>1 DEF ApartInv, CarriesInv
<1>3. /\ secrets[s].version \in Nat \ {0}
      /\ Row(s, secrets[s].version, secrets[s].payload) \in history
  <2>1. UpToDate(history, secrets[s], req, s) /\ ~Unstored(req, s)
    BY <1>1 DEF ApartInv, HistoryInv, Apart, Unstored
  <2>2. QED
    BY <2>1 DEF UpToDate
<1>4. secrets[s].payload \in Payload
  BY <1>1 DEF IInv, TypeInv, TypeOK, SecretRow
<1>5. before[s] = LogIn(VersionsIn(history, s), secrets[s])
  BY <1>1 DEF MappedLog
<1>6. Len(before[s]) = secrets[s].version
  BY <1>1, <1>5, LogType
<1>7. before[s][Len(before[s])] = secrets[s].payload
  BY <1>1, <1>3, <1>4, <1>5, <1>6, LogAt
<1>8. /\ MappedState(secrets', purged') = MappedState(secrets, purged)
      /\ MappedState(secrets, purged)[s] = "live"
      /\ MappedLog(history', secrets', purged')
           = [before EXCEPT ![s] = Append(@, Merge(before[s][Len(before[s])], patch))]
  BY <1>2, <1>7, WriteGrows
<1>9. Abstract!Update(s, patch)
  BY <1>8, MappedLogOf, PrimedMapping DEF Abstract!Update, Abstract!Append1
<1>10. QED
  BY <1>2, <1>9

LEMMA RollbackMapped ==
  ASSUME Apart, IInv, ApartInv, NEW r \in Requests, WriteRow(r), Exists(req[r].id),
         req[r].op = "rollback", NEW s, s = req[r].id, NEW v, v = req[r].target
  PROVE  /\ v \in DOMAIN MappedLog(history, secrets, purged)[s]
         /\ Abstract!Rollback(s, v)
<1> DEFINE before == MappedLog(history, secrets, purged)
<1>1. /\ s \in Secrets \ purged /\ req[r].pc = "write"
      /\ req[r].payload \in Payload /\ v \in Nat
  BY WriteGrows DEF WriteRow, IInv, TypeInv, TypeOK, Request
<1>2. Row(s, v, req[r].payload) \in history
  BY <1>1 DEF IInv, StoreInv, CarriesTarget
<1>3. v \in 1..secrets[s].version
  <2>1. UpToDate(history, secrets[s], req, s)
    BY <1>1 DEF ApartInv, HistoryInv
  <2>2. \E x \in history : x.secret = s /\ x.version = v
    BY <1>2 DEF Row
  <2>3. QED
    BY <1>1, <2>1, <2>2 DEF UpToDate
<1>4. before[s] = LogIn(VersionsIn(history, s), secrets[s])
  BY <1>1 DEF MappedLog
<1>5. DOMAIN before[s] = 1..secrets[s].version
  BY <1>4 DEF LogIn
<1>6. before[s][v] = req[r].payload
  BY <1>1, <1>2, <1>3, <1>4, LogAt
<1>7. /\ MappedState(secrets', purged') = MappedState(secrets, purged)
      /\ MappedState(secrets, purged)[s] = "live"
      /\ MappedLog(history', secrets', purged') = [before EXCEPT ![s] = Append(@, before[s][v])]
  BY <1>6, WriteGrows
<1>8. Abstract!Rollback(s, v)
  BY <1>7, MappedLogOf, PrimedMapping DEF Abstract!Rollback, Abstract!Append1
<1>9. QED
  BY <1>3, <1>5, <1>8

\* A version that repeats the content of the row does not change the log.
LEMMA LogCompleted ==
  ASSUME NEW V, NEW row, NEW new, row.payload \in Payload,
         new.version = row.version, new.payload = row.payload,
         \A x \in V : x.version # row.version
  PROVE  LogIn(V \cup {new}, row) = LogIn(V, row)
<1> DEFINE W == V \cup {new}
           in(U, v) == {x.payload : x \in {y \in U : y.version = v}}
           pick(U, v) == CHOOSE p \in Payload : p \in in(U, v)
           f == LogIn(W, row)
           g == LogIn(V, row)
<1>1. f = [v \in 1..row.version |-> f[v]] /\ g = [v \in 1..row.version |-> g[v]]
  BY DEF LogIn
<1>2. ASSUME NEW v \in 1..row.version PROVE f[v] = g[v]
  <2>1. /\ f[v] = IF \E x \in W : x.version = v THEN pick(W, v) ELSE row.payload
        /\ g[v] = IF \E x \in V : x.version = v THEN pick(V, v) ELSE row.payload
    BY DEF LogIn
  <2>2. CASE v = row.version
    <3>1. in(W, v) = {row.payload}
      BY <2>2
    <3> HIDE DEF in
    <3>2. pick(W, v) = row.payload
      BY <3>1
    <3> HIDE DEF pick, f, g
    <3>3. QED
      BY <2>1, <2>2, <3>2
  <2>3. CASE v # row.version
    <3>1. in(W, v) = in(V, v)
      <4>1. {y \in W : y.version = v} = {y \in V : y.version = v}
        BY <2>3
      <4>2. QED
        BY <4>1
    <3>2. (\E x \in W : x.version = v) <=> (\E x \in V : x.version = v)
      BY <2>3
    <3> HIDE DEF in
    <3>3. pick(W, v) = pick(V, v)
      BY <3>1
    <3> HIDE DEF pick, f, g
    <3>4. QED
      BY <2>1, <3>2, <3>3
  <2>4. QED
    BY <2>2, <2>3
<1> HIDE DEF f, g
<1>3. f = g
  BY <1>1, <1>2
<1>4. QED
  BY <1>3 DEF f, g

\* The INSERT that completes an update changes nothing that VersionedStore sees: the row
\* held the content already.
LEMMA InsertMapped ==
  ASSUME Apart, IInv, ApartInv, NEW r \in Requests, InsertVersion(r)
  PROVE  MappedStutter
<1> DEFINE s == req[r].id
<1>1. /\ secrets' = secrets /\ purged' = purged /\ req[r].pc = "version" /\ s \in Secrets
  BY DEF InsertVersion, IInv, TypeInv, IdOK
<1>2. CASE ~Exists(s)
  <2>1. history' = history
    BY <1>2 DEF InsertVersion, MayInsertVersion, VersionRejected
  <2>2. QED
    BY <1>1, <2>1 DEF MappedStutter
<1>3. CASE Exists(s)
  <2> DEFINE p == secrets[s].payload
             n == secrets[s].version
  <2>1. /\ MayInsertVersion(s, req[r].version) /\ req[r].version = n /\ req[r].payload = p
        /\ p \in Payload
    BY <1>1, <1>3, InsertSucceeds DEF IInv, TypeInv, TypeOK, SecretRow
  <2>2. history' = history \cup {Row(s, n, p)}
    BY <2>1 DEF InsertVersion, VersionRowOf, Row
  <2>3. ~HasVersion(s, n)
    BY <2>1 DEF MayInsertVersion
  <2>4. VersionsIn(history', s) = VersionsIn(history, s) \cup {Row(s, n, p)}
    BY <2>2 DEF VersionsIn, Row
  <2>5. LogIn(VersionsIn(history', s), secrets[s]) = LogIn(VersionsIn(history, s), secrets[s])
    <3>1. \A x \in VersionsIn(history, s) : x.version # n
      BY <2>3 DEF HasVersion, VersionsIn
    <3>2. Row(s, n, p).version = n /\ Row(s, n, p).payload = p
      BY DEF Row
    <3>3. QED
      BY <2>1, <2>4, <3>1, <3>2, LogCompleted
  <2>6. ASSUME NEW t \in Secrets, t # s PROVE VersionsIn(history', t) = VersionsIn(history, t)
    BY <2>2, <2>6 DEF VersionsIn, Row
  <2> HIDE DEF n, p
  <2>7. \A t \in Secrets :
          LogIn(VersionsIn(history', t), secrets'[t]) = LogIn(VersionsIn(history, t), secrets[t])
    BY <1>1, <2>5, <2>6
  <2>8. QED
    BY <1>1, <2>7, StutterOf
<1>4. QED
  BY <1>2, <1>3

LEMMA DeleteMapped ==
  ASSUME Apart, IInv, ApartInv, NEW r \in Requests, SoftDelete(r), Exists(req[r].id),
         NEW s, s = req[r].id
  PROVE  Abstract!Delete(s)
<1>1. /\ secrets' = [secrets EXCEPT ![s].status = "deleted"]
      /\ history' = history /\ purged' = purged /\ req[r].pc = "softdelete"
      /\ secrets \in [Secrets -> SecretRow] /\ s \in Secrets
  BY DEF SoftDelete, IInv, TypeInv, TypeOK, IdOK
<1>2. s \notin purged /\ secrets[s].status = "live"
  BY <1>1, NotPurged DEF ApartInv, SeenInv, Exists
<1>3. MappedState(secrets', purged') = [MappedState(secrets, purged) EXCEPT ![s] = "deleted"]
  BY <1>1, <1>2 DEF MappedState, SecretRow
<1>4. MappedState(secrets, purged)[s] = "live"
  BY <1>1, <1>2 DEF MappedState
<1>5. \A t \in Secrets : /\ secrets'[t].version = secrets[t].version
                         /\ secrets'[t].payload = secrets[t].payload
  BY <1>1 DEF SecretRow
<1>6. MappedLog(history', secrets', purged') = MappedLog(history, secrets, purged)
  BY <1>1, <1>5, LogStays DEF MappedLog
<1>7. QED
  BY <1>1, <1>3, <1>4, <1>6, MappedLogOf, PrimedMapping DEF Abstract!Delete

LEMMA HardDeleteMapped ==
  ASSUME Apart', IInv, ApartInv, NEW r \in Requests, NEW s \in Secrets, HardDelete(r, s)
  PROVE  Abstract!Purge({s})
<1>1. /\ purged' = purged \cup {s} /\ secrets' = secrets /\ req[r].pc = "idle" /\ Exists(s)
      /\ history' = history \ VersionsOf(s)
  BY DEF HardDelete, Start
<1>2. s \notin purged
  <2>1. ASSUME NEW q \in Requests, req[q].pc = "purge", req[q].id = s PROVE FALSE
    <3>1. req'[q] = req[q] /\ q # r
      BY <1>1, <2>1, OthersAlone DEF IInv, Begin
    <3>2. req'[r].id = s
      BY DEF HardDelete, Start, IInv, TypeInv, TypeOK
    <3>3. QED
      BY <2>1, <3>1, <3>2 DEF Apart
  <2>2. QED
    BY <1>1, <2>1 DEF ApartInv, RowsInv
<1>3. \A t \in Secrets \ {s} : VersionsIn(history', t) = VersionsIn(history, t)
  BY <1>1 DEF VersionsIn, VersionsOf
<1>4. MappedState(secrets', purged')
        = [t \in Secrets |-> IF t \in {s} THEN "gone" ELSE MappedState(secrets, purged)[t]]
  BY <1>1 DEF MappedState
<1>5. MappedLog(history', secrets', purged')
        = [t \in Secrets |-> IF t \in {s} THEN <<>> ELSE MappedLog(history, secrets, purged)[t]]
  BY <1>1, <1>3 DEF MappedLog
<1>6. \A t \in {s} : MappedState(secrets, purged)[t] \in {"live", "deleted"}
  BY <1>1, <1>2 DEF MappedState, Exists
<1>7. QED
  BY <1>4, <1>5, <1>6, MappedLogOf, PrimedMapping DEF Abstract!Purge

LEMMA TeamDeleteMapped ==
  ASSUME IInv, TeamDelete, NEW S, S = {s \in Secrets : Exists(s) /\ s \notin purged}
  PROVE  Abstract!Purge(S)
<1>1. /\ purged' = {s \in Secrets : Exists(s)} \cup purged /\ history' = {}
      /\ secrets' = [s \in Secrets |-> IF Exists(s) THEN EmptyRow("gone") ELSE secrets[s]]
  BY DEF TeamDelete
<1>2. \A s \in Secrets : s \notin purged' =>
        /\ s \notin purged /\ s \notin S /\ secrets'[s] = secrets[s]
        /\ VersionsIn(history', s) = VersionsIn(history, s)
  BY <1>1 DEF VersionsIn, IInv, StoreInv, NoOrphanVersion
<1>3. \A s \in Secrets : s \in purged' <=> s \in S \/ s \in purged
  BY <1>1
<1>4. \A s \in S : MappedState(secrets, purged)[s] \in {"live", "deleted"}
  BY DEF MappedState, Exists
<1>5. MappedState(secrets', purged')
        = [s \in Secrets |-> IF s \in S THEN "gone" ELSE MappedState(secrets, purged)[s]]
  BY <1>2, <1>3 DEF MappedState
<1>6. MappedLog(history', secrets', purged')
        = [s \in Secrets |-> IF s \in S THEN <<>> ELSE MappedLog(history, secrets, purged)[s]]
  BY <1>2, <1>3 DEF MappedLog
<1>7. QED
  BY <1>4, <1>5, <1>6, MappedLogOf, PrimedMapping DEF Abstract!Purge

LEMMA PurgeRowMapped ==
  ASSUME IInv, NEW r \in Requests, PurgeRow(r)
  PROVE  MappedStutter
<1> DEFINE s == req[r].id
<1>1. /\ secrets' = [secrets EXCEPT ![s] = EmptyRow("gone")]
      /\ history' = history \ VersionsOf(s) /\ purged' = purged /\ s \in purged
  BY DEF PurgeRow, IInv, TypeInv, OpOK
<1> HIDE DEF s
<1>2. \A t \in Secrets \ purged : /\ secrets'[t] = secrets[t]
                                  /\ VersionsIn(history', t) = VersionsIn(history, t)
  BY <1>1 DEF VersionsIn, VersionsOf, IInv, TypeInv, TypeOK
<1>3. QED
  BY <1>1, <1>2, StutterOf

\* Every step of SecretStore is a step of VersionedStore on the mapped variables, or
\* leaves them as they are.
LEMMA StepMapped ==
  ASSUME NoFailure, Apart, Apart', IInv, ApartInv, [Next]_vars
  PROVE  Abstract!Next \/ MappedStutter
<1>1. ASSUME UNCHANGED <<secrets, history, purged>> PROVE MappedStutter
  BY <1>1 DEF MappedStutter
<1>2. ASSUME NEW r \in Requests, Begin(r) PROVE Abstract!Next \/ MappedStutter
  <2>1. ASSUME NEW s \in Secrets, NEW p \in Paths, NEW v \in Values,
               NEW m \in Metadata \cup {None}, Create(r, s, p, [value |-> v, metadata |-> m])
        PROVE  Abstract!Next
    <3>1. [value |-> v, metadata |-> m] \in Payload
      BY DEF Payload
    <3>2. QED
      BY <2>1, <3>1, CreateMapped DEF Abstract!Next
  <2>2. ASSUME NEW s \in Secrets, HardDelete(r, s) PROVE Abstract!Next
    <3>1. {s} \in SUBSET Secrets
      OBVIOUS
    <3>2. QED
      BY <2>2, <3>1, HardDeleteMapped DEF Abstract!Next
  <2>3. QED
    BY <1>1, <1>2, <2>1, <2>2 DEF Begin, BeginUpdate, BeginRollback, BeginDelete
<1>3. ASSUME NEW r \in Requests, WriteRow(r) PROVE Abstract!Next \/ MappedStutter
  <2>1. CASE ~Exists(req[r].id)
    BY <1>1, <1>3, <2>1 DEF WriteRow
  <2>2. CASE Exists(req[r].id)
    <3>1. PICK s \in Secrets : s = req[r].id
      BY <1>3, <2>2, WriteGrows
    <3>2. req[r].op \in {"update", "rollback"}
      BY <1>3 DEF WriteRow, ApartInv, StageInv
    <3>3. CASE req[r].op = "update"
      BY <1>3, <2>2, <3>1, <3>3, UpdateMapped DEF Abstract!Next
    <3>4. CASE req[r].op = "rollback"
      <4>1. PICK v : v = req[r].target
        OBVIOUS
      <4>2. v \in DOMAIN MappedLog(history, secrets, purged)[s] /\ Abstract!Rollback(s, v)
        BY <1>3, <2>2, <3>1, <3>4, <4>1, RollbackMapped
      <4>3. QED
        BY <3>1, <4>2, MappedLogOf DEF Abstract!Next
    <3>5. QED
      BY <3>2, <3>3, <3>4
  <2>3. QED
    BY <2>1, <2>2
<1>4. ASSUME NEW r \in Requests, SoftDelete(r) PROVE Abstract!Next \/ MappedStutter
  <2>1. CASE Exists(req[r].id)
    <3>1. PICK s \in Secrets : s = req[r].id
      BY <1>4 DEF SoftDelete, IInv, TypeInv, IdOK
    <3>2. QED
      BY <1>4, <2>1, <3>1, DeleteMapped DEF Abstract!Next
  <2>2. CASE ~Exists(req[r].id)
    BY <1>1, <1>4, <2>2 DEF SoftDelete
  <2>3. QED
    BY <2>1, <2>2
<1>5. ASSUME NEW r \in Requests, InsertVersion(r) PROVE MappedStutter
  BY <1>5, InsertMapped
<1>6. ASSUME NEW r \in Requests, PurgeRow(r) PROVE MappedStutter
  BY <1>6, PurgeRowMapped
<1>7. ASSUME NEW r \in Requests, Step(r) PROVE Abstract!Next \/ MappedStutter
  BY <1>1, <1>3, <1>4, <1>5, <1>6, <1>7
     DEF Step, SelectVersion, ReadTarget, Reload, Reread, Panic, LogAndReply
<1>8. ASSUME TeamDelete PROVE Abstract!Next
  <2>1. PICK S \in SUBSET Secrets : S = {s \in Secrets : Exists(s) /\ s \notin purged}
    OBVIOUS
  <2>2. QED
    BY <1>8, <2>1, TeamDeleteMapped DEF Abstract!Next
<1>9. QED
  BY <1>1, <1>2, <1>7, <1>8, FaultFreeStep DEF NotFound, vars

\* When no two requests are at work on one secret at the same time, the tables are a
\* versioned store: every update appends the merged content, every rollback a copy of the
\* version it names, nothing else changes the contents, and only a purge removes any.
THEOREM ImplementsVersionedStore == ASSUME NoFailure PROVE Spec /\ []Apart => VersionedStore
<1>1. Init => Abstract!Init
  BY InitMapped
<1>2. IInv /\ Apart /\ Apart' /\ ApartInv /\ [Next]_vars
        => [Abstract!Next]_<<[s \in Secrets |-> IF s \in purged THEN "gone" ELSE secrets[s].status],
                             [s \in Secrets |-> IF s \in purged THEN <<>> ELSE LogOf(s)]>>
  BY StepMapped, MappedLogOf, PrimedMapping DEF MappedStutter
<1>3. QED
  BY <1>1, <1>2, ApartInductive, PTL DEF Spec, VersionedStore, Abstract!Spec
=============================================================================
