---------------------------- MODULE ApiKeysProofs ----------------------------
(***************************************************************************)
(* Rotations and revocations of API keys, for every number of keys and of  *)
(* requests, with every fault.  A lineage that nobody has disturbed has a  *)
(* key which no rotation is about to disable (Spare): the one inserted     *)
(* last.                                                                   *)
(***************************************************************************)
EXTENDS ApiKeys, TLAPS

RowInv == \A k \in Keys : keys[k].enabled = 1 => Live(k)

LineageInv ==
  \A k \in Keys :
    /\ keys[k].status = "free" => origin[k] = k
    /\ keys[k].status # "free" =>
         /\ keys[origin[k]].status # "free"
         /\ origin[origin[k]] = origin[k]
         /\ keys[k].expires = keys[origin[k]].expires

RequestInv ==
  \A r \in Requests :
    /\ req[r].pc # "idle" => keys[req[r].key].status # "free"
    /\ req[r].pc = "insert" => req[r].expires = keys[req[r].key].expires
    /\ req[r].pc = "retire" => keys[req[r].new].status # "free"

RevokedInv == \A k \in revoked : keys[k].status # "free" /\ keys[k].enabled = 0

Struct ==
  /\ TypeOK
  /\ RowInv
  /\ LineageInv
  /\ RequestInv
  /\ RevokedInv

\* a key that is accepted and that no rotation is about to disable
Spare(k) == /\ Accepted(k)
            /\ \A r \in Requests : req[r].pc = "retire" => req[r].key # k

Claim(o) == /\ keys[o].status # "free"
            /\ origin[o] = o
            /\ o \notin disturbed
            /\ ~Expired(keys[o].expires)

SpareInv == \A o \in Keys : Claim(o) => \E k \in Keys : origin[k] = o /\ Spare(k)

IInv == Struct /\ SpareInv

-----------------------------------------------------------------------------

LEMMA InitIInv == Init => IInv
<1> SUFFICES ASSUME Init PROVE IInv
  OBVIOUS
<1> USE DEF Init
<1>1. TypeOK
  BY NoneAssumption DEF TypeOK, Row, Request, PC, Time, Idle
<1>2. RowInv /\ LineageInv /\ RevokedInv
  BY DEF RowInv, LineageInv, RevokedInv
<1>3. RequestInv
  BY DEF RequestInv, Idle
<1>4. SpareInv
  BY DEF SpareInv, Claim
<1> QED
  BY <1>1, <1>2, <1>3, <1>4 DEF IInv, Struct

\* An inserted row starts a lineage of its own, or joins one with the expiry it has.
LEMMA InsertKeepsStruct ==
  ASSUME Struct, NEW k \in Keys,
         CreateKey(k) \/ \E r \in Requests : InsertSuccessor(r, k)
  PROVE  Struct'
<1> USE DEF Struct, TypeOK, Row, Request, PC, Time, RowInv, LineageInv, RequestInv,
            RevokedInv, Live, Insert
<1>1. CASE CreateKey(k)
  <2>1. PICK e \in {Never} \cup {now + life : life \in Lifetimes} : Insert(k, e)
    BY <1>1 DEF CreateKey
  <2>2. e \in Time
    BY <2>1, LifetimesAssumption
  <2> QED
    BY <1>1, <2>1, <2>2 DEF CreateKey, ghosts
<1>2. ASSUME NEW r \in Requests, InsertSuccessor(r, k) PROVE Struct'
  <2>1. /\ req[r].pc = "insert"
        /\ req[r].key \in Keys \ {k}
        /\ keys[k].status = "free"
        /\ origin[req[r].key] # k
    BY <1>2 DEF InsertSuccessor
  <2>2. TypeOK' /\ RowInv'
    BY <1>2, <2>1 DEF InsertSuccessor
  <2>3. LineageInv'
    BY <1>2, <2>1 DEF InsertSuccessor
  <2>4. RequestInv' /\ RevokedInv'
    BY <1>2, <2>1 DEF InsertSuccessor
  <2> QED
    BY <2>2, <2>3, <2>4
<1> QED
  BY <1>1, <1>2

\* A request slot may be given any expiry.
LEMMA ExpiresTyped ==
  ASSUME NEW f \in [Requests -> Request], NEW r \in Requests, NEW e \in Time
  PROVE  [f EXCEPT ![r].expires = e] \in [Requests -> Request]
BY DEF Request, Time

\* What a rotation carries after it has read the key.
LEMMA RereadRequest ==
  ASSUME NoneAssumption, keys \in [Keys -> Row], req \in [Requests -> Request],
         NEW r \in Requests, req[r].key \in Keys, Reread(r)
  PROVE  /\ req' \in [Requests -> Request]
         /\ \A q \in Requests \ {r} : req'[q] = req[q]
         /\ \/ req'[r] = Idle
            \/ /\ req'[r].pc = "insert"
               /\ req'[r].key = req[r].key
               /\ req'[r].expires = keys[req[r].key].expires
<1> USE DEF Row, Request, PC, Time
<1>1. CASE Live(req[r].key)
  <2>1. req' = [req EXCEPT ![r].pc = "insert", ![r].expires = keys[req[r].key].expires]
    BY <1>1 DEF Reread
  <2> DEFINE e == keys[req[r].key].expires
  <2>2. e \in Nat \cup {Never}
    OBVIOUS
  <2> HIDE DEF e
  <2>3. req' = [req EXCEPT ![r].pc = "insert", ![r].expires = e]
    BY <2>1 DEF e
  <2>4. \A q \in Requests \ {r} : req'[q] = req[q]
    BY <2>3
  <2>5. req'[r].pc = "insert" /\ req'[r].key = req[r].key /\ req'[r].expires = e
    BY <2>3
  <2>6. req' \in [Requests -> Request]
    <3> DEFINE mid == [req EXCEPT ![r].pc = "insert"]
    <3>1. mid \in [Requests -> Request]
      OBVIOUS
    <3>2. req' = [mid EXCEPT ![r].expires = e]
      BY <2>3
    <3> HIDE DEF mid
    <3> QED
      BY <2>2, <3>1, <3>2, ExpiresTyped
  <2> QED
    BY <2>4, <2>5, <2>6 DEF e
<1>2. CASE ~Live(req[r].key)
  <2>1. req' = [req EXCEPT ![r] = Idle]
    BY <1>2 DEF Reread, Finish
  <2> QED
    BY <2>1 DEF Idle
<1> QED
  BY <1>1, <1>2

\* What the cleanup does to the table.
LEMMA CleanedRows ==
  ASSUME keys \in [Keys -> Row], Cleanup
  PROVE  /\ keys' \in [Keys -> Row]
         /\ \A k \in Keys : /\ keys'[k].expires = keys[k].expires
                            /\ keys'[k].status = "free" <=> keys[k].status = "free"
                            /\ keys'[k].enabled = 1 => keys'[k] = keys[k]
                            /\ keys[k].enabled = 0 => keys'[k].enabled = 0
                            /\ ~IsCleaned(k) => keys'[k] = keys[k]
<1> USE DEF Row, Time
<1>1. ASSUME NEW k \in Keys
      PROVE  /\ keys'[k] \in Row
             /\ IsCleaned(k) => /\ keys'[k].expires = keys[k].expires
                                /\ keys'[k].status = "gone"
                                /\ keys'[k].enabled = 0
             /\ ~IsCleaned(k) => keys'[k] = keys[k]
  BY <1>1 DEF Cleanup
<1>2. keys' = [k \in Keys |-> keys'[k]]
  BY DEF Cleanup
<1>3. \A k \in Keys : IsCleaned(k) => keys[k].status = "live"
  BY DEF IsCleaned, Live
<1> QED
  BY <1>1, <1>2, <1>3

LEMMA RequestKeepsStruct ==
  ASSUME NoneAssumption, Struct, NEW r \in Requests,
         \/ Delete(r) \/ Disable(r) \/ Enable(r) \/ Reread(r) \/ Retire(r) \/ Touch(r)
         \/ StatementFails(r)
         \/ \E k \in Keys : Begin(r, k) \/ Validate(r, k)
  PROVE  Struct'
<1> USE DEF Struct, TypeOK, Row, Request, PC, Time, RowInv, LineageInv, RequestInv,
            RevokedInv, Live, Idle, Finish, SetEnabled, Revoke, ghosts
<1>1. CASE Delete(r)
  <2>1. TypeOK'
    BY <1>1 DEF Delete
  <2>2. RowInv'
    BY <1>1 DEF Delete
  <2>3. LineageInv'
    BY <1>1 DEF Delete
  <2>4. RequestInv' /\ RevokedInv'
    BY <1>1 DEF Delete
  <2> QED
    BY <2>1, <2>2, <2>3, <2>4
<1>2. CASE Disable(r)
  BY <1>2 DEF Disable
<1>3. CASE Enable(r)
  <2>1. req[r].key \in Keys /\ keys[req[r].key].status # "free"
    BY <1>3 DEF Enable
  <2>2. CASE Live(req[r].key)
    BY <1>3, <2>1, <2>2 DEF Enable
  <2>3. CASE ~Live(req[r].key)
    BY <1>3, <2>1, <2>3 DEF Enable
  <2> QED
    BY <2>2, <2>3
<1>4. CASE Reread(r)
  <2>1. r \in Requests /\ req[r].key \in Keys /\ UNCHANGED <<now, keys, ghosts>>
    BY <1>4 DEF Reread
  <2>2. /\ req' \in [Requests -> Request]
        /\ \A q \in Requests \ {r} : req'[q] = req[q]
        /\ \/ req'[r] = Idle
           \/ /\ req'[r].pc = "insert"
              /\ req'[r].key = req[r].key
              /\ req'[r].expires = keys[req[r].key].expires
    <3>1. /\ NoneAssumption /\ keys \in [Keys -> Row]
          /\ req \in [Requests -> Request]
          /\ r \in Requests /\ req[r].key \in Keys /\ Reread(r)
      BY <1>4, <2>1
    <3> HIDE DEF Struct, TypeOK, Row, Request, PC, Time, RowInv, LineageInv, RequestInv,
                 RevokedInv, Live, Idle, Finish, SetEnabled, Revoke, ghosts
    <3> QED
      BY <3>1, RereadRequest
  <2>3. keys[req[r].key].status # "free"
    BY <1>4 DEF Reread
  <2>4. ASSUME NEW q \in Requests
        PROVE  /\ req'[q].pc # "idle" => /\ req'[q].key \in Keys
                                         /\ keys[req'[q].key].status # "free"
               /\ req'[q].pc = "insert" => req'[q].expires = keys[req'[q].key].expires
               /\ req'[q].pc = "retire" => req'[q] = req[q]
    <3>1. CASE q = r
      BY <2>1, <2>2, <2>3, <3>1
    <3>2. CASE q # r
      BY <2>2, <3>2
    <3> QED
      BY <3>1, <3>2
  <2>5. TypeOK'
    BY <2>1, <2>2, <2>4
  <2>6. RequestInv'
    BY <2>1, <2>4
  <2>7. RowInv' /\ LineageInv' /\ RevokedInv'
    BY <2>1
  <2> QED
    BY <2>5, <2>6, <2>7
<1>5. CASE Retire(r)
  BY <1>5 DEF Retire
<1>6. CASE Touch(r)
  BY <1>6 DEF Touch
<1>7. CASE StatementFails(r)
  BY <1>7 DEF StatementFails
<1>8. ASSUME NEW k \in Keys, Begin(r, k) \/ Validate(r, k) PROVE Struct'
  <2>1. PICK pc \in {"delete", "disable", "enable", "reread", "touch"} : Start(r, pc, k)
    BY <1>8 DEF Validate, Begin, BeginDelete, BeginDisable, BeginEnable, BeginRotate,
       FindOwn
  <2>2. Live(k) /\ UNCHANGED <<now, keys, ghosts>>
    BY <1>8 DEF Validate, Accepted, Begin, BeginDelete, BeginDisable, BeginEnable,
       BeginRotate, FindOwn
  <2>3. /\ \A q \in Requests \ {r} : req'[q] = req[q]
        /\ req'[r] = [pc |-> pc, key |-> k, expires |-> Never, new |-> None]
        /\ req' \in [Requests -> Request]
    BY <2>1 DEF Start
  <2> QED
    BY <2>2, <2>3
<1> QED
  BY <1>1, <1>2, <1>3, <1>4, <1>5, <1>6, <1>7, <1>8

LEMMA EnvironmentKeepsStruct ==
  ASSUME NoneAssumption, Struct, Cleanup \/ Crash \/ Tick
  PROVE  Struct'
<1> USE DEF Struct, TypeOK, Row, Request, PC, Time, RowInv, LineageInv, RequestInv,
            RevokedInv, Live, Idle, ghosts
<1>1. CASE Cleanup
  <2>1. /\ keys' \in [Keys -> Row]
        /\ \A k \in Keys : /\ keys'[k].expires = keys[k].expires
                           /\ keys'[k].status = "free" <=> keys[k].status = "free"
                           /\ keys'[k].enabled = 1 => keys'[k] = keys[k]
    BY <1>1, CleanedRows DEF Cleanup
  <2>2. UNCHANGED <<now, req, origin, revoked, disturbed>>
    BY <1>1 DEF Cleanup
  <2>3. RevokedInv'
    BY <2>1, <2>2
  <2>4. TypeOK' /\ RowInv'
    BY <2>1, <2>2
  <2>5. LineageInv' /\ RequestInv'
    BY <2>1, <2>2
  <2> QED
    BY <2>3, <2>4, <2>5
<1>2. CASE Crash
  BY <1>2 DEF Crash
<1>3. CASE Tick
  BY <1>3 DEF Tick
<1> QED
  BY <1>1, <1>2, <1>3

LEMMA StructStep == Struct /\ [Next]_vars => Struct'
<1> SUFFICES ASSUME Struct, [Next]_vars PROVE Struct'
  OBVIOUS
<1>1. CASE UNCHANGED vars
  BY <1>1 DEF vars, Struct, TypeOK, RowInv, LineageInv, RequestInv, RevokedInv, Live
<1>2. CASE Next
  <2>1. CASE \E k \in Keys : Unauthorized(k)
    BY <1>1, <2>1 DEF Unauthorized
  <2> QED
    BY <1>2, <2>1, NoneAssumption, InsertKeepsStruct, RequestKeepsStruct,
       EnvironmentKeepsStruct DEF Next
<1> QED
  BY <1>1, <1>2

-----------------------------------------------------------------------------
(* A spare key stays, or an insertion makes another. *)

\* A step that changes no row, starts no last step of a rotation, and disturbs nobody.
LEMMA SpareUntouched ==
  ASSUME SpareInv, UNCHANGED <<now, keys, origin, disturbed>>,
         \A q \in Requests : req'[q].pc = "retire" => req'[q] = req[q]
  PROVE  SpareInv'
BY DEF SpareInv, Claim, Spare, Accepted, Live, Expired

\* A step that leaves a spare key as it is, in a lineage that may claim one after it.
LEMMA SpareKept ==
  ASSUME SpareInv, NEW o \in Keys, Claim(o),
         \A k \in Keys : origin[k] = o /\ Spare(k) => origin'[k] = o /\ Spare(k)'
  PROVE  \E k \in Keys : origin'[k] = o /\ Spare(k)'
BY DEF SpareInv

LEMMA CreateKeepsSpare ==
  ASSUME Struct, SpareInv, NEW k \in Keys, CreateKey(k)
  PROVE  SpareInv'
<1>1. PICK e \in {Never} \cup {now + life : life \in Lifetimes} : Insert(k, e)
  BY DEF CreateKey
<1>2. /\ UNCHANGED <<now, req, origin, disturbed>>
      /\ keys[k].status = "free"
      /\ keys' = [keys EXCEPT ![k] = [status |-> "live", enabled |-> 1, expires |-> e]]
  BY <1>1 DEF CreateKey, Insert, ghosts
<1>3. \A r \in Requests : req[r].pc = "retire" => req[r].key # k
  BY <1>2 DEF Struct, RequestInv
<1>4. keys \in [Keys -> Row] /\ origin[k] = k
  BY <1>2 DEF Struct, TypeOK, LineageInv
<1> SUFFICES ASSUME NEW o \in Keys, Claim(o)'
             PROVE  \E w \in Keys : origin'[w] = o /\ Spare(w)'
  BY DEF SpareInv
<1>5. CASE o = k
  <2>1. Spare(k)'
    BY <1>2, <1>3, <1>4, <1>5 DEF Spare, Accepted, Live, Claim, Expired
  <2> QED
    BY <1>2, <1>4, <1>5, <2>1
<1>6. CASE o # k
  <2>1. Claim(o)
    BY <1>2, <1>4, <1>6 DEF Claim, Expired
  <2>2. ASSUME NEW w \in Keys, origin[w] = o, Spare(w) PROVE origin'[w] = o /\ Spare(w)'
    BY <1>2, <1>4, <2>2 DEF Spare, Accepted, Live, Expired
  <2> QED
    BY <2>1, <2>2, SpareKept
<1> QED
  BY <1>5, <1>6

\* The rotated key is no longer spare, but its successor is.
LEMMA SuccessorIsSpare ==
  ASSUME Struct, SpareInv, NEW r \in Requests, NEW k \in Keys, InsertSuccessor(r, k)
  PROVE  SpareInv'
<1> DEFINE old == req[r].key
<1>1. /\ UNCHANGED <<now, disturbed>>
      /\ req[r].pc = "insert"
      /\ keys[k].status = "free"
      /\ keys' = [keys EXCEPT ![k] = [status |-> "live", enabled |-> 1,
                                      expires |-> req[r].expires]]
      /\ req' = [req EXCEPT ![r].pc = "retire", ![r].new = k]
      /\ origin' = [origin EXCEPT ![k] = origin[old]]
  BY DEF InsertSuccessor, Insert
<1>2. /\ keys \in [Keys -> Row]
      /\ origin \in [Keys -> Keys]
      /\ req \in [Requests -> Request]
      /\ old \in Keys
  BY <1>1 DEF Struct, TypeOK
<1>3. /\ keys[old].status # "free"
      /\ origin[old] # k
      /\ req[r].expires = keys[origin[old]].expires
  BY <1>1, <1>2 DEF Struct, RequestInv, LineageInv
<1>4. \A q \in Requests : req'[q].pc = "retire" => req'[q].key # k
  <2>1. \A q \in Requests : req[q].pc = "retire" => req[q].key # k
    BY <1>1 DEF Struct, RequestInv
  <2> QED
    BY <1>1, <1>2, <1>3, <2>1 DEF Request
<1>5. \A q \in Requests : req'[q].pc = "retire" => q = r \/ req'[q] = req[q]
  BY <1>1, <1>2
<1>6. req'[r].key = old
  BY <1>1, <1>2 DEF Request
<1> SUFFICES ASSUME NEW o \in Keys, Claim(o)'
             PROVE  \E w \in Keys : origin'[w] = o /\ Spare(w)'
  BY DEF SpareInv
<1>7. o # k /\ origin[o] = o
  BY <1>1, <1>2, <1>3 DEF Claim
<1>8. keys'[o] = keys[o] /\ Claim(o)
  BY <1>1, <1>2, <1>7 DEF Claim, Expired
<1>9. CASE o = origin[old]
  <2>1. Spare(k)'
    BY <1>1, <1>2, <1>3, <1>4, <1>8, <1>9 DEF Spare, Accepted, Live, Claim, Expired
  <2>2. origin'[k] = o
    BY <1>1, <1>2, <1>9
  <2> QED
    BY <2>1, <2>2
<1>10. CASE o # origin[old]
  <2>1. ASSUME NEW w \in Keys, origin[w] = o, Spare(w) PROVE origin'[w] = o /\ Spare(w)'
    <3>1. w # k /\ w # old
      BY <1>1, <1>10, <2>1 DEF Spare, Accepted, Live
    <3>2. keys'[w] = keys[w] /\ origin'[w] = origin[w]
      BY <1>1, <1>2, <3>1
    <3>3. \A q \in Requests : req'[q].pc = "retire" => req'[q].key # w
      BY <1>5, <1>6, <2>1, <3>1 DEF Spare
    <3> QED
      BY <1>1, <2>1, <3>2, <3>3 DEF Spare, Accepted, Live, Expired
  <2> QED
    BY <1>8, <2>1, SpareKept
<1> QED
  BY <1>9, <1>10

\* The last step of a rotation disables no spare key; a request that disables or deletes
\* a key disturbs its lineage.
LEMMA SwitchKeepsSpare ==
  ASSUME Struct, SpareInv, NEW r \in Requests,
         Delete(r) \/ Disable(r) \/ Enable(r) \/ Retire(r)
  PROVE  SpareInv'
<1> DEFINE old == req[r].key
<1>1. /\ keys \in [Keys -> Row]
      /\ req \in [Requests -> Request]
      /\ req[r].pc # "idle"
      /\ old \in Keys
  BY DEF Struct, TypeOK, Delete, Disable, Enable, Retire
<1>2. /\ UNCHANGED <<now, origin>>
      /\ req' = [req EXCEPT ![r] = Idle]
  BY DEF Delete, Disable, Enable, Retire, Finish
<1>3. \A q \in Requests : req'[q].pc = "retire" => req'[q] = req[q]
  BY <1>1, <1>2 DEF Idle
<1>4. /\ \A k \in Keys \ {old} : keys'[k] = keys[k]
      /\ keys'[old].expires = keys[old].expires
  BY <1>1 DEF Delete, Disable, Enable, Retire, SetEnabled, Row
<1>5. keys[old].status # "free"
  BY <1>1 DEF Struct, RequestInv
<1> SUFFICES ASSUME NEW o \in Keys, Claim(o)'
             PROVE  \E w \in Keys : origin'[w] = o /\ Spare(w)'
  BY DEF SpareInv
<1>6. Claim(o)
  <2>1. disturbed \subseteq disturbed'
    BY DEF Delete, Disable, Enable, Retire, Revoke
  <2> QED
    BY <1>2, <1>4, <1>5, <2>1 DEF Claim, Expired
<1>7. ASSUME NEW w \in Keys, origin[w] = o, Spare(w) PROVE origin'[w] = o /\ Spare(w)'
  <2>1. CASE w # old
    BY <1>2, <1>3, <1>4, <1>7, <2>1 DEF Spare, Accepted, Live, Expired
  <2>2. CASE w = old
    <3>1. ~Retire(r)
      BY <1>7, <2>2 DEF Retire, Spare
    <3>2. ~Delete(r) /\ ~Disable(r)
      BY <1>7, <2>2 DEF Delete, Disable, Revoke, Claim
    <3>3. Enable(r)
      BY <3>1, <3>2
    <3>4. keys'[w] = [keys[w] EXCEPT !.enabled = 1]
      BY <1>1, <1>7, <2>2, <3>3 DEF Enable, SetEnabled, Spare, Accepted
    <3>5. keys'[w].status = "live" /\ keys'[w].enabled = 1
      BY <1>1, <1>7, <3>4 DEF Spare, Accepted, Live, Row
    <3> QED
      BY <1>2, <1>3, <1>4, <1>7, <2>2, <3>5 DEF Spare, Accepted, Live, Expired
  <2> QED
    BY <2>1, <2>2
<1> QED
  BY <1>6, <1>7, SpareKept

LEMMA RequestKeepsSpare ==
  ASSUME NoneAssumption, Struct, SpareInv, NEW r \in Requests,
         \/ Reread(r) \/ Touch(r) \/ StatementFails(r)
         \/ \E k \in Keys : Begin(r, k) \/ Validate(r, k)
  PROVE  SpareInv'
<1>1. req \in [Requests -> Request] /\ keys \in [Keys -> Row]
  BY DEF Struct, TypeOK
<1>2. UNCHANGED <<now, keys, origin, disturbed>>
  BY DEF Reread, Touch, StatementFails, Validate, ghosts, Begin, BeginDelete,
     BeginDisable, BeginEnable, BeginRotate, FindOwn
<1>3. \A q \in Requests \ {r} : req'[q] = req[q]
  BY <1>1 DEF Reread, Touch, StatementFails, Validate, Start, Finish, Begin,
     BeginDelete, BeginDisable, BeginEnable, BeginRotate, FindOwn
<1>4. req'[r].pc # "retire"
  <2>1. CASE Touch(r) \/ StatementFails(r)
    BY <1>1, <2>1 DEF Touch, StatementFails, Finish, Idle
  <2>2. CASE Reread(r)
    <3>1. req[r].key \in Keys
      BY <2>2 DEF Reread, Struct, TypeOK
    <3> QED
      BY <1>1, <2>2, <3>1, RereadRequest DEF Idle
  <2>3. CASE \E k \in Keys : Begin(r, k) \/ Validate(r, k)
    <3>1. PICK k \in Keys, pc \in {"delete", "disable", "enable", "reread", "touch"} :
            Start(r, pc, k)
      BY <2>3 DEF Validate, Begin, BeginDelete, BeginDisable, BeginEnable, BeginRotate,
         FindOwn
    <3>2. req'[r].pc = pc
      BY <1>1, <3>1 DEF Start, Idle
    <3> QED
      BY <3>2
  <2> QED
    BY <2>1, <2>2, <2>3
<1> QED
  BY <1>2, <1>3, <1>4, SpareUntouched

\* The cleanup takes no spare key of a lineage that has not expired, and the clock only
\* takes claims away.
LEMMA EnvironmentKeepsSpare ==
  ASSUME Struct, SpareInv, Cleanup \/ Crash \/ Tick
  PROVE  SpareInv'
<1>1. CASE Crash
  <2>1. \A q \in Requests : req'[q].pc # "retire"
    BY <1>1 DEF Crash, Idle
  <2>2. UNCHANGED <<now, keys, origin, disturbed>>
    BY <1>1 DEF Crash, ghosts
  <2> QED
    BY <2>1, <2>2, SpareUntouched
<1>2. CASE Cleanup
  <2>1. UNCHANGED <<now, req, origin, disturbed>>
    BY <1>2 DEF Cleanup, ghosts
  <2>2. keys \in [Keys -> Row]
    BY DEF Struct, TypeOK
  <2>3. \A k \in Keys : /\ keys'[k].expires = keys[k].expires
                        /\ keys'[k].status = "free" <=> keys[k].status = "free"
                        /\ ~IsCleaned(k) => keys'[k] = keys[k]
    BY <1>2, <2>2, CleanedRows
  <2> SUFFICES ASSUME NEW o \in Keys, Claim(o)'
               PROVE  \E w \in Keys : origin'[w] = o /\ Spare(w)'
    BY DEF SpareInv
  <2>4. Claim(o)
    BY <2>1, <2>3 DEF Claim, Expired
  <2>5. ASSUME NEW w \in Keys, origin[w] = o, Spare(w) PROVE origin'[w] = o /\ Spare(w)'
    <3>1. ~IsCleaned(w)
      BY <2>5 DEF Spare, Accepted, Expired, IsCleaned
    <3> QED
      BY <2>1, <2>3, <2>5, <3>1 DEF Spare, Accepted, Live, Expired
  <2> QED
    BY <2>4, <2>5, SpareKept
<1>3. CASE Tick
  <2>1. UNCHANGED <<keys, req, origin, disturbed>> /\ now' = now + 1 /\ now \in Nat
    BY <1>3 DEF Tick, ghosts, Struct, TypeOK
  <2>2. keys \in [Keys -> Row] /\ origin \in [Keys -> Keys]
    BY DEF Struct, TypeOK
  <2> SUFFICES ASSUME NEW o \in Keys, Claim(o)'
               PROVE  \E w \in Keys : origin'[w] = o /\ Spare(w)'
    BY DEF SpareInv
  <2>3. keys[o].expires \in Nat \cup {Never}
    BY <2>2 DEF Row, Time
  <2>4. Claim(o)
    BY <2>1, <2>3 DEF Claim, Expired
  <2>5. ASSUME NEW w \in Keys, origin[w] = o, Spare(w) PROVE origin'[w] = o /\ Spare(w)'
    <3>1. keys[w].expires = keys[o].expires
      BY <2>5 DEF Struct, LineageInv, Spare, Accepted, Live
    <3>2. ~Expired(keys[w].expires)'
      BY <2>1, <3>1 DEF Claim, Expired
    <3> QED
      BY <2>1, <2>5, <3>2 DEF Spare, Accepted, Live
  <2> QED
    BY <2>4, <2>5, SpareKept
<1> QED
  BY <1>1, <1>2, <1>3

LEMMA StepIInv == IInv /\ [Next]_vars => IInv'
<1> SUFFICES ASSUME Struct, SpareInv, [Next]_vars PROVE SpareInv'
  BY StructStep DEF IInv
<1>1. CASE UNCHANGED vars
  BY <1>1, SpareUntouched DEF vars
<1>2. CASE Next
  <2>1. CASE \E k \in Keys : Unauthorized(k)
    BY <1>1, <2>1 DEF Unauthorized
  <2> QED
    BY <1>2, <2>1, NoneAssumption, CreateKeepsSpare, SuccessorIsSpare, SwitchKeepsSpare,
       RequestKeepsSpare, EnvironmentKeepsSpare DEF Next
<1> QED
  BY <1>1, <1>2

LEMMA Invariance == Spec => []IInv
<1>1. Init => IInv
  BY InitIInv
<1>2. IInv /\ [Next]_vars => IInv'
  BY StepIInv
<1> QED
  BY <1>1, <1>2, PTL DEF Spec

\* Every reachable state is well typed, and a rotation's last step has its successor in
\* the table.
THEOREM TypeCorrect == Spec => []TypeOK
<1>1. IInv => TypeOK
  BY DEF IInv, Struct
<1> QED
  BY Invariance, <1>1, PTL

\* A key that was deleted, disabled or rotated away is not accepted again before a request
\* has enabled it.
THEOREM RevokedForGood == Spec => []RevokedStaysOff
<1>1. IInv => RevokedStaysOff
  BY DEF IInv, Struct, RevokedInv, RevokedStaysOff, Accepted
<1> QED
  BY Invariance, <1>1, PTL

\* No sequence of rotations outlives the first key of its lineage.
THEOREM NoExtension == Spec => []RotationNeverExtends
<1>1. IInv => RotationNeverExtends
  BY DEF IInv, Struct, LineageInv, RotationNeverExtends, Accepted, Live
<1> QED
  BY Invariance, <1>1, PTL

\* An owner who only rotates always has a key that is accepted.
THEOREM NeverLockedOut == Spec => []RotationNeverLocksOut
<1>1. IInv => RotationNeverLocksOut
  BY DEF IInv, SpareInv, Claim, Spare, RotationNeverLocksOut
<1> QED
  BY Invariance, <1>1, PTL

\* The cleanup never takes a key that would be accepted.
THEOREM CleanupIsSparing == Spec => CleanupSparesValid
<1>1. ASSUME Struct, [Next]_vars, NEW k \in Keys, Accepted(k), keys'[k].status = "gone"
      PROVE  k \in revoked'
  <2>1. keys \in [Keys -> Row]
    BY <1>1 DEF Struct, TypeOK
  <2>2. keys' # keys
    BY <1>1 DEF Accepted, Live
  <2>3. CASE Cleanup
    <3>1. ~IsCleaned(k)
      BY <1>1 DEF Accepted, Expired, IsCleaned
    <3> QED
      BY <1>1, <2>1, <2>3, <3>1, CleanedRows DEF Accepted, Live
  <2>4. CASE \E j \in Keys : CreateKey(j) \/ \E r \in Requests : InsertSuccessor(r, j)
    BY <1>1, <2>1, <2>4 DEF CreateKey, InsertSuccessor, Insert, Accepted, Live
  <2>5. ASSUME NEW r \in Requests, Disable(r) \/ Enable(r) \/ Retire(r) PROVE FALSE
    BY <1>1, <2>1, <2>5 DEF Disable, Enable, Retire, SetEnabled, Accepted, Live, Row
  <2>6. ASSUME NEW r \in Requests, Delete(r) PROVE k \in revoked'
    BY <1>1, <2>1, <2>6 DEF Delete, Revoke, Accepted, Live
  <2> QED
    BY <1>1, <2>2, <2>3, <2>4, <2>5, <2>6
       DEF Next, vars, Unauthorized, Begin, BeginDelete, BeginDisable, BeginEnable,
           BeginRotate, FindOwn, Validate, Reread, Touch, StatementFails,
           Crash, Tick
<1>2. Struct /\ [Next]_vars =>
        [\A k \in Keys : Accepted(k) /\ keys'[k].status = "gone" => k \in revoked']_vars
  BY <1>1
<1>3. IInv => Struct
  BY DEF IInv
<1> QED
  BY Invariance, <1>2, <1>3, PTL DEF Spec, CleanupSparesValid
=============================================================================
