----------------------------- MODULE ShutdownProofs -----------------------------
(***************************************************************************)
(* What holds of a shutdown for any number of requests and statements.     *)
(* The argument follows the two goroutines: how far main has come says     *)
(* whether a request can have been accepted and whether the database is    *)
(* open (MainInv), how far the handler has come says what has been         *)
(* announced, closed and drained (HandlerInv), and a request can only be   *)
(* lost between the two (LossAnnounced).                                   *)
(***************************************************************************)
EXTENDS Shutdown, TLAPS

NoneAccepted == \A q \in Requests : req[q] = "new"

MainInv ==
  /\ main \notin {"serving", "returning", "return"} => NoneAccepted /\ door # "open"
  /\ main = "serving" => door # "new"
  /\ main \in {"returning", "return"} => door = "closed"
  /\ main \in {"setup", "register", "listen", "serving"} => db = "open" \/ shuttingDown

HandlerInv ==
  /\ handler = "off" => main \in {"open", "setup", "fail"}
  /\ main \in {"open", "setup"} => handler = "off"
  /\ handler \notin {"off", "waiting"} => shuttingDown
  /\ door = "closed" <=> handler \in {"drain", "children", "remove", "exit"}
  /\ handler \in {"children", "remove", "exit"} => timedOut \/ Running = {}
  /\ ~pidFile => handler = "exit"

IInv == TypeOK /\ MainInv /\ HandlerInv /\ LossAnnounced

-----------------------------------------------------------------------------

LEMMA InitIInv == Init => IInv
<1> SUFFICES ASSUME Init PROVE IInv
  OBVIOUS
<1> USE DEF Init, SignalKind
<1>1. left \in [Requests -> 0 .. Statements]
  BY StatementsAssumption
<1>2. TypeOK
  BY <1>1 DEF TypeOK, Main, Handler, Outcome
<1>3. NoneAccepted /\ MainInv /\ LossAnnounced
  BY DEF NoneAccepted, MainInv, LossAnnounced
<1>4. HandlerInv
  BY DEF HandlerInv
<1> QED
  BY <1>2, <1>3, <1>4 DEF IInv

\* A step of the main goroutine closes the database and ends the process only when no
\* request was ever accepted or the shutdown has been announced.
LEMMA MainKeepsIInv ==
  ASSUME IInv, MainStep
  PROVE  IInv'
<1> USE DEF IInv, TypeOK, Main, Handler, Outcome, SignalKind, NoneAccepted, MainInv, HandlerInv,
            LossAnnounced, Running, MainGoes, signals, resources, outcome
<1>1. CASE OpenDatabase
  BY <1>1 DEF OpenDatabase
<1>2. CASE StartFails
  BY <1>2 DEF StartFails
<1>3. CASE Setup
  BY <1>3 DEF Setup
<1>4. CASE OnShutdown
  BY <1>4 DEF OnShutdown
<1>5. CASE Listen
  BY <1>5 DEF Listen
<1>6. CASE ListenFails
  BY <1>6 DEF ListenFails
<1>7. CASE ServerClosed
  BY <1>7 DEF ServerClosed
<1>8. CASE DeferredClose
  BY <1>8 DEF DeferredClose
<1>9. CASE MainEnds
  BY <1>9 DEF MainEnds, Exit
<1> QED
  BY <1>1, <1>2, <1>3, <1>4, <1>5, <1>6, <1>7, <1>8, <1>9 DEF MainStep

\* Every step of the handler after the first comes after the announcement.
LEMMA HandlerKeepsIInv ==
  ASSUME IInv, HandlerStep
  PROVE  IInv'
<1> USE DEF IInv, TypeOK, Main, Handler, Outcome, SignalKind, NoneAccepted, MainInv, HandlerInv,
            LossAnnounced, Running, HandlerGoes, signals, resources, outcome
<1>1. CASE Receive
  BY <1>1 DEF Receive
<1>10. CASE ReceiveUsr
  BY <1>10 DEF ReceiveUsr
<1>2. CASE CopyCallbacks
  BY <1>2 DEF CopyCallbacks
<1>3. CASE RunCallback
  BY <1>3 DEF RunCallback
<1>4. CASE CloseDoor
  BY <1>4 DEF CloseDoor
<1>5. CASE Drained
  BY <1>5 DEF Drained
<1>6. CASE DrainTimesOut
  BY <1>6 DEF DrainTimesOut
<1>7. CASE StopChildren
  BY <1>7 DEF StopChildren
<1>8. CASE RemovePidFile
  BY <1>8, ZenonT(40) DEF RemovePidFile
<1>9. CASE HandlerExits
  BY <1>9 DEF HandlerExits, Exit
<1> QED
  BY <1>1, <1>2, <1>3, <1>4, <1>5, <1>6, <1>7, <1>8, <1>9, <1>10 DEF HandlerStep

\* A signal kills the process only before it has accepted anything.
LEMMA SignalKeepsIInv ==
  ASSUME IInv, NEW kind \in SignalKind, Signal(kind)
  PROVE  IInv'
<1> USE DEF IInv, TypeOK, Main, Handler, Outcome, SignalKind, NoneAccepted, MainInv, HandlerInv,
            LossAnnounced, Running, resources
<1>1. CASE handler = "off" /\ Exit("killed") /\ UNCHANGED pending
  <2>1. NoneAccepted
    BY <1>1
  <2>2. req' = req
    BY <1>1, <2>1 DEF Exit
  <2> QED
    BY <1>1, <2>2 DEF Signal, Exit
<1>2. CASE UNCHANGED <<req, exit>> /\ pending' = IF pending = "none" THEN kind ELSE pending
  BY <1>2 DEF Signal
<1> QED
  BY <1>1, <1>2 DEF Signal

\* A request starts while main serves; its statement fails only if the database is
\* closed, and then the shutdown has been announced.
LEMMA RequestKeepsIInv ==
  ASSUME StatementsAssumption, IInv, NEW q \in Requests, Accept(q) \/ Statement(q)
  PROVE  IInv'
<1> USE DEF IInv, TypeOK, Main, Handler, Outcome, SignalKind, NoneAccepted, MainInv, HandlerInv,
            LossAnnounced, Running, signals, resources
<1>1. CASE Accept(q)
  BY <1>1 DEF Accept
<1>2. CASE Statement(q)
  <2>1. req[q] = "running" /\ main \in {"serving", "returning", "return"}
    BY <1>2 DEF Statement
  <2>2. CASE left[q] = 0 /\ req' = [req EXCEPT ![q] = "answered"] /\ UNCHANGED left
    BY <1>2, <2>1, <2>2 DEF Statement
  <2>3. CASE left[q] > 0 /\ left' = [left EXCEPT ![q] = @ - 1] /\ UNCHANGED req
    <3>1. left' \in [Requests -> 0 .. Statements]
      BY <2>3, StatementsAssumption
    <3> QED
      BY <1>2, <2>3, <3>1 DEF Statement
  <2>4. CASE db = "closed" /\ req' = [req EXCEPT ![q] = "failed"] /\ UNCHANGED left
    <3>1. shuttingDown
      BY <2>1, <2>4
    <3> QED
      BY <1>2, <2>1, <2>4, <3>1 DEF Statement
  <2> QED
    BY <1>2, <2>2, <2>3, <2>4 DEF Statement
<1> QED
  BY <1>1, <1>2

LEMMA StepIInv == IInv /\ [Next]_vars => IInv'
<1> SUFFICES ASSUME IInv, [Next]_vars PROVE IInv'
  OBVIOUS
<1>1. CASE UNCHANGED vars
  BY <1>1 DEF IInv, TypeOK, NoneAccepted, MainInv, HandlerInv, LossAnnounced, Running,
              vars, signals, resources, outcome
<1>2. CASE Next
  BY <1>1, <1>2, StatementsAssumption, MainKeepsIInv, HandlerKeepsIInv,
     SignalKeepsIInv, RequestKeepsIInv DEF Next, Ended
<1> QED
  BY <1>1, <1>2

LEMMA Invariance == Spec => []IInv
  BY InitIInv, StepIInv, PTL DEF Spec

THEOREM TypeCorrect == Spec => []TypeOK
<1>1. IInv => TypeOK
  BY DEF IInv
<1> QED
  BY Invariance, <1>1, PTL

\* Neither /healthz nor /api/v1/healthz ever calls a server healthy whose database is not
\* open.
THEOREM HealthzIsHonest == Spec => []HealthzMeansUsable
<1>1. IInv => HealthzMeansUsable
  BY DEF IInv, MainInv, HealthzMeansUsable, healthHandler
<1> QED
  BY Invariance, <1>1, PTL

\* No request is lost before the shutdown is announced.
THEOREM LossIsAnnounced == Spec => []LossAnnounced
<1>1. IInv => LossAnnounced
  BY DEF IInv
<1> QED
  BY Invariance, <1>1, PTL

\* The PID file is there until the drain is over.
THEOREM PidFileGoesLast == Spec => []PidFileOutlivesRequests
<1>1. IInv => PidFileOutlivesRequests
  BY DEF IInv, HandlerInv, PidFileOutlivesRequests
<1> QED
  BY Invariance, <1>1, PTL
=================================================================================
