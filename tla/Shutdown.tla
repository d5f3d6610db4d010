------------------------------- MODULE Shutdown -------------------------------
(***************************************************************************)
(* One server process from the start of server.Start to its end: the main  *)
(* goroutine (server/server.go), the goroutine that handles signals        *)
(* (signal/signal.go, signal/signal_unix.go), and the requests in flight.  *)
(*                                                                         *)
(* http.Server is modelled from its use: Shutdown closes the listener,     *)
(* which makes ListenAndServe return in the main goroutine, and then waits *)
(* for the requests in flight.  When main returns, the process is over,    *)
(* whatever the other goroutines are doing.  Closing the database lets a   *)
(* statement that has started finish and fails the later ones.  The PID    *)
(* file has been written before Init; PidFile models how.  No code         *)
(* registers a child process, so stopChildProcesses returns at once.       *)
(* The platform is Unix.                                                   *)
(***************************************************************************)
EXTENDS Naturals

CONSTANTS
  Requests,    \* requests that may arrive
  Statements   \* database statements of a request

ASSUME StatementsAssumption == Statements \in Nat \ {0}

VARIABLES
  main,         \* where the main goroutine is
  handler,      \* where the signal goroutine is
  pending,      \* sigChan, a buffer of one signal: "none" or the kind of the one in it
  shuttingDown, \* isShuttingDown
  registered,   \* whether shutdownCallbacks holds the database's callback
  db,           \* the database: "none", "open" or "closed"
  door,         \* http.Server: "new", "open" (listening) or "closed"
  pidFile,      \* whether the PID file is there
  req,          \* what has become of each request
  left,         \* the statements each request still has to run
  exit,         \* how the process ended, "none" while it runs
  timedOut      \* ghost: whether the 30 seconds of the drain ran out

signals == <<handler, pending, shuttingDown, registered>>
resources == <<db, door, pidFile>>
outcome == <<req, left, exit, timedOut>>
vars == <<main, signals, resources, outcome>>

Main == {"open", "setup", "register", "listen", "serving", "returning", "failing",
         "return", "fail"}
Handler == {"off", "waiting", "callbacks", "close", "shutdown", "drain", "children",
            "remove", "exit"}
\* "terminate" is SIGTERM, SIGINT, SIGQUIT or SIGRTMIN+3, "log" is SIGUSR1 or SIGUSR2.
SignalKind == {"terminate", "log"}
Outcome == {"new", "running", "answered", "failed", "cut"}

Init ==
  /\ main = "open"
  /\ handler = "off"
  /\ pending = "none"
  /\ shuttingDown = FALSE
  /\ registered = FALSE
  /\ db = "none"
  /\ door = "new"
  /\ pidFile = TRUE
  /\ req = [q \in Requests |-> "new"]
  /\ left = [q \in Requests |-> Statements]
  /\ exit = "none"
  /\ timedOut = FALSE

-----------------------------------------------------------------------------
(* Helpers *)

\* The process ends, and with it every request that still runs.
Exit(code) ==
  /\ exit' = code
  /\ req' = [q \in Requests |-> IF req[q] = "running" THEN "cut" ELSE req[q]]

Running == {q \in Requests : req[q] = "running"}

MainGoes(from, to) == exit = "none" /\ main = from /\ main' = to

HandlerGoes(from, to) == exit = "none" /\ handler = from /\ handler' = to

-----------------------------------------------------------------------------
(* Start, in the main goroutine *)

OpenDatabase ==
  /\ MainGoes("open", "setup")
  /\ db' = "open"
  /\ UNCHANGED <<signals, door, pidFile, outcome>>

\* crypto.New, database.Open or GetJWTSecret fails: main exits with status 1.
StartFails ==
  /\ MainGoes("open", "fail")
  /\ UNCHANGED <<signals, resources, outcome>>

\* Mutant: the server listens without its signal handler.
SetupForgotten ==
  /\ MainGoes("setup", "register")
  /\ UNCHANGED <<signals, resources, outcome>>

Setup ==
  /\ MainGoes("setup", "register")
  /\ handler' = "waiting"
  /\ UNCHANGED <<pending, shuttingDown, registered, resources, outcome>>

OnShutdown ==
  /\ MainGoes("register", "listen")
  /\ registered' = TRUE
  /\ UNCHANGED <<handler, pending, shuttingDown, resources, outcome>>

\* The listener is open.
Listen ==
  /\ MainGoes("listen", "serving")
  /\ door = "new"
  /\ door' = "open"
  /\ UNCHANGED <<signals, db, pidFile, outcome>>

\* The address is taken.
ListenFails ==
  /\ MainGoes("listen", "failing")
  /\ door = "new"
  /\ UNCHANGED <<signals, resources, outcome>>

\* ErrServerClosed: Shutdown has been called.
ServerClosed ==
  /\ exit = "none"
  /\ main \in {"listen", "serving"}
  /\ door = "closed"
  /\ main' = "returning"
  /\ UNCHANGED <<signals, resources, outcome>>

\* "defer db.Close()" as Start returns.
DeferredClose ==
  /\ MainGoes("returning", "return") \/ MainGoes("failing", "fail")
  /\ db' = "closed"
  /\ UNCHANGED <<signals, door, pidFile, outcome>>

\* main returns, or calls os.Exit(1).
MainEnds ==
  /\ exit = "none"
  /\ \/ main = "return" /\ Exit("ok")
     \/ main = "fail" /\ Exit("error")
  /\ UNCHANGED <<main, signals, resources, left, timedOut>>

MainStep ==
  \/ OpenDatabase \/ StartFails \/ Setup \/ OnShutdown \/ Listen \/ ListenFails
  \/ ServerClosed \/ DeferredClose \/ MainEnds

-----------------------------------------------------------------------------
(* Signals, and gracefulShutdown in the signal goroutine *)

\* A signal is fatal before Setup.  After it, it is kept in sigChan, or lost if another
\* one, of whatever kind, has not been read yet.
Signal(kind) ==
  /\ exit = "none"
  /\ \/ handler = "off" /\ Exit("killed") /\ UNCHANGED pending
     \/ /\ handler # "off"
        /\ pending' = IF pending = "none" THEN kind ELSE pending
        /\ UNCHANGED <<req, exit>>
  /\ UNCHANGED <<main, handler, shuttingDown, registered, resources, left, timedOut>>

\* reopenLogs and dumpStatus only log, and the loop goes on.
ReceiveUsr ==
  /\ HandlerGoes("waiting", "waiting")
  /\ pending = "log"
  /\ pending' = "none"
  /\ UNCHANGED <<main, shuttingDown, registered, resources, outcome>>

\* "Set shutdown flag for health checks"
Receive ==
  /\ HandlerGoes("waiting", "callbacks")
  /\ pending = "terminate"
  /\ pending' = "none"
  /\ shuttingDown' = TRUE
  /\ UNCHANGED <<main, registered, resources, outcome>>

\* runShutdownCallbacks copies the callbacks registered so far.
CopyCallbacks ==
  /\ HandlerGoes("callbacks", IF registered THEN "close" ELSE "shutdown")
  /\ UNCHANGED <<main, pending, shuttingDown, registered, resources, outcome>>

\* Mutant: the callback waits for the requests before it closes the database.
RunCallbackPatiently ==
  /\ HandlerGoes("close", "shutdown")
  /\ Running = {}
  /\ db' = "closed"
  /\ UNCHANGED <<main, pending, shuttingDown, registered, door, pidFile, outcome>>

\* "Closing database..."
RunCallback ==
  /\ HandlerGoes("close", "shutdown")
  /\ db' = "closed"
  /\ UNCHANGED <<main, pending, shuttingDown, registered, door, pidFile, outcome>>

\* server.Shutdown: "Stop accepting new connections"
CloseDoor ==
  /\ HandlerGoes("shutdown", "drain")
  /\ door' = "closed"
  /\ UNCHANGED <<main, pending, shuttingDown, registered, db, pidFile, outcome>>

\* Mutant: Shutdown does not wait.
DrainedAtOnce ==
  /\ HandlerGoes("drain", "children")
  /\ UNCHANGED <<main, pending, shuttingDown, registered, resources, outcome>>

\* "wait for in-flight requests"
Drained ==
  /\ HandlerGoes("drain", "children")
  /\ Running = {}
  /\ UNCHANGED <<main, pending, shuttingDown, registered, resources, outcome>>

DrainTimesOut ==
  /\ HandlerGoes("drain", "children")
  /\ Running # {}
  /\ timedOut' = TRUE
  /\ UNCHANGED <<main, pending, shuttingDown, registered, resources, req, left, exit>>

\* stopChildProcesses, and the pause to flush the logs.
StopChildren ==
  /\ HandlerGoes("children", "remove")
  /\ UNCHANGED <<main, pending, shuttingDown, registered, resources, outcome>>

RemovePidFile ==
  /\ HandlerGoes("remove", "exit")
  /\ pidFile' = FALSE
  /\ UNCHANGED <<main, pending, shuttingDown, registered, db, door, outcome>>

HandlerExits ==
  /\ exit = "none"
  /\ handler = "exit"
  /\ Exit("ok")
  /\ UNCHANGED <<main, signals, resources, left, timedOut>>

HandlerStep ==
  \/ ReceiveUsr \/ Receive \/ CopyCallbacks \/ RunCallback \/ CloseDoor \/ Drained \/ DrainTimesOut
  \/ StopChildren \/ RemovePidFile \/ HandlerExits

-----------------------------------------------------------------------------
(* What the health checks answer while the door is open *)

\* GET /api/health does not look at the flag.
healthCheck == "healthy"

\* /healthz and /api/v1/healthz.
healthHandler == IF shuttingDown THEN "shutting_down" ELSE "healthy"

-----------------------------------------------------------------------------
(* Requests *)

Accept(q) ==
  /\ exit = "none"
  /\ door = "open"
  /\ req[q] = "new"
  /\ req' = [req EXCEPT ![q] = "running"]
  /\ UNCHANGED <<main, signals, resources, left, exit, timedOut>>

\* Mutant: one statement after the last.
StatementTooMany(q) ==
  /\ req[q] = "running"
  /\ \/ left[q] <= 0 /\ req' = [req EXCEPT ![q] = "answered"] /\ UNCHANGED left
     \/ db = "open" /\ left' = [left EXCEPT ![q] = @ - 1] /\ UNCHANGED req
  /\ UNCHANGED <<main, signals, resources, exit, timedOut>>

\* The next statement of a request, or its end.
Statement(q) ==
  /\ req[q] = "running"
  /\ \/ /\ left[q] = 0
        /\ req' = [req EXCEPT ![q] = "answered"]
        /\ UNCHANGED left
     \/ /\ left[q] > 0
        /\ db = "open"
        /\ left' = [left EXCEPT ![q] = @ - 1]
        /\ UNCHANGED req
     \/ /\ left[q] > 0
        /\ db = "closed"
        /\ req' = [req EXCEPT ![q] = "failed"]
        /\ UNCHANGED left
  /\ UNCHANGED <<main, signals, resources, exit, timedOut>>

Ended == exit # "none" /\ UNCHANGED vars

Next ==
  \/ MainStep
  \/ HandlerStep
  \/ \E kind \in SignalKind : Signal(kind)
  \/ \E q \in Requests : Accept(q) \/ Statement(q)
  \/ Ended

Spec == Init /\ [][Next]_vars

\* Both goroutines are scheduled.  Nothing is assumed of the requests.
FairSpec == Spec /\ WF_vars(MainStep) /\ WF_vars(HandlerStep)

-----------------------------------------------------------------------------
(* Properties *)

\* Each variable has its type.
TypeOK ==
  /\ main \in Main
  /\ handler \in Handler
  /\ pending \in SignalKind \cup {"none"}
  /\ shuttingDown \in BOOLEAN
  /\ registered \in BOOLEAN
  /\ db \in {"none", "open", "closed"}
  /\ door \in {"new", "open", "closed"}
  /\ pidFile \in BOOLEAN
  /\ req \in [Requests -> Outcome]
  /\ left \in [Requests -> 0 .. Statements]
  /\ exit \in {"none", "ok", "error", "killed"}
  /\ timedOut \in BOOLEAN

\* An answer "healthy" of /healthz or /api/v1/healthz tells the truth: whoever reaches the
\* server and is told so has a server with its database open, from the first connection
\* to the last.  GET /api/health makes no such promise (healthCheck).
HealthzMeansUsable == door = "open" /\ healthHandler = "healthy" => db = "open"

\* No request is failed by the closed database or cut off by the end of the process
\* before the flag is set that /healthz and /api/v1/healthz report.
LossAnnounced == (\E q \in Requests : req[q] \in {"failed", "cut"}) => shuttingDown

\* The PID file is removed last: while it is gone, no request runs, unless the drain
\* gave up on it, and no new one can come.
PidFileOutlivesRequests == ~pidFile => door = "closed" /\ (timedOut \/ Running = {})

\* "Graceful shutdown": a terminating signal that has found room in sigChan ends the
\* process, even if a request never finishes.  One that has found it full is lost.
SignalEnds == (pending = "terminate" ~> exit # "none")

\* "wait for in-flight requests": a shutdown whose drain did not time out cuts off no
\* request.
NoRequestCut == exit = "ok" /\ ~timedOut => \A q \in Requests : req[q] # "cut"
===============================================================================
