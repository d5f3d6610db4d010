-------------------------------- MODULE PidFile --------------------------------
(***************************************************************************)
(* The PID file, and the processes of one machine that start, serve, stop  *)
(* and crash around it (pid/pid.go, pid/pid_unix.go, and the last steps of *)
(* signal/signal.go).  The operating system gives a process any PID that   *)
(* is free, to an instance of this program or to another program.          *)
(*                                                                         *)
(* WritePIDFile reads the file, probes the process it names twice, removes *)
(* the file, and creates it again: each is a step of its own, and nothing  *)
(* locks the file.  What a process writes goes to the file it has created  *)
(* or truncated, even if another process has unlinked that file since.     *)
(* The crash of an instance stands for every end that leaves its file      *)
(* behind: kill -9, an error after WritePIDFile, and main returning before *)
(* the signal handler is done (Shutdown).                                  *)
(***************************************************************************)
EXTENDS Naturals

CONSTANTS
  Pids,        \* process identifiers
  Nothing,     \* no file
  Empty,       \* a file without a PID in it
  Concurrent   \* whether two instances may be starting at once

ASSUME NothingAssumption == {Nothing, Empty} \cap Pids = {} /\ Nothing # Empty
ASSUME ConcurrentAssumption == Concurrent \in BOOLEAN

VARIABLES
  file,    \* the PID file: Nothing, Empty or the PID in it
  writers, \* the processes whose open descriptor is of that file
  kind,    \* each PID: "free", "ours" (an instance), "other" (another program)
  pc,      \* where each instance is
  seen     \* the PID each starting instance read from the file

vars == <<file, writers, kind, pc, seen>>

PC == {"none", "read", "running", "ours", "remove", "create", "fill", "serve",
       "stopped", "refused"}

Starting == {p \in Pids : pc[p] \in {"read", "running", "ours", "remove", "create", "fill"}}
Serving == {p \in Pids : pc[p] = "serve"}

Init ==
  /\ file = Nothing
  /\ writers = {}
  /\ kind = [p \in Pids |-> "free"]
  /\ pc = [p \in Pids |-> "none"]
  /\ seen = [p \in Pids |-> Nothing]

-----------------------------------------------------------------------------
(* Helpers *)

Goto(p, from, to) ==
  /\ pc[p] = from
  /\ pc' = [pc EXCEPT ![p] = to]

\* A process is gone, and its PID is free.
Gone(p) ==
  /\ kind' = [kind EXCEPT ![p] = "free"]
  /\ pc' = [pc EXCEPT ![p] = "none"]
  /\ seen' = [seen EXCEPT ![p] = Nothing]
  /\ writers' = writers \ {p}

\* os.Remove: the descriptors that are open are of no file any more.
Unlink == file' = Nothing /\ writers' = {}

-----------------------------------------------------------------------------
(* The operating system *)

Launch(p) ==
  /\ kind[p] = "free"
  /\ Concurrent \/ Starting = {}
  /\ kind' = [kind EXCEPT ![p] = "ours"]
  /\ pc' = [pc EXCEPT ![p] = "read"]
  /\ UNCHANGED <<file, writers, seen>>

LaunchOther(p) ==
  /\ kind[p] = "free"
  /\ kind' = [kind EXCEPT ![p] = "other"]
  /\ UNCHANGED <<file, writers, pc, seen>>

OtherExits(p) ==
  /\ kind[p] = "other"
  /\ kind' = [kind EXCEPT ![p] = "free"]
  /\ UNCHANGED <<file, writers, pc, seen>>

Crash(p) ==
  /\ kind[p] = "ours"
  /\ Gone(p)
  /\ UNCHANGED file

-----------------------------------------------------------------------------
(* CheckPIDFile and WritePIDFile *)

\* "No PID file, not running"; "Corrupt PID file - remove it"; or a PID to probe.
ReadFile(p) ==
  /\ Goto(p, "read", CASE file = Nothing -> "create"
                       [] file = Empty   -> "remove"
                       [] file \in Pids  -> "running")
  /\ seen' = [seen EXCEPT ![p] = file]
  /\ UNCHANGED <<file, writers, kind>>

\* Mutant: a file that is there is taken to be stale, as if no process ran.
IsProcessRunningNever(p) ==
  /\ Goto(p, "running", "remove")
  /\ UNCHANGED <<file, writers, kind, seen>>

\* isProcessRunning: signal 0, which fails, too, when the process is another user's.  All
\* instances run as one user, or as root, so that theirs is another program.
IsProcessRunning(p) ==
  /\ \/ Goto(p, "running", "remove") /\ kind[seen[p]] # "ours"
     \/ Goto(p, "running", "ours") /\ kind[seen[p]] # "free"
  /\ UNCHANGED <<file, writers, kind, seen>>

\* isOurProcess: another program's PID, "remove stale file".
IsNotOurs(p) ==
  /\ Goto(p, "ours", "remove")
  /\ kind[seen[p]] = "other"
  /\ UNCHANGED <<file, writers, kind, seen>>

\* "already running", or no longer there to ask: "If we can't verify, assume it's ours".
Refuse(p) ==
  /\ Goto(p, "ours", "refused")
  /\ kind[seen[p]] # "other"
  /\ UNCHANGED <<file, writers, kind, seen>>

RemoveStale(p) ==
  /\ Goto(p, "remove", "create")
  /\ Unlink
  /\ UNCHANGED <<kind, seen>>

\* os.WriteFile creates or truncates the file ...
CreateFile(p) ==
  /\ Goto(p, "create", "fill")
  /\ file' = Empty
  /\ writers' = writers \cup {p}
  /\ UNCHANGED <<kind, seen>>

\* Mutant: the file stays open.
FillUnclosed(p) ==
  /\ Goto(p, "fill", "serve")
  /\ file' = IF p \in writers THEN p ELSE file
  /\ seen' = [seen EXCEPT ![p] = Nothing]
  /\ UNCHANGED <<writers, kind>>

\* Mutant: the PID is not written.
FillNothing(p) ==
  /\ Goto(p, "fill", "serve")
  /\ writers' = writers \ {p}
  /\ seen' = [seen EXCEPT ![p] = Nothing]
  /\ UNCHANGED <<file, kind>>

\* ... and then writes the PID to it.
FillFile(p) ==
  /\ Goto(p, "fill", "serve")
  /\ file' = IF p \in writers THEN p ELSE file
  /\ writers' = writers \ {p}
  /\ seen' = [seen EXCEPT ![p] = Nothing]
  /\ UNCHANGED kind

\* gracefulShutdown: "Remove PID file", whosever it is.
RemovePidFile(p) ==
  /\ Goto(p, "serve", "stopped")
  /\ Unlink
  /\ UNCHANGED <<kind, seen>>

Exit(p) ==
  /\ pc[p] \in {"stopped", "refused"}
  /\ Gone(p)
  /\ UNCHANGED file

Step(p) ==
  \/ ReadFile(p) \/ IsProcessRunning(p) \/ IsNotOurs(p) \/ Refuse(p) \/ RemoveStale(p)
  \/ CreateFile(p) \/ FillFile(p)

Next ==
  \E p \in Pids :
    \/ Launch(p) \/ LaunchOther(p) \/ OtherExits(p) \/ Crash(p)
    \/ Step(p) \/ RemovePidFile(p) \/ Exit(p)

Spec == Init /\ [][Next]_vars

-----------------------------------------------------------------------------
(* Properties *)

\* The types, which PIDs can be in the middle of what, and that only an instance that
\* is writing has the file open.
TypeOK ==
  /\ file \in Pids \cup {Nothing, Empty}
  /\ kind \in [Pids -> {"free", "ours", "other"}]
  /\ pc \in [Pids -> PC]
  /\ seen \in [Pids -> Pids \cup {Nothing, Empty}]
  /\ \A p \in Pids : pc[p] # "none" <=> kind[p] = "ours"
  /\ \A p \in Pids : pc[p] \in {"running", "ours"} => seen[p] \in Pids
  /\ writers \subseteq {p \in Pids : pc[p] = "fill"}

\* Whoever looks up the serving instance in the PID file finds it, so that no other
\* start, crash, stop or reuse of a PID ever makes a live instance's file disappear or
\* name somebody else.
FileNamesServer == \A p \in Serving : file = p
================================================================================
