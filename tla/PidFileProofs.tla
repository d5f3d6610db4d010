----------------------------- MODULE PidFileProofs -----------------------------
(***************************************************************************)
(* When instances start one at a time, the PID file keeps them apart: for  *)
(* every set of PIDs, whatever crashes, stops and takes over a free PID.   *)
(* An instance may write the file only while nobody serves (NoRival), and  *)
(* it learns that from a file that names the server (FileNamesServer) and  *)
(* has not changed under it since, as long as the server is there          *)
(* (SeenServer).                                                           *)
(***************************************************************************)
EXTENDS PidFile, TLAPS

OneStarter == \A p, q \in Starting : p = q

\* Who has the PID file to itself.
Writing == {p \in Pids : pc[p] \in {"remove", "create", "fill"}}

NoRival == Writing # {} => Serving = {}

SeenServer ==
  \A p \in Pids, q \in Serving : pc[p] \in {"running", "ours"} => seen[p] = q

WriterHasFile == \A p \in Pids : pc[p] = "fill" => p \in writers

IInv ==
  /\ TypeOK
  /\ OneStarter
  /\ NoRival
  /\ FileNamesServer
  /\ SeenServer
  /\ WriterHasFile

-----------------------------------------------------------------------------

LEMMA InitIInv == Init => IInv
<1> SUFFICES ASSUME Init PROVE IInv
  OBVIOUS
<1> USE DEF Init
<1>1. TypeOK
  BY DEF TypeOK, PC
<1>2. Starting = {} /\ Serving = {} /\ Writing = {}
  BY DEF Starting, Serving, Writing
<1> QED
  BY <1>1, <1>2 DEF IInv, OneStarter, NoRival, FileNamesServer, SeenServer,
                    WriterHasFile

\* What the environment does to an instance only takes it away, or adds one that has
\* read nothing yet when no other is starting.
LEMMA EnvironmentKeepsIInv ==
  ASSUME ~Concurrent, IInv, NEW p \in Pids,
         \/ Launch(p) \/ LaunchOther(p) \/ OtherExits(p) \/ Crash(p) \/ Exit(p)
  PROVE  IInv'
<1> USE DEF IInv, TypeOK, PC, Starting, Serving, Writing, OneStarter, NoRival,
            FileNamesServer, SeenServer, WriterHasFile
<1>1. CASE Launch(p)
  BY <1>1 DEF Launch
<1>2. CASE LaunchOther(p)
  BY <1>2 DEF LaunchOther
<1>3. CASE OtherExits(p)
  BY <1>3 DEF OtherExits
<1>4. CASE Crash(p)
  BY <1>4 DEF Crash, Gone
<1>5. CASE Exit(p)
  BY <1>5 DEF Exit, Gone
<1> QED
  BY <1>1, <1>2, <1>3, <1>4, <1>5

\* A starting instance that looks at the file: it goes on to write only if the file
\* names no server, and then there is none.
LEMMA LookingKeepsIInv ==
  ASSUME NothingAssumption, IInv, NEW p \in Pids,
         ReadFile(p) \/ IsProcessRunning(p) \/ IsNotOurs(p) \/ Refuse(p)
  PROVE  IInv'
<1> USE DEF IInv, TypeOK, PC, Starting, Serving, Writing, OneStarter, NoRival,
            FileNamesServer, SeenServer, WriterHasFile, Goto
<1>1. CASE ReadFile(p)
  <2>1. CASE file = Nothing
    <3>1. pc' = [pc EXCEPT ![p] = "create"]
      BY <1>1, <2>1 DEF ReadFile
    <3>2. Serving = {}
      BY <2>1, NothingAssumption
    <3> QED
      BY <1>1, <2>1, <3>1, <3>2 DEF ReadFile
  <2>2. CASE file = Empty
    <3>1. pc' = [pc EXCEPT ![p] = "remove"]
      BY <1>1, <2>2, NothingAssumption DEF ReadFile
    <3>2. Serving = {}
      BY <2>2, NothingAssumption
    <3> QED
      BY <1>1, <2>2, <3>1, <3>2 DEF ReadFile
  <2>3. CASE file \in Pids
    <3>1. pc' = [pc EXCEPT ![p] = "running"]
      BY <1>1, <2>3, NothingAssumption DEF ReadFile
    <3> QED
      BY <1>1, <2>3, <3>1 DEF ReadFile
  <2> QED
    BY <2>1, <2>2, <2>3
<1>2. CASE IsProcessRunning(p)
  <2>1. CASE Goto(p, "running", "remove") /\ kind[seen[p]] # "ours"
    <3>1. pc' = [pc EXCEPT ![p] = "remove"]
      BY <2>1
    <3>2. Serving = {}
      BY <1>2, <2>1 DEF IsProcessRunning
    <3> QED
      BY <1>2, <3>1, <3>2 DEF IsProcessRunning
  <2>2. CASE Goto(p, "running", "ours") /\ kind[seen[p]] # "free"
    <3>1. pc' = [pc EXCEPT ![p] = "ours"]
      BY <2>2
    <3> QED
      BY <1>2, <3>1 DEF IsProcessRunning
  <2> QED
    BY <1>2, <2>1, <2>2 DEF IsProcessRunning
<1>3. CASE IsNotOurs(p)
  <2>1. Serving = {}
    BY <1>3 DEF IsNotOurs
  <2> QED
    BY <1>3, <2>1 DEF IsNotOurs
<1>4. CASE Refuse(p)
  BY <1>4 DEF Refuse
<1> QED
  BY <1>1, <1>2, <1>3, <1>4

\* A starting instance that writes: nobody serves, and nobody else has the file.
LEMMA WritingKeepsIInv ==
  ASSUME NothingAssumption, IInv, NEW p \in Pids,
         RemoveStale(p) \/ CreateFile(p) \/ FillFile(p)
  PROVE  IInv'
<1> USE DEF IInv, TypeOK, PC, Starting, Serving, Writing, OneStarter, NoRival,
            FileNamesServer, SeenServer, WriterHasFile, Goto
<1>1. p \in Starting /\ Serving = {} /\ \A q \in Starting : q = p
  BY DEF RemoveStale, CreateFile, FillFile
<1>2. CASE RemoveStale(p)
  BY <1>1, <1>2 DEF RemoveStale, Unlink
<1>3. CASE CreateFile(p)
  BY <1>1, <1>3 DEF CreateFile
<1>4. CASE FillFile(p)
  <2>1. Serving' = {p} /\ file' = p
    BY <1>1, <1>4 DEF FillFile
  <2> QED
    BY <1>1, <1>4, <2>1 DEF FillFile
<1> QED
  BY <1>2, <1>3, <1>4

\* A server that stops takes the file with it: it was its own, and nobody was writing.
LEMMA StoppingKeepsIInv ==
  ASSUME NothingAssumption, IInv, NEW p \in Pids, RemovePidFile(p)
  PROVE  IInv'
<1> USE DEF IInv, TypeOK, PC, Starting, Serving, Writing, OneStarter, NoRival,
            FileNamesServer, SeenServer, WriterHasFile, Goto
<1>1. Serving = {p} /\ Writing = {}
  BY DEF RemovePidFile
<1>2. Serving' = {}
  BY <1>1 DEF RemovePidFile
<1> QED
  BY <1>1, <1>2 DEF RemovePidFile, Unlink

LEMMA StepIInv == ASSUME ~Concurrent PROVE IInv /\ [Next]_vars => IInv'
<1> SUFFICES ASSUME IInv, [Next]_vars PROVE IInv'
  OBVIOUS
<1>1. CASE UNCHANGED vars
  BY <1>1 DEF IInv, TypeOK, Starting, Serving, Writing, OneStarter, NoRival,
              FileNamesServer, SeenServer, WriterHasFile, vars
<1>2. CASE Next
  BY <1>2, NothingAssumption, EnvironmentKeepsIInv, LookingKeepsIInv,
     WritingKeepsIInv, StoppingKeepsIInv DEF Next, Step
<1> QED
  BY <1>1, <1>2

LEMMA Invariance == ASSUME ~Concurrent PROVE Spec => []IInv
<1>1. IInv /\ [Next]_vars => IInv'
  BY StepIInv
<1> QED
  BY InitIInv, <1>1, PTL DEF Spec

\* While a server runs the PID file names it, so long as starts do not overlap.
THEOREM ServerIsNamed == ASSUME ~Concurrent PROVE Spec => []FileNamesServer
<1>1. IInv => FileNamesServer
  BY DEF IInv
<1> QED
  BY Invariance, <1>1, PTL
================================================================================
