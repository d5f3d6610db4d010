----------------------------- MODULE StartupProofs -----------------------------
(***************************************************************************)
(* A start keeps to the protocol of the PID file, and so inherits what     *)
(* PidFileProofs shows of it; from that, while starts do not overlap, no   *)
(* key that was used is ever replaced: whoever makes a key has the PID     *)
(* file, hence no competitor, and found no key.                            *)
(***************************************************************************)
EXTENDS Startup, PidFileProofs

KeyStage == {"key", "key create", "key write"}

EarlyStage == {"stat", "create", "write", "load"}

\* Where an instance is in the PID file's protocol at each stage of its start.
StageInv ==
  \A p \in Pids :
    /\ pc[p] = "none" <=> stage[p] = "none"
    /\ stage[p] \in EarlyStage => pc[p] = "read"
    /\ stage[p] \in KeyStage => pc[p] = "serve"
    /\ pc[p] = "serve" => stage[p] \in KeyStage \cup {"up"}

Types ==
  /\ config \in Config \cup {Nothing}
  /\ keyFile \in [KeyFiles -> Keys \cup {Nothing, Empty}]
  /\ stage \in [Pids -> Stage]
  /\ cfg \in [Pids -> Config \cup {Nothing}]
  /\ held \in [Pids -> [KeyFiles -> Keys \cup {Nothing}]]
  /\ edited \in BOOLEAN /\ torn \in BOOLEAN
  /\ used \in [KeyFiles -> SUBSET Keys]

\* An instance that has loaded the configuration has one that misses nothing; and the
\* file is whole unless somebody is writing it, or an editor or a crash came between.
ConfigInv ==
  /\ \A p \in Pids : stage[p] = "load" => config \in Config
  /\ \A p \in Pids : stage[p] \in KeyStage \cup {"pid", "up"} =>
       /\ cfg[p] \in Config
       /\ \A field \in Restored : cfg[p][field] # "zero"
       /\ ~edited /\ ~torn => cfg[p] = GetDefaults
  /\ ~edited /\ ~torn =>
       config \in {Nothing, GetDefaults} \/ \E p \in Pids : stage[p] = "write"

\* The server holds the keys that are in the files, and what it is about to write is a
\* file without a key.
KeyInv ==
  /\ \A p \in Pids : stage[p] \in KeyStage => held[p]["jwt"] = Nothing
  /\ \A p \in Pids : stage[p] \in {"key create", "key write"} => keyFile[Wanted(p)] \notin Keys
  /\ \A p \in Pids : stage[p] \notin KeyStage \cup {"up"} => held[p] = NoKeys
  /\ \A p \in Pids : stage[p] = "up" => \A f \in KeyFiles : held[p][f] \in Keys
  /\ \A p \in Serving, f \in KeyFiles : held[p][f] = Nothing \/ held[p][f] = keyFile[f]
  /\ KeyKept

-----------------------------------------------------------------------------
(* The composition *)

\* Every step of a start is a step of the PID file's protocol, or none.
LEMMA Simulates == [StartNext]_startVars => [Next]_vars
<1> SUFFICES ASSUME [StartNext]_startVars PROVE [Next]_vars
  OBVIOUS
<1>1. CASE UNCHANGED startVars
  BY <1>1 DEF startVars
<1>2. ASSUME NEW p \in Pids,
             StartLaunch(p) \/ StartCrash(p) \/ StartExit(p) \/ StartStops(p)
      PROVE  Next
  BY <1>2 DEF StartLaunch, StartCrash, StartExit, StartStops, Next
<1>3. ASSUME NEW p \in Pids, CheckPID(p) \/ WritePID(p)
      PROVE  Next
  BY <1>3 DEF CheckPID, WritePID, Next, Step
<1>4. ASSUME NEW p \in Pids,
             \/ Stat(p) \/ CreateConfig(p) \/ SaveConfig(p) \/ LoadConfig(p)
             \/ LoadKey(p) \/ GenerateKey(p) \/ CreateKeyFile(p)
             \/ (\E k \in Keys : WriteKey(p, k)) \/ (\E f \in KeyFiles : Use(p, f))
      PROVE  UNCHANGED vars
  BY <1>4 DEF Stat, CreateConfig, SaveConfig, LoadConfig, LoadKey, GenerateKey, CreateKeyFile,
     WriteKey, Use
<1>5. ASSUME NEW c \in AdminFiles, Edit(c)
      PROVE  UNCHANGED vars
  BY <1>5 DEF Edit
<1>6. ASSUME NEW p \in Pids, LaunchOther(p) \/ OtherExits(p)
      PROVE  Next
  BY <1>6 DEF Next
<1>7. QED
  BY <1>1, <1>2, <1>3, <1>4, <1>5, <1>6 DEF StartNext, StartStep

\* A start keeps to the PID file's protocol: Startup implements PidFile.
THEOREM StartImplementsPidFile == StartSpec => Spec
<1>1. StartInit => Init
  BY DEF StartInit
<1>2. QED
  BY <1>1, Simulates, PTL DEF StartSpec, Spec

LEMMA PidInvariance == ASSUME ~Concurrent PROVE StartSpec => []IInv
BY StartImplementsPidFile, Invariance, PTL

-----------------------------------------------------------------------------
(* Stages and types *)

LEMMA StageInit == StartInit => StageInv /\ Types /\ ConfigInv /\ KeyInv
<1> SUFFICES ASSUME StartInit PROVE StageInv /\ Types /\ ConfigInv /\ KeyInv
  OBVIOUS
<1> USE DEF StartInit, Init, NoKeys
<1>1. StageInv
  BY DEF StageInv, EarlyStage, KeyStage
<1>2. Types
  BY DEF Types, Stage
<1>3. ConfigInv
  BY DEF ConfigInv, KeyStage
<1>4. KeyInv
  BY DEF KeyInv, KeyStage, Serving, KeyKept
<1>5. QED
  BY <1>1, <1>2, <1>3, <1>4

LEMMA StageStep ==
  ASSUME TypeOK, Types, StageInv, [StartNext]_startVars
  PROVE  StageInv'
<1> USE DEF StageInv, EarlyStage, KeyStage, TypeOK, PC, Types
<1>1. CASE UNCHANGED startVars
  BY <1>1 DEF startVars, vars
<1>2. ASSUME NEW p \in Pids, StartLaunch(p) PROVE StageInv'
  BY <1>2 DEF StartLaunch, Launch, ToStage
<1>3. ASSUME NEW p \in Pids, StartCrash(p) \/ StartExit(p) PROVE StageInv'
  <2>1. pc' = [pc EXCEPT ![p] = "none"] /\ stage' = [stage EXCEPT ![p] = "none"]
    BY <1>3 DEF StartCrash, StartExit, Crash, Exit, Gone, Ends
  <2>2. QED
    BY <2>1
<1>4. ASSUME NEW p \in Pids,
             Stat(p) \/ CreateConfig(p) \/ SaveConfig(p) \/ LoadConfig(p)
      PROVE  StageInv'
  <2>1. UNCHANGED pc /\ stage[p] \in EarlyStage
    BY <1>4 DEF Stat, CreateConfig, SaveConfig, LoadConfig, ToStage, vars
  <2>2. pc[p] = "read"
    BY <2>1
  <2>3. PICK to \in (EarlyStage \cup {"pid"}) \ {"none"} : stage' = [stage EXCEPT ![p] = to]
    BY <1>4 DEF Stat, CreateConfig, SaveConfig, LoadConfig, ToStage
  <2>4. stage'[p] = to /\ \A q \in Pids \ {p} : stage'[q] = stage[q]
    BY <2>3
  <2>5. QED
    BY <2>1, <2>2, <2>4
<1>5. ASSUME NEW p \in Pids, CheckPID(p) PROVE StageInv'
  <2>1. /\ stage' = stage /\ stage[p] = "pid" /\ pc[p] # "none"
    BY <1>5 DEF CheckPID, ReadFile, IsProcessRunning, IsNotOurs, Refuse, RemoveStale,
                CreateFile, Goto
  <2>2. PICK to \in PC \ {"none", "serve"} : pc' = [pc EXCEPT ![p] = to]
    BY <1>5, NothingAssumption
       DEF CheckPID, ReadFile, IsProcessRunning, IsNotOurs, Refuse, RemoveStale, CreateFile, Goto
  <2>3. pc'[p] = to /\ \A q \in Pids \ {p} : pc'[q] = pc[q]
    BY <2>2
  <2>4. QED
    BY <2>1, <2>3
<1>6. ASSUME NEW p \in Pids, WritePID(p) PROVE StageInv'
  BY <1>6 DEF WritePID, FillFile, Goto, ToStage
<1>7. ASSUME NEW p \in Pids,
             \/ LoadKey(p) \/ GenerateKey(p) \/ CreateKeyFile(p)
             \/ \E k \in Keys : WriteKey(p, k)
      PROVE  StageInv'
  <2>1. UNCHANGED pc /\ stage[p] \in KeyStage
    BY <1>7 DEF LoadKey, GenerateKey, CreateKeyFile, WriteKey, ToStage, vars
  <2>2. PICK to \in KeyStage \cup {"up"} : stage' = [stage EXCEPT ![p] = to]
    BY <1>7 DEF LoadKey, GenerateKey, CreateKeyFile, WriteKey, ToStage, AfterKey
  <2>3. stage'[p] = to /\ \A q \in Pids \ {p} : stage'[q] = stage[q]
    BY <2>2
  <2>4. QED
    BY <2>1, <2>3
<1>8. ASSUME NEW p \in Pids, StartStops(p) PROVE StageInv'
  BY <1>8 DEF StartStops, RemovePidFile, Goto
<1>9. CASE UNCHANGED <<pc, stage>>
  BY <1>9
<1>10. QED
  BY <1>1, <1>2, <1>3, <1>4, <1>5, <1>6, <1>7, <1>8, <1>9
     DEF StartNext, StartStep, LaunchOther, OtherExits, Use, Edit, vars

LEMMA DefaultsType == /\ GetDefaults \in Config /\ EmptyFile \in Config
                      /\ \A c \in Config : applyDefaults(c) \in Config
BY DEF GetDefaults, EmptyFile, applyDefaults, Config

LEMMA TypesStep ==
  ASSUME Types, ConfigInv, KeyInv, [StartNext]_startVars
  PROVE  Types'
<1> USE DEF Types
<1>1. CASE UNCHANGED startVars
  BY <1>1 DEF startVars, files
<1>2. ASSUME NEW p \in Pids, StartLaunch(p) \/ CheckPID(p) \/ WritePID(p) \/ StartStops(p)
      PROVE  Types'
  BY <1>2 DEF StartLaunch, CheckPID, WritePID, StartStops, ToStage, Stage, files
<1>3. ASSUME NEW p \in Pids, StartCrash(p) \/ StartExit(p) PROVE Types'
  <2>1. /\ stage' = [stage EXCEPT ![p] = "none"] /\ cfg' = [cfg EXCEPT ![p] = Nothing]
        /\ held' = [held EXCEPT ![p] = NoKeys] /\ UNCHANGED <<config, keyFile, edited, used>>
    BY <1>3 DEF StartCrash, StartExit, Ends
  <2>2. torn' \in BOOLEAN
    BY <1>3 DEF StartCrash, StartExit
  <2>3. NoKeys \in [KeyFiles -> Keys \cup {Nothing}] /\ "none" \in Stage
    BY DEF NoKeys, Stage
  <2>4. QED
    BY <2>1, <2>2, <2>3
<1>4. ASSUME NEW p \in Pids, Stat(p) \/ CreateConfig(p) \/ SaveConfig(p) \/ LoadConfig(p)
      PROVE  Types'
  <2>1. CASE Stat(p)
    BY <2>1 DEF Stat, ToStage, Stage, files
  <2>2. CASE CreateConfig(p)
    BY <2>2, DefaultsType DEF CreateConfig, ToStage, Stage
  <2>3. CASE SaveConfig(p)
    BY <2>3, DefaultsType DEF SaveConfig, ToStage, Stage
  <2>4. CASE LoadConfig(p)
    BY <2>4, DefaultsType DEF LoadConfig, ToStage, Stage, ConfigInv
  <2>5. QED
    BY <1>4, <2>1, <2>2, <2>3, <2>4
<1>5. ASSUME NEW p \in Pids,
             \/ LoadKey(p) \/ GenerateKey(p) \/ CreateKeyFile(p)
             \/ \E k \in Keys : WriteKey(p, k)
      PROVE  Types'
  <2>1. Wanted(p) \in KeyFiles /\ AfterKey(p) \in Stage
    BY DEF Wanted, AfterKey, KeyFiles, Stage
  <2>2. CASE GenerateKey(p)
    BY <2>1, <2>2 DEF GenerateKey, ToStage, Stage, files
  <2>3. CASE CreateKeyFile(p)
    BY <2>1, <2>3 DEF CreateKeyFile, ToStage, Stage
  <2>4. CASE LoadKey(p) \/ \E k \in Keys : WriteKey(p, k)
    <3>1. PICK k \in Keys : held' = [held EXCEPT ![p] = [@ EXCEPT ![Wanted(p)] = k]]
      BY <2>4 DEF LoadKey, WriteKey
    <3>2. held' \in [Pids -> [KeyFiles -> Keys \cup {Nothing}]]
      BY <2>1, <3>1
    <3>3. keyFile' \in [KeyFiles -> Keys \cup {Nothing, Empty}]
      BY <2>1, <2>4 DEF LoadKey, WriteKey
    <3>4. stage' \in [Pids -> Stage] /\ UNCHANGED <<config, cfg, edited, torn, used>>
      BY <2>1, <2>4 DEF LoadKey, WriteKey, ToStage
    <3>5. QED
      BY <3>2, <3>3, <3>4
  <2>5. QED
    BY <1>5, <2>2, <2>3, <2>4
<1>6. ASSUME NEW p \in Pids, NEW f \in KeyFiles, Use(p, f)
      PROVE  Types'
  <2>1. held[p][f] \in Keys
    BY <1>6 DEF Use, KeyInv
  <2>2. QED
    BY <1>6, <2>1 DEF Use
<1>7. ASSUME NEW c \in AdminFiles, Edit(c) PROVE Types'
  BY <1>7, AdminFilesAssumption DEF Edit
<1>8. QED
  BY <1>1, <1>2, <1>3, <1>4, <1>5, <1>6, <1>7 DEF StartNext, StartStep, files

-----------------------------------------------------------------------------
(* The configuration *)

\* A stage change that leaves the configuration alone.
LEMMA ConfigKept ==
  ASSUME Types, ConfigInv, NEW p \in Pids, NEW to \in Stage,
         stage' = [stage EXCEPT ![p] = to], UNCHANGED <<config, cfg, edited, torn>>,
         stage[p] # "write", to = "load" => config \in Config,
         to \in KeyStage \cup {"pid", "up"} => stage[p] \in KeyStage \cup {"pid", "up"}
  PROVE  ConfigInv'
BY DEF Types, ConfigInv, KeyStage

LEMMA ConfigEnds ==
  ASSUME Types, ConfigInv, NEW p \in Pids, Ends(p), torn' = (torn \/ stage[p] = "write")
  PROVE  ConfigInv'
<1>1. \A q \in Pids \ {p} : stage'[q] = stage[q] /\ cfg'[q] = cfg[q]
  BY DEF Ends, Types
<1>2. stage'[p] = "none" /\ UNCHANGED <<config, edited>>
  BY DEF Ends, Types
<1>3. ~torn' => ~torn /\ stage[p] # "write"
  OBVIOUS
<1>4. QED
  BY <1>1, <1>2, <1>3 DEF ConfigInv, KeyStage

LEMMA ConfigStep ==
  ASSUME IInv, Types, StageInv, ConfigInv, [StartNext]_startVars
  PROVE  ConfigInv'
<1>1. CASE UNCHANGED startVars
  BY <1>1 DEF startVars, files, ConfigInv
<1>2. ASSUME NEW p \in Pids, StartLaunch(p) PROVE ConfigInv'
  BY <1>2, ConfigKept DEF StartLaunch, ToStage, Stage, KeyStage, files
<1>3. ASSUME NEW p \in Pids, StartCrash(p) PROVE ConfigInv'
  BY <1>3, ConfigEnds DEF StartCrash
<1>4. ASSUME NEW p \in Pids, StartExit(p) PROVE ConfigInv'
  <2>1. stage[p] # "write" /\ Ends(p) /\ torn' = torn
    BY <1>4 DEF StartExit, Exit, StageInv, EarlyStage
  <2>2. torn' = (torn \/ stage[p] = "write")
    BY <2>1 DEF Types
  <2>3. QED
    BY <2>1, <2>2, ConfigEnds
<1>5. ASSUME NEW p \in Pids, Stat(p) PROVE ConfigInv'
  <2>1. CASE config = Nothing
    BY <1>5, <2>1, ConfigKept DEF Stat, ToStage, Stage, KeyStage, files
  <2>2. CASE config # Nothing
    BY <1>5, <2>2, ConfigKept DEF Stat, ToStage, Stage, KeyStage, files, Types
  <2>3. QED
    BY <2>1, <2>2
<1>6. ASSUME NEW p \in Pids, CreateConfig(p) PROVE ConfigInv'
  <2>1. stage'[p] = "write" /\ \A q \in Pids \ {p} : stage'[q] = stage[q]
    BY <1>6 DEF CreateConfig, ToStage, Types
  <2>2. config' \in Config /\ UNCHANGED <<cfg, edited, torn>>
    BY <1>6, DefaultsType DEF CreateConfig
  <2>3. QED
    BY <2>1, <2>2 DEF ConfigInv, KeyStage
<1>7. \A field \in Restored : GetDefaults[field] = "default"
  BY DEF GetDefaults
<1>8. ASSUME NEW p \in Pids, SaveConfig(p) PROVE ConfigInv'
  <2>1. stage'[p] = "pid" /\ \A q \in Pids \ {p} : stage'[q] = stage[q] /\ cfg'[q] = cfg[q]
    BY <1>8 DEF SaveConfig, ToStage, Types
  <2>2. config' = GetDefaults /\ cfg'[p] = GetDefaults /\ UNCHANGED <<edited, torn>>
    BY <1>8 DEF SaveConfig, Types
  <2>3. cfg'[p] \in Config /\ \A field \in Restored : cfg'[p][field] # "zero"
    BY <2>2, <1>7, DefaultsType
  <2>4. ASSUME NEW q \in Pids, stage'[q] \in KeyStage \cup {"pid", "up"}
        PROVE  /\ cfg'[q] \in Config
               /\ \A field \in Restored : cfg'[q][field] # "zero"
               /\ ~edited' /\ ~torn' => cfg'[q] = GetDefaults
    BY <2>1, <2>2, <2>3, <2>4 DEF ConfigInv
  <2>5. config' \in Config /\ config' = GetDefaults
    BY <2>2, DefaultsType
  <2>6. QED
    BY <2>4, <2>5 DEF ConfigInv
<1>9. ASSUME NEW p \in Pids, LoadConfig(p) PROVE ConfigInv'
  <2>1. /\ stage[p] = "load" /\ stage'[p] = "pid" /\ cfg'[p] = applyDefaults(config)
        /\ \A q \in Pids \ {p} : stage'[q] = stage[q] /\ cfg'[q] = cfg[q]
        /\ UNCHANGED <<config, edited, torn>>
    BY <1>9 DEF LoadConfig, ToStage, Types
  <2>2. config \in Config
    BY <2>1 DEF ConfigInv
  <2>3. applyDefaults(config) \in Config
        /\ \A field \in Restored : applyDefaults(config)[field] # "zero"
    <3>1. DOMAIN config = Restored \cup LeftAsRead
      BY <2>2 DEF Config
    <3>2. ASSUME NEW field \in Restored
          PROVE  applyDefaults(config)[field] =
                   IF config[field] = "zero" THEN GetDefaults[field] ELSE config[field]
      BY <3>1 DEF applyDefaults
    <3>3. QED
      BY <2>2, <3>2, <1>7, DefaultsType
  <2>4. ~\E q \in Pids : stage[q] = "write"
    <3>1. ASSUME NEW q \in Pids, stage[q] = "write" PROVE FALSE
      <4>1. q \in Starting /\ p \in Starting
        BY <2>1, <3>1 DEF StageInv, EarlyStage, Starting
      <4>2. QED
        BY <2>1, <3>1, <4>1 DEF IInv, OneStarter
    <3>2. QED
      BY <3>1
  <2>5. ~edited /\ ~torn => config = GetDefaults
    BY <2>2, <2>4, ConfigAssumption DEF ConfigInv
  <2>6. applyDefaults(GetDefaults) = GetDefaults
    BY DEF applyDefaults, GetDefaults
  <2>7. QED
    BY <2>1, <2>2, <2>3, <2>5, <2>6 DEF ConfigInv, KeyStage
<1>10. ASSUME NEW p \in Pids, CheckPID(p) PROVE ConfigInv'
  BY <1>10 DEF CheckPID, files, ConfigInv
<1>11. ASSUME NEW p \in Pids, WritePID(p) PROVE ConfigInv'
  BY <1>11, ConfigKept DEF WritePID, ToStage, Stage, KeyStage, files
<1>12. ASSUME NEW p \in Pids,
              \/ LoadKey(p) \/ GenerateKey(p) \/ CreateKeyFile(p)
              \/ \E k \in Keys : WriteKey(p, k)
       PROVE  ConfigInv'
  <2>1. PICK to \in KeyStage \cup {"up"} : stage' = [stage EXCEPT ![p] = to]
    BY <1>12 DEF LoadKey, GenerateKey, CreateKeyFile, WriteKey, ToStage, AfterKey, KeyStage
  <2>2. stage[p] \in KeyStage /\ UNCHANGED <<config, cfg, edited, torn>>
    BY <1>12 DEF LoadKey, GenerateKey, CreateKeyFile, WriteKey, ToStage, KeyStage, files
  <2>3. to \in Stage /\ to # "load" /\ stage[p] # "write"
    BY <2>1, <2>2 DEF KeyStage, Stage
  <2>4. QED
    BY <2>1, <2>2, <2>3, ConfigKept
<1>13. ASSUME NEW c \in AdminFiles, Edit(c) PROVE ConfigInv'
  BY <1>13, AdminFilesAssumption DEF Edit, ConfigInv
<1>14. CASE UNCHANGED <<stage, config, cfg, edited, torn>>
  BY <1>14 DEF ConfigInv
<1>15. QED
  BY <1>1, <1>2, <1>3, <1>4, <1>5, <1>6, <1>8, <1>9, <1>10, <1>11, <1>12, <1>13, <1>14
     DEF StartNext, StartStep, Use, StartStops, files

-----------------------------------------------------------------------------
(* The keys *)

\* Steps of an instance that has no keys yet, and steps that only end a service.
LEMMA KeysKept ==
  ASSUME Types, KeyInv, UNCHANGED <<keyFile, held, used>>, Serving' \subseteq Serving,
         \/ UNCHANGED stage
         \/ \E p \in Pids, to \in Stage \ (KeyStage \cup {"up"}) :
              /\ stage[p] \notin KeyStage \cup {"up"}
              /\ stage' = [stage EXCEPT ![p] = to]
  PROVE  KeyInv'
<1>1. \A q \in Pids : stage'[q] \in KeyStage \cup {"up"} => stage'[q] = stage[q]
  BY DEF Types
<1>2. \A q \in Pids : stage'[q] \notin KeyStage \cup {"up"} =>
                        stage[q] \notin KeyStage \cup {"up"}
  BY DEF Types
<1>3. KeyKept' /\ \A q \in Pids : Wanted(q)' = Wanted(q)
  BY DEF KeyInv, KeyKept, Wanted
<1>4. \A q \in Serving', f \in KeyFiles : held'[q][f] = Nothing \/ held'[q][f] = keyFile'[f]
  BY DEF KeyInv
<1>5. QED
  BY <1>1, <1>2, <1>3, <1>4 DEF KeyInv, KeyStage

LEMMA KeysEnd ==
  ASSUME Types, KeyInv, NEW p \in Pids, Ends(p), Serving' \subseteq Serving
  PROVE  KeyInv'
<1>1. \A q \in Pids \ {p} : stage'[q] = stage[q] /\ held'[q] = held[q]
  BY DEF Ends, Types
<1>2. stage'[p] = "none" /\ held'[p] = NoKeys /\ UNCHANGED <<keyFile, used>>
  BY DEF Ends, Types
<1>3. \A q \in Pids \ {p} : Wanted(q)' = Wanted(q)
  BY <1>1 DEF Wanted
<1>4. \A q \in Serving', f \in KeyFiles : held'[q][f] = Nothing \/ held'[q][f] = keyFile'[f]
  <2>1. SUFFICES ASSUME NEW q \in Serving', NEW f \in KeyFiles
                 PROVE  held'[q][f] = Nothing \/ held'[q][f] = keyFile'[f]
    OBVIOUS
  <2>2. CASE q = p
    BY <1>2, <2>2 DEF NoKeys
  <2>3. CASE q # p
    <3>1. q \in Serving /\ q \in Pids \ {p}
      BY <2>3 DEF Serving
    <3>2. held[q][f] = Nothing \/ held[q][f] = keyFile[f]
      BY <3>1 DEF KeyInv
    <3>3. QED
      BY <1>1, <1>2, <3>1, <3>2
  <2>4. QED
    BY <2>2, <2>3
<1>5. KeyKept'
  BY <1>2 DEF KeyInv, KeyKept
<1>6. QED
  BY <1>1, <1>2, <1>3, <1>4, <1>5 DEF KeyInv, KeyStage

LEMMA OnlyServer ==
  ASSUME IInv, StageInv, NEW p \in Pids, stage[p] \in KeyStage
  PROVE  Serving = {p} /\ \A q \in Pids : stage[q] \in KeyStage => q = p
<1>1. \A q \in Pids : stage[q] \in KeyStage => q \in Serving
  BY DEF StageInv, Serving
<1>2. QED
  BY <1>1 DEF IInv, FileNamesServer, Serving

\* The server gets a key: the one that it has just read from, or written to, the file.
LEMMA KeyGained ==
  ASSUME IInv, Types, StageInv, KeyInv, NEW p \in Pids, NEW k \in Keys,
         stage[p] \in KeyStage, stage' = [stage EXCEPT ![p] = AfterKey(p)],
         held' = [held EXCEPT ![p][Wanted(p)] = k],
         keyFile' = [keyFile EXCEPT ![Wanted(p)] = k],
         keyFile[Wanted(p)] = k \/ keyFile[Wanted(p)] \notin Keys,
         UNCHANGED <<pc, used>>
  PROVE  KeyInv'
<1>1. Serving' = {p} /\ \A q \in Pids : stage[q] \in KeyStage => q = p
  BY OnlyServer DEF Serving
<1>2. \A q \in Pids \ {p} : stage'[q] = stage[q] /\ held'[q] = held[q]
  BY DEF Types
<1>3. /\ stage'[p] = AfterKey(p) /\ held'[p] = [held[p] EXCEPT ![Wanted(p)] = k]
      /\ held[p] \in [KeyFiles -> Keys \cup {Nothing}] /\ Wanted(p) \in KeyFiles
  BY DEF Types, Wanted, KeyFiles
<1>4. held[p]["jwt"] = Nothing
  BY DEF KeyInv
<1>5. KeyKept'
  <2>1. SUFFICES ASSUME NEW f \in KeyFiles PROVE used[f] \subseteq {keyFile'[f]}
    BY DEF KeyKept
  <2>2. used[f] \subseteq {keyFile[f]} /\ used[f] \subseteq Keys
    BY DEF KeyInv, KeyKept, Types
  <2>3. CASE f = Wanted(p)
    <3>1. keyFile'[f] = k
      BY <1>3, <2>3 DEF Types
    <3>2. keyFile[f] = k \/ keyFile[f] \notin Keys
      BY <2>3
    <3>3. QED
      BY <2>2, <3>1, <3>2
  <2>4. CASE f # Wanted(p)
    <3>1. keyFile'[f] = keyFile[f]
      BY <2>4 DEF Types
    <3>2. QED
      BY <2>2, <3>1
  <2>5. QED
    BY <2>3, <2>4
<1>6. CASE Wanted(p) = "crypto"
  <2>1. stage'[p] = "key" /\ held'[p]["jwt"] = Nothing /\ held'[p]["crypto"] = k
    BY <1>3, <1>4, <1>6 DEF AfterKey, KeyFiles
  <2>2. keyFile'["crypto"] = k
    BY <1>3, <1>6 DEF Types
  <2>3. QED
    BY <1>1, <1>2, <1>5, <2>1, <2>2 DEF KeyInv, KeyStage, KeyFiles
<1>7. CASE Wanted(p) = "jwt"
  <2>1. held[p]["crypto"] # Nothing
    BY <1>7 DEF Wanted
  <2>2. stage'[p] = "up" /\ held'[p]["jwt"] = k /\ held'[p]["crypto"] = held[p]["crypto"]
    BY <1>3, <1>7 DEF AfterKey, KeyFiles
  <2>3. held[p]["crypto"] = keyFile["crypto"] /\ held[p]["crypto"] \in Keys
    BY <1>3, <2>1, OnlyServer DEF KeyInv, KeyFiles
  <2>4. keyFile'["jwt"] = k /\ keyFile'["crypto"] = keyFile["crypto"]
    BY <1>3, <1>7 DEF Types, KeyFiles
  <2>5. QED
    BY <1>1, <1>2, <1>5, <2>2, <2>3, <2>4 DEF KeyInv, KeyStage, KeyFiles
<1>8. QED
  BY <1>6, <1>7 DEF Wanted

LEMMA KeyStep ==
  ASSUME IInv, Types, StageInv, KeyInv, [StartNext]_startVars
  PROVE  KeyInv'
<1>1. CASE UNCHANGED startVars
  <2>1. UNCHANGED <<keyFile, held, used, stage, pc>>
    BY <1>1 DEF startVars, files, vars
  <2>2. QED
    BY <2>1, KeysKept DEF Serving
<1>2. ASSUME NEW p \in Pids, StartLaunch(p) PROVE KeyInv'
  <2>1. Serving' \subseteq Serving
    BY <1>2 DEF StartLaunch, Launch, Serving, IInv, TypeOK
  <2>2. "stat" \in Stage \ (KeyStage \cup {"up"}) /\ "none" \notin KeyStage \cup {"up"}
    BY DEF Stage, KeyStage
  <2>3. QED
    BY <1>2, <2>1, <2>2, KeysKept DEF StartLaunch, ToStage, files
<1>3. ASSUME NEW p \in Pids, StartCrash(p) \/ StartExit(p) PROVE KeyInv'
  <2>1. pc' = [pc EXCEPT ![p] = "none"] /\ Ends(p)
    BY <1>3 DEF StartCrash, StartExit, Crash, Exit, Gone
  <2>2. Serving' \subseteq Serving
    BY <2>1 DEF Serving, IInv, TypeOK
  <2>3. QED
    BY <2>1, <2>2, KeysEnd
<1>4. ASSUME NEW p \in Pids, Stat(p) \/ CreateConfig(p) \/ SaveConfig(p) \/ LoadConfig(p)
      PROVE  KeyInv'
  <2>1. PICK to \in {"create", "write", "load", "pid"} : stage' = [stage EXCEPT ![p] = to]
    BY <1>4 DEF Stat, CreateConfig, SaveConfig, LoadConfig, ToStage
  <2>2. stage[p] \in EarlyStage /\ UNCHANGED <<pc, keyFile, held, used>>
    BY <1>4 DEF Stat, CreateConfig, SaveConfig, LoadConfig, ToStage, EarlyStage, vars, files
  <2>3. to \in Stage \ (KeyStage \cup {"up"}) /\ stage[p] \notin KeyStage \cup {"up"}
    BY <2>1, <2>2 DEF Stage, KeyStage, EarlyStage
  <2>4. QED
    BY <2>1, <2>2, <2>3, KeysKept DEF Serving
<1>5. ASSUME NEW p \in Pids, CheckPID(p) PROVE KeyInv'
  <2>1. \E to \in PC \ {"none", "serve"} : pc' = [pc EXCEPT ![p] = to]
    BY <1>5, NothingAssumption
       DEF CheckPID, ReadFile, IsProcessRunning, IsNotOurs, Refuse, RemoveStale, CreateFile, Goto,
           PC, IInv, TypeOK
  <2>2. Serving' \subseteq Serving
    BY <2>1 DEF Serving, IInv, TypeOK
  <2>3. QED
    BY <1>5, <2>2, KeysKept DEF CheckPID, files
<1>6. ASSUME NEW p \in Pids, WritePID(p) PROVE KeyInv'
  <2>1. /\ stage[p] = "pid" /\ stage'[p] = "key"
        /\ \A q \in Pids \ {p} : stage'[q] = stage[q]
        /\ Serving' \subseteq Serving \cup {p} /\ UNCHANGED <<keyFile, held, used>>
    BY <1>6 DEF WritePID, FillFile, Goto, ToStage, files, Types, Serving, IInv, TypeOK
  <2>2. held[p] = NoKeys
    BY <2>1 DEF KeyInv, KeyStage
  <2>3. held'[p]["jwt"] = Nothing /\ \A f \in KeyFiles : held'[p][f] = Nothing
    BY <2>1, <2>2 DEF NoKeys, KeyFiles
  <2>4. KeyKept' /\ \A q \in Pids : Wanted(q)' = Wanted(q)
    BY <2>1 DEF KeyInv, KeyKept, Wanted
  <2>5. \A q \in Serving', f \in KeyFiles : held'[q][f] = Nothing \/ held'[q][f] = keyFile'[f]
    BY <2>1, <2>3 DEF KeyInv
  <2>6. QED
    BY <2>1, <2>3, <2>4, <2>5 DEF KeyInv, KeyStage
<1>7. ASSUME NEW p \in Pids, LoadKey(p) PROVE KeyInv'
  <2>1. keyFile' = [keyFile EXCEPT ![Wanted(p)] = keyFile[Wanted(p)]]
    BY <1>7 DEF LoadKey, Types
  <2>2. stage[p] \in KeyStage /\ UNCHANGED <<pc, used>>
    BY <1>7 DEF LoadKey, ToStage, KeyStage, vars
  <2>3. QED
    BY <1>7, <2>1, <2>2, KeyGained DEF LoadKey, ToStage
<1>8. ASSUME NEW p \in Pids, GenerateKey(p) PROVE KeyInv'
  <2>1. /\ stage[p] \in KeyStage /\ stage'[p] = "key create"
        /\ \A q \in Pids \ {p} : stage'[q] = stage[q]
        /\ keyFile[Wanted(p)] \notin Keys /\ UNCHANGED <<pc, keyFile, held, used>>
    BY <1>8 DEF GenerateKey, ToStage, KeyStage, vars, files, Types
  <2>2. KeyKept' /\ Serving' = Serving /\ \A q \in Pids : Wanted(q)' = Wanted(q)
    BY <2>1 DEF KeyInv, KeyKept, Wanted, Serving
  <2>3. QED
    BY <2>1, <2>2 DEF KeyInv, KeyStage
<1>9. ASSUME NEW p \in Pids, CreateKeyFile(p) PROVE KeyInv'
  <2>1. /\ stage[p] = "key create" /\ stage'[p] = "key write"
        /\ \A q \in Pids \ {p} : stage'[q] = stage[q]
        /\ keyFile' = [keyFile EXCEPT ![Wanted(p)] = Empty]
        /\ UNCHANGED <<pc, held, used>>
    BY <1>9 DEF CreateKeyFile, ToStage, vars, Types
  <2>2. Serving' = {p} /\ \A q \in Pids : stage[q] \in KeyStage => q = p
    BY <2>1, OnlyServer DEF Serving, KeyStage
  <2>3. keyFile[Wanted(p)] \notin Keys /\ Wanted(p) \in KeyFiles /\ Wanted(p)' = Wanted(p)
    BY <2>1 DEF KeyInv, Wanted, KeyFiles
  <2>4. KeyKept'
    <3>1. SUFFICES ASSUME NEW f \in KeyFiles PROVE used[f] \subseteq {keyFile'[f]}
      BY <2>1 DEF KeyKept
    <3>2. used[f] \subseteq {keyFile[f]} /\ used[f] \subseteq Keys
      BY DEF KeyInv, KeyKept, Types
    <3>3. CASE f = Wanted(p)
      BY <2>3, <3>2, <3>3
    <3>4. CASE f # Wanted(p)
      <4>1. keyFile'[f] = keyFile[f]
        BY <2>1, <3>4 DEF Types
      <4>2. QED
        BY <3>2, <4>1
    <3>5. QED
      BY <3>3, <3>4
  <2>5. held[p][Wanted(p)] = Nothing
    BY <2>1 DEF KeyInv, KeyStage, Wanted
  <2>6. keyFile'[Wanted(p)'] \notin Keys
    BY <2>1, <2>3, KeysAssumption DEF Types
  <2>7. \A f \in KeyFiles : held'[p][f] = Nothing \/ held'[p][f] = keyFile'[f]
    <3>1. SUFFICES ASSUME NEW f \in KeyFiles
                   PROVE  held[p][f] = Nothing \/ held[p][f] = keyFile'[f]
      BY <2>1
    <3>2. CASE f = Wanted(p)
      BY <2>5, <3>2
    <3>3. CASE f # Wanted(p)
      <4>1. keyFile'[f] = keyFile[f]
        BY <2>1, <3>3 DEF Types
      <4>2. p \in Serving
        BY <2>1, OnlyServer DEF KeyStage
      <4>3. QED
        BY <4>1, <4>2 DEF KeyInv
    <3>4. QED
      BY <3>2, <3>3
  <2>8. \A q \in Pids : stage'[q] \in KeyStage => q = p /\ held'[q]["jwt"] = Nothing
    <3>1. held[p]["jwt"] = Nothing
      BY <2>1 DEF KeyInv, KeyStage
    <3>2. QED
      BY <2>1, <2>2, <3>1
  <2>9. QED
    <3>1. \A q \in Pids : stage'[q] \in {"key create", "key write"} =>
                            keyFile'[Wanted(q)'] \notin Keys
      BY <2>6, <2>8 DEF KeyStage
    <3>2. \A q \in Pids : stage'[q] \notin KeyStage \cup {"up"} => held'[q] = NoKeys
      BY <2>1 DEF KeyInv, KeyStage
    <3>3. \A q \in Pids : stage'[q] = "up" => \A f \in KeyFiles : held'[q][f] \in Keys
      BY <2>1 DEF KeyInv
    <3>4. QED
      BY <2>2, <2>4, <2>7, <2>8, <3>1, <3>2, <3>3 DEF KeyInv
<1>10. ASSUME NEW p \in Pids, NEW k \in Keys, WriteKey(p, k) PROVE KeyInv'
  <2>1. stage[p] \in KeyStage /\ keyFile[Wanted(p)] \notin Keys /\ UNCHANGED <<pc, used>>
    BY <1>10 DEF WriteKey, ToStage, KeyStage, KeyInv, vars
  <2>2. QED
    BY <1>10, <2>1, KeyGained DEF WriteKey, ToStage
<1>11. ASSUME NEW p \in Pids, NEW f \in KeyFiles, Use(p, f) PROVE KeyInv'
  <2>1. p \in Serving /\ held[p][f] \in Keys
    BY <1>11 DEF Use, Serving, KeyInv
  <2>2. held[p][f] = keyFile[f]
    BY <2>1, KeysAssumption DEF KeyInv
  <2>3. UNCHANGED <<stage, pc, keyFile, held>> /\ used' = [used EXCEPT ![f] = @ \cup {held[p][f]}]
    BY <1>11 DEF Use, vars
  <2>4. KeyKept'
    BY <2>2, <2>3 DEF KeyInv, KeyKept, Types
  <2>5. QED
    BY <2>3, <2>4 DEF KeyInv, Wanted, Serving
<1>12. ASSUME NEW p \in Pids, StartStops(p) PROVE KeyInv'
  <2>1. Serving' \subseteq Serving
    BY <1>12 DEF StartStops, RemovePidFile, Goto, Serving, IInv, TypeOK
  <2>2. QED
    BY <1>12, <2>1, KeysKept DEF StartStops, files
<1>13. CASE UNCHANGED <<stage, pc, keyFile, held, used>>
  BY <1>13, KeysKept DEF Serving
<1>14. QED
  BY <1>1, <1>2, <1>3, <1>4, <1>5, <1>6, <1>7, <1>8, <1>9, <1>10, <1>11, <1>12, <1>13
     DEF StartNext, StartStep, LaunchOther, OtherExits, Edit, files, vars

-----------------------------------------------------------------------------

SInv == Types /\ StageInv /\ ConfigInv /\ KeyInv

LEMMA StartInvariance == ASSUME ~Concurrent PROVE StartSpec => []SInv
<1>1. StartInit => SInv
  BY StageInit DEF SInv
<1>2. IInv /\ SInv /\ [StartNext]_startVars => SInv'
  BY StageStep, TypesStep, ConfigStep, KeyStep DEF SInv, IInv
<1>3. QED
  BY <1>1, <1>2, PidInvariance, PTL DEF StartSpec

\* While starts do not overlap every variable of a start always has its type, and an
\* instance that is up has its configuration and its keys.
THEOREM StartTypeCorrect == ASSUME ~Concurrent PROVE StartSpec => []StartTypeOK
<1>1. IInv /\ SInv => StartTypeOK
  BY DEF IInv, SInv, StartTypeOK, Types, StageInv, ConfigInv, KeyInv, KeyStage
<1>2. QED
  BY <1>1, PidInvariance, StartInvariance, PTL

\* While starts do not overlap no key that something was encrypted or signed with is ever
\* replaced, whatever crashes and reused PIDs come between.
THEOREM KeysAreKept == ASSUME ~Concurrent PROVE StartSpec => []KeyKept
<1>1. SInv => KeyKept
  BY DEF SInv, KeyInv
<1>2. QED
  BY <1>1, StartInvariance, PTL

\* While starts do not overlap every instance that is up has the configuration that its
\* file stands for; only an editor or a torn file turns a default off.
THEOREM ConfigurationsUsable == ASSUME ~Concurrent PROVE StartSpec => []ConfigUsable
<1>1. SInv => ConfigUsable
  BY DEF SInv, ConfigInv, ConfigUsable
<1>2. QED
  BY <1>1, StartInvariance, PTL
================================================================================
