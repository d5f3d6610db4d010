-------------------------------- MODULE Startup --------------------------------
(***************************************************************************)
(* A start from main to ListenAndServe, beside the PID file of PidFile:    *)
(* the configuration is loaded before the PID file is looked at, and the   *)
(* keys that secrets are encrypted and tokens are signed with are loaded   *)
(* after it is written (main.go, config/config.go, server/server.go,       *)
(* crypto/crypto.go, auth/jwt.go).                                         *)
(*                                                                         *)
(* Each of these files is made by os.WriteFile, which creates an empty     *)
(* file first and fills it next; nothing locks a file.  An instance that   *)
(* has the PID file is in PidFile's step "serve" while it loads its keys.  *)
(* An error ends the process and leaves its files, like PidFile's Crash.   *)
(*                                                                         *)
(* A configuration maps each field that has a default to "zero" (left out, *)
(* or Go's zero value), "default" or "set"; of the fields without a        *)
(* default nothing can be lost.  A key file is Nothing, Empty or a key;    *)
(* the operating system reads every file that is there.                    *)
(***************************************************************************)
EXTENDS PidFile

CONSTANTS
  Keys,       \* 32 random bytes, never drawn twice
  AdminFiles  \* the configurations that an administrator writes

\* applyDefaults: "fills in missing fields with defaults" ...
Restored == {
  "Server.Address", "Server.Mode", "Server.User", "Server.Group", "Server.SSL.MinVersion",
  "Server.SSL.LetsEncrypt.Challenge", "Server.RateLimit.Requests", "Server.RateLimit.Window",
  "Server.Scheduler.Tasks", "Database.Driver", "Secrets.MaxVersions", "Auth.SessionTimeout",
  "Security.RateLimit.Requests", "Security.RateLimit.Window", "Web.UI.Theme",
  "Web.CORS.AllowedOrigins"}

\* ... but not these, most of them switches that are on by default.
LeftAsRead == {
  "Server.PIDFile", "Server.Branding.Title", "Server.Scheduler.Enabled",
  "Server.RateLimit.Enabled", "Secrets.Versioning", "Teams.RequireEmailVerification",
  "Security.Enable2FA", "Security.RateLimit.Enabled"}

Config == [Restored \cup LeftAsRead -> {"zero", "default", "set"}]

GetDefaults == [field \in Restored \cup LeftAsRead |-> "default"]

EmptyFile == [field \in Restored \cup LeftAsRead |-> "zero"]

ASSUME KeysAssumption == Keys \cap {Nothing, Empty} = {}
ASSUME ConfigAssumption == Nothing \notin Config
ASSUME AdminFilesAssumption == AdminFiles \subseteq Config

VARIABLES
  config,  \* server.yml: Nothing or its fields
  keyFile, \* the key files of crypto and jwt
  stage,   \* how far each instance is, apart from the PID file
  cfg,     \* the configuration each instance has loaded
  held,    \* the keys each instance holds
  edited,  \* ghost: an administrator has written the configuration
  torn,    \* ghost: an instance crashed while it wrote the configuration
  used     \* ghost: the keys something is encrypted or signed with

files == <<config, keyFile, cfg, held, edited, torn, used>>
startVars == <<vars, stage, files>>

KeyFiles == {"crypto", "jwt"}

Stage == {"none", "stat", "create", "write", "load", "pid", "key", "key create", "key write",
          "up"}

NoKeys == [f \in KeyFiles |-> Nothing]

StartInit ==
  /\ Init
  /\ config = Nothing
  /\ keyFile = NoKeys
  /\ stage = [p \in Pids |-> "none"]
  /\ cfg = [p \in Pids |-> Nothing]
  /\ held = [p \in Pids |-> NoKeys]
  /\ edited = FALSE
  /\ torn = FALSE
  /\ used = [f \in KeyFiles |-> {}]

-----------------------------------------------------------------------------

ToStage(p, from, to) == stage[p] = from /\ stage' = [stage EXCEPT ![p] = to]

Ends(p) ==
  /\ stage' = [stage EXCEPT ![p] = "none"]
  /\ cfg' = [cfg EXCEPT ![p] = Nothing]
  /\ held' = [held EXCEPT ![p] = NoKeys]
  /\ UNCHANGED <<config, keyFile, edited, used>>

StartLaunch(p) ==
  /\ Launch(p)
  /\ ToStage(p, "none", "stat")
  /\ UNCHANGED files

StartCrash(p) ==
  /\ Crash(p)
  /\ Ends(p)
  /\ torn' = (torn \/ stage[p] = "write")

StartExit(p) ==
  /\ Exit(p)
  /\ Ends(p)
  /\ UNCHANGED torn

-----------------------------------------------------------------------------
(* config.Load *)

\* "Check if config file exists"
Stat(p) ==
  /\ ToStage(p, "stat", IF config = Nothing THEN "create" ELSE "load")
  /\ UNCHANGED <<vars, files>>

\* "Config doesn't exist - generate default and save it": create ...
CreateConfig(p) ==
  /\ ToStage(p, "create", "write")
  /\ config' = EmptyFile
  /\ UNCHANGED <<vars, keyFile, cfg, held, edited, torn, used>>

\* ... and write.
SaveConfig(p) ==
  /\ ToStage(p, "write", "pid")
  /\ config' = GetDefaults
  /\ cfg' = [cfg EXCEPT ![p] = GetDefaults]
  /\ UNCHANGED <<vars, keyFile, held, edited, torn, used>>

\* mutant: only an empty file gets the defaults
DefaultsForEmpty(c) == IF c = EmptyFile THEN GetDefaults ELSE c

applyDefaults(c) ==
  [field \in DOMAIN c |->
     IF field \in Restored /\ c[field] = "zero" THEN GetDefaults[field] ELSE c[field]]

\* "Load existing config", Unmarshal into a zero Config
LoadConfig(p) ==
  /\ ToStage(p, "load", "pid")
  /\ cfg' = [cfg EXCEPT ![p] = applyDefaults(config)]
  /\ UNCHANGED <<vars, config, keyFile, held, edited, torn, used>>

\* External: the administrator's editor replaces the file at any moment.
Edit(c) ==
  /\ config' = c
  /\ edited' = TRUE
  /\ UNCHANGED <<vars, stage, keyFile, cfg, held, torn, used>>

-----------------------------------------------------------------------------
(* WritePIDFile, and LoadOrCreateKey for crypto, then for jwt *)

CheckPID(p) ==
  /\ stage[p] = "pid"
  /\ ReadFile(p) \/ IsProcessRunning(p) \/ IsNotOurs(p) \/ Refuse(p) \/ RemoveStale(p)
       \/ CreateFile(p)
  /\ UNCHANGED <<stage, files>>

WritePID(p) ==
  /\ FillFile(p)
  /\ ToStage(p, "pid", "key")
  /\ UNCHANGED files

\* The key that p loads next.
Wanted(p) == IF held[p]["crypto"] = Nothing THEN "crypto" ELSE "jwt"

AfterKey(p) == IF Wanted(p) = "crypto" THEN "key" ELSE "up"

\* "Try to load existing key": 32 bytes, or at least 32
LoadKey(p) ==
  /\ keyFile[Wanted(p)] \in Keys
  /\ ToStage(p, "key", AfterKey(p))
  /\ held' = [held EXCEPT ![p][Wanted(p)] = keyFile[Wanted(p)]]
  /\ UNCHANGED <<vars, config, keyFile, cfg, edited, torn, used>>

\* No file, or one that is too short: "Generate new key" ...
GenerateKey(p) ==
  /\ keyFile[Wanted(p)] \notin Keys
  /\ ToStage(p, "key", "key create")
  /\ UNCHANGED <<vars, files>>

\* ... "Save key": create ...
CreateKeyFile(p) ==
  /\ ToStage(p, "key create", "key write")
  /\ keyFile' = [keyFile EXCEPT ![Wanted(p)] = Empty]
  /\ UNCHANGED <<vars, config, cfg, held, edited, torn, used>>

\* No instance, file or ciphertext has key k.
Fresh(k) ==
  \A f \in KeyFiles : keyFile[f] # k /\ k \notin used[f] /\ \A p \in Pids : held[p][f] # k

\* ... and write.
WriteKey(p, k) ==
  /\ Fresh(k)
  /\ ToStage(p, "key write", AfterKey(p))
  /\ keyFile' = [keyFile EXCEPT ![Wanted(p)] = k]
  /\ held' = [held EXCEPT ![p][Wanted(p)] = k]
  /\ UNCHANGED <<vars, config, cfg, edited, torn, used>>

\* External to this module: a request stores a secret, or is given a token.
Use(p, f) ==
  /\ stage[p] = "up"
  /\ pc[p] = "serve"
  /\ used' = [used EXCEPT ![f] = @ \cup {held[p][f]}]
  /\ UNCHANGED <<vars, stage, config, keyFile, cfg, held, edited, torn>>

\* Setup comes after the keys.
StartStops(p) ==
  /\ stage[p] = "up"
  /\ RemovePidFile(p)
  /\ UNCHANGED <<stage, files>>

-----------------------------------------------------------------------------

StartStep(p) ==
  \/ Stat(p) \/ CreateConfig(p) \/ SaveConfig(p) \/ LoadConfig(p)
  \/ CheckPID(p) \/ WritePID(p)
  \/ LoadKey(p) \/ GenerateKey(p) \/ CreateKeyFile(p)
  \/ \E k \in Keys : WriteKey(p, k)

StartNext ==
  \/ \E p \in Pids :
       \/ StartLaunch(p) \/ StartCrash(p) \/ StartExit(p) \/ StartStep(p) \/ StartStops(p)
       \/ (LaunchOther(p) \/ OtherExits(p)) /\ UNCHANGED <<stage, files>>
       \/ \E f \in KeyFiles : Use(p, f)
  \/ \E c \in AdminFiles : Edit(c)

StartSpec == StartInit /\ [][StartNext]_startVars

-----------------------------------------------------------------------------
(* Properties *)

\* The types of both modules; an instance that has the PID file has a configuration, and
\* one that is up has both keys.
StartTypeOK ==
  /\ TypeOK
  /\ config \in Config \cup {Nothing}
  /\ keyFile \in [KeyFiles -> Keys \cup {Nothing, Empty}]
  /\ stage \in [Pids -> Stage]
  /\ cfg \in [Pids -> Config \cup {Nothing}]
  /\ held \in [Pids -> [KeyFiles -> Keys \cup {Nothing}]]
  /\ edited \in BOOLEAN /\ torn \in BOOLEAN
  /\ used \in [KeyFiles -> SUBSET Keys]
  /\ \A p \in Pids : pc[p] = "serve" => cfg[p] \in Config
  /\ \A p \in Pids : stage[p] = "up" => \A f \in KeyFiles : held[p][f] \in Keys

\* A key that something was encrypted or signed with is the one in its file, which every
\* later instance loads: whatever starts, crashes and reused PIDs come between, only an
\* instance that nobody competes with ever makes a key.
KeyKept == \A f \in KeyFiles : used[f] \subseteq {keyFile[f]}

\* An instance that is up misses no field that applyDefaults restores, whatever file it
\* has found; and it runs with a switch off that is on by default only if an
\* administrator has written the file, or a crash has torn it.
ConfigUsable ==
  \A p \in Pids : stage[p] = "up" =>
    /\ \A field \in Restored : cfg[p][field] # "zero"
    /\ ~edited /\ ~torn => cfg[p] = GetDefaults
================================================================================
