---------------------------- MODULE Installation ----------------------------
(***************************************************************************)
(* What the commands of cmd/winclaw/main.go do to the machine: the API key *)
(* in the Credential Manager, the data directory and its ACL, config.json, *)
(* service-key.enc and the entry of the service in the service control     *)
(* manager, which starts and stops the process of Service.  A command is a *)
(* process of its own that takes its steps in the order of its script; any *)
(* step may fail, which ends it (fatalf), and it may die between any two.  *)
(***************************************************************************)
EXTENDS Service

CONSTANTS
    Clis,       \* command processes
    Keys,       \* API keys
    Exclusive,  \* commands the user runs one at a time
    MaxCommands \* bound: commands and reboots

Commands == {"setup", "install", "terminal", "start", "stop", "uninstall"}

ASSUME InstallationAssumption ==
    /\ Exclusive \subseteq Commands
    /\ MaxCommands \in Nat
    /\ Keys \cap {"none", "cut"} = {}

VARIABLES
    secret,     \* the key in the Credential Manager, or "none"
    keyFile,    \* the key in service-key.enc, "none" without the file, "cut"
                \* when it is not whole
    keyLocked,  \* its ACL is that of the user and LocalService
    access,     \* who the ACL of the data directory lets in
    config,     \* config.json: "none", "cut", "plain", or "owned" with the
                \* ServiceOwnerSID
    tmp,        \* the same of config.json.tmp
    marked,     \* the service is marked for deletion
    shared,     \* LocalService has the %APPDATA% of the user
    owner,      \* the configuration the service has loaded names its owner
    cli,        \* cli[c]: the steps left of its command, and what it has read
    commands    \* commands and reboots so far

fileVars    == <<secret, keyFile, keyLocked, access, config, tmp>>
machineVars == <<fileVars, marked, shared, cli, commands>>
vars        == <<serviceVars, owner, machineVars>>

-----------------------------------------------------------------------------
(* The commands *)

Ready == <<"load_config", "read_key", "lock_directory">>
Save  == <<"open_tmp", "fill_tmp", "rename_tmp">>

\* The wizard writes the defaults.
BuggySetupKeeps == FALSE
SetupKeeps == TRUE

\* Registered before the configuration is saved.
BuggyInstallSteps == Ready \o <<"open_key_file", "fill_key_file", "lock_key_file",
                                "grant_directory", "set_owner", "register">> \o Save

InstallSteps == Ready \o <<"open_key_file", "fill_key_file", "lock_key_file",
                           "grant_directory", "set_owner">> \o Save \o <<"register">>

Script ==
    [setup     |-> <<"load_config", "store_key", "lock_directory">> \o Save,
     install   |-> InstallSteps,
     terminal  |-> Ready,
     start     |-> <<"load_config", "start">>,
     stop      |-> <<"load_config", "stop">>,
     uninstall |-> <<"load_config", "stop_first", "delete">>]

Idle == [cmd |-> "none", steps |-> <<>>, owner |-> FALSE, key |-> "none"]

InstallationInit ==
    /\ ServiceInit
    /\ secret = "none" /\ keyFile = "none" /\ keyLocked = FALSE
    /\ access = "nobody" /\ config = "none" /\ tmp = "none"
    /\ marked = FALSE
    /\ shared \in BOOLEAN
    /\ owner = FALSE
    /\ cli = [c \in Clis |-> Idle]
    /\ commands = 0

Begins(c, cmd) ==
    /\ cli[c] = Idle
    /\ commands < MaxCommands
    /\ cmd \in Exclusive => \A d \in Clis : cli[d].cmd \notin Exclusive
    /\ cli' = [cli EXCEPT ![c] = [Idle EXCEPT !.cmd = cmd, !.steps = Script[cmd]]]
    /\ commands' = commands + 1
    /\ UNCHANGED <<serviceVars, owner, fileVars, marked, shared>>

At(c, step) == cli[c].steps # <<>> /\ Head(cli[c].steps) = step

\* The step is done, with g what the process knows by then.
Done(c, g) ==
    cli' = [cli EXCEPT ![c] = IF Len(g.steps) = 1 THEN Idle ELSE [g EXCEPT !.steps = Tail(@)]]

\* os.Exit, or the end of the process: what it has done stays.
Dies(c) ==
    /\ cli[c] # Idle
    /\ cli' = [cli EXCEPT ![c] = Idle]
    /\ UNCHANGED <<serviceVars, owner, fileVars, marked, shared, commands>>

-----------------------------------------------------------------------------
(* Steps on the user's files *)

\* config.Load; it makes the directory.  A file that cannot be parsed ends it.
LoadsConfig(c) ==
    /\ At(c, "load_config")
    /\ config # "cut"
    /\ access' = IF access = "nobody" THEN "inherited" ELSE access
    /\ Done(c, [cli[c] EXCEPT !.owner = config = "owned" /\ (cli[c].cmd = "setup" => SetupKeeps)])
    /\ UNCHANGED <<secret, keyFile, keyLocked, config, tmp>>

StoresKey(c) ==
    /\ At(c, "store_key")
    /\ secret' \in Keys
    /\ Done(c, cli[c])
    /\ UNCHANGED <<keyFile, keyLocked, access, config, tmp>>

ReadsKey(c) ==
    /\ At(c, "read_key")
    /\ secret # "none"
    /\ Done(c, [cli[c] EXCEPT !.key = secret])
    /\ UNCHANGED fileVars

\* LockDirToCurrentUser takes what LocalService was granted.
LocksDirectory(c) ==
    /\ At(c, "lock_directory")
    /\ access' = "user"
    /\ Done(c, cli[c])
    /\ UNCHANGED <<secret, keyFile, keyLocked, config, tmp>>

OpensKeyFile(c) ==
    /\ At(c, "open_key_file")
    /\ keyFile' = "cut"
    /\ Done(c, cli[c])
    /\ UNCHANGED <<secret, keyLocked, access, config, tmp>>

FillsKeyFile(c) ==
    /\ At(c, "fill_key_file")
    /\ keyFile' = cli[c].key
    /\ Done(c, cli[c])
    /\ UNCHANGED <<secret, keyLocked, access, config, tmp>>

LocksKeyFile(c) ==
    /\ At(c, "lock_key_file")
    /\ keyLocked' = TRUE
    /\ Done(c, cli[c])
    /\ UNCHANGED <<secret, keyFile, access, config, tmp>>

GrantsDirectory(c) ==
    /\ At(c, "grant_directory")
    /\ access' = "user_and_service"
    /\ Done(c, cli[c])
    /\ UNCHANGED <<secret, keyFile, keyLocked, config, tmp>>

SetsOwner(c) ==
    /\ At(c, "set_owner")
    /\ Done(c, [cli[c] EXCEPT !.owner = TRUE])
    /\ UNCHANGED fileVars

\* Save: os.WriteFile of the temporary file, then os.Rename.
OpensTmp(c) ==
    /\ At(c, "open_tmp")
    /\ tmp' = "cut"
    /\ Done(c, cli[c])
    /\ UNCHANGED <<secret, keyFile, keyLocked, access, config>>

FillsTmp(c) ==
    /\ At(c, "fill_tmp")
    /\ tmp' = IF cli[c].owner THEN "owned" ELSE "plain"
    /\ Done(c, cli[c])
    /\ UNCHANGED <<secret, keyFile, keyLocked, access, config>>

RenamesTmp(c) ==
    /\ At(c, "rename_tmp")
    /\ tmp # "none"
    /\ config' = tmp
    /\ tmp' = "none"
    /\ Done(c, cli[c])
    /\ UNCHANGED <<secret, keyFile, keyLocked, access>>

\* The rename fails: the temporary file is removed.
RenameFails(c) ==
    /\ At(c, "rename_tmp")
    /\ tmp' = "none"
    /\ cli' = [cli EXCEPT ![c] = Idle]
    /\ UNCHANGED <<secret, keyFile, keyLocked, access, config>>

FileStep ==
    /\ \E c \in Clis :
          \/ LoadsConfig(c) \/ StoresKey(c) \/ ReadsKey(c) \/ LocksDirectory(c)
          \/ OpensKeyFile(c) \/ FillsKeyFile(c) \/ LocksKeyFile(c)
          \/ GrantsDirectory(c) \/ SetsOwner(c)
          \/ OpensTmp(c) \/ FillsTmp(c) \/ RenamesTmp(c) \/ RenameFails(c)
    /\ UNCHANGED <<serviceVars, owner, marked, shared, commands>>

-----------------------------------------------------------------------------
(* Steps on the service *)

\* Install: the manager has no such service.
Registers(c) ==
    /\ At(c, "register")
    /\ scm = "absent"
    /\ scm' = "stopped"
    /\ Done(c, cli[c])
    /\ UNCHANGED <<stopAsked, at, defers, cancelled, polling, work, bare, marked>>

\* Start, which the manager refuses for a service that is to be deleted.
Starts(c) ==
    /\ At(c, "start")
    /\ scm = "stopped" /\ at = 0 /\ ~marked
    /\ Launched
    /\ Done(c, cli[c])
    /\ UNCHANGED marked

\* The manager passes a stop on to a service that has said it takes one.
AsksStop == stopAsked' = TRUE /\ UNCHANGED <<scm, at, defers, cancelled, polling, work, bare>>

Stops(c) ==
    /\ At(c, "stop")
    /\ scm = "running"
    /\ AsksStop
    /\ Done(c, cli[c])
    /\ UNCHANGED marked

\* Uninstall: a stop that the manager refuses is not tried again.
StopsFirst(c) ==
    /\ At(c, "stop_first")
    /\ scm # "absent"
    /\ IF scm = "running" THEN AsksStop ELSE UNCHANGED serviceVars
    /\ Done(c, cli[c])
    /\ UNCHANGED marked

\* Uninstall, after up to five seconds: the manager removes a service that
\* has stopped, and marks any other.
Deletes(c) ==
    /\ At(c, "delete")
    /\ scm # "absent" /\ ~marked
    /\ IF scm = "stopped"
       THEN scm' = "absent" /\ UNCHANGED marked
       ELSE marked' = TRUE /\ UNCHANGED scm
    /\ Done(c, cli[c])
    /\ UNCHANGED <<stopAsked, at, defers, cancelled, polling, work, bare>>

ControlStep ==
    /\ \E c \in Clis : Registers(c) \/ Starts(c) \/ Stops(c) \/ StopsFirst(c) \/ Deletes(c)
    /\ UNCHANGED <<owner, fileVars, shared, commands>>

-----------------------------------------------------------------------------
(* The service and what it finds *)

\* The data directory of the service, unless shared, is that of LocalService,
\* where nobody puts a configuration or a key.
Admitted == ~shared \/ access = "user_and_service"

Finds(step) ==
    CASE step = "config"   -> ~shared \/ config = "none" \/ (Admitted /\ config # "cut")
      [] step = "key"      -> shared /\ keyFile \in Keys /\ (keyLocked \/ Admitted)
      [] step = "database" -> Admitted
      [] step = "pipe"     -> owner
      [] OTHER             -> TRUE

StartPasses ==
    /\ \E i \in DOMAIN Startup : Finds(Startup[i]) /\ Passes(Startup[i])
    /\ owner' = IF Startup[at] = "config" THEN shared /\ config = "owned" ELSE owner
    /\ UNCHANGED machineVars

StartStops ==
    /\ NoPipe \/ \E i \in DOMAIN Startup : StartFails(Startup[i])
    /\ UNCHANGED <<owner, machineVars>>

StartStep == StartPasses \/ StartStops

RunStep ==
    /\ Execute
    /\ UNCHANGED <<owner, machineVars>>

WorkStep ==
    /\ Works \/ ProcessDies
    /\ UNCHANGED <<owner, machineVars>>

\* The manager forgets a service that was to be deleted and has stopped.
Removed ==
    /\ scm = "stopped" /\ marked
    /\ scm' = "absent" /\ marked' = FALSE
    /\ UNCHANGED <<stopAsked, at, defers, cancelled, polling, work, bare,
                   owner, fileVars, shared, cli, commands>>

\* The machine goes down and comes up: a registered service starts by itself.
Boot ==
    /\ cli' = [c \in Clis |-> Idle]
    /\ marked' = FALSE
    /\ IF scm = "absent" \/ marked
       THEN ProcessGone /\ scm' = "absent"
       ELSE ProcessRestarted /\ scm' = "starting"
    /\ commands < MaxCommands
    /\ commands' = commands + 1
    /\ UNCHANGED <<bare, owner, fileVars, shared>>

Next ==
    \/ \E c \in Clis, cmd \in Commands : Begins(c, cmd)
    \/ \E c \in Clis : Dies(c)
    \/ FileStep \/ ControlStep
    \/ StartStep \/ RunStep \/ WorkStep \/ Removed
    \/ Boot

Spec == InstallationInit /\ [][Next]_vars

\* Execute goes on, a run ends in one way or other (requests and tools have
\* timeouts), and the loop of the scheduler comes back to its select.
FairSpec ==
    /\ Spec
    /\ WF_vars(StartStep) /\ WF_vars(RunStep)
    /\ WF_vars(PollingEnds /\ UNCHANGED <<owner, machineVars>>)
    /\ \A w \in Workers : WF_vars(WorkEnds(w) /\ UNCHANGED <<owner, machineVars>>)

-----------------------------------------------------------------------------
(* Properties *)

\* Type invariant.
TypeOK ==
    /\ ServiceTypeOK
    /\ secret \in Keys \cup {"none"}
    /\ keyFile \in Keys \cup {"none", "cut"}
    /\ access \in {"nobody", "inherited", "user", "user_and_service"}
    /\ config \in {"none", "cut", "plain", "owned"} /\ tmp \in {"none", "cut", "plain", "owned"}
    /\ keyLocked \in BOOLEAN /\ marked \in BOOLEAN /\ shared \in BOOLEAN

\* Once config.json names the owner of the service, no setup, installation,
\* failure or crash takes the name out of it, or leaves a part of the file:
\* without it the service starts with --send disabled.
OwnerKept == [][config = "owned" => config' = "owned"]_vars

\* A service is registered when all it needs is in place: its key whole, that
\* of the user, and locked, the directory open to it and its owner known.  A
\* crash on the way leaves no service that starts by itself and cannot run.
RegisteredLast ==
    [][scm = "absent" /\ scm' # "absent" =>
          keyFile = secret /\ keyLocked /\ access = "user_and_service" /\ config = "owned"]_vars
=============================================================================
