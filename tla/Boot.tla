--------------------------------- MODULE Boot ---------------------------------
(***************************************************************************)
(* The start of appx in container mode (cmd/appx/main.go) up to the moment *)
(* it listens: files of old installations are moved, the database is       *)
(* opened, the agent-server's token and the first password are made, the   *)
(* outer container is created, started or recreated                        *)
(* (internal/containerruntime), the certificate is loaded or made          *)
(* (internal/tls), and the server runs.                                    *)
(*                                                                         *)
(* appx can stop at every point: it is killed, or an error of the file     *)
(* system, the database or the container engine ends it with log.Fatal;    *)
(* both are Crash.  systemd starts it again (deploy/appx.service).  A file *)
(* is written in two steps, because os.WriteFile truncates it first.       *)
(***************************************************************************)
EXTENDS Integers, Sequences

CONSTANTS
    Token,    \* tokens for the agent-server
    Pair,     \* certificates with their keys
    Config,   \* what the operator may configure
    Absent,   \* no such file, no such container, nothing in memory
    MaxFaults \* bound on crashes, engine failures and changes by the operator

ASSUME BootAssumption ==
    /\ Absent \notin Token \cup Pair \cup {"empty", "part", "all", "cut", "new", "old", "own"}
    /\ "empty" \notin Token
    /\ {"torn", "part", "old", "new", "cut"} \cap Pair = {}
    /\ \A c \in Config : {c.api, c.start, c.end} \subseteq Nat
    /\ MaxFaults \in Nat

\* The API port (4001) is never an end of the app range (10000-10199).
ASSUME PortsAssumption ==
    \A c, d \in Config : c.api \notin {d.start, d.end}

VARIABLES
    pc,           \* where main is
    next,         \* the next file migrateDataDir looks at
    data,         \* the data directory: contents by file name
    internals,    \* the directory .appx-internals
    password,     \* whether the database has a password
    tokenFile,    \* the file agent-server-token
    token,        \* agentServerToken, in memory
    pair,         \* the certificate in memory
    config,       \* image and ports of this start
    recreate,     \* --recreate-agent-container
    engine,       \* the container engine: "up" or "down"
    container,    \* the outer container
    renameFailed, \* (history) a file could not be moved
    faults        \* (bound) faults so far

disk == <<data, internals, password, tokenFile, renameFailed>>

memory == <<token, pair>>

settings == <<config, recreate>>

runtime == <<engine, container>>

vars == <<pc, next, disk, memory, settings, runtime, faults>>

files == <<"appx.db", "appx.db-wal", "appx.db-shm", "cert.pem", "key.pem", "initial_password">>

File == {files[i] : i \in DOMAIN files}

Stopped == pc \in {"down", "refused"}

(***************************************************************************)
(* The container.  The engine keeps what RunArgs asked for.                *)
(***************************************************************************)
Published(c) == {c.api} \cup c.start .. c.end

Container == [image : {c.image : c \in Config}, published : {Published(c) : c \in Config},
              token : Token, state : {"created", "exited", "starting", "healthy"}]

ASSUME ContainerAssumption == Absent \notin Container

\* BuildSpec and RunArgs: the container the engine is asked for.
BuildSpec(state) ==
    [image |-> config.image, published |-> Published(config), token |-> token, state |-> state]

Running == container.state \in {"starting", "healthy"}

\* Mutant: the upper end of the range is not compared.
DriftsLow ==
    \/ container.image # config.image
    \/ ~({config.api, config.start} \subseteq container.published)

\* driftReasons is not empty.
Drifts ==
    \/ container.image # config.image
    \/ ~({config.api, config.start, config.end} \subseteq container.published)

\* After the password: the recreation, or the inspection.
EnsurePc == IF recreate THEN "rm" ELSE "inspect"

-------------------------------------------------------------------------------

\* An installation of an old version, or an empty directory.  Legacy data is
\* complete only together with its write-ahead log.
Init ==
    /\ \E legacy \in {{}, File, File \ {"appx.db-wal", "appx.db-shm"}}, k \in Pair :
          /\ data = [f \in File |-> IF f \notin legacy THEN Absent ELSE
                CASE f = "appx.db" -> IF "appx.db-wal" \in legacy THEN "part" ELSE "all"
                  [] f \in {"cert.pem", "key.pem"} -> k
                  [] OTHER -> "old"]
          /\ password = (legacy # {})
    /\ internals = [f \in File |-> Absent]
    /\ tokenFile = Absent
    /\ renameFailed = FALSE
    /\ token = Absent
    /\ pair = Absent
    /\ config \in Config
    /\ recreate \in BOOLEAN
    /\ engine = "up"
    /\ container = Absent
    /\ pc = "down"
    /\ next = 1
    /\ faults = 0

\* One of the things that go wrong.
Fault ==
    /\ faults < MaxFaults
    /\ faults' = faults + 1

\* systemd starts appx; nothing is in memory.
Start ==
    /\ Stopped
    /\ pc' = "move"
    /\ next' = 1
    /\ token' = Absent
    /\ pair' = Absent
    /\ UNCHANGED <<disk, settings, runtime, faults>>

\* Mutant: the migration ends with the first file that is there.
MoveFirst ==
    /\ pc = "move"
    /\ LET f == files[next]
           due == data[f] # Absent /\ internals[f] = Absent
       IN  /\ data' = [data EXCEPT ![f] = IF due THEN Absent ELSE data[f]]
           /\ internals' = [internals EXCEPT ![f] = IF due THEN data[f] ELSE internals[f]]
           /\ pc' = IF due \/ next = Len(files) THEN "open" ELSE "move"
    /\ next' = next + 1
    /\ UNCHANGED <<password, tokenFile, renameFailed, memory, settings, runtime, faults>>

\* migrateDataDir, one file: skipped, moved, or left behind with a message.
MoveFile ==
    /\ pc = "move"
    /\ LET f == files[next]
           due == data[f] # Absent /\ internals[f] = Absent
       IN  \/ ~due /\ UNCHANGED <<data, internals, renameFailed, faults>>
           \/ due /\ data' = [data EXCEPT ![f] = Absent]
                  /\ internals' = [internals EXCEPT ![f] = data[f]]
                  /\ UNCHANGED <<renameFailed, faults>>
           \/ due /\ Fault
                  /\ renameFailed' = TRUE
                  /\ UNCHANGED <<data, internals>>
    /\ next' = next + 1
    /\ pc' = IF next = Len(files) THEN "open" ELSE "move"
    /\ UNCHANGED <<password, tokenFile, memory, settings, runtime>>

\* What SQLite finds: a missing database is created, and one whose log is not
\* beside it lacks the log's transactions ("cut").
Opened ==
    CASE internals["appx.db"] = Absent -> "new"
      [] internals["appx.db"] = "part" -> IF internals["appx.db-wal"] = "old" THEN "all" ELSE "cut"
      [] OTHER -> internals["appx.db"]

OpenDb ==
    /\ pc = "open"
    /\ internals' = [internals EXCEPT !["appx.db"] = Opened,
                                      !["appx.db-wal"] = "own", !["appx.db-shm"] = "own"]
    /\ password' = (password /\ internals["appx.db"] # Absent)
    /\ pc' = "token"
    /\ UNCHANGED <<next, data, tokenFile, renameFailed, memory, settings, runtime, faults>>

\* Random tokens and keys differ from all that exist.
Fresh(S, old) == S \ old

\* LoadOrCreateToken; a file without a token in it counts as missing.
LoadToken ==
    /\ pc = "token"
    /\ \/ /\ tokenFile \in Token
          /\ token' = tokenFile
          /\ pc' = "gateway"
          /\ UNCHANGED tokenFile
       \/ /\ tokenFile \notin Token
          /\ \E t \in Fresh(Token, {c.token : c \in {container} \ {Absent}}) : token' = t
          /\ tokenFile' = "empty"
          /\ pc' = "writeToken"
    /\ UNCHANGED <<next, data, internals, password, renameFailed, pair, settings, runtime, faults>>

\* Mutant: the token is used and not stored.
ForgetToken ==
    /\ pc = "writeToken"
    /\ pc' = "gateway"
    /\ UNCHANGED <<next, disk, memory, settings, runtime, faults>>

\* The token is written, or only a part of it, which a later start will take for a token.
WriteToken ==
    /\ pc = "writeToken"
    /\ \/ tokenFile' = token /\ pc' = "gateway" /\ UNCHANGED faults
       \/ /\ Fault
          /\ tokenFile' \in Fresh(Token, {token})
          /\ pc' = "down"
    /\ UNCHANGED <<next, data, internals, password, renameFailed, memory, settings, runtime>>

\* The bridge gateway is asked of the engine unless an address is configured.
BridgeGateway ==
    /\ pc = "gateway"
    /\ pc' = IF config.egressBind \/ engine = "up" THEN "password" ELSE "down"
    /\ UNCHANGED <<next, disk, memory, settings, runtime, faults>>

\* IsPasswordSet, GeneratePassword, SetPassword.
FirstPassword ==
    /\ pc = "password"
    /\ password' = TRUE
    /\ pc' = IF password THEN EnsurePc ELSE "createPasswordFile"
    /\ UNCHANGED <<next, data, internals, tokenFile, renameFailed, memory, settings, runtime, faults>>

WritePasswordFile ==
    /\ \/ /\ pc = "createPasswordFile"
          /\ internals' = [internals EXCEPT !["initial_password"] = "torn"]
          /\ pc' = "writePasswordFile"
       \/ /\ pc = "writePasswordFile"
          /\ internals' = [internals EXCEPT !["initial_password"] = "whole"]
          /\ pc' = EnsurePc
    /\ UNCHANGED <<next, data, password, tokenFile, renameFailed, memory, settings, runtime, faults>>

\* Mutant: drift is repaired without being asked.
InspectAndRepair ==
    /\ pc = "inspect"
    /\ \/ engine = "down" /\ pc' = "down"
       \/ engine = "up" /\ container = Absent /\ pc' = "run"
       \/ engine = "up" /\ container # Absent /\ Drifts /\ pc' = "rm"
       \/ engine = "up" /\ container # Absent /\ ~Drifts
            /\ pc' = IF Running THEN "wait" ELSE "start"
    /\ UNCHANGED <<next, disk, memory, settings, runtime, faults>>

\* Status and the decisions of EnsureRunning.
Inspect ==
    /\ pc = "inspect"
    /\ \/ engine = "down" /\ pc' = "down"
       \/ engine = "up" /\ container = Absent /\ pc' = "run"
       \/ engine = "up" /\ container # Absent /\ Drifts /\ pc' = "refused"
       \/ engine = "up" /\ container # Absent /\ ~Drifts
            /\ pc' = IF Running THEN "wait" ELSE "start"
    /\ UNCHANGED <<next, disk, memory, settings, runtime, faults>>

\* Mutant: a missing container is an error.
RemoveExisting ==
    /\ pc = "rm"
    /\ \/ engine = "up" /\ container # Absent /\ container' = Absent /\ pc' = "run"
       \/ (engine = "down" \/ container = Absent) /\ UNCHANGED container /\ pc' = "down"
    /\ UNCHANGED <<next, disk, memory, settings, engine, faults>>

\* Recreate's rm -f, which does not mind a container that is not there.
RemoveContainer ==
    /\ pc = "rm"
    /\ \/ engine = "up" /\ container' = Absent /\ pc' = "run"
       \/ engine = "down" /\ UNCHANGED container /\ pc' = "down"
    /\ UNCHANGED <<next, disk, memory, settings, engine, faults>>

\* create: docker run.  It can fail after the engine has made the container,
\* for example because a port is taken.
RunContainer ==
    /\ pc = "run"
    /\ \/ /\ engine = "up"
          /\ container' = BuildSpec("starting")
          /\ pc' = "wait"
          /\ UNCHANGED faults
       \/ /\ engine = "up"
          /\ Fault
          /\ container' = BuildSpec("created")
          /\ pc' = "down"
       \/ /\ engine = "down"
          /\ pc' = "down"
          /\ UNCHANGED <<container, faults>>
    /\ UNCHANGED <<next, disk, memory, settings, engine>>

\* start: docker start, which leaves a running container alone.
StartContainer ==
    /\ pc = "start"
    /\ \/ /\ engine = "up" /\ container # Absent
          /\ container' = IF Running THEN container ELSE [container EXCEPT !.state = "starting"]
          /\ pc' = "wait"
       \/ /\ engine = "down" \/ container = Absent
          /\ pc' = "down"
          /\ UNCHANGED container
    /\ UNCHANGED <<next, disk, memory, settings, engine, faults>>

Healthy == container # Absent /\ container.state = "healthy"

\* waitHealthy: any HTTP answer to the probe ends the wait, also one from another
\* process that has the port; that there is one is a fault.
WaitHealthy ==
    /\ pc = "wait"
    /\ \/ Healthy /\ UNCHANGED faults
       \/ ~Healthy /\ Fault
    /\ pc' = "reconcile"
    /\ UNCHANGED <<next, disk, memory, settings, runtime>>

\* Its timeout; that a starting agent-server is too slow is a fault.
ReadyTimeout ==
    /\ pc = "wait"
    /\ ~Healthy
    /\ pc' = "down"
    /\ \/ /\ container # Absent => ~Running
          /\ UNCHANGED faults
       \/ /\ container # Absent /\ Running
          /\ Fault
    /\ UNCHANGED <<next, disk, memory, settings, runtime>>

\* Best effort; module ProjectManager has the details.
ReconcileProjects ==
    /\ pc = "reconcile"
    /\ pc' = "tls"
    /\ UNCHANGED <<next, disk, memory, settings, runtime, faults>>

\* Mutant: the key is not looked at.
CertificateIsThere == internals["cert.pem"] \in Pair

CertificateLoads ==
    internals["cert.pem"] \in Pair /\ internals["key.pem"] = internals["cert.pem"]

\* LoadOrGenerateSelfSigned: the stored pair, unless it expires within a week.
LoadCertificate ==
    /\ pc = "tls"
    /\ \/ /\ CertificateLoads
          /\ pair' = internals["cert.pem"]
          /\ pc' = "serving"
       \/ /\ \E k \in Fresh(Pair, {internals["cert.pem"], internals["key.pem"]}) : pair' = k
          /\ pc' = "createCert"
    /\ UNCHANGED <<next, disk, token, settings, runtime, faults>>

\* generateAndSave: first the certificate, then the key.
SaveStep(from, to, f, content) ==
    /\ pc = from
    /\ internals' = [internals EXCEPT ![f] = content]
    /\ pc' = to

SaveCertificate ==
    /\ \/ SaveStep("createCert", "writeCert", "cert.pem", "torn")
       \/ SaveStep("writeCert", "createKey", "cert.pem", pair)
       \/ SaveStep("createKey", "writeKey", "key.pem", "torn")
       \/ SaveStep("writeKey", "serving", "key.pem", pair)
    /\ UNCHANGED <<next, data, password, tokenFile, renameFailed, memory, settings, runtime, faults>>

-------------------------------------------------------------------------------

\* The process ends; files and the container stay as they are.
Crash ==
    /\ ~Stopped
    /\ Fault
    /\ pc' = "down"
    /\ UNCHANGED <<next, disk, memory, settings, runtime>>

\* A new version, another image or port, the flag to recreate.
Configure ==
    /\ Stopped
    /\ Fault
    /\ config' \in Config
    /\ recreate' \in BOOLEAN
    /\ UNCHANGED <<pc, next, disk, memory, runtime>>

AgentReady ==
    /\ container # Absent
    /\ container.state = "starting"
    /\ container' = [container EXCEPT !.state = "healthy"]
    /\ UNCHANGED <<pc, next, disk, memory, settings, engine, faults>>

\* The container ends, and the engine goes down with it or stays.
ContainerExits ==
    /\ Fault
    /\ engine = "up"
    /\ engine' \in {"up", "down"}
    /\ \/ /\ container # Absent /\ Running
          /\ container' = [container EXCEPT !.state = "exited"]
       \/ /\ container # Absent => ~Running
          /\ engine' = "down"
          /\ UNCHANGED container
    /\ UNCHANGED <<pc, next, disk, memory, settings>>

\* RestartPolicy: the engine starts a container that has exited.
EngineRestarts ==
    /\ engine = "up"
    /\ container # Absent
    /\ container.state = "exited"
    /\ container' = [container EXCEPT !.state = "starting"]
    /\ UNCHANGED <<pc, next, disk, memory, settings, engine, faults>>

EngineStarts ==
    /\ engine = "down"
    /\ engine' = "up"
    /\ UNCHANGED <<pc, next, disk, memory, settings, container, faults>>

\* Somebody removes the container by hand.
OperatorRemoves ==
    /\ Fault
    /\ engine = "up"
    /\ container # Absent
    /\ container' = Absent
    /\ UNCHANGED <<pc, next, disk, memory, settings, engine>>

Boots ==
    \/ MoveFile \/ OpenDb \/ LoadToken \/ WriteToken \/ BridgeGateway
    \/ FirstPassword \/ WritePasswordFile
    \/ Inspect \/ RemoveContainer \/ RunContainer \/ StartContainer
    \/ WaitHealthy \/ ReadyTimeout \/ ReconcileProjects
    \/ LoadCertificate \/ SaveCertificate

Environment ==
    \/ Crash \/ Configure \/ AgentReady \/ ContainerExits \/ EngineRestarts
    \/ EngineStarts \/ OperatorRemoves

Next == Start \/ Boots \/ Environment

Spec == Init /\ [][Next]_vars

\* systemd restarts appx, appx runs, the engine is started again when it is
\* down, and the agent-server comes up.
FairSpec ==
    /\ Spec
    /\ WF_vars(Start)
    /\ WF_vars(Boots)
    /\ WF_vars(EngineStarts)
    /\ WF_vars(AgentReady)

-------------------------------------------------------------------------------

BootPc == {"down", "refused", "move", "open", "token", "writeToken", "gateway", "password",
           "createPasswordFile", "writePasswordFile", "inspect", "rm", "run", "start", "wait",
           "reconcile", "tls", "createCert", "writeCert", "createKey", "writeKey", "serving"}

\* After ensureOuterContainer has returned.
Ensured == pc \in {"reconcile", "tls", "createCert", "writeCert", "createKey", "writeKey", "serving"}

\* After LoadOrCreateToken has returned.
HasToken == Ensured \/ pc \in {"gateway", "password", "createPasswordFile", "writePasswordFile",
                             "inspect", "rm", "run", "start", "wait"}

\* Types: files have contents that the code can have written, and once the
\* token has been loaded there is one.
BootTypeOK ==
    /\ pc \in BootPc
    /\ next \in 1 .. Len(files) + 1
    /\ pc = "move" => next <= Len(files)
    /\ data \in [File -> Pair \cup {Absent, "part", "all", "old"}]
    /\ internals \in [File -> Pair \cup {Absent, "part", "all", "cut", "new", "old", "own", "torn", "whole"}]
    /\ password \in BOOLEAN
    /\ tokenFile \in Token \cup {Absent, "empty"}
    /\ token \in Token \cup {Absent}
    /\ HasToken \/ pc = "writeToken" => token \in Token
    /\ pair \in Pair \cup {Absent}
    /\ config \in Config
    /\ recreate \in BOOLEAN
    /\ engine \in {"up", "down"}
    /\ container \in Container \cup {Absent}
    /\ renameFailed \in BOOLEAN
    /\ faults \in 0 .. MaxFaults

\* The token with which appx calls the agent-server is the one its container
\* was created with, whatever start created it and wherever earlier starts
\* ended.  EnsureRunning does not compare tokens and the probe is content with
\* a 401, so nothing else would notice (LoadOrCreateToken, driftReasons).
TokenAgrees == HasToken /\ container # Absent => container.token = token

\* Once EnsureRunning or Recreate has succeeded, a container that is there has
\* the configured image and publishes the API port and every port of the
\* range, though driftReasons looks at the ends of the range only.
ContainerFits ==
    Ensured /\ container # Absent =>
        /\ container.image = config.image
        /\ Published(config) \subseteq container.published

\* The server presents a certificate whose key it has, and the files hold the
\* same pair, so that the browser's trust survives a restart; earlier starts
\* may have ended between the two files (generateAndSave).
ServesStoredPair ==
    pc = "serving" => pair \in Pair /\ internals["cert.pem"] = pair /\ internals["key.pem"] = pair

\* Unless a rename failed, moving an old installation never loses data,
\* wherever it is interrupted: no new database is made while the old one is
\* left behind, and none is opened without its log (migrateDataDir, db.Open).
MigrationKeepsData ==
    /\ internals["appx.db"] = "new" /\ ~renameFailed => data["appx.db"] = Absent
    /\ internals["appx.db"] = "cut" => renameFailed

\* appx removes or replaces a container only when it was told to recreate it;
\* a start that finds drift leaves it alone (EnsureRunning, SpecDriftError).
OnlyAskedRemoval ==
    [][pc' # pc /\ container # Absent /\ ~recreate
         => container' # Absent /\ container'.token = container.token
            /\ container'.image = container.image]_vars

\* Whatever crashes and failures come first, appx ends up serving, or at every
\* start refuses a container that does not fit (Restart=on-failure,
\* EnsureRunning, Recreate).
Recovers == <>[](pc = "serving") \/ []<>(pc = "refused")

(***************************************************************************)
(* What the comments promise and the code does not keep.                   *)
(***************************************************************************)

\* README.md: on first run the password is written to initial_password.  A
\* crash after SetPassword leaves a password that nobody knows.
FirstPasswordKnown ==
    pc = "serving" /\ internals["appx.db"] = "new" => internals["initial_password"] = "whole"

(***************************************************************************)
(* Strengthenings, for the proofs in BootProofs.                           *)
(***************************************************************************)

\* The file holds the token of the container, also while appx is down, and
\* never a token that was not loaded.
TokenKept ==
    /\ container # Absent => tokenFile = container.token
    /\ HasToken => tokenFile = token
    /\ pc = "writeToken" => tokenFile = "empty"

\* What Inspect has found, or RunContainer made, stays true.
FitsFrom ==
    (Ensured \/ pc \in {"start", "wait"}) /\ container # Absent =>
        /\ container.image = config.image
        /\ Published(config) \subseteq container.published

\* The certificate is complete before the key is written.
PairInv ==
    /\ pc \in {"createCert", "writeCert"} => pair \in Pair
    /\ pc \in {"createKey", "writeKey"} => pair \in Pair /\ internals["cert.pem"] = pair
    /\ ServesStoredPair

\* While no rename fails, no file is in both places, what migrateDataDir has
\* passed is gone from the data directory, and a database that needs its log
\* has it beside it or still to come.
MoveInv ==
    ~renameFailed =>
        /\ \A f \in File : data[f] # Absent => internals[f] = Absent
        /\ pc = "move" => \A i \in 1 .. next - 1 : data[files[i]] = Absent
        /\ pc \notin {"move", "down", "refused"} => \A f \in File : data[f] = Absent
        /\ "part" \in {data["appx.db"], internals["appx.db"]}
              => "old" \in {data["appx.db-wal"], internals["appx.db-wal"]}
        /\ internals["appx.db"] = "new" => \A f \in File : data[f] = Absent
\* rm is reached only with the flag, run only without a container.
RemovalInv == (pc = "rm" => recreate) /\ (pc = "run" => container = Absent)
=============================================================================
