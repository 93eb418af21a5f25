------------------------------ MODULE BootProofs ------------------------------
(***************************************************************************)
(* Proofs about the start of appx, for every set of tokens, key pairs and  *)
(* configurations and any number of faults.                                *)
(***************************************************************************)
EXTENDS Boot, TLAPS

USE DEF disk, memory, settings, runtime, vars

LEMMA FileNames ==
    File = {"appx.db", "appx.db-wal", "appx.db-shm", "cert.pem", "key.pem", "initial_password"}
    /\ Len(files) = 6
    /\ \A i \in 1 .. 6 : files[i] \in File
  BY DEF File, files

LEMMA InitType == Init => BootTypeOK
<1> SUFFICES ASSUME Init
             PROVE  BootTypeOK
  OBVIOUS
<1>1. data \in [File -> Pair \cup {Absent, "part", "all", "old"}] /\ password \in BOOLEAN
  BY FileNames DEF Init
<1>2. internals \in [File -> {Absent}]
  BY DEF Init
<1>3. /\ pc = "down" /\ next = 1 /\ tokenFile = Absent /\ token = Absent /\ pair = Absent
      /\ config \in Config /\ recreate \in BOOLEAN /\ engine = "up" /\ container = Absent
      /\ renameFailed = FALSE /\ faults = 0
  BY DEF Init
<1>4. internals \in [File -> Pair \cup {Absent, "part", "all", "cut", "new", "old", "own", "torn", "whole"}]
  BY <1>2
<1>5. next \in 1 .. Len(files) + 1 /\ next <= Len(files) /\ faults \in 0 .. MaxFaults
  BY <1>3, FileNames, BootAssumption
<1>6. pc \in BootPc /\ ~HasToken /\ pc # "writeToken"
  BY <1>3 DEF BootPc, HasToken, Ensured
<1> QED
  BY <1>1, <1>3, <1>4, <1>5, <1>6 DEF BootTypeOK

LEMMA TypeStep ==
    ASSUME BootTypeOK, [Next]_vars
    PROVE  BootTypeOK'
<1> USE BootAssumption, FileNames DEF BootTypeOK, BootPc, HasToken, Ensured, Stopped
<1>1. CASE Start
  BY <1>1 DEF Start
<1>2. CASE MoveFile
  <2>1. next \in 1 .. 6
    BY <1>2 DEF MoveFile
  <2>2. files[next] \in File
    BY <2>1
  <2>3. data' \in [File -> Pair \cup {Absent, "part", "all", "old"}]
    BY <1>2, <2>2 DEF MoveFile
  <2>4. internals' \in [File -> Pair \cup {Absent, "part", "all", "cut", "new", "old", "own", "torn", "whole"}]
    BY <1>2, <2>2 DEF MoveFile
  <2>5. next' \in 1 .. Len(files) + 1 /\ (pc' = "move" => next' <= Len(files))
    BY <1>2, <2>1 DEF MoveFile
  <2>6. faults' \in 0 .. MaxFaults
    BY <1>2 DEF MoveFile, Fault
  <2>9. renameFailed' \in BOOLEAN
    BY <1>2, Zenon DEF MoveFile
  <2>7. pc' \in {"move", "open"}
    BY <1>2 DEF MoveFile
  <2>8. UNCHANGED <<password, tokenFile, memory, settings, runtime>>
    BY <1>2 DEF MoveFile
  <2> QED
    BY <2>3, <2>4, <2>5, <2>6, <2>7, <2>8, <2>9
<1>3. CASE OpenDb
  BY <1>3 DEF OpenDb, Opened
<1>4. CASE LoadToken
  BY <1>4 DEF LoadToken, Fresh
<1>5. CASE WriteToken
  BY <1>5 DEF WriteToken, Fresh, Fault
<1>6. CASE BridgeGateway
  BY <1>6 DEF BridgeGateway
<1>7. CASE FirstPassword \/ WritePasswordFile
  BY ZenonT(40), <1>7 DEF FirstPassword, WritePasswordFile, EnsurePc
<1>8. CASE Inspect
  BY <1>8 DEF Inspect
<1>9. CASE RemoveContainer
  BY <1>9 DEF RemoveContainer
<1>10. CASE RunContainer
  BY <1>10 DEF RunContainer, BuildSpec, Container, Fault
<1>11. CASE StartContainer
  BY <1>11 DEF StartContainer, Container
<1>12. CASE WaitHealthy \/ ReadyTimeout \/ ReconcileProjects
  BY <1>12 DEF WaitHealthy, ReadyTimeout, ReconcileProjects, Fault
<1>13. CASE LoadCertificate
  BY <1>13 DEF LoadCertificate, CertificateLoads, Fresh
<1>14. CASE SaveCertificate
  BY <1>14 DEF SaveCertificate, SaveStep
<1>15. CASE Crash \/ Configure
  BY <1>15 DEF Crash, Configure, Fault
<1>16. CASE AgentReady \/ ContainerExits \/ EngineRestarts
  BY <1>16 DEF AgentReady, ContainerExits, EngineRestarts, Container, Fault
<1>17. CASE EngineStarts \/ OperatorRemoves
  BY <1>17 DEF EngineStarts, OperatorRemoves, Fault
<1>18. CASE UNCHANGED vars
  BY <1>18
<1> QED
  BY <1>1, <1>2, <1>3, <1>4, <1>5, <1>6, <1>7, <1>8, <1>9, <1>10, <1>11, <1>12, <1>13,
     <1>14, <1>15, <1>16, <1>17, <1>18 DEF Next, Boots, Environment

(***************************************************************************)
(* Types hold in every state of every behaviour of the start (main).       *)
(***************************************************************************)
THEOREM BootTypeCorrect == Spec => []BootTypeOK
  BY InitType, TypeStep, PTL DEF Spec

-------------------------------------------------------------------------------

LEMMA TokenStep ==
    ASSUME BootTypeOK, TokenKept, [Next]_vars
    PROVE  TokenKept'
<1> USE BootAssumption DEF TokenKept, HasToken, Ensured, Stopped
<1>c. container \in Container \cup {Absent} /\ (container # Absent => container.token \in Token)
  BY DEF BootTypeOK, Container
<1>1. CASE Start \/ MoveFile \/ OpenDb
  BY <1>1 DEF Start, MoveFile, OpenDb
<1>2. CASE LoadToken
  \* A container has its token in the file, so a file without one has no container.
  <2>1. tokenFile \notin Token => container = Absent
    BY <1>c
  <2> QED
    BY <1>2, <2>1 DEF LoadToken
<1>3. CASE WriteToken
  <2>1. container = Absent
    BY <1>3, <1>c DEF WriteToken
  <2> QED
    BY <1>3, <2>1 DEF WriteToken
<1>4. CASE BridgeGateway \/ FirstPassword \/ WritePasswordFile
  BY <1>4 DEF BridgeGateway, FirstPassword, WritePasswordFile, EnsurePc
<1>5. CASE Inspect
  BY <1>5 DEF Inspect
<1>6. CASE RemoveContainer
  BY <1>6 DEF RemoveContainer
<1>7. CASE RunContainer
  BY <1>7 DEF RunContainer, BuildSpec
<1>8. CASE StartContainer
  BY <1>8, <1>c DEF StartContainer, Container
<1>9. CASE WaitHealthy \/ ReadyTimeout \/ ReconcileProjects
  BY <1>9 DEF WaitHealthy, ReadyTimeout, ReconcileProjects
<1>10. CASE LoadCertificate \/ SaveCertificate
  BY <1>10 DEF LoadCertificate, SaveCertificate, SaveStep
<1>11. CASE Crash \/ Configure \/ EngineStarts \/ OperatorRemoves
  BY <1>11 DEF Crash, Configure, EngineStarts, OperatorRemoves
<1>12. CASE AgentReady \/ ContainerExits \/ EngineRestarts
  BY <1>12, <1>c DEF AgentReady, ContainerExits, EngineRestarts, Container
<1>13. CASE UNCHANGED vars
  BY <1>13
<1> QED
  BY <1>1, <1>2, <1>3, <1>4, <1>5, <1>6, <1>7, <1>8, <1>9, <1>10, <1>11, <1>12, <1>13
     DEF Next, Boots, Environment

(***************************************************************************)
(* appx and its container agree on the token, wherever earlier starts      *)
(* ended: LoadOrCreateToken stores the token before create uses it.        *)
(***************************************************************************)
THEOREM TokenAgreesAlways == Spec => []TokenAgrees
<1>1. Init => TokenKept
  BY BootAssumption DEF Init, TokenKept, HasToken, Ensured
<1>2. TokenKept => TokenAgrees
  BY DEF TokenKept, TokenAgrees
<1> QED
  BY <1>1, <1>2, BootTypeCorrect, TokenStep, PTL DEF Spec

-------------------------------------------------------------------------------

\* The ends of the range are published only if all of it is: a container
\* publishes the range of one configuration.
LEMMA NoDriftFits ==
    ASSUME BootTypeOK, container # Absent, ~Drifts
    PROVE  container.image = config.image /\ Published(config) \subseteq container.published
<1>1. PICK c \in Config : container.published = Published(c)
  BY DEF BootTypeOK, Container
<1>2. config \in Config /\ {config.start, config.end, config.api, c.start, c.end, c.api} \subseteq Nat
  BY BootAssumption DEF BootTypeOK
<1>3. config.start \in c.start .. c.end /\ config.end \in c.start .. c.end
  BY <1>1, <1>2, PortsAssumption DEF Drifts, Published
<1>4. config.start .. config.end \subseteq c.start .. c.end
  BY <1>2, <1>3
<1> QED
  BY <1>1, <1>4 DEF Drifts, Published

LEMMA FitsStep ==
    ASSUME BootTypeOK, FitsFrom, [Next]_vars
    PROVE  FitsFrom'
<1> USE DEF FitsFrom, Ensured, Stopped
<1>c. container \in Container \cup {Absent}
  BY DEF BootTypeOK
<1>1. CASE Start \/ MoveFile \/ OpenDb \/ LoadToken \/ WriteToken
  BY <1>1 DEF Start, MoveFile, OpenDb, LoadToken, WriteToken
<1>2. CASE BridgeGateway \/ FirstPassword \/ WritePasswordFile
  BY <1>2 DEF BridgeGateway, FirstPassword, WritePasswordFile, EnsurePc
<1>3. CASE Inspect
  <2>1. CASE Drifts \/ container = Absent
    <3>1. pc' \in {"down", "run", "refused"}
      BY <1>3, <2>1 DEF Inspect
    <3> QED
      BY <3>1
  <2>2. CASE ~Drifts /\ container # Absent
    <3>1. container.image = config.image /\ Published(config) \subseteq container.published
      BY <2>2, NoDriftFits
    <3>2. UNCHANGED <<config, container>>
      BY <1>3 DEF Inspect
    <3> QED
      BY <3>1, <3>2 DEF Published
  <2> QED
    BY <2>1, <2>2
<1>4. CASE RemoveContainer
  BY <1>4 DEF RemoveContainer
<1>5. CASE RunContainer
  BY <1>5 DEF RunContainer, BuildSpec, Published
<1>6. CASE StartContainer
  BY <1>6, <1>c DEF StartContainer, Container, Published
<1>7. CASE WaitHealthy \/ ReadyTimeout \/ ReconcileProjects
  BY <1>7 DEF WaitHealthy, ReadyTimeout, ReconcileProjects, Published
<1>8. CASE LoadCertificate \/ SaveCertificate
  BY <1>8 DEF LoadCertificate, SaveCertificate, SaveStep, Published
<1>9. CASE Crash \/ Configure \/ EngineStarts \/ OperatorRemoves
  BY <1>9 DEF Crash, Configure, EngineStarts, OperatorRemoves, Published
<1>10. CASE AgentReady \/ ContainerExits \/ EngineRestarts
  BY <1>10, <1>c DEF AgentReady, ContainerExits, EngineRestarts, Container, Published
<1>11. CASE UNCHANGED vars
  BY <1>11 DEF Published
<1> QED
  BY <1>1, <1>2, <1>3, <1>4, <1>5, <1>6, <1>7, <1>8, <1>9, <1>10, <1>11
     DEF Next, Boots, Environment

(***************************************************************************)
(* A start that gets past EnsureRunning or Recreate has a container of the *)
(* configured image that publishes every configured port.                  *)
(***************************************************************************)
THEOREM ContainerFitsAlways == Spec => []ContainerFits
<1>1. Init => FitsFrom
  BY DEF Init, FitsFrom, Ensured
<1>2. FitsFrom => ContainerFits
  BY DEF FitsFrom, ContainerFits
<1> QED
  BY <1>1, <1>2, BootTypeCorrect, FitsStep, PTL DEF Spec

-------------------------------------------------------------------------------

LEMMA PairStep ==
    ASSUME BootTypeOK, PairInv, [Next]_vars
    PROVE  PairInv'
<1> USE FileNames DEF PairInv, ServesStoredPair, Stopped
<1>1. CASE Start \/ MoveFile \/ OpenDb \/ LoadToken \/ WriteToken
  BY <1>1 DEF Start, MoveFile, OpenDb, LoadToken, WriteToken
<1>2. CASE BridgeGateway \/ FirstPassword \/ WritePasswordFile
  BY <1>2 DEF BridgeGateway, FirstPassword, WritePasswordFile, EnsurePc
<1>3. CASE Inspect \/ RemoveContainer \/ RunContainer \/ StartContainer
  BY <1>3 DEF Inspect, RemoveContainer, RunContainer, StartContainer
<1>4. CASE WaitHealthy \/ ReadyTimeout \/ ReconcileProjects
  BY <1>4 DEF WaitHealthy, ReadyTimeout, ReconcileProjects
<1>5. CASE LoadCertificate
  BY <1>5 DEF LoadCertificate, CertificateLoads, Fresh
<1>6. CASE SaveCertificate
  BY <1>6 DEF SaveCertificate, SaveStep, BootTypeOK
<1>7. CASE Environment
  BY <1>7 DEF Environment, Crash, Configure, EngineStarts, OperatorRemoves, AgentReady,
     ContainerExits, EngineRestarts
<1>8. CASE UNCHANGED vars
  BY <1>8
<1> QED
  BY <1>1, <1>2, <1>3, <1>4, <1>5, <1>6, <1>7, <1>8 DEF Next, Boots

(***************************************************************************)
(* The certificate appx presents is the stored one, wherever earlier       *)
(* starts ended between the two files (LoadOrGenerateSelfSigned).          *)
(***************************************************************************)
THEOREM StoredPairServed == Spec => []ServesStoredPair
<1>1. Init => PairInv
  BY DEF Init, PairInv, ServesStoredPair
<1>2. PairInv => ServesStoredPair
  BY DEF PairInv
<1> QED
  BY <1>1, <1>2, BootTypeCorrect, PairStep, PTL DEF Spec

-------------------------------------------------------------------------------

LEMMA MoveFileKeeps ==
    ASSUME BootTypeOK, MoveInv, MigrationKeepsData, MoveFile
    PROVE  MoveInv' /\ MigrationKeepsData'
<1> USE BootAssumption, FileNames DEF MoveInv, MigrationKeepsData
<1> DEFINE f == files[next]
<1>1. next \in 1 .. 6 /\ f \in File /\ data \in [File -> Pair \cup {Absent, "part", "all", "old"}]
      /\ DOMAIN internals = File
  BY DEF BootTypeOK, MoveFile
<1>2. \A i \in 1 .. 6 : i <= next <=> i \in 1 .. next' - 1
  BY <1>1 DEF MoveFile
<1>3. CASE UNCHANGED <<data, internals>> /\ renameFailed'
  BY <1>3 DEF MoveFile
<1>4. CASE ~(data[f] # Absent /\ internals[f] = Absent) /\ UNCHANGED <<data, internals, renameFailed>>
  <2>1. ~renameFailed => data[f] = Absent
    BY <1>1, <1>4
  <2>2. ~renameFailed => \A i \in 1 .. next' - 1 : data'[files[i]] = Absent
    BY <1>1, <1>2, <1>4, <2>1 DEF MoveFile
  <2>3. pc' = "open" /\ ~renameFailed => \A g \in File : data'[g] = Absent
    BY <1>1, <2>2 DEF MoveFile, files
  <2> QED
    BY <1>4, <2>2, <2>3 DEF MoveFile
<1>5. CASE /\ data[f] # Absent /\ internals[f] = Absent
           /\ data' = [data EXCEPT ![f] = Absent]
           /\ internals' = [internals EXCEPT ![f] = data[f]]
           /\ UNCHANGED renameFailed
  <2>2. ~renameFailed => \A i \in 1 .. next' - 1 : data'[files[i]] = Absent
    BY <1>1, <1>2, <1>5 DEF MoveFile
  <2>3. pc' = "open" /\ ~renameFailed => \A g \in File : data'[g] = Absent
    BY <1>1, <2>2 DEF MoveFile, files
  <2>4. ~renameFailed => \A g \in File : data'[g] # Absent => internals'[g] = Absent
    BY <1>1, <1>5
  <2>5. ~renameFailed /\ "part" \in {data'["appx.db"], internals'["appx.db"]}
          => "old" \in {data'["appx.db-wal"], internals'["appx.db-wal"]}
    BY <1>1, <1>5
  <2>6. ~renameFailed /\ internals'["appx.db"] = "new" => \A g \in File : data'[g] = Absent
    BY <1>1, <1>5
  <2> QED
    BY <1>1, <1>5, <2>2, <2>3, <2>4, <2>5, <2>6 DEF MoveFile
<1> QED
  BY <1>3, <1>4, <1>5 DEF MoveFile

LEMMA MoveStep ==
    ASSUME BootTypeOK, MoveInv, MigrationKeepsData, [Next]_vars
    PROVE  MoveInv' /\ MigrationKeepsData'
<1> USE BootAssumption, FileNames DEF MoveInv, MigrationKeepsData, Stopped
<1>1. CASE Start
  BY <1>1 DEF Start, BootTypeOK
<1>2. CASE MoveFile
  BY <1>2, MoveFileKeeps
<1>3. CASE OpenDb
  BY <1>3 DEF OpenDb, Opened, BootTypeOK
<1>4. CASE LoadToken \/ WriteToken \/ BridgeGateway \/ FirstPassword
  BY <1>4 DEF LoadToken, WriteToken, BridgeGateway, FirstPassword, EnsurePc
<1>5. CASE WritePasswordFile
  BY <1>5 DEF WritePasswordFile, EnsurePc, BootTypeOK
<1>6. CASE Inspect \/ RemoveContainer \/ RunContainer \/ StartContainer
  BY <1>6 DEF Inspect, RemoveContainer, RunContainer, StartContainer
<1>7. CASE WaitHealthy \/ ReadyTimeout \/ ReconcileProjects \/ LoadCertificate
  BY <1>7 DEF WaitHealthy, ReadyTimeout, ReconcileProjects, LoadCertificate
<1>8. CASE SaveCertificate
  BY <1>8 DEF SaveCertificate, SaveStep, BootTypeOK
<1>9. CASE Environment
  BY <1>9 DEF Environment, Crash, Configure, EngineStarts, OperatorRemoves, AgentReady,
     ContainerExits, EngineRestarts
<1>10. CASE UNCHANGED vars
  BY <1>10
<1> QED
  BY <1>1, <1>2, <1>3, <1>4, <1>5, <1>6, <1>7, <1>8, <1>9, <1>10 DEF Next, Boots

(***************************************************************************)
(* As long as no rename fails, migrateDataDir and db.Open keep the data of *)
(* an old installation, wherever a start is interrupted.                   *)
(***************************************************************************)
THEOREM MigrationSafe == Spec => []MigrationKeepsData
<1>1. Init => MoveInv /\ MigrationKeepsData
  BY FileNames, BootAssumption DEF Init, MoveInv, MigrationKeepsData
<1> QED
  BY <1>1, BootTypeCorrect, MoveStep, PTL DEF Spec

-------------------------------------------------------------------------------

LEMMA RemovalStep ==
    ASSUME BootTypeOK, RemovalInv, [Next]_vars
    PROVE  RemovalInv'
<1> USE DEF RemovalInv, Stopped
<1>1. CASE Start \/ MoveFile \/ OpenDb \/ LoadToken \/ WriteToken \/ BridgeGateway
  BY <1>1 DEF Start, MoveFile, OpenDb, LoadToken, WriteToken, BridgeGateway
<1>2. CASE FirstPassword \/ WritePasswordFile
  BY <1>2 DEF FirstPassword, WritePasswordFile, EnsurePc
<1>3. CASE Inspect \/ RemoveContainer \/ RunContainer \/ StartContainer
  BY <1>3 DEF Inspect, RemoveContainer, RunContainer, StartContainer
<1>4. CASE WaitHealthy \/ ReadyTimeout \/ ReconcileProjects \/ LoadCertificate
  BY <1>4 DEF WaitHealthy, ReadyTimeout, ReconcileProjects, LoadCertificate
<1>5. CASE SaveCertificate
  BY <1>5 DEF SaveCertificate, SaveStep
<1>6. CASE Environment
  BY <1>6 DEF Environment, Crash, Configure, EngineStarts, OperatorRemoves, AgentReady,
     ContainerExits, EngineRestarts
<1>7. CASE UNCHANGED vars
  BY <1>7
<1> QED
  BY <1>1, <1>2, <1>3, <1>4, <1>5, <1>6, <1>7 DEF Next, Boots

LEMMA RemovalAsked ==
    ASSUME BootTypeOK, RemovalInv, [Next]_vars, pc' # pc, container # Absent, ~recreate
    PROVE  container' # Absent /\ container'.token = container.token
           /\ container'.image = container.image
<1> USE DEF RemovalInv
<1>c. container \in Container
  BY DEF BootTypeOK
<1>1. CASE StartContainer
  BY <1>1, <1>c, ContainerAssumption DEF StartContainer, Container
<1>2. CASE UNCHANGED container
  BY <1>2
<1>3. StartContainer \/ UNCHANGED container
  <2>1. CASE Start \/ MoveFile \/ OpenDb \/ LoadToken \/ WriteToken \/ BridgeGateway
    BY <2>1 DEF Start, MoveFile, OpenDb, LoadToken, WriteToken, BridgeGateway
  <2>2. CASE FirstPassword \/ WritePasswordFile \/ Inspect \/ RemoveContainer \/ RunContainer
    BY <2>2 DEF FirstPassword, WritePasswordFile, Inspect, RemoveContainer, RunContainer
  <2>3. CASE WaitHealthy \/ ReadyTimeout \/ ReconcileProjects \/ LoadCertificate \/ SaveCertificate
    BY <2>3 DEF WaitHealthy, ReadyTimeout, ReconcileProjects, LoadCertificate, SaveCertificate
  <2>4. CASE Environment
    BY <2>4 DEF Environment, Crash, Configure, EngineStarts, OperatorRemoves, AgentReady,
       ContainerExits, EngineRestarts
  <2> QED
    BY <2>1, <2>2, <2>3, <2>4 DEF Next, Boots
<1> QED
  BY <1>1, <1>2, <1>3

(***************************************************************************)
(* appx removes or replaces a container only when told to recreate it.     *)
(***************************************************************************)
THEOREM RemovesOnlyWhenAsked == Spec => OnlyAskedRemoval
<1>1. Init => RemovalInv
  BY DEF Init, RemovalInv
<1>2. BootTypeOK /\ RemovalInv /\ [Next]_vars
        => [pc' # pc /\ container # Absent /\ ~recreate
              => container' # Absent /\ container'.token = container.token
                 /\ container'.image = container.image]_vars
  BY RemovalAsked
<1> QED
  BY <1>1, <1>2, BootTypeCorrect, RemovalStep, PTL DEF Spec, OnlyAskedRemoval
=============================================================================
