------------------------- MODULE ProjectManagerProofs -------------------------
(***************************************************************************)
(* Proofs about the modules ProjectStore and ProjectManager, for every set *)
(* of ids and names, every port range, and rows of older versions as       *)
(* ProjectStore's Init has them.                                           *)
(***************************************************************************)
EXTENDS ProjectManager, TLAPS

-----------------------------------------------------------------------------
(* The projects table: no port is ever given out twice.                    *)

\* The initial rows are legacy rows with distinct PROD ports, or none, and no DEV
\* port.
LEMMA StoreInitial == StoreInit => StoreIInv
<1> SUFFICES ASSUME StoreInit PROVE StoreIInv
  OBVIOUS
<1> USE StoreAssumption DEF StoreInit
<1>1. \A i \in rows : project[i] \in LegacyRow
  BY DEF NoProject
<1>2. \A i \in rows : project[i].prod \in Port \cup {NoPort} /\ project[i].dev = NoPort
  BY <1>1 DEF LegacyRow
<1>3. \A r \in LegacyRow : r \in Row
  BY DEF LegacyRow, Row
<1>4. NoProject \in Row
  BY DEF NoProject, Row
<1>5. project \in [Id -> Row]
  BY <1>3, <1>4
<1>6. StoreTypeOK
  BY <1>5 DEF StoreTypeOK, TxPc
<1>7. PortsDisjoint
  BY <1>2 DEF PortsDisjoint, PortsOf
<1>8. SnapshotInv
  BY DEF SnapshotInv
<1>9. RowInv
  BY DEF RowInv
<1> QED
  BY <1>6, <1>7, <1>8, <1>9 DEF StoreIInv

\* The pair NextAvailablePortPair chooses is new to the database.
LEMMA BeginStep ==
  ASSUME StoreIInv, NEW i \in Id, NEW name \in Name, BeginCreate(i, name)
  PROVE  StoreIInv'
<1> USE StoreAssumption DEF StoreIInv
<1>1. CASE tx' = [tx EXCEPT ![i] = "failed"] /\ UNCHANGED <<project, rows, stale>>
  <2>1. StoreTypeOK'
    BY <1>1 DEF StoreTypeOK, TxPc
  <2>2. PortsDisjoint'
    BY <1>1 DEF PortsDisjoint, PortsOf
  <2>3. SnapshotInv' /\ RowInv'
    BY <1>1 DEF SnapshotInv, RowInv, UsedPorts, PortsOf, StoreTypeOK, BeginCreate
  <2> QED
    BY <2>1, <2>2, <2>3
<1>2. ASSUME NEW prod \in PublishedPort, NEW dev \in PublishedPort,
             NextAvailablePortPair(prod, dev),
             project' = [project EXCEPT ![i] = [name |-> name, prod |-> prod, dev |-> dev]],
             tx' = [tx EXCEPT ![i] = "open"],
             UNCHANGED <<rows, stale>>
      PROVE  StoreIInv'
  <2>1. prod \in Port /\ dev \in Port /\ prod # NoPort /\ dev # NoPort
    BY DEF PublishedPort, Port, NoPort
  <2>2. i \notin rows
    BY DEF RowInv, BeginCreate
  <2>3. /\ \A j \in Id : j # i => project'[j] = project[j] /\ tx'[j] = tx[j]
        /\ project'[i] = [name |-> name, prod |-> prod, dev |-> dev]
        /\ tx'[i] = "open"
    BY <1>2 DEF StoreTypeOK
  <2>4. \A j \in rows : j \in Id /\ project'[j] = project[j] /\ tx'[j] = tx[j]
    BY <2>2, <2>3 DEF StoreTypeOK
  <2>5. UsedPorts' = UsedPorts
    BY <1>2, <2>4 DEF UsedPorts, PortsOf
  <2>6. prod \notin UsedPorts /\ dev \notin UsedPorts /\ prod # dev
    BY <1>2 DEF NextAvailablePortPair, PublishedPort
  <2>7. StoreTypeOK'
    <3>1. [name |-> name, prod |-> prod, dev |-> dev] \in Row
      BY <2>1 DEF Row
    <3> QED
      BY <3>1, <1>2 DEF StoreTypeOK, TxPc
  <2>8. PortsDisjoint'
    BY <1>2, <2>4 DEF PortsDisjoint, PortsOf
  <2>9. RowInv'
    BY <1>2, <2>4 DEF RowInv
  <2>10. SnapshotInv'
    <3>1. SUFFICES ASSUME NEW j \in Id, tx'[j] = "open"
                   PROVE  /\ j \notin rows
                          /\ {project'[j].prod, project'[j].dev} \subseteq PublishedPort
                          /\ project'[j].prod # project'[j].dev
                          /\ j \notin stale => (PortsOf(j))' \cap UsedPorts = {}
      BY <1>2, <2>5 DEF SnapshotInv
    <3>2. CASE j = i
      BY <3>2, <2>2, <2>3, <2>6 DEF PortsOf
    <3>3. CASE j # i
      BY <3>1, <3>3, <2>3 DEF SnapshotInv, PortsOf
    <3> QED
      BY <3>2, <3>3
  <2> QED
    BY <2>7, <2>8, <2>9, <2>10
<1> QED
  BY <1>1, <1>2 DEF BeginCreate

\* An INSERT that succeeds had a current snapshot, so its ports are still new;
\* every other snapshot becomes out of date.
LEMMA CommitStep ==
  ASSUME StoreIInv, NEW i \in Id, CommitCreate(i)
  PROVE  StoreIInv'
<1> USE DEF StoreIInv
<1>1. /\ rows' = rows \cup {i}
      /\ tx' = [tx EXCEPT ![i] = "committed"]
      /\ stale' = stale \cup {j \in Id \ {i} : tx[j] = "open"}
      /\ project' = project
      /\ tx[i] = "open"
      /\ i \notin stale
  BY DEF CommitCreate, Committed, Insertable
<1>2. /\ i \notin rows
      /\ {project[i].prod, project[i].dev} \subseteq PublishedPort
      /\ project[i].prod # project[i].dev
      /\ PortsOf(i) \cap UsedPorts = {}
  BY <1>1 DEF SnapshotInv
<1>3. StoreTypeOK'
  BY <1>1 DEF StoreTypeOK, TxPc
<1>4. /\ tx'[i] = "committed"
      /\ \A j \in Id : j # i => tx'[j] = tx[j]
  BY <1>1 DEF StoreTypeOK
<1>5. PortsDisjoint'
  <2>1. \A j \in rows : PortsOf(i) \cap PortsOf(j) = {}
    BY <1>2 DEF UsedPorts
  <2>2. \A j : (PortsOf(j))' = PortsOf(j)
    BY <1>1 DEF PortsOf
  <2> QED
    BY <1>1, <1>2, <2>1, <2>2 DEF PortsDisjoint
<1>6. RowInv'
  <2>1. project[i].prod \in Port
    BY <1>2, StoreAssumption DEF PublishedPort, Port
  <2> QED
    BY <1>1, <1>4, <2>1 DEF RowInv, StoreTypeOK
<1>7. SnapshotInv'
  BY <1>1, <1>4 DEF SnapshotInv, StoreTypeOK
<1> QED
  BY <1>3, <1>5, <1>6, <1>7

LEMMA AbortStep ==
  ASSUME StoreIInv, NEW i \in Id, AbortCreate(i)
  PROVE  StoreIInv'
<1> USE DEF StoreIInv, AbortCreate
<1>1. /\ tx'[i] = "failed"
      /\ \A j \in Id : j # i => tx'[j] = tx[j]
      /\ i \notin rows
  BY DEF StoreTypeOK, SnapshotInv
<1>2. StoreTypeOK'
  BY DEF StoreTypeOK, TxPc
<1>3. PortsDisjoint'
  BY DEF PortsDisjoint, PortsOf
<1>4. RowInv'
  BY <1>1 DEF RowInv, StoreTypeOK
<1>5. SnapshotInv'
  BY <1>1 DEF SnapshotInv, UsedPorts, PortsOf
<1> QED
  BY <1>2, <1>3, <1>4, <1>5

LEMMA DeleteStep ==
  ASSUME StoreIInv, NEW i \in Id, DeleteRow(i)
  PROVE  StoreIInv'
<1> USE DEF StoreIInv, DeleteRow, Committed
<1>1. StoreTypeOK'
  BY DEF StoreTypeOK
<1>2. PortsDisjoint'
  BY DEF PortsDisjoint, PortsOf
<1>3. RowInv'
  BY DEF RowInv
<1>4. SnapshotInv'
  BY DEF SnapshotInv, UsedPorts, PortsOf, RowInv
<1> QED
  BY <1>1, <1>2, <1>3, <1>4

LEMMA CloseStep ==
  ASSUME StoreIInv, CloseDb
  PROVE  StoreIInv'
<1> USE DEF StoreIInv, CloseDb
<1>1. StoreTypeOK'
  BY DEF StoreTypeOK, TxPc
<1>2. PortsDisjoint'
  BY DEF PortsDisjoint, PortsOf
<1>3. RowInv'
  BY DEF RowInv, StoreTypeOK
<1>4. SnapshotInv'
  BY DEF SnapshotInv, StoreTypeOK
<1> QED
  BY <1>1, <1>2, <1>3, <1>4

LEMMA StoreStep ==
  ASSUME StoreIInv, [StoreNext]_dbVars
  PROVE  StoreIInv'
<1>1. CASE UNCHANGED dbVars
  <2>1. rows' = rows /\ project' = project /\ tx' = tx /\ stale' = stale
    BY <1>1 DEF dbVars
  <2>2. \A i : (PortsOf(i))' = PortsOf(i)
    BY <2>1 DEF PortsOf
  <2>3. UsedPorts' = UsedPorts
    BY <2>1, <2>2 DEF UsedPorts
  <2>4. StoreTypeOK' /\ PortsDisjoint' /\ RowInv'
    BY <2>1, <2>2 DEF StoreIInv, StoreTypeOK, PortsDisjoint, RowInv
  <2>5. SnapshotInv'
    BY <2>1, <2>2, <2>3 DEF StoreIInv, SnapshotInv
  <2> QED
    BY <2>4, <2>5 DEF StoreIInv
<1>2. CASE StoreNext
  BY <1>2, BeginStep, CommitStep, AbortStep, DeleteStep, CloseStep DEF StoreNext
<1> QED
  BY <1>1, <1>2

\* StoreIInv holds in every state of the store.
THEOREM StoreInductive == StoreSpec => []StoreIInv
<1>1. StoreInit => StoreIInv
  BY StoreInitial
<1>2. StoreIInv /\ [StoreNext]_dbVars => StoreIInv'
  BY StoreStep
<1> QED
  BY <1>1, <1>2, PTL DEF StoreSpec

\* Store.Create gives no port to two projects, nor twice to one, whatever the
\* port range and however transactions interleave (internal/project/store.go).
THEOREM PortsNeverShared == StoreSpec => []PortsDisjoint
<1>1. StoreIInv => PortsDisjoint
  BY DEF StoreIInv
<1> QED
  BY <1>1, StoreInductive, PTL

-----------------------------------------------------------------------------
(* The manager's behaviours are behaviours of the projects table, so what  *)
(* was shown of the table holds of the whole component.                    *)

\* Every step of the manager is a step of the table or leaves it alone.
LEMMA ManagerStep ==
  ASSUME rows \in SUBSET Id, Next
  PROVE  StoreNext \/ UNCHANGED dbVars
<1>1. CASE \E i \in Id : \E name \in Name : StartCreate(i, name)
  BY <1>1 DEF StartCreate, StoreNext
<1>2. CASE \E i \in Id : FinishStoreCreate(i)
  BY <1>2 DEF FinishStoreCreate, StoreNext
<1>3. CASE \E i \in Id : RollBack(i)
  BY <1>3 DEF RollBack, StoreNext
<1>4. CASE \E i \in Id : GetCreated(i) \/ EnsureProject(i) \/ Reconcile(i)
  BY <1>4 DEF GetCreated, EnsureProject, Reconcile
<1>5. CASE \E t \in Deleter : (\E i \in Id : StartDelete(t, i)) \/ Deregister(t)
  BY <1>5 DEF StartDelete, Deregister
<1>6. CASE \E t \in Deleter : DropRecord(t)
  <2> PICK t \in Deleter : DropRecord(t)
    BY <1>6
  <2> DEFINE i == delete[t].id
  <2>1. CASE DeleteRow(i)
    <3>1. i \in Id
      BY <2>1 DEF DeleteRow
    <3> QED
      BY <2>1, <3>1 DEF StoreNext
  <2> QED
    BY <2>1 DEF DropRecord
<1>7. CASE \E c \in late : DeliverLate(c)
  BY <1>7 DEF DeliverLate
<1>8. CASE Restart
  BY <1>8 DEF Restart, StoreNext
<1> QED
  BY <1>1, <1>2, <1>3, <1>4, <1>5, <1>6, <1>7, <1>8 DEF Next

\* Manager.Create and Manager.Delete, restarts included, use the projects table
\* only as ProjectStore allows.
THEOREM ManagerUsesStore == Spec => StoreSpec
<1>1. Init => StoreInit /\ StoreIInv
  BY StoreInitial DEF Init
<1>2. StoreIInv /\ [Next]_vars => [StoreNext]_dbVars
  <2>1. StoreIInv => rows \in SUBSET Id
    BY DEF StoreIInv, StoreTypeOK
  <2>2. UNCHANGED vars => UNCHANGED dbVars
    BY DEF vars
  <2> QED
    BY <2>1, <2>2, ManagerStep
<1>3. StoreIInv /\ [StoreNext]_dbVars => StoreIInv'
  BY StoreStep
<1> QED
  BY <1>1, <1>2, <1>3, PTL DEF Spec, StoreSpec

\* No two projects ever share a port, through the whole of Manager.Create and
\* Manager.Delete and their failures.
THEOREM ManagerPortsDisjoint == Spec => []PortsDisjoint
BY ManagerUsesStore, PortsNeverShared, PTL

-----------------------------------------------------------------------------
(* A failed Create leaves no row.                                          *)

\* FailedCreateLeavesNoRow is inductive beside the table's invariant, as long
\* as no SQL statement fails: a failed Get or DELETE does leave the row.
FailedCreateInv ==
    /\ StoreIInv
    /\ create \in [Id -> CreatePc]
    /\ FailedCreateLeavesNoRow

LEMMA FailedCreateStep ==
  ASSUME ~DbMayFail, FailedCreateInv, Next
  PROVE  FailedCreateInv'
<1> USE DEF FailedCreateInv, FailedCreateLeavesNoRow
<1>1. rows \in SUBSET Id /\ StoreIInv'
  BY ManagerStep, StoreStep DEF StoreIInv, StoreTypeOK
<1>2. \A i \in rows : tx[i] = "committed"
  BY DEF StoreIInv, RowInv
<1>3. ASSUME NEW i \in Id, NEW name \in Name, StartCreate(i, name)
      PROVE  FailedCreateInv'
  <2>1. i \notin rows /\ rows' = rows
    BY <1>2, <1>3 DEF StartCreate, BeginCreate
  <2> QED
    BY <1>1, <1>3, <2>1 DEF StartCreate, CreatePc
<1>4. ASSUME NEW i \in Id, FinishStoreCreate(i)
      PROVE  FailedCreateInv'
  <2>1. CASE CommitCreate(i)
    <3>1. rows' = rows \cup {i} /\ tx'[i] = "committed"
      BY <2>1 DEF CommitCreate, StoreIInv, StoreTypeOK
    <3> QED
      BY <1>1, <1>4, <3>1 DEF FinishStoreCreate, CreatePc
  <2>2. CASE AbortCreate(i)
    <3>1. rows' = rows /\ i \notin rows
      BY <1>2, <2>2 DEF AbortCreate
    <3> QED
      BY <1>1, <1>4, <3>1 DEF FinishStoreCreate, CreatePc
  <2> QED
    BY <1>4, <2>1, <2>2 DEF FinishStoreCreate
<1>5. ASSUME NEW i \in Id, GetCreated(i)
      PROVE  FailedCreateInv'
  BY <1>1, <1>5 DEF GetCreated, CreatePc, dbVars
<1>6. ASSUME NEW i \in Id, EnsureProject(i)
      PROVE  FailedCreateInv'
  BY <1>1, <1>6 DEF EnsureProject, CreatePc, dbVars
<1>7. ASSUME NEW i \in Id, RollBack(i)
      PROVE  FailedCreateInv'
  <2>1. rows' \subseteq rows /\ i \notin rows'
    BY <1>7 DEF RollBack, DeleteRow, dbVars
  <2> QED
    BY <1>1, <1>7, <2>1 DEF RollBack, CreatePc
<1>8. ASSUME NEW i \in Id, Reconcile(i)
      PROVE  FailedCreateInv'
  BY <1>1, <1>8 DEF Reconcile, dbVars
<1>9. ASSUME NEW t \in Deleter, (\E i \in Id : StartDelete(t, i)) \/ Deregister(t)
      PROVE  FailedCreateInv'
  BY <1>1, <1>9 DEF StartDelete, Deregister, dbVars
<1>10. ASSUME NEW t \in Deleter, DropRecord(t)
       PROVE  FailedCreateInv'
  <2>1. rows' \subseteq rows
    BY <1>10 DEF DropRecord, DeleteRow, dbVars
  <2> QED
    BY <1>1, <1>10, <2>1 DEF DropRecord
<1>11. ASSUME NEW c \in late, DeliverLate(c)
       PROVE  FailedCreateInv'
  BY <1>1, <1>11 DEF DeliverLate, dbVars
<1>12. CASE Restart
  BY <1>1, <1>12 DEF Restart, CloseDb, CreatePc
<1> QED
  BY <1>3, <1>4, <1>5, <1>6, <1>7, <1>8, <1>9, <1>10, <1>11, <1>12 DEF Next

\* While the database works, Manager.Create that returns an error leaves no row
\* (manager.go:79), however many deletes, restarts and late deliveries of its
\* agent-server calls interleave with it.
THEOREM FailedCreateIsUndone ==
  ASSUME ~DbMayFail
  PROVE  Spec => []FailedCreateLeavesNoRow
<1>1. Init => FailedCreateInv
  <2> SUFFICES ASSUME Init PROVE FailedCreateInv
    OBVIOUS
  <2>1. StoreIInv
    BY StoreInitial DEF Init
  <2>2. create \in [Id -> CreatePc] /\ FailedCreateLeavesNoRow
    BY DEF Init, CreatePc, FailedCreateLeavesNoRow
  <2> QED
    BY <2>1, <2>2 DEF FailedCreateInv
<1>2. FailedCreateInv /\ [Next]_vars => FailedCreateInv'
  <2> SUFFICES ASSUME FailedCreateInv, [Next]_vars PROVE FailedCreateInv'
    OBVIOUS
  <2>1. CASE UNCHANGED vars
    <3>1. UNCHANGED dbVars /\ UNCHANGED create
      BY <2>1 DEF vars, managerVars
    <3>2. StoreIInv'
      BY <3>1, StoreStep DEF FailedCreateInv
    <3> QED
      BY <3>1, <3>2 DEF FailedCreateInv, FailedCreateLeavesNoRow, dbVars
  <2> QED
    BY <2>1, FailedCreateStep
<1>3. FailedCreateInv => FailedCreateLeavesNoRow
  BY DEF FailedCreateInv
<1> QED
  BY <1>1, <1>2, <1>3, PTL DEF Spec

-----------------------------------------------------------------------------
(* The two places agree.                                                   *)

\* The environment: agent-server calls are not carried out after their caller
\* gave up, no project is deleted while it is created, and one at a time.
Orderly ==
    /\ ~LateDelivery
    /\ ~Overlap
    /\ \A s, t \in Deleter : s = t

ManagerType ==
    /\ create \in [Id -> CreatePc]
    /\ delete \in [Deleter -> [pc : {"idle"}] \cup [pc : {"deregister", "drop"}, id : Id]]
    /\ agent \in [Name -> Target \cup {NoTarget}]
    /\ late = {}
    /\ boot \in SUBSET Id
    /\ unsynced \in SUBSET Id
    /\ asked \in SUBSET Id
    /\ destroyed \in SUBSET Id

\* A row's name is its own: the agent-server knows projects by name only.
NameInv ==
    /\ \A i \in Id : i \in rows \/ tx[i] = "open" => project[i].name \in Name
    /\ \A i, j \in rows : project[i].name = project[j].name => i = j

\* Whoever calls the agent-server for a project does so while it has its row:
\* Create after the INSERT, the reconciliation at startup, which is alone, and
\* Delete, which is never about a project being created.
CallerInv ==
    /\ \A i \in Id : create[i] \in {"get", "ensure", "rollback"} => i \in rows
    /\ boot \subseteq rows
    /\ boot # {} => \A i \in Id : ~Creating(i)
    /\ \A t \in Deleter : delete[t].pc # "idle" =>
        /\ delete[t].id \in rows \cap asked
        /\ ~Creating(delete[t].id)
        /\ boot = {}

\* What the agent-server has is the row of its owner, which may be gone.
TargetInv ==
    \A n \in Name : agent[n].present =>
        LET o == agent[n].owner IN
        /\ tx[o] = "committed"
        /\ project[o].name = n
        /\ project[o].prod = agent[n].prod
        /\ project[o].dev = agent[n].dev

\* A project registered at the agent-server owns the entry under its name.
OwnerInv ==
    \A i \in rows :
        ~Creating(i) /\ create[i] # "failed" /\ i \notin asked \cup unsynced \cup boot =>
            agent[project[i].name].present /\ agent[project[i].name].owner = i

\* A created project loses its row, and any project its directory, only on the
\* user's demand; no entry is left once Delete reaches the record.
DeletedInv ==
    /\ \A i \in Id : create[i] = "created" /\ i \notin rows => i \in asked
    /\ \A i \in destroyed : tx[i] = "committed"
    /\ \A t \in Deleter : delete[t].pc = "drop" =>
        \A n \in Name : agent[n].present => agent[n].owner # delete[t].id

ManagerIInv ==
    /\ StoreIInv
    /\ ManagerType
    /\ NameInv
    /\ CallerInv
    /\ TargetInv
    /\ OwnerInv
    /\ DeletedInv
    /\ OnlyAskedDestroyed
    /\ DeletedIsGone

LEMMA ManagerInitial == Orderly /\ Init => ManagerIInv
<1> SUFFICES ASSUME Orderly, Init PROVE ManagerIInv
  OBVIOUS
<1> USE DEF Init
<1>1. StoreIInv /\ rows \in SUBSET Id
  BY StoreInitial DEF StoreIInv, StoreTypeOK
<1>2. \A n \in Name : agent[n] = NoTarget /\ ~agent[n].present
  BY DEF NoTarget
<1>3. \A i \in rows : project[i].name \in Name
  BY <1>1 DEF StoreInit, NoProject, LegacyRow
<1>4. ManagerType
  <2>1. [pc |-> "idle"] \in [pc : {"idle"}]
    OBVIOUS
  <2> QED
    BY <1>1, <2>1 DEF ManagerType, CreatePc
<1>5. NameInv
  BY <1>1, <1>3 DEF NameInv, StoreInit
<1>6. CallerInv
  BY <1>1 DEF CallerInv, Creating
<1>7. TargetInv /\ OwnerInv /\ DeletedIsGone
  BY <1>2 DEF TargetInv, OwnerInv, DeletedIsGone
<1>8. DeletedInv /\ OnlyAskedDestroyed
  BY <1>1 DEF DeletedInv, OnlyAskedDestroyed
<1> QED
  BY <1>1, <1>4, <1>5, <1>6, <1>7, <1>8 DEF ManagerIInv

\* An entry of the agent-server has an owner.
LEMMA EntryOwned ==
  ASSUME ManagerType, NEW n \in Name, agent[n].present
  PROVE  agent[n] \in Target /\ agent[n].owner \in Id
<1>1. agent[n] \in Target \cup {NoTarget}
  BY DEF ManagerType
<1>2. agent[n] # NoTarget
  BY DEF NoTarget
<1>3. \A e \in Target : e.owner \in Id
  BY DEF Target
<1> QED
  BY <1>1, <1>2, <1>3

\* Registering a project that has its row gives it the entry under its name and
\* takes it from no other project that has one.
LEMMA Registering ==
  ASSUME ManagerIInv, NEW i \in rows, Ensured(i), UNCHANGED dbVars
  PROVE  /\ agent' \in [Name -> Target \cup {NoTarget}]
         /\ TargetInv'
         /\ agent'[project[i].name].present /\ agent'[project[i].name].owner = i
         /\ \A n \in Name : agent'[n].present =>
                agent'[n].owner = i \/ agent'[n] = agent[n]
         /\ \A j \in rows : j # i => agent'[project[j].name] = agent[project[j].name]
<1> DEFINE n == project[i].name
           new == [present |-> TRUE, prod |-> project[i].prod,
                   dev |-> project[i].dev, owner |-> i]
<1> USE DEF ManagerIInv
<1>1. i \in Id /\ project[i] \in Row /\ rows \in SUBSET Id /\ tx[i] = "committed"
  BY DEF StoreIInv, StoreTypeOK, RowInv
<1>2. n \in Name
  BY <1>1 DEF NameInv
<1>3. new \in Target
  BY <1>1 DEF Target, Row
<1>4. agent' = [agent EXCEPT ![n] = new] /\ agent \in [Name -> Target \cup {NoTarget}]
  BY DEF Ensured, ManagerType
<1>5. agent'[n] = new /\ \A m \in Name : m # n => agent'[m] = agent[m]
  BY <1>2, <1>4
<1>6. agent' \in [Name -> Target \cup {NoTarget}]
  BY <1>3, <1>4
<1>7. TargetInv'
  BY <1>1, <1>5 DEF TargetInv, dbVars
<1>8. \A j \in rows : j # i => project[j].name \in Name /\ project[j].name # n
  BY <1>1 DEF NameInv
<1> QED
  BY <1>5, <1>6, <1>7, <1>8

\* Removing a project that has its row takes the entry from no other project
\* that has one, though the directory may be of one that has none any more.
LEMMA Deregistering ==
  ASSUME ManagerIInv, NEW i \in rows, Removed(i), UNCHANGED dbVars
  PROVE  /\ agent' \in [Name -> Target \cup {NoTarget}]
         /\ destroyed' \in SUBSET Id
         /\ TargetInv'
         /\ \A n \in Name : agent'[n].present => agent'[n] = agent[n] /\ agent'[n].owner # i
         /\ \A j \in rows : j # i => agent'[project[j].name] = agent[project[j].name]
         /\ \A o \in destroyed' \ destroyed : tx[o] = "committed" /\ (o \in rows => o = i)
<1> DEFINE n == project[i].name
<1> USE DEF ManagerIInv
<1>1. i \in Id /\ rows \in SUBSET Id
  BY DEF StoreIInv, StoreTypeOK
<1>2. n \in Name
  BY <1>1 DEF NameInv
<1>3. agent' = [agent EXCEPT ![n] = NoTarget] /\ agent \in [Name -> Target \cup {NoTarget}]
  BY DEF Removed, ManagerType
<1>4. ~agent'[n].present /\ \A m \in Name : m # n => agent'[m] = agent[m]
  BY <1>2, <1>3 DEF NoTarget
<1>5. agent' \in [Name -> Target \cup {NoTarget}]
  BY <1>3
<1>6. TargetInv'
  BY <1>4 DEF TargetInv, dbVars
<1>7. \A m \in Name : agent[m].present /\ agent[m].owner = i => m = n
  BY DEF TargetInv
<1>8. \A j \in rows : j # i => project[j].name \in Name /\ project[j].name # n
  BY <1>1 DEF NameInv
<1>9. ASSUME NEW o \in destroyed' \ destroyed
      PROVE  o \in Id /\ tx[o] = "committed" /\ (o \in rows => o = i)
  <2>1. agent[n].present /\ o = agent[n].owner
    BY <1>9 DEF Removed
  <2>2. o \in Id
    BY <1>2, <2>1, EntryOwned
  <2>3. tx[o] = "committed" /\ project[o].name = n
    BY <1>2, <2>1 DEF TargetInv
  <2> QED
    BY <2>2, <2>3 DEF NameInv
<1>10. destroyed' \in SUBSET Id
  BY <1>9 DEF ManagerType
<1> QED
  BY <1>4, <1>5, <1>6, <1>7, <1>8, <1>9, <1>10

\* Without late delivery a call is carried out before its caller goes on, or
\* not at all.
LEMMA EnsureOutcome ==
  ASSUME Orderly, NEW i
  PROVE  /\ CallSucceeds(EnsureCall(i)) => Ensured(i) /\ UNCHANGED <<destroyed, late>>
         /\ CallFails(EnsureCall(i)) => UNCHANGED <<destroyed, late>> /\ (Ensured(i) \/ UNCHANGED agent)
BY DEF CallSucceeds, CallFails, CarryOut, EnsureCall, Orderly

LEMMA DeleteOutcome ==
  ASSUME Orderly, NEW i
  PROVE  /\ CallSucceeds(DeleteCall(i)) => Removed(i) /\ UNCHANGED late
         /\ CallFails(DeleteCall(i)) => UNCHANGED late /\ (Removed(i) \/ UNCHANGED <<agent, destroyed>>)
BY DEF CallSucceeds, CallFails, CarryOut, DeleteCall, Orderly

-----------------------------------------------------------------------------
(* One lemma per action of Next.                                           *)

LEMMA StartCreateStep ==
  ASSUME Orderly, ManagerIInv, StoreIInv', NEW i \in Id, NEW name \in Name, StartCreate(i, name)
  PROVE  ManagerIInv'
<1> USE DEF ManagerIInv
<1>0. /\ rows \in SUBSET Id
      /\ create \in [Id -> CreatePc]
      /\ \A k \in rows : tx[k] = "committed"
      /\ \A k \in rows' : tx'[k] = "committed"
  BY DEF StoreIInv, StoreTypeOK, RowInv, ManagerType
<1> USE DEF StartCreate
<1>1. /\ tx[i] = "none" /\ i \notin rows /\ rows' = rows /\ boot = {}
      /\ tx'[i] \in {"open", "failed"}
      /\ \A j \in Id : j # i => tx'[j] = tx[j] /\ project'[j] = project[j]
      /\ tx'[i] = "open" => project'[i].name = name
  BY <1>0 DEF BeginCreate, StoreIInv, StoreTypeOK, Serving
<1>2. /\ create'[i] \in {"store", "failed"}
      /\ \A j \in Id : j # i => create'[j] = create[j]
      /\ create' \in [Id -> CreatePc]
  BY <1>0 DEF CreatePc
<1>3. \A j \in rows : j \in Id /\ j # i
  BY <1>0, <1>1
<1>4. \A j \in Id : j # i => (Creating(j))' = Creating(j)
  BY <1>2 DEF Creating
<1>5. ManagerType'
  BY <1>2 DEF ManagerType
<1>6. NameInv'
  BY <1>0, <1>1, <1>3 DEF NameInv
<1>7. CallerInv'
  <2>1. \A t \in Deleter : delete[t].pc # "idle" => delete[t].id \in Id /\ delete[t].id # i
    BY <1>3 DEF CallerInv
  <2> QED
    BY <1>1, <1>2, <1>4, <2>1 DEF CallerInv
<1>8. TargetInv'
  <2> SUFFICES ASSUME NEW n \in Name, agent[n].present
               PROVE  /\ tx'[agent[n].owner] = "committed"
                      /\ project'[agent[n].owner].name = n
                      /\ project'[agent[n].owner].prod = agent[n].prod
                      /\ project'[agent[n].owner].dev = agent[n].dev
    BY DEF TargetInv
  <2>1. agent[n].owner \in Id /\ agent[n].owner # i
    BY <1>1, EntryOwned DEF TargetInv
  <2> QED
    BY <1>1, <2>1 DEF TargetInv
<1>9. OwnerInv'
  BY <1>1, <1>2, <1>3, <1>4 DEF OwnerInv
<1>10. i \notin destroyed
  BY <1>1 DEF DeletedInv
<1>11. DeletedInv'
  BY <1>1, <1>2, <1>10 DEF DeletedInv, ManagerType
<1>12. OnlyAskedDestroyed'
  BY <1>1, <1>2, <1>10 DEF OnlyAskedDestroyed, ManagerType
<1>13. DeletedIsGone'
  BY <1>1, <1>2 DEF DeletedIsGone
<1> QED
  BY <1>5, <1>6, <1>7, <1>8, <1>9, <1>11, <1>12, <1>13

\* The INSERT refuses a name another row has.
LEMMA FinishStoreCreateStep ==
  ASSUME Orderly, ManagerIInv, StoreIInv', NEW i \in Id, FinishStoreCreate(i)
  PROVE  ManagerIInv'
<1> USE DEF ManagerIInv
<1>0. /\ rows \in SUBSET Id
      /\ create \in [Id -> CreatePc]
      /\ \A k \in rows : tx[k] = "committed"
      /\ \A k \in rows' : tx'[k] = "committed"
  BY DEF StoreIInv, StoreTypeOK, RowInv, ManagerType
<1> USE DEF FinishStoreCreate
<1>1. /\ tx[i] = "open" /\ i \notin rows /\ project' = project
      /\ \A j \in Id : j # i => tx'[j] = tx[j]
      /\ create[i] = "store"
  BY <1>0 DEF CommitCreate, AbortCreate, StoreIInv, StoreTypeOK
<1>2. boot = {}
  BY <1>1 DEF CallerInv, Creating
<1>3. \/ /\ rows' = rows \cup {i} /\ tx'[i] = "committed" /\ create'[i] = "get"
         /\ \A j \in rows : project[j].name # project[i].name
      \/ rows' = rows /\ tx'[i] = "failed" /\ create'[i] = "failed"
  BY <1>0 DEF CommitCreate, AbortCreate, Insertable, StoreIInv, StoreTypeOK
<1>4. /\ \A j \in Id : j # i => create'[j] = create[j]
      /\ create' \in [Id -> CreatePc]
  BY <1>0 DEF CreatePc
<1>5. \A j \in Id : j # i => (Creating(j))' = Creating(j) /\ (j \in rows' <=> j \in rows)
  BY <1>3, <1>4 DEF Creating
<1>6. (Creating(i))' \/ create'[i] = "failed"
  BY <1>3 DEF Creating
<1>7. ManagerType'
  BY <1>4 DEF ManagerType
<1>8. NameInv'
  BY <1>0, <1>1, <1>3 DEF NameInv
<1>9. CallerInv'
  <2>1. \A t \in Deleter : delete[t].pc # "idle" => delete[t].id \in Id /\ delete[t].id # i
    BY <1>0, <1>1 DEF CallerInv
  <2> QED
    BY <1>2, <1>3, <1>4, <1>5, <2>1 DEF CallerInv
<1>10. TargetInv'
  BY <1>1, EntryOwned DEF TargetInv
<1>11. OwnerInv'
  BY <1>0, <1>1, <1>2, <1>3, <1>4, <1>5, <1>6 DEF OwnerInv
<1>12. i \notin destroyed
  BY <1>1 DEF DeletedInv
<1>13. DeletedInv'
  BY <1>1, <1>3, <1>4, <1>5, <1>12 DEF DeletedInv, ManagerType
<1>14. OnlyAskedDestroyed'
  BY <1>4, <1>5, <1>12 DEF OnlyAskedDestroyed, ManagerType
<1>15. DeletedIsGone'
  BY <1>3, <1>4, <1>5 DEF DeletedIsGone
<1> QED
  BY <1>7, <1>8, <1>9, <1>10, <1>11, <1>13, <1>14, <1>15

LEMMA GetCreatedStep ==
  ASSUME Orderly, ManagerIInv, StoreIInv', NEW i \in Id, GetCreated(i)
  PROVE  ManagerIInv'
<1> USE DEF ManagerIInv
<1>0. /\ rows \in SUBSET Id
      /\ create \in [Id -> CreatePc]
      /\ \A k \in rows : tx[k] = "committed"
      /\ \A k \in rows' : tx'[k] = "committed"
  BY DEF StoreIInv, StoreTypeOK, RowInv, ManagerType
<1> USE DEF GetCreated, dbVars
<1>1. /\ create[i] = "get" /\ i \in rows
      /\ create'[i] \in {"ensure", "failed"}
      /\ \A j \in Id : j # i => create'[j] = create[j]
      /\ create' \in [Id -> CreatePc]
  BY <1>0 DEF CreatePc, CallerInv
<1>2. /\ \A j \in Id : j # i => (Creating(j))' = Creating(j)
      /\ Creating(i)
      /\ (Creating(i))' \/ create'[i] = "failed"
  BY <1>1 DEF Creating
<1>3. ManagerType'
  BY <1>1 DEF ManagerType
<1>4. NameInv' /\ TargetInv'
  BY DEF NameInv, TargetInv
<1>5. CallerInv'
  BY <1>0, <1>1, <1>2 DEF CallerInv
<1>6. OwnerInv'
  BY <1>0, <1>1, <1>2 DEF OwnerInv
<1>7. DeletedInv' /\ OnlyAskedDestroyed' /\ DeletedIsGone'
  BY <1>0, <1>1 DEF DeletedInv, OnlyAskedDestroyed, DeletedIsGone, ManagerType
<1> QED
  BY <1>3, <1>4, <1>5, <1>6, <1>7

\* Created or not, the project has its row, so the call is about its own name.
LEMMA EnsureProjectStep ==
  ASSUME Orderly, ManagerIInv, StoreIInv', NEW i \in Id, EnsureProject(i)
  PROVE  ManagerIInv'
<1> USE DEF ManagerIInv
<1>0. /\ rows \in SUBSET Id
      /\ create \in [Id -> CreatePc]
      /\ \A k \in rows : tx[k] = "committed"
      /\ \A k \in rows' : tx'[k] = "committed"
  BY DEF StoreIInv, StoreTypeOK, RowInv, ManagerType
<1> USE DEF EnsureProject
<1>1. /\ UNCHANGED <<dbVars, delete, boot, unsynced, asked, destroyed, late>>
      /\ create[i] = "ensure" /\ i \in rows
      /\ \/ create' = [create EXCEPT ![i] = "created"] /\ Ensured(i)
         \/ create' = [create EXCEPT ![i] = "rollback"] /\ (Ensured(i) \/ UNCHANGED agent)
  BY EnsureOutcome DEF CallerInv
<1>2. /\ rows' = rows /\ project' = project /\ tx' = tx
      /\ delete' = delete /\ boot' = boot /\ unsynced' = unsynced
      /\ asked' = asked /\ destroyed' = destroyed /\ late' = late
  BY <1>1 DEF dbVars
<1>3. /\ create'[i] \in {"created", "rollback"}
      /\ \A j \in Id : j # i => create'[j] = create[j]
      /\ create' \in [Id -> CreatePc]
  BY <1>0, <1>1 DEF CreatePc
<1>4. /\ Creating(i)
      /\ (Creating(i))' <=> create'[i] = "rollback"
      /\ \A j \in Id : j # i => (Creating(j))' = Creating(j)
  BY <1>1, <1>3 DEF Creating
<1>5. /\ agent' \in [Name -> Target \cup {NoTarget}]
      /\ TargetInv'
      /\ \A n \in Name : agent'[n].present => agent'[n].owner = i \/ agent'[n] = agent[n]
      /\ \A j \in rows : j # i => agent'[project[j].name] = agent[project[j].name]
      /\ create'[i] = "created" => agent'[project[i].name].present /\ agent'[project[i].name].owner = i
  <2>1. CASE Ensured(i)
    BY <1>1, <2>1, Registering
  <2>2. CASE UNCHANGED agent /\ create'[i] = "rollback"
    BY <1>2, <2>2 DEF TargetInv, ManagerType
  <2> QED
    BY <1>0, <1>1, <2>1, <2>2
<1>6. ManagerType'
  BY <1>2, <1>3, <1>5 DEF ManagerType
<1>7. NameInv'
  BY <1>2 DEF NameInv
<1>8. CallerInv'
  BY <1>0, <1>1, <1>2, <1>3, <1>4 DEF CallerInv
<1>9. OwnerInv'
  BY <1>0, <1>2, <1>3, <1>4, <1>5 DEF OwnerInv
<1>10. DeletedInv'
  <2>1. \A t \in Deleter : delete[t].pc # "idle" => delete[t].id # i
    BY <1>4 DEF CallerInv
  <2> QED
    BY <1>1, <1>2, <1>3, <1>5, <2>1 DEF DeletedInv
<1>11. OnlyAskedDestroyed'
  BY <1>1, <1>2, <1>3 DEF OnlyAskedDestroyed, ManagerType
<1>12. DeletedIsGone'
  BY <1>1, <1>2, <1>3, <1>5 DEF DeletedIsGone
<1> QED
  BY <1>5, <1>6, <1>7, <1>8, <1>9, <1>10, <1>11, <1>12

LEMMA RollBackStep ==
  ASSUME Orderly, ManagerIInv, StoreIInv', NEW i \in Id, RollBack(i)
  PROVE  ManagerIInv'
<1> USE DEF ManagerIInv
<1>0. /\ rows \in SUBSET Id
      /\ create \in [Id -> CreatePc]
      /\ \A k \in rows : tx[k] = "committed"
      /\ \A k \in rows' : tx'[k] = "committed"
  BY DEF StoreIInv, StoreTypeOK, RowInv, ManagerType
<1> USE DEF RollBack
<1>1. /\ rows' \subseteq rows /\ rows \subseteq rows' \cup {i}
      /\ project' = project /\ tx' = tx
      /\ delete' = delete /\ agent' = agent /\ boot' = boot /\ unsynced' = unsynced
      /\ asked' = asked /\ destroyed' = destroyed /\ late' = late
  BY DEF DeleteRow, dbVars
<1>2. /\ create[i] = "rollback"
      /\ create'[i] = "failed"
      /\ \A j \in Id : j # i => create'[j] = create[j]
      /\ create' \in [Id -> CreatePc]
  BY <1>0 DEF CreatePc
<1>3. /\ Creating(i)
      /\ ~(Creating(i))'
      /\ \A j \in Id : j # i => (Creating(j))' = Creating(j)
  BY <1>2 DEF Creating
<1>4. boot = {} /\ \A t \in Deleter : delete[t].pc # "idle" => delete[t].id \in Id /\ delete[t].id # i
  BY <1>0, <1>3 DEF CallerInv
<1>5. ManagerType'
  BY <1>1, <1>2 DEF ManagerType
<1>6. NameInv'
  BY <1>0, <1>1 DEF NameInv
<1>7. CallerInv'
  BY <1>1, <1>2, <1>3, <1>4 DEF CallerInv
<1>8. TargetInv'
  BY <1>1 DEF TargetInv
<1>9. OwnerInv'
  BY <1>0, <1>1, <1>2, <1>3 DEF OwnerInv
<1>10. DeletedInv'
  BY <1>1, <1>2 DEF DeletedInv
<1>11. OnlyAskedDestroyed'
  BY <1>1, <1>2 DEF OnlyAskedDestroyed, ManagerType
<1>12. DeletedIsGone'
  BY <1>1, <1>2 DEF DeletedIsGone
<1> QED
  BY <1>5, <1>6, <1>7, <1>8, <1>9, <1>10, <1>11, <1>12

LEMMA StartDeleteStep ==
  ASSUME Orderly, ManagerIInv, StoreIInv', NEW t \in Deleter, NEW i \in Id, StartDelete(t, i)
  PROVE  ManagerIInv'
<1> USE DEF ManagerIInv
<1>0. /\ rows \in SUBSET Id
      /\ create \in [Id -> CreatePc]
      /\ \A k \in rows : tx[k] = "committed"
      /\ \A k \in rows' : tx'[k] = "committed"
  BY DEF StoreIInv, StoreTypeOK, RowInv, ManagerType
<1> USE DEF StartDelete
<1>1. /\ rows' = rows /\ project' = project /\ tx' = tx /\ create' = create
      /\ agent' = agent /\ boot' = boot /\ unsynced' = unsynced
      /\ destroyed' = destroyed /\ late' = late
      /\ asked' = asked \cup {i}
      /\ i \in rows /\ ~Creating(i) /\ boot = {}
      /\ \A j \in Id : (Creating(j))' = Creating(j)
  BY DEF dbVars, Orderly, Serving, Creating
<1>2. \A u \in Deleter : delete'[u] = [pc |-> "deregister", id |-> i]
  BY DEF Orderly, ManagerType
<1>3. ManagerType'
  BY <1>1 DEF ManagerType
<1>4. NameInv' /\ TargetInv'
  BY <1>1 DEF NameInv, TargetInv
<1>5. CallerInv'
  BY <1>0, <1>1, <1>2 DEF CallerInv
<1>6. OwnerInv'
  BY <1>0, <1>1 DEF OwnerInv
<1>7. DeletedInv'
  BY <1>1, <1>2 DEF DeletedInv
<1>8. OnlyAskedDestroyed' /\ DeletedIsGone'
  BY <1>1 DEF OnlyAskedDestroyed, DeletedIsGone
<1> QED
  BY <1>3, <1>4, <1>5, <1>6, <1>7, <1>8

\* The row is there, so the directory removed is of this project or of one that
\* has none any more.
LEMMA DeregisterStep ==
  ASSUME Orderly, ManagerIInv, StoreIInv', NEW t \in Deleter, Deregister(t)
  PROVE  ManagerIInv'
<1> USE DEF ManagerIInv
<1>0. /\ rows \in SUBSET Id
      /\ create \in [Id -> CreatePc]
      /\ \A k \in rows : tx[k] = "committed"
      /\ \A k \in rows' : tx'[k] = "committed"
  BY DEF StoreIInv, StoreTypeOK, RowInv, ManagerType
<1> DEFINE i == delete[t].id
<1>1. /\ rows' = rows /\ project' = project /\ tx' = tx /\ create' = create
      /\ boot' = boot /\ unsynced' = unsynced /\ asked' = asked
      /\ \A j \in Id : (Creating(j))' = Creating(j)
  BY DEF Deregister, dbVars, Creating
<1>2. /\ i \in rows /\ i \in asked /\ i \in Id /\ ~Creating(i) /\ boot = {}
      /\ delete[t] \in [pc : {"deregister", "drop"}, id : Id]
  BY <1>0 DEF Deregister, CallerInv, ManagerType
<1>3. late' = {}
  BY DeleteOutcome DEF Deregister, ManagerType
<1>4. \/ Removed(i) /\ delete' = [delete EXCEPT ![t].pc = "drop"]
      \/ (Removed(i) \/ UNCHANGED <<agent, destroyed>>) /\ delete' = [delete EXCEPT ![t] = [pc |-> "idle"]]
  BY DeleteOutcome DEF Deregister
<1>5. /\ agent' \in [Name -> Target \cup {NoTarget}]
      /\ destroyed' \in SUBSET Id
      /\ TargetInv'
      /\ \A n \in Name : agent'[n].present => agent'[n] = agent[n]
      /\ Removed(i) => \A n \in Name : agent'[n].present => agent'[n].owner # i
      /\ \A j \in rows : j # i => agent'[project[j].name] = agent[project[j].name]
      /\ \A o \in destroyed' \ destroyed : tx[o] = "committed" /\ (o \in rows => o = i)
  <2>1. CASE Removed(i)
    BY <1>2, <2>1, Deregistering DEF Deregister
  <2>2. CASE UNCHANGED <<agent, destroyed>> /\ ~Removed(i)
    BY <1>1, <2>2 DEF TargetInv, ManagerType
  <2> QED
    BY <1>4, <2>1, <2>2
<1>6. /\ delete' \in [Deleter -> [pc : {"idle"}] \cup [pc : {"deregister", "drop"}, id : Id]]
      /\ \A u \in Deleter : \/ delete'[u].pc = "idle"
                            \/ delete'[u].pc = "drop" /\ delete'[u].id = i /\ Removed(i)
  <2>1. CASE Removed(i) /\ delete' = [delete EXCEPT ![t].pc = "drop"]
    <3>1. [delete[t] EXCEPT !.pc = "drop"] \in [pc : {"deregister", "drop"}, id : Id]
      BY <1>2
    <3> QED
      BY <1>2, <2>1, <3>1 DEF ManagerType, Orderly
  <2>2. CASE delete' = [delete EXCEPT ![t] = [pc |-> "idle"]]
    BY <2>2 DEF ManagerType, Orderly
  <2> QED
    BY <1>4, <2>1, <2>2
<1>7. ManagerType'
  BY <1>1, <1>3, <1>5, <1>6 DEF ManagerType
<1>8. NameInv'
  BY <1>1 DEF NameInv
<1>9. CallerInv'
  BY <1>0, <1>1, <1>2, <1>6 DEF CallerInv
<1>10. OwnerInv'
  BY <1>0, <1>1, <1>2, <1>5 DEF OwnerInv
<1>11. DeletedInv'
  <2>1. \A o \in destroyed' : tx[o] = "committed"
    BY <1>5 DEF DeletedInv
  <2> QED
    BY <1>1, <1>5, <1>6, <2>1 DEF DeletedInv
<1>12. OnlyAskedDestroyed'
  <2> SUFFICES ASSUME NEW o \in destroyed', create[o] = "created" \/ o \in rows PROVE o \in asked
    BY <1>1 DEF OnlyAskedDestroyed
  <2>1. CASE o \in destroyed
    BY <2>1 DEF OnlyAskedDestroyed
  <2>2. CASE o \notin destroyed /\ o \in rows
    BY <1>2, <1>5, <2>2
  <2>3. CASE o \notin rows
    BY <1>5, <2>3 DEF DeletedInv
  <2> QED
    BY <2>1, <2>2, <2>3
<1>13. DeletedIsGone'
  BY <1>1, <1>5 DEF DeletedIsGone
<1> QED
  BY <1>5, <1>7, <1>8, <1>9, <1>10, <1>11, <1>12, <1>13

LEMMA DropRecordStep ==
  ASSUME Orderly, ManagerIInv, StoreIInv', NEW t \in Deleter, DropRecord(t)
  PROVE  ManagerIInv'
<1> USE DEF ManagerIInv
<1>0. /\ rows \in SUBSET Id
      /\ create \in [Id -> CreatePc]
      /\ \A k \in rows : tx[k] = "committed"
      /\ \A k \in rows' : tx'[k] = "committed"
  BY DEF StoreIInv, StoreTypeOK, RowInv, ManagerType
<1> DEFINE i == delete[t].id
<1> USE DEF DropRecord
<1>1. /\ rows' \subseteq rows /\ rows \subseteq rows' \cup {i}
      /\ project' = project /\ tx' = tx /\ create' = create
      /\ agent' = agent /\ boot' = boot /\ unsynced' = unsynced
      /\ asked' = asked /\ destroyed' = destroyed /\ late' = late
      /\ \A j \in Id : (Creating(j))' = Creating(j)
  BY DEF DeleteRow, dbVars, Creating
<1>2. /\ i \in rows /\ i \in asked /\ i \in Id /\ ~Creating(i) /\ boot = {}
      /\ \A n \in Name : agent[n].present => agent[n].owner # i
  BY <1>0 DEF CallerInv, DeletedInv
<1>3. /\ delete' \in [Deleter -> [pc : {"idle"}] \cup [pc : {"deregister", "drop"}, id : Id]]
      /\ \A u \in Deleter : delete'[u].pc = "idle"
  BY DEF ManagerType, Orderly
<1>4. ManagerType'
  BY <1>1, <1>3 DEF ManagerType
<1>5. NameInv'
  BY <1>0, <1>1 DEF NameInv
<1>6. CallerInv'
  <2>1. \A j \in Id : create[j] \in {"get", "ensure", "rollback"} => j # i
    BY <1>2 DEF Creating
  <2> QED
    BY <1>1, <1>2, <1>3, <2>1 DEF CallerInv
<1>7. TargetInv'
  BY <1>1 DEF TargetInv
<1>8. OwnerInv'
  BY <1>0, <1>1 DEF OwnerInv
<1>9. DeletedInv'
  BY <1>1, <1>2, <1>3 DEF DeletedInv
<1>10. OnlyAskedDestroyed'
  BY <1>1 DEF OnlyAskedDestroyed
<1>11. DeletedIsGone'
  BY <1>1, <1>2 DEF DeletedIsGone
<1> QED
  BY <1>4, <1>5, <1>6, <1>7, <1>8, <1>9, <1>10, <1>11

\* Nobody creates or deletes while the rows are registered at startup.
LEMMA ReconcileStep ==
  ASSUME Orderly, ManagerIInv, StoreIInv', NEW i \in Id, Reconcile(i)
  PROVE  ManagerIInv'
<1> USE DEF ManagerIInv
<1>0. /\ rows \in SUBSET Id
      /\ create \in [Id -> CreatePc]
      /\ \A k \in rows : tx[k] = "committed"
      /\ \A k \in rows' : tx'[k] = "committed"
  BY DEF StoreIInv, StoreTypeOK, RowInv, ManagerType
<1> USE DEF Reconcile
<1>1. /\ rows' = rows /\ project' = project /\ tx' = tx /\ create' = create
      /\ delete' = delete /\ asked' = asked
      /\ boot' = boot \ {i}
      /\ \A j \in Id : (Creating(j))' = Creating(j)
  BY DEF dbVars, Creating
<1>2. i \in rows /\ (\A j \in Id : ~Creating(j)) /\ \A t \in Deleter : delete[t].pc = "idle"
  BY DEF CallerInv
<1>3. /\ destroyed' = destroyed /\ late' = late
      /\ \/ Ensured(i) /\ unsynced' = unsynced
         \/ (Ensured(i) \/ UNCHANGED agent) /\ unsynced' = unsynced \cup {i}
  BY EnsureOutcome
<1>4. /\ agent' \in [Name -> Target \cup {NoTarget}]
      /\ TargetInv'
      /\ \A n \in Name : agent'[n].present => agent'[n].owner = i \/ agent'[n] = agent[n]
      /\ \A j \in rows : j # i => agent'[project[j].name] = agent[project[j].name]
      /\ i \notin unsynced' => agent'[project[i].name].present /\ agent'[project[i].name].owner = i
  <2>1. CASE Ensured(i)
    BY <1>2, <2>1, Registering
  <2>2. CASE UNCHANGED agent /\ unsynced' = unsynced \cup {i}
    BY <1>1, <2>2 DEF TargetInv, ManagerType
  <2> QED
    BY <1>3, <2>1, <2>2
<1>5. ManagerType'
  BY <1>1, <1>3, <1>4 DEF ManagerType
<1>6. NameInv'
  BY <1>1 DEF NameInv
<1>7. CallerInv'
  BY <1>1, <1>2 DEF CallerInv
<1>8. OwnerInv'
  BY <1>0, <1>1, <1>3, <1>4 DEF OwnerInv
<1>9. DeletedInv'
  BY <1>1, <1>2, <1>3 DEF DeletedInv
<1>10. OnlyAskedDestroyed'
  BY <1>1, <1>3 DEF OnlyAskedDestroyed
<1>11. DeletedIsGone'
  BY <1>1, <1>2, <1>4 DEF DeletedIsGone
<1> QED
  BY <1>4, <1>5, <1>6, <1>7, <1>8, <1>9, <1>10, <1>11

LEMMA RestartStep ==
  ASSUME Orderly, ManagerIInv, StoreIInv', Restart
  PROVE  ManagerIInv'
<1> USE DEF ManagerIInv
<1>0. /\ rows \in SUBSET Id
      /\ create \in [Id -> CreatePc]
      /\ \A k \in rows : tx[k] = "committed"
      /\ \A k \in rows' : tx'[k] = "committed"
  BY DEF StoreIInv, StoreTypeOK, RowInv, ManagerType
<1>1. /\ rows' = rows /\ project' = project
      /\ \A i \in Id : /\ tx[i] # "open" => tx'[i] = tx[i]
                        /\ tx'[i] # "open"
      /\ agent' = agent /\ asked' = asked /\ destroyed' = destroyed
  BY DEF Restart, CloseDb, StoreIInv, StoreTypeOK
<1>2. late' = {}
  BY DEF Restart, Orderly, ManagerType
<1>3. /\ \A i \in Id : create'[i] = IF Creating(i) THEN "aborted" ELSE create[i]
      /\ create' \in [Id -> CreatePc]
  BY <1>0 DEF Restart, CreatePc
<1>4. \A i \in Id : ~(Creating(i))' /\ (create'[i] = "created" => create[i] = "created")
  BY <1>3 DEF Creating
<1>5. /\ delete' \in [Deleter -> [pc : {"idle"}] \cup [pc : {"deregister", "drop"}, id : Id]]
      /\ \A t \in Deleter : delete'[t].pc = "idle"
  BY DEF Restart
<1>6. /\ boot' \subseteq rows /\ unsynced' \subseteq rows
      /\ boot' \cup unsynced' = rows
  BY DEF Restart
<1>7. ManagerType'
  BY <1>0, <1>1, <1>2, <1>3, <1>5, <1>6 DEF ManagerType
<1>8. NameInv'
  BY <1>0, <1>1 DEF NameInv
<1>9. CallerInv'
  BY <1>1, <1>4, <1>5, <1>6 DEF CallerInv, Creating
<1>10. TargetInv'
  BY <1>1, EntryOwned DEF TargetInv
<1>11. OwnerInv'
  BY <1>1, <1>6 DEF OwnerInv
<1>12. DeletedInv'
  BY <1>1, <1>4, <1>5 DEF DeletedInv, ManagerType
<1>13. OnlyAskedDestroyed'
  BY <1>1, <1>4 DEF OnlyAskedDestroyed, ManagerType
<1>14. DeletedIsGone'
  BY <1>1, <1>4 DEF DeletedIsGone
<1> QED
  BY <1>7, <1>8, <1>9, <1>10, <1>11, <1>12, <1>13, <1>14

LEMMA ManagerInvStep ==
  ASSUME Orderly, ManagerIInv, [Next]_vars
  PROVE  ManagerIInv'
<1>1. StoreIInv'
  <2>1. CASE Next
    BY <2>1, ManagerStep, StoreStep DEF ManagerIInv, StoreIInv, StoreTypeOK
  <2>2. CASE UNCHANGED vars
    BY <2>2, StoreStep DEF ManagerIInv, vars
  <2> QED
    BY <2>1, <2>2
<1>2. CASE UNCHANGED vars
  <2>1. /\ rows' = rows /\ project' = project /\ tx' = tx /\ create' = create
        /\ delete' = delete /\ agent' = agent /\ late' = late /\ boot' = boot
        /\ unsynced' = unsynced /\ asked' = asked /\ destroyed' = destroyed
    BY <1>2 DEF vars, dbVars, managerVars
  <2>2. \A i : (Creating(i))' = Creating(i)
    BY <2>1 DEF Creating
  <2>3. ManagerType' /\ NameInv' /\ TargetInv'
    BY <2>1 DEF ManagerIInv, ManagerType, NameInv, TargetInv
  <2>4. CallerInv'
    BY <2>1, <2>2 DEF ManagerIInv, CallerInv
  <2>5. OwnerInv'
    BY <2>1, <2>2 DEF ManagerIInv, OwnerInv
  <2>6. DeletedInv' /\ OnlyAskedDestroyed' /\ DeletedIsGone'
    BY <2>1 DEF ManagerIInv, DeletedInv, OnlyAskedDestroyed, DeletedIsGone
  <2> QED
    BY <1>1, <2>3, <2>4, <2>5, <2>6 DEF ManagerIInv
<1>3. CASE Next
  <2>1. ASSUME NEW c \in late, DeliverLate(c)
        PROVE  FALSE
    BY <2>1 DEF ManagerIInv, ManagerType
  <2> QED
    BY <1>1, <1>3, <2>1, StartCreateStep, FinishStoreCreateStep, GetCreatedStep,
       EnsureProjectStep, RollBackStep, StartDeleteStep, DeregisterStep,
       DropRecordStep, ReconcileStep, RestartStep DEF Next
<1> QED
  BY <1>2, <1>3

\* ManagerIInv holds in every state of the orderly manager, whatever fails.
THEOREM ManagerInductive ==
  ASSUME Orderly
  PROVE  Spec => []ManagerIInv
<1>1. Init => ManagerIInv
  BY ManagerInitial
<1>2. ManagerIInv /\ [Next]_vars => ManagerIInv'
  BY ManagerInvStep
<1> QED
  BY <1>1, <1>2, PTL DEF Spec

\* While appx serves, every project of the table is known to the agent-server
\* with the ports of its row, for the exceptions RegisteredInSync names.
THEOREM TableAndAgentInSync ==
  ASSUME Orderly
  PROVE  Spec => []RegisteredInSync
<1>1. ManagerIInv => RegisteredInSync
  <2> SUFFICES ASSUME ManagerIInv, NEW i \in rows, Serving, ~Creating(i), create[i] # "failed",
                      i \notin asked \cup unsynced
               PROVE  LET target == agent[project[i].name] IN
                      target.present /\ target.prod = project[i].prod /\ target.dev = project[i].dev
    BY DEF RegisteredInSync
  <2>1. project[i].name \in Name
    BY DEF ManagerIInv, NameInv, StoreIInv, StoreTypeOK
  <2>2. agent[project[i].name].present /\ agent[project[i].name].owner = i
    BY DEF ManagerIInv, OwnerInv, Serving
  <2> QED
    BY <2>1, <2>2 DEF ManagerIInv, TargetInv
<1> QED
  BY <1>1, ManagerInductive, PTL

\* After Manager.Delete has dropped the record, the agent-server has nothing of
\* the project (manager.go:133).
THEOREM DeletedLeavesNothing ==
  ASSUME Orderly
  PROVE  Spec => []DeletedIsGone
<1>1. ManagerIInv => DeletedIsGone
  BY DEF ManagerIInv
<1> QED
  BY <1>1, ManagerInductive, PTL

-----------------------------------------------------------------------------
(* What holds in any environment: late calls, deletes during a create and  *)
(* any number of deleters.                                                 *)

\* The types, abandoned calls included.
AgentType ==
    /\ create \in [Id -> CreatePc]
    /\ delete \in [Deleter -> [pc : {"idle"}] \cup [pc : {"deregister", "drop"}, id : Id]]
    /\ agent \in [Name -> Target \cup {NoTarget}]
    /\ late \in SUBSET Call
    /\ boot \in SUBSET Id
    /\ unsynced \in SUBSET Id
    /\ asked \in SUBSET Id
    /\ destroyed \in SUBSET Id

\* Whoever calls the agent-server, or called it, does so for a project whose row
\* was committed; the row itself may be gone.
CommittedInv ==
    /\ \A i \in Id : tx[i] \in {"open", "committed"} => project[i].name \in Name
    /\ \A i \in Id : create[i] \in {"get", "ensure", "rollback"} => tx[i] = "committed"
    /\ \A i \in boot : tx[i] = "committed"
    /\ \A t \in Deleter : delete[t].pc # "idle" => tx[delete[t].id] = "committed"
    /\ \A c \in late : tx[c.id] = "committed"
    /\ \A i \in destroyed : tx[i] = "committed"

\* The inductive invariant of any environment.
AgentIInv == StoreIInv /\ AgentType /\ CommittedInv /\ TargetInv

LEMMA AgentInitial == Init => AgentIInv
<1> SUFFICES ASSUME Init PROVE AgentIInv
  OBVIOUS
<1> USE DEF Init
<1>1. StoreIInv /\ rows \in SUBSET Id
  BY StoreInitial DEF StoreIInv, StoreTypeOK
<1>2. AgentType
  <2>1. [pc |-> "idle"] \in [pc : {"idle"}]
    OBVIOUS
  <2> QED
    BY <1>1, <2>1 DEF AgentType, CreatePc
<1>3. CommittedInv
  <2>1. \A i \in Id : tx[i] = "open" \/ tx[i] = "committed" => i \in rows
    BY DEF StoreInit
  <2>2. \A i \in rows : project[i].name \in Name
    BY <1>1 DEF StoreInit, NoProject, LegacyRow
  <2> QED
    BY <1>1, <2>1, <2>2 DEF CommittedInv, StoreInit
<1>4. TargetInv
  <2>1. \A n \in Name : ~agent[n].present
    BY DEF NoTarget
  <2> QED
    BY <2>1 DEF TargetInv
<1> QED
  BY <1>1, <1>2, <1>3, <1>4 DEF AgentIInv

\* A committed project keeps its columns: no statement updates a row, and an id
\* is used once.
LEMMA CommittedStays ==
  ASSUME StoreIInv, StoreNext \/ UNCHANGED dbVars, NEW i \in Id, tx[i] = "committed"
  PROVE  tx'[i] = "committed" /\ project'[i] = project[i]
<1>0. tx \in [Id -> TxPc] /\ project \in [Id -> Row]
  BY DEF StoreIInv, StoreTypeOK
<1>1. ASSUME NEW j \in Id, NEW name \in Name, BeginCreate(j, name)
      PROVE  tx'[i] = "committed" /\ project'[i] = project[i]
  BY <1>0, <1>1 DEF BeginCreate
<1>2. ASSUME NEW j \in Id, CommitCreate(j) \/ AbortCreate(j) \/ DeleteRow(j)
      PROVE  tx'[i] = "committed" /\ project'[i] = project[i]
  BY <1>0, <1>2 DEF CommitCreate, AbortCreate, DeleteRow
<1>3. CASE CloseDb
  BY <1>0, <1>3 DEF CloseDb
<1>4. CASE UNCHANGED dbVars
  BY <1>4 DEF dbVars
<1> QED
  BY <1>1, <1>2, <1>3, <1>4 DEF StoreNext

\* A row being inserted has a name, and so has one that was.
LEMMA NamedStays ==
  ASSUME StoreIInv, StoreNext \/ UNCHANGED dbVars, NEW i \in Id,
         tx[i] \in {"open", "committed"} => project[i].name \in Name
  PROVE  tx'[i] \in {"open", "committed"} => project'[i].name \in Name
<1>0. tx \in [Id -> TxPc] /\ project \in [Id -> Row]
  BY DEF StoreIInv, StoreTypeOK
<1>1. ASSUME NEW j \in Id, NEW name \in Name, BeginCreate(j, name)
      PROVE  tx'[i] \in {"open", "committed"} => project'[i].name \in Name
  <2>1. CASE j = i
    BY <1>0, <1>1, <2>1 DEF BeginCreate
  <2>2. CASE j # i
    BY <1>0, <1>1, <2>2 DEF BeginCreate
  <2> QED
    BY <2>1, <2>2
<1>2. ASSUME NEW j \in Id, CommitCreate(j) \/ AbortCreate(j) \/ DeleteRow(j)
      PROVE  tx'[i] \in {"open", "committed"} => project'[i].name \in Name
  BY <1>0, <1>2 DEF CommitCreate, AbortCreate, DeleteRow
<1>3. CASE CloseDb
  BY <1>0, <1>3 DEF CloseDb
<1>4. CASE UNCHANGED dbVars
  BY <1>4 DEF dbVars
<1> QED
  BY <1>1, <1>2, <1>3, <1>4 DEF StoreNext

\* A call that is carried out, in time or late, gives the entry the columns of the
\* project it is about.
LEMMA CarriedOut ==
  ASSUME AgentIInv, NEW c \in Call, tx[c.id] = "committed", CarryOut(c), UNCHANGED dbVars
  PROVE  /\ agent' \in [Name -> Target \cup {NoTarget}]
         /\ TargetInv'
         /\ destroyed' \in SUBSET Id
         /\ \A o \in destroyed' : tx[o] = "committed"
<1> DEFINE i == c.id
           n == project[i].name
           new == [present |-> TRUE, prod |-> project[i].prod, dev |-> project[i].dev, owner |-> i]
<1>0. /\ agent \in [Name -> Target \cup {NoTarget}] /\ destroyed \in SUBSET Id /\ TargetInv
      /\ \A o \in destroyed : tx[o] = "committed"
      /\ tx' = tx /\ project' = project
  BY DEF AgentIInv, AgentType, CommittedInv, dbVars
<1>1. i \in Id /\ project[i] \in Row
  BY DEF Call, AgentIInv, StoreIInv, StoreTypeOK
<1>2. n \in Name
  BY <1>1 DEF AgentIInv, CommittedInv
<1>3. CASE Ensured(i) /\ UNCHANGED destroyed
  <2>1. new \in Target
    BY <1>1 DEF Target, Row
  <2>2. agent' = [agent EXCEPT ![n] = new]
    BY <1>3 DEF Ensured
  <2>3. agent'[n] = new /\ \A m \in Name : m # n => agent'[m] = agent[m]
    BY <1>0, <1>2, <2>2
  <2>4. agent' \in [Name -> Target \cup {NoTarget}]
    BY <1>0, <2>1, <2>2
  <2>5. TargetInv'
    BY <1>0, <1>1, <2>3 DEF TargetInv
  <2> QED
    BY <1>0, <1>3, <2>4, <2>5
<1>4. CASE Removed(i)
  <2>1. agent' = [agent EXCEPT ![n] = NoTarget]
    BY <1>4 DEF Removed
  <2>2. ~agent'[n].present /\ \A m \in Name : m # n => agent'[m] = agent[m]
    BY <1>0, <1>2, <2>1 DEF NoTarget
  <2>3. agent' \in [Name -> Target \cup {NoTarget}]
    BY <1>0, <2>1
  <2>4. TargetInv'
    BY <1>0, <2>2 DEF TargetInv
  <2>5. ASSUME NEW o \in destroyed' PROVE o \in Id /\ tx[o] = "committed"
    <3>1. CASE o \in destroyed
      BY <1>0, <3>1
    <3>2. CASE o \notin destroyed
      <4>1. agent[n].present /\ o = agent[n].owner
        BY <1>4, <2>5, <3>2 DEF Removed
      <4>2. agent[n] \in Target \cup {NoTarget} /\ agent[n] # NoTarget
        BY <1>0, <1>2, <4>1 DEF NoTarget
      <4>3. o \in Id
        BY <4>1, <4>2 DEF Target
      <4>4. tx[o] = "committed"
        BY <1>0, <1>2, <4>1 DEF TargetInv
      <4> QED
        BY <4>3, <4>4
    <3> QED
      BY <3>1, <3>2
  <2> QED
    BY <2>3, <2>4, <2>5
<1> QED
  BY <1>3, <1>4 DEF CarryOut

\* However a call ends, what the agent-server has is of committed projects.
LEMMA Called ==
  ASSUME AgentIInv, NEW c \in Call, tx[c.id] = "committed", CallSucceeds(c) \/ CallFails(c), UNCHANGED dbVars
  PROVE  /\ agent' \in [Name -> Target \cup {NoTarget}]
         /\ TargetInv'
         /\ destroyed' \in SUBSET Id
         /\ \A o \in destroyed' : tx[o] = "committed"
         /\ late' \in SUBSET Call
         /\ \A d \in late' : tx[d.id] = "committed"
<1>0. /\ agent \in [Name -> Target \cup {NoTarget}] /\ destroyed \in SUBSET Id /\ TargetInv
      /\ \A o \in destroyed : tx[o] = "committed"
      /\ late \in SUBSET Call /\ \A d \in late : tx[d.id] = "committed"
      /\ tx' = tx /\ project' = project
  BY DEF AgentIInv, AgentType, CommittedInv, dbVars
<1>1. CASE CarryOut(c) /\ UNCHANGED late
  BY <1>0, <1>1, CarriedOut
<1>2. CASE UNCHANGED <<agent, destroyed>> /\ late' \in {late, late \cup {c}}
  <2>1. TargetInv'
    BY <1>0, <1>2 DEF TargetInv
  <2>2. late' \in SUBSET Call /\ \A d \in late' : tx[d.id] = "committed"
    BY <1>0, <1>2
  <2> QED
    BY <1>0, <1>2, <2>1, <2>2
<1> QED
  BY <1>1, <1>2 DEF CallSucceeds, CallFails

LEMMA AgentStep == AgentIInv /\ [Next]_vars => AgentIInv'
<1> SUFFICES ASSUME AgentIInv, [Next]_vars PROVE AgentIInv'
  OBVIOUS
<1>0. StoreIInv /\ AgentType /\ CommittedInv /\ TargetInv
  BY DEF AgentIInv
<1>1. rows \in SUBSET Id /\ tx \in [Id -> TxPc] /\ project \in [Id -> Row] /\ \A i \in rows : tx[i] = "committed"
  BY <1>0 DEF StoreIInv, StoreTypeOK, RowInv
<1>2. StoreNext \/ UNCHANGED dbVars
  BY <1>1, ManagerStep DEF vars
<1>3. StoreIInv'
  BY <1>0, <1>2, StoreStep
<1>4. \A i \in Id : tx[i] = "committed" => tx'[i] = "committed" /\ project'[i] = project[i]
  BY <1>0, <1>2, CommittedStays
<1>5. \A i \in Id : tx'[i] \in {"open", "committed"} => project'[i].name \in Name
  BY <1>0, <1>2, NamedStays DEF CommittedInv
<1>6. /\ create \in [Id -> CreatePc] /\ late \in SUBSET Call /\ boot \in SUBSET Id /\ unsynced \in SUBSET Id
      /\ asked \in SUBSET Id /\ destroyed \in SUBSET Id /\ agent \in [Name -> Target \cup {NoTarget}]
      /\ delete \in [Deleter -> [pc : {"idle"}] \cup [pc : {"deregister", "drop"}, id : Id]]
  BY <1>0 DEF AgentType
<1>7. /\ \A i \in Id : create[i] \in {"get", "ensure", "rollback"} => tx[i] = "committed"
      /\ \A i \in boot : tx[i] = "committed"
      /\ \A t \in Deleter : delete[t].pc # "idle" => tx[delete[t].id] = "committed"
      /\ \A c \in late : tx[c.id] = "committed"
      /\ \A i \in destroyed : tx[i] = "committed"
  BY <1>0 DEF CommittedInv
<1>8. \A t \in Deleter : delete[t].pc # "idle" =>
        delete[t] \in [pc : {"deregister", "drop"}, id : Id] /\ delete[t].id \in Id
  BY <1>6
\* A step that leaves the agent-server alone.
<1>a. ASSUME UNCHANGED agent PROVE TargetInv'
  <2> SUFFICES ASSUME NEW n \in Name, agent[n].present
               PROVE  LET o == agent[n].owner IN
                      /\ tx'[o] = "committed" /\ project'[o].name = n
                      /\ project'[o].prod = agent[n].prod /\ project'[o].dev = agent[n].dev
    BY <1>a DEF TargetInv
  <2>1. agent[n] \in Target
    BY <1>6 DEF NoTarget
  <2>2. agent[n].owner \in Id
    BY <2>1 DEF Target
  <2> QED
    BY <1>0, <1>4, <2>2 DEF TargetInv
\* What a step leaves to show.
<1>g. ASSUME create' \in [Id -> CreatePc], late' \in SUBSET Call, boot' \in SUBSET Id, unsynced' \in SUBSET Id,
             asked' \in SUBSET Id, destroyed' \in SUBSET Id, agent' \in [Name -> Target \cup {NoTarget}],
             delete' \in [Deleter -> [pc : {"idle"}] \cup [pc : {"deregister", "drop"}, id : Id]],
             \A i \in Id : create'[i] \in {"get", "ensure", "rollback"} => tx'[i] = "committed",
             \A i \in boot' : tx'[i] = "committed",
             \A t \in Deleter : delete'[t].pc # "idle" => tx'[delete'[t].id] = "committed",
             \A c \in late' : tx'[c.id] = "committed",
             \A i \in destroyed' : tx'[i] = "committed",
             TargetInv'
      PROVE  AgentIInv'
  <2>1. AgentType'
    BY <1>g DEF AgentType
  <2>2. CommittedInv'
    BY <1>5, <1>g DEF CommittedInv
  <2> QED
    BY <1>3, <1>g, <2>1, <2>2 DEF AgentIInv
\* What was committed stays committed.
<1>c. /\ \A i \in Id : create[i] \in {"get", "ensure", "rollback"} => tx'[i] = "committed"
      /\ \A i \in boot : tx'[i] = "committed"
      /\ \A t \in Deleter : delete[t].pc # "idle" => tx'[delete[t].id] = "committed"
      /\ \A c \in late : tx'[c.id] = "committed"
      /\ \A i \in destroyed : tx'[i] = "committed"
      /\ \A i \in rows : tx'[i] = "committed"
  <2>1. \A c \in late : c.id \in Id
    BY <1>6 DEF Call
  <2> QED
    BY <1>1, <1>4, <1>6, <1>7, <1>8, <2>1
<1>m. \A i \in Id : EnsureCall(i) \in Call /\ EnsureCall(i).id = i /\ DeleteCall(i) \in Call /\ DeleteCall(i).id = i
  BY DEF EnsureCall, DeleteCall, Call
<1>i. [pc |-> "idle"] \in [pc : {"idle"}]
  OBVIOUS
<1>10. ASSUME NEW i \in Id, NEW name \in Name, StartCreate(i, name) PROVE AgentIInv'
  <2>1. create' = [create EXCEPT ![i] = IF tx'[i] = "open" THEN "store" ELSE "failed"]
    BY <1>10 DEF StartCreate
  <2>2. UNCHANGED <<delete, agent, late, boot, unsynced, asked, destroyed>>
    BY <1>10 DEF StartCreate
  <2>3. create' \in [Id -> CreatePc] /\ \A j \in Id : create'[j] \in {"get", "ensure", "rollback"} => create[j] = create'[j]
    BY <1>6, <2>1 DEF CreatePc
  <2> QED
    BY <1>6, <1>a, <1>c, <1>g, <2>2, <2>3
<1>11. ASSUME NEW i \in Id, FinishStoreCreate(i) PROVE AgentIInv'
  <2>1. create' = [create EXCEPT ![i] = IF tx'[i] = "committed" THEN "get" ELSE "failed"]
    BY <1>11 DEF FinishStoreCreate
  <2>2. UNCHANGED <<delete, agent, late, boot, unsynced, asked, destroyed>>
    BY <1>11 DEF FinishStoreCreate
  <2>3. create' \in [Id -> CreatePc]
    BY <1>6, <2>1 DEF CreatePc
  <2>4. \A j \in Id : create'[j] \in {"get", "ensure", "rollback"} => tx'[j] = "committed"
    BY <1>6, <1>c, <2>1
  <2> QED
    BY <1>6, <1>a, <1>c, <1>g, <2>2, <2>3, <2>4
<1>12. ASSUME NEW i \in Id, GetCreated(i) PROVE AgentIInv'
  <2>1. PICK p \in {"ensure", "failed"} : create' = [create EXCEPT ![i] = p]
    BY <1>12 DEF GetCreated
  <2>2. UNCHANGED <<delete, agent, late, boot, unsynced, asked, destroyed>> /\ create[i] = "get"
    BY <1>12 DEF GetCreated
  <2>3. create' \in [Id -> CreatePc]
    BY <1>6, <2>1 DEF CreatePc
  <2>4. \A j \in Id : create'[j] \in {"get", "ensure", "rollback"} => tx'[j] = "committed"
    BY <1>6, <1>c, <2>1, <2>2
  <2> QED
    BY <1>6, <1>a, <1>c, <1>g, <2>2, <2>3, <2>4
<1>13. ASSUME NEW i \in Id, EnsureProject(i) PROVE AgentIInv'
  <2>1. PICK p \in {"created", "rollback"} : create' = [create EXCEPT ![i] = p]
    BY <1>13 DEF EnsureProject
  <2>2. /\ UNCHANGED <<delete, boot, unsynced, asked>> /\ UNCHANGED dbVars /\ create[i] = "ensure"
        /\ CallSucceeds(EnsureCall(i)) \/ CallFails(EnsureCall(i))
    BY <1>13 DEF EnsureProject
  <2>3. create' \in [Id -> CreatePc]
    BY <1>6, <2>1 DEF CreatePc
  <2>4. \A j \in Id : create'[j] \in {"get", "ensure", "rollback"} => tx'[j] = "committed"
    BY <1>6, <1>c, <2>1, <2>2
  <2>5. tx[EnsureCall(i).id] = "committed" /\ tx' = tx
    BY <1>7, <1>m, <2>2 DEF dbVars
  <2>6. /\ agent' \in [Name -> Target \cup {NoTarget}] /\ TargetInv' /\ destroyed' \in SUBSET Id
        /\ \A o \in destroyed' : tx[o] = "committed"
        /\ late' \in SUBSET Call /\ \A d \in late' : tx[d.id] = "committed"
    BY <1>m, <2>2, <2>5, Called
  <2> QED
    BY <1>6, <1>c, <1>g, <2>2, <2>3, <2>4, <2>5, <2>6
<1>14. ASSUME NEW i \in Id, RollBack(i) PROVE AgentIInv'
  <2>1. create' = [create EXCEPT ![i] = "failed"]
    BY <1>14 DEF RollBack
  <2>2. UNCHANGED <<delete, agent, late, boot, unsynced, asked, destroyed>>
    BY <1>14 DEF RollBack
  <2>3. create' \in [Id -> CreatePc] /\ \A j \in Id : create'[j] \in {"get", "ensure", "rollback"} => create[j] = create'[j]
    BY <1>6, <2>1 DEF CreatePc
  <2> QED
    BY <1>6, <1>a, <1>c, <1>g, <2>2, <2>3
<1>15. ASSUME NEW i \in Id, Reconcile(i) PROVE AgentIInv'
  <2>1. /\ UNCHANGED <<create, delete, asked>> /\ UNCHANGED dbVars /\ boot' = boot \ {i} /\ i \in boot
        /\ CallSucceeds(EnsureCall(i)) \/ CallFails(EnsureCall(i))
        /\ unsynced' \in {unsynced, unsynced \cup {i}}
    BY <1>15 DEF Reconcile
  <2>2. tx[EnsureCall(i).id] = "committed" /\ tx' = tx
    BY <1>7, <1>m, <2>1 DEF dbVars
  <2>3. /\ agent' \in [Name -> Target \cup {NoTarget}] /\ TargetInv' /\ destroyed' \in SUBSET Id
        /\ \A o \in destroyed' : tx[o] = "committed"
        /\ late' \in SUBSET Call /\ \A d \in late' : tx[d.id] = "committed"
    BY <1>m, <2>1, <2>2, Called
  <2>4. boot' \in SUBSET Id /\ unsynced' \in SUBSET Id /\ \A j \in boot' : tx'[j] = "committed"
    BY <1>6, <1>c, <2>1
  <2> QED
    BY <1>6, <1>c, <1>g, <2>1, <2>2, <2>3, <2>4
<1>16. ASSUME NEW t \in Deleter, NEW i \in Id, StartDelete(t, i) PROVE AgentIInv'
  <2> DEFINE d == [pc |-> "deregister", id |-> i]
  <2>1. delete' = [delete EXCEPT ![t] = d] /\ asked' = asked \cup {i} /\ i \in rows
    BY <1>16 DEF StartDelete
  <2>2. UNCHANGED <<create, agent, late, boot, unsynced, destroyed>>
    BY <1>16 DEF StartDelete
  <2>3. d \in [pc : {"deregister", "drop"}, id : Id] /\ d.id = i
    OBVIOUS
  <2> HIDE DEF d
  <2>4. delete' \in [Deleter -> [pc : {"idle"}] \cup [pc : {"deregister", "drop"}, id : Id]]
    BY <1>6, <2>1, <2>3
  <2>5. \A u \in Deleter : delete'[u].pc # "idle" => tx'[delete'[u].id] = "committed"
    BY <1>6, <1>c, <2>1, <2>3
  <2> QED
    BY <1>6, <1>a, <1>c, <1>g, <2>1, <2>2, <2>4, <2>5
<1>17. ASSUME NEW t \in Deleter, Deregister(t) PROVE AgentIInv'
  <2> DEFINE i == delete[t].id
             dropping == [delete[t] EXCEPT !.pc = "drop"]
             idle == [pc |-> "idle"]
  <2>1. /\ UNCHANGED <<create, boot, unsynced, asked>> /\ UNCHANGED dbVars /\ delete[t].pc = "deregister"
        /\ CallSucceeds(DeleteCall(i)) \/ CallFails(DeleteCall(i))
    BY <1>17 DEF Deregister
  <2>2. delete' = [delete EXCEPT ![t] = dropping] \/ delete' = [delete EXCEPT ![t] = idle]
    BY <1>6, <1>17 DEF Deregister
  <2>3. i \in Id /\ delete[t] \in [pc : {"deregister", "drop"}, id : Id]
    BY <1>8, <2>1
  <2>4. dropping \in [pc : {"deregister", "drop"}, id : Id] /\ dropping.id = i
    BY <2>3
  <2>5. idle \in [pc : {"idle"}] /\ idle.pc = "idle"
    OBVIOUS
  <2>6. tx[DeleteCall(i).id] = "committed" /\ tx' = tx /\ tx'[i] = "committed"
    BY <1>7, <1>m, <2>1, <2>3 DEF dbVars
  <2>7. /\ agent' \in [Name -> Target \cup {NoTarget}] /\ TargetInv' /\ destroyed' \in SUBSET Id
        /\ \A o \in destroyed' : tx[o] = "committed"
        /\ late' \in SUBSET Call /\ \A d \in late' : tx[d.id] = "committed"
    BY <1>m, <2>1, <2>3, <2>6, Called
  <2> HIDE DEF dropping, idle, i
  <2>8. delete' \in [Deleter -> [pc : {"idle"}] \cup [pc : {"deregister", "drop"}, id : Id]]
    BY <1>6, <2>2, <2>4, <2>5
  <2>9. \A u \in Deleter : delete'[u].pc # "idle" => tx'[delete'[u].id] = "committed"
    BY <1>6, <1>c, <2>2, <2>4, <2>5, <2>6
  <2> QED
    BY <1>6, <1>c, <1>g, <2>1, <2>6, <2>7, <2>8, <2>9
<1>18. ASSUME NEW t \in Deleter, DropRecord(t) PROVE AgentIInv'
  <2> DEFINE idle == [pc |-> "idle"]
  <2>1. delete' = [delete EXCEPT ![t] = idle] /\ UNCHANGED <<create, agent, late, boot, unsynced, asked, destroyed>>
    BY <1>18 DEF DropRecord
  <2>2. idle \in [pc : {"idle"}] /\ idle.pc = "idle"
    OBVIOUS
  <2> HIDE DEF idle
  <2>3. delete' \in [Deleter -> [pc : {"idle"}] \cup [pc : {"deregister", "drop"}, id : Id]]
    BY <1>6, <2>1, <2>2
  <2>4. \A u \in Deleter : delete'[u].pc # "idle" => tx'[delete'[u].id] = "committed"
    BY <1>6, <1>c, <2>1, <2>2
  <2> QED
    BY <1>6, <1>a, <1>c, <1>g, <2>1, <2>3, <2>4
<1>19. ASSUME NEW c \in late, DeliverLate(c) PROVE AgentIInv'
  <2>1. /\ UNCHANGED <<create, delete, boot, unsynced, asked>> /\ UNCHANGED dbVars
        /\ CarryOut(c) /\ late' = late \ {c}
    BY <1>19 DEF DeliverLate
  <2>2. c \in Call /\ tx[c.id] = "committed" /\ tx' = tx
    BY <1>6, <1>7, <2>1 DEF dbVars
  <2>3. /\ agent' \in [Name -> Target \cup {NoTarget}] /\ TargetInv' /\ destroyed' \in SUBSET Id
        /\ \A o \in destroyed' : tx[o] = "committed"
    BY <2>1, <2>2, CarriedOut
  <2>4. late' \in SUBSET Call /\ \A d \in late' : tx'[d.id] = "committed"
    BY <1>6, <1>c, <2>1
  <2> QED
    BY <1>6, <1>c, <1>g, <2>1, <2>2, <2>3, <2>4
<1>20. CASE Restart
  <2>1. /\ create' = [i \in Id |-> IF Creating(i) THEN "aborted" ELSE create[i]]
        /\ delete' = [t \in Deleter |-> [pc |-> "idle"]]
        /\ UNCHANGED <<agent, asked, destroyed>>
        /\ boot' \in {rows, {}} /\ unsynced' \in {rows, {}}
    BY <1>20 DEF Restart
  <2>2. PICK calls \in SUBSET ({EnsureCall(i) : i \in {j \in Id : create[j] = "ensure"}} \cup
                               {DeleteCall(delete[t].id) : t \in {u \in Deleter : delete[u].pc = "deregister"}}) :
          late' = late \cup calls
    BY <1>20 DEF Restart
  <2>3. \A d \in calls : d \in Call /\ tx'[d.id] = "committed"
    <3> SUFFICES ASSUME NEW d \in calls PROVE d \in Call /\ tx'[d.id] = "committed"
      OBVIOUS
    <3>1. ASSUME NEW i \in Id, create[i] = "ensure", d = EnsureCall(i)
          PROVE  d \in Call /\ tx'[d.id] = "committed"
      BY <1>c, <1>m, <3>1
    <3>2. ASSUME NEW t \in Deleter, delete[t].pc = "deregister", d = DeleteCall(delete[t].id)
          PROVE  d \in Call /\ tx'[d.id] = "committed"
      BY <1>8, <1>c, <1>m, <3>2
    <3> QED
      BY <2>2, <3>1, <3>2
  <2>4. late' \in SUBSET Call /\ \A d \in late' : tx'[d.id] = "committed"
    BY <1>6, <1>c, <2>2, <2>3
  <2>5. /\ create' \in [Id -> CreatePc]
        /\ \A j \in Id : create'[j] \in {"get", "ensure", "rollback"} => create[j] = create'[j]
    BY <1>6, <2>1 DEF CreatePc
  <2>6. delete' \in [Deleter -> [pc : {"idle"}]] /\ \A t \in Deleter : delete'[t].pc = "idle"
    BY <1>i, <2>1
  <2>7. boot' \in SUBSET Id /\ unsynced' \in SUBSET Id /\ \A j \in boot' : tx'[j] = "committed"
    BY <1>1, <1>c, <2>1
  <2>8. delete' \in [Deleter -> [pc : {"idle"}] \cup [pc : {"deregister", "drop"}, id : Id]]
    BY <2>6
  <2> QED
    BY <1>6, <1>a, <1>c, <1>g, <2>1, <2>4, <2>5, <2>6, <2>7, <2>8
<1>21. CASE UNCHANGED vars
  BY <1>6, <1>a, <1>c, <1>g, <1>21 DEF vars, managerVars
<1> QED
  BY <1>10, <1>11, <1>12, <1>13, <1>14, <1>15, <1>16, <1>17, <1>18, <1>19, <1>20, <1>21 DEF Next

\* Whatever the environment does, late calls, deletes of a project being created
\* and several deletes of one project included, every variable keeps its type and
\* an entry at the agent-server has the name and the two ports of one committed
\* project, its owner (manager.go: EnsureProject gets the row of Store.Create, and
\* ReconcileAgentProjects the rows of List): never a half-made row, never the name
\* of one project with the ports of another.
THEOREM EntriesAreOfOneProject == Spec => [](AgentType /\ TargetInv)
<1>1. AgentIInv => AgentType /\ TargetInv
  BY DEF AgentIInv
<1> QED
  BY <1>1, AgentInitial, AgentStep, PTL DEF Spec

\* Every call that deletes at the agent-server, on its way or late, is about a
\* project the user asked to delete, and what it destroys has that project's name.
AskedInv ==
    /\ \A t \in Deleter : delete[t].pc # "idle" => delete[t].id \in asked
    /\ \A c \in late : c.kind = "delete" => c.id \in asked
    /\ \A i \in asked : tx[i] = "committed"
    /\ OnlyAskedNames

\* A call about a project the user asked to delete, if it deletes, destroys at
\* most the project that has the same name now.
LEMMA AskedCall ==
  ASSUME AgentIInv, AskedInv, NEW c \in Call, tx[c.id] = "committed",
         c.kind = "delete" => c.id \in asked,
         CarryOut(c), UNCHANGED dbVars, UNCHANGED asked
  PROVE  OnlyAskedNames'
<1>1. project' = project /\ asked' = asked /\ OnlyAskedNames
  BY DEF dbVars, AskedInv
<1>2. CASE UNCHANGED destroyed
  BY <1>1, <1>2 DEF OnlyAskedNames
<1>3. CASE c.kind = "delete" /\ Removed(c.id)
  <2> DEFINE n == project[c.id].name
  <2>1. n \in Name
    BY DEF Call, AgentIInv, CommittedInv
  <2>2. agent[n].present => project[agent[n].owner].name = n
    BY <2>1 DEF AgentIInv, TargetInv
  <2>3. \A i \in destroyed' : i \in destroyed \/ project[i].name = n
    BY <1>3, <2>2 DEF Removed
  <2> QED
    BY <1>1, <1>3, <2>3 DEF OnlyAskedNames
<1> QED
  BY <1>2, <1>3 DEF CarryOut

\* However the call ends: what is late is the call itself.
LEMMA AskedCalled ==
  ASSUME AgentIInv, AskedInv, NEW c \in Call, tx[c.id] = "committed",
         c.kind = "delete" => c.id \in asked,
         CallSucceeds(c) \/ CallFails(c), UNCHANGED dbVars, UNCHANGED asked
  PROVE  /\ OnlyAskedNames'
         /\ \A d \in late' : d.kind = "delete" => d.id \in asked
<1>1. \A d \in late : d.kind = "delete" => d.id \in asked
  BY DEF AskedInv
<1>2. CASE CarryOut(c) /\ UNCHANGED late
  BY <1>1, <1>2, AskedCall
<1>3. CASE UNCHANGED <<agent, destroyed>> /\ late' \in {late, late \cup {c}}
  <2>1. project' = project /\ asked' = asked /\ OnlyAskedNames
    BY DEF dbVars, AskedInv
  <2> QED
    BY <1>1, <1>3, <2>1 DEF OnlyAskedNames
<1> QED
  BY <1>2, <1>3 DEF CallSucceeds, CallFails

LEMMA AskedStep == AgentIInv /\ AskedInv /\ [Next]_vars => AskedInv'
<1> SUFFICES ASSUME AgentIInv, AskedInv, [Next]_vars PROVE AskedInv'
  OBVIOUS
<1>1. /\ rows \in SUBSET Id /\ \A i \in rows : tx[i] = "committed"
      /\ delete \in [Deleter -> [pc : {"idle"}] \cup [pc : {"deregister", "drop"}, id : Id]]
      /\ late \in SUBSET Call /\ asked \in SUBSET Id /\ destroyed \in SUBSET Id /\ boot \in SUBSET Id
  BY DEF AgentIInv, AgentType, StoreIInv, StoreTypeOK, RowInv
<1>2. StoreNext \/ UNCHANGED dbVars
  BY <1>1, ManagerStep DEF vars
<1>3. \A i \in Id : tx[i] = "committed" => tx'[i] = "committed" /\ project'[i] = project[i]
  BY <1>2, CommittedStays DEF AgentIInv
<1>4. /\ \A i \in Id : create[i] \in {"get", "ensure", "rollback"} => tx[i] = "committed"
      /\ \A i \in boot : tx[i] = "committed"
      /\ \A t \in Deleter : delete[t].pc # "idle" => tx[delete[t].id] = "committed"
      /\ \A c \in late : tx[c.id] = "committed"
      /\ \A i \in destroyed : tx[i] = "committed"
  BY DEF AgentIInv, CommittedInv
<1>5. /\ \A t \in Deleter : delete[t].pc # "idle" => delete[t].id \in asked
      /\ \A c \in late : c.kind = "delete" => c.id \in asked
      /\ \A i \in asked : tx[i] = "committed"
  BY DEF AskedInv
<1>6. \A t \in Deleter : delete[t].pc # "idle" => delete[t].id \in Id
  BY <1>1
\* A step that destroys nothing.
<1>a. ASSUME UNCHANGED destroyed, asked \subseteq asked'
      PROVE  OnlyAskedNames'
  <2> SUFFICES ASSUME NEW i \in destroyed
               PROVE  \E j \in asked : project'[j].name = project'[i].name
    BY <1>a DEF OnlyAskedNames
  <2>1. PICK j \in asked : project[j].name = project[i].name
    BY DEF AskedInv, OnlyAskedNames
  <2> QED
    BY <1>1, <1>3, <1>4, <1>5, <2>1
\* What was asked stays committed.
<1>c. asked' = asked => \A i \in asked' : tx'[i] = "committed"
  BY <1>1, <1>3, <1>5
<1>m. \A i \in Id : /\ EnsureCall(i) \in Call /\ EnsureCall(i).id = i /\ EnsureCall(i).kind = "ensure"
                    /\ DeleteCall(i) \in Call /\ DeleteCall(i).id = i
  BY DEF EnsureCall, DeleteCall, Call
<1>i. [pc |-> "idle"].pc = "idle"
  OBVIOUS
<1>7. CASE UNCHANGED <<delete, late, asked, destroyed>>
  BY <1>5, <1>7, <1>a, <1>c DEF AskedInv
<1>8. ASSUME NEW i \in Id, EnsureProject(i) \/ Reconcile(i) PROVE AskedInv'
  <2>1. /\ UNCHANGED <<delete, asked>> /\ UNCHANGED dbVars /\ tx[i] = "committed"
        /\ CallSucceeds(EnsureCall(i)) \/ CallFails(EnsureCall(i))
    BY <1>4, <1>8 DEF EnsureProject, Reconcile
  <2>2. OnlyAskedNames' /\ \A d \in late' : d.kind = "delete" => d.id \in asked
    BY <1>m, <2>1, AskedCalled
  <2> QED
    BY <1>5, <1>c, <2>1, <2>2 DEF AskedInv
<1>9. ASSUME NEW t \in Deleter, NEW i \in Id, StartDelete(t, i) PROVE AskedInv'
  <2>1. /\ delete' = [delete EXCEPT ![t] = [pc |-> "deregister", id |-> i]]
        /\ asked' = asked \cup {i} /\ i \in rows /\ UNCHANGED <<late, destroyed>> /\ UNCHANGED dbVars
    BY <1>9 DEF StartDelete
  <2>2. \A j \in asked' : tx'[j] = "committed"
    BY <1>1, <1>5, <2>1 DEF dbVars
  <2>3. \A u \in Deleter : delete'[u].pc # "idle" => delete'[u].id \in asked'
    BY <1>1, <1>5, <2>1
  <2> QED
    BY <1>5, <1>a, <2>1, <2>2, <2>3 DEF AskedInv
<1>10. ASSUME NEW t \in Deleter, Deregister(t) PROVE AskedInv'
  <2> DEFINE i == delete[t].id
  <2>1. /\ UNCHANGED asked /\ UNCHANGED dbVars /\ delete[t].pc = "deregister"
        /\ CallSucceeds(DeleteCall(i)) \/ CallFails(DeleteCall(i))
    BY <1>10 DEF Deregister
  <2>2. i \in Id /\ tx[i] = "committed" /\ i \in asked
    BY <1>4, <1>5, <1>6, <2>1
  <2>3. OnlyAskedNames' /\ \A d \in late' : d.kind = "delete" => d.id \in asked
    BY <1>m, <2>1, <2>2, AskedCalled
  <2>4. \/ delete' = [delete EXCEPT ![t].pc = "drop"]
        \/ delete' = [delete EXCEPT ![t] = [pc |-> "idle"]]
    BY <1>10 DEF Deregister
  <2>5. \A u \in Deleter : delete'[u].pc # "idle" => delete[u].pc # "idle" /\ delete'[u].id = delete[u].id
    <3>1. delete[t] \in [pc : {"deregister", "drop"}, id : Id]
      BY <1>1, <2>1
    <3> QED
      BY <1>1, <1>i, <2>1, <2>4, <3>1
  <2> QED
    BY <1>5, <1>c, <2>1, <2>3, <2>5 DEF AskedInv
<1>11. ASSUME NEW t \in Deleter, DropRecord(t) PROVE AskedInv'
  <2>1. delete' = [delete EXCEPT ![t] = [pc |-> "idle"]] /\ UNCHANGED <<late, asked, destroyed>>
    BY <1>11 DEF DropRecord
  <2>2. \A u \in Deleter : delete'[u].pc # "idle" => delete'[u] = delete[u]
    BY <1>1, <2>1
  <2> QED
    BY <1>5, <1>a, <1>c, <2>1, <2>2 DEF AskedInv
<1>12. ASSUME NEW c \in late, DeliverLate(c) PROVE AskedInv'
  <2>1. UNCHANGED <<delete, asked>> /\ UNCHANGED dbVars /\ CarryOut(c) /\ late' = late \ {c}
    BY <1>12 DEF DeliverLate
  <2>2. c \in Call /\ tx[c.id] = "committed" /\ (c.kind = "delete" => c.id \in asked)
    BY <1>1, <1>4, <1>5
  <2>3. OnlyAskedNames'
    BY <2>1, <2>2, AskedCall
  <2> QED
    BY <1>5, <1>c, <2>1, <2>3 DEF AskedInv
<1>13. CASE Restart
  <2>1. delete' = [t \in Deleter |-> [pc |-> "idle"]] /\ UNCHANGED <<asked, destroyed>>
    BY <1>13 DEF Restart
  <2>2. PICK calls \in SUBSET ({EnsureCall(i) : i \in {j \in Id : create[j] = "ensure"}} \cup
                               {DeleteCall(delete[t].id) : t \in {u \in Deleter : delete[u].pc = "deregister"}}) :
          late' = late \cup calls
    BY <1>13 DEF Restart
  <2>3. \A d \in calls : d.kind = "delete" => d.id \in asked
    <3> SUFFICES ASSUME NEW d \in calls, d.kind = "delete" PROVE d.id \in asked
      OBVIOUS
    <3>1. PICK t \in Deleter : delete[t].pc = "deregister" /\ d = DeleteCall(delete[t].id)
      BY <1>m, <2>2
    <3> QED
      BY <1>5, <1>6, <1>m, <3>1
  <2>4. \A t \in Deleter : delete'[t].pc = "idle"
    BY <2>1
  <2> QED
    BY <1>5, <1>a, <1>c, <2>1, <2>2, <2>3, <2>4 DEF AskedInv
<1>14. ASSUME NEW i \in Id,
              (\E name \in Name : StartCreate(i, name)) \/ FinishStoreCreate(i) \/ GetCreated(i) \/ RollBack(i)
       PROVE  AskedInv'
  BY <1>7, <1>14 DEF StartCreate, FinishStoreCreate, GetCreated, RollBack
<1>15. CASE UNCHANGED vars
  BY <1>7, <1>15 DEF vars, managerVars
<1> QED
  BY <1>8, <1>9, <1>10, <1>11, <1>12, <1>13, <1>14, <1>15 DEF Next

\* In any environment, calls carried out late, deletes during a create, several
\* deletes of one name and restarts included, the agent-server removes a directory
\* only under a name the user asked to delete: neither the rollback of a create
\* (manager.go:80-83) nor reconciliation destroys one.
THEOREM OnlyAskedNamesDestroyed == Spec => []OnlyAskedNames
<1>1. Init => AskedInv
  <2> SUFFICES ASSUME Init PROVE AskedInv
    OBVIOUS
  <2> QED
    BY DEF Init, AskedInv, OnlyAskedNames
<1>2. AskedInv => OnlyAskedNames
  BY DEF AskedInv
<1> QED
  BY <1>1, <1>2, AgentInitial, AgentStep, AskedStep, PTL DEF Spec
==============================================================================
