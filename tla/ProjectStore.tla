----------------------------- MODULE ProjectStore -----------------------------
(***************************************************************************)
(* The projects table (internal/project/store.go) and the transaction in   *)
(* which Create allocates a project's PROD and DEV ports.                  *)
(*                                                                         *)
(* SQLite runs in WAL mode and Begin opens a deferred transaction: the     *)
(* first SELECT takes a snapshot, and the INSERT fails if any other        *)
(* connection has committed since.  UNIQUE covers the name, the PROD       *)
(* column and the DEV column, each by itself.  Columns of a row are never  *)
(* updated (SetError, which changes status only, has no caller).           *)
(***************************************************************************)
EXTENDS Naturals, FiniteSets

CONSTANTS
    Id,            \* project ids: random, one per call of Create
    Name,          \* project names
    NoName,        \* the name column before Create has chosen one
    InvalidName,   \* the names ValidateName refuses
    PortRangeStart,
    PublishedPortRangeEnd,
    PortRangeEnd,  \* rows of older versions have ports up to here
    DbMayFail      \* whether an SQL statement may return an unrelated error

NoPort == 0 \* a NULL port column

Port == PortRangeStart .. PortRangeEnd

PublishedPort == PortRangeStart .. PublishedPortRangeEnd

ASSUME StoreAssumption ==
    /\ InvalidName \subseteq Name
    /\ NoName \notin Name
    /\ PortRangeStart \in Nat \ {0}
    /\ PublishedPortRangeEnd \in Nat
    /\ PortRangeEnd \in Nat
    /\ PublishedPortRangeEnd <= PortRangeEnd
    /\ DbMayFail \in BOOLEAN

VARIABLES
    rows,    \* ids with a committed row
    project, \* per id, the columns of its row, or of the row being inserted
    tx,      \* per id, where its Store.Create call is
    stale    \* ids whose open transaction reads a snapshot that is out of date

dbVars == <<rows, project, tx, stale>>

Row == [name : Name \cup {NoName}, prod : Port \cup {NoPort}, dev : Port \cup {NoPort}]

NoProject == [name |-> NoName, prod |-> NoPort, dev |-> NoPort]

\* "open": ports chosen from the snapshot, row not inserted.
TxPc == {"none", "open", "committed", "failed"}

\* Ports of one row; NULL columns do not count.
PortsOf(i) == {project[i].prod, project[i].dev} \ {NoPort}

\* A row that was there before this version: a PROD port from the old, wider
\* range, or none (migration 4 added the column, and filled no row), and no DEV
\* port.
LegacyRow == [name : Name, prod : Port \cup {NoPort}, dev : {NoPort}]

StoreInit ==
    /\ rows \in SUBSET Id
    /\ project \in [Id -> LegacyRow \cup {NoProject}]
    /\ \A i \in Id : i \in rows <=> project[i] # NoProject
    /\ \A i, j \in rows : i # j =>
        /\ project[i].name # project[j].name
        /\ project[i].prod # project[j].prod \/ project[i].prod = NoPort
    /\ tx = [i \in Id |-> IF i \in rows THEN "committed" ELSE "none"]
    /\ stale = {}

UsedPorts == UNION {PortsOf(i) : i \in rows}

\* prod and dev are the two lowest unused ports of the published range.
NextAvailablePortPair(prod, dev) ==
    LET free == PublishedPort \ UsedPorts IN
    /\ prod \in free
    /\ dev \in free
    /\ prod < dev
    /\ \A p \in free : p = prod \/ p >= dev

NoPortAvailable == Cardinality(PublishedPort \ UsedPorts) < 2

\* Another connection commits: open snapshots are out of date.
Committed(i) == stale' = stale \cup {j \in Id \ {i} : tx[j] = "open"}

\* Validation, Begin and the allocation's SELECT.
BeginCreate(i, name) ==
    /\ tx[i] = "none"
    /\ \/ /\ name \notin InvalidName
          /\ \E prod, dev \in PublishedPort :
              /\ NextAvailablePortPair(prod, dev)
              /\ project' = [project EXCEPT ![i] = [name |-> name, prod |-> prod, dev |-> dev]]
          /\ tx' = [tx EXCEPT ![i] = "open"]
       \/ /\ name \in InvalidName \/ NoPortAvailable \/ DbMayFail
          /\ tx' = [tx EXCEPT ![i] = "failed"]
          /\ UNCHANGED project
    /\ UNCHANGED <<rows, stale>>

\* Mutant: no transaction around the allocation and the INSERT.
InsertAnyway(i) ==
    \A j \in rows : /\ project[j].name # project[i].name
                    /\ project[j].prod # project[i].prod
                    /\ project[j].dev # project[i].dev

\* The INSERT goes through: the snapshot is current and no UNIQUE index is hit
\* (the new row has both ports, so it differs from a NULL).
Insertable(i) ==
    /\ i \notin stale
    /\ \A j \in rows : /\ project[j].name # project[i].name
                       /\ project[j].prod # project[i].prod
                       /\ project[j].dev # project[i].dev

\* INSERT and Commit: from the INSERT on, this connection holds the write lock.
CommitCreate(i) ==
    /\ tx[i] = "open"
    /\ Insertable(i)
    /\ rows' = rows \cup {i}
    /\ tx' = [tx EXCEPT ![i] = "committed"]
    /\ Committed(i)
    /\ UNCHANGED project

\* ErrDuplicateName, SQLITE_BUSY, or any other error; the deferred Rollback runs.
AbortCreate(i) ==
    /\ tx[i] = "open"
    /\ ~Insertable(i) \/ DbMayFail
    /\ tx' = [tx EXCEPT ![i] = "failed"]
    /\ UNCHANGED <<rows, project, stale>>

\* DELETE FROM projects WHERE id = i, when it matches.
DeleteRow(i) ==
    /\ i \in rows
    /\ rows' = rows \ {i}
    /\ Committed(i)
    /\ UNCHANGED <<project, tx>>

\* The process stops: open transactions are rolled back.
CloseDb ==
    /\ tx' = [i \in Id |-> IF tx[i] = "open" THEN "failed" ELSE tx[i]]
    /\ UNCHANGED <<rows, project, stale>>

StoreNext ==
    \/ \E i \in Id :
        \/ \E name \in Name : BeginCreate(i, name)
        \/ CommitCreate(i)
        \/ AbortCreate(i)
        \/ DeleteRow(i)
    \/ CloseDb

StoreSpec == StoreInit /\ [][StoreNext]_dbVars

-----------------------------------------------------------------------------
(* Properties.                                                             *)

StoreTypeOK ==
    /\ rows \in SUBSET Id
    /\ project \in [Id -> Row]
    /\ tx \in [Id -> TxPc]
    /\ stale \in SUBSET Id

\* No port belongs to two projects, nor to both environments of one, though
\* no index spans the two columns: however creates, deletes and restarts
\* interleave, also beside rows of older versions.
PortsDisjoint ==
    /\ \A i, j \in rows : i # j => PortsOf(i) \cap PortsOf(j) = {}
    /\ \A i \in rows : project[i].prod = project[i].dev => project[i].prod = NoPort

-----------------------------------------------------------------------------
(* The strengthening with which PortsDisjoint is inductive.                *)

\* A snapshot that is still current is what the database holds now.
SnapshotInv ==
    \A i \in Id : tx[i] = "open" =>
        /\ i \notin rows
        /\ {project[i].prod, project[i].dev} \subseteq PublishedPort
        /\ project[i].prod # project[i].dev
        /\ i \notin stale => PortsOf(i) \cap UsedPorts = {}

RowInv == \A i \in rows : tx[i] = "committed"

StoreIInv ==
    /\ StoreTypeOK
    /\ PortsDisjoint
    /\ SnapshotInv
    /\ RowInv
==============================================================================
