---------------------------- MODULE ProjectManager ----------------------------
(***************************************************************************)
(* project.Manager (internal/project/manager.go): creating and deleting a  *)
(* project in two places, the projects table (module ProjectStore) and the *)
(* agent-server, which owns the project's directory and knows a project by *)
(* its name only.  The agent-server is external; its client is             *)
(* internal/agentserver/client.go: an HTTP call with a 15 s timeout, which *)
(* also ends when the browser goes away (r.Context()).                     *)
(*                                                                         *)
(* A call of the agent-server can be carried out and answered, carried out *)
(* with the answer lost, refused, or, with LateDelivery, given up by the   *)
(* client and carried out later or never.                                  *)
(***************************************************************************)
EXTENDS ProjectStore

CONSTANTS
    Deleter,      \* goroutines handling DELETE /api/projects/{id}
    LateDelivery, \* whether the agent-server may carry out an abandoned call
    Overlap       \* whether a project may be deleted while Create is running

ASSUME ManagerAssumption ==
    /\ LateDelivery \in BOOLEAN
    /\ Overlap \in BOOLEAN

VARIABLES
    create,    \* per id, where Manager.Create is
    delete,    \* per deleter, where Manager.Delete is
    agent,     \* the agent-server's projects, by name
    late,      \* abandoned calls still on their way to the agent-server
    boot,      \* ids ReconcileAgentProjects has still to register
    unsynced,  \* (history) ids whose registration at startup failed
    asked,     \* (history) ids the user asked to delete
    destroyed  \* (history) ids whose directory the agent-server removed

managerVars == <<create, delete, agent, late, boot, unsynced, asked, destroyed>>

vars == <<dbVars, managerVars>>

CreatePc == {"none", "store", "get", "ensure", "rollback", "created", "failed", "aborted"}

DeletePc == {"idle", "deregister", "drop"}

\* owner is the project that registered last: the directory is its now.
Target == [present : {TRUE}, prod : Port \cup {NoPort}, dev : Port \cup {NoPort}, owner : Id]

NoTarget == [present |-> FALSE]

Call == [kind : {"ensure", "delete"}, id : Id]

Serving == boot = {}

\* Appx starts with the rows of an older version; the agent-server has none.
Init ==
    /\ StoreInit
    /\ create = [i \in Id |-> IF i \in rows THEN "created" ELSE "none"]
    /\ delete = [t \in Deleter |-> [pc |-> "idle"]]
    /\ agent = [n \in Name |-> NoTarget]
    /\ late = {}
    /\ boot = rows
    /\ unsynced = {}
    /\ asked = {}
    /\ destroyed = {}

-----------------------------------------------------------------------------
(* The agent-server (external).                                            *)

\* POST /v1/projects: an upsert by name.
Ensured(i) ==
    LET n == project[i].name IN
    agent' = [agent EXCEPT ![n] =
                [present |-> TRUE, prod |-> project[i].prod, dev |-> project[i].dev, owner |-> i]]

\* DELETE /v1/projects/{name}: directory and transcripts go; 404 if absent.
Removed(i) ==
    LET n == project[i].name IN
    /\ agent' = [agent EXCEPT ![n] = NoTarget]
    /\ destroyed' = IF agent[n].present THEN destroyed \cup {agent[n].owner} ELSE destroyed

CarryOut(c) ==
    \/ c.kind = "ensure" /\ Ensured(c.id) /\ UNCHANGED destroyed
    \/ c.kind = "delete" /\ Removed(c.id)

\* The call returns nil: it was carried out.
CallSucceeds(c) == CarryOut(c) /\ UNCHANGED late

\* The call returns an error.
CallFails(c) ==
    \/ CarryOut(c) /\ UNCHANGED late
    \/ UNCHANGED <<agent, destroyed, late>>
    \/ LateDelivery /\ late' = late \cup {c} /\ UNCHANGED <<agent, destroyed>>

DeliverLate(c) ==
    /\ c \in late
    /\ CarryOut(c)
    /\ late' = late \ {c}
    /\ UNCHANGED <<dbVars, create, delete, boot, unsynced, asked>>

EnsureCall(i) == [kind |-> "ensure", id |-> i]

DeleteCall(i) == [kind |-> "delete", id |-> i]

-----------------------------------------------------------------------------
(* Manager.Create.                                                         *)

StartCreate(i, name) ==
    /\ Serving
    /\ create[i] = "none"
    /\ BeginCreate(i, name)
    /\ create' = [create EXCEPT ![i] = IF tx'[i] = "open" THEN "store" ELSE "failed"]
    /\ UNCHANGED <<delete, agent, late, boot, unsynced, asked, destroyed>>

FinishStoreCreate(i) ==
    /\ create[i] = "store"
    /\ CommitCreate(i) \/ AbortCreate(i)
    /\ create' = [create EXCEPT ![i] = IF tx'[i] = "committed" THEN "get" ELSE "failed"]
    /\ UNCHANGED <<delete, agent, late, boot, unsynced, asked, destroyed>>

\* Store.Create ends with a Get of the new row, which may be gone already.  An
\* error returns from Manager.Create before the rollback.
GetCreated(i) ==
    /\ create[i] = "get"
    /\ \/ i \in rows /\ create' = [create EXCEPT ![i] = "ensure"]
       \/ (i \notin rows \/ DbMayFail) /\ create' = [create EXCEPT ![i] = "failed"]
    /\ UNCHANGED <<dbVars, delete, agent, late, boot, unsynced, asked, destroyed>>

EnsureProject(i) ==
    /\ create[i] = "ensure"
    /\ \/ CallSucceeds(EnsureCall(i)) /\ create' = [create EXCEPT ![i] = "created"]
       \/ CallFails(EnsureCall(i)) /\ create' = [create EXCEPT ![i] = "rollback"]
    /\ UNCHANGED <<dbVars, delete, boot, unsynced, asked>>

\* Mutant: a failed registration leaves the row.
KeepRow(i) ==
    /\ create[i] = "rollback"
    /\ create' = [create EXCEPT ![i] = "failed"]
    /\ UNCHANGED <<dbVars, delete, agent, late, boot, unsynced, asked, destroyed>>

\* Mutant: the rollback deletes the project at the agent-server too.
RollBackBoth(i) ==
    /\ create[i] = "rollback"
    /\ create' = [create EXCEPT ![i] = "failed"]
    /\ \/ DeleteRow(i)
       \/ (i \notin rows \/ DbMayFail) /\ UNCHANGED dbVars
    /\ Removed(i)
    /\ UNCHANGED <<delete, late, boot, unsynced, asked>>

\* _ = Store.Delete(id): an error, or a row already gone, is ignored.
RollBack(i) ==
    /\ create[i] = "rollback"
    /\ create' = [create EXCEPT ![i] = "failed"]
    /\ \/ DeleteRow(i)
       \/ (i \notin rows \/ DbMayFail) /\ UNCHANGED dbVars
    /\ UNCHANGED <<delete, agent, late, boot, unsynced, asked, destroyed>>

-----------------------------------------------------------------------------
(* Manager.Delete.                                                         *)

Creating(i) == create[i] \in {"store", "get", "ensure", "rollback"}

\* Store.Get finds the row; without one Delete returns ErrNotFound.
StartDelete(t, i) ==
    /\ Serving
    /\ delete[t].pc = "idle"
    /\ i \in rows
    /\ Creating(i) => Overlap
    /\ delete' = [delete EXCEPT ![t] = [pc |-> "deregister", id |-> i]]
    /\ asked' = asked \cup {i}
    /\ UNCHANGED <<dbVars, create, agent, late, boot, unsynced, destroyed>>

\* Mutant: the record is dropped although the agent-server call failed.
DeregisterAnyway(t) ==
    /\ delete[t].pc = "deregister"
    /\ LET c == DeleteCall(delete[t].id) IN CallSucceeds(c) \/ CallFails(c)
    /\ delete' = [delete EXCEPT ![t].pc = "drop"]
    /\ UNCHANGED <<dbVars, create, boot, unsynced, asked>>

Deregister(t) ==
    /\ delete[t].pc = "deregister"
    /\ LET c == DeleteCall(delete[t].id) IN
       \/ CallSucceeds(c) /\ delete' = [delete EXCEPT ![t].pc = "drop"]
       \/ CallFails(c) /\ delete' = [delete EXCEPT ![t] = [pc |-> "idle"]]
    /\ UNCHANGED <<dbVars, create, boot, unsynced, asked>>

DropRecord(t) ==
    /\ delete[t].pc = "drop"
    /\ delete' = [delete EXCEPT ![t] = [pc |-> "idle"]]
    /\ \/ DeleteRow(delete[t].id)
       \/ (delete[t].id \notin rows \/ DbMayFail) /\ UNCHANGED dbVars
    /\ UNCHANGED <<create, agent, late, boot, unsynced, asked, destroyed>>

-----------------------------------------------------------------------------
(* Stopping and starting appx.                                             *)

\* Every handler is gone; the calls they were waiting for may still arrive.
\* If the List of ReconcileAgentProjects fails, nothing is registered.
Restart ==
    /\ CloseDb
    /\ create' = [i \in Id |-> IF Creating(i) THEN "aborted" ELSE create[i]]
    /\ delete' = [t \in Deleter |-> [pc |-> "idle"]]
    /\ \E calls \in SUBSET ({EnsureCall(i) : i \in {j \in Id : create[j] = "ensure"}} \cup
                            {DeleteCall(delete[t].id) : t \in {u \in Deleter : delete[u].pc = "deregister"}}) :
        /\ LateDelivery \/ calls = {}
        /\ late' = late \cup calls
    /\ \/ boot' = rows /\ unsynced' = {}
       \/ DbMayFail /\ boot' = {} /\ unsynced' = rows
    /\ UNCHANGED <<agent, asked, destroyed>>

\* Mutant: only projects with a DEV port are registered at startup.
ReconcileCurrent(i) ==
    /\ i \in boot
    /\ boot' = boot \ {i}
    /\ \/ CallSucceeds(EnsureCall(i)) /\ UNCHANGED unsynced
       \/ CallFails(EnsureCall(i)) /\ unsynced' = unsynced \cup {i}
       \/ project[i].dev = NoPort /\ UNCHANGED <<agent, destroyed, late, unsynced>>
    /\ UNCHANGED <<dbVars, create, delete, asked>>

\* ReconcileAgentProjects, one project at a time, before the server listens.
Reconcile(i) ==
    /\ i \in boot
    /\ boot' = boot \ {i}
    /\ \/ CallSucceeds(EnsureCall(i)) /\ UNCHANGED unsynced
       \/ CallFails(EnsureCall(i)) /\ unsynced' = unsynced \cup {i}
    /\ UNCHANGED <<dbVars, create, delete, asked>>

Next ==
    \/ \E i \in Id :
        \/ \E name \in Name : StartCreate(i, name)
        \/ FinishStoreCreate(i)
        \/ GetCreated(i)
        \/ EnsureProject(i)
        \/ RollBack(i)
        \/ Reconcile(i)
    \/ \E t \in Deleter :
        \/ \E i \in Id : StartDelete(t, i)
        \/ Deregister(t)
        \/ DropRecord(t)
    \/ \E c \in late : DeliverLate(c)
    \/ Restart

Spec == Init /\ [][Next]_vars

-----------------------------------------------------------------------------
(* Properties.                                                             *)

\* A failed Create leaves no row, so its name and its ports are free again
\* ("the appx record is removed so a failed create leaves no partial state",
\* manager.go:79).
FailedCreateLeavesNoRow == \A i \in Id : create[i] = "failed" => i \notin rows

\* The agent-server removes a directory only under a name the user asked to
\* delete, whatever calls are lost, late or overlap: neither the rollback of a
\* create, whose upsert "may have matched a pre-existing project"
\* (manager.go:80-83), nor reconciliation ever destroys a project.
OnlyAskedNames ==
    \A i \in destroyed : \E j \in asked : project[j].name = project[i].name

\* While appx serves, the agent-server knows every project with the ports of
\* its row, except those whose creation is under way or failed, that the user
\* asked to delete, and whose registration at startup failed.
RegisteredInSync ==
    \A i \in rows :
        Serving /\ ~Creating(i) /\ create[i] # "failed" /\ i \notin asked \cup unsynced =>
            LET target == agent[project[i].name] IN
            target.present /\ target.prod = project[i].prod /\ target.dev = project[i].dev

\* After Delete has succeeded, nothing of the project is left at the
\* agent-server ("removes WORKSPACE_DIR/{id}/", manager.go:133).
DeletedIsGone ==
    \A i \in Id : create[i] = "created" /\ i \notin rows =>
        \A n \in Name : agent[n].present => agent[n].owner # i

-----------------------------------------------------------------------------
(* What the comments promise and the code does not keep.                   *)

\* The directory of a project that was created, or still has its row, is removed
\* only if the user asked to delete that project (no delete of a name that "could
\* destroy another owner's directory and transcripts", manager.go:82-83; but when
\* a second or a late DELETE arrives, the name may belong to a newer project).
OnlyAskedDestroyed ==
    \A i \in destroyed : create[i] = "created" \/ i \in rows => i \in asked
==============================================================================
