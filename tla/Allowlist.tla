------------------------------ MODULE Allowlist ------------------------------
(***************************************************************************)
(* The egress allowlist of internal/egress/store.go: a set of "host:port"  *)
(* entries held in memory under an RWMutex, and a copy of it in the        *)
(* settings table.  Each HTTP handler goroutine that changes the list is a *)
(* thread; a step is what a thread does between two points where another   *)
(* thread can run: a critical section of the mutex, or one SQL statement.  *)
(* The mutex is never held across the SQL statement.                       *)
(***************************************************************************)
EXTENDS Naturals, FiniteSets

CONSTANTS
    Entry,            \* the "host:port" strings
    DefaultAllowlist, \* the list used when no usable row is stored
    Thread,           \* goroutines that may call the store
    DbMayFail,        \* whether an SQL write may return an error
    ReadMayFail       \* whether the SELECT at startup may

ASSUME AllowlistAssumption ==
    /\ DefaultAllowlist \subseteq Entry
    /\ DefaultAllowlist # {}
    /\ DbMayFail \in BOOLEAN
    /\ ReadMayFail \in BOOLEAN

VARIABLES
    allowlist,  \* Store.allowlist, the map the proxy consults
    settings,   \* value of settings["egress_allowlist"]; {} when there is no row
    call        \* per thread, the frame of SetAllowlist / AddToAllowlist

storeVars == <<allowlist, settings, call>>

\* "snapshot": added in memory, the list not read back yet (line 144);
\* "persist": about to execute the upsert; "publish": row written, the map
\* not replaced yet.
CallPc == {"idle", "snapshot", "persist", "publish"}

Frame == [pc : CallPc, entries : SUBSET Entry]

NoCall == [pc |-> "idle", entries |-> {}]

\* A missing or empty row means the defaults.
Stored == IF settings = {} THEN DefaultAllowlist ELSE settings

\* The list is never empty: not in the map, not on its way to the database.
StoreTypeOK ==
    /\ allowlist \in SUBSET Entry /\ allowlist # {}
    /\ settings \in SUBSET Entry
    /\ call \in [Thread -> Frame]
    /\ \A t \in Thread : call[t].pc \in {"persist", "publish"} => call[t].entries # {}

StoreInit ==
    /\ settings = {}
    /\ allowlist = DefaultAllowlist
    /\ call = [t \in Thread |-> NoCall]

SetAllowlist(t, entries) ==
    /\ call[t].pc = "idle"
    /\ call' = [call EXCEPT ![t] = [pc |-> "persist", entries |-> entries]]
    /\ UNCHANGED <<allowlist, settings>>

\* The first critical section of AddToAllowlist: no-op if already there.
AddToAllowlist(t, e) ==
    /\ call[t].pc = "idle"
    /\ allowlist' = allowlist \cup {e}
    /\ call' = IF e \in allowlist THEN call ELSE [call EXCEPT ![t].pc = "snapshot"]
    /\ UNCHANGED settings

\* AddToAllowlist reads the list back under a second, separate RLock.
GetAllowlist(t) ==
    /\ call[t].pc = "snapshot"
    /\ call' = [call EXCEPT ![t] = [pc |-> "persist", entries |-> allowlist]]
    /\ UNCHANGED <<allowlist, settings>>

\* Mutant: the row is written, the map is left alone.
PersistOnly(t) ==
    /\ call[t].pc = "persist"
    /\ settings' = call[t].entries
    /\ call' = [call EXCEPT ![t] = NoCall]
    /\ UNCHANGED allowlist

Persist(t) ==
    /\ call[t].pc = "persist"
    /\ settings' = call[t].entries
    /\ call' = [call EXCEPT ![t].pc = "publish"]
    /\ UNCHANGED allowlist

\* The upsert fails: SetAllowlist returns before it touches the map.
PersistFails(t) ==
    /\ call[t].pc = "persist"
    /\ DbMayFail
    /\ call' = [call EXCEPT ![t] = NoCall]
    /\ UNCHANGED <<allowlist, settings>>

Publish(t) ==
    /\ call[t].pc = "publish"
    /\ allowlist' = call[t].entries
    /\ call' = [call EXCEPT ![t] = NoCall]
    /\ UNCHANGED settings

\* NewStore / reloadAllowlist after the process stops at any point.  An error
\* of the SELECT counts as a missing row.
ReloadAllowlist ==
    /\ \/ allowlist' = Stored
       \/ ReadMayFail /\ allowlist' = DefaultAllowlist
    /\ call' = [t \in Thread |-> NoCall]
    /\ UNCHANGED settings

StoreStep(t) ==
    \/ GetAllowlist(t)
    \/ Persist(t)
    \/ PersistFails(t)
    \/ Publish(t)

StoreNext ==
    \/ \E t \in Thread :
        \/ \E entries \in (SUBSET Entry) \ {{}} : SetAllowlist(t, entries)
        \/ \E e \in Entry : AddToAllowlist(t, e)
        \/ StoreStep(t)
    \/ ReloadAllowlist

StoreSpec == StoreInit /\ [][StoreNext]_storeVars

-----------------------------------------------------------------------------
(* Properties.                                                             *)

Sequential == \A t, u \in Thread : t = u

NothingInFlight == \A t \in Thread : call[t].pc = "idle"

\* Between calls the map the proxy consults and the stored row hold the same
\* list ("replaces the allowlist and persists it", store.go:110; "adds a
\* single host:port entry to the allowlist and persists it", store.go:132; but
\* two calls may write the row in one order and the map in the other).
MemoryMatchesDatabase == NothingInFlight => allowlist = Stored

\* Between calls a restart cannot open a host that the running proxy blocks,
\* also after failed writes: what is stored is in the map.
RestartNeverWidens == NothingInFlight => Stored \subseteq allowlist

-----------------------------------------------------------------------------
(* The strengthening with which RestartNeverWidens is inductive for one    *)
(* caller.                                                                 *)

WidenInv ==
    \A t \in Thread :
        /\ call[t].pc # "publish" => Stored \subseteq allowlist
        /\ call[t].pc = "publish" => settings = call[t].entries
==============================================================================
