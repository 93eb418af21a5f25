---------------------------- MODULE EgressPending ----------------------------
(***************************************************************************)
(* Egress permission requests: the agent's POST /egress/request handler    *)
(* (internal/egress/listener.go), the in-memory PendingRegistry            *)
(* (internal/egress/pending.go), the dashboard handlers that approve, deny *)
(* and list requests and save the allowlist (internal/server/              *)
(* egress_handlers.go), and the store they share (module Allowlist).       *)
(*                                                                         *)
(* A Request is one agent call: its handler goroutine, its random id, its  *)
(* entry in the registry and its channel of capacity one.  Two kinds of    *)
(* goroutine can be inside Resolve: a dashboard thread, and the request's  *)
(* own handler after its timer fired.  Time is counted in ticks; age and   *)
(* elapsed stop growing once no comparison can tell two values apart.      *)
(***************************************************************************)
EXTENDS Allowlist

CONSTANTS
    Request,   \* the agent's requests; ids are random and never reused
    NoRequest, \* the id field of an idle Resolve frame
    Internal,  \* entries handleSetAllowlist refuses: localhost, private addresses
    Timeout    \* PendingRegistry.timeout, in ticks

ASSUME PendingAssumption ==
    /\ Internal \subseteq Entry
    /\ Timeout \in Nat \ {0}
    /\ Thread \cap Request = {}
    /\ NoRequest \notin Request

Resolver == Thread \cup Request

VARIABLES
    requests, \* keys of PendingRegistry.requests
    agent,    \* per request, its handler goroutine and the answer it will send
    clock,    \* per request, ticks since CreatedAt and since the timer started
    done,     \* per request, its channel: the buffered values, and whether closed
    resolve,  \* per resolver, the frame of Resolve
    panics,   \* resolvers that sent on or closed a closed channel
    decided,  \* (history) the decision the registry accepted for a request
    saved     \* (history) entries ever saved through PUT /api/egress/allowlist

registryVars == <<requests, agent, clock, done, resolve, panics, decided, saved>>

vars == <<storeVars, registryVars>>

\* "expired": the timer won the select, Resolve(id, false) is to be called.
\* "aborted": the process stopped while the handler was running.
AgentPc == {"new", "added", "waiting", "expired", "replying", "answered",
            "rejected", "aborted"}

Agent == [pc : AgentPc, entry : Entry, allowed : BOOLEAN, timeout : BOOLEAN]

\* After the registry's critical section: "add" calls AddToAllowlist, "send"
\* and "close" are the two channel operations.
ResolvePc == {"idle", "add", "send", "close"}

ResolveFrame == [pc : ResolvePc, id : Request \cup {NoRequest}, approved : BOOLEAN]

NoResolve == [pc |-> "idle", id |-> NoRequest, approved |-> FALSE]

\* A chan bool of capacity one.
Channel == [buf : {"empty", "true", "false"}, closed : BOOLEAN]

Value(approved) == IF approved THEN "true" ELSE "false"

Init ==
    /\ StoreInit
    /\ requests = {}
    /\ agent \in [Request -> {a \in Agent : a.pc = "new" /\ ~a.allowed /\ ~a.timeout}]
    /\ clock = [r \in Request |-> [age |-> 0, elapsed |-> 0]]
    /\ done = [r \in Request |-> [buf |-> "empty", closed |-> FALSE]]
    /\ resolve = [t \in Resolver |-> NoResolve]
    /\ panics = {}
    /\ decided = [r \in Request |-> "none"]
    /\ saved = {}

-----------------------------------------------------------------------------
(* The agent's handler, handleEgressRequest.                               *)

\* Undecodable JSON, an empty host or port 0: 400, nothing registered.
RejectRequest(r) ==
    /\ agent[r].pc = "new"
    /\ agent' = [agent EXCEPT ![r].pc = "rejected"]
    /\ UNCHANGED <<storeVars, requests, clock, done, resolve, panics, decided, saved>>

Add(r) ==
    /\ agent[r].pc = "new"
    /\ requests' = requests \cup {r}
    /\ agent' = [agent EXCEPT ![r].pc = "added"]
    /\ UNCHANGED <<storeVars, clock, done, resolve, panics, decided, saved>>

\* The timer is started after Add has set CreatedAt.
StartTimer(r) ==
    /\ agent[r].pc = "added"
    /\ agent' = [agent EXCEPT ![r].pc = "waiting"]
    /\ UNCHANGED <<storeVars, requests, clock, done, resolve, panics, decided, saved>>

\* Mutant: the receiver closes the channel as well.
ReceiveAndClose(r) ==
    /\ agent[r].pc = "waiting"
    /\ done[r].buf # "empty" \/ done[r].closed
    /\ agent' = [agent EXCEPT ![r].pc = "replying",
                              ![r].allowed = done[r].buf = "true"]
    /\ done' = [done EXCEPT ![r] = [buf |-> "empty", closed |-> TRUE]]
    /\ UNCHANGED <<storeVars, requests, clock, resolve, panics, decided, saved>>

\* Mutant: the two results of the receive are mixed up.
ReceiveOk(r) ==
    /\ agent[r].pc = "waiting"
    /\ done[r].buf # "empty" \/ done[r].closed
    /\ agent' = [agent EXCEPT ![r].pc = "replying",
                              ![r].allowed = done[r].buf # "empty"]
    /\ done' = [done EXCEPT ![r].buf = "empty"]
    /\ UNCHANGED <<storeVars, requests, clock, resolve, panics, decided, saved>>

\* select, channel ready: a value, or the zero value of a closed channel.
Receive(r) ==
    /\ agent[r].pc = "waiting"
    /\ done[r].buf # "empty" \/ done[r].closed
    /\ agent' = [agent EXCEPT ![r].pc = "replying",
                              ![r].allowed = done[r].buf = "true"]
    /\ done' = [done EXCEPT ![r].buf = "empty"]
    /\ UNCHANGED <<storeVars, requests, clock, resolve, panics, decided, saved>>

\* select, timer ready; when the channel is ready too, Go picks either.
TimerFires(r) ==
    /\ agent[r].pc = "waiting"
    /\ clock[r].elapsed >= Timeout
    /\ agent' = [agent EXCEPT ![r].pc = "expired", ![r].timeout = TRUE]
    /\ UNCHANGED <<storeVars, requests, clock, done, resolve, panics, decided, saved>>

\* The answer is written; on the timer path only once Resolve has returned.
Reply(r) ==
    /\ agent[r].pc = "replying"
    /\ resolve[r].pc = "idle"
    /\ agent' = [agent EXCEPT ![r].pc = "answered"]
    /\ UNCHANGED <<storeVars, requests, clock, done, resolve, panics, decided, saved>>

-----------------------------------------------------------------------------
(* PendingRegistry.Resolve: the critical section, then, outside the lock,  *)
(* the allowlist update (approved only), the send and the close.           *)

\* Mutant: an approval does not reach the store.
TakeWithoutAdd(t, r, approved, decision) ==
    /\ r \in requests
    /\ requests' = requests \ {r}
    /\ resolve' = [resolve EXCEPT ![t] = [pc |-> "send", id |-> r, approved |-> approved]]
    /\ decided' = [decided EXCEPT ![r] = decision]

\* The id is looked up and deleted in one critical section.
TakeRequest(t, r, approved, decision) ==
    /\ r \in requests
    /\ requests' = requests \ {r}
    /\ resolve' = [resolve EXCEPT ![t] = [pc |-> IF approved THEN "add" ELSE "send",
                                          id |-> r, approved |-> approved]]
    /\ decided' = [decided EXCEPT ![r] = decision]

Free(t) == resolve[t].pc = "idle" /\ call[t].pc = "idle"

\* POST .../approve and .../deny.  An unknown id is a 404 that changes nothing.
DecideRequest(t, r, approved) ==
    /\ Free(t)
    /\ TakeRequest(t, r, approved, IF approved THEN "approved" ELSE "denied")
    /\ UNCHANGED <<storeVars, agent, clock, done, panics, saved>>

\* Mutant: the handler waits for an id that somebody else removed.
ExpireOwnRequest(r) ==
    /\ agent[r].pc = "expired"
    /\ agent' = [agent EXCEPT ![r].pc = "replying"]
    /\ TakeRequest(r, r, FALSE, "expired")
    /\ UNCHANGED <<storeVars, clock, done, panics, saved>>

\* Mutant: the handler leaves its request for the next poll to clean up.
ExpireNothing(r) ==
    /\ agent[r].pc = "expired"
    /\ agent' = [agent EXCEPT ![r].pc = "replying"]
    /\ UNCHANGED <<storeVars, requests, resolve, decided, clock, done, panics, saved>>

\* The handler's Resolve(id, false) after its timer.  Its error is ignored:
\* somebody else may have taken the request already.
ExpireRequest(r) ==
    /\ agent[r].pc = "expired"
    /\ agent' = [agent EXCEPT ![r].pc = "replying"]
    /\ \/ TakeRequest(r, r, FALSE, "expired")
       \/ r \notin requests /\ UNCHANGED <<requests, resolve, decided>>
    /\ UNCHANGED <<storeVars, clock, done, panics, saved>>

\* Resolve calls AddToAllowlist; an error it returns is dropped.
ApproveEntry(t) ==
    /\ resolve[t].pc = "add"
    /\ AddToAllowlist(t, agent[resolve[t].id].entry)
    /\ resolve' = [resolve EXCEPT ![t].pc = "send"]
    /\ UNCHANGED <<requests, agent, clock, done, panics, decided, saved>>

\* Mutant: done is unbuffered, a send waits for the handler to receive.
SendUnbuffered(t) ==
    /\ resolve[t].pc = "send"
    /\ t \in Thread => call[t].pc = "idle"
    /\ LET r == resolve[t].id IN
       /\ agent[r].pc = "waiting"
       /\ done' = [done EXCEPT ![r].buf = Value(resolve[t].approved)]
    /\ resolve' = [resolve EXCEPT ![t].pc = "close"]
    /\ UNCHANGED <<storeVars, requests, agent, clock, panics, decided, saved>>

\* A send blocks while the buffer is full, and panics on a closed channel.
SendDecision(t) ==
    /\ resolve[t].pc = "send"
    /\ t \in Thread => call[t].pc = "idle"
    /\ LET r == resolve[t].id IN
       /\ done[r].closed \/ done[r].buf = "empty"
       /\ panics' = IF done[r].closed THEN panics \cup {t} ELSE panics
       /\ done' = IF done[r].closed THEN done
                  ELSE [done EXCEPT ![r].buf = Value(resolve[t].approved)]
       /\ resolve' = [resolve EXCEPT ![t] =
                        IF done[r].closed THEN NoResolve ELSE [@ EXCEPT !.pc = "close"]]
    /\ UNCHANGED <<storeVars, requests, agent, clock, decided, saved>>

\* Closing a closed channel panics.
CloseDone(t) ==
    /\ resolve[t].pc = "close"
    /\ LET r == resolve[t].id IN
       /\ panics' = IF done[r].closed THEN panics \cup {t} ELSE panics
       /\ done' = [done EXCEPT ![r].closed = TRUE]
    /\ resolve' = [resolve EXCEPT ![t] = NoResolve]
    /\ UNCHANGED <<storeVars, requests, agent, clock, decided, saved>>

-----------------------------------------------------------------------------
(* The dashboard's other calls.                                            *)

\* CreatedAt.Before(now - timeout).
Expired(r) == clock[r].age > Timeout

\* GET /api/egress/pending, polled every two seconds: List first answers
\* every expired request with false, all in one critical section.
List ==
    /\ LET gone == {r \in requests : Expired(r)} IN
       /\ gone # {}
       /\ panics' = panics \cup {r \in gone : done[r].closed}
       /\ done' = [r \in Request |->
                     IF r \in gone
                     THEN [buf |-> IF done[r].buf = "empty" THEN "false" ELSE done[r].buf,
                           closed |-> TRUE]
                     ELSE done[r]]
       /\ requests' = requests \ gone
       /\ decided' = [r \in Request |-> IF r \in gone THEN "expired" ELSE decided[r]]
    /\ UNCHANGED <<storeVars, agent, clock, resolve, saved>>

\* Mutant: internal addresses are not filtered out.
AcceptsInternal(entries) == entries # {}

\* The checks of handleSetAllowlist; a list that fails them is a 400 that
\* changes nothing.
AcceptsList(entries) == entries # {} /\ entries \cap Internal = {}

\* PUT /api/egress/allowlist.
HandleSetAllowlist(t, entries) ==
    /\ Free(t)
    /\ AcceptsList(entries)
    /\ SetAllowlist(t, entries)
    /\ saved' = saved \cup entries
    /\ UNCHANGED <<requests, agent, clock, done, resolve, panics, decided>>

-----------------------------------------------------------------------------

Bump(n, max) == IF n < max THEN n + 1 ELSE n

\* age is read only while the request is registered, elapsed only while its
\* handler waits.
Tick ==
    /\ clock' = [r \in Request |->
         [age |-> IF r \in requests THEN Bump(clock[r].age, Timeout + 1) ELSE 0,
          elapsed |-> IF agent[r].pc = "waiting" THEN Bump(clock[r].elapsed, Timeout)
                      ELSE 0]]
    /\ UNCHANGED <<storeVars, requests, agent, done, resolve, panics, decided, saved>>

\* The process stops and is started again: the registry and every goroutine
\* are gone, the store is loaded from the database.
Restart ==
    /\ ReloadAllowlist
    /\ requests' = {}
    /\ agent' = [r \in Request |->
         IF agent[r].pc \in {"new", "answered", "rejected"} THEN agent[r]
         ELSE [agent[r] EXCEPT !.pc = "aborted"]]
    /\ resolve' = [t \in Resolver |-> NoResolve]
    /\ UNCHANGED <<clock, done, panics, decided, saved>>

CallStep(t) ==
    /\ StoreStep(t)
    /\ UNCHANGED registryVars

HandlerStep(r) ==
    \/ StartTimer(r)
    \/ Receive(r)
    \/ TimerFires(r)
    \/ ExpireRequest(r)
    \/ Reply(r)

ResolveStep(t) ==
    \/ ApproveEntry(t)
    \/ SendDecision(t)
    \/ CloseDone(t)

Next ==
    \/ \E r \in Request : RejectRequest(r) \/ Add(r) \/ HandlerStep(r)
    \/ \E t \in Thread :
        \/ \E r \in Request, approved \in BOOLEAN : DecideRequest(t, r, approved)
        \/ \E entries \in SUBSET Entry : HandleSetAllowlist(t, entries)
        \/ CallStep(t)
    \/ \E t \in Resolver : ResolveStep(t)
    \/ List
    \/ Tick
    \/ Restart

Spec == Init /\ [][Next]_vars

\* Goroutines that are ready run, SQL statements return and time passes;
\* nothing is assumed of the user, of the agent or of restarts.
Fairness ==
    /\ \A r \in Request : WF_vars(HandlerStep(r))
    /\ \A t \in Resolver : WF_vars(ResolveStep(t))
    /\ \A t \in Thread : WF_vars(CallStep(t))
    /\ WF_vars(Tick)

FairSpec == Spec /\ Fairness

-----------------------------------------------------------------------------
(* Properties.                                                             *)

TypeOK ==
    /\ StoreTypeOK
    /\ requests \in SUBSET Request
    /\ agent \in [Request -> Agent]
    /\ clock \in [Request -> [age : 0 .. Timeout + 1, elapsed : 0 .. Timeout]]
    /\ done \in [Request -> Channel]
    /\ resolve \in [Resolver -> ResolveFrame]
    /\ panics \in SUBSET Resolver
    /\ decided \in [Request -> {"none", "approved", "denied", "expired"}]
    /\ saved \in SUBSET Entry

\* Resolve and cleanup never send on or close a channel that is closed,
\* however approvals, denials, timers and dashboard polls interleave: a
\* request is taken out of the registry by exactly one of them.
NoPanic == panics = {}

\* What the user has let through: the defaults, the entries of a saved list
\* that may be saved, and the entries of requests the user approved.
Granted ==
    DefaultAllowlist \cup (saved \ Internal)
        \cup {agent[r].entry : r \in {q \in Request : decided[q] = "approved"}}

\* No interleaving of saves, approvals, denials, timeouts, failed writes and
\* restarts puts an entry in the map, in the database or in a list on its
\* way there, unless the user granted it.
OnlyGranted ==
    /\ allowlist \subseteq Granted
    /\ settings \subseteq Granted
    /\ \A t \in Thread : call[t].entries \subseteq Granted

\* What the agent is told depends on the decision the registry accepted and on
\* the timer, on nothing else: no answer before one of approval, denial, timer
\* and cleanup has taken the request; "allowed" for an approval that reached the
\* handler before the timer, and for nothing else.  When the timer wins the
\* select (listener.go:84) the answer is no, also if the approval was accepted
\* before: ApprovalReachesAgent, below, is not kept.
AnswerMatchesDecision ==
    \A r \in Request : agent[r].pc \in {"replying", "answered"} =>
        /\ decided[r] # "none"
        /\ agent[r].allowed <=> decided[r] = "approved" /\ ~agent[r].timeout

\* The dashboard never lists, and nobody can approve, a request whose handler
\* has its answer already.
NoGhostRequest ==
    \A r \in requests : agent[r].pc \in {"added", "waiting", "expired"}

\* When Resolve is about to tell the agent "allowed", the proxy's map holds
\* the entry, so the agent's retry gets through ("adding the host:port to the
\* persistent allowlist", egress_handlers.go:116).
ApprovedConnectable ==
    \A t \in Thread :
        resolve[t].pc = "send" /\ resolve[t].approved /\ call[t].pc = "idle"
            => agent[resolve[t].id].entry \in allowlist

\* Every registered request is answered, whatever the dashboard does, unless
\* the process stops.
RequestAnswered ==
    \A r \in Request :
        agent[r].pc = "added" ~> agent[r].pc \in {"answered", "aborted"}

\* A call of Resolve returns, also when the handler has stopped listening.
ResolveReturns ==
    \A t \in Resolver : resolve[t].pc # "idle" ~> resolve[t].pc = "idle"

-----------------------------------------------------------------------------
(* What the comments promise and the code does not keep.                   *)

\* When Resolve is about to tell the agent "allowed", the entry is stored for
\* the next start ("the host:port is added to the persistent egress allowlist",
\* pending.go:75; but the error of AddToAllowlist is dropped).
ApprovedPersisted ==
    \A t \in Thread :
        resolve[t].pc = "send" /\ resolve[t].approved /\ call[t].pc = "idle"
            => agent[resolve[t].id].entry \in Stored

\* A request that ran into the 60 s limit is reported as a timeout
\* (listener.go:50-52; but a poll's cleanup may answer it first, as a denial).
TimeoutReported ==
    \A r \in Request :
        agent[r].pc = "answered" /\ decided[r] = "expired" => agent[r].timeout

\* An agent whose request was approved is told so (Add's channel "receives true
\* (approved) or false (denied/expired)", pending.go:44-45; but the handler whose
\* timer has run out does not look at the channel again).
ApprovalReachesAgent ==
    \A r \in Request :
        agent[r].pc = "answered" /\ decided[r] = "approved" => agent[r].allowed

\* Internal addresses are not in the list ("internal addresses may not be added
\* to the allowlist", egress_handlers.go:89; but only a save is checked, an
\* approval is not).
InternalNeverListed == allowlist \cap Internal = {}

-----------------------------------------------------------------------------
(* The strengthening with which NoPanic, NoGhostRequest,                   *)
(* AnswerMatchesDecision and OnlyGranted are inductive.                    *)

Undecided(r) ==
    /\ done[r] = [buf |-> "empty", closed |-> FALSE]
    /\ decided[r] = "none"

\* A registered request, and one that has not arrived, has an unused channel; a
\* handler whose request is gone from the registry has a decision.
RegistryInv ==
    \A r \in Request :
        /\ r \in requests => Undecided(r)
        /\ agent[r].pc = "new" => r \notin requests /\ Undecided(r)
        /\ agent[r].pc \in {"added", "waiting", "expired", "replying", "answered"} =>
                r \in requests \/ decided[r] # "none"

\* A goroutine inside Resolve owns its request: nobody else resolves it, and
\* its channel is open, and empty until the send.
OwnerInv ==
    /\ \A t \in Resolver : resolve[t].pc # "idle" =>
        /\ resolve[t].id \in Request \ requests
        /\ agent[resolve[t].id].pc # "new"
        /\ ~done[resolve[t].id].closed
        /\ resolve[t].approved <=> decided[resolve[t].id] = "approved"
        /\ resolve[t].pc \in {"add", "send"} => done[resolve[t].id].buf = "empty"
        /\ resolve[t].pc = "close" /\ agent[resolve[t].id].pc \in {"added", "waiting"}
              => done[resolve[t].id].buf # "empty"
        /\ resolve[t].pc = "add" => t \in Thread /\ resolve[t].approved
        /\ t \in Request => resolve[t].id = t
    /\ \A t, u \in Resolver :
        resolve[t].pc # "idle" /\ resolve[u].pc # "idle" /\ t # u
            => resolve[t].id # resolve[u].id

\* The channel carries the decision, and stays non-empty until it is read.
DecisionInv ==
    \A r \in Request :
        /\ done[r].buf = "true" => decided[r] = "approved"
        /\ done[r].buf = "false" => decided[r] # "approved"
        /\ done[r].closed /\ agent[r].pc \in {"added", "waiting"} => done[r].buf # "empty"
        /\ agent[r].pc \in {"new", "added", "waiting"} => ~agent[r].timeout /\ ~agent[r].allowed
        /\ agent[r].pc = "expired" => agent[r].timeout /\ ~agent[r].allowed

IInv ==
    /\ TypeOK
    /\ NoPanic
    /\ NoGhostRequest
    /\ AnswerMatchesDecision
    /\ OnlyGranted
    /\ RegistryInv
    /\ OwnerInv
    /\ DecisionInv
==============================================================================
