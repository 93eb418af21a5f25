------------------------- MODULE EgressPendingProofs -------------------------
(* Proofs about the modules EgressPending and Allowlist, for any number of *)
(* requests, of dashboard threads and of allowlist entries.                *)
EXTENDS EgressPending, TLAPS

-----------------------------------------------------------------------------
(* The allowlist store by itself.                                          *)

\* The store's types hold, and the list is never empty, for any number of
\* concurrent callers, failed writes and restarts.
THEOREM StoreTypeCorrect == StoreSpec => []StoreTypeOK
<1> USE AllowlistAssumption DEF StoreTypeOK, Frame, CallPc, NoCall, Stored
<1>1. StoreInit => StoreTypeOK
  BY DEF StoreInit
<1>2. StoreTypeOK /\ [StoreNext]_storeVars => StoreTypeOK'
  <2> SUFFICES ASSUME StoreTypeOK, [StoreNext]_storeVars PROVE StoreTypeOK'
    OBVIOUS
  <2>1. ASSUME NEW t \in Thread, NEW entries \in (SUBSET Entry) \ {{}}, SetAllowlist(t, entries)
        PROVE StoreTypeOK'
    BY <2>1 DEF SetAllowlist
  <2>2. ASSUME NEW t \in Thread, NEW e \in Entry, AddToAllowlist(t, e)
        PROVE StoreTypeOK'
    BY <2>2 DEF AddToAllowlist
  <2>3. ASSUME NEW t \in Thread, StoreStep(t) PROVE StoreTypeOK'
    BY <2>3 DEF StoreStep, GetAllowlist, Persist, PersistFails, Publish
  <2>4. CASE ReloadAllowlist
    BY <2>4 DEF ReloadAllowlist
  <2>5. CASE UNCHANGED storeVars
    BY <2>5 DEF storeVars
  <2> QED
    BY <2>1, <2>2, <2>3, <2>4, <2>5 DEF StoreNext
<1> QED
  BY <1>1, <1>2, PTL DEF StoreSpec

\* With one caller at a time, whatever SQL writes fail, and as long as the list
\* can be read at startup, a restart between calls opens no host the running proxy blocks.
THEOREM SequentialRestartNeverWidens ==
    ASSUME Sequential, Thread # {}, ~ReadMayFail
    PROVE  StoreSpec => []RestartNeverWidens
<1> USE AllowlistAssumption DEF WidenInv, StoreTypeOK, Frame, CallPc, NoCall, Stored
<1>1. StoreInit => WidenInv
  BY DEF StoreInit
<1>2. StoreTypeOK /\ WidenInv /\ [StoreNext]_storeVars => WidenInv'
  <2> SUFFICES ASSUME StoreTypeOK, WidenInv, [StoreNext]_storeVars PROVE WidenInv'
    OBVIOUS
  <2>1. ASSUME NEW t \in Thread, NEW entries \in (SUBSET Entry) \ {{}}, SetAllowlist(t, entries)
        PROVE WidenInv'
    BY <2>1 DEF SetAllowlist, Sequential
  <2>2. ASSUME NEW t \in Thread, NEW e \in Entry, AddToAllowlist(t, e)
        PROVE WidenInv'
    BY <2>2 DEF AddToAllowlist, Sequential
  <2>3. ASSUME NEW t \in Thread, GetAllowlist(t) PROVE WidenInv'
    BY <2>3 DEF GetAllowlist, Sequential
  <2>4. ASSUME NEW t \in Thread, Persist(t) PROVE WidenInv'
    BY <2>4 DEF Persist, Sequential
  <2>5. ASSUME NEW t \in Thread, PersistFails(t) PROVE WidenInv'
    BY <2>5 DEF PersistFails, Sequential
  <2>6. ASSUME NEW t \in Thread, Publish(t) PROVE WidenInv'
    BY <2>6 DEF Publish, Sequential
  <2>7. CASE ReloadAllowlist
    BY <2>7 DEF ReloadAllowlist
  <2>8. CASE UNCHANGED storeVars
    BY <2>8 DEF storeVars
  <2> QED
    BY <2>1, <2>2, <2>3, <2>4, <2>5, <2>6, <2>7, <2>8 DEF StoreNext, StoreStep
<1>3. WidenInv => RestartNeverWidens
  BY DEF RestartNeverWidens, NothingInFlight
<1> QED
  BY <1>1, <1>2, <1>3, StoreTypeCorrect, PTL DEF StoreSpec

-----------------------------------------------------------------------------
(* The permission requests.                                                *)

LEMMA InitIInv == Init => IInv
<1> SUFFICES ASSUME Init PROVE IInv
  OBVIOUS
<1> USE AllowlistAssumption, PendingAssumption DEF Init, StoreInit
<1>1. TypeOK
  BY DEF TypeOK, StoreTypeOK, Frame, CallPc, NoCall, Agent, AgentPc, Channel,
         NoResolve, ResolveFrame, ResolvePc
<1>2. NoPanic /\ NoGhostRequest
  BY DEF NoPanic, NoGhostRequest
<1>3. AnswerMatchesDecision /\ DecisionInv
  BY DEF AnswerMatchesDecision, DecisionInv, Agent, AgentPc
<1>4. OnlyGranted
  BY DEF OnlyGranted, Granted, NoCall
<1>5. RegistryInv /\ OwnerInv
  BY DEF RegistryInv, OwnerInv, Undecided, NoResolve
<1> QED
  BY <1>1, <1>2, <1>3, <1>4, <1>5 DEF IInv

\* Writing an answer into a handler's record keeps the record's type.
LEMMA AnswerType ==
    ASSUME NEW f \in [Request -> Agent], NEW r \in Request, NEW p \in AgentPc,
           NEW b \in BOOLEAN
    PROVE  [f EXCEPT ![r].pc = p, ![r].allowed = b] \in [Request -> Agent]
BY DEF Agent

\* Each action keeps every variable in its type.
LEMMA TypeStep == IInv /\ Next => TypeOK'
<1> SUFFICES ASSUME IInv, Next PROVE TypeOK'
  OBVIOUS
<1>t. TypeOK /\ OwnerInv
  BY DEF IInv
<1>1. ASSUME NEW r \in Request, RejectRequest(r) \/ Add(r) \/ StartTimer(r) \/ TimerFires(r) \/ Reply(r)
      PROVE TypeOK'
  <2>1. agent' \in [Request -> Agent]
    <3>1. agent \in [Request -> Agent]
      BY <1>t DEF TypeOK
    <3>2. CASE RejectRequest(r)
      BY <3>1, <3>2 DEF RejectRequest, Agent, AgentPc
    <3>3. CASE Add(r)
      BY <3>1, <3>3 DEF Add, Agent, AgentPc
    <3>4. CASE StartTimer(r)
      BY <3>1, <3>4 DEF StartTimer, Agent, AgentPc
    <3>5. CASE TimerFires(r)
      BY ZenonT(40), <3>1, <3>5 DEF TimerFires, Agent, AgentPc
    <3>6. CASE Reply(r)
      BY <3>1, <3>6 DEF Reply, Agent, AgentPc
    <3> QED
      BY <1>1, <3>2, <3>3, <3>4, <3>5, <3>6
  <2>2. requests' \in SUBSET Request
    BY <1>t, <1>1 DEF RejectRequest, Add, StartTimer, TimerFires, Reply, TypeOK
  <2> QED
    BY <1>t, <1>1, <2>1, <2>2
    DEF RejectRequest, Add, StartTimer, TimerFires, Reply, TypeOK, StoreTypeOK, storeVars
<1>2. ASSUME NEW r \in Request, Receive(r) PROVE TypeOK'
  <2>1. agent' \in [Request -> Agent]
    <3>1. agent \in [Request -> Agent] /\ (done[r].buf = "true") \in BOOLEAN
      BY <1>t DEF TypeOK
    <3> QED
      BY <1>2, <3>1, AnswerType DEF Receive, AgentPc
  <2>2. done' \in [Request -> Channel]
    BY <1>t, <1>2 DEF Receive, TypeOK, Channel
  <2> QED
    BY <1>t, <1>2, <2>1, <2>2 DEF Receive, TypeOK, StoreTypeOK, storeVars
<1>3. ASSUME NEW r \in Request, ExpireRequest(r) PROVE TypeOK'
  <2>1. agent' \in [Request -> Agent]
    BY <1>t, <1>3 DEF ExpireRequest, TypeOK, Agent, AgentPc
  <2>2. resolve' \in [Resolver -> ResolveFrame]
    <3>1. resolve \in [Resolver -> ResolveFrame] /\ r \in Resolver
      BY <1>t DEF TypeOK, Resolver
    <3>2. CASE TakeRequest(r, r, FALSE, "expired")
      BY <3>1, <3>2 DEF TakeRequest, ResolveFrame, ResolvePc
    <3> QED
      BY <1>3, <3>1, <3>2 DEF ExpireRequest
  <2>3. /\ requests' \in SUBSET Request
        /\ decided' \in [Request -> {"none", "approved", "denied", "expired"}]
    BY <1>t, <1>3 DEF ExpireRequest, TakeRequest, TypeOK
  <2> QED
    BY <1>t, <1>3, <2>1, <2>2, <2>3 DEF ExpireRequest, TypeOK, StoreTypeOK, storeVars
<1>4. ASSUME NEW t \in Thread, NEW r \in Request, NEW approved \in BOOLEAN,
             DecideRequest(t, r, approved)
      PROVE TypeOK'
  <2>2. resolve' \in [Resolver -> ResolveFrame]
    BY <1>t, <1>4 DEF DecideRequest, TakeRequest, TypeOK, ResolveFrame, ResolvePc, Resolver
  <2>3. /\ requests' \in SUBSET Request
        /\ decided' \in [Request -> {"none", "approved", "denied", "expired"}]
    BY <1>t, <1>4 DEF DecideRequest, TakeRequest, TypeOK
  <2> QED
    BY <1>t, <1>4, <2>2, <2>3 DEF DecideRequest, TypeOK, StoreTypeOK, storeVars
<1>5. ASSUME NEW t \in Thread, NEW entries \in SUBSET Entry, HandleSetAllowlist(t, entries)
      PROVE TypeOK'
  BY <1>t, <1>5 DEF HandleSetAllowlist, AcceptsList, SetAllowlist, TypeOK, StoreTypeOK, Frame, CallPc
<1>6. ASSUME NEW t \in Thread, CallStep(t) PROVE TypeOK'
  <2>1. StoreTypeOK'
    <3>1. StoreTypeOK /\ StoreStep(t)
      BY <1>t, <1>6 DEF TypeOK, CallStep
    <3>2. CASE GetAllowlist(t)
      BY <3>1, <3>2 DEF GetAllowlist, StoreTypeOK, Frame, CallPc
    <3>3. CASE Persist(t)
      BY <3>1, <3>3 DEF Persist, StoreTypeOK, Frame, CallPc
    <3>4. CASE PersistFails(t)
      BY <3>1, <3>4 DEF PersistFails, StoreTypeOK, Frame, CallPc, NoCall
    <3>5. CASE Publish(t)
      BY <3>1, <3>5 DEF Publish, StoreTypeOK, Frame, CallPc, NoCall
    <3> QED
      BY <3>1, <3>2, <3>3, <3>4, <3>5 DEF StoreStep
  <2> QED
    BY <1>t, <1>6, <2>1 DEF CallStep, registryVars, TypeOK
<1>7. ASSUME NEW t \in Resolver, ApproveEntry(t) PROVE TypeOK'
  <2>1. t \in Thread /\ agent[resolve[t].id].entry \in Entry
    BY <1>t, <1>7 DEF ApproveEntry, OwnerInv, TypeOK, Agent
  <2>2. StoreTypeOK'
    BY <1>t, <1>7, <2>1 DEF ApproveEntry, AddToAllowlist, TypeOK, StoreTypeOK, Frame, CallPc
  <2>3. resolve' \in [Resolver -> ResolveFrame]
    BY <1>t, <1>7 DEF ApproveEntry, TypeOK, ResolveFrame, ResolvePc
  <2> QED
    BY <1>t, <1>7, <2>2, <2>3 DEF ApproveEntry, TypeOK
<1>8. ASSUME NEW t \in Resolver, SendDecision(t) \/ CloseDone(t) PROVE TypeOK'
  <2>0. /\ done \in [Request -> Channel] /\ resolve \in [Resolver -> ResolveFrame]
        /\ resolve[t].id \in Request /\ ~done[resolve[t].id].closed
    BY <1>t, <1>8 DEF TypeOK, OwnerInv, SendDecision, CloseDone
  <2>1. done' \in [Request -> Channel]
    <3>1. CASE SendDecision(t)
      BY <2>0, <3>1 DEF SendDecision, Channel, Value
    <3>2. CASE CloseDone(t)
      BY <2>0, <3>2 DEF CloseDone, Channel
    <3> QED
      BY <1>8, <3>1, <3>2
  <2>2. resolve' \in [Resolver -> ResolveFrame]
    <3>1. CASE SendDecision(t)
      BY <2>0, <3>1 DEF SendDecision, ResolveFrame, ResolvePc
    <3>2. CASE CloseDone(t)
      BY <2>0, <3>2 DEF CloseDone, ResolveFrame, ResolvePc, NoResolve
    <3> QED
      BY <1>8, <3>1, <3>2
  <2>3. panics' \in SUBSET Resolver
    BY <1>t, <1>8 DEF SendDecision, CloseDone, TypeOK
  <2> QED
    BY <1>t, <1>8, <2>1, <2>2, <2>3 DEF SendDecision, CloseDone, TypeOK, StoreTypeOK, storeVars
<1>9. CASE List
  BY <1>t, <1>9 DEF List, TypeOK, StoreTypeOK, storeVars, Channel, Resolver
<1>10. CASE Tick
  BY <1>t, <1>10, PendingAssumption DEF Tick, Bump, TypeOK, StoreTypeOK, storeVars
<1>11. CASE Restart
  <2>1. StoreTypeOK'
    BY <1>t, <1>11, AllowlistAssumption
    DEF Restart, ReloadAllowlist, Stored, TypeOK, StoreTypeOK, Frame, CallPc, NoCall
  <2>2. agent' \in [Request -> Agent]
    BY SMTT(30), <1>t, <1>11 DEF Restart, TypeOK, Agent, AgentPc
  <2>3. resolve' \in [Resolver -> ResolveFrame]
    BY <1>11 DEF Restart, ResolveFrame, ResolvePc, NoResolve
  <2> QED
    BY <1>t, <1>11, <2>1, <2>2, <2>3 DEF Restart, TypeOK
<1> QED
  BY <1>1, <1>2, <1>3, <1>4, <1>5, <1>6, <1>7, <1>8, <1>9, <1>10, <1>11
  DEF Next, HandlerStep, ResolveStep

Safe ==
    /\ NoPanic
    /\ NoGhostRequest
    /\ AnswerMatchesDecision
    /\ RegistryInv
    /\ OwnerInv
    /\ DecisionInv

\* The handler's own steps: only agent and requests change.
LEMMA HandlerStepSafe ==
    ASSUME IInv, NEW r \in Request,
           RejectRequest(r) \/ Add(r) \/ StartTimer(r) \/ TimerFires(r) \/ Reply(r)
    PROVE  Safe'
<1>t. /\ agent \in [Request -> Agent] /\ done \in [Request -> Channel]
      /\ resolve \in [Resolver -> ResolveFrame]
  BY DEF IInv, TypeOK
<1> USE DEF IInv, Safe, NoPanic, NoGhostRequest, AnswerMatchesDecision, RegistryInv,
            OwnerInv, DecisionInv, Undecided
<1>1. CASE RejectRequest(r)
  BY <1>t, <1>1 DEF RejectRequest, Agent, AgentPc
<1>2. CASE Add(r)
  BY <1>t, <1>2 DEF Add, Agent, AgentPc
<1>3. CASE StartTimer(r)
  BY <1>t, <1>3 DEF StartTimer, Agent, AgentPc
<1>4. CASE TimerFires(r)
  BY <1>t, <1>4 DEF TimerFires, Agent, AgentPc
<1>5. CASE Reply(r)
  BY <1>t, <1>5 DEF Reply, Agent, AgentPc
<1> QED
  BY <1>1, <1>2, <1>3, <1>4, <1>5

\* The handler reads the channel: what it finds there is the decision.
LEMMA ReceiveSafe ==
    ASSUME IInv, NEW r \in Request, Receive(r)
    PROVE  Safe'
<1>t. /\ agent \in [Request -> Agent] /\ done \in [Request -> Channel]
      /\ resolve \in [Resolver -> ResolveFrame]
      /\ decided \in [Request -> {"none", "approved", "denied", "expired"}]
      /\ requests \in SUBSET Request
  BY DEF IInv, TypeOK
<1>u. UNCHANGED <<requests, resolve, panics, decided>>
  BY DEF Receive
<1>1. /\ agent[r].pc = "waiting" /\ r \notin requests
      /\ done[r].buf \in {"true", "false"}
      /\ ~agent[r].timeout /\ decided[r] # "none"
      /\ done[r].buf = "true" <=> decided[r] = "approved"
  BY <1>t DEF Receive, Channel, IInv, RegistryInv, Undecided, DecisionInv
<1>2. /\ agent'[r].pc = "replying" /\ agent'[r].timeout = agent[r].timeout
      /\ agent'[r].allowed = (done[r].buf = "true")
      /\ \A q \in Request : q # r => agent'[q] = agent[q]
  BY <1>t DEF Receive, Agent
<1>3. /\ done'[r].buf = "empty" /\ done'[r].closed = done[r].closed
      /\ \A q \in Request : q # r => done'[q] = done[q]
  BY <1>t DEF Receive, Channel
<1>4. NoPanic' /\ NoGhostRequest'
  BY <1>t, <1>u, <1>1, <1>2 DEF IInv, NoPanic, NoGhostRequest
<1>5. AnswerMatchesDecision'
  BY <1>u, <1>1, <1>2 DEF IInv, AnswerMatchesDecision
<1>6. RegistryInv'
  BY <1>t, <1>u, <1>1, <1>2, <1>3 DEF IInv, RegistryInv, Undecided
<1>7. OwnerInv'
  BY <1>t, <1>u, <1>1, <1>2, <1>3 DEF IInv, OwnerInv
<1>8. DecisionInv'
  BY <1>t, <1>u, <1>1, <1>2, <1>3 DEF IInv, DecisionInv
<1> QED
  BY <1>4, <1>5, <1>6, <1>7, <1>8 DEF Safe

\* Taking a request out of the registry makes the caller its only owner.
LEMMA TakeSafe ==
    ASSUME IInv, NEW t \in Resolver, NEW r \in Request, NEW approved \in BOOLEAN,
           NEW decision \in {"approved", "denied", "expired"},
           decision = "approved" <=> approved, approved => t \in Thread, t \in Request => t = r,
           resolve[t].pc = "idle",
           TakeRequest(t, r, approved, decision), UNCHANGED <<done, panics>>,
           \/ UNCHANGED agent
           \/ agent[r].pc = "expired" /\ agent' = [agent EXCEPT ![r].pc = "replying"]
    PROVE  Safe'
<1>t. /\ agent \in [Request -> Agent] /\ done \in [Request -> Channel]
      /\ resolve \in [Resolver -> ResolveFrame]
      /\ decided \in [Request -> {"none", "approved", "denied", "expired"}]
      /\ requests \in SUBSET Request
  BY DEF IInv, TypeOK
<1>1. /\ r \in requests /\ requests' = requests \ {r}
      /\ Undecided(r) /\ agent[r].pc \in {"added", "waiting", "expired"}
  BY DEF TakeRequest, IInv, RegistryInv, NoGhostRequest
<1>2. /\ \A q \in Request : q # r => agent'[q] = agent[q]
      /\ agent'[r].timeout = agent[r].timeout /\ agent'[r].allowed = agent[r].allowed
      /\ agent'[r].pc = agent[r].pc \/ (agent[r].pc = "expired" /\ agent'[r].pc = "replying")
  BY <1>t DEF Agent
<1>3. /\ resolve'[t].id = r /\ resolve'[t].approved = approved
      /\ resolve'[t].pc = IF approved THEN "add" ELSE "send"
      /\ \A u \in Resolver : u # t => resolve'[u] = resolve[u]
  BY <1>t DEF TakeRequest, ResolveFrame
<1>4. /\ decided'[r] = decision
      /\ \A q \in Request : q # r => decided'[q] = decided[q]
  BY <1>t DEF TakeRequest
<1>5. NoPanic' /\ NoGhostRequest'
  BY <1>t, <1>1, <1>2 DEF IInv, NoPanic, NoGhostRequest
<1>6. AnswerMatchesDecision'
  BY <1>1, <1>2, <1>4 DEF IInv, AnswerMatchesDecision, DecisionInv
<1>7. RegistryInv'
  BY <1>1, <1>2, <1>4 DEF IInv, RegistryInv, Undecided
<1>8. OwnerInv'
  <2>1. \A u \in Resolver : resolve[u].pc # "idle" => resolve[u].id \in Request /\ resolve[u].id # r
    BY <1>1 DEF IInv, OwnerInv
  <2> QED
    BY <1>1, <1>2, <1>3, <1>4, <2>1 DEF IInv, OwnerInv, Undecided
<1>9. DecisionInv'
  BY <1>1, <1>2, <1>4 DEF IInv, DecisionInv, Undecided
<1> QED
  BY <1>5, <1>6, <1>7, <1>8, <1>9 DEF Safe

\* The send finds the owner's channel open and empty, and leaves the decision.
LEMMA SendSafe ==
    ASSUME IInv, NEW t \in Resolver, SendDecision(t)
    PROVE  Safe'
<1>t. /\ agent \in [Request -> Agent] /\ done \in [Request -> Channel]
      /\ resolve \in [Resolver -> ResolveFrame]
      /\ decided \in [Request -> {"none", "approved", "denied", "expired"}]
      /\ requests \in SUBSET Request
  BY DEF IInv, TypeOK
<1> DEFINE r == resolve[t].id
<1>u. UNCHANGED <<requests, agent, decided>>
  BY DEF SendDecision
<1>1. /\ resolve[t].pc = "send" /\ r \in Request /\ r \notin requests
      /\ agent[r].pc # "new" /\ ~done[r].closed
      /\ resolve[t].approved <=> decided[r] = "approved"
  BY DEF SendDecision, IInv, OwnerInv
<1>2. panics' = panics
  BY <1>1 DEF SendDecision
<1>3. /\ done'[r].buf = Value(resolve[t].approved) /\ ~done'[r].closed
      /\ \A q \in Request : q # r => done'[q] = done[q]
  BY <1>t, <1>1 DEF SendDecision, Channel
<1>4. /\ resolve'[t].id = r /\ resolve'[t].approved = resolve[t].approved
      /\ resolve'[t].pc = "close"
      /\ \A u \in Resolver : u # t => resolve'[u] = resolve[u]
  BY <1>t, <1>1 DEF SendDecision, ResolveFrame
<1> HIDE DEF r
<1>5. NoPanic' /\ NoGhostRequest' /\ AnswerMatchesDecision'
  BY <1>u, <1>2 DEF IInv, NoPanic, NoGhostRequest, AnswerMatchesDecision
<1>6. RegistryInv'
  BY <1>t, <1>u, <1>1, <1>3 DEF IInv, RegistryInv, Undecided
<1>7. OwnerInv'
  <2>1. \A u \in Resolver : u # t /\ resolve[u].pc # "idle" => resolve[u].id \in Request /\ resolve[u].id # r
    BY <1>1 DEF IInv, OwnerInv, r
  <2>2. t \in Request => r = t
    BY <1>1 DEF IInv, OwnerInv, r
  <2> QED
    BY <1>t, <1>u, <1>1, <1>3, <1>4, <2>1, <2>2 DEF IInv, OwnerInv, Value
<1>8. DecisionInv'
  BY <1>t, <1>u, <1>1, <1>3 DEF IInv, DecisionInv, Value
<1> QED
  BY <1>5, <1>6, <1>7, <1>8 DEF Safe

\* The close finds the owner's channel open.
LEMMA CloseSafe ==
    ASSUME IInv, NEW t \in Resolver, CloseDone(t)
    PROVE  Safe'
<1>t. /\ agent \in [Request -> Agent] /\ done \in [Request -> Channel]
      /\ resolve \in [Resolver -> ResolveFrame]
      /\ decided \in [Request -> {"none", "approved", "denied", "expired"}]
      /\ requests \in SUBSET Request
  BY DEF IInv, TypeOK
<1> DEFINE r == resolve[t].id
<1>u. UNCHANGED <<requests, agent, decided>>
  BY DEF CloseDone
<1>1. /\ r \in Request /\ r \notin requests
      /\ agent[r].pc # "new" /\ ~done[r].closed
      /\ agent[r].pc \in {"added", "waiting"} => done[r].buf # "empty"
      /\ resolve[t].pc = "close"
  BY DEF CloseDone, IInv, OwnerInv
<1>2. panics' = panics
  BY <1>1 DEF CloseDone
<1>3. /\ done'[r].buf = done[r].buf /\ done'[r].closed
      /\ \A q \in Request : q # r => done'[q] = done[q]
  BY <1>t, <1>1 DEF CloseDone, Channel
<1>4. /\ resolve'[t].pc = "idle"
      /\ \A u \in Resolver : u # t => resolve'[u] = resolve[u]
  BY <1>t, <1>1 DEF CloseDone, ResolveFrame, NoResolve
<1> HIDE DEF r
<1>5. NoPanic' /\ NoGhostRequest' /\ AnswerMatchesDecision'
  BY <1>u, <1>2 DEF IInv, NoPanic, NoGhostRequest, AnswerMatchesDecision
<1>6. RegistryInv'
  BY <1>t, <1>u, <1>1, <1>3 DEF IInv, RegistryInv, Undecided
<1>7. OwnerInv'
  <2>1. \A u \in Resolver : u # t /\ resolve[u].pc # "idle" => resolve[u].id \in Request /\ resolve[u].id # r
    BY <1>1 DEF IInv, OwnerInv, r
  <2> QED
    BY <1>t, <1>u, <1>1, <1>3, <1>4, <2>1 DEF IInv, OwnerInv
<1>8. DecisionInv'
  BY <1>t, <1>u, <1>1, <1>3 DEF IInv, DecisionInv
<1> QED
  BY <1>5, <1>6, <1>7, <1>8 DEF Safe

\* A poll answers expired requests on channels nobody has used.
LEMMA ListSafe ==
    ASSUME IInv, List
    PROVE  Safe'
<1>t. /\ agent \in [Request -> Agent] /\ done \in [Request -> Channel]
      /\ resolve \in [Resolver -> ResolveFrame]
      /\ decided \in [Request -> {"none", "approved", "denied", "expired"}]
      /\ requests \in SUBSET Request
  BY DEF IInv, TypeOK
<1> DEFINE gone == {r \in requests : Expired(r)}
<1>u. UNCHANGED <<agent, resolve>> /\ requests' = requests \ gone
  BY DEF List
<1>1. \A r \in gone : Undecided(r) /\ agent[r].pc \in {"added", "waiting", "expired"} /\ r \in requests
  BY <1>t DEF IInv, RegistryInv, NoGhostRequest
<1>2. panics' = {}
  BY <1>1 DEF List, IInv, NoPanic, Undecided
<1>3. /\ \A q \in gone : done'[q].buf = "false" /\ done'[q].closed /\ decided'[q] = "expired"
      /\ \A q \in Request \ gone : done'[q] = done[q] /\ decided'[q] = decided[q]
  BY <1>t, <1>1 DEF List, Undecided
<1> HIDE DEF gone
<1>5. NoPanic' /\ NoGhostRequest'
  BY <1>u, <1>2 DEF IInv, NoPanic, NoGhostRequest
<1>6. AnswerMatchesDecision'
  BY <1>u, <1>1, <1>3 DEF IInv, AnswerMatchesDecision
<1>7. RegistryInv'
  BY <1>t, <1>u, <1>1, <1>3 DEF IInv, RegistryInv, Undecided
<1>8. OwnerInv'
  <2>1. \A u \in Resolver : resolve[u].pc # "idle" => resolve[u].id \in Request \ gone
    BY <1>1 DEF IInv, OwnerInv
  <2> QED
    BY <1>t, <1>u, <1>3, <2>1 DEF IInv, OwnerInv
<1>9. DecisionInv'
  BY <1>t, <1>u, <1>1, <1>3 DEF IInv, DecisionInv, Undecided
<1> QED
  BY <1>5, <1>6, <1>7, <1>8, <1>9 DEF Safe

\* After a restart no request is registered and nobody is inside Resolve.
LEMMA RestartSafe ==
    ASSUME IInv, Restart
    PROVE  Safe'
<1>t. /\ agent \in [Request -> Agent] /\ done \in [Request -> Channel]
      /\ resolve \in [Resolver -> ResolveFrame]
      /\ decided \in [Request -> {"none", "approved", "denied", "expired"}]
      /\ requests \in SUBSET Request
  BY DEF IInv, TypeOK
<1>u. requests' = {} /\ UNCHANGED <<done, panics, decided>>
  BY DEF Restart
<1>1. \A r \in Request :
        \/ agent'[r] = agent[r] /\ agent[r].pc \in {"new", "answered", "rejected"}
        \/ agent'[r].pc = "aborted"
  BY <1>t DEF Restart, Agent
<1>2. \A t \in Resolver : resolve'[t].pc = "idle"
  BY DEF Restart, NoResolve
<1> QED
  BY <1>t, <1>u, <1>1, <1>2
  DEF Safe, IInv, NoPanic, NoGhostRequest, AnswerMatchesDecision, RegistryInv, OwnerInv,
      DecisionInv, Undecided

\* Resolve's call of the store moves its frame on and touches nothing else here.
LEMMA ApproveSafe ==
    ASSUME IInv, NEW t \in Resolver, ApproveEntry(t)
    PROVE  Safe'
<1>t. resolve \in [Resolver -> ResolveFrame]
  BY DEF IInv, TypeOK
<1>u. UNCHANGED <<requests, agent, done, panics, decided>>
  BY DEF ApproveEntry
<1>1. /\ resolve[t].pc = "add" /\ resolve'[t].pc = "send"
      /\ resolve'[t].id = resolve[t].id /\ resolve'[t].approved = resolve[t].approved
      /\ \A u \in Resolver : u # t => resolve'[u] = resolve[u]
  BY <1>t DEF ApproveEntry, ResolveFrame
<1> QED
  BY <1>u, <1>1
  DEF Safe, IInv, NoPanic, NoGhostRequest, AnswerMatchesDecision, RegistryInv, OwnerInv,
      DecisionInv, Undecided

LEMMA SafeStep == IInv /\ Next => Safe'
<1> SUFFICES ASSUME IInv, Next PROVE Safe'
  OBVIOUS
<1>1. ASSUME NEW r \in Request, ExpireRequest(r) PROVE Safe'
  <2>1. CASE TakeRequest(r, r, FALSE, "expired")
    <3>1. resolve[r].pc = "idle" /\ r \in Resolver
      BY <1>1, <2>1 DEF TakeRequest, ExpireRequest, IInv, OwnerInv, Resolver
    <3> QED
      BY <1>1, <2>1, <3>1, TakeSafe DEF ExpireRequest
  <2>2. CASE r \notin requests /\ UNCHANGED <<requests, resolve, decided>>
    <3>1. /\ agent[r].pc = "expired" /\ agent[r].timeout /\ ~agent[r].allowed
          /\ decided[r] # "none"
          /\ agent'[r].pc = "replying" /\ agent'[r].timeout = agent[r].timeout
          /\ agent'[r].allowed = agent[r].allowed
          /\ \A q \in Request : q # r => agent'[q] = agent[q]
      BY <1>1, <2>2 DEF ExpireRequest, IInv, TypeOK, Agent, DecisionInv, RegistryInv
    <3> QED
      BY <1>1, <2>2, <3>1
      DEF ExpireRequest, Safe, IInv, TypeOK, NoPanic, NoGhostRequest, AnswerMatchesDecision,
          RegistryInv, OwnerInv, DecisionInv, Undecided
  <2> QED
    BY <1>1, <2>1, <2>2 DEF ExpireRequest
<1>2. ASSUME NEW t \in Thread, NEW r \in Request, NEW approved \in BOOLEAN,
             DecideRequest(t, r, approved)
      PROVE Safe'
  BY <1>2, TakeSafe, PendingAssumption DEF DecideRequest, Free, Resolver
<1>3. CASE UNCHANGED <<requests, agent, done, resolve, panics, decided>>
  BY <1>3
  DEF Safe, IInv, NoPanic, NoGhostRequest, AnswerMatchesDecision, RegistryInv, OwnerInv,
      DecisionInv, Undecided
<1>4. ASSUME NEW t \in Thread, NEW entries \in SUBSET Entry, HandleSetAllowlist(t, entries)
      PROVE Safe'
  BY <1>3, <1>4 DEF HandleSetAllowlist
<1>5. ASSUME NEW t \in Thread, CallStep(t) PROVE Safe'
  BY <1>3, <1>5 DEF CallStep, registryVars
<1>6. CASE Tick
  BY <1>3, <1>6 DEF Tick
<1> QED
  BY <1>1, <1>2, <1>4, <1>5, <1>6, HandlerStepSafe, ReceiveSafe, SendSafe, CloseSafe,
     ListSafe, RestartSafe, ApproveSafe
  DEF Next, HandlerStep, ResolveStep

\* What a request asks for never changes.
LEMMA EntriesFixed ==
  ASSUME IInv, Next
  PROVE  \A r \in Request : agent'[r].entry = agent[r].entry
<1>t. agent \in [Request -> Agent]
  BY DEF IInv, TypeOK
<1>1. CASE UNCHANGED agent
  BY <1>1
<1>2. ASSUME NEW r \in Request, HandlerStep(r) \/ RejectRequest(r) \/ Add(r)
      PROVE \A q \in Request : agent'[q].entry = agent[q].entry
  <2>1. CASE RejectRequest(r)
    BY <1>t, <2>1 DEF RejectRequest, Agent
  <2>2. CASE Add(r)
    BY <1>t, <2>2 DEF Add, Agent
  <2>3. CASE StartTimer(r)
    BY <1>t, <2>3 DEF StartTimer, Agent
  <2>4. CASE Receive(r)
    BY <1>t, <2>4 DEF Receive, Agent
  <2>5. CASE TimerFires(r)
    BY <1>t, <2>5 DEF TimerFires, Agent
  <2>6. CASE ExpireRequest(r)
    BY <1>t, <2>6 DEF ExpireRequest, Agent
  <2>7. CASE Reply(r)
    BY <1>t, <2>7 DEF Reply, Agent
  <2> QED
    BY <1>2, <2>1, <2>2, <2>3, <2>4, <2>5, <2>6, <2>7 DEF HandlerStep
<1>3. CASE Restart
  BY <1>t, <1>3 DEF Restart, Agent
<1> QED
  BY <1>1, <1>2, <1>3 DEF Next, ResolveStep, DecideRequest, HandleSetAllowlist, CallStep,
     registryVars, ApproveEntry, SendDecision, CloseDone, List, Tick

\* Granted never shrinks: an approval, once accepted, is not taken back.
LEMMA GrantedGrows == IInv /\ Next => Granted \subseteq Granted'
<1> SUFFICES ASSUME IInv, Next PROVE Granted \subseteq Granted'
  OBVIOUS
<1>1. saved \subseteq saved'
  BY DEF Next, HandlerStep, ResolveStep, RejectRequest, Add, StartTimer, Receive, TimerFires,
         ExpireRequest, Reply, DecideRequest, HandleSetAllowlist, CallStep, registryVars,
         ApproveEntry, SendDecision, CloseDone, List, Tick, Restart
<1>2. \A r \in Request : agent'[r].entry = agent[r].entry
  BY EntriesFixed
<1>3. \A r \in Request : decided[r] = "approved" => decided'[r] = "approved"
  <2>t. /\ decided \in [Request -> {"none", "approved", "denied", "expired"}]
        /\ \A r \in requests : r \in Request /\ decided[r] = "none"
    BY DEF IInv, TypeOK, RegistryInv, Undecided
  <2>1. CASE UNCHANGED decided
    BY <2>1
  <2>2. ASSUME NEW t, NEW r, NEW approved, NEW decision, TakeRequest(t, r, approved, decision)
        PROVE \A q \in Request : decided[q] = "approved" => decided'[q] = "approved"
    BY <2>t, <2>2 DEF TakeRequest
  <2>3. CASE List
    BY <2>t, <2>3 DEF List
  <2> QED
    BY <2>1, <2>2, <2>3 DEF Next, HandlerStep, ResolveStep, RejectRequest, Add, StartTimer,
       Receive, TimerFires, ExpireRequest, Reply, DecideRequest, HandleSetAllowlist, CallStep,
       registryVars, ApproveEntry, SendDecision, CloseDone, Tick, Restart
<1> QED
  BY <1>1, <1>2, <1>3 DEF Granted

\* Nothing reaches the map, the row or a list on its way but granted entries.
LEMMA GrantedStep == IInv /\ Next => OnlyGranted'
<1> SUFFICES ASSUME IInv, Next PROVE OnlyGranted'
  OBVIOUS
<1>t. /\ call \in [Thread -> Frame]
      /\ allowlist \subseteq Granted' /\ settings \subseteq Granted'
      /\ DefaultAllowlist \subseteq Granted'
      /\ \A t \in Thread : call[t].entries \subseteq Granted'
  BY GrantedGrows DEF IInv, TypeOK, StoreTypeOK, OnlyGranted, Granted
<1>1. CASE UNCHANGED storeVars
  BY <1>t, <1>1 DEF OnlyGranted, storeVars
<1>2. ASSUME NEW t \in Thread, NEW entries \in SUBSET Entry, HandleSetAllowlist(t, entries)
      PROVE OnlyGranted'
  <2>1. entries \subseteq Granted'
    BY <1>2 DEF HandleSetAllowlist, AcceptsList, Granted
  <2> QED
    BY <1>t, <1>2, <2>1 DEF HandleSetAllowlist, SetAllowlist, OnlyGranted, Frame
<1>3. ASSUME NEW t \in Thread, CallStep(t) PROVE OnlyGranted'
  <2>1. CASE GetAllowlist(t)
    BY <1>t, <2>1 DEF GetAllowlist, OnlyGranted, Frame
  <2>2. CASE Persist(t)
    BY <1>t, <2>2 DEF Persist, OnlyGranted, Frame
  <2>3. CASE PersistFails(t)
    BY <1>t, <2>3 DEF PersistFails, OnlyGranted, Frame, NoCall
  <2>4. CASE Publish(t)
    BY <1>t, <2>4 DEF Publish, OnlyGranted, Frame, NoCall
  <2> QED
    BY <1>3, <2>1, <2>2, <2>3, <2>4 DEF CallStep, StoreStep
<1>4. ASSUME NEW t \in Resolver, ApproveEntry(t) PROVE OnlyGranted'
  <2> DEFINE e == agent[resolve[t].id].entry
  <2>1. t \in Thread /\ e \in Granted
    BY <1>4 DEF ApproveEntry, IInv, OwnerInv, Granted
  <2>2. e \in Granted'
    BY <2>1, GrantedGrows
  <2>3. AddToAllowlist(t, e)
    BY <1>4 DEF ApproveEntry
  <2> HIDE DEF e
  <2> QED
    BY <1>t, <2>1, <2>2, <2>3 DEF AddToAllowlist, OnlyGranted, Frame
<1>5. CASE Restart
  BY <1>t, <1>5 DEF Restart, ReloadAllowlist, Stored, NoCall, OnlyGranted
<1> QED
  BY <1>1, <1>2, <1>3, <1>4, <1>5
  DEF Next, HandlerStep, ResolveStep, RejectRequest, Add, StartTimer, Receive, TimerFires,
      ExpireRequest, Reply, DecideRequest, SendDecision, CloseDone, List, Tick

LEMMA StutterIInv == IInv /\ UNCHANGED vars => IInv'
BY DEF vars, storeVars, registryVars, IInv, TypeOK, StoreTypeOK, NoPanic, NoGhostRequest,
       AnswerMatchesDecision, OnlyGranted, Granted, RegistryInv, OwnerInv, DecisionInv,
       Undecided

\* The inductive invariant holds in every reachable state.
THEOREM Inductive == Spec => []IInv
<1>1. IInv /\ [Next]_vars => IInv'
  <2>1. IInv /\ Next => IInv'
    BY TypeStep, SafeStep, GrantedStep DEF IInv, Safe
  <2> QED
    BY <2>1, StutterIInv
<1> QED
  BY InitIInv, <1>1, PTL DEF Spec

\* Types, for every reachable state of handler, registry and store.
THEOREM TypeCorrect == Spec => []TypeOK
<1>1. IInv => TypeOK
  BY DEF IInv
<1> QED
  BY <1>1, Inductive, PTL

\* Resolve and cleanup never send on, and never close, a closed channel, for
\* any number of requests, dashboard threads, polls, timers and restarts.
THEOREM NeverPanics == Spec => []NoPanic
<1>1. IInv => NoPanic
  BY DEF IInv
<1> QED
  BY <1>1, Inductive, PTL

\* The agent is answered only when its request has been decided, and is told
\* "allowed" exactly for an approval that its timer did not overtake
\* (listener.go:77-87), for any number of requests, dashboard threads and polls.
THEOREM AnswersAreDecisions == Spec => []AnswerMatchesDecision
<1>1. IInv => AnswerMatchesDecision
  BY DEF IInv
<1> QED
  BY <1>1, Inductive, PTL

\* A request that has its answer is not in the registry, so the dashboard never
\* offers a decision nobody waits for (pending.go, Add's cleanup and Resolve).
THEOREM NoGhostRequests == Spec => []NoGhostRequest
<1>1. IInv => NoGhostRequest
  BY DEF IInv
<1> QED
  BY <1>1, Inductive, PTL

\* Only what the user granted is ever in the allowlist, in memory or stored.
THEOREM OnlyGrantedAlways == Spec => []OnlyGranted
<1>1. IInv => OnlyGranted
  BY DEF IInv
<1> QED
  BY <1>1, Inductive, PTL

\* The handlers use the store as module Allowlist allows: what holds of every
\* behaviour of the store holds of the store inside this system.
THEOREM UsesStore == Spec => StoreSpec
<1>1. Init => StoreInit
  BY DEF Init
<1>2. IInv /\ [Next]_vars => [StoreNext]_storeVars
  <2> SUFFICES ASSUME IInv, [Next]_vars, ~UNCHANGED storeVars PROVE StoreNext
    OBVIOUS
  <2>1. ASSUME NEW t \in Thread, NEW entries \in SUBSET Entry, HandleSetAllowlist(t, entries)
        PROVE StoreNext
    BY <2>1 DEF HandleSetAllowlist, AcceptsList, StoreNext
  <2>2. ASSUME NEW t \in Thread, CallStep(t) PROVE StoreNext
    BY <2>2 DEF CallStep, StoreNext
  <2>3. ASSUME NEW t \in Resolver, ApproveEntry(t) PROVE StoreNext
    <3>1. t \in Thread /\ agent[resolve[t].id].entry \in Entry
      BY <2>3 DEF ApproveEntry, IInv, OwnerInv, TypeOK, Agent
    <3> QED
      BY <2>3, <3>1 DEF ApproveEntry, StoreNext
  <2>4. CASE Restart
    BY <2>4 DEF Restart, StoreNext
  <2> QED
    BY <2>1, <2>2, <2>3, <2>4
    DEF Next, HandlerStep, ResolveStep, RejectRequest, Add, StartTimer, Receive, TimerFires,
        ExpireRequest, Reply, DecideRequest, SendDecision, CloseDone, List, Tick, vars
<1> QED
  BY <1>1, <1>2, Inductive, PTL DEF Spec, StoreSpec

-----------------------------------------------------------------------------
(* One dashboard caller: an approval is in force when the agent hears of   *)
(* it.                                                                     *)

\* From the first critical section of AddToAllowlist to the send, the approved
\* entry is in the map and in the list that will replace the map.
ConnectInv ==
    \A t \in Thread : resolve[t].pc = "send" /\ resolve[t].approved =>
        LET e == agent[resolve[t].id].entry IN
        /\ e \in allowlist
        /\ call[t].pc \in {"persist", "publish"} => e \in call[t].entries

LEMMA ConnectStep ==
  ASSUME Sequential, IInv, ConnectInv, Next
  PROVE  ConnectInv'
<1>t. /\ agent \in [Request -> Agent] /\ resolve \in [Resolver -> ResolveFrame]
      /\ call \in [Thread -> Frame] /\ \A u \in Thread : u \in Resolver
  BY DEF IInv, TypeOK, StoreTypeOK, Resolver
<1>o. \A u \in Resolver : resolve[u].pc # "idle" => resolve[u].id \in Request
  BY DEF IInv, OwnerInv
<1>e. \A r \in Request : agent'[r].entry = agent[r].entry
  BY EntriesFixed
<1>1. CASE UNCHANGED <<allowlist, call, resolve>>
  BY <1>t, <1>o, <1>e, <1>1 DEF ConnectInv
<1>2. ASSUME NEW u \in Resolver, NEW r, NEW approved \in BOOLEAN, NEW decision,
             TakeRequest(u, r, approved, decision), UNCHANGED storeVars
      PROVE  ConnectInv'
  <2>1. /\ allowlist' = allowlist /\ call' = call
        /\ \A t \in Thread : t # u => resolve'[t] = resolve[t]
        /\ ~(resolve'[u].pc = "send" /\ resolve'[u].approved)
    BY <1>t, <1>2 DEF TakeRequest, storeVars
  <2> QED
    BY <1>t, <1>o, <1>e, <2>1 DEF ConnectInv
<1>3. ASSUME NEW r \in Request, ExpireRequest(r) PROVE ConnectInv'
  <2>1. CASE TakeRequest(r, r, FALSE, "expired")
    <3>1. r \in Resolver /\ UNCHANGED storeVars
      BY <1>3 DEF ExpireRequest, Resolver
    <3> QED
      BY <1>2, <2>1, <3>1
  <2>2. CASE UNCHANGED resolve
    BY <1>1, <1>3, <2>2 DEF ExpireRequest, storeVars
  <2> QED
    BY <1>3, <2>1, <2>2 DEF ExpireRequest
<1>4. ASSUME NEW t \in Thread, NEW r \in Request, NEW approved \in BOOLEAN,
             DecideRequest(t, r, approved)
      PROVE  ConnectInv'
  BY <1>t, <1>2, <1>4 DEF DecideRequest
<1>5. ASSUME NEW t \in Thread, NEW entries \in SUBSET Entry, HandleSetAllowlist(t, entries)
      PROVE  ConnectInv'
  <2>1. \A u \in Thread : resolve'[u].pc = "idle"
    BY <1>5 DEF HandleSetAllowlist, Free, Sequential
  <2> QED
    BY <2>1 DEF ConnectInv
<1>6. ASSUME NEW t \in Thread, CallStep(t) PROVE ConnectInv'
  <2> SUFFICES ASSUME NEW u \in Thread, resolve'[u].pc = "send", resolve'[u].approved
               PROVE  LET e == agent'[resolve'[u].id].entry IN
                      /\ e \in allowlist'
                      /\ call'[u].pc \in {"persist", "publish"} => e \in call'[u].entries
    BY DEF ConnectInv
  <2> DEFINE e == agent[resolve[t].id].entry
  <2>1. /\ u = t /\ resolve' = resolve /\ agent' = agent
        /\ e \in allowlist
        /\ call[t].pc \in {"persist", "publish"} => e \in call[t].entries
    BY <1>6 DEF CallStep, registryVars, Sequential, ConnectInv
  <2>2. CASE GetAllowlist(t)
    BY <1>t, <2>1, <2>2 DEF GetAllowlist
  <2>3. CASE Persist(t)
    BY <1>t, <2>1, <2>3 DEF Persist, Frame
  <2>4. CASE PersistFails(t)
    BY <1>t, <2>1, <2>4 DEF PersistFails, NoCall
  <2>5. CASE Publish(t)
    BY <1>t, <2>1, <2>5 DEF Publish, NoCall
  <2> QED
    BY <1>6, <2>2, <2>3, <2>4, <2>5 DEF CallStep, StoreStep
<1>7. ASSUME NEW t \in Resolver, ApproveEntry(t) PROVE ConnectInv'
  <2> DEFINE e == agent[resolve[t].id].entry
  <2>1. t \in Thread /\ resolve[t].id \in Request
    BY <1>7 DEF ApproveEntry, IInv, OwnerInv
  <2>2. /\ allowlist' = allowlist \cup {e}
        /\ call'[t].pc \in {"idle", "snapshot"}
        /\ resolve'[t].id = resolve[t].id
        /\ agent' = agent
    BY <1>t, <1>7, <2>1 DEF ApproveEntry, AddToAllowlist, Frame, ResolveFrame
  <2> QED
    BY <2>1, <2>2 DEF ConnectInv, Sequential
<1>8. ASSUME NEW t \in Resolver, SendDecision(t) \/ CloseDone(t) PROVE ConnectInv'
  <2>1. /\ allowlist' = allowlist /\ call' = call
        /\ \A u \in Thread : u # t => resolve'[u] = resolve[u]
        /\ resolve'[t].pc # "send"
    <3>1. CASE SendDecision(t)
      BY <1>t, <3>1 DEF SendDecision, NoResolve, ResolveFrame, storeVars
    <3>2. CASE CloseDone(t)
      BY <1>t, <3>2 DEF CloseDone, NoResolve, storeVars
    <3> QED
      BY <1>8, <3>1, <3>2
  <2> QED
    BY <1>t, <1>o, <1>e, <2>1 DEF ConnectInv
<1>9. CASE Restart
  <2>1. \A t \in Thread : resolve'[t].pc = "idle"
    BY <1>t, <1>9 DEF Restart, NoResolve
  <2> QED
    BY <2>1 DEF ConnectInv
<1> QED
  BY <1>1, <1>3, <1>4, <1>5, <1>6, <1>7, <1>8, <1>9
  DEF Next, HandlerStep, ResolveStep, RejectRequest, Add, StartTimer, Receive, TimerFires,
      Reply, List, Tick, storeVars

\* With one dashboard caller at a time, an approved host is in the proxy's map
\* when Resolve tells the agent so, also if the write to the database failed
\* (egress_handlers.go:116).  A second caller saving the list can undo it.
THEOREM ApprovalInForce ==
  ASSUME Sequential
  PROVE  Spec => []ApprovedConnectable
<1>1. Init => ConnectInv
  BY DEF Init, ConnectInv, NoResolve, Resolver
<1>2. IInv /\ ConnectInv /\ [Next]_vars => ConnectInv'
  <2>1. ConnectInv /\ UNCHANGED vars => ConnectInv'
    BY DEF vars, storeVars, registryVars, ConnectInv
  <2> QED
    BY <2>1, ConnectStep
<1>3. ConnectInv => ApprovedConnectable
  BY DEF ConnectInv, ApprovedConnectable
<1> QED
  BY <1>1, <1>2, <1>3, Inductive, PTL DEF Spec
==============================================================================
