----------------------------- MODULE ExecTerminal -----------------------------
(***************************************************************************)
(* terminal.Manager (internal/terminal/manager.go), terminal sessions that *)
(* run as an exec inside a container, and the WebSocket handler in front   *)
(* of it (HandleTerminalWS, internal/terminal/handler.go).                 *)
(*                                                                         *)
(* The registry is guarded by Manager.mu, the subscribers and the replay   *)
(* buffer of a session by the session's own mutex; a step is one critical  *)
(* section, or one call to the container engine.  The two mutexes are      *)
(* never held together, and everything below happens between them.         *)
(*                                                                         *)
(* A call k of CreateSession creates at most the session k.  The exec      *)
(* prints numbered chunks.  The replay buffer holds the last ones that     *)
(* were written to it (that is what module RingBuffer proves, and here,    *)
(* unlike in LocalTerminal, it is always used under the mutex); how many   *)
(* it holds, and how many of them fit into maxReplayBytes, is left out.    *)
(***************************************************************************)
EXTENDS Integers, Sequences, FiniteSets

CONSTANTS
    Project,
    Call,              \* calls of CreateSession, numbered as they begin
    Closer,            \* goroutines that call CloseProjectSessions and CloseAll
    Conn,              \* WebSocket requests
    NoSession,
    SubscriberBufSize, \* chunks a subscriber's channel holds
    Active,            \* bound: the sessions whose exec prints, and may exit
    MaxOutput,         \* bound: chunks it prints
    MayStall           \* whether a client may stop reading and stay connected

ASSUME ExecAssumption ==
    /\ Call \subseteq Nat
    /\ NoSession \notin Call
    /\ Call \cap Closer = {}
    /\ Active \subseteq Call
    /\ SubscriberBufSize \in Nat \ {0}
    /\ MaxOutput \in Nat
    /\ MayStall \in BOOLEAN

VARIABLES
    sessions,  \* Manager.sessions
    byProject, \* Manager.byProject
    create,    \* per call, the frame of CreateSession
    exec,      \* per session, the process and its hijacked connection
    sess,      \* per session, what the Session struct holds
    pump,      \* per session, where pumpOutput is
    teardown,  \* per closer and pump, the frame of CloseSession
    handler,   \* per WebSocket, HandleTerminalWS and its output goroutine
    ch,        \* per WebSocket, its subscriber channel
    seen,      \* (history) per WebSocket, the replay and the chunks sent after it
    panics     \* a closed channel was closed or sent to

registryVars == <<sessions, byProject>>

vars == <<registryVars, create, exec, sess, pump, teardown, handler, ch, seen, panics>>

Create == [pc : {"idle", "exec", "attached", "returned"}, project : Project]

\* What can be seen of a process through its connection, until it is closed.
\* read: chunks pumpOutput has read.
Exec == [state : {"none", "running", "exited", "closed"}, read : 0 .. MaxOutput]

Connected(e) == e.state \in {"running", "exited"}

\* buf: chunks ever written to the replay buffer.
Session == [buf : 0 .. MaxOutput, subs : SUBSET Conn, done : BOOLEAN]

PumpPc == {"none", "read", "write", "close", "ended"}

\* ids: sessions still to be closed.  id: the one being torn down.
Teardown == [pc : {"idle", "next", "conn", "subs"}, ids : SUBSET Call, id : Call \cup {NoSession}]

HandlerPc == {"idle", "upgraded", "found", "subscribed", "replay", "copied",
              "serving", "input", "stopping", "unsubscribe", "removing", "returned"}

\* input: inside the write to the exec's connection.  out: the output goroutine, "write" while it is inside WriteMessage.
\* idle: no message since the read deadline was last set.
Handler == [pc : HandlerPc, id : Call \cup {NoSession}, out : {"none", "select", "write", "ended"},
            open : BOOLEAN, stalled : BOOLEAN, idle : BOOLEAN]

Channel == [queue : Seq(1 .. MaxOutput), closed : BOOLEAN]

\* found: ReplayBuffer found the session.  last: the last chunk of the replay.
Seen == [found : BOOLEAN, last : 0 .. MaxOutput, live : Seq(1 .. MaxOutput)]

Init ==
    /\ sessions = {}
    /\ byProject = [p \in Project |-> {}]
    /\ create \in [Call -> {f \in Create : f.pc = "idle"}]
    /\ exec = [k \in Call |-> [state |-> "none", read |-> 0]]
    /\ sess = [k \in Call |-> [buf |-> 0, subs |-> {}, done |-> FALSE]]
    /\ pump = [k \in Call |-> "none"]
    /\ teardown = [x \in Closer \cup Call |-> [pc |-> "idle", ids |-> {}, id |-> NoSession]]
    /\ handler = [c \in Conn |-> [pc |-> "idle", id |-> NoSession, out |-> "none",
                                  open |-> FALSE, stalled |-> FALSE, idle |-> FALSE]]
    /\ ch = [c \in Conn |-> [queue |-> <<>>, closed |-> FALSE]]
    /\ seen = [c \in Conn |-> [found |-> FALSE, last |-> 0, live |-> <<>>]]
    /\ panics = FALSE

-----------------------------------------------------------------------------
(* CreateSession.                                                          *)

\* The first critical section: a session of the project, if it has one, is
\* what the call returns.
CheckExisting(k) ==
    /\ create[k].pc = "idle"
    /\ \A j \in Call : j < k => create[j].pc # "idle"
    /\ create' = [create EXCEPT ![k].pc = IF byProject[create[k].project] # {} THEN "returned" ELSE "exec"]
    /\ UNCHANGED <<registryVars, exec, sess, pump, teardown, handler, ch, seen, panics>>

\* ExecCreate and ExecAttach: the shell starts, or one of the calls fails.
ExecAttach(k) ==
    /\ create[k].pc = "exec"
    /\ \/ /\ exec' = [exec EXCEPT ![k].state = "running"]
          /\ create' = [create EXCEPT ![k].pc = "attached"]
       \/ /\ create' = [create EXCEPT ![k].pc = "returned"]
          /\ UNCHANGED exec
    /\ UNCHANGED <<registryVars, sess, pump, teardown, handler, ch, seen, panics>>

\* The second critical section does not look for another session; then the
\* pump is started.
Register(k) ==
    /\ create[k].pc = "attached"
    /\ sessions' = sessions \cup {k}
    /\ byProject' = [byProject EXCEPT ![create[k].project] = @ \cup {k}]
    /\ pump' = [pump EXCEPT ![k] = "read"]
    /\ create' = [create EXCEPT ![k].pc = "returned"]
    /\ UNCHANGED <<exec, sess, teardown, handler, ch, seen, panics>>

-----------------------------------------------------------------------------
(* The process in the container (external), as far as it can be observed.  *)

ExecExits(k) ==
    /\ k \in Active
    /\ exec[k].state = "running"
    /\ exec' = [exec EXCEPT ![k].state = "exited"]
    /\ UNCHANGED <<registryVars, create, sess, pump, teardown, handler, ch, seen, panics>>

-----------------------------------------------------------------------------
(* pumpOutput.                                                             *)

\* conn.Read returns the next chunk.  (A chunk together with an error is a
\* chunk and then an error.)
ReadChunk(k) ==
    /\ pump[k] = "read"
    /\ exec[k].state = "running"
    /\ k \in Active /\ exec[k].read < MaxOutput
    /\ exec' = [exec EXCEPT ![k].read = @ + 1]
    /\ pump' = [pump EXCEPT ![k] = "write"]
    /\ UNCHANGED <<registryVars, create, sess, teardown, handler, ch, seen, panics>>

\* The exec is over, or CloseSession has closed the connection.
ReadFails(k) ==
    /\ pump[k] = "read"
    /\ exec[k].state \in {"exited", "closed"}
    /\ pump' = [pump EXCEPT ![k] = "close"]
    /\ UNCHANGED <<registryVars, create, exec, sess, teardown, handler, ch, seen, panics>>

Full(c) == Len(ch[c].queue) >= SubscriberBufSize

\* The channels of subscribers cs get a chunk; the ones that are full are closed.
Sent(cs, chunk) ==
    [c \in Conn |-> IF c \notin cs THEN ch[c]
                    ELSE IF Full(c) THEN [ch[c] EXCEPT !.closed = TRUE]
                    ELSE [ch[c] EXCEPT !.queue = Append(@, chunk)]]

\* Mutant: an evicted subscriber stays in the map.
EvictInPlace(k) ==
    /\ pump[k] = "write"
    /\ ch' = Sent(sess[k].subs, exec[k].read)
    /\ panics' = (panics \/ \E c \in sess[k].subs : ch[c].closed)
    /\ sess' = [sess EXCEPT ![k].buf = exec[k].read]
    /\ pump' = [pump EXCEPT ![k] = "read"]
    /\ UNCHANGED <<registryVars, create, exec, teardown, handler, seen>>

\* Mutant: a chunk reaches the replay buffer with the next one.
BufferLater(k) ==
    /\ pump[k] = "write"
    /\ ch' = Sent(sess[k].subs, exec[k].read)
    /\ panics' = (panics \/ \E c \in sess[k].subs : ch[c].closed)
    /\ sess' = [sess EXCEPT ![k].buf = exec[k].read - 1, ![k].subs = {c \in @ : ~Full(c)}]
    /\ pump' = [pump EXCEPT ![k] = "read"]
    /\ UNCHANGED <<registryVars, create, exec, teardown, handler, seen>>

\* Under the session's mutex: the buffer, then every subscriber.
WriteAndBroadcast(k) ==
    /\ pump[k] = "write"
    /\ ch' = Sent(sess[k].subs, exec[k].read)
    /\ panics' = (panics \/ \E c \in sess[k].subs : ch[c].closed)
    /\ sess' = [sess EXCEPT ![k].buf = exec[k].read, ![k].subs = {c \in @ : ~Full(c)}]
    /\ pump' = [pump EXCEPT ![k] = "read"]
    /\ UNCHANGED <<registryVars, create, exec, teardown, handler, seen>>

\* pumpOutput calls CloseSession for its own session and returns.
PumpCloses(k) ==
    /\ pump[k] = "close"
    /\ teardown' = [teardown EXCEPT ![k] = [pc |-> "next", ids |-> {k}, id |-> NoSession]]
    /\ pump' = [pump EXCEPT ![k] = "ended"]
    /\ UNCHANGED <<registryVars, create, exec, sess, handler, ch, seen, panics>>

-----------------------------------------------------------------------------
(* CloseSession, called by pumpOutput, CloseProjectSessions and CloseAll.  *)

\* The ids are copied under the mutex and closed one by one without it.
Snapshot(x, ids) ==
    /\ teardown[x].pc = "idle"
    /\ ids # {}
    /\ teardown' = [teardown EXCEPT ![x] = [pc |-> "next", ids |-> ids, id |-> NoSession]]
    /\ UNCHANGED <<registryVars, create, exec, sess, pump, handler, ch, seen, panics>>

CloseProjectSessions(x, p) == Snapshot(x, byProject[p])

CloseAll(x) == Snapshot(x, sessions)

\* The loop over the ids goes on, or the call returns.
After(ids) == IF ids = {} THEN "idle" ELSE "next"

\* Mutant: the project's index keeps the session.
UnregisterOnce(x, s) ==
    /\ teardown[x].pc = "next"
    /\ s \in teardown[x].ids
    /\ teardown' = [teardown EXCEPT ![x] =
                        [pc |-> IF s \in sessions THEN "conn" ELSE After(@.ids \ {s}),
                         ids |-> @.ids \ {s},
                         id |-> IF s \in sessions THEN s ELSE NoSession]]
    /\ sessions' = sessions \ {s}
    /\ UNCHANGED <<byProject, create, exec, sess, pump, handler, ch, seen, panics>>

\* CloseSession: who finds the session in the registry removes it from both
\* maps and tears it down; anybody else returns at once.
Unregister(x, s) ==
    /\ teardown[x].pc = "next"
    /\ s \in teardown[x].ids
    /\ teardown' = [teardown EXCEPT ![x] =
                        [pc |-> IF s \in sessions THEN "conn" ELSE After(@.ids \ {s}),
                         ids |-> @.ids \ {s},
                         id |-> IF s \in sessions THEN s ELSE NoSession]]
    /\ sessions' = sessions \ {s}
    /\ byProject' = [p \in Project |-> byProject[p] \ {s}]
    /\ UNCHANGED <<create, exec, sess, pump, handler, ch, seen, panics>>

\* Mutant: the connection to the exec is left open.
CloseDoneOnly(x) ==
    /\ teardown[x].pc = "conn"
    /\ sess' = [sess EXCEPT ![teardown[x].id].done = TRUE]
    /\ panics' = (panics \/ sess[teardown[x].id].done)
    /\ teardown' = [teardown EXCEPT ![x].pc = "subs"]
    /\ UNCHANGED <<registryVars, create, exec, pump, handler, ch, seen>>

\* closeOnce.Do: close(done) and conn.Close, without a mutex.
CloseConn(x) ==
    /\ teardown[x].pc = "conn"
    /\ sess' = [sess EXCEPT ![teardown[x].id].done = TRUE]
    /\ exec' = [exec EXCEPT ![teardown[x].id].state = "closed"]
    /\ panics' = (panics \/ sess[teardown[x].id].done)
    /\ teardown' = [teardown EXCEPT ![x].pc = "subs"]
    /\ UNCHANGED <<registryVars, create, pump, handler, ch, seen>>

CloseSubscribers(x) ==
    /\ teardown[x].pc = "subs"
    /\ LET s == teardown[x].id IN
       /\ ch' = [c \in Conn |-> IF c \in sess[s].subs THEN [ch[c] EXCEPT !.closed = TRUE] ELSE ch[c]]
       /\ panics' = (panics \/ \E c \in sess[s].subs : ch[c].closed)
       /\ sess' = [sess EXCEPT ![s].subs = {}]
    /\ teardown' = [teardown EXCEPT ![x].pc = After(teardown[x].ids), ![x].id = NoSession]
    /\ UNCHANGED <<registryVars, create, exec, pump, handler, seen>>

-----------------------------------------------------------------------------
(* HandleTerminalWS.                                                       *)

Returned == [pc |-> "returned", id |-> NoSession, out |-> "none",
             open |-> FALSE, stalled |-> FALSE, idle |-> FALSE]

\* GetSession and the upgrade; without a session the client gets the close
\* code 4004.
Connect(c, s) ==
    /\ handler[c].pc = "idle"
    /\ handler' = IF s \in sessions
                  THEN [handler EXCEPT ![c].pc = "upgraded", ![c].id = s, ![c].open = TRUE]
                  ELSE [handler EXCEPT ![c] = Returned]
    /\ UNCHANGED <<registryVars, create, exec, sess, pump, teardown, ch, seen, panics>>

\* Subscribe looks the session up under one mutex ...
SubscribeLookup(c) ==
    /\ handler[c].pc = "upgraded"
    /\ handler' = IF handler[c].id \in sessions
                  THEN [handler EXCEPT ![c].pc = "found"]
                  ELSE [handler EXCEPT ![c] = Returned]
    /\ UNCHANGED <<registryVars, create, exec, sess, pump, teardown, ch, seen, panics>>

\* ... and adds the channel under the other.
SubscribeAdd(c) ==
    /\ handler[c].pc = "found"
    /\ sess' = [sess EXCEPT ![handler[c].id].subs = @ \cup {c}]
    /\ handler' = [handler EXCEPT ![c].pc = "subscribed"]
    /\ UNCHANGED <<registryVars, create, exec, pump, teardown, ch, seen, panics>>

\* ReplayBuffer, likewise; nil when the session is gone.
ReplayLookup(c) ==
    /\ handler[c].pc = "subscribed"
    /\ handler' = [handler EXCEPT ![c].pc = IF handler[c].id \in sessions THEN "replay" ELSE "copied"]
    /\ UNCHANGED <<registryVars, create, exec, sess, pump, teardown, ch, seen, panics>>

\* The last chunks written to the buffer.
ReplayCopy(c) ==
    /\ handler[c].pc = "replay"
    /\ seen' = [seen EXCEPT ![c].found = TRUE, ![c].last = sess[handler[c].id].buf]
    /\ handler' = [handler EXCEPT ![c].pc = "copied"]
    /\ UNCHANGED <<registryVars, create, exec, sess, pump, teardown, ch, panics>>

\* The replay frame is written, unless it is empty; then the output goroutine
\* and the input loop start.  A write that fails ends the handler, and one to
\* a client that has stopped reading does not return.
StartServing(c) ==
    /\ handler[c].pc = "copied"
    /\ \/ /\ ~handler[c].stalled
          /\ handler' = [handler EXCEPT ![c].pc = "serving", ![c].out = "select"]
       \/ /\ ~handler[c].open
          /\ seen[c].last > 0
          /\ handler' = [handler EXCEPT ![c].pc = "unsubscribe"]
    /\ UNCHANGED <<registryVars, create, exec, sess, pump, teardown, ch, seen, panics>>

\* The output goroutine takes a chunk ...
TakeChunk(c) ==
    /\ handler[c].out = "select"
    /\ ch[c].queue # <<>>
    /\ seen' = [seen EXCEPT ![c].live = Append(@, Head(ch[c].queue))]
    /\ ch' = [ch EXCEPT ![c].queue = Tail(@)]
    /\ handler' = [handler EXCEPT ![c].out = "write"]
    /\ UNCHANGED <<registryVars, create, exec, sess, pump, teardown, panics>>

\* ... and writes it.  There is no write deadline: with a client that has
\* stopped reading, WriteMessage returns only when the connection breaks.
WriteChunk(c) ==
    /\ handler[c].out = "write"
    /\ \/ handler[c].open /\ ~handler[c].stalled /\ handler' = [handler EXCEPT ![c].out = "select"]
       \/ ~handler[c].open /\ handler' = [handler EXCEPT ![c].out = "ended"]
    /\ UNCHANGED <<registryVars, create, exec, sess, pump, teardown, ch, seen, panics>>

\* Mutant: the goroutine does not watch stopOutput.
OutputEndsByChannel(c) ==
    /\ handler[c].out = "select"
    /\ ch[c].closed /\ ch[c].queue = <<>>
    /\ handler' = [handler EXCEPT ![c].out = "ended"]
    /\ UNCHANGED <<registryVars, create, exec, sess, pump, teardown, ch, seen, panics>>

\* The channel is closed and drained, or the input loop closed stopOutput.
\* The WebSocket stays open.
OutputEnds(c) ==
    /\ handler[c].out = "select"
    /\ \/ ch[c].closed /\ ch[c].queue = <<>>
       \/ handler[c].pc = "stopping"
    /\ handler' = [handler EXCEPT ![c].out = "ended"]
    /\ UNCHANGED <<registryVars, create, exec, sess, pump, teardown, ch, seen, panics>>

\* A message resets the read deadline, whatever becomes of it: a resize changes
\* nothing here, WriteInput only logs that the session is gone, or begins to
\* write to the connection of the session it has found.
Message(c) ==
    /\ handler[c].pc = "serving"
    /\ handler[c].open
    /\ \/ handler' = [handler EXCEPT ![c].idle = FALSE]
       \/ /\ handler[c].id \in sessions
          /\ handler' = [handler EXCEPT ![c].pc = "input", ![c].idle = FALSE]
    /\ UNCHANGED <<registryVars, create, exec, sess, pump, teardown, ch, seen, panics>>

\* sess.conn.Write returns: when the exec takes its input, if it ever does ...
InputTaken(c) ==
    /\ handler[c].pc = "input"
    /\ Connected(exec[handler[c].id])
    /\ handler' = [handler EXCEPT ![c].pc = "serving"]
    /\ UNCHANGED <<registryVars, create, exec, sess, pump, teardown, ch, seen, panics>>

\* ... or when CloseSession has closed the connection; it has no deadline.
InputFails(c) ==
    /\ handler[c].pc = "input"
    /\ exec[handler[c].id].state = "closed"
    /\ handler' = [handler EXCEPT ![c].pc = "serving"]
    /\ UNCHANGED <<registryVars, create, exec, sess, pump, teardown, ch, seen, panics>>

\* terminalIdleTimeout passes without a message; only ReadMessage minds.
TimePasses(c) ==
    /\ handler[c].pc = "serving"
    /\ handler[c].open
    /\ ~handler[c].idle
    /\ handler' = [handler EXCEPT ![c].idle = TRUE]
    /\ UNCHANGED <<registryVars, create, exec, sess, pump, teardown, ch, seen, panics>>

\* ReadMessage fails: the client is gone, or the deadline has passed.
InputEnds(c) ==
    /\ handler[c].pc = "serving"
    /\ ~handler[c].open \/ handler[c].idle
    /\ handler' = [handler EXCEPT ![c].pc = "stopping", ![c].idle = FALSE]
    /\ UNCHANGED <<registryVars, create, exec, sess, pump, teardown, ch, seen, panics>>

\* The handler waits for the output goroutine before it closes the connection
\* (in its last deferred call, which nobody can tell from this step).
WaitOutput(c) ==
    /\ handler[c].pc = "stopping"
    /\ handler[c].out = "ended"
    /\ handler' = [handler EXCEPT ![c].pc = "unsubscribe", ![c].open = FALSE]
    /\ UNCHANGED <<registryVars, create, exec, sess, pump, teardown, ch, seen, panics>>

\* The deferred calls, Unsubscribe and conn.Close: the session is found only
\* while it is registered ...
UnsubscribeLookup(c) ==
    /\ handler[c].pc = "unsubscribe"
    /\ handler' = IF handler[c].id \in sessions
                  THEN [handler EXCEPT ![c].pc = "removing"]
                  ELSE [handler EXCEPT ![c] = Returned]
    /\ UNCHANGED <<registryVars, create, exec, sess, pump, teardown, ch, seen, panics>>

\* ... and the channel is removed under the other mutex.
Unsubscribe(c) ==
    /\ handler[c].pc = "removing"
    /\ sess' = [sess EXCEPT ![handler[c].id].subs = @ \ {c}]
    /\ handler' = [handler EXCEPT ![c] = Returned]
    /\ UNCHANGED <<registryVars, create, exec, pump, teardown, ch, seen, panics>>

\* The browser goes away, or stops reading while the handler writes; the
\* handler can only notice when it writes or reads.
Disconnect(c) ==
    /\ handler[c].open
    /\ handler[c].pc \in {"copied", "serving", "input", "stopping"}
    /\ handler' = [handler EXCEPT ![c].open = FALSE, ![c].stalled = FALSE, ![c].idle = FALSE]
    /\ UNCHANGED <<registryVars, create, exec, sess, pump, teardown, ch, seen, panics>>

Stall(c) ==
    /\ MayStall
    /\ handler[c].open
    /\ (handler[c].pc = "copied" /\ seen[c].last > 0) \/ handler[c].out = "write"
    /\ ~handler[c].stalled
    /\ handler' = [handler EXCEPT ![c].stalled = TRUE]
    /\ UNCHANGED <<registryVars, create, exec, sess, pump, teardown, ch, seen, panics>>

-----------------------------------------------------------------------------

CreateStep(k) == CheckExisting(k) \/ ExecAttach(k) \/ Register(k)

PumpStep(k) == ReadFails(k) \/ WriteAndBroadcast(k) \/ PumpCloses(k)

TeardownStep(x) ==
    \/ \E s \in Call : Unregister(x, s)
    \/ CloseConn(x)
    \/ CloseSubscribers(x)

\* CreateSession and then the pump, which calls CloseSession itself.
SessionStep(k) == ExecAttach(k) \/ Register(k) \/ PumpStep(k) \/ TeardownStep(k)

\* The handler, and the clock it waits for.
HandlerStep(c) ==
    \/ SubscribeLookup(c)
    \/ SubscribeAdd(c)
    \/ ReplayLookup(c)
    \/ ReplayCopy(c)
    \/ StartServing(c)
    \/ TimePasses(c)
    \/ InputFails(c)
    \/ InputEnds(c)
    \/ WaitOutput(c)
    \/ UnsubscribeLookup(c)
    \/ Unsubscribe(c)

OutputStep(c) == TakeChunk(c) \/ WriteChunk(c) \/ OutputEnds(c)

Next ==
    \/ \E k \in Call : CreateStep(k) \/ ExecExits(k) \/ ReadChunk(k) \/ PumpStep(k)
    \/ \E x \in Closer : CloseAll(x) \/ \E p \in Project : CloseProjectSessions(x, p)
    \/ \E x \in Closer \cup Call : TeardownStep(x)
    \/ \E c \in Conn :
        \/ \E s \in Call : Connect(c, s)
        \/ HandlerStep(c)
        \/ OutputStep(c)
        \/ Message(c)
        \/ InputTaken(c)
        \/ Disconnect(c)
        \/ Stall(c)

Spec == Init /\ [][Next]_vars

\* Goroutines that can run do run, the engine's calls return within their 30
\* seconds, and time passes.  Nothing makes an exec end or read its input, a
\* browser connect, type, read or disconnect, or anybody call CreateSession or
\* CloseAll.
Fairness ==
    /\ \A k \in Call : WF_vars(SessionStep(k))
    /\ \A x \in Closer : WF_vars(TeardownStep(x))
    /\ \A c \in Conn : WF_vars(HandlerStep(c)) /\ WF_vars(OutputStep(c))

FairSpec == Spec /\ Fairness

-----------------------------------------------------------------------------
(* Properties.                                                             *)

TypeOK ==
    /\ sessions \subseteq Call
    /\ byProject \in [Project -> SUBSET Call]
    /\ create \in [Call -> Create]
    /\ exec \in [Call -> Exec]
    /\ sess \in [Call -> Session]
    /\ pump \in [Call -> PumpPc]
    /\ teardown \in [Closer \cup Call -> Teardown]
    /\ handler \in [Conn -> Handler]
    /\ ch \in [Conn -> Channel]
    /\ \A c \in Conn : Len(ch[c].queue) <= SubscriberBufSize
    /\ seen \in [Conn -> Seen]
    /\ panics \in BOOLEAN

\* No channel is closed twice or used after it was closed, though pumpOutput
\* evicts, CloseSession closes and handlers come and go at the same time.
NoPanic == ~panics

\* Both maps name the same sessions, and each of them can be used: what
\* CreateSession returns for a project that has one is not being torn down, and
\* its output is still being pumped ("the existing session is returned",
\* manager.go:151).
RegisteredIsServed ==
    /\ \A p \in Project : byProject[p] = {s \in sessions : create[s].project = p}
    /\ \A s \in sessions :
        ~sess[s].done /\ Connected(exec[s]) /\ (pump[s] = "ended" => teardown[s].pc = "next")

\* A client gets the output without a gap: it is subscribed before the buffer
\* is copied, so its first live chunk is at most the one after the replay, and
\* a client too slow for the exec loses the connection's output, never a chunk
\* in the middle ("clients that reconnect receive a replay and experience no
\* visible interruption", handler.go:33-34).
NoGap ==
    \A c \in Conn : LET live == seen[c].live IN
        /\ \A i \in 1 .. Len(live) - 1 : live[i + 1] = live[i] + 1
        /\ seen[c].found /\ live # <<>> => live[1] <= seen[c].last + 1

\* A session whose exec has exited, or that somebody removed from the registry,
\* is torn down completely: unregistered, done and the exec's connection
\* closed, the pump ended, whoever else is closing it at the same time.
TornDown ==
    \A s \in Call :
        (pump[s] # "none" /\ (exec[s].state = "exited" \/ s \notin sessions)) ~>
            (s \notin sessions /\ sess[s].done /\ exec[s].state = "closed" /\ pump[s] = "ended")

\* A handler ends, its goroutine included, when its client stays silent: also
\* when it subscribed to a session after the teardown, so that nobody will ever
\* close its channel.  It may not end for a client that keeps sending, that has
\* stopped reading while a chunk or the replay is being written, or whose input
\* is being written to an exec that is connected and does not read it: none of
\* those writes has a deadline.
HandlerEnds ==
    \A c \in Conn :
        \/ []<><<Message(c)>>_vars
        \/ (handler[c].pc \notin {"idle", "returned"}) ~>
                \/ handler[c].pc = "returned"
                \/ handler[c].stalled
                \/ handler[c].pc = "input" /\ Connected(exec[handler[c].id])

-----------------------------------------------------------------------------
(* What the comments promise and the code does not keep.                   *)

\* A project has one session ("Phase 3 single-session cap", manager.go:150):
\* two calls can both find none.
OneSession == \A p \in Project : Cardinality(byProject[p]) <= 1

\* When CloseAll has returned there are no sessions ("tears down every session
\* in the manager", manager.go:325): a call of CreateSession may be under way.
ClosedAll ==
    [][\A x \in Closer : teardown[x].pc # "idle" /\ teardown'[x].pc = "idle" => sessions' = {}]_vars

\* A session's goroutines exit when it is torn down ("All goroutines associated
\* with this session select on done and exit when it closes",
\* manager.go:117-118): nothing but the tests receives from done, and the
\* handler of a client that keeps sending goes on for ever.
DoneEndsHandlers ==
    \A c \in Conn : (handler[c].pc = "serving" /\ sess[handler[c].id].done) ~> (handler[c].pc = "returned")
==============================================================================
