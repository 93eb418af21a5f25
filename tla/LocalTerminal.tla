---------------------------- MODULE LocalTerminal ----------------------------
(***************************************************************************)
(* One terminal session of terminal.LocalManager                           *)
(* (internal/terminal/local.go) and the WebSocket connections attached to  *)
(* it (handleShellConnect, internal/server/shell_handlers.go).             *)
(*                                                                         *)
(* The shell prints numbered chunks.  pumpOutput writes each chunk to the  *)
(* ring buffer (without the session's mutex) and then sends it to every    *)
(* subscriber (with it).  A connection replays the ring buffer, subscribes *)
(* and then runs an output goroutine beside its input loop.  A step is one *)
(* critical section, or a call that may block: the copy of the ring buffer *)
(* and every write to a WebSocket begin and end in steps of their own.  A  *)
(* chunk fills one cell: module RingBuffer has the arithmetic of real ones.*)
(***************************************************************************)
EXTENDS Integers, Sequences, FiniteSets

CONSTANTS
    Conn,              \* WebSocket connections, one handler call each
    Size,              \* chunks the ring buffer holds
    SubscriberBufSize, \* chunks a subscriber channel holds
    MaxOutput,         \* bound: chunks the shell prints
    CloseCalled        \* whether someone calls LocalManager.Close

ASSUME TerminalAssumption ==
    /\ Size \in Nat \ {0}
    /\ SubscriberBufSize \in Nat \ {0}
    /\ MaxOutput \in Nat
    /\ CloseCalled \in BOOLEAN

Chunk == 1 .. MaxOutput

NoChunk == 0

VARIABLES
    shell,      \* the process, and who has its tty open
    printed,    \* chunks printed by the shell
    read,       \* chunks read from the PTY by pumpOutput
    ptmxOpen,   \* the PTY master
    ring,       \* the ring buffer
    subs,       \* the subscriber map
    ch,         \* per connection, its subscriber channel
    registered, \* the manager's map has the session
    once,       \* closeOnce: "free", "pump" (in cmd.Wait), "done"
    doneClosed, \* sess.done is closed
    pump,       \* where pumpOutput is
    closer,     \* where LocalManager.Close is
    conn,       \* per connection, where the handler and its goroutine are
    seen,       \* per connection, what the ring buffer was while Bytes copied it
    replay,     \* per connection, the chunks of the replay frame
    live,       \* per connection, the chunks taken after the replay
    panics      \* a channel was closed twice, or used after it was closed

sessionVars == <<shell, printed, read, ptmxOpen, ring, subs, registered, once, doneClosed, pump, closer>>

vars == <<sessionVars, ch, conn, seen, replay, live, panics>>

\* detached: the shell has closed its terminal and goes on.  held: it is gone,
\* and a process it started has the terminal open.  exited: so is that one.
Shell == {"running", "detached", "held", "exited"}

Buffer == INSTANCE RingBuffer
            WITH Byte <- Chunk, NoByte <- NoChunk, Chunks <- {<<k>> : k \in Chunk}, arg <- <<>>

PumpPc == {"read", "write", "broadcast", "unsubscribe", "once", "wait", "forget", "ended"}

BeforeSubscribe == {"idle", "upgraded", "copying", "replay", "replayed", "found"}

HandlerPc == BeforeSubscribe \cup {"subscribed", "serving", "removing", "returned"}

\* out: the output goroutine, "write" while it is inside WriteMessage.  done: the
\* channel lm.Done returned.  open: the WebSocket is open.  stalled: its client
\* has stopped reading.
Handler == [pc : HandlerPc, out : {"none", "select", "write", "ended"},
            done : {"none", "session", "closed"}, open : BOOLEAN, stalled : BOOLEAN]

Channel == [queue : Seq(Chunk), closed : BOOLEAN]

Init ==
    /\ shell = "running"
    /\ printed = 0
    /\ read = 0
    /\ ptmxOpen = TRUE
    /\ ring = Buffer!NewRingBuffer
    /\ subs = {}
    /\ ch = [c \in Conn |-> [queue |-> <<>>, closed |-> FALSE]]
    /\ registered = TRUE
    /\ once = "free"
    /\ doneClosed = FALSE
    /\ pump = "read"
    /\ closer = "idle"
    /\ conn = [c \in Conn |-> [pc |-> "idle", out |-> "none", done |-> "none",
                               open |-> FALSE, stalled |-> FALSE]]
    /\ seen = [c \in Conn |-> {}]
    /\ replay = [c \in Conn |-> <<>>]
    /\ live = [c \in Conn |-> <<>>]
    /\ panics = FALSE

-----------------------------------------------------------------------------
(* The shell (external).                                                   *)

ShellPrints ==
    /\ shell \in {"running", "held"}
    /\ ptmxOpen
    /\ printed < MaxOutput
    /\ printed' = printed + 1
    /\ UNCHANGED <<shell, read, ptmxOpen, ring, subs, registered, once, doneClosed, pump, closer>>
    /\ UNCHANGED <<ch, conn, seen, replay, live, panics>>

\* The shell exits, with or without the processes it has started, or closes its
\* terminal and goes on.
ShellLeaves(s) ==
    /\ \/ shell = "running" /\ s # "running"
       \/ shell \in {"detached", "held"} /\ s = "exited"
    /\ shell' = s
    /\ UNCHANGED <<printed, read, ptmxOpen, ring, subs, registered, once, doneClosed, pump, closer>>
    /\ UNCHANGED <<ch, conn, seen, replay, live, panics>>

-----------------------------------------------------------------------------
(* pumpOutput.                                                             *)

\* Read returns a chunk, or an error: when nobody has the tty open any more, or
\* when the PTY is closed.
ReadPty ==
    /\ pump = "read"
    /\ \/ /\ ptmxOpen
          /\ read < printed
          /\ read' = read + 1
          /\ pump' = "write"
       \/ /\ ~ptmxOpen \/ (shell \in {"detached", "exited"} /\ read = printed)
          /\ pump' = "unsubscribe"
          /\ UNCHANGED read
    /\ UNCHANGED <<shell, printed, ptmxOpen, ring, subs, registered, once, doneClosed, closer>>
    /\ UNCHANGED <<ch, conn, seen, replay, live, panics>>

\* RingBuffer.Write ends, without the mutex; a Bytes that runs sees it.
WriteBuffer ==
    /\ pump = "write"
    /\ ring' = Buffer!Write(ring, <<read>>)
    /\ seen' = [c \in Conn |-> IF conn[c].pc = "copying" THEN seen[c] \cup {ring'} ELSE seen[c]]
    /\ pump' = "broadcast"
    /\ UNCHANGED <<shell, printed, read, ptmxOpen, subs, registered, once, doneClosed, closer>>
    /\ UNCHANGED <<ch, conn, replay, live, panics>>

Full(c) == Len(ch[c].queue) >= SubscriberBufSize

\* Mutant: a chunk for a slow subscriber is dropped.
DropChunk ==
    /\ pump = "broadcast"
    /\ ch' = [c \in Conn |-> IF c \in subs /\ ~Full(c)
                             THEN [ch[c] EXCEPT !.queue = Append(@, read)] ELSE ch[c]]
    /\ panics' = (panics \/ \E c \in subs : ch[c].closed)
    /\ pump' = "read"
    /\ UNCHANGED <<shell, printed, read, ptmxOpen, ring, subs, registered, once, doneClosed, closer>>
    /\ UNCHANGED <<conn, seen, replay, live>>

\* Mutant: an evicted subscriber stays in the map.
EvictInPlace ==
    /\ pump = "broadcast"
    /\ ch' = [c \in Conn |->
                IF c \notin subs THEN ch[c]
                ELSE IF Full(c) THEN [ch[c] EXCEPT !.closed = TRUE]
                ELSE [ch[c] EXCEPT !.queue = Append(@, read)]]
    /\ panics' = (panics \/ \E c \in subs : ch[c].closed)
    /\ pump' = "read"
    /\ UNCHANGED <<shell, printed, read, ptmxOpen, ring, subs, registered, once, doneClosed, closer>>
    /\ UNCHANGED <<conn, seen, replay, live>>

\* Under sess.mu: send to every subscriber, evict the ones that are full.
Broadcast ==
    /\ pump = "broadcast"
    /\ ch' = [c \in Conn |->
                IF c \notin subs THEN ch[c]
                ELSE IF Full(c) THEN [ch[c] EXCEPT !.closed = TRUE]
                ELSE [ch[c] EXCEPT !.queue = Append(@, read)]]
    /\ panics' = (panics \/ \E c \in subs : ch[c].closed)
    /\ subs' = {c \in subs : ~Full(c)}
    /\ pump' = "read"
    /\ UNCHANGED <<shell, printed, read, ptmxOpen, ring, registered, once, doneClosed, closer>>
    /\ UNCHANGED <<conn, seen, replay, live>>

CloseSubscribers ==
    /\ pump = "unsubscribe"
    /\ ch' = [c \in Conn |-> IF c \in subs THEN [ch[c] EXCEPT !.closed = TRUE] ELSE ch[c]]
    /\ panics' = (panics \/ \E c \in subs : ch[c].closed)
    /\ subs' = {}
    /\ pump' = "once"
    /\ UNCHANGED <<shell, printed, read, ptmxOpen, ring, registered, once, doneClosed, closer>>
    /\ UNCHANGED <<conn, seen, replay, live>>

\* closeOnce.Do: the PTY is closed at once, done only after cmd.Wait.
PumpOnce ==
    /\ pump = "once"
    /\ \/ /\ once = "free"
          /\ once' = "pump"
          /\ ptmxOpen' = FALSE
          /\ pump' = "wait"
       \/ /\ once = "done"
          /\ pump' = "forget"
          /\ UNCHANGED <<once, ptmxOpen>>
    /\ UNCHANGED <<shell, printed, read, ring, subs, registered, doneClosed, closer>>
    /\ UNCHANGED <<ch, conn, seen, replay, live, panics>>

WaitShell ==
    /\ pump = "wait"
    /\ shell \in {"held", "exited"}
    /\ doneClosed' = TRUE
    /\ panics' = (panics \/ doneClosed)
    /\ once' = "done"
    /\ pump' = "forget"
    /\ UNCHANGED <<shell, printed, read, ptmxOpen, ring, subs, registered, closer>>
    /\ UNCHANGED <<ch, conn, seen, replay, live>>

Forget ==
    /\ pump = "forget"
    /\ registered' = FALSE
    /\ pump' = "ended"
    /\ UNCHANGED <<shell, printed, read, ptmxOpen, ring, subs, once, doneClosed, closer>>
    /\ UNCHANGED <<ch, conn, seen, replay, live, panics>>

-----------------------------------------------------------------------------
(* LocalManager.Close.                                                     *)

Close ==
    /\ CloseCalled
    /\ closer = "idle"
    /\ closer' = IF registered THEN "once" ELSE "returned"
    /\ registered' = FALSE
    /\ UNCHANGED <<shell, printed, read, ptmxOpen, ring, subs, once, doneClosed, pump>>
    /\ UNCHANGED <<ch, conn, seen, replay, live, panics>>

\* Mutant: the process is not killed.
CloseWithoutKill ==
    /\ closer = "once"
    /\ \/ /\ once = "free"
          /\ once' = "done"
          /\ ptmxOpen' = FALSE
          /\ doneClosed' = TRUE
          /\ panics' = (panics \/ doneClosed)
       \/ /\ once = "done"
          /\ UNCHANGED <<once, ptmxOpen, doneClosed, panics>>
    /\ closer' = "returned"
    /\ UNCHANGED <<shell, printed, read, ring, subs, registered, pump>>
    /\ UNCHANGED <<ch, conn, seen, replay, live>>

\* closeOnce.Do waits while pumpOutput is inside it.
CloseOnce ==
    /\ closer = "once"
    /\ \/ /\ once = "free"
          /\ once' = "done"
          /\ ptmxOpen' = FALSE
          /\ shell' \in IF shell = "exited" THEN {"exited"} ELSE {"held", "exited"}
          /\ doneClosed' = TRUE
          /\ panics' = (panics \/ doneClosed)
       \/ /\ once = "done"
          /\ UNCHANGED <<once, ptmxOpen, shell, doneClosed, panics>>
    /\ closer' = "returned"
    /\ UNCHANGED <<printed, read, ring, subs, registered, pump>>
    /\ UNCHANGED <<ch, conn, seen, replay, live>>

-----------------------------------------------------------------------------
(* handleShellConnect.                                                     *)

\* GetSession finds the session and the upgrade succeeds; it has removed the
\* deadline of every write that follows.
Connect(c) ==
    /\ conn[c].pc = "idle"
    /\ registered
    /\ conn' = [conn EXCEPT ![c].pc = "upgraded", ![c].open = TRUE]
    /\ UNCHANGED <<sessionVars, ch, seen, replay, live, panics>>

\* ReplayBuffer finds the session, and RingBuffer.Bytes begins without the mutex.
StartReplay(c) ==
    /\ conn[c].pc = "upgraded"
    /\ \/ /\ registered
          /\ conn' = [conn EXCEPT ![c].pc = "copying"]
          /\ seen' = [seen EXCEPT ![c] = {ring}]
       \/ /\ ~registered
          /\ conn' = [conn EXCEPT ![c].pc = "replayed"]
          /\ UNCHANGED seen
    /\ UNCHANGED <<sessionVars, ch, replay, live, panics>>

\* What a Bytes that is under way can find in the buffer: what it was since it
\* began, and what a Write that is under way makes of it.
Found(c) == seen[c] \cup (IF pump = "write" THEN {Buffer!Write(ring, <<read>>)} ELSE {})

\* Bytes: the flag is read once, the position twice, and each cell when it is
\* copied; a cell that is not copied is zero.
Copy(full, w, v, buf) ==
    IF full
    THEN [k \in 1 .. Size |-> IF k <= Size - w THEN buf[w + k - 1]
                              ELSE IF k <= Size - w + v THEN buf[k - (Size - w) - 1]
                              ELSE NoChunk]
    ELSE [k \in 1 .. w |-> IF k <= v THEN buf[k - 1] ELSE NoChunk]

\* The positions it can read: Write passes through Size when it fills the last cell.
Positions(c) ==
    {r.w : r \in Found(c)}
    \cup {n \in {Size} : Size > 1 /\ \E r, s \in Found(c) : r.buf[Size - 1] # s.buf[Size - 1]}

ReplayContent(c) ==
    {Copy(f, w, v, b) :
        f \in {r.full : r \in Found(c)}, w \in Positions(c), v \in Positions(c),
        b \in {b \in [Buffer!Cell -> Chunk \cup {NoChunk}] :
                  \A i \in Buffer!Cell : \E r \in Found(c) : b[i] = r.buf[i]}}

\* Bytes returns; an empty replay is not written.
FinishReplay(c) ==
    /\ conn[c].pc = "copying"
    /\ \E content \in ReplayContent(c) :
        /\ replay' = [replay EXCEPT ![c] = content]
        /\ conn' = [conn EXCEPT ![c].pc = IF content = <<>> THEN "replayed" ELSE "replay"]
    /\ seen' = [seen EXCEPT ![c] = {}]
    /\ UNCHANGED <<sessionVars, ch, live, panics>>

\* The replay frame is written, or the connection is broken, which is ignored.
WriteReplay(c) ==
    /\ conn[c].pc = "replay"
    /\ ~conn[c].open \/ ~conn[c].stalled
    /\ conn' = [conn EXCEPT ![c].pc = "replayed"]
    /\ UNCHANGED <<sessionVars, ch, seen, replay, live, panics>>

Returned(c) == [conn[c] EXCEPT !.pc = "returned", !.open = FALSE, !.stalled = FALSE]

\* Subscribe looks the session up under one mutex ...
SubscribeLookup(c) ==
    /\ conn[c].pc = "replayed"
    /\ conn' = [conn EXCEPT ![c] = IF registered THEN [@ EXCEPT !.pc = "found"] ELSE Returned(c)]
    /\ UNCHANGED <<sessionVars, ch, seen, replay, live, panics>>

\* ... and adds the channel under the other.
Subscribe(c) ==
    /\ conn[c].pc = "found"
    /\ subs' = subs \cup {c}
    /\ conn' = [conn EXCEPT ![c].pc = "subscribed"]
    /\ UNCHANGED <<shell, printed, read, ptmxOpen, ring, registered, once, doneClosed, pump, closer>>
    /\ UNCHANGED <<ch, seen, replay, live, panics>>

\* lm.Done(id), then the output goroutine starts.
StartPumps(c) ==
    /\ conn[c].pc = "subscribed"
    /\ conn' = [conn EXCEPT ![c].pc = "serving", ![c].out = "select",
                            ![c].done = IF registered THEN "session" ELSE "closed"]
    /\ UNCHANGED <<sessionVars, ch, seen, replay, live, panics>>

\* The output goroutine takes a chunk ...
TakeChunk(c) ==
    /\ conn[c].out = "select"
    /\ ch[c].queue # <<>>
    /\ ch' = [ch EXCEPT ![c].queue = Tail(@)]
    /\ live' = [live EXCEPT ![c] = Append(@, Head(ch[c].queue))]
    /\ conn' = [conn EXCEPT ![c].out = "write"]
    /\ UNCHANGED <<sessionVars, seen, replay, panics>>

\* ... and writes it.  WriteMessage returns when the client reads, or when the
\* connection is closed or broken, and that ends the goroutine.
WriteChunk(c) ==
    /\ conn[c].out = "write"
    /\ \/ conn[c].open /\ ~conn[c].stalled /\ conn' = [conn EXCEPT ![c].out = "select"]
       \/ ~conn[c].open /\ conn' = [conn EXCEPT ![c].out = "ended"]
    /\ UNCHANGED <<sessionVars, ch, seen, replay, live, panics>>

\* Mutant: the output goroutine only watches its channel.
OnlyChannelClosed(c) == ch[c].closed /\ ch[c].queue = <<>>

\* The channel is closed and drained, or done is closed: the two cases of the
\* select that end the goroutine.
OutputOver(c) ==
    \/ ch[c].closed /\ ch[c].queue = <<>>
    \/ conn[c].done = "closed"
    \/ conn[c].done = "session" /\ doneClosed

EndOutput(c) ==
    /\ conn[c].out = "select"
    /\ OutputOver(c)
    /\ conn' = [conn EXCEPT ![c].out = "ended", ![c].open = FALSE]
    /\ UNCHANGED <<sessionVars, ch, seen, replay, live, panics>>

\* The browser goes away, or stops reading while the handler writes.
Disconnect(c) ==
    /\ conn[c].open
    /\ conn' = [conn EXCEPT ![c].open = FALSE, ![c].stalled = FALSE]
    /\ UNCHANGED <<sessionVars, ch, seen, replay, live, panics>>

Stall(c) ==
    /\ conn[c].open
    /\ ~conn[c].stalled
    /\ conn[c].pc = "replay" \/ conn[c].out = "write"
    /\ conn' = [conn EXCEPT ![c].stalled = TRUE]
    /\ UNCHANGED <<sessionVars, ch, seen, replay, live, panics>>

\* The input loop ends, at a closed WebSocket or because the shell takes no
\* input; the deferred Unsubscribe finds the session only while registered ...
EndInput(c) ==
    /\ conn[c].pc = "serving"
    /\ ~conn[c].open \/ ~registered \/ ~ptmxOpen
    /\ conn' = [conn EXCEPT ![c] = IF registered THEN [@ EXCEPT !.pc = "removing"] ELSE Returned(c)]
    /\ UNCHANGED <<sessionVars, ch, seen, replay, live, panics>>

\* ... and removes the channel; then the deferred conn.Close.
Unsubscribe(c) ==
    /\ conn[c].pc = "removing"
    /\ subs' = subs \ {c}
    /\ conn' = [conn EXCEPT ![c] = Returned(c)]
    /\ UNCHANGED <<shell, printed, read, ptmxOpen, ring, registered, once, doneClosed, pump, closer>>
    /\ UNCHANGED <<ch, seen, replay, live, panics>>

-----------------------------------------------------------------------------

PumpStep ==
    \/ ReadPty
    \/ WriteBuffer
    \/ Broadcast
    \/ CloseSubscribers
    \/ PumpOnce
    \/ WaitShell
    \/ Forget

HandlerStep(c) ==
    \/ StartReplay(c)
    \/ FinishReplay(c)
    \/ WriteReplay(c)
    \/ SubscribeLookup(c)
    \/ Subscribe(c)
    \/ StartPumps(c)
    \/ Unsubscribe(c)

OutputStep(c) == TakeChunk(c) \/ WriteChunk(c) \/ EndOutput(c)

\* The input loop waits for the WebSocket or for the PTY, and both are closed.
EndInputClosed(c) == ~conn[c].open /\ ~ptmxOpen /\ EndInput(c)

Next ==
    \/ ShellPrints
    \/ \E s \in Shell : ShellLeaves(s)
    \/ PumpStep
    \/ Close
    \/ CloseOnce
    \/ \E c \in Conn :
        \/ Connect(c)
        \/ HandlerStep(c)
        \/ OutputStep(c)
        \/ Disconnect(c)
        \/ Stall(c)
        \/ EndInput(c)

Spec == Init /\ [][Next]_vars

\* Goroutines that can run do run, and calls on a closed PTY or WebSocket fail.
\* Nothing makes the shell exit or take its input, a browser read, type or
\* disconnect, or a caller close the session.
Fairness ==
    /\ WF_vars(PumpStep)
    /\ WF_vars(CloseOnce)
    /\ \A c \in Conn :
        /\ WF_vars(HandlerStep(c))
        /\ WF_vars(OutputStep(c))
        /\ WF_vars(EndInputClosed(c))

FairSpec == Spec /\ Fairness

-----------------------------------------------------------------------------
(* Properties.                                                             *)

\* s lists consecutive chunks.
Consecutive(s) == \A k \in 1 .. Len(s) - 1 : s[k + 1] = s[k] + 1

TypeOK ==
    /\ shell \in Shell
    /\ printed \in 0 .. MaxOutput
    /\ read \in 0 .. printed
    /\ ring \in Buffer!Ring
    /\ subs \subseteq Conn
    /\ ch \in [Conn -> Channel]
    /\ conn \in [Conn -> Handler]
    /\ seen \in [Conn -> SUBSET Buffer!Ring]
    /\ {ptmxOpen, registered, doneClosed, panics} \subseteq BOOLEAN
    /\ once \in {"free", "pump", "done"}
    /\ pump \in PumpPc
    /\ closer \in {"idle", "once", "returned"}

\* No channel is closed twice or written after it was closed, though
\* pumpOutput, Close, Subscribe and Unsubscribe share them.
NoPanic == ~panics

\* What a connection receives after its replay has no gaps: a subscriber too
\* slow for the shell loses its connection, never a chunk in the middle.
LiveConsecutive == \A c \in Conn : Consecutive(live[c])

\* Once the shell and everything that had its terminal open have exited, the
\* session is forgotten and every connection, also one that subscribed after
\* the subscribers were closed, is shut down with its two goroutines.  One
\* whose client has stopped reading may stay: the writes have no deadline.
ExitCleansUp ==
    (shell = "exited") ~>
        /\ ~registered
        /\ \A c \in Conn :
            \/ conn[c].pc \in {"idle", "returned"} /\ conn[c].out \in {"none", "ended"}
            \/ conn[c].stalled

\* Close ends a shell that is attached to its terminal, wherever pumpOutput is
\* ("Close terminates the shell process", local.go:248).  One that has closed
\* its terminal may go on: pumpOutput then waits for it inside closeOnce, and
\* Close behind it.
CloseKills == (closer = "once") ~> (shell # "running")

-----------------------------------------------------------------------------
(* What the comments promise and the code does not keep.                   *)

\* When the shell has exited, done is closed ("the channel that is closed when
\* the session ends (shell exits)", local.go:235): a process it started may hold
\* the terminal, and pumpOutput then reads on.
DoneOnExit == (shell \in {"held", "exited"}) ~> doneClosed

\* A replay is a piece of the output in the order it was printed (RingBuffer:
\* "the caller must hold the session mutex", ringbuf.go:21-22).
ReplayConsecutive == \A c \in Conn : Consecutive(replay[c])

\* No chunk falls between the replay and the live output ("Replay buffered
\* output so reconnecting clients see history", shell_handlers.go:161).
ReplayMeetsLive ==
    \A c \in Conn : replay[c] # <<>> /\ live[c] # <<>> =>
        \E k \in 1 .. Len(replay[c]) : replay[c][k] + 1 >= live[c][1]
==============================================================================
