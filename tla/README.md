# A verification project for appx

appx is a self-hosted control plane for an AI coding agent: one Go binary that
serves a dashboard, keeps projects, ports and sessions in SQLite, registers
projects with an *agent-server* in a container, gives the user terminals, and
filters the agent's outbound connections.  This directory holds TLA+ models of
its state-changing parts, TLC runs on small instances, and TLAPS proofs of the
results that matter most.  Paths below are relative to `src/`.

## Inventory

| Component | State | Operations | Hard behaviour | What makes it correct |
|---|---|---|---|---|
| Allowlist store (`internal/egress/store.go`) | map under an RWMutex; a row in `settings` | Set, Add, Get, reload, IsAllowed, log | SQL outside the mutex; failing writes; crashes | memory and database agree; a restart never opens a host |
| Permission requests (`egress/pending.go`, `egress/listener.go`, `server/egress_handlers.go`) | registry map, one channel per request, timers | Add, Resolve, List/cleanup, approve, deny, save list | handler, timer, two dashboard calls and the poll race for one channel | one decision per request, answered as decided, nothing granted that the user did not grant, everybody answered |
| CONNECT proxy (`egress/proxy.go`) | tunnels | ServeHTTP, IsAllowed, LogEntry | names resolved after the check; two copying goroutines, deadlines, peers that stall | tunnels only to allowed, non-internal hosts; ended streams delivered; both ends closed |
| Project store (`project/store.go`, `project/project.go`) | table `projects` | Create, Delete, reads | concurrent transactions; legacy rows | no port shared |
| Project manager (`project/manager.go`, `agentserver/client.go`, `server/project_handlers.go`) | the table and the agent-server's registry | Create, Delete, Reconcile | two systems, no common transaction; lost and late calls; restarts | both sides agree; nobody's directory destroyed by mistake |
| Health checker (`project/health.go`) | none that outlives a call | Check | one goroutine per probe | every project has its result |
| Replay buffer (`terminal/ringbuf.go`) | circular buffer | Write, Bytes | wrap-around | last N bytes in order |
| Terminal sessions (`terminal/local.go`, `server/shell_handlers.go`) | sessions, subscribers, PTY, `closeOnce` | CreateCommand, pumpOutput, Subscribe, Unsubscribe, Close, connect | output pump against connects, evictions, exits and Close | no gaps, no double close, everything ends |
| Exec terminal (`terminal/manager.go`, `terminal/handler.go`) | two maps of sessions, subscribers, hijacked exec connections | CreateSession, Subscribe, pumpOutput, CloseSession, CloseAll, HandleTerminalWS | registry and session have separate mutexes; create, subscribe, evict and close overlap; not wired into this version's router | both maps agree; no gaps, no double close, everything torn down |
| Rate limiter (`server/ratelimit.go`) | attempts per address | allow, cleanup | sliding window | never too many, never refused without reason |
| Password and sessions (`auth/`, `server/auth_handlers.go`, `server/settings_handlers.go`) | `settings.password_hash`, table `sessions` | login, logout, change, ValidSession, clean | no transactions: every statement interleaves; crashes | revoked sessions stay out; a new password ends old sessions |
| Routing, mirrors (`server/router.go`, `server/middleware.go`, `server/agent_proxy.go`) | the request being handled | dispatch on the host, mux, middleware, mirror, agent proxy | most specific pattern wins; dot segments; tables that change between lookup and use | no route around authentication; no path out of its prefix; a subdomain reaches its own environment |
| Start (`cmd/appx/main.go`, `db/`, `tls/`) | data directory, database, files | migrate, first password, token, certificate, reconcile | crash between two files or statements | a restart always recovers |
| Container supervisor (`containerruntime/`) | the outer container | Status, EnsureRunning, Recreate, waitHealthy | engine failing between steps | a healthy container of the right configuration, or an error |
| Dashboard (`web/`) | UI | – | reconnecting terminal, polling | – |

How they interact: the dashboard's HTTP handlers run concurrently and call
stores, registry and managers directly; the agent reaches appx through the
internal listener (permission requests) and the CONNECT proxy (which reads the
allowlist); the project manager calls the agent-server over HTTP; the stores
share one SQLite database.  `PROJECT.json` lists the hazards of all this with
their lines.

## Modules

| Module | Models | Builds on |
|---|---|---|
| `Allowlist` | the allowlist store | – |
| `EgressPending` | permission requests and the dashboard's egress calls | EXTENDS `Allowlist`, whose actions it composes |
| `ProjectStore` | the table `projects` | – |
| `ProjectManager` | project manager, agent-server (external), restarts | EXTENDS `ProjectStore` |
| `ReplayLog` | *abstract*: what a replay buffer promises | – |
| `RingBuffer` | the replay buffer | INSTANCEs `ReplayLog` with `kept <- Bytes(ring)` |
| `LocalTerminal` | one terminal session and its connections | INSTANCEs `RingBuffer` for its operators |
| `ExecTerminal` | the exec terminal's manager and its WebSocket handler | – |
| `Wildcard` | the allowlist's matcher, and a reference matcher | – |
| `EgressProxy` | CONNECT requests and tunnels | EXTENDS `Wildcard` |
| `RateLimiter` | the login limiter | – |
| `Router` | hosts, routes, middleware, mirror and agent proxy | EXTENDS `RateLimiter`, whose `Allow` is a step of its login route |
| `AuthSessions` | password and sessions | – |
| `Boot` | the start of appx in container mode, the container supervisor, token, first password, certificate | – |
| `*Proofs` | theorems about the module of that name and the component it builds on (`RingBuffer` in `ExecTerminalProofs`) | EXTENDS it |
| `MC*` | instances for TLC | EXTEND it |

`Allowlist`, `ProjectStore` and `RateLimiter` have no instance of their own: TLC
checks them inside `EgressPending`, `ProjectManager` and `Router`, whose steps
include all of theirs.

### State and steps

A step is what a goroutine does between two points where another can run: a
critical section, one SQL statement, one channel operation, one HTTP call.
Where code does two things under one lock, the action does both.

* **Allowlist.**  `allowlist` is `Store.allowlist`, `settings` the stored value
  (`{}` when there is no row), `call[t]` the frame of a `SetAllowlist` or
  `AddToAllowlist` call.  `AddToAllowlist` has four steps, as in the code: add
  under the lock, read back under a second one (`GetAllowlist`), upsert
  (`Persist` or `PersistFails`), replace the map (`Publish`).  The strings are
  model values.  With `ReadMayFail` the SELECT at startup may fail, which the code
  treats as a missing row.  Not in the model: `json.Marshal` errors (none for strings).
* **EgressPending.**  A request is a handler goroutine (`agent`), a key of the
  registry (`requests`), a channel of capacity one (`done`) and its clock.  `resolve[t]`
  is the frame of `Resolve`, for dashboard threads and for the handler whose timer
  fired.  A send on, or close of, a closed channel is recorded in `panics`.
  `List` is one step because cleanup holds the lock throughout; the case in which
  it removes nothing changes nothing and is left out.  `Restart` loses
  everything that is in memory.  `decided` and `saved` are history variables.
* **ProjectStore.**  SQLite in WAL mode: a create takes a snapshot at its first
  SELECT (`BeginCreate`), and its INSERT fails if another connection has
  committed since (`stale`), or if a UNIQUE index is hit.  No index spans the
  PROD and the DEV column.  Initial states hold legacy rows: a PROD port from
  the wider old range or none, no DEV port.
* **ProjectManager.**  `create[i]` and `delete[t]` are program counters, `agent`
  the agent-server's registry by *name* with the project that registered last
  as `owner`.  `CallFails` lets a failed call have been carried out, or not, or
  (with `LateDelivery`) be carried out later (`late`).  `Reconcile` runs before
  the server listens (`Serving`).
* **RingBuffer.**  `Write` and `Bytes` are operators on a record of the struct's
  fields, branch for branch.
* **LocalTerminal.**  Chunks are numbered.  `pump` is the program counter of
  `pumpOutput`, `conn[c]` that of a handler and of its output goroutine.
  `once` is `closeOnce`, held by the pump while it is in `cmd.Wait`.
  The copy of the buffer begins (`StartReplay`) and ends (`FinishReplay`) without the
  mutex; `seen` collects what the buffer was meanwhile, and `ReplayContent` is the data race: the flag
  is read once, the position twice and each cell once, from any of them (position `Size`, which `Write`
  passes through, included).  `Subscribe` and `Unsubscribe` are a lookup under one mutex and a step
  under the other.  Writes to the WebSocket have no deadline, so a client that stops reading (`stalled`)
  holds them.  The shell and the browser are external; the shell may close its terminal and go on
  running (`detached`), or exit while a process it started keeps the terminal open (`held`): the PTY
  gives an error only when the last holder is gone.
* **ExecTerminal.**  Call `k` of `CreateSession` makes session `k`; `create[k]` is its
  frame, with the engine's calls between its two critical sections.  `sessions` and
  `byProject` are the registry, `sess[k]` the struct under the session's own mutex;
  `Subscribe`, `ReplayBuffer` and `Unsubscribe` are a lookup under the one and a step under the
  other.  `teardown` is the frame of `CloseSession`, for the pump and for
  `CloseProjectSessions` and `CloseAll`, which close a snapshot of ids.  `handler[c]` is
  `HandleTerminalWS` with its output goroutine (`out`).  A client may leave, fall
  silent until the read deadline, keep sending, or stop reading, and an exec may not read its input: then
  `WriteInput` (`pc = "input"`) waits, for it has no deadline.  The replay buffer is the number
  of chunks ever written to it: `RingIsReplayLog` shows what it then holds.
* **EgressProxy.**  `request[r]` is where `ServeHTTP` is, `conn[r][s]` the proxy's end
  towards side `s`, `copy[r][s]` the goroutine that reads from it.  Reading and
  writing a chunk are two steps, so either connection can be closed between them.
  `Hijack` drops what the HTTP server has already read of the client's stream, as the code
  does with the second result of `hj.Hijack()`.  `Publish` changes the list around the
  check.  `allowInternal`, which only tests set, is FALSE.
* **Wildcard.**  `WildcardHostMatch` and `LabelGlob` work on sequences of characters,
  since their answer is all there is; the loop of `labelGlob` is the recursive function in
  `SkipMiddle`.  `Matches` is the reference and computes nothing: the pattern can be laid along the
  host, each character on itself and each star on a run without a dot.
* **Router.**  A request has a host, a method, a path of segments and a body type; `Dispatch`
  gives it the chain of the most specific matching pattern, and each middleware
  is a step, so sessions, projects and ports can change between them.  `Mux` and
  `Clean` are the library's (external).  A name is a sequence, of its stem and of the `-dev`s it ends in;
  `Slug` is the same name as a segment.  Where the path ends in a wildcard, `rest` is its decoded value, in
  which a `%2F` has become a separator.  One request is handled at a time: requests
  meet only in the tables and in the limiter, whose other callers `SessionEnds`,
  `CreateProject`, `DeleteProject` and the earlier attempts stand for.  `Legacy` rows are of older versions:
  any name that fits the pattern, one ending in `-dev` included, perhaps without a PROD port.
  `seen` is a history variable.
* **RateLimiter.**  `attempts` per address; `allowed` and `refused` are history
  variables.
* **AuthSessions.**  Every statement is a step; a deleted row and an expiry of 0
  are the same thing.  Hashing is left out, since comparing hashes is comparing
  what was hashed.

* **Boot.**  `pc` is where `main` is; a step is one file operation, one command
  of the container engine, or one probe.  A file is truncated and then written,
  so a crash can leave it torn.  `data` and `internals` are the two directories;
  a database is `part` when it needs its write-ahead log, and `cut` when it was opened
  without it.  `container` has the image, ports and token it was created with.
  `waitHealthy` takes any HTTP answer on the port for a healthy agent-server, so a process that
  is not the container's may give it.
  Every `log.Fatal` and every kill is `Crash`, except where the model knows the reason
  (the engine is down, the wait has timed out, drift: `refused`).  SQLite, the engine, the
  agent-server and the operator are external.  That somebody deletes the token
  file, and that a power failure loses a file already written, are left out: both would
  break `TokenAgrees`, and nothing in `driftReasons` would show it.

## Runs

The passing runs (TLC explores all reachable states):

| Run | Shows | Instance |
|---|---|---|
| `egress_pending` | no panic on a channel; only granted entries anywhere; an answer only after a decision, and "allowed" exactly for an approval that the timer did not overtake; no ghost requests | 2 requests, 2 dashboard threads, failing writes, restarts |
| `egress_live` | every request answered, every Resolve returns; an approved entry is in the map before the agent hears of it; a restart never opens a host | 1 request, 1 dashboard thread, 3 entries, failing writes, restarts |
| `project_manager` | ports disjoint; the agent-server is in sync with the rows and keeps nothing of deleted projects | 3 ids, 2 names, 4 published ports and a legacy one, 1 deleter, failing SQL and calls, restarts |
| `project_late_calls` | failed creates leave no row; no directory is removed under a name nobody asked to delete | 2 ids, 2 names, 2 deleters, late calls, creates and deletes that overlap |
| `ring_buffer` | the buffer implements the log | 5 cells, 2 byte values, chunks of 0 to 6 bytes |
| `terminal_session` | no double close; live output without gaps; after the exit everything ends but a stalled client's goroutine; Close kills an attached shell | 1 connection that may stall, a shell that may detach or leave a child on the tty, 4 chunks, 2 cells, a channel of 1, Close at any time |
| `exec_terminal` | no double close; both maps agree and a registered session is served; no gap after the replay; closed sessions are torn down; handlers end unless a write without a deadline holds them | 1 project, 2 overlapping CreateSession calls, 1 closer, 1 WebSocket that may stall, an exec that may not read, 2 chunks, a channel of 1 |
| `egress_proxy` | connections only to what the list means; nothing to or from internal addresses; ended streams delivered; everything closed in the end; the matcher against its reference | 1 request, 2 destinations, lists over an exact and a wildcard entry, 2 chunks each way; patterns of up to 4 characters, hosts of up to 3 and two of 4 |
| `router` | nothing but login and the dashboard's files without a session; no path out of its prefix; a subdomain reaches its own environment; the host names of valid projects are unambiguous, also beside a legacy `x-dev`; the login limit | 4 names (one ends in `-dev`, one is `..`), 3 ids, 1 legacy row, 3 ports, 15 requests, 2 addresses, window 2, Max 1 |
| `boot` | token, image and ports of the container fit; certificate and key belong together; old data is kept; no container removed unasked; appx ends up serving, or refuses drift | 3 faults of any kind, 3 configurations, 2 tokens, 3 key pairs |
| `auth_sessions` | deleted sessions stay deleted | 2 threads, 2 tokens, failing SQL, crashes |

The type invariants (`TypeOK`, `BootTypeOK`, `AuthTypeOK`, `RouterTypeOK`) hold in these
runs when they are added to them.  They are proved, and left out of the configurations, which list what could go wrong.

One run expects a violation: `auth_login_race` checks the sentence "invalidates
all existing sessions" (`server/settings_handlers.go:14`), and TLC shows a login with the old
password that outlives the change.

### Disagreements

More sentences that the code does not keep, without a run of their own.  Each
can be reproduced from a run above by changing what the third column says; the
formula in the first column replaces the properties of that run, and a run that has
`SYMMETRY` loses it when the formula is an action or temporal property.

| Sentence | What happens | Reproduce |
|---|---|---|
| an approval adds the entry to the list (`ApprovedConnectable`, `server/egress_handlers.go:116`) | of two concurrent approvals, one's list replaces the other's; the agent is told allowed and the proxy blocks | `egress_live` with `Thread = {t1, t2}`, `Request = {r1, r2}` |
| memory and database agree (`MemoryMatchesDatabase`, `egress/store.go:110,132`) | two calls commit in one order and publish in the other | the same with `DbMayFail = FALSE`, checking `MemoryMatchesDatabase` |
| a list loaded at startup is the saved one (`RestartNeverWidens`, `egress/store.go:229`) | a SELECT that fails loads the defaults (`store.go:243`), which the user may have removed | `egress_live` with `ReadMayFail = TRUE` |
| `*` matches zero or more characters (`AlwaysExact`, `egress/store.go:192-193`) | prefix and suffix may overlap: `a*a` accepts `a` | `egress_proxy`, checking `AlwaysExact(Patterns, Hosts)` |
| an approved entry is stored (`ApprovedPersisted`, `egress/pending.go:87`) | the error of `AddToAllowlist` is dropped | `egress_live`, checking `ApprovedPersisted` |
| an expired request is answered as timed out (`TimeoutReported`, `egress/listener.go:51`) | the poll's cleanup answers first, with a denial | `egress_live`, checking `TimeoutReported` |
| the agent of an approved request receives "true" (`ApprovalReachesAgent`, `egress/pending.go:44-45`) | approval and timer are both ready and the `select` (`listener.go:84`) takes the timer: the entry is added, the agent is told it timed out | `egress_pending`, checking `ApprovalReachesAgent` |
| internal addresses may not be added to the list (`InternalNeverListed`, `server/egress_handlers.go:84,89`) | only a save is checked; the approval of a request for one adds it (the proxy still refuses to connect) | `egress_pending`, checking `InternalNeverListed` |
| a delete leaves nothing behind (`DeletedIsGone`, `project/manager.go:133,146`) | a delete between the INSERT and the registration of a create | `project_manager` with `Overlap = TRUE` |
| only the project the user means is destroyed (`OnlyAskedDestroyed`, `project/manager.go:82,146`) | the slower of two deletes of one project destroys a new project of that name | `project_late_calls`, checking `OnlyAskedDestroyed` |
| a failed create is rolled back (`FailedCreateLeavesNoRow`, `project/manager.go:79`) | the rollback's error is ignored (`manager.go:93`), and a failed read after the INSERT (`store.go:66`) has no rollback | `project_late_calls` with `DbMayFail = TRUE` |
| the caller of `Write` and `Bytes` holds the session's mutex (`ReplayConsecutive`, `terminal/ringbuf.go:21-22`) | neither `pumpOutput` (`local.go:274`) nor `ReplayBuffer` (`local.go:232`) does: a replay copied during a write can be out of order | `terminal_session`, checking `ReplayConsecutive` |
| the replay is followed by the live output (`ReplayMeetsLive`, `server/shell_handlers.go:161-166`) | a chunk printed between `ReplayBuffer` and `Subscribe` is in neither | `terminal_session`, checking `ReplayMeetsLive` |
| `done` is closed when the shell exits (`DoneOnExit`, `terminal/local.go:235`) | a process the shell started holds the tty: `ptmx.Read` waits for it, and the session stays | `terminal_session`, checking `DoneOnExit` as a PROPERTY |
| one session per project (`OneSession`, `terminal/manager.go:150`) | two calls find none before either registers | `exec_terminal`, checking `OneSession` |
| CloseAll tears down every session (`ClosedAll`, `terminal/manager.go:325`) | a create that is under way registers afterwards | `exec_terminal`, checking `ClosedAll` |
| a session's goroutines exit when `done` closes (`DoneEndsHandlers`, `terminal/manager.go:117-118`) | nothing receives from `done`; the handler of a client that keeps sending goes on | `exec_terminal` with `MayStall = FALSE`, checking `DoneEndsHandlers` |
| project deletion is not exposed through the agent paths (`LifecycleNotExposed`, `server/agent_proxy.go:122-125`) | the mirror keeps it; the older `DELETE /api/projects/{id}/agent/` forwards `DELETE /v1/projects/{name}`, and the row stays | `router`, checking `LifecycleNotExposed` |
| `<name>-dev` is unambiguously the DEV host of `<name>` (`DevSuffixReserved`, `server/router.go:153-154`) | `ValidateName` had no such guard in older versions: a legacy project `x-dev` beside `x` has the same host, and it leads to `x` | `router`, checking `DevSuffixReserved` |
| all requests but the login are authenticated (`AllAuthenticated`, `server/router.go:33-34`) | the dashboard's files are public | `router`, checking `AllAuthenticated` |
| the first password is in `initial_password` (`FirstPasswordKnown`, `README.md:35`, `cmd/appx/main.go:181-185`) | a crash after `SetPassword`: later starts find a password and write no file | `boot`, checking `FirstPasswordKnown` |
| a new password ends every session (`OldSessionsGone`, `server/settings_handlers.go:39`) | a crash, or a failed DELETE, after the UPDATE | `auth_login_race` with one thread and `Crashes = TRUE` |

Two more are visible in the steps.  `StartServing` of `ExecTerminal`: the replay
frame is "always sent (even if empty)" (`terminal/handler.go:131-133`), but line 139 skips an
empty one.  And in `LocalTerminal`, `Close` waits at
`closeOnce` (`terminal/local.go:306`) while the pump holds it in `cmd.Wait`
(`local.go:248,257`), so Close does not return, and does not kill, when a shell has closed its
terminal and runs on.  `CloseKills` therefore speaks of attached shells.

### Bounds

Two threads are enough for every race found here (each is between two
goroutines); two requests let one goroutine's leftovers meet another request.
Liveness needs no second request: the steps that answer one request wait for no
other.  `egress_live` has one dashboard thread because two break
`ApprovedConnectable` (Disagreements).
Three project ids let a name and a port be taken, freed and taken again; four
published ports are two pairs, so the range is exhausted by the third project.
`Timeout = 1` tick separates before, at and after the limit, and the clocks stop
counting once no comparison can change.  A channel of one chunk is full as soon
as two chunks are printed, and two ring cells wrap with three; subscribers share
nothing but the set that `pumpOutput` walks through, so one of them is
checked and `Conn` stays a parameter.  `MaxOutput`, `MaxData`, `MaxTime` and
`MaxAttempts` only cut behaviours short.  Symmetry is used for sets whose members the specification does not tell
apart, and never in a run with a liveness property.  Deadlock is checked except
in the terminals' and the proxy's runs, where a session or tunnel really ends, and in `boot`.

`MaxFaults = 3` allows, for example, a recreation that fails half way, a crash at the
next start and a change of the configuration; the clean-up after a fault takes one start.
The three configurations differ in the image and in the end of the range.  A server that is
up may rest, so deadlock is not checked there either: a start that got
stuck would violate `Recovers`.

In `exec_terminal` two calls for one project are the race of `CreateSession`; only session 1
prints and exits (`Active`), since sessions share nothing but the registry, and the second one
is still created, subscribed to and closed.  Three goroutines can close it: the pump, and the closer with either call.
`egress_proxy` has one request because tunnels share nothing but the list and the log;
two chunks let one be delivered while the next is in hand.  The patterns have room
for two stars in a label, for a star on each side of a dot, and for a suffix that
overlaps its prefix.
`router` has three ports for two projects, so a port passes from one project to another; its
limiter is as small as it can be, because `LimitHolds` covers all constants.  One legacy row is enough to stand beside its stem; `HostNamesUnambiguous` covers any number.  The
requests are one for each way a host can be dispatched and, for each route with rules of its own, the paths
that climb out of it.

`ReadMayFail`, `MayStall`, `DbMayFail`, `Overlap`, `LateDelivery`, `Crashes` and `CloseCalled` choose the
environment.  Where a passing run has one of them FALSE, or one thread or
deleter, a violation run or a line of the table above says what happens
otherwise, so the assumption is part of the result.

### Fairness

`EgressPending.FairSpec`: goroutines that can run do run, SQL statements return,
time passes.  The Go scheduler and `time.Timer` guarantee it.  Nothing is
assumed of the user, the agent, the poll or restarts.  `LocalTerminal.FairSpec`:
weak fairness of the pump, of `closeOnce`, of each handler's steps before its input loop, of its output
goroutine, and of the input loop once both the WebSocket and the PTY are closed.  The shell need not
exit or take its input, the browser need not type or read: the WebSocket's writes have no deadline
(`shell_handlers.go:152`), so a write to a client that has stalled is not enabled, and `ExitCleansUp` excepts
that client.  `Boot.FairSpec`: systemd
restarts appx (`Restart=on-failure` in `deploy/appx.service`), appx runs, somebody starts
an engine that is down, and an agent-server that is left alone comes up; that it
is too slow for the timeout is one of the bounded faults.
`EgressProxy.FairSpec`: goroutines run, dials return (`dialTimeout`), deadlines pass
(`SetDeadline` on both connections); no peer need send, read or leave.  `ExecTerminal.FairSpec`:
goroutines run, the engine's calls return within their 30 seconds, and an idle client's read
deadline passes; no exec need end or read its input and no browser need do anything.  `HandlerEnds` excepts
clients that keep sending, clients that stop reading in the middle of a write, and an input write to a connected exec
that does not read (`InputTaken` is not fair): the code sets no deadline for either write.  `Router` has no liveness property.
Weak fairness suffices throughout.

## Proofs

For every value of the constants, from the modules' named ASSUMEs.  Each proof
module states its inductive invariant first; TLC has checked it on the instance of the run before
it was proved.

* `EgressPendingProofs`.  The store: type correctness; `SequentialRestartNeverWidens` under
  `Sequential` and `~ReadMayFail` (one caller, and a list that can be read at startup; without either it does
  not hold), from `WidenInv`: the frame of the caller says how far the stored list may exceed the one in
  memory.  The requests: `IInv` is inductive; from it `TypeCorrect`,
  `NeverPanics`, `AnswersAreDecisions`, `NoGhostRequests`, `OnlyGrantedAlways`.  `NoPanic` alone is
  not inductive: `OwnerInv` says that a goroutine inside Resolve is the only one with
  its request, whose channel is open and empty until its send, and
  `RegistryInv` that a registered request's channel is unused.  `DecisionInv` ties the
  channel's content to the decision.  `UsesStore` shows that the composition
  refines `StoreSpec`.  `ApprovalInForce` needs one caller: `ConnectInv` follows the approved entry
  from the first critical section of `AddToAllowlist` to the send, in the map and in
  the list that will replace the map.
* `ProjectManagerProofs`.  The table: `PortsNeverShared`.  The strengthening `SnapshotInv`
  says that a snapshot that is not stale is still what the database holds, so
  that the chosen pair is free at the INSERT.  The manager refines the store's specification
  (`ManagerUsesStore`), so its ports are disjoint too.  `FailedCreateIsUndone` needs that SQL
  works, and nothing else.  `OnlyAskedNamesDestroyed` needs nothing: `AskedInv` says that every delete
  call, on its way or late, is about a name the user asked to delete.  `TableAndAgentInSync` and `DeletedLeavesNothing`
  need `Orderly`: no call is carried out after its caller gave up, nothing is deleted while it is
  created, and one delete at a time.  The agent-server knows projects by name only, so
  `ManagerIInv` says who may be calling it (`CallerInv`: only while the project has its row), whose
  ports each entry has (`TargetInv`) and who owns the entry of a name (`OwnerInv`).
  Without `Orderly`, `EntriesAreOfOneProject` is what remains: late calls and overlaps can bring back
  an old entry or remove a new one, but an entry always has the name and both ports of one committed
  project (`CommittedInv`: every call on its way is about one, and committed columns never change).
* `ExecTerminalProofs`.  The buffer: `RingIsReplayLog`, a refinement; a lemma computes `Bytes`
  after `Write` cell by cell in the three cases (fills, wraps, fits).  The terminal:
  `ExecTypeCorrect`, `ExecChannelsUsedSafely`, `RegistryServes`, `ReconnectWithoutGap`, all without
  conditions.  `RegistryInv` says that an unregistered session is known to its creator only and that
  whoever is past the registry in `CloseSession` is alone with the session it took out; this is
  why `done` is closed once.  `SubscriberInv` says that a channel is in the map of one session and
  open while it is there.  `StreamInv` joins what a client has, what waits in its channel and the
  length of the buffer: subscribing before copying the buffer is what leaves no gap.
* `LocalTerminalProofs`: `ChannelsUsedSafely` from `OnceInv` (`done` is closed by whoever is in
  `closeOnce`) and `ChannelInv`; `LiveOutputConsecutive` from `StreamInv`, for any number of
  connections.  The ring buffer, where the data race is, plays no part in either.  `SessionIInv`
  (types; `closeOnce` done means `done` closed; an output goroutine watches some `done`) gives
  `TerminalTypeCorrect`, `NoOutputStranded`, the safety core of `ExitCleansUp`, and `ReplayHarmless`: a
  copy that mixes fields and cells of every buffer there was meanwhile is no longer than the buffer.
  `QuietReplayInOrder` is the other half of the disagreement about the mutex: `Holds` says which cell
  has which chunk, however often the buffer wrapped, so a copy that no write overlaps is in order.
* `EgressProxyProofs`.  The matcher: `MatcherCorrect`, for all patterns and hosts over any set of
  characters, by four inductions.  TLAPS has no induction over data, since the library's
  induction theorems have an operator parameter; `InductionUpTo` states it for a set of numbers and is proved from
  the least counterexample, and `RecursionUpTo` gives the functions that `Split` and `SkipMiddle`
  choose.  `MatchesByLabel`: the reference may be asked label by label (over the characters of the
  pattern, in the cases dot, star and other).  `GlobComplete`: where a pattern can be laid along a
  label, the search of `labelGlob` finds every part, because it never is further on than
  the alignment (`SearchFinds`).  `GlobExact`: what is accepted with one star and no overlap can be
  laid.  The run evaluates an instance (`MatcherAgrees`).
  The tunnels: `ProxyTypeCorrect` and `EndedStreamsDelivered` without conditions;
  `TunnelsAsMeant` under `MatcherExact`: no entry of the list accepts a host that it does not
  mean.  Some do (`a*a` accepts `a`, Disagreements), so the condition is on
  the entries, and `EdgeStarsTunnelAsMeant` gives one that can be read off them: every star stands at an end of
  its label, as in the default list.  In `ProxyIInv`, `StoppedRightly` says why a copying goroutine has
  stopped: its stream has ended, or the other goroutine's had and it closed the connection.
* `AuthSessionsProofs`: `AuthTypeCorrect` and `RevokedNeverReturns` with any interleaving, failing SQL and crashes; the
  strengthening is that every token with a row, or that had one, was issued, so no login
  brings it back.  That a new password ends every session is not a theorem: requests are handled
  concurrently, and then it does not hold (`auth_login_race`).
* `RouterProofs`.  The limiter: `LimitHolds` and `RefusalsJustified`.  The strengthening
  `Remembers`: the slice holds every allowed request that still counts, and
  nothing that was not allowed.  The router refines the limiter's specification
  (`RouterUsesLimiter`), so both hold behind the login (`LoginIsLimited`).  The requests:
  `SessionRequired`, `ForwardedInside`, `OwnAppReached`, `HostNamesUnambiguous`, for any method, host,
  path, name and set of ports.  `HandlingInv` says what each middleware chain that is left to run
  implies of the request: that the session was good, that the path stays inside, that the port is one
  the host stood for.  The lemmas below it: the mux finds exactly one most specific pattern
  for every method and path (`PatternsCover`, `NarrowIsUnique`), and a cleaned path has no dot
  segment (`CleanIsPlain`).  The latter is an induction over the path, made from the least
  counterexample (`LeastNumber`), which needs no theorem with an operator parameter.  Assumed of
  the constants (`RouterAssumption`): requests have a host and a path, segments and parts of names are strings, and
  a name is its stem followed by `-dev`s, which is how names are written down here.  `HostNamesUnambiguous`
  speaks of projects whose names `ValidateName` accepts, and assumes nothing of the legacy rows beside them.
* `BootProofs`: `BootTypeCorrect`, `TokenAgreesAlways`, `ContainerFitsAlways`,
  `StoredPairServed`, `MigrationSafe`, `RemovesOnlyWhenAsked`, for any number of faults.
  `TokenAgrees` alone is not inductive: `TokenKept` says that a container's token is in
  the file also while appx is down, because it is stored before it is used.  `FitsFrom`
  needs that the API port is never an end of the app range (`PortsAssumption`); then
  comparing the ends compares the range.  `MoveInv` says that without failed
  renames no file is in both directories, and that a database whose log is not beside it
  is not open yet.

Every safety property of the passing runs is a theorem.  Only model-checked: the
liveness properties, since TLAPS does not reach fairness (`RequestAnswered`,
`ResolveReturns`, `ExitCleansUp`, `CloseKills`, `TornDown`, `HandlerEnds`, `EverythingCloses`,
`Recovers`).

## Plan

Done, in this order: `Allowlist`, `EgressPending`, `ProjectStore`,
`ProjectManager`, `RingBuffer`, `LocalTerminal`, `RateLimiter`, `AuthSessions`, `Boot`,
`ExecTerminal`, `Wildcard`, `EgressProxy`, `Router`, and the proofs above.

Nothing of the plan is left.

## Not modelled

* The health checker: nothing of it outlives a call; each probe writes its own key of a map under a mutex.
* Listening, TLS handshakes and graceful shutdown of the server (`server/server.go`): I/O without a
  decision that a property could be about.  The hourly clean-up's part for sessions is in `AuthSessions`; its
  `PruneLog` deletes log entries by age.
* The choice of a client's address from headers (`getClientIP`), security headers, body limits,
  and which static file is served: string handling without state.
* The container shell and the command lines handed to the engine, log formatting.
* golang-migrate's own steps, and a failed rename of the data directory's migration, which the code only
  logs.
* The dashboard (`web/`).
