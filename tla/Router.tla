-------------------------------- MODULE Router --------------------------------
(***************************************************************************)
(* From a request to its handler or backend: the host dispatcher and the   *)
(* routes of NewRouter (internal/server/router.go) with their middleware   *)
(* (middleware.go, auth.go, ratelimit.go: module RateLimiter), and the two *)
(* ways to the agent-server (agent_proxy.go).                              *)
(*                                                                         *)
(* A path is a sequence of segments, as Go's mux leaves them: it matches   *)
(* the escaped path and decodes the wildcard's value afterwards, so ".."   *)
(* and empty segments do reach a handler.  A host is a sequence too: the   *)
(* parts of the label and then ".base" for a subdomain of the base domain. *)
(* A base domain is configured.  Body limits and headers are left out.     *)
(***************************************************************************)
EXTENDS RateLimiter, Sequences

Seqs == INSTANCE SequencesExt

CONSTANTS
    Request,  \* requests: [host, method, path, rest, json]; see Arrived
    Alias,    \* hosts that serve the dashboard
    Name,     \* names users ask for: a stem and the "-dev" suffixes it ends with
    Slug,     \* a name as one segment of a path
    Ids,      \* project ids in the order in which they are issued; bounds creates
    Legacy,   \* bound: how many of them older versions issued
    Port      \* ports that are allocated to projects

\* A path has a segment, for it starts with a slash.
ASSUME RouterAssumption ==
    /\ Request \subseteq [host : Seq(STRING) \ {<<>>}, method : STRING,
                         path : Seq(STRING) \ {<<>>}, rest : Seq(STRING), json : BOOLEAN]
    /\ Name \subseteq Seq(STRING)
    /\ Slug \in [Name -> STRING]
    /\ \A m, n \in Name : Slug[m] = Slug[n] => m = n
    /\ \A name \in Name : \A i \in DOMAIN name \ {1} : name[i] = "-dev"
    /\ Ids \in Seq(STRING) \ {<<>>}
    /\ Legacy \in 0 .. Len(Ids)
    /\ Port \subseteq Nat \ {0}

NoPort == 0

VARIABLES
    projects, \* the projects table
    issued,   \* how many ids are used
    live,     \* the session of the browser is valid
    request,  \* the request being handled
    seen      \* (history) the rows there were since it arrived

routerVars == <<projects, issued, live, request, seen>>

vars == <<limiterVars, routerVars>>

Row == [id : {Ids[i] : i \in DOMAIN Ids}, name : Name,
        prod : Port \cup {NoPort}, dev : Port \cup {NoPort}]

-----------------------------------------------------------------------------
(* The projects table (module ProjectStore has the steps of Create).       *)

\* The regular expression of all versions: a name is no empty, "." or ".." segment.
NamePattern(name) == name # <<>> /\ Slug[name] \notin {"", ".", ".."}

\* Mutant: names that end like a DEV label are accepted.
ValidateAny(name) == NamePattern(name)

\* Older versions did not reserve the suffix.
ValidateName(name) == NamePattern(name) /\ Seqs!Last(name) # "-dev"

GetByName(name) == {p \in projects : p.name = name}

UsedPorts == UNION {{p.prod, p.dev} : p \in projects}

\* A row of an older version has no DEV port, perhaps no PROD port either, and a
\* name that may end in "-dev".
LegacyRow == {row \in Row : NamePattern(row.name) /\ row.dev = NoPort}

Init ==
    /\ LimiterInit
    /\ \E old \in [1 .. Legacy -> LegacyRow], kept \in SUBSET (1 .. Legacy) :
        /\ \A i \in 1 .. Legacy : old[i].id = Ids[i]
        /\ \A i, j \in kept : i # j =>
            /\ old[i].name # old[j].name
            /\ old[i].prod # old[j].prod \/ old[i].prod = NoPort
        /\ projects = {old[i] : i \in kept}
    /\ issued = Legacy
    /\ live = FALSE
    /\ request = [pc |-> "idle"]
    /\ seen = {}

CreateProject(name) ==
    /\ ValidateName(name)
    /\ GetByName(name) = {}
    /\ issued < Len(Ids)
    /\ \E prod, dev \in Port \ UsedPorts :
        /\ prod < dev
        /\ \A p \in Port \ UsedPorts : p = prod \/ p >= dev
        /\ LET row == [id |-> Ids[issued + 1], name |-> name, prod |-> prod, dev |-> dev] IN
           /\ projects' = projects \cup {row}
           /\ seen' = IF request.pc = "idle" THEN seen ELSE seen \cup {row}
    /\ issued' = issued + 1
    /\ UNCHANGED <<limiterVars, live, request>>

DeleteProject(p) ==
    /\ projects' = projects \ {p}
    /\ UNCHANGED <<limiterVars, issued, live, request, seen>>

\* Logout, expiry, a new password (module AuthSessions).
SessionEnds ==
    /\ live
    /\ live' = FALSE
    /\ UNCHANGED <<limiterVars, projects, issued, request, seen>>

-----------------------------------------------------------------------------
(* Routes.  "*" is one segment, "**" the rest of the path.                 *)

Covers(pattern, path) ==
    /\ IF Seqs!Last(pattern) = "**" THEN Len(path) >= Len(pattern) ELSE Len(path) = Len(pattern)
    /\ \A i \in DOMAIN pattern : pattern[i] \in {"*", "**", path[i]}

TakesMethod(m, method) == m \in {"ANY", method} \/ (m = "GET" /\ method = "HEAD")

Route(method, pattern, chain) == [method |-> method, pattern |-> pattern, chain |-> chain]

\* Mutant: the connection to a terminal is registered without the middleware.
OpenShellRoutes ==
    { Route("POST", <<"api", "shell">>, <<"auth", "shell">>),
      Route("PUT", <<"api", "shell", "*">>, <<"auth", "json", "shell">>),
      Route("GET", <<"api", "shell", "*", "connect">>, <<"shell">>),
      Route("POST", <<"api", "projects", "*", "shell">>, <<"auth", "shell">>) }

\* chain: the middleware in the order in which it runs, and the handler.
ShellRoutes ==
    { Route("POST", <<"api", "shell">>, <<"auth", "shell">>),
      Route("PUT", <<"api", "shell", "*">>, <<"auth", "json", "shell">>),
      Route("GET", <<"api", "shell", "*", "connect">>, <<"auth", "shell">>),
      Route("POST", <<"api", "projects", "*", "shell">>, <<"auth", "shell">>) }

Routes ==
    { Route("POST", <<"api", "login">>, <<"json", "limit", "login">>),
      Route("ANY", <<"api", "**">>, <<"auth", "json", "api">>),
      Route("ANY", <<"**">>, <<"spa">>) }
    \cup ShellRoutes
    \cup {Route(m, <<"api", "pi", "**">>, <<"auth", "mirror">>) :
            m \in {"GET", "POST", "PUT", "PATCH", "DELETE"}}

\* The mux behind "/api/": the agent proxy, and handlers this module does not
\* tell apart (an unknown path is one of them).
ApiRoutes ==
    { Route("ANY", <<"**">>, <<"handler">>) }
    \cup {Route(m, <<"api", "projects", "*", "agent", "**">>, <<"agent">>) :
            m \in {"GET", "POST", "PATCH", "DELETE"}}

\* http.ServeMux: of the patterns that match, the most specific one.
Mux(routes, method, path) ==
    LET matching == {r \in routes : TakesMethod(r.method, method) /\ Covers(r.pattern, path)}
    IN CHOOSE r \in matching :
        \A o \in matching : Covers(o.pattern, r.pattern) /\ TakesMethod(o.method, r.method)

-----------------------------------------------------------------------------
(* Paths for the agent-server.                                             *)

\* What path.Clean does with a segment, after those in done.
CleanSegment(done, s) ==
    CASE s \in {"", "."} -> done
      [] s = ".." -> SubSeq(done, 1, Len(done) - 1)
      [] OTHER -> Append(done, s)

\* path.Clean of an absolute path.
Clean(path) ==
    LET done[n \in 0 .. Len(path)] == IF n = 0 THEN <<>> ELSE CleanSegment(done[n - 1], path[n])
    IN done[Len(path)]

MirrorAccessAllowed(method, path) ==
    /\ Len(path) >= 2
    /\ path[1] = "v1"
    /\ \/ path[2] = "sessions" /\ method = "GET"
       \/ path[2] \in {"auth", "custom"}
       \/ /\ path[2] = "projects"
          /\ Len(path) >= 4
          /\ path[4] = "sessions"
          /\ \E p \in projects : Slug[p.name] = path[3]

\* Mutant: the path is cleaned after it was put together.
CleanAfterJoin(prefix, agentPath) == Clean(prefix \o agentPath)

\* The prefix is made of whole segments: the project's name is one.
CleanAgentServerPath(prefix, agentPath) == prefix \o Clean(agentPath)

-----------------------------------------------------------------------------
(* A request.                                                              *)

\* rest: the value of the wildcard at the path's end, decoded, so it can have more
\* segments than the path (%2F); chain: what is still to run; to: the path the
\* agent-server is asked for; port: the app's; valid: (history) the cookie was good
\* on arrival.
Arrived(q, cookie) ==
    [host |-> q.host, method |-> q.method, path |-> q.path, rest |-> q.rest, json |-> q.json,
     cookie |-> cookie, valid |-> cookie /\ live,
     pc |-> "host", chain |-> <<>>, to |-> <<>>, port |-> NoPort]

\* Mutant: a connection remembers where its last request to the same host went.
ArriveCached(q, cookie) ==
    /\ request.pc \in {"idle", "served"}
    /\ IF request.pc = "served" /\ request.host = q.host /\ request.port # NoPort
       THEN request' = [Arrived(q, cookie) EXCEPT
                            !.pc = "run", !.chain = <<"auth", "app">>, !.port = request.port]
       ELSE request' = Arrived(q, cookie)
    /\ seen' = projects
    /\ UNCHANGED <<limiterVars, projects, issued, live>>

Arrive(q, cookie) ==
    /\ request.pc = "idle"
    /\ request' = Arrived(q, cookie)
    /\ seen' = projects
    /\ UNCHANGED <<limiterVars, projects, issued, live>>

\* The answer is written.
Finish ==
    /\ request' = [pc |-> "idle"]
    /\ seen' = {}
    /\ UNCHANGED <<limiterVars, projects, issued, live>>

Proceed(r) ==
    /\ request' = r
    /\ UNCHANGED <<limiterVars, projects, issued, live, seen>>

\* The label of a subdomain.
Label(host) == SubSeq(host, 1, Len(host) - 1)

WantDev(label) == label # <<>> /\ Seqs!Last(label) = "-dev"

LookupName(label) == IF WantDev(label) THEN SubSeq(label, 1, Len(label) - 1) ELSE label

TargetPort(label, p) == IF WantDev(label) THEN p.dev ELSE p.prod

\* The project whose environment the label addresses, if it has a port.
Found(label) == {p \in GetByName(LookupName(label)) : TargetPort(label, p) # NoPort}

\* The dispatcher: dashboard, unknown host, or a subdomain, whose project is
\* looked up before the middleware runs.
Dispatch ==
    /\ request.pc = "host"
    /\ IF request.host \in Alias
       THEN Proceed([request EXCEPT !.pc = "run",
                        !.chain = Mux(Routes, request.method, request.path).chain])
       ELSE LET label == Label(request.host)
            IN IF Seqs!Last(request.host) # ".base" \/ label = <<>> \/ Found(label) = {}
               THEN Finish
               ELSE \E p \in Found(label) :
                     Proceed([request EXCEPT !.pc = "run", !.chain = <<"auth", "app">>,
                                             !.port = TargetPort(label, p)])

\* The next of the chain is step.
Runs(step) == request.pc = "run" /\ Head(request.chain) = step

Passed == [request EXCEPT !.chain = Tail(@)]

\* Auth.Middleware (module AuthSessions has ValidSession's statements).  A
\* SELECT that fails refuses, too.
Authenticate ==
    /\ Runs("auth")
    /\ (request.cookie /\ live /\ Proceed(Passed)) \/ Finish

RequireJSON ==
    /\ Runs("json")
    /\ IF request.json \/ request.method \in {"GET", "HEAD", "OPTIONS"} THEN Proceed(Passed) ELSE Finish

\* rateLimiter.middleware; ip is the address the request came from.
Limit(ip) ==
    /\ Runs("limit")
    /\ Allow(ip)
    /\ IF Cardinality(Valid(attempts[ip])) < Max
       THEN request' = Passed /\ UNCHANGED seen
       ELSE request' = [pc |-> "idle"] /\ seen' = {}
    /\ UNCHANGED <<projects, issued, live>>

\* The password is right or not.
Login ==
    /\ Runs("login")
    /\ live' \in {live, TRUE}
    /\ request' = [pc |-> "idle"]
    /\ seen' = {}
    /\ UNCHANGED <<limiterVars, projects, issued>>

ServeApi ==
    /\ Runs("api")
    /\ Proceed([request EXCEPT !.chain = Mux(ApiRoutes, request.method, request.path).chain])

\* agentServerMirrorHandler
Mirror ==
    /\ Runs("mirror")
    /\ LET path == Clean(request.rest) IN
       IF MirrorAccessAllowed(request.method, path)
       THEN Proceed([request EXCEPT !.chain = <<"forward">>, !.to = path])
       ELSE Finish

\* agentServerProxyHandler, and the Director of its proxy.
AgentProxy ==
    /\ Runs("agent")
    /\ LET found == {p \in projects : p.id = request.path[3]}
       IN IF found = {} THEN Finish
          ELSE \E p \in found :
                LET prefix == <<"v1", "projects", Slug[p.name]>> IN
                Proceed([request EXCEPT !.chain = <<"forward">>,
                            !.to = CleanAgentServerPath(prefix, request.rest)])

\* The handler has the request, or the backend has it.
Serve ==
    /\ request.pc = "run"
    /\ Head(request.chain) \in {"shell", "handler", "spa", "forward", "app"}
    /\ Proceed([request EXCEPT !.pc = "served"])

Answer == request.pc = "served" /\ Finish

\* The limiter's own steps.
Background == (Cleanup \/ Tick) /\ UNCHANGED routerVars

Next ==
    \/ \E name \in Name : CreateProject(name)
    \/ \E p \in projects : DeleteProject(p)
    \/ SessionEnds
    \/ \E q \in Request, cookie \in BOOLEAN : Arrive(q, cookie)
    \/ Dispatch
    \/ Authenticate
    \/ RequireJSON
    \/ \E ip \in Ip : Limit(ip)
    \/ Login
    \/ ServeApi
    \/ Mirror
    \/ AgentProxy
    \/ Serve
    \/ Answer
    \/ Background

Spec == Init /\ [][Next]_vars

-----------------------------------------------------------------------------
(* Properties.                                                             *)

Served(step) == request.pc = "served" /\ Head(request.chain) = step

RouterTypeOK ==
    /\ projects \subseteq Row
    /\ issued \in 0 .. Len(Ids)
    /\ live \in BOOLEAN
    /\ seen \subseteq Row

\* Whatever the path, the method and the host: what is not the login or the
\* dashboard's files is reached only with a cookie whose session was valid while
\* the request was handled (router.go:33-34).
ProtectedNeedsSession == request.pc = "served" /\ ~Served("spa") => request.valid

\* What the agent-server is asked for through either way stays where the request
\* was let in: under the sessions of a project that was registered while the
\* request was handled, in the read-only part, in the credentials; or under the
\* project whose id the URL has ("`..` segments cannot escape", agent_proxy.go:157).
\* A path that climbs out of its prefix and comes back is no exception, and no
\* segment is left for the agent-server to resolve.
ForwardsInside ==
    Served("forward") =>
        LET to == request.to
            under(p) == Seqs!IsPrefix(<<"v1", "projects", Slug[p.name]>>, to)
        IN /\ \A i \in DOMAIN to : to[i] \notin {"", ".", ".."}
           /\ IF request.path[2] = "pi"
              THEN \/ Seqs!IsPrefix(<<"v1", "sessions">>, to) /\ request.method = "GET"
                   \/ Seqs!IsPrefix(<<"v1", "auth">>, to)
                   \/ Seqs!IsPrefix(<<"v1", "custom">>, to)
                   \/ \E p \in seen : under(p) /\ Len(to) > 3 /\ to[4] = "sessions"
              ELSE \E p \in seen : p.id = request.path[3] /\ under(p)

\* The host name of an environment.
Url(p, env) == p.name \o (IF env = "dev" THEN <<"-dev", ".base">> ELSE <<".base">>)

PortOf(p, env) == IF env = "dev" THEN p.dev ELSE p.prod

\* A request for a subdomain reaches a port that belonged to just the environment
\* its host name addresses at some time while it was handled: nothing older, though
\* project and port are looked up before the middleware and ports are used again.
ReachesOwnApp ==
    Served("app") =>
        \E p \in seen, env \in {"prod", "dev"} :
            request.host = Url(p, env) /\ request.port = PortOf(p, env)

\* The label of an environment leads to it and to no other one ("unambiguously
\* project `<name>`'s dev URL", router.go:152-154), also beside rows of older
\* versions with any name, for every project whose name ValidateName accepts; the
\* label of an environment without a port leads nowhere.
UrlsUnambiguous ==
    \A p \in projects, env \in {"prod", "dev"} : ValidateName(p.name) =>
        LET label == Label(Url(p, env)) IN
        /\ Found(label) = IF PortOf(p, env) = NoPort THEN {} ELSE {p}
        /\ TargetPort(label, p) = PortOf(p, env)

-----------------------------------------------------------------------------
(* What the comments promise and the code does not keep.                   *)

\* Project lifecycle routes "are intentionally NOT exposed: project creation and
\* deletion go through appx's own `/api/projects`" (agent_proxy.go:122-125): a
\* DELETE of /api/projects/{id}/agent/ is one.
LifecycleNotExposed ==
    ~(Served("forward") /\ request.method = "DELETE" /\ Len(request.to) = 3 /\ request.to[2] = "projects")

\* "All requests go through auth middleware (except POST /api/login which is
\* public and rate-limited)" (router.go:33-34): the dashboard's files are public.
AllAuthenticated == request.pc = "served" => request.valid

\* "The `-dev` reserved-suffix guard on project names (ValidateName) means
\* `<name>-dev` is unambiguously project `<name>`'s dev URL" (router.go:153-154):
\* a row of an older version may have the name `<name>-dev`.
DevSuffixReserved == \A p, q \in projects : Url(p, "prod") # Url(q, "dev")
==============================================================================
