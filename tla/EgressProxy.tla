----------------------------- MODULE EgressProxy -----------------------------
(***************************************************************************)
(* The egress CONNECT proxy (internal/egress/proxy.go): a request is       *)
(* checked against the allowlist, logged, dialled, checked again for the   *)
(* address it resolved to, and then becomes a tunnel: two goroutines that  *)
(* copy between the client's connection and the destination's, each of     *)
(* which closes the connection it writes to when it ends.                  *)
(*                                                                         *)
(* A side is one end of the tunnel.  The peers (external) send numbered    *)
(* chunks, end their stream, go away, or stop reading; a client may send   *)
(* before it has the answer to its CONNECT.                                *)
(***************************************************************************)
EXTENDS Wildcard, FiniteSets

CONSTANTS
    Req,        \* CONNECT requests
    Dest,       \* [host, port] they ask for
    Entry,      \* [host, port] of allowlist entries; the host may have stars
    MaxData     \* bound: chunks a peer sends

ASSUME ProxyAssumption ==
    /\ MaxData \in Nat
    /\ \A d \in Dest \cup Entry : d.host \in Seq(STRING)

Side == {"client", "dest"}

Other(side) == IF side = "client" THEN "dest" ELSE "client"

VARIABLES
    allowlist, \* Store.allowlist
    log,       \* egress_log: per request "none", "allowed", "blocked", "lost"
    request,   \* per request, ServeHTTP: where it is and what it asks for
    conn,      \* per request and side, the proxy's end of the connection
    copy,      \* per request and side, the goroutine that reads from the side
    peer,      \* per request and side, what the peer does and has received
    late,      \* requests whose tunnelTimeout is over
    meant,     \* (history) the allowlist was meant for the destination, at the check
    failed     \* (history) requests with a write that failed

proxyVars == <<allowlist, log, request, conn, copy, late, meant>>

vars == <<proxyVars, peer, failed>>

RequestPc == {"new", "log", "dial", "verify", "hijack", "tunnel", "refused"}

\* internal: the address it resolved to is loopback, private or link-local.
\* early: what the client had sent when the connection was hijacked.
Request == [pc : RequestPc, dest : Dest, allowed : BOOLEAN, internal : BOOLEAN, early : 0 .. MaxData]

Conn == [open : BOOLEAN, deadline : BOOLEAN]

\* read: chunks taken from the side.
Copy == [pc : {"none", "read", "write", "close", "ended"}, read : 0 .. MaxData]

\* "ended": it has ended its stream and still reads; "gone": it does neither.
Peer == [state : {"open", "ended", "gone"}, stalled : BOOLEAN, sent : 0 .. MaxData,
         got : Seq(1 .. MaxData)]

\* The matching entries, as somebody reading the list would say.
Meant(d) == \E e \in allowlist : e.port = d.port /\ Matches(e.host, d.host)

Init ==
    /\ allowlist \in SUBSET Entry
    /\ log = [r \in Req |-> "none"]
    /\ request \in [Req -> {q \in Request : q.pc = "new" /\ ~q.allowed /\ ~q.internal /\ q.early = 0}]
    /\ conn = [r \in Req |-> [s \in Side |-> [open |-> FALSE, deadline |-> FALSE]]]
    /\ copy = [r \in Req |-> [s \in Side |-> [pc |-> "none", read |-> 0]]]
    /\ peer = [r \in Req |-> [s \in Side |-> [state |-> "open", stalled |-> FALSE,
                                              sent |-> 0, got |-> <<>>]]]
    /\ meant = [r \in Req |-> FALSE]
    /\ late = {}
    /\ failed = {}

-----------------------------------------------------------------------------
(* The store.                                                              *)

\* The list is replaced (module Allowlist has the steps); only requests that
\* are still to be checked can notice.
Publish(entries) ==
    /\ \E r \in Req : request[r].pc = "new"
    /\ allowlist' = entries
    /\ UNCHANGED <<log, request, conn, copy, peer, late, meant, failed>>

\* Mutant: the port of a wildcard entry is not compared.
IsAllowedAnyPort(d) ==
    \/ d \in allowlist
    \/ \E e \in allowlist : Contains(e.host, "*") /\ WildcardHostMatch(e.host, d.host)

IsAllowed(d) ==
    \/ d \in allowlist
    \/ \E e \in allowlist :
        Contains(e.host, "*") /\ e.port = d.port /\ WildcardHostMatch(e.host, d.host)

-----------------------------------------------------------------------------
(* ServeHTTP.                                                              *)

Goto(r, pc) == request' = [request EXCEPT ![r].pc = pc]

\* Not a CONNECT, no host and port, or a port that is not a number.
Reject(r) ==
    /\ request[r].pc = "new"
    /\ Goto(r, "refused")
    /\ UNCHANGED <<allowlist, log, conn, copy, peer, late, meant, failed>>

\* One critical section of the store.
Check(r) ==
    /\ request[r].pc = "new"
    /\ request' = [request EXCEPT ![r].pc = "log", ![r].allowed = IsAllowed(request[r].dest)]
    /\ meant' = [meant EXCEPT ![r] = Meant(request[r].dest)]
    /\ UNCHANGED <<allowlist, log, conn, copy, late, peer, failed>>

\* An INSERT that fails is only reported.
LogEntry(r) ==
    /\ request[r].pc = "log"
    /\ \E entry \in {IF request[r].allowed THEN "allowed" ELSE "blocked", "lost"} :
        log' = [log EXCEPT ![r] = entry]
    /\ Goto(r, IF request[r].allowed THEN "dial" ELSE "refused")
    /\ UNCHANGED <<allowlist, conn, copy, peer, late, meant, failed>>

\* The name is resolved here, after the check; the address may be internal.
Dial(r) ==
    /\ request[r].pc = "dial"
    /\ \/ /\ \E internal \in BOOLEAN :
                request' = [request EXCEPT ![r].pc = "verify", ![r].internal = internal]
          /\ conn' = [conn EXCEPT ![r]["dest"].open = TRUE]
       \/ /\ Goto(r, "refused")
          /\ UNCHANGED conn
    /\ UNCHANGED <<allowlist, log, copy, peer, late, meant, failed>>

VerifyAddress(r) ==
    /\ request[r].pc = "verify"
    /\ Goto(r, IF request[r].internal THEN "refused" ELSE "hijack")
    /\ conn' = [conn EXCEPT ![r]["dest"].open = ~request[r].internal]
    /\ UNCHANGED <<allowlist, log, copy, peer, late, meant, failed>>

\* Mutant: only the client's connection has a deadline.
HijackOneDeadline(r) ==
    /\ request[r].pc = "hijack"
    /\ \E lost \in 0 .. peer[r]["client"].sent :
          copy' = [copy EXCEPT ![r] = [s \in Side |-> [pc |-> "read", read |-> IF s = "client" THEN lost ELSE 0]]]
    /\ request' = [request EXCEPT ![r].pc = "tunnel", ![r].early = peer[r]["client"].sent]
    /\ conn' = [conn EXCEPT ![r] =
                    [s \in Side |-> [open |-> TRUE, deadline |-> s = "client"]]]
    /\ UNCHANGED <<allowlist, log, peer, late, meant, failed>>

\* Hijack, the 200, the deadlines, the two goroutines.  What the HTTP server
\* has already read of the client's stream is dropped with its buffer.
Hijack(r) ==
    /\ request[r].pc = "hijack"
    /\ \/ /\ \E lost \in 0 .. peer[r]["client"].sent :
                copy' = [copy EXCEPT ![r] =
                            [s \in Side |-> [pc |-> "read", read |-> IF s = "client" THEN lost ELSE 0]]]
          /\ request' = [request EXCEPT ![r].pc = "tunnel", ![r].early = peer[r]["client"].sent]
          /\ conn' = [conn EXCEPT ![r] =
                        [s \in Side |-> [open |-> TRUE, deadline |-> TRUE]]]
       \/ /\ Goto(r, "refused")
          /\ conn' = [conn EXCEPT ![r]["dest"].open = FALSE]
          /\ UNCHANGED copy
    /\ UNCHANGED <<allowlist, log, peer, late, meant, failed>>

-----------------------------------------------------------------------------
(* The goroutine that runs io.Copy(other, s); other.Close().               *)

Usable(r, s) == conn[r][s].open /\ ~(conn[r][s].deadline /\ r \in late)

\* Mutant: the error is looked at before the data that came with it.
CopyReadDropsLast(r, s) ==
    /\ copy[r][s].pc = "read"
    /\ \/ /\ Usable(r, s)
          /\ copy[r][s].read < peer[r][s].sent
          /\ copy' = [copy EXCEPT ![r][s] = [pc |-> "write", read |-> @.read + 1]]
       \/ /\ \/ ~Usable(r, s)
             \/ peer[r][s].state # "open" /\ copy[r][s].read + 1 >= peer[r][s].sent
          /\ copy' = [copy EXCEPT ![r][s].pc = "close"]
    /\ UNCHANGED <<allowlist, log, request, conn, peer, late, meant, failed>>

\* The next chunk; or the end: of the stream, of the connection (closed by the
\* other goroutine or by the peer) or of its time.
CopyRead(r, s) ==
    /\ copy[r][s].pc = "read"
    /\ \/ /\ Usable(r, s)
          /\ copy[r][s].read < peer[r][s].sent
          /\ copy' = [copy EXCEPT ![r][s] = [pc |-> "write", read |-> @.read + 1]]
       \/ /\ \/ ~Usable(r, s)
             \/ peer[r][s].state # "open" /\ copy[r][s].read = peer[r][s].sent
          /\ copy' = [copy EXCEPT ![r][s].pc = "close"]
    /\ UNCHANGED <<allowlist, log, request, conn, peer, late, meant, failed>>

CopyWrite(r, s) ==
    /\ copy[r][s].pc = "write"
    /\ LET to == Other(s) IN
       \/ /\ Usable(r, to)
          /\ peer[r][to].state # "gone" /\ ~peer[r][to].stalled
          /\ peer' = [peer EXCEPT ![r][to].got = Append(@, copy[r][s].read)]
          /\ copy' = [copy EXCEPT ![r][s].pc = "read"]
          /\ UNCHANGED failed
       \/ /\ ~Usable(r, to) \/ peer[r][to].state = "gone"
          /\ copy' = [copy EXCEPT ![r][s].pc = "close"]
          /\ failed' = failed \cup {r}
          /\ UNCHANGED peer
    /\ UNCHANGED <<allowlist, log, request, conn, late, meant>>

CopyClose(r, s) ==
    /\ copy[r][s].pc = "close"
    /\ conn' = [conn EXCEPT ![r][Other(s)].open = FALSE]
    /\ copy' = [copy EXCEPT ![r][s].pc = "ended"]
    /\ UNCHANGED <<allowlist, log, request, peer, late, meant, failed>>

\* tunnelTimeout is over: reads and writes on a connection with the deadline
\* fail, also the ones that are waiting.
DeadlinePasses(r) ==
    /\ r \notin late
    /\ \E s \in Side : conn[r][s].open /\ conn[r][s].deadline
    /\ late' = late \cup {r}
    /\ UNCHANGED <<allowlist, log, request, conn, copy, peer, meant, failed>>

-----------------------------------------------------------------------------
(* The peers (external).                                                   *)

\* Nothing a peer does can be noticed before the connection is hijacked.
Connected(r, s) == request[r].pc \in {"hijack", "tunnel"} /\ (s = "dest" => conn[r][s].open)

PeerActs(r, s, p) ==
    /\ Connected(r, s)
    /\ peer[r][s].state # "gone"
    /\ peer' = [peer EXCEPT ![r][s] = p]
    /\ UNCHANGED <<proxyVars, failed>>

Sends(r, s) ==
    /\ peer[r][s].state = "open"
    /\ peer[r][s].sent < MaxData
    /\ PeerActs(r, s, [peer[r][s] EXCEPT !.sent = @ + 1])

EndsStream(r, s) ==
    /\ peer[r][s].state = "open"
    /\ PeerActs(r, s, [peer[r][s] EXCEPT !.state = "ended"])

Leaves(r, s) == PeerActs(r, s, [peer[r][s] EXCEPT !.state = "gone", !.stalled = FALSE])

StopsReading(r, s) ==
    /\ ~peer[r][s].stalled
    /\ PeerActs(r, s, [peer[r][s] EXCEPT !.stalled = TRUE])

-----------------------------------------------------------------------------

ServeStep(r) == Reject(r) \/ Check(r) \/ LogEntry(r) \/ Dial(r) \/ VerifyAddress(r) \/ Hijack(r)

CopyStep(r, s) == CopyRead(r, s) \/ CopyWrite(r, s) \/ CopyClose(r, s)

Next ==
    \/ \E entries \in SUBSET Entry : Publish(entries)
    \/ \E r \in Req :
        \/ ServeStep(r)
        \/ DeadlinePasses(r)
        \/ \E s \in Side :
            \/ CopyStep(r, s)
            \/ Sends(r, s)
            \/ EndsStream(r, s)
            \/ Leaves(r, s)
            \/ StopsReading(r, s)

Spec == Init /\ [][Next]_vars

\* Goroutines that can run do run, the dial returns within dialTimeout, and
\* deadlines pass.  Nothing makes a peer send, read or leave.
Fairness ==
    \A r \in Req :
        /\ WF_vars(ServeStep(r))
        /\ WF_vars(DeadlinePasses(r))
        /\ \A s \in Side : WF_vars(CopyStep(r, s))

FairSpec == Spec /\ Fairness

-----------------------------------------------------------------------------
(* Properties.                                                             *)

TypeOK ==
    /\ allowlist \in SUBSET Entry
    /\ log \in [Req -> {"none", "allowed", "blocked", "lost"}]
    /\ request \in [Req -> Request]
    /\ conn \in [Req -> [Side -> Conn]]
    /\ copy \in [Req -> [Side -> Copy]]
    /\ peer \in [Req -> [Side -> Peer]]
    /\ meant \in [Req -> BOOLEAN]
    /\ late \subseteq Req
    /\ failed \subseteq Req

\* A connection is opened only to a destination that the list was meant for
\* when the request was checked, whatever list is published around the check,
\* and the log does not say otherwise.  And though the list knows names only, and
\* a name is resolved after the check, nothing passes to or from an internal
\* address ("verifies the resolved IP is not internal", proxy.go:25-26).
TunnelsOnlyMeant ==
    \A r \in Req :
        /\ conn[r]["dest"].open => meant[r] /\ log[r] \in {"allowed", "lost"}
        /\ request[r].internal => \A s \in Side : peer[r][s].got = <<>>

Over(r) == \A s \in Side : copy[r][s].pc = "ended"

OneTo(n) == [i \in 1 .. n |-> i]

\* When a tunnel is over, the side that ended its stream while the other one
\* neither ended its own nor left has been heard completely, unless a write
\* failed or time was up.  A client must have waited for the answer: what it
\* sends before is lost with the HTTP server's buffer.
EndedStreamDelivered ==
    \A r \in Req, s \in Side :
        /\ Over(r) /\ r \notin late /\ r \notin failed
        /\ peer[r][s].state = "ended" /\ peer[r][Other(s)].state = "open"
        /\ s = "client" => request[r].early = 0
        => peer[r][Other(s)].got = OneTo(peer[r][s].sent)

\* Every request ends with both connections closed and both goroutines gone:
\* whichever side goes first, when a peer says nothing or stops reading, and on
\* every error path after the dial.
EverythingCloses ==
    \A r \in Req :
        (request[r].pc # "new") ~>
            /\ request[r].pc = "refused" \/ Over(r)
            /\ \A s \in Side : ~conn[r][s].open

\* What the two checks of the matcher range over (module Wildcard).
Patterns == SeqOf({"a", "b", ".", "*"}, 4)

Hosts == SeqOf({"a", "b", "."}, 3) \cup {<<"a", "b", "a", "b">>, <<"a", ".", "b", "a">>}

\* The matcher accepts every destination that an entry's stars may stand for;
\* with one star in a label, and where prefix and suffix cannot overlap, no other.
\* That depends on no state, so it is evaluated before anything has happened.
WildcardAgrees ==
    allowlist = {} /\ (\A r \in Req : request[r].pc = "new") =>
        MatchesAccepted(Patterns, Hosts) /\ PlainExact(Patterns, Hosts)
==============================================================================
