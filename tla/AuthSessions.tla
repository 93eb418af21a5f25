----------------------------- MODULE AuthSessions -----------------------------
(***************************************************************************)
(* Password and sessions: auth.Store (internal/auth/store.go), the         *)
(* middleware (internal/auth/auth.go) and the handlers for login, logout   *)
(* and the change of the password (internal/server/auth_handlers.go and    *)
(* settings_handlers.go).                                                  *)
(*                                                                         *)
(* Every SQL statement is a step of its own: no handler uses a             *)
(* transaction.  A hash is as good as what was hashed, so the database     *)
(* holds the password and the tokens themselves.                           *)
(***************************************************************************)
EXTENDS Naturals

CONSTANTS
    Thread,          \* goroutines handling requests
    Token,           \* session tokens: random, so never issued twice
    NoToken,
    Password,        \* passwords of at least minPasswordLen characters
    ShortPassword,   \* passwords that are too short
    SessionDuration,
    MaxTime,         \* bound: the clock
    DbMayFail,       \* whether an SQL statement may fail
    Crashes          \* whether appx may be stopped in the middle of a request

ASSUME AuthAssumption ==
    /\ Password \cap ShortPassword = {}
    /\ NoToken \notin Token
    /\ SessionDuration \in Nat \ {0}
    /\ MaxTime \in Nat
    /\ DbMayFail \in BOOLEAN
    /\ Crashes \in BOOLEAN

VARIABLES
    now,
    password, \* settings.password_hash
    sessions, \* the sessions table: expires_at per token, 0 without a row
    request,  \* per goroutine, the request it handles
    origin,   \* (history) per token, the password its owner logged in with
    issued,   \* (history) tokens ever inserted
    revoked   \* (history) tokens whose row was deleted

authVars == <<now, password, sessions, request, origin, issued, revoked>>

Kind == {"login", "logout", "change", "other"}

RequestPc == {"idle", "check", "select", "slide", "handle", "set", "deleteAll", "create"}

Request == [pc : RequestPc, kind : Kind, token : Token \cup {NoToken},
            given : Password \cup ShortPassword, new : Password \cup ShortPassword]

Idle == [pc |-> "idle", kind |-> "other", token |-> NoToken,
         given |-> CHOOSE p \in Password : TRUE, new |-> CHOOSE p \in Password : TRUE]

HasRow(k) == sessions[k] > 0

AuthInit ==
    /\ now = 0
    /\ password \in Password
    /\ sessions = [k \in Token |-> 0]
    /\ request = [t \in Thread |-> Idle]
    /\ origin = [k \in Token |-> password]
    /\ issued = {}
    /\ revoked = {}

Goto(t, pc) == request' = [request EXCEPT ![t].pc = pc]

Done(t) == request' = [request EXCEPT ![t] = Idle]

\* The rows of ks are deleted.
Deleted(ks) ==
    /\ sessions' = [k \in Token |-> IF k \in ks THEN 0 ELSE sessions[k]]
    /\ revoked' = revoked \cup {k \in ks : HasRow(k)}

-----------------------------------------------------------------------------

StartLogin(t, p) ==
    /\ request[t].pc = "idle"
    /\ request' = [request EXCEPT ![t] = [Idle EXCEPT !.pc = "check", !.kind = "login", !.given = p]]
    /\ UNCHANGED <<now, password, sessions, origin, issued, revoked>>

\* A request with a session cookie.
StartRequest(t, kind, k, p, q) ==
    /\ request[t].pc = "idle"
    /\ k \in issued
    /\ request' = [request EXCEPT ![t] =
                    [pc |-> "select", kind |-> kind, token |-> k, given |-> p, new |-> q]]
    /\ UNCHANGED <<now, password, sessions, origin, issued, revoked>>

\* ValidSession: the SELECT and the comparison with the clock.
SelectSession(t) ==
    /\ request[t].pc = "select"
    /\ \/ now < sessions[request[t].token] /\ Goto(t, "slide")
       \/ (~(now < sessions[request[t].token]) \/ DbMayFail) /\ Done(t)
    /\ UNCHANGED <<now, password, sessions, origin, issued, revoked>>

\* Mutant: the row is written back whether or not it is still there.
SlideUpsert(t) ==
    /\ request[t].pc = "slide"
    /\ Goto(t, "handle")
    /\ sessions' = [sessions EXCEPT ![request[t].token] = now + SessionDuration]
    /\ UNCHANGED <<now, password, origin, issued, revoked>>

\* ValidSession: the UPDATE, whose error is ignored.
SlideExpiry(t) ==
    /\ request[t].pc = "slide"
    /\ Goto(t, "handle")
    /\ \/ /\ HasRow(request[t].token)
          /\ sessions' = [sessions EXCEPT ![request[t].token] = now + SessionDuration]
       \/ /\ ~HasRow(request[t].token) \/ DbMayFail
          /\ UNCHANGED sessions
    /\ UNCHANGED <<now, password, origin, issued, revoked>>

\* The handler behind the middleware begins.
Handle(t) ==
    /\ request[t].pc = "handle"
    /\ \/ /\ request[t].kind = "other"
          /\ Done(t)
          /\ UNCHANGED <<sessions, revoked>>
       \/ /\ request[t].kind = "change"
          /\ Goto(t, "check")
          /\ UNCHANGED <<sessions, revoked>>
       \/ /\ request[t].kind = "logout"
          /\ Done(t)
          /\ Deleted({request[t].token}) \/ (DbMayFail /\ UNCHANGED <<sessions, revoked>>)
    /\ UNCHANGED <<now, password, origin, issued>>

\* CheckPassword, for a login and for a change.
CheckPassword(t) ==
    /\ request[t].pc = "check"
    /\ \/ /\ request[t].given = password
          /\ Goto(t, IF request[t].kind = "login" THEN "create" ELSE "set")
       \/ (request[t].given # password \/ DbMayFail) /\ Done(t)
    /\ UNCHANGED <<now, password, sessions, origin, issued, revoked>>

\* SetPassword refuses short passwords.
SetPassword(t) ==
    /\ request[t].pc = "set"
    /\ \/ /\ request[t].new \in Password
          /\ password' = request[t].new
          /\ Goto(t, "deleteAll")
       \/ /\ request[t].new \in ShortPassword \/ DbMayFail
          /\ Done(t)
          /\ UNCHANGED password
    /\ UNCHANGED <<now, sessions, origin, issued, revoked>>

DeleteAllSessions(t) ==
    /\ request[t].pc = "deleteAll"
    /\ Deleted(Token) \/ (DbMayFail /\ UNCHANGED <<sessions, revoked>>)
    /\ Goto(t, "create")
    /\ UNCHANGED <<now, password, origin, issued>>

\* CreateSession, at the end of a login and of a change.
CreateSession(t) ==
    /\ request[t].pc = "create"
    /\ Done(t)
    /\ \/ \E k \in Token \ issued :
            /\ sessions' = [sessions EXCEPT ![k] = now + SessionDuration]
            /\ issued' = issued \cup {k}
            /\ origin' = [origin EXCEPT ![k] =
                            IF request[t].kind = "login" THEN request[t].given ELSE request[t].new]
       \/ DbMayFail /\ UNCHANGED <<sessions, issued, origin>>
    /\ UNCHANGED <<now, password, revoked>>

\* Every hour.
CleanExpiredSessions ==
    /\ Deleted({k \in Token : HasRow(k) /\ sessions[k] < now})
    /\ UNCHANGED <<now, password, request, origin, issued>>

Tick ==
    /\ now < MaxTime
    /\ now' = now + 1
    /\ UNCHANGED <<password, sessions, request, origin, issued, revoked>>

\* appx is stopped and started again; CleanExpiredSessions runs at startup.
Restart ==
    /\ Crashes
    /\ request' = [t \in Thread |-> Idle]
    /\ \/ Deleted({k \in Token : HasRow(k) /\ sessions[k] < now})
       \/ DbMayFail /\ UNCHANGED <<sessions, revoked>>
    /\ UNCHANGED <<now, password, origin, issued>>

AuthNext ==
    \/ \E t \in Thread :
        \/ \E p \in Password : StartLogin(t, p)
        \/ \E kind \in Kind \ {"login"}, k \in Token, p \in Password, q \in Password \cup ShortPassword :
              StartRequest(t, kind, k, p, q)
        \/ SelectSession(t)
        \/ SlideExpiry(t)
        \/ Handle(t)
        \/ CheckPassword(t)
        \/ SetPassword(t)
        \/ DeleteAllSessions(t)
        \/ CreateSession(t)
    \/ CleanExpiredSessions
    \/ Tick
    \/ Restart

AuthSpec == AuthInit /\ [][AuthNext]_authVars

-----------------------------------------------------------------------------
(* Properties.                                                             *)

\* Types; in particular the stored password is never one that is too short.
AuthTypeOK ==
    /\ now \in Nat
    /\ password \in Password
    /\ sessions \in [Token -> Nat]
    /\ request \in [Thread -> Request]
    /\ origin \in [Token -> Password \cup ShortPassword]
    /\ issued \in SUBSET Token
    /\ revoked \in SUBSET Token

\* A session that was deleted, by logout, by a change of the password or at its
\* expiry, never comes back, though another request with its token may be
\* between the SELECT and the UPDATE of ValidSession.
RevokedStaysOut == \A k \in revoked : ~HasRow(k)

\* When no change of the password is under way, every session that is accepted
\* was opened with the present password ("invalidates all existing sessions
\* (forcing re-login on all devices)", settings_handlers.go:14).
OldSessionsGone ==
    (\A t \in Thread : request[t].pc # "deleteAll") =>
        \A k \in Token : now < sessions[k] => origin[k] = password
==============================================================================
