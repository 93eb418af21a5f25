-------------------------- MODULE AuthSessionsProofs --------------------------
(* Proofs about module AuthSessions, for any number of goroutines, tokens  *)
(* and passwords.                                                          *)
EXTENDS AuthSessions, TLAPS

-----------------------------------------------------------------------------
(* Revoked sessions.                                                       *)

\* RevokedStaysOut alone is not inductive: CreateSession could insert a revoked
\* token again.  It does not, because a token that has, or had, a row was issued.
RowsIssued ==
    /\ \A k \in Token : HasRow(k) => k \in issued
    /\ revoked \subseteq issued

\* A request behind the middleware carries a token, so its UPDATE and its DELETE
\* are about one row.
CookieInv ==
    \A t \in Thread : request[t].pc \in {"select", "slide", "handle"} => request[t].token \in Token

RequestsOK == request \in [Thread -> Request] /\ CookieInv

AuthIInv == AuthTypeOK /\ CookieInv /\ RowsIssued /\ RevokedStaysOut

\* A goroutine that is done has a request of the right type.
LEMMA IdleTyped ==
  ASSUME AuthTypeOK
  PROVE  Idle \in Request
<1>1. (CHOOSE p \in Password : TRUE) \in Password
  BY DEF AuthTypeOK
<1> QED
  BY <1>1 DEF Idle, Request, RequestPc, Kind

LEMMA AuthInitial == AuthInit => AuthIInv
<1> SUFFICES ASSUME AuthInit PROVE AuthIInv
  OBVIOUS
<1>1. (CHOOSE p \in Password : TRUE) \in Password
  BY DEF AuthInit
<1>2. Idle \in Request
  BY <1>1 DEF Idle, Request, RequestPc, Kind
<1> QED
  <2>1. CookieInv
    BY <1>2 DEF AuthInit, CookieInv, Idle
  <2> QED
    BY <1>2, <2>1, AuthAssumption DEF AuthInit, AuthIInv, AuthTypeOK, RowsIssued, RevokedStaysOut, HasRow

\* Deleting rows keeps the invariant.
LEMMA DeletedKeeps ==
  ASSUME AuthIInv, NEW ks \in SUBSET Token, Deleted(ks), UNCHANGED <<now, password, origin, issued>>,
         RequestsOK'
  PROVE  AuthIInv'
<1> USE DEF AuthIInv, AuthTypeOK, RowsIssued, RevokedStaysOut, HasRow, Deleted, RequestsOK
<1>1. AuthTypeOK'
  OBVIOUS
<1>2. RowsIssued'
  OBVIOUS
<1>3. RevokedStaysOut'
  OBVIOUS
<1> QED
  BY <1>1, <1>2, <1>3

\* A step that changes neither rows nor tokens keeps the invariant.
LEMMA RequestKeeps ==
  ASSUME AuthIInv, UNCHANGED <<sessions, origin, issued, revoked>>,
         now' \in Nat, password' \in Password, RequestsOK'
  PROVE  AuthIInv'
BY DEF AuthIInv, AuthTypeOK, RequestsOK, RowsIssued, RevokedStaysOut, HasRow

LEMMA AuthStep == AuthIInv /\ [AuthNext]_authVars => AuthIInv'
<1> SUFFICES ASSUME AuthIInv, [AuthNext]_authVars PROVE AuthIInv'
  OBVIOUS
<1> USE AuthAssumption
<1>0. AuthTypeOK /\ request \in [Thread -> Request] /\ Idle \in Request /\ Idle.pc = "idle" /\ CookieInv
  BY IdleTyped DEF AuthIInv, AuthTypeOK, Idle
<1>a. ASSUME NEW t \in Thread, NEW pc \in RequestPc, Goto(t, pc),
             pc \in {"slide", "handle"} => request[t].token \in Token, pc # "select"
      PROVE  RequestsOK'
  <2>1. request' \in [Thread -> Request]
    BY <1>0, <1>a DEF Goto, Request
  <2>2. CookieInv'
    BY <1>0, <1>a DEF Goto, Request, CookieInv
  <2> QED
    BY <2>1, <2>2 DEF RequestsOK
<1>b. ASSUME NEW t \in Thread, Done(t) PROVE RequestsOK'
  BY <1>0, <1>b DEF Done, RequestsOK, CookieInv
<1>1. ASSUME NEW t \in Thread, NEW p \in Password, StartLogin(t, p) PROVE AuthIInv'
  <2>1. [Idle EXCEPT !.pc = "check", !.kind = "login", !.given = p] \in Request
    BY <1>0 DEF Request, RequestPc, Kind
  <2>2. RequestsOK'
    BY <1>0, <1>1, <2>1 DEF StartLogin, RequestsOK, CookieInv
  <2> QED
    BY <1>0, <1>1, <2>2, RequestKeeps DEF StartLogin, AuthTypeOK
<1>2. ASSUME NEW t \in Thread, NEW kind \in Kind, NEW k \in Token, NEW p \in Password,
             NEW q \in Password \cup ShortPassword, StartRequest(t, kind, k, p, q)
      PROVE  AuthIInv'
  <2>1. RequestsOK'
    <3>1. request' \in [Thread -> Request]
      BY <1>0, <1>2 DEF StartRequest, Request, RequestPc
    <3>2. CookieInv'
      BY <1>0, <1>2 DEF StartRequest, CookieInv
    <3> QED
      BY <3>1, <3>2 DEF RequestsOK
  <2> QED
    BY <1>0, <1>2, <2>1, RequestKeeps DEF StartRequest, AuthTypeOK
<1>3. ASSUME NEW t \in Thread, SelectSession(t) PROVE AuthIInv'
  <2>1. RequestsOK'
    BY <1>0, <1>3, <1>a, <1>b DEF SelectSession, RequestPc, CookieInv
  <2> QED
    BY <1>0, <1>3, <2>1, RequestKeeps DEF SelectSession, AuthTypeOK
<1>4. ASSUME NEW t \in Thread, SlideExpiry(t) PROVE AuthIInv'
  <2>1. RequestsOK'
    BY <1>0, <1>4, <1>a DEF SlideExpiry, RequestPc, CookieInv
  <2>2. CASE UNCHANGED sessions
    BY <1>0, <1>4, <2>1, <2>2, RequestKeeps DEF SlideExpiry, AuthTypeOK
  <2>3. CASE HasRow(request[t].token) /\
             sessions' = [sessions EXCEPT ![request[t].token] = now + SessionDuration]
    <3>1. request[t].token \in Token
      BY <1>0, <1>4 DEF SlideExpiry, CookieInv
    <3> QED
      BY <1>0, <1>4, <2>1, <2>3, <3>1
      DEF SlideExpiry, AuthIInv, AuthTypeOK, RequestsOK, RowsIssued, RevokedStaysOut, HasRow
  <2> QED
    BY <1>4, <2>2, <2>3 DEF SlideExpiry
<1>5. ASSUME NEW t \in Thread, Handle(t) PROVE AuthIInv'
  <2>1. RequestsOK'
    BY <1>5, <1>a, <1>b DEF Handle, RequestPc
  <2>2. CASE UNCHANGED <<sessions, revoked>>
    BY <1>0, <1>5, <2>1, <2>2, RequestKeeps DEF Handle, AuthTypeOK
  <2>3. CASE Deleted({request[t].token})
    <3>1. request[t].token \in Token
      BY <1>0, <1>5 DEF Handle, CookieInv
    <3> QED
      BY <1>5, <2>1, <2>3, <3>1, DeletedKeeps DEF Handle
  <2> QED
    BY <1>5, <2>2, <2>3 DEF Handle
<1>6. ASSUME NEW t \in Thread, CheckPassword(t) PROVE AuthIInv'
  <2>1. RequestsOK'
    BY <1>6, <1>a, <1>b DEF CheckPassword, RequestPc
  <2> QED
    BY <1>0, <1>6, <2>1, RequestKeeps DEF CheckPassword, AuthTypeOK
<1>7. ASSUME NEW t \in Thread, SetPassword(t) PROVE AuthIInv'
  <2>1. RequestsOK'
    BY <1>7, <1>a, <1>b DEF SetPassword, RequestPc
  <2> QED
    BY <1>0, <1>7, <2>1, RequestKeeps DEF SetPassword, AuthTypeOK
<1>8. ASSUME NEW t \in Thread, DeleteAllSessions(t) PROVE AuthIInv'
  <2>1. RequestsOK'
    BY <1>8, <1>a DEF DeleteAllSessions, RequestPc
  <2>2. CASE UNCHANGED <<sessions, revoked>>
    BY <1>0, <1>8, <2>1, <2>2, RequestKeeps DEF DeleteAllSessions, AuthTypeOK
  <2>3. CASE Deleted(Token)
    BY <1>8, <2>1, <2>3, DeletedKeeps DEF DeleteAllSessions
  <2> QED
    BY <1>8, <2>2, <2>3 DEF DeleteAllSessions
<1>9. ASSUME NEW t \in Thread, CreateSession(t) PROVE AuthIInv'
  <2>1. RequestsOK'
    BY <1>9, <1>b DEF CreateSession
  <2>2. CASE UNCHANGED <<sessions, issued, origin>>
    BY <1>0, <1>9, <2>1, <2>2, RequestKeeps DEF CreateSession, AuthTypeOK
  <2>3. ASSUME NEW k \in Token \ issued,
               sessions' = [sessions EXCEPT ![k] = now + SessionDuration],
               issued' = issued \cup {k},
               origin' = [origin EXCEPT ![k] =
                            IF request[t].kind = "login" THEN request[t].given ELSE request[t].new]
        PROVE  AuthIInv'
    <3>1. request[t].given \in Password \cup ShortPassword /\ request[t].new \in Password \cup ShortPassword
      BY <1>0 DEF Request
    <3>2. AuthTypeOK'
      BY <1>0, <1>9, <2>1, <2>3, <3>1 DEF CreateSession, AuthTypeOK, RequestsOK
    <3>3. RowsIssued' /\ RevokedStaysOut'
      BY <1>0, <1>9, <2>3 DEF CreateSession, AuthIInv, AuthTypeOK, RowsIssued, RevokedStaysOut, HasRow
    <3> QED
      BY <2>1, <3>2, <3>3 DEF AuthIInv, RequestsOK
  <2> QED
    BY <1>9, <2>2, <2>3 DEF CreateSession
<1>10. CASE CleanExpiredSessions
  <2>1. RequestsOK'
    BY <1>0, <1>10 DEF CleanExpiredSessions, RequestsOK, CookieInv
  <2> QED
    BY <1>10, <2>1, DeletedKeeps DEF CleanExpiredSessions
<1>11. CASE Tick
  <2>1. RequestsOK'
    BY <1>0, <1>11 DEF Tick, RequestsOK, CookieInv
  <2> QED
    BY <1>0, <1>11, <2>1, RequestKeeps DEF Tick, AuthTypeOK
<1>12. CASE Restart
  <2>1. RequestsOK'
    BY <1>0, <1>12 DEF Restart, RequestsOK, CookieInv
  <2>2. CASE UNCHANGED <<sessions, revoked>>
    BY <1>0, <1>12, <2>1, <2>2, RequestKeeps DEF Restart, AuthTypeOK
  <2>3. CASE Deleted({k \in Token : HasRow(k) /\ sessions[k] < now})
    BY <1>12, <2>1, <2>3, DeletedKeeps DEF Restart
  <2> QED
    BY <1>12, <2>2, <2>3 DEF Restart
<1>13. CASE UNCHANGED authVars
  <2>1. RequestsOK'
    BY <1>0, <1>13 DEF authVars, RequestsOK, CookieInv
  <2> QED
    BY <1>0, <1>13, <2>1, RequestKeeps DEF authVars, AuthTypeOK
<1> QED
  BY <1>1, <1>2, <1>3, <1>4, <1>5, <1>6, <1>7, <1>8, <1>9, <1>10, <1>11, <1>12, <1>13 DEF AuthNext

\* The types of the tables and of the requests; the stored password is never one
\* that is too short.
THEOREM AuthTypeCorrect == AuthSpec => []AuthTypeOK
BY AuthInitial, AuthStep, PTL DEF AuthSpec, AuthIInv

\* A session that was deleted never comes back, whatever other requests with its
\* token are doing, whichever statements fail and whenever appx is stopped
\* (ValidSession's UPDATE, auth/store.go:165).
THEOREM RevokedNeverReturns == AuthSpec => []RevokedStaysOut
BY AuthInitial, AuthStep, PTL DEF AuthSpec, AuthIInv
==============================================================================
