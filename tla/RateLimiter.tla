----------------------------- MODULE RateLimiter -----------------------------
(***************************************************************************)
(* rateLimiter (internal/server/ratelimit.go), which guards POST           *)
(* /api/login: at most Max requests per address within a sliding window.   *)
(* allow and cleanup hold the mutex and read the clock under it, so each   *)
(* is one step.  An address without an entry in the map has an empty slice *)
(* of attempts; the elements of a slice are told apart by a number.        *)
(***************************************************************************)
EXTENDS Integers, FiniteSets

CONSTANTS
    Ip,         \* client addresses
    Window,     \* length of the window
    Max,        \* requests allowed within it
    MaxTime,    \* bound: the clock
    MaxAttempts \* bound: requests allowed in a behaviour

ASSUME LimiterAssumption ==
    /\ Window \in Nat \ {0}
    /\ Max \in Nat
    /\ MaxTime \in Nat
    /\ MaxAttempts \in Nat

VARIABLES
    now,
    attempts, \* per address, the slice of attempts
    allowed,  \* (history) every request that was allowed
    refused   \* (history) the addresses refused at the present time

limiterVars == <<now, attempts, allowed, refused>>

Attempt == [ip : Ip, time : Nat, number : Nat]

LimiterInit ==
    /\ now = 0
    /\ attempts = [ip \in Ip |-> {}]
    /\ allowed = {}
    /\ refused = {}

\* Mutant: an attempt made exactly one window ago still counts.
NotBeforeCutoff(times) == {a \in times : a.time >= now - Window}

\* Mutant: attempts expire one tick early.
ExpireEarly(times) == {a \in times : a.time > now - Window + 1}

\* t.After(cutoff)
Valid(times) == {a \in times : a.time > now - Window}

Allow(ip) ==
    LET valid == Valid(attempts[ip]) IN
    IF Cardinality(valid) >= Max
    THEN /\ attempts' = [attempts EXCEPT ![ip] = valid]
         /\ refused' = refused \cup {ip}
         /\ UNCHANGED <<now, allowed>>
    ELSE LET attempt == [ip |-> ip, time |-> now, number |-> Cardinality(allowed)] IN
         /\ Cardinality(allowed) < MaxAttempts
         /\ attempts' = [attempts EXCEPT ![ip] = valid \cup {attempt}]
         /\ allowed' = allowed \cup {attempt}
         /\ UNCHANGED <<now, refused>>

Cleanup ==
    /\ attempts' = [ip \in Ip |-> Valid(attempts[ip])]
    /\ UNCHANGED <<now, allowed, refused>>

Tick ==
    /\ now < MaxTime
    /\ now' = now + 1
    /\ refused' = {}
    /\ UNCHANGED <<attempts, allowed>>

LimiterNext ==
    \/ \E ip \in Ip : Allow(ip)
    \/ Cleanup
    \/ Tick

LimiterSpec == LimiterInit /\ [][LimiterNext]_limiterVars

-----------------------------------------------------------------------------
(* Properties.                                                             *)

\* The allowed requests of ip in the window that ends at time t.
InWindow(ip, t) == {a \in allowed : a.ip = ip /\ t - Window < a.time /\ a.time <= t}

LimiterTypeOK ==
    /\ now \in Nat
    /\ attempts \in [Ip -> SUBSET Attempt]
    /\ allowed \in SUBSET Attempt
    /\ refused \in SUBSET Ip

\* In no window, wherever it lies, are more than Max requests of one address
\* allowed, whenever cleanup runs in between ("allows at most max requests per
\* IP within the given sliding time window", ratelimit.go:21-22).
AtMostMax == \A ip \in Ip : \A t \in 0 .. now : Cardinality(InWindow(ip, t)) <= Max

\* A request is refused only if Max requests of its own address were allowed in
\* the window that ends now: no address is locked out by others or for longer.
RefusedOnlyWhenFull == \A ip \in refused : Cardinality(InWindow(ip, now)) >= Max

-----------------------------------------------------------------------------
(* The strengthening with which both are inductive.                        *)

\* The limiter remembers every allowed request that still counts, and nothing
\* that was not allowed.
Remembers ==
    \A ip \in Ip :
        /\ InWindow(ip, now) \subseteq attempts[ip]
        /\ attempts[ip] \subseteq {a \in allowed : a.ip = ip}

PastOnly ==
    /\ IsFiniteSet(allowed)
    /\ \A a \in allowed : a.time <= now /\ a.number < Cardinality(allowed)

LimiterIInv ==
    /\ LimiterTypeOK
    /\ PastOnly
    /\ Remembers
    /\ AtMostMax
    /\ RefusedOnlyWhenFull
==============================================================================
